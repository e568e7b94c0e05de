----------------------------- MODULE SingleKill -----------------------------
(***************************************************************************)
(* `kick kill --pid` and `kick kill --port` on Linux: run_kill_with of       *)
(* src/src/cli/kill.rs with terminate_handle_checked (process/linux.rs).    *)
(*                                                                         *)
(* The user reads a preview and confirms one process.  kick then pins it by  *)
(* a pidfd, takes a fresh snapshot (module Observation), compares what it   *)
(* shows with what was confirmed (module KillPorts), stops the process,     *)
(* reads its identity and name once more, and signals or resumes it.  The   *)
(* world moves all the while, and for as long as the user reads.            *)
(***************************************************************************)
EXTENDS KillPorts

CONSTANTS
    RootProc,      \* the incarnation the preview shows
    Requests,      \* the kills to consider
    Protected,     \* protected program names
    Faults         \* what else may go wrong: "interrupt", "read"

RootPid == PidOf[RootProc]

\* named: the preview could read the name of the process.
Request == [target : Target, mode : {"terminate", "force"}, yes : BOOLEAN, named : BOOLEAN]

ASSUME SingleKillAssumption ==
    /\ RootProc \in Proc /\ RootPid \notin Unsafe
    /\ Requests \subseteq Request /\ Protected \subseteq Name

VARIABLES
    request,      \* the kill asked for
    step,         \* the next step of the command
    confirmed,    \* the KillTarget the user confirmed
    pin,          \* the incarnation the pidfd pins
    fresh,        \* the KillTarget of the fresh snapshot
    before,       \* process state read before SIGSTOP
    evidence,     \* marker and name read after it stopped
    outcome,      \* TerminationOutcome
    thawFailed,   \* its SIGCONT was refused
    stopped,      \* history: incarnations kick's SIGSTOP found running
    continued,    \* history: incarnations kick's SIGCONT resumed
    signalled     \* history: incarnations that accepted the terminating signal

planVars == <<request, confirmed>>
signalVars == <<stopped, continued, signalled>>
commandVars == <<planVars, step, pin, fresh, before, evidence, outcome, thawFailed, signalVars>>
vars == <<observationVars, commandVars>>

Steps == {"prompt", "prepare", "collect", "state", "stop", "ack", "marker", "name_", "again_",
          "signal", "thaw", "done"}
Outcomes == {"none", "Success", "Cancelled", "ProtectedProcess", "UnsafePid", "AlreadyExited",
             "PermissionDenied", "OwnershipUnavailable", "TargetChanged", "UnknownFailure"}

\* KillTarget, as far as a decision reads it.
Shown == [who : Proc \cup {NoProc}, name : Name \cup {NoName}, endpoints : SUBSET Endpoint,
          protected : BOOLEAN]
Showing(who, known, endpoints) ==
    [who |-> who, name |-> known, endpoints |-> endpoints, protected |-> known \in Protected]
NoTarget == Showing(NoProc, NoName, {})
NoEvidence == [who |-> NoProc, name |-> NoName]
NoState == [who |-> NoProc, stopped |-> FALSE]

End(result) == step' = "done" /\ outcome' = result

\* refuse_stopped_termination: resume the process if this kill stopped it.
Refuse(result, resume) == /\ outcome' = result
                          /\ step' = IF resume THEN "thaw" ELSE "done"

-----------------------------------------------------------------------------
\* Confirmation and pin

\* --yes skips the prompt, but never for a protected process.
Confirm ==
    /\ step = "prompt"
    /\ IF request.yes /\ confirmed.protected THEN End("ProtectedProcess")
       ELSE step' = "prepare" /\ UNCHANGED outcome
    /\ UNCHANGED <<observationVars, planVars, pin, fresh, before, evidence, thawFailed, signalVars>>

Cancel ==
    /\ step = "prompt" /\ ~request.yes
    /\ End("Cancelled")
    /\ UNCHANGED <<observationVars, planVars, pin, fresh, before, evidence, thawFailed, signalVars>>

\* prepare_termination: pidfd_open, by number.
Prepare ==
    /\ step = "prepare"
    /\ pin' = Occupant(RootPid)
    /\ IF pin' = NoProc THEN End("AlreadyExited") ELSE step' = "collect" /\ UNCHANGED outcome
    /\ UNCHANGED <<observationVars, planVars, fresh, before, evidence, thawFailed, signalVars>>

-----------------------------------------------------------------------------
\* Revalidation

CollectFresh ==
    /\ step = "collect" /\ CollectorStep
    /\ UNCHANGED commandVars

\* resolve_kill_target over the rows the gate let through.
FreshOwners == Owned(Rows(request.target))
FreshTarget ==
    LET pid == Earliest(FreshOwners)
    IN  Showing(Who(pid), snapshot.reads[pid].name,
                {EndpointOf[row[1]] : row \in {r \in Rows(request.target) : r[2] = pid}})

OneOwner == Cardinality(FreshOwners) = 1

\* validate_single_delivery_evidence: the same incarnation, a name, and the
\* confirmed one if the preview had one.
SameProcess(now) == /\ now.who = RootProc /\ now.name # NoName
                    /\ confirmed.name \in {NoName, now.name}

\* target_still_matches_confirmation: ports may be added, not lost.
PortsUnchecked(now) == TRUE
StillOwnsPorts(now) == confirmed.endpoints \subseteq now.endpoints

\* After the gate every row has an owner, so that OwnershipUnavailable is the
\* gate's answer alone.
Objection ==
    IF phase = "failed" \/ Authority(request.target) \in {"raced", "partial"} THEN "UnknownFailure"
    ELSE IF Authority(request.target) = "denied" THEN "OwnershipUnavailable"
    ELSE IF ~OneOwner THEN "TargetChanged"
    ELSE IF Earliest(FreshOwners) \in Unsafe THEN "UnsafePid"
    ELSE IF ~SameProcess(FreshTarget) THEN "UnknownFailure"
    ELSE IF ~StillOwnsPorts(FreshTarget) THEN "TargetChanged"
    ELSE IF FreshTarget.protected /\ ~confirmed.protected THEN "ProtectedProcess"
    ELSE "none"

\* The snapshot is dropped when the rows are taken from it.
Revalidate ==
    /\ step = "collect" /\ phase \in {"taken", "failed"}
    /\ IF Objection = "none"
       THEN fresh' = FreshTarget /\ step' = "state" /\ UNCHANGED outcome
       ELSE End(Objection) /\ UNCHANGED fresh
    /\ phase' = "idle" /\ snapshot' = NoSnapshot
    /\ UNCHANGED <<worldVars, blind, attempt, pass, passVars, first, missed, historyVars,
                   planVars, pin, before, evidence, thawFailed, signalVars>>

-----------------------------------------------------------------------------
\* linux_stop_pidfd

Frame == UNCHANGED <<collectorVars, historyVars, planVars, pin, fresh>>

ReadState ==
    /\ step = "state"
    /\ LET now == Seen(RootPid)
       IN  IF ~Alive(now) THEN End("AlreadyExited") /\ UNCHANGED before
           ELSE IF now # fresh.who THEN End("TargetChanged") /\ UNCHANGED before
           ELSE /\ before' = [who |-> now, stopped |-> status[now] = "stopped"]
                /\ step' = "stop" /\ UNCHANGED outcome
    /\ UNCHANGED <<worldVars, evidence, thawFailed, signalVars>> /\ Frame

\* Every signal goes through the pidfd.
NumberHolder == IF Occupant(RootPid) = NoProc THEN pin ELSE Occupant(RootPid)
SignalTarget == pin

SubmitStop ==
    /\ step = "stop"
    /\ LET p == SignalTarget
       IN  \/ Gone(p) /\ End("AlreadyExited") /\ UNCHANGED <<status, stopped>>
           \/ Forbidden(p) /\ End("PermissionDenied") /\ UNCHANGED <<status, stopped>>
           \/ /\ ~Gone(p) /\ ~Forbidden(p)
              /\ status' = [status EXCEPT ![p] = StopStatus(p)]
              /\ stopped' = IF status[p] \in Active THEN stopped \cup {p} ELSE stopped
              /\ step' = "ack" /\ UNCHANGED outcome
    /\ UNCHANGED <<parent, pgrp, name, pending, meddled, budget, holds, before, evidence,
                   thawFailed, continued, signalled>> /\ Frame

\* The stop, and so the duty to resume, is this kill's if it saw the process run.
AlwaysTransitioned == TRUE
Transitioned == ~before.stopped

\* Poll /proc/<pid>/stat by number until it shows the process stopped or gone.
Acknowledge ==
    /\ step = "ack"
    /\ LET now == Seen(RootPid)
       IN  \/ ~(now = before.who /\ Alive(now)) /\ End("AlreadyExited")
           \/ now = before.who /\ status[now] = "stopped" /\ step' = "marker" /\ UNCHANGED outcome
           \/ now = before.who /\ status[now] \in Active /\ UNCHANGED <<step, outcome>>
    /\ UNCHANGED <<worldVars, before, evidence, thawFailed, signalVars>> /\ Frame

\* 500 milliseconds have passed, before SIGSTOP is sent or while polling.
CheckedOnce == {"stop"}
Timed == {"stop", "ack"}

DeadlinePasses ==
    /\ step \in Timed
    /\ Refuse("UnknownFailure", step = "ack" /\ Transitioned)
    /\ UNCHANGED <<worldVars, before, evidence, thawFailed, signalVars>> /\ Frame

\* linux_state_failure: only a missing file says that the process exited.
FailureMeans == {"PermissionDenied", "UnknownFailure"}

StateReadFails ==
    /\ "read" \in Faults /\ budget > 0 /\ budget' = budget - 1
    /\ step \in {"state", "ack"}
    /\ \E result \in FailureMeans : Refuse(result, step = "ack" /\ Transitioned)
    /\ Unmoved
    /\ UNCHANGED <<holds, before, evidence, thawFailed, signalVars>> /\ Frame

-----------------------------------------------------------------------------
\* read_fresh_process_evidence and check_final_evidence

Reading == step \in {"marker", "name_", "again_"}

ReadFinalMarker ==
    /\ step = "marker"
    /\ LET now == Seen(RootPid)
       IN  IF now = NoProc THEN Refuse("UnknownFailure", Transitioned) /\ UNCHANGED evidence
           ELSE /\ evidence' = [NoEvidence EXCEPT !.who = now]
                /\ step' = "name_" /\ UNCHANGED outcome
    /\ UNCHANGED <<worldVars, before, thawFailed, signalVars>> /\ Frame

ReadFinalName ==
    /\ step = "name_"
    /\ LET now == Seen(RootPid)
       IN  IF now = NoProc THEN Refuse("UnknownFailure", Transitioned) /\ UNCHANGED evidence
           ELSE /\ evidence' = [evidence EXCEPT !.name = name[now]]
                /\ step' = "again_" /\ UNCHANGED outcome
    /\ UNCHANGED <<worldVars, before, thawFailed, signalVars>> /\ Frame

NameUnchecked(read) == TRUE
NameAsFresh(read) == read = fresh.name

\* The marker again, then what the two together prove.
CheckEvidence ==
    /\ step = "again_"
    /\ IF \/ Seen(RootPid) # evidence.who
          \/ evidence.who # fresh.who \/ ~NameAsFresh(evidence.name)
       THEN Refuse("UnknownFailure", Transitioned)
       ELSE IF evidence.name \in Protected /\ ~fresh.protected
       THEN Refuse("ProtectedProcess", Transitioned)
       ELSE step' = "signal" /\ UNCHANGED outcome
    /\ UNCHANGED <<worldVars, before, evidence, thawFailed, signalVars>> /\ Frame

EvidenceFails ==
    /\ "read" \in Faults /\ budget > 0 /\ budget' = budget - 1
    /\ Reading
    /\ \E result \in FailureMeans : Refuse(result, Transitioned)
    /\ Unmoved
    /\ UNCHANGED <<holds, before, evidence, thawFailed, signalVars>> /\ Frame

-----------------------------------------------------------------------------
\* finish_stopped_termination

Signal ==
    /\ step = "signal"
    /\ LET p == SignalTarget
       IN  \/ Gone(p) /\ Refuse("AlreadyExited", Transitioned) /\ UNCHANGED <<pending, signalled>>
           \/ Forbidden(p) /\ Refuse("PermissionDenied", Transitioned)
              /\ UNCHANGED <<pending, signalled>>
           \/ /\ ~Gone(p) /\ ~Forbidden(p)
              /\ pending' = [pending EXCEPT ![p] = @ \cup
                              {IF request.mode = "force" THEN "KILL" ELSE "TERM"}]
              /\ signalled' = signalled \cup {p}
              /\ Refuse("Success", request.mode = "terminate")
    /\ UNCHANGED <<status, parent, pgrp, name, meddled, budget, holds, before, evidence,
                   thawFailed, stopped, continued>> /\ Frame

\* SIGINT, SIGTERM or SIGHUP was pending for kick when it looked.
Interrupted ==
    /\ "interrupt" \in Faults
    /\ step = "signal"
    /\ Refuse("UnknownFailure", Transitioned)
    /\ UNCHANGED <<worldVars, before, evidence, thawFailed, signalVars>> /\ Frame

\* outcome_after_thaw
Thaw ==
    /\ step = "thaw"
    /\ step' = "done"
    /\ LET p == SignalTarget
       IN  IF Gone(p) THEN UNCHANGED <<status, continued, thawFailed>>
           ELSE IF Forbidden(p) THEN thawFailed' = TRUE /\ UNCHANGED <<status, continued>>
           ELSE /\ status' = [status EXCEPT ![p] = ContStatus(p)]
                /\ continued' = IF status[p] \in {"stopping", "stopped"}
                                THEN continued \cup {p} ELSE continued
                /\ UNCHANGED thawFailed
    /\ UNCHANGED <<parent, pgrp, name, pending, meddled, budget, holds, before, evidence,
                   outcome, stopped, signalled>> /\ Frame

-----------------------------------------------------------------------------
\* The whole system

Command ==
    \/ Confirm \/ Cancel \/ Prepare \/ CollectFresh \/ Revalidate
    \/ ReadState \/ SubmitStop \/ Acknowledge \/ DeadlinePasses \/ StateReadFails
    \/ ReadFinalMarker \/ ReadFinalName \/ CheckEvidence \/ EvidenceFails
    \/ Signal \/ Interrupted \/ Thaw

\* The world is followed until the command has its outcome.
World == step # "done" /\ Elsewhere /\ UNCHANGED commandVars
Terminated == step = "done" /\ UNCHANGED vars

\* The preview resolved: the process runs or is stopped, has a socket a kill may
\* target, and is the only holder of the port asked for.
Targeted(p) == {s \in holds[p] \cap Listening :
                    request.target.mode = "port" => PortOfSocket(s) = request.target.port}
PreviewResolves ==
    /\ status[RootProc] \in Live /\ Targeted(RootProc) # {}
    /\ IF request.target.mode = "pid" THEN request.target.pid = RootPid
       ELSE \A p \in Proc \ {RootProc} : Targeted(p) = {}

Init ==
    /\ ObservationInit
    /\ request \in Requests /\ PreviewResolves
    /\ step = "prompt"
    /\ confirmed = Showing(RootProc, IF request.named THEN name[RootProc] ELSE NoName,
                           {EndpointOf[s] : s \in Targeted(RootProc)})
    /\ pin = NoProc /\ fresh = NoTarget /\ before = NoState /\ evidence = NoEvidence
    /\ outcome = "none" /\ thawFailed = FALSE
    /\ stopped = {} /\ continued = {} /\ signalled = {}

Next == Command \/ World \/ Terminated
Spec == Init /\ [][Next]_vars

\* kick's own steps are taken once the user has answered, and its clock runs.
\* The user need never answer.
FairSpec == Spec /\ WF_vars(Command /\ step # "prompt")

-----------------------------------------------------------------------------
\* Properties

\* Types of the command's variables.
TypeOK ==
    /\ ObservationTypeOK
    /\ request \in Requests /\ step \in Steps
    /\ confirmed \in Shown /\ fresh \in Shown
    /\ pin \in Proc \cup {NoProc}
    /\ before \in [who : Proc \cup {NoProc}, stopped : BOOLEAN]
    /\ evidence \in [who : Proc \cup {NoProc}, name : Name \cup {NoName}]
    /\ outcome \in Outcomes /\ thawFailed \in BOOLEAN
    /\ stopped \subseteq Proc /\ continued \subseteq Proc /\ signalled \subseteq Proc

\* No process but the one the preview showed is stopped, resumed or signalled,
\* whoever gets its number while the user reads or kick collects
\* (process/linux.rs 27-30).
OnlyConfirmedTouched == stopped \cup continued \cup signalled \subseteq {RootProc}

\* A process is stopped only after it was found to hold every endpoint the user
\* confirmed, in the pass of reads that was published (process.rs 707-710).
TouchedHoldsConfirmedPorts ==
    stopped \cup signalled # {} =>
        \A endpoint \in confirmed.endpoints :
            \E edge \in heldSince : edge[2] = RootProc /\ EndpointOf[edge[1]] = endpoint

\* A port kill signals a process only if nobody else held the port during the
\* whole snapshot: it would survive the kill and keep the port (collector.rs
\* 244-250, 391-399).
NoCoHolderLeft ==
    request.target.mode = "port" /\ signalled # {} =>
        \A edge \in heldThrough :
            edge[1] \in Listening /\ PortOfSocket(edge[1]) = request.target.port =>
                edge[2] = RootProc

\* What gets the signal runs, at that moment, the program the user confirmed, or
\* in any case none that is protected unless they confirmed that it is; --yes
\* never does.  Somebody else's SIGCONT may let it exec in between.
PolicyHeldAtDelivery ==
    [][\A p \in signalled' \ (signalled \cup meddled) :
         /\ confirmed.name # NoName => name[p] = confirmed.name
         /\ name[p] \in Protected => confirmed.protected /\ ~request.yes]_vars

\* When the command returns it leaves no process stopped that it stopped itself,
\* and a process it sent SIGTERM can take it: it runs, is gone, or the failed
\* resumption is reported (process.rs 884-939).
NoStoppedSurvivor ==
    step = "done" =>
        \A p \in (stopped \cup signalled) \ meddled :
            \/ status[p] \notin {"stopping", "stopped"}
            \/ "KILL" \in pending[p]
            \/ thawFailed

\* A process that others had stopped is not resumed unless SIGTERM was delivered
\* (platform-support.md 150-154).
OthersLeftStopped == continued \subseteq stopped \cup signalled \cup meddled

\* "already exited before termination was sent" is only said of a process that
\* has exited (process.rs 231-236).
ReportedExitIsReal == outcome = "AlreadyExited" => ~Alive(RootProc)

\* What a kill of one process signals is what was confirmed to hold the ports,
\* and all that holds them.
SocketsAsConfirmed == TouchedHoldsConfirmedPorts /\ NoCoHolderLeft

\* However it ends, it undoes exactly the stops it made, and says so truly.
EndIsHonest == NoStoppedSurvivor /\ OthersLeftStopped /\ ReportedExitIsReal

\* Once the user has answered, the command returns: attempts are bounded and the
\* deadline ends the wait for a stop that never comes.
AnsweredIsDone == step # "prompt" ~> step = "done"
=============================================================================
