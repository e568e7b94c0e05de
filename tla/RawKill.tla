------------------------------- MODULE RawKill ------------------------------
(***************************************************************************)
(* Ending one confirmed process on macOS: terminate_handle_checked_platform *)
(* of src/src/process/macos.rs.                                             *)
(*                                                                         *)
(* There is no pidfd: a signal goes to whoever has the number when it is     *)
(* sent.  kick reads the start marker, stops the process, waits until it is   *)
(* seen stopped, reads marker and name again, and only then signals it.      *)
(* Between any reading and the signal after it the number may change hands.  *)
(***************************************************************************)
EXTENDS Kernel

CONSTANTS
    Target,       \* the incarnation that was confirmed
    Known,        \* the name it was confirmed under
    Protected,    \* protected program names
    Mode,         \* the signals to consider: "TERM", "KILL"
    Faults        \* what else may go wrong, each costing one disturbance

\* Whoever was confirmed had been seen, so it is born when the kill begins.
ASSUME RawKillAssumption ==
    /\ Target \in Proc /\ Known \in Name
    /\ \A t \in Start : t.status[Target] # "unborn"
    /\ Protected \subseteq Name /\ Mode \subseteq {"TERM", "KILL"}

VARIABLES
    step,
    mode,
    before,       \* UnixProcessState read before SIGSTOP
    late,         \* the time to see the stop is over
    transitioned, \* the stop was this kill's doing
    evidence,     \* FreshProcessEvidence
    rollback,     \* the marker a SIGCONT must find
    outcome,      \* what the kill has come to,
    thawFailed,   \* and whether ThawFailed is wrapped around it
    read,         \* history: whom the last reading of the marker showed
    delivered,    \* history: who accepted the signal
    held          \* history: whom SIGSTOP found running

killVars == <<step, mode, before, late, transitioned, evidence, rollback, outcome, thawFailed>>
historyVars == <<read, delivered, held>>
vars == <<kernelVars, killVars, historyVars>>

number == PidOf[Target]
Holder == Occupant(number)
Fault(kind) == kind \in Faults /\ budget > 0 /\ budget' = budget - 1
NoState == [who |-> NoProc, stopped |-> FALSE]

RawKillTypeOK ==
    /\ step \in {"prepare", "before", "stop", "poll", "identity", "evidence", "again", "deliver", "check",
                 "cont", "done"}
    /\ mode \in Mode
    /\ before.who \in Proc \cup {NoProc} /\ {rollback, read} \subseteq Proc \cup {NoProc}
    /\ {delivered, held} \subseteq SUBSET Proc

\* macos_process_state: marker and state of whoever has the number; a zombie has exited.
Exited(p) == p \in Proc => status[p] = "zombie"

Ends(result) == step' = "done" /\ outcome' = result /\ UNCHANGED thawFailed
\* The kill goes no further, and SIGCONT is to find marker.
RollsBack(result, marker) ==
    /\ step' = "check" /\ outcome' = result /\ rollback' = marker /\ UNCHANGED thawFailed
Keep == UNCHANGED <<outcome, thawFailed, rollback>>
Observes == UNCHANGED <<status, parent, pgrp, name, pending, meddled>>

-----------------------------------------------------------------------------
\* prepare_termination_platform, and the comparison with the confirmed marker
Prepare ==
    /\ step = "prepare"
    /\ \/ /\ Holder # NoProc /\ UNCHANGED budget
          /\ IF Holder = Target THEN step' = "before" /\ Keep
             ELSE Ends("TargetChanged") /\ UNCHANGED rollback
       \/ Holder = NoProc /\ Ends("AlreadyExited") /\ UNCHANGED <<budget, rollback>>
       \/ Fault("read") /\ Ends("OwnershipUnavailable") /\ UNCHANGED rollback
    /\ read' = Holder
    /\ Observes /\ UNCHANGED <<mode, before, late, transitioned, evidence, delivered, held>>

\* macos_stop_process
ReadBefore ==
    /\ step = "before"
    /\ \/ /\ Exited(Holder) /\ Ends("AlreadyExited") /\ UNCHANGED <<budget, before>>
       \/ /\ ~Exited(Holder) /\ UNCHANGED budget
          /\ before' = [who |-> Holder, stopped |-> status[Holder] = "stopped"]
          /\ IF Holder = Target THEN step' = "stop" /\ UNCHANGED <<outcome, thawFailed>>
             ELSE Ends("TargetChanged")
       \/ Fault("read") /\ Ends("UnknownFailure") /\ UNCHANGED before
    /\ read' = Holder
    /\ Observes /\ UNCHANGED <<mode, late, transitioned, evidence, rollback, delivered, held>>

Stop ==
    /\ step = "stop"
    /\ \/ late /\ Ends("UnknownFailure") /\ UNCHANGED <<status, held>>
       \/ ~late /\ Holder = NoProc /\ Ends("AlreadyExited") /\ UNCHANGED <<status, held>>
       \/ /\ ~late /\ Forbidden(Holder) /\ Ends("PermissionDenied") /\ UNCHANGED <<status, held>>
       \/ /\ ~late /\ Holder # NoProc /\ ~Forbidden(Holder)
          /\ status' = [status EXCEPT ![Holder] = StopStatus(Holder)]
          /\ held' = IF status[Holder] = "running" THEN held \cup {Holder} ELSE held
          /\ step' = "poll" /\ UNCHANGED <<outcome, thawFailed>>
    /\ UNCHANGED <<parent, pgrp, name, pending, meddled, budget, mode, before, late, transitioned,
                   evidence, rollback, read, delivered>>

\* A reading after SIGSTOP failed: whom a SIGCONT must find is still to be read.
Loses(result) ==
    /\ IF before.stopped THEN Ends(result)
       ELSE step' = "identity" /\ outcome' = result /\ UNCHANGED thawFailed
    /\ UNCHANGED <<rollback, read, transitioned>>

\* The deadline, an error, or macos_stop_observation_result.  The deadline may pass
\* while the state is read; whoever has exited may be unreadable.
Poll ==
    /\ step = "poll"
    /\ \/ /\ late /\ UNCHANGED <<budget, read, transitioned>>
          /\ IF before.stopped THEN Ends("UnknownFailure") /\ UNCHANGED rollback
             ELSE RollsBack("UnknownFailure", before.who)
       \/ /\ Exited(Holder) /\ UNCHANGED budget
          /\ Loses(IF late THEN "UnknownFailure" ELSE "AlreadyExited")
       \/ Fault("read") /\ Loses("UnknownFailure")
       \/ /\ Holder # NoProc /\ read' = Holder /\ UNCHANGED budget
          /\ \/ /\ Exited(Holder) /\ Ends("AlreadyExited") /\ UNCHANGED <<rollback, transitioned>>
             \/ /\ ~Exited(Holder) /\ Holder # before.who /\ UNCHANGED transitioned
                /\ IF status[Holder] = "stopped" THEN RollsBack("TargetChanged", Holder)
                   ELSE Ends("TargetChanged") /\ UNCHANGED rollback
             \/ /\ ~late /\ Holder = before.who /\ status[Holder] = "stopped"
                /\ step' = "evidence" /\ transitioned' = ~before.stopped /\ Keep
    /\ Observes /\ UNCHANGED <<mode, before, late, evidence, delivered, held>>

\* After a failure without a marker: the one there is now, or the confirmed one.
Identity ==
    /\ step = "identity" /\ step' = "check"
    /\ \/ Holder # NoProc /\ rollback' = Holder /\ UNCHANGED budget
       \/ Exited(Holder) /\ rollback' = Target /\ UNCHANGED budget
       \/ Fault("read") /\ rollback' = Target
    /\ read' = Holder
    /\ Observes /\ UNCHANGED <<mode, before, late, transitioned, evidence, outcome, thawFailed,
                               delivered, held>>

-----------------------------------------------------------------------------
\* fresh_process_evidence: marker, name, and the marker again.  What has exited but
\* is not yet reaped may still be readable.
Refuse(result, marker) ==
    IF transitioned THEN RollsBack(result, marker) ELSE Ends(result) /\ UNCHANGED rollback

ReadEvidence ==
    /\ step = "evidence"
    /\ \/ /\ Holder # NoProc /\ UNCHANGED budget
          /\ evidence' = [who |-> Holder, name |-> name[Holder]]
          /\ step' = "again" /\ UNCHANGED <<outcome, thawFailed, rollback>>
       \/ /\ Exited(Holder) /\ UNCHANGED budget
          /\ Refuse("UnknownFailure", Target) /\ UNCHANGED evidence
       \/ Fault("evidence") /\ Refuse("UnknownFailure", Target) /\ UNCHANGED evidence
    /\ read' = Holder
    /\ Observes /\ UNCHANGED <<mode, before, late, transitioned, delivered, held>>

\* check_final_evidence
AnyProcess(seen) == seen.name \notin Protected
IsConfirmed(seen) ==
    seen.who = Target /\ seen.name = Known /\ (seen.name \in Protected => Known \in Protected)

CheckEvidence ==
    /\ step = "again" /\ UNCHANGED <<budget, evidence>>
    /\ IF Holder # evidence.who THEN Refuse("UnknownFailure", Target)
       ELSE IF ~IsConfirmed(evidence) THEN Refuse("UnknownFailure", evidence.who)
       ELSE step' = "deliver" /\ rollback' = evidence.who /\ UNCHANGED <<outcome, thawFailed>>
    /\ read' = Holder
    /\ Observes /\ UNCHANGED <<mode, before, late, transitioned, delivered, held>>

\* finish_stopped_termination.  A process that took SIGTERM is resumed so that it
\* can act on it, whoever had stopped it.
Resumes(result) ==
    (result = "Success" /\ mode = "TERM") \/ (transitioned /\ result # "Success")
After(result) ==
    /\ outcome' = result /\ step' = (IF Resumes(result) THEN "check" ELSE "done")
    /\ UNCHANGED <<thawFailed, rollback>>

\* macos_signal_outcome of kill(2)
Accepts(p) == p # NoProc /\ ~Forbidden(p)
AnyErrorIsExit(p) == IF Accepts(p) THEN "Success" ELSE "AlreadyExited"
SignalResult(p) ==
    IF p = NoProc THEN "AlreadyExited" ELSE IF Accepts(p) THEN "Success" ELSE "PermissionDenied"

DeliverSignal ==
    /\ step = "deliver"
    /\ \/ Fault("cancel") /\ After("UnknownFailure") /\ UNCHANGED <<pending, delivered>>
       \/ /\ UNCHANGED budget /\ After(SignalResult(Holder))
          /\ IF ~Accepts(Holder) THEN UNCHANGED <<pending, delivered>>
             ELSE /\ pending' = [p \in Proc |-> IF p = Holder /\ Alive(p)
                                                THEN pending[p] \cup {mode} ELSE pending[p]]
                  /\ delivered' = delivered \cup {Holder}
    /\ UNCHANGED <<status, parent, pgrp, name, meddled, mode, before, late, transitioned, evidence,
                   read, held>>

\* macos_cont_if_matches: the marker is compared once more, and SIGCONT sent.
Unmatched == outcome' = outcome /\ thawFailed' = TRUE /\ step' = "done"
CheckMarker ==
    /\ step = "check"
    /\ \/ /\ UNCHANGED budget
          /\ \/ Holder = rollback /\ step' = "cont" /\ UNCHANGED <<outcome, thawFailed>>
             \/ Holder = NoProc /\ step' = "done" /\ UNCHANGED <<outcome, thawFailed>>
             \/ Holder \notin {rollback, NoProc} /\ Unmatched
       \/ Fault("read") /\ Unmatched
    /\ read' = Holder
    /\ Observes /\ UNCHANGED <<mode, before, late, transitioned, evidence, rollback, delivered, held>>

Continue ==
    /\ step = "cont"
    /\ \/ Forbidden(Holder) /\ Unmatched /\ UNCHANGED status
       \/ /\ ~Forbidden(Holder) /\ step' = "done" /\ UNCHANGED <<outcome, thawFailed>>
          /\ status' = IF Holder = NoProc THEN status ELSE [status EXCEPT ![Holder] = ContStatus(Holder)]
    /\ UNCHANGED <<parent, pgrp, name, pending, meddled, budget, mode, before, late, transitioned,
                   evidence, rollback, historyVars>>

\* UNIX_STOP_ACKNOWLEDGEMENT_MAX passes.
Late ==
    /\ step \in {"stop", "poll"} /\ ~late /\ late' = TRUE
    /\ UNCHANGED <<kernelVars, step, mode, before, transitioned, evidence, rollback, outcome,
                   thawFailed, historyVars>>

Init ==
    /\ KernelInit
    /\ step = "prepare" /\ mode \in Mode /\ before = NoState /\ late = FALSE
    /\ transitioned = FALSE /\ evidence = [who |-> NoProc, name |-> Known] /\ rollback = NoProc /\ outcome = "none" /\ thawFailed = FALSE
    /\ read = NoProc /\ delivered = {} /\ held = {}

World == KernelStep /\ UNCHANGED <<killVars, historyVars>>
Done == step = "done" /\ UNCHANGED vars
Next ==
    \/ Prepare \/ ReadBefore \/ Stop \/ Poll \/ Identity \/ ReadEvidence \/ CheckEvidence
    \/ DeliverSignal
    \/ CheckMarker \/ Continue \/ Late \/ World \/ Done
Spec == Init /\ [][Next]_vars

-----------------------------------------------------------------------------
\* Properties

\* Whoever is sent the terminating signal, it was the confirmed process, stopped and
\* under its confirmed name, that the last reading showed: a stranger gets it only
\* in the few instructions after that reading, and only once somebody else has
\* ended a stopped process and its number was given away
\* (docs/platform-support.md 137-141, process/macos.rs 440-444).
SignalFollowsProof ==
    [][delivered' # delivered =>
         /\ read = Target
         /\ Target \in delivered' => name[Target] = Known \/ Target \in meddled
         /\ Target \notin delivered' => ~Alive(Target)]_<<delivered>>

\* The confirmed process is not left stopped by a kill that did not end it, unless
\* the answer says that resuming failed (process/macos.rs 214-247, process.rs 893-935).
ConfirmedNotLeftStopped ==
    step = "done" /\ Target \in held \ meddled /\ status[Target] \in {"stopping", "stopped"} =>
        thawFailed \/ "KILL" \in pending[Target]

\* What is answered is true: who is said to have exited has, and success means
\* that the signal was taken (process/macos.rs 341-361).
AnswerIsTrue ==
    step = "done" =>
        /\ outcome = "AlreadyExited" => ~Alive(Target)
        /\ outcome = "Success" <=> delivered # {}

\* However the kill ends, it undoes its stop and answers truly.
EndIsHonest == ConfirmedNotLeftStopped /\ AnswerIsTrue
=============================================================================
