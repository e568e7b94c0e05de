----------------------------- MODULE FreezeProbe -----------------------------
(***************************************************************************)
(* The conversation by which kick finds out whether a job can be frozen      *)
(* here: preflight_job_freeze_thaw of src/src/tree/windows.rs and             *)
(* src/src/tree/windows/freeze_probe.rs.                                   *)
(*                                                                         *)
(* A helper, kick itself in an internal mode, answers what is written to it. *)
(* It must answer, be silent while the job it was put into is frozen, and    *)
(* answer what it was asked meanwhile once the job is thawed.  The thread    *)
(* that reads its answers hands them on in their order: what it has read and *)
(* what is still in the pipe are one queue here.                            *)
(*                                                                         *)
(* Times: a helper that can run answers in IPC_TIMEOUT unless it is slow,    *)
(* and in SUSPENSION_OBSERVATION_TIMEOUT unless it stalls.                  *)
(***************************************************************************)
EXTENDS WinHost, Sequences

VARIABLES
    step,          \* where the probe stands
    helper,        \* "none", "running", or how the helper ended
    served,        \* what it has written: READY, then an answer to each request
    input,         \* written to it and not yet read
    events,        \* written by it and not yet received; "end" when it has ended
    helperFrozen   \* its job is frozen

probeVars == <<step, helper, served, input, events, helperFrozen>>

ProbeOver == step \in {"passed", "failed"}
Runs == helper = "running" /\ ~(helperFrozen /\ suspends)

ProbeTypeOK ==
    /\ helper \in {"none", "running", "ok", "failed", "killed"}
    /\ served \in 0..3 /\ Len(input) <= 4 /\ Len(events) <= 4 /\ helperFrozen \in BOOLEAN

-----------------------------------------------------------------------------
\* run_child_protocol: READY, and then one answer to each of three commands.

EndHelper(how) == helper' = how /\ events' = Append(events, "end")

HelperStep ==
    /\ Runs
    /\ \/ /\ served = 0 /\ served' = 1 /\ events' = Append(events, "R")
          /\ UNCHANGED <<helper, input>>
       \/ /\ served > 0 /\ input # <<>> /\ input' = Tail(input)
          /\ \/ /\ Head(input) = "P" /\ served < 3
                /\ served' = served + 1 /\ events' = Append(events, "A") /\ UNCHANGED helper
             \/ Head(input) = "X" /\ EndHelper("ok") /\ UNCHANGED served
    /\ UNCHANGED <<budget, step, helperFrozen>>

\* Somebody ends it, frozen or not.
HelperEnds ==
    /\ helper = "running" /\ Fault("helper") /\ EndHelper("failed")
    /\ UNCHANGED <<step, served, input, helperFrozen>>

-----------------------------------------------------------------------------
\* The probe

Drop == step' = "drop"
NextIs(s) == step' = s

SpawnHelper ==
    /\ step = "spawn"
    /\ \/ helper' = "running" /\ NextIs("ready") /\ UNCHANGED budget
       \* No helper, or no thread to read what it says: then it is ended at once.
       \/ Fault("probe") /\ helper' \in {"none", "killed"} /\ NextIs("failed")
    /\ UNCHANGED <<served, input, events, helperFrozen>>

\* expect_event
ExpectEvent(event, next) ==
    /\ \/ /\ events # <<>> /\ events' = Tail(events) /\ UNCHANGED budget
          /\ IF Head(events) = event THEN NextIs(next) ELSE Drop
       \/ events = <<>> /\ Fault("slow") /\ Drop /\ UNCHANGED events
    /\ UNCHANGED <<helper, served, input, helperFrozen>>

\* write_command
WriteCommand(command, next, otherwise) ==
    /\ IF helper = "running" THEN input' = input \o command /\ NextIs(next)
       ELSE NextIs(otherwise) /\ UNCHANGED input
    /\ UNCHANGED <<budget, helper, served, events, helperFrozen>>

\* open_process and assign_process, for the helper.
AssignHelper ==
    /\ step = "assign"
    /\ \/ helper = "running" /\ NextIs("ping") /\ UNCHANGED budget
       \/ helper # "running" /\ Drop /\ UNCHANGED budget
       \/ Fault("assign") /\ Drop
    /\ UNCHANGED <<helper, served, input, events, helperFrozen>>

FreezeHelper ==
    /\ step = "freeze"
    /\ \/ helperFrozen' = TRUE /\ NextIs("ask") /\ UNCHANGED budget
       \/ Fault("freeze") /\ helperFrozen' \in BOOLEAN /\ Drop
    /\ UNCHANGED <<helper, served, input, events>>

\* verify_acknowledgement_is_suspended: any event speaks against it.
VerifySuspended ==
    /\ step = "silence"
    /\ \/ events # <<>> /\ NextIs("unproven") /\ UNCHANGED budget
       \/ /\ events = <<>> /\ NextIs("thaw")
          /\ IF Runs THEN Fault("stall") ELSE UNCHANGED budget
    /\ UNCHANGED <<helper, served, input, events, helperFrozen>>

\* The thaw, which a failed verification does not omit.
ThawHelper ==
    /\ step \in {"thaw", "unproven"}
    /\ \/ helperFrozen' = FALSE /\ UNCHANGED budget
          /\ IF step = "thaw" THEN NextIs("late") ELSE Drop
       \/ Fault("thaw") /\ Drop /\ UNCHANGED helperFrozen
    /\ UNCHANGED <<helper, served, input, events>>

\* finish, after the command: wait_for_child_exit.
Finish ==
    /\ step = "finish"
    /\ \/ /\ helper # "running" /\ NextIs(IF helper = "ok" THEN "passed" ELSE "failed")
          /\ UNCHANGED budget
       \/ helper = "running" /\ Fault("slow") /\ Drop
    /\ UNCHANGED <<helper, served, input, events, helperFrozen>>

\* FreezeProbe::drop: the pipe is closed and the helper ended, frozen or not.
DropProbe ==
    /\ step = "drop" /\ NextIs("failed")
    /\ helper' = IF helper = "running" THEN "killed" ELSE helper
    /\ UNCHANGED <<budget, served, input, events, helperFrozen>>

ProbeInit ==
    /\ step = "spawn" /\ helper = "none" /\ served = 0
    /\ input = <<>> /\ events = <<>> /\ helperFrozen = FALSE

ProbeStep ==
    /\ \/ SpawnHelper
       \/ step = "ready" /\ ExpectEvent("R", "assign")
       \/ AssignHelper
       \/ step = "ping" /\ WriteCommand(<<"P">>, "answer", "drop")
       \/ step = "answer" /\ ExpectEvent("A", "freeze")
       \/ FreezeHelper
       \/ step = "ask" /\ WriteCommand(<<"P">>, "silence", "unproven")
       \/ VerifySuspended \/ ThawHelper
       \/ step = "late" /\ ExpectEvent("A", "exit")
       \/ step = "exit" /\ WriteCommand(<<"X">>, "finish", "drop")
       \/ Finish \/ DropProbe
       \/ ~ProbeOver /\ (HelperStep \/ HelperEnds)
    /\ UNCHANGED <<status, parent, name, inJob, frozen, suspends, doomed>>
=============================================================================
