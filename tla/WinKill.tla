------------------------------- MODULE WinKill -------------------------------
(***************************************************************************)
(* Ending one process on Windows: src/src/process/windows.rs, with           *)
(* prepare_termination, terminate_handle_checked and observe_exit of         *)
(* src/src/process.rs.                                                     *)
(*                                                                         *)
(* A handle is opened by number and names one process for as long as it is   *)
(* held.  What it shows is compared with what was confirmed, then it is      *)
(* ended and waited for, and at last asked for once more by its number.      *)
(***************************************************************************)
EXTENDS WinHost

CONSTANTS
    Root,            \* the process that was confirmed
    Protected,       \* protected program names
    Unsafe           \* numbers unsafe_pid_reason refuses

\* The confirmed process was there when it was confirmed.
ASSUME WinKillAssumption ==
    Root \in Proc /\ Unsafe \subseteq Pid /\ \A t \in Start : t.status[Root] = "running"

VARIABLES
    at,           \* where the call stands
    auth,         \* what was confirmed: ScopeAuthorization, KillTarget.protected
    handle,       \* TerminationHandle
    result,       \* TerminationOutcome
    seen          \* ExitObservation

killVars == <<at, auth, handle, result, seen>>

IsProtected(p) == name[p] \in Protected
Refuses(p) == name[p] \in Sealed
HostUnchanged == UNCHANGED <<status, parent, name, inJob, frozen, suspends>>

WinKillTypeOK ==
    /\ handle \in Proc \cup {NoProc} /\ seen \in {"none", "Exited", "Running", "Unknown"}
    /\ auth \in {"typed", "protectedTyped", "skipped"}

Ends(outcome) == result' = outcome /\ at' = "observe" /\ UNCHANGED <<auth, handle, seen>>
Goes(to) == at' = to /\ UNCHANGED <<auth, handle, result, seen>>

\* prepare_termination: OpenProcess, and what its failure means.
OpenFailure(pid) ==
    IF pid \in Unsafe THEN "UnsafePid"
    ELSE IF Occupant(pid) = NoProc THEN "AlreadyExited"
    ELSE IF Refuses(Occupant(pid)) THEN "PermissionDenied" ELSE "none"

Open ==
    /\ at = "open"
    /\ \/ /\ IF OpenFailure(PidOf[Root]) = "none"
             THEN at' = "evidence" /\ handle' = Occupant(PidOf[Root])
                  /\ UNCHANGED <<auth, result, seen>>
             ELSE Ends(OpenFailure(PidOf[Root]))
          /\ UNCHANGED budget
       \/ Fault("open") /\ Ends("UnknownFailure")
    /\ HostUnchanged /\ UNCHANGED doomed

\* windows_fresh_process_evidence and check_final_evidence.
EvidenceProblem ==
    IF handle # Root THEN "TargetChanged"
    ELSE IF IsProtected(handle) /\ auth # "protectedTyped" THEN "ProtectedProcess" ELSE "none"

CheckEvidence ==
    /\ at = "evidence"
    /\ \/ /\ IF EvidenceProblem = "none" THEN Goes("alive") ELSE Ends(EvidenceProblem)
          /\ UNCHANGED budget
       \/ Fault("name") /\ Ends("OwnershipUnavailable")
    /\ HostUnchanged /\ UNCHANGED doomed

\* windows_process_is_alive: a handle that cannot be asked counts as alive.
Alive(next, gone) ==
    \/ /\ IF handle \in Running THEN Goes(next) ELSE Ends(gone)
       /\ UNCHANGED budget
    \/ handle \notin Running /\ Fault("wait") /\ Goes(next)

AskBefore == at = "alive" /\ Alive("terminate", "AlreadyExited") /\ HostUnchanged /\ UNCHANGED doomed

\* TerminateProcess, which fails for a process that has ended.
Terminate ==
    /\ at = "terminate"
    /\ \/ /\ IF handle \in Running THEN doomed' = {handle} /\ Goes("wait")
             ELSE Goes("failed") /\ UNCHANGED doomed
          /\ UNCHANGED budget
       \/ Fault("terminate") /\ Goes("failed") /\ UNCHANGED doomed
    /\ HostUnchanged

AskAfter ==
    /\ at = "failed"
    /\ \/ /\ UNCHANGED budget
          /\ Ends(IF handle \in Running THEN "PermissionDenied" ELSE "AlreadyExited")
       \/ handle \notin Running /\ Fault("wait") /\ Ends("PermissionDenied")
    /\ HostUnchanged /\ UNCHANGED doomed

\* wait_for_windows_process_exit: the end, or WINDOWS_TERMINATE_WAIT_MS.
AwaitExit ==
    /\ at = "wait"
    /\ \/ handle \notin Running /\ Ends("Success") /\ UNCHANGED budget
       \/ Fault("wait") /\ Ends("UnknownFailure")
    /\ HostUnchanged /\ UNCHANGED doomed

\* observe_exit_platform: by number again, compared by the marker.
Observation ==
    LET p == Occupant(PidOf[Root])
    IN  IF p = NoProc THEN "Exited"
        ELSE IF Refuses(p) THEN "Unknown" ELSE IF p # Root THEN "Exited" ELSE "Running"

Observe ==
    /\ at = "observe" /\ at' = "over"
    /\ \/ seen' = Observation /\ UNCHANGED budget
       \/ seen' = "Unknown" /\ Fault("open")
    /\ HostUnchanged /\ UNCHANGED <<doomed, auth, handle, result>>

KillInit ==
    /\ auth \in {"typed", "protectedTyped", "skipped"}
    /\ handle = NoProc /\ result = "none" /\ seen = "none"

KillStep ==
    Open \/ CheckEvidence \/ AskBefore \/ Terminate \/ AskAfter \/ AwaitExit \/ Observe

\* What a single kill promises: it ends the process that was confirmed and no
\* other, one with a protected name only if that was typed, and says that it has
\* exited only if it has (process/windows.rs 98-131, 160-190; process.rs 279-296).
EndsTheConfirmed ==
    /\ at # "tree" => doomed \subseteq {Root}
    /\ at # "tree" /\ doomed # {} => (IsProtected(Root) => auth = "protectedTyped")
    /\ result \in {"Success", "AlreadyExited"} \/ seen = "Exited" => Root \notin Running
=============================================================================
