----------------------------- MODULE FreezeKill -----------------------------
(***************************************************************************)
(* The freeze-first executor of `kick kill --tree` and `--group` on Linux:  *)
(* src/src/tree/execute.rs driving LinuxTreeOps (platform/linux.rs) and the *)
(* pidfd stop protocol (process/linux.rs).                                 *)
(*                                                                         *)
(* It starts where execute_freeze_kill is called: the root is pinned by a   *)
(* pidfd and revalidated, the user has authorized the kill.  It stops the   *)
(* root, sweeps its scope to a fixed point, verifies every frozen identity, *)
(* checks policy, and then signals all of them or thaws all of them.  The   *)
(* process table (module Kernel) moves between any two of its system calls. *)
(***************************************************************************)
EXTENDS Kernel

CONSTANTS
    RootProc,         \* the incarnation the user confirmed
    RootName,         \* the name they confirmed
    TargetGroup,      \* the confirmed process group
    Requests,         \* the kills to consider: scope, mode and authorization
    Protected,        \* protected program names
    SystemName,       \* names is_unix_system_process lists
    Foreign,          \* programs that run under another user id
    MaxFreezePasses,  \* MAX_FREEZE_PASSES
    MemberCap,        \* MAX_TREE_PROCESSES / MAX_GROUP_PROCESSES
    GroupYesSkipMax,  \* GROUP_YES_SKIP_MAX_PROCESSES
    Faults            \* what else may go wrong: "interrupt", "read"

RootPid == PidOf[RootProc]

Request == [scope : {"tree", "group"}, mode : {"terminate", "force"},
            auth : {"typed", "protectedTyped", "skipped"}]

\* The root has been pinned before the executor starts, so it is born by then.
ASSUME FreezeKillAssumption ==
    /\ RootProc \in Proc /\ RootPid \notin Unsafe
    /\ \A t \in Start : t.status[RootProc] # "unborn"
    /\ RootName \in Name /\ TargetGroup \in Group
    /\ Requests \subseteq Request
    /\ Protected \subseteq Name /\ SystemName \subseteq Name /\ Foreign \subseteq Name
    /\ MaxFreezePasses \in Nat \ {0} /\ MemberCap \in Nat \ {0}
    /\ GroupYesSkipMax \in Nat

\* A process is started after its parent: nobody descends from itself.
ASSUME AncestryAssumption ==
    \A t \in Start : \E age \in [Proc -> 1..Cardinality(Proc)] :
        \A p, q \in Proc : t.status[p] # "unborn" /\ t.parent[p] = q =>
            t.status[q] # "unborn" /\ age[q] < age[p]

VARIABLES
    request,      \* the kill asked for
    pc,           \* the next step of the executor
    handle,       \* delivery_handles: PID -> the incarnation its pidfd pins
    frozen,       \* PIDs recorded as frozen
    node,         \* FrozenNode of each frozen PID
    work,         \* members discovered in this round and not yet stopped
    newDepth,     \* the depth each of them was discovered at
    vanished,     \* members gone before they stopped, in this pass
    found,        \* discovered_in_pass
    passes,       \* sweep passes begun
    cur,          \* the PID a step is about
    before,       \* process state read before SIGSTOP
    listing,      \* PIDs a snapshot has listed and not yet read
    half,         \* the status half of a row whose stat is not read yet
    snap,         \* the rows of the snapshot
    expired,      \* the stop acknowledgement deadline has passed
    interrupted,  \* SIGINT, SIGTERM or SIGHUP is pending for kick
    todo,         \* frozen PIDs the current phase has still to handle
    owed,         \* group members to continue once all signals are queued
    outcome,      \* TreeKillOutcome
    thawFailed,   \* PIDs whose cleanup SIGCONT was refused
    denied,       \* PIDs that refused the terminating signal
    kickStopped,  \* history: incarnations kick's SIGSTOP found running
    kickContinued,\* history: incarnations kick's SIGCONT resumed
    signalled,    \* history: incarnations that accepted the terminating signal
    stayed        \* history: members of the scope ever since the last snapshot began

stopVars == <<cur, before>>
scanVars == <<listing, half, snap>>
sweepVars == <<work, newDepth, vanished, found, passes>>
reportVars == <<outcome, thawFailed, denied>>
signalVars == <<kickStopped, kickContinued, signalled>>
historyVars == <<signalVars, stayed>>
controlVars == <<request, pc, handle, frozen, node, stopVars, scanVars, sweepVars, expired,
                  interrupted, todo, owed, reportVars, signalVars>>
executorVars == <<controlVars, stayed>>
vars == <<kernelVars, executorVars>>

-----------------------------------------------------------------------------
\* Records

NoRow == [who |-> NoProc, parent |-> ReaperPid, pgrp |-> TargetGroup, name |-> RootName,
          foreign |-> FALSE]
Row == [who : Proc \cup {NoProc}, parent : ParentPids, pgrp : Group, name : Name,
        foreign : BOOLEAN]

NoHalf == [parent |-> ReaperPid, foreign |-> FALSE, read |-> FALSE]
Half == [parent : ParentPids, foreign : BOOLEAN, read : BOOLEAN]

NoRead == [who |-> NoProc, stopped |-> FALSE]
StateRead == [who : Proc \cup {NoProc}, stopped : BOOLEAN]

\* FrozenNode.  rank is its place in the `frozen` vector, resume is
\* resume_on_cleanup, who is the authorized start marker.
Node == [who : Proc \cup {NoProc}, parent : ParentPids, name : Name, foreign : BOOLEAN,
         resume : BOOLEAN, depth : Nat, rank : Nat]
NoNode == [who |-> NoProc, parent |-> ReaperPid, name |-> RootName, foreign |-> FALSE,
           resume |-> FALSE, depth |-> 0, rank |-> 0]

\* What the root is recorded as before a snapshot has shown its row.
ConfirmedRoot(resume) ==
    [who |-> RootProc, parent |-> ReaperPid, name |-> RootName, foreign |-> FALSE,
     resume |-> resume, depth |-> 0, rank |-> 0]

NodeAs(who, row, depth, resume) ==
    [who |-> who, parent |-> row.parent, name |-> row.name, foreign |-> row.foreign,
     resume |-> resume, depth |-> depth, rank |-> Cardinality(frozen)]
NodeOf(row, depth, resume) == NodeAs(row.who, row, depth, resume)
Refreshed(known, newName, newForeign) ==
    [known EXCEPT !.name = newName, !.foreign = newForeign]

Outcomes == {"none", "Completed", "RootAlreadyExited", "PermissionDenied", "TargetChanged",
             "Truncated", "SweepPassLimit", "UnsafePid", "ProtectedDescendant", "ProtectedRoot",
             "FreshConfirmationRequired", "SnapshotFailed"}
Steps == {"select", "state", "stop", "ack", "list", "read", "root", "drain", "verify",
          "evidence", "policy", "deliver", "cont", "resume", "thaw", "done"}

InTree  == request.scope = "tree"
InGroup == request.scope = "group"

-----------------------------------------------------------------------------
\* Scope membership in a snapshot

Shown(pid) == pid \in Pid /\ snap[pid] # NoRow

\* The PID n parent links above pid in the snapshot.
Climb[n \in Nat] ==
    [pid \in Pid |-> IF n = 0 THEN pid
                     ELSE LET below == Climb[n - 1][pid]
                          IN  IF Shown(below) THEN snap[below].parent ELSE below]

\* The first frozen PID above pid is n links up.
Hangs(pid, n) == /\ Climb[n][pid] \in frozen
                 /\ \A k \in 1..(n - 1) : Climb[k][pid] \notin frozen

Links == 1..Cardinality(Pid)
UnfrozenChildren == {pid \in Pid \ frozen : Shown(pid) /\ \E n \in Links : Hangs(pid, n)}
UnfrozenGroupMembers ==
    {pid \in Pid \ frozen : Shown(pid) /\ snap[pid].pgrp = TargetGroup}
UnfrozenMembers == IF InTree THEN UnfrozenChildren ELSE UnfrozenGroupMembers

DepthOf(pid) ==
    IF InGroup THEN 1
    ELSE LET n == CHOOSE n \in Links : Hangs(pid, n) IN node[Climb[n][pid]].depth + n

RelationUnchecked(pid) == TRUE
RelationHolds(pid) == IF InTree THEN node[pid].depth = 0 \/ snap[pid].parent = node[pid].parent
                      ELSE snap[pid].pgrp = TargetGroup

\* The processes that truly belong to the scope now, whatever kick has read.
TrueMembers == {p \in Proc : /\ status[p] \in Live
                             /\ IF InTree THEN Descends(p, RootProc) ELSE pgrp[p] = TargetGroup}

-----------------------------------------------------------------------------
\* Ending

\* refuse_after_thaw: resume what this kill stopped, then report the cause.
Refuse(cause, stopped, nodes) ==
    /\ outcome' = cause
    /\ pc' = "thaw"
    /\ todo' = {pid \in stopped : nodes[pid].resume}
    /\ UNCHANGED <<thawFailed, denied>>

RefuseNow(cause) == Refuse(cause, frozen, node)

Finish ==
    /\ pc \in {"thaw", "deliver"} /\ todo = {}
    /\ pc = "deliver" => InTree
    /\ pc' = "done"
    /\ outcome' = IF pc = "deliver" THEN "Completed" ELSE outcome
    /\ UNCHANGED <<kernelVars, request, handle, frozen, node, stopVars, scanVars, sweepVars,
                   expired, interrupted, todo, owed, thawFailed, denied, historyVars>>

-----------------------------------------------------------------------------
\* Stopping one member

\* What LinuxTreeOps reaches as pid: the process its pidfd pins or, with no
\* pidfd held, whatever has the number now.
Pinned(pid) == IF handle[pid] # NoProc THEN handle[pid] ELSE Occupant(pid)

\* unsafe_pid_reason: PIDs 0 and 1 are outside Pid; the rest is kick's own.
NothingUnsafe(pid) == FALSE
UnsafePid(pid) == pid \in Unsafe

\* The next member in PID order: policy checks, the deadline, and pidfd_open
\* unless its handle is already held (the root's is, since it was pinned).
SelectMember ==
    /\ pc = "select"
    /\ \E pid \in work :
         /\ \A other \in work : pid <= other
         /\ work' = work \ {pid}
         /\ LET failure ==
                  IF frozen # {} /\ interrupted THEN "SnapshotFailed"
                  ELSE IF Cardinality(frozen) >= MemberCap THEN "Truncated"
                  ELSE IF UnsafePid(pid) THEN "UnsafePid"
                  ELSE IF expired THEN "SnapshotFailed"
                  ELSE "none"
                opened == Pinned(pid)
            IN  \/ /\ failure # "none"
                   /\ RefuseNow(failure)
                   /\ UNCHANGED <<handle, cur, vanished>>
                \/ /\ failure = "none" /\ opened = NoProc
                   /\ vanished' = vanished \cup {pid}
                   /\ pc' = IF work' = {} THEN "drain" ELSE "select"
                   /\ UNCHANGED <<handle, cur, todo, reportVars>>
                \/ /\ failure = "none" /\ opened # NoProc
                   /\ handle' = [handle EXCEPT ![pid] = opened]
                   /\ cur' = pid
                   /\ pc' = "state"
                   /\ UNCHANGED <<vanished, todo, reportVars>>
    /\ UNCHANGED <<kernelVars, request, frozen, node, before, scanVars, newDepth, found, passes,
                   expired, interrupted, owed, historyVars>>

\* TreeStopResult::NotFound: the handle is dropped, the root's absence ends the
\* kill, a member's is remembered for the rest of the pass.
StopNotFound ==
    /\ handle' = [handle EXCEPT ![cur] = NoProc]
    /\ IF frozen = {}
       THEN RefuseNow("RootAlreadyExited") /\ UNCHANGED vanished
       ELSE /\ vanished' = vanished \cup {cur}
            /\ pc' = IF work = {} THEN "drain" ELSE "select"
            /\ UNCHANGED <<todo, reportVars>>
    /\ UNCHANGED <<frozen, node>>

\* TreeStopResult::Failed: the member is recorded for cleanup exactly when the
\* stop was submitted to a process that was seen running.
StopFailed(cause, cleanup) ==
    LET recorded == IF frozen = {} THEN ConfirmedRoot(TRUE)
                    ELSE NodeOf(snap[cur], newDepth[cur], TRUE)
        nodes == IF cleanup THEN [node EXCEPT ![cur] = recorded] ELSE node
        all == IF cleanup THEN frozen \cup {cur} ELSE frozen
    IN  /\ handle' = IF cleanup THEN handle ELSE [handle EXCEPT ![cur] = NoProc]
        /\ frozen' = all /\ node' = nodes
        /\ Refuse(cause, all, nodes)
        /\ UNCHANGED vanished

\* TreeStopResult::Stopped.  The root's node awaits verify_root_after_stop.
StopAcknowledged(transitioned) ==
    /\ IF frozen = {}
       THEN /\ node' = [node EXCEPT ![cur] = ConfirmedRoot(transitioned)]
            /\ pc' = "list"
            /\ UNCHANGED frozen
       ELSE /\ node' = [node EXCEPT ![cur] = NodeOf(snap[cur], newDepth[cur], transitioned)]
            /\ frozen' = frozen \cup {cur}
            /\ pc' = IF work = {} THEN "drain" ELSE "select"
    /\ UNCHANGED <<handle, vanished, todo, reportVars>>

StopFrame == /\ before' = IF pc' \in {"stop", "ack"} THEN before ELSE NoRead
             /\ UNCHANGED <<request, cur, scanVars, work, newDepth, found, passes, expired,
                            interrupted, owed, kickContinued, signalled, stayed>>

\* linux_process_state by number, before SIGSTOP.
ReadState ==
    /\ pc = "state"
    /\ LET now == Occupant(cur)
       IN  \/ /\ ~Alive(now)
              /\ StopNotFound
              /\ UNCHANGED before
           \/ /\ Alive(now)
              /\ before' = [who |-> now, stopped |-> status[now] = "stopped"]
              /\ pc' = "stop"
              /\ UNCHANGED <<handle, vanished, frozen, node, todo, reportVars>>
    /\ UNCHANGED <<kernelVars, request, cur, scanVars, work, newDepth, found, passes, expired, interrupted,
                   owed, historyVars>>

\* pidfd_send_signal(SIGSTOP) to whatever the handle pins.
SubmitStop ==
    /\ pc = "stop"
    /\ LET target == handle[cur]
       IN  \/ /\ expired \/ Forbidden(target)
              /\ StopFailed(IF expired THEN "SnapshotFailed" ELSE "PermissionDenied", FALSE)
              /\ UNCHANGED <<status, kickStopped>>
           \/ /\ ~expired /\ Gone(target)
              /\ StopNotFound
              /\ UNCHANGED <<status, kickStopped>>
           \/ /\ ~expired /\ ~Gone(target) /\ ~Forbidden(target)
              /\ status' = [status EXCEPT ![target] = StopStatus(target)]
              /\ kickStopped' = IF status[target] \in Active THEN kickStopped \cup {target}
                                ELSE kickStopped
              /\ pc' = "ack"
              /\ UNCHANGED <<handle, vanished, frozen, node, todo, reportVars>>
    /\ StopFrame
    /\ UNCHANGED <<parent, pgrp, name, pending, meddled, budget>>

\* linux_stop_pidfd: this kill stops the process, so it owes its resumption,
\* exactly if it was seen running before SIGSTOP was sent.
NeverTransitioned == FALSE
Transitioned == ~before.stopped

NoDeadline == FALSE
OutOfTime == expired

\* Poll /proc/<pid>/stat until the process is stopped, gone, or out of time.
Acknowledge ==
    /\ pc = "ack"
    /\ LET now == Occupant(cur)
       IN  \/ OutOfTime /\ StopFailed("SnapshotFailed", Transitioned)
           \/ /\ ~OutOfTime
              /\ ~(now = before.who /\ Alive(now))
              /\ StopNotFound
           \/ /\ ~OutOfTime /\ now = before.who /\ status[now] = "stopped"
              /\ StopAcknowledged(Transitioned)
    /\ StopFrame
    /\ UNCHANGED <<kernelVars, kickStopped>>

\* Reading the state fails with an error that is not "no such process".
StateReadFails ==
    /\ "read" \in Faults /\ budget > 0 /\ budget' = budget - 1
    /\ pc \in {"state", "ack"} /\ ~expired
    /\ StopFailed("SnapshotFailed", pc = "ack" /\ Transitioned)
    /\ StopFrame
    /\ UNCHANGED <<status, parent, pgrp, name, pending, meddled, kickStopped>>

-----------------------------------------------------------------------------
\* One snapshot of the process table

\* Every sweep pass first honours a pending interruption, then lists /proc.
ListProcesses ==
    /\ pc = "list"
    /\ IF frozen # {} /\ interrupted
       THEN /\ RefuseNow("SnapshotFailed")
            /\ UNCHANGED <<listing, snap, passes, stayed>>
       ELSE /\ pc' = "read"
            /\ listing' = PresentPids
            /\ snap' = [pid \in Pid |-> NoRow]
            /\ stayed' = TrueMembers
            /\ passes' = IF frozen = {} THEN passes ELSE passes + 1
            /\ UNCHANGED <<todo, reportVars>>
    /\ vanished' = {} /\ found' = FALSE
    /\ UNCHANGED <<kernelVars, request, handle, frozen, node, stopVars, half, work, newDepth, expired,
                   interrupted, owed, signalVars>>

ScanFrame == UNCHANGED <<request, handle, frozen, node, stopVars, sweepVars, expired,
                         interrupted, owed, historyVars>>

NextListed(pid) == pid \in listing /\ \A other \in listing : pid <= other

\* A row is two reads, of status and of stat, and the number may change hands
\* between them.  A process that vanished is skipped.
ReadStatus ==
    /\ pc = "read" /\ ~half.read
    /\ \E pid \in listing :
         /\ NextListed(pid)
         /\ LET p == Occupant(pid)
            IN  IF p = NoProc
                THEN listing' = listing \ {pid} /\ UNCHANGED half
                ELSE /\ half' = [parent |-> ParentPid(p), foreign |-> name[p] \in Foreign,
                                 read |-> TRUE]
                     /\ UNCHANGED listing
    /\ UNCHANGED <<kernelVars, pc, snap, todo, reportVars>>
    /\ ScanFrame

ReadStat ==
    /\ pc = "read" /\ half.read
    /\ \E pid \in listing :
         /\ NextListed(pid)
         /\ listing' = listing \ {pid}
         /\ LET p == Occupant(pid)
            IN  snap' = IF p = NoProc THEN snap
                        ELSE [snap EXCEPT ![pid] =
                                [who |-> p, parent |-> half.parent, pgrp |-> pgrp[p],
                                 name |-> name[p], foreign |-> half.foreign]]
    /\ half' = NoHalf
    /\ UNCHANGED <<kernelVars, pc, todo, reportVars>>
    /\ ScanFrame

SnapshotTaken ==
    /\ pc = "read" /\ listing = {}
    /\ pc' = IF frozen = {} THEN "root" ELSE "drain"
    /\ UNCHANGED <<kernelVars, listing, half, snap, todo, reportVars>>
    /\ ScanFrame

\* A live process one of whose files cannot be read fails the whole snapshot.
\* Only the root is stopped, and not yet recorded, when the first one fails.
SnapshotFails ==
    /\ "read" \in Faults /\ budget > 0 /\ budget' = budget - 1
    /\ pc = "read"
    /\ Refuse("SnapshotFailed", frozen \cup {RootPid}, node)
    /\ frozen' = frozen \cup {RootPid}
    /\ listing' = {} /\ half' = NoHalf
    /\ UNCHANGED <<status, parent, pgrp, name, pending, meddled, request, handle, node, stopVars,
                   snap, sweepVars, expired, interrupted, owed, historyVars>>

-----------------------------------------------------------------------------
\* The sweep

\* verify_root_after_stop, on the snapshot taken after the root stopped.
CheckRoot ==
    /\ pc = "root"
    /\ LET row == snap[RootPid]
           failure == IF ~Shown(RootPid) THEN "RootAlreadyExited"
                      ELSE IF row.who # RootProc \/ row.name # RootName THEN "TargetChanged"
                      ELSE IF InGroup /\ row.pgrp # TargetGroup THEN "TargetChanged"
                      ELSE "none"
           observed == NodeAs(RootProc, row, 0, node[RootPid].resume)
           nodes == IF Shown(RootPid) THEN [node EXCEPT ![RootPid] = observed] ELSE node
       IN  /\ node' = nodes
           /\ frozen' = {RootPid}
           /\ IF failure = "none"
              THEN pc' = "list" /\ UNCHANGED <<todo, reportVars>>
              ELSE Refuse(failure, {RootPid}, nodes)
    /\ UNCHANGED <<kernelVars, request, handle, stopVars, scanVars, sweepVars, expired,
                   interrupted, owed, historyVars>>

\* A pass that discovered nothing has converged.
ConvergedEarly == TRUE
Converged == ~found

OnePassMore == passes <= MaxFreezePasses
PassesLeft == passes < MaxFreezePasses

\* One round over the snapshot of this pass: more members, or a pass that found
\* none (the scope has converged), or another pass, or too many of them.
Drain ==
    /\ pc = "drain"
    /\ LET discovered == UnfrozenMembers \ vanished
       IN  \/ /\ discovered # {}
              /\ work' = discovered /\ found' = TRUE /\ pc' = "select"
              /\ newDepth' = [pid \in Pid |-> IF pid \in discovered THEN DepthOf(pid) ELSE 0]
              /\ UNCHANGED <<todo, reportVars>>
           \/ /\ discovered = {} /\ Converged
              /\ pc' = "verify"
              /\ UNCHANGED <<work, newDepth, found, todo, reportVars>>
           \/ /\ discovered = {} /\ ~Converged /\ PassesLeft
              /\ pc' = "list"
              /\ UNCHANGED <<work, newDepth, found, todo, reportVars>>
           \/ /\ discovered = {} /\ ~Converged /\ ~PassesLeft
              /\ RefuseNow("SweepPassLimit")
              /\ UNCHANGED <<work, newDepth, found>>
    /\ UNCHANGED <<kernelVars, request, handle, frozen, node, stopVars, scanVars, vanished,
                   passes, expired, interrupted, owed, historyVars>>

\* verify_frozen_identities against the snapshot that converged, then
\* prepare_delivery_handles, which opens any handle not held.
IdentityHolds(pid) == Shown(pid) /\ snap[pid].who = node[pid].who /\ RelationHolds(pid)
Verify ==
    /\ pc = "verify"
    /\ IF \A pid \in frozen : IdentityHolds(pid) /\ Pinned(pid) # NoProc
       THEN /\ handle' = [pid \in Pid |-> IF pid \in frozen THEN Pinned(pid) ELSE handle[pid]]
            /\ node' = [pid \in Pid |->
                 IF pid \in frozen
                 THEN Refreshed(node[pid], snap[pid].name, snap[pid].foreign)
                 ELSE node[pid]]
            /\ pc' = "evidence" /\ todo' = frozen
            /\ UNCHANGED reportVars
       ELSE RefuseNow("TargetChanged") /\ UNCHANGED <<handle, node>>
    /\ UNCHANGED <<kernelVars, request, frozen, stopVars, scanVars, sweepVars, expired,
                   interrupted, owed, historyVars>>

\* verify_fresh_delivery_evidence, one member at a time in the order they froze:
\* the same incarnation, and the name it has now.
ReadEvidence ==
    /\ pc = "evidence"
    /\ \E pid \in todo :
         /\ \A other \in todo : node[pid].rank <= node[other].rank
         /\ IF Has(pid, node[pid].who)
            THEN /\ node' = [node EXCEPT ![pid] = Refreshed(@, name[@.who], @.foreign)]
                 /\ todo' = todo \ {pid}
                 /\ pc' = IF todo' = {} THEN "policy" ELSE pc
                 /\ UNCHANGED reportVars
            ELSE RefuseNow("TargetChanged") /\ UNCHANGED node
    /\ UNCHANGED <<kernelVars, request, handle, frozen, stopVars, scanVars, sweepVars, expired,
                   interrupted, owed, historyVars>>

-----------------------------------------------------------------------------
\* Policy

IsSystem(pid) == node[pid].parent = ReaperPid \/ node[pid].name \in SystemName
NeedsPrompt ==
    \/ \E pid \in frozen : IsSystem(pid) \/ node[pid].foreign
    \/ InGroup /\ Cardinality(frozen) > GroupYesSkipMax

\* check_tree_policy, then the last look at a pending interruption.
ProtectedGrandchildren == {pid \in frozen : node[pid].depth > 1 /\ node[pid].name \in Protected}
ProtectedDescendants == {pid \in frozen : node[pid].depth > 0 /\ node[pid].name \in Protected}
Verdict ==
    IF ProtectedDescendants # {} THEN "ProtectedDescendant"
    ELSE IF /\ request.auth # "protectedTyped"
            /\ \E pid \in frozen : node[pid].depth = 0 /\ node[pid].name \in Protected
    THEN "ProtectedRoot"
    ELSE IF request.auth = "skipped" /\ NeedsPrompt THEN "FreshConfirmationRequired"
    ELSE IF interrupted THEN "SnapshotFailed"
    ELSE "none"

Authorize ==
    /\ pc = "policy"
    /\ IF Verdict = "none"
       THEN pc' = "deliver" /\ todo' = frozen /\ UNCHANGED reportVars
       ELSE RefuseNow(Verdict)
    /\ UNCHANGED <<kernelVars, request, handle, frozen, node, stopVars, scanVars, sweepVars,
                   expired, interrupted, owed, historyVars>>

-----------------------------------------------------------------------------
\* Delivery and cleanup

\* Deepest first, the root last, PIDs to break ties.
Precedes(pid, other) ==
    node[pid].depth > node[other].depth \/ (node[pid].depth = node[other].depth /\ pid < other)

\* Delivery goes through the pidfd opened before the first stop.
NumberHolder(pid) == Occupant(pid)
DeliveryTarget(pid) == handle[pid]

\* signal_tree continues a member right after its signal, signal_group does not.
AlwaysAtOnce == TRUE
ContinuesAtOnce == InTree

Deliver ==
    /\ pc = "deliver"
    /\ \E pid \in todo :
         LET target == DeliveryTarget(pid)
             delivered == ~Gone(target) /\ ~Forbidden(target)
             resume == \/ delivered /\ request.mode = "terminate"
                       \/ Forbidden(target) /\ node[pid].resume
             rest == todo \ {pid}
         IN  /\ \A other \in todo \ {pid} : Precedes(pid, other)
             /\ todo' = rest
             /\ pending' = IF ~delivered THEN pending
                           ELSE [pending EXCEPT ![target] = @ \cup
                                  {IF request.mode = "force" THEN "KILL" ELSE "TERM"}]
             /\ signalled' = IF delivered THEN signalled \cup {target} ELSE signalled
             /\ denied' = IF Forbidden(target) THEN denied \cup {pid} ELSE denied
             /\ owed' = IF ~ContinuesAtOnce /\ resume THEN owed \cup {pid} ELSE owed
             /\ cur' = pid
             /\ pc' = IF ContinuesAtOnce /\ resume THEN "cont"
                      ELSE IF InGroup /\ rest = {} THEN "resume" ELSE "deliver"
    /\ UNCHANGED <<status, parent, pgrp, name, meddled, budget, request, handle, frozen, node,
                   before, scanVars, sweepVars, expired, interrupted, outcome, thawFailed,
                   kickStopped, kickContinued, stayed>>

\* LinuxTreeOps::cont: through the pidfd if one is held, by number if not.
Continue(pid) ==
    LET target == Pinned(pid)
    IN  IF Gone(target) THEN UNCHANGED <<status, kickContinued, thawFailed>>
        ELSE IF Forbidden(target)
        THEN thawFailed' = thawFailed \cup {pid} /\ UNCHANGED <<status, kickContinued>>
        ELSE /\ status' = [status EXCEPT ![target] = ContStatus(target)]
             /\ kickContinued' = IF status[target] \in {"stopping", "stopped"}
                                  THEN kickContinued \cup {target} ELSE kickContinued
             /\ UNCHANGED thawFailed
ContinueFrame == UNCHANGED <<parent, pgrp, name, pending, meddled, budget, request, handle,
                             frozen, node, stopVars, scanVars, sweepVars, expired, interrupted,
                             denied, kickStopped, signalled, stayed>>

\* signal_tree continues each member right after its signal was queued.
ContinueMember ==
    /\ pc = "cont"
    /\ Continue(cur)
    /\ pc' = "deliver"
    /\ UNCHANGED <<todo, owed, outcome>>
    /\ ContinueFrame

\* signal_group continues only once every signal is queued, in delivery order.
ContinueGroup ==
    /\ pc = "resume"
    /\ IF owed = {}
       THEN /\ pc' = "done" /\ outcome' = "Completed"
            /\ UNCHANGED <<status, kickContinued, thawFailed, owed>>
       ELSE /\ \E pid \in owed : /\ \A other \in owed \ {pid} : Precedes(pid, other)
                                 /\ Continue(pid)
                                 /\ owed' = owed \ {pid}
            /\ UNCHANGED <<pc, outcome>>
    /\ UNCHANGED todo
    /\ ContinueFrame

\* thaw_all: last frozen, first thawed, and only what this kill stopped.
Thaw ==
    /\ pc = "thaw"
    /\ \E pid \in todo : /\ \A other \in todo : node[other].rank <= node[pid].rank
                         /\ Continue(pid)
                         /\ todo' = todo \ {pid}
    /\ UNCHANGED <<pc, owed, outcome>>
    /\ ContinueFrame

-----------------------------------------------------------------------------
\* Time and interruption, and the whole system

Others == UNCHANGED <<kernelVars, request, pc, handle, frozen, node, stopVars, scanVars,
                      sweepVars, todo, owed, reportVars, historyVars>>
Stopping == pc \in {"select", "state", "stop", "ack", "list", "read", "root", "drain"}

\* 500 milliseconds have passed since the kill began.
Expire == /\ Stopping /\ ~expired
          /\ expired' = TRUE /\ UNCHANGED interrupted /\ Others

\* A termination signal arrives for kick and stays blocked; from delivery or
\* cleanup on, nothing looks at it until the guard is dropped.
Interrupt == /\ "interrupt" \in Faults /\ ~interrupted
             /\ Stopping \/ pc \in {"verify", "evidence", "policy"}
             /\ interrupted' = TRUE /\ UNCHANGED expired /\ Others

Executor ==
    \/ SelectMember \/ ReadState \/ SubmitStop \/ Acknowledge \/ StateReadFails
    \/ ListProcesses \/ ReadStatus \/ ReadStat \/ SnapshotTaken \/ SnapshotFails
    \/ CheckRoot \/ Drain \/ Verify \/ ReadEvidence \/ Authorize
    \/ Deliver \/ ContinueMember \/ ContinueGroup \/ Thaw \/ Finish

\* What happens to the process table once the outcome is known is of no interest.
Environment ==
    /\ pc # "done" /\ KernelStep
    /\ UNCHANGED controlVars
    /\ stayed' = stayed \cap TrueMembers'

\* The executor has returned.
Terminated == pc = "done" /\ UNCHANGED vars

Init ==
    /\ KernelInit
    /\ request \in Requests
    /\ pc = "select"
    /\ handle = [pid \in Pid |-> IF pid = RootPid THEN RootProc ELSE NoProc]
    /\ frozen = {} /\ node = [pid \in Pid |-> NoNode]
    /\ work = {RootPid} /\ newDepth = [pid \in Pid |-> 0]
    /\ vanished = {} /\ found = FALSE /\ passes = 0
    /\ cur = RootPid /\ before = NoRead
    /\ listing = {} /\ half = NoHalf /\ snap = [pid \in Pid |-> NoRow]
    /\ expired = FALSE /\ interrupted = FALSE
    /\ todo = {} /\ owed = {}
    /\ outcome = "none" /\ thawFailed = {} /\ denied = {}
    /\ kickStopped = {} /\ kickContinued = {} /\ signalled = {} /\ stayed = {}

Next == Executor \/ Expire \/ Interrupt \/ Environment \/ Terminated
Spec == Init /\ [][Next]_vars

\* The executor never blocks but to poll, and the clock runs.
FairSpec == Spec /\ WF_vars(Executor) /\ WF_vars(Expire)

-----------------------------------------------------------------------------
\* Properties

\* The executor's own variables keep their types, and the sweep its pass bound.
TypeOK ==
    /\ KernelTypeOK
    /\ request \in Requests /\ pc \in Steps
    /\ handle \in [Pid -> Proc \cup {NoProc}]
    /\ frozen \subseteq Pid /\ node \in [Pid -> Node]
    /\ work \subseteq Pid /\ newDepth \in [Pid -> Nat]
    /\ vanished \subseteq Pid /\ found \in BOOLEAN
    /\ passes \in 0..MaxFreezePasses
    /\ cur \in Pid /\ before \in StateRead
    /\ listing \subseteq Pid /\ half \in Half /\ snap \in [Pid -> Row]
    /\ expired \in BOOLEAN /\ interrupted \in BOOLEAN
    /\ todo \subseteq Pid /\ owed \subseteq Pid
    /\ outcome \in Outcomes /\ thawFailed \subseteq Pid /\ denied \subseteq Pid
    /\ kickStopped \subseteq Proc /\ kickContinued \subseteq Proc
    /\ signalled \subseteq Proc /\ stayed \subseteq Proc

\* A process that got the terminating signal is the incarnation recorded and
\* verified for its PID: a recycled number is never signalled, although the
\* snapshots, the stops and the evidence all go by number (execute.rs 349-357).
OnlyVerifiedSignalled == signalled \subseteq {node[pid].who : pid \in frozen}

\* When it is signalled, a process belongs to the scope in the real process
\* table, and not only in the rows read from /proc, whose status and stat halves
\* may come from two processes.  A frozen parent that was killed since the
\* verification leaves an orphan; somebody else's setpgid or signals excuse.
SignalStaysInScope ==
    [][\A p \in signalled' \ signalled :
         \/ p = RootProc \/ p \in meddled
         \/ InTree /\ \E pid \in frozen : parent[p] = node[pid].who
         \/ InTree /\ parent[p] = Reaper
                   /\ \E pid \in frozen : node[PidOf[p]].parent = pid /\ ~Alive(node[pid].who)
         \/ InGroup /\ pgrp[p] = TargetGroup]_vars

\* When the first signal is about to go out, nobody who belongs to the scope runs
\* free (execute.rs 567-570): every live descendant of the root is frozen, and in
\* a group every process that was a member when the converging snapshot began,
\* with the children of the frozen, unless that snapshot shows them elsewhere.
\* Outside continuations void this, as platform-support.md 143-161 says.
ShownElsewhere(p) == Shown(PidOf[p]) /\ snap[PidOf[p]].pgrp # TargetGroup
ScopeClosedAtDelivery ==
    LET held == {node[pid].who : pid \in frozen}
    IN  pc = "deliver" /\ todo = frozen =>
            IF InGroup
            THEN \A p \in TrueMembers \ held :
                    p \notin stayed /\ (parent[p] \in held \ meddled => ShownElsewhere(p))
            ELSE held \cap meddled = {} => TrueMembers \subseteq held

\* Once it returns, kick leaves nobody stopped that it stopped itself, whether it
\* refused at any point, timed out, was interrupted or delivered: such a process
\* runs, is gone, has a SIGKILL to die of, or is reported (execute.rs 1006-1041).
NoStoppedSurvivor ==
    pc = "done" =>
        \A p \in kickStopped \ meddled :
            \/ status[p] \notin {"stopping", "stopped"}
            \/ "KILL" \in pending[p]
            \/ PidOf[p] \in thawFailed

\* A process that was already stopped is never resumed unless it is terminated,
\* and neither is a stranger that took a member's number (execute.rs 76-78).
OthersLeftStopped == kickContinued \subseteq kickStopped \cup signalled \cup meddled

\* A scoped kill undoes exactly the stops it made.
StopsAreUndone == NoStoppedSurvivor /\ OthersLeftStopped

\* While signals are still going out, no process is resumed that has a frozen
\* child without its signal: it could replace the child it sees die
\* (execute.rs 345-347 and 989-992).
ResumesBefore(p) ==
    /\ pc \in {"cont", "resume"} /\ p \notin meddled'
    /\ status[p] \in {"stopping", "stopped"} /\ status'[p] = "running"
    /\ \E pid \in todo : parent[node[pid].who] = p
ResumeAfterSignals == [][\A p \in Proc : ~ResumesBefore(p)]_vars

\* What is signalled is not a protected program at that moment, whatever it exec'd
\* since the preview: the root excepted when its protection was confirmed.  With
\* the prompt skipped it is not another user's either (execute.rs 819-894).
PolicyHeldAtDelivery ==
    [][\A p \in signalled' \ (signalled \cup meddled) :
         /\ name[p] \in Protected => p = RootProc /\ request.auth = "protectedTyped"
         /\ request.auth = "skipped" => name[p] \notin Foreign \cup SystemName]_vars

\* kick never stops itself, even when it belongs to the scope: nobody would be
\* left to resume anything (execute.rs 629-634).
SelfNeverStopped == \A p \in kickStopped : PidOf[p] \notin Unsafe

\* The kill returns, whatever stops never take effect: the deadline, the pass
\* limit and the bounded cleanup end every phase.
EventuallyDone == <>(pc = "done")

\* The executor implements the abstract contract of module KillPromise: it holds
\* what it stopped and has not resumed, and it condemns the frozen incarnations.
Phase == CASE pc \in {"deliver", "cont", "resume"} -> "delivering"
           [] pc = "thaw" -> "refusing"
           [] pc = "done" -> IF outcome = "Completed" THEN "killed" ELSE "refused"
           [] OTHER -> "gathering"
Promise == INSTANCE KillPromise WITH
    phase <- Phase,
    held <- kickStopped \ kickContinued,
    condemned <- IF Phase = "delivering" THEN {node[pid].who : pid \in todo} ELSE {}
KeepsPromise == Promise!Spec

\* execute.rs 35-36: "Every pass drains one snapshot completely, so a static
\* scope normally converges immediately."  Nothing at all happens in the process
\* table from the start, so the pass limit should not be what ends the kill.
StaticScopeConverges == budget = MaxDisturbances => outcome # "SweepPassLimit"
=============================================================================
