-------------------------- MODULE FreezeKill_proofs -------------------------
(***************************************************************************)
(* What holds of a freeze-first kill for every process table, every scope,  *)
(* every pass limit and every number of disturbances:                       *)
(*   - types, and who may be stopped and signalled at all;                   *)
(*   - the contract: it implements the abstract specification KillPromise,   *)
(*     undoes its stops and keeps to the policy it was authorized under;     *)
(*   - the scope: whoever belongs to it is held when the first signal goes   *)
(*     out, and nobody else is signalled.                                    *)
(***************************************************************************)
EXTENDS FreezeKill, Kernel_proofs, FiniteSetTheorems

-----------------------------------------------------------------------------
\* Types

\* A pass is begun only below the limit, and none before the root is recorded.
PassBound == /\ pc = "list" => passes < MaxFreezePasses
             /\ pc = "root" => frozen = {}
             /\ frozen = {} => passes = 0
TypeInv == TypeOK /\ PassBound

LEMMA RootPidType == RootPid \in Pid
BY FreezeKillAssumption, KernelAssumption DEF RootPid

LEMMA RecordTypes ==
    /\ NoRow \in Row /\ NoHalf \in Half /\ NoRead \in StateRead /\ NoNode \in Node
    /\ \A resume \in BOOLEAN : ConfirmedRoot(resume) \in Node
BY FreezeKillAssumption, ReaperPidType
   DEF NoRow, Row, NoHalf, Half, NoRead, StateRead, NoNode, Node, ConfirmedRoot

\* The place a member gets in the frozen vector is a number.
LEMMA NodeType ==
    ASSUME frozen \subseteq Pid, NEW row \in Row, NEW depth \in Nat, NEW resume \in BOOLEAN
    PROVE  /\ NodeOf(row, depth, resume) \in Node
           /\ NodeAs(RootProc, row, depth, resume) \in Node
<1>1. Cardinality(frozen) \in Nat
  BY FS_Subset, FS_CardinalityType, KernelAssumption
<1> QED
  BY <1>1, FreezeKillAssumption DEF NodeOf, NodeAs, Row, Node

\* Fresh evidence about a member changes what is known of it, not who it is.
LEMMA RefreshedType ==
    ASSUME NEW known \in Node, NEW newName \in Name, NEW newForeign \in BOOLEAN
    PROVE  /\ Refreshed(known, newName, newForeign) \in Node
           /\ Refreshed(known, newName, newForeign).who = known.who
BY DEF Node, Refreshed

\* A discovered member hangs from a frozen one, so its depth is a number.
LEMMA DepthType ==
    ASSUME TypeOK, NEW pid \in UnfrozenMembers
    PROVE  pid \in Pid /\ DepthOf(pid) \in Nat
<1>1. CASE InTree
  <2>1. pid \in Pid /\ \E n \in Links : Hangs(pid, n)
    BY <1>1 DEF UnfrozenMembers, UnfrozenChildren
  <2> DEFINE n == CHOOSE n \in Links : Hangs(pid, n)
  <2>2. n \in Links /\ Hangs(pid, n)
    BY <2>1
  <2>3. DepthOf(pid) = node[Climb[n][pid]].depth + n
    BY <1>1 DEF DepthOf, InTree, InGroup
  <2> HIDE DEF n
  <2>4. n \in Nat
    BY <2>2, FS_CardinalityType, KernelAssumption DEF Links
  <2>5. Climb[n][pid] \in Pid
    BY <2>2 DEF Hangs, TypeOK
  <2>6. node[Climb[n][pid]].depth \in Nat
    BY <2>5 DEF TypeOK, Node
  <2> QED
    BY <2>1, <2>3, <2>4, <2>6
<1>2. CASE ~InTree
  BY <1>2, FreezeKillAssumption
     DEF TypeOK, Request, InTree, InGroup, DepthOf, UnfrozenMembers, UnfrozenGroupMembers
<1> QED
  BY <1>1, <1>2

\* Signals change a status to another one.
LEMMA SignalStatusType ==
    ASSUME KernelTypeOK, NEW p \in Proc
    PROVE  /\ [status EXCEPT ![p] = StopStatus(p)] \in [Proc -> Status]
           /\ [status EXCEPT ![p] = ContStatus(p)] \in [Proc -> Status]
BY DEF KernelTypeOK, StopStatus, ContStatus, Status

LEMMA PinnedType ==
    ASSUME TypeOK, NEW pid \in Pid
    PROVE  Pinned(pid) \in Proc \cup {NoProc}
BY OccupantHolds DEF TypeOK, Pinned

\* Continuing a member keeps the types of what it changes.
LEMMA ContinueType ==
    ASSUME TypeOK, NEW pid \in Pid, Continue(pid)
    PROVE  /\ status' \in [Proc -> Status]
           /\ kickContinued' \subseteq Proc /\ thawFailed' \subseteq Pid
<1>1. KernelTypeOK /\ kickContinued \subseteq Proc /\ thawFailed \subseteq Pid
  BY DEF TypeOK
<1>2. CASE Gone(Pinned(pid)) \/ Forbidden(Pinned(pid))
  BY <1>1, <1>2 DEF Continue, KernelTypeOK
<1>3. CASE ~Gone(Pinned(pid)) /\ ~Forbidden(Pinned(pid))
  <2>1. Pinned(pid) \in Proc
    BY <1>3 DEF Gone
  <2> QED
    BY <1>1, <1>3, <2>1, SignalStatusType DEF Continue
<1> QED
  BY <1>2, <1>3

\* Ending a gathering keeps the types of what it changes.
LEMMA RefuseType ==
    ASSUME TypeOK, NEW stopped \in SUBSET Pid, NEW nodes, NEW cause \in Outcomes,
           Refuse(cause, stopped, nodes)
    PROVE  /\ pc' = "thaw" /\ todo' \subseteq Pid
           /\ outcome' \in Outcomes /\ thawFailed' \subseteq Pid /\ denied' \subseteq Pid
BY DEF TypeOK, Refuse

\* What a stopped process is recorded as, root or member.
LEMMA RecordedType ==
    ASSUME TypeOK, NEW resume \in BOOLEAN
    PROVE  /\ ConfirmedRoot(resume) \in Node
           /\ NodeOf(snap[cur], newDepth[cur], resume) \in Node
BY RecordTypes, NodeType DEF TypeOK

LEMMA StopNotFoundType ==
    ASSUME TypeInv, StopNotFound
    PROVE  /\ pc' \in {"thaw", "drain", "select"} /\ handle' \in [Pid -> Proc \cup {NoProc}]
           /\ UNCHANGED <<frozen, node>> /\ vanished' \subseteq Pid /\ todo' \subseteq Pid
           /\ outcome' \in Outcomes /\ thawFailed' \subseteq Pid /\ denied' \subseteq Pid
<1>1. TypeOK
  BY DEF TypeInv
<1>2. CASE frozen = {}
  <2>1. RefuseNow("RootAlreadyExited") /\ UNCHANGED vanished
    BY <1>2 DEF StopNotFound
  <2> QED
    BY <1>1, <2>1, RefuseType DEF TypeOK, StopNotFound, RefuseNow, Outcomes
<1>3. CASE frozen # {}
  BY <1>1, <1>3 DEF TypeOK, StopNotFound, reportVars
<1> QED
  BY <1>2, <1>3

LEMMA StopFailedType ==
    ASSUME TypeInv, NEW cause \in Outcomes, NEW cleanup \in BOOLEAN,
           StopFailed(cause, cleanup)
    PROVE  /\ pc' = "thaw" /\ handle' \in [Pid -> Proc \cup {NoProc}]
           /\ frozen' \subseteq Pid /\ frozen \subseteq frozen' /\ node' \in [Pid -> Node]
           /\ UNCHANGED vanished /\ todo' \subseteq Pid
           /\ outcome' \in Outcomes /\ thawFailed' \subseteq Pid /\ denied' \subseteq Pid
<1>1. TypeOK
  BY DEF TypeInv
<1>2. CASE cleanup
  <2>1. /\ frozen' = frozen \cup {cur} /\ UNCHANGED <<vanished, handle>>
        /\ node' = [node EXCEPT ![cur] = IF frozen = {} THEN ConfirmedRoot(TRUE)
                                         ELSE NodeOf(snap[cur], newDepth[cur], TRUE)]
        /\ Refuse(cause, frozen', node')
    BY <1>2 DEF StopFailed
  <2>2. frozen' \subseteq Pid
    BY <1>1, <2>1 DEF TypeOK
  <2>3. node' \in [Pid -> Node]
    BY <1>1, <2>1, RecordedType DEF TypeOK
  <2>4. /\ pc' = "thaw" /\ todo' \subseteq Pid
        /\ outcome' \in Outcomes /\ thawFailed' \subseteq Pid /\ denied' \subseteq Pid
    BY <1>1, <2>1, <2>2, RefuseType
  <2> QED
    BY <1>1, <2>1, <2>2, <2>3, <2>4 DEF TypeOK
<1>3. CASE ~cleanup
  <2>1. /\ UNCHANGED <<frozen, node, vanished>>
        /\ handle' = [handle EXCEPT ![cur] = NoProc]
        /\ Refuse(cause, frozen, node)
    BY <1>3 DEF StopFailed
  <2> QED
    BY <1>1, <2>1, RefuseType DEF TypeOK
<1> QED
  BY <1>2, <1>3

LEMMA StopAcknowledgedType ==
    ASSUME TypeInv, NEW transitioned \in BOOLEAN, StopAcknowledged(transitioned)
    PROVE  /\ pc' = (IF frozen = {} THEN "list" ELSE IF work = {} THEN "drain" ELSE "select")
           /\ frozen' \subseteq Pid /\ frozen \subseteq frozen' /\ node' \in [Pid -> Node]
           /\ UNCHANGED <<handle, vanished, todo, reportVars>>
<1>1. TypeOK
  BY DEF TypeInv
<1>2. node' \in [Pid -> Node]
  BY <1>1, RecordedType DEF TypeOK, StopAcknowledged
<1> QED
  BY <1>1, <1>2 DEF TypeOK, StopAcknowledged

LEMMA InitType == Init => TypeInv
<1> SUFFICES ASSUME Init PROVE TypeInv
  OBVIOUS
<1>1. KernelTypeOK
  BY KernelAssumption, StartAssumption DEF Init, KernelInit, KernelTypeOK, Table
<1>2. PassBound
  BY DEF Init, PassBound
<1>3. /\ handle \in [Pid -> Proc \cup {NoProc}] /\ newDepth \in [Pid -> Nat]
      /\ work \subseteq Pid /\ cur \in Pid
  BY RootPidType, FreezeKillAssumption DEF Init
<1>4. /\ node \in [Pid -> Node] /\ snap \in [Pid -> Row]
      /\ before \in StateRead /\ half \in Half
  BY RecordTypes DEF Init
<1>5. /\ request \in Requests /\ pc \in Steps /\ outcome \in Outcomes
      /\ passes \in 0..MaxFreezePasses
  BY FreezeKillAssumption DEF Init, Steps, Outcomes
<1> QED
  BY <1>1, <1>2, <1>3, <1>4, <1>5 DEF Init, TypeInv, TypeOK

\* Stopping one member keeps the types.
LEMMA StopStepType ==
    TypeInv /\ (SelectMember \/ ReadState \/ SubmitStop \/ Acknowledge \/ StateReadFails)
        => TypeInv'
<1> SUFFICES ASSUME TypeInv,
                    SelectMember \/ ReadState \/ SubmitStop \/ Acknowledge \/ StateReadFails
             PROVE  TypeInv'
  OBVIOUS
<1>0. TypeOK /\ PassBound
  BY DEF TypeInv
<1>1. CASE SelectMember
  <2> DEFINE failure(pid) ==
        IF frozen # {} /\ interrupted THEN "SnapshotFailed"
        ELSE IF Cardinality(frozen) >= MemberCap THEN "Truncated"
        ELSE IF UnsafePid(pid) THEN "UnsafePid"
        ELSE IF expired THEN "SnapshotFailed"
        ELSE "none"
  <2>1. PICK pid \in work :
          /\ work' = work \ {pid}
          /\ \/ /\ RefuseNow(failure(pid)) /\ UNCHANGED <<handle, cur, vanished>>
             \/ /\ vanished' = vanished \cup {pid}
                /\ pc' \in {"drain", "select"}
                /\ UNCHANGED <<handle, cur, todo, reportVars>>
             \/ /\ handle' = [handle EXCEPT ![pid] = Pinned(pid)]
                /\ cur' = pid /\ pc' = "state"
                /\ UNCHANGED <<vanished, todo, reportVars>>
    BY <1>1 DEF SelectMember
  <2>2. pid \in Pid /\ failure(pid) \in Outcomes
    BY <1>0, <2>1 DEF TypeOK, Outcomes
  <2> HIDE DEF failure
  <2>3. Pinned(pid) \in Proc \cup {NoProc}
    BY <1>0, <2>2, PinnedType
  <2>4. /\ pc' \in Steps \ {"list", "root"} /\ handle' \in [Pid -> Proc \cup {NoProc}]
        /\ work' \subseteq Pid /\ vanished' \subseteq Pid /\ cur' \in Pid /\ todo' \subseteq Pid
        /\ outcome' \in Outcomes /\ thawFailed' \subseteq Pid /\ denied' \subseteq Pid
    <3>1. CASE RefuseNow(failure(pid)) /\ UNCHANGED <<handle, cur, vanished>>
      BY <1>0, <2>1, <2>2, <3>1, RefuseType DEF RefuseNow, TypeOK, Steps
    <3>2. CASE ~(RefuseNow(failure(pid)) /\ UNCHANGED <<handle, cur, vanished>>)
      BY <1>0, <2>1, <2>2, <2>3, <3>2 DEF TypeOK, Steps, reportVars
    <3> QED
      BY <3>1, <3>2
  <2> QED
    BY <1>0, <1>1, <2>4
       DEF SelectMember, TypeInv, TypeOK, KernelTypeOK, PassBound, kernelVars, historyVars,
           signalVars, scanVars
<1>2. CASE ReadState
  <2>1. CASE StopNotFound /\ UNCHANGED before
    BY <1>0, <1>2, <2>1, StopNotFoundType
       DEF ReadState, TypeInv, TypeOK, KernelTypeOK, PassBound, kernelVars, historyVars,
           signalVars, scanVars, Steps
  <2>2. CASE /\ before' = [who |-> Occupant(cur), stopped |-> status[Occupant(cur)] = "stopped"]
             /\ pc' = "stop"
             /\ UNCHANGED <<handle, vanished, frozen, node, todo, reportVars>>
    <3>1. before' \in StateRead
      BY <2>2, OccupantHolds DEF StateRead
    <3> QED
      BY <1>0, <1>2, <2>2, <3>1
         DEF ReadState, TypeInv, TypeOK, KernelTypeOK, PassBound, kernelVars, historyVars,
             signalVars, scanVars, reportVars, Steps
  <2> QED
    BY <1>2, <2>1, <2>2 DEF ReadState
<1>3. ASSUME StopFrame PROVE before' \in StateRead
  BY <1>0, <1>3, RecordTypes DEF StopFrame, TypeOK
<1>4. CASE SubmitStop
  <2> DEFINE target == handle[cur]
             cause == IF expired THEN "SnapshotFailed" ELSE "PermissionDenied"
  <2>1. StopFrame /\ UNCHANGED <<parent, pgrp, name, pending, meddled, budget>>
    BY <1>4 DEF SubmitStop
  <2>2. CASE StopFailed(cause, FALSE) /\ UNCHANGED <<status, kickStopped>>
    <3>1. cause \in Outcomes
      BY DEF Outcomes
    <3> QED
      BY <1>0, <1>3, <2>1, <2>2, <3>1, StopFailedType
         DEF StopFrame, TypeInv, TypeOK, KernelTypeOK, PassBound, scanVars, Steps
  <2>3. CASE StopNotFound /\ UNCHANGED <<status, kickStopped>>
    BY <1>0, <1>3, <2>1, <2>3, StopNotFoundType
       DEF StopFrame, TypeInv, TypeOK, KernelTypeOK, PassBound, scanVars, Steps
  <2>4. CASE /\ ~Gone(target)
             /\ status' = [status EXCEPT ![target] = StopStatus(target)]
             /\ kickStopped' = IF status[target] \in Active THEN kickStopped \cup {target}
                               ELSE kickStopped
             /\ pc' = "ack"
             /\ UNCHANGED <<handle, vanished, frozen, node, todo, reportVars>>
    <3>1. target \in Proc
      BY <2>4 DEF Gone
    <3> HIDE DEF target
    <3>2. status' \in [Proc -> Status] /\ kickStopped' \subseteq Proc
      BY <1>0, <2>4, <3>1, SignalStatusType DEF TypeOK
    <3> QED
      BY <1>0, <1>3, <2>1, <2>4, <3>2
         DEF StopFrame, TypeInv, TypeOK, KernelTypeOK, PassBound, scanVars, reportVars, Steps
  <2> QED
    BY <1>4, <2>2, <2>3, <2>4 DEF SubmitStop
<1>5. Transitioned \in BOOLEAN
  BY DEF Transitioned
<1>6. CASE Acknowledge
  <2>1. StopFrame /\ UNCHANGED <<kernelVars, kickStopped>>
    BY <1>6 DEF Acknowledge
  <2>2. CASE StopFailed("SnapshotFailed", Transitioned)
    <3>1. "SnapshotFailed" \in Outcomes
      BY DEF Outcomes
    <3> QED
      BY <1>0, <1>3, <1>5, <2>1, <2>2, <3>1, StopFailedType
         DEF StopFrame, TypeInv, TypeOK, KernelTypeOK, PassBound, kernelVars, scanVars, Steps
  <2>3. CASE StopNotFound
    BY <1>0, <1>3, <2>1, <2>3, StopNotFoundType
       DEF StopFrame, TypeInv, TypeOK, KernelTypeOK, PassBound, kernelVars, scanVars, Steps
  <2>4. CASE StopAcknowledged(Transitioned)
    BY <1>0, <1>3, <1>5, <2>1, <2>4, StopAcknowledgedType, FreezeKillAssumption
       DEF StopFrame, TypeInv, TypeOK, KernelTypeOK, PassBound, kernelVars, scanVars,
           reportVars, Steps
  <2> QED
    BY <1>6, <2>2, <2>3, <2>4 DEF Acknowledge
<1>7. CASE StateReadFails
  <2> DEFINE cleanup == pc = "ack" /\ Transitioned
  <2>1. /\ StopFailed("SnapshotFailed", cleanup) /\ StopFrame
        /\ budget > 0 /\ budget' = budget - 1
        /\ UNCHANGED <<status, parent, pgrp, name, pending, meddled, kickStopped>>
    BY <1>7 DEF StateReadFails
  <2>2. cleanup \in BOOLEAN /\ "SnapshotFailed" \in Outcomes
    BY DEF Outcomes
  <2>3. budget' \in 0..MaxDisturbances
    BY <1>0, <2>1, KernelAssumption DEF TypeOK, KernelTypeOK
  <2> HIDE DEF cleanup
  <2> QED
    BY <1>0, <1>3, <2>1, <2>2, <2>3, StopFailedType
       DEF StopFrame, TypeInv, TypeOK, KernelTypeOK, PassBound, scanVars, Steps
<1> QED
  BY <1>1, <1>2, <1>4, <1>6, <1>7

\* Reading a snapshot keeps the types, and counts a pass only below the limit.
LEMMA ScanStepType ==
    TypeInv /\ (ListProcesses \/ ReadStatus \/ ReadStat \/ SnapshotTaken \/ SnapshotFails)
        => TypeInv'
<1> SUFFICES ASSUME TypeInv,
                    ListProcesses \/ ReadStatus \/ ReadStat \/ SnapshotTaken \/ SnapshotFails
             PROVE  TypeInv'
  OBVIOUS
<1>0. TypeOK /\ PassBound
  BY DEF TypeInv
<1>1. CASE ListProcesses
  <2>1. CASE /\ RefuseNow("SnapshotFailed")
             /\ UNCHANGED <<listing, snap, passes, stayed>>
    BY <1>0, <1>1, <2>1, RefuseType
       DEF ListProcesses, RefuseNow, TypeInv, TypeOK, KernelTypeOK, PassBound, kernelVars,
           stopVars, signalVars, Outcomes, Steps
  <2>2. CASE /\ pc' = "read" /\ listing' = PresentPids
             /\ snap' = [pid \in Pid |-> NoRow] /\ stayed' = TrueMembers
             /\ passes' = IF frozen = {} THEN passes ELSE passes + 1
             /\ UNCHANGED <<todo, reportVars>>
    <3>1. PresentPids \subseteq Pid /\ TrueMembers \subseteq Proc
      BY DEF PresentPids, TrueMembers
    <3>2. passes' \in 0..MaxFreezePasses /\ (frozen = {} => passes' = 0)
      BY <1>0, <1>1, <2>2, FreezeKillAssumption DEF ListProcesses, TypeOK, PassBound
    <3>3. snap' \in [Pid -> Row]
      BY <2>2, RecordTypes
    <3> QED
      BY <1>0, <1>1, <2>2, <3>1, <3>2, <3>3
         DEF ListProcesses, TypeInv, TypeOK, KernelTypeOK, PassBound, kernelVars, stopVars,
             signalVars, reportVars, Steps
  <2> QED
    BY <1>1, <2>1, <2>2 DEF ListProcesses
<1>2. CASE ReadStatus
  <2>1. PICK pid \in listing :
          \/ listing' = listing \ {pid} /\ UNCHANGED half
          \/ /\ Occupant(pid) # NoProc
             /\ half' = [parent |-> ParentPid(Occupant(pid)),
                         foreign |-> name[Occupant(pid)] \in Foreign, read |-> TRUE]
             /\ UNCHANGED listing
    BY <1>2 DEF ReadStatus
  <2>2. half' \in Half
    <3>1. CASE /\ Occupant(pid) \in Proc
               /\ half' = [parent |-> ParentPid(Occupant(pid)),
                           foreign |-> name[Occupant(pid)] \in Foreign, read |-> TRUE]
      <4> DEFINE isForeign == name[Occupant(pid)] \in Foreign
                 itsParent == ParentPid(Occupant(pid))
      <4>1. isForeign \in BOOLEAN /\ itsParent \in ParentPids
        BY <1>0, <3>1, ParentPidType DEF TypeOK
      <4>2. half' = [parent |-> itsParent, foreign |-> isForeign, read |-> TRUE]
        BY <3>1
      <4> HIDE DEF isForeign, itsParent
      <4> QED
        BY <4>1, <4>2 DEF Half
    <3> QED
      BY <1>0, <2>1, <3>1, OccupantHolds DEF TypeOK
  <2>3. listing' \subseteq Pid
    BY <1>0, <2>1 DEF TypeOK
  <2> QED
    BY <1>0, <1>2, <2>2, <2>3
       DEF ReadStatus, ScanFrame, TypeInv, TypeOK, KernelTypeOK, PassBound, kernelVars,
           stopVars, sweepVars, historyVars, signalVars, reportVars
<1>3. CASE ReadStat
  <2>1. PICK pid \in listing :
          /\ listing' = listing \ {pid}
          /\ \/ UNCHANGED snap
             \/ /\ Occupant(pid) # NoProc
                /\ snap' = [snap EXCEPT ![pid] =
                     [who |-> Occupant(pid), parent |-> half.parent,
                      pgrp |-> pgrp[Occupant(pid)], name |-> name[Occupant(pid)],
                      foreign |-> half.foreign]]
    BY <1>3 DEF ReadStat
  <2>2. snap' \in [Pid -> Row]
    <3>1. CASE UNCHANGED snap
      BY <1>0, <3>1 DEF TypeOK
    <3>2. CASE ~UNCHANGED snap
      <4> DEFINE p == Occupant(pid)
      <4>1. p \in Proc
        BY <2>1, <3>2, OccupantHolds
      <4> HIDE DEF p
      <4>2. [who |-> p, parent |-> half.parent, pgrp |-> pgrp[p], name |-> name[p],
             foreign |-> half.foreign] \in Row
        BY <1>0, <4>1 DEF TypeOK, KernelTypeOK, Half, Row
      <4> QED
        BY <1>0, <2>1, <3>2, <4>2 DEF TypeOK, p
    <3> QED
      BY <3>1, <3>2
  <2>3. listing' \subseteq Pid /\ half' \in Half
    BY <1>0, <1>3, <2>1, RecordTypes DEF TypeOK, ReadStat
  <2> QED
    BY <1>0, <1>3, <2>2, <2>3
       DEF ReadStat, ScanFrame, TypeInv, TypeOK, KernelTypeOK, PassBound, kernelVars,
           stopVars, sweepVars, historyVars, signalVars, reportVars
<1>4. CASE SnapshotTaken
  BY <1>0, <1>4
     DEF SnapshotTaken, ScanFrame, TypeInv, TypeOK, KernelTypeOK, PassBound, kernelVars,
         stopVars, sweepVars, historyVars, signalVars, reportVars, Steps
<1>5. CASE SnapshotFails
  <2>1. frozen \cup {RootPid} \subseteq Pid
    BY <1>0, RootPidType DEF TypeOK
  <2>2. /\ pc' = "thaw" /\ todo' \subseteq Pid
        /\ outcome' \in Outcomes /\ thawFailed' \subseteq Pid /\ denied' \subseteq Pid
    <3>1. "SnapshotFailed" \in Outcomes
      BY DEF Outcomes
    <3> QED
      BY <1>0, <1>5, <2>1, <3>1, RefuseType DEF SnapshotFails
  <2>3. budget' \in 0..MaxDisturbances
    BY <1>0, <1>5, KernelAssumption DEF SnapshotFails, TypeOK, KernelTypeOK
  <2>4. listing' \subseteq Pid /\ half' \in Half /\ frozen' \subseteq Pid /\ frozen' # {}
    BY <1>5, <2>1, RecordTypes DEF SnapshotFails
  <2> QED
    BY <1>0, <1>5, <2>2, <2>3, <2>4
       DEF SnapshotFails, TypeInv, TypeOK, KernelTypeOK, PassBound, stopVars, sweepVars,
           historyVars, signalVars, Steps
<1> QED
  BY <1>1, <1>2, <1>3, <1>4, <1>5

\* The sweep's decisions keep the types, and go on only below the pass limit.
LEMMA SweepStepType ==
    TypeInv /\ (CheckRoot \/ Drain \/ Verify \/ ReadEvidence \/ Authorize) => TypeInv'
<1> SUFFICES ASSUME TypeInv, CheckRoot \/ Drain \/ Verify \/ ReadEvidence \/ Authorize
             PROVE  TypeInv'
  OBVIOUS
<1>0. TypeOK /\ PassBound
  BY DEF TypeInv
<1>1. CASE CheckRoot
  <2> DEFINE row == snap[RootPid]
             failure == IF ~Shown(RootPid) THEN "RootAlreadyExited"
                        ELSE IF row.who # RootProc \/ row.name # RootName THEN "TargetChanged"
                        ELSE IF InGroup /\ row.pgrp # TargetGroup THEN "TargetChanged"
                        ELSE "none"
             observed == NodeAs(RootProc, row, 0, node[RootPid].resume)
  <2>1. /\ node' = IF Shown(RootPid) THEN [node EXCEPT ![RootPid] = observed] ELSE node
        /\ frozen' = {RootPid}
        /\ IF failure = "none" THEN pc' = "list" /\ UNCHANGED <<todo, reportVars>>
           ELSE Refuse(failure, {RootPid}, node')
    BY <1>1 DEF CheckRoot
  <2>2. failure \in Outcomes
    BY DEF Outcomes
  <2>3. observed \in Node
    <3>1. row \in Row /\ node[RootPid].resume \in BOOLEAN
      BY <1>0, RootPidType DEF TypeOK, Node
    <3> QED
      BY <1>0, <3>1, NodeType DEF TypeOK
  <2> HIDE DEF failure, observed
  <2>4. node' \in [Pid -> Node] /\ frozen' \subseteq Pid /\ frozen' # {}
    BY <1>0, <2>1, <2>3, RootPidType DEF TypeOK
  <2>5. /\ pc' \in {"list", "thaw"} /\ todo' \subseteq Pid
        /\ outcome' \in Outcomes /\ thawFailed' \subseteq Pid /\ denied' \subseteq Pid
    <3>1. CASE failure = "none"
      BY <1>0, <2>1, <3>1 DEF TypeOK, reportVars
    <3>2. CASE failure # "none"
      BY <1>0, <2>1, <2>2, <3>2, RefuseType, RootPidType
    <3> QED
      BY <3>1, <3>2
  <2>6. passes < MaxFreezePasses
    BY <1>0, <1>1, FreezeKillAssumption DEF CheckRoot, PassBound
  <2> QED
    BY <1>0, <1>1, <2>4, <2>5, <2>6
       DEF CheckRoot, TypeInv, TypeOK, KernelTypeOK, PassBound, kernelVars, stopVars,
           scanVars, sweepVars, historyVars, signalVars, Steps
<1>2. CASE Drain
  <2> DEFINE discovered == UnfrozenMembers \ vanished
  <2>1. CASE /\ discovered # {}
             /\ work' = discovered /\ found' = TRUE /\ pc' = "select"
             /\ newDepth' = [pid \in Pid |-> IF pid \in discovered THEN DepthOf(pid) ELSE 0]
             /\ UNCHANGED <<todo, reportVars>>
    <3>1. work' \subseteq Pid /\ newDepth' \in [Pid -> Nat]
      BY <1>0, <2>1, DepthType
    <3> QED
      BY <1>0, <1>2, <2>1, <3>1
         DEF Drain, TypeInv, TypeOK, KernelTypeOK, PassBound, kernelVars, stopVars,
             scanVars, historyVars, signalVars, reportVars, Steps
  <2>2. CASE /\ pc' = "verify" \/ (pc' = "list" /\ PassesLeft)
             /\ UNCHANGED <<work, newDepth, found, todo, reportVars>>
    BY <1>0, <1>2, <2>2
       DEF Drain, TypeInv, TypeOK, KernelTypeOK, PassBound, PassesLeft, kernelVars, stopVars,
           scanVars, historyVars, signalVars, reportVars, Steps
  <2>3. CASE RefuseNow("SweepPassLimit") /\ UNCHANGED <<work, newDepth, found>>
    <3>1. /\ pc' = "thaw" /\ todo' \subseteq Pid
          /\ outcome' \in Outcomes /\ thawFailed' \subseteq Pid /\ denied' \subseteq Pid
      BY <1>0, <2>3, RefuseType DEF RefuseNow, TypeOK, Outcomes
    <3> QED
      BY <1>0, <1>2, <2>3, <3>1
         DEF Drain, TypeInv, TypeOK, KernelTypeOK, PassBound, kernelVars, stopVars,
             scanVars, historyVars, signalVars, Steps
  <2> QED
    BY <1>2, <2>1, <2>2, <2>3 DEF Drain
<1>3. CASE Verify
  <2>1. CASE RefuseNow("TargetChanged") /\ UNCHANGED <<handle, node>>
    <3>1. /\ pc' = "thaw" /\ todo' \subseteq Pid
          /\ outcome' \in Outcomes /\ thawFailed' \subseteq Pid /\ denied' \subseteq Pid
      BY <1>0, <2>1, RefuseType DEF RefuseNow, TypeOK, Outcomes
    <3> QED
      BY <1>0, <1>3, <2>1, <3>1
         DEF Verify, TypeInv, TypeOK, KernelTypeOK, PassBound, kernelVars, stopVars,
             scanVars, sweepVars, historyVars, signalVars, Steps
  <2>2. CASE
        /\ handle' = [pid \in Pid |-> IF pid \in frozen THEN Pinned(pid) ELSE handle[pid]]
        /\ node' = [pid \in Pid |->
             IF pid \in frozen
             THEN Refreshed(node[pid], snap[pid].name, snap[pid].foreign)
             ELSE node[pid]]
        /\ pc' = "evidence" /\ todo' = frozen
        /\ UNCHANGED reportVars
    <3>1. handle' \in [Pid -> Proc \cup {NoProc}]
      BY <1>0, <2>2, PinnedType DEF TypeOK
    <3>2. node' \in [Pid -> Node]
      <4>1. ASSUME NEW pid \in Pid
            PROVE  Refreshed(node[pid], snap[pid].name, snap[pid].foreign) \in Node
        <5>1. node[pid] \in Node /\ snap[pid].name \in Name /\ snap[pid].foreign \in BOOLEAN
          BY <1>0 DEF TypeOK, Row
        <5> QED
          BY <5>1, RefreshedType
      <4> QED
        BY <1>0, <2>2, <4>1 DEF TypeOK
    <3> QED
      BY <1>0, <1>3, <2>2, <3>1, <3>2
         DEF Verify, TypeInv, TypeOK, KernelTypeOK, PassBound, kernelVars, stopVars,
             scanVars, sweepVars, historyVars, signalVars, reportVars, Steps
  <2> QED
    BY <1>3, <2>1, <2>2 DEF Verify
<1>4. CASE ReadEvidence
  <2>1. PICK pid \in todo :
          \/ /\ Has(pid, node[pid].who)
             /\ node' = [node EXCEPT ![pid] = Refreshed(@, name[@.who], @.foreign)]
             /\ todo' = todo \ {pid}
             /\ pc' \in {"policy", pc}
             /\ UNCHANGED reportVars
          \/ RefuseNow("TargetChanged") /\ UNCHANGED node
    BY <1>4 DEF ReadEvidence
  <2>2. CASE RefuseNow("TargetChanged") /\ UNCHANGED node
    <3>1. /\ pc' = "thaw" /\ todo' \subseteq Pid
          /\ outcome' \in Outcomes /\ thawFailed' \subseteq Pid /\ denied' \subseteq Pid
      BY <1>0, <2>2, RefuseType DEF RefuseNow, TypeOK, Outcomes
    <3> QED
      BY <1>0, <1>4, <2>2, <3>1
         DEF ReadEvidence, TypeInv, TypeOK, KernelTypeOK, PassBound, kernelVars, stopVars,
             scanVars, sweepVars, historyVars, signalVars, Steps
  <2>3. CASE /\ Has(pid, node[pid].who)
             /\ node' = [node EXCEPT ![pid] = Refreshed(@, name[@.who], @.foreign)]
             /\ todo' = todo \ {pid}
             /\ pc' \in {"policy", pc}
             /\ UNCHANGED reportVars
    <3>1. pid \in Pid /\ node[pid] \in Node /\ node[pid].foreign \in BOOLEAN
      BY <1>0 DEF TypeOK, Node
    <3>2. node[pid].who \in Proc /\ name[node[pid].who] \in Name
      BY <1>0, <2>3 DEF Has, TypeOK, KernelTypeOK
    <3>3. node' \in [Pid -> Node]
      BY <1>0, <2>3, <3>1, <3>2, RefreshedType DEF TypeOK
    <3> QED
      BY <1>0, <1>4, <2>3, <3>3
         DEF ReadEvidence, TypeInv, TypeOK, KernelTypeOK, PassBound, kernelVars, stopVars,
             scanVars, sweepVars, historyVars, signalVars, reportVars, Steps
  <2> QED
    BY <2>1, <2>2, <2>3
<1>5. CASE Authorize
  <2>1. Verdict \in Outcomes
    BY DEF Verdict, Outcomes
  <2>2. /\ pc' \in {"deliver", "thaw"} /\ todo' \subseteq Pid
        /\ outcome' \in Outcomes /\ thawFailed' \subseteq Pid /\ denied' \subseteq Pid
    <3>1. CASE Verdict = "none"
      BY <1>0, <1>5, <3>1 DEF Authorize, TypeOK, reportVars
    <3>2. CASE Verdict # "none"
      BY <1>0, <1>5, <2>1, <3>2, RefuseType DEF Authorize, RefuseNow, TypeOK
    <3> QED
      BY <3>1, <3>2
  <2> QED
    BY <1>0, <1>5, <2>2
       DEF Authorize, TypeInv, TypeOK, KernelTypeOK, PassBound, kernelVars, stopVars,
           scanVars, sweepVars, historyVars, signalVars, Steps
<1> QED
  BY <1>1, <1>2, <1>3, <1>4, <1>5

\* Delivery and cleanup keep the types.
LEMMA EndStepType ==
    TypeInv /\ (Deliver \/ ContinueMember \/ ContinueGroup \/ Thaw \/ Finish) => TypeInv'
<1> SUFFICES ASSUME TypeInv, Deliver \/ ContinueMember \/ ContinueGroup \/ Thaw \/ Finish
             PROVE  TypeInv'
  OBVIOUS
<1>0. TypeOK /\ PassBound
  BY DEF TypeInv
<1>1. CASE Deliver
  <2>1. PICK pid \in todo :
          LET target == DeliveryTarget(pid)
              delivered == ~Gone(target) /\ ~Forbidden(target)
          IN  /\ todo' = todo \ {pid} /\ cur' = pid
              /\ pending' = IF ~delivered THEN pending
                            ELSE [pending EXCEPT ![target] = @ \cup
                                   {IF request.mode = "force" THEN "KILL" ELSE "TERM"}]
              /\ signalled' = IF delivered THEN signalled \cup {target} ELSE signalled
              /\ denied' = IF Forbidden(target) THEN denied \cup {pid} ELSE denied
              /\ owed' \subseteq owed \cup {pid}
              /\ pc' \in {"cont", "resume", "deliver"}
    BY <1>1 DEF Deliver
  <2>2. pid \in Pid
    BY <1>0 DEF TypeOK
  <2>3. /\ pending' \in [Proc -> SUBSET {"TERM", "KILL"}] /\ signalled' \subseteq Proc
        /\ denied' \subseteq Pid
    <3>1. CASE Gone(DeliveryTarget(pid))
      BY <1>0, <2>1, <2>2, <3>1 DEF TypeOK, KernelTypeOK
    <3>2. CASE ~Gone(DeliveryTarget(pid))
      <4>1. DeliveryTarget(pid) \in Proc
        BY <3>2 DEF Gone
      <4> QED
        BY <1>0, <2>1, <2>2, <4>1 DEF TypeOK, KernelTypeOK
    <3> QED
      BY <3>1, <3>2
  <2>4. todo' \subseteq Pid /\ owed' \subseteq Pid /\ cur' \in Pid
    BY <1>0, <2>1, <2>2 DEF TypeOK
  <2> QED
    BY <1>0, <1>1, <2>1, <2>3, <2>4
       DEF Deliver, TypeInv, TypeOK, KernelTypeOK, PassBound, scanVars, sweepVars, Steps
<1>2. ASSUME NEW pid \in Pid, Continue(pid), ContinueFrame, pc' \in Steps \ {"list", "root"},
             todo' \subseteq Pid, owed' \subseteq Pid, outcome' \in Outcomes
      PROVE  TypeInv'
  <2>1. /\ status' \in [Proc -> Status]
        /\ kickContinued' \subseteq Proc /\ thawFailed' \subseteq Pid
    BY <1>0, <1>2, ContinueType
  <2> QED
    BY <1>0, <1>2, <2>1
       DEF ContinueFrame, TypeInv, TypeOK, KernelTypeOK, PassBound, stopVars, scanVars, sweepVars
<1>3. CASE ContinueMember
  BY <1>0, <1>2, <1>3 DEF ContinueMember, TypeOK, Steps
<1>4. CASE ContinueGroup
  <2>1. CASE owed = {}
    BY <1>0, <1>4, <2>1
       DEF ContinueGroup, ContinueFrame, TypeInv, TypeOK, KernelTypeOK, PassBound, stopVars,
           scanVars, sweepVars, Steps, Outcomes
  <2>2. CASE owed # {}
    <3>1. PICK pid \in owed : Continue(pid) /\ owed' = owed \ {pid}
      BY <1>4, <2>2 DEF ContinueGroup
    <3> QED
      BY <1>0, <1>2, <1>4, <2>2, <3>1 DEF ContinueGroup, TypeOK, Steps
  <2> QED
    BY <2>1, <2>2
<1>5. CASE Thaw
  <2>1. PICK pid \in todo : Continue(pid) /\ todo' = todo \ {pid}
    BY <1>5 DEF Thaw
  <2> QED
    BY <1>0, <1>2, <1>5, <2>1 DEF Thaw, TypeOK, Steps
<1>6. CASE Finish
  BY <1>0, <1>6
     DEF Finish, TypeInv, TypeOK, KernelTypeOK, PassBound, kernelVars, stopVars, scanVars,
         sweepVars, historyVars, signalVars, Steps, Outcomes
<1> QED
  BY <1>1, <1>3, <1>4, <1>5, <1>6

\* What happens around the executor keeps the types.
LEMMA OutsideStepType ==
    TypeInv /\ (Expire \/ Interrupt \/ Environment \/ UNCHANGED vars) => TypeInv'
<1> SUFFICES ASSUME TypeInv, Expire \/ Interrupt \/ Environment \/ UNCHANGED vars
             PROVE  TypeInv'
  OBVIOUS
<1>0. TypeOK /\ PassBound
  BY DEF TypeInv
<1>1. CASE Expire \/ Interrupt
  BY <1>0, <1>1
     DEF Expire, Interrupt, Others, TypeInv, TypeOK, KernelTypeOK, PassBound, kernelVars,
         stopVars, scanVars, sweepVars, reportVars, historyVars, signalVars
<1>2. CASE Environment
  <2>1. KernelTypeOK'
    BY <1>0, <1>2, KernelStepType DEF Environment, TypeOK
  <2>2. stayed' \subseteq Proc
    BY <1>0, <1>2 DEF Environment, TypeOK
  <2> QED
    BY <1>0, <1>2, <2>1, <2>2
       DEF Environment, TypeInv, TypeOK, PassBound, controlVars, stopVars, scanVars,
           sweepVars, reportVars, signalVars
<1>3. CASE UNCHANGED vars
  BY <1>0, <1>3
     DEF vars, executorVars, controlVars, TypeInv, TypeOK, KernelTypeOK, PassBound, kernelVars,
         stopVars, scanVars, sweepVars, reportVars, signalVars
<1> QED
  BY <1>1, <1>2, <1>3

LEMMA NextType == TypeInv /\ [Next]_vars => TypeInv'
BY StopStepType, ScanStepType, SweepStepType, EndStepType, OutsideStepType
   DEF Next, Executor, Terminated

\* Every variable keeps its type, and a sweep never goes beyond MAX_FREEZE_PASSES
\* snapshots (execute.rs 571-667), however long the scope keeps changing.
THEOREM TypeCorrect == Spec => []TypeOK
<1>1. TypeInv => TypeOK
  BY DEF TypeInv
<1> QED
  BY <1>1, InitType, NextType, PTL DEF Spec

-----------------------------------------------------------------------------
\* Identity

Taking == pc \in {"state", "stop", "ack"}
Gathering == Taking \/ pc \in {"select", "list", "read", "root", "drain", "verify"}
Delivering == pc \in {"deliver", "cont", "resume"}

\* A row shows a process that had the number when it was read.
RowsReal == \A pid \in Pid : snap[pid] # NoRow =>
    /\ snap[pid].who \in Proc /\ PidOf[snap[pid].who] = pid
    /\ status[snap[pid].who] # "unborn"

\* Until the root is recorded, it is pinned and the only one worked on.
RootFirstTaken == Gathering /\ frozen = {} =>
    /\ handle[RootPid] = RootProc
    /\ pc \notin {"drain", "verify"}
    /\ pc = "select" => work = {RootPid}
    /\ Taking => cur = RootPid /\ work = {}

\* A member waiting to be stopped is shown by the snapshot, and not pinned yet.
WorkWaits == Gathering =>
    /\ pc # "select" /\ ~Taking => work = {}
    /\ \A pid \in work : /\ pid \notin frozen
                         /\ frozen # {} => handle[pid] = NoProc /\ snap[pid] # NoRow

\* The member being stopped is pinned: to the process its row shows, unless that
\* process has died and its number went to another before the pidfd was opened.
TakenPinned == Taking =>
    /\ cur \notin frozen /\ cur \notin work /\ handle[cur] # NoProc
    /\ frozen # {} => /\ snap[cur] # NoRow
                      /\ snap[cur].who = handle[cur] \/ status[snap[cur].who] = "dead"

\* So is every recorded member, and nobody else is pinned.
FrozenPinned == Gathering =>
    /\ \A pid \in frozen : /\ handle[pid] # NoProc /\ node[pid].who \in Proc
                           /\ node[pid].who = handle[pid] \/ status[node[pid].who] = "dead"
    /\ \A pid \in Pid : handle[pid] # NoProc =>
          pid \in frozen \/ (Taking /\ pid = cur) \/ (frozen = {} /\ pid = RootPid)

\* A member that is being stopped was discovered in this pass, and a scope that
\* is verified has discovered nobody.
StopsFound == /\ (pc = "select" \/ Taking) /\ frozen # {} => found
              /\ pc = "verify" => ~found

\* In a snapshot that discovered nobody, a row that still shows the recorded
\* process shows the pinned one: it was alive after it had been pinned.
RowsMatch == pc \in {"read", "drain", "verify"} /\ ~found =>
    \A pid \in frozen : snap[pid] # NoRow /\ snap[pid].who = node[pid].who
                           => handle[pid] = node[pid].who

\* From the verification on, every recorded process is the pinned one.
VerifiedPinned == pc \in {"evidence", "policy"} \/ Delivering =>
    \A pid \in frozen : handle[pid] = node[pid].who
DeliveryInFrozen == pc \in {"deliver", "cont"} => todo \subseteq frozen

\* Nobody gets the terminating signal before delivery.
QuietBefore == ~Delivering /\ pc # "done" => signalled = {}

IdentityInv ==
    /\ OneHolder /\ RowsReal /\ RootFirstTaken /\ WorkWaits /\ TakenPinned
    /\ FrozenPinned /\ StopsFound /\ RowsMatch /\ VerifiedPinned /\ DeliveryInFrozen /\ QuietBefore
    /\ OnlyVerifiedSignalled

\* Signals neither revive the dead nor give a number to two processes.
LEMMA SignalAges ==
    ASSUME KernelTypeOK, OneHolder, NEW p \in Proc,
           \/ status' = [status EXCEPT ![p] = StopStatus(p)]
           \/ status' = [status EXCEPT ![p] = ContStatus(p)]
    PROVE  OneHolder' /\ Ages
<1>1. \A q \in Proc : status'[q] \in Present => status[q] \in Present
  BY DEF KernelTypeOK, StopStatus, ContStatus, Present, Live, Active
<1>2. Ages
  BY DEF KernelTypeOK, StopStatus, ContStatus, Ages
<1> QED
  BY <1>1, <1>2, NobodyAppears

LEMMA SameStatusAges ==
    ASSUME OneHolder, UNCHANGED status
    PROVE  OneHolder' /\ Ages
BY DEF OneHolder, Ages

LEMMA ContinueAges ==
    ASSUME KernelTypeOK, OneHolder, NEW pid, Continue(pid)
    PROVE  OneHolder' /\ Ages
<1>1. CASE Gone(Pinned(pid)) \/ Forbidden(Pinned(pid))
  BY <1>1, SameStatusAges DEF Continue
<1>2. CASE ~Gone(Pinned(pid)) /\ ~Forbidden(Pinned(pid))
  <2>1. Pinned(pid) \in Proc
    BY <1>2 DEF Gone
  <2> QED
    BY <1>2, <2>1, SignalAges DEF Continue
<1> QED
  BY <1>1, <1>2

\* No step, of the executor or of the process table, revives an incarnation or
\* gives a number to two of them.
LEMMA NextAges == TypeInv /\ OneHolder /\ [Next]_vars => OneHolder' /\ Ages
<1> SUFFICES ASSUME TypeInv, OneHolder, [Next]_vars PROVE OneHolder' /\ Ages
  OBVIOUS
<1>0. KernelTypeOK
  BY DEF TypeInv, TypeOK
<1>1. CASE SubmitStop
  <2>1. CASE UNCHANGED status
    BY <2>1, SameStatusAges
  <2>2. CASE /\ ~Gone(handle[cur])
             /\ status' = [status EXCEPT ![handle[cur]] = StopStatus(handle[cur])]
    BY <1>0, <2>2, SignalAges DEF Gone
  <2> QED
    BY <1>1, <2>1, <2>2 DEF SubmitStop
<1>2. CASE ContinueMember
  BY <1>0, <1>2, ContinueAges DEF ContinueMember
<1>3. CASE ContinueGroup
  BY <1>0, <1>3, ContinueAges, SameStatusAges DEF ContinueGroup
<1>4. CASE Thaw
  BY <1>0, <1>4, ContinueAges DEF Thaw
<1>5. CASE Environment
  BY <1>0, <1>5, KernelStepIdentity DEF Environment
<1>6. CASE \/ SelectMember \/ ReadState \/ Acknowledge \/ StateReadFails
           \/ ListProcesses \/ ReadStatus \/ ReadStat \/ SnapshotTaken \/ SnapshotFails
           \/ CheckRoot \/ Drain \/ Verify \/ ReadEvidence \/ Authorize \/ Deliver \/ Finish
           \/ Expire \/ Interrupt \/ UNCHANGED vars
  <2>1. UNCHANGED status
    BY <1>6 DEF SelectMember, ReadState, Acknowledge, StateReadFails, ListProcesses, ReadStatus,
                ReadStat, SnapshotTaken, SnapshotFails, CheckRoot, Drain, Verify, ReadEvidence,
                Authorize, Deliver, Finish, Expire, Interrupt, Others, vars, kernelVars
  <2> QED
    BY <2>1, SameStatusAges
<1> QED
  BY <1>1, <1>2, <1>3, <1>4, <1>5, <1>6 DEF Next, Executor, Terminated

LEMMA RowsStayReal ==
    ASSUME TypeOK, RowsReal, Ages, UNCHANGED snap
    PROVE  RowsReal'
BY DEF RowsReal, Ages

\* A kill that gives up before delivery keeps the invariant whatever it did.
LEMMA RefusalIdentity ==
    ASSUME IdentityInv, pc' = "thaw", OneHolder', RowsReal',
           ~Delivering, pc # "done", UNCHANGED signalled
    PROVE  IdentityInv'
<1>1. signalled' = {}
  BY DEF IdentityInv, QuietBefore
<1> QED
  BY <1>1 DEF IdentityInv, Taking, Gathering, Delivering, RootFirstTaken, WorkWaits, TakenPinned,
              FrozenPinned, StopsFound, RowsMatch, VerifiedPinned, DeliveryInFrozen, QuietBefore,
              OnlyVerifiedSignalled

\* A row that was read from a process with the number, and the process that has
\* it now: they are one, or the one that was read has died.
LEMMA RowHolder ==
    ASSUME TypeOK, OneHolder, RowsReal, NEW pid \in Pid, snap[pid] # NoRow,
           Occupant(pid) # NoProc
    PROVE  snap[pid].who = Occupant(pid) \/ status[snap[pid].who] = "dead"
<1>1. Occupant(pid) \in Proc /\ Has(pid, Occupant(pid))
  BY OccupantHolds
<1>2. snap[pid].who \in Proc /\ PidOf[snap[pid].who] = pid /\ status[snap[pid].who] # "unborn"
  BY DEF RowsReal
<1>3. status[snap[pid].who] \in Present \/ status[snap[pid].who] = "dead"
  BY <1>2 DEF TypeOK, KernelTypeOK, Status, Present, Live, Active
<1> QED
  BY <1>1, <1>2, <1>3 DEF OneHolder, Has

LEMMA SelectIdentity == TypeInv /\ IdentityInv /\ SelectMember => IdentityInv'
<1> SUFFICES ASSUME TypeInv, IdentityInv, SelectMember PROVE IdentityInv'
  OBVIOUS
<1>0. TypeOK /\ NoProc \notin Proc /\ RootProc \in Proc
  BY KernelAssumption, FreezeKillAssumption DEF TypeInv
<1>1. OneHolder' /\ Ages
  BY NextAges DEF Next, Executor, IdentityInv
<1>2. /\ pc = "select" /\ signalled = {} /\ UNCHANGED <<status, frozen, node, snap, found, signalled>>
  BY DEF SelectMember, kernelVars, scanVars, historyVars, signalVars, IdentityInv, QuietBefore,
         Delivering
<1>3. RowsReal'
  BY <1>0, <1>1, <1>2, RowsStayReal DEF IdentityInv
<1>4. PICK pid \in work :
        /\ work' = work \ {pid}
        /\ \/ pc' = "thaw"
           \/ /\ Pinned(pid) = NoProc /\ UNCHANGED <<handle, cur>>
              /\ pc' = IF work' = {} THEN "drain" ELSE "select"
           \/ /\ Pinned(pid) # NoProc
              /\ handle' = [handle EXCEPT ![pid] = Pinned(pid)]
              /\ cur' = pid /\ pc' = "state"
  BY DEF SelectMember, RefuseNow, Refuse
<1>5. CASE pc' = "thaw"
  BY <1>1, <1>2, <1>3, <1>5, RefusalIdentity DEF Delivering
<1>6. CASE /\ Pinned(pid) = NoProc /\ UNCHANGED <<handle, cur>>
           /\ pc' = IF work' = {} THEN "drain" ELSE "select"
  <2>1. frozen # {}
    BY <1>0, <1>2, <1>4, <1>6 DEF IdentityInv, RootFirstTaken, Gathering, Pinned
  <2>2. found
    BY <1>2, <2>1 DEF IdentityInv, StopsFound
  <2>3. /\ RootFirstTaken' /\ WorkWaits' /\ TakenPinned' /\ FrozenPinned' /\ StopsFound'
        /\ RowsMatch'
    BY <1>2, <1>4, <1>6, <2>1, <2>2
       DEF IdentityInv, Gathering, Taking, RootFirstTaken, WorkWaits, TakenPinned, FrozenPinned,
           StopsFound, RowsMatch
  <2> QED
    BY <1>1, <1>2, <1>3, <1>6, <2>3
       DEF IdentityInv, VerifiedPinned, DeliveryInFrozen, QuietBefore, Delivering,
           OnlyVerifiedSignalled
<1>7. CASE /\ Pinned(pid) # NoProc
           /\ handle' = [handle EXCEPT ![pid] = Pinned(pid)]
           /\ cur' = pid /\ pc' = "state"
  <2>1. pid \in Pid /\ pid \notin frozen /\ handle'[pid] = Pinned(pid)
    BY <1>0, <1>2, <1>4, <1>7 DEF IdentityInv, WorkWaits, Gathering, TypeOK
  <2>2. \A other \in Pid \ {pid} : handle'[other] = handle[other]
    BY <1>0, <1>7 DEF TypeOK
  <2>3. CASE frozen = {}
    <3>1. pid = RootPid /\ work' = {} /\ handle'[RootPid] = RootProc
      BY <1>0, <1>2, <1>4, <2>1, <2>3 DEF IdentityInv, RootFirstTaken, Gathering, Pinned, Taking
    <3>2. RootFirstTaken' /\ WorkWaits' /\ TakenPinned' /\ FrozenPinned'
      BY <1>0, <1>2, <1>7, <2>1, <2>2, <2>3, <3>1
         DEF IdentityInv, Gathering, Taking, RootFirstTaken, WorkWaits, TakenPinned, FrozenPinned
    <3> QED
      BY <1>1, <1>2, <1>3, <1>7, <2>3, <3>2
         DEF IdentityInv, VerifiedPinned, DeliveryInFrozen, QuietBefore, Delivering, Taking,
             StopsFound, RowsMatch, OnlyVerifiedSignalled
  <2>4. CASE frozen # {}
    <3>1. handle[pid] = NoProc /\ snap[pid] # NoRow /\ found
      BY <1>2, <1>4, <2>4 DEF IdentityInv, WorkWaits, StopsFound, Gathering
    <3>2. snap[pid].who = handle'[pid] \/ status[snap[pid].who] = "dead"
      BY <1>0, <1>7, <2>1, <3>1, RowHolder DEF IdentityInv, Pinned
    <3>3. TakenPinned'
      BY <1>2, <1>4, <1>7, <2>1, <3>1, <3>2 DEF TakenPinned, Taking
    <3>4. RootFirstTaken' /\ StopsFound' /\ RowsMatch'
      BY <1>2, <1>7, <2>4, <3>1 DEF RootFirstTaken, StopsFound, RowsMatch
    <3>5. WorkWaits'
      BY <1>0, <1>2, <1>4, <1>7, <2>2
         DEF IdentityInv, Gathering, Taking, WorkWaits, TypeOK
    <3>6. FrozenPinned'
      BY <1>0, <1>2, <1>7, <2>1, <2>2
         DEF IdentityInv, Gathering, Taking, FrozenPinned, TypeOK
    <3> QED
      BY <1>1, <1>2, <1>3, <1>7, <3>3, <3>4, <3>5, <3>6
         DEF IdentityInv, VerifiedPinned, DeliveryInFrozen, QuietBefore, Delivering,
             OnlyVerifiedSignalled
  <2> QED
    BY <2>3, <2>4
<1> QED
  BY <1>4, <1>5, <1>6, <1>7

\* A member that is gone is dropped together with its pidfd.
LEMMA NotFoundIdentity ==
    ASSUME TypeInv, IdentityInv, Taking, StopNotFound, Ages, OneHolder', RowsReal',
           UNCHANGED <<cur, work, snap, found, signalled>>
    PROVE  IdentityInv'
<1>1. CASE frozen = {}
  BY <1>1, RefusalIdentity DEF StopNotFound, RefuseNow, Refuse, Taking, Delivering
<1>2. CASE frozen # {}
  <2>1. /\ handle' = [handle EXCEPT ![cur] = NoProc] /\ UNCHANGED <<frozen, node>>
        /\ pc' = IF work = {} THEN "drain" ELSE "select"
    BY <1>2 DEF StopNotFound
  <2>2. /\ cur \in Pid \ frozen /\ cur \notin work
        /\ handle'[cur] = NoProc /\ \A pid \in Pid \ {cur} : handle'[pid] = handle[pid]
    BY <2>1 DEF TypeInv, TypeOK, IdentityInv, TakenPinned
  <2>3. found /\ frozen \subseteq Pid /\ work \subseteq Pid
    BY <1>2 DEF IdentityInv, StopsFound, TypeInv, TypeOK
  <2>4. WorkWaits'
    BY <1>2, <2>1, <2>2, <2>3 DEF IdentityInv, Gathering, Taking, WorkWaits
  <2>5. FrozenPinned'
    <3>1. \A pid \in frozen' : /\ handle'[pid] # NoProc /\ node'[pid].who \in Proc
                               /\ \/ node'[pid].who = handle'[pid]
                                  \/ status'[node'[pid].who] = "dead"
      BY <2>1, <2>2, <2>3 DEF IdentityInv, Gathering, Taking, FrozenPinned, Ages
    <3> QED
      BY <1>2, <2>1, <2>2, <3>1 DEF IdentityInv, Gathering, Taking, FrozenPinned
  <2>6. RootFirstTaken' /\ TakenPinned' /\ StopsFound' /\ RowsMatch'
    BY <1>2, <2>1, <2>3 DEF RootFirstTaken, TakenPinned, StopsFound, RowsMatch, Taking
  <2> QED
    BY <2>1, <2>4, <2>5, <2>6
       DEF IdentityInv, VerifiedPinned, DeliveryInFrozen, QuietBefore, Taking, Delivering,
           OnlyVerifiedSignalled
<1> QED
  BY <1>1, <1>2

\* A member that is stopped is recorded as its row shows it, and the root as it
\* was confirmed.
LEMMA AcknowledgedIdentity ==
    ASSUME TypeInv, IdentityInv, Taking, NEW transitioned, StopAcknowledged(transitioned),
           OneHolder', RowsReal', UNCHANGED <<status, cur, work, snap, found, signalled>>
    PROVE  IdentityInv'
<1>0. /\ frozen \subseteq Pid /\ work \subseteq Pid /\ cur \in Pid \ frozen /\ cur \notin work
      /\ handle[cur] # NoProc /\ node \in [Pid -> Node]
  BY DEF TypeInv, TypeOK, IdentityInv, TakenPinned
<1>1. CASE frozen = {}
  <2>1. UNCHANGED <<handle, frozen>> /\ pc' = "list"
    BY <1>1 DEF StopAcknowledged
  <2>2. cur = RootPid /\ work = {} /\ handle[RootPid] = RootProc
    BY <1>1 DEF IdentityInv, RootFirstTaken, Gathering
  <2>3. RootFirstTaken' /\ WorkWaits' /\ FrozenPinned'
    BY <1>1, <2>1, <2>2
       DEF IdentityInv, RootFirstTaken, WorkWaits, FrozenPinned, Gathering, Taking
  <2> QED
    BY <2>1, <2>3
       DEF IdentityInv, TakenPinned, StopsFound, RowsMatch, VerifiedPinned, DeliveryInFrozen,
           QuietBefore, Taking, Delivering, OnlyVerifiedSignalled
<1>2. CASE frozen # {}
  <2>1. /\ UNCHANGED handle /\ frozen' = frozen \cup {cur}
        /\ node' = [node EXCEPT ![cur] = NodeOf(snap[cur], newDepth[cur], transitioned)]
        /\ pc' = IF work = {} THEN "drain" ELSE "select"
    BY <1>2 DEF StopAcknowledged
  <2>2. /\ node'[cur].who = snap[cur].who
        /\ \A pid \in frozen : node'[pid] = node[pid]
    BY <1>0, <2>1 DEF NodeOf, NodeAs
  <2>3. /\ snap[cur].who \in Proc
        /\ snap[cur].who = handle[cur] \/ status[snap[cur].who] = "dead"
    BY <1>0, <1>2 DEF IdentityInv, TakenPinned, RowsReal
  <2>4. found
    BY <1>2 DEF IdentityInv, StopsFound
  <2>5. FrozenPinned'
    BY <1>0, <1>2, <2>1, <2>2, <2>3 DEF IdentityInv, FrozenPinned, Gathering, Taking
  <2>6. WorkWaits'
    BY <1>0, <1>2, <2>1 DEF IdentityInv, WorkWaits, Gathering, Taking
  <2>7. RootFirstTaken' /\ TakenPinned' /\ StopsFound' /\ RowsMatch'
    BY <2>1, <2>4 DEF RootFirstTaken, TakenPinned, StopsFound, RowsMatch, Taking
  <2> QED
    BY <2>1, <2>5, <2>6, <2>7
       DEF IdentityInv, VerifiedPinned, DeliveryInFrozen, QuietBefore, Taking, Delivering,
           OnlyVerifiedSignalled
<1> QED
  BY <1>1, <1>2

\* Going on with the same member changes nothing the invariant speaks of.
LEMMA TakingGoesOn ==
    ASSUME TypeOK, IdentityInv, Taking, Taking', Ages, OneHolder', RowsReal',
           UNCHANGED <<cur, work, handle, frozen, node, snap, found, signalled>>
    PROVE  IdentityInv'
<1>1. TakenPinned'
  <2>1. frozen # {} => snap[cur].who \in Proc
    BY DEF TypeOK, IdentityInv, TakenPinned, RowsReal
  <2> QED
    BY <2>1 DEF IdentityInv, TakenPinned, Ages
<1>2. RootFirstTaken' /\ WorkWaits' /\ FrozenPinned' /\ StopsFound'
  BY DEF IdentityInv, RootFirstTaken, WorkWaits, FrozenPinned, StopsFound, Gathering, Taking, Ages
<1> QED
  BY <1>1, <1>2
     DEF IdentityInv, RowsMatch, VerifiedPinned, DeliveryInFrozen, QuietBefore, Taking, Delivering,
         OnlyVerifiedSignalled

LEMMA FailedRefuses ==
    ASSUME NEW cause, NEW cleanup, StopFailed(cause, cleanup)
    PROVE  pc' = "thaw"
BY DEF StopFailed, Refuse

LEMMA StopIdentity ==
    TypeInv /\ IdentityInv /\ (ReadState \/ SubmitStop \/ Acknowledge \/ StateReadFails)
        => IdentityInv'
<1> SUFFICES ASSUME TypeInv, IdentityInv,
                    ReadState \/ SubmitStop \/ Acknowledge \/ StateReadFails
             PROVE  IdentityInv'
  OBVIOUS
<1>0. TypeOK /\ OneHolder /\ RowsReal
  BY DEF TypeInv, IdentityInv
<1>1. OneHolder' /\ Ages
  BY <1>0, NextAges DEF Next, Executor
<1>2. Taking /\ UNCHANGED <<cur, work, snap, found, signalled>>
  BY DEF ReadState, SubmitStop, Acknowledge, StateReadFails, StopFrame, scanVars, historyVars,
         signalVars, Taking
<1>3. RowsReal'
  BY <1>0, <1>1, <1>2, RowsStayReal
<1>4. ASSUME pc' = "thaw" PROVE IdentityInv'
  BY <1>1, <1>2, <1>3, <1>4, RefusalIdentity DEF Taking, Delivering
<1>5. ASSUME StopNotFound PROVE IdentityInv'
  BY <1>1, <1>2, <1>3, <1>5, NotFoundIdentity
<1>6. ASSUME Taking', UNCHANGED <<handle, frozen, node>> PROVE IdentityInv'
  BY <1>0, <1>1, <1>2, <1>3, <1>6, TakingGoesOn
<1>7. CASE ReadState
  BY <1>5, <1>6, <1>7 DEF ReadState, Taking
<1>8. CASE SubmitStop
  BY <1>4, <1>5, <1>6, <1>8, FailedRefuses DEF SubmitStop, Taking
<1>9. CASE Acknowledge
  <2>1. UNCHANGED status
    BY <1>9 DEF Acknowledge, kernelVars
  <2>2. CASE StopAcknowledged(Transitioned)
    BY <1>1, <1>2, <1>3, <2>1, <2>2, AcknowledgedIdentity
  <2> QED
    BY <1>4, <1>5, <1>9, <2>2, FailedRefuses DEF Acknowledge
<1>10. CASE StateReadFails
  BY <1>4, <1>10, FailedRefuses DEF StateReadFails
<1> QED
  BY <1>7, <1>8, <1>9, <1>10

\* Reading a snapshot never shows a recorded process under a number that a
\* pidfd pins to somebody else.
LEMMA ScanIdentity ==
    TypeInv /\ IdentityInv
        /\ (ListProcesses \/ ReadStatus \/ ReadStat \/ SnapshotTaken \/ SnapshotFails)
        => IdentityInv'
<1> SUFFICES ASSUME TypeInv, IdentityInv,
                    ListProcesses \/ ReadStatus \/ ReadStat \/ SnapshotTaken \/ SnapshotFails
             PROVE  IdentityInv'
  OBVIOUS
<1>0. TypeOK /\ OneHolder /\ RowsReal
  BY DEF TypeInv, IdentityInv
<1>1. OneHolder' /\ Ages
  BY <1>0, NextAges DEF Next, Executor
<1>2. /\ pc \in {"list", "read"} /\ work = {}
      /\ UNCHANGED <<status, cur, work, handle, node, signalled>>
  BY DEF ListProcesses, ReadStatus, ReadStat, SnapshotTaken, SnapshotFails, ScanFrame, kernelVars,
         stopVars, sweepVars, historyVars, signalVars, IdentityInv, WorkWaits, Gathering, Taking
<1>3. ASSUME pc' = "thaw", RowsReal' PROVE IdentityInv'
  BY <1>1, <1>2, <1>3, RefusalIdentity DEF Delivering
<1>4. ASSUME pc' \in {"read", "root", "drain"}, pc' = "drain" => frozen # {}, UNCHANGED frozen,
             RowsReal', RowsMatch'
      PROVE  IdentityInv'
  <2>1. RootFirstTaken' /\ WorkWaits' /\ FrozenPinned'
    BY <1>2, <1>4 DEF IdentityInv, RootFirstTaken, WorkWaits, FrozenPinned, Gathering, Taking
  <2> QED
    BY <1>1, <1>2, <1>4, <2>1
       DEF IdentityInv, TakenPinned, StopsFound, VerifiedPinned, DeliveryInFrozen, QuietBefore,
           Taking, Delivering, OnlyVerifiedSignalled
<1>5. CASE ListProcesses
  <2>1. CASE pc' = "thaw" /\ UNCHANGED snap
    BY <1>0, <1>1, <1>3, <2>1, RowsStayReal
  <2>2. CASE pc' = "read" /\ snap' = [pid \in Pid |-> NoRow]
    <3>1. UNCHANGED frozen
      BY <1>5 DEF ListProcesses
    <3>2. RowsReal' /\ RowsMatch'
      BY <1>0, <2>2, <3>1 DEF RowsReal, RowsMatch, TypeOK
    <3> QED
      BY <1>4, <2>2, <3>1, <3>2
  <2> QED
    BY <1>5, <2>1, <2>2 DEF ListProcesses, RefuseNow, Refuse
<1>6. CASE ReadStatus
  <2>1. pc' = "read" /\ UNCHANGED <<snap, frozen, found>>
    BY <1>2, <1>6 DEF ReadStatus, ScanFrame, sweepVars
  <2> QED
    BY <1>0, <1>1, <1>2, <1>4, <1>6, <2>1, RowsStayReal DEF IdentityInv, RowsMatch, ReadStatus
<1>7. CASE ReadStat
  <2>1. pc = "read" /\ pc' = "read" /\ UNCHANGED <<frozen, found>>
    BY <1>7 DEF ReadStat, ScanFrame, sweepVars
  <2>2. PICK pid \in listing :
          \/ UNCHANGED snap
          \/ /\ Occupant(pid) # NoProc
             /\ snap' = [snap EXCEPT ![pid] =
                  [who |-> Occupant(pid), parent |-> half.parent,
                   pgrp |-> pgrp[Occupant(pid)], name |-> name[Occupant(pid)],
                   foreign |-> half.foreign]]
    BY <1>7 DEF ReadStat
  <2>3. CASE UNCHANGED snap
    BY <1>0, <1>1, <1>2, <1>4, <2>1, <2>3, RowsStayReal DEF IdentityInv, RowsMatch
  <2>4. CASE ~UNCHANGED snap
    <3> DEFINE p == Occupant(pid)
    <3>1. p \in Proc /\ PidOf[p] = pid /\ status[p] \in Present /\ pid \in Pid
      BY <1>0, <2>2, <2>4, OccupantHolds DEF Has, TypeOK
    <3>2. snap'[pid].who = p /\ \A other \in Pid \ {pid} : snap'[other] = snap[other]
      BY <1>0, <2>2, <2>4, <3>1 DEF TypeOK
    <3> HIDE DEF p
    <3>3. status[p] # "unborn" /\ status[p] # "dead"
      BY <3>1 DEF Present, Live, Active
    <3>4. RowsReal'
      BY <1>0, <1>2, <3>1, <3>2, <3>3 DEF RowsReal
    <3>5. RowsMatch'
      <4> SUFFICES ASSUME ~found, NEW other \in frozen, snap'[other] # NoRow,
                          snap'[other].who = node[other].who
                   PROVE  handle[other] = node[other].who
        BY <1>2, <2>1 DEF RowsMatch
      <4>1. other \in Pid
        BY <1>0 DEF TypeOK
      <4>2. CASE other = pid
        BY <2>1, <3>2, <3>3, <4>2 DEF IdentityInv, FrozenPinned, Gathering
      <4>3. CASE other # pid
        BY <2>1, <3>2, <4>1, <4>3 DEF IdentityInv, RowsMatch
      <4> QED
        BY <4>2, <4>3
    <3> QED
      BY <1>4, <2>1, <3>4, <3>5
  <2> QED
    BY <2>3, <2>4
<1>8. CASE SnapshotTaken
  <2>1. /\ pc = "read" /\ pc' = (IF frozen = {} THEN "root" ELSE "drain")
        /\ UNCHANGED <<snap, frozen, found>>
    BY <1>8 DEF SnapshotTaken, ScanFrame, sweepVars
  <2>2. RowsReal' /\ RowsMatch'
    BY <1>0, <1>1, <1>2, <2>1, RowsStayReal DEF IdentityInv, RowsMatch
  <2> QED
    BY <1>4, <2>1, <2>2
<1>9. CASE SnapshotFails
  BY <1>0, <1>1, <1>3, <1>9, RowsStayReal DEF SnapshotFails, Refuse
<1> QED
  BY <1>5, <1>6, <1>7, <1>8, <1>9

\* The sweep's decisions: a verified row is a pinned process.
LEMMA SweepIdentity ==
    TypeInv /\ IdentityInv /\ (CheckRoot \/ Drain \/ Verify \/ ReadEvidence \/ Authorize)
        => IdentityInv'
<1> SUFFICES ASSUME TypeInv, IdentityInv,
                    CheckRoot \/ Drain \/ Verify \/ ReadEvidence \/ Authorize
             PROVE  IdentityInv'
  OBVIOUS
<1>0. TypeOK /\ PassBound /\ OneHolder /\ RowsReal
  BY DEF TypeInv, IdentityInv
<1>1. OneHolder' /\ Ages
  BY <1>0, NextAges DEF Next, Executor
<1>2. /\ pc \in {"root", "drain", "verify", "evidence", "policy"}
      /\ UNCHANGED <<status, cur, snap, signalled>>
  BY DEF CheckRoot, Drain, Verify, ReadEvidence, Authorize, kernelVars, stopVars, scanVars,
         historyVars, signalVars
<1>3. RowsReal'
  BY <1>0, <1>1, <1>2, RowsStayReal
<1>4. ASSUME pc' = "thaw" PROVE IdentityInv'
  BY <1>1, <1>2, <1>3, <1>4, RefusalIdentity DEF Delivering
<1>5. signalled = {}
  BY <1>2 DEF IdentityInv, QuietBefore, Delivering
<1>6. CASE CheckRoot /\ pc' # "thaw"
  <2> DEFINE observed == NodeAs(RootProc, snap[RootPid], 0, node[RootPid].resume)
  <2>1. /\ pc = "root" /\ pc' = "list" /\ frozen' = {RootPid}
        /\ node' = [node EXCEPT ![RootPid] = observed]
        /\ UNCHANGED <<handle, work, found>>
    BY <1>6 DEF CheckRoot, Refuse, sweepVars
  <2>2. frozen = {} /\ work = {} /\ handle[RootPid] = RootProc
    BY <1>0, <2>1
       DEF IdentityInv, PassBound, RootFirstTaken, WorkWaits, Gathering, Taking
  <2>3. node'[RootPid].who = RootProc
    BY <1>0, <2>1, RootPidType DEF NodeAs, TypeOK
  <2>4. RootProc \in Proc /\ RootProc # NoProc
    BY KernelAssumption, FreezeKillAssumption
  <2>5. FrozenPinned'
    BY <2>1, <2>2, <2>3, <2>4 DEF IdentityInv, FrozenPinned, Gathering, Taking
  <2> QED
    BY <1>1, <1>3, <1>5, <1>2, <2>1, <2>2, <2>5
       DEF IdentityInv, RootFirstTaken, WorkWaits, TakenPinned, StopsFound, RowsMatch,
           VerifiedPinned, DeliveryInFrozen, QuietBefore, Gathering, Taking, Delivering,
           OnlyVerifiedSignalled
<1>7. CASE Drain /\ pc' # "thaw"
  <2>1. pc = "drain" /\ UNCHANGED <<handle, frozen, node>> /\ frozen # {} /\ work = {}
    BY <1>7 DEF Drain, IdentityInv, RootFirstTaken, WorkWaits, Gathering, Taking
  <2>2. FrozenPinned'
    BY <1>2, <1>7, <2>1 DEF IdentityInv, FrozenPinned, Gathering, Taking, Drain
  <2>3. CASE pc' = "select" /\ found' = TRUE /\ work' = UnfrozenMembers \ vanished
    <3>1. \A pid \in work' : pid \in Pid \ frozen /\ snap[pid] # NoRow
      BY <2>3 DEF UnfrozenMembers, UnfrozenChildren, UnfrozenGroupMembers, Shown
    <3>2. WorkWaits'
      BY <1>2, <2>1, <2>3, <3>1
         DEF IdentityInv, FrozenPinned, WorkWaits, Gathering, Taking
    <3> QED
      BY <1>1, <1>2, <1>3, <1>5, <2>1, <2>2, <2>3, <3>2
         DEF IdentityInv, RootFirstTaken, TakenPinned, StopsFound, RowsMatch,
             VerifiedPinned, DeliveryInFrozen, QuietBefore, Taking, Delivering,
             OnlyVerifiedSignalled
  <2>4. CASE /\ pc' = "list" \/ (pc' = "verify" /\ Converged)
             /\ UNCHANGED <<work, found>>
    <3>1. WorkWaits' /\ RowsMatch'
      BY <1>2, <2>1, <2>4 DEF IdentityInv, WorkWaits, RowsMatch
    <3> QED
      BY <1>1, <1>2, <1>3, <1>5, <2>1, <2>2, <2>4, <3>1
         DEF IdentityInv, RootFirstTaken, TakenPinned, StopsFound, Converged,
             VerifiedPinned, DeliveryInFrozen, QuietBefore, Taking, Delivering,
             OnlyVerifiedSignalled
  <2> QED
    BY <1>7, <2>3, <2>4 DEF Drain, RefuseNow, Refuse
<1>8. ASSUME pc' \in {"evidence", "policy", "deliver"}, VerifiedPinned', DeliveryInFrozen'
      PROVE  IdentityInv'
  BY <1>1, <1>2, <1>3, <1>5, <1>8
     DEF IdentityInv, RootFirstTaken, WorkWaits, TakenPinned, FrozenPinned, StopsFound, RowsMatch,
         QuietBefore, Gathering, Taking, Delivering, OnlyVerifiedSignalled
<1>9. CASE Verify /\ pc' # "thaw"
  <2>1. /\ pc = "verify" /\ pc' = "evidence" /\ UNCHANGED <<frozen, found>>
        /\ \A pid \in frozen : IdentityHolds(pid)
        /\ handle' = [pid \in Pid |-> IF pid \in frozen THEN Pinned(pid) ELSE handle[pid]]
        /\ node' = [pid \in Pid |->
             IF pid \in frozen
             THEN Refreshed(node[pid], snap[pid].name, snap[pid].foreign)
             ELSE node[pid]]
    BY <1>9 DEF Verify, RefuseNow, Refuse, sweepVars
  <2>2. ~found
    BY <2>1 DEF IdentityInv, StopsFound
  <2>3. ASSUME NEW pid \in frozen
        PROVE  handle'[pid] = node'[pid].who
    <3>1. pid \in Pid
      BY <1>0 DEF TypeOK
    <3>2. handle[pid] = node[pid].who /\ handle[pid] # NoProc
      BY <2>1, <2>2 DEF IdentityInv, RowsMatch, IdentityHolds, Shown, FrozenPinned, Gathering
    <3>3. handle'[pid] = handle[pid]
      BY <2>1, <3>1, <3>2 DEF Pinned
    <3>4. node'[pid].who = node[pid].who
      <4>1. node[pid] \in Node /\ snap[pid].name \in Name /\ snap[pid].foreign \in BOOLEAN
        BY <1>0, <3>1 DEF TypeOK, Row
      <4> QED
        BY <2>1, <3>1, <4>1, RefreshedType
    <3> QED
      BY <3>2, <3>3, <3>4
  <2> QED
    BY <1>8, <2>1, <2>3 DEF VerifiedPinned, DeliveryInFrozen
<1>10. CASE ReadEvidence /\ pc' # "thaw"
  <2>1. PICK pid \in todo :
          /\ Has(pid, node[pid].who)
          /\ node' = [node EXCEPT ![pid] = Refreshed(@, name[@.who], @.foreign)]
          /\ pc = "evidence" /\ pc' \in {"evidence", "policy"}
          /\ UNCHANGED <<handle, frozen>>
    BY <1>10 DEF ReadEvidence, RefuseNow, Refuse
  <2>2. ASSUME NEW other \in frozen
        PROVE  node'[other].who = node[other].who
    <3>1. other \in Pid /\ pid \in Pid /\ node \in [Pid -> Node]
      BY <1>0 DEF TypeOK
    <3>2. CASE other # pid
      BY <2>1, <3>1, <3>2
    <3>3. CASE other = pid
      <4>1. /\ node[pid] \in Node /\ name[node[pid].who] \in Name
            /\ node[pid].foreign \in BOOLEAN
        BY <1>0, <2>1, <3>1 DEF Has, TypeOK, KernelTypeOK, Node
      <4> QED
        BY <2>1, <3>1, <3>3, <4>1, RefreshedType
    <3> QED
      BY <3>2, <3>3
  <2> QED
    BY <1>8, <2>1, <2>2 DEF IdentityInv, VerifiedPinned, DeliveryInFrozen
<1>11. CASE Authorize /\ pc' # "thaw"
  <2>1. /\ pc = "policy" /\ pc' = "deliver" /\ todo' = frozen
        /\ UNCHANGED <<handle, frozen, node>>
    BY <1>11 DEF Authorize, RefuseNow, Refuse
  <2> QED
    BY <1>8, <2>1 DEF IdentityInv, VerifiedPinned, DeliveryInFrozen
<1> QED
  BY <1>4, <1>6, <1>7, <1>9, <1>10, <1>11

\* Delivery goes to the pinned process of a recorded number.
LEMMA EndIdentity ==
    TypeInv /\ IdentityInv /\ (Deliver \/ ContinueMember \/ ContinueGroup \/ Thaw \/ Finish)
        => IdentityInv'
<1> SUFFICES ASSUME TypeInv, IdentityInv,
                    Deliver \/ ContinueMember \/ ContinueGroup \/ Thaw \/ Finish
             PROVE  IdentityInv'
  OBVIOUS
<1>0. TypeOK /\ OneHolder /\ RowsReal
  BY DEF TypeInv, IdentityInv
<1>1. OneHolder' /\ Ages
  BY <1>0, NextAges DEF Next, Executor
<1>2. /\ pc \in {"deliver", "cont", "resume", "thaw"}
      /\ UNCHANGED <<snap, handle, frozen, node>>
  BY DEF Deliver, ContinueMember, ContinueGroup, Thaw, Finish, ContinueFrame, scanVars
<1>3. RowsReal'
  BY <1>0, <1>1, <1>2, RowsStayReal
<1>4. ASSUME pc' \in {"deliver", "cont", "resume", "thaw", "done"},
             Delivering' => Delivering, pc' = "thaw" => pc = "thaw",
             DeliveryInFrozen', OnlyVerifiedSignalled',
             ~Delivering => UNCHANGED signalled
      PROVE  IdentityInv'
  BY <1>1, <1>2, <1>3, <1>4
     DEF IdentityInv, RootFirstTaken, WorkWaits, TakenPinned, FrozenPinned, StopsFound, RowsMatch,
         VerifiedPinned, QuietBefore, Gathering, Taking, Delivering
<1>5. CASE Deliver
  <2>1. PICK pid \in todo :
          /\ todo' = todo \ {pid}
          /\ signalled' \in {signalled, signalled \cup {handle[pid]}}
    BY <1>5 DEF Deliver, DeliveryTarget
  <2>2. /\ pc = "deliver" /\ pc' \in {"cont", "resume", "deliver"}
        /\ UNCHANGED <<handle, frozen, node>>
    BY <1>5 DEF Deliver
  <2>3. pid \in frozen /\ handle[pid] = node[pid].who
    BY <2>1, <2>2 DEF IdentityInv, DeliveryInFrozen, VerifiedPinned, Delivering
  <2>4. DeliveryInFrozen' /\ OnlyVerifiedSignalled'
    BY <2>1, <2>2, <2>3 DEF IdentityInv, DeliveryInFrozen, OnlyVerifiedSignalled
  <2> QED
    BY <1>4, <2>2, <2>4 DEF Delivering
<1>6. CASE ContinueMember \/ ContinueGroup \/ Thaw \/ Finish
  <2>1. /\ UNCHANGED <<frozen, node, signalled>>
        /\ \/ pc = "cont" /\ pc' = "deliver" /\ UNCHANGED todo
           \/ pc = "resume" /\ pc' \in {"resume", "done"}
           \/ pc = "thaw" /\ pc' \in {"thaw", "done"}
           \/ pc = "deliver" /\ pc' = "done"
    <3>1. CASE ContinueMember
      BY <3>1 DEF ContinueMember, ContinueFrame
    <3>2. CASE ContinueGroup
      BY <3>2 DEF ContinueGroup, ContinueFrame
    <3>3. CASE Thaw
      BY <3>3 DEF Thaw, ContinueFrame
    <3>4. CASE Finish
      BY <3>4 DEF Finish, historyVars, signalVars
    <3> QED
      BY <1>6, <3>1, <3>2, <3>3, <3>4
  <2>2. DeliveryInFrozen' /\ OnlyVerifiedSignalled'
    BY <2>1 DEF IdentityInv, DeliveryInFrozen, OnlyVerifiedSignalled
  <2> QED
    BY <1>4, <2>1, <2>2 DEF Delivering
<1> QED
  BY <1>5, <1>6

\* What happens in the process table cannot undo a pin.
LEMMA OutsideIdentity ==
    TypeInv /\ IdentityInv /\ (Expire \/ Interrupt \/ Environment \/ UNCHANGED vars)
        => IdentityInv'
<1> SUFFICES ASSUME TypeInv, IdentityInv, Expire \/ Interrupt \/ Environment \/ UNCHANGED vars
             PROVE  IdentityInv'
  OBVIOUS
<1>0. TypeOK /\ OneHolder /\ RowsReal
  BY DEF TypeInv, IdentityInv
<1>1. OneHolder' /\ Ages
  BY <1>0, NextAges DEF Next, Terminated
<1>2. UNCHANGED <<pc, handle, frozen, node, work, found, cur, snap, todo, signalled>>
  BY DEF Expire, Interrupt, Others, Environment, vars, executorVars, controlVars, stopVars,
         scanVars, sweepVars, historyVars, signalVars
<1>3. RowsReal'
  BY <1>0, <1>1, <1>2, RowsStayReal
<1>4. TakenPinned'
  <2>1. Taking /\ frozen # {} => snap[cur].who \in Proc
    BY <1>0 DEF IdentityInv, TypeOK, TakenPinned, RowsReal
  <2> QED
    BY <1>1, <1>2, <2>1 DEF IdentityInv, TakenPinned, Taking, Ages
<1>5. FrozenPinned'
  BY <1>1, <1>2 DEF IdentityInv, FrozenPinned, Gathering, Taking, Ages
<1> QED
  BY <1>1, <1>2, <1>3, <1>4, <1>5
     DEF IdentityInv, RootFirstTaken, WorkWaits, StopsFound, RowsMatch, VerifiedPinned,
         DeliveryInFrozen, QuietBefore, Gathering, Taking, Delivering, OnlyVerifiedSignalled

LEMMA InitIdentity == Init => IdentityInv
<1> SUFFICES ASSUME Init PROVE IdentityInv
  OBVIOUS
<1>1. OneHolder
  BY StartAssumption DEF Init, KernelInit, OneHolder
<1>2. handle[RootPid] = RootProc /\ \A pid \in Pid \ {RootPid} : handle[pid] = NoProc
  BY RootPidType DEF Init
<1> QED
  BY <1>1, <1>2
     DEF Init, IdentityInv, RowsReal, RootFirstTaken, WorkWaits, TakenPinned, FrozenPinned,
         StopsFound, RowsMatch, VerifiedPinned, DeliveryInFrozen, QuietBefore, Gathering, Taking,
         Delivering, OnlyVerifiedSignalled

LEMMA NextIdentity == TypeInv /\ IdentityInv /\ [Next]_vars => IdentityInv'
BY SelectIdentity, StopIdentity, ScanIdentity, SweepIdentity, EndIdentity, OutsideIdentity
   DEF Next, Executor, Terminated

\* The safety contract of execute_freeze_kill (execute.rs 348-357): whatever the
\* process table does meanwhile, however numbers are recycled and rows are torn,
\* every process that gets the terminating signal is the incarnation recorded and
\* verified for its number, and never one that took the number over.
THEOREM OnlyVerifiedIsSignalled == Spec => []OnlyVerifiedSignalled
<1>1. Init => TypeInv /\ IdentityInv
  BY InitType, InitIdentity
<1>2. TypeInv /\ IdentityInv /\ [Next]_vars => (TypeInv /\ IdentityInv)'
  BY NextType, NextIdentity
<1>3. TypeInv /\ IdentityInv => OnlyVerifiedSignalled
  BY DEF IdentityInv
<1> QED
  BY <1>1, <1>2, <1>3, PTL DEF Spec

-----------------------------------------------------------------------------
\* kick itself

\* A pidfd pins a process by the number it was opened under, and a number that
\* reaches the stop has passed unsafe_pid_reason.
PinsByNumber == \A pid \in Pid : handle[pid] # NoProc => PidOf[handle[pid]] = pid
TakesSafe == Taking => cur \notin Unsafe
SafetyInv == PinsByNumber /\ TakesSafe /\ SelfNeverStopped

LEMMA PinnedNumber ==
    ASSUME PinsByNumber, NEW pid \in Pid, Pinned(pid) # NoProc
    PROVE  PidOf[Pinned(pid)] = pid
BY OccupantHolds DEF Pinned, PinsByNumber, Has

LEMMA NextSafety == TypeInv /\ SafetyInv /\ [Next]_vars => SafetyInv'
<1> SUFFICES ASSUME TypeInv, SafetyInv, [Next]_vars PROVE SafetyInv'
  OBVIOUS
<1>0. TypeOK /\ PinsByNumber
  BY DEF TypeInv, SafetyInv
<1>1. ASSUME UNCHANGED <<handle, kickStopped>>, Taking' => Taking /\ UNCHANGED cur
      PROVE  SafetyInv'
  BY <1>1 DEF SafetyInv, PinsByNumber, TakesSafe, SelfNeverStopped
<1>2. ASSUME handle' \in {handle, [handle EXCEPT ![cur] = NoProc]}
      PROVE  PinsByNumber'
  BY <1>0, <1>2 DEF PinsByNumber, TypeOK
<1>3. CASE SelectMember
  <2>1. /\ UNCHANGED kickStopped
        /\ \E pid \in Pid :
             \/ UNCHANGED handle /\ ~Taking'
             \/ /\ Pinned(pid) # NoProc /\ pid \notin Unsafe
                /\ handle' = [handle EXCEPT ![pid] = Pinned(pid)] /\ cur' = pid
    BY <1>0, <1>3
       DEF SelectMember, RefuseNow, Refuse, UnsafePid, Taking, TypeOK, historyVars, signalVars
  <2> QED
    BY <1>0, <2>1, PinnedNumber DEF SafetyInv, PinsByNumber, TakesSafe, SelfNeverStopped, TypeOK
<1>4. CASE SubmitStop
  <2>1. Taking /\ cur \in Pid \ Unsafe /\ UNCHANGED cur
    BY <1>0, <1>4 DEF SafetyInv, TakesSafe, SubmitStop, StopFrame, Taking, TypeOK
  <2>2. handle' \in {handle, [handle EXCEPT ![cur] = NoProc]}
    BY <1>4 DEF SubmitStop, StopFailed, StopNotFound
  <2>3. \/ UNCHANGED kickStopped
        \/ handle[cur] \in Proc /\ kickStopped' \subseteq kickStopped \cup {handle[cur]}
    BY <1>4 DEF SubmitStop, Gone
  <2>4. handle[cur] \in Proc => PidOf[handle[cur]] = cur
    BY <2>1, KernelAssumption DEF SafetyInv, PinsByNumber
  <2> QED
    BY <1>2, <2>1, <2>2, <2>3, <2>4 DEF SafetyInv, TakesSafe, SelfNeverStopped
<1>5. CASE ReadState \/ Acknowledge \/ StateReadFails
  <2>1. /\ Taking /\ UNCHANGED <<cur, kickStopped>>
        /\ handle' \in {handle, [handle EXCEPT ![cur] = NoProc]}
    <3>1. CASE ReadState
      BY <3>1 DEF ReadState, StopNotFound, Taking, historyVars, signalVars
    <3>2. CASE Acknowledge
      BY <3>2 DEF Acknowledge, StopNotFound, StopFailed, StopAcknowledged, StopFrame, Taking
    <3>3. CASE StateReadFails
      BY <3>3 DEF StateReadFails, StopFailed, StopFrame, Taking
    <3> QED
      BY <1>5, <3>1, <3>2, <3>3
  <2> QED
    BY <1>2, <2>1 DEF SafetyInv, TakesSafe, SelfNeverStopped
<1>6. CASE Verify
  <2>1. /\ UNCHANGED kickStopped /\ ~Taking'
        /\ \/ UNCHANGED handle
           \/ handle' = [pid \in Pid |-> IF pid \in frozen THEN Pinned(pid) ELSE handle[pid]]
    BY <1>6 DEF Verify, RefuseNow, Refuse, Taking, historyVars, signalVars
  <2> QED
    BY <1>0, <2>1, PinnedNumber DEF SafetyInv, PinsByNumber, TakesSafe, SelfNeverStopped
<1>7. CASE \/ ListProcesses \/ ReadStatus \/ ReadStat \/ SnapshotTaken \/ SnapshotFails
           \/ CheckRoot \/ Drain \/ ReadEvidence \/ Authorize
           \/ Deliver \/ ContinueMember \/ ContinueGroup \/ Thaw \/ Finish
  <2>1. UNCHANGED <<handle, kickStopped>> /\ ~Taking'
    <3>1. CASE \/ ListProcesses \/ ReadStatus \/ ReadStat \/ SnapshotTaken \/ SnapshotFails
      BY <3>1 DEF ListProcesses, ReadStatus, ReadStat, SnapshotTaken, SnapshotFails, ScanFrame,
                  RefuseNow, Refuse, Taking, historyVars, signalVars
    <3>2. CASE CheckRoot \/ Drain \/ ReadEvidence \/ Authorize
      BY <3>2 DEF CheckRoot, Drain, ReadEvidence, Authorize, RefuseNow, Refuse, Taking,
                  historyVars, signalVars
    <3>3. CASE Deliver \/ ContinueMember \/ ContinueGroup \/ Thaw \/ Finish
      BY <3>3 DEF Deliver, ContinueMember, ContinueGroup, Thaw, Finish, ContinueFrame, Taking,
                  historyVars, signalVars
    <3> QED
      BY <1>7, <3>1, <3>2, <3>3
  <2> QED
    BY <1>1, <2>1
<1>8. CASE Expire \/ Interrupt \/ Environment \/ UNCHANGED vars
  BY <1>1, <1>8 DEF Expire, Interrupt, Others, Environment, vars, executorVars, controlVars,
                    stopVars, historyVars, signalVars, Taking
<1> QED
  BY <1>3, <1>4, <1>5, <1>6, <1>7, <1>8 DEF Next, Executor, Terminated

\* kick never stops itself: unsafe_pid_reason is asked about every member before
\* its pidfd is opened (execute.rs 629-634), and a pidfd never changes process.
THEOREM KickIsNeverStopped == Spec => []SelfNeverStopped
<1>1. Init => TypeInv /\ SafetyInv
  <2>1. Init => PinsByNumber
    BY RootPidType DEF Init, PinsByNumber, RootPid
  <2> QED
    BY <2>1, InitType DEF Init, SafetyInv, TakesSafe, Taking, SelfNeverStopped
<1>2. TypeInv /\ SafetyInv /\ [Next]_vars => (TypeInv /\ SafetyInv)'
  BY NextType, NextSafety
<1>3. SafetyInv => SelfNeverStopped
  BY DEF SafetyInv
<1> QED
  BY <1>1, <1>2, <1>3, PTL DEF Spec

-----------------------------------------------------------------------------
\* The contract

Preparing == Gathering \/ pc \in {"evidence", "policy"}
Condemned == IF Phase = "delivering" THEN {node[pid].who : pid \in todo} ELSE {}

\* Nothing is resumed before the kill is decided, what is resumed during delivery
\* has had its turn, and only delivery completes a kill.
PromiseInv ==
    /\ Preparing => kickContinued = {}
    /\ pc # "done" => outcome # "Completed"
    /\ pc = "resume" => InGroup /\ todo = {}
    /\ pc = "cont" => cur \in frozen \ todo

\* From the verification on, a recorded member is a process.
MembersKnown == pc \in {"evidence", "policy"} \/ Delivering =>
    \A pid \in frozen : node[pid].who \in Proc

ContractInv == TypeInv /\ IdentityInv /\ SafetyInv /\ PromiseInv /\ MembersKnown

LEMMA PhaseOfStep ==
    /\ Preparing => Phase = "gathering"
    /\ Delivering => Phase = "delivering"
    /\ pc = "thaw" => Phase = "refusing"
    /\ pc = "done" => Phase = IF outcome = "Completed" THEN "killed" ELSE "refused"
BY DEF Preparing, Gathering, Taking, Delivering, Phase

LEMMA PhaseOfNext ==
    /\ Preparing' => Phase' = "gathering"
    /\ Delivering' => Phase' = "delivering"
    /\ pc' = "thaw" => Phase' = "refusing"
    /\ pc' = "done" => Phase' = IF outcome' = "Completed" THEN "killed" ELSE "refused"
BY DEF Preparing, Gathering, Taking, Delivering, Phase

\* Two recorded members are two processes.
LEMMA MembersDiffer ==
    ASSUME ContractInv, Delivering, NEW pid \in frozen, NEW other \in frozen, pid # other
    PROVE  /\ node[pid].who = handle[pid] /\ node[other].who = handle[other]
           /\ handle[pid] # NoProc => node[other].who # node[pid].who
<1>1. pid \in Pid /\ other \in Pid
  BY DEF ContractInv, TypeInv, TypeOK
<1>2. node[pid].who = handle[pid] /\ node[other].who = handle[other]
  BY DEF ContractInv, IdentityInv, VerifiedPinned
<1> QED
  BY <1>1, <1>2 DEF ContractInv, SafetyInv, PinsByNumber

\* A refusal names its cause, and none of the causes is success.
Causes == Outcomes \ {"none", "Completed"}
LEMMA RefusalPromise ==
    ASSUME NEW cause \in Causes, NEW stopped, NEW nodes, Refuse(cause, stopped, nodes)
    PROVE  PromiseInv'
BY DEF Refuse, PromiseInv, Preparing, Gathering, Taking, Causes, Outcomes

LEMMA StopPromise ==
    ContractInv /\ (SelectMember \/ ReadState \/ SubmitStop \/ Acknowledge \/ StateReadFails)
        => PromiseInv'
<1> SUFFICES ASSUME ContractInv,
                    SelectMember \/ ReadState \/ SubmitStop \/ Acknowledge \/ StateReadFails
             PROVE  PromiseInv'
  OBVIOUS
<1>1. Preparing /\ kickContinued = {} /\ kickContinued' = {} /\ outcome # "Completed"
  BY DEF SelectMember, ReadState, SubmitStop, Acknowledge, StateReadFails, StopFrame, historyVars,
         signalVars, Preparing, Gathering, Taking, ContractInv, PromiseInv
<1>2. ASSUME UNCHANGED outcome, pc' \in {"select", "state", "stop", "ack", "drain", "list"}
      PROVE  PromiseInv'
  BY <1>1, <1>2 DEF PromiseInv
<1>3. ASSUME NEW cause \in Causes, NEW cleanup, StopFailed(cause, cleanup)
      PROVE  PromiseInv'
  BY <1>3, RefusalPromise DEF StopFailed
<1>4. ASSUME StopNotFound PROVE PromiseInv'
  BY <1>2, <1>4, RefusalPromise
     DEF StopNotFound, RefuseNow, reportVars, Causes, Outcomes
<1>5. CASE SelectMember
  BY <1>2, <1>5, RefusalPromise DEF SelectMember, RefuseNow, reportVars, Causes, Outcomes
<1>6. CASE ReadState
  BY <1>2, <1>4, <1>6 DEF ReadState, reportVars
<1>7. CASE SubmitStop
  BY <1>2, <1>3, <1>4, <1>7 DEF SubmitStop, reportVars, Causes, Outcomes
<1>8. CASE Acknowledge
  <2>1. ASSUME StopAcknowledged(Transitioned) PROVE PromiseInv'
    BY <1>2, <2>1 DEF StopAcknowledged, reportVars
  <2> QED
    BY <1>3, <1>4, <1>8, <2>1 DEF Acknowledge, Causes, Outcomes
<1>9. CASE StateReadFails
  BY <1>3, <1>9 DEF StateReadFails, Causes, Outcomes
<1> QED
  BY <1>5, <1>6, <1>7, <1>8, <1>9

LEMMA SweepPromise ==
    ContractInv
        /\ (\/ ListProcesses \/ ReadStatus \/ ReadStat \/ SnapshotTaken \/ SnapshotFails
            \/ CheckRoot \/ Drain \/ Verify \/ ReadEvidence \/ Authorize)
        => PromiseInv'
<1> SUFFICES ASSUME ContractInv,
                    \/ ListProcesses \/ ReadStatus \/ ReadStat \/ SnapshotTaken \/ SnapshotFails
                    \/ CheckRoot \/ Drain \/ Verify \/ ReadEvidence \/ Authorize
             PROVE  PromiseInv'
  OBVIOUS
<1>1. Preparing /\ kickContinued = {} /\ kickContinued' = {} /\ outcome # "Completed"
  <2>1. Preparing /\ UNCHANGED kickContinued
    BY DEF ListProcesses, ReadStatus, ReadStat, SnapshotTaken, SnapshotFails, CheckRoot, Drain,
           Verify, ReadEvidence, Authorize, ScanFrame, historyVars, signalVars, Preparing,
           Gathering, Taking
  <2> QED
    BY <2>1 DEF ContractInv, PromiseInv, Preparing, Gathering, Taking
<1>2. ASSUME UNCHANGED outcome, pc' \notin {"done", "resume", "cont"}
      PROVE  PromiseInv'
  BY <1>1, <1>2 DEF PromiseInv
<1>3. CASE ListProcesses
  BY <1>2, <1>3, RefusalPromise DEF ListProcesses, RefuseNow, reportVars, Causes, Outcomes
<1>4. CASE ReadStatus \/ ReadStat \/ SnapshotTaken
  BY <1>2, <1>4 DEF ReadStatus, ReadStat, SnapshotTaken, reportVars
<1>5. CASE SnapshotFails
  BY <1>5, RefusalPromise DEF SnapshotFails, Causes, Outcomes
<1>6. CASE CheckRoot
  BY <1>2, <1>6, RefusalPromise DEF CheckRoot, reportVars, Causes, Outcomes
<1>7. CASE Drain
  BY <1>2, <1>7, RefusalPromise DEF Drain, RefuseNow, reportVars, Causes, Outcomes
<1>8. CASE Verify \/ ReadEvidence
  BY <1>2, <1>8, RefusalPromise DEF Verify, ReadEvidence, RefuseNow, reportVars, Causes, Outcomes
<1>9. CASE Authorize
  <2>1. Verdict # "none" => Verdict \in Causes
    BY DEF Verdict, Causes, Outcomes
  <2> QED
    BY <1>2, <1>9, <2>1, RefusalPromise DEF Authorize, RefuseNow, reportVars
<1> QED
  BY <1>3, <1>4, <1>5, <1>6, <1>7, <1>8, <1>9

LEMMA EndPromise ==
    ContractInv /\ (Deliver \/ ContinueMember \/ ContinueGroup \/ Thaw \/ Finish
                      \/ Expire \/ Interrupt \/ Environment \/ UNCHANGED vars)
        => PromiseInv'
<1> SUFFICES ASSUME ContractInv,
                    Deliver \/ ContinueMember \/ ContinueGroup \/ Thaw \/ Finish
                      \/ Expire \/ Interrupt \/ Environment \/ UNCHANGED vars
             PROVE  PromiseInv'
  OBVIOUS
<1>1. CASE Deliver
  <2>1. PICK pid \in todo :
          /\ todo' = todo \ {pid} /\ cur' = pid
          /\ pc' = "cont" \/ pc' = "deliver" \/ (pc' = "resume" /\ InGroup /\ todo' = {})
    BY <1>1 DEF Deliver
  <2>2. pc = "deliver" /\ pid \in frozen /\ UNCHANGED <<request, frozen, outcome>>
    BY <1>1, <2>1 DEF Deliver, ContractInv, IdentityInv, DeliveryInFrozen
  <2> QED
    BY <2>1, <2>2 DEF ContractInv, PromiseInv, Preparing, Gathering, Taking, InGroup
<1>2. CASE ContinueMember \/ ContinueGroup \/ Thaw
  BY <1>2 DEF ContinueMember, ContinueGroup, Thaw, ContinueFrame, stopVars, ContractInv, PromiseInv,
              Preparing, Gathering, Taking, InGroup
<1>3. CASE Finish
  BY <1>3 DEF Finish, PromiseInv, Preparing, Gathering, Taking
<1>4. CASE Expire \/ Interrupt \/ Environment \/ UNCHANGED vars
  BY <1>4 DEF Expire, Interrupt, Others, Environment, vars, executorVars, controlVars, stopVars,
              historyVars, signalVars, reportVars, ContractInv, PromiseInv, Preparing, Gathering,
              Taking, InGroup
<1> QED
  BY <1>1, <1>2, <1>3, <1>4

LEMMA NextKnown == ContractInv /\ [Next]_vars => MembersKnown'
<1> SUFFICES ASSUME ContractInv, [Next]_vars, pc' \in {"evidence", "policy"} \/ Delivering',
                    NEW pid \in frozen'
             PROVE  node'[pid].who \in Proc
  BY DEF MembersKnown
<1> USE DEF Delivering
<1>0. TypeOK
  BY DEF ContractInv, TypeInv
<1>1. CASE UNCHANGED <<frozen, node>> /\ (pc \in {"evidence", "policy"} \/ Delivering)
  BY <1>1 DEF ContractInv, MembersKnown
<1>2. CASE Verify
  <2>1. /\ pc = "verify" /\ pid \in frozen /\ pid \in Pid /\ IdentityHolds(pid)
        /\ node'[pid] = Refreshed(node[pid], snap[pid].name, snap[pid].foreign)
    BY <1>0, <1>2 DEF Verify, RefuseNow, Refuse, TypeOK
  <2>2. node[pid].who \in Proc
    BY <2>1 DEF ContractInv, IdentityInv, FrozenPinned, Gathering
  <2>3. node[pid] \in Node /\ snap[pid].name \in Name /\ snap[pid].foreign \in BOOLEAN
    BY <1>0, <2>1 DEF TypeOK, Row
  <2> QED
    BY <2>1, <2>2, <2>3, RefreshedType
<1>3. CASE ReadEvidence
  <2>1. PICK m \in todo :
          /\ Has(m, node[m].who) /\ pc = "evidence" /\ pid \in frozen
          /\ node' = [node EXCEPT ![m] = Refreshed(@, name[@.who], @.foreign)]
    BY <1>3 DEF ReadEvidence, RefuseNow, Refuse
  <2>2. m \in Pid /\ pid \in Pid /\ node \in [Pid -> Node] /\ node[pid].who \in Proc
    BY <1>0, <2>1 DEF TypeOK, ContractInv, MembersKnown
  <2>3. node[m] \in Node /\ name[node[m].who] \in Name /\ node[m].foreign \in BOOLEAN
    BY <1>0, <2>1, <2>2 DEF Has, TypeOK, KernelTypeOK, Node
  <2> QED
    BY <2>1, <2>2, <2>3, RefreshedType
<1>4. CASE \/ Authorize \/ Deliver \/ ContinueMember \/ ContinueGroup \/ Thaw \/ Finish
           \/ Expire \/ Interrupt \/ Environment \/ UNCHANGED vars
  BY <1>1, <1>4 DEF Authorize, Deliver, ContinueMember, ContinueGroup, Thaw, Finish, ContinueFrame,
                    Expire, Interrupt, Others, Environment, vars, executorVars, controlVars
<1>5. CASE \/ SelectMember \/ ReadState \/ SubmitStop \/ Acknowledge \/ StateReadFails
           \/ ListProcesses \/ ReadStatus \/ ReadStat \/ SnapshotTaken \/ SnapshotFails
           \/ CheckRoot \/ Drain
  BY <1>5 DEF SelectMember, ReadState, SubmitStop, Acknowledge, StateReadFails, StopNotFound,
              StopFailed, StopAcknowledged, ListProcesses, ReadStatus, ReadStat, SnapshotTaken,
              SnapshotFails, CheckRoot, Drain, RefuseNow, Refuse
<1> QED
  BY <1>2, <1>3, <1>4, <1>5 DEF Next, Executor, Terminated

LEMMA NextContract == ContractInv /\ [Next]_vars => ContractInv'
BY NextType, NextIdentity, NextSafety, StopPromise, SweepPromise, EndPromise, NextKnown
   DEF ContractInv, Next, Executor, Terminated

LEMMA InitContract == Init => ContractInv
<1>1. Init => SafetyInv
  <2>1. Init => PinsByNumber
    BY RootPidType DEF Init, PinsByNumber, RootPid
  <2> QED
    BY <2>1 DEF Init, SafetyInv, TakesSafe, Taking, SelfNeverStopped
<1>2. Init => PromiseInv
  BY DEF Init, PromiseInv
<1>3. Init => MembersKnown
  BY DEF Init, MembersKnown, Delivering
<1> QED
  BY <1>1, <1>2, <1>3, InitType, InitIdentity DEF ContractInv

-----------------------------------------------------------------------------
\* The steps of the contract

PromiseStep == [Promise!Next]_(Promise!vars)
StillHeld == kickStopped \ kickContinued

LEMMA StutterPromise ==
    ASSUME UNCHANGED <<Phase, StillHeld, Condemned, signalled>>
    PROVE  PromiseStep
BY DEF PromiseStep, Promise!vars, StillHeld, Condemned

\* A stop that takes a running process holds it.
LEMMA HoldPromise ==
    ASSUME NEW p \in Proc, Phase = "gathering", UNCHANGED <<Phase, Condemned, signalled>>,
           StillHeld' = StillHeld \cup {p}
    PROVE  PromiseStep
BY DEF PromiseStep, Promise!vars, Promise!Next, Promise!Hold, StillHeld, Condemned

\* A refusal before delivery.
LEMMA RefusePromise ==
    ASSUME Preparing, pc' = "thaw", UNCHANGED <<StillHeld, signalled>>
    PROVE  PromiseStep
<1>1. Phase = "gathering" /\ Phase' = "refusing"
  BY PhaseOfStep, PhaseOfNext
<1> QED
  BY <1>1 DEF PromiseStep, Promise!Next, Promise!Refuse, StillHeld, Condemned

\* Whatever is done before the kill is decided, but for a stop that takes effect.
LEMMA PreparesPromise ==
    ASSUME Preparing, Preparing' \/ pc' = "thaw", UNCHANGED <<StillHeld, signalled>>
    PROVE  PromiseStep
<1>1. CASE pc' = "thaw"
  BY <1>1, RefusePromise
<1>2. CASE Preparing'
  <2>1. Phase = "gathering" /\ Phase' = "gathering"
    BY <1>2, PhaseOfStep, PhaseOfNext
  <2>2. Condemned = {} /\ Condemned' = {}
    BY <2>1 DEF Condemned
  <2> QED
    BY <2>1, <2>2, StutterPromise
<1> QED
  BY <1>1, <1>2

\* SIGCONT to a process that is not condemned, or to nobody.
LEMMA ContinuePromise ==
    ASSUME NEW pid, Continue(pid), UNCHANGED <<Phase, Condemned, signalled, kickStopped>>,
           Phase \in {"delivering", "refusing"}, Pinned(pid) \notin Condemned
    PROVE  PromiseStep
<1>1. CASE UNCHANGED kickContinued
  BY <1>1, StutterPromise DEF StillHeld
<1>2. CASE ~UNCHANGED kickContinued
  <2> DEFINE p == Pinned(pid)
  <2>1. p \in Proc /\ kickContinued' = kickContinued \cup {p}
    BY <1>2 DEF Continue, Gone
  <2>2. StillHeld' = StillHeld \ {p}
    BY <2>1 DEF StillHeld
  <2>3. CASE p \notin StillHeld
    BY <2>2, <2>3, StutterPromise
  <2>4. CASE p \in StillHeld
    <3>1. Promise!Release(p)
      BY <2>2, <2>4 DEF Promise!Release, StillHeld, Condemned
    <3> QED
      BY <2>1, <3>1 DEF PromiseStep, Promise!Next
  <2> QED
    BY <2>3, <2>4
<1> QED
  BY <1>1, <1>2

\* Until it delivers, the executor gathers what it stops, or refuses.
LEMMA PreparationImplements ==
    ContractInv
        /\ (\/ SelectMember \/ ReadState \/ SubmitStop \/ Acknowledge \/ StateReadFails
            \/ ListProcesses \/ ReadStatus \/ ReadStat \/ SnapshotTaken \/ SnapshotFails
            \/ CheckRoot \/ Drain \/ Verify \/ ReadEvidence)
        => PromiseStep
<1> SUFFICES ASSUME ContractInv,
                    \/ SelectMember \/ ReadState \/ SubmitStop \/ Acknowledge \/ StateReadFails
                    \/ ListProcesses \/ ReadStatus \/ ReadStat \/ SnapshotTaken \/ SnapshotFails
                    \/ CheckRoot \/ Drain \/ Verify \/ ReadEvidence
             PROVE  PromiseStep
  OBVIOUS
<1> USE DEF Preparing, Gathering, Taking
<1>1. CASE SelectMember
  <2>1. Preparing /\ UNCHANGED <<StillHeld, signalled>>
    BY <1>1 DEF SelectMember, historyVars, signalVars, StillHeld
  <2>2. Preparing' \/ pc' = "thaw"
    BY <1>1 DEF SelectMember, RefuseNow, Refuse
  <2> QED
    BY <2>1, <2>2, PreparesPromise
<1>2. CASE ReadState \/ Acknowledge \/ StateReadFails
  <2>1. Preparing /\ UNCHANGED <<StillHeld, signalled>>
    BY <1>2 DEF ReadState, Acknowledge, StateReadFails, StopFrame, historyVars, signalVars, StillHeld
  <2>2. Preparing' \/ pc' = "thaw"
    BY <1>2 DEF ReadState, Acknowledge, StateReadFails, StopNotFound, StopFailed, StopAcknowledged,
                RefuseNow, Refuse
  <2> QED
    BY <2>1, <2>2, PreparesPromise
<1>3. CASE SubmitStop
  <2>1. Preparing /\ (Preparing' \/ pc' = "thaw") /\ UNCHANGED <<signalled, kickContinued>>
    BY <1>3 DEF SubmitStop, StopFrame, StopNotFound, StopFailed, RefuseNow, Refuse
  <2>2. CASE UNCHANGED kickStopped
    BY <2>1, <2>2, PreparesPromise DEF StillHeld
  <2>3. CASE ~UNCHANGED kickStopped
    <3>1. /\ handle[cur] \in Proc /\ Preparing'
          /\ kickStopped' = kickStopped \cup {handle[cur]}
      BY <1>3, <2>3 DEF SubmitStop, Gone
    <3>2. Phase = "gathering" /\ Phase' = "gathering" /\ kickContinued = {}
      BY <2>1, <3>1, PhaseOfStep, PhaseOfNext DEF ContractInv, PromiseInv
    <3>3. StillHeld' = StillHeld \cup {handle[cur]} /\ UNCHANGED Condemned
      BY <2>1, <3>1, <3>2 DEF StillHeld, Condemned
    <3> QED
      BY <2>1, <3>1, <3>2, <3>3, HoldPromise
  <2> QED
    BY <2>2, <2>3
<1>4. CASE ListProcesses \/ ReadStatus \/ ReadStat \/ SnapshotTaken \/ SnapshotFails
  <2>1. Preparing /\ UNCHANGED <<StillHeld, signalled>>
    BY <1>4 DEF ListProcesses, ReadStatus, ReadStat, SnapshotTaken, SnapshotFails, ScanFrame,
                historyVars, signalVars, StillHeld
  <2>2. Preparing' \/ pc' = "thaw"
    BY <1>4 DEF ListProcesses, ReadStatus, ReadStat, SnapshotTaken, SnapshotFails, RefuseNow, Refuse
  <2> QED
    BY <2>1, <2>2, PreparesPromise
<1>5. CASE CheckRoot \/ Drain \/ Verify \/ ReadEvidence
  <2>1. Preparing /\ UNCHANGED <<StillHeld, signalled>>
    BY <1>5 DEF CheckRoot, Drain, Verify, ReadEvidence, historyVars, signalVars, StillHeld
  <2>2. Preparing' \/ pc' = "thaw"
    BY <1>5 DEF CheckRoot, Drain, Verify, ReadEvidence, RefuseNow, Refuse
  <2> QED
    BY <2>1, <2>2, PreparesPromise
<1> QED
  BY <1>1, <1>2, <1>3, <1>4, <1>5

\* The decision condemns exactly the recorded members.
LEMMA AuthorizeImplements == ContractInv /\ Authorize => PromiseStep
<1> SUFFICES ASSUME ContractInv, Authorize PROVE PromiseStep
  OBVIOUS
<1>1. Preparing /\ UNCHANGED <<StillHeld, signalled>>
  BY DEF Authorize, Preparing, historyVars, signalVars, StillHeld
<1>2. CASE pc' = "thaw"
  BY <1>1, <1>2, RefusePromise
<1>3. CASE pc' = "deliver" /\ todo' = frozen /\ UNCHANGED <<node, frozen>>
  <2>1. Phase = "gathering" /\ Phase' = "delivering"
    BY <1>1, <1>3, PhaseOfStep, PhaseOfNext DEF Delivering
  <2>2. \A pid \in frozen : node[pid].who \in Proc
    BY DEF Authorize, ContractInv, MembersKnown
  <2> QED
    BY <1>1, <1>3, <2>1, <2>2
       DEF PromiseStep, Promise!Next, Promise!Condemn, StillHeld, Condemned
<1> QED
  BY <1>2, <1>3 DEF Authorize, RefuseNow, Refuse

\* A member that has had its turn is not condemned any more.
LEMMA TurnEndsCondemnation ==
    ASSUME ContractInv, Delivering, todo \subseteq frozen, NEW pid \in frozen
    PROVE  /\ handle[pid] = node[pid].who /\ handle[pid] \in Proc /\ handle[pid] # NoProc
           /\ {node[other].who : other \in todo \ {pid}} = Condemned \ {node[pid].who}
<1>1. handle[pid] = node[pid].who /\ handle[pid] \in Proc /\ handle[pid] # NoProc
  BY KernelAssumption DEF ContractInv, MembersKnown, IdentityInv, VerifiedPinned
<1>2. \A other \in todo \ {pid} : node[other].who # node[pid].who
  BY <1>1, MembersDiffer
<1>3. Condemned = {node[other].who : other \in todo}
  BY PhaseOfStep DEF Condemned
<1> QED
  BY <1>1, <1>2, <1>3

\* A signal, accepted or not, is the end of one condemnation.
LEMMA DeliverImplements == ContractInv /\ Deliver => PromiseStep
<1> SUFFICES ASSUME ContractInv, Deliver PROVE PromiseStep
  OBVIOUS
<1>1. PICK pid \in todo :
        /\ todo' = todo \ {pid}
        /\ signalled' \in {signalled, signalled \cup {handle[pid]}}
  BY DEF Deliver, DeliveryTarget
<1>2. /\ pc = "deliver" /\ pc' \in {"cont", "resume", "deliver"}
      /\ UNCHANGED <<handle, frozen, node, kickStopped, kickContinued>>
  BY DEF Deliver
<1>3. todo \subseteq frozen
  BY <1>2 DEF ContractInv, IdentityInv, DeliveryInFrozen
<1>4. Phase = "delivering" /\ Phase' = "delivering"
  BY <1>2, PhaseOfStep, PhaseOfNext DEF Delivering
<1>5. PICK p \in Proc : p = node[pid].who /\ p = handle[pid] /\ p \in Condemned
  BY <1>1, <1>2, <1>3, <1>4, TurnEndsCondemnation DEF Delivering, Condemned
<1>6. Condemned' = Condemned \ {p}
  <2>1. Condemned' = {node[other].who : other \in todo \ {pid}}
    BY <1>1, <1>2, <1>4 DEF Condemned
  <2> QED
    BY <1>1, <1>2, <1>3, <1>5, <2>1, TurnEndsCondemnation DEF Delivering
<1>7. UNCHANGED StillHeld
  BY <1>2 DEF StillHeld
<1>8. Promise!Signal(p) \/ Promise!PassOver(p)
  BY <1>1, <1>4, <1>5, <1>6, <1>7 DEF Promise!Signal, Promise!PassOver, StillHeld, Condemned
<1> QED
  BY <1>5, <1>8 DEF PromiseStep, Promise!Next

\* Nobody is resumed before the turn it is condemned to, and the kill concludes when
\* there is nobody left.
LEMMA EndImplements ==
    ContractInv /\ (ContinueMember \/ ContinueGroup \/ Thaw \/ Finish) => PromiseStep
<1> SUFFICES ASSUME ContractInv, ContinueMember \/ ContinueGroup \/ Thaw \/ Finish
             PROVE  PromiseStep
  OBVIOUS
<1>1. CASE ContinueMember
  <2>1. /\ pc = "cont" /\ pc' = "deliver" /\ Continue(cur)
        /\ UNCHANGED <<todo, handle, frozen, node, signalled, kickStopped>>
    BY <1>1 DEF ContinueMember, ContinueFrame
  <2>2. todo \subseteq frozen /\ cur \in frozen \ todo
    BY <2>1 DEF ContractInv, PromiseInv, IdentityInv, DeliveryInFrozen
  <2>3. Phase = "delivering" /\ Phase' = "delivering"
    BY <2>1, PhaseOfStep, PhaseOfNext DEF Delivering
  <2>4. Pinned(cur) = node[cur].who /\ node[cur].who \notin Condemned
    <3>1. todo \ {cur} = todo
      BY <2>2
    <3>2. /\ handle[cur] = node[cur].who /\ handle[cur] # NoProc
          /\ {node[other].who : other \in todo \ {cur}} = Condemned \ {node[cur].who}
      BY <2>1, <2>2, TurnEndsCondemnation DEF Delivering
    <3>3. Condemned = {node[other].who : other \in todo}
      BY <2>3 DEF Condemned
    <3> QED
      BY <3>1, <3>2, <3>3 DEF Pinned
  <2>5. UNCHANGED Condemned
    BY <2>1, <2>3 DEF Condemned
  <2> QED
    BY <2>1, <2>3, <2>4, <2>5, ContinuePromise
<1>2. CASE ContinueGroup /\ owed # {}
  <2>1. PICK pid \in owed : Continue(pid)
    BY <1>2 DEF ContinueGroup
  <2>2. /\ pc = "resume" /\ pc' = "resume" /\ todo = {} /\ todo' = {}
        /\ UNCHANGED <<signalled, kickStopped>>
    BY <1>2 DEF ContinueGroup, ContinueFrame, ContractInv, PromiseInv
  <2>3. Phase = "delivering" /\ Phase' = "delivering"
    BY <2>2, PhaseOfStep, PhaseOfNext DEF Delivering
  <2>4. Condemned = {} /\ Condemned' = {}
    BY <2>2 DEF Condemned
  <2> QED
    BY <2>1, <2>2, <2>3, <2>4, ContinuePromise
<1>3. CASE Thaw
  <2>1. PICK pid \in todo : Continue(pid)
    BY <1>3 DEF Thaw
  <2>2. pc = "thaw" /\ pc' = "thaw" /\ UNCHANGED <<signalled, kickStopped>>
    BY <1>3 DEF Thaw, ContinueFrame
  <2>3. Phase = "refusing" /\ Phase' = "refusing"
    BY <2>2, PhaseOfStep, PhaseOfNext
  <2>4. Condemned = {} /\ Condemned' = {}
    BY <2>3 DEF Condemned
  <2> QED
    BY <2>1, <2>2, <2>3, <2>4, ContinuePromise
<1>4. CASE Finish \/ (ContinueGroup /\ owed = {})
  <2>1. /\ pc' = "done" /\ todo = {} /\ todo' = {}
        /\ UNCHANGED <<signalled, kickStopped, kickContinued>>
        /\ \/ pc = "thaw" /\ UNCHANGED outcome
           \/ Delivering /\ outcome' = "Completed"
    BY <1>4 DEF Finish, ContinueGroup, ContinueFrame, historyVars, signalVars, ContractInv,
                PromiseInv, Delivering
  <2>2. UNCHANGED StillHeld /\ Condemned = {} /\ Condemned' = {}
    BY <2>1 DEF StillHeld, Condemned
  <2>3. \/ Phase = "delivering" /\ Phase' = "killed"
        \/ Phase = "refusing" /\ Phase' = "refused"
    BY <2>1, PhaseOfStep, PhaseOfNext DEF ContractInv, PromiseInv, Delivering
  <2> QED
    BY <2>1, <2>2, <2>3
       DEF PromiseStep, Promise!Next, Promise!Conclude, StillHeld, Condemned
<1> QED
  BY <1>1, <1>2, <1>3, <1>4

LEMMA OutsideImplements ==
    Expire \/ Interrupt \/ Environment \/ UNCHANGED vars => PromiseStep
<1> SUFFICES ASSUME Expire \/ Interrupt \/ Environment \/ UNCHANGED vars PROVE PromiseStep
  OBVIOUS
<1>1. UNCHANGED <<pc, outcome, node, todo, signalVars>>
  BY DEF Expire, Interrupt, Others, Environment, vars, executorVars, controlVars, historyVars,
         reportVars
<1>2. UNCHANGED <<Phase, StillHeld, Condemned, signalled>>
  BY <1>1 DEF Phase, StillHeld, Condemned, signalVars
<1> QED
  BY <1>2, StutterPromise

\* The safety contract of execute_freeze_kill (execute.rs 348-357), of every kill:
\* it gathers what it stops, and then either condemns the recorded members, each of
\* which is signalled or passed over once, none of them resumed before its turn, or
\* refuses, signals nobody, and lets go.
THEOREM PromiseIsKept == Spec => KeepsPromise
<1>1. Init => Promise!Init
  <2> SUFFICES ASSUME Init PROVE Promise!Init
    OBVIOUS
  <2>1. Phase = "gathering"
    BY PhaseOfStep DEF Init, Preparing, Gathering
  <2> QED
    BY <2>1 DEF Init, Promise!Init
<1>2. ContractInv /\ [Next]_vars => PromiseStep
  BY PreparationImplements, AuthorizeImplements, DeliverImplements, EndImplements,
     OutsideImplements
     DEF Next, Executor, Terminated
<1>3. Spec => []ContractInv
  BY InitContract, NextContract, PTL DEF Spec
<1> QED
  BY <1>1, <1>2, <1>3, PTL DEF Spec, KeepsPromise, Promise!Spec, PromiseStep

-----------------------------------------------------------------------------
\* Cleanup

\* A process that was seen to run and is stopped was stopped by this kill, or by
\* somebody else since.
Excused(p) == status[p] = "stopped" => p \in kickStopped \cup meddled
StopsKnown == \A p \in Proc : status[p] = "stopping" => p \in kickStopped \cup meddled

\* A pidfd is opened of a process that exists.
PinsBorn == \A pid \in Pid : handle[pid] # NoProc => status[handle[pid]] # "unborn"

\* The state read before SIGSTOP is that of the pinned process, unless the pinned
\* one is gone and the number has a new holder; it decides who owes the resumption.
StateReadHolds == pc \in {"stop", "ack"} =>
    /\ before.who = handle[cur] \/ status[handle[cur]] = "dead"
    /\ ~before.stopped => Excused(handle[cur])
    /\ pc = "stop" /\ before.stopped => Resting(handle[cur]) \/ handle[cur] \in meddled

\* Who is recorded: the root, before the first snapshot, without being in `frozen`.
Recorded == IF frozen = {} /\ pc \in {"list", "read", "root"} THEN {RootPid} ELSE frozen
RootRecorded == Gathering /\ frozen # {} => RootPid \in frozen
ResumesExcused == \A pid \in Recorded : node[pid].resume =>
    handle[pid] # NoProc /\ Excused(handle[pid])

\* Cleanup is for recorded members that this kill stopped, and what delivery has to
\* continue was signalled or stopped by it.
Continuable(pid) == pid \in frozen /\ (handle[pid] \in signalled \/ node[pid].resume)
CleanupRecorded ==
    /\ pc = "thaw" => \A pid \in todo : pid \in frozen /\ node[pid].resume
    /\ InTree \/ ~Delivering => owed = {}
    /\ Delivering => \A pid \in owed : Continuable(pid)
    /\ pc = "cont" => Continuable(cur)

\* A process that this kill has stopped and that nothing excuses is still to be
\* handled: it is pinned, and it is recorded, being recorded, or in the turn of
\* the cleanup or of the delivery.
Unsettled(p) == /\ p \in kickStopped \ meddled /\ status[p] \in {"stopping", "stopped"}
                /\ "KILL" \notin pending[p] /\ PidOf[p] \notin thawFailed
Owes(pid) ==
    \/ Preparing /\ pid \in Recorded /\ node[pid].resume
    \/ pc = "ack" /\ cur = pid /\ ~before.stopped
    \/ pc = "thaw" /\ pid \in todo
    \/ /\ Delivering /\ pid \in frozen /\ node[pid].resume
       /\ pid \in todo \cup owed \/ (pc = "cont" /\ pid = cur)
NobodyForgotten == \A p \in Proc :
    Unsettled(p) => handle[PidOf[p]] = p /\ Owes(PidOf[p])

CleanupInv == /\ StopsKnown /\ PinsBorn /\ StateReadHolds /\ RootRecorded /\ ResumesExcused
              /\ CleanupRecorded /\ NobodyForgotten /\ OthersLeftStopped

\* The steps of the executor that only look, record or decide.
Looking ==
    \/ SelectMember \/ ReadState \/ Acknowledge \/ StateReadFails
    \/ ListProcesses \/ ReadStatus \/ ReadStat \/ SnapshotTaken \/ SnapshotFails
    \/ CheckRoot \/ Drain \/ Verify \/ ReadEvidence \/ Authorize \/ Finish
    \/ Expire \/ Interrupt \/ UNCHANGED vars
LEMMA LookingTouchesNobody ==
    ASSUME Looking
    PROVE  UNCHANGED <<status, parent, pgrp, name, pending, meddled, signalVars, thawFailed>>
<1>1. CASE SelectMember \/ ReadState
  BY <1>1 DEF SelectMember, ReadState, StopNotFound, RefuseNow, Refuse, reportVars, kernelVars,
              historyVars
<1>2. CASE Acknowledge \/ StateReadFails
  BY <1>2 DEF Acknowledge, StateReadFails, StopNotFound, StopFailed, StopAcknowledged, StopFrame,
              RefuseNow, Refuse, reportVars, kernelVars, signalVars
<1>3. CASE ListProcesses \/ ReadStatus \/ ReadStat \/ SnapshotTaken \/ SnapshotFails
  BY <1>3 DEF ListProcesses, ReadStatus, ReadStat, SnapshotTaken, SnapshotFails, ScanFrame,
              RefuseNow, Refuse, reportVars, kernelVars, historyVars
<1>4. CASE CheckRoot \/ Drain \/ Verify \/ ReadEvidence \/ Authorize \/ Finish
  BY <1>4 DEF CheckRoot, Drain, Verify, ReadEvidence, Authorize, Finish, RefuseNow, Refuse,
              reportVars, kernelVars, historyVars
<1>5. CASE Expire \/ Interrupt \/ UNCHANGED vars
  BY <1>5 DEF Expire, Interrupt, Others, vars, executorVars, controlVars, reportVars, kernelVars,
              historyVars
<1> QED
  BY <1>1, <1>2, <1>3, <1>4, <1>5 DEF Looking

\* SIGCONT to a pinned member: it reaches the process and settles it, or it is
\* reported.
LEMMA ContinueSettles ==
    ASSUME ContractInv, NEW pid \in Pid, handle[pid] # NoProc, Continue(pid)
    PROVE  LET target == handle[pid]
           IN  /\ \A p \in Proc : status'[p] = status[p]
                                    \/ (p = target /\ status'[p] = "running")
               /\ target \in Proc
               /\ status'[target] \notin {"stopping", "stopped"} \/ pid \in thawFailed'
               /\ kickContinued' \in {kickContinued, kickContinued \cup {target}}
               /\ ~UNCHANGED kickContinued => status[target] \in {"stopping", "stopped"}
               /\ thawFailed \subseteq thawFailed'
<1>1. handle[pid] \in Proc /\ Pinned(pid) = handle[pid] /\ status \in [Proc -> Status]
  BY DEF ContractInv, TypeInv, TypeOK, KernelTypeOK, Pinned
<1>2. CASE Gone(handle[pid]) \/ Forbidden(handle[pid])
  BY <1>1, <1>2 DEF Continue, Gone, Present, Live, Active
<1>3. CASE ~Gone(handle[pid]) /\ ~Forbidden(handle[pid])
  BY <1>1, <1>3 DEF Continue, ContStatus
<1> QED
  BY <1>2, <1>3

\* SIGSTOP finds p running.
Struck(p) == /\ pc = "stop" /\ pc' = "ack" /\ p = handle[cur] /\ status[p] \in Active
             /\ UNCHANGED <<handle, cur, before, frozen, node>>

\* Where a process goes, whoever moves it: it is stopped by this kill, by others,
\* or not at all; and neither its SIGKILL nor its entry in the report is lost.
Moves(p) ==
    /\ p \in meddled => p \in meddled'
    /\ p \in kickStopped => p \in kickStopped'
    /\ p \in kickStopped' => p \in kickStopped \/ Struck(p)
    /\ status'[p] = "stopping" => status[p] = "stopping" \/ (p \in kickStopped' /\ Struck(p))
    /\ status'[p] = "stopped" /\ p \notin meddled' => status[p] \in {"stopping", "stopped"}
    /\ "KILL" \in pending[p] /\ status'[p] \in Live => "KILL" \in pending'[p]
    /\ thawFailed \subseteq thawFailed'

\* SIGSTOP goes to the pinned process, if it is there.
LEMMA SubmitReaches ==
    ASSUME ContractInv, SubmitStop
    PROVE  LET target == handle[cur]
           IN  /\ pc = "stop" /\ UNCHANGED <<parent, pgrp, pending, meddled, name, cur, thawFailed, owed>>
               /\ UNCHANGED <<signalled, kickContinued>>
               /\ \/ /\ pc' = "ack" /\ target \in Proc /\ status[target] \in Present
                     /\ UNCHANGED <<handle, frozen, node, before, todo>>
                     /\ status' = [status EXCEPT ![target] = StopStatus(target)]
                     /\ kickStopped' = IF status[target] \in Active
                                       THEN kickStopped \cup {target} ELSE kickStopped
                  \/ /\ UNCHANGED <<status, kickStopped>>
                     /\ StopNotFound /\ Gone(target)
                  \/ /\ UNCHANGED <<status, kickStopped>>
                     /\ \E cause \in Causes : StopFailed(cause, FALSE)
<1>1. UNCHANGED thawFailed
  BY DEF SubmitStop, StopNotFound, StopFailed, RefuseNow, Refuse, reportVars
<1>2. /\ UNCHANGED <<parent, pgrp, pending, meddled, name, cur, owed, signalled, kickContinued>>
      /\ pc = "stop"
  BY DEF SubmitStop, StopFrame
<1>3. CASE expired \/ Forbidden(handle[cur])
  BY <1>1, <1>2, <1>3 DEF SubmitStop, Causes, Outcomes
<1>4. CASE ~expired /\ ~Forbidden(handle[cur]) /\ Gone(handle[cur])
  BY <1>1, <1>2, <1>4 DEF SubmitStop
<1>5. CASE ~expired /\ ~Gone(handle[cur]) /\ ~Forbidden(handle[cur])
  BY <1>1, <1>2, <1>5 DEF SubmitStop, StopFrame, Gone
<1> QED
  BY <1>3, <1>4, <1>5

\* Delivery moves nobody, and only adds to what is pending.
LEMMA DeliverMoves ==
    ASSUME ContractInv, Deliver, NEW p \in Proc
    PROVE  Moves(p)
<1>1. UNCHANGED <<status, meddled, kickStopped, thawFailed>>
  BY DEF Deliver
<1>2. \E target, kind : pending' \in {pending, [pending EXCEPT ![target] = @ \cup {kind}]}
  BY DEF Deliver
<1>3. pending \in [Proc -> SUBSET {"TERM", "KILL"}]
  BY DEF ContractInv, TypeInv, TypeOK, KernelTypeOK
<1> QED
  BY <1>1, <1>2, <1>3 DEF Moves

\* A pinned member is what cleanup and delivery continue.
LEMMA Continued ==
    ASSUME ContractInv, CleanupInv,
           ContinueMember \/ (ContinueGroup /\ owed # {}) \/ Thaw
    PROVE  \E pid \in Pid :
             /\ Continue(pid) /\ handle[pid] # NoProc /\ pid \in frozen
             /\ handle[pid] \in signalled \/ node[pid].resume
             /\ pc = "cont" => pid = cur /\ pc' = "deliver" /\ UNCHANGED <<todo, owed>>
             /\ pc = "resume" => pid \in owed /\ owed' = owed \ {pid}
                                   /\ UNCHANGED <<pc, todo>>
             /\ pc = "thaw" => pid \in todo /\ todo' = todo \ {pid} /\ UNCHANGED <<pc, owed>>
             /\ pc \in {"cont", "resume", "thaw"}
             /\ UNCHANGED <<parent, pgrp, pending, meddled, name, request, handle, frozen, node,
                            cur, kickStopped, signalled>>
<1>1. frozen \subseteq Pid
  BY DEF ContractInv, TypeInv, TypeOK
<1>2. ASSUME NEW pid \in frozen, handle[pid] \in signalled \/ node[pid].resume,
             Delivering \/ pc = "thaw"
      PROVE  handle[pid] # NoProc
  <2>1. CASE node[pid].resume
    BY <1>2, <2>1 DEF CleanupInv, ResumesExcused, Recorded, Delivering
  <2>2. CASE handle[pid] \in signalled
    BY <2>2, KernelAssumption DEF ContractInv, TypeInv, TypeOK
  <2> QED
    BY <1>2, <2>1, <2>2
<1>3. CASE ContinueMember
  <2>1. pc = "cont" /\ Continue(cur) /\ Continuable(cur)
    BY <1>3 DEF ContinueMember, CleanupInv, CleanupRecorded
  <2>2. handle[cur] # NoProc
    BY <1>2, <2>1 DEF Continuable, Delivering
  <2> QED
    BY <1>1, <1>3, <2>1, <2>2 DEF ContinueMember, ContinueFrame, stopVars, Continuable
<1>4. CASE ContinueGroup /\ owed # {}
  <2>1. PICK pid \in owed : Continue(pid) /\ owed' = owed \ {pid}
    BY <1>4 DEF ContinueGroup
  <2>2. pc = "resume" /\ Continuable(pid)
    BY <1>4, <2>1 DEF ContinueGroup, CleanupInv, CleanupRecorded, Delivering
  <2>3. handle[pid] # NoProc
    BY <1>2, <2>2 DEF Continuable, Delivering
  <2> QED
    BY <1>1, <1>4, <2>1, <2>2, <2>3 DEF ContinueGroup, ContinueFrame, stopVars, Continuable
<1>5. CASE Thaw
  <2>1. PICK pid \in todo : Continue(pid) /\ todo' = todo \ {pid}
    BY <1>5 DEF Thaw
  <2>2. pc = "thaw" /\ pid \in frozen /\ node[pid].resume
    BY <1>5, <2>1 DEF Thaw, CleanupInv, CleanupRecorded
  <2> QED
    BY <1>1, <1>2, <1>5, <2>1, <2>2 DEF Thaw, ContinueFrame, stopVars
<1> QED
  BY <1>3, <1>4, <1>5

LEMMA NextMoves ==
    ASSUME ContractInv, CleanupInv, [Next]_vars, NEW p \in Proc
    PROVE  Moves(p)
<1>0. KernelTypeOK
  BY DEF ContractInv, TypeInv, TypeOK
<1>1. CASE Looking \/ (ContinueGroup /\ owed = {})
  <2>1. UNCHANGED <<status, pending, meddled, kickStopped, thawFailed>>
    BY <1>1, LookingTouchesNobody DEF ContinueGroup, ContinueFrame, signalVars
  <2> QED
    BY <2>1 DEF Moves
<1>2. CASE SubmitStop
  BY <1>0, <1>2, SubmitReaches DEF Moves, Struck, KernelTypeOK, StopStatus, Active
<1>3. CASE Deliver
  BY <1>3, DeliverMoves
<1>4. CASE ContinueMember \/ (ContinueGroup /\ owed # {}) \/ Thaw
  BY <1>4, Continued, ContinueSettles DEF Moves
<1>5. CASE Environment
  <2>1. UNCHANGED <<kickStopped, thawFailed>> /\ KernelStep
    BY <1>5 DEF Environment, controlVars, signalVars, reportVars
  <2> QED
    BY <1>0, <2>1, KernelStepRests DEF Moves, RestsOn
<1> QED
  BY <1>1, <1>2, <1>3, <1>4, <1>5 DEF Next, Executor, Terminated, Looking

\* Nobody becomes stopped without an excuse, nor unsettled but by a new SIGSTOP.
LEMMA NextStays ==
    ASSUME ContractInv, CleanupInv, [Next]_vars
    PROVE  /\ StopsKnown'
           /\ \A p \in Proc : Excused(p) => Excused(p)'
           /\ \A p \in Proc : Unsettled(p)' => Unsettled(p) \/ (Struck(p) /\ p \notin meddled)
<1>1. \A p \in Proc : Moves(p)
  BY NextMoves
<1>2. StopsKnown
  BY DEF CleanupInv
<1>3. StopsKnown' /\ \A p \in Proc : Excused(p) => Excused(p)'
  BY <1>1, <1>2 DEF StopsKnown, Excused, Moves
<1>4. ASSUME NEW p \in Proc, Unsettled(p)', ~(Struck(p) /\ p \notin meddled)
      PROVE  Unsettled(p)
  <2>1. /\ Moves(p) /\ status'[p] \in {"stopping", "stopped"} /\ p \notin meddled'
        /\ p \in kickStopped' /\ "KILL" \notin pending'[p] /\ PidOf[p] \notin thawFailed'
    BY <1>1, <1>4 DEF Unsettled
  <2>2. p \notin meddled /\ p \in kickStopped /\ status[p] \in {"stopping", "stopped"}
    BY <1>4, <2>1 DEF Moves
  <2> QED
    BY <2>1, <2>2 DEF Unsettled, Moves, Live, Active
<1> QED
  BY <1>3, <1>4

LEMMA NextPins == ContractInv /\ CleanupInv /\ [Next]_vars => PinsBorn'
<1> SUFFICES ASSUME ContractInv, CleanupInv, [Next]_vars PROVE PinsBorn'
  OBVIOUS
<1>0. TypeOK
  BY DEF ContractInv, TypeInv
<1>1. \A pid \in Pid : handle'[pid] \in {handle[pid], NoProc, Pinned(pid)}
  <2>1. CASE SelectMember
    BY <1>0, <2>1 DEF SelectMember, TypeOK
  <2>2. CASE ReadState \/ SubmitStop \/ Acknowledge \/ StateReadFails
    <3>1. handle' \in {handle, [handle EXCEPT ![cur] = NoProc]}
      BY <2>2 DEF ReadState, SubmitStop, Acknowledge, StateReadFails, StopNotFound, StopFailed,
                  StopAcknowledged
    <3> QED
      BY <1>0, <3>1 DEF TypeOK
  <2>3. CASE Verify
    BY <2>3 DEF Verify
  <2>4. CASE \/ ListProcesses \/ ReadStatus \/ ReadStat \/ SnapshotTaken \/ SnapshotFails
             \/ CheckRoot \/ Drain \/ ReadEvidence \/ Authorize
    BY <2>4 DEF ListProcesses, ReadStatus, ReadStat, SnapshotTaken, SnapshotFails, ScanFrame,
                CheckRoot, Drain, ReadEvidence, Authorize
  <2>5. CASE \/ Deliver \/ ContinueMember \/ ContinueGroup \/ Thaw \/ Finish
             \/ Expire \/ Interrupt \/ Environment \/ UNCHANGED vars
    BY <2>5 DEF Deliver, ContinueMember, ContinueGroup, Thaw, Finish, ContinueFrame, Expire,
                Interrupt, Others, Environment, vars, executorVars, controlVars
  <2> QED
    BY <2>1, <2>2, <2>3, <2>4, <2>5 DEF Next, Executor, Terminated
<1>2. \A pid \in Pid : Pinned(pid) # NoProc => Pinned(pid) \in Proc /\ status[Pinned(pid)] # "unborn"
  BY <1>0, OccupantHolds
     DEF Pinned, Has, TypeOK, CleanupInv, PinsBorn, Present, Live, Active
<1>3. \A pid \in Pid : handle[pid] # NoProc => handle[pid] \in Proc /\ status[handle[pid]] # "unborn"
  BY <1>0 DEF TypeOK, CleanupInv, PinsBorn
<1>4. Ages
  BY NextAges DEF ContractInv, IdentityInv
<1> QED
  BY <1>1, <1>2, <1>3, <1>4 DEF PinsBorn, Ages

\* Before the kill is decided, whoever is unsettled is recorded, or is being stopped.
AllRecorded == \A p \in Proc : Unsettled(p) =>
    handle[PidOf[p]] = p /\ PidOf[p] \in Recorded /\ node[PidOf[p]].resume

LEMMA RecordedSoFar ==
    ASSUME ContractInv, CleanupInv, Preparing, pc = "ack" => before.stopped
    PROVE  AllRecorded
BY DEF CleanupInv, NobodyForgotten, Owes, AllRecorded, Preparing, Gathering, Taking, Delivering

\* A member that is not found when it is to be stopped is not one this kill stopped.
LEMMA NotFoundSettled ==
    ASSUME ContractInv, CleanupInv, pc = "ack",
           ~(Occupant(cur) = before.who /\ Alive(Occupant(cur)))
    PROVE  AllRecorded
<1>1. ASSUME NEW p \in Proc, Unsettled(p), cur = PidOf[p], handle[cur] = p
      PROVE  FALSE
  <2>1. status[p] \in Live /\ Has(cur, p)
    BY <1>1 DEF Unsettled, Has, Present, Live, Active
  <2>2. before.who = p
    BY <1>1, <2>1 DEF CleanupInv, StateReadHolds, Live, Active
  <2>3. Occupant(cur) # NoProc
    <3>1. Occupant(cur) = CHOOSE q \in Proc : Has(cur, q)
      BY <2>1 DEF Occupant
    <3> QED
      BY <2>1, <3>1, KernelAssumption
  <2>4. Has(cur, Occupant(cur))
    BY <2>3, OccupantHolds
  <2>5. Occupant(cur) = p
    BY <2>1, <2>4 DEF Has, ContractInv, IdentityInv, OneHolder
  <2> QED
    BY <2>1, <2>2, <2>5 DEF Alive
<1> QED
  BY <1>1 DEF CleanupInv, NobodyForgotten, Owes, AllRecorded, Preparing, Gathering, Taking,
              Delivering

\* What the kill has recorded it goes on recording, or takes to the cleanup.
RecordsKept ==
    /\ \A pid \in Recorded' : node'[pid].resume =>
          handle'[pid] = handle[pid] /\ handle[pid] # NoProc /\ Excused(handle[pid])
    /\ \A p \in Proc : Unsettled(p) =>
          handle'[PidOf[p]] = p /\ PidOf[p] \in Recorded' /\ node'[PidOf[p]].resume

LEMMA CleanupKept ==
    ASSUME ContractInv, CleanupInv, [Next]_vars, RecordsKept, RootRecorded',
           UNCHANGED <<owed, request>>, Looking \/ SubmitStop, Preparing, pc' # "ack",
           \/ Preparing' /\ pc' # "stop"
           \/ pc' = "thaw" /\ todo' = {pid \in frozen' : node'[pid].resume}
    PROVE  CleanupInv'
<1>1. /\ StopsKnown' /\ \A p \in Proc : Excused(p) => Excused(p)'
      /\ \A p \in Proc : Unsettled(p)' => Unsettled(p)
  BY NextStays DEF Struck
<1>2. PinsBorn'
  BY NextPins
<1>3. StateReadHolds'
  BY DEF StateReadHolds, Preparing, Gathering, Taking
<1>4. ResumesExcused'
  <2>1. Recorded' \subseteq Pid
    BY NextContract, RootPidType DEF ContractInv, TypeInv, TypeOK, Recorded
  <2> QED
    BY <1>1, <2>1 DEF RecordsKept, ResumesExcused, ContractInv, TypeInv, TypeOK, Excused
<1>5. CleanupRecorded'
  BY DEF CleanupRecorded, CleanupInv, InTree, Preparing, Gathering, Taking, Delivering
<1>6. NobodyForgotten'
  <2>1. pc' = "thaw" => Recorded' = frozen'
    BY DEF Recorded
  <2> QED
    BY <1>1, <2>1 DEF NobodyForgotten, Owes, RecordsKept
<1>7. OthersLeftStopped'
  <2>1. UNCHANGED <<kickContinued, meddled, signalled>> /\ kickStopped \subseteq kickStopped'
    <3>1. CASE Looking
      BY <3>1, LookingTouchesNobody DEF signalVars
    <3>2. CASE SubmitStop
      BY <3>2, SubmitReaches
    <3> QED
      BY <3>1, <3>2
  <2> QED
    BY <2>1 DEF CleanupInv, OthersLeftStopped
<1> QED
  BY <1>1, <1>2, <1>3, <1>4, <1>5, <1>6, <1>7 DEF CleanupInv

\* The same for a step that changes no record.
LEMMA SameRecords ==
    ASSUME ContractInv, CleanupInv, AllRecorded, Recorded' = Recorded,
           \A pid \in Recorded : /\ node'[pid].resume = node[pid].resume
                                 /\ handle'[pid] = handle[pid]
    PROVE  RecordsKept
BY DEF RecordsKept, AllRecorded, CleanupInv, ResumesExcused

LEMMA SelectCleanup == ContractInv /\ CleanupInv /\ SelectMember => CleanupInv'
<1> SUFFICES ASSUME ContractInv, CleanupInv, SelectMember PROVE CleanupInv'
  OBVIOUS
<1>1. PICK pid \in work :
        /\ \A other \in Pid : other # pid => handle'[other] = handle[other]
        /\ \/ pc' = "thaw" /\ RefuseNow(outcome')
           \/ pc' \in {"drain", "select"} \/ pc' = "state"
  BY DEF SelectMember, RefuseNow, Refuse, ContractInv, TypeInv, TypeOK
<1>2. /\ pc = "select" /\ UNCHANGED <<frozen, node, owed, request>> /\ pid \notin frozen
      /\ frozen \subseteq Pid
  BY <1>1 DEF SelectMember, ContractInv, IdentityInv, WorkWaits, Gathering, TypeInv, TypeOK
<1>3. Recorded = frozen /\ Recorded' = frozen
  BY <1>1, <1>2 DEF Recorded
<1>4. AllRecorded
  BY <1>2, RecordedSoFar DEF Preparing, Gathering
<1>5. RecordsKept
  BY <1>1, <1>2, <1>3, <1>4, SameRecords
<1>6. RootRecorded'
  BY <1>2 DEF RootRecorded, CleanupInv, Gathering
<1>7. \/ Preparing' /\ pc' # "stop"
      \/ pc' = "thaw" /\ todo' = {m \in frozen' : node'[m].resume}
  BY <1>1, <1>2 DEF RefuseNow, Refuse, Preparing, Gathering, Taking
<1> QED
  BY <1>1, <1>2, <1>5, <1>6, <1>7, CleanupKept DEF Next, Executor, Looking, Preparing, Gathering

\* Dropping a pidfd that is not a recorded member's.
LEMMA NotFoundCleanup ==
    ASSUME ContractInv, CleanupInv, AllRecorded, Taking, StopNotFound,
           UNCHANGED <<owed, request>>, ReadState \/ SubmitStop \/ Acknowledge
    PROVE  CleanupInv'
<1>1. cur \notin frozen /\ frozen \subseteq Pid /\ cur \in Pid
      /\ handle \in [Pid -> Proc \cup {NoProc}]
  BY DEF ContractInv, IdentityInv, TakenPinned, TypeInv, TypeOK
<1>2. /\ UNCHANGED <<frozen, node>> /\ handle' = [handle EXCEPT ![cur] = NoProc]
      /\ \/ pc' = "thaw" /\ todo' = {m \in frozen' : node'[m].resume}
         \/ pc' \in {"drain", "select"}
  BY DEF StopNotFound, RefuseNow, Refuse
<1>3. Recorded = frozen /\ Recorded' = frozen
  BY <1>2 DEF Recorded, Taking
<1>4. RecordsKept
  BY <1>1, <1>2, <1>3, SameRecords
<1>5. RootRecorded'
  BY <1>2 DEF RootRecorded, CleanupInv, Gathering
<1> QED
  BY <1>2, <1>4, <1>5, CleanupKept DEF Next, Executor, Looking, Preparing, Gathering, Taking

\* A stop that fails: the member is recorded if it was seen running, or else it is
\* not one this kill stopped.
LEMMA FailedCleanup ==
    ASSUME ContractInv, CleanupInv, Taking, NEW cause, NEW cleanup \in BOOLEAN,
           StopFailed(cause, cleanup), UNCHANGED <<owed, request>>,
           SubmitStop \/ Acknowledge \/ StateReadFails,
           cleanup = (pc = "ack" /\ ~before.stopped)
    PROVE  CleanupInv'
<1>1. /\ cur \notin frozen /\ frozen \subseteq Pid /\ cur \in Pid /\ handle[cur] # NoProc
      /\ handle \in [Pid -> Proc \cup {NoProc}] /\ node \in [Pid -> Node]
  BY DEF ContractInv, IdentityInv, TakenPinned, TypeInv, TypeOK
<1>2. pc' = "thaw" /\ todo' = {m \in frozen' : node'[m].resume}
  BY DEF StopFailed, Refuse
<1>3. Recorded = frozen /\ Recorded' = frozen'
  BY <1>2 DEF Recorded, Taking
<1>4. CASE cleanup
  <2>1. /\ frozen' = frozen \cup {cur} /\ UNCHANGED handle
        /\ \A m \in frozen : node'[m] = node[m]
    BY <1>1, <1>4 DEF StopFailed
  <2>2. node'[cur].resume
    BY <1>1, <1>4 DEF StopFailed, ConfirmedRoot, NodeOf, NodeAs
  <2>3. pc = "ack" /\ ~before.stopped
    BY <1>4
  <2>4. Excused(handle[cur])
    BY <2>3 DEF CleanupInv, StateReadHolds
  <2>5. RecordsKept
    <3>1. \A pid \in Recorded' : node'[pid].resume =>
            handle'[pid] = handle[pid] /\ handle[pid] # NoProc /\ Excused(handle[pid])
      BY <1>1, <1>3, <2>1, <2>4 DEF CleanupInv, ResumesExcused
    <3>2. \A p \in Proc : Unsettled(p) =>
            handle'[PidOf[p]] = p /\ PidOf[p] \in Recorded' /\ node'[PidOf[p]].resume
      BY <1>3, <2>1, <2>2, <2>3
         DEF CleanupInv, NobodyForgotten, Owes, Preparing, Gathering, Taking, Delivering
    <3> QED
      BY <3>1, <3>2 DEF RecordsKept
  <2> QED
    BY <1>2, <2>5, CleanupKept DEF Next, Executor, Looking, RootRecorded, Preparing, Gathering, Taking
<1>5. CASE ~cleanup
  <2>1. UNCHANGED <<frozen, node>> /\ handle' = [handle EXCEPT ![cur] = NoProc]
    BY <1>5 DEF StopFailed
  <2>2. AllRecorded
    BY <1>5, RecordedSoFar DEF Preparing, Gathering
  <2>3. RecordsKept
    BY <1>1, <1>3, <2>1, <2>2, SameRecords
  <2> QED
    BY <1>2, <2>3, CleanupKept DEF Next, Executor, Looking, RootRecorded, Preparing, Gathering, Taking
<1> QED
  BY <1>4, <1>5

\* A stop that took effect: the member is recorded.
LEMMA AcknowledgedCleanup ==
    ASSUME ContractInv, CleanupInv, pc = "ack", Acknowledge, StopAcknowledged(Transitioned),
           UNCHANGED <<owed, request>>
    PROVE  CleanupInv'
<1>1. /\ cur \notin frozen /\ frozen \subseteq Pid /\ cur \in Pid /\ handle[cur] # NoProc
      /\ node \in [Pid -> Node] /\ (frozen = {} => cur = RootPid) /\ Recorded = frozen
  BY DEF ContractInv, IdentityInv, TakenPinned, RootFirstTaken, TypeInv, TypeOK, Gathering,
         Taking, Recorded
<1>2. /\ pc' \in {"list", "drain", "select"} /\ UNCHANGED handle
      /\ \A m \in frozen : node'[m] = node[m]
      /\ node'[cur].resume = ~before.stopped
      /\ Recorded' = frozen \cup {cur}
  <2>1. CASE frozen = {}
    BY <1>1, <2>1 DEF StopAcknowledged, ConfirmedRoot, Transitioned, Recorded
  <2>2. CASE frozen # {}
    BY <1>1, <2>2 DEF StopAcknowledged, NodeOf, NodeAs, Transitioned, Recorded
  <2> QED
    BY <2>1, <2>2
<1>3. ~before.stopped => Excused(handle[cur])
  BY DEF CleanupInv, StateReadHolds
<1>4. RecordsKept
  <2>1. \A pid \in Recorded' : node'[pid].resume =>
          handle'[pid] = handle[pid] /\ handle[pid] # NoProc /\ Excused(handle[pid])
    BY <1>1, <1>2, <1>3 DEF CleanupInv, ResumesExcused
  <2>2. \A p \in Proc : Unsettled(p) =>
          handle'[PidOf[p]] = p /\ PidOf[p] \in Recorded' /\ node'[PidOf[p]].resume
    BY <1>1, <1>2
       DEF CleanupInv, NobodyForgotten, Owes, Preparing, Gathering, Taking, Delivering
  <2> QED
    BY <2>1, <2>2 DEF RecordsKept
<1>5. RootRecorded'
  BY <1>1, <1>2 DEF RootRecorded, CleanupInv, StopAcknowledged, Gathering, Taking
<1> QED
  BY <1>2, <1>4, <1>5, CleanupKept DEF Next, Executor, Looking, Preparing, Gathering, Taking

\* The state that decides about the resumption is the pinned process's.
LEMMA ReadStateCleanup == ContractInv /\ CleanupInv /\ ReadState => CleanupInv'
<1> SUFFICES ASSUME ContractInv, CleanupInv, ReadState PROVE CleanupInv'
  OBVIOUS
<1>1. pc = "state" /\ UNCHANGED <<owed, request, cur, kernelVars, historyVars>>
  BY DEF ReadState
<1>2. AllRecorded
  BY <1>1, RecordedSoFar DEF Preparing, Gathering, Taking
<1>3. CASE StopNotFound
  BY <1>1, <1>2, <1>3, NotFoundCleanup DEF Taking
<1>4. CASE /\ Alive(Occupant(cur))
           /\ before' = [who |-> Occupant(cur), stopped |-> status[Occupant(cur)] = "stopped"]
           /\ pc' = "stop" /\ UNCHANGED <<handle, vanished, frozen, node, todo, reportVars>>
  <2> DEFINE now == Occupant(cur)
  <2>1. now \in Proc /\ status[now] \in Live /\ PidOf[now] = cur
    BY <1>4, OccupantHolds, KernelAssumption DEF Alive, Has
  <2>2. /\ handle[cur] \in Proc /\ PidOf[handle[cur]] = cur /\ status[handle[cur]] # "unborn"
        /\ status[handle[cur]] \in Status
    BY <1>1 DEF ContractInv, IdentityInv, TakenPinned, SafetyInv, PinsByNumber, CleanupInv,
                PinsBorn, TypeInv, TypeOK, KernelTypeOK, Taking
  <2>3. now = handle[cur] \/ status[handle[cur]] = "dead"
    BY <2>1, <2>2 DEF ContractInv, IdentityInv, OneHolder, Status, Present, Live, Active
  <2>4. before'.who = now /\ before'.stopped = (status[now] = "stopped")
    BY <1>4
  <2>5. StateReadHolds'
    <3>1. UNCHANGED <<handle, cur, status, kickStopped, meddled>>
      BY <1>1, <1>4 DEF kernelVars, historyVars, signalVars
    <3>2. (status[now] = "stopped") => status[now] \notin Active \cup {"unborn"}
      BY DEF Active
    <3> HIDE DEF now
    <3> QED
      BY <2>3, <2>4, <3>1, <3>2 DEF StateReadHolds, Excused, Resting, Active
  <2>6. /\ UNCHANGED <<frozen, node, handle, status, pending, meddled, thawFailed>>
        /\ UNCHANGED <<kickStopped, kickContinued, signalled, owed, request>>
    BY <1>1, <1>4 DEF kernelVars, historyVars, signalVars, reportVars
  <2>7. /\ StopsKnown' /\ PinsBorn' /\ RootRecorded' /\ ResumesExcused' /\ CleanupRecorded'
        /\ OthersLeftStopped'
    BY <1>1, <1>4, <2>6
       DEF CleanupInv, StopsKnown, PinsBorn, RootRecorded, ResumesExcused, CleanupRecorded,
           OthersLeftStopped, Excused, Recorded, Gathering, Taking, Delivering, InTree
  <2>8. NobodyForgotten'
    BY <1>1, <1>2, <1>4, <2>6
       DEF AllRecorded, NobodyForgotten, Owes, Unsettled, Recorded, Preparing, Gathering, Taking
  <2> QED
    BY <2>5, <2>7, <2>8 DEF CleanupInv
<1> QED
  BY <1>3, <1>4 DEF ReadState

\* SIGSTOP to a process that runs was sent after it was seen running, or somebody
\* else has moved it.
LEMMA SubmitCleanup == ContractInv /\ CleanupInv /\ SubmitStop => CleanupInv'
<1> SUFFICES ASSUME ContractInv, CleanupInv, SubmitStop PROVE CleanupInv'
  OBVIOUS
<1>1. /\ pc = "stop" /\ UNCHANGED <<request, pending, meddled, cur, thawFailed, owed>>
      /\ UNCHANGED <<signalled, kickContinued>>
  BY SubmitReaches DEF SubmitStop, StopFrame
<1>2. AllRecorded
  BY <1>1, RecordedSoFar DEF Preparing, Gathering, Taking
<1>3. CASE StopNotFound
  BY <1>1, <1>2, <1>3, NotFoundCleanup DEF Taking
<1>4. CASE \E cause \in Causes : StopFailed(cause, FALSE)
  BY <1>1, <1>4, FailedCleanup DEF Taking
<1>5. CASE /\ pc' = "ack" /\ handle[cur] \in Proc /\ status[handle[cur]] \in Present
           /\ UNCHANGED <<handle, frozen, node, before, todo>>
           /\ status' = [status EXCEPT ![handle[cur]] = StopStatus(handle[cur])]
           /\ kickStopped' = IF status[handle[cur]] \in Active
                             THEN kickStopped \cup {handle[cur]} ELSE kickStopped
  <2>1. /\ StopsKnown' /\ \A p \in Proc : Excused(p) => Excused(p)'
        /\ \A p \in Proc : Unsettled(p)' => Unsettled(p) \/ (Struck(p) /\ p \notin meddled)
    BY NextStays DEF Next, Executor
  <2>2. PinsBorn'
    BY NextPins DEF Next, Executor
  <2>3. StateReadHolds'
    <3>1. status[handle[cur]] # "dead"
      BY <1>5 DEF Present, Live, Active
    <3>2. before.who = handle[cur] /\ (~before.stopped => Excused(handle[cur]))
      BY <1>1, <3>1 DEF CleanupInv, StateReadHolds
    <3> QED
      BY <1>1, <1>5, <2>1, <3>2 DEF StateReadHolds, Excused
  <2>4. Recorded' = Recorded /\ Recorded \subseteq Pid
    BY <1>1, <1>5 DEF Recorded, ContractInv, TypeInv, TypeOK
  <2>5. ResumesExcused'
    BY <1>5, <2>1, <2>4 DEF CleanupInv, ResumesExcused, Excused, ContractInv, TypeInv, TypeOK
  <2>6. RootRecorded' /\ CleanupRecorded'
    BY <1>1, <1>5 DEF CleanupInv, RootRecorded, CleanupRecorded, Gathering, Taking, Delivering, InTree
  <2>7. OthersLeftStopped'
    BY <1>1, <1>5 DEF CleanupInv, OthersLeftStopped
  <2>8. ASSUME NEW p \in Proc, Struck(p), p \notin meddled
        PROVE  handle'[PidOf[p]] = p /\ Owes(PidOf[p])'
    <3>1. p = handle[cur] /\ PidOf[p] = cur /\ status[p] \in Active
      BY <2>8, KernelAssumption
         DEF Struck, ContractInv, SafetyInv, PinsByNumber, TypeInv, TypeOK
    <3>2. ~before.stopped
      BY <1>1, <2>8, <3>1 DEF CleanupInv, StateReadHolds, Resting
    <3> QED
      BY <1>1, <1>5, <3>1, <3>2 DEF Owes
  <2>9. NobodyForgotten'
    BY <1>2, <1>5, <2>1, <2>4, <2>8
       DEF AllRecorded, NobodyForgotten, Owes, Preparing, Gathering, Taking
  <2> QED
    BY <2>1, <2>2, <2>3, <2>5, <2>6, <2>7, <2>9 DEF CleanupInv
<1> QED
  BY <1>3, <1>4, <1>5, SubmitReaches

LEMMA AckCleanup == ContractInv /\ CleanupInv /\ (Acknowledge \/ StateReadFails) => CleanupInv'
<1> SUFFICES ASSUME ContractInv, CleanupInv, Acknowledge \/ StateReadFails PROVE CleanupInv'
  OBVIOUS
<1>1. Taking /\ UNCHANGED <<owed, request>>
  BY DEF Acknowledge, StateReadFails, StopFrame, Taking
<1>2. CASE Acknowledge
  <2>1. CASE StopFailed("SnapshotFailed", Transitioned)
    BY <1>1, <1>2, <2>1, FailedCleanup DEF Transitioned, Acknowledge
  <2>2. CASE StopNotFound /\ ~(Occupant(cur) = before.who /\ Alive(Occupant(cur)))
    BY <1>1, <1>2, <2>2, NotFoundSettled, NotFoundCleanup DEF Acknowledge
  <2>3. CASE StopAcknowledged(Transitioned)
    BY <1>1, <1>2, <2>3, AcknowledgedCleanup DEF Acknowledge
  <2> QED
    BY <1>2, <2>1, <2>2, <2>3 DEF Acknowledge
<1>3. CASE StateReadFails
  BY <1>1, <1>3, FailedCleanup DEF StateReadFails, Transitioned
<1> QED
  BY <1>2, <1>3

LEMMA ScanCleanup ==
    ContractInv /\ CleanupInv
        /\ (ListProcesses \/ ReadStatus \/ ReadStat \/ SnapshotTaken \/ SnapshotFails \/ CheckRoot)
        => CleanupInv'
<1> SUFFICES ASSUME ContractInv, CleanupInv,
                    \/ ListProcesses \/ ReadStatus \/ ReadStat \/ SnapshotTaken \/ SnapshotFails
                    \/ CheckRoot
             PROVE  CleanupInv'
  OBVIOUS
<1>1. /\ pc \in {"list", "read", "root"} /\ UNCHANGED <<handle, owed, request>>
      /\ [Next]_vars /\ Looking
  BY DEF ListProcesses, ReadStatus, ReadStat, SnapshotTaken, SnapshotFails, ScanFrame, CheckRoot,
         Next, Executor, Looking
<1>2. AllRecorded
  BY <1>1, RecordedSoFar DEF Preparing, Gathering
<1>3. frozen # {} => RootPid \in frozen
  BY <1>1 DEF CleanupInv, RootRecorded, Gathering
<1>4. ASSUME Recorded' = Recorded, frozen' # {} => RootPid \in frozen',
             \A pid \in Recorded : node'[pid].resume = node[pid].resume,
             \/ pc' \in {"list", "read", "root", "drain"}
             \/ pc' = "thaw" /\ todo' = {pid \in frozen' : node'[pid].resume}
      PROVE  CleanupInv'
  BY <1>1, <1>2, <1>4, SameRecords, CleanupKept
     DEF RootRecorded, Preparing, Gathering
<1>5. CASE ListProcesses
  <2>1. /\ UNCHANGED <<frozen, node>> /\ pc = "list"
        /\ \/ pc' = "read"
           \/ pc' = "thaw" /\ frozen # {} /\ todo' = {pid \in frozen : node[pid].resume}
    BY <1>5 DEF ListProcesses, RefuseNow, Refuse
  <2>2. Recorded' = Recorded
    BY <2>1 DEF Recorded
  <2> QED
    BY <1>3, <1>4, <2>1, <2>2
<1>6. CASE ReadStatus \/ ReadStat \/ SnapshotTaken
  <2>1. /\ UNCHANGED <<frozen, node>> /\ pc = "read"
        /\ pc' = "read" \/ pc' = (IF frozen = {} THEN "root" ELSE "drain")
    BY <1>6 DEF ReadStatus, ReadStat, SnapshotTaken, ScanFrame
  <2>2. Recorded' = Recorded
    BY <2>1 DEF Recorded
  <2> QED
    BY <1>3, <1>4, <2>1, <2>2
<1>7. CASE SnapshotFails
  <2>1. /\ UNCHANGED node /\ pc = "read" /\ pc' = "thaw" /\ frozen' = frozen \cup {RootPid}
        /\ todo' = {pid \in frozen' : node'[pid].resume}
    BY <1>7 DEF SnapshotFails, Refuse
  <2>2. Recorded' = Recorded
    BY <1>3, <2>1 DEF Recorded
  <2> QED
    BY <1>4, <2>1, <2>2
<1>8. CASE CheckRoot
  <2>1. frozen = {} /\ node \in [Pid -> Node]
    BY <1>8 DEF CheckRoot, ContractInv, TypeInv, PassBound, TypeOK
  <2>2. /\ pc = "root" /\ frozen' = {RootPid}
        /\ pc' = "list" \/ (pc' = "thaw" /\ todo' = {pid \in frozen' : node'[pid].resume})
    BY <1>8 DEF CheckRoot, Refuse
  <2>3. node'[RootPid].resume = node[RootPid].resume
    BY <1>8, <2>1, RootPidType DEF CheckRoot, NodeAs
  <2>4. Recorded = {RootPid} /\ Recorded' = {RootPid}
    BY <2>1, <2>2 DEF Recorded
  <2> QED
    BY <1>4, <2>2, <2>3, <2>4
<1> QED
  BY <1>5, <1>6, <1>7, <1>8

LEMMA SweepCleanup ==
    ContractInv /\ CleanupInv
        /\ (Drain \/ Verify \/ ReadEvidence \/ (Authorize /\ pc' = "thaw"))
        => CleanupInv'
<1> SUFFICES ASSUME ContractInv, CleanupInv,
                    Drain \/ Verify \/ ReadEvidence \/ (Authorize /\ pc' = "thaw")
             PROVE  CleanupInv'
  OBVIOUS
<1>0. TypeOK
  BY DEF ContractInv, TypeInv
<1>1. /\ pc \in {"drain", "verify", "evidence", "policy"}
      /\ UNCHANGED <<frozen, owed, request>> /\ [Next]_vars /\ Looking
  BY DEF Drain, Verify, ReadEvidence, Authorize, Next, Executor, Looking
<1>2. AllRecorded
  BY <1>1, RecordedSoFar DEF Preparing, Gathering
<1>3. pc' \in {"select", "verify", "list", "evidence", "policy"}
        \/ (pc' = "thaw" /\ todo' = {pid \in frozen' : node'[pid].resume})
  BY DEF Drain, Verify, ReadEvidence, Authorize, RefuseNow, Refuse
<1>4. frozen # {} \/ pc' # "list"
  BY <1>1 DEF Drain, Verify, ReadEvidence, Authorize, RefuseNow, Refuse, ContractInv, IdentityInv,
              RootFirstTaken, Gathering
<1>5. Recorded = frozen /\ Recorded' = frozen
  BY <1>1, <1>3, <1>4 DEF Recorded
<1>6. \A pid \in frozen : handle'[pid] = handle[pid]
  <2>1. CASE Verify
    <3>1. pc = "verify" /\ \A pid \in frozen : handle[pid] # NoProc /\ pid \in Pid
      BY <1>0, <2>1 DEF Verify, ContractInv, IdentityInv, FrozenPinned, Gathering, TypeOK
    <3> QED
      BY <2>1, <3>1 DEF Verify, Pinned
  <2>2. CASE ~Verify
    BY <2>2 DEF Drain, ReadEvidence, Authorize
  <2> QED
    BY <2>1, <2>2
<1>7. \A pid \in frozen : node'[pid].resume = node[pid].resume
  <2>1. ASSUME NEW known \in Node, NEW newName, NEW newForeign
        PROVE  Refreshed(known, newName, newForeign).resume = known.resume
    BY DEF Node, Refreshed
  <2>2. node \in [Pid -> Node] /\ frozen \subseteq Pid
    BY <1>0 DEF TypeOK
  <2>3. CASE Verify
    BY <2>1, <2>2, <2>3 DEF Verify, RefuseNow
  <2>4. CASE ReadEvidence
    BY <2>1, <2>2, <2>4 DEF ReadEvidence
  <2>5. CASE Drain \/ Authorize
    BY <2>5 DEF Drain, Authorize
  <2> QED
    BY <2>3, <2>4, <2>5
<1>8. RecordsKept
  BY <1>2, <1>5, <1>6, <1>7, SameRecords
<1>9. RootRecorded'
  BY <1>1 DEF RootRecorded, CleanupInv, Drain, Verify, ReadEvidence, Authorize, Gathering, Taking,
              RefuseNow, Refuse
<1> QED
  BY <1>1, <1>3, <1>8, <1>9, CleanupKept DEF Preparing, Gathering, Taking

\* The decision passes whoever is recorded on to the delivery.
LEMMA AuthorizeCleanup == ContractInv /\ CleanupInv /\ Authorize => CleanupInv'
<1> SUFFICES ASSUME ContractInv, CleanupInv, Authorize, pc' # "thaw" PROVE CleanupInv'
  BY SweepCleanup
<1>1. /\ pc = "policy" /\ pc' = "deliver" /\ todo' = frozen
      /\ UNCHANGED <<handle, frozen, node, owed, request, kernelVars, historyVars, thawFailed>>
  BY DEF Authorize, RefuseNow, Refuse, reportVars
<1>2. AllRecorded
  BY <1>1, RecordedSoFar DEF Preparing
<1>3. Recorded = frozen /\ Recorded' = frozen
  BY <1>1 DEF Recorded
<1>4. UNCHANGED <<status, meddled, pending, kickStopped, kickContinued, signalled>>
  BY <1>1 DEF kernelVars, historyVars, signalVars
<1>5. owed = {}
  BY <1>1 DEF CleanupInv, CleanupRecorded, Delivering
<1> QED
  BY <1>1, <1>2, <1>3, <1>4, <1>5
     DEF CleanupInv, StopsKnown, PinsBorn, StateReadHolds, RootRecorded, ResumesExcused,
         CleanupRecorded, NobodyForgotten, OthersLeftStopped, AllRecorded, Owes, Unsettled,
         Excused, Gathering, Taking, Delivering, InTree

\* A member that gets its signal is killed by it, or continued after it.
LEMMA DeliverCleanup == ContractInv /\ CleanupInv /\ Deliver => CleanupInv'
<1> SUFFICES ASSUME ContractInv, CleanupInv, Deliver PROVE CleanupInv'
  OBVIOUS
<1>0. TypeOK /\ pc = "deliver"
  BY DEF ContractInv, TypeInv, Deliver
<1>1. PICK pid \in todo :
        LET target == handle[pid]
            delivered == ~Gone(target) /\ ~Forbidden(target)
            resume == \/ delivered /\ request.mode = "terminate"
                      \/ Forbidden(target) /\ node[pid].resume
        IN  /\ todo' = todo \ {pid} /\ cur' = pid
            /\ delivered => pending' = [pending EXCEPT ![target] = @ \cup
                              {IF request.mode = "force" THEN "KILL" ELSE "TERM"}]
            /\ signalled' = IF delivered THEN signalled \cup {target} ELSE signalled
            /\ owed' = IF InGroup /\ resume THEN owed \cup {pid} ELSE owed
            /\ pc' = IF InTree /\ resume THEN "cont"
                     ELSE IF InGroup /\ todo' = {} THEN "resume" ELSE "deliver"
  <2>1. InTree \/ InGroup
    BY <1>0, FreezeKillAssumption DEF TypeOK, Request, InTree, InGroup
  <2> QED
    BY <2>1 DEF Deliver, DeliveryTarget, ContinuesAtOnce, InTree, InGroup
<1>2. UNCHANGED <<status, meddled, request, handle, frozen, node, kickStopped, kickContinued,
                  thawFailed>>
  BY DEF Deliver
<1>3. /\ pid \in frozen /\ pid \in Pid /\ handle[pid] \in Proc
      /\ request.mode \in {"terminate", "force"} /\ (InTree \/ InGroup)
      /\ pending \in [Proc -> SUBSET {"TERM", "KILL"}]
  BY <1>0, <1>1, TurnEndsCondemnation, FreezeKillAssumption
     DEF ContractInv, IdentityInv, DeliveryInFrozen, Delivering, TypeOK, KernelTypeOK, Request,
         InTree, InGroup
<1>4. StopsKnown' /\ \A p \in Proc : Unsettled(p)' => Unsettled(p)
  BY <1>0, NextStays DEF Struck, Next, Executor
<1>5. PinsBorn' /\ ResumesExcused' /\ OthersLeftStopped' /\ StateReadHolds' /\ RootRecorded'
  <2>1. Recorded' = Recorded /\ signalled \subseteq signalled'
    BY <1>0, <1>1, <1>2 DEF Recorded
  <2> QED
    BY <1>0, <1>1, <1>2, <2>1
       DEF CleanupInv, PinsBorn, ResumesExcused, Excused, OthersLeftStopped, StateReadHolds,
           RootRecorded, Gathering, Taking
<1> DEFINE resumed == \/ ~Gone(handle[pid]) /\ ~Forbidden(handle[pid])
                          /\ request.mode = "terminate"
                      \/ Forbidden(handle[pid]) /\ node[pid].resume
<1>6. /\ resumed => Continuable(pid)'
      /\ InGroup /\ resumed => pid \in owed'
      /\ InTree /\ resumed => pc' = "cont" /\ cur' = pid
      /\ owed \subseteq owed' /\ owed' \subseteq owed \cup {pid}
      /\ pid \in owed' => resumed \/ pid \in owed
      /\ pc' = "cont" => resumed /\ cur' = pid
      /\ InTree => owed' = owed
      /\ Delivering'
  BY <1>1, <1>2, <1>3 DEF Continuable, Delivering, InTree, InGroup
<1>7. ASSUME NEW p \in Proc, Unsettled(p)', PidOf[p] = pid, handle[pid] = p, node[pid].resume
      PROVE  resumed
  <2>1. Unsettled(p)
    BY <1>4, <1>7
  <2>2. ~Gone(p)
    BY <2>1 DEF Unsettled, Gone, Present, Live, Active
  <2>3. CASE ~Forbidden(p) /\ request.mode = "force"
    <3>1. pending' = [pending EXCEPT ![p] = @ \cup {"KILL"}]
      BY <1>1, <1>7, <2>2, <2>3
    <3>2. "KILL" \in pending'[p]
      BY <1>3, <3>1
    <3> QED
      BY <1>7, <3>2 DEF Unsettled
  <2>4. CASE ~Forbidden(p) /\ request.mode = "terminate"
    BY <1>7, <2>2, <2>4
  <2>5. CASE Forbidden(p)
    BY <1>7, <2>5
  <2> QED
    BY <1>3, <2>3, <2>4, <2>5
<1>8. \A m \in owed : Continuable(m)'
  <2>1. \A m \in owed : Continuable(m)
    BY <1>0 DEF CleanupInv, CleanupRecorded, Delivering
  <2> QED
    BY <1>1, <1>2, <2>1 DEF Continuable
<1> HIDE DEF resumed
<1>9. CleanupRecorded'
  BY <1>0, <1>1, <1>2, <1>6, <1>8 DEF CleanupInv, CleanupRecorded, Delivering, InTree
<1>10. NobodyForgotten'
  <2> SUFFICES ASSUME NEW p \in Proc, Unsettled(p)'
               PROVE  handle'[PidOf[p]] = p /\ Owes(PidOf[p])'
    BY DEF NobodyForgotten
  <2>1. /\ handle[PidOf[p]] = p /\ PidOf[p] \in frozen /\ node[PidOf[p]].resume
        /\ PidOf[p] \in todo \cup owed
    BY <1>0, <1>4
       DEF CleanupInv, NobodyForgotten, Owes, Delivering, Preparing, Gathering, Taking
  <2>2. CASE PidOf[p] = pid
    BY <1>2, <1>3, <1>6, <1>7, <2>1, <2>2 DEF Owes
  <2>3. CASE PidOf[p] # pid
    BY <1>1, <1>2, <1>6, <2>1, <2>3 DEF Owes
  <2> QED
    BY <2>2, <2>3
<1> QED
  BY <1>4, <1>5, <1>9, <1>10 DEF CleanupInv

\* Continuing a member settles it.
LEMMA ContinueCleanup ==
    ContractInv /\ CleanupInv /\ (ContinueMember \/ (ContinueGroup /\ owed # {}) \/ Thaw)
        => CleanupInv'
<1> SUFFICES ASSUME ContractInv, CleanupInv,
                    ContinueMember \/ (ContinueGroup /\ owed # {}) \/ Thaw
             PROVE  CleanupInv'
  OBVIOUS
<1>0. TypeOK
  BY DEF ContractInv, TypeInv
<1>1. PICK pid \in Pid :
        /\ Continue(pid) /\ handle[pid] # NoProc /\ pid \in frozen
        /\ handle[pid] \in signalled \/ node[pid].resume
        /\ pc = "cont" => pid = cur /\ pc' = "deliver" /\ UNCHANGED <<todo, owed>>
        /\ pc = "resume" => pid \in owed /\ owed' = owed \ {pid} /\ UNCHANGED <<pc, todo>>
        /\ pc = "thaw" => pid \in todo /\ todo' = todo \ {pid} /\ UNCHANGED <<pc, owed>>
        /\ pc \in {"cont", "resume", "thaw"}
        /\ UNCHANGED <<pending, meddled, name, request, handle, frozen, node, cur, kickStopped,
                       signalled>>
  BY Continued
<1> DEFINE target == handle[pid]
<1>2. /\ target \in Proc
      /\ status'[target] \notin {"stopping", "stopped"} \/ pid \in thawFailed'
      /\ kickContinued' \in {kickContinued, kickContinued \cup {target}}
      /\ ~UNCHANGED kickContinued => status[target] \in {"stopping", "stopped"}
  BY <1>1, ContinueSettles
<1>3. /\ StopsKnown' /\ \A p \in Proc : Excused(p) => Excused(p)'
      /\ \A p \in Proc : Unsettled(p)' => Unsettled(p)
  BY <1>1, NextStays DEF Struck, Next, Executor
<1>4. PinsBorn'
  BY NextPins DEF Next, Executor
<1>5. Recorded = frozen /\ Recorded' = frozen
  BY <1>1 DEF Recorded
<1>6. ResumesExcused'
  BY <1>0, <1>1, <1>3, <1>5 DEF CleanupInv, ResumesExcused, Excused, TypeOK
<1>7. StateReadHolds' /\ RootRecorded' /\ CleanupRecorded'
  BY <1>1 DEF CleanupInv, StateReadHolds, RootRecorded, CleanupRecorded, Continuable, Gathering,
              Taking, Delivering, InTree
<1>8. OthersLeftStopped'
  <2>1. status[target] \in {"stopping", "stopped"} =>
          target \in kickStopped \cup signalled \cup meddled
    BY <1>1, <1>2, <1>5
       DEF CleanupInv, ResumesExcused, Excused, StopsKnown
  <2> QED
    BY <1>1, <1>2, <2>1 DEF CleanupInv, OthersLeftStopped
<1>9. NobodyForgotten'
  <2> SUFFICES ASSUME NEW p \in Proc, Unsettled(p)'
               PROVE  handle'[PidOf[p]] = p /\ Owes(PidOf[p])'
    BY DEF NobodyForgotten
  <2>1. handle[PidOf[p]] = p /\ Owes(PidOf[p])
    BY <1>3 DEF CleanupInv, NobodyForgotten
  <2>2. PidOf[p] # pid
    BY <1>2, <2>1 DEF Unsettled
  <2> QED
    BY <1>1, <2>1, <2>2 DEF Owes, Delivering, Preparing, Gathering, Taking
<1> QED
  BY <1>3, <1>4, <1>6, <1>7, <1>8, <1>9 DEF CleanupInv

\* The kill returns when nobody is left to handle.
LEMMA EndCleanup ==
    ContractInv /\ CleanupInv /\ (Finish \/ (ContinueGroup /\ owed = {})) => CleanupInv'
<1> SUFFICES ASSUME ContractInv, CleanupInv, Finish \/ (ContinueGroup /\ owed = {})
             PROVE  CleanupInv'
  OBVIOUS
<1>1. /\ pc' = "done" /\ UNCHANGED <<status, pending, meddled, kickStopped, kickContinued>>
      /\ UNCHANGED <<handle, frozen, node, thawFailed, signalled, owed, request, todo>>
      /\ pc \in {"thaw", "deliver", "resume"}
      /\ todo = {} /\ owed = {}
  <2>1. CASE Finish
    BY <2>1 DEF Finish, kernelVars, historyVars, signalVars, CleanupInv, CleanupRecorded,
                Delivering
  <2>2. CASE ContinueGroup /\ owed = {}
    BY <2>2 DEF ContinueGroup, ContinueFrame, ContractInv, PromiseInv
  <2> QED
    BY <2>1, <2>2
<1>2. \A p \in Proc : ~Unsettled(p)
  BY <1>1 DEF CleanupInv, NobodyForgotten, Owes, Delivering, Preparing, Gathering, Taking
<1> QED
  BY <1>1, <1>2
     DEF CleanupInv, StopsKnown, PinsBorn, StateReadHolds, RootRecorded, ResumesExcused,
         CleanupRecorded, NobodyForgotten, OthersLeftStopped, Unsettled, Recorded, Excused,
         Gathering, Taking, Delivering, InTree

\* What happens in the process table meanwhile forgets nobody.
LEMMA OutsideCleanup ==
    ContractInv /\ CleanupInv /\ (Expire \/ Interrupt \/ Environment \/ UNCHANGED vars)
        => CleanupInv'
<1> SUFFICES ASSUME ContractInv, CleanupInv, Expire \/ Interrupt \/ Environment \/ UNCHANGED vars
             PROVE  CleanupInv'
  OBVIOUS
<1>0. TypeOK
  BY DEF ContractInv, TypeInv
<1>1. /\ UNCHANGED <<pc, request, handle, frozen, node, cur, before, todo, owed, thawFailed>>
      /\ UNCHANGED <<kickStopped, kickContinued, signalled>>
  BY DEF Expire, Interrupt, Others, Environment, vars, executorVars, controlVars, stopVars,
         reportVars, historyVars, signalVars
<1>2. /\ StopsKnown' /\ \A p \in Proc : Excused(p) => Excused(p)'
      /\ \A p \in Proc : Unsettled(p)' => Unsettled(p)
  BY <1>1, NextStays DEF Struck, Next, Terminated
<1>3. PinsBorn'
  BY NextPins DEF Next
<1>4. Ages /\ \A p \in Proc : Moves(p)
  BY NextAges, NextMoves DEF ContractInv, IdentityInv, Next
<1>5. Recorded' = Recorded /\ Recorded \subseteq Pid
  BY <1>0, <1>1, RootPidType DEF Recorded, TypeOK
<1>6. ASSUME NEW p \in Proc
      PROVE  Resting(p) \/ p \in meddled => (Resting(p) \/ p \in meddled)'
  <2>1. CASE Environment
    <3>1. RestsOn(p)
      BY <1>0, <2>1, KernelStepRests DEF Environment, TypeOK
    <3> QED
      BY <1>4, <3>1 DEF Resting, RestsOn, Ages
  <2>2. CASE ~Environment
    <3>1. UNCHANGED <<status, meddled>>
      BY <2>2 DEF Expire, Interrupt, Others, vars, kernelVars
    <3> QED
      BY <3>1 DEF Resting
  <2> QED
    BY <2>1, <2>2
<1>7. StateReadHolds'
  <2>1. pc \in {"stop", "ack"} => handle[cur] \in Proc
    BY <1>0 DEF ContractInv, IdentityInv, TakenPinned, Taking, TypeOK
  <2>2. ASSUME pc \in {"stop", "ack"} PROVE StateReadHolds'
    <3>1. PICK p \in Proc : p = handle[cur]
      BY <2>1, <2>2
    <3>2. /\ before.who = p \/ status[p] = "dead"
          /\ ~before.stopped => Excused(p)
          /\ pc = "stop" /\ before.stopped => Resting(p) \/ p \in meddled
      BY <2>2, <3>1 DEF CleanupInv, StateReadHolds
    <3>3. /\ before.who = p \/ status'[p] = "dead"
          /\ ~before.stopped => Excused(p)'
          /\ pc = "stop" /\ before.stopped => (Resting(p) \/ p \in meddled)'
      BY <1>2, <1>4, <1>6, <3>2 DEF Ages
    <3> QED
      BY <1>1, <3>1, <3>3 DEF StateReadHolds, Excused, Resting
  <2> QED
    BY <1>1, <2>2 DEF StateReadHolds
<1>8. ResumesExcused'
  BY <1>0, <1>1, <1>2, <1>5 DEF CleanupInv, ResumesExcused, Excused, TypeOK
<1>9. RootRecorded' /\ CleanupRecorded'
  BY <1>1 DEF CleanupInv, RootRecorded, CleanupRecorded, Continuable, Gathering, Taking,
              Delivering, InTree
<1>10. OthersLeftStopped'
  BY <1>0, <1>1, <1>4 DEF CleanupInv, OthersLeftStopped, Moves, TypeOK, KernelTypeOK
<1>11. NobodyForgotten'
  BY <1>1, <1>2, <1>5 DEF CleanupInv, NobodyForgotten, Owes, Preparing, Gathering, Taking,
                          Delivering
<1> QED
  BY <1>2, <1>3, <1>7, <1>8, <1>9, <1>10, <1>11 DEF CleanupInv

LEMMA NextCleanup == ContractInv /\ CleanupInv /\ [Next]_vars => CleanupInv'
BY SelectCleanup, ReadStateCleanup, SubmitCleanup, AckCleanup, ScanCleanup, SweepCleanup,
   AuthorizeCleanup, DeliverCleanup, ContinueCleanup, EndCleanup, OutsideCleanup
   DEF Next, Executor, Terminated

LEMMA InitCleanup == Init => CleanupInv
<1> SUFFICES ASSUME Init PROVE CleanupInv
  OBVIOUS
<1>1. status[RootProc] # "unborn"
  BY FreezeKillAssumption DEF Init, KernelInit
<1>2. PinsBorn
  BY <1>1, RootPidType DEF Init, PinsBorn
<1>3. StopsKnown
  BY DEF Init, KernelInit, StopsKnown
<1> QED
  BY <1>2, <1>3
     DEF Init, CleanupInv, StateReadHolds, RootRecorded, ResumesExcused, CleanupRecorded,
         NobodyForgotten, OthersLeftStopped, Unsettled, Recorded, Delivering

\* A scoped kill undoes exactly the stops it made (execute.rs 76-78 and 1006-1041):
\* whatever ends it, nobody is left stopped by it without having been told, and it
\* never resumes a process that was stopped before, nor a stranger.
THEOREM StopsAreAlwaysUndone == Spec => []StopsAreUndone
<1>1. Init => ContractInv /\ CleanupInv
  BY InitContract, InitCleanup
<1>2. ContractInv /\ CleanupInv /\ [Next]_vars => (ContractInv /\ CleanupInv)'
  BY NextContract, NextCleanup
<1>3. ContractInv /\ CleanupInv => StopsAreUndone
  BY DEF CleanupInv, NobodyForgotten, Unsettled, Owes, Preparing, Gathering, Taking, Delivering,
         StopsAreUndone, NoStoppedSurvivor, ContractInv, TypeInv, TypeOK
<1> QED
  BY <1>1, <1>2, <1>3, PTL DEF Spec

-----------------------------------------------------------------------------
\* Policy

\* Who is stopped stays as it was read, unless somebody else has continued it.
Still(p) == Resting(p) \/ p \in meddled
MembersStill ==
    /\ Preparing => \A pid \in Recorded : Still(handle[pid])
    /\ Delivering => \A pid \in todo : Still(handle[pid])

\* Only the root has depth 0.
DepthsPositive == Gathering /\ frozen # {} =>
    /\ \A pid \in work : newDepth[pid] # 0
    /\ Taking => newDepth[cur] # 0
RootOnTop == Preparing \/ Delivering =>
    \A pid \in frozen : node[pid].depth = 0 => node[pid].who = RootProc

\* Both halves of a frozen member's row are read from the pinned process, so what
\* the row says of its owner is true of it.
HalfIsOpen == half.read => pc = "read" /\ listing # {}
HalfFresh == half.read => \A pid \in frozen :
    NextListed(pid) /\ Has(pid, handle[pid]) /\ handle[pid] \notin meddled
        => half.foreign = (name[handle[pid]] \in Foreign)
RowsFresh == pc \in {"read", "drain", "verify"} /\ ~found => \A pid \in frozen :
    snap[pid] # NoRow /\ snap[pid].who = handle[pid] /\ handle[pid] \notin meddled
        => snap[pid].foreign = (name[handle[pid]] \in Foreign)

\* What is known of a member when it is judged, and until its turn, is how it is.
Judged == IF pc \in {"evidence", "policy"} THEN frozen
          ELSE IF Delivering THEN todo ELSE {}
OwnerKnown == \A pid \in Judged : handle[pid] \notin meddled =>
    node[pid].foreign = (name[handle[pid]] \in Foreign)
NameKnown == \A pid \in Judged \ (IF pc = "evidence" THEN todo ELSE {}) :
    handle[pid] \notin meddled => node[pid].name = name[handle[pid]]

\* What check_tree_policy has let through.
PolicyPassed == Delivering => \A pid \in frozen :
    /\ node[pid].name \in Protected => node[pid].depth = 0 /\ request.auth = "protectedTyped"
    /\ request.auth = "skipped" => node[pid].name \notin SystemName /\ ~node[pid].foreign

PolicyInv == /\ MembersStill /\ DepthsPositive /\ RootOnTop /\ HalfIsOpen /\ HalfFresh
             /\ RowsFresh /\ OwnerKnown /\ NameKnown /\ PolicyPassed

\* A stopped process goes on as it is through every step but the one that continues it.
LEMMA StillStays ==
    ASSUME ContractInv, CleanupInv, [Next]_vars, NEW p \in Proc, Still(p),
           pc \notin {"resume", "thaw"}, pc = "cont" => p # handle[cur]
    PROVE  /\ Still(p)'
           /\ p \notin meddled' => /\ name'[p] = name[p] /\ pgrp'[p] = pgrp[p]
                                   /\ status'[p] \in Present => status[p] \in Present
<1>0. KernelTypeOK
  BY DEF ContractInv, TypeInv, TypeOK
<1>1. CASE Looking \/ Deliver
  <2>1. UNCHANGED <<status, meddled, name, pgrp>>
    BY <1>1, LookingTouchesNobody DEF Deliver
  <2> QED
    BY <2>1 DEF Still, Resting
<1>2. CASE SubmitStop
  <2>1. UNCHANGED <<meddled, name, pgrp>>
    BY <1>2, SubmitReaches
  <2>2. Resting(p) => status'[p] = status[p]
    BY <1>0, <1>2, SubmitReaches DEF Resting, StopStatus, KernelTypeOK, Active
  <2>3. p \in meddled \/ status'[p] = status[p]
    BY <2>2 DEF Still
  <2> QED
    BY <2>1, <2>3 DEF Still, Resting
<1>3. CASE ContinueMember \/ ContinueGroup \/ Thaw
  <2>1. ContinueMember /\ pc = "cont"
    BY <1>3 DEF ContinueMember, ContinueGroup, Thaw
  <2>2. Continue(cur) /\ handle[cur] # NoProc /\ cur \in Pid /\ UNCHANGED <<meddled, name, pgrp>>
    BY <2>1, Continued
  <2>3. status'[p] = status[p]
    BY <2>1, <2>2, ContinueSettles
  <2> QED
    BY <2>2, <2>3 DEF Still, Resting
<1>4. CASE Environment
  <2>1. RestsOn(p) /\ Ages
    BY <1>0, <1>4, KernelStepRests, NextAges DEF Environment, ContractInv, IdentityInv
  <2>2. CASE p \in meddled
    BY <2>1, <2>2 DEF RestsOn, Still
  <2>3. CASE Resting(p) /\ p \notin meddled'
    BY <1>0, <2>1, <2>3
       DEF RestsOn, Still, Resting, Ages, KernelTypeOK, Status, Present, Live, Active
  <2> QED
    BY <2>2, <2>3 DEF Still
<1> QED
  BY <1>1, <1>2, <1>3, <1>4 DEF Next, Executor, Terminated, Looking

LEMMA PreparesBefore == [Next]_vars /\ Preparing' => Preparing
BY DEF Next, Executor, Terminated, SelectMember, ReadState, SubmitStop, Acknowledge, StateReadFails,
       ListProcesses, ReadStatus, ReadStat, SnapshotTaken, SnapshotFails, CheckRoot, Drain, Verify,
       ReadEvidence, Authorize, Deliver, ContinueMember, ContinueGroup, Thaw, Finish, Expire,
       Interrupt, Others, Environment, vars, executorVars, controlVars, Preparing, Gathering, Taking

\* Who is recorded, or being stopped, is pinned.
LEMMA RecordedPinned ==
    ASSUME ContractInv, Preparing, NEW pid \in Pid, pid \in Recorded \/ (Taking /\ pid = cur)
    PROVE  handle[pid] \in Proc
<1>1. handle[pid] \in Proc \cup {NoProc} /\ RootProc \in Proc
  BY FreezeKillAssumption DEF ContractInv, TypeInv, TypeOK
<1>2. CASE Taking /\ pid = cur
  BY <1>1, <1>2 DEF ContractInv, IdentityInv, TakenPinned
<1>3. CASE pid \in Recorded /\ Recorded # frozen
  BY <1>1, <1>3 DEF Recorded, ContractInv, IdentityInv, RootFirstTaken, Gathering
<1>4. CASE pid \in frozen /\ Gathering
  BY <1>1, <1>4 DEF ContractInv, IdentityInv, FrozenPinned
<1>5. CASE pid \in frozen /\ pc \in {"evidence", "policy"}
  BY <1>5 DEF ContractInv, IdentityInv, VerifiedPinned, MembersKnown
<1> QED
  BY <1>2, <1>3, <1>4, <1>5 DEF Preparing

\* A record is added only when the stop of its process was seen to take effect.
LEMMA RecordsStay ==
    ASSUME ContractInv, CleanupInv, [Next]_vars, Preparing, Preparing', NEW pid \in Recorded'
    PROVE  /\ handle'[pid] = handle[pid] /\ pid \in Pid
           /\ pid \in Recorded \/ (Taking /\ pid = cur /\ Resting(handle[cur]))
<1>0. TypeOK /\ TypeOK'
  BY NextContract DEF ContractInv, TypeInv
<1>1. pid \in Pid
  BY <1>0, RootPidType DEF Recorded, TypeOK
<1>2. Taking => cur \notin frozen
  BY DEF ContractInv, IdentityInv, TakenPinned
<1>3. CASE SelectMember
  <2>1. PICK m \in work :
          /\ \A other \in Pid : other # m => handle'[other] = handle[other]
          /\ pc = "select" /\ pc' \notin {"list", "read", "root"} /\ UNCHANGED frozen
    BY <1>0, <1>3 DEF SelectMember, RefuseNow, Refuse, TypeOK
  <2>2. m \notin frozen
    BY <2>1 DEF ContractInv, IdentityInv, WorkWaits, Gathering
  <2> QED
    BY <1>1, <2>1, <2>2 DEF Recorded
<1>4. ASSUME Taking, pc' \in {"drain", "select", "stop", "ack"}, UNCHANGED frozen,
             handle' \in {handle, [handle EXCEPT ![cur] = NoProc]}
      PROVE  handle'[pid] = handle[pid] /\ pid \in Recorded
  BY <1>0, <1>1, <1>2, <1>4 DEF Recorded, Taking, TypeOK
<1>5. ASSUME StopNotFound, Taking
      PROVE  handle'[pid] = handle[pid] /\ pid \in Recorded
  BY <1>4, <1>5 DEF StopNotFound, RefuseNow, Refuse, Preparing, Gathering, Taking
<1>6. CASE ReadState \/ SubmitStop
  <2>1. Taking
    BY <1>6 DEF ReadState, SubmitStop, Taking
  <2>2. CASE StopNotFound
    BY <1>1, <1>5, <2>1, <2>2
  <2>3. CASE pc' \in {"stop", "ack"} /\ UNCHANGED <<frozen, handle>>
    BY <1>1, <1>4, <2>1, <2>3
  <2> QED
    BY <1>6, <2>2, <2>3 DEF ReadState, SubmitStop, StopFailed, Refuse, Preparing, Gathering, Taking
<1>7. CASE Acknowledge
  <2>1. Taking /\ pc = "ack"
    BY <1>7 DEF Acknowledge, Taking
  <2>2. CASE StopNotFound
    BY <1>1, <1>5, <2>1, <2>2
  <2>3. CASE /\ Occupant(cur) = before.who /\ status[Occupant(cur)] = "stopped"
             /\ StopAcknowledged(Transitioned)
    <3>1. Resting(handle[cur])
      BY <2>1, <2>3 DEF CleanupInv, StateReadHolds, Resting, Active
    <3>2. Recorded = frozen /\ Recorded' \subseteq frozen \cup {cur} /\ UNCHANGED handle
      BY <2>1, <2>3 DEF StopAcknowledged, Recorded, ContractInv, IdentityInv, RootFirstTaken,
                        Gathering, Taking
    <3> QED
      BY <1>1, <2>1, <3>1, <3>2
  <2> QED
    BY <1>7, <2>2, <2>3
       DEF Acknowledge, StopFailed, Refuse, Preparing, Gathering, Taking
<1>8. CASE ListProcesses \/ ReadStatus \/ ReadStat \/ SnapshotTaken
  BY <1>1, <1>8 DEF ListProcesses, ReadStatus, ReadStat, SnapshotTaken, ScanFrame, Recorded,
                    RefuseNow, Refuse, Preparing, Gathering, Taking
<1>9. CASE CheckRoot
  <2>1. frozen = {}
    BY <1>9 DEF CheckRoot, ContractInv, TypeInv, PassBound
  <2> QED
    BY <1>1, <1>9, <2>1 DEF CheckRoot, Recorded
<1>10. CASE Drain \/ ReadEvidence
  <2>1. /\ pc \in {"drain", "evidence"} /\ UNCHANGED <<frozen, handle>>
        /\ frozen # {} \/ pc' # "list"
    BY <1>10 DEF Drain, ReadEvidence, RefuseNow, Refuse, ContractInv, IdentityInv, RootFirstTaken,
                 Gathering
  <2>2. pc' \notin {"read", "root"}
    BY <1>10 DEF Drain, ReadEvidence, RefuseNow, Refuse
  <2> QED
    BY <1>1, <2>1, <2>2 DEF Recorded
<1>11. CASE Verify
  <2>1. pc = "verify" /\ pc' \in {"evidence", "thaw"} /\ UNCHANGED frozen
    BY <1>11 DEF Verify, RefuseNow, Refuse
  <2>2. \A m \in frozen : handle[m] # NoProc /\ m \in Pid
    BY <1>0, <2>1 DEF ContractInv, IdentityInv, FrozenPinned, Gathering, TypeOK
  <2> QED
    BY <1>1, <1>11, <2>1, <2>2 DEF Verify, Pinned, Recorded
<1>12. CASE Expire \/ Interrupt \/ Environment \/ UNCHANGED vars
  BY <1>1, <1>12 DEF Expire, Interrupt, Others, Environment, vars, executorVars, controlVars,
                     Recorded
<1>13. CASE StateReadFails \/ SnapshotFails \/ Authorize
  BY <1>13 DEF StateReadFails, StopFailed, SnapshotFails, Authorize, RefuseNow, Refuse, Preparing,
               Gathering, Taking
<1>14. CASE Deliver \/ ContinueMember \/ ContinueGroup \/ Thaw \/ Finish
  BY <1>14 DEF Deliver, ContinueMember, ContinueGroup, Thaw, Finish, Preparing, Gathering, Taking
<1> QED
  BY <1>3, <1>6, <1>7, <1>8, <1>9, <1>10, <1>11, <1>12, <1>13, <1>14 DEF Next, Executor, Terminated

\* Delivery begins with everybody recorded, and loses who has had its turn.
LEMMA TurnsStay ==
    ASSUME ContractInv, CleanupInv, [Next]_vars, Delivering', NEW pid \in todo'
    PROVE  /\ \/ Delivering /\ pid \in todo /\ pc \in {"deliver", "cont"}
              \/ pc = "policy" /\ pid \in frozen /\ Authorize
           /\ pid \in frozen /\ pid \in Pid /\ UNCHANGED <<handle, frozen, node>>
           /\ handle[pid] \in Proc /\ handle[pid] = node[pid].who
           /\ pc = "cont" => handle[pid] # handle[cur]
<1>1. \/ pc \in {"deliver", "cont", "resume"} /\ todo' \subseteq todo
      \/ pc = "policy" /\ todo' = frozen /\ Authorize
  <2>1. CASE \/ SelectMember \/ ReadState \/ SubmitStop \/ Acknowledge \/ StateReadFails
             \/ ListProcesses \/ ReadStatus \/ ReadStat \/ SnapshotTaken \/ SnapshotFails
             \/ CheckRoot \/ Drain \/ Verify \/ ReadEvidence \/ Thaw \/ Finish
    BY <2>1 DEF SelectMember, ReadState, SubmitStop, Acknowledge, StateReadFails, StopNotFound,
                StopFailed, StopAcknowledged, ListProcesses, ReadStatus, ReadStat, SnapshotTaken,
                SnapshotFails, CheckRoot, Drain, Verify, ReadEvidence, Thaw, Finish, RefuseNow,
                Refuse, Delivering
  <2>2. CASE Authorize
    BY <2>2 DEF Authorize, RefuseNow, Refuse, Delivering
  <2>3. CASE Deliver \/ ContinueMember \/ ContinueGroup
    BY <2>3 DEF Deliver, ContinueMember, ContinueGroup
  <2>4. CASE Expire \/ Interrupt \/ Environment \/ UNCHANGED vars
    BY <2>4 DEF Expire, Interrupt, Others, Environment, vars, executorVars, controlVars, Delivering
  <2> QED
    BY <2>1, <2>2, <2>3, <2>4 DEF Next, Executor, Terminated
<1>2. UNCHANGED <<handle, frozen, node>>
  <2>1. pc \in {"deliver", "cont", "resume", "policy"}
    BY <1>1
  <2> QED
    BY <2>1 DEF Next, Executor, Terminated, SelectMember, ReadState, SubmitStop, Acknowledge,
                StateReadFails, ListProcesses, ReadStatus, ReadStat, SnapshotTaken, SnapshotFails,
                CheckRoot, Drain, Verify, ReadEvidence, Authorize, Deliver, ContinueMember,
                ContinueGroup, ContinueFrame, Thaw, Finish, Expire, Interrupt, Others,
                Environment, vars, executorVars, controlVars
<1>3. \/ Delivering /\ pid \in todo /\ pc \in {"deliver", "cont"}
      \/ pc = "policy" /\ pid \in frozen /\ Authorize
  BY <1>1 DEF Delivering, ContractInv, PromiseInv
<1>4. pid \in frozen /\ pid \in Pid
  BY <1>3 DEF ContractInv, IdentityInv, DeliveryInFrozen, TypeInv, TypeOK
<1>5. handle[pid] \in Proc /\ handle[pid] = node[pid].who
  BY <1>3, <1>4 DEF ContractInv, IdentityInv, VerifiedPinned, MembersKnown
<1>6. pc = "cont" => handle[pid] # handle[cur]
  <2>1. SUFFICES ASSUME pc = "cont" PROVE handle[pid] # handle[cur]
    OBVIOUS
  <2>2. cur \in frozen /\ cur # pid /\ Delivering
    BY <1>3, <2>1 DEF ContractInv, PromiseInv, Delivering
  <2>3. handle[pid] # NoProc
    BY <1>5, KernelAssumption
  <2> QED
    BY <1>4, <2>2, <2>3, MembersDiffer
<1> QED
  BY <1>2, <1>3, <1>4, <1>5, <1>6

LEMMA NextStill == ContractInv /\ CleanupInv /\ MembersStill /\ [Next]_vars => MembersStill'
<1> SUFFICES ASSUME ContractInv, CleanupInv, MembersStill, [Next]_vars PROVE MembersStill'
  OBVIOUS
<1>1. ASSUME NEW pid \in Pid, Still(handle[pid]), handle'[pid] = handle[pid], handle[pid] \in Proc,
             pc \notin {"resume", "thaw"}, pc = "cont" => handle[pid] # handle[cur]
      PROVE  Still(handle[pid])'
  BY <1>1, StillStays DEF Still, Resting
<1>2. ASSUME Preparing', NEW pid \in Recorded'
      PROVE  Still(handle[pid])'
  <2>1. Preparing
    BY <1>2, PreparesBefore
  <2>2. /\ handle'[pid] = handle[pid] /\ pid \in Pid
        /\ pid \in Recorded \/ (Taking /\ pid = cur /\ Resting(handle[cur]))
    BY <1>2, <2>1, RecordsStay
  <2>3. Still(handle[pid])
    BY <2>1, <2>2 DEF MembersStill, Still
  <2>4. CASE handle[pid] \in Proc
    BY <1>1, <2>1, <2>2, <2>3, <2>4 DEF Preparing, Gathering, Taking
  <2>5. CASE handle[pid] \notin Proc
    BY <1>2, <2>1, <2>2, <2>5, RecordedPinned
  <2> QED
    BY <2>4, <2>5
<1>3. ASSUME Delivering', NEW pid \in todo'
      PROVE  Still(handle[pid])'
  <2>1. /\ \/ Delivering /\ pid \in todo /\ pc \in {"deliver", "cont"}
           \/ pc = "policy" /\ pid \in frozen
        /\ pid \in Pid /\ handle'[pid] = handle[pid] /\ handle[pid] \in Proc
        /\ pc = "cont" => handle[pid] # handle[cur]
    BY <1>3, TurnsStay
  <2>2. Still(handle[pid])
    BY <2>1 DEF MembersStill, Preparing, Recorded
  <2> QED
    BY <1>1, <2>1, <2>2
<1> QED
  BY <1>2, <1>3 DEF MembersStill

\* A discovered member is below a frozen one.
LEMMA DiscoveredBelow ==
    ASSUME TypeOK, NEW pid \in UnfrozenMembers
    PROVE  DepthOf(pid) # 0
<1>1. CASE InTree
  <2>1. pid \in Pid /\ \E n \in Links : Hangs(pid, n)
    BY <1>1 DEF UnfrozenMembers, UnfrozenChildren
  <2> DEFINE n == CHOOSE n \in Links : Hangs(pid, n)
  <2>2. n \in Links /\ Hangs(pid, n)
    BY <2>1
  <2>3. DepthOf(pid) = node[Climb[n][pid]].depth + n
    BY <1>1 DEF DepthOf, InTree, InGroup
  <2> HIDE DEF n
  <2>4. n \in Nat \ {0}
    BY <2>2, FS_CardinalityType, KernelAssumption DEF Links
  <2>5. node[Climb[n][pid]].depth \in Nat
    BY <2>2 DEF Hangs, TypeOK, Node
  <2> QED
    BY <2>3, <2>4, <2>5
<1>2. CASE ~InTree
  BY <1>2, FreezeKillAssumption DEF TypeOK, Request, InTree, InGroup, DepthOf
<1> QED
  BY <1>1, <1>2

LEMMA NextDepths ==
    ContractInv /\ CleanupInv /\ DepthsPositive /\ [Next]_vars => DepthsPositive'
<1> SUFFICES ASSUME ContractInv, CleanupInv, DepthsPositive, [Next]_vars, Gathering', frozen' # {}
             PROVE  /\ \A pid \in work' : newDepth'[pid] # 0
                    /\ Taking' => newDepth'[cur'] # 0
  BY DEF DepthsPositive
<1>1. ASSUME work' = {}, ~Taking'
      PROVE  \A pid \in work' : newDepth'[pid] # 0
  BY <1>1
<1>2. ASSUME UNCHANGED newDepth, Gathering, frozen # {}, work' \subseteq work,
             Taking' => (Taking /\ UNCHANGED cur) \/ cur' \in work
      PROVE  /\ \A pid \in work' : newDepth'[pid] # 0
             /\ Taking' => newDepth'[cur'] # 0
  BY <1>2 DEF DepthsPositive
<1>3. CASE SelectMember
  BY <1>2, <1>3 DEF SelectMember, RefuseNow, Refuse, Gathering, Taking
<1>4. CASE ReadState \/ SubmitStop \/ Acknowledge
  <2>1. /\ Taking /\ UNCHANGED <<newDepth, work, cur>>
        /\ UNCHANGED frozen \/ frozen # {}
    BY <1>4 DEF ReadState, SubmitStop, Acknowledge, StopFrame, StopNotFound, StopFailed,
                StopAcknowledged, Refuse, Gathering, Taking
  <2> QED
    BY <1>2, <2>1 DEF Gathering
<1>5. CASE \/ ListProcesses \/ ReadStatus \/ ReadStat \/ SnapshotTaken \/ CheckRoot
           \/ (Drain /\ pc' # "select")
  <2>1. pc \in {"list", "read", "root", "drain"} /\ UNCHANGED work /\ ~Taking'
    BY <1>5 DEF ListProcesses, ReadStatus, ReadStat, SnapshotTaken, CheckRoot, Drain, ScanFrame,
                RefuseNow, Refuse, sweepVars, Taking
  <2>2. work = {}
    BY <2>1 DEF ContractInv, IdentityInv, WorkWaits, Gathering, Taking
  <2> QED
    BY <2>1, <2>2
<1>6. CASE Drain /\ pc' = "select"
  <2>1. /\ work' \subseteq UnfrozenMembers /\ ~Taking'
        /\ newDepth' = [pid \in Pid |-> IF pid \in work' THEN DepthOf(pid) ELSE 0]
    BY <1>6 DEF Drain, RefuseNow, Refuse, Taking
  <2>2. \A pid \in work' : pid \in Pid /\ DepthOf(pid) # 0
    BY <2>1, DepthType, DiscoveredBelow DEF ContractInv, TypeInv
  <2> QED
    BY <2>1, <2>2
<1>7. CASE \/ StateReadFails \/ SnapshotFails \/ Verify \/ ReadEvidence \/ Authorize
           \/ Deliver \/ ContinueMember \/ ContinueGroup \/ Thaw \/ Finish
  BY <1>7 DEF StateReadFails, StopFailed, SnapshotFails, Verify, ReadEvidence, Authorize, Deliver,
              ContinueMember, ContinueGroup, Thaw, Finish, RefuseNow, Refuse, Gathering, Taking
<1>8. CASE Expire \/ Interrupt \/ Environment \/ UNCHANGED vars
  BY <1>2, <1>8 DEF Expire, Interrupt, Others, Environment, vars, executorVars, controlVars,
                    stopVars, sweepVars, Gathering, Taking
<1> QED
  BY <1>3, <1>4, <1>5, <1>6, <1>7, <1>8 DEF Next, Executor, Terminated

LEMMA NextRootOnTop ==
    ContractInv /\ DepthsPositive /\ RootOnTop /\ [Next]_vars => RootOnTop'
<1> SUFFICES ASSUME ContractInv, DepthsPositive, RootOnTop, [Next]_vars,
                    Preparing' \/ Delivering', NEW pid \in frozen', node'[pid].depth = 0
             PROVE  node'[pid].who = RootProc
  BY DEF RootOnTop
<1> USE DEF Preparing, Gathering, Taking, Delivering
<1>0. TypeOK
  BY DEF ContractInv, TypeInv
<1>1. CASE UNCHANGED <<frozen, node>> /\ (Preparing \/ Delivering)
  BY <1>1 DEF RootOnTop
<1>2. CASE Acknowledge
  <2>1. CASE StopAcknowledged(Transitioned) /\ frozen # {}
    <3>1. newDepth[cur] # 0 /\ pc = "ack" /\ cur \in Pid /\ node \in [Pid -> Node]
      BY <1>0, <1>2, <2>1 DEF Acknowledge, DepthsPositive, TypeOK
    <3>2. frozen' = frozen \cup {cur} /\ \A m \in frozen : node'[m] = node[m] \/ m = cur
      BY <1>0, <2>1 DEF StopAcknowledged, TypeOK
    <3>3. node'[cur].depth # 0
      BY <2>1, <3>1 DEF StopAcknowledged, NodeOf, NodeAs
    <3> QED
      BY <3>1, <3>2, <3>3 DEF RootOnTop
  <2>2. CASE StopAcknowledged(Transitioned) /\ frozen = {}
    BY <2>2 DEF StopAcknowledged
  <2>3. CASE StopNotFound \/ \E cause : StopFailed(cause, Transitioned)
    BY <1>1, <1>2, <2>3 DEF Acknowledge, StopNotFound, StopFailed, Refuse
  <2> QED
    BY <1>2, <2>1, <2>2, <2>3 DEF Acknowledge
<1>3. CASE CheckRoot
  <2>1. pid = RootPid /\ node \in [Pid -> Node] /\ pc = "root"
    BY <1>0, <1>3 DEF CheckRoot, TypeOK
  <2>2. Shown(RootPid)
    BY <1>3 DEF CheckRoot, Refuse
  <2> QED
    BY <1>3, <2>1, <2>2, RootPidType DEF CheckRoot, NodeAs
<1>4. CASE Verify \/ ReadEvidence
  <2>1. ASSUME NEW known \in Node, NEW newName, NEW newForeign
        PROVE  /\ Refreshed(known, newName, newForeign).depth = known.depth
               /\ Refreshed(known, newName, newForeign).who = known.who
    BY DEF Node, Refreshed
  <2>2. Preparing /\ UNCHANGED frozen /\ pid \in Pid /\ node \in [Pid -> Node]
    BY <1>0, <1>4 DEF Verify, ReadEvidence, TypeOK
  <2>3. node'[pid].depth = node[pid].depth /\ node'[pid].who = node[pid].who
    <3>1. CASE Verify
      BY <2>1, <2>2, <3>1 DEF Verify
    <3>2. CASE ReadEvidence
      BY <2>1, <2>2, <3>2 DEF ReadEvidence
    <3> QED
      BY <1>4, <3>1, <3>2
  <2> QED
    BY <2>2, <2>3 DEF RootOnTop
<1>5. CASE SelectMember \/ ReadState \/ SubmitStop
  BY <1>1, <1>5 DEF SelectMember, ReadState, SubmitStop, StopNotFound, StopFailed, Refuse
<1>6. CASE \/ ListProcesses \/ ReadStatus \/ ReadStat \/ SnapshotTaken \/ Drain \/ Authorize
           \/ Deliver \/ ContinueMember \/ ContinueGroup
  BY <1>1, <1>6 DEF ListProcesses, ReadStatus, ReadStat, SnapshotTaken, Drain, Authorize, Deliver,
                    ContinueMember, ContinueGroup, ContinueFrame, ScanFrame
<1>7. CASE StateReadFails \/ SnapshotFails \/ Thaw \/ Finish
  BY <1>7 DEF StateReadFails, StopFailed, SnapshotFails, Thaw, Finish, Refuse
<1>8. CASE Expire \/ Interrupt \/ Environment \/ UNCHANGED vars
  BY <1>1, <1>8 DEF Expire, Interrupt, Others, Environment, vars, executorVars, controlVars
<1> QED
  BY <1>2, <1>3, <1>4, <1>5, <1>6, <1>7, <1>8 DEF Next, Executor, Terminated

LEMMA NextHalf ==
    ContractInv /\ CleanupInv /\ MembersStill /\ HalfIsOpen /\ HalfFresh /\ [Next]_vars
        => HalfIsOpen' /\ HalfFresh'
<1> SUFFICES ASSUME ContractInv, CleanupInv, MembersStill, HalfIsOpen, HalfFresh, [Next]_vars
             PROVE  HalfIsOpen' /\ HalfFresh'
  OBVIOUS
<1>0. TypeOK
  BY DEF ContractInv, TypeInv
<1>1. ASSUME ~half'.read PROVE HalfIsOpen' /\ HalfFresh'
  BY <1>1 DEF HalfIsOpen, HalfFresh
<1>2. CASE ReadStatus
  <2>1. CASE UNCHANGED half
    BY <1>1, <1>2, <2>1 DEF ReadStatus
  <2>2. CASE ~UNCHANGED half
    <3>1. PICK pid \in listing :
            /\ NextListed(pid) /\ Occupant(pid) # NoProc
            /\ half' = [parent |-> ParentPid(Occupant(pid)),
                        foreign |-> name[Occupant(pid)] \in Foreign, read |-> TRUE]
            /\ pc' = "read" /\ UNCHANGED <<listing, frozen, handle, kernelVars>>
      BY <1>2, <2>2 DEF ReadStatus, ScanFrame
    <3>2. HalfIsOpen'
      BY <3>1 DEF HalfIsOpen
    <3>3. ASSUME NEW m \in frozen, NextListed(m), Has(m, handle[m])
          PROVE  Occupant(pid) = handle[m]
      <4>1. m = pid
        <5>1. m \in listing /\ pid \in listing /\ m <= pid /\ pid <= m
          BY <3>1, <3>3 DEF NextListed
        <5>2. m \in Nat /\ pid \in Nat
          BY <1>0, <5>1, KernelAssumption DEF TypeOK
        <5> QED
          BY <5>1, <5>2
      <4>2. handle[m] \in Proc
        BY <3>3 DEF Has
      <4> QED
        BY <3>3, <4>1, <4>2, OccupantIs DEF ContractInv, IdentityInv
    <3>4. HalfFresh'
      <4>1. half'.foreign = (name[Occupant(pid)] \in Foreign)
        BY <3>1
      <4> QED
        BY <3>1, <3>3, <4>1 DEF HalfFresh, NextListed, Has, kernelVars
    <3> QED
      BY <3>2, <3>4
  <2> QED
    BY <2>1, <2>2
<1>3. CASE ReadStat \/ SnapshotFails
  BY <1>1, <1>3 DEF ReadStat, SnapshotFails, NoHalf
<1>4. CASE SnapshotTaken
  BY <1>1, <1>4 DEF SnapshotTaken, HalfIsOpen
<1>5. CASE \/ SelectMember \/ ReadState \/ SubmitStop \/ Acknowledge \/ StateReadFails
           \/ ListProcesses \/ CheckRoot \/ Drain \/ Verify \/ ReadEvidence \/ Authorize
           \/ Deliver \/ ContinueMember \/ ContinueGroup \/ Thaw \/ Finish
  <2>1. pc # "read" /\ UNCHANGED half
    BY <1>5 DEF SelectMember, ReadState, SubmitStop, Acknowledge, StateReadFails, StopFrame,
                ListProcesses, CheckRoot, Drain, Verify, ReadEvidence, Authorize, Deliver,
                ContinueMember, ContinueGroup, ContinueFrame, Thaw, Finish, scanVars
  <2> QED
    BY <1>1, <2>1 DEF HalfIsOpen
<1>6. CASE Expire \/ Interrupt \/ Environment \/ UNCHANGED vars
  <2>1. UNCHANGED <<pc, half, listing, frozen, handle>>
    BY <1>6 DEF Expire, Interrupt, Others, Environment, vars, executorVars, controlVars, scanVars
  <2>2. ASSUME half.read, NEW m \in frozen, NextListed(m), Has(m, handle[m])',
               handle[m] \notin meddled'
        PROVE  half.foreign = (name'[handle[m]] \in Foreign)
    <3>1. pc = "read" /\ m \in Pid /\ m \in Recorded
      BY <1>0, <2>2 DEF HalfIsOpen, TypeOK, Recorded
    <3>2. handle[m] \in Proc /\ Still(handle[m])
      BY <3>1, RecordedPinned DEF MembersStill, Preparing, Gathering
    <3>3. /\ handle[m] \notin meddled /\ name'[handle[m]] = name[handle[m]]
          /\ status'[handle[m]] \in Present => status[handle[m]] \in Present
      <4>1. pc \notin {"resume", "thaw", "cont"}
        BY <3>1
      <4>2. handle[m] \notin meddled
        BY <2>2, <3>2, NextMoves DEF Moves
      <4> QED
        BY <2>2, <3>2, <4>1, <4>2, StillStays
    <3>4. Has(m, handle[m])
      BY <2>1, <2>2, <3>3 DEF Has
    <3> QED
      BY <2>2, <3>3, <3>4 DEF HalfFresh
  <2> QED
    BY <2>1, <2>2 DEF HalfIsOpen, HalfFresh, NextListed, Has
<1> QED
  BY <1>2, <1>3, <1>4, <1>5, <1>6 DEF Next, Executor, Terminated

\* A recorded member that nobody else has moved keeps its name and its group.
LEMMA RecordedNames ==
    ASSUME ContractInv, CleanupInv, MembersStill, [Next]_vars, Preparing,
           NEW pid \in Recorded, pid \in Pid, handle[pid] \notin meddled'
    PROVE  /\ handle[pid] \notin meddled
           /\ name'[handle[pid]] = name[handle[pid]] /\ pgrp'[handle[pid]] = pgrp[handle[pid]]
<1>1. handle[pid] \in Proc /\ Still(handle[pid])
  BY RecordedPinned DEF MembersStill
<1>2. handle[pid] \notin meddled
  BY <1>1, NextMoves DEF Moves
<1>3. pc \notin {"resume", "thaw", "cont"}
  BY DEF Preparing, Gathering, Taking
<1> QED
  BY <1>1, <1>2, <1>3, StillStays

LEMMA NextRows ==
    ContractInv /\ CleanupInv /\ MembersStill /\ HalfFresh /\ RowsFresh /\ [Next]_vars
        => RowsFresh'
<1> SUFFICES ASSUME ContractInv, CleanupInv, MembersStill, HalfFresh, RowsFresh, [Next]_vars,
                    pc' \in {"read", "drain", "verify"}, ~found', NEW m \in frozen',
                    snap'[m] # NoRow, snap'[m].who = handle'[m], handle'[m] \notin meddled'
             PROVE  snap'[m].foreign = (name'[handle'[m]] \in Foreign)
  BY DEF RowsFresh
<1>0. TypeOK
  BY DEF ContractInv, TypeInv
<1>1. ASSUME pc \in {"read", "drain", "verify"}, ~found, UNCHANGED <<frozen, handle>>,
             snap'[m] = snap[m]
      PROVE  snap'[m].foreign = (name'[handle'[m]] \in Foreign)
  <2>1. m \in Pid /\ m \in Recorded /\ Preparing
    BY <1>0, <1>1 DEF TypeOK, Recorded, Preparing, Gathering
  <2>2. handle[m] \notin meddled /\ name'[handle[m]] = name[handle[m]]
    BY <1>1, <2>1, RecordedNames
  <2> QED
    BY <1>1, <2>2 DEF RowsFresh
<1>2. CASE ReadStat
  <2>1. PICK pid \in listing :
          /\ NextListed(pid) /\ half.read
          /\ \/ UNCHANGED snap
             \/ /\ Occupant(pid) # NoProc
                /\ snap' = [snap EXCEPT ![pid] =
                     [who |-> Occupant(pid), parent |-> half.parent, pgrp |-> pgrp[Occupant(pid)],
                      name |-> name[Occupant(pid)], foreign |-> half.foreign]]
    BY <1>2 DEF ReadStat
  <2>2. /\ pc = "read" /\ ~found /\ UNCHANGED <<frozen, handle, name, meddled>>
        /\ m \in Pid /\ snap \in [Pid -> Row]
    BY <1>0, <1>2 DEF ReadStat, ScanFrame, sweepVars, kernelVars, TypeOK
  <2>3. CASE snap'[m] = snap[m]
    BY <1>1, <2>2, <2>3
  <2>4. CASE snap'[m] # snap[m]
    <3>1. /\ m = pid /\ Occupant(m) # NoProc
          /\ snap'[m].who = Occupant(m) /\ snap'[m].foreign = half.foreign
      BY <2>1, <2>2, <2>4
    <3>2. Has(m, handle[m])
      BY <2>2, <3>1, OccupantHolds
    <3> QED
      BY <2>1, <2>2, <3>1, <3>2 DEF HalfFresh
  <2> QED
    BY <2>3, <2>4
<1>3. CASE ListProcesses
  BY <1>0, <1>3 DEF ListProcesses, RefuseNow, Refuse, TypeOK
<1>4. CASE ReadStatus \/ SnapshotTaken \/ Drain
  BY <1>1, <1>4 DEF ReadStatus, SnapshotTaken, Drain, ScanFrame, RefuseNow, Refuse, sweepVars,
                    scanVars
<1>5. CASE SelectMember \/ ReadState \/ SubmitStop \/ Acknowledge
  <2>1. (pc = "select" \/ Taking) /\ frozen # {}
    BY <1>5 DEF SelectMember, ReadState, SubmitStop, Acknowledge, StopNotFound, StopFailed,
                StopAcknowledged, RefuseNow, Refuse, Taking
  <2>2. found /\ found' = found
    BY <1>5, <2>1 DEF SelectMember, ReadState, SubmitStop, Acknowledge, StopFrame, ContractInv,
                      IdentityInv, StopsFound
  <2> QED
    BY <2>2
<1>6. CASE \/ StateReadFails \/ SnapshotFails \/ CheckRoot \/ Verify \/ ReadEvidence \/ Authorize
           \/ Deliver \/ ContinueMember \/ ContinueGroup \/ Thaw \/ Finish
  BY <1>6 DEF StateReadFails, StopFailed, SnapshotFails, CheckRoot, Verify, ReadEvidence, Authorize,
              Deliver, ContinueMember, ContinueGroup, Thaw, Finish, RefuseNow, Refuse
<1>7. CASE Expire \/ Interrupt \/ Environment \/ UNCHANGED vars
  BY <1>1, <1>7 DEF Expire, Interrupt, Others, Environment, vars, executorVars, controlVars,
                    scanVars, sweepVars
<1> QED
  BY <1>2, <1>3, <1>4, <1>5, <1>6, <1>7 DEF Next, Executor, Terminated

\* What was read of a member when it was judged stays true: it is stopped.
LEMMA JudgedStay ==
    ASSUME ContractInv, CleanupInv, MembersStill, [Next]_vars, NEW pid \in Judged', pid \in Judged,
           UNCHANGED handle, handle[pid] \notin meddled'
    PROVE  /\ handle[pid] \notin meddled
           /\ name'[handle[pid]] = name[handle[pid]] /\ pgrp'[handle[pid]] = pgrp[handle[pid]]
<1>1. CASE Delivering'
  <2>1. pid \in todo' /\ pc' \notin {"evidence", "policy"}
    BY <1>1 DEF Judged, Delivering
  <2>2. /\ \/ Delivering /\ pid \in todo /\ pc \in {"deliver", "cont"}
           \/ pc = "policy" /\ pid \in frozen
        /\ handle[pid] \in Proc
        /\ pc = "cont" => handle[pid] # handle[cur]
    BY <1>1, <2>1, TurnsStay
  <2>3. Still(handle[pid])
    BY <2>2 DEF MembersStill, Preparing, Recorded
  <2>4. handle[pid] \notin meddled
    BY <2>2, NextMoves DEF Moves
  <2> QED
    BY <2>2, <2>3, <2>4, StillStays
<1>2. CASE ~Delivering'
  <2>1. pc' \in {"evidence", "policy"}
    BY <1>2 DEF Judged
  <2>2. Preparing /\ pid \in frozen /\ pc \in {"evidence", "policy"}
    <3>1. Preparing
      BY <2>1, PreparesBefore DEF Preparing
    <3> QED
      BY <3>1 DEF Preparing, Gathering, Taking, Delivering, Judged
  <2>3. pid \in Recorded /\ pid \in Pid
    BY <2>2 DEF Recorded, ContractInv, TypeInv, TypeOK
  <2> QED
    BY <2>2, <2>3, RecordedNames
<1> QED
  BY <1>1, <1>2

LEMMA NextJudged ==
    ContractInv /\ CleanupInv /\ MembersStill /\ RowsFresh /\ OwnerKnown /\ NameKnown
      /\ [Next]_vars
        => OwnerKnown' /\ NameKnown'
<1> SUFFICES ASSUME ContractInv, CleanupInv, MembersStill, RowsFresh, OwnerKnown, NameKnown,
                    [Next]_vars
             PROVE  OwnerKnown' /\ NameKnown'
  OBVIOUS
<1>0. TypeOK
  BY DEF ContractInv, TypeInv
<1>1. CASE Judged' = {}
  BY <1>1 DEF OwnerKnown, NameKnown
<1>2. CASE Verify
  <2>1. CASE pc' # "evidence"
    BY <1>1, <1>2, <2>1 DEF Verify, RefuseNow, Refuse, Judged, Delivering
  <2>2. CASE pc' = "evidence"
    <3>1. /\ pc = "verify" /\ Judged' = frozen /\ todo' = frozen
          /\ UNCHANGED <<name, meddled>>
          /\ \A pid \in frozen : IdentityHolds(pid) /\ Pinned(pid) # NoProc
          /\ handle' = [pid \in Pid |-> IF pid \in frozen THEN Pinned(pid) ELSE handle[pid]]
          /\ node' = [pid \in Pid |->
               IF pid \in frozen THEN Refreshed(node[pid], snap[pid].name, snap[pid].foreign)
               ELSE node[pid]]
      BY <1>2, <2>2 DEF Verify, RefuseNow, Refuse, Judged, kernelVars
    <3>2. ASSUME NEW pid \in frozen, handle'[pid] \notin meddled
          PROVE  node'[pid].foreign = (name[handle'[pid]] \in Foreign)
      <4>1. pid \in Pid /\ node[pid] \in Node
        BY <1>0 DEF TypeOK
      <4>2. handle'[pid] = handle[pid]
        BY <3>1, <4>1 DEF Pinned, ContractInv, IdentityInv, FrozenPinned, Gathering
      <4>3. snap[pid] # NoRow /\ snap[pid].who = node[pid].who /\ ~found
        BY <3>1 DEF IdentityHolds, Shown, ContractInv, IdentityInv, StopsFound
      <4>4. snap[pid].who = handle[pid]
        BY <3>1, <4>3 DEF ContractInv, IdentityInv, RowsMatch
      <4>5. snap[pid].foreign = (name[handle[pid]] \in Foreign)
        BY <3>1, <3>2, <4>2, <4>3, <4>4 DEF RowsFresh
      <4>6. node'[pid].foreign = snap[pid].foreign
        BY <3>1, <4>1 DEF Refreshed, Node
      <4> QED
        BY <4>2, <4>5, <4>6
    <3>3. OwnerKnown'
      BY <3>1, <3>2 DEF OwnerKnown
    <3>4. NameKnown'
      BY <2>2, <3>1 DEF NameKnown
    <3> QED
      BY <3>3, <3>4
  <2> QED
    BY <2>1, <2>2
<1>3. CASE ReadEvidence
  <2>1. CASE pc' \notin {"evidence", "policy"}
    BY <1>1, <1>3, <2>1 DEF ReadEvidence, RefuseNow, Refuse, Judged, Delivering
  <2>2. CASE pc' \in {"evidence", "policy"}
    <3>1. PICK m \in todo :
            /\ Has(m, node[m].who) /\ pc = "evidence" /\ todo' = todo \ {m}
            /\ node' = [node EXCEPT ![m] = Refreshed(@, name[@.who], @.foreign)]
            /\ pc' = IF todo' = {} THEN "policy" ELSE pc
            /\ UNCHANGED <<name, meddled, frozen, handle>>
      BY <1>3, <2>2 DEF ReadEvidence, RefuseNow, Refuse, kernelVars
    <3>2. m \in Pid /\ node \in [Pid -> Node] /\ frozen \subseteq Pid
      BY <1>0, <3>1 DEF TypeOK
    <3>3. /\ node'[m].foreign = node[m].foreign /\ node'[m].name = name[node[m].who]
          /\ \A pid \in Pid : pid # m => node'[pid] = node[pid]
      <4>1. node[m] \in Node /\ node'[m] = Refreshed(node[m], name[node[m].who], node[m].foreign)
        BY <3>1, <3>2
      <4> QED
        BY <3>1, <3>2, <4>1 DEF Refreshed, Node
    <3>4. Judged = frozen /\ Judged' = frozen
      BY <2>2, <3>1 DEF Judged
    <3>5. OwnerKnown'
      BY <3>1, <3>2, <3>3, <3>4 DEF OwnerKnown
    <3>6. NameKnown'
      <4>1. SUFFICES ASSUME NEW pid \in frozen, pid \notin todo', handle[pid] \notin meddled
                     PROVE  node'[pid].name = name[handle[pid]]
        BY <2>2, <3>1, <3>4 DEF NameKnown
      <4>2. CASE pid = m
        BY <3>1, <3>3, <4>1, <4>2 DEF ContractInv, IdentityInv, VerifiedPinned
      <4>3. CASE pid # m
        BY <3>1, <3>2, <3>3, <3>4, <4>1, <4>3 DEF NameKnown
      <4> QED
        BY <4>2, <4>3
    <3> QED
      BY <3>5, <3>6
  <2> QED
    BY <2>1, <2>2
<1>4. ASSUME UNCHANGED <<handle, frozen, node>>, Judged' \subseteq Judged,
             pc' = "evidence" => pc = "evidence" /\ todo' = todo,
             pc = "evidence" => pc' = "evidence"
      PROVE  OwnerKnown' /\ NameKnown'
  <2>1. ASSUME NEW pid \in Judged', handle'[pid] \notin meddled'
        PROVE  /\ pid \in Judged /\ handle'[pid] = handle[pid] /\ node'[pid] = node[pid]
               /\ handle[pid] \notin meddled /\ name'[handle[pid]] = name[handle[pid]]
    BY <1>4, <2>1, JudgedStay
  <2>2. OwnerKnown'
    BY <2>1 DEF OwnerKnown
  <2>3. NameKnown'
    BY <1>4, <2>1 DEF NameKnown
  <2> QED
    BY <2>2, <2>3
<1>5. CASE Authorize
  <2>1. CASE pc' = "deliver"
    <3>1. pc = "policy" /\ todo' = frozen /\ UNCHANGED <<handle, frozen, node>>
      BY <1>5, <2>1 DEF Authorize, RefuseNow, Refuse
    <3> QED
      BY <1>4, <2>1, <3>1 DEF Judged, Delivering
  <2> QED
    BY <1>1, <1>5, <2>1 DEF Authorize, RefuseNow, Refuse, Judged, Delivering
<1>6. CASE Deliver \/ ContinueMember \/ ContinueGroup
  <2>1. /\ pc \in {"deliver", "cont", "resume"}
        /\ UNCHANGED <<handle, frozen, node>> /\ todo' \subseteq todo
        /\ pc' \in {"deliver", "cont", "resume", "done"}
    BY <1>6 DEF Deliver, ContinueMember, ContinueGroup, ContinueFrame
  <2> QED
    BY <1>4, <2>1 DEF Judged, Delivering
<1>7. CASE \/ SelectMember \/ ReadState \/ SubmitStop \/ Acknowledge \/ StateReadFails
           \/ ListProcesses \/ ReadStatus \/ ReadStat \/ SnapshotTaken \/ SnapshotFails
           \/ CheckRoot \/ Drain \/ Thaw \/ Finish
  <2>1. pc' \notin {"evidence", "policy", "deliver", "cont", "resume"}
    BY <1>7 DEF SelectMember, ReadState, SubmitStop, Acknowledge, StateReadFails, StopNotFound,
                StopFailed, StopAcknowledged, ListProcesses, ReadStatus, ReadStat, SnapshotTaken,
                SnapshotFails, CheckRoot, Drain, Thaw, Finish, RefuseNow, Refuse
  <2> QED
    BY <1>1, <2>1 DEF Judged, Delivering
<1>8. CASE Expire \/ Interrupt \/ Environment \/ UNCHANGED vars
  <2>1. UNCHANGED <<pc, todo, handle, frozen, node>>
    BY <1>8 DEF Expire, Interrupt, Others, Environment, vars, executorVars, controlVars
  <2> QED
    BY <1>4, <2>1 DEF Judged, Delivering
<1> QED
  BY <1>2, <1>3, <1>5, <1>6, <1>7, <1>8 DEF Next, Executor, Terminated

\* What the policy let through is what delivery goes by.
LEMMA NextPassed == ContractInv /\ PolicyPassed /\ [Next]_vars => PolicyPassed'
<1> SUFFICES ASSUME ContractInv, PolicyPassed, [Next]_vars, Delivering' PROVE PolicyPassed'
  BY DEF PolicyPassed
<1>0. TypeOK
  BY DEF ContractInv, TypeInv
<1>1. CASE Authorize
  <2>1. Verdict = "none" /\ UNCHANGED <<frozen, node, request>>
    BY <1>1 DEF Authorize, RefuseNow, Refuse, Delivering
  <2>2. /\ ProtectedDescendants = {}
        /\ request.auth # "protectedTyped" =>
             ~ \E pid \in frozen : node[pid].depth = 0 /\ node[pid].name \in Protected
        /\ ~(request.auth = "skipped" /\ NeedsPrompt)
    BY <2>1 DEF Verdict
  <2>3. ASSUME NEW pid \in frozen
        PROVE  /\ node[pid].name \in Protected
                    => node[pid].depth = 0 /\ request.auth = "protectedTyped"
               /\ request.auth = "skipped" => node[pid].name \notin SystemName /\ ~node[pid].foreign
    <3>1. node[pid].depth \in Nat
      BY <1>0 DEF TypeOK, Node
    <3>2. node[pid].name \in Protected => node[pid].depth = 0
      BY <2>2, <3>1 DEF ProtectedDescendants
    <3>3. request.auth = "skipped" => ~IsSystem(pid) /\ ~node[pid].foreign
      BY <2>2 DEF NeedsPrompt
    <3> QED
      BY <2>2, <3>2, <3>3 DEF IsSystem
  <2> QED
    BY <2>1, <2>3 DEF PolicyPassed
<1>2. CASE Deliver \/ ContinueMember \/ ContinueGroup
  <2>1. Delivering /\ UNCHANGED <<frozen, node, request>>
    BY <1>2 DEF Deliver, ContinueMember, ContinueGroup, ContinueFrame, Delivering
  <2> QED
    BY <2>1 DEF PolicyPassed
<1>3. CASE \/ SelectMember \/ ReadState \/ SubmitStop \/ Acknowledge \/ StateReadFails
           \/ ListProcesses \/ ReadStatus \/ ReadStat \/ SnapshotTaken \/ SnapshotFails
           \/ CheckRoot \/ Drain \/ Verify \/ ReadEvidence \/ Thaw \/ Finish
  BY <1>3 DEF SelectMember, ReadState, SubmitStop, Acknowledge, StateReadFails, StopNotFound,
              StopFailed, StopAcknowledged, ListProcesses, ReadStatus, ReadStat, SnapshotTaken,
              SnapshotFails, CheckRoot, Drain, Verify, ReadEvidence, Thaw, Finish, RefuseNow,
              Refuse, Delivering
<1>4. CASE Expire \/ Interrupt \/ Environment \/ UNCHANGED vars
  BY <1>4 DEF Expire, Interrupt, Others, Environment, vars, executorVars, controlVars, Delivering,
              PolicyPassed
<1> QED
  BY <1>1, <1>2, <1>3, <1>4 DEF Next, Executor, Terminated

LEMMA NextPolicy == ContractInv /\ CleanupInv /\ PolicyInv /\ [Next]_vars => PolicyInv'
BY NextStill, NextDepths, NextRootOnTop, NextHalf, NextRows, NextJudged, NextPassed DEF PolicyInv

LEMMA InitPolicy == Init => PolicyInv
<1> SUFFICES ASSUME Init PROVE PolicyInv
  OBVIOUS
<1>1. pc = "select" /\ frozen = {} /\ half = NoHalf
  BY DEF Init
<1> QED
  BY <1>1 DEF PolicyInv, MembersStill, Recorded, Delivering, DepthsPositive, RootOnTop, HalfIsOpen,
              HalfFresh, RowsFresh, OwnerKnown, NameKnown, Judged, PolicyPassed, NoHalf

LEMMA OnlyDeliverSignals == [Next]_vars => UNCHANGED signalled \/ Deliver
<1>1. CASE Looking
  BY <1>1, LookingTouchesNobody DEF signalVars
<1>2. CASE SubmitStop \/ ContinueMember \/ ContinueGroup \/ Thaw \/ Environment
  BY <1>2 DEF SubmitStop, StopFrame, ContinueMember, ContinueGroup, Thaw, ContinueFrame,
              Environment, controlVars, signalVars
<1> QED
  BY <1>1, <1>2 DEF Next, Executor, Terminated, Looking

\* The policy of check_tree_policy (execute.rs 819-894), checked on what was read some
\* steps before, holds of every process at the moment it is signalled.
THEOREM PolicyIsHeld == Spec => PolicyHeldAtDelivery
<1> DEFINE Inv == ContractInv /\ CleanupInv /\ PolicyInv
           Held == \A p \in signalled' \ (signalled \cup meddled) :
                     /\ name[p] \in Protected => p = RootProc /\ request.auth = "protectedTyped"
                     /\ request.auth = "skipped" => name[p] \notin Foreign \cup SystemName
<1>1. Init => Inv
  BY InitContract, InitCleanup, InitPolicy
<1>2. Inv /\ [Next]_vars => Inv'
  BY NextContract, NextCleanup, NextPolicy
<1>3. Inv /\ [Next]_vars => [Held]_vars
  <2> SUFFICES ASSUME Inv, Deliver, NEW p \in signalled' \ (signalled \cup meddled)
               PROVE  /\ name[p] \in Protected
                           => p = RootProc /\ request.auth = "protectedTyped"
                      /\ request.auth = "skipped" => name[p] \notin Foreign \cup SystemName
    BY OnlyDeliverSignals
  <2>1. PICK pid \in todo : p = handle[pid] /\ pc = "deliver"
    BY DEF Deliver, DeliveryTarget
  <2>2. pid \in Judged /\ pid \in frozen /\ Delivering
    BY <2>1 DEF Judged, Delivering, ContractInv, IdentityInv, DeliveryInFrozen
  <2>3. node[pid].who = p
    BY <2>1, <2>2 DEF ContractInv, IdentityInv, VerifiedPinned
  <2>4. node[pid].name = name[p] /\ node[pid].foreign = (name[p] \in Foreign)
    BY <2>1, <2>2 DEF PolicyInv, NameKnown, OwnerKnown
  <2>5. node[pid].depth = 0 => p = RootProc
    BY <2>2, <2>3 DEF PolicyInv, RootOnTop
  <2> QED
    BY <2>2, <2>4, <2>5 DEF PolicyInv, PolicyPassed
<1> HIDE DEF Inv, Held
<1>4. Spec => [][Held]_vars
  BY <1>1, <1>2, <1>3, PTL DEF Spec
<1> QED
  BY <1>4 DEF PolicyHeldAtDelivery, Held

-----------------------------------------------------------------------------
\* Parents, through the steps of the executor

\* Signals change nobody's parent, and neither end nor begin anybody's life.
LEMMA SignalKin ==
    ASSUME ParentsAlive, UNCHANGED parent,
           \A p \in Proc : status'[p] = status[p] \/ (status[p] \in Live /\ status'[p] \in Live)
    PROVE  ParentsAlive' /\ \A p \in Proc : KinOf(p)
BY DEF ParentsAlive, KinOf, Present, Live, Active

LEMMA ContinueLives ==
    ASSUME TypeOK, NEW pid, Continue(pid), NEW p \in Proc
    PROVE  status'[p] = status[p] \/ (status[p] \in Live /\ status'[p] \in Live)
<1>1. CASE UNCHANGED status
  BY <1>1
<1>2. CASE /\ ~Gone(Pinned(pid))
           /\ status' = [status EXCEPT ![Pinned(pid)] = ContStatus(Pinned(pid))]
  BY <1>2 DEF Gone, ContStatus, TypeOK, KernelTypeOK, Live, Active
<1> QED
  BY <1>1, <1>2 DEF Continue

LEMMA NextKin ==
    ASSUME ContractInv, ParentsAlive, [Next]_vars
    PROVE  ParentsAlive' /\ \A p \in Proc : KinOf(p)
<1>0. TypeOK /\ KernelTypeOK
  BY DEF ContractInv, TypeInv, TypeOK
<1>1. CASE Looking \/ Deliver
  <2>1. UNCHANGED <<status, parent>>
    BY <1>1, LookingTouchesNobody DEF Deliver
  <2> QED
    BY <2>1, SignalKin
<1>2. CASE SubmitStop
  <2>1. UNCHANGED parent
    BY <1>2, SubmitReaches
  <2>2. \A p \in Proc : status'[p] = status[p] \/ (status[p] \in Live /\ status'[p] \in Live)
    BY <1>0, <1>2, SubmitReaches DEF StopStatus, KernelTypeOK, Live, Active
  <2> QED
    BY <2>1, <2>2, SignalKin
<1>3. CASE ContinueMember \/ ContinueGroup \/ Thaw
  <2>1. UNCHANGED parent
    BY <1>3 DEF ContinueMember, ContinueGroup, Thaw, ContinueFrame
  <2>2. UNCHANGED status \/ \E pid : Continue(pid)
    BY <1>3 DEF ContinueMember, ContinueGroup, Thaw
  <2>3. \A p \in Proc : status'[p] = status[p] \/ (status[p] \in Live /\ status'[p] \in Live)
    BY <1>0, <2>2, ContinueLives
  <2> QED
    BY <2>1, <2>3, SignalKin
<1>4. CASE Environment
  BY <1>0, <1>4, KernelStepKin DEF Environment
<1> QED
  BY <1>1, <1>2, <1>3, <1>4 DEF Next, Executor, Terminated, Looking

-----------------------------------------------------------------------------
\* The closing snapshot
\*
\* The last snapshot of a sweep is the one that finds nobody.  Until delivery begins,
\* everything else is decided on it.

Closing == pc \in {"read", "drain", "verify"} /\ ~found
Settled == pc \in {"evidence", "policy"} \/ (pc = "deliver" /\ todo = frozen)
OnSnapshot == Closing \/ Settled

\* Whoever was there when the snapshot was begun, and is still there, is going to be
\* read or has been.
Shows(p) == snap[PidOf[p]].who = p
Seen(p) == (pc = "read" /\ PidOf[p] \in listing) \/ Shows(p)
ListedUnread == pc = "read" => \A pid \in listing : snap[pid] = NoRow

\* Nothing vanished in a pass that finds nobody.
PassClean == Gathering /\ vanished # {} => found

\* The root is recorded first, and stays so.
RootHeld == (Gathering /\ frozen # {}) \/ Settled =>
    RootPid \in frozen /\ node[RootPid].who = RootProc

\* Members of the group since the snapshot was begun are shown in it.
StayedShown == OnSnapshot /\ InGroup => \A p \in stayed :
    /\ status[p] \in Live /\ pgrp[p] = TargetGroup /\ Seen(p)
    /\ Shows(p) => snap[PidOf[p]].pgrp = TargetGroup

\* So are the children of a stopped member: it gets no new ones.
ChildOf(p, pid) == status[p] \in Present /\ parent[p] = handle[pid] /\ handle[pid] \notin meddled
ChildrenShown == OnSnapshot => \A p \in Proc, pid \in frozen :
    ChildOf(p, pid) => Seen(p) /\ (Shows(p) => snap[PidOf[p]].parent = pid)
HalfOfChild == Closing /\ half.read => \A p \in Proc, pid \in frozen :
    ChildOf(p, pid) /\ NextListed(PidOf[p]) => half.parent = pid

\* Whom the verification lets pass, the snapshot shows, and nobody else of the scope.
NobodyLeft == pc = "verify" \/ Settled => \A pid \in Pid \ frozen :
    snap[pid] # NoRow => IF InTree THEN snap[pid].parent \notin frozen
                         ELSE snap[pid].pgrp # TargetGroup
MembersShown == Settled => \A pid \in frozen : snap[pid].who = node[pid].who

ClosedInv == /\ ParentsAlive /\ ListedUnread /\ PassClean /\ RootHeld /\ StayedShown
             /\ ChildrenShown /\ HalfOfChild /\ NobodyLeft /\ MembersShown

\* What a closing snapshot is decided on does not change while it is read and judged.
SameScope ==
    /\ OnSnapshot /\ UNCHANGED <<request, frozen>>
    /\ \A pid \in frozen :
          /\ handle'[pid] = handle[pid] /\ node'[pid].who = node[pid].who
          /\ node'[pid].parent = node[pid].parent /\ node'[pid].depth = node[pid].depth
Opens == /\ ListProcesses /\ pc = "list" /\ pc' = "read" /\ listing' = PresentPids
         /\ snap' = [pid \in Pid |-> NoRow] /\ stayed' = TrueMembers
         /\ UNCHANGED <<kernelVars, request, handle, frozen, node, half>>
Decides == /\ \/ SnapshotTaken /\ pc' = "drain"
              \/ Drain /\ pc' = "verify"
              \/ Verify /\ pc' = "evidence"
              \/ ReadEvidence /\ pc' \in {"evidence", "policy"}
              \/ Authorize /\ pc' = "deliver"
           /\ pc' # "read" /\ (pc = "read" => listing = {})
           /\ UNCHANGED <<kernelVars, half, snap, stayed>>
Waits == /\ Expire \/ Interrupt \/ UNCHANGED vars \/ Environment
         /\ UNCHANGED <<pc, listing, half, snap, todo, found, node>>
         /\ Environment \/ UNCHANGED <<kernelVars, stayed>>

LEMMA RefreshedKeeps ==
    ASSUME NEW known \in Node, NEW newName, NEW newForeign
    PROVE  /\ Refreshed(known, newName, newForeign).who = known.who
           /\ Refreshed(known, newName, newForeign).parent = known.parent
           /\ Refreshed(known, newName, newForeign).depth = known.depth
BY DEF Node, Refreshed

LEMMA SnapshotSteps ==
    ASSUME ContractInv, HalfIsOpen, [Next]_vars, OnSnapshot'
    PROVE  Opens \/ (SameScope /\ (ReadStatus \/ ReadStat \/ Decides \/ Waits))
<1>0. TypeOK
  BY DEF ContractInv, TypeInv
<1>1. CASE SelectMember \/ ReadState \/ SubmitStop \/ Acknowledge
  <2>1. (pc = "select" \/ Taking) /\ (frozen = {} \/ found) /\ found' = found
    BY <1>1 DEF SelectMember, ReadState, SubmitStop, Acknowledge, StopFrame, Taking, ContractInv,
                IdentityInv, StopsFound
  <2>2. pc' \notin {"evidence", "policy", "deliver", "verify", "read"}
    BY <1>1 DEF SelectMember, ReadState, SubmitStop, Acknowledge, StopNotFound, StopFailed,
                StopAcknowledged, RefuseNow, Refuse
  <2>3. pc' = "drain" => frozen # {}
    <3>1. CASE SelectMember
      <4>1. frozen = {} => handle[RootPid] # NoProc /\ work = {RootPid}
        BY <3>1, KernelAssumption, FreezeKillAssumption
           DEF SelectMember, ContractInv, IdentityInv, RootFirstTaken, Gathering
      <4>2. \E pid \in work : pc' \in {"thaw", "state"} \/ Pinned(pid) = NoProc
        BY <3>1 DEF SelectMember, RefuseNow, Refuse
      <4>3. pc' = "drain" => \E pid \in work : Pinned(pid) = NoProc
        BY <4>2
      <4> QED
        BY <4>1, <4>3 DEF Pinned
    <3>2. CASE ReadState \/ SubmitStop \/ Acknowledge
      BY <3>2 DEF ReadState, SubmitStop, Acknowledge, StopNotFound, StopFailed, StopAcknowledged,
                  RefuseNow, Refuse
    <3> QED
      BY <1>1, <3>1, <3>2
  <2> QED
    BY <2>1, <2>2, <2>3 DEF OnSnapshot, Closing, Settled
<1>2. CASE ListProcesses
  BY <1>2 DEF ListProcesses, RefuseNow, Refuse, OnSnapshot, Closing, Settled, Opens
<1>3. CASE ReadStatus \/ ReadStat
  <2>1. UNCHANGED <<pc, todo, found, request, frozen, handle, node>>
    BY <1>3 DEF ReadStatus, ReadStat, ScanFrame, sweepVars
  <2> QED
    BY <1>3, <2>1 DEF OnSnapshot, Closing, Settled, SameScope
<1>4. CASE SnapshotTaken
  <2>1. /\ pc = "read" /\ listing = {} /\ pc' \in {"root", "drain"}
        /\ UNCHANGED <<found, request, frozen, handle, node, kernelVars, half, snap, stayed>>
    BY <1>4 DEF SnapshotTaken, ScanFrame, sweepVars, historyVars
  <2> QED
    BY <1>4, <2>1 DEF OnSnapshot, Closing, Settled, SameScope, Decides
<1>5. CASE Drain
  <2>1. pc = "drain" /\ pc' = "verify" /\ UNCHANGED found
    BY <1>5 DEF Drain, RefuseNow, Refuse, OnSnapshot, Closing, Settled
  <2>2. UNCHANGED <<request, frozen, handle, node, kernelVars, half, snap, stayed>>
    BY <1>5 DEF Drain, scanVars, historyVars
  <2> QED
    BY <1>5, <2>1, <2>2 DEF OnSnapshot, Closing, Settled, SameScope, Decides
<1>6. CASE Verify
  <2>1. /\ pc = "verify" /\ pc' = "evidence"
        /\ handle' = [pid \in Pid |-> IF pid \in frozen THEN Pinned(pid) ELSE handle[pid]]
        /\ node' = [pid \in Pid |->
             IF pid \in frozen THEN Refreshed(node[pid], snap[pid].name, snap[pid].foreign)
             ELSE node[pid]]
    BY <1>6 DEF Verify, RefuseNow, Refuse, OnSnapshot, Closing, Settled
  <2>2. UNCHANGED <<request, frozen, found, kernelVars, half, snap, stayed>>
    BY <1>6 DEF Verify, scanVars, sweepVars, historyVars
  <2>3. ASSUME NEW pid \in frozen
        PROVE  /\ handle'[pid] = handle[pid] /\ node'[pid].who = node[pid].who
               /\ node'[pid].parent = node[pid].parent /\ node'[pid].depth = node[pid].depth
    <3>1. pid \in Pid /\ node[pid] \in Node
      BY <1>0 DEF TypeOK
    <3>2. handle[pid] # NoProc
      BY <2>1 DEF ContractInv, IdentityInv, FrozenPinned, Gathering
    <3> QED
      BY <2>1, <3>1, <3>2, RefreshedKeeps DEF Pinned
  <2>4. ~found
    BY <2>1 DEF ContractInv, IdentityInv, StopsFound
  <2> QED
    BY <1>6, <2>1, <2>2, <2>3, <2>4 DEF OnSnapshot, Closing, Settled, SameScope, Decides
<1>7. CASE ReadEvidence
  <2>1. pc = "evidence" /\ pc' \in {"evidence", "policy"}
    BY <1>7 DEF ReadEvidence, RefuseNow, Refuse, OnSnapshot, Closing, Settled
  <2>2. UNCHANGED <<request, frozen, handle, kernelVars, half, snap, stayed>>
    BY <1>7 DEF ReadEvidence, scanVars, historyVars
  <2>3. \E m \in todo : \E newName :
          node' = [node EXCEPT ![m] = Refreshed(node[m], newName, node[m].foreign)]
    BY <1>0, <1>7, <2>1 DEF ReadEvidence, RefuseNow, Refuse, TypeOK
  <2>4. ASSUME NEW pid \in frozen
        PROVE  /\ node'[pid].who = node[pid].who
               /\ node'[pid].parent = node[pid].parent /\ node'[pid].depth = node[pid].depth
    <3>1. pid \in Pid /\ node \in [Pid -> Node]
      BY <1>0 DEF TypeOK
    <3> QED
      BY <2>3, <3>1, RefreshedKeeps
  <2> QED
    BY <1>7, <2>1, <2>2, <2>4 DEF OnSnapshot, Settled, SameScope, Decides
<1>8. CASE Authorize
  <2>1. pc = "policy" /\ pc' = "deliver"
    BY <1>8 DEF Authorize, RefuseNow, Refuse, OnSnapshot, Closing, Settled
  <2>2. UNCHANGED <<request, frozen, handle, node, kernelVars, half, snap, stayed>>
    BY <1>8 DEF Authorize, scanVars, historyVars
  <2> QED
    BY <1>8, <2>1, <2>2 DEF OnSnapshot, Settled, SameScope, Decides
<1>9. CASE Deliver \/ ContinueMember
  <2>1. pc' = "deliver" /\ todo' = frozen /\ UNCHANGED frozen
    BY <1>9 DEF Deliver, ContinueMember, ContinueFrame, OnSnapshot, Closing, Settled
  <2>2. CASE Deliver
    <3>1. \E pid \in todo : todo' = todo \ {pid} /\ pc = "deliver"
      BY <2>2 DEF Deliver
    <3> QED
      BY <2>1, <3>1 DEF ContractInv, IdentityInv, DeliveryInFrozen
  <2>3. CASE ContinueMember
    BY <2>1, <2>3 DEF ContinueMember, ContractInv, PromiseInv
  <2> QED
    BY <1>9, <2>2, <2>3
<1>10. CASE \/ StateReadFails \/ SnapshotFails \/ CheckRoot \/ ContinueGroup \/ Thaw \/ Finish
  BY <1>10 DEF StateReadFails, StopFailed, SnapshotFails, CheckRoot, ContinueGroup, Thaw, Finish,
               Refuse, OnSnapshot, Closing, Settled
<1>11. CASE Expire \/ Interrupt \/ UNCHANGED vars \/ Environment
  <2>1. UNCHANGED <<pc, listing, half, snap, todo, found, node, request, frozen, handle>>
    BY <1>11 DEF Expire, Interrupt, Others, Environment, vars, executorVars, controlVars, scanVars,
                 sweepVars
  <2>2. Environment \/ UNCHANGED <<kernelVars, stayed>>
    BY <1>11 DEF Expire, Interrupt, Others, vars, executorVars, historyVars
  <2> QED
    BY <1>11, <2>1, <2>2 DEF OnSnapshot, Closing, Settled, SameScope, Waits
<1> QED
  BY <1>1, <1>2, <1>3, <1>4, <1>5, <1>6, <1>7, <1>8, <1>9, <1>10, <1>11
     DEF Next, Executor, Terminated

\* A process with the number of a row, and there when the row is read, is who is read.
LEMMA SeenStays ==
    ASSUME ContractInv, HalfIsOpen, [Next]_vars, OnSnapshot', NEW p \in Proc,
           status[p] \in Present, Opens \/ Seen(p)
    PROVE  Seen(p)'
<1>0. TypeOK /\ PidOf[p] \in Pid /\ OneHolder
  BY KernelAssumption DEF ContractInv, TypeInv, IdentityInv
<1>1. Has(PidOf[p], p) /\ Occupant(PidOf[p]) = p /\ p # NoProc
  BY <1>0, OccupantIs, KernelAssumption DEF Has
<1>2. CASE Opens
  BY <1>0, <1>1, <1>2 DEF Opens, Seen, PresentPids
<1>3. CASE ReadStatus
  <2>1. /\ UNCHANGED <<pc, snap>> /\ pc = "read"
        /\ \A pid \in listing \ listing' : Occupant(pid) = NoProc
    BY <1>3 DEF ReadStatus
  <2> QED
    BY <1>1, <1>2, <2>1 DEF Seen, Shows
<1>4. CASE ReadStat
  <2>1. PICK pid \in listing :
          /\ listing' = listing \ {pid}
          /\ snap' = IF Occupant(pid) = NoProc THEN snap
                     ELSE [snap EXCEPT ![pid] =
                             [who |-> Occupant(pid), parent |-> half.parent,
                              pgrp |-> pgrp[Occupant(pid)], name |-> name[Occupant(pid)],
                              foreign |-> half.foreign]]
          /\ UNCHANGED pc /\ pc = "read"
    BY <1>4 DEF ReadStat
  <2>2. CASE pid = PidOf[p]
    <3>1. snap'[pid].who = p
      BY <1>0, <1>1, <2>1, <2>2 DEF TypeOK
    <3> QED
      BY <2>2, <3>1 DEF Seen, Shows
  <2>3. CASE pid # PidOf[p]
    <3>1. snap'[PidOf[p]] = snap[PidOf[p]]
      BY <1>0, <2>1, <2>3 DEF TypeOK
    <3> QED
      BY <1>2, <2>1, <2>3, <3>1 DEF Seen, Shows
  <2> QED
    BY <2>2, <2>3
<1>5. CASE Decides
  BY <1>2, <1>5 DEF Decides, Seen, Shows
<1>6. CASE Waits
  BY <1>2, <1>6 DEF Waits, Seen, Shows
<1> QED
  BY <1>2, <1>3, <1>4, <1>5, <1>6, SnapshotSteps

\* A row that shows a process was there before the step, or is read from the process by it.
ReadNow(p) == /\ ReadStat /\ pc = "read" /\ half.read /\ NextListed(PidOf[p])
              /\ Has(PidOf[p], p) /\ snap[PidOf[p]] # snap'[PidOf[p]]
              /\ snap'[PidOf[p]].pgrp = pgrp[p] /\ snap'[PidOf[p]].parent = half.parent
LEMMA ShownBefore ==
    ASSUME ContractInv, HalfIsOpen, [Next]_vars, OnSnapshot', NEW p \in Proc, Shows(p)'
    PROVE  ~Opens /\ ((Shows(p) /\ snap'[PidOf[p]] = snap[PidOf[p]]) \/ ReadNow(p))
<1>0. TypeOK /\ PidOf[p] \in Pid /\ p # NoProc
  BY KernelAssumption DEF ContractInv, TypeInv
<1>1. ~Opens
  BY <1>0 DEF Opens, Shows, NoRow
<1>2. CASE UNCHANGED snap
  BY <1>1, <1>2 DEF Shows
<1>3. CASE ReadStat
  <2>1. PICK pid \in listing :
          /\ NextListed(pid)
          /\ snap' = IF Occupant(pid) = NoProc THEN snap
                     ELSE [snap EXCEPT ![pid] =
                             [who |-> Occupant(pid), parent |-> half.parent,
                              pgrp |-> pgrp[Occupant(pid)], name |-> name[Occupant(pid)],
                              foreign |-> half.foreign]]
          /\ half.read /\ pc = "read"
    BY <1>3 DEF ReadStat
  <2>2. CASE snap'[PidOf[p]] = snap[PidOf[p]]
    BY <1>1, <2>2 DEF Shows
  <2>3. CASE snap'[PidOf[p]] # snap[PidOf[p]]
    <3>1. pid = PidOf[p] /\ Occupant(pid) # NoProc
      BY <1>0, <2>1, <2>3 DEF TypeOK
    <3>2. snap'[pid] = [who |-> Occupant(pid), parent |-> half.parent,
                        pgrp |-> pgrp[Occupant(pid)], name |-> name[Occupant(pid)],
                        foreign |-> half.foreign]
      BY <1>0, <2>1, <3>1 DEF TypeOK
    <3>3. Occupant(pid) = p
      BY <3>1, <3>2 DEF Shows
    <3>4. Has(pid, p)
      BY <3>1, <3>3, OccupantHolds
    <3> QED
      BY <1>1, <1>3, <2>1, <2>3, <3>1, <3>2, <3>3, <3>4 DEF ReadNow
  <2> QED
    BY <2>2, <2>3
<1>4. UNCHANGED snap \/ ReadStat
  BY <1>1, SnapshotSteps DEF ReadStatus, Decides, Waits
<1> QED
  BY <1>2, <1>3, <1>4

LEMMA NextListedUnread ==
    ASSUME ContractInv, HalfIsOpen, ListedUnread, [Next]_vars
    PROVE  ListedUnread'
<1> SUFFICES ASSUME pc' = "read", NEW pid \in listing' PROVE snap'[pid] = NoRow
  BY DEF ListedUnread
<1>0. TypeOK /\ TypeOK'
  BY NextContract DEF ContractInv, TypeInv
<1>1. pid \in Pid
  BY <1>0 DEF TypeOK
<1>2. CASE ListProcesses
  BY <1>1, <1>2 DEF ListProcesses, RefuseNow, Refuse
<1>3. CASE ReadStat
  <2>1. PICK m \in listing :
          /\ listing' = listing \ {m} /\ UNCHANGED pc
          /\ \A other \in Pid : other # m => snap'[other] = snap[other]
    BY <1>0, <1>3 DEF ReadStat, TypeOK
  <2> QED
    BY <1>1, <2>1 DEF ListedUnread
<1>4. CASE ReadStatus
  BY <1>4 DEF ReadStatus, ListedUnread
<1>5. CASE Expire \/ Interrupt \/ Environment \/ UNCHANGED vars
  BY <1>5 DEF Expire, Interrupt, Others, Environment, vars, executorVars, controlVars, scanVars,
              ListedUnread
<1>6. CASE \/ SelectMember \/ ReadState \/ SubmitStop \/ Acknowledge \/ StateReadFails
           \/ SnapshotTaken \/ SnapshotFails \/ CheckRoot \/ Drain \/ Verify \/ ReadEvidence
           \/ Authorize \/ Deliver \/ ContinueMember \/ ContinueGroup \/ Thaw \/ Finish
  BY <1>6 DEF SelectMember, ReadState, SubmitStop, Acknowledge, StateReadFails, StopNotFound,
              StopFailed, StopAcknowledged, SnapshotTaken, SnapshotFails, CheckRoot, Drain, Verify,
              ReadEvidence, Authorize, Deliver, ContinueMember, ContinueGroup, Thaw, Finish,
              RefuseNow, Refuse
<1> QED
  BY <1>2, <1>3, <1>4, <1>5, <1>6 DEF Next, Executor, Terminated

LEMMA NextPassClean ==
    ASSUME ContractInv, PassClean, [Next]_vars
    PROVE  PassClean'
<1> USE DEF Gathering, Taking
<1>0. SUFFICES ASSUME Gathering', vanished' # {} PROVE found'
  BY DEF PassClean
<1>1. Gathering
  BY <1>0, PreparesBefore
     DEF Next, Executor, Terminated, SelectMember, ReadState, SubmitStop, Acknowledge,
         StateReadFails, ListProcesses, ReadStatus, ReadStat, SnapshotTaken, SnapshotFails,
         CheckRoot, Drain, Verify, ReadEvidence, Authorize, Deliver, ContinueMember,
         ContinueGroup, Thaw, Finish, RefuseNow, Refuse, Expire, Interrupt, Others, Environment,
         vars, executorVars, controlVars
<1>2. CASE UNCHANGED vanished /\ (found' = found \/ found')
  BY <1>0, <1>1, <1>2 DEF PassClean
<1>3. CASE SelectMember
  <2>1. found' = found
    BY <1>3 DEF SelectMember
  <2>2. \E pid \in work : UNCHANGED vanished \/ Pinned(pid) = NoProc
    BY <1>3 DEF SelectMember
  <2>3. UNCHANGED vanished \/ \E pid \in work : Pinned(pid) = NoProc
    BY <2>2
  <2>4. pc = "select" /\ (frozen = {} => handle[RootPid] # NoProc /\ work = {RootPid})
    BY <1>3, KernelAssumption, FreezeKillAssumption
       DEF SelectMember, ContractInv, IdentityInv, RootFirstTaken
  <2>5. UNCHANGED vanished \/ frozen # {}
    BY <2>3, <2>4 DEF Pinned
  <2> QED
    BY <1>2, <2>1, <2>4, <2>5 DEF ContractInv, IdentityInv, StopsFound
<1>4. CASE ReadState \/ SubmitStop \/ Acknowledge
  <2>1. Taking /\ found' = found /\ (UNCHANGED vanished \/ frozen # {})
    BY <1>0, <1>4 DEF ReadState, SubmitStop, Acknowledge, StopFrame, StopNotFound, StopFailed,
                      StopAcknowledged, RefuseNow, Refuse
  <2> QED
    BY <1>2, <2>1 DEF ContractInv, IdentityInv, StopsFound
<1>5. CASE ListProcesses
  BY <1>0, <1>5 DEF ListProcesses
<1>6. CASE Drain
  BY <1>2, <1>6 DEF Drain
<1>7. CASE \/ ReadStatus \/ ReadStat \/ SnapshotTaken \/ CheckRoot \/ Verify \/ Expire
           \/ Interrupt \/ Environment \/ UNCHANGED vars
  BY <1>2, <1>7 DEF ReadStatus, ReadStat, SnapshotTaken, ScanFrame, CheckRoot, Verify, Expire,
                    Interrupt, Others, Environment, vars, executorVars, controlVars, sweepVars
<1>8. CASE \/ StateReadFails \/ SnapshotFails \/ ReadEvidence \/ Authorize \/ Deliver
           \/ ContinueMember \/ ContinueGroup \/ Thaw \/ Finish
  BY <1>0, <1>1, <1>8
     DEF StateReadFails, StopFailed, SnapshotFails, ReadEvidence, Authorize, Deliver,
         ContinueMember, ContinueGroup, Thaw, Finish, RefuseNow, Refuse
<1> QED
  BY <1>3, <1>4, <1>5, <1>6, <1>7, <1>8 DEF Next, Executor, Terminated

LEMMA NextRootHeld ==
    ASSUME ContractInv, CleanupInv, HalfIsOpen, RootHeld, [Next]_vars
    PROVE  RootHeld'
<1> USE DEF Gathering, Taking
<1>0. TypeOK
  BY DEF ContractInv, TypeInv
<1>1. CASE Settled'
  <2>1. SameScope /\ (ReadStatus \/ ReadStat \/ Decides \/ Waits)
    BY <1>1, SnapshotSteps DEF OnSnapshot, Opens, Settled
  <2>2. frozen # {} \/ Settled
    BY <1>1, <2>1 DEF ContractInv, IdentityInv, RootFirstTaken, SameScope, OnSnapshot, Closing,
                      ReadStatus, ReadStat, Decides, SnapshotTaken, Drain, Verify, ReadEvidence,
                      Authorize, Waits, Settled
  <2> QED
    BY <1>0, <2>1, <2>2 DEF SameScope, OnSnapshot, Closing, RootHeld, TypeOK
<1>2. CASE Gathering' /\ frozen' # {}
  <2>1. RootPid \in frozen'
    BY <1>2, NextCleanup DEF CleanupInv, RootRecorded
  <2>2. SUFFICES node'[RootPid].who = RootProc
    BY <2>1 DEF RootHeld
  <2>3. ASSUME Gathering, RootPid \in frozen, node'[RootPid] = node[RootPid]
        PROVE  node'[RootPid].who = RootProc
    BY <2>3 DEF RootHeld
  <2>4. CASE Acknowledge
    <3>1. CASE StopAcknowledged(Transitioned) /\ frozen # {}
      <4>1. Gathering /\ RootPid \in frozen /\ cur \notin frozen
        BY <2>4, <3>1 DEF Acknowledge, RootHeld, ContractInv, IdentityInv, TakenPinned
      <4>2. node'[RootPid] = node[RootPid]
        BY <1>0, <3>1, <4>1 DEF StopAcknowledged, TypeOK
      <4> QED
        BY <2>3, <4>1, <4>2
    <3>2. CASE StopAcknowledged(Transitioned) /\ frozen = {}
      BY <1>2, <3>2 DEF StopAcknowledged
    <3>3. CASE StopNotFound \/ \E cause : StopFailed(cause, Transitioned)
      BY <1>2, <2>1, <2>3, <2>4, <3>3 DEF Acknowledge, StopNotFound, StopFailed, Refuse
    <3> QED
      BY <2>4, <3>1, <3>2, <3>3 DEF Acknowledge
  <2>5. CASE CheckRoot
    <3>1. node' = [node EXCEPT ![RootPid] = NodeAs(RootProc, snap[RootPid], 0, node[RootPid].resume)]
      BY <1>2, <2>5 DEF CheckRoot, Refuse
    <3> QED
      BY <1>0, <3>1, RootPidType DEF TypeOK, NodeAs
  <2>6. CASE SelectMember \/ ReadState \/ SubmitStop
    BY <1>2, <2>1, <2>3, <2>6
       DEF SelectMember, ReadState, SubmitStop, StopNotFound, StopFailed, Refuse
  <2>7. CASE \/ ListProcesses \/ ReadStatus \/ ReadStat \/ SnapshotTaken \/ Drain
    BY <2>1, <2>3, <2>7 DEF ListProcesses, ReadStatus, ReadStat, SnapshotTaken, Drain, ScanFrame
  <2>8. CASE \/ Verify \/ StateReadFails \/ SnapshotFails \/ ReadEvidence \/ Authorize \/ Deliver
             \/ ContinueMember \/ ContinueGroup \/ Thaw \/ Finish
    BY <1>2, <2>8
       DEF Verify, StateReadFails, StopFailed, SnapshotFails, ReadEvidence, Authorize, Deliver,
           ContinueMember, ContinueGroup, Thaw, Finish, RefuseNow, Refuse
  <2>9. CASE Expire \/ Interrupt \/ Environment \/ UNCHANGED vars
    BY <1>2, <2>1, <2>3, <2>9
       DEF Expire, Interrupt, Others, Environment, vars, executorVars, controlVars
  <2> QED
    BY <2>4, <2>5, <2>6, <2>7, <2>8, <2>9 DEF Next, Executor, Terminated
<1> QED
  BY <1>1, <1>2 DEF RootHeld

LEMMA NextStayed ==
    ASSUME ContractInv, HalfIsOpen, StayedShown, [Next]_vars
    PROVE  StayedShown'
<1> SUFFICES ASSUME OnSnapshot', InGroup', NEW p \in stayed'
             PROVE  /\ status'[p] \in Live /\ pgrp'[p] = TargetGroup /\ Seen(p)'
                    /\ Shows(p)' => snap'[PidOf[p]].pgrp = TargetGroup
  BY DEF StayedShown
<1>1. InGroup
  BY SnapshotSteps DEF Opens, SameScope, InGroup
<1>2. p \in Proc /\ status'[p] \in Live /\ pgrp'[p] = TargetGroup
  <2>1. CASE Opens
    BY <1>1, <2>1 DEF Opens, kernelVars, TrueMembers, InTree, InGroup
  <2>2. CASE SameScope /\ ~Environment
    <3>1. UNCHANGED <<status, pgrp, stayed>> /\ OnSnapshot
      BY <2>2, SnapshotSteps
         DEF Opens, SameScope, OnSnapshot, Closing, Settled, ListProcesses, ReadStatus, ReadStat,
             ScanFrame, Decides, Waits, kernelVars, historyVars
    <3> QED
      BY <1>1, <3>1 DEF StayedShown, ContractInv, TypeInv, TypeOK
  <2>3. CASE Environment
    <3>1. p \in TrueMembers'
      BY <2>3 DEF Environment
    <3> QED
      BY <3>1 DEF TrueMembers, InTree, InGroup
  <2> QED
    BY <2>1, <2>2, <2>3, SnapshotSteps
<1>3. Opens \/ (OnSnapshot /\ p \in stayed)
  <2>1. CASE SameScope
    BY <2>1, SnapshotSteps
       DEF Opens, ReadStatus, ReadStat, ScanFrame, historyVars, Decides, Waits, Environment, vars,
           executorVars, SameScope, OnSnapshot, Closing, Settled
  <2> QED
    BY <2>1, SnapshotSteps
<1>4. status[p] \in Live /\ (Opens \/ (Seen(p) /\ pgrp[p] = TargetGroup))
  BY <1>1, <1>2, <1>3 DEF StayedShown, Opens, kernelVars
<1>5. Seen(p)'
  BY <1>2, <1>4, SeenStays DEF Present
<1>6. Shows(p)' => snap'[PidOf[p]].pgrp = TargetGroup
  <2>1. ASSUME Shows(p)' PROVE snap'[PidOf[p]].pgrp = TargetGroup
    BY <1>1, <1>2, <1>3, <1>4, <2>1, ShownBefore DEF StayedShown, ReadNow
  <2> QED
    BY <2>1
<1> QED
  BY <1>2, <1>5, <1>6

\* While a closing snapshot is read and judged, the members stand still.
LEMMA MembersStand ==
    ASSUME ContractInv, MembersStill, OnSnapshot \/ pc = "list", NEW pid \in frozen
    PROVE  pid \in Pid /\ handle[pid] \in Proc /\ Still(handle[pid])
<1>0. pid \in Pid
  BY DEF ContractInv, TypeInv, TypeOK
<1>1. CASE pc = "deliver" /\ todo = frozen
  BY <1>0, <1>1 DEF MembersStill, Delivering, ContractInv, IdentityInv, VerifiedPinned, MembersKnown
<1>2. CASE Preparing
  <2>1. pid \in Recorded
    BY DEF Recorded
  <2> QED
    BY <1>0, <1>2, <2>1, RecordedPinned DEF MembersStill
<1> QED
  BY <1>1, <1>2 DEF OnSnapshot, Closing, Settled, Preparing, Gathering

\* So nobody becomes the child of one.
LEMMA ChildBefore ==
    ASSUME ContractInv, CleanupInv, MembersStill, HalfIsOpen, ParentsAlive, [Next]_vars, OnSnapshot',
           NEW p \in Proc, NEW pid \in frozen', ChildOf(p, pid)'
    PROVE  pid \in frozen /\ ChildOf(p, pid)
<1>1. /\ pid \in frozen /\ handle'[pid] = handle[pid]
      /\ OnSnapshot \/ pc = "list"
  BY SnapshotSteps DEF Opens, SameScope
<1>2. handle[pid] \in Proc /\ Still(handle[pid])
  BY <1>1, MembersStand
<1>3. handle[pid] \notin meddled /\ handle[pid] \notin meddled'
  BY <1>1, <1>2, NextMoves DEF ChildOf, Moves
<1>4. status[handle[pid]] \notin Active
  BY <1>2, <1>3 DEF Still, Resting
<1>5. KinOf(p) /\ status'[p] \in Present /\ parent'[p] = handle[pid] /\ handle[pid] # Reaper
  BY <1>1, <1>2, NextKin, KernelAssumption DEF ChildOf
<1>6. status[p] \in Present /\ parent[p] = handle[pid]
  BY <1>2, <1>4, <1>5 DEF KinOf, Present, Live, Active
<1> QED
  BY <1>1, <1>3, <1>6 DEF ChildOf

\* What the first half of a row says of a child is that it is one.
LEMMA HalfRead ==
    ASSUME ContractInv, ReadStatus, half'.read, NEW p \in Proc, status[p] \in Present,
           NextListed(PidOf[p])'
    PROVE  half'.parent = ParentPid(p) /\ half'.foreign = (name[p] \in Foreign)
<1>0. TypeOK /\ OneHolder /\ PidOf[p] \in Pid /\ p # NoProc
  BY KernelAssumption DEF ContractInv, TypeInv, IdentityInv
<1>1. PICK pid \in listing :
        /\ NextListed(pid)
        /\ \/ Occupant(pid) = NoProc /\ UNCHANGED half
           \/ /\ half' = [parent |-> ParentPid(Occupant(pid)),
                          foreign |-> name[Occupant(pid)] \in Foreign, read |-> TRUE]
              /\ UNCHANGED listing
  BY DEF ReadStatus
<1>2. UNCHANGED listing
  BY <1>1 DEF ReadStatus
<1>3. pid = PidOf[p]
  <2>1. /\ pid \in listing /\ PidOf[p] \in listing
        /\ pid <= PidOf[p] /\ PidOf[p] <= pid
    BY <1>1, <1>2 DEF NextListed
  <2>2. pid \in Nat /\ PidOf[p] \in Nat
    BY <1>0, <2>1, KernelAssumption DEF TypeOK
  <2> QED
    BY <2>1, <2>2
<1>4. Occupant(pid) = p
  BY <1>0, <1>3, OccupantIs DEF Has
<1> QED
  BY <1>0, <1>1, <1>4 DEF ReadStatus

LEMMA NextChildren ==
    ASSUME ContractInv, CleanupInv, MembersStill, HalfIsOpen, ParentsAlive, ChildrenShown,
           HalfOfChild, [Next]_vars
    PROVE  ChildrenShown' /\ HalfOfChild'
<1>1. ASSUME OnSnapshot', NEW p \in Proc, NEW pid \in frozen', ChildOf(p, pid)'
      PROVE  Seen(p)' /\ (Shows(p)' => snap'[PidOf[p]].parent = pid)
  <2>1. pid \in frozen /\ ChildOf(p, pid)
    BY <1>1, ChildBefore
  <2>2. Opens \/ (OnSnapshot /\ Seen(p) /\ (Shows(p) => snap[PidOf[p]].parent = pid))
    BY <1>1, <2>1, SnapshotSteps DEF SameScope, ChildrenShown
  <2>3. Seen(p)'
    BY <1>1, <2>1, <2>2, SeenStays DEF ChildOf
  <2>4. ASSUME ReadNow(p) PROVE snap'[PidOf[p]].parent = pid
    <3>1. OnSnapshot /\ pc = "read"
      BY <1>1, <2>4, SnapshotSteps DEF ReadNow, Opens, SameScope
    <3> QED
      BY <2>1, <2>4, <3>1 DEF ReadNow, HalfOfChild, OnSnapshot, Closing, Settled
  <2>5. Shows(p)' => snap'[PidOf[p]].parent = pid
    BY <1>1, <2>2, <2>4, ShownBefore
  <2> QED
    BY <2>3, <2>5
<1>2. ASSUME Closing', half'.read, NEW p \in Proc, NEW pid \in frozen', ChildOf(p, pid)',
             NextListed(PidOf[p])'
      PROVE  half'.parent = pid
  <2>0. OnSnapshot'
    BY <1>2 DEF OnSnapshot
  <2>1. pid \in frozen /\ ChildOf(p, pid) /\ pid \in Pid /\ handle[pid] \in Proc
    <3>1. OnSnapshot \/ pc = "list"
      BY <2>0, SnapshotSteps DEF Opens, SameScope
    <3> QED
      BY <1>2, <2>0, <3>1, ChildBefore, MembersStand
  <2>2. CASE ReadStatus
    <3>1. half'.parent = ParentPid(p)
      BY <1>2, <2>1, <2>2, HalfRead DEF ChildOf
    <3>2. ParentPid(p) = PidOf[handle[pid]] /\ handle[pid] # NoProc
      BY <2>1, KernelAssumption DEF ParentPid, ChildOf
    <3> QED
      BY <2>1, <3>1, <3>2 DEF ContractInv, SafetyInv, PinsByNumber
  <2>3. CASE Waits /\ SameScope
    BY <1>2, <2>1, <2>3 DEF Waits, SameScope, Closing, HalfOfChild, NextListed
  <2>4. CASE ReadStat
    BY <1>2, <2>4 DEF ReadStat, NoHalf
  <2>5. CASE Opens \/ Decides
    BY <1>2, <2>5, NextHalf, NextContract
       DEF Opens, Decides, HalfIsOpen, SnapshotTaken, Drain, Verify, ReadEvidence, Authorize
  <2> QED
    BY <2>0, <2>2, <2>3, <2>4, <2>5, SnapshotSteps
<1> QED
  BY <1>1, <1>2 DEF ChildrenShown, HalfOfChild

-----------------------------------------------------------------------------
\* The links of a snapshot

\* What the definition of Climb says is true of it.
Link(pid) == IF Shown(pid) THEN snap[pid].parent ELSE pid
LEMMA ClimbUnfold ==
    ASSUME TypeOK
    PROVE  /\ \A pid \in Pid : Climb[0][pid] = pid
           /\ \A n \in Nat, pid \in Pid :
                 Climb[n][pid] \in ParentPids /\ Climb[n + 1][pid] = Link(Climb[n][pid])
<1> DEFINE S == [Pid -> ParentPids]
           Line(f, n) == [pid \in Pid |-> IF n = 0 THEN pid
                                          ELSE LET below == f[n - 1][pid]
                                               IN  IF Shown(below) THEN snap[below].parent ELSE below]
           step == [c \in S |-> [pid \in Pid |-> Link(c[pid])]]
           x == [pid \in Pid |-> pid]
<1>1. x \in S /\ step \in [S -> S]
  <2>1. \A m \in ParentPids : Link(m) \in ParentPids
    BY DEF Link, Shown, TypeOK, Row
  <2> QED
    BY <2>1 DEF ParentPids
<1>2. PICK h : Recurs(h, S, x, step)
  <2> HIDE DEF S, step, x
  <2> QED
    BY <1>1, NatRecursion
<1>3. ASSUME NEW n \in Nat PROVE h[n] = Line(h, n)
  <2>1. CASE n = 0
    BY <1>2, <2>1 DEF Recurs
  <2>2. CASE n # 0
    <3>1. n - 1 \in Nat /\ n = (n - 1) + 1
      BY <2>2
    <3>2. h[n] = step[h[n - 1]] /\ h[n - 1] \in S
      <4> HIDE DEF S, step
      <4> QED
        BY <1>2, <3>1 DEF Recurs
    <3> QED
      BY <2>2, <3>2 DEF Link
  <2> QED
    BY <2>1, <2>2
<1>4. h = [n \in Nat |-> Line(h, n)]
  <2> HIDE DEF S, Line, step, x
  <2> QED
    BY <1>2, <1>3 DEF Recurs
<1>5. Climb = CHOOSE f : f = [n \in Nat |-> Line(f, n)]
  BY DEF Climb
<1>6. Climb = [n \in Nat |-> Line(Climb, n)]
  <2> HIDE DEF Line
  <2> QED
    BY <1>4, <1>5
<1>7. \A pid \in Pid : Climb[0][pid] = pid
  BY <1>6
<1>8. ASSUME NEW n \in Nat, NEW pid \in Pid PROVE Climb[n + 1][pid] = Link(Climb[n][pid])
  <2>1. n + 1 \in Nat /\ n + 1 # 0 /\ (n + 1) - 1 = n
    OBVIOUS
  <2>2. Climb[n + 1] = Line(Climb, n + 1)
    <3> HIDE DEF Line
    <3> QED
      BY <1>6, <2>1
  <2> QED
    BY <2>1, <2>2 DEF Link
<1>9. \A n \in Nat : \A pid \in Pid : Climb[n][pid] \in ParentPids
  <2> DEFINE T == {n \in Nat : \A pid \in Pid : Climb[n][pid] \in ParentPids}
  <2>1. 0 \in T
    BY <1>7 DEF ParentPids
  <2>2. ASSUME NEW n \in T PROVE n + 1 \in T
    BY <1>8 DEF Link, Shown, TypeOK, Row
  <2> HIDE DEF T
  <2>3. T = Nat
    <3>1. T \subseteq Nat
      BY DEF T
    <3> QED
      BY <2>1, <2>2, <3>1, NatSteps
  <2> QED
    BY <2>3 DEF T
<1> QED
  BY <1>7, <1>8, <1>9

\* The child of a recorded member, in the snapshot, is discovered.
LEMMA ChildDiscovered ==
    ASSUME TypeOK, NEW pid \in Pid \ frozen, Shown(pid), snap[pid].parent \in frozen
    PROVE  pid \in UnfrozenChildren
<1>1. Climb[1][pid] = snap[pid].parent
  <2>1. Climb[0 + 1][pid] = Link(Climb[0][pid]) /\ Climb[0][pid] = pid
    BY ClimbUnfold
  <2> QED
    BY <2>1 DEF Link
<1>2. 1 \in Links
  <2>1. Cardinality(Pid) \in Nat /\ Cardinality(Pid) # 0
    BY KernelAssumption, FS_CardinalityType, FS_EmptySet
  <2> QED
    BY <2>1 DEF Links
<1>3. Hangs(pid, 1)
  BY <1>1 DEF Hangs
<1> QED
  BY <1>2, <1>3 DEF UnfrozenChildren

LEMMA NextLeft ==
    ASSUME ContractInv, HalfIsOpen, PassClean, NobodyLeft, MembersShown, [Next]_vars
    PROVE  NobodyLeft' /\ MembersShown'
<1>0. TypeOK
  BY DEF ContractInv, TypeInv
<1>1. SUFFICES ASSUME pc' = "verify" \/ Settled' PROVE NobodyLeft' /\ MembersShown'
  BY DEF NobodyLeft, MembersShown
<1>2. SameScope /\ (Decides \/ Waits)
  <2>1. OnSnapshot'
    BY <1>1, NextContract DEF OnSnapshot, Closing, ContractInv, IdentityInv, StopsFound
  <2> QED
    BY <1>1, <2>1, SnapshotSteps DEF Opens, Settled, ReadStatus, ReadStat
<1>3. UNCHANGED <<snap, request, frozen>> /\ frozen \subseteq Pid
  BY <1>0, <1>2 DEF SameScope, Decides, Waits, TypeOK
<1>4. CASE Drain
  <2>1. UnfrozenMembers = {}
    <3>1. vanished = {}
      BY <1>2, <1>4 DEF Drain, PassClean, Gathering, SameScope, OnSnapshot, Closing, Settled
    <3> QED
      BY <1>1, <1>4, <3>1 DEF Drain, RefuseNow, Refuse, Settled
  <2>2. ASSUME NEW pid \in Pid \ frozen, snap[pid] # NoRow
        PROVE  IF InTree THEN snap[pid].parent \notin frozen ELSE snap[pid].pgrp # TargetGroup
    BY <1>0, <2>1, <2>2, ChildDiscovered DEF UnfrozenMembers, UnfrozenGroupMembers, Shown
  <2>3. ~Settled'
    BY <1>4 DEF Drain, RefuseNow, Refuse, Settled
  <2> QED
    BY <1>3, <2>2, <2>3 DEF NobodyLeft, MembersShown, InTree
<1>5. CASE Verify
  <2>1. pc = "verify" /\ \A pid \in frozen : IdentityHolds(pid)
    BY <1>1, <1>5 DEF Verify, RefuseNow, Refuse, Settled
  <2>2. \A pid \in frozen : snap[pid].who = node'[pid].who
    BY <1>2, <2>1 DEF IdentityHolds, SameScope
  <2> QED
    BY <1>3, <2>1, <2>2 DEF NobodyLeft, MembersShown, InTree
<1>6. CASE ReadEvidence \/ Authorize
  <2>1. Settled
    BY <1>6 DEF ReadEvidence, Authorize, Settled
  <2> QED
    BY <1>2, <1>3, <2>1 DEF NobodyLeft, MembersShown, InTree, SameScope
<1>7. CASE Waits
  BY <1>1, <1>2, <1>3, <1>7 DEF NobodyLeft, MembersShown, InTree, SameScope, Waits, Settled
<1> QED
  BY <1>1, <1>2, <1>4, <1>5, <1>6, <1>7 DEF Decides, SnapshotTaken, Settled

LEMMA NextClosed ==
    ContractInv /\ CleanupInv /\ PolicyInv /\ ClosedInv /\ [Next]_vars => ClosedInv'
BY NextKin, NextListedUnread, NextPassClean, NextRootHeld, NextStayed, NextChildren, NextLeft
   DEF ClosedInv, PolicyInv

LEMMA InitClosed == Init => ClosedInv
<1> SUFFICES ASSUME Init PROVE ClosedInv
  OBVIOUS
<1>1. ParentsAlive
  BY StartAssumption DEF Init, KernelInit, ParentsAlive
<1> QED
  BY <1>1
     DEF Init, ClosedInv, ListedUnread, PassClean, RootHeld, StayedShown, ChildrenShown, HalfOfChild,
         NobodyLeft, MembersShown, OnSnapshot, Closing, Settled, Gathering, Taking

\* Whoever descends from the root by processes that are there is held.
LEMMA DescendantsHeld ==
    ASSUME ContractInv, ClosedInv, MembersStill, Settled, InTree,
           NEW held, held = {node[pid].who : pid \in frozen}, held \cap meddled = {}
    PROVE  \A n \in Nat : \A p \in Proc :
             status[p] \in Present /\ RootProc \in Ancestors[n][p] => p \in held
<1> DEFINE Chain(n) == \A p \in Proc :
             status[p] \in Present /\ RootProc \in Ancestors[n][p] => p \in held
           T == {n \in Nat : Chain(n)}
<1>0. parent \in [Proc -> Proc \cup Outside] /\ TypeOK
  BY DEF ContractInv, TypeInv, TypeOK, KernelTypeOK
<1>1. RootProc \in held
  BY DEF ClosedInv, RootHeld
<1>2. \A pid \in frozen : node[pid].who = handle[pid]
  BY DEF ContractInv, IdentityInv, VerifiedPinned, Settled, Delivering
<1>3. ASSUME NEW p \in Proc, status[p] \in Present, parent[p] \in held
      PROVE  p \in held
  <2>1. PICK pid \in frozen : parent[p] = handle[pid]
    BY <1>2, <1>3
  <2>2. ChildOf(p, pid)
    BY <1>2, <1>3, <2>1 DEF ChildOf
  <2>3. Shows(p) /\ snap[PidOf[p]].parent = pid
    BY <2>2 DEF ClosedInv, ChildrenShown, OnSnapshot, Settled, Seen
  <2>4. PidOf[p] \in Pid /\ snap[PidOf[p]] # NoRow
    BY <2>3, KernelAssumption DEF Shows, NoRow
  <2>5. PidOf[p] \in frozen
    BY <2>3, <2>4 DEF ClosedInv, NobodyLeft
  <2> QED
    BY <2>3, <2>5 DEF ClosedInv, MembersShown, Shows
<1>4. 0 \in T
  BY <1>0, <1>1, AncestorsUnfold
<1>5. ASSUME NEW n \in T PROVE n + 1 \in T
  <2>1. n \in Nat /\ n + 1 \in Nat /\ n + 1 # 0 /\ (n + 1) - 1 = n /\ Chain(n)
    BY <1>5
  <2>2. ASSUME NEW p \in Proc, status[p] \in Present, RootProc \in Ancestors[n + 1][p]
        PROVE  p \in held
    <3>1. p = RootProc \/ (parent[p] \in Proc /\ RootProc \in Ancestors[n][parent[p]])
      BY <1>0, <2>1, <2>2, AncestorsUnfold
    <3>2. CASE parent[p] \in Proc /\ RootProc \in Ancestors[n][parent[p]]
      <4>1. status[parent[p]] \in Present
        BY <2>2, <3>2 DEF ClosedInv, ParentsAlive, Present
      <4>2. parent[p] \in held
        BY <2>1, <3>2, <4>1
      <4> QED
        BY <1>3, <2>2, <4>2
    <3> QED
      BY <1>1, <3>1, <3>2
  <2> QED
    BY <2>1, <2>2
<1> HIDE DEF T, Chain
<1>6. T = Nat
  <2>1. T \subseteq Nat
    BY DEF T
  <2> QED
    BY <1>4, <1>5, <2>1, NatSteps
<1> QED
  BY <1>6 DEF T, Chain

\* In a group, whoever is not held joined since the snapshot began, or is shown elsewhere.
LEMMA GroupHeld ==
    ASSUME ContractInv, ClosedInv, Settled, InGroup, NEW p \in TrueMembers,
           p \notin {node[pid].who : pid \in frozen}
    PROVE  /\ p \notin stayed
           /\ \A pid \in frozen : ChildOf(p, pid) => ShownElsewhere(p)
<1>0. p \in Proc /\ PidOf[p] \in Pid /\ p # NoProc /\ status[p] \in Live /\ ~InTree
  BY KernelAssumption DEF TrueMembers, InTree, InGroup
<1>1. ASSUME Shows(p)
      PROVE  Shown(PidOf[p]) /\ snap[PidOf[p]].pgrp # TargetGroup
  <2>1. snap[PidOf[p]] # NoRow
    BY <1>0, <1>1 DEF Shows, NoRow
  <2>2. PidOf[p] \notin frozen
    BY <1>1 DEF ClosedInv, MembersShown, Shows
  <2> QED
    BY <1>0, <2>1, <2>2 DEF Shown, ClosedInv, NobodyLeft
<1>2. p \notin stayed
  BY <1>1 DEF ClosedInv, StayedShown, OnSnapshot, Seen, Settled
<1>3. ASSUME NEW pid \in frozen, ChildOf(p, pid) PROVE ShownElsewhere(p)
  BY <1>0, <1>1, <1>3 DEF ClosedInv, ChildrenShown, OnSnapshot, Seen, Settled, ShownElsewhere
<1> QED
  BY <1>2, <1>3

\* The convergence contract of execute_freeze_kill (execute.rs 567-570), of any table,
\* scope and number of passes: when the first signal is about to go out, nobody who
\* belongs to the scope runs free.  The sweep is over because one snapshot showed no
\* further member, and since it was begun no member could run and fork.
THEOREM ScopeIsClosed == Spec => []ScopeClosedAtDelivery
<1>1. Init => ContractInv /\ CleanupInv /\ PolicyInv /\ ClosedInv
  BY InitContract, InitCleanup, InitPolicy, InitClosed
<1>2. ContractInv /\ CleanupInv /\ PolicyInv /\ ClosedInv /\ [Next]_vars
        => (ContractInv /\ CleanupInv /\ PolicyInv /\ ClosedInv)'
  BY NextContract, NextCleanup, NextPolicy, NextClosed
<1>3. ContractInv /\ CleanupInv /\ PolicyInv /\ ClosedInv => ScopeClosedAtDelivery
  <2> SUFFICES ASSUME ContractInv, PolicyInv, ClosedInv, pc = "deliver", todo = frozen
               PROVE  ScopeClosedAtDelivery
    BY DEF ScopeClosedAtDelivery
  <2> DEFINE held == {node[pid].who : pid \in frozen}
  <2>1. Settled /\ MembersStill
    BY DEF Settled, PolicyInv
  <2>2. CASE InGroup
    <3>1. ASSUME NEW p \in TrueMembers \ held
          PROVE  p \notin stayed /\ (parent[p] \in held \ meddled => ShownElsewhere(p))
      <4>1. p \notin stayed /\ \A pid \in frozen : ChildOf(p, pid) => ShownElsewhere(p)
        BY <2>1, <2>2, <3>1, GroupHeld
      <4>2. status[p] \in Present
        BY DEF TrueMembers, Present
      <4>3. \A pid \in frozen : handle[pid] = node[pid].who
        BY DEF ContractInv, IdentityInv, VerifiedPinned, Delivering
      <4> QED
        BY <4>1, <4>2, <4>3 DEF ChildOf
    <3> QED
      BY <2>2, <3>1 DEF ScopeClosedAtDelivery
  <2>3. CASE ~InGroup
    <3>1. InTree
      BY <2>3, FreezeKillAssumption
         DEF InTree, InGroup, ContractInv, TypeInv, TypeOK, Request
    <3>2. ASSUME held \cap meddled = {}, NEW p \in TrueMembers
          PROVE  p \in held
      <4>1. p \in Proc /\ status[p] \in Present /\ RootProc \in Ancestors[Cardinality(Proc)][p]
        BY <3>1 DEF TrueMembers, Present, Descends
      <4>2. Cardinality(Proc) \in Nat
        BY KernelAssumption, FS_CardinalityType
      <4> QED
        BY <2>1, <3>1, <3>2, <4>1, <4>2, DescendantsHeld
    <3> QED
      BY <2>3, <3>2 DEF ScopeClosedAtDelivery
  <2> QED
    BY <2>2, <2>3
<1> QED
  BY <1>1, <1>2, <1>3, PTL DEF Spec

-----------------------------------------------------------------------------
\* Where a member hangs

\* A pass reads its rows before it finds anybody.
ReadsFirst == pc \in {"read", "root"} => ~found

\* The processes a row of this pass shows, and the children of a number among them.
HasParentAt(p, pid) == status[p] \in Present /\ parent[p] \in Proc /\ PidOf[parent[p]] = pid
ShownChild(pid, above) == snap[pid] # NoRow /\ HasParentAt(snap[pid].who, above)

Waiting == work \cup (IF Taking THEN {cur} ELSE {})
Sweeping == InTree /\ Gathering /\ frozen # {}

\* A number that vanished in this pass is the parent of nobody the pass shows, and a
\* pidfd opened on a shown parent's number pins that parent.
VanishedGone == Sweeping => \A m \in vanished, pid \in Pid : ~ShownChild(pid, m)
ParentPinned == Sweeping /\ Taking => \A pid \in Pid : ShownChild(pid, cur) =>
    /\ handle[cur] = parent[snap[pid].who]
    /\ pc \in {"stop", "ack"} => before.who = handle[cur]

\* A member's parent, as it was shown, is recorded, or is going to be, or is nobody's
\* parent any more.
WorkTracked == Sweeping => \A pid \in Waiting :
    snap[pid].parent \in frozen \cup Waiting \cup vanished
Orphan(pid) == ~HasParentAt(node[pid].who, node[pid].parent)
Tracked == Sweeping => \A pid \in frozen : node[pid].depth # 0 =>
    /\ node[pid].parent \in Pid
    /\ \/ node[pid].parent \in frozen \/ Orphan(pid)
       \/ node[pid].parent \in Waiting /\ snap[pid].who = node[pid].who

\* A member's depth is greater than that of the one it hangs from.
Deeper(pid) == node[pid].parent \in frozen /\ node[node[pid].parent].depth < node[pid].depth
WorkDeeper == Sweeping => \A pid \in Waiting :
    /\ snap[pid].parent \in frozen => node[snap[pid].parent].depth < newDepth[pid]
    /\ snap[pid].parent \in Waiting => newDepth[snap[pid].parent] < newDepth[pid]
MembersDeeper == Sweeping => \A pid \in frozen : node[pid].depth # 0 =>
    \/ Orphan(pid) \/ Deeper(pid)
    \/ node[pid].parent \in Waiting /\ newDepth[node[pid].parent] < node[pid].depth

HangInv == /\ ReadsFirst /\ VanishedGone /\ ParentPinned /\ WorkTracked /\ Tracked
           /\ WorkDeeper /\ MembersDeeper

LEMMA NextReadsFirst == ContractInv /\ ReadsFirst /\ [Next]_vars => ReadsFirst'
<1> SUFFICES ASSUME ContractInv, ReadsFirst, [Next]_vars PROVE ReadsFirst'
  OBVIOUS
<1>1. CASE ListProcesses
  BY <1>1 DEF ListProcesses, ReadsFirst
<1>2. CASE ReadStatus \/ ReadStat \/ SnapshotTaken
  BY <1>2 DEF ReadStatus, ReadStat, SnapshotTaken, ScanFrame, sweepVars, ReadsFirst
<1>3. CASE Expire \/ Interrupt \/ Environment \/ UNCHANGED vars
  BY <1>3 DEF Expire, Interrupt, Others, Environment, vars, executorVars, controlVars, sweepVars,
              ReadsFirst
<1>4. CASE \/ SelectMember \/ ReadState \/ SubmitStop \/ Acknowledge \/ StateReadFails
           \/ SnapshotFails \/ CheckRoot \/ Drain \/ Verify \/ ReadEvidence
           \/ Authorize \/ Deliver \/ ContinueMember \/ ContinueGroup \/ Thaw \/ Finish
  BY <1>4 DEF SelectMember, ReadState, SubmitStop, Acknowledge, StateReadFails, StopNotFound,
              StopFailed, StopAcknowledged, SnapshotFails, CheckRoot, Drain, Verify,
              ReadEvidence, Authorize, Deliver, ContinueMember, ContinueGroup, Thaw, Finish,
              RefuseNow, Refuse, ReadsFirst
<1> QED
  BY <1>1, <1>2, <1>3, <1>4 DEF Next, Executor, Terminated

\* A process keeps its parent while that one lives, and gets no other one of these.
LEMMA ParentBefore ==
    ASSUME ContractInv, ParentsAlive, [Next]_vars, NEW p \in Proc, status[p] # "unborn",
           status'[p] \in Present, parent'[p] \in Proc
    PROVE  status[p] \in Present /\ parent'[p] = parent[p]
<1>1. KinOf(p) /\ Reaper \notin Proc
  BY NextKin, KernelAssumption
<1> QED
  BY <1>1 DEF KinOf

LEMMA ShownChildBefore ==
    ASSUME ContractInv, ParentsAlive, [Next]_vars, UNCHANGED snap, NEW pid \in Pid, NEW above,
           ShownChild(pid, above)'
    PROVE  ShownChild(pid, above) /\ parent'[snap[pid].who] = parent[snap[pid].who]
<1>1. snap[pid].who \in Proc /\ status[snap[pid].who] # "unborn"
  BY DEF ShownChild, ContractInv, IdentityInv, RowsReal
<1> QED
  BY <1>1, ParentBefore DEF ShownChild, HasParentAt

\* The parent of a process that is there has its number now.
LEMMA ParentHolds ==
    ASSUME ContractInv, ParentsAlive, NEW p \in Proc, NEW above \in Pid, HasParentAt(p, above)
    PROVE  Occupant(above) = parent[p] /\ Alive(parent[p]) /\ parent[p] # NoProc
<1>1. parent[p] \in Proc /\ status[parent[p]] \in Live /\ Has(above, parent[p])
  BY DEF HasParentAt, ParentsAlive, Has, Present
<1> QED
  BY <1>1, OccupantIs, KernelAssumption DEF ContractInv, IdentityInv, Alive

\* The steps of a sweep, and what they change of who hangs where.
RecordsRoot == /\ pc = "root" /\ pc' = "list" /\ frozen' = {RootPid} /\ node'[RootPid].depth = 0
               /\ UNCHANGED <<work, vanished>>
Misses(pid) == /\ pc = "select" /\ Occupant(pid) = NoProc /\ pc' \in {"drain", "select"}
               /\ work' = work \ {pid} /\ vanished' = vanished \cup {pid}
               /\ UNCHANGED <<frozen, node, snap>>
Takes(pid) == /\ pc = "select" /\ Occupant(pid) # NoProc /\ pc' = "state"
              /\ work' = work \ {pid} /\ cur' = pid /\ handle'[pid] = Occupant(pid)
              /\ UNCHANGED <<vanished, frozen, node, snap>>
Holds == /\ UNCHANGED <<cur, handle, work, vanished, frozen, node, snap>>
         /\ \/ pc = "state" /\ pc' = "stop" /\ before'.who = Occupant(cur)
            \/ pc = "stop" /\ pc' = "ack" /\ UNCHANGED before
Drops == /\ pc' \in {"drain", "select"} /\ vanished' = vanished \cup {cur}
         /\ \/ pc = "state" /\ ~Alive(Occupant(cur))
            \/ pc = "stop" /\ Gone(handle[cur])
            \/ pc = "ack" /\ ~(Occupant(cur) = before.who /\ Alive(Occupant(cur)))
         /\ UNCHANGED <<work, frozen, node, snap>>
Records == /\ pc = "ack" /\ pc' \in {"drain", "select"} /\ frozen' = frozen \cup {cur}
           /\ node' = [node EXCEPT ![cur] = NodeOf(snap[cur], newDepth[cur], Transitioned)]
           /\ UNCHANGED <<work, vanished, snap>>
Scans == /\ pc \in {"list", "read"} /\ pc' \in {"read", "drain"} /\ vanished' = {}
         /\ UNCHANGED <<work, frozen, node>>
Discovers == /\ pc = "drain" /\ pc' = "select" /\ work' = UnfrozenMembers \ vanished
             /\ UNCHANGED <<vanished, frozen, node, snap>>
Passes == /\ pc = "drain" /\ pc' \in {"verify", "list"}
          /\ UNCHANGED <<work, vanished, frozen, node, snap>>
Idles == UNCHANGED <<pc, cur, before, handle, work, vanished, frozen, node, snap>>

LEMMA SweepSteps ==
    ASSUME ContractInv, CleanupInv, PassClean, ReadsFirst, [Next]_vars, Sweeping'
    PROVE  /\ UNCHANGED request
           /\ \/ RecordsRoot
              \/ /\ Sweeping
                 /\ \/ \E pid \in work : Misses(pid) \/ Takes(pid)
                    \/ Holds \/ Drops \/ Records \/ Scans \/ Discovers \/ Passes \/ Idles
<1> USE DEF Gathering, Taking
<1>0. TypeOK /\ Gathering' /\ frozen' # {} /\ InTree'
  BY DEF ContractInv, TypeInv, Sweeping
<1>1. CASE SelectMember
  <2>1. UNCHANGED <<request, frozen, node, snap>> /\ pc = "select"
    BY <1>1 DEF SelectMember, scanVars
  <2>2. PICK pid \in work :
          /\ work' = work \ {pid}
          /\ \/ /\ Pinned(pid) = NoProc /\ vanished' = vanished \cup {pid}
                /\ pc' \in {"drain", "select"}
             \/ /\ Pinned(pid) # NoProc /\ cur' = pid /\ pc' = "state" /\ UNCHANGED vanished
                /\ handle' = [handle EXCEPT ![pid] = Pinned(pid)]
    BY <1>0, <1>1 DEF SelectMember, RefuseNow, Refuse
  <2>3. Pinned(pid) = Occupant(pid) /\ pid \in Pid
    BY <1>0, <2>1 DEF ContractInv, IdentityInv, WorkWaits, Pinned, TypeOK
  <2>4. Misses(pid) \/ Takes(pid)
    BY <1>0, <2>1, <2>2, <2>3 DEF Misses, Takes, TypeOK
  <2> QED
    BY <1>0, <2>1, <2>4 DEF Sweeping, InTree
<1>2. CASE ReadState \/ SubmitStop \/ Acknowledge
  <2>1. UNCHANGED <<request, work, snap>> /\ pc \in {"state", "stop", "ack"}
    BY <1>2 DEF ReadState, SubmitStop, Acknowledge, StopFrame, scanVars
  <2>2. Holds \/ Drops \/ Records
    <3>1. CASE ReadState
      BY <1>0, <2>1, <3>1 DEF ReadState, StopNotFound, RefuseNow, Refuse, Holds, Drops
    <3>2. CASE SubmitStop
      BY <1>0, <2>1, <3>2 DEF SubmitStop, StopFrame, StopNotFound, StopFailed, RefuseNow, Refuse,
                              Holds, Drops
    <3>3. CASE Acknowledge
      BY <1>0, <2>1, <3>3 DEF Acknowledge, StopFrame, StopNotFound, StopFailed, StopAcknowledged,
                              RefuseNow, Refuse, Drops, Records
    <3> QED
      BY <1>2, <3>1, <3>2, <3>3
  <2>3. frozen # {}
    BY <1>0, <1>2 DEF ReadState, SubmitStop, Acknowledge, StopNotFound, StopFailed,
                      StopAcknowledged, RefuseNow, Refuse
  <2> QED
    BY <1>0, <2>1, <2>2, <2>3 DEF Sweeping, InTree
<1>3. CASE ListProcesses \/ ReadStatus \/ ReadStat \/ SnapshotTaken
  <2>1. UNCHANGED <<request, work, frozen, node>>
    BY <1>3 DEF ListProcesses, ReadStatus, ReadStat, SnapshotTaken, ScanFrame, sweepVars
  <2>2. pc \in {"list", "read"} /\ pc' \in {"read", "drain"}
    BY <1>0, <1>3, <2>1 DEF ListProcesses, ReadStatus, ReadStat, SnapshotTaken, RefuseNow, Refuse
  <2>3. vanished' = {}
    BY <1>3, <2>2 DEF ListProcesses, ReadStatus, ReadStat, SnapshotTaken, ScanFrame, sweepVars,
                      PassClean, ReadsFirst
  <2> QED
    BY <1>0, <2>1, <2>2, <2>3 DEF Sweeping, InTree, Scans
<1>4. CASE CheckRoot
  <2>1. /\ UNCHANGED <<request, work, vanished>> /\ pc = "root" /\ pc' = "list"
        /\ frozen' = {RootPid}
    BY <1>0, <1>4 DEF CheckRoot, Refuse, sweepVars
  <2>2. node' = [node EXCEPT ![RootPid] = NodeAs(RootProc, snap[RootPid], 0, node[RootPid].resume)]
    BY <1>4, <2>1 DEF CheckRoot, Refuse
  <2>3. node'[RootPid].depth = 0
    BY <1>0, <2>2, RootPidType DEF TypeOK, NodeAs
  <2> QED
    BY <2>1, <2>3 DEF RecordsRoot
<1>5. CASE Drain
  <2>1. UNCHANGED <<request, frozen, node, snap, vanished>> /\ pc = "drain"
    BY <1>5 DEF Drain, scanVars
  <2>2. Discovers \/ Passes
    BY <1>0, <1>5, <2>1 DEF Drain, RefuseNow, Refuse, Discovers, Passes
  <2> QED
    BY <1>0, <2>1, <2>2 DEF Sweeping, InTree
<1>6. CASE Expire \/ Interrupt \/ Environment \/ UNCHANGED vars
  <2>1. UNCHANGED <<request, pc, cur, before, handle, work, vanished, frozen, node, snap>>
    BY <1>6 DEF Expire, Interrupt, Others, Environment, vars, executorVars, controlVars, stopVars,
                scanVars, sweepVars
  <2> QED
    BY <1>0, <2>1 DEF Sweeping, InTree, Idles
<1>7. CASE \/ Verify \/ StateReadFails \/ SnapshotFails \/ ReadEvidence \/ Authorize \/ Deliver
           \/ ContinueMember \/ ContinueGroup \/ Thaw \/ Finish
  BY <1>0, <1>7
     DEF Verify, StateReadFails, StopFailed, SnapshotFails, ReadEvidence, Authorize, Deliver,
         ContinueMember, ContinueGroup, Thaw, Finish, RefuseNow, Refuse
<1> QED
  BY <1>1, <1>2, <1>3, <1>4, <1>5, <1>6, <1>7 DEF Next, Executor, Terminated

LEMMA NextVanished ==
    ASSUME ContractInv, CleanupInv, PassClean, ParentsAlive, HangInv, [Next]_vars
    PROVE  VanishedGone'
<1> SUFFICES ASSUME Sweeping', NEW m \in vanished', NEW pid \in Pid, ShownChild(pid, m)'
             PROVE  FALSE
  BY DEF VanishedGone
<1>0. TypeOK /\ ReadsFirst /\ VanishedGone /\ ParentPinned
  BY DEF ContractInv, TypeInv, HangInv
<1>1. ASSUME UNCHANGED snap, Sweeping
      PROVE  ShownChild(pid, m) /\ m \notin vanished
  BY <1>0, <1>1, ShownChildBefore DEF VanishedGone
<1>2. ASSUME UNCHANGED snap, Sweeping, m \in Pid
      PROVE  /\ Occupant(m) = parent[snap[pid].who] /\ Alive(Occupant(m)) /\ Occupant(m) # NoProc
  <2>1. snap[pid].who \in Proc /\ HasParentAt(snap[pid].who, m)
    BY <1>1, <1>2 DEF ShownChild, ContractInv, IdentityInv, RowsReal
  <2> QED
    BY <1>2, <2>1, ParentHolds
<1>3. CASE RecordsRoot \/ Scans
  BY <1>0, <1>3 DEF RecordsRoot, Scans, PassClean, ReadsFirst, Gathering
<1>4. CASE Sweeping /\ \E k \in work : Misses(k)
  <2>1. PICK k \in work : Misses(k)
    BY <1>4
  <2>2. k \in Pid /\ m = k
    BY <1>0, <1>1, <1>4, <2>1 DEF Misses, TypeOK
  <2> QED
    BY <1>2, <1>4, <2>1, <2>2 DEF Misses
<1>5. CASE Sweeping /\ Drops
  <2>1. cur \in Pid /\ m = cur /\ UNCHANGED snap /\ ShownChild(pid, cur)
    BY <1>0, <1>1, <1>5 DEF Drops, TypeOK
  <2>2. pc \in {"state", "stop", "ack"}
    BY <1>5 DEF Drops
  <2>3. /\ Occupant(cur) = handle[cur] /\ Alive(Occupant(cur))
        /\ pc \in {"stop", "ack"} => before.who = handle[cur]
    BY <1>0, <1>2, <1>5, <2>1, <2>2 DEF ParentPinned, Taking
  <2> QED
    BY <1>5, <2>3 DEF Drops, Gone, Alive, Present
<1>6. CASE Sweeping /\ ((\E k \in work : Takes(k)) \/ Holds \/ Records \/ Discovers \/ Passes \/ Idles)
  BY <1>1, <1>6 DEF Takes, Holds, Records, Discovers, Passes, Idles
<1> QED
  BY <1>0, <1>3, <1>4, <1>5, <1>6, SweepSteps

LEMMA NextParentPinned ==
    ASSUME ContractInv, CleanupInv, PassClean, ParentsAlive, HangInv, [Next]_vars
    PROVE  ParentPinned'
<1> SUFFICES ASSUME Sweeping', Taking', NEW pid \in Pid, ShownChild(pid, cur)'
             PROVE  /\ handle'[cur'] = parent'[snap'[pid].who]
                    /\ pc' \in {"stop", "ack"} => before'.who = handle'[cur']
  BY DEF ParentPinned
<1>0. TypeOK /\ TypeOK' /\ ReadsFirst /\ ParentPinned
  BY NextContract DEF ContractInv, TypeInv, HangInv
<1>1. ASSUME UNCHANGED snap
      PROVE  ShownChild(pid, cur') /\ parent'[snap'[pid].who] = parent[snap[pid].who]
  BY <1>1, ShownChildBefore DEF ShownChild
<1>2. ASSUME UNCHANGED snap
      PROVE  Occupant(cur') = parent[snap[pid].who]
  <2>1. snap[pid].who \in Proc /\ HasParentAt(snap[pid].who, cur') /\ cur' \in Pid
    BY <1>0, <1>1, <1>2 DEF ShownChild, ContractInv, IdentityInv, RowsReal, TypeOK
  <2> QED
    BY <2>1, ParentHolds
<1>3. CASE \E k \in work : Takes(k)
  BY <1>1, <1>2, <1>3 DEF Takes
<1>4. CASE Sweeping /\ Holds
  <2>1. Taking
    BY <1>4 DEF Holds, Taking
  <2> QED
    BY <1>0, <1>1, <1>2, <1>4, <2>1 DEF Holds, ParentPinned
<1>5. CASE Sweeping /\ Idles
  <2>1. Taking
    BY <1>5 DEF Idles, Taking
  <2> QED
    BY <1>0, <1>1, <1>5, <2>1 DEF Idles, ParentPinned
<1>6. CASE RecordsRoot \/ (\E k \in work : Misses(k)) \/ Drops \/ Records \/ Scans \/ Discovers \/ Passes
  BY <1>6 DEF RecordsRoot, Misses, Drops, Records, Scans, Discovers, Passes, Taking
<1> QED
  BY <1>0, <1>3, <1>4, <1>5, <1>6, SweepSteps

\* One link up, the links of a row are those of its parent.
LEMMA ClimbShift ==
    ASSUME TypeOK, NEW pid \in Pid, Shown(pid), snap[pid].parent \in Pid
    PROVE  \A k \in Nat : Climb[k + 1][pid] = Climb[k][snap[pid].parent]
<1> DEFINE q == snap[pid].parent
           T == {k \in Nat : Climb[k + 1][pid] = Climb[k][q]}
<1>1. 0 \in T
  <2>1. Climb[0 + 1][pid] = Link(Climb[0][pid])
    BY ClimbUnfold
  <2> QED
    BY <2>1, ClimbUnfold DEF Link
<1>2. ASSUME NEW k \in T PROVE k + 1 \in T
  <2>1. k \in Nat /\ k + 1 \in Nat /\ Climb[k + 1][pid] = Climb[k][q]
    BY <1>2
  <2>2. Climb[(k + 1) + 1][pid] = Link(Climb[k + 1][pid])
    BY <2>1, ClimbUnfold
  <2>3. Climb[k + 1][q] = Link(Climb[k][q])
    BY <2>1, ClimbUnfold
  <2> QED
    BY <2>1, <2>2, <2>3
<1>3. T = Nat
  <2> HIDE DEF T
  <2>1. T \subseteq Nat
    BY DEF T
  <2> QED
    BY <1>1, <1>2, <2>1, NatSteps
<1> QED
  BY <1>3

\* Above a number that has no row there is nothing.
LEMMA ClimbStays ==
    ASSUME TypeOK, NEW pid \in Pid, Shown(pid), ~Shown(snap[pid].parent)
    PROVE  \A k \in Nat : Climb[k + 1][pid] = snap[pid].parent
<1> DEFINE T == {k \in Nat : Climb[k + 1][pid] = snap[pid].parent}
<1>1. 0 \in T
  <2>1. Climb[0 + 1][pid] = Link(Climb[0][pid])
    BY ClimbUnfold
  <2> QED
    BY <2>1, ClimbUnfold DEF Link
<1>2. ASSUME NEW k \in T PROVE k + 1 \in T
  <2>1. k \in Nat /\ k + 1 \in Nat /\ Climb[k + 1][pid] = snap[pid].parent
    BY <1>2
  <2>2. Climb[(k + 1) + 1][pid] = Link(Climb[k + 1][pid])
    BY <2>1, ClimbUnfold
  <2> QED
    BY <2>1, <2>2 DEF Link
<1>3. T = Nat
  <2> HIDE DEF T
  <2>1. T \subseteq Nat
    BY DEF T
  <2> QED
    BY <1>1, <1>2, <2>1, NatSteps
<1> QED
  BY <1>3

\* The depth of a row is counted from the first recorded member above it.
LEMMA DepthIs ==
    ASSUME InTree, NEW pid \in Pid, NEW n \in Links, Hangs(pid, n)
    PROVE  DepthOf(pid) = node[Climb[n][pid]].depth + n
<1>1. Cardinality(Pid) \in Nat
  BY KernelAssumption, FS_CardinalityType
<1>2. ASSUME NEW k \in Links, Hangs(pid, k) PROVE k = n
  <2>1. n \in 1..Cardinality(Pid) /\ k \in 1..Cardinality(Pid)
    BY DEF Links
  <2>2. ~(k < n)
    <3>1. k < n => k \in 1..(n - 1)
      BY <1>1, <2>1
    <3> QED
      BY <1>2, <3>1 DEF Hangs
  <2>3. ~(n < k)
    <3>1. n < k => n \in 1..(k - 1)
      BY <1>1, <2>1
    <3> QED
      BY <1>2, <3>1 DEF Hangs
  <2> QED
    BY <1>1, <2>1, <2>2, <2>3
<1> DEFINE first == CHOOSE k \in Links : Hangs(pid, k)
<1>3. first = n
  <2>1. first \in Links /\ Hangs(pid, first)
    OBVIOUS
  <2> HIDE DEF first
  <2> QED
    BY <1>2, <2>1
<1>4. ~InGroup
  BY DEF InTree, InGroup
<1> QED
  BY <1>3, <1>4 DEF DepthOf

\* Who is discovered hangs from a recorded member, or from another one discovered, and
\* one deeper than that.
LEMMA DiscoveredHang ==
    ASSUME TypeOK, InTree, NEW pid \in UnfrozenMembers
    PROVE  /\ pid \in Pid /\ snap[pid].parent \in frozen \cup UnfrozenMembers
           /\ DepthOf(pid) \in Nat
           /\ snap[pid].parent \in frozen => DepthOf(pid) = node[snap[pid].parent].depth + 1
           /\ snap[pid].parent \in UnfrozenMembers => DepthOf(pid) = DepthOf(snap[pid].parent) + 1
<1>1. pid \in Pid \ frozen /\ Shown(pid)
  BY DEF UnfrozenMembers, UnfrozenChildren
<1>2. PICK n \in Links : Hangs(pid, n)
  BY DEF UnfrozenMembers, UnfrozenChildren
<1>3. Cardinality(Pid) \in Nat /\ n \in 1..Cardinality(Pid)
  BY KernelAssumption, FS_CardinalityType DEF Links
<1> DEFINE q == snap[pid].parent
<1>4. Climb[1][pid] = q
  <2>1. Climb[0 + 1][pid] = Link(Climb[0][pid])
    BY <1>1, ClimbUnfold
  <2> QED
    BY <1>1, <2>1, ClimbUnfold DEF Link
<1>0. /\ DepthOf(pid) = node[Climb[n][pid]].depth + n
      /\ Climb[n][pid] \in frozen /\ node[Climb[n][pid]].depth \in Nat
  <2>1. Climb[n][pid] \in frozen /\ Climb[n][pid] \in Pid
    BY <1>2 DEF Hangs, TypeOK
  <2> QED
    BY <1>1, <1>2, <2>1, DepthIs DEF TypeOK, Node
<1>7. DepthOf(pid) \in Nat
  BY <1>0, <1>3
<1>5. CASE n = 1
  <2>1. q \in frozen /\ q \notin UnfrozenMembers
    BY <1>2, <1>4, <1>5 DEF Hangs, UnfrozenMembers, UnfrozenChildren
  <2> QED
    BY <1>0, <1>1, <1>4, <1>5, <1>7, <2>1
<1>6. CASE n # 1
  <2>1. n - 1 \in 1..Cardinality(Pid) /\ n - 1 \in Nat /\ (n - 1) + 1 = n
    BY <1>3, <1>6
  <2>2. q \notin frozen
    <3>1. 1 \in 1..(n - 1)
      BY <2>1
    <3> QED
      BY <1>2, <1>4, <3>1 DEF Hangs
  <2>3. Climb[n][pid] \in frozen
    BY <1>2 DEF Hangs
  <2>4. Shown(q) /\ q \in Pid
    <3>1. SUFFICES ASSUME ~Shown(q) PROVE FALSE
      BY DEF Shown
    <3>2. Climb[(n - 1) + 1][pid] = q
      BY <1>1, <2>1, <3>1, ClimbStays
    <3> QED
      BY <2>1, <2>2, <2>3, <3>2
  <2>5. \A k \in Nat : Climb[k + 1][pid] = Climb[k][q]
    BY <1>1, <2>4, ClimbShift
  <2>6. Climb[n - 1][q] \in frozen
    <3>1. Climb[(n - 1) + 1][pid] = Climb[n - 1][q]
      BY <2>1, <2>5
    <3> QED
      BY <2>1, <2>3, <3>1
  <2>7. ASSUME NEW k \in 1..((n - 1) - 1) PROVE Climb[k][q] \notin frozen
    <3>1. k + 1 \in 1..(n - 1) /\ k \in Nat
      BY <1>3, <2>7
    <3>2. Climb[k + 1][pid] \notin frozen
      BY <1>2, <3>1 DEF Hangs
    <3> QED
      BY <2>5, <3>1, <3>2
  <2>8. Hangs(q, n - 1) /\ n - 1 \in Links
    BY <2>1, <2>6, <2>7 DEF Hangs, Links
  <2>9. Climb[(n - 1) + 1][pid] = Climb[n - 1][q]
    BY <2>1, <2>5
  <2>10. DepthOf(q) = node[Climb[n][pid]].depth + (n - 1)
    BY <2>1, <2>4, <2>8, <2>9, DepthIs
  <2>11. DepthOf(pid) = DepthOf(q) + 1
    BY <1>0, <1>3, <2>10
  <2> QED
    BY <1>1, <1>7, <2>2, <2>4, <2>8, <2>11 DEF UnfrozenMembers, UnfrozenChildren
<1> QED
  BY <1>5, <1>6

\* Who waits stays in sight: to be stopped, recorded, or known to have vanished.
LEMMA WaitingStays ==
    ASSUME ContractInv, Sweeping,
           \/ \E k \in work : Misses(k) \/ Takes(k)
           \/ Holds \/ Drops \/ Records \/ Scans \/ Discovers \/ Passes \/ Idles
    PROVE  /\ Waiting \subseteq Pid
           /\ frozen \cup Waiting \cup vanished \subseteq frozen' \cup Waiting' \cup vanished'
                 \/ (Scans /\ Waiting = {} /\ Waiting' = {} /\ frozen' = frozen)
           /\ Waiting' \subseteq Waiting \/ (Discovers /\ Waiting = {} /\ Waiting' = work')
           /\ Waiting' = {} \/ UNCHANGED snap
<1> USE DEF Waiting, Taking
<1>0. /\ TypeOK
      /\ pc # "select" /\ ~Taking => work = {}
  BY DEF ContractInv, TypeInv, IdentityInv, WorkWaits, Sweeping, Gathering
<1>1. Waiting \subseteq Pid
  BY <1>0 DEF TypeOK
<1>2. CASE \E k \in work : Misses(k) \/ Takes(k)
  BY <1>1, <1>2 DEF Misses, Takes
<1>3. CASE Holds \/ Drops \/ Records
  BY <1>1, <1>3 DEF Holds, Drops, Records
<1>4. CASE Scans
  BY <1>0, <1>1, <1>4 DEF Scans
<1>5. CASE Discovers \/ Passes
  BY <1>0, <1>1, <1>5 DEF Discovers, Passes
<1>6. CASE Idles
  BY <1>1, <1>6 DEF Idles
<1> QED
  BY <1>2, <1>3, <1>4, <1>5, <1>6

LEMMA NextWork ==
    ASSUME ContractInv, CleanupInv, PassClean, ParentsAlive, HangInv, [Next]_vars
    PROVE  WorkTracked'
<1> SUFFICES ASSUME Sweeping', NEW pid \in Waiting'
             PROVE  snap'[pid].parent \in frozen' \cup Waiting' \cup vanished'
  BY DEF WorkTracked
<1>0. TypeOK /\ ReadsFirst /\ WorkTracked
  BY DEF ContractInv, TypeInv, HangInv
<1>1. CASE RecordsRoot
  BY <1>1 DEF RecordsRoot, Waiting, Taking, ContractInv, IdentityInv, WorkWaits, Gathering
<1>2. CASE Sweeping /\ Discovers
  <2>1. InTree /\ pid \in UnfrozenMembers \ vanished /\ work' = UnfrozenMembers \ vanished
    BY <1>2 DEF Discovers, Sweeping, Waiting, Taking
  <2>2. snap[pid].parent \in frozen \cup UnfrozenMembers
    BY <1>0, <2>1, DiscoveredHang
  <2> QED
    BY <1>2, <2>1, <2>2 DEF Discovers, Waiting
<1>3. CASE /\ Sweeping /\ ~Discovers
           /\ \/ \E k \in work : Misses(k) \/ Takes(k)
              \/ Holds \/ Drops \/ Records \/ Scans \/ Passes \/ Idles
  <2>1. /\ frozen \cup Waiting \cup vanished \subseteq frozen' \cup Waiting' \cup vanished'
        /\ pid \in Waiting /\ UNCHANGED snap
    BY <1>3, WaitingStays
  <2> QED
    BY <1>0, <1>3, <2>1 DEF WorkTracked
<1> QED
  BY <1>0, <1>1, <1>2, <1>3, SweepSteps DEF HangInv

\* While the scope is swept, the members are processes that have been born.
LEMMA MembersBorn ==
    ASSUME ContractInv, CleanupInv, Preparing \/ Delivering, NEW pid \in frozen
    PROVE  pid \in Pid /\ node[pid].who \in Proc /\ status[node[pid].who] # "unborn"
<1>0. pid \in Pid /\ NoProc \notin Proc
  BY KernelAssumption DEF ContractInv, TypeInv, TypeOK
<1>1. node[pid].who \in Proc
  BY DEF ContractInv, IdentityInv, FrozenPinned, MembersKnown, Preparing
<1>2. node[pid].who = handle[pid] \/ status[node[pid].who] = "dead"
  BY DEF ContractInv, IdentityInv, FrozenPinned, VerifiedPinned, Preparing
<1> QED
  BY <1>0, <1>1, <1>2 DEF CleanupInv, PinsBorn

LEMMA OrphanStays ==
    ASSUME ContractInv, CleanupInv, ParentsAlive, [Next]_vars, Preparing \/ Delivering,
           NEW pid \in frozen, Orphan(pid),
           node'[pid].who = node[pid].who, node'[pid].parent = node[pid].parent
    PROVE  Orphan(pid)'
<1>1. node[pid].who \in Proc /\ status[node[pid].who] # "unborn"
  BY MembersBorn
<1> QED
  BY <1>1, ParentBefore DEF Orphan, HasParentAt

LEMMA NextTracked ==
    ASSUME ContractInv, CleanupInv, PassClean, ParentsAlive, HangInv, [Next]_vars
    PROVE  Tracked'
<1> SUFFICES ASSUME Sweeping', NEW pid \in frozen', node'[pid].depth # 0
             PROVE  /\ node'[pid].parent \in Pid
                    /\ \/ node'[pid].parent \in frozen' \/ Orphan(pid)'
                       \/ node'[pid].parent \in Waiting' /\ snap'[pid].who = node'[pid].who
  BY DEF Tracked
<1>0. TypeOK /\ TypeOK' /\ Tracked /\ WorkTracked /\ VanishedGone' /\ VanishedGone /\ ReadsFirst
  BY NextContract, NextVanished DEF ContractInv, TypeInv, HangInv
<1>1. CASE RecordsRoot
  BY <1>1 DEF RecordsRoot
<1> DEFINE Later == \/ \E k \in work : Misses(k) \/ Takes(k)
                    \/ Holds \/ Drops \/ Records \/ Scans \/ Discovers \/ Passes \/ Idles
<1>2. ASSUME Sweeping, Later, pid \in frozen, node'[pid] = node[pid], frozen \subseteq frozen'
      PROVE  /\ node'[pid].parent \in Pid
             /\ \/ node'[pid].parent \in frozen' \/ Orphan(pid)'
                \/ node'[pid].parent \in Waiting' /\ snap'[pid].who = node'[pid].who
  <2>1. node[pid].parent \in Pid /\ Preparing
    BY <1>0, <1>2 DEF Tracked, Sweeping, Preparing
  <2>2. CASE node[pid].parent \in frozen
    BY <1>2, <2>1, <2>2
  <2>3. CASE Orphan(pid)
    BY <1>2, <2>1, <2>3, OrphanStays
  <2>4. CASE node[pid].parent \in Waiting /\ snap[pid].who = node[pid].who
    <3>1. /\ UNCHANGED snap
          /\ node[pid].parent \in frozen' \cup Waiting' \cup vanished'
      <4>1. ~Scans /\ ~Passes
        BY <1>2, <2>4 DEF Scans, Passes, Waiting, Taking, ContractInv, IdentityInv, WorkWaits,
                          Sweeping, Gathering
      <4>2. UNCHANGED snap
        BY <1>2, <4>1 DEF Misses, Takes, Holds, Drops, Records, Discovers, Idles
      <4> QED
        BY <1>2, <2>4, <4>1, <4>2, WaitingStays
    <3>2. CASE node[pid].parent \in vanished'
      <4>1. snap'[pid] # NoRow /\ pid \in Pid
        BY <1>2, <2>1, <2>4, <3>1, MembersBorn, KernelAssumption DEF NoRow
      <4>2. node'[pid].parent \in vanished' /\ node'[pid].who = snap'[pid].who
        BY <1>2, <2>4, <3>1, <3>2
      <4>3. (\A m \in vanished, k \in Pid : ~ShownChild(k, m))'
        BY <1>0 DEF VanishedGone
      <4>4. ~HasParentAt(node[pid].who, node[pid].parent)'
        BY <4>1, <4>2, <4>3 DEF ShownChild, HasParentAt
      <4> QED
        BY <1>2, <2>1, <4>4 DEF Orphan
    <3> QED
      BY <1>2, <2>1, <2>4, <3>1, <3>2
  <2> QED
    BY <1>0, <1>2, <2>2, <2>3, <2>4 DEF Tracked
<1>3. CASE Sweeping /\ Records
  <2>1. /\ cur \in Pid /\ cur \notin frozen /\ snap[cur] # NoRow /\ Taking
        /\ frozen' = frozen \cup {cur} /\ UNCHANGED snap
    BY <1>0, <1>3 DEF Records, ContractInv, IdentityInv, TakenPinned, Taking, Sweeping, TypeOK
  <2>2. CASE pid # cur
    <3>1. pid \in frozen /\ node'[pid] = node[pid]
      BY <1>0, <1>3, <2>1, <2>2 DEF Records, TypeOK
    <3> QED
      BY <1>2, <1>3, <2>1, <3>1
  <2>3. CASE pid = cur
    <3>1. node'[pid].who = snap[pid].who /\ node'[pid].parent = snap[pid].parent
      BY <1>0, <1>3, <2>1, <2>3 DEF Records, TypeOK, NodeOf, NodeAs
    <3>2. snap[pid].parent \in frozen \cup Waiting \cup vanished
      BY <1>0, <1>3, <2>1, <2>3 DEF WorkTracked, Waiting
    <3>3. vanished \subseteq Pid /\ Waiting \subseteq Pid /\ frozen \subseteq Pid
      BY <1>0 DEF TypeOK, Waiting
    <3>4. CASE snap[pid].parent \in frozen
      BY <2>1, <3>1, <3>3, <3>4
    <3>5. CASE snap[pid].parent \in Waiting
      BY <1>3, <2>1, <3>1, <3>3, <3>5 DEF Waiting, Records
    <3>6. CASE snap[pid].parent \in vanished
      <4>1. snap[pid].parent \in vanished'
        BY <1>3, <3>6 DEF Records
      <4>2. ~ShownChild(pid, snap[pid].parent)'
        BY <1>0, <2>1, <2>3, <4>1 DEF VanishedGone
      <4> QED
        BY <2>1, <2>3, <3>1, <3>3, <3>6, <4>2 DEF ShownChild, Orphan
    <3> QED
      BY <3>2, <3>4, <3>5, <3>6
  <2> QED
    BY <2>2, <2>3
<1>4. CASE Sweeping /\ Later /\ ~Records
  <2>1. UNCHANGED <<frozen, node>>
    BY <1>4 DEF Misses, Takes, Holds, Drops, Scans, Discovers, Passes, Idles
  <2> QED
    BY <1>2, <1>4, <2>1
<1> QED
  BY <1>0, <1>1, <1>3, <1>4, SweepSteps

\* Depths are given to who is discovered, and to nobody else.
LEMMA DepthsGiven ==
    ASSUME [Next]_vars
    PROVE  IF pc = "drain" /\ pc' = "select"
           THEN newDepth' = [pid \in Pid |-> IF pid \in UnfrozenMembers \ vanished THEN DepthOf(pid)
                                             ELSE 0]
           ELSE UNCHANGED newDepth
<1>1. CASE Drain
  BY <1>1 DEF Drain, RefuseNow, Refuse
<1>2. CASE \/ SelectMember \/ ReadState \/ SubmitStop \/ Acknowledge \/ StateReadFails
           \/ ListProcesses \/ ReadStatus \/ ReadStat \/ SnapshotTaken \/ SnapshotFails
           \/ CheckRoot \/ Verify
  BY <1>2 DEF SelectMember, ReadState, SubmitStop, Acknowledge, StateReadFails, StopFrame,
              ListProcesses, ReadStatus, ReadStat, SnapshotTaken, ScanFrame, SnapshotFails,
              CheckRoot, Verify, sweepVars
<1>3. CASE \/ ReadEvidence \/ Authorize \/ Deliver \/ ContinueMember \/ ContinueGroup \/ Thaw
           \/ Finish
  BY <1>3 DEF ReadEvidence, Authorize, Deliver, ContinueMember, ContinueGroup, ContinueFrame,
              Thaw, Finish, sweepVars
<1>4. CASE Expire \/ Interrupt \/ Environment \/ UNCHANGED vars
  BY <1>4 DEF Expire, Interrupt, Others, Environment, vars, executorVars, controlVars, sweepVars
<1> QED
  BY <1>1, <1>2, <1>3, <1>4 DEF Next, Executor, Terminated

\* Who waits and who is recorded are different numbers.
LEMMA WaitingApart ==
    ASSUME ContractInv, Sweeping
    PROVE  Waiting \cap frozen = {}
BY DEF Waiting, Taking, Sweeping, ContractInv, IdentityInv, WorkWaits, TakenPinned, Gathering

\* What a step of a sweep other than a discovery does to who waits and to the depths.
LEMMA DepthsStay ==
    ASSUME ContractInv, [Next]_vars, Sweeping, ~Discovers,
           \/ \E k \in work : Misses(k) \/ Takes(k)
           \/ Holds \/ Drops \/ Records \/ Scans \/ Passes \/ Idles
    PROVE  /\ Waiting' \subseteq Waiting /\ UNCHANGED newDepth
           /\ Waiting' = {} \/ UNCHANGED snap
           /\ \/ UNCHANGED <<frozen, node>>
              \/ /\ Records /\ cur \in Waiting /\ frozen' = frozen \cup {cur} /\ cur \in Pid
                 /\ \A m \in frozen : m # cur /\ node'[m] = node[m]
                 /\ node'[cur].depth = newDepth[cur] /\ node'[cur].parent = snap[cur].parent
<1>1. Waiting' \subseteq Waiting /\ (Waiting' = {} \/ UNCHANGED snap)
  BY WaitingStays
<1>2. ~(pc = "drain" /\ pc' = "select")
  BY DEF Misses, Takes, Holds, Drops, Records, Scans, Passes, Idles
<1>3. UNCHANGED newDepth
  BY <1>2, DepthsGiven
<1>4. CASE Records
  <2>1. /\ TypeOK /\ cur \in Pid /\ cur \notin frozen /\ Taking
        /\ frozen' = frozen \cup {cur}
        /\ node' = [node EXCEPT ![cur] = NodeOf(snap[cur], newDepth[cur], Transitioned)]
    BY <1>4 DEF Records, ContractInv, TypeInv, TypeOK, IdentityInv, TakenPinned, Taking
  <2>2. \A m \in frozen : m # cur /\ node'[m] = node[m]
    BY <2>1 DEF TypeOK
  <2>3. node'[cur].depth = newDepth[cur] /\ node'[cur].parent = snap[cur].parent
    BY <2>1 DEF TypeOK, NodeOf, NodeAs
  <2> QED
    BY <1>1, <1>3, <1>4, <2>1, <2>2, <2>3 DEF Waiting
<1>5. CASE ~Records
  BY <1>1, <1>3, <1>5 DEF Misses, Takes, Holds, Drops, Scans, Passes, Idles
<1> QED
  BY <1>4, <1>5

LEMMA NextWorkDeeper ==
    ASSUME ContractInv, CleanupInv, PassClean, HangInv, [Next]_vars
    PROVE  WorkDeeper'
<1> SUFFICES ASSUME Sweeping', NEW pid \in Waiting'
             PROVE  /\ snap'[pid].parent \in frozen'
                         => node'[snap'[pid].parent].depth < newDepth'[pid]
                    /\ snap'[pid].parent \in Waiting'
                         => newDepth'[snap'[pid].parent] < newDepth'[pid]
  BY DEF WorkDeeper
<1>0. TypeOK /\ ReadsFirst /\ WorkDeeper
  BY DEF ContractInv, TypeInv, HangInv
<1>1. CASE RecordsRoot
  BY <1>1 DEF RecordsRoot, Waiting, Taking, ContractInv, IdentityInv, WorkWaits, Gathering
<1>2. CASE Sweeping /\ Discovers
  <2> DEFINE q == snap[pid].parent
             late == UnfrozenMembers \ vanished
  <2>1. /\ InTree /\ pid \in late /\ Waiting' = late /\ UNCHANGED <<frozen, node, snap>>
        /\ newDepth' = [k \in Pid |-> IF k \in late THEN DepthOf(k) ELSE 0]
    BY <1>2, DepthsGiven DEF Discovers, Sweeping, Waiting, Taking
  <2>2. late \subseteq Pid
    BY DEF UnfrozenMembers, UnfrozenChildren, UnfrozenGroupMembers
  <2>3. \A k \in late : newDepth'[k] = DepthOf(k)
    BY <2>1, <2>2
  <2>4. /\ DepthOf(pid) \in Nat
        /\ q \in frozen => DepthOf(pid) = node[q].depth + 1
        /\ q \in late => DepthOf(pid) = DepthOf(q) + 1 /\ DepthOf(q) \in Nat
    BY <1>0, <2>1, DiscoveredHang
  <2>5. q \in frozen => node[q].depth \in Nat
    BY <1>0 DEF TypeOK, Node
  <2> HIDE DEF q, late
  <2>6. /\ q \in frozen => node[q].depth < newDepth'[pid]
        /\ q \in late => newDepth'[q] < newDepth'[pid]
    BY <2>1, <2>3, <2>4, <2>5
  <2> QED
    BY <2>1, <2>6 DEF q
<1>3. CASE /\ Sweeping /\ ~Discovers
           /\ \/ \E k \in work : Misses(k) \/ Takes(k)
              \/ Holds \/ Drops \/ Records \/ Scans \/ Passes \/ Idles
  BY <1>0, <1>3, DepthsStay DEF WorkDeeper
<1> QED
  BY <1>0, <1>1, <1>2, <1>3, SweepSteps

LEMMA NextMembersDeeper ==
    ASSUME ContractInv, CleanupInv, PassClean, ParentsAlive, HangInv, [Next]_vars
    PROVE  MembersDeeper'
<1> SUFFICES ASSUME Sweeping', NEW pid \in frozen', node'[pid].depth # 0, ~Orphan(pid)'
             PROVE  \/ Deeper(pid)'
                    \/ /\ node'[pid].parent \in Waiting'
                       /\ newDepth'[node'[pid].parent] < node'[pid].depth
  BY DEF MembersDeeper
<1>0. TypeOK /\ ReadsFirst /\ WorkDeeper /\ MembersDeeper
  BY DEF ContractInv, TypeInv, HangInv
<1>1. node'[pid].parent \in frozen' \cup Waiting'
  BY NextTracked DEF Tracked
<1>2. CASE RecordsRoot
  BY <1>2 DEF RecordsRoot
<1>3. ASSUME Sweeping, pid \in frozen, node'[pid] = node[pid]
      PROVE  \/ Deeper(pid)
             \/ node[pid].parent \in Waiting /\ newDepth[node[pid].parent] < node[pid].depth
  <2>1. ~Orphan(pid)
    BY <1>3, OrphanStays DEF Sweeping, Preparing
  <2> QED
    BY <1>0, <1>3, <2>1 DEF MembersDeeper
<1>4. CASE Sweeping /\ Discovers
  <2>1. /\ Waiting = {} /\ pid \in frozen /\ UNCHANGED <<frozen, node>>
    BY <1>4 DEF Discovers, Waiting, Taking, Sweeping, ContractInv, IdentityInv, WorkWaits
  <2>2. Deeper(pid)
    BY <1>3, <1>4, <2>1
  <2> QED
    BY <2>1, <2>2 DEF Deeper
<1>5. CASE /\ Sweeping /\ ~Discovers
           /\ \/ \E k \in work : Misses(k) \/ Takes(k)
              \/ Holds \/ Drops \/ Records \/ Scans \/ Passes \/ Idles
  <2>1. /\ Waiting' \subseteq Waiting /\ UNCHANGED newDepth
        /\ Waiting \cap frozen = {} /\ Waiting' \cap frozen' = {}
        /\ \/ UNCHANGED <<frozen, node>>
           \/ /\ Records /\ cur \in Waiting /\ frozen' = frozen \cup {cur}
              /\ \A m \in frozen : m # cur /\ node'[m] = node[m]
              /\ node'[cur].depth = newDepth[cur] /\ node'[cur].parent = snap[cur].parent
    <3>1. Waiting' \cap frozen' = {}
      BY NextContract DEF Waiting, Taking, Sweeping, ContractInv, IdentityInv, WorkWaits,
                          TakenPinned, Gathering
    <3> QED
      BY <1>5, <3>1, DepthsStay, WaitingApart
  <2>2. CASE UNCHANGED <<frozen, node>>
    BY <1>1, <1>3, <1>5, <2>1, <2>2 DEF Deeper
  <2>3. CASE Records /\ ~UNCHANGED <<frozen, node>> /\ pid # cur
    BY <1>1, <1>3, <1>5, <2>1, <2>3 DEF Deeper
  <2>4. CASE Records /\ ~UNCHANGED <<frozen, node>> /\ pid = cur
    <3> DEFINE m == snap[cur].parent
    <3>1. /\ m \in frozen => node[m].depth < newDepth[cur]
          /\ m \in Waiting => newDepth[m] < newDepth[cur]
      BY <1>0, <1>5, <2>1, <2>4 DEF WorkDeeper
    <3>2. newDepth[cur] \in Nat
      BY <1>0 DEF TypeOK
    <3>3. m # cur
      BY <2>1, <2>4, <3>1, <3>2
    <3>4. m \in frozen \/ m \in Waiting'
      BY <1>1, <2>1, <2>4, <3>3
    <3> QED
      BY <2>1, <2>4, <3>1, <3>4 DEF Deeper
  <2> QED
    BY <2>1, <2>2, <2>3, <2>4
<1> QED
  BY <1>0, <1>2, <1>4, <1>5, SweepSteps

LEMMA NextHang ==
    ContractInv /\ CleanupInv /\ ClosedInv /\ HangInv /\ [Next]_vars => HangInv'
BY NextReadsFirst, NextVanished, NextParentPinned, NextWork, NextTracked, NextWorkDeeper,
   NextMembersDeeper DEF HangInv, ClosedInv

LEMMA InitHang == Init => HangInv
BY DEF Init, HangInv, ReadsFirst, VanishedGone, ParentPinned, WorkTracked, Tracked, WorkDeeper,
       MembersDeeper, Sweeping

-----------------------------------------------------------------------------
\* Whom the closing snapshot shows below whom

\* The closing snapshot shows a member where it hung only if that is a member above it.
OrphansShown == InTree /\ Closing => \A pid \in frozen :
    node[pid].depth # 0 /\ ~Deeper(pid) =>
        /\ snap[pid].who = node[pid].who => snap[pid].parent # node[pid].parent
        /\ half.read /\ NextListed(pid) /\ Has(pid, node[pid].who)
             => half.parent # node[pid].parent

\* The parents of members are in it.
ParentsShown == InTree /\ Closing => \A pid \in frozen : LET p == node[pid].who IN
    status[p] \in Present /\ parent[p] \in Proc => Seen(parent[p])

\* A row that shows a member below another one is right about it, or is wrong about the
\* other one, who is dead.
Kin(p, q) == parent[p] = q \/ (parent[p] = Reaper /\ ~Alive(q))
KinOrWrong(p, m) == \/ Kin(p, node[m].who)
                    \/ status[node[m].who] = "dead" /\ snap[m].who # node[m].who
KinShown == InTree /\ Closing => \A pid, m \in frozen :
    /\ snap[pid].who = node[pid].who /\ snap[pid].parent = m => KinOrWrong(node[pid].who, m)
    /\ half.read /\ NextListed(pid) /\ Has(pid, node[pid].who) /\ half.parent = m
         => KinOrWrong(node[pid].who, m)

\* From the verification on, every member but the root hangs below another one.
KinKnown == InTree => \A pid \in Judged : node[pid].depth # 0 =>
    /\ Deeper(pid)
    /\ Kin(node[pid].who, node[node[pid].parent].who)

\* In a group, a member is in the group while it stands still.
GroupShown == InGroup /\ Closing => \A pid \in frozen :
    snap[pid].who = handle[pid] /\ handle[pid] \notin meddled
        => snap[pid].pgrp = pgrp[handle[pid]]
GroupKnown == InGroup => \A pid \in Judged :
    handle[pid] \notin meddled => pgrp[handle[pid]] = TargetGroup

KinInv == /\ HangInv /\ OrphansShown /\ ParentsShown /\ KinShown /\ KinKnown
          /\ GroupShown /\ GroupKnown

\* A closing snapshot has been begun, or was one.
LEMMA ClosingBefore ==
    ASSUME ContractInv, HalfIsOpen, [Next]_vars, Closing'
    PROVE  /\ Preparing
           /\ \/ Opens /\ ~half'.read
              \/ /\ SameScope /\ Closing
                 /\ \/ ReadStatus \/ ReadStat \/ Waits
                    \/ Decides /\ ~half'.read
<1> USE DEF Preparing, Gathering
<1>1. Opens \/ (SameScope /\ (ReadStatus \/ ReadStat \/ Decides \/ Waits))
  BY SnapshotSteps DEF OnSnapshot
<1>2. CASE Opens
  BY <1>2 DEF Opens, HalfIsOpen
<1>3. CASE SameScope /\ (ReadStatus \/ ReadStat)
  BY <1>3 DEF SameScope, OnSnapshot, Closing, Settled, ReadStatus, ReadStat
<1>4. CASE SameScope /\ Waits
  BY <1>4 DEF SameScope, OnSnapshot, Closing, Settled, Waits
<1>5. CASE SameScope /\ Decides
  <2>1. pc \in {"read", "drain", "verify"} /\ (pc = "read" => listing = {})
    BY <1>5 DEF Decides, SnapshotTaken, Drain, Verify, ReadEvidence, Authorize, Closing
  <2>2. ~half.read
    BY <2>1 DEF HalfIsOpen
  <2> QED
    BY <1>5, <2>1, <2>2 DEF SameScope, OnSnapshot, Closing, Settled, Decides
<1> QED
  BY <1>1, <1>2, <1>3, <1>4, <1>5

\* Nobody is waited for any more: a member hangs below another one, or is an orphan.
LEMMA OrphanKnown ==
    ASSUME ContractInv, Tracked, MembersDeeper, InTree, Closing, NEW pid \in frozen,
           node[pid].depth # 0
    PROVE  node[pid].parent \in Pid /\ (Deeper(pid) \/ Orphan(pid))
<1>1. Sweeping
  BY DEF Sweeping, Closing, Gathering
<1>2. Waiting = {}
  BY <1>1 DEF Waiting, Taking, Closing, Sweeping, ContractInv, IdentityInv, WorkWaits
<1> QED
  BY <1>1, <1>2 DEF Tracked, MembersDeeper

\* A row read by this step, or a half of one, is of a process that was there before it.
LEMMA MemberShown ==
    ASSUME ContractInv, CleanupInv, HalfIsOpen, [Next]_vars, Closing', NEW pid \in frozen',
           snap'[pid].who = node'[pid].who
    PROVE  \E p \in Proc :
             /\ SameScope /\ Closing /\ pid \in frozen /\ node[pid].who = p /\ PidOf[p] = pid
             /\ \/ snap[pid].who = p /\ snap'[pid] = snap[pid]
                \/ /\ half.read /\ NextListed(pid) /\ Has(pid, p)
                   /\ snap'[pid].parent = half.parent /\ snap'[pid].pgrp = pgrp[p]
<1>1. Preparing /\ OnSnapshot' /\ (Opens \/ (SameScope /\ Closing))
  BY ClosingBefore DEF OnSnapshot
<1>2. pid \in frozen /\ node'[pid].who = node[pid].who
  BY <1>1 DEF Opens, SameScope
<1>3. pid \in Pid /\ node[pid].who \in Proc
  BY <1>1, <1>2, MembersBorn
<1>4. PICK p \in Proc : p = node[pid].who
  BY <1>3
<1>5. snap'[pid] # NoRow
  BY <1>2, <1>4, KernelAssumption DEF NoRow
<1>6. RowsReal'
  BY NextContract DEF ContractInv, IdentityInv
<1>7. PidOf[p] = pid
  BY <1>2, <1>3, <1>4, <1>5, <1>6 DEF RowsReal
<1>8. Shows(p)'
  BY <1>2, <1>4, <1>7 DEF Shows
<1>9. ~Opens /\ ((Shows(p) /\ snap'[PidOf[p]] = snap[PidOf[p]]) \/ ReadNow(p))
  BY <1>1, <1>8, ShownBefore
<1> QED
  BY <1>1, <1>2, <1>4, <1>7, <1>9 DEF Shows, ReadNow

LEMMA HalfBefore ==
    ASSUME ContractInv, CleanupInv, HalfIsOpen, ParentsAlive, [Next]_vars, Closing',
           NEW pid \in frozen', half'.read, NextListed(pid)', Has(pid, node[pid].who)'
    PROVE  \E p \in Proc :
             /\ SameScope /\ Closing /\ pid \in frozen /\ node[pid].who = p /\ Has(pid, p)
             /\ UNCHANGED snap
             /\ \/ half'.parent = ParentPid(p) /\ UNCHANGED kernelVars
                \/ half.read /\ NextListed(pid) /\ UNCHANGED half
<1>1. /\ Preparing
      /\ \/ Opens /\ ~half'.read
         \/ /\ SameScope /\ Closing
            /\ \/ ReadStatus \/ ReadStat \/ Waits
               \/ Decides /\ ~half'.read
  BY ClosingBefore
<1>2. SameScope /\ Closing /\ (ReadStatus \/ ReadStat \/ Waits)
  BY <1>1
<1>3. pid \in frozen /\ node'[pid].who = node[pid].who
  BY <1>2 DEF SameScope
<1>4. PICK p \in Proc : p = node[pid].who /\ status[p] # "unborn"
  BY <1>1, <1>3, MembersBorn
<1>5. status'[p] \in Present /\ PidOf[p] = pid
  BY <1>3, <1>4 DEF Has
<1>6. Has(pid, p) /\ status[p] \in Present
  <2>1. KinOf(p)
    BY NextKin
  <2> QED
    BY <1>4, <1>5, <2>1 DEF KinOf, Has
<1>7. CASE ReadStatus
  <2>1. half'.parent = ParentPid(p)
    BY <1>5, <1>6, <1>7, HalfRead
  <2> QED
    BY <1>2, <1>3, <1>4, <1>6, <1>7, <2>1 DEF ReadStatus
<1>8. CASE ReadStat
  BY <1>8 DEF ReadStat, NoHalf
<1>9. CASE Waits
  <2>1. UNCHANGED <<half, snap, listing>>
    BY <1>9 DEF Waits
  <2> QED
    BY <1>2, <1>3, <1>4, <1>6, <2>1 DEF NextListed
<1> QED
  BY <1>2, <1>7, <1>8, <1>9

LEMMA NextOrphansShown ==
    ASSUME ContractInv, CleanupInv, HalfIsOpen, ParentsAlive, Tracked, MembersDeeper, OrphansShown,
           [Next]_vars
    PROVE  OrphansShown'
<1> SUFFICES ASSUME InTree', Closing', NEW pid \in frozen', node'[pid].depth # 0,
                    ~Deeper(pid)'
             PROVE  /\ snap'[pid].who = node'[pid].who => snap'[pid].parent # node'[pid].parent
                    /\ half'.read /\ NextListed(pid)' /\ Has(pid, node[pid].who)'
                         => half'.parent # node'[pid].parent
  BY DEF OrphansShown
<1>1. ASSUME SameScope, Closing
      PROVE  /\ InTree /\ pid \in frozen /\ node'[pid].parent = node[pid].parent
             /\ node[pid].depth # 0 /\ ~Deeper(pid)
             /\ node[pid].parent \in Pid /\ Orphan(pid)
  <2>1. /\ InTree /\ pid \in frozen /\ node'[pid].parent = node[pid].parent
        /\ node[pid].depth # 0 /\ ~Deeper(pid)
    BY <1>1 DEF SameScope, InTree, Deeper
  <2> QED
    BY <1>1, <2>1, OrphanKnown
<1>2. ASSUME snap'[pid].who = node'[pid].who
      PROVE  snap'[pid].parent # node'[pid].parent
  <2>1. PICK p \in Proc :
          /\ SameScope /\ Closing /\ node[pid].who = p
          /\ \/ snap[pid].who = p /\ snap'[pid] = snap[pid]
             \/ /\ half.read /\ NextListed(pid) /\ Has(pid, p)
                /\ snap'[pid].parent = half.parent
    BY <1>2, MemberShown
  <2> QED
    BY <1>1, <2>1 DEF OrphansShown
<1>3. ASSUME half'.read, NextListed(pid)', Has(pid, node[pid].who)'
      PROVE  half'.parent # node'[pid].parent
  <2>1. PICK p \in Proc :
          /\ SameScope /\ Closing /\ node[pid].who = p /\ Has(pid, p)
          /\ \/ half'.parent = ParentPid(p)
             \/ half.read /\ NextListed(pid) /\ UNCHANGED half
    BY <1>3, HalfBefore
  <2>2. CASE half'.parent = ParentPid(p)
    <3>1. parent[p] \in Proc => PidOf[parent[p]] # node[pid].parent
      BY <1>1, <2>1 DEF Orphan, HasParentAt, Has
    <3>2. parent[p] \notin Proc => OutsidePid[parent[p]] \notin Pid
      BY <2>1, KernelAssumption DEF ContractInv, TypeInv, TypeOK, KernelTypeOK
    <3> QED
      BY <1>1, <2>1, <2>2, <3>1, <3>2 DEF ParentPid
  <2>3. CASE half.read /\ NextListed(pid) /\ UNCHANGED half
    BY <1>1, <2>1, <2>3 DEF OrphansShown
  <2> QED
    BY <2>1, <2>2, <2>3
<1> QED
  BY <1>2, <1>3

LEMMA NextParentsShown ==
    ASSUME ContractInv, CleanupInv, HalfIsOpen, ParentsAlive, ParentsShown, [Next]_vars
    PROVE  ParentsShown'
<1> SUFFICES ASSUME InTree', Closing', NEW pid \in frozen',
                    status'[node'[pid].who] \in Present, parent'[node'[pid].who] \in Proc
             PROVE  Seen(parent[node[pid].who])'
  BY DEF ParentsShown
<1>1. Preparing /\ OnSnapshot' /\ (Opens \/ (SameScope /\ Closing))
  BY ClosingBefore DEF OnSnapshot
<1>2. pid \in frozen /\ node'[pid].who = node[pid].who /\ (Opens \/ InTree)
  BY <1>1 DEF Opens, SameScope, InTree
<1>3. PICK p \in Proc : p = node[pid].who /\ status[p] # "unborn"
  BY <1>1, <1>2, MembersBorn
<1>4. status[p] \in Present /\ parent'[p] = parent[p] /\ parent[p] \in Proc
  BY <1>2, <1>3, ParentBefore
<1>5. PICK q \in Proc : q = parent[p] /\ status[q] \in Present
  BY <1>3, <1>4 DEF ParentsAlive, Present
<1>6. Opens \/ Seen(parent[p])
  BY <1>1, <1>2, <1>3, <1>4 DEF ParentsShown
<1>7. Opens \/ Seen(q)
  BY <1>5, <1>6
<1>8. Seen(q)'
  BY <1>1, <1>5, <1>7, SeenStays
<1> QED
  BY <1>2, <1>3, <1>4, <1>5, <1>8 DEF Seen, Shows

\* A member below another one stays there, or is adopted when the other one ends.
LEMMA KinStays ==
    ASSUME ContractInv, ParentsAlive, [Next]_vars, NEW p \in Proc, NEW q \in Proc,
           status[p] # "unborn", status[q] # "unborn", Kin(p, q)
    PROVE  Kin(p, q)'
<1>1. KinOf(p) /\ KinOf(q) /\ Reaper \notin Proc
  BY NextKin, KernelAssumption
<1>2. ~Alive(q) => ~Alive(q)'
  BY <1>1 DEF KinOf, Alive
<1> QED
  BY <1>1, <1>2 DEF KinOf, Kin, Alive

\* The dead stay dead, and a snapshot that does not show one never will.
LEMMA WrongStays ==
    ASSUME ContractInv, HalfIsOpen, [Next]_vars, OnSnapshot', SameScope, NEW m \in Pid,
           NEW q \in Proc, status[q] = "dead", snap[m].who # q
    PROVE  status'[q] = "dead" /\ snap'[m].who # q
<1>1. Ages
  BY NextAges DEF ContractInv, IdentityInv
<1>2. ASSUME snap'[m].who = q PROVE FALSE
  <2>1. snap'[m] # NoRow
    BY <1>2, KernelAssumption DEF NoRow
  <2>2. RowsReal'
    BY NextContract DEF ContractInv, IdentityInv
  <2>3. PidOf[q] = m
    BY <1>2, <2>1, <2>2 DEF RowsReal
  <2>4. Shows(q)'
    BY <1>2, <2>3 DEF Shows
  <2>5. Shows(q) \/ ReadNow(q)
    BY <2>4, ShownBefore
  <2> QED
    BY <2>3, <2>5 DEF Shows, ReadNow, Has, Present, Live, Active
<1> QED
  BY <1>1, <1>2 DEF Ages

LEMMA KinOrWrongStays ==
    ASSUME ContractInv, CleanupInv, HalfIsOpen, ParentsAlive, [Next]_vars, OnSnapshot', SameScope,
           NEW p \in Proc, status[p] # "unborn", NEW m \in frozen, KinOrWrong(p, m)
    PROVE  KinOrWrong(p, m)'
<1>1. Preparing \/ Delivering
  BY DEF SameScope, OnSnapshot, Closing, Settled, Preparing, Gathering, Delivering
<1>2. PICK q \in Proc : q = node[m].who /\ status[q] # "unborn" /\ m \in Pid
  BY <1>1, MembersBorn
<1>3. node'[m].who = q
  BY <1>2 DEF SameScope
<1>4. CASE Kin(p, q)
  <2>1. Kin(p, q)'
    BY <1>2, <1>4, KinStays
  <2> QED
    BY <1>3, <2>1 DEF KinOrWrong, Kin, Alive
<1>5. CASE status[q] = "dead" /\ snap[m].who # q
  BY <1>2, <1>3, <1>5, WrongStays DEF KinOrWrong
<1> QED
  BY <1>2, <1>4, <1>5 DEF KinOrWrong

\* The parent's number in a row is read when the child is there: its holder is the parent.
LEMMA ParentRead ==
    ASSUME ContractInv, CleanupInv, ParentsAlive, ListedUnread, ParentsShown, InTree, Closing,
           NEW pid \in frozen, NEW m \in frozen, Has(pid, node[pid].who),
           ParentPid(node[pid].who) = m
    PROVE  /\ parent[node[pid].who] \in Proc
           /\ \/ node[m].who = parent[node[pid].who]
              \/ status[node[m].who] = "dead" /\ snap[m].who # node[m].who
<1>1. PICK p \in Proc : p = node[pid].who /\ status[p] \in Present
  BY DEF Has
<1>2. Preparing /\ Gathering
  BY DEF Closing, Preparing, Gathering
<1>3. PICK x \in Proc : x = node[m].who /\ status[x] # "unborn" /\ m \in Pid
  BY <1>2, MembersBorn
<1>4. parent[p] \in Proc
  BY <1>1, <1>3, KernelAssumption DEF ParentPid, ContractInv, TypeInv, TypeOK, KernelTypeOK
<1>5. PICK q \in Proc : q = parent[p] /\ PidOf[q] = m /\ status[q] \in Present
  BY <1>1, <1>4 DEF ParentPid, ParentsAlive, Present
<1>6. CASE x = q
  BY <1>1, <1>3, <1>4, <1>5, <1>6
<1>7. CASE x # q
  <2>1. status[x] = "dead"
    <3>1. SUFFICES ASSUME x = handle[m] PROVE status[x] = "dead"
      BY <1>2, <1>3 DEF ContractInv, IdentityInv, FrozenPinned
    <3>2. PidOf[x] = m
      BY <1>3, <3>1, KernelAssumption DEF ContractInv, SafetyInv, PinsByNumber
    <3>3. status[x] \notin Present
      BY <1>5, <1>7, <3>2 DEF ContractInv, IdentityInv, OneHolder
    <3>4. status[x] \in Status
      BY DEF ContractInv, TypeInv, TypeOK, KernelTypeOK
    <3> QED
      BY <1>3, <3>3, <3>4 DEF Status, Present, Live, Active
  <2>2. snap[m].who # x
    <3>1. Seen(q)
      BY <1>1, <1>4, <1>5 DEF ParentsShown
    <3>2. CASE pc = "read" /\ m \in listing
      BY <3>2, KernelAssumption DEF ListedUnread, NoRow
    <3>3. CASE Shows(q)
      BY <1>5, <1>7, <3>3 DEF Shows
    <3> QED
      BY <1>5, <3>1, <3>2, <3>3 DEF Seen
  <2> QED
    BY <1>1, <1>3, <1>4, <2>1, <2>2
<1> QED
  BY <1>6, <1>7

LEMMA NextKinShown ==
    ASSUME ContractInv, CleanupInv, HalfIsOpen, ParentsAlive, ListedUnread, ParentsShown, KinShown,
           [Next]_vars
    PROVE  KinShown'
<1> SUFFICES ASSUME InTree', Closing', NEW pid \in frozen', NEW m \in frozen'
             PROVE  /\ snap'[pid].who = node'[pid].who /\ snap'[pid].parent = m
                         => KinOrWrong(node[pid].who, m)'
                    /\ half'.read /\ NextListed(pid)' /\ Has(pid, node[pid].who)'
                            /\ half'.parent = m
                         => KinOrWrong(node[pid].who, m)'
  BY DEF KinShown
<1>1. ASSUME SameScope, Closing, KinOrWrong(node[pid].who, m)
      PROVE  KinOrWrong(node[pid].who, m)'
  <2>1. OnSnapshot' /\ Preparing /\ pid \in frozen /\ m \in frozen
        /\ node'[pid].who = node[pid].who
    BY <1>1 DEF SameScope, OnSnapshot, Closing, Preparing, Gathering
  <2>2. PICK p \in Proc : p = node[pid].who /\ status[p] # "unborn"
    BY <2>1, MembersBorn
  <2>3. KinOrWrong(p, m)
    BY <1>1, <2>2
  <2>4. KinOrWrong(p, m)'
    BY <1>1, <2>1, <2>2, <2>3, KinOrWrongStays
  <2> QED
    BY <2>1, <2>2, <2>4 DEF KinOrWrong, Kin
<1>2. ASSUME SameScope, Closing PROVE InTree /\ pid \in frozen /\ m \in frozen
  BY <1>2 DEF SameScope, InTree
<1>3. ASSUME snap'[pid].who = node'[pid].who, snap'[pid].parent = m
      PROVE  KinOrWrong(node[pid].who, m)'
  <2>1. PICK p \in Proc :
          /\ SameScope /\ Closing /\ node[pid].who = p
          /\ \/ snap[pid].who = p /\ snap'[pid] = snap[pid]
             \/ /\ half.read /\ NextListed(pid) /\ Has(pid, p)
                /\ snap'[pid].parent = half.parent
    BY <1>3, MemberShown
  <2>2. KinOrWrong(node[pid].who, m)
    BY <1>2, <1>3, <2>1 DEF KinShown
  <2> QED
    BY <1>1, <2>1, <2>2
<1>4. ASSUME half'.read, NextListed(pid)', Has(pid, node[pid].who)', half'.parent = m
      PROVE  KinOrWrong(node[pid].who, m)'
  <2>1. PICK p \in Proc :
          /\ SameScope /\ Closing /\ node[pid].who = p /\ Has(pid, p)
          /\ \/ half'.parent = ParentPid(p)
             \/ half.read /\ NextListed(pid) /\ UNCHANGED half
    BY <1>4, HalfBefore
  <2>2. CASE half'.parent = ParentPid(p)
    <3>1. KinOrWrong(node[pid].who, m)
      BY <1>2, <1>4, <2>1, <2>2, ParentRead DEF KinOrWrong, Kin
    <3> QED
      BY <1>1, <2>1, <3>1
  <2>3. CASE half.read /\ NextListed(pid) /\ UNCHANGED half
    <3>1. KinOrWrong(node[pid].who, m)
      BY <1>2, <1>4, <2>1, <2>3 DEF KinShown
    <3> QED
      BY <1>1, <2>1, <3>1
  <2> QED
    BY <2>1, <2>2, <2>3
<1> QED
  BY <1>3, <1>4

\* A member is judged because it has just been verified, or goes on being so.
LEMMA JudgedBefore ==
    ASSUME ContractInv, CleanupInv, HalfIsOpen, [Next]_vars, NEW pid \in Judged'
    PROVE  /\ UNCHANGED request /\ pid \in Pid /\ pid \in frozen /\ frozen' = frozen
           /\ handle'[pid] = handle[pid] /\ node'[pid].who = node[pid].who
           /\ node'[pid].parent = node[pid].parent /\ node'[pid].depth = node[pid].depth
           /\ \A m \in frozen : node'[m].who = node[m].who /\ node'[m].depth = node[m].depth
           /\ \/ pid \in Judged /\ UNCHANGED handle
              \/ /\ Closing /\ \A m \in frozen : IdentityHolds(m)
                 /\ UNCHANGED <<kernelVars, snap>>
<1>1. CASE Delivering'
  <2>1. pid \in todo'
    BY <1>1 DEF Judged, Delivering
  <2>2. /\ pid \in frozen /\ pid \in Pid /\ UNCHANGED <<handle, frozen, node>>
        /\ \/ Delivering /\ pid \in todo /\ pc \in {"deliver", "cont"}
           \/ pc = "policy" /\ pid \in frozen /\ Authorize
    BY <1>1, <2>1, TurnsStay
  <2>3. pid \in Judged /\ pc \in {"deliver", "cont", "policy"}
    BY <2>2 DEF Judged, Delivering
  <2>4. UNCHANGED request
    <3>1. CASE Authorize \/ Deliver \/ ContinueMember \/ ContinueGroup \/ Thaw \/ Finish
      BY <3>1 DEF Authorize, Deliver, ContinueMember, ContinueGroup, ContinueFrame, Thaw, Finish
    <3>2. CASE Expire \/ Interrupt \/ Environment \/ UNCHANGED vars
      BY <3>2 DEF Expire, Interrupt, Others, Environment, vars, executorVars, controlVars
    <3>3. CASE \/ SelectMember \/ ReadState \/ SubmitStop \/ Acknowledge \/ StateReadFails
               \/ ListProcesses \/ ReadStatus \/ ReadStat \/ SnapshotTaken \/ SnapshotFails
               \/ CheckRoot \/ Drain \/ Verify \/ ReadEvidence
      BY <2>3, <3>3 DEF SelectMember, ReadState, SubmitStop, Acknowledge, StateReadFails,
                        ListProcesses, ReadStatus, ReadStat, SnapshotTaken, SnapshotFails,
                        CheckRoot, Drain, Verify, ReadEvidence
    <3> QED
      BY <3>1, <3>2, <3>3 DEF Next, Executor, Terminated
  <2> QED
    BY <2>2, <2>3, <2>4
<1>2. CASE ~Delivering'
  <2>1. pc' \in {"evidence", "policy"} /\ pid \in frozen' /\ OnSnapshot'
    BY <1>2 DEF Judged, OnSnapshot, Settled
  <2>2. SameScope /\ (Decides \/ Waits)
    BY <2>1, SnapshotSteps DEF Opens, ReadStatus, ReadStat, SameScope, OnSnapshot, Closing, Settled
  <2>3. pid \in frozen /\ pid \in Pid
    BY <2>1, <2>2 DEF SameScope, ContractInv, TypeInv, TypeOK
  <2>4. CASE Verify
    <3>1. /\ pc = "verify" /\ \A m \in frozen : IdentityHolds(m)
          /\ UNCHANGED <<kernelVars, snap>>
      BY <2>1, <2>4 DEF Verify, RefuseNow, Refuse, scanVars
    <3>2. Closing
      BY <3>1 DEF Closing, ContractInv, IdentityInv, StopsFound
    <3> QED
      BY <2>2, <2>3, <3>1, <3>2 DEF SameScope
  <2>5. CASE ~Verify
    <3>1. /\ \/ ReadEvidence \/ Waits
          /\ UNCHANGED handle /\ pc \in {"evidence", "policy"}
      BY <2>1, <2>2, <2>5 DEF Decides, SnapshotTaken, Drain, Authorize, ReadEvidence, Waits, Expire,
                              Interrupt, Others, Environment, vars, executorVars, controlVars
    <3>2. pid \in Judged
      BY <2>3, <3>1 DEF Judged
    <3> QED
      BY <2>2, <2>3, <3>1, <3>2 DEF SameScope
  <2> QED
    BY <2>4, <2>5
<1> QED
  BY <1>1, <1>2

LEMMA NextKinKnown ==
    ASSUME ContractInv, CleanupInv, HalfIsOpen, ParentsAlive, OrphansShown, KinShown, KinKnown,
           [Next]_vars
    PROVE  KinKnown'
<1> SUFFICES ASSUME InTree', NEW pid \in Judged', node'[pid].depth # 0
             PROVE  /\ Deeper(pid)'
                    /\ Kin(node[pid].who, node[node[pid].parent].who)'
  BY DEF KinKnown
<1> DEFINE m == node[pid].parent
<1>1. /\ InTree /\ pid \in frozen /\ frozen' = frozen /\ node[pid].depth # 0
      /\ node'[pid].who = node[pid].who /\ node'[pid].parent = m
      /\ node'[pid].depth = node[pid].depth
      /\ m \in frozen => node'[m].who = node[m].who /\ node'[m].depth = node[m].depth
      /\ \/ pid \in Judged
         \/ Closing /\ (\A k \in frozen : IdentityHolds(k)) /\ UNCHANGED <<kernelVars, snap>>
  BY JudgedBefore DEF InTree
<1>2. m \in frozen /\ Deeper(pid) /\ Kin(node[pid].who, node[m].who)
  <2>1. CASE pid \in Judged
    BY <1>1, <2>1 DEF KinKnown, Deeper
  <2>2. CASE Closing /\ \A k \in frozen : IdentityHolds(k)
    <3>1. snap[pid].who = node[pid].who /\ snap[pid].parent = m
      BY <1>1, <2>2 DEF IdentityHolds, RelationHolds
    <3>2. m \in frozen /\ Deeper(pid)
      BY <1>1, <2>2, <3>1 DEF OrphansShown, Deeper
    <3>3. KinOrWrong(node[pid].who, m) /\ snap[m].who = node[m].who
      BY <1>1, <2>2, <3>1, <3>2 DEF KinShown, IdentityHolds
    <3> QED
      BY <3>2, <3>3 DEF KinOrWrong
  <2> QED
    BY <1>1, <2>1, <2>2
<1>3. Preparing \/ Delivering
  BY <1>1 DEF Judged, Closing, Preparing, Gathering
<1>4. PICK p \in Proc : p = node[pid].who /\ status[p] # "unborn"
  BY <1>1, <1>3, MembersBorn
<1>5. PICK q \in Proc : q = node[m].who /\ status[q] # "unborn"
  BY <1>2, <1>3, MembersBorn
<1>6. Kin(p, q)'
  BY <1>2, <1>4, <1>5, KinStays
<1> QED
  BY <1>1, <1>2, <1>4, <1>5, <1>6 DEF Kin, Alive, Deeper

LEMMA NextGroupShown ==
    ASSUME ContractInv, CleanupInv, MembersStill, HalfIsOpen, GroupShown, [Next]_vars
    PROVE  GroupShown'
<1> SUFFICES ASSUME InGroup', Closing', NEW pid \in frozen', snap'[pid].who = handle'[pid],
                    handle'[pid] \notin meddled'
             PROVE  snap'[pid].pgrp = pgrp'[handle'[pid]]
  BY DEF GroupShown
<1>1. /\ Preparing /\ OnSnapshot'
      /\ \/ Opens
         \/ SameScope /\ Closing
  BY ClosingBefore DEF OnSnapshot
<1>2. pid \in frozen /\ handle'[pid] = handle[pid] /\ (Opens \/ InGroup)
  BY <1>1 DEF Opens, SameScope, InGroup
<1>3. pid \in Pid /\ pid \in Recorded
  BY <1>2 DEF Recorded, ContractInv, TypeInv, TypeOK
<1>4. /\ handle[pid] \in Proc /\ handle[pid] \notin meddled
      /\ pgrp'[handle[pid]] = pgrp[handle[pid]]
  BY <1>1, <1>2, <1>3, RecordedPinned, RecordedNames
<1>5. PICK p \in Proc : p = handle[pid] /\ PidOf[p] = pid
  BY <1>3, <1>4, KernelAssumption DEF ContractInv, SafetyInv, PinsByNumber
<1>6. Shows(p)'
  BY <1>2, <1>5 DEF Shows
<1>7. ~Opens /\ ((Shows(p) /\ snap'[PidOf[p]] = snap[PidOf[p]]) \/ ReadNow(p))
  BY <1>1, <1>6, ShownBefore
<1>8. snap'[pid].pgrp = pgrp[p]
  BY <1>1, <1>2, <1>4, <1>5, <1>7 DEF GroupShown, Shows, ReadNow
<1> QED
  BY <1>2, <1>4, <1>5, <1>8

LEMMA NextGroupKnown ==
    ASSUME ContractInv, CleanupInv, MembersStill, HalfIsOpen, GroupShown, GroupKnown, [Next]_vars
    PROVE  GroupKnown'
<1> SUFFICES ASSUME InGroup', NEW pid \in Judged', handle'[pid] \notin meddled'
             PROVE  pgrp'[handle'[pid]] = TargetGroup
  BY DEF GroupKnown
<1>1. /\ InGroup /\ pid \in frozen /\ handle'[pid] = handle[pid]
      /\ \/ pid \in Judged /\ UNCHANGED handle
         \/ Closing /\ (\A m \in frozen : IdentityHolds(m)) /\ UNCHANGED <<kernelVars, snap>>
  BY JudgedBefore DEF InGroup
<1>2. CASE pid \in Judged /\ UNCHANGED handle
  <2>1. handle[pid] \notin meddled /\ pgrp'[handle[pid]] = pgrp[handle[pid]]
    BY <1>2, JudgedStay
  <2> QED
    BY <1>1, <1>2, <2>1 DEF GroupKnown
<1>3. CASE Closing /\ (\A m \in frozen : IdentityHolds(m)) /\ UNCHANGED <<kernelVars, snap>>
  <2>1. snap[pid] # NoRow /\ snap[pid].who = node[pid].who
    BY <1>1, <1>3 DEF IdentityHolds, Shown
  <2>2. ~InTree
    BY <1>1 DEF InTree, InGroup
  <2>3. snap[pid].pgrp = TargetGroup
    BY <1>1, <1>3, <2>2 DEF IdentityHolds, RelationHolds
  <2>4. snap[pid].who = handle[pid]
    BY <1>1, <1>3, <2>1 DEF Closing, ContractInv, IdentityInv, RowsMatch
  <2>5. UNCHANGED <<meddled, pgrp>>
    BY <1>3 DEF kernelVars
  <2> QED
    BY <1>1, <1>3, <2>3, <2>4, <2>5 DEF GroupShown
<1> QED
  BY <1>1, <1>2, <1>3

LEMMA NextScope ==
    ContractInv /\ CleanupInv /\ PolicyInv /\ ClosedInv /\ KinInv /\ [Next]_vars => KinInv'
<1> SUFFICES ASSUME ContractInv, CleanupInv, PolicyInv, ClosedInv, KinInv, [Next]_vars
             PROVE  KinInv'
  OBVIOUS
<1>1. HangInv'
  BY NextHang DEF KinInv
<1>2. MembersStill /\ HalfIsOpen /\ ParentsAlive /\ ListedUnread /\ Tracked /\ MembersDeeper
  BY DEF PolicyInv, ClosedInv, KinInv, HangInv
<1>3. OrphansShown' /\ ParentsShown' /\ KinShown'
  BY <1>2, NextOrphansShown, NextParentsShown, NextKinShown DEF KinInv
<1>4. KinKnown' /\ GroupShown' /\ GroupKnown'
  BY <1>2, NextKinKnown, NextGroupShown, NextGroupKnown DEF KinInv
<1> QED
  BY <1>1, <1>3, <1>4 DEF KinInv

LEMMA InitKin == Init => KinInv
BY InitHang DEF Init, KinInv, OrphansShown, ParentsShown, KinShown, KinKnown, GroupShown, GroupKnown,
                Closing, Judged, Delivering

\* Nobody outside the scope is signalled, of any table, scope and number of passes: what
\* verify_frozen_identities (execute.rs 734-757) finds in rows that may be torn, of
\* processes that may be orphaned or replaced meanwhile, is true of the process table.
THEOREM SignalsStayInScope == Spec => SignalStaysInScope
<1> DEFINE Inv == ContractInv /\ CleanupInv /\ PolicyInv /\ ClosedInv /\ KinInv
           Belongs == \A p \in signalled' \ signalled :
             \/ p = RootProc \/ p \in meddled
             \/ InTree /\ \E pid \in frozen : parent[p] = node[pid].who
             \/ InTree /\ parent[p] = Reaper
                       /\ \E pid \in frozen : node[PidOf[p]].parent = pid /\ ~Alive(node[pid].who)
             \/ InGroup /\ pgrp[p] = TargetGroup
<1>1. Init => Inv
  BY InitContract, InitCleanup, InitPolicy, InitClosed, InitKin
<1>2. Inv /\ [Next]_vars => Inv'
  BY NextContract, NextCleanup, NextPolicy, NextClosed, NextScope
<1>3. Inv /\ [Next]_vars => [Belongs]_vars
  <2> SUFFICES ASSUME Inv, Deliver, NEW p \in signalled' \ signalled
               PROVE  \/ p = RootProc \/ p \in meddled
                      \/ InTree /\ \E pid \in frozen : parent[p] = node[pid].who
                      \/ InTree /\ parent[p] = Reaper
                                /\ \E pid \in frozen : node[PidOf[p]].parent = pid
                                                       /\ ~Alive(node[pid].who)
                      \/ InGroup /\ pgrp[p] = TargetGroup
    BY OnlyDeliverSignals
  <2>1. PICK pid \in todo : p = handle[pid] /\ pc = "deliver" /\ ~Gone(p)
    BY DEF Deliver, DeliveryTarget
  <2>2. pid \in Judged /\ pid \in frozen /\ Delivering /\ pid \in Pid
    BY <2>1 DEF Judged, Delivering, ContractInv, IdentityInv, DeliveryInFrozen, TypeInv, TypeOK
  <2>3. node[pid].who = p
    BY <2>1, <2>2 DEF ContractInv, IdentityInv, VerifiedPinned
  <2>4. PidOf[p] = pid
    BY <2>1, <2>2, KernelAssumption DEF Gone, ContractInv, SafetyInv, PinsByNumber
  <2>5. node[pid].depth = 0 => p = RootProc
    BY <2>2, <2>3 DEF PolicyInv, RootOnTop
  <2>6. CASE InGroup
    BY <2>1, <2>2, <2>6 DEF KinInv, GroupKnown
  <2>7. CASE InTree /\ node[pid].depth # 0
    <3>1. node[pid].parent \in frozen /\ Kin(p, node[node[pid].parent].who)
      BY <2>2, <2>3, <2>7 DEF KinInv, KinKnown, Deeper
    <3> QED
      BY <2>4, <2>7, <3>1 DEF Kin
  <2>8. InTree \/ InGroup
    BY FreezeKillAssumption DEF InTree, InGroup, ContractInv, TypeInv, TypeOK, Request
  <2> QED
    BY <2>5, <2>6, <2>7, <2>8
<1> HIDE DEF Inv, Belongs
<1>4. Spec => [][Belongs]_vars
  BY <1>1, <1>2, <1>3, PTL DEF Spec
<1> QED
  BY <1>4 DEF SignalStaysInScope, Belongs

-----------------------------------------------------------------------------
\* Whose parent is resumed
\*
\* The deeper member of a tree is signalled and resumed first, so a member that is
\* resumed has had all below it signalled, and the root is below nobody.

\* Up holds whom the root descends from: since the kill began, it has only lost some.
Above(Up) ==
    /\ RootProc \notin Up /\ status[RootProc] # "unborn"
    /\ parent[RootProc] \in Proc => parent[RootProc] \in Up
    /\ \A u \in Up : /\ status[u] # "unborn"
                     /\ status[u] \in Present /\ parent[u] \in Proc => parent[u] \in Up

\* A row that shows one of them below a member is right, and the member is one of them
\* too, or it is wrong about the member, who is dead.
AboveOrWrong(Up, p, m) == \/ p \in Up => node[m].who \in Up
                          \/ status[node[m].who] = "dead" /\ snap[m].who # node[m].who
LineShown(Up) == InTree /\ Closing => \A pid, m \in frozen :
    /\ snap[pid].who = node[pid].who /\ snap[pid].parent = m
         => AboveOrWrong(Up, node[pid].who, m)
    /\ half.read /\ NextListed(pid) /\ Has(pid, node[pid].who) /\ half.parent = m
         => AboveOrWrong(Up, node[pid].who, m)

\* So none of them is judged, nor resumed; and who is resumed comes before the rest.
NobodyAbove(Up) == InTree => \A pid \in Judged : node[pid].who \notin Up
InTurn(Up) == pc = "cont" => /\ InTree /\ node[cur].who \notin Up
                             /\ \A other \in todo : Precedes(cur, other)

LineInv(Up) == Above(Up) /\ LineShown(Up) /\ NobodyAbove(Up) /\ InTurn(Up)

LEMMA NextAbove ==
    ASSUME ContractInv, ParentsAlive, [Next]_vars, NEW Up \in SUBSET Proc, Above(Up)
    PROVE  Above(Up)'
<1>1. \A p \in Proc : KinOf(p)
  BY NextKin
<1>2. Ages /\ RootProc \in Proc /\ Reaper \notin Proc
  BY NextAges, FreezeKillAssumption, KernelAssumption DEF ContractInv, IdentityInv
<1>3. parent'[RootProc] \in Proc => parent'[RootProc] \in Up
  BY <1>1, <1>2 DEF Above, KinOf
<1>4. ASSUME NEW u \in Up
      PROVE  /\ status'[u] # "unborn"
             /\ status'[u] \in Present /\ parent'[u] \in Proc => parent'[u] \in Up
  <2>1. u \in Proc /\ status[u] # "unborn"
    BY <1>4 DEF Above
  <2>2. status'[u] # "unborn"
    BY <1>2, <2>1 DEF Ages
  <2>3. ASSUME status'[u] \in Present, parent'[u] \in Proc PROVE parent'[u] \in Up
    <3>1. status[u] \in Present /\ parent'[u] = parent[u]
      BY <2>1, <2>3, ParentBefore
    <3> QED
      BY <1>4, <2>3, <3>1 DEF Above
  <2> QED
    BY <2>2, <2>3
<1>5. RootProc \notin Up /\ status'[RootProc] # "unborn"
  BY <1>2 DEF Above, Ages
<1> QED
  BY <1>3, <1>4, <1>5 DEF Above

LEMMA AboveOrWrongStays ==
    ASSUME ContractInv, CleanupInv, HalfIsOpen, [Next]_vars, OnSnapshot', SameScope,
           NEW Up, NEW p, NEW m \in frozen, AboveOrWrong(Up, p, m)
    PROVE  AboveOrWrong(Up, p, m)'
<1>1. Preparing \/ Delivering
  BY DEF SameScope, OnSnapshot, Closing, Settled, Preparing, Gathering, Delivering
<1>2. PICK q \in Proc : q = node[m].who /\ m \in Pid
  BY <1>1, MembersBorn
<1>3. node'[m].who = q
  BY <1>2 DEF SameScope
<1>4. CASE p \in Up => q \in Up
  BY <1>3, <1>4 DEF AboveOrWrong
<1>5. CASE status[q] = "dead" /\ snap[m].who # q
  BY <1>2, <1>3, <1>5, WrongStays DEF AboveOrWrong
<1> QED
  BY <1>2, <1>4, <1>5 DEF AboveOrWrong

LEMMA NextLineShown ==
    ASSUME ContractInv, CleanupInv, HalfIsOpen, ParentsAlive, ListedUnread, ParentsShown,
           [Next]_vars, NEW Up \in SUBSET Proc, Above(Up), LineShown(Up)
    PROVE  LineShown(Up)'
<1> SUFFICES ASSUME InTree', Closing', NEW pid \in frozen', NEW m \in frozen'
             PROVE  /\ snap'[pid].who = node'[pid].who /\ snap'[pid].parent = m
                         => AboveOrWrong(Up, node[pid].who, m)'
                    /\ half'.read /\ NextListed(pid)' /\ Has(pid, node[pid].who)'
                            /\ half'.parent = m
                         => AboveOrWrong(Up, node[pid].who, m)'
  BY DEF LineShown
<1>1. ASSUME SameScope, Closing, AboveOrWrong(Up, node[pid].who, m)
      PROVE  AboveOrWrong(Up, node[pid].who, m)'
  <2>1. OnSnapshot' /\ Preparing /\ pid \in frozen /\ m \in frozen
        /\ node'[pid].who = node[pid].who
    BY <1>1 DEF SameScope, OnSnapshot, Closing, Preparing, Gathering
  <2>2. PICK p \in Proc : p = node[pid].who
    BY <2>1, MembersBorn
  <2>3. AboveOrWrong(Up, p, m)
    BY <1>1, <2>2
  <2>4. AboveOrWrong(Up, p, m)'
    BY <1>1, <2>1, <2>3, AboveOrWrongStays
  <2> QED
    BY <2>1, <2>2, <2>4 DEF AboveOrWrong
<1>2. ASSUME SameScope, Closing PROVE InTree /\ pid \in frozen /\ m \in frozen
  BY <1>2 DEF SameScope, InTree
<1>3. ASSUME snap'[pid].who = node'[pid].who, snap'[pid].parent = m
      PROVE  AboveOrWrong(Up, node[pid].who, m)'
  <2>1. PICK p \in Proc :
          /\ SameScope /\ Closing /\ node[pid].who = p
          /\ \/ snap[pid].who = p /\ snap'[pid] = snap[pid]
             \/ /\ half.read /\ NextListed(pid) /\ Has(pid, p)
                /\ snap'[pid].parent = half.parent
    BY <1>3, MemberShown
  <2>2. AboveOrWrong(Up, node[pid].who, m)
    BY <1>2, <1>3, <2>1 DEF LineShown
  <2> QED
    BY <1>1, <2>1, <2>2
<1>4. ASSUME half'.read, NextListed(pid)', Has(pid, node[pid].who)', half'.parent = m
      PROVE  AboveOrWrong(Up, node[pid].who, m)'
  <2>1. PICK p \in Proc :
          /\ SameScope /\ Closing /\ node[pid].who = p /\ Has(pid, p)
          /\ \/ half'.parent = ParentPid(p)
             \/ half.read /\ NextListed(pid) /\ UNCHANGED half
    BY <1>4, HalfBefore
  <2>2. CASE half'.parent = ParentPid(p)
    <3>1. /\ parent[p] \in Proc
          /\ \/ node[m].who = parent[p]
             \/ status[node[m].who] = "dead" /\ snap[m].who # node[m].who
      BY <1>2, <1>4, <2>1, <2>2, ParentRead
    <3>2. status[p] \in Present
      BY <2>1 DEF Has
    <3>3. p \in Up => parent[p] \in Up
      BY <3>1, <3>2 DEF Above
    <3>4. AboveOrWrong(Up, p, m)
      BY <3>1, <3>3 DEF AboveOrWrong
    <3> QED
      BY <1>1, <2>1, <3>4
  <2>3. CASE half.read /\ NextListed(pid) /\ UNCHANGED half
    <3>1. AboveOrWrong(Up, node[pid].who, m)
      BY <1>2, <1>4, <2>1, <2>3 DEF LineShown
    <3> QED
      BY <1>1, <2>1, <3>1
  <2> QED
    BY <2>1, <2>2, <2>3
<1> QED
  BY <1>3, <1>4

\* Of a scope that has been verified nobody is above the root: not the root, and so
\* nobody that hangs from one who is not, from the top down.
LEMMA VerifiedBelow ==
    ASSUME TypeOK, InTree, Closing, RootOnTop, OrphansShown, NEW Up \in SUBSET Proc, Above(Up),
           LineShown(Up), \A m \in frozen : IdentityHolds(m)
    PROVE  \A pid \in frozen : node[pid].who \notin Up
<1> DEFINE Down(n) == \A pid \in frozen : node[pid].depth < n => node[pid].who \notin Up
           T == {n \in Nat : Down(n)}
<1>0. \A pid \in frozen : node[pid].depth \in Nat
  BY DEF TypeOK, Node
<1>1. 0 \in T
  BY <1>0
<1>2. ASSUME NEW n \in T PROVE n + 1 \in T
  <2>1. n \in Nat /\ n + 1 \in Nat /\ Down(n)
    BY <1>2
  <2>2. ASSUME NEW pid \in frozen, node[pid].depth < n + 1 PROVE node[pid].who \notin Up
    <3>1. CASE node[pid].depth = 0
      BY <3>1 DEF RootOnTop, Preparing, Gathering, Closing, Above
    <3>2. CASE node[pid].depth # 0
      <4>1. snap[pid].who = node[pid].who /\ snap[pid].parent = node[pid].parent
        BY <3>2 DEF IdentityHolds, RelationHolds
      <4>2. Deeper(pid)
        BY <3>2, <4>1 DEF OrphansShown
      <4>3. PICK m \in frozen : m = node[pid].parent /\ node[m].depth < node[pid].depth
        BY <4>2 DEF Deeper
      <4>4. node[pid].who \in Up => node[m].who \in Up
        BY <4>1, <4>3 DEF LineShown, AboveOrWrong, IdentityHolds
      <4>5. node[m].depth < n
        BY <1>0, <2>1, <2>2, <4>3
      <4> QED
        BY <2>1, <4>4, <4>5
    <3> QED
      BY <3>1, <3>2
  <2> QED
    BY <2>1, <2>2
<1> HIDE DEF T
<1>3. T = Nat
  <2>1. T \subseteq Nat
    BY DEF T
  <2> QED
    BY <1>1, <1>2, <2>1, NatSteps
<1>4. ASSUME NEW pid \in frozen PROVE node[pid].who \notin Up
  <2>1. node[pid].depth + 1 \in Nat /\ node[pid].depth < node[pid].depth + 1
    BY <1>0
  <2>2. Down(node[pid].depth + 1)
    BY <1>3, <2>1 DEF T
  <2> QED
    BY <2>1, <2>2
<1> QED
  BY <1>4

LEMMA NextNobodyAbove ==
    ASSUME ContractInv, CleanupInv, PolicyInv, KinInv, [Next]_vars,
           NEW Up \in SUBSET Proc, Above(Up), LineShown(Up), NobodyAbove(Up)
    PROVE  NobodyAbove(Up)'
<1> SUFFICES ASSUME InTree', NEW pid \in Judged' PROVE node'[pid].who \notin Up
  BY DEF NobodyAbove
<1>1. /\ InTree /\ pid \in frozen /\ node'[pid].who = node[pid].who
      /\ pid \in Judged \/ (Closing /\ \A m \in frozen : IdentityHolds(m))
  BY JudgedBefore DEF InTree, PolicyInv
<1>2. CASE pid \in Judged
  BY <1>1, <1>2 DEF NobodyAbove
<1>3. CASE Closing /\ \A m \in frozen : IdentityHolds(m)
  BY <1>1, <1>3, VerifiedBelow DEF ContractInv, TypeInv, PolicyInv, KinInv
<1> QED
  BY <1>1, <1>2, <1>3

LEMMA NextInTurn ==
    ASSUME ContractInv, [Next]_vars, NEW Up, NobodyAbove(Up), InTurn(Up)
    PROVE  InTurn(Up)'
<1> SUFFICES ASSUME pc' = "cont"
             PROVE  /\ InTree' /\ node'[cur'].who \notin Up
                    /\ \A other \in todo' :
                         \/ node'[cur'].depth > node'[other].depth
                         \/ node'[cur'].depth = node'[other].depth /\ cur' < other
  BY DEF InTurn, Precedes
<1>1. CASE Deliver
  <2>1. PICK pid \in todo :
          /\ \A other \in todo \ {pid} : Precedes(pid, other)
          /\ todo' = todo \ {pid} /\ cur' = pid /\ InTree
    BY <1>1 DEF Deliver, ContinuesAtOnce
  <2>2. pc = "deliver" /\ UNCHANGED <<node, request>>
    BY <1>1 DEF Deliver
  <2>3. pid \in Judged
    BY <2>1, <2>2 DEF Judged, Delivering
  <2> QED
    BY <2>1, <2>2, <2>3 DEF NobodyAbove, InTree, Precedes
<1>2. CASE Expire \/ Interrupt \/ Environment \/ UNCHANGED vars
  <2>1. pc = "cont" /\ UNCHANGED <<node, request, cur, todo>>
    BY <1>2 DEF Expire, Interrupt, Others, Environment, vars, executorVars, controlVars, stopVars
  <2> QED
    BY <2>1 DEF InTurn, InTree, Precedes
<1>3. CASE \/ SelectMember \/ ReadState \/ SubmitStop \/ Acknowledge \/ StateReadFails
           \/ ListProcesses \/ ReadStatus \/ ReadStat \/ SnapshotTaken \/ SnapshotFails
           \/ CheckRoot \/ Drain \/ Verify \/ ReadEvidence
  BY <1>3 DEF SelectMember, ReadState, SubmitStop, Acknowledge, StateReadFails, StopNotFound,
              StopFailed, StopAcknowledged, ListProcesses, ReadStatus, ReadStat, SnapshotTaken,
              SnapshotFails, CheckRoot, Drain, Verify, ReadEvidence, RefuseNow, Refuse
<1>4. CASE Authorize \/ ContinueMember \/ ContinueGroup \/ Thaw \/ Finish
  BY <1>4 DEF Authorize, ContinueMember, ContinueGroup, Thaw, Finish, RefuseNow, Refuse
<1> QED
  BY <1>1, <1>2, <1>3, <1>4 DEF Next, Executor, Terminated

LEMMA InitLine == Init => \E Up \in SUBSET Proc : LineInv(Up)
<1> SUFFICES ASSUME Init PROVE \E Up \in SUBSET Proc : LineInv(Up)
  OBVIOUS
<1>1. PICK t \in Start : status = t.status /\ parent = t.parent
  BY DEF Init, KernelInit
<1>2. PICK age \in [Proc -> 1..Cardinality(Proc)] :
        \A p, q \in Proc : status[p] # "unborn" /\ parent[p] = q =>
            status[q] # "unborn" /\ age[q] < age[p]
  BY <1>1, AncestryAssumption
<1>3. RootProc \in Proc /\ status[RootProc] # "unborn"
  BY <1>1, FreezeKillAssumption
<1>4. \A p \in Proc : age[p] \in Int
  <2>1. Cardinality(Proc) \in Nat
    BY KernelAssumption, FS_CardinalityType
  <2> QED
    BY <1>2, <2>1
<1> DEFINE Up == {p \in Proc : status[p] # "unborn" /\ age[p] < age[RootProc]}
<1>5. Above(Up)
  BY <1>2, <1>3, <1>4 DEF Above
<1>6. LineShown(Up) /\ NobodyAbove(Up) /\ InTurn(Up)
  BY DEF Init, LineShown, NobodyAbove, InTurn, Closing, Judged, Delivering
<1> QED
  BY <1>5, <1>6 DEF LineInv

\* Whom kick does not resume itself is resumed by somebody else, and so meddled with.
LEMMA ResumedByKick ==
    ASSUME ContractInv, CleanupInv, [Next]_vars, pc = "cont", NEW p \in Proc, p \notin meddled',
           status[p] \in {"stopping", "stopped"}, status'[p] = "running"
    PROVE  p = handle[cur]
<1>0. KernelTypeOK
  BY DEF ContractInv, TypeInv, TypeOK
<1>1. CASE ContinueMember
  <2>1. Continue(cur) /\ handle[cur] # NoProc /\ cur \in Pid
    BY <1>1, Continued
  <2> QED
    BY <1>0, <2>1, ContinueSettles
<1>2. CASE Environment
  <2>1. PICK q \in Proc :
          \/ StopTakesEffect(q) \/ TermTakesEffect(q) \/ KillTakesEffect(q) \/ Reap(q)
          \/ \E r \in Proc : Fork(q, r)
          \/ Spawn(q) \/ Die(q) \/ Exec(q) \/ Regroup(q)
          \/ OutsideStop(q) \/ OutsideCont(q)
    BY <1>2 DEF Environment, KernelStep
  <2>2. status \in [Proc -> Status]
    BY <1>0 DEF KernelTypeOK
  <2>3. CASE StopTakesEffect(q) \/ Reap(q) \/ OutsideStop(q)
    BY <2>2, <2>3 DEF StopTakesEffect, Reap, OutsideStop
  <2>4. CASE TermTakesEffect(q) \/ KillTakesEffect(q) \/ Die(q)
    BY <2>2, <2>4 DEF TermTakesEffect, KillTakesEffect, Die, Perish
  <2>5. CASE (\E r \in Proc : Fork(q, r)) \/ Spawn(q)
    BY <2>2, <2>5 DEF Fork, Spawn
  <2>6. CASE Exec(q) \/ Regroup(q)
    BY <2>6 DEF Exec, Regroup
  <2>7. CASE OutsideCont(q)
    BY <1>0, <2>2, <2>7 DEF OutsideCont, KernelTypeOK
  <2> QED
    BY <2>1, <2>3, <2>4, <2>5, <2>6, <2>7
<1>3. CASE Looking \/ Deliver
  BY <1>3, LookingTouchesNobody DEF Deliver
<1>4. CASE SubmitStop \/ ContinueGroup \/ Thaw
  BY <1>4 DEF SubmitStop, ContinueGroup, Thaw
<1> QED
  BY <1>1, <1>2, <1>3, <1>4 DEF Next, Executor, Terminated, Looking

\* While signals go out nobody is resumed before who is below it has its own: neither a
\* member that another is below of, although parents are replaced and numbers reused
\* while the scope is swept, nor whom the root itself was started by.
THEOREM ResumesComeLast == Spec => ResumeAfterSignals
<1> DEFINE Inv == /\ ContractInv /\ CleanupInv /\ PolicyInv /\ ClosedInv /\ KinInv
                  /\ \E Up \in SUBSET Proc : LineInv(Up)
           Late == \A p \in Proc : ~ResumesBefore(p)
<1>1. Init => Inv
  BY InitContract, InitCleanup, InitPolicy, InitClosed, InitKin, InitLine
<1>2. Inv /\ [Next]_vars => Inv'
  <2> SUFFICES ASSUME Inv, [Next]_vars PROVE Inv'
    OBVIOUS
  <2>1. PICK Up \in SUBSET Proc : LineInv(Up)
    OBVIOUS
  <2>2. HalfIsOpen /\ ParentsAlive /\ ListedUnread /\ ParentsShown
    BY DEF PolicyInv, ClosedInv, KinInv
  <2>3. LineInv(Up)'
    BY <2>1, <2>2, NextAbove, NextLineShown, NextNobodyAbove, NextInTurn DEF LineInv
  <2> QED
    BY <2>3, NextContract, NextCleanup, NextPolicy, NextClosed, NextScope
<1>3. Inv /\ [Next]_vars => [Late]_vars
  <2> SUFFICES ASSUME Inv, [Next]_vars, NEW p \in Proc, ResumesBefore(p) PROVE FALSE
    OBVIOUS
  <2>1. PICK Up \in SUBSET Proc : LineInv(Up)
    OBVIOUS
  <2>2. PICK pid \in todo : parent[node[pid].who] = p
    BY DEF ResumesBefore
  <2>3. pc = "cont" /\ Delivering
    BY <2>2 DEF ResumesBefore, ContractInv, PromiseInv, Delivering
  <2>4. /\ pid \in Judged /\ pid \in frozen /\ pid \in Pid /\ cur \in frozen /\ cur \in Pid
        /\ Precedes(cur, pid) /\ InTree /\ node[cur].who \notin Up
    BY <2>1, <2>2, <2>3 DEF Judged, ContractInv, PromiseInv, IdentityInv, DeliveryInFrozen, TypeInv,
                            TypeOK, LineInv, InTurn
  <2>5. p = handle[cur]
    <3>1. status[p] \in {"stopping", "stopped"} /\ status'[p] = "running" /\ p \notin meddled'
      BY DEF ResumesBefore
    <3> QED
      BY <2>3, <3>1, ResumedByKick
  <2>6. node[cur].who = p
    BY <2>3, <2>4, <2>5 DEF ContractInv, IdentityInv, VerifiedPinned
  <2>7. CASE node[pid].depth = 0
    <3>1. node[pid].who = RootProc
      BY <2>3, <2>4, <2>7 DEF PolicyInv, RootOnTop
    <3> QED
      BY <2>1, <2>2, <2>4, <2>6, <3>1 DEF LineInv, Above
  <2>8. CASE node[pid].depth # 0
    <3>1. Deeper(pid) /\ Kin(node[pid].who, node[node[pid].parent].who)
      BY <2>4, <2>8 DEF KinInv, KinKnown
    <3>2. PICK m \in frozen : m = node[pid].parent /\ node[m].depth < node[pid].depth
      BY <3>1 DEF Deeper
    <3>3. node[m].who = p
      BY <2>2, <3>1, <3>2, KernelAssumption DEF Kin
    <3>4. m = cur
      BY <2>3, <2>4, <2>5, <2>6, <3>3, MembersDiffer, KernelAssumption
    <3>5. node[cur].depth \in Nat /\ node[pid].depth \in Nat
      BY <2>4 DEF ContractInv, TypeInv, TypeOK, Node
    <3> QED
      BY <2>4, <3>2, <3>4, <3>5 DEF Precedes
  <2> QED
    BY <2>7, <2>8
<1> HIDE DEF Inv, Late
<1>4. Spec => [][Late]_vars
  BY <1>1, <1>2, <1>3, PTL DEF Spec
<1> QED
  BY <1>4 DEF ResumeAfterSignals, Late
=============================================================================
