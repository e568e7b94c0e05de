--------------------------- MODULE RawKill_proofs ---------------------------
(***************************************************************************)
(* What ending one confirmed process by its number guarantees on macOS, for  *)
(* every process table, mode and fault: who gets the signal, and what is      *)
(* left behind.                                                             *)
(***************************************************************************)
EXTENDS RawKill, Kernel_proofs

TypeInv == KernelTypeOK /\ RawKillTypeOK

\* Whoever has the number is present, and it is the confirmed process if that is.
LEMMA HolderIs ==
    ASSUME OneHolder
    PROVE  /\ Holder \in Proc \cup {NoProc} /\ NoProc \notin Proc /\ Target \in Proc
           /\ Holder # NoProc => Holder \in Proc /\ status[Holder] \in Present
           /\ status[Target] \in Present => Holder = Target
<1>1. Target \in Proc /\ NoProc \notin Proc
  BY KernelAssumption, RawKillAssumption
<1>2. Holder # NoProc => Has(number, Holder)
  BY OccupantHolds DEF Holder
<1>3. Holder \in Proc \cup {NoProc}
  BY OccupantHolds DEF Holder
<1>4. status[Target] \in Present => Holder = Target
  BY <1>1, OccupantIs DEF Has, Holder, number
<1> QED
  BY <1>1, <1>2, <1>3, <1>4 DEF Has

-----------------------------------------------------------------------------
\* The invariant

Stopped == status[Target] \in {"stopping", "stopped"}

\* The kill goes on only with the confirmed process.
BeforeIsTarget == step \in {"stop", "poll", "evidence", "again", "deliver"} => before.who = Target

\* Nobody is held before SIGSTOP, and a process that was stopped before it is not
\* held by it unless somebody else has continued it meanwhile.
HeldSince ==
    /\ step \in {"prepare", "before", "stop"} => held = {}
    /\ step = "stop" /\ before.stopped => Resting(Target) \/ Target \in meddled
    /\ step = "poll" /\ before.stopped => Target \notin held \ meddled

\* What was seen stopped stays so, and the name read of it stays its name.
Halted == step \in {"evidence", "again", "deliver"} => Resting(Target) \/ Target \in meddled
NameRead == step \in {"again", "deliver"} /\ evidence.who = Target /\ Target \notin meddled
    => evidence.name = name[Target]
Proven == step = "deliver" =>
    read = Target /\ evidence.who = Target /\ evidence.name = Known /\ rollback = Target

\* A process this kill holds is resumed, or reported, or has a SIGKILL to die of.
HoldIsOwed == Target \in held \ meddled /\ Stopped =>
    /\ step \in {"evidence", "again", "deliver"} => transitioned
    /\ step = "check" => rollback = Target
    /\ step = "done" => thawFailed \/ "KILL" \in pending[Target]

\* The outcome is decided once.
OutcomeHolds ==
    /\ step \notin {"check", "cont", "done"} => delivered = {}
    /\ outcome = "Success" <=> delivered # {}
    /\ outcome = "AlreadyExited" => ~Alive(Target)

RawKillInv ==
    /\ TypeInv /\ OneHolder /\ status[Target] # "unborn"
    /\ BeforeIsTarget /\ HeldSince /\ Halted /\ NameRead /\ Proven /\ HoldIsOwed /\ OutcomeHolds

LEMMA InitRawKill == Init => RawKillInv
<1> SUFFICES ASSUME Init PROVE RawKillInv
  OBVIOUS
<1>1. PICK t \in Start : status = t.status /\ parent = t.parent /\ pgrp = t.pgrp /\ name = t.name
  BY DEF Init, KernelInit
<1>2. KernelTypeOK
  BY <1>1, StartAssumption, KernelAssumption DEF Init, KernelInit, KernelTypeOK, Table
<1>3. OneHolder
  BY <1>1, StartAssumption DEF OneHolder
<1>4. status[Target] # "unborn"
  BY <1>1, RawKillAssumption
<1>5. RawKillTypeOK
  BY DEF Init, RawKillTypeOK, NoState
<1> QED
  BY <1>2, <1>3, <1>4, <1>5 DEF Init, RawKillInv, TypeInv, BeforeIsTarget, HeldSince, Halted, NameRead,
                               Proven, HoldIsOwed, OutcomeHolds

-----------------------------------------------------------------------------
\* Steps

\* The steps that change nothing but what kick knows.
Looks == \/ Prepare \/ ReadBefore \/ Poll \/ Identity \/ ReadEvidence \/ CheckEvidence \/ CheckMarker
         \/ Late \/ UNCHANGED vars

LEMMA NextType == RawKillInv /\ [Next]_vars => TypeInv'
<1> SUFFICES ASSUME RawKillInv, [Next]_vars PROVE TypeInv'
  OBVIOUS
<1>0. KernelTypeOK /\ RawKillTypeOK /\ OneHolder
  BY DEF RawKillInv, TypeInv
<1> USE HolderIs, <1>0
<1>1. ASSUME NEW kind, Fault(kind) PROVE budget' \in 0..MaxDisturbances
  BY <1>1, KernelAssumption DEF Fault, KernelTypeOK
<1>2. CASE Prepare \/ ReadBefore \/ Poll
  <2>1. UNCHANGED <<status, parent, pgrp, name, pending, meddled>>
    BY <1>2 DEF Prepare, ReadBefore, Poll, Observes
  <2>2. budget' = budget \/ \E kind : Fault(kind)
    BY <1>2 DEF Prepare, ReadBefore, Poll
  <2>3. RawKillTypeOK'
    BY <1>2 DEF Prepare, ReadBefore, Poll, RawKillTypeOK, Ends, RollsBack, Loses, Keep, Exited
  <2> QED
    BY <1>1, <2>1, <2>2, <2>3 DEF TypeInv, KernelTypeOK
<1>3. CASE Identity \/ ReadEvidence \/ CheckEvidence \/ CheckMarker
  <2>1. UNCHANGED <<status, parent, pgrp, name, pending, meddled>>
    BY <1>3 DEF Identity, ReadEvidence, CheckEvidence, CheckMarker, Observes
  <2>2. budget' = budget \/ \E kind : Fault(kind)
    BY <1>3 DEF Identity, ReadEvidence, CheckEvidence, CheckMarker
  <2>3. RawKillTypeOK'
    BY <1>3 DEF Identity, ReadEvidence, CheckEvidence, CheckMarker, RawKillTypeOK, Ends, RollsBack,
                Refuse, Exited, Unmatched
  <2> QED
    BY <1>1, <2>1, <2>2, <2>3 DEF TypeInv, KernelTypeOK
<1>4. CASE Stop \/ Continue
  <2>1. status' \in [Proc -> Status]
    BY <1>4 DEF Stop, Continue, KernelTypeOK, StopStatus, ContStatus, Status
  <2> QED
    BY <1>4, <2>1 DEF Stop, Continue, TypeInv, KernelTypeOK, RawKillTypeOK, Ends, Unmatched, historyVars
<1>5. CASE DeliverSignal
  <2>1. pending' \in [Proc -> SUBSET {"TERM", "KILL"}]
    BY <1>5, RawKillAssumption DEF DeliverSignal, KernelTypeOK, RawKillTypeOK
  <2>2. budget' \in 0..MaxDisturbances
    BY <1>1, <1>5 DEF DeliverSignal, KernelTypeOK
  <2>3. RawKillTypeOK'
    BY <1>5 DEF DeliverSignal, RawKillTypeOK, After, Accepts
  <2> QED
    BY <1>5, <2>1, <2>2, <2>3 DEF DeliverSignal, TypeInv, KernelTypeOK
<1>6. CASE World
  BY <1>6, KernelStepType DEF World, TypeInv, RawKillTypeOK, killVars, historyVars
<1>7. CASE Late \/ UNCHANGED vars
  BY <1>7 DEF Late, vars, kernelVars, killVars, historyVars, TypeInv, KernelTypeOK, RawKillTypeOK
<1> QED
  BY <1>2, <1>3, <1>4, <1>5, <1>6, <1>7 DEF Next, Done

LEMMA NextHolder == RawKillInv /\ [Next]_vars => OneHolder' /\ status'[Target] # "unborn"
<1> SUFFICES ASSUME RawKillInv, [Next]_vars PROVE OneHolder' /\ status'[Target] # "unborn"
  OBVIOUS
<1>0. KernelTypeOK /\ OneHolder /\ status[Target] # "unborn" /\ Target \in Proc
  BY RawKillAssumption DEF RawKillInv, TypeInv
<1>1. CASE World
  BY <1>0, <1>1, KernelStepIdentity DEF World, Ages
<1>2. CASE Stop \/ Continue
  <2>1. \A p \in Proc : /\ status'[p] \in Present => status[p] \in Present
                        /\ status'[p] = "unborn" => status[p] = "unborn"
    BY <1>0, <1>2 DEF Stop, Continue, StopStatus, ContStatus, KernelTypeOK, Present, Live, Active
  <2> QED
    BY <1>0, <2>1, NobodyAppears
<1>3. CASE UNCHANGED status
  BY <1>0, <1>3 DEF OneHolder
<1> QED
  BY <1>1, <1>2, <1>3 DEF Next, Done, Prepare, ReadBefore, Poll, Identity, ReadEvidence, CheckEvidence,
                        CheckMarker, Late, Observes, DeliverSignal, vars, kernelVars

\* What the rest of the invariant says, step by step.
Duties == BeforeIsTarget /\ HeldSince /\ Halted /\ NameRead /\ Proven /\ HoldIsOwed /\ OutcomeHolds

LEMMA PrepareDuties == RawKillInv /\ Prepare => Duties'
BY HolderIs DEF RawKillInv, Prepare, Ends, Keep, Observes, Duties, BeforeIsTarget, HeldSince, Halted,
   NameRead, Proven, HoldIsOwed, OutcomeHolds, Alive, Present

LEMMA ReadBeforeDuties == RawKillInv /\ ReadBefore => Duties'
<1> SUFFICES ASSUME RawKillInv, ReadBefore PROVE Duties'
  OBVIOUS
<1>0. held = {} /\ delivered = {} /\ step = "before" /\ outcome # "Success"
  BY DEF RawKillInv, ReadBefore, HeldSince, OutcomeHolds
<1>1. UNCHANGED <<status, name, meddled, delivered, held>>
  BY DEF ReadBefore, Observes
<1>2. CASE step' = "stop"
  <2>1. Holder = Target /\ before' = [who |-> Holder, stopped |-> status[Holder] = "stopped"]
    BY <1>2 DEF ReadBefore, Ends
  <2>2. before'.who = Target /\ (before'.stopped => status[Target] = "stopped")
    BY <2>1
  <2>3. UNCHANGED outcome
    BY <1>2 DEF ReadBefore, Ends
  <2> QED
    BY <1>0, <1>1, <1>2, <2>2, <2>3 DEF RawKillInv, Duties, BeforeIsTarget, HeldSince, Halted, NameRead,
       Proven, HoldIsOwed, OutcomeHolds, Alive, Resting, Active
<1>3. CASE step' # "stop"
  <2>1. step' = "done" /\ outcome' # "Success"
    BY <1>3 DEF ReadBefore, Ends
  <2>2. outcome' = "AlreadyExited" => Exited(Holder)
    BY <1>3 DEF ReadBefore, Ends
  <2>3. Exited(Holder) => ~Alive(Target)
    BY HolderIs DEF RawKillInv, Exited, Alive, Present, Live, Active
  <2> QED
    BY <1>0, <1>1, <2>1, <2>2, <2>3 DEF Duties, BeforeIsTarget, HeldSince, Halted, NameRead,
       Proven, HoldIsOwed, OutcomeHolds, Alive
<1> QED
  BY <1>2, <1>3

LEMMA StopDuties == RawKillInv /\ Stop => Duties'
BY HolderIs DEF RawKillInv, TypeInv, KernelTypeOK, Stop, Ends, Duties, BeforeIsTarget, HeldSince, Halted,
   NameRead, Proven, HoldIsOwed, OutcomeHolds, Alive, Present, Live, Active, Resting, StopStatus

LEMMA PollDuties == RawKillInv /\ (Poll \/ Identity) => Duties'
BY HolderIs DEF RawKillInv, Poll, Identity, Ends, RollsBack, Loses, Keep, Exited, Observes, Duties,
   BeforeIsTarget, HeldSince, Halted, NameRead, Proven, HoldIsOwed, OutcomeHolds, Alive, Present, Live,
   Active, Resting, Stopped

LEMMA EvidenceDuties == RawKillInv /\ (ReadEvidence \/ CheckEvidence) => Duties'
BY HolderIs DEF RawKillInv, ReadEvidence, CheckEvidence, Ends, RollsBack, Refuse, Exited, Observes,
   IsConfirmed, Duties, BeforeIsTarget, HeldSince, Halted, NameRead, Proven, HoldIsOwed, OutcomeHolds,
   Alive, Present, Live, Active, Resting, Stopped

LEMMA DeliverDuties == RawKillInv /\ DeliverSignal => Duties'
<1> SUFFICES ASSUME RawKillInv, DeliverSignal PROVE Duties'
  OBVIOUS
<1>0. /\ OneHolder /\ pending \in [Proc -> SUBSET {"TERM", "KILL"}] /\ mode \in {"TERM", "KILL"}
      /\ step = "deliver" /\ rollback = Target /\ delivered = {} /\ Target \in Proc
  BY RawKillAssumption DEF RawKillInv, TypeInv, KernelTypeOK, RawKillTypeOK, DeliverSignal, Proven,
     OutcomeHolds
<1>1. UNCHANGED <<status, name, meddled, held, rollback, transitioned>>
  BY DEF DeliverSignal, After
<1>2. /\ step' \in {"check", "done"}
      /\ step' = "done" => ~(outcome' = "Success" /\ mode = "TERM")
                            /\ ~(transitioned /\ outcome' # "Success")
  BY DEF DeliverSignal, After, Resumes
<1>3. /\ outcome' = "Success" <=> delivered' # {}
      /\ outcome' = "AlreadyExited" => Holder = NoProc
  BY <1>0 DEF DeliverSignal, After, SignalResult, Accepts
<1>4. outcome' = "Success" /\ Alive(Target) => mode \in pending'[Target]
  <2>1. SUFFICES ASSUME outcome' = "Success", Alive(Target) PROVE mode \in pending'[Target]
    OBVIOUS
  <2>2. Holder = Target
    BY <1>0, <2>1, HolderIs DEF Alive, Present
  <2>3. pending' = [p \in Proc |-> IF p = Holder /\ Alive(p) THEN pending[p] \cup {mode} ELSE pending[p]]
    BY <2>1 DEF DeliverSignal, After, SignalResult
  <2> QED
    BY <1>0, <2>1, <2>2, <2>3
<1>5. HoldIsOwed'
  <2>1. SUFFICES ASSUME Target \in held \ meddled, Stopped, step' = "done"
                 PROVE  "KILL" \in pending'[Target]
    BY <1>0, <1>1, <1>2 DEF HoldIsOwed, Stopped
  <2>2. transitioned /\ Alive(Target)
    BY <1>0, <2>1 DEF RawKillInv, HoldIsOwed, Stopped, Alive, Live, Active
  <2> QED
    BY <1>0, <1>2, <1>4, <2>1, <2>2
<1>6. Holder = NoProc => ~Alive(Target)
  BY <1>0, HolderIs DEF Alive, Present
<1> QED
  BY <1>0, <1>1, <1>2, <1>3, <1>5, <1>6 DEF Duties, BeforeIsTarget, HeldSince, Halted, NameRead, Proven,
     OutcomeHolds, Alive

LEMMA ContinueDuties == RawKillInv /\ (CheckMarker \/ Continue \/ Late) => Duties'
BY HolderIs DEF RawKillInv, TypeInv, KernelTypeOK, CheckMarker, Continue, Late, Unmatched, Observes,
   ContStatus, Duties, BeforeIsTarget, HeldSince, Halted, NameRead, Proven, HoldIsOwed, OutcomeHolds,
   Alive, Present, Live, Active, Resting, Stopped, kernelVars, historyVars

LEMMA WorldDuties == RawKillInv /\ World => Duties'
<1> SUFFICES ASSUME RawKillInv, World PROVE Duties'
  OBVIOUS
<1>0. KernelTypeOK /\ OneHolder /\ Target \in Proc
  BY RawKillAssumption DEF RawKillInv, TypeInv
<1>1. RestsOn(Target) /\ Ages
  BY <1>0, KernelStepRests, KernelStepIdentity DEF World
<1>2. UNCHANGED <<step, before, transitioned, evidence, rollback, outcome, thawFailed, read, delivered, held>>
  BY DEF World, killVars, historyVars
<1>3. Resting(Target) \/ Target \in meddled => Resting(Target)' \/ Target \in meddled'
  BY <1>0, <1>1 DEF RestsOn, Resting, Ages
<1>4. Target \in held' \ meddled' /\ Stopped' => Target \in held \ meddled /\ Stopped
  BY <1>1, <1>2 DEF RestsOn, Stopped
<1>5. Stopped' /\ "KILL" \in pending[Target] => "KILL" \in pending'[Target]
  BY <1>1 DEF RestsOn, Stopped, Live, Active
<1>6. ~Alive(Target) => ~Alive(Target)'
  BY <1>0, <1>1 DEF RestsOn, Alive, RawKillInv
<1> QED
  BY <1>1, <1>2, <1>3, <1>4, <1>5, <1>6 DEF RawKillInv, Duties, BeforeIsTarget, HeldSince, Halted,
     NameRead, Proven, HoldIsOwed, OutcomeHolds, RestsOn

LEMMA NextRawKill == RawKillInv /\ [Next]_vars => RawKillInv'
<1>1. RawKillInv /\ UNCHANGED vars => Duties'
  BY DEF RawKillInv, vars, kernelVars, killVars, historyVars, Duties, BeforeIsTarget, HeldSince, Halted,
         NameRead, Proven, HoldIsOwed, OutcomeHolds, Alive, Resting, Stopped
<1>2. RawKillInv /\ [Next]_vars => Duties'
  BY <1>1, PrepareDuties, ReadBeforeDuties, StopDuties, PollDuties, EvidenceDuties, DeliverDuties,
     ContinueDuties, WorldDuties DEF Next, Done
<1> QED
  BY <1>2, NextType, NextHolder DEF RawKillInv, Duties

-----------------------------------------------------------------------------
\* Theorems

LEMMA RawKillHolds == Spec => []RawKillInv
BY InitRawKill, NextRawKill, PTL DEF Spec

\* Only DeliverSignal gives anybody the signal.
LEMMA OnlyDeliverGives == [Next]_vars => UNCHANGED delivered \/ DeliverSignal
BY DEF Next, Done, Prepare, ReadBefore, Stop, Poll, Identity, ReadEvidence, CheckEvidence, CheckMarker,
       Continue, Late, World, vars, historyVars

\* Whoever is sent the signal, the last reading before it showed the confirmed
\* process, stopped and under its confirmed name; a stranger gets it only after
\* somebody else has ended that one (process/macos.rs 440-444).
THEOREM SignalsFollowProof == Spec => SignalFollowsProof
<1> DEFINE Shows == delivered' # delivered =>
                      /\ read = Target
                      /\ Target \in delivered' => name[Target] = Known \/ Target \in meddled
                      /\ Target \notin delivered' => ~Alive(Target)
<1>1. RawKillInv /\ [Next]_vars => [Shows]_delivered
  <2> SUFFICES ASSUME RawKillInv, DeliverSignal PROVE Shows
    BY OnlyDeliverGives
  <2>1. read = Target /\ evidence.who = Target /\ evidence.name = Known /\ step = "deliver"
    BY DEF RawKillInv, Proven, DeliverSignal
  <2>2. name[Target] = Known \/ Target \in meddled
    BY <2>1 DEF RawKillInv, NameRead
  <2>3. delivered' # delivered /\ Target \notin delivered' => Holder # Target
    BY DEF DeliverSignal
  <2>4. Holder # Target => ~Alive(Target)
    BY HolderIs DEF RawKillInv, Alive, Present
  <2> QED
    BY <2>1, <2>2, <2>3, <2>4
<1> HIDE DEF Shows
<1>2. Spec => [][Shows]_delivered
  BY <1>1, RawKillHolds, PTL DEF Spec
<1> QED
  BY <1>2 DEF SignalFollowsProof, Shows

\* However the kill ends, the stop it made of the confirmed process is undone, or
\* reported, or moot; and what it answers is true (process/macos.rs 214-247, 341-361).
THEOREM RawEndIsHonest == Spec => []EndIsHonest
<1>1. RawKillInv => EndIsHonest
  BY DEF RawKillInv, HoldIsOwed, OutcomeHolds, EndIsHonest, ConfirmedNotLeftStopped, AnswerIsTrue, Stopped
<1> QED
  BY <1>1, RawKillHolds, PTL
=============================================================================
