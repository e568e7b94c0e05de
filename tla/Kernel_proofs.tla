---------------------------- MODULE Kernel_proofs ---------------------------
(***************************************************************************)
(* Facts about the process table that the proofs of the components built on *)
(* it rest on: it keeps its types, a number belongs to at most one process  *)
(* at a time, and an incarnation that is gone never comes back.            *)
(***************************************************************************)
EXTENDS Kernel, FiniteSetTheorems, TLAPS

-----------------------------------------------------------------------------
\* Numbers

\* A set of numbers up to one of its members is finite, and smaller for a smaller
\* member.
NoMoreThan(S, n) == {m \in S : m <= n}

LEMMA UpToFinite ==
    ASSUME NEW S, \A m \in S : m \in Nat, NEW n \in S
    PROVE  IsFiniteSet(NoMoreThan(S, n)) /\ NoMoreThan(S, n) \subseteq S
<1>1. NoMoreThan(S, n) \subseteq 0..n
  BY DEF NoMoreThan
<1>2. IsFiniteSet(0..n)
  BY FS_Interval
<1> QED
  BY <1>1, <1>2, FS_Subset DEF NoMoreThan

LEMMA UpToOrder ==
    ASSUME NEW S, \A m \in S : m \in Nat, NEW n \in S, NEW k \in S
    PROVE  /\ n \in NoMoreThan(S, n)
           /\ k <= n => NoMoreThan(S, k) \subseteq NoMoreThan(S, n)
           /\ k < n => n \notin NoMoreThan(S, k)
BY DEF NoMoreThan

\* A set of numbers that is not empty has a least member.
LEMMA NatMin ==
    ASSUME NEW S, \A m \in S : m \in Nat, S # {}
    PROVE  \E n \in S : \A m \in S : n <= m
<1>1. PICK top \in S : TRUE
  OBVIOUS
<1> DEFINE Top == NoMoreThan(S, top)
           Chains == {NoMoreThan(S, n) : n \in Top}
<1>2. Top \subseteq S
  BY UpToFinite
<1>3. IsWellFoundedOn(StrictSubsetOrdering(Top), FiniteSubsetsOf(Top))
  BY FS_StrictSubsetOrderingWellFounded
<1>4. \A n \in Top : n \in S /\ NoMoreThan(S, n) \subseteq Top /\ IsFiniteSet(NoMoreThan(S, n))
  BY <1>2, UpToFinite, UpToOrder DEF NoMoreThan
<1>5. Chains \subseteq FiniteSubsetsOf(Top) /\ Chains # {}
  BY <1>4, UpToOrder DEF FiniteSubsetsOf
<1>6. PICK C \in Chains : \A D \in Chains : <<D, C>> \notin StrictSubsetOrdering(Top)
  <2> HIDE DEF Chains, Top
  <2> QED
    BY <1>3, <1>5, WFMin, Zenon
<1>7. PICK n \in Top : C = NoMoreThan(S, n)
  OBVIOUS
<1>8. ASSUME NEW m \in S, m < n
      PROVE  FALSE
  <2>1. n \in S /\ m \in Nat /\ n \in Nat
    BY <1>2
  <2>2. m <= n /\ n <= top /\ top \in Nat
    BY <1>8, <2>1 DEF NoMoreThan
  <2>3. NoMoreThan(S, m) \subseteq NoMoreThan(S, n) /\ n \notin NoMoreThan(S, m) /\ n \in NoMoreThan(S, n)
    BY <1>8, <2>1, <2>2, UpToOrder, Zenon
  <2>4. m \in Top
    BY <2>1, <2>2 DEF NoMoreThan
  <2>5. <<NoMoreThan(S, m), C>> \in StrictSubsetOrdering(Top)
    BY <1>4, <1>7, <2>3, <2>4 DEF StrictSubsetOrdering
  <2> QED
    BY <1>6, <2>4, <2>5
<1> QED
  BY <1>2, <1>8

-----------------------------------------------------------------------------
\* The process table

\* A number belongs to at most one incarnation at a time: the reason why a start
\* marker read together with a number identifies a process.
OneHolder == \A p, q \in Proc :
    status[p] \in Present /\ status[q] \in Present /\ PidOf[p] = PidOf[q] => p = q

\* An incarnation is born once and dies once.
Ages == \A p \in Proc : /\ status[p] # "unborn" => status'[p] # "unborn"
                        /\ status[p] = "dead" => status'[p] = "dead"

\* What the readers of /proc get for a number is a process that has it, or none.
LEMMA OccupantHolds ==
    ASSUME NEW pid
    PROVE  /\ Occupant(pid) \in Proc \cup {NoProc}
           /\ Occupant(pid) # NoProc => Has(pid, Occupant(pid))
<1>1. CASE \E p \in Proc : Has(pid, p)
  <2> DEFINE o == CHOOSE p \in Proc : Has(pid, p)
  <2>1. o \in Proc /\ Has(pid, o)
    BY <1>1
  <2>2. Occupant(pid) = o
    BY <1>1 DEF Occupant
  <2> QED
    BY <2>1, <2>2
<1>2. CASE ~ \E p \in Proc : Has(pid, p)
  BY <1>2 DEF Occupant
<1> QED
  BY <1>1, <1>2

\* A number has the holder that is found to have it.
LEMMA OccupantIs ==
    ASSUME OneHolder, NEW pid, NEW p \in Proc, Has(pid, p)
    PROVE  Occupant(pid) = p
<1>1. Occupant(pid) = CHOOSE q \in Proc : Has(pid, q)
  BY DEF Occupant
<1>2. Occupant(pid) \in Proc /\ Has(pid, Occupant(pid))
  BY <1>1
<1> QED
  BY <1>2 DEF Has, OneHolder

\* What a process finds as its parent's number is a number of the model.
LEMMA ParentPidType ==
    ASSUME KernelTypeOK, NEW p \in Proc
    PROVE  ParentPid(p) \in ParentPids
BY KernelAssumption DEF KernelTypeOK, ParentPid, ParentPids

LEMMA ReaperPidType == ReaperPid \in ParentPids
BY KernelAssumption DEF ReaperPid, ParentPids

\* A process that perishes leaves a well-formed table behind.
LEMMA PerishType ==
    ASSUME KernelTypeOK, NEW p \in Proc, Perish(p)
    PROVE  /\ status' \in [Proc -> Status]
           /\ parent' \in [Proc -> Proc \cup Outside]
           /\ pending' \in [Proc -> SUBSET {"TERM", "KILL"}]
BY KernelAssumption DEF KernelTypeOK, Perish, Status

\* Every step of the process table, the system's and the disturbances', keeps
\* the table's types.
LEMMA KernelStepType == KernelTypeOK /\ KernelStep => KernelTypeOK'
<1> SUFFICES ASSUME KernelTypeOK, KernelStep PROVE KernelTypeOK'
  OBVIOUS
<1> USE KernelAssumption
<1>1. PICK p \in Proc :
        \/ StopTakesEffect(p) \/ TermTakesEffect(p) \/ KillTakesEffect(p) \/ Reap(p)
        \/ \E q \in Proc : Fork(p, q)
        \/ Spawn(p) \/ Die(p) \/ Exec(p) \/ Regroup(p)
        \/ OutsideStop(p) \/ OutsideCont(p)
  BY DEF KernelStep
<1>2. CASE StopTakesEffect(p) \/ Reap(p)
  BY <1>2 DEF KernelTypeOK, StopTakesEffect, Reap, Status
<1>3. CASE TermTakesEffect(p)
  <2>1. CASE Perish(p)
    BY <1>3, <2>1, PerishType DEF KernelTypeOK, TermTakesEffect
  <2>2. CASE pending' = [pending EXCEPT ![p] = @ \ {"TERM"}] /\ UNCHANGED <<status, parent>>
    BY <1>3, <2>2 DEF KernelTypeOK, TermTakesEffect
  <2> QED
    BY <1>3, <2>1, <2>2 DEF TermTakesEffect
<1>4. CASE KillTakesEffect(p)
  BY <1>4, PerishType DEF KernelTypeOK, KillTakesEffect
<1>5. CASE Die(p)
  BY <1>5, PerishType DEF KernelTypeOK, Die, Disturb
<1>6. CASE \E q \in Proc : Fork(p, q)
  BY <1>6 DEF KernelTypeOK, Fork, Disturb, Status
<1>7. CASE Spawn(p)
  BY <1>7 DEF KernelTypeOK, Spawn, Disturb, Status
<1>8. CASE Exec(p)
  BY <1>8 DEF KernelTypeOK, Exec, Disturb
<1>9. CASE Regroup(p)
  BY <1>9 DEF KernelTypeOK, Regroup, Disturb
<1>10. CASE OutsideStop(p) \/ OutsideCont(p)
  BY <1>10 DEF KernelTypeOK, OutsideStop, OutsideCont, Disturb, Status
<1> QED
  BY <1>1, <1>2, <1>3, <1>4, <1>5, <1>6, <1>7, <1>8, <1>9, <1>10

\* A step that makes nobody appear keeps every number with one holder.
LEMMA NobodyAppears ==
    ASSUME OneHolder, \A p \in Proc : status'[p] \in Present => status[p] \in Present
    PROVE  OneHolder'
BY DEF OneHolder

\* A process appears only under a number that nobody has.
LEMMA BirthKeepsOneHolder ==
    ASSUME KernelTypeOK, OneHolder, NEW p \in Proc,
           Occupant(PidOf[p]) = NoProc, status' = [status EXCEPT ![p] = "running"]
    PROVE  OneHolder'
<1>1. \A q \in Proc : PidOf[q] = PidOf[p] => status[q] \notin Present
  <2> SUFFICES ASSUME NEW q \in Proc, PidOf[q] = PidOf[p], status[q] \in Present
               PROVE  FALSE
    OBVIOUS
  <2>1. Has(PidOf[p], q)
    BY DEF Has
  <2> DEFINE o == CHOOSE r \in Proc : Has(PidOf[p], r)
  <2>2. o \in Proc /\ Occupant(PidOf[p]) = o
    BY <2>1 DEF Occupant
  <2> QED
    BY <2>2, KernelAssumption
<1> QED
  BY <1>1 DEF OneHolder, KernelTypeOK

\* Numbers stay with one holder, and nobody comes back, in every step of the table.
LEMMA KernelStepIdentity == KernelTypeOK /\ OneHolder /\ KernelStep => OneHolder' /\ Ages
<1> SUFFICES ASSUME KernelTypeOK, OneHolder, KernelStep PROVE OneHolder' /\ Ages
  OBVIOUS
<1>1. PICK p \in Proc :
        \/ StopTakesEffect(p) \/ TermTakesEffect(p) \/ KillTakesEffect(p) \/ Reap(p)
        \/ \E q \in Proc : Fork(p, q)
        \/ Spawn(p) \/ Die(p) \/ Exec(p) \/ Regroup(p)
        \/ OutsideStop(p) \/ OutsideCont(p)
  BY DEF KernelStep
<1> DEFINE Settled == /\ Ages
                      /\ \A q \in Proc : status'[q] \in Present => status[q] \in Present
<1>2. CASE StopTakesEffect(p) \/ Reap(p) \/ OutsideStop(p) \/ OutsideCont(p)
  <2>1. Settled
    BY <1>2 DEF KernelTypeOK, StopTakesEffect, Reap, OutsideStop, OutsideCont, Ages,
                Present, Live, Active
  <2> QED
    BY <2>1, NobodyAppears
<1>3. ASSUME Perish(p), status[p] \in Live
      PROVE  Settled
  BY <1>3 DEF KernelTypeOK, Perish, Ages, Present, Live, Active
<1>4. CASE TermTakesEffect(p) \/ KillTakesEffect(p) \/ Die(p)
  <2>1. Settled
    <3>1. CASE Perish(p)
      BY <1>3, <1>4, <3>1 DEF TermTakesEffect, KillTakesEffect, Die, Live
    <3>2. CASE UNCHANGED status
      BY <3>2 DEF Ages
    <3> QED
      BY <1>4, <3>1, <3>2 DEF TermTakesEffect, KillTakesEffect, Die
  <2> QED
    BY <2>1, NobodyAppears
<1>5. CASE Exec(p) \/ Regroup(p)
  <2>1. UNCHANGED status
    BY <1>5 DEF Exec, Regroup
  <2> QED
    BY <2>1, NobodyAppears DEF Ages
<1>6. CASE (\E q \in Proc : Fork(p, q)) \/ Spawn(p)
  <2>1. /\ Occupant(PidOf[p]) = NoProc /\ status[p] = "unborn"
        /\ status' = [status EXCEPT ![p] = "running"]
    BY <1>6 DEF Fork, Spawn
  <2>2. Ages
    BY <2>1 DEF Ages, KernelTypeOK
  <2> QED
    BY <2>1, <2>2, BirthKeepsOneHolder
<1> QED
  BY <1>1, <1>2, <1>4, <1>5, <1>6

-----------------------------------------------------------------------------
\* A process that somebody has stopped

\* Who is not touched by others does not run again by itself, and while it does
\* not run it keeps its name, its group, and a SIGKILL it was sent.
Resting(p) == status[p] \notin Active \cup {"unborn"}
RestsOn(p) ==
    /\ p \in meddled => p \in meddled'
    /\ status'[p] = "stopping" => status[p] = "stopping"
    /\ status'[p] = "stopped" /\ p \notin meddled' => status[p] \in {"stopping", "stopped"}
    /\ Resting(p) /\ p \notin meddled' => status'[p] \notin Active
    /\ "KILL" \in pending[p] /\ status'[p] \in Live => "KILL" \in pending'[p]
    /\ Resting(p) => name'[p] = name[p]
    /\ Resting(p) /\ p \notin meddled' => pgrp'[p] = pgrp[p]
    /\ status'[p] \in Live => status[p] \in Live \cup {"unborn"}
    /\ status[p] # "unborn" => parent'[p] \in {parent[p], Reaper}

\* Whoever perishes, the others go on as they were.
LEMMA PerishRests ==
    ASSUME KernelTypeOK, NEW q \in Proc, Perish(q), UNCHANGED <<pgrp, name, meddled>>,
           NEW p \in Proc
    PROVE  RestsOn(p)
BY KernelAssumption DEF KernelTypeOK, Perish, RestsOn, Resting, Active, Live

\* The same of every step of the table that is nobody's end.
LEMMA KernelStepRests ==
    ASSUME KernelTypeOK, KernelStep, NEW p \in Proc
    PROVE  RestsOn(p)
<1>1. PICK q \in Proc :
        \/ StopTakesEffect(q) \/ TermTakesEffect(q) \/ KillTakesEffect(q) \/ Reap(q)
        \/ \E r \in Proc : Fork(q, r)
        \/ Spawn(q) \/ Die(q) \/ Exec(q) \/ Regroup(q)
        \/ OutsideStop(q) \/ OutsideCont(q)
  BY DEF KernelStep
<1> USE DEF KernelTypeOK, RestsOn, Resting, Active, Live
<1>2. CASE StopTakesEffect(q) \/ Reap(q)
  BY <1>2 DEF StopTakesEffect, Reap
<1>3. CASE TermTakesEffect(q)
  <2>1. CASE Perish(q)
    BY <1>3, <2>1, PerishRests DEF TermTakesEffect
  <2>2. CASE pending' = [pending EXCEPT ![q] = @ \ {"TERM"}] /\ UNCHANGED <<status, parent>>
    BY <1>3, <2>2 DEF TermTakesEffect
  <2> QED
    BY <1>3, <2>1, <2>2 DEF TermTakesEffect
<1>4. CASE KillTakesEffect(q) \/ Die(q)
  BY <1>4, PerishRests DEF KillTakesEffect, Die
<1>5. CASE (\E r \in Proc : Fork(q, r)) \/ Spawn(q)
  BY <1>5 DEF Fork, Spawn, Disturb
<1>6. CASE Exec(q)
  BY <1>6 DEF Exec, Disturb
<1>7. CASE Regroup(q)
  BY <1>7 DEF Regroup, Disturb
<1>8. CASE OutsideStop(q) \/ OutsideCont(q)
  BY <1>8 DEF OutsideStop, OutsideCont, Disturb
<1> QED
  BY <1>1, <1>2, <1>3, <1>4, <1>5, <1>6, <1>7, <1>8

-----------------------------------------------------------------------------
\* Parents and children

\* Who has a parent among the processes has a living one: orphans are adopted.
ParentsAlive == \A p \in Proc :
    status[p] \in Present /\ parent[p] \in Proc => status[parent[p]] \in Live

\* A process is born of one that runs, and keeps its parent until that one ends.
KinOf(p) ==
    /\ status'[p] \in Present => status[p] \in Present \cup {"unborn"}
    /\ status'[p] \in Live => status[p] \in Live \cup {"unborn"}
    /\ status[p] # "unborn" =>
          \/ parent'[p] = parent[p]
          \/ parent[p] \in Proc /\ parent'[p] = Reaper /\ status'[parent[p]] \notin Live
    /\ status[p] = "unborn" /\ status'[p] \in Present /\ parent'[p] \in Proc
         => status[parent'[p]] \in Active

LEMMA PerishKin ==
    ASSUME KernelTypeOK, ParentsAlive, NEW q \in Proc, status[q] \in Live, Perish(q)
    PROVE  ParentsAlive' /\ \A p \in Proc : KinOf(p)
<1> USE KernelAssumption DEF KernelTypeOK, Status, Present, Live, Active
<1>1. \A p \in Proc : KinOf(p)
  BY DEF Perish, KinOf
<1>2. ASSUME NEW p \in Proc, status'[p] \in Present, parent'[p] \in Proc
      PROVE  status'[parent'[p]] \in Live
  <2>1. parent'[p] = parent[p] /\ parent[p] # q /\ parent[p] \in Proc
    BY <1>2 DEF Perish
  <2>2. status[p] \in Present
    BY <1>2 DEF Perish
  <2>3. status[parent[p]] \in Live
    BY <2>1, <2>2 DEF ParentsAlive
  <2> QED
    BY <2>1, <2>3 DEF Perish
<1> QED
  BY <1>1, <1>2 DEF ParentsAlive

LEMMA KernelStepKin ==
    ASSUME KernelTypeOK, ParentsAlive, KernelStep
    PROVE  ParentsAlive' /\ \A p \in Proc : KinOf(p)
<1>1. PICK q \in Proc :
        \/ StopTakesEffect(q) \/ TermTakesEffect(q) \/ KillTakesEffect(q) \/ Reap(q)
        \/ \E r \in Proc : Fork(q, r)
        \/ Spawn(q) \/ Die(q) \/ Exec(q) \/ Regroup(q)
        \/ OutsideStop(q) \/ OutsideCont(q)
  BY DEF KernelStep
<1>2. CASE Perish(q) /\ (TermTakesEffect(q) \/ KillTakesEffect(q) \/ Die(q))
  <2>1. status[q] \in Live
    BY <1>2 DEF TermTakesEffect, KillTakesEffect, Die, Live, Active
  <2> QED
    BY <1>2, <2>1, PerishKin
<1> DEFINE Milder == \A p \in Proc : \/ status'[p] = status[p]
                                     \/ status[p] \in Live /\ status'[p] \in Live
                                     \/ status[p] = "zombie" /\ status'[p] = "dead"
<1>3. ASSUME UNCHANGED parent, Milder
      PROVE  ParentsAlive' /\ \A p \in Proc : KinOf(p)
  BY <1>3 DEF ParentsAlive, KinOf, Present, Live, Active
<1>4. CASE UNCHANGED <<status, parent>>
  <2>1. UNCHANGED parent /\ Milder
    BY <1>4
  <2> QED
    BY <1>3, <2>1
<1>5. CASE StopTakesEffect(q) \/ Reap(q) \/ OutsideStop(q) \/ OutsideCont(q)
  <2>1. UNCHANGED parent /\ Milder
    BY <1>5
       DEF StopTakesEffect, Reap, OutsideStop, OutsideCont, KernelTypeOK, Live, Active
  <2> QED
    BY <1>3, <2>1
<1>6. CASE (\E r \in Proc : Fork(q, r)) \/ Spawn(q)
  <2>1. PICK r \in Proc \cup Outside :
          /\ status[q] = "unborn"
          /\ r \in Proc => status[r] \in Active
          /\ status' = [status EXCEPT ![q] = "running"]
          /\ parent' = [parent EXCEPT ![q] = r]
    <3>1. CASE \E r \in Proc : Fork(q, r)
      BY <3>1 DEF Fork
    <3>2. CASE Spawn(q)
      BY <3>2, KernelAssumption DEF Spawn
    <3> QED
      BY <1>6, <3>1, <3>2
  <2>2. q # r
    BY <2>1, KernelAssumption DEF Active
  <2>3. \A p \in Proc : /\ status'[p] = IF p = q THEN "running" ELSE status[p]
                        /\ parent'[p] = IF p = q THEN r ELSE parent[p]
    BY <2>1 DEF KernelTypeOK
  <2>4. ParentsAlive'
    BY <2>1, <2>2, <2>3 DEF ParentsAlive, Present, Live, Active
  <2>5. \A p \in Proc : KinOf(p)
    BY <2>1, <2>3 DEF KinOf, Present, Live, Active
  <2> QED
    BY <2>4, <2>5
<1> QED
  BY <1>1, <1>2, <1>4, <1>5, <1>6
     DEF TermTakesEffect, KillTakesEffect, Die, Exec, Regroup

-----------------------------------------------------------------------------
\* Recursive functions

\* What holds of 0, and of n + 1 if of n, holds of every number.
LEMMA NatSteps ==
    ASSUME NEW S, S \subseteq Nat, 0 \in S, \A n \in S : n + 1 \in S
    PROVE  S = Nat
<1> SUFFICES ASSUME Nat \ S # {} PROVE FALSE
  OBVIOUS
<1>1. PICK n \in Nat \ S : \A m \in Nat \ S : n <= m
  BY NatMin
<1>2. n - 1 \in Nat /\ n - 1 < n /\ n = (n - 1) + 1
  BY <1>1
<1>3. n - 1 \in S
  BY <1>1, <1>2
<1> QED
  BY <1>1, <1>2, <1>3

\* A function can be defined on the numbers by its first value and its steps: its
\* beginnings exist and agree with each other.
Beginnings(x, step, n) == {g \in [0..n -> DOMAIN step] :
    g[0] = x /\ \A k \in 0..n : k < n => g[k + 1] = step[g[k]]}

Recurs(h, S, x, step) ==
    h \in [Nat -> S] /\ h[0] = x /\ \A n \in Nat : h[n + 1] = step[h[n]]

LEMMA NatRecursion ==
    \A S, x, step : x \in S /\ step \in [S -> S] => \E h : Recurs(h, S, x, step)
<1> SUFFICES ASSUME NEW S, NEW x \in S, NEW step \in [S -> S]
             PROVE  \E h : Recurs(h, S, x, step)
  OBVIOUS
<1> DEFINE B(n) == Beginnings(x, step, n)
<1>1. \A n \in Nat : B(n) # {}
  <2> DEFINE T == {n \in Nat : B(n) # {}}
  <2>1. 0 \in T
    <3>1. [k \in 0..0 |-> x] \in B(0)
      BY DEF Beginnings
    <3> QED
      BY <3>1
  <2>2. ASSUME NEW n \in T PROVE n + 1 \in T
    <3>1. PICK g : g \in B(n)
      BY <2>2
    <3> DEFINE f == [k \in 0..(n + 1) |-> IF k = n + 1 THEN step[g[n]] ELSE g[k]]
    <3>2. g \in [0..n -> S] /\ g[0] = x /\ \A k \in 0..n : k < n => g[k + 1] = step[g[k]]
      BY <3>1 DEF Beginnings
    <3>3. f \in [0..(n + 1) -> S] /\ f[0] = x
      BY <3>2
    <3>4. ASSUME NEW k \in 0..(n + 1), k < n + 1 PROVE f[k + 1] = step[f[k]]
      <4>1. k \in 0..n /\ k + 1 \in 0..(n + 1) /\ f[k] = g[k]
        BY <3>4
      <4>2. CASE k = n
        BY <4>1, <4>2
      <4>3. CASE k < n
        BY <3>2, <4>1, <4>3
      <4> QED
        BY <4>1, <4>2, <4>3
    <3>5. f \in B(n + 1)
      <4> HIDE DEF f
      <4> QED
        BY <3>3, <3>4 DEF Beginnings
    <3> QED
      BY <3>5
  <2> HIDE DEF T
  <2>3. T = Nat
    <3>1. T \subseteq Nat
      BY DEF T
    <3> QED
      BY <2>1, <2>2, <3>1, NatSteps
  <2> QED
    BY <2>3 DEF T
<1>2. ASSUME NEW n \in Nat, NEW m \in Nat, NEW g \in B(n), NEW f \in B(m)
      PROVE  \A k \in Nat : k <= n /\ k <= m => g[k] = f[k]
  <2> DEFINE T == {k \in Nat : k <= n /\ k <= m => g[k] = f[k]}
  <2>1. 0 \in T
    BY DEF Beginnings
  <2>2. ASSUME NEW k \in T PROVE k + 1 \in T
    BY <2>2 DEF Beginnings
  <2> HIDE DEF T
  <2>3. T = Nat
    <3>1. T \subseteq Nat
      BY DEF T
    <3> QED
      BY <2>1, <2>2, <3>1, NatSteps
  <2> QED
    BY <2>3 DEF T
<1> DEFINE pick == [n \in Nat |-> CHOOSE g : g \in B(n)]
           h == [n \in Nat |-> pick[n][n]]
<1>3. \A n \in Nat : pick[n] \in B(n)
  BY <1>1
<1> HIDE DEF pick
<1>4. h \in [Nat -> S]
  BY <1>3 DEF Beginnings
<1>5. h[0] = x
  BY <1>3 DEF Beginnings
<1>6. ASSUME NEW n \in Nat PROVE h[n + 1] = step[h[n]]
  <2>1. pick[n] \in B(n) /\ pick[n + 1] \in B(n + 1)
    BY <1>3
  <2>2. pick[n + 1][n + 1] = step[pick[n + 1][n]]
    BY <2>1 DEF Beginnings
  <2>3. pick[n + 1][n] = pick[n][n]
    <3> HIDE DEF B
    <3> QED
      BY <1>2, <2>1
  <2> QED
    BY <2>2, <2>3
<1> QED
  BY <1>4, <1>5, <1>6 DEF Recurs

\* What the definition of Ancestors says is true of it.
LEMMA AncestorsUnfold ==
    ASSUME parent \in [Proc -> Proc \cup Outside]
    PROVE  \A n \in Nat, p \in Proc :
             Ancestors[n][p] = {p} \cup IF n = 0 \/ parent[p] \notin Proc THEN {}
                                        ELSE Ancestors[n - 1][parent[p]]
<1> DEFINE S == [Proc -> SUBSET Proc]
           Line(f, n) == [p \in Proc |-> {p} \cup IF n = 0 \/ parent[p] \notin Proc THEN {}
                                                  ELSE f[n - 1][parent[p]]]
           step == [a \in S |-> [p \in Proc |-> {p} \cup IF parent[p] \notin Proc THEN {}
                                                         ELSE a[parent[p]]]]
           x == [p \in Proc |-> {p}]
<1>1. x \in S /\ step \in [S -> S]
  OBVIOUS
<1>2. PICK h : Recurs(h, S, x, step)
  <2> HIDE DEF S, step, x
  <2> QED
    BY <1>1, NatRecursion
<1>3. ASSUME NEW n \in Nat PROVE h[n] = Line(h, n)
  <2>1. CASE n = 0
    BY <1>2, <2>1 DEF Recurs
  <2>2. CASE n # 0
    <3>1. n - 1 \in Nat /\ n = (n - 1) + 1
      BY <2>2
    <3> HIDE DEF S, step
    <3>2. h[n] = step[h[n - 1]] /\ h[n - 1] \in S
      BY <1>2, <3>1 DEF Recurs
    <3> USE DEF S, step
    <3> QED
      BY <2>2, <3>2
  <2> QED
    BY <2>1, <2>2
<1>4. h = [n \in Nat |-> Line(h, n)]
  <2> HIDE DEF S, Line, step, x
  <2> QED
    BY <1>2, <1>3 DEF Recurs
<1>5. Ancestors = CHOOSE f : f = [n \in Nat |-> Line(f, n)]
  BY DEF Ancestors
<1>6. Ancestors = [n \in Nat |-> Line(Ancestors, n)]
  <2> HIDE DEF Line
  <2> QED
    BY <1>4, <1>5
<1> QED
  BY <1>6
=============================================================================
