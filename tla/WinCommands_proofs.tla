------------------------- MODULE WinCommands_proofs -------------------------
(***************************************************************************)
(* What `kick kill` guarantees on Windows, for every process table, every    *)
(* failure of a system call and every order of births, ends and steps: who    *)
(* is ended, who is left frozen, and what is said of it.                      *)
(*                                                                         *)
(* The argument goes from the helper to the job.  The helper is asked        *)
(* something while its job is frozen and nothing comes: it has not ended,    *)
(* for then its end would be in the pipe, so it is stopped, and freezing a   *)
(* job works here.  Hence nobody in the frozen job starts anybody, and who   *)
(* was in it when its members were read is everybody until it is terminated. *)
(* What a process of the job has started is in the job too, unless that      *)
(* process was put there by hand, and then kick has a handle to it and sees  *)
(* its children in the last snapshot.                                      *)
(***************************************************************************)
EXTENDS WinCommands, FiniteSetTheorems, TLAPS

-----------------------------------------------------------------------------
\* The invariant

Started == {p \in Proc : status[p] # "unborn"}
Dead == {p \in Proc : status[p] = "dead"}

\* A set of processes that holds with each of them its parent.
ClosedUp(X) == \A p \in X \cap Proc : parent[p] \in X
\* Whoever follows the parents from p comes to the root.
Descendant(p) == \A X \in SUBSET (Proc \cup {Outsider}) : p \in X /\ ClosedUp(X) => Root \in X

HostTypes ==
    /\ status \in [Proc -> {"unborn", "running", "dead"}]
    /\ parent \in [Proc -> Proc \cup {Outsider}]
    /\ inJob \subseteq Started /\ frozen \in BOOLEAN /\ suspends \in BOOLEAN

\* A number belongs to one running process, and nobody's parent is still to be born.
OneOfANumber == \A p, q \in Running : PidOf[p] = PidOf[q] => p = q
ParentsFirst == \A p \in Started : parent[p] \in Proc => parent[p] \in Started
RootThere == Root \in Started

HostInv == HostTypes /\ OneOfANumber /\ ParentsFirst /\ RootThere

-----------------------------------------------------------------------------
\* The probe

ProbeSteps == {"spawn", "ready", "assign", "ping", "answer", "freeze", "ask", "silence", "thaw",
               "unproven", "late", "exit", "finish", "drop", "passed", "failed"}

ProbeTypes ==
    /\ step \in ProbeSteps /\ helper \in {"none", "running", "ok", "failed", "killed"}
    /\ events \in Seq({"R", "A", "end"})

\* The end of the helper is the last thing that comes from it, and only the end of
\* the probe takes it away.
EndIsLast ==
    /\ step \notin {"spawn", "drop", "passed", "failed"} => helper \in {"running", "ok", "failed"}
    /\ step = "spawn" => helper = "none"
    /\ helper \in {"ok", "failed"} /\ step \notin {"drop", "passed", "failed"} =>
         events # <<>> /\ events[Len(events)] = "end"
SilenceProves == step \in {"thaw", "late", "exit", "finish", "passed"} => suspends
HelperGone == step \in {"passed", "failed"} => helper # "running"

ProbeInv == ProbeTypes /\ EndIsLast /\ SilenceProves /\ HelperGone

-----------------------------------------------------------------------------
\* One process

RootTyped == IsProtected(Root) => auth = "protectedTyped"
Before == {"open", "evidence", "alive", "terminate", "failed"}

SingleInv ==
    /\ at \in Before \cup {"wait", "observe", "over"}
    /\ phase = "none"
    /\ at \in Before => doomed = {}
    /\ at \in {"alive", "terminate", "failed", "wait"} => handle = Root /\ RootTyped
    /\ doomed \subseteq {Root} /\ (doomed # {} => RootTyped)
    /\ at \notin {"observe", "over"} => result = "none"
    /\ at # "over" => seen = "none"
    /\ result \in {"Success", "AlreadyExited"} \/ seen = "Exited" => Root \in Dead

-----------------------------------------------------------------------------
\* The tree

Early == {"prepare", "recheck", "portless", "gates", "preview", "pin", "preflight", "commit"}
Containing == {"assign", "sweep", "adopt", "freeze", "ids", "prove", "check", "past", "stable",
               "terminate", "wait", "thaw"}
Checking == {"prove", "check", "past", "stable"}

TreeTypes ==
    /\ phase \in Early \cup Containing \cup {"done"}
    /\ todo \subseteq Proc /\ exact \subseteq Proc /\ doomed \subseteq Proc
    /\ members \in [Proc -> {"none", "pending", "assigned", "exited"}]
    /\ froze \in BOOLEAN
    /\ DOMAIN report = {"state", "issue", "cleanup", "terminated", "exited", "left"}
    /\ report.state \in {"Complete", "Partial", "Withheld"}

\* Until the root is in the job nothing has happened.
NothingYet ==
    /\ inJob = {} /\ doomed = {} /\ ~frozen /\ ~froze
    /\ report.terminated = {} /\ report.exited = {} /\ outcome = "none"
    /\ phase = "pin" => todo # {}

\* Whom kick knows it has seen running, and who is said to have ended has.
KnownStarted == Opened \cup todo \subseteq Started
EndsAreReal ==
    /\ report.terminated \cup report.exited \subseteq Dead
    /\ \A p \in Proc : members[p] = "exited" => p \in Dead

\* Everybody kick has to do with descends from the root.
AllDescend == \A p \in Opened \cup todo \cup inJob : Descendant(p)

\* What a process of the job has started is in the job, unless that process was put
\* there by hand.
JobKeepsChildren ==
    \A p \in Running : parent[p] \in inJob => p \in inJob \/ parent[p] \in Opened

\* Once the job is frozen nobody in it executes.
FreezeHolds ==
    /\ phase \in Containing \cup {"commit"} => step = "passed"
    /\ frozen => froze
    /\ phase \in {"assign", "sweep", "adopt"} /\ froze => frozen
    /\ phase \in Checking \cup {"ids", "terminate", "wait"} => frozen /\ froze

MembershipRead ==
    phase \in Checking \cup {"terminate"} => Live(inJob) \subseteq exact /\ exact \subseteq inJob

\* What the checks have proved of the members so far, as long as they go on living.
Checked(p) == members[p] = "assigned" /\ (IsProtected(p) => p = Root /\ auth = "protectedTyped")
ChildrenWithin(set) == \A p \in Running : parent[p] \in exact => p \in set

CheckedSoFar == phase = "check" =>
    /\ \A p \in exact \ todo : Checked(p)
    /\ exact \subseteq Running => ChildrenWithin(exact \cup todo)
AllChecked == phase \in {"past", "stable"} =>
    /\ \A p \in exact : Checked(p)
    /\ exact \subseteq Running => ChildrenWithin(exact)
    /\ \A p \in Opened \ exact : members[p] = "exited" \/ (phase = "past" /\ p \in todo)
    /\ phase = "past" => todo \cap exact = {}

MembershipProved ==
    /\ CheckedSoFar /\ AllChecked
    /\ phase = "terminate" =>
         /\ exact = OnlyAssigned
         /\ \A p \in exact : IsProtected(p) => p = Root /\ auth = "protectedTyped"
         /\ ChildrenWithin(exact)

NobodyPending ==
    phase \in {"terminate", "wait"} => \A p \in Opened : members[p] \in {"assigned", "exited"}

EverybodyWaitedFor ==
    phase = "wait" => /\ Live(inJob) \subseteq todo \cup report.left
                      /\ OnlyAssigned \subseteq todo \cup report.left \cup Dead

\* How the call has ended.
Completed == outcome \in {"Completed", "JobTerminateFailed"}
EndIsTrue ==
    phase = "done" =>
      /\ ~Completed => inJob = {} /\ doomed = {} /\ ~frozen
      /\ Completed => Live(Opened) \subseteq report.left
      /\ Completed /\ report.state = "Complete" /\ report.left = {} => Live(inJob) = {}
      /\ frozen => Live(inJob) = {} \/ report.cleanup = "ThawFailed"

TreeInv ==
    /\ result = "none" /\ seen = "none"
    /\ TreeTypes /\ (phase \in Early => NothingYet)
    /\ phase \in Containing \ {"thaw"} => outcome = "none"
    /\ phase = "thaw" => outcome \in {"none", "JobTerminateFailed"}
    /\ KnownStarted /\ EndsAreReal /\ AllDescend /\ JobKeepsChildren
    /\ FreezeHolds /\ MembershipRead /\ MembershipProved /\ NobodyPending /\ EverybodyWaitedFor
    /\ EndIsTrue

Inv ==
    /\ HostInv /\ ProbeInv
    /\ at # "tree" => SingleInv
    /\ at = "tree" => TreeInv

-----------------------------------------------------------------------------
\* Numbers


\* A set of numbers up to one of its members is finite, and smaller for a smaller
\* member.
UpTo(S, n) == {m \in S : m <= n}

\* The part of a set of numbers up to a member is finite.
LEMMA UpToFinite ==
    ASSUME NEW S, \A m \in S : m \in Nat, NEW n \in S
    PROVE  IsFiniteSet(UpTo(S, n)) /\ UpTo(S, n) \subseteq S
<1>1. UpTo(S, n) \subseteq 0..n
  BY DEF UpTo
<1>2. IsFiniteSet(0..n)
  BY FS_Interval
<1> QED
  BY <1>1, <1>2, FS_Subset DEF UpTo

\* It holds that member, and is smaller for a smaller one.
LEMMA UpToOrder ==
    ASSUME NEW S, \A m \in S : m \in Nat, NEW n \in S, NEW k \in S
    PROVE  /\ n \in UpTo(S, n)
           /\ k <= n => UpTo(S, k) \subseteq UpTo(S, n)
           /\ k < n => n \notin UpTo(S, k)
BY DEF UpTo

\* A set of numbers that is not empty has a least member.
LEMMA NatMin ==
    ASSUME NEW S, \A m \in S : m \in Nat, S # {}
    PROVE  \E n \in S : \A m \in S : n <= m
<1>1. PICK top \in S : TRUE
  OBVIOUS
<1> DEFINE Top == UpTo(S, top)
           Chains == {UpTo(S, n) : n \in Top}
<1>2. Top \subseteq S
  BY UpToFinite
<1>3. IsWellFoundedOn(StrictSubsetOrdering(Top), FiniteSubsetsOf(Top))
  BY FS_StrictSubsetOrderingWellFounded
<1>4. \A n \in Top : n \in S /\ UpTo(S, n) \subseteq Top /\ IsFiniteSet(UpTo(S, n))
  BY <1>2, UpToFinite, UpToOrder DEF UpTo
<1>5. Chains \subseteq FiniteSubsetsOf(Top) /\ Chains # {}
  BY <1>4, UpToOrder DEF FiniteSubsetsOf
<1>6. PICK C \in Chains : \A D \in Chains : <<D, C>> \notin StrictSubsetOrdering(Top)
  <2> HIDE DEF Chains, Top
  <2> QED
    BY <1>3, <1>5, WFMin, Zenon
<1>7. PICK n \in Top : C = UpTo(S, n)
  OBVIOUS
<1>8. ASSUME NEW m \in S, m < n
      PROVE  FALSE
  <2>1. n \in S /\ m \in Nat /\ n \in Nat
    BY <1>2
  <2>2. m <= n /\ n <= top /\ top \in Nat
    BY <1>8, <2>1 DEF UpTo
  <2>3. UpTo(S, m) \subseteq UpTo(S, n) /\ n \notin UpTo(S, m) /\ n \in UpTo(S, n)
    BY <1>8, <2>1, <2>2, UpToOrder, Zenon
  <2>4. m \in Top
    BY <2>1, <2>2 DEF UpTo
  <2>5. <<UpTo(S, m), C>> \in StrictSubsetOrdering(Top)
    BY <1>4, <1>7, <2>3, <2>4 DEF StrictSubsetOrdering
  <2> QED
    BY <1>6, <2>4, <2>5
<1> QED
  BY <1>2, <1>8

\* What holds of 0, and of n + 1 if of n, holds of every number.
LEMMA NatSteps ==
    ASSUME NEW S, S \subseteq Nat, 0 \in S, \A n \in S : n + 1 \in S
    PROVE  S = Nat
<1> SUFFICES ASSUME Nat \ S # {} PROVE FALSE
  OBVIOUS
<1>1. PICK n \in Nat \ S : \A m \in Nat \ S : n <= m
  BY NatMin
<1>2. n - 1 \in Nat /\ n - 1 < n /\ n = (n - 1) + 1
  BY <1>1
<1>3. n - 1 \in S
  BY <1>1, <1>2
<1> QED
  BY <1>1, <1>2, <1>3

\* A function can be defined on the numbers by its first value and its steps: its
\* beginnings exist and agree with each other.
FirstValues(x, move, n) == {g \in [0..n -> DOMAIN move] :
    g[0] = x /\ \A k \in 0..n : k < n => g[k + 1] = move[g[k]]}

Recurs(h, S, x, move) ==
    h \in [Nat -> S] /\ h[0] = x /\ \A n \in Nat : h[n + 1] = move[h[n]]

\* A sequence is defined by its first value and the move to the next.
LEMMA NatRecursion ==
    \A S, x, move : x \in S /\ move \in [S -> S] => \E h : Recurs(h, S, x, move)
<1> SUFFICES ASSUME NEW S, NEW x \in S, NEW move \in [S -> S]
             PROVE  \E h : Recurs(h, S, x, move)
  OBVIOUS
<1> DEFINE B(n) == FirstValues(x, move, n)
<1>1. \A n \in Nat : B(n) # {}
  <2> DEFINE T == {n \in Nat : B(n) # {}}
  <2>1. 0 \in T
    <3>1. [k \in 0..0 |-> x] \in B(0)
      BY DEF FirstValues
    <3> QED
      BY <3>1
  <2>2. ASSUME NEW n \in T PROVE n + 1 \in T
    <3>1. PICK g : g \in B(n)
      BY <2>2
    <3> DEFINE f == [k \in 0..(n + 1) |-> IF k = n + 1 THEN move[g[n]] ELSE g[k]]
    <3>2. g \in [0..n -> S] /\ g[0] = x /\ \A k \in 0..n : k < n => g[k + 1] = move[g[k]]
      BY <3>1 DEF FirstValues
    <3>3. f \in [0..(n + 1) -> S] /\ f[0] = x
      BY <3>2
    <3>4. ASSUME NEW k \in 0..(n + 1), k < n + 1 PROVE f[k + 1] = move[f[k]]
      <4>1. k \in 0..n /\ k + 1 \in 0..(n + 1) /\ f[k] = g[k]
        BY <3>4
      <4>2. CASE k = n
        BY <4>1, <4>2
      <4>3. CASE k < n
        BY <3>2, <4>1, <4>3
      <4> QED
        BY <4>1, <4>2, <4>3
    <3>5. f \in B(n + 1)
      <4> HIDE DEF f
      <4> QED
        BY <3>3, <3>4 DEF FirstValues
    <3> QED
      BY <3>5
  <2> HIDE DEF T
  <2>3. T = Nat
    <3>1. T \subseteq Nat
      BY DEF T
    <3> QED
      BY <2>1, <2>2, <3>1, NatSteps
  <2> QED
    BY <2>3 DEF T
<1>2. ASSUME NEW n \in Nat, NEW m \in Nat, NEW g \in B(n), NEW f \in B(m)
      PROVE  \A k \in Nat : k <= n /\ k <= m => g[k] = f[k]
  <2> DEFINE T == {k \in Nat : k <= n /\ k <= m => g[k] = f[k]}
  <2>1. 0 \in T
    BY DEF FirstValues
  <2>2. ASSUME NEW k \in T PROVE k + 1 \in T
    BY <2>2 DEF FirstValues
  <2> HIDE DEF T
  <2>3. T = Nat
    <3>1. T \subseteq Nat
      BY DEF T
    <3> QED
      BY <2>1, <2>2, <3>1, NatSteps
  <2> QED
    BY <2>3 DEF T
<1> DEFINE pick == [n \in Nat |-> CHOOSE g : g \in B(n)]
           h == [n \in Nat |-> pick[n][n]]
<1>3. \A n \in Nat : pick[n] \in B(n)
  BY <1>1
<1> HIDE DEF pick
<1>4. h \in [Nat -> S]
  BY <1>3 DEF FirstValues
<1>5. h[0] = x
  BY <1>3 DEF FirstValues
<1>6. ASSUME NEW n \in Nat PROVE h[n + 1] = move[h[n]]
  <2>1. pick[n] \in B(n) /\ pick[n + 1] \in B(n + 1)
    BY <1>3
  <2>2. pick[n + 1][n + 1] = move[pick[n + 1][n]]
    BY <2>1 DEF FirstValues
  <2>3. pick[n + 1][n] = pick[n][n]
    <3> HIDE DEF B
    <3> QED
      BY <1>2, <2>1
  <2> QED
    BY <2>2, <2>3
<1> QED
  BY <1>4, <1>5, <1>6 DEF Recurs

-----------------------------------------------------------------------------
\* The trees

\* The first of a set is one of it.
LEMMA FirstOfSet ==
    ASSUME NEW S, S \subseteq Proc, S # {}
    PROVE  First(S) \in S
<1> DEFINE T == {PidOf[p] : p \in S}
<1>1. T # {} /\ \A m \in T : m \in Nat
  <2>1. Pid \subseteq Nat /\ PidOf \in [Proc -> Pid]
    BY WinHostAssumption
  <2> QED
    BY <2>1
<1>2. PICK n \in T : \A m \in T : n <= m
  <2> HIDE DEF T
  <2> QED
    BY <1>1, NatMin
<1>3. \E p \in S : \A q \in S : PidOf[p] <= PidOf[q]
  BY <1>2
<1> QED
  BY <1>3 DEF First

\* There are finitely many processes, so that both searches come to an end.
LEMMA ProcFinite == IsFiniteSet(Proc) /\ Cardinality(Proc) \in Nat /\ Cardinality(Proc) > 0
<1>1. IsFiniteSet(Proc) /\ Root \in Proc
  BY WinHostAssumption, WinKillAssumption
<1> QED
  BY <1>1, FS_CardinalityType, FS_EmptySet

\* The tree of the snapshot s over the seeds, as far as n steps go.
Below(seeds, s) ==
    CHOOSE f : f = [n \in 0..Cardinality(Proc) |->
        IF n = 0 THEN seeds
        ELSE f[n - 1] \cup {p \in s : Verified(p, s) /\ parent[p] \in f[n - 1]}]

\* The line below some processes starts with them, and each member of it adds the
\* children a snapshot shows of the one before.
LEMMA BelowUnfold ==
    ASSUME NEW seeds, NEW s
    PROVE  /\ Reached(seeds, s) = Below(seeds, s)[Cardinality(Proc)]
           /\ Below(seeds, s)[0] = seeds
           /\ \A n \in 0..Cardinality(Proc) : n # 0 => Below(seeds, s)[n] =
                Below(seeds, s)[n - 1] \cup
                  {p \in s : Verified(p, s) /\ parent[p] \in Below(seeds, s)[n - 1]}
<1> DEFINE N == Cardinality(Proc)
           V == {p \in s : Verified(p, s)}
           S == SUBSET (seeds \cup s)
           Line(f, n) == IF n = 0 THEN seeds
                         ELSE f[n - 1] \cup {p \in s : Verified(p, s) /\ parent[p] \in f[n - 1]}
           move == [X \in S |-> X \cup {p \in s : Verified(p, s) /\ parent[p] \in X}]
<1>1. seeds \in S /\ move \in [S -> S]
  OBVIOUS
<1>2. PICK h : Recurs(h, S, seeds, move)
  <2> HIDE DEF S, move
  <2> QED
    BY <1>1, NatRecursion
<1> DEFINE g == [n \in 0..N |-> h[n]]
<1>3. ASSUME NEW n \in 0..N PROVE h[n] = Line(g, n)
  <2>0. N \in Nat
    BY ProcFinite
  <2>1. CASE n = 0
    BY <1>2, <2>1 DEF Recurs
  <2>2. CASE n # 0
    <3>1. n - 1 \in Nat /\ n - 1 \in 0..N /\ n = (n - 1) + 1
      BY <2>0, <2>2
    <3> HIDE DEF S, move
    <3>2. h[n] = move[h[n - 1]] /\ g[n - 1] = h[n - 1] /\ h[n - 1] \in S
      BY <1>2, <3>1 DEF Recurs
    <3> USE DEF S, move
    <3> QED
      BY <2>2, <3>2
  <2> QED
    BY <2>1, <2>2
<1>4. g = [n \in 0..N |-> Line(g, n)]
  <2> HIDE DEF Line
  <2>1. \A n \in 0..N : g[n] = Line(g, n)
    BY <1>3
  <2> QED
    BY <2>1
<1>5. Below(seeds, s) = CHOOSE f : f = [n \in 0..N |-> Line(f, n)]
  BY DEF Below
<1>6. Below(seeds, s) = [n \in 0..N |-> Line(Below(seeds, s), n)]
  <2> HIDE DEF Line, g, N
  <2> QED
    BY <1>4, <1>5
<1>7. \A n \in 0..N : Below(seeds, s)[n] = Line(Below(seeds, s), n)
  <2> HIDE DEF Line
  <2> QED
    BY <1>6
<1>8. Reached(seeds, s) = Below(seeds, s)[N]
  BY DEF Reached, Below
<1>9. 0 \in 0..N
  BY ProcFinite
<1> QED
  BY <1>7, <1>8, <1>9

\* Who is reached: the seeds, and the children of seeds whose parent is verified;
\* and nobody outside a set that holds the seeds and with a process its verified
\* children.
LEMMA ReachedFromSeeds ==
    ASSUME NEW seeds, NEW s, parent \in [Proc -> Proc \cup {Outsider}]
    PROVE  /\ seeds \subseteq Reached(seeds, s)
           /\ \A p \in s : Verified(p, s) /\ parent[p] \in seeds => p \in Reached(seeds, s)
<1> DEFINE N == Cardinality(Proc)
           B == Below(seeds, s)
<1>0. N \in Nat /\ N > 0
  BY ProcFinite
<1>1. ASSUME NEW n \in 0..N, n # 0
      PROVE  B[n] = B[n - 1] \cup {p \in s : Verified(p, s) /\ parent[p] \in B[n - 1]}
  <2>1. \A m \in 0..Cardinality(Proc) : m # 0 => Below(seeds, s)[m] =
          Below(seeds, s)[m - 1] \cup
            {p \in s : Verified(p, s) /\ parent[p] \in Below(seeds, s)[m - 1]}
    BY BelowUnfold
  <2> QED
    BY <1>1, <2>1, Zenon
<1>2. B[0] = seeds /\ Reached(seeds, s) = B[N]
  BY BelowUnfold, Zenon
<1> DEFINE One == seeds \cup {p \in s : Verified(p, s) /\ parent[p] \in seeds}
           T == {n \in Nat : n + 1 <= N => One \subseteq B[n + 1]}
<1>3. 0 \in T
  BY <1>0, <1>1, <1>2
<1>4. ASSUME NEW n \in T PROVE n + 1 \in T
  <2>1. CASE n + 2 <= N
    <3>1. n + 2 \in 0..N /\ n + 2 # 0 /\ (n + 2) - 1 = n + 1
      BY <1>0, <2>1
    <3>2. B[n + 1] \subseteq B[n + 2]
      BY <1>1, <3>1
    <3> QED
      BY <1>0, <1>4, <2>1, <3>2
  <2> QED
    BY <1>0, <2>1
<1>5. T = Nat
  <2>1. T \subseteq Nat
    OBVIOUS
  <2> HIDE DEF T
  <2> QED
    BY <1>3, <1>4, <2>1, NatSteps
<1>6. N - 1 \in T /\ (N - 1) + 1 = N
  BY <1>0, <1>5
<1> QED
  BY <1>0, <1>2, <1>6

\* What is reached stays in any set that holds the seeds and the verified children of
\* its members.
LEMMA ReachedStaysIn ==
    ASSUME NEW seeds, NEW s, NEW D, seeds \subseteq D,
           \A p \in s : Verified(p, s) /\ parent[p] \in D => p \in D
    PROVE  Reached(seeds, s) \subseteq D
<1> DEFINE N == Cardinality(Proc)
           B == Below(seeds, s)
           T == {n \in Nat : n <= N => B[n] \subseteq D}
<1>0. N \in Nat /\ N > 0
  BY ProcFinite
<1>1. ASSUME NEW n \in 0..N, n # 0
      PROVE  B[n] = B[n - 1] \cup {p \in s : Verified(p, s) /\ parent[p] \in B[n - 1]}
  <2>1. \A m \in 0..Cardinality(Proc) : m # 0 => Below(seeds, s)[m] =
          Below(seeds, s)[m - 1] \cup
            {p \in s : Verified(p, s) /\ parent[p] \in Below(seeds, s)[m - 1]}
    BY BelowUnfold
  <2> QED
    BY <1>1, <2>1, Zenon
<1>2. B[0] = seeds /\ Reached(seeds, s) = B[N]
  BY BelowUnfold, Zenon
<1>3. 0 \in T
  BY <1>2
<1>4. ASSUME NEW n \in T PROVE n + 1 \in T
  <2>1. CASE n + 1 <= N
    <3>1. n + 1 \in 0..N /\ n + 1 # 0 /\ (n + 1) - 1 = n
      BY <1>0, <2>1
    <3>2. B[n + 1] = B[n] \cup {p \in s : Verified(p, s) /\ parent[p] \in B[n]}
      BY <1>1, <3>1
    <3>3. B[n] \subseteq D
      BY <1>0, <1>4, <2>1
    <3> QED
      BY <3>2, <3>3
  <2> QED
    BY <1>0, <2>1
<1>5. T = Nat
  <2>1. T \subseteq Nat
    OBVIOUS
  <2> HIDE DEF T
  <2> QED
    BY <1>3, <1>4, <2>1, NatSteps
<1> QED
  BY <1>0, <1>2, <1>5

\* The line of parents of p, as far as n steps go.
Upwards(p) ==
    CHOOSE f : f = [n \in 0..Cardinality(Proc) |->
        IF n = 0 THEN {p} ELSE f[n - 1] \cup {parent[r] : r \in f[n - 1] \cap Proc}]

\* The line above a process starts with it, and each member of it adds the parents of
\* the one before.
LEMMA UpwardsUnfold ==
    ASSUME NEW p, NEW q
    PROVE  /\ Descends(p, q) <=> q \in Upwards(p)[Cardinality(Proc)]
           /\ Upwards(p)[0] = {p}
           /\ \A n \in 0..Cardinality(Proc) : n # 0 => Upwards(p)[n] =
                Upwards(p)[n - 1] \cup {parent[r] : r \in Upwards(p)[n - 1] \cap Proc}
<1> DEFINE N == Cardinality(Proc)
           S == SUBSET ({p} \cup {parent[r] : r \in Proc})
           Line(f, n) == IF n = 0 THEN {p}
                         ELSE f[n - 1] \cup {parent[r] : r \in f[n - 1] \cap Proc}
           move == [X \in S |-> X \cup {parent[r] : r \in X \cap Proc}]
<1>1. {p} \in S /\ move \in [S -> S]
  OBVIOUS
<1>2. PICK h : Recurs(h, S, {p}, move)
  <2> HIDE DEF S, move
  <2> QED
    BY <1>1, NatRecursion
<1> DEFINE g == [n \in 0..N |-> h[n]]
<1>3. ASSUME NEW n \in 0..N PROVE h[n] = Line(g, n)
  <2>0. N \in Nat
    BY ProcFinite
  <2>1. CASE n = 0
    BY <1>2, <2>1 DEF Recurs
  <2>2. CASE n # 0
    <3>1. n - 1 \in Nat /\ n - 1 \in 0..N /\ n = (n - 1) + 1
      BY <2>0, <2>2
    <3> HIDE DEF S, move
    <3>2. h[n] = move[h[n - 1]] /\ g[n - 1] = h[n - 1] /\ h[n - 1] \in S
      BY <1>2, <3>1 DEF Recurs
    <3> USE DEF S, move
    <3> QED
      BY <2>2, <3>2
  <2> QED
    BY <2>1, <2>2
<1>4. g = [n \in 0..N |-> Line(g, n)]
  <2> HIDE DEF Line
  <2>1. \A n \in 0..N : g[n] = Line(g, n)
    BY <1>3
  <2> QED
    BY <2>1
<1>5. Upwards(p) = CHOOSE f : f = [n \in 0..N |-> Line(f, n)]
  BY DEF Upwards
<1>6. Upwards(p) = [n \in 0..N |-> Line(Upwards(p), n)]
  <2> HIDE DEF Line, g, N
  <2> QED
    BY <1>4, <1>5
<1>7. \A n \in 0..N : Upwards(p)[n] = Line(Upwards(p), n)
  <2> HIDE DEF Line
  <2> QED
    BY <1>6
<1>8. Descends(p, q) <=> q \in Upwards(p)[N]
  BY DEF Descends, Upwards
<1>9. 0 \in 0..N
  BY ProcFinite
<1> QED
  BY <1>7, <1>8, <1>9

\* Whoever comes to the root by following the parents does so in as many steps as
\* there are processes: with each step the line grows, or it has come to its end.
LEMMA DescendantDescends ==
    ASSUME NEW p \in Proc, parent \in [Proc -> Proc \cup {Outsider}], Descendant(p)
    PROVE  Descends(p, Root)
<1> DEFINE N == Cardinality(Proc)
           All == Proc \cup {Outsider}
           B == Upwards(p)
           T == {n \in Nat : n <= N =>
                   /\ p \in B[n] /\ B[n] \subseteq All
                   /\ ClosedUp(B[n]) \/ Cardinality(B[n]) >= n + 1}
<1>0. N \in Nat /\ N > 0
  BY ProcFinite
<1>1. ASSUME NEW n \in 0..N, n # 0
      PROVE  B[n] = B[n - 1] \cup {parent[r] : r \in B[n - 1] \cap Proc}
  <2>1. \A m \in 0..Cardinality(Proc) : m # 0 => Upwards(p)[m] =
          Upwards(p)[m - 1] \cup {parent[r] : r \in Upwards(p)[m - 1] \cap Proc}
    BY UpwardsUnfold
  <2> QED
    BY <1>1, <2>1, Zenon
<1>2. B[0] = {p} /\ (Descends(p, Root) <=> Root \in B[N])
  BY UpwardsUnfold, Zenon
<1>3. IsFiniteSet(All) /\ Cardinality(All) = N + 1
  <2>1. IsFiniteSet(Proc) /\ Outsider \notin Proc
    BY WinHostAssumption
  <2> QED
    BY <2>1, FS_AddElement
<1>4. 0 \in T
  <2>1. Cardinality({p}) = 1
    BY FS_Singleton
  <2> QED
    BY <1>2, <2>1
<1>5. ASSUME NEW n \in T PROVE n + 1 \in T
  <2>0. SUFFICES ASSUME n + 1 <= N PROVE n + 1 \in T
    BY <1>0
  <2>1. n + 1 \in 0..N /\ n + 1 # 0 /\ (n + 1) - 1 = n /\ n <= N /\ n \in Nat
    BY <1>0, <2>0
  <2>2. B[n + 1] = B[n] \cup {parent[r] : r \in B[n] \cap Proc}
    BY <1>1, <2>1
  <2>3. p \in B[n] /\ B[n] \subseteq All /\ (ClosedUp(B[n]) \/ Cardinality(B[n]) >= n + 1)
    BY <2>1
  <2>4. p \in B[n + 1] /\ B[n + 1] \subseteq All
    BY <2>2, <2>3
  <2>5. CASE ClosedUp(B[n])
    <3>1. B[n + 1] = B[n]
      BY <2>2, <2>5 DEF ClosedUp
    <3> QED
      BY <2>1, <2>4, <2>5, <3>1
  <2>6. CASE ~ClosedUp(B[n])
    <3>1. PICK r \in B[n] \cap Proc : parent[r] \notin B[n]
      BY <2>6 DEF ClosedUp
    <3>2. B[n] \cup {parent[r]} \subseteq B[n + 1]
      BY <2>2
    <3>3. IsFiniteSet(B[n]) /\ IsFiniteSet(B[n + 1])
      BY <1>3, <2>3, <2>4, FS_Subset
    <3>4. Cardinality(B[n] \cup {parent[r]}) = Cardinality(B[n]) + 1
      BY <3>1, <3>3, FS_AddElement
    <3>5. Cardinality(B[n] \cup {parent[r]}) <= Cardinality(B[n + 1])
      BY <3>2, <3>3, FS_Subset
    <3>6. Cardinality(B[n]) \in Nat /\ Cardinality(B[n + 1]) \in Nat
      BY <3>3, FS_CardinalityType
    <3>7. Cardinality(B[n + 1]) >= (n + 1) + 1
      BY <2>1, <2>3, <2>6, <3>4, <3>5, <3>6
    <3> QED
      BY <2>1, <2>4, <3>7
  <2> QED
    BY <2>5, <2>6
<1>6. T = Nat
  <2>1. T \subseteq Nat
    OBVIOUS
  <2> HIDE DEF T
  <2> QED
    BY <1>4, <1>5, <2>1, NatSteps
<1>7. p \in B[N] /\ B[N] \subseteq All /\ (ClosedUp(B[N]) \/ Cardinality(B[N]) >= N + 1)
  BY <1>0, <1>6
<1>8. CASE ClosedUp(B[N])
  BY <1>2, <1>7, <1>8 DEF Descendant
<1>9. CASE Cardinality(B[N]) >= N + 1
  <2>1. B[N] = All
    <3>1. IsFiniteSet(B[N]) /\ Cardinality(B[N]) <= Cardinality(All)
      BY <1>3, <1>7, FS_Subset
    <3>2. Cardinality(B[N]) \in Nat
      BY <3>1, FS_CardinalityType
    <3>3. Cardinality(All) = Cardinality(B[N])
      BY <1>0, <1>3, <1>9, <3>1, <3>2
    <3> HIDE DEF All, B, N
    <3> QED
      BY <1>3, <1>7, <3>3, FS_Subset
  <2> QED
    BY <1>2, <2>1, WinKillAssumption
<1> QED
  BY <1>7, <1>8, <1>9

\* Who is in the tree of the root runs, or is the root, and descends from it.
LEMMA TreeDescends ==
    ASSUME HostTypes
    PROVE  /\ TreeIn(Running) \subseteq Running \cup {Root}
           /\ \A p \in TreeIn(Running) : p \in Proc /\ Descendant(p)
           /\ Root \in TreeIn(Running)
<1> DEFINE D == {p \in Running \cup {Root} : Descendant(p)}
<1>1. Root \in Proc /\ Running \subseteq Proc
  BY WinKillAssumption DEF Running
<1>2. {Root} \subseteq D
  BY DEF Descendant
<1>3. \A p \in Running : Verified(p, Running) /\ parent[p] \in D => p \in D
  BY <1>1 DEF Descendant, ClosedUp
<1>4. Reached({Root}, Running) \subseteq D
  <2> HIDE DEF D
  <2> QED
    BY <1>2, <1>3, ReachedStaysIn
<1>5. Root \in Reached({Root}, Running)
  BY ReachedFromSeeds DEF HostTypes
<1> QED
  BY <1>1, <1>4, <1>5 DEF TreeIn

\* And so does everybody below processes that run and descend from it.
LEMMA BelowDescends ==
    ASSUME HostTypes, NEW seeds, seeds \subseteq Running, \A p \in seeds : Descendant(p)
    PROVE  Reached(seeds, Running) \subseteq {p \in Running : Descendant(p)}
<1> DEFINE D == {p \in Running : Descendant(p)}
<1>1. seeds \subseteq D /\ Running \subseteq Proc
  BY DEF Running
<1>2. \A p \in Running : Verified(p, Running) /\ parent[p] \in D => p \in D
  BY <1>1 DEF Descendant, ClosedUp
<1> HIDE DEF D
<1>3. Reached(seeds, Running) \subseteq D
  BY <1>1, <1>2, ReachedStaysIn
<1> QED
  BY <1>3 DEF D

-----------------------------------------------------------------------------
\* The other processes

\* What a step of theirs does: it only adds to who has been there and to who has
\* ended, changes the parent of nobody who was there, and puts nobody into the job
\* but a child of a process of the job that executes.
HostMoves ==
    /\ Started \subseteq Started' /\ Dead \subseteq Dead'
    /\ inJob \subseteq inJob'
    /\ \A q \in Started : parent'[q] = parent[q]
    /\ \A q \in inJob' \ inJob : q \notin Started /\ parent'[q] \in inJob \cap Executing
    /\ \A q \in Started' \ Started :
         parent'[q] = Outsider \/ /\ parent'[q] \in Executing
                                  /\ parent'[q] \in inJob => q \in inJob'
    /\ UNCHANGED <<name, frozen, suspends, doomed>>

\* A step of the other processes keeps the table in order, and moves it in no other
\* way than HostMoves says.
LEMMA HostKeeps ==
    ASSUME HostInv, HostStep(Held)
    PROVE  HostInv' /\ HostMoves
<1>0. Outsider \notin Proc /\ NoProc \notin Proc /\ PidOf \in [Proc -> Pid]
  BY WinHostAssumption
<1> USE DEF HostInv, HostTypes, OneOfANumber, ParentsFirst, RootThere, HostMoves, Started, Dead,
            Running, Executing
<1>1. ASSUME NEW q \in Proc, Spawn(q, Held) PROVE HostInv' /\ HostMoves
  <2>1. status[q] = "unborn" /\ status' = [status EXCEPT ![q] = "running"]
        /\ Free(q, Held) /\ UNCHANGED <<name, frozen, suspends, doomed>>
    BY <1>1 DEF Spawn
  <2>2. PICK p \in Executing : /\ parent' = [parent EXCEPT ![q] = p]
                               /\ inJob' = IF p \in inJob THEN inJob \cup {q} ELSE inJob
    BY <1>1 DEF Spawn
  <2>3. \A r \in Running : PidOf[r] # PidOf[q]
    BY <2>1 DEF Free
  <2>4. p \in Proc /\ status[p] = "running" /\ p # q
    BY <2>1, <2>2
  <2>5. HostTypes' /\ RootThere'
    BY <2>1, <2>2, <2>4
  <2>6. OneOfANumber'
    BY <2>1, <2>3
  <2>7. ParentsFirst'
    BY <2>1, <2>2, <2>4
  <2>8. HostMoves
    BY <2>1, <2>2, <2>4
  <2> QED
    BY <2>5, <2>6, <2>7, <2>8
<1>2. ASSUME NEW q \in Proc, Arrive(q, Held) PROVE HostInv' /\ HostMoves
  <2>1. status[q] = "unborn" /\ status' = [status EXCEPT ![q] = "running"]
        /\ Free(q, Held) /\ UNCHANGED <<name, frozen, suspends, doomed, inJob>>
        /\ parent' = [parent EXCEPT ![q] = Outsider]
    BY <1>2 DEF Arrive
  <2>2. \A r \in Running : PidOf[r] # PidOf[q]
    BY <2>1 DEF Free
  <2> QED
    BY <1>0, <2>1, <2>2
<1>3. ASSUME NEW p \in Proc, Exit(p) \/ Die(p) PROVE HostInv' /\ HostMoves
  <2>1. status[p] = "running" /\ status' = [status EXCEPT ![p] = "dead"]
        /\ UNCHANGED <<name, parent, frozen, suspends, doomed, inJob>>
    BY <1>3 DEF Exit, Die
  <2> QED
    BY <2>1
<1> QED
  BY <1>1, <1>2, <1>3 DEF HostStep

\* Who descended from the root still does, and a child of one who does.
LEMMA HostKeepsDescent ==
    ASSUME HostInv, HostInv', HostMoves
    PROVE  /\ \A p \in Started : Descendant(p) => Descendant(p)'
           /\ \A p \in Started', q \in Started : q = parent'[p] /\ Descendant(q)' => Descendant(p)'
<1>0. Outsider \notin Proc
  BY WinHostAssumption
<1>1. ASSUME NEW p \in Started, Descendant(p),
             NEW X \in SUBSET (Proc \cup {Outsider}), p \in X, ClosedUp(X)'
      PROVE  Root \in X
  <2> DEFINE Y == X \cap (Started \cup {Outsider})
  <2>1. ClosedUp(Y)
    BY <1>0, <1>1 DEF ClosedUp, HostInv, HostTypes, ParentsFirst, HostMoves, Started
  <2>2. Y \in SUBSET (Proc \cup {Outsider}) /\ p \in Y
    BY <1>1
  <2> QED
    BY <1>1, <2>1, <2>2 DEF Descendant
<1>2. ASSUME NEW p \in Started', NEW q \in Started, q = parent'[p], Descendant(q)'
      PROVE  Descendant(p)'
  BY <1>2 DEF Descendant, ClosedUp, Started
<1> QED
  BY <1>1, <1>2 DEF Descendant

-----------------------------------------------------------------------------
\* The probe

\* What is received is taken from the front: the last stays, unless it was the only
\* one; what is written comes to the end.
LEMMA QueueEnds ==
    ASSUME NEW S, NEW q \in Seq(S)
    PROVE  /\ \A e \in S : /\ Append(q, e) \in Seq(S) /\ Append(q, e) # <<>>
                           /\ Append(q, e)[Len(Append(q, e))] = e
           /\ q # <<>> => /\ Tail(q) \in Seq(S)
                          /\ q[Len(q)] # Head(q) =>
                               Tail(q) # <<>> /\ Tail(q)[Len(Tail(q))] = q[Len(q)]
<1>1. ASSUME NEW e \in S
      PROVE  /\ Append(q, e) \in Seq(S) /\ Append(q, e) # <<>>
             /\ Append(q, e)[Len(Append(q, e))] = e
  OBVIOUS
<1>2. ASSUME q # <<>>, q[Len(q)] # Head(q)
      PROVE  Tail(q) # <<>> /\ Tail(q)[Len(Tail(q))] = q[Len(q)]
  <2>1. Len(q) \in Nat /\ Len(q) > 0 /\ Head(q) = q[1]
    BY <1>2
  <2>2. Len(q) > 1
    BY <1>2, <2>1
  <2>3. Len(Tail(q)) = Len(q) - 1 /\ Tail(q)[Len(q) - 1] = q[Len(q)]
    BY <2>2
  <2>4. Tail(q) # <<>>
    <3>1. Len(Tail(q)) # 0
      BY <2>1, <2>2, <2>3
    <3>2. Len(<<>>) = 0
      OBVIOUS
    <3> QED
      BY <3>1, <3>2, Zenon
  <2>5. Tail(q)[Len(Tail(q))] = Tail(q)[Len(q) - 1]
    BY <2>3
  <2> QED
    BY <2>3, <2>4, <2>5
<1> QED
  BY <1>1, <1>2

\* Receiving from the helper.
LEMMA ExpectKeeps ==
    ASSUME ProbeInv, NEW event \in {"R", "A"}, NEW next \in ProbeSteps,
           step \in {"ready", "answer", "late"}, UNCHANGED suspends,
           next \notin {"spawn", "drop", "passed", "failed"},
           next \in {"late", "exit"} => suspends, next # "thaw" /\ next # "finish",
           ExpectEvent(event, next)
    PROVE  ProbeInv'
<1> DEFINE E == {"R", "A", "end"}
<1>0. events \in Seq(E) /\ helper \in {"running", "ok", "failed"}
  BY DEF ProbeInv, ProbeTypes, EndIsLast
<1>1. UNCHANGED helper
  BY DEF ExpectEvent
<1>2. CASE step' = next
  <2>1. events # <<>> /\ events' = Tail(events) /\ Head(events) = event
    BY <1>2 DEF ExpectEvent, Drop, NextIs, ProbeSteps
  <2>2. events' \in Seq(E)
    BY <1>0, <2>1, QueueEnds
  <2>3. helper \in {"ok", "failed"} => events' # <<>> /\ events'[Len(events')] = "end"
    <3>1. SUFFICES ASSUME helper \in {"ok", "failed"}
                   PROVE  events' # <<>> /\ events'[Len(events')] = "end"
      OBVIOUS
    <3>2. events[Len(events)] = "end" /\ Head(events) # "end"
      BY <2>1, <3>1 DEF ProbeInv, EndIsLast
    <3> QED
      BY <1>0, <2>1, <3>2, QueueEnds
  <2> QED
    BY <1>0, <1>1, <1>2, <2>2, <2>3
       DEF ProbeInv, ProbeTypes, EndIsLast, SilenceProves, HelperGone
<1>3. CASE step' = "drop"
  <2>1. events' \in Seq(E)
    BY <1>0, QueueEnds DEF ExpectEvent
  <2> QED
    BY <1>0, <1>1, <1>3, <2>1
       DEF ProbeInv, ProbeTypes, EndIsLast, SilenceProves, HelperGone, ProbeSteps
<1> QED
  BY <1>2, <1>3 DEF ExpectEvent, Drop, NextIs

\* Writing to the helper.
LEMMA WriteKeeps ==
    ASSUME ProbeInv, NEW command, NEW next \in ProbeSteps, NEW otherwise \in {"drop", "unproven"},
           step \notin {"spawn", "drop", "passed", "failed"}, UNCHANGED suspends,
           next \notin {"spawn", "passed", "failed", "thaw", "late", "exit"},
           next = "finish" => suspends,
           WriteCommand(command, next, otherwise)
    PROVE  ProbeInv'
<1>1. step' \in {next, otherwise} /\ UNCHANGED <<helper, events>>
  BY DEF WriteCommand, NextIs
<1> QED
  BY <1>1 DEF ProbeInv, ProbeTypes, EndIsLast, SilenceProves, HelperGone, ProbeSteps

\* What the helper does, and its end.
LEMMA HelperKeeps ==
    ASSUME ProbeInv, UNCHANGED suspends, ~ProbeOver, HelperStep \/ HelperEnds
    PROVE  ProbeInv'
<1> DEFINE E == {"R", "A", "end"}
<1>0. events \in Seq(E) /\ helper = "running" /\ UNCHANGED step
  BY DEF ProbeInv, ProbeTypes, HelperStep, HelperEnds, Runs
<1>1. \/ UNCHANGED helper /\ (events' = events \/ \E e \in E : events' = Append(events, e))
      \/ helper' \in {"ok", "failed"} /\ events' = Append(events, "end")
  BY <1>0 DEF HelperStep, HelperEnds, EndHelper
<1>2. events' \in Seq(E) /\
        (helper' # "running" => events' # <<>> /\ events'[Len(events')] = "end")
  BY <1>0, <1>1, QueueEnds
<1>3. helper' \in {"running", "ok", "failed"} /\ step \notin {"spawn", "passed", "failed"}
  BY <1>0, <1>1 DEF ProbeInv, EndIsLast, ProbeOver
<1> QED
  BY <1>0, <1>2, <1>3 DEF ProbeInv, ProbeTypes, EndIsLast, SilenceProves, HelperGone

\* Every step of the probe keeps what is known of it, if no helper stalls: nothing
\* comes from a frozen helper that has not ended only because it is stopped.
LEMMA ProbeKeeps ==
    ASSUME "stall" \notin Disturbances, ProbeInv, UNCHANGED suspends, ~ProbeOver, ProbeStep
    PROVE  ProbeInv'
<1> USE DEF ProbeSteps
<1>1. CASE SpawnHelper
  BY <1>1 DEF ProbeInv, ProbeTypes, EndIsLast, SilenceProves, HelperGone, SpawnHelper, NextIs
<1>2. CASE step = "ready" /\ ExpectEvent("R", "assign")
  BY <1>2, ExpectKeeps
<1>3. CASE AssignHelper
  BY <1>3 DEF ProbeInv, ProbeTypes, EndIsLast, SilenceProves, HelperGone, AssignHelper, NextIs, Drop
<1>4. CASE step = "ping" /\ WriteCommand(<<"P">>, "answer", "drop")
  BY <1>4, WriteKeeps
<1>5. CASE step = "answer" /\ ExpectEvent("A", "freeze")
  BY <1>5, ExpectKeeps
<1>6. CASE FreezeHelper
  BY <1>6 DEF ProbeInv, ProbeTypes, EndIsLast, SilenceProves, HelperGone, FreezeHelper, NextIs, Drop
<1>7. CASE step = "ask" /\ WriteCommand(<<"P">>, "silence", "unproven")
  BY <1>7, WriteKeeps
\* Nothing has come: then the helper has not ended, and it does not run.
<1>8. CASE VerifySuspended
  <2>1. UNCHANGED <<helper, events>> /\ step = "silence" /\ step' \in {"unproven", "thaw"}
    BY <1>8 DEF VerifySuspended, NextIs
  <2>2. step' = "thaw" => suspends
    <3>1. SUFFICES ASSUME step' = "thaw" PROVE suspends
      OBVIOUS
    <3>2. events = <<>> /\ ~Runs
      BY <1>8, <3>1 DEF VerifySuspended, NextIs, Fault
    <3>3. helper = "running"
      BY <2>1, <3>2 DEF ProbeInv, EndIsLast
    <3> QED
      BY <3>2, <3>3 DEF Runs
  <2> QED
    BY <2>1, <2>2 DEF ProbeInv, ProbeTypes, EndIsLast, SilenceProves, HelperGone
<1>9. CASE ThawHelper
  BY <1>9 DEF ProbeInv, ProbeTypes, EndIsLast, SilenceProves, HelperGone, ThawHelper, NextIs, Drop
<1>10. CASE step = "late" /\ ExpectEvent("A", "exit")
  <2>1. suspends
    BY <1>10 DEF ProbeInv, SilenceProves
  <2> QED
    BY <1>10, <2>1, ExpectKeeps
<1>11. CASE step = "exit" /\ WriteCommand(<<"X">>, "finish", "drop")
  <2>1. suspends
    BY <1>11 DEF ProbeInv, SilenceProves
  <2> QED
    BY <1>11, <2>1, WriteKeeps
<1>12. CASE Finish
  BY <1>12 DEF ProbeInv, ProbeTypes, EndIsLast, SilenceProves, HelperGone, Finish, NextIs, Drop
<1>13. CASE DropProbe
  BY <1>13 DEF ProbeInv, ProbeTypes, EndIsLast, SilenceProves, HelperGone, DropProbe, NextIs
<1>14. CASE HelperStep \/ HelperEnds
  BY <1>14, HelperKeeps
<1> QED
  BY <1>1, <1>2, <1>3, <1>4, <1>5, <1>6, <1>7, <1>8, <1>9, <1>10, <1>11, <1>12, <1>13, <1>14
     DEF ProbeStep

\* What does not touch the probe leaves what is known of it.
LEMMA ProbeRests ==
    ASSUME ProbeInv, UNCHANGED <<probeVars, suspends>>
    PROVE  ProbeInv'
BY DEF ProbeInv, ProbeTypes, EndIsLast, SilenceProves, HelperGone, probeVars

-----------------------------------------------------------------------------
\* One process

\* The number of a running process is its own.
LEMMA OccupantIsTheOne ==
    ASSUME HostInv, NEW p \in Running
    PROVE  Occupant(PidOf[p]) = p
BY DEF HostInv, OneOfANumber, Occupant

\* Whoever has a number runs under it, and nobody has it if there is none.
LEMMA OccupantRuns ==
    ASSUME NEW pid
    PROVE  /\ Occupant(pid) # NoProc => Occupant(pid) \in Running /\ PidOf[Occupant(pid)] = pid
           /\ Occupant(pid) = NoProc => \A p \in Running : PidOf[p] # pid
<1>1. NoProc \notin Proc
  BY WinHostAssumption
<1>2. CASE \E p \in Running : PidOf[p] = pid
  BY <1>1, <1>2 DEF Occupant, Running
<1>3. CASE ~\E p \in Running : PidOf[p] = pid
  BY <1>3 DEF Occupant
<1> QED
  BY <1>2, <1>3

\* A confirmed process that does not run has ended: it was there.
LEMMA RootGone ==
    ASSUME HostInv, Root \notin Running
    PROVE  Root \in Dead
BY WinKillAssumption DEF HostInv, HostTypes, RootThere, Started, Running, Dead

\* Every step of the kill of one process keeps what is known of it.
LEMMA SingleKeeps ==
    ASSUME HostInv, SingleInv, SingleKill
    PROVE  HostInv' /\ at' # "tree" /\ SingleInv'
<1> DEFINE pid == PidOf[Root]
<1>0. UNCHANGED <<status, parent, name, inJob, frozen, suspends, phase>>
  BY DEF SingleKill, KillStep, HostUnchanged, jobVars, Open, CheckEvidence, AskBefore, Terminate,
         AskAfter, AwaitExit, Observe
<1>1. HostInv' /\ UNCHANGED <<Running, Dead>>
  BY <1>0 DEF HostInv, HostTypes, OneOfANumber, ParentsFirst, RootThere, Started, Dead, Running
<1>2. phase' = "none" /\ (RootTyped' <=> (IsProtected(Root) => auth' = "protectedTyped"))
  BY <1>0 DEF SingleInv, RootTyped, IsProtected
<1> USE DEF SingleInv, Before
<1>3. CASE Open
  <2>0. at = "open" /\ UNCHANGED <<auth, doomed, seen>>
    BY <1>3 DEF Open, Ends
  <2>1. CASE at' = "evidence"
    BY <1>1, <1>2, <1>3, <2>0, <2>1 DEF Open, Ends
  <2>2. CASE Ends("UnknownFailure")
    BY <1>1, <1>2, <2>0, <2>2 DEF Ends
  <2>3. CASE OpenFailure(pid) # "none" /\ Ends(OpenFailure(pid))
    <3>1. result' = OpenFailure(pid) /\ at' = "observe"
      BY <2>3 DEF Ends
    <3>2. result' # "Success" /\ (result' = "AlreadyExited" => Occupant(pid) = NoProc)
      BY <3>1 DEF OpenFailure
    <3>3. result' = "AlreadyExited" => Root \in Dead
      BY <3>2, OccupantRuns, RootGone
    <3> QED
      BY <1>1, <1>2, <2>0, <3>1, <3>2, <3>3
  <2> QED
    BY <1>3, <2>1, <2>2, <2>3 DEF Open, Ends
<1>4. CASE CheckEvidence
  <2>0. at = "evidence" /\ UNCHANGED <<auth, doomed, seen, handle>>
    BY <1>4 DEF CheckEvidence, Ends, Goes
  <2>1. CASE EvidenceProblem = "none" /\ Goes("alive")
    <3>1. handle = Root /\ RootTyped
      BY <2>1 DEF EvidenceProblem, RootTyped
    <3> QED
      BY <1>0, <1>1, <1>2, <2>0, <2>1, <3>1 DEF Goes, RootTyped, IsProtected
  <2>2. CASE EvidenceProblem # "none" /\ Ends(EvidenceProblem)
    BY <1>1, <1>2, <2>0, <2>2 DEF Ends, EvidenceProblem
  <2>3. CASE Ends("OwnershipUnavailable")
    BY <1>1, <1>2, <2>0, <2>3 DEF Ends
  <2> QED
    BY <1>4, <2>1, <2>2, <2>3 DEF CheckEvidence
<1>5. CASE AskBefore
  <2>0. at = "alive" /\ UNCHANGED <<auth, doomed, seen, handle>> /\ handle = Root /\ RootTyped
    BY <1>5 DEF AskBefore, Alive, Ends, Goes
  <2>1. CASE Goes("terminate")
    BY <1>0, <1>1, <1>2, <2>0, <2>1 DEF Goes, RootTyped, IsProtected
  <2>2. CASE handle \notin Running /\ Ends("AlreadyExited")
    BY <1>1, <1>2, <2>0, <2>2, RootGone DEF Ends
  <2> QED
    BY <1>5, <2>1, <2>2 DEF AskBefore, Alive
<1>6. CASE Terminate
  <2>0. at = "terminate" /\ UNCHANGED <<auth, result, seen, handle>> /\ handle = Root /\ RootTyped
    BY <1>6 DEF Terminate, Goes
  <2>1. (at' = "wait" /\ doomed' = {Root}) \/ (at' = "failed" /\ doomed' = doomed)
    BY <1>6, <2>0 DEF Terminate, Goes
  <2> QED
    BY <1>0, <1>1, <1>2, <2>0, <2>1 DEF RootTyped, IsProtected
<1>7. CASE AskAfter
  <2>0. at = "failed" /\ UNCHANGED <<auth, seen, handle, doomed>> /\ handle = Root /\ at' = "observe"
    BY <1>7 DEF AskAfter, Ends
  <2>1. (result' = "AlreadyExited" /\ handle \notin Running) \/ result' = "PermissionDenied"
    BY <1>7 DEF AskAfter, Ends
  <2> QED
    BY <1>1, <1>2, <2>0, <2>1, RootGone
<1>8. CASE AwaitExit
  <2>0. at = "wait" /\ UNCHANGED <<auth, seen, handle, doomed>> /\ handle = Root /\ at' = "observe"
    BY <1>8 DEF AwaitExit, Ends
  <2>1. (result' = "Success" /\ handle \notin Running) \/ result' = "UnknownFailure"
    BY <1>8 DEF AwaitExit, Ends
  <2> QED
    BY <1>0, <1>1, <1>2, <2>0, <2>1, RootGone DEF RootTyped, IsProtected
<1>9. CASE Observe
  <2>0. at = "observe" /\ UNCHANGED <<auth, result, handle, doomed>> /\ at' = "over"
    BY <1>9 DEF Observe
  <2>1. seen' = "Exited" => Root \notin Running
    <3>1. SUFFICES ASSUME seen' = "Exited", Root \in Running PROVE FALSE
      OBVIOUS
    <3>2. Observation = "Exited"
      BY <1>9, <3>1 DEF Observe
    <3>3. Occupant(PidOf[Root]) = Root /\ Root # NoProc
      BY <3>1, OccupantIsTheOne, WinHostAssumption, WinKillAssumption
    <3> QED
      BY <3>2, <3>3 DEF Observation
  <2> QED
    BY <1>0, <1>1, <1>2, <2>0, <2>1, RootGone DEF RootTyped, IsProtected
<1> QED
  BY <1>1, <1>3, <1>4, <1>5, <1>6, <1>7, <1>8, <1>9 DEF SingleKill, KillStep

\* So does every step of the others: nobody who has ended comes back.
LEMMA HostKeepsSingle ==
    ASSUME HostInv', HostMoves, SingleInv, UNCHANGED <<killVars, jobVars>>
    PROVE  SingleInv'
BY DEF SingleInv, HostMoves, killVars, jobVars, RootTyped, IsProtected, Before

-----------------------------------------------------------------------------
\* The tree and the other processes

\* Who runs in the job after a step of theirs ran in it before, if the job is frozen.
LEMMA FrozenJobIsClosed ==
    ASSUME HostInv, HostInv', HostMoves, frozen, suspends
    PROVE  /\ UNCHANGED inJob
           /\ Live(inJob)' \subseteq Live(inJob)
           /\ \A p \in Running' : p \notin Running => parent'[p] \notin inJob
<1>1. \A p \in inJob : p \notin Executing
  BY DEF Executing
<1>2. UNCHANGED inJob
  BY <1>1 DEF HostMoves
<1>3. \A p \in Running' : p \in Started => p \in Running
  BY DEF HostMoves, Started, Dead, Running, HostInv, HostTypes
<1>4. inJob \subseteq Started /\ Outsider \notin inJob
  BY WinHostAssumption DEF HostInv, HostTypes, Started
<1>5. \A p \in Running' : p \notin Running => p \in Started' \ Started
  BY <1>3 DEF Running, Started
<1>6. \A p \in Running' : p \notin Running => parent'[p] \notin inJob
  BY <1>1, <1>4, <1>5 DEF HostMoves
<1> QED
  BY <1>2, <1>3, <1>4, <1>6 DEF Live

\* A step of the others keeps what is known of the tree: who is born below the root is
\* in the job if its parent is, and in a frozen job nobody starts anybody.
LEMMA HostKeepsTree ==
    ASSUME HostInv, HostInv', HostMoves, ProbeInv, TreeInv, phase # "done",
           UNCHANGED <<killVars, jobVars, probeVars>>
    PROVE  TreeInv'
<1>0. UNCHANGED <<at, auth, handle, result, seen, phase, todo, members, passes, clean, discovered,
                  exact, froze, report, outcome, step, Opened, OnlyAssigned>>
      /\ UNCHANGED <<name, frozen, suspends, doomed>> /\ Outsider \notin Proc
  BY WinHostAssumption DEF HostMoves, killVars, jobVars, probeVars, Opened, OnlyAssigned
<1>1. /\ Started \subseteq Started' /\ Dead \subseteq Dead'
      /\ \A p \in Running' : p \in Started => p \in Running
      /\ inJob \subseteq Started /\ Started \subseteq Proc /\ inJob' \subseteq Started'
  BY DEF HostMoves, Started, Dead, Running, HostInv, HostTypes
<1>2. \A p \in inJob' \ inJob : p \notin Started /\ parent'[p] \in inJob
  BY DEF HostMoves
<1>3. TreeTypes' /\ result' = "none" /\ seen' = "none"
  BY <1>0 DEF TreeInv, TreeTypes
<1>4. (phase \in Early => NothingYet)'
  BY <1>0, <1>2 DEF TreeInv, NothingYet
<1>5. KnownStarted' /\ EndsAreReal'
  BY <1>0, <1>1 DEF TreeInv, KnownStarted, EndsAreReal
<1>6. AllDescend'
  <2>1. ASSUME NEW p \in Opened \cup todo \cup inJob PROVE Descendant(p)'
    BY <1>1, HostKeepsDescent DEF TreeInv, AllDescend, KnownStarted
  <2>2. ASSUME NEW p \in inJob' \ inJob PROVE Descendant(p)'
    <3>1. PICK q \in Started : q = parent'[p] /\ q \in inJob
      BY <1>1, <1>2, <2>2
    <3>2. Descendant(q)'
      BY <2>1, <3>1
    <3> QED
      BY <1>1, <3>1, <3>2, HostKeepsDescent
  <2> QED
    BY <1>0, <2>1, <2>2 DEF AllDescend
<1>7. JobKeepsChildren'
  <2>1. SUFFICES ASSUME NEW p \in Running', parent'[p] \in inJob'
                 PROVE  p \in inJob' \/ parent'[p] \in Opened
    BY <1>0 DEF JobKeepsChildren
  <2>2. CASE p \in Started
    <3>1. p \in Running /\ parent'[p] = parent[p]
      BY <1>1, <2>2 DEF HostMoves
    <3>2. parent[p] \in Proc => parent[p] \in Started
      BY <2>2 DEF HostInv, ParentsFirst
    <3>3. parent[p] \in inJob
      BY <1>1, <1>2, <2>1, <3>1, <3>2 DEF HostInv, HostTypes, Started
    <3> QED
      BY <3>1, <3>3 DEF TreeInv, JobKeepsChildren, HostMoves
  <2>3. CASE p \notin Started
    <3>1. p \in Started' \ Started /\ parent'[p] # Outsider
      BY <1>0, <1>1, <2>1, <2>3 DEF Running, Started
    <3>2. parent'[p] \in Executing /\ (parent'[p] \in inJob => p \in inJob')
      BY <3>1 DEF HostMoves
    <3>3. parent'[p] \in Started
      BY <3>2 DEF Executing, Running, Started
    <3> QED
      BY <1>2, <2>1, <3>2, <3>3
  <2> QED
    BY <2>2, <2>3
<1>8. FreezeHolds'
  BY <1>0 DEF TreeInv, FreezeHolds
<1> DEFINE Holds == Checking \cup {"ids", "terminate", "wait"}
<1>9. phase \in Holds => /\ UNCHANGED inJob
                         /\ Live(inJob)' \subseteq Live(inJob)
                         /\ \A p \in Running' : p \notin Running => parent'[p] \notin inJob
  <2>1. phase \in Holds => frozen /\ suspends
    BY DEF TreeInv, FreezeHolds, ProbeInv, SilenceProves, Containing, Checking
  <2> QED
    BY <2>1, FrozenJobIsClosed
<1>10. MembershipRead'
  BY <1>0, <1>9 DEF TreeInv, MembershipRead
<1>11. MembershipProved'
  <2>1. CASE phase \in {"check", "past", "stable", "terminate"}
    <3>1. exact \subseteq inJob
      BY <2>1 DEF TreeInv, MembershipRead, Checking
    <3>2. ASSUME NEW p \in Running', parent'[p] \in exact PROVE p \in Running /\ parent[p] \in exact
      <4>1. p \in Running
        BY <1>9, <2>1, <3>1, <3>2 DEF Checking
      <4> QED
        BY <3>2, <4>1 DEF HostMoves, Started, Running
    <3>3. \A set : ChildrenWithin(set) => \A p \in Running' : parent'[p] \in exact => p \in set
      BY <3>2 DEF ChildrenWithin
    <3>4. exact \subseteq Running' => exact \subseteq Running
      BY <1>1, <3>1
    <3>5. \A p : Checked(p)' <=> Checked(p)
      BY <1>0 DEF Checked, IsProtected
    <3>6. CheckedSoFar' /\ AllChecked'
      BY <1>0, <3>3, <3>4, <3>5
         DEF TreeInv, MembershipProved, CheckedSoFar, AllChecked, ChildrenWithin
    <3> QED
      BY <1>0, <3>3, <3>6 DEF TreeInv, MembershipProved, IsProtected, ChildrenWithin
  <2>2. CASE phase \notin {"check", "past", "stable", "terminate"}
    BY <1>0, <2>2 DEF MembershipProved, CheckedSoFar, AllChecked
  <2> QED
    BY <2>1, <2>2
<1>12. NobodyPending' /\ EndIsTrue'
  BY <1>0 DEF TreeInv, NobodyPending, EndIsTrue
<1>13. EverybodyWaitedFor'
  BY <1>0, <1>1, <1>9 DEF TreeInv, EverybodyWaitedFor
<1> QED
  BY <1>0, <1>3, <1>4, <1>5, <1>6, <1>7, <1>8, <1>10, <1>11, <1>12, <1>13 DEF TreeInv

-----------------------------------------------------------------------------
\* The steps of the tree kill

\* What they leave alone.
Frame == UNCHANGED <<status, parent, name, suspends, at, auth, result, seen>>

\* Then the table stays in order, and who runs, descends and is protected stays so.
LEMMA FrameFacts ==
    ASSUME HostInv, Frame, inJob' \subseteq Started, frozen' \in BOOLEAN
    PROVE  /\ HostInv' /\ UNCHANGED <<Running, Started, Dead>>
           /\ \A p : Descendant(p)' <=> Descendant(p)
           /\ \A p : IsProtected(p)' <=> IsProtected(p)
BY DEF Frame, HostInv, HostTypes, OneOfANumber, ParentsFirst, RootThere, Running, Started, Dead,
       Descendant, ClosedUp, IsProtected

\* The phases before the job exists and those with it have nothing in common.
LEMMA PhasesDiffer ==
    /\ "done" \notin Early /\ "done" \notin Containing
    /\ \A x \in Early : x \notin Containing
    /\ {"assign", "sweep", "adopt", "freeze", "ids", "prove", "check", "past", "stable",
        "terminate", "wait", "thaw"} \subseteq Containing
    /\ Checking \subseteq Containing /\ "thaw" \notin Checking
<1>1. "done" \notin Early /\ "done" \notin Containing
  BY DEF Early, Containing
<1>2. ASSUME NEW x \in Early PROVE x \notin Containing
  BY DEF Early, Containing
<1> QED
  BY <1>1, <1>2 DEF Containing, Checking

\* Refusing before anything was done.
LEMMA RefusedKeeps ==
    ASSUME HostInv, TreeInv, phase \in Early, Frame, UNCHANGED <<inJob, frozen, doomed, probeVars>>,
           NEW reason, reason \notin {"none", "Completed", "JobTerminateFailed"}, Refused(reason)
    PROVE  HostInv' /\ TreeInv'
<1>0. phase' = "done" /\ outcome' = reason /\ UNCHANGED <<todo, members, exact, froze, report>>
      /\ UNCHANGED <<step, result, seen, Opened, inJob, frozen, doomed, parent>>
  BY DEF Refused, Frame, probeVars, Opened
<1>1. HostInv' /\ UNCHANGED <<Running, Dead, Started>> /\ \A p : Descendant(p)' <=> Descendant(p)
  BY <1>0, FrameFacts DEF HostInv, HostTypes
<1>2. NothingYet
  BY DEF TreeInv
<1>3. TreeTypes' /\ KnownStarted' /\ EndsAreReal' /\ AllDescend' /\ JobKeepsChildren'
  BY <1>0, <1>1 DEF TreeInv, TreeTypes, KnownStarted, EndsAreReal, AllDescend, JobKeepsChildren
<1>4. FreezeHolds' /\ MembershipRead' /\ MembershipProved' /\ NobodyPending' /\ EverybodyWaitedFor'
  BY <1>0, <1>2 DEF FreezeHolds, MembershipRead, MembershipProved, CheckedSoFar, AllChecked,
                    Checking, NobodyPending,
                    EverybodyWaitedFor, NothingYet, Containing
<1>5. EndIsTrue'
  BY <1>0, <1>2 DEF EndIsTrue, NothingYet, Completed
<1>6. phase' \notin Early \cup Containing
  BY <1>0, PhasesDiffer
<1> QED
  BY <1>0, <1>1, <1>3, <1>4, <1>5, <1>6 DEF TreeInv, Containing

\* Going on before anything was done.
LEMMA EarlyKeeps ==
    ASSUME HostInv, TreeInv, phase \in Early, phase' \in Early, Frame,
           UNCHANGED <<inJob, frozen, doomed, exact, froze, report, outcome>>,
           todo' \subseteq Started, \A p \in todo' : Descendant(p),
           \/ UNCHANGED members
           \/ \E p \in todo : members' = [members EXCEPT ![p] = "pending"],
           phase' = "pin" => todo' # {}, phase' = "commit" => step' = "passed"
    PROVE  HostInv' /\ TreeInv'
<1>1. HostInv' /\ UNCHANGED <<Running, Dead, Started>> /\ \A p : Descendant(p)' <=> Descendant(p)
  BY FrameFacts DEF HostInv, HostTypes
<1>2. NothingYet
  BY DEF TreeInv
<1>3. /\ members' \in [Proc -> {"none", "pending", "assigned", "exited"}]
      /\ Opened \subseteq Opened' /\ Opened' \subseteq Opened \cup todo
      /\ \A p \in Proc : members'[p] = "exited" => members[p] = "exited"
  BY DEF TreeInv, TreeTypes, Opened
<1>4. TreeTypes' /\ KnownStarted'
  BY <1>1, <1>3 DEF TreeInv, TreeTypes, KnownStarted, Started
<1>5. EndsAreReal' /\ AllDescend'
  BY <1>1, <1>3 DEF TreeInv, EndsAreReal, AllDescend
<1>6. NothingYet'
  BY <1>2 DEF NothingYet
<1>7. JobKeepsChildren'
  BY <1>2 DEF NothingYet, JobKeepsChildren
<1>8. phase' \notin Containing \cup {"done"}
  BY PhasesDiffer
<1>9. FreezeHolds' /\ MembershipRead' /\ MembershipProved' /\ NobodyPending' /\ EverybodyWaitedFor'
      /\ EndIsTrue'
  BY <1>2, <1>8 DEF FreezeHolds, MembershipRead, MembershipProved, CheckedSoFar, AllChecked,
                    Checking, NobodyPending,
                    EverybodyWaitedFor, NothingYet, Containing, EndIsTrue
<1> QED
  BY <1>1, <1>4, <1>5, <1>6, <1>7, <1>8, <1>9 DEF TreeInv, Frame, Containing

\* Going on while the tree is being put into the job.
LEMMA ContainingKeeps ==
    ASSUME HostInv, TreeInv, Frame, phase \in Containing \cup {"commit"},
           phase' \in {"assign", "sweep", "adopt", "freeze", "ids", "thaw"},
           inJob' \subseteq Started, frozen' \in BOOLEAN, UNCHANGED <<doomed, outcome, probeVars>>,
           phase # "thaw", TreeTypes', KnownStarted', EndsAreReal', AllDescend', JobKeepsChildren',
           frozen' => froze', phase' \in {"assign", "sweep", "adopt", "ids"} /\ froze' => frozen',
           phase' = "ids" => froze'
    PROVE  HostInv' /\ TreeInv'
<1>1. HostInv'
  BY FrameFacts
<1>2. phase' \in Containing /\ phase' \notin Early
  BY PhasesDiffer
<1>3. step' = "passed" /\ outcome' = "none"
  <2>1. CASE phase = "commit"
    BY <2>1 DEF TreeInv, FreezeHolds, NothingYet, probeVars, Early
  <2>2. CASE phase \in Containing
    BY <2>2 DEF TreeInv, FreezeHolds, probeVars
  <2> QED
    BY <2>1, <2>2
<1>4. FreezeHolds' /\ MembershipRead' /\ MembershipProved' /\ NobodyPending' /\ EverybodyWaitedFor'
      /\ EndIsTrue'
  BY <1>2, <1>3 DEF FreezeHolds, MembershipRead, MembershipProved, CheckedSoFar, AllChecked,
                    Checking, NobodyPending,
                    EverybodyWaitedFor, EndIsTrue
<1> QED
  BY <1>1, <1>2, <1>3, <1>4 DEF TreeInv, Frame

\* Before the root is in the job.
LEMMA BeforeTheJob ==
    ASSUME HostInv, TreeInv, UNCHANGED probeVars, UNCHANGED <<at, result, seen>>,
           \/ PrepareRoot \/ RecheckPorts \/ RecheckTree
           \/ Preview \/ Pin
    PROVE  HostInv' /\ TreeInv'
<1> DEFINE Rest == UNCHANGED <<exact, froze, report, outcome, auth>>
           Fixed == UNCHANGED <<status, parent, name, suspends, inJob, frozen, doomed>>
<1>0. HostTypes /\ todo \subseteq Started /\ \A p \in todo : Descendant(p)
  BY DEF HostInv, TreeInv, KnownStarted, AllDescend
<1> USE DEF Early
<1>1. CASE PrepareRoot
  <2>1. phase = "prepare" /\ Fixed
    BY <1>1 DEF PrepareRoot, hostVars
  <2>2. CASE phase' = "recheck" /\ UNCHANGED <<todo, members>> /\ Rest
    BY <1>0, <2>1, <2>2, EarlyKeeps DEF Frame
  <2>3. CASE Refused(AsRefusal(OpenFailure(PidOf[Root])))
    <3>1. AsRefusal(OpenFailure(PidOf[Root])) \notin {"none", "Completed", "JobTerminateFailed"}
      \/ OpenFailure(PidOf[Root]) = "none"
      BY DEF AsRefusal, OpenFailure
    <3>2. OpenFailure(PidOf[Root]) # "none"
      BY <1>1, <2>3 DEF PrepareRoot, Refused
    <3> QED
      BY <2>1, <2>3, <3>1, <3>2, RefusedKeeps DEF Frame, Refused
  <2> QED
    BY <1>1, <2>2, <2>3 DEF PrepareRoot
<1>2. ASSUME NEW problem, NEW next \in {"gates", "preview"}, ReadOnce(problem, next),
             problem \notin {"Completed", "JobTerminateFailed"},
             phase \in {"recheck", "gates", "portless"}
      PROVE  HostInv' /\ TreeInv'
  <2>1. Fixed
    BY <1>2 DEF ReadOnce, HostUnchanged
  <2>2. CASE Goon(next)
    BY <1>0, <1>2, <2>1, <2>2, EarlyKeeps DEF Frame, Goon
  <2>3. CASE problem # "none" /\ Refused(problem)
    BY <1>2, <2>1, <2>3, RefusedKeeps DEF Frame, Refused
  <2>4. CASE Refused("SnapshotFailed")
    BY <1>2, <2>1, <2>4, RefusedKeeps DEF Frame, Refused
  <2> QED
    BY <1>2, <2>2, <2>3, <2>4 DEF ReadOnce
<1>3. RootProblem(Running) \notin {"Completed", "JobTerminateFailed"}
  BY DEF RootProblem
<1>4. GateProblem(Running) \notin {"Completed", "JobTerminateFailed"}
  BY DEF GateProblem
<1>5. CASE RecheckPorts
  BY <1>2, <1>3, <1>5 DEF RecheckPorts
<1>6. CASE RecheckTree
  BY <1>2, <1>3, <1>4, <1>6 DEF RecheckTree
<1>7. CASE Preview
  <2>1. phase = "preview" /\ Fixed
    BY <1>7 DEF Preview
  <2>2. CASE PreviewProblem(Running) # "none" /\ Refused(PreviewProblem(Running))
    <3>1. PreviewProblem(Running) \notin {"Completed", "JobTerminateFailed"}
      BY DEF PreviewProblem
    <3> QED
      BY <2>1, <2>2, <3>1, RefusedKeeps DEF Frame, Refused
  <2>3. CASE /\ PreviewProblem(Running) = "none" /\ phase' = "pin" /\ todo' = TreeIn(Running)
             /\ Rest /\ UNCHANGED members
    <3>1. TreeIn(Running) \subseteq Started /\ TreeIn(Running) # {}
          /\ \A p \in TreeIn(Running) : Descendant(p)
      BY <1>0, TreeDescends DEF Running, Started, HostInv, RootThere
    <3> QED
      BY <2>1, <2>3, <3>1, EarlyKeeps DEF Frame
  <2>4. CASE Refused("SnapshotFailed")
    BY <2>1, <2>4, RefusedKeeps DEF Frame, Refused
  <2> QED
    BY <1>7, <2>2, <2>3, <2>4 DEF Preview
<1>8. CASE Pin
  <2>1. phase = "pin" /\ Fixed
    BY <1>8 DEF Pin
  <2>2. CASE Refused("TargetChanged") \/ Refused("PermissionDenied")
    BY <2>1, <2>2, RefusedKeeps DEF Frame, Refused
  <2>3. CASE /\ members' = [members EXCEPT ![First(todo)] = "pending"]
             /\ todo' = todo \ {First(todo)}
             /\ phase' = IF todo' = {} THEN "preflight" ELSE "pin"
             /\ Rest
    <3>1. todo # {} /\ todo \subseteq Proc
      BY <2>1 DEF TreeInv, NothingYet, TreeTypes
    <3>2. First(todo) \in todo
      BY <3>1, FirstOfSet
    <3>3. phase' \in Early /\ (phase' = "pin" => todo' # {}) /\ phase' # "commit"
      BY <2>3
    <3>4. \E p \in todo : members' = [members EXCEPT ![p] = "pending"]
      BY <2>3, <3>2
    <3>5. todo' \subseteq Started /\ \A p \in todo' : Descendant(p)
      BY <1>0, <2>3
    <3> QED
      BY <2>1, <2>3, <3>3, <3>4, <3>5, EarlyKeeps DEF Frame
  <2> QED
    BY <1>8, <2>2, <2>3 DEF Pin
<1> QED
  BY <1>1, <1>5, <1>6, <1>7, <1>8

\* Trying out the helper touches nothing of the tree, and the job is only made once it
\* has been seen to stop.
LEMMA PreflightKeeps ==
    ASSUME "stall" \notin Disturbances, HostInv, TreeInv, ProbeInv, Preflight,
           UNCHANGED <<at, result, seen>>
    PROVE  HostInv' /\ TreeInv' /\ ProbeInv'
<1>0. phase = "preflight" /\ todo \subseteq Started /\ \A p \in todo : Descendant(p)
  BY DEF Preflight, TreeInv, KnownStarted, AllDescend
<1> DEFINE Fixed == UNCHANGED <<status, parent, name, suspends, inJob, frozen, doomed>>
<1> USE DEF Early
<1>1. CASE ~ProbeOver /\ ProbeStep /\ UNCHANGED treeVars
  <2>1. Fixed /\ UNCHANGED treeVars
    BY <1>1 DEF ProbeStep
  <2>2. HostInv' /\ TreeInv'
    BY <1>0, <2>1, EarlyKeeps DEF Frame, treeVars
  <2> QED
    BY <1>1, <2>1, <2>2, ProbeKeeps
<1>2. CASE /\ step = "passed" /\ phase' = "commit"
           /\ UNCHANGED <<hostVars, probeVars, auth, todo, members, passes, clean, discovered, exact,
                          froze, report, outcome>>
  <2>1. Fixed /\ UNCHANGED <<step, suspends>>
    BY <1>2 DEF hostVars, probeVars
  <2>2. HostInv' /\ TreeInv'
    BY <1>0, <1>2, <2>1, EarlyKeeps DEF Frame
  <2> QED
    BY <1>2, <2>1, <2>2, ProbeRests
<1>3. CASE /\ Refused("FreezeCapabilityUnavailable") /\ UNCHANGED <<hostVars, probeVars>>
  <2>1. Fixed /\ UNCHANGED suspends
    BY <1>3 DEF hostVars
  <2> QED
    BY <1>0, <1>3, <2>1, RefusedKeeps, ProbeRests DEF Frame, Refused
<1> QED
  BY <1>1, <1>2, <1>3 DEF Preflight

\* The root goes into the job.
LEMMA CommitKeeps ==
    ASSUME HostInv, TreeInv, Commit, UNCHANGED <<at, result, seen, probeVars>>
    PROVE  HostInv' /\ TreeInv'
<1>0. phase = "commit" /\ phase \in Early
      /\ UNCHANGED <<status, parent, name, suspends, frozen, doomed>>
  BY DEF Commit, Early
<1>1. CASE Refused("RootAlreadyExited") /\ UNCHANGED inJob
  BY <1>0, <1>1, RefusedKeeps DEF Frame, Refused
<1>2. CASE Refused("CommitFailed") /\ UNCHANGED inJob
  BY <1>0, <1>2, RefusedKeeps DEF Frame, Refused
<1>3. CASE /\ inJob' = {Root} /\ members' = [members EXCEPT ![Root] = "assigned"]
           /\ phase' = "assign" /\ todo' = Opened \ {Root} /\ Root \in Running
           /\ UNCHANGED <<auth, passes, clean, discovered, exact, froze, report, outcome>>
  <2>0. NothingYet /\ Root \in Proc /\ Root \in Started
    BY <1>0, WinKillAssumption DEF TreeInv, HostInv, RootThere
  <2>1. Frame /\ inJob' \subseteq Started /\ frozen' \in BOOLEAN
    BY <1>0, <1>3, <2>0 DEF Frame, HostInv, HostTypes
  <2>2. /\ UNCHANGED <<Running, Started, Dead>> /\ \A p : Descendant(p)' <=> Descendant(p)
    BY <2>1, FrameFacts
  <2>3. Opened' = Opened \cup {Root} /\ members' \in [Proc -> {"none", "pending", "assigned", "exited"}]
        /\ \A p \in Proc : members'[p] = "exited" => members[p] = "exited"
    BY <1>3, <2>0 DEF Opened, TreeInv, TreeTypes
  <2>4. Opened \subseteq Proc
    BY DEF Opened
  <2>5. TreeTypes'
    <3> HIDE DEF Opened
    <3>1. phase' \in Early \cup Containing \cup {"done"}
      BY <1>3, PhasesDiffer
    <3> QED
      BY <1>0, <1>3, <2>3, <2>4, <3>1 DEF TreeInv, TreeTypes
  <2>6. KnownStarted' /\ EndsAreReal'
    BY <1>3, <2>0, <2>2, <2>3 DEF TreeInv, KnownStarted, EndsAreReal
  <2>7. AllDescend'
    <3>1. Descendant(Root)
      BY DEF Descendant
    <3> QED
      BY <1>3, <2>2, <2>3, <3>1 DEF TreeInv, AllDescend
  <2>8. JobKeepsChildren'
    BY <1>3, <2>3 DEF JobKeepsChildren
  <2> QED
    BY <1>0, <1>3, <2>0, <2>1, <2>5, <2>6, <2>7, <2>8, ContainingKeeps DEF NothingYet
<1> QED
  BY <1>1, <1>2, <1>3 DEF Commit

\* A process that kick has just opened, or has a handle to, goes into the job.
LEMMA AssignmentKeeps ==
    ASSUME HostInv, TreeInv, NEW p \in todo, NEW ok \in BOOLEAN, AssignOrWithhold(p, ok),
           UNCHANGED <<status, parent>>, todo' = todo \ {p}
    PROVE  /\ inJob \subseteq inJob' /\ inJob' \subseteq inJob \cup {p}
           /\ members' \in [Proc -> {"none", "pending", "assigned", "exited"}]
           /\ Opened' = Opened \cup {p}
           /\ DOMAIN report' = DOMAIN report
           /\ report'.state \in {"Complete", "Partial", "Withheld"}
           /\ KnownStarted' /\ EndsAreReal' /\ AllDescend' /\ JobKeepsChildren'
<1>0. p \in Proc /\ p \in Started /\ Descendant(p) /\ members \in [Proc -> {"none", "pending",
        "assigned", "exited"}]
      /\ DOMAIN report = {"state", "issue", "cleanup", "terminated", "exited", "left"}
  BY DEF TreeInv, TreeTypes, KnownStarted, AllDescend
<1>1. UNCHANGED <<Running, Started, Dead>> /\ \A q : Descendant(q)' <=> Descendant(q)
  BY DEF Running, Started, Dead, Descendant, ClosedUp
<1>2. Assignment(p, ok) \in {"exited", "assigned", "pending"}
      /\ (Assignment(p, ok) = "exited" => p \in Dead)
  BY <1>0 DEF Assignment, HostInv, HostTypes, Running, Started, Dead
<1>3. inJob \subseteq inJob' /\ inJob' \subseteq inJob \cup {p}
  BY DEF AssignOrWithhold
<1>4. members' = [members EXCEPT ![p] = Assignment(p, ok)]
  BY DEF AssignOrWithhold
<1>5. Opened' = Opened \cup {p} /\ members' \in [Proc -> {"none", "pending", "assigned", "exited"}]
  BY <1>0, <1>2, <1>4 DEF Opened
<1>6. /\ DOMAIN report' = DOMAIN report /\ report'.state \in {"Complete", "Partial", "Withheld"}
      /\ report'.terminated = report.terminated
      /\ report'.exited \subseteq report.exited \cup Dead
  <2>1. CASE Assignment(p, ok) = "exited"
    BY <1>0, <1>2, <2>1 DEF AssignOrWithhold, TreeInv, TreeTypes
  <2>2. CASE Assignment(p, ok) = "pending"
    BY <1>0, <1>2, <2>2 DEF AssignOrWithhold, TreeInv, TreeTypes
  <2>3. CASE Assignment(p, ok) = "assigned"
    BY <1>0, <1>2, <2>3 DEF AssignOrWithhold, TreeInv, TreeTypes
  <2> QED
    BY <1>2, <2>1, <2>2, <2>3
<1>7. KnownStarted' /\ AllDescend' /\ JobKeepsChildren'
  BY <1>0, <1>1, <1>3, <1>5 DEF TreeInv, KnownStarted, AllDescend, JobKeepsChildren
<1>8. EndsAreReal'
  BY <1>0, <1>1, <1>2, <1>4, <1>6 DEF TreeInv, EndsAreReal
<1> QED
  BY <1>3, <1>5, <1>6, <1>7, <1>8

\* The first members, one after the other.
LEMMA AssignKeeps ==
    ASSUME HostInv, TreeInv, Assign, UNCHANGED <<at, result, seen, probeVars>>
    PROVE  HostInv' /\ TreeInv'
<1>0. phase = "assign" /\ phase \in Containing /\ frozen \in BOOLEAN /\ (frozen <=> froze)
      /\ UNCHANGED <<status, parent, name, suspends, frozen, doomed, froze, exact, outcome, auth>>
      /\ inJob \subseteq Started
  BY PhasesDiffer DEF Assign, HostInv, HostTypes, TreeInv, FreezeHolds
<1>1. Frame
  BY <1>0 DEF Frame, Assign
<1>2. CASE todo = {} /\ phase' = "sweep" /\ UNCHANGED <<budget, todo, members, inJob, report>>
  <2>1. UNCHANGED <<Running, Started, Dead, Opened>> /\ \A p : Descendant(p)' <=> Descendant(p)
    BY <1>0, <1>1, <1>2, FrameFacts DEF Opened
  <2>2. TreeTypes' /\ KnownStarted' /\ EndsAreReal' /\ AllDescend' /\ JobKeepsChildren'
    BY <1>0, <1>2, <2>1, PhasesDiffer
       DEF TreeInv, TreeTypes, KnownStarted, EndsAreReal, AllDescend, JobKeepsChildren
  <2> QED
    BY <1>0, <1>1, <1>2, <2>2, ContainingKeeps
<1>3. CASE /\ todo # {} /\ todo' = todo \ {First(todo)} /\ UNCHANGED phase
           /\ \E ok \in BOOLEAN : AssignOrWithhold(First(todo), ok)
  <2>1. First(todo) \in todo
    BY <1>3, FirstOfSet DEF TreeInv, TreeTypes
  <2>2. PICK ok \in BOOLEAN : AssignOrWithhold(First(todo), ok)
    BY <1>3
  <2>3. /\ inJob' \subseteq inJob \cup {First(todo)}
        /\ members' \in [Proc -> {"none", "pending", "assigned", "exited"}]
        /\ DOMAIN report' = DOMAIN report
        /\ report'.state \in {"Complete", "Partial", "Withheld"}
        /\ KnownStarted' /\ EndsAreReal' /\ AllDescend' /\ JobKeepsChildren'
    BY <1>0, <1>3, <2>1, <2>2, AssignmentKeeps
  <2>4. inJob' \subseteq Started
    BY <1>0, <2>1, <2>3 DEF TreeInv, KnownStarted
  <2>5. TreeTypes'
    BY <1>0, <1>3, <2>3 DEF TreeInv, TreeTypes
  <2> QED
    BY <1>0, <1>1, <1>3, <2>3, <2>4, <2>5, ContainingKeeps
<1> QED
  BY <1>0, <1>2, <1>3 DEF Assign

\* What recording an issue changes of a report.
ReportFields == {"state", "issue", "cleanup", "terminated", "exited", "left"}

\* What is recorded with an issue: the report is not complete any more, and says of the
\* dead what it said.
LEMMA RecordedIs ==
    ASSUME NEW r, DOMAIN r = ReportFields, NEW reason
    PROVE  /\ DOMAIN Recorded(r, reason) = ReportFields
           /\ Recorded(r, reason).state \in {"Partial", "Withheld"}
           /\ reason # "ProtectedDescendant" => Recorded(r, reason).state = "Withheld"
           /\ Recorded(r, reason).terminated = r.terminated
           /\ Recorded(r, reason).exited = r.exited
BY DEF Recorded, ReportFields

\* A sweep ends in the freeze, or in reading the members of a job that is frozen.
LEMMA SweepNext ==
    ASSUME TreeInv, phase \in {"sweep", "adopt"}
    PROVE  AfterSweep \in {"freeze", "ids"} /\ (AfterSweep = "ids" => frozen /\ froze)
BY DEF AfterSweep, TreeInv, FreezeHolds

\* Recording one and going on, or withholding.
LEMMA IssueKeeps ==
    ASSUME HostInv, TreeInv, Frame, phase \in Containing, phase # "thaw",
           UNCHANGED <<inJob, frozen, doomed, probeVars>>,
           NEW r, DOMAIN r = DOMAIN report, r.state \in {"Complete", "Partial", "Withheld"},
           r.terminated = report.terminated, r.exited = report.exited,
           NEW reason, NEW next \in {"thaw", "freeze", "ids", "prove"},
           next = "ids" => frozen /\ froze, next = "prove" => reason # "ProtectedDescendant",
           Issue(r, reason, next),
           \/ UNCHANGED members
           \/ \E p \in todo : \/ members' = [members EXCEPT ![p] = "assigned"]
                            \/ members' = [members EXCEPT ![p] = "pending"]
    PROVE  HostInv' /\ TreeInv'
<1>0. /\ report' = Recorded(r, reason) /\ todo' = {} /\ UNCHANGED <<exact, froze, outcome>>
      /\ phase' = Proceed(report', next) /\ DOMAIN report = ReportFields
  BY DEF Issue, TreeInv, TreeTypes, ReportFields
<1>1. /\ DOMAIN report' = DOMAIN report /\ report'.state \in {"Partial", "Withheld"}
      /\ reason # "ProtectedDescendant" => report'.state = "Withheld"
      /\ report'.terminated = report.terminated /\ report'.exited = report.exited
  BY <1>0, RecordedIs
<1>2. phase' = "thaw" \/ (phase' = next /\ next # "prove")
  BY <1>0, <1>1 DEF Proceed
<1>3. frozen \in BOOLEAN /\ (frozen => froze) /\ inJob' \subseteq Started
  BY DEF HostInv, HostTypes, TreeInv, FreezeHolds
<1>4. UNCHANGED <<Running, Started, Dead>> /\ \A p : Descendant(p)' <=> Descendant(p)
  BY <1>3, FrameFacts
<1>5. /\ members' \in [Proc -> {"none", "pending", "assigned", "exited"}]
      /\ Opened \subseteq Opened' /\ Opened' \subseteq Opened \cup todo
      /\ \A p \in Proc : members'[p] = "exited" => members[p] = "exited"
  BY DEF TreeInv, TreeTypes, Opened
<1>6. TreeTypes'
  <2>1. phase' \in Early \cup Containing \cup {"done"}
    BY <1>2, PhasesDiffer
  <2> QED
    BY <1>0, <1>1, <1>5, <2>1 DEF TreeInv, TreeTypes
<1>7. KnownStarted' /\ AllDescend' /\ JobKeepsChildren'
  BY <1>0, <1>4, <1>5 DEF TreeInv, KnownStarted, AllDescend, JobKeepsChildren, Frame
<1>8. EndsAreReal'
  BY <1>1, <1>4, <1>5 DEF TreeInv, EndsAreReal
<1>9. phase' \in {"freeze", "ids", "thaw"} /\ (phase' = "ids" => frozen' /\ froze')
  BY <1>0, <1>2
<1> QED
  BY <1>0, <1>3, <1>6, <1>7, <1>8, <1>9, ContainingKeeps

\* A snapshot while the tree is swept.
LEMMA SweepKeeps ==
    ASSUME HostInv, TreeInv, Sweep, UNCHANGED <<at, result, seen, probeVars>>
    PROVE  HostInv' /\ TreeInv'
<1>0. /\ phase = "sweep" /\ phase \in Containing
      /\ UNCHANGED <<status, parent, name, suspends, inJob, frozen, doomed, members>>
      /\ frozen \in BOOLEAN /\ (frozen <=> froze) /\ inJob' \subseteq Started
      /\ DOMAIN report = ReportFields /\ report.state \in {"Complete", "Partial", "Withheld"}
  BY PhasesDiffer DEF Sweep, Issue, HostInv, HostTypes, TreeInv, FreezeHolds, TreeTypes, ReportFields
<1>1. AfterSweep \in {"freeze", "ids"} /\ (AfterSweep = "ids" => frozen /\ froze)
  BY <1>0, SweepNext
<1>2. ASSUME NEW reason, Issue(report, reason, AfterSweep)
      PROVE  HostInv' /\ TreeInv'
  <2>1. Frame
    BY <1>0, <1>2 DEF Frame, Issue
  <2> QED
    BY <1>0, <1>1, <1>2, <2>1, IssueKeeps
<1>3. CASE /\ UNCHANGED <<auth, members, exact, froze, outcome>>
           /\ SweepProblem(Running) # "none"
           /\ report' = Recorded(report, SweepProblem(Running))
           /\ phase' = Proceed(report', AfterSweep)
           /\ UNCHANGED todo
  <2>1. Frame
    BY <1>0, <1>3 DEF Frame
  <2>2. UNCHANGED <<Running, Started, Dead, Opened>> /\ \A p : Descendant(p)' <=> Descendant(p)
    BY <1>0, <2>1, FrameFacts DEF Opened
  <2>3. /\ DOMAIN report' = DOMAIN report /\ report'.state \in {"Complete", "Partial", "Withheld"}
        /\ report'.terminated = report.terminated /\ report'.exited = report.exited
    BY <1>0, <1>3, RecordedIs
  <2>4. phase' \in {"freeze", "ids", "thaw"} /\ (phase' = "ids" => frozen' /\ froze')
    BY <1>0, <1>1, <1>3 DEF Proceed
  <2>5. TreeTypes' /\ KnownStarted' /\ EndsAreReal' /\ AllDescend' /\ JobKeepsChildren'
    BY <1>0, <1>3, <2>2, <2>3, <2>4, PhasesDiffer
       DEF TreeInv, TreeTypes, KnownStarted, EndsAreReal, AllDescend, JobKeepsChildren
  <2> QED
    BY <1>0, <1>3, <2>1, <2>4, <2>5, ContainingKeeps
<1>4. CASE /\ UNCHANGED <<auth, members, exact, froze, outcome, report>>
           /\ SweepProblem(Running) = "none"
           /\ todo' = TreeIn(Running) \ Opened
           /\ IF todo' = {} THEN CleanPass ELSE phase' = "adopt"
  <2>1. Frame
    BY <1>0, <1>4 DEF Frame
  <2>2. UNCHANGED <<Running, Started, Dead, Opened>> /\ \A p : Descendant(p)' <=> Descendant(p)
    BY <1>0, <2>1, FrameFacts DEF Opened
  <2>3. todo' \subseteq Started /\ \A p \in todo' : Descendant(p)
    BY <1>4, TreeDescends DEF HostInv, RootThere, Running, Started
  <2>4. phase' \in {"freeze", "ids", "thaw", "sweep", "adopt"}
        /\ (phase' \in {"ids", "sweep", "adopt"} /\ froze' => frozen') /\ (phase' = "ids" => froze')
    BY <1>0, <1>1, <1>4 DEF CleanPass, Proceed
  <2>5. TreeTypes' /\ KnownStarted' /\ EndsAreReal' /\ AllDescend' /\ JobKeepsChildren'
    BY <1>0, <1>4, <2>2, <2>3, <2>4, PhasesDiffer
       DEF TreeInv, TreeTypes, KnownStarted, EndsAreReal, AllDescend, JobKeepsChildren, Started
  <2> QED
    BY <1>0, <1>4, <2>1, <2>4, <2>5, ContainingKeeps
<1> QED
  BY <1>2, <1>3, <1>4 DEF Sweep

\* Somebody new.
LEMMA AdoptKeeps ==
    ASSUME HostInv, TreeInv, Adopt, UNCHANGED <<at, result, seen, probeVars>>
    PROVE  HostInv' /\ TreeInv'
<1>0. /\ phase = "adopt" /\ phase \in Containing /\ todo # {} /\ todo \subseteq Proc
      /\ UNCHANGED <<status, parent, name, suspends, frozen, doomed>>
      /\ frozen \in BOOLEAN /\ (frozen <=> froze) /\ inJob \subseteq Started
      /\ DOMAIN report = ReportFields /\ report.state \in {"Complete", "Partial", "Withheld"}
      /\ todo \subseteq Started
  BY PhasesDiffer
     DEF Adopt, HostInv, HostTypes, TreeInv, FreezeHolds, TreeTypes, ReportFields, KnownStarted
<1>1. AfterSweep \in {"freeze", "ids"} /\ (AfterSweep = "ids" => frozen /\ froze)
  BY <1>0, SweepNext
<1>2. PICK p \in todo : p = First(todo)
  BY <1>0, FirstOfSet
<1> DEFINE r1 == [report EXCEPT !.left = @ \cup {p}]
           r2 == [report EXCEPT !.left = @ \cup {p},
                                !.state = IF p \in inJob THEN "Withheld" ELSE @]
<1>3. /\ DOMAIN r1 = DOMAIN report /\ r1.state \in {"Complete", "Partial", "Withheld"}
      /\ r1.terminated = report.terminated /\ r1.exited = report.exited
  BY <1>0 DEF ReportFields
<1>4. /\ DOMAIN r2 = DOMAIN report /\ r2.state \in {"Complete", "Partial", "Withheld"}
      /\ r2.terminated = report.terminated /\ r2.exited = report.exited
  BY <1>0 DEF ReportFields
<1>5. ASSUME NEW reason, Issue(r1, reason, AfterSweep), UNCHANGED <<members, inJob>>
      PROVE  HostInv' /\ TreeInv'
  <2>1. Frame
    BY <1>0, <1>5 DEF Frame, Issue
  <2> HIDE DEF r1
  <2> QED
    BY <1>0, <1>1, <1>3, <1>5, <2>1, IssueKeeps
<1>6. ASSUME NEW reason, Spare(p, reason)
      PROVE  HostInv' /\ TreeInv'
  <2>1. Issue(r2, reason, AfterSweep) /\ UNCHANGED inJob
        /\ members' = [members EXCEPT ![p] = IF p \in inJob THEN "assigned" ELSE @]
    BY <1>6 DEF Spare
  <2>2. Frame
    BY <1>0, <2>1 DEF Frame, Issue
  <2>3. UNCHANGED members \/ members' = [members EXCEPT ![p] = "assigned"]
    BY <2>1 DEF TreeInv, TreeTypes
  <2> HIDE DEF r2
  <2> QED
    BY <1>0, <1>1, <1>4, <2>1, <2>2, <2>3, IssueKeeps
<1>7. ASSUME Issue(report, "Truncated", AfterSweep), UNCHANGED <<members, inJob>>
      PROVE  HostInv' /\ TreeInv'
  <2>1. Frame
    BY <1>0, <1>7 DEF Frame, Issue
  <2> QED
    BY <1>0, <1>1, <1>7, <2>1, IssueKeeps
<1>8. CASE /\ ~Opens(p) /\ report' = [report EXCEPT !.exited = @ \cup {p}] /\ todo' = todo \ {p}
           /\ UNCHANGED <<budget, members, inJob, phase, auth, passes, clean, discovered, exact,
                          froze, outcome>>
  <2>1. Frame
    BY <1>0, <1>8 DEF Frame
  <2>2. UNCHANGED <<Running, Started, Dead, Opened>> /\ \A q : Descendant(q)' <=> Descendant(q)
    BY <1>0, <1>8, <2>1, FrameFacts DEF Opened
  <2>3. p \in Dead
    BY <1>0, <1>8, OccupantIsTheOne DEF Opens, Started, Dead, Running, HostInv, HostTypes
  <2>4. /\ DOMAIN report' = DOMAIN report /\ report'.state \in {"Complete", "Partial", "Withheld"}
        /\ report'.terminated = report.terminated /\ report'.exited = report.exited \cup {p}
    BY <1>0, <1>8 DEF ReportFields
  <2>5. TreeTypes' /\ KnownStarted' /\ EndsAreReal' /\ AllDescend' /\ JobKeepsChildren'
    BY <1>0, <1>8, <2>2, <2>3, <2>4
       DEF TreeInv, TreeTypes, KnownStarted, EndsAreReal, AllDescend, JobKeepsChildren
  <2> QED
    BY <1>0, <1>8, <2>1, <2>5, ContainingKeeps
<1>9. CASE /\ \E ok \in BOOLEAN : AssignOrWithhold(p, ok)
           /\ todo' = todo \ {p} /\ UNCHANGED <<phase, auth, passes, clean, exact, froze, outcome>>
  <2>1. PICK ok \in BOOLEAN : AssignOrWithhold(p, ok)
    BY <1>9
  <2>2. Frame
    BY <1>0, <1>9 DEF Frame
  <2>3. /\ inJob' \subseteq inJob \cup {p}
        /\ members' \in [Proc -> {"none", "pending", "assigned", "exited"}]
        /\ DOMAIN report' = DOMAIN report
        /\ report'.state \in {"Complete", "Partial", "Withheld"}
        /\ KnownStarted' /\ EndsAreReal' /\ AllDescend' /\ JobKeepsChildren'
    BY <1>0, <1>9, <2>1, AssignmentKeeps
  <2>4. inJob' \subseteq Started
    BY <1>0, <2>3
  <2>5. TreeTypes'
    BY <1>0, <1>9, <2>3 DEF TreeInv, TreeTypes
  <2> QED
    BY <1>0, <1>9, <2>2, <2>3, <2>4, <2>5, ContainingKeeps
<1> QED
  BY <1>2, <1>5, <1>6, <1>7, <1>8, <1>9 DEF Adopt

\* The end of a pass; freezing; reading who is in the job.
LEMMA PassOverKeeps ==
    ASSUME HostInv, TreeInv, PassOver, UNCHANGED <<at, result, seen, probeVars>>
    PROVE  HostInv' /\ TreeInv'
<1>0. /\ phase = "adopt" /\ phase \in Containing
      /\ UNCHANGED <<status, parent, name, suspends, frozen, doomed, inJob, auth, todo, members,
                     exact, froze, report, outcome>>
      /\ frozen \in BOOLEAN /\ (frozen <=> froze) /\ inJob \subseteq Started
  BY PhasesDiffer DEF PassOver, hostVars, HostInv, HostTypes, TreeInv, FreezeHolds
<1>1. AfterSweep \in {"freeze", "ids"}
  BY <1>0, SweepNext
<1>2. Frame
  BY <1>0 DEF Frame
<1>3. UNCHANGED <<Running, Started, Dead, Opened>> /\ \A q : Descendant(q)' <=> Descendant(q)
  BY <1>0, <1>2, FrameFacts DEF Opened
<1>4. phase' \in {"freeze", "ids", "thaw", "sweep"} /\ (phase' = "ids" => froze)
  <2>1. AfterSweep = "ids" => froze
    BY DEF AfterSweep
  <2> QED
    BY <1>1, <2>1 DEF PassOver, CleanPass, Proceed
<1>5. TreeTypes' /\ KnownStarted' /\ EndsAreReal' /\ AllDescend' /\ JobKeepsChildren'
  BY <1>0, <1>3, <1>4, PhasesDiffer
     DEF TreeInv, TreeTypes, KnownStarted, EndsAreReal, AllDescend, JobKeepsChildren
<1> QED
  BY <1>0, <1>2, <1>4, <1>5, ContainingKeeps

\* Freezing the job, with an error or without.
LEMMA FreezeKeeps ==
    ASSUME HostInv, TreeInv, Freeze, UNCHANGED <<at, result, seen, probeVars>>
    PROVE  HostInv' /\ TreeInv'
<1>0. /\ phase = "freeze" /\ phase \in Containing /\ froze' = TRUE
      /\ UNCHANGED <<status, parent, name, suspends, doomed, inJob, auth, todo, members,
                     exact, outcome>>
      /\ frozen' \in BOOLEAN /\ inJob \subseteq Started
      /\ DOMAIN report = ReportFields /\ report.state \in {"Complete", "Partial", "Withheld"}
  BY PhasesDiffer DEF Freeze, HostInv, HostTypes, TreeInv, FreezeHolds, TreeTypes, ReportFields
<1>1. Frame
  BY <1>0 DEF Frame
<1>2. UNCHANGED <<Running, Started, Dead, Opened>> /\ \A q : Descendant(q)' <=> Descendant(q)
  BY <1>0, <1>1, FrameFacts DEF Opened
<1>3. (phase' = "sweep" /\ frozen' = TRUE) \/ phase' = "thaw"
  BY DEF Freeze
<1>4. /\ DOMAIN report' = DOMAIN report /\ report'.state \in {"Complete", "Partial", "Withheld"}
      /\ report'.terminated = report.terminated /\ report'.exited = report.exited
  <2>1. report' = report \/ report' = Recorded(report, "SnapshotFailed")
    BY DEF Freeze
  <2> QED
    BY <1>0, <2>1, RecordedIs
<1>5. TreeTypes' /\ KnownStarted' /\ EndsAreReal' /\ AllDescend' /\ JobKeepsChildren'
  BY <1>0, <1>2, <1>3, <1>4, PhasesDiffer
     DEF TreeInv, TreeTypes, KnownStarted, EndsAreReal, AllDescend, JobKeepsChildren
<1> QED
  BY <1>0, <1>1, <1>3, <1>5, ContainingKeeps

-----------------------------------------------------------------------------
\* The steps of the tree kill once the job is frozen

LEMMA LateKeeps ==
    ASSUME HostInv, TreeInv, Frame, phase \in Checking \cup {"ids", "terminate", "wait"},
           phase' \in Checking \cup {"terminate", "wait"},
           UNCHANGED <<inJob, frozen, froze, probeVars, outcome>>,
           TreeTypes', KnownStarted', EndsAreReal', AllDescend', Opened \subseteq Opened',
           MembershipRead', MembershipProved', NobodyPending', EverybodyWaitedFor'
    PROVE  HostInv' /\ TreeInv'
<1>1. HostInv' /\ UNCHANGED Running
  BY FrameFacts DEF HostInv, HostTypes
<1>2. phase \in Containing /\ phase' \in Containing /\ phase' \notin Early \cup {"done"}
  BY PhasesDiffer
<1>3. frozen /\ froze /\ step = "passed" /\ outcome = "none"
  BY <1>2, PhasesDiffer DEF TreeInv, FreezeHolds
<1>4. FreezeHolds' /\ EndIsTrue'
  BY <1>2, <1>3 DEF FreezeHolds, EndIsTrue, probeVars
<1>5. JobKeepsChildren'
  BY <1>1 DEF TreeInv, JobKeepsChildren, Frame
<1> QED
  BY <1>1, <1>2, <1>3, <1>4, <1>5 DEF TreeInv, Frame

\* Not going on.
LEMMA WithholdKeeps ==
    ASSUME HostInv, TreeInv, phase \in Checking, UNCHANGED <<at, result, seen, probeVars>>,
           UNCHANGED <<status, parent, name, suspends, inJob, frozen, doomed>>,
           UNCHANGED members \/ \E p \in todo : members' = [members EXCEPT ![p] = "pending"],
           NEW reason, Withhold(reason)
    PROVE  HostInv' /\ TreeInv'
<1> DEFINE r == [report EXCEPT !.state = "Withheld"]
<1>1. Issue(r, reason, "thaw")
  BY DEF Withhold
<1>2. /\ DOMAIN r = DOMAIN report /\ r.state \in {"Complete", "Partial", "Withheld"}
      /\ r.terminated = report.terminated /\ r.exited = report.exited
  BY DEF TreeInv, TreeTypes
<1>3. Frame /\ phase \in Containing /\ phase # "thaw"
  BY <1>1, PhasesDiffer DEF Frame, Issue
<1> HIDE DEF r
<1> QED
  BY <1>1, <1>2, <1>3, IssueKeeps

\* Reading the members of a frozen job: they are everybody who will ever live in it.
LEMMA ReadMembershipKeeps ==
    ASSUME HostInv, TreeInv, ReadMembership, UNCHANGED <<at, result, seen, probeVars>>
    PROVE  HostInv' /\ TreeInv'
<1>0. /\ phase = "ids" /\ phase \in Containing
      /\ UNCHANGED <<status, parent, name, suspends, inJob, frozen, doomed, members>>
      /\ DOMAIN report = ReportFields /\ report.state \in {"Complete", "Partial", "Withheld"}
  BY PhasesDiffer DEF ReadMembership, TreeInv, TreeTypes, ReportFields
<1>1. CASE /\ exact' = Live(inJob) /\ phase' = "prove"
           /\ UNCHANGED <<budget, todo, clean, discovered, auth, passes, froze, report, outcome>>
  <2>1. Frame
    BY <1>0, <1>1 DEF Frame
  <2>2. UNCHANGED <<Running, Started, Dead, Opened>> /\ \A q : Descendant(q)' <=> Descendant(q)
    BY <1>0, <2>1, FrameFacts DEF Opened, HostInv, HostTypes
  <2>3. exact' \subseteq Proc /\ phase' \in Early \cup Containing \cup {"done"}
    BY <1>1, PhasesDiffer DEF Live, Running
  <2>4. TreeTypes' /\ KnownStarted' /\ EndsAreReal' /\ AllDescend'
    BY <1>0, <1>1, <2>2, <2>3 DEF TreeInv, TreeTypes, KnownStarted, EndsAreReal, AllDescend
  <2>5. MembershipRead' /\ MembershipProved' /\ NobodyPending' /\ EverybodyWaitedFor'
    BY <1>0, <1>1, <2>2
       DEF MembershipRead, MembershipProved, CheckedSoFar, AllChecked, NobodyPending,
           EverybodyWaitedFor, Live
  <2> QED
    BY <1>0, <1>1, <2>1, <2>2, <2>4, <2>5, LateKeeps DEF Checking
<1>2. CASE Issue(report, "SnapshotFailed", "prove")
  <2>1. Frame
    BY <1>0, <1>2 DEF Frame, Issue
  <2> QED
    BY <1>0, <1>2, <2>1, IssueKeeps
<1> QED
  BY <1>1, <1>2 DEF ReadMembership

\* Who is to be checked: everybody in the job, and everybody below one that is known.
LEMMA ToBeChecked ==
    ASSUME HostInv, TreeInv, phase = "prove"
    PROVE  \A p \in exact \cup BelowMembers(Running) : p \in Started /\ Descendant(p)
<1> DEFINE Seeds == {r \in Opened : members[r] # "exited" /\ r \in Running}
<1>1. exact \subseteq inJob /\ inJob \subseteq Started
  BY DEF TreeInv, MembershipRead, HostInv, HostTypes, Checking
<1>2. Seeds \subseteq Running /\ \A p \in Seeds : Descendant(p)
  BY DEF TreeInv, AllDescend
<1>3. BelowMembers(Running) = Reached(Seeds, Running)
  BY DEF BelowMembers
<1> HIDE DEF Seeds
<1>4. BelowMembers(Running) \subseteq {p \in Running : Descendant(p)}
  BY <1>2, <1>3, BelowDescends DEF HostInv
<1> QED
  BY <1>1, <1>4 DEF TreeInv, AllDescend, Running, Started

\* Whoever runs and was started by a process of the job is to be checked, if none of
\* the job has ended.
LEMMA ChildrenAreChecked ==
    ASSUME HostInv, TreeInv, phase = "prove", SnapshotProblem(Running) = "none",
           exact \subseteq Running
    PROVE  ChildrenWithin(exact \cup BelowMembers(Running))
<1> DEFINE Seeds == {r \in Opened : members[r] # "exited" /\ r \in Running}
<1>1. SUFFICES ASSUME NEW p \in Running, parent[p] \in exact, p \notin exact
               PROVE  p \in BelowMembers(Running)
  BY DEF ChildrenWithin
<1>2. Live(inJob) \subseteq exact /\ exact \subseteq inJob /\ exact \subseteq Proc
  BY DEF TreeInv, MembershipRead, TreeTypes, Checking
<1>3. parent[p] \in Opened
  BY <1>1, <1>2 DEF TreeInv, JobKeepsChildren, Live
<1>4. parent[p] \in Seeds
  BY <1>1, <1>3 DEF TreeInv, EndsAreReal, Dead, Running
<1>5. BelowMembers(Running) = Reached(Seeds, Running) /\ ~Unsure(BelowMembers(Running), Running)
  BY DEF BelowMembers, SnapshotProblem
<1>6. parent \in [Proc -> Proc \cup {Outsider}]
  BY DEF HostInv, HostTypes
<1> HIDE DEF Seeds
<1>7. Seeds \subseteq Reached(Seeds, Running)
      /\ (Verified(p, Running) => p \in Reached(Seeds, Running))
  BY <1>1, <1>4, <1>6, ReachedFromSeeds
<1>8. ASSUME p \notin BelowMembers(Running) PROVE Verified(p, Running)
  BY <1>1, <1>2, <1>4, <1>5, <1>7, <1>8 DEF Unsure
<1> QED
  BY <1>5, <1>7, <1>8

\* The last snapshot.
LEMMA ProveMembershipKeeps ==
    ASSUME HostInv, TreeInv, ProveMembership, UNCHANGED <<at, result, seen, probeVars>>
    PROVE  HostInv' /\ TreeInv'
<1>0. /\ phase = "prove" /\ phase \in Checking
      /\ UNCHANGED <<status, parent, name, suspends, inJob, frozen, doomed, members>>
  BY DEF ProveMembership, Checking
<1>1. ASSUME NEW reason, Withhold(reason)
      PROVE  HostInv' /\ TreeInv'
  BY <1>0, <1>1, WithholdKeeps
<1>2. CASE /\ SnapshotProblem(Running) = "none"
           /\ todo' = exact \cup BelowMembers(Running) /\ phase' = "check"
           /\ UNCHANGED <<auth, passes, clean, discovered, exact, froze, report, outcome>>
  <2>1. Frame
    BY <1>0, <1>2 DEF Frame
  <2>2. /\ UNCHANGED <<Running, Started, Dead, Opened>> /\ \A q : Descendant(q)' <=> Descendant(q)
    BY <1>0, <2>1, FrameFacts DEF HostInv, HostTypes, Opened
  <2>3. phase' \in Early \cup Containing \cup {"done"} /\ phase' \in Checking
    BY <1>2, PhasesDiffer DEF Checking
  <2>4. todo' \subseteq Started /\ \A p \in todo' : Descendant(p)
    BY <1>0, <1>2, ToBeChecked
  <2>5. TreeTypes' /\ KnownStarted' /\ EndsAreReal' /\ AllDescend'
    BY <1>0, <1>2, <2>2, <2>3, <2>4
       DEF TreeInv, TreeTypes, KnownStarted, EndsAreReal, AllDescend, Started
  <2>6. MembershipRead' /\ NobodyPending' /\ EverybodyWaitedFor'
    BY <1>0, <1>2, <2>2
       DEF TreeInv, MembershipRead, NobodyPending, EverybodyWaitedFor, Live
  <2>7. exact \subseteq Running => ChildrenWithin(todo')
    BY <1>0, <1>2, ChildrenAreChecked
  <2>8. exact \cup todo' = todo'
    BY <1>2
  <2>9. CheckedSoFar'
    <3>1. \A p \in exact' \ todo' : Checked(p)'
      BY <1>2
    <3>2. exact' \subseteq Running' => ChildrenWithin(exact \cup todo)'
      BY <1>0, <1>2, <2>2, <2>7, <2>8 DEF ChildrenWithin
    <3> QED
      BY <3>1, <3>2 DEF CheckedSoFar
  <2>10. MembershipProved'
    BY <1>2, <2>9 DEF MembershipProved, AllChecked
  <2> QED
    BY <1>0, <1>2, <2>1, <2>2, <2>3, <2>5, <2>6, <2>10, LateKeeps
<1> QED
  BY <1>1, <1>2 DEF ProveMembership

\* One of them is looked at.
LEMMA CheckMemberKeeps ==
    ASSUME HostInv, TreeInv, CheckMember, UNCHANGED <<at, result, seen, probeVars>>
    PROVE  HostInv' /\ TreeInv'
<1>0. /\ phase = "check" /\ phase \in Checking /\ todo # {} /\ todo \subseteq Proc
      /\ UNCHANGED <<status, parent, name, suspends, inJob, frozen, doomed>>
  BY DEF CheckMember, Checking, TreeInv, TreeTypes
<1>1. PICK p \in todo : p = First(todo)
  BY <1>0, FirstOfSet
<1>2. ASSUME NEW reason, Withhold(reason), UNCHANGED members \/ Retains(p)
      PROVE  HostInv' /\ TreeInv'
  <2>1. UNCHANGED members \/ members' = [members EXCEPT ![p] = "pending"]
    BY <1>2 DEF Retains, TreeInv, TreeTypes
  <2> QED
    BY <1>0, <1>1, <1>2, <2>1, WithholdKeeps
<1>3. CASE /\ MemberProblem(p) = "none"
           /\ members' = [members EXCEPT ![p] = "assigned"] /\ todo' = todo \ {p}
           /\ UNCHANGED <<phase, auth, passes, clean, discovered, exact, froze, report, outcome>>
  <2>1. Frame
    BY <1>0, <1>3 DEF Frame
  <2>2. /\ UNCHANGED <<Running, Started, Dead>> /\ \A q : Descendant(q)' <=> Descendant(q)
        /\ \A q : IsProtected(q)' <=> IsProtected(q)
    BY <1>0, <2>1, FrameFacts DEF HostInv, HostTypes
  <2>3. /\ members' \in [Proc -> {"none", "pending", "assigned", "exited"}]
        /\ members'[p] = "assigned" /\ \A q \in Proc : q # p => members'[q] = members[q]
    BY <1>0, <1>3 DEF TreeInv, TreeTypes
  <2>4. Opened' = Opened \cup {p} /\ Opened \subseteq Opened'
    BY <1>0, <2>3 DEF Opened
  <2>5. p \in exact /\ (IsProtected(p) => p = Root /\ auth = "protectedTyped")
    BY <1>3 DEF MemberProblem
  <2>6. TreeTypes'
    BY <1>0, <1>3, <2>3 DEF TreeInv, TreeTypes
  <2>7. KnownStarted' /\ AllDescend' /\ EndsAreReal'
    BY <1>0, <1>3, <2>2, <2>3, <2>4 DEF TreeInv, KnownStarted, AllDescend, EndsAreReal
  <2>8. MembershipRead' /\ NobodyPending' /\ EverybodyWaitedFor'
    BY <1>0, <1>3, <2>2 DEF TreeInv, MembershipRead, NobodyPending, EverybodyWaitedFor, Live
  <2>9. CheckedSoFar'
    <3>1. ASSUME NEW q \in exact \ todo' PROVE Checked(q)'
      <4>1. q \in Proc /\ (q = p \/ q \in exact \ todo)
        BY <1>3, <3>1 DEF TreeInv, TreeTypes
      <4>2. q = p \/ Checked(q)
        BY <1>0, <4>1 DEF TreeInv, MembershipProved, CheckedSoFar
      <4> QED
        BY <1>3, <2>2, <2>3, <2>5, <4>1, <4>2 DEF Checked
    <3>2. exact \cup todo' = exact \cup todo
      BY <1>3, <2>5
    <3>3. exact' \subseteq Running' => ChildrenWithin(exact \cup todo)'
      BY <1>0, <1>3, <2>2, <3>2
         DEF TreeInv, MembershipProved, CheckedSoFar, ChildrenWithin
    <3> QED
      BY <1>3, <3>1, <3>3 DEF CheckedSoFar
  <2>10. MembershipProved'
    BY <1>0, <1>3, <2>9 DEF MembershipProved, AllChecked
  <2> QED
    BY <1>0, <1>3, <2>1, <2>4, <2>6, <2>7, <2>8, <2>10, LateKeeps
<1> QED
  BY <1>0, <1>1, <1>2, <1>3 DEF CheckMember

\* All of them have been.
LEMMA MembersCheckedKeeps ==
    ASSUME HostInv, TreeInv, MembersChecked, UNCHANGED <<at, result, seen, probeVars>>
    PROVE  HostInv' /\ TreeInv'
<1>0. /\ phase = "check" /\ phase' = "past" /\ todo = {} /\ {phase, phase'} \subseteq Checking
      /\ todo' = {p \in Opened \ exact : members[p] # "exited"}
      /\ UNCHANGED <<status, parent, name, suspends, inJob, frozen, doomed, auth, members, exact,
                     froze, report, outcome>>
  BY DEF MembersChecked, hostVars, Checking
<1>1. Frame
  BY <1>0 DEF Frame
<1>2. /\ UNCHANGED <<Running, Started, Dead, Opened>> /\ \A q : Descendant(q)' <=> Descendant(q)
      /\ \A q : IsProtected(q)' <=> IsProtected(q)
  BY <1>0, <1>1, FrameFacts DEF HostInv, HostTypes, Opened
<1>3. phase' \in Early \cup Containing \cup {"done"} /\ todo' \subseteq Opened
  BY <1>0, PhasesDiffer
<1>4. TreeTypes' /\ KnownStarted' /\ EndsAreReal' /\ AllDescend'
  BY <1>0, <1>2, <1>3
     DEF TreeInv, TreeTypes, KnownStarted, EndsAreReal, AllDescend, Opened
<1>5. MembershipRead' /\ NobodyPending' /\ EverybodyWaitedFor'
  BY <1>0, <1>2 DEF TreeInv, MembershipRead, NobodyPending, EverybodyWaitedFor, Live
<1>6. /\ \A p \in exact : Checked(p)
      /\ exact \subseteq Running => ChildrenWithin(exact)
  <2>1. exact \ todo = exact /\ exact \cup todo = exact
    BY <1>0
  <2> QED
    BY <1>0, <2>1 DEF TreeInv, MembershipProved, CheckedSoFar
<1>7. AllChecked'
  BY <1>0, <1>2, <1>6 DEF AllChecked, Checked, ChildrenWithin
<1>8. MembershipProved'
  BY <1>0, <1>7 DEF MembershipProved, CheckedSoFar
<1> QED
  BY <1>0, <1>1, <1>2, <1>4, <1>5, <1>8, LateKeeps

\* Whoever is not in the job has ended.
LEMMA CheckPastKeeps ==
    ASSUME HostInv, TreeInv, CheckPast, UNCHANGED <<at, result, seen, probeVars>>
    PROVE  HostInv' /\ TreeInv'
<1>0. /\ phase = "past" /\ phase \in Checking /\ todo \subseteq Proc
      /\ UNCHANGED <<status, parent, name, suspends, inJob, frozen, doomed>>
      /\ DOMAIN report = ReportFields /\ report.state \in {"Complete", "Partial", "Withheld"}
  BY DEF CheckPast, Checking, TreeInv, TreeTypes, ReportFields
<1>1. ASSUME NEW reason, Withhold(reason), UNCHANGED members
      PROVE  HostInv' /\ TreeInv'
  BY <1>0, <1>1, WithholdKeeps
<1>2. CASE /\ todo = {} /\ phase' = "stable"
           /\ UNCHANGED <<budget, auth, todo, members, passes, clean, discovered, exact, froze,
                          report, outcome>>
  <2>1. Frame
    BY <1>0, <1>2 DEF Frame
  <2>2. /\ UNCHANGED <<Running, Started, Dead, Opened>> /\ \A q : Descendant(q)' <=> Descendant(q)
        /\ \A q : IsProtected(q)' <=> IsProtected(q)
    BY <1>0, <1>2, <2>1, FrameFacts DEF HostInv, HostTypes, Opened
  <2>3. phase' \in Early \cup Containing \cup {"done"} /\ phase' \in Checking
    BY <1>2, PhasesDiffer DEF Checking
  <2>4. TreeTypes' /\ KnownStarted' /\ EndsAreReal' /\ AllDescend'
    BY <1>0, <1>2, <2>2, <2>3 DEF TreeInv, TreeTypes, KnownStarted, EndsAreReal, AllDescend
  <2>5. MembershipRead' /\ NobodyPending' /\ EverybodyWaitedFor'
    BY <1>0, <1>2, <2>2 DEF TreeInv, MembershipRead, NobodyPending, EverybodyWaitedFor, Live
  <2>6. AllChecked
    BY DEF TreeInv, MembershipProved
  <2>7. AllChecked'
    BY <1>0, <1>2, <2>2, <2>6 DEF AllChecked, Checked, ChildrenWithin
  <2>8. MembershipProved'
    BY <1>2, <2>7 DEF MembershipProved, CheckedSoFar
  <2> QED
    BY <1>0, <1>2, <2>1, <2>2, <2>3, <2>4, <2>5, <2>8, LateKeeps
<1>3. CASE /\ todo # {} /\ First(todo) \notin Running /\ todo' = todo \ {First(todo)}
           /\ members' = [members EXCEPT ![First(todo)] = "exited"]
           /\ report' = [report EXCEPT !.exited = @ \cup {First(todo)}]
           /\ UNCHANGED <<budget, phase, auth, passes, clean, discovered, exact, froze, outcome>>
  <2>1. Frame
    BY <1>0, <1>3 DEF Frame
  <2>2. /\ UNCHANGED <<Running, Started, Dead>> /\ \A q : Descendant(q)' <=> Descendant(q)
        /\ \A q : IsProtected(q)' <=> IsProtected(q)
    BY <1>0, <2>1, FrameFacts DEF HostInv, HostTypes
  <2>3. PICK p \in todo : p = First(todo)
    BY <1>0, <1>3, FirstOfSet
  <2>4. p \in Dead
    BY <1>3, <2>3 DEF TreeInv, KnownStarted, HostInv, HostTypes, Started, Running, Dead
  <2>5. /\ members' \in [Proc -> {"none", "pending", "assigned", "exited"}]
        /\ members'[p] = "exited" /\ \A q \in Proc : q # p => members'[q] = members[q]
    BY <1>0, <1>3, <2>3 DEF TreeInv, TreeTypes
  <2>6. Opened' = Opened \cup {p} /\ Opened \subseteq Opened'
    BY <1>0, <2>5 DEF Opened
  <2>7. /\ DOMAIN report' = DOMAIN report /\ report'.state \in {"Complete", "Partial", "Withheld"}
        /\ report'.terminated = report.terminated /\ report'.exited = report.exited \cup {p}
    BY <1>0, <1>3, <2>3 DEF ReportFields
  <2>8. TreeTypes'
    BY <1>0, <1>3, <2>5, <2>7 DEF TreeInv, TreeTypes
  <2>9. KnownStarted' /\ AllDescend' /\ EndsAreReal'
    BY <1>0, <1>3, <2>2, <2>3, <2>4, <2>5, <2>6, <2>7
       DEF TreeInv, KnownStarted, AllDescend, EndsAreReal
  <2>10. MembershipRead' /\ NobodyPending' /\ EverybodyWaitedFor'
    BY <1>0, <1>3, <2>2 DEF TreeInv, MembershipRead, NobodyPending, EverybodyWaitedFor, Live
  <2>11. AllChecked
    BY DEF TreeInv, MembershipProved
  <2>12. p \notin exact
    BY <1>0, <2>3, <2>11 DEF AllChecked
  <2>13. AllChecked'
    BY <1>0, <1>3, <2>2, <2>3, <2>5, <2>6, <2>11, <2>12 DEF AllChecked, Checked, ChildrenWithin
  <2>14. MembershipProved'
    BY <1>0, <1>3, <2>13 DEF MembershipProved, CheckedSoFar
  <2> QED
    BY <1>0, <1>3, <2>1, <2>6, <2>8, <2>9, <2>10, <2>14, LateKeeps
<1> QED
  BY <1>1, <1>2, <1>3 DEF CheckPast

\* Reading them a second time.
LEMMA StableMembershipKeeps ==
    ASSUME HostInv, TreeInv, StableMembership, UNCHANGED <<at, result, seen, probeVars>>
    PROVE  HostInv' /\ TreeInv'
<1>0. /\ phase = "stable" /\ phase \in Checking
      /\ UNCHANGED <<status, parent, name, suspends, inJob, frozen, doomed, members>>
  BY DEF StableMembership, Checking
<1>1. ASSUME NEW reason, Withhold(reason)
      PROVE  HostInv' /\ TreeInv'
  BY <1>0, <1>1, WithholdKeeps
<1>2. CASE /\ phase' = "terminate" /\ Live(inJob) = exact
           /\ UNCHANGED <<auth, todo, passes, clean, discovered, exact, froze, report, outcome>>
  <2>1. Frame
    BY <1>0, <1>2 DEF Frame
  <2>2. /\ UNCHANGED <<Running, Started, Dead, Opened, OnlyAssigned>>
        /\ \A q : Descendant(q)' <=> Descendant(q)
        /\ \A q : IsProtected(q)' <=> IsProtected(q)
    BY <1>0, <2>1, FrameFacts DEF HostInv, HostTypes, Opened, OnlyAssigned
  <2>3. phase' \in Early \cup Containing \cup {"done"}
    BY <1>2, PhasesDiffer
  <2>4. TreeTypes' /\ KnownStarted' /\ EndsAreReal' /\ AllDescend'
    BY <1>0, <1>2, <2>2, <2>3 DEF TreeInv, TreeTypes, KnownStarted, EndsAreReal, AllDescend
  <2>5. MembershipRead' /\ EverybodyWaitedFor'
    BY <1>0, <1>2, <2>2 DEF TreeInv, MembershipRead, EverybodyWaitedFor, Live
  <2>6. /\ \A p \in exact : Checked(p)
        /\ ChildrenWithin(exact) /\ \A p \in Opened \ exact : members[p] = "exited"
    BY <1>0, <1>2 DEF TreeInv, MembershipProved, AllChecked, Live
  <2>7. exact = OnlyAssigned
    BY <2>6 DEF Checked, OnlyAssigned, Opened, TreeInv, TreeTypes
  <2>8. MembershipProved' /\ NobodyPending'
    BY <1>0, <1>2, <2>2, <2>6, <2>7
       DEF MembershipProved, CheckedSoFar, AllChecked, Checked, ChildrenWithin, NobodyPending
  <2> QED
    BY <1>0, <1>2, <2>1, <2>2, <2>4, <2>5, <2>8, LateKeeps
<1> QED
  BY <1>1, <1>2 DEF StableMembership

\* The end of the job.
LEMMA TerminateJobKeeps ==
    ASSUME HostInv, TreeInv, TerminateJob, UNCHANGED <<at, result, seen, probeVars>>
    PROVE  HostInv' /\ TreeInv'
<1>0. /\ phase = "terminate"
      /\ UNCHANGED <<status, parent, name, suspends, inJob, frozen, members, auth, exact, froze,
                     report>>
  BY DEF TerminateJob
<1>1. Frame
  BY <1>0 DEF Frame
<1>2. /\ UNCHANGED <<Running, Started, Dead, Opened, OnlyAssigned>>
      /\ \A q : Descendant(q)' <=> Descendant(q)
  BY <1>0, <1>1, FrameFacts DEF HostInv, HostTypes, Opened, OnlyAssigned
<1>3. Live(inJob) \subseteq exact /\ exact = OnlyAssigned
  BY <1>0 DEF TreeInv, MembershipRead, MembershipProved, Checking
<1>4. OnlyAssigned \subseteq Opened /\ Live(inJob) \subseteq Proc
  BY DEF OnlyAssigned, Opened, Live, Running
<1>5. phase \in Containing /\ frozen /\ froze /\ step = "passed" /\ outcome = "none"
  BY <1>0, PhasesDiffer DEF TreeInv, FreezeHolds
<1>6. CASE doomed' = Live(inJob) /\ phase' = "wait" /\ todo' = OnlyAssigned /\ UNCHANGED outcome
  <2>1. phase' \in Early \cup Containing \cup {"done"}
    BY <1>6, PhasesDiffer
  <2>2. todo' \subseteq Proc /\ doomed' \subseteq Proc
    BY <1>4, <1>6 DEF OnlyAssigned
  <2>3. TreeTypes' /\ KnownStarted' /\ EndsAreReal' /\ AllDescend'
    BY <1>0, <1>2, <1>4, <1>6, <2>1, <2>2
       DEF TreeInv, TreeTypes, KnownStarted, EndsAreReal, AllDescend
  <2>4. MembershipRead' /\ MembershipProved'
    BY <1>6 DEF MembershipRead, MembershipProved, CheckedSoFar, AllChecked, Checking
  <2>5. NobodyPending'
    BY <1>0, <1>2 DEF TreeInv, NobodyPending
  <2>6. EverybodyWaitedFor'
    BY <1>0, <1>2, <1>3, <1>6 DEF EverybodyWaitedFor, Live
  <2> QED
    BY <1>0, <1>1, <1>2, <1>6, <2>3, <2>4, <2>5, <2>6, LateKeeps
<1>7. CASE outcome' = "JobTerminateFailed" /\ phase' = "thaw" /\ UNCHANGED <<doomed, todo>>
  <2>1. phase' \in Containing /\ phase' \notin Early
    BY <1>7, PhasesDiffer
  <2>2. TreeTypes' /\ KnownStarted' /\ EndsAreReal' /\ AllDescend' /\ JobKeepsChildren'
    BY <1>0, <1>2, <1>7, <2>1
       DEF TreeInv, TreeTypes, KnownStarted, EndsAreReal, AllDescend, JobKeepsChildren
  <2>3. FreezeHolds' /\ MembershipRead' /\ MembershipProved' /\ NobodyPending'
        /\ EverybodyWaitedFor' /\ EndIsTrue'
    BY <1>0, <1>5, <1>7 DEF FreezeHolds, MembershipRead, MembershipProved, CheckedSoFar, AllChecked,
                    Checking, NobodyPending,
                            EverybodyWaitedFor, EndIsTrue, probeVars
  <2>4. HostInv'
    BY <1>0, <1>1, FrameFacts DEF HostInv, HostTypes
  <2> QED
    BY <1>7, <2>1, <2>2, <2>3, <2>4 DEF TreeInv
<1> QED
  BY <1>6, <1>7 DEF TerminateJob, OnlyAssigned

\* Waiting for one of them.
LEMMA WaitKeeps ==
    ASSUME HostInv, TreeInv, Wait, UNCHANGED <<at, result, seen, probeVars>>
    PROVE  HostInv' /\ TreeInv'
<1>0. /\ phase = "wait" /\ todo # {} /\ todo \subseteq Proc
      /\ UNCHANGED <<status, parent, name, suspends, inJob, frozen, doomed, phase, members, auth,
                     exact, froze, outcome>>
      /\ todo' = todo \ {First(todo)}
      /\ DOMAIN report = ReportFields /\ report.state \in {"Complete", "Partial", "Withheld"}
  BY DEF Wait, TreeInv, TreeTypes, ReportFields
<1>1. PICK p \in todo : p = First(todo)
  BY <1>0, FirstOfSet
<1>2. Frame
  BY <1>0 DEF Frame
<1>3. /\ UNCHANGED <<Running, Started, Dead, Opened, OnlyAssigned>>
      /\ \A q : Descendant(q)' <=> Descendant(q)
  BY <1>0, <1>2, FrameFacts DEF HostInv, HostTypes, Opened, OnlyAssigned
<1>4. \/ p \notin Running /\ report' = [report EXCEPT !.terminated = @ \cup {p}]
      \/ report' = [report EXCEPT !.left = @ \cup {p}]
  BY <1>1 DEF Wait
<1>5. p \notin Running => p \in Dead
  BY <1>1 DEF TreeInv, KnownStarted, HostInv, HostTypes, Started, Running, Dead
<1>6. /\ DOMAIN report' = ReportFields /\ report'.state = report.state
      /\ report'.exited = report.exited
      /\ report.terminated \subseteq report'.terminated /\ report.left \subseteq report'.left
      /\ report'.terminated \subseteq report.terminated \cup Dead
      /\ p \in report'.left \/ p \in Dead
  <2>1. CASE p \notin Running /\ report' = [report EXCEPT !.terminated = @ \cup {p}]
    BY <1>0, <1>5, <2>1 DEF ReportFields
  <2>2. CASE report' = [report EXCEPT !.left = @ \cup {p}]
    BY <1>0, <2>2 DEF ReportFields
  <2> QED
    BY <1>4, <2>1, <2>2
<1>7. TreeTypes' /\ KnownStarted' /\ EndsAreReal' /\ AllDescend'
  BY <1>0, <1>3, <1>6
     DEF TreeInv, TreeTypes, KnownStarted, EndsAreReal, AllDescend, ReportFields
<1>8. MembershipRead' /\ MembershipProved' /\ NobodyPending'
  BY <1>0, <1>3 DEF TreeInv, MembershipRead, MembershipProved, CheckedSoFar, AllChecked, Checking,
                          NobodyPending
<1>9. EverybodyWaitedFor'
  BY <1>0, <1>1, <1>3, <1>6 DEF TreeInv, EverybodyWaitedFor, Live, Running, Dead
<1> QED
  BY <1>0, <1>2, <1>3, <1>7, <1>8, <1>9, LateKeeps

\* What the end of the call has to establish.
LEMMA FinishedKeeps ==
    ASSUME HostInv, TreeInv, Frame, phase \in {"wait", "thaw"}, Finished, UNCHANGED probeVars,
           frozen' \in BOOLEAN, frozen' => froze, DOMAIN report' = ReportFields,
           report'.state \in {"Complete", "Partial", "Withheld"},
           report'.terminated \subseteq report.terminated, report'.exited = report.exited,
           Live(Opened) \subseteq report'.left,
           report'.state = "Complete" /\ report'.left = {} => Live(inJob) = {},
           frozen' => Live(inJob) = {} \/ report'.cleanup = "ThawFailed"
    PROVE  HostInv' /\ TreeInv'
<1>0. /\ phase' = "done" /\ outcome' = IF outcome = "none" THEN "Completed" ELSE outcome
      /\ UNCHANGED <<inJob, doomed, todo, members, exact, froze, Opened>>
  BY DEF Finished, Opened
<1>1. HostInv' /\ UNCHANGED <<Running, Started, Dead>> /\ \A q : Descendant(q)' <=> Descendant(q)
  BY <1>0, FrameFacts DEF HostInv, HostTypes
<1>2. outcome' \in {"Completed", "JobTerminateFailed"}
  BY <1>0, PhasesDiffer DEF TreeInv
<1>3. TreeTypes' /\ KnownStarted' /\ EndsAreReal' /\ AllDescend' /\ JobKeepsChildren'
  BY <1>0, <1>1 DEF TreeInv, TreeTypes, KnownStarted, EndsAreReal, AllDescend, JobKeepsChildren,
                    Frame, ReportFields
<1>4. FreezeHolds' /\ MembershipRead' /\ MembershipProved' /\ NobodyPending' /\ EverybodyWaitedFor'
  BY <1>0, PhasesDiffer DEF FreezeHolds, MembershipRead, MembershipProved, CheckedSoFar, AllChecked,
                    Checking, NobodyPending,
                            EverybodyWaitedFor
<1>5. EndIsTrue'
  BY <1>0, <1>1, <1>2 DEF EndIsTrue, Completed, Live
<1> QED
  BY <1>0, <1>1, <1>2, <1>3, <1>4, <1>5, PhasesDiffer DEF TreeInv, Frame

\* Thawing: the job runs again, or it is said that it does not.
LEMMA ThawedIs ==
    ASSUME NEW r, DOMAIN r = ReportFields, Thawed(r)
    PROVE  /\ frozen' = FALSE \/ (frozen' = frozen /\ report'.cleanup = "ThawFailed")
           /\ DOMAIN report' = ReportFields /\ report'.state = r.state
           /\ report'.terminated = r.terminated /\ report'.exited = r.exited
           /\ report'.left = r.left
<1>1. CASE frozen' = FALSE /\ report' = r
  BY <1>1
<1>2. CASE report' = [r EXCEPT !.cleanup = "ThawFailed"] /\ UNCHANGED frozen
  BY <1>2 DEF ReportFields
<1> QED
  BY <1>1, <1>2 DEF Thawed

\* The report after the job has been terminated: who runs under a handle is left.
LEMMA FinishReportKeeps ==
    ASSUME HostInv, TreeInv, FinishReport, UNCHANGED <<at, result, seen, probeVars>>
    PROVE  HostInv' /\ TreeInv'
<1>0. /\ phase = "wait" /\ todo = {} /\ Finished /\ Frame /\ frozen \in BOOLEAN /\ froze
      /\ DOMAIN report = ReportFields /\ report.state \in {"Complete", "Partial", "Withheld"}
  BY DEF FinishReport, Finished, Frame, TreeInv, TreeTypes, ReportFields, FreezeHolds, HostInv,
         HostTypes
<1>1. Live(inJob) \subseteq report.left
  BY <1>0 DEF TreeInv, EverybodyWaitedFor
<1>2. Live(Opened) \subseteq report.left
  <2>1. ASSUME NEW p \in Opened, p \in Running PROVE p \in report.left
    <3>1. members[p] \in {"assigned", "exited"} /\ p \notin Dead /\ p \in Proc
      BY <1>0, <2>1 DEF TreeInv, NobodyPending, Running, Dead
    <3>2. p \in OnlyAssigned
      BY <3>1 DEF TreeInv, EndsAreReal, OnlyAssigned
    <3> QED
      BY <1>0, <3>1, <3>2 DEF TreeInv, EverybodyWaitedFor
  <2> QED
    BY <2>1 DEF Live
<1>3. CASE report.left = {} /\ NoThaw(report)
  <2>1. Live(inJob) = {}
    BY <1>1, <1>3
  <2> QED
    BY <1>0, <1>2, <1>3, <2>1, FinishedKeeps DEF NoThaw
<1>4. CASE /\ report.left # {}
           /\ Thawed([report EXCEPT !.state = Partly(@), !.cleanup = "SurvivorsThawed"])
  <2> DEFINE r == [report EXCEPT !.state = Partly(@), !.cleanup = "SurvivorsThawed"]
  <2>1. /\ DOMAIN r = ReportFields /\ r.state \in {"Partial", "Withheld"}
        /\ r.terminated = report.terminated /\ r.exited = report.exited /\ r.left = report.left
    BY <1>0 DEF ReportFields, Partly
  <2>2. Thawed(r)
    BY <1>4
  <2> HIDE DEF r
  <2>3. /\ frozen' = FALSE \/ (frozen' = frozen /\ report'.cleanup = "ThawFailed")
        /\ DOMAIN report' = ReportFields /\ report'.state = r.state
        /\ report'.terminated = r.terminated /\ report'.exited = r.exited
        /\ report'.left = r.left
    BY <2>1, <2>2, ThawedIs
  <2> QED
    BY <1>0, <1>2, <2>1, <2>3, FinishedKeeps
<1> QED
  BY <1>3, <1>4 DEF FinishReport

\* The report of a job that was spared or not terminated: whoever is not known to have
\* exited is left.
LEMMA FinishFailedKeeps ==
    ASSUME HostInv, TreeInv, FinishFailed, UNCHANGED <<at, result, seen, probeVars>>
    PROVE  HostInv' /\ TreeInv'
<1> DEFINE r == [report EXCEPT !.state = Partly(@), !.terminated = {},
                               !.left = @ \cup Unconfirmed]
<1>0. /\ phase = "thaw" /\ Finished /\ Frame /\ frozen \in BOOLEAN /\ (frozen => froze)
      /\ DOMAIN report = ReportFields /\ report.state \in {"Complete", "Partial", "Withheld"}
  BY DEF FinishFailed, Finished, Frame, TreeInv, TreeTypes, ReportFields, FreezeHolds, HostInv,
         HostTypes
<1>1. /\ DOMAIN r = ReportFields /\ r.state \in {"Partial", "Withheld"}
      /\ r.terminated = {} /\ r.exited = report.exited
      /\ r.left = report.left \cup Unconfirmed
  BY <1>0 DEF ReportFields, Partly
<1>2. Live(Opened) \subseteq Unconfirmed
  BY DEF Live, Opened, Unconfirmed, TreeInv, EndsAreReal, TreeTypes, Dead, Running
<1>3. IF froze THEN Thawed(r) ELSE NoThaw(r)
  BY DEF FinishFailed
<1> HIDE DEF r
<1>4. CASE froze
  <2>1. Thawed(r)
    BY <1>3, <1>4
  <2>2. /\ frozen' = FALSE \/ (frozen' = frozen /\ report'.cleanup = "ThawFailed")
        /\ DOMAIN report' = ReportFields /\ report'.state = r.state
        /\ report'.terminated = r.terminated /\ report'.exited = r.exited
        /\ report'.left = r.left
    BY <1>1, <2>1, ThawedIs
  <2> QED
    BY <1>0, <1>1, <1>2, <1>4, <2>2, FinishedKeeps
<1>5. CASE ~froze
  <2>1. report' = r /\ UNCHANGED frozen /\ ~frozen
    BY <1>0, <1>3, <1>5 DEF NoThaw
  <2> QED
    BY <1>0, <1>1, <1>2, <2>1, FinishedKeeps
<1> QED
  BY <1>4, <1>5

-----------------------------------------------------------------------------
\* The invariant holds

LEMMA InitEstablishes ==
    ASSUME Init
    PROVE  Inv
<1>1. PICK t \in Start : status = t.status /\ parent = t.parent /\ name = t.name
  BY DEF Init, HostInit
<1>2. /\ status \in [Proc -> {"unborn", "running"}] /\ parent \in [Proc -> Proc \cup {Outsider}]
      /\ \A p, q \in Proc : status[p] = "running" =>
           /\ status[q] = "running" /\ PidOf[p] = PidOf[q] => p = q
           /\ q = parent[p] => status[q] = "running"
      /\ Root \in Proc /\ status[Root] = "running"
  <2>1. t \in [status : [Proc -> {"unborn", "running"}],
               parent : [Proc -> Proc \cup {Outsider}], name : [Proc -> Name]]
    BY WinHostAssumption
  <2>2. \A p, q \in Proc : t.status[p] = "running" =>
          /\ t.status[q] = "running" /\ PidOf[p] = PidOf[q] => p = q
          /\ q = t.parent[p] => t.status[q] = "running"
    BY StartAssumption
  <2>3. Root \in Proc /\ t.status[Root] = "running"
    BY WinKillAssumption
  <2> QED
    BY <1>1, <2>1, <2>2, <2>3
<1>3. HostInv
  <2>1. HostTypes
    BY <1>2 DEF Init, HostInit, HostTypes
  <2>2. OneOfANumber /\ RootThere
    BY <1>2 DEF OneOfANumber, Running, RootThere, Started
  <2>3. ParentsFirst
    BY <1>2 DEF ParentsFirst, Started
  <2> QED
    BY <2>1, <2>2, <2>3 DEF HostInv
<1>4. ProbeInv
  BY DEF Init, ProbeInit, ProbeInv, ProbeTypes, ProbeSteps, EndIsLast, SilenceProves, HelperGone
<1>5. ASSUME at = "open", phase = "none" PROVE SingleInv
  BY <1>5 DEF Init, HostInit, KillInit, SingleInv, Before
<1>6. ASSUME at = "tree", phase \in Beginnings PROVE TreeInv
  <2>1. phase \in Early /\ phase # "pin" /\ phase \notin Containing \cup {"done", "commit"}
    <3>1. phase \in Early
      BY <1>6 DEF Beginnings, Early
    <3>2. phase # "pin" /\ phase # "commit"
      BY <1>6 DEF Beginnings
    <3> QED
      BY <3>1, <3>2, PhasesDiffer
  <2>2. /\ todo = {} /\ members = [p \in Proc |-> "none"] /\ exact = {} /\ froze = FALSE
        /\ report = [state |-> "Complete", issue |-> "none", cleanup |-> "none",
                     terminated |-> {}, exited |-> {}, left |-> {}]
        /\ outcome = "none" /\ inJob = {} /\ frozen = FALSE /\ doomed = {}
        /\ result = "none" /\ seen = "none"
    BY DEF Init, JobInit, HostInit, KillInit
  <2>3. Opened = {}
    BY <2>2 DEF Opened
  <2>4. TreeTypes
    BY <2>1, <2>2 DEF TreeTypes
  <2>5. NothingYet
    BY <2>1, <2>2 DEF NothingYet
  <2>6. KnownStarted /\ AllDescend /\ JobKeepsChildren
    BY <2>2, <2>3 DEF KnownStarted, AllDescend, JobKeepsChildren
  <2>7. EndsAreReal
    BY <2>2 DEF EndsAreReal
  <2>8. FreezeHolds /\ MembershipRead /\ MembershipProved /\ NobodyPending /\ EverybodyWaitedFor
        /\ EndIsTrue
    BY <2>1, <2>2, PhasesDiffer
       DEF FreezeHolds, MembershipRead, MembershipProved, CheckedSoFar, AllChecked, Checking,
           NobodyPending, EverybodyWaitedFor, EndIsTrue, Early
  <2> QED
    BY <2>1, <2>2, <2>4, <2>5, <2>6, <2>7, <2>8, PhasesDiffer DEF TreeInv
<1> QED
  BY <1>3, <1>4, <1>5, <1>6 DEF Init, Inv

\* Every step with the job.
LEMMA JobStepKeeps ==
    ASSUME HostInv, TreeInv, JobStep, UNCHANGED <<at, result, seen, probeVars>>
    PROVE  HostInv' /\ TreeInv'
BY BeforeTheJob, CommitKeeps, AssignKeeps, SweepKeeps, AdoptKeeps, PassOverKeeps, FreezeKeeps,
   ReadMembershipKeeps, ProveMembershipKeeps, CheckMemberKeeps, MembersCheckedKeeps, CheckPastKeeps,
   StableMembershipKeeps, TerminateJobKeeps, WaitKeeps, FinishReportKeeps, FinishFailedKeeps
   DEF JobStep

\* While one process is ended no step of the tree kill is possible.
LEMMA TreePhases ==
    ASSUME TreeKill
    PROVE  phase # "none"
BY DEF TreeKill, PrepareRoot, RecheckPorts, RecheckTree, JobStep, Preview, Pin, Preflight, Commit,
       Assign, Sweep, Adopt, PassOver, Freeze, ReadMembership, ProveMembership, CheckMember,
       MembersChecked, CheckPast, StableMembership, TerminateJob, Wait, FinishReport, FinishFailed

\* Every step of the system keeps the invariant.
LEMMA StepKeeps ==
    ASSUME "stall" \notin Disturbances, Inv, [Next]_vars
    PROVE  Inv'
<1>1. CASE SingleKill
  <2>1. at # "tree" /\ SingleInv /\ HostInv /\ ProbeInv
    BY <1>1 DEF SingleKill, Inv
  <2>2. HostInv' /\ at' # "tree" /\ SingleInv'
    BY <1>1, <2>1, SingleKeeps
  <2>3. UNCHANGED <<probeVars, suspends>>
    BY <1>1 DEF SingleKill, KillStep, HostUnchanged, Open, CheckEvidence, AskBefore, Terminate,
                AskAfter, AwaitExit, Observe
  <2> QED
    BY <2>1, <2>2, <2>3, ProbeRests DEF Inv
<1>2. CASE TreeKill
  <2>1. UNCHANGED <<at, result, seen>> /\ HostInv /\ ProbeInv
    BY <1>2 DEF TreeKill, PrepareRoot, Inv
  <2>2. at = "tree"
    BY <1>2, TreePhases DEF Inv, SingleInv
  <2>3. TreeInv
    BY <2>2 DEF Inv
  <2>4. CASE Preflight
    BY <2>1, <2>2, <2>3, <2>4, PreflightKeeps DEF Inv
  <2>5. CASE (PrepareRoot \/ RecheckPorts \/ RecheckTree \/ JobStep) /\ UNCHANGED probeVars
    <3>1. HostInv' /\ TreeInv'
      BY <2>1, <2>3, <2>5, BeforeTheJob, JobStepKeeps
    <3>2. UNCHANGED suspends
      BY <2>5 DEF PrepareRoot, RecheckPorts, RecheckTree, ReadOnce, HostUnchanged, JobStep, Preview,
                  Pin, Commit, Assign, Sweep, Adopt, PassOver, Freeze, ReadMembership,
                  ProveMembership, CheckMember, MembersChecked, CheckPast, StableMembership,
                  TerminateJob, Wait, FinishReport, FinishFailed, Finished, hostVars
    <3> QED
      BY <2>1, <2>2, <2>5, <3>1, <3>2, ProbeRests DEF Inv
  <2> QED
    BY <1>2, <2>4, <2>5 DEF TreeKill
<1>3. CASE Host
  <2>1. HostInv /\ ProbeInv /\ UNCHANGED <<killVars, jobVars, probeVars>> /\ HostStep(Held)
        /\ phase # "done"
    BY <1>3 DEF Host, Inv, Over
  <2>2. HostInv' /\ HostMoves
    BY <2>1, HostKeeps
  <2>3. ProbeInv'
    BY <2>1, <2>2, ProbeRests DEF HostMoves
  <2>4. UNCHANGED at
    BY <2>1 DEF killVars
  <2>5. at # "tree" => SingleInv'
    BY <2>1, <2>2, HostKeepsSingle DEF Inv
  <2>6. at = "tree" => TreeInv'
    BY <2>1, <2>2, HostKeepsTree DEF Inv
  <2> QED
    BY <2>2, <2>3, <2>4, <2>5, <2>6 DEF Inv
<1>4. CASE UNCHANGED vars
  <2>1. UNCHANGED <<status, parent, name, inJob, frozen, suspends, doomed, at, auth, handle, result,
                    seen, phase, todo, members, exact, froze, report, outcome, step, helper, events>>
    BY <1>4 DEF vars, hostVars, killVars, jobVars, probeVars
  <2>2. HostInv' /\ ProbeInv'
    BY <2>1, ProbeRests
       DEF Inv, HostInv, HostTypes, OneOfANumber, ParentsFirst, RootThere, Started, Running,
           ProbeInv, ProbeTypes, EndIsLast, SilenceProves, HelperGone
  <2>3. at # "tree" => SingleInv'
    BY <2>1 DEF Inv, SingleInv, RootTyped, IsProtected, Dead
  <2>4. at = "tree" => TreeInv'
    <3>1. UNCHANGED <<Opened, Running, Started, Dead, OnlyAssigned>>
          /\ \A p : Descendant(p)' <=> Descendant(p)
      BY <2>1 DEF Opened, Running, Started, Dead, OnlyAssigned, Descendant, ClosedUp
    <3>2. at = "tree" => /\ TreeTypes' /\ KnownStarted' /\ EndsAreReal' /\ AllDescend'
                         /\ JobKeepsChildren'
      BY <2>1, <3>1
         DEF Inv, TreeInv, TreeTypes, KnownStarted, EndsAreReal, AllDescend, JobKeepsChildren
    <3>3. at = "tree" => /\ FreezeHolds' /\ MembershipRead' /\ MembershipProved' /\ NobodyPending'
                         /\ EverybodyWaitedFor' /\ EndIsTrue'
      BY <2>1, <3>1
         DEF Inv, TreeInv, FreezeHolds, MembershipRead, MembershipProved, CheckedSoFar, AllChecked,
             Checked, ChildrenWithin, NobodyPending,
             EverybodyWaitedFor, EndIsTrue, Live, Completed, IsProtected
    <3>4. at = "tree" => (phase \in Early => NothingYet)'
      BY <2>1 DEF Inv, TreeInv, NothingYet
    <3> QED
      BY <2>1, <3>2, <3>3, <3>4 DEF Inv, TreeInv
  <2> QED
    BY <2>1, <2>2, <2>3, <2>4 DEF Inv
<1> QED
  BY <1>1, <1>2, <1>3, <1>4 DEF Next, Done

\* So it always holds.
LEMMA InvHolds ==
    ASSUME "stall" \notin Disturbances
    PROVE  Spec => []Inv
<1>1. Init => Inv
  BY InitEstablishes
<1>2. Inv /\ [Next]_vars => Inv'
  BY StepKeeps
<1> QED
  BY <1>1, <1>2, PTL DEF Spec

-----------------------------------------------------------------------------
\* The theorems

\* Nobody is left frozen in silence: at the end of a call the job runs again, or
\* nobody lives in it, or the report says that thawing failed, and nothing is left of
\* the helper (tree/windows.rs 318-376, 1288-1300; freeze_probe.rs 187-201).
THEOREM NobodyStaysFrozen ==
    ASSUME "stall" \notin Disturbances
    PROVE  Spec => []NobodyLeftFrozen
<1>1. Inv => NobodyLeftFrozen
  <2>1. ASSUME Inv, phase = "done", frozen
        PROVE  Live(inJob) = {} \/ report.cleanup = "ThawFailed"
    BY <2>1 DEF Inv, SingleInv, TreeInv, EndIsTrue
  <2>2. ASSUME Inv, ProbeOver PROVE helper # "running"
    BY <2>2 DEF Inv, ProbeInv, HelperGone, ProbeOver
  <2> QED
    BY <2>1, <2>2 DEF NobodyLeftFrozen
<1> QED
  BY <1>1, InvHolds, PTL

\* An exit code of success means what it says.
LEMMA SuccessMeans ==
    ASSUME TreeExit = "Success"
    PROVE  outcome = "Completed" /\ report.state = "Complete" /\ report.left = {}
<1>1. ASSUME NEW reason PROVE ClassOf(reason) # "Success" /\ IssueExit(reason) # "Success"
  BY DEF ClassOf, IssueExit
<1> QED
  BY <1>1 DEF TreeExit, CompletedExit

\* What is said at the end is true, of one process and of a tree: who is said to have
\* exited or to have been terminated does not run, who runs under a handle of kick's
\* is reported as left, success leaves nobody in the job, and a refusal has touched
\* nobody (tree/windows.rs 1252-1326; scoped/report.rs 107-127, 352-437).
THEOREM TheReportIsTrue ==
    ASSUME "stall" \notin Disturbances
    PROVE  Spec => []ReportIsTrue
<1>1. Inv => EndsTheConfirmed
  <2>1. ASSUME Inv, at # "tree" PROVE EndsTheConfirmed
    BY <2>1 DEF Inv, SingleInv, EndsTheConfirmed, RootTyped, Dead, Running
  <2>2. ASSUME Inv, at = "tree" PROVE EndsTheConfirmed
    BY <2>2 DEF Inv, TreeInv, EndsTheConfirmed
  <2> QED
    BY <2>1, <2>2
<1>2. ASSUME Inv, phase = "done"
      PROVE  /\ Completed =>
                  /\ (report.terminated \cup report.exited) \cap Running = {}
                  /\ Live(Opened) \subseteq report.left
                  /\ TreeExit = "Success" =>
                       report.left = {} /\ Live(inJob) = {} /\ outcome = "Completed"
             /\ ~Completed => inJob = {} /\ doomed = {} /\ ~frozen
  <2>1. TreeInv
    BY <1>2 DEF Inv, SingleInv
  <2>2. (report.terminated \cup report.exited) \cap Running = {}
    BY <2>1 DEF TreeInv, EndsAreReal, Dead, Running
  <2>3. Completed => Live(Opened) \subseteq report.left
    BY <1>2, <2>1 DEF TreeInv, EndIsTrue
  <2>4. Completed /\ TreeExit = "Success" =>
          report.left = {} /\ Live(inJob) = {} /\ outcome = "Completed"
    BY <1>2, <2>1, SuccessMeans DEF TreeInv, EndIsTrue
  <2>5. ~Completed => inJob = {} /\ doomed = {} /\ ~frozen
    BY <1>2, <2>1 DEF TreeInv, EndIsTrue
  <2> QED
    BY <2>2, <2>3, <2>4, <2>5
<1>3. Inv => ReportIsTrue
  BY <1>1, <1>2 DEF ReportIsTrue, Completed
<1> QED
  BY <1>3, InvHolds, PTL

\* Terminating the job ends the confirmed tree and nobody else: everybody in it at
\* that moment descends from the confirmed root and is known to kick by a verified
\* handle, nobody in it is protected but a root whose name was typed, whoever a process
\* of the job has started and still runs is in the job, and freezing a job was seen to
\* stop it (tree/windows.rs 1-8, 920-924, 1303-1305, 1609-1612).
THEOREM TheJobIsTheConfirmedTree ==
    ASSUME "stall" \notin Disturbances
    PROVE  Spec => JobIsTheConfirmedTree
<1> DEFINE Ended == /\ \A p \in doomed' : /\ Descends(p, Root) /\ p \in Opened
                                          /\ IsProtected(p) => p = Root /\ auth = "protectedTyped"
                    /\ \A p \in Running : parent[p] \in doomed' => p \in doomed'
                    /\ suspends
<1>1. ASSUME Inv, TerminateJob, doomed' # doomed PROVE Ended
  <2>1. phase = "terminate" /\ doomed' = Live(inJob)
    BY <1>1 DEF TerminateJob
  <2>2. TreeInv /\ HostInv /\ ProbeInv
    BY <1>1, <2>1 DEF Inv, SingleInv
  <2>3. Live(inJob) \subseteq exact /\ exact \subseteq inJob /\ exact = OnlyAssigned
        /\ (\A p \in exact : IsProtected(p) => p = Root /\ auth = "protectedTyped")
        /\ (\A p \in Running : parent[p] \in exact => p \in exact)
    BY <2>1, <2>2 DEF TreeInv, MembershipRead, MembershipProved, ChildrenWithin, Checking
  <2>4. ASSUME NEW p \in doomed'
        PROVE  /\ Descends(p, Root) /\ p \in Opened
               /\ IsProtected(p) => p = Root /\ auth = "protectedTyped"
    <3>1. p \in exact /\ p \in inJob /\ p \in Proc /\ p \in Opened
      BY <2>1, <2>3 DEF Live, OnlyAssigned, Opened
    <3>2. Descends(p, Root)
      BY <2>2, <3>1, DescendantDescends DEF TreeInv, AllDescend, HostInv, HostTypes
    <3> QED
      BY <2>3, <3>1, <3>2
  <2>5. \A p \in Running : parent[p] \in doomed' => p \in doomed'
    BY <2>1, <2>3 DEF Live
  <2>6. suspends
    BY <2>1, <2>2, PhasesDiffer DEF TreeInv, FreezeHolds, ProbeInv, SilenceProves
  <2> QED
    BY <2>4, <2>5, <2>6
<1>2. ASSUME Inv, [Next]_vars, at = "tree", doomed' # doomed PROVE TerminateJob
  BY <1>2
     DEF Next, vars, SingleKill, Host, HostStep, Spawn, Arrive, Exit, Die, Done, hostVars, TreeKill,
         PrepareRoot, RecheckPorts, RecheckTree, ReadOnce, JobStep, Preview, Pin, Preflight,
         ProbeStep, Commit, Assign, Sweep, Adopt, PassOver, Freeze, ReadMembership,
         ProveMembership, CheckMember, MembersChecked, CheckPast, StableMembership, Wait,
         FinishReport, FinishFailed, Finished
<1>3. Inv /\ [Next]_vars => [at = "tree" /\ doomed' # doomed => Ended]_<<doomed>>
  BY <1>1, <1>2
<1>4. Spec => [][at = "tree" /\ doomed' # doomed => Ended]_<<doomed>>
  <2> HIDE DEF Ended
  <2> QED
    BY <1>3, InvHolds, PTL DEF Spec
<1> QED
  BY <1>4 DEF JobIsTheConfirmedTree
=============================================================================
