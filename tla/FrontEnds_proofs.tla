-------------------------- MODULE FrontEnds_proofs --------------------------
(***************************************************************************)
(* What kick's two front ends guarantee, the commands and the terminal       *)
(* application, for every set of processes and sockets, every command line,  *)
(* every fault and every moment a signal may come.                          *)
(*                                                                         *)
(* The commands: whom a batch signals and what it answers for, that the    *)
(* report after a kill speaks of this world, that a scoped kill goes to the*)
(* process that was confirmed, and that why's verdicts hold.  The terminal:*)
(* how a session ends, whom a confirmed kill reaches, and what is shown.   *)
(* They share a host and the kill targets (module KillTargets), and nothing*)
(* else: Spec is the command line and TerminalSpec the terminal.           *)
(*                                                                         *)
(* A number may change hands at any time, so everything is followed by the   *)
(* process and not by its number.                                          *)
(***************************************************************************)
EXTENDS CommandLine, TerminalSession, Kernel_proofs

-----------------------------------------------------------------------------
\* The world

WorldInv == KernelTypeOK /\ OneHolder

Started == {p \in Proc : status[p] # "unborn"}
\* It has been alive and is not any more.
Ended == {p \in Proc : status[p] \notin Live \cup {"unborn"}}

\* Nobody's birth is undone, and nobody comes back.
LifeGoesOn == Started \subseteq Started' /\ Ended \subseteq Ended'

\* A supervisor's replacement is one process more and one less.
LEMMA RespawnKeeps ==
    ASSUME WorldInv, NEW p \in Proc, NEW q \in Proc, Respawn(p, q)
    PROVE  WorldInv' /\ LifeGoesOn
<1> USE KernelAssumption DEF WorldInv, KernelTypeOK, Status
<1>1. p # q /\ status[p] \in Live /\ status[q] = "unborn" /\ Live \subseteq Present
  BY DEF Respawn, Live, Active, Present
<1>2. \A r \in Proc : status'[r] = CASE r = p -> "dead" [] r = q -> "running"
           [] OTHER -> IF parent[r] = p /\ status[r] = "zombie" THEN "dead" ELSE status[r]
  BY DEF Respawn
<1>3. KernelTypeOK'
  <2>1. /\ status' \in [Proc -> Status] /\ parent' \in [Proc -> Proc \cup Outside]
        /\ pgrp' \in [Proc -> Group] /\ name' \in [Proc -> Name]
        /\ pending' \in [Proc -> SUBSET {"TERM", "KILL"}]
    BY DEF Respawn
  <2>2. meddled' \subseteq Proc /\ budget' \in 0..MaxDisturbances
    BY DEF Respawn, Disturb
  <2> QED
    BY <2>1, <2>2
<1>4. \A r \in Proc : status[r] \in Present /\ PidOf[r] = PidOf[q] => r = p
  <2> SUFFICES ASSUME NEW r \in Proc, status[r] \in Present, PidOf[r] = PidOf[q] PROVE r = p
    OBVIOUS
  <2>1. Occupant(PidOf[q]) = r
    BY OccupantIs DEF Has
  <2> QED
    BY <2>1 DEF Respawn
<1>5. OneHolder'
  BY <1>1, <1>2, <1>4 DEF OneHolder, Present, Live, Active
<1>6. LifeGoesOn
  BY <1>1, <1>2 DEF LifeGoesOn, Started, Ended, Live, Active
<1> QED
  BY <1>3, <1>5, <1>6

\* Every step of the world leaves the table in order.
LEMMA WorldKeeps ==
    ASSUME WorldInv, World
    PROVE  WorldInv' /\ LifeGoesOn
<1>1. CASE KernelStep
  <2>1. KernelTypeOK' /\ OneHolder' /\ Ages
    BY <1>1, KernelStepType, KernelStepIdentity DEF WorldInv
  <2>2. \A p \in Proc : status'[p] \in Live => status[p] \in Live \cup {"unborn"}
    BY <1>1, KernelStepRests DEF WorldInv, RestsOn
  <2> QED
    BY <2>1, <2>2 DEF WorldInv, LifeGoesOn, Started, Ended, Ages
<1>2. CASE Unmoved /\ budget > 0 /\ budget' = budget - 1
  <2>1. budget' \in 0..MaxDisturbances
    BY <1>2, KernelAssumption DEF WorldInv, KernelTypeOK
  <2>2. KernelTypeOK'
    BY <1>2, <2>1 DEF WorldInv, KernelTypeOK, Unmoved
  <2> QED
    BY <1>2, <2>2 DEF WorldInv, OneHolder, LifeGoesOn, Started, Ended, Unmoved
<1>3. CASE \E p, q \in Proc : Respawn(p, q)
  BY <1>3, RespawnKeeps
<1> QED
  BY <1>1, <1>2, <1>3 DEF World, WorldStep, Open, Close, Pass, Expire, Disturb

\* What a command does to the world: it may queue signals, and no more.
WorldStays == UNCHANGED <<status, parent, pgrp, name, meddled, holds>>

LEMMA StaysKeeps ==
    ASSUME WorldInv, WorldStays, budget' = budget \/ (budget > 0 /\ budget' = budget - 1),
           pending' = pending \/ \E who : pending' =
               [p \in Proc |-> IF p \in who THEN pending[p] \cup {Signal} ELSE pending[p]]
    PROVE  WorldInv' /\ LifeGoesOn /\ UNCHANGED <<Started, Ended, ShownEndpoints>>
<1>1. Signal \in {"TERM", "KILL"}
  BY DEF Signal
<1>2. pending' \in [Proc -> SUBSET {"TERM", "KILL"}]
  BY <1>1 DEF WorldInv, KernelTypeOK
<1>3. budget' \in 0..MaxDisturbances
  BY KernelAssumption DEF WorldInv, KernelTypeOK
<1>4. KernelTypeOK'
  BY <1>2, <1>3 DEF WorldInv, KernelTypeOK, WorldStays
<1>5. OneHolder' /\ UNCHANGED <<Started, Ended>>
  BY DEF WorldInv, OneHolder, WorldStays, Started, Ended
<1>6. UNCHANGED ShownEndpoints
  BY DEF WorldStays, ShownEndpoints, Exists
<1> QED
  BY <1>4, <1>5, <1>6 DEF WorldInv, LifeGoesOn

-----------------------------------------------------------------------------
\* The settle loop

\* Who is said to have exited has ended; who had ended when a round began is asked
\* about in it, and then is not said to run unless the asking failed; and a port
\* that somebody has is remembered as taken.
SettleInv ==
    /\ unasked \subseteq awaited /\ awaited \cup exited \subseteq Started
    /\ exited \cup deadBefore \subseteq Ended
    /\ deadBefore \cap awaited \subseteq unasked \cup unsure
    /\ settling = "exits" => unasked # {}
    /\ settling \in {"ports", "pause", "settled"} => unasked = {}
    /\ ShownEndpoints \cap wanted \subseteq busy
    /\ portsStatus # "StillVisible" => visible = {}
    /\ settling \in {"pause", "settled"} =>
          visible \subseteq busy /\ (portsStatus = "StillVisible" => visible # {})

-----------------------------------------------------------------------------
\* The batch

Planning == {"dispatch", "batch", "batchPrompt"}
Batching == {"batchPrompt", "prepare", "fresh", "deliver", "batchSettle"}

\* A plan lists a process once, none that is protected, and answers every selector
\* with a target that has, or polls as well, each of the selector's ports.
Answers(target, sel) ==
    LET named == ResolvedTarget(rows, sel)
    IN  target.target.pid = named.pid /\ named.endpoints \subseteq target.target.endpoints \cup target.extra
PlanIsGood ==
    /\ Len(plan) \in Nat \ {0} /\ DOMAIN plan = 1..Len(plan)
    /\ \A i, j \in DOMAIN plan : plan[i].target.pid = plan[j].target.pid => i = j
    /\ \A i \in DOMAIN plan : ~plan[i].target.protected
    /\ \A j \in DOMAIN invocation.selectors :
          \E i \in DOMAIN plan : Answers(plan[i], invocation.selectors[j])

\* What is asked is something, and the command that plans it is a kill.
AskedSomething ==
    /\ step = "dispatch" => invocation \in Invocations
    /\ step = "batch" => invocation.selectors \in Seq(Selector) \ {<<>>}

\* Handles and outcomes are taken one by one, and a handle pins a process that has
\* the number that was planned.
PinsAreOf ==
    /\ pins \in Seq(Proc \cup {NoProc}) /\ outcomes \in Seq(Outcomes)
    /\ Len(pins) = Len(outcomes)
    /\ step \in Planning \/ step \notin Batching \cup {"done", "died"} => outcomes = <<>>
    /\ step = "prepare" => Len(pins) < Len(plan)
    /\ step \in {"fresh", "deliver", "batchSettle"} => outcomes # <<>>
    /\ outcomes # <<>> /\ step # "prepare" => Len(pins) = Len(plan)
    /\ outcomes # <<>> \/ step \in Batching => PlanIsGood
    /\ \A i \in DOMAIN pins : pins[i] # NoProc =>
          pins[i] \in Started /\ PidOf[pins[i]] = plan[i].target.pid

\* Signals are counted for the targets they were delivered to, each of which the
\* fresh snapshot shows with the ports that were confirmed.
SignalsAreOf ==
    /\ signals \in [Proc -> Nat]
    /\ outcomes # <<>> \/ step \notin {"settle", "done"} =>
          {p \in Proc : signals[p] > 0} = {pins[i] : i \in Delivered}
    /\ step = "deliver" => at \in DOMAIN plan /\ outcomes[at] = "none"
    /\ step \in {"deliver", "batchSettle"} => fresh.taken
    /\ step \in Planning \cup {"prepare", "fresh"} => fresh = NoView /\ Delivered = {}
    /\ fresh.taken => \A i \in Delivered :
          plan[i].target.endpoints \subseteq ResolvedTarget(fresh, plan[i].by).endpoints

\* The ports looked at are those of the targets that got the signal.
ShownTo(i) == ResolvedTarget(fresh, plan[i].by).endpoints \cup plan[i].extra
Polled == \A i \in Delivered : ShownTo(i) \subseteq wanted

ReportFollows ==
    /\ step \in Planning \cup {"prepare", "fresh", "deliver"} => settling = "idle"
    /\ step \notin {"settle", "done"} => exit = "none"
    /\ step = "batchSettle" /\ settling # "idle" => Polled
    /\ step = "done" /\ outcomes # <<>> /\ fresh.taken =>
          Polled /\ (exit = "Success" <=> Delivered = DOMAIN plan)

BatchInv == AskedSomething /\ PinsAreOf /\ SignalsAreOf /\ ReportFollows

IInv == WorldInv /\ SettleInv /\ BatchInv

-----------------------------------------------------------------------------
\* What the settle loop finds

\* A process that has its number and lives is seen to live by its number: who is
\* seen to have exited has.
LEMMA ExitIsReal ==
    ASSUME WorldInv, NEW p \in Started, HasExited(p)
    PROVE  p \in Ended
<1>1. CASE Alive(p)
  <2>1. Has(PidOf[p], p)
    BY <1>1 DEF Alive, Has, Present
  <2>2. Occupant(PidOf[p]) = p
    BY <1>1, <2>1, OccupantIs DEF Alive, WorldInv
  <2> QED
    BY <1>1, <2>2 DEF HasExited
<1>2. CASE ~Alive(p)
  BY <1>2 DEF Alive, Started, Ended
<1> QED
  BY <1>1, <1>2

LEMMA EndIsSeen ==
    ASSUME NEW p \in Ended
    PROVE  HasExited(p)
BY DEF HasExited, Ended, Alive

\* The process asked about next is one that was not asked about yet.
LEMMA FirstIsUnasked ==
    ASSUME unasked \subseteq Proc, unasked # {}
    PROVE  FirstUnasked \in unasked
<1> DEFINE numbers == {PidOf[p] : p \in unasked}
<1>1. \A p \in unasked : PidOf[p] \in Nat
  BY KernelAssumption
<1>2. \E n \in numbers : \A m \in numbers : n <= m
  <2>1. numbers # {} /\ \A m \in numbers : m \in Nat
    BY <1>1
  <2> HIDE DEF numbers
  <2> QED
    BY <2>1, NatMin
<1>3. \E p \in unasked : \A q \in unasked : PidOf[p] <= PidOf[q]
  BY <1>2
<1> QED
  BY <1>3 DEF FirstUnasked

\* The loop begins, on processes that have been alive.
LEMMA SettleBegins ==
    ASSUME NEW ids \in SUBSET Started, NEW ports, Settle(ids, ports),
           LifeGoesOn, UNCHANGED ShownEndpoints
    PROVE  SettleInv'
<1>1. {p \in ids : ~Alive(p)} \subseteq Ended
  BY DEF Started, Ended, Alive
<1> QED
  BY <1>1 DEF SettleInv, Settle, BeginRound, LifeGoesOn

\* It stays as it is while the command does something else.
LEMMA SettleRests ==
    ASSUME SettleInv, UNCHANGED settleVars, LifeGoesOn, UNCHANGED ShownEndpoints
    PROVE  SettleInv'
BY DEF SettleInv, settleVars, reportVars, LifeGoesOn

\* The world goes on while it runs.
LEMMA WorldSettles ==
    ASSUME SettleInv, World, LifeGoesOn
    PROVE  SettleInv'
BY DEF SettleInv, World, Watched, reportVars, LifeGoesOn

LEMMA AskKeeps ==
    ASSUME WorldInv, SettleInv, ObserveExit
    PROVE  WorldInv' /\ SettleInv' /\ LifeGoesOn
<1> DEFINE p == FirstUnasked
<1>1. unasked \subseteq Proc /\ p \in unasked /\ p \in Started
  <2>1. unasked \subseteq Proc /\ unasked # {}
    BY DEF ObserveExit, SettleInv, Started
  <2> QED
    BY <2>1, FirstIsUnasked DEF SettleInv
<1>2. WorldInv' /\ LifeGoesOn /\ UNCHANGED <<Started, Ended, ShownEndpoints>>
  BY StaysKeeps DEF ObserveExit, WorldStays
<1>3. \/ /\ p \in Ended
         /\ awaited' = awaited \ {p} /\ exited' = exited \cup {p} /\ unsure' = unsure \ {p}
      \/ /\ p \notin Ended /\ awaited' = awaited /\ exited' = exited /\ unsure' = unsure \ {p}
      \/ awaited' = awaited /\ exited' = exited /\ unsure' = unsure \cup {p}
  BY <1>1, ExitIsReal, EndIsSeen DEF ObserveExit
<1>4. /\ unasked' = unasked \ {p}
      /\ settling' = IF unasked' # {} THEN "exits" ELSE AfterExits
      /\ UNCHANGED <<wanted, portsStatus, visible, deadBefore, busy>>
  BY DEF ObserveExit
<1>5. AfterExits \in {"ports", "pause"} /\ (AfterExits = "pause" => portsStatus # "StillVisible")
  BY DEF AfterExits
<1> HIDE DEF p
<1>6. SettleInv'
  BY <1>1, <1>2, <1>3, <1>4, <1>5 DEF SettleInv
<1> QED
  BY <1>2, <1>6

LEMMA SettleStepKeeps ==
    ASSUME WorldInv, SettleInv, SettleStep
    PROVE  WorldInv' /\ SettleInv' /\ LifeGoesOn
<1>1. CASE ObserveExit
  BY <1>1, AskKeeps
<1>2. CASE PollPorts
  <2>1. WorldInv' /\ LifeGoesOn /\ UNCHANGED <<Started, Ended, ShownEndpoints>>
    BY <1>2, StaysKeeps DEF PollPorts, WorldStays
  <2>2. SettleInv'
    BY <1>2, <2>1 DEF SettleInv, PollPorts
  <2> QED
    BY <2>1, <2>2
<1>3. CASE Pause
  <2>1. WorldInv' /\ LifeGoesOn /\ UNCHANGED <<Started, Ended, ShownEndpoints>>
    BY <1>3, StaysKeeps DEF Pause, WorldStays, worldVars, kernelVars
  <2>2. {p \in awaited : ~Alive(p)} \subseteq Ended
    BY DEF SettleInv, Started, Ended, Alive
  <2>3. SettleInv'
    BY <1>3, <2>1, <2>2 DEF SettleInv, Pause, BeginRound, AllSettled, reportVars
  <2> QED
    BY <2>1, <2>3
<1> QED
  BY <1>1, <1>2, <1>3 DEF SettleStep

\* The report, once the loop has settled.
LEMMA SettledIsCurrent == SettleInv => ReportIsCurrent
BY DEF SettleInv, ReportIsCurrent, Running, Ended, Alive

-----------------------------------------------------------------------------
\* The plan

\* A function can be defined on the numbers by its first value and steps that count.
Counted(h, K, x, move) ==
    h \in [Nat -> K] /\ h[0] = x /\ \A n \in Nat : h[n + 1] = move[<<n, h[n]>>]

LEMMA CountedRecursion ==
    \A K, x, move : x \in K /\ move \in [Nat \X K -> K] => \E h : Counted(h, K, x, move)
<1> SUFFICES ASSUME NEW K, NEW x \in K, NEW move \in [Nat \X K -> K]
             PROVE  \E h : Counted(h, K, x, move)
  OBVIOUS
<1> DEFINE S == Nat \X K
           step0 == [s \in S |-> <<s[1] + 1, move[s]>>]
<1>1. <<0, x>> \in S /\ step0 \in [S -> S]
  OBVIOUS
<1>2. PICK g : Recurs(g, S, <<0, x>>, step0)
  <2> HIDE DEF S, step0
  <2> QED
    BY <1>1, NatRecursion
<1>3. g \in [Nat -> S] /\ g[0] = <<0, x>> /\ \A n \in Nat : g[n + 1] = step0[g[n]]
  BY <1>2 DEF Recurs
<1>4. \A n \in Nat : g[n] \in S /\ g[n + 1] = <<g[n][1] + 1, move[g[n]]>>
  BY <1>3
<1> DEFINE T == {n \in Nat : g[n][1] = n}
<1>5. T = Nat
  <2>1. 0 \in T
    BY <1>3
  <2>2. ASSUME NEW n \in T PROVE n + 1 \in T
    BY <1>4, <2>2
  <2>3. T \subseteq Nat
    OBVIOUS
  <2> HIDE DEF T
  <2> QED
    BY <2>1, <2>2, <2>3, NatSteps
<1> DEFINE h == [n \in Nat |-> g[n][2]]
<1>6. \A n \in Nat : g[n] = <<n, h[n]>>
  BY <1>4, <1>5
<1>7. h \in [Nat -> K] /\ h[0] = x
  BY <1>3, <1>4
<1>8. ASSUME NEW n \in Nat PROVE h[n + 1] = move[<<n, h[n]>>]
  <2>1. g[n + 1][2] = move[g[n]] /\ n + 1 \in Nat
    BY <1>4
  <2>2. h[n + 1] = g[n + 1][2]
    BY <2>1
  <2> HIDE DEF h
  <2> QED
    BY <1>6, <2>1, <2>2
<1> QED
  BY <1>7, <1>8 DEF Counted

\* What one entry of a plan for these selectors can be.
Entry(asked) ==
    [target : {ResolvedTarget(rows, asked[j]) : j \in DOMAIN asked},
     by     : {asked[j] : j \in DOMAIN asked},
     extra  : SUBSET UNION {ResolvedTarget(rows, asked[j]).endpoints : j \in DOMAIN asked}]

\* A plan that is good for the first n selectors.
GoodFor(known, asked, n) ==
    /\ known \in Seq(Entry(asked))
    /\ \A i \in DOMAIN known : known[i].target = ResolvedTarget(rows, known[i].by)
    /\ \A i, j \in DOMAIN known : known[i].target.pid = known[j].target.pid => i = j
    /\ \A j \in 1..n : \E i \in DOMAIN known : Answers(known[i], asked[j])

LEMMA AddTargetType ==
    ASSUME NEW asked, NEW j \in DOMAIN asked, NEW known \in Seq(Entry(asked))
    PROVE  AddTarget(known, asked[j]) \in Seq(Entry(asked))
<1> DEFINE E == Entry(asked)
           new == Planned(asked[j])
           spot == Position(known, new.target.pid)
           more == ResolvedTarget(rows, asked[j]).endpoints
<1>1. new \in E /\ new.target = ResolvedTarget(rows, asked[j])
  BY DEF Planned, Entry
<1>2. Append(known, new) \in Seq(E)
  BY <1>1
<1>3. \A e \in E : [e EXCEPT !.extra = @ \cup more] \in E
  BY DEF Entry
<1>4. [i \in DOMAIN known |-> IF i \in spot THEN [known[i] EXCEPT !.extra = @ \cup more]
                              ELSE known[i]] \in Seq(E)
  <2>1. Len(known) \in Nat /\ DOMAIN known = 1..Len(known) /\ \A i \in DOMAIN known : known[i] \in E
    <3>1. known \in Seq(E)
      OBVIOUS
    <3> HIDE DEF E
    <3> QED
      BY <3>1
  <2> HIDE DEF E, spot, more
  <2> QED
    BY <1>3, <2>1
<1> QED
  BY <1>1, <1>2, <1>4 DEF AddTarget

LEMMA AddTargetGood ==
    ASSUME NEW asked, NEW n \in Nat, n + 1 \in DOMAIN asked, NEW known, GoodFor(known, asked, n)
    PROVE  GoodFor(AddTarget(known, asked[n + 1]), asked, n + 1)
<1> DEFINE E == Entry(asked)
           sel == asked[n + 1]
           new == Planned(sel)
           pid == new.target.pid
           spot == Position(known, pid)
           named == ResolvedTarget(rows, sel)
           more == new.target.endpoints
           after == AddTarget(known, sel)
<1>1. known \in Seq(E) /\ after \in Seq(E)
  BY AddTargetType DEF GoodFor
<1>2. Len(known) \in Nat /\ DOMAIN known = 1..Len(known) /\ \A i \in DOMAIN known : known[i] \in E
  <2> HIDE DEF E, after
  <2> QED
    BY <1>1
<1>3. new.target = named /\ new.extra = {}
  BY DEF Planned
<1>4. \A j \in 1..(n + 1) : j \in 1..n \/ j = n + 1
  OBVIOUS
<1>5. spot = {i \in DOMAIN known : known[i].target.pid = pid}
  BY DEF Position
<1>6. after = IF spot = {} THEN Append(known, new)
              ELSE [i \in DOMAIN known |->
                      IF i \in spot THEN [known[i] EXCEPT !.extra = @ \cup more] ELSE known[i]]
  BY DEF AddTarget
<1>7. CASE spot = {}
  <2> HIDE DEF E, sel, new, pid, spot, named, more, after
  <2>1. /\ DOMAIN after = 1..(Len(known) + 1) /\ after[Len(known) + 1] = new
        /\ \A i \in DOMAIN known : i \in DOMAIN after /\ after[i] = known[i]
    BY <1>2, <1>6, <1>7
  <2>2. \A i \in DOMAIN after : i \in DOMAIN known \/ i = Len(known) + 1
    BY <1>2, <2>1
  <2>3. \A i \in DOMAIN known : known[i].target.pid # new.target.pid
    BY <1>5, <1>7 DEF pid
  <2>4. \A i, j \in DOMAIN after : after[i].target.pid = after[j].target.pid => i = j
    BY <2>1, <2>2, <2>3 DEF GoodFor
  <2>5. /\ Answers(after[Len(known) + 1], sel)
        /\ after[Len(known) + 1].target = ResolvedTarget(rows, after[Len(known) + 1].by)
    <3>1. new.target = named /\ new.by = sel
      BY DEF new, named, Planned
    <3> QED
      BY <1>3, <2>1, <3>1 DEF Answers, named
  <2>6. \A j \in 1..(n + 1) : \E i \in DOMAIN after : Answers(after[i], asked[j])
    <3>1. Len(known) + 1 \in DOMAIN after
      BY <1>2, <2>1
    <3>2. \A j \in 1..n : \E i \in DOMAIN known : Answers(known[i], asked[j])
      BY DEF GoodFor
    <3> QED
      BY <1>4, <2>1, <2>5, <3>1, <3>2 DEF sel
  <2>7. \A i \in DOMAIN after : after[i].target = ResolvedTarget(rows, after[i].by)
    BY <2>1, <2>2, <2>5 DEF GoodFor
  <2> QED
    BY <1>1, <2>4, <2>6, <2>7 DEF GoodFor, E, after, sel
<1>8. CASE spot # {}
  <2>1. \A i \in DOMAIN known : known[i] \in [target : {ResolvedTarget(rows, asked[j]) : j \in DOMAIN asked},
           by : {asked[j] : j \in DOMAIN asked},
           extra : SUBSET UNION {ResolvedTarget(rows, asked[j]).endpoints : j \in DOMAIN asked}]
    BY <1>2 DEF Entry
  <2> HIDE DEF E, sel, new, pid, spot, named, more, after
  <2>2. DOMAIN after = DOMAIN known
    BY <1>6, <1>8
  <2>3. ASSUME NEW i \in DOMAIN known
        PROVE  /\ after[i].target = known[i].target /\ after[i].by = known[i].by
               /\ after[i].extra = known[i].extra \cup IF i \in spot THEN more ELSE {}
    <3>1. after[i] = IF i \in spot THEN [known[i] EXCEPT !.extra = @ \cup more] ELSE known[i]
      BY <1>6, <1>8
    <3> QED
      BY <2>1, <3>1
  <2>4. \A i, j \in DOMAIN after : after[i].target.pid = after[j].target.pid => i = j
    BY <2>2, <2>3 DEF GoodFor
  <2>5. PICK k \in DOMAIN known : k \in spot /\ known[k].target.pid = pid
    BY <1>5, <1>8
  <2>6. Answers(after[k], sel)
    BY <1>3, <2>3, <2>5 DEF Answers, named, more, pid
  <2>7. \A i \in DOMAIN known, j \in 1..n : Answers(known[i], asked[j]) => Answers(after[i], asked[j])
    BY <2>3 DEF Answers
  <2>8. \A j \in 1..(n + 1) : \E i \in DOMAIN after : Answers(after[i], asked[j])
    <3>1. \A j \in 1..n : \E i \in DOMAIN known : Answers(known[i], asked[j])
      BY DEF GoodFor
    <3> QED
      BY <1>4, <2>2, <2>5, <2>6, <2>7, <3>1 DEF sel
  <2>9. \A i \in DOMAIN after : after[i].target = ResolvedTarget(rows, after[i].by)
    BY <2>2, <2>3 DEF GoodFor
  <2> QED
    BY <1>1, <2>4, <2>8, <2>9 DEF GoodFor, E, after, sel
<1> QED
  BY <1>7, <1>8

\* The plan as it grows, selector by selector.
Growing(asked) ==
    CHOOSE f : f = [n \in 0..Len(asked) |->
        IF n = 0 THEN <<>> ELSE AddTarget(f[n - 1], asked[n])]

LEMMA PlanUnfold ==
    ASSUME NEW asked, Len(asked) \in Nat, DOMAIN asked = 1..Len(asked)
    PROVE  /\ PlanOf(asked) = Growing(asked)[Len(asked)]
           /\ Growing(asked)[0] = <<>>
           /\ \A n \in 1..Len(asked) :
                Growing(asked)[n] = AddTarget(Growing(asked)[n - 1], asked[n])
<1> DEFINE N == Len(asked)
           K == Seq(Entry(asked))
           Line(f, n) == IF n = 0 THEN <<>> ELSE AddTarget(f[n - 1], asked[n])
           move == [s \in Nat \X K |->
                       IF s[1] + 1 \in DOMAIN asked THEN AddTarget(s[2], asked[s[1] + 1]) ELSE s[2]]
<1>1. <<>> \in K /\ move \in [Nat \X K -> K]
  <2>1. <<>> \in K
    OBVIOUS
  <2>2. ASSUME NEW s \in Nat \X K PROVE move[s] \in K
    BY AddTargetType
  <2> HIDE DEF K
  <2> QED
    BY <2>1, <2>2
<1>2. PICK h : Counted(h, K, <<>>, move)
  <2> HIDE DEF K, move
  <2> QED
    BY <1>1, CountedRecursion
<1> DEFINE g == [n \in 0..N |-> h[n]]
<1>3. ASSUME NEW n \in 0..N PROVE h[n] = Line(g, n)
  <2>1. CASE n = 0
    BY <1>2, <2>1 DEF Counted
  <2>2. CASE n # 0
    <3>1. n - 1 \in Nat /\ n - 1 \in 0..N /\ n = (n - 1) + 1 /\ n \in DOMAIN asked
      BY <2>2
    <3> HIDE DEF K, move
    <3>2. h[n] = move[<<n - 1, h[n - 1]>>] /\ g[n - 1] = h[n - 1] /\ h[n - 1] \in K
      BY <1>2, <3>1 DEF Counted
    <3>3. <<n - 1, h[n - 1]>> \in Nat \X K
      BY <3>1, <3>2
    <3>4. move[<<n - 1, h[n - 1]>>] = AddTarget(h[n - 1], asked[n])
      BY <3>1, <3>3 DEF move
    <3> QED
      BY <2>2, <3>2, <3>4
  <2> QED
    BY <2>1, <2>2
<1>4. g = [n \in 0..N |-> Line(g, n)]
  <2> HIDE DEF Line
  <2>1. \A n \in 0..N : g[n] = Line(g, n)
    BY <1>3
  <2> QED
    BY <2>1
<1>5. Growing(asked) = CHOOSE f : f = [n \in 0..N |-> Line(f, n)]
  BY DEF Growing
<1>6. Growing(asked) = [n \in 0..N |-> Line(Growing(asked), n)]
  <2> HIDE DEF Line, g, N
  <2> QED
    BY <1>4, <1>5
<1>7. \A n \in 0..N : Growing(asked)[n] = Line(Growing(asked), n)
  <2> HIDE DEF Line
  <2> QED
    BY <1>6
<1>8. PlanOf(asked) = Growing(asked)[N]
  BY DEF PlanOf, Growing
<1>9. 0 \in 0..N /\ \A n \in 1..N : n \in 0..N /\ n # 0
  OBVIOUS
<1> QED
  BY <1>7, <1>8, <1>9

\* However many selectors there are, the plan made of them is good for all of them.
LEMMA PlanOfGood ==
    ASSUME NEW asked, Len(asked) \in Nat, DOMAIN asked = 1..Len(asked)
    PROVE  GoodFor(PlanOf(asked), asked, Len(asked))
<1> DEFINE N == Len(asked)
           T == {n \in Nat : n <= N => GoodFor(Growing(asked)[n], asked, n)}
<1>1. 0 \in T
  <2>1. GoodFor(<<>>, asked, 0)
    BY DEF GoodFor
  <2> QED
    BY <2>1, PlanUnfold
<1>2. ASSUME NEW n \in T PROVE n + 1 \in T
  <2>1. CASE n + 1 <= N
    <3>1. n \in Nat /\ n <= N /\ n + 1 \in 1..N /\ (n + 1) - 1 = n /\ n + 1 \in DOMAIN asked
      BY <2>1
    <3>2. GoodFor(Growing(asked)[n], asked, n)
      BY <1>2, <3>1
    <3>3. Growing(asked)[n + 1] = AddTarget(Growing(asked)[n], asked[n + 1])
      BY <3>1, PlanUnfold
    <3>4. GoodFor(Growing(asked)[n + 1], asked, n + 1)
      BY <3>1, <3>2, <3>3, AddTargetGood
    <3> QED
      BY <3>1, <3>4
  <2> QED
    BY <1>2, <2>1
<1>3. T = Nat
  <2>1. T \subseteq Nat
    OBVIOUS
  <2> HIDE DEF T
  <2> QED
    BY <1>1, <1>2, <2>1, NatSteps
<1>4. N \in T
  BY <1>3
<1> QED
  BY <1>4, PlanUnfold

\* The selectors that are left when each is asked once, as they are gathered.
Keeping(asked) ==
    CHOOSE f : f = [n \in 0..Len(asked) |->
        IF n = 0 THEN <<>>
        ELSE IF asked[n] \in ToSet(f[n - 1]) THEN f[n - 1] ELSE Append(f[n - 1], asked[n])]

\* Of a command line that asks for something, something is left.
LEMMA DistinctSelectorsAsk ==
    ASSUME invocation.selectors \in Seq(Selector), invocation.selectors # <<>>
    PROVE  DistinctSelectors \in Seq(Selector) /\ DistinctSelectors # <<>>
<1> DEFINE asked == invocation.selectors
           N == Len(asked)
           K == Seq(Selector)
           Keep(k, sel) == IF sel \in ToSet(k) THEN k ELSE Append(k, sel)
           Line(f, n) == IF n = 0 THEN <<>> ELSE Keep(f[n - 1], asked[n])
           move == [s \in Nat \X K |->
                       IF s[1] + 1 \in 1..N THEN Keep(s[2], asked[s[1] + 1]) ELSE s[2]]
<1>1. N \in Nat /\ N > 0 /\ \A n \in 1..N : asked[n] \in Selector
  <2> HIDE DEF asked
  <2>1. asked \in Seq(Selector) /\ asked # <<>>
    BY DEF asked
  <2> QED
    BY <2>1
<1>2. <<>> \in K /\ \A k \in K, sel \in Selector : Keep(k, sel) \in K
  <2> HIDE DEF asked
  <2>1. \A k \in Seq(Selector), sel \in Selector : Append(k, sel) \in Seq(Selector)
    OBVIOUS
  <2> QED
    BY <2>1
<1>3. \A k \in K, sel \in Selector : Keep(k, sel) # <<>>
  <2>1. ASSUME NEW k \in Seq(Selector), NEW sel \in Selector PROVE Keep(k, sel) # <<>>
    <3>1. CASE sel \in ToSet(k)
      <4>1. ToSet(<<>>) = {}
        BY DEF ToSet
      <4> QED
        BY <3>1, <4>1
    <3>2. CASE sel \notin ToSet(k)
      <4>1. Keep(k, sel) = Append(k, sel)
        BY <3>2
      <4> HIDE DEF Keep
      <4>2. Len(Append(k, sel)) = Len(k) + 1 /\ Len(k) \in Nat /\ Len(<<>>) = 0
        OBVIOUS
      <4> QED
        BY <4>1, <4>2
    <3> QED
      BY <3>1, <3>2
  <2> QED
    BY <2>1
<1>4. move \in [Nat \X K -> K]
  <2> HIDE DEF asked, K, Keep, N
  <2> QED
    BY <1>1, <1>2
<1>5. PICK h : Counted(h, K, <<>>, move)
  <2> HIDE DEF K, move
  <2> QED
    BY <1>2, <1>4, CountedRecursion
<1> DEFINE g == [n \in 0..N |-> h[n]]
<1> HIDE DEF asked, K, Keep, N
<1>6. ASSUME NEW n \in 0..N PROVE h[n] = Line(g, n)
  <2>1. CASE n = 0
    BY <1>5, <2>1 DEF Counted
  <2>2. CASE n # 0
    <3>1. n - 1 \in Nat /\ n - 1 \in 0..N /\ n = (n - 1) + 1 /\ n \in 1..N
      BY <1>1, <2>2
    <3> HIDE DEF move
    <3>2. h[n] = move[<<n - 1, h[n - 1]>>] /\ g[n - 1] = h[n - 1] /\ h[n - 1] \in K
      BY <1>5, <3>1 DEF Counted
    <3>3. <<n - 1, h[n - 1]>> \in Nat \X K
      BY <3>1, <3>2
    <3>4. move[<<n - 1, h[n - 1]>>] = Keep(h[n - 1], asked[n])
      BY <3>1, <3>3 DEF move
    <3> QED
      BY <2>2, <3>2, <3>4
  <2> QED
    BY <2>1, <2>2
<1>7. g = [n \in 0..N |-> Line(g, n)]
  <2> HIDE DEF Line
  <2>1. \A n \in 0..N : g[n] = Line(g, n)
    BY <1>6
  <2> QED
    BY <2>1
<1>8. Keeping(asked) = CHOOSE f : f = [n \in 0..N |-> Line(f, n)]
  BY DEF Keeping, N, Keep
<1> DEFINE f == Keeping(asked)
<1>9. f = [n \in 0..N |-> Line(f, n)]
  <2> HIDE DEF Line, g
  <2> QED
    BY <1>7, <1>8
<1>10. DistinctSelectors = f[N]
  BY DEF DistinctSelectors, Keeping, asked, N
<1>11. ASSUME NEW n \in 0..N
       PROVE  f[n] = IF n = 0 THEN <<>> ELSE Keep(f[n - 1], asked[n])
  BY <1>9
<1> HIDE DEF f, move, g
<1> DEFINE T == {n \in Nat : n <= N => f[n] \in K /\ (n # 0 => f[n] # <<>>)}
<1>12. 0 \in T
  BY <1>1, <1>2, <1>11
<1>13. ASSUME NEW n \in T PROVE n + 1 \in T
  <2>1. CASE n + 1 <= N
    <3>1. n <= N /\ n + 1 \in 0..N /\ (n + 1) - 1 = n /\ n + 1 # 0 /\ n + 1 \in 1..N
      BY <1>1, <2>1
    <3>2. f[n + 1] = Keep(f[n], asked[n + 1]) /\ f[n] \in K /\ asked[n + 1] \in Selector
      BY <1>1, <1>11, <1>13, <3>1
    <3> QED
      BY <1>2, <1>3, <3>1, <3>2
  <2> QED
    BY <1>1, <1>13, <2>1
<1>14. T = Nat
  <2>1. T \subseteq Nat
    OBVIOUS
  <2> HIDE DEF T
  <2> QED
    BY <1>12, <1>13, <2>1, NatSteps
<1>15. N \in T
  BY <1>1, <1>14
<1> QED
  BY <1>1, <1>10, <1>15 DEF K

-----------------------------------------------------------------------------
\* The exit code

\* The exit code is success if and only if nothing worse is among the reasons.
LEMMA AggregateSucceeds ==
    ASSUME NEW reasons, reasons \subseteq {ExitOf[o] : o \in Outcomes}
    PROVE  Aggregate(reasons) = "Success" <=> reasons \subseteq {"Success"}
<1> DEFINE T == {i \in DOMAIN Severity : Severity[i] \in reasons} \cup {1}
           low == {8 - i : i \in T}
<1>1. /\ DOMAIN Severity = 1..7 /\ Severity[1] = "Success" /\ Severity[2] = "KillCancelled"
      /\ Severity[3] = "NoMatch" /\ Severity[4] = "ProtectedNeedsConfirmation"
      /\ Severity[5] = "PermissionDenied" /\ Severity[6] = "InvalidArguments"
      /\ Severity[7] = "Failure"
  BY DEF Severity
<1>2. {ExitOf[o] : o \in Outcomes} \subseteq
         {"Success", "PermissionDenied", "NoMatch", "ProtectedNeedsConfirmation", "Failure"}
  BY DEF ExitOf, Outcomes
<1>3. T \subseteq 1..7 /\ 1 \in T
  BY <1>1
<1>4. \E i \in T : \A j \in T : i >= j
  <2>1. low # {} /\ \A m \in low : m \in Nat
    BY <1>3
  <2>2. PICK n \in low : \A m \in low : n <= m
    <3> HIDE DEF low
    <3> QED
      BY <2>1, NatMin
  <2>3. PICK i \in T : n = 8 - i
    OBVIOUS
  <2>4. \A j \in T : 8 - i <= 8 - j
    BY <2>2, <2>3
  <2> HIDE DEF T, low
  <2> QED
    BY <1>3, <2>4
<1>5. PICK top : top = Max(T) /\ top \in T /\ \A j \in T : top >= j
  <2> HIDE DEF T
  <2> QED
    BY <1>4 DEF Max
<1>6. Aggregate(reasons) = Severity[top]
  BY <1>5 DEF Aggregate
<1>7. CASE reasons \subseteq {"Success"}
  <2>1. T = {1}
    BY <1>1, <1>7
  <2> QED
    BY <1>1, <1>5, <1>6, <1>7, <2>1
<1>8. CASE ~(reasons \subseteq {"Success"})
  <2>1. PICK r \in reasons : r # "Success"
    BY <1>8
  <2>2. PICK j \in 3..7 : Severity[j] = r
    <3>1. r \in {"PermissionDenied", "NoMatch", "ProtectedNeedsConfirmation", "Failure"}
      BY <1>2, <2>1
    <3>2. 3 \in 3..7 /\ 4 \in 3..7 /\ 5 \in 3..7 /\ 7 \in 3..7
      OBVIOUS
    <3> QED
      BY <1>1, <3>1, <3>2
  <2>3. j \in T
    BY <1>1, <2>1, <2>2
  <2>4. top \in 3..7
    BY <1>3, <1>5, <2>3
  <2> QED
    BY <1>1, <1>6, <1>8, <2>4
<1> QED
  BY <1>7, <1>8

LEMMA ReportSays ==
    ASSUME outcomes \in Seq(Outcomes)
    PROVE  Aggregate({ExitOf[outcomes[i]] : i \in DOMAIN outcomes}) = "Success"
              <=> Delivered = DOMAIN outcomes
<1>1. \A i \in DOMAIN outcomes : outcomes[i] \in Outcomes
  OBVIOUS
<1>2. \A o \in Outcomes : ExitOf[o] = "Success" <=> o = "Success"
  BY DEF ExitOf, Outcomes
<1> DEFINE reasons == {ExitOf[outcomes[i]] : i \in DOMAIN outcomes}
<1>3. reasons \subseteq {ExitOf[o] : o \in Outcomes}
  BY <1>1
<1>4. reasons \subseteq {"Success"} <=> \A i \in DOMAIN outcomes : outcomes[i] = "Success"
  BY <1>1, <1>2
<1>5. Aggregate(reasons) = "Success" <=> reasons \subseteq {"Success"}
  <2> HIDE DEF reasons
  <2> QED
    BY <1>3, AggregateSucceeds
<1> QED
  BY <1>4, <1>5 DEF Delivered

-----------------------------------------------------------------------------
\* Who leaves the batch alone

\* The settle loop and the world.
LEMMA QuietKeeps ==
    ASSUME BatchInv, UNCHANGED <<invocation, step, rows, exit, signals, wanted, batchVars>>,
           Started \subseteq Started', settling' = "idle" <=> settling = "idle"
    PROVE  BatchInv'
<1> USE DEF batchVars
<1>1. PlanIsGood' <=> PlanIsGood
  BY DEF PlanIsGood, Answers
<1>2. AskedSomething'
  BY DEF BatchInv, AskedSomething
<1>3. PinsAreOf'
  BY <1>1 DEF BatchInv, PinsAreOf
<1>4. UNCHANGED Delivered
  BY DEF Delivered
<1>5. SignalsAreOf'
  BY <1>4 DEF BatchInv, SignalsAreOf
<1>6. Polled' <=> Polled
  BY <1>4 DEF Polled, ShownTo
<1>7. ReportFollows'
  BY <1>4, <1>6 DEF BatchInv, ReportFollows
<1> QED
  BY <1>2, <1>3, <1>5, <1>7 DEF BatchInv

\* The steps of the other commands, once they are dispatched.
OtherCommand ==
    /\ step = "dispatch" \/ step \notin Planning \cup Batching \cup {"died", "done"}
    /\ step' \notin Planning \cup Batching \cup {"died"}
    /\ UNCHANGED batchVars /\ signals' \in [Proc -> Nat]
    /\ \/ step' \in {"settle", "done"}
       \/ step # "settle" /\ UNCHANGED <<signals, exit>>

LEMMA OthersKeep ==
    ASSUME BatchInv, OtherCommand
    PROVE  BatchInv'
<1> USE DEF OtherCommand, batchVars, Planning, Batching
<1>1. outcomes = <<>> /\ pins = <<>> /\ outcomes' = <<>> /\ pins' = <<>>
  <2>1. outcomes = <<>> /\ Len(pins) = Len(outcomes) /\ pins \in Seq(Proc \cup {NoProc})
    BY DEF BatchInv, PinsAreOf
  <2> QED
    BY <2>1
<1>2. AskedSomething'
  BY DEF AskedSomething
<1>3. PinsAreOf'
  BY <1>1 DEF BatchInv, PinsAreOf
<1>4. Delivered = {} /\ Delivered' = {}
  BY <1>1 DEF Delivered
<1>5. SignalsAreOf'
  BY <1>1, <1>4 DEF BatchInv, SignalsAreOf
<1>6. ReportFollows'
  BY <1>1 DEF BatchInv, ReportFollows
<1> QED
  BY <1>2, <1>3, <1>5, <1>6 DEF BatchInv

-----------------------------------------------------------------------------
\* The steps of the batch

LEMMA PlanStays ==
    ASSUME PlanIsGood, UNCHANGED <<plan, rows, invocation>>
    PROVE  PlanIsGood'
BY DEF PlanIsGood, Answers

LEMMA DispatchKeeps ==
    ASSUME BatchInv, Dispatch
    PROVE  BatchInv'
<1>1. step = "dispatch" /\ UNCHANGED <<batchVars, signals, settling, wanted>>
  BY DEF Dispatch, settleVars, reportVars
<1>2. signals \in [Proc -> Nat] /\ exit = "none"
  BY <1>1 DEF BatchInv, SignalsAreOf, ReportFollows
<1>3. CASE step' # "batch"
  <2>1. OtherCommand
    BY <1>1, <1>2, <1>3 DEF Dispatch, OtherCommand, Finish, Planning, Batching
  <2> QED
    BY <2>1, OthersKeep
<1>4. CASE step' = "batch"
  <2>1. invocation' = [invocation EXCEPT !.selectors = DistinctSelectors] /\ UNCHANGED exit
    BY <1>4 DEF Dispatch, Finish
  <2>2. /\ invocation \in Invocation
        /\ invocation.selectors \in Seq(Selector) /\ invocation.selectors # <<>>
    <3>1. invocation \in Invocations /\ invocation.scope \in Kills
      BY <1>1 DEF BatchInv, AskedSomething, Dispatch
    <3>2. invocation \in Invocation /\ invocation.selectors # <<>>
      BY <3>1, KillCommandAssumption
    <3> QED
      BY <3>2 DEF Invocation
  <2>3. invocation'.selectors = DistinctSelectors
    BY <2>1, <2>2 DEF Invocation
  <2>4. AskedSomething'
    BY <1>4, <2>2, <2>3, DistinctSelectorsAsk DEF AskedSomething
  <2>5. outcomes = <<>> /\ pins = <<>> /\ outcomes' = <<>> /\ pins' = <<>> /\ fresh = NoView
    <3>1. outcomes = <<>> /\ Len(pins) = Len(outcomes) /\ pins \in Seq(Proc \cup {NoProc})
      BY <1>1 DEF BatchInv, PinsAreOf, Planning
    <3> QED
      BY <1>1, <3>1 DEF BatchInv, SignalsAreOf, Planning, batchVars
  <2>6. PinsAreOf'
    BY <1>4, <2>5 DEF PinsAreOf, Batching
  <2>7. Delivered = {} /\ Delivered' = {}
    BY <2>5 DEF Delivered
  <2>8. SignalsAreOf'
    BY <1>1, <1>4, <2>5, <2>7 DEF BatchInv, SignalsAreOf, Planning, NoView, batchVars
  <2>9. ReportFollows'
    BY <1>1, <1>2, <1>4, <2>1, <2>5 DEF BatchInv, ReportFollows, Planning, Batching
  <2> QED
    BY <2>4, <2>6, <2>8, <2>9 DEF BatchInv
<1> QED
  BY <1>3, <1>4

\* A batch that is refused has neither handles nor outcomes; one that is not lists
\* nobody who is protected.
LEMMA BatchPlanKeeps ==
    ASSUME BatchInv, BatchPlan
    PROVE  BatchInv'
<1> USE DEF Planning, Batching
<1>1. /\ step = "batch"
      /\ UNCHANGED <<invocation, rows, signals, pins, fresh, outcomes, at, settling, wanted>>
  BY DEF BatchPlan, settleVars, reportVars
<1>2. outcomes = <<>> /\ pins = <<>> /\ outcomes' = <<>> /\ pins' = <<>> /\ fresh = NoView
  <2>1. outcomes = <<>> /\ Len(pins) = Len(outcomes) /\ pins \in Seq(Proc \cup {NoProc})
    BY <1>1 DEF BatchInv, PinsAreOf
  <2> QED
    BY <1>1, <2>1 DEF BatchInv, SignalsAreOf
<1>3. Delivered = {} /\ Delivered' = {}
  BY <1>2 DEF Delivered
<1>4. step' \in {"prepare", "batchPrompt", "done"} /\ (step' # "done" => Refusals = {} /\ exit' = exit)
  BY DEF BatchPlan, Finish
<1>5. ASSUME step' # "done" PROVE PlanIsGood'
  <2> DEFINE asked == invocation.selectors
  <2>1. plan' = PlanOf(asked)
    BY <1>4, <1>5 DEF BatchPlan, Finish
  <2>2. asked \in Seq(Selector) /\ asked # <<>>
    BY <1>1 DEF BatchInv, AskedSomething
  <2> HIDE DEF asked
  <2>3. Len(asked) \in Nat /\ Len(asked) > 0 /\ DOMAIN asked = 1..Len(asked)
    BY <2>2
  <2>4. GoodFor(plan', asked, Len(asked))
    BY <2>1, <2>3, PlanOfGood
  <2>5. \A j \in DOMAIN asked : ~ResolvedTarget(rows, asked[j]).protected
    BY <1>4, <1>5 DEF Refusals, RefusalOf, asked
  <2> DEFINE E == Entry(asked)
  <2>6. \A e \in E : ~e.target.protected
    BY <2>5 DEF Entry
  <2>7. plan' \in Seq(E)
    BY <2>4 DEF GoodFor
  <2>8. Len(plan') \in Nat /\ DOMAIN plan' = 1..Len(plan') /\ \A i \in DOMAIN plan' : plan'[i] \in E
    <3> HIDE DEF E
    <3> QED
      BY <2>7
  <2>9. \A j \in DOMAIN asked : \E i \in DOMAIN plan' : Answers(plan'[i], asked[j])
    BY <2>3, <2>4 DEF GoodFor
  <2>10. Len(plan') # 0
    <3>1. 1 \in DOMAIN asked
      BY <2>3
    <3>2. PICK i \in DOMAIN plan' : TRUE
      BY <2>9, <3>1
    <3> QED
      BY <2>8, <3>2
  <2>11. \A i, j \in DOMAIN plan' : plan'[i].target.pid = plan'[j].target.pid => i = j
    BY <2>4 DEF GoodFor
  <2>12. \A i \in DOMAIN plan' : ~plan'[i].target.protected
    BY <2>6, <2>8
  <2>13. \A j \in DOMAIN invocation'.selectors :
            \E i \in DOMAIN plan' : Answers(plan[i], invocation.selectors[j])'
    BY <1>1, <2>9 DEF Answers, asked
  <2> QED
    BY <2>8, <2>10, <2>11, <2>12, <2>13 DEF PlanIsGood
<1>6. AskedSomething'
  BY <1>4 DEF AskedSomething
<1>7. PinsAreOf'
  <2>1. step' = "prepare" => Len(pins') < Len(plan')
    <3>1. step' = "prepare" => Len(plan') \in Nat \ {0}
      BY <1>5 DEF PlanIsGood
    <3> QED
      BY <1>2, <3>1
  <2> QED
    BY <1>2, <1>4, <1>5, <2>1 DEF PinsAreOf
<1>8. SignalsAreOf'
  BY <1>1, <1>2, <1>3, <1>4 DEF BatchInv, SignalsAreOf, NoView
<1>9. ReportFollows'
  BY <1>1, <1>2, <1>4 DEF BatchInv, ReportFollows
<1> QED
  BY <1>6, <1>7, <1>8, <1>9 DEF BatchInv

LEMMA BatchConfirmKeeps ==
    ASSUME BatchInv, BatchConfirm
    PROVE  BatchInv'
<1> USE DEF Planning, Batching
<1>1. /\ step = "batchPrompt" /\ step' \in {"prepare", "done"}
      /\ step' = "prepare" => exit' = exit
      /\ UNCHANGED <<invocation, rows, signals, plan, pins, fresh, outcomes, at, settling, wanted>>
  BY DEF BatchConfirm, Finish, settleVars, reportVars, batchVars
<1>2. outcomes = <<>> /\ pins = <<>> /\ outcomes' = <<>> /\ pins' = <<>> /\ fresh = NoView
  <2>1. outcomes = <<>> /\ Len(pins) = Len(outcomes) /\ pins \in Seq(Proc \cup {NoProc})
    BY <1>1 DEF BatchInv, PinsAreOf
  <2> QED
    BY <1>1, <2>1 DEF BatchInv, SignalsAreOf
<1>3. Delivered = {} /\ Delivered' = {}
  BY <1>2 DEF Delivered
<1>4. PlanIsGood /\ PlanIsGood'
  <2>1. PlanIsGood
    BY <1>1 DEF BatchInv, PinsAreOf
  <2> QED
    BY <1>1, <2>1, PlanStays
<1>5. AskedSomething'
  BY <1>1 DEF AskedSomething
<1>6. PinsAreOf'
  <2>1. Len(pins') < Len(plan')
    <3>1. Len(plan') \in Nat \ {0}
      BY <1>4 DEF PlanIsGood
    <3> QED
      BY <1>2, <3>1
  <2> QED
    BY <1>1, <1>2, <1>4, <2>1 DEF PinsAreOf
<1>7. SignalsAreOf'
  BY <1>1, <1>2, <1>3 DEF BatchInv, SignalsAreOf, NoView
<1>8. ReportFollows'
  BY <1>1, <1>2 DEF BatchInv, ReportFollows
<1> QED
  BY <1>5, <1>6, <1>7, <1>8 DEF BatchInv

\* A handle is taken of whoever has the planned number now.
LEMMA PrepareKeeps ==
    ASSUME BatchInv, Prepare
    PROVE  BatchInv'
<1> USE DEF Planning, Batching
<1> DEFINE n == Len(pins) + 1
           holder == Occupant(plan[n].target.pid)
           said == IF holder = NoProc THEN "AlreadyExited" ELSE "none"
<1>1. /\ step = "prepare" /\ step' = IF n = Len(plan) THEN "fresh" ELSE "prepare"
      /\ pins' = Append(pins, holder) /\ outcomes' = Append(outcomes, said)
      /\ UNCHANGED <<invocation, rows, exit, signals, plan, fresh, at, settling, wanted, status>>
  BY DEF Prepare, settleVars, reportVars, worldVars, kernelVars
<1>2. /\ pins \in Seq(Proc \cup {NoProc}) /\ outcomes \in Seq(Outcomes)
      /\ Len(pins) = Len(outcomes) /\ Len(pins) \in Nat /\ Len(pins) < Len(plan)
      /\ DOMAIN pins = 1..Len(pins) /\ DOMAIN outcomes = 1..Len(pins)
      /\ PlanIsGood /\ fresh = NoView
  <2>1. /\ pins \in Seq(Proc \cup {NoProc}) /\ outcomes \in Seq(Outcomes)
        /\ Len(pins) = Len(outcomes) /\ Len(pins) < Len(plan) /\ PlanIsGood
    BY <1>1 DEF BatchInv, PinsAreOf
  <2> QED
    BY <1>1, <2>1 DEF BatchInv, SignalsAreOf
<1>3. /\ holder \in Proc \cup {NoProc}
      /\ holder # NoProc => holder \in Started /\ PidOf[holder] = plan[n].target.pid
  BY OccupantHolds DEF Has, Started, Present, Live, Active
<1>4. said \in Outcomes /\ said # "Success"
  BY DEF Outcomes
<1> HIDE DEF n, holder, said
<1>5. n \in Nat /\ n = Len(pins) + 1 /\ Len(plan) \in Nat /\ n <= Len(plan)
  BY <1>2 DEF n, PlanIsGood
<1>6. /\ pins' \in Seq(Proc \cup {NoProc}) /\ Len(pins') = n /\ DOMAIN pins' = 1..n
      /\ pins'[n] = holder /\ \A i \in DOMAIN pins : pins'[i] = pins[i]
  BY <1>1, <1>2, <1>3, <1>5
<1>7. /\ outcomes' \in Seq(Outcomes) /\ Len(outcomes') = n /\ DOMAIN outcomes' = 1..n
      /\ outcomes'[n] = said /\ \A i \in DOMAIN outcomes : outcomes'[i] = outcomes[i]
  BY <1>1, <1>2, <1>4, <1>5
<1>8. \A i \in 1..n : i \in DOMAIN pins \/ i = n
  BY <1>2, <1>5
<1>9. Delivered' = Delivered /\ \A i \in Delivered : i \in DOMAIN pins /\ pins'[i] = pins[i]
  <2>1. Delivered = {i \in DOMAIN outcomes : outcomes[i] = "Success"}
    BY DEF Delivered
  <2>2. Delivered' = {i \in 1..n : outcomes'[i] = "Success"}
    BY <1>7 DEF Delivered
  <2> QED
    BY <1>2, <1>4, <1>5, <1>6, <1>7, <1>8, <2>1, <2>2
<1>10. AskedSomething'
  BY <1>1 DEF AskedSomething
<1>11. PinsAreOf'
  <2>1. UNCHANGED Started
    BY <1>1 DEF Started
  <2>2. \A i \in DOMAIN pins' : pins'[i] # NoProc =>
            pins'[i] \in Started /\ PidOf[pins'[i]] = plan[i].target.pid
    BY <1>3, <1>6, <1>8 DEF BatchInv, PinsAreOf
  <2>3. PlanIsGood'
    BY <1>1, <1>2, PlanStays
  <2>4. outcomes' # <<>>
    BY <1>5, <1>7
  <2>5. step' = "prepare" => n < Len(plan)
    BY <1>1, <1>5
  <2>6. step' # "prepare" => n = Len(plan)
    BY <1>1
  <2>7. step' \in {"prepare", "fresh"}
    BY <1>1
  <2> QED
    BY <1>1, <1>6, <1>7, <2>1, <2>2, <2>3, <2>4, <2>5, <2>6, <2>7 DEF PinsAreOf
<1>12. SignalsAreOf'
  <2>1. {pins'[i] : i \in Delivered'} = {pins[i] : i \in Delivered}
    BY <1>9
  <2> QED
    BY <1>1, <1>2, <2>1 DEF BatchInv, SignalsAreOf, NoView
<1>13. ReportFollows'
  BY <1>1 DEF BatchInv, ReportFollows
<1> QED
  BY <1>10, <1>11, <1>12, <1>13 DEF BatchInv

\* The first target that has no outcome yet.
LEMMA LeastLeft ==
    ASSUME NEW left, left \subseteq Nat, left # {}
    PROVE  Min(left) \in left
<1>1. \E n \in left : \A m \in left : n <= m
  BY NatMin
<1> QED
  BY <1>1 DEF Min

LEMMA FreshKeeps ==
    ASSUME BatchInv, BatchFresh
    PROVE  BatchInv'
<1> USE DEF Planning, Batching
<1>1. /\ step = "fresh"
      /\ UNCHANGED <<invocation, rows, signals, plan, pins, outcomes, settling, wanted, status>>
      /\ \/ /\ fresh' = ViewNow /\ at' = NextPrepared(1) /\ UNCHANGED exit
            /\ step' = IF at' = 0 THEN "batchSettle" ELSE "deliver"
         \/ step' = "done" /\ UNCHANGED <<fresh, at>>
  BY DEF BatchFresh, Unmoved, Finish, settleVars, reportVars
<1>2. PlanIsGood /\ PlanIsGood' /\ outcomes # <<>> /\ Len(pins) = Len(plan) /\ fresh = NoView
  <2>1. PlanIsGood /\ outcomes # <<>> /\ Len(pins) = Len(plan)
    BY <1>1 DEF BatchInv, PinsAreOf
  <2>2. PlanIsGood'
    BY <1>1, <2>1, PlanStays
  <2> QED
    BY <1>1, <2>1, <2>2 DEF BatchInv, SignalsAreOf
<1>3. Delivered = {} /\ Delivered' = {}
  <2>1. UNCHANGED Delivered
    BY <1>1 DEF Delivered
  <2> QED
    BY <1>1, <2>1 DEF BatchInv, SignalsAreOf
<1>4. AskedSomething'
  BY <1>1 DEF AskedSomething
<1>5. PinsAreOf'
  <2>1. UNCHANGED Started
    BY <1>1 DEF Started
  <2>2. step' \in {"deliver", "batchSettle", "done"}
    BY <1>1
  <2> QED
    BY <1>1, <1>2, <2>1, <2>2 DEF BatchInv, PinsAreOf
<1>6. at' # 0 /\ fresh' = ViewNow /\ step' = "deliver" => at' \in DOMAIN plan /\ outcomes[at'] = "none"
  <2> DEFINE left == {i \in DOMAIN plan : i >= 1 /\ outcomes[i] = "none"}
  <2>1. left \subseteq Nat
    BY <1>2 DEF PlanIsGood
  <2>2. left # {} => Min(left) \in left
    <3> HIDE DEF left
    <3> QED
      BY <2>1, LeastLeft
  <2>3. NextPrepared(1) = IF left = {} THEN 0 ELSE Min(left)
    BY DEF NextPrepared
  <2>4. step' = "deliver" => at' = NextPrepared(1)
    BY <1>1
  <2> HIDE DEF left
  <2>5. at' # 0 /\ step' = "deliver" => at' \in left
    BY <2>2, <2>3, <2>4
  <2> QED
    BY <2>5 DEF left
<1>7. SignalsAreOf'
  <2>1. {pins'[i] : i \in Delivered'} = {pins[i] : i \in Delivered}
    BY <1>3
  <2>2. step' \in {"deliver", "batchSettle"} => fresh' = ViewNow /\ fresh'.taken
    BY <1>1 DEF ViewNow
  <2>3. step' = "deliver" => at' # 0
    BY <1>1
  <2>4. step' = "deliver" => at' \in DOMAIN plan' /\ outcomes'[at'] = "none"
    BY <1>1, <1>6, <2>2, <2>3
  <2>5. step' \in {"deliver", "batchSettle", "done"}
    BY <1>1
  <2> QED
    BY <1>1, <1>2, <1>3, <2>1, <2>2, <2>4, <2>5 DEF BatchInv, SignalsAreOf
<1>8. ReportFollows'
  <2>1. step' = "done" => fresh' = NoView
    BY <1>1, <1>2
  <2>2. step' # "done" => exit' = exit
    BY <1>1
  <2> QED
    BY <1>1, <2>1, <2>2 DEF BatchInv, ReportFollows, NoView
<1> QED
  BY <1>4, <1>5, <1>7, <1>8 DEF BatchInv

\* What an outcome does to the list of them.
LEMMA OutcomeIs ==
    ASSUME PinsAreOf, PlanIsGood, step = "deliver", at \in DOMAIN plan, NEW result \in Outcomes,
           Outcome(at, result)
    PROVE  /\ outcomes' \in Seq(Outcomes) /\ Len(outcomes') = Len(outcomes)
           /\ outcomes' # <<>> /\ at \in DOMAIN outcomes
           /\ \A i \in DOMAIN outcomes : outcomes'[i] = IF i = at THEN result ELSE outcomes[i]
           /\ step' \in {"deliver", "batchSettle"}
           /\ step' = "deliver" => at' \in DOMAIN plan /\ outcomes'[at'] = "none"
<1> DEFINE left == {j \in DOMAIN plan : j > at /\ outcomes[j] = "none"}
<1>1. /\ outcomes' = [outcomes EXCEPT ![at] = result]
      /\ IF left = {} THEN step' = "batchSettle" /\ UNCHANGED at
         ELSE at' = Min(left) /\ UNCHANGED step
  BY DEF Outcome
<1>2. outcomes \in Seq(Outcomes) /\ Len(outcomes) = Len(plan) /\ Len(plan) \in Nat \ {0}
      /\ DOMAIN plan = 1..Len(plan) /\ DOMAIN outcomes = 1..Len(plan)
  <2>1. outcomes # <<>>
    BY DEF PinsAreOf
  <2>2. outcomes \in Seq(Outcomes) /\ Len(outcomes) = Len(plan)
    BY <2>1 DEF PinsAreOf
  <2> QED
    BY <2>2 DEF PlanIsGood
<1>3. /\ outcomes' \in Seq(Outcomes) /\ Len(outcomes') = Len(outcomes) /\ outcomes' # <<>>
      /\ \A i \in DOMAIN outcomes : outcomes'[i] = IF i = at THEN result ELSE outcomes[i]
  <2> HIDE DEF left
  <2> QED
    BY <1>1, <1>2
<1>4. left # {} => Min(left) \in left
  <2>1. left \subseteq Nat
    BY <1>2
  <2> HIDE DEF left
  <2> QED
    BY <2>1, LeastLeft
<1>5. step' \in {"deliver", "batchSettle"} /\ (step' = "deliver" => at' \in left)
  <2> HIDE DEF left
  <2> QED
    BY <1>1, <1>4
<1>6. \A j \in left : j \in DOMAIN plan /\ j \in DOMAIN outcomes /\ j # at /\ outcomes[j] = "none"
  BY <1>2
<1> HIDE DEF left
<1> QED
  BY <1>2, <1>3, <1>5, <1>6

\* The next target gets an outcome, and a signal if that is success.
LEMMA OutcomeKeeps ==
    ASSUME BatchInv, step = "deliver", NEW result \in Outcomes, Outcome(at, result),
           UNCHANGED <<invocation, rows, exit, plan, pins, fresh, settling, wanted, Started>>,
           signals' \in [Proc -> Nat],
           {p \in Proc : signals'[p] > 0} =
               {p \in Proc : signals[p] > 0} \cup IF result = "Success" THEN {pins[at]} ELSE {},
           result = "Success" => plan[at].target.endpoints
                                   \subseteq ResolvedTarget(fresh, plan[at].by).endpoints
    PROVE  BatchInv'
<1> USE DEF Planning, Batching
<1>1. /\ PinsAreOf /\ PlanIsGood /\ PlanIsGood' /\ at \in DOMAIN plan /\ outcomes[at] = "none"
      /\ fresh.taken /\ settling = "idle" /\ exit = "none"
  <2>1. PinsAreOf /\ PlanIsGood /\ at \in DOMAIN plan /\ outcomes[at] = "none" /\ fresh.taken
    BY DEF BatchInv, PinsAreOf, SignalsAreOf
  <2> QED
    BY <2>1, PlanStays DEF BatchInv, ReportFollows
<1>2. /\ outcomes' \in Seq(Outcomes) /\ Len(outcomes') = Len(outcomes)
      /\ outcomes' # <<>> /\ at \in DOMAIN outcomes
      /\ \A i \in DOMAIN outcomes : outcomes'[i] = IF i = at THEN result ELSE outcomes[i]
      /\ step' \in {"deliver", "batchSettle"}
      /\ step' = "deliver" => at' \in DOMAIN plan /\ outcomes'[at'] = "none"
  BY <1>1, OutcomeIs
<1>3. DOMAIN outcomes' = DOMAIN outcomes
  <2>1. outcomes \in Seq(Outcomes)
    BY <1>1 DEF PinsAreOf
  <2> QED
    BY <1>2, <2>1
<1>4. Delivered' = Delivered \cup IF result = "Success" THEN {at} ELSE {}
  BY <1>1, <1>2, <1>3 DEF Delivered
<1>5. AskedSomething'
  BY <1>2 DEF AskedSomething
<1>6. PinsAreOf'
  <2>1. /\ pins \in Seq(Proc \cup {NoProc}) /\ Len(pins) = Len(outcomes) /\ Len(pins) = Len(plan)
        /\ \A i \in DOMAIN pins : pins[i] # NoProc =>
              pins[i] \in Started /\ PidOf[pins[i]] = plan[i].target.pid
    <3>1. outcomes # <<>>
      BY DEF BatchInv, PinsAreOf
    <3> QED
      BY <1>1, <3>1 DEF PinsAreOf
  <2> QED
    BY <1>1, <1>2, <2>1 DEF PinsAreOf
<1>7. SignalsAreOf'
  <2>1. {p \in Proc : signals[p] > 0} = {pins[i] : i \in Delivered}
    BY DEF BatchInv, SignalsAreOf
  <2>2. {p \in Proc : signals'[p] > 0} = {pins'[i] : i \in Delivered'}
    BY <1>4, <2>1
  <2>3. \A i \in Delivered : plan[i].target.endpoints
                              \subseteq ResolvedTarget(fresh, plan[i].by).endpoints
    BY <1>1 DEF BatchInv, SignalsAreOf
  <2>4. (\A i \in Delivered : plan[i].target.endpoints
             \subseteq ResolvedTarget(fresh, plan[i].by).endpoints)'
    BY <1>4, <2>3 DEF ResolvedTarget, TargetFrom, RowsOf, RowsOfPid, RowsOfPort, EndpointsOf,
                      TheOwner, OwnersOf, Warned
  <2> QED
    BY <1>1, <1>2, <2>2, <2>4 DEF SignalsAreOf
<1>8. ReportFollows'
  BY <1>1, <1>2 DEF ReportFollows
<1> QED
  BY <1>5, <1>6, <1>7, <1>8 DEF BatchInv

\* A target is signalled only if the fresh snapshot still shows what was confirmed.
LEMMA NoComplaint ==
    ASSUME NEW i, Complaint(i) = "none"
    PROVE  StillMatches(plan[i].target, ResolvedTarget(fresh, plan[i].by))
BY DEF Complaint, Objection

LEMMA ComplaintType ==
    ASSUME NEW i, Complaint(i) # "none"
    PROVE  Complaint(i) \in Outcomes \ {"Success"}
BY DEF Complaint, Objection, Outcomes

\* What one delivery can do.
LEMMA DeliverIs ==
    ASSUME DeliverOne, at \in DOMAIN plan, signals \in [Proc -> Nat]
    PROVE  /\ step = "deliver"
           /\ UNCHANGED <<invocation, rows, exit, plan, pins, fresh, settling, wanted, Started>>
           /\ \/ /\ UNCHANGED signals
                 /\ \E result \in Outcomes \ {"Success"} : Outcome(at, result)
              \/ /\ Outcome(at, "Success") /\ pins[at] \in Proc /\ Deliver(Signal, {pins[at]})
                 /\ Complaint(at) = "none" /\ StillDeliverable(at)
<1>1. step = "deliver" /\ UNCHANGED <<invocation, rows, exit, plan, pins, fresh, settling, wanted, Started>>
  BY DEF DeliverOne, settleVars, reportVars, worldVars, kernelVars, Started, Send, Deliver
<1>2. {"AlreadyExited", "PermissionDenied", "UnknownFailure"} \subseteq Outcomes \ {"Success"}
  BY DEF Outcomes
<1> QED
  BY <1>1, <1>2, ComplaintType DEF DeliverOne, Send, Alive

LEMMA DeliverKeeps ==
    ASSUME BatchInv, DeliverOne
    PROVE  BatchInv'
<1>1. at \in DOMAIN plan /\ signals \in [Proc -> Nat]
  BY DEF BatchInv, SignalsAreOf, DeliverOne
<1>2. /\ step = "deliver"
      /\ UNCHANGED <<invocation, rows, exit, plan, pins, fresh, settling, wanted, Started>>
      /\ \/ /\ UNCHANGED signals
            /\ \E result \in Outcomes \ {"Success"} : Outcome(at, result)
         \/ /\ Outcome(at, "Success") /\ pins[at] \in Proc /\ Deliver(Signal, {pins[at]})
            /\ Complaint(at) = "none" /\ StillDeliverable(at)
  BY <1>1, DeliverIs
<1>3. CASE UNCHANGED signals /\ \E result \in Outcomes \ {"Success"} : Outcome(at, result)
  <2>1. PICK result \in Outcomes \ {"Success"} : Outcome(at, result)
    BY <1>3
  <2> QED
    BY <1>1, <1>2, <1>3, <2>1, OutcomeKeeps
<1>4. CASE /\ Outcome(at, "Success") /\ pins[at] \in Proc /\ Deliver(Signal, {pins[at]})
           /\ Complaint(at) = "none" /\ StillDeliverable(at)
  <2>1. /\ signals' \in [Proc -> Nat]
        /\ \A p \in Proc : signals'[p] > 0 <=> signals[p] > 0 \/ p = pins[at]
    BY <1>1, <1>4 DEF Deliver
  <2>2. {p \in Proc : signals'[p] > 0} = {p \in Proc : signals[p] > 0} \cup {pins[at]}
    BY <1>4, <2>1
  <2>3. plan[at].target.endpoints \subseteq ResolvedTarget(fresh, plan[at].by).endpoints
    BY <1>4, NoComplaint DEF StillMatches
  <2>4. "Success" \in Outcomes
    BY DEF Outcomes
  <2> QED
    BY <1>2, <1>4, <2>1, <2>2, <2>3, <2>4, OutcomeKeeps
<1> QED
  BY <1>2, <1>3, <1>4

\* kick dies of the interruption: the target it was at got no signal.
LEMMA InterruptedKeeps ==
    ASSUME BatchInv, Interrupted
    PROVE  BatchInv'
<1> USE DEF Planning, Batching
<1>1. /\ step = "deliver" /\ step' = "died"
      /\ outcomes' = [outcomes EXCEPT ![at] = "UnknownFailure"]
      /\ UNCHANGED <<invocation, rows, exit, signals, plan, pins, fresh, at, settling, wanted, Started>>
  BY DEF Interrupted, Unmoved, settleVars, reportVars, Started
<1>2. /\ PlanIsGood /\ PlanIsGood' /\ outcomes[at] = "none" /\ exit = "none"
      /\ outcomes \in Seq(Outcomes) /\ outcomes # <<>> /\ Len(pins) = Len(plan)
  <2>1. PlanIsGood /\ outcomes[at] = "none" /\ outcomes \in Seq(Outcomes) /\ outcomes # <<>>
    BY <1>1 DEF BatchInv, PinsAreOf, SignalsAreOf
  <2> QED
    BY <1>1, <2>1, PlanStays DEF BatchInv, PinsAreOf, ReportFollows
<1>3. /\ outcomes' \in Seq(Outcomes) /\ Len(outcomes') = Len(outcomes) /\ outcomes' # <<>>
      /\ DOMAIN outcomes' = DOMAIN outcomes
      /\ \A i \in DOMAIN outcomes :
            outcomes'[i] = IF i = at THEN "UnknownFailure" ELSE outcomes[i]
  <2>1. "UnknownFailure" \in Outcomes
    BY DEF Outcomes
  <2>2. at \in DOMAIN plan /\ Len(outcomes) = Len(plan)
    BY <1>1, <1>2 DEF BatchInv, PinsAreOf, SignalsAreOf
  <2>3. at \in DOMAIN outcomes
    BY <1>2, <2>2 DEF PlanIsGood
  <2> QED
    BY <1>1, <1>2, <2>1, <2>3
<1>4. UNCHANGED Delivered
  BY <1>2, <1>3 DEF Delivered
<1>5. AskedSomething'
  BY <1>1 DEF AskedSomething
<1>6. PinsAreOf'
  BY <1>1, <1>2, <1>3 DEF BatchInv, PinsAreOf
<1>7. SignalsAreOf'
  BY <1>1, <1>4 DEF BatchInv, SignalsAreOf
<1>8. ReportFollows'
  BY <1>1, <1>2 DEF ReportFollows
<1> QED
  BY <1>5, <1>6, <1>7, <1>8 DEF BatchInv

\* The settle loop is given the processes that got the signal, and their ports.
LEMMA BatchSettleKeeps ==
    ASSUME BatchInv, BatchSettle
    PROVE  BatchInv'
<1> USE DEF Planning, Batching
<1>1. /\ step = "batchSettle"
      /\ wanted' = UNION {ShownTo(i) : i \in Delivered}
      /\ UNCHANGED <<step, invocation, rows, exit, signals, batchVars, Started>>
  BY DEF BatchSettle, Settle, ShownTo, worldVars, kernelVars, commandVars, Started
<1>2. PlanIsGood'
  BY <1>1, PlanStays DEF BatchInv, PinsAreOf, batchVars
<1>3. AskedSomething'
  BY <1>1 DEF AskedSomething
<1>4. PinsAreOf'
  BY <1>1, <1>2 DEF BatchInv, PinsAreOf, batchVars
<1>5. UNCHANGED Delivered
  BY <1>1 DEF Delivered, batchVars
<1>6. SignalsAreOf'
  BY <1>1, <1>5 DEF BatchInv, SignalsAreOf, batchVars
<1>7. Polled'
  BY <1>1, <1>5 DEF Polled, ShownTo, batchVars
<1>8. ReportFollows'
  BY <1>1, <1>7 DEF BatchInv, ReportFollows
<1> QED
  BY <1>3, <1>4, <1>6, <1>8 DEF BatchInv

\* The processes the batch waits for have been alive.
LEMMA SignalledAreStarted ==
    ASSUME BatchInv, step = "batchSettle"
    PROVE  {pins[i] : i \in Delivered} \subseteq Started
<1> USE DEF Batching
<1>1. {p \in Proc : signals[p] > 0} = {pins[i] : i \in Delivered}
  BY DEF BatchInv, SignalsAreOf
<1>2. \A i \in Delivered : i \in DOMAIN pins
  <2>1. outcomes \in Seq(Outcomes) /\ pins \in Seq(Proc \cup {NoProc}) /\ Len(pins) = Len(outcomes)
    BY DEF BatchInv, PinsAreOf
  <2> QED
    BY <2>1 DEF Delivered
<1>3. \A i \in Delivered : pins[i] \in Proc
  BY <1>1
<1> QED
  BY <1>2, <1>3, KernelAssumption DEF BatchInv, PinsAreOf

\* The exit code is success if every target got the signal, and only then.
LEMMA BatchReportKeeps ==
    ASSUME BatchInv, BatchReport
    PROVE  BatchInv'
<1> USE DEF Planning, Batching
<1>1. /\ step = "batchSettle" /\ settling = "settled" /\ step' = "done"
      /\ exit' = Aggregate({ExitOf[outcomes[i]] : i \in DOMAIN outcomes})
      /\ UNCHANGED <<invocation, rows, signals, batchVars, settling, wanted, Started>>
  BY DEF BatchReport, Finish, settleVars, reportVars, worldVars, kernelVars, Started
<1>2. PlanIsGood /\ outcomes \in Seq(Outcomes) /\ Len(outcomes) = Len(plan)
  BY <1>1 DEF BatchInv, PinsAreOf
<1>3. PlanIsGood'
  BY <1>1, <1>2, PlanStays DEF batchVars
<1>4. DOMAIN outcomes = DOMAIN plan
  BY <1>2 DEF PlanIsGood
<1>5. exit' = "Success" <=> Delivered = DOMAIN plan
  BY <1>1, <1>2, <1>4, ReportSays
<1>6. UNCHANGED Delivered
  BY <1>1 DEF Delivered, batchVars
<1>7. Polled'
  <2>1. Polled
    BY <1>1 DEF BatchInv, ReportFollows
  <2> QED
    BY <1>1, <1>6, <2>1 DEF Polled, ShownTo, batchVars
<1>8. AskedSomething'
  BY <1>1 DEF AskedSomething
<1>9. PinsAreOf'
  BY <1>1, <1>3 DEF BatchInv, PinsAreOf, batchVars
<1>10. SignalsAreOf'
  BY <1>1, <1>6 DEF BatchInv, SignalsAreOf, batchVars
<1>11. ReportFollows'
  BY <1>1, <1>5, <1>6, <1>7 DEF ReportFollows, batchVars
<1> QED
  BY <1>8, <1>9, <1>10, <1>11 DEF BatchInv

-----------------------------------------------------------------------------
\* The invariant

\* What a step of the batch does to the world and to the settle loop.
LEMMA BatchWorldKeeps ==
    ASSUME IInv, BatchStep
    PROVE  WorldInv' /\ SettleInv'
<1> USE DEF worldVars, kernelVars
<1>1. /\ WorldStays /\ (budget' = budget \/ (budget > 0 /\ budget' = budget - 1))
      /\ pending' = pending \/ \E who : pending' =
             [p \in Proc |-> IF p \in who THEN pending[p] \cup {Signal} ELSE pending[p]]
  <2>1. CASE BatchPlan \/ Prepare \/ BatchSettle \/ BatchReport
    BY <2>1 DEF BatchPlan, Prepare, BatchSettle, BatchReport, WorldStays
  <2>2. CASE BatchConfirm \/ BatchFresh \/ Interrupted
    BY <2>2 DEF BatchConfirm, BatchFresh, Interrupted, WorldStays, Unmoved, Fault
  <2>3. CASE DeliverOne
    BY <2>3 DEF DeliverOne, WorldStays, Send, Deliver
  <2> QED
    BY <2>1, <2>2, <2>3 DEF BatchStep
<1>2. WorldInv' /\ LifeGoesOn /\ UNCHANGED <<Started, Ended, ShownEndpoints>>
  BY <1>1, StaysKeeps DEF IInv
<1>3. CASE ~BatchSettle
  <2>1. UNCHANGED settleVars
    BY <1>3 DEF BatchStep, BatchPlan, BatchConfirm, Prepare, BatchFresh, DeliverOne, Interrupted,
                BatchReport
  <2> QED
    BY <1>2, <2>1, SettleRests DEF IInv
<1>4. CASE BatchSettle
  <2> DEFINE ids == {pins[i] : i \in Delivered}
             ports == UNION {ResolvedTarget(fresh, plan[i].by).endpoints \cup plan[i].extra :
                                i \in Delivered}
  <2>1. Settle(ids, ports)
    BY <1>4 DEF BatchSettle
  <2>2. ids \in SUBSET Started
    BY <1>4, SignalledAreStarted DEF BatchSettle, IInv
  <2> HIDE DEF ids, ports
  <2> QED
    BY <1>2, <2>1, <2>2, SettleBegins
<1> QED
  BY <1>3, <1>4

LEMMA BatchStepKeeps ==
    ASSUME IInv, BatchStep
    PROVE  IInv'
<1>1. WorldInv' /\ SettleInv'
  BY BatchWorldKeeps
<1>2. BatchInv'
  BY BatchPlanKeeps, BatchConfirmKeeps, PrepareKeeps, FreshKeeps, DeliverKeeps, InterruptedKeeps,
     BatchSettleKeeps, BatchReportKeeps DEF BatchStep, IInv
<1> QED
  BY <1>1, <1>2 DEF IInv

\* A refusal of a scoped kill begins the settle loop with nobody to wait for, or leaves it.
LEMMA RefuseIs ==
    ASSUME NEW reason, Refuse(reason)
    PROVE  /\ step' \in {"settle", "done"}
           /\ UNCHANGED settleVars \/ Settle({}, confirmed.root.endpoints)
BY DEF Refuse, Finish

\* A scoped kill signals everybody of the scope, who is alive, or nobody.
ScopedWorld ==
    /\ WorldStays /\ (budget' = budget \/ (budget > 0 /\ budget' = budget - 1))
    /\ pending' = pending \/ \E who : pending' =
           [p \in Proc |-> IF p \in who THEN pending[p] \cup {Signal} ELSE pending[p]]
    /\ UNCHANGED settleVars \/ \E ids \in SUBSET Started : \E ports : Settle(ids, ports)

LEMMA ScopedStepIs ==
    ASSUME ScopedStep, UNCHANGED batchVars, signals \in [Proc -> Nat]
    PROVE  ScopedWorld /\ OtherCommand
<1> USE DEF ScopedWorld, OtherCommand, Planning, Batching, worldVars, kernelVars, WorldStays
<1>1. {} \in SUBSET Started
  OBVIOUS
<1>2. CASE ReadTable \/ Preview \/ ScopedConfirm \/ ScopedReport
  BY <1>2 DEF ReadTable, Preview, ScopedConfirm, ScopedReport, Finish, Fault, Unmoved
<1>3. CASE PinRoot
  BY <1>1, <1>3, RefuseIs DEF PinRoot
<1>4. CASE RecheckRows
  BY <1>1, <1>4, RefuseIs DEF RecheckRows, Fault, Unmoved
<1>5. CASE RecheckTable
  BY <1>1, <1>5, RefuseIs DEF RecheckTable, Fault, Unmoved
<1>6. CASE RunGates
  BY <1>1, <1>6, RefuseIs DEF RunGates
<1>7. CASE Execute
  <2>1. step = "execute"
    BY <1>7 DEF Execute
  <2>2. CASE /\ Alive(pin) /\ step' = "settle" /\ Send(Scope \ Denied)
             /\ Settle(Scope \ Denied, IF Denied = {} THEN FreshRoot.endpoints ELSE {})
             /\ UNCHANGED budget
    <3>1. Scope \ Denied \in SUBSET Started
      BY DEF Scope, Alive, Started, Live, Active
    <3>2. signals' \in [Proc -> Nat]
      BY <2>2 DEF Send, Deliver
    <3> QED
      BY <1>7, <2>1, <2>2, <3>1, <3>2 DEF Send, Deliver
  <2>3. CASE ~Alive(pin) /\ Refuse("RootAlreadyExited") /\ UNCHANGED <<worldVars, signals>>
    BY <1>1, <2>1, <2>3, RefuseIs
  <2>4. CASE /\ \/ budget < MaxDisturbances /\ UNCHANGED budget
                \/ Fault("interrupt")
             /\ Unmoved /\ UNCHANGED <<holds, signals>>
             /\ \E why \in {"TargetChanged", "PermissionDenied", "ProtectedDescendant"} : Refuse(why)
    BY <1>1, <2>1, <2>4, RefuseIs DEF Unmoved, Fault
  <2> QED
    BY <1>7, <2>2, <2>3, <2>4 DEF Execute
<1> QED
  BY <1>2, <1>3, <1>4, <1>5, <1>6, <1>7 DEF ScopedStep

LEMMA ScopedStepKeeps ==
    ASSUME IInv, ScopedStep, UNCHANGED batchVars
    PROVE  IInv'
<1>1. ScopedWorld /\ OtherCommand
  BY ScopedStepIs DEF IInv, BatchInv, SignalsAreOf
<1>2. WorldInv' /\ LifeGoesOn /\ UNCHANGED <<Started, Ended, ShownEndpoints>>
  BY <1>1, StaysKeeps DEF IInv, ScopedWorld
<1>3. SettleInv'
  BY <1>1, <1>2, SettleRests, SettleBegins DEF IInv, ScopedWorld
<1>4. BatchInv'
  BY <1>1, OthersKeep DEF IInv
<1> QED
  BY <1>2, <1>3, <1>4 DEF IInv

\* The commands that only read.
LEMMA ReadingKeeps ==
    ASSUME IInv, WhyStep \/ ListStep \/ InspectStep, UNCHANGED batchVars
    PROVE  IInv'
<1>1. /\ WorldStays /\ (budget' = budget \/ (budget > 0 /\ budget' = budget - 1))
      /\ UNCHANGED <<pending, settleVars, signals>>
      /\ step \in {"dispatch", "probe", "verdicts", "list", "inspect", "report"}
      /\ step' \in {"done", "probe", "verdicts", "list", "inspect", "report"}
      /\ (step' = "done" \/ exit' = exit)
  <2> USE DEF WorldStays, Fault, Finish, Unmoved
  <2>1. CASE WhyCollect
    BY <2>1 DEF WhyCollect, SeeSockets
  <2>2. CASE Probe
    BY <2>2 DEF Probe
  <2>3. CASE ListCollect
    BY <2>3 DEF ListCollect, SeeSockets
  <2>4. CASE ListPrint
    BY <2>4 DEF ListPrint
  <2>5. CASE InspectCollect
    BY <2>5 DEF InspectCollect, SeeSockets
  <2>6. CASE InspectTable
    BY <2>6 DEF InspectTable
  <2>7. CASE InspectReport
    BY <2>7 DEF InspectReport
  <2>8. CASE WhyReport
    BY <2>8 DEF WhyReport
  <2> QED
    BY <2>1, <2>2, <2>3, <2>4, <2>5, <2>6, <2>7, <2>8 DEF WhyStep, ListStep, InspectStep
<1>2. WorldInv' /\ LifeGoesOn /\ UNCHANGED <<Started, Ended, ShownEndpoints>>
  BY <1>1, StaysKeeps DEF IInv
<1>3. SettleInv'
  BY <1>1, <1>2, SettleRests DEF IInv
<1>4. OtherCommand
  BY <1>1 DEF OtherCommand, Planning, Batching, IInv, BatchInv, SignalsAreOf
<1>5. BatchInv'
  BY <1>4, OthersKeep DEF IInv
<1> QED
  BY <1>2, <1>3, <1>5 DEF IInv

LEMMA DispatchStepKeeps ==
    ASSUME IInv, Dispatch
    PROVE  IInv'
<1>1. /\ WorldStays /\ (budget' = budget \/ (budget > 0 /\ budget' = budget - 1))
      /\ UNCHANGED <<pending, settleVars>>
  BY DEF Dispatch, WorldStays, Unmoved, Fault
<1>2. WorldInv' /\ LifeGoesOn /\ UNCHANGED <<Started, Ended, ShownEndpoints>>
  BY <1>1, StaysKeeps DEF IInv
<1>3. SettleInv'
  BY <1>1, <1>2, SettleRests DEF IInv
<1> QED
  BY <1>2, <1>3, DispatchKeeps DEF IInv

LEMMA SettlingKeeps ==
    ASSUME IInv, SettleStep, UNCHANGED <<commandVars, batchVars>>
    PROVE  IInv'
<1>1. WorldInv' /\ SettleInv' /\ LifeGoesOn
  BY SettleStepKeeps DEF IInv
<1>2. settling # "idle" /\ settling' # "idle" /\ UNCHANGED wanted
  BY DEF SettleStep, ObserveExit, PollPorts, Pause, AfterExits, reportVars
<1>3. BatchInv'
  BY <1>1, <1>2, QuietKeeps DEF IInv, LifeGoesOn, commandVars
<1> QED
  BY <1>1, <1>3 DEF IInv

LEMMA WorldMovesKeep ==
    ASSUME IInv, World
    PROVE  IInv'
<1>1. WorldInv' /\ LifeGoesOn
  BY WorldKeeps DEF IInv
<1>2. SettleInv'
  BY <1>1, WorldSettles DEF IInv
<1>3. UNCHANGED <<commandVars, batchVars, settling, wanted>>
  BY DEF World, Watched, reportVars
<1>4. BatchInv'
  BY <1>1, <1>3, QuietKeeps DEF IInv, LifeGoesOn, commandVars
<1> QED
  BY <1>1, <1>2, <1>4 DEF IInv

\* Nothing moves: the last state of a command, repeated.
LEMMA StutterKeeps ==
    ASSUME IInv, UNCHANGED vars
    PROVE  IInv'
<1>1. /\ WorldStays /\ UNCHANGED <<budget, pending, settleVars>>
      /\ UNCHANGED <<commandVars, batchVars>>
  BY DEF vars, worldVars, kernelVars, WorldStays
<1>2. WorldInv' /\ LifeGoesOn /\ UNCHANGED <<Started, Ended, ShownEndpoints>>
  BY <1>1, StaysKeeps DEF IInv
<1>3. SettleInv'
  BY <1>1, <1>2, SettleRests DEF IInv
<1>4. BatchInv'
  BY <1>1, <1>2, QuietKeeps DEF IInv, commandVars, settleVars, reportVars
<1> QED
  BY <1>2, <1>3, <1>4 DEF IInv

\* A command line starts in a table that is in order, with nothing said or done.
LEMMA Starts == Init => IInv
<1> SUFFICES ASSUME Init PROVE IInv
  OBVIOUS
<1> USE DEF Init, WorldInit, KernelInit
<1>1. PICK t \in Start : /\ status = t.status /\ parent = t.parent
                         /\ pgrp = t.pgrp /\ name = t.name
  OBVIOUS
<1>2. KernelTypeOK
  BY <1>1, StartAssumption, KernelAssumption DEF KernelTypeOK, Table
<1>3. OneHolder
  BY <1>1, StartAssumption DEF OneHolder
<1>4. SettleInv
  BY DEF SettleInit, SettleInv
<1>5. BatchInv
  <2>1. /\ step = "dispatch" /\ exit = "none" /\ invocation \in Invocations
        /\ pins = <<>> /\ outcomes = <<>> /\ fresh = NoView /\ settling = "idle"
        /\ signals = [p \in Proc |-> 0]
    BY DEF CommandInit, TargetsInit, BatchInit, SettleInit
  <2>2. Delivered = {} /\ signals \in [Proc -> Nat] /\ {p \in Proc : signals[p] > 0} = {}
    BY <2>1 DEF Delivered
  <2>3. AskedSomething /\ PinsAreOf
    BY <2>1 DEF AskedSomething, PinsAreOf, Planning, Batching
  <2>4. SignalsAreOf /\ ReportFollows
    BY <2>1, <2>2 DEF SignalsAreOf, ReportFollows, NoView, Planning, Batching
  <2> QED
    BY <2>3, <2>4 DEF BatchInv
<1> QED
  BY <1>2, <1>3, <1>4, <1>5 DEF IInv, WorldInv

LEMMA StepKeeps == IInv /\ [Next]_vars => IInv'
<1> SUFFICES ASSUME IInv, [Next]_vars PROVE IInv'
  OBVIOUS
<1>1. CASE Command
  BY <1>1, DispatchStepKeeps, BatchStepKeeps, ScopedStepKeeps, SettlingKeeps, ReadingKeeps
     DEF Command
<1>2. CASE World
  BY <1>2, WorldMovesKeep
<1>3. CASE Terminated \/ UNCHANGED vars
  BY <1>3, StutterKeeps DEF Terminated
<1> QED
  BY <1>1, <1>2, <1>3 DEF Next

LEMMA Invariant == Spec => []IInv
<1>1. Init => IInv
  BY Starts
<1>2. IInv /\ [Next]_vars => IInv'
  BY StepKeeps
<1> QED
  BY <1>1, <1>2, PTL DEF Spec

-----------------------------------------------------------------------------
\* The theorems

\* What the report of settle says was so when it was last read, however the world
\* moves between its reads and whoever has the numbers by then: who it says exited
\* is gone, who it says runs was alive when the last round began, and each port it
\* says is visible was taken in that round (settle.rs 3-7).
THEOREM ReportSpeaksOfThisWorld == Spec => []ReportIsCurrent
<1>1. IInv => ReportIsCurrent
  BY SettledIsCurrent DEF IInv
<1> QED
  BY <1>1, Invariant, PTL

\* When a batch reports, each selector of the command line, whatever their number,
\* is answered by a target; the processes that got a signal are those the report
\* says "Success" of; the exit code is success if that is all of them; and their
\* ports, the confirmed ones of every selector, were looked at (batch.rs 154-178).
THEOREM TheBatchAccounts == Spec => []BatchAccounts
<1>1. IInv => BatchAccounts
  <2> SUFFICES ASSUME IInv, exit # "none", outcomes # <<>>, fresh.taken PROVE BatchAccounts
    BY DEF BatchAccounts
  <2>1. step = "done" /\ Len(outcomes) = Len(plan) /\ PlanIsGood
    BY DEF IInv, BatchInv, PinsAreOf, ReportFollows, Planning, Batching
  <2>2. DOMAIN outcomes = DOMAIN plan
    BY <2>1 DEF IInv, BatchInv, PinsAreOf, PlanIsGood
  <2>3. /\ {p \in Proc : signals[p] > 0} = {pins[i] : i \in Delivered}
        /\ \A i \in Delivered :
             plan[i].target.endpoints \subseteq ResolvedTarget(fresh, plan[i].by).endpoints
    BY DEF IInv, BatchInv, SignalsAreOf
  <2>4. Polled /\ (exit = "Success" <=> Delivered = DOMAIN plan)
    BY <2>1 DEF IInv, BatchInv, ReportFollows
  <2>5. ASSUME NEW j \in DOMAIN invocation.selectors
        PROVE  LET sel == invocation.selectors[j]
                   named == ResolvedTarget(rows, sel)
               IN  \E i \in DOMAIN plan :
                      /\ plan[i].target.pid = named.pid
                      /\ i \in Delivered => named.endpoints \subseteq wanted
    <3> DEFINE named == ResolvedTarget(rows, invocation.selectors[j])
    <3>1. PICK i \in DOMAIN plan : Answers(plan[i], invocation.selectors[j])
      BY <2>1 DEF PlanIsGood
    <3>2. /\ plan[i].target.pid = named.pid
          /\ named.endpoints \subseteq plan[i].target.endpoints \cup plan[i].extra
      BY <3>1 DEF Answers
    <3>3. i \in Delivered => named.endpoints \subseteq wanted
      <4> HIDE DEF named
      <4> QED
        BY <2>3, <2>4, <3>2 DEF Polled, ShownTo
    <3> QED
      BY <3>2, <3>3
  <2> QED
    BY <2>2, <2>3, <2>4, <2>5 DEF BatchAccounts
<1> QED
  BY <1>1, Invariant, PTL

\* A batch signals nobody but the processes it listed for confirmation, each at most
\* once however many selectors name it, running the program that was shown, none of
\* them protected: whoever has their numbers since (batch.rs 1-9, 170-172).
THEOREM TheBatchSignalsWhatItListed == Spec => BatchSignalsWhatItListed
<1>1. IInv /\ [Next]_vars =>
        [\A p \in Proc : step = "deliver" /\ signals'[p] > signals[p] =>
            /\ signals[p] = 0
            /\ \E i \in DOMAIN plan : /\ plan[i].target.who = p
                                      /\ plan[i].target.name = name[p]
                                      /\ ~plan[i].target.protected]_<<signals, step, name>>
  <2> SUFFICES ASSUME IInv, [Next]_vars, step = "deliver",
                      NEW p \in Proc, signals'[p] > signals[p]
               PROVE  /\ signals[p] = 0
                      /\ \E i \in DOMAIN plan : /\ plan[i].target.who = p
                                                /\ plan[i].target.name = name[p]
                                                /\ ~plan[i].target.protected
    OBVIOUS
  <2>1. /\ signals \in [Proc -> Nat] /\ at \in DOMAIN plan /\ outcomes[at] = "none"
        /\ PinsAreOf /\ PlanIsGood
        /\ {q \in Proc : signals[q] > 0} = {pins[i] : i \in Delivered}
    BY DEF IInv, BatchInv, PinsAreOf, SignalsAreOf, Batching
  <2>2. DeliverOne
    <3>1. signals' # signals
      BY <2>1
    <3>2. ~UNCHANGED vars
      BY <3>1 DEF vars, commandVars
    <3>3. Command
      BY <3>1, <3>2 DEF Next, World, Terminated, commandVars
    <3> QED
      BY <3>1, <3>3
         DEF Command, Dispatch, BatchStep, BatchPlan, BatchConfirm, Prepare, BatchFresh, Interrupted,
             BatchSettle, BatchReport, ScopedStep, ReadTable, Preview, ScopedConfirm, PinRoot,
             RecheckRows, RecheckTable, RunGates, Execute, ScopedReport, WhyStep, WhyCollect, Probe,
             WhyReport, ListStep, ListCollect, ListPrint, InspectStep, InspectCollect, InspectTable,
             InspectReport, commandVars
  <2>3. /\ pins[at] \in Proc /\ Deliver(Signal, {pins[at]}) /\ Complaint(at) = "none"
        /\ StillDeliverable(at)
    BY <2>1, <2>2, DeliverIs
  <2>4. p = pins[at]
    BY <2>1, <2>3 DEF Deliver
  <2>5. signals[p] = 0
    <3>1. ASSUME NEW i \in Delivered, pins[i] = p PROVE FALSE
      <4>1. /\ Len(pins) = Len(plan) /\ Len(outcomes) = Len(plan)
            /\ pins \in Seq(Proc \cup {NoProc}) /\ outcomes \in Seq(Outcomes)
        BY <2>1 DEF PinsAreOf
      <4>2. i \in DOMAIN plan /\ i \in DOMAIN pins /\ at \in DOMAIN pins /\ i # at
        BY <2>1, <3>1, <4>1 DEF Delivered, PlanIsGood
      <4>3. p # NoProc
        BY KernelAssumption
      <4>4. plan[i].target.pid = plan[at].target.pid
        BY <2>1, <2>4, <3>1, <4>2, <4>3 DEF PinsAreOf
      <4> QED
        BY <2>1, <4>2, <4>4 DEF PlanIsGood
    <3> QED
      BY <2>1, <3>1
  <2>6. plan[at].target.who = p /\ plan[at].target.name = name[p]
    BY <2>3, <2>4, NoComplaint DEF StillDeliverable, StillMatches, SameProcess
  <2>7. ~plan[at].target.protected
    BY <2>1 DEF PlanIsGood
  <2> QED
    BY <2>1, <2>5, <2>6, <2>7
<1> QED
  BY <1>1, Invariant, PTL DEF Spec, BatchSignalsWhatItListed

-----------------------------------------------------------------------------
\* The handover

\* A process that holds a socket is alive, so an owner that a snapshot names is one.
HoldersLive ==
    holds \in [Proc -> SUBSET Socket] /\ \A p \in Proc : holds[p] # {} => status[p] \in Live

Dead == {p \in Proc : status[p] = "dead"}
TimePasses == Started \subseteq Started' /\ Dead \subseteq Dead'

IsShown(target) == target.who \in Started /\ target.pid = PidOf[target.who]

Looking == {"scoped", "preview"}
Pinned == {"recheckRows", "recheckTable", "gates", "execute"}
Decided == {"scopedPrompt", "pin"} \cup Pinned

\* The process that was confirmed is followed, not its number: another one can have
\* been pinned only if it was dead by then, and then no later reading shows it.
HandoverInv ==
    /\ step \in Looking => \A edge \in rows.edges :
          rows.who[edge[2]] \in Started /\ PidOf[rows.who[edge[2]]] = edge[2]
    /\ step = "preview" => \A pid \in DOMAIN table :
          table[pid].who \in Started /\ PidOf[table[pid].who] = pid
    /\ step \in Decided => IsShown(confirmed.root)
    /\ step \in Pinned =>
          /\ pin \in Started /\ PidOf[pin] = confirmed.root.pid
          /\ pin # confirmed.root.who => confirmed.root.who \in Dead
    /\ step \in Pinned \ {"recheckRows"} /\ confirmed.root.endpoints # {} =>
          pin = confirmed.root.who /\ ResolvedTarget(rows, TheSelector).pid = confirmed.root.pid
    /\ step \in {"gates", "execute"} =>
          /\ pin \notin Dead =>
                confirmed.root.pid \in DOMAIN table /\ table[confirmed.root.pid].who = pin
          /\ confirmed.root.pid \in DOMAIN table
             /\ table[confirmed.root.pid].who = confirmed.root.who => pin = confirmed.root.who
    /\ step = "execute" => Gate = "none"

-----------------------------------------------------------------------------

\* The world moves: who is dead stays dead, and lets go of its sockets.
LEMMA DeathIsFinal ==
    ASSUME WorldInv, HoldersLive, World
    PROVE  HoldersLive' /\ TimePasses
<1>0. LifeGoesOn
  BY WorldKeeps
<1> USE DEF Live, Active
<1>1. CASE KernelStep /\ Inherit
  <2>1. Ages /\ KernelTypeOK'
    BY <1>1, KernelStepIdentity, KernelStepType DEF WorldInv
  <2>2. HoldersLive'
    BY <1>1, <2>1 DEF HoldersLive, Inherit, KernelTypeOK
  <2> QED
    BY <1>0, <2>1, <2>2 DEF TimePasses, Dead, LifeGoesOn, Ages
<1>2. CASE \E p \in Proc, s \in Socket : Open(p, s) \/ Close(p, s) \/ \E q \in Proc : Pass(p, q, s)
  BY <1>0, <1>2 DEF HoldersLive, TimePasses, Dead, LifeGoesOn, Open, Close, Pass, Unmoved
<1>3. CASE Unmoved /\ UNCHANGED holds
  BY <1>0, <1>3 DEF HoldersLive, TimePasses, Dead, LifeGoesOn, Unmoved
<1>4. CASE \E p, q \in Proc : Respawn(p, q)
  <2>1. PICK p, q \in Proc : Respawn(p, q)
    BY <1>4
  <2>2. status[p] \in Live /\ status[q] = "unborn" /\ status \in [Proc -> Status]
    BY <2>1 DEF Respawn, WorldInv, KernelTypeOK
  <2>3. \A r \in Proc : status'[r] = CASE r = p -> "dead" [] r = q -> "running"
           [] OTHER -> IF parent[r] = p /\ status[r] = "zombie" THEN "dead" ELSE status[r]
    BY <2>1 DEF Respawn
  <2>4. holds' = [holds EXCEPT ![p] = {}, ![q] = holds[p]]
    BY <2>1 DEF Respawn
  <2>5. \A r \in Proc : holds'[r] = IF r = q THEN holds[p] ELSE IF r = p THEN {} ELSE holds[r]
    BY <2>2, <2>4 DEF HoldersLive
  <2>6. HoldersLive'
    BY <2>2, <2>3, <2>4, <2>5 DEF HoldersLive
  <2> QED
    BY <1>0, <2>2, <2>3, <2>6 DEF TimePasses, Dead, LifeGoesOn
<1> QED
  BY <1>1, <1>2, <1>3, <1>4 DEF World, WorldStep, Expire

\* kick works: nobody is born, dies or takes a socket over.
LEMMA NothingPasses ==
    ASSUME HoldersLive, WorldStays
    PROVE  HoldersLive' /\ TimePasses /\ UNCHANGED Dead
BY DEF HoldersLive, TimePasses, Started, Dead, WorldStays

\* The plan and the gates are of what was read.
LEMMA GateStays ==
    ASSUME UNCHANGED <<invocation, rows, table, confirmed, auth>>
    PROVE  UNCHANGED Gate
<1>1. UNCHANGED <<ByGroup, TheSelector>>
  BY DEF ByGroup, TheSelector
<1>2. UNCHANGED Below
  BY DEF Below
<1>3. \A pid : TreeOf(pid)' = TreeOf(pid) /\ GroupOf(pid)' = GroupOf(pid)
  BY <1>2 DEF TreeOf, GroupOf
<1>4. \A pid : Members(pid)' = Members(pid) /\ (IsProtected(pid)' <=> IsProtected(pid))
  BY <1>1, <1>3 DEF Members, IsProtected
<1>5. \A pid : Preflight(pid)' = Preflight(pid)
  BY <1>4 DEF Preflight
<1>6. UNCHANGED FreshRoot
  BY <1>1, <1>4 DEF FreshRoot, TargetOfRow, ResolvedTarget, TargetFrom, RowsOf, RowsOfPid, RowsOfPort,
     TheOwner, OwnersOf, EndpointsOf
<1>7. SkipAllowed(FreshRoot)' <=> SkipAllowed(FreshRoot)
  BY <1>1, <1>4, <1>6 DEF SkipAllowed
<1>8. (RootChanged' <=> RootChanged) /\ (GroupChanged' <=> GroupChanged)
  BY <1>1 DEF RootChanged, GroupChanged
<1> QED
  BY <1>4, <1>5, <1>7, <1>8 DEF Gate

\* What a step does not touch stays handed over, as time only passes.
LEMMA HandoverRests ==
    ASSUME HandoverInv, UNCHANGED <<invocation, step, rows, scopedVars>>, TimePasses
    PROVE  HandoverInv'
<1> USE DEF scopedVars
<1>1. UNCHANGED Gate
  BY GateStays
<1>2. UNCHANGED TheSelector
  BY DEF TheSelector
<1>3. UNCHANGED ResolvedTarget(rows, TheSelector)
  BY <1>2 DEF ResolvedTarget, TargetFrom, RowsOf, RowsOfPid, RowsOfPort, TheOwner, OwnersOf,
     EndpointsOf
<1> QED
  BY <1>1, <1>3 DEF HandoverInv, TimePasses, IsShown, Pinned

\* A step that ends a scoped kill, or begins none.
LEMMA NoHandover ==
    ASSUME step' \notin Looking \cup Decided
    PROVE  HandoverInv'
BY DEF HandoverInv, Looking, Decided, Pinned

\* What a snapshot of now names is a process.
LEMMA ViewShows ==
    ASSUME WorldInv, HoldersLive, NEW edge \in ViewNow.edges
    PROVE  /\ edge[2] \in Pid /\ ViewNow.who[edge[2]] \in Started
           /\ PidOf[ViewNow.who[edge[2]]] = edge[2]
<1>1. PICK held \in Readable : edge = <<EndpointOf[held[1]], PidOf[held[2]]>> \/ edge[2] = PidOf[held[2]]
  BY DEF ViewNow
<1>2. edge[2] = PidOf[held[2]] /\ held[2] \in Proc /\ held[1] \in holds[held[2]]
  BY <1>1 DEF Readable, Holding
<1>3. Has(edge[2], held[2])
  BY <1>2 DEF HoldersLive, Has, Present
<1>4. Occupant(edge[2]) = held[2] /\ edge[2] \in Pid
  BY <1>2, <1>3, OccupantIs, KernelAssumption DEF WorldInv
<1>5. ViewNow.who[edge[2]] = held[2]
  BY <1>4 DEF ViewNow
<1> QED
  BY <1>2, <1>3, <1>4, <1>5 DEF Started, Has, Present, Live, Active

\* What a process table of now names is alive and has that number.
LEMMA TableShows ==
    ASSUME WorldInv, NEW pid \in DOMAIN TableNow
    PROVE  /\ TableNow[pid].who = Occupant(pid) /\ Occupant(pid) \in Started \ Dead
           /\ PidOf[Occupant(pid)] = pid
<1>1. PICK p \in Proc : Has(pid, p)
  BY DEF TableNow, PresentPids
<1>2. Occupant(pid) = p
  BY <1>1, OccupantIs DEF WorldInv
<1> QED
  BY <1>1, <1>2 DEF TableNow, Has, Started, Dead, Present, Live, Active

\* Of two processes with one number, who is not there any more when the other is.
LEMMA OneIsDead ==
    ASSUME WorldInv, NEW p \in Started, NEW pid, PidOf[p] = pid, Occupant(pid) # p
    PROVE  p \in Dead
<1>1. ~Has(pid, p)
  BY OccupantIs DEF WorldInv, Started
<1> QED
  BY <1>1 DEF Has, Started, Dead, WorldInv, KernelTypeOK, Status, Present, Live, Active

\* Each step of a scoped kill keeps the confirmed process apart from its number.
LEMMA DispatchHands ==
    ASSUME WorldInv, HoldersLive, Dispatch
    PROVE  HandoverInv'
<1>1. CASE step' # "scoped"
  <2>1. step' \notin Looking \cup Decided
    BY <1>1 DEF Dispatch, Finish, Looking, Decided, Pinned
  <2> QED
    BY <2>1, NoHandover
<1>2. CASE step' = "scoped"
  <2>1. rows' = ViewNow /\ UNCHANGED <<status, holds>>
    BY <1>2 DEF Dispatch, Finish, Unmoved
  <2>2. \A edge \in rows'.edges : rows'.who[edge[2]] \in Started /\ PidOf[rows'.who[edge[2]]] = edge[2]
    BY <2>1, ViewShows
  <2>3. UNCHANGED Started
    BY <2>1 DEF Started
  <2> QED
    BY <1>2, <2>2, <2>3 DEF HandoverInv, Looking, Decided, Pinned
<1> QED
  BY <1>1, <1>2

\* The table is of the moment it is read.
LEMMA ReadTableHands ==
    ASSUME WorldInv, HandoverInv, ReadTable
    PROVE  HandoverInv'
<1>1. CASE step' = "done"
  BY <1>1, NoHandover DEF Looking, Decided, Pinned
<1>2. CASE step' = "preview"
  <2>1. step = "scoped" /\ table' = TableNow /\ UNCHANGED <<status, rows>>
    BY <1>2 DEF ReadTable, Finish, Unmoved
  <2>2. UNCHANGED Started
    BY <2>1 DEF Started
  <2>3. \A pid \in DOMAIN table' : table'[pid].who \in Started /\ PidOf[table'[pid].who] = pid
    BY <2>1, TableShows
  <2> QED
    BY <1>2, <2>1, <2>2, <2>3 DEF HandoverInv, Looking, Decided, Pinned
<1> QED
  BY <1>1, <1>2 DEF ReadTable, Finish

\* The target a selector resolves to is one of the owners of its rows.
LEMMA ResolvedIsShown ==
    ASSUME NEW view, NEW sel, Unresolved(view, sel) = "none",
           \A edge \in view.edges :
              view.who[edge[2]] \in Started /\ PidOf[view.who[edge[2]]] = edge[2]
    PROVE  IsShown(ResolvedTarget(view, sel))
<1> DEFINE edges == RowsOf(view, sel)
<1>1. edges # {} /\ edges \subseteq view.edges
  BY DEF Unresolved, RowsOf, RowsOfPid, RowsOfPort
<1>2. \E pid : pid \in OwnersOf(edges)
  BY <1>1 DEF OwnersOf
<1>3. TheOwner(edges) \in OwnersOf(edges)
  BY <1>2 DEF TheOwner
<1>4. PICK edge \in edges : edge[2] = TheOwner(edges)
  BY <1>3 DEF OwnersOf
<1> QED
  BY <1>1, <1>4 DEF IsShown, ResolvedTarget, TargetFrom

\* The root that is shown is one of the rows, or of the table.
LEMMA PreviewHands ==
    ASSUME HandoverInv, Preview
    PROVE  HandoverInv'
<1>1. CASE step' = "done"
  BY <1>1, NoHandover DEF Looking, Decided, Pinned
<1>2. CASE step' \in {"pin", "scopedPrompt"}
  <2>1. RootProblem = "none" /\ confirmed'.root = Root /\ step = "preview"
    BY <1>2 DEF Preview, Finish
  <2>2. ASSUME Portless PROVE IsShown(Root)
    BY <2>1, <2>2 DEF RootProblem, Root, TargetOfRow, IsShown, HandoverInv
  <2>3. ASSUME ~Portless PROVE IsShown(Root)
    <3>1. Unresolved(rows, TheSelector) = "none" /\ Root = ResolvedTarget(rows, TheSelector)
      BY <2>1, <2>3 DEF RootProblem, Root
    <3> QED
      BY <2>1, <3>1, ResolvedIsShown DEF HandoverInv, Looking
  <2>4. IsShown(Root)
    BY <2>2, <2>3
  <2>5. UNCHANGED Started
    BY DEF Preview, worldVars, kernelVars, Started
  <2> QED
    BY <1>2, <2>1, <2>4, <2>5 DEF HandoverInv, IsShown, Looking, Decided, Pinned
<1> QED
  BY <1>1, <1>2 DEF Preview, Finish

\* Waiting for the answer changes nothing that was shown.
LEMMA ConfirmHands ==
    ASSUME HandoverInv, ScopedConfirm
    PROVE  HandoverInv'
<1>1. CASE step' = "done"
  BY <1>1, NoHandover DEF Looking, Decided, Pinned
<1>2. CASE step' = "pin"
  BY <1>2 DEF ScopedConfirm, Finish, scopedVars, Unmoved, Started, HandoverInv, IsShown,
     Looking, Decided, Pinned
<1> QED
  BY <1>1, <1>2 DEF ScopedConfirm, Finish

\* A refusal pins nobody.
LEMMA RefusalHands ==
    ASSUME NEW reason, Refuse(reason)
    PROVE  HandoverInv'
BY RefuseIs, NoHandover DEF Looking, Decided, Pinned

\* A pin opens a number: it has another process only if the shown one is gone.
LEMMA PinHands ==
    ASSUME WorldInv, HandoverInv, PinRoot
    PROVE  HandoverInv'
<1>1. CASE pin' = NoProc
  BY <1>1, RefusalHands DEF PinRoot
<1>2. CASE pin' # NoProc
  <2> DEFINE pid == confirmed.root.pid
  <2>1. /\ step = "pin" /\ pin' = Occupant(pid) /\ UNCHANGED <<status, confirmed>>
        /\ step' \in {"recheckTable", "recheckRows"}
        /\ step' = "recheckTable" => confirmed.root.endpoints = {}
    BY <1>2 DEF PinRoot, worldVars, kernelVars
  <2>2. UNCHANGED <<Started, Dead>>
    BY <2>1 DEF Started, Dead
  <2>3. Has(pid, pin')
    BY <1>2, <2>1, OccupantHolds
  <2>4. pin' \in Started /\ PidOf[pin'] = pid
    BY <2>3 DEF Has, Started, Present, Live, Active
  <2>5. IsShown(confirmed.root)
    BY <2>1 DEF HandoverInv, Decided
  <2>6. pin' # confirmed.root.who => confirmed.root.who \in Dead
    BY <2>1, <2>5, OneIsDead DEF IsShown
  <2> QED
    BY <2>1, <2>2, <2>4, <2>5, <2>6 DEF HandoverInv, IsShown, Looking, Decided, Pinned
<1> QED
  BY <1>1, <1>2

\* The ports are read again: another owner is another number, so a refusal.
LEMMA RecheckRowsHands ==
    ASSUME WorldInv, HandoverInv, RecheckRows
    PROVE  HandoverInv'
<1>1. CASE step' \notin Looking \cup Decided
  BY <1>1, NoHandover
<1>2. CASE \E reason : Refuse(reason)
  BY <1>2, RefusalHands
<1>3. CASE ~\E reason : Refuse(reason)
  <2> DEFINE root == confirmed.root
             resolved == ResolvedTarget(rows', TheSelector)
  <2>1. /\ rows' = ViewNow /\ Objection(rows', TheSelector, root) = "none"
        /\ step = "recheckRows" /\ step' = "recheckTable"
        /\ UNCHANGED <<status, invocation, scopedVars>>
    BY <1>3 DEF RecheckRows, Unmoved
  <2>2. StillMatches(root, resolved) /\ Unresolved(rows', TheSelector) = "none"
    BY <2>1 DEF Objection
  <2>3. root.pid = resolved.pid /\ root.who = resolved.who
    BY <2>2 DEF StillMatches, SameProcess
  <2>4. resolved.who = rows'.who[resolved.pid]
    BY DEF ResolvedTarget, TargetFrom
  <2>5. UNCHANGED <<Started, Dead, TheSelector>>
    BY <2>1 DEF Started, Dead, TheSelector
  <2>6. ResolvedTarget(rows, TheSelector)' = resolved
    BY <2>5 DEF ResolvedTarget, TargetFrom, RowsOf, RowsOfPid, RowsOfPort, TheOwner, OwnersOf, EndpointsOf
  <2>7. IsShown(root) /\ pin \in Started /\ PidOf[pin] = root.pid
        /\ (pin # root.who => root.who \in Dead)
    BY <2>1 DEF HandoverInv, Decided, Pinned
  <2>8. root.who = Occupant(root.pid)
    <3>1. root.pid \in Pid
      BY <2>7, KernelAssumption DEF IsShown, Started
    <3>2. rows'.who[root.pid] = Occupant(root.pid)
      BY <2>1, <3>1 DEF ViewNow
    <3> QED
      BY <2>3, <2>4, <3>2
  <2>9. pin = root.who
    <3>1. Has(root.pid, root.who)
      <4>1. root.who # NoProc
        BY <2>7, KernelAssumption DEF IsShown, Started
      <4> QED
        BY <2>8, <4>1, OccupantHolds
    <3>2. root.who \notin Dead
      BY <3>1 DEF Has, Dead, Present, Live, Active
    <3> QED
      BY <2>7, <3>2
  <2> QED
    BY <2>1, <2>3, <2>5, <2>6, <2>7, <2>9 DEF HandoverInv, scopedVars, IsShown, Looking, Decided, Pinned
<1> QED
  BY <1>2, <1>3

\* The table is read again: the pinned process is in it, or it is dead.
LEMMA RecheckTableHands ==
    ASSUME WorldInv, HandoverInv, RecheckTable
    PROVE  HandoverInv'
<1>1. CASE \E reason : Refuse(reason)
  BY <1>1, RefusalHands
<1>2. CASE ~\E reason : Refuse(reason)
  <2> DEFINE root == confirmed.root
  <2>1. /\ table' = TableNow /\ step = "recheckTable" /\ step' = "gates"
        /\ UNCHANGED <<status, invocation, rows, confirmed, auth, pin>>
    BY <1>2 DEF RecheckTable, Unmoved
  <2>2. UNCHANGED <<Started, Dead, TheSelector>>
    BY <2>1 DEF Started, Dead, TheSelector
  <2>3. UNCHANGED ResolvedTarget(rows, TheSelector)
    BY <2>1, <2>2 DEF ResolvedTarget, TargetFrom, RowsOf, RowsOfPid, RowsOfPort, TheOwner, OwnersOf,
       EndpointsOf
  <2>4. IsShown(root) /\ pin \in Started /\ PidOf[pin] = root.pid
        /\ (pin # root.who => root.who \in Dead)
    BY <2>1 DEF HandoverInv, Decided, Pinned
  <2>5. root.pid \in DOMAIN table' => table'[root.pid].who = Occupant(root.pid)
                                     /\ Occupant(root.pid) \notin Dead
    BY <2>1, TableShows
  <2>6. root.pid \in DOMAIN table' /\ table'[root.pid].who = root.who => pin = root.who
    BY <2>4, <2>5
  <2>7. pin \notin Dead => root.pid \in DOMAIN table' /\ table'[root.pid].who = pin
    <3> SUFFICES ASSUME pin \notin Dead PROVE root.pid \in DOMAIN table' /\ table'[root.pid].who = pin
      OBVIOUS
    <3>1. Occupant(root.pid) = pin
      BY <2>4, OneIsDead
    <3>2. Has(root.pid, pin) /\ pin \in Proc
      <4>1. pin # NoProc /\ pin \in Proc
        BY <2>4, KernelAssumption DEF Started
      <4> QED
        BY <3>1, <4>1, OccupantHolds
    <3>3. root.pid \in DOMAIN table'
      BY <2>1, <2>4, <3>2, KernelAssumption DEF TableNow, PresentPids
    <3> QED
      BY <2>5, <3>1, <3>3
  <2>8. /\ step' \in Decided => IsShown(confirmed.root)'
        /\ step' \in Pinned =>
              /\ pin' \in Started' /\ PidOf[pin'] = confirmed.root.pid'
              /\ pin' # confirmed.root.who' => confirmed.root.who' \in Dead'
    BY <2>1, <2>2, <2>4 DEF IsShown
  <2>9. step' \in Pinned \ {"recheckRows"} /\ confirmed.root.endpoints' # {} =>
           pin' = confirmed.root.who' /\ ResolvedTarget(rows, TheSelector)'.pid = confirmed.root.pid'
    BY <2>1, <2>3 DEF HandoverInv, Pinned
  <2> QED
    BY <2>1, <2>2, <2>6, <2>7, <2>8, <2>9 DEF HandoverInv, Looking
<1> QED
  BY <1>1, <1>2

\* The gates let through only what was read.
LEMMA GatesHand ==
    ASSUME HandoverInv, RunGates
    PROVE  HandoverInv'
<1>1. CASE Gate # "none"
  BY <1>1, RefusalHands DEF RunGates
<1>2. CASE Gate = "none"
  <2>1. /\ step = "gates" /\ step' = "execute"
        /\ UNCHANGED <<worldVars, invocation, rows, scopedVars>>
    BY <1>2 DEF RunGates
  <2>2. UNCHANGED <<Gate, TheSelector, Started, Dead>>
    BY <2>1, GateStays DEF scopedVars, TheSelector, worldVars, kernelVars, Started, Dead
  <2>3. UNCHANGED ResolvedTarget(rows, TheSelector)
    BY <2>1, <2>2 DEF ResolvedTarget, TargetFrom, RowsOf, RowsOfPid, RowsOfPort, TheOwner, OwnersOf,
       EndpointsOf
  <2> QED
    BY <1>2, <2>1, <2>2, <2>3 DEF HandoverInv, scopedVars, IsShown, Looking, Decided, Pinned
<1> QED
  BY <1>1, <1>2

\* The kill and its report pin nobody.
LEMMA ExecuteHands ==
    ASSUME Execute \/ ScopedReport
    PROVE  HandoverInv'
<1>1. CASE step' = "settle" \/ step' = "done"
  BY <1>1, NoHandover DEF Looking, Decided, Pinned
<1>2. CASE \E reason : Refuse(reason)
  BY <1>2, RefusalHands
<1> QED
  BY <1>1, <1>2 DEF Execute, ScopedReport, Finish

HandedInv == IInv /\ HoldersLive /\ HandoverInv

\* So does each step of a scoped kill.
LEMMA ScopedStepHands ==
    ASSUME IInv, HoldersLive, HandoverInv, ScopedStep, UNCHANGED batchVars
    PROVE  HoldersLive' /\ HandoverInv'
<1>1. ScopedWorld
  BY ScopedStepIs DEF IInv, BatchInv, SignalsAreOf
<1>2. HoldersLive'
  BY <1>1, NothingPasses DEF ScopedWorld
<1>3. HandoverInv'
  BY ReadTableHands, PreviewHands, ConfirmHands, PinHands, RecheckRowsHands, RecheckTableHands,
     GatesHand, ExecuteHands DEF IInv, ScopedStep
<1> QED
  BY <1>2, <1>3

\* The other commands never come to a step of a scoped kill.
LEMMA OthersHand ==
    ASSUME HoldersLive, BatchStep \/ WhyStep \/ ListStep \/ InspectStep
    PROVE  HoldersLive' /\ HandoverInv'
<1> USE DEF Finish, WorldStays, Looking, Decided, Pinned
<1>1. CASE BatchStep
  <2> USE <1>1 DEF worldVars, kernelVars
  <2>1. CASE BatchPlan \/ Prepare \/ BatchSettle \/ BatchReport
    BY <2>1, NothingPasses, NoHandover DEF BatchPlan, Prepare, BatchSettle, BatchReport,
       commandVars
  <2>2. CASE BatchConfirm \/ BatchFresh \/ Interrupted
    BY <2>2, NothingPasses, NoHandover DEF BatchConfirm, BatchFresh, Interrupted, Unmoved
  <2>3. CASE DeliverOne
    BY <2>3, NothingPasses, NoHandover DEF DeliverOne, Outcome, Send, Deliver
  <2> QED
    BY <2>1, <2>2, <2>3 DEF BatchStep
<1>2. CASE WhyStep \/ ListStep \/ InspectStep
  <2>1. WorldStays /\ step' \notin Looking \cup Decided
    BY <1>2 DEF WhyStep, ListStep, InspectStep, WhyCollect, Probe, WhyReport, ListCollect,
       ListPrint, InspectCollect, InspectTable, InspectReport, Unmoved, SeeSockets
  <2> QED
    BY <2>1, NothingPasses, NoHandover
<1> QED
  BY <1>1, <1>2

\* And each step of the settling that follows it.
LEMMA SettlingHands ==
    ASSUME HoldersLive, HandoverInv, SettleStep, UNCHANGED <<commandVars, scopedVars>>
    PROVE  HoldersLive' /\ HandoverInv'
<1>1. WorldStays
  BY DEF SettleStep, ObserveExit, PollPorts, Pause, WorldStays, worldVars, kernelVars, Unmoved
<1> QED
  BY <1>1, NothingPasses, HandoverRests DEF commandVars

\* Every step keeps it.
LEMMA HandedSteps == HandedInv /\ [Next]_vars => HandedInv'
<1> SUFFICES ASSUME HandedInv, [Next]_vars PROVE HandedInv'
  OBVIOUS
<1> USE DEF HandedInv
<1>1. IInv'
  BY StepKeeps
<1>2. CASE Command
  <2>1. CASE Dispatch
    <3>1. WorldStays
      BY <2>1 DEF Dispatch, Unmoved, WorldStays
    <3> QED
      BY <1>1, <2>1, <3>1, NothingPasses, DispatchHands DEF IInv
  <2>2. CASE (BatchStep \/ WhyStep \/ ListStep \/ InspectStep)
    BY <1>1, <2>2, OthersHand
  <2>3. CASE ScopedStep /\ UNCHANGED batchVars
    BY <1>1, <2>3, ScopedStepHands
  <2>4. CASE SettleStep /\ UNCHANGED <<commandVars, scopedVars>>
    BY <1>1, <2>4, SettlingHands
  <2> QED
    BY <1>2, <2>1, <2>2, <2>3, <2>4 DEF Command
<1>3. CASE World
  <2>1. UNCHANGED <<invocation, step, rows, scopedVars>>
    BY <1>3 DEF World, commandVars
  <2> QED
    BY <1>1, <1>3, <2>1, DeathIsFinal, HandoverRests DEF IInv
<1>4. CASE Terminated \/ UNCHANGED vars
  <2>1. UNCHANGED vars
    BY <1>4 DEF Terminated
  <2>2. WorldStays /\ UNCHANGED <<invocation, step, rows, scopedVars>>
    BY <2>1 DEF vars, worldVars, kernelVars, commandVars, WorldStays
  <2> QED
    BY <1>1, <2>2, NothingPasses, HandoverRests
<1> QED
  BY <1>2, <1>3, <1>4 DEF Next

\* It holds at first.
LEMMA HandedStarts == Init => HandedInv
<1> SUFFICES ASSUME Init PROVE HandedInv
  OBVIOUS
<1>1. IInv
  BY Starts
<1>2. HoldersLive
  BY SocketsAssumption DEF Init, WorldInit, HoldersLive
<1>3. HandoverInv
  BY DEF Init, CommandInit, HandoverInv, Looking, Decided, Pinned
<1> QED
  BY <1>1, <1>2, <1>3 DEF HandedInv

\* A kill of a tree or a group that reaches the executor is handed over as it was
\* confirmed, whatever happened between the preview and the last of the gates: the
\* pinned process is the one that was shown, and while it lives the answer that was
\* given covers its group, each member's protection and each warning (scoped.rs
\* 597-640, 1262-1313).
THEOREM TheHandoverIsConfirmed == Spec => []HandoverIsConfirmed
<1>1. HandedInv => HandoverIsConfirmed
  <2> SUFFICES ASSUME HandedInv, step = "execute" PROVE HandoverIsConfirmed
    BY DEF HandoverIsConfirmed
  <2> DEFINE root == confirmed.root
             shown == {table[pid] : pid \in Members(root.pid)}
  <2>1. Gate = "none"
    BY DEF HandedInv, HandoverInv
  <2>2. /\ root.pid \in DOMAIN table /\ ~RootChanged /\ ~GroupChanged
        /\ Preflight(root.pid) = "none"
        /\ IsProtected(root.pid) => auth = "protectedTyped"
        /\ auth = "skipped" => SkipAllowed(FreshRoot)
    BY <2>1 DEF Gate
  <2>3. pin = root.who
    <3>1. CASE root.endpoints = {}
      <4>1. table[root.pid].who = root.who
        BY <2>2, <3>1 DEF RootChanged
      <4> QED
        BY <2>2, <4>1 DEF HandedInv, HandoverInv
    <3>2. CASE root.endpoints # {}
      BY <3>2 DEF HandedInv, HandoverInv, Pinned
    <3> QED
      BY <3>1, <3>2
  <2>4. Alive(pin) => table[root.pid].who = pin
    BY DEF HandedInv, HandoverInv, Alive, Dead, Live, Active
  <2>5. ByGroup => table[root.pid].group = confirmed.group
    BY <2>2 DEF GroupChanged
  <2>6. ASSUME NEW row \in shown, row.name \in Protected
        PROVE  row = table[root.pid] /\ auth = "protectedTyped"
    <3>1. PICK pid \in Members(root.pid) : row = table[pid]
      OBVIOUS
    <3>2. pid = root.pid
      BY <2>2, <2>6, <3>1 DEF Preflight, IsProtected
    <3> QED
      BY <2>2, <2>6, <3>1, <3>2 DEF IsProtected
  <2>7. FreshRoot.pid = root.pid
    <3>1. CASE root.endpoints = {}
      BY <3>1 DEF FreshRoot, TargetOfRow
    <3>2. CASE root.endpoints # {}
      BY <3>2 DEF FreshRoot, HandedInv, HandoverInv, Pinned
    <3> QED
      BY <3>1, <3>2
  <2>8. ASSUME auth = "skipped", NEW row \in shown PROVE ~Warned(row.name, row.parent)
    BY <2>2, <2>7, <2>8 DEF SkipAllowed
  <2> QED
    BY <2>3, <2>4, <2>5, <2>6, <2>8 DEF HandoverIsConfirmed
<1>2. Spec => []HandedInv
  BY HandedStarts, HandedSteps, PTL DEF Spec
<1> QED
  BY <1>1, <1>2, PTL

-----------------------------------------------------------------------------
\* A confirmation is not in vain

\* Nothing was disturbed and nobody signalled, and there is nobody to refuse a signal.
Undisturbed == budget = MaxDisturbances /\ \A p \in Proc : signals[p] = 0
Calm == Undisturbed /\ ~\E p \in Proc : Forbidden(p)

\* Where no process starts as a zombie, none becomes one before the first signal.
NoZombies == \A t \in Start : \A p \in Proc : t.status[p] # "zombie"
NobodyDies == Undisturbed => \A p \in Proc : pending[p] = {} /\ status[p] # "zombie"

Sees == {"batch", "scoped", "preview"}
Resolving == {"batchPrompt", "prepare", "fresh", "deliver"}
Going == {"prepare", "fresh", "deliver", "pin"} \cup Pinned

PlanShown == \A i \in DOMAIN plan : /\ plan[i].target = ResolvedTarget(rows, plan[i].by)
                                    /\ RefusalOf(plan[i].by) = "none"
PinsShown == \A i \in DOMAIN pins : outcomes[i] = "none" /\ pins[i] = plan[i].target.who
RootShown ==
    /\ RootProblem = "none" /\ Preflight(Root.pid) = "none"
    /\ confirmed = [root |-> Root, group |-> table[Root.pid].group]
    /\ RootProtected(Root) => ~invocation.yes /\ auth = "protectedTyped"
    /\ auth = "skipped" => SkipAllowed(Root)

\* While all is calm whatever was read is what would be read now, whoever is pinned
\* is who was shown, and a confirmed kill is on its way.
OnItsWay ==
    /\ answered => step \in Going
    /\ step \in Sees \cup Resolving \cup Decided => rows = ViewNow
    /\ step \in {"preview"} \cup Decided => table = TableNow
    /\ step \in Resolving => PlanShown /\ PinsShown
    /\ step = "deliver" => fresh = ViewNow
    /\ step \in Decided => RootShown
    /\ step \in Pinned => pin = Occupant(confirmed.root.pid)
    /\ step = "recheckRows" => confirmed.root.endpoints # {}
CalmInv == Calm => OnItsWay

\* In a calm world nothing happens but that a stop takes effect.
Same == /\ UNCHANGED <<parent, pgrp, name, pending, holds, budget, signals, unreadable>>
        /\ \A p \in Proc : \/ status'[p] = status[p]
                           \/ status[p] = "stopping" /\ status'[p] = "stopped"

LEMMA CommandMoves ==
    ASSUME Command
    PROVE  /\ WorldStays /\ UNCHANGED unreadable
           /\ budget' = budget \/ budget' = budget - 1
           /\ UNCHANGED <<pending, signals>> \/ \E who : Send(who)
<1> USE DEF WorldStays, Unmoved, Fault, worldVars, kernelVars, commandVars
<1>1. CASE Dispatch
  BY <1>1 DEF Dispatch
<1>2. CASE BatchStep
  <2>1. CASE BatchPlan \/ Prepare \/ BatchSettle \/ BatchReport
    BY <2>1 DEF BatchPlan, Prepare, BatchSettle, BatchReport
  <2>2. CASE BatchConfirm \/ BatchFresh \/ Interrupted
    BY <2>2 DEF BatchConfirm, BatchFresh, Interrupted
  <2>3. CASE DeliverOne
    BY <2>3 DEF DeliverOne, Send, Deliver
  <2> QED
    BY <1>2, <2>1, <2>2, <2>3 DEF BatchStep
<1>3. CASE ScopedStep
  <2>1. CASE ReadTable \/ Preview \/ ScopedConfirm \/ ScopedReport
    BY <2>1 DEF ReadTable, Preview, ScopedConfirm, ScopedReport
  <2>2. CASE PinRoot \/ RecheckRows \/ RecheckTable \/ RunGates
    BY <2>2 DEF PinRoot, RecheckRows, RecheckTable, RunGates
  <2>3. CASE Execute
    BY <2>3 DEF Execute, Send, Deliver
  <2> QED
    BY <1>3, <2>1, <2>2, <2>3 DEF ScopedStep
<1>4. CASE SettleStep /\ UNCHANGED commandVars
  BY <1>4 DEF SettleStep, ObserveExit, PollPorts, Pause
<1>5. CASE WhyStep
  BY <1>5 DEF WhyStep, WhyCollect, Probe, WhyReport, whyVars, SeeSockets
<1>6. CASE ListStep
  BY <1>6 DEF ListStep, ListCollect, ListPrint, SeeSockets
<1>7. CASE InspectStep
  BY <1>7 DEF InspectStep, InspectCollect, InspectTable, InspectReport, SeeSockets
<1> QED
  BY <1>1, <1>2, <1>3, <1>4, <1>5, <1>6, <1>7 DEF Command

LEMMA CalmStep ==
    ASSUME HandedInv, NobodyDies, [Next]_vars, Undisturbed'
    PROVE  Undisturbed /\ Same
<1>0. /\ signals \in [Proc -> Nat] /\ KernelTypeOK /\ MaxDisturbances \in Nat
      /\ holds \in [Proc -> SUBSET Socket] /\ \A p \in Proc : holds[p] # {} => status[p] \in Live
      /\ budget \in 0..MaxDisturbances /\ budget' = MaxDisturbances
      /\ \A p \in Proc : signals'[p] = 0
  BY KernelAssumption DEF HandedInv, HoldersLive, IInv, WorldInv, BatchInv, SignalsAreOf,
     Undisturbed, KernelTypeOK
<1>1. CASE Command
  <2>1. /\ WorldStays /\ UNCHANGED unreadable
        /\ budget' = budget \/ budget' = budget - 1
        /\ UNCHANGED <<pending, signals>> \/ \E who : Send(who)
    BY <1>1, CommandMoves
  <2>2. budget' = budget
    BY <1>0, <2>1
  <2>3. CASE UNCHANGED <<pending, signals>>
    BY <1>0, <2>1, <2>2, <2>3 DEF Undisturbed, Same, WorldStays
  <2>4. CASE \E who : Send(who)
    <3>1. PICK who : Send(who)
      BY <2>4
    <3>2. \A p \in Proc : signals[p] = 0 /\ p \notin who
      BY <1>0, <3>1 DEF Send, Deliver
    <3>3. pending' = pending /\ signals' = signals
      BY <1>0, <3>1, <3>2 DEF Send, Deliver, KernelTypeOK
    <3> QED
      BY <1>0, <2>1, <2>2, <3>3 DEF Undisturbed, Same, WorldStays
  <2> QED
    BY <2>1, <2>3, <2>4
<1>2. CASE World
  <2>1. UNCHANGED <<signals, unreadable>>
    BY <1>2 DEF World, commandVars
  <2>2. CASE budget' = budget - 1
    BY <1>0, <2>2
  <2>3. CASE budget' = budget
    <3>1. Undisturbed /\ \A p \in Proc : pending[p] = {} /\ status[p] # "zombie"
      BY <1>0, <2>1, <2>3 DEF Undisturbed, NobodyDies
    <3>2. PICK p \in Proc : StopTakesEffect(p) /\ Inherit
      <4>1. budget - 1 # budget
        BY <1>0
      <4> QED
        BY <1>2, <2>3, <3>1, <4>1 DEF World, WorldStep, KernelStep, TermTakesEffect, KillTakesEffect,
           Reap, Fork, Spawn, Die, Exec, Regroup, OutsideStop, OutsideCont, Open, Close, Pass,
           Respawn, Expire, Disturb
    <3>3. status' = [status EXCEPT ![p] = "stopped"] /\ status[p] = "stopping"
          /\ UNCHANGED <<parent, pgrp, name, pending, budget>>
      BY <3>2 DEF StopTakesEffect
    <3>4. \A q \in Proc : \/ status'[q] = status[q]
                          \/ status[q] = "stopping" /\ status'[q] = "stopped"
      BY <1>0, <3>3 DEF KernelTypeOK
    <3>5. \A q \in Proc : holds[q] = IF status'[q] \notin Live THEN {}
                            ELSE IF status[q] = "unborn" /\ parent'[q] \in Proc THEN holds[parent'[q]]
                            ELSE holds[q]
      BY <1>0, <3>4 DEF Live, Active
    <3>6. holds' = holds
      BY <1>0, <3>2, <3>5 DEF Inherit
    <3> QED
      BY <2>1, <3>1, <3>3, <3>4, <3>6 DEF Same
  <2>4. budget' = budget \/ budget' = budget - 1
    BY <1>2 DEF World, WorldStep, KernelStep, StopTakesEffect, TermTakesEffect, KillTakesEffect,
       Reap, Fork, Spawn, Die, Exec, Regroup, OutsideStop, OutsideCont, Open, Close, Pass,
       Respawn, Expire, Disturb
  <2> QED
    BY <2>2, <2>3, <2>4
<1>3. CASE Terminated \/ UNCHANGED vars
  BY <1>0, <1>3 DEF Terminated, vars, worldVars, kernelVars, commandVars, Undisturbed, Same
<1> QED
  BY <1>1, <1>2, <1>3 DEF Next

\* Then every look shows what it showed.
LEMMA SameShows ==
    ASSUME WorldInv, Same
    PROVE  /\ UNCHANGED <<ViewNow, TableNow>> /\ \A pid : Occupant(pid)' = Occupant(pid)
           /\ \A p : Forbidden(p)' <=> Forbidden(p)
<1>1. \A p \in Proc : /\ status'[p] \in Present <=> status[p] \in Present
                      /\ status'[p] \in Live <=> status[p] \in Live
  BY DEF Same, Present, Live, Active
<1>2. \A pid, p : Has(pid, p)' <=> Has(pid, p)
  BY <1>1 DEF Has
<1>3. ASSUME NEW pid PROVE Occupant(pid)' = Occupant(pid)
  <2>1. CASE \E p \in Proc : Has(pid, p)
    <3>1. PICK p \in Proc : Has(pid, p)
      BY <2>1
    <3>2. Occupant(pid)' \in Proc /\ Has(pid, Occupant(pid)')
      BY <1>2, <3>1 DEF Occupant
    <3> QED
      BY <3>2, OccupantIs DEF WorldInv
  <2>2. CASE ~\E p \in Proc : Has(pid, p)
    BY <1>2, <2>2 DEF Occupant
  <2> QED
    BY <2>1, <2>2
<1>4. UNCHANGED PresentPids
  BY <1>2 DEF PresentPids
<1>5. \A p : ParentPid(p)' = ParentPid(p)
  BY DEF ParentPid, Same
<1>6. UNCHANGED TableNow
  BY <1>3, <1>4, <1>5 DEF TableNow, Same
<1>7. UNCHANGED <<Readable, ShownEndpoints>>
  BY DEF Same, Readable, Holding, ShownEndpoints, Exists
<1>8. UNCHANGED ViewNow
  BY <1>3, <1>5, <1>7 DEF ViewNow, Same
<1>9. \A p : Forbidden(p)' <=> Forbidden(p)
  BY <1>1 DEF Forbidden, Gone, Same
<1> QED
  BY <1>3, <1>6, <1>8, <1>9

\* What is resolved in a snapshot of now is a process that is there, with its name.
LEMMA ResolvedNow ==
    ASSUME WorldInv, HoldersLive, NEW sel, Unresolved(ViewNow, sel) = "none", NEW target,
           target = ResolvedTarget(ViewNow, sel)
    PROVE  /\ target.who = Occupant(target.pid) /\ target.who \in Proc
           /\ Has(target.pid, target.who) /\ target.name = name[target.who]
           /\ target.endpoints # {}
<1> DEFINE edges == RowsOf(ViewNow, sel)
<1>1. edges # {} /\ edges \subseteq ViewNow.edges
  BY DEF Unresolved, RowsOf, RowsOfPid, RowsOfPort
<1>2. TheOwner(edges) \in OwnersOf(edges)
  <2>1. \E pid : pid \in OwnersOf(edges)
    BY <1>1 DEF OwnersOf
  <2> QED
    BY <2>1 DEF TheOwner
<1>3. PICK edge \in edges : edge[2] = TheOwner(edges)
  BY <1>2 DEF OwnersOf
<1>4. target.pid = TheOwner(edges) /\ target.who = ViewNow.who[target.pid]
      /\ target.name = ViewNow.named[target.who] /\ target.endpoints = EndpointsOf(edges)
  BY DEF ResolvedTarget, TargetFrom
<1>5. target.pid \in Pid /\ target.who \in Started
  BY <1>1, <1>3, <1>4, ViewShows
<1>6. target.who = Occupant(target.pid) /\ target.name = name[target.who]
  BY <1>4, <1>5 DEF ViewNow
<1>7. target.who \in Proc /\ target.who # NoProc
  BY <1>5, KernelAssumption DEF Started
<1>8. Has(target.pid, target.who)
  BY <1>6, <1>7, OccupantHolds
<1>9. target.endpoints # {}
  BY <1>1, <1>4 DEF EndpointsOf
<1> QED
  BY <1>6, <1>7, <1>8, <1>9

\* The plans are of what was read.
LEMMA RootStays ==
    ASSUME UNCHANGED <<invocation, unreadable, rows, table>>
    PROVE  /\ UNCHANGED <<Root, RootProblem>>
           /\ \A pid : Preflight(pid)' = Preflight(pid)
           /\ \A root : /\ RootProtected(root)' <=> RootProtected(root)
                        /\ SkipAllowed(root)' <=> SkipAllowed(root)
<1>1. UNCHANGED <<ByGroup, TheSelector>>
  BY DEF ByGroup, TheSelector
<1>2. UNCHANGED Below
  BY DEF Below
<1>3. \A pid : TreeOf(pid)' = TreeOf(pid) /\ GroupOf(pid)' = GroupOf(pid)
  BY <1>2 DEF TreeOf, GroupOf
<1>4. \A pid : Members(pid)' = Members(pid) /\ (IsProtected(pid)' <=> IsProtected(pid))
  BY <1>1, <1>3 DEF Members, IsProtected
<1>5. \A pid : Preflight(pid)' = Preflight(pid)
  BY <1>4 DEF Preflight
<1>6. ResolvedTarget(rows, TheSelector)' = ResolvedTarget(rows, TheSelector)
      /\ Unresolved(rows, TheSelector)' = Unresolved(rows, TheSelector)
      /\ (Unprovable(rows, TheSelector)' <=> Unprovable(rows, TheSelector))
  BY <1>1 DEF ResolvedTarget, TargetFrom, RowsOf, RowsOfPid, RowsOfPort, TheOwner, OwnersOf,
     EndpointsOf, Unresolved, HiddenOn, SoleOwner, Unprovable
<1>7. \A pid : TargetOfRow(pid)' = TargetOfRow(pid)
  BY <1>4 DEF TargetOfRow
<1>8. Portless' <=> Portless
  BY <1>1, <1>6 DEF Portless
<1>9. UNCHANGED <<Root, RootProblem>>
  BY <1>1, <1>6, <1>7, <1>8 DEF Root, RootProblem
<1>10. \A root : (RootProtected(root)' <=> RootProtected(root)) /\ (SkipAllowed(root)' <=> SkipAllowed(root))
  BY <1>1, <1>4 DEF RootProtected, SkipAllowed
<1> QED
  BY <1>5, <1>9, <1>10

LEMMA ShownStays ==
    ASSUME UNCHANGED <<invocation, unreadable, rows>>
    PROVE  /\ UNCHANGED plan => (PlanShown' <=> PlanShown)
           /\ UNCHANGED <<table, confirmed, auth>> => (RootShown' <=> RootShown)
<1>1. \A sel : /\ ResolvedTarget(rows, sel)' = ResolvedTarget(rows, sel)
               /\ RefusalOf(sel)' = RefusalOf(sel)
  BY DEF ResolvedTarget, TargetFrom, RowsOf, RowsOfPid, RowsOfPort, TheOwner, OwnersOf,
     EndpointsOf, Unresolved, HiddenOn, SoleOwner, Unprovable, RefusalOf
<1>2. UNCHANGED plan => (PlanShown' <=> PlanShown)
  BY <1>1 DEF PlanShown
<1>3. UNCHANGED <<table, confirmed, auth>> => (RootShown' <=> RootShown)
  BY RootStays DEF RootShown
<1> QED
  BY <1>2, <1>3

\* What was let pass by the plan is let pass by the same snapshot again.
LEMMA NoObjection ==
    ASSUME NEW sel, Unresolved(rows, sel) = "none", ~Unprovable(rows, sel), NEW target,
           target = ResolvedTarget(rows, sel), ~(invocation.yes /\ target.protected)
    PROVE  Objection(rows, sel, target) = "none"
<1>1. SoleOwner(RowsOf(rows, sel)) /\ TheOwner(RowsOf(rows, sel)) \notin Unsafe
  BY DEF Unresolved
<1>2. ~(unreadable /\ sel.by = "port")
  BY <1>1 DEF Unprovable
<1>3. StillMatches(target, target)
  BY DEF StillMatches, SameProcess
<1> QED
  BY <1>2, <1>3 DEF Objection

\* A root that was shown has been resolved, and is the one to be found under its number.
LEMMA RootIsThere ==
    ASSUME WorldInv, HoldersLive, NobodyDies, Calm, rows = ViewNow, table = TableNow,
           RootProblem = "none"
    PROVE  /\ Root.pid \in DOMAIN table
           /\ Root.who = Occupant(Root.pid) /\ Alive(Root.who) /\ table[Root.pid].who = Root.who
           /\ Root.endpoints = {} => Root = TargetOfRow(Root.pid)
           /\ Root.endpoints # {} => /\ Root = ResolvedTarget(rows, TheSelector)
                                     /\ Unresolved(rows, TheSelector) = "none"
                                     /\ ~Unprovable(rows, TheSelector)
<1>1. Root.pid \in DOMAIN table
  BY DEF RootProblem, Root, TargetOfRow
<1>2. table[Root.pid].who = Occupant(Root.pid) /\ Occupant(Root.pid) \in Started
      /\ Has(Root.pid, Occupant(Root.pid))
  <2>1. table[Root.pid].who = Occupant(Root.pid) /\ Occupant(Root.pid) \in Started
    BY <1>1, TableShows
  <2>2. Occupant(Root.pid) # NoProc
    BY <2>1, KernelAssumption DEF Started
  <2> QED
    BY <2>1, <2>2, OccupantHolds
<1>3. Alive(Occupant(Root.pid))
  BY <1>2 DEF Has, Alive, Present, NobodyDies, Calm
<1>4. CASE Portless
  <2>1. Root = TargetOfRow(TheSelector.pid)
    BY <1>4 DEF Root
  <2>2. Root.pid = TheSelector.pid /\ Root.endpoints = {} /\ Root.who = table[Root.pid].who
    BY <2>1 DEF TargetOfRow
  <2> QED
    BY <1>1, <1>2, <1>3, <2>1, <2>2
<1>5. CASE ~Portless
  <2>1. /\ Root = ResolvedTarget(rows, TheSelector) /\ Unresolved(rows, TheSelector) = "none"
        /\ ~Unprovable(rows, TheSelector)
    BY <1>5 DEF Root, RootProblem
  <2>2. Root.who = Occupant(Root.pid) /\ Root.endpoints # {}
    BY <2>1, ResolvedNow
  <2> QED
    BY <1>1, <1>2, <1>3, <2>1, <2>2
<1> QED
  BY <1>4, <1>5

\* So the gates, which check what the preview checked, let it pass.
LEMMA GateOpens ==
    ASSUME WorldInv, HoldersLive, NobodyDies, Calm, rows = ViewNow, table = TableNow, RootShown
    PROVE  Gate = "none"
<1>1. /\ RootProblem = "none" /\ Preflight(Root.pid) = "none"
      /\ confirmed.root = Root /\ confirmed.group = table[Root.pid].group
      /\ RootProtected(Root) => auth = "protectedTyped"
      /\ auth = "skipped" => SkipAllowed(Root)
  BY DEF RootShown
<1>2. /\ Root.pid \in DOMAIN table /\ table[Root.pid].who = Root.who
      /\ Root.endpoints = {} => Root = TargetOfRow(Root.pid)
      /\ Root.endpoints # {} => Root = ResolvedTarget(rows, TheSelector)
  BY <1>1, RootIsThere
<1>3. FreshRoot = Root
  BY <1>1, <1>2 DEF FreshRoot
<1>4. ~RootChanged
  <2>1. Root.endpoints = {} => Root.name = table[Root.pid].name
    BY <1>2 DEF TargetOfRow
  <2> QED
    BY <1>1, <1>2, <2>1 DEF RootChanged
<1>5. Root.endpoints = {} => (Root.protected <=> IsProtected(Root.pid))
  BY <1>2 DEF TargetOfRow
<1>6. ~GroupChanged
  BY <1>1 DEF GroupChanged
<1>7. IsProtected(Root.pid) => auth = "protectedTyped"
  BY <1>1 DEF RootProtected
<1> QED
  BY <1>1, <1>2, <1>3, <1>4, <1>5, <1>6, <1>7 DEF Gate

\* Each step of a calm world keeps a confirmed kill on its way.
SameLooks == UNCHANGED <<ViewNow, TableNow>> /\ \A pid : Occupant(pid)' = Occupant(pid)

LEMMA OffTheWay ==
    ASSUME ~answered', step' \notin Sees \cup Resolving \cup Decided
    PROVE  OnItsWay'
BY DEF OnItsWay, Sees, Resolving, Decided, Pinned

LEMMA WayRests ==
    ASSUME OnItsWay, SameLooks,
           UNCHANGED <<invocation, unreadable, step, rows, answered, batchVars, scopedVars>>
    PROVE  OnItsWay'
<1>1. (PlanShown' <=> PlanShown) /\ (RootShown' <=> RootShown)
  BY ShownStays DEF batchVars, scopedVars
<1>2. PinsShown' <=> PinsShown
  BY DEF PinsShown, batchVars
<1> QED
  BY <1>1, <1>2 DEF OnItsWay, SameLooks, batchVars, scopedVars

\* The commands that end without a kill, and the dispatch.
LEMMA OthersWay ==
    ASSUME OnItsWay, SameLooks, Dispatch \/ WhyStep \/ ListStep \/ InspectStep
    PROVE  OnItsWay'
<1> USE DEF Sees, Resolving, Decided, Pinned, Going
<1>1. CASE Dispatch
  <2>1. ~answered' /\ step' \in {"done", "batch", "scoped"}
    BY <1>1 DEF Dispatch, Finish, OnItsWay
  <2>2. step' # "done" => rows' = ViewNow
    BY <1>1 DEF Dispatch, Finish
  <2> QED
    BY <2>1, <2>2 DEF OnItsWay, SameLooks
<1>2. CASE WhyStep \/ ListStep \/ InspectStep
  <2>1. /\ step \in {"dispatch", "probe", "verdicts", "list", "inspect", "report"}
        /\ step' \in {"done", "probe", "verdicts", "list", "inspect", "report"} /\ UNCHANGED answered
    <3> USE DEF Finish
    <3>1. CASE WhyStep
      BY <3>1 DEF WhyStep, WhyCollect, Probe, WhyReport
    <3>2. CASE ListStep
      BY <3>2 DEF ListStep, ListCollect, ListPrint
    <3>3. CASE InspectStep
      BY <3>3 DEF InspectStep, InspectCollect, InspectTable, InspectReport
    <3> QED
      BY <1>2, <3>1, <3>2, <3>3
  <2>2. ~answered' /\ step' \notin Sees \cup Resolving \cup Decided
    BY <2>1 DEF OnItsWay
  <2> QED
    BY <2>2, OffTheWay
<1> QED
  BY <1>1, <1>2

\* A batch is planned and answered for.
LEMMA PlanWay ==
    ASSUME BatchInv, OnItsWay, SameLooks, BatchPlan
    PROVE  OnItsWay'
<1> USE DEF Sees, Resolving, Decided, Pinned, Going
<1>1. step = "batch" /\ UNCHANGED <<invocation, unreadable, rows, pins, outcomes>>
      /\ answered' = (step' = "prepare") /\ step' \in {"done", "prepare", "batchPrompt"}
  BY DEF BatchPlan, Finish
<1>2. CASE step' = "done"
  <2>1. answered' <=> step' = "prepare"
    BY <1>1, Zenon
  <2>2. ~answered' /\ step' \notin Sees \cup Resolving \cup Decided
    BY <1>2, <2>1
  <2> QED
    BY <2>2, OffTheWay
<1>3. CASE step' # "done"
  <2> DEFINE asked == invocation.selectors
             E == Entry(asked)
  <2>1. plan' = PlanOf(asked) /\ Refusals = {}
    BY <1>3 DEF BatchPlan, Finish
  <2>2. asked \in Seq(Selector)
    BY <1>1 DEF BatchInv, AskedSomething
  <2>3. GoodFor(plan', asked, Len(asked))
    <3> HIDE DEF asked
    <3>1. Len(asked) \in Nat /\ DOMAIN asked = 1..Len(asked)
      BY <2>2
    <3> QED
      BY <2>1, <3>1, PlanOfGood
  <2>4. \A i \in DOMAIN plan' : plan'[i] \in E
    <3>1. plan' \in Seq(E)
      BY <2>3 DEF GoodFor
    <3> HIDE DEF E
    <3> QED
      BY <3>1
  <2>5. \A i \in DOMAIN plan' : RefusalOf(plan'[i].by) = "none"
    <3>1. \A j \in DOMAIN asked : RefusalOf(asked[j]) = "none"
      BY <2>1 DEF Refusals
    <3>2. \A e \in E : \E j \in DOMAIN asked : e.by = asked[j]
      BY DEF Entry
    <3> QED
      BY <2>4, <3>1, <3>2
  <2>6. \A i \in DOMAIN plan' : plan'[i].target = ResolvedTarget(rows, plan'[i].by)
    BY <2>3 DEF GoodFor
  <2>7. \A sel : /\ ResolvedTarget(rows, sel)' = ResolvedTarget(rows, sel)
                 /\ RefusalOf(sel)' = RefusalOf(sel)
    BY <1>1 DEF ResolvedTarget, TargetFrom, RowsOf, RowsOfPid, RowsOfPort, TheOwner, OwnersOf,
       EndpointsOf, Unresolved, HiddenOn, SoleOwner, Unprovable, RefusalOf
  <2>8. PlanShown'
    BY <2>5, <2>6, <2>7 DEF PlanShown
  <2>9. PinsShown'
    <3>1. outcomes = <<>> /\ Len(pins) = Len(outcomes) /\ pins \in Seq(Proc \cup {NoProc})
      BY <1>1 DEF BatchInv, PinsAreOf, Planning
    <3>2. DOMAIN pins' = {}
      BY <1>1, <3>1
    <3> QED
      BY <3>2 DEF PinsShown
  <2> QED
    BY <1>1, <1>3, <2>8, <2>9 DEF OnItsWay, SameLooks
<1> QED
  BY <1>2, <1>3

LEMMA BatchConfirmWay ==
    ASSUME OnItsWay, SameLooks, BatchConfirm, UNCHANGED budget, budget \in Nat
    PROVE  OnItsWay'
<1> USE DEF Sees, Resolving, Decided, Pinned, Going
<1>1. CASE step' = "done"
  BY <1>1, OffTheWay DEF BatchConfirm, Finish, OnItsWay, Fault
<1>2. CASE step' = "prepare"
  <2>1. step = "batchPrompt" /\ UNCHANGED <<invocation, unreadable, rows, batchVars>>
    BY <1>2 DEF BatchConfirm, Finish
  <2>2. (PlanShown' <=> PlanShown) /\ (PinsShown' <=> PinsShown)
    BY <2>1, ShownStays DEF PinsShown, batchVars
  <2> QED
    BY <1>2, <2>1, <2>2 DEF OnItsWay, SameLooks
<1> QED
  BY <1>1, <1>2 DEF BatchConfirm, Finish

\* What a sequence with one more element is.
LEMMA LongerByOne ==
    ASSUME NEW S, NEW s \in Seq(S), NEW e \in S
    PROVE  /\ DOMAIN Append(s, e) = 1..(Len(s) + 1) /\ Append(s, e)[Len(s) + 1] = e
           /\ \A i \in 1..Len(s) : Append(s, e)[i] = s[i] /\ i \in DOMAIN s
OBVIOUS

\* Who is planned is still the holder of the number.
LEMMA PrepareWay ==
    ASSUME WorldInv, HoldersLive, BatchInv, OnItsWay, SameLooks, Prepare
    PROVE  OnItsWay'
<1> USE DEF Sees, Resolving, Decided, Pinned, Going
<1> DEFINE n == Len(pins) + 1
           holder == Occupant(plan[n].target.pid)
           said == IF holder = NoProc THEN "AlreadyExited" ELSE "none"
<1>1. /\ step = "prepare" /\ step' = IF n = Len(plan) THEN "fresh" ELSE "prepare"
      /\ pins' = Append(pins, holder) /\ outcomes' = Append(outcomes, said)
      /\ UNCHANGED <<invocation, unreadable, rows, answered, plan>>
  BY DEF Prepare
<1>2. /\ pins \in Seq(Proc \cup {NoProc}) /\ outcomes \in Seq(Outcomes)
      /\ Len(pins) = Len(outcomes) /\ Len(pins) < Len(plan)
      /\ Len(plan) \in Nat /\ DOMAIN plan = 1..Len(plan)
  <2>1. /\ pins \in Seq(Proc \cup {NoProc}) /\ outcomes \in Seq(Outcomes)
        /\ Len(pins) = Len(outcomes) /\ Len(pins) < Len(plan) /\ PlanIsGood
    BY <1>1 DEF BatchInv, PinsAreOf, Batching
  <2> QED
    BY <2>1 DEF PlanIsGood
<1>3. PlanShown /\ PinsShown /\ rows = ViewNow
  BY <1>1 DEF OnItsWay
<1>4. n \in DOMAIN plan
  BY <1>2
<1>5. holder = plan[n].target.who /\ holder \in Proc
  <2>1. plan[n].target = ResolvedTarget(ViewNow, plan[n].by)
        /\ Unresolved(ViewNow, plan[n].by) = "none"
    BY <1>3, <1>4 DEF PlanShown, RefusalOf
  <2> QED
    BY <2>1, ResolvedNow
<1>6. said = "none"
  BY <1>5, KernelAssumption
<1> HIDE DEF n, holder, said
<1>7. /\ n = Len(pins) + 1 /\ n \in Nat
  BY <1>2 DEF n
<1>8. /\ DOMAIN pins' = 1..n /\ pins'[n] = holder /\ outcomes'[n] = said
      /\ \A i \in 1..Len(pins) : pins'[i] = pins[i] /\ outcomes'[i] = outcomes[i] /\ i \in DOMAIN pins
  <2>1. holder \in Proc \cup {NoProc} /\ said \in Outcomes
    BY <1>5, <1>6 DEF Outcomes
  <2>2. /\ pins \in Seq(Proc \cup {NoProc}) /\ outcomes \in Seq(Outcomes)
        /\ Len(pins) = Len(outcomes)
    BY <1>2
  <2>3. n = Len(pins) + 1 /\ n = Len(outcomes) + 1
    BY <2>2, <1>7
  <2>4. pins' = Append(pins, holder)
    BY <1>1
  <2>5. outcomes' = Append(outcomes, said)
    BY <1>1
  <2>6. /\ DOMAIN pins' = 1..n /\ pins'[n] = holder
        /\ \A i \in 1..Len(pins) : pins'[i] = pins[i] /\ i \in DOMAIN pins
    BY <2>1, <2>2, <2>3, <2>4, <2>5, LongerByOne
  <2>7. outcomes'[n] = said /\ \A i \in 1..Len(pins) : outcomes'[i] = outcomes[i]
    BY <2>1, <2>2, <2>3, <2>4, <2>5, LongerByOne
  <2> QED
    BY <2>6, <2>7
<1>9. \A i \in 1..n : i = n \/ i \in 1..Len(pins)
  BY <1>2, <1>7
<1>10. PinsShown'
  BY <1>1, <1>3, <1>5, <1>6, <1>8, <1>9 DEF PinsShown
<1>11. PlanShown'
  BY <1>1, <1>3, ShownStays
<1> QED
  BY <1>1, <1>3, <1>10, <1>11 DEF OnItsWay, SameLooks

\* So there is somebody to deliver to.
LEMMA FreshWay ==
    ASSUME BatchInv, OnItsWay, SameLooks, BatchFresh, UNCHANGED budget, budget \in Nat
    PROVE  OnItsWay'
<1> USE DEF Sees, Resolving, Decided, Pinned, Going
<1>1. /\ step = "fresh" /\ fresh' = ViewNow /\ at' = NextPrepared(1)
      /\ step' = IF at' = 0 THEN "batchSettle" ELSE "deliver"
      /\ UNCHANGED <<invocation, unreadable, rows, answered, plan, pins, outcomes>>
  BY DEF BatchFresh, Fault
<1>2. /\ Len(plan) \in Nat \ {0} /\ DOMAIN plan = 1..Len(plan) /\ DOMAIN pins = DOMAIN plan
  <2>1. /\ pins \in Seq(Proc \cup {NoProc}) /\ Len(pins) = Len(plan)
        /\ Len(plan) \in Nat \ {0} /\ DOMAIN plan = 1..Len(plan)
    BY <1>1 DEF BatchInv, PinsAreOf, PlanIsGood, Batching
  <2> QED
    BY <2>1
<1>3. PlanShown /\ PinsShown /\ rows = ViewNow
  BY <1>1 DEF OnItsWay
<1> DEFINE left == {i \in DOMAIN plan : i >= 1 /\ outcomes[i] = "none"}
<1>4. left = 1..Len(plan)
  BY <1>2, <1>3 DEF PinsShown
<1>5. at' \in 1..Len(plan)
  <2>1. 1 \in left /\ left \subseteq Nat
    BY <1>2, <1>4
  <2>2. at' = Min(left)
    BY <1>1, <2>1 DEF NextPrepared
  <2> HIDE DEF left
  <2> QED
    BY <1>4, <2>1, <2>2, LeastLeft
<1>6. step' = "deliver"
  BY <1>1, <1>2, <1>5
<1>7. PlanShown' /\ PinsShown'
  BY <1>1, <1>3, ShownStays DEF PinsShown
<1> QED
  BY <1>1, <1>3, <1>6, <1>7 DEF OnItsWay, SameLooks

\* The first delivery succeeds.
LEMMA DeliverWay ==
    ASSUME WorldInv, HoldersLive, BatchInv, NobodyDies, Calm, Undisturbed', OnItsWay, DeliverOne
    PROVE  FALSE
<1>1. /\ step = "deliver" /\ PlanShown /\ PinsShown /\ rows = ViewNow /\ fresh = ViewNow
  BY DEF DeliverOne, OnItsWay, Resolving, Sees
<1>2. at \in DOMAIN plan /\ at \in DOMAIN pins /\ signals \in [Proc -> Nat]
  <2>1. /\ at \in DOMAIN plan /\ pins \in Seq(Proc \cup {NoProc}) /\ Len(pins) = Len(plan)
        /\ Len(plan) \in Nat \ {0} /\ DOMAIN plan = 1..Len(plan) /\ signals \in [Proc -> Nat]
    BY <1>1 DEF BatchInv, PinsAreOf, SignalsAreOf, PlanIsGood, Batching
  <2> QED
    BY <2>1
<1> DEFINE sel == plan[at].by
           target == plan[at].target
           p == pins[at]
<1>3. /\ target = ResolvedTarget(rows, sel) /\ Unresolved(rows, sel) = "none"
      /\ ~Unprovable(rows, sel) /\ ~target.protected /\ p = target.who
  BY <1>1, <1>2 DEF PlanShown, PinsShown, RefusalOf
<1>4. Complaint(at) = "none"
  BY <1>1, <1>3, NoObjection DEF Complaint
<1>5. Has(target.pid, p) /\ p \in Proc /\ target.name = name[p]
  BY <1>1, <1>3, ResolvedNow
<1>6. Alive(p) /\ ~Forbidden(p)
  BY <1>5 DEF Has, Alive, Present, NobodyDies, Calm
<1>7. StillDeliverable(at)
  BY <1>1, <1>3, <1>5 DEF StillDeliverable
<1>8. Send({p})
  BY <1>4, <1>6, <1>7 DEF DeliverOne
<1>9. signals'[p] = signals[p] + 1
  BY <1>5, <1>8 DEF Send, Deliver
<1> QED
  BY <1>2, <1>5, <1>9 DEF Undisturbed, Calm

LEMMA BatchWay ==
    ASSUME WorldInv, HoldersLive, BatchInv, NobodyDies, Calm, Undisturbed', OnItsWay, SameLooks,
           BatchStep, UNCHANGED budget, budget \in Nat
    PROVE  OnItsWay'
<1>1. CASE BatchSettle \/ BatchReport
  <2>1. step = "batchSettle" /\ step' \in {"batchSettle", "done"} /\ UNCHANGED answered
    BY <1>1 DEF BatchSettle, BatchReport, commandVars, Finish
  <2> QED
    BY <2>1, OffTheWay DEF OnItsWay, Going, Sees, Resolving, Decided, Pinned
<1>2. CASE Interrupted
  BY <1>2 DEF Interrupted, Fault
<1> QED
  BY <1>1, <1>2, PlanWay, BatchConfirmWay, PrepareWay, FreshWay, DeliverWay DEF BatchStep


\* A scoped kill shows its root, of a table as it is.
LEMMA ReadTableWay ==
    ASSUME OnItsWay, SameLooks, ReadTable, UNCHANGED budget, budget \in Nat
    PROVE  OnItsWay'
<1> USE DEF Sees, Resolving, Decided, Pinned, Going
<1>1. /\ step = "scoped" /\ step' = "preview" /\ table' = TableNow
      /\ UNCHANGED <<rows, answered>>
  BY DEF ReadTable, Fault
<1>2. ~answered' /\ rows' = ViewNow
  BY <1>1 DEF OnItsWay
<1> QED
  BY <1>1, <1>2 DEF OnItsWay, SameLooks

LEMMA PreviewWay ==
    ASSUME OnItsWay, SameLooks, Preview
    PROVE  OnItsWay'
<1> USE DEF Sees, Resolving, Decided, Pinned, Going
<1>1. step = "preview" /\ ~answered /\ rows = ViewNow /\ table = TableNow
      /\ UNCHANGED <<invocation, unreadable, rows, table>>
  BY DEF Preview, OnItsWay
<1>2. CASE step' = "done"
  <2>1. UNCHANGED answered
    BY <1>2 DEF Preview, Finish
  <2> QED
    BY <1>1, <1>2, <2>1, OffTheWay
<1>3. CASE step' # "done"
  <2>1. /\ RootProblem = "none" /\ Preflight(Root.pid) = "none"
        /\ RootProtected(Root) => ~invocation.yes
        /\ confirmed' = [root |-> Root, group |-> table[Root.pid].group]
    BY <1>3 DEF Preview, Finish
  <2>2. /\ auth' = IF RootProtected(Root) THEN "protectedTyped"
                   ELSE IF invocation.yes /\ SkipAllowed(Root) THEN "skipped" ELSE "typed"
        /\ step' = IF auth' = "skipped" THEN "pin" ELSE "scopedPrompt"
    BY <1>3 DEF Preview, Finish
  <2>3. answered' <=> auth' = "skipped"
    BY <1>3 DEF Preview, Finish
  <2>4. /\ UNCHANGED <<Root, RootProblem>> /\ Preflight(Root.pid)' = Preflight(Root.pid)
        /\ RootProtected(Root)' <=> RootProtected(Root)
        /\ SkipAllowed(Root)' <=> SkipAllowed(Root)
    BY <1>1, RootStays
  <2>5. /\ RootProtected(Root) => auth' = "protectedTyped"
        /\ auth' = "skipped" => SkipAllowed(Root)
    BY <2>2
  <2>6. RootShown'
    BY <1>1, <2>1, <2>4, <2>5 DEF RootShown
  <2>7. step' \in {"pin", "scopedPrompt"} /\ (answered' => step' = "pin")
    BY <2>2, <2>3
  <2> QED
    BY <1>1, <2>6, <2>7 DEF OnItsWay, SameLooks
<1> QED
  BY <1>2, <1>3

LEMMA ConfirmWay ==
    ASSUME OnItsWay, SameLooks, ScopedConfirm, UNCHANGED budget, budget \in Nat
    PROVE  OnItsWay'
<1> USE DEF Sees, Resolving, Decided, Pinned, Going
<1>1. /\ step = "scopedPrompt" /\ ~answered
      /\ UNCHANGED <<invocation, unreadable, rows, scopedVars>>
  BY DEF ScopedConfirm, OnItsWay
<1>2. CASE step' = "done"
  <2>1. UNCHANGED answered
    BY <1>2 DEF ScopedConfirm, Fault
  <2> QED
    BY <1>1, <1>2, <2>1, OffTheWay
<1>3. CASE step' = "pin"
  <2>1. RootShown'
    BY <1>1, ShownStays DEF OnItsWay, scopedVars
  <2> QED
    BY <1>1, <1>3, <2>1 DEF OnItsWay, SameLooks, scopedVars
<1> QED
  BY <1>2, <1>3 DEF ScopedConfirm, Finish

\* The number has not changed hands, and the process it names is alive.
LEMMA PinWay ==
    ASSUME WorldInv, HoldersLive, NobodyDies, Calm, OnItsWay, SameLooks, PinRoot
    PROVE  OnItsWay'
<1> USE DEF Sees, Resolving, Decided, Pinned, Going
<1>1. /\ step = "pin" /\ rows = ViewNow /\ table = TableNow /\ RootShown
      /\ pin' = Occupant(confirmed.root.pid)
      /\ UNCHANGED <<invocation, unreadable, rows, answered, table, confirmed, auth>>
  BY DEF PinRoot, OnItsWay
<1>2. confirmed.root = Root /\ RootProblem = "none"
  BY <1>1 DEF RootShown
<1>3. pin' # NoProc
  <2>1. Root.who = Occupant(Root.pid) /\ Alive(Root.who)
    BY <1>1, <1>2, RootIsThere
  <2> QED
    BY <1>1, <1>2, <2>1, KernelAssumption DEF Alive
<1>4. step' = IF confirmed.root.endpoints = {} THEN "recheckTable" ELSE "recheckRows"
  BY <1>3 DEF PinRoot
<1>5. RootShown'
  BY <1>1, ShownStays
<1> QED
  BY <1>1, <1>4, <1>5 DEF OnItsWay, SameLooks

\* Nobody objects to the target that was confirmed, in the rows it was confirmed from.
LEMMA RecheckRowsWay ==
    ASSUME WorldInv, HoldersLive, NobodyDies, Calm, OnItsWay, SameLooks, RecheckRows,
           UNCHANGED budget, budget \in Nat
    PROVE  OnItsWay'
<1> USE DEF Sees, Resolving, Decided, Pinned, Going
<1>1. /\ step = "recheckRows" /\ rows = ViewNow /\ table = TableNow /\ RootShown
      /\ pin = Occupant(confirmed.root.pid) /\ confirmed.root.endpoints # {}
      /\ UNCHANGED <<invocation, unreadable, answered, scopedVars>>
  BY DEF RecheckRows, OnItsWay
<1>2. rows' = rows /\ (Objection(rows', TheSelector, confirmed.root) = "none" =>
                         step' = "recheckTable")
  BY <1>1 DEF RecheckRows, Fault
<1>3. /\ confirmed.root = Root /\ RootProblem = "none" /\ ~(invocation.yes /\ Root.protected)
  BY <1>1 DEF RootShown, RootProtected
<1>4. /\ Root = ResolvedTarget(rows, TheSelector) /\ Unresolved(rows, TheSelector) = "none"
      /\ ~Unprovable(rows, TheSelector)
  BY <1>1, <1>3, RootIsThere
<1>5. Objection(rows, TheSelector, Root) = "none"
  BY <1>3, <1>4, NoObjection
<1>6. step' = "recheckTable"
  BY <1>2, <1>3, <1>5
<1>7. RootShown'
  BY <1>1, <1>2, ShownStays DEF scopedVars
<1> QED
  BY <1>1, <1>2, <1>6, <1>7 DEF OnItsWay, SameLooks, scopedVars

LEMMA RecheckTableWay ==
    ASSUME OnItsWay, SameLooks, RecheckTable, UNCHANGED budget, budget \in Nat
    PROVE  OnItsWay'
<1> USE DEF Sees, Resolving, Decided, Pinned, Going
<1>1. /\ step = "recheckTable" /\ rows = ViewNow /\ table = TableNow /\ RootShown
      /\ pin = Occupant(confirmed.root.pid)
  BY DEF RecheckTable, OnItsWay
<1>2. /\ step' = "gates" /\ table' = table
      /\ UNCHANGED <<invocation, unreadable, rows, answered, confirmed, auth, pin>>
  BY <1>1 DEF RecheckTable, Fault
<1>3. RootShown'
  BY <1>1, <1>2, ShownStays
<1> QED
  BY <1>1, <1>2, <1>3 DEF OnItsWay, SameLooks

LEMMA GatesWay ==
    ASSUME WorldInv, HoldersLive, NobodyDies, Calm, OnItsWay, SameLooks, RunGates
    PROVE  OnItsWay'
<1> USE DEF Sees, Resolving, Decided, Pinned, Going
<1>1. /\ step = "gates" /\ rows = ViewNow /\ table = TableNow /\ RootShown
      /\ pin = Occupant(confirmed.root.pid)
      /\ UNCHANGED <<invocation, unreadable, rows, answered, scopedVars>>
  BY DEF RunGates, OnItsWay
<1>2. step' = "execute"
  BY <1>1, GateOpens DEF RunGates
<1>3. RootShown'
  BY <1>1, ShownStays DEF scopedVars
<1> QED
  BY <1>1, <1>2, <1>3 DEF OnItsWay, SameLooks, scopedVars

\* The root is of its own scope, and gets the signal.
LEMMA ExecuteWay ==
    ASSUME WorldInv, HoldersLive, NobodyDies, Calm, Undisturbed', signals \in [Proc -> Nat],
           OnItsWay, Execute, UNCHANGED budget
    PROVE  FALSE
<1>1. /\ step = "execute" /\ rows = ViewNow /\ table = TableNow /\ RootShown
      /\ pin = Occupant(confirmed.root.pid)
  BY DEF Execute, OnItsWay, Sees, Resolving, Decided, Pinned
<1>2. /\ confirmed.root = Root /\ RootProblem = "none" /\ confirmed.group = table[Root.pid].group
  BY <1>1 DEF RootShown
<1>3. /\ Root.pid \in DOMAIN table /\ pin = Root.who /\ Alive(pin) /\ pin \in Proc
  BY <1>1, <1>2, RootIsThere DEF Alive
<1>4. ByGroup => pgrp[pin] = confirmed.group
  BY <1>1, <1>2, <1>3 DEF TableNow
<1>5. Descends(pin, confirmed.root.who)
  <2>1. Cardinality(Proc) \in Nat
    BY KernelAssumption, FS_CardinalityType
  <2>2. pin \in Ancestors[Cardinality(Proc)][pin]
    BY <1>3, <2>1, AncestorsUnfold DEF WorldInv, KernelTypeOK
  <2> QED
    BY <1>2, <1>3, <2>2 DEF Descends
<1>6. pin \in Scope /\ Denied = {}
  BY <1>3, <1>4, <1>5 DEF Scope, Denied, Calm
<1>7. Send(Scope \ Denied)
  <2>1. budget = MaxDisturbances /\ MaxDisturbances \in Nat
    BY KernelAssumption DEF Calm, Undisturbed
  <2> QED
    BY <1>3, <2>1 DEF Execute, Fault
<1>8. signals'[pin] = signals[pin] + 1
  BY <1>3, <1>6, <1>7 DEF Send, Deliver
<1> QED
  BY <1>3, <1>8 DEF Undisturbed, Calm

LEMMA ScopedWay ==
    ASSUME WorldInv, HoldersLive, NobodyDies, Calm, Undisturbed', signals \in [Proc -> Nat],
           OnItsWay, SameLooks, ScopedStep, UNCHANGED budget, budget \in Nat
    PROVE  OnItsWay'
<1>1. CASE ScopedReport
  <2>1. step = "settle" /\ step' = "done" /\ UNCHANGED answered
    BY <1>1 DEF ScopedReport, Finish
  <2> QED
    BY <2>1, OffTheWay DEF OnItsWay, Going, Sees, Resolving, Decided, Pinned
<1> QED
  BY <1>1, ReadTableWay, PreviewWay, ConfirmWay, PinWay, RecheckRowsWay, RecheckTableWay, GatesWay,
     ExecuteWay DEF ScopedStep

-----------------------------------------------------------------------------

LEMMA CalmStarts == NoZombies /\ Init => NobodyDies /\ CalmInv
<1> SUFFICES ASSUME NoZombies, Init PROVE NobodyDies /\ CalmInv
  OBVIOUS
<1>1. NobodyDies
  BY DEF Init, WorldInit, KernelInit, NoZombies, NobodyDies
<1>2. OnItsWay
  BY DEF Init, CommandInit, OnItsWay, Sees, Resolving, Decided, Pinned
<1> QED
  BY <1>1, <1>2 DEF CalmInv

LEMMA CalmStays == HandedInv /\ NobodyDies /\ CalmInv /\ [Next]_vars => NobodyDies' /\ CalmInv'
<1> SUFFICES ASSUME HandedInv, NobodyDies, CalmInv, [Next]_vars PROVE NobodyDies' /\ CalmInv'
  OBVIOUS
<1>1. NobodyDies'
  <2> SUFFICES ASSUME Undisturbed'
               PROVE  \A p \in Proc : pending'[p] = {} /\ status'[p] # "zombie"
    BY DEF NobodyDies
  <2>1. Undisturbed /\ Same
    BY CalmStep
  <2> QED
    BY <2>1 DEF NobodyDies, Same
<1>2. CalmInv'
  <2> SUFFICES ASSUME Calm' PROVE OnItsWay'
    BY DEF CalmInv
  <2>1. Undisturbed' /\ Undisturbed /\ Same
    BY CalmStep DEF Calm
  <2>2. WorldInv /\ HoldersLive /\ BatchInv /\ budget \in Nat /\ signals \in [Proc -> Nat]
    BY KernelAssumption DEF HandedInv, IInv, WorldInv, KernelTypeOK, BatchInv, SignalsAreOf
  <2>3. SameLooks /\ Calm /\ UNCHANGED <<budget, unreadable>>
    BY <2>1, <2>2, SameShows DEF SameLooks, Calm, Same
  <2>4. OnItsWay
    BY <2>3 DEF CalmInv
  <2>5. CASE UNCHANGED <<commandVars, batchVars, scopedVars>>
    BY <2>3, <2>4, <2>5, WayRests DEF commandVars
  <2>6. CASE Command
    <3>1. CASE BatchStep
      BY <2>1, <2>2, <2>3, <2>4, <3>1, BatchWay
    <3>2. CASE ScopedStep
      BY <2>1, <2>2, <2>3, <2>4, <3>2, ScopedWay
    <3>3. CASE Dispatch \/ WhyStep \/ ListStep \/ InspectStep
      BY <2>3, <2>4, <3>3, OthersWay
    <3> QED
      BY <2>5, <2>6, <3>1, <3>2, <3>3 DEF Command
  <2>7. CASE World
    BY <2>5, <2>7 DEF World
  <2>8. CASE Terminated \/ UNCHANGED vars
    BY <2>5, <2>8 DEF Terminated, vars
  <2> QED
    BY <2>6, <2>7, <2>8 DEF Next
<1> QED
  BY <1>1, <1>2

\* Where no process starts as a zombie, which takes no signal, a confirmation is not
\* in vain: with nothing disturbed and nobody who refuses it, what was shown is what
\* every later reading finds, no recheck objects, and somebody is signalled (mod.rs
\* 476-482, scoped.rs 641-644).  And the kill it goes through to is the one confirmed.
THEOREM TheHandoverMatches == NoZombies => (Spec => []HandoverMatches)
<1> SUFFICES ASSUME NoZombies PROVE Spec => []HandoverMatches
  OBVIOUS
<1>1. HandedInv /\ CalmInv => ConfirmedGoesThrough
  <2> SUFFICES ASSUME HandedInv, CalmInv, Over, answered, budget = MaxDisturbances,
                      ~\E p \in Proc : signals[p] > 0 \/ Forbidden(p)
               PROVE  FALSE
    BY DEF ConfirmedGoesThrough
  <2>1. signals \in [Proc -> Nat]
    BY DEF HandedInv, IInv, BatchInv, SignalsAreOf
  <2>2. \A p \in Proc : signals[p] = 0
    BY <2>1
  <2>3. OnItsWay
    <3>1. \A p : Forbidden(p) => p \in Proc
      BY DEF Forbidden, Gone
    <3> QED
      BY <2>2, <3>1 DEF CalmInv, Calm, Undisturbed
  <2> QED
    BY <2>3 DEF OnItsWay, Over, Going, Pinned
<1>2. Init => HandedInv /\ NobodyDies /\ CalmInv
  BY HandedStarts, CalmStarts
<1>3. HandedInv /\ NobodyDies /\ CalmInv /\ [Next]_vars => HandedInv' /\ NobodyDies' /\ CalmInv'
  BY HandedSteps, CalmStays
<1>4. Spec => []ConfirmedGoesThrough
  BY <1>1, <1>2, <1>3, PTL DEF Spec
<1>5. Spec => []HandoverIsConfirmed
  BY TheHandoverIsConfirmed
<1>6. HandoverIsConfirmed /\ ConfirmedGoesThrough => HandoverMatches
  BY DEF HandoverMatches
<1> QED
  BY <1>4, <1>5, <1>6, PTL

-----------------------------------------------------------------------------
\* The verdicts of why

\* The snapshot has a row for every socket of a process that is bound, and where it
\* names an owner it verified, somebody held that socket.
SightInv ==
    /\ IsFiniteSet(sight) /\ \A k \in sight : k.verified \subseteq Pid
    /\ \A k \in sight : k.verified # {} =>
          \E h \in heldThen : h[1] \in Listening /\ EndpointOf[h[1]] = k.at
    /\ \A h \in heldThen : h[1] \in Listening =>
          \E k \in sight : /\ k.at = EndpointOf[h[1]] /\ ActiveSocket(k)
                           /\ k.verified # {} \/ OwnerPossiblyHidden(k)

HoldersAt(e) == {edge[2] : edge \in {h \in heldThen :
                    h[1] \in Listening /\ Authoritative(EndpointOf[h[1]], e)}}

\* The result of the probe of e says what the snapshot showed.
Says(r, e) ==
    /\ r.endpoint = e
    /\ r.verdict = "Owned" => HoldersAt(e) # {} /\ "VisibleVerifiedOwner" \in ToSet(r.evidence)
    /\ r.verdict = "KernelStateObserved" => HoldersAt(e) = {}
    /\ r.verdict = "BindableNow" =>
          /\ r.outcome = "BindableNow"
          /\ SawSocket(e) => "ObservationProbeConflict" \in ToSet(r.evidence) \/ r.omitted > 0

Listed(s) == \E S : s \in Seq(S)

VerdictsInv ==
    /\ residue \subseteq KernelSocket /\ SightInv
    /\ Listed(results) /\ \A i \in DOMAIN results : Says(results[i], Matrix[i])
    /\ step = "dispatch" => results = <<>>
    /\ invocation.scope = "why" =>
          /\ step \in {"dispatch", "probe", "verdicts", "done"} /\ (step # "done" => exit = "none")
          /\ step = "verdicts" => Len(results) = Len(Matrix) /\ DOMAIN results # {}
          /\ exit = "Success" =>
                Len(results) = Len(Matrix) /\ \A i \in DOMAIN results : results[i].verdict = "BindableNow"

-----------------------------------------------------------------------------

\* A function has no more values than arguments.
LEMMA ImageIsFinite ==
    ASSUME NEW S, IsFiniteSet(S), NEW f, DOMAIN f = S
    PROVE  IsFiniteSet({f[x] : x \in S})
<1> DEFINE T == {f[x] : x \in S}
           g == [x \in S |-> f[x]]
<1>1. g \in Surjection(S, T)
  BY DEF Surjection
<1> HIDE DEF T
<1> QED
  BY <1>1, FS_Surjection DEF T

\* A snapshot of finitely many sockets has finitely many rows.
LEMMA SightIsFinite ==
    ASSUME residue \subseteq KernelSocket, NEW doubtful
    PROVE  IsFiniteSet(Seen(doubtful))
<1> DEFINE L == {t \in Listening : Exists(t)}
           f == [s \in L |-> [at |-> EndpointOf[s],
                    state |-> IF EndpointOf[s].protocol = "udp" THEN "Bound" ELSE "Listen",
                    owners |-> OwnersSeen(s),
                    verified |-> IF s \in doubtful THEN {} ELSE OwnersSeen(s)]]
           g == [k \in residue |-> [at |-> k.at, state |-> k.state, owners |-> {}, verified |-> {}]]
<1>1. IsFiniteSet(L) /\ IsFiniteSet(residue)
  BY FS_Subset, SocketsAssumption, WhyAssumption
<1>2. DOMAIN f = L /\ DOMAIN g = residue
  OBVIOUS
<1>3. Seen(doubtful) = {f[s] : s \in L} \cup {g[k] : k \in residue}
  BY DEF Seen
<1> HIDE DEF L, f, g
<1>4. IsFiniteSet({f[s] : s \in L}) /\ IsFiniteSet({g[k] : k \in residue})
  BY <1>1, <1>2, ImageIsFinite
<1> QED
  BY <1>3, <1>4, FS_Union

\* What Seen has, and what it has it from.
LEMMA SeenIs ==
    ASSUME NEW doubtful
    PROVE  /\ \A k \in Seen(doubtful) :
                 /\ k.verified \subseteq Pid
                 /\ k.verified # {} => \E h \in Holding : h[1] \in Listening /\ EndpointOf[h[1]] = k.at
           /\ \A s \in Listening : Exists(s) =>
                 \E k \in Seen(doubtful) :
                    /\ k.at = EndpointOf[s] /\ ActiveSocket(k) /\ k.owners = OwnersSeen(s)
                    /\ k.verified \in {{}, OwnersSeen(s)}
<1>1. \A s : OwnersSeen(s) \subseteq Pid
  BY KernelAssumption DEF OwnersSeen, Readable, Holding
<1>2. \A s : OwnersSeen(s) # {} => \E h \in Holding : h[1] = s /\ h[1] \in Listening
  BY DEF OwnersSeen, Readable
<1>3. ASSUME NEW k \in Seen(doubtful)
      PROVE  /\ k.verified \subseteq Pid
             /\ k.verified # {} => \E h \in Holding : h[1] \in Listening /\ EndpointOf[h[1]] = k.at
  BY <1>1, <1>2 DEF Seen
<1>4. ASSUME NEW s \in Listening, Exists(s)
      PROVE  \E k \in Seen(doubtful) :
                    /\ k.at = EndpointOf[s] /\ ActiveSocket(k) /\ k.owners = OwnersSeen(s)
                    /\ k.verified \in {{}, OwnersSeen(s)}
  <2> DEFINE k == [at |-> EndpointOf[s],
                   state |-> IF EndpointOf[s].protocol = "udp" THEN "Bound" ELSE "Listen",
                   owners |-> OwnersSeen(s),
                   verified |-> IF s \in doubtful THEN {} ELSE OwnersSeen(s)]
  <2>1. k \in Seen(doubtful)
    BY <1>4 DEF Seen
  <2>2. EndpointOf[s] \in Endpoint
    BY SocketsAssumption
  <2>3. EndpointOf[s].protocol \in {"tcp", "udp"}
    BY <2>2, WhyAssumption DEF Protocols
  <2>4. ActiveSocket(k)
    BY <2>3 DEF ActiveSocket
  <2> QED
    BY <2>1, <2>4
<1> QED
  BY <1>3, <1>4

\* A snapshot of now says what was held at that moment.
LEMMA SightOfNow ==
    ASSUME HoldersLive, residue \subseteq KernelSocket, SeeSockets, UNCHANGED unreadable
    PROVE  SightInv'
<1>1. PICK doubtful : sight' = Seen(doubtful)
  BY DEF SeeSockets
<1>2. heldThen' = Holding
  BY DEF SeeSockets
<1>3. IsFiniteSet(sight')
  BY <1>1, SightIsFinite
<1>4. ASSUME NEW h \in Holding, h[1] \in Listening
      PROVE  \E k \in sight' : /\ k.at = EndpointOf[h[1]] /\ ActiveSocket(k)
                               /\ k.verified # {} \/ k.owners # k.verified
                                  \/ (k.owners = {} /\ ~attributed')
  <2>1. h[2] \in Proc /\ h[1] \in holds[h[2]]
    BY DEF Holding
  <2>2. Exists(h[1]) /\ Alive(h[2])
    BY <2>1 DEF Exists, HoldersLive, Alive
  <2>3. PICK k \in sight' : /\ k.at = EndpointOf[h[1]] /\ ActiveSocket(k)
                            /\ k.owners = OwnersSeen(h[1]) /\ k.verified \in {{}, OwnersSeen(h[1])}
    BY <1>1, <1>4, <2>2, SeenIs
  <2>4. CASE unreadable /\ name[h[2]] \in Foreign
    <3>1. ~attributed'
      BY <2>1, <2>2, <2>4 DEF SeeSockets
    <3> QED
      BY <2>3, <3>1
  <2>5. CASE ~(unreadable /\ name[h[2]] \in Foreign)
    <3>1. h \in Readable
      BY <1>4, <2>5 DEF Readable
    <3>2. OwnersSeen(h[1]) # {}
      BY <3>1 DEF OwnersSeen
    <3> QED
      BY <2>3, <3>2
  <2> QED
    BY <2>4, <2>5
<1> QED
  BY <1>1, <1>2, <1>3, <1>4, SeenIs DEF SightInv, OwnerPossiblyHidden, ActiveSocket

-----------------------------------------------------------------------------
\* The evidence

\* So many copies of one code.
LEMMA RepeatIs ==
    ASSUME NEW S, NEW code \in S, NEW n \in Nat
    PROVE  Repeat(code, n) \in Seq(S) /\ (n > 0 => code \in ToSet(Repeat(code, n)))
           /\ Len(Repeat(code, n)) = n /\ (n > 0 => Repeat(code, n)[1] = code)
<1> DEFINE s == Repeat(code, n)
<1>1. s = [i \in 1..n |-> code]
  BY DEF Repeat
<1>2. s \in [1..n -> S]
  BY <1>1
<1> HIDE DEF s
<1>3. s \in Seq(S) /\ Len(s) = n /\ DOMAIN s = 1..n
  BY <1>2
<1>4. ASSUME n > 0 PROVE s[1] = code /\ 1 \in DOMAIN s
  BY <1>1, <1>3, <1>4
<1>5. n > 0 => code \in ToSet(s)
  BY <1>4 DEF ToSet
<1> QED
  BY <1>3, <1>4, <1>5 DEF s

\* A concatenation has the members of both, and the first of the first.
LEMMA ToSetConcat ==
    ASSUME NEW S, NEW s \in Seq(S), NEW t \in Seq(S)
    PROVE  /\ s \o t \in Seq(S) /\ ToSet(s) \cup ToSet(t) \subseteq ToSet(s \o t)
           /\ Len(s) > 0 => Len(s \o t) > 0 /\ (s \o t)[1] = s[1]
<1>1. s \o t \in Seq(S) /\ Len(s \o t) = Len(s) + Len(t)
  OBVIOUS
<1>2. \A i \in 1..Len(s) : (s \o t)[i] = s[i]
  OBVIOUS
<1>3. \A i \in 1..Len(t) : (s \o t)[Len(s) + i] = t[i]
  OBVIOUS
<1>4. ToSet(s) \subseteq ToSet(s \o t)
  BY <1>1, <1>2 DEF ToSet
<1>5. ToSet(t) \subseteq ToSet(s \o t)
  <2> SUFFICES ASSUME NEW i \in DOMAIN t PROVE t[i] \in ToSet(s \o t)
    BY DEF ToSet
  <2>1. i \in 1..Len(t) /\ Len(s) + i \in DOMAIN (s \o t)
    BY <1>1
  <2> QED
    BY <1>3, <2>1 DEF ToSet
<1> QED
  BY <1>1, <1>2, <1>4, <1>5

BindOutcome == OtherOutcomes \cup {"AddressInUse", "BindableNow"}
Evidence == BindOutcome \cup {"VisibleVerifiedOwner", "VisibleUnreadableOwner", "NonListeningKernelState",
    "LinuxTimerEstimate", "PotentialScopeOverlap", "ScopeLimitation", "ObservationProbeConflict"}

\* A verified owner of an active match comes first in the evidence, and that the
\* bind contradicts what was seen is somewhere in it.
LEMMA EvidenceIs ==
    ASSUME SightInv, NEW e, NEW probed \in BindOutcome
    PROVE  LET all == AllEvidence(e, probed)
           IN  /\ all \in Seq(Evidence)
               /\ (\E k \in Matching(e) : ActiveSocket(k) /\ k.verified # {}) =>
                     Len(all) > 0 /\ all[1] = "VisibleVerifiedOwner"
               /\ probed = "BindableNow" /\ SawSocket(e) => "ObservationProbeConflict" \in ToSet(all)
<1> DEFINE inUse == {k \in Matching(e) : ActiveSocket(k)}
           waiting == {k \in Matching(e) : OtherTcpState(k)}
           doubtful == {k \in inUse : k.verified = {} /\ OwnerPossiblyHidden(k)}
           near(how) == {k \in sight : Relationship(k.at, e) = how}
           timed == {k \in Matching(e) : k.state = "TimeWait"}
           named == UNION {{<<k, pid>> : pid \in k.verified} : k \in inUse}
           a == Repeat("VisibleVerifiedOwner", Cardinality(named))
           b == Repeat("VisibleUnreadableOwner", Cardinality(doubtful))
           c == Repeat("NonListeningKernelState", Cardinality(waiting))
           d == <<probed>>
           m == Repeat(probed, IF probed = "PermissionDenied" THEN 1 ELSE 0)
           f == Repeat("LinuxTimerEstimate", Cardinality(timed))
           g == Repeat("PotentialScopeOverlap", Cardinality(near("PotentialScopeOverlap")))
           h == Repeat("ScopeLimitation", Cardinality(near("PotentialDualStackOverlap")))
           i == Repeat("ObservationProbeConflict", IF probed = "BindableNow" /\ SawSocket(e) THEN 1 ELSE 0)
           j == <<"ScopeLimitation">>
<1> USE DEF Evidence, BindOutcome
<1>0. \A code \in Evidence, n \in Nat :
         /\ Repeat(code, n) \in Seq(Evidence) /\ Len(Repeat(code, n)) = n
         /\ n > 0 => code \in ToSet(Repeat(code, n)) /\ Repeat(code, n)[1] = code
  <2> HIDE DEF Evidence, BindOutcome
  <2> QED
    BY RepeatIs
<1>1. /\ inUse \subseteq sight /\ waiting \subseteq sight /\ doubtful \subseteq sight /\ timed \subseteq sight
      /\ \A how : near(how) \subseteq sight
  BY DEF Matching
<1>2. \A S : S \subseteq sight => Cardinality(S) \in Nat
  BY FS_Subset, FS_CardinalityType DEF SightInv
<1>3. named \subseteq sight \X Pid
  BY <1>1 DEF SightInv
<1>4. IsFiniteSet(named) /\ Cardinality(named) \in Nat
  <2>1. IsFiniteSet(sight \X Pid)
    BY FS_Product, KernelAssumption DEF SightInv
  <2> HIDE DEF named
  <2> QED
    <3>1. named \in SUBSET (sight \X Pid)
      BY <1>3
    <3>2. IsFiniteSet(named)
      BY <2>1, <3>1, FS_Subset
    <3> QED
      BY <3>2, FS_CardinalityType
<1>5. (\E k \in Matching(e) : ActiveSocket(k) /\ k.verified # {}) => named # {}
  <2> SUFFICES ASSUME NEW k \in Matching(e), ActiveSocket(k), k.verified # {} PROVE named # {}
    OBVIOUS
  <2>1. PICK pid \in k.verified : TRUE
    OBVIOUS
  <2>2. k \in inUse
    OBVIOUS
  <2>3. <<k, pid>> \in named
    BY <2>1, <2>2
  <2> QED
    BY <2>3
<1>6. (\E k \in Matching(e) : ActiveSocket(k) /\ k.verified # {}) => Cardinality(named) > 0
  <2> HIDE DEF named
  <2> QED
    BY <1>4, <1>5, FS_EmptySet
<1>7. AllEvidence(e, probed) = a \o b \o c \o d \o m \o f \o g \o h \o i \o j
  BY DEF AllEvidence
<1>8. /\ a \in Seq(Evidence) /\ Len(a) = Cardinality(named)
      /\ Cardinality(named) > 0 => a[1] = "VisibleVerifiedOwner"
  <2> HIDE DEF named
  <2> QED
    BY <1>0, <1>4
<1>9. /\ b \in Seq(Evidence) /\ c \in Seq(Evidence) /\ f \in Seq(Evidence)
      /\ g \in Seq(Evidence) /\ h \in Seq(Evidence)
  <2> HIDE DEF doubtful, waiting, timed, near
  <2> QED
    BY <1>0, <1>1, <1>2
<1>10. d \in Seq(Evidence) /\ m \in Seq(Evidence) /\ j \in Seq(Evidence)
  <2>1. m \in Seq(Evidence)
    BY <1>0
  <2>2. probed \in Evidence
    OBVIOUS
  <2>3. d \in Seq(Evidence) /\ j \in Seq(Evidence)
    BY <2>2
  <2> QED
    BY <2>1, <2>3
<1>11. /\ i \in Seq(Evidence)
       /\ probed = "BindableNow" /\ SawSocket(e) => "ObservationProbeConflict" \in ToSet(i)
  BY <1>0
<1> HIDE DEF a, b, c, d, m, f, g, h, i, j, named
<1> HIDE DEF Evidence, BindOutcome
<1> DEFINE s2 == a \o b
           s3 == s2 \o c
           s4 == s3 \o d
           s5 == s4 \o m
           s6 == s5 \o f
           s7 == s6 \o g
           s8 == s7 \o h
           s9 == s8 \o i
           s10 == s9 \o j
           BeginsAsOne(s) == s \in Seq(Evidence) /\ (Len(a) > 0 => Len(s) > 0 /\ s[1] = a[1])
<1>12. BeginsAsOne(s2)
  BY <1>8, <1>9, ToSetConcat
<1> HIDE DEF s2
<1>13. BeginsAsOne(s3)
  BY <1>12, <1>9, ToSetConcat
<1> HIDE DEF s3
<1>14. BeginsAsOne(s4)
  BY <1>13, <1>10, ToSetConcat
<1> HIDE DEF s4
<1>15. BeginsAsOne(s5)
  BY <1>14, <1>10, ToSetConcat
<1> HIDE DEF s5
<1>16. BeginsAsOne(s6)
  BY <1>15, <1>9, ToSetConcat
<1> HIDE DEF s6
<1>17. BeginsAsOne(s7)
  BY <1>16, <1>9, ToSetConcat
<1> HIDE DEF s7
<1>18. BeginsAsOne(s8)
  BY <1>17, <1>9, ToSetConcat
<1> HIDE DEF s8
<1>19. BeginsAsOne(s9) /\ ToSet(i) \subseteq ToSet(s9)
  BY <1>18, <1>11, ToSetConcat
<1> HIDE DEF s9
<1>20. BeginsAsOne(s10) /\ ToSet(i) \subseteq ToSet(s10)
  BY <1>19, <1>10, ToSetConcat
<1> QED
  BY <1>6, <1>7, <1>8, <1>11, <1>20 DEF s2, s3, s4, s5, s6, s7, s8, s9

\* The verdict of an analysis follows from the snapshot and the probe.
LEMMA AnalyzeSays ==
    ASSUME SightInv, NEW e, NEW probed \in BindOutcome
    PROVE  Says(Analyze(e, probed), e)
<1> DEFINE all == AllEvidence(e, probed)
           kept == IF Len(all) < WhyEvidenceMax THEN Len(all) ELSE WhyEvidenceMax
           r == Analyze(e, probed)
<1>1. /\ r.endpoint = e /\ r.outcome = probed /\ r.verdict = SelectVerdict(e, probed)
      /\ r.evidence = SubSeq(all, 1, kept) /\ r.omitted = Len(all) - kept
  BY DEF Analyze
<1>2. /\ all \in Seq(Evidence)
      /\ (\E k \in Matching(e) : ActiveSocket(k) /\ k.verified # {}) =>
            Len(all) > 0 /\ all[1] = "VisibleVerifiedOwner"
      /\ probed = "BindableNow" /\ SawSocket(e) => "ObservationProbeConflict" \in ToSet(all)
  BY EvidenceIs
<1> HIDE DEF all, r
<1>3. kept \in 0..Len(all) /\ (Len(all) > 0 => kept > 0)
  BY <1>2, WhyAssumption
<1>4. kept < Len(all) => r.omitted > 0
  BY <1>1, <1>2, <1>3
<1>5. kept = Len(all) => r.evidence = all
  BY <1>1, <1>2
<1>6. Len(all) > 0 => all[1] \in ToSet(r.evidence)
  <2> SUFFICES ASSUME Len(all) > 0 PROVE all[1] \in ToSet(r.evidence)
    OBVIOUS
  <2> HIDE DEF kept
  <2>1. SubSeq(all, 1, kept) = [i \in 1..kept |-> all[i]]
    BY <1>2, <1>3
  <2>2. 1 \in DOMAIN r.evidence /\ r.evidence[1] = all[1]
    BY <1>1, <1>3, <2>1
  <2> QED
    BY <2>2 DEF ToSet
<1>7. probed # "AddressInUse" => r.verdict \notin {"Owned", "KernelStateObserved"}
  BY <1>1 DEF SelectVerdict, BindOutcome, OtherOutcomes
<1>8. ASSUME r.verdict = "Owned"
      PROVE  HoldersAt(e) # {} /\ "VisibleVerifiedOwner" \in ToSet(r.evidence)
  <2>1. PICK k \in Matching(e) : ActiveSocket(k) /\ k.verified # {}
    BY <1>1, <1>7, <1>8 DEF SelectVerdict, InUseVerdict
  <2>2. PICK h \in heldThen : h[1] \in Listening /\ EndpointOf[h[1]] = k.at
    BY <2>1 DEF SightInv, Matching
  <2>3. h[2] \in HoldersAt(e)
    BY <2>1, <2>2 DEF HoldersAt, Matching
  <2> QED
    BY <1>2, <1>6, <2>1, <2>3
<1>9. ASSUME r.verdict = "KernelStateObserved"
      PROVE  HoldersAt(e) = {}
  <2>1. \A k \in Matching(e) : ActiveSocket(k) => k.verified = {} /\ ~OwnerPossiblyHidden(k)
    BY <1>1, <1>7, <1>9 DEF SelectVerdict, InUseVerdict
  <2> SUFFICES ASSUME NEW h \in heldThen, h[1] \in Listening, Authoritative(EndpointOf[h[1]], e)
               PROVE  FALSE
    BY DEF HoldersAt
  <2>2. PICK k \in sight : /\ k.at = EndpointOf[h[1]] /\ ActiveSocket(k)
                           /\ k.verified # {} \/ OwnerPossiblyHidden(k)
    BY DEF SightInv
  <2> QED
    BY <2>1, <2>2 DEF Matching
<1>10. ASSUME r.verdict = "BindableNow"
       PROVE  /\ r.outcome = "BindableNow"
              /\ SawSocket(e) => "ObservationProbeConflict" \in ToSet(r.evidence) \/ r.omitted > 0
  <2>1. probed = "BindableNow"
    BY <1>1, <1>10 DEF SelectVerdict, InUseVerdict, BindOutcome, OtherOutcomes
  <2>2. kept < Len(all) \/ kept = Len(all)
    BY <1>2, <1>3
  <2> HIDE DEF kept
  <2>3. SawSocket(e) => "ObservationProbeConflict" \in ToSet(all)
    BY <1>2, <2>1
  <2>4. r.evidence = all \/ r.omitted > 0
    BY <1>4, <1>5, <2>2
  <2> QED
    BY <1>1, <2>1, <2>3, <2>4
<1> QED
  BY <1>1, <1>8, <1>9, <1>10 DEF Says, r

\* The exit code is success only if every endpoint could be bound.
LEMMA WhySucceeds ==
    ASSUME NEW done, DOMAIN done # {}, WhyExit(done) = "Success"
    PROVE  \A i \in DOMAIN done : done[i].verdict = "BindableNow"
<1> DEFINE reasons == {WhyExitOf(done[i].verdict) : i \in DOMAIN done}
           T == {i \in DOMAIN WorstFirst : WorstFirst[i] \in reasons}
<1>1. /\ DOMAIN WorstFirst = 1..4 /\ WorstFirst[1] = "Failure" /\ WorstFirst[2] = "PermissionDenied"
      /\ WorstFirst[3] = "NoMatch" /\ WorstFirst[4] = "Success"
  BY DEF WorstFirst
<1>2. \A verdict : WhyExitOf(verdict) \in {"Failure", "PermissionDenied", "NoMatch", "Success"}
  BY DEF WhyExitOf
<1>3. \A verdict : WhyExitOf(verdict) = "Success" => verdict = "BindableNow"
  BY DEF WhyExitOf
<1>4. reasons # {} /\ reasons \subseteq {"Failure", "PermissionDenied", "NoMatch", "Success"}
  BY <1>2
<1>5. WhyExit(done) = WorstFirst[Min(T)]
  BY DEF WhyExit
<1>6. reasons = {"Success"}
  <2> HIDE DEF reasons
  <2>1. T \subseteq 1..4 /\ \A i \in T : i \in Nat
    BY <1>1
  <2>2. T # {}
    <3>1. PICK x \in reasons : x \in {"Failure", "PermissionDenied", "NoMatch", "Success"}
      BY <1>4
    <3>2. \E i \in 1..4 : WorstFirst[i] = x
      BY <1>1, <3>1
    <3> QED
      BY <1>1, <3>2
  <2>3. \E i \in T : \A j \in T : i <= j
    <3> HIDE DEF T
    <3> QED
      BY <2>1, <2>2, NatMin
  <2>4. Min(T) \in T /\ \A j \in T : Min(T) <= j
    <3> HIDE DEF T
    <3> QED
      BY <2>3 DEF Min
  <2>5. Min(T) = 4
    BY <1>1, <1>5, <2>1, <2>4
  <2>6. 1 \notin T /\ 2 \notin T /\ 3 \notin T
    BY <2>1, <2>4, <2>5
  <2>7. "Failure" \notin reasons /\ "PermissionDenied" \notin reasons /\ "NoMatch" \notin reasons
    BY <1>1, <2>6
  <2> QED
    BY <1>4, <2>7
<1> QED
  BY <1>3, <1>6

-----------------------------------------------------------------------------

\* What a result says is of the snapshot alone.
LEMMA SaysStays ==
    ASSUME UNCHANGED <<invocation, sight, heldThen>>
    PROVE  \A r, e : Says(r, e)' <=> Says(r, e)
<1>1. \A o, t : Relationship(o, t)' = Relationship(o, t)
  BY DEF Relationship, AddressRelation, SameScope
<1>2. \A o, t : Authoritative(o, t)' <=> Authoritative(o, t)
  BY <1>1 DEF Authoritative
<1>3. \A e : HoldersAt(e)' = HoldersAt(e)
  BY <1>2 DEF HoldersAt
<1>4. \A e : SawSocket(e)' <=> SawSocket(e)
  BY <1>2 DEF SawSocket, Matching
<1> QED
  BY <1>3, <1>4 DEF Says

\* A snapshot that is kept still says what was held when it was taken.
LEMMA SightStays ==
    ASSUME SightInv, UNCHANGED <<sight, heldThen, attributed>>
    PROVE  SightInv'
BY DEF SightInv, OwnerPossiblyHidden, ActiveSocket

\* Nobody but why itself changes what it saw and said; another command may print.
LEMMA VerdictsRest ==
    ASSUME VerdictsInv, UNCHANGED <<invocation, sight, heldThen, attributed, results>>,
           residue' \subseteq residue, step' = "dispatch" => step = "dispatch",
           invocation.scope = "why" => UNCHANGED <<step, exit>>
    PROVE  VerdictsInv'
<1>1. SightInv'
  BY SightStays DEF VerdictsInv
<1>2. UNCHANGED Matrix
  BY DEF Matrix
<1>3. \A i \in DOMAIN results : Says(results[i], Matrix[i])'
  BY <1>2, SaysStays DEF VerdictsInv
<1> QED
  BY <1>1, <1>2, <1>3 DEF VerdictsInv, Listed

\* A snapshot is taken before there is a result.
LEMMA SightChanges ==
    ASSUME VerdictsInv, SightInv', results = <<>>, UNCHANGED <<results, residue, invocation>>,
           step' # "dispatch",
           invocation.scope = "why" =>
              step' \in {"probe", "done"} /\ (step' # "done" => exit' = "none") /\ exit' # "Success"
    PROVE  VerdictsInv'
<1>1. DOMAIN results' = {}
  OBVIOUS
<1> QED
  BY <1>1 DEF VerdictsInv, Listed

\* Each collector starts from no results.
LEMMA CollectingKeeps ==
    ASSUME HoldersLive, VerdictsInv, WhyCollect \/ ListCollect \/ InspectCollect
    PROVE  VerdictsInv'
<1>1. step = "dispatch" /\ results = <<>> /\ UNCHANGED <<results, residue, invocation, unreadable>>
  BY DEF WhyCollect, ListCollect, InspectCollect, VerdictsInv
<1>2. SeeSockets \/ UNCHANGED <<sight, heldThen, attributed>>
  BY DEF WhyCollect, ListCollect, InspectCollect
<1>3. SightInv'
  BY <1>1, <1>2, SightOfNow, SightStays DEF VerdictsInv
<1>4. step' # "dispatch"
  BY DEF WhyCollect, ListCollect, InspectCollect, Finish
<1>5. invocation.scope = "why" =>
         step' \in {"probe", "done"} /\ (step' # "done" => exit' = "none") /\ exit' # "Success"
  BY <1>1 DEF WhyCollect, ListCollect, InspectCollect, Finish, VerdictsInv
<1> QED
  BY <1>1, <1>3, <1>4, <1>5, SightChanges

\* One result more.
LEMMA AppendIs ==
    ASSUME NEW s, Listed(s), NEW x
    PROVE  /\ Listed(Append(s, x)) /\ Len(s) \in Nat /\ DOMAIN s = 1..Len(s)
           /\ DOMAIN Append(s, x) = 1..(Len(s) + 1)
           /\ \A i \in 1..Len(s) : Append(s, x)[i] = s[i]
           /\ Append(s, x)[Len(s) + 1] = x
<1>1. PICK S : s \in Seq(S)
  BY DEF Listed
<1> DEFINE T == S \cup {x}
<1>2. s \in Seq(T) /\ x \in T
  BY <1>1
<1> HIDE DEF T
<1>3. Append(s, x) \in Seq(T)
  BY <1>2
<1>4. Listed(Append(s, x))
  BY <1>3 DEF Listed
<1> QED
  BY <1>2, <1>4

\* One endpoint is probed and its result analysed, or the command fails.
LEMMA ProbeKeeps ==
    ASSUME VerdictsInv, Probe
    PROVE  VerdictsInv'
<1> DEFINE e == Matrix[Len(results) + 1]
<1>1. step = "probe" /\ UNCHANGED <<invocation, residue, sight, attributed, heldThen>>
  BY DEF Probe
<1>2. CASE Finish("Failure") /\ UNCHANGED results
  <2>1. SightInv' /\ UNCHANGED Matrix
    BY <1>1, SightStays DEF VerdictsInv, Matrix
  <2>2. \A i \in DOMAIN results : Says(results[i], Matrix[i])'
    BY <1>1, <1>2, <2>1, SaysStays DEF VerdictsInv
  <2> QED
    BY <1>1, <1>2, <2>1, <2>2 DEF VerdictsInv, Listed, Finish
<1>3. CASE /\ \E probed \in BindOutcome : results' = Append(results, Analyze(e, probed))
           /\ step' = IF Len(results') = Len(Matrix) THEN "verdicts" ELSE "probe"
           /\ UNCHANGED exit
  <2>1. PICK probed \in BindOutcome : results' = Append(results, Analyze(e, probed))
    BY <1>3
  <2>2. Says(Analyze(e, probed), e)
    BY AnalyzeSays DEF VerdictsInv
  <2> DEFINE x == Analyze(e, probed)
  <2> HIDE DEF x
  <2>3. /\ Listed(results') /\ Len(results) \in Nat /\ DOMAIN results = 1..Len(results)
        /\ DOMAIN results' = 1..(Len(results) + 1)
        /\ \A i \in 1..Len(results) : results'[i] = results[i]
        /\ results'[Len(results) + 1] = x
    BY <2>1, AppendIs DEF VerdictsInv, x
  <2>4. \A i \in DOMAIN results' : Says(results'[i], Matrix[i])
    BY <2>2, <2>3 DEF VerdictsInv, x
  <2>5. UNCHANGED Matrix
    BY <1>1 DEF Matrix
  <2>6. \A i \in DOMAIN results' : Says(results[i], Matrix[i])'
    BY <1>1, <2>4, <2>5, SaysStays
  <2>7. SightInv'
    BY <1>1, SightStays DEF VerdictsInv
  <2>8. DOMAIN results' # {}
    BY <2>3
  <2>9. step' \in {"probe", "verdicts"} /\ (step' = "verdicts" => Len(results') = Len(Matrix'))
    BY <1>3, <2>5
  <2>10. ASSUME invocation.scope = "why" PROVE exit' = "none"
    BY <1>1, <1>3, <2>10 DEF VerdictsInv
  <2> QED
    BY <1>1, <2>3, <2>6, <2>7, <2>8, <2>9, <2>10 DEF VerdictsInv
<1> QED
  BY <1>2, <1>3 DEF Probe, BindOutcome, BindOutcomes

\* The exit code is that of all the results, or a failure of the output.
LEMMA WhyReportKeeps ==
    ASSUME VerdictsInv, WhyReport
    PROVE  VerdictsInv'
<1>1. /\ step = "verdicts" /\ step' = "done" /\ exit' \in {WhyExit(results), "Failure"}
      /\ UNCHANGED <<invocation, whyVars>>
  BY DEF WhyReport, Finish
<1>2. UNCHANGED <<residue, sight, attributed, heldThen, results>>
  BY <1>1 DEF whyVars
<1>3. SightInv' /\ UNCHANGED Matrix
  BY <1>1, <1>2, SightStays DEF VerdictsInv, Matrix
<1>4. \A i \in DOMAIN results : Says(results[i], Matrix[i])'
  BY <1>1, <1>2, <1>3, SaysStays DEF VerdictsInv
<1>5. ASSUME invocation.scope = "why", exit' = "Success"
      PROVE  Len(results) = Len(Matrix) /\ \A i \in DOMAIN results : results[i].verdict = "BindableNow"
  BY <1>1, <1>5, WhySucceeds DEF VerdictsInv
<1> QED
  BY <1>1, <1>2, <1>3, <1>4, <1>5 DEF VerdictsInv, Listed

\* Batches and scoped kills are not at a step of why.
LEMMA KillsKeepVerdicts ==
    ASSUME VerdictsInv, BatchStep \/ ScopedStep, UNCHANGED whyVars
    PROVE  VerdictsInv'
<1> USE DEF Finish, whyVars
<1>1. CASE BatchStep
  <2>1. step \notin {"dispatch", "probe", "verdicts", "done"} /\ step' # "dispatch" /\ UNCHANGED invocation
    <3>1. CASE BatchPlan \/ Prepare \/ BatchSettle \/ BatchReport
      BY <3>1 DEF BatchPlan, Prepare, BatchSettle, BatchReport, commandVars
    <3>2. CASE BatchConfirm \/ BatchFresh \/ Interrupted
      BY <3>2 DEF BatchConfirm, BatchFresh, Interrupted
    <3>3. CASE DeliverOne
      BY <3>3 DEF DeliverOne, Outcome
    <3> QED
      BY <1>1, <3>1, <3>2, <3>3 DEF BatchStep
  <2> QED
    BY <2>1, VerdictsRest DEF VerdictsInv
<1>2. CASE ScopedStep
  <2>1. step \notin {"dispatch", "probe", "verdicts", "done"} /\ step' # "dispatch" /\ UNCHANGED invocation
    BY <1>2, RefuseIs DEF ScopedStep, ReadTable, Preview, ScopedConfirm, PinRoot, RecheckRows,
       RecheckTable, RunGates, Execute, ScopedReport
  <2> QED
    BY <2>1, VerdictsRest DEF VerdictsInv
<1> QED
  BY <1>1, <1>2

\* Every step keeps what the results say.
LEMMA VerdictSteps == HandedInv /\ VerdictsInv /\ [Next]_vars => VerdictsInv'
<1> SUFFICES ASSUME HandedInv, VerdictsInv, [Next]_vars PROVE VerdictsInv'
  OBVIOUS
<1>1. HoldersLive
  BY DEF HandedInv
<1>2. CASE Dispatch
  <2>1. /\ step = "dispatch" /\ invocation.scope \in Kills
        /\ step' # "dispatch" /\ UNCHANGED whyVars
        /\ \/ UNCHANGED invocation
           \/ invocation' = [invocation EXCEPT !.selectors = DistinctSelectors]
    BY <1>2 DEF Dispatch, Finish
  <2>2. invocation \in Invocation
    BY <2>1, KillCommandAssumption DEF HandedInv, IInv, BatchInv, AskedSomething
  <2>3. invocation'.scope # "why" /\ invocation.scope # "why"
    BY <2>1, <2>2 DEF Invocation, Kills
  <2>4. results = <<>> /\ SightInv'
    BY <2>1, SightStays DEF VerdictsInv, whyVars
  <2>5. DOMAIN results' = {}
    BY <2>1, <2>4 DEF whyVars
  <2> QED
    BY <2>1, <2>3, <2>4, <2>5 DEF VerdictsInv, whyVars, Listed
<1>3. CASE (BatchStep \/ ScopedStep) /\ UNCHANGED whyVars
  BY <1>3, KillsKeepVerdicts
<1>4. CASE WhyStep
  BY <1>1, <1>4, CollectingKeeps, ProbeKeeps, WhyReportKeeps DEF WhyStep
<1>5. CASE ListStep
  <2>1. CASE ListPrint
    BY <2>1, VerdictsRest DEF ListPrint, Finish, whyVars, VerdictsInv
  <2> QED
    BY <1>1, <1>5, <2>1, CollectingKeeps DEF ListStep
<1>6. CASE InspectStep
  <2>1. CASE InspectTable
    BY <2>1, VerdictsRest DEF InspectTable, Finish, whyVars, VerdictsInv
  <2>2. CASE InspectReport
    BY <2>2, VerdictsRest DEF InspectReport, Finish, whyVars, VerdictsInv
  <2> QED
    BY <1>1, <1>6, <2>1, <2>2, CollectingKeeps DEF InspectStep
<1>7. CASE UNCHANGED <<commandVars, whyVars>>
  BY <1>7, VerdictsRest DEF commandVars, whyVars
<1>8. CASE World
  <2>1. UNCHANGED commandVars /\ UNCHANGED <<sight, attributed, stable, results, heldThen>>
        /\ residue' \subseteq residue
    BY <1>8 DEF World, Expire
  <2> QED
    BY <2>1, VerdictsRest DEF commandVars
<1>9. CASE UNCHANGED vars
  BY <1>7, <1>9 DEF vars
<1> QED
  BY <1>2, <1>3, <1>4, <1>5, <1>6, <1>7, <1>8, <1>9 DEF Next, Command, Terminated

\* Nothing is said at first.
LEMMA VerdictsStart == Init => VerdictsInv
<1> SUFFICES ASSUME Init PROVE VerdictsInv
  OBVIOUS
<1>1. /\ sight = {} /\ results = <<>> /\ heldThen = {} /\ residue \subseteq KernelSocket
      /\ step = "dispatch" /\ exit = "none"
  BY DEF Init, WhyInit, CommandInit
<1>2. SightInv
  BY <1>1, FS_EmptySet DEF SightInv
<1> QED
  BY <1>1, <1>2 DEF VerdictsInv, Listed

\* Whatever moves between the snapshot and the binds, and between one bind and the
\* next: an endpoint said to be owned was held when the snapshot was taken and the
\* evidence says by whom; one said to be the kernel's was held by nobody, seen or
\* not; and a successful `kick why` bound every endpoint, and told of each match
\* it had seen (docs/structured-output.md 817-858).
THEOREM TheVerdictsHold == Spec => []VerdictsHold
<1>1. VerdictsInv => VerdictsHold
  <2> SUFFICES ASSUME VerdictsInv PROVE VerdictsHold
    OBVIOUS
  <2>1. VerdictsAreTrue
    BY DEF VerdictsInv, VerdictsAreTrue, Says, HoldersAt
  <2>2. SuccessIsQualified
    BY DEF VerdictsInv, SuccessIsQualified, Says, SawSocket, Matching
  <2> QED
    BY <2>1, <2>2 DEF VerdictsHold
<1>2. Spec => [](HandedInv /\ VerdictsInv)
  BY HandedStarts, HandedSteps, VerdictsStart, VerdictSteps, PTL DEF Spec
<1> QED
  BY <1>1, <1>2, PTL

-----------------------------------------------------------------------------
\* The session

Entering == {"new", "hooked", "handled", "spawning", "starting", "entering", "raw", "loop"}
Leaving == {"block", "drop", "take", "unblock", "unhook", "over", "killed"}

SessionTypes ==
    /\ session \in Entering \cup Leaving \cup {"unwinding"}
    /\ {hook, blocked, raw, alternate, active, panicked, scribbled} \subseteq BOOLEAN
    /\ handlers \subseteq Termination /\ queued \subseteq Termination
    /\ arrived \subseteq Termination /\ acted \subseteq Termination
    /\ slot \in Termination \cup {NoSignal}
    /\ outcome \in Termination \cup {"none", "quit", "error"}

\* The screen is the terminal's own unless the session says it is active, and it is
\* given back before anything can kill the process.
ScreenInv ==
    /\ raw \/ alternate => active
    /\ session = "raw" => active
    /\ session \in {"new", "hooked", "handled", "spawning", "starting", "entering", "unwinding",
               "take", "unblock", "unhook", "over", "killed"} => ~raw /\ ~alternate

\* The hook is there from the start to the end; the handlers while the screen may be
\* taken; the signals are blocked for the spawn and for the teardown.
BorrowedInv ==
    /\ hook <=> session \notin {"new", "over"}
    /\ session \in {"new", "hooked", "unblock", "unhook", "over", "killed"} => handlers = {}
    /\ blocked <=> session \in {"spawning", "drop", "take", "unblock"}

\* A signal that came is in the slot, waits behind the mask, ended the loop, or was
\* acted on.
ArrivedInv ==
    /\ session \in Entering => outcome = "none"
    /\ queued # {} => blocked
    /\ session \in {"new", "hooked"} => arrived = {}
    /\ session = "unwinding" => panicked
    /\ arrived # {} /\ ~panicked =>
          /\ session \in Entering \cup {"block", "drop", "take"} =>
                slot # NoSignal \/ queued # {} \/ outcome \in Termination
          /\ session = "unblock" => queued # {}
          /\ session \in {"unhook", "over", "killed"} => acted # {}

SessionInv ==
    SessionTypes /\ ScreenInv /\ BorrowedInv /\ ArrivedInv /\ ~scribbled

LEMMA InitSession == TerminalInit => SessionInv
BY TerminalSessionAssumption
   DEF TerminalInit, SessionInit, SessionInv, SessionTypes, ScreenInv, BorrowedInv, ArrivedInv,
       Entering, Leaving, NoSignal

\* The first of the signals is recorded.
LEMMA RecordedIs ==
    ASSUME NEW before \in Termination \cup {NoSignal}, NEW delivered \in SUBSET Termination,
           NEW after \in Recorded(before, delivered)
    PROVE  /\ after \in Termination \cup {NoSignal}
           /\ before # NoSignal \/ delivered # {} => after # NoSignal
BY TerminalSessionAssumption DEF Recorded, NoSignal

LEMMA NextSession ==
    ASSUME SessionInv, [TerminalNext]_terminalVars
    PROVE  SessionInv'
<1>1. Termination \cap {"none", "quit", "error"} = {}
  BY TerminalSessionAssumption
<1>2. CASE UNCHANGED sessionVars
  BY <1>2 DEF sessionVars, screenVars, signalVars, endVars, SessionInv, SessionTypes, ScreenInv,
     BorrowedInv, ArrivedInv
<1> USE DEF SessionInv, SessionTypes, ScreenInv, BorrowedInv, ArrivedInv, Entering, Leaving,
        NoSignal, screenVars, signalVars, endVars, To, EndsAs
<1>3. CASE SignalComes
  <2>1. PICK s \in Termination :
          /\ arrived' = arrived \cup {s}
          /\ IF blocked THEN queued' = queued \cup {s} /\ UNCHANGED slot
             ELSE slot' \in Recorded(slot, {s}) /\ UNCHANGED queued
    BY <1>3 DEF SignalComes
  <2>2. CASE blocked
    BY <1>3, <2>1, <2>2 DEF SignalComes
  <2>3. CASE ~blocked
    <3>1. slot' \in Termination \cup {NoSignal} /\ slot' # NoSignal
      BY <2>1, <2>3, RecordedIs
    <3> QED
      BY <1>3, <2>1, <2>3, <3>1 DEF SignalComes
  <2> QED
    BY <2>2, <2>3
<1>4. CASE InstallPanicHook
  BY <1>4 DEF InstallPanicHook
<1>5. CASE InstallHandlers
  BY <1>5 DEF InstallHandlers
<1>6. CASE BlockForSpawn
  BY <1>6 DEF BlockForSpawn
<1>7. CASE SpawnStartup
  <2>1. /\ slot' \in Termination \cup {NoSignal}
        /\ slot # NoSignal \/ queued # {} => slot' # NoSignal
    BY <1>7, RecordedIs DEF SpawnStartup
  <2> QED
    BY <1>1, <1>7, <2>1 DEF SpawnStartup
<1>8. CASE WaitForStartup
  BY <1>1, <1>8 DEF WaitForStartup, TakeTerminationSignal
<1>9. CASE EnterRawMode
  <2>1. CASE raw' = TRUE /\ active' = TRUE /\ To("raw") /\ UNCHANGED <<outcome, budget>>
    BY <1>9, <2>1 DEF EnterRawMode
  <2>2. CASE EndsAs("error", "block") /\ UNCHANGED <<raw, active>>
    BY <1>1, <1>9, <2>2 DEF EnterRawMode
  <2> QED
    BY <1>9, <2>1, <2>2 DEF EnterRawMode
<1>10. CASE EnterAlternateScreen
  <2>1. CASE alternate' = TRUE /\ To("loop") /\ UNCHANGED <<raw, active, outcome, budget>>
    BY <1>10, <2>1 DEF EnterAlternateScreen
  <2>2. CASE EndsAs("error", "block") /\ RestoreTerminalIfActive
    BY <1>1, <1>10, <2>2 DEF EnterAlternateScreen, RestoreTerminalIfActive
  <2> QED
    BY <1>10, <2>1, <2>2 DEF EnterAlternateScreen
<1>11. ASSUME NEW wait \in BOOLEAN, LoopReturns(wait)
       PROVE  SessionInv'
  BY <1>1, <1>11 DEF LoopReturns, TakeTerminationSignal
<1>12. ASSUME NEW wait \in BOOLEAN, OwnerPanics(wait)
       PROVE  SessionInv'
  BY <1>1, <1>12 DEF OwnerPanics, RestoreTerminalIfActive
<1>13. CASE Unwind
  BY <1>13 DEF Unwind, RestoreTerminalIfActive
<1>14. CASE BlockTermination
  BY <1>14 DEF BlockTermination
<1>15. CASE DropTerminal
  BY <1>15 DEF DropTerminal, RestoreTerminalIfActive
<1>16. CASE RestoreAndRaise
  BY <1>1, <1>16 DEF RestoreAndRaise, RequestedSignal
<1>17. CASE Unblock
  BY <1>17 DEF Unblock
<1>18. CASE Unhook
  BY <1>18 DEF Unhook
<1>19. CASE OrphanPanics
  BY <1>19 DEF OrphanPanics
<1>20. CASE ReportAbandonedFailure
  BY <1>20 DEF ReportAbandonedFailure
<1> HIDE DEF SessionInv, SessionTypes, ScreenInv, BorrowedInv, ArrivedInv, Entering, Leaving,
        NoSignal, screenVars, signalVars, endVars, To, EndsAs
<1>21. Busy \in BOOLEAN
  BY DEF Busy, AtWork
<1> QED
  BY <1>2, <1>3, <1>4, <1>5, <1>6, <1>7, <1>8, <1>9, <1>10, <1>11, <1>12, <1>13, <1>14,
     <1>15, <1>16, <1>17, <1>18, <1>19, <1>20, <1>21
     DEF TerminalNext, InLoop, LoopEnds, Around, SessionStep, Stopped, terminalVars

\* However the session ends, it leaves the process as it found it.
THEOREM SessionIsAlwaysUndone == TerminalSpec => []SessionIsUndone
<1>1. SessionInv => SessionIsUndone
  BY DEF SessionInv, SessionIsUndone, ScreenInv, BorrowedInv, ArrivedInv
<1> QED
  BY <1>1, InitSession, NextSession, PTL DEF TerminalSpec

-----------------------------------------------------------------------------
\* What a confirmation shows

\* An open confirmation, or the one a kill was begun with, keeps to the process it was
\* opened for, and protection that was seen is in what must be typed for it.
ConfirmKillFields == {"st", "mode", "target", "asked", "requirement", "typed"}
ConfirmTreeFields == {"st", "mode", "target", "asked", "stage", "previewed", "typed"}
TargetFields == {"pid", "who", "name", "endpoints", "protected", "warned", "facts"}

KeepsToOne(m) ==
    /\ DOMAIN m = IF m.st = "ConfirmKill" THEN ConfirmKillFields ELSE ConfirmTreeFields
    /\ DOMAIN m.target = TargetFields
    /\ m.target.pid = m.asked.pid /\ m.target.who = m.asked.who /\ m.target.name = m.asked.name
    /\ m.target.facts \in {NoProc, m.target.who}
    /\ m.asked.name \in Protected => m.target.protected
    /\ m.target.protected =>
          IF m.st = "ConfirmKill" THEN m.requirement = "ProtectedProcess"
          ELSE m.stage = "ProtectedRoot" \/ "ProtectedProcess" \in m.typed

ModalInv == Confirming => KeepsToOne(modal)

\* While an answer about the selection may still count, the rows are those the
\* confirmation was opened on.
MayCount == contextRequested \/ (~Idle(contextWorker) /\ ~contextWorker.stale)
RowsInv ==
    Confirming /\ MayCount =>
        /\ network.who[modal.target.pid] = modal.asked.who
        /\ network.named[modal.asked.who] = modal.asked.name

\* What is known about a row is about its owner in the rows that are shown.
ContextInv == context.st = "known" => context.found \in {NoProc, OwnerIn(network, context.key)}

ContextFields == {"st", "key", "who", "found", "stale"}
RefreshFields == {"st", "stale", "view"}
ContextShape(w) == ~Idle(w) => DOMAIN w = ContextFields
RefreshShape(w) == ~Idle(w) => DOMAIN w = RefreshFields
WorkerShapes == ContextShape(contextWorker) /\ RefreshShape(refreshWorker)

\* A kill keeps what was confirmed, and what was typed for it; before it is delivered
\* the process was found again.
KillingInv ==
    killing.st # "none" =>
        /\ DOMAIN killing = {"st", "kill", "pin", "fresh"}
        /\ killing.kill.st \in {"ConfirmKill", "ConfirmTree"} /\ KeepsToOne(killing.kill)
        /\ killing.kill.target.protected => "ProtectedProcess" \in killing.kill.typed
        /\ killing.st \in {"gates", "deliver"} =>
              /\ killing.fresh.who = Confirmed.who /\ killing.fresh.name = Confirmed.name
              /\ killing.fresh.name \in Protected => Confirmed.protected

\* A worker that was at work when a kill was delivered is outdated.
OvertakenInv == overtaken => ~Idle(refreshWorker) /\ refreshWorker.stale

AppInv ==
    /\ signals \in [Proc -> Nat]
    /\ WorkerShapes /\ ModalInv /\ RowsInv /\ ContextInv /\ KillingInv /\ OvertakenInv

-----------------------------------------------------------------------------
\* What the operators of the application return

LEMMA NoneIs == None.st = "none" /\ Idle(None)
BY DEF None, Idle

LEMMA NewWorkers ==
    ASSUME NEW view, NEW key
    PROVE  /\ ~Idle(NewRefresh) /\ RefreshShape(NewRefresh)
           /\ ~Idle(NewContext(view, key)) /\ ContextShape(NewContext(view, key))
BY DEF Idle, NewRefresh, NewContext, ContextShape, RefreshShape, ContextFields, RefreshFields

\* load_selected_process_context keeps what is shown or clears it, and keeps, ends or
\* starts a worker; of an outdated answer it shows nothing.
ReadingFields == {"worker", "wanted", "shown"}
LEMMA LoadIs ==
    ASSUME NEW s, DOMAIN s = ReadingFields, NEW view, NEW key, NEW ok
    PROVE  /\ Load(s, view, key, ok).worker \in {s.worker, None, NewContext(view, key)}
           /\ Load(s, view, key, ok).shown \in {s.shown, None}
BY DEF Load, ReadingFields

\* What apply_network_snapshot outdates cannot count any more.
LEMMA OutdateIs ==
    ASSUME ContextShape(contextWorker)
    PROVE  /\ DOMAIN Outdate(Reading) = ReadingFields
           /\ ~Outdate(Reading).wanted /\ Outdate(Reading).shown = None
           /\ ContextShape(Outdate(Reading).worker)
           /\ ~Idle(Outdate(Reading).worker) => Outdate(Reading).worker.stale
<1>1. /\ DOMAIN Outdate(Reading) = ReadingFields
      /\ Outdate(Reading).worker = Outdated(contextWorker)
      /\ Outdate(Reading).wanted = FALSE /\ Outdate(Reading).shown = None
  BY DEF Outdate, Reading, ReadingFields
<1>2. CASE Idle(contextWorker)
  BY <1>1, <1>2 DEF Outdated
<1>3. CASE ~Idle(contextWorker)
  <2> DEFINE w == [contextWorker EXCEPT !.stale = TRUE, !.found = NoProc]
  <2>1. DOMAIN contextWorker = ContextFields /\ Outdated(contextWorker) = w
    BY <1>3 DEF ContextShape, Outdated
  <2>2. DOMAIN w = ContextFields /\ w.stale
    BY <2>1 DEF ContextFields
  <2> QED
    BY <1>1, <2>1, <2>2 DEF ContextShape
<1> QED
  BY <1>2, <1>3

\* A target made of a snapshot's rows.
LEMMA TargetOfIs ==
    ASSUME NEW view, NEW pid, NEW facts
    PROVE  LET target == TargetOf(view, pid, facts)
           IN  /\ DOMAIN target = TargetFields
               /\ target.pid = pid /\ target.who = view.who[pid]
               /\ target.name = view.named[view.who[pid]] /\ target.facts = facts
               /\ target.protected <=> target.name \in Protected
BY DEF TargetOf, TargetFrom, TargetFields

-----------------------------------------------------------------------------
\* The invariant, step by step

LEMMA InitApp == TerminalInit => AppInv
<1> SUFFICES ASSUME TerminalInit PROVE AppInv
  OBVIOUS
<1>1. /\ signals = [p \in Proc |-> 0] /\ modal = None /\ refreshWorker = None
      /\ contextWorker = None /\ context = None /\ killing = None /\ overtaken = FALSE
  BY DEF TerminalInit, AppInit, TargetsInit
<1>2. signals \in [Proc -> Nat] /\ ContextShape(contextWorker) /\ RefreshShape(refreshWorker)
  BY <1>1, NoneIs DEF ContextShape, RefreshShape
<1> QED
  BY <1>1, <1>2, NoneIs
     DEF AppInv, WorkerShapes, ModalInv, RowsInv, ContextInv, KillingInv, OvertakenInv, Confirming

LEMMA RestApp ==
    ASSUME AppInv, UNCHANGED <<signals, appVars>>
    PROVE  AppInv'
BY DEF AppInv, WorkerShapes, ContextShape, RefreshShape, ModalInv, KeepsToOne, RowsInv, ContextInv,
       KillingInv, OvertakenInv, MayCount, Idle, Confirming, Confirmed, OwnerIn, appVars, readerVars

\* A worker's step changes neither what it was asked nor whether its answer may count.
LEMMA WorkersApp ==
    ASSUME AppInv, WorkerStep
    PROVE  AppInv'
<1>1. UNCHANGED <<signals, network, modal, contextRequested, context, killing, overtaken>>
  BY DEF WorkerStep
<1>2. /\ RefreshShape(refreshWorker') /\ (Idle(refreshWorker') <=> Idle(refreshWorker))
      /\ ~Idle(refreshWorker) => (refreshWorker'.stale = refreshWorker.stale)
  <2>1. CASE CollectRows
    <3>1. ~Idle(refreshWorker) /\ DOMAIN refreshWorker = RefreshFields
      BY <2>1 DEF CollectRows, AtWork, Idle, AppInv, WorkerShapes, RefreshShape
    <3>2. \/ refreshWorker' = [refreshWorker EXCEPT !.st = "done",
                                   !.view = IF refreshWorker.stale THEN @ ELSE ViewNow]
          \/ refreshWorker' = [refreshWorker EXCEPT !.st = "failed"]
      BY <2>1 DEF CollectRows
    <3> QED
      BY <3>1, <3>2 DEF Idle, RefreshShape, RefreshFields
  <2>2. CASE UNCHANGED refreshWorker
    BY <2>2 DEF AppInv, WorkerShapes
  <2> QED
    BY <2>1, <2>2 DEF WorkerStep
<1>3. /\ ContextShape(contextWorker') /\ (Idle(contextWorker') <=> Idle(contextWorker))
      /\ ~Idle(contextWorker) => (contextWorker'.stale = contextWorker.stale)
  <2>1. CASE ReadContext
    <3>1. ~Idle(contextWorker) /\ DOMAIN contextWorker = ContextFields
      BY <2>1 DEF ReadContext, AtWork, Idle, AppInv, WorkerShapes, ContextShape
    <3>2. \/ \E found1 : contextWorker' = [contextWorker EXCEPT !.st = "read", !.found = found1]
          \/ \E found1 : contextWorker' = [contextWorker EXCEPT !.st = "done", !.found = found1]
          \/ contextWorker' = [contextWorker EXCEPT !.st = "lost"]
      BY <2>1 DEF ReadContext
    <3> QED
      BY <3>1, <3>2 DEF Idle, ContextShape, ContextFields
  <2>2. CASE UNCHANGED contextWorker
    BY <2>2 DEF AppInv, WorkerShapes
  <2> QED
    BY <2>1, <2>2 DEF WorkerStep
<1>4. MayCount' => MayCount
  BY <1>1, <1>3 DEF MayCount, Idle
<1> QED
  BY <1>1, <1>2, <1>3, <1>4
     DEF AppInv, WorkerShapes, ContextShape, RefreshShape, ModalInv, KeepsToOne, RowsInv, ContextInv,
         KillingInv, OvertakenInv, Idle, Confirming, Confirmed, OwnerIn

\* A new snapshot: an open confirmation keeps to the process, and no answer about the
\* rows before counts any more.
LEMMA RefreshApp ==
    ASSUME AppInv, TakeRefresh
    PROVE  AppInv'
<1>1. PICK ok \in BOOLEAN : PollRefresh(ok)
  BY DEF TakeRefresh, Loop
<1>2. UNCHANGED <<signals, modal, killing>> /\ killing = None /\ overtaken' = FALSE
  BY <1>1 DEF TakeRefresh, Loop, PollRefresh
<1>3. RefreshShape(refreshWorker')
  BY <1>1, NoneIs, NewWorkers DEF PollRefresh, StartRefresh, RefreshShape
<1>4. ContextShape(contextWorker') /\ ContextInv' /\ RowsInv'
  <2>1. CASE UNCHANGED <<network, contextWorker, contextRequested, context>>
    BY <1>2, <2>1
       DEF AppInv, WorkerShapes, ContextInv, RowsInv, MayCount, Confirming, OwnerIn, Idle
  <2>2. CASE ApplySnapshot(refreshWorker.view, ok)
    <3> DEFINE s == Outdate(Reading)
    <3>1. /\ DOMAIN s = ReadingFields /\ ~s.wanted /\ s.shown = None
          /\ ContextShape(s.worker) /\ (~Idle(s.worker) => s.worker.stale)
      BY OutdateIs DEF AppInv, WorkerShapes
    <3>2. CASE ~Showing("Details")
      <4>1. contextWorker' = s.worker /\ contextRequested' = s.wanted /\ context' = s.shown
        BY <2>2, <3>2 DEF ApplySnapshot, BecomesReading
      <4> QED
        BY <3>1, <4>1, NoneIs DEF ContextInv, RowsInv, MayCount, Idle
    <3>3. CASE Showing("Details")
      <4> DEFINE r == Load(s, refreshWorker.view, selected', ok)
      <4>1. contextWorker' = r.worker /\ context' = r.shown
        BY <2>2, <3>3 DEF ApplySnapshot, BecomesReading
      <4> HIDE DEF s
      <4>2. context' = None
            /\ contextWorker' \in {s.worker, None, NewContext(refreshWorker.view, selected')}
        BY <3>1, <4>1, LoadIs
      <4> QED
        BY <1>2, <3>1, <3>3, <4>2, NoneIs, NewWorkers
           DEF ContextInv, RowsInv, Confirming, Showing, ContextShape
    <3> QED
      BY <3>2, <3>3
  <2> QED
    BY <1>1, <2>1, <2>2 DEF PollRefresh
<1> QED
  BY <1>2, <1>3, <1>4, NoneIs
     DEF AppInv, WorkerShapes, ModalInv, KeepsToOne, KillingInv, OvertakenInv, Confirming

\* What an answer adds to an open confirmation.
Answered(w) == [TargetOf(network, w.key.pid, w.found) EXCEPT !.protected = @ \/ modal.target.protected]

LEMMA AnsweredKeeps ==
    ASSUME ModalInv, Confirming, NEW w, modal.target.pid = w.key.pid,
           network.who[modal.target.pid] = modal.asked.who,
           network.named[modal.asked.who] = modal.asked.name,
           w.found \in {NoProc, modal.target.who}
    PROVE  KeepsToOne([modal EXCEPT !.target = Answered(w)])
<1> DEFINE old == modal.target
           base == TargetOf(network, w.key.pid, w.found)
           new == Answered(w)
           m == [modal EXCEPT !.target = new]
<1>1. KeepsToOne(modal) /\ modal.st \in {"ConfirmKill", "ConfirmTree"}
  BY DEF ModalInv, Confirming
<1>2. /\ DOMAIN base = TargetFields /\ base.pid = old.pid /\ base.who = modal.asked.who
      /\ base.name = modal.asked.name /\ base.facts = w.found
      /\ base.protected <=> modal.asked.name \in Protected
  BY TargetOfIs
<1>3. /\ DOMAIN new = TargetFields /\ new.pid = base.pid /\ new.who = base.who
      /\ new.name = base.name /\ new.facts = base.facts
      /\ new.protected <=> (base.protected \/ old.protected)
  <2> HIDE DEF base, old
  <2> QED
    BY <1>2 DEF Answered, TargetFields, base, old
<1>4. new.protected <=> old.protected
  BY <1>1, <1>2, <1>3 DEF KeepsToOne
<1> HIDE DEF new, base
<1>5. /\ DOMAIN m = DOMAIN modal /\ m.st = modal.st /\ m.asked = modal.asked /\ m.target = new
      /\ m.st = "ConfirmKill" => m.requirement = modal.requirement
      /\ m.st # "ConfirmKill" => m.stage = modal.stage
      /\ m.typed = modal.typed
  BY <1>1 DEF KeepsToOne, ConfirmKillFields, ConfirmTreeFields
<1> QED
  BY <1>1, <1>2, <1>3, <1>4, <1>5 DEF KeepsToOne, new

\* An answer about the selection: only one that may count is taken, and then the rows
\* are those of the confirmation.
LEMMA ContextApp ==
    ASSUME AppInv, TakeContext
    PROVE  AppInv'
<1>1. PICK ok \in BOOLEAN : PollContext(ok)
  BY DEF TakeContext, Loop
<1>2. UNCHANGED <<signals, network, killing, refreshWorker, overtaken>> /\ killing = None
  BY <1>1 DEF TakeContext, Loop, PollContext
<1> DEFINE w == contextWorker
           current == w.st = "done" /\ ~w.stale
           owner == IF w.key = NoRow THEN NoProc ELSE OwnerIn(network, w.key)
           counts == current /\ SameFacts(w.found, owner)
           known == IF counts /\ selected = w.key
                    THEN [st |-> "known", key |-> w.key, found |-> w.found] ELSE context
           read == [Reading EXCEPT !.worker = None,
                       !.shown = IF counts /\ selected = w.key
                                 THEN [st |-> "known", key |-> w.key, found |-> w.found] ELSE @]
<1>3. /\ modal' = IF counts /\ Confirming /\ modal.target.pid = w.key.pid
                  THEN [modal EXCEPT !.target = Answered(w)] ELSE modal
      /\ BecomesReading(StartPending(read, ok))
  BY <1>1 DEF PollContext, Answered
<1>4. ~Idle(w)
  BY <1>1 DEF PollContext, Idle
<1>5. known.st = "known" => known.found \in {NoProc, OwnerIn(network, known.key)}
  BY DEF AppInv, ContextInv, SameFacts
<1>6. /\ ContextShape(contextWorker') /\ ContextInv'
      /\ contextRequested \/ ~(contextRequested' \/ ~Idle(contextWorker'))
  <2>1. DOMAIN read = ReadingFields /\ read.worker = None /\ read.shown = known
        /\ read.wanted = contextRequested
    BY DEF Reading, ReadingFields
  <2> HIDE DEF read, known
  <2>2. CASE ~contextRequested
    <3>1. contextWorker' = None /\ contextRequested' = contextRequested /\ context' = known
      BY <1>3, <2>1, <2>2 DEF StartPending, BecomesReading
    <3> QED
      BY <1>2, <1>5, <2>2, <3>1, NoneIs DEF ContextShape, ContextInv, OwnerIn
  <2>3. CASE contextRequested
    <3> DEFINE s == [read EXCEPT !.wanted = FALSE]
    <3>1. DOMAIN s = ReadingFields /\ s.worker = None /\ s.shown = known
      BY <2>1 DEF ReadingFields
    <3>2. contextWorker' = Load(s, network, selected, ok).worker
          /\ context' = Load(s, network, selected, ok).shown
      BY <1>3, <2>1, <2>3 DEF StartPending, BecomesReading
    <3> HIDE DEF s
    <3>3. contextWorker' \in {None, NewContext(network, selected)} /\ context' \in {known, None}
      BY <3>1, <3>2, LoadIs
    <3> QED
      BY <1>2, <1>5, <2>3, <3>3, NoneIs, NewWorkers DEF ContextShape, ContextInv, OwnerIn
  <2> QED
    BY <2>2, <2>3
<1>7. CASE counts /\ Confirming /\ modal.target.pid = w.key.pid
  <2>1. /\ network.who[modal.target.pid] = modal.asked.who
        /\ network.named[modal.asked.who] = modal.asked.name
    BY <1>4, <1>7 DEF AppInv, RowsInv, MayCount
  <2>2. w.found \in {NoProc, modal.target.who}
    BY <1>7, <2>1 DEF AppInv, ModalInv, KeepsToOne, SameFacts, OwnerIn
  <2>3. modal' = [modal EXCEPT !.target = Answered(w)]
    BY <1>3, <1>7
  <2>4. KeepsToOne(modal')
    BY <1>7, <2>1, <2>2, <2>3, AnsweredKeeps DEF AppInv
  <2>5. KeepsToOne(modal)
    BY <1>7 DEF AppInv, ModalInv
  <2> HIDE DEF counts, known, read
  <2>6. modal'.st = modal.st /\ modal'.asked = modal.asked /\ modal'.target = Answered(w)
    BY <1>7, <2>3, <2>5 DEF KeepsToOne, ConfirmKillFields, ConfirmTreeFields, Confirming
  <2>7. modal'.target.pid = modal.target.pid
    BY <2>4, <2>5, <2>6 DEF KeepsToOne
  <2>8. ModalInv' /\ RowsInv'
    BY <1>2, <2>1, <2>4, <2>6, <2>7 DEF ModalInv, RowsInv, KeepsToOne
  <2> QED
    BY <1>2, <1>6, <2>8, NoneIs
       DEF AppInv, WorkerShapes, RefreshShape, KillingInv, OvertakenInv, Idle
<1>8. CASE ~(counts /\ Confirming /\ modal.target.pid = w.key.pid)
  <2>1. modal' = modal
    BY <1>3, <1>8
  <2>2. Confirming' /\ MayCount' =>
          /\ network.who[modal.target.pid] = modal.asked.who
          /\ network.named[modal.asked.who] = modal.asked.name
    BY <1>6, <2>1 DEF AppInv, RowsInv, MayCount, Confirming
  <2> QED
    BY <1>2, <1>6, <2>1, <2>2, NoneIs
       DEF AppInv, WorkerShapes, RefreshShape, ModalInv, KeepsToOne, RowsInv, KillingInv, OvertakenInv,
           Idle, Confirming
<1> QED
  BY <1>7, <1>8

\* The tree's scan: what it says is protected must be typed for.
LEMMA PreviewApp ==
    ASSUME AppInv, TakePreview
    PROVE  AppInv'
<1>1. UNCHANGED <<signals, network, refreshWorker, contextWorker, contextRequested, context, killing,
                  overtaken>>
      /\ killing = None /\ modal' = Reviewed(previewWorker)
  BY DEF TakePreview, Loop, PollPreview
<1>2. CASE modal' = modal
  BY <1>1, <1>2, RestApp
     DEF AppInv, WorkerShapes, ContextShape, RefreshShape, ModalInv, KeepsToOne, RowsInv, ContextInv,
         KillingInv, OvertakenInv, MayCount, Idle, Confirming, Confirmed, OwnerIn
<1>3. CASE modal' = None
  BY <1>1, <1>3, NoneIs
     DEF AppInv, WorkerShapes, ContextShape, RefreshShape, ModalInv, RowsInv, ContextInv,
         KillingInv, OvertakenInv, Idle, Confirming, OwnerIn
<1>4. CASE /\ Showing("ConfirmTree")
           /\ modal' = [modal EXCEPT !.previewed = TRUE,
                           !.target.protected = @ \/ previewWorker.scan.protected,
                           !.stage = IF previewWorker.scan.protected /\ ~modal.target.protected
                                     THEN "ProtectedRoot" ELSE @]
  <2>1. KeepsToOne(modal) /\ modal.st = "ConfirmTree"
    BY <1>4 DEF AppInv, ModalInv, Showing, Confirming
  <2>2. DOMAIN modal = ConfirmTreeFields /\ DOMAIN modal.target = TargetFields
    BY <2>1 DEF KeepsToOne
  <2>3. /\ DOMAIN modal' = ConfirmTreeFields
        /\ modal'.st = modal.st /\ modal'.asked = modal.asked /\ modal'.typed = modal.typed
        /\ modal'.stage = IF previewWorker.scan.protected /\ ~modal.target.protected
                          THEN "ProtectedRoot" ELSE modal.stage
        /\ modal'.target = [modal.target EXCEPT !.protected = @ \/ previewWorker.scan.protected]
    BY <1>4, <2>2 DEF ConfirmTreeFields
  <2>4. /\ DOMAIN modal'.target = TargetFields
        /\ modal'.target.pid = modal.target.pid /\ modal'.target.who = modal.target.who
        /\ modal'.target.name = modal.target.name /\ modal'.target.facts = modal.target.facts
        /\ modal'.target.protected <=> (modal.target.protected \/ previewWorker.scan.protected)
    BY <2>2, <2>3 DEF TargetFields
  <2>5. KeepsToOne(modal')
    BY <2>1, <2>3, <2>4 DEF KeepsToOne
  <2> QED
    BY <1>1, <2>1, <2>3, <2>4, <2>5
       DEF AppInv, WorkerShapes, ContextShape, RefreshShape, ModalInv, RowsInv, ContextInv, MayCount,
           KillingInv, OvertakenInv, Idle, Confirming, OwnerIn, None
<1> QED
  BY <1>1, <1>2, <1>3, <1>4 DEF Reviewed

\* resolve_selected_kill_target looks up the selection, and asks for what is not known.
LEMMA ResolveIs ==
    ASSUME AppInv, NEW ok \in BOOLEAN, Resolve(ok), UNCHANGED network
    PROVE  ContextShape(contextWorker') /\ ContextInv'
<1>1. CASE UNCHANGED <<contextWorker, contextRequested, context>>
  BY <1>1 DEF AppInv, WorkerShapes, ContextShape, ContextInv, OwnerIn, Idle
<1>2. CASE BecomesReading(Load(Reading, network, selected, ok))
  <2>1. DOMAIN Reading = ReadingFields
    BY DEF Reading, ReadingFields
  <2>2. contextWorker' \in {Reading.worker, None, NewContext(network, selected)}
        /\ context' \in {Reading.shown, None}
    BY <1>2, <2>1, LoadIs DEF BecomesReading
  <2>3. Reading.worker = contextWorker /\ Reading.shown = context
    BY DEF Reading
  <2> QED
    BY <2>2, <2>3, NoneIs, NewWorkers
       DEF AppInv, WorkerShapes, ContextShape, ContextInv, OwnerIn
<1> QED
  BY <1>1, <1>2 DEF Resolve

\* A target as it is resolved: of the selected row's process, with what is known of it.
LEMMA TargetShown ==
    ASSUME AppInv, Killable
    PROVE  LET target == TargetOf(network, selected.pid, KnownFacts)
           IN  /\ DOMAIN target = TargetFields
               /\ target.pid = selected.pid /\ target.who = network.who[target.pid]
               /\ target.name = network.named[target.who]
               /\ target.facts \in {NoProc, target.who}
               /\ target.protected <=> target.name \in Protected
BY TargetOfIs DEF AppInv, ContextInv, KnownFacts, Killable, OwnerIn

LEMMA KeyApp ==
    ASSUME AppInv, TakeKey
    PROVE  AppInv'
<1>1. UNCHANGED <<signals, killing, overtaken>> /\ killing = None /\ Key
  BY DEF TakeKey, Loop
<1>2. CASE Select
  BY <1>1, <1>2, NoneIs
     DEF Select, AppInv, WorkerShapes, ContextShape, RefreshShape, ModalInv, RowsInv, ContextInv,
         KillingInv, OvertakenInv, Idle, Confirming, OwnerIn, readerVars
<1>3. CASE OpenHelp \/ CloseModal \/ Cancel
  <2>1. /\ modal' \in {None, [st |-> "Help"]}
        /\ UNCHANGED <<network, refreshWorker, contextWorker, context>>
    BY <1>3 DEF OpenHelp, CloseModal, Cancel, readerVars
  <2>2. ~Confirming'
    BY <2>1, NoneIs DEF Confirming
  <2> QED
    BY <1>1, <2>1, <2>2, NoneIs
       DEF AppInv, WorkerShapes, ContextShape, RefreshShape, ModalInv, RowsInv, ContextInv,
           KillingInv, OvertakenInv, Idle, OwnerIn
<1>4. CASE SubmitProtectedRoot
  <2>1. /\ modal' = [modal EXCEPT !.stage = "Word", !.typed = @ \cup {"ProtectedProcess"}]
        /\ UNCHANGED <<network, refreshWorker, contextWorker, contextRequested, context>>
    BY <1>4 DEF SubmitProtectedRoot, readerVars
  <2>2. KeepsToOne(modal) /\ modal.st = "ConfirmTree"
    BY <1>4 DEF SubmitProtectedRoot, Showing, AppInv, ModalInv, Confirming
  <2>3. DOMAIN modal = ConfirmTreeFields
    BY <2>2 DEF KeepsToOne
  <2>4. /\ DOMAIN modal' = ConfirmTreeFields /\ modal'.st = modal.st
        /\ modal'.asked = modal.asked /\ modal'.target = modal.target
        /\ "ProtectedProcess" \in modal'.typed
    BY <2>1, <2>3 DEF ConfirmTreeFields
  <2>5. KeepsToOne(modal')
    BY <2>2, <2>4 DEF KeepsToOne
  <2> QED
    BY <1>1, <2>1, <2>2, <2>4, <2>5, NoneIs
       DEF AppInv, WorkerShapes, ContextShape, RefreshShape, ModalInv, RowsInv, ContextInv, MayCount,
           KillingInv, OvertakenInv, Idle, Confirming, OwnerIn
<1>5. ASSUME NEW ok \in BOOLEAN, OpenDetails(ok)
      PROVE  AppInv'
  <2>1. /\ modal' = [st |-> "Details"] /\ UNCHANGED <<network, refreshWorker>>
        /\ BecomesReading(Load(Reading, network, selected, ok))
    BY <1>5 DEF OpenDetails
  <2>2. ContextShape(contextWorker') /\ ContextInv'
    <3>1. DOMAIN Reading = ReadingFields /\ Reading.worker = contextWorker /\ Reading.shown = context
      BY DEF Reading, ReadingFields
    <3>2. contextWorker' \in {contextWorker, None, NewContext(network, selected)}
          /\ context' \in {context, None}
      BY <2>1, <3>1, LoadIs DEF BecomesReading
    <3> QED
      BY <2>1, <3>2, NoneIs, NewWorkers
         DEF AppInv, WorkerShapes, ContextShape, ContextInv, OwnerIn
  <2> QED
    BY <1>1, <2>1, <2>2, NoneIs
       DEF AppInv, WorkerShapes, RefreshShape, ModalInv, RowsInv, KillingInv, OvertakenInv, Idle,
           Confirming
<1>6. ASSUME NEW ok \in BOOLEAN, RefreshKey(ok)
      PROVE  AppInv'
  <2>1. RefreshShape(refreshWorker') /\ ~overtaken'
    BY <1>1, <1>6, NewWorkers
       DEF RefreshKey, StartRefresh, AppInv, WorkerShapes, OvertakenInv, RefreshShape
  <2> QED
    BY <1>1, <1>6, <2>1, NoneIs
       DEF RefreshKey, AppInv, WorkerShapes, ContextShape, ModalInv, RowsInv, ContextInv, KillingInv,
           OvertakenInv, Idle, Confirming, OwnerIn
<1> DEFINE target == TargetOf(network, selected.pid, KnownFacts)
<1>7. ASSUME NEW mode \in Modes, NEW ok \in BOOLEAN, RequestKill(mode, ok)
      PROVE  AppInv'
  <2>1. /\ Killable /\ Resolve(ok) /\ UNCHANGED <<network, refreshWorker>>
        /\ modal' = [st |-> "ConfirmKill", mode |-> mode, target |-> target, asked |-> target,
                     requirement |-> Requirement(target, mode), typed |-> {}]
    BY <1>7 DEF RequestKill
  <2>2. ContextShape(contextWorker') /\ ContextInv'
    BY <2>1, ResolveIs
  <2>3. /\ DOMAIN target = TargetFields /\ target.who = network.who[target.pid]
        /\ target.name = network.named[target.who] /\ target.facts \in {NoProc, target.who}
        /\ target.protected <=> target.name \in Protected
    BY <2>1, TargetShown
  <2> HIDE DEF target
  <2>4. /\ DOMAIN modal' = ConfirmKillFields /\ modal'.st = "ConfirmKill"
        /\ modal'.target = target /\ modal'.asked = target
        /\ modal'.requirement = Requirement(target, mode)
    BY <2>1 DEF ConfirmKillFields
  <2>5. KeepsToOne(modal')
    BY <2>3, <2>4 DEF KeepsToOne, Requirement
  <2> QED
    BY <1>1, <2>1, <2>2, <2>3, <2>4, <2>5, NoneIs
       DEF AppInv, WorkerShapes, RefreshShape, ModalInv, RowsInv, KillingInv, OvertakenInv, Idle
<1>8. ASSUME NEW mode \in Modes, NEW ok \in BOOLEAN, NEW okPreview \in BOOLEAN,
             RequestTreeKill(mode, ok, okPreview)
      PROVE  AppInv'
  <2>1. /\ Killable /\ Resolve(ok) /\ UNCHANGED <<network, refreshWorker>>
        /\ modal' = IF okPreview
                    THEN [st |-> "ConfirmTree", mode |-> mode, target |-> target, asked |-> target,
                          stage |-> IF target.protected THEN "ProtectedRoot" ELSE "Word",
                          previewed |-> FALSE, typed |-> {}]
                    ELSE None
    BY <1>8 DEF RequestTreeKill
  <2>2. ContextShape(contextWorker') /\ ContextInv'
    BY <2>1, ResolveIs
  <2>3. /\ DOMAIN target = TargetFields /\ target.who = network.who[target.pid]
        /\ target.name = network.named[target.who] /\ target.facts \in {NoProc, target.who}
        /\ target.protected <=> target.name \in Protected
    BY <2>1, TargetShown
  <2> HIDE DEF target
  <2>4. ModalInv' /\ RowsInv'
    <3>1. CASE okPreview
      <4>1. /\ DOMAIN modal' = ConfirmTreeFields /\ modal'.st = "ConfirmTree"
            /\ modal'.target = target /\ modal'.asked = target
            /\ modal'.stage = IF target.protected THEN "ProtectedRoot" ELSE "Word"
        BY <2>1, <3>1 DEF ConfirmTreeFields
      <4>2. KeepsToOne(modal')
        BY <2>3, <4>1 DEF KeepsToOne
      <4> QED
        BY <2>1, <2>3, <4>1, <4>2 DEF ModalInv, RowsInv
    <3>2. CASE ~okPreview
      BY <2>1, <3>2, NoneIs DEF ModalInv, RowsInv, Confirming
    <3> QED
      BY <3>1, <3>2
  <2> QED
    BY <1>1, <2>1, <2>2, <2>4, NoneIs
       DEF AppInv, WorkerShapes, RefreshShape, KillingInv, OvertakenInv, Idle
<1> QED
  BY <1>1, <1>2, <1>3, <1>4, <1>5, <1>6, <1>7, <1>8 DEF Key

\* Begin: what is confirmed has been typed for.
LEMMA SubmitApp ==
    ASSUME AppInv, Submit
    PROVE  AppInv'
<1>1. UNCHANGED <<signals, network, refreshWorker, contextWorker, contextRequested, context, overtaken>>
  BY DEF Submit, ExecuteKill, ExecuteTreeKill, readerVars
<1>2. PICK typed :
        /\ Begin(typed)
        /\ \/ modal.st = "ConfirmKill" /\ typed = modal.requirement
           \/ modal.st = "ConfirmTree" /\ modal.stage = "Word"
  BY DEF Submit, ExecuteKill, ExecuteTreeKill, Showing
<1> DEFINE kill == [modal EXCEPT !.typed = @ \cup {typed}]
<1>3. KeepsToOne(modal)
  BY <1>2 DEF AppInv, ModalInv, Confirming
<1>4. DOMAIN modal = IF modal.st = "ConfirmKill" THEN ConfirmKillFields ELSE ConfirmTreeFields
  BY <1>3 DEF KeepsToOne
<1>5. /\ DOMAIN kill = DOMAIN modal /\ kill.st = modal.st /\ kill.asked = modal.asked
      /\ kill.target = modal.target /\ kill.typed = modal.typed \cup {typed}
      /\ modal.st = "ConfirmKill" => kill.requirement = modal.requirement
      /\ modal.st # "ConfirmKill" => kill.stage = modal.stage
  BY <1>2, <1>4 DEF ConfirmKillFields, ConfirmTreeFields
<1>6. killing' = [st |-> "pin", kill |-> kill, pin |-> NoProc, fresh |-> modal.target]
      /\ modal' = None
  BY <1>2 DEF Begin
<1> HIDE DEF kill
<1>7. KeepsToOne(kill) /\ (kill.target.protected => "ProtectedProcess" \in kill.typed)
  BY <1>2, <1>3, <1>5 DEF KeepsToOne
<1>8. KillingInv'
  BY <1>2, <1>5, <1>6, <1>7 DEF KillingInv, KeepsToOne
<1> QED
  BY <1>1, <1>6, <1>8, NoneIs
     DEF AppInv, WorkerShapes, ContextShape, RefreshShape, ModalInv, RowsInv, ContextInv, OvertakenInv,
         Idle, Confirming, OwnerIn

\* refresh_after_kill leaves no snapshot of before the kill that may still be taken.
LEMMA AfterKillIs ==
    ASSUME AppInv, NEW ok \in BOOLEAN, RefreshAfterKill(ok)
    PROVE  /\ RefreshShape(refreshWorker')
           /\ ~Idle(refreshWorker) => ~Idle(refreshWorker') /\ refreshWorker'.stale
<1>1. CASE Idle(refreshWorker)
  BY <1>1, NewWorkers
     DEF RefreshAfterKill, StartRefresh, AppInv, WorkerShapes, RefreshShape
<1>2. CASE ~Idle(refreshWorker)
  <2>1. DOMAIN refreshWorker = RefreshFields
        /\ refreshWorker' = [refreshWorker EXCEPT !.stale = TRUE]
    BY <1>2 DEF AppInv, WorkerShapes, RefreshShape, RefreshAfterKill
  <2> QED
    BY <1>2, <2>1 DEF RefreshShape, RefreshFields, Idle
<1> QED
  BY <1>1, <1>2

\* A kill goes on only with the process that was confirmed, and what is delivered makes
\* the snapshots of before old.
LEMMA KillApp ==
    ASSUME AppInv, KillStep
    PROVE  AppInv'
<1>1. UNCHANGED <<network, modal, contextWorker, contextRequested, context>>
  BY DEF KillStep
<1>2. signals' \in [Proc -> Nat]
  <2>1. CASE UNCHANGED signals
    BY <2>1 DEF AppInv
  <2>2. ASSUME NEW ok \in BOOLEAN, DeliverKill(ok)
        PROVE  signals' \in [Proc -> Nat]
    BY <2>2 DEF AppInv, DeliverKill, Deliver
  <2> QED
    BY <2>1, <2>2 DEF KillStep, PinFailed, CollectFailed
<1>3. RefreshShape(refreshWorker') /\ OvertakenInv'
  <2>1. ASSUME UNCHANGED <<refreshWorker, overtaken>>
        PROVE  RefreshShape(refreshWorker') /\ OvertakenInv'
    BY <2>1 DEF AppInv, WorkerShapes, RefreshShape, OvertakenInv, Idle
  <2>2. ASSUME NEW ok \in BOOLEAN, RefreshAfterKill(ok),
               overtaken' => overtaken \/ ~Idle(refreshWorker)
        PROVE  RefreshShape(refreshWorker') /\ OvertakenInv'
    BY <2>2, AfterKillIs DEF AppInv, OvertakenInv
  <2>3. \/ UNCHANGED <<refreshWorker, overtaken>>
        \/ \E ok \in BOOLEAN :
              RefreshAfterKill(ok) /\ (overtaken' => overtaken \/ ~Idle(refreshWorker))
    <3>1. CASE PinFailed \/ CollectFailed
      BY <3>1 DEF PinFailed, CollectFailed, KillEndsUnrefreshed
    <3>2. ASSUME NEW ok \in BOOLEAN, UNCHANGED overtaken,
                 PinTarget(ok) \/ RevalidateTarget(ok) \/ Gates(ok)
          PROVE  UNCHANGED refreshWorker \/ RefreshAfterKill(ok)
      BY <3>2 DEF PinTarget, RevalidateTarget, Gates, KillEnds, KillEndsUnrefreshed, On
    <3>3. ASSUME NEW ok \in BOOLEAN, DeliverKill(ok)
          PROVE  RefreshAfterKill(ok) /\ (overtaken' => ~Idle(refreshWorker))
      BY <3>3 DEF DeliverKill
    <3> QED
      BY <3>1, <3>2, <3>3 DEF KillStep
  <2> QED
    BY <2>1, <2>2, <2>3
<1>4. KillingInv'
  <2>1. CASE killing' = None
    BY <2>1, NoneIs DEF KillingInv
  <2>2. ASSUME NEW ok \in BOOLEAN, PinTarget(ok), killing' # None
        PROVE  KillingInv'
    <3>1. killing' = [killing EXCEPT !.st = "ports", !.pin = Occupant(Confirmed.pid)]
          /\ killing.st # "none"
      BY <2>2 DEF PinTarget, KillEnds, On
    <3>2. DOMAIN killing = {"st", "kill", "pin", "fresh"}
      BY <3>1 DEF AppInv, KillingInv
    <3>3. /\ DOMAIN killing' = {"st", "kill", "pin", "fresh"}
          /\ killing'.st = "ports" /\ killing'.kill = killing.kill
      BY <3>1, <3>2
    <3> QED
      BY <3>1, <3>3 DEF AppInv, KillingInv, KeepsToOne
  <2>3. ASSUME NEW ok \in BOOLEAN, RevalidateTarget(ok), killing' # None
        PROVE  KillingInv'
    <3> DEFINE latest == TargetOf(ViewNow, Confirmed.pid, NoProc)
    <3>1. /\ killing' = [killing EXCEPT !.st = IF Single THEN "deliver" ELSE "gates",
                             !.fresh = latest]
          /\ killing.st # "none" /\ Revalidated(ViewNow)
      BY <2>3 DEF RevalidateTarget, KillEnds, On
    <3>2. DOMAIN killing = {"st", "kill", "pin", "fresh"}
      BY <3>1 DEF AppInv, KillingInv
    <3>3. PICK now :
            /\ now.who = ViewNow.who[Confirmed.pid]
            /\ now.name = ViewNow.named[ViewNow.who[Confirmed.pid]]
            /\ now.who = Confirmed.who /\ now.name = Confirmed.name
            /\ now.name \in Protected => Confirmed.protected
      <4> HIDE DEF ViewNow
      <4> DEFINE edges == {e \in RowsOfPid(ViewNow, Confirmed.pid) :
                             EndpointOf[e[1]] \in Confirmed.endpoints}
                 now == TargetFrom(ViewNow, Confirmed.pid, edges)
      <4>1. /\ now.who = ViewNow.who[Confirmed.pid]
            /\ now.name = ViewNow.named[ViewNow.who[Confirmed.pid]]
            /\ now.protected <=> now.name \in Protected
        BY DEF TargetFrom
      <4>2. StillMatches(Confirmed, now) /\ (now.protected => Confirmed.protected)
        BY <3>1 DEF Revalidated
      <4>3. now.who = Confirmed.who /\ now.name = Confirmed.name
        BY <4>2 DEF StillMatches, SameProcess
      <4> HIDE DEF now
      <4> QED
        BY <4>1, <4>2, <4>3
    <3>4. latest.who = Confirmed.who /\ latest.name = Confirmed.name
      <4> HIDE DEF ViewNow
      <4>1. /\ latest.who = ViewNow.who[Confirmed.pid]
            /\ latest.name = ViewNow.named[ViewNow.who[Confirmed.pid]]
        BY TargetOfIs
      <4> QED
        BY <3>3, <4>1
    <3> HIDE DEF latest
    <3>5. /\ DOMAIN killing' = {"st", "kill", "pin", "fresh"} /\ killing'.kill = killing.kill
          /\ killing'.fresh = latest
      BY <3>1, <3>2
    <3>6. Confirmed' = Confirmed
      BY <3>5 DEF Confirmed
    <3> QED
      BY <3>1, <3>3, <3>4, <3>5, <3>6 DEF AppInv, KillingInv, KeepsToOne
  <2>4. ASSUME NEW ok \in BOOLEAN, Gates(ok), killing' # None
        PROVE  KillingInv'
    <3>1. killing' = [killing EXCEPT !.st = "deliver"] /\ killing.st = "gates"
      BY <2>4 DEF Gates, KillEnds, KillEndsUnrefreshed, On
    <3>2. DOMAIN killing = {"st", "kill", "pin", "fresh"}
      BY <3>1 DEF AppInv, KillingInv
    <3>3. /\ DOMAIN killing' = {"st", "kill", "pin", "fresh"}
          /\ killing'.kill = killing.kill /\ killing'.fresh = killing.fresh
      BY <3>1, <3>2
    <3> QED
      BY <3>1, <3>3 DEF AppInv, KillingInv, KeepsToOne, Confirmed
  <2> QED
    BY <2>1, <2>2, <2>3, <2>4 DEF KillStep, PinFailed, CollectFailed, KillEndsUnrefreshed, DeliverKill
<1> QED
  BY <1>1, <1>2, <1>3, <1>4
     DEF AppInv, WorkerShapes, ContextShape, ModalInv, KeepsToOne, RowsInv, ContextInv, MayCount, Idle,
         Confirming, OwnerIn

LEMMA DropApp ==
    ASSUME AppInv, Drop
    PROVE  AppInv'
BY NoneIs
   DEF Drop, Loop, AppInv, WorkerShapes, ContextShape, RefreshShape, ModalInv, RowsInv, ContextInv,
       KillingInv, OvertakenInv, Confirming

LEMMA NextApp ==
    ASSUME AppInv, [TerminalNext]_terminalVars
    PROVE  AppInv'
<1>1. CASE UNCHANGED <<signals, appVars>>
  BY <1>1, RestApp
<1>2. CASE AppStep
  BY <1>1, <1>2, WorkersApp, RefreshApp, ContextApp, PreviewApp, KeyApp, SubmitApp, KillApp
     DEF AppStep, Meanwhile
<1> QED
  BY <1>1, <1>2, DropApp DEF TerminalNext, InLoop, LoopEnds, Around, Stopped, terminalVars, appAndWorld

LEMMA AppHolds == TerminalSpec => []AppInv
BY InitApp, NextApp, PTL DEF TerminalSpec

-----------------------------------------------------------------------------
\* What the application promises

\* What is on the screen is of one process: an open confirmation keeps to the process it
\* was opened for, and what is shown of a row is of its owner.
THEOREM OneProcessIsShown == TerminalSpec => []ShownIsOneProcess
<1>1. AppInv => ShownIsOneProcess
  BY DEF AppInv, ModalInv, KeepsToOne, ContextInv, ShownIsOneProcess
<1> QED
  BY <1>1, AppHolds, PTL

\* Only a delivery signals, and it signals the process whose facts were confirmed, or its
\* tree, and a protected one only if its name was typed.
LEMMA DeliveryKeeps ==
    ASSUME AppInv, NEW ok \in BOOLEAN, DeliverKill(ok), NEW p \in Proc, signals'[p] > signals[p]
    PROVE  LET kill == killing.kill
           IN  /\ IF kill.st = "ConfirmKill" THEN p = kill.asked.who /\ name[p] = kill.asked.name
                  ELSE Descends(p, kill.asked.who)
               /\ name[p] \in Protected => p = kill.asked.who /\ "ProtectedProcess" \in kill.typed
<1> DEFINE kill == killing.kill
<1>1. p \in Victims
  <2>1. signals[p] \in Nat /\ signals'[p] = signals[p] + IF p \in Victims THEN 1 ELSE 0
    BY DEF AppInv, DeliverKill, Deliver
  <2> QED
    BY <2>1
<1>2. killing.st = "deliver"
  BY DEF DeliverKill
<1>3. /\ KeepsToOne(kill) /\ (kill.target.protected => "ProtectedProcess" \in kill.typed)
      /\ killing.fresh.who = kill.asked.who /\ killing.fresh.name = kill.asked.name
      /\ killing.fresh.name \in Protected => kill.target.protected
  BY <1>2 DEF AppInv, KillingInv, KeepsToOne, Confirmed
<1>4. CASE Single
  <2>1. p = killing.pin /\ StillPinned(p)
    BY <1>1, <1>4 DEF Victims
  <2> QED
    BY <1>3, <1>4, <2>1 DEF StillPinned, Single
<1>5. CASE ~Single
  <2>1. /\ p \in Tree(killing.pin) /\ killing.fresh.who = killing.pin
        /\ name[p] \in Protected => p = killing.pin /\ Confirmed.protected
    BY <1>1, <1>5 DEF Victims
  <2>2. Descends(p, killing.pin)
    BY <2>1 DEF Tree
  <2> QED
    BY <1>3, <1>5, <2>1, <2>2 DEF Single, Confirmed
<1> QED
  BY <1>4, <1>5

\* Whatever the table, the selection and the context have become since.
THEOREM ConfirmedIsSignalled == TerminalSpec => SignalsWhatWasConfirmed
<1>1. ASSUME AppInv, [TerminalNext]_terminalVars, NEW p \in Proc, signals'[p] > signals[p]
      PROVE  LET kill == killing.kill
             IN  /\ IF kill.st = "ConfirmKill"
                    THEN p = kill.asked.who /\ name[p] = kill.asked.name
                    ELSE Descends(p, kill.asked.who)
                 /\ name[p] \in Protected => p = kill.asked.who /\ "ProtectedProcess" \in kill.typed
  <2>1. signals' # signals
    BY <1>1 DEF AppInv
  <2>2. PICK ok \in BOOLEAN : DeliverKill(ok)
    BY <1>1, <2>1
       DEF TerminalNext, InLoop, AppStep, WorkerStep, TakeRefresh, TakeContext, TakePreview, TakeKey, Loop,
           Submit, KillStep, PinFailed, CollectFailed, Meanwhile, LoopEnds, Drop, Around, Stopped,
           terminalVars, appAndWorld
  <2> QED
    BY <1>1, <2>2, DeliveryKeeps
<1>2. AppInv /\ [TerminalNext]_terminalVars =>
        [\A p \in Proc : signals'[p] > signals[p] =>
           LET kill == killing.kill
           IN  /\ IF kill.st = "ConfirmKill" THEN p = kill.asked.who /\ name[p] = kill.asked.name
                  ELSE Descends(p, kill.asked.who)
               /\ name[p] \in Protected =>
                    p = kill.asked.who /\ "ProtectedProcess" \in kill.typed]_<<signals, killing, name>>
  BY <1>1
<1> QED
  BY <1>2, AppHolds, PTL DEF TerminalSpec, SignalsWhatWasConfirmed

\* A snapshot begun before a delivery does not become the table's.
THEOREM FreedPortsStayFreed == TerminalSpec => NoOlderSnapshotAfterKill
<1>1. ASSUME AppInv, [TerminalNext]_terminalVars, network' # network, ~quit'
      PROVE  ~overtaken
  <2>1. PICK ok \in BOOLEAN : PollRefresh(ok)
    BY <1>1
       DEF TerminalNext, InLoop, AppStep, WorkerStep, TakeRefresh, TakeContext, TakePreview, TakeKey, Loop,
           Submit, ExecuteKill, ExecuteTreeKill, KillStep, Meanwhile, LoopEnds, Drop, Around, Stopped, terminalVars,
           appAndWorld, appVars, PollContext, PollPreview, Key, OpenDetails, RefreshKey, RequestKill,
           RequestTreeKill, Select, OpenHelp, CloseModal, Cancel, SubmitProtectedRoot
  <2>2. refreshWorker.st = "done" /\ ~refreshWorker.stale
    BY <1>1, <2>1 DEF PollRefresh
  <2> QED
    BY <1>1, <2>2 DEF AppInv, OvertakenInv
<1>2. AppInv /\ [TerminalNext]_terminalVars => [network' # network /\ ~quit' => ~overtaken]_<<network, overtaken, quit>>
  BY <1>1
<1> QED
  BY <1>2, AppHolds, PTL DEF TerminalSpec, NoOlderSnapshotAfterKill
=============================================================================
