-------------------------- MODULE WatchLoop_proofs --------------------------
(***************************************************************************)
(* What kick watch guarantees for every interval, duration, budget, batch     *)
(* and set of snapshots: how long it waits, how it ends, what its records     *)
(* add up to, and what its filter makes of what could not be read.           *)
(***************************************************************************)
EXTENDS WatchLoop, FiniteSetTheorems, TLAPS

-----------------------------------------------------------------------------
\* The invariant

LoopTypes ==
    /\ options \in Choices /\ phase \in Phases
    /\ previous \in Snapshots \cup {NoSnapshot} /\ current \in Snapshots \cup {NoSnapshot}
    /\ todo \in SUBSET Event /\ failures \in Nat /\ left \in Nat /\ late \in Nat
    /\ age \in 0..Interval /\ sinceAttempt \in 0..Interval /\ sinceFailure \in 0..Interval
    /\ gapTail \in Seq(Nat)

\* What is told was collected.
CollectedInv == phase \in {"collected", "tell", "pass", "write"} => current \in Snapshots

\* The moment the next poll is counted from is never before the last attempt, nor
\* before the end of the last failed poll.
IntervalInv ==
    /\ age <= sinceAttempt /\ age <= sinceFailure
    /\ phase = "due" => age = Interval

\* The gap records are numbered by the failures; while one is due it is the last.
TailIs(n) == Len(gapTail) = n /\ \A i \in 1..n : gapTail[i] = i
GapInv ==
    /\ phase \notin {"gap", "done"} => TailIs(failures)
    /\ phase = "gap" => failures > 0 /\ TailIs(failures - 1)
    /\ phase \in {"gap", "gapWritten"} => failures <= FailuresMax
    /\ phase \notin {"gap", "gapWritten", "done"} => failures < FailuresMax

\* A record is written after the stop condition held only if it was already in hand.
StopInv ==
    /\ late <= 1
    /\ late = 1 => StopDue /\ phase \in {"gapWritten", "pass", "done"}

LoopInv ==
    /\ LoopTypes /\ CollectedInv /\ IntervalInv /\ GapInv /\ StopInv
    /\ phase # "done" => result = "none"
    /\ NothingUnflushed /\ BudgetSpeaks

-----------------------------------------------------------------------------
\* Its steps

\* The moment the next poll is counted from.
LEMMA NextInterval ==
    ASSUME LoopInv, Next
    PROVE  IntervalInv'
<1>1. LoopTypes /\ IntervalInv
  BY DEF LoopInv
<1>2. /\ Interval \in Nat /\ FailuresMax \in Nat \ {0} /\ BatchMax \in Nat \ {0}
      /\ NoSnapshot \notin Snapshots
  BY LoopAssumption
<1> USE DEF LoopTypes, IntervalInv, pollVars, tellVars, timeVars, historyVars
<1>3. CASE Begin
  BY <1>1, <1>2, <1>3 DEF Begin, End, Go, FlushAndEnd, OutputFails
<1>4. CASE CollectFirst
  BY <1>1, <1>2, <1>4 DEF CollectFirst, End, Go, FlushAndEnd, OutputFails
<1>5. CASE Wait
  BY <1>1, <1>2, <1>5 DEF Wait, End, Go, FlushAndEnd, OutputFails
<1>6. CASE Attempt
  BY <1>1, <1>2, <1>6 DEF Attempt, End, Go, FlushAndEnd, OutputFails
<1>7. CASE Collect
  BY <1>1, <1>2, <1>7 DEF Collect, End, Go, FlushAndEnd, OutputFails
<1>8. CASE WriteGap
  BY <1>1, <1>2, <1>8 DEF WriteGap, End, Go, FlushAndEnd, OutputFails, Written
<1>9. CASE AfterGap
  BY <1>1, <1>2, <1>9 DEF AfterGap, End, Go, FlushAndEnd, OutputFails, RestartInterval,
     BudgetSpent
<1>10. CASE StartEvents
  BY <1>1, <1>2, <1>10 DEF StartEvents, End, Go, FlushAndEnd, OutputFails
<1>11. CASE NextGroup
  BY <1>1, <1>2, <1>11 DEF NextGroup, End, Go, FlushAndEnd, OutputFails
<1>12. CASE PassStep
  BY <1>1, <1>2, <1>12 DEF PassStep, LookAtNext, End, Go, FlushAndEnd, OutputFails
<1>13. CASE NextRank
  BY <1>1, <1>2, <1>13 DEF NextRank, End, Go, FlushAndEnd, OutputFails
<1>14. CASE StopInPass
  BY <1>1, <1>2, <1>14 DEF StopInPass, End, Go, FlushAndEnd, OutputFails
<1>15. CASE WriteEvent
  BY <1>1, <1>2, <1>15 DEF WriteEvent, End, Go, FlushAndEnd, OutputFails, Written
<1>16. CASE EndEvents
  BY <1>1, <1>2, <1>16 DEF EndEvents, End, Go, FlushAndEnd, OutputFails
<1>17. CASE Cancel
  BY <1>1, <1>2, <1>17 DEF Cancel
<1>18. CASE Tick
  BY <1>1, <1>2, <1>18 DEF Tick, Later
<1> HIDE DEF LoopTypes, IntervalInv, pollVars, tellVars, timeVars, historyVars
<1> QED
  BY <1>3, <1>4, <1>5, <1>6, <1>7, <1>8, <1>9, <1>10, <1>11, <1>12, <1>13, <1>14, <1>15,
     <1>16, <1>17, <1>18 DEF Next, Step

\* At most the record in hand is written.
LEMMA NextStop ==
    ASSUME LoopInv, Next
    PROVE  StopInv'
<1>1. LoopTypes /\ StopInv
  BY DEF LoopInv
<1>2. /\ Interval \in Nat /\ FailuresMax \in Nat \ {0} /\ BatchMax \in Nat \ {0}
      /\ NoSnapshot \notin Snapshots
  BY LoopAssumption
<1> USE DEF LoopTypes, StopInv, StopDue, pollVars, tellVars, timeVars, historyVars
<1>3. CASE Begin
  BY <1>1, <1>2, <1>3 DEF Begin, End, Go, FlushAndEnd, OutputFails
<1>4. CASE CollectFirst
  BY <1>1, <1>2, <1>4 DEF CollectFirst, End, Go, FlushAndEnd, OutputFails
<1>5. CASE Wait
  BY <1>1, <1>2, <1>5 DEF Wait, End, Go, FlushAndEnd, OutputFails
<1>6. CASE Attempt
  BY <1>1, <1>2, <1>6 DEF Attempt, End, Go, FlushAndEnd, OutputFails
<1>7. CASE Collect
  BY <1>1, <1>2, <1>7 DEF Collect, End, Go, FlushAndEnd, OutputFails
<1>8. CASE WriteGap
  BY <1>1, <1>2, <1>8 DEF WriteGap, End, Go, FlushAndEnd, OutputFails, Written
<1>9. CASE AfterGap
  BY <1>1, <1>2, <1>9 DEF AfterGap, End, Go, FlushAndEnd, OutputFails, RestartInterval,
     BudgetSpent
<1>10. CASE StartEvents
  BY <1>1, <1>2, <1>10 DEF StartEvents, End, Go, FlushAndEnd, OutputFails
<1>11. CASE NextGroup
  BY <1>1, <1>2, <1>11 DEF NextGroup, End, Go, FlushAndEnd, OutputFails
<1>12. CASE PassStep
  BY <1>1, <1>2, <1>12 DEF PassStep, LookAtNext, End, Go, FlushAndEnd, OutputFails
<1>13. CASE NextRank
  BY <1>1, <1>2, <1>13 DEF NextRank, End, Go, FlushAndEnd, OutputFails
<1>14. CASE StopInPass
  BY <1>1, <1>2, <1>14 DEF StopInPass, End, Go, FlushAndEnd, OutputFails
<1>15. CASE WriteEvent
  BY <1>1, <1>2, <1>15 DEF WriteEvent, End, Go, FlushAndEnd, OutputFails, Written
<1>16. CASE EndEvents
  BY <1>1, <1>2, <1>16 DEF EndEvents, End, Go, FlushAndEnd, OutputFails
<1>17. CASE Cancel
  BY <1>1, <1>2, <1>17 DEF Cancel
<1>18. CASE Tick
  BY <1>1, <1>2, <1>18 DEF Tick, Later
<1> HIDE DEF LoopTypes, StopInv, StopDue, pollVars, tellVars, timeVars, historyVars
<1> QED
  BY <1>3, <1>4, <1>5, <1>6, <1>7, <1>8, <1>9, <1>10, <1>11, <1>12, <1>13, <1>14, <1>15,
     <1>16, <1>17, <1>18 DEF Next, Step

\* What was written is flushed before anybody waits.
LEMMA NextFlushed ==
    ASSUME LoopInv, Next
    PROVE  NothingUnflushed' /\ (phase' # "done" => result' = "none")
<1>1. NothingUnflushed /\ (phase # "done" => result = "none")
  BY DEF LoopInv
<1>2. /\ Interval \in Nat /\ FailuresMax \in Nat \ {0} /\ BatchMax \in Nat \ {0}
      /\ NoSnapshot \notin Snapshots
  BY LoopAssumption
<1> USE DEF NothingUnflushed, pollVars, tellVars, timeVars, historyVars
<1>3. CASE Begin
  BY <1>1, <1>2, <1>3 DEF Begin, End, Go, FlushAndEnd, OutputFails
<1>4. CASE CollectFirst
  BY <1>1, <1>2, <1>4 DEF CollectFirst, End, Go, FlushAndEnd, OutputFails
<1>5. CASE Wait
  BY <1>1, <1>2, <1>5 DEF Wait, End, Go, FlushAndEnd, OutputFails
<1>6. CASE Attempt
  BY <1>1, <1>2, <1>6 DEF Attempt, End, Go, FlushAndEnd, OutputFails
<1>7. CASE Collect
  BY <1>1, <1>2, <1>7 DEF Collect, End, Go, FlushAndEnd, OutputFails
<1>8. CASE WriteGap
  BY <1>1, <1>2, <1>8 DEF WriteGap, End, Go, FlushAndEnd, OutputFails, Written
<1>9. CASE AfterGap
  BY <1>1, <1>2, <1>9 DEF AfterGap, End, Go, FlushAndEnd, OutputFails, RestartInterval,
     BudgetSpent
<1>10. CASE StartEvents
  BY <1>1, <1>2, <1>10 DEF StartEvents, End, Go, FlushAndEnd, OutputFails
<1>11. CASE NextGroup
  BY <1>1, <1>2, <1>11 DEF NextGroup, End, Go, FlushAndEnd, OutputFails
<1>12. CASE PassStep
  BY <1>1, <1>2, <1>12 DEF PassStep, LookAtNext, End, Go, FlushAndEnd, OutputFails
<1>13. CASE NextRank
  BY <1>1, <1>2, <1>13 DEF NextRank, End, Go, FlushAndEnd, OutputFails
<1>14. CASE StopInPass
  BY <1>1, <1>2, <1>14 DEF StopInPass, End, Go, FlushAndEnd, OutputFails
<1>15. CASE WriteEvent
  BY <1>1, <1>2, <1>15 DEF WriteEvent, End, Go, FlushAndEnd, OutputFails, Written
<1>16. CASE EndEvents
  BY <1>1, <1>2, <1>16 DEF EndEvents, End, Go, FlushAndEnd, OutputFails
<1>17. CASE Cancel
  BY <1>1, <1>2, <1>17 DEF Cancel
<1>18. CASE Tick
  BY <1>1, <1>2, <1>18 DEF Tick, Later
<1> HIDE DEF NothingUnflushed, pollVars, tellVars, timeVars, historyVars
<1> QED
  BY <1>3, <1>4, <1>5, <1>6, <1>7, <1>8, <1>9, <1>10, <1>11, <1>12, <1>13, <1>14, <1>15,
     <1>16, <1>17, <1>18 DEF Next, Step

\* Only what was collected is told.
LEMMA NextCollected ==
    ASSUME LoopInv, Next
    PROVE  CollectedInv'
<1>1. LoopTypes /\ CollectedInv
  BY DEF LoopInv
<1>2. /\ Interval \in Nat /\ FailuresMax \in Nat \ {0} /\ BatchMax \in Nat \ {0}
      /\ NoSnapshot \notin Snapshots
  BY LoopAssumption
<1> USE DEF LoopTypes, CollectedInv, pollVars, tellVars, timeVars, historyVars
<1>3. CASE Begin
  BY <1>1, <1>2, <1>3 DEF Begin, End, Go, FlushAndEnd, OutputFails
<1>4. CASE CollectFirst
  BY <1>1, <1>2, <1>4 DEF CollectFirst, End, Go, FlushAndEnd, OutputFails
<1>5. CASE Wait
  BY <1>1, <1>2, <1>5 DEF Wait, End, Go, FlushAndEnd, OutputFails
<1>6. CASE Attempt
  BY <1>1, <1>2, <1>6 DEF Attempt, End, Go, FlushAndEnd, OutputFails
<1>7. CASE Collect
  BY <1>1, <1>2, <1>7 DEF Collect, End, Go, FlushAndEnd, OutputFails
<1>8. CASE WriteGap
  BY <1>1, <1>2, <1>8 DEF WriteGap, End, Go, FlushAndEnd, OutputFails, Written
<1>9. CASE AfterGap
  BY <1>1, <1>2, <1>9 DEF AfterGap, End, Go, FlushAndEnd, OutputFails, RestartInterval,
     BudgetSpent
<1>10. CASE StartEvents
  BY <1>1, <1>2, <1>10 DEF StartEvents, End, Go, FlushAndEnd, OutputFails
<1>11. CASE NextGroup
  BY <1>1, <1>2, <1>11 DEF NextGroup, End, Go, FlushAndEnd, OutputFails
<1>12. CASE PassStep
  BY <1>1, <1>2, <1>12 DEF PassStep, LookAtNext, End, Go, FlushAndEnd, OutputFails
<1>13. CASE NextRank
  BY <1>1, <1>2, <1>13 DEF NextRank, End, Go, FlushAndEnd, OutputFails
<1>14. CASE StopInPass
  BY <1>1, <1>2, <1>14 DEF StopInPass, End, Go, FlushAndEnd, OutputFails
<1>15. CASE WriteEvent
  BY <1>1, <1>2, <1>15 DEF WriteEvent, End, Go, FlushAndEnd, OutputFails, Written
<1>16. CASE EndEvents
  BY <1>1, <1>2, <1>16 DEF EndEvents, End, Go, FlushAndEnd, OutputFails
<1>17. CASE Cancel
  BY <1>1, <1>2, <1>17 DEF Cancel
<1>18. CASE Tick
  BY <1>1, <1>2, <1>18 DEF Tick, Later
<1> HIDE DEF LoopTypes, CollectedInv, pollVars, tellVars, timeVars, historyVars
<1> QED
  BY <1>3, <1>4, <1>5, <1>6, <1>7, <1>8, <1>9, <1>10, <1>11, <1>12, <1>13, <1>14, <1>15,
     <1>16, <1>17, <1>18 DEF Next, Step

\* The gap records tell of the failures in a row.
LEMMA NextGaps ==
    ASSUME LoopInv, Next
    PROVE  GapInv'
<1>1. LoopTypes /\ GapInv
  BY DEF LoopInv
<1>2. /\ Interval \in Nat /\ FailuresMax \in Nat \ {0} /\ BatchMax \in Nat \ {0}
      /\ NoSnapshot \notin Snapshots
  BY LoopAssumption
<1> USE DEF LoopTypes, GapInv, TailIs, pollVars, tellVars, timeVars, historyVars
<1>3. CASE Begin
  BY <1>1, <1>2, <1>3 DEF Begin, End, Go, FlushAndEnd, OutputFails
<1>4. CASE CollectFirst
  BY <1>1, <1>2, <1>4 DEF CollectFirst, End, Go, FlushAndEnd, OutputFails
<1>5. CASE Wait
  BY <1>1, <1>2, <1>5 DEF Wait, End, Go, FlushAndEnd, OutputFails
<1>6. CASE Attempt
  BY <1>1, <1>2, <1>6 DEF Attempt, End, Go, FlushAndEnd, OutputFails
<1>7. CASE Collect
  BY <1>1, <1>2, <1>7 DEF Collect, End, Go, FlushAndEnd, OutputFails
<1>8. CASE WriteGap
  <2>1. /\ failures \in Nat /\ failures > 0 /\ failures <= FailuresMax /\ failures' = failures
        /\ gapTail \in Seq(Nat) /\ TailIs(failures - 1)
    BY <1>1, <1>8 DEF WriteGap
  <2>2. CASE gapTail' = Append(gapTail, failures) /\ phase' = "gapWritten"
    <3>1. TailIs(failures)'
      BY <2>1, <2>2 DEF TailIs
    <3> QED
      BY <2>1, <2>2, <3>1
  <2>3. CASE phase' = "done"
    BY <2>3
  <2> QED
    BY <1>8, <2>2, <2>3 DEF WriteGap, Go, End, OutputFails
<1>9. CASE AfterGap
  BY <1>1, <1>2, <1>9 DEF AfterGap, End, Go, FlushAndEnd, OutputFails, RestartInterval,
     BudgetSpent
<1>10. CASE StartEvents
  <2>1. CASE failures' = 0 /\ gapTail' = <<>> /\ phase' = "tell"
    <3>1. TailIs(failures)'
      BY <2>1 DEF TailIs
    <3> QED
      BY <1>2, <2>1, <3>1
  <2>2. CASE phase' = "done"
    BY <2>2
  <2> QED
    BY <1>10, <2>1, <2>2 DEF StartEvents, Go, End, FlushAndEnd, OutputFails
<1>11. CASE NextGroup
  BY <1>1, <1>2, <1>11 DEF NextGroup, End, Go, FlushAndEnd, OutputFails
<1>12. CASE PassStep
  BY <1>1, <1>2, <1>12 DEF PassStep, LookAtNext, End, Go, FlushAndEnd, OutputFails
<1>13. CASE NextRank
  BY <1>1, <1>2, <1>13 DEF NextRank, End, Go, FlushAndEnd, OutputFails
<1>14. CASE StopInPass
  BY <1>1, <1>2, <1>14 DEF StopInPass, End, Go, FlushAndEnd, OutputFails
<1>15. CASE WriteEvent
  BY <1>1, <1>2, <1>15 DEF WriteEvent, End, Go, FlushAndEnd, OutputFails, Written
<1>16. CASE EndEvents
  BY <1>1, <1>2, <1>16 DEF EndEvents, End, Go, FlushAndEnd, OutputFails
<1>17. CASE Cancel
  BY <1>1, <1>2, <1>17 DEF Cancel
<1>18. CASE Tick
  BY <1>1, <1>2, <1>18 DEF Tick, Later
<1> HIDE DEF LoopTypes, GapInv, TailIs, pollVars, tellVars, timeVars, historyVars
<1> QED
  BY <1>3, <1>4, <1>5, <1>6, <1>7, <1>8, <1>9, <1>10, <1>11, <1>12, <1>13, <1>14, <1>15,
     <1>16, <1>17, <1>18 DEF Next, Step

\* The gap records of a spent budget.
LEMMA FullTail ==
    ASSUME LoopTypes, TailIs(FailuresMax)
    PROVE  gapTail = [i \in 1..FailuresMax |-> i]
<1>1. gapTail \in Seq(Nat) /\ Len(gapTail) = FailuresMax
  BY DEF LoopTypes, TailIs
<1>2. gapTail = [i \in 1..FailuresMax |-> gapTail[i]]
  BY <1>1
<1> QED
  BY <1>2 DEF TailIs

\* How the command ends says how often it failed.
LEMMA NextBudget ==
    ASSUME LoopInv, Next
    PROVE  BudgetSpeaks'
<1>1. /\ failures \in Nat /\ GapInv /\ BudgetSpeaks
      /\ phase # "done" => result = "none"
      /\ TailIs(FailuresMax) => gapTail = [i \in 1..FailuresMax |-> i]
  BY FullTail DEF LoopInv, LoopTypes
<1>2. /\ Interval \in Nat /\ FailuresMax \in Nat \ {0} /\ BatchMax \in Nat \ {0}
      /\ NoSnapshot \notin Snapshots
  BY LoopAssumption
<1> USE DEF GapInv, TailIs, BudgetSpeaks, pollVars, tellVars, timeVars, historyVars
<1>3. CASE Begin
  BY <1>1, <1>2, <1>3 DEF Begin, End, Go, FlushAndEnd, OutputFails
<1>4. CASE CollectFirst
  BY <1>1, <1>2, <1>4 DEF CollectFirst, End, Go, FlushAndEnd, OutputFails
<1>5. CASE Wait
  BY <1>1, <1>2, <1>5 DEF Wait, End, Go, FlushAndEnd, OutputFails
<1>6. CASE Attempt
  BY <1>1, <1>2, <1>6 DEF Attempt, End, Go, FlushAndEnd, OutputFails
<1>7. CASE Collect
  BY <1>1, <1>2, <1>7 DEF Collect, End, Go, FlushAndEnd, OutputFails
<1>8. CASE WriteGap
  BY <1>1, <1>2, <1>8 DEF WriteGap, End, Go, FlushAndEnd, OutputFails, Written
<1>9. CASE AfterGap
  BY <1>1, <1>2, <1>9 DEF AfterGap, End, Go, FlushAndEnd, OutputFails, RestartInterval,
     BudgetSpent
<1>10. CASE StartEvents
  BY <1>1, <1>2, <1>10 DEF StartEvents, End, Go, FlushAndEnd, OutputFails
<1>11. CASE NextGroup
  BY <1>1, <1>2, <1>11 DEF NextGroup, End, Go, FlushAndEnd, OutputFails
<1>12. CASE PassStep
  BY <1>1, <1>2, <1>12 DEF PassStep, LookAtNext, End, Go, FlushAndEnd, OutputFails
<1>13. CASE NextRank
  BY <1>1, <1>2, <1>13 DEF NextRank, End, Go, FlushAndEnd, OutputFails
<1>14. CASE StopInPass
  BY <1>1, <1>2, <1>14 DEF StopInPass, End, Go, FlushAndEnd, OutputFails
<1>15. CASE WriteEvent
  BY <1>1, <1>2, <1>15 DEF WriteEvent, End, Go, FlushAndEnd, OutputFails, Written
<1>16. CASE EndEvents
  BY <1>1, <1>2, <1>16 DEF EndEvents, End, Go, FlushAndEnd, OutputFails
<1>17. CASE Cancel
  BY <1>1, <1>2, <1>17 DEF Cancel
<1>18. CASE Tick
  BY <1>1, <1>2, <1>18 DEF Tick, Later
<1> HIDE DEF GapInv, TailIs, BudgetSpeaks, pollVars, tellVars, timeVars, historyVars
<1> QED
  BY <1>3, <1>4, <1>5, <1>6, <1>7, <1>8, <1>9, <1>10, <1>11, <1>12, <1>13, <1>14, <1>15,
     <1>16, <1>17, <1>18 DEF Next, Step

\* What a snapshot holds are sockets, and what is told of two of them are events.
LEMMA BaselineIsEvents ==
    ASSUME NEW snapshot \in Snapshots
    PROVE  BaselineEvents(snapshot) \in SUBSET Event
<1>1. snapshot.sockets \subseteq Socket
  BY LoopAssumption DEF Snapshot
<1> QED
  BY <1>1 DEF BaselineEvents, Baseline, Event

LEMMA DiffIsEvents ==
    ASSUME NEW before \in Snapshots, NEW after \in Snapshots
    PROVE  DiffEvents(before, after) \in SUBSET Event
<1>1. before.sockets \subseteq Socket /\ after.sockets \subseteq Socket
  BY LoopAssumption DEF Snapshot
<1>2. ASSUME NEW b \in Bucket
      PROVE  BucketEvents(before, after, b) \in SUBSET Event
  <2>1. InBucket(before, b) \subseteq Socket /\ InBucket(after, b) \subseteq Socket
    BY <1>1 DEF InBucket
  <2>2. \A p, c \in Socket : /\ Release(p) \in Event /\ Bind(c) \in Event
                             /\ Replacement(p, c) \in Event
    BY DEF Release, Bind, Replacement, Event
  <2>3. SUFFICES ASSUME NEW e \in BucketEvents(before, after, b)
                 PROVE  e \in Event
    OBVIOUS
  <2> DEFINE gone == InBucket(before, b) \ InBucket(after, b)
             new == InBucket(after, b) \ InBucket(before, b)
  <2>4. \/ \E p \in InBucket(before, b), c \in InBucket(after, b) : e = Replacement(p, c)
        \/ \E s \in Beyond(gone, Cardinality(new)) : e = Release(s)
        \/ \E s \in Beyond(new, Cardinality(gone)) : e = Bind(s)
    BY <2>3 DEF BucketEvents
  <2>5. \A S, n : Beyond(S, n) \subseteq S
    BY DEF Beyond
  <2> QED
    BY <2>1, <2>2, <2>4, <2>5
<1> QED
  BY <1>2 DEF DiffEvents

\* Types are kept.
LEMMA NextTypes ==
    ASSUME LoopInv, Next
    PROVE  LoopTypes'
<1>1. LoopTypes /\ CollectedInv /\ phase \in Phases
  BY DEF LoopInv, LoopTypes
<1>2. /\ Interval \in Nat /\ FailuresMax \in Nat \ {0} /\ BatchMax \in Nat \ {0}
      /\ NoSnapshot \notin Snapshots
  BY LoopAssumption
<1> USE DEF LoopTypes, Phases, pollVars, tellVars, timeVars, historyVars
<1>3. CASE Begin
  BY <1>1, <1>2, <1>3 DEF Begin, End, Go, FlushAndEnd, OutputFails
<1>4. CASE CollectFirst
  BY <1>1, <1>2, <1>4 DEF CollectFirst, End, Go, FlushAndEnd, OutputFails
<1>5. CASE Wait
  BY <1>1, <1>2, <1>5 DEF Wait, End, Go, FlushAndEnd, OutputFails
<1>6. CASE Attempt
  BY <1>1, <1>2, <1>6 DEF Attempt, End, Go, FlushAndEnd, OutputFails
<1>7. CASE Collect
  BY <1>1, <1>2, <1>7 DEF Collect, End, Go, FlushAndEnd, OutputFails
<1>8. CASE WriteGap
  <2>1. gapTail' \in Seq(Nat) /\ late' \in Nat
    <3> HIDE DEF Phases
    <3>1. gapTail \in Seq(Nat) /\ failures \in Nat /\ late \in Nat
      BY <1>1
    <3>2. Append(gapTail, failures) \in Seq(Nat)
      BY <3>1
    <3>3. gapTail' = Append(gapTail, failures) \/ gapTail' = gapTail
      BY <1>8 DEF WriteGap
    <3>4. late' \in {late, late + 1}
      BY <1>8 DEF WriteGap, Written
    <3> HIDE DEF LoopTypes
    <3> QED
      BY <3>1, <3>2, <3>3, <3>4
  <2>2. phase' \in Phases
    BY <1>1, <1>8 DEF WriteGap, End, Go, OutputFails
  <2>3. UNCHANGED <<options, previous, current, todo, failures, left, age, sinceAttempt,
                    sinceFailure>>
    BY <1>8 DEF WriteGap
  <2> QED
    BY <1>1, <2>1, <2>2, <2>3
<1>9. CASE AfterGap
  BY <1>1, <1>2, <1>9 DEF AfterGap, End, Go, FlushAndEnd, OutputFails, RestartInterval,
     BudgetSpent
<1>10. CASE StartEvents
  <2>1. current \in Snapshots /\ previous \in Snapshots \cup {NoSnapshot}
    BY <1>1, <1>10 DEF StartEvents, CollectedInv
  <2>2. todo' \in SUBSET Event
    <3>1. BaselineEvents(current) \in SUBSET Event
      BY <2>1, BaselineIsEvents
    <3>2. CASE previous \in Snapshots
      BY <1>1, <1>10, <2>1, <3>1, <3>2, DiffIsEvents DEF StartEvents
    <3>3. CASE previous = NoSnapshot
      BY <1>1, <1>10, <3>1, <3>3 DEF StartEvents
    <3> QED
      BY <2>1, <3>2, <3>3
  <2> QED
    <3>1. gapTail' \in Seq(Nat)
      <4>1. gapTail' = gapTail \/ gapTail' = <<>>
        BY <1>10 DEF StartEvents
      <4>2. gapTail \in Seq(Nat)
        BY <1>1
      <4>3. << >> \in Seq(Nat)
        OBVIOUS
      <4> QED
        BY <4>1, <4>2, <4>3, Zenon
    <3>2. phase' \in Phases /\ failures' \in Nat
      BY <1>1, <1>10 DEF StartEvents, End, Go, FlushAndEnd, OutputFails
    <3>3. UNCHANGED <<options, previous, current, left, age, sinceAttempt, sinceFailure, late>>
      BY <1>10 DEF StartEvents
    <3> QED
      BY <1>1, <2>2, <3>1, <3>2, <3>3
<1>11. CASE NextGroup
  BY <1>1, <1>2, <1>11 DEF NextGroup, End, Go, FlushAndEnd, OutputFails
<1>12. CASE PassStep
  BY <1>1, <1>2, <1>12 DEF PassStep, LookAtNext, End, Go, FlushAndEnd, OutputFails
<1>13. CASE NextRank
  BY <1>1, <1>2, <1>13 DEF NextRank, End, Go, FlushAndEnd, OutputFails
<1>14. CASE StopInPass
  BY <1>1, <1>2, <1>14 DEF StopInPass, End, Go, FlushAndEnd, OutputFails
<1>15. CASE WriteEvent
  BY <1>1, <1>2, <1>15 DEF WriteEvent, End, Go, FlushAndEnd, OutputFails, Written
<1>16. CASE EndEvents
  BY <1>1, <1>2, <1>16 DEF EndEvents, End, Go, FlushAndEnd, OutputFails
<1>17. CASE Cancel
  BY <1>1, <1>2, <1>17 DEF Cancel
<1>18. CASE Tick
  BY <1>1, <1>2, <1>18 DEF Tick, Later
<1> HIDE DEF LoopTypes, Phases, pollVars, tellVars, timeVars, historyVars
<1> QED
  BY <1>3, <1>4, <1>5, <1>6, <1>7, <1>8, <1>9, <1>10, <1>11, <1>12, <1>13, <1>14, <1>15,
     <1>16, <1>17, <1>18 DEF Next, Step

LEMMA InitLoop == Init => LoopInv
<1> SUFFICES ASSUME Init PROVE LoopInv
  OBVIOUS
<1> USE DEF Init
<1>1. LoopTypes
  BY LoopAssumption DEF LoopTypes, Phases
<1>2. CollectedInv /\ IntervalInv /\ GapInv /\ StopInv
  BY LoopAssumption DEF CollectedInv, IntervalInv, GapInv, TailIs, StopInv
<1>3. NothingUnflushed /\ BudgetSpeaks /\ result = "none"
  BY DEF NothingUnflushed, BudgetSpeaks
<1> QED
  BY <1>1, <1>2, <1>3 DEF LoopInv

LEMMA NextLoop == LoopInv /\ [Next]_watchVars => LoopInv'
<1> SUFFICES ASSUME LoopInv, [Next]_watchVars PROVE LoopInv'
  OBVIOUS
<1>1. CASE Next
  BY <1>1, NextTypes, NextCollected, NextInterval, NextGaps, NextStop, NextFlushed, NextBudget
     DEF LoopInv
<1>2. CASE UNCHANGED watchVars
  <2> USE <1>2 DEF watchVars, pollVars, tellVars, timeVars, historyVars
  <2>1. LoopTypes' /\ CollectedInv' /\ IntervalInv' /\ NothingUnflushed' /\ BudgetSpeaks'
    BY DEF LoopInv, LoopTypes, CollectedInv, IntervalInv, NothingUnflushed, BudgetSpeaks
  <2>2. GapInv' /\ StopInv' /\ (phase' # "done" => result' = "none")
    BY DEF LoopInv, GapInv, TailIs, StopInv, StopDue
  <2> QED
    BY <2>1, <2>2 DEF LoopInv
<1> QED
  BY <1>1, <1>2

\* The invariant of the loop holds of every run of the command.
THEOREM LoopHolds == Spec => []LoopInv
  BY InitLoop, NextLoop, PTL DEF Spec

\* Whatever fails, whoever stops the command, and whenever: its last failures are told
\* before it fails of them, nothing written is left unflushed, and no more than the
\* record in hand is written once it is to stop.
THEOREM TheEndIsInOrder == Spec => []EndsInOrder
<1>1. LoopInv => EndsInOrder
  BY DEF LoopInv, EndsInOrder, StopInv, StopsPromptly
<1> QED
  BY <1>1, LoopHolds, PTL

\* A full interval lies before every attempt, since the last one and since the end of
\* the last failed poll, however long a poll takes.
THEOREM IntervalsAreFull == Spec => FullInterval
<1>1. LoopInv /\ [Next]_watchVars =>
          [phase = "due" /\ phase' = "polling" =>
              sinceAttempt >= Interval /\ sinceFailure >= Interval]_watchVars
  BY LoopAssumption DEF LoopInv, LoopTypes, IntervalInv
<1> QED
  BY <1>1, LoopHolds, PTL DEF Spec, FullInterval

-----------------------------------------------------------------------------
\* Least members, and the remainder of a set

UpTo(S, n) == {m \in S : m <= n}

\* The members up to one of them are finitely many.
LEMMA UpToFinite ==
    ASSUME NEW S, \A m \in S : m \in Nat, NEW n \in S
    PROVE  IsFiniteSet(UpTo(S, n)) /\ UpTo(S, n) \subseteq S
<1>1. UpTo(S, n) \subseteq 0..n
  BY DEF UpTo
<1>2. IsFiniteSet(0..n)
  BY FS_Interval
<1> QED
  BY <1>1, <1>2, FS_Subset DEF UpTo

\* They grow with it.
LEMMA UpToOrder ==
    ASSUME NEW S, \A m \in S : m \in Nat, NEW n \in S, NEW k \in S
    PROVE  /\ n \in UpTo(S, n)
           /\ k <= n => UpTo(S, k) \subseteq UpTo(S, n)
           /\ k < n => n \notin UpTo(S, k)
BY DEF UpTo

\* A set of numbers that is not empty has a least member.
LEMMA NatMin ==
    ASSUME NEW S, \A m \in S : m \in Nat, S # {}
    PROVE  \E n \in S : \A m \in S : n <= m
<1>1. PICK top \in S : TRUE
  OBVIOUS
<1> DEFINE Top == UpTo(S, top)
           Chains == {UpTo(S, n) : n \in Top}
<1>2. Top \subseteq S
  BY UpToFinite
<1>3. IsWellFoundedOn(StrictSubsetOrdering(Top), FiniteSubsetsOf(Top))
  BY FS_StrictSubsetOrderingWellFounded
<1>4. \A n \in Top : n \in S /\ UpTo(S, n) \subseteq Top /\ IsFiniteSet(UpTo(S, n))
  BY <1>2, UpToFinite, UpToOrder DEF UpTo
<1>5. Chains \subseteq FiniteSubsetsOf(Top) /\ Chains # {}
  BY <1>4, UpToOrder DEF FiniteSubsetsOf
<1>6. PICK C \in Chains : \A D \in Chains : <<D, C>> \notin StrictSubsetOrdering(Top)
  <2> HIDE DEF Chains, Top
  <2> QED
    BY <1>3, <1>5, WFMin, Zenon
<1>7. PICK n \in Top : C = UpTo(S, n)
  OBVIOUS
<1>8. ASSUME NEW m \in S, m < n
      PROVE  FALSE
  <2>1. n \in S /\ m \in Nat /\ n \in Nat
    BY <1>2
  <2>2. m <= n /\ n <= top /\ top \in Nat
    BY <1>8, <2>1 DEF UpTo
  <2>3. UpTo(S, m) \subseteq UpTo(S, n) /\ n \notin UpTo(S, m) /\ n \in UpTo(S, n)
    BY <1>8, <2>1, <2>2, UpToOrder, Zenon
  <2>4. m \in Top
    BY <2>1, <2>2 DEF UpTo
  <2>5. <<UpTo(S, m), C>> \in StrictSubsetOrdering(Top)
    BY <1>4, <1>7, <2>3, <2>4 DEF StrictSubsetOrdering
  <2> QED
    BY <1>6, <2>4, <2>5
<1> QED
  BY <1>2, <1>8

\* The ranks of a group have a least one.
LEMMA LeastIs ==
    ASSUME NEW ranks, \A r \in ranks : r \in Nat, ranks # {}
    PROVE  Least(ranks) \in ranks /\ \A r \in ranks : Least(ranks) <= r
BY NatMin DEF Least

Below(S, s) == {t \in S : t < s}
First(S, n) == {s \in S : Cardinality(Below(S, s)) < n}

\* The more members are below one, the later it comes.
LEMMA BelowFinite ==
    ASSUME NEW S, \A m \in S : m \in Nat, IsFiniteSet(S), NEW s \in S, NEW t \in S
    PROVE  /\ IsFiniteSet(Below(S, s)) /\ Cardinality(Below(S, s)) \in Nat
           /\ t <= s => Cardinality(Below(S, t)) <= Cardinality(Below(S, s))
           /\ t < s => Cardinality(Below(S, t)) < Cardinality(Below(S, s))
<1>1. \A r \in S : IsFiniteSet(Below(S, r)) /\ Cardinality(Below(S, r)) \in Nat
  BY FS_Subset, FS_CardinalityType DEF Below
<1>2. ASSUME t < s
      PROVE  Cardinality(Below(S, t)) < Cardinality(Below(S, s))
  <2>1. Below(S, t) \in SUBSET Below(S, s) /\ t \in Below(S, s) /\ t \notin Below(S, t)
    BY <1>2 DEF Below
  <2>2. Below(S, t) # Below(S, s)
    BY <2>1
  <2>3. /\ Cardinality(Below(S, t)) <= Cardinality(Below(S, s))
        /\ Cardinality(Below(S, s)) # Cardinality(Below(S, t))
    BY <1>1, <2>1, <2>2, FS_Subset
  <2> QED
    BY <1>1, <2>3
<1>3. t <= s => t = s \/ t < s
  OBVIOUS
<1> QED
  BY <1>1, <1>2, <1>3

\* The n least members of a set are n.
LEMMA FirstAre ==
    ASSUME NEW S, \A m \in S : m \in Nat, IsFiniteSet(S), NEW n \in Nat, n <= Cardinality(S)
    PROVE  Cardinality(First(S, n)) = n
<1> DEFINE Bad == {m \in 0..Cardinality(S) : Cardinality(First(S, m)) # m}
<1>1. Cardinality(S) \in Nat
  BY FS_CardinalityType
<1>2. \A m : First(S, m) \in SUBSET S
  BY DEF First
<1>3. SUFFICES ASSUME Bad # {}
               PROVE  FALSE
  BY <1>1
<1>4. PICK m \in Bad : \A k \in Bad : m <= k
  <2>1. \A k \in Bad : k \in Nat
    BY <1>1
  <2> HIDE DEF Bad
  <2> QED
    BY <1>3, <2>1, NatMin
<1>5. m \in 0..Cardinality(S) /\ Cardinality(First(S, m)) # m
  OBVIOUS
<1>6. m # 0
  <2>1. First(S, 0) = {}
    BY BelowFinite DEF First
  <2> QED
    BY <1>5, <2>1, FS_EmptySet
<1>7. m - 1 \in 0..Cardinality(S) /\ m - 1 \notin Bad
  BY <1>1, <1>4, <1>5, <1>6
<1>8. Cardinality(First(S, m - 1)) = m - 1
  BY <1>7
<1> HIDE DEF Bad
<1>9. S \ First(S, m - 1) # {}
  BY <1>1, <1>2, <1>5, <1>8
<1>10. PICK x \in S \ First(S, m - 1) : \A y \in S \ First(S, m - 1) : x <= y
  <2>1. \A k \in S \ First(S, m - 1) : k \in Nat
    OBVIOUS
  <2> QED
    BY <1>9, <2>1, NatMin
<1>11. \A y \in First(S, m - 1) : y < x
  <2> SUFFICES ASSUME NEW y \in First(S, m - 1), x <= y
               PROVE  FALSE
    BY <1>2, <1>10
  <2>1. /\ Cardinality(Below(S, x)) <= Cardinality(Below(S, y))
        /\ Cardinality(Below(S, x)) \in Nat /\ Cardinality(Below(S, y)) \in Nat
    BY <1>2, <1>10, BelowFinite
  <2> QED
    BY <1>5, <1>10, <2>1 DEF First
<1>12. Below(S, x) = First(S, m - 1)
  BY <1>2, <1>10, <1>11 DEF Below
<1>13. First(S, m) = First(S, m - 1) \cup {x}
  <2>1. x \in First(S, m)
    BY <1>1, <1>5, <1>8, <1>10, <1>12 DEF First
  <2>2. First(S, m - 1) \subseteq First(S, m)
    BY <1>1, <1>5, BelowFinite DEF First
  <2>3. ASSUME NEW y \in First(S, m), y \notin First(S, m - 1), y # x
        PROVE  FALSE
    <3>1. y \in S /\ x < y
      BY <1>10, <2>3 DEF First
    <3>2. Cardinality(Below(S, x)) < Cardinality(Below(S, y))
      BY <1>10, <3>1, BelowFinite
    <3>3. Cardinality(Below(S, y)) \in Nat /\ Cardinality(Below(S, y)) < m
      BY <2>3, <3>1, BelowFinite DEF First
    <3> QED
      BY <1>1, <1>5, <1>8, <1>12, <3>2, <3>3
  <2> QED
    BY <2>1, <2>2, <2>3
<1>14. Cardinality(First(S, m)) = m
  <2>1. IsFiniteSet(First(S, m - 1))
    BY <1>2, FS_Subset
  <2>2. Cardinality(First(S, m - 1) \cup {x}) = Cardinality(First(S, m - 1)) + 1
    BY <1>10, <2>1, FS_AddElement
  <2> QED
    BY <1>1, <1>5, <1>8, <1>13, <2>2
<1> QED
  BY <1>5, <1>14

\* Beyond the first n there are the others.
LEMMA BeyondCounts ==
    ASSUME NEW S, \A m \in S : m \in Nat, IsFiniteSet(S), NEW n \in Nat, n <= Cardinality(S)
    PROVE  /\ IsFiniteSet(Beyond(S, n)) /\ Beyond(S, n) \subseteq S
           /\ Cardinality(Beyond(S, n)) = Cardinality(S) - n
<1>1. Beyond(S, n) = S \ First(S, n)
  <2>1. \A s \in S : Cardinality(Below(S, s)) \in Nat
    BY BelowFinite
  <2>2. Beyond(S, n) = {s \in S : Cardinality(Below(S, s)) >= n}
    BY DEF Beyond, Below
  <2> QED
    BY <2>1, <2>2 DEF First
<1>2. First(S, n) \subseteq S /\ S \cap First(S, n) = First(S, n)
  BY DEF First
<1> QED
  BY <1>1, <1>2, FirstAre, FS_Difference

-----------------------------------------------------------------------------
\* What the events of a comparison add up to

Gains(events, b) == {e \in events : e.kind \in {"bind", "baseline"} /\ Place(e) = b}
Losses(events, b) == {e \in events : e.kind = "release" /\ Place(e) = b}

\* There are as many events of one kind as there are sockets they are about.
LEMMA OneEventEach ==
    ASSUME NEW S, IsFiniteSet(S)
    PROVE  /\ IsFiniteSet({Release(s) : s \in S})
           /\ Cardinality({Release(s) : s \in S}) = Cardinality(S)
           /\ IsFiniteSet({Bind(s) : s \in S})
           /\ Cardinality({Bind(s) : s \in S}) = Cardinality(S)
           /\ IsFiniteSet({Baseline(s) : s \in S})
           /\ Cardinality({Baseline(s) : s \in S}) = Cardinality(S)
<1>1. ExistsBijection(S, {Release(s) : s \in S})
  <2>1. [s \in S |-> Release(s)] \in Bijection(S, {Release(s) : s \in S})
    BY DEF Bijection, Injection, Surjection, IsInjective, Release
  <2> QED
    BY <2>1 DEF ExistsBijection
<1>2. ExistsBijection(S, {Bind(s) : s \in S})
  <2>1. [s \in S |-> Bind(s)] \in Bijection(S, {Bind(s) : s \in S})
    BY DEF Bijection, Injection, Surjection, IsInjective, Bind
  <2> QED
    BY <2>1 DEF ExistsBijection
<1>3. ExistsBijection(S, {Baseline(s) : s \in S})
  <2>1. [s \in S |-> Baseline(s)] \in Bijection(S, {Baseline(s) : s \in S})
    BY DEF Bijection, Injection, Surjection, IsInjective, Baseline
  <2> QED
    BY <2>1 DEF ExistsBijection
<1> QED
  BY <1>1, <1>2, <1>3, FS_Bijection

\* A bucket of a snapshot is a finite set of sockets.
LEMMA BucketsAreFinite ==
    ASSUME NEW snapshot \in Snapshots, NEW b
    PROVE  /\ InBucket(snapshot, b) \subseteq Socket
           /\ \A s \in InBucket(snapshot, b) : s \in Socket /\ BucketOf[s] = b
           /\ IsFiniteSet(InBucket(snapshot, b)) /\ Cardinality(InBucket(snapshot, b)) \in Nat
<1>1. InBucket(snapshot, b) \in SUBSET Socket /\ IsFiniteSet(Socket)
  BY LoopAssumption, DiffAssumption DEF Snapshot, InBucket
<1> QED
  BY <1>1, FS_Subset, FS_CardinalityType DEF InBucket

\* The first snapshot is told socket by socket.
LEMMA BaselineAddsUp ==
    ASSUME NEW snapshot \in Snapshots, NEW b
    PROVE  /\ Losses(BaselineEvents(snapshot), b) = {}
           /\ Cardinality(Gains(BaselineEvents(snapshot), b))
                = Cardinality(InBucket(snapshot, b))
<1>1. Gains(BaselineEvents(snapshot), b) = {Baseline(s) : s \in InBucket(snapshot, b)}
  BY DEF Gains, BaselineEvents, Baseline, Place, Subject, InBucket
<1>2. Losses(BaselineEvents(snapshot), b) = {}
  BY DEF Losses, BaselineEvents, Baseline
<1> QED
  BY <1>1, <1>2, OneEventEach, BucketsAreFinite

\* The events about a bucket are those of its comparison.
LEMMA PlacedInBucket ==
    ASSUME NEW before \in Snapshots, NEW after \in Snapshots, NEW b \in Bucket
    PROVE  /\ Gains(DiffEvents(before, after), b) = Gains(BucketEvents(before, after, b), b)
           /\ Losses(DiffEvents(before, after), b) = Losses(BucketEvents(before, after, b), b)
<1>1. ASSUME NEW d \in Bucket, NEW e \in BucketEvents(before, after, d)
      PROVE  Place(e) = d
  <2> DEFINE gone == InBucket(before, d) \ InBucket(after, d)
             new == InBucket(after, d) \ InBucket(before, d)
  <2>1. \/ \E p \in InBucket(before, d), c \in InBucket(after, d) : e = Replacement(p, c)
        \/ \E s \in Beyond(gone, Cardinality(new)) : e = Release(s)
        \/ \E s \in Beyond(new, Cardinality(gone)) : e = Bind(s)
    BY DEF BucketEvents
  <2>2. \A S, n : Beyond(S, n) \subseteq S
    BY DEF Beyond
  <2> QED
    BY <2>1, <2>2, BucketsAreFinite DEF Place, Subject, Replacement, Release, Bind
<1> QED
  BY <1>1 DEF DiffEvents, Gains, Losses

\* The surplus of a bucket, and only that, is told: what was there and what is told
\* of it make what is there.
LEMMA DiffAddsUp ==
    ASSUME NEW before \in Snapshots, NEW after \in Snapshots, NEW b \in Bucket
    PROVE  /\ Cardinality(Gains(DiffEvents(before, after), b)) \in Nat
           /\ Cardinality(Losses(DiffEvents(before, after), b)) \in Nat
           /\ Cardinality(InBucket(before, b)) + Cardinality(Gains(DiffEvents(before, after), b))
                - Cardinality(Losses(DiffEvents(before, after), b))
              = Cardinality(InBucket(after, b))
<1> DEFINE old == InBucket(before, b)
           now == InBucket(after, b)
           gone == old \ now
           new == now \ old
           events == BucketEvents(before, after, b)
<1>1. /\ IsFiniteSet(old) /\ IsFiniteSet(now)
      /\ Cardinality(old) \in Nat /\ Cardinality(now) \in Nat
      /\ \A s \in old \cup now : s \in Socket /\ BucketOf[s] = b /\ s \in Nat
  BY BucketsAreFinite, DiffAssumption
<1>2. /\ Cardinality(gone) = Cardinality(old) - Cardinality(old \cap now)
      /\ Cardinality(new) = Cardinality(now) - Cardinality(now \cap old)
      /\ IsFiniteSet(gone) /\ IsFiniteSet(new)
      /\ Cardinality(gone) \in Nat /\ Cardinality(new) \in Nat
  BY <1>1, FS_Difference, FS_CardinalityType
<1>3. /\ old \cap now = now \cap old
      /\ Cardinality(old \cap now) \in Nat
  BY <1>1, FS_Intersection, FS_CardinalityType
<1>4. Cardinality(old) + Cardinality(new) = Cardinality(now) + Cardinality(gone)
  BY <1>1, <1>2, <1>3
<1>5. CASE Replaces(before, after, b)
  <2>1. events = {Replacement(p, c) : p \in old, c \in now}
    BY <1>5 DEF BucketEvents
  <2>2. Gains(events, b) = {} /\ Losses(events, b) = {}
    BY <2>1 DEF Gains, Losses, Replacement
  <2>3. Cardinality(old) = 1 /\ Cardinality(now) = 1
    BY <1>5, FS_Singleton DEF Replaces
  <2>4. /\ Cardinality(Gains(DiffEvents(before, after), b)) = 0
        /\ Cardinality(Losses(DiffEvents(before, after), b)) = 0
    <3>1. Cardinality({}) = 0
      BY FS_EmptySet
    <3> HIDE DEF old, now, gone, new
    <3> QED
      BY <2>2, <3>1, PlacedInBucket
  <2> QED
    BY <2>3, <2>4
<1>6. CASE ~Replaces(before, after, b) /\ Cardinality(gone) > Cardinality(new)
  <2>1. events = {Release(s) : s \in Beyond(gone, Cardinality(new))}
    BY <1>6 DEF BucketEvents
  <2>2. /\ IsFiniteSet(Beyond(gone, Cardinality(new)))
        /\ Beyond(gone, Cardinality(new)) \subseteq gone
        /\ Cardinality(Beyond(gone, Cardinality(new))) = Cardinality(gone) - Cardinality(new)
    <3>1. (\A m \in gone : m \in Nat) /\ Cardinality(new) <= Cardinality(gone)
      BY <1>1, <1>2, <1>6
    <3> HIDE DEF gone, new
    <3> QED
      BY <1>2, <3>1, BeyondCounts
  <2>3. Gains(events, b) = {} /\ Losses(events, b) = events
    <3>1. \A s \in Beyond(gone, Cardinality(new)) : BucketOf[s] = b
      BY <1>1, <2>2
    <3> HIDE DEF old, now, gone, new, events
    <3>2. \A e \in events : e.kind = "release" /\ Place(e) = b
      BY <2>1, <3>1 DEF Release, Place, Subject
    <3> QED
      BY <3>2 DEF Gains, Losses
  <2>4. Cardinality(events) = Cardinality(gone) - Cardinality(new)
    BY <2>1, <2>2, OneEventEach
  <2> HIDE DEF old, now, gone, new, events
  <2>5. Cardinality({}) = 0
    BY FS_EmptySet
  <2>6. /\ Cardinality(Gains(DiffEvents(before, after), b)) = 0
        /\ Cardinality(Losses(DiffEvents(before, after), b))
             = Cardinality(gone) - Cardinality(new)
    BY <2>3, <2>4, <2>5, PlacedInBucket DEF events
  <2> QED
    BY <1>1, <1>2, <1>4, <1>6, <2>6 DEF old, now
<1>7. CASE ~Replaces(before, after, b) /\ ~(Cardinality(gone) > Cardinality(new))
  <2>1. events = {Bind(s) : s \in Beyond(new, Cardinality(gone))}
    BY <1>7 DEF BucketEvents
  <2>2. /\ IsFiniteSet(Beyond(new, Cardinality(gone)))
        /\ Beyond(new, Cardinality(gone)) \subseteq new
        /\ Cardinality(Beyond(new, Cardinality(gone))) = Cardinality(new) - Cardinality(gone)
    <3>1. (\A m \in new : m \in Nat) /\ Cardinality(gone) <= Cardinality(new)
      BY <1>1, <1>2, <1>7
    <3> HIDE DEF gone, new
    <3> QED
      BY <1>2, <3>1, BeyondCounts
  <2>3. Losses(events, b) = {} /\ Gains(events, b) = events
    <3>1. \A s \in Beyond(new, Cardinality(gone)) : BucketOf[s] = b
      BY <1>1, <2>2
    <3> HIDE DEF old, now, gone, new, events
    <3>2. \A e \in events : e.kind = "bind" /\ Place(e) = b
      BY <2>1, <3>1 DEF Bind, Place, Subject
    <3> QED
      BY <3>2 DEF Gains, Losses
  <2>4. Cardinality(events) = Cardinality(new) - Cardinality(gone)
    BY <2>1, <2>2, OneEventEach
  <2> HIDE DEF old, now, gone, new, events
  <2>5. Cardinality({}) = 0
    BY FS_EmptySet
  <2>6. /\ Cardinality(Losses(DiffEvents(before, after), b)) = 0
        /\ Cardinality(Gains(DiffEvents(before, after), b))
             = Cardinality(new) - Cardinality(gone)
    BY <2>3, <2>4, <2>5, PlacedInBucket DEF events
  <2> QED
    BY <1>1, <1>2, <1>4, <1>7, <2>6 DEF old, now
<1> QED
  BY <1>5, <1>6, <1>7

\* There are finitely many events.
LEMMA EventsAreFinite == IsFiniteSet(Event)
<1> DEFINE Kinds == {"release", "replacement", "bind", "baseline"}
           Sides == Socket \cup {NoSocket}
           Triples == Kinds \X (Sides \X Sides)
           f == [t \in Triples |->
                    [kind |-> t[1], previous |-> t[2][1], current |-> t[2][2]]]
<1>1. IsFiniteSet(Sides)
  BY DiffAssumption, FS_AddElement
<1>2. IsFiniteSet(Kinds)
  <2> DEFINE A == {"release"} \cup {"replacement"}
             B == {"bind"} \cup {"baseline"}
  <2>1. IsFiniteSet(A) /\ IsFiniteSet(B)
    BY FS_Singleton, FS_Union
  <2>2. Kinds = A \cup B
    OBVIOUS
  <2> HIDE DEF A, B, Kinds
  <2> QED
    BY <2>1, <2>2, FS_Union
<1>3. IsFiniteSet(Triples)
  <2> HIDE DEF Kinds, Sides
  <2>1. IsFiniteSet(Sides \X Sides)
    BY <1>1, FS_Product
  <2> QED
    BY <1>2, <2>1, FS_Product
<1>4. f \in Surjection(Triples, Event)
  <2>1. f \in [Triples -> Event]
    BY DEF Event
  <2>2. ASSUME NEW e \in Event
        PROVE  \E t \in Triples : f[t] = e
    <3>1. <<e.kind, <<e.previous, e.current>>>> \in Triples
      BY DEF Event
    <3>2. f[<<e.kind, <<e.previous, e.current>>>>] = e
      BY <3>1 DEF Event
    <3> QED
      BY <3>1, <3>2
  <2> QED
    BY <2>1, <2>2 DEF Surjection
<1> HIDE DEF f, Triples
<1> QED
  BY <1>3, <1>4, FS_Surjection

-----------------------------------------------------------------------------
\* The ledger: what was told and what is still to be told make what there is

Telling == phase \in {"tell", "pass", "write"}

\* What will be told, unless the command ends before.
AwaitsRank(e) == e \in group /\ (RankOf(e) > rank \/ (RankOf(e) = rank /\ e \in pass))
Pending ==
    {e \in Event :
        Told(e) /\ (e \in todo \/ AwaitsRank(e) \/ (phase = "write" /\ e = event))}

\* A group has left the events to do; its passes go up the ranks, and the event in hand
\* is behind the pass.
GroupInv ==
    /\ group \in SUBSET Event /\ pass \in SUBSET group /\ rank \in Nat
    /\ group \cap todo = {}
    /\ phase \notin {"pass", "write", "done"} => group = {}
    /\ phase = "write" => event \in group \ pass /\ Told(event) /\ RankOf(event) = rank

\* Only snapshots fit to be compared are compared.
SafeInv ==
    /\ previous # NoSnapshot => DiffSafe(previous)
    /\ phase = "collected" \/ Telling => DiffSafe(current)

\* Between two batches the records tell of the last snapshot that was compared.
CarryInv ==
    /\ BetweenPolls => previous # NoSnapshot
    /\ ~Telling /\ phase # "done" => \A b \in Bucket :
           /\ previous = NoSnapshot => ledger[b] = 0
           /\ previous # NoSnapshot /\ Reported(b) =>
                 ledger[b] = Cardinality(InBucket(previous, b))

\* Within a batch, with what is pending they tell of the one being told.
BalanceInv ==
    Telling => \A b \in Bucket : Reported(b) =>
        ledger[b] + Cardinality(Gains(Pending, b)) - Cardinality(Losses(Pending, b))
            = Cardinality(InBucket(current, b))

QuietInv ==
    /\ ledger \in [Bucket -> Int]
    /\ \A b \in Bucket \ options.selected : ledger[b] = 0

LedgerInv == GroupInv /\ SafeInv /\ CarryInv /\ BalanceInv /\ QuietInv

\* Whether and in which order an event is told depends on the two snapshots only.
LEMMA ToldStays ==
    ASSUME UNCHANGED <<options, previous, current>>
    PROVE  \A e : (Told(e)' <=> Told(e)) /\ RankOf(e)' = RankOf(e)
BY DEF Told, RankOf, ResultOf

\* What is reported depends on the command line only.
LEMMA ReportedStays ==
    ASSUME UNCHANGED options
    PROVE  \A b : Reported(b)' <=> Reported(b)
BY DEF Reported

\* The rank of an event that is told is a number.
LEMMA RankType ==
    ASSUME NEW e, Told(e)
    PROVE  RankOf(e) \in Nat
<1>1. ResultOf(e) \in {"not_applied", "matched", "indeterminate", "none"}
  BY DEF ResultOf, FilterResult
<1>2. FilterRank[ResultOf(e)] \in Nat
  BY <1>1 DEF Told, FilterRank
<1>3. CertaintyRank[Certainty(e)] \in Nat
  BY DEF CertaintyRank, Certainty
<1> QED
  BY <1>2, <1>3 DEF RankOf

\* What is told next is one of those to be told.
LEMMA FirstIsOne ==
    ASSUME NEW events \in SUBSET Event, events # {}
    PROVE  FirstOf(events) \in events
<1> DEFINE subjects == {Subject(e) : e \in events}
<1>1. \A e \in Event : Subject(e) \in Nat
  <2>1. Socket \cup {NoSocket} \subseteq Nat
    BY DiffAssumption DEF NoSocket
  <2>2. \A e \in Event : e.previous \in Socket \cup {NoSocket} /\ e.current \in Socket \cup {NoSocket}
    BY DEF Event
  <2> QED
    BY <2>1, <2>2 DEF Subject
<1>2. (\A n \in subjects : n \in Nat) /\ subjects # {}
  BY <1>1
<1>3. PICK n \in subjects : \A m \in subjects : n <= m
  <2> HIDE DEF subjects
  <2> QED
    BY <1>2, NatMin
<1>4. \E e \in events : \A f \in events : Subject(e) <= Subject(f)
  BY <1>3
<1> QED
  BY <1>4 DEF FirstOf

\* The balance, when nothing is told and nothing pending is lost.
LEMMA BalanceStays ==
    ASSUME BalanceInv, Telling, UNCHANGED <<options, current, ledger>>, Pending' = Pending
    PROVE  BalanceInv'
<1>1. \A b : /\ Gains(Pending, b)' = Gains(Pending, b)
             /\ Losses(Pending, b)' = Losses(Pending, b)
  BY DEF Gains, Losses
<1> QED
  BY <1>1, ReportedStays DEF BalanceInv

\* Events of buckets about which nothing is dropped are told.
LEMMA ReportedIsTold ==
    ASSUME LoopTypes, SafeInv, current \in Snapshots, phase = "collected",
           NEW b \in Bucket, Reported(b), NEW e, Place(e) = b,
           \/ \E s \in current.sockets : e = Bind(s) \/ e = Baseline(s)
           \/ previous # NoSnapshot /\ \E s \in previous.sockets : e = Release(s)
    PROVE  Told(e)
<1>1. \E snapshot \in {s \in Snapshots : DiffSafe(s)} : \E s \in snapshot.sockets :
        /\ EventTruth(e, previous, current, options.terms)
             = AnyOf({SideTruth(snapshot, s, options.terms)})
        /\ Subject(e) = s
  <2>1. ASSUME NEW s \in current.sockets, e = Bind(s) \/ e = Baseline(s)
        PROVE  /\ EventTruth(e, previous, current, options.terms)
                    = AnyOf({SideTruth(current, s, options.terms)})
               /\ Subject(e) = s
    <3>1. s # NoSocket
      BY DiffAssumption, LoopAssumption DEF Snapshot, NoSocket
    <3>2. e.previous = NoSocket /\ e.current = s /\ e.kind # "release"
      BY <2>1 DEF Bind, Baseline
    <3>3. {e.previous} \ {NoSocket} = {} /\ {e.current} \ {NoSocket} = {s}
      BY <3>1, <3>2
    <3>4. {SideTruth(previous, t, options.terms) : t \in {e.previous} \ {NoSocket}} \cup
          {SideTruth(current, t, options.terms) : t \in {e.current} \ {NoSocket}}
            = {SideTruth(current, s, options.terms)}
      BY <3>3
    <3> QED
      BY <3>2, <3>4 DEF EventTruth, Subject
  <2>2. ASSUME previous # NoSnapshot, NEW s \in previous.sockets, e = Release(s)
        PROVE  /\ EventTruth(e, previous, current, options.terms)
                    = AnyOf({SideTruth(previous, s, options.terms)})
               /\ Subject(e) = s
    <3>1. s # NoSocket
      BY <2>2, DiffAssumption, LoopAssumption DEF LoopTypes, Snapshot, NoSocket
    <3>2. e.previous = s /\ e.current = NoSocket /\ e.kind = "release"
      BY <2>2 DEF Release
    <3>3. {e.previous} \ {NoSocket} = {s} /\ {e.current} \ {NoSocket} = {}
      BY <3>1, <3>2
    <3>4. {SideTruth(previous, t, options.terms) : t \in {e.previous} \ {NoSocket}} \cup
          {SideTruth(current, t, options.terms) : t \in {e.current} \ {NoSocket}}
            = {SideTruth(previous, s, options.terms)}
      BY <3>3
    <3> QED
      BY <3>2, <3>4 DEF EventTruth, Subject
  <2>3. current \in {s \in Snapshots : DiffSafe(s)}
    BY DEF SafeInv
  <2>4. previous # NoSnapshot => previous \in {s \in Snapshots : DiffSafe(s)}
    BY DEF SafeInv, LoopTypes
  <2> QED
    BY <2>1, <2>2, <2>3, <2>4
<1>2. PICK snapshot \in {s \in Snapshots : DiffSafe(s)} : \E s \in snapshot.sockets :
        /\ EventTruth(e, previous, current, options.terms)
             = AnyOf({SideTruth(snapshot, s, options.terms)})
        /\ Subject(e) = s
  BY <1>1, Zenon
<1>3. PICK s \in snapshot.sockets :
        /\ EventTruth(e, previous, current, options.terms)
             = AnyOf({SideTruth(snapshot, s, options.terms)})
        /\ Subject(e) = s
  BY <1>2, Zenon
<1>4. s \in InBucket(snapshot, b)
  BY <1>3 DEF Place, InBucket
<1>5. \/ SideTruth(snapshot, s, options.terms) = "true"
      \/ SideTruth(snapshot, s, options.terms) = "unknown" /\ ~options.matchedOnly
  BY <1>2, <1>4 DEF Reported
<1>6. b \in options.selected
  BY DEF Reported
<1>7. \/ EventTruth(e, previous, current, options.terms) = "true"
      \/ EventTruth(e, previous, current, options.terms) = "unknown" /\ ~options.matchedOnly
  BY <1>3, <1>5 DEF AnyOf
<1> QED
  BY <1>6, <1>7 DEF Told, ResultOf, FilterResult

\* Away from the telling of a batch the records and what was compared stay as they are.
LEMMA ElsewhereLedger ==
    ASSUME LedgerInv, UNCHANGED <<options, previous, todo, group, pass, rank, event, ledger>>,
           \/ UNCHANGED <<phase, current>>
           \/ phase' = "done"
           \/ /\ ~Telling /\ phase # "done" /\ ~Telling' /\ phase' # "done"
              /\ BetweenPolls' => BetweenPolls
              /\ phase' = "collected" => DiffSafe(current')
    PROVE  LedgerInv'
<1>1. QuietInv' /\ (\A b : Reported(b)' <=> Reported(b))
  BY ReportedStays DEF LedgerInv, QuietInv
<1>2. CASE UNCHANGED <<phase, current>>
  <2>1. Pending' = Pending
    BY <1>2, ToldStays DEF Pending, AwaitsRank
  <2>2. GroupInv'
    BY <1>2, ToldStays DEF LedgerInv, GroupInv
  <2>3. BalanceInv'
    BY <1>2, <2>1, BalanceStays DEF LedgerInv, BalanceInv, Telling
  <2> QED
    BY <1>1, <1>2, <2>2, <2>3 DEF LedgerInv, SafeInv, CarryInv, Telling, BetweenPolls
<1>3. CASE phase' = "done"
  BY <1>1, <1>3 DEF LedgerInv, GroupInv, SafeInv, CarryInv, BalanceInv, Telling, BetweenPolls
<1>4. CASE /\ ~Telling /\ phase # "done" /\ ~Telling' /\ phase' # "done"
           /\ BetweenPolls' => BetweenPolls
           /\ phase' = "collected" => DiffSafe(current')
  <2>1. GroupInv'
    BY <1>4 DEF LedgerInv, GroupInv, Telling
  <2>2. SafeInv' /\ BalanceInv'
    BY <1>4 DEF LedgerInv, SafeInv, BalanceInv
  <2>3. CarryInv'
    BY <1>1, <1>4 DEF LedgerInv, CarryInv
  <2> QED
    BY <1>1, <2>1, <2>2, <2>3 DEF LedgerInv
<1> QED
  BY <1>2, <1>3, <1>4

\* A batch begins with everything pending.
LEMMA StartEventsLedger ==
    ASSUME LoopInv, LedgerInv, StartEvents
    PROVE  LedgerInv'
<1>1. CASE phase' = "done" /\ UNCHANGED todo
  BY <1>1, ElsewhereLedger DEF StartEvents
<1>2. CASE phase' = "tell" /\ todo' = IF previous = NoSnapshot THEN BaselineEvents(current)
                                      ELSE DiffEvents(previous, current)
  <2>1. /\ UNCHANGED <<options, previous, current, group, pass, rank, event, ledger>>
        /\ phase = "collected" /\ current \in Snapshots /\ ~Telling
        /\ previous # NoSnapshot => previous \in Snapshots
        /\ LoopTypes /\ SafeInv /\ group = {} /\ pass = {}
    BY <1>2 DEF StartEvents, LoopInv, LoopTypes, CollectedInv, LedgerInv, GroupInv, Telling
  <2>2. todo' \in SUBSET Event
    BY <1>2, <2>1, BaselineIsEvents, DiffIsEvents
  <2>3. Pending' = {e \in todo' : Told(e)}
    BY <1>2, <2>1, <2>2, ToldStays DEF Pending, AwaitsRank
  <2>4. \A b : Reported(b)' <=> Reported(b)
    BY <2>1, ReportedStays
  <2>5. ASSUME NEW b \in Bucket, Reported(b)
        PROVE  Gains(Pending', b) = Gains(todo', b) /\ Losses(Pending', b) = Losses(todo', b)
    <3>1. ASSUME NEW e \in todo', e.kind \in {"release", "bind", "baseline"}, Place(e) = b
          PROVE  Told(e)
      <4>1. \/ \E s \in current.sockets : e = Bind(s) \/ e = Baseline(s)
            \/ previous # NoSnapshot /\ \E s \in previous.sockets : e = Release(s)
        <5>1. CASE previous = NoSnapshot
          BY <1>2, <3>1, <5>1 DEF BaselineEvents
        <5>2. CASE previous # NoSnapshot
          <6>1. PICK d \in Bucket : e \in BucketEvents(previous, current, d)
            BY <1>2, <3>1, <5>2 DEF DiffEvents
          <6> DEFINE gone == InBucket(previous, d) \ InBucket(current, d)
                     new == InBucket(current, d) \ InBucket(previous, d)
          <6>2. \/ \E p \in InBucket(previous, d), c \in InBucket(current, d) :
                      e = Replacement(p, c)
                \/ \E s \in Beyond(gone, Cardinality(new)) : e = Release(s)
                \/ \E s \in Beyond(new, Cardinality(gone)) : e = Bind(s)
            BY <6>1 DEF BucketEvents
          <6>3. \A p, c : e # Replacement(p, c)
            BY <3>1 DEF Replacement
          <6>4. \A S, n : Beyond(S, n) \subseteq S
            BY DEF Beyond
          <6>5. gone \subseteq previous.sockets /\ new \subseteq current.sockets
            BY DEF InBucket
          <6> HIDE DEF gone, new
          <6> QED
            BY <5>2, <6>2, <6>3, <6>4, <6>5
        <5> QED
          BY <5>1, <5>2
      <4> QED
        BY <2>1, <2>5, <3>1, <4>1, ReportedIsTold
    <3> QED
      BY <2>3, <3>1 DEF Gains, Losses
  <2>6. ASSUME NEW b \in Bucket, Reported(b)
        PROVE  ledger[b] + Cardinality(Gains(todo', b)) - Cardinality(Losses(todo', b))
                 = Cardinality(InBucket(current, b))
    <3>1. /\ previous = NoSnapshot => ledger[b] = 0
          /\ previous # NoSnapshot => ledger[b] = Cardinality(InBucket(previous, b))
      BY <2>1, <2>6 DEF LedgerInv, CarryInv
    <3>2. Cardinality(InBucket(current, b)) \in Nat
      BY <2>1, BucketsAreFinite
    <3>3. CASE previous = NoSnapshot
      <4>1. /\ Losses(todo', b) = {}
            /\ Cardinality(Gains(todo', b)) = Cardinality(InBucket(current, b))
        BY <1>2, <2>1, <3>3, BaselineAddsUp
      <4>2. Cardinality({}) = 0
        BY FS_EmptySet
      <4> QED
        BY <3>1, <3>2, <3>3, <4>1, <4>2
    <3>4. CASE previous # NoSnapshot
      BY <1>2, <2>1, <3>1, <3>4, DiffAddsUp
    <3> QED
      BY <3>3, <3>4
  <2>7. BalanceInv'
    <3>1. \A b : Gains(Pending, b)' = Gains(Pending', b) /\ Losses(Pending, b)' = Losses(Pending', b)
      BY DEF Gains, Losses
    <3> QED
      BY <2>1, <2>4, <2>5, <2>6, <3>1 DEF BalanceInv
  <2>8. GroupInv' /\ SafeInv' /\ CarryInv' /\ QuietInv'
    BY <1>2, <2>1 DEF LedgerInv, GroupInv, SafeInv, CarryInv, QuietInv, Telling, BetweenPolls
  <2> QED
    BY <2>7, <2>8 DEF LedgerInv
<1> QED
  BY <1>1, <1>2 DEF StartEvents, FlushAndEnd, OutputFails, End, Go

\* A group is taken from the events to do: those of it that are told have its ranks.
LEMMA NextGroupLedger ==
    ASSUME LoopInv, LedgerInv, NextGroup
    PROVE  LedgerInv'
<1> DEFINE next == {e \in todo : SamePrefix(FirstOf(todo), e)}
<1>1. CASE phase' = "done" /\ UNCHANGED tellVars
  BY <1>1, ElsewhereLedger DEF NextGroup, tellVars, pollVars, historyVars
<1>2. CASE /\ todo' = todo \ next /\ UNCHANGED event
           /\ IF RanksOf(next) = {}
              THEN Go("tell") /\ UNCHANGED <<group, pass, rank>>
              ELSE Go("pass") /\ group' = next /\ pass' = next /\ rank' = Least(RanksOf(next))
  <2>1. /\ UNCHANGED <<options, previous, current, ledger>> /\ Telling /\ phase = "tell"
        /\ group = {} /\ pass = {} /\ todo \in SUBSET Event /\ rank \in Nat
    BY DEF NextGroup, LoopInv, LoopTypes, LedgerInv, GroupInv, Telling, pollVars, historyVars
  <2>2. \A e : (Told(e)' <=> Told(e)) /\ RankOf(e)' = RankOf(e)
    BY <2>1, ToldStays
  <2>3. next \subseteq todo
    OBVIOUS
  <2>4. \A e \in next : Told(e) => RankOf(e) \in RanksOf(next)
    BY DEF RanksOf
  <2> HIDE DEF next
  <2>5. Pending' = Pending /\ GroupInv' /\ Telling'
    <3>1. CASE RanksOf(next) = {}
      <4>1. phase' = "tell" /\ UNCHANGED <<group, pass, rank>>
        BY <1>2, <3>1 DEF Go
      <4>2. \A e \in next : ~Told(e)
        BY <2>4, <3>1
      <4>3. Pending' = Pending
        BY <1>2, <2>1, <2>2, <2>3, <4>1, <4>2 DEF Pending, AwaitsRank
      <4> QED
        BY <1>2, <2>1, <4>1, <4>3 DEF GroupInv, Telling
    <3>2. CASE RanksOf(next) # {}
      <4>1. phase' = "pass" /\ group' = next /\ pass' = next /\ rank' = Least(RanksOf(next))
        BY <1>2, <3>2 DEF Go
      <4>2. \A r \in RanksOf(next) : r \in Nat
        BY RankType DEF RanksOf
      <4>3. rank' \in Nat /\ \A e \in next : Told(e) => RankOf(e) \in Nat /\ rank' <= RankOf(e)
        BY <2>4, <3>2, <4>1, <4>2, LeastIs
      <4>4. \A e \in next : Told(e) => RankOf(e) > rank' \/ RankOf(e) = rank'
        BY <4>3
      <4>5. Pending' = Pending
        BY <1>2, <2>1, <2>2, <2>3, <4>1, <4>4 DEF Pending, AwaitsRank
      <4> QED
        BY <1>2, <2>1, <2>3, <4>1, <4>3, <4>5 DEF GroupInv, Telling
    <3> QED
      BY <3>1, <3>2
  <2>6. BalanceInv'
    BY <2>1, <2>5, BalanceStays DEF LedgerInv
  <2>7. SafeInv' /\ CarryInv' /\ QuietInv'
    BY <1>2, <2>1, <2>5 DEF LedgerInv, SafeInv, CarryInv, QuietInv, Telling, BetweenPolls, Go
  <2> QED
    BY <2>5, <2>6, <2>7 DEF LedgerInv
<1> QED
  BY <1>1, <1>2 DEF NextGroup, FlushAndEnd, OutputFails, End

\* An event of another rank waits for its pass, or has had it.
LEMMA PassLedger ==
    ASSUME LoopInv, LedgerInv, PassStep
    PROVE  LedgerInv'
<1> DEFINE f == FirstOf(pass)
<1>1. /\ UNCHANGED <<options, previous, current, todo, group, rank, ledger>>
      /\ phase = "pass" /\ Telling /\ pass # {} /\ pass' = pass \ {f}
      /\ IF Told(f) /\ RankOf(f) = rank THEN event' = f /\ phase' = "write"
         ELSE phase' = "pass" /\ UNCHANGED event
  BY DEF PassStep, LookAtNext, Go, Telling, pollVars, historyVars
<1>2. f \in pass /\ pass \in SUBSET group /\ group \in SUBSET Event
  BY <1>1, FirstIsOne DEF LedgerInv, GroupInv
<1> HIDE DEF f
<1>3. \A e : (Told(e)' <=> Told(e)) /\ RankOf(e)' = RankOf(e)
  BY <1>1, ToldStays
<1>4. Pending' = Pending
  BY <1>1, <1>2, <1>3 DEF Pending, AwaitsRank
<1>5. BalanceInv'
  BY <1>1, <1>4, BalanceStays DEF LedgerInv
<1>6. GroupInv'
  BY <1>1, <1>2, <1>3 DEF LedgerInv, GroupInv
<1>7. SafeInv' /\ CarryInv' /\ QuietInv'
  BY <1>1 DEF LedgerInv, SafeInv, CarryInv, QuietInv, Telling, BetweenPolls
<1> QED
  BY <1>5, <1>6, <1>7 DEF LedgerInv

\* No rank is passed over.
LEMMA NextRankLedger ==
    ASSUME LoopInv, LedgerInv, NextRank
    PROVE  LedgerInv'
<1> DEFINE higher == {r \in RanksOf(group) : r > rank}
<1>1. /\ UNCHANGED <<options, previous, current, todo, event, ledger>>
      /\ phase = "pass" /\ Telling /\ pass = {}
      /\ IF higher = {}
         THEN phase' = "tell" /\ group' = {} /\ rank' = 0 /\ UNCHANGED pass
         ELSE phase' = "pass" /\ pass' = group /\ rank' = Least(higher) /\ UNCHANGED group
  BY DEF NextRank, Go, Telling, pollVars, historyVars
<1>2. group \in SUBSET Event /\ rank \in Nat /\ group \cap todo = {}
  BY DEF LedgerInv, GroupInv
<1>3. \A e : (Told(e)' <=> Told(e)) /\ RankOf(e)' = RankOf(e)
  BY <1>1, ToldStays
<1>4. /\ \A e \in group : Told(e) /\ RankOf(e) > rank => RankOf(e) \in higher
      /\ \A r \in higher : r \in Nat /\ r > rank
  BY RankType DEF RanksOf
<1> HIDE DEF higher
<1>5. Pending' = Pending /\ GroupInv'
  <2>1. CASE higher = {}
    <3>1. \A e \in group : ~(Told(e) /\ RankOf(e) > rank)
      BY <1>4, <2>1
    <3>2. Pending' = Pending
      BY <1>1, <1>2, <1>3, <2>1, <3>1 DEF Pending, AwaitsRank
    <3> QED
      BY <1>1, <2>1, <3>2 DEF GroupInv
  <2>2. CASE higher # {}
    <3>1. rank' \in higher /\ \A r \in higher : rank' <= r
      BY <1>1, <1>4, <2>2, LeastIs
    <3>2. \A e \in group : Told(e) =>
              (RankOf(e) > rank <=> RankOf(e) > rank' \/ RankOf(e) = rank')
      BY <1>2, <1>4, <3>1, RankType
    <3>3. Pending' = Pending
      BY <1>1, <1>2, <1>3, <2>2, <3>2 DEF Pending, AwaitsRank
    <3> QED
      BY <1>1, <1>2, <1>4, <2>2, <3>1, <3>3 DEF GroupInv
  <2> QED
    BY <2>1, <2>2
<1>6. BalanceInv'
  BY <1>1, <1>5, BalanceStays DEF LedgerInv
<1>7. SafeInv' /\ CarryInv' /\ QuietInv'
  BY <1>1 DEF LedgerInv, SafeInv, CarryInv, QuietInv, Telling, BetweenPolls
<1> QED
  BY <1>5, <1>6, <1>7 DEF LedgerInv

\* A record written moves its event from what is pending to the ledger.
LEMMA WriteEventLedger ==
    ASSUME LoopInv, LedgerInv, WriteEvent
    PROVE  LedgerInv'
<1>1. /\ UNCHANGED <<options, previous, current, todo, group, pass, rank>>
      /\ phase = "write" /\ Telling /\ phase' \in {"pass", "done"}
      /\ \/ phase' = "done" /\ UNCHANGED ledger
         \/ ledger' = [ledger EXCEPT ![Place(event)] = @ + Change(event)]
  BY DEF WriteEvent, FlushAndEnd, OutputFails, End, Go, Telling, pollVars
<1>2. /\ event \in group \ pass /\ Told(event) /\ RankOf(event) = rank /\ event \in Event
      /\ event \notin todo /\ rank \in Nat /\ group \in SUBSET Event /\ pass \in SUBSET group
      /\ group \cap todo = {} /\ ledger \in [Bucket -> Int]
  BY <1>1 DEF LedgerInv, GroupInv, QuietInv
<1>3. Change(event) \in Int /\ Place(event) \in options.selected
  BY <1>2 DEF Change, Told, ResultOf, FilterResult
<1>4. GroupInv' /\ SafeInv' /\ CarryInv'
  BY <1>1, <1>2 DEF LedgerInv, GroupInv, SafeInv, CarryInv, Telling, BetweenPolls
<1>5. QuietInv'
  BY <1>1, <1>2, <1>3 DEF LedgerInv, QuietInv
<1>6. ASSUME phase' = "pass"
      PROVE  BalanceInv'
  <2>1. \A e : (Told(e)' <=> Told(e)) /\ RankOf(e)' = RankOf(e)
    BY <1>1, ToldStays
  <2>2. Pending' = Pending \ {event} /\ event \in Pending /\ Pending \in SUBSET Event
    BY <1>1, <1>2, <1>6, <2>1 DEF Pending, AwaitsRank
  <2>3. SUFFICES ASSUME NEW b \in Bucket, Reported(b)
                 PROVE  ledger'[b] + Cardinality(Gains(Pending', b))
                          - Cardinality(Losses(Pending', b)) = Cardinality(InBucket(current, b))
    <3>1. \A b : /\ Gains(Pending, b)' = Gains(Pending', b)
                 /\ Losses(Pending, b)' = Losses(Pending', b)
      BY DEF Gains, Losses
    <3> QED
      BY <1>1, <3>1, ReportedStays DEF BalanceInv
  <2> DEFINE gains == Gains(Pending, b)
             losses == Losses(Pending, b)
  <2>4. ledger[b] + Cardinality(gains) - Cardinality(losses) = Cardinality(InBucket(current, b))
    BY <1>1, <2>3 DEF LedgerInv, BalanceInv
  <2>5. /\ IsFiniteSet(gains) /\ IsFiniteSet(losses)
        /\ Cardinality(gains) \in Nat /\ Cardinality(losses) \in Nat
    <3>1. gains \in SUBSET Event /\ losses \in SUBSET Event
      BY <2>2 DEF Gains, Losses
    <3> QED
      BY <3>1, EventsAreFinite, FS_Subset, FS_CardinalityType
  <2>6. Gains(Pending', b) = gains \ {event} /\ Losses(Pending', b) = losses \ {event}
    BY <2>2 DEF Gains, Losses
  <2>7. /\ event \in gains <=> event.kind \in {"bind", "baseline"} /\ Place(event) = b
        /\ event \in losses <=> event.kind = "release" /\ Place(event) = b
    BY <2>2 DEF Gains, Losses
  <2> HIDE DEF gains, losses
  <2>8. /\ Cardinality(Gains(Pending', b))
             = IF event \in gains THEN Cardinality(gains) - 1 ELSE Cardinality(gains)
        /\ Cardinality(Losses(Pending', b))
             = IF event \in losses THEN Cardinality(losses) - 1 ELSE Cardinality(losses)
    BY <2>5, <2>6, FS_RemoveElement
  <2>9. ledger'[b] = IF Place(event) = b THEN ledger[b] + Change(event) ELSE ledger[b]
    BY <1>1, <1>2, <1>6, <2>3
  <2>10. event.kind \in {"release", "replacement", "bind", "baseline"}
    BY <1>2 DEF Event
  <2>11. ledger[b] \in Int
    BY <1>2, <2>3
  <2> QED
    BY <2>4, <2>5, <2>7, <2>8, <2>9, <2>10, <2>11 DEF Change
<1>7. BalanceInv'
  BY <1>1, <1>6 DEF BalanceInv, Telling
<1> QED
  BY <1>4, <1>5, <1>7 DEF LedgerInv

\* When nothing is pending the batch is told.
LEMMA EndEventsLedger ==
    ASSUME LoopInv, LedgerInv, EndEvents
    PROVE  LedgerInv'
<1>1. CASE phase' = "done" /\ UNCHANGED <<previous, current>>
  BY <1>1, ElsewhereLedger DEF EndEvents, tellVars, historyVars
<1>2. CASE phase' = "wait" /\ previous' = current /\ current' = NoSnapshot
  <2>1. /\ UNCHANGED <<options, todo, group, pass, rank, event, ledger>>
        /\ phase = "tell" /\ Telling /\ todo = {} /\ group = {}
        /\ current \in Snapshots /\ current # NoSnapshot /\ DiffSafe(current)
    BY LoopAssumption DEF EndEvents, LoopInv, CollectedInv, LedgerInv, GroupInv, SafeInv,
       Telling, tellVars, historyVars
  <2>2. Pending = {}
    BY <2>1 DEF Pending, AwaitsRank
  <2>3. \A b : Gains(Pending, b) = {} /\ Losses(Pending, b) = {}
    BY <2>2 DEF Gains, Losses
  <2>4. \A b \in Bucket : Reported(b) => ledger[b] = Cardinality(InBucket(current, b))
    <3> SUFFICES ASSUME NEW b \in Bucket, Reported(b)
                 PROVE  ledger[b] = Cardinality(InBucket(current, b))
      OBVIOUS
    <3>1. ledger[b] \in Int
      BY DEF LedgerInv, QuietInv
    <3>2. Cardinality(Gains(Pending, b)) = 0 /\ Cardinality(Losses(Pending, b)) = 0
      BY <2>3, FS_EmptySet
    <3>3. ledger[b] + Cardinality(Gains(Pending, b)) - Cardinality(Losses(Pending, b))
            = Cardinality(InBucket(current, b))
      BY <2>1 DEF LedgerInv, BalanceInv
    <3> QED
      BY <3>1, <3>2, <3>3
  <2>5. CarryInv'
    BY <1>2, <2>1, <2>4, ReportedStays DEF CarryInv
  <2>6. GroupInv' /\ SafeInv' /\ BalanceInv' /\ QuietInv'
    BY <1>2, <2>1 DEF LedgerInv, GroupInv, SafeInv, BalanceInv, QuietInv, Telling
  <2> QED
    BY <2>5, <2>6 DEF LedgerInv
<1> QED
  BY <1>1, <1>2 DEF EndEvents, OutputFails, End, Go

\* Every step keeps the balance.
LEMMA NextLedger ==
    ASSUME LoopInv, LedgerInv, [Next]_watchVars
    PROVE  LedgerInv'
<1> USE DEF pollVars, tellVars, timeVars, historyVars
<1>2. CASE Begin
  BY <1>2, ElsewhereLedger DEF Begin, FlushAndEnd, OutputFails, End, Go, Telling, BetweenPolls
<1>3. CASE CollectFirst
  BY <1>3, ElsewhereLedger DEF CollectFirst, End, Go, Telling, BetweenPolls
<1>4. CASE Wait
  BY <1>4, ElsewhereLedger DEF Wait, FlushAndEnd, OutputFails, End, Go, Telling, BetweenPolls
<1>5. CASE Attempt
  BY <1>5, ElsewhereLedger DEF Attempt, End, Go, Telling, BetweenPolls
<1>6. CASE Collect
  BY <1>6, ElsewhereLedger DEF Collect, End, Go, Telling, BetweenPolls
<1>7. CASE WriteGap
  BY <1>7, ElsewhereLedger DEF WriteGap, OutputFails, End, Go, Telling, BetweenPolls
<1>8. CASE AfterGap
  BY <1>8, ElsewhereLedger DEF AfterGap, FlushAndEnd, OutputFails, End, Go, Telling, BetweenPolls
<1>9. CASE StopInPass
  BY <1>9, ElsewhereLedger DEF StopInPass, FlushAndEnd, OutputFails, End
<1>10. CASE Cancel
  BY <1>10, ElsewhereLedger DEF Cancel
<1>11. CASE Tick
  BY <1>11, ElsewhereLedger DEF Tick
<1>12. CASE UNCHANGED watchVars
  BY <1>12, ElsewhereLedger DEF watchVars
<1> QED
  BY <1>2, <1>3, <1>4, <1>5, <1>6, <1>7, <1>8, <1>9, <1>10, <1>11, <1>12,
     StartEventsLedger, NextGroupLedger, PassLedger, NextRankLedger, WriteEventLedger,
     EndEventsLedger DEF Next, Step

\* The command begins with an empty ledger.
LEMMA InitLedger == Init => LedgerInv
<1> SUFFICES ASSUME Init PROVE LedgerInv
  OBVIOUS
<1> QED
  BY DEF Init, LedgerInv, GroupInv, SafeInv, CarryInv, BalanceInv, QuietInv, Telling,
     BetweenPolls

\* Whatever fails in between, the records add up to the last snapshot that was compared,
\* in every bucket of which no event is dropped; of the others that were not asked for
\* nothing is told.
THEOREM RecordsAddUp == Spec => []LedgerAgrees
<1>1. Init => LoopInv /\ LedgerInv
  BY InitLoop, InitLedger
<1>2. LoopInv /\ LedgerInv /\ [Next]_watchVars => (LoopInv /\ LedgerInv)'
  BY NextLoop, NextLedger
<1>3. LoopInv /\ LedgerInv => LedgerAgrees
  BY DEF LedgerInv, CarryInv, QuietInv, LedgerAgrees, Telling, BetweenPolls
<1> QED
  BY <1>1, <1>2, <1>3, PTL DEF Spec

-----------------------------------------------------------------------------
\* The filter: what was not read never decides

\* Where the platform protects by names only; on macOS an executable that was not
\* read may protect a process whose name was.
NamesProtect == ~ByExecutable

\* The fields of a term, by its kind.
LEMMA TermFields ==
    ASSUME NEW term \in Term
    PROVE  /\ term.kind \in {"endpoint", "pid", "parent", "protected", "plain"}
           /\ term.kind = "endpoint" => term.buckets \in SUBSET Bucket
           /\ term.kind = "pid" => term.pid \in Pid
           /\ term.kind = "parent" => term.pids \in SUBSET Pid /\ term.words \in SUBSET Word
           /\ term.kind = "protected" => term.expected \in BOOLEAN
           /\ term.kind = "plain" =>
                 /\ term.buckets \in SUBSET Bucket /\ term.pids \in SUBSET Pid
                 /\ term.words \in SUBSET Word
                 /\ term.classes \in SUBSET {"protected", "unprotected"}
  BY DEF Term

\* A verified owner has metadata, and a row of it is right about what was read.
LEMMA RowAgrees ==
    ASSUME NEW owner \in Owner, NEW row \in RowsOf(owner)
    PROVE  /\ row \in Row /\ row.pid = owner.pid /\ owner # NoOwner
           /\ Verified(owner) => /\ owner \in DOMAIN MetadataOf
                                 /\ MetadataOf[owner] \in Metadata
                                 /\ CouldBe(row, MetadataOf[owner])
<1>1. owner.pid \in Pid /\ NoPid \notin Pid
  BY DiffAssumption DEF Owner
<1>2. owner # NoOwner
  BY <1>1 DEF NoOwner
<1>3. MetadataOf \in [{o \in Owner : Verified(o)} -> Metadata]
  BY FilterAssumption
<1> QED
  BY <1>2, <1>3 DEF RowsOf

\* What is known of the protection of an owner is true of every row of it.
LEMMA ProtectionAgrees ==
    ASSUME NamesProtect, NEW owner \in Owner, NEW row \in RowsOf(owner)
    PROVE  /\ OwnerProtection(owner) \in Truth
           /\ OwnerProtection(owner) = "true" => Verified(owner) /\ IsProtected(row.name, row.exe)
           /\ OwnerProtection(owner) = "false" => Verified(owner) /\ ~IsProtected(row.name, row.exe)
<1>1. CASE ~Verified(owner)
  BY <1>1 DEF OwnerProtection, Truth
<1>2. CASE Verified(owner)
  <2>1. MetadataOf[owner] \in Metadata /\ CouldBe(row, MetadataOf[owner])
    BY <1>2, RowAgrees
  <2>2. NoWord \notin ProtectedWord
    BY FilterAssumption
  <2> QED
    BY <1>2, <2>1, <2>2 DEF OwnerProtection, Truth, CouldBe, IsProtected, NamesProtect
<1> QED
  BY <1>1, <1>2

\* Every term has a truth.
LEMMA TermHasTruth ==
    ASSUME NEW term \in Term, NEW bucket, NEW owner, NEW complete \in BOOLEAN
    PROVE  TermTruth(term, bucket, owner, complete) \in Truth
<1>1. \A b : TruthOf(b) \in Truth
  BY DEF TruthOf, Truth
<1>2. \A found : MetadataTruth(owner, complete, found) \in Truth
  BY DEF MetadataTruth, Truth
<1>3. \A truths : AnyOf(truths) \in Truth
  BY DEF AnyOf, Truth
<1>4. term.kind = "pid" => TermTruth(term, bucket, owner, complete) \in Truth
  BY <1>1 DEF TermTruth, PidTruth, Truth
<1>5. term.kind = "protected" => TermTruth(term, bucket, owner, complete) \in Truth
  BY <1>1 DEF TermTruth, ProtectedTruth, Truth
<1>6. term.kind = "plain" => TermTruth(term, bucket, owner, complete) \in Truth
  BY <1>3 DEF TermTruth, PlainTruth, Truth
<1>7. term.kind = "parent" => TermTruth(term, bucket, owner, complete) \in Truth
  BY <1>2 DEF TermTruth
<1>8. term.kind = "endpoint" => TermTruth(term, bucket, owner, complete) \in Truth
  BY <1>1 DEF TermTruth
<1> QED
  BY <1>4, <1>5, <1>6, <1>7, <1>8, TermFields

\* The parents that a term names are found wherever they were read, and so are names.
LEMMA ParentAgrees ==
    ASSUME NEW owner \in Owner, NEW row \in RowsOf(owner), Verified(owner),
           NEW term \in Term, term.kind \in {"parent", "plain"}
    PROVE  LET named == row.parentPid \in term.pids \/ row.parent \in term.words
           IN  /\ owner \in ParentFound(term) => named
               /\ named => owner \in ParentFound(term) \/ MetadataOf[owner].partial
<1>1. /\ owner \in DOMAIN MetadataOf /\ MetadataOf[owner] \in Metadata
      /\ CouldBe(row, MetadataOf[owner])
  BY RowAgrees
<1>2. /\ term.pids \in SUBSET Pid /\ term.words \in SUBSET Word
      /\ NoPid \notin Pid /\ NoWord \notin Word
  BY TermFields, DiffAssumption, FilterAssumption
<1> QED
  BY <1>1, <1>2 DEF ParentFound, CouldBe

LEMMA NameAgrees ==
    ASSUME NEW owner \in Owner, NEW row \in RowsOf(owner), Verified(owner),
           NEW term \in Term, term.kind = "plain"
    PROVE  LET named == row.name \in term.words \/ row.exe \in term.words
           IN  /\ owner \in NameFound(term) => named
               /\ named => owner \in NameFound(term) \/ MetadataOf[owner].partial
<1>1. /\ owner \in DOMAIN MetadataOf /\ MetadataOf[owner] \in Metadata
      /\ CouldBe(row, MetadataOf[owner])
  BY RowAgrees
<1>2. term.words \in SUBSET Word /\ NoWord \notin Word
  BY TermFields, FilterAssumption
<1> QED
  BY <1>1, <1>2 DEF NameFound, CouldBe

\* A term that a possible row satisfies is not false of the owner.
LEMMA SatisfiedIsNotFalse ==
    ASSUME NamesProtect, NEW owner \in Owner, NEW row \in RowsOf(owner),
           NEW term \in Term, NEW bucket, NEW complete \in BOOLEAN,
           RowSatisfies(row, term, bucket)
    PROVE  TermTruth(term, bucket, owner, complete) # "false"
<1>1. row.pid = owner.pid /\ owner # NoOwner
  BY RowAgrees
<1>2. CASE term.kind = "endpoint"
  BY <1>2 DEF TermTruth, TruthOf, RowSatisfies
<1>3. CASE term.kind = "pid"
  BY <1>1, <1>3 DEF TermTruth, PidTruth, TruthOf, RowSatisfies
<1>4. CASE term.kind = "parent"
  <2>1. row.parentPid \in term.pids \/ row.parent \in term.words
    BY <1>4 DEF RowSatisfies
  <2>2. Verified(owner) => owner \in ParentFound(term) \/ MetadataOf[owner].partial
    BY <1>4, <2>1, ParentAgrees
  <2> QED
    BY <1>1, <1>4, <2>2 DEF TermTruth, MetadataTruth
<1>5. CASE term.kind = "protected"
  <2>1. IsProtected(row.name, row.exe) <=> term.expected
    BY <1>5, TermFields DEF RowSatisfies
  <2> QED
    BY <1>1, <1>5, <2>1, ProtectionAgrees, TermFields
       DEF TermTruth, ProtectedTruth, TruthOf, Truth
<1>6. CASE term.kind = "plain"
  <2>1. CASE bucket \in term.buckets \/ owner.pid \in term.pids
    BY <1>1, <1>6, <2>1 DEF TermTruth, PlainTruth
  <2>2. CASE IF IsProtected(row.name, row.exe) THEN "protected" \in term.classes
                                               ELSE "unprotected" \in term.classes
    <3>1. ClassTruth(term, owner) # "false"
      BY <1>1, <2>2, ProtectionAgrees DEF ClassTruth, TruthOf, Truth
    <3>2. ClassTruth(term, owner) \in Truth
      BY DEF ClassTruth, TruthOf, Truth
    <3> QED
      BY <1>6, <3>1, <3>2 DEF TermTruth, PlainTruth, AnyOf, Truth
  <2>3. CASE \/ row.name \in term.words \/ row.exe \in term.words
             \/ row.parentPid \in term.pids \/ row.parent \in term.words
    <3>1. Verified(owner) =>
              owner \in NameFound(term) \cup ParentFound(term) \/ MetadataOf[owner].partial
      BY <1>6, <2>3, ParentAgrees, NameAgrees
    <3>2. MetadataTruth(owner, complete, NameFound(term) \cup ParentFound(term))
              \in {"true", "unknown"}
      BY <1>1, <3>1 DEF MetadataTruth
    <3> QED
      BY <1>6, <3>2 DEF TermTruth, PlainTruth, AnyOf
  <2> QED
    BY <1>1, <1>6, <2>1, <2>2, <2>3 DEF RowSatisfies
<1> QED
  BY <1>2, <1>3, <1>4, <1>5, <1>6, TermFields

\* A term that is true of an owner is satisfied by every possible row of it.
LEMMA TrueIsSatisfied ==
    ASSUME NamesProtect, NEW owner \in Owner, NEW row \in RowsOf(owner),
           NEW term \in Term, NEW bucket, NEW complete \in BOOLEAN,
           TermTruth(term, bucket, owner, complete) = "true"
    PROVE  RowSatisfies(row, term, bucket)
<1>1. row.pid = owner.pid /\ owner # NoOwner
  BY RowAgrees
<1>2. CASE term.kind = "endpoint"
  BY <1>2 DEF TermTruth, TruthOf, RowSatisfies
<1>3. CASE term.kind = "pid"
  BY <1>1, <1>3 DEF TermTruth, PidTruth, TruthOf, RowSatisfies
<1>4. CASE term.kind = "parent"
  <2>1. Verified(owner) /\ owner \in ParentFound(term)
    BY <1>1, <1>4 DEF TermTruth, MetadataTruth
  <2>2. row.parentPid \in term.pids \/ row.parent \in term.words
    BY <1>4, <2>1, ParentAgrees
  <2> QED
    BY <1>4, <2>2 DEF RowSatisfies
<1>5. CASE term.kind = "protected"
  <2>1. /\ OwnerProtection(owner) \in {"true", "false"}
        /\ (OwnerProtection(owner) = "true") = term.expected
    BY <1>1, <1>5, ProtectionAgrees DEF TermTruth, ProtectedTruth, TruthOf, Truth
  <2>2. IsProtected(row.name, row.exe) <=> term.expected
    BY <1>5, <2>1, ProtectionAgrees, TermFields
  <2> QED
    BY <1>5, <2>2, TermFields DEF RowSatisfies
<1>6. CASE term.kind = "plain"
  <2>1. CASE bucket \in term.buckets \/ owner.pid \in term.pids
    BY <1>1, <1>6, <2>1 DEF RowSatisfies
  <2>2. CASE ClassTruth(term, owner) = "true"
    <3>1. IF IsProtected(row.name, row.exe) THEN "protected" \in term.classes
                                            ELSE "unprotected" \in term.classes
      BY <1>1, <2>2, ProtectionAgrees DEF ClassTruth, TruthOf, Truth
    <3> QED
      BY <1>6, <3>1 DEF RowSatisfies
  <2>3. CASE MetadataTruth(owner, complete, NameFound(term) \cup ParentFound(term)) = "true"
    <3>1. Verified(owner) /\ owner \in NameFound(term) \cup ParentFound(term)
      BY <1>1, <2>3 DEF MetadataTruth
    <3>2. \/ row.name \in term.words \/ row.exe \in term.words
          \/ row.parentPid \in term.pids \/ row.parent \in term.words
      BY <1>6, <3>1, ParentAgrees, NameAgrees
    <3> QED
      BY <1>6, <3>2 DEF RowSatisfies
  <2> QED
    BY <1>1, <1>6, <2>1, <2>2, <2>3 DEF TermTruth, PlainTruth, AnyOf
<1> QED
  BY <1>2, <1>3, <1>4, <1>5, <1>6, TermFields

\* Of an owner that was not seen nothing is false, unless nobody owns the socket.
LEMMA NoOwnerIsNotFalse ==
    ASSUME NEW term \in Term, NEW bucket, NEW complete \in BOOLEAN,
           \/ ~complete /\ ~OwnerIndependent(term)
           \/ OwnerlessSatisfies(term, bucket)
    PROVE  TermTruth(term, bucket, NoOwner, complete) # "false"
<1>1. CASE ~complete /\ ~OwnerIndependent(term)
  BY <1>1, TermFields DEF OwnerIndependent, TermTruth, PidTruth, MetadataTruth, ProtectedTruth,
     PlainTruth, ClassTruth, AnyOf
<1>2. CASE OwnerlessSatisfies(term, bucket)
  BY <1>2, TermFields DEF OwnerlessSatisfies, TermTruth, ProtectedTruth, PlainTruth, TruthOf
<1> QED
  BY <1>1, <1>2

\* Conjunction and disjunction of truths.
LEMMA AllTrue ==
    ASSUME NEW truths \in SUBSET Truth
    PROVE  /\ AllOf(truths) \in Truth
           /\ AllOf(truths) = "false" <=> "false" \in truths
           /\ AllOf(truths) = "true" => truths \subseteq {"true"}
  BY DEF AllOf, Truth

LEMMA AnyTrue ==
    ASSUME NEW truths \in SUBSET Truth
    PROVE  /\ AnyOf(truths) \in Truth
           /\ AnyOf(truths) = "true" <=> "true" \in truths
           /\ AnyOf(truths) = "false" <=> truths \subseteq {"false"}
  BY DEF AnyOf, Truth

LEMMA OwnerHasTruth ==
    ASSUME NEW terms \in SUBSET Term, NEW bucket, NEW owner, NEW complete \in BOOLEAN
    PROVE  /\ OwnerTruth(terms, bucket, owner, complete) \in Truth
           /\ OwnerTruth(terms, bucket, owner, complete) = "false" =>
                 \E term \in terms : /\ ~OwnerIndependent(term)
                                     /\ TermTruth(term, bucket, owner, complete) = "false"
           /\ OwnerTruth(terms, bucket, owner, complete) = "true" =>
                 \A term \in terms : ~OwnerIndependent(term) =>
                     TermTruth(term, bucket, owner, complete) = "true"
<1> DEFINE truths == {TermTruth(term, bucket, owner, complete) :
                         term \in {t \in terms : ~OwnerIndependent(t)}}
<1>1. truths \in SUBSET Truth
  BY TermHasTruth
<1>2. /\ AllOf(truths) \in Truth
      /\ AllOf(truths) = "false" <=> "false" \in truths
      /\ AllOf(truths) = "true" => truths \subseteq {"true"}
  BY <1>1, AllTrue
<1> QED
  BY <1>2 DEF OwnerTruth

\* The parts of evaluate_side, by name.
Rows(s) == IF OwnersOf[s] = {} THEN {NoOwner} ELSE OwnersOf[s]
EndpointFits(s, terms) ==
    \A term \in terms : OwnerIndependent(term) =>
        TermTruth(term, BucketOf[s], NoOwner, FALSE) # "false"
Listed(s, terms) == AnyOf({OwnerTruth(terms, BucketOf[s], o, CompleteOf[s]) : o \in Rows(s)})
Hidden(snapshot, s, terms) ==
    OwnersMayBeHidden(snapshot, terms) \/ (OwnersOf[s] # {} /\ ~CompleteOf[s])

LEMMA SideIs ==
    ASSUME NEW snapshot, NEW s \in Socket, NEW terms \in SUBSET Term
    PROVE  /\ Listed(s, terms) \in Truth
           /\ SideTruth(snapshot, s, terms) \in Truth
           /\ SideTruth(snapshot, s, terms) = "false" <=>
                 \/ ~EndpointFits(s, terms)
                 \/ Listed(s, terms) = "false" /\ ~Hidden(snapshot, s, terms)
           /\ SideTruth(snapshot, s, terms) = "true" =>
                 EndpointFits(s, terms) /\ Listed(s, terms) = "true"
           /\ Listed(s, terms) = "false" =>
                 \A o \in Rows(s) : OwnerTruth(terms, BucketOf[s], o, CompleteOf[s]) = "false"
           /\ Listed(s, terms) = "true" =>
                 \E o \in Rows(s) : OwnerTruth(terms, BucketOf[s], o, CompleteOf[s]) = "true"
<1> DEFINE ends == {TermTruth(t, BucketOf[s], NoOwner, FALSE) :
                       t \in {u \in terms : OwnerIndependent(u)}}
           truths == {OwnerTruth(terms, BucketOf[s], o, CompleteOf[s]) : o \in Rows(s)}
<1>1. CompleteOf[s] \in BOOLEAN
  BY DiffAssumption
<1>2. truths \in SUBSET Truth
  BY <1>1, OwnerHasTruth
<1>3. /\ AnyOf(truths) \in Truth
      /\ AnyOf(truths) = "true" <=> "true" \in truths
      /\ AnyOf(truths) = "false" <=> truths \subseteq {"false"}
  BY <1>2, AnyTrue
<1>4. EndpointFits(s, terms) <=> "false" \notin ends
  BY DEF EndpointFits
<1>5. SideTruth(snapshot, s, terms) =
          IF "false" \in ends THEN "false"
          ELSE IF Listed(s, terms) = "false" /\ Hidden(snapshot, s, terms) THEN "unknown"
          ELSE Listed(s, terms)
  BY DEF SideTruth, Listed, Hidden, Rows
<1>6. Listed(s, terms) = AnyOf(truths)
  BY DEF Listed
<1> HIDE DEF ends
<1>7. Listed(s, terms) \in Truth
  BY <1>3, <1>6
<1> QED
  BY <1>3, <1>4, <1>5, <1>6, <1>7 DEF Truth

\* One possible row that satisfies every term keeps the socket from being dropped.
LEMMA RowIsNotHidden ==
    ASSUME NamesProtect, NEW snapshot, NEW s \in Socket, NEW terms \in SUBSET Term,
           NEW owner \in OwnersOf[s], NEW row \in RowsOf(owner), RowMatches(row, s, terms)
    PROVE  SideTruth(snapshot, s, terms) # "false"
<1>1. owner \in Owner /\ CompleteOf[s] \in BOOLEAN /\ owner \in Rows(s)
  BY DiffAssumption DEF Rows
<1>2. \A term \in terms : RowSatisfies(row, term, BucketOf[s])
  BY DEF RowMatches
<1>3. OwnerTruth(terms, BucketOf[s], owner, CompleteOf[s]) # "false"
  <2>1. \A term \in terms : TermTruth(term, BucketOf[s], owner, CompleteOf[s]) # "false"
    BY <1>1, <1>2, SatisfiedIsNotFalse
  <2> QED
    BY <1>1, <2>1, OwnerHasTruth
<1>4. EndpointFits(s, terms)
  BY <1>2 DEF EndpointFits, OwnerIndependent, TermTruth, TruthOf, RowSatisfies
<1> QED
  BY <1>1, <1>3, <1>4, SideIs

\* Nor does a row that was not seen, if there may be one.
LEMMA UnseenIsNotHidden ==
    ASSUME NEW snapshot, NEW s \in Socket, NEW terms \in SUBSET Term,
           NEW row \in UnseenRows(snapshot, s), RowMatches(row, s, terms)
    PROVE  SideTruth(snapshot, s, terms) # "false"
<1>1. CompleteOf[s] \in BOOLEAN
  BY DiffAssumption
<1>2. \A term \in terms : RowSatisfies(row, term, BucketOf[s])
  BY DEF RowMatches
<1>3. EndpointFits(s, terms)
  BY <1>2 DEF EndpointFits, OwnerIndependent, TermTruth, TruthOf, RowSatisfies
<1>4. CASE \A term \in terms : OwnerIndependent(term)
  <2>1. \A o \in Rows(s) : OwnerTruth(terms, BucketOf[s], o, CompleteOf[s]) # "false"
    BY <1>1, <1>4, OwnerHasTruth
  <2>2. Rows(s) # {}
    BY DEF Rows
  <2> QED
    BY <1>3, <2>1, <2>2, SideIs
<1>5. CASE /\ \E term \in terms : ~OwnerIndependent(term)
           /\ \E gap \in snapshot.gaps : gap.endpoint = NoEndpoint /\ gap.pid \in {NoPid, row.pid}
  <2>1. WantedPids(terms) \subseteq {row.pid}
    BY <1>2 DEF WantedPids, RowSatisfies
  <2>2. Cardinality(WantedPids(terms)) <= 1
    <3>1. IsFiniteSet({row.pid}) /\ Cardinality({row.pid}) = 1
      BY FS_Singleton
    <3>2. WantedPids(terms) \in SUBSET {row.pid}
      BY <2>1
    <3> QED
      BY <3>1, <3>2, FS_Subset
  <2>3. \A gap : gap.pid \in {NoPid, row.pid} => GapRelevant(gap, terms)
    BY <2>1, <2>2 DEF GapRelevant
  <2>4. OwnersMayBeHidden(snapshot, terms)
    BY <1>5, <2>3 DEF OwnersMayBeHidden
  <2> QED
    BY <1>3, <2>4, SideIs DEF Hidden
<1>6. CASE ~CompleteOf[s] /\ OwnersOf[s] # {}
  BY <1>3, <1>6, SideIs DEF Hidden
<1>7. CASE ~CompleteOf[s] /\ OwnersOf[s] = {}
  <2>1. \A term \in terms : ~OwnerIndependent(term) =>
            TermTruth(term, BucketOf[s], NoOwner, CompleteOf[s]) # "false"
    BY <1>1, <1>7, NoOwnerIsNotFalse
  <2>2. NoOwner \in Rows(s) /\ OwnerTruth(terms, BucketOf[s], NoOwner, CompleteOf[s]) # "false"
    BY <1>1, <1>7, <2>1, OwnerHasTruth DEF Rows
  <2> QED
    BY <1>3, <2>2, SideIs
<1> QED
  BY <1>1, <1>4, <1>5, <1>6, <1>7 DEF UnseenRows

\* Nor does a socket that nobody owns.
LEMMA OwnerlessIsNotHidden ==
    ASSUME NEW snapshot, NEW s \in Socket, NEW terms \in SUBSET Term,
           OwnersOf[s] = {}, OwnerlessMatches(s, terms)
    PROVE  SideTruth(snapshot, s, terms) # "false"
<1>1. CompleteOf[s] \in BOOLEAN
  BY DiffAssumption
<1>2. \A term \in terms : OwnerlessSatisfies(term, BucketOf[s])
  BY DEF OwnerlessMatches
<1>3. EndpointFits(s, terms)
  BY <1>2 DEF EndpointFits, OwnerIndependent, TermTruth, TruthOf, OwnerlessSatisfies
<1>4. \A term \in terms : TermTruth(term, BucketOf[s], NoOwner, CompleteOf[s]) # "false"
  BY <1>1, <1>2, NoOwnerIsNotFalse
<1>5. NoOwner \in Rows(s) /\ OwnerTruth(terms, BucketOf[s], NoOwner, CompleteOf[s]) # "false"
  BY <1>1, <1>4, OwnerHasTruth DEF Rows
<1> QED
  BY <1>3, <1>5, SideIs

\* A socket that may match is not dropped.
LEMMA MayMatchIsNotFalse ==
    ASSUME NamesProtect, NEW snapshot, NEW s \in Socket, NEW terms \in SUBSET Term,
           MayMatch(snapshot, s, terms)
    PROVE  SideTruth(snapshot, s, terms) # "false"
  BY RowIsNotHidden, UnseenIsNotHidden, OwnerlessIsNotHidden DEF MayMatch

\* A socket with owners that is told as matched does match.
LEMMA TrueMustMatch ==
    ASSUME NamesProtect, NEW snapshot, NEW s \in Socket, NEW terms \in SUBSET Term,
           OwnersOf[s] # {}, SideTruth(snapshot, s, terms) = "true"
    PROVE  MustMatch(snapshot, s, terms)
<1>1. EndpointFits(s, terms) /\ CompleteOf[s] \in BOOLEAN
  BY SideIs, DiffAssumption
<1>2. PICK o \in OwnersOf[s] : OwnerTruth(terms, BucketOf[s], o, CompleteOf[s]) = "true"
  BY SideIs DEF Rows
<1>3. o \in Owner
  BY DiffAssumption
<1>4. ASSUME NEW row \in RowsOf(o), NEW term \in terms
      PROVE  RowSatisfies(row, term, BucketOf[s])
  <2>1. CASE OwnerIndependent(term)
    BY <1>1, <2>1 DEF EndpointFits, OwnerIndependent, TermTruth, TruthOf, RowSatisfies
  <2>2. CASE ~OwnerIndependent(term)
    <3>1. TermTruth(term, BucketOf[s], o, CompleteOf[s]) = "true"
      BY <1>1, <1>2, <2>2, OwnerHasTruth
    <3> QED
      BY <1>1, <1>3, <3>1, TrueIsSatisfied
  <2> QED
    BY <2>1, <2>2
<1> QED
  BY <1>4 DEF MustMatch, RowMatches

\* Both hold of every set of events, whatever is told in which order.
LEMMA EventsAreHonest ==
    ASSUME NamesProtect, LoopTypes
    PROVE  VisibilityIsHonest
<1>1. options \in Options /\ options.terms \in SUBSET Term /\ todo \in SUBSET Event
  BY LoopAssumption, FilterAssumption DEF LoopTypes, Options
<1>2. ASSUME NEW e \in todo
      PROVE  /\ e.previous # NoSocket => e.previous \in Socket
             /\ e.current # NoSocket => e.current \in Socket
  BY <1>1 DEF Event
<1> DEFINE Sides(e) ==
        {SideTruth(previous, s, options.terms) : s \in {e.previous} \ {NoSocket}} \cup
        {SideTruth(current, s, options.terms) : s \in {e.current} \ {NoSocket}}
<1>3. ASSUME NEW e \in todo
      PROVE  /\ EventTruth(e, previous, current, options.terms) \in Truth
             /\ EventTruth(e, previous, current, options.terms) = "true" <=> "true" \in Sides(e)
             /\ EventTruth(e, previous, current, options.terms) = "false" <=>
                    Sides(e) \subseteq {"false"}
  <2>1. Sides(e) \in SUBSET Truth
    BY <1>1, <1>2, SideIs
  <2>2. EventTruth(e, previous, current, options.terms) = AnyOf(Sides(e))
    BY DEF EventTruth
  <2> HIDE DEF Sides
  <2> QED
    BY <2>1, <2>2, AnyTrue
<1>4. NoPossibleMatchHidden
  <2> SUFFICES ASSUME NEW e \in todo, Place(e) \in options.selected, ~options.matchedOnly,
                      \/ e.previous # NoSocket /\ MayMatch(previous, e.previous, options.terms)
                      \/ e.current # NoSocket /\ MayMatch(current, e.current, options.terms)
               PROVE  Told(e)
    BY DEF NoPossibleMatchHidden
  <2>1. ~(Sides(e) \subseteq {"false"})
    <3>1. CASE e.previous # NoSocket /\ MayMatch(previous, e.previous, options.terms)
      BY <1>1, <1>2, <3>1, MayMatchIsNotFalse
    <3>2. CASE e.current # NoSocket /\ MayMatch(current, e.current, options.terms)
      BY <1>1, <1>2, <3>2, MayMatchIsNotFalse
    <3> QED
      BY <3>1, <3>2
  <2>2. EventTruth(e, previous, current, options.terms) \in {"true", "unknown"}
    BY <1>3, <2>1 DEF Truth
  <2> QED
    BY <2>2 DEF Told, ResultOf, FilterResult
<1>5. OwnedMatchIsDefinite
  <2> SUFFICES ASSUME NEW e \in todo, ResultOf(e) = "matched",
                      e.previous # NoSocket => OwnersOf[e.previous] # {},
                      e.current # NoSocket => OwnersOf[e.current] # {}
               PROVE  \/ e.previous # NoSocket /\ MustMatch(previous, e.previous, options.terms)
                      \/ e.current # NoSocket /\ MustMatch(current, e.current, options.terms)
    BY DEF OwnedMatchIsDefinite
  <2>1. "true" \in Sides(e)
    BY <1>3 DEF ResultOf, FilterResult
  <2>2. CASE e.previous # NoSocket /\ SideTruth(previous, e.previous, options.terms) = "true"
    BY <1>1, <1>2, <2>2, TrueMustMatch
  <2>3. CASE e.current # NoSocket /\ SideTruth(current, e.current, options.terms) = "true"
    BY <1>1, <1>2, <2>3, TrueMustMatch
  <2> QED
    BY <2>1, <2>2, <2>3
<1> QED
  BY <1>4, <1>5 DEF VisibilityIsHonest

\* Whatever could not be read: no event is dropped that may match, and none of a socket
\* whose owners were seen is told as a match that may be none.
THEOREM NothingUnreadDecides == NamesProtect => (Spec => []VisibilityIsHonest)
<1> SUFFICES ASSUME NamesProtect
             PROVE  Spec => []VisibilityIsHonest
  OBVIOUS
<1>1. LoopInv => VisibilityIsHonest
  BY EventsAreHonest DEF LoopInv
<1> QED
  BY <1>1, LoopHolds, PTL
=============================================================================
