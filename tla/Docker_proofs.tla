---------------------------- MODULE Docker_proofs ---------------------------
(***************************************************************************)
(* What the counters and the workers of Docker enrichment guarantee, for     *)
(* every number of calls, every limit and every fault.                       *)
(***************************************************************************)
EXTENDS Docker, FiniteSetTheorems, TLAPS

\* The drain workers that still read.
Reading == {w \in Call \X Stream : drain[w[1]][w[2]] = "reading"}
\* The calls whose cleanup worker holds a slot.
Slotted == {c \in Call : cleanup[c] \in {"waiting", "ending", "kept"}}

-----------------------------------------------------------------------------
\* The invariant

Steps == {"idle", "load", "reserve", "cleanup", "child", "stdout", "stderr", "poll",
          "drop", "readStdout", "readStderr", "parse"}

TypeInv ==
    /\ DockerTypeOK
    /\ step \in Steps /\ call \in Call \cup {0} /\ seen \in Nat
    /\ step # "idle" => call \in Call
    /\ shown \in [Stream -> {"none", "whole", "exceeded"}]
    /\ length \in [Call -> [Stream -> {"none", "whole", "exceeded"}]]
    /\ holders \in [Call -> SUBSET Stream]

\* The permits a call holds are those it has not yet given to a drain worker.
PermitsInv ==
    /\ step \in {"cleanup", "child", "stdout"} => permits = 2
    /\ step = "stderr" => permits = 1
    /\ step \notin {"cleanup", "child", "stdout", "stderr"} => permits = 0

\* Of the calls to come nothing is there yet.
ToComeInv ==
    \A c \in Call : c > call =>
        /\ cleanup[c] = "none" /\ child[c] = "none"
        /\ \A s \in Stream : drain[c][s] = "none"

\* What the call at work has started, and what not yet.
CallInv ==
    /\ step \in {"load", "reserve", "cleanup"} => cleanup[call] = "none"
    /\ step \in {"child", "stdout", "stderr", "poll", "readStdout", "readStderr", "parse"} =>
           cleanup[call] = "waiting"
    /\ step \in {"load", "reserve", "cleanup", "child"} => child[call] = "none"
    /\ step \in {"load", "reserve", "cleanup", "child", "stdout"} =>
           drain[call]["stdout"] = "none"
    /\ step \in {"load", "reserve", "cleanup", "child", "stdout", "stderr"} =>
           drain[call]["stderr"] = "none"
    /\ step \in {"readStdout", "readStderr", "parse"} => child[call] = "reaped"
    /\ step = "drop" => cleanup[call] \in {"ending", "kept"} \/ child[call] = "reaped"

\* What a drain worker has sent is all there is, or too much; and what the call has
\* received is what was sent.
SentInv ==
    /\ \A c \in Call : \A s \in Stream :
           drain[c][s] = "sent" => AtEnd(c, s) \/ length[c][s] = "exceeded"
    /\ step \in {"readStderr", "parse"} =>
           drain[call]["stdout"] = "sent" /\ shown["stdout"] = length[call]["stdout"]
    /\ step = "parse" =>
           drain[call]["stderr"] = "sent" /\ shown["stderr"] = length[call]["stderr"]

\* An answer is only there between two calls.
AnswerWasRead ==
    answer # Nothing =>
        /\ printed.success /\ printed.utf8 /\ child[call] = "reaped"
        /\ \A s \in Stream : length[call][s] = "whole" /\ AtEnd(call, s)
AnswerInv == answer # Nothing => step = "idle" /\ call \in Call

Inv ==
    /\ TypeInv /\ PermitsInv /\ ToComeInv /\ CallInv
    /\ NothingLeaks
    /\ SentInv /\ AnswerInv /\ AnswerWasRead

-----------------------------------------------------------------------------
\* Sets of workers

LEMMA CallsAreNumbers == Call \subseteq Nat \ {0} /\ IsFiniteSet(Call)
<1>1. IsFiniteSet(Call) /\ Call = 1..Cardinality(Call)
  BY DockerAssumption
<1>2. Cardinality(Call) \in Nat
  BY <1>1, FS_CardinalityType
<1> QED
  BY <1>1, <1>2

\* There are finitely many drain workers, whatever they are doing.
LEMMA WorkersAreFinite ==
    ASSUME NEW S \in SUBSET (Call \X Stream)
    PROVE  IsFiniteSet(S)
<1> DEFINE Out == Call \X {"stdout"}
           Err == Call \X {"stderr"}
<1>1. IsFiniteSet(Out)
  <2> DEFINE f == [c \in Call |-> <<c, "stdout">>]
  <2>1. f \in Surjection(Call, Out)
    BY Z3 DEF Surjection
  <2> QED
    BY <2>1, CallsAreNumbers, FS_Surjection
<1>2. IsFiniteSet(Err)
  <2> DEFINE f == [c \in Call |-> <<c, "stderr">>]
  <2>1. f \in Surjection(Call, Err)
    BY Z3 DEF Surjection
  <2> QED
    BY <2>1, CallsAreNumbers, FS_Surjection
<1>3. Call \X Stream = Out \cup Err
  BY DEF Stream
<1> HIDE DEF Out, Err
<1>4. IsFiniteSet(Out \cup Err)
  BY <1>1, <1>2, FS_Union
<1> QED
  BY <1>3, <1>4, FS_Subset

\* The counters count sets of workers that an action leaves alone, or changes by one.
LEMMA ReadingIsFinite ==
    /\ IsFiniteSet(Reading) /\ Cardinality(Reading) \in Nat
    /\ IsFiniteSet(Slotted) /\ Cardinality(Slotted) \in Nat
<1>1. Reading \in SUBSET (Call \X Stream)
  BY DEF Reading
<1>2. Slotted \in SUBSET Call
  BY DEF Slotted
<1> QED
  BY <1>1, <1>2, WorkersAreFinite, CallsAreNumbers, FS_Subset, FS_CardinalityType

\* One drain worker more.
LEMMA OneMoreReads ==
    ASSUME DockerTypeOK, NEW c \in Call, NEW s \in Stream, drain[c][s] # "reading",
           drain' = [drain EXCEPT ![c][s] = "reading"]
    PROVE  Cardinality(Reading') = Cardinality(Reading) + 1
<1>1. <<c, s>> \notin Reading
  BY DEF Reading
<1>2. Reading' = Reading \cup {<<c, s>>}
  <2>1. ASSUME NEW d \in Call, NEW t \in Stream
        PROVE  drain'[d][t] = IF d = c /\ t = s THEN "reading" ELSE drain[d][t]
    BY DEF DockerTypeOK
  <2> QED
    BY <2>1, Z3 DEF Reading
<1> QED
  BY <1>1, <1>2, ReadingIsFinite, FS_AddElement

\* One drain worker less.
LEMMA OneLessReads ==
    ASSUME DockerTypeOK, NEW c \in Call, NEW s \in Stream, NEW to,
           drain[c][s] = "reading", to # "reading",
           drain' = [drain EXCEPT ![c][s] = to]
    PROVE  Cardinality(Reading') = Cardinality(Reading) - 1
<1>1. <<c, s>> \in Reading
  BY DEF Reading
<1>2. Reading' = Reading \ {<<c, s>>}
  <2>1. ASSUME NEW d \in Call, NEW t \in Stream
        PROVE  drain'[d][t] = IF d = c /\ t = s THEN to ELSE drain[d][t]
    BY DEF DockerTypeOK
  <2> QED
    BY <2>1, Z3 DEF Reading
<1> QED
  BY <1>1, <1>2, ReadingIsFinite, FS_RemoveElement

\* A slot taken, and one given back.
LEMMA OneMoreSlot ==
    ASSUME DockerTypeOK, NEW c \in Call, cleanup[c] = "none",
           cleanup' = [cleanup EXCEPT ![c] = "waiting"]
    PROVE  Cardinality(Slotted') = Cardinality(Slotted) + 1
<1>1. c \notin Slotted /\ Slotted' = Slotted \cup {c}
  BY DEF Slotted, DockerTypeOK
<1> QED
  BY <1>1, ReadingIsFinite, FS_AddElement

LEMMA OneLessSlot ==
    ASSUME DockerTypeOK, NEW c \in Call, cleanup[c] \in {"waiting", "ending"},
           cleanup' = [cleanup EXCEPT ![c] = "gone"]
    PROVE  Cardinality(Slotted') = Cardinality(Slotted) - 1
<1>1. c \in Slotted /\ Slotted' = Slotted \ {c}
  BY DEF Slotted, DockerTypeOK
<1> QED
  BY <1>1, ReadingIsFinite, FS_RemoveElement

\* Handing a child over, or keeping it, moves no slot.
LEMMA SameSlots ==
    ASSUME DockerTypeOK, NEW c \in Call, NEW to \in {"ending", "kept"},
           cleanup[c] \in {"waiting", "ending"},
           cleanup' = [cleanup EXCEPT ![c] = to]
    PROVE  Slotted' = Slotted
  BY DEF Slotted, DockerTypeOK

-----------------------------------------------------------------------------
\* The counters

\* The counters of the definition, by name.
LEMMA Exact ==
    CapacityIsExact <=> /\ drains = permits + Cardinality(Reading) /\ drains <= DrainMax
                        /\ cleanups = Cardinality(Slotted) /\ cleanups <= CleanupMax
  BY DEF CapacityIsExact, Reading, Slotted

LEMMA NextExact ==
    CapacityIsExact' <=> /\ drains' = permits' + Cardinality(Reading')
                         /\ drains' <= DrainMax
                         /\ cleanups' = Cardinality(Slotted') /\ cleanups' <= CleanupMax
  BY DEF CapacityIsExact, Reading, Slotted

\* Every slot that is taken is counted, and every one that is given back.
LEMMA NextCapacity ==
    ASSUME Inv, Next
    PROVE  CapacityIsExact'
<1> USE DEF Inv
<1>1. /\ drains = permits + Cardinality(Reading) /\ drains <= DrainMax
      /\ cleanups = Cardinality(Slotted) /\ cleanups <= CleanupMax
  BY Exact DEF NothingLeaks
<1>2. /\ Cardinality(Reading) \in Nat /\ Cardinality(Slotted) \in Nat
      /\ DrainMax \in Nat /\ CleanupMax \in Nat /\ permits \in 0..2 /\ seen \in Nat
  BY ReadingIsFinite, DockerAssumption DEF TypeInv, DockerTypeOK
<1>3. DockerTypeOK
  BY DEF TypeInv
<1>4. UNCHANGED drain => Reading' = Reading
  BY DEF Reading
<1>5. UNCHANGED cleanup => Slotted' = Slotted
  BY DEF Slotted
<1>6. step # "idle" => call \in Call
  BY DEF TypeInv
<1> HIDE DEF Inv
<1>7. CASE UNCHANGED workerVars
  BY <1>1, <1>4, <1>5, <1>7, NextExact DEF workerVars
<1>8. CASE GiveUp /\ UNCHANGED <<cleanups, drain, cleanup>>
  BY <1>1, <1>2, <1>4, <1>5, <1>8, NextExact DEF GiveUp, Over, DropPermits
<1>9. CASE Reserve
  <2>1. Reading' = Reading /\ Slotted' = Slotted /\ cleanups' = cleanups
    BY <1>4, <1>5, <1>9 DEF Reserve
  <2>2. permits = 0
    BY <1>9 DEF Inv, PermitsInv, Reserve
  <2>3. CASE UNCHANGED drains /\ permits' = 0
    BY <1>1, <1>2, <2>1, <2>2, <2>3, NextExact
  <2>4. CASE drains' = seen + 2 /\ permits' = 2 /\ seen + 2 <= DrainMax /\ ~Stale
    BY <1>1, <1>2, <2>1, <2>2, <2>4, NextExact DEF Stale
  <2> QED
    BY <1>9, <2>2, <2>3, <2>4 DEF Reserve, Over
<1>10. CASE SpawnCleanup
  <2>1. CASE GiveUp /\ UNCHANGED <<cleanups, cleanup>>
    BY <1>8, <1>10, <2>1 DEF SpawnCleanup
  <2>2. CASE /\ cleanups + 1 <= CleanupMax /\ cleanups' = cleanups + 1
             /\ cleanup' = [cleanup EXCEPT ![call] = "waiting"]
             /\ UNCHANGED <<drains, permits>>
    <3>1. step = "cleanup" /\ UNCHANGED drain
      BY <1>10 DEF SpawnCleanup
    <3>2. call \in Call /\ cleanup[call] = "none"
      BY <1>6, <3>1 DEF Inv, CallInv
    <3>3. Cardinality(Slotted') = Cardinality(Slotted) + 1
      BY <1>3, <2>2, <3>2, OneMoreSlot
    <3> QED
      BY <1>1, <1>2, <1>4, <2>2, <3>1, <3>3, NextExact
  <2> QED
    BY <1>10, <2>1, <2>2 DEF SpawnCleanup
<1>11. CASE SpawnChild
  BY <1>7, <1>8, <1>11 DEF SpawnChild, workerVars
<1>12. ASSUME NEW s \in Stream, NEW next, StartDrain(s, next)
       PROVE  CapacityIsExact'
  <2>1. step = s /\ step \in {"stdout", "stderr"} /\ UNCHANGED cleanups
    BY <1>12 DEF StartDrain, Stream
  <2>2. /\ call \in Call /\ drain[call][s] = "none" /\ cleanup[call] = "waiting"
        /\ permits \in {1, 2}
    BY <1>6, <2>1 DEF Inv, CallInv, PermitsInv
  <2>3. CASE /\ drain' = [drain EXCEPT ![call][s] = "reading"] /\ permits' = permits - 1
             /\ UNCHANGED <<drains, cleanup>>
    <3>1. Cardinality(Reading') = Cardinality(Reading) + 1
      BY <1>3, <2>2, <2>3, OneMoreReads
    <3> QED
      BY <1>1, <1>2, <1>5, <2>1, <2>2, <2>3, <3>1, NextExact
  <2>4. CASE Handoff /\ GiveUp /\ UNCHANGED drain
    <3>1. Slotted' = Slotted
      BY <1>3, <2>2, <2>4, SameSlots DEF Handoff
    <3> QED
      BY <1>1, <1>2, <1>4, <2>1, <2>4, <3>1, NextExact DEF GiveUp, Over, DropPermits
  <2> QED
    BY <1>12, <2>3, <2>4 DEF StartDrain
<1>13. CASE PollChild
  <2>1. step = "poll" /\ UNCHANGED <<drains, cleanups, permits, drain>>
    BY <1>13 DEF PollChild
  <2>2. CASE UNCHANGED cleanup
    BY <1>1, <1>4, <1>5, <2>1, <2>2, NextExact
  <2>3. CASE Handoff
    <3>1. call \in Call /\ cleanup[call] = "waiting"
      BY <1>6, <2>1 DEF Inv, CallInv
    <3>2. Slotted' = Slotted
      BY <1>3, <2>3, <3>1, SameSlots DEF Handoff
    <3> QED
      BY <1>1, <1>4, <2>1, <3>2, NextExact
  <2> QED
    BY <1>13, <2>2, <2>3 DEF PollChild
<1>14. CASE DropOutput
  BY <1>8, <1>14 DEF DropOutput
<1>15. CASE ReadStdout \/ ReadStderr
  BY <1>7, <1>8, <1>15 DEF ReadStdout, ReadStderr, ReadDrain, workerVars
<1>16. CASE Parse
  <2>1. permits = 0 /\ permits' = 0 /\ UNCHANGED <<drains, cleanups, drain, cleanup>>
    BY <1>16 DEF Inv, PermitsInv, Parse, Over
  <2> QED
    BY <1>1, <1>4, <1>5, <2>1, NextExact
<1>17. ASSUME NEW c \in Call, WorkerStep(c)
       PROVE  CapacityIsExact'
  <2>1. ASSUME NEW s \in Stream, DrainWorker(c, s)
        PROVE  CapacityIsExact'
    <3>1. \E to \in {"sent", "failed"} :
              drain[c][s] = "reading" /\ drain' = [drain EXCEPT ![c][s] = to]
      BY <2>1 DEF DrainWorker
    <3>2. Cardinality(Reading') = Cardinality(Reading) - 1
      BY <1>3, <3>1, OneLessReads
    <3> QED
      BY <1>1, <1>2, <1>5, <2>1, <3>2, NextExact DEF DrainWorker
  <2>2. CASE CleanupReturns(c)
    <3>1. Cardinality(Slotted') = Cardinality(Slotted) - 1
      BY <1>3, <2>2, OneLessSlot DEF CleanupReturns, Abandoned
    <3> QED
      BY <1>1, <1>2, <1>4, <2>2, <3>1, NextExact DEF CleanupReturns
  <2>3. CASE Terminate(c)
    BY <1>7, <2>3 DEF Terminate
  <2>4. CASE Reap(c)
    <3>1. cleanup[c] = "ending" /\ UNCHANGED <<drains, permits, drain>>
      BY <2>4 DEF Reap
    <3>2. CASE cleanup' = [cleanup EXCEPT ![c] = "gone"] /\ cleanups' = cleanups - 1
      <4>1. Cardinality(Slotted') = Cardinality(Slotted) - 1
        BY <1>3, <3>1, <3>2, OneLessSlot
      <4> QED
        BY <1>1, <1>2, <1>4, <3>1, <3>2, <4>1, NextExact
    <3>3. CASE cleanup' = [cleanup EXCEPT ![c] = "kept"] /\ UNCHANGED cleanups
      <4>1. Slotted' = Slotted
        BY <1>3, <3>1, <3>3, SameSlots
      <4> QED
        BY <1>1, <1>4, <3>1, <3>3, <4>1, NextExact
    <3> QED
      BY <2>4, <3>2, <3>3 DEF Reap
  <2> QED
    BY <1>17, <2>1, <2>2, <2>3, <2>4 DEF WorkerStep
<1>18. CASE Begin \/ LoadCount \/ Late \/ Done
  BY <1>7, <1>18 DEF Begin, LoadCount, Late, Done, vars
<1>19. ASSUME NEW c \in Call, ChildExits(c) \/ PipeCloses(c)
       PROVE  CapacityIsExact'
  BY <1>7, <1>19 DEF ChildExits, PipeCloses
<1>20. CASE KickStep
  BY <1>9, <1>10, <1>11, <1>12, <1>13, <1>14, <1>15, <1>16, <1>18, <1>20
     DEF KickStep, StartStdout, StartStderr, Stream
<1> QED
  BY <1>17, <1>18, <1>19, <1>20 DEF Next

-----------------------------------------------------------------------------
\* The rest of the invariant, action by action

\* The permits follow the steps of the call.
LEMMA NextPermits ==
    ASSUME Inv, Next
    PROVE  PermitsInv'
<1>1. TypeInv /\ PermitsInv
  BY DEF Inv
<1> USE DEF TypeInv, DockerTypeOK, PermitsInv, Steps, Stream, workerVars, callVars,
       childVars
<1>2. CASE Begin
  BY <1>1, <1>2 DEF Begin
<1>3. CASE LoadCount
  BY <1>1, <1>3 DEF LoadCount
<1>4. CASE Reserve
  BY <1>1, <1>4 DEF Reserve, Over
<1>5. CASE SpawnCleanup
  BY <1>1, <1>5 DEF SpawnCleanup, GiveUp, Over, DropPermits, GoOn
<1>6. CASE SpawnChild
  BY <1>1, <1>6 DEF SpawnChild, GiveUp, Over, DropPermits, GoOn
<1>7. ASSUME NEW s \in Stream, NEW next, StartDrain(s, next),
             <<s, next>> \in {<<"stdout", "stderr">>, <<"stderr", "poll">>}
       PROVE  PermitsInv'
  BY <1>1, <1>7 DEF StartDrain, GiveUp, Over, DropPermits, GoOn, Handoff
<1>8. CASE PollChild
  BY <1>1, <1>8 DEF PollChild, Handoff
<1>9. CASE DropOutput
  BY <1>1, <1>9 DEF DropOutput, GiveUp, Over, DropPermits
<1>10. ASSUME NEW at, NEW s \in Stream, NEW next, ReadDrain(at, s, next),
             <<at, s, next>> \in {<<"readStdout", "stdout", "readStderr">>,
                                <<"readStderr", "stderr", "parse">>}
       PROVE  PermitsInv'
  BY <1>1, <1>10 DEF ReadDrain, Received, GiveUp, Over, DropPermits
<1>11. CASE Parse
  BY <1>1, <1>11 DEF Parse, Over
<1>12. CASE Late
  BY <1>1, <1>12 DEF Late
<1>13. ASSUME NEW c \in Call, NEW s \in Stream, DrainWorker(c, s)
       PROVE  PermitsInv'
  BY <1>1, <1>13 DEF DrainWorker
<1>14. ASSUME NEW c \in Call, CleanupReturns(c)
       PROVE  PermitsInv'
  BY <1>1, <1>14 DEF CleanupReturns, Abandoned
<1>15. ASSUME NEW c \in Call, Terminate(c)
       PROVE  PermitsInv'
  BY <1>1, <1>15 DEF Terminate
<1>16. ASSUME NEW c \in Call, Reap(c)
       PROVE  PermitsInv'
  BY <1>1, <1>16 DEF Reap
<1>17. ASSUME NEW c \in Call, ChildExits(c)
       PROVE  PermitsInv'
  BY <1>1, <1>17 DEF ChildExits
<1>18. ASSUME NEW c \in Call, PipeCloses(c)
       PROVE  PermitsInv'
  BY <1>1, <1>18 DEF PipeCloses
<1>19. CASE Done
  BY <1>1, <1>19 DEF Done, vars
<1> HIDE DEF TypeInv, DockerTypeOK, PermitsInv, Steps, Stream, workerVars, callVars,
       childVars
<1> QED
  BY <1>2, <1>3, <1>4, <1>5, <1>6, <1>7, <1>8, <1>9, <1>10, <1>11, <1>12, <1>13, <1>14,
     <1>15, <1>16, <1>17, <1>18, <1>19, Z3 DEF Next, KickStep, WorkerStep, StartStdout,
     StartStderr, ReadStdout, ReadStderr, Stream

\* Types are kept, and the bounds, which are those of the counters.
LEMMA NextTypes ==
    ASSUME Inv, Next
    PROVE  TypeInv'
<1>1. TypeInv /\ ToComeInv /\ CallInv
  BY DEF Inv
<1>2. /\ DrainMax \in Nat /\ CleanupMax \in Nat
      /\ Call \subseteq Nat \ {0} /\ Call = 1..Cardinality(Call) /\ Cardinality(Call) \in Nat
  BY DockerAssumption, CallsAreNumbers, FS_CardinalityType
<1>3. permits' \in 0..2 /\ drains' \in 0..DrainMax /\ cleanups' \in 0..CleanupMax
  <2>1. /\ drains' = permits' + Cardinality(Reading') /\ drains' <= DrainMax
        /\ cleanups' = Cardinality(Slotted') /\ cleanups' <= CleanupMax
    BY NextExact, NextCapacity
  <2>2. Reading' \in SUBSET (Call \X Stream) /\ Slotted' \in SUBSET Call
    BY DEF Reading, Slotted
  <2>3. Cardinality(Reading') \in Nat /\ Cardinality(Slotted') \in Nat
    BY <2>2, WorkersAreFinite, CallsAreNumbers, FS_Subset, FS_CardinalityType
  <2>4. permits' \in 0..2
    BY NextPermits DEF PermitsInv
  <2> QED
    BY <1>2, <2>1, <2>3, <2>4
<1> USE DEF TypeInv, DockerTypeOK, CallInv, Steps, Stream, workerVars, callVars,
       childVars
<1>4. CASE Begin
  BY <1>1, <1>2, <1>3, <1>4 DEF Begin
<1>5. CASE LoadCount
  BY <1>1, <1>2, <1>3, <1>5 DEF LoadCount
<1>6. CASE Reserve
  BY <1>1, <1>2, <1>3, <1>6 DEF Reserve, Over
<1>7. CASE SpawnCleanup
  <2> HIDE DEF Stream
  <2>1. call \in Call /\ call' = call /\ UNCHANGED <<drain, childVars>>
    BY <1>1, <1>7 DEF SpawnCleanup, GiveUp, Over, GoOn
  <2>2. cleanup' \in [Call -> {"none", "waiting", "ending", "kept", "gone"}]
    <3>1. [cleanup EXCEPT ![call] = "waiting"]
            \in [Call -> {"none", "waiting", "ending", "kept", "gone"}]
      BY <1>1, <2>1
    <3> QED
      BY <1>1, <1>7, <3>1 DEF SpawnCleanup
  <2>3. \/ step' = "idle" /\ seen' = 0 /\ shown' = [s \in Stream |-> "none"]
        \/ /\ step' = "child" /\ cleanup' = [cleanup EXCEPT ![call] = "waiting"]
           /\ UNCHANGED <<seen, shown>>
    BY <1>7 DEF SpawnCleanup, GiveUp, Over, GoOn
  <2>4. step' = "child" => cleanup'[call'] = "waiting"
    BY <1>1, <2>1, <2>3
  <2>5. [s \in Stream |-> "none"] \in [Stream -> {"none", "whole", "exceeded"}]
    OBVIOUS
  <2>6. step' \in Steps /\ seen' \in Nat /\ shown' \in [Stream -> {"none", "whole", "exceeded"}]
    BY <1>1, <2>3, <2>5
  <2> QED
    BY <1>1, <1>3, <2>1, <2>2, <2>3, <2>4, <2>6
<1>8. CASE SpawnChild
  <2> HIDE DEF Stream
  <2>1. call \in Call /\ call' = call /\ UNCHANGED <<drain, cleanup>>
    BY <1>1, <1>8 DEF SpawnChild, GiveUp, Over, GoOn
  <2>2. child' \in [Call -> {"none", "running", "exited", "reaped"}]
    BY <1>1, <1>8 DEF SpawnChild
  <2>3. length' \in [Call -> [Stream -> {"none", "whole", "exceeded"}]]
    <3>1. UNCHANGED length \/ \E l \in [Stream -> {"whole", "exceeded"}] :
                                 length' = [length EXCEPT ![call] = l]
      BY <1>8 DEF SpawnChild
    <3>2. [Stream -> {"whole", "exceeded"}] \subseteq [Stream -> {"none", "whole", "exceeded"}]
      OBVIOUS
    <3> QED
      BY <1>1, <3>1, <3>2
  <2>4. holders' \in [Call -> SUBSET Stream]
    BY <1>1, <1>8 DEF SpawnChild
  <2>5. shown' \in [Stream -> {"none", "whole", "exceeded"}] /\ seen' \in Nat
    BY <1>1, <1>8 DEF SpawnChild, GiveUp, Over, GoOn
  <2>6. step' \in Steps
    BY <1>8 DEF SpawnChild, GiveUp, Over, GoOn
  <2> QED
    BY <1>1, <1>3, <2>1, <2>2, <2>3, <2>4, <2>5, <2>6
<1>9. ASSUME NEW s \in Stream, NEW next, StartDrain(s, next),
             <<s, next>> \in {<<"stdout", "stderr">>, <<"stderr", "poll">>}
       PROVE  TypeInv'
  <2> HIDE DEF Stream
  <2>1. drain' = [drain EXCEPT ![call][s] = "reading"] \/ drain' = drain
    BY <1>9 DEF StartDrain
  <2>2. cleanup' = [cleanup EXCEPT ![call] = "ending"] \/ cleanup' = cleanup
    BY <1>9 DEF StartDrain, Handoff
  <2>3. step = s /\ call \in Call
    BY <1>1, <1>9 DEF StartDrain, Stream
  <2>4. drain' \in [Call -> [Stream -> {"none", "reading", "sent", "failed"}]]
    <3>1. [drain EXCEPT ![call][s] = "reading"]
              \in [Call -> [Stream -> {"none", "reading", "sent", "failed"}]]
      BY <1>1, <2>3
    <3>2. drain \in [Call -> [Stream -> {"none", "reading", "sent", "failed"}]]
      BY <1>1
    <3> QED
      BY <2>1, <3>1, <3>2
  <2>5. cleanup' \in [Call -> {"none", "waiting", "ending", "kept", "gone"}]
    BY <1>1, <2>2
  <2>6. shown' \in [Stream -> {"none", "whole", "exceeded"}] /\ seen' \in Nat
    BY <1>1, <1>9 DEF StartDrain, GiveUp, Over, GoOn
  <2>7. step' \in Steps /\ call' \in Call /\ UNCHANGED <<child, length, holders>>
    BY <1>1, <1>9, <2>3 DEF StartDrain, GiveUp, Over, GoOn, Handoff
  <2>8. /\ child' \in [Call -> {"none", "running", "exited", "reaped"}]
        /\ length' \in [Call -> [Stream -> {"none", "whole", "exceeded"}]]
        /\ holders' \in [Call -> SUBSET Stream]
    BY <1>1, <2>7
  <2> QED
    BY <1>3, <2>4, <2>5, <2>6, <2>7, <2>8
<1>10. CASE PollChild
  BY <1>1, <1>2, <1>3, <1>10 DEF PollChild, Handoff
<1>11. CASE DropOutput
  BY <1>1, <1>2, <1>3, <1>11 DEF DropOutput, GiveUp, Over, DropPermits
<1>12. ASSUME NEW at, NEW s \in Stream, NEW next, ReadDrain(at, s, next),
             <<at, s, next>> \in {<<"readStdout", "stdout", "readStderr">>,
                                <<"readStderr", "stderr", "parse">>}
       PROVE  TypeInv'
  BY <1>1, <1>2, <1>3, <1>12 DEF ReadDrain, Received, GiveUp, Over, DropPermits
<1>13. CASE Parse
  BY <1>1, <1>2, <1>3, <1>13 DEF Parse, Over
<1>14. CASE Late
  BY <1>1, <1>2, <1>3, <1>14 DEF Late
<1>15. ASSUME NEW c \in Call, NEW s \in Stream, DrainWorker(c, s)
       PROVE  TypeInv'
  <2> HIDE DEF Stream
  <2>1. PICK to \in {"sent", "failed"} : drain' = [drain EXCEPT ![c][s] = to]
    BY <1>15 DEF DrainWorker
  <2>2. drain' \in [Call -> [Stream -> {"none", "reading", "sent", "failed"}]]
    BY <1>1, <2>1
  <2> QED
    BY <1>1, <1>2, <1>3, <1>15, <2>2 DEF DrainWorker
<1>16. ASSUME NEW c \in Call, CleanupReturns(c)
       PROVE  TypeInv'
  BY <1>1, <1>2, <1>3, <1>16 DEF CleanupReturns, Abandoned
<1>17. ASSUME NEW c \in Call, Terminate(c)
       PROVE  TypeInv'
  BY <1>1, <1>2, <1>3, <1>17 DEF Terminate
<1>18. ASSUME NEW c \in Call, Reap(c)
       PROVE  TypeInv'
  BY <1>1, <1>2, <1>3, <1>18 DEF Reap
<1>19. ASSUME NEW c \in Call, ChildExits(c)
       PROVE  TypeInv'
  BY <1>1, <1>2, <1>3, <1>19 DEF ChildExits
<1>20. ASSUME NEW c \in Call, PipeCloses(c)
       PROVE  TypeInv'
  BY <1>1, <1>2, <1>3, <1>20 DEF PipeCloses
<1>21. CASE Done
  BY <1>1, <1>2, <1>3, <1>21 DEF Done, vars
<1> HIDE DEF TypeInv, DockerTypeOK, CallInv, Steps, Stream, workerVars, callVars,
       childVars
<1> QED
  BY <1>4, <1>5, <1>6, <1>7, <1>8, <1>9, <1>10, <1>11, <1>12, <1>13, <1>14, <1>15,
     <1>16, <1>17, <1>18, <1>19, <1>20, <1>21, Z3 DEF Next, KickStep, WorkerStep,
     StartStdout, StartStderr, ReadStdout, ReadStderr, Stream

\* A call that has not begun has started nothing.
LEMMA NextToCome ==
    ASSUME Inv, Next
    PROVE  ToComeInv'
<1>1. TypeInv /\ ToComeInv
  BY DEF Inv
<1>2. Call \subseteq Nat \ {0}
  BY CallsAreNumbers
<1> USE DEF TypeInv, DockerTypeOK, ToComeInv, Stream, workerVars, callVars, childVars
<1>3. CASE Begin
  BY <1>1, <1>2, <1>3 DEF Begin
<1>4. CASE LoadCount
  BY <1>1, <1>2, <1>4 DEF LoadCount
<1>5. CASE Reserve
  BY <1>1, <1>2, <1>5 DEF Reserve, Over
<1>6. CASE SpawnCleanup
  BY <1>1, <1>2, <1>6 DEF SpawnCleanup, GiveUp, Over, DropPermits, GoOn
<1>7. CASE SpawnChild
  BY <1>1, <1>2, <1>7 DEF SpawnChild, GiveUp, Over, DropPermits, GoOn
<1>8. ASSUME NEW s \in Stream, NEW next, StartDrain(s, next),
             <<s, next>> \in {<<"stdout", "stderr">>, <<"stderr", "poll">>}
       PROVE  ToComeInv'
  BY <1>1, <1>2, <1>8 DEF StartDrain, GiveUp, Over, DropPermits, GoOn, Handoff
<1>9. CASE PollChild
  BY <1>1, <1>2, <1>9 DEF PollChild, Handoff
<1>10. CASE DropOutput
  BY <1>1, <1>2, <1>10 DEF DropOutput, GiveUp, Over, DropPermits
<1>11. ASSUME NEW at, NEW s \in Stream, NEW next, ReadDrain(at, s, next),
             <<at, s, next>> \in {<<"readStdout", "stdout", "readStderr">>,
                                <<"readStderr", "stderr", "parse">>}
       PROVE  ToComeInv'
  BY <1>1, <1>2, <1>11 DEF ReadDrain, Received, GiveUp, Over, DropPermits
<1>12. CASE Parse
  BY <1>1, <1>2, <1>12 DEF Parse, Over
<1>13. CASE Late
  BY <1>1, <1>2, <1>13 DEF Late
<1>14. ASSUME NEW c \in Call, NEW s \in Stream, DrainWorker(c, s)
       PROVE  ToComeInv'
  BY <1>1, <1>2, <1>14 DEF DrainWorker
<1>15. ASSUME NEW c \in Call, CleanupReturns(c)
       PROVE  ToComeInv'
  BY <1>1, <1>2, <1>15 DEF CleanupReturns, Abandoned
<1>16. ASSUME NEW c \in Call, Terminate(c)
       PROVE  ToComeInv'
  BY <1>1, <1>2, <1>16 DEF Terminate
<1>17. ASSUME NEW c \in Call, Reap(c)
       PROVE  ToComeInv'
  BY <1>1, <1>2, <1>17 DEF Reap
<1>18. ASSUME NEW c \in Call, ChildExits(c)
       PROVE  ToComeInv'
  BY <1>1, <1>2, <1>18 DEF ChildExits
<1>19. ASSUME NEW c \in Call, PipeCloses(c)
       PROVE  ToComeInv'
  BY <1>1, <1>2, <1>19 DEF PipeCloses
<1>20. CASE Done
  BY <1>1, <1>2, <1>20 DEF Done, vars
<1> HIDE DEF TypeInv, DockerTypeOK, ToComeInv, Stream, workerVars, callVars, childVars
<1> QED
  BY <1>3, <1>4, <1>5, <1>6, <1>7, <1>8, <1>9, <1>10, <1>11, <1>12, <1>13, <1>14, <1>15,
     <1>16, <1>17, <1>18, <1>19, <1>20, Z3 DEF Next, KickStep, WorkerStep, StartStdout,
     StartStderr, ReadStdout, ReadStderr, Stream

\* What the call at work has started.
LEMMA NextCall ==
    ASSUME Inv, Next
    PROVE  CallInv'
<1>1. TypeInv /\ ToComeInv /\ CallInv
  BY DEF Inv
<1>2. Call \subseteq Nat \ {0}
  BY CallsAreNumbers
<1> USE DEF TypeInv, DockerTypeOK, ToComeInv, CallInv, Steps, Stream, workerVars,
       callVars, childVars
<1>3. CASE Begin
  BY <1>1, <1>2, <1>3 DEF Begin
<1>4. CASE LoadCount
  BY <1>1, <1>2, <1>4 DEF LoadCount
<1>5. CASE Reserve
  BY <1>1, <1>2, <1>5 DEF Reserve, Over
<1>6. CASE SpawnCleanup
  BY <1>1, <1>2, <1>6 DEF SpawnCleanup, GiveUp, Over, DropPermits, GoOn
<1>7. CASE SpawnChild
  BY <1>1, <1>2, <1>7 DEF SpawnChild, GiveUp, Over, DropPermits, GoOn
<1>8. ASSUME NEW s \in Stream, NEW next, StartDrain(s, next),
             <<s, next>> \in {<<"stdout", "stderr">>, <<"stderr", "poll">>}
       PROVE  CallInv'
  BY <1>1, <1>2, <1>8 DEF StartDrain, GiveUp, Over, DropPermits, GoOn, Handoff
<1>9. CASE PollChild
  BY <1>1, <1>2, <1>9 DEF PollChild, Handoff
<1>10. CASE DropOutput
  BY <1>1, <1>2, <1>10 DEF DropOutput, GiveUp, Over, DropPermits
<1>11. ASSUME NEW at, NEW s \in Stream, NEW next, ReadDrain(at, s, next),
             <<at, s, next>> \in {<<"readStdout", "stdout", "readStderr">>,
                                <<"readStderr", "stderr", "parse">>}
       PROVE  CallInv'
  BY <1>1, <1>2, <1>11 DEF ReadDrain, Received, GiveUp, Over, DropPermits
<1>12. CASE Parse
  BY <1>1, <1>2, <1>12 DEF Parse, Over
<1>13. CASE Late
  BY <1>1, <1>2, <1>13 DEF Late
<1>14. ASSUME NEW c \in Call, NEW s \in Stream, DrainWorker(c, s)
       PROVE  CallInv'
  BY <1>1, <1>2, <1>14 DEF DrainWorker
<1>15. ASSUME NEW c \in Call, CleanupReturns(c)
       PROVE  CallInv'
  BY <1>1, <1>2, <1>15 DEF CleanupReturns, Abandoned
<1>16. ASSUME NEW c \in Call, Terminate(c)
       PROVE  CallInv'
  BY <1>1, <1>2, <1>16 DEF Terminate
<1>17. ASSUME NEW c \in Call, Reap(c)
       PROVE  CallInv'
  BY <1>1, <1>2, <1>17 DEF Reap
<1>18. ASSUME NEW c \in Call, ChildExits(c)
       PROVE  CallInv'
  BY <1>1, <1>2, <1>18 DEF ChildExits
<1>19. ASSUME NEW c \in Call, PipeCloses(c)
       PROVE  CallInv'
  BY <1>1, <1>2, <1>19 DEF PipeCloses
<1>20. CASE Done
  BY <1>1, <1>2, <1>20 DEF Done, vars
<1> HIDE DEF TypeInv, DockerTypeOK, ToComeInv, CallInv, Steps, Stream, workerVars,
       callVars, childVars
<1> QED
  BY <1>3, <1>4, <1>5, <1>6, <1>7, <1>8, <1>9, <1>10, <1>11, <1>12, <1>13, <1>14, <1>15,
     <1>16, <1>17, <1>18, <1>19, <1>20, Z3 DEF Next, KickStep, WorkerStep, StartStdout,
     StartStderr, ReadStdout, ReadStderr, Stream

\* A child is in the hands of its call until it is waited for or handed over.
LEMMA NextChild ==
    ASSUME Inv, Next
    PROVE  NoChildForgotten'
<1>1. TypeInv /\ CallInv /\ NoChildForgotten
  BY DEF Inv, NothingLeaks
<1> USE DEF TypeInv, DockerTypeOK, CallInv, NoChildForgotten, Steps, Stream, workerVars,
       callVars, childVars
<1>2. CASE Begin
  BY <1>1, <1>2 DEF Begin
<1>3. CASE LoadCount
  BY <1>1, <1>3 DEF LoadCount
<1>4. CASE Reserve
  BY <1>1, <1>4 DEF Reserve, Over
<1>5. CASE SpawnCleanup
  BY <1>1, <1>5 DEF SpawnCleanup, GiveUp, Over, DropPermits, GoOn
<1>6. CASE SpawnChild
  BY <1>1, <1>6 DEF SpawnChild, GiveUp, Over, DropPermits, GoOn
<1>7. ASSUME NEW s \in Stream, NEW next, StartDrain(s, next),
             <<s, next>> \in {<<"stdout", "stderr">>, <<"stderr", "poll">>}
       PROVE  NoChildForgotten'
  BY <1>1, <1>7 DEF StartDrain, GiveUp, Over, DropPermits, GoOn, Handoff
<1>8. CASE PollChild
  BY <1>1, <1>8 DEF PollChild, Handoff
<1>9. CASE DropOutput
  BY <1>1, <1>9 DEF DropOutput, GiveUp, Over, DropPermits
<1>10. ASSUME NEW at, NEW s \in Stream, NEW next, ReadDrain(at, s, next),
             <<at, s, next>> \in {<<"readStdout", "stdout", "readStderr">>,
                                <<"readStderr", "stderr", "parse">>}
       PROVE  NoChildForgotten'
  BY <1>1, <1>10 DEF ReadDrain, Received, GiveUp, Over, DropPermits
<1>11. CASE Parse
  BY <1>1, <1>11 DEF Parse, Over
<1>12. CASE Late
  BY <1>1, <1>12 DEF Late
<1>13. ASSUME NEW c \in Call, NEW s \in Stream, DrainWorker(c, s)
       PROVE  NoChildForgotten'
  BY <1>1, <1>13 DEF DrainWorker
<1>14. ASSUME NEW c \in Call, CleanupReturns(c)
       PROVE  NoChildForgotten'
  BY <1>1, <1>14 DEF CleanupReturns, Abandoned
<1>15. ASSUME NEW c \in Call, Terminate(c)
       PROVE  NoChildForgotten'
  BY <1>1, <1>15 DEF Terminate
<1>16. ASSUME NEW c \in Call, Reap(c)
       PROVE  NoChildForgotten'
  BY <1>1, <1>16 DEF Reap
<1>17. ASSUME NEW c \in Call, ChildExits(c)
       PROVE  NoChildForgotten'
  BY <1>1, <1>17 DEF ChildExits
<1>18. ASSUME NEW c \in Call, PipeCloses(c)
       PROVE  NoChildForgotten'
  BY <1>1, <1>18 DEF PipeCloses
<1>19. CASE Done
  BY <1>1, <1>19 DEF Done, vars
<1> HIDE DEF TypeInv, DockerTypeOK, CallInv, NoChildForgotten, Steps, Stream,
       workerVars, callVars, childVars
<1> QED
  BY <1>2, <1>3, <1>4, <1>5, <1>6, <1>7, <1>8, <1>9, <1>10, <1>11, <1>12, <1>13, <1>14,
     <1>15, <1>16, <1>17, <1>18, <1>19, Z3 DEF Next, KickStep, WorkerStep, StartStdout,
     StartStderr, ReadStdout, ReadStderr, Stream

\* What was sent stays what it was.
LEMMA NextSent ==
    ASSUME Inv, Next
    PROVE  SentInv'
<1>1. TypeInv /\ CallInv /\ SentInv /\ ToComeInv
  BY DEF Inv
<1>2. Call \subseteq Nat \ {0}
  BY CallsAreNumbers
<1> USE DEF TypeInv, DockerTypeOK, CallInv, SentInv, AtEnd, ToComeInv, Steps, Stream,
       workerVars, callVars, childVars
<1>3. CASE Begin
  BY <1>1, <1>2, <1>3 DEF Begin
<1>4. CASE LoadCount
  BY <1>1, <1>2, <1>4 DEF LoadCount
<1>5. CASE Reserve
  BY <1>1, <1>2, <1>5 DEF Reserve, Over
<1>6. CASE SpawnCleanup
  BY <1>1, <1>2, <1>6 DEF SpawnCleanup, GiveUp, Over, DropPermits, GoOn
<1>7. CASE SpawnChild
  BY <1>1, <1>2, <1>7 DEF SpawnChild, GiveUp, Over, DropPermits, GoOn
<1>8. ASSUME NEW s \in Stream, NEW next, StartDrain(s, next),
             <<s, next>> \in {<<"stdout", "stderr">>, <<"stderr", "poll">>}
       PROVE  SentInv'
  BY <1>1, <1>2, <1>8 DEF StartDrain, GiveUp, Over, DropPermits, GoOn, Handoff
<1>9. CASE PollChild
  BY <1>1, <1>2, <1>9 DEF PollChild, Handoff
<1>10. CASE DropOutput
  BY <1>1, <1>2, <1>10 DEF DropOutput, GiveUp, Over, DropPermits
<1>11. ASSUME NEW at, NEW s \in Stream, NEW next, ReadDrain(at, s, next),
             <<at, s, next>> \in {<<"readStdout", "stdout", "readStderr">>,
                                <<"readStderr", "stderr", "parse">>}
       PROVE  SentInv'
  BY <1>1, <1>2, <1>11 DEF ReadDrain, Received, GiveUp, Over, DropPermits
<1>12. CASE Parse
  BY <1>1, <1>2, <1>12 DEF Parse, Over
<1>13. CASE Late
  BY <1>1, <1>2, <1>13 DEF Late
<1>14. ASSUME NEW c \in Call, NEW s \in Stream, DrainWorker(c, s)
       PROVE  SentInv'
  BY <1>1, <1>2, <1>14 DEF DrainWorker
<1>15. ASSUME NEW c \in Call, CleanupReturns(c)
       PROVE  SentInv'
  BY <1>1, <1>2, <1>15 DEF CleanupReturns, Abandoned
<1>16. ASSUME NEW c \in Call, Terminate(c)
       PROVE  SentInv'
  BY <1>1, <1>2, <1>16 DEF Terminate
<1>17. ASSUME NEW c \in Call, Reap(c)
       PROVE  SentInv'
  BY <1>1, <1>2, <1>17 DEF Reap
<1>18. ASSUME NEW c \in Call, ChildExits(c)
       PROVE  SentInv'
  BY <1>1, <1>2, <1>18 DEF ChildExits
<1>19. ASSUME NEW c \in Call, PipeCloses(c)
       PROVE  SentInv'
  BY <1>1, <1>2, <1>19 DEF PipeCloses
<1>20. CASE Done
  BY <1>1, <1>2, <1>20 DEF Done, vars
<1> HIDE DEF TypeInv, DockerTypeOK, CallInv, SentInv, AtEnd, ToComeInv, Steps, Stream,
       workerVars, callVars, childVars
<1> QED
  BY <1>3, <1>4, <1>5, <1>6, <1>7, <1>8, <1>9, <1>10, <1>11, <1>12, <1>13, <1>14, <1>15,
     <1>16, <1>17, <1>18, <1>19, <1>20, Z3 DEF Next, KickStep, WorkerStep, StartStdout,
     StartStderr, ReadStdout, ReadStderr, Stream

\* An answer is given once everything has been read.
LEMMA NextAnswer ==
    ASSUME Inv, Next
    PROVE  AnswerInv' /\ AnswerWasRead'
<1>1. TypeInv /\ CallInv /\ SentInv /\ AnswerInv /\ AnswerWasRead
  BY DEF Inv
<1> USE DEF TypeInv, DockerTypeOK, CallInv, SentInv, AtEnd, AnswerInv, AnswerWasRead,
       Usable, Steps, Stream, workerVars, callVars, childVars
<1>2. CASE Begin
  BY <1>1, <1>2 DEF Begin
<1>3. CASE LoadCount
  BY <1>1, <1>3 DEF LoadCount
<1>4. CASE Reserve
  BY <1>1, <1>4 DEF Reserve, Over
<1>5. CASE SpawnCleanup
  BY <1>1, <1>5 DEF SpawnCleanup, GiveUp, Over, DropPermits, GoOn
<1>6. CASE SpawnChild
  BY <1>1, <1>6 DEF SpawnChild, GiveUp, Over, DropPermits, GoOn
<1>7. ASSUME NEW s \in Stream, NEW next, StartDrain(s, next),
             <<s, next>> \in {<<"stdout", "stderr">>, <<"stderr", "poll">>}
       PROVE  AnswerInv' /\ AnswerWasRead'
  BY <1>1, <1>7 DEF StartDrain, GiveUp, Over, DropPermits, GoOn, Handoff
<1>8. CASE PollChild
  BY <1>1, <1>8 DEF PollChild, Handoff
<1>9. CASE DropOutput
  BY <1>1, <1>9 DEF DropOutput, GiveUp, Over, DropPermits
<1>10. ASSUME NEW at, NEW s \in Stream, NEW next, ReadDrain(at, s, next),
             <<at, s, next>> \in {<<"readStdout", "stdout", "readStderr">>,
                                <<"readStderr", "stderr", "parse">>}
       PROVE  AnswerInv' /\ AnswerWasRead'
  BY <1>1, <1>10 DEF ReadDrain, Received, GiveUp, Over, DropPermits
<1>11. CASE Parse
  BY <1>1, <1>11 DEF Parse, Over
<1>12. CASE Late
  BY <1>1, <1>12 DEF Late
<1>13. ASSUME NEW c \in Call, NEW s \in Stream, DrainWorker(c, s)
       PROVE  AnswerInv' /\ AnswerWasRead'
  BY <1>1, <1>13 DEF DrainWorker
<1>14. ASSUME NEW c \in Call, CleanupReturns(c)
       PROVE  AnswerInv' /\ AnswerWasRead'
  BY <1>1, <1>14 DEF CleanupReturns, Abandoned
<1>15. ASSUME NEW c \in Call, Terminate(c)
       PROVE  AnswerInv' /\ AnswerWasRead'
  BY <1>1, <1>15 DEF Terminate
<1>16. ASSUME NEW c \in Call, Reap(c)
       PROVE  AnswerInv' /\ AnswerWasRead'
  BY <1>1, <1>16 DEF Reap
<1>17. ASSUME NEW c \in Call, ChildExits(c)
       PROVE  AnswerInv' /\ AnswerWasRead'
  BY <1>1, <1>17 DEF ChildExits
<1>18. ASSUME NEW c \in Call, PipeCloses(c)
       PROVE  AnswerInv' /\ AnswerWasRead'
  BY <1>1, <1>18 DEF PipeCloses
<1>19. CASE Done
  BY <1>1, <1>19 DEF Done, vars
<1> HIDE DEF TypeInv, DockerTypeOK, CallInv, SentInv, AtEnd, AnswerInv, AnswerWasRead,
       Usable, Steps, Stream, workerVars, callVars, childVars
<1> QED
  BY <1>2, <1>3, <1>4, <1>5, <1>6, <1>7, <1>8, <1>9, <1>10, <1>11, <1>12, <1>13, <1>14,
     <1>15, <1>16, <1>17, <1>18, <1>19, Z3 DEF Next, KickStep, WorkerStep, StartStdout,
     StartStderr, ReadStdout, ReadStderr, Stream

-----------------------------------------------------------------------------
\* Theorems

LEMMA InitInv == Init => Inv
<1> SUFFICES ASSUME Init PROVE Inv
  OBVIOUS
<1> USE DEF Init
<1>1. TypeInv /\ PermitsInv
  BY DockerAssumption DEF TypeInv, DockerTypeOK, PermitsInv, Steps, Stream
<1>2. ToComeInv /\ CallInv /\ NoChildForgotten /\ SentInv /\ AnswerInv /\ AnswerWasRead
  BY DEF ToComeInv, CallInv, NoChildForgotten, SentInv, AnswerInv, AnswerWasRead
<1>3. Reading = {} /\ Slotted = {}
  BY DEF Reading, Slotted, Stream
<1>4. CapacityIsExact
  BY <1>3, Exact, FS_EmptySet, DockerAssumption
<1> QED
  BY <1>1, <1>2, <1>4 DEF Inv, NothingLeaks

LEMMA NextInv == Inv /\ [Next]_vars => Inv'
<1> SUFFICES ASSUME Inv, [Next]_vars PROVE Inv'
  OBVIOUS
<1>1. CASE Next
  BY <1>1, NextCapacity, NextTypes, NextPermits, NextToCome, NextCall, NextChild, NextSent,
     NextAnswer DEF Inv, NothingLeaks
<1>2. CASE UNCHANGED vars
  BY <1>2 DEF vars, callVars, workerVars, childVars, Inv, TypeInv, DockerTypeOK, PermitsInv,
     ToComeInv, CallInv, NothingLeaks, CapacityIsExact, NoChildForgotten, SentInv, AtEnd,
     AnswerInv, AnswerWasRead
<1> QED
  BY <1>1, <1>2

\* The invariant holds of every session of calls.
THEOREM InvHolds == Spec => []Inv
  BY InitInv, NextInv, PTL DEF Spec

\* However many calls are made, whatever races with a reservation and whichever of
\* their steps fails: the two counters show exactly the slots that are taken, never
\* more than their limits, and every docker process is in somebody's hands.
THEOREM NothingIsEverLost == Spec => []NothingLeaks
<1>1. Inv => NothingLeaks
  BY DEF Inv
<1> QED
  BY <1>1, InvHolds, PTL

\* Whatever is shown was read to the end of both streams, from a command that has
\* succeeded and has been waited for.
THEOREM ShownWasReadToTheEnd == Spec => []AnswerWasRead
<1>1. Inv => AnswerWasRead
  BY DEF Inv
<1> QED
  BY <1>1, InvHolds, PTL
=============================================================================
