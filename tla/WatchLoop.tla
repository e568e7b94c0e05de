----------------------------- MODULE WatchLoop ------------------------------
(***************************************************************************)
(* kick watch: run_watch_loop of src/src/cli/watch.rs, over the events of   *)
(* module SnapshotDiff and the filter of module WatchFilter.               *)
(*                                                                         *)
(* A poll collects a snapshot, compares it with the last one that was fit    *)
(* to be compared, and writes one record per event, or one gap record if     *)
(* there is nothing to compare.  Ctrl-C, the end of the duration and the     *)
(* reader of the output act at any moment.                                 *)
(***************************************************************************)
EXTENDS WatchFilter

CONSTANTS
    Snapshots,     \* what a collection may return
    NoSnapshot,
    Choices,       \* the command lines of a run
    Interval,      \* --interval, in ticks
    Duration,      \* --duration, in ticks
    FailuresMax,   \* WATCH_FAILURES_MAX
    BatchMax,      \* WATCH_EVENT_BATCH_MAX
    SequenceMax,   \* the largest value of the record counter
    Faults         \* what may fail: "collect", "clock", "pipe", "io"

ASSUME LoopAssumption ==
    /\ Snapshots \subseteq Snapshot /\ NoSnapshot \notin Snapshot
    /\ Choices \subseteq Options
    /\ Interval \in Nat \ {0} /\ Duration \in Nat \ {0}
    /\ FailuresMax \in Nat \ {0} /\ BatchMax \in Nat \ {0} /\ SequenceMax \in Nat
    /\ Faults \subseteq {"collect", "clock", "pipe", "io"}

VARIABLES
    options,
    phase,       \* what the loop does next
    result,      \* why it ended
    previous,    \* the snapshot the next one is compared with
    current,     \* the one being told
    todo,        \* events not told yet
    group,       \* those of them that are told next, in the order of their rank
    pass,        \* those of the group this pass has not looked at
    rank,        \* the rank this pass tells
    event,       \* the event to write
    scanned,     \* events filtered since the last look at the stop condition
    batch,       \* records written since the last flush
    sequence,    \* the number of the next record
    failures,    \* consecutive failed polls
    cancelled,   \* WATCH_CANCELLED
    left,        \* ticks until the end of the duration
    age,         \* ticks since the moment the next poll is counted from
    ledger,      \* history: sockets of each bucket, as the records tell
    gapTail,     \* history: numbers of the gap records since the last good poll
    late,        \* history: records written after the stop condition held
    sinceAttempt,  \* history: ticks since the last attempt began
    sinceFailure   \* history: ticks since the last failed poll ended

tellVars == <<todo, group, pass, rank, event, scanned>>
pollVars == <<previous, current, failures>>
timeVars == <<left, age, sinceAttempt, sinceFailure>>
historyVars == <<ledger, gapTail, late>>
watchVars == <<options, phase, result, pollVars, tellVars, batch, sequence, cancelled,
               timeVars, historyVars>>

NoEvent == [kind |-> "none"]
Fails(f) == f \in Faults

\* A mutant that forgets the duration.
UntimedStop == cancelled

\* should_stop
StopDue == cancelled \/ (options.timed /\ left = 0)

\* Where the least of the ranks is told first.
Least(ranks) == CHOOSE r \in ranks : \A q \in ranks : r <= q

-----------------------------------------------------------------------------
\* Ends

ExitReason == [stopped |-> "Success", pipe |-> "Success", io |-> "Failure",
               clock |-> "Failure", collector |-> "Failure", budget |-> "Failure",
               overflow |-> "Failure"]

End(why) == phase' = "done" /\ result' = why
Go(next) == phase' = next /\ UNCHANGED result

\* The reader of the output has gone, or the disk is full.
OutputFails == \E f \in {"pipe", "io"} : Fails(f) /\ End(f)

\* flush_exit: a flush that fails decides how the command ends.
FlushAndEnd(why) == (End(why) /\ batch' = 0) \/ (OutputFails /\ UNCHANGED batch)

\* A record reaches the writer.
Written == late' = (IF StopDue THEN late + 1 ELSE late)

-----------------------------------------------------------------------------
\* The first snapshot

Begin ==
    /\ phase = "begin"
    /\ IF StopDue THEN FlushAndEnd("stopped") ELSE Go("first") /\ UNCHANGED batch
    /\ UNCHANGED <<options, pollVars, tellVars, sequence, cancelled, timeVars, historyVars>>

\* collect_initial_snapshot: there is no second try.
CollectFirst ==
    /\ phase = "first"
    /\ \/ \E snapshot \in {s \in Snapshots : DiffSafe(s)} :
            current' = snapshot /\ Go("collected")
       \/ /\ Fails("collect") \/ \E s \in Snapshots : ~DiffSafe(s)
          /\ End("collector") /\ UNCHANGED current
       \/ Fails("clock") /\ End("clock") /\ UNCHANGED current
    /\ UNCHANGED <<options, previous, failures, tellVars, batch, sequence, cancelled,
                   timeVars, historyVars>>

-----------------------------------------------------------------------------
\* A poll

\* wait_until.  Its sleep is the action Tick.
Wait ==
    /\ phase = "wait"
    /\ \/ StopDue /\ FlushAndEnd("stopped")
       \/ ~StopDue /\ age = Interval /\ Go("due") /\ UNCHANGED batch
    /\ UNCHANGED <<options, pollVars, tellVars, sequence, cancelled, timeVars, historyVars>>

\* The two clocks are read; the wall clock must not have gone back.
Attempt ==
    /\ phase = "due"
    /\ \/ Go("polling") /\ age' = 0 /\ sinceAttempt' = 0
       \/ Fails("clock") /\ End("clock") /\ UNCHANGED <<age, sinceAttempt>>
    /\ UNCHANGED <<options, pollVars, tellVars, batch, sequence, cancelled, left,
                   sinceFailure, historyVars>>

\* A snapshot that is not fit to be compared counts as a failed poll.
Collect ==
    /\ phase = "polling"
    /\ \/ \E snapshot \in {s \in Snapshots : DiffSafe(s)} :
            current' = snapshot /\ Go("collected") /\ UNCHANGED failures
       \/ /\ Fails("collect") \/ \E s \in Snapshots : ~DiffSafe(s)
          /\ failures' = failures + 1 /\ Go("gap") /\ UNCHANGED current
       \/ Fails("clock") /\ End("clock") /\ UNCHANGED <<current, failures>>
    /\ UNCHANGED <<options, previous, tellVars, batch, sequence, cancelled, timeVars,
                   historyVars>>

\* write_gap.  No selector and no filter applies to a gap.
WriteGap ==
    /\ phase = "gap"
    /\ \/ /\ gapTail' = Append(gapTail, failures) /\ Written
          /\ batch' = batch + 1 /\ Go("gapWritten")
       \/ OutputFails /\ UNCHANGED <<batch, gapTail, late>>
    /\ UNCHANGED <<options, pollVars, tellVars, sequence, cancelled, timeVars, ledger>>

\* A mutant that counts the next poll from the failed attempt.
KeepInterval == UNCHANGED age /\ sinceFailure' = 0

\* The moment the poll after a failed one is counted from: now, not its attempt.
RestartInterval == age' = 0 /\ sinceFailure' = 0

\* A mutant that looks at the stop condition before the budget.
BudgetUnlessStopped == failures = FailuresMax /\ ~StopDue

BudgetSpent == failures = FailuresMax

\* The gap is flushed first.  The spent budget comes before the stop condition.
AfterGap ==
    /\ phase = "gapWritten"
    /\ \/ /\ OutputFails
          /\ UNCHANGED <<batch, sequence, age, sinceFailure>>
       \/ /\ sequence = SequenceMax
          /\ End("overflow") /\ batch' = 0 /\ UNCHANGED <<sequence, age, sinceFailure>>
       \/ /\ sequence < SequenceMax
          /\ sequence' = sequence + 1
          /\ IF BudgetSpent
             THEN End("budget") /\ batch' = 0 /\ UNCHANGED <<age, sinceFailure>>
             ELSE IF StopDue
             THEN FlushAndEnd("stopped") /\ UNCHANGED <<age, sinceFailure>>
             ELSE Go("wait") /\ batch' = 0 /\ RestartInterval
    /\ UNCHANGED <<options, pollVars, tellVars, cancelled, left, sinceAttempt, historyVars>>

-----------------------------------------------------------------------------
\* Telling the events: write_ordered_events

\* event_order_rank, of an event that is told
FilterRank == [not_applied |-> 0, matched |-> 1, indeterminate |-> 2]
CertaintyRank == [proven |-> 0, heuristic |-> 2]
ResultOf(e) == FilterResult(e, previous, current, options)
Told(e) == ResultOf(e) # "none"
RankOf(e) == FilterRank[ResultOf(e)] * 4 + CertaintyRank[Certainty(e)]
RanksOf(events) == {RankOf(e) : e \in {f \in events : Told(f)}}

StartEvents ==
    /\ phase = "collected"
    /\ \/ /\ StopDue
          /\ FlushAndEnd("stopped") /\ UNCHANGED <<todo, scanned, failures, gapTail>>
       \/ /\ ~StopDue
          /\ Go("tell") /\ failures' = 0 /\ gapTail' = <<>> /\ scanned' = 0
          /\ todo' = IF previous = NoSnapshot THEN BaselineEvents(current)
                     ELSE DiffEvents(previous, current)
          /\ UNCHANGED batch
    /\ UNCHANGED <<options, previous, current, group, pass, rank, event, sequence,
                   cancelled, timeVars, ledger, late>>

\* The scan of the next group collects its ranks; it looks at the stop condition
\* every BatchMax events.
NextGroup ==
    /\ phase = "tell" /\ todo # {}
    /\ LET next == {e \in todo : SamePrefix(FirstOf(todo), e)}
           seen == scanned + Cardinality(next)
       IN \/ /\ StopDue /\ seen >= BatchMax
             /\ FlushAndEnd("stopped") /\ UNCHANGED tellVars
          \/ /\ ~(StopDue /\ seen >= BatchMax)
             /\ todo' = todo \ next /\ scanned' = seen % BatchMax
             /\ IF RanksOf(next) = {}
                THEN Go("tell") /\ UNCHANGED <<group, pass, rank>>
                ELSE Go("pass") /\ group' = next /\ pass' = next /\ rank' = Least(RanksOf(next))
             /\ UNCHANGED <<event, batch>>
    /\ UNCHANGED <<options, pollVars, sequence, cancelled, timeVars, historyVars>>

\* One event of the group: it is told if its rank is the one of this pass.
LookAtNext ==
    /\ phase = "pass" /\ pass # {}
    /\ pass' = pass \ {FirstOf(pass)}
    /\ IF Told(FirstOf(pass)) /\ RankOf(FirstOf(pass)) = rank
       THEN event' = FirstOf(pass) /\ Go("write")
       ELSE Go("pass") /\ UNCHANGED event
    /\ UNCHANGED <<options, pollVars, todo, group, rank, scanned, batch, sequence,
                   cancelled, timeVars, historyVars>>

\* One pass over the group per rank.  Every step looks at the stop condition.
PassStep == ~StopDue /\ LookAtNext

NextRank ==
    /\ phase = "pass" /\ ~StopDue /\ pass = {}
    /\ LET higher == {r \in RanksOf(group) : r > rank}
       IN IF higher = {}
          THEN Go("tell") /\ group' = {} /\ rank' = 0 /\ UNCHANGED pass
          ELSE Go("pass") /\ pass' = group /\ rank' = Least(higher) /\ UNCHANGED group
    /\ UNCHANGED <<options, pollVars, todo, event, scanned, batch, sequence, cancelled,
                   timeVars, historyVars>>

StopInPass ==
    /\ phase = "pass" /\ StopDue
    /\ FlushAndEnd("stopped")
    /\ UNCHANGED <<options, pollVars, tellVars, sequence, cancelled, timeVars, historyVars>>

Change(e) == CASE e.kind = "release" -> -1 [] e.kind = "replacement" -> 0 [] OTHER -> 1

\* write_endpoint_event, the counters and the flush of a full batch
WriteEvent ==
    /\ phase = "write"
    /\ event' = NoEvent
    /\ \/ OutputFails /\ UNCHANGED <<batch, sequence, ledger, late>>
       \/ /\ ledger' = [ledger EXCEPT ![Place(event)] = @ + Change(event)] /\ Written
          /\ \/ /\ sequence = SequenceMax
                /\ FlushAndEnd("overflow") /\ UNCHANGED sequence
             \/ /\ sequence < SequenceMax
                /\ sequence' = sequence + 1
                /\ \/ batch + 1 < BatchMax /\ batch' = batch + 1 /\ Go("pass")
                   \/ batch + 1 = BatchMax /\ batch' = 0 /\ Go("pass")
                   \/ batch + 1 = BatchMax /\ batch' = BatchMax /\ OutputFails
    /\ UNCHANGED <<options, pollVars, todo, group, pass, rank, scanned, cancelled,
                   timeVars, gapTail>>

\* The batch is told: what was compared becomes what the next poll compares with.
EndEvents ==
    /\ phase = "tell" /\ todo = {}
    /\ \/ OutputFails /\ UNCHANGED <<batch, previous, current, age>>
       \/ /\ Go("wait") /\ batch' = 0
          /\ previous' = current /\ current' = NoSnapshot
          /\ IF previous = NoSnapshot THEN age' = 0 ELSE UNCHANGED age
    /\ UNCHANGED <<options, failures, tellVars, sequence, cancelled, left, sinceAttempt,
                   sinceFailure, historyVars>>

-----------------------------------------------------------------------------
\* The world: the signal handler stores the flag; time passes.

Cancel ==
    /\ phase # "done" /\ ~cancelled
    /\ cancelled' = TRUE
    /\ UNCHANGED <<options, phase, result, pollVars, tellVars, batch, sequence, timeVars,
                   historyVars>>

Later(ticks, bound) == IF ticks < bound THEN ticks + 1 ELSE ticks

Tick ==
    /\ phase # "done"
    /\ left' = (IF left > 0 THEN left - 1 ELSE 0)
    /\ age' = Later(age, Interval)
    /\ sinceAttempt' = Later(sinceAttempt, Interval)
    /\ sinceFailure' = Later(sinceFailure, Interval)
    /\ UNCHANGED <<options, phase, result, pollVars, tellVars, batch, sequence, cancelled,
                   historyVars>>

-----------------------------------------------------------------------------
Init ==
    /\ options \in Choices
    /\ phase = "begin" /\ result = "none"
    /\ previous = NoSnapshot /\ current = NoSnapshot /\ failures = 0
    /\ todo = {} /\ group = {} /\ pass = {} /\ rank = 0 /\ event = NoEvent /\ scanned = 0
    /\ batch = 0 /\ sequence = 0 /\ cancelled = FALSE
    /\ left = (IF options.timed THEN Duration ELSE 0)
    /\ age = 0 /\ sinceAttempt = Interval /\ sinceFailure = Interval
    /\ ledger = [b \in Bucket |-> 0] /\ gapTail = <<>> /\ late = 0

Step ==
    \/ Begin \/ CollectFirst \/ Wait \/ Attempt \/ Collect \/ WriteGap \/ AfterGap
    \/ StartEvents \/ NextGroup \/ PassStep \/ NextRank \/ StopInPass \/ WriteEvent
    \/ EndEvents

Next == Step \/ Cancel \/ Tick

\* The loop is a thread that is never blocked for good, and time goes on.  Nobody
\* has to press Ctrl-C.
Spec == Init /\ [][Next]_watchVars /\ WF_watchVars(Step) /\ WF_watchVars(Tick)

-----------------------------------------------------------------------------
Phases == {"begin", "first", "collected", "tell", "pass", "write", "wait", "due",
           "polling", "gap", "gapWritten", "done"}

\* Types; the budget and the batch are never exceeded.
TypeOK ==
    /\ options \in Choices
    /\ phase \in Phases /\ result \in DOMAIN ExitReason \cup {"none"}
    /\ {previous, current} \subseteq Snapshots \cup {NoSnapshot}
    /\ todo \cup group \cup pass \subseteq Event /\ event \in Event \cup {NoEvent}
    /\ rank \in 0 .. 11 /\ scanned \in 0 .. BatchMax - 1
    /\ batch \in 0 .. BatchMax /\ sequence \in 0 .. SequenceMax
    /\ failures \in 0 .. FailuresMax
    /\ cancelled \in BOOLEAN /\ left \in 0 .. Duration
    /\ {age, sinceAttempt, sinceFailure} \subseteq 0 .. Interval
    /\ ledger \in [Bucket -> Int] /\ late \in Nat

BetweenPolls == phase \in {"wait", "due", "polling", "gap", "gapWritten"}

\* No event about the bucket is dropped, whichever of its sockets it is about.
Reported(b) ==
    /\ b \in options.selected
    /\ \A snapshot \in {s \in Snapshots : DiffSafe(s)} : \A s \in InBucket(snapshot, b) :
           \/ SideTruth(snapshot, s, options.terms) = "true"
           \/ SideTruth(snapshot, s, options.terms) = "unknown" /\ ~options.matchedOnly

\* A reader who adds up the records knows how many sockets each bucket held when
\* the last usable snapshot was taken, whatever failed in between; of buckets that
\* were not asked for nothing is told.  (Order of the failure paths of
\* run_watch_loop, the diff, and the passes of write_ordered_events.)
LedgerAgrees ==
    /\ BetweenPolls => \A b \in Bucket :
           Reported(b) => ledger[b] = Cardinality(InBucket(previous, b))
    /\ \A b \in Bucket \ options.selected : ledger[b] = 0

\* The last of FailuresMax failures in a row is told before the command fails, and
\* neither Ctrl-C nor the end of the duration turns that failure into a success.
BudgetSpeaks ==
    /\ result = "budget" => gapTail = [i \in 1 .. FailuresMax |-> i]
    /\ result = "stopped" => Len(gapTail) < FailuresMax

\* Whoever stops the command, or waits for its next poll, has seen every record
\* written so far.
NothingUnflushed ==
    result \in {"stopped", "budget"} \/ phase \in {"wait", "due", "polling"} => batch = 0

\* Once it is to stop, at most the record in hand is still written.
StopsPromptly == late <= 1

\* The command ends in order: it speaks of its failures, what it wrote is seen, and
\* it stops when told to.
EndsInOrder == BudgetSpeaks /\ NothingUnflushed /\ StopsPromptly

\* An event that could match, were everything known, is not dropped (unless only
\* definite matches were asked for).
NoPossibleMatchHidden ==
    phase = "tell" => \A e \in todo :
        /\ Place(e) \in options.selected /\ ~options.matchedOnly
        /\ \/ e.previous # NoSocket /\ MayMatch(previous, e.previous, options.terms)
           \/ e.current # NoSocket /\ MayMatch(current, e.current, options.terms)
        => Told(e)

\* An event told as matched does match, whatever is behind the facts not read.
MatchedIsDefinite ==
    phase = "tell" => \A e \in todo :
        ResultOf(e) = "matched" =>
            \/ e.previous # NoSocket /\ MustMatch(previous, e.previous, options.terms)
            \/ e.current # NoSocket /\ MustMatch(current, e.current, options.terms)

\* The same, for sockets whose owners were seen.
OwnedMatchIsDefinite ==
    phase = "tell" => \A e \in todo :
        /\ ResultOf(e) = "matched"
        /\ e.previous # NoSocket => OwnersOf[e.previous] # {}
        /\ e.current # NoSocket => OwnersOf[e.current] # {}
        => \/ e.previous # NoSocket /\ MustMatch(previous, e.previous, options.terms)
           \/ e.current # NoSocket /\ MustMatch(current, e.current, options.terms)

\* What could not be read neither hides an event nor makes one certain.
VisibilityIsHonest == NoPossibleMatchHidden /\ OwnedMatchIsDefinite

\* Two attempts are an interval apart, and so are the end of a failed poll and the
\* next attempt: a slow failure is not followed at once by another try.
FullInterval ==
    [][phase = "due" /\ phase' = "polling" =>
          sinceAttempt >= Interval /\ sinceFailure >= Interval]_watchVars

\* Ctrl-C, or the end of the duration, ends the command.
EventuallyEnds == (cancelled \/ options.timed) ~> (phase = "done")
=============================================================================
