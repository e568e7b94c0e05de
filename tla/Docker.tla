-------------------------------- MODULE Docker ------------------------------
(***************************************************************************)
(* Docker enrichment: enrich_port of src/src/docker.rs, as the details       *)
(* worker calls it, one call after the other.                               *)
(*                                                                         *)
(* A call runs the docker command for a limited time.  Two drain workers     *)
(* read its output; a cleanup worker waits in case the command has to be      *)
(* ended.  Both kinds outlive a call that gives up on them: a pipe stays open  *)
(* as long as anything the command started holds it, and a child that cannot  *)
(* be waited for is kept for good.  Two counters bound how many there are.    *)
(***************************************************************************)
EXTENDS DockerMatch

CONSTANTS
    Call,                      \* the calls, 1..n
    DrainMax, CleanupMax,      \* DOCKER_OUTPUT_DRAIN_WORKERS_MAX, DOCKER_CHILD_CLEANUP_WORKERS_MAX
    Entries, Listings,         \* the rows asked about, the listings docker may print
    Faults, MaxFaults

ASSUME DockerAssumption ==
    /\ IsFiniteSet(Call) /\ Call = 1..Cardinality(Call)
    /\ {DrainMax, CleanupMax, MaxFaults} \subseteq Nat

Stream == {"stdout", "stderr"}

VARIABLES
    step,        \* where the call at work is
    call,        \* its number, 0 before the first
    entry,       \* the row it was asked about
    elevated,    \* docker_command_is_elevated
    seen,        \* the count reserve has loaded and will compare with
    late,        \* its deadline has passed
    shown,       \* what finish_output_drain_before gave it for each stream
    answer,      \* what it returned
    drains,      \* WorkerCapacity.active of the drain workers,
    cleanups,    \* and of the cleanup workers
    permits,     \* drain permits the call holds
    drain,       \* [Call -> [Stream -> a drain worker]]
    cleanup,     \* [Call -> a cleanup worker]
    child,       \* [Call -> the docker process]
    length,      \* [Call -> what it prints on each stream, in full or too much]
    printed,     \* and its listing, once it is looked at
    holders,     \* [Call -> the pipes something it started holds open]
    faults       \* faults left

callVars == <<step, call, entry, elevated, seen, late, shown, printed, answer>>
workerVars == <<drains, cleanups, permits, drain, cleanup>>
childVars == <<child, length, holders>>
vars == <<callVars, workerVars, childVars, faults>>

Nothing == [kind |-> "none"]
Fault(kind) == kind \in Faults /\ faults > 0 /\ faults' = faults - 1
NoFault == UNCHANGED faults

DockerTypeOK ==
    /\ drains \in 0..DrainMax /\ cleanups \in 0..CleanupMax /\ permits \in 0..2
    /\ drain \in [Call -> [Stream -> {"none", "reading", "sent", "failed"}]]
    /\ cleanup \in [Call -> {"none", "waiting", "ending", "kept", "gone"}]
    /\ child \in [Call -> {"none", "running", "exited", "reaped"}]

-----------------------------------------------------------------------------
\* The call

\* The end of a call: its permits and its side of every channel are dropped, and
\* a cleanup worker that has no child by now returns.
Over(result) ==
    /\ step' = "idle" /\ answer' = result
    /\ permits' = 0 /\ seen' = 0 /\ late' = FALSE /\ shown' = [s \in Stream |-> "none"]
    /\ UNCHANGED <<call, entry, elevated>>
DropPermits == drains' = drains - permits
NeverAbandoned(c) == FALSE
Abandoned(c) == cleanup[c] = "waiting" /\ ~(call = c /\ step # "idle")

Begin ==
    /\ step = "idle" /\ call + 1 \in Call
    /\ call' = call + 1 /\ entry' \in Entries
    /\ answer' = Nothing /\ printed' = Nothing
    /\ step' = IF ShouldTry(entry') /\ ~elevated THEN "load" ELSE "idle"
    /\ UNCHANGED <<elevated, seen, late, shown, workerVars, childVars, faults>>

\* WorkerCapacity::reserve::<2>: the count is loaded, and replaced only if nobody
\* has changed it since; a compare_exchange_weak may also fail by itself.
LoadCount == step = "load" /\ seen' = drains /\ step' = "reserve"
             /\ UNCHANGED <<call, entry, elevated, late, shown, printed, answer, workerVars, childVars, faults>>
Stale == drains # seen

Reserve ==
    /\ step = "reserve"
    /\ \/ /\ seen + 2 > DrainMax /\ Over(Nothing) /\ UNCHANGED <<drains, printed>>
       \/ /\ seen + 2 <= DrainMax /\ Stale
          /\ seen' = drains
          /\ UNCHANGED <<step, call, entry, elevated, late, shown, printed, answer, drains, permits>>
       \/ /\ seen + 2 <= DrainMax /\ ~Stale
          /\ drains' = seen + 2 /\ permits' = 2 /\ step' = "cleanup"
          /\ UNCHANGED <<call, entry, elevated, seen, late, shown, printed, answer>>
    /\ UNCHANGED <<cleanups, drain, cleanup, childVars, faults>>

GoOn(next) == step' = next /\ UNCHANGED <<call, entry, elevated, seen, late, shown, printed, answer>>
GiveUp == Over(Nothing) /\ DropPermits /\ UNCHANGED printed

\* spawn_child_cleanup, before there is a child
SpawnCleanup ==
    /\ step = "cleanup"
    /\ \/ cleanups + 1 > CleanupMax /\ GiveUp /\ NoFault /\ UNCHANGED <<cleanups, cleanup>>
       \/ Fault("thread") /\ GiveUp /\ UNCHANGED <<cleanups, cleanup>>
       \/ /\ cleanups + 1 <= CleanupMax /\ cleanups' = cleanups + 1
          /\ cleanup' = [cleanup EXCEPT ![call] = "waiting"]
          /\ GoOn("child") /\ NoFault /\ UNCHANGED <<drains, permits>>
    /\ UNCHANGED <<drain, childVars>>

SpawnChild ==
    /\ step = "child"
    /\ \/ /\ child' = [child EXCEPT ![call] = "running"]
          /\ \E l \in [Stream -> {"whole", "exceeded"}] : length' = [length EXCEPT ![call] = l]
          /\ \E held \in SUBSET Stream : holders' = [holders EXCEPT ![call] = held]
          /\ GoOn("stdout") /\ NoFault /\ UNCHANGED <<drains, permits>>
       \/ Fault("spawn") /\ GiveUp /\ UNCHANGED childVars
    /\ UNCHANGED <<cleanups, drain, cleanup>>

\* ChildCleanup::handoff
Dropped == UNCHANGED <<cleanup, child>>
Handoff == cleanup' = [cleanup EXCEPT ![call] = "ending"] /\ UNCHANGED child

\* spawn_output_drain, for one stream and then for the other.  A worker that
\* cannot be started takes its permit with it.
StartDrain(s, next) ==
    /\ step = s
    /\ \/ /\ drain' = [drain EXCEPT ![call][s] = "reading"] /\ permits' = permits - 1
          /\ GoOn(next) /\ NoFault /\ UNCHANGED <<drains, cleanup, child>>
       \/ Fault("thread") /\ Handoff /\ GiveUp /\ UNCHANGED drain
    /\ UNCHANGED <<cleanups, length, holders>>
StartStdout == StartDrain("stdout", "stderr")
StartStderr == StartDrain("stderr", "poll")

\* The loop of try_wait: out of time, an exit status, or an error.
PollChild ==
    /\ step = "poll"
    /\ \/ /\ Handoff /\ step' = "drop" /\ late' = FALSE
          /\ (late /\ NoFault) \/ (~late /\ Fault("wait"))
          /\ UNCHANGED <<call, entry, elevated, seen, shown, printed, answer>>
       \/ /\ child[call] = "exited" /\ child' = [child EXCEPT ![call] = "reaped"]
          /\ step' = "readStdout" /\ late' = FALSE /\ NoFault
          /\ UNCHANGED <<call, entry, elevated, seen, shown, printed, answer, cleanup>>
    /\ UNCHANGED <<drains, cleanups, permits, drain, length, holders>>

\* The drain workers of a child that was given up get a moment too, and what they
\* read is not looked at.
DropOutput ==
    /\ step = "drop" /\ (late \/ \A s \in Stream : drain[call][s] # "reading") /\ GiveUp
    /\ UNCHANGED <<cleanups, drain, cleanup, childVars, faults>>

\* finish_output_drain_before, for one stream and then for the other
Received(s) == drain[call][s] = "sent"
ReadDrain(at, s, next) ==
    /\ step = at
    /\ \/ /\ Received(s)
          /\ shown' = [shown EXCEPT ![s] = length[call][s]]
          /\ step' = next /\ UNCHANGED <<call, entry, elevated, seen, late, printed, answer, drains, permits>>
       \/ ~Received(s) /\ (late \/ drain[call][s] = "failed") /\ GiveUp
    /\ UNCHANGED <<cleanups, drain, cleanup, childVars, faults>>
ReadStdout == ReadDrain("readStdout", "stdout", "readStderr")
ReadStderr == ReadDrain("readStderr", "stderr", "parse")

\* The checks of the command's output, and what its listing says of the row.
Usable(listing) ==
    /\ \A s \in Stream : shown[s] = "whole"
    /\ listing.success /\ listing.utf8
Parse ==
    /\ step = "parse" /\ printed' \in Listings
    /\ LET context == ContextFrom(entry, printed'.rows)
       IN  Over(IF Usable(printed') /\ context.containers # <<>>
                THEN [kind |-> "context", of |-> context] ELSE Nothing)
    /\ UNCHANGED <<drains, cleanups, drain, cleanup, childVars, faults>>

\* Time passes for a call that waits.
Late ==
    /\ step \in {"poll", "drop", "readStdout", "readStderr"} /\ ~late /\ late' = TRUE
    /\ UNCHANGED <<step, call, entry, elevated, seen, shown, printed, answer, workerVars, childVars, faults>>

-----------------------------------------------------------------------------
\* The workers, and the world they wait for

\* read_output_bounded returns at the end of the stream or after one byte too many.
AtEnd(c, s) == child[c] # "running" /\ s \notin holders[c]
DrainWorker(c, s) ==
    /\ drain[c][s] = "reading"
    /\ \/ /\ AtEnd(c, s) \/ length[c][s] = "exceeded"
          /\ drain' = [drain EXCEPT ![c][s] = "sent"] /\ NoFault
       \/ Fault("read") /\ drain' = [drain EXCEPT ![c][s] = "failed"]
    /\ drains' = drains - 1
    /\ UNCHANGED <<callVars, cleanups, permits, cleanup, childVars>>

\* The cleanup worker: nobody sent it a child, or terminate_and_reap.
CleanupReturns(c) ==
    /\ Abandoned(c)
    /\ cleanup' = [cleanup EXCEPT ![c] = "gone"] /\ cleanups' = cleanups - 1
    /\ UNCHANGED <<callVars, drains, permits, drain, childVars, faults>>
Terminate(c) ==
    /\ cleanup[c] = "ending" /\ child[c] = "running"
    /\ child' = [child EXCEPT ![c] = "exited"]
    /\ UNCHANGED <<callVars, workerVars, length, holders, faults>>
Reap(c) ==
    /\ cleanup[c] = "ending"
    /\ \/ /\ child[c] = "exited" /\ child' = [child EXCEPT ![c] = "reaped"]
          /\ cleanup' = [cleanup EXCEPT ![c] = "gone"] /\ cleanups' = cleanups - 1 /\ NoFault
       \/ Fault("reap") /\ cleanup' = [cleanup EXCEPT ![c] = "kept"] /\ UNCHANGED <<child, cleanups>>
    /\ UNCHANGED <<callVars, drains, permits, drain, length, holders>>

ChildExits(c) ==
    /\ child[c] = "running" /\ child' = [child EXCEPT ![c] = "exited"]
    /\ UNCHANGED <<callVars, workerVars, length, holders, faults>>
PipeCloses(c) ==
    /\ child[c] # "none"
    /\ \E s \in holders[c] : holders' = [holders EXCEPT ![c] = @ \ {s}]
    /\ UNCHANGED <<callVars, workerVars, child, length, faults>>

Init ==
    /\ step = "idle" /\ call = 0 /\ entry \in Entries /\ elevated \in BOOLEAN
    /\ seen = 0 /\ late = FALSE /\ shown = [s \in Stream |-> "none"] /\ answer = Nothing
    /\ drains = 0 /\ cleanups = 0 /\ permits = 0
    /\ drain = [c \in Call |-> [s \in Stream |-> "none"]] /\ cleanup = [c \in Call |-> "none"]
    /\ child = [c \in Call |-> "none"] /\ printed = Nothing
    /\ length = [c \in Call |-> [s \in Stream |-> "none"]]
    /\ holders = [c \in Call |-> {}] /\ faults = MaxFaults

KickStep ==
    \/ LoadCount \/ Reserve \/ SpawnCleanup \/ SpawnChild \/ StartStdout \/ StartStderr
    \/ PollChild \/ DropOutput \/ ReadStdout \/ ReadStderr \/ Parse
WorkerStep(c) ==
    (\E s \in Stream : DrainWorker(c, s)) \/ CleanupReturns(c) \/ Terminate(c) \/ Reap(c)
Done == step = "idle" /\ call + 1 \notin Call /\ UNCHANGED vars

Next ==
    \/ Begin \/ KickStep \/ Late
    \/ \E c \in Call : WorkerStep(c) \/ ChildExits(c) \/ PipeCloses(c)
    \/ Done

\* A thread that can run does, and time passes.  The command need not end, nor
\* what it started close a pipe.
Fairness ==
    /\ WF_vars(KickStep) /\ WF_vars(Late) /\ \A c \in Call : WF_vars(WorkerStep(c))
Spec == Init /\ [][Next]_vars
FairSpec == Spec /\ Fairness

-----------------------------------------------------------------------------
\* Properties

\* The counters never drift: each shows exactly the permits somebody holds, and so
\* never exceeds its limit, whatever a reservation races with
\* (docker.rs 433-475, test worker_capacity_never_admits_more_than_its_limit_under_contention).
CapacityIsExact ==
    /\ drains = permits + Cardinality({w \in Call \X Stream : drain[w[1]][w[2]] = "reading"})
    /\ drains <= DrainMax
    /\ cleanups = Cardinality({c \in Call : cleanup[c] \in {"waiting", "ending", "kept"}})
    /\ cleanups <= CleanupMax

\* No docker process is forgotten: once its call is over it has been waited for or a
\* cleanup worker owns it (docker.rs 525-600, 740-770).
NoChildForgotten ==
    \A c \in Call : child[c] \notin {"none", "reaped"} =>
        \/ call = c /\ step # "idle"
        \/ cleanup[c] \in {"ending", "kept"}

\* Nothing a call starts is lost sight of, neither a slot nor a process.
NothingLeaks == CapacityIsExact /\ NoChildForgotten

\* What is shown was read to the end, from a command that succeeded, and names
\* exactly the containers that publish the row's port, or says it is cut short
\* (docker.rs 640-655, 776-825).
AnswerIsWhole ==
    answer # Nothing =>
        LET named == ToSet(answer.of.containers)
            of == Publishers(entry, printed.rows)
        IN  /\ printed.success /\ child[call] = "reaped"
            /\ \A s \in Stream : length[call][s] = "whole" /\ AtEnd(call, s)
            /\ named # {} /\ named \subseteq of
            /\ Cardinality(named) = Len(answer.of.containers)
            /\ answer.of.truncated \/ named = of

\* However the command behaves, its call comes to an end; and once nothing it has
\* started holds a pipe, every worker and every slot is given back, but those of a
\* child that could not be waited for (docker.rs 30-36, 518-522, 658-670).
Kept(c) == cleanup[c] = "kept"
CapacityComesBack ==
    <>[](\A c \in Call : holders[c] = {}) =>
        <>[](/\ step = "idle" /\ \A c \in Call : cleanup[c] \in {"none", "gone", "kept"}
             /\ drains > 0 => \E c \in Call : Kept(c) /\ child[c] = "running")
=============================================================================
