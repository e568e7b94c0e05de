---------------------------- MODULE SnapshotDiff ----------------------------
(***************************************************************************)
(* What kick watch says changed between two snapshots: diff_snapshots and   *)
(* baseline_events of src/src/watch.rs.                                    *)
(*                                                                         *)
(* A socket is a number: the place of its value (endpoint, state, token,    *)
(* owners, completeness) in the order of compare_socket.  Two sockets with   *)
(* the same value are two numbers, of which a snapshot uses the lower one   *)
(* first.  A bucket is an endpoint and a state.                            *)
(***************************************************************************)
EXTENDS Integers, FiniteSets, Sequences

CONSTANTS
    Socket,      \* the sockets a snapshot may hold, in the order of compare_socket
    Bucket,      \* pairs of an endpoint and a state, in their order
    BucketOf,    \* the bucket of each socket
    Endpoint,
    EndpointOf,  \* the endpoint of each bucket
    NoEndpoint,  \* an ownership gap that names no endpoint
    ShownOf,     \* what compare_event_prefix sees of a socket: token and listed owners
    Pid,
    Start,       \* start markers
    NoStart,     \* the marker of an owner that could not be verified
    OwnersOf,    \* the owners each socket was seen to have
    CompleteOf   \* whether the owners of a socket are known to be all

NoPid == 0
NoSocket == 0

Owner == [pid : Pid, start : Start \cup {NoStart}]
Gap == [endpoint : Endpoint \cup {NoEndpoint}, pid : Pid \cup {NoPid}]

ASSUME DiffAssumption ==
    /\ Socket \subseteq Nat \ {0} /\ IsFiniteSet(Socket)
    /\ Bucket \subseteq Nat
    /\ BucketOf \in [Socket -> Bucket] /\ EndpointOf \in [Bucket -> Endpoint]
    /\ \A s, t \in Socket : s < t => BucketOf[s] <= BucketOf[t]
    /\ NoEndpoint \notin Endpoint /\ NoStart \notin Start /\ NoPid \notin Pid
    /\ OwnersOf \in [Socket -> SUBSET Owner] /\ CompleteOf \in [Socket -> BOOLEAN]
    /\ ShownOf \in [Socket -> Nat]

\* NetworkSnapshot, as far as watch tells two apart.  "unsafe" is the reason the
\* socket set may be wrong: the passes raced, evidence was dropped, or a table
\* was only partly read.
Snapshot ==
    [sockets : SUBSET Socket, unsafe : {"none", "raced", "omitted", "partial"},
     ownersComplete : BOOLEAN, gaps : SUBSET Gap]

\* socket_set_diff_safe
DiffSafe(snapshot) == snapshot.unsafe = "none"

InBucket(snapshot, b) == {s \in snapshot.sockets : BucketOf[s] = b}

-----------------------------------------------------------------------------
\* Replacements

Verified(owner) == owner.start # NoStart

\* ReplacementReadiness
ReadyAt(snapshot, endpoint) ==
    /\ snapshot.ownersComplete
    /\ \A gap \in snapshot.gaps : gap.endpoint \notin {NoEndpoint, endpoint}
    /\ \A s \in snapshot.sockets : EndpointOf[BucketOf[s]] = endpoint => CompleteOf[s]

\* The lone socket of a bucket went from one verified owner to another one.
Replaces(previous, current, b) ==
    \E p \in InBucket(previous, b), c \in InBucket(current, b) :
        /\ InBucket(previous, b) = {p} /\ InBucket(current, b) = {c}
        /\ p # c
        /\ ReadyAt(previous, EndpointOf[b]) /\ ReadyAt(current, EndpointOf[b])
        /\ \E before, after \in Owner :
              /\ OwnersOf[p] = {before} /\ OwnersOf[c] = {after}
              /\ Verified(before) /\ Verified(after) /\ before # after

-----------------------------------------------------------------------------
\* Events

Event ==
    [kind : {"release", "replacement", "bind", "baseline"},
     previous : Socket \cup {NoSocket}, current : Socket \cup {NoSocket}]

Release(s) == [kind |-> "release", previous |-> s, current |-> NoSocket]
Bind(s) == [kind |-> "bind", previous |-> NoSocket, current |-> s]
Baseline(s) == [kind |-> "baseline", previous |-> NoSocket, current |-> s]
Replacement(p, c) == [kind |-> "replacement", previous |-> p, current |-> c]

\* event_socket
Subject(event) == IF event.kind = "release" THEN event.previous ELSE event.current
Place(event) == BucketOf[Subject(event)]

\* proven, unless one process took the socket over from another one.
Certainty(event) ==
    IF event.kind = "replacement"
       /\ {o.pid : o \in OwnersOf[event.previous]} # {o.pid : o \in OwnersOf[event.current]}
    THEN "heuristic" ELSE "proven"

\* A mutant that pairs nothing off.
BeyondNone(sockets, paired) == sockets

\* The cursor skips the first of one side: those pair off with the other side.
Beyond(sockets, paired) ==
    {s \in sockets : Cardinality({t \in sockets : t < s}) >= paired}

\* reconcile_bucket and next_remainder_index: only the surplus of a bucket is told.
BucketEvents(previous, current, b) ==
    LET before == InBucket(previous, b)
        after == InBucket(current, b)
        gone == before \ after
        new == after \ before
    IN IF Replaces(previous, current, b)
       THEN {Replacement(p, c) : p \in before, c \in after}
       ELSE IF Cardinality(gone) > Cardinality(new)
       THEN {Release(s) : s \in Beyond(gone, Cardinality(new))}
       ELSE {Bind(s) : s \in Beyond(new, Cardinality(gone))}

DiffEvents(previous, current) == UNION {BucketEvents(previous, current, b) : b \in Bucket}
BaselineEvents(snapshot) == {Baseline(s) : s \in snapshot.sockets}

\* compare_event_prefix: events that may be told in either order.
SamePrefix(e, f) ==
    /\ e.kind = f.kind /\ Place(e) = Place(f)
    /\ IF e.kind = "replacement" THEN e = f ELSE ShownOf[Subject(e)] = ShownOf[Subject(f)]

\* The order of the iterators.
FirstOf(events) == CHOOSE e \in events : \A f \in events : Subject(e) <= Subject(f)
=============================================================================
