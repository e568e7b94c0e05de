------------------------------ MODULE KillPorts ------------------------------
(***************************************************************************)
(* What a snapshot entitles a kill to: kill_ports_from_snapshot of          *)
(* src/src/collector.rs, which either hands a destructive command its rows  *)
(* or refuses, over the snapshots of module Observation.                   *)
(***************************************************************************)
EXTENDS Observation

\* DestructiveTargetMode
Target == [mode : {"pid"}, pid : Pid] \cup [mode : {"port"}, port : Port]

PortOfSocket(s) == PortOf[EndpointOf[s]]
Who(pid) == snapshot.reads[pid].who
Why(pid) == snapshot.reads[pid].why
Owners(s) == OwnersIn(snapshot.edges, s)
UnverifiedOwners(s) == {pid \in Owners(s) : Who(pid) = NoProc}

\* destructive_socket_match: only listening TCP and bound UDP sockets count.
Matched(target) ==
    {s \in snapshot.records \cap Listening :
        IF target.mode = "port" THEN PortOfSocket(s) = target.port
        ELSE target.pid \in Owners(s)}

\* socket_authority
SocketRaced(s) == s \in snapshot.affected \/ \E pid \in Owners(s) : Why(pid) = "raced"
SocketDenied(s) == \E pid \in Owners(s) : Why(pid) = "denied"
SocketPartial(s, target) ==
    \/ "namespace" \in blind
    \/ UnverifiedOwners(s) # {}
    \/ target.mode = "port" /\ Owners(s) = {}

OnlyNamedGaps(gap, target) ==
    IF target.mode = "port"
    THEN gap.endpoint # NoEndpoint /\ PortOf[gap.endpoint] = target.port
    ELSE gap.pid = target.pid

\* gap_applies_to_target: a gap that names no endpoint may hide a co-holder of
\* any port, and sockets of the process it names.
GapApplies(gap, target) ==
    IF target.mode = "port"
    THEN gap.endpoint = NoEndpoint \/ PortOf[gap.endpoint] = target.port
    ELSE \/ gap.endpoint = NoEndpoint /\ gap.pid = target.pid
         \/ gap.endpoint \in {EndpointOf[s] : s \in Matched(target)}
ApplyingGaps(target) == {gap \in snapshot.gaps : GapApplies(gap, target)}

\* The strongest reason wins: a race, then a denial, then partial evidence.
Authority(target) ==
    IF \/ snapshot.raced
       \/ \E s \in Matched(target) : SocketRaced(s)
       \/ \E gap \in snapshot.gaps : gap.code = "raced"
    THEN "raced"
    ELSE IF \/ \E s \in Matched(target) : SocketDenied(s)
            \/ \E gap \in ApplyingGaps(target) : gap.code = "denied"
    THEN "denied"
    ELSE IF \/ snapshot.omitted
            \/ \E s \in Matched(target) : SocketPartial(s, target)
            \/ ApplyingGaps(target) # {}
    THEN "partial"
    ELSE "complete"

\* The rows of the target, socket by owner (project_legacy_target).
Rows(target) ==
    {edge \in snapshot.edges :
        edge[1] \in Matched(target) /\ (target.mode = "pid" => edge[2] = target.pid)}

Granted(target) == phase = "taken" /\ Authority(target) = "complete"

-----------------------------------------------------------------------------
\* Kept by: the gate together with the collector.  (KillPorts is stateless.)

\* A process that held a listening socket of the port all along is one of the
\* owners a port kill is given, by its own incarnation: no co-holder is missed.
PortHoldersAllKnown ==
    \A port \in Port :
        LET target == [mode |-> "port", port |-> port]
        IN  Granted(target) =>
              \A edge \in heldThrough :
                edge[1] \in Listening /\ PortOfSocket(edge[1]) = port =>
                  /\ <<edge[1], PidOf[edge[2]]>> \in Rows(target)
                  /\ Who(PidOf[edge[2]]) = edge[2]

\* What a PID kill is given is one process, with every listening socket that
\* process held all along.
PidSocketsAllKnown ==
    \A pid \in Pid :
        LET target == [mode |-> "pid", pid |-> pid]
        IN  Granted(target) /\ Rows(target) # {} =>
              /\ Who(pid) # NoProc
              /\ \A edge \in heldThrough :
                   edge[2] = Who(pid) /\ edge[1] \in Listening =>
                     <<edge[1], pid>> \in Rows(target)

\* A port kill is never granted on an attempt that lost sight of anything that may
\* concern the port, in either of its passes.
NoLossForgotten ==
    \A port \in Port : Granted([mode |-> "port", port |-> port]) => port \notin missed

\* A kill is only granted on a snapshot that knows all there is to know of its
\* target: every holder of the port, or every socket of the process.
HoldersAllKnown == PortHoldersAllKnown /\ PidSocketsAllKnown /\ NoLossForgotten
=============================================================================
