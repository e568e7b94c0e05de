----------------------------- MODULE KillTargets ----------------------------
(***************************************************************************)
(* Snapshots of the sockets as the commands and the terminal use them, the  *)
(* kill target a snapshot's rows make, and when a fresh one still is the     *)
(* process that was confirmed (src/src/process.rs).                         *)
(*                                                                         *)
(* A snapshot of the sockets is one step here, and what it publishes is     *)
(* what module Observation promises: every owner it names held the socket,  *)
(* under that marker and name.  A host may have processes whose descriptors *)
(* kick may not read (unreadable, those that run a Foreign program); then no *)
(* port has a provable only holder (module KillPorts).                      *)
(***************************************************************************)
EXTENDS Sockets

CONSTANTS
    Protected,      \* protected program names
    SystemName,     \* names is_unix_system_process lists
    Foreign,        \* programs that run under another user id
    MemberCap,      \* MAX_TREE_PROCESSES, MAX_GROUP_PROCESSES
    Faults          \* what else may go wrong, each costing one disturbance

ASSUME KillTargetsAssumption ==
    Protected \cup SystemName \cup Foreign \subseteq Name /\ MemberCap \in Nat \ {0}

VARIABLES
    unreadable,    \* this host has processes kick may not read
    signals        \* history: how often each incarnation was sent the signal

NoView == [taken |-> FALSE]

-----------------------------------------------------------------------------
\* A supervisor replaces a process in one move: q starts, perhaps under the very
\* number, runs what p ran and listens where p did.
Respawn(p, q) ==
    /\ Disturb("respawn")
    /\ status[p] \in Live /\ parent[p] \in Outside /\ Touchable(p)
    /\ status[q] = "unborn" /\ Occupant(PidOf[q]) \in {NoProc, p}
    /\ status' = [r \in Proc |->
         CASE r = p -> "dead" [] r = q -> "running"
           [] OTHER -> IF parent[r] = p /\ status[r] = "zombie" THEN "dead" ELSE status[r]]
    /\ parent' = [r \in Proc |-> IF r = q THEN parent[p]
                                 ELSE IF parent[r] = p THEN Reaper ELSE parent[r]]
    /\ pgrp' = [pgrp EXCEPT ![q] = pgrp[p]] /\ name' = [name EXCEPT ![q] = name[p]]
    /\ holds' = [holds EXCEPT ![p] = {}, ![q] = holds[p]]
    /\ pending' = [pending EXCEPT ![p] = {}]
    /\ UNCHANGED meddled

\* collect_snapshot: the processes by number, who owns which listener, and the
\* endpoints no owner could be attributed to.
Readable == {edge \in Holding : /\ edge[1] \in Listening
                                /\ unreadable => name[edge[2]] \notin Foreign}
ViewNow == [taken |-> TRUE,
            who   |-> [pid \in Pid |-> Occupant(pid)],
            named |-> name, parentPid |-> [p \in Proc |-> ParentPid(p)],
            edges |-> {<<edge[1], PidOf[edge[2]]>> : edge \in Readable},
            hidden |-> ShownEndpoints \ {EndpointOf[edge[1]] : edge \in Readable}]

RowsOfPid(view, pid) == {edge \in view.edges : edge[2] = pid}
RowsOfPort(view, port) == {edge \in view.edges : PortOf[EndpointOf[edge[1]]] = port}
RowsOf(view, sel) == IF sel.by = "pid" THEN RowsOfPid(view, sel.pid) ELSE RowsOfPort(view, sel.port)
OwnersOf(edges) == {edge[2] : edge \in edges}
EndpointsOf(edges) == {EndpointOf[edge[1]] : edge \in edges}

\* SystemProcessCheck and the owner mismatch: what --yes never skips.
Warned(program, parentPid) == parentPid = ReaperPid \/ program \in SystemName \cup Foreign

\* KillTarget::from_entries, as far as a decision reads it.  facts is whose owner
\* and children a ProcessContext added.
TargetFrom(view, pid, edges) ==
    [pid |-> pid, who |-> view.who[pid], name |-> view.named[view.who[pid]],
     endpoints |-> EndpointsOf(edges),
     protected |-> view.named[view.who[pid]] \in Protected,
     warned |-> Warned(view.named[view.who[pid]], view.parentPid[view.who[pid]]),
     facts |-> NoProc]

-----------------------------------------------------------------------------
\* Whether a fresh target is still the confirmed one.

PidOnly(confirmed, fresh) == confirmed.pid = fresh.pid
SameProcess(confirmed, fresh) ==
    confirmed.pid = fresh.pid /\ confirmed.who = fresh.who /\ confirmed.name = fresh.name

\* target_still_matches_confirmation
StillMatches(confirmed, fresh) ==
    SameProcess(confirmed, fresh) /\ confirmed.endpoints \subseteq fresh.endpoints

-----------------------------------------------------------------------------
\* A signal is queued for some processes at once.
Deliver(signal, who) ==
    /\ pending' = [p \in Proc |-> IF p \in who THEN pending[p] \cup {signal} ELSE pending[p]]
    /\ signals' = [p \in Proc |-> signals[p] + IF p \in who THEN 1 ELSE 0]
    /\ UNCHANGED <<status, parent, pgrp, name, meddled, holds>>

Fault(kind) == kind \in Faults /\ budget > 0 /\ budget' = budget - 1

TargetsInit ==
    /\ unreadable \in {FALSE, Foreign # {}}
    /\ signals = [p \in Proc |-> 0]
=============================================================================
