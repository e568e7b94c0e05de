------------------------------- MODULE Sockets -------------------------------
(***************************************************************************)
(* The sockets of one network namespace, added to the process table of     *)
(* module Kernel: external to the repository, and modelled from what the   *)
(* /proc/net readers and the /proc/<pid>/fd scan of src/ rely on.           *)
(*                                                                         *)
(* A member of Socket is what the code calls a socket token (an inode).  A  *)
(* socket exists while some process holds it; a child inherits what its     *)
(* parent holds, and a process may hand a socket to another one, so a       *)
(* socket may have several holders.                                        *)
(***************************************************************************)
EXTENDS Kernel

CONSTANTS
    Socket,        \* socket tokens
    Endpoint,      \* local endpoints: protocol, address and port
    EndpointOf,    \* the endpoint of each socket
    Port,          \* port numbers
    PortOf,        \* the port of each endpoint
    Listening,     \* listening TCP and bound UDP sockets
    StartHolds     \* what each process holds when a behaviour starts

ASSUME SocketsAssumption ==
    /\ EndpointOf \in [Socket -> Endpoint] /\ PortOf \in [Endpoint -> Port]
    /\ IsFiniteSet(Socket) /\ Listening \subseteq Socket
    /\ StartHolds \subseteq [Proc -> SUBSET Socket]

VARIABLE holds     \* Proc -> the sockets it has a descriptor for

worldVars == <<kernelVars, holds>>

SocketsTypeOK == holds \in [Proc -> SUBSET Socket]

Holding == {edge \in Socket \X Proc : edge[1] \in holds[edge[2]]}
Exists(s) == \E p \in Proc : s \in holds[p]

\* The endpoints a collection shows: a row needs no known owner.
ShownEndpoints == {EndpointOf[s] : s \in {t \in Listening : Exists(t)}}

\* A process that is no longer alive holds nothing; a child starts with its
\* parent's descriptors.
Inherit ==
    holds' = [p \in Proc |->
        IF status'[p] \notin Live THEN {}
        ELSE IF status[p] = "unborn" /\ parent'[p] \in Proc THEN holds[parent'[p]]
        ELSE holds[p]]

Unmoved == UNCHANGED <<status, parent, pgrp, name, pending, meddled>>

\* bind, under a token no socket uses now.
Open(p, s) ==
    /\ Disturb("open")
    /\ status[p] \in Active /\ Touchable(p) /\ ~Exists(s)
    /\ holds' = [holds EXCEPT ![p] = @ \cup {s}]
    /\ Unmoved

Close(p, s) ==
    /\ Disturb("close")
    /\ status[p] \in Active /\ Touchable(p) /\ s \in holds[p]
    /\ holds' = [holds EXCEPT ![p] = @ \ {s}]
    /\ Unmoved

\* q receives a descriptor p sends it.
Pass(p, q, s) ==
    /\ Disturb("pass")
    /\ status[p] \in Active /\ status[q] \in Active /\ Touchable(p) /\ Touchable(q)
    /\ s \in holds[p] \ holds[q]
    /\ holds' = [holds EXCEPT ![q] = @ \cup {s}]
    /\ Unmoved

WorldInit ==
    /\ KernelInit
    /\ \E h \in StartHolds :
         holds = [p \in Proc |-> IF status[p] \in Live THEN h[p] ELSE {}]

WorldStep ==
    \/ KernelStep /\ Inherit
    \/ \E p \in Proc, s \in Socket :
          Open(p, s) \/ Close(p, s) \/ \E q \in Proc : Pass(p, q, s)
=============================================================================
