---------------------------- MODULE MCObservation ----------------------------
EXTENDS KillPorts

\* Two servers that share a socket; x may take over the number of the first.
MCProc == {"a", "b", "x"}
MCPidOf == [p \in MCProc |-> IF p = "b" THEN 12 ELSE 11]

MCOutsidePid == [o \in {"init"} |-> 1]

MCStart == {[status |-> [p \in MCProc |-> IF p = "x" THEN "unborn" ELSE "running"],
             parent |-> [p \in MCProc |-> "init"],
             pgrp   |-> [p \in MCProc |-> 11],
             name   |-> [p \in MCProc |-> "app"]]}

\* Two listeners on port 80, at different addresses.
MCEndpointOf == [s \in {"s1", "s2"} |-> IF s = "s2" THEN "any:80" ELSE "lo:80"]
MCPortOf == [e \in {"any:80", "lo:80"} |-> 80]
MCStartHolds ==
    {[p \in MCProc |-> CASE p = "a" -> {"s1"} [] p = "b" -> {"s1", "s2"} [] OTHER -> {}]}

MCBlinds == {{}, {"hidepid", "namespace"}}
=============================================================================
