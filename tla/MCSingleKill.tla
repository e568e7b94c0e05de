---------------------------- MODULE MCSingleKill ----------------------------
EXTENDS SingleKill

\* The server r; b may come to share its socket, x may take over its number.
MCProc == {"r", "b", "x"}
MCPidOf == [p \in MCProc |-> IF p = "b" THEN 12 ELSE 11]
MCOutsidePid == [o \in {"init"} |-> 1]

\* The server runs, or somebody stopped it before.
MCStart == {[status |-> [p \in MCProc |-> CASE p = "r" -> s [] p = "b" -> "running"
                                            [] OTHER -> "unborn"],
             parent |-> [p \in MCProc |-> "init"],
             pgrp   |-> [p \in MCProc |-> 11],
             name   |-> [p \in MCProc |-> n]] :
                s \in {"running", "stopped"}, n \in {"app", "db"}}

\* It listens on two ports.
MCEndpointOf == [s \in {"s", "t"} |-> IF s = "s" THEN "any:80" ELSE "any:81"]
MCPortOf == [e \in {"any:80", "any:81"} |-> IF e = "any:80" THEN 80 ELSE 81]
MCStartHolds == {[p \in MCProc |-> IF p = "r" THEN {"s", "t"} ELSE {}]}
MCVisible == {{}}
MCHidepid == {{"hidepid"}}

MCPort == [mode |-> "port", port |-> 80]
MCPid11 == [mode |-> "pid", pid |-> 11]
MCRequests ==
    {[target |-> MCPort, mode |-> "terminate", yes |-> FALSE, named |-> TRUE],
     [target |-> MCPort, mode |-> "force", yes |-> TRUE, named |-> TRUE],
     [target |-> MCPid11, mode |-> "force", yes |-> FALSE, named |-> FALSE],
     [target |-> MCPid11, mode |-> "terminate", yes |-> TRUE, named |-> FALSE]}
=============================================================================
