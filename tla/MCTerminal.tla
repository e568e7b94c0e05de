----------------------------- MODULE MCTerminal -----------------------------
EXTENDS TerminalSession

\* A server r with a child c; x may take over r's number, and its port.
MCProc == {"r", "c", "x"}
MCPidOf == [p \in MCProc |-> IF p = "c" THEN 12 ELSE 11]
MCOutside == {"init", "shell"}
MCOutsidePid == [o \in MCOutside |-> IF o = "init" THEN 1 ELSE 5]
MCStart == {[status |-> [p \in MCProc |-> IF p = "x" THEN "unborn" ELSE "running"],
             parent |-> [p \in MCProc |-> IF p = "c" THEN "r" ELSE "shell"],
             pgrp   |-> [p \in MCProc |-> 11],
             name   |-> [p \in MCProc |-> "app"]]}

MCEndpointOf == [s \in {"s", "t"} |-> IF s = "s" THEN "any:80" ELSE "any:81"]
MCPortOf == [e \in {"any:80", "any:81"} |-> IF e = "any:80" THEN 80 ELSE 81]
MCStartHolds == {[p \in MCProc |-> CASE p = "r" -> {"s"} [] p = "c" -> {"t"} [] OTHER -> {}]}
=============================================================================
