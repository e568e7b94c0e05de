------------------------------ MODULE MCJobTree ------------------------------
EXTENDS WinCommands

\* A root r with a child c; g and h may be started by either of them; x is
\* somebody else's process and may be given the number of c.
MCProc == {"r", "c", "g", "h", "x"}
MCPidOf == [p \in MCProc |-> CASE p = "r" -> 11 [] p \in {"c", "x"} -> 12 [] p = "g" -> 13
                             [] p = "h" -> 14]
MCStart == {[status |-> [p \in MCProc |-> IF p \in {"r", "c"} THEN "running" ELSE "unborn"],
             parent |-> [p \in MCProc |-> IF p = "c" THEN "r" ELSE "outside"],
             name   |-> [p \in MCProc |-> CASE p = "r" -> n [] p = "g" -> m [] OTHER -> "app"]] :
                n \in {"app", "guard"}, m \in {"app", "guard", "svchost", "sealed"}}
=============================================================================
