------------------------------ MODULE MCRawKill -----------------------------
EXTENDS RawKill

\* The confirmed process t with a parent p that may reap it, and a process s that
\* may be given its number.
MCProc == {"t", "p", "s"}
MCPidOf == [q \in MCProc |-> IF q = "p" THEN 12 ELSE 11]
MCOutsidePid == [o \in {"init"} |-> 1]
MCStart ==
    {[status |-> [q \in MCProc |-> CASE q = "t" -> st [] q = "p" -> "running" [] OTHER -> "unborn"],
      parent |-> [q \in MCProc |-> IF q = "t" THEN "p" ELSE "init"],
      pgrp |-> [q \in MCProc |-> "g1"],
      name |-> [q \in MCProc |-> IF q = "s" THEN n ELSE "app"]] :
         st \in {"running", "stopped"}, n \in {"app", "other"}}
=============================================================================
