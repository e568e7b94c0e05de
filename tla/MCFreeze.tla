------------------------------ MODULE MCFreeze ------------------------------
EXTENDS FreezeKill

MCPid == 11..14
MCOutside == {"init", "shell"}
MCOutsidePid == [o \in MCOutside |-> IF o = "init" THEN 1 ELSE 2]

-----------------------------------------------------------------------------
\* Root 11, its child 12, and a grandchild 13.  The number 14 is free for a
\* fork; u may take over 13, and v 11.
TreeProc == {"r", "d", "c", "g", "u", "v"}
TreePidOf == [p \in TreeProc |-> CASE p \in {"r", "v"} -> 11 [] p = "d" -> 12
                                   [] p \in {"c", "u"} -> 13 [] p = "g" -> 14]

\* A chain started from a shell whose leaf runs, or is already stopped.
TreeTable(leafStatus) ==
    [status |-> [p \in TreeProc |-> CASE p \in {"r", "d"} -> "running" [] p = "c" -> leafStatus
                                      [] OTHER -> "unborn"],
     parent |-> [p \in TreeProc |-> CASE p = "d" -> "r" [] p = "c" -> "d" [] OTHER -> "shell"],
     pgrp   |-> [p \in TreeProc |-> 11],
     name   |-> [p \in TreeProc |-> "app"]]
TreeStart == {TreeTable(s) : s \in {"running", "stopped"}}

\* The leaf has exited and its parent has not waited for it.
ZombieStart == {TreeTable("zombie")}

TreeRequests == {[scope |-> "tree", mode |-> "terminate", auth |-> "skipped"],
                 [scope |-> "tree", mode |-> "force", auth |-> "protectedTyped"]}

-----------------------------------------------------------------------------
\* A pipeline in group 11: the confirmed root 11 and its child 12.  13 is free
\* for a process that joins; u may take over 12.  kick itself is 14, in a group
\* of its own or in the group it is asked to kill.
GroupProc == {"r", "m", "x", "u", "kick"}
GroupPidOf == [p \in GroupProc |-> CASE p = "r" -> 11 [] p \in {"m", "u"} -> 12
                                     [] p = "x" -> 13 [] p = "kick" -> 14]

GroupTable(memberStatus, ownGroup) ==
    [status |-> [p \in GroupProc |-> CASE p \in {"r", "kick"} -> "running"
                                       [] p = "m" -> memberStatus [] OTHER -> "unborn"],
     parent |-> [p \in GroupProc |-> IF p = "m" THEN "r" ELSE "shell"],
     pgrp   |-> [p \in GroupProc |-> IF p = "kick" THEN ownGroup ELSE 11],
     name   |-> [p \in GroupProc |-> "app"]]
GroupStart == {GroupTable("running", 99), GroupTable("stopped", 11)}

GroupRequests == {[scope |-> "group", mode |-> "terminate", auth |-> "skipped"],
                  [scope |-> "group", mode |-> "terminate", auth |-> "typed"],
                  [scope |-> "group", mode |-> "force", auth |-> "typed"]}
=============================================================================
