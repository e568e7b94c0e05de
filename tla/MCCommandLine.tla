---------------------------- MODULE MCCommandLine ---------------------------
EXTENDS CommandLine

\* Two servers r and b; c is a child of r; x may take over r's number.
MCProc == {"r", "b", "c", "x"}
MCPidOf == [p \in MCProc |-> CASE p = "b" -> 13 [] p = "c" -> 12 [] OTHER -> 11]
MCOutside == {"init", "shell"}
MCOutsidePid == [o \in MCOutside |-> IF o = "init" THEN 1 ELSE 5]

MCStart == {[status |-> [p \in MCProc |-> IF p = "x" THEN "unborn" ELSE "running"],
             parent |-> [p \in MCProc |-> IF p = "c" THEN "r" ELSE "shell"],
             pgrp   |-> [p \in MCProc |-> IF p = "b" THEN 13 ELSE 11],
             name   |-> [p \in MCProc |-> CASE p = "r" -> n.r [] p = "c" -> n.c [] OTHER -> n.b]] :
                n \in {[r |-> "app", c |-> "app", b |-> "app"],
                       [r |-> "guard", c |-> "app", b |-> "app"],
                       [r |-> "app", c |-> "guard", b |-> "suid"]}}

\* r listens on two ports, b on another; any of them may come to be shared.  The
\* kernel may hold a few sockets itself.
MCTcp(address, port, scope) ==
    [protocol |-> "tcp", address |-> address, port |-> port, scope |-> scope]
MCAny(port) == MCTcp("0.0.0.0", port, "none")
MCEndpointOf == [s \in {"s", "t", "u"} |->
                    CASE s = "s" -> MCAny(80) [] s = "t" -> MCTcp("127.0.0.1", 81, "none")
                      [] OTHER -> MCAny(90)]
MCKernelSocket == {[at |-> MCTcp("127.0.0.1", 81, "none"), state |-> "TimeWait"],
                   [at |-> MCTcp("fe80::1", 90, "unavailable"), state |-> "Listen"],
                   [at |-> MCTcp("::", 90, "unscoped"), state |-> "Listen"]}
MCEndpoint == {MCEndpointOf[s] : s \in {"s", "t", "u"}} \cup {k.at : k \in MCKernelSocket}
MCPortOf == [e \in MCEndpoint |-> e.port]
MCStartHolds == {[p \in MCProc |-> CASE p = "r" -> {"s", "t"} [] p = "b" -> {"u"} [] OTHER -> {}]}

MCAddress == {"127.0.0.1", "0.0.0.0", "::1", "::", "fe80::1"}
MCV6 == {"::1", "::", "fe80::1"}
MCWildcard == {"0.0.0.0", "::"}
MCWhy(port, addresses, interface, mode, reuse) ==
    [scope |-> "why", port |-> port, protocols |-> <<"tcp">>, addresses |-> addresses,
     interface |-> interface, mode |-> mode, reuse |-> reuse]
MCBothProtocols(asked) == [asked EXCEPT !.protocols = <<"tcp", "udp">>]
MCWhys == {
    MCBothProtocols(MCWhy(80, <<"127.0.0.1">>, "none", "SystemDefault", FALSE)),
    MCWhy(81, <<"127.0.0.1", "0.0.0.0", "::1", "::">>, "none", "SystemDefault", TRUE),
    MCWhy(81, <<"127.0.0.1", "::1">>, "none", "V6Only", FALSE),
    MCWhy(90, <<"127.0.0.1", "0.0.0.0">>, "none", "SystemDefault", FALSE),
    MCWhy(90, <<"::1">>, "none", "DualStack", FALSE),
    MCWhy(90, <<"fe80::1">>, "eth0", "V6Only", FALSE),
    MCWhy(90, <<"127.0.0.1">>, "eth0", "SystemDefault", FALSE)}

\* A typed text is the set of the texts here that contain it.
MCList(port, terms, sort, hide, output) ==
    [scope |-> "list", port |-> port, process |-> {}, anyProcess |-> TRUE, terms |-> terms,
     sort |-> sort, hideSystem |-> hide, output |-> output]
MCTerm(field, value) == [field |-> field, value |-> value]
MCListOf(process, terms, sort) ==
    [MCList(0, terms, sort, FALSE, "table") EXCEPT !.process = process, !.anyProcess = FALSE]
MCPlain8 == MCTerm("plain", {"80", "81"})
MCLists == {
    MCList(90, <<>>, "port", FALSE, "table"),
    MCList(0, <<MCPlain8, MCTerm("scope", "public")>>, "pid", TRUE, "table"),
    MCList(0, <<MCTerm("scope_id", "eth0"), MCTerm("family", "ipv4")>>, "port", FALSE, "json"),
    MCList(0, <<MCTerm("parent", {"app", "5"}), MCTerm("proto", "tcp")>>, "parent", FALSE, "table"),
    MCList(0, <<MCTerm("protected", TRUE), MCTerm("pid", 11), MCTerm("family", "ipv4")>>,
           "scope", FALSE, "json"),
    MCList(0, <<MCTerm("port", 81), MCTerm("address", "127.0.0.1")>>, "protocol", FALSE, "table"),
    MCListOf({"app"}, <<>>, "process"),
    MCList(0, <<>>, "process", TRUE, "snapshot")}
MCCollation == <<"app", "guard", "suid", "0.0.0.0", "127.0.0.1", "::", "::1", "fe80::1">>

MCPid11 == [by |-> "pid", pid |-> 11]
MCPid12 == [by |-> "pid", pid |-> 12]
MCPid13 == [by |-> "pid", pid |-> 13]
MCPort80 == [by |-> "port", port |-> 80]
MCPort81 == [by |-> "port", port |-> 81]
MCPort90 == [by |-> "port", port |-> 90]
MCKill(selectors, scope, force, yes) ==
    [selectors |-> selectors, scope |-> scope, force |-> force, yes |-> yes]
MCInspect(selector) == [scope |-> "inspect", selector |-> selector]
MCInspects == {MCInspect(MCPort80), MCInspect(MCPort90), MCInspect(MCPid11), MCInspect(MCPid12)}
MCDisplayMax == [section \in {"ancestors", "siblings", "tree", "group"} |->
                    IF section = "siblings" THEN 1 ELSE 2]
MCInvocations == MCWhys \cup MCLists \cup MCInspects \cup {
    MCKill(<<MCPort80, MCPort90>>, "process", FALSE, FALSE),
    MCKill(<<MCPort90, MCPort80, MCPort81, MCPort90>>, "process", TRUE, TRUE),
    MCKill(<<MCPid13, MCPid11>>, "process", FALSE, TRUE),
    MCKill(<<MCPid11, MCPid12>>, "tree", FALSE, FALSE),
    MCKill(<<MCPort80>>, "tree", FALSE, FALSE),
    MCKill(<<MCPid12>>, "tree", TRUE, FALSE),
    MCKill(<<MCPid11>>, "tree", TRUE, TRUE),
    MCKill(<<MCPid11>>, "group", FALSE, TRUE),
    MCKill(<<MCPid12>>, "group", FALSE, FALSE)}
=============================================================================
