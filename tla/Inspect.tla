------------------------------- MODULE Inspect ------------------------------
(***************************************************************************)
(* `kick inspect`: run_inspect of src/src/cli/mod.rs and the report of      *)
(* inspect.rs.  It reads the sockets first and the process table after,     *)
(* while the world moves, and prints one report of both: a process's        *)
(* ancestors, siblings, descendants and group, with the ports of each.      *)
(***************************************************************************)
EXTENDS ScopedKill, Why

CONSTANT DisplayMax   \* ..._DISPLAY_MAX, by section

InspectInvocation == [scope : {"inspect"}, selector : Selector]

ASSUME InspectAssumption ==
    /\ {asked \in Invocations : asked.scope = "inspect"} \subseteq InspectInvocation
    /\ DisplayMax \in [{"ancestors", "siblings", "tree", "group"} -> Nat \ {0}]

VARIABLE report   \* the report printed

NoReport == [target |-> NoProc]

-----------------------------------------------------------------------------
\* Sections

UpTo(section, all) == SubSeq(all, 1, Min({Len(all), DisplayMax[section]}))
InOrder(pids) == SetToSortSeq(pids, <)

\* ancestor_chain: nearest first, no number twice, up to one the table has not.
ChainFrom[n \in Nat] ==
    [pid \in DOMAIN table |->
        LET above == table[pid].parent
        IN  IF n = 0 \/ above \notin DOMAIN table THEN <<>>
            ELSE <<above>> \o ChainFrom[n - 1][above]]
AncestorChain(pid) ==
    LET chain == ChainFrom[Cardinality(DOMAIN table)][pid]
        repeats == {i \in DOMAIN chain : chain[i] \in {pid} \cup {chain[j] : j \in 1..(i - 1)}}
    IN  SubSeq(chain, 1, Min(repeats \cup {Len(chain) + 1}) - 1)

Siblings(pid) ==
    InOrder({other \in DOMAIN table \ {pid} : table[other].parent = table[pid].parent})

\* ordered_tree_nodes: a parent before its children, those by number.
PreOrder[n \in Nat] ==
    [pid \in DOMAIN table |->
        LET children == InOrder({c \in DOMAIN table \ {pid} : table[c].parent = pid})
        IN  IF n = 0 THEN <<pid>>
            ELSE <<pid>> \o FlattenSeq([i \in DOMAIN children |-> PreOrder[n - 1][children[i]]])]
TreeNodes(pid) == UpTo("tree", PreOrder[Cardinality(DOMAIN table)][pid])

\* build_scope: whose ports are looked up.
ReportScope(pid) ==
    {pid} \cup ToSet(UpTo("ancestors", AncestorChain(pid))) \cup ToSet(UpTo("siblings", Siblings(pid)))
    \cup ToSet(TreeNodes(pid)) \cup ToSet(UpTo("group", InOrder(GroupOf(pid))))

\* project_legacy_identities and ports_by_pid: by identity, not by number.
SameNumber(k, pid) == pid \in k.verified
SameIdentity(k, pid) == pid \in k.verified /\ rows.who[pid] = table[pid].who
PortsOf(pid) == {k.at : k \in {open \in sight : SameIdentity(open, pid)}}

ReportOn(pid) ==
    LET tree == TreeNodes(pid)
    IN  [target |-> table[pid].who,
         ancestors |-> UpTo("ancestors", AncestorChain(pid)),
         siblings |-> UpTo("siblings", Siblings(pid)),
         tree |-> tree,
         group |-> UpTo("group", InOrder(GroupOf(pid))),
         ports |-> [shown \in {pid} \cup ToSet(tree) |->
                       IF shown \in ReportScope(pid) THEN PortsOf(shown) ELSE {}],
         \* members_outside_tree: whether a group kill is suggested
         outside |-> GroupOf(pid) \ TreeOf(pid)]

-----------------------------------------------------------------------------
\* The target: resolve_inspect_target, inspect_port_owner_matches_snapshot

OnPort(port) == {k \in sight : k.at.port = port /\ k.state # "TimeWait"}
OwnersOnPort(port) == UNION {k.owners : k \in OnPort(port)}

InspectProblem ==
    IF invocation.selector.by = "pid" THEN "none"
    ELSE LET port == invocation.selector.port
         IN  IF \E k \in OnPort(port) : k.owners = {} THEN "PermissionDenied"
             ELSE IF OnPort(port) = {} THEN "NoMatch"
             ELSE IF Cardinality(OwnersOnPort(port)) # 1 THEN "Failure"
             ELSE "none"
InspectedPid ==
    IF invocation.selector.by = "pid" THEN invocation.selector.pid
    ELSE CHOOSE pid \in OwnersOnPort(invocation.selector.port) : TRUE

StillTheOwner(pid) ==
    invocation.selector.by = "port" =>
        /\ pid \in DOMAIN table
        /\ \A k \in OnPort(invocation.selector.port) : SameIdentity(k, pid)

-----------------------------------------------------------------------------
\* The command

InspectCollect ==
    /\ step = "dispatch" /\ invocation.scope = "inspect"
    /\ \/ SeeSockets /\ rows' = ViewNow /\ step' = "inspect" /\ UNCHANGED exit
       \/ /\ Fault("collect") /\ Finish("Failure")
          /\ UNCHANGED <<rows, sight, attributed, stable, heldThen>>
    /\ Unmoved
    /\ UNCHANGED <<holds, settleVars, invocation, unreadable, answered, signals,
                   residue, results, scopedVars, report>>

InspectTable ==
    /\ step = "inspect"
    /\ \/ /\ InspectProblem # "none" /\ Finish(InspectProblem)
          /\ UNCHANGED <<table, budget>>
       \/ /\ InspectProblem = "none" /\ table' = TableNow /\ step' = "report"
          /\ UNCHANGED <<exit, budget>>
       \/ InspectProblem = "none" /\ Fault("table") /\ Finish("Failure") /\ UNCHANGED table
    /\ Unmoved
    /\ UNCHANGED <<holds, settleVars, invocation, unreadable, rows, answered, signals,
                   whyVars, confirmed, auth, pin, report>>

InspectReport ==
    /\ step = "report"
    /\ IF ~StillTheOwner(InspectedPid) \/ InspectedPid \notin DOMAIN table
       THEN Finish("NoMatch") /\ UNCHANGED <<report, budget>>
       ELSE \/ Finish("Success") /\ report' = ReportOn(InspectedPid) /\ UNCHANGED budget
            \/ Fault("pipe") /\ Finish("Success") /\ UNCHANGED report
            \/ Fault("output") /\ Finish("Failure") /\ UNCHANGED report
    /\ Unmoved
    /\ UNCHANGED <<holds, settleVars, invocation, unreadable, rows, answered, signals,
                   whyVars, scopedVars>>

InspectStep == InspectCollect \/ InspectTable \/ InspectReport

InspectInit == report = NoReport

-----------------------------------------------------------------------------
\* Properties

\* A report made of two reads is about one set of processes.  Asked by port, it is
\* of the process that held the port when the sockets were read, whoever has its
\* number in the table; the ports beside a number were held by the very process
\* whose family is shown there, and none that kick could verify is missing; and
\* nobody is shown below a parent the report leaves out (mod.rs 753-781,
\* inspect.rs 628-651).
InspectIsTrue ==
    report # NoReport =>
        LET heldBy(p) == {EndpointOf[e[1]] : e \in {h \in heldThen : h[1] \in Listening /\ h[2] = p}}
        IN  /\ invocation.selector.by = "port" =>
                 \E at \in heldBy(report.target) : PortOf[at] = invocation.selector.port
            /\ \A pid \in DOMAIN report.ports :
                 LET p == table[pid].who
                     unverified == {k.at : k \in {s \in sight : s.owners # s.verified}}
                 IN  /\ report.ports[pid] \subseteq heldBy(p)
                     /\ (unreadable => rows.named[p] \notin Foreign) =>
                           heldBy(p) \ unverified \subseteq report.ports[pid]
            /\ \A i \in 2..Len(report.tree) :
                 \E j \in 1..(i - 1) : report.tree[j] = table[report.tree[i]].parent
=============================================================================
