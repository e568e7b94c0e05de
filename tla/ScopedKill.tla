----------------------------- MODULE ScopedKill -----------------------------
(***************************************************************************)
(* `kick kill --tree` and `--group` on Unix up to the executor and after    *)
(* it: run_tree_kill_with and run_group_kill_with of src/src/cli/scoped.rs, *)
(* with the previews of src/src/tree/plan.rs.                              *)
(*                                                                         *)
(* The user confirms a root and what a snapshot of the process table shows  *)
(* below it.  kick then pins the root, reads the rows and the table again,  *)
(* runs every gate of the preview on them, and hands over to the executor   *)
(* (module FreezeKill), which appears here by what it promises.             *)
(***************************************************************************)
EXTENDS KillCommand

CONSTANTS
    GroupYesSkipMax   \* GROUP_YES_SKIP_MAX_PROCESSES

ASSUME ScopedKillAssumption == GroupYesSkipMax \in Nat

VARIABLES
    table,       \* the snapshot of the process table last read
    confirmed,   \* the root shown, its group, and its selector's target
    auth,        \* ScopeAuthorization
    pin          \* the incarnation the root's pidfd pins

scopedVars == <<table, confirmed, auth, pin>>

ByGroup == invocation.scope = "group"
TheSelector == invocation.selectors[1]

-----------------------------------------------------------------------------
\* Plans: plan_process_tree and plan_process_group

\* TreeProcessInfo of every process, by number.  How one look may be torn is the
\* subject of module FreezeKill.
NoTable == [pid \in {} |-> NoProc]
TableNow == [pid \in PresentPids |->
    LET p == Occupant(pid)
    IN  [who |-> p, name |-> name[p], parent |-> ParentPid(p), group |-> pgrp[p]]]

\* The numbers reached from root over parent links, n links down.
Below[n \in Nat] ==
    [root \in DOMAIN table |->
        IF n = 0 THEN {root}
        ELSE LET above == Below[n - 1][root]
             IN  above \cup {pid \in DOMAIN table : table[pid].parent \in above}]

TreeOf(root) == Below[Cardinality(DOMAIN table)][root]
GroupOf(root) == {pid \in DOMAIN table : table[pid].group = table[root].group}
Members(root) == IF ByGroup THEN GroupOf(root) ELSE TreeOf(root)

IsProtected(pid) == table[pid].name \in Protected

\* preflight_outcome, in its order: the members past the cap, numbers never to be
\* signalled, and protected members other than the root.
Preflight(root) ==
    IF Cardinality(Members(root)) > MemberCap THEN "Truncated"
    ELSE IF Members(root) \cap Unsafe # {} THEN "UnsafePid"
    ELSE IF \E pid \in Members(root) \ {root} : IsProtected(pid) THEN "ProtectedDescendant"
    ELSE "none"

\* tree_yes_skip_allowed, group_yes_skip_allowed
SkipAllowed(root) ==
    /\ ~\E pid \in Members(root.pid) : Warned(table[pid].name, table[pid].parent)
    /\ ~root.warned
    /\ ByGroup => Cardinality(Members(root.pid)) <= GroupYesSkipMax

\* tree_refusal_exit_reason and scoped_preflight_refusal
ExitOfRefusal == [Truncated |-> "Failure", UnsafePid |-> "Failure", TargetChanged |-> "Failure",
             SnapshotFailed |-> "Failure", FreshConfirmationRequired |-> "Failure",
             ProtectedDescendant |-> "ProtectedNeedsConfirmation",
             ProtectedRoot |-> "ProtectedNeedsConfirmation",
             ProtectedProcess |-> "ProtectedNeedsConfirmation",
             PermissionDenied |-> "PermissionDenied", OwnershipUnavailable |-> "PermissionDenied",
             RootAlreadyExited |-> "NoMatch"]

-----------------------------------------------------------------------------
\* Preview and confirmation

ReadTable ==
    /\ step = "scoped"
    /\ \/ table' = TableNow /\ step' = "preview" /\ UNCHANGED <<exit, budget>>
       \/ Fault("collect") /\ Finish("Failure") /\ UNCHANGED table
    /\ Unmoved
    /\ UNCHANGED <<holds, settleVars, invocation, unreadable, rows, answered, signals,
                   confirmed, auth, pin>>

\* kill_target_from_tree_info: a root without ports.
TargetOfRow(pid) ==
    [pid |-> pid, who |-> table[pid].who, name |-> table[pid].name, endpoints |-> {},
     protected |-> IsProtected(pid), warned |-> Warned(table[pid].name, table[pid].parent)]

\* resolve_scoped_kill_root: by its rows, or for a PID without any by the table.
Portless == TheSelector.by = "pid" /\ Unresolved(rows, TheSelector) = "NoMatch"
RootProblem ==
    IF Unprovable(rows, TheSelector) THEN "PermissionDenied"
    ELSE IF Portless THEN IF TheSelector.pid \in DOMAIN table THEN "none" ELSE "NoMatch"
    ELSE IF Unresolved(rows, TheSelector) # "none" THEN Unresolved(rows, TheSelector)
    ELSE IF ResolvedTarget(rows, TheSelector).pid \notin DOMAIN table THEN "NoMatch"
    ELSE "none"
Root == IF Portless THEN TargetOfRow(TheSelector.pid) ELSE ResolvedTarget(rows, TheSelector)

\* A root is protected if either reader says so.
RootProtected(root) == root.protected \/ IsProtected(root.pid)

Preview ==
    /\ step = "preview"
    /\ IF RootProblem # "none" THEN Finish(RootProblem) /\ UNCHANGED <<confirmed, auth, answered>>
       ELSE IF Preflight(Root.pid) # "none"
       THEN Finish(ExitOfRefusal[Preflight(Root.pid)]) /\ UNCHANGED <<confirmed, auth, answered>>
       ELSE IF RootProtected(Root) /\ invocation.yes
       THEN Finish("ProtectedNeedsConfirmation") /\ UNCHANGED <<confirmed, auth, answered>>
       ELSE /\ confirmed' = [root |-> Root, group |-> table[Root.pid].group]
            /\ auth' = IF RootProtected(Root) THEN "protectedTyped"
                       ELSE IF invocation.yes /\ SkipAllowed(Root) THEN "skipped" ELSE "typed"
            /\ step' = IF auth' = "skipped" THEN "pin" ELSE "scopedPrompt"
            /\ answered' = (auth' = "skipped")
            /\ UNCHANGED exit
    /\ UNCHANGED <<worldVars, settleVars, invocation, unreadable, rows, signals, table, pin>>

\* The words asked for, one or two: all of them are typed, or nothing happens.
ScopedConfirm ==
    /\ step = "scopedPrompt"
    /\ \/ step' = "pin" /\ answered' = TRUE /\ UNCHANGED <<exit, budget>>
       \/ Finish("KillCancelled") /\ UNCHANGED <<answered, budget>>
       \/ Fault("prompt") /\ Finish("Failure") /\ UNCHANGED answered
    /\ Unmoved
    /\ UNCHANGED <<holds, settleVars, invocation, unreadable, rows, signals, scopedVars>>

-----------------------------------------------------------------------------
\* Pin and revalidation

\* map_scoped_outcome of a refusal: of a root that exited its ports are looked at.
Refuse(outcome) ==
    IF outcome = "RootAlreadyExited"
    THEN /\ step' = "settle" /\ exit' = "NoMatch"
         /\ Settle({}, confirmed.root.endpoints)
    ELSE Finish(ExitOfRefusal[outcome]) /\ UNCHANGED settleVars

PinRoot ==
    /\ step = "pin"
    /\ pin' = Occupant(confirmed.root.pid)
    /\ IF pin' = NoProc THEN Refuse("RootAlreadyExited")
       ELSE /\ step' = IF confirmed.root.endpoints = {} THEN "recheckTable" ELSE "recheckRows"
            /\ UNCHANGED <<exit, settleVars>>
    /\ UNCHANGED <<worldVars, invocation, unreadable, rows, answered, signals,
                   table, confirmed, auth>>

\* revalidate_cli_target: only a root that was shown with ports.
RecheckRows ==
    /\ step = "recheckRows"
    /\ \/ /\ rows' = ViewNow
          /\ LET objection == Objection(rows', TheSelector, confirmed.root)
             IN  IF objection # "none" THEN Refuse(objection)
                 ELSE step' = "recheckTable" /\ UNCHANGED <<exit, settleVars>>
          /\ UNCHANGED budget
       \/ Fault("collect") /\ Refuse("SnapshotFailed") /\ UNCHANGED rows
    /\ Unmoved
    /\ UNCHANGED <<holds, invocation, unreadable, answered, signals, scopedVars>>

\* revalidate_portless_tree_root: the row of the root as it is read now.
RootChanged ==
    /\ confirmed.root.endpoints = {}
    /\ LET row == table[confirmed.root.pid]
       IN  row.who # confirmed.root.who \/ row.name # confirmed.root.name

\* fresh_tree_gates and fresh_group_gates, then what they hand over.
FreshRoot == IF confirmed.root.endpoints = {} THEN TargetOfRow(confirmed.root.pid)
             ELSE ResolvedTarget(rows, TheSelector)
GroupUnchecked == FALSE
GroupChanged == ByGroup /\ table[confirmed.root.pid].group # confirmed.group

Gate ==
    LET pid == confirmed.root.pid
    IN  IF pid \notin DOMAIN table THEN "RootAlreadyExited"
        ELSE IF RootChanged THEN "TargetChanged"
        ELSE IF confirmed.root.endpoints = {} /\ IsProtected(pid) /\ ~confirmed.root.protected
        THEN "ProtectedRoot"
        ELSE IF GroupChanged THEN "TargetChanged"
        ELSE IF Preflight(pid) # "none" THEN Preflight(pid)
        ELSE IF IsProtected(pid) /\ auth # "protectedTyped" THEN "ProtectedRoot"
        ELSE IF auth = "skipped" /\ ~SkipAllowed(FreshRoot) THEN "FreshConfirmationRequired"
        ELSE "none"

RecheckTable ==
    /\ step = "recheckTable"
    /\ \/ table' = TableNow /\ step' = "gates" /\ UNCHANGED <<exit, settleVars, budget>>
       \/ Fault("collect") /\ Refuse("SnapshotFailed") /\ UNCHANGED table
    /\ Unmoved
    /\ UNCHANGED <<holds, invocation, unreadable, rows, answered, signals, confirmed, auth, pin>>

RunGates ==
    /\ step = "gates"
    /\ IF Gate = "none" THEN step' = "execute" /\ UNCHANGED <<exit, settleVars>>
       ELSE Refuse(Gate)
    /\ UNCHANGED <<worldVars, invocation, unreadable, rows, answered, signals, scopedVars>>

-----------------------------------------------------------------------------
\* The executor, by its promise (modules KillPromise and FreezeKill): it signals
\* all of the scope, leaving out who refuses, or nobody.

Scope == {p \in Proc : Alive(p) /\ IF ByGroup THEN pgrp[p] = confirmed.group
                                    ELSE Descends(p, confirmed.root.who)}
Denied == {p \in Scope : Forbidden(p)}

\* map_scoped_outcome: ports are only looked at if every member got the signal.
Execute ==
    /\ step = "execute" /\ settling = "idle"
    /\ \/ /\ Alive(pin) /\ step' = "settle"
          /\ Send(Scope \ Denied)
          /\ exit' = IF Denied = {} THEN "Success" ELSE "PermissionDenied"
          /\ Settle(Scope \ Denied, IF Denied = {} THEN FreshRoot.endpoints ELSE {})
          /\ UNCHANGED budget
       \/ /\ ~Alive(pin) /\ Refuse("RootAlreadyExited") /\ UNCHANGED <<worldVars, signals>>
       \/ /\ \/ budget < MaxDisturbances /\ UNCHANGED budget
             \/ Fault("interrupt")
          /\ Unmoved /\ UNCHANGED <<holds, signals>>
          /\ \E why \in {"TargetChanged", "PermissionDenied", "ProtectedDescendant"} : Refuse(why)
    /\ UNCHANGED <<invocation, unreadable, rows, answered, scopedVars>>

ScopedReport ==
    /\ step = "settle" /\ settling = "settled" /\ exit # "none" /\ Finish(exit)
    /\ UNCHANGED <<worldVars, settleVars, invocation, unreadable, rows, answered, signals,
                   scopedVars>>

ScopedStep ==
    \/ ReadTable \/ Preview \/ ScopedConfirm \/ PinRoot \/ RecheckRows \/ RecheckTable
    \/ RunGates \/ Execute \/ ScopedReport

ScopedInit ==
    /\ table = NoTable /\ auth = "none" /\ pin = NoProc
    /\ confirmed = [root |-> [pid |-> 0], group |-> 0]

-----------------------------------------------------------------------------
\* Properties

\* What module FreezeKill starts from holds when the executor is called: the
\* pidfd pins the very process the user confirmed, whoever had its number at any
\* time since; and while that process lives its group is the group confirmed, and
\* what the last look at the table shows is covered by the answer given: --yes
\* for nothing that needs a prompt, a protected root only if its own words were
\* typed, no other protected process at all (scoped.rs 597-640, 1262-1313).
HandoverIsConfirmed ==
    step = "execute" =>
        LET root == confirmed.root
            shown == {table[pid] : pid \in Members(root.pid)}
        IN  /\ pin = root.who
            /\ Alive(pin) =>
                 /\ table[root.pid].who = pin
                 /\ ByGroup => table[root.pid].group = confirmed.group
            /\ \A row \in shown : row.name \in Protected =>
                    row = table[root.pid] /\ auth = "protectedTyped"
            /\ auth = "skipped" => \A row \in shown : ~Warned(row.name, row.parent)
=============================================================================
