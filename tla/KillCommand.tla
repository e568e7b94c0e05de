----------------------------- MODULE KillCommand ----------------------------
(***************************************************************************)
(* What the commands of `kick kill` share (src/src/cli/mod.rs, cli/kill.rs, *)
(* process.rs): the invocation, the process a selector names, and how a      *)
(* refusal exits.                                                          *)
(***************************************************************************)
EXTENDS Settle, KillTargets, Sequences

CONSTANT Invocations   \* the command lines to consider

Kills == {"process", "tree", "group"}
Selector == [by : {"pid"}, pid : Pid] \cup [by : {"port"}, port : Port]
Invocation == [selectors : Seq(Selector), scope : Kills,
               force : BOOLEAN, yes : BOOLEAN]

\* The other commands read and kill nothing: modules Why, ListCommand and Inspect.  A
\* kill names numbers or ports, never both (the argument group of KillCommandArgs);
\* one that comes to a single process is module SingleKill.
ASSUME KillCommandAssumption ==
    \A asked \in {some \in Invocations : some.scope \in Kills} :
        /\ asked \in Invocation /\ asked.selectors # <<>>
        /\ \A i, j \in DOMAIN asked.selectors : asked.selectors[i].by = asked.selectors[j].by
        /\ asked.scope = "process" =>
             \E i, j \in DOMAIN asked.selectors : asked.selectors[i] # asked.selectors[j]

VARIABLES
    invocation,    \* KillCommandArgs
    step,          \* the next step of the command
    rows,          \* the socket snapshot the command works from
    answered,      \* the user confirmed, or --yes did
    exit           \* ExitReason

commandVars == <<invocation, unreadable, step, rows, answered, exit, signals>>

ExitReasons == {"none", "Success", "KillCancelled", "NoMatch", "ProtectedNeedsConfirmation",
                "PermissionDenied", "InvalidArguments", "Failure"}

Finish(reason) == step' = "done" /\ exit' = reason

-----------------------------------------------------------------------------
\* resolve_kill_target

TheOwner(edges) == CHOOSE pid \in OwnersOf(edges) : TRUE

HiddenOn(view, sel) == sel.by = "port" /\ \E e \in view.hidden : PortOf[e] = sel.port

\* Why a selector names no process to kill, or "none".
SoleOwner(edges) == Cardinality(OwnersOf(edges)) = 1

Unresolved(view, sel) ==
    LET edges == RowsOf(view, sel)
    IN  IF sel.by = "pid" /\ sel.pid \in Unsafe THEN "Failure"
        ELSE IF HiddenOn(view, sel) THEN "PermissionDenied"
        ELSE IF edges = {} THEN "NoMatch"
        ELSE IF ~SoleOwner(edges) THEN "Failure"
        ELSE IF TheOwner(edges) \in Unsafe THEN "Failure"
        ELSE "none"

ResolvedTarget(view, sel) ==
    LET edges == RowsOf(view, sel) IN TargetFrom(view, TheOwner(edges), edges)

\* unprovable_port_kill_message: before any prompt, a port whose owner cannot be
\* proved to be its only holder.  Other refusals keep their own words.
Unprovable(view, sel) ==
    LET edges == RowsOf(view, sel)
    IN  /\ unreadable /\ sel.by = "port" /\ SoleOwner(edges)
        /\ TheOwner(edges) \notin Unsafe
        /\ ~(invocation.yes /\ ResolvedTarget(view, sel).protected)

-----------------------------------------------------------------------------
\* revalidate_cli_target over the rows of a fresh snapshot, which the gate of
\* module KillPorts lets through or refuses.

Objection(view, sel, confirmed) ==
    IF unreadable /\ sel.by = "port" THEN "OwnershipUnavailable"
    ELSE IF Unresolved(view, sel) # "none"
    THEN IF RowsOf(view, sel) # {} /\ SoleOwner(RowsOf(view, sel)) THEN "UnsafePid"
         ELSE "TargetChanged"
    ELSE IF ~StillMatches(confirmed, ResolvedTarget(view, sel)) THEN "TargetChanged"
    ELSE IF ResolvedTarget(view, sel).protected /\ ~confirmed.protected THEN "ProtectedProcess"
    ELSE "none"

-----------------------------------------------------------------------------
\* The signal of one delivery.

Signal == IF invocation.force THEN "KILL" ELSE "TERM"
Send(who) == Deliver(Signal, who)

CommandInit ==
    /\ TargetsInit /\ invocation \in Invocations
    /\ step = "dispatch" /\ exit = "none"
    /\ rows = NoView /\ answered = FALSE
=============================================================================
