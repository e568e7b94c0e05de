----------------------------- MODULE CommandLine ----------------------------
(***************************************************************************)
(* The commands of the CLI put together: run of src/src/cli/mod.rs     *)
(* reads the sockets, splits the command line into targets, and calls the   *)
(* batch or the scoped command, the listing or the inspection; `kick why`  *)
(* collects for itself.  A plain    *)
(* kill of one target is module SingleKill.                                *)
(***************************************************************************)
EXTENDS BatchKill, ListCommand, Inspect

CONSTANT BatchTargetsMax   \* BATCH_TARGETS_MAX

vars == <<worldVars, settleVars, commandVars, batchVars, scopedVars, whyVars, listVars, report>>
readVars == <<listVars, report>>

\* dedup_in_order: the first of each.
DistinctSelectors ==
    LET asked == invocation.selectors
        kept[n \in 0..Len(asked)] ==
            IF n = 0 THEN <<>>
            ELSE IF asked[n] \in ToSet(kept[n - 1]) THEN kept[n - 1]
            ELSE Append(kept[n - 1], asked[n])
    IN  kept[Len(asked)]

\* KillCommandArgs::targets
BadArguments ==
    \/ Len(DistinctSelectors) > BatchTargetsMax
    \/ Len(DistinctSelectors) > 1 /\ invocation.scope # "process"

Dispatch ==
    /\ step = "dispatch" /\ invocation.scope \in Kills
    /\ \/ /\ rows' = ViewNow
          /\ invocation' = [invocation EXCEPT !.selectors = DistinctSelectors]
          /\ IF BadArguments THEN Finish("InvalidArguments")
             ELSE /\ step' = IF invocation.scope = "process" THEN "batch" ELSE "scoped"
                  /\ UNCHANGED exit
          /\ UNCHANGED budget
       \/ Fault("collect") /\ Finish("Failure") /\ UNCHANGED <<rows, invocation>>
    /\ Unmoved
    /\ UNCHANGED <<holds, settleVars, unreadable, answered, signals, batchVars, scopedVars, whyVars, readVars>>

Command ==
    \/ Dispatch
    \/ BatchStep /\ UNCHANGED <<scopedVars, whyVars, readVars>>
    \/ ScopedStep /\ UNCHANGED <<batchVars, whyVars, readVars>>
    \/ SettleStep /\ UNCHANGED <<commandVars, batchVars, scopedVars, whyVars, readVars>>
    \/ WhyStep /\ UNCHANGED <<batchVars, scopedVars, readVars>>
    \/ ListStep /\ UNCHANGED <<batchVars, scopedVars, report>>
    \/ InspectStep /\ UNCHANGED <<batchVars, listVars>>

Over == step \in {"done", "died"}
World ==
    /\ ~Over
    /\ \/ WorldStep /\ UNCHANGED residue
       \/ (\E p, q \in Proc : Respawn(p, q)) /\ UNCHANGED residue
       \/ Expire
    /\ Watched
    /\ UNCHANGED <<commandVars, batchVars, scopedVars,
                   sight, attributed, stable, results, heldThen, readVars>>
Terminated == Over /\ UNCHANGED vars

Init == WorldInit /\ SettleInit /\ CommandInit /\ BatchInit /\ ScopedInit /\ WhyInit
        /\ ListInit /\ InspectInit
Next == Command \/ World \/ Terminated
Spec == Init /\ [][Next]_vars

-----------------------------------------------------------------------------
\* Properties

\* A confirmation is never asked for in vain: if nobody touched anything and
\* nothing failed since, a kill the user confirmed gets as far as signalling, for
\* the checks before the prompt are those after it (mod.rs 476-482, scoped.rs
\* 641-644).
ConfirmedGoesThrough ==
    Over /\ answered /\ budget = MaxDisturbances => \E p \in Proc : signals[p] > 0 \/ Forbidden(p)

\* The kill that follows an answer is the one the answer was given to.
HandoverMatches == HandoverIsConfirmed /\ ConfirmedGoesThrough

\* What the commands that only read say, each at the end of several reads, agrees
\* with what the world was when they read it: the verdicts and the exit code of
\* why, the notes and the exit code of list, and the report of inspect.
ReadingsHold == VerdictsHold /\ ListIsTrue /\ InspectIsTrue
=============================================================================
