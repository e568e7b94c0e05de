------------------------------ MODULE BatchKill -----------------------------
(***************************************************************************)
(* `kick kill` with several targets: run_batch_kill_with of                 *)
(* src/src/cli/kill/batch.rs.                                              *)
(*                                                                         *)
(* The targets share one snapshot, one confirmation, one fresh snapshot and *)
(* one report; each keeps its own handle, revalidation and outcome.  What   *)
(* one delivery does is what module SingleKill shows of it, in one step.    *)
(***************************************************************************)
EXTENDS KillCommand, SequencesExt

VARIABLES
    plan,       \* the processes to kill: KillTarget, selector and extra ports
    pins,       \* what the handle of each target pins
    fresh,      \* the one fresh snapshot of all of them
    outcomes,   \* TerminationOutcome of each target
    at          \* the next target

batchVars == <<plan, pins, fresh, outcomes, at>>

Outcomes == {"none", "Success", "AlreadyExited", "PermissionDenied", "OwnershipUnavailable",
             "TargetChanged", "UnsafePid", "ProtectedProcess", "UnknownFailure"}

\* exit_reason_for_outcome
ExitOf == [o \in Outcomes |->
    CASE o = "Success" -> "Success"
      [] o \in {"PermissionDenied", "OwnershipUnavailable"} -> "PermissionDenied"
      [] o \in {"AlreadyExited", "TargetChanged"} -> "NoMatch"
      [] o = "ProtectedProcess" -> "ProtectedNeedsConfirmation"
      [] OTHER -> "Failure"]

\* aggregate_exit: the most serious of them, in this order.
Severity == <<"Success", "KillCancelled", "NoMatch", "ProtectedNeedsConfirmation",
              "PermissionDenied", "InvalidArguments", "Failure">>
FirstReason(reasons) == CHOOSE r \in reasons : TRUE
Aggregate(reasons) ==
    Severity[Max({i \in DOMAIN Severity : Severity[i] \in reasons} \cup {1})]

-----------------------------------------------------------------------------
\* plan: everything is resolved against the first snapshot, and one refusal
\* stops the whole batch.

RefusalOf(sel) ==
    IF Unprovable(rows, sel) THEN "PermissionDenied"
    ELSE IF Unresolved(rows, sel) # "none" THEN Unresolved(rows, sel)
    ELSE IF ResolvedTarget(rows, sel).protected THEN "ProtectedNeedsConfirmation"
    ELSE "none"

Refusals == {RefusalOf(invocation.selectors[i]) : i \in DOMAIN invocation.selectors} \ {"none"}

\* A later selector of a process already planned only adds ports to poll.
Planned(sel) == [target |-> ResolvedTarget(rows, sel), by |-> sel, extra |-> {}]
Position(known, pid) == {i \in DOMAIN known : known[i].target.pid = pid}
AddOnce(known, sel) ==
    IF Position(known, Planned(sel).target.pid) = {} THEN Append(known, Planned(sel)) ELSE known
AddTarget(known, sel) ==
    LET pid == Planned(sel).target.pid
    IN  IF Position(known, pid) = {} THEN Append(known, Planned(sel))
        ELSE [i \in DOMAIN known |->
                IF i \in Position(known, pid)
                THEN [known[i] EXCEPT !.extra = @ \cup Planned(sel).target.endpoints]
                ELSE known[i]]

PlanOf(asked) ==
    LET known[n \in 0..Len(asked)] ==
            IF n = 0 THEN <<>> ELSE AddTarget(known[n - 1], asked[n])
    IN  known[Len(asked)]

BatchPlan ==
    /\ step = "batch"
    /\ IF Refusals # {} THEN Finish(Aggregate(Refusals)) /\ UNCHANGED plan
       ELSE /\ plan' = PlanOf(invocation.selectors)
            /\ step' = IF invocation.yes THEN "prepare" ELSE "batchPrompt"
            /\ UNCHANGED exit
    /\ answered' = (step' = "prepare")
    /\ UNCHANGED <<worldVars, settleVars, invocation, unreadable, rows, signals,
                   pins, fresh, outcomes, at>>

\* confirm: once for the whole set.
BatchConfirm ==
    /\ step = "batchPrompt"
    /\ \/ step' = "prepare" /\ answered' = TRUE /\ UNCHANGED <<exit, budget>>
       \/ Finish("KillCancelled") /\ UNCHANGED <<answered, budget>>
       \/ Fault("prompt") /\ Finish("Failure") /\ UNCHANGED answered
    /\ Unmoved
    /\ UNCHANGED <<holds, settleVars, invocation, unreadable, rows, signals, batchVars>>

-----------------------------------------------------------------------------
\* deliver

\* Every handle is retained before the one fresh snapshot is taken.
Prepare ==
    /\ step = "prepare"
    /\ LET i == Len(pins) + 1
           found == Occupant(plan[i].target.pid)
       IN  /\ pins' = Append(pins, found)
           /\ outcomes' = Append(outcomes, IF found = NoProc THEN "AlreadyExited" ELSE "none")
           /\ step' = IF i = Len(plan) THEN "fresh" ELSE "prepare"
    /\ UNCHANGED <<worldVars, settleVars, invocation, unreadable, rows, answered, exit, signals,
                   plan, fresh, at>>

NextPrepared(from) ==
    LET left == {i \in DOMAIN plan : i >= from /\ outcomes[i] = "none"}
    IN  IF left = {} THEN 0 ELSE Min(left)

BatchFresh ==
    /\ step = "fresh"
    /\ \/ /\ fresh' = ViewNow /\ at' = NextPrepared(1)
          /\ step' = IF at' = 0 THEN "batchSettle" ELSE "deliver"
          /\ UNCHANGED <<exit, budget>>
       \/ Fault("collect") /\ Finish("Failure") /\ UNCHANGED <<fresh, at>>
    /\ Unmoved
    /\ UNCHANGED <<holds, settleVars, invocation, unreadable, rows, answered, signals, plan, pins, outcomes>>

\* One target: revalidated, then signalled through its handle if it still is, at
\* that moment, the process the fresh snapshot showed, running what it showed.
Complaint(i) == Objection(fresh, plan[i].by, plan[i].target)

Outcome(i, result) ==
    /\ outcomes' = [outcomes EXCEPT ![i] = result]
    /\ LET left == {j \in DOMAIN plan : j > i /\ outcomes[j] = "none"}
       IN  IF left = {} THEN step' = "batchSettle" /\ UNCHANGED at
           ELSE at' = Min(left) /\ UNCHANGED step

StillDeliverable(i) ==
    LET now == ResolvedTarget(fresh, plan[i].by)
    IN  pins[i] = now.who /\ name[pins[i]] = now.name

DeliverOne ==
    /\ step = "deliver"
    /\ LET p == pins[at]
       IN  \/ /\ Complaint(at) # "none" /\ Outcome(at, Complaint(at))
              /\ UNCHANGED <<worldVars, signals>>
           \/ /\ Complaint(at) = "none" /\ ~Alive(p) /\ Outcome(at, "AlreadyExited")
              /\ UNCHANGED <<worldVars, signals>>
           \/ /\ Complaint(at) = "none" /\ Alive(p)
              /\ \/ Forbidden(p) /\ Outcome(at, "PermissionDenied")
                 \/ ~StillDeliverable(at) /\ Outcome(at, "UnknownFailure")
              /\ UNCHANGED <<worldVars, signals>>
           \/ /\ Complaint(at) = "none" /\ Alive(p) /\ ~Forbidden(p) /\ StillDeliverable(at)
              /\ Outcome(at, "Success") /\ Send({p}) /\ UNCHANGED budget
    /\ UNCHANGED <<settleVars, invocation, unreadable, rows, answered, exit, plan, pins, fresh>>

\* SIGINT, SIGTERM or SIGHUP during a delivery: that target is refused and
\* resumed, and kick dies of it when the guard is dropped, without a summary.
Interrupted ==
    /\ step = "deliver" /\ Fault("interrupt")
    /\ outcomes' = [outcomes EXCEPT ![at] = "UnknownFailure"]
    /\ step' = "died"
    /\ Unmoved
    /\ UNCHANGED <<holds, settleVars, invocation, unreadable, rows, answered, exit, signals,
                   plan, pins, fresh, at>>

Delivered == {i \in DOMAIN outcomes : outcomes[i] = "Success"}

\* The settle loop covers the targets that got the signal, and all their ports.
BatchSettle ==
    /\ step = "batchSettle" /\ settling = "idle"
    /\ Settle({pins[i] : i \in Delivered},
              UNION {ResolvedTarget(fresh, plan[i].by).endpoints \cup plan[i].extra :
                        i \in Delivered})
    /\ UNCHANGED <<worldVars, commandVars, batchVars>>

BatchReport ==
    /\ step = "batchSettle" /\ settling = "settled"
    /\ Finish(Aggregate({ExitOf[outcomes[i]] : i \in DOMAIN outcomes}))
    /\ UNCHANGED <<worldVars, settleVars, invocation, unreadable, rows, answered, signals, batchVars>>

BatchStep ==
    \/ BatchPlan \/ BatchConfirm \/ Prepare \/ BatchFresh \/ DeliverOne
    \/ Interrupted \/ BatchSettle \/ BatchReport

BatchInit ==
    /\ plan = <<>> /\ pins = <<>> /\ outcomes = <<>>
    /\ fresh = NoView /\ at = 0

-----------------------------------------------------------------------------
\* Properties

\* A batch signals nobody but the processes it listed for confirmation, each of
\* them once however many selectors named it, running the program that was shown;
\* whoever has their numbers since (batch.rs 1-9, 170-172).
BatchSignalsWhatItListed ==
    [][\A p \in Proc :
         step = "deliver" /\ signals'[p] > signals[p] =>
            /\ signals[p] = 0
            /\ \E i \in DOMAIN plan : /\ plan[i].target.who = p
                                      /\ plan[i].target.name = name[p]
                                      /\ ~plan[i].target.protected]_<<signals, step, name>>

\* When a batch reports, every selector of the command line is answered by one
\* target, that target has an outcome, "Success" is said of exactly those that
\* were sent the signal, the command exits with success if and only if that is
\* all of them, and their ports were looked at (batch.rs 154-178).
BatchAccounts ==
    exit # "none" /\ outcomes # <<>> /\ fresh.taken =>
        /\ DOMAIN outcomes = DOMAIN plan
        /\ {p \in Proc : signals[p] > 0} = {pins[i] : i \in Delivered}
        /\ exit = "Success" <=> Delivered = DOMAIN plan
        /\ \A j \in DOMAIN invocation.selectors :
             LET sel == invocation.selectors[j]
                 named == ResolvedTarget(rows, sel)
             IN  \E i \in DOMAIN plan :
                    /\ plan[i].target.pid = named.pid
                    /\ i \in Delivered => named.endpoints \subseteq wanted
=============================================================================
