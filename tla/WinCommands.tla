----------------------------- MODULE WinCommands -----------------------------
(***************************************************************************)
(* kick kill on Windows, of one process or of a tree: the part of            *)
(* src/src/cli/scoped.rs and src/src/cli/scoped/report.rs built for it, over  *)
(* modules WinKill and JobTree.  The call begins when it has been confirmed. *)
(*                                                                         *)
(* A root that was chosen by its port is held by a handle from here on; one  *)
(* that was chosen by its number is not.  The tree is looked at once more     *)
(* before anything is done to it, and execute_tree_kill looks again itself.  *)
(***************************************************************************)
EXTENDS JobTree

vars == <<hostVars, killVars, jobVars, probeVars>>

\* A root chosen by its port, by its number with ports, and without.
Beginnings == {"prepare", "recheck", "portless"}

\* tree_outcome_from_termination
AsRefusal(reason) == IF reason = "AlreadyExited" THEN "RootAlreadyExited" ELSE reason

PrepareRoot ==
    /\ phase = "prepare" /\ UNCHANGED <<hostVars, at, result, seen>>
    /\ IF OpenFailure(PidOf[Root]) = "none"
       THEN /\ handle' = Occupant(PidOf[Root]) /\ phase' = "recheck"
            /\ UNCHANGED <<auth, todo, members, passes, clean, discovered, exact, froze, report,
                           outcome>>
       ELSE Refused(AsRefusal(OpenFailure(PidOf[Root]))) /\ UNCHANGED handle

\* revalidate_cli_target, which reads the ports; revalidate_portless_tree_root,
\* which has only the table.
RootProblem(s) ==
    IF ~\E p \in s : PidOf[p] = PidOf[Root]
    THEN IF phase = "portless" THEN "RootAlreadyExited" ELSE "TargetChanged"
    ELSE IF Root \in s /\ Refuses(Root) THEN "PartialMetadata"
    ELSE IF Root \notin s THEN "TargetChanged"
    ELSE IF IsProtected(Root) /\ auth # "protectedTyped" THEN "ProtectedRoot" ELSE "none"

\* windows_fresh_tree_gates: whoever has the number now is the root of the plan.
GateProblem(s) ==
    IF ~\E p \in s : PidOf[p] = PidOf[Root] THEN "RootAlreadyExited"
    ELSE LET top  == CHOOSE p \in s : PidOf[p] = PidOf[Root]
             tree == Reached({top}, s)
         IN  IF Cardinality(tree) > MemberCap THEN "Truncated"
             ELSE IF \E p \in tree : PidOf[p] \in Unsafe THEN "UnsafePid"
             ELSE IF \E p \in tree \ {top} : IsProtected(p) THEN "ProtectedDescendant"
             ELSE IF IsProtected(top) /\ auth # "protectedTyped" THEN "ProtectedRoot"
             ELSE IF auth = "skipped" /\ Warned(tree) THEN "FreshConfirmationRequired"
             ELSE IF \E p \in tree : Refuses(p) THEN "PartialMetadata" ELSE "none"

Goon(next) ==
    /\ phase' = next
    /\ UNCHANGED <<auth, todo, members, passes, clean, discovered, exact, froze, report, outcome>>
ReadOnce(problem, next) ==
    /\ \/ /\ IF problem = "none" THEN Goon(next) ELSE Refused(problem)
          /\ UNCHANGED budget
       \/ Fault("snapshot") /\ Refused("SnapshotFailed")
    /\ HostUnchanged /\ UNCHANGED doomed

\* revalidate_windows_tree_root_before_commit: one table, or two reads.
RecheckPorts == phase = "recheck" /\ ReadOnce(RootProblem(Running), "gates")
RecheckTree ==
    \/ phase = "gates" /\ ReadOnce(GateProblem(Running), "preview")
    \/ /\ phase = "portless"
       /\ LET problem == IF RootProblem(Running) # "none" THEN RootProblem(Running)
                         ELSE GateProblem(Running)
          IN  ReadOnce(problem, "preview")

-----------------------------------------------------------------------------
\* The exit code

\* refusal_class, and windows_post_commit_issue_exit_reason, for which an exited
\* root is a failure.
ClassOf(reason) ==
    CASE reason \in {"ProtectedDescendant", "ProtectedRoot"} -> "ProtectedNeedsConfirmation"
      [] reason \in {"PermissionDenied", "OwnershipUnavailable"} -> "PermissionDenied"
      [] reason = "RootAlreadyExited" -> "NoMatch"
      [] OTHER -> "Failure"
IssueExit(issue) == IF issue = "RootAlreadyExited" THEN "Failure" ELSE ClassOf(issue)

\* map_windows_tree_completed_outcome
CompletedExit(r) ==
    IF r.state = "Complete" /\ r.left = {} THEN "Success"
    ELSE IF r.issue # "none" THEN IssueExit(r.issue)
    ELSE IF r.cleanup # "none" \/ r.left = {} THEN "Failure" ELSE "PermissionDenied"

\* map_windows_tree_system_failure
SystemFailures == {"CommitFailed", "FreezeCapabilityUnavailable", "JobTerminateFailed"}
TreeExit ==
    IF outcome = "Completed" THEN CompletedExit(report)
    ELSE IF outcome \in SystemFailures THEN "Failure" ELSE ClassOf(outcome)

-----------------------------------------------------------------------------
Init ==
    /\ HostInit /\ KillInit /\ JobInit /\ ProbeInit
    /\ \/ at = "open" /\ phase = "none"
       \/ at = "tree" /\ phase \in Beginnings

Over == at = "over" \/ phase = "done"

SingleKill == at # "tree" /\ KillStep /\ UNCHANGED <<jobVars, probeVars>>
TreeKill ==
    \/ PrepareRoot /\ UNCHANGED probeVars
    \/ /\ RecheckPorts \/ RecheckTree \/ JobStep
       /\ UNCHANGED <<at, handle, result, seen, probeVars>>
    \/ Preflight /\ UNCHANGED <<at, handle, result, seen>>

\* The other processes.  They and the freeze probe have nothing in common but the
\* budget: they take their steps before it or after it.
Host ==
    /\ ~Over /\ (phase = "preflight" => step = "spawn")
    /\ HostStep(Held) /\ UNCHANGED <<killVars, jobVars, probeVars>>
Done == Over /\ UNCHANGED vars

Next == SingleKill \/ TreeKill \/ Host \/ Done
Spec == Init /\ [][Next]_vars

-----------------------------------------------------------------------------
\* Properties

\* Terminating the job ends the confirmed tree and nobody else: everybody in it at
\* that moment descends from the confirmed root and is known to kick by a verified
\* handle, and nobody in it is protected but a root whose name was typed; whoever a
\* process of the job has started, and still runs, is in the job; and it is done
\* only where freezing a job was seen to stop it
\* (tree/windows.rs 1-8, 920-924, 1303-1305, 1609-1612).
JobIsTheConfirmedTree ==
    [][at = "tree" /\ doomed' # doomed =>
         /\ \A p \in doomed' : /\ Descends(p, Root) /\ p \in Opened
                               /\ IsProtected(p) => p = Root /\ auth = "protectedTyped"
         /\ \A p \in Running : parent[p] \in doomed' => p \in doomed'
         /\ suspends]_<<doomed>>

\* Nobody is left frozen in silence: when the call is over the job runs again, or
\* nobody lives in it, or the report says that thawing failed; and of the helper
\* that was frozen to try it out nothing is left as soon as the probe is over
\* (tree/windows.rs 318-376, 1288-1300; freeze_probe.rs 3-5, 187-201).
NobodyLeftFrozen ==
    /\ phase = "done" /\ frozen => Live(inJob) = {} \/ report.cleanup = "ThawFailed"
    /\ ProbeOver => helper # "running"

\* What is said at the end is true: who is said to have exited or to have been
\* terminated does not run, who runs under a handle of kick's is reported as left,
\* success leaves nobody in the job, and a refusal has touched nobody
\* (tree/windows.rs 1252-1326; scoped/report.rs 107-127, 352-437; and of a single
\* kill process/windows.rs 98-131, 160-190; process.rs 279-296).
ReportIsTrue ==
    /\ EndsTheConfirmed
    /\ phase = "done" /\ outcome \in {"Completed", "JobTerminateFailed"} =>
         /\ (report.terminated \cup report.exited) \cap Running = {}
         /\ Live(Opened) \subseteq report.left
         /\ TreeExit = "Success" =>
              report.left = {} /\ Live(inJob) = {} /\ outcome = "Completed"
    /\ phase = "done" /\ outcome \notin {"Completed", "JobTerminateFailed"} =>
         inJob = {} /\ doomed = {} /\ ~frozen
=============================================================================
