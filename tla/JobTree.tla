------------------------------- MODULE JobTree -------------------------------
(***************************************************************************)
(* The tree kill of Windows: execute_tree_kill_with of                      *)
(* src/src/tree/windows.rs.                                                *)
(*                                                                         *)
(* There is no signal that stops a process here.  kick opens the processes  *)
(* of the tree it confirmed, tries out on a helper that a job can be frozen, *)
(* and then begins: the root goes into a job, its descendants after it, and *)
(* snapshots are taken until two of them show nobody new.  The job is       *)
(* frozen, swept and compared with the table once more, and only then       *)
(* terminated.  Whatever is uncertain after the root is in the job leaves it *)
(* alive: it is thawed and reported.                                        *)
(***************************************************************************)
EXTENDS FreezeProbe, WinKill

CONSTANTS
    SystemName,      \* names the system process check warns about
    MemberCap,       \* MAX_TREE_PROCESSES
    SweepPasses      \* WINDOWS_TREE_SWEEP_PASSES

ASSUME JobTreeAssumption == MemberCap \in Nat /\ SweepPasses \in Nat

VARIABLES
    phase,
    todo,         \* who is still to be opened, assigned, checked or waited for
    members,      \* PinnedProcessStatus of the processes kick has a handle to
    passes,       \* sweep_passes_remaining
    clean,        \* consecutive_clean_passes
    discovered,   \* the pass at work has found somebody
    exact,        \* the job's membership as first read
    froze,        \* the call that freezes the job was made
    report,       \* WindowsTreeKillReport
    outcome

jobVars == <<phase, todo, members, passes, clean, discovered, exact, froze, report, outcome>>
treeVars == <<phase, auth, todo, members, passes, clean, discovered, exact, froze, report, outcome>>

Opened == {p \in Proc : members[p] # "none"}
Held == IF phase = "done" THEN {} ELSE Opened \cup ({handle} \ {NoProc})
First(set) == CHOOSE p \in set : \A q \in set : PidOf[p] <= PidOf[q]

JobTypeOK ==
    /\ HostTypeOK /\ ProbeTypeOK /\ WinKillTypeOK
    /\ members \in [Proc -> {"none", "pending", "assigned", "exited"}]
    /\ todo \cup exact \subseteq Proc /\ passes \in 0..SweepPasses /\ clean \in 0..2
    /\ report.state \in {"Complete", "Partial", "Withheld"}

-----------------------------------------------------------------------------
\* What a snapshot s, the set of processes it shows, says of the tree.

\* accepted_parent_edge and query_verified_parent: the recorded parent counts if
\* both markers can be read and the parent is the older one.
Verified(p, s) == parent[p] \in s /\ {name[p], name[parent[p]]} \cap Sealed = {}

Reached(seeds, s) ==
    LET below[n \in 0..Cardinality(Proc)] ==
            IF n = 0 THEN seeds
            ELSE below[n - 1] \cup {p \in s : Verified(p, s) /\ parent[p] \in below[n - 1]}
    IN  below[Cardinality(Proc)]
TreeIn(s) == Reached({Root}, s)

\* first_partial_metadata_pid: one of the tree cannot be read, or there is a
\* process whose parent cannot be verified and may be one of the tree.
Unsure(tree, s) ==
    \/ \E p \in tree : name[p] \in Sealed
    \/ \E p \in s \ tree : /\ parent[p] \in Proc /\ ~Verified(p, s)
                           /\ PidOf[parent[p]] \in {PidOf[q] : q \in tree}

Warned(set) == \E p \in set : name[p] \in SystemName \cup Protected

\* verify_snapshot_root_identity and build_precommit_preview, in their order.
PreviewProblem(s) ==
    IF Root \notin s
    THEN IF Occupant(PidOf[Root]) = NoProc THEN "RootAlreadyExited" ELSE "TargetChanged"
    ELSE LET tree == TreeIn(s)
         IN  IF Cardinality(tree) > MemberCap THEN "Truncated"
             ELSE IF \E p \in tree : PidOf[p] \in Unsafe THEN "UnsafePid"
             ELSE IF \E p \in tree \ {Root} : IsProtected(p) THEN "ProtectedDescendant"
             ELSE IF IsProtected(Root) /\ auth # "protectedTyped" THEN "ProtectedRoot"
             ELSE IF auth = "skipped" /\ Warned(tree) THEN "FreshConfirmationRequired"
             ELSE IF Unsure(tree, s) THEN "PartialMetadata" ELSE "none"

-----------------------------------------------------------------------------
\* Before anything is done to the tree

Refused(reason) ==
    /\ phase' = "done" /\ outcome' = reason
    /\ UNCHANGED <<auth, todo, members, passes, clean, discovered, exact, froze, report>>

Preview ==
    /\ phase = "preview"
    /\ \/ /\ IF PreviewProblem(Running) # "none" THEN Refused(PreviewProblem(Running))
             ELSE /\ phase' = "pin" /\ todo' = TreeIn(Running)
                  /\ UNCHANGED <<auth, members, passes, clean, discovered, exact, froze, report,
                                 outcome>>
          /\ UNCHANGED budget
       \/ Fault("snapshot") /\ Refused("SnapshotFailed")
    /\ UNCHANGED <<status, parent, name, inJob, frozen, suspends, doomed>>

\* open_verified_process: by number, and only if the handle shows the marker.
Opens(p) == Occupant(PidOf[p]) = p

Pin ==
    /\ phase = "pin"
    /\ \/ /\ IF ~Opens(First(todo)) THEN Refused("TargetChanged")
             ELSE /\ members' = [members EXCEPT ![First(todo)] = "pending"]
                  /\ todo' = todo \ {First(todo)}
                  /\ phase' = IF todo' = {} THEN "preflight" ELSE "pin"
                  /\ UNCHANGED <<auth, passes, clean, discovered, exact, froze, report, outcome>>
          /\ UNCHANGED budget
       \/ Fault("open") /\ Refused("PermissionDenied")
    /\ UNCHANGED <<status, parent, name, inJob, frozen, suspends, doomed>>

\* preflight_job_freeze_thaw, one step at a time.
Preflight ==
    /\ phase = "preflight"
    /\ \/ ~ProbeOver /\ ProbeStep /\ UNCHANGED treeVars
       \/ /\ step = "passed" /\ phase' = "commit"
          /\ UNCHANGED <<hostVars, probeVars, auth, todo, members, passes, clean, discovered, exact,
                         froze, report, outcome>>
       \/ step = "failed" /\ Refused("FreezeCapabilityUnavailable") /\ UNCHANGED <<hostVars, probeVars>>

\* commit_root_to_job: from here on there is a report.
Commit ==
    /\ phase = "commit"
    /\ \/ /\ IF Root \in Running
             THEN /\ inJob' = {Root} /\ members' = [members EXCEPT ![Root] = "assigned"]
                  /\ phase' = "assign" /\ todo' = Opened \ {Root}
                  /\ UNCHANGED <<auth, passes, clean, discovered, exact, froze, report, outcome>>
             ELSE Refused("RootAlreadyExited") /\ UNCHANGED inJob
          /\ UNCHANGED budget
       \/ Fault("assign") /\ Refused("CommitFailed") /\ UNCHANGED inJob
    /\ UNCHANGED <<status, parent, name, frozen, suspends, doomed>>

-----------------------------------------------------------------------------
\* Containment

\* record_post_commit_issue: only a protected descendant outside the job does not
\* by itself spare the job.
Recorded(r, reason) ==
    [r EXCEPT !.state = IF reason # "ProtectedDescendant" \/ @ = "Withheld" THEN "Withheld"
                        ELSE "Partial",
              !.issue = IF @ = "none" THEN reason ELSE @]
Proceed(r, next) == IF r.state = "Withheld" THEN "thaw" ELSE next

Issue(r, reason, next) ==
    /\ report' = Recorded(r, reason)
    /\ phase' = Proceed(report', next)
    /\ todo' = {} /\ clean' = 0 /\ discovered' = FALSE
    /\ UNCHANGED <<auth, passes, exact, froze, outcome>>

\* assign_or_withhold, for a process there is a handle to.
Assignment(p, ok) ==
    IF p \notin Running THEN "exited" ELSE IF ok \/ p \in inJob THEN "assigned" ELSE "pending"
AssignOrWithhold(p, ok) ==
    /\ members' = [members EXCEPT ![p] = Assignment(p, ok)]
    /\ inJob' = IF Assignment(p, ok) = "assigned" THEN inJob \cup {p} ELSE inJob
    /\ report' = CASE Assignment(p, ok) = "exited" -> [report EXCEPT !.exited = @ \cup {p}]
                   [] Assignment(p, ok) = "pending" -> [report EXCEPT !.state = "Withheld"]
                   [] OTHER -> report
Assigning(ok) == IF ok THEN UNCHANGED budget ELSE Fault("assign")

\* assign_initial_members
Assign ==
    /\ phase = "assign"
    /\ \/ /\ todo = {} /\ phase' = "sweep"
          /\ UNCHANGED <<budget, todo, members, inJob, report>>
       \/ /\ todo # {}
          /\ \E ok \in BOOLEAN : Assigning(ok) /\ AssignOrWithhold(First(todo), ok)
          /\ todo' = todo \ {First(todo)} /\ UNCHANGED phase
    /\ UNCHANGED <<status, parent, name, frozen, suspends, doomed, auth, passes, clean,
                   discovered, exact, froze, outcome>>

AfterSweep == IF froze THEN "ids" ELSE "freeze"

SweepProblem(s) ==
    IF \E p \in Opened : Occupant(PidOf[p]) \notin {p, NoProc} THEN "TargetChanged"
    ELSE IF Root \notin s THEN "RootAlreadyExited"
    ELSE IF Cardinality(TreeIn(s)) > MemberCap THEN "Truncated"
    ELSE IF auth = "skipped" /\ Warned(TreeIn(s)) THEN "FreshConfirmationRequired"
    ELSE IF Unsure(TreeIn(s), s) THEN "PartialMetadata" ELSE "none"

\* Two passes in a row that show nobody new end a sweep.
CleanPass ==
    /\ clean' = IF clean = 1 THEN 0 ELSE clean + 1
    /\ phase' = IF clean = 1 THEN Proceed(report, AfterSweep) ELSE "sweep"

\* One pass of sweep_committed_tree: a snapshot.
Sweep ==
    /\ phase = "sweep"
    /\ IF passes = 0
       THEN Issue(report, "SweepPassLimit", AfterSweep) /\ UNCHANGED <<budget, members>>
       ELSE \/ /\ UNCHANGED budget
               /\ IF SweepProblem(Running) # "none"
                  THEN /\ report' = Recorded(report, SweepProblem(Running))
                       /\ phase' = Proceed(report', AfterSweep)
                       /\ clean' = 0 /\ UNCHANGED <<todo, discovered>>
                  ELSE LET new == TreeIn(Running) \ Opened
                       IN  /\ todo' = new /\ discovered' = FALSE /\ UNCHANGED report
                           /\ IF new = {} THEN CleanPass
                              ELSE phase' = "adopt" /\ UNCHANGED clean
               /\ passes' = passes - 1
               /\ UNCHANGED <<auth, members, exact, froze, outcome>>
            \/ Fault("snapshot") /\ Issue(report, "SnapshotFailed", AfterSweep)
               /\ UNCHANGED members
    /\ UNCHANGED <<status, parent, name, inJob, frozen, suspends, doomed>>

\* handle_protected_post_commit_child and handle_unknown_post_commit_child
Spare(p, reason) ==
    /\ members' = [members EXCEPT ![p] = IF p \in inJob THEN "assigned" ELSE @]
    /\ Issue([report EXCEPT !.left = @ \cup {p},
                            !.state = IF p \in inJob THEN "Withheld" ELSE @], reason, AfterSweep)
    /\ UNCHANGED inJob

\* The rest of the pass, for each process it found.
Adopt ==
    /\ phase = "adopt" /\ todo # {}
    /\ LET p == First(todo)
           open == Cardinality(Opened) < MemberCap /\ PidOf[p] \notin Unsafe /\ Opens(p)
       IN  \/ /\ Cardinality(Opened) >= MemberCap /\ UNCHANGED <<budget, members, inJob>>
              /\ Issue(report, "Truncated", AfterSweep)
           \/ /\ Cardinality(Opened) < MemberCap /\ PidOf[p] \in Unsafe
              /\ Issue([report EXCEPT !.left = @ \cup {p}], "UnsafePid", AfterSweep)
              /\ UNCHANGED <<budget, members, inJob>>
           \/ /\ Cardinality(Opened) < MemberCap /\ PidOf[p] \notin Unsafe /\ ~Opens(p)
              /\ report' = [report EXCEPT !.exited = @ \cup {p}]
              /\ todo' = todo \ {p}
              /\ UNCHANGED <<budget, members, inJob, phase, auth, passes, clean, discovered, exact,
                             froze, outcome>>
           \/ open /\ IsProtected(p) /\ Spare(p, "ProtectedDescendant") /\ UNCHANGED budget
           \/ /\ open /\ ~IsProtected(p)
              /\ \E ok \in BOOLEAN : Assigning(ok) /\ AssignOrWithhold(p, ok)
              /\ discovered' = TRUE /\ todo' = todo \ {p}
              /\ UNCHANGED <<phase, auth, passes, clean, exact, froze, outcome>>
           \/ open /\ Fault("name") /\ Spare(p, "NameMissing")
           \/ /\ open /\ Fault("open")
              /\ Issue([report EXCEPT !.left = @ \cup {p}], "PermissionDenied", AfterSweep)
              /\ UNCHANGED <<members, inJob>>
    /\ UNCHANGED <<status, parent, name, frozen, suspends, doomed>>

PassOver ==
    /\ phase = "adopt" /\ todo = {}
    /\ IF discovered THEN clean' = 0 /\ phase' = "sweep" ELSE CleanPass
    /\ discovered' = FALSE
    /\ UNCHANGED <<hostVars, auth, todo, members, passes, exact, froze, report, outcome>>

\* set_job_frozen(true).  A call that reports an error may have had its effect.
Freeze ==
    /\ phase = "freeze" /\ froze' = TRUE
    /\ \/ /\ frozen' = TRUE /\ phase' = "sweep" /\ UNCHANGED <<budget, report>>
       \/ /\ Fault("freeze") /\ frozen' \in BOOLEAN
          /\ report' = Recorded(report, "SnapshotFailed") /\ phase' = "thaw"
    /\ UNCHANGED <<status, parent, name, inJob, suspends, doomed, auth, todo, members, passes,
                   clean, discovered, exact, outcome>>

-----------------------------------------------------------------------------
\* reconcile_final_containment

Live(set) == set \cap Running

ReadMembership ==
    /\ phase = "ids"
    /\ \/ /\ exact' = Live(inJob) /\ phase' = "prove"
          /\ UNCHANGED <<budget, todo, clean, discovered, auth, passes, froze, report, outcome>>
       \/ Fault("ids") /\ Issue(report, "SnapshotFailed", "prove")
    /\ UNCHANGED <<status, parent, name, inJob, frozen, suspends, doomed, members>>

Withhold(reason) == Issue([report EXCEPT !.state = "Withheld"], reason, "thaw")

\* generation_qualified_descendants: everybody below a process kick has a handle to.
BelowMembers(s) == Reached({p \in Opened : members[p] # "exited" /\ p \in s}, s)
SnapshotProblem(s) ==
    IF Unsure(BelowMembers(s), s) THEN "PartialMetadata"
    ELSE IF Cardinality(exact \cup BelowMembers(s)) > MemberCap THEN "Truncated" ELSE "none"

\* The last snapshot: they and everybody in the job are looked at one by one.
ProveMembership ==
    /\ phase = "prove"
    /\ \/ /\ UNCHANGED budget
          /\ IF SnapshotProblem(Running) # "none" THEN Withhold(SnapshotProblem(Running))
             ELSE /\ todo' = exact \cup BelowMembers(Running) /\ phase' = "check"
                  /\ UNCHANGED <<auth, passes, clean, discovered, exact, froze, report, outcome>>
       \/ Fault("snapshot") /\ Withhold("SnapshotFailed")
    /\ UNCHANGED <<status, parent, name, inJob, frozen, suspends, doomed, members>>

\* What is found out of one of them, in the order of the checks.
Unreadable(p) == PidOf[p] \in Unsafe \/ name[p] \in Sealed \/ (members[p] = "none" /\ ~Opens(p))
NoProblem(p) == "none"
MemberProblem(p) ==
    IF PidOf[p] \in Unsafe THEN "UnsafePid"
    ELSE IF name[p] \in Sealed THEN "PartialMetadata"
    ELSE IF Unreadable(p) \/ members[p] = "exited" THEN "TargetChanged"
    ELSE IF IsProtected(p) /\ p # Root THEN "ProtectedDescendant"
    ELSE IF IsProtected(p) /\ auth # "protectedTyped" THEN "ProtectedRoot"
    ELSE IF auth = "skipped" /\ Warned({p}) THEN "FreshConfirmationRequired"
    ELSE IF p \notin exact THEN "SnapshotFailed" ELSE "none"

\* A process opened for the checks is kept, whatever they say of it.
Retains(p) ==
    members' = [members EXCEPT ![p] = IF @ = "none" /\ ~Unreadable(p) THEN "pending" ELSE @]

\* One that has ended may have no row, or still answer through its handle.
CheckMember ==
    /\ phase = "check" /\ todo # {}
    /\ LET p == First(todo)
       IN  \/ /\ MemberProblem(p) = "none" /\ UNCHANGED budget
              /\ members' = [members EXCEPT ![p] = "assigned"] /\ todo' = todo \ {p}
              /\ UNCHANGED <<phase, auth, passes, clean, discovered, exact, froze, report, outcome>>
           \/ /\ MemberProblem(p) # "none" /\ UNCHANGED budget
              /\ Withhold(MemberProblem(p)) /\ Retains(p)
           \/ /\ p \notin Running /\ UNCHANGED <<budget, members>>
              /\ \E reason \in {"PartialMetadata", "TargetChanged"} : Withhold(reason)
           \/ /\ members[p] = "none" /\ Fault("open")
              /\ Withhold("PermissionDenied") /\ UNCHANGED members
           \/ /\ ~Unreadable(p) /\ Retains(p)
              /\ \/ Fault("name") /\ Withhold("NameMissing")
                 \/ Fault("ids") /\ Withhold("SnapshotFailed")
    /\ UNCHANGED <<status, parent, name, inJob, frozen, suspends, doomed>>

MembersChecked ==
    /\ phase = "check" /\ todo = {} /\ phase' = "past"
    /\ todo' = {p \in Opened \ exact : members[p] # "exited"}
    /\ UNCHANGED <<hostVars, auth, members, passes, clean, discovered, exact, froze, report, outcome>>

\* Whoever kick has a handle to and is not in the job must have ended.
CheckPast ==
    /\ phase = "past"
    /\ \/ /\ todo = {} /\ phase' = "stable"
          /\ UNCHANGED <<budget, auth, todo, members, passes, clean, discovered, exact, froze, report,
                         outcome>>
       \/ /\ todo # {} /\ First(todo) \notin Running /\ todo' = todo \ {First(todo)}
          /\ members' = [members EXCEPT ![First(todo)] = "exited"]
          /\ report' = [report EXCEPT !.exited = @ \cup {First(todo)}]
          /\ UNCHANGED <<budget, phase, auth, passes, clean, discovered, exact, froze, outcome>>
       \/ /\ todo # {} /\ Withhold("SnapshotFailed") /\ UNCHANGED members
          /\ IF First(todo) \in Running THEN UNCHANGED budget ELSE Fault("wait")
    /\ UNCHANGED <<status, parent, name, inJob, frozen, suspends, doomed>>

StableMembership ==
    /\ phase = "stable"
    /\ \/ /\ UNCHANGED budget
          /\ IF Live(inJob) # exact THEN Withhold("SnapshotFailed")
             ELSE phase' = "terminate" /\ UNCHANGED <<auth, todo, passes, clean, discovered, exact,
                                                      froze, report, outcome>>
       \/ Fault("ids") /\ Withhold("SnapshotFailed")
    /\ UNCHANGED <<status, parent, name, inJob, frozen, suspends, doomed, members>>

-----------------------------------------------------------------------------
\* The end

TerminateJob ==
    /\ phase = "terminate"
    /\ \/ /\ doomed' = Live(inJob) /\ phase' = "wait"
          /\ todo' = {p \in Proc : members[p] = "assigned"} /\ UNCHANGED <<budget, outcome>>
       \/ Fault("terminate") /\ outcome' = "JobTerminateFailed" /\ phase' = "thaw"
          /\ UNCHANGED <<doomed, todo>>
    /\ UNCHANGED <<status, parent, name, inJob, frozen, suspends, auth, members, passes, clean,
                   discovered, exact, froze, report>>

\* finish_report, for each process of the job: it has exited, or the time for all
\* of them is over, or it cannot be waited for.
Wait ==
    /\ phase = "wait" /\ todo # {}
    /\ LET p == First(todo)
       IN  \/ /\ p \notin Running /\ UNCHANGED budget
              /\ report' = [report EXCEPT !.terminated = @ \cup {p}]
           \/ Fault("wait") /\ report' = [report EXCEPT !.left = @ \cup {p}]
    /\ todo' = todo \ {First(todo)}
    /\ UNCHANGED <<status, parent, name, inJob, frozen, suspends, doomed, phase, auth, members,
                   passes, clean, discovered, exact, froze, outcome>>

\* Thawing a job, or being unable to.
NoThaw(r) == UNCHANGED <<frozen, budget>> /\ report' = r
NeverThawed(r) == report' = r /\ UNCHANGED <<frozen, budget>>
Thawed(r) ==
    \/ frozen' = FALSE /\ report' = r /\ UNCHANGED budget
    \/ Fault("thaw") /\ report' = [r EXCEPT !.cleanup = "ThawFailed"] /\ UNCHANGED frozen

Finished ==
    /\ phase' = "done" /\ outcome' = IF outcome = "none" THEN "Completed" ELSE outcome
    /\ UNCHANGED <<status, parent, name, inJob, suspends, doomed, auth, todo, members, passes,
                   clean, discovered, exact, froze>>
Partly(state) == IF state = "Complete" THEN "Partial" ELSE state

FinishReport ==
    /\ phase = "wait" /\ todo = {}
    /\ IF report.left = {} THEN NoThaw(report)
       ELSE Thawed([report EXCEPT !.state = Partly(@), !.cleanup = "SurvivorsThawed"])
    /\ Finished

\* finish_failed_job_report, for a job that was spared or did not terminate.
OnlyAssigned == {p \in Proc : members[p] = "assigned"}
Unconfirmed == {p \in Proc : members[p] \in {"assigned", "pending"}}
FinishFailed ==
    /\ phase = "thaw"
    /\ LET r == [report EXCEPT !.state = Partly(@), !.terminated = {},
                                !.left = @ \cup Unconfirmed]
       IN  IF froze THEN Thawed(r) ELSE NoThaw(r)
    /\ Finished

JobInit ==
    /\ todo = {} /\ members = [p \in Proc |-> "none"]
    /\ passes = SweepPasses /\ clean = 0 /\ discovered = FALSE /\ exact = {} /\ froze = FALSE
    /\ report = [state |-> "Complete", issue |-> "none", cleanup |-> "none",
                 terminated |-> {}, exited |-> {}, left |-> {}]
    /\ outcome = "none"

JobStep ==
    \/ Preview \/ Pin \/ Commit \/ Assign \/ Sweep \/ Adopt \/ PassOver \/ Freeze
    \/ ReadMembership \/ ProveMembership \/ CheckMember \/ MembersChecked \/ CheckPast
    \/ StableMembership
    \/ TerminateJob \/ Wait \/ FinishReport \/ FinishFailed
=============================================================================
