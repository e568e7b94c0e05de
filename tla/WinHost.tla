------------------------------- MODULE WinHost -------------------------------
(***************************************************************************)
(* Windows as the job containment of src/src/tree/windows.rs relies on it:  *)
(* external to the repository.                                             *)
(*                                                                         *)
(* A member of Proc is a process incarnation.  Its number is not given to   *)
(* another one while it runs or kick holds a handle to it.  What a process  *)
(* in a job starts is in the job.  A frozen job does not run, on a host      *)
(* where the private call that freezes it has that effect (suspends); its    *)
(* processes can still be ended from outside.  Terminating a job ends its    *)
(* processes one after the other.                                          *)
(***************************************************************************)
EXTENDS Naturals, FiniteSets

CONSTANTS
    Proc, NoProc,     \* process incarnations, and none
    Outsider,         \* the parent of a process nobody in Proc started
    Pid, PidOf,       \* the number of each
    Name,
    Sealed,           \* names of programs kick may not open
    Start,            \* [status, parent, name]: the tables to start from
    Disturbances, MaxDisturbances

ASSUME WinHostAssumption ==
    /\ Pid \subseteq Nat /\ PidOf \in [Proc -> Pid] /\ Sealed \subseteq Name
    /\ IsFiniteSet(Proc) /\ NoProc \notin Proc /\ Outsider \notin Proc
    /\ Start \subseteq [status : [Proc -> {"unborn", "running"}],
                        parent : [Proc -> Proc \cup {Outsider}], name : [Proc -> Name]]
    /\ MaxDisturbances \in Nat

\* In a table to start from no number is given twice, and nobody's parent is still
\* to be born.
ASSUME StartAssumption ==
    \A t \in Start : \A p, q \in Proc : t.status[p] = "running" =>
        /\ t.status[q] = "running" /\ PidOf[p] = PidOf[q] => p = q
        /\ q = t.parent[p] => t.status[q] = "running"

VARIABLES
    status, parent, name,
    inJob,        \* the processes assigned to the job, and what they started
    frozen,       \* the job is frozen
    suspends,     \* the call that freezes a job stops its processes
    doomed,       \* processes of a terminated job
    budget        \* disturbances left

hostVars == <<status, parent, name, inJob, frozen, suspends, doomed, budget>>

Running == {p \in Proc : status[p] = "running"}
Executing == {p \in Running \ doomed : ~(frozen /\ suspends /\ p \in inJob)}
Occupant(pid) ==
    IF \E p \in Running : PidOf[p] = pid THEN CHOOSE p \in Running : PidOf[p] = pid ELSE NoProc
Member(p) == p \in inJob /\ p \in Running
Descends(p, q) ==
    LET up[n \in 0..Cardinality(Proc)] ==
            IF n = 0 THEN {p} ELSE up[n - 1] \cup {parent[r] : r \in up[n - 1] \cap Proc}
    IN  q \in up[Cardinality(Proc)]

HostTypeOK ==
    /\ status \in [Proc -> {"unborn", "running", "dead"}]
    /\ inJob \cup doomed \subseteq Proc /\ budget \in 0..MaxDisturbances

Fault(kind) == kind \in Disturbances /\ budget > 0 /\ budget' = budget - 1

\* The number of q is free: nobody runs under it, and kick holds no handle to a
\* process of that number.
Free(q, held) == \A p \in Running \cup held : PidOf[p] # PidOf[q]

Spawn(q, held) ==
    /\ Fault("spawn") /\ status[q] = "unborn" /\ Free(q, held)
    /\ \E p \in Executing : /\ parent' = [parent EXCEPT ![q] = p]
                            /\ inJob' = IF p \in inJob THEN inJob \cup {q} ELSE inJob
    /\ status' = [status EXCEPT ![q] = "running"]
    /\ UNCHANGED <<name, frozen, suspends, doomed>>

\* Somebody else's process starts, perhaps under a number that has become free.
Arrive(q, held) ==
    /\ Fault("arrive") /\ status[q] = "unborn" /\ Free(q, held)
    /\ status' = [status EXCEPT ![q] = "running"] /\ parent' = [parent EXCEPT ![q] = Outsider]
    /\ UNCHANGED <<name, inJob, frozen, suspends, doomed>>

Exit(p) ==
    /\ Fault("exit") /\ p \in Running
    /\ status' = [status EXCEPT ![p] = "dead"]
    /\ UNCHANGED <<parent, name, inJob, frozen, suspends, doomed>>

Die(p) ==
    /\ p \in doomed \cap Running
    /\ status' = [status EXCEPT ![p] = "dead"]
    /\ UNCHANGED <<parent, name, inJob, frozen, suspends, doomed, budget>>

HostStep(held) == \E p \in Proc : Spawn(p, held) \/ Arrive(p, held) \/ Exit(p) \/ Die(p)

HostInit ==
    /\ \E t \in Start : status = t.status /\ parent = t.parent /\ name = t.name
    /\ inJob = {} /\ frozen = FALSE /\ doomed = {} /\ suspends \in BOOLEAN
    /\ budget = MaxDisturbances
=============================================================================
