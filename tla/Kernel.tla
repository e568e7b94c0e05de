------------------------------- MODULE Kernel -------------------------------
(***************************************************************************)
(* The Unix process table as the code in src/ depends on it: external to   *)
(* the repository, and modelled from what the /proc readers, the pidfd     *)
(* calls and the stop protocol rely on.                                    *)
(*                                                                         *)
(* A member of Proc is one process INCARNATION: a PID together with a start *)
(* marker.  Two incarnations may share a PID, never at the same time, and  *)
(* no two share both.  That is how the code tells a process from a later   *)
(* one that was given its number.                                          *)
(*                                                                         *)
(* What outside actors do while a kill runs (fork, exit, exec, setpgid,    *)
(* stray stop and continue signals) is a DISTURBANCE.  Every behaviour has  *)
(* at most MaxDisturbances of them, of the kinds in Disturbances.          *)
(***************************************************************************)
EXTENDS Naturals, FiniteSets

CONSTANTS
    Proc,             \* process incarnations
    NoProc,           \* "no process": a value outside Proc
    Outside,          \* processes the model never moves, like init and a shell:
                      \* they outlive the kill and reap their children at once
    Reaper,           \* init, the one of them that adopts orphans
    Pid,              \* process numbers
    OutsidePid,       \* the numbers of Outside, none of them in Pid
    PidOf,            \* the number of each incarnation
    Group,            \* process group ids
    Name,             \* program names
    Unsafe,           \* PIDs unsafe_pid_reason refuses: kick itself
    Refuses,          \* names of programs whose owner makes kill(2) answer EPERM
    Start,            \* the process tables a behaviour may start from
    Disturbances,     \* the kinds of disturbance allowed
    MaxDisturbances   \* how many of them at most

ASSUME KernelAssumption ==
    /\ Pid \subseteq Nat /\ IsFiniteSet(Pid) /\ IsFiniteSet(Proc)
    /\ Reaper \in Outside /\ OutsidePid \in [Outside -> Nat \ Pid]
    /\ NoProc \notin Proc \cup Outside /\ Proc \cap Outside = {}
    /\ PidOf \in [Proc -> Pid]
    /\ Unsafe \subseteq Pid /\ Refuses \subseteq Name
    /\ MaxDisturbances \in Nat

VARIABLES
    status,    \* Proc -> where the incarnation is in its life
    parent,    \* Proc -> its parent incarnation
    pgrp,      \* Proc -> its process group
    name,      \* Proc -> the program it runs
    pending,   \* Proc -> the terminating signals queued and not yet acted upon
    meddled,   \* incarnations somebody else stopped, continued or regrouped
    budget     \* disturbances left

kernelVars == <<status, parent, pgrp, name, pending, meddled, budget>>

Status == {"unborn", "running", "stopping", "stopped", "zombie", "dead"}
Active == {"running", "stopping"}      \* still executing: may fork, exec, exit
Live   == Active \cup {"stopped"}
Present == Live \cup {"zombie"}        \* has an entry in /proc

\* Process tables a behaviour may start from: the parts the code reads.
Table == [status : [Proc -> Status], parent : [Proc -> Proc \cup Outside],
          pgrp : [Proc -> Group], name : [Proc -> Name]]

ASSUME StartAssumption ==
    /\ Start \subseteq Table
    /\ \A t \in Start : \A p, q \in Proc :
          t.status[p] \in Present /\ t.status[q] \in Present /\ PidOf[p] = PidOf[q]
             => p = q
    /\ \A t \in Start : \A p \in Proc :    \* orphans have been adopted
          t.status[p] \in Present /\ t.parent[p] \in Proc => t.status[t.parent[p]] \in Live

KernelTypeOK ==
    /\ status \in [Proc -> Status]
    /\ parent \in [Proc -> Proc \cup Outside]
    /\ pgrp \in [Proc -> Group]
    /\ name \in [Proc -> Name]
    /\ pending \in [Proc -> SUBSET {"TERM", "KILL"}]
    /\ meddled \subseteq Proc
    /\ budget \in 0..MaxDisturbances

-----------------------------------------------------------------------------
\* What the code can see

\* The incarnation that has number pid now, or NoProc.
Has(pid, p) == p \in Proc /\ PidOf[p] = pid /\ status[p] \in Present
Occupant(pid) ==
    IF \E p \in Proc : Has(pid, p) THEN CHOOSE p \in Proc : Has(pid, p) ELSE NoProc

PresentPids == {pid \in Pid : \E p \in Proc : Has(pid, p)}
ParentPid(p) == IF parent[p] \in Proc THEN PidOf[parent[p]] ELSE OutsidePid[parent[p]]
ParentPids == Pid \cup {OutsidePid[o] : o \in Outside}
ReaperPid == OutsidePid[Reaper]

\* p and its ancestors, n links up, in the table as it is now.
Ancestors[n \in Nat] ==
    [p \in Proc |-> {p} \cup IF n = 0 \/ parent[p] \notin Proc THEN {}
                            ELSE Ancestors[n - 1][parent[p]]]
Descends(p, q) == q \in Ancestors[Cardinality(Proc)][p]

-----------------------------------------------------------------------------
\* Signals, as the system calls of src/ send them

\* p leaves the running system.  Its children are adopted by Reaper, which
\* reaps the zombies among them; p stays a zombie while it has a parent that
\* may still wait for it.
Perish(p) ==
    /\ status' = [q \in Proc |->
         IF q = p THEN IF parent[p] \in Outside THEN "dead" ELSE "zombie"
         ELSE IF parent[q] = p /\ status[q] = "zombie" THEN "dead" ELSE status[q]]
    /\ parent' = [q \in Proc |-> IF parent[q] = p THEN Reaper ELSE parent[q]]
    /\ pending' = [pending EXCEPT ![p] = {}]

Alive(p) == p \in Proc /\ status[p] \in Live
Gone(p) == p \notin Proc \/ status[p] \notin Present
Forbidden(p) == ~Gone(p) /\ name[p] \in Refuses

\* SIGSTOP is queued; the process stops when it next takes signals.
StopStatus(p) == IF status[p] = "running" THEN "stopping" ELSE status[p]
\* SIGCONT resumes it and discards a SIGSTOP it has not taken yet.
ContStatus(p) == IF status[p] \in {"stopping", "stopped"} THEN "running" ELSE status[p]

\* A queued SIGSTOP takes effect.
StopTakesEffect(p) ==
    /\ status[p] = "stopping"
    /\ status' = [status EXCEPT ![p] = "stopped"]
    /\ UNCHANGED <<parent, pgrp, name, pending, meddled, budget>>

\* SIGTERM is taken only by a process that runs, which may handle it and live on.
TermTakesEffect(p) ==
    /\ "TERM" \in pending[p] /\ status[p] \in Active
    /\ \/ Perish(p)
       \/ pending' = [pending EXCEPT ![p] = @ \ {"TERM"}] /\ UNCHANGED <<status, parent>>
    /\ UNCHANGED <<pgrp, name, meddled, budget>>

\* SIGKILL needs nothing from the process, stopped or not.
KillTakesEffect(p) ==
    /\ "KILL" \in pending[p] /\ status[p] \in Live
    /\ Perish(p)
    /\ UNCHANGED <<pgrp, name, meddled, budget>>

\* Only a parent that runs collects a zombie, and its number is free again.
Reap(p) ==
    /\ status[p] = "zombie" /\ parent[p] \in Proc /\ status[parent[p]] \in Active
    /\ status' = [status EXCEPT ![p] = "dead"]
    /\ UNCHANGED <<parent, pgrp, name, pending, meddled, budget>>

-----------------------------------------------------------------------------
\* Disturbances

Disturb(kind) == kind \in Disturbances /\ budget > 0 /\ budget' = budget - 1
Touchable(p) == PidOf[p] \notin Unsafe

\* A process starts under a number that is free: forked by q, or unrelated.
Fork(p, q) ==
    /\ Disturb("fork")
    /\ status[p] = "unborn" /\ Occupant(PidOf[p]) = NoProc
    /\ status[q] \in Active /\ Touchable(q)
    /\ status' = [status EXCEPT ![p] = "running"]
    /\ parent' = [parent EXCEPT ![p] = q]
    /\ pgrp' = [pgrp EXCEPT ![p] = pgrp[q]]
    /\ name' = [name EXCEPT ![p] = name[q]]
    /\ UNCHANGED <<pending, meddled>>

Spawn(p) ==
    /\ Disturb("spawn")
    /\ status[p] = "unborn" /\ Occupant(PidOf[p]) = NoProc
    /\ status' = [status EXCEPT ![p] = "running"]
    /\ \E o \in Outside : parent' = [parent EXCEPT ![p] = o]
    /\ \E g \in Group : pgrp' = [pgrp EXCEPT ![p] = g]
    /\ UNCHANGED <<name, pending, meddled>>

\* It exits, or somebody else kills it (stopped processes can be killed too).
Die(p) ==
    /\ Disturb("die")
    /\ status[p] \in Live /\ Touchable(p)
    /\ Perish(p)
    /\ UNCHANGED <<pgrp, name, meddled>>

Exec(p) ==
    /\ Disturb("exec")
    /\ status[p] \in Active /\ Touchable(p)
    /\ \E n \in Name \ {name[p]} : name' = [name EXCEPT ![p] = n]
    /\ UNCHANGED <<status, parent, pgrp, pending, meddled>>

\* setpgid: by the process, or by its parent even while it is stopped.
Regroup(p) ==
    /\ Disturb("regroup")
    /\ status[p] \in Live /\ Touchable(p)
    /\ \E g \in Group \ {pgrp[p]} : pgrp' = [pgrp EXCEPT ![p] = g]
    /\ \/ status[p] \in Active /\ UNCHANGED meddled
       \/ /\ parent[p] \in Proc => status[parent[p]] \in Active
          /\ meddled' = meddled \cup {p}
    /\ UNCHANGED <<status, parent, name, pending>>

OutsideStop(p) ==
    /\ Disturb("stop")
    /\ status[p] \in Active /\ Touchable(p)
    /\ status' = [status EXCEPT ![p] = "stopped"]
    /\ meddled' = meddled \cup {p}
    /\ UNCHANGED <<parent, pgrp, name, pending>>

OutsideCont(p) ==
    /\ Disturb("cont")
    /\ status[p] \in {"stopping", "stopped"} /\ Touchable(p)
    /\ status' = [status EXCEPT ![p] = "running"]
    /\ meddled' = meddled \cup {p}
    /\ UNCHANGED <<parent, pgrp, name, pending>>

\* A stop that is under way when a behaviour starts is somebody else's.
KernelInit ==
    /\ \E t \in Start : /\ status = t.status /\ parent = t.parent
                        /\ pgrp = t.pgrp /\ name = t.name
    /\ pending = [p \in Proc |-> {}]
    /\ meddled = {p \in Proc : status[p] = "stopping"}
    /\ budget = MaxDisturbances

KernelStep ==
    \E p \in Proc :
        \/ StopTakesEffect(p) \/ TermTakesEffect(p) \/ KillTakesEffect(p) \/ Reap(p)
        \/ \E q \in Proc : Fork(p, q)
        \/ Spawn(p) \/ Die(p) \/ Exec(p) \/ Regroup(p)
        \/ OutsideStop(p) \/ OutsideCont(p)
=============================================================================
