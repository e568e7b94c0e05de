------------------------------- MODULE Settle -------------------------------
(***************************************************************************)
(* What the CLI reports after a kill: settle of src/src/cli/settle.rs.      *)
(*                                                                         *)
(* A delivered signal is not an exit, and an exit does not free a port.     *)
(* For a bounded number of rounds the loop asks whether each signalled      *)
(* process exited, and then whether the confirmed ports are still visible.  *)
(* The world (module Sockets) moves between any two of its reads.           *)
(***************************************************************************)
EXTENDS Sockets

CONSTANTS
    SettleAttemptsMax,   \* SETTLE_ATTEMPTS_MAX
    SettleFaults         \* what may fail: "exit", "refresh"

ASSUME SettleAssumption == SettleAttemptsMax \in Nat \ {0}

VARIABLES
    settling,      \* the next step of the loop
    attempt,       \* rounds begun
    awaited,       \* pending: identities not seen to have exited
    unasked,       \* those of them not asked about in this round
    exited,        \* identities seen to have exited
    unsure,        \* identities whose last exit check failed
    wanted,        \* the confirmed ports
    portsStatus,   \* PortsStatus
    visible,       \* visible_ports
    deadBefore,    \* history: awaited identities dead when this round began
    busy           \* history: confirmed ports somebody had at some time in it

reportVars == <<awaited, exited, unsure, wanted, portsStatus, visible>>
settleVars == <<settling, attempt, unasked, deadBefore, busy, reportVars>>

SettleTypeOK ==
    /\ settling \in {"idle", "exits", "ports", "pause", "settled"}
    /\ attempt \in 0..SettleAttemptsMax
    /\ awaited \cup exited \cup unsure \cup unasked \subseteq Proc
    /\ visible \subseteq wanted /\ wanted \subseteq Endpoint
    /\ portsStatus \in {"NotChecked", "Cleared", "StillVisible", "RefreshFailed"}

-----------------------------------------------------------------------------

\* A round begins (its history is of the world at that moment).
BeginRound(ids, ports) ==
    /\ unasked' = ids
    /\ deadBefore' = {p \in ids : ~Alive(p)}
    /\ busy' = ShownEndpoints \cap ports

\* Whatever the round's asks have found, the ports come next, if they are polled.
AfterExits == IF portsStatus = "StillVisible" THEN "ports" ELSE "pause"

\* settle, called with the identities signalled and the ports confirmed.
Settle(ids, ports) ==
    /\ settling' = IF ids = {} /\ ports = {} THEN "pause" ELSE IF ids = {} THEN "ports" ELSE "exits"
    /\ attempt' = 1
    /\ awaited' = ids /\ exited' = {} /\ unsure' = {}
    /\ wanted' = ports /\ visible' = {}
    /\ portsStatus' = IF ports = {} THEN "NotChecked" ELSE "StillVisible"
    /\ BeginRound(ids, ports)

\* observe_exit: by number, and the incarnation is told by its marker.
ByNumber(p) == ~\E q \in Proc : Has(PidOf[p], q) /\ Alive(q)
HasExited(p) == ~Alive(Occupant(PidOf[p])) \/ Occupant(PidOf[p]) # p

FirstUnasked == CHOOSE p \in unasked : \A q \in unasked : PidOf[p] <= PidOf[q]

ObserveExit ==
    /\ settling = "exits"
    /\ LET p == FirstUnasked
       IN  \/ /\ HasExited(p)
              /\ awaited' = awaited \ {p} /\ exited' = exited \cup {p}
              /\ unsure' = unsure \ {p}
              /\ UNCHANGED budget
           \/ /\ ~HasExited(p)
              /\ unsure' = unsure \ {p}
              /\ UNCHANGED <<awaited, exited, budget>>
           \/ /\ "exit" \in SettleFaults /\ budget > 0 /\ budget' = budget - 1
              /\ unsure' = unsure \cup {p}
              /\ UNCHANGED <<awaited, exited>>
    /\ unasked' = unasked \ {FirstUnasked}
    /\ settling' = IF unasked' # {} THEN "exits" ELSE AfterExits
    /\ UNCHANGED <<status, parent, pgrp, name, pending, meddled, holds,
                   attempt, wanted, portsStatus, visible, deadBefore, busy>>

\* confirmed_ports_visible over one collection, or the collection failed: then
\* the ports are not polled again.
PollPorts ==
    /\ settling = "ports" /\ settling' = "pause"
    /\ \/ /\ visible' = ShownEndpoints \cap wanted
          /\ portsStatus' = IF visible' = {} THEN "Cleared" ELSE "StillVisible"
          /\ UNCHANGED budget
       \/ /\ "refresh" \in SettleFaults /\ budget > 0 /\ budget' = budget - 1
          /\ visible' = {} /\ portsStatus' = "RefreshFailed"
    /\ UNCHANGED <<status, parent, pgrp, name, pending, meddled, holds,
                   attempt, awaited, unasked, exited, unsure, wanted,
                   deadBefore, busy>>

\* Every fact is settled, the rounds are used up, or there is one round more.
AllSettled == awaited = {} /\ portsStatus # "StillVisible"

Pause ==
    /\ settling = "pause"
    /\ IF AllSettled \/ attempt = SettleAttemptsMax
       THEN settling' = "settled" /\ UNCHANGED <<attempt, unasked, deadBefore, busy>>
       ELSE /\ attempt' = attempt + 1
            /\ settling' = IF awaited = {} THEN "ports" ELSE "exits"
            /\ BeginRound(awaited, wanted)
    /\ UNCHANGED <<worldVars, reportVars>>

SettleStep == ObserveExit \/ PollPorts \/ Pause

\* The report's three lists.
Running == awaited \ unsure
Unknown == awaited \cap unsure

SettleInit ==
    /\ settling = "idle" /\ attempt = 0
    /\ awaited = {} /\ unasked = {} /\ exited = {} /\ unsure = {}
    /\ wanted = {} /\ portsStatus = "NotChecked" /\ visible = {}
    /\ deadBefore = {} /\ busy = {}

\* The world moves during a round.
Watched ==
    /\ busy' = busy \cup (ShownEndpoints' \cap wanted)
    /\ UNCHANGED <<settling, attempt, unasked, deadBefore, reportVars>>

-----------------------------------------------------------------------------
\* Properties

\* The report does not speak of an earlier world: who it says exited has, who it
\* says runs was alive when the last round began, whoever has their number since,
\* and each port it says is visible was taken at some time in that round
\* (settle.rs 3-7).
ReportIsCurrent ==
    settling = "settled" =>
        /\ \A p \in exited : ~Alive(p)
        /\ Running \cap deadBefore = {}
        /\ visible \subseteq busy /\ (portsStatus = "StillVisible" <=> visible # {})
=============================================================================
