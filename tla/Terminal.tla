------------------------------- MODULE Terminal ------------------------------
(***************************************************************************)
(* The terminal application: App of src/src/app.rs, driven by the actions   *)
(* of src/src/input.rs and the event loop of src/src/ui/mod.rs.             *)
(*                                                                         *)
(* One thread draws, takes keys, polls its workers and carries out kills.   *)
(* Three workers read behind its back: the refresh worker a snapshot, the    *)
(* context worker facts about the selected process, the preview worker the   *)
(* tree of a kill that is being confirmed.  By the time an answer is taken   *)
(* the selection, the snapshot or the process itself may be another one.     *)
(***************************************************************************)
EXTENDS KillTargets, FiniteSetsExt

CONSTANTS
    Modes,          \* KillMode: "TERM", "KILL"
    MaxSignals      \* bound: no kill is asked for after this many signals

ASSUME TerminalAssumption == Modes \subseteq {"TERM", "KILL"} /\ MaxSignals \in Nat

VARIABLES
    network,          \* network_snapshot and its rows
    selected,         \* the key of the selected row
    modal,            \* what is open on top of the table
    refreshWorker, refreshAfterKill,
    contextWorker, contextRequested,
    context,          \* selected_context_key and selected_process_context
    previewWorker,
    killing,          \* the kill being carried out, which blocks the loop
    quit,             \* the loop is over (should_quit, or see TerminalSession)
    overtaken         \* history: the refresh worker began before the last delivery

readerVars == <<refreshWorker, refreshAfterKill, contextWorker, contextRequested, context,
                previewWorker>>
appVars == <<network, selected, modal, readerVars, killing, quit, overtaken>>
appAndWorld == <<worldVars, unreadable, signals, appVars>>

None == [st |-> "none"]     \* no worker, no modal, no kill, no context
NoPid == 0
NoRow == [pid |-> NoPid, at |-> "nowhere"]

\* RowKey: a number and a place, but no start marker.
Keys(view) == {[pid |-> edge[2], at |-> EndpointOf[edge[1]]] : edge \in view.edges}
              \cup {[pid |-> NoPid, at |-> e] : e \in view.hidden}
OwnerIn(view, key) == IF key.pid = NoPid THEN NoProc ELSE view.who[key.pid]

\* kill_target_with_optional_context: all rows of the process, and what is known
\* about it beyond them.
TargetOf(view, pid, facts) ==
    [TargetFrom(view, pid, RowsOfPid(view, pid)) EXCEPT !.facts = facts]

Showing(kind) == modal.st = kind
Confirming == modal.st \in {"ConfirmKill", "ConfirmTree"}
AtWork(worker) == worker.st = "running"
Idle(worker) == worker.st = "none"

TerminalTypeOK ==
    /\ modal.st \in {"none", "Details", "Help", "ConfirmKill", "ConfirmTree"}
    /\ {refreshWorker.st, previewWorker.st} \subseteq {"none", "running", "done", "failed"}
    /\ contextWorker.st \in {"none", "running", "read", "done", "lost"}
    /\ {refreshAfterKill, contextRequested, quit} \subseteq BOOLEAN
    /\ killing.st \in {"none", "pin", "ports", "gates", "deliver"}

-----------------------------------------------------------------------------
\* Workers.  A thread that cannot be started is a fault.

Spawning(ok) == IF ok THEN UNCHANGED budget ELSE Fault("spawn")

NewRefresh == [st |-> "running", stale |-> FALSE, view |-> NoView]
NewContext(view, key) ==
    [st |-> "running", key |-> key, who |-> OwnerIn(view, key), found |-> NoProc, stale |-> FALSE]
NewPreview(pid) == [st |-> "running", pid |-> pid, scan |-> None]

\* load_selected_process_context, in the state s: nothing to do, or the worker is
\* at it, or it is asked for once the worker is free, or a worker starts.
Reading == [worker |-> contextWorker, wanted |-> contextRequested, shown |-> context]
Load(s, view, key, ok) ==
    IF s.shown.st = "known" /\ s.shown.key = key THEN [s EXCEPT !.wanted = FALSE]
    ELSE IF ~Idle(s.worker)
    THEN IF s.worker.key = key /\ ~s.worker.stale THEN s
         ELSE [s EXCEPT !.wanted = TRUE, !.shown = None]
    ELSE [worker |-> IF key = NoRow \/ ~ok THEN None ELSE NewContext(view, key),
          wanted |-> FALSE, shown |-> None]

BecomesReading(s) ==
    contextWorker' = s.worker /\ contextRequested' = s.wanted /\ context' = s.shown

\* The refresh worker: one snapshot.  What an outdated worker reads is not kept,
\* as nobody takes it.
CollectRows ==
    /\ AtWork(refreshWorker)
    /\ \/ /\ refreshWorker' = [refreshWorker EXCEPT !.st = "done",
                                   !.view = IF refreshWorker.stale THEN @ ELSE ViewNow]
          /\ UNCHANGED budget
       \/ Fault("collect") /\ refreshWorker' = [refreshWorker EXCEPT !.st = "failed"]

\* same_generation_context: the facts count if the process has the marker of the
\* row both while they are read and afterwards.
SameGeneration(w) == w.key.pid # NoPid /\ ~w.stale /\ Occupant(w.key.pid) = w.who
ReadContext ==
    \/ /\ AtWork(contextWorker)
       /\ contextWorker' = [contextWorker EXCEPT !.st = "read",
              !.found = IF SameGeneration(contextWorker) THEN Occupant(contextWorker.key.pid)
                        ELSE NoProc]
       /\ UNCHANGED budget
    \/ /\ contextWorker.st = "read"
       /\ contextWorker' = [contextWorker EXCEPT !.st = "done",
              !.found = IF SameGeneration(contextWorker) THEN @ ELSE NoProc]
       /\ UNCHANGED budget
    \/ /\ AtWork(contextWorker) /\ Fault("lost")
       /\ contextWorker' = [contextWorker EXCEPT !.st = "lost"]

\* collect_tree_preview, and the gates the execution passes again: the tree of a
\* process as a scan shows it, and the first reason not to signal it.
Tree(p) == {q \in Proc : status[q] \in Present /\ Descends(q, p)}
Scan(pid) ==
    LET root == Occupant(pid)
        tree == Tree(root)
    IN  [st |-> "scanned",
         protected |-> root # NoProc /\ name[root] \in Protected,
         refusal |-> IF root = NoProc THEN "RootAlreadyExited"
                     ELSE IF Cardinality(tree) > MemberCap THEN "Truncated"
                     ELSE IF \E q \in tree : PidOf[q] \in Unsafe THEN "UnsafePid"
                     ELSE IF \E q \in tree \ {root} : name[q] \in Protected
                     THEN "ProtectedDescendant" ELSE "none"]
PreviewTree ==
    /\ AtWork(previewWorker)
    /\ \/ /\ previewWorker' = [previewWorker EXCEPT !.st = "done", !.scan = Scan(previewWorker.pid)]
          /\ UNCHANGED budget
       \/ Fault("collect") /\ previewWorker' = [previewWorker EXCEPT !.st = "failed"]

WorkerStep ==
    /\ \/ CollectRows /\ UNCHANGED <<contextWorker, previewWorker>>
       \/ ReadContext /\ UNCHANGED <<refreshWorker, previewWorker>>
       \/ PreviewTree /\ UNCHANGED <<refreshWorker, contextWorker>>
    /\ Unmoved
    /\ UNCHANGED <<holds, unreadable, signals, network, selected, modal, refreshAfterKill,
                   contextRequested, context, killing, quit, overtaken>>

-----------------------------------------------------------------------------
\* Polls of the event loop

\* refresh: one worker at a time.
StartRefresh(worker, ok) == IF Idle(worker) /\ ok THEN NewRefresh ELSE worker

\* apply_network_snapshot: what was read about the selection is of the snapshot
\* before, and so is the answer of a context worker still at work.  The selection
\* stays with its key, or falls to a neighbour.
Outdated(worker) == IF Idle(worker) THEN worker
                    ELSE [worker EXCEPT !.stale = TRUE, !.found = NoProc]
KeepShown(s) == [s EXCEPT !.wanted = FALSE, !.worker = Outdated(@)]
Outdate(s) == [s EXCEPT !.wanted = FALSE, !.shown = None, !.worker = Outdated(@)]
Neighbours(view, key) ==
    IF key \in Keys(view) THEN {key} ELSE IF Keys(view) = {} THEN {NoRow} ELSE Keys(view)

ApplySnapshot(view, ok) ==
    /\ network' = view
    /\ selected' \in Neighbours(view, selected)
    /\ BecomesReading(IF Showing("Details") THEN Load(Outdate(Reading), view, selected', ok)
                      ELSE Outdate(Reading))

PollRefresh(ok) ==
    /\ refreshWorker.st \in {"done", "failed"}
    /\ IF refreshWorker.st = "done" /\ ~refreshWorker.stale
       THEN ApplySnapshot(refreshWorker.view, ok)
       ELSE UNCHANGED <<network, selected, contextWorker, contextRequested, context>>
    /\ refreshAfterKill' = FALSE
    /\ refreshWorker' = IF refreshAfterKill THEN StartRefresh(None, ok) ELSE None
    /\ UNCHANGED <<modal, previewWorker>>

\* poll_process_context: an answer of this snapshot goes to the row it was asked
\* for, if that is selected, and to an open confirmation of that number; then what
\* was asked for meanwhile is begun.
NeverPending(s, ok) == s
StartPending(s, ok) ==
    IF s.wanted THEN Load([s EXCEPT !.wanted = FALSE], network, selected, ok) ELSE s
SameFacts(found, who) == found \in {NoProc, who}
PollContext(ok) ==
    LET w == contextWorker
        fresh == w.st = "done" /\ ~w.stale
        owner == IF w.key = NoRow THEN NoProc ELSE OwnerIn(network, w.key)
        counts == fresh /\ SameFacts(w.found, owner)
        read == [Reading EXCEPT !.worker = None,
                    !.shown = IF counts /\ selected = w.key
                              THEN [st |-> "known", key |-> w.key, found |-> w.found] ELSE @]
    IN  /\ w.st \in {"done", "lost"}
        /\ modal' = IF counts /\ Confirming /\ modal.target.pid = w.key.pid
                    THEN [modal EXCEPT !.target = [TargetOf(network, w.key.pid, w.found)
                              EXCEPT !.protected = @ \/ modal.target.protected]]
                    ELSE modal
        /\ BecomesReading(StartPending(read, ok))
        /\ UNCHANGED <<network, selected, refreshWorker, refreshAfterKill, previewWorker>>

\* poll_tree_preview and apply_tree_preview.  Protection only becomes stricter.
Reviewed(worker) ==
    IF ~Showing("ConfirmTree") THEN modal
    ELSE IF worker.st = "failed" \/ worker.pid # modal.target.pid \/ worker.scan.refusal # "none"
    THEN None
    ELSE [modal EXCEPT !.previewed = TRUE,
             !.target.protected = @ \/ worker.scan.protected,
             !.stage = IF worker.scan.protected /\ ~modal.target.protected
                       THEN "ProtectedRoot" ELSE @]
PollPreview ==
    /\ previewWorker.st \in {"done", "failed"}
    /\ modal' = Reviewed(previewWorker)
    /\ previewWorker' = None
    /\ UNCHANGED <<network, selected, refreshWorker, refreshAfterKill, contextWorker,
                   contextRequested, context>>

-----------------------------------------------------------------------------
\* Keys

Ready == ~AtWork(previewWorker) \* request_tree_kill waits for the scan before

Select ==
    /\ modal = None
    /\ \E key \in Keys(network) : key # selected /\ selected' = key
    /\ UNCHANGED <<network, modal, readerVars>>

OpenDetails(ok) ==
    /\ modal = None /\ selected # NoRow
    /\ modal' = [st |-> "Details"]
    /\ BecomesReading(Load(Reading, network, selected, ok))
    /\ UNCHANGED <<network, selected, refreshWorker, refreshAfterKill, previewWorker>>

OpenHelp ==
    /\ modal = None \/ Showing("Details")
    /\ modal' = [st |-> "Help"]
    /\ UNCHANGED <<network, selected, readerVars>>

CloseModal ==
    /\ Showing("Details") \/ Showing("Help")
    /\ modal' = None /\ contextRequested' = FALSE
    /\ UNCHANGED <<network, selected, refreshWorker, refreshAfterKill, contextWorker, context,
                   previewWorker>>

\* Refresh, by hand or because the interval is over: that waits while something is
\* being confirmed.
RefreshKey(ok) ==
    /\ ~Confirming /\ Idle(refreshWorker)
    /\ refreshWorker' = StartRefresh(refreshWorker, ok)
    /\ UNCHANGED <<network, selected, modal, refreshAfterKill, contextWorker, contextRequested,
                   context, previewWorker>>

\* resolve_selected_kill_target: the selected process as it is shown.
Killable == selected # NoRow /\ selected.pid # NoPid /\ selected.pid \notin Unsafe
Sent == MapThenSumSet(LAMBDA p : signals[p], Proc)
KnownFacts == IF context.st = "known" /\ context.key = selected THEN context.found ELSE NoProc
Resolve(ok) ==
    IF context.st = "known" /\ context.key = selected THEN UNCHANGED <<contextWorker, contextRequested, context>>
    ELSE BecomesReading(Load(Reading, network, selected, ok))

\* confirmation_requirement; confirm_force_kill is on.
Requirement(target, mode) ==
    IF target.protected THEN "ProtectedProcess" ELSE IF mode = "KILL" THEN "ForceWord" ELSE "Yes"

RequestKill(mode, ok) ==
    /\ modal = None /\ Killable /\ Sent < MaxSignals
    /\ Resolve(ok)
    /\ LET target == TargetOf(network, selected.pid, KnownFacts)
       IN  modal' = [st |-> "ConfirmKill", mode |-> mode, target |-> target, asked |-> target,
                     requirement |-> Requirement(target, mode), typed |-> {}]
    /\ UNCHANGED <<network, selected, refreshWorker, refreshAfterKill, previewWorker>>

RequestTreeKill(mode, ok, okPreview) ==
    /\ modal = None /\ Killable /\ Sent < MaxSignals /\ Ready
    /\ Resolve(ok)
    /\ LET target == TargetOf(network, selected.pid, KnownFacts)
       IN  modal' = IF okPreview
                    THEN [st |-> "ConfirmTree", mode |-> mode, target |-> target, asked |-> target,
                          stage |-> IF target.protected THEN "ProtectedRoot" ELSE "Word",
                          previewed |-> FALSE, typed |-> {}]
                    ELSE None
    /\ previewWorker' = IF okPreview THEN NewPreview(selected.pid) ELSE None
    /\ UNCHANGED <<network, selected, refreshWorker, refreshAfterKill>>

\* cancel_kill_confirmation, cancel_tree_confirmation, and when the terminal
\* becomes too small to show what must be shown.
Cancel ==
    /\ Confirming
    /\ modal' = None /\ contextRequested' = FALSE
    /\ UNCHANGED <<network, selected, refreshWorker, refreshAfterKill, contextWorker, context,
                   previewWorker>>

\* submit_tree_confirmation: first the protected root is named, then the word.
SubmitProtectedRoot ==
    /\ Showing("ConfirmTree") /\ modal.previewed /\ modal.stage = "ProtectedRoot"
    /\ modal' = [modal EXCEPT !.stage = "Word", !.typed = @ \cup {"ProtectedProcess"}]
    /\ UNCHANGED <<network, selected, readerVars>>

-----------------------------------------------------------------------------
\* A confirmed kill, step by step

\* process_context_loading_for_pid: a single kill waits until it is read.
Loading(pid) ==
    \/ ~Idle(contextWorker) /\ contextWorker.key.pid = pid
    \/ contextRequested /\ selected.pid = pid

Begin(typed) ==
    /\ killing' = [st |-> "pin", kill |-> [modal EXCEPT !.typed = @ \cup {typed}],
                   pin |-> NoProc, fresh |-> modal.target]
    /\ modal' = None

ExecuteKill ==
    /\ Showing("ConfirmKill") /\ ~Loading(modal.target.pid)
    /\ Begin(modal.requirement)
    /\ UNCHANGED <<network, selected, readerVars>>

ExecuteTreeKill ==
    /\ Showing("ConfirmTree") /\ modal.previewed /\ modal.stage = "Word"
    /\ Begin("ScopeWord")
    /\ previewWorker' = None
    /\ UNCHANGED <<network, selected, refreshWorker, refreshAfterKill, contextWorker,
                   contextRequested, context>>

\* refresh_after_kill: what a refresh worker at work has seen may be from before
\* the kill, so it is not taken, and another one starts when it is done.
IfIdle(ok) == refreshWorker' = StartRefresh(refreshWorker, ok) /\ UNCHANGED refreshAfterKill
RefreshAfterKill(ok) ==
    IF Idle(refreshWorker)
    THEN refreshWorker' = StartRefresh(refreshWorker, ok) /\ UNCHANGED refreshAfterKill
    ELSE refreshWorker' = [refreshWorker EXCEPT !.stale = TRUE] /\ refreshAfterKill' = TRUE

KillEnds(ok) == killing' = None /\ RefreshAfterKill(ok)
KillEndsUnrefreshed == killing' = None /\ UNCHANGED <<refreshWorker, refreshAfterKill>>
On(next) == killing' = next /\ UNCHANGED <<refreshWorker, refreshAfterKill>>
Single == killing.kill.st = "ConfirmKill"
Confirmed == killing.kill.target

PinTarget(ok) ==
    /\ killing.st = "pin"
    /\ IF Occupant(Confirmed.pid) = NoProc THEN KillEnds(ok)
       ELSE On([killing EXCEPT !.st = "ports", !.pin = Occupant(Confirmed.pid)])

\* Any other error of pidfd_open leaves the process running, so nothing is refreshed.
PinFailed ==
    /\ killing.st = "pin" /\ Fault("pin") /\ KillEndsUnrefreshed
    /\ Unmoved /\ UNCHANGED <<holds, signals, overtaken>>

\* collect_kill_ports and revalidate_confirmed_target: the rows of the process on
\* the ports that were shown.
Revalidated(view) ==
    LET edges == {e \in RowsOfPid(view, Confirmed.pid) :
                     EndpointOf[e[1]] \in Confirmed.endpoints}
        now == TargetFrom(view, Confirmed.pid, edges)
    IN  /\ view.hidden \cap Confirmed.endpoints = {}
        /\ edges # {} /\ StillMatches(Confirmed, now)
        /\ now.protected => Confirmed.protected

RevalidateTarget(ok) ==
    /\ killing.st = "ports"
    /\ IF ~Revalidated(ViewNow) THEN KillEnds(ok)
       ELSE On([killing EXCEPT !.st = IF Single THEN "deliver" ELSE "gates",
                    !.fresh = TargetOf(ViewNow, Confirmed.pid, NoProc)])

\* fresh_tree_gates: only a process that has gone makes the table worth reading
\* again.
Gates(ok) ==
    /\ killing.st = "gates"
    /\ LET scan == Scan(Confirmed.pid)
       IN  IF scan.refusal = "RootAlreadyExited" THEN KillEnds(ok)
           ELSE IF scan.refusal # "none" \/ (scan.protected /\ ~Confirmed.protected)
           THEN KillEndsUnrefreshed
           ELSE On([killing EXCEPT !.st = "deliver"])

CollectFailed ==
    /\ killing.st \in {"ports", "gates"} /\ Fault("collect") /\ KillEndsUnrefreshed
    /\ Unmoved /\ UNCHANGED <<holds, signals, overtaken>>

\* The delivery, in one step: of one process as module SingleKill shows it, of a
\* tree as module FreezeKill does.
AnyProcess(p) == TRUE
StillPinned(p) == Alive(p) /\ killing.fresh.who = p /\ name[p] = killing.fresh.name
Victims ==
    LET p == killing.pin
        tree == Tree(p)
    IN  IF Single THEN IF StillPinned(p) /\ ~Forbidden(p) THEN {p} ELSE {}
        ELSE IF /\ Alive(p) /\ killing.fresh.who = p
                /\ \A q \in tree : /\ PidOf[q] \notin Unsafe /\ ~Forbidden(q)
                                   /\ name[q] \in Protected => q = p /\ Confirmed.protected
        THEN tree ELSE {}
DeliverKill(ok) ==
    /\ killing.st = "deliver"
    /\ Deliver(killing.kill.mode, Victims)
    /\ killing' = None
    /\ RefreshAfterKill(ok)
    /\ overtaken' = (Victims # {} /\ ~Idle(refreshWorker))

KillStep ==
    /\ \/ \E ok \in BOOLEAN :
            /\ Spawning(ok)
            /\ \/ (PinTarget(ok) \/ RevalidateTarget(ok) \/ Gates(ok)) /\ Unmoved
                  /\ UNCHANGED <<signals, holds, overtaken>>
               \/ DeliverKill(ok)
       \/ PinFailed \/ CollectFailed
    /\ UNCHANGED <<unreadable, network, selected, modal, contextWorker, contextRequested, context,
                   previewWorker, quit>>
-----------------------------------------------------------------------------
\* The loop

Loop(action) ==
    /\ killing = None /\ ~quit /\ action
    /\ Unmoved /\ UNCHANGED <<holds, unreadable, signals, killing>>

TakeRefresh == \E ok \in BOOLEAN :
    Loop(Spawning(ok) /\ PollRefresh(ok)) /\ overtaken' = FALSE /\ UNCHANGED quit
TakeContext == \E ok \in BOOLEAN :
    Loop(Spawning(ok) /\ PollContext(ok)) /\ UNCHANGED <<quit, overtaken>>
TakePreview == Loop(PollPreview) /\ UNCHANGED <<budget, quit, overtaken>>

Key ==
    \/ \E ok \in BOOLEAN : /\ Spawning(ok)
                           /\ \/ OpenDetails(ok) \/ RefreshKey(ok)
                              \/ \E mode \in Modes : \/ RequestKill(mode, ok)
                                                     \/ RequestTreeKill(mode, ok, TRUE)
                                                     \/ RequestTreeKill(mode, TRUE, ok)
    \/ (Select \/ OpenHelp \/ CloseModal \/ Cancel \/ SubmitProtectedRoot) /\ UNCHANGED budget
TakeKey == Loop(Key) /\ UNCHANGED <<quit, overtaken>>

\* The App is dropped, and with it whatever its workers find.
Drop ==
    /\ Loop(quit' = TRUE)
    /\ network' = NoView /\ selected' = NoRow /\ modal' = None
    /\ refreshWorker' = None /\ refreshAfterKill' = FALSE /\ contextWorker' = None
    /\ contextRequested' = FALSE /\ context' = None /\ previewWorker' = None
    /\ overtaken' = FALSE

\* Enter, or y: the loop stands still until the kill is over.
Submit ==
    /\ killing = None /\ ~quit /\ (ExecuteKill \/ ExecuteTreeKill)
    /\ UNCHANGED <<worldVars, unreadable, signals, quit, overtaken>>

Meanwhile ==
    /\ ~quit
    /\ WorldStep \/ \E p, q \in Proc : Respawn(p, q)
    /\ UNCHANGED <<unreadable, signals, appVars>>

\* App::new shows a first snapshot.
AppInit ==
    /\ WorldInit /\ TargetsInit
    /\ network = ViewNow /\ selected \in Neighbours(network, NoRow)
    /\ modal = None /\ refreshWorker = None /\ refreshAfterKill = FALSE
    /\ contextWorker = None /\ contextRequested = FALSE /\ context = None
    /\ previewWorker = None /\ killing = None /\ quit = FALSE /\ overtaken = FALSE

AppStep ==
    \/ WorkerStep \/ TakeRefresh \/ TakeContext \/ TakePreview
    \/ TakeKey \/ Submit \/ KillStep \/ Meanwhile

-----------------------------------------------------------------------------
\* Properties

\* A signal goes to the very process whose facts were on the screen when the user
\* asked for the kill, still running the program shown there (of a tree, to it and
\* its descendants), and to a protected one only if its name was typed: whatever
\* the table, the selection and the context have become since (app.rs 1236-1240,
\* tree_action.rs 56-63).
SignalsWhatWasConfirmed ==
    [][\A p \in Proc : signals'[p] > signals[p] =>
         LET kill == killing.kill
         IN  /\ IF kill.st = "ConfirmKill" THEN p = kill.asked.who /\ name[p] = kill.asked.name
                ELSE Descends(p, kill.asked.who)
             /\ name[p] \in Protected =>
                  p = kill.asked.who /\ "ProtectedProcess" \in kill.typed]_<<signals, killing, name>>

\* What is on the screen is of one process: an open confirmation keeps to the
\* process it was opened for, protection that was never typed for never counts as
\* confirmed, and the facts added to it, or shown of the selected row, are of that
\* incarnation or none (app.rs 411-416, helpers.rs 47-53).
ShownIsOneProcess ==
    /\ Confirming =>
         /\ modal.target.who = modal.asked.who /\ modal.target.name = modal.asked.name
         /\ modal.target.facts \in {NoProc, modal.target.who}
         /\ modal.st = "ConfirmTree" /\ modal.target.protected =>
              modal.stage = "ProtectedRoot" \/ "ProtectedProcess" \in modal.typed
         /\ modal.st = "ConfirmKill" /\ modal.target.protected =>
              modal.requirement = "ProtectedProcess"
    /\ context.st = "known" /\ context.key = selected =>
         context.found \in {NoProc, OwnerIn(network, selected)}

\* No snapshot that a worker began before a kill was delivered is shown after it
\* (app.rs 1490-1498): freed ports do not come back to the table.
NoOlderSnapshotAfterKill ==
    [][network' # network /\ ~quit' => ~overtaken]_<<network, overtaken, quit>>

\* A confirmation the user leaves open can be answered at last: "still reading
\* process metadata" does not last (app.rs 1406-1411).
ConfirmationAnswerable ==
    Showing("ConfirmKill") ~> (~Showing("ConfirmKill") \/ ~Loading(modal.target.pid) \/ quit)
=============================================================================
