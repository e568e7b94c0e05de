--------------------------- MODULE TerminalSession --------------------------
(***************************************************************************)
(* What a terminal session borrows from the process and gives back          *)
(* (run_owned, run and finalize_unix of src/src/ui/mod.rs): the panic hook,  *)
(* the dispositions of SIGTERM and SIGHUP, the signal mask, and the screen.  *)
(*                                                                         *)
(* A termination signal may come at any moment.  Inside the event loop it is *)
(* modelled as coming in the turn that looks at it: the handler only sets    *)
(* the slot, which nothing else reads.  Before the handlers are installed it *)
(* is none of the session's business.                                       *)
(*                                                                         *)
(* The terminal application, the loop of module Terminal, runs between the   *)
(* entry of the session and its teardown.                                    *)
(***************************************************************************)
EXTENDS Terminal

CONSTANTS
    Termination,    \* the signals that end a session: SIGTERM, SIGHUP
    Disposition     \* what a handler found may do: "default", "ignored", "custom"

ASSUME TerminalSessionAssumption ==
    "default" \in Disposition /\ Termination \cap {"none", "quit", "error"} = {}

VARIABLES
    session,              \* how far run_owned, run and finalize_unix are
    hook,                 \* the dispatching panic hook is installed and active
    handlers,             \* signals with the recording handler
    found,                \* the dispositions install read: nothing looks at them before
                          \* the teardown, so they are chosen there
    slot,                 \* TERMINATION_SIGNAL
    blocked, queued,      \* the signal mask, and what waits behind it
    raw, alternate,       \* the screen
    active,               \* TERMINAL_ACTIVE
    outcome,              \* of the startup or the loop
    orphan,               \* a worker nobody waits for any more
    arrived, acted,       \* history: the signals that came, and those acted on
    panicked, scribbled   \* history: the owner panicked; a diagnostic went to the
                          \* alternate screen

screenVars == <<raw, alternate, active>>
signalVars == <<handlers, found, slot, blocked, queued, arrived, acted>>
endVars == <<outcome, orphan, panicked, scribbled>>
sessionVars == <<session, hook, screenVars, signalVars, endVars>>

NoSignal == "none"

SessionTypeOK ==
    /\ {hook, blocked, raw, alternate, active, panicked, scribbled} \subseteq BOOLEAN
    /\ UNION {handlers, queued, arrived, acted} \subseteq Termination
    /\ slot \in Termination \cup {NoSignal}
    /\ outcome \in Termination \cup {"none", "quit", "error"}
    /\ orphan \in {"none", "running", "panicked"}

SessionInit ==
    /\ session = "new" /\ hook = FALSE
    /\ handlers = {} /\ found = [s \in Termination |-> "unread"] /\ slot = NoSignal
    /\ blocked = FALSE /\ queued = {} /\ arrived = {} /\ acted = {}
    /\ raw = FALSE /\ alternate = FALSE /\ active = FALSE
    /\ outcome = "none" /\ orphan = "none" /\ panicked = FALSE /\ scribbled = FALSE

To(next) == session' = next
EndsAs(result, next) == outcome' = result /\ To(next)

\* record_first_signal, of one of the signals that are delivered at once.
Recorded(before, delivered) ==
    IF before # NoSignal \/ delivered = {} THEN {before} ELSE delivered

\* take_termination_signal: the slot is empty afterwards.
TakeTerminationSignal == slot # NoSignal /\ slot' = NoSignal

\* A signal waits behind the mask, or the handler records the first.
SignalComes ==
    /\ session # "loop" /\ (handlers # {} \/ blocked)
    /\ \E s \in Termination \ arrived :
         /\ arrived' = arrived \cup {s}
         /\ IF blocked THEN queued' = queued \cup {s} /\ UNCHANGED slot
            ELSE slot' \in Recorded(slot, {s}) /\ UNCHANGED queued
    /\ UNCHANGED <<session, hook, screenVars, handlers, found, blocked, acted, endVars, budget>>

-----------------------------------------------------------------------------
\* Entering

\* run_owned: the session lock and install_panic_hook.
InstallPanicHook ==
    /\ session = "new" /\ To("hooked") /\ hook' = TRUE
    /\ UNCHANGED <<screenVars, signalVars, endVars, budget>>

\* TuiSignalGuard::install: the handler of SIGTERM is put back if that of SIGHUP
\* cannot be replaced.
InstallHandlers ==
    /\ session = "hooked"
    /\ \/ handlers' = Termination /\ To("handled") /\ UNCHANGED <<outcome, budget>>
       \/ Fault("sigaction") /\ EndsAs("error", "unhook") /\ UNCHANGED handlers
    /\ slot' = NoSignal
    /\ UNCHANGED <<hook, screenVars, found, blocked, queued, arrived, acted, orphan, panicked,
                   scribbled>>

\* spawn_worker: the worker is created with the signals blocked, and starts once
\* the mask is as it was.
BlockForSpawn ==
    /\ session = "handled" /\ To("spawning") /\ blocked' = TRUE
    /\ UNCHANGED <<hook, screenVars, handlers, found, slot, queued, arrived, acted, endVars, budget>>

SpawnStartup ==
    /\ session = "spawning"
    /\ \/ To("starting") /\ UNCHANGED <<outcome, budget>>
       \/ Fault("spawn") /\ EndsAs("error", "block")
    /\ blocked' = FALSE /\ queued' = {} /\ slot' \in Recorded(slot, queued)
    /\ UNCHANGED <<hook, screenVars, handlers, found, arrived, acted, orphan, panicked, scribbled>>

\* wait_for_startup_worker: the signal is looked at before every wait; its worker
\* is then left to itself.
WaitForStartup ==
    /\ session = "starting"
    /\ \/ /\ To("entering") /\ UNCHANGED <<slot, outcome, orphan, budget>>
       \/ /\ TakeTerminationSignal /\ EndsAs(slot, "block")
          /\ orphan' = "running" /\ UNCHANGED budget
       \/ /\ Fault("panic") /\ EndsAs("error", "block") \* the worker's, caught
          /\ UNCHANGED <<slot, orphan>>
    /\ UNCHANGED <<hook, screenVars, handlers, found, blocked, queued, arrived, acted, panicked,
                   scribbled>>

\* restore_terminal_if_active and best_effort_restore
RestoreTerminalIfActive ==
    IF active THEN active' = FALSE /\ raw' = FALSE /\ alternate' = FALSE
    ELSE UNCHANGED screenVars

\* TerminalGuard::enter and enter_alternate_screen
EnterRawMode ==
    /\ session = "entering"
    /\ \/ raw' = TRUE /\ active' = TRUE /\ To("raw") /\ UNCHANGED <<outcome, budget>>
       \/ Fault("tty") /\ EndsAs("error", "block") /\ UNCHANGED <<raw, active>>
    /\ UNCHANGED <<hook, alternate, signalVars, orphan, panicked, scribbled>>

EnterAlternateScreen ==
    /\ session = "raw"
    /\ \/ alternate' = TRUE /\ To("loop") /\ UNCHANGED <<raw, active, outcome, budget>>
       \/ Fault("tty") /\ EndsAs("error", "block") /\ RestoreTerminalIfActive
    /\ UNCHANGED <<hook, signalVars, orphan, panicked, scribbled>>

-----------------------------------------------------------------------------
\* Leaving

\* event_loop returns: the user quits, a termination signal is there, or a worker
\* panicked or the terminal failed.  busy: some worker is still at work.
LoopReturns(busy) ==
    /\ session = "loop"
    /\ \/ EndsAs("quit", "block") /\ slot = NoSignal /\ UNCHANGED <<slot, arrived, budget>>
       \/ TakeTerminationSignal /\ EndsAs(slot, "block") /\ UNCHANGED <<arrived, budget>>
       \/ /\ slot = NoSignal /\ UNCHANGED <<slot, budget>>
          /\ \E s \in Termination \ arrived : arrived' = arrived \cup {s} /\ EndsAs(s, "block")
       \/ /\ slot = NoSignal /\ UNCHANGED <<slot, arrived>>
          /\ (Fault("panic") \/ Fault("tty")) /\ EndsAs("error", "block")
    /\ orphan' = IF busy THEN "running" ELSE orphan
    /\ UNCHANGED <<hook, screenVars, handlers, found, blocked, queued, acted, panicked, scribbled>>

\* The owner panics: the hook restores the screen before it prints.
OwnerPanics(busy) ==
    /\ session \in {"starting", "loop"} /\ Fault("panic")
    /\ To("unwinding") /\ panicked' = TRUE
    /\ IF hook THEN RestoreTerminalIfActive ELSE UNCHANGED screenVars
    /\ scribbled' = (scribbled \/ alternate')
    /\ orphan' = IF busy THEN "running" ELSE orphan
    /\ UNCHANGED <<hook, signalVars, outcome>>

\* The guards are dropped, that of the terminal first.
Unwind ==
    /\ session = "unwinding" /\ To("unhook")
    /\ RestoreTerminalIfActive /\ handlers' = {}
    /\ UNCHANGED <<hook, found, slot, blocked, queued, arrived, acted, endVars, budget>>

BlockTermination ==
    /\ session = "block" /\ To("drop") /\ blocked' = TRUE
    /\ UNCHANGED <<hook, screenVars, handlers, found, slot, queued, arrived, acted, endVars, budget>>

DropTerminal ==
    /\ session = "drop" /\ To("take") /\ RestoreTerminalIfActive
    /\ UNCHANGED <<hook, signalVars, endVars, budget>>

\* The signal the loop ended with, or else one that came after it had looked.
RequestedByLoop == IF outcome \in Termination THEN outcome ELSE NoSignal
RequestedSignal == IF outcome \in Termination THEN outcome ELSE slot

\* The rest of finalize_unix_after_block, up to the raise: with the handlers as
\* they were found, the signal is raised behind the mask.
RestoreAndRaise ==
    /\ session = "take" /\ To("unblock")
    /\ handlers' = {} /\ found' \in [Termination -> Disposition]
    /\ slot' = IF outcome \in Termination THEN slot ELSE NoSignal
    /\ queued' = queued \cup ({RequestedSignal} \ {NoSignal})
    /\ UNCHANGED <<hook, screenVars, blocked, arrived, acted, endVars, budget>>

\* With the mask as it was, what waits is delivered as the embedder wants it.
Unblock ==
    /\ session = "unblock" /\ blocked' = FALSE
    /\ queued' = {} /\ acted' = acted \cup queued
    /\ To(IF \E s \in queued : found[s] = "default" THEN "killed" ELSE "unhook")
    /\ UNCHANGED <<hook, screenVars, handlers, found, slot, arrived, endVars, budget>>

\* PanicHookGuard::drop, then the session lock is free.
Unhook ==
    /\ session = "unhook" /\ To("over") /\ hook' = FALSE
    /\ UNCHANGED <<screenVars, signalVars, endVars, budget>>

\* An abandoned worker panics: the hook says nothing of a worker while it is
\* active, and its failure is written when the session lock is free.
OrphanPanics ==
    /\ orphan = "running" /\ session # "killed" /\ Fault("panic")
    /\ orphan' = "panicked" /\ scribbled' = (scribbled \/ (~hook /\ alternate))
    /\ UNCHANGED <<session, hook, screenVars, signalVars, outcome, panicked>>

ReportAbandonedFailure ==
    /\ orphan = "panicked" /\ session = "over"
    /\ orphan' = "none" /\ scribbled' = (scribbled \/ alternate)
    /\ UNCHANGED <<session, hook, screenVars, signalVars, outcome, panicked, budget>>

\* All of it but the loop.
SessionStep ==
    \/ SignalComes
    \/ InstallPanicHook \/ InstallHandlers \/ BlockForSpawn \/ SpawnStartup \/ WaitForStartup
    \/ EnterRawMode \/ EnterAlternateScreen
    \/ (session = "starting" /\ OwnerPanics(TRUE)) \/ Unwind
    \/ BlockTermination \/ DropTerminal \/ RestoreAndRaise \/ Unblock \/ Unhook
    \/ OrphanPanics \/ ReportAbandonedFailure

-----------------------------------------------------------------------------
\* The session and the application

terminalVars == <<appAndWorld, sessionVars>>

\* The loop looks for a signal before anything else.
InLoop(action) == session = "loop" /\ slot = NoSignal /\ action /\ UNCHANGED sessionVars

Busy == AtWork(refreshWorker) \/ contextWorker.st \in {"running", "read"} \/ AtWork(previewWorker)

\* The loop returns, or is unwound, and the App is dropped.
LoopEnds == session = "loop" /\ Drop /\ (LoopReturns(Busy) \/ OwnerPanics(Busy))

\* Everything but the loop; the processes' doings meanwhile are nobody's business.
Around == SessionStep /\ UNCHANGED <<status, parent, pgrp, name, pending, meddled, holds,
                                     unreadable, signals, appVars>>

TerminalInit == AppInit /\ SessionInit
Stopped == session \in {"over", "killed"} /\ UNCHANGED terminalVars

TerminalNext == InLoop(AppStep) \/ LoopEnds \/ Around \/ Stopped
TerminalSpec == TerminalInit /\ [][TerminalNext]_terminalVars

\* The context worker's reads are bounded and the loop polls it on every turn; it
\* and the kills are there only while the loop runs.  Nobody need press a key.
ContextProgress == (WorkerStep /\ UNCHANGED <<refreshWorker, previewWorker>>) \/ TakeContext
FairTerminalSpec == TerminalSpec /\ WF_appAndWorld(ContextProgress)

\* A session leaves the process as it found it, however it ends: the screen is
\* restored before anything can kill the process or print, handlers, mask and
\* hook are given back, no diagnostic goes to the alternate screen, and a
\* termination signal that came is acted on as the process had it before, unless
\* the owner panicked (ui/mod.rs 411-416, 426-431, 475-478, 680-687).
SessionIsUndone ==
    /\ session \in {"over", "killed"} => ~raw /\ ~alternate
    /\ session = "over" => handlers = {} /\ ~blocked /\ ~hook
    /\ session = "over" /\ arrived # {} /\ ~panicked => acted # {}
    /\ ~scribbled
=============================================================================
