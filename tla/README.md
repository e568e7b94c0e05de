# A formal model of Kickoutchi

Kickoutchi (`kick`) lists the sockets of the local machine with the processes
that own them, watches them, explains why a port is taken, and kills the owner:
one process, a batch of up to 128 targets, a process tree (`--tree`) or a
process group (`--group`), from the command line or from a terminal interface.
The destructive half is where it can do harm, and it acts on a process table and
on sockets that other programs keep changing between any two of its system
calls.  This directory models the kills from what the user is shown to what the
report says, on Linux, macOS and Windows; the observation they are decided on;
the commands that only read; the watch; and the terminal session with its
workers.  TLC checks the TLA+ modules on small instances, TLAPS proves theorems
about them.

Paths below are relative to the repository root, called `src/` in the tables
(`src/src/tree/execute.rs` is the file `src/tree/execute.rs` of the crate).

## The system

| Component | State it keeps | Operations | What is hard | What makes it correct |
|---|---|---|---|---|
| Scoped kill executor, `tree/execute.rs` | frozen members with their identity, depth and cleanup duty; delivery handles; pass counter; deadline | stop, sweep, verify, check policy, deliver, resume | races with fork, exit, exec, setpgid, PID reuse, other stoppers; deadline; interruption; partial failure | nobody but verified members is signalled; nobody it stopped stays stopped; nothing of the scope escapes a converged sweep |
| Linux process operations, `platform/linux.rs`, `process/linux.rs` | pidfds by PID | stop protocol, snapshot, fresh evidence | reads by number, signals by pidfd; torn rows | a pidfd is only trusted for the process it pins |
| macOS process operations, `process/macos.rs` | markers read, rollback duty | the same, by raw PID behind marker checks | the window between check and signal | the residual race is no wider than documented |
| Windows containment, `tree/windows.rs`, `process/windows.rs` | handles, job object, freeze probe, report | preview, pin, probe, assign, sweep, freeze, prove, terminate, thaw | children born during assignment; calls that fail with the tree half contained; a private call that may do nothing | what is terminated is the confirmed tree; nobody is left frozen in silence |
| Scope plan, `tree/plan.rs` | none | preview, preflight, root protection | agreement with the executor's policy | what was confirmed covers what is handed over |
| Scoped kill commands, `cli/scoped.rs` | confirmation, pinned root | preview, prompt, pin, revalidate, gates | time passes while the user reads | what is executed is what was confirmed |
| Single kill, `process.rs`, `cli/kill.rs` | pidfd, confirmed target | pin, revalidate, stop, check evidence, signal or resume | as the executor, for one process | never signals a changed target, never leaves it stopped |
| Batch kill, `cli/kill/batch.rs` | per-target handles and results | plan, confirm once, deliver in turn | partial failure, cancellation, two names of one process | every target answered once, exit code follows |
| Settle, `cli/settle.rs` | identities and ports still awaited | poll until gone or out of rounds | PID reuse, failed polls | it does not report an earlier world; it ends |
| Kill authority, `collector.rs` | none | choose targets among a port's owners, or refuse | gaps in the observation | no target is chosen across a gap that could hide an owner |
| Observation, `observation.rs` | attempts, uncertainty | two passes, compare, bounded retry | the system moves between passes | a row is certain only if both passes agree |
| Watch, `watch.rs`, `cli/watch.rs` | last usable snapshot, failures, record counter | poll, diff, filter, tell events and gaps | failed polls, Ctrl-C in the middle, facts that could not be read | the records add up to the current snapshot; no possible match is hidden |
| Watch signals, `cli/watch/signal.rs` | static reservation and flag | acquire, install, restore | signal between the steps | one owner; handlers restored |
| Terminal application, `app.rs` | rows, selection, modal, three workers, a kill at work | refresh, select, confirm, kill | answers of stale workers | a confirmed kill acts on the process that was shown |
| Terminal session, `ui/mod.rs` | panic hook, signal handlers and mask, screen | enter, loop, tear down, re-raise | a signal or a panic at any step | the process is left as it was found |
| Why and probe, `cli/why.rs`, `probe.rs`, `diagnostic/verdict.rs` | evidence per endpoint | one snapshot, a bind per endpoint, verdict | the ports change around the probes | no verdict stronger than its evidence |
| List, `cli/list.rs`, `query.rs`, `owner_visibility.rs` | none | filter, order, explain rows without an owner | owners that cannot be seen | a note claims nobody only if there is nobody; the exit code probes occupancy |
| Inspect, `cli/mod.rs`, `inspect.rs` | none | two reads, one report | a number given away between them | the report is about one set of processes |
| Docker enrichment, `docker.rs` | worker capacity, children | reserve, run, drain, time out, clean up, match | workers and children that outlive their call | capacity is conserved; half an output is no answer |
| Labels, protection, config, output, drawing | mostly none | parse, match, format, draw | boundary cases | left aside, see below |

The parts call each other synchronously: the CLI and the TUI build a
`KillTarget` from an observation, confirm it, pin the root, revalidate it, and
call the executor, which drives the platform through the trait `TreeProcessOps`.
There is one executor thread; its concurrency is with the operating system, the
other processes, the clock, and the signals sent to `kick` itself.  Threads of
its own are the workers of the terminal application, which hand their results over
channels that the event loop polls, and those of the Docker enrichment.

## Modules

| Module | Models | Source |
|---|---|---|
| `Kernel` | the process table, external: incarnations and their PIDs, stop and terminate signals queued and taking effect, zombies and reaping, adoption by init, and *disturbances* (fork, unrelated start, exit, exec, setpgid, outside SIGSTOP and SIGCONT) | what `src/` relies on |
| `FreezeKill` | `execute_tree_kill` and `execute_group_kill` with `LinuxTreeOps` and the pidfd stop protocol, composed with `Kernel` | `tree/execute.rs`, `platform/linux.rs`, `process/linux.rs`, `process/cancellation.rs` |
| `KillPromise` | the abstract contract: hold, then either condemn a set and give each its signal before any of it is released, or refuse, signal nobody and release | comment on `execute_freeze_kill`, `execute.rs` 348-357 |
| `Sockets` | who holds which socket, external, over `Kernel`: bind, close, inheritance, descriptor passing | what `src/` relies on |
| `Observation` | `collect_consistent` over the Linux collector: two passes of socket tables, descriptor scan and identities; comparison, retry, merged gaps; over `Sockets` | `observation.rs`, `platform/linux.rs`, `collector.rs` 435-453 |
| `KillPorts` | the gate of a destructive command, `kill_ports_from_snapshot`: stateless operators over a published snapshot | `collector.rs` 104-354 |
| `SingleKill` | `kick kill --pid` and `--port` on Linux, `run_kill_with` and `terminate_handle_checked`; composes `KillPorts`, `Observation`, `Sockets` and `Kernel` | `cli/kill.rs`, `process.rs`, `process/linux.rs` |
| `RawKill` | the same kill on macOS, by raw PID; over `Kernel` | `process/macos.rs` |
| `KillTargets` | the target a snapshot's rows make, and when a fresh one still is the process confirmed; a snapshot is one step that promises what `Observation` shows | `process.rs`, `collector.rs` |
| `KillCommand` | what the commands of `kick kill` share: invocation, selectors, refusals and their exit codes | `cli/mod.rs`, `cli/kill.rs` |
| `Settle` | the report after a kill: bounded rounds of exit polls and port collections | `cli/settle.rs` |
| `BatchKill` | `kick kill` with several targets; over `KillCommand` and `Settle` | `cli/kill/batch.rs` |
| `ScopedKill` | `--tree` and `--group` from the command line up to the executor and after it | `cli/scoped.rs`, `tree/plan.rs` |
| `Why` | `kick why`: a snapshot, a bind per endpoint, the verdict | `cli/why.rs`, `probe.rs`, `diagnostic/verdict.rs` |
| `ListCommand` | `kick list`: rows, filters, orders, notes on rows without an owner, exit code | `cli/list.rs`, `query.rs`, `owner_visibility.rs` |
| `Inspect` | `kick inspect`: the two reads and the report | `cli/mod.rs`, `inspect.rs` |
| `CommandLine` | dispatch over all of those, in one moving world | `cli/mod.rs` |
| `Terminal` | the terminal application and its workers; kills appear by what they promise | `app.rs`, `app/tree_action.rs`, `input.rs` |
| `TerminalSession` | what a session borrows from the process and gives back; runs the loop of `Terminal` between its entry and its teardown | `ui/mod.rs` |
| `WinHost` | Windows processes, handles, jobs and the freeze call, external | what `src/` relies on |
| `FreezeProbe` | the conversation with the helper that finds out whether freezing a job stops it | `tree/windows/freeze_probe.rs` |
| `JobTree` | `execute_tree_kill_with` | `tree/windows.rs` |
| `WinKill` | ending one process through its handle | `process/windows.rs`, `process.rs` |
| `WinCommands` | `kick kill` on Windows over the other two | `cli/scoped.rs`, `cli/scoped/report.rs` |
| `Docker` | `enrich_port`: capacity, the command, its drains and its cleanup | `docker.rs` |
| `DockerMatch` | which containers a listing says publish a row's port: pure operators, and a reference definition | `docker.rs` |
| `SnapshotDiff` | what changed between two snapshots, `diff_snapshots` and `baseline_events`: pure operators | `watch.rs` |
| `WatchFilter` | the three-valued filter, `evaluate_event`, and what a filter means in every world a snapshot allows (`MayMatch`, `MustMatch`: a reference, not the code) | `cli/watch/filter.rs` |
| `WatchLoop` | `run_watch_loop`: polls, gaps, the ordered output of events, every end; over the other two | `cli/watch.rs`, `cli/watch/signal.rs` |
| `MCFreeze`, `MCObservation`, `MCSingleKill`, `MCWatch`, `MCCommandLine`, `MCTerminal`, `MCJobTree`, `MCDocker`, `MCRawKill` | instances for TLC | |
| `Kernel_proofs`, `FreezeKill_proofs`, `SingleKill_proofs`, `RawKill_proofs`, `WinCommands_proofs`, `Docker_proofs`, `WatchLoop_proofs`, `FrontEnds_proofs` | lemmas and theorems, see Proofs | |

The composition is by layers.  What a lower module shows, a higher one takes as
one step: `Observation` shows what a published snapshot promises, and
`KillTargets` and everything above it read such snapshots in one step;
`FreezeKill` shows what the executor does with what it is handed, and
`ScopedKill` and `Terminal` check that what they hand it is what `FreezeKill`
starts from; `SingleKill` shows what one delivery does, and `BatchKill` makes many.

### How `FreezeKill` corresponds to the code

A process is an *incarnation*, a PID with its start marker.  Two incarnations may
share a PID at different times: that is PID reuse.  The kernel's own steps may
come between any two steps of the executor, and one step of the executor is one
system call with the bookkeeping around it:

| `pc` | Actions | Code |
|---|---|---|
| `select` | `SelectMember`: interruption, cap, unsafe PID, deadline, `pidfd_open` | `freeze_sweep` 611-627, `stop_before_deadline`, `LinuxTreeOps::stop` |
| `state` | `ReadState` | `linux_stop_pidfd` 210-228 |
| `stop` | `SubmitStop` | 229-249 |
| `ack` | `Acknowledge`, `StateReadFails` | 251-284, `linux_stop_observation_result` |
| `list`, `read` | `ListProcesses`, `ReadStatus`, `ReadStat`, `SnapshotTaken`, `SnapshotFails` | `collect_tree_process_infos`: one listing, then per PID a read of status and a read of comm and stat |
| `root` | `CheckRoot` | `verify_root_after_stop` |
| `drain` | `Drain` | the loop of `freeze_sweep`: next round, converged, next pass, or too many |
| `verify` | `Verify` | `verify_frozen_identities`, `prepare_delivery_handles` |
| `evidence` | `ReadEvidence` | `verify_fresh_delivery_evidence` |
| `policy` | `Authorize` | `check_tree_policy`, the last cancellation check |
| `deliver`, `cont`, `resume` | `Deliver`, `ContinueMember`, `ContinueGroup` | `signal_tree`, `signal_group` |
| `thaw` | `Thaw` | `refuse_after_thaw`, `thaw_all` |

`handle` is `delivery_handles`: which incarnation the pidfd held for a PID pins.
`node` is the `FrozenNode` of a PID, `frozen` the vector (its order is
`rank`).  `kickStopped`, `kickContinued`, `signalled` and `stayed` are history
variables: no guard reads them.

What is abstracted, and why it does not matter to the properties:

- Names form a small set: an ordinary program, a protected one (`Protected`) and
  one that runs as another user (`Foreign`), whose processes also refuse signals
  (`Refuses`).  The owner of a process changes with the program it executes.
- A snapshot row is two reads instead of three: comm is read with stat.  The
  read of fresh evidence (marker, name, marker) is one step, which the two equal
  markers make it.
- Start markers are unique.  The code's are clock ticks: two processes with one
  PID and one start tick are outside the model, as they are outside the code.
- Unreadable names and markers (`PartialMetadata`), the byte limits and
  `PROCESS_TREE_INDEX_MAX` are left out.  On Linux a row without a name or a
  marker fails the snapshot, which `SnapshotFails` models.
- Returns before anything was stopped pass through `thaw` with nothing to do.
- Time is one event, `Expire`: 500 ms have passed.  It may come at any moment at
  which something still looks at the deadline.
- Stops are of single-threaded processes, there are no subreapers, and SIGCONT is
  refused exactly when SIGTERM is.
- Processes that refuse signals are still stopped and resumed by others.
- Once the outcome is known, the process table no longer moves.

Processes someone else stopped, continued or regrouped during the kill are in
`meddled`, and the properties excuse what happened to them where
`docs/platform-support.md` 143-161 says that nothing can be promised.

### How `Observation` and `KillPorts` correspond to the code

One step is one native read with the bookkeeping around it:

| `phase` | Actions | Code |
|---|---|---|
| `idle` | `Collect`, `BeginPass` | `collect_consistent`, `collect_pass` |
| `sockets` | `ReadSocket` | `collect_socket_records_bounded`, a socket at a time |
| `list` | `ListPids` | `proc_visibility_restricted`, `scan_process_ids` |
| `fds`, `links` | `OpenDescriptors`, `ReadLink`, `LinkFails` | `scan_pid_socket_owners`; the process is found again by number for each descriptor |
| `markers`, `name`, `again` | `ReadMarker`, `ReadName`, `ReadMarkerAgain`, `IdentityFails` | `read_native_process_cached`: pass A reads markers, pass B marker, metadata, marker |
| `settle` | `EndPassA`, `EndAttempt` | `compare_passes`, `merge_attempt_uncertainty`, `build_snapshot` |

`edges` are the owner PIDs of the rows, `reads` the `ProcessReadTable`, `gaps` the
evidence gaps, and `snapshot` what is published.  `heldSince`, `heldThrough` and
`missed` are history: what was held at some moment of the current pass, what was
held ever since the attempt began, and the ports about which something was lost.

Abstracted: a descriptor directory is listed at the moment it is opened.  Sockets
are in one network namespace, and a token may be used again once it is free.
Several losses of one kind are one gap, not a count.  Every limit that fails the
collection (`limits.rs`) is `CollectionFails`; the one that only drops gaps is
`MaxGaps`, with any of them dropped.  Optional metadata is the name alone, and
metadata and scope gaps are left out because the gate ignores them.
`hidepid` hides a process altogether (its mode 2).

### How `SingleKill` corresponds to the code

| `step` | Actions | Code |
|---|---|---|
| `prompt` | `Confirm`, `Cancel` | `confirmation_requirement`, the prompt |
| `prepare` | `Prepare` | `prepare_termination`: `pidfd_open` |
| `collect` | `CollectFresh` (the steps of `Observation`), `Revalidate` | `collect_kill_ports`, `revalidate_cli_target_with` |
| `state`, `stop`, `ack` | `ReadState`, `SubmitStop`, `Acknowledge`, `DeadlinePasses`, `StateReadFails` | `linux_stop_pidfd` |
| `marker`, `name_`, `again_` | `ReadFinalMarker`, `ReadFinalName`, `CheckEvidence`, `EvidenceFails` | `read_fresh_process_evidence`, `check_final_evidence` |
| `signal` | `Signal`, `Interrupted` | `finish_stopped_termination` |
| `thaw` | `Thaw` | `outcome_after_thaw` |

A behaviour starts with a preview that resolved to `RootProc` (the refusals of a
first resolution end before anything happens); its name may be one the preview
could not read.  Two refusals of the revalidation cannot come about behind the
gate, and are left out: a row without a PID, and a confirmed port whose owner is
unreadable.  `Objection` gives the refusals in the order of the code.  The
deadline is a choice at the two places that look at the clock; the report that
follows a success is module `Settle`.

### How `WatchLoop` corresponds to the code

| `phase` | Actions | Code |
|---|---|---|
| `begin`, `first` | `Begin`, `CollectFirst` | the head of `run_watch_loop`, `collect_initial_snapshot` |
| `wait`, `due`, `polling` | `Wait`, `Attempt`, `Collect` | `wait_until`, the clock checks, `socket_set_diff_safe` |
| `gap`, `gapWritten` | `WriteGap`, `AfterGap` | `write_gap`, then flush, counter, budget, stop condition, next poll |
| `collected` | `StartEvents` | stop condition, `diff_snapshots` or `baseline_events` |
| `tell` | `NextGroup`, `EndEvents` | the scan of one group in `write_ordered_events`; the flush after it |
| `pass`, `write` | `PassStep`, `NextRank`, `StopInPass`, `WriteEvent` | one pass per rank over the group |
| any | `Cancel`, `Tick` | `handle_sigint`, the clock |

A collection returns any of `Snapshots`, or fails; where its content comes from is
the business of `Observation`.  A socket is its place in the order of
`compare_socket`, and `ShownOf` is what `compare_event_prefix` sees of it (the
first 64 owners), so that a group may hold events of different ranks.  Text is
what a needle is found in.  Time is counted in ticks from the moments the code
counts from: `age` since the moment the next poll is counted from, `left` until the
deadline; a step takes no time, and any number of ticks may pass between two.
Left out: the text of records and its 64 KiB limit, overflow of the monotonic
clock and of the failure counter, and the event limit of a diff, which two
snapshots within the socket limit cannot reach.  `ledger`, `gapTail`, `late`,
`sinceAttempt` and `sinceFailure` are history.

### How the command line corresponds to the code

`CommandLine` is one program counter, `step`, that the modules of the commands
share, over one world.  An *invocation* is a parsed command line; what only reads
and what kills start from the same `dispatch`.

| `step` | Actions | Code |
|---|---|---|
| `dispatch` | `Dispatch`, `WhyCollect`, `ListCollect`, `InspectCollect` | `run` of `cli/mod.rs` 379-470: one collection, targets merged, limits on their number |
| `batch`, `batchPrompt` | `BatchPlan`, `BatchConfirm` | targets resolved, the most serious refusal, one prompt |
| `prepare`, `fresh` | `Prepare`, `BatchFresh` | every handle before the one fresh snapshot |
| `deliver` | `DeliverOne`, `Interrupted` | one target after the other, each revalidated |
| `batchSettle` | `BatchSettle`, `BatchReport` | settle, summary, exit code |
| `scoped`, `preview`, `scopedPrompt` | `ReadTable`, `Preview`, `ScopedConfirm` | `run_tree_kill_with`, `run_group_kill_with` up to the answer |
| `pin`, `recheckRows`, `recheckTable`, `gates` | `PinRoot`, `RecheckRows`, `RecheckTable`, `RunGates` | `scoped.rs` 597-660, `fresh_tree_gates`, `fresh_group_gates` |
| `execute`, `settle` | `Execute`, `ScopedReport` | the executor by its promise, `map_scoped_outcome` |
| `probe`, `verdicts` | `Probe`, `WhyReport` | `run_why_with`: a bind per endpoint, `analyze`, the verdict; the document and the exit code |
| `list` | `ListPrint` | `run_list_snapshot_with_writer` |
| `inspect`, `report` | `InspectTable`, `InspectReport` | `run_inspect`: the process table, then the report |

`Settle` has a counter of its own (`settling`) and takes its steps inside
`batchSettle` and `settle`.  A disturbance is, besides those of `Kernel` and
`Sockets`, a *respawn*: a supervisor puts another process, with the very number if
it is free, in the place of one, in one move; and the end of a socket that no
process holds (`TIME_WAIT`).  Faults (a failed collection, probe, prompt, table, capture
time or exit check, a torn snapshot, an unreadable owner, a broken or failing output) use
up the same budget.

Abstracted: a collection of sockets is one step and keeps what `Observation`
shows; one look at the process table is one step, how it may be torn being the
subject of `FreezeKill`.  A delivery is one step.  Two endpoints clash with a
bind as the kernel's rules for wildcards, scopes, dual stack and address reuse
have it (external); where they depend on what `kick` cannot know, both outcomes
are possible.  A typed text is the set of the texts that contain it, an invalid
token any value outside its field, an order of texts is `Collation`.  Labels and
the texts of executables, command lines and clues about deleted executables are
left out, and two equal rows of one PID and endpoint are one.  The `Cleared` of a
port is not looked at again in later rounds, as in the code.

With `hide_system_processes` a port that a system process holds is exited with "no
match": `ExitProbesOccupancy` does not speak of listings with that setting.  What the
module says of a snapshot of the sockets, and with it `ExitProbesOccupancy`, is the view
on Linux, where every socket of the host is listed whether or not its owner can be seen.
macOS lists sockets process by process, so that one of a process `kick` may not inspect is
not in the listing at all; that collector is not modelled.

### How `Terminal` and `TerminalSession` correspond to the code

The event loop is one thread: one action is one turn's poll, key or worker
result, or one step of a kill, which blocks it (`killing`).  `refreshWorker`,
`contextWorker` and `previewWorker` are threads whose reads (`CollectRows`,
`ReadContext`, `PreviewTree`) come at any moment; `TakeRefresh`, `TakeContext`
and `TakePreview` apply what they found.  A row is selected by PID and place,
with no start marker, as `RowKey` has it; what a modal shows is a target with its
incarnation.  A key is any that the open modal takes.  The executor appears by
its promise: whoever it is handed is signalled with its descendants.
A kill that cannot pin its target ends: with a refresh if the process has gone
(`PinTarget`), with none after any other error (`PinFailed`).
Scrolling, sorting, the filter line, notifications and drawing are left out.

`TerminalSession` follows `run_owned`, `run` and `finalize_unix`: hook, handlers,
startup worker, raw mode, alternate screen, loop, mask, teardown, re-raise, hook
back.  Signals in the loop come with the turn that looks at them; the
dispositions that were found are chosen at the teardown, because nothing looks at
them before; outside the loop the table and the sockets are held still.  Calls
that cannot fail with these arguments (`pthread_sigmask`, putting a handler back,
`raise`) do not.  A signal recorded while the owner panics is lost, and
`SessionIsUndone` excuses it.

### How the Windows modules correspond to the code

| `phase` of `JobTree` | Actions | Code |
|---|---|---|
| `preview`, `pin` | `Preview`, `Pin` | `build_precommit_preview`, handles opened and compared |
| `preflight` | the steps of `FreezeProbe` | `preflight_job_freeze_thaw` |
| `commit`, `assign` | `Commit`, `Assign` | `commit_root_to_job`, `assign_initial_members` |
| `sweep`, `adopt` | `Sweep`, `Adopt`, `PassOver` | `sweep_committed_tree`: until two passes find nobody |
| `freeze`, `ids`, `prove` | `Freeze`, `ReadMembership`, `ProveMembership` | `set_job_frozen`, the first reading of the membership, the last snapshot and whom to look at |
| `check`, `past` | `CheckMember`, `MembersChecked`, `CheckPast` | one process after the other: opened, kept, named and asked whether it is in the job; then whoever has a handle and is not in it must have ended |
| `stable` | `StableMembership` | the second reading of the membership |
| `terminate`, `wait`, `thaw` | `TerminateJob`, `Wait`, `FinishReport`, `FinishFailed` | `TerminateJobObject`, `finish_report`, `finish_failed_job_report` |

`WinKill` is the kill of one process (its counter is `at`), and `WinCommands` puts
before both what `cli/scoped.rs` does after the answer.  `WinHost` is the assumption:
what a process in a job starts is in the job, a frozen job does not run on hosts
where the private call works (`suspends`), and a number is not given away while a
handle is held.  The probe's helper and the thread that reads its answers are one
queue; a helper that can run answers in time unless it is *slow* (5 s) or *stalls*
(250 ms).  Other processes move before or after the probe, with which they share the
budget only.  Names never change, a snapshot is one step, and a
descendant whose parent exited before it was assigned is nobody's descendant for
the code, nor in `JobIsTheConfirmedTree`.

### How `Docker` corresponds to the code

One call is at work at a time (`step`), as the details worker makes them; what it
started lives on: a child, its `holders` (what keeps each pipe open, a grandchild
included), two drain workers and one cleanup worker per call.  `LoadCount` and
`Reserve` are the two halves of the compare-and-exchange loop, so that releases by
late workers come between them.  Parsing a row of the listing is a flag
(`readable`), and a published port is its protocol, address and two ranges.

### How `RawKill` corresponds to the code

Its `step`s are the calls of `terminate_handle_checked_platform`: `prepare`, `before`
(state before the stop), `stop`, `poll`, `evidence`, `again` (`CheckEvidence`),
`deliver`; and of the rollback, `identity`, `check` (`CheckMarker`) and `cont`.  A `poll`
that fails, be it with ESRCH, comes to no marker (`Loses`): `identity` then reads the state
once more, and takes the confirmed marker if that fails too.  A signal
goes to whoever holds the number at that moment (`Holder`).  A stranger whose stop is
not yet observed when its turn comes is left to the rollback's marker check, and may
stay stopped: `docs/platform-support.md` says no more than "normally" here, and
`EndIsHonest` speaks of the confirmed process.

## Properties and runs

Where a property is a conjunction, its parts have names of their own in the module.

| Property | Says | Can go wrong through |
|---|---|---|
| `TypeOK` | types, and never more than `MaxFreezePasses` passes | an off-by-one in the pass limit |
| `OnlyVerifiedSignalled` | a signalled process is the incarnation recorded for its PID | delivery by number after reuse |
| `SignalStaysInScope` | a signalled process belongs to the scope in the real table, not only in the rows | torn rows, reparenting, setpgid |
| `ScopeClosedAtDelivery` | when the first signal is about to go out, nobody of the scope runs free | a fork between two snapshots |
| `StopsAreUndone` | when kick returns nobody it stopped is still stopped, unless it reports so (`NoStoppedSurvivor`), and whoever was stopped before is not resumed unless terminated (`OthersLeftStopped`) | every exit path, the deadline, lost handles, wrong attribution of a stop |
| `ResumeAfterSignals` | no parent is resumed while its frozen child has no signal | delivery order |
| `PolicyHeldAtDelivery` | nobody is protected, or somebody else's after a skipped prompt, when signalled | exec after the preview |
| `SelfNeverStopped` | kick does not stop itself | kick in its own scope |
| `KeepsPromise` | refinement of `KillPromise!Spec` | any of the above |
| `EventuallyDone` | the kill returns | stops that never take effect, endless forks |
| `StaticScopeConverges` | a scope in which nothing happens does not end at the pass limit | see Findings |
| `VerifiedOwnersHeld` | a verified owner held its socket, under the incarnation named, in the published pass | a PID that changed hands between the scan and the marker |
| `HoldersAllKnown` | a granted port kill knows every listener's holder that held it throughout (`PortHoldersAllKnown`), a granted PID kill all listening sockets of one process (`PidSocketsAllKnown`), and no port kill is granted on an attempt that lost sight of anything about its port (`NoLossForgotten`) | gaps merged, dropped or taken to be about something else |
| `OnlyConfirmedTouched` | nobody but the process of the preview is stopped, resumed or signalled | PID reuse at any moment |
| `SocketsAsConfirmed` | whoever is stopped was just seen to hold every confirmed endpoint, and a port kill signals only a sole holder | a port given up, or shared, while the user reads |
| `EndIsHonest` (single kill) | the stops are undone, and "already exited" is only said of the dead | every exit path, what a failed read means |
| `AnsweredIsDone` | an answered command returns | a stop that never comes, endless retries |
| `EndIsHonest` (raw kill) | the confirmed process is not left stopped unless reported, who is said to have exited has, success means a signal taken | an error taken for an exit, a rollback without a marker |
| `SignalFollowsProof` | whoever gets the raw signal, the last reading showed the confirmed process stopped under its confirmed name | a check too few, or too early |
| `BatchSignalsWhatItListed` | a batch signals the processes it listed, each once, running the program shown | PIDs given away between prompt and delivery |
| `BatchAccounts` | every selector is answered by one target, every target has an outcome, the exit code is success exactly if all are | two selectors of one process, a failure in the middle |
| `HandoverMatches` | what the executor is handed is the pinned process the user confirmed, and the answer covers its group, its members and their protection; and a confirmed kill of an untouched scope goes through | reuse, setpgid, exec and fork while the user reads; checks that disagree with the preview |
| `ReportIsCurrent` | whom the settle report calls exited has, whom it calls running was alive when the last round began, a port it calls visible was taken in that round | polls by number, failed polls, old rounds |
| `ReadingsHold` | verdicts and exit code of `why`, notes and exit code of `list`, and the report of `inspect` agree with the world when it was read | evidence of different moments taken as one, an unseen owner taken for none |
| `ShownIsOneProcess` | a confirmation keeps to the process it was opened for, untyped protection never counts, and facts on the screen are of that incarnation or none | late answers of workers, refresh under an open modal |
| `SignalsWhatWasConfirmed` | the signal goes to the process whose facts were on the screen, still running that program | reuse, refresh, exec while the user types |
| `NoOlderSnapshotAfterKill` | no snapshot begun before a kill is shown after it | a refresh worker overtaken by the kill |
| `ConfirmationAnswerable` | a confirmation left open can be answered at last | context requests lost with a worker |
| `SessionIsUndone` | screen, hook, handlers and mask are as they were, nothing is printed on the alternate screen, a signal that came is acted on | a signal, a panic or a failure between any two steps |
| `JobIsTheConfirmedTree` | a job that is terminated holds only verified descendants of the confirmed root, nobody protected, none missing, and freezing was seen to work | births during assignment, foreign processes, a freeze without effect |
| `NobodyLeftFrozen` | when the call is over nobody is frozen unless the report says so, and of the helper nothing is left | a failing call on any path |
| `ReportIsTrue` | who is said to be gone is, who runs is reported, a refusal touched nobody | errors classified wrongly |
| `NothingLeaks` | the counters show exactly the permits held, and no child is forgotten | a reservation that races with a release, an early return |
| `AnswerIsWhole` | what is shown was read to the end of a successful command and names exactly the publishing containers, or says it is cut | timeouts, half outputs, duplicates, caps |
| `CapacityComesBack` | capacity returns, but for a child that cannot be reaped | workers that never learn that they were given up |
| `LedgerAgrees` | adding up the records gives the sockets of the last usable snapshot, per endpoint and state | pairing in the diff, a failed poll in between, passes by rank that skip or repeat |
| `EndsInOrder` | the third failure in a row is told and ends the command (`BudgetSpeaks`), whoever stops it has every record (`NothingUnflushed`), and at most one more record is written (`StopsPromptly`) | the order of counter, record, flush and stop condition |
| `VisibilityIsHonest` | no event that matches in some world the snapshot allows is dropped (`NoPossibleMatchHidden`), and `matched`, said of seen owners, holds in every such world (`OwnedMatchIsDefinite`) | a fact not read taken for absent, or for known |
| `FullInterval` | attempts, and a failure and the next attempt, are an interval apart | the wrong moment to count from |
| `EventuallyEnds` | Ctrl-C or the duration ends it | a loop that does not look |

`PolicyHeldAtDelivery` is stated for the single kill as well.

| Run | Instance | Checks |
|---|---|---|
| `freeze_tree` | a chain of three, two spare incarnations that may take over the numbers of the root and the leaf, one free number; the leaf runs or is already stopped; terminate after a skipped prompt, or force after a protected confirmation; 2 disturbances of 6 kinds, interruption, failing reads; 2 passes, cap 3 | 7 properties, 825,402 states |
| `freeze_group` | root and child in the group, one process that may join, one that may take over the child's number, kick outside or inside the group; three requests; 2 disturbances of 5 kinds; 2 passes, cap 3, prompt skip up to 2 | 3 properties, with fairness, 230,900 states |
| `observation` | two servers, one of which shares the other's listener; a third process may take over a PID; two addresses of one port; programs kick may not inspect; 3 disturbances of 7 kinds and failing reads; 2 attempts, 1 gap kept; plain, or with hidepid in a nested PID namespace | 2 properties, 578,109 states |
| `single_kill` | a server on two ports, running or stopped; a neighbour that may come to hold its sockets; a process that may take over its PID; four requests; 2 disturbances of 7 kinds, interruption, failing reads; 2 attempts | 5 properties, with fairness, 184,464 states |
| `raw_kill` | a process with a parent that may reap it, running or stopped, and one that may take over its number; terminate and force; 4 disturbances or faults | 2 properties, 174,002 states |
| `commands` | two servers, a child, and a process that may take over a number; three listeners and three sockets of the kernel; 27 command lines: 8 kills, 7 `why`, 8 `list`, 4 `inspect`; one disturbance or fault of 18 kinds; 2 rounds of settling | 5 properties, 332,157 states |
| `terminal` | a server with a child, and a process that may take over its number and port; one disturbance or fault, one signal of each kind | 5 properties, with fairness, 369,989 states |
| `job_tree` | a root with a child, two processes that either may start, a stranger that may take over a number; protected, system and unreadable programs; 3 disturbances or faults of 15 kinds; cap 3, 5 passes | 3 properties, 1,222,102 states |
| `docker` | two calls over two rows and five listings; 3 drain permits, 1 cleanup permit; 1 fault of 5 kinds, and deadlines at any moment | 3 properties, with fairness, 257,042 states |
| `watch` | eight snapshots in any order, with sockets that look alike, a replacement, a group of two ranks, gaps that name a PID, an endpoint or nothing, unread names, executables and parents, an unverified owner, and one not fit to be compared; seven sets of options; interval 2, duration 4, batches of 2, 6 records; every fault | 5 properties, with fairness, 699,356 states |
| `freeze_zombie` | the chain with a zombie leaf, no disturbance, the real limit of 8 passes | finds the counterexample |
| `single_hidepid` | the single kill with hidepid and one exec | finds the counterexample |

Why these bounds are enough for what they show.  Two disturbances give every
pair of external events around every system call: reuse needs two (an exit and a
new process), an orphan whose parent is killed two, an exec after a fork two; the
tree was also explored once with three disturbances and without faults
(4.4 million states), and the single kill with three disturbances and one attempt
(1.4 million states), with the same result.  A chain of three has a member that is
neither root nor leaf; four numbers make the cap of three and the pass limit
reachable.  Two passes are the smallest number that can converge, so that one
fork more exhausts them.  `OnlyVerifiedSignalled`, `TypeOK` and
`SelfNeverStopped` are proved for every instance as well.

For an observation, three disturbances are what the subtlest confusion takes: a
PID changes hands (two) and something moves (one).  Two attempts are the smallest
number with a retry, and a retry starts from nothing but the world, so that more
of them repeat it; two sockets and three processes are enough for a co-holder, a
stranger under a recycled PID, and a socket that moves between them.  With one
gap kept, every second one is dropped.

A respawn is reuse in one disturbance, so that one is enough in `commands` and
`terminal` for a stranger under any number at any step; a search with two, cut off after 3.4 million and 0.7 million distinct
states, found nothing else.
The command lines are chosen so that every refusal, verdict, note and order
occurs: every action and every disjunct of the next-state relations takes a step in
some run.  Three disturbances on Windows are a birth, its parent's exit and one
failing call; five passes let a sweep converge (two clean ones), be disturbed, and
run out.  One cleanup permit and three drain permits make a second call that comes
while the first one's workers live on find either counter full.  Four disturbances of a raw
kill are an outside SIGCONT or kill, a reaping, a new holder of the number, and one
thing more.

For the watch, two snapshots make an event and every pair of them is reached; a
third one shows that the right one became the basis, and failed polls may come
between any two.  Batches of two and two-event groups split a batch inside a group
and a group inside a batch.  Six records are three failures and what the largest
snapshot needs twice over; the counter then overflows, as the code checks for.  An
interval of two ticks can be partly used up when a failure ends.

Deadlock is checked in every run but `watch`, because `kick watch` ends: elsewhere
only the end stutters (`Terminated`, `Done`, `Stopped`).

Fairness.  `FreezeKill!FairSpec`: weak fairness of the executor's steps, because it is a
loop that blocks on nothing but a poll with a sleep of a millisecond, and of
`Expire`, because the clock runs.  There is none for the process table: a SIGSTOP
need never take effect (a process in uninterruptible sleep), nobody need exit.
`SingleKill`'s `FairSpec` is weakly fair to the command's own steps, the deadline
among them, once the user has answered; the user need never answer.
`WatchLoop`'s `Spec` is weakly fair to the loop, which sleeps 25 ms at most, and to
the clock.  Nobody need press Ctrl-C.  `TerminalSession`'s `FairTerminalSpec` is weakly fair only to
the context worker, whose reads are bounded, together with the loop's poll of it,
which comes every turn; no key need be pressed and no other worker need answer.
`Docker`'s is weakly fair to the call at work, its deadlines, and its worker
threads when they can run; the docker command need never exit, and nobody need
close a pipe it holds.

## Proofs

Every theorem is about `Spec` (or `ObservationSpec`, `TerminalSpec`) for all values of the constants
that the modules' assumptions allow: `KernelAssumption` (numbers are naturals, numbers
and processes are finitely many), `StartAssumption` (in the initial table no PID has two
holders, and orphans have been adopted; on Windows, where nobody adopts, that no parent is
still to be born), and `FreezeKillAssumption`, `RawKillAssumption`, `ObservationAssumption`,
`SingleKillAssumption` and so on (limits are positive, the confirmed process is born
when the kill begins, kick does not kill itself, a kill names numbers or ports but not both),
and `AncestryAssumption` (in the initial table a parent is older than its children).  TLC
evaluates them in every run.  Each invariant below was checked by TLC, on the
instances of the runs, before it was proved.  A name before a colon is a theorem of the module.

`Kernel_proofs` has what the others rest on.

- `KernelStepIdentity`: the process table never gives a PID two holders, and
  births and deaths are final.  Everything about identity rests on it.
- `KernelStepRests`: a process that is stopped (or dead) stays so, with its name, until
  somebody else continues it, whom `meddled` then holds.
- `KernelStepKin`: a process is born of one that runs and keeps its parent until that
  one ends; then it is init's.
- `NatMin`: a set of naturals that is not empty has a least member, from the well
  founded order of finite subsets.  It replaces induction, whose theorems take an
  operator for an argument and cannot be used here: the first step, or the lowest
  rank, at which something would go wrong is looked at instead.

`FreezeKill_proofs` is about the scoped kill.  First, who is touched by it:

- `TypeCorrect`: by `TypeInv`, `TypeOK` and `PassBound` (a pass is begun only when one
  is left; without it the counter's upper bound is not inductive, since
  `ListProcesses` increments it under a guard that `Drain` evaluated earlier).
- `OnlyVerifiedIsSignalled`: by `IdentityInv`.
  The property alone is not inductive: `Deliver` signals what a *handle* pins,
  while the property speaks of the recorded *node*.  The invariant carries the
  chain between them: one holder per number, rows hold processes that existed
  (`RowsReal`), a frozen member's handle pins an incarnation that existed when it
  was stopped (`TakenPinned`, `FrozenPinned`), the rows of the converging snapshot
  were read after the stops (`StopsFound`, `RowsMatch`), so that a row which
  shows the recorded incarnation shows the pinned one, and from verification on
  handle and node agree (`VerifiedPinned`).
- `KickIsNeverStopped`: by `SafetyInv`: handles pin
  processes under their own numbers and the executor never takes an unsafe one.

Then, what it does with them:

- `PromiseIsKept`: the refinement of `KillPromise`, step by step: each step of `FreezeKill` is a
  step of the contract or changes nothing it sees.  By `ContractInv`, which adds to the
  invariants above that nothing is resumed before the kill is decided and only
  what has had its turn while it is delivered (`PromiseInv`), and that a member
  that was verified is a process (`MembersKnown`), so that two members are two processes
  and a turn ends the condemnation of exactly one.
- `StopsAreAlwaysUndone`: by `CleanupInv`.  At its centre is `NobodyForgotten`: a
  process this kill stopped, that nothing excuses, is pinned, and one of the steps to
  come *owes* its resumption: it is recorded with the duty to resume, is just being
  acknowledged, or has its turn in cleanup or delivery still before it.  To carry that through
  the stop protocol, the state read before SIGSTOP has to say whose stop it is
  (`StateReadHolds`), although it was read by number and the signal goes by pidfd.
- `PolicyIsHeld`: by `PolicyInv`.  The policy is checked on names and owners read at
  different moments, from rows whose two halves may be of two processes.  Members were
  stopped before the converging snapshot began and stay stopped (`MembersStill`); so
  both halves of a row that shows a member are of that member (`HalfFresh`,
  `RowsFresh`), and what was read of it is how it is until its turn (`OwnerKnown`,
  `NameKnown`), which must be followed through the deliveries before it.

Last, whom it reaches:

- `ScopeIsClosed`: by `ClosedInv`.  The scope is closed because *one* snapshot, the last,
  showed nobody who is not held (`NobodyLeft`), and because its rows, read one after the
  other, can be believed about that much: since the snapshot was begun nobody could be
  born of a held member, so every process with a held parent was in the listing and its
  row has, or will have, that parent's number (`ChildrenShown`, and `HalfOfChild` between
  the two reads of a row); a member of a group throughout was in it too (`StayedShown`).
  Descent is then followed link by link from the root; where a chain of parents
  might break, `ParentsAlive` says that orphans have been adopted.
- `SignalsStayInScope`: by `KinInv`.  Verification compares the parent that was recorded
  for a member, in some earlier pass, with the one in the last snapshot; both are numbers,
  from rows that may be torn.  `Tracked` says where a recorded parent is: held, about to
  be, or nobody's parent any more, since a number that vanished in a pass is the parent of
  nobody that the pass shows (`VanishedGone`) and a pidfd opened on a shown parent's
  number pins that parent (`ParentPinned`).  The last snapshot does not show an orphan
  where it hung (`OrphansShown`), and a row that puts a member below another one is
  right, or the other one is dead and not shown (`KinShown`), in which case the
  verification fails.  So from there on every member is the child of a held one, or was
  adopted when that one died (`KinKnown`), or is in the group (`GroupKnown`).

Last of all, in which order:

- `ResumesComeLast`: by `LineInv`.  Delivery goes by depth, deepest first, and a depth was
  recorded in some round of some pass, from a row that may be torn.  What is
  invariant is that a member's recorded parent has a smaller depth than the member, or is no
  member and will not be one (`Deeper`, `WorkDeeper`, `MembersDeeper`), through every pass that discovers,
  drops and rediscovers.  That leaves the root, which is resumed at its depth 0
  after all others: nobody still to be signalled may be its parent's child.  `Up` is
  a set of processes closed under parents that the root hangs from and is not in (`Above`);
  it exists because parents are older (`AncestryAssumption`: a cycle of parents would
  refute the property), it never grows, and no verified scope has a member in it (`LineShown`,
  `NobodyAbove`).

The two recursive definitions that this needs, `Climb` and `Ancestors`, are functions; what
their definitions say of them is derived from `NatRecursion` in `Kernel_proofs`, a
recursion theorem for functions on the naturals without an operator for an argument.

`SingleKill_proofs` is about `kick kill` of one process on Linux, and first about what two
passes over the system prove, on which that kill rests.

- `VerifiedOwnersReallyHeld`: by `SandwichInv`.  The property is about the published
  snapshot, and nothing in the published pass alone implies it: pass B finds an owner by
  number, and reads the marker under that number later.  The invariant says what pass A adds.  Whoever
  pass A identified under a number was there (`ReadsOfPast`); an edge that pass B
  finds under it is that process's, or that process is already dead
  (`EdgeExplained`), because one number has one holder; and then the marker read
  after the scan cannot be its marker, since nobody comes back
  (`OwnerExplained`).  Publishing a stable attempt closes the sandwich: both markers
  are equal.
- `GrantKnowsAllHolders`: by `CompleteInv`, which adds to it the other half
  (`PassInv`): a holder that was there all along is followed through each read of a
  pass, and at every moment its socket is still to be read, or found, or reported
  lost (`Accounted`, `LinksAccounted`); what is lost about a port shows in a gap or in
  an owner left unidentified (`MissedExplained`).  The gate lets pass no snapshot in
  which such a gap may concern the target.  The property first said that a port
  kill is not granted on an attempt that lost sight of *anything*; with two ports TLC
  refutes that, rightly: a loss about the other port does not matter.

What is proved of the kill is by `SingleInv`, which contains `CompleteInv`: the proof
follows the composition.

- `NobodyElseIsTouched`: a pidfd that pins somebody else than the confirmed process was
  opened when that one had ended (`PinIsConfirmed`), and then the fresh snapshot, begun
  later, cannot show it.
- `TouchedOwnsWhatWasConfirmed`: what the fresh snapshot lets pass was held
  (`HeldAsConfirmed`), by `VerifiedOwnersHeld` for the confirmed endpoints and
  `HoldersAllKnown` for the absence of others.
- `SignalMeetsPolicy`: who was seen stopped keeps its name (`Halted`, `NameRead`).
- `TheEndIsHonest`: by `HonestInv`, *where no limit of the view of /proc is hidepid*.  That
  hypothesis is needed, as the run `single_hidepid` shows.

`RawKill_proofs` is about the same kill on macOS, by `RawKillInv`.

- `SignalsFollowProof`: every signal goes to whoever has the number, so that what can be
  proved is what the last reading showed (`Proven`), and that the target it showed
  is still the holder unless somebody else ended it.
- `RawEndIsHonest`: who is held is owed its resumption by the rollback or the delivery
  (`HoldIsOwed`), and each outcome is decided on a reading that makes it true.

`WinCommands_proofs` is about the kill on Windows, of one process and of a tree, by one
invariant `Inv` of the process table, the probe, the single kill and the tree kill.  It
assumes that a helper that can run answers in time (`"stall" \notin Disturbances`), which
TLC shows to be needed (see Findings).

- `TheJobIsTheConfirmedTree`: the argument goes from the helper to the job.  Nothing comes
  from the helper while its job is frozen; it has not ended, for its end would be the last
  thing in the pipe (`EndIsLast`); so it is stopped, and freezing a job works here
  (`SilenceProves`).  Hence nobody is born in the frozen job, and those
  who were read as its members are everybody who will live in it (`FrozenJobIsClosed`,
  `MembershipRead`).  What a member starts is in the job as well, but for the children of
  a process that kick put there by hand (`JobKeepsChildren`): that one has a handle, and
  its children are in the last snapshot below it, which is compared with the job
  (`MembershipProved`).  The processes are checked one by one in the frozen job: what has been
  established of those already looked at holds while the others are (`CheckedSoFar`), and of
  everybody once the list is empty (`AllChecked`).  Descent is proved as *every set closed under parents that holds the
  process holds the root* (`Descendant`), which survives births, and turned into the chain of parents that the
  property speaks of by counting: a line of sets that grows as many times as there are
  processes has stopped growing.
- `NobodyStaysFrozen`: a frozen job was frozen by this call (`FreezeHolds`), and every way to the
  end thaws what was frozen, or reports that it could not, or has seen the last member end.
- `TheReportIsTrue`: who is said to have ended is dead (`EndsAreReal`), and at the end everybody there
  is a handle to is dead or reported (`EverybodyWaitedFor`, `EndIsTrue`); of a single kill,
  that nobody who died comes back (`SingleInv`).

`Docker_proofs` is about `kick`'s own threads, by `Inv`.

- `NothingIsEverLost`: the two counters are the cardinalities of two sets of workers, plus
  the permits a call still has in hand (`PermitsInv`).  Each step that touches a counter
  adds one worker to its set or takes one out, and `ToComeInv` and `CallInv` say that the
  worker it adds was not in it.  `DockerAssumption` asks that the calls be finitely
  many, since a session makes finitely many.
- `ShownWasReadToTheEnd`: a drain worker's result has been sent only when its stream was at
  its end or over the limit, and what the call received is what was sent (`SentInv`).
  This is the first half of `AnswerIsWhole`; the other half, what the parsed rows say, is
  a fold over them.

`WatchLoop_proofs` is about `kick watch`.

- `TheEndIsInOrder`, `IntervalsAreFull`: by `LoopInv`.  Gap records are numbered by the
  failures, and the last one is written before the budget can be found spent (`GapInv`);
  the moment from which the next poll is counted is never before the last attempt nor
  before the end of the last failure (`IntervalInv`).
- `RecordsAddUp`: by `LedgerInv`.  In the middle of a batch the records told so far agree
  with neither snapshot.  What is invariant is a balance: told, plus what is pending that adds a row
  to the bucket, less what is pending that takes one away, is the current snapshot
  (`BalanceInv`).  What is pending are the events not yet taken into a group, those of the group whose
  rank is still to come, and the one in hand; a pass over a group must not come upon
  an event twice (`GroupInv`).  It starts from the algebra of the diff, which is proved
  for each bucket by cardinalities.
- `NothingUnreadDecides`, *where protection goes by process names only* (`NamesProtect`):
  each term of the filter, evaluated on what is known of the owners, is compared with the same
  term in every world that what was read allows.  The hypothesis is needed: see the second of the
  three things under Findings.

`FrontEnds_proofs` is about the two front ends.  First the commands of the command line, over
one world that moves between any two of their reads:

- `ReportSpeaksOfThisWorld`, `TheBatchAccounts`, `TheBatchSignalsWhatItListed`: by `IInv`, which
  is `WorldInv` (one holder per number; the dead stay dead), `SettleInv` (who is said
  to have exited has ended, and what is said to be visible was busy in the last round) and
  `BatchInv`.  The last follows a plan from the command line to the report: a plan has one
  target for each number and answers each selector (`PlanIsGood`); a handle is of a process
  that has the planned number, perhaps its next holder (`PinsAreOf`); those who got a signal
  are the targets delivered to, each shown by the fresh snapshot with what was confirmed
  (`SignalsAreOf`); and the report and the exit code follow from them (`ReportFollows`).
  `PlanOf` and `DistinctSelectors` are recursive functions; what is proved of them is by
  induction on the prefix of the command line, again without an operator for an argument.
- `TheHandoverIsConfirmed` is the first half of `HandoverMatches`: by `HandoverInv`.  It
  follows the process that was confirmed and not its number: if the pin is of another one, the confirmed one was dead
  by then, and no later reading shows it.  So the readings that the gates compare are
  of the pinned process, or it has died.
- `TheHandoverMatches` adds the second half, `ConfirmedGoesThrough`, by `CalmInv`: while nothing
  has been disturbed and nobody was signalled, a look shows what the look before it showed
  (`SameShows`), so whatever was read is what would be read now; the rechecks then find the
  target the preview found (`NoObjection`, `GateOpens`), the pin is of who was shown, and the
  first delivery, or the executor, signals somebody.  Every confirmed kill that has not
  signalled is therefore at a step that leads there (`Going`).  Its one hypothesis is that no
  process is a zombie at the start (`NoZombies`, which `commands.cfg` satisfies): a root that is
  one can be previewed and confirmed and gets no signal.  `NobodyDies` carries it along.
- `TheVerdictsHold` is the first third of `ReadingsHold`: by `VerdictsInv`.  The snapshot has a row for
  each bound socket that a process holds, and each verdict says what was so when it was
  read; the matches that `kick why` counts are cardinalities, which is why sockets are
  assumed to be finitely many (`SocketsAssumption`, `WhyAssumption`).

Then the terminal application and the session around it:

- `SessionIsAlwaysUndone`: by `SessionInv`.  The screen is the session's only where it says so
  (`ScreenInv`), handlers, mask and hook follow the way through the teardown
  (`BorrowedInv`), and a signal that came is in the slot, waits behind the mask, ended the
  loop, or was acted on, with no moment between two of these (`ArrivedInv`).  That no
  termination signal is named like another outcome of the loop is an assumption
  (`TerminalSessionAssumption`).
- `OneProcessIsShown`, `ConfirmedIsSignalled`, `FreedPortsStayFreed`: by `AppInv`.  What makes
  it inductive is `RowsInv`: an answer about a process is merged into an
  open confirmation by number, and the number may be another process's in the rows of
  now; but while an answer may still be taken, no snapshot has replaced the
  rows the confirmation was opened on, because taking one outdates the worker that reads.
  `KillingInv` carries what was confirmed and typed through the steps of the kill, and
  `OvertakenInv` says that a refresh worker which was at work during a delivery is marked.

Only model-checked:

- `ListIsTrue` and `InspectIsTrue` of `ReadingsHold`: `kick list` prints its rows sorted, and
  `kick inspect` walks a tree in preorder over sorted children.  `SortSeq` chooses an
  arrangement, which its definition fixes only where no two rows have one key (two interfaces
  of one address do): of other rows nothing can be proved, while TLC's sort does arrange them.
  The walk is a recursion over the data.
- The rows of `AnswerIsWhole`, which `DockerMatch` computes by folds.
- The liveness properties (`EventuallyDone`, `AnsweredIsDone`, `ConfirmationAnswerable`,
  `CapacityComesBack`, `EventuallyEnds`), which are out of the prover's reach, as is what a fold or a
  recursive definition computes for every input.

## Findings

`freeze_zombie` shows that a scope with a zombie in it cannot be killed.  The
snapshot lists zombies; stopping one answers "not found"; the sweep counts it as
a discovery all the same (`execute.rs` 610, 636); and its parent, being frozen,
cannot reap it.  So the next pass finds it again, and after `MAX_FREEZE_PASSES`
the kill is refused although nothing changed.  The comment at 566-569 says that
a static tree freezes in one pass.  The refusal is safe: everybody is resumed.

`single_hidepid` shows a kill that says of a living process that it has exited.
With `hidepid` a process that executes a set-id program is no longer shown in
`/proc`; the stop protocol reads `/proc/<pid>/stat`, and `linux_state_failure`
(`process/linux.rs` 196-202) takes the missing file for an exit.  If that happens
between SIGSTOP and its acknowledgement, the cleanup is skipped for the same reason
(271) and the process stays stopped: the same configuration also violates
`NoStoppedSurvivor`.

Three more things came up that are not runs of their own:

- `MatchedIsDefinite` of `WatchFilter` does not hold: an event is told as a
  definite match although the owner of its socket could not be seen.  On Linux a
  socket of another user has no owners and counts as complete; that its owner is
  missing is only said by a gap that names no endpoint.  `evaluate_side`
  (`filter.rs` 190) lets such a gap turn a false result into an unknown one, not a true
  one, and `protected:false` is true of a socket without owners.  `src/README.md`
  232-233 promises `indeterminate`, and `docs/structured-output.md` 644 a definite
  match.  `OwnedMatchIsDefinite` is the same for seen owners, and holds.
- With snapshots as macOS makes them `NoPossibleMatchHidden` does not hold:
  `owner_protection` (`filter.rs` 392) is sure that a process is not protected once its
  name was read, but on macOS the name of the executable protects too.  With an
  executable that could not be read, `protected:true` drops an event that
  `src/README.md` 233-234 says is never hidden.
- On a host where the private freeze call returns success without any effect, a helper
  that can run and is merely not scheduled for `SUSPENSION_OBSERVATION_TIMEOUT`
  (250 ms) is taken for a frozen one, and later a running job for a frozen one:
  `JobIsTheConfirmedTree` does not hold when helpers may stall.  This is the limit of a
  probe by silence rather than a disagreement with what is said of it; the run
  `job_tree` assumes that a helper that can run answers in that time.

## Not modelled, and left to do

- The native collectors of macOS and Windows (`platform/macos.rs`,
  `platform/windows.rs`): system calls and the decoding of their buffers.  The passes
  above them are shared with Linux and are in `Observation`.  The raw-PID guards for
  the *members of a tree* on macOS are in the first of these files; `RawKill` has them
  for one process, and a `FreezeKill` over raw PIDs is the next module worth writing.
- Reservation, installation and restoration of the watch's signal handler
  (`cli/watch/signal.rs`): one static slot, taken once per command.
- Scrolling, sorting and filter line of the terminal application; drawing (`ui/`).
- Text: `config.rs`, `labels.rs`, `protection.rs`, `output.rs`, `public_output.rs`,
  `display.rs`, parsing in `query.rs` and of arguments, JSON of Docker.
- Packaging and fuzzing code.

## Running

`tlc -workers 2 -config freeze_tree.cfg MCFreeze` (and the other pairs of
`PROJECT.json`); `tlapm SingleKill_proofs.tla` and the other modules whose names end in
`_proofs`.
