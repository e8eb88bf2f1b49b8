# TLA+ verification of just-agent (kallip)

kallip runs LLM agents. A *tagma* is a server process that hosts a tree of
agents; each agent is a task that talks to a model provider in rounds, executes
tools, sleeps between rounds and is woken by messages, timers, approvals and
operators. Around the tagma stand an instance daemon that starts and stops
tagmata, a timer daemon, a task ledger and a relay to the platform. This
directory models the parts where several actors share state, checks them with
TLC and proves the main invariants with TLAPS.

## Inventory

| Part | State it keeps | Operations | Hard behaviour | What makes it correct |
|---|---|---|---|---|
| agent task (`kallip-runtime/src/agent_task.rs`, `runner.rs`) | lifecycle state, two fuses (`wait_until`, `retry_at`) with their `Notify`s, consecutive failures, the round-token slot | select loop over prompt, cancel, notify, retry and wait arms; `run_and_report`; rounds | stale permits and sleeps, coalesced permits, interrupts between rounds | a sleeping task can still be woken by what it waits for; no delivered message is forgotten |
| bridge (`kallip-tagma/src/bridge.rs`) | status mark, parked cell, retrying cell | one step per agent event | lags behind the task by up to 256 events; three cells | the settled mark is the task's state; a park has a reason |
| delivery and inbox (`delivery.rs`, `inbox/mod.rs`) | inbox rows | insert, duty gate, parked gate, kick, notify, reactivation | each gate reads state the task changes meanwhile | a reply means the message will be seen |
| control routes (`routes/agent.rs`, `routes/profiles.rs`) | duty, pending profile reset | duty change, interrupt, apply, remove | check-then-act against the task | requests reach the round or the wake-up they are for |
| approvals (`approval.rs`, `policy/executor.rs`, `routes/approval.rs`) | the approval store and `approvals.json` | enqueue, commit, approve, deny, redeem, cancel, save, restore | two writers of one file; execution and its mark are durable at different times; crashes | only approved calls run, once; decisions are durable |
| directory locks (`dirlock/mod.rs`, `lifecycle/workspace.rs`) | lock table | acquire, release, transfer, release_all | overlap along a delegation chain read before the lock is asked for; locks outliving tasks | overlapping writable sets only within one chain of command |
| registry and lifecycle (`state.rs`, `lifecycle/`, `delivery.rs`) | registry, subagent slots, agent directories | spawn, restore, reactivate, remove, panic watcher | deliveries, removals, panics and a restart race; every prefix of a creation has its own rollback | one task per agent; locks, tasks, registry and directories in step |
| shell (`kallip-shell`) | execution gate, background tasks, watchers | exec, adopt on timeout, spawn, kill, drop; carve | confinement is fixed at the fork; tool calls are dropped at any await | no task keeps write access to a carved workspace; every task settles |
| relay uplink (`relay/flusher.rs`, pumps, `tunnel.rs`; `kallip-lesche/src/state.rs`) | topics, retained snapshots, gates, pumps; presence and projection | publish, flush, retry, gate edges, reconnect | lost, late and reordered requests; edges dispatched concurrently | the newest status arrives; nothing acknowledged is buried |
| shift engine (`engine.rs`, `work_schedule/`) | the schedule row, the cycle, the deadline, duty | validate, evaluate, passes and transitions, PUT, override | boundaries, stalls, edits during a pass, restarts | duty follows the schedule |
| task ledger (`kallip-task`, `routes/task.rs`) | tasks table, event trail, dossiers | twelve verbs behind four gates | gates read a history of reopens and forced escapes; close packs outside its transaction | the trail derives the table; no gate is passed unannounced |
| instance daemon (`kallip-daemon`) | records, `runtime.json`, processes | spawn, start, stop, adopt | no lock per slug; recycled pids; crashes between launch and anchor | one tagma per slug; stop hits its own |
| timer daemon (`kallip-cron-daemon`) | schedule table | create, PATCH, delete, tick, sweep, acknowledge | three writers without a lock; crash between post and acknowledgement | one-timers fire once; every trigger is posted |
| acquisition, retry and failover | endpoint chain, retry records | stream, back off, advance, fall back | budgets, deadlines, resets mid-stream | bounded attempts, no endpoint skipped |
| token budget | tree-wide counter | charge, check | shared by all agents of a tree | counted once |
| context store and history | turns, pins, manifest | push, pin, evict, compact, persist | compaction across an await, split files | no pinned turn lost |
| platform services (lesche rooms, archeion, files, instances), clients, web applications | databases, UI state | HTTP | - | outside the project, but for the lesche's presence |

Messages reach an agent through the inbox table plus a wake-up: a permit in its
`Notify`, or a turn on the bounded prompt channel. What the task does comes back
as events on a bounded channel, which the bridge turns into the mark that
delivery and interrupt read. The approval store is shared between the agent's
executor and the approval route under one mutex, and both write its file. A
subagent's workspace is carved out of its superior's: the lock table and the
superior's shell gate are asked one after the other. The shift engine and the
duty route write the duty that delivery reads. The timer daemon posts into the
same delivery; the instance daemon knows a tagma only by its record, its
`runtime.json` and the process table.

## Plan

Done: `AgentLoop`, `Approval`, `Lifecycle` (which implements the abstract
`Delegation`), `Shell`, `Uplink`, `TaskLedger`, `Daemon`, `Cron` and `Shift`, with
proofs of every safety property the runs check.

Left, in this order:

1. Failover and retry of model streams, and the token budget.
2. Context store and compaction, with its split files and crashes.
3. Rooms, polling and chat history of the relay; the lesche's side of them.

Next theorems: how many tasks an agent may have when its deliveries did cross; the
evaluator over months of unequal length; that no directory is left over while no
directory operation fails, from a bound on what a boot may find.

## Modules

| Module | What it is |
|---|---|
| `AgentLoop` | one agent: task, bridge and the handlers that act on it |
| `AgentLoopProofs` | theorems about `AgentLoop` |
| `Approval` | the approval store, its file, the rounds that use it, crashes |
| `ApprovalProofs` | theorems about `Approval` |
| `Workspaces` | agents and directories: constants shared by the next two |
| `Delegation` | what the directory locks promise: the abstract specification |
| `Lifecycle` | registry, locks, tasks and directories under spawn, reactivation, removal, panic and restore; implements `Delegation` |
| `LifecycleProofs` | theorems about `Lifecycle`: it implements `Delegation`, and what holds of registry, directories, locks and tasks |
| `Shell` | execution gate, foreground and background commands, carve-outs |
| `Uplink` | status and projection pumps, flusher, tunnel, the lesche's presence |
| `UplinkProofs` | theorems about `Uplink` |
| `TaskLedger` | table, trail and gates of the task ledger |
| `TaskLedgerProofs` | theorems about `TaskLedger` |
| `Daemon` | records, `runtime.json` and processes under the daemon's verbs |
| `DaemonProofs` | theorems about `Daemon` |
| `Cron` | the table of schedules under scheduler, deliverer and routes |
| `CronProofs` | theorems about `Cron` |
| `Shift` | work schedule, its evaluator, the engine, duty |
| `RuntimeProofs` | theorems about `Shift` and about `Shell` |
| `MC...` | symmetries and the constants TLC's configurations cannot write down |

Definitions that begin with "Mutant:" in their comment are deliberately wrong
variants of the definition that follows them. They are used by no specification;
substituting one shows that a property notices the bug. Variables commented
"history" are read by no guard.

### AgentLoop

`pc` is where the task stands between two awaits: `select`, the notify arm after
its permit (`pull`), an arm about to run (`start`), the Busy send, the top of a
round, the model call (`llm`), between two heartbeat rounds (`beat`), the prompt
arm's `drain`. One action is the code between two points where another task may
observe or change shared state. `TakePrompt`, `TakeNotify`, `PullInbox`,
`TakeFuse`, `TakeCancel` and `PostRoundDrain` are the arms of the select loop;
`StartRun` to `RunTerminated` are `run_and_report`, one action per match arm.
`EndRun` joins clearing the slot, the terminal send and the state change: only
the task reads the last, and an interrupt that finds the slot empty or a
finished round does nothing in either case.

A fuse is a deadline (`none`, `pending`, `passed`), the sleeps spawned for it and
for the deadlines it replaced, and the permit they leave. Sleeps of replaced
deadlines may end at any time; the armed one not before its deadline. Time is
otherwise abstract.

The bridge takes events in order. `progress` stands for every blocking send of a
round, `retrying` for the `try_send` of backoff and stream resets. Handlers are
split where they release a lock or await: `enqueue_prompt` is `PushInbox`,
`CheckDuty`, `CheckParked`, then `SendKick` or `NotifyAgent`; the notices of
subordinates (`deliver_to_superior`) skip the parked gate; `update_duty` sets,
then wakes; a profile reset is written, then signalled; `interrupt_core` reads
the mark, then cancels.

Abstracted: message bodies, the content of rounds, token counts (the budget gate
is a free choice), the initial compaction. Reactivation after the task ended is
outside: a handler that meets a finished task ends in `dead`.

### Approval

`status` is the store in memory, `disk` the file, `told` and `diskTold` the
decisions in the agent's context and in its saved copy. A round drains the
notifications, calls the model (which may save, when retry records are flushed
or the context is compacted), executes calls one after the other until one does
not cleanly succeed, and saves context and store. `TakeForRedeem` and
`Dispatch` are separate because the mark precedes the effect; `RedeemReturns`
covers success, failure and the tool timeout, `InterruptRound` the round token.
`Respond` is the route: gate, decision, notification and write under the store's
lock. Every write may fail, which the code logs. `Crash` forgets what was not
written, also standing for a last write that fails; `Restart` is an orderly stop. A
restore that cannot read the file goes on with an empty store (`Restored`), and the
next save overwrites what it could not read; `lost` are the actions forgotten this
way, about which two of the properties say nothing further.
`Gated` are the calls the superior agent's own rule-set would not allow, which
only the operator may approve. The history variables `used`, `decided`,
`written`, `ran`, `crashes` and `lost` are read by no guard except the freshness of
ids and the crash bound. The one-shot flags that only feed client events are left
out.

### Lifecycle and Delegation

`Delegation` says what the lock table promises: a workspace is granted only when
nothing beneath it is locked and every lock above it belongs to a superior; it
moves only between a superior and the heir (full-handoff child) that stands in its
stead; it is given up. `Lifecycle` has the handlers: `SpawnReserve` to
`SpawnRegister` are `spawn_subagent` and `Materialize::run`, cut where they leave
the registry lock, with the rollback of each prefix (`SpawnFails`,
`SpawnUnwind`); `Probe` to `ReactInstall` the slow path of a delivery that finds the
prompt channel closed; `RemoveUnregister`, `TearRelease` and `TearArchive` the
removal; `Watch` the panic watcher; `Restart` and the `Restore...` actions the
reboot, a level of the tree at a time. Tasks are named by the handler that
started them (`Incarnations`), so two tasks of one agent are two elements.

Directory operations fail where the code lets them (`DiskMayFail`). `create_agent_dir`
is two steps, the directory (`disk` is `bare`) and its `meta.json` (`live`); a write that
fails returns at once, and neither the directory nor the slot is given back
(`SpawnWriteMeta`). Removing a directory, on the two rollbacks, and archiving it are
best effort: `Clear` may leave it whole or without its `meta.json`, which is only
logged. The next boot finds what was left: a directory with a `meta.json` is restored
as an agent, also one that was being removed, and one without is refused, which
registers a faulted entry of no superior (`RestoreRefused`). Such an entry takes the
root's place and the boot aborts (`BootAborts`), with every boot after it. The history
variables are `leftover`, the agents whose directory a failed operation left since
the last boot, and `crossed`, those a delivery reserved while an earlier delivery to
them had not ended.

The refinement mapping is `INSTANCE Delegation WITH owner <- lock`, and `home`,
`above` and `stead` read from `cfg` (`Home`, `Above`, `Stead`). `above` and `stead` are
ghost fields of `cfg`, set at reservation. The lock requests use `chain`, what a handler's earlier walk of
the registry returned; the walk fails when an ancestor is missing.

Abstracted: paths are elements of `Dirs` under the relation `Beneath`; identity
files, environment, skills and context are part of the one value of `disk`. The root
exists from the start (`ensure_root_agent` is not modelled), and the blank
configuration of a refused entry is not kept apart from the agent's own: no handler
gets to read it, since the boot aborts.

### Shell

One agent's shell: the gate with its READ side (`reading`), WRITE side
(`writer`), tally (`running_bg`) and epoch; the operation that holds the backend's
mutex (`at`, `cur`); the processes with the carve-outs their confinement knows
(`holes`); the background registry and its watchers. `ExecFork`, `ExecTimeout`,
`AdoptRead`, `Adopt` and `AdoptRefused` are the foreground command and its adoption;
`BgFork`, `BgCount`, `BgStart` the background one; `Interrupt` drops a tool call at
any await. `CarvePermit`, `CarveGate` and `CarveLand` are the superior's side of a
spawn. `Recarve` is the reactivation and restore of a subagent, which take the
workspace back without asking the gate; what it carves is in `ungated`, and the
confinement property is about the rest. A failing wait ends the command as an exit
does (`ExecDone`). After the registry's Drop a watcher may not be polled again
(`WatchAborted`): `supervisor.rs:83` calls the report best effort there, so `TaskSettles`
promises the end of a task in every case and its report only while the registry
lives. Output capture, spill files, the stall
flag and detached grandchildren are left out.

### Uplink

The pumps publish numbered snapshots into latest-wins topics; the flusher drains
them into its retained `pending`, posts a `batch`, and waits on its topics, the retry
tick and the gate's `Notify`. `wire` is how far the request got: it may be applied
and the answer lost, or abandoned and applied `late`. `StatusSub`, `ProjectionSub`
and `HintActs` are the dispatch of OwnerSub frames and of the counts in an answer,
each on a task of its own and hence in any order. `Apply`, `LateApply`, `Flip` and
`PresenceEnds` are the lesche's: presence with a generation per tunnel, and a
projection accepted by generation and sequence number. Signals are left out, and so
is a restart of the tagma, with which the sequence numbers begin anew under a later
generation (`kallip-lesche/src/state.rs:300`).

### TaskLedger

`row` is the tasks table, `trail` the append-only events. Every verb is a single
step because it is one `BEGIN IMMEDIATE` transaction; only `close` is two
(`ClosePack`, `CloseCommit`), because it packs the dossier before the
transaction. The gates (`SerialBlocked`, `DispatchInCurrentCycle`,
`MissingReceipts`, `GateReportCurrent`) are functions of table and trail as in
`gates.rs`. Wording, timestamps, reasons and association keys are left out.

### Daemon

`rec` is the record area, `rt` the pid in each `runtime.json`, `proc` the process
table with kernel start times. A verb is cut at each file access and signal; the
rollback of a spawn kills first (`RollbackKills`) and then deletes the record, which may
fail and is only logged (`RollbackForgets`). The
tagmata, the kernel and other programs are the environment: they boot, enroll,
publish, die, and pids are recycled.

Assumed: start times are readable and a new process has one nobody remembers
(`NewTime`); a pid is not recycled while a request has it in hand or works on a slug
whose `runtime.json` names it (`Held`): the windows are milliseconds wide and the
kernel hands out pids in order; workspaces do not overlap. `calm` is a history
variable: the slugs to which none of three disturbances has happened (a start
beside another launch, a launch cut short by a crash or giving up on a process
that still boots, an anchor that could not be written). Two properties are stated
for calm slugs only; what happens to others is under the disagreements below.
`StopHitsOwn` needs no such condition.

### Cron

The table of schedules with each statement a step: `TickReads` and `TriggerRow` are
the scheduler, `SweepReads`, `PostAccepted`, `PostLost`, `PostErrs`, `PostRefused`,
`AckReads` and `AckWrites` the deliverer, `CreateSchedule`, `UpdateStatus` and
`DeleteSchedule` the routes; `Restart` is a crash. `fired`, `posted`, `owed`,
`replays` and `touched` are history: `replays` counts what may be posted again (a
lost acknowledgement, a row set to triggered by hand). The read and the write of a
failed delivery's backoff (`store.rs:251`) are one step: the write is guarded by the
row's status, so a PATCH between them makes it write nothing.

### Shift

Upper part: the specification, its validation and the evaluator `WindowStatus` as
pure operators, compared with `OnAt`, a definition by the calendar alone; `Schedules`
are the requests' shapes, `Rows` and `ValidCycles` those that passed `Validate`. Lower
part: the passes of the engine (`PassBegins`, `PassReads`, `Sync`, `FireStart` to
`FireEnd`, `PassEnds`), the PUT in its two writes, the duty override, and a restart
after which the root is restored beside the running engine. `held` says that
messages were buffered off duty and not announced. History: `hands` (a route set
the duty since the last change of shift; it stays set when an edit of the schedule
then puts the agent back on duty, which announces no held message, `engine.rs:544`), `slept` (the engine skipped a start),
`blind` (its last pass found no root).

## Runs

| Run | Checks | Bounds |
|---|---|---|
| `agentloop_state` | `MarkSettles`, `FuseBurns`, `ResetHasWake` | one message, event channel of 2, two sleeps per fuse, every fault, one interrupt, one reset |
| `agentloop_wakeup` | `NoLostWakeup`, `ApprovalHasWake` | one message, one notice, one approval, two duty changes, background notices, no hard fault |
| `agentloop_delivery` | `EventuallyDelivered` | one message, two duty changes, a heartbeat, failing inserts; fair |
| `approval_redeem` | `DiskIsPast`, `DecisionIsDurable`, `RunsOnlyApproved`, `RunsOncePerLife` | two actions, one gated, failing writes and reads, restarts, one crash |
| `lifecycle_locks` | `TypeOK`, `LocksTrackTasksIfCarved`, `ChainUnbroken`, `NoOrphanDir`, `ImplementsDelegation` | three agents, three nested directories, carve-out, heir and guest, one delivery, failing directory operations, two faults |
| `lifecycle_reactivate` | `OneIncarnation`, `NoZombieTask`, `WorkspaceHeldIfCarved` | two agents, three deliveries, carve-out, heir and guest, failing directory operations, a profile set that may be missing, three faults |
| `shell_carve` | `TallyExact`, `NoStaleTask`, `OverlapEnds`, `TaskSettles` | two processes, one carve; fair |
| `uplink_flush` | `NewestKept`, `AckedStays`, `StatusArrives` | two versions, two pushes, one failure, two sessions, one flip; fair |
| `taskledger_gates` | `TrailDerivesRow`, `SerialUnlessForced`, `ClosedWasReviewed`, `ReportBeforeMove` | two tasks, one person, one close request, six events, one edit |
| `daemon_launch` | `OneTagmaIfCalm`, `StopHitsOwn`, `StoppableIfCalm` | one own and one outside instance, two pids, two concurrent and four total requests |
| `cron_delivery` | `OneTimerFiresOnce`, `PostedPerTrigger`, `OwedIsPosted` | two schedules, one of a stuck agent, horizon of two periods, one fault, one PATCH; fair |
| `shift_duty` | `TypeOK`, `EvalIsExact`, `DutyFollowsWindow`, `HeldIsOffDuty`, `CatchesUp` | a day of four units, a cycle of two days, six units of time, two PUTs, one fault; fair |

Why the bounds are enough. An event channel of two lets the task be a full turn
ahead of the bridge; the properties about the mark depend only on the order of
neighbouring events, and the theorems hold for every capacity. Two sleeps per
fuse give one stale and one armed timer, which is all the guard distinguishes.
One message is enough for the wake-up properties because handlers of different
messages share only the permit, which is idempotent; the notice adds the second
kind of handler. Two actions give one gated and one free; one crash separates
two lives, and the second life is like the first. Three agents give a root, a
superior that is not the root, and a sibling or a grandchild; three nested
directories a lock above and one beneath. Two faults are a panic, a directory operation that fails
and a restart, two at a time. `lifecycle_locks` has all
three agents but one delivery. `lifecycle_reactivate` has three deliveries over a superior
and its subagent, so that they overlap at every point, also while the other agent is
reactivated or spawned, and a third fault: that is what it takes to reach a second task
behind a channel that was closed for somebody else. Two processes are a command and a task that
blocks a carve. Two versions and one failure let a newer status overtake a
retained one; two sessions give a late request of an earlier one. Six events
are a full cycle of dispatch, receipt, close and reopen with two to spare on the
second task. Two pids and two requests make every pid of the own instance one
the outside instance may also have had. Four units of a day hold touching windows,
a window over midnight and a gap; two days a day that is not selected.

Deadlock is not checked where requests are bounded and the system then simply
waits (all runs but `approval_redeem`); the waiting is what the liveness properties
are about.

### Fairness

- `AgentLoop` (`FairSpec`). The task, the bridge, timers and a handler that has
  begun are tokio tasks and keep being polled: weak fairness. `select!` chooses
  randomly among ready arms, so the notify arm is not passed over forever: strong
  fairness of `TakeNotify`. A run ends: `max_tool_rounds` and provider timeouts bound
  it, and the assumption is that it ends with a yield (`SF(Yield)`), as hard faults
  are off.
- `Shell`. Weak fairness of the operation, whose timeout bounds it; of each
  watcher from its cancel token to the report, which are polled tasks and a SIGKILL
  the kernel carries out; of a carve that has begun. Nothing makes a process exit
  by itself.
- `Uplink`. Weak fairness of the flusher, of the lesche's handling of a request
  under way, of dispatched frames, and of the end of a session whose presence is
  gone (the keep-alive fails). Failures and reconnects are bounded, never fair.
- `Cron`. Weak fairness of the clock and of both loops, each driven by an interval
  timer. A post is assumed to return: the client has no timeout (see below).
- `Shift`. Weak fairness of the engine and the clock, of a PUT that has begun, and
  of the restore of the root, which boot waits for.

## Where code and documentation disagree

None of these has a run of its own; the properties above exclude them by the
condition named. They were found as counterexamples of stronger statements, or
met while reading.

Agents and approvals:

- A message whose handler read the mark before the agent parked takes the notify
  path; the parked guard of the notify arm consumes the permit without looking
  into the inbox (against `docs/architecture.md:190`). `NoLostWakeup` therefore runs
  without hard faults. For the same reason a duty change does not wake a parked agent.
- A kick can be swallowed by the interjection drain of a round started by the
  notify arm; no inbox drain follows.
- Between two heartbeat rounds no round token is published; an interrupt there is
  acknowledged and lost. During in-request backoff it both cancels the round and
  queues an interrupt turn.
- The redeemed mark reaches the disk at the end of the round: a crash after the
  execution makes the approval usable again, hence "per life" in `RunsOncePerLife`.
- A restore that cannot read `approvals.json` takes an empty store for it, and the
  next save overwrites the decisions in it. Hence `lost` in `DiskIsPast` and
  `DecisionIsDurable`.
- Approval notifications are not saved: a restart before the next round leaves a
  decided action nobody tells the agent about.
- A failed inbox insert is only logged. A run of the post-round drain does not clear
  the fuse the run before it armed. The bridge infers a spent retry budget from a
  cell other events rewrite, so the displayed park reason can differ from the task's.

Agents' lifecycle:

- When a full-handoff child panics, its locks are released and not handed back:
  the superior works on without the lock `dirlock/mod.rs:51` says it has. The same
  child may leave a lock behind an entry that is gone. Hence the two `...IfCarved`.
- With two deliveries to one dead agent, the watcher of the first new task can
  fault the entry the second has just installed, and a lock can be freed under a
  running task. Hence `crossed` in `NoZombieTask` and `WorkspaceHeldIfCarved`.
- A delivery whose fresh task dies before the write-back finds, against the comment at
  `delivery.rs:540`, that another has replaced the channel it installed, and overwrites
  it with its own dead one.
- With three, one whose spawn fails closes, through the entry, the channel a later
  one has reserved (the comment has it that it closes its own), and the third starts
  a second task. Hence `crossed` and `Thrice` in `OneIncarnation`.
- A creation that `Materialize::run` leaves by `?` or early (the profile set at
  `lifecycle/spawn.rs:456`, the agent's directory at `:465`) keeps its slot reserved,
  although the comment at `:419` says it is retracted from the supervisor on failure:
  the supervisor can no longer be removed, and has one subagent less to create.
- When the write of a `meta.json` fails, the directory stays. The next boot registers
  it without a superior, takes it for the root, and then refuses the root: the tagma
  does not start again until the directory is removed by hand. The comment at
  `lifecycle/restore.rs:663` says that the two cannot conflict (`RootTaken`,
  `BootAborts`).
- A removal whose archiving fails reports success, and the next boot restores the
  agent; so does a creation whose rollback cannot remove the directory. Hence
  `leftover` in `NoOrphanDir`.
- A panic before registration leaves a Live entry without a task. The check of a
  role's uniqueness and its registration are separate steps.
- A superior whose carve-out children are alive can never be reactivated: its own
  lock is refused because of theirs.
- Reactivation and restore carve again without the shell's gate, while the
  comment at `kallip-shell/src/backend.rs:243` has it that a carve takes the WRITE
  side and cannot interleave with a snapshot and fork.

Relay:

- A close and an open edge dispatched on two tasks may be applied in the wrong
  order: the gate stays closed on a live subscription until the next frame, answer
  or reconnect. Interleaved hints leave `projection_active` set with no pump.
- A status has no sequence number: a late POST buries a newer one until the next
  capture. The first projection may precede the flusher's subscription and be lost.
- With the gate closed and something retained, the retry tick fires again and again.

Task ledger:

- An archived task can be reopened and stays hidden from the lists. A close that
  packed before a reopen and a second close commits the older archive.

Instance daemon:

- Two starts of one slug, or a start during a spawn, both find no live
  `runtime.json` and launch: two tagmata share one data directory. A launch that
  times out on a tagma still enrolling kills nothing, and the tagma publishes later,
  unowned ("no orphan outlives the timeout", `spawn.rs:1045`). A crash between launch and
  anchor leaves the old anchor, and stop refuses. Hence `calm`.
- An adopted slug without an anchor whose `runtime.json` is stale is judged by
  process name: stop may hit another tagma ("so a recycled pid is refused",
  `stop.rs:36`). SIGKILL after the grace
  period is sent without a second look. `replay_env` and `anchor_identity` write
  back a whole record and may undo each other.

Timer daemon:

- A PATCH to `triggered` delivers a completed one-timer again
  (`docs/reference/cron-api.md:101`: a fired one-timer is not re-armed); pausing and
  resuming a triggered one loses it. A pause between two statements of a tick or an acknowledgement
  is overwritten. The backoff of a row survives a PATCH.
- The post has no timeout, so one hanging request stops the deliverer; a schedule
  of an agent that no longer exists is retried for ever.

Shift engine:

- The engine may run before the root is restored; it then parks without a
  deadline and nothing wakes it until the next PUT (against `engine.rs:14`: on a
  restart duty is set immediately). Hence
  `~blind` in `DutyFollowsWindow`.
- An engine that stalls past a whole window skips its start and stays off duty
  through the next window, which has already begun (`engine.rs:42` says it catches
  up).
  Hence `~slept`.
- The horizon of `always` is never refreshed, so after 30 days every tick runs a
  pass (`work_schedule/eval.rs:41`: "re-evaluates to a fresh horizon"). Hence the exception in
  `CatchesUp`.
- Pausing sets the agent on duty without announcing held messages
  (`work_schedule/mod.rs:250` wants none "buffered indefinitely"); a pause
  racing a pass, or two PUTs at once, can leave the duty of the loser.

## Proofs

All theorems hold for every value of the constants under the `ASSUME`s of the
modules, which TLC evaluates in the runs: positive capacities and natural bounds,
disjoint sets of names, finite sets where cardinalities are taken. No theorem
assumes fairness, though the specifications it is about may state it.

`AgentLoopProofs`:

- `TypeCorrect`: `TypeOK` is inductive, with the Boolean flags split off.
- `ParkedReasonCorrect`: `ParkedHasReason` alone is not inductive: a progress
  event clears the parked cell whatever the mark is. `TurnsAreOpened` adds that
  an in-flight event on the channel always follows an opening event of its turn
  or meets a mark that has already left Parked.
- `StatusCorrect` from `SettledInv`: the last queued event predicts the state.
- `FuseCorrect` from `FuseInv`: a stored deadline has a sleep until it passes,
  and a sleep or a permit afterwards.
- `ResetCorrect`: `ResetHasWake` is inductive.
- `WakeupCorrect`, assuming no hard faults: `NeverParked` shows that no handler
  takes the kick path and the parked guard never fires, so a permit is consumed
  only by a pull. With hard faults the statement is false (see above).
- `ApprovalCorrect`, under the same assumption, from `ApprovalInv`: outside the select
  loop a decision is covered by the run that will drain it, so the property follows
  where the run ends: it has drained, or the budget stop has armed the wait fuse.

`ApprovalProofs`:

- `TypeCorrect`.
- `OnceCorrect` from `OnceInv`: an action that is not marked, or is marked and
  not yet dispatched, has run at most once per crash; `TakenIsMarked` links the
  call in hand to its mark and `FreshIds` keeps unminted ids out of the store. An
  action forgotten by a restore is never approved again, since ids are not reused.
- `ApprovedCorrect` from `ApprovedInv`: neither copy of the store holds an
  approval nobody entitled gave, so no roll-back can invent one.
- `PastCorrect` from `PastInv`: of every action no restore failed to read, a step moves
  the status forward along `After`, which is reflexive and transitive, or takes it
  from the file (`Follows`).
- `DurableCorrect` from `DurableInv`: of these actions the file itself only moves along
  `After`.

`LifecycleProofs`. Every theorem rests on `Base`, inductive by itself: the types
(`TypeCorrect`), the tree of agents, to which only a reservation adds, a leaf at a
time (`TreeInv`), and where each handler is, with what that says of its agent
(`HandlerInv`: nothing else knows of an agent being created; an entry holds handles of
its own agent's tasks; no handler runs during a boot).

- `Refines`: `ImplementsDelegation`, with `Delegation` instantiated. `StepRefines` goes
  through the handlers: a release maps to `GiveUp`, taking one's workspace to `Grant`
  (`TakeStep`), establishing to `Grant` or `PassOn` (`EstablishStep`), backing out to the
  reverse (`ReturnStep`), a restore that fails after it has established to a grant to the
  superior, a release, or a stutter (`FailStep`); reserving maps to `Appoint`.
- `NestingCorrect`, `HomeCorrect`, `CommandCorrect`: the promises of `Delegation`, of the
  real lock table. Nesting is not inductive alone: a transfer keeps it only because
  the heir shares the superior's workspace and chain (`ChainOfCommand`) and an agent
  owns nothing but its workspace (`OwnsOnlyHome`).
- `ChainCorrect` needs `SlotInv`: a registered or materializing agent is in its
  superior's list, which is what a removal checks; and that a boot restores the
  superior first (`LowestFirst`, by the cardinality of chains).
- `OrphanDirCorrect`: `NoOrphanDir` is inductive over `Base`, with directory operations
  failing or not. Its content is that `leftover` holds no more than what failed in
  this life: what a boot finds is registered before the tagma serves (`BootDone`), so
  nothing left behind by an earlier life stays unseen.
- `LocksCorrect` needs that no guest is in the lock table (`NormalOnly`).
- `NoZombieCorrect`, `WorkspaceCorrect`, `OneIncarnationCorrect`: about every behaviour, for
  any number of deliveries that overlap in any way. What they exempt are the agents in
  `crossed`, whom a delivery reserved while an earlier one to the same agent had not
  ended. Deliveries may overlap without crossing: the recheck under the registry lock
  sends away every one that finds the channel of a reservation open, so crossing
  takes a fresh task that died before its write-back, or a failed spawn that has not
  yet dropped its lock. Deliveries that cross at one agent exempt no other. `CrossInv`
  says that of an agent not in `crossed` one delivery at most is past its reservation;
  `BusyInv` relates tasks to entries, channels and deliveries; `WorkInv` says who holds
  a workspace from before its task starts. Without the exemption the statements are false, by the
  counterexamples above.
- `OneIncarnationCorrect` says more than the other two: a second task takes a crossing
  and, in all, three deliveries to the agent (`Thrice`). Besides `BusyInv` it rests on
  `ActiveInv`, which gives up the panicked tasks and holds of every agent: a delivery
  loses its channel only to another one that has been past its recheck (`Lost`), so
  whoever then starts a task beside it is a third.

`RuntimeProofs`, of the shell: `TallyCorrect` and `StaleCorrect`. `OpInv` says what the operation's
child is at each step; `GateInv` that the two sides of the gate exclude each other
and a carve between gate and lock table holds the WRITE side over no running task;
`StaleInv` extends `NoStaleTask` to children not yet counted, and says that a command
whose fork epoch is still the gate's was overtaken by no carve.

`UplinkProofs`: `NewestCorrect` from `NewestInv` (an unread frame is the newest; a
status is retained or in flight, never both) and `AckedCorrect` from `AckInv` (a
projection the lesche has applied, and so may acknowledge, is stored under the
generation of its tunnel and at least as new).

`TaskLedgerProofs`: `SerialCorrect`, `ReviewCorrect`, `ReportCorrect`. `Latest` is the
highest position of a set of names: `HighestExists` comes from well-foundedness,
and `LatestKept` and `LatestNew` say how appending moves it. The invariant adds that
a task that was started has an assignee (`Assigned`) and a closed one its close on
the record (`Recorded`). `TrailCorrect` from `Told`, which restates the property
of a sequence of events and a row without positions (`Tops`: the last event of a set
of names; `Lacks`: there is none): each verb appends events and changes the row so that
the longer sequence tells the new row (`Tells` of the events, `Does` of the verb).
`LatestTops` ties it to `Latest`, which the property is stated with.

`DaemonProofs`: `StopCorrect`. `NamesInv` says that the incarnation anchored by a
record of the daemon's own tree, or by a copy a request has read, is a tagma of
that slug if it still runs; that while a slug is being launched its `runtime.json`
names no other slug's process; and that the pid being stopped is the slug's own.
`Shrinks` covers every step that only ends processes; `BornNames` shows that a new
process, whose start time no anchor has and whose pid is not held, revives no stale
name.
`OneTagmaCorrect` and `StoppableCorrect` from `CalmInv`, which says of each calm slug that
its tagma runs alone, published or booting under the launch that polls for it
(`AloneOK`); that one launch is past the publication of the record at most, and forks
only when no tagma runs and no `runtime.json` is left (`LaunchOK`); and that the record,
or the one an adoption is about to publish, names the tagma unless a launch is about
to anchor it (`RecordOK`). Either property alone says nothing of the launches that will
break it. A step of another slug, or of a stop, leaves a slug alone (`FrameOK`), a
launch goes on with no tagma (`EmptyOK`) or with a published one (`MoveOK`).

`CronProofs`: `OnceCorrect` from `FireInv` (a one-timer has a fire time, or is in a
tick's hands, only before it fires), `PostedCorrect` from `PostInv` (a row that will
be posted has one post to spare), `OwedCorrect` from `OweInv`.

`RuntimeProofs`, of the schedule, which shares no state with the shell (`Shell`
prefixes its `Init`, `Next` and `Spec` so that one module can extend both):

- `EvalExact`: `WindowStatus` agrees with `OnAt`, for every schedule that passes
  `Validate`, every length of hour, day and calendar cycle, and every time, negative
  ones included. `OnAt` is defined by the clock and the mask, without spans. Both
  sides are brought to one form first: a rotation is the set of its shifts, each
  some periods after the anchor (`IntervalOnAt`), a calendar the set of its windows on
  the selected days of the timeline (`CalendarOnAt`). A multiple of the period, or of
  the day, is a whole one away from the next (`Apart`), so the last shift to begin
  decides a rotation, and of a calendar only today's and yesterday's windows
  (`CoversDay`) can cover a time.
  The scan finds a later start because a mask selects a day of every cycle and
  `ScanDays` is a cycle at least (`FutureExists`); it misses nothing before that start
  (`SpanOnAt`). `EvalCorrect` is the same of the stored schedule.
- `ShiftTypeCorrect`: every row, cycle and PUT under way holds a schedule `Validate`
  accepts. It is what lets the next two use `EvalExact`. Two assumptions on the
  constants come with it (`ScheduleAssumption`): what a PUT carries has the shape of a
  schedule, valid or not, and `None` is neither a time nor a cycle.
- `DutyCorrect` and `HeldCorrect` from `CycleInv` and `SyncInv`. `CycleInv` says that the
  cycle is right about what is ahead of it (`Ahead`: on duty, a shift up to its end;
  off duty, a shift at its start. `Clear`: none before that start, unless one was slept
  through) and that duty agrees with its phase unless a route set it. Each transition
  is judged at the time the pass noted and carried forward to the present
  (`AheadLater`), which is why a stalled engine is covered. `SyncInv` says that a pass
  works on the stored row, and between passes the cycle is that row's and the deadline
  the cycle's, or another pass is due, or there was no root.

A calendar repeats after `CycleDays` days here, as a week does; the months' unequal
lengths are abstracted, so of monthly masks the theorems say what holds of equal months.

Only model-checked: liveness (`EventuallyDelivered`, `OverlapEnds`, `TaskSettles`,
`StatusArrives`, `OwedIsPosted`, `CatchesUp`), which is out of this prover's reach.

## Not modelled

The modules translate the state machines where several actors meet. They stand
for a small part of the repository's lines, for these reasons:

- Pure conversion, wiring and input and output: wire types, HTTP clients, command
  lines, provider backends, configuration and credentials, tool definitions,
  skills, logs, packaging, benchmarks. A model of these would be the code again.
- Databases behind request handlers (most routes of the tagma, archeion, rooms,
  files and instances of the platform): one transaction per request.
- The web applications and their copies of evaluator and reducers.
- The command classifier: a pure function over shell syntax; its verdict is an
  input of `Enqueue` and `Gated`.
- Planned, but not there yet: failover, token budget, context store and
  compaction, relay rooms and chat history.
- Within the modelled parts, what the sections above call left out or abstracted.
