----------------------------- MODULE AgentLoop -----------------------------
(***************************************************************************)
(* One agent of a tagma: the agent task (kallip-runtime), the bridge that  *)
(* turns its events into the status mark the tagma reads, and the HTTP     *)
(* handlers that deliver messages, flip duty, answer approvals, apply a    *)
(* profile reset and interrupt a round (kallip-tagma).  They share the     *)
(* inbox table, one Notify per producer class, the bounded prompt channel, *)
(* the bounded event channel and the round-token slot, and interleave at   *)
(* every await.                                                            *)
(***************************************************************************)
EXTENDS Integers, Sequences, FiniteSets

CONSTANTS
    Msgs,                \* messages sent through enqueue_prompt
    Notices,             \* notices of subordinates (deliver_to_superior)
    QueueSize,           \* capacity of the prompt channel
    EventCap,            \* capacity of the event channel (256 in the code)
    MaxTransientRetries, \* config.max_transient_retries
    MaxHeartbeat,        \* config.max_heartbeat_rounds
    Faults,              \* hard failures the provider may produce
    PushMayFail,         \* whether the inbox insert may fail
    BackgroundTasks,     \* whether the agent's shell has background commands
    MaxSleeps,           \* bound: outstanding sleep tasks per fuse
    MaxApprovals,        \* bound: undrained approval notifications
    MaxInterrupts,       \* bound: interrupt requests
    MaxResets,           \* bound: profile resets
    MaxFlips             \* bound: duty changes

FaultKinds == {"error", "maxrounds", "exhaust"}

ASSUME BoundsAssumption ==
    /\ QueueSize \in Nat \ {0}
    /\ EventCap \in Nat \ {0}
    /\ MaxTransientRetries \in Nat /\ MaxHeartbeat \in Nat
    /\ MaxSleeps \in Nat /\ MaxApprovals \in Nat /\ MaxInterrupts \in Nat
    /\ MaxResets \in Nat /\ MaxFlips \in Nat
ASSUME FaultAssumption ==
    Faults \subseteq FaultKinds /\ PushMayFail \in BOOLEAN /\ BackgroundTasks \in BOOLEAN
ASSUME MessageAssumption == Msgs \cap Notices = {}

VARIABLES
    pc,         \* where the agent task is
    drainDue,   \* the run was started by the prompt arm: drain the inbox after it
    lifecycle,  \* the task's LifecycleState
    parkReason, \* reason carried by lifecycle Parked
    deadline,   \* wait_until / retry_at: "none", "pending" or "passed"
    sleeps,     \* outstanding sleep tasks of each fuse
    fusePermit, \* permit stored in wait_notify / retry_notify
    fails,      \* transient_fails
    noProgress, \* consecutive bare rounds of the run
    token,      \* round_cancel slot: "none", "live" or "cancelled"
    cancelled,  \* the lifecycle token
    permit,     \* permit stored in notify
    prompts,    \* the prompt channel
    inbox,      \* undelivered inbox rows
    context,    \* messages recorded in the agent's context
    approvals,  \* approval notifications not yet drained
    reset,      \* pending_profile_reset holds a reset
    events,     \* the event channel
    mark,       \* the status byte the tagma reads
    parkedCell, \* reason in the parked cell, or "none"
    retryCell,  \* attempt in the retrying cell, or 0 for None
    duty,       \* TRUE when on duty
    dutyNotify, \* update_duty has set OnDuty and not yet notified
    send,       \* progress of each delivery handler
    interrupt,  \* interrupt_core has read the mark: "none", "bare" or "turn"
    interrupts, \* interrupt requests made
    resets,     \* profile resets requested
    resetNotify, \* a reset is in its cell and the agent not yet notified
    flips       \* duty changes made

taskVars == <<pc, drainDue, lifecycle, parkReason, fails, noProgress>>
fuseVars == <<deadline, sleeps, fusePermit>>
wakeVars == <<permit, prompts, inbox, approvals, reset>>
bridgeVars == <<mark, parkedCell, retryCell>>
countVars == <<interrupts, resets, resetNotify, flips>>
handlerVars == <<duty, dutyNotify, send, interrupt, countVars>>
vars == <<taskVars, fuseVars, token, cancelled, wakeVars, context, events,
          bridgeVars, handlerVars>>

-----------------------------------------------------------------------------
(***************************************************************************)
(* Vocabulary                                                              *)
(***************************************************************************)

Fuses == {"wait", "retry"}
Senders == Msgs \cup Notices

\* The select loop ("select"), the notify arm after its permit ("pull"), an
\* arm about to call run_and_report ("start"), the Busy send ("busy"), the top
\* of a round ("top"), the budget found exceeded there ("over"), the model call
\* and its tools ("llm"), between two rounds of one run ("beat"), the prompt
\* arm's post-round drain ("drain"), the task returned ("done").
PCs == {"select", "pull", "start", "busy", "top", "over", "llm", "beat",
        "drain", "done"}

LifecycleStates == {"Idle", "Running", "Waiting", "Parked", "Retrying"}
ParkedReasons == {"fatal", "maxrounds", "exhausted", "chain"}

\* Events whose arrival the bridge treats as a sign of a turn in progress.
InFlight == {"progress", "retrying"}
Terminal == {"idle", "waiting", "budget", "error", "maxrounds",
             "fce_armed", "fce_parked", "cancelled", "interrupted"}
EventKinds == {"busy"} \cup InFlight \cup Terminal

\* An event carries the attempt only when it is the armed failover event.
Event == [kind : EventKinds, attempt : 0..MaxTransientRetries]
Ev(k) == [kind |-> k, attempt |-> 0]

\* A delivery handler: not called, row inserted, on duty, seen parked, seen
\* not parked; then the reply: woken, buffered off duty, kicked, no live task.
Pending == {"new", "pushed", "onduty", "kicking", "unparked"}
Replied == {"woken", "buffered", "kicked", "dead"}

Clear(f) == [deadline EXCEPT ![f] = "none"]
ClearBoth == [f \in Fuses |-> "none"]
CanSend == Len(events) < EventCap
RoundCancelled == token = "cancelled" \/ cancelled
MinOf(a, b) == IF a < b THEN a ELSE b

-----------------------------------------------------------------------------
Init ==
    /\ pc \in {"select", "start"}      \* without or with an initial prompt
    /\ drainDue = FALSE
    /\ lifecycle = "Idle"
    /\ parkReason = "none"
    /\ deadline = ClearBoth
    /\ sleeps = [f \in Fuses |-> 0]
    /\ fusePermit = [f \in Fuses |-> FALSE]
    /\ fails = 0
    /\ noProgress = 0
    /\ token = "none"
    /\ cancelled = FALSE
    /\ permit = FALSE
    /\ prompts = <<>>
    /\ inbox = {}
    /\ context = {}
    /\ approvals = 0
    /\ reset = FALSE
    /\ events = <<>>
    /\ mark = "Idle"
    /\ parkedCell = "none"
    /\ retryCell = 0
    /\ duty = TRUE
    /\ dutyNotify = FALSE
    /\ send = [m \in Senders |-> "new"]
    /\ interrupt = "none"
    /\ interrupts = 0 /\ resets = 0 /\ resetNotify = FALSE /\ flips = 0

-----------------------------------------------------------------------------
(***************************************************************************)
(* The outer select loop of agent_task                                     *)
(***************************************************************************)

\* The prompt arm: both fuses are dropped and the run is followed by a drain.
TakePrompt ==
    /\ pc = "select" /\ prompts # <<>>
    /\ prompts' = Tail(prompts)
    /\ deadline' = ClearBoth
    /\ pc' = "start" /\ drainDue' = TRUE
    /\ UNCHANGED <<lifecycle, parkReason, fails, noProgress, sleeps, fusePermit,
                   token, cancelled, permit, inbox, approvals, reset, context,
                   events, bridgeVars, handlerVars>>

\* Mutant: the parked guard comes before the reset is applied.
TakeNotifyGuardFirst ==
    /\ pc = "select" /\ permit
    /\ permit' = FALSE
    /\ reset' = (reset /\ lifecycle = "Parked")
    /\ pc' = IF lifecycle = "Parked" THEN "select" ELSE "pull"
    /\ UNCHANGED <<drainDue, lifecycle, parkReason, fails, noProgress, fuseVars,
                   token, cancelled, prompts, inbox, approvals, context, events,
                   bridgeVars, handlerVars>>

\* The notify arm up to the parked guard: the permit is consumed, a pending
\* reset is applied, and a parked task goes back to the select loop.
TakeNotify ==
    /\ pc = "select" /\ permit
    /\ permit' = FALSE
    /\ reset' = FALSE
    /\ pc' = IF lifecycle = "Parked" THEN "select" ELSE "pull"
    /\ UNCHANGED <<drainDue, lifecycle, parkReason, fails, noProgress, fuseVars,
                   token, cancelled, prompts, inbox, approvals, context, events,
                   bridgeVars, handlerVars>>

\* Mutant: only messages, not approval notifications, start a run.
PullInboxOnlyRows ==
    /\ pc = "pull"
    /\ inbox' = {} /\ context' = context \cup inbox
    /\ IF inbox # {}
       THEN deadline' = ClearBoth /\ pc' = "start"
       ELSE UNCHANGED deadline /\ pc' = "select"
    /\ UNCHANGED <<drainDue, lifecycle, parkReason, fails, noProgress, sleeps,
                   fusePermit, token, cancelled, permit, prompts, approvals,
                   reset, events, bridgeVars, handlerVars>>

\* The rest of the notify arm: pull every undelivered row in one statement,
\* then run if there was one or an approval notification waits.
PullInbox ==
    /\ pc = "pull"
    /\ inbox' = {} /\ context' = context \cup inbox
    /\ IF inbox # {} \/ approvals > 0
       THEN deadline' = ClearBoth /\ pc' = "start"
       ELSE UNCHANGED deadline /\ pc' = "select"
    /\ UNCHANGED <<drainDue, lifecycle, parkReason, fails, noProgress, sleeps,
                   fusePermit, token, cancelled, permit, prompts, approvals,
                   reset, events, bridgeVars, handlerVars>>

\* Mutant: a stale permit drops a deadline that has not passed.
TakeFuseDropsPending(f) ==
    /\ pc = "select" /\ fusePermit[f]
    /\ fusePermit' = [fusePermit EXCEPT ![f] = FALSE]
    /\ deadline' = Clear(f)
    /\ pc' = IF deadline[f] = "passed" THEN "start" ELSE "select"
    /\ UNCHANGED <<drainDue, lifecycle, parkReason, fails, noProgress, sleeps,
                   token, cancelled, wakeVars, context, events, bridgeVars,
                   handlerVars>>

\* The retry and wait arms: a stored permit counts only when the deadline of
\* its own fuse has passed, and only that fuse is dropped.
TakeFuse(f) ==
    /\ pc = "select" /\ fusePermit[f]
    /\ fusePermit' = [fusePermit EXCEPT ![f] = FALSE]
    /\ IF deadline[f] = "passed"
       THEN deadline' = Clear(f) /\ pc' = "start"
       ELSE UNCHANGED <<deadline, pc>>
    /\ UNCHANGED <<drainDue, lifecycle, parkReason, fails, noProgress, sleeps,
                   token, cancelled, wakeVars, context, events, bridgeVars,
                   handlerVars>>

\* The cancel arm: persist, emit Cancelled, return.
TakeCancel ==
    /\ pc = "select" /\ cancelled /\ CanSend
    /\ events' = Append(events, Ev("cancelled"))
    /\ pc' = "done"
    /\ UNCHANGED <<drainDue, lifecycle, parkReason, fails, noProgress, fuseVars,
                   token, cancelled, wakeVars, context, bridgeVars, handlerVars>>

\* The prompt arm's post-round drain: what arrived while parked or during the
\* round starts a second run, with no further drain behind it.
PostRoundDrain ==
    /\ pc = "drain"
    /\ inbox' = {} /\ context' = context \cup inbox
    /\ pc' = IF inbox = {} THEN "select" ELSE "start"
    /\ drainDue' = FALSE
    /\ UNCHANGED <<lifecycle, parkReason, fails, noProgress, fuseVars, token,
                   cancelled, permit, prompts, approvals, reset, events,
                   bridgeVars, handlerVars>>

-----------------------------------------------------------------------------
(***************************************************************************)
(* run_and_report and the round loop                                       *)
(***************************************************************************)

\* Entry: apply a pending reset, go Running, publish the first round token.
StartRun ==
    /\ pc = "start"
    /\ reset' = FALSE
    /\ lifecycle' = "Running" /\ parkReason' = "none"
    /\ noProgress' = 0
    /\ token' = "live"
    /\ pc' = "busy"
    /\ UNCHANGED <<drainDue, fails, fuseVars, cancelled, permit, prompts, inbox,
                   approvals, context, events, bridgeVars, handlerVars>>

SendBusy ==
    /\ pc = "busy" /\ CanSend
    /\ events' = Append(events, Ev("busy"))
    /\ pc' = "top"
    /\ UNCHANGED <<drainDue, lifecycle, parkReason, fails, noProgress, fuseVars,
                   token, cancelled, wakeVars, context, bridgeVars, handlerVars>>

\* Top of a round: queued prompts become one interjected turn; the budget gate
\* comes before the approval notifications are drained.
RoundTop(exceeded) ==
    /\ pc = "top"
    /\ prompts' = <<>>
    /\ IF exceeded THEN pc' = "over" /\ UNCHANGED approvals
                   ELSE pc' = "llm" /\ approvals' = 0
    /\ UNCHANGED <<drainDue, lifecycle, parkReason, fails, noProgress, fuseVars,
                   token, cancelled, permit, inbox, reset, context, events,
                   bridgeVars, handlerVars>>

\* Stream deltas, tool calls and tool results of a round (blocking send).
SendProgress ==
    /\ pc = "llm" /\ CanSend
    /\ events' = Append(events, Ev("progress"))
    /\ UNCHANGED <<taskVars, fuseVars, token, cancelled, wakeVars, context,
                   bridgeVars, handlerVars>>

\* In-request backoff or a stream reset: try_send, dropped when the channel is
\* full, which leaves the state as it was.
SendRetrying ==
    /\ pc = "llm" /\ CanSend
    /\ events' = Append(events, Ev("retrying"))
    /\ UNCHANGED <<taskVars, fuseVars, token, cancelled, wakeVars, context,
                   bridgeVars, handlerVars>>

\* Tool results recorded, or the context recomposed after a compaction.
NextRound ==
    /\ pc = "llm"
    /\ pc' = "top"
    /\ UNCHANGED <<drainDue, lifecycle, parkReason, fails, noProgress, fuseVars,
                   token, cancelled, wakeVars, context, events, bridgeVars,
                   handlerVars>>

\* A run ends: the slot is cleared, the terminal event sent, the state moved.
\* One step: only the task reads lifecycle and deadlines, and an interrupt that
\* finds the slot cleared or the round already over has the same effect, none.
EndRun(state, ev) ==
    /\ CanSend
    /\ events' = Append(events, ev)
    /\ lifecycle' = state
    /\ token' = "none"
    /\ pc' = IF drainDue THEN "drain" ELSE "select"
    /\ UNCHANGED <<drainDue, noProgress, cancelled, wakeVars, context,
                   bridgeVars, handlerVars>>

\* Arm a fuse: store the deadline and spawn its sleep.
Arm(f) ==
    /\ sleeps[f] < MaxSleeps
    /\ deadline' = [deadline EXCEPT ![f] = "pending"]
    /\ sleeps' = [sleeps EXCEPT ![f] = @ + 1]
    /\ UNCHANGED fusePermit

BreakIdle ==
    /\ pc = "llm"
    /\ fails' = 0
    /\ EndRun("Idle", Ev("idle"))
    /\ UNCHANGED <<parkReason, fuseVars>>

BreakWait ==
    /\ pc = "llm"
    /\ fails' = 0
    /\ Arm("wait")
    /\ EndRun("Waiting", Ev("waiting"))
    /\ UNCHANGED parkReason

\* The budget found exceeded before the call or after the stream: the task
\* stays Waiting behind a re-armed fuse.
BudgetExceeded ==
    /\ pc \in {"over", "llm"}
    /\ fails' = 0
    /\ Arm("wait")
    /\ EndRun("Waiting", Ev("budget"))
    /\ UNCHANGED parkReason

\* A bare assistant round within the heartbeat limit: the slot is cleared and
\* the heartbeat turn recorded before the next round token is minted.
Heartbeat ==
    /\ pc = "llm" /\ noProgress < MaxHeartbeat
    /\ fails' = 0
    /\ noProgress' = noProgress + 1
    /\ token' = "none"
    /\ pc' = "beat"
    /\ UNCHANGED <<drainDue, lifecycle, parkReason, fuseVars, cancelled,
                   wakeVars, context, events, bridgeVars, handlerVars>>

MintNextToken ==
    /\ pc = "beat"
    /\ token' = "live"
    /\ pc' = "busy"
    /\ UNCHANGED <<drainDue, lifecycle, parkReason, fails, noProgress, fuseVars,
                   cancelled, wakeVars, context, events, bridgeVars, handlerVars>>

\* One bare round too many: force-idle.
HeartbeatExhausted ==
    /\ pc = "llm" /\ noProgress >= MaxHeartbeat
    /\ fails' = 0
    /\ EndRun("Idle", Ev("idle"))
    /\ UNCHANGED <<parkReason, fuseVars>>

\* The failover chain failed: a timed retry while the budget of consecutive
\* failures lasts, a hard park after that.
ChainRetry ==
    /\ pc = "llm" /\ fails < MaxTransientRetries
    /\ fails' = fails + 1
    /\ Arm("retry")
    /\ EndRun("Retrying", [kind |-> "fce_armed", attempt |-> fails + 1])
    /\ UNCHANGED parkReason

ChainPark ==
    /\ pc = "llm" /\ "exhaust" \in Faults /\ fails >= MaxTransientRetries
    /\ fails' = MinOf(fails + 1, MaxTransientRetries + 1)
    /\ parkReason' = "exhausted"
    /\ EndRun("Parked", Ev("fce_parked"))
    /\ UNCHANGED fuseVars

FatalError ==
    /\ pc = "llm" /\ "error" \in Faults
    /\ fails' = 0
    /\ parkReason' = "fatal"
    /\ EndRun("Parked", Ev("error"))
    /\ UNCHANGED fuseVars

MaxRoundsExceeded ==
    /\ pc = "llm" /\ "maxrounds" \in Faults
    /\ fails' = 0
    /\ parkReason' = "maxrounds"
    /\ EndRun("Parked", Ev("maxrounds"))
    /\ UNCHANGED fuseVars

\* The round token was cancelled on its own (interrupt): the task lives on.
RoundInterrupted ==
    /\ pc = "llm" /\ RoundCancelled /\ ~cancelled
    /\ fails' = 0
    /\ EndRun("Idle", Ev("interrupted"))
    /\ UNCHANGED <<parkReason, fuseVars>>

\* The round token was cancelled through the lifecycle token: the task returns.
RunTerminated ==
    /\ pc = "llm" /\ RoundCancelled /\ cancelled /\ CanSend
    /\ fails' = 0
    /\ events' = Append(events, Ev("cancelled"))
    /\ token' = "none"
    /\ pc' = "done"
    /\ UNCHANGED <<drainDue, lifecycle, parkReason, noProgress, fuseVars,
                   cancelled, wakeVars, context, bridgeVars, handlerVars>>

-----------------------------------------------------------------------------
(***************************************************************************)
(* Time                                                                    *)
(***************************************************************************)

DeadlinePasses(f) ==
    /\ deadline[f] = "pending"
    /\ deadline' = [deadline EXCEPT ![f] = "passed"]
    /\ UNCHANGED <<taskVars, sleeps, fusePermit, token, cancelled, wakeVars,
                   context, events, bridgeVars, handlerVars>>

\* A sleep task wakes its Notify.  The sleep of the armed deadline cannot end
\* before it; the sleeps of dropped or overwritten deadlines end at any time.
SleepEnds(f) ==
    /\ sleeps[f] > (IF deadline[f] = "pending" THEN 1 ELSE 0)
    /\ ~cancelled
    /\ sleeps' = [sleeps EXCEPT ![f] = @ - 1]
    /\ fusePermit' = [fusePermit EXCEPT ![f] = TRUE]
    /\ UNCHANGED <<taskVars, deadline, token, cancelled, wakeVars, context,
                   events, bridgeVars, handlerVars>>

-----------------------------------------------------------------------------
(***************************************************************************)
(* The bridge                                                              *)
(***************************************************************************)

\* Mutant: the bridge takes a budget stop for the end of the work.
MarkOfBudgetIdle(k) ==
    CASE k \in {"idle", "cancelled", "interrupted", "budget"} -> "Idle"
      [] k = "waiting"                                        -> "Waiting"
      [] k = "fce_armed"                                      -> "Retrying"
      [] OTHER                                                -> "Parked"

\* Terminal triage: the mark a terminal event leads to.
MarkOf(k) ==
    CASE k \in {"idle", "cancelled", "interrupted"} -> "Idle"
      [] k \in {"waiting", "budget"}                -> "Waiting"
      [] k = "fce_armed"                            -> "Retrying"
      [] OTHER                                      -> "Parked"

\* The reason put in the parked cell.  A failover event without an armed retry
\* is told apart by the attempt the last armed retry left in the retrying cell.
RetrySpent == retryCell > 0 /\ retryCell >= MaxTransientRetries
ReasonOf(k) ==
    CASE k = "error"      -> "fatal"
      [] k = "maxrounds"  -> "maxrounds"
      [] k = "fce_parked" -> IF RetrySpent THEN "exhausted" ELSE "chain"
      [] OTHER            -> "none"

\* A new round: BUSY and no parked payload; the retrying cell survives.
BridgeBusy ==
    /\ events # <<>> /\ Head(events).kind = "busy"
    /\ events' = Tail(events)
    /\ mark' = "Busy" /\ parkedCell' = "none"
    /\ UNCHANGED <<taskVars, fuseVars, token, cancelled, wakeVars, context,
                   retryCell, handlerVars>>

\* The in-request backoff overlay.
BridgeRetrying ==
    /\ events # <<>> /\ Head(events).kind = "retrying"
    /\ events' = Tail(events)
    /\ mark' = "Retrying"
    /\ UNCHANGED <<taskVars, fuseVars, token, cancelled, wakeVars, context,
                   parkedCell, retryCell, handlerVars>>

\* Any other in-flight event ends the overlay and drops the parked payload.
BridgeProgress ==
    /\ events # <<>> /\ Head(events).kind = "progress"
    /\ events' = Tail(events)
    /\ mark' = IF mark = "Retrying" THEN "Busy" ELSE mark
    /\ parkedCell' = "none"
    /\ UNCHANGED <<taskVars, fuseVars, token, cancelled, wakeVars, context,
                   retryCell, handlerVars>>

\* mark_and_snapshot: mark and cells move together under the registry lock.
BridgeTerminal ==
    /\ events # <<>> /\ Head(events).kind \in Terminal
    /\ events' = Tail(events)
    /\ mark' = MarkOf(Head(events).kind)
    /\ parkedCell' = ReasonOf(Head(events).kind)
    /\ retryCell' = Head(events).attempt
    /\ UNCHANGED <<taskVars, fuseVars, token, cancelled, wakeVars, context,
                   handlerVars>>

-----------------------------------------------------------------------------
(***************************************************************************)
(* The handlers                                                            *)
(***************************************************************************)

Step(m, from, to) == send[m] = from /\ send' = [send EXCEPT ![m] = to]

\* Insert the row.  A failed insert is logged and the handler goes on.
PushInbox(m) ==
    /\ Step(m, "new", "pushed")
    /\ \/ inbox' = inbox \cup {m}
       \/ PushMayFail /\ UNCHANGED inbox
    /\ UNCHANGED <<taskVars, fuseVars, token, cancelled, permit, prompts,
                   approvals, reset, context, events, bridgeVars, duty,
                   dutyNotify, interrupt, countVars>>

\* The duty gate, after the insert.
CheckDuty(m) ==
    /\ Step(m, "pushed", IF duty THEN "onduty" ELSE "buffered")
    /\ UNCHANGED <<taskVars, fuseVars, token, cancelled, wakeVars, context,
                   events, bridgeVars, duty, dutyNotify, interrupt, countVars>>

\* The auto-wake gate of enqueue_prompt: mark and parked cell read under one
\* lock.  A Parked mark without a reason replies with a warning and no wake.
CheckParked(m) ==
    /\ m \in Msgs
    /\ Step(m, "onduty", IF mark # "Parked" THEN "unparked"
                         ELSE IF parkedCell # "none" THEN "kicking" ELSE "kicked")
    /\ UNCHANGED <<taskVars, fuseVars, token, cancelled, wakeVars, context,
                   events, bridgeVars, duty, dutyNotify, interrupt, countVars>>

\* try_send on the prompt channel; a full or closed channel is only reported.
TrySend(turn) ==
    prompts' = IF Len(prompts) < QueueSize /\ pc # "done"
               THEN Append(prompts, turn) ELSE prompts

SendKick(m) ==
    /\ Step(m, "kicking", "kicked")
    /\ TrySend("kick")
    /\ UNCHANGED <<taskVars, fuseVars, token, cancelled, permit, inbox, approvals,
                   reset, context, events, bridgeVars, duty, dutyNotify,
                   interrupt, countVars>>

\* Mutant: a running agent is not notified.
NotifyAgentUnlessBusy(m) ==
    /\ Step(m, IF m \in Msgs THEN "unparked" ELSE "onduty",
               IF pc = "done" THEN "dead" ELSE "woken")
    /\ permit' = (permit \/ (pc # "done" /\ mark # "Busy"))
    /\ UNCHANGED <<taskVars, fuseVars, token, cancelled, prompts, inbox,
                   approvals, reset, context, events, bridgeVars, duty,
                   dutyNotify, interrupt, countVars>>

\* A background command of the agent's shell ends, or a hook note fires: the
\* notice sink puts a turn on the prompt channel past every gate.
BackgroundNotice ==
    /\ BackgroundTasks
    /\ TrySend("notice")
    /\ UNCHANGED <<taskVars, fuseVars, token, cancelled, permit, inbox, approvals,
                   reset, context, events, bridgeVars, handlerVars>>

\* The last step: wake a live task.  A closed channel leads to reactivation,
\* which is outside this module.  Notices are woken without the parked gate.
NotifyAgent(m) ==
    /\ Step(m, IF m \in Msgs THEN "unparked" ELSE "onduty",
               IF pc = "done" THEN "dead" ELSE "woken")
    /\ permit' = (permit \/ pc # "done")
    /\ UNCHANGED <<taskVars, fuseVars, token, cancelled, prompts, inbox,
                   approvals, reset, context, events, bridgeVars, duty,
                   dutyNotify, interrupt, countVars>>

\* Mutant: coming on duty does not wake the agent.
SetDutySilent(on) ==
    /\ ~dutyNotify /\ flips < MaxFlips
    /\ duty' = on /\ dutyNotify' = FALSE
    /\ flips' = flips + 1
    /\ UNCHANGED <<taskVars, fuseVars, token, cancelled, wakeVars, context,
                   events, bridgeVars, send, interrupt, interrupts, resets,
                   resetNotify>>

\* update_duty: the status is set first, the on-duty notify comes after it.
\* One change at a time is in progress.
SetDuty(on) ==
    /\ ~dutyNotify /\ flips < MaxFlips
    /\ duty' = on /\ dutyNotify' = on
    /\ flips' = flips + 1
    /\ UNCHANGED <<taskVars, fuseVars, token, cancelled, wakeVars, context,
                   events, bridgeVars, send, interrupt, interrupts, resets,
                   resetNotify>>

DutyWake ==
    /\ dutyNotify
    /\ dutyNotify' = FALSE
    /\ permit' = TRUE
    /\ UNCHANGED <<taskVars, fuseVars, token, cancelled, prompts, inbox,
                   approvals, reset, context, events, bridgeVars, duty, send,
                   interrupt, countVars>>

\* respond_approval: the decision leaves a notification and wakes the task.
RespondApproval ==
    /\ approvals < MaxApprovals /\ pc # "done"
    /\ approvals' = approvals + 1
    /\ permit' = TRUE
    /\ UNCHANGED <<taskVars, fuseVars, token, cancelled, prompts, inbox, reset,
                   context, events, bridgeVars, handlerVars>>

\* Applying a profile set: write the pending-reset cell, unlock it ...
ApplyProfile ==
    /\ resets < MaxResets /\ pc # "done" /\ ~resetNotify
    /\ resets' = resets + 1 /\ resetNotify' = TRUE
    /\ reset' = TRUE
    /\ UNCHANGED <<taskVars, fuseVars, token, cancelled, permit, prompts, inbox,
                   approvals, context, events, bridgeVars, duty, dutyNotify,
                   send, interrupt, interrupts, flips>>

\* ... then notify.
ResetWake ==
    /\ resetNotify
    /\ resetNotify' = FALSE
    /\ permit' = TRUE
    /\ UNCHANGED <<taskVars, fuseVars, token, cancelled, prompts, inbox,
                   approvals, reset, context, events, bridgeVars, duty,
                   dutyNotify, send, interrupt, interrupts, resets, flips>>

\* interrupt_core reads the mark under the registry lock ...
InterruptRead ==
    /\ interrupt = "none" /\ interrupts < MaxInterrupts
    /\ interrupt' = IF mark \in {"Waiting", "Retrying"} THEN "turn" ELSE "bare"
    /\ interrupts' = interrupts + 1
    /\ UNCHANGED <<taskVars, fuseVars, token, cancelled, wakeVars, context,
                   events, bridgeVars, duty, dutyNotify, send, resets,
                   resetNotify, flips>>

\* ... then cancels the published round token, and sends the interrupt turn.
InterruptAct ==
    /\ interrupt # "none"
    /\ interrupt' = "none"
    /\ token' = IF token = "live" THEN "cancelled" ELSE token
    /\ IF interrupt = "turn" THEN TrySend("interrupt") ELSE UNCHANGED prompts
    /\ UNCHANGED <<taskVars, fuseVars, cancelled, permit, inbox, approvals,
                   reset, context, events, bridgeVars, duty, dutyNotify, send,
                   countVars>>

\* Removal of the agent, or tagma shutdown.
CancelLifecycle ==
    /\ ~cancelled
    /\ cancelled' = TRUE
    /\ UNCHANGED <<taskVars, fuseVars, token, wakeVars, context, events,
                   bridgeVars, handlerVars>>

-----------------------------------------------------------------------------
Yield == BreakIdle \/ BreakWait \/ BudgetExceeded \/ HeartbeatExhausted

AgentStep ==
    \/ TakePrompt \/ TakeNotify \/ PullInbox \/ TakeCancel \/ PostRoundDrain
    \/ \E f \in Fuses : TakeFuse(f)
    \/ StartRun \/ SendBusy \/ \E exceeded \in BOOLEAN : RoundTop(exceeded)
    \/ SendProgress \/ SendRetrying \/ NextRound
    \/ BreakIdle \/ BreakWait \/ BudgetExceeded
    \/ Heartbeat \/ MintNextToken \/ HeartbeatExhausted
    \/ ChainRetry \/ ChainPark \/ FatalError \/ MaxRoundsExceeded
    \/ RoundInterrupted \/ RunTerminated

TimeStep == \E f \in Fuses : DeadlinePasses(f) \/ SleepEnds(f)

BridgeStep == BridgeBusy \/ BridgeRetrying \/ BridgeProgress \/ BridgeTerminal

DeliverStep(m) ==
    PushInbox(m) \/ CheckDuty(m) \/ CheckParked(m) \/ SendKick(m) \/ NotifyAgent(m)

RequestStep ==
    \/ \E on \in BOOLEAN : SetDuty(on)
    \/ DutyWake \/ RespondApproval \/ ApplyProfile \/ ResetWake
    \/ InterruptRead \/ InterruptAct \/ CancelLifecycle \/ BackgroundNotice

Next == AgentStep \/ TimeStep \/ BridgeStep \/ RequestStep
        \/ \E m \in Senders : DeliverStep(m)

Spec == Init /\ [][Next]_vars

\* Fairness.  The task, the bridge, the sleeps and a handler that has started
\* are tasks of a tokio runtime: each keeps being polled.  select! picks among
\* ready arms at random, hence strong fairness of the notify arm.  A run ends:
\* the model yields before the round limit (an assumption on the provider).
Fairness ==
    /\ WF_vars(PullInbox) /\ WF_vars(PostRoundDrain) /\ SF_vars(TakeNotify)
    /\ WF_vars(StartRun) /\ WF_vars(SendBusy) /\ WF_vars(MintNextToken)
    /\ WF_vars(\E exceeded \in BOOLEAN : RoundTop(exceeded))
    /\ SF_vars(Yield)
    /\ WF_vars(BridgeStep) /\ WF_vars(DutyWake)
    /\ \A f \in Fuses : WF_vars(DeadlinePasses(f)) /\ WF_vars(SleepEnds(f))
    /\ \A m \in Senders : WF_vars(CheckDuty(m) \/ CheckParked(m) \/ SendKick(m)
                                  \/ NotifyAgent(m))

FairSpec == Spec /\ Fairness

-----------------------------------------------------------------------------
(***************************************************************************)
(* Properties                                                              *)
(***************************************************************************)

FlagType ==
    /\ drainDue \in BOOLEAN /\ cancelled \in BOOLEAN
    /\ permit \in BOOLEAN /\ reset \in BOOLEAN
    /\ duty \in BOOLEAN /\ dutyNotify \in BOOLEAN /\ resetNotify \in BOOLEAN

TaskType ==
    /\ pc \in PCs
    /\ lifecycle \in LifecycleStates
    /\ parkReason \in ParkedReasons \cup {"none"}
    /\ fails \in 0..(MaxTransientRetries + 1)
    /\ noProgress \in 0..MaxHeartbeat
    /\ token \in {"none", "live", "cancelled"}

FuseType ==
    /\ deadline \in [Fuses -> {"none", "pending", "passed"}]
    /\ sleeps \in [Fuses -> 0..MaxSleeps]
    /\ fusePermit \in [Fuses -> BOOLEAN]

WakeType ==
    /\ prompts \in Seq({"kick", "interrupt", "notice"}) /\ Len(prompts) <= QueueSize
    /\ inbox \subseteq Senders /\ context \subseteq Senders
    /\ approvals \in 0..MaxApprovals

EventType == events \in Seq(Event) /\ Len(events) <= EventCap

BridgeType ==
    /\ mark \in {"Idle", "Busy", "Waiting", "Parked", "Retrying"}
    /\ parkedCell \in ParkedReasons \cup {"none"}
    /\ retryCell \in 0..MaxTransientRetries

HandlerType ==
    /\ send \in [Senders -> Pending \cup Replied]
    /\ interrupt \in {"none", "bare", "turn"}
    /\ interrupts \in 0..MaxInterrupts
    /\ resets \in 0..MaxResets /\ flips \in 0..MaxFlips

\* The shape of the state; the channels and counters stay within their bounds.
TypeOK == /\ FlagType /\ TaskType /\ FuseType /\ WakeType
          /\ EventType /\ BridgeType /\ HandlerType

\* The parked gate of enqueue_prompt calls a Parked mark without a reason "the
\* real invariant break": whatever the bridge still has queued, the mark says
\* Parked exactly when the parked cell holds a reason.
ParkedHasReason == mark = "Parked" <=> parkedCell # "none"

\* Once the bridge has drained the channel of a task waiting in its select
\* loop, the status the tagma acts on is the task's own lifecycle state.
MarkSettles == pc = "select" /\ events = <<>> => mark = lifecycle

\* A task that waits for a fuse has one: its deadline is stored and a sleep or
\* a stored permit will still reach the select loop, whichever stale sleeps,
\* cleared deadlines and swallowed permits came before.
Asleep == pc \in {"select", "pull", "drain"} /\ ~cancelled
FuseBurns ==
    Asleep => \A f \in Fuses :
        lifecycle = (IF f = "wait" THEN "Waiting" ELSE "Retrying")
            => deadline[f] # "none" /\ (sleeps[f] > 0 \/ fusePermit[f])

\* A profile reset is never left in its cell without a wake-up to apply it,
\* not even when the parked guard refuses to run a round.
ResetHasWake == reset => permit \/ resetNotify

\* While the provider never fails hard: a message whose handler replied, for an
\* agent on duty, is in the context or a wake-up for it is under way.  The
\* insert precedes the duty gate, so a flip to on-duty between them wakes it.
NoLostWakeup ==
    pc # "done" /\ duty /\ ~dutyNotify =>
        \A m \in inbox : send[m] \in Replied => permit \/ pc = "pull"

\* Under the same condition a decided approval always has a wake-up, a run that
\* will drain it, or the wait fuse of a budget-blocked round behind it.
ApprovalHasWake ==
    approvals > 0 /\ pc = "select" => permit \/ deadline["wait"] # "none"

\* A delivered message reaches the context, unless the agent goes off duty or
\* is cancelled first.
EventuallyDelivered ==
    \A m \in Senders :
        (m \in inbox /\ send[m] \in Replied /\ duty)
            ~> (m \in context \/ ~duty \/ cancelled)

-----------------------------------------------------------------------------
(***************************************************************************)
(* Inductive strengthenings                                                *)
(***************************************************************************)

\* An in-flight event follows an event of the same turn, or the mark has
\* already left Parked; and a task inside a round has such a turn open.
TurnsAreOpened ==
    /\ \A i \in 1..Len(events) : events[i].kind \in InFlight =>
          IF i = 1 THEN mark # "Parked" ELSE events[i - 1].kind \notin Terminal
    /\ pc \in {"top", "over", "llm"} =>
          IF events = <<>> THEN mark # "Parked"
                           ELSE events[Len(events)].kind \notin Terminal

ParkedInv == ParkedHasReason /\ TurnsAreOpened

\* Between runs the last queued event, or else the mark, tells the state.
SettledInv ==
    pc \in {"select", "pull", "start", "drain"} =>
        IF events = <<>> THEN mark = lifecycle
        ELSE /\ events[Len(events)].kind \in Terminal
             /\ MarkOf(events[Len(events)].kind) = lifecycle

\* A stored deadline has a sleep of its own until it passes.
FuseInv ==
    /\ \A f \in Fuses :
          /\ deadline[f] = "pending" => sleeps[f] > 0
          /\ deadline[f] # "none" => sleeps[f] > 0 \/ fusePermit[f]
    /\ pc \in {"select", "pull", "drain"} =>
          /\ lifecycle = "Waiting" => deadline["wait"] # "none"
          /\ lifecycle = "Retrying" => deadline["retry"] # "none"

\* Without hard failures nothing is ever parked, so no handler kicks.
NeverParked ==
    /\ lifecycle # "Parked" /\ mark # "Parked"
    /\ \A i \in 1..Len(events) :
          events[i].kind \notin {"error", "maxrounds", "fce_parked"}
    /\ \A m \in Senders : send[m] \notin {"kicking", "kicked"}

WakeInv == NeverParked /\ NoLostWakeup

\* A decided approval has a wake-up, a fuse, or a run that has not yet passed
\* the drain at the top of its next round.
ApprovalInv ==
    approvals > 0 =>
        \/ permit
        \/ deadline["wait"] # "none"
        \/ pc \in {"pull", "start", "busy", "top", "over", "done"}

====
