------------------------------ MODULE Lifecycle ------------------------------
(***************************************************************************)
(* The agents of one tagma from reservation to archive: the registry, the  *)
(* directory locks of their workspaces, their tasks and panic watchers and *)
(* their directories on disk, under the handlers that spawn a subagent     *)
(* (spawn_subagent, Materialize::run), reactivate a dead agent on delivery *)
(* (notify_agent's slow path), remove one (remove_agent, teardown_agent)   *)
(* and restore all of them after a restart (restore_agents).  Handlers     *)
(* interleave wherever they await or leave the registry lock.              *)
(***************************************************************************)
EXTENDS Integers, FiniteSets, Workspaces

CONSTANTS
    Kinds,         \* what a request may ask: [ws, heir, normal]
    Roles,         \* role names
    Deliveries,    \* messages that find their agent dead, each an incarnation
    MaxSubagents,  \* state.max_subagents
    MaxAgents,     \* state.max_agents
    MaxDepth,      \* DEFAULT_MAX_DEPTH
    SetMayVanish,  \* whether a profile set may be missing when it is resolved
    DiskMayFail,   \* whether directory operations may fail half way
    MaxFaults      \* bound: tasks that die, failing directory operations, restarts

ASSUME LifecycleAssumption ==
    /\ Kinds \subseteq [ws : Dirs, heir : BOOLEAN, normal : BOOLEAN]
    /\ Deliveries \cap (Agents \cup {Nobody}) = {}
    /\ MaxSubagents \in Nat /\ MaxAgents \in Nat /\ MaxDepth \in Nat
    /\ SetMayVanish \in BOOLEAN /\ DiskMayFail \in BOOLEAN /\ MaxFaults \in Nat

VARIABLES
    entry,    \* registry entry of each agent
    subs,     \* subagent_ids of each entry
    cfg,      \* configuration and meta.json of each agent
    lock,     \* DirLockManager: writer of each directory
    task,     \* task of each incarnation, named by the handler that made it
    handle,   \* incarnation whose handles the Live entry holds
    chan,     \* incarnation reading the entry's prompt channel
    disk,     \* the agent's directory: "bare" when it has no meta.json
    pc,       \* where each spawn or delivery handler is
    chain,    \* delegation ancestors that handler has read
    target,   \* agent of each delivery
    tear,     \* where each removal is
    booting,  \* restore_agents is running, the server is not serving
    faults,   \* tasks that died, directory operations that failed and restarts
    leftover, \* history: agents whose directory a failed operation of this life left
    crossed   \* history: agents a delivery reserved while another one had not ended

vars == <<entry, subs, cfg, lock, task, handle, chan, disk, pc, chain, target,
          tear, booting, faults, leftover, crossed>>

Incarnations == Agents \cup Deliveries
Config == [sup : Agents \cup {Nobody}, ws : Dirs, heir : BOOLEAN, normal : BOOLEAN,
           role : Roles \cup {Nobody}, above : SUBSET Agents, stead : Agents \cup {Nobody}]
SpawnPCs == {"idle", "reserved", "dirBare", "dirMade", "chained", "carved", "spawned",
             "retracted", "erased", "done"}
Materializing == {"reserved", "dirBare", "dirMade", "chained", "carved", "spawned"}
DeliverPCs == {"idle", "slow", "reserved", "chained", "locked", "spawned", "closing",
               "closingLocked", "unlocking", "done"}

Registered(a) == entry[a] # "none"
OnDisk == {"bare", "live"}
AgentOf(i) == IF i \in Agents THEN i ELSE target[i]
Serving == ~booting

\* prompt_tx.is_closed(): the receiver is gone with the task or was never kept.
IsClosed(a) == ~(chan[a] # Nobody /\ task[chan[a]] \in {"held", "running"})

\* Boot with the root's directory on disk and nothing else.
Init ==
    /\ entry = [a \in Agents |-> "none"]
    /\ subs = [a \in Agents |-> {}]
    /\ cfg = [a \in Agents |->
                [sup |-> Nobody, ws |-> RootDir, heir |-> FALSE, normal |-> a = Root,
                 role |-> Nobody, above |-> {}, stead |-> IF a = Root THEN Root ELSE Nobody]]
    /\ lock = [d \in Dirs |-> Nobody]
    /\ task = [i \in Incarnations |-> "none"]
    /\ handle = [a \in Agents |-> Nobody]
    /\ chan = [a \in Agents |-> Nobody]
    /\ disk = [a \in Agents |-> IF a = Root THEN "live" ELSE "none"]
    /\ pc = [i \in Incarnations |-> "idle"]
    /\ chain = [i \in Incarnations |-> {}]
    /\ target = [d \in Deliveries |-> Nobody]
    /\ tear = [a \in Agents |-> "no"]
    /\ booting = TRUE /\ faults = 0
    /\ leftover = {} /\ crossed = {}

(***************************************************************************)
(* DirLockManager.  Every method is one critical section of its mutex.     *)
(***************************************************************************)

\* Mutant: locks below the requested directory are not looked at.
OverlapFreeAbove(l, a, d, ch) ==
    /\ \A e \in Dirs : <<d, e>> \in Beneath => l[e] \in ch \cup {Nobody}

\* The checks of acquire beyond the exact path: a lock above it is skipped
\* when a delegation ancestor holds it, any other overlap blocks or errs.
OverlapFree(l, a, d, ch) ==
    /\ \A e \in Dirs : <<d, e>> \in Beneath => l[e] \in ch \cup {Nobody}
    /\ \A e \in Dirs : <<e, d>> \in Beneath => l[e] = Nobody

\* acquire answers Acquired or AlreadyHeld.  The cap of 8 locks cannot bind:
\* an agent only ever asks for its workspace.
Acquirable(l, a, d, ch) == l[d] = a \/ (l[d] = Nobody /\ OverlapFree(l, a, d, ch))
Transfer(l, from, to, d) == IF l[d] = from THEN [l EXCEPT ![d] = to] ELSE l
ReleaseAll(l, a) == [d \in Dirs |-> IF l[d] = a THEN Nobody ELSE l[d]]

\* try_acquire_workspace_lock: a Guest acquires nothing.
TryAcquire(l, a, ch) == cfg[a].normal => Acquirable(l, a, cfg[a].ws, ch)
Acquired(l, a) == IF cfg[a].normal THEN [l EXCEPT ![cfg[a].ws] = a] ELSE l

\* The forward half of a full handoff, before the acquire, and the reverse
\* half, before the child's own release: both NotOwner for a carve-out.
Forward(l, c) == IF cfg[c].heir THEN Transfer(l, cfg[c].sup, c, cfg[c].ws) ELSE l
Reverse(l, c) == IF cfg[c].heir THEN Transfer(l, c, cfg[c].sup, cfg[c].ws) ELSE l

(***************************************************************************)
(* spawn_subagent and Materialize::run, for the fresh id c.                *)
(***************************************************************************)

Advance(i, to) == pc' = [pc EXCEPT ![i] = to]

\* validate_subagent_request: what supervisor s may grant.
ValidRequest(s, k) ==
    /\ entry[s] = "live"
    /\ k.heir => subs[s] = {} /\ k.ws = cfg[s].ws /\ k.normal
    /\ \A x \in subs[s] : Registered(x) => ~cfg[x].heir
    /\ Cardinality(cfg[s].above) < MaxDepth
    /\ k.ws = cfg[s].ws \/ <<k.ws, cfg[s].ws>> \in Beneath
    /\ k.normal => cfg[s].normal

RoleFree(r) == \A x \in Agents : Registered(x) => cfg[x].role # r

\* One registry write lock: the role, the request and the limit are checked
\* and the slot is reserved.
SpawnReserve(c, s, k, r) ==
    /\ Serving /\ pc[c] = "idle" /\ cfg[c].stead = Nobody
    /\ RoleFree(r) /\ ValidRequest(s, k)
    /\ Cardinality(subs[s]) < MaxSubagents
    /\ subs' = [subs EXCEPT ![s] = @ \cup {c}]
    /\ cfg' = [cfg EXCEPT ![c] =
                 [sup |-> s, ws |-> k.ws, heir |-> k.heir, normal |-> k.normal, role |-> r,
                  above |-> cfg[s].above \cup {s},
                  stead |-> IF k.heir THEN cfg[s].stead ELSE c]]
    /\ Advance(c, "reserved")
    /\ UNCHANGED <<entry, lock, task, handle, chan, disk, chain, target, tear, booting,
                   faults, leftover, crossed>>

\* The profile set does not resolve, or create_dir_all fails: the request is
\* refused and nothing is rolled back, so the slot stays taken.
SpawnRefused(c) ==
    /\ SetMayVanish /\ pc[c] = "reserved"
    /\ Advance(c, "done")
    /\ UNCHANGED <<entry, subs, cfg, lock, task, handle, chan, disk, chain, target, tear,
                   booting, faults, leftover, crossed>>

\* create_agent_dir: the directory, then meta.json in it.
SpawnMakeDir(c) ==
    /\ pc[c] = "reserved"
    /\ disk' = [disk EXCEPT ![c] = "bare"]
    /\ Advance(c, "dirBare")
    /\ UNCHANGED <<entry, subs, cfg, lock, task, handle, chan, chain, target, tear,
                   booting, faults, leftover, crossed>>

\* A failing write returns by `?`: neither the directory nor the slot is given
\* back.
SpawnWriteMeta(c, written) ==
    /\ pc[c] = "dirBare"
    /\ written \/ (DiskMayFail /\ faults < MaxFaults)
    /\ IF written
       THEN /\ disk' = [disk EXCEPT ![c] = "live"]
            /\ Advance(c, "dirMade") /\ UNCHANGED <<faults, leftover>>
       ELSE /\ faults' = faults + 1 /\ leftover' = leftover \cup {c}
            /\ Advance(c, "done") /\ UNCHANGED disk
    /\ UNCHANGED <<entry, subs, cfg, lock, task, handle, chan, chain, target, tear,
                   booting, crossed>>

\* The registry half of rollback_unspawned_create.
Retracted(c) ==
    IF Registered(cfg[c].sup) THEN [subs EXCEPT ![cfg[c].sup] = @ \ {c}] ELSE subs

\* A skill or the policy file fails, the supervisor's exec gate refuses, or
\* spawn_fn errs.
SpawnFails(c) ==
    /\ pc[c] \in {"dirMade", "chained", "carved"}
    /\ subs' = Retracted(c)
    /\ Advance(c, "retracted")
    /\ UNCHANGED <<entry, cfg, lock, task, handle, chan, disk, chain, target, tear,
                   booting, faults, leftover, crossed>>

\* Mutant: the walk pushes the root's missing supervisor too.
SpawnChainPastRoot(c) ==
    /\ pc[c] = "dirMade"
    /\ IF \A x \in cfg[c].above : Registered(x)
       THEN /\ chain' = [chain EXCEPT ![c] = cfg[c].above \cup {cfg[Root].sup}]
            /\ Advance(c, "chained") /\ UNCHANGED subs
       ELSE /\ subs' = Retracted(c)
            /\ Advance(c, "retracted") /\ UNCHANGED chain
    /\ UNCHANGED <<entry, cfg, lock, task, handle, chan, disk, target, tear, booting,
                   faults, leftover, crossed>>

\* supervisor_chain_ids under a registry read lock: a broken chain rolls back.
SpawnChain(c) ==
    /\ pc[c] = "dirMade"
    /\ IF \A x \in cfg[c].above : Registered(x)
       THEN /\ chain' = [chain EXCEPT ![c] = cfg[c].above]
            /\ Advance(c, "chained") /\ UNCHANGED subs
       ELSE /\ subs' = Retracted(c)
            /\ Advance(c, "retracted") /\ UNCHANGED chain
    /\ UNCHANGED <<entry, cfg, lock, task, handle, chan, disk, target, tear, booting,
                   faults, leftover, crossed>>

\* establish_workspace_lock, under the supervisor's exec-gate WRITE.
SpawnCarve(c) ==
    /\ pc[c] = "chained"
    /\ LET l == Forward(lock, c)
       IN  IF TryAcquire(l, c, chain[c])
           THEN /\ lock' = Acquired(l, c)
                /\ Advance(c, "carved") /\ UNCHANGED subs
           ELSE /\ lock' = Reverse(l, c)
                /\ subs' = Retracted(c)
                /\ Advance(c, "retracted")
    /\ UNCHANGED <<entry, cfg, task, handle, chan, disk, chain, target, tear, booting,
                   faults, leftover, crossed>>

SpawnTask(c) ==
    /\ pc[c] = "carved"
    /\ task' = [task EXCEPT ![c] = "running"]
    /\ Advance(c, "spawned")
    /\ UNCHANGED <<entry, subs, cfg, lock, handle, chan, disk, chain, target, tear,
                   booting, faults, leftover, crossed>>

Stop(i) == [task EXCEPT ![i] = IF @ \in {"running", "held"} THEN "ended" ELSE @]

\* A best-effort removal or archiving of a's directory, if it has one.  A
\* failure is only warned about and leaves it whole or without meta.json.
Clear(a, to) ==
    LET fails == to \in OnDisk
    IN  /\ fails => DiskMayFail /\ faults < MaxFaults /\ disk[a] \in {to, "live"}
        /\ disk' = [disk EXCEPT ![a] = IF @ \in OnDisk THEN to ELSE @]
        /\ leftover' = IF fails THEN leftover \cup {a} ELSE leftover
        /\ faults' = IF fails THEN faults + 1 ELSE faults

\* The registry write lock at the end of run: the agent cap, the supervisor
\* still registered, then registration.  A refusal aborts the fresh task and
\* removes its directory (abort_agent).
SpawnRegister(c, to) ==
    /\ pc[c] = "spawned"
    /\ IF /\ Cardinality({x \in Agents : Registered(x)}) < MaxAgents
          /\ Registered(cfg[c].sup)
       THEN /\ entry' = [entry EXCEPT ![c] = "live"]
            /\ handle' = [handle EXCEPT ![c] = c]
            /\ chan' = [chan EXCEPT ![c] = c]
            /\ Advance(c, "done")
            /\ UNCHANGED <<subs, task, disk, faults, leftover>>
       ELSE /\ subs' = Retracted(c)
            /\ task' = Stop(c) /\ Clear(c, to)
            /\ Advance(c, "erased")
            /\ UNCHANGED <<entry, handle, chan>>
    /\ UNCHANGED <<cfg, lock, chain, target, tear, booting, crossed>>

\* Mutant: a failed creation leaves its directory behind.
SpawnKeepsDir(c, to) ==
    /\ pc[c] = "retracted" /\ to = "none"
    /\ Advance(c, "erased")
    /\ UNCHANGED <<entry, subs, cfg, lock, task, handle, chan, disk, chain, target, tear,
                   booting, faults, leftover, crossed>>

\* The other half of rollback_unspawned_create.
SpawnErase(c, to) ==
    /\ pc[c] = "retracted"
    /\ Clear(c, to)
    /\ Advance(c, "erased")
    /\ UNCHANGED <<entry, subs, cfg, lock, task, handle, chan, chain, target, tear,
                   booting, crossed>>

\* EstablishedLock drops: the handoff is reversed before the child's locks are
\* released.
SpawnUnwind(c) ==
    /\ pc[c] = "erased"
    /\ lock' = ReleaseAll(Reverse(lock, c), c)
    /\ Advance(c, "done")
    /\ UNCHANGED <<entry, subs, cfg, task, handle, chan, disk, chain, target, tear,
                   booting, faults, leftover, crossed>>

(***************************************************************************)
(* Tasks and their watchers.                                               *)
(***************************************************************************)

\* An agent task panics, or returns because its bridge is gone.
TaskDies(i, how) ==
    /\ Serving /\ faults < MaxFaults /\ task[i] = "running"
    /\ task' = [task EXCEPT ![i] = how]
    /\ faults' = faults + 1
    /\ UNCHANGED <<entry, subs, cfg, lock, handle, chan, disk, pc, chain, target, tear,
                   booting, leftover, crossed>>

\* Mutant: the fault swap keeps the dead task's locks.
WatchKeepsLocks(i) ==
    /\ task[i] = "panicked"
    /\ task' = [task EXCEPT ![i] = "ended"]
    /\ LET a == AgentOf(i)
       IN  IF entry[a] = "live"
           THEN /\ entry' = [entry EXCEPT ![a] = "faulted"]
                /\ handle' = [handle EXCEPT ![a] = Nobody]
                /\ chan' = [chan EXCEPT ![a] = Nobody]
                /\ lock' = lock
           ELSE UNCHANGED <<entry, handle, chan, lock>>
    /\ UNCHANGED <<subs, cfg, disk, pc, chain, target, tear, booting, faults, leftover,
                   crossed>>

\* watch_agent_task: a panic faults the agent's Live entry, whichever
\* incarnation it holds, and frees its locks.
Watch(i) ==
    /\ task[i] = "panicked"
    /\ task' = [task EXCEPT ![i] = "ended"]
    /\ LET a == AgentOf(i)
       IN  IF entry[a] = "live"
           THEN /\ entry' = [entry EXCEPT ![a] = "faulted"]
                /\ handle' = [handle EXCEPT ![a] = Nobody]
                /\ chan' = [chan EXCEPT ![a] = Nobody]
                /\ lock' = ReleaseAll(lock, a)
           ELSE UNCHANGED <<entry, handle, chan, lock>>
    /\ UNCHANGED <<subs, cfg, disk, pc, chain, target, tear, booting, faults, leftover,
                   crossed>>

(***************************************************************************)
(* Reactivation: the slow path of a delivery d to a dead agent.            *)
(***************************************************************************)

\* The read-lock probe: a Live entry whose channel is closed.
Probe(d, a) ==
    /\ Serving /\ pc[d] = "idle"
    /\ entry[a] = "live" /\ IsClosed(a)
    /\ target' = [target EXCEPT ![d] = a]
    /\ Advance(d, "slow")
    /\ UNCHANGED <<entry, subs, cfg, lock, task, handle, chan, disk, chain, tear, booting,
                   faults, leftover, crossed>>

\* The write-lock recheck: the entry is gone, faulted, or open again.
ReserveSkipped(d) ==
    LET a == target[d]
    IN  /\ pc[d] = "slow"
        /\ entry[a] # "live" \/ ~IsClosed(a)
        /\ Advance(d, "done")
        /\ UNCHANGED <<entry, subs, cfg, lock, task, handle, chan, disk, chain, target,
                       tear, booting, faults, leftover, crossed>>

\* Another delivery to d's agent has reserved it and not ended: its fresh task
\* died before its handles were installed, or its failed spawn_fn has yet to
\* drop the lock guard.
Past == {"reserved", "chained", "locked", "spawned", "closing", "closingLocked", "unlocking"}
Overtaken(d) == \E e \in Deliveries \ {d} : target[e] = target[d] /\ pc[e] \in Past

\* Mutant: the old incarnation's panic watcher is left running.
ReserveKeepsWatcher(d, resolved) ==
    LET a == target[d]
    IN  /\ pc[d] = "slow"
        /\ entry[a] = "live" /\ IsClosed(a)
        /\ resolved \/ SetMayVanish
        /\ task' = [task EXCEPT ![handle[a]] = IF @ = "panicked" THEN @ ELSE "ended",
                                ![d] = IF resolved THEN "held" ELSE "ended"]
        /\ lock' = ReleaseAll(lock, a)
        /\ chan' = [chan EXCEPT ![a] = d]
        /\ Advance(d, IF resolved THEN "reserved" ELSE "done")
        /\ crossed' = IF resolved /\ Overtaken(d) THEN crossed \cup {a} ELSE crossed
        /\ UNCHANGED <<entry, subs, cfg, handle, disk, chain, target, tear, booting,
                       faults, leftover>>

\* Abort the old incarnation and its watcher, free its locks, install a fresh
\* channel.  A profile set that does not resolve drops the receiver again.
Reserve(d, resolved) ==
    LET a == target[d]
    IN  /\ pc[d] = "slow"
        /\ entry[a] = "live" /\ IsClosed(a)
        /\ resolved \/ SetMayVanish
        /\ task' = [task EXCEPT ![handle[a]] = "ended",
                                ![d] = IF resolved THEN "held" ELSE "ended"]
        /\ lock' = ReleaseAll(lock, a)
        /\ chan' = [chan EXCEPT ![a] = d]
        /\ Advance(d, IF resolved THEN "reserved" ELSE "done")
        /\ crossed' = IF resolved /\ Overtaken(d) THEN crossed \cup {a} ELSE crossed
        /\ UNCHANGED <<entry, subs, cfg, handle, disk, chain, target, tear, booting,
                       faults, leftover>>

\* The supervisor chain under a read lock; a broken one degrades to empty.
ReactChain(d) ==
    LET above == cfg[target[d]].above
    IN  /\ pc[d] = "reserved"
        /\ chain' = [chain EXCEPT ![d] = IF \A x \in above : Registered(x) THEN above ELSE {}]
        /\ Advance(d, "chained")
        /\ UNCHANGED <<entry, subs, cfg, lock, task, handle, chan, disk, target, tear,
                       booting, faults, leftover, crossed>>

\* Mutant: a busy workspace does not stop the reactivation.
ReactAcquireWakesAnyway(d) ==
    LET a == target[d]
    IN  /\ pc[d] = "chained"
        /\ IF TryAcquire(lock, a, chain[d])
           THEN lock' = Acquired(lock, a) /\ Advance(d, "locked")
           ELSE Advance(d, "locked") /\ UNCHANGED lock
        /\ UNCHANGED <<entry, subs, cfg, task, handle, chan, disk, chain, target, tear,
                       booting, faults, leftover, crossed>>

\* try_acquire_workspace_lock, without the supervisor's exec gate.
ReactAcquire(d) ==
    LET a == target[d]
    IN  /\ pc[d] = "chained"
        /\ IF TryAcquire(lock, a, chain[d])
           THEN lock' = Acquired(lock, a) /\ Advance(d, "locked")
           ELSE Advance(d, "closing") /\ UNCHANGED lock
        /\ UNCHANGED <<entry, subs, cfg, task, handle, chan, disk, chain, target, tear,
                       booting, faults, leftover, crossed>>

\* spawn_fn: the task starts on the reserved channel, or the channel is lost.
ReactSpawn(d, ok) ==
    /\ pc[d] = "locked"
    /\ task' = [task EXCEPT ![d] = IF ok THEN "running" ELSE "ended"]
    /\ Advance(d, IF ok THEN "spawned" ELSE "closingLocked")
    /\ UNCHANGED <<entry, subs, cfg, lock, handle, chan, disk, chain, target, tear,
                   booting, faults, leftover, crossed>>

\* close_prompt_channel; the handler then returns and drops what it holds.
ReactClose(d) ==
    LET a == target[d]
    IN  /\ pc[d] \in {"closing", "closingLocked"}
        /\ chan' = [chan EXCEPT ![a] = IF entry[a] = "live" THEN Nobody ELSE @]
        /\ task' = [task EXCEPT ![d] = "ended"]
        /\ Advance(d, IF pc[d] = "closing" THEN "done" ELSE "unlocking")
        /\ UNCHANGED <<entry, subs, cfg, lock, handle, disk, chain, target, tear, booting,
                       faults, leftover, crossed>>

\* The lock guard of a failed spawn drops last.
ReactUnlock(d) ==
    /\ pc[d] = "unlocking"
    /\ lock' = IF cfg[target[d]].normal THEN ReleaseAll(lock, target[d]) ELSE lock
    /\ Advance(d, "done")
    /\ UNCHANGED <<entry, subs, cfg, task, handle, chan, disk, chain, target, tear,
                   booting, faults, leftover, crossed>>

\* Mutant: the write-back keeps the agent it read before the reserve.
ReactInstallKeepsOld(d, to) ==
    LET a == target[d]
    IN  /\ pc[d] = "spawned"
        /\ IF entry[a] = "live"
           THEN /\ chan' = [chan EXCEPT ![a] = handle[a]]
                /\ UNCHANGED <<handle, task, disk, lock, faults, leftover>>
           ELSE /\ task' = Stop(d) /\ Clear(a, to)
                /\ lock' = ReleaseAll(lock, a)
                /\ UNCHANGED <<handle, chan>>
        /\ Advance(d, "done")
        /\ UNCHANGED <<entry, subs, cfg, chain, target, tear, booting, crossed>>

\* The write-back, under the registry lock: an entry that is gone or faulted
\* aborts the fresh task, erases the directory and frees the locks.
ReactInstall(d, to) ==
    LET a == target[d]
    IN  /\ pc[d] = "spawned"
        /\ IF entry[a] = "live"
           THEN /\ handle' = [handle EXCEPT ![a] = d]
                /\ chan' = [chan EXCEPT ![a] = d]
                /\ UNCHANGED <<task, disk, lock, faults, leftover>>
           ELSE /\ task' = Stop(d) /\ Clear(a, to)
                /\ lock' = ReleaseAll(lock, a)
                /\ UNCHANGED <<handle, chan>>
        /\ Advance(d, "done")
        /\ UNCHANGED <<entry, subs, cfg, chain, target, tear, booting, crossed>>

(***************************************************************************)
(* remove_agent and teardown_agent.  The busy state, which only delays a   *)
(* removal, is left out; a faulted root's removal is out of the model.     *)
(***************************************************************************)

\* Mutant: slots reserved by spawns in flight do not keep the agent.
RemoveUnregisterReserved(a) ==
    /\ Serving /\ a # Root
    /\ Registered(a) /\ \A x \in subs[a] : ~Registered(x)
    /\ entry' = [entry EXCEPT ![a] = "none"]
    /\ subs' = [subs EXCEPT ![cfg[a].sup] = @ \ {a}]
    /\ tear' = [tear EXCEPT ![a] = "unregistered"]
    /\ UNCHANGED <<cfg, lock, task, handle, chan, disk, pc, chain, target, booting, faults,
                   leftover, crossed>>

\* Unregister under the write lock: no subagent, slot returned.
RemoveUnregister(a) ==
    /\ Serving /\ a # Root
    /\ Registered(a) /\ subs[a] = {}
    /\ entry' = [entry EXCEPT ![a] = "none"]
    /\ subs' = [subs EXCEPT ![cfg[a].sup] = @ \ {a}]
    /\ tear' = [tear EXCEPT ![a] = "unregistered"]
    /\ UNCHANGED <<cfg, lock, task, handle, chan, disk, pc, chain, target, booting, faults,
                   leftover, crossed>>

\* The workspace goes back to the supervisor, then everything is released.
TearRelease(a) ==
    /\ tear[a] = "unregistered"
    /\ lock' = ReleaseAll(Reverse(lock, a), a)
    /\ tear' = [tear EXCEPT ![a] = "released"]
    /\ UNCHANGED <<entry, subs, cfg, task, handle, chan, disk, pc, chain, target, booting,
                   faults, leftover, crossed>>

\* The task is cancelled and awaited, then the directory is archived.
TearArchive(a, to) ==
    /\ tear[a] = "released"
    /\ task' = IF handle[a] = Nobody THEN task ELSE Stop(handle[a])
    /\ Clear(a, to)
    /\ handle' = [handle EXCEPT ![a] = Nobody]
    /\ chan' = [chan EXCEPT ![a] = Nobody]
    /\ tear' = [tear EXCEPT ![a] = "no"]
    /\ UNCHANGED <<entry, subs, cfg, lock, pc, chain, target, booting, crossed>>

(***************************************************************************)
(* Restart.  Only directories (with their meta.json) survive.              *)
(***************************************************************************)

ProcessEnds ==
    /\ entry' = [a \in Agents |-> "none"]
    /\ subs' = [a \in Agents |-> {}]
    /\ lock' = [d \in Dirs |-> Nobody]
    /\ task' = [i \in Incarnations |-> IF task[i] = "none" THEN "none" ELSE "ended"]
    /\ handle' = [a \in Agents |-> Nobody]
    /\ chan' = [a \in Agents |-> Nobody]
    /\ pc' = [i \in Incarnations |-> IF pc[i] = "idle" THEN "idle" ELSE "done"]
    /\ chain' = [i \in Incarnations |-> {}]
    /\ tear' = [a \in Agents |-> "no"]
    /\ leftover' = {} /\ crossed' = {}
    /\ booting' = TRUE
    /\ UNCHANGED <<cfg, disk, target>>

Restart ==
    /\ Serving /\ faults < MaxFaults
    /\ faults' = faults + 1
    /\ ProcessEnds

\* scan_agents: directories whose meta.json reads, and those it refuses.
Pending == {a \in Agents : disk[a] = "live" /\ ~Registered(a)}
Unreadable == {a \in Agents : disk[a] = "bare" /\ ~Registered(a)}
Orphan(a) == a # Root /\ disk[cfg[a].sup] # "live"

\* register_refused, first of all: a faulted entry with a blank configuration
\* (no supervisor, no role), linked nowhere.
RestoreRefused(a) ==
    /\ booting /\ a \in Unreadable
    /\ entry' = [entry EXCEPT ![a] = "refused"]
    /\ UNCHANGED <<subs, cfg, lock, task, handle, chan, disk, pc, chain, target, tear,
                   booting, faults, leftover, crossed>>

\* register_root fails over any entry that names no supervisor, and a refused
\* one names none.
RootTaken == \E b \in Agents : entry[b] = "refused"

\* register: the entry is linked under a registered supervisor.
Linked(a) ==
    IF cfg[a].sup # Nobody /\ Registered(cfg[a].sup)
    THEN [subs EXCEPT ![cfg[a].sup] = @ \cup {a}] ELSE subs

RestoreFaulted(a) ==
    /\ entry' = [entry EXCEPT ![a] = "faulted"]
    /\ subs' = Linked(a)
    /\ UNCHANGED <<cfg, task, handle, chan, disk, pc, chain, target, tear, booting, faults,
                   leftover, crossed>>

\* An agent whose supervisor has no directory is registered first, faulted.
RestoreOrphan(a) ==
    /\ booting /\ Unreadable = {} /\ a \in Pending /\ Orphan(a)
    /\ RestoreFaulted(a) /\ UNCHANGED lock

\* The next agent of the lowest pending level, once the orphans are in.
Restorable(a) ==
    /\ booting /\ Unreadable = {} /\ a \in Pending
    /\ \A b \in Pending : ~Orphan(b) /\ Cardinality(cfg[a].above) <= Cardinality(cfg[b].above)

\* restore_one: the chain, read from disk, is complete and the workspace is
\* established as at spawn, but without the exec gate.
Establishes(a) ==
    /\ \A x \in cfg[a].above : disk[x] = "live"
    /\ TryAcquire(Forward(lock, a), a, cfg[a].above)

RestoreOne(a) ==
    /\ Restorable(a) /\ Establishes(a)
    /\ a = Root => ~RootTaken
    /\ lock' = Acquired(Forward(lock, a), a)
    /\ task' = [task EXCEPT ![a] = "running"]
    /\ entry' = [entry EXCEPT ![a] = "live"]
    /\ handle' = [handle EXCEPT ![a] = a]
    /\ chan' = [chan EXCEPT ![a] = a]
    /\ subs' = Linked(a)
    /\ UNCHANGED <<cfg, disk, pc, chain, target, tear, booting, faults, leftover, crossed>>

\* Any failure registers it faulted: before the workspace is established, or
\* after it, when EstablishedLock drops as in SpawnUnwind.
RestoreFails(a, established) ==
    /\ Restorable(a)
    /\ a = Root => ~RootTaken
    /\ established => Establishes(a)
    /\ lock' = IF established
               THEN ReleaseAll(Reverse(Acquired(Forward(lock, a), a), a), a) ELSE lock
    /\ RestoreFaulted(a)

\* Beside a refused directory the root is not registered: restore_agents errs
\* and the process ends, to be started again.
BootAborts ==
    /\ Restorable(Root) /\ RootTaken
    /\ ProcessEnds /\ UNCHANGED faults

BootDone ==
    /\ booting /\ Pending = {} /\ Unreadable = {}
    /\ booting' = FALSE
    /\ UNCHANGED <<entry, subs, cfg, lock, task, handle, chan, disk, pc, chain, target,
                   tear, faults, leftover, crossed>>

SpawnStep(c) ==
    \/ \E s \in Agents, k \in Kinds, r \in Roles : SpawnReserve(c, s, k, r)
    \/ \E written \in BOOLEAN : SpawnWriteMeta(c, written)
    \/ \E to \in {"none"} \cup OnDisk : SpawnRegister(c, to) \/ SpawnErase(c, to)
    \/ SpawnMakeDir(c) \/ SpawnChain(c) \/ SpawnCarve(c) \/ SpawnTask(c)
    \/ SpawnFails(c) \/ SpawnUnwind(c) \/ SpawnRefused(c)

DeliverStep(d) ==
    \/ \E a \in Agents : Probe(d, a)
    \/ \E ok \in BOOLEAN : Reserve(d, ok) \/ ReactSpawn(d, ok)
    \/ ReserveSkipped(d) \/ ReactChain(d) \/ ReactAcquire(d)
    \/ ReactClose(d) \/ ReactUnlock(d)
    \/ \E to \in {"none"} \cup OnDisk : ReactInstall(d, to)

RemoveStep(a) ==
    \/ RemoveUnregister(a) \/ TearRelease(a)
    \/ \E to \in {"archived"} \cup OnDisk : TearArchive(a, to)

RestartStep ==
    \/ Restart \/ BootAborts \/ BootDone
    \/ \E a \in Agents : \/ RestoreRefused(a) \/ RestoreOrphan(a) \/ RestoreOne(a)
                          \/ \E established \in BOOLEAN : RestoreFails(a, established)

Next ==
    \/ \E c \in Agents : SpawnStep(c) \/ RemoveStep(c)
    \/ \E d \in Deliveries : DeliverStep(d)
    \/ \E i \in Incarnations : Watch(i) \/ \E how \in {"panicked", "ended"} : TaskDies(i, how)
    \/ RestartStep

Spec == Init /\ [][Next]_vars

(***************************************************************************)
(* Properties.                                                             *)
(***************************************************************************)

TypeOK ==
    /\ entry \in [Agents -> {"none", "live", "faulted", "refused"}]
    /\ subs \in [Agents -> SUBSET Agents]
    /\ cfg \in [Agents -> Config]
    /\ lock \in [Dirs -> Agents \cup {Nobody}]
    /\ task \in [Incarnations -> {"none", "held", "running", "panicked", "ended"}]
    /\ handle \in [Agents -> Incarnations \cup {Nobody}]
    /\ chan \in [Agents -> Incarnations \cup {Nobody}]
    /\ disk \in [Agents -> {"none", "bare", "live", "archived"}]
    /\ pc \in [Incarnations -> SpawnPCs \cup DeliverPCs]
    /\ chain \in [Incarnations -> SUBSET Agents]
    /\ target \in [Deliveries -> Agents \cup {Nobody}]
    /\ tear \in [Agents -> {"no", "unregistered", "released"}]
    /\ booting \in BOOLEAN /\ faults \in 0..MaxFaults
    /\ leftover \subseteq Agents /\ crossed \subseteq Agents

\* What the abstract coordinator knows of the agents.
Home == [a \in Agents |-> cfg[a].ws]
Above == [a \in Agents |-> cfg[a].above]
Stead == [a \in Agents |-> cfg[a].stead]
D == INSTANCE Delegation WITH owner <- lock, home <- Home, above <- Above, stead <- Stead

\* Every step of the handlers on the lock table is one the abstract
\* coordinator allows.
ImplementsDelegation == D!Spec

\* Three deliveries have found agent a dead.
Thrice(a) ==
    \E d, e, f \in Deliveries :
        d # e /\ d # f /\ e # f /\ target[d] = a /\ target[e] = a /\ target[f] = a

\* No agent has two tasks running on its context and its directory, although
\* deliveries, restarts and spawns all start one.  Only where two deliveries
\* crossed, and a third came, may one have closed the channel another reserved.
OneIncarnation ==
    \A i, j \in Incarnations :
        task[i] = "running" /\ task[j] = "running" /\ AgentOf(i) = AgentOf(j)
            => i = j \/ (AgentOf(i) \in crossed /\ Thrice(AgentOf(i)))

\* The handlers that hold locks for an agent that is not registered, or not
\* yet again.
InFlight(a) ==
    \/ pc[a] \in {"carved", "spawned", "retracted", "erased"}
    \/ tear[a] = "unregistered"
    \/ \E d \in Deliveries :
          target[d] = a /\ pc[d] \in {"locked", "spawned", "closingLocked", "unlocking"}

\* A task runs only for a Live agent, or under a handler that will install or
\* stop it: no task goes on behind a faulted or removed entry, unless two
\* deliveries to the agent crossed.
NoZombieTask ==
    \A i \in Incarnations : task[i] = "running" =>
        \/ entry[AgentOf(i)] = "live"
        \/ pc[i] = "spawned" \/ tear[AgentOf(i)] # "no"
        \/ AgentOf(i) \in crossed

NoHeir == \A a \in Agents : ~cfg[a].heir

\* A Live Normal agent with a running task holds its workspace's write-lock,
\* unless a full-handoff child that is still around was given it or two
\* deliveries to the agent crossed.
WorkspaceHeld ==
    \A a \in Agents :
        entry[a] = "live" /\ task[handle[a]] = "running" /\ cfg[a].normal
            => \/ lock[cfg[a].ws] = a
               \/ \E c \in Agents : /\ cfg[c].heir /\ cfg[c].sup = a
                                    /\ Registered(c) \/ InFlight(c)
               \/ a \in crossed

\* It does so as long as nobody has asked for a full handoff.
WorkspaceHeldIfCarved == NoHeir => WorkspaceHeld

\* A lock does not outlive its task: its holder is a Live agent, or a handler
\* that will give it up is still running.
LocksTrackTasks ==
    \A d \in Dirs : lock[d] # Nobody => entry[lock[d]] = "live" \/ InFlight(lock[d])

\* So do all locks as long as nobody has asked for a full handoff.
LocksTrackTasksIfCarved == NoHeir => LocksTrackTasks

\* A superior stays registered while a live subordinate or a spawn in flight
\* is below it, so the chain that a lock request relies on is never broken.
ChainUnbroken ==
    \A a \in Agents :
        entry[a] = "live" \/ pc[a] \in Materializing => \A x \in cfg[a].above : Registered(x)

\* A directory in the live area has an entry, a creation or a removal that will
\* keep, archive or erase it, or a directory operation on it has failed since
\* the last boot: leftover is empty again after the next one, so what a failure
\* left behind is registered by then and does not vanish.
NoOrphanDir ==
    Serving => \A a \in Agents : disk[a] \in OnDisk =>
        \/ Registered(a) \/ tear[a] # "no" \/ pc[a] \notin {"idle", "done"}
        \/ a \in leftover

=============================================================================
