-------------------------------- MODULE Shell --------------------------------
(***************************************************************************)
(* One agent's shell and the carve-outs of its workspace: the execution    *)
(* gate (ExecGate), the foreground command and the background tasks of the *)
(* one-shot backend (ProcessBackend, BackgroundRegistry, watch) and the    *)
(* subagent spawns that take the gate's WRITE side.  A child is confined   *)
(* at its fork to the writable set of that moment, so a carve-out must not *)
(* land between the snapshot and the end of a long-lived child.            *)
(* Tool calls hold the backend's mutex: one operation runs at a time.      *)
(* Processes a command detached from its group are left out, as the code   *)
(* documents; output capture and the stall flag are left out too.          *)
(***************************************************************************)
EXTENDS Integers, FiniteSets

CONSTANTS
    Procs,   \* child processes
    Carves,  \* subagents whose workspace lies inside the agent's
    NoOne    \* no child in the operation, no carve on the WRITE side

ASSUME ShellAssumption == NoOne \notin Procs \cup Carves /\ IsFiniteSet(Procs)

VARIABLES
    reading,     \* the operation holds the gate's READ side
    writer,      \* the carve that holds its WRITE side
    running_bg,  \* the gate's tally of background tasks
    carve_epoch, \* carves that passed the gate
    carved,      \* carve-outs in the lock table: read-only holes of a snapshot
    ungated,     \* carve-outs a reactivation has taken back past the gate
    carve,       \* where each carve is
    at,          \* where the backend's operation is
    cur,         \* its child
    life,        \* the process of each child
    holes,       \* the carve-outs its confinement knows, while it lives
    forkEpoch,   \* carve_epoch at the fork of the command that exec runs
    state,       \* "fg", or the state of its background task
    watcher,     \* where its watcher is
    tasks,       \* the registry
    cancelled,   \* cancel tokens that fired
    told         \* background tasks whose end was reported to the agent

gateVars == <<reading, writer, running_bg, carve_epoch>>
carveVars == <<carved, ungated, carve>>
procVars == <<life, holes>>
taskVars == <<state, watcher, tasks, cancelled, told>>
opVars == <<at, cur, forkEpoch>>
shellVars == <<gateVars, carveVars, opVars, procVars, taskVars>>

Background == {"running", "killed", "exited"}

ShellTypeOK ==
    /\ reading \in BOOLEAN /\ writer \in Carves \cup {NoOne}
    /\ running_bg \in Int /\ carve_epoch \in Nat
    /\ carved \subseteq Carves /\ ungated \subseteq Carves
    /\ carve \in [Carves -> {"idle", "permit", "gated", "landed", "freed"}]
    /\ at \in {"idle", "execSnap", "execWait", "adopting", "adoptRead", "refused",
               "bgSnap", "bgForked", "bgCounted", "killing", "dropping", "dropKill"}
    /\ cur \in Procs \cup {NoOne}
    /\ life \in [Procs -> {"none", "alive", "dead"}]
    /\ holes \in [Procs -> SUBSET Carves] /\ forkEpoch \in Nat
    /\ state \in [Procs -> {"none", "fg"} \cup Background]
    /\ watcher \in [Procs -> {"none", "on", "killing", "reaped", "lost", "marked", "done"}]
    /\ tasks \subseteq Procs /\ cancelled \subseteq Procs /\ told \subseteq Procs

ShellInit ==
    /\ reading = FALSE /\ writer = NoOne /\ running_bg = 0 /\ carve_epoch = 0
    /\ carved = {} /\ ungated = {} /\ carve = [c \in Carves |-> "idle"]
    /\ at = "idle" /\ cur = NoOne
    /\ life = [p \in Procs |-> "none"]
    /\ holes = [p \in Procs |-> {}] /\ forkEpoch = 0
    /\ state = [p \in Procs |-> "none"] /\ watcher = [p \in Procs |-> "none"]
    /\ tasks = {} /\ cancelled = {} /\ told = {}

(***************************************************************************)
(* Helpers.                                                                *)
(***************************************************************************)

GoTo(a, p) == at' = a /\ cur' = p /\ UNCHANGED forkEpoch
Return == at' = "idle" /\ cur' = NoOne /\ forkEpoch' = 0
Die(p) ==
    /\ life' = [life EXCEPT ![p] = IF @ = "alive" THEN "dead" ELSE @]
    /\ holes' = [holes EXCEPT ![p] = {}]

\* Mutant: every caller takes the task out of the tally.
MarkTerminalTwice(p, terminal) ==
    /\ state' = [state EXCEPT ![p] = terminal]
    /\ running_bg' = running_bg - 1

\* mark_terminal: the first caller moves the task out of running and out of
\* the tally; dec_bg's clamp at zero never binds (TallyExact).
MarkTerminal(p, terminal) ==
    IF state[p] = "running"
    THEN /\ state' = [state EXCEPT ![p] = terminal]
         /\ running_bg' = running_bg - 1
    ELSE UNCHANGED <<state, running_bg>>

\* The tail of spawn and adopt: the watcher starts and the task is registered.
Register(p) ==
    /\ state' = [state EXCEPT ![p] = "running"]
    /\ watcher' = [watcher EXCEPT ![p] = "on"]
    /\ tasks' = tasks \cup {p}
    /\ UNCHANGED <<cancelled, told>>

(***************************************************************************)
(* The READ side: exec and spawn.                                          *)
(***************************************************************************)

\* READ is taken (waiting out a carve) and the access decision composed.
Launch(p, kind) ==
    /\ at = "idle" /\ life[p] = "none" /\ writer = NoOne
    /\ reading' = TRUE
    /\ holes' = [holes EXCEPT ![p] = carved]
    /\ GoTo(kind, p)
    /\ UNCHANGED <<writer, running_bg, carve_epoch, carveVars, life, taskVars>>

\* The confinement or the fork fails.
LaunchFails ==
    /\ at \in {"execSnap", "bgSnap"}
    /\ holes' = [holes EXCEPT ![cur] = {}]
    /\ reading' = FALSE /\ Return
    /\ UNCHANGED <<writer, running_bg, carve_epoch, carveVars, life, taskVars>>

\* exec forks, notes the epoch and drops READ: the command runs without it.
ExecFork ==
    /\ at = "execSnap"
    /\ life' = [life EXCEPT ![cur] = "alive"]
    /\ forkEpoch' = carve_epoch
    /\ state' = [state EXCEPT ![cur] = "fg"]
    /\ reading' = FALSE /\ at' = "execWait" /\ UNCHANGED cur
    /\ UNCHANGED <<writer, running_bg, carve_epoch, carveVars, holes, watcher, tasks, cancelled, told>>

\* The child exited in time, or waiting for it failed: the group guard is
\* disarmed all the same, and dropping the child kills it.
ExecDone(failed) ==
    /\ at = "execWait" /\ (failed \/ life[cur] = "dead")
    /\ Die(cur) /\ Return
    /\ UNCHANGED <<gateVars, carveVars, taskVars>>

\* The command timed out and becomes a background task, if it may.
ExecTimeout ==
    /\ at = "execWait"
    /\ GoTo("adopting", cur)
    /\ UNCHANGED <<gateVars, carveVars, procVars, taskVars>>

AdoptRead ==
    /\ at = "adopting" /\ writer = NoOne
    /\ reading' = TRUE /\ GoTo("adoptRead", cur)
    /\ UNCHANGED <<writer, running_bg, carve_epoch, carveVars, procVars, taskVars>>

\* Mutant: a timed-out command is adopted whatever landed meanwhile.
AdoptAnyway ==
    /\ at = "adoptRead"
    /\ running_bg' = running_bg + 1
    /\ Register(cur)
    /\ reading' = FALSE /\ Return
    /\ UNCHANGED <<writer, carve_epoch, carveVars, procVars>>

\* No carve passed the gate since the fork: the child becomes a counted task.
Adopt ==
    /\ at = "adoptRead" /\ carve_epoch = forkEpoch
    /\ running_bg' = running_bg + 1
    /\ Register(cur)
    /\ reading' = FALSE /\ Return
    /\ UNCHANGED <<writer, carve_epoch, carveVars, procVars>>

AdoptRefused ==
    /\ at = "adoptRead" /\ carve_epoch # forkEpoch
    /\ reading' = FALSE /\ GoTo("refused", cur)
    /\ UNCHANGED <<writer, running_bg, carve_epoch, carveVars, procVars, taskVars>>

\* The refused child's group is killed and reaped.
RefusedKill ==
    /\ at = "refused"
    /\ Die(cur) /\ Return
    /\ UNCHANGED <<gateVars, carveVars, taskVars>>

\* The tool call is dropped at an await after the fork: the armed group guard
\* kills the child; a dropped kill leaves the watcher to finish.
Interrupt ==
    /\ at \in {"execWait", "adopting", "refused", "killing"}
    /\ IF at = "killing" THEN UNCHANGED procVars ELSE Die(cur)
    /\ Return
    /\ UNCHANGED <<gateVars, carveVars, taskVars>>

\* Mutant: READ is dropped right after the fork, before the tally counts it.
BgForkUnguarded ==
    /\ at = "bgSnap"
    /\ life' = [life EXCEPT ![cur] = "alive"]
    /\ reading' = FALSE /\ GoTo("bgForked", cur)
    /\ UNCHANGED <<writer, running_bg, carve_epoch, carveVars, holes, taskVars>>

\* spawn forks, counts the task while READ is held, then drops it and starts
\* the watcher.
BgFork ==
    /\ at = "bgSnap"
    /\ life' = [life EXCEPT ![cur] = "alive"]
    /\ GoTo("bgForked", cur)
    /\ UNCHANGED <<gateVars, carveVars, holes, taskVars>>

BgCount ==
    /\ at = "bgForked"
    /\ running_bg' = running_bg + 1
    /\ reading' = FALSE /\ GoTo("bgCounted", cur)
    /\ UNCHANGED <<writer, carve_epoch, carveVars, procVars, taskVars>>

BgStart ==
    /\ at = "bgCounted"
    /\ Register(cur) /\ Return
    /\ UNCHANGED <<gateVars, carveVars, procVars>>

(***************************************************************************)
(* kill, and the registry's Drop.                                          *)
(***************************************************************************)

\* kill takes the task out of the registry, fires its token and joins.
Kill(p) ==
    /\ at = "idle" /\ p \in tasks
    /\ tasks' = tasks \ {p} /\ cancelled' = cancelled \cup {p}
    /\ GoTo("killing", p)
    /\ UNCHANGED <<gateVars, carveVars, procVars, state, watcher, told>>

\* The join ends, or KILL_JOIN passes first: either way the task is settled.
KillJoined ==
    /\ at = "killing"
    /\ MarkTerminal(cur, "killed") /\ Return
    /\ UNCHANGED <<reading, writer, carve_epoch, carveVars, procVars, watcher, tasks, cancelled, told>>

\* The backend is dropped with the agent's task.
DropBegin ==
    /\ at = "idle" /\ GoTo("dropping", NoOne)
    /\ UNCHANGED <<gateVars, carveVars, procVars, taskVars>>

\* Each task is cancelled and settled, then its group is killed.
DropMark(p) ==
    /\ at = "dropping" /\ p \in tasks
    /\ tasks' = tasks \ {p} /\ cancelled' = cancelled \cup {p}
    /\ MarkTerminal(p, "killed") /\ GoTo("dropKill", p)
    /\ UNCHANGED <<reading, writer, carve_epoch, carveVars, procVars, watcher, told>>

DropKill ==
    /\ at = "dropKill"
    /\ Die(cur) /\ GoTo("dropping", NoOne)
    /\ UNCHANGED <<gateVars, carveVars, taskVars>>

(***************************************************************************)
(* Children and watchers.                                                  *)
(***************************************************************************)

ProcExits(p) ==
    /\ life[p] = "alive" /\ Die(p)
    /\ UNCHANGED <<gateVars, carveVars, opVars, taskVars>>

WatcherAt(p, from, to) == watcher[p] = from /\ watcher' = [watcher EXCEPT ![p] = to]

\* A fired token, or output past max_bg_bytes, starts the two-phase kill.
WatchKills(p, oversize) ==
    /\ WatcherAt(p, "on", "killing")
    /\ oversize \/ p \in cancelled
    /\ UNCHANGED <<gateVars, carveVars, opVars, procVars, state, tasks, cancelled, told>>

WatchReaps(p) ==
    /\ \/ WatcherAt(p, "killing", "reaped") /\ Die(p)
       \/ WatcherAt(p, "on", "lost") /\ UNCHANGED procVars \* try_wait fails
    /\ UNCHANGED <<gateVars, carveVars, opVars, state, tasks, cancelled, told>>

\* The watcher saw the end, or gave up on it: the task leaves the tally.
WatchMarks(p) ==
    /\ \/ WatcherAt(p, "on", "marked") /\ life[p] = "dead" /\ MarkTerminal(p, "exited")
       \/ WatcherAt(p, "lost", "marked") /\ MarkTerminal(p, "exited")
       \/ WatcherAt(p, "reaped", "marked") /\ MarkTerminal(p, "killed")
    /\ UNCHANGED <<reading, writer, carve_epoch, carveVars, opVars, procVars, tasks, cancelled, told>>

\* Mutant: a kill is not reported.
WatchReportsExitOnly(p) ==
    /\ WatcherAt(p, "marked", "done")
    /\ told' = IF state[p] = "killed" THEN told ELSE told \cup {p}
    /\ Die(p)
    /\ UNCHANGED <<gateVars, carveVars, opVars, state, tasks, cancelled>>

\* fire_terminal; returning drops the child, which kill_on_drop kills.
WatchReports(p) ==
    /\ WatcherAt(p, "marked", "done")
    /\ told' = told \cup {p} /\ Die(p)
    /\ UNCHANGED <<gateVars, carveVars, opVars, state, tasks, cancelled>>

\* Once the registry is dropped the runtime may be ending too: a watcher it
\* does not poll again is dropped with its child and reports nothing.
Dropped == at \in {"dropping", "dropKill"}

WatchAborted(p) ==
    /\ Dropped /\ watcher[p] \notin {"none", "done"}
    /\ watcher' = [watcher EXCEPT ![p] = "done"] /\ Die(p)
    /\ UNCHANGED <<gateVars, carveVars, opVars, state, tasks, cancelled, told>>

(***************************************************************************)
(* The WRITE side: Materialize::run carves a subagent's workspace.         *)
(***************************************************************************)

CarveAt(c, from, to) == carve[c] = from /\ carve' = [carve EXCEPT ![c] = to]

\* try_write takes the permit first.
CarvePermit(c) ==
    /\ CarveAt(c, "idle", "permit") /\ ~reading /\ writer = NoOne
    /\ writer' = c
    /\ UNCHANGED <<reading, running_bg, carve_epoch, carved, ungated, opVars, procVars, taskVars>>

\* It refuses under a running task, and bumps the epoch otherwise.
CarveGate(c) ==
    /\ IF running_bg > 0
       THEN CarveAt(c, "permit", "idle") /\ writer' = NoOne /\ UNCHANGED carve_epoch
       ELSE CarveAt(c, "permit", "gated") /\ carve_epoch' = carve_epoch + 1 /\ UNCHANGED writer
    /\ UNCHANGED <<reading, running_bg, carved, ungated, opVars, procVars, taskVars>>

\* The workspace is acquired, or not, and the WRITE guard drops.
CarveLand(c, ok) ==
    /\ CarveAt(c, "gated", IF ok THEN "landed" ELSE "freed")
    /\ carved' = IF ok THEN carved \cup {c} ELSE carved
    /\ writer' = NoOne
    /\ UNCHANGED <<reading, running_bg, carve_epoch, ungated, opVars, procVars, taskVars>>

\* The subagent is removed, or its task dies and its locks are released.
CarveEnds(c) ==
    /\ CarveAt(c, "landed", "freed")
    /\ carved' = carved \ {c}
    /\ UNCHANGED <<gateVars, ungated, opVars, procVars, taskVars>>

\* A delivery reactivates the subagent: its lock is taken again, past the gate.
Recarve(c) ==
    /\ CarveAt(c, "freed", "landed")
    /\ carved' = carved \cup {c} /\ ungated' = ungated \cup {c}
    /\ UNCHANGED <<gateVars, opVars, procVars, taskVars>>

OpStep ==
    \/ LaunchFails \/ ExecFork \/ ExecTimeout \/ \E failed \in BOOLEAN : ExecDone(failed)
    \/ AdoptRead \/ Adopt \/ AdoptRefused \/ RefusedKill
    \/ BgFork \/ BgCount \/ BgStart \/ KillJoined \/ DropKill
    \/ \E p \in Procs : DropMark(p)
WatchStep(p) ==
    \/ \E oversize \in BOOLEAN : WatchKills(p, oversize)
    \/ WatchReaps(p) \/ WatchMarks(p) \/ WatchReports(p)
CarveStep(c) == CarveGate(c) \/ \E ok \in BOOLEAN : CarveLand(c, ok)

ShellNext ==
    \/ OpStep \/ Interrupt \/ DropBegin
    \/ \E p \in Procs : \/ \E kind \in {"execSnap", "bgSnap"} : Launch(p, kind)
                         \/ Kill(p) \/ ProcExits(p) \/ WatchStep(p) \/ WatchAborted(p)
    \/ \E c \in Carves : CarvePermit(c) \/ CarveStep(c) \/ CarveEnds(c) \/ Recarve(c)

\* The runtime polls the operation, the watchers and the carves; nobody has to
\* call a tool, and no command has to end by itself.
Fairness ==
    /\ WF_shellVars(OpStep)
    /\ \A p \in Procs : /\ WF_shellVars(WatchKills(p, FALSE))
                        /\ WF_shellVars(watcher[p] = "killing" /\ WatchReaps(p))
                        /\ WF_shellVars(WatchMarks(p) \/ WatchReports(p))
    /\ \A c \in Carves : WF_shellVars(CarveStep(c))

ShellSpec == ShellInit /\ [][ShellNext]_shellVars /\ Fairness

(***************************************************************************)
(* Properties.                                                             *)
(***************************************************************************)

\* The tally is the number of running tasks at every step of every watcher,
\* kill and drop: a task leaves it once, and none is left in it.
TallyExact ==
    running_bg = Cardinality({p \in Procs : state[p] = "running"})
                     + (IF at = "bgCounted" THEN 1 ELSE 0)

\* What the gate carved is known to the child's confinement.
Confined(p) == carved \ ungated \subseteq holes[p]
Condemned(p) == p \in cancelled \/ watcher[p] \in {"marked", "done"}

\* A background task never runs on a writable set older than a carve that
\* passed the gate, whether spawned or adopted, unless its kill is under way.
NoStaleTask ==
    \A p \in Procs :
        life[p] = "alive" /\ (state[p] \in Background \/ (at = "bgCounted" /\ cur = p))
            => Confined(p) \/ Condemned(p)

\* A foreground command that a carve overtook does not outlive its timeout.
OverlapEnds ==
    \A p \in Procs :
        state[p] = "fg" /\ life[p] = "alive" /\ ~Confined(p) ~> life[p] = "dead"

\* A task that was killed or has exited ends, leaves the tally and is reported,
\* so the next carve is not refused for ever.  When the registry is dropped it
\* still ends, but nobody is promised a report.
TaskSettles ==
    \A p \in Procs :
        p \in cancelled \/ (state[p] = "running" /\ life[p] = "dead")
            ~> /\ life[p] = "dead"
               /\ Dropped \/ (state[p] \in {"killed", "exited"} /\ p \in told)
=============================================================================
