-------------------------------- MODULE Cron --------------------------------
(***************************************************************************)
(* The timer daemon (kallip-cron-daemon): one table of schedules that      *)
(* three writers share without a lock of their own: the scheduler, which   *)
(* triggers due rows; the deliverer, which posts triggered rows to the     *)
(* tagma and acknowledges them one by one; and the management routes.      *)
(* Each statement against the database is a step.                          *)
(*                                                                         *)
(* Left out: names, tags, priorities, the reading routes, ownership (a     *)
(* foreign id is a row that does not exist) and /health.  `In` is `Once`   *)
(* at an absolute time.  A post returns; rows of a snapshot are taken in   *)
(* any order (the code orders them by fire time).                          *)
(***************************************************************************)
EXTENDS Naturals, FiniteSets

CONSTANTS
    Ids,         \* schedules
    Stuck,       \* the schedules whose agent has a full queue for good
    Period,      \* duration of a recurring schedule
    None,        \* no time, no row
    MaxTime,     \* bound: the horizon of the clock
    MaxFaults,   \* bound: refused or failed posts, failed statements, crashes
    MaxPatches   \* bound: PATCH requests

VARIABLES
    now,        \* the wall clock
    rows,       \* the table
    made,       \* ids handed out so far
    sched,      \* the scheduler: the due rows it has read, and when
    deliv,      \* the deliverer: where it is in which sweep
    fired,      \* history: times the scheduler triggered a row
    posted,     \* history: times the tagma took its message
    owed,       \* history: rows triggered and not posted since
    replays,    \* history: posts that may be repeated, see below
    touched,    \* history: rows a PATCH has changed
    faults, patches

vars == <<now, rows, made, sched, deliv, fired, posted, owed, replays, touched, faults, patches>>

Statuses == {"active", "paused", "completed", "triggered"}
Times == 0..(MaxTime + Period)
Row == [kind : {"once", "every"}, status : Statuses, next : Times \cup {None},
        attempts : Nat, retry : 0..(MaxTime + 1) \cup {None}]

ASSUME CronAssumption ==
    /\ Stuck \subseteq Ids /\ Period \in Nat \ {0} /\ None \notin Nat \cup Ids \cup Row
    /\ MaxTime \in Nat /\ MaxFaults \in Nat /\ MaxPatches \in Nat

NoSweep == [at |-> "idle", todo |-> {}, id |-> None, time |-> 0]
NoTick == [due |-> {}, time |-> 0]

\* A row that was backed off has a retry time.
TableOK ==
    /\ rows \in [Ids -> Row \cup {None}]
    /\ \A id \in Ids :
          rows[id] # None => id \in made /\ (rows[id].attempts = 0 <=> rows[id].retry = None)

\* A row is in flight between its post and its acknowledgement.
SweepOK ==
    /\ deliv \in [at : {"idle", "sweep", "ack", "acking"}, todo : SUBSET made,
                  id : made \cup {None}, time : 0..MaxTime]
    /\ deliv.id # None <=> deliv.at \in {"ack", "acking"}

TypeOK ==
    /\ TableOK /\ SweepOK
    /\ now \in 0..MaxTime /\ made \subseteq Ids
    /\ sched \in [due : SUBSET made, time : 0..MaxTime]
    /\ fired \in [Ids -> Nat] /\ posted \in [Ids -> Nat] /\ replays \in [Ids -> Nat]
    /\ owed \subseteq made /\ touched \subseteq made
    /\ faults \in 0..MaxFaults /\ patches \in 0..MaxPatches

Init ==
    /\ now = 0 /\ made = {} /\ owed = {} /\ touched = {} /\ faults = 0 /\ patches = 0
    /\ rows = [id \in Ids |-> None]
    /\ sched = NoTick /\ deliv = NoSweep
    /\ fired = [id \in Ids |-> 0] /\ posted = fired /\ replays = fired

Counts == <<fired, posted, owed, replays>>
Fault == faults < MaxFaults /\ faults' = faults + 1

\* An UPDATE ... WHERE id = ?: nothing happens when the row is gone.
Update(id, row) == rows' = [rows EXCEPT ![id] = IF @ = None THEN None ELSE row]

Clock ==
    /\ now < MaxTime /\ now' = now + 1
    /\ UNCHANGED <<rows, made, sched, deliv, Counts, touched, faults, patches>>

(***************************************************************************)
(* The management routes.                                                  *)
(***************************************************************************)

\* A one-time schedule may lie in the past (at = 0) and then fires at once.
CreateSchedule(id, kind, at) ==
    /\ id \notin made /\ made' = made \cup {id}
    /\ rows' = [rows EXCEPT ![id] =
                   [kind |-> kind, status |-> "active", attempts |-> 0, retry |-> None,
                    next |-> IF kind = "every" THEN now + Period ELSE at]]
    /\ UNCHANGED <<now, sched, deliv, Counts, touched, faults, patches>>

\* The PATCH sets any status and nothing else.
UpdateStatus(id, status) ==
    /\ rows[id] # None /\ patches < MaxPatches
    /\ patches' = patches + 1
    /\ Update(id, [rows[id] EXCEPT !.status = status])
    /\ touched' = touched \cup {id}
    /\ replays' = [replays EXCEPT ![id] = IF status = "triggered" THEN @ + 1 ELSE @]
    /\ UNCHANGED <<now, made, sched, deliv, fired, posted, owed, faults>>

DeleteSchedule(id) ==
    /\ rows[id] # None
    /\ rows' = [rows EXCEPT ![id] = None]
    /\ owed' = owed \ {id}
    /\ UNCHANGED <<now, made, sched, deliv, fired, posted, replays, touched, faults, patches>>

(***************************************************************************)
(* The scheduler.                                                          *)
(***************************************************************************)

Due(row) == row # None /\ row.status = "active" /\ row.next # None /\ row.next <= now

\* list_due.
TickReads ==
    /\ sched.due = {}
    /\ \E id \in Ids : Due(rows[id])
    /\ sched' = [due |-> {id \in Ids : Due(rows[id])}, time |-> now]
    /\ UNCHANGED <<now, rows, made, deliv, Counts, touched, faults, patches>>

RestOfTick(id) == sched' = IF sched.due = {id} THEN NoTick ELSE [sched EXCEPT !.due = @ \ {id}]

\* Mutant: a one-time row keeps its fire time.
TriggerRowOnly(id) ==
    /\ id \in sched.due
    /\ LET next == IF rows[id] # None /\ rows[id].kind = "every" THEN sched.time + Period
                   ELSE IF rows[id] # None THEN rows[id].next ELSE None
       IN  Update(id, [rows[id] EXCEPT !.status = "triggered", !.next = next])
    /\ RestOfTick(id)
    /\ fired' = [fired EXCEPT ![id] = IF rows[id] = None THEN @ ELSE @ + 1]
    /\ owed' = IF rows[id] = None THEN owed ELSE owed \cup {id}
    /\ UNCHANGED <<now, made, deliv, posted, replays, touched, faults, patches>>

\* update_fire_times for one row that was due when it was read: status and
\* fire time in one statement, whatever the row's status is by now.
TriggerRow(id) ==
    /\ id \in sched.due
    /\ LET next == IF rows[id] # None /\ rows[id].kind = "every" THEN sched.time + Period ELSE None
       IN  Update(id, [rows[id] EXCEPT !.status = "triggered", !.next = next])
    /\ RestOfTick(id)
    /\ fired' = [fired EXCEPT ![id] = IF rows[id] = None THEN @ ELSE @ + 1]
    /\ owed' = IF rows[id] = None THEN owed ELSE owed \cup {id}
    /\ UNCHANGED <<now, made, deliv, posted, replays, touched, faults, patches>>

\* A failing statement ends the tick; the rows left are due at the next one.
TickFails ==
    /\ sched.due # {} /\ Fault
    /\ sched' = NoTick
    /\ UNCHANGED <<now, rows, made, deliv, Counts, touched, patches>>

(***************************************************************************)
(* The deliverer.                                                          *)
(***************************************************************************)

Eligible(row) ==
    row # None /\ row.status = "triggered" /\ (row.retry # None => row.retry <= now)

\* get_triggered.
SweepReads ==
    /\ deliv = NoSweep
    /\ \E id \in Ids : Eligible(rows[id])
    /\ deliv' = [at |-> "sweep", todo |-> {id \in Ids : Eligible(rows[id])},
                 id |-> None, time |-> now]
    /\ UNCHANGED <<now, rows, made, sched, Counts, touched, faults, patches>>

\* What is left of the sweep after the row id.
RestOfSweep(id) ==
    deliv' = IF deliv.todo = {id} THEN NoSweep
             ELSE [deliv EXCEPT !.at = "sweep", !.todo = @ \ {id}, !.id = None]

Posting(id) == deliv.at = "sweep" /\ id \in deliv.todo
Post(id) ==
    /\ posted' = [posted EXCEPT ![id] = @ + 1]
    /\ owed' = owed \ {id}

\* Mutant: only the last row of a sweep is acknowledged.
PostAcceptedAckLast(id) ==
    /\ Posting(id) /\ id \notin Stuck
    /\ Post(id)
    /\ IF deliv.todo = {id} THEN deliv' = [deliv EXCEPT !.at = "ack", !.id = id] ELSE RestOfSweep(id)
    /\ UNCHANGED <<now, rows, made, sched, fired, replays, touched, faults, patches>>

PostAccepted(id) ==
    /\ Posting(id) /\ id \notin Stuck
    /\ Post(id)
    /\ deliv' = [deliv EXCEPT !.at = "ack", !.id = id]
    /\ UNCHANGED <<now, rows, made, sched, fired, replays, touched, faults, patches>>

\* The tagma took the message and the answer is lost.
PostLost(id) ==
    /\ Posting(id) /\ id \notin Stuck /\ Fault
    /\ Post(id)
    /\ replays' = [replays EXCEPT ![id] = @ + 1]
    /\ RestOfSweep(id)
    /\ UNCHANGED <<now, rows, made, sched, fired, touched, patches>>

\* A transport error: the row stays triggered.
PostErrs(id) ==
    /\ Posting(id) /\ id \notin Stuck /\ Fault
    /\ RestOfSweep(id)
    /\ UNCHANGED <<now, rows, made, sched, Counts, touched, patches>>

\* 1 << (attempt - 1), at most a minute.
BackoffSeconds(attempt) == <<1, 2, 4, 8, 16, 32, 60>>[IF attempt > 7 THEN 7 ELSE attempt]

\* Mutant: a full queue ends the sweep, as if its error were returned.
PostRefusedEndsSweep(id) ==
    /\ Posting(id)
    /\ IF id \in Stuck THEN UNCHANGED faults ELSE Fault
    /\ deliv' = NoSweep
    /\ UNCHANGED <<now, rows, made, sched, Counts, touched, patches>>

\* A 503: record_delivery_failure backs the row off, if it is still triggered,
\* and the sweep goes on.  A time past the horizon is one never reached.
PostRefused(id) ==
    LET row == rows[id]
        until == IF row = None THEN now ELSE deliv.time + BackoffSeconds(row.attempts + 1)
    IN  /\ Posting(id)
        /\ IF id \in Stuck THEN UNCHANGED faults ELSE Fault /\ until <= MaxTime
        /\ IF row # None /\ row.status = "triggered"
           THEN Update(id, [row EXCEPT !.attempts = @ + 1,
                                       !.retry = IF until > MaxTime THEN MaxTime + 1 ELSE until])
           ELSE UNCHANGED rows
        /\ RestOfSweep(id)
        /\ UNCHANGED <<now, made, sched, Counts, touched, patches>>

\* ack_triggered_at reads the row; one that is not triggered is skipped.
AckReads ==
    LET row == rows[deliv.id]
    IN  /\ deliv.at = "ack"
        /\ IF row # None /\ row.status = "triggered" THEN deliv' = [deliv EXCEPT !.at = "acking"]
           ELSE RestOfSweep(deliv.id)
        /\ UNCHANGED <<now, rows, made, sched, Counts, touched, faults, patches>>

\* ... and writes it: a recurring row is active again, its fire time is set.
AckWrites ==
    LET row == rows[deliv.id]
        status == IF row # None /\ row.kind = "every" THEN "active" ELSE "completed"
    IN  /\ deliv.at = "acking"
        /\ Update(deliv.id, [row EXCEPT !.status = status, !.attempts = 0, !.retry = None])
        /\ RestOfSweep(deliv.id)
        /\ UNCHANGED <<now, made, sched, Counts, touched, faults, patches>>

\* A post is repeated when it was taken and its row is still triggered.
Unacked == [id \in Ids |-> IF id = deliv.id THEN replays[id] + 1 ELSE replays[id]]

\* A failing statement ends the sweep: of an acknowledgement, or the one that
\* should have recorded a 503.
SweepFails ==
    /\ deliv.at # "idle" /\ Fault
    /\ deliv' = NoSweep /\ replays' = Unacked
    /\ UNCHANGED <<now, rows, made, sched, fired, posted, owed, touched, patches>>

\* The daemon stops, in the middle of anything, and comes back with the table.
Restart ==
    /\ sched # NoTick \/ deliv # NoSweep
    /\ Fault
    /\ sched' = NoTick /\ deliv' = NoSweep /\ replays' = Unacked
    /\ UNCHANGED <<now, rows, made, fired, posted, owed, touched, patches>>

Manage ==
    \E id \in Ids :
        \/ \E kind \in {"once", "every"}, at \in {0, now + 1} : CreateSchedule(id, kind, at)
        \/ \E status \in Statuses : UpdateStatus(id, status)
        \/ DeleteSchedule(id)

Scheduler == TickReads \/ TickFails \/ \E id \in Ids : TriggerRow(id)

Deliverer ==
    \/ SweepReads \/ AckReads \/ AckWrites \/ SweepFails
    \/ \E id \in Ids : PostAccepted(id) \/ PostLost(id) \/ PostErrs(id) \/ PostRefused(id)

Next == Clock \/ Manage \/ Scheduler \/ Deliverer \/ Restart

Spec == Init /\ [][Next]_vars

\* Both loops run on intervals for as long as the daemon lives, and the clock
\* goes on; an agent that is not stuck takes a message in the end because the
\* faults are bounded.
FairSpec == Spec /\ WF_vars(Clock) /\ WF_vars(Scheduler) /\ WF_vars(Deliverer)

(***************************************************************************)
(* Properties.                                                             *)
(***************************************************************************)

\* No re-arm (list_due): a one-time schedule is triggered once in its life,
\* whatever statuses are set by hand while ticks and sweeps are under way.
OneTimerFiresOnce == \A id \in Ids : fired[id] > 1 => rows[id] = None \/ rows[id].kind = "every"

\* A message is posted once for each trigger, and once more for each post whose
\* acknowledgement was lost or whose row was set to triggered by hand: a crash
\* repeats the one row in flight, not the sweep.
PostedPerTrigger == \A id \in Ids : posted[id] <= fired[id] + replays[id]

\* At least once, the safety part: a trigger whose message was not posted is
\* still in the table as triggered, unless its owner set the status by hand.
OwedIsTriggered ==
    \A id \in owed \ touched : rows[id] # None /\ rows[id].status = "triggered"

\* At least once: a triggered schedule is posted, whichever agents are stuck
\* beside it, unless it is deleted or its status is set by hand.
OwedIsPosted == \A id \in Ids \ Stuck : id \in owed ~> (id \notin owed \/ id \in touched)
=============================================================================
