------------------------------- MODULE Shift -------------------------------
(***************************************************************************)
(* The work schedule of a tagma: its specification and evaluator           *)
(* (work_schedule), the engine that turns it into the root agent's duty    *)
(* (engine.rs), the route that edits it and the manual duty override.      *)
(*                                                                         *)
(* The engine runs passes: it notes the time, reads the stored schedule,   *)
(* brings its cycle in line with it, fires every transition that is due    *)
(* and caches the next deadline.  A pass runs at the start, after a write  *)
(* to the store (`permit`) and on the tick that finds the deadline due.    *)
(* The engine may stall for any time between two steps.                    *)
(*                                                                         *)
(* Time is counted in units of a minute.  Weekly and monthly masks are one *)
(* kind, "calendar", over a cycle of CycleDays days.  Prompts, which only  *)
(* count as an edit, are left out; so are the rounds an end interrupts,    *)
(* and the insertion of a row that the migration always seeds.  One PUT is *)
(* under way at a time and the root agent, once it is there, stays.        *)
(***************************************************************************)
EXTENDS Integers, FiniteSets, FiniteSetsExt

CONSTANTS
    Specs,       \* the specifications a PUT may carry
    Warns,       \* the pairs of warn times, <<pre, final>>
    HourLen,     \* units in an hour
    DayLen,      \* units in a day
    CycleDays,   \* days after which a calendar repeats
    ScanDays,    \* days the calendar evaluator looks ahead (70)
    Horizon,     \* stands in for the end of a shift that has none (30 days)
    None,
    MaxTime,     \* bound: the horizon of the clock
    MaxPuts,     \* bound: PUTs of the schedule
    MaxFaults    \* bound: restarts, failed passes and manual overrides

ASSUME ShiftAssumption ==
    /\ HourLen \in Nat \ {0} /\ DayLen \in Nat \ {0} /\ CycleDays \in Nat \ {0}
    /\ ScanDays \in Nat /\ ScanDays >= CycleDays /\ Horizon \in Nat \ {0}
    /\ MaxTime \in Nat /\ MaxPuts \in Nat /\ MaxFaults \in Nat
    /\ \A w \in Warns : w \in Nat \X Nat

VARIABLES
    now,        \* the wall clock
    row,        \* the stored schedule
    rooted,     \* the root agent is registered
    cycle,      \* the engine's cycle state, None when it tracks none
    deadline,   \* its cached deadline
    permit,     \* the store's Notify holds a permit
    eng,        \* the engine: where it is in which pass
    put,        \* the PUT under way
    duty,       \* the root's duty status
    held,       \* messages were buffered off duty and not announced since
    hands,      \* history: duty set by a route since the last shift change
    slept,      \* history: a start was skipped and no shift began since
    blind,      \* history: the last pass found no root
    puts, faults

edge == <<duty, held, hands, slept>>
vars == <<now, row, rooted, cycle, deadline, permit, eng, put, edge, blind, puts, faults>>

Fault == faults < MaxFaults /\ faults' = faults + 1

(***************************************************************************)
(* The specification and its evaluator.                                    *)
(***************************************************************************)

Always == [kind |-> "always"]

\* What a request can carry, before it is validated: days are a mask, a window
\* is the minutes of a day it begins and ends at.
Schedules ==
    {Always}
    \cup [kind : {"interval"}, every : Nat, length : Nat, anchor : Int]
    \cup [kind : {"calendar"}, days : SUBSET Nat, windows : SUBSET (Nat \X Nat)]

Until(w) == IF w[2] <= w[1] THEN w[2] + DayLen ELSE w[2]

ValidWindow(w) == w[1] \in 0..(DayLen - 1) /\ w[2] \in 1..DayLen /\ w[1] # w[2]
Overlap(v, w) ==
    \E off \in {0, -DayLen, DayLen} : v[1] < Until(w) - off /\ w[1] - off < Until(v)

Validate(spec) ==
    CASE spec.kind = "always" -> TRUE
      [] spec.kind = "interval" -> spec.every > 0 /\ spec.length > 0
      [] spec.kind = "calendar" ->
            /\ spec.days # {} /\ spec.days \subseteq 0..(CycleDays - 1) /\ spec.windows # {}
            /\ \A w \in spec.windows : ValidWindow(w)
            /\ \A v, w \in spec.windows : v # w => ~Overlap(v, w)

Facts(inside, start, end) == [inside |-> inside, start |-> start, end |-> end]

\* Mutant: the window is closed at its end.
EvalIntervalClosed(spec, t) ==
    LET period == spec.every * HourLen
        from == spec.anchor + ((t - spec.anchor) \div period) * period
    IN  IF t < spec.anchor THEN Facts(FALSE, spec.anchor, spec.anchor + spec.length)
        ELSE IF t <= from + spec.length THEN Facts(TRUE, from + period, from + spec.length)
        ELSE Facts(FALSE, from + period, from + period + spec.length)

EvalInterval(spec, t) ==
    LET period == spec.every * HourLen
        from == spec.anchor + ((t - spec.anchor) \div period) * period
    IN  IF t < spec.anchor THEN Facts(FALSE, spec.anchor, spec.anchor + spec.length)
        ELSE IF t < from + spec.length THEN Facts(TRUE, from + period, from + spec.length)
        ELSE Facts(FALSE, from + period, from + period + spec.length)

\* Mutant: the scan begins today.
SpansFromToday(spec, t) ==
    {<<d * DayLen + w[1], d * DayLen + Until(w)>> :
        d \in {d \in (t \div DayLen)..(t \div DayLen + ScanDays) : d % CycleDays \in spec.days},
        w \in spec.windows}

\* The windows laid on the selected days, yesterday to ScanDays ahead.
Spans(spec, t) ==
    {<<d * DayLen + w[1], d * DayLen + Until(w)>> :
        d \in {d \in (t \div DayLen - 1)..(t \div DayLen + ScanDays) : d % CycleDays \in spec.days},
        w \in spec.windows}

EvalCalendar(spec, t) ==
    LET covering == {s \in Spans(spec, t) : s[1] <= t /\ t < s[2]}
        future == {s \in Spans(spec, t) : s[1] > t}
        start == Min({s[1] : s \in future})
    IN  IF covering # {} THEN Facts(TRUE, start, Max({s[2] : s \in covering}))
        ELSE Facts(FALSE, start, Min({s[2] : s \in future}))

WindowStatus(spec, t) ==
    CASE spec.kind = "always" -> Facts(TRUE, t + Horizon, t + Horizon)
      [] spec.kind = "interval" -> EvalInterval(spec, t)
      [] spec.kind = "calendar" -> EvalCalendar(spec, t)

(***************************************************************************)
(* The cycle.                                                              *)
(***************************************************************************)

Phases == {"off", "working", "prewarned", "finalwarned"}
Cycles == [spec : Schedules, warn : Nat \X Nat, phase : Phases, end : Int, start : Int]

ASSUME ScheduleAssumption == Specs \subseteq Schedules /\ None \notin Int \cup Cycles

PreWarnTime(c) == c.end - c.warn[1]
FinalWarnTime(c) == c.end - c.warn[2]

InitCycle(r, t) ==
    LET st == WindowStatus(r.spec, t)
        phase == IF ~st.inside THEN "off"
                 ELSE IF r.spec = Always THEN "working"
                 ELSE IF t >= st.end - r.warn[2] THEN "finalwarned"
                 ELSE IF t >= st.end - r.warn[1] THEN "prewarned"
                 ELSE "working"
    IN  [spec |-> r.spec, warn |-> r.warn, phase |-> phase, end |-> st.end, start |-> st.start]

Transition(c, t) ==
    CASE c.phase = "off" /\ t >= c.start -> "start"
      [] c.phase = "working" /\ t >= PreWarnTime(c) /\ c.spec # Always -> "prewarn"
      [] c.phase = "prewarned" /\ t >= FinalWarnTime(c) -> "finalwarn"
      [] c.phase = "finalwarned" /\ t >= c.end -> "end"
      [] OTHER -> "none"

NextDeadline(c) ==
    IF c = None THEN None
    ELSE CASE c.phase = "off" -> c.start
           [] c.phase = "working" -> PreWarnTime(c)
           [] c.phase = "prewarned" -> FinalWarnTime(c)
           [] c.phase = "finalwarned" -> c.end

Due == deadline # None /\ now >= deadline

(***************************************************************************)
(* Initial state: the seeded row, and an engine about to start.            *)
(***************************************************************************)

Parked == [at |-> "parked", time |-> 0, row |-> None]
NoPut == [at |-> "idle", row |-> None, release |-> FALSE]

\* No row, and no cycle, goes past Validate.
Valid(r) == Validate(r.spec) /\ r.warn[1] >= r.warn[2]
Rows == {r \in [spec : Schedules, warn : Nat \X Nat, status : {"active", "paused"}] : Valid(r)}

ValidCycles == {c \in Cycles : Valid(c)}

\* A pass that began by time t, and a PUT under way.
Passes(t) ==
    [at : {"parked", "begin"}, time : 0..t, row : {None}]
    \cup [at : {"sync", "drain"}, time : 0..t, row : Rows]
Requests == {NoPut} \cup [at : {"read", "saved"}, row : Rows, release : BOOLEAN]

TypeOK ==
    /\ now \in 0..MaxTime /\ row \in Rows
    /\ cycle \in ValidCycles \cup {None} /\ deadline \in Int \cup {None}
    /\ eng \in Passes(now) /\ put \in Requests
    /\ rooted \in BOOLEAN /\ permit \in BOOLEAN /\ duty \in {"on", "off"}
    /\ held \in BOOLEAN /\ hands \in BOOLEAN /\ slept \in BOOLEAN /\ blind \in BOOLEAN
    /\ puts \in 0..MaxPuts /\ faults \in 0..MaxFaults

Init ==
    /\ now = 0 /\ puts = 0 /\ faults = 0 /\ deadline = None
    /\ row \in [spec : {Always}, warn : {w \in Warns : w[1] >= w[2]}, status : {"active"}]
    /\ rooted = FALSE /\ cycle = None /\ permit = FALSE /\ put = NoPut
    /\ eng = [at |-> "begin", time |-> 0, row |-> None]
    /\ duty = "on" /\ held = FALSE /\ hands = FALSE /\ slept = FALSE /\ blind = FALSE

Clock ==
    /\ now < MaxTime /\ now' = now + 1
    /\ UNCHANGED <<row, rooted, cycle, deadline, permit, eng, put, edge, blind, puts, faults>>

(***************************************************************************)
(* The duty writes.                                                        *)
(***************************************************************************)

\* execute_start: on duty, with a wake prompt that announces what was held.
\* Mutant: a start that does not notify.
ExecuteStartQuietly == duty' = "on" /\ hands' = FALSE /\ slept' = FALSE /\ UNCHANGED held
ExecuteStart == duty' = "on" /\ held' = FALSE /\ hands' = FALSE /\ slept' = FALSE

\* execute_end, and the off-duty branch of a recovery.
ExecuteEnd == duty' = "off" /\ hands' = FALSE /\ slept' = FALSE /\ UNCHANGED held

\* A warning goes the way of every prompt: off duty it is buffered.
ExecuteWarn == held' = (held \/ duty = "off") /\ UNCHANGED <<duty, hands, slept>>

(***************************************************************************)
(* The engine.                                                             *)
(***************************************************************************)

PassBegins ==
    /\ eng.at = "parked" /\ (permit \/ Due)
    /\ permit' = FALSE
    /\ eng' = [at |-> "begin", time |-> now, row |-> None]
    /\ UNCHANGED <<now, row, rooted, cycle, deadline, put, edge, blind, puts, faults>>

\* The root is looked up, then the row is read; without a root the cycles go
\* and the engine parks without a deadline.
PassReads ==
    /\ eng.at = "begin"
    /\ blind' = ~rooted
    /\ IF rooted THEN eng' = [eng EXCEPT !.at = "sync", !.row = row] /\ UNCHANGED <<cycle, deadline>>
       ELSE eng' = Parked /\ cycle' = None /\ deadline' = None
    /\ UNCHANGED <<now, row, rooted, permit, put, edge, puts, faults>>

\* A failing read: run_recompute asks for another pass, within the minute.
PassFails ==
    /\ eng.at = "begin" /\ Fault
    /\ eng' = Parked /\ deadline' = now
    /\ UNCHANGED <<now, row, rooted, cycle, permit, put, edge, blind, puts>>

Edited(c, r) == c.spec # r.spec \/ c.warn # r.warn

\* Mutant: an edit keeps the cycle of the old specification.
SyncKeeps ==
    LET r == eng.row
        new == InitCycle(r, eng.time)
    IN  /\ eng.at = "sync"
        /\ eng' = [eng EXCEPT !.at = "drain"]
        /\ IF r.status = "paused" THEN cycle' = None /\ UNCHANGED edge
           ELSE IF cycle # None THEN UNCHANGED <<cycle, edge>>
           ELSE cycle' = new /\ IF new.phase = "off" THEN ExecuteEnd ELSE ExecuteStart
        /\ UNCHANGED <<now, row, rooted, deadline, permit, put, blind, puts, faults>>

\* A paused schedule is dropped, a new one set up by its window, an edited one
\* set up again: with a wake prompt only where the edit brings the agent on duty.
Sync ==
    LET r == eng.row
        new == InitCycle(r, eng.time)
    IN  /\ eng.at = "sync"
        /\ eng' = [eng EXCEPT !.at = "drain"]
        /\ IF r.status = "paused" THEN cycle' = None /\ UNCHANGED edge
           ELSE IF cycle # None /\ ~Edited(cycle, r) THEN UNCHANGED <<cycle, edge>>
           ELSE /\ cycle' = new
                /\ IF new.phase = "off" /\ cycle = None THEN ExecuteEnd
                   ELSE IF new.phase # "off" /\ (cycle = None \/ cycle.phase = "off") THEN ExecuteStart
                   ELSE /\ duty' = IF new.phase = "off" THEN "off" ELSE "on"
                        /\ slept' = FALSE /\ UNCHANGED <<held, hands>>
        /\ UNCHANGED <<now, row, rooted, deadline, permit, put, blind, puts, faults>>

Draining(transition) ==
    /\ eng.at = "drain" /\ cycle # None /\ Transition(cycle, eng.time) = transition
    /\ UNCHANGED <<now, row, rooted, deadline, permit, eng, put, blind, puts, faults>>

\* A start whose window is over already is skipped.
FireStart ==
    LET opened == WindowStatus(cycle.spec, cycle.start)
    IN  /\ Draining("start")
        /\ IF eng.time >= opened.end
           THEN /\ cycle' = [cycle EXCEPT !.start = WindowStatus(cycle.spec, eng.time).start]
                /\ duty' = "off" /\ slept' = TRUE /\ hands' = FALSE /\ UNCHANGED held
           ELSE cycle' = [cycle EXCEPT !.phase = "working", !.end = opened.end] /\ ExecuteStart

\* A warning that is late is not sent.
FirePreWarn ==
    /\ Draining("prewarn")
    /\ cycle' = [cycle EXCEPT !.phase = "prewarned"]
    /\ IF eng.time < cycle.end THEN ExecuteWarn ELSE UNCHANGED edge

FireFinalWarn ==
    /\ Draining("finalwarn")
    /\ cycle' = [cycle EXCEPT !.phase = "finalwarned"]
    /\ IF eng.time < cycle.end THEN ExecuteWarn ELSE UNCHANGED edge

\* An end that another window covers is not one.
FireEnd ==
    LET st == WindowStatus(cycle.spec, eng.time)
    IN  /\ Draining("end")
        /\ IF st.inside THEN cycle' = [cycle EXCEPT !.end = st.end, !.phase = "working"] /\ UNCHANGED edge
           ELSE cycle' = [cycle EXCEPT !.phase = "off", !.start = st.start] /\ ExecuteEnd

PassEnds ==
    /\ eng.at = "drain"
    /\ cycle # None => Transition(cycle, eng.time) = "none"
    /\ deadline' = NextDeadline(cycle) /\ eng' = Parked
    /\ UNCHANGED <<now, row, rooted, cycle, permit, put, edge, blind, puts, faults>>

(***************************************************************************)
(* The routes.                                                             *)
(***************************************************************************)

\* A changed rhythm or anchor restarts the rotation in the current hour, at
\* the minute asked for; the verbatim echo keeps the anchor.
Anchored(spec) ==
    IF spec.kind # "interval" \/ spec = row.spec THEN spec
    ELSE [spec EXCEPT !.anchor = (now \div HourLen) * HourLen + (@ % HourLen)]

\* Mutant: the specification is not validated.
PutReadsAny(spec, warn, status) ==
    /\ put = NoPut /\ rooted /\ puts < MaxPuts /\ warn[1] >= warn[2]
    /\ puts' = puts + 1
    /\ put' = [at |-> "read", release |-> row.status = "active" /\ status = "paused",
               row |-> [spec |-> Anchored(spec), warn |-> warn, status |-> status]]
    /\ UNCHANGED <<now, row, rooted, cycle, deadline, permit, eng, edge, blind, faults>>

PutReads(spec, warn, status) ==
    /\ put = NoPut /\ rooted /\ puts < MaxPuts
    /\ Validate(spec) /\ warn[1] >= warn[2]
    /\ puts' = puts + 1
    /\ put' = [at |-> "read", release |-> row.status = "active" /\ status = "paused",
               row |-> [spec |-> Anchored(spec), warn |-> warn, status |-> status]]
    /\ UNCHANGED <<now, row, rooted, cycle, deadline, permit, eng, edge, blind, faults>>

PutSaves ==
    /\ put.at = "read"
    /\ row' = put.row /\ permit' = TRUE
    /\ put' = IF put.release THEN [put EXCEPT !.at = "saved"] ELSE NoPut
    /\ UNCHANGED <<now, rooted, cycle, deadline, eng, edge, blind, puts, faults>>

\* Pausing an active schedule releases the root, without a word to the agent.
PutReleases ==
    /\ put.at = "saved" /\ put' = NoPut
    /\ duty' = "on" /\ hands' = TRUE
    /\ UNCHANGED <<now, row, rooted, cycle, deadline, permit, eng, held, slept, blind, puts, faults>>

\* The manual override, which announces what was held.
UpdateDuty(status) ==
    /\ rooted /\ Fault
    /\ duty' = status /\ hands' = TRUE /\ held' = (held /\ status = "off")
    /\ UNCHANGED <<now, row, rooted, cycle, deadline, permit, eng, put, slept, blind, puts>>

\* A message to an agent off duty.
Buffer ==
    /\ rooted /\ duty = "off" /\ ~held /\ held' = TRUE
    /\ UNCHANGED <<now, row, rooted, cycle, deadline, permit, eng, put, duty, hands, slept, blind,
                   puts, faults>>

\* The boot registers the root after it has spawned the engine.
RootRestored ==
    /\ ~rooted /\ rooted' = TRUE
    /\ UNCHANGED <<now, row, cycle, deadline, permit, eng, put, edge, blind, puts, faults>>

\* Duty, cycles and permits are in memory; the row and the inbox are not.
Restart ==
    /\ rooted /\ Fault
    /\ rooted' = FALSE /\ cycle' = None /\ deadline' = None /\ permit' = FALSE /\ put' = NoPut
    /\ eng' = [at |-> "begin", time |-> now, row |-> None]
    /\ duty' = "on" /\ hands' = FALSE /\ slept' = FALSE /\ blind' = FALSE
    /\ UNCHANGED <<now, row, held, puts>>

Engine ==
    \/ PassBegins \/ PassReads \/ PassFails \/ Sync
    \/ FireStart \/ FirePreWarn \/ FireFinalWarn \/ FireEnd \/ PassEnds

Routes ==
    \/ \E spec \in Specs \cup {row.spec}, warn \in Warns, status \in {"active", "paused"} :
           PutReads(spec, warn, status)
    \/ PutSaves \/ PutReleases
    \/ \E status \in {"on", "off"} : UpdateDuty(status)

Next == Clock \/ Engine \/ Routes \/ Buffer \/ RootRestored \/ Restart

Spec == Init /\ [][Next]_vars

\* The engine task runs whenever it can, the handlers finish what they began,
\* the boot goes on and so does time.
FairSpec ==
    /\ Spec
    /\ WF_vars(Engine) /\ WF_vars(PutSaves \/ PutReleases) /\ WF_vars(RootRestored) /\ WF_vars(Clock)

(***************************************************************************)
(* Properties.                                                             *)
(***************************************************************************)

\* The agent is to be on duty at time t, by the clock and the calendar alone.
OnAt(spec, t) ==
    CASE spec.kind = "always" -> TRUE
      [] spec.kind = "interval" ->
            \E from \in spec.anchor..t :
                (from - spec.anchor) % (spec.every * HourLen) = 0 /\ t < from + spec.length
      [] spec.kind = "calendar" ->
            LET minute == t % DayLen
                Selected(d) == d % CycleDays \in spec.days
            IN  \E w \in spec.windows :
                    \/ w[1] <= minute /\ (w[2] <= w[1] \/ minute < w[2]) /\ Selected(t \div DayLen)
                    \/ w[2] <= w[1] /\ minute < w[2] /\ Selected(t \div DayLen - 1)

\* window_status is exact: inside means on duty now and up to the end it gives,
\* outside means off duty up to the start it gives and on duty from there on.
EvalIsExact ==
    LET st == WindowStatus(row.spec, now)
    IN  /\ st.inside = OnAt(row.spec, now)
        /\ st.end > now /\ st.start > now
        /\ \A t \in (IF st.inside THEN now ELSE st.start)..(st.end - 1) : OnAt(row.spec, t)
        /\ ~st.inside => \A t \in now..(st.start - 1) : ~OnAt(row.spec, t)

\* Nothing is left to do for the engine, and the schedule is on.
Idle == eng.at = "parked" /\ ~permit /\ put = NoPut
Followed == Idle /\ ~Due /\ row.status = "active" /\ ~blind

\* Between passes duty follows the schedule, whatever was edited, paused,
\* restarted or slept through, unless a route set duty since the last change of
\* shift, or the engine slept through a whole window and skipped its start, or
\* its last pass found no root.
DutyFollowsWindow ==
    Followed /\ ~hands /\ ~slept => (duty = "on") = OnAt(row.spec, now)

\* Messages held while off duty are announced when the engine brings the agent
\* on duty (execute_start): none waits beside an agent on duty.
HeldIsOffDuty == Followed /\ ~hands /\ held => duty = "off"

\* The drain of a pass ends and the engine catches up, however late it is.  The
\* deadline of an `always` schedule is its first horizon, which no pass moves:
\* from there on every tick is due.
CatchesUp == []<>(Idle /\ (Due => cycle # None /\ cycle.spec = Always))
=============================================================================
