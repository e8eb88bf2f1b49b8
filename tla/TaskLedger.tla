----------------------------- MODULE TaskLedger -----------------------------
(***************************************************************************)
(* The task ledger of a tagma (kallip-task): the flat tasks table, the     *)
(* append-only event trail, and the gates a verb must pass.  Every verb is *)
(* one write transaction that takes the write lock first, so a verb is one *)
(* step and a busy retry is a stutter; only close does work before its     *)
(* transaction: it packs the dossier and ingests it into the blob store.   *)
(* Titles, notes, timestamps, reasons and association keys are left out,   *)
(* and the actor of an event is kept where a gate reads it, on receipts.   *)
(* The CLI's checkpoint and annotate events are both "note" here.          *)
(***************************************************************************)
EXTENDS Naturals, Sequences, FiniteSets

CONSTANTS
    Tasks,      \* task ids
    People,     \* roles: assignees and review seats
    Closers,    \* close requests
    NoOne,      \* no assignee, no task
    MaxEvents,  \* bound: events of all trails
    MaxEdits    \* bound: changes of a dossier directory

ASSUME TaskLedgerAssumption ==
    /\ NoOne \notin People \cup Tasks
    /\ MaxEvents \in Nat /\ MaxEdits \in Nat

VARIABLES
    row,      \* the tasks table
    trail,    \* the events of each task, oldest first
    dossier,  \* version of each task's dossier directory
    closing   \* the task each close request has packed, and its archive

vars == <<row, trail, dossier, closing>>

Statuses == {"none", "queued", "in_progress", "review", "closed"}
Versions == 0..(MaxEdits + 1)  \* 0: no dossier, no archive
Row == [status : Statuses, assignee : People \cup {NoOne}, waiting : BOOLEAN,
        archived : BOOLEAN, hash : Versions]
Names == {"create", "start", "force_start", "review", "waiting_set", "waiting_clear",
          "receipt", "note", "dispatch", "gate_report", "chain_op", "forced_chain_op",
          "close", "force_close", "reopen", "force_reopen", "archive", "forced_archive"}
Event == [name : Names, who : People \cup {NoOne}, seats : SUBSET People, hash : Versions]

TypeOK ==
    /\ row \in [Tasks -> Row]
    /\ trail \in [Tasks -> Seq(Event)]
    /\ dossier \in [Tasks -> Versions]
    /\ closing \in [Closers -> [task : Tasks \cup {NoOne}, hash : Versions]]
    /\ \A t \in Tasks : (row[t].status = "none") = (trail[t] = <<>>)

Absent == [status |-> "none", assignee |-> NoOne, waiting |-> FALSE, archived |-> FALSE,
           hash |-> 0]

Init ==
    /\ row = [t \in Tasks |-> Absent]
    /\ trail = [t \in Tasks |-> <<>>]
    /\ dossier = [t \in Tasks |-> 0]
    /\ closing = [c \in Closers |-> [task |-> NoOne, hash |-> 0]]

(***************************************************************************)
(* The trail and the gates that read it.                                   *)
(***************************************************************************)

Plain(name) == [name |-> name, who |-> NoOne, seats |-> {}, hash |-> 0]

\* append_event_tx, once or more in one transaction.  An event's assignee is
\* the row's once the verb is done.
Log(t, events) ==
    /\ trail' = [trail EXCEPT ![t] = @ \o events]
    /\ MaxEvents >= Len(events)
           + Cardinality(UNION {{u} \X (1..Len(trail[u])) : u \in Tasks})

Places(t, names) == {i \in 1..Len(trail[t]) : trail[t][i].name \in names}
Highest(S) == CHOOSE n \in S : \A m \in S : m <= n

\* Id of the latest event with one of the names, 0 when there is none.
Latest(t, names) == Highest({0} \cup Places(t, names))

ChainOps == {"chain_op", "forced_chain_op"}

\* serial_gate_blocked: the assignee has another task in progress.
SerialBlocked(who, t) ==
    \E u \in Tasks \ {t} : row[u].assignee = who /\ row[u].status = "in_progress"

\* Mutant: a dispatch of an earlier review cycle opens the gate.
DispatchInAnyCycle(t) == Latest(t, {"dispatch"}) > 0

\* dispatch_in_current_cycle.
DispatchInCurrentCycle(t) == Latest(t, {"dispatch"}) > Latest(t, {"reopen"})

\* Mutant: receipts filed before the roster was dispatched count.
MissingSinceReopen(t, seats) ==
    seats \ {trail[t][i].who : i \in {j \in Places(t, {"receipt"}) : j > Latest(t, {"reopen"})}}

\* missing_receipts: seats without a receipt after the boundary, the later of
\* the latest reopen and the latest dispatch.
MissingReceipts(t, seats) ==
    seats \ {trail[t][i].who :
                i \in {j \in Places(t, {"receipt"}) : j > Latest(t, {"reopen", "dispatch"})}}

\* gate_report_current.
GateReportCurrent(t) == Latest(t, {"gate_report"}) > Latest(t, ChainOps)

(***************************************************************************)
(* The verbs.                                                              *)
(***************************************************************************)

\* create: the row and its event.  A dossier may be registered; the seats
\* registered here are one of the rosters dispatch chooses from.
Create(t, assignee, filed) ==
    /\ row[t].status = "none"
    /\ row' = [row EXCEPT ![t] = [Absent EXCEPT !.status = "queued", !.assignee = assignee]]
    /\ dossier' = [dossier EXCEPT ![t] = filed]
    /\ Log(t, <<Plain("create")>>)
    /\ UNCHANGED closing

\* Mutant: the gate asks for the named assignee, not for the picker.
StartUngatedPickup(t, actor, force) ==
    LET who == IF row[t].assignee = NoOne THEN actor ELSE row[t].assignee
        blocked == SerialBlocked(row[t].assignee, t)
    IN  /\ row[t].status = "queued"
        /\ blocked => force
        /\ row' = [row EXCEPT ![t].status = "in_progress", ![t].assignee = who]
        /\ Log(t, IF blocked THEN <<Plain("force_start"), [Plain("start") EXCEPT !.who = who]>>
                  ELSE <<[Plain("start") EXCEPT !.who = who]>>)
        /\ UNCHANGED <<dossier, closing>>

\* start: an unassigned task goes to its picker, who passes the serial gate or
\* forces it on the record.
Start(t, actor, force) ==
    LET who == IF row[t].assignee = NoOne THEN actor ELSE row[t].assignee
        blocked == SerialBlocked(who, t)
    IN  /\ row[t].status = "queued"
        /\ blocked => force
        /\ row' = [row EXCEPT ![t].status = "in_progress", ![t].assignee = who]
        /\ Log(t, IF blocked THEN <<Plain("force_start"), [Plain("start") EXCEPT !.who = who]>>
                  ELSE <<[Plain("start") EXCEPT !.who = who]>>)
        /\ UNCHANGED <<dossier, closing>>

When(b, name) == IF b THEN <<Plain(name)>> ELSE <<>>

\* checkpoint, by the assignee or anybody else: one request may move to review,
\* set or clear the waiting marker, file a receipt and leave a note, in this order.
Checkpoint(t, actor, review, waiting, receipt, note) ==
    /\ row[t].status \in {"in_progress", "review"}
    /\ review => row[t].status = "in_progress"
    /\ row' = [row EXCEPT ![t].status = IF review THEN "review" ELSE @,
                          ![t].waiting = CASE waiting = "set" -> TRUE
                                           [] waiting = "clear" -> FALSE
                                           [] OTHER -> @]
    /\ Log(t, When(review, "review")
                \o When(waiting = "set", "waiting_set") \o When(waiting = "clear", "waiting_clear")
                \o (IF receipt THEN <<[Plain("receipt") EXCEPT !.who = actor]>> ELSE <<>>)
                \o When(~receipt /\ (note \/ (~review /\ waiting = "keep")), "note"))
    /\ UNCHANGED <<dossier, closing>>

\* annotate, in any state.
Annotate(t) ==
    /\ row[t].status # "none"
    /\ Log(t, <<Plain("note")>>)
    /\ UNCHANGED <<row, dossier, closing>>

GateReport(t) ==
    /\ row[t].status # "none"
    /\ Log(t, <<Plain("gate_report")>>)
    /\ UNCHANGED <<row, dossier, closing>>

\* Mutant: a forced chain operation does not use its report up.
ChainOpForcedUncounted(t, force) ==
    /\ row[t].status # "none"
    /\ force \/ Latest(t, {"gate_report"}) > Latest(t, {"chain_op"})
    /\ Log(t, <<Plain(IF force THEN "forced_chain_op" ELSE "chain_op")>>)
    /\ UNCHANGED <<row, dossier, closing>>

\* chain_op, in any state: needs a gate report since the last one, or force.
ChainOp(t, force) ==
    /\ row[t].status # "none"
    /\ force \/ GateReportCurrent(t)
    /\ Log(t, <<Plain(IF force THEN "forced_chain_op" ELSE "chain_op")>>)
    /\ UNCHANGED <<row, dossier, closing>>

\* dispatch records the roster of the review round, the registered seats when
\* none is given; it does not touch the row.
Dispatch(t, seats) ==
    /\ row[t].status \in {"in_progress", "review"}
    /\ Log(t, <<[Plain("dispatch") EXCEPT !.seats = seats]>>)
    /\ UNCHANGED <<row, dossier, closing>>

\* close, before its transaction: the dossier as it is now is archived,
\* whatever the state of the task.
ClosePack(c, t) ==
    /\ closing[c].task = NoOne /\ row[t].status # "none"
    /\ closing' = [closing EXCEPT ![c] = [task |-> t, hash |-> dossier[t]]]
    /\ UNCHANGED <<row, trail, dossier>>

Roster(t) == trail[t][Latest(t, {"dispatch"})].seats

\* Mutant: close leaves the waiting marker.
CloseCommitWaiting(c, force) ==
    LET t == closing[c].task
    IN  /\ t # NoOne /\ row[t].status \in {"in_progress", "review"}
        /\ force \/ (DispatchInCurrentCycle(t) /\ MissingReceipts(t, Roster(t)) = {})
        /\ row' = [row EXCEPT ![t].status = "closed", ![t].hash = closing[c].hash]
        /\ Log(t, When(force, "force_close")
                    \o <<[Plain("close") EXCEPT !.hash = closing[c].hash]>>)
        /\ closing' = [closing EXCEPT ![c].task = NoOne, ![c].hash = 0]
        /\ UNCHANGED dossier

\* The transaction of close: the review was dispatched in this cycle and every
\* seat of the roster has filed its receipt, or the escape is recorded.
CloseCommit(c, force) ==
    LET t == closing[c].task
    IN  /\ t # NoOne /\ row[t].status \in {"in_progress", "review"}
        /\ force \/ (DispatchInCurrentCycle(t) /\ MissingReceipts(t, Roster(t)) = {})
        /\ row' = [row EXCEPT ![t].status = "closed", ![t].hash = closing[c].hash,
                              ![t].waiting = FALSE]
        /\ Log(t, When(force, "force_close")
                    \o <<[Plain("close") EXCEPT !.hash = closing[c].hash]>>)
        /\ closing' = [closing EXCEPT ![c].task = NoOne, ![c].hash = 0]
        /\ UNCHANGED dossier

\* A refused or abandoned close leaves its archive unreferenced.
CloseGivenUp(c) ==
    /\ closing[c].task # NoOne
    /\ closing' = [closing EXCEPT ![c].task = NoOne, ![c].hash = 0]
    /\ UNCHANGED <<row, trail, dossier>>

\* reopen passes the serial gate as start does; the archive stays.
Reopen(t, force) ==
    LET blocked == row[t].assignee # NoOne /\ SerialBlocked(row[t].assignee, t)
    IN  /\ row[t].status = "closed"
        /\ blocked => force
        /\ row' = [row EXCEPT ![t].status = "in_progress", ![t].waiting = FALSE]
        /\ Log(t, When(blocked, "force_reopen") \o <<Plain("reopen")>>)
        /\ UNCHANGED <<dossier, closing>>

\* archive_task takes the task out of the default list.
ArchiveTask(t, force) ==
    LET escaped == row[t].status # "closed"
    IN  /\ row[t].status # "none"
        /\ escaped => force
        /\ row' = [row EXCEPT ![t].archived = TRUE]
        /\ Log(t, <<Plain(IF escaped THEN "forced_archive" ELSE "archive")>>)
        /\ UNCHANGED <<dossier, closing>>

\* Somebody works in the dossier directory.
EditDossier(t) ==
    /\ dossier[t] \in 1..MaxEdits
    /\ dossier' = [dossier EXCEPT ![t] = @ + 1]
    /\ UNCHANGED <<row, trail, closing>>

Verb(t) ==
    \/ \E who \in People \cup {NoOne}, filed \in {0, 1} : Create(t, who, filed)
    \/ \E actor \in People, force \in BOOLEAN : Start(t, actor, force)
    \/ \E actor \in People, review, receipt, note \in BOOLEAN,
          waiting \in {"keep", "set", "clear"} :
          Checkpoint(t, actor, review, waiting, receipt, note)
    \/ \E seats \in SUBSET People : Dispatch(t, seats)
    \/ Annotate(t) \/ GateReport(t)
    \/ \E force \in BOOLEAN : ChainOp(t, force) \/ Reopen(t, force) \/ ArchiveTask(t, force)

Close(c) ==
    \/ \E t \in Tasks : ClosePack(c, t)
    \/ \E force \in BOOLEAN : CloseCommit(c, force)
    \/ CloseGivenUp(c)

Next ==
    \/ \E t \in Tasks : Verb(t) \/ EditDossier(t)
    \/ \E c \in Closers : Close(c)

Spec == Init /\ [][Next]_vars

(***************************************************************************)
(* Properties.                                                             *)
(***************************************************************************)

StatusAfter(name) ==
    CASE name = "create" -> "queued" [] name = "review" -> "review"
      [] name = "close" -> "closed" [] OTHER -> "in_progress"

\* The trail always derives the flat table (the claim of create's comment): the
\* status, the waiting marker, the archive partition, the picker and the
\* archive of a row are those of the last events about them.
TrailDerivesRow ==
    \A t \in Tasks : trail[t] # <<>> =>
        LET moved == Latest(t, {"create", "start", "review", "close", "reopen"})
            marked == Latest(t, {"waiting_set", "waiting_clear", "close", "reopen"})
            closed == Latest(t, {"close"})
            started == Latest(t, {"start"})
        IN  /\ row[t].status = StatusAfter(trail[t][moved].name)
            /\ row[t].waiting = (marked # 0 /\ trail[t][marked].name = "waiting_set")
            /\ row[t].archived = (Places(t, {"archive", "forced_archive"}) # {})
            /\ row[t].hash = IF closed = 0 THEN 0 ELSE trail[t][closed].hash
            /\ started # 0 => row[t].assignee = trail[t][started].who

\* The stint a task is in was entered past the serial gate, on the record.
EnteredByForce(t) ==
    LET entered == Latest(t, {"start", "reopen"})
    IN  entered > 1 /\ trail[t][entered - 1].name \in {"force_start", "force_reopen"}

\* Nobody works on two tasks unless one of them was forced and says so: through
\* pick-ups, reviews, closes and reopens in any order.
SerialUnlessForced ==
    \A t, u \in Tasks :
        (/\ t # u /\ row[t].assignee = row[u].assignee
         /\ row[t].status = "in_progress" /\ row[u].status = "in_progress")
            => EnteredByForce(t) \/ EnteredByForce(u)

\* The close of a task was forced, or it was reviewed in its last cycle: after the
\* reopen that began it a roster was dispatched, and everybody on the last
\* roster filed a receipt between that dispatch and the close.
Reviewed(t) ==
    LET end == Latest(t, {"close"})
        begun == Latest(t, {"reopen"})
        sent == {i \in Places(t, {"dispatch"}) : begun < i /\ i < end}
    IN  \/ end > 1 /\ trail[t][end - 1].name = "force_close"
        \/ /\ sent # {}
           /\ \A s \in trail[t][Highest(sent)].seats :
                 \E i \in Places(t, {"receipt"}) :
                     Highest(sent) < i /\ i < end /\ trail[t][i].who = s

\* A closed task was reviewed, or says that it was not, through any number of
\* reopens, dispatches and receipts of earlier rounds.
ClosedWasReviewed == \A t \in Tasks : row[t].status = "closed" => Reviewed(t)

\* Every chain operation on the record was announced by a gate report of its
\* own, unless it was forced; a forced one uses the report before it up.
ReportBeforeMove ==
    \A t \in Tasks : \A i \in Places(t, {"chain_op"}) :
        \E j \in Places(t, {"gate_report"}) :
            j < i /\ ~ \E k \in Places(t, ChainOps) : j < k /\ k < i
=============================================================================
