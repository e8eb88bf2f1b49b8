----------------------------- MODULE CronProofs -----------------------------
(***************************************************************************)
(* The timer daemon fires a one-time schedule once, posts it no more often *)
(* than it was triggered or could be repeated, and loses no trigger, for   *)
(* every set of schedules, every period and every number of faults and     *)
(* PATCH requests.                                                         *)
(***************************************************************************)
EXTENDS Cron, TLAPS

\* A one-time row has a fire time, or is among the due rows of a tick, only
\* before it fires.
FireInv ==
    \A id \in Ids :
        /\ fired[id] > 0 => id \in made
        /\ rows[id] # None /\ rows[id].kind = "once" =>
              /\ fired[id] <= 1
              /\ rows[id].next # None \/ id \in sched.due => fired[id] = 0

\* A row that will be posted (triggered, or in the sweep and not in flight) has
\* one post to spare.
PostInv ==
    \A id \in Ids :
        /\ posted[id] <= fired[id] + replays[id]
        /\ /\ (rows[id] # None /\ rows[id].status = "triggered") \/ id \in deliv.todo
           /\ deliv.id # id
           => posted[id] + 1 <= fired[id] + replays[id]

\* Until its owner sets its status, a due row is active and a row of the sweep
\* is triggered; so the tick and the sweep never hold the same row, and the row
\* in flight is not owed.
OweInv ==
    /\ deliv.id # None => deliv.id \in deliv.todo
    /\ OwedIsTriggered
    /\ deliv.id # None /\ deliv.id \notin touched => deliv.id \notin owed
    /\ \A id \in Ids \ touched :
          rows[id] # None =>
              /\ id \in sched.due => rows[id].status = "active"
              /\ id \in deliv.todo => rows[id].status = "triggered"

IndInv == TypeOK /\ FireInv /\ PostInv /\ OweInv

(***************************************************************************)
(* Types.                                                                  *)
(***************************************************************************)

\* A backoff is a number of seconds.
LEMMA BackoffType == \A n \in Nat : BackoffSeconds(n + 1) \in Nat
BY DEF BackoffSeconds

\* The empty table is well formed.
LEMMA InitType == Init => TypeOK
BY CronAssumption DEF Init, TypeOK, TableOK, SweepOK, NoTick, NoSweep

\* A row that is written keeps the table's type.
LEMMA UpdateType ==
    ASSUME TypeOK, NEW id \in Ids, NEW row, Update(id, row), UNCHANGED made,
           rows[id] # None => row \in Row /\ (row.attempts = 0 <=> row.retry = None)
    PROVE  TableOK'
BY CronAssumption DEF TypeOK, TableOK, Update

\* The sweep that is left keeps its type.
LEMMA RestType ==
    ASSUME TypeOK, NEW id \in Ids, deliv.at # "idle", RestOfSweep(id), UNCHANGED made
    PROVE  SweepOK'
<1> USE CronAssumption
<1>1. CASE deliv' = NoSweep
  BY <1>1 DEF TypeOK, SweepOK, NoSweep
<1>2. CASE deliv' = [deliv EXCEPT !.at = "sweep", !.todo = @ \ {id}, !.id = None]
  BY <1>2 DEF TypeOK, SweepOK
<1> QED BY <1>1, <1>2 DEF RestOfSweep

\* The row as a 503 backs it off.
Backed(id, row) ==
    /\ rows[id] # None
    /\ row.attempts # 0 /\ row.retry # None
    /\ row.status = rows[id].status /\ row.kind = rows[id].kind /\ row.next = rows[id].next

\* A refusal leaves the table alone or backs the row off.
LEMMA RefusedRow ==
    ASSUME TypeOK, NEW id \in Ids, PostRefused(id)
    PROVE  UNCHANGED rows \/ \E row \in Row : Backed(id, row) /\ Update(id, row)
<1> USE CronAssumption
<1> SUFFICES ASSUME ~ UNCHANGED rows PROVE \E row \in Row : Backed(id, row) /\ Update(id, row)
  OBVIOUS
<1> DEFINE until == IF rows[id] = None THEN now
                    ELSE deliv.time + BackoffSeconds(rows[id].attempts + 1)
           retry == IF until > MaxTime THEN MaxTime + 1 ELSE until
           row == [rows[id] EXCEPT !.attempts = @ + 1, !.retry = retry]
<1>1. rows[id] # None /\ Update(id, row)
  BY DEF PostRefused
<1>2. rows[id] \in Row /\ rows[id].attempts \in Nat
  BY <1>1 DEF TypeOK, TableOK, Row
<1>3. deliv.time \in Nat /\ BackoffSeconds(rows[id].attempts + 1) \in Nat
  BY <1>2, BackoffType DEF TypeOK, SweepOK
<1>4. until \in Nat
  BY <1>1, <1>3
<1> HIDE DEF until
<1>5. retry \in 0..(MaxTime + 1) /\ retry # None
  BY <1>4
<1> HIDE DEF retry
<1>6. rows[id].attempts + 1 \in Nat \ {0}
  BY <1>2
<1>7. row.attempts = rows[id].attempts + 1 /\ row.retry = retry
      /\ row.status = rows[id].status /\ row.kind = rows[id].kind /\ row.next = rows[id].next
  BY <1>2 DEF Row
<1>8. row \in Row
  BY <1>2, <1>5, <1>6 DEF Row
<1>9. Backed(id, row)
  BY <1>1, <1>5, <1>6, <1>7 DEF Backed
<1> QED BY <1>1, <1>8, <1>9

\* Every statement keeps the types.
LEMMA NextType == TypeOK /\ [Next]_vars => TypeOK'
<1> SUFFICES ASSUME TypeOK, [Next]_vars PROVE TypeOK'
  OBVIOUS
<1> USE CronAssumption
<1>1. CASE UNCHANGED vars
  BY <1>1 DEF vars, TypeOK, TableOK, SweepOK
<1>2. CASE Clock
  BY <1>2 DEF Clock, TypeOK, TableOK, SweepOK, Counts
<1>3. ASSUME NEW id \in Ids, NEW kind \in {"once", "every"}, NEW at \in {0, now + 1},
             CreateSchedule(id, kind, at)
      PROVE  TypeOK'
  <2>1. [kind |-> kind, status |-> "active", attempts |-> 0, retry |-> None,
         next |-> IF kind = "every" THEN now + Period ELSE at] \in Row
    BY DEF Row, Times, Statuses, TypeOK
  <2>2. TableOK'
    BY <1>3, <2>1 DEF CreateSchedule, TypeOK, TableOK
  <2>3. SweepOK'
    BY <1>3 DEF CreateSchedule, TypeOK, SweepOK
  <2> QED BY <1>3, <2>2, <2>3 DEF CreateSchedule, TypeOK, Counts
<1>4. ASSUME NEW id \in Ids, NEW status \in Statuses, UpdateStatus(id, status) PROVE TypeOK'
  <2>1. rows[id] \in Row /\ (rows[id].attempts = 0 <=> rows[id].retry = None)
    BY <1>4 DEF UpdateStatus, TypeOK, TableOK
  <2>2. /\ [rows[id] EXCEPT !.status = status] \in Row
        /\ [rows[id] EXCEPT !.status = status].attempts = 0
              <=> [rows[id] EXCEPT !.status = status].retry = None
    BY <2>1 DEF Row
  <2>3. TableOK'
    BY <1>4, <2>2, UpdateType DEF UpdateStatus
  <2>4. SweepOK'
    BY <1>4 DEF UpdateStatus, TypeOK, SweepOK
  <2>5. id \in made
    BY <1>4 DEF UpdateStatus, TypeOK, TableOK
  <2> QED BY <1>4, <2>3, <2>4, <2>5 DEF UpdateStatus, TypeOK
<1>5. ASSUME NEW id \in Ids, DeleteSchedule(id) PROVE TypeOK'
  BY <1>5 DEF DeleteSchedule, TypeOK, TableOK, SweepOK
<1>6. CASE TickReads
  <2>1. {id \in Ids : Due(rows[id])} \subseteq made
    BY DEF Due, TypeOK, TableOK
  <2> QED BY <1>6, <2>1 DEF TickReads, TypeOK, TableOK, SweepOK, Counts
<1>7. ASSUME NEW id \in Ids, TriggerRow(id) PROVE TypeOK'
  <2> DEFINE next == IF rows[id] # None /\ rows[id].kind = "every" THEN sched.time + Period ELSE None
             row == [rows[id] EXCEPT !.status = "triggered", !.next = next]
  <2>1. next \in Times \cup {None}
    BY DEF TypeOK, Times
  <2> HIDE DEF next
  <2>2. ASSUME rows[id] # None
        PROVE  row \in Row /\ (row.attempts = 0 <=> row.retry = None)
    <3>1. rows[id] \in Row /\ (rows[id].attempts = 0 <=> rows[id].retry = None)
      BY <2>2 DEF TypeOK, TableOK
    <3> QED BY <2>1, <3>1 DEF Row, Statuses
  <2>3. Update(id, row) /\ UNCHANGED made
    BY <1>7 DEF TriggerRow, next
  <2> HIDE DEF row
  <2>4. TableOK'
    BY <2>2, <2>3, UpdateType
  <2>5. SweepOK'
    BY <1>7 DEF TriggerRow, TypeOK, SweepOK
  <2>6. sched' \in [due : SUBSET made, time : 0..MaxTime]
    BY <1>7 DEF TriggerRow, RestOfTick, NoTick, TypeOK
  <2>7. id \in made
    BY <1>7 DEF TriggerRow, TypeOK
  <2>8. fired' \in [Ids -> Nat] /\ owed' \subseteq made
    BY <1>7, <2>7 DEF TriggerRow, TypeOK
  <2> QED BY <1>7, <2>4, <2>5, <2>6, <2>8 DEF TriggerRow, TypeOK
<1>8. CASE TickFails
  BY <1>8 DEF TickFails, TypeOK, TableOK, SweepOK, Counts, Fault, NoTick
<1>9. CASE SweepReads
  <2>1. {id \in Ids : Eligible(rows[id])} \subseteq made
    BY DEF Eligible, TypeOK, TableOK
  <2> QED BY <1>9, <2>1 DEF SweepReads, TypeOK, TableOK, SweepOK, Counts
<1>10. ASSUME NEW id \in Ids, PostAccepted(id) PROVE TypeOK'
  <2>1. id \in made /\ id # None
    BY <1>10 DEF PostAccepted, Posting, TypeOK, SweepOK
  <2>2. SweepOK'
    BY <1>10, <2>1 DEF PostAccepted, TypeOK, SweepOK
  <2>3. TableOK'
    BY <1>10 DEF PostAccepted, TypeOK, TableOK
  <2> QED BY <1>10, <2>2, <2>3 DEF PostAccepted, Post, TypeOK
<1>11. ASSUME NEW id \in Ids, PostLost(id) PROVE TypeOK'
  <2>1. SweepOK'
    BY <1>11, RestType DEF PostLost, Posting
  <2>2. TableOK'
    BY <1>11 DEF PostLost, TypeOK, TableOK
  <2> QED BY <1>11, <2>1, <2>2 DEF PostLost, Post, TypeOK, Fault
<1>12. ASSUME NEW id \in Ids, PostErrs(id) PROVE TypeOK'
  <2>1. SweepOK'
    BY <1>12, RestType DEF PostErrs, Posting
  <2>2. TableOK'
    BY <1>12 DEF PostErrs, TypeOK, TableOK
  <2> QED BY <1>12, <2>1, <2>2 DEF PostErrs, TypeOK, Fault, Counts
<1>13. ASSUME NEW id \in Ids, PostRefused(id) PROVE TypeOK'
  <2>1. /\ Posting(id) /\ RestOfSweep(id) /\ faults' \in 0..MaxFaults
        /\ UNCHANGED <<now, made, sched, Counts, touched, patches>>
    BY <1>13 DEF PostRefused, Fault, TypeOK
  <2>2. TableOK'
    <3>1. CASE UNCHANGED rows
      BY <2>1, <3>1 DEF TypeOK, TableOK
    <3>2. CASE \E row \in Row : Backed(id, row) /\ Update(id, row)
      BY <2>1, <3>2, UpdateType DEF Backed
    <3> QED BY <1>13, <3>1, <3>2, RefusedRow
  <2>3. SweepOK'
    BY <2>1, RestType DEF Posting
  <2> QED BY <2>1, <2>2, <2>3 DEF TypeOK, Counts
<1>14. CASE AckReads
  <2>1. deliv.id \in Ids /\ deliv.at # "idle"
    BY <1>14 DEF AckReads, TypeOK, SweepOK
  <2>2. SweepOK'
    <3>1. CASE RestOfSweep(deliv.id)
      BY <1>14, <2>1, <3>1, RestType DEF AckReads
    <3>2. CASE deliv' = [deliv EXCEPT !.at = "acking"]
      BY <1>14, <3>2 DEF AckReads, TypeOK, SweepOK
    <3> QED BY <1>14, <3>1, <3>2 DEF AckReads
  <2>3. TableOK'
    BY <1>14 DEF AckReads, TypeOK, TableOK
  <2> QED BY <1>14, <2>2, <2>3 DEF AckReads, TypeOK, Counts
<1>15. CASE AckWrites
  <2> DEFINE status == IF rows[deliv.id] # None /\ rows[deliv.id].kind = "every"
                       THEN "active" ELSE "completed"
             row == [rows[deliv.id] EXCEPT !.status = status, !.attempts = 0, !.retry = None]
  <2>1. deliv.id \in Ids /\ deliv.at # "idle"
    BY <1>15 DEF AckWrites, TypeOK, SweepOK
  <2>2. status \in Statuses
    BY DEF Statuses
  <2>3. /\ Update(deliv.id, row) /\ RestOfSweep(deliv.id)
        /\ UNCHANGED <<now, made, sched, Counts, touched, faults, patches>>
    BY <1>15 DEF AckWrites
  <2> HIDE DEF status
  <2>4. ASSUME rows[deliv.id] # None
        PROVE  row \in Row /\ (row.attempts = 0 <=> row.retry = None)
    <3>1. rows[deliv.id] \in Row
      BY <2>1, <2>4 DEF TypeOK, TableOK
    <3> QED BY <2>2, <3>1 DEF Row
  <2> HIDE DEF row
  <2>5. TableOK'
    BY <2>1, <2>3, <2>4, UpdateType
  <2>6. SweepOK'
    BY <2>1, <2>3, RestType
  <2> QED BY <2>3, <2>5, <2>6 DEF TypeOK, Counts
<1>16. CASE SweepFails
  BY <1>16 DEF SweepFails, TypeOK, TableOK, SweepOK, Fault, NoSweep, Unacked
<1>17. CASE Restart
  BY <1>17 DEF Restart, TypeOK, TableOK, SweepOK, Fault, NoSweep, NoTick, Unacked
<1> QED
  BY <1>1, <1>2, <1>3, <1>4, <1>5, <1>6, <1>7, <1>8, <1>9, <1>10, <1>11, <1>12, <1>13, <1>14,
     <1>15, <1>16, <1>17 DEF Next, Manage, Scheduler, Deliverer

(***************************************************************************)
(* What each kind of statement leaves of the rows, the tick and the sweep. *)
(***************************************************************************)

\* An UPDATE writes one row, if it is there.
LEMMA UpdateRows ==
    ASSUME TypeOK, NEW id \in Ids, NEW row, Update(id, row)
    PROVE  \A i \in Ids : rows'[i] = IF i = id /\ rows[id] # None THEN row ELSE rows[i]
BY DEF TypeOK, TableOK, Update

\* A sweep goes on without the row just handled.
LEMMA RestOfSweepIs ==
    ASSUME TypeOK, NEW id \in Ids, RestOfSweep(id)
    PROVE  deliv'.todo = deliv.todo \ {id} /\ deliv'.id = None
BY DEF TypeOK, SweepOK, RestOfSweep, NoSweep

\* A tick goes on without the row just triggered.
LEMMA RestOfTickIs ==
    ASSUME TypeOK, NEW id \in Ids, RestOfTick(id)
    PROVE  sched'.due = sched.due \ {id}
BY DEF TypeOK, RestOfTick, NoTick

\* A PATCH changes the status of one row.
LEMMA UpdateStatusRows ==
    ASSUME TypeOK, NEW id \in Ids, NEW status \in Statuses, UpdateStatus(id, status)
    PROVE  /\ \A i \in Ids \ {id} : rows'[i] = rows[i]
           /\ rows'[id] # None => /\ rows[id] # None /\ rows'[id].status = status
                                  /\ rows'[id].kind = rows[id].kind
                                  /\ rows'[id].next = rows[id].next
<1>1. rows[id] \in Row
  BY DEF TypeOK, TableOK, UpdateStatus
<1>2. \A i \in Ids : rows'[i] = IF i = id /\ rows[id] # None
                                THEN [rows[id] EXCEPT !.status = status] ELSE rows[i]
  BY UpdateRows DEF UpdateStatus
<1> QED BY <1>1, <1>2 DEF Row

\* A trigger sets the status of one row and leaves a one-time row no fire time.
LEMMA TriggerRowRows ==
    ASSUME TypeOK, NEW id \in Ids, TriggerRow(id)
    PROVE  /\ \A i \in Ids \ {id} : rows'[i] = rows[i]
           /\ rows'[id] # None <=> rows[id] # None
           /\ rows'[id] # None => /\ rows'[id].status = "triggered"
                                  /\ rows'[id].kind = rows[id].kind
                                  /\ rows[id].kind = "once" => rows'[id].next = None
<1> DEFINE next == IF rows[id] # None /\ rows[id].kind = "every" THEN sched.time + Period ELSE None
           row == [rows[id] EXCEPT !.status = "triggered", !.next = next]
<1>1. \A i \in Ids : rows'[i] = IF i = id /\ rows[id] # None THEN row ELSE rows[i]
  <2>1. Update(id, row)
    BY DEF TriggerRow
  <2> QED BY <2>1, UpdateRows
<1>2. TypeOK'
  BY NextType DEF Next, Scheduler
<1>3. CASE rows[id] # None
  <2>1. rows[id] \in Row
    BY <1>3 DEF TypeOK, TableOK
  <2>2. rows[id].kind = "once" => next = None
    BY <2>1
  <2>3. row.status = "triggered" /\ row.kind = rows[id].kind /\ row.next = next
    BY <2>1 DEF Row
  <2>4. row # None
    <3>1. next \in Times \cup {None}
      BY CronAssumption DEF TypeOK, Times
    <3>2. row \in Row
      BY <2>1, <3>1 DEF Row, Statuses
    <3> QED BY <3>2, CronAssumption
  <2> QED BY <1>1, <1>3, <2>2, <2>3, <2>4
<1>4. CASE rows[id] = None
  BY <1>1, <1>4
<1> QED BY <1>3, <1>4

\* A refusal changes neither the status nor the fire time of a row.
LEMMA PostRefusedRows ==
    ASSUME TypeOK, NEW id \in Ids, PostRefused(id)
    PROVE  \A i \in Ids :
              /\ rows[i] = None => rows'[i] = None
              /\ rows[i] # None => /\ rows'[i] # None
                                   /\ rows'[i].status = rows[i].status
                                   /\ rows'[i].kind = rows[i].kind /\ rows'[i].next = rows[i].next
<1>1. CASE UNCHANGED rows
  BY <1>1
<1>2. CASE \E row \in Row : Backed(id, row) /\ Update(id, row)
  <2>1. PICK row \in Row : Backed(id, row) /\ Update(id, row)
    BY <1>2
  <2>2. \A i \in Ids : rows'[i] = IF i = id THEN row ELSE rows[i]
    BY <2>1, UpdateRows DEF Backed
  <2> QED BY <2>1, <2>2, CronAssumption DEF Backed
<1> QED BY <1>1, <1>2, RefusedRow

\* An acknowledgement ends the trigger of one row and leaves its fire time.
LEMMA AckWritesRows ==
    ASSUME TypeOK, AckWrites
    PROVE  /\ deliv.id \in Ids
           /\ \A i \in Ids \ {deliv.id} : rows'[i] = rows[i]
           /\ rows'[deliv.id] # None => /\ rows[deliv.id] # None
                                        /\ rows'[deliv.id].status # "triggered"
                                        /\ rows'[deliv.id].kind = rows[deliv.id].kind
                                        /\ rows'[deliv.id].next = rows[deliv.id].next
<1> DEFINE id == deliv.id
           status == IF rows[id] # None /\ rows[id].kind = "every" THEN "active" ELSE "completed"
           row == [rows[id] EXCEPT !.status = status, !.attempts = 0, !.retry = None]
<1>1. id \in Ids
  BY DEF AckWrites, TypeOK, SweepOK
<1>2. Update(id, row)
  BY DEF AckWrites
<1>3. \A i \in Ids : rows'[i] = IF i = id /\ rows[id] # None THEN row ELSE rows[i]
  BY <1>1, <1>2, UpdateRows
<1>4. CASE rows[id] # None
  <2>1. rows[id] \in Row
    BY <1>1, <1>4 DEF TypeOK, TableOK
  <2>2. row.status = status /\ row.kind = rows[id].kind /\ row.next = rows[id].next
    BY <2>1 DEF Row
  <2>3. status # "triggered"
    OBVIOUS
  <2> HIDE DEF row, status
  <2> QED BY <1>1, <1>3, <1>4, <2>2, <2>3
<1>5. CASE rows[id] = None
  BY <1>1, <1>3, <1>5
<1> QED BY <1>4, <1>5

(***************************************************************************)
(* Firing.                                                                 *)
(***************************************************************************)

\* Nothing has fired.
LEMMA InitFire == Init => FireInv
BY CronAssumption DEF Init, FireInv

\* Every statement keeps FireInv.
LEMMA NextFire == TypeOK /\ FireInv /\ [Next]_vars => FireInv'
<1> SUFFICES ASSUME TypeOK, FireInv, [Next]_vars PROVE FireInv'
  OBVIOUS
<1> USE CronAssumption
<1>1. CASE UNCHANGED <<rows, made, fired, sched>>
  BY <1>1 DEF FireInv
<1>2. ASSUME NEW id \in Ids, NEW kind \in {"once", "every"}, NEW at \in {0, now + 1},
             CreateSchedule(id, kind, at)
      PROVE  FireInv'
  <2>1. fired[id] = 0 /\ id \notin sched.due
    BY <1>2 DEF CreateSchedule, FireInv, TypeOK
  <2>2. /\ \A i \in Ids \ {id} : rows'[i] = rows[i]
        /\ made \subseteq made' /\ UNCHANGED <<fired, sched>>
    BY <1>2 DEF CreateSchedule, TypeOK, TableOK, Counts
  <2> QED BY <2>1, <2>2 DEF FireInv
<1>3. ASSUME NEW id \in Ids, NEW status \in Statuses, UpdateStatus(id, status) PROVE FireInv'
  <2>1. UNCHANGED <<made, fired, sched>>
    BY <1>3 DEF UpdateStatus
  <2> QED BY <1>3, <2>1, UpdateStatusRows DEF FireInv
<1>4. ASSUME NEW id \in Ids, DeleteSchedule(id) PROVE FireInv'
  BY <1>4 DEF DeleteSchedule, FireInv, TypeOK, TableOK
<1>5. CASE TickReads
  <2>1. \A id \in sched'.due : rows[id] # None /\ rows[id].next # None
    BY <1>5 DEF TickReads, Due
  <2> QED BY <1>5, <2>1 DEF TickReads, FireInv, Counts
<1>6. ASSUME NEW id \in Ids, TriggerRow(id) PROVE FireInv'
  <2>1. /\ fired' = [fired EXCEPT ![id] = IF rows[id] = None THEN @ ELSE @ + 1]
        /\ fired \in [Ids -> Nat]
        /\ sched'.due = sched.due \ {id} /\ UNCHANGED made /\ id \in sched.due /\ id \in made
    BY <1>6, RestOfTickIs DEF TriggerRow, TypeOK
  <2> QED BY <1>6, <2>1, TriggerRowRows DEF FireInv
<1>7. CASE TickFails
  BY <1>7 DEF TickFails, FireInv, Counts, NoTick
<1>8. ASSUME NEW id \in Ids, PostRefused(id) PROVE FireInv'
  <2>1. UNCHANGED <<made, fired, sched>>
    BY <1>8 DEF PostRefused, Counts
  <2> QED BY <1>8, <2>1, PostRefusedRows DEF FireInv
<1>9. CASE AckWrites
  <2>1. UNCHANGED <<made, fired, sched>>
    BY <1>9 DEF AckWrites, Counts
  <2> QED BY <1>9, <2>1, AckWritesRows DEF FireInv
<1>10. CASE Restart
  BY <1>10 DEF Restart, FireInv, NoTick
<1>11. CASE Clock \/ SweepReads \/ AckReads \/ SweepFails
            \/ \E id \in Ids : PostAccepted(id) \/ PostLost(id) \/ PostErrs(id)
  BY <1>1, <1>11
     DEF Clock, SweepReads, AckReads, SweepFails, PostAccepted, PostLost, PostErrs, Counts
<1> QED
  BY <1>1, <1>2, <1>3, <1>4, <1>5, <1>6, <1>7, <1>8, <1>9, <1>10, <1>11
     DEF vars, Next, Manage, Scheduler, Deliverer

(***************************************************************************)
(* Posting.                                                                *)
(***************************************************************************)

\* Nothing is posted.
LEMMA InitPost == Init => PostInv
BY CronAssumption DEF Init, PostInv, NoSweep

\* Every statement keeps PostInv.
LEMMA NextPost == TypeOK /\ PostInv /\ [Next]_vars => PostInv'
<1> SUFFICES ASSUME TypeOK, PostInv, [Next]_vars PROVE PostInv'
  OBVIOUS
<1> USE CronAssumption
<1>0. fired \in [Ids -> Nat] /\ posted \in [Ids -> Nat] /\ replays \in [Ids -> Nat]
  BY DEF TypeOK
<1>1. CASE UNCHANGED <<rows, deliv, fired, posted, replays>>
  BY <1>1 DEF PostInv
<1>2. ASSUME NEW id \in Ids, NEW kind \in {"once", "every"}, NEW at \in {0, now + 1},
             CreateSchedule(id, kind, at)
      PROVE  PostInv'
  <2>1. /\ \A i \in Ids \ {id} : rows'[i] = rows[i]
        /\ rows'[id].status = "active" /\ UNCHANGED <<deliv, fired, posted, replays>>
    BY <1>2 DEF CreateSchedule, TypeOK, TableOK, Counts
  <2>2. id \notin deliv.todo
    BY <1>2 DEF CreateSchedule, TypeOK, SweepOK
  <2> QED BY <2>1, <2>2 DEF PostInv
<1>3. ASSUME NEW id \in Ids, NEW status \in Statuses, UpdateStatus(id, status) PROVE PostInv'
  <2>1. /\ UNCHANGED <<deliv, fired, posted>>
        /\ replays' = [replays EXCEPT ![id] = IF status = "triggered" THEN @ + 1 ELSE @]
    BY <1>3 DEF UpdateStatus
  <2> QED BY <1>0, <1>3, <2>1, UpdateStatusRows DEF PostInv
<1>4. ASSUME NEW id \in Ids, DeleteSchedule(id) PROVE PostInv'
  BY <1>4 DEF DeleteSchedule, PostInv, TypeOK, TableOK
<1>5. ASSUME NEW id \in Ids, TriggerRow(id) PROVE PostInv'
  <2>1. /\ fired' = [fired EXCEPT ![id] = IF rows[id] = None THEN @ ELSE @ + 1]
        /\ UNCHANGED <<deliv, posted, replays>>
    BY <1>5 DEF TriggerRow
  <2> QED BY <1>0, <1>5, <2>1, TriggerRowRows DEF PostInv
<1>6. CASE SweepReads
  <2>1. /\ \A id \in deliv'.todo : rows[id] # None /\ rows[id].status = "triggered"
        /\ deliv.id = None /\ deliv'.id = None
    BY <1>6 DEF SweepReads, Eligible, NoSweep
  <2> QED BY <1>6, <2>1 DEF SweepReads, PostInv, Counts
<1>7. ASSUME NEW id \in Ids, PostAccepted(id) PROVE PostInv'
  <2>1. deliv.id = None /\ id \in deliv.todo /\ deliv'.todo = deliv.todo /\ deliv'.id = id
    BY <1>7 DEF PostAccepted, Posting, TypeOK, SweepOK
  <2>2. posted' = [posted EXCEPT ![id] = @ + 1] /\ UNCHANGED <<rows, fired, replays>>
    BY <1>7 DEF PostAccepted, Post
  <2> QED BY <1>0, <2>1, <2>2 DEF PostInv
<1>8. ASSUME NEW id \in Ids, PostLost(id) PROVE PostInv'
  <2>1. deliv.id = None /\ id \in deliv.todo /\ deliv'.todo \subseteq deliv.todo
    BY <1>8, RestOfSweepIs DEF PostLost, Posting, TypeOK, SweepOK
  <2>2. /\ posted' = [posted EXCEPT ![id] = @ + 1] /\ replays' = [replays EXCEPT ![id] = @ + 1]
        /\ UNCHANGED <<rows, fired>>
    BY <1>8 DEF PostLost, Post
  <2> QED BY <1>0, <2>1, <2>2 DEF PostInv
<1>9. ASSUME NEW id \in Ids, PostErrs(id) PROVE PostInv'
  <2>1. deliv.id = None /\ deliv'.todo \subseteq deliv.todo
    BY <1>9, RestOfSweepIs DEF PostErrs, Posting, TypeOK, SweepOK
  <2> QED BY <1>9, <2>1 DEF PostErrs, PostInv, Counts
<1>10. ASSUME NEW id \in Ids, PostRefused(id) PROVE PostInv'
  <2>1. deliv.id = None /\ deliv'.todo \subseteq deliv.todo
    BY <1>10, RestOfSweepIs DEF PostRefused, Posting, TypeOK, SweepOK
  <2>2. UNCHANGED <<fired, posted, replays>>
    BY <1>10 DEF PostRefused, Counts
  <2> QED BY <1>10, <2>1, <2>2, PostRefusedRows DEF PostInv
<1>11. CASE AckReads
  <2>1. CASE deliv' = [deliv EXCEPT !.at = "acking"]
    <3>1. deliv'.id = deliv.id /\ deliv'.todo = deliv.todo
      BY <2>1 DEF TypeOK, SweepOK
    <3> QED BY <1>11, <3>1 DEF AckReads, PostInv, Counts
  <2>2. CASE /\ rows[deliv.id] = None \/ rows[deliv.id].status # "triggered"
             /\ RestOfSweep(deliv.id)
    <3>1. deliv.id \in Ids
      BY <1>11 DEF AckReads, TypeOK, SweepOK
    <3> QED BY <1>11, <2>2, <3>1, RestOfSweepIs DEF AckReads, PostInv, Counts
  <2> QED BY <1>11, <2>1, <2>2 DEF AckReads
<1>12. CASE AckWrites
  <2>1. RestOfSweep(deliv.id) /\ UNCHANGED <<fired, posted, replays>>
    BY <1>12 DEF AckWrites, Counts
  <2> QED BY <1>12, <2>1, AckWritesRows, RestOfSweepIs DEF PostInv
<1>13. CASE SweepFails \/ Restart
  <2>1. /\ deliv'.todo = {} /\ UNCHANGED <<rows, fired, posted>>
        /\ \A i \in Ids : replays'[i] = IF i = deliv.id THEN replays[i] + 1 ELSE replays[i]
    BY <1>13 DEF SweepFails, Restart, NoSweep, Unacked
  <2> QED BY <1>0, <2>1 DEF PostInv
<1>14. CASE Clock \/ TickReads \/ TickFails
  BY <1>1, <1>14 DEF Clock, TickReads, TickFails, Counts
<1> QED
  BY <1>1, <1>2, <1>3, <1>4, <1>5, <1>6, <1>7, <1>8, <1>9, <1>10, <1>11, <1>12, <1>13, <1>14
     DEF vars, Next, Manage, Scheduler, Deliverer

(***************************************************************************)
(* Owing.                                                                  *)
(***************************************************************************)

\* Nothing is owed.
LEMMA InitOwe == Init => OweInv
BY CronAssumption DEF Init, OweInv, OwedIsTriggered, NoSweep, NoTick

\* Every statement keeps OweInv.
LEMMA NextOwe == TypeOK /\ OweInv /\ [Next]_vars => OweInv'
<1> SUFFICES ASSUME TypeOK, OweInv, [Next]_vars PROVE OweInv'
  OBVIOUS
<1> USE CronAssumption
<1>0. made \subseteq Ids /\ owed \subseteq made /\ touched \subseteq made
  BY DEF TypeOK
<1>1. CASE UNCHANGED <<rows, sched, deliv, owed, touched>>
  BY <1>1 DEF OweInv, OwedIsTriggered
<1>2. ASSUME NEW id \in Ids, NEW kind \in {"once", "every"}, NEW at \in {0, now + 1},
             CreateSchedule(id, kind, at)
      PROVE  OweInv'
  <2>1. /\ \A i \in Ids \ {id} : rows'[i] = rows[i]
        /\ UNCHANGED <<sched, deliv, owed, touched>>
    BY <1>2 DEF CreateSchedule, TypeOK, TableOK, Counts
  <2>2. id \notin deliv.todo /\ id \notin sched.due /\ id \notin owed
    BY <1>2 DEF CreateSchedule, TypeOK, SweepOK
  <2> QED BY <1>0, <2>1, <2>2 DEF OweInv, OwedIsTriggered
<1>3. ASSUME NEW id \in Ids, NEW status \in Statuses, UpdateStatus(id, status) PROVE OweInv'
  <2>1. touched' = touched \cup {id} /\ UNCHANGED <<sched, deliv, owed>>
    BY <1>3 DEF UpdateStatus
  <2> QED BY <1>0, <1>3, <2>1, UpdateStatusRows DEF OweInv, OwedIsTriggered
<1>4. ASSUME NEW id \in Ids, DeleteSchedule(id) PROVE OweInv'
  BY <1>0, <1>4 DEF DeleteSchedule, OweInv, OwedIsTriggered, TypeOK, TableOK
<1>5. CASE TickReads
  <2>1. \A id \in sched'.due : rows[id].status = "active"
    BY <1>5 DEF TickReads, Due
  <2> QED BY <1>5, <2>1 DEF TickReads, OweInv, OwedIsTriggered, Counts
<1>6. ASSUME NEW id \in Ids, TriggerRow(id) PROVE OweInv'
  <2>1. /\ sched'.due = sched.due \ {id} /\ id \in sched.due
        /\ owed' = (IF rows[id] = None THEN owed ELSE owed \cup {id})
        /\ UNCHANGED <<deliv, touched>>
    BY <1>6, RestOfTickIs DEF TriggerRow
  <2>2. id \notin touched /\ rows[id] # None => id \notin deliv.todo
    BY <2>1 DEF OweInv
  <2> QED BY <1>0, <1>6, <2>1, <2>2, TriggerRowRows DEF OweInv, OwedIsTriggered
<1>7. CASE TickFails
  BY <1>7 DEF TickFails, OweInv, OwedIsTriggered, Counts, NoTick
<1>8. CASE SweepReads
  <2>1. /\ \A id \in deliv'.todo : rows[id].status = "triggered"
        /\ deliv'.id = None
    BY <1>8 DEF SweepReads, Eligible
  <2> QED BY <1>8, <2>1 DEF SweepReads, OweInv, OwedIsTriggered, Counts
<1>9. ASSUME NEW id \in Ids, PostAccepted(id) PROVE OweInv'
  <2>1. /\ id \in deliv.todo /\ deliv'.todo = deliv.todo /\ deliv'.id = id
        /\ owed' = owed \ {id} /\ UNCHANGED <<rows, sched, touched>>
    BY <1>9 DEF PostAccepted, Posting, Post, TypeOK, SweepOK
  <2> QED BY <2>1 DEF OweInv, OwedIsTriggered
<1>10. ASSUME NEW id \in Ids, PostLost(id) \/ PostErrs(id) PROVE OweInv'
  <2>1. /\ deliv'.todo \subseteq deliv.todo /\ deliv'.id = None
        /\ owed' \subseteq owed /\ UNCHANGED <<rows, sched, touched>>
    BY <1>10, RestOfSweepIs DEF PostLost, PostErrs, Post, Counts
  <2> QED BY <2>1 DEF OweInv, OwedIsTriggered
<1>11. ASSUME NEW id \in Ids, PostRefused(id) PROVE OweInv'
  <2>1. /\ deliv'.todo \subseteq deliv.todo /\ deliv'.id = None
        /\ UNCHANGED <<sched, owed, touched>>
    BY <1>11, RestOfSweepIs DEF PostRefused, Counts
  <2> QED BY <1>0, <1>11, <2>1, PostRefusedRows DEF OweInv, OwedIsTriggered
<1>12. CASE AckReads
  <2>1. CASE deliv' = [deliv EXCEPT !.at = "acking"]
    <3>1. deliv'.id = deliv.id /\ deliv'.todo = deliv.todo
      BY <2>1 DEF TypeOK, SweepOK
    <3> QED BY <1>12, <3>1 DEF AckReads, OweInv, OwedIsTriggered, Counts
  <2>2. CASE RestOfSweep(deliv.id)
    <3>1. deliv.id \in Ids
      BY <1>12 DEF AckReads, TypeOK, SweepOK
    <3> QED BY <1>12, <2>2, <3>1, RestOfSweepIs DEF AckReads, OweInv, OwedIsTriggered, Counts
  <2> QED BY <1>12, <2>1, <2>2 DEF AckReads
<1>13. CASE AckWrites
  <2>1. RestOfSweep(deliv.id) /\ UNCHANGED <<sched, owed, touched>>
    BY <1>13 DEF AckWrites, Counts
  <2>2. deliv'.todo = deliv.todo \ {deliv.id} /\ deliv'.id = None
    BY <1>13, <2>1, AckWritesRows, RestOfSweepIs
  <2>3. /\ deliv.id # None /\ deliv.id \in Ids
        /\ deliv.id \notin touched => deliv.id \notin owed
    BY <1>13 DEF AckWrites, TypeOK, SweepOK, OweInv
  <2>4. deliv.id \notin touched /\ rows[deliv.id] # None => deliv.id \notin sched.due
    BY <2>3 DEF OweInv
  <2>5. OwedIsTriggered'
    BY <1>0, <1>13, <2>1, <2>3, AckWritesRows DEF OweInv, OwedIsTriggered
  <2> QED BY <1>0, <1>13, <2>1, <2>2, <2>4, <2>5, AckWritesRows DEF OweInv
<1>14. CASE SweepFails \/ Restart
  <2>1. /\ deliv'.todo = {} /\ deliv'.id = None /\ sched'.due \subseteq sched.due
        /\ UNCHANGED <<rows, owed, touched>>
    BY <1>14 DEF SweepFails, Restart, NoSweep, NoTick
  <2> QED BY <2>1 DEF OweInv, OwedIsTriggered
<1> QED
  BY <1>1, <1>2, <1>3, <1>4, <1>5, <1>6, <1>7, <1>8, <1>9, <1>10, <1>11, <1>12, <1>13, <1>14
     DEF vars, Clock, Counts, Next, Manage, Scheduler, Deliverer

(***************************************************************************)
(* The theorems.                                                           *)
(***************************************************************************)

\* The four parts hold together.
LEMMA InvCorrect == Spec => []IndInv
<1>1. Init => IndInv
  BY InitType, InitFire, InitPost, InitOwe DEF IndInv
<1>2. IndInv /\ [Next]_vars => IndInv'
  BY NextType, NextFire, NextPost, NextOwe DEF IndInv
<1> QED BY <1>1, <1>2, PTL DEF Spec

\* The table, the tick and the sweep keep their shape: a row that was backed
\* off has a retry time and loses it with the acknowledgement, and only a row
\* between its post and its acknowledgement is in flight.
THEOREM TypeCorrect == Spec => []TypeOK
BY InvCorrect, PTL DEF IndInv

\* A one-time schedule is triggered at most once.
THEOREM OnceCorrect == Spec => []OneTimerFiresOnce
<1>1. IndInv => OneTimerFiresOnce
  <2> SUFFICES ASSUME IndInv, NEW id \in Ids, fired[id] > 1, rows[id] # None
               PROVE  rows[id].kind = "every"
    BY DEF OneTimerFiresOnce
  <2>1. fired[id] \in Nat /\ rows[id].kind \in {"once", "every"}
    BY CronAssumption DEF IndInv, TypeOK, TableOK, Row
  <2> QED BY <2>1 DEF IndInv, FireInv
<1> QED BY <1>1, InvCorrect, PTL

\* A message is posted at most once per trigger and per lost acknowledgement.
THEOREM PostedCorrect == Spec => []PostedPerTrigger
<1>1. IndInv => PostedPerTrigger
  BY DEF IndInv, PostInv, PostedPerTrigger
<1> QED BY <1>1, InvCorrect, PTL

\* A trigger that was not posted is not forgotten: the row is still triggered,
\* whatever fails and whenever the daemon restarts.
THEOREM OwedCorrect == Spec => []OwedIsTriggered
<1>1. IndInv => OwedIsTriggered
  BY DEF IndInv, OweInv
<1> QED BY <1>1, InvCorrect, PTL
=============================================================================
