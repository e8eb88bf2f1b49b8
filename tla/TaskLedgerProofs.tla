-------------------------- MODULE TaskLedgerProofs --------------------------
(***************************************************************************)
(* The gates of the task ledger hold for every number of tasks, people,    *)
(* closers and events.                                                     *)
(***************************************************************************)
EXTENDS TaskLedger, SequenceTheorems, WellFoundedInduction, TLAPS

\* A task that was started has an assignee.
Assigned ==
    \A t \in Tasks :
        row[t].status \in {"in_progress", "review", "closed"} => row[t].assignee # NoOne

\* A closed task has its close on the record.
Recorded == \A t \in Tasks : row[t].status = "closed" => Places(t, {"close"}) # {}

IndInv ==
    /\ TypeOK /\ Assigned /\ Recorded
    /\ ReportBeforeMove /\ SerialUnlessForced /\ ClosedWasReviewed

Named(names) == {e \in Event : e.name \in names}

(***************************************************************************)
(* The latest event with a name.                                           *)
(***************************************************************************)

\* A bounded non-empty set of numbers has a greatest member.
LEMMA HighestExists ==
    ASSUME NEW n \in Nat, NEW S \in SUBSET (0..n), S # {}
    PROVE  Highest(S) \in S /\ \A m \in S : m <= Highest(S)
<1> DEFINE T == {n - m : m \in S}
<1>0. \A m \in S : m \in 0..n /\ n - m \in Nat
  OBVIOUS
<1>1. T \subseteq Nat /\ T # {}
  BY <1>0
<1>2. PICK x \in T : \A y \in T : ~ (<<y, x>> \in OpToRel(<, Nat))
  BY <1>1, WFMin, NatLessThanWellFounded
<1>3. \A y \in T : ~ (y < x)
  BY <1>1, <1>2 DEF OpToRel
<1>4. PICK k \in S : x = n - k
  BY <1>2
<1>5. \A m \in S : m <= k
  <2>1. ASSUME NEW m \in S PROVE m <= k
    <3>1. ~ (n - m < n - k)
      BY <1>3, <1>4
    <3>2. m \in Int /\ k \in Int /\ n \in Int
      BY <1>0
    <3> HIDE DEF T
    <3> QED BY <3>1, <3>2
  <2> QED BY <2>1
<1> QED BY <1>5 DEF Highest

\* Latest is the greatest place of an event with one of the names, if there is one.
LEMMA LatestIs ==
    ASSUME TypeOK, NEW t \in Tasks, NEW names
    PROVE  /\ Latest(t, names) \in {0} \cup Places(t, names)
           /\ \A i \in Places(t, names) : i <= Latest(t, names)
           /\ Latest(t, names) \in 0..Len(trail[t])
           /\ Places(t, names) # {} => Latest(t, names) \in Places(t, names)
<1>1. Len(trail[t]) \in Nat
  BY DEF TypeOK
<1> DEFINE S == {0} \cup Places(t, names)
<1>2. S \in SUBSET (0..Len(trail[t])) /\ S # {}
  BY <1>1 DEF Places
<1>3. Highest(S) \in S /\ \A m \in S : m <= Highest(S)
  BY <1>1, <1>2, HighestExists
<1>4. \A i \in Places(t, names) : i > 0
  BY <1>1 DEF Places
<1>5. Latest(t, names) = Highest(S)
  BY DEF Latest
<1> HIDE DEF S
<1>6. Latest(t, names) \in S /\ Latest(t, names) \in 0..Len(trail[t])
  BY <1>2, <1>3, <1>5
<1>7. \A m \in S : m <= Latest(t, names)
  BY <1>3, <1>5
<1>8. ASSUME NEW i \in Places(t, names) PROVE Latest(t, names) \in Places(t, names)
  <2>1. i > 0 /\ i <= Latest(t, names)
    BY <1>4, <1>7 DEF S
  <2>2. Latest(t, names) # 0
    BY <1>1, <1>6, <2>1 DEF Places
  <2> QED BY <1>6, <2>2 DEF S
<1> QED BY <1>6, <1>7, <1>8 DEF S

\* A number that is as Latest has to be is Latest.
LEMMA LatestUnique ==
    ASSUME TypeOK, NEW t \in Tasks, NEW names, NEW k \in {0} \cup Places(t, names),
           \A i \in Places(t, names) : i <= k
    PROVE  Latest(t, names) = k
<1>1. Latest(t, names) \in {0} \cup Places(t, names) /\ \A i \in Places(t, names) : i <= Latest(t, names)
  BY LatestIs
<1>2. Len(trail[t]) \in Nat
  BY DEF TypeOK
<1>3. \A i \in Places(t, names) : i \in Nat /\ i > 0
  BY <1>2 DEF Places
<1> QED BY <1>1, <1>3

(***************************************************************************)
(* Logging.                                                                *)
(***************************************************************************)

\* What an event is.
LEMMA PlainType ==
    ASSUME NEW name \in Names
    PROVE  /\ Plain(name) \in Event /\ Plain(name).name = name
           /\ \A who \in People \cup {NoOne} :
                 /\ [Plain(name) EXCEPT !.who = who] \in Event
                 /\ [Plain(name) EXCEPT !.who = who].name = name
           /\ \A seats \in SUBSET People :
                 /\ [Plain(name) EXCEPT !.seats = seats] \in Event
                 /\ [Plain(name) EXCEPT !.seats = seats].name = name
           /\ \A h \in Versions :
                 /\ [Plain(name) EXCEPT !.hash = h] \in Event
                 /\ [Plain(name) EXCEPT !.hash = h].name = name
<1>1. 0 \in Versions
  BY TaskLedgerAssumption DEF Versions
<1> QED BY <1>1 DEF Plain, Event

\* The same, of a set of names.
LEMMA NamedType ==
    ASSUME NEW names, NEW name \in Names, name \in names
    PROVE  /\ Plain(name) \in Named(names)
           /\ \A who \in People \cup {NoOne} : [Plain(name) EXCEPT !.who = who] \in Named(names)
           /\ \A seats \in SUBSET People : [Plain(name) EXCEPT !.seats = seats] \in Named(names)
           /\ \A h \in Versions : [Plain(name) EXCEPT !.hash = h] \in Named(names)
BY PlainType DEF Named

\* An optional event has its name.
LEMMA WhenType ==
    ASSUME NEW names, NEW name \in Names \cap names, NEW b \in BOOLEAN
    PROVE  When(b, name) \in Seq(Named(names))
<1>1. Plain(name) \in Named(names)
  BY PlainType DEF Named
<1> QED BY <1>1 DEF When

\* A logged verb extends one trail and leaves the others alone.
LEMMA LogIs ==
    ASSUME TypeOK, NEW t \in Tasks, NEW names, NEW events \in Seq(Named(names)), Log(t, events)
    PROVE  /\ trail' \in [Tasks -> Seq(Event)]
           /\ \A u \in Tasks \ {t} : trail'[u] = trail[u]
           /\ Len(trail[t]) \in Nat /\ Len(events) \in Nat
           /\ Len(trail'[t]) = Len(trail[t]) + Len(events)
           /\ \A i \in 1..Len(trail[t]) : trail'[t][i] = trail[t][i]
           /\ \A i \in 1..Len(events) : trail'[t][Len(trail[t]) + i] = events[i]
           /\ \A i \in (Len(trail[t]) + 1)..Len(trail'[t]) :
                 trail'[t][i] = events[i - Len(trail[t])] /\ trail'[t][i].name \in names
<1>1. Named(names) \subseteq Event
  BY DEF Named
<1>2. events \in Seq(Event) /\ trail[t] \in Seq(Event)
  BY <1>1, SeqMonotonic DEF TypeOK
<1>3. trail'[t] = trail[t] \o events /\ \A u \in Tasks \ {t} : trail'[u] = trail[u]
  BY DEF Log, TypeOK
<1>4. /\ trail[t] \o events \in Seq(Event)
      /\ Len(trail[t] \o events) = Len(trail[t]) + Len(events)
      /\ \A i \in 1 .. Len(trail[t]) + Len(events) : (trail[t] \o events)[i] =
            IF i <= Len(trail[t]) THEN trail[t][i] ELSE events[i - Len(trail[t])]
  BY <1>2, ConcatProperties
<1>5. trail' \in [Tasks -> Seq(Event)]
  BY <1>4 DEF Log, TypeOK
<1>6. Len(trail[t]) \in Nat /\ Len(events) \in Nat
  BY <1>2
<1>7. \A j \in 1..Len(events) : events[j] \in Named(names)
  BY ElementOfSeq
<1>8. \A i \in 1..Len(trail[t]) : trail'[t][i] = trail[t][i]
  BY <1>3, <1>4, <1>6
<1>9. \A i \in 1..Len(events) : trail'[t][Len(trail[t]) + i] = events[i]
  BY <1>3, <1>4, <1>6
<1>10. ASSUME NEW i \in (Len(trail[t]) + 1)..Len(trail'[t])
       PROVE  trail'[t][i] = events[i - Len(trail[t])] /\ trail'[t][i].name \in names
  <2>1. i - Len(trail[t]) \in 1..Len(events) /\ i \in 1..(Len(trail[t]) + Len(events))
        /\ ~(i <= Len(trail[t]))
    BY <1>3, <1>4, <1>6
  <2>2. trail'[t][i] = events[i - Len(trail[t])]
    BY <1>3, <1>4, <2>1
  <2> QED BY <1>7, <2>1, <2>2 DEF Named
<1> QED BY <1>3, <1>4, <1>5, <1>6, <1>8, <1>9, <1>10

\* Events with other names leave the places, and so the latest, of an event.
LEMMA LatestKept ==
    ASSUME TypeOK, NEW t \in Tasks, NEW names, NEW events \in Seq(Named(names)), Log(t, events),
           NEW u \in Tasks, NEW ns, ns \cap names = {}
    PROVE  Places(u, ns)' = Places(u, ns) /\ Latest(u, ns)' = Latest(u, ns)
<1>1. CASE u # t
  <2>1. trail'[u] = trail[u]
    BY <1>1, LogIs
  <2> QED BY <2>1 DEF Places, Latest
<1>2. CASE u = t
  <2>1. /\ Len(trail[t]) \in Nat /\ Len(trail'[t]) \in Nat /\ Len(trail[t]) <= Len(trail'[t])
        /\ \A i \in 1..Len(trail[t]) : trail'[t][i] = trail[t][i]
        /\ \A i \in (Len(trail[t]) + 1)..Len(trail'[t]) : trail'[t][i].name \notin ns
    BY LogIs
  <2>2. Places(t, ns)' = {i \in 1..Len(trail'[t]) : trail'[t][i].name \in ns}
    BY DEF Places
  <2>3. Places(t, ns)' = Places(t, ns)
    BY <2>1, <2>2 DEF Places
  <2> QED BY <1>2, <2>3 DEF Latest
<1> QED BY <1>1, <1>2

\* An event that ends a verb's log is the latest of its name.
LEMMA LatestNew ==
    ASSUME TypeOK, NEW t \in Tasks, NEW names, NEW events \in Seq(Named(names)), Log(t, events),
           events # <<>>, NEW ns, events[Len(events)].name \in ns
    PROVE  /\ Latest(t, ns)' = Len(trail[t]) + Len(events)
           /\ Len(trail[t]) + Len(events) \in Places(t, ns)'
<1> DEFINE n == Len(trail[t]) + Len(events)
           S == {0} \cup {i \in 1..n : trail'[t][i].name \in ns}
<1>1. /\ Len(trail[t]) \in Nat /\ Len(events) \in Nat /\ Len(trail'[t]) = n
      /\ \A i \in 1..Len(events) : trail'[t][Len(trail[t]) + i] = events[i]
  BY LogIs
<1>2. Len(events) > 0
  BY <1>1, EmptySeq
<1>3. n \in Nat /\ n \in 1..n /\ trail'[t][n].name \in ns
  BY <1>1, <1>2
<1>4. S \in SUBSET (0..n) /\ n \in S
  BY <1>3
<1>5. Latest(t, ns)' = Highest(S) /\ Places(t, ns)' = {i \in 1..n : trail'[t][i].name \in ns}
  BY <1>1 DEF Latest, Places
<1>6. Highest(S) \in S /\ \A m \in S : m <= Highest(S)
  BY <1>3, <1>4, HighestExists
<1>7. Highest(S) = n
  BY <1>3, <1>4, <1>6
<1> QED BY <1>3, <1>5, <1>7

\* Logging on a task that exists keeps the trails well formed.
LEMMA LogType ==
    ASSUME TypeOK, NEW t \in Tasks, NEW names, NEW events \in Seq(Named(names)), Log(t, events),
           row' \in [Tasks -> Row],
           \A u \in Tasks : (row'[u].status = "none") = (row[u].status = "none"),
           row[t].status # "none"
    PROVE  /\ trail' \in [Tasks -> Seq(Event)]
           /\ \A u \in Tasks : (row'[u].status = "none") = (trail'[u] = <<>>)
<1>1. /\ trail' \in [Tasks -> Seq(Event)] /\ Len(trail[t]) \in Nat /\ Len(events) \in Nat
      /\ Len(trail'[t]) = Len(trail[t]) + Len(events)
      /\ \A u \in Tasks \ {t} : trail'[u] = trail[u]
  BY LogIs
<1>2. trail[t] \in Seq(Event) /\ trail[t] # <<>>
  BY DEF TypeOK
<1>3. Len(trail[t]) > 0
  BY <1>2, EmptySeq
<1>4. trail'[t] # <<>>
  <2>1. Len(trail'[t]) > 0
    BY <1>1, <1>3
  <2> QED BY <2>1, EmptySeq
<1> QED BY <1>1, <1>4 DEF TypeOK

(***************************************************************************)
(* What each verb logs.                                                    *)
(***************************************************************************)

\* start.
LEMMA StartLogs ==
    ASSUME TypeOK, NEW t \in Tasks, NEW actor \in People, NEW force \in BOOLEAN,
           Start(t, actor, force)
    PROVE  \E who \in People, events \in Seq(Named({"start", "force_start"})) :
             /\ row[t].status = "queued" /\ Log(t, events) /\ UNCHANGED <<dossier, closing>>
             /\ row' = [row EXCEPT ![t].status = "in_progress", ![t].assignee = who]
             /\ \/ ~SerialBlocked(who, t) /\ Len(events) = 1
                \/ Len(events) = 2 /\ events[1].name = "force_start"
             /\ events # <<>> /\ events[Len(events)].name = "start"
<1> DEFINE who == IF row[t].assignee = NoOne THEN actor ELSE row[t].assignee
           names == {"start", "force_start"}
           last == [Plain("start") EXCEPT !.who = who]
           events == IF SerialBlocked(who, t) THEN <<Plain("force_start"), last>> ELSE <<last>>
<1>1. who \in People
  BY DEF TypeOK, Row
<1>2. /\ row[t].status = "queued" /\ Log(t, events) /\ UNCHANGED <<dossier, closing>>
      /\ row' = [row EXCEPT ![t].status = "in_progress", ![t].assignee = who]
  BY DEF Start
<1> HIDE DEF who
<1>3. last \in Named(names) /\ last.name = "start"
      /\ Plain("force_start") \in Named(names) /\ Plain("force_start").name = "force_start"
  <2>1. "start" \in Names /\ "force_start" \in Names /\ who \in People \cup {NoOne}
    BY <1>1 DEF Names
  <2>2. last \in Named(names) /\ last.name = "start"
    BY <2>1, NamedType, PlainType
  <2>3. Plain("force_start") \in Named(names) /\ Plain("force_start").name = "force_start"
    BY <2>1, NamedType, PlainType
  <2> QED BY <2>2, <2>3
<1> HIDE DEF last, names
<1>4. events \in Seq(Named(names)) /\ events # <<>> /\ events[Len(events)].name = "start"
      /\ \/ ~SerialBlocked(who, t) /\ Len(events) = 1
         \/ Len(events) = 2 /\ events[1].name = "force_start"
  <2>1. CASE SerialBlocked(who, t)
    <3>1. events = <<Plain("force_start"), last>>
      BY <2>1
    <3> HIDE DEF events
    <3> QED BY <1>3, <3>1
  <2>2. CASE ~SerialBlocked(who, t)
    <3>1. events = <<last>>
      BY <2>2
    <3> HIDE DEF events
    <3> QED BY <1>3, <2>2, <3>1
  <2> QED BY <2>1, <2>2
<1> HIDE DEF events
<1> QED BY <1>1, <1>2, <1>4 DEF names

\* checkpoint.
LEMMA CheckpointLogs ==
    ASSUME NEW t \in Tasks, NEW actor \in People, NEW review \in BOOLEAN,
           NEW waiting \in {"keep", "set", "clear"}, NEW receipt \in BOOLEAN, NEW note \in BOOLEAN,
           Checkpoint(t, actor, review, waiting, receipt, note)
    PROVE  \E events \in Seq(Named({"review", "waiting_set", "waiting_clear", "receipt", "note"})) :
             Log(t, events)
<1> DEFINE names == {"review", "waiting_set", "waiting_clear", "receipt", "note"}
           S == Seq(Named(names))
           e1 == When(review, "review")
           e2 == When(waiting = "set", "waiting_set")
           e3 == When(waiting = "clear", "waiting_clear")
           e4 == IF receipt THEN <<[Plain("receipt") EXCEPT !.who = actor]>> ELSE <<>>
           b5 == ~receipt /\ (note \/ (~review /\ waiting = "keep"))
           e5 == When(b5, "note")
<1>1. e1 \in S
  BY WhenType DEF Names
<1>2. e2 \in S
  BY WhenType DEF Names
<1>3. e3 \in S
  BY WhenType DEF Names
<1>4. e4 \in S
  <2>1. [Plain("receipt") EXCEPT !.who = actor] \in Named(names)
    BY NamedType DEF Names
  <2> HIDE DEF names
  <2> QED BY <2>1
<1>5. e5 \in S
  <2>1. b5 \in BOOLEAN
    OBVIOUS
  <2> HIDE DEF b5
  <2> QED BY <2>1, WhenType DEF Names
<1>6. Log(t, e1 \o e2 \o e3 \o e4 \o e5)
  BY DEF Checkpoint
<1> HIDE DEF e1, e2, e3, e4, e5, names
<1>7. e1 \o e2 \in S
  BY <1>1, <1>2, ConcatProperties
<1>8. e1 \o e2 \o e3 \in S
  BY <1>3, <1>7, ConcatProperties
<1>9. e1 \o e2 \o e3 \o e4 \in S
  BY <1>4, <1>8, ConcatProperties
<1>10. e1 \o e2 \o e3 \o e4 \o e5 \in S
  BY <1>5, <1>9, ConcatProperties
<1> QED BY <1>6, <1>10 DEF names

\* A verb that logs one plain event.
LEMMA OneLogs ==
    ASSUME NEW names, NEW name \in Names \cap names
    PROVE  /\ <<Plain(name)>> \in Seq(Named(names)) /\ <<Plain(name)>> # <<>>
           /\ Len(<<Plain(name)>>) = 1 /\ <<Plain(name)>>[1].name = name
<1>1. Plain(name) \in Named(names) /\ Plain(name).name = name
  BY PlainType DEF Named
<1> QED BY <1>1

\* A verb that may log its escape before its event.
LEMMA TwoLogs ==
    ASSUME NEW names, NEW b \in BOOLEAN, NEW escape \in Names \cap names,
           NEW e \in Named(names)
    PROVE  /\ When(b, escape) \o <<e>> \in Seq(Named(names))
           /\ When(b, escape) \o <<e>> # <<>>
           /\ Len(When(b, escape) \o <<e>>) = IF b THEN 2 ELSE 1
           /\ (When(b, escape) \o <<e>>)[Len(When(b, escape) \o <<e>>)] = e
           /\ b => (When(b, escape) \o <<e>>)[1].name = escape
<1> DEFINE S == Named(names)
           w == When(b, escape)
           v == <<e>>
<1>1. Plain(escape) \in S /\ Plain(escape).name = escape
  BY NamedType, PlainType
<1>2. v \in Seq(S) /\ Len(v) = 1 /\ v[1] = e
  OBVIOUS
<1>3. w \in Seq(S) /\ Len(w) = (IF b THEN 1 ELSE 0) /\ (b => w[1].name = escape)
  <2>1. CASE b
    <3>1. w = <<Plain(escape)>>
      BY <2>1 DEF When
    <3> HIDE DEF w, S
    <3> QED BY <1>1, <2>1, <3>1
  <2>2. CASE ~b
    <3>1. w = <<>>
      BY <2>2 DEF When
    <3> HIDE DEF w, S
    <3> QED BY <2>2, <3>1
  <2> QED BY <2>1, <2>2
<1> HIDE DEF S, w, v
<1>4. /\ w \o v \in Seq(S) /\ Len(w \o v) = Len(w) + Len(v)
      /\ \A i \in 1 .. Len(w) + Len(v) :
            (w \o v)[i] = IF i <= Len(w) THEN w[i] ELSE v[i - Len(w)]
  BY <1>2, <1>3, ConcatProperties
<1>5. Len(w \o v) = IF b THEN 2 ELSE 1
  BY <1>2, <1>3, <1>4
<1>6. (w \o v)[Len(w \o v)] = e /\ (b => (w \o v)[1].name = escape)
  BY <1>2, <1>3, <1>4
<1>7. w \o v # <<>>
  BY <1>5, EmptySeq
<1> QED BY <1>4, <1>5, <1>6, <1>7 DEF S, w, v

Begun == {"in_progress", "review", "closed"}

\* A verb that neither starts, closes nor reopens: what it logs, and what it does to the row.
Quiet(t, names) ==
    /\ row[t].status # "none" /\ UNCHANGED <<dossier, closing>>
    /\ \E events \in Seq(Named(names)) : Log(t, events)
    /\ row' \in [Tasks -> Row]
    /\ \A u \in Tasks :
          /\ row'[u].assignee = row[u].assignee
          /\ (row'[u].status = "none") = (row[u].status = "none")
          /\ (row'[u].status = "closed") = (row[u].status = "closed")
          /\ row'[u].status \in Begun => row[u].status \in Begun
          /\ row'[u].status = "in_progress" => row[u].status = "in_progress"

Others == Names \ {"start", "reopen", "close", "chain_op"}

\* These are the quiet verbs.
LEMMA QuietVerbs ==
    ASSUME TypeOK, NEW t \in Tasks
    PROVE  /\ \A actor \in People, review, receipt, note \in BOOLEAN,
                 waiting \in {"keep", "set", "clear"} :
                 Checkpoint(t, actor, review, waiting, receipt, note) => Quiet(t, Others)
           /\ \A seats \in SUBSET People : Dispatch(t, seats) => Quiet(t, Others)
           /\ Annotate(t) \/ GateReport(t) => Quiet(t, Others)
           /\ \A force \in BOOLEAN : ArchiveTask(t, force) => Quiet(t, Others)
           /\ ChainOp(t, TRUE) => Quiet(t, Others)
           /\ ChainOp(t, FALSE) => Quiet(t, {"chain_op"})
<1>0. row \in [Tasks -> Row]
  BY DEF TypeOK
<1>1. ASSUME NEW actor \in People, NEW review \in BOOLEAN, NEW receipt \in BOOLEAN,
             NEW note \in BOOLEAN, NEW waiting \in {"keep", "set", "clear"},
             Checkpoint(t, actor, review, waiting, receipt, note)
      PROVE  Quiet(t, Others)
  <2> DEFINE names == {"review", "waiting_set", "waiting_clear", "receipt", "note"}
             st == IF review THEN "review" ELSE row[t].status
             wt == CASE waiting = "set" -> TRUE [] waiting = "clear" -> FALSE
                     [] OTHER -> row[t].waiting
             new == [row[t] EXCEPT !.status = st, !.waiting = wt]
  <2>1. PICK events \in Seq(Named(names)) : Log(t, events)
    BY <1>1, CheckpointLogs
  <2>2. events \in Seq(Named(Others))
    <3>1. Named(names) \subseteq Named(Others)
      BY DEF Named, Others, Names
    <3> HIDE DEF names
    <3> QED BY <2>1, <3>1, SeqMonotonic
  <2>3. row' = [row EXCEPT ![t] = new]
    BY <1>0, <1>1 DEF Checkpoint, Row
  <2>4. row[t].status \in {"in_progress", "review"} /\ (review => row[t].status = "in_progress")
    BY <1>1 DEF Checkpoint
  <2>5. st \in {"in_progress", "review"} /\ (st = "in_progress" => row[t].status = "in_progress")
    BY <2>4
  <2>6. wt \in BOOLEAN
    <3>1. row[t].waiting \in BOOLEAN
      BY <1>0 DEF Row
    <3> QED BY <3>1, Zenon
  <2> HIDE DEF st, wt
  <2>7. new \in Row /\ new.status = st /\ new.assignee = row[t].assignee
    BY <1>0, <2>5, <2>6 DEF Row, Statuses
  <2> HIDE DEF new
  <2>8. row' \in [Tasks -> Row] /\ row'[t] = new /\ \A u \in Tasks \ {t} : row'[u] = row[u]
    BY <1>0, <2>3, <2>7
  <2>9. UNCHANGED <<dossier, closing>>
    BY <1>1 DEF Checkpoint
  <2>10. ASSUME NEW u \in Tasks
         PROVE  /\ row'[u].assignee = row[u].assignee
                /\ (row'[u].status = "none") = (row[u].status = "none")
                /\ (row'[u].status = "closed") = (row[u].status = "closed")
                /\ row'[u].status \in Begun => row[u].status \in Begun
                /\ row'[u].status = "in_progress" => row[u].status = "in_progress"
    <3>1. CASE u # t
      BY <2>8, <3>1
    <3>2. CASE u = t
      BY <2>4, <2>5, <2>7, <2>8, <3>2 DEF Begun
    <3> QED BY <3>1, <3>2
  <2> QED BY <2>1, <2>2, <2>4, <2>8, <2>9, <2>10 DEF Quiet
<1>2. ASSUME row[t].status # "none", UNCHANGED <<dossier, closing>>, UNCHANGED row,
             NEW names, NEW e \in Named(names), Log(t, <<e>>)
      PROVE  Quiet(t, names)
  <2>1. <<e>> \in Seq(Named(names))
    OBVIOUS
  <2> QED BY <1>0, <1>2, <2>1 DEF Quiet
<1>3. ASSUME NEW seats \in SUBSET People, Dispatch(t, seats) PROVE Quiet(t, Others)
  <2>1. [Plain("dispatch") EXCEPT !.seats = seats] \in Named(Others)
    BY NamedType DEF Names, Others
  <2> QED BY <1>2, <1>3, <2>1 DEF Dispatch
<1>4. ASSUME Annotate(t) \/ GateReport(t) PROVE Quiet(t, Others)
  <2>1. Plain("note") \in Named(Others) /\ Plain("gate_report") \in Named(Others)
    BY NamedType DEF Names, Others
  <2> QED BY <1>2, <1>4, <2>1 DEF Annotate, GateReport
<1>5. ASSUME ChainOp(t, TRUE) PROVE Quiet(t, Others)
  <2>1. Plain("forced_chain_op") \in Named(Others)
    BY NamedType DEF Names, Others
  <2> QED BY <1>2, <1>5, <2>1 DEF ChainOp
<1>6. ASSUME ChainOp(t, FALSE) PROVE Quiet(t, {"chain_op"})
  <2>1. Plain("chain_op") \in Named({"chain_op"})
    BY NamedType DEF Names
  <2> QED BY <1>2, <1>6, <2>1 DEF ChainOp
<1>7. ASSUME NEW force \in BOOLEAN, ArchiveTask(t, force) PROVE Quiet(t, Others)
  <2> DEFINE name == IF row[t].status # "closed" THEN "forced_archive" ELSE "archive"
             new == [row[t] EXCEPT !.archived = TRUE]
  <2>1. name \in Names /\ name \in Others
    BY DEF Names, Others
  <2>2. Log(t, <<Plain(name)>>) /\ row[t].status # "none" /\ UNCHANGED <<dossier, closing>>
        /\ row' = [row EXCEPT ![t] = new]
    BY <1>0, <1>7 DEF ArchiveTask, Row
  <2> HIDE DEF name
  <2>3. Plain(name) \in Named(Others)
    BY <2>1, NamedType
  <2>4. <<Plain(name)>> \in Seq(Named(Others))
    BY <2>3
  <2>5. new \in Row /\ new.status = row[t].status /\ new.assignee = row[t].assignee
    BY <1>0 DEF Row
  <2> HIDE DEF new
  <2>6. row' \in [Tasks -> Row] /\ row'[t] = new /\ \A u \in Tasks \ {t} : row'[u] = row[u]
    BY <1>0, <2>2, <2>5
  <2>7. \A u \in Tasks : row'[u].status = row[u].status /\ row'[u].assignee = row[u].assignee
    BY <2>5, <2>6
  <2> QED BY <2>2, <2>4, <2>6, <2>7 DEF Quiet
<1> QED BY <1>1, <1>3, <1>4, <1>5, <1>6, <1>7

\* reopen.
LEMMA ReopenLogs ==
    ASSUME TypeOK, NEW t \in Tasks, NEW force \in BOOLEAN, Reopen(t, force)
    PROVE  \E events \in Seq(Named({"reopen", "force_reopen"})) :
             /\ row[t].status = "closed" /\ Log(t, events) /\ UNCHANGED <<dossier, closing>>
             /\ row' = [row EXCEPT ![t].status = "in_progress", ![t].waiting = FALSE]
             /\ \/ row[t].assignee = NoOne \/ ~SerialBlocked(row[t].assignee, t)
                \/ Len(events) = 2 /\ events[1].name = "force_reopen"
             /\ events # <<>> /\ events[Len(events)].name = "reopen"
<1> DEFINE blocked == row[t].assignee # NoOne /\ SerialBlocked(row[t].assignee, t)
           names == {"reopen", "force_reopen"}
           events == When(blocked, "force_reopen") \o <<Plain("reopen")>>
<1>1. /\ row[t].status = "closed" /\ Log(t, events) /\ UNCHANGED <<dossier, closing>>
      /\ row' = [row EXCEPT ![t].status = "in_progress", ![t].waiting = FALSE]
  BY DEF Reopen
<1>2. blocked \in BOOLEAN
  OBVIOUS
<1>3. Plain("reopen") \in Named(names) /\ Plain("reopen").name = "reopen"
  BY NamedType, PlainType DEF Names
<1>4. "force_reopen" \in Names \cap names
  BY DEF Names
<1>5. blocked \/ row[t].assignee = NoOne \/ ~SerialBlocked(row[t].assignee, t)
  OBVIOUS
<1> HIDE DEF blocked, names
<1>6. /\ events \in Seq(Named(names)) /\ events # <<>>
      /\ Len(events) = IF blocked THEN 2 ELSE 1
      /\ events[Len(events)] = Plain("reopen")
      /\ blocked => events[1].name = "force_reopen"
  BY <1>2, <1>3, <1>4, TwoLogs
<1> HIDE DEF events
<1> QED BY <1>1, <1>3, <1>5, <1>6 DEF names

\* close.
LEMMA CloseLogs ==
    ASSUME TypeOK, NEW c \in Closers, NEW force \in BOOLEAN, CloseCommit(c, force),
           NEW t \in Tasks, closing[c].task = t
    PROVE  \E events \in Seq(Named({"close", "force_close"})) :
             /\ row[t].status \in {"in_progress", "review"} /\ Log(t, events)
             /\ row' = [row EXCEPT ![t].status = "closed", ![t].hash = closing[c].hash,
                                   ![t].waiting = FALSE]
             /\ closing' = [closing EXCEPT ![c].task = NoOne, ![c].hash = 0] /\ UNCHANGED dossier
             /\ events # <<>> /\ events[Len(events)].name = "close"
             /\ \/ Len(events) = 2 /\ events[1].name = "force_close"
                \/ /\ Len(events) = 1
                   /\ DispatchInCurrentCycle(t) /\ MissingReceipts(t, Roster(t)) = {}
<1> DEFINE names == {"close", "force_close"}
           e == [Plain("close") EXCEPT !.hash = closing[c].hash]
           events == When(force, "force_close") \o <<e>>
<1>1. /\ t # NoOne /\ row[t].status \in {"in_progress", "review"} /\ Log(t, events)
      /\ force \/ (DispatchInCurrentCycle(t) /\ MissingReceipts(t, Roster(t)) = {})
      /\ row' = [row EXCEPT ![t].status = "closed", ![t].hash = closing[c].hash,
                            ![t].waiting = FALSE]
      /\ closing' = [closing EXCEPT ![c].task = NoOne, ![c].hash = 0] /\ UNCHANGED dossier
  BY DEF CloseCommit
<1>2. closing[c].hash \in Versions
  BY DEF TypeOK
<1>3. e \in Named(names) /\ e.name = "close"
  BY <1>2, NamedType, PlainType DEF Names
<1>4. "force_close" \in Names \cap names
  BY DEF Names
<1> HIDE DEF names, e
<1>5. /\ events \in Seq(Named(names)) /\ events # <<>>
      /\ Len(events) = IF force THEN 2 ELSE 1
      /\ events[Len(events)] = e
      /\ force => events[1].name = "force_close"
  BY <1>3, <1>4, TwoLogs
<1> HIDE DEF events
<1> QED BY <1>1, <1>2, <1>3, <1>5 DEF names

(***************************************************************************)
(* Types.                                                                  *)
(***************************************************************************)

\* The ledger starts empty.
LEMMA InitType == Init => TypeOK
<1> SUFFICES ASSUME Init PROVE TypeOK
  OBVIOUS
<1>1. 0 \in Versions
  BY TaskLedgerAssumption DEF Versions
<1>2. Absent \in Row /\ Absent.status = "none"
  BY <1>1 DEF Absent, Row, Statuses
<1> QED BY <1>1, <1>2 DEF Init, TypeOK

\* A verb of one task keeps the types.
LEMMA VerbType ==
    ASSUME TypeOK, NEW t \in Tasks, Verb(t)
    PROVE  TypeOK'
<1>0. row \in [Tasks -> Row]
  BY DEF TypeOK
<1>1. ASSUME NEW names, Quiet(t, names) PROVE TypeOK'
  <2>1. PICK events \in Seq(Named(names)) : Log(t, events)
    BY <1>1 DEF Quiet
  <2>2. /\ row' \in [Tasks -> Row] /\ row[t].status # "none"
        /\ \A u \in Tasks : (row'[u].status = "none") = (row[u].status = "none")
    BY <1>1 DEF Quiet
  <2>3. /\ trail' \in [Tasks -> Seq(Event)]
        /\ \A u \in Tasks : (row'[u].status = "none") = (trail'[u] = <<>>)
    BY <2>1, <2>2, LogType
  <2> QED BY <1>1, <2>2, <2>3 DEF Quiet, TypeOK
<1>2. ASSUME NEW who \in People \cup {NoOne}, NEW filed \in {0, 1}, Create(t, who, filed)
      PROVE  TypeOK'
  <2> DEFINE new == [Absent EXCEPT !.status = "queued", !.assignee = who]
  <2>1. 0 \in Versions /\ 1 \in Versions
    BY TaskLedgerAssumption DEF Versions
  <2>2. new \in Row /\ new.status = "queued"
    BY <2>1 DEF Absent, Row, Statuses
  <2>3. row' = [row EXCEPT ![t] = new] /\ Log(t, <<Plain("create")>>)
        /\ dossier' = [dossier EXCEPT ![t] = filed] /\ UNCHANGED closing
    BY <1>2 DEF Create
  <2> HIDE DEF new
  <2>4. row' \in [Tasks -> Row] /\ row'[t].status # "none" /\ \A u \in Tasks \ {t} : row'[u] = row[u]
    BY <1>0, <2>2, <2>3
  <2>5. <<Plain("create")>> \in Seq(Named({"create"})) /\ Len(<<Plain("create")>>) = 1
    BY OneLogs DEF Names
  <2>6. /\ trail' \in [Tasks -> Seq(Event)] /\ Len(trail[t]) \in Nat
        /\ Len(trail'[t]) = Len(trail[t]) + 1
        /\ \A u \in Tasks \ {t} : trail'[u] = trail[u]
    <3> DEFINE events == <<Plain("create")>>
    <3>1. events \in Seq(Named({"create"})) /\ Log(t, events) /\ Len(events) = 1
      BY <2>3, <2>5
    <3> HIDE DEF events
    <3>2. /\ trail' \in [Tasks -> Seq(Event)] /\ Len(trail[t]) \in Nat
          /\ Len(trail'[t]) = Len(trail[t]) + Len(events)
          /\ \A u \in Tasks \ {t} : trail'[u] = trail[u]
      BY <3>1, LogIs
    <3> QED BY <3>1, <3>2
  <2>7. trail'[t] # <<>>
    BY <2>6, EmptySeq
  <2>8. \A u \in Tasks : (row'[u].status = "none") = (trail'[u] = <<>>)
    BY <2>4, <2>6, <2>7 DEF TypeOK
  <2>9. dossier' \in [Tasks -> Versions]
    BY <2>1, <2>3 DEF TypeOK
  <2> QED BY <2>3, <2>4, <2>6, <2>8, <2>9 DEF TypeOK
<1>3. ASSUME NEW actor \in People, NEW force \in BOOLEAN, Start(t, actor, force) PROVE TypeOK'
  <2>1. PICK who \in People, events \in Seq(Named({"start", "force_start"})) :
             /\ row[t].status = "queued" /\ Log(t, events) /\ UNCHANGED <<dossier, closing>>
             /\ row' = [row EXCEPT ![t].status = "in_progress", ![t].assignee = who]
    BY <1>3, StartLogs
  <2>2. row' \in [Tasks -> Row] /\ \A u \in Tasks : (row'[u].status = "none") = (row[u].status = "none")
    BY <1>0, <2>1 DEF Row, Statuses
  <2>3. /\ trail' \in [Tasks -> Seq(Event)]
        /\ \A u \in Tasks : (row'[u].status = "none") = (trail'[u] = <<>>)
    BY <2>1, <2>2, LogType
  <2> QED BY <2>1, <2>2, <2>3 DEF TypeOK
<1>4. ASSUME NEW force \in BOOLEAN, Reopen(t, force) PROVE TypeOK'
  <2>1. PICK events \in Seq(Named({"reopen", "force_reopen"})) :
             /\ row[t].status = "closed" /\ Log(t, events) /\ UNCHANGED <<dossier, closing>>
             /\ row' = [row EXCEPT ![t].status = "in_progress", ![t].waiting = FALSE]
    BY <1>4, ReopenLogs
  <2>2. row' \in [Tasks -> Row] /\ \A u \in Tasks : (row'[u].status = "none") = (row[u].status = "none")
    BY <1>0, <2>1 DEF Row, Statuses
  <2>3. /\ trail' \in [Tasks -> Seq(Event)]
        /\ \A u \in Tasks : (row'[u].status = "none") = (trail'[u] = <<>>)
    BY <2>1, <2>2, LogType
  <2> QED BY <2>1, <2>2, <2>3 DEF TypeOK
<1>5. \A force \in BOOLEAN : ChainOp(t, force) => ChainOp(t, TRUE) \/ ChainOp(t, FALSE)
  OBVIOUS
<1> QED BY <1>1, <1>2, <1>3, <1>4, <1>5, QuietVerbs DEF Verb

\* A close keeps the types.
LEMMA CloseType ==
    ASSUME TypeOK, NEW c \in Closers, Close(c)
    PROVE  TypeOK'
<1>0. row \in [Tasks -> Row] /\ 0 \in Versions
  BY TaskLedgerAssumption DEF TypeOK, Versions
<1>1. ASSUME NEW t \in Tasks, ClosePack(c, t) PROVE TypeOK'
  BY <1>1 DEF ClosePack, TypeOK
<1>2. CASE CloseGivenUp(c)
  BY <1>0, <1>2 DEF CloseGivenUp, TypeOK
<1>3. ASSUME NEW force \in BOOLEAN, CloseCommit(c, force) PROVE TypeOK'
  <2>0. PICK t \in Tasks : closing[c].task = t
    BY <1>3 DEF CloseCommit, TypeOK
  <2>1. PICK events \in Seq(Named({"close", "force_close"})) :
             /\ row[t].status \in {"in_progress", "review"} /\ Log(t, events)
             /\ row' = [row EXCEPT ![t].status = "closed", ![t].hash = closing[c].hash,
                                   ![t].waiting = FALSE]
             /\ closing' = [closing EXCEPT ![c].task = NoOne, ![c].hash = 0] /\ UNCHANGED dossier
    BY <1>3, <2>0, CloseLogs
  <2>2. closing' \in [Closers -> [task : Tasks \cup {NoOne}, hash : Versions]]
    BY <1>0, <2>1 DEF TypeOK
  <2>3. closing[c].hash \in Versions
    BY DEF TypeOK
  <2>4. row' \in [Tasks -> Row] /\ \A u \in Tasks : (row'[u].status = "none") = (row[u].status = "none")
    <3> DEFINE new == [row[t] EXCEPT !.status = "closed", !.hash = closing[c].hash, !.waiting = FALSE]
    <3>1. row' = [row EXCEPT ![t] = new]
      BY <1>0, <2>1 DEF Row
    <3>2. new \in Row /\ new.status = "closed"
      BY <1>0, <2>1, <2>3 DEF Row, Statuses
    <3> HIDE DEF new
    <3> QED BY <1>0, <2>1, <3>1, <3>2
  <2>5. /\ trail' \in [Tasks -> Seq(Event)]
        /\ \A u \in Tasks : (row'[u].status = "none") = (trail'[u] = <<>>)
    BY <2>1, <2>4, LogType
  <2> QED BY <2>1, <2>2, <2>4, <2>5 DEF TypeOK
<1> QED BY <1>1, <1>2, <1>3 DEF Close

\* Each step keeps the types.
LEMMA NextType == TypeOK /\ [Next]_vars => TypeOK'
<1> SUFFICES ASSUME TypeOK, [Next]_vars PROVE TypeOK'
  OBVIOUS
<1>1. CASE UNCHANGED vars
  BY <1>1 DEF vars, TypeOK
<1>2. ASSUME NEW t \in Tasks, EditDossier(t) PROVE TypeOK'
  <2>1. dossier[t] + 1 \in Versions
    BY <1>2, TaskLedgerAssumption DEF EditDossier, Versions
  <2> QED BY <1>2, <2>1 DEF EditDossier, TypeOK
<1> QED BY <1>1, <1>2, VerbType, CloseType DEF Next

(***************************************************************************)
(* A chain operation follows a gate report of its own.                     *)
(***************************************************************************)

\* A log without a plain chain operation keeps it.
LEMMA MovesKept ==
    ASSUME TypeOK, ReportBeforeMove, NEW t \in Tasks, NEW names, "chain_op" \notin names,
           NEW events \in Seq(Named(names)), Log(t, events)
    PROVE  ReportBeforeMove'
<1>0. ReportBeforeMove' =
        \A u \in Tasks : \A i \in Places(u, {"chain_op"})' :
            \E j \in Places(u, {"gate_report"})' :
                j < i /\ ~ \E k \in Places(u, ChainOps)' : j < k /\ k < i
  BY DEF ReportBeforeMove
<1> SUFFICES ASSUME NEW u \in Tasks, NEW i \in Places(u, {"chain_op"})'
             PROVE  \E j \in Places(u, {"gate_report"})' :
                        j < i /\ ~ \E k \in Places(u, ChainOps)' : j < k /\ k < i
  BY <1>0
<1>1. i \in Places(u, {"chain_op"})
  BY LatestKept
<1>2. PICK j \in Places(u, {"gate_report"}) :
         j < i /\ ~ \E k \in Places(u, ChainOps) : j < k /\ k < i
  BY <1>1 DEF ReportBeforeMove
<1>3. /\ Len(trail[u]) \in Nat /\ Len(trail'[u]) \in Nat /\ Len(trail[u]) <= Len(trail'[u])
      /\ \A n \in 1..Len(trail[u]) : trail'[u][n] = trail[u][n]
  <2>1. CASE u = t
    BY <2>1, LogIs
  <2>2. CASE u # t
    BY <2>2, LogIs DEF TypeOK
  <2> QED BY <2>1, <2>2
<1>4. j \in 1..Len(trail[u]) /\ i \in 1..Len(trail[u])
  BY <1>1 DEF Places
<1>5. j \in Places(u, {"gate_report"})'
  BY <1>3, <1>4 DEF Places
<1>6. ASSUME NEW k \in Places(u, ChainOps)', j < k, k < i PROVE FALSE
  <2>1. k \in 1..Len(trail[u])
    BY <1>3, <1>4, <1>6 DEF Places
  <2>2. k \in Places(u, ChainOps)
    BY <1>3, <1>6, <2>1 DEF Places
  <2> QED BY <1>2, <1>6, <2>2
<1> QED BY <1>2, <1>5, <1>6

\* A plain chain operation finds a report that none has used.
LEMMA ChainOpReport ==
    ASSUME TypeOK, ReportBeforeMove, NEW t \in Tasks, ChainOp(t, FALSE)
    PROVE  ReportBeforeMove'
<1> DEFINE n == Len(trail[t])
<1>1. /\ <<Plain("chain_op")>> \in Seq(Named({"chain_op"})) /\ Len(<<Plain("chain_op")>>) = 1
      /\ Log(t, <<Plain("chain_op")>>) /\ GateReportCurrent(t)
  BY OneLogs DEF ChainOp, Names
<1>2. /\ n \in Nat /\ Len(trail'[t]) = n + 1
      /\ \A u \in Tasks \ {t} : trail'[u] = trail[u]
      /\ \A i \in 1..n : trail'[t][i] = trail[t][i]
  <2> DEFINE events == <<Plain("chain_op")>>
  <2>1. events \in Seq(Named({"chain_op"})) /\ Log(t, events) /\ Len(events) = 1
    BY <1>1
  <2> HIDE DEF events
  <2>2. /\ Len(trail[t]) \in Nat /\ Len(trail'[t]) = Len(trail[t]) + Len(events)
        /\ \A u \in Tasks \ {t} : trail'[u] = trail[u]
        /\ \A i \in 1..Len(trail[t]) : trail'[t][i] = trail[t][i]
    BY <2>1, LogIs
  <2> QED BY <2>1, <2>2
<1>3. \A u \in Tasks \ {t} : \A ns : Places(u, ns)' = Places(u, ns)
  BY <1>2 DEF Places
<1>4. \A ns : \A k \in Places(t, ns)' : k \in Places(t, ns) \/ k = n + 1
  BY <1>2 DEF Places
<1>5. \A ns : \A k \in Places(t, ns) : k \in Places(t, ns)' /\ k \in 1..n
  BY <1>2 DEF Places
<1> HIDE DEF n
<1>6. ASSUME NEW u \in Tasks, NEW i \in Places(u, {"chain_op"})'
      PROVE  \E j \in Places(u, {"gate_report"})' :
                 j < i /\ ~ \E k \in Places(u, ChainOps)' : j < k /\ k < i
  <2>1. CASE u # t
    BY <1>3, <2>1 DEF ReportBeforeMove
  <2>2. CASE u = t /\ i \in Places(t, {"chain_op"})
    <3>1. PICK j \in Places(t, {"gate_report"}) :
             j < i /\ ~ \E k \in Places(t, ChainOps) : j < k /\ k < i
      BY <2>2 DEF ReportBeforeMove
    <3>2. j \in Places(t, {"gate_report"})' /\ i \in 1..n
      BY <1>5, <2>2
    <3>3. ~ \E k \in Places(t, ChainOps)' : j < k /\ k < i
      BY <1>2, <1>4, <3>1, <3>2
    <3> QED BY <2>2, <3>1, <3>2, <3>3
  <2>3. CASE u = t /\ i = n + 1
    <3> DEFINE j == Latest(t, {"gate_report"})
               m == Latest(t, ChainOps)
    <3>1. j > m
      BY <1>1 DEF GateReportCurrent
    <3>2. /\ j \in {0} \cup Places(t, {"gate_report"}) /\ j \in 0..n
          /\ m \in 0..n /\ \A k \in Places(t, ChainOps) : k <= m
      BY LatestIs DEF n
    <3> HIDE DEF j, m
    <3>3. j \in Places(t, {"gate_report"}) /\ j < i
      BY <1>2, <2>3, <3>1, <3>2
    <3>4. j \in Places(t, {"gate_report"})'
      BY <1>5, <3>3
    <3>5. ~ \E k \in Places(t, ChainOps)' : j < k /\ k < i
      <4>1. ASSUME NEW k \in Places(t, ChainOps), j < k PROVE FALSE
        <5>1. k <= m /\ k \in 1..n
          BY <1>5, <3>2
        <5> QED BY <1>2, <3>1, <3>2, <4>1, <5>1
      <4> QED BY <1>2, <1>4, <2>3, <4>1
    <3> QED BY <2>3, <3>3, <3>4, <3>5
  <2> QED BY <1>4, <1>6, <2>1, <2>2, <2>3
<1> QED BY <1>6 DEF ReportBeforeMove

\* Each step keeps it.
LEMMA NextReport == TypeOK /\ ReportBeforeMove /\ [Next]_vars => ReportBeforeMove'
<1> SUFFICES ASSUME TypeOK, ReportBeforeMove, [Next]_vars PROVE ReportBeforeMove'
  OBVIOUS
<1>1. ASSUME UNCHANGED trail PROVE ReportBeforeMove'
  BY <1>1 DEF ReportBeforeMove, Places
<1>2. ASSUME NEW t \in Tasks, Verb(t) PROVE ReportBeforeMove'
  <2>1. ASSUME Quiet(t, Others) PROVE ReportBeforeMove'
    <3>1. PICK events \in Seq(Named(Others)) : Log(t, events)
      BY <2>1 DEF Quiet
    <3>2. "chain_op" \notin Others
      BY DEF Others
    <3> QED BY <3>1, <3>2, MovesKept
  <2>2. ASSUME NEW who \in People \cup {NoOne}, NEW filed \in {0, 1}, Create(t, who, filed)
        PROVE  ReportBeforeMove'
    <3> DEFINE events == <<Plain("create")>>
    <3>1. events \in Seq(Named({"create"})) /\ Log(t, events)
      BY <2>2, OneLogs DEF Create, Names
    <3> HIDE DEF events
    <3> QED BY <3>1, MovesKept
  <2>3. ASSUME NEW actor \in People, NEW force \in BOOLEAN, Start(t, actor, force)
        PROVE  ReportBeforeMove'
    <3>1. PICK events \in Seq(Named({"start", "force_start"})) : Log(t, events)
      BY <2>3, StartLogs
    <3> QED BY <3>1, MovesKept
  <2>4. ASSUME NEW force \in BOOLEAN, Reopen(t, force) PROVE ReportBeforeMove'
    <3>1. PICK events \in Seq(Named({"reopen", "force_reopen"})) : Log(t, events)
      BY <2>4, ReopenLogs
    <3> QED BY <3>1, MovesKept
  <2>5. \A force \in BOOLEAN : ChainOp(t, force) => ChainOp(t, TRUE) \/ ChainOp(t, FALSE)
    OBVIOUS
  <2> QED BY <1>2, <2>1, <2>2, <2>3, <2>4, <2>5, QuietVerbs, ChainOpReport DEF Verb
<1>3. ASSUME NEW c \in Closers, Close(c) PROVE ReportBeforeMove'
  <2>1. ASSUME NEW force \in BOOLEAN, CloseCommit(c, force) PROVE ReportBeforeMove'
    <3>0. PICK t \in Tasks : closing[c].task = t
      BY <2>1 DEF CloseCommit, TypeOK
    <3>1. PICK events \in Seq(Named({"close", "force_close"})) : Log(t, events)
      BY <2>1, <3>0, CloseLogs
    <3> QED BY <3>1, MovesKept
  <2> QED BY <1>1, <1>3, <2>1 DEF Close, ClosePack, CloseGivenUp
<1> QED BY <1>1, <1>2, <1>3 DEF Next, EditDossier, vars

(***************************************************************************)
(* The serial gate.                                                        *)
(***************************************************************************)

\* How a task was entered stays on the record.
LEMMA EnteredKept ==
    ASSUME TypeOK, NEW t \in Tasks, NEW names, NEW events \in Seq(Named(names)), Log(t, events),
           NEW u \in Tasks, u # t \/ {"start", "reopen"} \cap names = {}, EnteredByForce(u)
    PROVE  EnteredByForce(u)'
<1> DEFINE ns == {"start", "reopen"}
           k == Latest(u, ns)
<1>1. k \in 0..Len(trail[u]) /\ Len(trail[u]) \in Nat
  BY LatestIs DEF TypeOK
<1>2. k > 1 /\ trail[u][k - 1].name \in {"force_start", "force_reopen"}
  BY DEF EnteredByForce
<1>3. \A i \in 1..Len(trail[u]) : trail'[u][i] = trail[u][i]
  BY LogIs
<1>4. Latest(u, ns)' = k
  <2>1. CASE u # t
    <3>1. trail'[u] = trail[u]
      BY <2>1, LogIs
    <3> QED BY <3>1 DEF Latest, Places
  <2>2. CASE u = t
    BY <2>2, LatestKept
  <2> QED BY <2>1, <2>2
<1>5. trail'[u][k - 1] = trail[u][k - 1]
  BY <1>1, <1>2, <1>3
<1>6. EnteredByForce(u)' =
        (Latest(u, ns)' > 1 /\ trail'[u][Latest(u, ns)' - 1].name \in {"force_start", "force_reopen"})
  BY DEF EnteredByForce
<1> QED BY <1>2, <1>4, <1>5, <1>6

\* An escape logged before the entry says so.
LEMMA EnteredNow ==
    ASSUME TypeOK, NEW t \in Tasks, NEW names, NEW events \in Seq(Named(names)), Log(t, events),
           Len(events) = 2, events # <<>>, events[1].name \in {"force_start", "force_reopen"},
           events[Len(events)].name \in {"start", "reopen"}
    PROVE  EnteredByForce(t)'
<1> DEFINE ns == {"start", "reopen"}
           n == Len(trail[t])
<1>1. Latest(t, ns)' = n + 2
  BY LatestNew
<1>2. n \in Nat /\ trail'[t][n + 1] = events[1]
  <2>1. n \in Nat /\ \A i \in 1..Len(events) : trail'[t][n + i] = events[i]
    BY LogIs
  <2>2. 1 \in 1..Len(events)
    OBVIOUS
  <2> QED BY <2>1, <2>2
<1>3. EnteredByForce(t)' =
        (Latest(t, ns)' > 1 /\ trail'[t][Latest(t, ns)' - 1].name \in {"force_start", "force_reopen"})
  BY DEF EnteredByForce
<1>4. n + 2 > 1 /\ (n + 2) - 1 = n + 1
  BY <1>2
<1> QED BY <1>1, <1>2, <1>3, <1>4

\* A verb after which no task is newly in progress, or in other hands, keeps it.
LEMMA SerialKept ==
    ASSUME TypeOK, SerialUnlessForced, NEW t \in Tasks, NEW names,
           NEW events \in Seq(Named(names)), Log(t, events), {"start", "reopen"} \cap names = {},
           \A u \in Tasks : row'[u].status = "in_progress" =>
               row[u].status = "in_progress" /\ row'[u].assignee = row[u].assignee
    PROVE  SerialUnlessForced'
<1> SUFFICES ASSUME NEW u \in Tasks, NEW v \in Tasks, u # v, row'[u].assignee = row'[v].assignee,
                    row'[u].status = "in_progress", row'[v].status = "in_progress"
             PROVE  EnteredByForce(u)' \/ EnteredByForce(v)'
  BY DEF SerialUnlessForced
<1>1. EnteredByForce(u) \/ EnteredByForce(v)
  BY DEF SerialUnlessForced
<1> QED BY <1>1, EnteredKept

\* A verb that enters one task keeps it, if nobody else's task is in the way or
\* the escape is logged.
LEMMA SerialEntered ==
    ASSUME TypeOK, SerialUnlessForced, NEW t \in Tasks, NEW names,
           NEW events \in Seq(Named(names)), Log(t, events),
           \A u \in Tasks \ {t} : row'[u] = row[u],
           \/ ~SerialBlocked(row'[t].assignee, t)
           \/ EnteredByForce(t)'
    PROVE  SerialUnlessForced'
<1> SUFFICES ASSUME NEW u \in Tasks, NEW v \in Tasks, u # v, row'[u].assignee = row'[v].assignee,
                    row'[u].status = "in_progress", row'[v].status = "in_progress"
             PROVE  EnteredByForce(u)' \/ EnteredByForce(v)'
  BY DEF SerialUnlessForced
<1>1. CASE u # t /\ v # t
  <2>1. EnteredByForce(u) \/ EnteredByForce(v)
    BY <1>1 DEF SerialUnlessForced
  <2> QED BY <1>1, <2>1, EnteredKept
<1>2. CASE u = t \/ v = t
  BY <1>2 DEF SerialBlocked
<1> QED BY <1>1, <1>2

\* Each step keeps it, and a task that was started has an assignee.
LEMMA NextSerial ==
    TypeOK /\ Assigned /\ SerialUnlessForced /\ [Next]_vars => Assigned' /\ SerialUnlessForced'
<1> SUFFICES ASSUME TypeOK, Assigned, SerialUnlessForced, [Next]_vars
             PROVE  Assigned' /\ SerialUnlessForced'
  OBVIOUS
<1>0. row \in [Tasks -> Row] /\ NoOne \notin People
  BY TaskLedgerAssumption DEF TypeOK
<1>1. ASSUME UNCHANGED <<row, trail>> PROVE Assigned' /\ SerialUnlessForced'
  <2>1. \A u \in Tasks : EnteredByForce(u)' = EnteredByForce(u)
    BY <1>1 DEF EnteredByForce, Latest, Places
  <2> QED BY <1>1, <2>1 DEF Assigned, SerialUnlessForced
<1>2. ASSUME NEW t \in Tasks, Verb(t) PROVE Assigned' /\ SerialUnlessForced'
  <2>1. ASSUME NEW names, Quiet(t, names), {"start", "reopen"} \cap names = {}
        PROVE  Assigned' /\ SerialUnlessForced'
    <3>1. PICK events \in Seq(Named(names)) : Log(t, events)
      BY <2>1 DEF Quiet
    <3>2. \A u \in Tasks : row'[u].status = "in_progress" =>
               row[u].status = "in_progress" /\ row'[u].assignee = row[u].assignee
      BY <2>1 DEF Quiet
    <3>3. SerialUnlessForced'
      BY <2>1, <3>1, <3>2, SerialKept
    <3>4. Assigned'
      BY <2>1 DEF Quiet, Assigned, Begun
    <3> QED BY <3>3, <3>4
  <2>2. ASSUME NEW who \in People \cup {NoOne}, NEW filed \in {0, 1}, Create(t, who, filed)
        PROVE  Assigned' /\ SerialUnlessForced'
    <3> DEFINE events == <<Plain("create")>>
    <3>1. events \in Seq(Named({"create"})) /\ Log(t, events)
      BY <2>2, OneLogs DEF Create, Names
    <3> HIDE DEF events
    <3>2. row'[t].status = "queued" /\ \A u \in Tasks \ {t} : row'[u] = row[u]
      BY <1>0, <2>2 DEF Create, Absent
    <3>3. \A u \in Tasks : row'[u].status = "in_progress" =>
               row[u].status = "in_progress" /\ row'[u].assignee = row[u].assignee
      BY <3>2
    <3>4. SerialUnlessForced'
      BY <3>1, <3>3, SerialKept
    <3> QED BY <3>2, <3>4 DEF Assigned
  <2>3. ASSUME NEW actor \in People, NEW force \in BOOLEAN, Start(t, actor, force)
        PROVE  Assigned' /\ SerialUnlessForced'
    <3>1. PICK who \in People, events \in Seq(Named({"start", "force_start"})) :
             /\ Log(t, events)
             /\ row' = [row EXCEPT ![t].status = "in_progress", ![t].assignee = who]
             /\ \/ ~SerialBlocked(who, t) /\ Len(events) = 1
                \/ Len(events) = 2 /\ events[1].name = "force_start"
             /\ events # <<>> /\ events[Len(events)].name = "start"
      BY <2>3, StartLogs
    <3>2. row'[t].assignee = who /\ \A u \in Tasks \ {t} : row'[u] = row[u]
      BY <1>0, <3>1 DEF Row
    <3>3. Len(events) = 2 /\ events[1].name = "force_start" => EnteredByForce(t)'
      BY <3>1, EnteredNow
    <3>4. SerialUnlessForced'
      BY <3>1, <3>2, <3>3, SerialEntered
    <3> QED BY <1>0, <3>2, <3>4 DEF Assigned
  <2>4. ASSUME NEW force \in BOOLEAN, Reopen(t, force) PROVE Assigned' /\ SerialUnlessForced'
    <3>1. PICK events \in Seq(Named({"reopen", "force_reopen"})) :
             /\ row[t].status = "closed" /\ Log(t, events)
             /\ row' = [row EXCEPT ![t].status = "in_progress", ![t].waiting = FALSE]
             /\ \/ row[t].assignee = NoOne \/ ~SerialBlocked(row[t].assignee, t)
                \/ Len(events) = 2 /\ events[1].name = "force_reopen"
             /\ events # <<>> /\ events[Len(events)].name = "reopen"
      BY <2>4, ReopenLogs
    <3>2. row'[t].assignee = row[t].assignee /\ \A u \in Tasks \ {t} : row'[u] = row[u]
      BY <1>0, <3>1 DEF Row
    <3>3. row[t].assignee # NoOne
      BY <3>1 DEF Assigned
    <3>4. Len(events) = 2 /\ events[1].name = "force_reopen" => EnteredByForce(t)'
      BY <3>1, EnteredNow
    <3>5. SerialUnlessForced'
      BY <3>1, <3>2, <3>3, <3>4, SerialEntered
    <3> QED BY <3>2, <3>3, <3>5 DEF Assigned
  <2>5. \A force \in BOOLEAN : ChainOp(t, force) => ChainOp(t, TRUE) \/ ChainOp(t, FALSE)
    OBVIOUS
  <2>6. Quiet(t, Others) \/ Quiet(t, {"chain_op"}) => Assigned' /\ SerialUnlessForced'
    BY <2>1 DEF Others
  <2> QED BY <1>2, <2>2, <2>3, <2>4, <2>5, <2>6, QuietVerbs DEF Verb
<1>3. ASSUME NEW c \in Closers, Close(c) PROVE Assigned' /\ SerialUnlessForced'
  <2>1. ASSUME NEW force \in BOOLEAN, CloseCommit(c, force) PROVE Assigned' /\ SerialUnlessForced'
    <3>0. PICK t \in Tasks : closing[c].task = t
      BY <2>1 DEF CloseCommit, TypeOK
    <3>1. PICK events \in Seq(Named({"close", "force_close"})) : Log(t, events)
      BY <2>1, <3>0, CloseLogs
    <3>2. /\ row[t].status \in {"in_progress", "review"}
          /\ row' = [row EXCEPT ![t].status = "closed", ![t].hash = closing[c].hash,
                                ![t].waiting = FALSE]
      BY <2>1, <3>0 DEF CloseCommit
    <3>3. /\ row'[t].status = "closed" /\ row'[t].assignee = row[t].assignee
          /\ \A u \in Tasks \ {t} : row'[u] = row[u]
      BY <1>0, <3>2 DEF Row
    <3>4. \A u \in Tasks : row'[u].status = "in_progress" =>
               row[u].status = "in_progress" /\ row'[u].assignee = row[u].assignee
      BY <3>2, <3>3
    <3>5. SerialUnlessForced'
      BY <3>1, <3>4, SerialKept
    <3>6. Assigned'
      BY <3>2, <3>3 DEF Assigned
    <3> QED BY <3>5, <3>6
  <2> QED BY <1>1, <1>3, <2>1 DEF Close, ClosePack, CloseGivenUp
<1> QED BY <1>1, <1>2, <1>3 DEF Next, EditDossier, vars

(***************************************************************************)
(* The review gate.                                                        *)
(***************************************************************************)

\* The review of a closed task stays on the record.
LEMMA ReviewedKept ==
    ASSUME TypeOK, NEW t \in Tasks, NEW names, NEW events \in Seq(Named(names)), Log(t, events),
           NEW u \in Tasks, u # t \/ {"close", "reopen"} \cap names = {},
           Places(u, {"close"}) # {}, Reviewed(u)
    PROVE  Reviewed(u)' /\ Places(u, {"close"})' # {}
<1>1. CASE u # t
  <2>1. trail'[u] = trail[u]
    BY <1>1, LogIs
  <2>2. \A ns : Places(u, ns)' = Places(u, ns) /\ Latest(u, ns)' = Latest(u, ns)
    BY <2>1 DEF Latest, Places
  <2>3. Reviewed(u)' = Reviewed(u)
    BY <2>1, <2>2 DEF Reviewed
  <2> QED BY <2>2, <2>3
<1>2. CASE u = t
  <2> DEFINE end == Latest(u, {"close"})
             begun == Latest(u, {"reopen"})
             sent == {i \in Places(u, {"dispatch"}) : begun < i /\ i < end}
             sent2 == {i \in Places(u, {"dispatch"})' : begun < i /\ i < end}
             n == Len(trail[u])
  <2>1. /\ n \in Nat /\ Len(trail'[u]) \in Nat /\ n <= Len(trail'[u])
        /\ \A i \in 1..n : trail'[u][i] = trail[u][i]
    BY <1>2, LogIs
  <2>2. end \in 0..n /\ begun \in 0..n /\ end \in Places(u, {"close"})
    BY LatestIs
  <2>3. /\ Latest(u, {"close"})' = end /\ Latest(u, {"reopen"})' = begun
        /\ Places(u, {"close"})' = Places(u, {"close"})
    BY <1>2, LatestKept
  <2> HIDE DEF end, begun
  <2>4. \A i \in 1..n : \A ns : i \in Places(u, ns)' <=> i \in Places(u, ns)
    BY <2>1 DEF Places
  <2>5. \A ns : Places(u, ns) \subseteq 1..n /\ Places(u, ns)' \subseteq 1..Len(trail'[u])
    BY DEF Places
  <2>6. sent2 = sent
    <3>1. ASSUME NEW i \in sent2 PROVE i \in sent
      <4>1. i \in 1..n
        BY <2>1, <2>2, <2>5
      <4> QED BY <2>4, <4>1
    <3>2. ASSUME NEW i \in sent PROVE i \in sent2
      <4>1. i \in 1..n
        BY <2>5
      <4> QED BY <2>4, <4>1
    <3> QED BY <3>1, <3>2
  <2>7. CASE end > 1 /\ trail[u][end - 1].name = "force_close"
    <3>1. trail'[u][end - 1] = trail[u][end - 1]
      BY <2>1, <2>2, <2>7
    <3>2. Latest(u, {"close"})' > 1 /\ trail'[u][Latest(u, {"close"})' - 1].name = "force_close"
      BY <2>3, <2>7, <3>1
    <3> QED BY <2>3, <3>2 DEF Reviewed
  <2>8. CASE /\ sent # {}
             /\ \A s \in trail[u][Highest(sent)].seats :
                   \E i \in Places(u, {"receipt"}) :
                       Highest(sent) < i /\ i < end /\ trail[u][i].who = s
    <3>1. sent \in SUBSET (0..n)
      BY <2>5
    <3>2. Highest(sent) \in sent
      BY <2>1, <2>8, <3>1, HighestExists
    <3>3. Highest(sent) \in 1..n
      BY <2>5, <3>2
    <3>4. ASSUME NEW s \in trail'[u][Highest(sent)].seats
          PROVE  \E i \in Places(u, {"receipt"})' :
                     Highest(sent) < i /\ i < end /\ trail'[u][i].who = s
      <4>1. PICK i \in Places(u, {"receipt"}) :
               Highest(sent) < i /\ i < end /\ trail[u][i].who = s
        BY <2>1, <2>8, <3>3, <3>4
      <4>2. i \in 1..n
        BY <2>5
      <4>3. i \in Places(u, {"receipt"})' /\ trail'[u][i].who = s
        BY <2>1, <2>4, <4>1, <4>2
      <4> QED BY <4>1, <4>3
    <3>5. /\ sent2 # {}
          /\ \A s \in trail'[u][Highest(sent2)].seats :
                \E i \in Places(u, {"receipt"})' :
                    Highest(sent2) < i /\ i < end /\ trail'[u][i].who = s
      BY <2>6, <2>8, <3>4
    <3> QED BY <2>3, <3>5 DEF Reviewed
  <2>9. Places(u, {"close"})' # {}
    BY <2>3
  <2> QED BY <2>7, <2>8, <2>9 DEF Reviewed, end, begun
<1> QED BY <1>1, <1>2

\* A close that passes the gate, or logs its escape, is reviewed.
LEMMA CloseReviews ==
    ASSUME TypeOK, NEW t \in Tasks, NEW events \in Seq(Named({"close", "force_close"})),
           Log(t, events), events # <<>>, events[Len(events)].name = "close",
           \/ Len(events) = 2 /\ events[1].name = "force_close"
           \/ Len(events) = 1 /\ DispatchInCurrentCycle(t) /\ MissingReceipts(t, Roster(t)) = {}
    PROVE  Reviewed(t)' /\ Places(t, {"close"})' # {}
<1> DEFINE n == Len(trail[t])
<1>1. /\ n \in Nat /\ Len(trail'[t]) = n + Len(events)
      /\ \A i \in 1..n : trail'[t][i] = trail[t][i]
      /\ \A i \in 1..Len(events) : trail'[t][n + i] = events[i]
  BY LogIs
<1>2. Latest(t, {"close"})' = n + Len(events) /\ n + Len(events) \in Places(t, {"close"})'
  BY LatestNew
<1>3. CASE Len(events) = 2 /\ events[1].name = "force_close"
  <2>1. trail'[t][n + 1] = events[1]
    BY <1>1, <1>3
  <2>2. (n + 2) - 1 = n + 1 /\ n + 2 > 1
    BY <1>1
  <2>3. Latest(t, {"close"})' > 1 /\ trail'[t][Latest(t, {"close"})' - 1].name = "force_close"
    BY <1>2, <1>3, <2>1, <2>2
  <2> QED BY <1>2, <2>3 DEF Reviewed
<1>4. CASE Len(events) = 1 /\ DispatchInCurrentCycle(t) /\ MissingReceipts(t, Roster(t)) = {}
  <2> DEFINE d == Latest(t, {"dispatch"})
             begun == Latest(t, {"reopen"})
             bound == Latest(t, {"reopen", "dispatch"})
             sent == {i \in Places(t, {"dispatch"}) : begun < i /\ i < n + 1}
  <2>1. /\ Latest(t, {"reopen"})' = begun
        /\ Places(t, {"dispatch"})' = Places(t, {"dispatch"})
        /\ Places(t, {"receipt"})' = Places(t, {"receipt"})
    BY LatestKept
  <2>2. d > begun
    BY <1>4 DEF DispatchInCurrentCycle
  <2>3. /\ d \in {0} \cup Places(t, {"dispatch"}) /\ d \in 0..n /\ begun \in 0..n
        /\ \A i \in Places(t, {"dispatch"}) : i <= d
        /\ bound \in 0..n /\ \A i \in Places(t, {"reopen", "dispatch"}) : i <= bound
    BY LatestIs
  <2>4. \A s \in trail[t][d].seats :
           \E i \in {j \in Places(t, {"receipt"}) : j > bound} : trail[t][i].who = s
    BY <1>4 DEF MissingReceipts, Roster
  <2> HIDE DEF d, begun, bound
  <2>5. d \in Places(t, {"dispatch"}) /\ d \in 1..n
    BY <1>1, <2>2, <2>3
  <2>6. d <= bound
    <3>1. d \in Places(t, {"reopen", "dispatch"})
      BY <2>5 DEF Places
    <3> QED BY <2>3, <3>1
  <2>7. sent \in SUBSET (0..n) /\ d \in sent /\ \A i \in sent : i <= d
    BY <1>1, <2>2, <2>3, <2>5 DEF Places
  <2>8. Highest(sent) = d
    <3>1. Highest(sent) \in sent /\ \A m \in sent : m <= Highest(sent)
      BY <1>1, <2>7, HighestExists
    <3>2. Highest(sent) \in 0..n /\ d <= Highest(sent) /\ Highest(sent) <= d
      BY <2>7, <3>1
    <3> QED BY <1>1, <2>3, <3>2
  <2>9. ASSUME NEW s \in trail'[t][d].seats
        PROVE  \E i \in Places(t, {"receipt"})' : d < i /\ i < n + 1 /\ trail'[t][i].who = s
    <3>1. PICK i \in Places(t, {"receipt"}) : i > bound /\ trail[t][i].who = s
      BY <1>1, <2>4, <2>5, <2>9
    <3>2. i \in 1..n
      BY DEF Places
    <3>3. d \in Int /\ bound \in Int /\ n \in Int /\ i \in Int /\ i <= n
      BY <1>1, <2>3, <3>2
    <3>4. d < i /\ i < n + 1
      BY <2>6, <3>1, <3>3
    <3>5. i \in Places(t, {"receipt"})' /\ trail'[t][i].who = s
      BY <1>1, <2>1, <3>1, <3>2
    <3> QED BY <3>4, <3>5
  <2>10. /\ sent # {}
         /\ \A s \in trail'[t][Highest(sent)].seats :
               \E i \in Places(t, {"receipt"})' :
                   Highest(sent) < i /\ i < n + 1 /\ trail'[t][i].who = s
    BY <2>7, <2>8, <2>9
  <2> QED BY <1>2, <1>4, <2>1, <2>10 DEF Reviewed
<1> QED BY <1>3, <1>4

\* A verb after which no task is newly closed keeps it.
LEMMA ClosedKept ==
    ASSUME TypeOK, Recorded, ClosedWasReviewed, NEW t \in Tasks, NEW names,
           NEW events \in Seq(Named(names)), Log(t, events),
           \A u \in Tasks : row'[u].status = "closed" =>
               row[u].status = "closed" /\ (u # t \/ {"close", "reopen"} \cap names = {})
    PROVE  Recorded' /\ ClosedWasReviewed'
<1>1. ASSUME NEW u \in Tasks, row'[u].status = "closed"
      PROVE  Reviewed(u)' /\ Places(u, {"close"})' # {}
  BY <1>1, ReviewedKept DEF Recorded, ClosedWasReviewed
<1> QED BY <1>1 DEF Recorded, ClosedWasReviewed

\* Each step keeps it, and a closed task has its close on the record.
LEMMA NextClosed ==
    TypeOK /\ Recorded /\ ClosedWasReviewed /\ [Next]_vars => Recorded' /\ ClosedWasReviewed'
<1> SUFFICES ASSUME TypeOK, Recorded, ClosedWasReviewed, [Next]_vars
             PROVE  Recorded' /\ ClosedWasReviewed'
  OBVIOUS
<1>0. row \in [Tasks -> Row]
  BY DEF TypeOK
<1>1. ASSUME UNCHANGED <<row, trail>> PROVE Recorded' /\ ClosedWasReviewed'
  <2>1. \A u \in Tasks : \A ns : Places(u, ns)' = Places(u, ns) /\ Latest(u, ns)' = Latest(u, ns)
    BY <1>1 DEF Latest, Places
  <2>2. \A u \in Tasks : Reviewed(u)' = Reviewed(u)
    BY <1>1, <2>1 DEF Reviewed
  <2> QED BY <1>1, <2>1, <2>2 DEF Recorded, ClosedWasReviewed
<1>2. ASSUME NEW t \in Tasks, Verb(t) PROVE Recorded' /\ ClosedWasReviewed'
  <2>1. ASSUME NEW names, Quiet(t, names), {"close", "reopen"} \cap names = {}
        PROVE  Recorded' /\ ClosedWasReviewed'
    <3>1. PICK events \in Seq(Named(names)) : Log(t, events)
      BY <2>1 DEF Quiet
    <3>2. \A u \in Tasks : row'[u].status = "closed" => row[u].status = "closed"
      BY <2>1 DEF Quiet
    <3> QED BY <2>1, <3>1, <3>2, ClosedKept
  <2>2. ASSUME NEW who \in People \cup {NoOne}, NEW filed \in {0, 1}, Create(t, who, filed)
        PROVE  Recorded' /\ ClosedWasReviewed'
    <3> DEFINE events == <<Plain("create")>>
    <3>1. events \in Seq(Named({"create"})) /\ Log(t, events)
      BY <2>2, OneLogs DEF Create, Names
    <3> HIDE DEF events
    <3>2. row'[t].status = "queued" /\ \A u \in Tasks \ {t} : row'[u] = row[u]
      BY <1>0, <2>2 DEF Create, Absent
    <3> QED BY <3>1, <3>2, ClosedKept
  <2>3. ASSUME NEW actor \in People, NEW force \in BOOLEAN, Start(t, actor, force)
        PROVE  Recorded' /\ ClosedWasReviewed'
    <3>1. PICK who \in People, events \in Seq(Named({"start", "force_start"})) :
             /\ Log(t, events)
             /\ row' = [row EXCEPT ![t].status = "in_progress", ![t].assignee = who]
      BY <2>3, StartLogs
    <3>2. row'[t].status = "in_progress" /\ \A u \in Tasks \ {t} : row'[u] = row[u]
      BY <1>0, <3>1 DEF Row
    <3>3. \A u \in Tasks : row'[u].status = "closed" => row[u].status = "closed" /\ u # t
      BY <3>2
    <3> QED BY <3>1, <3>3, ClosedKept
  <2>4. ASSUME NEW force \in BOOLEAN, Reopen(t, force) PROVE Recorded' /\ ClosedWasReviewed'
    <3>1. PICK events \in Seq(Named({"reopen", "force_reopen"})) :
             /\ Log(t, events)
             /\ row' = [row EXCEPT ![t].status = "in_progress", ![t].waiting = FALSE]
      BY <2>4, ReopenLogs
    <3>2. row'[t].status = "in_progress" /\ \A u \in Tasks \ {t} : row'[u] = row[u]
      BY <1>0, <3>1 DEF Row
    <3>3. \A u \in Tasks : row'[u].status = "closed" => row[u].status = "closed" /\ u # t
      BY <3>2
    <3> QED BY <3>1, <3>3, ClosedKept
  <2>5. \A force \in BOOLEAN : ChainOp(t, force) => ChainOp(t, TRUE) \/ ChainOp(t, FALSE)
    OBVIOUS
  <2>6. Quiet(t, Others) \/ Quiet(t, {"chain_op"}) => Recorded' /\ ClosedWasReviewed'
    BY <2>1 DEF Others
  <2> QED BY <1>2, <2>2, <2>3, <2>4, <2>5, <2>6, QuietVerbs DEF Verb
<1>3. ASSUME NEW c \in Closers, Close(c) PROVE Recorded' /\ ClosedWasReviewed'
  <2>1. ASSUME NEW force \in BOOLEAN, CloseCommit(c, force)
        PROVE  Recorded' /\ ClosedWasReviewed'
    <3>0. PICK t \in Tasks : closing[c].task = t
      BY <2>1 DEF CloseCommit, TypeOK
    <3>1. PICK events \in Seq(Named({"close", "force_close"})) :
             /\ row[t].status \in {"in_progress", "review"} /\ Log(t, events)
             /\ row' = [row EXCEPT ![t].status = "closed", ![t].hash = closing[c].hash,
                                   ![t].waiting = FALSE]
             /\ closing' = [closing EXCEPT ![c].task = NoOne, ![c].hash = 0] /\ UNCHANGED dossier
             /\ events # <<>> /\ events[Len(events)].name = "close"
             /\ \/ Len(events) = 2 /\ events[1].name = "force_close"
                \/ /\ Len(events) = 1
                   /\ DispatchInCurrentCycle(t) /\ MissingReceipts(t, Roster(t)) = {}
      BY <2>1, <3>0, CloseLogs
    <3>2. Reviewed(t)' /\ Places(t, {"close"})' # {}
      BY <3>1, CloseReviews
    <3>3. \A u \in Tasks \ {t} : row'[u] = row[u]
      BY <1>0, <3>1
    <3>4. ASSUME NEW u \in Tasks \ {t}, row'[u].status = "closed"
          PROVE  Reviewed(u)' /\ Places(u, {"close"})' # {}
      <4>1. Reviewed(u) /\ Places(u, {"close"}) # {}
        BY <3>3, <3>4 DEF Recorded, ClosedWasReviewed
      <4> QED BY <3>1, <4>1, ReviewedKept
    <3> QED BY <3>2, <3>4 DEF Recorded, ClosedWasReviewed
  <2> QED BY <1>1, <1>3, <2>1 DEF Close, ClosePack, CloseGivenUp
<1> QED BY <1>1, <1>2, <1>3 DEF Next, EditDossier, vars

(***************************************************************************)
(* The row a trail tells.                                                  *)
(***************************************************************************)

\* The last event of s with one of the names is e; s has no such event.
Tops(s, names, e) ==
    \E k \in 1..Len(s) :
        /\ s[k] = e /\ e.name \in names
        /\ \A j \in 1..Len(s) : j > k => s[j].name \notin names
Lacks(s, names) == \A j \in 1..Len(s) : s[j].name \notin names

Moves == {"create", "start", "review", "close", "reopen"}
Marks == {"waiting_set", "waiting_clear", "close", "reopen"}
Filings == {"archive", "forced_archive"}

\* What a trail says of each field of its row.
TellsStatus(s, r) == \E e \in Event : Tops(s, Moves, e) /\ r.status = StatusAfter(e.name)
TellsWaiting(s, r) == \E e \in Event : Tops(s, Marks, e) /\ r.waiting = (e.name = "waiting_set")
TellsArchived(s, r) == r.archived /\ ~Lacks(s, Filings)
TellsHash(s, r) == \E e \in Event : Tops(s, {"close"}, e) /\ r.hash = e.hash
TellsAssignee(s, r) == \E e \in Event : Tops(s, {"start"}, e) /\ r.assignee = e.who

\* The row r is the one the trail s tells.
Told(s, r) ==
    /\ TellsStatus(s, r)
    /\ TellsWaiting(s, r) \/ (Lacks(s, Marks) /\ ~r.waiting)
    /\ TellsArchived(s, r) \/ (Lacks(s, Filings) /\ ~r.archived)
    /\ TellsHash(s, r) \/ (Lacks(s, {"close"}) /\ r.hash = 0)
    /\ TellsAssignee(s, r) \/ Lacks(s, {"start"})

AllTold == \A t \in Tasks : trail[t] # <<>> => Told(trail[t], row[t])

\* The events s of one verb tell what it did to row r, and it became p.
Tells(s, r, p) ==
    /\ TellsStatus(s, p) \/ (Lacks(s, Moves) /\ p.status = r.status)
    /\ TellsWaiting(s, p) \/ (Lacks(s, Marks) /\ p.waiting = r.waiting)
    /\ TellsArchived(s, p) \/ (Lacks(s, Filings) /\ p.archived = r.archived)
    /\ TellsHash(s, p) \/ (Lacks(s, {"close"}) /\ p.hash = r.hash)
    /\ TellsAssignee(s, p) \/ (Lacks(s, {"start"}) /\ p.assignee = r.assignee)

\* What comes last in a concatenation.
LEMMA TopsConcat ==
    ASSUME NEW p \in Seq(Event), NEW q \in Seq(Event), NEW names
    PROVE  /\ Lacks(p, names) /\ Lacks(q, names) => Lacks(p \o q, names)
           /\ ~Lacks(p, names) \/ ~Lacks(q, names) => ~Lacks(p \o q, names)
           /\ \A e : Tops(q, names, e) => Tops(p \o q, names, e)
           /\ \A e : Tops(p, names, e) /\ Lacks(q, names) => Tops(p \o q, names, e)
<1> DEFINE r == p \o q
<1>1. /\ Len(r) = Len(p) + Len(q)
      /\ \A i \in 1 .. Len(p) + Len(q) : r[i] = IF i <= Len(p) THEN p[i] ELSE q[i - Len(p)]
  BY ConcatProperties
<1>2. Len(p) \in Nat /\ Len(q) \in Nat
  OBVIOUS
<1> HIDE DEF r
<1>3. \A i \in 1..Len(p) : i \in 1..Len(r) /\ r[i] = p[i]
  BY <1>1, <1>2
<1>4. \A i \in 1..Len(q) : Len(p) + i \in 1..Len(r) /\ r[Len(p) + i] = q[i]
  BY <1>1, <1>2
<1>5. \A i \in 1..Len(r) : i \in 1..Len(p) \/ i - Len(p) \in 1..Len(q)
  BY <1>1, <1>2
<1>6. \A i \in 1..Len(r) : i - Len(p) \in 1..Len(q) => r[i] = q[i - Len(p)]
  BY <1>1, <1>2
<1>7. Lacks(p, names) /\ Lacks(q, names) => Lacks(r, names)
  BY <1>3, <1>5, <1>6 DEF Lacks
<1>8. ~Lacks(p, names) \/ ~Lacks(q, names) => ~Lacks(r, names)
  BY <1>3, <1>4 DEF Lacks
<1>9. ASSUME NEW e, Tops(q, names, e) PROVE Tops(r, names, e)
  <2>1. PICK k \in 1..Len(q) :
           /\ q[k] = e /\ e.name \in names
           /\ \A j \in 1..Len(q) : j > k => q[j].name \notin names
    BY <1>9 DEF Tops
  <2>2. ASSUME NEW j \in 1..Len(r), j > Len(p) + k PROVE r[j].name \notin names
    <3>1. j - Len(p) \in 1..Len(q) /\ j - Len(p) > k
      BY <1>1, <1>2, <2>2
    <3> QED BY <1>6, <2>1, <3>1
  <2> QED BY <1>4, <2>1, <2>2 DEF Tops
<1>10. ASSUME NEW e, Tops(p, names, e), Lacks(q, names) PROVE Tops(r, names, e)
  <2>1. PICK k \in 1..Len(p) :
           /\ p[k] = e /\ e.name \in names
           /\ \A j \in 1..Len(p) : j > k => p[j].name \notin names
    BY <1>10 DEF Tops
  <2>2. ASSUME NEW j \in 1..Len(r), j > k PROVE r[j].name \notin names
    BY <1>3, <1>5, <1>6, <1>10, <2>1, <2>2 DEF Lacks
  <2> QED BY <1>3, <2>1, <2>2 DEF Tops
<1> QED BY <1>7, <1>8, <1>9, <1>10 DEF r

\* A single event comes last if it has the name.
LEMMA TopsOne ==
    ASSUME NEW e \in Event, NEW names
    PROVE  /\ <<e>> \in Seq(Event)
           /\ e.name \in names => Tops(<<e>>, names, e) /\ ~Lacks(<<e>>, names)
           /\ e.name \notin names => Lacks(<<e>>, names)
<1> DEFINE s == <<e>>
<1>1. s \in Seq(Event) /\ Len(s) = 1 /\ s[1] = e
  OBVIOUS
<1> HIDE DEF s
<1> QED BY <1>1 DEF Tops, Lacks, s

\* What a trail tells, and a verb tells after it, the longer trail tells.
LEMMA ToldOn ==
    ASSUME NEW p \in Seq(Event), NEW q \in Seq(Event), NEW r \in Row, NEW n,
           Told(p, r), Tells(q, r, n)
    PROVE  Told(p \o q, n)
<1>1. r.archived \in BOOLEAN /\ r.waiting \in BOOLEAN
  BY DEF Row
<1>2. TellsStatus(p \o q, n)
  BY TopsConcat DEF Told, Tells, TellsStatus
<1>3. TellsWaiting(p \o q, n) \/ (Lacks(p \o q, Marks) /\ ~n.waiting)
  BY <1>1, TopsConcat DEF Told, Tells, TellsWaiting
<1>4. TellsArchived(p \o q, n) \/ (Lacks(p \o q, Filings) /\ ~n.archived)
  BY <1>1, TopsConcat DEF Told, Tells, TellsArchived
<1>5. TellsHash(p \o q, n) \/ (Lacks(p \o q, {"close"}) /\ n.hash = 0)
  BY TopsConcat DEF Told, Tells, TellsHash
<1>6. TellsAssignee(p \o q, n) \/ Lacks(p \o q, {"start"})
  BY TopsConcat DEF Told, Tells, TellsAssignee
<1> QED BY <1>2, <1>3, <1>4, <1>5, <1>6 DEF Told

\* A verb extends the trail of one task by events that tell what it did to the row.
Does(t) ==
    \E s \in Seq(Event) :
        /\ trail' = [trail EXCEPT ![t] = @ \o s]
        /\ row' \in [Tasks -> Row] /\ \A u \in Tasks \ {t} : row'[u] = row[u]
        /\ Tells(s, row[t], row'[t])

\* One event that moves nothing leaves every field to the row as it was.
LEMMA IdleTells ==
    ASSUME NEW e \in Event, NEW r,
           e.name \notin Moves \cup Marks \cup Filings
    PROVE  <<e>> \in Seq(Event) /\ Tells(<<e>>, r, r)
<1>1. \A names \in {Moves, Marks, Filings, {"close"}, {"start"}} : e.name \notin names
  BY DEF Moves, Marks
<1>2. /\ Lacks(<<e>>, Moves) /\ Lacks(<<e>>, Marks) /\ Lacks(<<e>>, Filings)
      /\ Lacks(<<e>>, {"close"}) /\ Lacks(<<e>>, {"start"}) /\ <<e>> \in Seq(Event)
  BY <1>1, TopsOne
<1> QED BY <1>2 DEF Tells

\* A verb that logs one such event and leaves the rows alone.
LEMMA IdleDoes ==
    ASSUME TypeOK, NEW t \in Tasks, NEW e \in Event, Log(t, <<e>>), UNCHANGED row,
           e.name \notin Moves \cup Marks \cup Filings
    PROVE  Does(t)
<1>1. <<e>> \in Seq(Event) /\ Tells(<<e>>, row[t], row[t])
  BY IdleTells
<1> QED BY <1>1 DEF Does, Log, TypeOK

\* start: the picker is on the record.
LEMMA StartDoes ==
    ASSUME TypeOK, NEW t \in Tasks, NEW actor \in People, NEW force \in BOOLEAN,
           Start(t, actor, force)
    PROVE  Does(t)
<1> DEFINE who == IF row[t].assignee = NoOne THEN actor ELSE row[t].assignee
           last == [Plain("start") EXCEPT !.who = who]
           escape == Plain("force_start")
           s == IF SerialBlocked(who, t) THEN <<escape, last>> ELSE <<last>>
           p == [row[t] EXCEPT !.status = "in_progress", !.assignee = who]
<1>1. who \in People
  BY DEF TypeOK, Row
<1>2. trail' = [trail EXCEPT ![t] = @ \o s] /\ row' = [row EXCEPT ![t] = p]
  BY DEF Start, Log, TypeOK, Row
<1> HIDE DEF who
<1>3. /\ last \in Event /\ last.name = "start" /\ last.who = who
      /\ escape \in Event /\ escape.name = "force_start"
  <2>1. "start" \in Names /\ "force_start" \in Names /\ who \in People \cup {NoOne}
    BY <1>1 DEF Names
  <2>2. last.who = who
    BY DEF Plain
  <2> QED BY <2>1, <2>2, PlainType
<1>r. row[t] \in Row
  BY DEF TypeOK
<1> HIDE DEF last, escape
<1>4. /\ p \in Row /\ p.status = "in_progress" /\ p.assignee = who /\ p.waiting = row[t].waiting
      /\ p.archived = row[t].archived /\ p.hash = row[t].hash
  BY <1>1, <1>r DEF Row, Statuses
<1> HIDE DEF p
<1>5. /\ Tops(<<last>>, Moves, last) /\ Tops(<<last>>, {"start"}, last)
      /\ Lacks(<<last>>, Marks) /\ Lacks(<<last>>, Filings) /\ Lacks(<<last>>, {"close"})
      /\ <<last>> \in Seq(Event)
  BY <1>3, TopsOne DEF Moves, Marks, Filings
<1>6. /\ Lacks(<<escape>>, Marks) /\ Lacks(<<escape>>, Filings) /\ Lacks(<<escape>>, {"close"})
      /\ <<escape>> \in Seq(Event)
  BY <1>3, TopsOne DEF Marks, Filings
<1>7. <<escape, last>> = <<escape>> \o <<last>>
  OBVIOUS
<1>8. /\ s \in Seq(Event) /\ Tops(s, Moves, last) /\ Tops(s, {"start"}, last)
      /\ Lacks(s, Marks) /\ Lacks(s, Filings) /\ Lacks(s, {"close"})
  <2>1. CASE SerialBlocked(who, t)
    <3>1. s = <<escape>> \o <<last>>
      BY <1>7, <2>1
    <3> HIDE DEF s
    <3>2. s \in Seq(Event)
      BY <1>5, <1>6, <3>1, ConcatProperties
    <3> QED BY <1>5, <1>6, <3>1, <3>2, TopsConcat
  <2>2. CASE ~SerialBlocked(who, t)
    BY <1>5, <2>2
  <2> QED BY <2>1, <2>2
<1> HIDE DEF s
<1>9. Tells(s, row[t], p)
  BY <1>3, <1>4, <1>8 DEF Tells, TellsStatus, TellsAssignee, StatusAfter
<1> QED BY <1>2, <1>4, <1>8, <1>9 DEF Does, TypeOK

\* An escape that may be logged before an event tells nothing.
LEMMA EscapeTells ==
    ASSUME NEW b \in BOOLEAN, NEW escape \in {"force_close", "force_reopen"}, NEW e \in Event
    PROVE  LET s == When(b, escape) \o <<e>>
           IN  /\ s \in Seq(Event)
               /\ \A names \in {Moves, Marks, Filings, {"close"}, {"start"}} :
                     /\ e.name \in names => Tops(s, names, e)
                     /\ e.name \notin names => Lacks(s, names)
<1> DEFINE w == When(b, escape)
           v == <<e>>
<1>1. escape \in Names /\ Plain(escape) \in Event /\ Plain(escape).name = escape
  BY PlainType DEF Names
<1>2. w \in Seq(Event) /\ \A names : escape \notin names => Lacks(w, names)
  <2>1. CASE b
    <3>1. w = <<Plain(escape)>>
      BY <2>1 DEF When
    <3> HIDE DEF w
    <3> QED BY <1>1, <3>1, TopsOne
  <2>2. CASE ~b
    <3>1. w = <<>>
      BY <2>2 DEF When
    <3> HIDE DEF w
    <3> QED BY <3>1 DEF Lacks
  <2> QED BY <2>1, <2>2
<1>3. \A names \in {Moves, Marks, Filings, {"close"}, {"start"}} : escape \notin names
  BY DEF Moves, Marks, Filings
<1>4. v \in Seq(Event) /\ \A names : /\ e.name \in names => Tops(v, names, e)
                                     /\ e.name \notin names => Lacks(v, names)
  BY TopsOne
<1> HIDE DEF w, v
<1>5. w \o v \in Seq(Event)
  BY <1>2, <1>4, ConcatProperties
<1>6. ASSUME NEW names \in {Moves, Marks, Filings, {"close"}, {"start"}}
      PROVE  /\ e.name \in names => Tops(w \o v, names, e)
             /\ e.name \notin names => Lacks(w \o v, names)
  <2>1. Lacks(w, names)
    BY <1>2, <1>3
  <2> QED BY <1>2, <1>4, <2>1, TopsConcat
<1> QED BY <1>5, <1>6 DEF w, v

\* reopen.
LEMMA ReopenDoes ==
    ASSUME TypeOK, NEW t \in Tasks, NEW force \in BOOLEAN, Reopen(t, force)
    PROVE  Does(t)
<1> DEFINE blocked == row[t].assignee # NoOne /\ SerialBlocked(row[t].assignee, t)
           e == Plain("reopen")
           s == When(blocked, "force_reopen") \o <<e>>
           p == [row[t] EXCEPT !.status = "in_progress", !.waiting = FALSE]
<1>1. trail' = [trail EXCEPT ![t] = @ \o s] /\ row' = [row EXCEPT ![t] = p]
  BY DEF Reopen, Log, TypeOK, Row
<1>2. blocked \in BOOLEAN
  OBVIOUS
<1>3. e \in Event /\ e.name = "reopen"
  BY PlainType DEF Names
<1>r. row[t] \in Row
  BY DEF TypeOK
<1> HIDE DEF blocked, e
<1>4. /\ p \in Row /\ p.status = "in_progress" /\ p.assignee = row[t].assignee /\ p.waiting = FALSE
      /\ p.archived = row[t].archived /\ p.hash = row[t].hash
  BY <1>r DEF Row, Statuses
<1> HIDE DEF p
<1>5. /\ s \in Seq(Event) /\ Tops(s, Moves, e) /\ Tops(s, Marks, e)
      /\ Lacks(s, Filings) /\ Lacks(s, {"close"}) /\ Lacks(s, {"start"})
  <2>1. /\ e.name \in Moves /\ e.name \in Marks
        /\ e.name \notin Filings /\ e.name \notin {"close"} /\ e.name \notin {"start"}
    BY <1>3 DEF Moves, Marks, Filings
  <2> QED BY <1>2, <1>3, <2>1, EscapeTells
<1> HIDE DEF s
<1>6. Tells(s, row[t], p)
  BY <1>3, <1>4, <1>5 DEF Tells, TellsStatus, TellsWaiting, StatusAfter
<1> QED BY <1>1, <1>4, <1>5, <1>6 DEF Does, TypeOK

\* close: the archive is on the record.
LEMMA CloseDoes ==
    ASSUME TypeOK, NEW c \in Closers, NEW force \in BOOLEAN, CloseCommit(c, force),
           NEW t \in Tasks, closing[c].task = t
    PROVE  Does(t)
<1> DEFINE e == [Plain("close") EXCEPT !.hash = closing[c].hash]
           s == When(force, "force_close") \o <<e>>
           p == [row[t] EXCEPT !.status = "closed", !.hash = closing[c].hash, !.waiting = FALSE]
<1>1. trail' = [trail EXCEPT ![t] = @ \o s] /\ row' = [row EXCEPT ![t] = p]
  BY DEF CloseCommit, Log, TypeOK, Row
<1>2. closing[c].hash \in Versions
  BY DEF TypeOK
<1>3. e \in Event /\ e.name = "close" /\ e.hash = closing[c].hash
  <2>1. "close" \in Names
    BY DEF Names
  <2>2. e.hash = closing[c].hash
    BY DEF Plain
  <2> QED BY <1>2, <2>1, <2>2, PlainType
<1> HIDE DEF e, s
<1>r. row[t] \in Row
  BY DEF TypeOK
<1>4. /\ p \in Row /\ p.status = "closed" /\ p.assignee = row[t].assignee /\ p.waiting = FALSE
      /\ p.archived = row[t].archived /\ p.hash = closing[c].hash
  BY <1>2, <1>r DEF Row, Statuses
<1> HIDE DEF p
<1> USE DEF s
<1>5. /\ s \in Seq(Event) /\ Tops(s, Moves, e) /\ Tops(s, Marks, e) /\ Tops(s, {"close"}, e)
      /\ Lacks(s, Filings) /\ Lacks(s, {"start"})
  <2>1. /\ e.name \in Moves /\ e.name \in Marks /\ e.name \in {"close"}
        /\ e.name \notin Filings /\ e.name \notin {"start"}
    BY <1>3 DEF Moves, Marks, Filings
  <2> QED BY <1>3, <2>1, EscapeTells
<1> HIDE DEF s
<1>6. Tells(s, row[t], p)
  BY <1>3, <1>4, <1>5 DEF Tells, TellsStatus, TellsWaiting, TellsHash, StatusAfter
<1> QED BY <1>1, <1>4, <1>5, <1>6 DEF Does, TypeOK

\* archive.
LEMMA ArchiveDoes ==
    ASSUME TypeOK, NEW t \in Tasks, NEW force \in BOOLEAN, ArchiveTask(t, force)
    PROVE  Does(t)
<1> DEFINE name == IF row[t].status # "closed" THEN "forced_archive" ELSE "archive"
           e == Plain(name)
           p == [row[t] EXCEPT !.archived = TRUE]
<1>1. trail' = [trail EXCEPT ![t] = @ \o <<e>>] /\ row' = [row EXCEPT ![t] = p]
  BY DEF ArchiveTask, Log, TypeOK, Row
<1>2. name \in Filings /\ name \in Names
  BY DEF Filings, Names
<1> HIDE DEF name
<1>3. e \in Event /\ e.name = name
  BY <1>2, PlainType
<1>r. row[t] \in Row
  BY DEF TypeOK
<1> HIDE DEF e
<1>4. /\ p \in Row /\ p.status = row[t].status /\ p.assignee = row[t].assignee
      /\ p.waiting = row[t].waiting /\ p.archived = TRUE /\ p.hash = row[t].hash
  BY <1>r DEF Row
<1> HIDE DEF p
<1>5. /\ <<e>> \in Seq(Event) /\ ~Lacks(<<e>>, Filings) /\ Lacks(<<e>>, Moves)
      /\ Lacks(<<e>>, Marks) /\ Lacks(<<e>>, {"close"}) /\ Lacks(<<e>>, {"start"})
  <2>1. /\ e.name \in Filings /\ e.name \notin Moves /\ e.name \notin Marks
        /\ e.name \notin {"close"} /\ e.name \notin {"start"}
    BY <1>2, <1>3 DEF Moves, Marks, Filings
  <2> QED BY <1>3, <2>1, TopsOne
<1>6. Tells(<<e>>, row[t], p)
  BY <1>4, <1>5 DEF Tells, TellsArchived
<1> QED BY <1>1, <1>4, <1>5, <1>6 DEF Does, TypeOK

\* A checkpoint: the review, if any, is its last move, and the waiting marker
\* its only mark.
LEMMA CheckpointDoes ==
    ASSUME TypeOK, NEW t \in Tasks, NEW actor \in People, NEW review \in BOOLEAN,
           NEW waiting \in {"keep", "set", "clear"}, NEW receipt \in BOOLEAN, NEW note \in BOOLEAN,
           Checkpoint(t, actor, review, waiting, receipt, note)
    PROVE  Does(t)
<1> DEFINE e1 == When(review, "review")
           e2 == When(waiting = "set", "waiting_set")
           e3 == When(waiting = "clear", "waiting_clear")
           e4 == IF receipt THEN <<[Plain("receipt") EXCEPT !.who = actor]>> ELSE <<>>
           b5 == ~receipt /\ (note \/ (~review /\ waiting = "keep"))
           e5 == When(b5, "note")
           s2 == e1 \o e2
           s3 == s2 \o e3
           s4 == s3 \o e4
           s5 == s4 \o e5
           st == IF review THEN "review" ELSE row[t].status
           wt == CASE waiting = "set" -> TRUE [] waiting = "clear" -> FALSE
                   [] OTHER -> row[t].waiting
           p == [row[t] EXCEPT !.status = st, !.waiting = wt]
           Classes == {Moves, Marks, Filings, {"close"}, {"start"}}
<1>1. trail' = [trail EXCEPT ![t] = @ \o s5] /\ row' = [row EXCEPT ![t] = p]
  BY DEF Checkpoint, Log, TypeOK, Row
<1>2. ASSUME NEW b \in BOOLEAN, NEW name \in Names
      PROVE  /\ When(b, name) \in Seq(Event)
             /\ \A ns : name \notin ns \/ ~b => Lacks(When(b, name), ns)
             /\ \A ns : name \in ns /\ b => Tops(When(b, name), ns, Plain(name))
             /\ Plain(name) \in Event /\ Plain(name).name = name
  <2>1. Plain(name) \in Event /\ Plain(name).name = name
    BY PlainType
  <2>2. CASE b
    <3>1. When(b, name) = <<Plain(name)>>
      BY <2>2 DEF When
    <3> QED BY <2>1, <2>2, <3>1, TopsOne
  <2>3. CASE ~b
    <3>1. When(b, name) = <<>>
      BY <2>3 DEF When
    <3>2. <<>> \in Seq(Event) /\ Len(<<>>) = 0
      OBVIOUS
    <3> QED BY <2>1, <2>3, <3>1, <3>2 DEF Lacks
  <2> QED BY <2>2, <2>3
<1>3. row[t].status \in {"in_progress", "review"}
  BY DEF Checkpoint
<1>4. st \in {"in_progress", "review"} /\ wt \in BOOLEAN
  <2>1. row[t].waiting \in BOOLEAN
    BY DEF TypeOK, Row
  <2> QED BY <1>3, <2>1, Zenon
<1>s. /\ review => st = "review"
      /\ ~review => st = row[t].status
  OBVIOUS
<1>w. /\ waiting = "set" => wt = TRUE
      /\ waiting = "clear" => wt = FALSE
      /\ waiting = "keep" => wt = row[t].waiting
  OBVIOUS
<1> HIDE DEF st, wt
<1>5. /\ p \in Row /\ p.status = st /\ p.assignee = row[t].assignee /\ p.waiting = wt
      /\ p.archived = row[t].archived /\ p.hash = row[t].hash
  BY <1>4 DEF TypeOK, Row, Statuses
<1>n. /\ "review" \in Names /\ "waiting_set" \in Names /\ "waiting_clear" \in Names
      /\ "receipt" \in Names /\ "note" \in Names
  BY DEF Names
\* Which of the parts is in which class.
<1>c. /\ \A ns \in Classes \ {Moves} : "review" \notin ns
      /\ \A ns \in Classes \ {Marks} : "waiting_set" \notin ns /\ "waiting_clear" \notin ns
      /\ \A ns \in Classes : "receipt" \notin ns /\ "note" \notin ns
      /\ "review" \in Moves /\ "waiting_set" \in Marks /\ "waiting_clear" \in Marks
      /\ Moves # Marks
  BY DEF Moves, Marks, Filings
<1>6. /\ e1 \in Seq(Event) /\ Plain("review") \in Event /\ Plain("review").name = "review"
      /\ \A ns \in Classes \ {Moves} : Lacks(e1, ns)
      /\ IF review THEN Tops(e1, Moves, Plain("review")) ELSE Lacks(e1, Moves)
  BY <1>2, <1>n, <1>c
<1>7. /\ e2 \in Seq(Event) /\ Plain("waiting_set") \in Event
      /\ Plain("waiting_set").name = "waiting_set"
      /\ \A ns \in Classes \ {Marks} : Lacks(e2, ns)
      /\ IF waiting = "set" THEN Tops(e2, Marks, Plain("waiting_set")) ELSE Lacks(e2, Marks)
  BY <1>2, <1>n, <1>c
<1>8. /\ e3 \in Seq(Event) /\ Plain("waiting_clear") \in Event
      /\ Plain("waiting_clear").name = "waiting_clear"
      /\ \A ns \in Classes \ {Marks} : Lacks(e3, ns)
      /\ IF waiting = "clear" THEN Tops(e3, Marks, Plain("waiting_clear")) ELSE Lacks(e3, Marks)
  BY <1>2, <1>n, <1>c
<1>9. e4 \in Seq(Event) /\ \A ns \in Classes : Lacks(e4, ns)
  <2> DEFINE f == [Plain("receipt") EXCEPT !.who = actor]
  <2>1. f \in Event /\ f.name = "receipt"
    BY <1>n, PlainType
  <2> HIDE DEF f
  <2>2. CASE receipt
    <3>1. e4 = <<f>>
      BY <2>2 DEF f
    <3> QED BY <1>c, <2>1, <3>1, TopsOne
  <2>3. CASE ~receipt
    <3>1. e4 = <<>> /\ <<>> \in Seq(Event) /\ Len(<<>>) = 0
      BY <2>3
    <3> QED BY <3>1 DEF Lacks
  <2> QED BY <2>2, <2>3
<1>10. e5 \in Seq(Event) /\ \A ns \in Classes : Lacks(e5, ns)
  <2>1. b5 \in BOOLEAN
    OBVIOUS
  <2> HIDE DEF b5
  <2> QED BY <1>2, <1>n, <1>c, <2>1
<1> HIDE DEF e1, e2, e3, e4, e5
<1>11. s2 \in Seq(Event) /\ s3 \in Seq(Event) /\ s4 \in Seq(Event) /\ s5 \in Seq(Event)
  BY <1>6, <1>7, <1>8, <1>9, <1>10, ConcatProperties
<1>12. \A ns \in Classes \ {Moves, Marks} : Lacks(s5, ns)
  <2> SUFFICES ASSUME NEW ns \in Classes \ {Moves, Marks} PROVE Lacks(s5, ns)
    OBVIOUS
  <2>1. Lacks(e1, ns) /\ Lacks(e2, ns) /\ Lacks(e3, ns) /\ Lacks(e4, ns) /\ Lacks(e5, ns)
    BY <1>6, <1>7, <1>8, <1>9, <1>10
  <2> HIDE DEF Classes
  <2>2. Lacks(s2, ns)
    BY <1>6, <1>7, <2>1, TopsConcat
  <2> HIDE DEF s2
  <2>3. Lacks(s3, ns)
    BY <1>11, <1>8, <2>1, <2>2, TopsConcat
  <2> HIDE DEF s3
  <2>4. Lacks(s4, ns)
    BY <1>11, <1>9, <2>1, <2>3, TopsConcat
  <2> HIDE DEF s4
  <2> QED BY <1>11, <1>10, <2>1, <2>4, TopsConcat
<1>13. IF review THEN Tops(s5, Moves, Plain("review")) ELSE Lacks(s5, Moves)
  <2> DEFINE Ends(s) == IF review THEN Tops(s, Moves, Plain("review")) ELSE Lacks(s, Moves)
  <2>1. Ends(e1) /\ Lacks(e2, Moves) /\ Lacks(e3, Moves) /\ Lacks(e4, Moves) /\ Lacks(e5, Moves)
    BY <1>c, <1>6, <1>7, <1>8, <1>9, <1>10
  <2> HIDE DEF Classes
  <2>2. Ends(s2)
    BY <1>6, <1>7, <2>1, TopsConcat
  <2> HIDE DEF s2
  <2>3. Ends(s3)
    BY <1>11, <1>8, <2>1, <2>2, TopsConcat
  <2> HIDE DEF s3
  <2>4. Ends(s4)
    BY <1>11, <1>9, <2>1, <2>3, TopsConcat
  <2> HIDE DEF s4
  <2> QED BY <1>11, <1>10, <2>1, <2>4, TopsConcat
<1>14. CASE waiting = "keep"
  <2>1. Lacks(e1, Marks) /\ Lacks(e2, Marks) /\ Lacks(e3, Marks) /\ Lacks(e4, Marks)
        /\ Lacks(e5, Marks)
    BY <1>c, <1>6, <1>7, <1>8, <1>9, <1>10, <1>14
  <2>2. Lacks(s2, Marks)
    BY <1>6, <1>7, <2>1, TopsConcat
  <2>3. Lacks(s3, Marks)
    <3> HIDE DEF s2
    <3> QED BY <1>11, <1>8, <2>1, <2>2, TopsConcat
  <2>4. Lacks(s4, Marks)
    <3> HIDE DEF s3
    <3> QED BY <1>11, <1>9, <2>1, <2>3, TopsConcat
  <2>5. Lacks(s5, Marks)
    <3> HIDE DEF s4
    <3> QED BY <1>11, <1>10, <2>1, <2>4, TopsConcat
  <2> HIDE DEF s5, p
  <2>6. Lacks(s5, Filings) /\ Lacks(s5, {"close"}) /\ Lacks(s5, {"start"})
    BY <1>12 DEF Moves, Marks, Filings
  <2>7. Tells(s5, row[t], p)
    BY <1>5, <1>6, <1>13, <1>14, <1>s, <1>w, <2>5, <2>6 DEF Tells, TellsStatus, StatusAfter
  <2> QED BY <1>1, <1>5, <1>11, <2>7 DEF Does, TypeOK
<1>15. CASE waiting # "keep"
  <2> DEFINE e == Plain(IF waiting = "set" THEN "waiting_set" ELSE "waiting_clear")
  <2>1. e \in Event /\ wt = (e.name = "waiting_set")
    BY <1>7, <1>8, <1>15, <1>w
  <2>2. Tops(s3, Marks, e)
    <3>1. CASE waiting = "set"
      <4>1. Tops(e2, Marks, e) /\ Lacks(e3, Marks)
        BY <1>7, <1>8, <3>1
      <4> HIDE DEF e
      <4>2. Tops(s2, Marks, e)
        BY <1>6, <1>7, <4>1, TopsConcat
      <4> HIDE DEF s2
      <4> QED BY <1>11, <1>8, <4>1, <4>2, TopsConcat
    <3>2. CASE waiting = "clear"
      <4>1. Tops(e3, Marks, e)
        BY <1>8, <3>2
      <4> HIDE DEF e, s2
      <4> QED BY <1>11, <1>8, <4>1, TopsConcat
    <3> QED BY <1>15, <3>1, <3>2
  <2> HIDE DEF e
  <2>3. Tops(s4, Marks, e)
    <3> HIDE DEF s3
    <3> QED BY <1>11, <1>9, <2>2, TopsConcat
  <2>4. Tops(s5, Marks, e)
    <3> HIDE DEF s4
    <3> QED BY <1>11, <1>10, <2>3, TopsConcat
  <2> HIDE DEF s5, p
  <2>5. Lacks(s5, Filings) /\ Lacks(s5, {"close"}) /\ Lacks(s5, {"start"})
    BY <1>12 DEF Moves, Marks, Filings
  <2>6. TellsWaiting(s5, p)
    BY <1>5, <2>1, <2>4 DEF TellsWaiting
  <2>7. TellsStatus(s5, p) \/ (Lacks(s5, Moves) /\ p.status = row[t].status)
    BY <1>5, <1>6, <1>13, <1>s DEF TellsStatus, StatusAfter
  <2>8. Tells(s5, row[t], p)
    BY <1>5, <2>5, <2>6, <2>7 DEF Tells
  <2> QED BY <1>1, <1>5, <1>11, <2>8 DEF Does, TypeOK
<1> QED BY <1>14, <1>15

\* Every verb but the creation of a task does what it tells.
LEMMA VerbDoes ==
    ASSUME TypeOK, NEW t \in Tasks, Verb(t)
    PROVE  \/ Does(t) /\ row[t].status # "none"
           \/ \E who \in People \cup {NoOne}, filed \in {0, 1} : Create(t, who, filed)
<1>1. ASSUME NEW seats \in SUBSET People, Dispatch(t, seats) PROVE Does(t) /\ row[t].status # "none"
  <2> DEFINE e == [Plain("dispatch") EXCEPT !.seats = seats]
  <2>1. e \in Event /\ e.name = "dispatch"
    BY PlainType DEF Names
  <2>2. Log(t, <<e>>) /\ UNCHANGED row /\ row[t].status # "none"
    BY <1>1 DEF Dispatch
  <2> HIDE DEF e
  <2> QED BY <2>1, <2>2, IdleDoes DEF Moves, Marks, Filings
<1>2. ASSUME NEW name \in {"note", "gate_report", "chain_op", "forced_chain_op"},
             Log(t, <<Plain(name)>>), UNCHANGED row
      PROVE  Does(t)
  <2>1. Plain(name) \in Event /\ Plain(name).name = name
    BY PlainType DEF Names
  <2> QED BY <1>2, <2>1, IdleDoes DEF Moves, Marks, Filings
<1>3. ASSUME Annotate(t) \/ GateReport(t) PROVE Does(t) /\ row[t].status # "none"
  BY <1>2, <1>3 DEF Annotate, GateReport
<1>4. ASSUME NEW force \in BOOLEAN, ChainOp(t, force) PROVE Does(t) /\ row[t].status # "none"
  BY <1>2, <1>4 DEF ChainOp
<1>5. ASSUME NEW actor \in People, NEW force \in BOOLEAN, Start(t, actor, force)
      PROVE  Does(t) /\ row[t].status # "none"
  BY <1>5, StartDoes DEF Start
<1>6. ASSUME NEW force \in BOOLEAN, Reopen(t, force) PROVE Does(t) /\ row[t].status # "none"
  BY <1>6, ReopenDoes DEF Reopen
<1>7. ASSUME NEW force \in BOOLEAN, ArchiveTask(t, force) PROVE Does(t) /\ row[t].status # "none"
  BY <1>7, ArchiveDoes DEF ArchiveTask
<1>8. ASSUME NEW actor \in People, NEW review \in BOOLEAN, NEW receipt \in BOOLEAN,
             NEW note \in BOOLEAN, NEW waiting \in {"keep", "set", "clear"},
             Checkpoint(t, actor, review, waiting, receipt, note)
      PROVE  Does(t) /\ row[t].status # "none"
  <2>1. Does(t)
    BY <1>8, CheckpointDoes
  <2>2. row[t].status \in {"in_progress", "review"}
    BY <1>8 DEF Checkpoint
  <2> QED BY <2>1, <2>2
<1> QED BY <1>1, <1>3, <1>4, <1>5, <1>6, <1>7, <1>8 DEF Verb

\* A verb that does what it tells keeps the rows told by their trails.
LEMMA DoesTold ==
    ASSUME TypeOK, AllTold, NEW t \in Tasks, Does(t), row[t].status # "none"
    PROVE  AllTold'
<1>1. PICK s \in Seq(Event) :
        /\ trail' = [trail EXCEPT ![t] = @ \o s]
        /\ row' \in [Tasks -> Row] /\ \A u \in Tasks \ {t} : row'[u] = row[u]
        /\ Tells(s, row[t], row'[t])
  BY DEF Does
<1>2. /\ trail[t] \in Seq(Event) /\ trail[t] # <<>> /\ row[t] \in Row
      /\ trail'[t] = trail[t] \o s /\ \A u \in Tasks \ {t} : trail'[u] = trail[u]
  BY <1>1 DEF TypeOK
<1>3. Told(trail'[t], row'[t])
  <2>1. Told(trail[t], row[t])
    BY <1>2 DEF AllTold
  <2>2. Told(trail[t] \o s, row'[t])
    BY <1>1, <1>2, <2>1, ToldOn
  <2> QED BY <1>2, <2>2
<1>4. ASSUME NEW u \in Tasks \ {t}, trail'[u] # <<>> PROVE Told(trail'[u], row'[u])
  BY <1>1, <1>2, <1>4 DEF AllTold
<1> QED BY <1>3, <1>4 DEF AllTold

\* Each step keeps the rows told by their trails.
LEMMA NextTold == TypeOK /\ AllTold /\ [Next]_vars => AllTold'
<1> SUFFICES ASSUME TypeOK, AllTold, [Next]_vars PROVE AllTold'
  OBVIOUS
<1>1. ASSUME UNCHANGED <<row, trail>> PROVE AllTold'
  BY <1>1 DEF AllTold
<1>2. ASSUME NEW t \in Tasks, Verb(t) PROVE AllTold'
  <2>1. ASSUME NEW who \in People \cup {NoOne}, NEW filed \in {0, 1}, Create(t, who, filed)
        PROVE  AllTold'
    <3> DEFINE e == Plain("create")
               p == [Absent EXCEPT !.status = "queued", !.assignee = who]
    <3>1. row' = [row EXCEPT ![t] = p] /\ trail' = [trail EXCEPT ![t] = @ \o <<e>>]
          /\ row[t].status = "none"
      BY <2>1 DEF Create, Log
    <3>2. trail[t] = <<>> /\ row \in [Tasks -> Row] /\ trail \in [Tasks -> Seq(Event)]
      BY <3>1 DEF TypeOK
    <3>3. e \in Event /\ e.name = "create"
      BY PlainType DEF Names
    <3>4. p.status = "queued" /\ p.waiting = FALSE /\ p.archived = FALSE /\ p.hash = 0
      BY DEF Absent
    <3> HIDE DEF e, p
    <3>5. trail'[t] = <<e>>
      BY <3>1, <3>2, <3>3
    <3>6. row'[t] = p /\ \A u \in Tasks \ {t} : row'[u] = row[u] /\ trail'[u] = trail[u]
      BY <3>1, <3>2
    <3>7. /\ Tops(<<e>>, Moves, e) /\ Lacks(<<e>>, Marks) /\ Lacks(<<e>>, Filings)
          /\ Lacks(<<e>>, {"close"}) /\ Lacks(<<e>>, {"start"})
      BY <3>3, TopsOne DEF Moves, Marks, Filings
    <3>8. Told(trail'[t], row'[t])
      BY <3>3, <3>4, <3>5, <3>6, <3>7 DEF Told, TellsStatus, StatusAfter
    <3>9. ASSUME NEW u \in Tasks \ {t}, trail'[u] # <<>> PROVE Told(trail'[u], row'[u])
      BY <3>6, <3>9 DEF AllTold
    <3> QED BY <3>8, <3>9 DEF AllTold
  <2> QED BY <1>2, <2>1, VerbDoes, DoesTold
<1>3. ASSUME NEW c \in Closers, Close(c) PROVE AllTold'
  <2>1. ASSUME NEW force \in BOOLEAN, CloseCommit(c, force) PROVE AllTold'
    <3>1. PICK t \in Tasks : closing[c].task = t
      BY <2>1 DEF CloseCommit, TypeOK
    <3>2. row[t].status # "none"
      BY <2>1, <3>1 DEF CloseCommit
    <3> QED BY <2>1, <3>1, <3>2, CloseDoes, DoesTold
  <2> QED BY <1>1, <1>3, <2>1 DEF Close, ClosePack, CloseGivenUp
<1> QED BY <1>1, <1>2, <1>3 DEF Next, EditDossier, vars

\* What Tops and Lacks say of the latest place.
LEMMA LatestTops ==
    ASSUME TypeOK, NEW t \in Tasks, NEW names
    PROVE  /\ \A e : Tops(trail[t], names, e) =>
                 Latest(t, names) # 0 /\ trail[t][Latest(t, names)] = e
           /\ Lacks(trail[t], names) => Latest(t, names) = 0 /\ Places(t, names) = {}
           /\ ~Lacks(trail[t], names) => Places(t, names) # {}
<1>0. Len(trail[t]) \in Nat
  BY DEF TypeOK
<1>1. ASSUME NEW e, Tops(trail[t], names, e)
      PROVE  Latest(t, names) # 0 /\ trail[t][Latest(t, names)] = e
  <2>1. PICK k \in 1..Len(trail[t]) :
           /\ trail[t][k] = e /\ e.name \in names
           /\ \A j \in 1..Len(trail[t]) : j > k => trail[t][j].name \notin names
    BY <1>1 DEF Tops
  <2>2. k \in Places(t, names) /\ \A i \in Places(t, names) : i <= k
    BY <1>0, <2>1 DEF Places
  <2>3. Latest(t, names) = k
    BY <2>2, LatestUnique
  <2> QED BY <1>0, <2>1, <2>3
<1>2. ASSUME Lacks(trail[t], names) PROVE Latest(t, names) = 0 /\ Places(t, names) = {}
  <2>1. Places(t, names) = {}
    BY <1>2 DEF Lacks, Places
  <2> QED BY <2>1, LatestIs
<1>3. ~Lacks(trail[t], names) => Places(t, names) # {}
  BY DEF Lacks, Places
<1> QED BY <1>1, <1>2, <1>3

(***************************************************************************)
(* The theorems.                                                           *)
(***************************************************************************)

\* The inductive invariant holds throughout.
LEMMA InvCorrect == Spec => []IndInv
<1>1. Init => IndInv
  <2> SUFFICES ASSUME Init PROVE IndInv
    OBVIOUS
  <2>1. \A t \in Tasks : row[t].status = "none"
    BY DEF Init, Absent
  <2>2. \A t \in Tasks : \A ns : Places(t, ns) = {}
    BY DEF Init, Places
  <2> QED BY <2>1, <2>2, InitType
          DEF IndInv, Assigned, Recorded, ReportBeforeMove, SerialUnlessForced, ClosedWasReviewed
<1>2. IndInv /\ [Next]_vars => IndInv'
  BY NextType, NextReport, NextSerial, NextClosed DEF IndInv
<1> QED BY <1>1, <1>2, PTL DEF Spec

\* Rows, events and archives are well formed, and a task has a row exactly when
\* it has a trail.
THEOREM TypeCorrect == Spec => []TypeOK
<1>1. IndInv => TypeOK
  BY DEF IndInv
<1> QED BY <1>1, InvCorrect, PTL

\* Nobody works on two tasks unless one was forced and its trail says so, for
\* every number of people, tasks and moves.
THEOREM SerialCorrect == Spec => []SerialUnlessForced
<1>1. IndInv => SerialUnlessForced
  BY DEF IndInv
<1> QED BY <1>1, InvCorrect, PTL

\* A closed task was reviewed in its last cycle by everybody on its last roster,
\* or its close was forced on the record, after any number of cycles.
THEOREM ReviewCorrect == Spec => []ClosedWasReviewed
<1>1. IndInv => ClosedWasReviewed
  BY DEF IndInv
<1> QED BY <1>1, InvCorrect, PTL

\* Every chain operation on the record has a gate report of its own, unless it
\* was forced.
THEOREM ReportCorrect == Spec => []ReportBeforeMove
<1>1. IndInv => ReportBeforeMove
  BY DEF IndInv
<1> QED BY <1>1, InvCorrect, PTL

\* The trail of every task always derives its row, as the comment on create says
\* it does: after any number of cycles the status, the waiting marker, the
\* archive partition, the archive of the dossier and the picker are those of the
\* last events about them.
THEOREM TrailCorrect == Spec => []TrailDerivesRow
<1>1. Init => AllTold
  BY DEF Init, AllTold
<1>2. TypeOK /\ AllTold => TrailDerivesRow
  <2> SUFFICES ASSUME TypeOK, AllTold, NEW t \in Tasks, trail[t] # <<>>
               PROVE
        /\ row[t].status = StatusAfter(trail[t][Latest(t, Moves)].name)
        /\ row[t].waiting = (Latest(t, Marks) # 0 /\ trail[t][Latest(t, Marks)].name = "waiting_set")
        /\ row[t].archived = (Places(t, Filings) # {})
        /\ row[t].hash = IF Latest(t, {"close"}) = 0 THEN 0 ELSE trail[t][Latest(t, {"close"})].hash
        /\ Latest(t, {"start"}) # 0 => row[t].assignee = trail[t][Latest(t, {"start"})].who
    BY DEF TrailDerivesRow, Moves, Marks, Filings
  <2>0. Told(trail[t], row[t]) /\ row[t].waiting \in BOOLEAN /\ row[t].archived \in BOOLEAN
    BY DEF AllTold, TypeOK, Row
  <2>1. row[t].status = StatusAfter(trail[t][Latest(t, Moves)].name)
    BY <2>0, LatestTops DEF Told, TellsStatus
  <2>2. row[t].waiting = (Latest(t, Marks) # 0 /\ trail[t][Latest(t, Marks)].name = "waiting_set")
    <3>1. CASE TellsWaiting(trail[t], row[t])
      BY <3>1, LatestTops DEF TellsWaiting
    <3>2. CASE Lacks(trail[t], Marks) /\ ~row[t].waiting
      BY <2>0, <3>2, LatestTops
    <3> QED BY <2>0, <3>1, <3>2 DEF Told
  <2>3. row[t].archived = (Places(t, Filings) # {})
    BY <2>0, LatestTops DEF Told, TellsArchived
  <2>4. row[t].hash = IF Latest(t, {"close"}) = 0 THEN 0 ELSE trail[t][Latest(t, {"close"})].hash
    BY <2>0, LatestTops DEF Told, TellsHash
  <2>5. Latest(t, {"start"}) # 0 => row[t].assignee = trail[t][Latest(t, {"start"})].who
    BY <2>0, LatestTops DEF Told, TellsAssignee
  <2> QED BY <2>1, <2>2, <2>3, <2>4, <2>5
<1> QED BY <1>1, <1>2, NextTold, TypeCorrect, PTL DEF Spec
=============================================================================
