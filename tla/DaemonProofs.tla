---------------------------- MODULE DaemonProofs ----------------------------
(***************************************************************************)
(* stop signals, on the word of an anchor, only the tagma of its own       *)
(* instance; a calm slug has one tagma at most, and one that stop can end; *)
(* for every set of instances, processes and requests.                     *)
(*                                                                         *)
(* Two invariants carry the proofs.  NamesInv says what a runtime.json, a  *)
(* record and a request may name.  CalmInv says of a calm slug that its    *)
(* tagma runs alone, that one launch is past the publication of the record *)
(* at most, and which incarnation the record anchors; OpInv says which     *)
(* verb is at which step.                                                  *)
(***************************************************************************)
EXTENDS Daemon, FiniteSetTheorems, TLAPS

\* The incarnation that an anchor a of slug s names, if it still runs, is the
\* slug's own; pr is the process table.
Own(a, s, pr) ==
    a # None /\ pr[a.pid] # None /\ pr[a.pid].starttime = a.starttime => pr[a.pid].of = s

\* What a request q relies on, with t the runtime.json files: while it launches,
\* the runtime.json, cleared before the fork, can name only a tagma of its slug;
\* the record it has read names none but the slug's; so does the pid it stops.
ReqOK(q, t, pr) ==
    /\ q.at \in {"fork", "poll", "anchor", "validate"} /\ t[q.slug] # None /\ pr[t[q.slug]] # None
          => pr[t[q.slug]].of = q.slug
    /\ q.seen # None /\ q.slug \notin Foreign => Own(q.seen.identity, q.slug, pr)
    /\ q.at = "grace" /\ q.slug \notin Foreign /\ q.seen.identity # None /\ pr[q.pid] # None
          => pr[q.pid].of = q.slug

NamesInv ==
    /\ \A r \in Requests : ReqOK(req[r], rt, proc)
    /\ \A s \in Slugs \ Foreign : rec[s] # None => Own(rec[s].identity, s, proc)

IndInv == TypeOK /\ NamesInv

\* No process of pr2 is new: each is in pr, the same incarnation.
Shrinks(pr, pr2) ==
    \A p \in Pids : pr2[p] # None =>
        pr[p] # None /\ pr2[p].of = pr[p].of /\ pr2[p].starttime = pr[p].starttime

\* Which verb is at which step, and whose instances it serves.
OpOK(q) ==
    /\ q.at = "idle" <=> q.op = "none"
    /\ q.at = "create" => q.op \in {"spawn", "adopt"}
    /\ q.at \in {"check", "scrub"} => q.op = "start"
    /\ q.at \in {"clear", "fork", "poll", "anchor", "validate"} => q.op \in {"spawn", "start"}
    /\ q.at \in {"rollback", "forget"} => q.op = "spawn"
    /\ q.at \in {"verify", "grace"} => q.op = "stop"
    /\ q.op = "spawn" => q.slug \notin Foreign
    /\ q.op = "adopt" => q.slug \in Foreign

\* The running tagmata of s.
LiveOf(s, pr) == {p \in Pids : pr[p] # None /\ pr[p].of = s}

\* A launch of s, and one that has got past the publication of the record.
Launches(q, s) == q.slug = s /\ q.op \in {"spawn", "start"}
Busy(q, s) == Launches(q, s) /\ q.at # "create"

Claiming == {"poll", "anchor", "validate"}

\* The record a names the incarnation that has pid p, or leaves it to its name.
Names(a, p, pr) == a.identity \in {None, [pid |-> p, starttime |-> pr[p].starttime]}

\* A tagma runs alone, published or still booting under its launch.
AloneOK(s, t, pr, rq) ==
    /\ \A p, q \in LiveOf(s, pr) : p = q
    /\ \A p \in LiveOf(s, pr) :
          \/ pr[p].up /\ t = p
          \/ ~pr[p].up /\ t = None /\ \E r \in Requests : Launches(rq[r], s) /\ rq[r].at = "poll"

\* A launch past the record is alone, works on a record, and forks only after the
\* runtime.json is gone and when no tagma runs.
LaunchOK(s, record, t, pr, rq) ==
    /\ \A r \in Requests : Busy(rq[r], s) =>
          /\ record # None
          /\ rq[r].at \in {"scrub", "clear", "fork", "rollback", "forget"} => LiveOf(s, pr) = {}
          /\ rq[r].at = "fork" => t = None
          /\ rq[r].at \in {"anchor", "validate"} => rq[r].pid = t
    /\ \A r, q \in Requests :
          Busy(rq[r], s) /\ Launches(rq[q], s) /\ (rq[r].op = "start" \/ Busy(rq[q], s)) => r = q

\* What the record, or the one an adoption is about to publish, says of the tagma.
RecordOK(s, record, pr, rq) ==
    /\ record = None /\ s \notin Foreign => LiveOf(s, pr) = {}
    /\ record # None =>
          \/ \E r \in Requests : Launches(rq[r], s) /\ rq[r].at \in Claiming
          \/ \A p \in LiveOf(s, pr) : Names(record, p, pr)
    /\ record = None => \A r \in Requests :
          rq[r].slug = s /\ rq[r].op = "adopt" =>
              \A p \in LiveOf(s, pr) : Names(rq[r].seen, p, pr)

CalmOK(s, record, t, pr, rq) ==
    AloneOK(s, t, pr, rq) /\ LaunchOK(s, record, t, pr, rq) /\ RecordOK(s, record, pr, rq)

OpInv == \A r \in Requests : OpOK(req[r])
CalmInv == \A s \in calm : CalmOK(s, rec[s], rt[s], proc, req)

\* A request that launches s or adopts it.
Minds(q, s) == q.slug = s /\ q.op \in {"spawn", "start", "adopt"}

\* No tagma of s is new in pr2, or moves on in it.
Fewer(s, pr, pr2) ==
    \A p \in LiveOf(s, pr2) :
        p \in LiveOf(s, pr) /\ pr2[p].up = pr[p].up /\ pr2[p].starttime = pr[p].starttime

(***************************************************************************)
(* Types.                                                                  *)
(***************************************************************************)

\* A membership test is a Boolean.
LEMMA InIsBoolean == ASSUME NEW x, NEW S PROVE (x \in S) \in BOOLEAN
OBVIOUS

\* An idle request is well formed.
LEMMA IdleType == Idle \in Request /\ RequestOK(Idle)
BY DaemonAssumption DEF Idle, Request, RequestOK, Steps

\* A request that is begun is well formed.
LEMMA BeginType ==
    ASSUME TypeOK, NEW r \in Requests, NEW verb \in {"spawn", "start", "stop", "adopt"},
           NEW s \in Slugs, NEW step \in {"create", "check", "verify"}, NEW seen \in Record,
           Begin(r, verb, s, step, seen)
    PROVE  /\ req' \in [Requests -> Request] /\ \A q \in Requests : RequestOK(req'[q])
           /\ served' \in 0..MaxServed
<1> DEFINE new == [op |-> verb, at |-> step, slug |-> s, seen |-> seen, pid |-> None]
<1>1. new \in Request /\ RequestOK(new)
  BY DaemonAssumption DEF Request, RequestOK, Steps
<1>2. req' = [req EXCEPT ![r] = new] /\ served' = served + 1 /\ served < MaxServed
  BY DEF Begin
<1> HIDE DEF new
<1> QED BY <1>1, <1>2, DaemonAssumption DEF TypeOK

\* A request that is over is well formed.
LEMMA FinishType ==
    ASSUME TypeOK, NEW r \in Requests, Finish(r)
    PROVE  req' \in [Requests -> Request] /\ \A q \in Requests : RequestOK(req'[q])
BY IdleType DEF TypeOK, Finish

\* A request that goes on is well formed.
LEMMA ToType ==
    ASSUME TypeOK, NEW r \in Requests, NEW step \in Steps, To(r, step), req[r].at # "idle",
           \/ step = "scrub" /\ req[r].at = "check"
           \/ step = "validate" /\ req[r].at = "anchor"
           \/ step \in {"clear", "fork", "poll", "rollback", "forget"}
                 /\ req[r].at \notin {"anchor", "validate", "grace"}
    PROVE  req' \in [Requests -> Request] /\ \A q \in Requests : RequestOK(req'[q])
<1> DEFINE new == [req[r] EXCEPT !.at = step, !.seen = IF step = "scrub" THEN @ ELSE None]
<1>1. req[r] \in Request /\ RequestOK(req[r])
  BY DEF TypeOK
<1>2. new \in Request /\ new.at = step /\ new.slug = req[r].slug /\ new.pid = req[r].pid
      /\ new.seen = IF step = "scrub" THEN req[r].seen ELSE None
  BY <1>1 DEF Request
<1>3. RequestOK(new)
  BY <1>1, <1>2 DEF RequestOK
<1>4. req' = [req EXCEPT ![r] = new]
  BY <1>1 DEF To, TypeOK, Request
<1> HIDE DEF new
<1> QED BY <1>2, <1>3, <1>4 DEF TypeOK

\* A new process is well formed.
LEMMA BornType ==
    ASSUME TypeOK, NEW p \in Pids, NEW owner \in Slugs \cup {Stranger}, Born(p, owner)
    PROVE  /\ proc' \in [Pids -> Process \cup {None}]
           /\ NewTime \in Times /\ NewTime \notin InUse
<1>1. \E t \in Times : t \notin InUse
  BY DEF Born
<1>2. NewTime \in Times /\ NewTime \notin InUse
  BY <1>1 DEF NewTime
<1>3. [of |-> owner, starttime |-> NewTime, up |-> FALSE] \in Process
  BY <1>2 DEF Process
<1> QED BY <1>2, <1>3 DEF Born, TypeOK

\* The instances started by hand are well formed.
LEMMA InitType == Init => TypeOK
<1> SUFFICES ASSUME Init PROVE TypeOK
  OBVIOUS
<1> USE DaemonAssumption
<1>1. PICK f \in [Foreign -> Pids], b \in [Foreign -> 1..Cardinality(Foreign)] :
         StartedByHand(f, b)
  BY DEF Init
<1>2. 1..Cardinality(Foreign) \subseteq Times
  BY FS_CardinalityType DEF Times
<1>3. ASSUME NEW p \in Pids PROVE proc[p] \in Process \cup {None}
  <2>1. CASE \E s \in Foreign : f[s] = p
    <3> DEFINE s == CHOOSE u \in Foreign : f[u] = p
    <3>1. s \in Foreign
      BY <2>1
    <3> HIDE DEF s
    <3>2. b[s] \in Times /\ s \in Slugs
      BY <1>2, <3>1
    <3>3. [of |-> s, starttime |-> b[s], up |-> TRUE] \in Process
      BY <3>2 DEF Process
    <3>4. proc[p] = [of |-> s, starttime |-> b[s], up |-> TRUE]
      BY <1>1, <2>1 DEF s, StartedByHand
    <3> QED BY <3>3, <3>4
  <2>2. CASE ~ \E s \in Foreign : f[s] = p
    BY <1>1, <2>2 DEF StartedByHand
  <2> QED BY <2>1, <2>2
<1>4. proc \in [Pids -> Process \cup {None}]
  BY <1>1, <1>3 DEF StartedByHand
<1>5. req \in [Requests -> Request] /\ \A r \in Requests : RequestOK(req[r])
  BY IdleType DEF Init
<1>6. rt \in [Slugs -> Pids \cup {None}]
  BY <1>1 DEF StartedByHand
<1> QED BY <1>4, <1>5, <1>6 DEF Init, TypeOK

\* Each step keeps the types.
LEMMA NextType == TypeOK /\ [Next]_vars => TypeOK'
<1> SUFFICES ASSUME TypeOK, [Next]_vars PROVE TypeOK'
  OBVIOUS
<1> USE DaemonAssumption
<1>1. CASE UNCHANGED vars
  BY <1>1 DEF vars, TypeOK
<1>2. ASSUME NEW r \in Requests, Serve(r) PROVE TypeOK'
  <2>0. req[r] \in Request /\ RequestOK(req[r])
    BY DEF TypeOK
  <2>1. ASSUME NEW s \in Slugs, SpawnProbe(r, s) PROVE TypeOK'
    <3>1. [identity |-> None, code |-> s \in Coded] \in Record
      BY InIsBoolean DEF Record
    <3>2. req' \in [Requests -> Request] /\ (\A q \in Requests : RequestOK(req'[q]))
          /\ served' \in 0..MaxServed
      BY <2>1, <3>1, BeginType DEF SpawnProbe
    <3> QED BY <2>1, <3>2 DEF SpawnProbe, TypeOK
  <2>2. ASSUME NEW s \in Slugs, AdoptProbe(r, s) PROVE TypeOK'
    <3> DEFINE anchor == IF Alive(rt[s]) THEN [pid |-> rt[s], starttime |-> proc[rt[s]].starttime] ELSE None
    <3>1. anchor \in Anchor \cup {None}
      BY DEF Alive, TypeOK, Anchor, Process
    <3>2. Begin(r, "adopt", s, "create", [identity |-> anchor, code |-> s \in Coded])
      BY <2>2 DEF AdoptProbe
    <3> HIDE DEF anchor
    <3>3. [identity |-> anchor, code |-> s \in Coded] \in Record
      BY <3>1, InIsBoolean DEF Record
    <3>4. req' \in [Requests -> Request] /\ (\A q \in Requests : RequestOK(req'[q]))
          /\ served' \in 0..MaxServed
      BY <3>2, <3>3, BeginType
    <3> QED BY <2>2, <3>4 DEF AdoptProbe, TypeOK
  <2>3. ASSUME NEW s \in Slugs, StartRead(r, s) \/ StopRead(r, s) PROVE TypeOK'
    <3>1. rec[s] \in Record
      BY <2>3 DEF StartRead, StopRead, TypeOK
    <3>2. req' \in [Requests -> Request] /\ (\A q \in Requests : RequestOK(req'[q]))
          /\ served' \in 0..MaxServed
      BY <2>3, <3>1, BeginType DEF StartRead, StopRead
    <3> QED BY <2>3, <3>2 DEF StartRead, StopRead, TypeOK
  <2>4. CASE CreateRecord(r)
    <3>1. req[r].seen \in Record
      BY <2>0, <2>4 DEF CreateRecord, Request, RequestOK
    <3>2. req' \in [Requests -> Request] /\ \A q \in Requests : RequestOK(req'[q])
      BY <2>4, FinishType, ToType DEF CreateRecord, Steps
    <3> QED BY <2>4, <3>1, <3>2 DEF CreateRecord, TypeOK
  <2>5. CASE StartCheck(r)
    <3>1. req' \in [Requests -> Request] /\ \A q \in Requests : RequestOK(req'[q])
      BY <2>5, FinishType, ToType DEF StartCheck, Steps
    <3> QED BY <2>5, <3>1 DEF StartCheck, TypeOK
  <2>6. CASE ReplayEnv(r)
    <3>1. req' \in [Requests -> Request] /\ \A q \in Requests : RequestOK(req'[q])
      BY <2>6, ToType DEF ReplayEnv, Steps
    <3>2. req[r].seen \in Record
      BY <2>0, <2>6 DEF ReplayEnv, Request, RequestOK
    <3>3. [req[r].seen EXCEPT !.code = FALSE] \in Record
      BY <3>2 DEF Record
    <3>4. rec' \in [Slugs -> Record \cup {None}]
      BY <2>6, <3>3 DEF ReplayEnv, TypeOK
    <3> QED BY <2>6, <3>1, <3>4 DEF ReplayEnv, TypeOK
  <2>7. CASE ClearStaleRuntime(r)
    <3>1. req' \in [Requests -> Request] /\ \A q \in Requests : RequestOK(req'[q])
      BY <2>7, ToType DEF ClearStaleRuntime, Steps
    <3> QED BY <2>7, <3>1 DEF ClearStaleRuntime, TypeOK
  <2>8. CASE LaunchErrs(r)
    <3>1. req' \in [Requests -> Request] /\ \A q \in Requests : RequestOK(req'[q])
      BY <2>8, FinishType, ToType DEF LaunchErrs, LaunchFailed, Steps
    <3> QED BY <2>8, <3>1 DEF LaunchErrs, TypeOK
  <2>9. ASSUME NEW p \in Pids, HelperForks(r, p) PROVE TypeOK'
    <3>1. req' \in [Requests -> Request] /\ \A q \in Requests : RequestOK(req'[q])
      BY <2>9, ToType DEF HelperForks, Steps
    <3>2. req[r].slug \in Slugs
      BY <2>0, <2>9 DEF HelperForks, Request, RequestOK
    <3>3. proc' \in [Pids -> Process \cup {None}]
      BY <2>9, <3>2, BornType DEF HelperForks
    <3> QED BY <2>9, <3>1, <3>3 DEF HelperForks, TypeOK
  <2>10. CASE PollSees(r)
    <3> DEFINE s == req[r].slug
               anchor == [pid |-> rt[s], starttime |-> proc[rt[s]].starttime]
               pinned == [rec[s] EXCEPT !.identity = anchor]
               new == [req[r] EXCEPT !.at = "anchor", !.pid = rt[s], !.seen = pinned]
    <3>1. s \in Slugs /\ rt[s] \in Pids /\ proc[rt[s]] \in Process
      BY <2>0, <2>10 DEF PollSees, Request, RequestOK, Alive, TypeOK
    <3>2. anchor \in Anchor
      BY <3>1 DEF Anchor, Process
    <3>3. CASE rec[s] # None
      <4>1. rec[s] \in Record
        BY <3>1, <3>3 DEF TypeOK
      <4>2. req' = [req EXCEPT ![r] = new]
        BY <2>0, <2>10, <3>3 DEF PollSees, Request, TypeOK
      <4> HIDE DEF anchor
      <4>3. pinned \in Record
        BY <3>2, <4>1 DEF Record
      <4> HIDE DEF pinned
      <4>4. new \in Request /\ new.at = "anchor" /\ new.pid = rt[s] /\ new.seen = pinned /\ new.slug = s
        BY <2>0, <3>1, <4>3 DEF Request, Steps
      <4>5. RequestOK(new)
        BY <3>1, <4>3, <4>4 DEF RequestOK
      <4> HIDE DEF new
      <4> QED BY <2>10, <4>2, <4>4, <4>5 DEF PollSees, TypeOK
    <3>4. CASE rec[s] = None
      <4>1. req' \in [Requests -> Request] /\ \A q \in Requests : RequestOK(req'[q])
        BY <2>10, <3>4, FinishType DEF PollSees
      <4> QED BY <2>10, <4>1 DEF PollSees, TypeOK
    <3> QED BY <3>3, <3>4
  <2>11. CASE AnchorIdentity(r) \/ AnchorCleared(r)
    <3>1. req' \in [Requests -> Request] /\ \A q \in Requests : RequestOK(req'[q])
      BY <2>11, ToType DEF AnchorIdentity, AnchorCleared, Steps
    <3>2. req[r].seen \in Record
      BY <2>0, <2>11 DEF AnchorIdentity, AnchorCleared, Request, RequestOK
    <3>3. [req[r].seen EXCEPT !.identity = None] \in Record
      BY <3>2 DEF Record
    <3>4. rec' \in [Slugs -> Record \cup {None}]
      BY <2>11, <3>2, <3>3 DEF AnchorIdentity, AnchorCleared, TypeOK
    <3> QED BY <2>11, <3>1, <3>4 DEF AnchorIdentity, AnchorCleared, TypeOK
  <2>12. CASE AnchorUnwritten(r)
    <3>1. req' \in [Requests -> Request] /\ \A q \in Requests : RequestOK(req'[q])
      BY <2>12, FinishType DEF AnchorUnwritten
    <3> QED BY <2>12, <3>1 DEF AnchorUnwritten, TypeOK
  <2>13. CASE Revalidate(r)
    <3>1. CASE Finish(r)
      BY <2>13, <3>1, FinishType DEF Revalidate, TypeOK
    <3>2. CASE req' = [req EXCEPT ![r].at = "poll", ![r].pid = None]
      <4> DEFINE new == [req[r] EXCEPT !.at = "poll", !.pid = None]
      <4>1. new \in Request /\ new.at = "poll" /\ new.pid = None /\ new.slug = req[r].slug
            /\ new.seen = req[r].seen
        BY <2>0 DEF Request, Steps
      <4>2. RequestOK(new)
        BY <2>0, <2>13, <4>1 DEF RequestOK, Revalidate
      <4>3. req' = [req EXCEPT ![r] = new]
        BY <2>0, <3>2 DEF Request, TypeOK
      <4> HIDE DEF new
      <4> QED BY <2>13, <4>1, <4>2, <4>3 DEF Revalidate, TypeOK
    <3> QED BY <2>13, <3>1, <3>2 DEF Revalidate
  <2>14. CASE PollTimesOut(r)
    <3>1. req' \in [Requests -> Request] /\ \A q \in Requests : RequestOK(req'[q])
      BY <2>14, FinishType, ToType DEF PollTimesOut, LaunchFailed, Steps
    <3> QED BY <2>14, <3>1 DEF PollTimesOut, KillNamed, TypeOK
  <2>15. CASE RollbackKills(r)
    <3>1. req' \in [Requests -> Request] /\ \A q \in Requests : RequestOK(req'[q])
      BY <2>15, ToType DEF RollbackKills, Steps
    <3> QED BY <2>15, <3>1 DEF RollbackKills, KillNamed, TypeOK
  <2>18. ASSUME NEW deleted \in BOOLEAN, RollbackForgets(r, deleted) PROVE TypeOK'
    <3>1. req' \in [Requests -> Request] /\ \A q \in Requests : RequestOK(req'[q])
      BY <2>18, FinishType DEF RollbackForgets
    <3> QED BY <2>18, <3>1 DEF RollbackForgets, TypeOK
  <2>16. CASE StopVerify(r)
    <3>1. CASE Finish(r)
      BY <2>16, <3>1, FinishType DEF StopVerify, TypeOK
    <3>2. CASE /\ rt[req[r].slug] # None
               /\ req' = [req EXCEPT ![r].at = "grace", ![r].pid = rt[req[r].slug]]
      <4> DEFINE new == [req[r] EXCEPT !.at = "grace", !.pid = rt[req[r].slug]]
      <4>0. rt[req[r].slug] \in Pids
        BY <2>0, <2>16, <3>2 DEF StopVerify, Request, RequestOK, TypeOK
      <4>1. new \in Request /\ new.at = "grace" /\ new.pid = rt[req[r].slug]
            /\ new.slug = req[r].slug /\ new.seen = req[r].seen
        BY <2>0, <4>0 DEF Request, Steps
      <4>2. RequestOK(new)
        BY <2>0, <2>16, <4>0, <4>1 DEF RequestOK, StopVerify
      <4>3. req' = [req EXCEPT ![r] = new]
        BY <2>0, <3>2 DEF Request, TypeOK
      <4> HIDE DEF new
      <4> QED BY <2>16, <4>1, <4>2, <4>3 DEF StopVerify, TypeOK
    <3> QED BY <2>16, <3>1, <3>2 DEF StopVerify
  <2>17. CASE StopEnds(r)
    <3>1. req' \in [Requests -> Request] /\ \A q \in Requests : RequestOK(req'[q])
      BY <2>17, FinishType DEF StopEnds
    <3> QED BY <2>17, <3>1 DEF StopEnds, TypeOK
  <2> QED
    BY <1>2, <2>1, <2>2, <2>3, <2>4, <2>5, <2>6, <2>7, <2>8, <2>9, <2>10, <2>11, <2>12, <2>13,
       <2>14, <2>15, <2>16, <2>17, <2>18 DEF Serve
<1>3. ASSUME NEW p \in Pids, TagmaPublishes(p) PROVE TypeOK'
  <2>1. proc[p] \in Process /\ proc[p].of \in Slugs
    BY <1>3 DEF TagmaPublishes, Alive, TypeOK
  <2>2. [proc[p] EXCEPT !.up = TRUE] \in Process
    BY <2>1 DEF Process
  <2>3. proc' \in [Pids -> Process \cup {None}]
    BY <1>3, <2>2 DEF TagmaPublishes, TypeOK
  <2> QED BY <1>3, <2>1, <2>3 DEF TagmaPublishes, TypeOK
<1>4. ASSUME NEW p \in Pids, TagmaEnrolls(p) \/ ProcessEnds(p) PROVE TypeOK'
  BY <1>4 DEF TagmaEnrolls, ProcessEnds, TypeOK
<1>5. ASSUME NEW p \in Pids, StrangerBorn(p) PROVE TypeOK'
  BY <1>5, BornType DEF StrangerBorn, TypeOK
<1>6. CASE DaemonCrash
  BY <1>6, IdleType DEF DaemonCrash, TypeOK
<1> QED BY <1>1, <1>2, <1>3, <1>4, <1>5, <1>6 DEF Next, Environment

(***************************************************************************)
(* What the runtime.json and the anchors name.                             *)
(***************************************************************************)

\* Nothing is recorded and no request is served at first.
LEMMA InitNames == Init => NamesInv
BY DaemonAssumption DEF Init, NamesInv, ReqOK, Idle

\* An anchor that names only the slug's own process does so when processes end.
LEMMA OwnShrinks ==
    ASSUME NEW pr, NEW pr2, Shrinks(pr, pr2), NEW a \in Anchor \cup {None}, NEW s, Own(a, s, pr)
    PROVE  Own(a, s, pr2)
BY DaemonAssumption DEF Shrinks, Own, Anchor

\* What a request relies on stays true when processes end.
LEMMA ReqShrinks ==
    ASSUME NEW t \in [Slugs -> Pids \cup {None}], NEW pr, NEW pr2, Shrinks(pr, pr2),
           NEW q \in Request, RequestOK(q), ReqOK(q, t, pr)
    PROVE  ReqOK(q, t, pr2)
<1> USE DaemonAssumption
<1>1. q.slug \in Slugs \cup {None} /\ q.pid \in Pids \cup {None} /\ q.seen \in Record \cup {None}
  BY DEF Request
<1>2. q.at # "idle" => q.slug \in Slugs /\ t[q.slug] \in Pids \cup {None}
  BY <1>1 DEF RequestOK
<1>3. q.at = "grace" => q.pid \in Pids
  BY <1>1 DEF RequestOK
<1>4. q.seen # None => q.seen.identity \in Anchor \cup {None}
  BY <1>1 DEF Record
<1>5. q.seen # None /\ q.slug \notin Foreign => Own(q.seen.identity, q.slug, pr2)
  BY <1>4, OwnShrinks DEF ReqOK
<1>6. q.at = "grace" /\ q.slug \notin Foreign /\ q.seen.identity # None /\ pr2[q.pid] # None
          => pr2[q.pid].of = q.slug
  BY <1>3 DEF ReqOK, Shrinks
<1>7. q.at \in {"fork", "poll", "anchor", "validate"} /\ t[q.slug] # None /\ pr2[t[q.slug]] # None
          => pr2[t[q.slug]].of = q.slug
  BY <1>2 DEF ReqOK, Shrinks
<1> QED BY <1>5, <1>6, <1>7 DEF ReqOK

\* A step of one request that starts no process keeps the invariant if what it
\* goes on to rely on, and what it records, is right.
LEMMA StepNames ==
    ASSUME IndInv, TypeOK', NEW r \in Requests, Shrinks(proc, proc'), rt' = rt,
           \A q \in Requests \ {r} : req'[q] = req[q],
           ReqOK(req'[r], rt, proc),
           \A s \in Slugs \ Foreign : rec'[s] # None => Own(rec'[s].identity, s, proc)
    PROVE  NamesInv'
<1>1. ASSUME NEW q \in Requests PROVE ReqOK(req'[q], rt', proc')
  <2>1. ReqOK(req'[q], rt, proc)
    BY DEF IndInv, NamesInv
  <2>2. req'[q] \in Request /\ RequestOK(req'[q]) /\ rt \in [Slugs -> Pids \cup {None}]
    BY DEF TypeOK, IndInv
  <2> QED BY <2>1, <2>2, ReqShrinks
<1>2. ASSUME NEW s \in Slugs \ Foreign, rec'[s] # None PROVE Own(rec'[s].identity, s, proc')
  <2>1. rec'[s].identity \in Anchor \cup {None}
    BY <1>2 DEF TypeOK, Record
  <2> QED BY <1>2, <2>1, OwnShrinks
<1> QED BY <1>1, <1>2 DEF NamesInv

\* A new process has no pid that a request holds or that the runtime.json of
\* its slug names, and is no incarnation that an anchor names.
LEMMA BornNames ==
    ASSUME IndInv, NEW p \in Pids, NEW owner \in Slugs \cup {Stranger}, Born(p, owner)
    PROVE  /\ \A r \in Requests : ReqOK(req[r], rt, proc')
           /\ \A s \in Slugs \ Foreign : rec[s] # None => Own(rec[s].identity, s, proc')
<1> USE DaemonAssumption
<1>0. TypeOK /\ NamesInv
  BY DEF IndInv
<1>1. \A q \in Pids \ {p} : proc'[q] = proc[q]
  BY <1>0 DEF Born, TypeOK
<1>2. NewTime \notin InUse /\ proc'[p].starttime = NewTime
  BY <1>0, BornType DEF Born, TypeOK
<1>3. ASSUME NEW a \in Anchor \cup {None}, a # None => a.starttime \in InUse,
             NEW s, Own(a, s, proc)
      PROVE  Own(a, s, proc')
  <2> SUFFICES ASSUME a # None, proc'[a.pid] # None, proc'[a.pid].starttime = a.starttime
               PROVE  proc'[a.pid].of = s
    BY DEF Own
  <2>1. a.pid \in Pids /\ a.starttime \in InUse
    BY <1>3 DEF Anchor
  <2>2. a.pid # p
    BY <1>2, <2>1
  <2> QED BY <1>1, <1>3, <2>1, <2>2 DEF Own
<1>4. ASSUME NEW s \in Slugs \ Foreign, rec[s] # None PROVE Own(rec[s].identity, s, proc')
  <2>1. rec[s].identity \in Anchor \cup {None}
    BY <1>0, <1>4 DEF TypeOK, Record
  <2>2. rec[s].identity # None => rec[s].identity.starttime \in InUse
    BY <1>4 DEF InUse
  <2> QED BY <1>0, <1>3, <1>4, <2>1, <2>2 DEF NamesInv
<1>5. ASSUME NEW r \in Requests PROVE ReqOK(req[r], rt, proc')
  <2>1. req[r] \in Request /\ RequestOK(req[r]) /\ ReqOK(req[r], rt, proc)
    BY <1>0 DEF TypeOK, NamesInv
  <2>2. req[r].slug # None => p # req[r].pid /\ p # rt[req[r].slug]
    BY DEF Born, Held
  <2>3. ASSUME req[r].seen # None, req[r].slug \notin Foreign
        PROVE  Own(req[r].seen.identity, req[r].slug, proc')
    <3>1. req[r].seen.identity \in Anchor \cup {None}
      BY <2>1, <2>3 DEF Request, Record
    <3>2. req[r].seen.identity # None => req[r].seen.identity.starttime \in InUse
      BY <2>3 DEF InUse
    <3> QED BY <1>3, <2>1, <2>3, <3>1, <3>2 DEF ReqOK
  <2>4. ASSUME req[r].at \in {"fork", "poll", "anchor", "validate"}, rt[req[r].slug] # None,
               proc'[rt[req[r].slug]] # None
        PROVE  proc'[rt[req[r].slug]].of = req[r].slug
    <3>1. req[r].slug \in Slugs /\ rt[req[r].slug] \in Pids \ {p}
      BY <1>0, <2>1, <2>2, <2>4 DEF Request, RequestOK, TypeOK
    <3> QED BY <1>1, <2>1, <2>4, <3>1 DEF ReqOK
  <2>5. ASSUME req[r].at = "grace", req[r].slug \notin Foreign, req[r].seen.identity # None,
               proc'[req[r].pid] # None
        PROVE  proc'[req[r].pid].of = req[r].slug
    <3>1. req[r].slug # None /\ req[r].pid \in Pids \ {p}
      BY <2>1, <2>2, <2>5 DEF Request, RequestOK
    <3> QED BY <1>1, <2>1, <2>5, <3>1 DEF ReqOK
  <2> QED BY <2>3, <2>4, <2>5 DEF ReqOK
<1> QED BY <1>4, <1>5

\* Where a request that goes on, to a step that is not yet part of a launch or
\* to one whose launch has its runtime.json in order, stands.
LEMMA ToNames ==
    ASSUME IndInv, NEW r \in Requests, NEW step \in Steps \ {"grace"}, To(r, step),
           step \in {"fork", "poll", "anchor", "validate"} =>
               req[r].at \in {"fork", "poll", "anchor", "validate"}
    PROVE  /\ ReqOK(req'[r], rt, proc)
           /\ \A q \in Requests \ {r} : req'[q] = req[q]
<1> DEFINE new == [req[r] EXCEPT !.at = step, !.seen = IF step = "scrub" THEN @ ELSE None]
<1>1. req[r] \in Request /\ ReqOK(req[r], rt, proc)
  BY DEF IndInv, TypeOK, NamesInv
<1>2. /\ req'[r] = new /\ new.at = step /\ new.slug = req[r].slug
      /\ new.seen \in {req[r].seen, None}
      /\ \A q \in Requests \ {r} : req'[q] = req[q]
  BY <1>1 DEF To, IndInv, TypeOK, Request
<1> HIDE DEF new
<1> QED BY <1>1, <1>2 DEF ReqOK

\* A request that is over relies on nothing.
LEMMA FinishNames ==
    ASSUME IndInv, NEW r \in Requests, Finish(r)
    PROVE  /\ ReqOK(req'[r], rt, proc)
           /\ \A q \in Requests \ {r} : req'[q] = req[q]
<1>1. req'[r] = Idle /\ \A q \in Requests \ {r} : req'[q] = req[q]
  BY DEF Finish, IndInv, TypeOK
<1> QED BY <1>1 DEF ReqOK, Idle

\* A request that begins relies on the record it has read.
LEMMA BeginNames ==
    ASSUME IndInv, NEW r \in Requests, NEW verb \in {"spawn", "start", "stop", "adopt"},
           NEW s \in Slugs, NEW step \in {"create", "check", "verify"}, NEW seen \in Record,
           Begin(r, verb, s, step, seen), s \notin Foreign => Own(seen.identity, s, proc)
    PROVE  /\ ReqOK(req'[r], rt, proc)
           /\ \A q \in Requests \ {r} : req'[q] = req[q]
<1>1. /\ req'[r] = [op |-> verb, at |-> step, slug |-> s, seen |-> seen, pid |-> None]
      /\ \A q \in Requests \ {r} : req'[q] = req[q]
  BY DEF Begin, IndInv, TypeOK
<1> QED BY <1>1 DEF ReqOK

\* A step that leaves the process table alone, or only ends processes, starts none.
LEMMA KeptShrinks ==
    ASSUME TypeOK,
           \/ UNCHANGED proc
           \/ \E s \in Slugs : KillNamed(s)
           \/ \E p \in Pids : proc' = [proc EXCEPT ![p] = None]
    PROVE  Shrinks(proc, proc')
<1>1. CASE UNCHANGED proc
  BY <1>1 DEF Shrinks
<1>2. CASE \E s \in Slugs : KillNamed(s)
  BY <1>2 DEF Shrinks, KillNamed
<1>3. ASSUME NEW p \in Pids, proc' = [proc EXCEPT ![p] = None] PROVE Shrinks(proc, proc')
  BY <1>3 DEF Shrinks, TypeOK
<1> QED BY <1>1, <1>2, <1>3

\* Each step of a request keeps what requests and records name.
LEMMA ServeNames ==
    ASSUME IndInv, TypeOK', NEW r \in Requests, Serve(r)
    PROVE  NamesInv'
<1> USE DaemonAssumption
<1>0. /\ TypeOK /\ NamesInv /\ req[r] \in Request /\ RequestOK(req[r]) /\ ReqOK(req[r], rt, proc)
      /\ UNCHANGED proc => Shrinks(proc, proc')
      /\ \A s \in Slugs \ Foreign : rec[s] # None => Own(rec[s].identity, s, proc)
  BY KeptShrinks DEF IndInv, TypeOK, NamesInv
<1>1. ASSUME NEW s \in Slugs, SpawnProbe(r, s) PROVE NamesInv'
  <2>1. [identity |-> None, code |-> s \in Coded] \in Record
    BY InIsBoolean DEF Record
  <2>2. Own([identity |-> None, code |-> s \in Coded].identity, s, proc)
    BY DEF Own
  <2>3. ReqOK(req'[r], rt, proc) /\ \A q \in Requests \ {r} : req'[q] = req[q]
    BY <1>1, <2>1, <2>2, BeginNames DEF SpawnProbe
  <2> QED BY <1>0, <1>1, <2>3, StepNames DEF SpawnProbe
<1>2. ASSUME NEW s \in Slugs, AdoptProbe(r, s) PROVE NamesInv'
  <2> DEFINE anchor == IF Alive(rt[s]) THEN [pid |-> rt[s], starttime |-> proc[rt[s]].starttime]
                       ELSE None
  <2>1. anchor \in Anchor \cup {None}
    BY <1>0 DEF Alive, TypeOK, Anchor, Process
  <2>2. Begin(r, "adopt", s, "create", [identity |-> anchor, code |-> s \in Coded])
        /\ s \in Foreign
    BY <1>2 DEF AdoptProbe
  <2> HIDE DEF anchor
  <2>3. [identity |-> anchor, code |-> s \in Coded] \in Record
    BY <2>1, InIsBoolean DEF Record
  <2>4. ReqOK(req'[r], rt, proc) /\ \A q \in Requests \ {r} : req'[q] = req[q]
    BY <2>2, <2>3, BeginNames
  <2> QED BY <1>0, <1>2, <2>4, StepNames DEF AdoptProbe
<1>3. ASSUME NEW s \in Slugs, StartRead(r, s) \/ StopRead(r, s) PROVE NamesInv'
  <2>1. rec[s] \in Record /\ (s \notin Foreign => Own(rec[s].identity, s, proc))
    BY <1>0, <1>3 DEF StartRead, StopRead, TypeOK
  <2>2. ReqOK(req'[r], rt, proc) /\ \A q \in Requests \ {r} : req'[q] = req[q]
    BY <1>3, <2>1, BeginNames DEF StartRead, StopRead
  <2> QED BY <1>0, <1>3, <2>2, StepNames DEF StartRead, StopRead
<1>4. CASE CreateRecord(r)
  <2>1. ReqOK(req'[r], rt, proc) /\ \A q \in Requests \ {r} : req'[q] = req[q]
    BY <1>4, FinishNames, ToNames DEF CreateRecord, Steps
  <2>2. req[r].slug \in Slugs /\ req[r].seen # None
    BY <1>0, <1>4 DEF CreateRecord, Request, RequestOK
  <2>3. \A s \in Slugs \ Foreign : rec'[s] # None => Own(rec'[s].identity, s, proc)
    BY <1>0, <1>4, <2>2 DEF CreateRecord, ReqOK, TypeOK
  <2> QED BY <1>0, <1>4, <2>1, <2>3, StepNames DEF CreateRecord
<1>5. CASE StartCheck(r)
  <2>1. ReqOK(req'[r], rt, proc) /\ \A q \in Requests \ {r} : req'[q] = req[q]
    BY <1>5, FinishNames, ToNames DEF StartCheck, Steps
  <2> QED BY <1>0, <1>5, <2>1, StepNames DEF StartCheck
<1>6. CASE ReplayEnv(r)
  <2>1. ReqOK(req'[r], rt, proc) /\ \A q \in Requests \ {r} : req'[q] = req[q]
    BY <1>6, ToNames DEF ReplayEnv, Steps
  <2>2. req[r].slug \in Slugs /\ req[r].seen \in Record /\ req[r].seen # None
    BY <1>0, <1>6 DEF ReplayEnv, Request, RequestOK
  <2>3. [req[r].seen EXCEPT !.code = FALSE].identity = req[r].seen.identity
    BY <2>2 DEF Record
  <2>4. \A s \in Slugs \ Foreign : rec'[s] # None => Own(rec'[s].identity, s, proc)
    BY <1>0, <1>6, <2>2, <2>3 DEF ReplayEnv, ReqOK, TypeOK
  <2> QED BY <1>0, <1>6, <2>1, <2>4, StepNames DEF ReplayEnv
<1>7. CASE ClearStaleRuntime(r)
  <2> DEFINE s == req[r].slug
  <2>1. s \in Slugs
    BY <1>0, <1>7 DEF ClearStaleRuntime, Request, RequestOK
  <2>2. rt'[s] = None /\ \A u \in Slugs : rt'[u] \in {rt[u], None}
    BY <1>0, <1>7, <2>1 DEF ClearStaleRuntime, TypeOK
  <2>3. \A q \in Requests \ {r} : req'[q] = req[q]
    BY <1>0, <1>7 DEF ClearStaleRuntime, To, TypeOK
  <2>4. req'[r].slug = s /\ req'[r].at = "fork" /\ req'[r].seen = None
    BY <1>0, <1>7 DEF ClearStaleRuntime, To, TypeOK, Request
  <2>5. ReqOK(req'[r], rt', proc)
    BY <2>2, <2>4 DEF ReqOK
  <2>6. ASSUME NEW q \in Requests \ {r} PROVE ReqOK(req'[q], rt', proc)
    <3>1. req[q].at \in {"fork", "poll", "anchor", "validate"} => req[q].slug \in Slugs
      BY <1>0 DEF TypeOK, Request, RequestOK
    <3>2. ReqOK(req[q], rt, proc)
      BY <1>0 DEF NamesInv
    <3>3. ReqOK(req[q], rt', proc)
      BY <2>2, <3>1, <3>2 DEF ReqOK
    <3> QED BY <2>3, <3>3
  <2> QED BY <1>0, <1>7, <2>5, <2>6 DEF ClearStaleRuntime, NamesInv
<1>8. CASE LaunchErrs(r)
  <2>1. ReqOK(req'[r], rt, proc) /\ \A q \in Requests \ {r} : req'[q] = req[q]
    BY <1>8, FinishNames, ToNames DEF LaunchErrs, LaunchFailed, Steps
  <2> QED BY <1>0, <1>8, <2>1, StepNames DEF LaunchErrs
<1>9. ASSUME NEW p \in Pids, HelperForks(r, p) PROVE NamesInv'
  <2>1. req[r].slug \in Slugs
    BY <1>0, <1>9 DEF HelperForks, Request, RequestOK
  <2>2. /\ \A q \in Requests : ReqOK(req[q], rt, proc')
        /\ \A s \in Slugs \ Foreign : rec[s] # None => Own(rec[s].identity, s, proc')
    BY <1>9, <2>1, BornNames DEF HelperForks
  <2>3. \A q \in Requests \ {r} : req'[q] = req[q]
    BY <1>0, <1>9 DEF HelperForks, To, TypeOK
  <2>4. req'[r].slug = req[r].slug /\ req'[r].at = "poll" /\ req'[r].seen = None
    BY <1>0, <1>9 DEF HelperForks, To, TypeOK, Request
  <2>5. ReqOK(req'[r], rt, proc')
    BY <1>9, <2>2, <2>4 DEF ReqOK, HelperForks
  <2>6. \A q \in Requests : ReqOK(req'[q], rt, proc')
    BY <2>2, <2>3, <2>5
  <2> QED BY <1>9, <2>2, <2>6 DEF HelperForks, NamesInv
<1>10. CASE PollSees(r)
  <2> DEFINE s == req[r].slug
             anchor == [pid |-> rt[s], starttime |-> proc[rt[s]].starttime]
             pinned == [rec[s] EXCEPT !.identity = anchor]
             new == [req[r] EXCEPT !.at = "anchor", !.pid = rt[s], !.seen = pinned]
  <2>1. s \in Slugs /\ rt[s] # None /\ proc[rt[s]] # None /\ proc[rt[s]].of = s
    BY <1>0, <1>10 DEF PollSees, Request, RequestOK, Alive, ReqOK
  <2>2. CASE rec[s] # None
    <3>1. rec[s] \in Record
      BY <1>0, <2>1, <2>2 DEF TypeOK
    <3>2. pinned.identity = anchor /\ Own(anchor, s, proc)
      BY <2>1, <3>1 DEF Record, Own
    <3>3. req' = [req EXCEPT ![r] = new]
      BY <1>0, <1>10, <2>2 DEF PollSees, Request, TypeOK
    <3> HIDE DEF anchor, pinned
    <3>4. new.at = "anchor" /\ new.seen = pinned /\ new.slug = s
      BY <1>0 DEF Request
    <3> HIDE DEF new
    <3>5. ReqOK(new, rt, proc)
      BY <2>1, <3>2, <3>4 DEF ReqOK
    <3>6. req'[r] = new /\ \A q \in Requests \ {r} : req'[q] = req[q]
      BY <1>0, <3>3 DEF TypeOK
    <3> QED BY <1>0, <1>10, <3>5, <3>6, StepNames DEF PollSees
  <2>3. CASE rec[s] = None
    <3>1. ReqOK(req'[r], rt, proc) /\ \A q \in Requests \ {r} : req'[q] = req[q]
      BY <1>10, <2>3, FinishNames DEF PollSees
    <3> QED BY <1>0, <1>10, <3>1, StepNames DEF PollSees
  <2> QED BY <2>2, <2>3
<1>11. CASE AnchorIdentity(r) \/ AnchorCleared(r)
  <2>1. ReqOK(req'[r], rt, proc) /\ \A q \in Requests \ {r} : req'[q] = req[q]
    BY <1>11, ToNames DEF AnchorIdentity, AnchorCleared, Steps
  <2>2. req[r].slug \in Slugs /\ req[r].seen \in Record /\ req[r].seen # None
    BY <1>0, <1>11 DEF AnchorIdentity, AnchorCleared, Request, RequestOK
  <2>3. [req[r].seen EXCEPT !.identity = None].identity = None
    BY <2>2 DEF Record
  <2>4. \A s \in Slugs \ Foreign : rec'[s] # None => Own(rec'[s].identity, s, proc)
    <3>1. CASE AnchorIdentity(r)
      BY <1>0, <3>1, <2>2 DEF AnchorIdentity, ReqOK, TypeOK
    <3>2. CASE AnchorCleared(r)
      BY <1>0, <3>2, <2>2, <2>3 DEF AnchorCleared, Own, TypeOK
    <3> QED BY <1>11, <3>1, <3>2
  <2> QED BY <1>0, <1>11, <2>1, <2>4, StepNames DEF AnchorIdentity, AnchorCleared
<1>12. CASE AnchorUnwritten(r)
  <2>1. ReqOK(req'[r], rt, proc) /\ \A q \in Requests \ {r} : req'[q] = req[q]
    BY <1>12, FinishNames DEF AnchorUnwritten
  <2> QED BY <1>0, <1>12, <2>1, StepNames DEF AnchorUnwritten
<1>13. CASE Revalidate(r)
  <2>1. CASE Finish(r)
    BY <1>0, <1>13, <2>1, FinishNames, StepNames DEF Revalidate
  <2>2. CASE req' = [req EXCEPT ![r].at = "poll", ![r].pid = None]
    <3>1. /\ req'[r].slug = req[r].slug /\ req'[r].at = "poll" /\ req'[r].seen = req[r].seen
          /\ \A q \in Requests \ {r} : req'[q] = req[q]
      BY <1>0, <2>2 DEF TypeOK, Request
    <3>2. ReqOK(req'[r], rt, proc)
      BY <1>0, <1>13, <3>1 DEF Revalidate, ReqOK
    <3> QED BY <1>0, <1>13, <3>1, <3>2, StepNames DEF Revalidate
  <2> QED BY <1>13, <2>1, <2>2 DEF Revalidate
<1>14. CASE PollTimesOut(r)
  <2>1. ReqOK(req'[r], rt, proc) /\ \A q \in Requests \ {r} : req'[q] = req[q]
    BY <1>14, FinishNames, ToNames DEF PollTimesOut, LaunchFailed, Steps
  <2>2. Shrinks(proc, proc')
    BY <1>0, <1>14, KeptShrinks DEF PollTimesOut, Request, RequestOK
  <2> QED BY <1>0, <1>14, <2>1, <2>2, StepNames DEF PollTimesOut
<1>15. CASE RollbackKills(r)
  <2>1. ReqOK(req'[r], rt, proc) /\ \A q \in Requests \ {r} : req'[q] = req[q]
    BY <1>15, ToNames DEF RollbackKills, Steps
  <2>2. Shrinks(proc, proc')
    BY <1>0, <1>15, KeptShrinks DEF RollbackKills, Request, RequestOK
  <2> QED BY <1>0, <1>15, <2>1, <2>2, StepNames DEF RollbackKills
<1>18. ASSUME NEW deleted \in BOOLEAN, RollbackForgets(r, deleted) PROVE NamesInv'
  <2>1. ReqOK(req'[r], rt, proc) /\ \A q \in Requests \ {r} : req'[q] = req[q]
    BY <1>18, FinishNames DEF RollbackForgets
  <2>2. Shrinks(proc, proc') /\ req[r].slug \in Slugs
    BY <1>0, <1>18, KeptShrinks DEF RollbackForgets, Request, RequestOK
  <2>3. \A s \in Slugs \ Foreign : rec'[s] # None => Own(rec'[s].identity, s, proc)
    BY <1>0, <1>18, <2>2 DEF RollbackForgets, TypeOK
  <2> QED BY <1>18, <2>1, <2>2, <2>3, StepNames DEF RollbackForgets
<1>16. CASE StopVerify(r)
  <2>1. CASE Finish(r)
    BY <1>0, <1>16, <2>1, FinishNames, StepNames DEF StopVerify
  <2>2. CASE /\ rt[req[r].slug] # None /\ Matches(req[r].seen, rt[req[r].slug])
             /\ req' = [req EXCEPT ![r].at = "grace", ![r].pid = rt[req[r].slug]]
    <3> DEFINE s == req[r].slug
    <3>1. /\ req'[r].slug = s /\ req'[r].at = "grace" /\ req'[r].seen = req[r].seen
          /\ req'[r].pid = rt[s]
          /\ \A q \in Requests \ {r} : req'[q] = req[q]
      BY <1>0, <2>2 DEF TypeOK, Request
    <3>2. req[r].seen # None
      BY <1>0, <1>16 DEF StopVerify, RequestOK
    <3>3. ASSUME s \notin Foreign, req[r].seen.identity # None, proc[rt[s]] # None
          PROVE  proc[rt[s]].of = s
      <4>1. Own(req[r].seen.identity, s, proc)
        BY <1>0, <3>2, <3>3 DEF ReqOK
      <4>2. req[r].seen.identity = [pid |-> rt[s], starttime |-> proc[rt[s]].starttime]
        BY <2>2, <3>3 DEF Matches
      <4> QED BY <3>3, <4>1, <4>2 DEF Own
    <3>4. ReqOK(req'[r], rt, proc)
      BY <1>0, <3>1, <3>3 DEF ReqOK
    <3> QED BY <1>0, <1>16, <3>1, <3>4, StepNames DEF StopVerify
  <2> QED BY <1>16, <2>1, <2>2 DEF StopVerify
<1>17. CASE StopEnds(r)
  <2>1. ReqOK(req'[r], rt, proc) /\ \A q \in Requests \ {r} : req'[q] = req[q]
    BY <1>17, FinishNames DEF StopEnds
  <2>2. Shrinks(proc, proc')
    BY <1>0, <1>17, KeptShrinks DEF StopEnds, Request, RequestOK
  <2> QED BY <1>0, <1>17, <2>1, <2>2, StepNames DEF StopEnds
<1> QED
  BY <1>1, <1>2, <1>3, <1>4, <1>5, <1>6, <1>7, <1>8, <1>9, <1>10, <1>11, <1>12, <1>13, <1>14,
     <1>15, <1>16, <1>17, <1>18 DEF Serve

\* The tagmata, other processes and a crash of the daemon keep it too.
LEMMA EnvironmentNames ==
    ASSUME IndInv, TypeOK', Environment
    PROVE  NamesInv'
<1> USE DaemonAssumption
<1>0. /\ TypeOK /\ NamesInv
      /\ \A s \in Slugs \ Foreign : rec[s] # None => Own(rec[s].identity, s, proc)
  BY DEF IndInv, NamesInv
<1>1. ASSUME NEW p \in Pids, TagmaPublishes(p) PROVE NamesInv'
  <2>1. proc[p] \in Process /\ proc[p].of \in Slugs
    BY <1>0, <1>1 DEF TagmaPublishes, Alive, TypeOK
  <2>2. proc'[p].of = proc[p].of /\ proc'[p].starttime = proc[p].starttime
        /\ \A q \in Pids \ {p} : proc'[q] = proc[q]
    BY <1>0, <1>1, <2>1 DEF TagmaPublishes, TypeOK, Process
  <2>3. Shrinks(proc, proc')
    BY <2>1, <2>2 DEF Shrinks
  <2>4. rt'[proc[p].of] = p /\ \A s \in Slugs \ {proc[p].of} : rt'[s] = rt[s]
    BY <1>0, <1>1, <2>1 DEF TagmaPublishes, TypeOK
  <2>5. ASSUME NEW r \in Requests PROVE ReqOK(req[r], rt', proc')
    <3>1. req[r] \in Request /\ RequestOK(req[r]) /\ ReqOK(req[r], rt, proc)
          /\ rt \in [Slugs -> Pids \cup {None}]
      BY <1>0 DEF TypeOK, NamesInv
    <3>2. ReqOK(req[r], rt, proc')
      BY <2>3, <3>1, ReqShrinks
    <3>3. req[r].at \in {"fork", "poll", "anchor", "validate"} => req[r].slug \in Slugs
      BY <3>1 DEF Request, RequestOK
    <3> QED BY <2>2, <2>4, <3>2, <3>3 DEF ReqOK
  <2>6. ASSUME NEW s \in Slugs \ Foreign, rec[s] # None PROVE Own(rec[s].identity, s, proc')
    <3>1. rec[s].identity \in Anchor \cup {None}
      BY <1>0, <2>6 DEF TypeOK, Record
    <3> QED BY <1>0, <2>3, <2>6, <3>1, OwnShrinks
  <2> QED BY <1>1, <2>5, <2>6 DEF TagmaPublishes, NamesInv
<1>2. ASSUME NEW p \in Pids, TagmaEnrolls(p) PROVE NamesInv'
  BY <1>0, <1>2 DEF TagmaEnrolls, NamesInv
<1>3. ASSUME NEW p \in Pids, ProcessEnds(p) PROVE NamesInv'
  <2>1. Shrinks(proc, proc')
    BY <1>0, <1>3, KeptShrinks DEF ProcessEnds
  <2>2. ASSUME NEW r \in Requests PROVE ReqOK(req[r], rt, proc')
    <3>1. req[r] \in Request /\ RequestOK(req[r]) /\ ReqOK(req[r], rt, proc)
          /\ rt \in [Slugs -> Pids \cup {None}]
      BY <1>0 DEF TypeOK, NamesInv
    <3> QED BY <2>1, <3>1, ReqShrinks
  <2>3. ASSUME NEW s \in Slugs \ Foreign, rec[s] # None PROVE Own(rec[s].identity, s, proc')
    <3>1. rec[s].identity \in Anchor \cup {None}
      BY <1>0, <2>3 DEF TypeOK, Record
    <3> QED BY <1>0, <2>1, <2>3, <3>1, OwnShrinks
  <2> QED BY <1>3, <2>2, <2>3 DEF ProcessEnds, NamesInv
<1>4. ASSUME NEW p \in Pids, StrangerBorn(p) PROVE NamesInv'
  <2>1. /\ \A r \in Requests : ReqOK(req[r], rt, proc')
        /\ \A s \in Slugs \ Foreign : rec[s] # None => Own(rec[s].identity, s, proc')
    BY <1>4, BornNames DEF StrangerBorn
  <2> QED BY <1>4, <2>1 DEF StrangerBorn, NamesInv
<1>5. CASE DaemonCrash
  <2>1. \A r \in Requests : req'[r] = Idle
    BY <1>5 DEF DaemonCrash
  <2> QED BY <1>0, <1>5, <2>1 DEF DaemonCrash, NamesInv, ReqOK, Idle
<1> QED BY <1>1, <1>2, <1>3, <1>4, <1>5 DEF Environment

\* Each step keeps what requests and records name.
LEMMA NextNames == IndInv /\ TypeOK' /\ [Next]_vars => NamesInv'
<1> SUFFICES ASSUME IndInv, TypeOK', [Next]_vars PROVE NamesInv'
  OBVIOUS
<1>1. CASE UNCHANGED vars
  BY <1>1 DEF vars, IndInv, NamesInv
<1>2. CASE Next
  BY <1>2, ServeNames, EnvironmentNames DEF Next
<1> QED BY <1>1, <1>2

(***************************************************************************)
(* Steps that keep what is known of a calm slug.                           *)
(***************************************************************************)

\* A step that leaves a slug's files and launches alone, and starts no tagma of it.
LEMMA FrameOK ==
    ASSUME NEW s, NEW record, NEW t, NEW pr, NEW pr2, NEW rq, NEW rq2,
           CalmOK(s, record, t, pr, rq), Fewer(s, pr, pr2),
           \A r \in Requests : rq2[r] = rq[r] \/ (~Minds(rq[r], s) /\ ~Minds(rq2[r], s))
    PROVE  CalmOK(s, record, t, pr2, rq2)
<1>1. \A r \in Requests : (Launches(rq[r], s) \/ Launches(rq2[r], s) \/ Busy(rq[r], s)
                           \/ Busy(rq2[r], s)) => rq2[r] = rq[r]
  BY DEF Minds, Launches, Busy
<1>2. AloneOK(s, t, pr2, rq2)
  BY <1>1 DEF CalmOK, AloneOK, Fewer
<1>3. LaunchOK(s, record, t, pr2, rq2)
  BY <1>1 DEF CalmOK, LaunchOK, Fewer
<1>4. RecordOK(s, record, pr2, rq2)
  BY <1>1 DEF CalmOK, RecordOK, Fewer, Names, Minds, Launches
<1> QED BY <1>2, <1>3, <1>4 DEF CalmOK

\* A launch that goes on, or ends, where no tagma of its slug runs.
LEMMA EmptyOK ==
    ASSUME NEW s, NEW record, NEW record2, NEW t, NEW t2, NEW pr, NEW pr2, NEW rq, NEW rq2,
           NEW r \in Requests, CalmOK(s, record, t, pr, rq), LiveOf(s, pr2) = {},
           \A q \in Requests \ {r} : rq2[q] = rq[q],
           Busy(rq[r], s),
           Busy(rq2[r], s) => record2 # None /\ (rq2[r].at = "fork" => t2 = None)
                              /\ rq2[r].op = rq[r].op /\ rq2[r].at \notin {"anchor", "validate"},
           Launches(rq2[r], s) => Busy(rq2[r], s)
    PROVE  CalmOK(s, record2, t2, pr2, rq2)
<1>1. AloneOK(s, t2, pr2, rq2)
  BY DEF CalmOK, AloneOK
<1>2. LaunchOK(s, record2, t2, pr2, rq2)
  <2>1. \A q \in Requests \ {r} : ~Busy(rq[q], s) /\ ~Busy(rq2[q], s)
    BY DEF CalmOK, LaunchOK, Busy
  <2>2. \A q \in Requests \ {r} : rq[r].op = "start" => ~Launches(rq2[q], s)
    BY DEF CalmOK, LaunchOK
  <2> QED BY <2>1, <2>2 DEF LaunchOK
<1>3. RecordOK(s, record2, pr2, rq2)
  BY DEF RecordOK
<1> QED BY <1>1, <1>2, <1>3 DEF CalmOK

\* A launch that goes on, or ends, without a change of the files or tagmata of
\* its slug, and has no tagma still booting in its care.
LEMMA MoveOK ==
    ASSUME NEW s, NEW record, NEW record2, NEW t, NEW pr, NEW rq, NEW rq2,
           NEW r \in Requests, CalmOK(s, record, t, pr, rq),
           \A q \in Requests \ {r} : rq2[q] = rq[q],
           Busy(rq[r], s), record2 # None,
           rq[r].at # "poll" \/ t # None,
           Busy(rq2[r], s) =>
               /\ rq2[r].at \notin {"scrub", "clear", "fork", "rollback", "forget"}
               /\ rq2[r].op = rq[r].op
               /\ rq2[r].at \in {"anchor", "validate"} => rq2[r].pid = t,
           Minds(rq2[r], s) => Busy(rq2[r], s),
           \/ Launches(rq2[r], s) /\ rq2[r].at \in Claiming
           \/ \A p \in LiveOf(s, pr) : t = p => Names(record2, p, pr)
    PROVE  CalmOK(s, record2, t, pr, rq2)
<1>1. \A q \in Requests \ {r} : ~Busy(rq[q], s) /\ ~Busy(rq2[q], s)
  BY DEF CalmOK, LaunchOK, Busy
<1>2. \A q \in Requests \ {r} : rq[r].op = "start" => ~Launches(rq2[q], s)
  BY DEF CalmOK, LaunchOK
<1>3. \A p \in LiveOf(s, pr) : pr[p].up /\ t = p
  BY <1>1 DEF CalmOK, AloneOK, Busy
<1>4. AloneOK(s, t, pr, rq2)
  BY <1>3 DEF CalmOK, AloneOK
<1>5. LaunchOK(s, record2, t, pr, rq2)
  BY <1>1, <1>2 DEF CalmOK, LaunchOK
<1>6. RecordOK(s, record2, pr, rq2)
  BY <1>3 DEF RecordOK
<1> QED BY <1>4, <1>5, <1>6 DEF CalmOK

\* A request that leaves its slug before it has published a record.
LEMMA LeaveOK ==
    ASSUME NEW s, NEW record, NEW t, NEW pr, NEW rq, NEW rq2, NEW r \in Requests,
           CalmOK(s, record, t, pr, rq), ~Busy(rq[r], s), ~Minds(rq2[r], s),
           \A q \in Requests \ {r} : rq2[q] = rq[q]
    PROVE  CalmOK(s, record, t, pr, rq2)
<1>1. ~Busy(rq2[r], s) /\ ~Launches(rq2[r], s)
  BY DEF Minds, Busy, Launches
<1>2. rq[r].at = "poll" => ~Launches(rq[r], s)
  BY DEF Busy
<1>3. rq[r].at \in Claiming => ~Launches(rq[r], s)
  BY DEF Busy, Claiming
<1>4. AloneOK(s, t, pr, rq2)
  BY <1>1, <1>2 DEF CalmOK, AloneOK
<1>5. LaunchOK(s, record, t, pr, rq2)
  BY <1>1 DEF CalmOK, LaunchOK
<1>6. RecordOK(s, record, pr, rq2)
  BY <1>1, <1>3 DEF CalmOK, RecordOK, Minds
<1> QED BY <1>4, <1>5, <1>6 DEF CalmOK

(***************************************************************************)
(* Which verb is at which step.                                            *)
(***************************************************************************)

\* Moving a request on changes its step and the record it holds.
LEMMA ToShape ==
    ASSUME TypeOK, NEW r \in Requests, NEW step, To(r, step)
    PROVE  /\ \A q \in Requests \ {r} : req'[q] = req[q]
           /\ req'[r].at = step /\ req'[r].op = req[r].op /\ req'[r].slug = req[r].slug
           /\ req'[r].pid = req[r].pid
<1> DEFINE new == [req[r] EXCEPT !.at = step, !.seen = IF step = "scrub" THEN @ ELSE None]
<1>1. req[r] \in Request
  BY DEF TypeOK
<1>2. new.at = step /\ new.slug = req[r].slug /\ new.pid = req[r].pid /\ new.op = req[r].op
  BY <1>1 DEF Request
<1>3. req' = [req EXCEPT ![r] = new]
  BY <1>1 DEF To, TypeOK, Request
<1> HIDE DEF new
<1> QED BY <1>2, <1>3 DEF TypeOK

\* A request that is over is idle.
LEMMA FinishShape ==
    ASSUME TypeOK, NEW r \in Requests, Finish(r)
    PROVE  /\ \A q \in Requests \ {r} : req'[q] = req[q]
           /\ req'[r].at = "idle" /\ req'[r].op = "none" /\ req'[r].slug = None
BY DEF TypeOK, Finish, Idle

\* A request that begins was idle.
LEMMA BeginShape ==
    ASSUME TypeOK, NEW r \in Requests, NEW verb, NEW s, NEW step, NEW seen,
           Begin(r, verb, s, step, seen)
    PROVE  /\ \A q \in Requests \ {r} : req'[q] = req[q]
           /\ req[r].at = "idle" /\ req[r].op = "none" /\ req[r].slug = None
           /\ req'[r].at = step /\ req'[r].op = verb /\ req'[r].slug = s /\ req'[r].seen = seen
BY DEF TypeOK, Begin, Idle

\* The step of a request whose pid and step change together.
LEMMA PidShape ==
    ASSUME TypeOK, NEW r \in Requests, NEW step, NEW p,
           req' = [req EXCEPT ![r].at = step, ![r].pid = p]
    PROVE  /\ \A q \in Requests \ {r} : req'[q] = req[q]
           /\ req'[r].at = step /\ req'[r].op = req[r].op /\ req'[r].slug = req[r].slug
           /\ req'[r].pid = p
<1> DEFINE new == [req[r] EXCEPT !.at = step, !.pid = p]
<1>1. req[r] \in Request
  BY DEF TypeOK
<1>2. new.at = step /\ new.slug = req[r].slug /\ new.pid = p /\ new.op = req[r].op
  BY <1>1 DEF Request
<1>3. req' = [req EXCEPT ![r] = new]
  BY <1>1 DEF TypeOK, Request
<1> HIDE DEF new
<1> QED BY <1>2, <1>3 DEF TypeOK

\* The poll that sees a pid holds it.
LEMMA SeesShape ==
    ASSUME TypeOK, NEW r \in Requests, PollSees(r), rec[req[r].slug] # None
    PROVE  /\ \A q \in Requests \ {r} : req'[q] = req[q]
           /\ req'[r].at = "anchor" /\ req'[r].op = req[r].op /\ req'[r].slug = req[r].slug
           /\ req'[r].pid = rt[req[r].slug]
<1> DEFINE s == req[r].slug
           pinned == [rec[s] EXCEPT !.identity = [pid |-> rt[s], starttime |-> proc[rt[s]].starttime]]
           new == [req[r] EXCEPT !.at = "anchor", !.pid = rt[s], !.seen = pinned]
<1>1. req[r] \in Request
  BY DEF TypeOK
<1>2. req' = [req EXCEPT ![r].at = "anchor", ![r].pid = rt[s], ![r].seen = pinned]
  BY DEF PollSees
<1> HIDE DEF pinned
<1>3. new.at = "anchor" /\ new.slug = req[r].slug /\ new.pid = rt[s] /\ new.op = req[r].op
  BY <1>1 DEF Request
<1>4. req' = [req EXCEPT ![r] = new]
  BY <1>1, <1>2 DEF TypeOK, Request
<1> HIDE DEF new
<1> QED BY <1>3, <1>4 DEF TypeOK

\* Nobody has begun at first.
LEMMA InitOp == Init => OpInv
BY DaemonAssumption DEF Init, OpInv, OpOK, Idle

\* Each step of a verb leads to a step of that verb.
LEMMA OpNext == TypeOK /\ OpInv /\ [Next]_vars => OpInv'
<1> SUFFICES ASSUME TypeOK, OpInv, [Next]_vars PROVE \A q \in Requests : OpOK(req'[q])
  BY DEF OpInv, OpOK
<1>0. \A q \in Requests : OpOK(req[q])
  BY DEF OpInv
<1>1. ASSUME NEW r \in Requests, Serve(r) PROVE \A q \in Requests : OpOK(req'[q])
  <2>0. OpOK(req[r])
    BY <1>0
  <2> SUFFICES OpOK(req'[r]) /\ \A q \in Requests \ {r} : req'[q] = req[q]
    BY <1>0
  <2>1. ASSUME Finish(r) PROVE OpOK(req'[r]) /\ \A q \in Requests \ {r} : req'[q] = req[q]
    BY <2>1, FinishShape, DaemonAssumption DEF OpOK, Finish, Idle, TypeOK
  <2>2. ASSUME NEW s \in Slugs, SpawnProbe(r, s) \/ AdoptProbe(r, s) \/ StartRead(r, s) \/ StopRead(r, s)
        PROVE OpOK(req'[r]) /\ \A q \in Requests \ {r} : req'[q] = req[q]
    BY <2>2, BeginShape DEF OpOK, SpawnProbe, AdoptProbe, StartRead, StopRead
  <2>3. CASE CreateRecord(r) \/ StartCheck(r) \/ ReplayEnv(r) \/ ClearStaleRuntime(r)
    BY <2>0, <2>1, <2>3, ToShape
       DEF OpOK, CreateRecord, StartCheck, ReplayEnv, ClearStaleRuntime
  <2>4. CASE LaunchErrs(r) \/ PollTimesOut(r) \/ RollbackKills(r)
    BY <2>0, <2>1, <2>4, ToShape
       DEF OpOK, LaunchErrs, PollTimesOut, LaunchFailed, RollbackKills
  <2>5. CASE (\E p \in Pids : HelperForks(r, p)) \/ AnchorIdentity(r) \/ AnchorCleared(r)
    BY <2>0, <2>5, ToShape DEF OpOK, HelperForks, AnchorIdentity, AnchorCleared
  <2>6. CASE PollSees(r)
    <3>1. CASE rec[req[r].slug] = None
      BY <2>1, <2>6, <3>1 DEF PollSees
    <3>2. CASE rec[req[r].slug] # None
      BY <2>0, <2>6, <3>2, SeesShape DEF OpOK, PollSees
    <3> QED BY <3>1, <3>2
  <2>7. CASE AnchorUnwritten(r) \/ StopEnds(r) \/ \E deleted \in BOOLEAN : RollbackForgets(r, deleted)
    BY <2>1, <2>7 DEF AnchorUnwritten, RollbackForgets, StopEnds
  <2>8. CASE Revalidate(r)
    BY <2>0, <2>1, <2>8, PidShape DEF OpOK, Revalidate
  <2>9. CASE StopVerify(r)
    BY <2>0, <2>1, <2>9, PidShape DEF OpOK, StopVerify
  <2> QED BY <1>1, <2>2, <2>3, <2>4, <2>5, <2>6, <2>7, <2>8, <2>9 DEF Serve
<1>2. CASE Environment
  <2>1. CASE DaemonCrash
    BY <2>1, DaemonAssumption DEF DaemonCrash, OpOK, Idle
  <2>2. CASE UNCHANGED req
    BY <1>0, <2>2
  <2> QED BY <1>2, <2>1, <2>2 DEF Environment, TagmaPublishes, TagmaEnrolls, ProcessEnds, StrangerBorn
<1>3. CASE UNCHANGED vars
  BY <1>0, <1>3 DEF vars
<1> QED BY <1>1, <1>2, <1>3 DEF Next

(***************************************************************************)
(* A calm slug through the steps of the verbs.                             *)
(***************************************************************************)

\* Processes that end leave a slug no tagma it did not have.
LEMMA ShrinkFewer ==
    ASSUME NEW s, NEW pr, NEW pr2, \A p \in Pids : pr2[p] = pr[p] \/ pr2[p] = None
    PROVE  Fewer(s, pr, pr2)
BY DEF Fewer, LiveOf

\* A step of a request that serves another slug, or no launch of this one.
LEMMA ElsewhereOK ==
    ASSUME TypeOK, NEW s, s \in calm, CalmOK(s, rec[s], rt[s], proc, req), NEW r \in Requests,
           rec'[s] = rec[s], rt'[s] = rt[s], Fewer(s, proc, proc'),
           \A q \in Requests \ {r} : req'[q] = req[q],
           ~Minds(req[r], s), ~Minds(req'[r], s)
    PROVE  CalmOK(s, rec'[s], rt'[s], proc', req')
<1>1. \A q \in Requests : req'[q] = req[q] \/ (~Minds(req[q], s) /\ ~Minds(req'[q], s))
  OBVIOUS
<1>2. CalmOK(s, rec[s], rt[s], proc', req')
  BY <1>1, FrameOK
<1> QED BY <1>2

\* The files, processes and other requests a step of a verb touches are those of
\* the slug it serves; when it is done it serves none.
LEMMA ServeFrame ==
    ASSUME TypeOK, NEW r \in Requests, Serve(r), req[r].slug # None
    PROVE  /\ \A q \in Requests \ {r} : req'[q] = req[q]
           /\ req'[r].slug \in {req[r].slug, None}
           /\ \A s \in Slugs \ {req[r].slug} :
                 rec'[s] = rec[s] /\ rt'[s] = rt[s] /\ (s \in calm' => s \in calm)
           /\ calm' \subseteq calm
<1>0. req[r] \in Request /\ req[r] # Idle
  BY DEF TypeOK, Idle
<1>1. ASSUME Finish(r) PROVE (\A q \in Requests \ {r} : req'[q] = req[q]) /\ req'[r].slug = None
  BY <1>1, FinishShape
<1>2. CASE CreateRecord(r) \/ StartCheck(r) \/ ReplayEnv(r) \/ ClearStaleRuntime(r)
  BY <1>1, <1>2, ToShape DEF TypeOK, CreateRecord, StartCheck, ReplayEnv, ClearStaleRuntime
<1>3. CASE LaunchErrs(r) \/ PollTimesOut(r) \/ RollbackKills(r)
  BY <1>1, <1>3, ToShape DEF TypeOK, LaunchErrs, PollTimesOut, LaunchFailed, RollbackKills
<1>4. CASE (\E p \in Pids : HelperForks(r, p)) \/ AnchorIdentity(r) \/ AnchorCleared(r)
  BY <1>4, ToShape DEF TypeOK, HelperForks, AnchorIdentity, AnchorCleared
<1>5. CASE PollSees(r)
  <2>1. CASE rec[req[r].slug] = None
    BY <1>1, <1>5, <2>1 DEF PollSees
  <2>2. CASE rec[req[r].slug] # None
    BY <1>5, <2>2, SeesShape DEF PollSees
  <2> QED BY <2>1, <2>2
<1>6. CASE AnchorUnwritten(r) \/ StopEnds(r) \/ \E deleted \in BOOLEAN : RollbackForgets(r, deleted)
  BY <1>1, <1>6 DEF TypeOK, AnchorUnwritten, RollbackForgets, StopEnds
<1>7. CASE Revalidate(r)
  BY <1>1, <1>7, PidShape DEF Revalidate
<1>8. CASE StopVerify(r)
  BY <1>1, <1>8, PidShape DEF StopVerify
<1>9. ~ \E s \in Slugs : SpawnProbe(r, s) \/ AdoptProbe(r, s) \/ StartRead(r, s) \/ StopRead(r, s)
  BY <1>0 DEF SpawnProbe, AdoptProbe, StartRead, StopRead, Begin
<1> QED BY <1>2, <1>3, <1>4, <1>5, <1>6, <1>7, <1>8, <1>9, Serve(r) DEF Serve

\* A step of a verb that serves u starts tagmata of no other slug.
LEMMA ServeFewer ==
    ASSUME TypeOK, NEW r \in Requests, Serve(r), NEW s, req[r].slug # s
    PROVE  Fewer(s, proc, proc')
<1>1. CASE PollTimesOut(r) \/ RollbackKills(r)
  BY <1>1, ShrinkFewer DEF PollTimesOut, RollbackKills, KillNamed
<1>2. CASE StopEnds(r)
  BY <1>2, ShrinkFewer DEF StopEnds, TypeOK
<1>3. ASSUME NEW p \in Pids, HelperForks(r, p) PROVE Fewer(s, proc, proc')
  BY <1>3 DEF HelperForks, Born, Fewer, LiveOf, TypeOK
<1>4. CASE UNCHANGED proc
  BY <1>4 DEF Fewer
<1> QED BY <1>1, <1>2, <1>3, <1>4, Serve(r)
        DEF Serve, SpawnProbe, AdoptProbe, StartRead, StopRead, CreateRecord, StartCheck,
            ReplayEnv, ClearStaleRuntime, LaunchErrs, PollSees, AnchorIdentity, AnchorCleared,
            AnchorUnwritten, Revalidate, RollbackForgets, StopVerify

\* What the start of a verb does to a calm slug.
LEMMA BeginCalm ==
    ASSUME TypeOK, OpInv, CalmInv, NEW r \in Requests, NEW u \in Slugs,
           SpawnProbe(r, u) \/ AdoptProbe(r, u) \/ StartRead(r, u) \/ StopRead(r, u),
           NEW s, s \in calm'
    PROVE  CalmOK(s, rec'[s], rt'[s], proc', req')
<1>0. s \in calm /\ s \in Slugs /\ UNCHANGED <<rec, rt, proc>> /\ req[r] = Idle
  BY DEF SpawnProbe, AdoptProbe, StartRead, StopRead, Begin, TypeOK
<1>1. CalmOK(s, rec[s], rt[s], proc, req)
  BY <1>0 DEF CalmInv
<1>2. /\ \A q \in Requests \ {r} : req'[q] = req[q]
      /\ req[r].at = "idle" /\ req[r].op = "none" /\ req[r].slug = None
      /\ req'[r].slug = u
  BY BeginShape DEF SpawnProbe, AdoptProbe, StartRead, StopRead
<1>3. ~Minds(req[r], s) /\ ~Launches(req[r], s) /\ ~Busy(req[r], s)
  BY <1>2 DEF Minds, Launches, Busy
<1>4. Fewer(s, proc, proc')
  BY <1>0 DEF Fewer
<1>5. CASE u # s \/ StopRead(r, u)
  <2>1. ~Minds(req'[r], s)
    BY <1>2, <1>5, BeginShape DEF Minds, StopRead
  <2> QED BY <1>0, <1>1, <1>2, <1>3, <1>4, <2>1, ElsewhereOK
<1>6. CASE u = s /\ SpawnProbe(r, u)
  <2>1. req'[r].at = "create" /\ req'[r].op = "spawn" /\ s \notin Foreign /\ rec[s] = None
    BY <1>6, BeginShape DEF SpawnProbe
  <2>2. \A q \in Requests : ~Busy(req[q], s) /\ ~Busy(req'[q], s)
    BY <1>1, <1>2, <1>3, <2>1 DEF CalmOK, LaunchOK, Busy
  <2>3. AloneOK(s, rt[s], proc, req') /\ RecordOK(s, rec[s], proc, req')
    BY <1>1, <1>2, <1>3, <2>1 DEF CalmOK, AloneOK, RecordOK, Launches
  <2>4. LaunchOK(s, rec[s], rt[s], proc, req')
    <3>1. \A q, x \in Requests : ~(Busy(req'[q], s) /\ Launches(req'[x], s))
      BY <2>2
    <3> QED BY <2>2, <3>1 DEF LaunchOK
  <2> QED BY <1>0, <2>3, <2>4 DEF CalmOK
<1>7. CASE u = s /\ AdoptProbe(r, u)
  <2> DEFINE anchor == IF Alive(rt[s]) THEN [pid |-> rt[s], starttime |-> proc[rt[s]].starttime] ELSE None
  <2>1. req'[r].at = "create" /\ req'[r].op = "adopt" /\ s \in Foreign /\ rec[s] = None
        /\ req'[r].seen = [identity |-> anchor, code |-> s \in Coded]
    BY <1>7, BeginShape DEF AdoptProbe
  <2>2. \A q \in Requests : ~Busy(req[q], s) /\ ~Busy(req'[q], s)
    BY <1>1, <1>2, <1>3, <2>1 DEF CalmOK, LaunchOK, Busy, Launches
  <2>3. \A p \in LiveOf(s, proc) : rt[s] = p /\ Alive(rt[s])
    <3>1. \A p \in LiveOf(s, proc) : rt[s] = p
      BY <1>1, <2>2 DEF CalmOK, AloneOK, Busy
    <3> QED BY <3>1, DaemonAssumption DEF LiveOf, Alive
  <2>4. \A p \in LiveOf(s, proc) : Names(req'[r].seen, p, proc)
    BY <2>1, <2>3 DEF Names
  <2>5. AloneOK(s, rt[s], proc, req') /\ RecordOK(s, rec[s], proc, req')
    BY <1>1, <1>2, <1>3, <2>1, <2>4 DEF CalmOK, AloneOK, RecordOK, Launches
  <2>6. LaunchOK(s, rec[s], rt[s], proc, req')
    BY <2>2 DEF LaunchOK
  <2> QED BY <1>0, <2>5, <2>6 DEF CalmOK
<1>8. CASE u = s /\ StartRead(r, u)
  <2>1. req'[r].at = "check" /\ req'[r].op = "start" /\ rec[s] # None
    BY <1>8, BeginShape DEF StartRead
  <2>2. Launching(s) = {}
    BY <1>0, <1>8 DEF StartRead
  <2>3. \A q \in Requests : ~Launches(req[q], s)
    BY <2>2 DEF Launching, InFlight, Launches
  <2>4. \A q \in Requests : Launches(req'[q], s) => q = r
    BY <1>2, <2>3
  <2>5. AloneOK(s, rt[s], proc, req') /\ LaunchOK(s, rec[s], rt[s], proc, req')
    BY <1>1, <1>2, <2>1, <2>3, <2>4 DEF CalmOK, AloneOK, LaunchOK, Busy
  <2>6. RecordOK(s, rec[s], proc, req')
    BY <1>1, <2>1, <2>3 DEF CalmOK, RecordOK
  <2> QED BY <1>0, <2>5, <2>6 DEF CalmOK
<1> QED BY <1>5, <1>6, <1>7, <1>8

\* The step of a launch that leaves no tagma of its slug.
LEMMA EmptyStep ==
    ASSUME NEW s, NEW r \in Requests, CalmOK(s, rec[s], rt[s], proc, req),
           \A q \in Requests \ {r} : req'[q] = req[q],
           Busy(req[r], s), LiveOf(s, proc') = {},
           Busy(req'[r], s) => rec'[s] # None /\ (req'[r].at = "fork" => rt'[s] = None)
                               /\ req'[r].op = req[r].op /\ req'[r].at \notin {"anchor", "validate"},
           Launches(req'[r], s) => Busy(req'[r], s)
    PROVE  CalmOK(s, rec'[s], rt'[s], proc', req')
<1> DEFINE record == rec[s]  t == rt[s]  record2 == rec'[s]  t2 == rt'[s]  pr2 == proc'  rq2 == req'
<1>1. /\ CalmOK(s, record, t, proc, req) /\ LiveOf(s, pr2) = {}
      /\ \A q \in Requests \ {r} : rq2[q] = req[q]
      /\ Busy(rq2[r], s) => record2 # None /\ (rq2[r].at = "fork" => t2 = None)
                            /\ rq2[r].op = req[r].op /\ rq2[r].at \notin {"anchor", "validate"}
      /\ Launches(rq2[r], s) => Busy(rq2[r], s)
  OBVIOUS
<1> HIDE DEF record, t, record2, t2, pr2, rq2
<1>2. CalmOK(s, record2, t2, pr2, rq2)
  BY <1>1, EmptyOK
<1> QED BY <1>2 DEF record2, t2, pr2, rq2

\* The step of a launch that leaves its tagma and its runtime.json alone.
LEMMA MoveStep ==
    ASSUME NEW s, NEW r \in Requests, CalmOK(s, rec[s], rt[s], proc, req), UNCHANGED <<rt, proc>>,
           \A q \in Requests \ {r} : req'[q] = req[q],
           Busy(req[r], s), rec'[s] # None, req[r].at # "poll" \/ rt[s] # None,
           Busy(req'[r], s) =>
               /\ req'[r].at \notin {"scrub", "clear", "fork", "rollback", "forget"}
               /\ req'[r].op = req[r].op
               /\ req'[r].at \in {"anchor", "validate"} => req'[r].pid = rt[s],
           Minds(req'[r], s) => Busy(req'[r], s),
           \/ Launches(req'[r], s) /\ req'[r].at \in Claiming
           \/ \A p \in LiveOf(s, proc) : rt[s] = p => Names(rec'[s], p, proc)
    PROVE  CalmOK(s, rec'[s], rt'[s], proc', req')
<1> DEFINE record == rec[s]  t == rt[s]  record2 == rec'[s]  rq2 == req'
<1>1. /\ CalmOK(s, record, t, proc, req) /\ record2 # None
      /\ \A q \in Requests \ {r} : rq2[q] = req[q]
      /\ req[r].at # "poll" \/ t # None
      /\ Busy(rq2[r], s) =>
               /\ rq2[r].at \notin {"scrub", "clear", "fork", "rollback", "forget"}
               /\ rq2[r].op = req[r].op
               /\ rq2[r].at \in {"anchor", "validate"} => rq2[r].pid = t
      /\ Minds(rq2[r], s) => Busy(rq2[r], s)
      /\ \/ Launches(rq2[r], s) /\ rq2[r].at \in Claiming
         \/ \A p \in LiveOf(s, proc) : t = p => Names(record2, p, proc)
  OBVIOUS
<1> HIDE DEF record, t, record2, rq2
<1>2. CalmOK(s, record2, t, proc, rq2)
  BY <1>1, MoveOK
<1> QED BY <1>2 DEF record2, t, rq2

\* What the later steps of a verb do to the calm slug it serves.
LEMMA OwnCalm ==
    ASSUME TypeOK, OpInv, CalmInv, NEW r \in Requests, Serve(r), req[r].slug # None,
           NEW s, s = req[r].slug, s \in calm'
    PROVE  CalmOK(s, rec'[s], rt'[s], proc', req')
<1>0. req[r] \in Request /\ RequestOK(req[r]) /\ s \in Slugs /\ s \in calm /\ OpOK(req[r])
  BY ServeFrame DEF TypeOK, Request, OpInv
<1>1. CalmOK(s, rec[s], rt[s], proc, req)
  BY <1>0 DEF CalmInv
<1>2. \A q \in Requests \ {r} : req'[q] = req[q]
  BY ServeFrame
<1>3. ASSUME Finish(r) PROVE ~Minds(req'[r], s) /\ ~Busy(req'[r], s) /\ ~Launches(req'[r], s)
  BY <1>3, FinishShape DEF Minds, Busy, Launches
<1>4. ASSUME req[r].at \in {"scrub", "clear", "fork", "rollback", "forget"}
      PROVE  LiveOf(s, proc) = {} /\ Busy(req[r], s) /\ rec[s] # None
             /\ (req[r].at = "fork" => rt[s] = None)
  <2>1. Busy(req[r], s)
    BY <1>0, <1>4 DEF OpOK, Busy, Launches
  <2> QED BY <1>1, <1>4, <2>1 DEF CalmOK, LaunchOK
<1>5. ASSUME req[r].at \in {"check", "poll", "anchor", "validate"}
      PROVE  Busy(req[r], s) /\ rec[s] # None
             /\ (req[r].at \in {"anchor", "validate"} => req[r].pid = rt[s])
  <2>1. Busy(req[r], s)
    BY <1>0, <1>5 DEF OpOK, Busy, Launches
  <2> QED BY <1>1, <1>5, <2>1 DEF CalmOK, LaunchOK
<1>6. ASSUME LiveOf(s, proc) = {}, \A p \in Pids : proc'[p] = proc[p] \/ proc'[p] = None
      PROVE  LiveOf(s, proc') = {}
  BY <1>6 DEF LiveOf
<1>7. CASE CreateRecord(r)
  <2>1. ~Busy(req[r], s) /\ req[r].at = "create" /\ req[r].op \in {"spawn", "adopt"}
        /\ req[r].seen \in Record
    BY <1>0, <1>7 DEF CreateRecord, Busy, OpOK, RequestOK, Request
  <2>2. CASE rec[s] # None
    <3>1. CalmOK(s, rec[s], rt[s], proc, req')
      BY <1>0, <1>1, <1>2, <1>3, <1>7, <2>1, <2>2, LeaveOK DEF CreateRecord
    <3>2. rec'[s] = rec[s] /\ rt' = rt /\ proc' = proc
      BY <1>0, <1>7, <2>2 DEF CreateRecord, TypeOK
    <3> QED BY <3>1, <3>2
  <2>3. CASE rec[s] = None
    <3>1. rec'[s] = req[r].seen /\ rt' = rt /\ proc' = proc /\ rec'[s] # None
      BY <1>0, <1>7, <2>1, <2>3, DaemonAssumption DEF CreateRecord, TypeOK
    <3>2. \A q \in Requests : ~Busy(req[q], s)
      BY <1>1, <2>3 DEF CalmOK, LaunchOK
    <3>3. CASE req[r].op = "spawn"
      <4>1. req'[r].at = "clear" /\ req'[r].op = "spawn" /\ req'[r].slug = s
        BY <1>0, <1>7, <2>3, <3>3, ToShape DEF CreateRecord
      <4>2. LiveOf(s, proc) = {}
        BY <1>0, <1>1, <2>3, <3>3 DEF CalmOK, RecordOK, OpOK
      <4>3. LaunchOK(s, rec'[s], rt[s], proc, req')
        <5>1. \A q \in Requests \ {r} : ~Busy(req'[q], s)
          BY <1>2, <3>2
        <5> QED BY <3>1, <4>1, <4>2, <5>1 DEF LaunchOK
      <4>4. AloneOK(s, rt[s], proc, req') /\ RecordOK(s, rec'[s], proc, req')
        BY <3>1, <4>2 DEF AloneOK, RecordOK
      <4> QED BY <3>1, <4>3, <4>4 DEF CalmOK
    <3>4. CASE req[r].op = "adopt"
      <4>1. ~Busy(req'[r], s) /\ ~Launches(req'[r], s)
        BY <1>0, <1>3, <1>7, <2>3, <3>4 DEF CreateRecord
      <4>2. ~Launches(req[r], s)
        BY <3>4 DEF Launches
      <4>3. \A p \in LiveOf(s, proc) : Names(rec'[s], p, proc)
        BY <1>1, <2>3, <3>1, <3>4 DEF CalmOK, RecordOK
      <4>4. AloneOK(s, rt[s], proc, req')
        BY <1>1, <1>2, <4>1, <4>2 DEF CalmOK, AloneOK
      <4>5. LaunchOK(s, rec'[s], rt[s], proc, req')
        BY <1>2, <3>2, <4>1 DEF LaunchOK
      <4>6. RecordOK(s, rec'[s], proc, req')
        BY <3>1, <4>3 DEF RecordOK
      <4> QED BY <3>1, <4>4, <4>5, <4>6 DEF CalmOK
    <3> QED BY <2>1, <3>3, <3>4
  <2> QED BY <2>2, <2>3
<1>8. CASE StartCheck(r)
  <2>1. req[r].at = "check" /\ req[r].op = "start" /\ UNCHANGED <<rec, rt, proc>>
    BY <1>0, <1>8 DEF StartCheck, OpOK
  <2>2. Busy(req[r], s) /\ rec[s] # None
    BY <1>5, <2>1
  <2>3. \A q \in Requests : Launches(req[q], s) => q = r
    BY <1>1, <2>1, <2>2 DEF CalmOK, LaunchOK
  <2>4. CASE Alive(rt[s])
    <3>1. Finish(r)
      BY <1>8, <2>4 DEF StartCheck
    <3>2. \A p \in LiveOf(s, proc) : Names(rec[s], p, proc)
      BY <1>1, <2>1, <2>2, <2>3 DEF CalmOK, RecordOK, Claiming
    <3>3. ~Minds(req'[r], s) /\ ~Busy(req'[r], s)
      BY <1>3, <3>1
    <3> QED BY <1>1, <1>2, <2>1, <2>2, <3>2, <3>3, MoveStep
  <2>5. CASE ~Alive(rt[s])
    <3>1. LiveOf(s, proc) = {}
      <4>1. \A p \in LiveOf(s, proc) : rt[s] = p
        BY <1>1, <2>1, <2>3 DEF CalmOK, AloneOK
      <4> QED BY <2>5, <4>1, DaemonAssumption DEF Alive, LiveOf
    <3>2. req'[r].at = "scrub" /\ req'[r].op = req[r].op /\ req'[r].slug = req[r].slug
      BY <1>8, <2>5, ToShape DEF StartCheck
    <3>3. Launches(req'[r], s) => Busy(req'[r], s)
      BY <3>2 DEF Busy
    <3> QED BY <1>1, <1>2, <2>1, <2>2, <3>1, <3>2, <3>3, EmptyStep
  <2> QED BY <2>4, <2>5
<1>9. CASE ReplayEnv(r)
  <2>1. req[r].at = "scrub" /\ UNCHANGED <<rt, proc>>
    BY <1>9 DEF ReplayEnv
  <2>2. rec'[s] # None
    <3>1. req[r].seen \in Record
      BY <1>0, <2>1 DEF RequestOK, Request
    <3>2. [req[r].seen EXCEPT !.code = FALSE] \in Record
      BY <3>1 DEF Record
    <3> QED BY <1>0, <1>4, <1>9, <2>1, <3>2, DaemonAssumption DEF ReplayEnv, TypeOK
  <2>3. req'[r].at = "clear" /\ req'[r].op = req[r].op /\ req'[r].slug = req[r].slug
    BY <1>9, ToShape DEF ReplayEnv
  <2>4. Launches(req'[r], s) => Busy(req'[r], s)
    BY <2>3 DEF Busy
  <2> QED BY <1>1, <1>2, <1>4, <2>1, <2>2, <2>3, <2>4, EmptyStep
<1>10. CASE ClearStaleRuntime(r)
  <2>1. req[r].at = "clear" /\ UNCHANGED <<rec, proc>> /\ rt'[s] = None
    BY <1>0, <1>10 DEF ClearStaleRuntime, TypeOK
  <2>2. req'[r].at = "fork" /\ req'[r].op = req[r].op /\ req'[r].slug = req[r].slug
    BY <1>10, ToShape DEF ClearStaleRuntime
  <2>3. Launches(req'[r], s) => Busy(req'[r], s)
    BY <2>2 DEF Busy
  <2> QED BY <1>1, <1>2, <1>4, <2>1, <2>2, <2>3, EmptyStep
<1>11. ASSUME LaunchFailed(r)
       PROVE  /\ Busy(req'[r], s) => req'[r].at = "rollback" /\ req'[r].op = req[r].op
              /\ Launches(req'[r], s) => Busy(req'[r], s)
  BY <1>3, <1>11, ToShape DEF LaunchFailed, Busy
<1>12. CASE LaunchErrs(r)
  <2>1. req[r].at \in {"clear", "fork"} /\ LaunchFailed(r) /\ UNCHANGED <<rec, rt, proc>>
    BY <1>12 DEF LaunchErrs
  <2> QED BY <1>1, <1>2, <1>4, <1>11, <2>1, EmptyStep
<1>13. ASSUME NEW p \in Pids, HelperForks(r, p) PROVE CalmOK(s, rec'[s], rt'[s], proc', req')
  <2>1. req[r].at = "fork" /\ UNCHANGED <<rec, rt>> /\ Born(p, s) /\ p # None
    BY <1>13, DaemonAssumption DEF HelperForks
  <2>2. LiveOf(s, proc) = {} /\ Busy(req[r], s) /\ rec[s] # None /\ rt[s] = None
    BY <1>4, <2>1
  <2>3. proc'[p] # None /\ ~proc'[p].up /\ LiveOf(s, proc') = {p}
    <3>1. proc'[p] = [of |-> s, starttime |-> NewTime, up |-> FALSE]
          /\ \A q \in Pids \ {p} : proc'[q] = proc[q]
      BY <2>1 DEF Born, TypeOK
    <3>2. proc'[p] \in Process
      BY <1>0, <2>1, <3>1, BornType DEF Process
    <3>3. proc'[p] # None
      BY <3>2, DaemonAssumption
    <3>4. proc'[p].of = s /\ ~proc'[p].up
      BY <3>1
    <3>5. \A q \in Pids \ {p} : q \notin LiveOf(s, proc')
      BY <2>2, <3>1 DEF LiveOf
    <3> QED BY <3>3, <3>4, <3>5 DEF LiveOf
  <2>4. req'[r].at = "poll" /\ req'[r].op = req[r].op /\ req'[r].slug = s
    BY <1>13, ToShape DEF HelperForks
  <2>5. \A q \in Requests \ {r} : ~Busy(req'[q], s)
    BY <1>1, <1>2, <2>2 DEF CalmOK, LaunchOK, Busy
  <2>6. \A q \in Requests \ {r} : req[r].op = "start" => ~Launches(req'[q], s)
    BY <1>1, <1>2, <2>2 DEF CalmOK, LaunchOK
  <2>7. Launches(req'[r], s)
    BY <2>2, <2>4 DEF Busy, Launches
  <2>8. AloneOK(s, rt'[s], proc', req')
    BY <2>1, <2>2, <2>3, <2>4, <2>7 DEF AloneOK
  <2>9. LaunchOK(s, rec'[s], rt'[s], proc', req')
    BY <2>1, <2>2, <2>4, <2>5, <2>6 DEF LaunchOK
  <2>10. RecordOK(s, rec'[s], proc', req')
    BY <2>1, <2>2, <2>4, <2>7 DEF RecordOK, Claiming
  <2> QED BY <2>8, <2>9, <2>10 DEF CalmOK
<1>14. CASE PollSees(r)
  <2>1. req[r].at = "poll" /\ UNCHANGED <<rec, rt, proc>> /\ rt[s] # None
    BY <1>14 DEF PollSees, Alive
  <2>2. Busy(req[r], s) /\ rec[s] # None
    BY <1>5, <2>1
  <2>3. req'[r].at = "anchor" /\ req'[r].op = req[r].op /\ req'[r].slug = s /\ req'[r].pid = rt[s]
    BY <1>14, <2>2, SeesShape
  <2>4. Launches(req'[r], s) /\ req'[r].at \in Claiming /\ Busy(req'[r], s) /\ req[r].op # "adopt"
    BY <2>2, <2>3 DEF Busy, Launches, Claiming
  <2> QED BY <1>1, <1>2, <2>1, <2>2, <2>3, <2>4, MoveStep
<1>15. CASE AnchorIdentity(r) \/ AnchorCleared(r)
  <2>1. req[r].at = "anchor" /\ UNCHANGED <<rt, proc>>
    BY <1>15 DEF AnchorIdentity, AnchorCleared
  <2>2. Busy(req[r], s) /\ rec[s] # None /\ req[r].pid = rt[s] /\ rt[s] # None
    BY <1>0, <1>5, <2>1 DEF RequestOK
  <2>3. rec'[s] # None
    <3>1. req[r].seen \in Record
      BY <1>0, <2>1 DEF RequestOK, Request
    <3>2. [req[r].seen EXCEPT !.identity = None] \in Record
      BY <3>1 DEF Record
    <3> QED BY <1>0, <1>15, <3>1, <3>2, DaemonAssumption DEF AnchorIdentity, AnchorCleared, TypeOK
  <2>4. req'[r].at = "validate" /\ req'[r].op = req[r].op /\ req'[r].slug = s
        /\ req'[r].pid = req[r].pid
    BY <1>15, ToShape DEF AnchorIdentity, AnchorCleared
  <2>5. Launches(req'[r], s) /\ req'[r].at \in Claiming /\ Busy(req'[r], s) /\ req[r].op # "adopt"
    BY <2>2, <2>4 DEF Busy, Launches, Claiming
  <2> QED BY <1>1, <1>2, <2>1, <2>2, <2>3, <2>4, <2>5, MoveStep
<1>16. CASE AnchorUnwritten(r)
  BY <1>16 DEF AnchorUnwritten
<1>17. CASE Revalidate(r)
  <2>1. req[r].at = "validate" /\ UNCHANGED <<rec, rt, proc>>
    BY <1>17 DEF Revalidate
  <2>2. Busy(req[r], s) /\ rec[s] # None /\ req[r].pid = rt[s] /\ rt[s] # None
    BY <1>0, <1>5, <2>1 DEF RequestOK
  <2>3. req[r].op # "adopt"
    BY <2>2 DEF Busy, Launches
  <2>4. CASE Matches(rec[s], req[r].pid)
    <3>1. Finish(r)
      BY <1>17, <2>2, <2>4 DEF Revalidate
    <3>2. \A p \in LiveOf(s, proc) : rt[s] = p => Names(rec[s], p, proc)
      BY <2>2, <2>4 DEF Matches, Names
    <3> QED BY <1>1, <1>2, <1>3, <2>1, <2>2, <2>3, <3>1, <3>2, MoveStep
  <2>5. CASE ~Matches(rec[s], req[r].pid)
    <3>1. req'[r].at = "poll" /\ req'[r].op = req[r].op /\ req'[r].slug = s
      BY <1>17, <2>5, PidShape DEF Revalidate
    <3>2. Launches(req'[r], s) /\ req'[r].at \in Claiming /\ Busy(req'[r], s)
      BY <2>2, <3>1 DEF Busy, Launches, Claiming
    <3> QED BY <1>1, <1>2, <2>1, <2>2, <2>3, <3>1, <3>2, MoveStep
  <2> QED BY <2>4, <2>5
<1>18. CASE PollTimesOut(r)
  <2>1. req[r].at = "poll" /\ UNCHANGED <<rec, rt>> /\ LaunchFailed(r) /\ KillNamed(s)
    BY <1>18 DEF PollTimesOut
  <2>2. \A p \in LiveOf(s, proc) : proc[p].up
    BY <1>0, <1>18, DaemonAssumption DEF PollTimesOut, LiveOf, Alive
  <2>3. \A p \in LiveOf(s, proc) : rt[s] = p
    BY <1>1, <2>2 DEF CalmOK, AloneOK
  <2>4. LiveOf(s, proc') = {}
    BY <2>1, <2>3 DEF KillNamed, LiveOf
  <2> QED BY <1>1, <1>2, <1>5, <1>11, <2>1, <2>4, EmptyStep
<1>19. CASE RollbackKills(r)
  <2>1. req[r].at = "rollback" /\ UNCHANGED <<rec, rt>> /\ KillNamed(s)
    BY <1>19 DEF RollbackKills
  <2>2. req'[r].at = "forget" /\ req'[r].op = req[r].op /\ req'[r].slug = req[r].slug
    BY <1>19, ToShape DEF RollbackKills
  <2>3. Launches(req'[r], s) => Busy(req'[r], s)
    BY <2>2 DEF Busy
  <2>4. LiveOf(s, proc') = {}
    BY <1>4, <2>1 DEF KillNamed, LiveOf
  <2> QED BY <1>1, <1>2, <1>4, <2>1, <2>2, <2>3, <2>4, EmptyStep
<1>22. ASSUME NEW deleted \in BOOLEAN, RollbackForgets(r, deleted)
       PROVE  CalmOK(s, rec'[s], rt'[s], proc', req')
  <2>1. req[r].at = "forget" /\ UNCHANGED <<rt, proc>> /\ Finish(r)
    BY <1>22 DEF RollbackForgets
  <2> QED BY <1>1, <1>2, <1>3, <1>4, <2>1, EmptyStep
<1>20. CASE StopVerify(r) \/ StopEnds(r)
  <2>1. req[r].op = "stop" /\ UNCHANGED <<rec, rt>>
    BY <1>0, <1>20 DEF StopVerify, StopEnds, OpOK
  <2>2. ~Minds(req[r], s)
    BY <2>1 DEF Minds
  <2>3. ~Minds(req'[r], s)
    <3>1. CASE Finish(r)
      BY <1>3, <3>1
    <3>2. CASE req' = [req EXCEPT ![r].at = "grace", ![r].pid = rt[s]]
      BY <2>1, <3>2, PidShape DEF Minds
    <3> QED BY <1>20, <3>1, <3>2 DEF StopVerify, StopEnds
  <2>4. Fewer(s, proc, proc')
    BY <1>20, ShrinkFewer DEF StopVerify, StopEnds, TypeOK
  <2> QED BY <1>0, <1>1, <1>2, <2>1, <2>2, <2>3, <2>4, ElsewhereOK
<1>21. ~ \E u \in Slugs : SpawnProbe(r, u) \/ AdoptProbe(r, u) \/ StartRead(r, u) \/ StopRead(r, u)
  BY DEF SpawnProbe, AdoptProbe, StartRead, StopRead, Begin, Idle
<1> QED BY <1>7, <1>8, <1>9, <1>10, <1>12, <1>13, <1>14, <1>15, <1>16, <1>17, <1>18, <1>19,
           <1>20, <1>21, <1>22, Serve(r) DEF Serve

(***************************************************************************)
(* A calm slug through every step.                                         *)
(***************************************************************************)

\* At first only outside instances run, alone and published.
LEMMA InitCalm == Init => CalmInv
<1> SUFFICES ASSUME Init, NEW s \in Slugs PROVE CalmOK(s, rec[s], rt[s], proc, req)
  BY DEF Init, CalmInv
<1>1. PICK f \in [Foreign -> Pids], b \in [Foreign -> 1..Cardinality(Foreign)] :
         StartedByHand(f, b)
  BY DEF Init
<1>2. rec[s] = None /\ \A r \in Requests : req[r].at = "idle" /\ req[r].op = "none"
  BY DEF Init, Idle
<1>3. \A p \in LiveOf(s, proc) : s \in Foreign /\ f[s] = p /\ rt[s] = p /\ proc[p].up
  <2> SUFFICES ASSUME NEW p \in LiveOf(s, proc)
               PROVE  s \in Foreign /\ f[s] = p /\ rt[s] = p /\ proc[p].up
    OBVIOUS
  <2> DEFINE u == CHOOSE x \in Foreign : f[x] = p
  <2>1. p \in Pids /\ proc[p] # None /\ proc[p].of = s
    BY DEF LiveOf
  <2>2. \E x \in Foreign : f[x] = p
    BY <1>1, <2>1 DEF StartedByHand
  <2>3. u \in Foreign /\ f[u] = p
    BY <2>2
  <2>4. proc[p] = [of |-> u, starttime |-> b[u], up |-> TRUE]
    BY <1>1, <2>1, <2>2 DEF StartedByHand
  <2> HIDE DEF u
  <2>5. s = u /\ proc[p].up
    BY <2>1, <2>4
  <2> QED BY <1>1, <2>3, <2>5 DEF StartedByHand
<1>4. AloneOK(s, rt[s], proc, req)
  BY <1>3 DEF AloneOK
<1>5. LaunchOK(s, rec[s], rt[s], proc, req)
  BY <1>2 DEF LaunchOK, Busy, Launches
<1>6. RecordOK(s, rec[s], proc, req)
  BY <1>2, <1>3 DEF RecordOK
<1> QED BY <1>4, <1>5, <1>6 DEF CalmOK

\* The boot of a tagma ends: it runs under the pid its runtime.json names.
LEMMA PublishCalm ==
    ASSUME TypeOK, CalmInv, NEW p \in Pids, TagmaPublishes(p), NEW s, s \in calm'
    PROVE  CalmOK(s, rec'[s], rt'[s], proc', req')
<1>0. s \in calm /\ s \in Slugs /\ UNCHANGED <<rec, req>>
  BY DEF TagmaPublishes, TypeOK
<1>1. CalmOK(s, rec[s], rt[s], proc, req)
  BY <1>0 DEF CalmInv
<1>2. proc[p] \in Process /\ proc[p] # None /\ ~proc[p].up /\ p # None
  BY DaemonAssumption DEF TagmaPublishes, Alive, TypeOK
<1>3. proc'[p] = [proc[p] EXCEPT !.up = TRUE] /\ \A q \in Pids \ {p} : proc'[q] = proc[q]
  BY DEF TagmaPublishes, TypeOK
<1>4. [proc[p] EXCEPT !.up = TRUE] \in Process
      /\ [proc[p] EXCEPT !.up = TRUE].of = proc[p].of /\ [proc[p] EXCEPT !.up = TRUE].up
      /\ [proc[p] EXCEPT !.up = TRUE].starttime = proc[p].starttime
  BY <1>2 DEF Process
<1>5. proc'[p] # None /\ proc'[p].of = proc[p].of /\ proc'[p].up
      /\ proc'[p].starttime = proc[p].starttime
  BY <1>3, <1>4, DaemonAssumption
<1>6. CASE proc[p].of # s
  <2>1. rt'[s] = rt[s]
    BY <1>0, <1>6 DEF TagmaPublishes, TypeOK
  <2>2. Fewer(s, proc, proc')
    BY <1>3, <1>5, <1>6 DEF Fewer, LiveOf
  <2>3. CalmOK(s, rec[s], rt[s], proc', req)
    BY <1>1, <2>2, FrameOK
  <2> QED BY <1>0, <2>1, <2>3
<1>7. CASE proc[p].of = s
  <2>1. rt'[s] = p
    BY <1>0, <1>7 DEF TagmaPublishes, TypeOK
  <2>2. p \in LiveOf(s, proc)
    BY <1>2, <1>7 DEF LiveOf
  <2>3. PICK r \in Requests : Launches(req[r], s) /\ req[r].at = "poll"
    BY <1>1, <1>2, <2>2 DEF CalmOK, AloneOK
  <2>4. Busy(req[r], s)
    BY <2>3 DEF Busy
  <2>5. \A q \in Requests : Busy(req[q], s) => q = r
    BY <1>1, <2>3, <2>4 DEF CalmOK, LaunchOK, Busy
  <2>6. rec[s] # None
    BY <1>1, <2>4 DEF CalmOK, LaunchOK
  <2>7. LiveOf(s, proc') = {p}
    <3>1. LiveOf(s, proc) = {p}
      BY <1>1, <2>2 DEF CalmOK, AloneOK
    <3> QED BY <1>3, <1>5, <1>7, <3>1 DEF LiveOf
  <2>8. AloneOK(s, rt'[s], proc', req)
    BY <1>5, <2>1, <2>7 DEF AloneOK
  <2>9. LaunchOK(s, rec[s], rt'[s], proc', req)
    BY <1>1, <2>3, <2>5 DEF CalmOK, LaunchOK
  <2>10. RecordOK(s, rec[s], proc', req)
    BY <2>3, <2>6 DEF RecordOK, Claiming
  <2> QED BY <1>0, <2>8, <2>9, <2>10 DEF CalmOK
<1> QED BY <1>6, <1>7

\* The daemon's requests die with it.
LEMMA CrashCalm ==
    ASSUME TypeOK, CalmInv, DaemonCrash, NEW s, s \in calm'
    PROVE  CalmOK(s, rec'[s], rt'[s], proc', req')
<1>0. s \in calm /\ UNCHANGED <<rec, rt, proc>> /\ Launching(s) = {}
  BY DEF DaemonCrash
<1>1. CalmOK(s, rec[s], rt[s], proc, req)
  BY <1>0 DEF CalmInv
<1>2. \A r \in Requests : ~Launches(req[r], s)
  BY <1>0 DEF Launching, InFlight, Launches
<1>3. \A r \in Requests : req'[r].at = "idle" /\ req'[r].op = "none"
  BY DEF DaemonCrash, Idle
<1>4. AloneOK(s, rt[s], proc, req')
  BY <1>1, <1>2 DEF CalmOK, AloneOK
<1>5. LaunchOK(s, rec[s], rt[s], proc, req')
  BY <1>3 DEF LaunchOK, Busy, Launches
<1>6. RecordOK(s, rec[s], proc, req')
  BY <1>1, <1>2, <1>3 DEF CalmOK, RecordOK
<1> QED BY <1>0, <1>4, <1>5, <1>6 DEF CalmOK

\* Every step keeps what is known of the calm slugs.
LEMMA CalmNext == TypeOK /\ OpInv /\ CalmInv /\ [Next]_vars => CalmInv'
<1> SUFFICES ASSUME TypeOK, OpInv, CalmInv, [Next]_vars, NEW s \in calm'
             PROVE  CalmOK(s, rec'[s], rt'[s], proc', req')
  BY DEF CalmInv, CalmOK, AloneOK, LaunchOK, RecordOK, LiveOf, Names, Busy, Launches
<1>1. ASSUME NEW r \in Requests, Serve(r) PROVE CalmOK(s, rec'[s], rt'[s], proc', req')
  <2>1. CASE req[r].slug = None
    <3>1. RequestOK(req[r])
      BY DEF TypeOK
    <3>2. req[r].at = "idle"
      BY <2>1, <3>1 DEF RequestOK
    <3>3. \E u \in Slugs : SpawnProbe(r, u) \/ AdoptProbe(r, u) \/ StartRead(r, u) \/ StopRead(r, u)
      BY <1>1, <3>2
         DEF Serve, CreateRecord, StartCheck, ReplayEnv, ClearStaleRuntime, LaunchErrs,
             HelperForks, PollSees, AnchorIdentity, AnchorCleared, AnchorUnwritten, Revalidate,
             PollTimesOut, RollbackKills, RollbackForgets, StopVerify, StopEnds
    <3> QED BY <3>3, BeginCalm
  <2>2. CASE req[r].slug = s /\ s # None
    BY <1>1, <2>2, OwnCalm
  <2>3. CASE req[r].slug \notin {s, None}
    <3>1. /\ \A q \in Requests \ {r} : req'[q] = req[q]
          /\ req'[r].slug \in {req[r].slug, None}
          /\ \A u \in Slugs \ {req[r].slug} :
                rec'[u] = rec[u] /\ rt'[u] = rt[u] /\ (u \in calm' => u \in calm)
          /\ calm' \subseteq calm
      BY <1>1, <2>3, ServeFrame
    <3>2. s \in calm /\ s \in Slugs
      BY <3>1 DEF TypeOK
    <3>3. rec'[s] = rec[s] /\ rt'[s] = rt[s]
      BY <2>3, <3>1, <3>2
    <3>4. ~Minds(req[r], s) /\ ~Minds(req'[r], s)
      BY <2>3, <3>1, <3>2, DaemonAssumption DEF Minds
    <3>5. Fewer(s, proc, proc') /\ CalmOK(s, rec[s], rt[s], proc, req)
      BY <1>1, <2>3, <3>2, ServeFewer DEF CalmInv
    <3> QED BY <3>1, <3>2, <3>3, <3>4, <3>5, ElsewhereOK
  <2> QED BY <2>1, <2>2, <2>3
<1>2. ASSUME NEW p \in Pids, TagmaPublishes(p) PROVE CalmOK(s, rec'[s], rt'[s], proc', req')
  BY <1>2, PublishCalm
<1>3. ASSUME NEW p \in Pids, TagmaEnrolls(p) \/ ProcessEnds(p) \/ StrangerBorn(p)
      PROVE  CalmOK(s, rec'[s], rt'[s], proc', req')
  <2>1. s \in calm /\ s \in Slugs /\ UNCHANGED <<rec, rt, req>>
    BY <1>3 DEF TagmaEnrolls, ProcessEnds, StrangerBorn, TypeOK
  <2>2. Fewer(s, proc, proc')
    <3>1. CASE TagmaEnrolls(p) \/ ProcessEnds(p)
      BY <3>1, ShrinkFewer DEF TagmaEnrolls, ProcessEnds, TypeOK
    <3>2. CASE StrangerBorn(p)
      BY <2>1, <3>2, DaemonAssumption DEF StrangerBorn, Born, Fewer, LiveOf, TypeOK
    <3> QED BY <1>3, <3>1, <3>2
  <2>3. CalmOK(s, rec[s], rt[s], proc', req)
    BY <2>1, <2>2, FrameOK DEF CalmInv
  <2> QED BY <2>1, <2>3
<1>4. CASE DaemonCrash
  BY <1>4, CrashCalm
<1>5. CASE UNCHANGED vars
  BY <1>5 DEF vars, CalmInv
<1> QED BY <1>1, <1>2, <1>3, <1>4, <1>5 DEF Next, Environment

(***************************************************************************)
(* The theorems.                                                           *)
(***************************************************************************)

\* The inductive invariant holds throughout.
LEMMA InvCorrect == Spec => []IndInv
<1>1. Init => IndInv
  BY InitType, InitNames DEF IndInv
<1>2. IndInv /\ [Next]_vars => IndInv'
  BY NextType, NextNames DEF IndInv
<1> QED BY <1>1, <1>2, PTL DEF Spec

\* Records, anchors, processes and requests are well formed: a request has a pid
\* in hand, and a record it has read, exactly where the code uses one.
THEOREM TypeCorrect == Spec => []TypeOK
<1>1. IndInv => TypeOK
  BY DEF IndInv
<1> QED BY <1>1, InvCorrect, PTL

\* What stop signals on the word of a launch's anchor is a tagma of its own
\* instance, for every number of instances, pids, requests, crashes and births.
THEOREM StopCorrect == Spec => []StopHitsOwn
<1>1. IndInv => StopHitsOwn
  BY DEF IndInv, NamesInv, ReqOK, StopHitsOwn, Alive
<1> QED BY <1>1, InvCorrect, PTL

\* What is known of the calm slugs is true throughout.
LEMMA CalmCorrect == Spec => [](TypeOK /\ CalmInv)
<1>1. Init => TypeOK /\ OpInv /\ CalmInv
  BY InitType, InitOp, InitCalm
<1>2. TypeOK /\ OpInv /\ CalmInv /\ [Next]_vars => TypeOK' /\ OpInv' /\ CalmInv'
  BY NextType, OpNext, CalmNext
<1> QED BY <1>1, <1>2, PTL DEF Spec

\* No split brain: at every time, a calm slug has one running tagma at most, for every
\* number of spawns that race for its record, fail and are tried again, and whatever
\* processes end and pids are recycled meanwhile (create_record, launch).
THEOREM OneTagmaCorrect == Spec => []OneTagmaIfCalm
<1>1. CalmInv => OneTagmaIfCalm
  <2> SUFFICES ASSUME CalmInv, NEW s \in calm
               PROVE  Cardinality({p \in Pids : Alive(p) /\ proc[p].of = s}) <= 1
    BY DEF OneTagmaIfCalm
  <2> DEFINE T == {p \in Pids : Alive(p) /\ proc[p].of = s}
  <2>1. T \subseteq LiveOf(s, proc)
    BY DEF LiveOf, Alive
  <2>2. \A p, q \in T : p = q
    BY <2>1 DEF CalmInv, CalmOK, AloneOK
  <2> HIDE DEF T
  <2>3. CASE T = {}
    BY <2>3, FS_EmptySet DEF T
  <2>4. CASE T # {}
    <3>1. PICK p \in T : T = {p}
      BY <2>2, <2>4
    <3>2. Cardinality(T) = 1
      BY <3>1, FS_Singleton
    <3> QED BY <3>2 DEF T
  <2> QED BY <2>3, <2>4
<1> QED BY <1>1, CalmCorrect, PTL

\* No stuck entry: whenever no launch of a calm slug is under way, the tagma its
\* runtime.json names is the one its record anchors, so that stop can end it
\* (anchor_identity, and the comment of adopt).
THEOREM StoppableCorrect == Spec => []StoppableIfCalm
<1>1. TypeOK /\ CalmInv => StoppableIfCalm
  <2> SUFFICES ASSUME TypeOK, CalmInv, NEW s \in calm, rec[s] # None, Launching(s) = {},
                      Alive(rt[s]), proc[rt[s]].of = s
               PROVE  Matches(rec[s], rt[s])
    BY DEF StoppableIfCalm
  <2>1. s \in Slugs /\ rt[s] \in Pids /\ rt[s] \in LiveOf(s, proc)
    BY DEF TypeOK, Alive, LiveOf
  <2>2. \A r \in Requests : ~Launches(req[r], s)
    BY DEF Launching, InFlight, Launches
  <2>3. Names(rec[s], rt[s], proc)
    BY <2>1, <2>2 DEF CalmInv, CalmOK, RecordOK
  <2> QED BY <2>1, <2>3, DaemonAssumption DEF Names, Matches
<1> QED BY <1>1, CalmCorrect, PTL
=============================================================================
