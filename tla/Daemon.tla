------------------------------- MODULE Daemon -------------------------------
(***************************************************************************)
(* The instance daemon (kallip-daemon): the record area that is its only   *)
(* registry, the runtime.json each tagma writes into its data directory,   *)
(* and the verbs spawn, start, stop and adopt.  Every verb runs on a       *)
(* blocking thread of its own with no lock per slug, so a verb is cut at   *)
(* each file it reads or writes and at each signal it sends.               *)
(*                                                                         *)
(* Left out: users and authorization, request validation, the launch       *)
(* environment except the one-time enrollment code, ports, and workspaces  *)
(* (the overlap scan of spawn and adopt passes). Kernel start times are    *)
(* always readable; a new process has one that no process and no anchor    *)
(* has. A pid is not recycled while a request holds it or works on a slug  *)
(* whose runtime.json names it (Held); it is at any other time.            *)
(***************************************************************************)
EXTENDS Naturals, FiniteSets

CONSTANTS
    Slugs,       \* instance names
    Foreign,     \* the slugs whose data directory is outside the daemon's tree
    Pids,        \* process ids
    Requests,    \* threads serving requests
    None,        \* no record, no anchor, no pid, no process
    Stranger,    \* owner of a process that is not a tagma
    Coded,       \* the slugs registered with a one-time enrollment code
    MaxTimes,    \* bound: start times in use at a time
    MaxServed    \* bound: requests

VARIABLES
    rec,       \* <slug>.json of the record area
    rt,        \* pid in the runtime.json of each data directory
    enrolled,  \* data directories that hold relay credentials
    proc,      \* the process table
    req,       \* where each request is
    served,    \* requests so far
    calm       \* history: see Calm below

vars == <<rec, rt, enrolled, proc, req, served, calm>>

Times == 1..MaxTimes
Anchor == [pid : Pids, starttime : Times]
Record == [identity : Anchor \cup {None}, code : BOOLEAN]
Process == [of : Slugs \cup {Stranger}, starttime : Times, up : BOOLEAN]
ASSUME DaemonAssumption ==
    /\ Foreign \subseteq Slugs /\ Coded \subseteq Slugs /\ Stranger \notin Slugs
    /\ None \notin Slugs \cup Pids \cup Anchor \cup Record \cup Process
    /\ IsFiniteSet(Foreign) /\ MaxServed \in Nat
    /\ MaxTimes \in Nat /\ MaxTimes >= Cardinality(Foreign)

Steps == {"idle", "create", "check", "scrub", "clear", "fork", "poll", "anchor", "validate",
          "rollback", "forget", "verify", "grace"}
Idle == [op |-> "none", at |-> "idle", slug |-> None, seen |-> None, pid |-> None]

Request == [op : {"none", "spawn", "start", "stop", "adopt"}, at : Steps,
            slug : Slugs \cup {None}, seen : Record \cup {None}, pid : Pids \cup {None}]

\* A request has a pid in hand between finding it and being done with it, and
\* the record it has read until it is done with that.
RequestOK(q) ==
    /\ q.slug # None <=> q.at # "idle"
    /\ q.pid # None <=> q.at \in {"anchor", "validate", "grace"}
    /\ q.seen # None <=> q.at \in {"create", "check", "scrub", "anchor", "verify", "grace"}

TypeOK ==
    /\ rec \in [Slugs -> Record \cup {None}]
    /\ rt \in [Slugs -> Pids \cup {None}]
    /\ enrolled \subseteq Slugs
    /\ proc \in [Pids -> Process \cup {None}]
    /\ req \in [Requests -> Request] /\ \A r \in Requests : RequestOK(req[r])
    /\ calm \subseteq Slugs /\ served \in 0..MaxServed

\* Outside instances were started by hand, each with a pid and a start time of
\* its own, and run.
StartedByHand(f, b) ==
    /\ \A s, u \in Foreign : s # u => f[s] # f[u] /\ b[s] # b[u]
    /\ rt = [s \in Slugs |-> IF s \in Foreign THEN f[s] ELSE None]
    /\ proc = [p \in Pids |->
                  IF \E s \in Foreign : f[s] = p
                  THEN LET s == CHOOSE u \in Foreign : f[u] = p
                       IN  [of |-> s, starttime |-> b[s], up |-> TRUE]
                  ELSE None]

\* The daemon's own tree is empty.
Init ==
    /\ rec = [s \in Slugs |-> None]
    /\ \E f \in [Foreign -> Pids], b \in [Foreign -> 1..Cardinality(Foreign)] : StartedByHand(f, b)
    /\ enrolled = {} /\ served = 0 /\ calm = Slugs
    /\ req = [r \in Requests |-> Idle]

(***************************************************************************)
(* Processes and identities.                                               *)
(***************************************************************************)

\* pid_is_alive.
Alive(p) == p # None /\ proc[p] # None

\* Mutant: a recycled pid passes.
MatchesPidOnly(record, p) ==
    /\ Alive(p)
    /\ IF record.identity # None THEN record.identity.pid = p ELSE proc[p].of # Stranger

\* classify_identity with a Match: the anchored incarnation, or by name when
\* there is no anchor.
Matches(record, p) ==
    /\ Alive(p)
    /\ IF record.identity # None
       THEN record.identity = [pid |-> p, starttime |-> proc[p].starttime]
       ELSE proc[p].of # Stranger

InFlight(s) == {r \in Requests : req[r].slug = s}
Launching(s) == {r \in InFlight(s) : req[r].op \in {"spawn", "start"}}

\* A pid the kernel is taken not to recycle now.
Held(p) == \E r \in Requests : req[r].slug # None /\ p \in {req[r].pid, rt[req[r].slug]}

\* The start times a process or an anchor has; any other is as good as new.
InUse ==
    {proc[p].starttime : p \in {q \in Pids : proc[q] # None}}
    \cup {a.starttime : a \in ({rec[s].identity : s \in {u \in Slugs : rec[u] # None}}
                             \cup {req[r].seen.identity :
                                       r \in {q \in Requests : req[q].seen # None}}) \ {None}}

NewTime == CHOOSE t \in Times : t \notin InUse

\* A process starts, with a start time nothing remembers.
Born(p, owner) ==
    /\ proc[p] = None /\ ~Held(p) /\ Times \ InUse # {}
    /\ proc' = [proc EXCEPT ![p] = [of |-> owner, starttime |-> NewTime, up |-> FALSE]]

\* SIGKILL to whoever has the pid named in the runtime.json.
KillNamed(s) == proc' = [p \in Pids |-> IF p = rt[s] THEN None ELSE proc[p]]

\* The record a request has read is dropped where the code is done with it.
To(r, step) ==
    req' = [req EXCEPT ![r].at = step,
                       ![r].seen = IF step = "scrub" THEN @ ELSE None]
Finish(r) == req' = [req EXCEPT ![r] = Idle]

(***************************************************************************)
(* spawn and adopt.                                                        *)
(***************************************************************************)

Begin(r, verb, s, step, seen) ==
    /\ req[r] = Idle /\ served < MaxServed
    /\ served' = served + 1
    /\ req' = [req EXCEPT ![r] = [op |-> verb, at |-> step, slug |-> s, seen |-> seen,
                                  pid |-> None]]

\* spawn up to the advisory probe of the slug.
SpawnProbe(r, s) ==
    /\ s \notin Foreign /\ rec[s] = None
    /\ Begin(r, "spawn", s, "create", [identity |-> None, code |-> s \in Coded])
    /\ UNCHANGED <<rec, rt, enrolled, proc, calm>>

AnchorsPid(s, p) == rec[s] # None /\ rec[s].identity # None /\ rec[s].identity.pid = p

\* adopt observes: the live pid of the data directory must be a tagma by name
\* that no record anchors yet.
AdoptProbe(r, s) ==
    LET p == rt[s]
        anchor == IF Alive(p) THEN [pid |-> p, starttime |-> proc[p].starttime] ELSE None
    IN  /\ s \in Foreign /\ rec[s] = None
        /\ Alive(p) =>
              /\ proc[p].of # Stranger
              /\ ~ \E u \in Slugs : AnchorsPid(u, p)
        /\ Begin(r, "adopt", s, "create", [identity |-> anchor, code |-> s \in Coded])
        /\ UNCHANGED <<rec, rt, enrolled, proc, calm>>

\* Mutant: the record is published by an overwriting write.
CreateRecordOver(r) ==
    LET s == req[r].slug
    IN  /\ req[r].at = "create"
        /\ rec' = [rec EXCEPT ![s] = req[r].seen]
        /\ IF req[r].op = "spawn" THEN To(r, "clear") ELSE Finish(r)
        /\ UNCHANGED <<rt, enrolled, proc, calm, served>>

\* create_record publishes exclusively; the loser of a race learns so here.
CreateRecord(r) ==
    LET s == req[r].slug
    IN  /\ req[r].at = "create"
        /\ rec' = [rec EXCEPT ![s] = IF @ = None THEN req[r].seen ELSE @]
        /\ IF rec[s] = None /\ req[r].op = "spawn" THEN To(r, "clear") ELSE Finish(r)
        /\ UNCHANGED <<rt, enrolled, proc, calm, served>>

(***************************************************************************)
(* start, up to the shared launch.                                         *)
(***************************************************************************)

StartRead(r, s) ==
    /\ rec[s] # None
    /\ Begin(r, "start", s, "check", rec[s])
    /\ calm' = calm \ {u \in {s} : Launching(u) # {}}
    /\ UNCHANGED <<rec, rt, enrolled, proc>>

\* Liveness of the recorded pid alone decides AlreadyRunning.
StartCheck(r) ==
    /\ req[r].at = "check"
    /\ IF Alive(rt[req[r].slug]) THEN Finish(r) ELSE To(r, "scrub")
    /\ UNCHANGED <<rec, rt, enrolled, proc, calm, served>>

\* replay_env drops a spent enrollment code and writes the record it has read
\* back without it.
ReplayEnv(r) ==
    LET s == req[r].slug
        spent == req[r].seen.code /\ s \in enrolled
    IN  /\ req[r].at = "scrub"
        /\ rec' = IF spent THEN [rec EXCEPT ![s] = [req[r].seen EXCEPT !.code = FALSE]] ELSE rec
        /\ To(r, "clear")
        /\ UNCHANGED <<rt, enrolled, proc, calm, served>>

(***************************************************************************)
(* launch.                                                                 *)
(***************************************************************************)

\* Mutant: a runtime.json of an earlier incarnation is left in place.
KeepStaleRuntime(r) ==
    /\ req[r].at = "clear"
    /\ To(r, "fork")
    /\ UNCHANGED <<rec, rt, enrolled, proc, calm, served>>

ClearStaleRuntime(r) ==
    /\ req[r].at = "clear"
    /\ rt' = [rt EXCEPT ![req[r].slug] = None]
    /\ To(r, "fork")
    /\ UNCHANGED <<rec, enrolled, proc, calm, served>>

\* The helper detaches the tagma.
HelperForks(r, p) ==
    /\ req[r].at = "fork"
    /\ Born(p, req[r].slug)
    /\ To(r, "poll")
    /\ UNCHANGED <<rec, rt, enrolled, calm, served>>

\* What a launch error leaves to its caller: spawn rolls back, start gives up.
LaunchFailed(r) == IF req[r].op = "spawn" THEN To(r, "rollback") ELSE Finish(r)

\* The directory, the stale file, the environment or the helper fails.
LaunchErrs(r) ==
    /\ req[r].at \in {"clear", "fork"}
    /\ LaunchFailed(r)
    /\ UNCHANGED <<rec, rt, enrolled, proc, calm, served>>

\* The poll sees a live pid: anchor_identity reads its start time and the record,
\* and sets the anchor in its copy.  Without a record the pid is claimed unanchored.
PollSees(r) ==
    LET s == req[r].slug
        anchor == [pid |-> rt[s], starttime |-> proc[rt[s]].starttime]
    IN  /\ req[r].at = "poll" /\ Alive(rt[s])
        /\ IF rec[s] = None THEN Finish(r)
           ELSE req' = [req EXCEPT ![r].at = "anchor", ![r].pid = rt[s],
                                   ![r].seen = [rec[s] EXCEPT !.identity = anchor]]
        /\ UNCHANGED <<rec, rt, enrolled, proc, calm, served>>

\* Mutant: an anchor that is there already is kept.
AnchorOnce(r) ==
    LET s == req[r].slug
    IN  /\ req[r].at = "anchor"
        /\ rec' = [rec EXCEPT ![s] = IF @ = None \/ @.identity = None THEN req[r].seen ELSE @]
        /\ Finish(r)
        /\ UNCHANGED <<rt, enrolled, proc, calm, served>>

\* The pinned copy is written back, whether or not its process still lives.
AnchorIdentity(r) ==
    /\ req[r].at = "anchor"
    /\ rec' = [rec EXCEPT ![req[r].slug] = req[r].seen]
    /\ To(r, "validate")
    /\ UNCHANGED <<rt, enrolled, proc, calm, served>>

\* The process was gone before its start time was read: the anchor is cleared.
AnchorCleared(r) ==
    /\ req[r].at = "anchor" /\ ~Alive(req[r].pid)
    /\ rec' = [rec EXCEPT ![req[r].slug] = [req[r].seen EXCEPT !.identity = None]]
    /\ To(r, "validate")
    /\ UNCHANGED <<rt, enrolled, proc, calm, served>>

\* The record cannot be written: the launch is claimed all the same.
AnchorUnwritten(r) ==
    /\ req[r].at = "anchor"
    /\ Finish(r)
    /\ calm' = calm \ {req[r].slug}
    /\ UNCHANGED <<rec, rt, enrolled, proc, served>>

\* The revalidation: the launch is reported, or the poll goes on.
Revalidate(r) ==
    LET s == req[r].slug
    IN  /\ req[r].at = "validate"
        /\ IF rec[s] # None /\ Matches(rec[s], req[r].pid) THEN Finish(r)
           ELSE req' = [req EXCEPT ![r].at = "poll", ![r].pid = None]
        /\ UNCHANGED <<rec, rt, enrolled, proc, calm, served>>

\* The deadline: whatever the runtime.json names is killed.
PollTimesOut(r) ==
    LET s == req[r].slug
    IN  /\ req[r].at = "poll"
        /\ KillNamed(s)
        /\ LaunchFailed(r)
        /\ calm' = calm \ {u \in {s} : \E p \in Pids : Alive(p) /\ proc[p].of = u /\ ~proc[p].up}
        /\ UNCHANGED <<rec, rt, enrolled, served>>

\* The rollback of spawn: the half-booted tagma first, then the record, whose
\* failing deletion is only warned about.
RollbackKills(r) ==
    /\ req[r].at = "rollback"
    /\ KillNamed(req[r].slug)
    /\ To(r, "forget")
    /\ UNCHANGED <<rec, rt, enrolled, calm, served>>

RollbackForgets(r, deleted) ==
    /\ req[r].at = "forget"
    /\ rec' = IF deleted THEN [rec EXCEPT ![req[r].slug] = None] ELSE rec
    /\ Finish(r)
    /\ UNCHANGED <<rt, enrolled, proc, calm, served>>

(***************************************************************************)
(* stop.                                                                   *)
(***************************************************************************)

StopRead(r, s) ==
    /\ rec[s] # None
    /\ Begin(r, "stop", s, "verify", rec[s])
    /\ UNCHANGED <<rec, rt, enrolled, proc, calm>>

\* The runtime.json's pid is judged against the record read before, and gets
\* SIGTERM on a match.
StopVerify(r) ==
    LET s == req[r].slug
    IN  /\ req[r].at = "verify"
        /\ IF rt[s] # None /\ Matches(req[r].seen, rt[s])
           THEN req' = [req EXCEPT ![r].at = "grace", ![r].pid = rt[s]]
           ELSE Finish(r)
        /\ UNCHANGED <<rec, rt, enrolled, proc, calm, served>>

\* The process ends within the grace period, or it is killed.
StopEnds(r) ==
    /\ req[r].at = "grace"
    /\ proc' = [proc EXCEPT ![req[r].pid] = None]
    /\ Finish(r)
    /\ UNCHANGED <<rec, rt, enrolled, calm, served>>

(***************************************************************************)
(* Tagmata, other processes and the daemon itself.                         *)
(***************************************************************************)

\* write_instance_state, at the end of a boot.
TagmaPublishes(p) ==
    /\ Alive(p) /\ proc[p].of \in Slugs /\ ~proc[p].up
    /\ proc' = [proc EXCEPT ![p].up = TRUE]
    /\ rt' = [rt EXCEPT ![proc[p].of] = p]
    /\ UNCHANGED <<rec, enrolled, req, calm, served>>

\* The first boot with a code redeems it before it publishes.
TagmaEnrolls(p) ==
    /\ Alive(p) /\ proc[p].of \in Coded /\ ~proc[p].up
    /\ enrolled' = enrolled \cup {proc[p].of}
    /\ UNCHANGED <<rec, rt, proc, req, served, calm>>

\* Any process may end at any time; a runtime.json stays behind.
ProcessEnds(p) ==
    /\ Alive(p)
    /\ proc' = [proc EXCEPT ![p] = None]
    /\ UNCHANGED <<rec, rt, enrolled, req, calm, served>>

\* Some other program gets the pid.
StrangerBorn(p) ==
    /\ Born(p, Stranger)
    /\ UNCHANGED <<rec, rt, enrolled, req, calm, served>>

\* The daemon dies with the requests it was serving; tagmata live on.
DaemonCrash ==
    /\ req' = [r \in Requests |-> Idle]
    /\ calm' = {s \in calm : Launching(s) = {}}
    /\ UNCHANGED <<rec, rt, enrolled, proc, served>>

Serve(r) ==
    \/ \E s \in Slugs : SpawnProbe(r, s) \/ AdoptProbe(r, s) \/ StartRead(r, s) \/ StopRead(r, s)
    \/ CreateRecord(r) \/ StartCheck(r) \/ ReplayEnv(r)
    \/ ClearStaleRuntime(r) \/ LaunchErrs(r) \/ \E p \in Pids : HelperForks(r, p)
    \/ PollSees(r) \/ AnchorIdentity(r) \/ AnchorCleared(r) \/ AnchorUnwritten(r)
    \/ Revalidate(r) \/ PollTimesOut(r) \/ RollbackKills(r)
    \/ \E deleted \in BOOLEAN : RollbackForgets(r, deleted)
    \/ StopVerify(r) \/ StopEnds(r)

Environment ==
    \/ \E p \in Pids : TagmaPublishes(p) \/ TagmaEnrolls(p) \/ ProcessEnds(p) \/ StrangerBorn(p)
    \/ DaemonCrash

Next == (\E r \in Requests : Serve(r)) \/ Environment

Spec == Init /\ [][Next]_vars

(***************************************************************************)
(* Properties.  A slug is calm while none of three things has happened to  *)
(* it: a start ran beside another launch of it, a launch was cut short by  *)
(* a crash of the daemon or gave up on a process that was still booting,   *)
(* an anchor could not be written.  Races of spawns, stops beside any      *)
(* launch, deaths of tagmata and recycled pids leave a slug calm.          *)
(***************************************************************************)

\* No split brain (create_record): a calm slug has one tagma at most, whatever
\* spawns raced for it, failed and were retried.
OneTagmaIfCalm ==
    \A s \in calm : Cardinality({p \in Pids : Alive(p) /\ proc[p].of = s}) <= 1

\* stop never shoots an innocent process: what it signals on the word
\* of a launch's anchor is a tagma of this instance, though pids are recycled,
\* starts race and the daemon crashes.
StopHitsOwn ==
    \A r \in Requests :
        (/\ req[r].at = "grace" /\ req[r].slug \notin Foreign
         /\ req[r].seen.identity # None /\ Alive(req[r].pid))
            => proc[req[r].pid].of = req[r].slug

\* No stuck entry (the comment of adopt): once the launches of a calm slug are
\* over, the tagma its runtime.json names can be stopped.
StoppableIfCalm ==
    \A s \in calm :
        (rec[s] # None /\ Launching(s) = {} /\ Alive(rt[s]) /\ proc[rt[s]].of = s)
            => Matches(rec[s], rt[s])
=============================================================================
