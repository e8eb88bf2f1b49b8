-------------------------------- MODULE Uplink --------------------------------
(***************************************************************************)
(* The metadata uplink of a tagma: the status and projection pumps publish *)
(* snapshots, the upstream flusher batches them into POSTs, and the lesche *)
(* keeps the latest ones and tells the tagma, by OwnerSub frames and in    *)
(* the POST's answer, whether anybody reads them.  Requests are lost,      *)
(* answers are lost, an abandoned request may still be applied later, and  *)
(* the tunnel drops and comes back.                                        *)
(* A topic is the newest unread frame: the flusher drains it to the last   *)
(* frame and a lagging receiver loses only older ones.  Signals, which ride  *)
(* along and are never retained, are left out.                             *)
(***************************************************************************)
EXTENDS Integers, FiniteSets

CONSTANTS
    MaxVersion,   \* bound: changes of the tagma's status
    MaxPushes,    \* bound: projections captured
    MaxFailures,  \* bound: POSTs that fail
    MaxSessions,  \* bound: tunnels opened
    MaxFlips      \* bound: subscribe and unsubscribe edges

ASSUME UplinkAssumption ==
    /\ MaxVersion \in Nat \ {0} /\ MaxPushes \in Nat
    /\ MaxFailures \in Nat /\ MaxSessions \in Nat /\ MaxFlips \in Nat

VARIABLES
    version,    \* the tagma's status as last captured
    pushSeq,    \* projection_push_seq
    up,         \* the tagma runs a tunnel session
    pump,       \* the status and the projection pump
    published,  \* newest status published since the flusher subscribed and not
                \* acknowledged yet, 0 if none
    topic,      \* newest frame of each topic the flusher has not read
    at,         \* where the flusher is
    pending,    \* its retained snapshots
    batch,      \* the events of its POST
    retry,      \* its retry tick is armed
    wire,       \* how far the POST got
    acked,      \* newest projection acknowledged in this session
    gate,       \* status_push_active
    permit,     \* status_gate_notify holds a permit
    woken,      \* the flusher's wait was notified
    active,     \* projection_active
    frames,     \* OwnerSub frames being dispatched, in any order
    hints,      \* projection hints that have yet to start or stop the pump
    gen,        \* the lesche's presence of the tagma: its generation, 0 if none
    store,      \* the lesche's projection and the generation that pushed it
    subs,       \* faces somebody is subscribed to
    faces,      \* counts the POST's answer carries
    late,       \* the projection of an abandoned request that may still arrive, or 0
    spent       \* failures, sessions and flips so far

pumpVars == <<version, pushSeq, pump>>
flushVars == <<at, pending, batch, retry, wire, acked>>
gateVars == <<gate, permit, woken, active, frames, hints>>
lescheVars == <<gen, store, subs, faces>>
vars == <<pumpVars, up, published, topic, flushVars, gateVars, lescheVars, late, spent>>

Faces == {"status", "projection"}
Snapshots == [status : 0..MaxVersion, projection : 0..MaxPushes]
None == [status |-> 0, projection |-> 0]

PumpType ==
    /\ version \in 1..MaxVersion /\ pushSeq \in 0..MaxPushes
    /\ pump \in [Faces -> {"off", "fresh", "on"}]
    /\ published \in 0..MaxVersion /\ topic \in Snapshots

\* The flusher has a batch, and a request, exactly while it posts.
FlushType ==
    /\ at \in {"off", "spawned", "drain", "post", "wait"}
    /\ pending \in Snapshots /\ batch \in Snapshots
    /\ wire \in {"none", "sent", "applied", "refused"} /\ acked \in 0..MaxPushes
    /\ at = "post" <=> batch # None
    /\ at = "post" <=> wire # "none"

FlagType ==
    /\ up \in BOOLEAN /\ retry \in BOOLEAN
    /\ gate \in BOOLEAN /\ permit \in BOOLEAN /\ woken \in BOOLEAN /\ active \in BOOLEAN

GateType ==
    /\ frames \subseteq [face : Faces, on : BOOLEAN] /\ hints \subseteq BOOLEAN

LescheType ==
    /\ gen \in 0..MaxSessions
    /\ store \in [gen : 0..MaxSessions, seq : 0..MaxPushes]
    /\ subs \subseteq Faces /\ faces \subseteq Faces /\ late \in 0..MaxPushes

TypeOK ==
    /\ FlagType /\ PumpType /\ FlushType /\ GateType /\ LescheType
    /\ spent \in [failures : 0..MaxFailures, sessions : 0..MaxSessions, flips : 0..MaxFlips]

Init ==
    /\ version = 1 /\ pushSeq = 0 /\ up = FALSE /\ pump = [f \in Faces |-> "off"]
    /\ published = 0 /\ topic = None
    /\ at = "off" /\ pending = None /\ batch = None /\ retry = FALSE
    /\ wire = "none" /\ acked = 0
    /\ gate = TRUE /\ permit = FALSE /\ woken = FALSE /\ active = FALSE
    /\ frames = {} /\ hints = {}
    /\ gen = 0 /\ store = [gen |-> 0, seq |-> 0]
    /\ subs = {} /\ faces = {} /\ late = 0
    /\ spent = [failures |-> 0, sessions |-> 0, flips |-> 0]

Spend(what, max) == spent[what] < max /\ spent' = [spent EXCEPT ![what] = @ + 1]
Listening == at \notin {"off", "spawned"}

(***************************************************************************)
(* The pumps.                                                              *)
(***************************************************************************)

\* The status pump captures the status, changed or not, on its first tick, after
\* a change and every FORCED_RESEND; a frame nobody subscribes to yet is gone.
PublishStatus ==
    /\ pump["status"] = "on"
    /\ version' \in {version, version + 1} \cap 1..MaxVersion
    /\ IF Listening
       THEN published' = version' /\ topic' = [topic EXCEPT !.status = version']
       ELSE UNCHANGED <<published, topic>>
    /\ UNCHANGED <<pushSeq, pump, up, flushVars, gateVars, lescheVars, late, spent>>

\* The projection pump publishes its first shot whatever the hint, then only
\* while somebody reads; every capture takes the next push_seq.
PublishProjection ==
    /\ pump["projection"] = "fresh" \/ (pump["projection"] = "on" /\ active)
    /\ pushSeq < MaxPushes /\ pushSeq' = pushSeq + 1
    /\ pump' = [pump EXCEPT !["projection"] = "on"]
    /\ topic' = IF Listening THEN [topic EXCEPT !.projection = pushSeq'] ELSE topic
    /\ UNCHANGED <<version, up, published, flushVars, gateVars, lescheVars, late, spent>>

(***************************************************************************)
(* The flusher.                                                            *)
(***************************************************************************)

\* The task's first poll subscribes the topics.
FlusherSubscribes ==
    /\ at = "spawned" /\ at' = "drain"
    /\ UNCHANGED <<pumpVars, up, published, topic, pending, batch, retry, wire, acked,
                   gateVars, lescheVars, late, spent>>

\* Enabling the gate's notification takes a stored permit.
EnterWait == at' = "wait" /\ woken' = permit /\ permit' = FALSE

Newest(old, new) == IF new # 0 THEN new ELSE old

\* Drain to the last frame of each topic; the status waits for its gate.
Drain ==
    /\ at = "drain"
    /\ LET status == Newest(pending.status, topic.status)
           due == [status |-> IF gate THEN status ELSE 0,
                   projection |-> Newest(pending.projection, topic.projection)]
       IN  /\ pending' = [status |-> IF gate THEN 0 ELSE status, projection |-> 0]
           /\ batch' = due
           /\ IF due = None
              THEN EnterWait /\ UNCHANGED wire
              ELSE at' = "post" /\ wire' = "sent" /\ UNCHANGED <<permit, woken>>
    /\ topic' = None
    /\ UNCHANGED <<pumpVars, up, published, retry, acked, gate, active, frames, hints,
                   lescheVars, late, spent>>

\* A fresh frame, the retry tick or the gate ends the wait.  An armed tick
\* stays ready until a POST succeeds.
Wake ==
    /\ at = "wait" /\ at' = "drain"
    /\ topic # None \/ retry \/ woken
    /\ woken' = FALSE
    /\ UNCHANGED <<pumpVars, up, published, topic, pending, batch, retry, wire, acked,
                   gate, permit, active, frames, hints, lescheVars, late, spent>>

\* handle_status_sub: an opening gate notifies the flusher.
Notify(waiting) ==
    /\ woken' = (woken \/ waiting)
    /\ permit' = (permit \/ ~waiting)

\* The answer arrives: the tick is off and both gates take the counts in it.
PostAcked ==
    /\ at = "post" /\ wire = "applied"
    /\ retry' = FALSE /\ wire' = "none" /\ batch' = None
    /\ acked' = Newest(acked, batch.projection)
    /\ published' = IF batch.status = published THEN 0 ELSE published
    /\ gate' = ("status" \in faces) /\ active' = ("projection" \in faces)
    /\ hints' = IF active # active' THEN hints \cup {active'} ELSE hints
    /\ at' = "wait" /\ woken' = (permit \/ (gate' /\ ~gate)) /\ permit' = FALSE
    /\ faces' = {}
    /\ UNCHANGED <<pumpVars, up, topic, pending, frames, gen, store, subs, late, spent>>

\* Mutant: a failed POST forgets its snapshots.
PostFailsForgets ==
    /\ at = "post" /\ wire # "none"
    /\ IF wire = "refused" THEN UNCHANGED spent ELSE Spend("failures", MaxFailures)
    /\ late' \in IF wire = "sent" /\ late = 0 THEN {late, batch.projection} ELSE {late}
    /\ wire' = "none" /\ batch' = None /\ retry' = TRUE
    /\ EnterWait
    /\ faces' = {}
    /\ UNCHANGED <<pumpVars, up, published, topic, pending, acked, gate, active, frames, hints,
                   gen, store, subs>>

\* The POST is refused, times out, or its answer is lost: the snapshots are
\* retained, signals are not, and the tick is armed.
PostFails ==
    /\ at = "post" /\ wire # "none"
    /\ IF wire = "refused" THEN UNCHANGED spent ELSE Spend("failures", MaxFailures)
    /\ late' \in IF wire = "sent" /\ late = 0 THEN {late, batch.projection} ELSE {late}
    /\ pending' = [status |-> Newest(pending.status, batch.status), projection |-> batch.projection]
    /\ wire' = "none" /\ batch' = None /\ retry' = TRUE
    /\ EnterWait
    /\ faces' = {}
    /\ UNCHANGED <<pumpVars, up, published, topic, acked, gate, active, frames, hints,
                   gen, store, subs>>

(***************************************************************************)
(* OwnerSub frames: each is dispatched on a task of its own.               *)
(***************************************************************************)

\* Mutant: the gate opens without a notification.
StatusSubSilent(on) ==
    /\ [face |-> "status", on |-> on] \in frames
    /\ frames' = frames \ {[face |-> "status", on |-> on]}
    /\ gate' = on
    /\ UNCHANGED <<permit, woken>>
    /\ UNCHANGED <<pumpVars, up, published, topic, flushVars, active, hints, lescheVars, late, spent>>

StatusSub(on) ==
    /\ [face |-> "status", on |-> on] \in frames
    /\ frames' = frames \ {[face |-> "status", on |-> on]}
    /\ gate' = on
    /\ IF on /\ ~gate THEN Notify(at = "wait") ELSE UNCHANGED <<permit, woken>>
    /\ UNCHANGED <<pumpVars, up, published, topic, flushVars, active, hints, lescheVars, late, spent>>

\* handle_projection_hint swaps the flag, then starts or stops the pump.
ProjectionSub(on) ==
    /\ [face |-> "projection", on |-> on] \in frames
    /\ frames' = frames \ {[face |-> "projection", on |-> on]}
    /\ active' = on
    /\ hints' = IF active # on THEN hints \cup {on} ELSE hints
    /\ UNCHANGED <<pumpVars, up, published, topic, flushVars, gate, permit, woken, lescheVars, late, spent>>

Started(p) == IF p = "off" THEN "fresh" ELSE p

HintActs(on) ==
    /\ on \in hints /\ hints' = hints \ {on}
    /\ pump' = [pump EXCEPT !["projection"] = IF on THEN Started(@) ELSE "off"]
    /\ UNCHANGED <<version, pushSeq, up, published, topic, flushVars, gate, permit, woken,
                   active, frames, lescheVars, late, spent>>

(***************************************************************************)
(* The tunnel.                                                             *)
(***************************************************************************)

\* The lesche admits one tunnel per tagma, starts a generation without a
\* status and re-sends what is read; the tagma starts its pumps and flusher.
TunnelUp ==
    /\ ~up /\ gen = 0 /\ Spend("sessions", MaxSessions)
    /\ up' = TRUE
    /\ gen' = spent.sessions + 1
    /\ frames' = frames \cup {[face |-> "status", on |-> "status" \in subs]}
                        \cup {[face |-> f, on |-> TRUE] : f \in subs \cap {"projection"}}
    /\ pump' = [f \in Faces |-> IF f = "status" THEN "on" ELSE Started(pump[f])]
    /\ at' = "spawned"
    /\ UNCHANGED <<version, pushSeq, published, topic, pending, batch, retry, wire, acked,
                   gate, permit, woken, active, hints, store, subs, faces, late>>

\* The stream ends for the lesche, or for the tagma: it stops the pumps and
\* the flusher, whose POST is abandoned; unread frames may be lost.
PresenceEnds ==
    /\ gen # 0 /\ gen' = 0
    /\ UNCHANGED <<pumpVars, up, published, topic, flushVars, gateVars, store, subs, faces, late, spent>>

SessionEnds ==
    /\ up /\ up' = FALSE
    /\ pump' = [f \in Faces |-> "off"]
    /\ frames' \in SUBSET frames
    /\ late' \in IF wire = "sent" /\ late = 0 THEN {late, batch.projection} ELSE {late}
    /\ at' = "off" /\ topic' = None /\ pending' = None /\ batch' = None
    /\ retry' = FALSE /\ wire' = "none" /\ woken' = FALSE
    /\ published' = 0 /\ acked' = 0 /\ faces' = {}
    /\ UNCHANGED <<version, pushSeq, gate, permit, active, hints, gen, store, subs, spent>>

(***************************************************************************)
(* The lesche.                                                             *)
(***************************************************************************)

\* Mutant: a push is accepted whatever its number.
AcceptedAny(push) ==
    IF push = 0 THEN store ELSE [gen |-> gen, seq |-> push]

\* accept_projection: a replay within the live generation is ignored.
Accepted(push) ==
    IF push = 0 \/ (store.gen = gen /\ push <= store.seq)
    THEN store ELSE [gen |-> gen, seq |-> push]

\* post_upstream needs a presence, applies the batch and answers the counts; the
\* status it records on the presence is kept here as the acknowledgement only.
Apply ==
    /\ at = "post" /\ wire = "sent"
    /\ IF gen = 0
       THEN wire' = "refused" /\ UNCHANGED <<store, faces>>
       ELSE /\ wire' = "applied"
            /\ store' = Accepted(batch.projection)
            /\ faces' = subs
    /\ UNCHANGED <<pumpVars, up, published, topic, at, pending, batch, retry, acked, gateVars,
                   gen, subs, late, spent>>

\* An abandoned request is applied after all, or never.
LateApply ==
    /\ late # 0 /\ late' = 0
    /\ \/ gen # 0 /\ store' = Accepted(late)
       \/ UNCHANGED store
    /\ UNCHANGED <<pumpVars, up, published, topic, flushVars, gateVars, gen, subs, faces, spent>>

\* The first subscriber of a face arrives, or the last one leaves.
Flip(f) ==
    /\ Spend("flips", MaxFlips)
    /\ subs' = IF f \in subs THEN subs \ {f} ELSE subs \cup {f}
    /\ frames' = IF gen # 0 /\ up THEN frames \cup {[face |-> f, on |-> f \in subs']} ELSE frames
    /\ UNCHANGED <<pumpVars, up, published, topic, flushVars, gate, permit, woken, active, hints,
                   gen, store, faces, late>>

FlushStep == FlusherSubscribes \/ Drain \/ Wake \/ PostAcked \/ (wire = "refused" /\ PostFails)
Dispatch == \E on \in BOOLEAN : StatusSub(on) \/ ProjectionSub(on) \/ HintActs(on)

Next ==
    \/ PublishStatus \/ PublishProjection
    \/ FlushStep \/ PostFails \/ Dispatch
    \/ TunnelUp \/ PresenceEnds \/ SessionEnds
    \/ Apply \/ LateApply \/ \E f \in Faces : Flip(f)

\* The runtime polls the flusher and the dispatch tasks, the lesche answers, and
\* a tunnel it closed ends at the tagma too; nothing has to change, be published
\* or be read.
Fairness ==
    /\ WF_vars(FlushStep) /\ WF_vars(Apply) /\ WF_vars(Dispatch)
    /\ WF_vars(gen = 0 /\ SessionEnds)

Spec == Init /\ [][Next]_vars /\ Fairness

(***************************************************************************)
(* Properties.                                                             *)
(***************************************************************************)

\* While a session lasts, the newest status is never dropped: it is unread,
\* retained, in flight or acknowledged, through every failure and closed gate.
NewestKept ==
    Listening => published \in {0, topic.status, pending.status, batch.status}

\* A push the lesche acknowledged is not buried by an older one that arrives
\* late, of this session or of one before.
AckedStays == gen # 0 /\ acked # 0 => store.gen = gen /\ store.seq >= acked

\* A status published in a session is acknowledged by the lesche unless the gate
\* closes or the session ends first: without waiting for the next capture, after
\* a failure, and also when it was retained behind a closed gate that opens.
StatusArrives ==
    published # 0 /\ Listening /\ gate ~> published = 0 \/ ~gate \/ ~Listening
=============================================================================
