---------------------------- MODULE UplinkProofs ----------------------------
(***************************************************************************)
(* The uplink keeps the newest status through every failure, and the       *)
(* lesche keeps what it acknowledged, for every number of versions,        *)
(* pushes, failures, sessions and subscription edges.                      *)
(***************************************************************************)
EXTENDS Uplink, TLAPS

\* Without a session there is no flusher and nothing of its state is left.
NoSession == ~up => at = "off" /\ acked = 0 /\ wire = "none"

\* The newest status is what was published last: a frame the flusher has not
\* read is not overtaken by a retained one, and a POST carries the status or
\* leaves it behind the gate, never a part of each.
NewestInv ==
    /\ NewestKept
    /\ ~Listening => published = 0
    /\ topic.status # 0 => published \in {0, topic.status}
    /\ pending.status = 0 \/ batch.status = 0

\* A projection the lesche has applied, and so may acknowledge, is stored in
\* the generation of the tunnel it came through.
AckInv ==
    /\ AckedStays
    /\ wire = "applied" /\ gen # 0 /\ batch.projection # 0
           => store.gen = gen /\ store.seq >= batch.projection

IndInv == TypeOK /\ NoSession /\ NewestInv /\ AckInv

\* None is the empty snapshot.
LEMMA NoneType == None \in Snapshots /\ None.status = 0 /\ None.projection = 0
BY UplinkAssumption DEF None, Snapshots

\* Membership is a Boolean.
LEMMA InIsBoolean == ASSUME NEW x, NEW S PROVE (x \in S) \in BOOLEAN
OBVIOUS

\* So is what wakes the flusher after an answer.
LEMMA WokenIsBoolean ==
    ASSUME NEW a \in BOOLEAN, NEW b \in BOOLEAN, NEW c \in BOOLEAN
    PROVE  (a \/ (b /\ ~c)) \in BOOLEAN
OBVIOUS

(***************************************************************************)
(* Types.                                                                  *)
(***************************************************************************)

\* Nothing runs at first.
LEMMA InitType == Init => TypeOK
<1> SUFFICES ASSUME Init PROVE TypeOK
  OBVIOUS
<1> USE UplinkAssumption, NoneType
<1>1. PumpType
  BY DEF Init, PumpType, Faces
<1>2. FlushType
  BY DEF Init, FlushType
<1>3. GateType /\ LescheType
  BY DEF Init, GateType, LescheType, Faces
<1>4. FlagType
  BY Zenon DEF Init, FlagType
<1> QED BY <1>1, <1>2, <1>3, <1>4 DEF Init, TypeOK

\* Each step keeps the types of the pumps.
LEMMA NextPump == TypeOK /\ [Next]_vars => PumpType'
<1> SUFFICES ASSUME TypeOK, [Next]_vars PROVE PumpType'
  OBVIOUS
<1> USE UplinkAssumption, NoneType DEF TypeOK, PumpType
<1>1. CASE PublishStatus
  BY <1>1 DEF PublishStatus, Snapshots
<1>2. CASE PublishProjection
  BY <1>2 DEF PublishProjection, Snapshots, Faces
<1>3. CASE Drain
  BY <1>3 DEF Drain, pumpVars
<1>4. CASE PostAcked
  BY <1>4 DEF PostAcked, pumpVars
<1>5. ASSUME NEW on \in BOOLEAN, HintActs(on) PROVE PumpType'
  BY <1>5 DEF HintActs, Started, Faces
<1>6. CASE TunnelUp
  BY <1>6 DEF TunnelUp, Started, Faces
<1>7. CASE SessionEnds
  BY <1>7 DEF SessionEnds, Faces
<1>8. CASE UNCHANGED <<pumpVars, up, published, topic>>
  BY <1>8 DEF pumpVars
<1>9. CASE PresenceEnds \/ Apply \/ LateApply \/ FlusherSubscribes \/ Wake \/ PostFails
            \/ \E f \in Faces : Flip(f)
  BY <1>8, <1>9 DEF PresenceEnds, Apply, LateApply, FlusherSubscribes, Wake, PostFails, Flip
<1>10. ASSUME NEW on \in BOOLEAN, StatusSub(on) \/ ProjectionSub(on) PROVE PumpType'
  BY <1>8, <1>10 DEF StatusSub, ProjectionSub
<1> QED
  BY <1>1, <1>2, <1>3, <1>4, <1>5, <1>6, <1>7, <1>8, <1>9, <1>10
     DEF Next, FlushStep, Dispatch, vars

\* Each step keeps the types of the flusher.
LEMMA NextFlush == TypeOK /\ NoSession /\ [Next]_vars => FlushType'
<1> SUFFICES ASSUME TypeOK, NoSession, [Next]_vars PROVE FlushType'
  OBVIOUS
<1> USE UplinkAssumption, NoneType DEF TypeOK, FlushType
<1>1. CASE FlusherSubscribes \/ Wake
  BY <1>1 DEF FlusherSubscribes, Wake
<1>2. CASE Drain
  BY <1>2 DEF Drain, EnterWait, Newest, Snapshots, PumpType
<1>3. CASE PostAcked
  BY <1>3 DEF PostAcked, Newest, Snapshots
<1>4. CASE PostFails
  BY <1>4 DEF PostFails, EnterWait, Newest, Snapshots
<1>5. CASE TunnelUp
  BY <1>5 DEF TunnelUp, NoSession
<1>6. CASE SessionEnds
  BY <1>6 DEF SessionEnds
<1>7. CASE Apply
  BY <1>7 DEF Apply
<1>8. CASE UNCHANGED flushVars
  BY <1>8 DEF flushVars
<1>9. CASE PublishStatus \/ PublishProjection \/ PresenceEnds \/ LateApply \/ \E f \in Faces : Flip(f)
  BY <1>8, <1>9 DEF PublishStatus, PublishProjection, PresenceEnds, LateApply, Flip
<1>10. CASE Dispatch
  BY <1>8, <1>10 DEF Dispatch, StatusSub, ProjectionSub, HintActs
<1> QED
  BY <1>1, <1>2, <1>3, <1>4, <1>5, <1>6, <1>7, <1>8, <1>9, <1>10 DEF Next, FlushStep, vars

\* Each step keeps the flags Boolean.
LEMMA NextFlag == TypeOK /\ [Next]_vars => FlagType'
<1> SUFFICES ASSUME FlagType, [Next]_vars PROVE FlagType'
  BY DEF TypeOK
<1> USE DEF FlagType
<1>1. CASE UNCHANGED <<up, retry, gate, permit, woken, active>>
  BY <1>1, Zenon
<1>2. CASE Drain
  BY <1>2, Zenon DEF Drain, EnterWait
<1>3. CASE Wake
  BY <1>3, Zenon DEF Wake
<1>4. CASE PostAcked
  <2>1. gate' = ("status" \in faces) /\ active' = ("projection" \in faces)
        /\ woken' = (permit \/ (gate' /\ ~gate)) /\ retry' = FALSE /\ permit' = FALSE /\ up' = up
    BY <1>4, Zenon DEF PostAcked
  <2>2. gate' \in BOOLEAN /\ active' \in BOOLEAN
    BY <2>1, InIsBoolean
  <2>3. woken' \in BOOLEAN
    BY <2>1, <2>2, WokenIsBoolean, Zenon
  <2> QED BY <2>1, <2>2, <2>3, Zenon
<1>5. CASE PostFails
  BY <1>5, Zenon DEF PostFails, EnterWait
<1>6. ASSUME NEW on \in BOOLEAN, StatusSub(on) PROVE FlagType'
  BY <1>6, Zenon DEF StatusSub, Notify, flushVars
<1>7. ASSUME NEW on \in BOOLEAN, ProjectionSub(on) PROVE FlagType'
  BY <1>7, Zenon DEF ProjectionSub, flushVars
<1>8. CASE TunnelUp
  BY <1>8, Zenon DEF TunnelUp
<1>9. CASE SessionEnds
  BY <1>9, Zenon DEF SessionEnds
<1>10. CASE PublishStatus \/ PublishProjection \/ PresenceEnds \/ LateApply \/ FlusherSubscribes
             \/ Apply
  BY <1>1, <1>10
     DEF PublishStatus, PublishProjection, PresenceEnds, LateApply, FlusherSubscribes, Apply,
         flushVars, gateVars
<1>11. ASSUME NEW f \in Faces, Flip(f) PROVE FlagType'
  BY <1>1, <1>11 DEF Flip, flushVars
<1>12. ASSUME NEW on \in BOOLEAN, HintActs(on) PROVE FlagType'
  BY <1>1, <1>12 DEF HintActs, flushVars
<1>13. CASE UNCHANGED vars
  BY <1>1, <1>13 DEF vars, flushVars, gateVars
<1> QED
  BY <1>2, <1>3, <1>4, <1>5, <1>6, <1>7, <1>8, <1>9, <1>10, <1>11, <1>12, <1>13
     DEF Next, FlushStep, Dispatch

\* Each step keeps the types of the frames, the hints and the lesche.
LEMMA NextLesche == TypeOK /\ [Next]_vars => GateType' /\ LescheType'
<1> SUFFICES ASSUME TypeOK, [Next]_vars PROVE GateType' /\ LescheType'
  OBVIOUS
<1> USE UplinkAssumption DEF TypeOK, GateType, LescheType
<1>1. CASE UNCHANGED <<frames, hints, lescheVars, late>>
  BY <1>1 DEF lescheVars
<1>2. CASE PostAcked
  <2>1. active' \in BOOLEAN
    BY <1>2, NextFlag DEF FlagType
  <2> QED BY <1>2, <2>1 DEF PostAcked
<1>3. CASE PostFails
  BY <1>3 DEF PostFails, FlushType, Snapshots
<1>4. ASSUME NEW on \in BOOLEAN, StatusSub(on) \/ ProjectionSub(on) \/ HintActs(on)
      PROVE  GateType' /\ LescheType'
  BY <1>4 DEF StatusSub, ProjectionSub, HintActs, lescheVars
<1>5. CASE TunnelUp
  <2>1. spent.sessions + 1 \in 0..MaxSessions
    BY <1>5 DEF TunnelUp, Spend
  <2>2. [face |-> "status", on |-> "status" \in subs] \in [face : Faces, on : BOOLEAN]
    <3>1. ("status" \in subs) \in BOOLEAN
      BY InIsBoolean
    <3> QED BY <3>1 DEF Faces
  <2>3. frames' \subseteq [face : Faces, on : BOOLEAN]
    <3>1. {[face |-> f, on |-> TRUE] : f \in subs \cap {"projection"}} \subseteq [face : Faces, on : BOOLEAN]
      <4> SUFFICES ASSUME NEW f \in subs \cap {"projection"}
                   PROVE  [face |-> f, on |-> TRUE] \in [face : Faces, on : BOOLEAN]
        OBVIOUS
      <4> QED OBVIOUS
    <3> QED BY <1>5, <2>2, <3>1, Zenon DEF TunnelUp
  <2> QED BY <1>5, <2>1, <2>3 DEF TunnelUp
<1>6. CASE PresenceEnds
  BY <1>6 DEF PresenceEnds, gateVars
<1>7. CASE SessionEnds
  BY <1>7 DEF SessionEnds, FlushType, Snapshots
<1>8. CASE Apply \/ LateApply
  BY <1>8 DEF Apply, LateApply, Accepted, gateVars, FlushType, Snapshots
<1>9. ASSUME NEW f \in Faces, Flip(f) PROVE GateType' /\ LescheType'
  <2>1. [face |-> f, on |-> f \in subs'] \in [face : Faces, on : BOOLEAN]
    <3>1. (f \in subs') \in BOOLEAN
      BY InIsBoolean
    <3> QED BY <3>1
  <2>2. frames' \subseteq [face : Faces, on : BOOLEAN]
    BY <1>9, <2>1 DEF Flip
  <2> QED BY <1>9, <2>2 DEF Flip
<1>10. CASE PublishStatus \/ PublishProjection \/ FlusherSubscribes \/ Drain \/ Wake
  BY <1>1, <1>10
     DEF PublishStatus, PublishProjection, FlusherSubscribes, Drain, Wake, gateVars
<1> QED
  BY <1>1, <1>2, <1>3, <1>4, <1>5, <1>6, <1>7, <1>8, <1>9, <1>10
     DEF Next, FlushStep, Dispatch, vars, gateVars

\* Each step keeps the types.
LEMMA NextType == TypeOK /\ NoSession /\ [Next]_vars => TypeOK'
<1> SUFFICES ASSUME TypeOK, NoSession, [Next]_vars PROVE TypeOK'
  OBVIOUS
<1> DEFINE SpentType == spent \in [failures : 0..MaxFailures, sessions : 0..MaxSessions, flips : 0..MaxFlips]
<1>1. SpentType'
  <2> USE UplinkAssumption DEF TypeOK, Spend
  <2>1. CASE UNCHANGED spent
    BY <2>1
  <2>2. CASE PostFails
    BY <2>2 DEF PostFails
  <2>3. CASE TunnelUp
    BY <2>3 DEF TunnelUp
  <2>4. ASSUME NEW f \in Faces, Flip(f) PROVE SpentType'
    BY <2>4 DEF Flip
  <2>5. CASE PublishStatus \/ PublishProjection \/ FlusherSubscribes \/ Drain \/ Wake \/ PostAcked
             \/ PresenceEnds \/ SessionEnds \/ Apply \/ LateApply \/ Dispatch
    BY <2>1, <2>5
       DEF PublishStatus, PublishProjection, FlusherSubscribes, Drain, Wake, PostAcked,
           PresenceEnds, SessionEnds, Apply, LateApply, Dispatch, StatusSub, ProjectionSub, HintActs
  <2> QED BY <2>1, <2>2, <2>3, <2>4, <2>5 DEF Next, FlushStep, vars
<1> QED BY <1>1, NextFlag, NextPump, NextFlush, NextLesche DEF TypeOK

(***************************************************************************)
(* Without a session.                                                      *)
(***************************************************************************)

\* Only a session has a flusher.
LEMMA NextSession == TypeOK /\ NoSession /\ [Next]_vars => NoSession'
<1> SUFFICES ASSUME TypeOK, NoSession, [Next]_vars PROVE NoSession'
  OBVIOUS
<1> USE DEF NoSession
<1>1. CASE UNCHANGED <<up, at, acked, wire>>
  BY <1>1
<1>2. CASE TunnelUp
  BY <1>2 DEF TunnelUp
<1>3. CASE SessionEnds
  BY <1>3 DEF SessionEnds
<1>4. CASE FlusherSubscribes \/ Drain \/ Wake
  BY <1>4 DEF FlusherSubscribes, Drain, Wake
<1>5. CASE PostAcked \/ PostFails \/ Apply
  BY <1>5 DEF PostAcked, PostFails, Apply
<1>6. CASE PublishStatus \/ PublishProjection \/ PresenceEnds \/ LateApply \/ Dispatch
           \/ \E f \in Faces : Flip(f)
  BY <1>1, <1>6
     DEF PublishStatus, PublishProjection, PresenceEnds, LateApply, Dispatch, StatusSub,
         ProjectionSub, HintActs, Flip, flushVars
<1> QED BY <1>1, <1>2, <1>3, <1>4, <1>5, <1>6 DEF Next, FlushStep, vars, flushVars

(***************************************************************************)
(* The newest status.                                                      *)
(***************************************************************************)

\* Nothing is published at first.
LEMMA InitNewest == Init => NewestInv
BY NoneType DEF Init, NewestInv, NewestKept, Listening

\* Each step keeps the newest status where the flusher will find it.
LEMMA NextNewest == TypeOK /\ NoSession /\ NewestInv /\ [Next]_vars => NewestInv'
<1> SUFFICES ASSUME TypeOK, NoSession, NewestInv, [Next]_vars PROVE NewestInv'
  OBVIOUS
<1> USE NoneType DEF NewestInv, NewestKept, Listening
<1>0. /\ topic \in Snapshots /\ pending \in Snapshots /\ batch \in Snapshots
      /\ at = "post" <=> batch # None
  BY DEF TypeOK, PumpType, FlushType
<1>1. CASE UNCHANGED <<at, published, topic, pending, batch>>
  BY <1>1
<1>2. CASE PublishStatus
  BY <1>0, <1>2 DEF PublishStatus, flushVars, Snapshots
<1>3. CASE PublishProjection
  BY <1>0, <1>3 DEF PublishProjection, flushVars, Snapshots
<1>4. CASE FlusherSubscribes \/ Wake
  BY <1>4 DEF FlusherSubscribes, Wake
<1>5. CASE Drain
  <2> DEFINE status == Newest(pending.status, topic.status)
  <2>1. published \in {0, status}
    BY <1>0, <1>5 DEF Drain, Newest
  <2>2. /\ pending'.status = IF gate THEN 0 ELSE status
        /\ batch'.status = IF gate THEN status ELSE 0
        /\ topic'.status = 0 /\ at' \in {"wait", "post"} /\ published' = published
    BY <1>5 DEF Drain, EnterWait
  <2> QED BY <2>1, <2>2
<1>6. CASE PostAcked
  BY <1>0, <1>6 DEF PostAcked
<1>7. CASE PostFails
  BY <1>0, <1>7 DEF PostFails, EnterWait, Newest
<1>8. CASE TunnelUp
  BY <1>8 DEF TunnelUp, NoSession
<1>9. CASE SessionEnds
  BY <1>9 DEF SessionEnds
<1>10. CASE PresenceEnds \/ Apply \/ LateApply \/ Dispatch \/ \E f \in Faces : Flip(f)
  BY <1>1, <1>10
     DEF PresenceEnds, Apply, LateApply, Dispatch, StatusSub, ProjectionSub, HintActs, Flip, flushVars
<1> QED
  BY <1>1, <1>2, <1>3, <1>4, <1>5, <1>6, <1>7, <1>8, <1>9, <1>10 DEF Next, FlushStep, vars, flushVars

(***************************************************************************)
(* Acknowledgements.                                                       *)
(***************************************************************************)

\* Nothing is acknowledged at first.
LEMMA InitAck == Init => AckInv
BY NoneType DEF Init, AckInv, AckedStays

\* accept_projection never lowers what the live generation has stored, and
\* afterwards it holds the push, or a newer one.
LEMMA AcceptedKeeps ==
    ASSUME TypeOK, NEW push \in 0..MaxPushes
    PROVE  /\ store.gen = gen => Accepted(push).gen = gen /\ Accepted(push).seq >= store.seq
           /\ push # 0 => Accepted(push).gen = gen /\ Accepted(push).seq >= push
BY UplinkAssumption DEF TypeOK, LescheType, Accepted

\* Each step keeps what was acknowledged.
LEMMA NextAck == TypeOK /\ NoSession /\ AckInv /\ [Next]_vars => AckInv'
<1> SUFFICES ASSUME TypeOK, NoSession, AckInv, [Next]_vars PROVE AckInv'
  OBVIOUS
<1> USE UplinkAssumption, NoneType DEF AckInv, AckedStays
<1>0. /\ acked \in 0..MaxPushes /\ batch.projection \in 0..MaxPushes /\ late \in 0..MaxPushes
      /\ store.seq \in 0..MaxPushes
      /\ at = "post" <=> wire # "none"
  BY DEF TypeOK, FlushType, LescheType, Snapshots
<1>1. CASE UNCHANGED <<gen, acked, store, wire, batch>>
  BY <1>1
<1>2. CASE Drain
  BY <1>0, <1>2 DEF Drain, lescheVars
<1>3. CASE PostAcked
  BY <1>0, <1>3 DEF PostAcked, Newest
<1>4. CASE PostFails
  BY <1>4 DEF PostFails
<1>5. CASE TunnelUp
  BY <1>5 DEF TunnelUp, NoSession
<1>6. CASE PresenceEnds
  BY <1>6 DEF PresenceEnds
<1>7. CASE SessionEnds
  BY <1>7 DEF SessionEnds
<1>8. CASE Apply
  <2>1. CASE gen = 0
    BY <1>8, <2>1 DEF Apply
  <2>2. CASE gen # 0
    <3>1. store' = Accepted(batch.projection) /\ UNCHANGED <<gen, acked, batch>>
      BY <1>8, <2>2 DEF Apply
    <3>2. Accepted(batch.projection).seq \in Nat
      BY <1>0 DEF TypeOK, LescheType, Accepted
    <3> QED BY <1>0, <3>1, <3>2, AcceptedKeeps
  <2> QED BY <2>1, <2>2
<1>9. CASE LateApply
  <2>1. CASE UNCHANGED store
    BY <1>1, <1>9, <2>1 DEF LateApply, flushVars
  <2>2. CASE store' = Accepted(late)
    <3>1. UNCHANGED <<gen, acked, wire, batch>>
      BY <1>9 DEF LateApply, flushVars
    <3>2. Accepted(late).seq \in Nat
      BY <1>0 DEF TypeOK, LescheType, Accepted
    <3> QED BY <1>0, <2>2, <3>1, <3>2, AcceptedKeeps
  <2> QED BY <1>9, <2>1, <2>2 DEF LateApply
<1>10. CASE PublishStatus \/ PublishProjection \/ FlusherSubscribes \/ Wake \/ Dispatch
            \/ \E f \in Faces : Flip(f)
  BY <1>1, <1>10
     DEF PublishStatus, PublishProjection, FlusherSubscribes, Wake, Dispatch, StatusSub,
         ProjectionSub, HintActs, Flip, flushVars, lescheVars
<1> QED
  BY <1>1, <1>2, <1>3, <1>4, <1>5, <1>6, <1>7, <1>8, <1>9, <1>10
     DEF Next, FlushStep, vars, flushVars, lescheVars

(***************************************************************************)
(* The theorems.                                                           *)
(***************************************************************************)

\* The parts of the invariant hold together.
LEMMA InvCorrect == Spec => []IndInv
<1>1. Init => IndInv
  <2>1. Init => NoSession
    BY DEF Init, NoSession
  <2> QED BY <2>1, InitType, InitNewest, InitAck DEF IndInv
<1>2. IndInv /\ [Next]_vars => IndInv'
  BY NextType, NextSession, NextNewest, NextAck DEF IndInv
<1> QED BY <1>1, <1>2, PTL DEF Spec

\* The pumps, the flusher, the gates and the lesche keep their types; in
\* particular the flusher never posts an empty batch.
THEOREM TypeCorrect == Spec => []TypeOK
BY InvCorrect, PTL DEF IndInv

\* The newest status is never dropped while a session lasts.
THEOREM NewestCorrect == Spec => []NewestKept
<1>1. IndInv => NewestKept
  BY DEF IndInv, NewestInv
<1> QED BY <1>1, InvCorrect, PTL

\* A late request never buries a projection the lesche has acknowledged.
THEOREM AckedCorrect == Spec => []AckedStays
<1>1. IndInv => AckedStays
  BY DEF IndInv, AckInv
<1> QED BY <1>1, InvCorrect, PTL
=============================================================================
