--------------------------- MODULE ApprovalProofs ---------------------------
(***************************************************************************)
(* Proofs about Approval, for every set of actions, every assignment of    *)
(* gates and any number of crashes.                                        *)
(***************************************************************************)
EXTENDS Approval, TLAPS

\* TypeOK without the Boolean, which the SMT backend handles on its own.
PlainType ==
    /\ status \in [Ids -> Statuses] /\ disk \in [Ids -> Statuses]
    /\ notes \subseteq Ids /\ told \subseteq Ids /\ diskTold \subseteq Ids
    /\ pc \in PCs /\ current \in Ids \cup {None}
    /\ pc \in {"taken", "running"} <=> current # None
    /\ used \subseteq Ids
    /\ decided \in [Ids -> SUBSET Deciders]
    /\ written \in [Ids -> SUBSET Deciders]
    /\ ran \in [Ids -> Nat]
    /\ crashes \in 0..MaxCrashes /\ lost \subseteq Ids

\* Every step keeps everything but the skip flag well-typed.
LEMMA PlainStep == PlainType /\ [Next]_vars => PlainType'
<1> SUFFICES ASSUME PlainType, [Next]_vars PROVE PlainType'
  OBVIOUS
<1> USE CrashAssumption, IdAssumption DEF PlainType, Statuses, PCs, storeVars, diskVars, roundVars,
            historyVars, WriteApprovals, WriteContext, Called
<1>1. CASE UNCHANGED vars
  BY <1>1 DEF vars
<1>2. CASE StartRound \/ PersistInRound \/ BeginCalls
  BY <1>2 DEF StartRound, PersistInRound, BeginCalls
<1>3. ASSUME NEW id \in Ids, Enqueue(id) \/ Commit(id) \/ Cancel(id) \/ TakeForRedeem(id)
      PROVE  PlainType'
  BY <1>3 DEF Enqueue, Commit, Cancel, TakeForRedeem
<1>4. CASE OtherCall
  BY <1>4 DEF OtherCall
<1>5. CASE Dispatch
  <2>0. ran \in [Ids -> Nat]
    OBVIOUS
  <2>1. ran' \in [Ids -> Nat]
    <3>1. ran' = [id \in Ids |-> IF id = current THEN ran[id] + 1 ELSE ran[id]]
      BY <1>5, <2>0, Zenon DEF Dispatch
    <3> QED
      BY <2>0, <3>1
  <2> QED
    BY <1>5, <2>1 DEF Dispatch
<1>6. CASE RedeemReturns
  BY <1>6 DEF RedeemReturns
<1>8. CASE EndCalls \/ SaveApprovals \/ InterruptRound
  BY <1>8 DEF EndCalls, SaveApprovals, InterruptRound
<1>9. CASE Restart \/ Crash
  BY <1>9 DEF Restart, Crash, Restored
<1>10. ASSUME NEW id \in Ids, NEW by \in Deciders, Respond(id, by)
       PROVE  PlainType'
  BY <1>10 DEF Respond
<1> QED
  BY <1>1, <1>2, <1>3, <1>4, <1>5, <1>6, <1>8, <1>9, <1>10 DEF Next, RoundStep

\* Every step keeps the skip flag Boolean.
LEMMA SkipStep == skip \in BOOLEAN /\ [Next]_vars => skip' \in BOOLEAN
<1> SUFFICES ASSUME skip \in BOOLEAN, [Next]_vars PROVE skip' \in BOOLEAN
  OBVIOUS
<1>1. CASE UNCHANGED vars
  BY <1>1 DEF vars, roundVars
<1>2. CASE RoundStep
  BY <1>2 DEF RoundStep, StartRound, PersistInRound, BeginCalls, Enqueue, Commit,
     Cancel, TakeForRedeem, OtherCall, Called, Dispatch, RedeemReturns,
     EndCalls, SaveApprovals, InterruptRound
<1>3. CASE Restart \/ Crash
  BY <1>3 DEF Restart, Crash, Restored
<1>4. CASE \E id \in Ids, by \in Deciders : Respond(id, by)
  BY <1>4 DEF Respond, roundVars
<1> QED
  BY <1>1, <1>2, <1>3, <1>4 DEF Next

\* The store, its copy on disk and the round stay well-typed.
THEOREM TypeCorrect == Spec => []TypeOK
<1>1. Init => PlainType /\ skip \in BOOLEAN
  <2>1. Init => PlainType
    BY CrashAssumption DEF Init, PlainType, Statuses, PCs
  <2>2. Init => skip \in BOOLEAN
    BY DEF Init
  <2> QED
    BY <2>1, <2>2
<1>2. (PlainType /\ skip \in BOOLEAN) /\ [Next]_vars => (PlainType /\ skip \in BOOLEAN)'
  BY PlainStep, SkipStep
<1>3. PlainType /\ skip \in BOOLEAN => TypeOK
  BY DEF PlainType, TypeOK
<1> QED
  BY <1>1, <1>2, <1>3, PTL DEF Spec

\* Every step keeps unminted ids out of the store and of its copy.
LEMMA FreshStep == PlainType /\ FreshIds /\ [Next]_vars => FreshIds'
<1> SUFFICES ASSUME PlainType, FreshIds, [Next]_vars PROVE FreshIds'
  OBVIOUS
<1> USE DEF PlainType, FreshIds, storeVars, diskVars, historyVars, WriteApprovals
<1>1. CASE UNCHANGED vars
  BY <1>1 DEF vars
<1>2. CASE StartRound \/ PersistInRound \/ BeginCalls
  BY <1>2 DEF StartRound, PersistInRound, BeginCalls
<1>3. ASSUME NEW id \in Ids, Enqueue(id) \/ Commit(id) \/ Cancel(id) \/ TakeForRedeem(id)
      PROVE  FreshIds'
  BY <1>3 DEF Enqueue, Commit, Cancel, TakeForRedeem
<1>4. CASE OtherCall \/ Dispatch \/ RedeemReturns
  BY <1>4 DEF OtherCall, Dispatch, RedeemReturns
<1>5. CASE EndCalls \/ SaveApprovals \/ InterruptRound
  BY <1>5 DEF EndCalls, SaveApprovals, InterruptRound
<1>6. CASE Restart \/ Crash
  BY <1>6 DEF Restart, Crash, Restored
<1>7. ASSUME NEW id \in Ids, NEW by \in Deciders, Respond(id, by)
      PROVE  FreshIds'
  BY <1>7 DEF Respond
<1> QED
  BY <1>1, <1>2, <1>3, <1>4, <1>5, <1>6, <1>7 DEF Next, RoundStep

-----------------------------------------------------------------------------
(***************************************************************************)
(* One execution per approval and life                                     *)
(***************************************************************************)

\* Every step keeps a taken call marked and its execution counted.
LEMMA OnceStep == PlainType /\ OnceInv /\ [Next]_vars => OnceInv'
<1> SUFFICES ASSUME PlainType, OnceInv, [Next]_vars PROVE OnceInv'
  OBVIOUS
<1>a. FreshIds'
  BY FreshStep DEF OnceInv
<1> USE <1>a DEF PlainType, OnceInv, TakenIsMarked, storeVars, roundVars, historyVars,
            Called
<1>1. CASE UNCHANGED vars
  BY <1>1 DEF vars
<1>2. CASE StartRound \/ PersistInRound \/ BeginCalls
  BY <1>2 DEF StartRound, PersistInRound, BeginCalls
<1>3. ASSUME NEW id \in Ids, Enqueue(id) \/ Commit(id) \/ Cancel(id)
      PROVE  OnceInv'
  <2>1. /\ status[id] # "Redeemed"
        /\ pc' = "calls" /\ UNCHANGED <<ran, crashes>>
        /\ \A o \in Ids \ {id} : status'[o] = status[o]
    BY <1>3 DEF Enqueue, Commit, Cancel, FreshIds
  <2> QED
    BY <1>3, <2>1 DEF Enqueue, Commit, Cancel
<1>4. ASSUME NEW id \in Ids, TakeForRedeem(id)
      PROVE  OnceInv'
  BY <1>4 DEF TakeForRedeem
<1>5. CASE OtherCall \/ RedeemReturns
  BY <1>5 DEF OtherCall, RedeemReturns
<1>6. CASE Dispatch
  <2>0. /\ current \in Ids /\ status[current] = "Redeemed" /\ ran[current] <= crashes
        /\ current \in used
    BY <1>6 DEF Dispatch, FreshIds
  <2>1. /\ pc' = "running" /\ UNCHANGED <<status, current, crashes, used>>
        /\ ran' = [ran EXCEPT ![current] = ran[current] + 1]
    BY <1>6 DEF Dispatch
  <2> QED
    BY <2>0, <2>1
<1>7. CASE EndCalls \/ SaveApprovals \/ InterruptRound
  BY <1>7 DEF EndCalls, SaveApprovals, InterruptRound
<1>8. CASE Restart
  BY <1>8 DEF Restart, Restored
<1>9. CASE Crash
  BY <1>9 DEF Crash, Restored
<1>10. ASSUME NEW id \in Ids, NEW by \in Deciders, Respond(id, by)
       PROVE  OnceInv'
  BY <1>10 DEF Respond
<1> QED
  BY <1>1, <1>2, <1>3, <1>4, <1>5, <1>6, <1>7, <1>8, <1>9, <1>10 DEF Next, RoundStep

\* Between two crashes an approved call is dispatched at most once, whatever is
\* interrupted, times out, is redeemed again or restarted.
THEOREM OnceCorrect == Spec => []RunsOncePerLife
<1>1. Init => PlainType /\ OnceInv
  BY CrashAssumption DEF Init, PlainType, Statuses, PCs, OnceInv, FreshIds, TakenIsMarked
<1>2. (PlainType /\ OnceInv) /\ [Next]_vars => (PlainType /\ OnceInv)'
  BY PlainStep, OnceStep
<1>3. OnceInv => RunsOncePerLife
  BY DEF OnceInv, RunsOncePerLife
<1> QED
  BY <1>1, <1>2, <1>3, PTL DEF Spec

-----------------------------------------------------------------------------
(***************************************************************************)
(* Only what was approved runs                                             *)
(***************************************************************************)

\* Every step keeps both copies of the store free of approvals nobody gave.
LEMMA ApprovedStep == PlainType /\ ApprovedInv /\ [Next]_vars => ApprovedInv'
<1> SUFFICES ASSUME PlainType, ApprovedInv, [Next]_vars PROVE ApprovedInv'
  OBVIOUS
<1> USE DEF PlainType, ApprovedInv, TakenIsMarked, Sanctioned, storeVars, diskVars,
            roundVars, historyVars, Called, WriteApprovals
<1>1. CASE UNCHANGED vars
  BY <1>1 DEF vars
<1>2. CASE StartRound \/ PersistInRound \/ BeginCalls
  BY <1>2 DEF StartRound, PersistInRound, BeginCalls
<1>3. ASSUME NEW id \in Ids, Enqueue(id) \/ Commit(id) \/ Cancel(id)
      PROVE  ApprovedInv'
  BY <1>3 DEF Enqueue, Commit, Cancel
<1>4. ASSUME NEW id \in Ids, TakeForRedeem(id)
      PROVE  ApprovedInv'
  BY <1>4 DEF TakeForRedeem
<1>5. CASE OtherCall \/ RedeemReturns
  BY <1>5 DEF OtherCall, RedeemReturns
<1>6. CASE Dispatch
  <2>1. /\ current \in Ids /\ status[current] = "Redeemed"
        /\ pc' = "running" /\ UNCHANGED <<status, disk, current, decided>>
        /\ ran' = [ran EXCEPT ![current] = ran[current] + 1]
    BY <1>6 DEF Dispatch
  <2> QED
    BY <2>1
<1>7. CASE EndCalls \/ SaveApprovals \/ InterruptRound
  BY <1>7 DEF EndCalls, SaveApprovals, InterruptRound
<1>8. CASE Restart \/ Crash
  BY <1>8 DEF Restart, Crash, Restored
<1>9. ASSUME NEW id \in Ids, NEW by \in Deciders, Respond(id, by)
      PROVE  ApprovedInv'
  <2>1. /\ status[id] = "Committed" /\ (by = "agent" => id \notin Gated)
        /\ status' = [status EXCEPT ![id] = IF by = "denied" THEN "Denied" ELSE "Approved"]
        /\ decided' = [decided EXCEPT ![id] = decided[id] \cup {by}]
        /\ disk' = status' \/ disk' = disk
        /\ UNCHANGED <<pc, current, ran>>
    BY <1>9 DEF Respond
  <2>2. TakenIsMarked'
    BY <2>1
  <2>3. \A o \in Ids : Sanctioned(o) => Sanctioned(o)'
    BY <2>1
  <2>4. by # "denied" => Sanctioned(id)'
    BY <2>1 DEF Deciders
  <2>5. \A o \in Ids : status'[o] \in {"Approved", "Redeemed"} => Sanctioned(o)'
    BY <2>1, <2>3, <2>4
  <2> QED
    BY <2>1, <2>2, <2>3, <2>5
<1> QED
  BY <1>1, <1>2, <1>3, <1>4, <1>5, <1>6, <1>7, <1>8, <1>9 DEF Next, RoundStep

\* Whatever writes are lost and however often the store is taken back, a
\* deferred call runs only after a superior who may approve it did.
THEOREM ApprovedCorrect == Spec => []RunsOnlyApproved
<1>1. Init => PlainType /\ ApprovedInv
  BY CrashAssumption DEF Init, PlainType, Statuses, PCs, ApprovedInv, TakenIsMarked
<1>2. (PlainType /\ ApprovedInv) /\ [Next]_vars => (PlainType /\ ApprovedInv)'
  BY PlainStep, ApprovedStep
<1>3. ApprovedInv => RunsOnlyApproved
  BY DEF ApprovedInv, RunsOnlyApproved, Sanctioned
<1> QED
  BY <1>1, <1>2, <1>3, PTL DEF Spec

-----------------------------------------------------------------------------
(***************************************************************************)
(* The copy on disk                                                        *)
(***************************************************************************)

\* What may come after a status may come after every earlier one.
LEMMA AfterTransitive ==
    ASSUME NEW r \in Statuses, NEW s \in After(r), NEW t \in After(s)
    PROVE  t \in After(r)
BY DEF After, Statuses

\* A status may come after itself.
LEMMA AfterReflexive == \A s \in Statuses : s \in After(s)
BY DEF After, Statuses

\* What a step does to an action and its copy on disk: it takes the action
\* forward and writes it or not, or takes it back to its copy.
Follows(id) ==
    \/ status'[id] \in After(status[id]) /\ disk'[id] \in {status'[id], disk[id]}
    \/ status'[id] = disk[id] /\ disk'[id] = disk[id]

\* Every step follows each action of a file that was read.
LEMMA StoreStep ==
    ASSUME PlainType, FreshIds, [Next]_vars
    PROVE  lost \subseteq lost' /\ \A id \in Ids \ lost' : Follows(id)
<1> USE AfterReflexive DEF PlainType, Follows, storeVars, diskVars, historyVars,
        WriteApprovals
<1>1. CASE UNCHANGED vars
  BY <1>1 DEF vars
<1>2. CASE StartRound \/ PersistInRound \/ BeginCalls
  BY <1>2 DEF StartRound, PersistInRound, BeginCalls
<1>3. ASSUME NEW id \in Ids, Enqueue(id)
      PROVE  lost' = lost /\ \A o \in Ids : Follows(o)
  BY <1>3 DEF Enqueue, FreshIds, After, Statuses
<1>4. ASSUME NEW id \in Ids, Commit(id) \/ Cancel(id) \/ TakeForRedeem(id)
      PROVE  lost' = lost /\ \A o \in Ids : Follows(o)
  BY <1>4 DEF Commit, Cancel, TakeForRedeem, After, Statuses
<1>5. CASE OtherCall \/ Dispatch \/ RedeemReturns
  BY <1>5 DEF OtherCall, Dispatch, RedeemReturns
<1>6. CASE EndCalls \/ SaveApprovals \/ InterruptRound
  BY <1>6 DEF EndCalls, SaveApprovals, InterruptRound
<1>7. CASE Restart \/ Crash
  BY <1>7 DEF Restart, Crash, Restored
<1>8. ASSUME NEW id \in Ids, NEW by \in Deciders, Respond(id, by)
      PROVE  lost' = lost /\ \A o \in Ids : Follows(o)
  BY <1>8 DEF Respond, After, Statuses
<1> QED
  BY <1>1, <1>2, <1>3, <1>4, <1>5, <1>6, <1>7, <1>8 DEF Next, RoundStep

\* PastInv is inductive.
LEMMA PastStep == PlainType /\ PastInv /\ [Next]_vars => PastInv'
<1> SUFFICES ASSUME PlainType, PastInv, [Next]_vars PROVE PastInv'
  OBVIOUS
<1>1. FreshIds' /\ PlainType'
  BY FreshStep, PlainStep DEF PastInv
<1>2. ASSUME NEW id \in Ids \ lost' PROVE status'[id] \in After(disk'[id])
  <2>1. id \notin lost /\ Follows(id)
    BY StoreStep DEF PastInv
  <2>2. /\ status[id] \in Statuses /\ disk[id] \in Statuses /\ status'[id] \in Statuses
        /\ status[id] \in After(disk[id])
    BY <1>1, <2>1 DEF PlainType, PastInv, DiskIsPast
  <2>3. CASE disk'[id] = status'[id]
    BY <2>2, <2>3, AfterReflexive
  <2>4. CASE status'[id] \in After(status[id]) /\ disk'[id] = disk[id]
    BY <2>2, <2>4, AfterTransitive
  <2> QED
    BY <2>1, <2>3, <2>4 DEF Follows
<1> QED
  BY <1>1, <1>2 DEF PastInv, DiskIsPast

\* The copy on disk is never ahead of the store, nor on another branch of an
\* action's life: what a crash restores is a past of every action.
THEOREM PastCorrect == Spec => []DiskIsPast
<1>1. Init => PlainType /\ PastInv
  BY CrashAssumption, AfterReflexive
     DEF Init, PlainType, Statuses, PCs, PastInv, FreshIds, DiskIsPast
<1>2. (PlainType /\ PastInv) /\ [Next]_vars => (PlainType /\ PastInv)'
  BY PlainStep, PastStep
<1>3. PastInv => DiskIsPast
  BY DEF PastInv
<1> QED
  BY <1>1, <1>2, <1>3, PTL DEF Spec

\* Only respond_approval writes a decision, and only on a committed action.
LEMMA DecisionStep ==
    ASSUME PlainType, [Next]_vars
    PROVE  \/ written' = written
           \/ \E id \in Ids, by \in Deciders :
                 /\ status[id] = "Committed"
                 /\ status'[id] = IF by = "denied" THEN "Denied" ELSE "Approved"
                 /\ written' = [written EXCEPT ![id] = written[id] \cup {by}]
                 /\ disk' = status'
<1> USE DEF historyVars
<1>1. CASE UNCHANGED vars
  BY <1>1 DEF vars
<1>2. CASE RoundStep
  BY <1>2 DEF RoundStep, StartRound, PersistInRound, BeginCalls, Enqueue, Commit,
     Cancel, TakeForRedeem, OtherCall, Dispatch, RedeemReturns, EndCalls,
     SaveApprovals, InterruptRound
<1>3. CASE Restart \/ Crash
  BY <1>3 DEF Restart, Crash
<1>4. ASSUME NEW id \in Ids, NEW by \in Deciders, Respond(id, by)
      PROVE  \/ written' = written
             \/ /\ status[id] = "Committed"
                /\ status'[id] = IF by = "denied" THEN "Denied" ELSE "Approved"
                /\ written' = [written EXCEPT ![id] = written[id] \cup {by}]
                /\ disk' = status'
  BY <1>4 DEF Respond, PlainType
<1> QED
  BY <1>1, <1>2, <1>3, <1>4 DEF Next

\* DurableInv is inductive: what is on disk after a decision only moves on along
\* that decision.
LEMMA DurableStep == PlainType /\ DurableInv /\ [Next]_vars => DurableInv'
<1> SUFFICES ASSUME PlainType, DurableInv, [Next]_vars PROVE DurableInv'
  OBVIOUS
<1>1. PastInv' /\ PlainType'
  BY PastStep, PlainStep DEF DurableInv
<1>2. \A id \in Ids \ lost' : id \notin lost /\ disk'[id] \in After(disk[id])
  <2> SUFFICES ASSUME NEW id \in Ids \ lost'
               PROVE  id \notin lost /\ disk'[id] \in After(disk[id])
    OBVIOUS
  <2>1. id \notin lost /\ Follows(id)
    BY StoreStep DEF DurableInv, PastInv
  <2>2. /\ status[id] \in Statuses /\ disk[id] \in Statuses
        /\ status[id] \in After(disk[id])
    BY <2>1 DEF PlainType, DurableInv, PastInv, DiskIsPast
  <2>3. CASE disk'[id] = disk[id]
    BY <2>1, <2>2, <2>3, AfterReflexive
  <2>4. CASE status'[id] \in After(status[id]) /\ disk'[id] = status'[id]
    BY <2>1, <2>2, <2>4, AfterTransitive
  <2> QED
    BY <2>1, <2>3, <2>4 DEF Follows
<1>3. ASSUME NEW id \in Ids \ lost', written'[id] = written[id]
      PROVE  /\ "denied" \in written'[id] => disk'[id] \in {"Denied", "Cancelled"}
             /\ written'[id] \cap {"operator", "agent"} # {} =>
                   disk'[id] \in {"Approved", "Redeemed", "Cancelled"}
  BY <1>2, <1>3 DEF DurableInv, DecisionIsDurable, After
<1>4. CASE written' = written
  BY <1>1, <1>3, <1>4 DEF DurableInv, DecisionIsDurable
<1>5. ASSUME NEW id \in Ids, NEW by \in Deciders, status[id] = "Committed",
             status'[id] = IF by = "denied" THEN "Denied" ELSE "Approved",
             written' = [written EXCEPT ![id] = written[id] \cup {by}], disk' = status'
      PROVE  DurableInv'
  <2>1. id \notin lost' => written[id] = {}
    <3> SUFFICES ASSUME id \notin lost' PROVE written[id] = {}
      OBVIOUS
    <3>2. id \notin lost
      BY <1>2
    <3>1. "Committed" \in After(disk[id]) /\ written[id] \subseteq Deciders
      BY <1>5, <3>2 DEF DurableInv, PastInv, DiskIsPast, PlainType
    <3> QED
      BY <3>1, <3>2 DEF After, DurableInv, DecisionIsDurable, Deciders
  <2>2. /\ id \notin lost' => written'[id] = {by}
        /\ \A o \in Ids \ {id} : written'[o] = written[o]
    BY <1>5, <2>1 DEF PlainType
  <2>3. id \notin lost' =>
        /\ "denied" \in written'[id] => disk'[id] \in {"Denied", "Cancelled"}
        /\ written'[id] \cap {"operator", "agent"} # {} =>
              disk'[id] \in {"Approved", "Redeemed", "Cancelled"}
    BY <1>5, <2>2 DEF Deciders
  <2> QED
    BY <1>1, <1>3, <2>2, <2>3 DEF DurableInv, DecisionIsDurable
<1> QED
  BY <1>4, <1>5, DecisionStep

\* A decision once written survives every crash: no save of the agent loop
\* overwrites it with an older store, and no failed one takes it back.
THEOREM DurableCorrect == Spec => []DecisionIsDurable
<1>1. Init => PlainType /\ DurableInv
  BY CrashAssumption, AfterReflexive
     DEF Init, PlainType, Statuses, PCs, DurableInv, PastInv, FreshIds, DiskIsPast,
         DecisionIsDurable
<1>2. (PlainType /\ DurableInv) /\ [Next]_vars => (PlainType /\ DurableInv)'
  BY PlainStep, DurableStep
<1>3. DurableInv => DecisionIsDurable
  BY DEF DurableInv
<1> QED
  BY <1>1, <1>2, <1>3, PTL DEF Spec

====
