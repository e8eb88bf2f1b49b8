------------------------------ MODULE Approval ------------------------------
(***************************************************************************)
(* Deferred tool calls of one agent: the ApprovalStore shared by the       *)
(* agent's tool executor and the tagma's approval route, the copy of it on *)
(* disk, and the rounds in which the agent defers, commits, redeems and    *)
(* cancels actions while a superior decides, rounds are interrupted and    *)
(* the tagma restarts or crashes.                                          *)
(***************************************************************************)
EXTENDS Naturals, FiniteSets

CONSTANTS
    Ids,         \* approval ids (fresh uuids in the code)
    None,        \* no id
    Gated,       \* actions the superior agent's own rule-set would not allow
    DiskMayFail, \* whether approvals.json may fail to be written or read
    Restarts,    \* whether the tagma may restart gracefully
    MaxCrashes   \* bound: crashes

ASSUME IdAssumption == None \notin Ids /\ Gated \subseteq Ids
ASSUME DiskAssumption == DiskMayFail \in BOOLEAN /\ Restarts \in BOOLEAN
ASSUME CrashAssumption == MaxCrashes \in Nat

VARIABLES
    status,       \* status of each action in memory, "none" before enqueue
    disk,         \* the same in approvals.json
    notes,        \* ids with an undrained notification
    told,         \* ids whose notification is in the agent's context
    diskTold,     \* the same in the persisted context
    pc,           \* where the agent's round is
    skip,         \* an earlier call of the round did not cleanly succeed
    current,      \* the action being redeemed, or None
    used,         \* history: ids minted so far
    decided,      \* history: the decisions on each action ("denied", or by whom
                  \* it was approved)
    written,      \* history: the decisions whose write to disk succeeded
    ran,          \* history: how often the stored call was dispatched
    crashes,      \* crashes so far
    lost          \* history: the actions of a file that could not be read

storeVars == <<status, notes>>
diskVars == <<disk, diskTold>>
roundVars == <<pc, skip, current>>
historyVars == <<used, decided, written, ran, crashes, lost>>
vars == <<storeVars, told, diskVars, roundVars, historyVars>>

Statuses == {"none", "Pending", "Committed", "Approved", "Denied",
             "Redeemed", "Cancelled"}

\* Outside a round ("idle"), the model call ("llm"), the tool loop ("calls"),
\* an approved call taken and not yet dispatched ("taken"), dispatched and
\* awaited ("running"), and the store's turn in persist, within a round
\* ("saveLlm") or at its end ("saveEnd").
PCs == {"idle", "llm", "calls", "taken", "running", "saveLlm", "saveEnd"}

Init ==
    /\ status = [id \in Ids |-> "none"] /\ disk = status
    /\ notes = {} /\ told = {} /\ diskTold = {}
    /\ pc = "idle" /\ skip = FALSE /\ current = None
    /\ used = {}
    /\ decided = [id \in Ids |-> {}] /\ written = decided
    /\ ran = [id \in Ids |-> 0]
    /\ crashes = 0 /\ lost = {}

\* persist_approvals and persist_context replace a file as a whole; their
\* callers log a failure and go on.
WriteApprovals(store) == disk' = store \/ (DiskMayFail /\ UNCHANGED disk)
WriteContext(context) == diskTold' = context \/ (DiskMayFail /\ UNCHANGED diskTold)

-----------------------------------------------------------------------------
(***************************************************************************)
(* A round of the agent                                                    *)
(***************************************************************************)

\* Top of a round: drained notifications become a turn of the context.
StartRound ==
    /\ pc = "idle"
    /\ told' = told \cup notes /\ notes' = {}
    /\ pc' = "llm" /\ skip' = FALSE
    /\ UNCHANGED <<status, diskVars, current, historyVars>>

\* Retry records are flushed, or the context compacted, during the model call.
PersistInRound ==
    /\ pc = "llm"
    /\ WriteContext(told)
    /\ pc' = "saveLlm"
    /\ UNCHANGED <<storeVars, told, disk, skip, current, historyVars>>

\* The model answered with tool calls, or the round ends without any and
\* without a persist (bare answer, budget, error).
BeginCalls ==
    /\ pc = "llm"
    /\ pc' \in {"calls", "idle"}
    /\ UNCHANGED <<storeVars, told, diskVars, skip, current, historyVars>>

\* A call that does not cleanly succeed keeps the rest of the round from running.
Called(clean) == skip' = ~clean /\ UNCHANGED <<pc, current>>

\* The classifier asks: the call is enqueued and deferred.
Enqueue(id) ==
    /\ pc = "calls" /\ ~skip /\ id \notin used
    /\ used' = used \cup {id}
    /\ status' = [status EXCEPT ![id] = "Pending"]
    /\ Called(FALSE)
    /\ UNCHANGED <<notes, told, diskVars, decided, written, ran, crashes, lost>>

\* approval_commit: a pending action becomes visible to the superiors.
Commit(id) ==
    /\ pc = "calls" /\ ~skip /\ status[id] = "Pending"
    /\ status' = [status EXCEPT ![id] = "Committed"]
    /\ Called(TRUE)
    /\ UNCHANGED <<notes, told, diskVars, historyVars>>

\* Mutant: a redeemed action can be cancelled.
CancelRedeemed(id) ==
    /\ pc = "calls" /\ ~skip /\ status[id] \notin {"none", "Cancelled"}
    /\ status' = [status EXCEPT ![id] = "Cancelled"]
    /\ Called(TRUE)
    /\ UNCHANGED <<notes, told, diskVars, historyVars>>

\* approval_cancel: from every status that is not terminal.
Cancel(id) ==
    /\ pc = "calls" /\ ~skip
    /\ status[id] \in {"Pending", "Committed", "Approved", "Denied"}
    /\ status' = [status EXCEPT ![id] = "Cancelled"]
    /\ Called(TRUE)
    /\ UNCHANGED <<notes, told, diskVars, historyVars>>

\* Mutant: an action still awaiting its decision is redeemed.
TakeCommitted(id) ==
    /\ pc = "calls" /\ ~skip /\ status[id] \in {"Committed", "Approved"}
    /\ status' = [status EXCEPT ![id] = "Redeemed"]
    /\ pc' = "taken" /\ current' = id
    /\ UNCHANGED <<notes, told, diskVars, skip, historyVars>>

\* Mutant: the action stays approved while its call runs.
TakeUnmarked(id) ==
    /\ pc = "calls" /\ ~skip /\ status[id] = "Approved"
    /\ pc' = "taken" /\ current' = id
    /\ UNCHANGED <<status, notes, told, diskVars, skip, historyVars>>

\* approval_redeem: the action is marked before the stored call is dispatched.
TakeForRedeem(id) ==
    /\ pc = "calls" /\ ~skip /\ status[id] = "Approved"
    /\ status' = [status EXCEPT ![id] = "Redeemed"]
    /\ pc' = "taken" /\ current' = id
    /\ UNCHANGED <<notes, told, diskVars, skip, historyVars>>

\* Any other call: it runs, or it is refused (an approval tool called on an
\* action in the wrong status included).
OtherCall ==
    /\ pc = "calls" /\ ~skip
    /\ \E clean \in BOOLEAN : Called(clean)
    /\ UNCHANGED <<storeVars, told, diskVars, historyVars>>

\* The stored call takes effect.
Dispatch ==
    /\ pc = "taken"
    /\ ran' = [ran EXCEPT ![current] = @ + 1]
    /\ pc' = "running"
    /\ UNCHANGED <<storeVars, told, diskVars, skip, current, used, decided,
                   written, crashes, lost>>

\* The redeemed call returns (only a dispatched one cleanly), fails before it
\* takes effect, or hits the tool timeout, which drops it where it is.
RedeemReturns ==
    /\ pc \in {"taken", "running"}
    /\ \E clean \in BOOLEAN : (clean => pc = "running") /\ skip' = ~clean
    /\ pc' = "calls" /\ current' = None
    /\ UNCHANGED <<storeVars, told, diskVars, historyVars>>

\* All calls answered, or break: the turn is recorded and persisted, the
\* context first ...
EndCalls ==
    /\ pc = "calls"
    /\ WriteContext(told)
    /\ pc' = "saveEnd"
    /\ UNCHANGED <<storeVars, told, disk, skip, current, historyVars>>

\* ... then the store, serialised and written under its lock.
SaveApprovals ==
    /\ pc \in {"saveLlm", "saveEnd"}
    /\ WriteApprovals(status)
    /\ pc' = IF pc = "saveLlm" THEN "llm" ELSE "idle"
    /\ UNCHANGED <<storeVars, told, diskTold, skip, current, historyVars>>

\* The round token is cancelled: the call in flight is dropped and nothing is
\* persisted.
InterruptRound ==
    /\ pc \in {"llm", "calls", "taken", "running"}
    /\ pc' = "idle" /\ current' = None
    /\ UNCHANGED <<storeVars, told, diskVars, skip, historyVars>>

-----------------------------------------------------------------------------
(***************************************************************************)
(* The superior, and the process                                           *)
(***************************************************************************)

\* Mutant: the store is serialised before the decision is made.
RespondStale(id, by) ==
    /\ status[id] = "Committed"
    /\ by = "agent" => id \notin Gated
    /\ status' = [status EXCEPT ![id] = IF by = "denied" THEN "Denied" ELSE "Approved"]
    /\ notes' = notes \cup {id}
    /\ decided' = [decided EXCEPT ![id] = @ \cup {by}]
    /\ disk' = status
    /\ written' = [written EXCEPT ![id] = @ \cup {by}]
    /\ UNCHANGED <<told, diskTold, roundVars, used, ran, crashes, lost>>

\* respond_approval: decided, noted and written while the store is locked.  A
\* superior agent may approve only what its own rule-set would allow.
Respond(id, by) ==
    /\ status[id] = "Committed"
    /\ by = "agent" => id \notin Gated
    /\ status' = [status EXCEPT ![id] = IF by = "denied" THEN "Denied" ELSE "Approved"]
    /\ notes' = notes \cup {id}
    /\ decided' = [decided EXCEPT ![id] = @ \cup {by}]
    /\ WriteApprovals(status')
    /\ written' = IF disk' = status' THEN [written EXCEPT ![id] = @ \cup {by}]
                                     ELSE written
    /\ UNCHANGED <<told, diskTold, roundVars, used, ran, crashes, lost>>

\* What a restarted tagma restores: the store and the context from disk, and
\* none of the transient fields.  A file that cannot be read is an empty store.
Restored(store, context) ==
    /\ \/ status' = store /\ lost' = lost
       \/ /\ DiskMayFail
          /\ status' = [id \in Ids |-> "none"]
          /\ lost' = lost \cup {id \in Ids : store[id] # "none"}
    /\ told' = context
    /\ notes' = {}
    /\ pc' = "idle" /\ skip' = FALSE /\ current' = None

\* A lifecycle cancel: the agent persists and ends, and is restored later.
Restart ==
    /\ Restarts /\ pc \notin {"saveLlm", "saveEnd"}
    /\ disk' = status /\ diskTold' = told
    /\ Restored(status, told)
    /\ UNCHANGED <<used, decided, written, ran, crashes>>

\* The process dies, or the last write of an ending agent fails: what was not
\* written is gone.
Crash ==
    /\ crashes < MaxCrashes
    /\ crashes' = crashes + 1
    /\ Restored(disk, diskTold)
    /\ UNCHANGED <<diskVars, used, decided, written, ran>>

-----------------------------------------------------------------------------
RoundStep ==
    \/ StartRound \/ PersistInRound \/ BeginCalls
    \/ \E id \in Ids : Enqueue(id) \/ Commit(id) \/ Cancel(id) \/ TakeForRedeem(id)
    \/ OtherCall \/ Dispatch \/ RedeemReturns \/ EndCalls
    \/ SaveApprovals \/ InterruptRound

Deciders == {"operator", "agent", "denied"}

Next == RoundStep \/ Restart \/ Crash
        \/ \E id \in Ids, by \in Deciders : Respond(id, by)

Spec == Init /\ [][Next]_vars

-----------------------------------------------------------------------------
(***************************************************************************)
(* Properties                                                              *)
(***************************************************************************)

\* The shape of the state: a call is in hand exactly while one is redeemed.
TypeOK ==
    /\ status \in [Ids -> Statuses] /\ disk \in [Ids -> Statuses]
    /\ notes \subseteq Ids /\ told \subseteq Ids /\ diskTold \subseteq Ids
    /\ pc \in PCs /\ skip \in BOOLEAN /\ current \in Ids \cup {None}
    /\ pc \in {"taken", "running"} <=> current # None
    /\ used \subseteq Ids
    /\ decided \in [Ids -> SUBSET Deciders]
    /\ written \in [Ids -> SUBSET Deciders]
    /\ ran \in [Ids -> Nat]
    /\ crashes \in 0..MaxCrashes /\ lost \subseteq Ids

\* The statuses an action may have after it had status s.
After(s) ==
    CASE s = "none"      -> Statuses
      [] s = "Pending"   -> Statuses \ {"none"}
      [] s = "Committed" -> Statuses \ {"none", "Pending"}
      [] s = "Approved"  -> {"Approved", "Redeemed", "Cancelled"}
      [] s = "Denied"    -> {"Denied", "Cancelled"}
      [] OTHER           -> {s}

\* What a crash restores is a past of every action, never a status it did not
\* go through: no write of the agent loop undoes a decision of the superior,
\* no cancelled or redeemed action is overtaken by an older write.  An action of
\* a file that could not be read is forgotten and is no past of anything.
DiskIsPast == \A id \in Ids \ lost : status[id] \in After(disk[id])

\* The approval route answers after the write: a decision once written stays on
\* disk, whatever the agent's own saves write or fail to write afterwards, unless
\* a restore could not read it: the next save then overwrites it.
DecisionIsDurable ==
    \A id \in Ids \ lost :
        /\ "denied" \in written[id] => disk[id] \in {"Denied", "Cancelled"}
        /\ written[id] \cap {"operator", "agent"} # {} =>
              disk[id] \in {"Approved", "Redeemed", "Cancelled"}

\* A deferred call runs only after a superior approved it, and a call the
\* superior agent's own rules would gate only after the operator did, also when
\* crashes take the store back and writes are lost.
RunsOnlyApproved ==
    \A id \in Ids : ran[id] > 0 =>
        \/ "operator" \in decided[id]
        \/ "agent" \in decided[id] /\ id \notin Gated

\* Between two crashes an approval is good for one execution, whatever rounds
\* are interrupted, calls time out and redemptions are tried again.
RunsOncePerLife == \A id \in Ids : ran[id] <= 1 + crashes

-----------------------------------------------------------------------------
(***************************************************************************)
(* Inductive strengthenings                                                *)
(***************************************************************************)

\* An id that was not minted is in neither copy of the store.
FreshIds == \A id \in Ids \ used : status[id] = "none" /\ disk[id] = "none"

\* The call in hand was marked before it was taken.
TakenIsMarked ==
    pc \in {"taken", "running"} => current \in Ids /\ status[current] = "Redeemed"

Sanctioned(id) ==
    \/ "operator" \in decided[id]
    \/ "agent" \in decided[id] /\ id \notin Gated

\* No copy of the store holds an approval nobody gave.
ApprovedInv ==
    /\ TakenIsMarked
    /\ \A id \in Ids :
          \/ status[id] \in {"Approved", "Redeemed"}
          \/ disk[id] \in {"Approved", "Redeemed"}
          \/ ran[id] > 0
          => Sanctioned(id)

\* Only a marked call that is not about to run has used up its execution.
OnceInv ==
    /\ FreshIds /\ TakenIsMarked
    /\ \A id \in Ids :
          /\ ran[id] <= 1 + crashes
          /\ status[id] \notin {"none", "Redeemed"} \/ (pc = "taken" /\ current = id)
                => ran[id] <= crashes
          /\ id \notin used => ran[id] = 0

PastInv == FreshIds /\ DiskIsPast

DurableInv == PastInv /\ DecisionIsDurable

====
