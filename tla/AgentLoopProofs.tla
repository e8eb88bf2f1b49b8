--------------------------- MODULE AgentLoopProofs ---------------------------
(***************************************************************************)
(* Proofs about AgentLoop for every set of messages, every channel         *)
(* capacity, every retry and heartbeat limit and every bound.              *)
(***************************************************************************)
EXTENDS AgentLoop, SequenceTheorems, TLAPS

USE BoundsAssumption

\* The groups of TypeOK without its Boolean flags, which are proved apart.
PlainType == TaskType /\ FuseType /\ WakeType /\ EventType /\ BridgeType /\ HandlerType

\* An event built by kind alone is a well-formed event.
LEMMA EvType == \A k \in EventKinds : Ev(k) \in Event
BY DEF Ev, Event

\* The initial states are well-typed.
LEMMA InitType == Init => TypeOK
<1> SUFFICES ASSUME Init PROVE TypeOK
  OBVIOUS
<1>1. FlagType
  BY DEF Init, FlagType
<1>2. TaskType /\ FuseType
  BY DEF Init, TaskType, PCs, LifecycleStates, ParkedReasons, FuseType, Fuses, ClearBoth
<1>3. WakeType /\ EventType /\ BridgeType /\ HandlerType
  BY DEF Init, WakeType, EventType, BridgeType, HandlerType, Pending
<1> QED
  BY <1>1, <1>2, <1>3 DEF TypeOK

\* Every step of the agent task keeps the types and the event bound.
LEMMA AgentType ==
    ASSUME TypeOK, AgentStep
    PROVE  TypeOK'
<1>f. FlagType
  BY DEF TypeOK
<1>p. PlainType
  BY DEF TypeOK, PlainType
<1> USE DEF taskVars, fuseVars, wakeVars, bridgeVars, countVars, handlerVars,
            PlainType, TaskType, FuseType, WakeType, EventType, BridgeType,
            HandlerType, PCs, LifecycleStates, ParkedReasons, Fuses
<1>1. CASE TakePrompt
  <2>1. FlagType'
    BY <1>f, <1>1 DEF FlagType, TakePrompt
  <2>2. PlainType'
    BY <1>p, <1>1 DEF TakePrompt, ClearBoth
  <2> QED
    BY <2>1, <2>2 DEF TypeOK
<1>2. CASE TakeNotify
  <2>1. FlagType'
    BY <1>f, <1>2 DEF FlagType, TakeNotify
  <2>2. PlainType'
    BY <1>p, <1>2 DEF TakeNotify
  <2> QED
    BY <2>1, <2>2 DEF TypeOK
<1>3. CASE PullInbox
  <2>1. FlagType'
    BY <1>f, <1>3 DEF FlagType, PullInbox
  <2>2. PlainType'
    BY <1>p, <1>3 DEF PullInbox, ClearBoth
  <2> QED
    BY <2>1, <2>2 DEF TypeOK
<1>4. CASE TakeCancel
  <2>1. FlagType'
    BY <1>f, <1>4 DEF FlagType, TakeCancel
  <2>2. PlainType'
    BY <1>p, <1>4, EvType DEF TakeCancel, CanSend, EventKinds, Terminal, InFlight
  <2> QED
    BY <2>1, <2>2 DEF TypeOK
<1>5. CASE PostRoundDrain
  <2>1. FlagType'
    BY <1>f, <1>5 DEF FlagType, PostRoundDrain
  <2>2. PlainType'
    BY <1>p, <1>5 DEF PostRoundDrain
  <2> QED
    BY <2>1, <2>2 DEF TypeOK
<1>6. CASE \E f \in Fuses : TakeFuse(f)
  <2>1. FlagType'
    BY <1>f, <1>6 DEF FlagType, TakeFuse
  <2>2. PlainType'
    BY <1>p, <1>6 DEF TakeFuse, Clear
  <2> QED
    BY <2>1, <2>2 DEF TypeOK
<1>7. CASE StartRun
  <2>1. FlagType'
    BY <1>f, <1>7 DEF FlagType, StartRun
  <2>2. PlainType'
    BY <1>p, <1>7 DEF StartRun
  <2> QED
    BY <2>1, <2>2 DEF TypeOK
<1>8. CASE SendBusy
  <2>1. FlagType'
    BY <1>f, <1>8 DEF FlagType, SendBusy
  <2>2. PlainType'
    BY <1>p, <1>8, EvType DEF SendBusy, CanSend, EventKinds, Terminal, InFlight
  <2> QED
    BY <2>1, <2>2 DEF TypeOK
<1>9. CASE \E exceeded \in BOOLEAN : RoundTop(exceeded)
  <2>1. FlagType'
    BY <1>f, <1>9 DEF FlagType, RoundTop
  <2>2. PlainType'
    BY <1>p, <1>9 DEF RoundTop
  <2> QED
    BY <2>1, <2>2 DEF TypeOK
<1>10. CASE SendProgress
  <2>1. FlagType'
    BY <1>f, <1>10 DEF FlagType, SendProgress
  <2>2. PlainType'
    BY <1>p, <1>10, EvType DEF SendProgress, CanSend, EventKinds, Terminal, InFlight
  <2> QED
    BY <2>1, <2>2 DEF TypeOK
<1>11. CASE SendRetrying
  <2>1. FlagType'
    BY <1>f, <1>11 DEF FlagType, SendRetrying
  <2>2. PlainType'
    BY <1>p, <1>11, EvType DEF SendRetrying, CanSend, EventKinds, Terminal, InFlight
  <2> QED
    BY <2>1, <2>2 DEF TypeOK
<1>12. CASE NextRound
  <2>1. FlagType'
    BY <1>f, <1>12 DEF FlagType, NextRound
  <2>2. PlainType'
    BY <1>p, <1>12 DEF NextRound
  <2> QED
    BY <2>1, <2>2 DEF TypeOK
<1>13. CASE BreakIdle
  <2>1. FlagType'
    BY <1>f, <1>13 DEF FlagType, BreakIdle, EndRun
  <2>2. PlainType'
    BY <1>p, <1>13, EvType DEF BreakIdle, EndRun, CanSend, EventKinds, Terminal,
       InFlight
  <2> QED
    BY <2>1, <2>2 DEF TypeOK
<1>14. CASE BreakWait
  <2>1. FlagType'
    BY <1>f, <1>14 DEF FlagType, BreakWait, EndRun, Arm
  <2>2. PlainType'
    BY <1>p, <1>14, EvType DEF BreakWait, EndRun, Arm, CanSend, EventKinds, Terminal,
       InFlight
  <2> QED
    BY <2>1, <2>2 DEF TypeOK
<1>15. CASE BudgetExceeded
  <2>1. FlagType'
    BY <1>f, <1>15 DEF FlagType, BudgetExceeded, EndRun, Arm
  <2>2. PlainType'
    BY <1>p, <1>15, EvType DEF BudgetExceeded, EndRun, Arm, CanSend, EventKinds,
       Terminal, InFlight
  <2> QED
    BY <2>1, <2>2 DEF TypeOK
<1>16. CASE Heartbeat
  <2>1. FlagType'
    BY <1>f, <1>16 DEF FlagType, Heartbeat
  <2>2. PlainType'
    BY <1>p, <1>16 DEF Heartbeat
  <2> QED
    BY <2>1, <2>2 DEF TypeOK
<1>17. CASE MintNextToken
  <2>1. FlagType'
    BY <1>f, <1>17 DEF FlagType, MintNextToken
  <2>2. PlainType'
    BY <1>p, <1>17 DEF MintNextToken
  <2> QED
    BY <2>1, <2>2 DEF TypeOK
<1>18. CASE HeartbeatExhausted
  <2>1. FlagType'
    BY <1>f, <1>18 DEF FlagType, HeartbeatExhausted, EndRun
  <2>2. PlainType'
    BY <1>p, <1>18, EvType DEF HeartbeatExhausted, EndRun, CanSend, EventKinds,
       Terminal, InFlight
  <2> QED
    BY <2>1, <2>2 DEF TypeOK
<1>19. CASE ChainRetry
  <2>1. FlagType'
    BY <1>f, <1>19 DEF FlagType, ChainRetry, EndRun, Arm
  <2>e. [kind |-> "fce_armed", attempt |-> fails + 1] \in Event
    BY <1>19 DEF TypeOK, TaskType, ChainRetry, Event, EventKinds, Terminal
  <2>2. PlainType'
    BY <1>p, <1>19, EvType, <2>e DEF ChainRetry, EndRun, Arm, CanSend, EventKinds,
       Terminal, InFlight
  <2> QED
    BY <2>1, <2>2 DEF TypeOK
<1>20. CASE ChainPark
  <2>1. FlagType'
    BY <1>f, <1>20 DEF FlagType, ChainPark, EndRun
  <2>2. PlainType'
    BY <1>p, <1>20, EvType DEF ChainPark, EndRun, CanSend, EventKinds, Terminal,
       InFlight, MinOf
  <2> QED
    BY <2>1, <2>2 DEF TypeOK
<1>21. CASE FatalError
  <2>1. FlagType'
    BY <1>f, <1>21 DEF FlagType, FatalError, EndRun
  <2>2. PlainType'
    BY <1>p, <1>21, EvType DEF FatalError, EndRun, CanSend, EventKinds, Terminal,
       InFlight
  <2> QED
    BY <2>1, <2>2 DEF TypeOK
<1>22. CASE MaxRoundsExceeded
  <2>1. FlagType'
    BY <1>f, <1>22 DEF FlagType, MaxRoundsExceeded, EndRun
  <2>2. PlainType'
    BY <1>p, <1>22, EvType DEF MaxRoundsExceeded, EndRun, CanSend, EventKinds,
       Terminal, InFlight
  <2> QED
    BY <2>1, <2>2 DEF TypeOK
<1>23. CASE RoundInterrupted
  <2>1. FlagType'
    BY <1>f, <1>23 DEF FlagType, RoundInterrupted, EndRun
  <2>2. PlainType'
    BY <1>p, <1>23, EvType DEF RoundInterrupted, EndRun, CanSend, EventKinds,
       Terminal, InFlight
  <2> QED
    BY <2>1, <2>2 DEF TypeOK
<1>24. CASE RunTerminated
  <2>1. FlagType'
    BY <1>f, <1>24 DEF FlagType, RunTerminated
  <2>2. PlainType'
    BY <1>p, <1>24, EvType DEF RunTerminated, CanSend, EventKinds, Terminal, InFlight
  <2> QED
    BY <2>1, <2>2 DEF TypeOK
<1> QED
  BY <1>1, <1>2, <1>3, <1>4, <1>5, <1>6, <1>7, <1>8, <1>9, <1>10, <1>11, <1>12, <1>13,
     <1>14, <1>15, <1>16, <1>17, <1>18, <1>19, <1>20, <1>21, <1>22, <1>23, <1>24 DEF
     AgentStep

\* Every step of the bridge keeps the types.
LEMMA BridgeTypeStep ==
    ASSUME TypeOK, BridgeStep
    PROVE  TypeOK'
<1>f. FlagType
  BY DEF TypeOK
<1>p. PlainType
  BY DEF TypeOK, PlainType
<1> USE DEF taskVars, fuseVars, wakeVars, bridgeVars, countVars, handlerVars,
            PlainType, TaskType, FuseType, WakeType, EventType, BridgeType,
            HandlerType, PCs, LifecycleStates, ParkedReasons, Fuses
<1>1. CASE BridgeBusy
  <2>1. FlagType'
    BY <1>f, <1>1 DEF FlagType, BridgeBusy
  <2>h. Head(events) \in Event
    BY <1>p, <1>1 DEF BridgeBusy
  <2>2. PlainType'
    BY <1>p, <1>1, <2>h DEF BridgeBusy
  <2> QED
    BY <2>1, <2>2 DEF TypeOK
<1>2. CASE BridgeRetrying
  <2>1. FlagType'
    BY <1>f, <1>2 DEF FlagType, BridgeRetrying
  <2>h. Head(events) \in Event
    BY <1>p, <1>2 DEF BridgeRetrying
  <2>2. PlainType'
    BY <1>p, <1>2, <2>h DEF BridgeRetrying
  <2> QED
    BY <2>1, <2>2 DEF TypeOK
<1>3. CASE BridgeProgress
  <2>1. FlagType'
    BY <1>f, <1>3 DEF FlagType, BridgeProgress
  <2>h. Head(events) \in Event
    BY <1>p, <1>3 DEF BridgeProgress
  <2>2. PlainType'
    BY <1>p, <1>3, <2>h DEF BridgeProgress
  <2> QED
    BY <2>1, <2>2 DEF TypeOK
<1>4. CASE BridgeTerminal
  <2>1. FlagType'
    BY <1>f, <1>4 DEF FlagType, BridgeTerminal
  <2>h. Head(events) \in Event
    BY <1>p, <1>4 DEF BridgeTerminal
  <2>m. BridgeType'
    BY <1>4, <2>h DEF BridgeTerminal, Event, MarkOf, ReasonOf
  <2>2. PlainType'
    BY <1>p, <1>4, <2>h, <2>m DEF BridgeTerminal
  <2> QED
    BY <2>1, <2>2 DEF TypeOK
<1> QED
  BY <1>1, <1>2, <1>3, <1>4 DEF BridgeStep

\* Every request but a delivery keeps the types and the prompt bound.
LEMMA RequestType ==
    ASSUME TypeOK, RequestStep
    PROVE  TypeOK'
<1>f. FlagType
  BY DEF TypeOK
<1>p. PlainType
  BY DEF TypeOK, PlainType
<1> USE DEF taskVars, fuseVars, wakeVars, bridgeVars, countVars, handlerVars,
            PlainType, TaskType, FuseType, WakeType, EventType, BridgeType,
            HandlerType, PCs, LifecycleStates, ParkedReasons, Fuses
<1>1. CASE \E on \in BOOLEAN : SetDuty(on)
  <2>1. FlagType'
    BY <1>f, <1>1 DEF FlagType, SetDuty
  <2>2. PlainType'
    BY <1>p, <1>1 DEF SetDuty
  <2> QED
    BY <2>1, <2>2 DEF TypeOK
<1>2. CASE DutyWake
  <2>1. FlagType'
    BY <1>f, <1>2 DEF FlagType, DutyWake
  <2>2. PlainType'
    BY <1>p, <1>2 DEF DutyWake
  <2> QED
    BY <2>1, <2>2 DEF TypeOK
<1>3. CASE RespondApproval
  <2>1. FlagType'
    BY <1>f, <1>3 DEF FlagType, RespondApproval
  <2>2. PlainType'
    BY <1>p, <1>3 DEF RespondApproval
  <2> QED
    BY <2>1, <2>2 DEF TypeOK
<1>4. CASE ApplyProfile
  <2>1. FlagType'
    BY <1>f, <1>4 DEF FlagType, ApplyProfile
  <2>2. PlainType'
    BY <1>p, <1>4 DEF ApplyProfile
  <2> QED
    BY <2>1, <2>2 DEF TypeOK
<1>9. CASE ResetWake
  <2>1. FlagType'
    BY <1>f, <1>9 DEF FlagType, ResetWake
  <2>2. PlainType'
    BY <1>p, <1>9 DEF ResetWake
  <2> QED
    BY <2>1, <2>2 DEF TypeOK
<1>5. CASE InterruptRead
  <2>1. FlagType'
    BY <1>f, <1>5 DEF FlagType, InterruptRead
  <2>2. PlainType'
    BY <1>p, <1>5 DEF InterruptRead
  <2> QED
    BY <2>1, <2>2 DEF TypeOK
<1>6. CASE InterruptAct
  <2>1. FlagType'
    BY <1>f, <1>6 DEF FlagType, InterruptAct
  <2>p. WakeType'
    <3>0. prompts \in Seq({"kick", "interrupt", "notice"}) /\ Len(prompts) <= QueueSize
      BY <1>p
    <3>1. CASE interrupt = "turn"
      <4>1. prompts' \in Seq({"kick", "interrupt", "notice"}) /\ Len(prompts') <= QueueSize
        BY <3>0, <1>6, <3>1 DEF InterruptAct, TrySend
      <4> QED
        BY <1>p, <1>6, <4>1 DEF InterruptAct
    <3>2. CASE interrupt # "turn"
      BY <1>p, <1>6, <3>2 DEF InterruptAct
    <3> QED
      BY <3>1, <3>2
  <2>2. PlainType'
    BY <1>p, <1>6, <2>p DEF InterruptAct
  <2> QED
    BY <2>1, <2>2 DEF TypeOK
<1>7. CASE CancelLifecycle
  <2>1. FlagType'
    BY <1>f, <1>7 DEF FlagType, CancelLifecycle
  <2>2. PlainType'
    BY <1>p, <1>7 DEF CancelLifecycle
  <2> QED
    BY <2>1, <2>2 DEF TypeOK
<1>8. CASE BackgroundNotice
  <2>1. FlagType'
    BY <1>f, <1>8 DEF FlagType, BackgroundNotice
  <2>p. WakeType'
    BY <1>p, <1>8 DEF BackgroundNotice, TrySend
  <2>2. PlainType'
    BY <1>p, <1>8, <2>p DEF BackgroundNotice
  <2> QED
    BY <2>1, <2>2 DEF TypeOK
<1> QED
  BY <1>1, <1>2, <1>3, <1>4, <1>5, <1>6, <1>7, <1>8, <1>9 DEF RequestStep

\* Every step of a delivery handler keeps the types and the prompt bound.
LEMMA DeliverType ==
    ASSUME TypeOK, NEW m \in Senders, DeliverStep(m)
    PROVE  TypeOK'
<1>f. FlagType
  BY DEF TypeOK
<1>p. PlainType
  BY DEF TypeOK, PlainType
<1> USE DEF taskVars, fuseVars, wakeVars, bridgeVars, countVars, handlerVars,
            PlainType, TaskType, FuseType, WakeType, EventType, BridgeType,
            HandlerType, PCs, LifecycleStates, ParkedReasons, Fuses
<1>1. CASE PushInbox(m)
  <2>1. FlagType'
    BY <1>f, <1>1 DEF FlagType, PushInbox, Step
  <2>2. PlainType'
    BY <1>p, <1>1 DEF PushInbox, Step, Senders, Pending, Replied
  <2> QED
    BY <2>1, <2>2 DEF TypeOK
<1>2. CASE CheckDuty(m)
  <2>1. FlagType'
    BY <1>f, <1>2 DEF FlagType, CheckDuty, Step
  <2>2. PlainType'
    BY <1>p, <1>2 DEF CheckDuty, Step, Senders, Pending, Replied
  <2> QED
    BY <2>1, <2>2 DEF TypeOK
<1>3. CASE CheckParked(m)
  <2>1. FlagType'
    BY <1>f, <1>3 DEF FlagType, CheckParked, Step
  <2>2. PlainType'
    BY <1>p, <1>3 DEF CheckParked, Step, Senders, Pending, Replied
  <2> QED
    BY <2>1, <2>2 DEF TypeOK
<1>4. CASE SendKick(m)
  <2>1. FlagType'
    BY <1>f, <1>4 DEF FlagType, SendKick, Step
  <2>2. PlainType'
    BY <1>p, <1>4 DEF SendKick, Step, Senders, Pending, Replied, TrySend
  <2> QED
    BY <2>1, <2>2 DEF TypeOK
<1>5. CASE NotifyAgent(m)
  <2>1. FlagType'
    BY <1>f, <1>5 DEF FlagType, NotifyAgent, Step
  <2>2. PlainType'
    BY <1>p, <1>5 DEF NotifyAgent, Step, Senders, Pending, Replied
  <2> QED
    BY <2>1, <2>2 DEF TypeOK
<1> QED
  BY <1>1, <1>2, <1>3, <1>4, <1>5 DEF DeliverStep

\* Deadlines and sleeps keep the types.
LEMMA TimeType ==
    ASSUME TypeOK, TimeStep
    PROVE  TypeOK'
<1> PICK f \in Fuses : DeadlinePasses(f) \/ SleepEnds(f)
  BY DEF TimeStep
<1> USE DEF taskVars, fuseVars, wakeVars, bridgeVars, countVars, handlerVars
<1>1. FlagType'
  BY DEF TypeOK, FlagType, DeadlinePasses, SleepEnds
<1>2. FuseType'
  <2>1. CASE DeadlinePasses(f)
    BY <2>1 DEF TypeOK, FuseType, DeadlinePasses
  <2>2. CASE SleepEnds(f)
    <3>1. sleeps[f] \in 1..MaxSleeps
      BY <2>2 DEF TypeOK, FuseType, SleepEnds
    <3> QED
      BY <2>2, <3>1 DEF TypeOK, FuseType, SleepEnds
  <2> QED
    BY <2>1, <2>2
<1>3. (TaskType /\ WakeType /\ EventType /\ BridgeType /\ HandlerType)'
  BY DEF TypeOK, TaskType, WakeType, EventType, BridgeType, HandlerType,
         DeadlinePasses, SleepEnds
<1> QED
  BY <1>1, <1>2, <1>3 DEF TypeOK

\* TypeOK is inductive.
LEMMA TypeStep == TypeOK /\ [Next]_vars => TypeOK'
<1> SUFFICES ASSUME TypeOK, [Next]_vars PROVE TypeOK'
  OBVIOUS
<1>1. CASE UNCHANGED vars
  BY <1>1 DEF vars, taskVars, fuseVars, wakeVars, bridgeVars, countVars, handlerVars,
     TypeOK, FlagType, TaskType, FuseType, WakeType, EventType, BridgeType, HandlerType
<1>2. CASE Next
  BY <1>2, AgentType, TimeType, BridgeTypeStep, RequestType, DeliverType DEF Next
<1> QED
  BY <1>1, <1>2

\* Every channel and counter of the agent stays within its type and capacity.
THEOREM TypeCorrect == Spec => []TypeOK
BY InitType, TypeStep, PTL DEF Spec

-----------------------------------------------------------------------------
(***************************************************************************)
(* The event channel: what the task may append, and where it then is       *)
(***************************************************************************)

OpenPCs == {"top", "over", "llm"}
OuterPCs == {"select", "pull", "start", "drain"}

Quiet == /\ UNCHANGED events
         /\ pc' \in OpenPCs => pc \in OpenPCs
         /\ pc' \in OuterPCs => pc \in OuterPCs /\ lifecycle' = lifecycle
OpensTurn == events' = Append(events, Ev("busy")) /\ pc' = "top"
InTurn == \E k \in InFlight :
             events' = Append(events, Ev(k)) /\ pc = "llm" /\ pc' = "llm"
EndsTurn == \E e \in Event :
              /\ e.kind \in Terminal
              /\ events' = Append(events, e)
              /\ pc' \in {"select", "drain", "done"}
              /\ pc' # "done" => MarkOf(e.kind) = lifecycle'

\* A step of the task leaves the bridge's cells alone and is one of four kinds.
LEMMA TaskEvents ==
    ASSUME TypeOK, AgentStep
    PROVE  /\ UNCHANGED <<mark, parkedCell>>
           /\ Quiet \/ OpensTurn \/ InTurn \/ EndsTurn
<1> USE DEF bridgeVars, taskVars
<1>1. CASE TakePrompt
  BY <1>1 DEF TakePrompt, Quiet, OpenPCs, OuterPCs
<1>2. CASE TakeNotify
  BY <1>2 DEF TakeNotify, Quiet, OpenPCs, OuterPCs
<1>3. CASE PullInbox
  BY <1>3 DEF PullInbox, Quiet, OpenPCs, OuterPCs
<1>4. CASE TakeCancel
  <2>1. Ev("cancelled") \in Event /\ Ev("cancelled").kind = "cancelled"
    BY EvType DEF Ev, EventKinds, Terminal
  <2>2. EndsTurn
    BY <1>4, <2>1 DEF EndsTurn, Terminal, MarkOf, TakeCancel
  <2> QED
    BY <1>4, <2>2 DEF TakeCancel
<1>5. CASE PostRoundDrain
  BY <1>5 DEF PostRoundDrain, Quiet, OpenPCs, OuterPCs
<1>6. CASE \E f \in Fuses : TakeFuse(f)
  BY <1>6 DEF TakeFuse, Quiet, OpenPCs, OuterPCs
<1>7. CASE StartRun
  BY <1>7 DEF StartRun, Quiet, OpenPCs, OuterPCs
<1>8. CASE SendBusy
  BY <1>8 DEF SendBusy, OpensTurn
<1>9. CASE \E exceeded \in BOOLEAN : RoundTop(exceeded)
  BY <1>9 DEF RoundTop, Quiet, OpenPCs, OuterPCs
<1>10. CASE SendProgress
  BY <1>10 DEF SendProgress, InTurn, InFlight
<1>11. CASE SendRetrying
  BY <1>11 DEF SendRetrying, InTurn, InFlight
<1>12. CASE NextRound
  BY <1>12 DEF NextRound, Quiet, OpenPCs, OuterPCs
<1>13. CASE BreakIdle
  <2>1. Ev("idle") \in Event /\ Ev("idle").kind = "idle"
    BY EvType DEF Ev, EventKinds, Terminal
  <2>2. EndsTurn
    BY <1>13, <2>1 DEF EndsTurn, Terminal, MarkOf, BreakIdle, EndRun
  <2> QED
    BY <1>13, <2>2 DEF BreakIdle, EndRun
<1>14. CASE BreakWait
  <2>1. Ev("waiting") \in Event /\ Ev("waiting").kind = "waiting"
    BY EvType DEF Ev, EventKinds, Terminal
  <2>2. EndsTurn
    BY <1>14, <2>1 DEF EndsTurn, Terminal, MarkOf, BreakWait, EndRun
  <2> QED
    BY <1>14, <2>2 DEF BreakWait, EndRun
<1>15. CASE BudgetExceeded
  <2>1. Ev("budget") \in Event /\ Ev("budget").kind = "budget"
    BY EvType DEF Ev, EventKinds, Terminal
  <2>2. EndsTurn
    BY <1>15, <2>1 DEF EndsTurn, Terminal, MarkOf, BudgetExceeded, EndRun
  <2> QED
    BY <1>15, <2>2 DEF BudgetExceeded, EndRun
<1>16. CASE Heartbeat
  BY <1>16 DEF Heartbeat, Quiet, OpenPCs, OuterPCs
<1>17. CASE MintNextToken
  BY <1>17 DEF MintNextToken, Quiet, OpenPCs, OuterPCs
<1>18. CASE HeartbeatExhausted
  <2>1. Ev("idle") \in Event /\ Ev("idle").kind = "idle"
    BY EvType DEF Ev, EventKinds, Terminal
  <2>2. EndsTurn
    BY <1>18, <2>1 DEF EndsTurn, Terminal, MarkOf, HeartbeatExhausted, EndRun
  <2> QED
    BY <1>18, <2>2 DEF HeartbeatExhausted, EndRun
<1>19. CASE ChainRetry
  <2> DEFINE e == [kind |-> "fce_armed", attempt |-> fails + 1]
  <2>1. e \in Event /\ e.kind = "fce_armed"
    BY <1>19 DEF TypeOK, TaskType, ChainRetry, Event, EventKinds, Terminal
  <2>2. events' = Append(events, e) /\ lifecycle' = "Retrying" /\ pc' \in {"select", "drain"}
    BY <1>19 DEF ChainRetry, EndRun
  <2> HIDE DEF e
  <2>3. EndsTurn
    BY <2>1, <2>2 DEF EndsTurn, Terminal, MarkOf
  <2> QED
    BY <1>19, <2>3 DEF ChainRetry, EndRun
<1>20. CASE ChainPark
  <2>1. Ev("fce_parked") \in Event /\ Ev("fce_parked").kind = "fce_parked"
    BY EvType DEF Ev, EventKinds, Terminal
  <2>2. EndsTurn
    BY <1>20, <2>1 DEF EndsTurn, Terminal, MarkOf, ChainPark, EndRun
  <2> QED
    BY <1>20, <2>2 DEF ChainPark, EndRun
<1>21. CASE FatalError
  <2>1. Ev("error") \in Event /\ Ev("error").kind = "error"
    BY EvType DEF Ev, EventKinds, Terminal
  <2>2. EndsTurn
    BY <1>21, <2>1 DEF EndsTurn, Terminal, MarkOf, FatalError, EndRun
  <2> QED
    BY <1>21, <2>2 DEF FatalError, EndRun
<1>22. CASE MaxRoundsExceeded
  <2>1. Ev("maxrounds") \in Event /\ Ev("maxrounds").kind = "maxrounds"
    BY EvType DEF Ev, EventKinds, Terminal
  <2>2. EndsTurn
    BY <1>22, <2>1 DEF EndsTurn, Terminal, MarkOf, MaxRoundsExceeded, EndRun
  <2> QED
    BY <1>22, <2>2 DEF MaxRoundsExceeded, EndRun
<1>23. CASE RoundInterrupted
  <2>1. Ev("interrupted") \in Event /\ Ev("interrupted").kind = "interrupted"
    BY EvType DEF Ev, EventKinds, Terminal
  <2>2. EndsTurn
    BY <1>23, <2>1 DEF EndsTurn, Terminal, MarkOf, RoundInterrupted, EndRun
  <2> QED
    BY <1>23, <2>2 DEF RoundInterrupted, EndRun
<1>24. CASE RunTerminated
  <2>1. Ev("cancelled") \in Event /\ Ev("cancelled").kind = "cancelled"
    BY EvType DEF Ev, EventKinds, Terminal
  <2>2. EndsTurn
    BY <1>24, <2>1 DEF EndsTurn, Terminal, MarkOf, RunTerminated
  <2> QED
    BY <1>24, <2>2 DEF RunTerminated
<1> QED
  BY <1>1, <1>2, <1>3, <1>4, <1>5, <1>6, <1>7, <1>8, <1>9, <1>10, <1>11, <1>12, <1>13,
     <1>14, <1>15, <1>16, <1>17, <1>18, <1>19, <1>20, <1>21, <1>22, <1>23, <1>24 DEF
     AgentStep

\* Time, requests and deliveries touch neither the channel nor the bridge.
LEMMA OtherEvents ==
    ASSUME TimeStep \/ RequestStep \/ \E m \in Senders : DeliverStep(m)
    PROVE  UNCHANGED <<events, mark, parkedCell, pc, lifecycle>>
<1> USE DEF bridgeVars, taskVars
<1>1. CASE TimeStep
  BY <1>1 DEF TimeStep, DeadlinePasses, SleepEnds
<1>2. CASE RequestStep
  BY <1>2 DEF RequestStep, SetDuty, DutyWake, RespondApproval, ApplyProfile, ResetWake,
     InterruptRead, InterruptAct, CancelLifecycle, BackgroundNotice
<1>3. CASE \E m \in Senders : DeliverStep(m)
  BY <1>3 DEF DeliverStep, PushInbox, CheckDuty, CheckParked, SendKick, NotifyAgent
<1> QED
  BY <1>1, <1>2, <1>3

\* What appending to the event channel does to its indices.
LEMMA Appended ==
    ASSUME EventType, NEW e \in Event, events' = Append(events, e)
    PROVE  /\ events' # <<>> /\ Len(events') = Len(events) + 1
           /\ \A i \in 1..Len(events) : events'[i] = events[i]
           /\ events'[Len(events')] = e
BY DEF EventType

\* What taking the head of the event channel does to its indices.
LEMMA Popped ==
    ASSUME EventType, events # <<>>, events' = Tail(events)
    PROVE  /\ Len(events) \in Nat \ {0} /\ Len(events') = Len(events) - 1
           /\ \A i \in 1..Len(events') : events'[i] = events[i + 1]
           /\ Head(events) = events[1] /\ Head(events) \in Event
           /\ (events' = <<>>) <=> (Len(events) = 1)
<1>1. events \in Seq(Event) /\ Len(events) \in Nat \ {0}
  BY DEF EventType
<1>2. Tail(events) \in Seq(Event) /\ Len(Tail(events)) = Len(events) - 1
  BY <1>1
<1>3. \A i \in 1..Len(events') : events'[i] = events[i + 1]
  BY <1>1, <1>2
<1>4. Head(events) = events[1] /\ Head(events) \in Event
  BY <1>1
<1>5. (events' = <<>>) <=> (Len(events) = 1)
  <2>1. Tail(events) = <<>> => Len(Tail(events)) = 0
    BY EmptySeq
  <2>2. Tail(events) # <<>> => Len(Tail(events)) # 0
    BY <1>2, EmptySeq
  <2> QED
    BY <1>1, <1>2, <2>1, <2>2
<1> QED
  BY <1>1, <1>2, <1>3, <1>4, <1>5

-----------------------------------------------------------------------------
(***************************************************************************)
(* The parked mark has its reason                                          *)
(***************************************************************************)

\* A step of the task keeps every turn on the channel opened.
LEMMA ParkedTaskStep ==
    ASSUME TypeOK, ParkedInv, AgentStep
    PROVE  ParkedInv'
<1>1. UNCHANGED <<mark, parkedCell>> /\ (Quiet \/ OpensTurn \/ InTurn \/ EndsTurn)
  BY TaskEvents
<1>2. EventType
  BY DEF TypeOK
<1>3. ParkedHasReason'
  BY <1>1 DEF ParkedInv, ParkedHasReason
<1>4. CASE Quiet
  BY <1>1, <1>3, <1>4 DEF ParkedInv, TurnsAreOpened, Quiet, OpenPCs
<1>5. ASSUME NEW e \in Event, events' = Append(events, e),
             e.kind \in InFlight => pc = "llm",
             pc' \in OpenPCs => e.kind \notin Terminal
      PROVE  ParkedInv'
  <2>1. /\ events' # <<>> /\ Len(events') = Len(events) + 1
        /\ \A i \in 1..Len(events) : events'[i] = events[i]
        /\ events'[Len(events')] = e
        /\ Len(events) \in Nat
    BY <1>2, <1>5, Appended DEF EventType
  <2>2. e.kind \in InFlight =>
          IF Len(events) = 0 THEN mark # "Parked"
                             ELSE events[Len(events)].kind \notin Terminal
    BY <1>2, <1>5, EmptySeq DEF ParkedInv, TurnsAreOpened, EventType
  <2>3. ASSUME NEW i \in 1..Len(events'), events'[i].kind \in InFlight
        PROVE  IF i = 1 THEN mark' # "Parked" ELSE events'[i - 1].kind \notin Terminal
    <3>1. CASE i \in 1..Len(events)
      BY <1>1, <2>1, <2>3, <3>1 DEF ParkedInv, TurnsAreOpened
    <3>2. CASE i = Len(events) + 1
      BY <1>1, <2>1, <2>2, <2>3, <3>2
    <3> QED
      BY <2>1, <3>1, <3>2
  <2>4. pc' \in OpenPCs => events'[Len(events')].kind \notin Terminal
    BY <1>5, <2>1
  <2> QED
    BY <1>3, <2>1, <2>3, <2>4 DEF ParkedInv, TurnsAreOpened, OpenPCs
<1>6. CASE OpensTurn
  <2>1. Ev("busy") \in Event /\ Ev("busy").kind = "busy"
    BY EvType DEF Ev, EventKinds
  <2> QED
    BY <1>5, <1>6, <2>1 DEF OpensTurn, InFlight, Terminal
<1>7. CASE InTurn
  <2>1. PICK k \in InFlight : events' = Append(events, Ev(k)) /\ pc = "llm" /\ pc' = "llm"
    BY <1>7 DEF InTurn
  <2>2. Ev(k) \in Event /\ Ev(k).kind = k
    BY EvType DEF Ev, EventKinds, InFlight
  <2> QED
    BY <1>5, <2>1, <2>2 DEF InFlight, Terminal
<1>8. CASE EndsTurn
  BY <1>5, <1>8 DEF EndsTurn, OpenPCs, InFlight, Terminal
<1> QED
  BY <1>1, <1>4, <1>6, <1>7, <1>8

\* The bridge keeps the parked cell in step with the mark: an in-flight event
\* never meets a Parked mark.
LEMMA ParkedBridgeStep ==
    ASSUME TypeOK, ParkedInv, BridgeStep
    PROVE  ParkedInv'
<1> DEFINE k == Head(events).kind
<1>1. events # <<>> /\ events' = Tail(events) /\ pc' = pc
  BY DEF BridgeStep, BridgeBusy, BridgeRetrying, BridgeProgress, BridgeTerminal,
     taskVars
<1>2. EventType
  BY DEF TypeOK
<1>3. /\ Len(events) \in Nat \ {0} /\ Len(events') = Len(events) - 1
      /\ \A i \in 1..Len(events') : events'[i] = events[i + 1]
      /\ Head(events) = events[1]
      /\ (events' = <<>>) <=> (Len(events) = 1)
  BY <1>1, <1>2, Popped
\* A turn still open after the head was processed has left Parked behind.
<1>4. ParkedHasReason' /\ (k \notin Terminal => mark' # "Parked")
  <2>1. CASE BridgeBusy
    BY <2>1 DEF BridgeBusy, ParkedHasReason
  <2>2. CASE BridgeRetrying
    BY <1>3, <2>2 DEF BridgeRetrying, ParkedInv, ParkedHasReason, TurnsAreOpened,
       InFlight
  <2>3. CASE BridgeProgress
    BY <1>3, <2>3 DEF BridgeProgress, ParkedInv, ParkedHasReason, TurnsAreOpened,
       InFlight
  <2>4. CASE BridgeTerminal
    BY <2>4 DEF BridgeTerminal, ParkedHasReason, Terminal, MarkOf, ReasonOf
  <2> QED
    BY <2>1, <2>2, <2>3, <2>4 DEF BridgeStep
<1>5. ASSUME NEW i \in 1..Len(events'), events'[i].kind \in InFlight
      PROVE  IF i = 1 THEN mark' # "Parked" ELSE events'[i - 1].kind \notin Terminal
  <2>1. i + 1 \in 1..Len(events) /\ events[i + 1].kind \in InFlight
    BY <1>3, <1>5
  <2>2. events[i].kind \notin Terminal
    BY <2>1 DEF ParkedInv, TurnsAreOpened
  <2>3. CASE i = 1
    BY <1>3, <1>4, <2>2, <2>3
  <2>4. CASE i # 1
    BY <1>3, <2>2, <2>4
  <2> QED
    BY <2>3, <2>4
<1>6. ASSUME pc' \in OpenPCs
      PROVE  IF events' = <<>> THEN mark' # "Parked"
                               ELSE events'[Len(events')].kind \notin Terminal
  <2>1. events[Len(events)].kind \notin Terminal
    BY <1>1, <1>6 DEF ParkedInv, TurnsAreOpened, OpenPCs
  <2> QED
    BY <1>3, <1>4, <2>1
<1> QED
  BY <1>4, <1>5, <1>6 DEF ParkedInv, TurnsAreOpened, OpenPCs

\* ParkedInv is inductive relative to the types.
LEMMA ParkedStep == TypeOK /\ ParkedInv /\ [Next]_vars => ParkedInv'
<1> SUFFICES ASSUME TypeOK, ParkedInv, [Next]_vars PROVE ParkedInv'
  OBVIOUS
<1>1. ASSUME UNCHANGED <<events, mark, parkedCell, pc>> PROVE ParkedInv'
  BY <1>1 DEF ParkedInv, ParkedHasReason, TurnsAreOpened
<1>2. CASE UNCHANGED vars
  BY <1>1, <1>2 DEF vars, bridgeVars, taskVars
<1>3. CASE Next
  BY <1>1, <1>3, ParkedTaskStep, ParkedBridgeStep, OtherEvents DEF Next
<1> QED
  BY <1>2, <1>3

\* The parked gate never meets a Parked mark without a reason, however far the
\* bridge lags behind the task.
THEOREM ParkedReasonCorrect == Spec => []ParkedHasReason
<1>1. Init => ParkedInv
  BY DEF Init, ParkedInv, ParkedHasReason, TurnsAreOpened
<1>2. ParkedInv => ParkedHasReason
  BY DEF ParkedInv
<1> QED
  BY <1>1, <1>2, TypeCorrect, ParkedStep, PTL DEF Spec

-----------------------------------------------------------------------------
(***************************************************************************)
(* The mark settles on the task's own state                                *)
(***************************************************************************)

\* SettledInv is inductive relative to the types.
LEMMA SettledStep == TypeOK /\ SettledInv /\ [Next]_vars => SettledInv'
<1> SUFFICES ASSUME TypeOK, SettledInv, [Next]_vars PROVE SettledInv'
  OBVIOUS
<1>1. EventType
  BY DEF TypeOK
<1>2. ASSUME UNCHANGED <<events, mark, pc, lifecycle>> PROVE SettledInv'
  BY <1>2 DEF SettledInv
<1>3. CASE UNCHANGED vars
  BY <1>2, <1>3 DEF vars, bridgeVars, taskVars
<1>4. CASE AgentStep
  <2>1. UNCHANGED mark /\ (Quiet \/ OpensTurn \/ InTurn \/ EndsTurn)
    BY <1>4, TaskEvents
  <2>2. CASE Quiet
    BY <2>1, <2>2 DEF Quiet, SettledInv, OuterPCs
  <2>3. CASE OpensTurn \/ InTurn
    BY <2>3 DEF OpensTurn, InTurn, SettledInv
  <2>4. CASE EndsTurn
    <3>1. PICK e \in Event : /\ e.kind \in Terminal /\ events' = Append(events, e)
                             /\ pc' \in {"select", "drain", "done"}
                             /\ pc' # "done" => MarkOf(e.kind) = lifecycle'
      BY <2>4 DEF EndsTurn
    <3>2. events' # <<>> /\ events'[Len(events')] = e
      BY <1>1, <3>1, Appended
    <3> QED
      BY <3>1, <3>2 DEF SettledInv
  <2> QED
    BY <2>1, <2>2, <2>3, <2>4
<1>5. CASE BridgeStep
  <2>1. events # <<>> /\ events' = Tail(events) /\ UNCHANGED <<pc, lifecycle>>
    BY <1>5 DEF BridgeStep, BridgeBusy, BridgeRetrying, BridgeProgress, BridgeTerminal,
                taskVars
  <2>2. /\ Len(events) \in Nat \ {0} /\ Len(events') = Len(events) - 1
        /\ \A i \in 1..Len(events') : events'[i] = events[i + 1]
        /\ Head(events) = events[1]
        /\ (events' = <<>>) <=> (Len(events) = 1)
    BY <1>1, <2>1, Popped
  <2>3. CASE Len(events) = 1
    <3>1. Head(events).kind \in Terminal => mark' = MarkOf(Head(events).kind)
      BY <1>5 DEF BridgeStep, BridgeBusy, BridgeRetrying, BridgeProgress,
                  BridgeTerminal, Terminal
    <3> QED
      BY <2>1, <2>2, <2>3, <3>1 DEF SettledInv
  <2>4. CASE Len(events) # 1
    BY <2>1, <2>2, <2>4 DEF SettledInv
  <2> QED
    BY <2>3, <2>4
<1>6. CASE TimeStep \/ RequestStep \/ \E m \in Senders : DeliverStep(m)
  BY <1>2, <1>6, OtherEvents
<1> QED
  BY <1>3, <1>4, <1>5, <1>6 DEF Next

\* Once its channel is drained, the status the tagma acts on is the state of
\* the task in its select loop.
THEOREM StatusCorrect == Spec => []MarkSettles
<1>1. Init => SettledInv
  BY DEF Init, SettledInv
<1>2. SettledInv => MarkSettles
  BY DEF SettledInv, MarkSettles
<1> QED
  BY <1>1, <1>2, TypeCorrect, SettledStep, PTL DEF Spec

-----------------------------------------------------------------------------
(***************************************************************************)
(* Fuses                                                                   *)
(***************************************************************************)

\* The task leaves a Waiting or Retrying state only with its fuse stored.
LEMMA FuseTaskStep ==
    ASSUME TypeOK, FuseInv, AgentStep
    PROVE  FuseInv'
<1> USE DEF TypeOK, FuseType, TaskType, FuseInv, Fuses, fuseVars, taskVars
<1>1. CASE TakePrompt
  BY <1>1 DEF TakePrompt, ClearBoth
<1>2. CASE TakeNotify
  BY <1>2 DEF TakeNotify
<1>3. CASE PullInbox
  BY <1>3 DEF PullInbox, ClearBoth
<1>4. CASE TakeCancel
  BY <1>4 DEF TakeCancel
<1>5. CASE PostRoundDrain
  BY <1>5 DEF PostRoundDrain
<1>6. CASE \E f \in Fuses : TakeFuse(f)
  BY <1>6 DEF TakeFuse, Clear
<1>7. CASE StartRun
  BY <1>7 DEF StartRun
<1>8. CASE SendBusy
  BY <1>8 DEF SendBusy
<1>9. CASE \E exceeded \in BOOLEAN : RoundTop(exceeded)
  BY <1>9 DEF RoundTop
<1>10. CASE SendProgress
  BY <1>10 DEF SendProgress
<1>11. CASE SendRetrying
  BY <1>11 DEF SendRetrying
<1>12. CASE NextRound
  BY <1>12 DEF NextRound
<1>13. CASE BreakIdle
  BY <1>13 DEF BreakIdle, EndRun
<1>14. CASE BreakWait
  BY <1>14 DEF BreakWait, EndRun, Arm
<1>15. CASE BudgetExceeded
  BY <1>15 DEF BudgetExceeded, EndRun, Arm
<1>16. CASE Heartbeat
  BY <1>16 DEF Heartbeat
<1>17. CASE MintNextToken
  BY <1>17 DEF MintNextToken
<1>18. CASE HeartbeatExhausted
  BY <1>18 DEF HeartbeatExhausted, EndRun
<1>19. CASE ChainRetry
  BY <1>19 DEF ChainRetry, EndRun, Arm
<1>20. CASE ChainPark
  BY <1>20 DEF ChainPark, EndRun
<1>21. CASE FatalError
  BY <1>21 DEF FatalError, EndRun
<1>22. CASE MaxRoundsExceeded
  BY <1>22 DEF MaxRoundsExceeded, EndRun
<1>23. CASE RoundInterrupted
  BY <1>23 DEF RoundInterrupted, EndRun
<1>24. CASE RunTerminated
  BY <1>24 DEF RunTerminated
<1> QED
  BY <1>1, <1>2, <1>3, <1>4, <1>5, <1>6, <1>7, <1>8, <1>9, <1>10, <1>11, <1>12, <1>13,
     <1>14, <1>15, <1>16, <1>17, <1>18, <1>19, <1>20, <1>21, <1>22, <1>23, <1>24 DEF
     AgentStep

\* FuseInv is inductive relative to the types.
LEMMA FuseStep == TypeOK /\ FuseInv /\ [Next]_vars => FuseInv'
<1> SUFFICES ASSUME TypeOK, FuseInv, [Next]_vars PROVE FuseInv'
  OBVIOUS
<1>1. ASSUME UNCHANGED <<deadline, sleeps, fusePermit, pc, lifecycle>> PROVE FuseInv'
  BY <1>1 DEF FuseInv
<1>2. CASE UNCHANGED vars
  BY <1>1, <1>2 DEF vars, fuseVars, taskVars
<1>3. CASE AgentStep
  BY <1>3, FuseTaskStep
<1>4. CASE TimeStep
  <2> PICK f \in Fuses : DeadlinePasses(f) \/ SleepEnds(f)
    BY <1>4 DEF TimeStep
  <2>1. CASE DeadlinePasses(f)
    BY <2>1 DEF DeadlinePasses, FuseInv, TypeOK, FuseType, Fuses, taskVars
  <2>2. CASE SleepEnds(f)
    BY <2>2 DEF SleepEnds, FuseInv, TypeOK, FuseType, Fuses, taskVars
  <2> QED
    BY <2>1, <2>2
<1>5. CASE BridgeStep
  BY <1>1, <1>5 DEF BridgeStep, BridgeBusy, BridgeRetrying, BridgeProgress,
                    BridgeTerminal, fuseVars, taskVars
<1>6. CASE RequestStep
  BY <1>1, <1>6 DEF RequestStep, SetDuty, DutyWake, RespondApproval, ApplyProfile, ResetWake,
     InterruptRead, InterruptAct, CancelLifecycle, BackgroundNotice, fuseVars,
     taskVars
<1>7. CASE \E m \in Senders : DeliverStep(m)
  BY <1>1, <1>7 DEF DeliverStep, PushInbox, CheckDuty, CheckParked, SendKick,
     NotifyAgent, fuseVars, taskVars
<1> QED
  BY <1>2, <1>3, <1>4, <1>5, <1>6, <1>7 DEF Next

\* A Waiting or Retrying task always has a fuse that will still wake it.
THEOREM FuseCorrect == Spec => []FuseBurns
<1>1. Init => FuseInv
  BY DEF Init, FuseInv, ClearBoth, Fuses
<1>2. FuseInv => FuseBurns
  BY DEF FuseInv, FuseBurns, Asleep, Fuses
<1> QED
  BY <1>1, <1>2, TypeCorrect, FuseStep, PTL DEF Spec

-----------------------------------------------------------------------------
(***************************************************************************)
(* Wake-ups                                                                *)
(***************************************************************************)

\* A pending profile reset always has a wake-up, parked or not.
THEOREM ResetCorrect == Spec => []ResetHasWake
<1>1. Init => ResetHasWake
  BY DEF Init, ResetHasWake
<1>2. ResetHasWake /\ [Next]_vars => ResetHasWake'
  <2> SUFFICES ASSUME ResetHasWake, [Next]_vars PROVE ResetHasWake'
    OBVIOUS
  <2> USE DEF ResetHasWake, wakeVars, handlerVars, countVars
  <2>1. CASE UNCHANGED vars
    BY <2>1 DEF vars
  <2>2. CASE AgentStep
    BY <2>2 DEF AgentStep, TakePrompt, TakeNotify, PullInbox, TakeCancel,
       PostRoundDrain, TakeFuse, StartRun, SendBusy, RoundTop, SendProgress,
       SendRetrying, NextRound, BreakIdle, BreakWait, BudgetExceeded, Heartbeat,
       MintNextToken, HeartbeatExhausted, ChainRetry, ChainPark, FatalError,
       MaxRoundsExceeded, RoundInterrupted, RunTerminated, EndRun
  <2>3. CASE TimeStep \/ BridgeStep
    BY <2>3 DEF TimeStep, DeadlinePasses, SleepEnds, BridgeStep, BridgeBusy,
                BridgeRetrying, BridgeProgress, BridgeTerminal
  <2>4. CASE RequestStep
    BY <2>4 DEF RequestStep, SetDuty, DutyWake, RespondApproval, ApplyProfile, ResetWake,
       InterruptRead, InterruptAct, CancelLifecycle, BackgroundNotice
  <2>5. CASE \E m \in Senders : DeliverStep(m)
    <3> PICK m \in Senders : DeliverStep(m)
      BY <2>5
    <3>1. CASE NotifyAgent(m)
      <4>1. (permit => permit') /\ UNCHANGED <<reset, resetNotify>>
        BY <3>1 DEF NotifyAgent
      <4> QED
        BY <4>1
    <3>2. CASE ~NotifyAgent(m)
      BY <3>2 DEF DeliverStep, PushInbox, CheckDuty, CheckParked, SendKick
    <3> QED
      BY <3>1, <3>2
  <2> QED
    BY <2>1, <2>2, <2>3, <2>4, <2>5 DEF Next
<1> QED
  BY <1>1, <1>2, PTL DEF Spec

Parking == {"error", "maxrounds", "fce_parked"}

\* Without hard failures the task consumes a permit only to pull the inbox.
LEMMA WakeTaskStep ==
    ASSUME Faults = {}, TypeOK, WakeInv, AgentStep
    PROVE  WakeInv'
<1>1. EventType
  BY DEF TypeOK
\* Without hard failures the task appends no parking event and never parks.
<1>2. /\ lifecycle' # "Parked"
      /\ UNCHANGED <<mark, send, duty, dutyNotify>>
      /\ \/ UNCHANGED events
         \/ \E e \in Event : events' = Append(events, e) /\ e.kind \notin Parking
  <2> USE DEF WakeInv, NeverParked, taskVars, handlerVars, bridgeVars, Parking
  <2> DEFINE Adds(k) == Ev(k) \in Event /\ Ev(k).kind = k
  <2>0. \A k \in EventKinds : Adds(k)
    BY EvType DEF Ev
  <2> HIDE DEF Adds
  <2>1. CASE TakePrompt
    BY <2>1 DEF TakePrompt
  <2>2. CASE TakeNotify
    BY <2>2 DEF TakeNotify
  <2>3. CASE PullInbox
    BY <2>3 DEF PullInbox
  <2>4. CASE TakeCancel
    <3>1. Ev("cancelled") \in Event /\ Ev("cancelled").kind = "cancelled"
      BY <2>0 DEF Adds, EventKinds, InFlight, Terminal
    <3> QED
      BY <2>4, <3>1 DEF TakeCancel
  <2>5. CASE PostRoundDrain
    BY <2>5 DEF PostRoundDrain
  <2>6. CASE \E f \in Fuses : TakeFuse(f)
    BY <2>6 DEF TakeFuse
  <2>7. CASE StartRun
    BY <2>7 DEF StartRun
  <2>8. CASE SendBusy
    <3>1. Ev("busy") \in Event /\ Ev("busy").kind = "busy"
      BY <2>0 DEF Adds, EventKinds, InFlight, Terminal
    <3> QED
      BY <2>8, <3>1 DEF SendBusy
  <2>9. CASE \E exceeded \in BOOLEAN : RoundTop(exceeded)
    BY <2>9 DEF RoundTop
  <2>10. CASE SendProgress
    <3>1. Ev("progress") \in Event /\ Ev("progress").kind = "progress"
      BY <2>0 DEF Adds, EventKinds, InFlight, Terminal
    <3> QED
      BY <2>10, <3>1 DEF SendProgress
  <2>11. CASE SendRetrying
    <3>1. Ev("retrying") \in Event /\ Ev("retrying").kind = "retrying"
      BY <2>0 DEF Adds, EventKinds, InFlight, Terminal
    <3> QED
      BY <2>11, <3>1 DEF SendRetrying
  <2>12. CASE NextRound
    BY <2>12 DEF NextRound
  <2>13. CASE BreakIdle
    <3>1. Ev("idle") \in Event /\ Ev("idle").kind = "idle"
      BY <2>0 DEF Adds, EventKinds, InFlight, Terminal
    <3> QED
      BY <2>13, <3>1 DEF BreakIdle, EndRun
  <2>14. CASE BreakWait
    <3>1. Ev("waiting") \in Event /\ Ev("waiting").kind = "waiting"
      BY <2>0 DEF Adds, EventKinds, InFlight, Terminal
    <3> QED
      BY <2>14, <3>1 DEF BreakWait, EndRun
  <2>15. CASE BudgetExceeded
    <3>1. Ev("budget") \in Event /\ Ev("budget").kind = "budget"
      BY <2>0 DEF Adds, EventKinds, InFlight, Terminal
    <3> QED
      BY <2>15, <3>1 DEF BudgetExceeded, EndRun
  <2>16. CASE Heartbeat
    BY <2>16 DEF Heartbeat
  <2>17. CASE MintNextToken
    BY <2>17 DEF MintNextToken
  <2>18. CASE HeartbeatExhausted
    <3>1. Ev("idle") \in Event /\ Ev("idle").kind = "idle"
      BY <2>0 DEF Adds, EventKinds, InFlight, Terminal
    <3> QED
      BY <2>18, <3>1 DEF HeartbeatExhausted, EndRun
  <2>19. CASE ChainRetry
    <3> DEFINE e == [kind |-> "fce_armed", attempt |-> fails + 1]
    <3>1. e \in Event /\ e.kind = "fce_armed"
      BY <2>19 DEF TypeOK, TaskType, ChainRetry, Event, EventKinds, Terminal
    <3>2. events' = Append(events, e) /\ lifecycle' = "Retrying"
      BY <2>19 DEF ChainRetry, EndRun
    <3> HIDE DEF e
    <3> QED
      BY <2>19, <3>1, <3>2 DEF ChainRetry, EndRun
  <2>20. CASE ChainPark
    BY <2>20 DEF ChainPark, EndRun
  <2>21. CASE FatalError
    BY <2>21 DEF FatalError, EndRun
  <2>22. CASE MaxRoundsExceeded
    BY <2>22 DEF MaxRoundsExceeded, EndRun
  <2>23. CASE RoundInterrupted
    <3>1. Ev("interrupted") \in Event /\ Ev("interrupted").kind = "interrupted"
      BY <2>0 DEF Adds, EventKinds, InFlight, Terminal
    <3> QED
      BY <2>23, <3>1 DEF RoundInterrupted, EndRun
  <2>24. CASE RunTerminated
    <3>1. Ev("cancelled") \in Event /\ Ev("cancelled").kind = "cancelled"
      BY <2>0 DEF Adds, EventKinds, InFlight, Terminal
    <3> QED
      BY <2>24, <3>1 DEF RunTerminated
  <2> QED
    BY <2>1, <2>2, <2>3, <2>4, <2>5, <2>6, <2>7, <2>8, <2>9, <2>10, <2>11, <2>12,
       <2>13, <2>14, <2>15, <2>16, <2>17, <2>18, <2>19, <2>20, <2>21, <2>22, <2>23,
       <2>24 DEF AgentStep
<1>3. NeverParked'
  <2>1. CASE UNCHANGED events
    BY <1>2, <2>1 DEF WakeInv, NeverParked
  <2>2. ASSUME NEW e \in Event, events' = Append(events, e), e.kind \notin Parking
        PROVE  \A j \in 1..Len(events') : events'[j].kind \notin Parking
    <3>1. /\ Len(events') = Len(events) + 1 /\ Len(events) \in Nat
          /\ \A j \in 1..Len(events) : events'[j] = events[j]
          /\ events'[Len(events')] = e
      BY <1>1, <2>2, Appended DEF EventType
    <3> QED
      BY <2>2, <3>1 DEF WakeInv, NeverParked, Parking
  <2> QED
    BY <1>2, <2>1, <2>2 DEF WakeInv, NeverParked, Parking
\* Only the notify arm consumes the permit, and it then pulls; only a pull
\* empties the inbox.
<1>4. NoLostWakeup'
  <2> USE DEF WakeInv, NeverParked, NoLostWakeup, wakeVars
  <2>1. CASE TakePrompt
    BY <1>2, <2>1 DEF TakePrompt
  <2>2. CASE TakeNotify
    BY <1>2, <2>2 DEF TakeNotify
  <2>3. CASE PullInbox
    BY <1>2, <2>3 DEF PullInbox
  <2>4. CASE TakeCancel
    BY <1>2, <2>4 DEF TakeCancel
  <2>5. CASE PostRoundDrain
    BY <1>2, <2>5 DEF PostRoundDrain
  <2>6. CASE \E f \in Fuses : TakeFuse(f)
    BY <1>2, <2>6 DEF TakeFuse
  <2>7. CASE StartRun
    BY <1>2, <2>7 DEF StartRun
  <2>8. CASE SendBusy
    BY <1>2, <2>8 DEF SendBusy
  <2>9. CASE \E exceeded \in BOOLEAN : RoundTop(exceeded)
    BY <1>2, <2>9 DEF RoundTop
  <2>10. CASE SendProgress
    BY <1>2, <2>10 DEF SendProgress, taskVars
  <2>11. CASE SendRetrying
    BY <1>2, <2>11 DEF SendRetrying, taskVars
  <2>12. CASE NextRound
    BY <1>2, <2>12 DEF NextRound
  <2>13. CASE BreakIdle
    BY <1>2, <2>13 DEF BreakIdle, EndRun
  <2>14. CASE BreakWait
    BY <1>2, <2>14 DEF BreakWait, EndRun
  <2>15. CASE BudgetExceeded
    BY <1>2, <2>15 DEF BudgetExceeded, EndRun
  <2>16. CASE Heartbeat
    BY <1>2, <2>16 DEF Heartbeat
  <2>17. CASE MintNextToken
    BY <1>2, <2>17 DEF MintNextToken
  <2>18. CASE HeartbeatExhausted
    BY <1>2, <2>18 DEF HeartbeatExhausted, EndRun
  <2>19. CASE ChainRetry
    BY <1>2, <2>19 DEF ChainRetry, EndRun
  <2>20. CASE ChainPark
    BY <1>2, <2>20 DEF ChainPark, EndRun
  <2>21. CASE FatalError
    BY <1>2, <2>21 DEF FatalError, EndRun
  <2>22. CASE MaxRoundsExceeded
    BY <1>2, <2>22 DEF MaxRoundsExceeded, EndRun
  <2>23. CASE RoundInterrupted
    BY <1>2, <2>23 DEF RoundInterrupted, EndRun
  <2>24. CASE RunTerminated
    BY <1>2, <2>24 DEF RunTerminated
  <2> QED
    BY <2>1, <2>2, <2>3, <2>4, <2>5, <2>6, <2>7, <2>8, <2>9, <2>10, <2>11, <2>12,
       <2>13, <2>14, <2>15, <2>16, <2>17, <2>18, <2>19, <2>20, <2>21, <2>22, <2>23,
       <2>24 DEF AgentStep
<1> QED
  BY <1>3, <1>4 DEF WakeInv

\* WakeInv is inductive relative to the types when nothing fails hard.
LEMMA WakeStep ==
    ASSUME Faults = {}
    PROVE  TypeOK /\ WakeInv /\ [Next]_vars => WakeInv'
<1> SUFFICES ASSUME TypeOK, WakeInv, [Next]_vars PROVE WakeInv'
  OBVIOUS
<1>1. ASSUME UNCHANGED <<lifecycle, mark, events, send, pc, duty, dutyNotify, inbox, permit>>
      PROVE  WakeInv'
  BY <1>1 DEF WakeInv, NeverParked, NoLostWakeup
<1>2. CASE UNCHANGED vars
  BY <1>1, <1>2 DEF vars, taskVars, bridgeVars, wakeVars, handlerVars
<1>3. CASE AgentStep
  BY <1>3, WakeTaskStep
<1>4. CASE TimeStep
  BY <1>1, <1>4 DEF TimeStep, DeadlinePasses, SleepEnds, taskVars, bridgeVars,
                    wakeVars, handlerVars
<1>5. CASE BridgeStep
  <2>1. /\ events # <<>> /\ events' = Tail(events)
        /\ UNCHANGED <<pc, lifecycle, send, duty, dutyNotify, inbox, permit>>
    BY <1>5 DEF BridgeStep, BridgeBusy, BridgeRetrying, BridgeProgress, BridgeTerminal,
                taskVars, wakeVars, handlerVars
  <2>2. /\ Len(events) \in Nat \ {0} /\ Len(events') = Len(events) - 1
        /\ \A j \in 1..Len(events') : events'[j] = events[j + 1]
        /\ Head(events) = events[1]
    BY <2>1, Popped DEF TypeOK
  <2>3. mark' # "Parked"
    <3>1. Head(events).kind \notin Parking
      BY <2>2 DEF WakeInv, NeverParked, Parking
    <3> QED
      BY <1>5, <3>1 DEF BridgeStep, BridgeBusy, BridgeRetrying, BridgeProgress,
         BridgeTerminal, WakeInv, NeverParked, MarkOf, Terminal, Parking
  <2> QED
    BY <2>1, <2>2, <2>3 DEF WakeInv, NeverParked, NoLostWakeup
<1>6. CASE RequestStep
  <2>1. NeverParked'
    BY <1>6 DEF RequestStep, SetDuty, DutyWake, RespondApproval, ApplyProfile, ResetWake,
       InterruptRead, InterruptAct, CancelLifecycle, BackgroundNotice,
       WakeInv, NeverParked, taskVars, bridgeVars, handlerVars
  <2>2. NoLostWakeup'
    <3> USE DEF WakeInv, NoLostWakeup, taskVars, wakeVars, handlerVars
    <3>1. CASE \E on \in BOOLEAN : SetDuty(on)
      <4>1. CASE SetDuty(TRUE)
        BY <4>1 DEF SetDuty
      <4>2. CASE SetDuty(FALSE)
        BY <4>2 DEF SetDuty
      <4> QED
        BY <3>1, <4>1, <4>2
    <3>2. CASE DutyWake
      BY <3>2 DEF DutyWake
    <3>3. CASE RespondApproval \/ ResetWake
      BY <3>3 DEF RespondApproval, ResetWake
    <3>8. CASE ApplyProfile
      BY <3>8 DEF ApplyProfile
    <3>4. CASE InterruptRead
      BY <3>4 DEF InterruptRead
    <3>5. CASE InterruptAct
      BY <3>5 DEF InterruptAct
    <3>6. CASE CancelLifecycle
      BY <3>6 DEF CancelLifecycle
    <3>7. CASE BackgroundNotice
      BY <3>7 DEF BackgroundNotice
    <3> QED
      BY <1>6, <3>1, <3>2, <3>3, <3>4, <3>5, <3>6, <3>7, <3>8 DEF RequestStep
  <2> QED
    BY <2>1, <2>2 DEF WakeInv
\* A reply is given only on duty with the permit stored, or off duty.
<1>7. CASE \E m \in Senders : DeliverStep(m)
  <2> PICK m \in Senders : DeliverStep(m)
    BY <1>7
  <2> USE DEF TypeOK, HandlerType, WakeInv, NeverParked, NoLostWakeup, Step,
              Replied, Pending, taskVars, bridgeVars, wakeVars
  <2>1. CASE PushInbox(m)
    BY <2>1 DEF PushInbox
  <2>2. CASE CheckDuty(m)
    BY <2>2 DEF CheckDuty
  <2>3. CASE CheckParked(m)
    BY <2>3 DEF CheckParked
  <2>4. CASE SendKick(m)
    BY <2>4 DEF SendKick
  <2>5. CASE NotifyAgent(m)
    BY <2>5 DEF NotifyAgent
  <2> QED
    BY <2>1, <2>2, <2>3, <2>4, <2>5 DEF DeliverStep
<1> QED
  BY <1>2, <1>3, <1>4, <1>5, <1>6, <1>7 DEF Next

\* As long as the provider never fails hard, no message whose handler replied
\* is left behind without a wake-up, in any interleaving of any number of
\* senders, duty changes, interrupts and approvals.
THEOREM WakeupCorrect == ASSUME Faults = {} PROVE Spec => []NoLostWakeup
<1>1. Init => WakeInv
  BY DEF Init, WakeInv, NeverParked, NoLostWakeup
<1>2. WakeInv => NoLostWakeup
  BY DEF WakeInv
<1>3. TypeOK /\ WakeInv /\ [Next]_vars => WakeInv'
  BY WakeStep
<1> QED
  BY <1>1, <1>2, <1>3, TypeCorrect, PTL DEF Spec

\* Only the notify arm consumes the permit, and a task that is never parked then
\* pulls; a run that leaves the top of a round has drained the approvals or
\* goes on to arm the wait fuse of a blocked budget.
LEMMA ApprovalStep ==
    TypeOK /\ NeverParked /\ ApprovalInv /\ [Next]_vars => ApprovalInv'
<1> SUFFICES ASSUME TypeOK, NeverParked, ApprovalInv, [Next]_vars PROVE ApprovalInv'
  OBVIOUS
<1> USE DEF ApprovalInv, taskVars, fuseVars, wakeVars, handlerVars
<1>t. approvals \in Nat /\ deadline \in [Fuses -> {"none", "pending", "passed"}]
  BY DEF TypeOK, WakeType, FuseType
<1>1. CASE UNCHANGED vars
  BY <1>1 DEF vars
<1>2. CASE AgentStep
  <2>1. CASE TakePrompt \/ TakeNotify \/ PullInbox \/ TakeCancel \/ PostRoundDrain
    BY <1>t, <2>1 DEF NeverParked, TakePrompt, TakeNotify, PullInbox, TakeCancel,
                      PostRoundDrain
  <2>2. CASE \E f \in Fuses : TakeFuse(f)
    BY <2>2 DEF TakeFuse
  <2>3. CASE StartRun \/ SendBusy \/ SendProgress \/ SendRetrying \/ NextRound
    BY <2>3 DEF StartRun, SendBusy, SendProgress, SendRetrying, NextRound
  <2>4. CASE \E exceeded \in BOOLEAN : RoundTop(exceeded)
    BY <2>4 DEF RoundTop
  <2>5. CASE BreakWait \/ BudgetExceeded
    BY <1>t, <2>5 DEF BreakWait, BudgetExceeded, EndRun, Arm, Fuses
  <2>6. CASE ChainRetry
    BY <1>t, <2>6 DEF ChainRetry, EndRun, Arm, Fuses
  <2>7. CASE BreakIdle \/ HeartbeatExhausted \/ RoundInterrupted \/ RunTerminated
    BY <2>7 DEF BreakIdle, HeartbeatExhausted, RoundInterrupted, RunTerminated, EndRun
  <2>8. CASE Heartbeat \/ MintNextToken
    BY <2>8 DEF Heartbeat, MintNextToken
  <2>9. CASE ChainPark \/ FatalError \/ MaxRoundsExceeded
    BY <2>9 DEF ChainPark, FatalError, MaxRoundsExceeded, EndRun
  <2> QED
    BY <1>2, <2>1, <2>2, <2>3, <2>4, <2>5, <2>6, <2>7, <2>8, <2>9 DEF AgentStep
<1>3. CASE TimeStep
  <2> PICK f \in Fuses : DeadlinePasses(f) \/ SleepEnds(f)
    BY <1>3 DEF TimeStep
  <2> QED
    BY <1>t DEF DeadlinePasses, SleepEnds, Fuses
<1>4. CASE BridgeStep
  BY <1>4 DEF BridgeStep, BridgeBusy, BridgeRetrying, BridgeProgress, BridgeTerminal
<1>5. CASE RequestStep
  BY <1>5 DEF RequestStep, SetDuty, DutyWake, RespondApproval, ApplyProfile, ResetWake,
     InterruptRead, InterruptAct, CancelLifecycle, BackgroundNotice
<1>6. CASE \E m \in Senders : DeliverStep(m)
  <2> PICK m \in Senders : DeliverStep(m)
    BY <1>6
  <2>1. (permit => permit') /\ UNCHANGED <<approvals, deadline, pc>>
    <3>1. CASE NotifyAgent(m)
      BY <3>1 DEF NotifyAgent, TypeOK, FlagType
    <3>2. CASE ~NotifyAgent(m)
      BY <3>2 DEF DeliverStep, PushInbox, CheckDuty, CheckParked, SendKick
    <3> QED
      BY <3>1, <3>2
  <2> QED
    BY <2>1
<1> QED
  BY <1>1, <1>2, <1>3, <1>4, <1>5, <1>6 DEF Next

\* As long as the provider never fails hard, an approval decided by the operator
\* is never stranded: whatever runs, interrupts, duty changes and budget stops
\* come between, a task in its select loop that has not drained it still has a
\* permit or the wait fuse to bring it back.
THEOREM ApprovalCorrect == ASSUME Faults = {} PROVE Spec => []ApprovalHasWake
<1>1. Init => ApprovalInv /\ WakeInv
  BY DEF Init, ApprovalInv, WakeInv, NeverParked, NoLostWakeup
<1>2. ApprovalInv => ApprovalHasWake
  BY DEF ApprovalInv, ApprovalHasWake
<1>3. TypeOK /\ WakeInv /\ [Next]_vars => WakeInv'
  BY WakeStep
<1>4. TypeOK /\ WakeInv /\ ApprovalInv /\ [Next]_vars => ApprovalInv'
  BY ApprovalStep DEF WakeInv
<1> QED
  BY <1>1, <1>2, <1>3, <1>4, TypeCorrect, PTL DEF Spec

====
