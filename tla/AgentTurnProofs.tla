--------------------------- MODULE AgentTurnProofs ---------------------------
(***************************************************************************)
(* Proofs about AgentTurn, for every set of options, every choice of the    *)
(* operations that clients call and every bound.                            *)
(***************************************************************************)
EXTENDS AgentTurn, SequenceTheorems, TLAPS

-----------------------------------------------------------------------------
(* Types *)

\* The worker is inside handle_request exactly while the gate is pending, and
\* then it knows which permission it asks for; a worker that waits for a response
\* waits for that of a command.
HandlerInv ==
    /\ gate.pending <=> worker \in {"asked", "wait", "parked", "finish"}
    /\ gate.pending \/ worker = "respond" => asking \in Permissions
    /\ worker = "turn" \/ worker = "respond" \/ gate.pending => serving \in {"prompt", "mode"}

TurnTypeInv == TypeOK /\ HandlerInv

LEMMA EventTypes ==
    /\ \A p \in Permissions : [kind |-> "permission", id |-> p] \in AgentEvent
    /\ [kind |-> "turn_ended"] \in AgentEvent
    /\ [kind |-> "failed"] \in AgentEvent
    /\ [kind |-> "exited"] \in AgentEvent
BY DEF AgentEvent

LEMMA TurnTypeInit == Init => TurnTypeInv
<1> SUFFICES ASSUME Init PROVE TurnTypeInv
    OBVIOUS
<1>1. MaxPermissions \in Nat
    BY TurnAssumption
<1>2. batch \in Seq(AgentEvent) /\ evq \in Seq(AgentEvent) /\ cmds \in Seq({"prompt", "mode"})
    BY EmptySeq DEF Init
<1>3. FlagTypes
    BY DEF Init, FlagTypes
<1>4. GateType /\ HandlerInv
    BY DEF Init, GateType, HandlerInv, ClosedGate
<1>5. ControlTypes /\ HistoryTypes
    BY <1>1 DEF Init, ControlTypes, HistoryTypes, Answers, Permissions
<1>6. QED
    BY <1>2, <1>3, <1>4, <1>5 DEF TurnTypeInv, TypeOK, ChannelTypes

\* The end of a request keeps the types: it leaves the handler.
LEMMA SettleType ==
    ASSUME TurnTypeInv, worker \in {"turn", "respond"}, NEW e \in AgentEvent, Settle(e)
    PROVE  TurnTypeInv'
<1> USE DEF TurnTypeInv, TypeOK
<1>1. evq' \in Seq(AgentEvent)
    <2>1. Append(evq, e) \in Seq(AgentEvent)
        BY AppendProperties DEF ChannelTypes
    <2>2. QED
        BY <2>1 DEF ChannelTypes, Settle, Emit
<1>2. FlagTypes'
    BY DEF FlagTypes, Settle, managerVars
<1>3. GateType' /\ HandlerInv'
    BY DEF GateType, HandlerInv, Settle
<1>4. ChannelTypes'
    BY <1>1 DEF ChannelTypes, Settle, managerVars
<1>5. ControlTypes' /\ HistoryTypes'
    BY TurnAssumption DEF ControlTypes, HistoryTypes, Settle, managerVars, clientVars, Answers
<1>6. QED
    BY <1>2, <1>3, <1>4, <1>5

LEMMA TurnTypeStep == TurnTypeInv /\ [Next]_vars => TurnTypeInv'
<1> SUFFICES ASSUME TurnTypeInv, [Next]_vars PROVE TurnTypeInv'
    OBVIOUS
<1> USE TurnAssumption DEF TurnTypeInv, TypeOK, Answers, Permissions, managerVars, sharedVars,
                        workerVars, clientVars
<1>1. CASE SendInput
    BY <1>1, AppendProperties
    DEF SendInput, Enter, FlagTypes, GateType, ChannelTypes, ControlTypes, HistoryTypes,
        HandlerInv
<1>2. CASE Cancel
    <2>1. FlagTypes'
        BY <1>2 DEF FlagTypes, Cancel, Enter, GateCancel, Woken
    <2>2. GateType' /\ HandlerInv'
        BY <1>2 DEF GateType, HandlerInv, Cancel, Enter, GateCancel, Woken
    <2>3. ChannelTypes'
        BY <1>2 DEF ChannelTypes, Cancel, Enter, GateCancel, Woken
    <2>4. ControlTypes' /\ HistoryTypes'
        BY <1>2 DEF ControlTypes, HistoryTypes, HandlerInv, Cancel, Enter, GateCancel, Woken
    <2>5. QED
        BY <2>1, <2>2, <2>3, <2>4
<1>3. CASE \E o \in Options : RespondPermission(o)
    <2>1. FlagTypes'
        BY <1>3 DEF FlagTypes, RespondPermission, Enter, GateDecide, Woken
    <2>2. GateType' /\ HandlerInv'
        BY <1>3 DEF GateType, HandlerInv, RespondPermission, Enter, GateDecide, Woken
    <2>3. ChannelTypes'
        BY <1>3 DEF ChannelTypes, RespondPermission, Enter, GateDecide, Woken
    <2>4. ControlTypes' /\ HistoryTypes'
        BY <1>3 DEF ControlTypes, HistoryTypes, RespondPermission, Enter, GateDecide, Woken
    <2>5. QED
        BY <2>1, <2>2, <2>3, <2>4
<1>4. CASE SetMode
    BY <1>4, AppendProperties
    DEF SetMode, Enter, FlagTypes, GateType, ChannelTypes, ControlTypes, HistoryTypes,
        HandlerInv
<1>5. CASE SetModeReturn
    <2>1. FlagTypes'
        BY <1>5 DEF FlagTypes, SetModeReturn
    <2>2. GateType' /\ HandlerInv'
        BY <1>5 DEF GateType, HandlerInv, SetModeReturn
    <2>3. ChannelTypes'
        BY <1>5 DEF ChannelTypes, SetModeReturn
    <2>4. ControlTypes' /\ HistoryTypes'
        BY <1>5 DEF ControlTypes, HistoryTypes, SetModeReturn
    <2>5. QED
        BY <2>1, <2>2, <2>3, <2>4
<1>6. CASE Pump
    BY <1>6
    DEF Pump, FlagTypes, GateType, ChannelTypes, ControlTypes, HistoryTypes, HandlerInv
<1>7. CASE Drain
    BY <1>7, EmptySeq
    DEF Drain, FlagTypes, GateType, ChannelTypes, ControlTypes, HistoryTypes, HandlerInv
<1>8. CASE CheckRunning
    BY <1>8
    DEF CheckRunning, FlagTypes, GateType, ChannelTypes, ControlTypes, HistoryTypes,
        HandlerInv
<1>9. CASE ApplyAgentEvent
    <2>1. /\ Head(batch) \in AgentEvent
          /\ Head(batch).kind = "permission" => Head(batch).id \in Permissions
        BY <1>9, HeadTailProperties DEF ApplyAgentEvent, ChannelTypes, AgentEvent
    <2>2. FlagTypes'
        BY <1>9
        DEF FlagTypes, ApplyAgentEvent, ApplyPermissionRequest, ApplyTurnEnded,
            ApplyFailed, ApplyExited
    <2>3. ChannelTypes'
        BY <1>9, HeadTailProperties DEF ChannelTypes, ApplyAgentEvent
    <2>4. GateType' /\ HandlerInv' /\ HistoryTypes'
        BY <1>9
        DEF GateType, HandlerInv, HistoryTypes, ApplyAgentEvent
    <2>5. status' \in {"idle", "waiting_permission", "exited", "failed"} /\ exits' \in Nat
        BY <1>9 DEF ControlTypes, ApplyAgentEvent, ApplyPermissionRequest, ApplyTurnEnded,
                    ApplyFailed, ApplyExited
    <2>6. pending' \in 0..MaxPermissions
        BY <1>9, <2>1
        DEF ControlTypes, ApplyAgentEvent, ApplyPermissionRequest, ApplyTurnEnded, ApplyFailed,
            ApplyExited
    <2>7. ControlTypes'
        BY <1>9, <2>5, <2>6 DEF ControlTypes, ApplyAgentEvent
    <2>8. QED
        BY <2>2, <2>3, <2>4, <2>7
<1>10. CASE EnsureExited
    <2>1. FlagTypes'
        BY <1>10 DEF FlagTypes, EnsureExited
    <2>2. GateType' /\ HandlerInv'
        BY <1>10 DEF GateType, HandlerInv, EnsureExited
    <2>3. ChannelTypes'
        BY <1>10 DEF ChannelTypes, EnsureExited
    <2>4. ControlTypes' /\ HistoryTypes'
        BY <1>10 DEF ControlTypes, HistoryTypes, EnsureExited
    <2>5. QED
        BY <2>1, <2>2, <2>3, <2>4
<1>11. CASE WorkerReceive
    BY <1>11, HeadTailProperties
    DEF WorkerReceive, FlagTypes, GateType, ChannelTypes, ControlTypes, HistoryTypes,
        HandlerInv
<1>12. CASE PermissionBegin
    <2>1. GateType' /\ gate'.pending
        BY <1>12 DEF GateType, PermissionBegin
    <2>2. asking' \in Permissions /\ asked' \in 0..MaxPermissions
        BY <1>12 DEF ControlTypes, PermissionBegin
    <2>3. HandlerInv'
        BY <1>12, <2>1, <2>2 DEF HandlerInv, PermissionBegin
    <2>4. FlagTypes' /\ ChannelTypes' /\ HistoryTypes'
        BY <1>12
        DEF FlagTypes, ChannelTypes, HistoryTypes, PermissionBegin
    <2>5. ControlTypes'
        BY <1>12, <2>2 DEF ControlTypes, PermissionBegin
    <2>6. QED
        BY <2>1, <2>3, <2>4, <2>5
<1>13. CASE PermissionEmit
    BY <1>13, AppendProperties, EventTypes
    DEF PermissionEmit, Emit, FlagTypes, GateType, ChannelTypes, ControlTypes,
        HistoryTypes, HandlerInv
<1>14. CASE GateWait
    <2>1. FlagTypes'
        BY <1>14 DEF FlagTypes, GateWait
    <2>2. GateType' /\ HandlerInv'
        BY <1>14 DEF GateType, HandlerInv, GateWait
    <2>3. ChannelTypes'
        BY <1>14 DEF ChannelTypes, GateWait
    <2>4. ControlTypes' /\ HistoryTypes'
        BY <1>14 DEF ControlTypes, HistoryTypes, GateType, GateWait
    <2>5. QED
        BY <2>1, <2>2, <2>3, <2>4
<1>15. CASE GateFinish
    BY <1>15
    DEF GateFinish, ClosedGate, FlagTypes, GateType, ChannelTypes, ControlTypes,
        HistoryTypes, HandlerInv
<1>16. CASE PermissionRespond
    BY <1>16
    DEF PermissionRespond, FlagTypes, GateType, ChannelTypes, ControlTypes,
        HistoryTypes, HandlerInv
<1>17. CASE AgentAnswers
    BY <1>17, EventTypes, SettleType DEF AgentAnswers
<1>18. CASE WriteFails
    BY <1>18, EventTypes, SettleType DEF WriteFails
<1>19. CASE StreamClosed
    <2>1. evq' \in Seq(AgentEvent)
        <3>1. Append(evq, [kind |-> "exited"]) \in Seq(AgentEvent)
            BY EventTypes, AppendProperties DEF ChannelTypes
        <3>2. QED
            BY <1>19, <3>1 DEF ChannelTypes, StreamClosed, Emit
    <2>2. FlagTypes'
        BY <1>19 DEF FlagTypes, StreamClosed
    <2>3. GateType' /\ HandlerInv'
        BY <1>19 DEF GateType, HandlerInv, StreamClosed
    <2>4. ChannelTypes' /\ ControlTypes' /\ HistoryTypes'
        BY <1>19, <2>1
        DEF ChannelTypes, ControlTypes, HistoryTypes, StreamClosed
    <2>5. QED
        BY <2>2, <2>3, <2>4
<1>20. CASE WorkerStops
    <2>1. FlagTypes'
        BY <1>20 DEF FlagTypes, WorkerStops
    <2>2. GateType' /\ HandlerInv'
        BY <1>20 DEF GateType, HandlerInv, WorkerStops
    <2>3. ChannelTypes'
        BY <1>20 DEF ChannelTypes, WorkerStops
    <2>4. ControlTypes' /\ HistoryTypes'
        BY <1>20 DEF ControlTypes, HistoryTypes, WorkerStops
    <2>5. QED
        BY <2>1, <2>2, <2>3, <2>4
<1>21. CASE AgentDies
    BY <1>21
    DEF AgentDies, FlagTypes, GateType, ChannelTypes, ControlTypes, HistoryTypes,
        HandlerInv
<1>22. CASE UNCHANGED vars
    BY <1>22
    DEF vars, FlagTypes, GateType, ChannelTypes, ControlTypes, HistoryTypes, HandlerInv
<1>23. QED
    BY <1>1, <1>2, <1>3, <1>4, <1>5, <1>6, <1>7, <1>8, <1>9, <1>10, <1>11,
       <1>12, <1>13, <1>14, <1>15, <1>16, <1>17, <1>18, <1>19, <1>20, <1>21, <1>22
       DEF Next, Client, Manager, Worker, Agent

\* Every state of the manager, the gate and the worker is well typed.
THEOREM TurnTypeCorrect == Spec => []TypeOK
<1>1. TurnTypeInv => TypeOK
    BY DEF TurnTypeInv
<1>2. QED
    BY TurnTypeInit, TurnTypeStep, <1>1, PTL DEF Spec

-----------------------------------------------------------------------------
(* The scope of a cancel *)

\* Where a cancel can be on its way from the gate to the agent: in the gate while
\* its permission is open, and in the handler until the response is written.
CancelInv ==
    /\ gate.cancelled => gate.pending /\ asking \in cancelHit
    /\ outcome = Cancelled => worker \in {"finish", "respond"} /\ asking \in cancelHit
    /\ CancelScoped

LEMMA CancelInvInit == Init => CancelInv
<1> SUFFICES ASSUME Init PROVE CancelInv
    OBVIOUS
<1>1. NoOption # Cancelled
    BY DEF NoOption, Cancelled
<1>2. ~gate.cancelled /\ outcome = NoOption
    BY DEF Init, ClosedGate
<1>3. \A p \in Permissions : answer[p] = NoOption
    BY DEF Init
<1>4. QED
    BY <1>1, <1>2, <1>3 DEF CancelInv, CancelScoped

LEMMA SettleCancel ==
    ASSUME TurnTypeInv, CancelInv, worker \in {"turn", "respond"}, NEW e, Settle(e)
    PROVE  CancelInv'
<1>1. ~gate.cancelled /\ gate' = gate
    BY DEF TurnTypeInv, HandlerInv, CancelInv, Settle
<1>2. outcome' # Cancelled
    BY DEF Settle, NoOption, Cancelled
<1>3. answer' = answer /\ cancelHit' = cancelHit
    BY DEF Settle, clientVars
<1>4. QED
    BY <1>1, <1>2, <1>3 DEF CancelInv, CancelScoped

LEMMA CancelInvStep == TurnTypeInv /\ CancelInv /\ [Next]_vars => CancelInv'
<1> SUFFICES ASSUME TurnTypeInv, CancelInv, [Next]_vars PROVE CancelInv'
    OBVIOUS
<1> USE DEF TurnTypeInv, CancelInv, CancelScoped
<1>1. CASE UNCHANGED <<gate, asking, outcome, worker, answer, cancelHit>>
    BY <1>1
<1>2. CASE SendInput \/ SetMode \/ SetModeReturn \/ Pump \/ Drain \/ CheckRunning
           \/ ApplyAgentEvent \/ EnsureExited \/ AgentDies \/ UNCHANGED vars
    BY <1>1, <1>2 DEF SendInput, SetMode, SetModeReturn, Pump, Drain, CheckRunning,
                      ApplyAgentEvent, EnsureExited, AgentDies, vars, sharedVars, workerVars,
                      clientVars
<1>3. CASE Cancel
    <2>1. CASE gate.pending
        <3>1. gate'.pending /\ asking' = asking /\ outcome' = outcome /\ answer' = answer
            BY <1>3, <2>1 DEF Cancel, GateCancel, TypeOK, GateType
        <3>2. asking \in cancelHit' /\ cancelHit \subseteq cancelHit'
            BY <1>3, <2>1 DEF Cancel
        <3>3. worker \in {"finish", "respond"} => worker' = worker
            BY <1>3, <2>1 DEF Cancel, GateCancel, Woken
        <3>4. QED
            BY <3>1, <3>2, <3>3
    <2>2. CASE ~gate.pending
        BY <1>1, <1>3, <2>2 DEF Cancel, GateCancel
    <2>3. QED
        BY <2>1, <2>2
<1>4. CASE \E o \in Options : RespondPermission(o)
    <2>1. gate'.pending = gate.pending /\ gate'.cancelled = gate.cancelled
        BY <1>4 DEF RespondPermission, GateDecide, TypeOK, GateType
    <2>2. worker \in {"finish", "respond"} => worker' = worker
        BY <1>4 DEF RespondPermission, GateDecide, Woken
    <2>3. UNCHANGED <<asking, outcome, answer, cancelHit>>
        BY <1>4 DEF RespondPermission
    <2>4. QED
        BY <2>1, <2>2, <2>3
<1>5. CASE WorkerReceive \/ PermissionEmit \/ StreamClosed \/ WorkerStops
    BY <1>5 DEF WorkerReceive, PermissionEmit, StreamClosed, WorkerStops, clientVars
<1>6. CASE PermissionBegin
    <2>1. ~gate.cancelled /\ outcome # Cancelled
        BY <1>6 DEF PermissionBegin, HandlerInv
    <2>2. ~gate'.cancelled /\ outcome' # Cancelled /\ answer' = answer /\ cancelHit' = cancelHit
        BY <1>6, <2>1 DEF PermissionBegin, clientVars, TypeOK, GateType
    <2>3. QED
        BY <2>2
<1>7. CASE GateWait
    <2>1. UNCHANGED <<asking, answer, cancelHit>>
        BY <1>7 DEF GateWait, clientVars
    <2>2. gate'.pending = gate.pending /\ gate'.cancelled = gate.cancelled
        BY <1>7 DEF GateWait, TypeOK, GateType
    <2>3. outcome' = Cancelled => worker' = "finish" /\ gate.cancelled
        BY <1>7, TurnAssumption DEF GateWait, TypeOK, GateType
    <2>4. QED
        BY <2>1, <2>2, <2>3
<1>8. CASE GateFinish
    BY <1>8 DEF GateFinish, ClosedGate, clientVars
<1>9. CASE PermissionRespond
    <2>1. ~gate.cancelled /\ gate' = gate
        BY <1>9 DEF PermissionRespond, HandlerInv, sharedVars
    <2>2. outcome' # Cancelled /\ cancelHit' = cancelHit
        BY <1>9 DEF PermissionRespond, clientVars, NoOption, Cancelled
    <2>3. ASSUME NEW p \in Permissions, answer'[p] = Cancelled PROVE p \in cancelHit
        BY <1>9, <2>3 DEF PermissionRespond, TypeOK, HistoryTypes
    <2>4. QED
        BY <2>1, <2>2, <2>3
<1>10. CASE AgentAnswers \/ WriteFails
    BY <1>10, SettleCancel DEF AgentAnswers, WriteFails
<1>11. QED
    BY <1>2, <1>3, <1>4, <1>5, <1>6, <1>7, <1>8, <1>9, <1>10
    DEF Next, Client, Manager, Worker, Agent

\* A cancel settles the permission that is open when it comes and never one that
\* the agent asks for later.
THEOREM CancelHitsOnlyOpen == Spec => []CancelScoped
<1>1. CancelInv => CancelScoped
    BY DEF CancelInv
<1>2. QED
    BY TurnTypeInit, TurnTypeStep, CancelInvInit, CancelInvStep, <1>1, PTL DEF Spec

-----------------------------------------------------------------------------
(* The end of a session *)

Gone == worker \in {"exited", "stopped"}

\* Whatever can make the manager give the session up (an Exited event on its way,
\* the flag, what pump_all remembers of the flag) exists only once the worker is
\* past its last command.
ExitInv ==
    /\ DeadOnlyWhenGone
    /\ ~alive \/ ~running => Gone
    /\ \A i \in 1..Len(evq) : evq[i].kind = "exited" => Gone
    /\ \A i \in 1..Len(batch) : batch[i].kind = "exited" => Gone

LEMMA ExitInvInit == Init => ExitInv
<1> SUFFICES ASSUME Init PROVE ExitInv
    OBVIOUS
<1>1. Len(evq) = 0 /\ Len(batch) = 0
    BY EmptySeq DEF Init
<1>2. QED
    BY <1>1 DEF Init, ExitInv, DeadOnlyWhenGone

\* No step brings a worker back.
LEMMA GoneStays == Gone /\ [Next]_vars => Gone'
<1> SUFFICES ASSUME Gone, [Next]_vars PROVE Gone'
    OBVIOUS
<1> USE DEF Gone
<1>1. CASE Client
    BY <1>1 DEF Client, SendInput, Cancel, RespondPermission, SetMode, GateCancel, GateDecide,
                Woken, workerVars
<1>2. CASE Pump \/ Manager
    BY <1>2 DEF Pump, Manager, Drain, CheckRunning, ApplyAgentEvent, EnsureExited,
                SetModeReturn, workerVars
<1>3. CASE Worker
    BY <1>3 DEF Worker, WorkerReceive, PermissionEmit, GateWait, GateFinish, PermissionRespond,
                WorkerStops
<1>4. CASE Agent
    BY <1>4 DEF Agent, PermissionBegin, AgentAnswers, WriteFails, StreamClosed, AgentDies,
                workerVars
<1>5. QED
    BY <1>1, <1>2, <1>3, <1>4 DEF Next, vars, workerVars

\* An event that is no exit, or the last event of a worker, may be sent.
LEMMA EmitExit ==
    ASSUME ChannelTypes, NEW e \in AgentEvent, Emit(e),
           \A i \in 1..Len(evq) : evq[i].kind = "exited" => Gone',
           e.kind = "exited" => Gone'
    PROVE  \A i \in 1..Len(evq') : evq'[i].kind = "exited" => Gone'
<1>1. /\ Len(evq') = Len(evq) + 1 /\ Len(evq) \in Nat
      /\ \A i \in 1..Len(evq) : evq'[i] = evq[i]
      /\ evq'[Len(evq) + 1] = e
    BY AppendProperties, LenProperties DEF ChannelTypes, Emit
<1>2. \A i \in 1..Len(evq') : i \in 1..Len(evq) \/ i = Len(evq) + 1
    BY <1>1
<1>3. QED
    BY <1>1, <1>2

LEMMA ExitInvStep == TurnTypeInv /\ ExitInv /\ [Next]_vars => ExitInv'
<1> SUFFICES ASSUME TurnTypeInv, ExitInv, [Next]_vars PROVE ExitInv'
    OBVIOUS
<1> USE DEF TurnTypeInv, TypeOK
<1>0. /\ ~mrunning \/ ~alive \/ ~running => Gone'
      /\ \A i \in 1..Len(evq) : evq[i].kind = "exited" => Gone'
      /\ \A i \in 1..Len(batch) : batch[i].kind = "exited" => Gone'
    BY GoneStays DEF ExitInv, DeadOnlyWhenGone, Gone
<1>1. CASE UNCHANGED <<mrunning, alive, running, evq, batch>>
    BY <1>0, <1>1 DEF ExitInv, DeadOnlyWhenGone, Gone
<1>2. CASE SendInput \/ Cancel \/ (\E o \in Options : RespondPermission(o)) \/ SetMode
           \/ SetModeReturn \/ Pump \/ AgentDies \/ UNCHANGED vars
    BY <1>1, <1>2 DEF SendInput, Cancel, RespondPermission, SetMode, SetModeReturn, Pump,
                      AgentDies, vars, managerVars, sharedVars
<1>3. CASE WorkerReceive \/ PermissionBegin \/ GateWait \/ GateFinish \/ PermissionRespond
    BY <1>1, <1>3 DEF WorkerReceive, PermissionBegin, GateWait, GateFinish, PermissionRespond,
                      managerVars, sharedVars
<1>4. CASE Drain
    <2>1. Len(evq') = 0 /\ batch' = evq
        BY <1>4, EmptySeq DEF Drain
    <2>2. UNCHANGED <<mrunning, alive, running>>
        BY <1>4 DEF Drain
    <2>3. QED
        BY <1>0, <2>1, <2>2 DEF ExitInv, DeadOnlyWhenGone, Gone
<1>5. CASE CheckRunning
    <2>1. UNCHANGED <<mrunning, running, evq, batch>> /\ alive' = running
        BY <1>5 DEF CheckRunning, sharedVars
    <2>2. QED
        BY <1>0, <2>1 DEF ExitInv, DeadOnlyWhenGone, Gone
<1>6. CASE ApplyAgentEvent
    <2>1. /\ Len(batch') = Len(batch) - 1 /\ Len(batch) \in Nat /\ Len(batch) >= 1
          /\ \A i \in 1..Len(batch') : batch'[i] = batch[i + 1]
          /\ Head(batch) = batch[1]
        BY <1>6, HeadTailProperties, LenProperties DEF ApplyAgentEvent, ChannelTypes
    <2>2. \A i \in 1..Len(batch') : i + 1 \in 1..Len(batch)
        BY <2>1
    <2>3. \A i \in 1..Len(batch') : batch'[i].kind = "exited" => Gone'
        BY <1>0, <2>1, <2>2
    <2>4. mrunning' = mrunning \/ Head(batch).kind = "exited"
        BY <1>6 DEF ApplyAgentEvent, ApplyPermissionRequest, ApplyTurnEnded, ApplyFailed,
                    ApplyExited
    <2>5. 1 \in 1..Len(batch)
        BY <2>1
    <2>6. ~mrunning' => Gone'
        BY <1>0, <2>1, <2>4, <2>5
    <2>7. UNCHANGED <<alive, running, evq>>
        BY <1>6 DEF ApplyAgentEvent, sharedVars
    <2>8. QED
        BY <1>0, <2>3, <2>6, <2>7 DEF ExitInv, DeadOnlyWhenGone, Gone
<1>7. CASE EnsureExited
    <2>1. UNCHANGED <<alive, running, evq, batch>> /\ (mrunning' = mrunning \/ ~alive)
        BY <1>7 DEF EnsureExited, sharedVars
    <2>2. QED
        BY <1>0, <2>1 DEF ExitInv, DeadOnlyWhenGone, Gone
<1>8. CASE WorkerStops
    <2>1. Gone'
        BY <1>8 DEF WorkerStops, Gone
    <2>2. UNCHANGED <<mrunning, alive, evq, batch>>
        BY <1>8 DEF WorkerStops, managerVars
    <2>3. QED
        BY <2>1, <2>2 DEF ExitInv, DeadOnlyWhenGone, Gone
<1>9. CASE PermissionEmit \/ AgentAnswers \/ WriteFails \/ StreamClosed
    <2>1. UNCHANGED <<mrunning, alive, running, batch>>
        BY <1>9 DEF PermissionEmit, AgentAnswers, WriteFails, StreamClosed, Settle, managerVars
    <2>2. \/ evq' = evq
          \/ \E e \in AgentEvent : Emit(e) /\ (e.kind = "exited" => Gone')
        <3>1. CASE PermissionEmit
            <4>1. asking \in Permissions
                BY <3>1 DEF PermissionEmit, HandlerInv
            <4>2. QED
                BY <3>1, <4>1, EventTypes DEF PermissionEmit
        <3>2. CASE AgentAnswers \/ WriteFails
            BY <3>2, EventTypes DEF AgentAnswers, WriteFails, Settle
        <3>3. CASE StreamClosed
            BY <3>3, EventTypes DEF StreamClosed, Gone
        <3>4. QED
            BY <1>9, <3>1, <3>2, <3>3
    <2>3. \A i \in 1..Len(evq') : evq'[i].kind = "exited" => Gone'
        BY <1>0, <2>2, EmitExit
    <2>4. QED
        BY <1>0, <2>1, <2>3 DEF ExitInv, DeadOnlyWhenGone, Gone
<1>10. QED
    BY <1>2, <1>3, <1>4, <1>5, <1>6, <1>7, <1>8, <1>9
    DEF Next, Client, Manager, Worker, Agent

\* The manager never gives up a session whose worker can still do something.
THEOREM NeverGivenUpEarly == Spec => []DeadOnlyWhenGone
<1>1. ExitInv => DeadOnlyWhenGone
    BY DEF ExitInv
<1>2. QED
    BY TurnTypeInit, TurnTypeStep, ExitInvInit, ExitInvStep, <1>1, PTL DEF Spec

-----------------------------------------------------------------------------
(* A session that waits has something to answer *)

LEMMA WaitingStep == TurnTypeInv /\ WaitingHasPending /\ [Next]_vars => WaitingHasPending'
<1> SUFFICES ASSUME TurnTypeInv, WaitingHasPending, [Next]_vars PROVE WaitingHasPending'
    OBVIOUS
<1> USE DEF WaitingHasPending
<1>1. CASE UNCHANGED <<status, pending>>
    BY <1>1
<1>2. CASE Client
    BY <1>2 DEF Client, SendInput, Cancel, RespondPermission, SetMode, managerVars
<1>3. CASE ApplyAgentEvent
    <2>1. Head(batch).kind = "permission" => Head(batch).id \in Permissions
        BY <1>3, HeadTailProperties DEF ApplyAgentEvent, TurnTypeInv, TypeOK, ChannelTypes,
                                        AgentEvent
    <2>2. \A p \in Permissions : p # 0
        BY TurnAssumption DEF Permissions
    <2>3. QED
        BY <1>3, <2>1, <2>2 DEF ApplyAgentEvent, ApplyPermissionRequest, ApplyTurnEnded,
                                ApplyFailed, ApplyExited
<1>4. CASE EnsureExited
    BY <1>4 DEF EnsureExited
<1>5. CASE SetModeReturn \/ Pump \/ Drain \/ CheckRunning \/ Worker \/ Agent \/ UNCHANGED vars
    BY <1>1, <1>5 DEF SetModeReturn, Pump, Drain, CheckRunning, Worker, Agent, WorkerReceive,
        PermissionEmit, GateWait, GateFinish, PermissionRespond, WorkerStops, PermissionBegin,
        AgentAnswers, WriteFails, StreamClosed, AgentDies, Settle, vars, managerVars
<1>6. QED
    BY <1>2, <1>3, <1>4, <1>5 DEF Next, Manager

\* Whatever the worker, the agent, the pump and the clients do, a session is not
\* shown as waiting for a permission that nobody can answer.
THEOREM WaitingCanBeAnswered == Spec => []WaitingHasPending
<1>1. Init => WaitingHasPending
    BY DEF Init, WaitingHasPending
<1>2. QED
    BY <1>1, TurnTypeInit, TurnTypeStep, WaitingStep, PTL DEF Spec

-----------------------------------------------------------------------------
(* Manager and gate in step, until a cancel meets an open permission *)

\* The permission requests on their way in a channel.
Asks(q) == {i \in 1..Len(q) : q[i].kind = "permission"}

\* A request is in one place at a time: the event channel, the batch of pump_all,
\* or pending_permission.
OfferedOnce ==
    /\ \A i, j \in Asks(evq) : i = j
    /\ \A i, j \in Asks(batch) : i = j
    /\ Asks(evq) = {} \/ Asks(batch) = {}
    /\ pending # 0 => Asks(evq) = {} /\ Asks(batch) = {}

\* It is the one the worker waits for, and nobody has decided it.
OfferedOpen ==
    /\ pending # 0 => pending = asking
    /\ \A i \in Asks(evq) : evq[i].id = asking
    /\ \A i \in Asks(batch) : batch[i].id = asking
    /\ pending # 0 \/ Asks(evq) # {} \/ Asks(batch) # {} =>
          worker \in {"wait", "parked"} /\ gate.decision = NoOption

\* A decision on its way from the gate to the agent is what clients were told.
DecisionShown ==
    /\ gate.decision # NoOption => worker = "wait" /\ gate.decision = resolved[asking]
    /\ worker \in {"finish", "respond"} => outcome = resolved[asking] /\ outcome # NoOption

\* And so is what the agent has been told; it is told once.
AgentTold ==
    /\ \A p \in Permissions : answer[p] # NoOption => answer[p] = resolved[p]
    /\ gate.pending \/ worker = "respond" => answer[asking] = NoOption
    /\ \A p \in Permissions : p > asked => answer[p] = NoOption
    /\ asking <= asked

InStep == OfferedOnce /\ OfferedOpen /\ DecisionShown /\ AgentTold

InStepInv == cancelHit = {} => InStep

LEMMA InStepInit == Init => InStepInv
<1> SUFFICES ASSUME Init PROVE InStep
    BY DEF InStepInv
<1>1. Len(evq) = 0 /\ Len(batch) = 0
    BY EmptySeq DEF Init
<1>2. Asks(evq) = {} /\ Asks(batch) = {}
    BY <1>1 DEF Asks
<1>3. \A p \in Permissions : answer[p] = NoOption
    BY DEF Init
<1>4. QED
    BY <1>2, <1>3 DEF Init, ClosedGate, InStep, OfferedOnce, OfferedOpen, DecisionShown, AgentTold

\* What sending an event does to the requests on their way.
LEMMA AsksAppend ==
    ASSUME NEW q \in Seq(AgentEvent), NEW e \in AgentEvent
    PROVE  /\ e.kind # "permission" => Asks(Append(q, e)) = Asks(q)
           /\ e.kind = "permission" => Asks(Append(q, e)) = Asks(q) \cup {Len(q) + 1}
           /\ \A i \in Asks(q) : Append(q, e)[i] = q[i]
           /\ Append(q, e)[Len(q) + 1] = e
<1>1. /\ Len(Append(q, e)) = Len(q) + 1 /\ Len(q) \in Nat
      /\ \A i \in 1..Len(q) : Append(q, e)[i] = q[i]
      /\ Append(q, e)[Len(q) + 1] = e
    BY AppendProperties, LenProperties
<1>2. 1..Len(Append(q, e)) = 1..Len(q) \cup {Len(q) + 1}
    BY <1>1
<1>3. QED
    BY <1>1, <1>2 DEF Asks

\* What taking the first event does to them.
LEMMA AsksTail ==
    ASSUME NEW q \in Seq(AgentEvent), q # <<>>
    PROVE  /\ Head(q) = q[1]
           /\ Head(q).kind = "permission" <=> 1 \in Asks(q)
           /\ \A i \in Asks(Tail(q)) : i + 1 \in Asks(q) /\ Tail(q)[i] = q[i + 1]
           /\ \A i \in Asks(Tail(q)) : i \in Nat /\ i >= 1
<1>1. /\ Len(Tail(q)) = Len(q) - 1 /\ Len(q) \in Nat /\ Len(q) >= 1
      /\ \A i \in 1..Len(Tail(q)) : Tail(q)[i] = q[i + 1]
      /\ Head(q) = q[1]
    BY HeadTailProperties, LenProperties
<1>2. \A i \in 1..Len(Tail(q)) : i \in Nat /\ i >= 1 /\ i + 1 \in 1..Len(q)
    BY <1>1
<1>3. QED
    BY <1>1, <1>2 DEF Asks

\* The worker reports a request's end: no permission is open then.
LEMMA SettleInStep ==
    ASSUME TurnTypeInv, InStep, worker \in {"turn", "respond"},
           NEW e \in AgentEvent, e.kind # "permission", Settle(e)
    PROVE  InStep'
<1>1. pending = 0 /\ Asks(evq) = {} /\ Asks(batch) = {} /\ gate.decision = NoOption
    BY DEF InStep, OfferedOpen, DecisionShown
<1>2. Asks(evq') = {}
    <2>1. evq' = evq \/ evq' = Append(evq, e)
        BY DEF Settle, Emit
    <2>2. Asks(Append(evq, e)) = {}
        BY <1>1, AsksAppend DEF TurnTypeInv, TypeOK, ChannelTypes
    <2>3. QED
        BY <1>1, <2>1, <2>2
<1>3. /\ UNCHANGED <<pending, batch, gate, asked, answer, resolved>>
      /\ worker' = "recv" /\ asking' = 0
    BY DEF Settle, managerVars, clientVars
<1>4. asked \in Nat /\ ~gate.pending
    BY TurnAssumption DEF TurnTypeInv, TypeOK, ControlTypes, HandlerInv
<1>5. QED
    BY <1>1, <1>2, <1>3, <1>4 DEF InStep, OfferedOnce, OfferedOpen, DecisionShown, AgentTold

LEMMA InStepStep ==
    TurnTypeInv /\ CancelInv /\ InStepInv /\ [Next]_vars => InStepInv'
<1> SUFFICES ASSUME TurnTypeInv, CancelInv, InStepInv, [Next]_vars, cancelHit' = {}
             PROVE  InStep'
    BY DEF InStepInv
<1>h. cancelHit = {}
    BY DEF Next, Client, SendInput, Cancel, RespondPermission, SetMode, Pump, Manager, Drain,
        CheckRunning, ApplyAgentEvent, EnsureExited, SetModeReturn, Worker, WorkerReceive,
        PermissionEmit, GateWait, GateFinish, PermissionRespond, WorkerStops, Agent,
        PermissionBegin, AgentAnswers, WriteFails, StreamClosed, AgentDies, Settle, clientVars,
        vars
<1>i. InStep
    BY <1>h DEF InStepInv
<1>t. /\ evq \in Seq(AgentEvent) /\ batch \in Seq(AgentEvent)
      /\ pending \in 0..MaxPermissions /\ asking \in 0..MaxPermissions
      /\ asked \in 0..MaxPermissions /\ MaxPermissions \in Nat
      /\ Permissions = 1..MaxPermissions
      /\ answer \in [Permissions -> Answers]
      /\ resolved \in [Permissions -> Options \cup {NoOption}]
      /\ gate \in [pending : BOOLEAN, decision : Options \cup {NoOption}, cancelled : BOOLEAN]
      /\ gate.pending <=> worker \in {"asked", "wait", "parked", "finish"}
      /\ gate.pending \/ worker = "respond" => asking \in Permissions
    BY TurnAssumption DEF TurnTypeInv, TypeOK, ChannelTypes, ControlTypes, HistoryTypes, GateType,
        HandlerInv, Permissions
<1>1. CASE UNCHANGED <<pending, batch, evq, asking, worker, gate, outcome, answer, resolved, asked>>
    BY <1>1, <1>i DEF InStep, OfferedOnce, OfferedOpen, DecisionShown, AgentTold
<1>2. CASE SendInput \/ SetMode \/ SetModeReturn \/ Pump \/ CheckRunning \/ EnsureExited
           \/ AgentDies \/ UNCHANGED vars
    BY <1>1, <1>2 DEF SendInput, SetMode, SetModeReturn, Pump, CheckRunning, EnsureExited,
        AgentDies, vars, managerVars, sharedVars, workerVars, clientVars
<1>3. CASE Cancel
    <2>1. ~gate.pending
        BY <1>3 DEF Cancel
    <2>2. /\ pending' = 0
          /\ UNCHANGED <<batch, evq, asking, worker, gate, outcome, answer, resolved, asked>>
        BY <1>3, <2>1 DEF Cancel, GateCancel
    <2>3. QED
        BY <1>i, <2>2 DEF InStep, OfferedOnce, OfferedOpen, DecisionShown, AgentTold
<1>4. ASSUME NEW o \in Options, RespondPermission(o) PROVE InStep'
    <2>1. /\ pending # 0 /\ pending' = 0 /\ gate.pending
          /\ gate' = [gate EXCEPT !.decision = o] /\ worker' = Woken
          /\ resolved' = [resolved EXCEPT ![pending] = o]
          /\ UNCHANGED <<batch, evq, asking, outcome, answer, asked>>
        BY <1>4 DEF RespondPermission, GateDecide
    <2>2. /\ pending = asking /\ asking \in Permissions /\ worker \in {"wait", "parked"}
          /\ Asks(evq) = {} /\ Asks(batch) = {} /\ answer[asking] = NoOption
        BY <1>i, <1>t, <2>1 DEF InStep, OfferedOnce, OfferedOpen, AgentTold
    <2>3. /\ gate'.decision = o /\ gate'.pending /\ worker' = "wait" /\ resolved'[asking] = o
          /\ \A p \in Permissions : p # asking => resolved'[p] = resolved[p]
        BY <1>t, <2>1, <2>2 DEF Woken
    <2>4. OfferedOnce' /\ OfferedOpen'
        BY <2>1, <2>2 DEF OfferedOnce, OfferedOpen
    <2>5. DecisionShown'
        BY <2>1, <2>3 DEF DecisionShown
    <2>6. AgentTold'
        BY <1>i, <2>1, <2>2, <2>3 DEF InStep, AgentTold
    <2>7. QED
        BY <2>4, <2>5, <2>6 DEF InStep
<1>5. CASE Drain
    <2>1. /\ batch' = evq /\ evq' = <<>>
          /\ UNCHANGED <<pending, asking, worker, gate, outcome, answer, resolved, asked>>
        BY <1>5 DEF Drain, workerVars, clientVars
    <2>2. Len(<<>>) = 0
        BY EmptySeq
    <2>3. Asks(evq') = {} /\ Asks(batch') = Asks(evq)
        BY <2>1, <2>2 DEF Asks
    <2>4. QED
        BY <1>i, <2>1, <2>3 DEF InStep, OfferedOnce, OfferedOpen, DecisionShown, AgentTold
<1>6. CASE ApplyAgentEvent
    <2>1. /\ batch # <<>> /\ batch' = Tail(batch)
          /\ UNCHANGED <<evq, asking, worker, gate, outcome, answer, resolved, asked>>
        BY <1>6 DEF ApplyAgentEvent, sharedVars, workerVars, clientVars
    <2>2. /\ Head(batch) = batch[1] /\ (Head(batch).kind = "permission" <=> 1 \in Asks(batch))
          /\ \A i \in Asks(batch') : i + 1 \in Asks(batch) /\ batch'[i] = batch[i + 1]
          /\ \A i \in Asks(batch') : i \in Nat /\ i >= 1
        BY <1>t, <2>1, AsksTail
    <2>3. \A i, j \in Asks(batch') : i = j
        BY <1>i, <2>2 DEF InStep, OfferedOnce
    <2>4. CASE Head(batch).kind = "permission"
        <3>1. pending' = batch[1].id /\ 1 \in Asks(batch)
            BY <1>6, <2>2, <2>4 DEF ApplyAgentEvent, ApplyPermissionRequest, ApplyTurnEnded,
                                    ApplyFailed, ApplyExited
        <3>2. Asks(batch') = {}
            <4> SUFFICES ASSUME NEW i \in Asks(batch') PROVE FALSE
                OBVIOUS
            <4>1. i + 1 = 1
                BY <1>i, <2>2, <3>1 DEF InStep, OfferedOnce
            <4>2. QED
                BY <2>2, <4>1
        <3>3. pending' = asking /\ Asks(evq) = {}
            BY <1>i, <3>1 DEF InStep, OfferedOnce, OfferedOpen
        <3>4. worker \in {"wait", "parked"} /\ gate.decision = NoOption
            BY <1>i, <3>1 DEF InStep, OfferedOpen
        <3>5. QED
            BY <1>i, <2>1, <3>2, <3>3, <3>4
            DEF InStep, OfferedOnce, OfferedOpen, DecisionShown, AgentTold
    <2>5. CASE Head(batch).kind # "permission"
        <3>1. pending' = pending
            BY <1>6, <2>5 DEF ApplyAgentEvent, ApplyPermissionRequest, ApplyTurnEnded,
                              ApplyFailed, ApplyExited
        <3>2. Asks(batch') # {} => Asks(batch) # {}
            BY <2>2
        <3>3. \A i \in Asks(batch') : batch'[i].id = asking
            BY <1>i, <2>2 DEF InStep, OfferedOpen
        <3>4. QED
            BY <1>i, <2>1, <2>3, <3>1, <3>2, <3>3
            DEF InStep, OfferedOnce, OfferedOpen, DecisionShown, AgentTold
    <2>6. QED
        BY <2>4, <2>5
<1>7. CASE WorkerReceive \/ WorkerStops
    BY <1>7, <1>i, <1>t DEF WorkerReceive, WorkerStops, managerVars, clientVars, InStep,
        OfferedOnce, OfferedOpen, DecisionShown, AgentTold
<1>8. CASE PermissionBegin
    <2>1. /\ worker = "turn" /\ worker' = "asked" /\ asked' = asked + 1 /\ asking' = asked + 1
          /\ gate' = [gate EXCEPT !.pending = TRUE] /\ asked + 1 \in Permissions
          /\ UNCHANGED <<pending, batch, evq, outcome, answer, resolved>>
        BY <1>8, <1>t DEF PermissionBegin, managerVars, clientVars
    <2>2. /\ pending = 0 /\ Asks(evq) = {} /\ Asks(batch) = {} /\ gate.decision = NoOption
        BY <1>i, <2>1 DEF InStep, OfferedOpen, DecisionShown
    <2>3. gate'.decision = NoOption
        BY <1>t, <2>1, <2>2
    <2>4. answer[asked + 1] = NoOption
        BY <1>i, <1>t, <2>1 DEF InStep, AgentTold
    <2>5. AgentTold'
        BY <1>i, <1>t, <2>1, <2>4 DEF InStep, AgentTold
    <2>6. QED
        BY <2>1, <2>2, <2>3, <2>5 DEF InStep, OfferedOnce, OfferedOpen, DecisionShown
<1>9. CASE PermissionEmit
    <2> DEFINE e == [kind |-> "permission", id |-> asking]
    <2>1. /\ worker = "asked" /\ worker' = "wait" /\ evq' = Append(evq, e)
          /\ UNCHANGED <<pending, batch, gate, asking, outcome, answer, resolved, asked>>
        BY <1>9 DEF PermissionEmit, Emit, managerVars, clientVars
    <2>2. /\ pending = 0 /\ Asks(evq) = {} /\ Asks(batch) = {} /\ gate.decision = NoOption
        BY <1>i, <2>1 DEF InStep, OfferedOpen, DecisionShown
    <2>3. e \in AgentEvent /\ e.kind = "permission" /\ e.id = asking
        BY <1>t, <2>1, EventTypes
    <2> HIDE DEF e
    <2>4. Asks(evq') = {Len(evq) + 1} /\ evq'[Len(evq) + 1] = e
        BY <1>t, <2>1, <2>2, <2>3, AsksAppend
    <2>5. OfferedOnce' /\ OfferedOpen'
        BY <2>1, <2>2, <2>3, <2>4 DEF OfferedOnce, OfferedOpen
    <2>6. QED
        BY <1>i, <1>t, <2>1, <2>2, <2>5 DEF InStep, DecisionShown, AgentTold
<1>10. CASE GateWait
    <2>1. /\ worker = "wait" /\ ~gate.cancelled
          /\ UNCHANGED <<pending, batch, evq, asking, answer, resolved, asked>>
        BY <1>10, <1>h DEF GateWait, managerVars, clientVars, CancelInv
    <2>2. CASE gate.decision # NoOption
        <3>1. /\ outcome' = gate.decision /\ worker' = "finish"
              /\ gate' = [gate EXCEPT !.decision = NoOption]
            BY <1>10, <2>2 DEF GateWait
        <3>2. gate'.decision = NoOption /\ gate'.pending = gate.pending
            BY <1>t, <3>1
        <3>3. pending = 0 /\ Asks(evq) = {} /\ Asks(batch) = {}
            BY <1>i, <2>2 DEF InStep, OfferedOpen
        <3>4. outcome' = resolved[asking]
            BY <1>i, <2>2, <3>1 DEF InStep, DecisionShown
        <3>5. QED
            BY <1>i, <1>t, <2>1, <2>2, <3>1, <3>2, <3>3, <3>4
            DEF InStep, OfferedOnce, OfferedOpen, DecisionShown, AgentTold
    <2>3. CASE gate.decision = NoOption
        <3>1. worker' = "parked" /\ UNCHANGED <<gate, outcome>>
            BY <1>10, <2>1, <2>3 DEF GateWait
        <3>2. QED
            BY <1>i, <1>t, <2>1, <2>3, <3>1
            DEF InStep, OfferedOnce, OfferedOpen, DecisionShown, AgentTold
    <2>4. QED
        BY <2>2, <2>3
<1>11. CASE GateFinish
    <2>1. /\ worker = "finish" /\ worker' = "respond" /\ gate'.decision = NoOption
          /\ ~gate'.pending
          /\ UNCHANGED <<pending, batch, evq, asking, outcome, answer, resolved, asked>>
        BY <1>11 DEF GateFinish, ClosedGate, managerVars, clientVars
    <2>2. pending = 0 /\ Asks(evq) = {} /\ Asks(batch) = {}
        BY <1>i, <2>1 DEF InStep, OfferedOpen
    <2>3. QED
        BY <1>i, <1>t, <2>1, <2>2
        DEF InStep, OfferedOnce, OfferedOpen, DecisionShown, AgentTold
<1>12. CASE PermissionRespond
    <2>1. /\ worker = "respond" /\ worker' = "turn" /\ asking' = 0
          /\ answer' = [answer EXCEPT ![asking] = outcome] /\ asking \in Permissions
          /\ UNCHANGED <<pending, batch, evq, gate, resolved, asked>>
        BY <1>12, <1>t DEF PermissionRespond, managerVars, sharedVars, clientVars
    <2>2. /\ pending = 0 /\ Asks(evq) = {} /\ Asks(batch) = {} /\ gate.decision = NoOption
          /\ ~gate.pending /\ outcome = resolved[asking]
        BY <1>i, <1>t, <2>1 DEF InStep, OfferedOpen, DecisionShown
    <2>3. /\ answer'[asking] = resolved[asking]
          /\ \A p \in Permissions : p # asking => answer'[p] = answer[p]
        BY <1>t, <2>1, <2>2
    <2>4. asking <= asked
        BY <1>i DEF InStep, AgentTold
    <2>5. AgentTold'
        BY <1>i, <1>t, <2>1, <2>2, <2>3, <2>4 DEF InStep, AgentTold
    <2>6. QED
        BY <2>1, <2>2, <2>5 DEF InStep, OfferedOnce, OfferedOpen, DecisionShown
<1>13. CASE AgentAnswers \/ WriteFails
    BY <1>13, <1>i, EventTypes, SettleInStep DEF AgentAnswers, WriteFails
<1>14. CASE StreamClosed
    <2>1. /\ worker = "turn" /\ worker' \in {"exited", "recv"}
          /\ evq' = evq \/ evq' = Append(evq, [kind |-> "exited"])
          /\ UNCHANGED <<pending, batch, gate, asking, answer, resolved, asked>>
        BY <1>14 DEF StreamClosed, Emit, managerVars, clientVars
    <2>2. pending = 0 /\ Asks(evq) = {} /\ Asks(batch) = {} /\ gate.decision = NoOption
        BY <1>i, <2>1 DEF InStep, OfferedOpen, DecisionShown
    <2>3. Asks(evq') = {}
        <3>1. Asks(Append(evq, [kind |-> "exited"])) = {}
            BY <1>t, <2>2, EventTypes, AsksAppend
        <3>2. QED
            BY <2>1, <2>2, <3>1
    <2>4. QED
        BY <1>i, <1>t, <2>1, <2>2, <2>3
        DEF InStep, OfferedOnce, OfferedOpen, DecisionShown, AgentTold
<1>15. QED
    BY <1>2, <1>3, <1>4, <1>5, <1>6, <1>7, <1>8, <1>9, <1>10, <1>11, <1>12, <1>13, <1>14
    DEF Next, Client, Manager, Worker, Agent

LEMMA InStepAlways == Spec => [](TurnTypeInv /\ InStepInv)
BY TurnTypeInit, TurnTypeStep, CancelInvInit, CancelInvStep, InStepInit, InStepStep, PTL DEF Spec

\* Until a cancel meets an open permission, what is offered to clients is what
\* the agent still waits for, for any number of permissions and operations.
THEOREM OfferIsOpen == Spec => []NoStaleUnlessCancelled
<1>1. TurnTypeInv /\ InStepInv => NoStaleUnlessCancelled
    BY DEF TurnTypeInv, HandlerInv, InStepInv, InStep, OfferedOpen, AgentTold,
           NoStaleUnlessCancelled, NoStalePending
<1>2. QED
    BY <1>1, InStepAlways, PTL

\* And the agent is told what a client chose for that very permission.
THEOREM AnswersFaithful == Spec => []AnswerFaithful
<1>1. InStepInv => AnswerFaithful
    BY DEF InStepInv, InStep, AgentTold, AnswerFaithful
<1>2. QED
    BY <1>1, InStepAlways, PTL
=============================================================================
