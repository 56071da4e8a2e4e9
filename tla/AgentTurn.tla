------------------------------ MODULE AgentTurn ------------------------------
(***************************************************************************)
(* One agent session between the manager's mutex and the agent's pipe: the  *)
(* ClientSession worker thread and its PermissionGate                       *)
(* (rust/acp-types/src/session.rs) and the operations of the SessionManager *)
(* (rust/session-core/src/manager.rs) that drive it.                        *)
(*                                                                         *)
(* Threads.  Connection threads and the pump thread of host.rs enter the    *)
(* manager one at a time; `holder` is where the one that is inside stands.  *)
(* The worker runs beside it and shares with it the command channel, the    *)
(* event channel, the gate and the `running` flag.  The agent is external:  *)
(* it may ask for permissions, answer, report an error or die at any time.  *)
(*                                                                         *)
(* Abstractions.  Events that only reach the journal (messages, tool calls, *)
(* plans, usage ...) are left out; their journey is SessionJournal's.  What *)
(* happens before session/new has answered, and Drop (Shutdown, close), is  *)
(* left out: a session leaves the map only with the process.                *)
(***************************************************************************)
EXTENDS Integers, Sequences

CONSTANTS Options,        \* option ids of a permission request
          Ops,            \* the client operations that may be called
          AgentMayDie,    \* whether the agent may close its stdout
          MaxOps,         \* bound: client operations in a behaviour
          MaxPermissions  \* bound: permission requests of the agent

NoOption  == "no option"
Cancelled == "cancelled"

ASSUME TurnAssumption ==
    /\ NoOption \notin Options /\ Cancelled \notin Options
    /\ Ops \subseteq {"input", "cancel", "respond", "mode"}
    /\ AgentMayDie \in BOOLEAN
    /\ MaxOps \in Nat
    /\ MaxPermissions \in Nat

VARIABLES
    \* the manager, under its mutex
    holder,       \* none, drain, check, apply, reply
    batch,        \* events drained and not yet applied
    alive,        \* what is_running said to pump_all
    status,       \* summary.status
    pending,      \* the id in pending_permission, 0 for None
    mrunning,     \* Session.running
    exitReported, \* Session.exit_reported
    \* shared with the worker
    cmds,         \* the command channel
    evq,          \* the event channel
    gate,         \* PermissionGateState
    running,      \* the AtomicBool
    replied,      \* the reply channel of set_mode holds an answer
    \* the worker thread and the agent behind it
    worker,       \* recv, turn, asked, wait, parked, finish, respond, exited, stopped
    serving,      \* the command whose response the worker waits for
    asking,       \* the permission the handler is in, 0 for none
    outcome,      \* what gate.wait returned
    agent,        \* up or dead
    \* history
    asked,        \* permission requests so far
    ops,          \* client operations so far
    exits,        \* Exit events appended
    answer,       \* what the agent was told about each permission
    resolved,     \* what clients were told about each permission
    cancelHit     \* permissions that were open when a cancel came

managerVars == <<batch, alive, status, pending, mrunning, exitReported, exits>>
workerVars  == <<worker, serving, asking, outcome, asked, answer>>
sharedVars  == <<cmds, evq, gate, running, replied>>
clientVars  == <<ops, resolved, cancelHit>>
vars == <<holder, managerVars, sharedVars, workerVars, agent, clientVars>>

Permissions == 1..MaxPermissions

AgentEvent == [kind : {"permission"}, id : Permissions]
              \cup [kind : {"turn_ended", "failed", "exited"}]

-----------------------------------------------------------------------------
(* The gate *)

ClosedGate == [pending |-> FALSE, decision |-> NoOption, cancelled |-> FALSE]

\* notify_all: a parked worker looks at the state again.
Woken == IF worker = "parked" THEN "wait" ELSE worker

GateDecide(o) ==
    /\ gate.pending
    /\ gate' = [gate EXCEPT !.decision = o]
    /\ worker' = Woken

\* Mutation: the cancel is stored as if a client had chosen it.
GateCancelAsDecision ==
    IF gate.pending
    THEN gate' = [gate EXCEPT !.decision = Cancelled] /\ worker' = Woken
    ELSE UNCHANGED <<gate, worker>>

\* Mutation: cancel does not notify.
GateCancelSilent ==
    IF gate.pending
    THEN gate' = [gate EXCEPT !.cancelled = TRUE] /\ UNCHANGED worker
    ELSE UNCHANGED <<gate, worker>>

GateCancel ==
    IF gate.pending
    THEN gate' = [gate EXCEPT !.cancelled = TRUE] /\ worker' = Woken
    ELSE UNCHANGED <<gate, worker>>

-----------------------------------------------------------------------------
(* The manager.  Every operation but set_mode ends with pump_all. *)

Init ==
    /\ holder = "none"
    /\ batch = <<>> /\ alive = TRUE
    /\ status = "idle" /\ pending = 0
    /\ mrunning = TRUE /\ exitReported = FALSE
    /\ cmds = <<>> /\ evq = <<>> /\ gate = ClosedGate
    /\ running = TRUE /\ replied = FALSE
    /\ worker = "recv" /\ serving = "nothing" /\ asking = 0 /\ outcome = NoOption
    /\ agent = "up"
    /\ asked = 0 /\ ops = 0 /\ exits = 0
    /\ answer = [p \in Permissions |-> NoOption]
    /\ resolved = [p \in Permissions |-> NoOption]
    /\ cancelHit = {}

\* A client operation takes the mutex.
Enter(op) ==
    /\ op \in Ops
    /\ holder = "none"
    /\ ops < MaxOps
    /\ ops' = ops + 1

\* send_input: the prompt is queued even when a turn is in progress.
SendInput ==
    /\ Enter("input")
    /\ mrunning
    /\ worker # "stopped"
    /\ cmds' = Append(cmds, "prompt")
    /\ status' = "working"
    /\ holder' = "drain"
    /\ UNCHANGED <<batch, alive, pending, mrunning, exitReported, exits, evq, gate, running,
                   replied, workerVars, agent, resolved, cancelHit>>

\* Mutation: cancel forgets the Status event.
CancelKeepsStatus ==
    /\ Enter("cancel")
    /\ GateCancel
    /\ cancelHit' = IF gate.pending THEN cancelHit \cup {asking} ELSE cancelHit
    /\ pending' = 0
    /\ holder' = "drain"
    /\ UNCHANGED <<batch, alive, status, mrunning, exitReported, exits, cmds, evq, running,
                   replied, serving, asking, outcome, asked, answer, agent, resolved>>

\* cancel: the notification has been written (on a dead pipe the write may
\* fail, and then nothing changes), the gate is cancelled.
Cancel ==
    /\ Enter("cancel")
    /\ GateCancel
    /\ cancelHit' = IF gate.pending THEN cancelHit \cup {asking} ELSE cancelHit
    /\ pending' = 0
    /\ status' = "idle"
    /\ holder' = "drain"
    /\ UNCHANGED <<batch, alive, mrunning, exitReported, exits, cmds, evq, running, replied,
                   serving, asking, outcome, asked, answer, agent, resolved>>

\* Mutation: the answered permission stays pending.
RespondPermissionKeepsPending(o) ==
    /\ Enter("respond")
    /\ pending # 0
    /\ GateDecide(o)
    /\ resolved' = [resolved EXCEPT ![pending] = o]
    /\ status' = "working"
    /\ holder' = "drain"
    /\ UNCHANGED <<batch, alive, pending, mrunning, exitReported, exits, cmds, evq, running,
                   replied, serving, asking, outcome, asked, answer, agent, cancelHit>>

\* respond_permission, for the id that is pending (any other id is an error, and
\* so is a gate that has nothing pending).
RespondPermission(o) ==
    /\ Enter("respond")
    /\ pending # 0
    /\ GateDecide(o)
    /\ pending' = 0
    /\ resolved' = [resolved EXCEPT ![pending] = o]
    /\ status' = "working"
    /\ holder' = "drain"
    /\ UNCHANGED <<batch, alive, mrunning, exitReported, exits, cmds, evq, running, replied,
                   serving, asking, outcome, asked, answer, agent, cancelHit>>

\* set_mode and set_config_option: the command is queued and the caller waits
\* for its reply with the mutex in hand.
SetMode ==
    /\ Enter("mode")
    /\ worker # "stopped"
    /\ cmds' = Append(cmds, "mode")
    /\ holder' = "reply"
    /\ UNCHANGED <<managerVars, evq, gate, running, replied, workerVars, agent, resolved,
                   cancelHit>>

\* The reply arrives, or the worker is gone and its end of the channel too.
SetModeReturn ==
    /\ holder = "reply"
    /\ replied \/ worker = "stopped"
    /\ replied' = FALSE
    /\ holder' = "none"
    /\ UNCHANGED <<managerVars, cmds, evq, gate, running, workerVars, agent, clientVars>>

\* The pump thread takes the mutex.
Pump ==
    /\ holder = "none"
    /\ holder' = "drain"
    /\ UNCHANGED <<managerVars, sharedVars, workerVars, agent, clientVars>>

\* pump_all: drain takes what is in the channel ...
Drain ==
    /\ holder = "drain"
    /\ batch' = evq
    /\ evq' = <<>>
    /\ holder' = "check"
    /\ UNCHANGED <<alive, status, pending, mrunning, exitReported, exits, cmds, gate, running,
                   replied, workerVars, agent, clientVars>>

\* ... is_running reads the flag some time later ...
CheckRunning ==
    /\ holder = "check"
    /\ alive' = running
    /\ holder' = "apply"
    /\ UNCHANGED <<batch, status, pending, mrunning, exitReported, exits, sharedVars,
                   workerVars, agent, clientVars>>

\* Mutations of apply_agent_event: a request is dropped while another is
\* pending; the end of a turn leaves the status; a failed turn ends the session;
\* an exit leaves Session.running.
ApplyPermissionRequestFirstOnly(e) ==
    /\ e.kind = "permission"
    /\ pending' = IF pending = 0 THEN e.id ELSE pending
    /\ status' = "waiting_permission"
    /\ UNCHANGED <<mrunning, exitReported, exits>>

ApplyTurnEndedKeepsStatus(e) ==
    /\ e.kind = "turn_ended"
    /\ UNCHANGED <<status, pending, mrunning, exitReported, exits>>

ApplyFailedEndsSession(e) ==
    /\ e.kind = "failed"
    /\ status' = "failed"
    /\ mrunning' = FALSE
    /\ UNCHANGED <<pending, exitReported, exits>>

ApplyExitedKeepsRunning(e) ==
    /\ e.kind = "exited"
    /\ exitReported' = TRUE
    /\ exits' = exits + 1
    /\ status' = "exited"
    /\ UNCHANGED <<pending, mrunning>>

\* ... apply_agent_event takes the events one by one ...
ApplyPermissionRequest(e) ==
    /\ e.kind = "permission"
    /\ pending' = e.id
    /\ status' = "waiting_permission"
    /\ UNCHANGED <<mrunning, exitReported, exits>>

ApplyTurnEnded(e) ==
    /\ e.kind = "turn_ended"
    /\ status' = "idle"
    /\ UNCHANGED <<pending, mrunning, exitReported, exits>>

ApplyFailed(e) ==
    /\ e.kind = "failed"
    /\ status' = "failed"
    /\ UNCHANGED <<pending, mrunning, exitReported, exits>>

ApplyExited(e) ==
    /\ e.kind = "exited"
    /\ mrunning' = FALSE
    /\ exitReported' = TRUE
    /\ exits' = exits + 1
    /\ status' = "exited"
    /\ UNCHANGED pending

ApplyAgentEvent ==
    /\ holder = "apply"
    /\ batch # <<>>
    /\ LET e == Head(batch)
       IN  \/ ApplyPermissionRequest(e) \/ ApplyTurnEnded(e)
           \/ ApplyFailed(e) \/ ApplyExited(e)
    /\ batch' = Tail(batch)
    /\ UNCHANGED <<holder, alive, sharedVars, workerVars, agent, clientVars>>

\* ... and ensure_exited makes up for an exit that no event reported.
EnsureExited ==
    /\ holder = "apply"
    /\ batch = <<>>
    /\ IF ~alive /\ ~exitReported
       THEN /\ mrunning' = FALSE
            /\ exitReported' = TRUE
            /\ exits' = exits + 1
            /\ status' = "exited"
       ELSE UNCHANGED <<mrunning, exitReported, exits, status>>
    /\ holder' = "none"
    /\ UNCHANGED <<batch, alive, pending, sharedVars, workerVars, agent, clientVars>>

-----------------------------------------------------------------------------
(* The worker thread *)

Emit(e) == evq' = Append(evq, e)

\* Take the next command and write its request.
WorkerReceive ==
    /\ worker = "recv"
    /\ cmds # <<>>
    /\ serving' = Head(cmds)
    /\ cmds' = Tail(cmds)
    /\ worker' = "turn"
    /\ UNCHANGED <<holder, managerVars, evq, gate, running, replied, asking, outcome, asked,
                   answer, agent, clientVars>>

\* handle_request reads session/request_permission: gate.begin ...
PermissionBegin ==
    /\ worker = "turn"
    /\ asked < MaxPermissions
    /\ asked' = asked + 1
    /\ asking' = asked + 1
    /\ gate' = [gate EXCEPT !.pending = TRUE]
    /\ worker' = "asked"
    /\ UNCHANGED <<holder, managerVars, cmds, evq, running, replied, serving, outcome, answer,
                   agent, clientVars>>

\* ... the event ...
PermissionEmit ==
    /\ worker = "asked"
    /\ Emit([kind |-> "permission", id |-> asking])
    /\ worker' = "wait"
    /\ UNCHANGED <<holder, managerVars, cmds, gate, running, replied, serving, asking, outcome,
                   asked, answer, agent, clientVars>>

\* Mutation: wait does not loop.
GateWaitNoLoop ==
    /\ worker = "wait"
    /\ outcome' = IF gate.decision = NoOption THEN Cancelled ELSE gate.decision
    /\ gate' = [gate EXCEPT !.decision = NoOption]
    /\ worker' = "finish"
    /\ UNCHANGED <<holder, managerVars, cmds, evq, running, replied, serving, asking, asked,
                   answer, agent, clientVars>>

\* ... gate.wait: one look at the state under its lock ...
GateWait ==
    /\ worker = "wait"
    /\ \/ /\ gate.decision # NoOption
          /\ outcome' = gate.decision
          /\ gate' = [gate EXCEPT !.decision = NoOption]
          /\ worker' = "finish"
       \/ /\ gate.decision = NoOption /\ gate.cancelled
          /\ outcome' = Cancelled
          /\ worker' = "finish"
          /\ UNCHANGED gate
       \/ /\ gate.decision = NoOption /\ ~gate.cancelled
          /\ worker' = "parked"
          /\ UNCHANGED <<outcome, gate>>
    /\ UNCHANGED <<holder, managerVars, cmds, evq, running, replied, serving, asking, asked,
                   answer, agent, clientVars>>

\* Mutation: finish leaves the cancelled flag.
GateFinishKeepsCancelled ==
    /\ worker = "finish"
    /\ gate' = [gate EXCEPT !.pending = FALSE, !.decision = NoOption]
    /\ worker' = "respond"
    /\ UNCHANGED <<holder, managerVars, cmds, evq, running, replied, serving, asking, outcome,
                   asked, answer, agent, clientVars>>

\* ... gate.finish ...
GateFinish ==
    /\ worker = "finish"
    /\ gate' = ClosedGate
    /\ worker' = "respond"
    /\ UNCHANGED <<holder, managerVars, cmds, evq, running, replied, serving, asking, outcome,
                   asked, answer, agent, clientVars>>

\* ... and the response goes to the agent.
PermissionRespond ==
    /\ worker = "respond"
    /\ answer' = [answer EXCEPT ![asking] = outcome]
    /\ asking' = 0
    /\ outcome' = NoOption
    /\ worker' = "turn"
    /\ UNCHANGED <<holder, managerVars, sharedVars, serving, asked, agent, clientVars>>

\* The request of a command ends without closing the connection: run_worker
\* reports it and takes the next command.
Settle(e) ==
    /\ \/ serving = "prompt" /\ Emit(e) /\ UNCHANGED replied
       \/ serving = "mode" /\ replied' = TRUE /\ UNCHANGED evq
    /\ serving' = "nothing"
    /\ asking' = 0
    /\ outcome' = NoOption
    /\ worker' = "recv"
    /\ UNCHANGED <<holder, managerVars, cmds, gate, running, asked, answer, agent, clientVars>>

\* The response of the agent: a result, or an error.
AgentAnswers ==
    /\ worker = "turn"
    /\ Settle([kind |-> "turn_ended"]) \/ Settle([kind |-> "failed"])

\* A write to a dead agent fails: the request itself, or a permission response.
WriteFails ==
    /\ agent = "dead"
    /\ worker \in {"turn", "respond"}
    /\ Settle([kind |-> "failed"])

\* Mutation: a request that is no prompt gets no reply when the stream ends.
StreamClosedNoReply ==
    /\ agent = "dead"
    /\ worker = "turn"
    /\ \/ /\ serving = "prompt"
          /\ Emit([kind |-> "exited"])
          /\ worker' = "exited"
       \/ /\ serving = "mode"
          /\ worker' = "recv"
          /\ UNCHANGED evq
    /\ serving' = "nothing"
    /\ UNCHANGED <<holder, managerVars, cmds, gate, running, replied, asking, outcome, asked,
                   answer, agent, clientVars>>

\* End of the stream.  A prompt ends the worker, in two steps; another request
\* only fails.
StreamClosed ==
    /\ agent = "dead"
    /\ worker = "turn"
    /\ \/ /\ serving = "prompt"
          /\ Emit([kind |-> "exited"])
          /\ worker' = "exited"
          /\ serving' = "nothing"
          /\ UNCHANGED replied
       \/ /\ serving = "mode"
          /\ replied' = TRUE
          /\ worker' = "recv"
          /\ serving' = "nothing"
          /\ UNCHANGED evq
    /\ UNCHANGED <<holder, managerVars, cmds, gate, running, asking, outcome, asked, answer,
                   agent, clientVars>>

WorkerStops ==
    /\ worker = "exited"
    /\ running' = FALSE
    /\ worker' = "stopped"
    /\ UNCHANGED <<holder, managerVars, cmds, evq, gate, replied, serving, asking, outcome,
                   asked, answer, agent, clientVars>>

AgentDies ==
    /\ AgentMayDie
    /\ agent = "up"
    /\ agent' = "dead"
    /\ UNCHANGED <<holder, managerVars, sharedVars, workerVars, clientVars>>

-----------------------------------------------------------------------------
Client == SendInput \/ Cancel \/ (\E o \in Options : RespondPermission(o)) \/ SetMode

Manager == Drain \/ CheckRunning \/ ApplyAgentEvent \/ EnsureExited \/ SetModeReturn

Worker == WorkerReceive \/ PermissionEmit \/ GateWait \/ GateFinish \/ PermissionRespond
          \/ WorkerStops

Agent == PermissionBegin \/ AgentAnswers \/ WriteFails \/ StreamClosed \/ AgentDies

Next == Client \/ Pump \/ Manager \/ Worker \/ Agent

\* A thread that can run does run, the pump thread calls pump every 25 ms, and
\* an agent that is not asked to wait ends a request by an answer or its death.
Fairness ==
    /\ WF_vars(Manager)
    /\ WF_vars(Worker)
    /\ WF_vars(Pump)
    /\ WF_vars(AgentAnswers \/ WriteFails \/ StreamClosed)

Spec == Init /\ [][Next]_vars /\ Fairness

-----------------------------------------------------------------------------
(* Properties *)

Answers == Options \cup {NoOption, Cancelled}

FlagTypes ==
    /\ alive \in BOOLEAN /\ running \in BOOLEAN /\ mrunning \in BOOLEAN
    /\ exitReported \in BOOLEAN /\ replied \in BOOLEAN

GateType ==
    gate \in [pending : BOOLEAN, decision : Options \cup {NoOption}, cancelled : BOOLEAN]

ChannelTypes ==
    /\ batch \in Seq(AgentEvent) /\ evq \in Seq(AgentEvent)
    /\ cmds \in Seq({"prompt", "mode"})

ControlTypes ==
    /\ holder \in {"none", "drain", "check", "apply", "reply"}
    /\ status \in {"idle", "working", "waiting_permission", "exited", "failed"}
    /\ pending \in 0..MaxPermissions /\ asking \in 0..MaxPermissions
    /\ asked \in 0..MaxPermissions
    /\ worker \in {"recv", "turn", "asked", "wait", "parked", "finish", "respond",
                   "exited", "stopped"}
    /\ serving \in {"nothing", "prompt", "mode"}
    /\ outcome \in Answers
    /\ agent \in {"up", "dead"}
    /\ ops \in Nat /\ exits \in Nat

HistoryTypes ==
    /\ answer \in [Permissions -> Answers]
    /\ resolved \in [Permissions -> Options \cup {NoOption}]
    /\ cancelHit \subseteq Permissions

\* The types of Session, ClientSession, PermissionGate and the worker.
TypeOK == FlagTypes /\ GateType /\ ChannelTypes /\ ControlTypes /\ HistoryTypes

\* A cancel reaches the permission that is open when it comes and no later one:
\* the agent is told "cancelled" only about permissions that a cancel met, so
\* nothing of a cancel is left in the gate for the next request.
CancelScoped ==
    \A p \in Permissions : answer[p] = Cancelled => p \in cancelHit

\* The manager gives a session up only when its worker is past its last command,
\* however drain, is_running and the worker interleave.
DeadOnlyWhenGone == ~mrunning => worker \in {"exited", "stopped"}

\* A session that clients see waiting for a permission has one they can answer.
WaitingHasPending == status = "waiting_permission" => pending # 0

\* A permission that is offered to clients is one the agent still waits for.
NoStalePending == pending # 0 => answer[pending] = NoOption

\* The same as long as no cancel has met an open permission: respond_permission
\* and the pump keep manager and gate in step.
NoStaleUnlessCancelled == cancelHit = {} => NoStalePending

\* What permission_resolved told the clients is what the agent was told, and the
\* agent is given no option that a client did not choose for that permission,
\* as long as no cancel has met an open permission (after one, a stale
\* permission can be answered in place of the next: see NoStalePending).
AnswerFaithful ==
    cancelHit = {} =>
        \A p \in Permissions : answer[p] # NoOption =>
            \/ answer[p] = resolved[p]
            \/ answer[p] = Cancelled /\ resolved[p] = NoOption

\* The known deadlock: set_mode holds the mutex and waits for a worker that
\* waits at the gate for an answer that needs the mutex.
Blocked == holder = "reply" /\ worker = "parked"

\* A permission that blocks the worker comes to the clients' attention, through
\* the event channel and the pump, or is settled without them.
PermissionSurfaces ==
    \A p \in Permissions :
        (asking = p /\ worker = "parked") ~> (pending = p \/ asking # p \/ Blocked)

\* No wake-up is lost: a decision or a cancel frees the blocked worker.
PermissionReleased ==
    \A p \in Permissions :
        (asking = p /\ (gate.cancelled \/ gate.decision # NoOption)) ~> (asking # p)

\* The end of the worker becomes the end of the session.
ExitReported == (worker = "stopped") ~> ~mrunning

\* A session does not show "working" for ever unless it has a permission to be
\* answered.
StatusSettles == (status = "working") ~> (status # "working" \/ pending # 0 \/ Blocked)

\* Whoever holds the manager's mutex gives it back.
MutexReleased == (holder # "none") ~> (holder = "none")

\* Whoever holds the manager's mutex gives it back, also when the agent dies in
\* the middle of set_mode, unless the worker is parked at the gate.
MutexReleasedUnlessBlocked == (holder # "none") ~> (holder = "none" \/ Blocked)
=============================================================================
