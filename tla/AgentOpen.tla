------------------------------ MODULE AgentOpen ------------------------------
(***************************************************************************)
(* How a product session gets its agent: open_session, import_session,      *)
(* list_agent_sessions and the recovery of stored sessions in               *)
(* rust/session-core/src/manager.rs, the capability probe of                *)
(* rust/acp-adapters/src/matrix.rs, the launch of the agent process         *)
(* (acp-adapters/src/stdio.rs, process.rs), the worker thread of a          *)
(* ClientSession (acp-types/src/session.rs) and the request correlation of  *)
(* AcpClient (acp-types/src/client.rs).                                     *)
(*                                                                         *)
(* All of these run under the manager's mutex, or before the host serves,   *)
(* so there is one connection under construction at a time.  The caller     *)
(* blocks on the reply of the worker, the worker on the pipe from the       *)
(* agent, and no wait has a time-out.  The host may be killed at any step.  *)
(*                                                                         *)
(* Abstractions.  A frame is what classify and route make of it: a          *)
(* response to a request id, a session/update, a permission request, or     *)
(* garbage that does not decode.  Installed connections are in AgentTurn.   *)
(* The worker of a dropped connection finds Shutdown in its queue and ends  *)
(* without touching anything shared: that is part of the drop.              *)
(***************************************************************************)
EXTENDS Integers, Sequences

CONSTANTS Offers,     \* sets of capabilities an agent may advertise
          MaxOps,     \* bound: operations of clients
          MaxBoot,    \* bound: runs of the host
          MaxUpdates, \* bound: updates that session/load replays
          MaxFaults   \* bound: misbehaviour of the agent

Capabilities == {"load", "resume", "list"}

ASSUME OpenAssumption ==
    /\ Offers \subseteq SUBSET Capabilities
    /\ {MaxOps, MaxBoot, MaxUpdates, MaxFaults} \subseteq Nat

VARIABLES
    boot,      \* runs of the host so far; 0 before the first
    row,       \* rows of the store that recovery has taken up in this run
    op,        \* the operation that is under way
    target,    \* the native session it asks for
    step,      \* its progress: idle, spawn, initialize, bind
    sessions,  \* the sessions of the manager, which are the rows of the store
    child,     \* the agent process of the connection under construction
    worker,    \* its worker thread
    nextId,    \* AcpClient.next_id
    toAgent,   \* the request in the pipe to the agent
    toHost,    \* the frames in the pipe from the agent
    reply,     \* what the worker has sent on the reply channel
    caps,      \* the capabilities the agent advertises
    events,    \* number of updates in the event channel
    made,      \* number of sessions the agent has ever made: their ids
    natives,   \* the ones it still keeps
    replayed,  \* history: updates the agent replayed for this session/load
    ill,       \* history: the agent of this connection misbehaved
    ops, faults

callerVars == <<boot, row, op, target, step>>
connVars   == <<child, worker, nextId, toAgent, toHost, reply, caps, events>>
agentVars  == <<made, natives, replayed, ill>>
vars == <<callerVars, sessions, connVars, agentVars, ops, faults>>

Ops == {"new", "load", "resume", "list", "probe", "recover"}

\* Mutation: a row that cannot be resumed gets a replacement.
MethodReplacing(o) == IF o \in {"probe", "recover"} THEN "new" ELSE o

\* The ACP method by which an operation binds its connection.
Method(o) == CASE o = "probe" -> "new" [] o = "recover" -> "resume" [] OTHER -> o

Asked == IF step = "initialize" THEN "initialize" ELSE Method(op)

NoReply == [ok |-> FALSE, method |-> "none", native |-> 0]
Failure == [ok |-> FALSE, method |-> "error", native |-> 0]

\* A frame of the agent; method is the request that a response was made for.
Response(id, m, n) == [kind |-> "response", id |-> id, ok |-> TRUE, method |-> m, native |-> n]
ErrorResponse(id, m) == [kind |-> "response", id |-> id, ok |-> FALSE, method |-> m, native |-> 0]
Other(k) == [kind |-> k, id |-> 0, ok |-> TRUE, method |-> "none", native |-> 0]

-----------------------------------------------------------------------------
(* The caller, which holds the manager's mutex *)

\* A connection before its first request, and none at all.
FreshConnection(c, w) ==
    /\ child' = c
    /\ worker' = w
    /\ nextId' = 0
    /\ toAgent' = <<>>
    /\ toHost' = <<>>
    /\ reply' = NoReply
    /\ events' = 0
    /\ replayed' = 0
    /\ ill' = FALSE

NoConnection == FreshConnection("none", "ended") /\ caps' = {}

Begin(o, n) ==
    /\ step = "idle"
    /\ op' = o
    /\ target' = n
    /\ step' = "spawn"
    /\ UNCHANGED <<boot, sessions, connVars, agentVars, faults>>

\* create_session (n = 0), import_session and list_agent_sessions (n = 0).
Open(o, n) ==
    /\ boot > 0 /\ row = Len(sessions)
    /\ ops < MaxOps
    /\ ops' = ops + 1
    /\ Begin(o, n)
    /\ UNCHANGED row

\* A run of the host starts, the first or after the last one was killed:
\* Host::bind probes the adapter before SessionManager::new reads the rows.
Boot ==
    /\ boot < MaxBoot
    /\ boot' = boot + 1
    /\ row' = 0
    /\ sessions' = [s \in DOMAIN sessions |-> [sessions[s] EXCEPT !.state = "stored"]]
    /\ op' = "probe"
    /\ target' = 0
    /\ step' = "spawn"
    /\ NoConnection
    /\ UNCHANGED <<made, natives, ops, faults>>

\* recover_stored_session, for the next row.
Recover ==
    /\ boot > 0
    /\ row < Len(sessions)
    /\ row' = row + 1
    /\ Begin("recover", sessions[row + 1].native)
    /\ UNCHANGED ops

\* spawn_session: the child, which advertises what its version supports, and
\* the worker thread.
Spawn ==
    /\ step = "spawn"
    /\ FreshConnection("up", "idle")
    /\ caps' \in Offers
    /\ step' = "initialize"
    /\ UNCHANGED <<boot, row, op, target, sessions, made, natives, ops, faults>>

\* Mutation: a failed recovery leaves no trace.
RecordRecoveryNot(state) == sessions' = sessions

\* How recovery records that the row could not be resumed.
RecordRecovery(state) ==
    sessions' = IF op = "recover" THEN [sessions EXCEPT ![row].state = state] ELSE sessions

\* Mutation: the child outlives its session.
DropConnectionKeepsChild ==
    /\ FreshConnection(child, "ended")
    /\ caps' = {}
    /\ step' = "idle"
    /\ UNCHANGED <<boot, row, op, target, made, natives, ops, faults>>

\* Drop of a StdioSession: the child is killed and reaped, the worker ends.
DropConnection ==
    /\ NoConnection
    /\ step' = "idle"
    /\ UNCHANGED <<boot, row, op, target, made, natives, ops, faults>>

\* The executable is missing or cannot be launched.
SpawnFails ==
    /\ step = "spawn"
    /\ faults < MaxFaults
    /\ faults' = faults + 1
    /\ step' = "idle"
    /\ RecordRecovery("unavailable")
    /\ UNCHANGED <<boot, row, op, target, connVars, agentVars, ops>>

\* The capability an operation needs, which the caller and AcpClient check.
Supported == Method(op) \in caps \cup {"new"}

\* The handshake has succeeded and the agent offers what the operation needs.
Bind ==
    /\ step = "initialize"
    /\ reply.ok
    /\ Supported
    /\ step' = "bind"
    /\ reply' = NoReply
    /\ UNCHANGED <<boot, row, op, target, sessions, child, worker, nextId, toAgent, toHost,
                   caps, events, agentVars, ops, faults>>

HandshakeFailed == step = "initialize" /\ reply # NoReply /\ (reply.ok => ~Supported)

\* Mutation: a missing capability counts as a session that is gone.
RejectAgentAsStale ==
    /\ HandshakeFailed
    /\ DropConnection
    /\ RecordRecovery("stale")

\* The handshake failed, or the agent lacks the capability.
RejectAgent ==
    /\ HandshakeFailed
    /\ DropConnection
    /\ RecordRecovery("unavailable")

\* The agent refused to open the session, or went away.
BindFails ==
    /\ step = "bind"
    /\ reply = Failure
    /\ DropConnection
    /\ RecordRecovery("stale")

\* A listing or a probe is over with its answer: its connection is dropped.
Inspected ==
    /\ step = "bind"
    /\ op \in {"list", "probe"}
    /\ reply.ok
    /\ DropConnection
    /\ UNCHANGED sessions

\* The connection goes to a session: the slot is free for the next operation.
HandOver ==
    /\ step = "bind"
    /\ reply.ok
    /\ step' = "idle"
    /\ NoConnection
    /\ UNCHANGED <<boot, op, target, made, natives, ops, faults>>

\* Mutation: import_session returns without pumping the replay.
InstallWithoutPump ==
    /\ op \in {"new", "load", "resume"}
    /\ HandOver
    /\ sessions' = Append(sessions, [native |-> reply.native, state |-> "live",
                                     history |-> 0, owed |-> replayed])
    /\ row' = row + 1

\* open_session installs the session; import_session pumps what was replayed.
Install ==
    /\ op \in {"new", "load", "resume"}
    /\ HandOver
    /\ sessions' = Append(sessions, [native |-> reply.native, state |-> "live",
                                     history |-> events, owed |-> replayed])
    /\ row' = row + 1

\* install_rehydrated_session.
Rehydrate ==
    /\ op = "recover"
    /\ HandOver
    /\ sessions' = [sessions EXCEPT ![row].state = "recovered"]
    /\ UNCHANGED row

-----------------------------------------------------------------------------
(* The worker thread: run_worker, AcpClient *)

\* The worker takes the command of the caller and writes its request.
SendRequest ==
    /\ step \in {"initialize", "bind"}
    /\ worker = "idle"
    /\ reply = NoReply
    /\ nextId' = nextId + 1
    /\ \/ /\ child = "up"
          /\ toAgent' = <<[id |-> nextId + 1, method |-> Asked, native |-> target]>>
          /\ worker' = "waiting"
          /\ UNCHANGED reply
       \/ /\ child = "dead"
          /\ reply' = Failure
          /\ UNCHANGED <<toAgent, worker>>
    /\ UNCHANGED <<callerVars, sessions, child, toHost, caps, events, agentVars, ops, faults>>

\* The outcome of the request, for the caller; session/load and session/resume
\* answer without an id and keep the one that was asked for.
Answer(f) ==
    /\ worker' = "idle"
    /\ reply' = IF ~f.ok THEN Failure
                ELSE [ok |-> TRUE, method |-> f.method,
                      native |-> IF Asked \in {"load", "resume"} THEN target ELSE f.native]

Take(kind) ==
    /\ worker = "waiting"
    /\ toHost # <<>>
    /\ Head(toHost).kind = kind
    /\ toHost' = Tail(toHost)
    /\ UNCHANGED <<callerVars, sessions, child, nextId, toAgent, caps, agentVars, ops, faults>>

\* Mutation: the next response is taken for the answer.
ReadResponseAny ==
    /\ Take("response")
    /\ Answer(Head(toHost))
    /\ UNCHANGED events

\* wait_for_response: the response with the id of the request.
ReadResponse ==
    /\ Take("response")
    /\ Head(toHost).id = nextId
    /\ Answer(Head(toHost))
    /\ UNCHANGED events

\* A response to another request is kept with the orphans.
ReadOrphan ==
    /\ Take("response")
    /\ Head(toHost).id # nextId
    /\ UNCHANGED <<worker, reply, events>>

\* A notification is normalised and sent on the event channel.
ReadUpdate ==
    /\ Take("update")
    /\ events' = events + 1
    /\ UNCHANGED <<worker, reply>>

\* A permission request parks the worker at the gate; the answer would need
\* the mutex that the caller holds.
ReadPermission ==
    /\ Take("permission")
    /\ worker' = "parked"
    /\ UNCHANGED <<reply, events>>

\* A frame that does not decode fails the request.
ReadGarbage ==
    /\ Take("garbage")
    /\ Answer(ErrorResponse(nextId, "none"))
    /\ UNCHANGED events

\* Mutation: an error of the stream is taken for an empty read.
ReadEofIgnored ==
    /\ worker = "waiting"
    /\ toHost = <<>>
    /\ child = "dead"
    /\ UNCHANGED vars

\* The pipe is drained and the agent gone: the request returns Closed.
ReadEof ==
    /\ worker = "waiting"
    /\ toHost = <<>>
    /\ child = "dead"
    /\ Answer(ErrorResponse(nextId, "none"))
    /\ UNCHANGED <<callerVars, sessions, child, nextId, toAgent, toHost, caps, events,
                   agentVars, ops, faults>>

-----------------------------------------------------------------------------
(* The agent.  It is another program: only the frames the client handles are *)
(* fixed, by the wire-level fake agent of acp-adapters/src/wire_agent.rs.     *)

Serving == child = "up" /\ toAgent # <<>>

AgentSends(f) ==
    /\ toHost' = Append(toHost, f)
    /\ UNCHANGED <<callerVars, sessions, child, worker, nextId, reply, caps, events, ops>>

\* The agent answers the request; new sessions get a fresh id, and only
\* sessions it keeps can be loaded or resumed.
AgentAnswers ==
    /\ Serving
    /\ LET r == Head(toAgent)
       IN  /\ \/ /\ r.method = "new"
                 /\ made' = made + 1
                 /\ natives' = natives \cup {made + 1}
                 /\ AgentSends(Response(r.id, r.method, made + 1))
              \/ /\ r.method \in {"initialize", "list"}
                 /\ UNCHANGED <<made, natives>>
                 /\ AgentSends(Response(r.id, r.method, 0))
              \/ /\ r.method \in {"load", "resume"}
                 /\ UNCHANGED <<made, natives>>
                 /\ AgentSends(IF r.native \in natives THEN Response(r.id, r.method, 0)
                                                       ELSE ErrorResponse(r.id, r.method))
    /\ toAgent' = <<>>
    /\ UNCHANGED <<replayed, ill, faults>>

\* session/load replays the history before it answers.
AgentReplays ==
    /\ Serving
    /\ Head(toAgent).method = "load"
    /\ Head(toAgent).native \in natives
    /\ replayed < MaxUpdates
    /\ replayed' = replayed + 1
    /\ AgentSends(Other("update"))
    /\ UNCHANGED <<toAgent, made, natives, ill, faults>>

Misbehave ==
    /\ faults < MaxFaults
    /\ faults' = faults + 1
    /\ ill' = TRUE
    /\ UNCHANGED <<made, natives, replayed>>

\* The agent answers with an error, for example because it wants a login.
AgentRefuses ==
    /\ Serving
    /\ Misbehave
    /\ AgentSends(ErrorResponse(Head(toAgent).id, Head(toAgent).method))
    /\ toAgent' = <<>>

\* A permission request before the answer, or a frame that does not decode.
AgentStrays(kind) ==
    /\ Serving
    /\ Misbehave
    /\ AgentSends(Other(kind))
    /\ UNCHANGED toAgent

\* The agent repeats its answer to the handshake.
AgentRepeats ==
    /\ child = "up"
    /\ nextId = 2 \/ (nextId = 1 /\ toAgent = <<>>)
    /\ Misbehave
    /\ AgentSends(Response(1, "initialize", 0))
    /\ UNCHANGED toAgent

\* The process exits; what it wrote stays in the pipe.
AgentDies ==
    /\ child = "up"
    /\ Misbehave
    /\ child' = "dead"
    /\ toAgent' = <<>>
    /\ UNCHANGED <<callerVars, sessions, worker, nextId, toHost, reply, caps, events, ops>>

\* The user deletes a session with the agent's own tools.
Delete(n) ==
    /\ n \in natives
    /\ natives' = natives \ {n}
    /\ UNCHANGED <<callerVars, sessions, connVars, made, replayed, ill, ops, faults>>

-----------------------------------------------------------------------------

Init ==
    /\ boot = 0 /\ row = 0
    /\ op = "probe" /\ target = 0 /\ step = "idle"
    /\ sessions = <<>>
    /\ child = "none" /\ worker = "ended"
    /\ nextId = 0 /\ toAgent = <<>> /\ toHost = <<>> /\ reply = NoReply
    /\ caps = {} /\ events = 0
    /\ made = 0 /\ natives = {} /\ replayed = 0 /\ ill = FALSE
    /\ ops = 0 /\ faults = 0

Import == \E o \in {"load", "resume"}, n \in 1..made : Open(o, n)

Caller == Recover \/ Spawn \/ Bind \/ RejectAgent \/ BindFails \/ Inspected \/ Install
          \/ Rehydrate

Worker == SendRequest \/ ReadResponse \/ ReadOrphan \/ ReadUpdate \/ ReadPermission
          \/ ReadGarbage \/ ReadEof

Next ==
    \/ Boot \/ Open("new", 0) \/ Open("list", 0) \/ Import
    \/ SpawnFails \/ Caller \/ Worker
    \/ AgentAnswers \/ AgentReplays \/ AgentRefuses
    \/ AgentStrays("permission") \/ AgentStrays("garbage") \/ AgentRepeats \/ AgentDies
    \/ \E n \in natives : Delete(n)

\* The host runs its threads; an agent that is alive answers in the end.
Fairness == WF_vars(Caller) /\ WF_vars(Worker) /\ WF_vars(AgentAnswers)

Spec == Init /\ [][Next]_vars /\ Fairness

-----------------------------------------------------------------------------

Methods == {"initialize", "new", "load", "resume", "list"}

Requests == [id : Nat, method : Methods, native : Nat]

Frames == [kind : {"response", "update", "permission", "garbage"}, id : Nat, ok : BOOLEAN,
           method : Methods \cup {"none"}, native : Nat]

Replies == [ok : BOOLEAN, method : Methods \cup {"none", "error"}, native : Nat]

Rows == [native : Nat, state : {"live", "stored", "recovered", "stale", "unavailable"},
         history : Nat, owed : Nat]

\* The types of the caller, the connection and the agent, and what keeps them
\* together: at rest there is no child process and no worker thread, and a
\* worker exists only with a child.
TypeOK ==
    /\ boot \in Nat /\ row \in 0..Len(sessions)
    /\ op \in Ops /\ target \in Nat
    /\ step \in {"idle", "spawn", "initialize", "bind"}
    /\ sessions \in Seq(Rows)
    /\ child \in {"none", "up", "dead"}
    /\ worker \in {"ended", "idle", "waiting", "parked"}
    /\ step \in {"idle", "spawn"} <=> worker = "ended"
    /\ child = "none" <=> worker = "ended"
    /\ nextId \in 0..2
    /\ toAgent \in Seq(Requests)
    /\ toHost \in Seq(Frames)
    /\ reply \in Replies
    /\ caps \in SUBSET Capabilities
    /\ events \in Nat /\ made \in Nat /\ replayed \in Nat
    /\ natives \subseteq 1..made
    /\ ill \in BOOLEAN /\ ops \in Nat /\ faults \in Nat

\* The caller never takes the answer to another request for its own, whatever
\* the agent repeats: AcpClient correlates responses by id.
OwnReply == reply.ok => reply.method = Asked

\* An imported session shows all the history that session/load replayed before
\* it answered: import_session pumps the event channel before it returns.
ImportWhole == \A s \in DOMAIN sessions : sessions[s].history = sessions[s].owed

\* Recovery calls a session stale only when the agent no longer has it, or
\* misbehaved on this very connection: a missing capability is "unavailable".
StaleForCause ==
    [][\A s \in DOMAIN sessions :
         sessions'[s].state = "stale" /\ sessions[s].state # "stale"
           => sessions[s].native \notin natives \/ ill]_vars

\* Recovery never makes a replacement for a session it cannot resume: "Never
\* spawn a replacement" (recover_stored_session).
NoReplacement == [][op = "recover" /\ step # "idle" => made' = made]_vars

\* An operation gives the mutex back, unless the agent asked for a permission
\* that nobody can answer while the mutex is held.
OpenReturns == (step # "idle") ~> (step = "idle" \/ worker = "parked")

Stored(s) == s \in DOMAIN sessions /\ sessions[s].state = "stored"

\* Every stored session is recovered or gets an explicit state, whatever
\* happened to the rows before it.
RowsSettle == \A s \in 1..MaxOps : Stored(s) ~> (~Stored(s) \/ worker = "parked")

=============================================================================
