------------------------------- MODULE Gateway -------------------------------
(***************************************************************************)
(* The gateway host as its clients see it: the accept loop and connection   *)
(* threads of rust/gateway-server/src/server.rs, the authenticator, devices *)
(* and pairings of rust/host-service/src/state.rs, the lifecycle of         *)
(* rust/host-service/src/host.rs, and the blocking client of                *)
(* rust/gateway-server/src/client.rs that the host CLI uses.                *)
(*                                                                         *)
(* A connection thread loops: look at the shutdown flag, read one message   *)
(* (or time out), append events and heartbeats to the outbound queue, write *)
(* the queue.  Threads share the pairings and devices, each under its own   *)
(* mutex, the flag, and the session manager, whose mutex the pump thread    *)
(* takes as well.                                                           *)
(*                                                                         *)
(* Abstractions.  A command is its request id; CommandOf says what it asks  *)
(* for.  What the session commands do is in AgentTurn, SessionJournal and   *)
(* AgentOpen: here they hold the mutex of the manager until they succeed or *)
(* fail, and those that wait for an agent may hold it for ever.  Event      *)
(* subscriptions and partial writes are in GatewayReplay.  Parameters are   *)
(* well formed.  A connection of a client starts after the thread of its    *)
(* previous one has ended.                                                  *)
(***************************************************************************)
EXTENDS Integers, Sequences, FiniteSets

CONSTANTS Conns,       \* clients, each with one connection at a time
          Requests,    \* request ids; every client numbers its own commands
          CommandOf,   \* CommandOf[c][r]: the command client c sends as r
          Offers,      \* Offers[c]: credentials client c may present
          Granted,     \* Granted[c]: scopes the authenticator gives client c
          CacheLimit,  \* COMPLETED_COMMAND_LIMIT
          Codes,       \* values of a pairing code
          MaxOps,      \* bound: connects and calls of all clients, and faults
          MaxFaults    \* bound: time-outs, blocked writes, lost connections,
                       \* failures of accept, and heartbeats

\* Kinds of commands.  All but the last ones are carried out under the mutex of
\* the session manager, and some of them wait there for an agent: to list its
\* sessions, in the handshake of create and import, or for the reply of the
\* worker to set_mode and set_config_option.
ReadCommands  == {"read", "status", "list_agents"}
InputCommands == {"input", "respond", "create", "set_mode", "set_config_option"}
AskAgent      == {"list_agents", "create", "set_mode", "set_config_option"}
HostCommands  == {"pair", "revoke", "stop"}
Commands == ReadCommands \cup InputCommands \cup HostCommands

Scopes == {"ReadSessions", "CreateSession", "SendInput", "RespondPermission", "ManageHost"}

ASSUME GatewayAssumption ==
    /\ CommandOf \in [Conns -> [Requests -> Commands]]
    /\ Granted \in [Conns -> SUBSET Scopes]
    /\ CacheLimit \in Nat \ {0}
    /\ "dev" \notin Codes /\ "skip" \notin Codes
    /\ Offers \in [Conns -> SUBSET (Codes \cup {"dev", "skip"})]
    /\ {MaxOps, MaxFaults} \subseteq Nat

VARIABLES
    \* the host
    phase,     \* serve: accepting, joining the pump, or returned
    shutdown,  \* the flag that host.stop raises
    pump,      \* the thread that pumps the sessions: running, held up in pump(), or done
    pairings,  \* PairingRecords in the order of their creation
    devices,   \* DeviceRecords in the order of their creation, with the pairing
               \* each is from (history)
    \* the thread of a connection
    thread,    \* where its loop is
    minting,   \* the pairing it has consumed and not yet made a device of
    welcomed,  \* ConnState.welcome_sent
    completed, \* acks of completed commands, oldest first
    outbound,  \* frames not yet written
    \* the socket
    inbox, wire,
    \* the client
    client,    \* off, waiting for the welcome, idle, or inside call
    asked,     \* the request id of its last call
    request,   \* a request id is fresh, open (sent, no answer) or answered
    \* history
    ran,       \* acks of the commands a connection has carried out or denied
    applied,   \* how often a client's command has changed a session
    answer,    \* what the last call returned
    ops, faults

hostVars   == <<phase, shutdown, pump>>
authVars   == <<pairings, devices>>
connVars   == <<thread, minting, welcomed, completed, outbound>>
clientVars == <<client, asked, request, answer>>
budget     == <<ops, faults>>
vars == <<hostVars, authVars, connVars, inbox, wire, clientVars, ran, applied, budget>>

NoRequest == "none"

Hello(cred) == [type |-> "hello", id |-> NoRequest, res |-> cred]
Command(r)  == [type |-> "command", id |-> r, res |-> ""]
Pong        == [type |-> "pong", id |-> NoRequest, res |-> ""]
Ping        == [type |-> "ping", id |-> NoRequest, res |-> ""]
Welcome     == [type |-> "welcome", id |-> NoRequest, res |-> "ok"]
ErrorFrame  == [type |-> "error", id |-> NoRequest, res |-> ""]
Ack(r, res) == [type |-> "ack", id |-> r, res |-> res]

Results == {"ok", "error", "denied", "unauthenticated"}
Credentials == Codes \cup {"dev"}

Alive(c) == thread[c] \in {"check", "read", "mint", "session", "write"}

FaultLeft == faults < MaxFaults /\ ops + faults < MaxOps

\* A connection thread holds the mutex of the session manager.
Locked == \E c \in Conns : thread[c] = "session"

-----------------------------------------------------------------------------
(* Clients: GatewayClient *)

\* connect: a TCP connection that waits in the backlog, and the hello on it.
\* A raw client may skip the hello and go on to commands.
Connect(c, cred) ==
    /\ phase = "serving"
    /\ client[c] = "off"
    /\ thread[c] = "ended"
    /\ ops + faults < MaxOps
    /\ ops' = ops + 1
    /\ thread' = [thread EXCEPT ![c] = "backlog"]
    /\ client' = [client EXCEPT ![c] = IF cred = "skip" THEN "idle" ELSE "hello"]
    /\ inbox' = [inbox EXCEPT ![c] = IF cred = "skip" THEN <<>> ELSE <<Hello(cred)>>]
    /\ welcomed' = [welcomed EXCEPT ![c] = FALSE]
    /\ completed' = [completed EXCEPT ![c] = <<>>]
    /\ outbound' = [outbound EXCEPT ![c] = <<>>]
    /\ wire' = [wire EXCEPT ![c] = <<>>]
    /\ ran' = [ran EXCEPT ![c] = <<>>]
    /\ asked' = [asked EXCEPT ![c] = NoRequest]
    /\ UNCHANGED <<hostVars, authVars, minting, request, answer, applied, faults>>

\* call, and a retry under the id of a call that got no answer.
Call(c, r) ==
    /\ client[c] = "idle"
    /\ ops + faults < MaxOps
    /\ request[c][r] \in {"fresh", "open"}
    /\ ops' = ops + 1
    /\ client' = [client EXCEPT ![c] = "call"]
    /\ asked' = [asked EXCEPT ![c] = r]
    /\ request' = [request EXCEPT ![c][r] = "open"]
    /\ inbox' = [inbox EXCEPT ![c] = Append(@, Command(r))]
    /\ UNCHANGED <<hostVars, authVars, connVars, wire, answer, ran, applied,
                   faults>>

\* connect reads frames until the welcome or an error arrives.
ReceiveHello(c) ==
    /\ client[c] = "hello"
    /\ wire[c] # <<>>
    /\ wire' = [wire EXCEPT ![c] = Tail(@)]
    /\ client' = [client EXCEPT ![c] = CASE Head(wire[c]) = Welcome -> "idle"
                                         [] Head(wire[c]) = ErrorFrame -> "off"
                                         [] OTHER -> "hello"]
    /\ UNCHANGED <<hostVars, authVars, connVars, inbox, asked, request, answer, ran,
                   applied, budget>>

\* Mutation: call takes the next ack for its own.
ReceiveAnyAck(c) ==
    /\ client[c] = "call"
    /\ wire[c] # <<>>
    /\ LET f == Head(wire[c]) IN
       /\ wire' = [wire EXCEPT ![c] = Tail(@)]
       /\ IF f.type = "ack"
          THEN /\ client' = [client EXCEPT ![c] = "idle"]
               /\ request' = [request EXCEPT ![c][asked[c]] = "answered"]
               /\ answer' = [answer EXCEPT ![c] = Ack(asked[c], f.res)]
          ELSE UNCHANGED <<client, request, answer>>
       /\ inbox' = IF f = Ping THEN [inbox EXCEPT ![c] = Append(@, Pong)] ELSE inbox
    /\ UNCHANGED <<hostVars, authVars, connVars, asked, ran, applied, budget>>

\* call reads frames until the ack of its request: acks of other requests and
\* events are skipped, a ping is answered.
Receive(c) ==
    /\ client[c] = "call"
    /\ wire[c] # <<>>
    /\ LET f == Head(wire[c]) IN
       /\ wire' = [wire EXCEPT ![c] = Tail(@)]
       /\ IF f.type = "ack" /\ f.id = asked[c]
          THEN /\ client' = [client EXCEPT ![c] = "idle"]
               /\ request' = [request EXCEPT ![c][asked[c]] = "answered"]
               /\ answer' = [answer EXCEPT ![c] = f]
          ELSE UNCHANGED <<client, request, answer>>
       /\ inbox' = IF f = Ping THEN [inbox EXCEPT ![c] = Append(@, Pong)] ELSE inbox
    /\ UNCHANGED <<hostVars, authVars, connVars, asked, ran, applied, budget>>

\* Nothing comes from the thread because it is in the manager or waits to be:
\* the read of the client is bound to time out.
Stalled(c) ==
    /\ wire[c] = <<>>
    /\ \/ thread[c] = "session"
       \/ /\ thread[c] = "read"
          /\ inbox[c] # <<>>
          /\ Head(inbox[c]).type = "command"
          /\ Locked

\* The read times out: call returns an error and leaves the connection open.
Timeout(c) ==
    /\ client[c] = "call"
    /\ Stalled(c) \/ FaultLeft
    /\ faults' = IF Stalled(c) THEN faults ELSE faults + 1
    /\ client' = [client EXCEPT ![c] = "idle"]
    /\ UNCHANGED <<hostVars, authVars, connVars, inbox, wire, asked, request, answer, ran,
                   applied, ops>>

\* The socket is closed and drained: connect or call returns Closed.
Closed(c) ==
    /\ client[c] \in {"hello", "call"}
    /\ thread[c] = "ended"
    /\ wire[c] = <<>>
    /\ client' = [client EXCEPT ![c] = "off"]
    /\ UNCHANGED <<hostVars, authVars, connVars, inbox, wire, asked, request, answer, ran,
                   applied, budget>>

\* The client goes away: the CLI has its result, or the network is lost.
Leave(c) ==
    /\ client[c] \in {"idle", "call"}
    /\ client[c] = "call" => FaultLeft
    /\ faults' = IF client[c] = "call" THEN faults + 1 ELSE faults
    /\ client' = [client EXCEPT ![c] = "off"]
    /\ wire' = [wire EXCEPT ![c] = <<>>]
    /\ UNCHANGED <<hostVars, authVars, connVars, inbox, asked, request, answer, ran,
                   applied, ops>>

-----------------------------------------------------------------------------
(* Connection threads: run, handle_connection, process_frame, dispatch *)

Ids(acks) == {acks[i].id : i \in DOMAIN acks}

\* Mutation: the cache forgets a command one completion too early.
RememberOffByOne(acks, ack) ==
    IF Len(acks) + 1 < CacheLimit THEN Append(acks, ack) ELSE Append(Tail(acks), ack)

\* Mutation: the cache keeps the id of a command and not its ack.
RememberId(acks, ack) ==
    IF Len(acks) < CacheLimit THEN Append(acks, ack.id) ELSE Append(Tail(acks), ack.id)

\* remember_command: push the ack, drop the oldest over the limit.
Remember(acks, ack) ==
    IF Len(acks) < CacheLimit THEN Append(acks, ack) ELSE Append(Tail(acks), ack)

\* authorize: the scopes a command needs.  One it does not list needs none, and
\* set_config_option is not listed, though the table of commands in
\* protocol/gateway-v1.md puts it under "input".
ScopesOf(cmd) ==
    CASE cmd \in {"read", "list_agents"} -> {"ReadSessions"}
      [] cmd = "create"                  -> {"CreateSession"}
      [] cmd \in {"input", "set_mode"}   -> {"SendInput"}
      [] cmd = "respond"                 -> {"RespondPermission"}
      [] cmd = "set_config_option"       -> {}
      [] cmd \in {"status"} \cup HostCommands -> {"ManageHost"}

Authorized(c, cmd) == ScopesOf(cmd) \subseteq Granted[c]

\* The accept loop of run, and the upgrade of the connection.
Accept(c) ==
    /\ phase = "serving"
    /\ thread[c] = "backlog"
    /\ thread' = [thread EXCEPT ![c] = "check"]
    /\ UNCHANGED <<hostVars, authVars, minting, welcomed, completed, outbound, inbox, wire,
                   clientVars, ran, applied, budget>>

\* The top of the loop: a thread that sees the flag closes its connection.
CheckShutdown(c) ==
    /\ thread[c] = "check"
    /\ thread' = [thread EXCEPT ![c] = IF shutdown THEN "ended" ELSE "read"]
    /\ UNCHANGED <<hostVars, authVars, minting, welcomed, completed, outbound, inbox, wire,
                   clientVars, ran, applied, budget>>

\* A read that times out or brings a pong; with an empty queue the write loop
\* has nothing to do.
ReadNothing(c) ==
    /\ thread[c] = "read"
    /\ \/ /\ inbox[c] = <<>>
          /\ client[c] # "off"
          /\ UNCHANGED inbox
       \/ /\ inbox[c] # <<>>
          /\ Head(inbox[c]) = Pong
          /\ inbox' = [inbox EXCEPT ![c] = Tail(@)]
    /\ thread' = [thread EXCEPT ![c] = IF outbound[c] = <<>> THEN "check" ELSE "write"]
    /\ UNCHANGED <<hostVars, authVars, minting, welcomed, completed, outbound, wire,
                   clientVars, ran, applied, budget>>

\* The client has closed the connection: what it sent before is read first.
ReadClose(c) ==
    /\ thread[c] = "read"
    /\ inbox[c] = <<>>
    /\ client[c] = "off"
    /\ thread' = [thread EXCEPT ![c] = "ended"]
    /\ UNCHANGED <<hostVars, authVars, minting, welcomed, completed, outbound, inbox, wire,
                   clientVars, ran, applied, budget>>

\* The read times out and a heartbeat is due.
Heartbeat(c) ==
    /\ thread[c] = "read"
    /\ inbox[c] = <<>>
    /\ FaultLeft
    /\ faults' = faults + 1
    /\ outbound' = [outbound EXCEPT ![c] = Append(@, Ping)]
    /\ thread' = [thread EXCEPT ![c] = "write"]
    /\ UNCHANGED <<hostVars, authVars, minting, welcomed, completed, inbox, wire,
                   clientVars, ran, applied, ops>>

\* The thread takes a frame of the given type and queues an answer to it.  A
\* session command stays at the head of the inbox while it is in the manager.
Reply(c, type, frame) ==
    /\ thread[c] \in {"read", "session"}
    /\ inbox[c] # <<>>
    /\ Head(inbox[c]).type = type
    /\ inbox' = [inbox EXCEPT ![c] = Tail(@)]
    /\ outbound' = [outbound EXCEPT ![c] = Append(@, frame)]
    /\ thread' = [thread EXCEPT ![c] = "write"]
    /\ UNCHANGED <<minting, wire, clientVars, budget>>

Requested(c) == Head(inbox[c]).id

Matches(p, code) == pairings[p].code = code /\ pairings[p].state = "open"

\* Mutation: the pairing is marked as consumed when its device is stored.
ConsumePairingLate(c, p) ==
    /\ thread[c] = "read"
    /\ inbox[c] # <<>>
    /\ Head(inbox[c]).type = "hello"
    /\ Matches(p, Head(inbox[c]).res)
    /\ inbox' = [inbox EXCEPT ![c] = Tail(@)]
    /\ minting' = [minting EXCEPT ![c] = p]
    /\ thread' = [thread EXCEPT ![c] = "mint"]
    /\ UNCHANGED <<hostVars, authVars, welcomed, completed, outbound, wire, clientVars, ran,
                   applied, budget>>

\* authenticate, first part: an open pairing with this code is consumed under
\* the mutex of the pairings.
ConsumePairing(c, p) ==
    /\ thread[c] = "read"
    /\ inbox[c] # <<>>
    /\ Head(inbox[c]).type = "hello"
    /\ Matches(p, Head(inbox[c]).res)
    /\ pairings' = [pairings EXCEPT ![p].state = "consumed"]
    /\ inbox' = [inbox EXCEPT ![c] = Tail(@)]
    /\ minting' = [minting EXCEPT ![c] = p]
    /\ thread' = [thread EXCEPT ![c] = "mint"]
    /\ UNCHANGED <<hostVars, devices, welcomed, completed, outbound, wire, clientVars, ran,
                   applied, budget>>

\* authenticate, second part: the new device enters the table under the mutex
\* of the devices, and the connection is welcomed.
MintDevice(c) ==
    /\ thread[c] = "mint"
    /\ devices' = Append(devices, [from |-> minting[c], revoked |-> FALSE])
    /\ minting' = [minting EXCEPT ![c] = 0]
    /\ welcomed' = [welcomed EXCEPT ![c] = TRUE]
    /\ outbound' = [outbound EXCEPT ![c] = Append(@, Welcome)]
    /\ thread' = [thread EXCEPT ![c] = "write"]
    /\ UNCHANGED <<hostVars, pairings, completed, inbox, wire, clientVars, ran, applied,
                   budget>>

\* A hello with the development credential.  The token of a device, which comes
\* before it in authenticate, is in no answer of the host: no client has one to
\* present, and the revoked flag is only ever listed.
WelcomeDev(c) ==
    /\ Reply(c, "hello", Welcome)
    /\ Head(inbox[c]).res = "dev"
    /\ welcomed' = [welcomed EXCEPT ![c] = TRUE]
    /\ UNCHANGED <<hostVars, authVars, completed, ran, applied>>

\* A hello of another version, or with no valid credential: the connection
\* stays open.
RejectHello(c) ==
    /\ Reply(c, "hello", ErrorFrame)
    /\ Head(inbox[c]).res # "dev"
    /\ \A p \in DOMAIN pairings : ~Matches(p, Head(inbox[c]).res)
    /\ UNCHANGED <<hostVars, authVars, welcomed, completed, ran, applied>>

\* A command before the hello is refused and not remembered.
RefuseUnwelcome(c) ==
    /\ Reply(c, "command", Ack(Requested(c), "unauthenticated"))
    /\ ~welcomed[c]
    /\ UNCHANGED <<hostVars, authVars, welcomed, completed, ran, applied>>

\* Mutation: a repeated command is dropped instead of answered again.
AnswerFromCacheSilently(c) ==
    /\ thread[c] = "read"
    /\ inbox[c] # <<>>
    /\ Head(inbox[c]).type = "command"
    /\ welcomed[c]
    /\ Requested(c) \in Ids(completed[c])
    /\ inbox' = [inbox EXCEPT ![c] = Tail(@)]
    /\ thread' = [thread EXCEPT ![c] = "write"]
    /\ UNCHANGED <<hostVars, authVars, minting, welcomed, completed, outbound, wire,
                   clientVars, ran, applied, budget>>

\* A command this connection remembers is answered with the ack it had.
AnswerFromCache(c) ==
    /\ welcomed[c]
    /\ \E i \in DOMAIN completed[c] :
        /\ Reply(c, "command", completed[c][i])
        /\ completed[c][i].id = Requested(c)
    /\ UNCHANGED <<hostVars, authVars, welcomed, completed, ran, applied>>

\* The thread answers a new command and remembers the ack.
Complete(c, ack) ==
    /\ welcomed[c]
    /\ Reply(c, "command", ack)
    /\ Requested(c) \notin Ids(completed[c])
    /\ completed' = [completed EXCEPT ![c] = Remember(@, ack)]
    /\ ran' = [ran EXCEPT ![c] = Append(@, ack)]
    /\ UNCHANGED welcomed

\* A command the scopes do not allow.
Deny(c) ==
    /\ Complete(c, Ack(Requested(c), "denied"))
    /\ ~Authorized(c, CommandOf[c][Requested(c)])
    /\ UNCHANGED <<hostVars, authVars, applied>>

\* The thread carries out a command of the given kind.
Execute(c, cmd, res) ==
    /\ Complete(c, Ack(Requested(c), res))
    /\ CommandOf[c][Requested(c)] = cmd
    /\ Authorized(c, cmd)

\* A new session command that is allowed takes the mutex of the manager, or
\* waits here for it.
EnterManager(c) ==
    /\ thread[c] = "read"
    /\ inbox[c] # <<>>
    /\ Head(inbox[c]).type = "command"
    /\ welcomed[c]
    /\ Requested(c) \notin Ids(completed[c])
    /\ CommandOf[c][Requested(c)] \in ReadCommands \cup InputCommands
    /\ Authorized(c, CommandOf[c][Requested(c)])
    /\ ~Locked
    /\ thread' = [thread EXCEPT ![c] = "session"]
    /\ UNCHANGED <<hostVars, authVars, minting, welcomed, completed, outbound, inbox, wire,
                   clientVars, ran, applied, budget>>

\* Lists, inspect, history, status, diagnostics: the thread leaves the manager
\* with what it read, or with an error for an unknown session.
Inspect(c) ==
    /\ thread[c] = "session"
    /\ \E cmd \in ReadCommands, res \in {"ok", "error"} : Execute(c, cmd, res)
    /\ UNCHANGED <<hostVars, authVars, applied>>

\* session.create, input, cancel, rename, archive, set_mode, set_config_option,
\* permission.respond: the manager succeeds or returns an error.
Input(c) ==
    /\ thread[c] = "session"
    /\ \E cmd \in InputCommands :
       \/ /\ Execute(c, cmd, "ok")
          /\ applied' = [applied EXCEPT ![c][Requested(c)] = @ + 1]
       \/ /\ Execute(c, cmd, "error")
          /\ UNCHANGED applied
    /\ UNCHANGED <<hostVars, authVars>>

\* begin_pairing: six digits, not checked against the codes in use.
BeginPairing(c, code) ==
    /\ Execute(c, "pair", "ok")
    /\ pairings' = Append(pairings, [code |-> code, state |-> "open"])
    /\ UNCHANGED <<hostVars, devices, applied>>

\* revoke_device marks a known device.
RevokeDevice(c) ==
    /\ \/ \E d \in DOMAIN devices :
            /\ Execute(c, "revoke", "ok")
            /\ devices' = [devices EXCEPT ![d].revoked = TRUE]
       \/ /\ Execute(c, "revoke", "error")
          /\ UNCHANGED devices
    /\ UNCHANGED <<hostVars, pairings, applied>>

\* host.stop, host.shutdown, host.restart: raise the flag and answer.
Stop(c) ==
    /\ Execute(c, "stop", "ok")
    /\ shutdown' = TRUE
    /\ UNCHANGED <<phase, pump, authVars, applied>>

\* The queue is written and flushed; a gone client reads none of it.
Write(c) ==
    /\ thread[c] = "write"
    /\ wire' = [wire EXCEPT ![c] = IF client[c] = "off" THEN @ ELSE @ \o outbound[c]]
    /\ outbound' = [outbound EXCEPT ![c] = <<>>]
    /\ thread' = [thread EXCEPT ![c] = "check"]
    /\ UNCHANGED <<hostVars, authVars, minting, welcomed, completed, inbox, clientVars, ran,
                   applied, budget>>

\* The peer's window is full: the queue waits for the next turn of the loop.
\* Or the socket fails: the connection ends with what was queued.
WriteFails(c) ==
    /\ thread[c] = "write"
    /\ outbound[c] # <<>>
    /\ FaultLeft
    /\ faults' = faults + 1
    /\ thread' \in {[thread EXCEPT ![c] = "check"], [thread EXCEPT ![c] = "ended"]}
    /\ UNCHANGED <<hostVars, authVars, minting, welcomed, completed, outbound, inbox, wire,
                   clientVars, ran, applied, ops>>

-----------------------------------------------------------------------------
(* The host: Host::serve and the passing of time *)

\* A pairing code outlives its time to live.
ExpirePairing(p) ==
    /\ pairings[p].state = "open"
    /\ pairings' = [pairings EXCEPT ![p].state = "expired"]
    /\ UNCHANGED <<hostVars, devices, connVars, inbox, wire, clientVars, ran, applied, budget>>

\* run returns when it sees the flag, or when accept fails; the listeners and
\* the connections in their backlog go with it.
RunReturns ==
    /\ phase = "serving"
    /\ shutdown \/ FaultLeft
    /\ faults' = IF shutdown THEN faults ELSE faults + 1
    /\ phase' = "joining"
    /\ thread' = [c \in Conns |-> IF thread[c] = "backlog" THEN "ended" ELSE thread[c]]
    /\ UNCHANGED <<shutdown, pump, authVars, minting, welcomed, completed, outbound, inbox,
                   wire, clientVars, ran, applied, ops>>

\* Mutation: the pump thread waits for the host to be stopped.
PumpEndsLast ==
    /\ pump = "running"
    /\ phase = "stopped"
    /\ pump' = "done"
    /\ UNCHANGED <<phase, shutdown, authVars, connVars, inbox, wire, clientVars, ran, applied,
                   budget>>

\* The pump thread sees the flag at the top of its loop.
PumpEnds ==
    /\ pump = "running"
    /\ shutdown
    /\ pump' = "done"
    /\ UNCHANGED <<phase, shutdown, authVars, connVars, inbox, wire, clientVars, ran, applied,
                   budget>>

\* A thread that has passed the test of the flag finds the manager locked and
\* waits in pump().  A pass that finds it free changes nothing here.
PumpBlocks ==
    /\ pump = "running"
    /\ Locked
    /\ pump' = "waiting"
    /\ UNCHANGED <<phase, shutdown, authVars, connVars, inbox, wire, clientVars, ran, applied,
                   budget>>

\* pump() gets the mutex and returns; the thread sleeps and tests the flag.
PumpReturns ==
    /\ pump = "waiting"
    /\ ~Locked
    /\ pump' = IF shutdown THEN "done" ELSE "running"
    /\ UNCHANGED <<phase, shutdown, authVars, connVars, inbox, wire, clientVars, ran, applied,
                   budget>>

\* serve has joined the pump and returns; the process exits and takes the
\* connection threads with it, wherever they are.
ServeReturns ==
    /\ phase = "joining"
    /\ pump = "done"
    /\ phase' = "stopped"
    /\ thread' = [c \in Conns |-> "ended"]
    /\ UNCHANGED <<shutdown, pump, authVars, minting, welcomed, completed, outbound, inbox,
                   wire, clientVars, ran, applied, budget>>

Init ==
    /\ phase = "serving"
    /\ shutdown = FALSE
    /\ pump = "running"
    /\ pairings = <<>>
    /\ devices = <<>>
    /\ thread = [c \in Conns |-> "ended"]
    /\ minting = [c \in Conns |-> 0]
    /\ welcomed = [c \in Conns |-> FALSE]
    /\ completed = [c \in Conns |-> <<>>]
    /\ outbound = [c \in Conns |-> <<>>]
    /\ inbox = [c \in Conns |-> <<>>]
    /\ wire = [c \in Conns |-> <<>>]
    /\ client = [c \in Conns |-> "off"]
    /\ asked = [c \in Conns |-> NoRequest]
    /\ request = [c \in Conns |-> [r \in Requests |-> "fresh"]]
    /\ ran = [c \in Conns |-> <<>>]
    /\ applied = [c \in Conns |-> [r \in Requests |-> 0]]
    /\ answer = [c \in Conns |-> Ack(NoRequest, "ok")]
    /\ ops = 0 /\ faults = 0

\* The steps of a connection thread.
ThreadStep(c) ==
    \/ CheckShutdown(c) \/ ReadNothing(c) \/ ReadClose(c)
    \/ \E p \in DOMAIN pairings : ConsumePairing(c, p)
    \/ MintDevice(c) \/ WelcomeDev(c) \/ RejectHello(c)
    \/ RefuseUnwelcome(c) \/ AnswerFromCache(c) \/ Deny(c)
    \/ EnterManager(c) \/ Inspect(c) \/ Input(c) \/ RevokeDevice(c) \/ Stop(c)
    \/ \E code \in Codes : BeginPairing(c, code)
    \/ Write(c)

\* The thread is in a command that waits for an agent.
AwaitsAgent(c) == thread[c] = "session" /\ CommandOf[c][Requested(c)] \in AskAgent

ClientStep(c) == ReceiveHello(c) \/ Receive(c) \/ Closed(c)

Next ==
    \/ \E c \in Conns :
        \/ \E cred \in Offers[c] : Connect(c, cred)
        \/ \E r \in Requests : Call(c, r)
        \/ ClientStep(c)
        \/ Timeout(c) \/ Leave(c)
        \/ Accept(c) \/ ThreadStep(c)
        \/ Heartbeat(c) \/ WriteFails(c)
    \/ \E p \in DOMAIN pairings : ExpirePairing(p)
    \/ RunReturns \/ PumpEnds \/ PumpBlocks \/ PumpReturns \/ ServeReturns

\* The threads of the host run on, and so does a client inside connect or call,
\* whose read ends after ten seconds when nothing comes.  Nothing obliges an
\* agent to answer, a client to call or a fault to happen.
Fairness ==
    /\ \A c \in Conns :
        /\ WF_vars(Accept(c)) /\ WF_vars(~AwaitsAgent(c) /\ ThreadStep(c))
        /\ WF_vars(ClientStep(c)) /\ WF_vars(Stalled(c) /\ Timeout(c))
    /\ WF_vars(shutdown /\ RunReturns) /\ WF_vars(ServeReturns)
    /\ WF_vars(PumpEnds) /\ WF_vars(PumpReturns)

Spec == Init /\ [][Next]_vars /\ Fairness

-----------------------------------------------------------------------------
(* Properties *)

Frame == [type : {"hello", "command", "pong", "ping", "welcome", "error", "ack"},
          id : Requests \cup {NoRequest}, res : Results \cup Credentials \cup {""}]

\* The types of host, threads, socket and clients (HostState, ConnState).
TypeOK ==
    /\ phase \in {"serving", "joining", "stopped"}
    /\ shutdown \in BOOLEAN
    /\ pump \in {"running", "waiting", "done"}
    /\ pairings \in Seq([code : Codes, state : {"open", "expired", "consumed"}])
    /\ devices \in Seq([from : Nat, revoked : BOOLEAN])
    /\ thread \in [Conns -> {"backlog", "check", "read", "mint", "session", "write", "ended"}]
    /\ minting \in [Conns -> Nat]
    /\ welcomed \in [Conns -> BOOLEAN]
    /\ completed \in [Conns -> Seq(Frame)]
    /\ outbound \in [Conns -> Seq(Frame)]
    /\ inbox \in [Conns -> Seq(Frame)]
    /\ wire \in [Conns -> Seq(Frame)]
    /\ client \in [Conns -> {"off", "hello", "idle", "call"}]
    /\ asked \in [Conns -> Requests \cup {NoRequest}]
    /\ request \in [Conns -> [Requests -> {"fresh", "open", "answered"}]]
    /\ ran \in [Conns -> Seq(Frame)]
    /\ applied \in [Conns -> [Requests -> Nat]]
    /\ answer \in [Conns -> Frame]
    /\ ops \in Nat /\ faults \in Nat

\* A pairing code mints one device: however the hellos of several connections
\* interleave between the two mutexes of authenticate, every consumed pairing
\* has exactly one device or one thread that is about to store it.
PairedOnce ==
    /\ \A i, j \in DOMAIN devices : devices[i].from = devices[j].from => i = j
    /\ \A p \in DOMAIN pairings :
        pairings[p].state = "consumed" <=>
            \/ \E i \in DOMAIN devices : devices[i].from = p
            \/ \E c \in Conns : minting[c] = p
    /\ \A c \in Conns : minting[c] # 0 =>
        /\ \A d \in Conns : minting[d] = minting[c] => d = c
        /\ \A i \in DOMAIN devices : devices[i].from # minting[c]

\* On one connection a command is carried out again only when more than
\* CacheLimit - 1 others were completed in between: inside that window a retry
\* is answered from completed_commands, whatever time-outs raced the first ack.
RetryWindow ==
    \A c \in Conns : \A i, j \in DOMAIN ran[c] :
        i < j /\ ran[c][i].id = ran[c][j].id => j - i > CacheLimit

\* What a call returns is the ack of the command it sent and the result that
\* command really had on this connection, though acks of timed-out calls
\* arrive late and other clients use the same request ids.
AnswerIsOwn ==
    \A c \in Conns : client[c] = "idle" /\ asked[c] # NoRequest
                        /\ request[c][asked[c]] = "answered" =>
        /\ answer[c].id = asked[c]
        /\ \/ answer[c].res = "unauthenticated" /\ ~welcomed[c]
           \/ \E i \in DOMAIN ran[c] : ran[c][i] = answer[c]

\* A call always comes back: its ack arrives, the host stops or the connection
\* breaks and the closed socket ends it, or the read times out because the
\* thread is held up in the session manager.
CallReturns == \A c \in Conns : (client[c] = "call") ~> (client[c] # "call")

\* host.stop stops the host: once the flag is raised, the accept loop, the
\* pump and every connection end and serve returns, unless a command that waits
\* for an agent keeps the mutex of the manager for ever (create_session, import,
\* list_agent_sessions, set_mode, set_config_option of manager.rs): serve, which
\* joins the pump, then waits as well.
StopStopsUnlessHeld ==
    []<>~Locked => (shutdown ~> (phase = "stopped" /\ \A c \in Conns : ~Alive(c)))

\* A command is carried out at most once for one request id.
OncePerRequest == \A c \in Conns : \A r \in Requests : applied[c][r] <= 1
=============================================================================
