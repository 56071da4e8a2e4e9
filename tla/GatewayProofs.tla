---------------------------- MODULE GatewayProofs ----------------------------
(***************************************************************************)
(* What Gateway promises for every number of clients, requests, pairing     *)
(* codes, operations and faults, and for every limit of the cache of        *)
(* completed commands: the types, one device per pairing, the window in     *)
(* which a retry is not carried out again, and that a call returns the      *)
(* result of its own command.                                               *)
(***************************************************************************)
EXTENDS Gateway, SequenceTheorems, TLAPS

LEMMA FrameSeq ==
    ASSUME NEW q \in Seq(Frame), NEW p \in Seq(Frame), NEW f \in Frame
    PROVE  /\ Append(q, f) \in Seq(Frame)
           /\ q \o p \in Seq(Frame)
           /\ q # <<>> => Head(q) \in Frame /\ Tail(q) \in Seq(Frame)
BY AppendProperties, ConcatProperties, HeadTailProperties

LEMMA EmptyFrames == <<>> \in Seq(Frame) /\ Len(<<>>) = 0 /\ DOMAIN <<>> = {}
BY EmptySeq, LenProperties

LEMMA FrameTypes ==
    /\ \A cred \in Credentials : Hello(cred) \in Frame /\ <<Hello(cred)>> \in Seq(Frame)
    /\ \A r \in Requests \cup {NoRequest} :
          /\ Command(r) \in Frame
          /\ \A res \in Results : Ack(r, res) \in Frame
    /\ Pong \in Frame /\ Ping \in Frame /\ Welcome \in Frame /\ ErrorFrame \in Frame
<1>1. \A cred \in Credentials : Hello(cred) \in Frame
    BY DEF Hello, Frame
<1>2. \A f \in Frame : <<f>> \in Seq(Frame)
    OBVIOUS
<1>3. \A r \in Requests \cup {NoRequest} : Command(r) \in Frame
    BY DEF Command, Frame
<1>4. \A r \in Requests \cup {NoRequest} : \A res \in Results : Ack(r, res) \in Frame
    BY DEF Ack, Frame
<1>5. Pong \in Frame /\ Ping \in Frame /\ Welcome \in Frame /\ ErrorFrame \in Frame
    BY DEF Pong, Ping, Welcome, ErrorFrame, Frame, Results
<1>6. QED
    BY <1>1, <1>2, <1>3, <1>4, <1>5

\* The parts of TypeOK that go together in the actions.
SocketType ==
    /\ outbound \in [Conns -> Seq(Frame)]
    /\ inbox \in [Conns -> Seq(Frame)]
    /\ wire \in [Conns -> Seq(Frame)]

CacheType ==
    /\ welcomed \in [Conns -> BOOLEAN]
    /\ completed \in [Conns -> Seq(Frame)]
    /\ ran \in [Conns -> Seq(Frame)]
    /\ applied \in [Conns -> [Requests -> Nat]]

Threads == {"backlog", "check", "read", "mint", "session", "write", "ended"}

HostType ==
    /\ phase \in {"serving", "joining", "stopped"}
    /\ shutdown \in BOOLEAN
    /\ pump \in {"running", "waiting", "done"}

AuthType ==
    /\ pairings \in Seq([code : Codes, state : {"open", "expired", "consumed"}])
    /\ devices \in Seq([from : Nat, revoked : BOOLEAN])

ThreadType ==
    /\ thread \in [Conns -> Threads]
    /\ minting \in [Conns -> Nat]

ClientType ==
    /\ client \in [Conns -> {"off", "hello", "idle", "call"}]
    /\ asked \in [Conns -> Requests \cup {NoRequest}]
    /\ request \in [Conns -> [Requests -> {"fresh", "open", "answered"}]]
    /\ answer \in [Conns -> Frame]

BudgetType == ops \in Nat /\ faults \in Nat

LEMMA TypeParts ==
    /\ TypeOK <=> /\ HostType /\ AuthType /\ ThreadType /\ CacheType /\ SocketType
                  /\ ClientType /\ BudgetType
    /\ TypeOK' <=> /\ HostType' /\ AuthType' /\ ThreadType' /\ CacheType' /\ SocketType'
                   /\ ClientType' /\ BudgetType'
BY DEF TypeOK, HostType, AuthType, ThreadType, CacheType, SocketType, ClientType, BudgetType,
    Threads

\* What the parts that an action leaves alone keep.
LEMMA Untouched ==
    /\ HostType /\ UNCHANGED hostVars => HostType'
    /\ AuthType /\ UNCHANGED authVars => AuthType'
    /\ ThreadType /\ UNCHANGED <<thread, minting>> => ThreadType'
    /\ CacheType /\ UNCHANGED <<welcomed, completed, ran, applied>> => CacheType'
    /\ SocketType /\ UNCHANGED <<outbound, inbox, wire>> => SocketType'
    /\ ClientType /\ UNCHANGED clientVars => ClientType'
    /\ BudgetType /\ UNCHANGED budget => BudgetType'
BY DEF HostType, AuthType, ThreadType, CacheType, SocketType, ClientType, BudgetType, hostVars,
    authVars, clientVars, budget

\* A frame read, and the answer to it queued.
LEMMA ReplyType ==
    ASSUME TypeOK, NEW c \in Conns, NEW type, NEW frame \in Frame, Reply(c, type, frame)
    PROVE  SocketType' /\ ThreadType' /\ ClientType' /\ BudgetType'
<1>1. /\ inbox[c] \in Seq(Frame) /\ outbound[c] \in Seq(Frame) /\ inbox[c] # <<>>
    BY DEF TypeOK, Reply
<1>2. Tail(inbox[c]) \in Seq(Frame) /\ Append(outbound[c], frame) \in Seq(Frame)
    BY <1>1, FrameSeq
<1>3. SocketType'
    BY <1>2 DEF TypeOK, SocketType, Reply
<1>4. ThreadType'
    BY DEF TypeOK, ThreadType, Threads, Reply
<1>5. QED
    BY <1>3, <1>4, TypeParts, Untouched DEF Reply

LEMMA RequestedType ==
    ASSUME TypeOK, NEW c \in Conns, inbox[c] # <<>>
    PROVE  /\ Head(inbox[c]) \in Frame
           /\ Requested(c) \in Requests \cup {NoRequest}
           /\ \A res \in Results : Ack(Requested(c), res) \in Frame
<1>1. inbox[c] \in Seq(Frame)
    BY DEF TypeOK
<1>2. Head(inbox[c]) \in Frame
    BY <1>1, HeadTailProperties
<1>3. Requested(c) \in Requests \cup {NoRequest}
    BY <1>2 DEF Frame, Requested
<1>4. QED
    BY <1>2, <1>3, FrameTypes

\* The ack of a new command enters the cache.
LEMMA CompleteType ==
    ASSUME TypeOK, NEW c \in Conns, NEW res \in Results, Complete(c, Ack(Requested(c), res))
    PROVE  /\ SocketType' /\ ThreadType' /\ ClientType' /\ BudgetType'
           /\ welcomed' \in [Conns -> BOOLEAN]
           /\ completed' \in [Conns -> Seq(Frame)]
           /\ ran' \in [Conns -> Seq(Frame)]
<1> DEFINE ack == Ack(Requested(c), res)
<1>1. Reply(c, "command", ack) /\ inbox[c] # <<>>
    BY DEF Complete, Reply
<1>2. ack \in Frame
    BY <1>1, RequestedType
<1> HIDE DEF ack
<1>3. completed[c] \in Seq(Frame) /\ ran[c] \in Seq(Frame)
    BY DEF TypeOK
<1>4. Append(completed[c], ack) \in Seq(Frame) /\ Append(ran[c], ack) \in Seq(Frame)
    BY <1>2, <1>3, FrameSeq
<1>5. ~(Len(completed[c]) < CacheLimit) => Append(Tail(completed[c]), ack) \in Seq(Frame)
    <2>1. ~(Len(completed[c]) < CacheLimit) => completed[c] # <<>>
        BY EmptySeq, GatewayAssumption
    <2>2. QED
        BY <1>2, <1>3, <2>1, FrameSeq
<1>6. Remember(completed[c], ack) \in Seq(Frame)
    BY <1>4, <1>5 DEF Remember
<1>7. /\ completed' = [completed EXCEPT ![c] = Remember(completed[c], ack)]
      /\ ran' = [ran EXCEPT ![c] = Append(ran[c], ack)]
      /\ welcomed' = welcomed
    BY DEF Complete, ack
<1>8. QED
    BY <1>1, <1>2, <1>4, <1>6, <1>7, ReplyType DEF TypeOK

\* A step of one connection or its client.
ConnStep(c) ==
    \/ \E cred \in Offers[c] : Connect(c, cred)
    \/ \E r \in Requests : Call(c, r)
    \/ ClientStep(c)
    \/ Timeout(c) \/ Leave(c)
    \/ Accept(c) \/ ThreadStep(c)
    \/ Heartbeat(c) \/ WriteFails(c)

LEMMA ClientStepType ==
    ASSUME TypeOK, NEW c \in Conns,
           \/ \E cred \in Offers[c] : Connect(c, cred)
           \/ \E r \in Requests : Call(c, r)
           \/ ClientStep(c) \/ Timeout(c) \/ Leave(c)
    PROVE  TypeOK'
<1>s. /\ inbox[c] \in Seq(Frame) /\ outbound[c] \in Seq(Frame) /\ wire[c] \in Seq(Frame)
      /\ HostType /\ AuthType /\ ThreadType /\ CacheType /\ SocketType /\ ClientType /\ BudgetType
    BY TypeParts DEF SocketType
<1>1. ASSUME NEW cred \in Offers[c], Connect(c, cred) PROVE TypeOK'
    <2>1. cred # "skip" => cred \in Credentials
        BY GatewayAssumption DEF Credentials
    <2>2. (IF cred = "skip" THEN <<>> ELSE <<Hello(cred)>>) \in Seq(Frame)
        BY <2>1, EmptyFrames, FrameTypes
    <2>3. SocketType'
        BY <1>1, <1>s, <2>2, EmptyFrames DEF SocketType, Connect
    <2>4. CacheType'
        BY <1>1, <1>s, EmptyFrames DEF CacheType, Connect
    <2>5. ClientType'
        BY <1>1, <1>s DEF ClientType, Connect
    <2>6. ThreadType' /\ BudgetType'
        BY <1>1, <1>s DEF ThreadType, Threads, BudgetType, Connect
    <2>7. QED
        BY <1>1, <1>s, <2>3, <2>4, <2>5, <2>6, TypeParts, Untouched DEF Connect
<1>2. ASSUME NEW r \in Requests, Call(c, r) PROVE TypeOK'
    <2>1. Append(inbox[c], Command(r)) \in Seq(Frame)
        BY <1>s, FrameSeq, FrameTypes
    <2>2. SocketType'
        BY <1>2, <1>s, <2>1 DEF SocketType, Call, connVars
    <2>3. ClientType'
        BY <1>2, <1>s DEF ClientType, Call
    <2>4. BudgetType'
        BY <1>2, <1>s DEF BudgetType, Call
    <2>5. QED
        BY <1>2, <1>s, <2>2, <2>3, <2>4, TypeParts, Untouched DEF Call, connVars
<1>3. CASE ReceiveHello(c)
    <2>1. Tail(wire[c]) \in Seq(Frame)
        BY <1>3, <1>s, HeadTailProperties DEF ReceiveHello
    <2>2. SocketType'
        BY <1>3, <1>s, <2>1 DEF SocketType, ReceiveHello, connVars
    <2>3. ClientType'
        BY <1>3, <1>s DEF ClientType, ReceiveHello
    <2>4. QED
        BY <1>3, <1>s, <2>2, <2>3, TypeParts, Untouched DEF ReceiveHello, connVars
<1>4. CASE Receive(c)
    <2>1. /\ Tail(wire[c]) \in Seq(Frame) /\ Head(wire[c]) \in Frame
          /\ Append(inbox[c], Pong) \in Seq(Frame)
        BY <1>4, <1>s, HeadTailProperties, FrameSeq, FrameTypes DEF Receive
    <2>2. SocketType'
        BY <1>4, <1>s, <2>1 DEF SocketType, Receive, connVars
    <2>3. ClientType'
        <3>1. UNCHANGED <<client, request, answer>> => ClientType'
            BY <1>4, <1>s DEF ClientType, Receive
        <3>2. ASSUME /\ client' = [client EXCEPT ![c] = "idle"]
                     /\ request' = [request EXCEPT ![c][asked[c]] = "answered"]
                     /\ answer' = [answer EXCEPT ![c] = Head(wire[c])]
              PROVE  ClientType'
            <4>1. request' \in [Conns -> [Requests -> {"fresh", "open", "answered"}]]
                BY <1>s, <3>2 DEF ClientType
            <4>2. QED
                BY <1>4, <1>s, <2>1, <3>2, <4>1 DEF ClientType, Receive
        <3>3. QED
            BY <1>4, <3>1, <3>2 DEF Receive
    <2>4. QED
        BY <1>4, <1>s, <2>2, <2>3, TypeParts, Untouched DEF Receive, connVars
<1>5. CASE Closed(c) \/ Timeout(c) \/ Leave(c)
    <2>1. SocketType'
        BY <1>5, <1>s, EmptyFrames DEF SocketType, Closed, Timeout, Leave, connVars
    <2>2. ClientType'
        BY <1>5, <1>s DEF ClientType, Closed, Timeout, Leave
    <2>3. BudgetType'
        BY <1>5, <1>s DEF BudgetType, budget, Closed, Timeout, Leave
    <2>4. QED
        BY <1>5, <1>s, <2>1, <2>2, <2>3, TypeParts, Untouched DEF Closed, Timeout, Leave, connVars
<1>6. QED
    BY <1>1, <1>2, <1>3, <1>4, <1>5 DEF ClientStep

\* The two tables of the host: a record appended or marked.
PairingRecords == [code : Codes, state : {"open", "expired", "consumed"}]
DeviceRecords  == [from : Nat, revoked : BOOLEAN]

LEMMA TableSeq ==
    ASSUME NEW S, NEW q \in Seq(S)
    PROVE  /\ Len(q) \in Nat /\ DOMAIN q = 1..Len(q)
           /\ \A i \in 1..Len(q) : q[i] \in S
           /\ \A x \in S : /\ Append(q, x) \in Seq(S)
                           /\ Len(Append(q, x)) = Len(q) + 1
                           /\ DOMAIN Append(q, x) = 1..(Len(q) + 1)
                           /\ \A i \in 1..Len(q) : Append(q, x)[i] = q[i]
                           /\ Append(q, x)[Len(q) + 1] = x
           /\ \A k \in 1..Len(q) : \A x \in S :
                 /\ [q EXCEPT ![k] = x] \in Seq(S)
                 /\ Len([q EXCEPT ![k] = x]) = Len(q)
<1>1. Len(q) \in Nat /\ DOMAIN q = 1..Len(q) /\ \A i \in 1..Len(q) : q[i] \in S
    BY LenProperties, ElementOfSeq
<1>2. ASSUME NEW x \in S
      PROVE  /\ Append(q, x) \in Seq(S)
             /\ Len(Append(q, x)) = Len(q) + 1
             /\ DOMAIN Append(q, x) = 1..(Len(q) + 1)
             /\ \A i \in 1..Len(q) : Append(q, x)[i] = q[i]
             /\ Append(q, x)[Len(q) + 1] = x
    <2>1. /\ Append(q, x) \in Seq(S) /\ Len(Append(q, x)) = Len(q) + 1
          /\ \A i \in 1..Len(q) : Append(q, x)[i] = q[i]
          /\ Append(q, x)[Len(q) + 1] = x
        BY AppendProperties
    <2>2. QED
        BY <2>1, LenProperties
<1>3. ASSUME NEW k \in 1..Len(q), NEW x \in S
      PROVE  [q EXCEPT ![k] = x] \in Seq(S) /\ Len([q EXCEPT ![k] = x]) = Len(q)
    BY <1>1, ExceptSeq
<1>4. QED
    BY <1>1, <1>2, <1>3

LEMMA PairingMarked ==
    ASSUME AuthType, NEW p \in DOMAIN pairings, NEW st \in {"expired", "consumed"},
           pairings' = [pairings EXCEPT ![p].state = st]
    PROVE  /\ pairings' \in Seq(PairingRecords) /\ DOMAIN pairings' = DOMAIN pairings
           /\ \A q \in DOMAIN pairings :
                 pairings'[q].state = IF q = p THEN st ELSE pairings[q].state
           /\ devices' = devices => AuthType'
<1>1. /\ pairings \in Seq(PairingRecords) /\ DOMAIN pairings = 1..Len(pairings)
      /\ Len(pairings) \in Nat
      /\ \A q \in 1..Len(pairings) : pairings[q] \in PairingRecords
    <2>1. pairings \in Seq(PairingRecords)
        BY DEF AuthType, PairingRecords
    <2>2. QED
        BY <2>1, TableSeq
<1>2. \A x \in PairingRecords : /\ [x EXCEPT !.state = st] \in PairingRecords
                                /\ [x EXCEPT !.state = st].state = st
    BY DEF PairingRecords
<1>3. pairings' = [pairings EXCEPT ![p] = [pairings[p] EXCEPT !.state = st]]
    BY <1>1
<1> DEFINE x == [pairings[p] EXCEPT !.state = st]
<1>4. x \in PairingRecords /\ x.state = st
    BY <1>1, <1>2
<1>5. pairings' = [pairings EXCEPT ![p] = x]
    BY <1>3
<1> HIDE DEF x
<1>6. pairings' \in Seq(PairingRecords) /\ DOMAIN pairings' = DOMAIN pairings
    BY <1>1, <1>4, <1>5, TableSeq
<1>7. \A q \in DOMAIN pairings : pairings'[q] = IF q = p THEN x ELSE pairings[q]
    BY <1>5
<1>8. QED
    BY <1>4, <1>6, <1>7 DEF AuthType, PairingRecords

LEMMA PairingBegun ==
    ASSUME AuthType, NEW code \in Codes,
           pairings' = Append(pairings, [code |-> code, state |-> "open"])
    PROVE  /\ DOMAIN pairings = 1..Len(pairings) /\ Len(pairings) \in Nat
           /\ DOMAIN pairings' = 1..(Len(pairings) + 1)
           /\ \A q \in DOMAIN pairings : pairings'[q] = pairings[q]
           /\ pairings'[Len(pairings) + 1].state = "open"
           /\ devices' = devices => AuthType'
<1> DEFINE x == [code |-> code, state |-> "open"]
<1>1. x \in PairingRecords /\ x.state = "open" /\ pairings' = Append(pairings, x)
    BY DEF PairingRecords
<1> HIDE DEF x
<1>2. pairings \in Seq(PairingRecords)
    BY DEF AuthType, PairingRecords
<1>3. /\ pairings' \in Seq(PairingRecords)
      /\ DOMAIN pairings = 1..Len(pairings) /\ Len(pairings) \in Nat
      /\ DOMAIN pairings' = 1..(Len(pairings) + 1)
      /\ \A q \in DOMAIN pairings : pairings'[q] = pairings[q]
      /\ pairings'[Len(pairings) + 1] = x
    BY <1>1, <1>2, TableSeq
<1>4. QED
    BY <1>1, <1>3 DEF AuthType, PairingRecords

LEMMA DeviceMarked ==
    ASSUME AuthType, NEW d \in DOMAIN devices, devices' = [devices EXCEPT ![d].revoked = TRUE]
    PROVE  /\ DOMAIN devices' = DOMAIN devices
           /\ \A i \in DOMAIN devices : devices'[i].from = devices[i].from
           /\ pairings' = pairings => AuthType'
<1>1. /\ devices \in Seq(DeviceRecords) /\ DOMAIN devices = 1..Len(devices)
      /\ \A i \in 1..Len(devices) : devices[i] \in DeviceRecords
    <2>1. devices \in Seq(DeviceRecords)
        BY DEF AuthType, DeviceRecords
    <2>2. QED
        BY <2>1, TableSeq
<1>2. \A x \in DeviceRecords : /\ [x EXCEPT !.revoked = TRUE] \in DeviceRecords
                               /\ [x EXCEPT !.revoked = TRUE].from = x.from
    BY DEF DeviceRecords
<1> DEFINE x == [devices[d] EXCEPT !.revoked = TRUE]
<1>3. x \in DeviceRecords /\ x.from = devices[d].from
    BY <1>1, <1>2
<1>4. devices' = [devices EXCEPT ![d] = x]
    BY <1>1
<1> HIDE DEF x
<1>5. devices' \in Seq(DeviceRecords) /\ DOMAIN devices' = DOMAIN devices
    <2>1. d \in 1..Len(devices)
        BY <1>1
    <2>2. devices' \in Seq(DeviceRecords) /\ Len(devices') = Len(devices)
        <3>1. devices \in Seq(DeviceRecords) /\ x \in DeviceRecords
            BY <1>1, <1>3
        <3>2. /\ [devices EXCEPT ![d] = x] \in Seq(DeviceRecords)
              /\ Len([devices EXCEPT ![d] = x]) = Len(devices)
            BY <2>1, <3>1, ExceptSeq
        <3>3. QED
            BY <1>4, <3>2, Zenon
    <2>3. QED
        BY <1>1, <2>2, LenProperties
<1>6. \A i \in DOMAIN devices : devices'[i] = IF i = d THEN x ELSE devices[i]
    BY <1>4
<1>7. QED
    BY <1>3, <1>5, <1>6 DEF AuthType, DeviceRecords

LEMMA DeviceStored ==
    ASSUME AuthType, NEW p \in Nat,
           devices' = Append(devices, [from |-> p, revoked |-> FALSE])
    PROVE  /\ DOMAIN devices = 1..Len(devices) /\ Len(devices) \in Nat
           /\ DOMAIN devices' = 1..(Len(devices) + 1)
           /\ \A i \in DOMAIN devices : devices'[i] = devices[i]
           /\ devices'[Len(devices) + 1].from = p
           /\ pairings' = pairings => AuthType'
<1> DEFINE x == [from |-> p, revoked |-> FALSE]
<1>1. x \in DeviceRecords /\ x.from = p /\ devices' = Append(devices, x)
    BY DEF DeviceRecords
<1> HIDE DEF x
<1>2. devices \in Seq(DeviceRecords)
    BY DEF AuthType, DeviceRecords
<1>3. /\ devices' \in Seq(DeviceRecords)
      /\ DOMAIN devices = 1..Len(devices) /\ Len(devices) \in Nat
      /\ DOMAIN devices' = 1..(Len(devices) + 1)
      /\ \A i \in DOMAIN devices : devices'[i] = devices[i]
      /\ devices'[Len(devices) + 1] = x
    BY <1>1, <1>2, TableSeq
<1>4. QED
    BY <1>1, <1>3 DEF AuthType, DeviceRecords

LEMMA ThreadStepType ==
    ASSUME TypeOK, NEW c \in Conns,
           Accept(c) \/ ThreadStep(c) \/ Heartbeat(c) \/ WriteFails(c)
    PROVE  TypeOK'
<1>s. /\ inbox[c] \in Seq(Frame) /\ outbound[c] \in Seq(Frame) /\ wire[c] \in Seq(Frame)
      /\ HostType /\ AuthType /\ ThreadType /\ CacheType /\ SocketType /\ ClientType /\ BudgetType
    BY TypeParts DEF SocketType
<1>d. "ok" \in Results /\ "error" \in Results /\ "denied" \in Results /\ "unauthenticated" \in Results
    BY DEF Results
<1>1. CASE Accept(c) \/ CheckShutdown(c) \/ EnterManager(c) \/ ReadClose(c) \/ WriteFails(c)
    <2>1. ThreadType'
        BY <1>1, <1>s DEF ThreadType, Threads, Accept, CheckShutdown, EnterManager, ReadClose,
           WriteFails
    <2>2. BudgetType'
        BY <1>1, <1>s DEF BudgetType, budget, Accept, CheckShutdown, EnterManager, ReadClose,
           WriteFails
    <2>3. QED
        BY <1>1, <1>s, <2>1, <2>2, TypeParts, Untouched
        DEF Accept, CheckShutdown, EnterManager, ReadClose, WriteFails
<1>2. CASE ReadNothing(c)
    <2>1. inbox[c] # <<>> => Tail(inbox[c]) \in Seq(Frame)
        BY <1>s, HeadTailProperties
    <2>2. SocketType'
        BY <1>2, <1>s, <2>1 DEF SocketType, ReadNothing
    <2>3. ThreadType'
        BY <1>2, <1>s DEF ThreadType, Threads, ReadNothing
    <2>4. QED
        BY <1>2, <1>s, <2>2, <2>3, TypeParts, Untouched DEF ReadNothing
<1>3. CASE Heartbeat(c)
    <2>1. Append(outbound[c], Ping) \in Seq(Frame)
        BY <1>s, FrameSeq, FrameTypes
    <2>2. SocketType'
        BY <1>3, <1>s, <2>1 DEF SocketType, Heartbeat
    <2>3. ThreadType' /\ BudgetType'
        BY <1>3, <1>s DEF ThreadType, Threads, BudgetType, Heartbeat
    <2>4. QED
        BY <1>3, <1>s, <2>2, <2>3, TypeParts, Untouched DEF Heartbeat
<1>4. ASSUME NEW p \in DOMAIN pairings, ConsumePairing(c, p) PROVE TypeOK'
    <2>1. Tail(inbox[c]) \in Seq(Frame)
        BY <1>4, <1>s, HeadTailProperties DEF ConsumePairing
    <2>2. SocketType'
        BY <1>4, <1>s, <2>1 DEF SocketType, ConsumePairing
    <2>3. p \in Nat
        BY <1>s, LenProperties DEF AuthType
    <2>4. ThreadType'
        BY <1>4, <1>s, <2>3 DEF ThreadType, Threads, ConsumePairing
    <2>5. AuthType'
        <3>1. pairings' = [pairings EXCEPT ![p].state = "consumed"] /\ devices' = devices
            BY <1>4 DEF ConsumePairing
        <3>2. QED
            BY <1>s, <3>1, PairingMarked
    <2>6. QED
        BY <1>4, <1>s, <2>2, <2>4, <2>5, TypeParts, Untouched DEF ConsumePairing
<1>5. CASE MintDevice(c)
    <2>1. Append(outbound[c], Welcome) \in Seq(Frame)
        BY <1>s, FrameSeq, FrameTypes
    <2>2. SocketType'
        BY <1>5, <1>s, <2>1 DEF SocketType, MintDevice
    <2>3. ThreadType'
        BY <1>5, <1>s DEF ThreadType, Threads, MintDevice
    <2>4. CacheType'
        BY <1>5, <1>s DEF CacheType, MintDevice
    <2>5. AuthType'
        <3>1. minting[c] \in Nat
            BY <1>s DEF ThreadType
        <3>2. QED
            BY <1>5, <1>s, <3>1, DeviceStored DEF MintDevice
    <2>6. QED
        BY <1>5, <1>s, <2>2, <2>3, <2>4, <2>5, TypeParts, Untouched DEF MintDevice
<1>6. CASE WelcomeDev(c) \/ RejectHello(c)
    <2>1. \E f \in Frame : Reply(c, "hello", f)
        BY <1>6, FrameTypes DEF WelcomeDev, RejectHello
    <2>2. CacheType'
        BY <1>6, <1>s DEF CacheType, WelcomeDev, RejectHello
    <2>3. QED
        BY <1>6, <1>s, <2>1, <2>2, ReplyType, TypeParts, Untouched DEF WelcomeDev, RejectHello
<1>7. CASE RefuseUnwelcome(c)
    <2>1. inbox[c] # <<>> /\ Reply(c, "command", Ack(Requested(c), "unauthenticated"))
        BY <1>7 DEF RefuseUnwelcome, Reply
    <2>2. Ack(Requested(c), "unauthenticated") \in Frame
        BY <1>d, <2>1, RequestedType
    <2>3. QED
        BY <1>7, <1>s, <2>1, <2>2, ReplyType, TypeParts, Untouched DEF RefuseUnwelcome
<1>8. CASE AnswerFromCache(c)
    <2>1. completed[c] \in Seq(Frame)
        BY <1>s DEF CacheType
    <2>2. \A i \in DOMAIN completed[c] : completed[c][i] \in Frame
        BY <2>1, ElementOfSeq, LenProperties
    <2>3. \E f \in Frame : Reply(c, "command", f)
        BY <1>8, <2>2 DEF AnswerFromCache
    <2>4. QED
        BY <1>8, <1>s, <2>3, ReplyType, TypeParts, Untouched DEF AnswerFromCache
<1>9. ASSUME NEW res \in Results, Complete(c, Ack(Requested(c), res)), HostType', AuthType',
             applied' \in [Conns -> [Requests -> Nat]]
      PROVE  TypeOK'
    <2>1. CacheType'
        BY <1>9, CompleteType DEF CacheType
    <2>2. QED
        BY <1>9, <2>1, CompleteType, TypeParts
<1>10. CASE Deny(c) \/ Inspect(c)
    <2>1. \E res \in Results : Complete(c, Ack(Requested(c), res))
        BY <1>10, <1>d DEF Deny, Inspect, Execute
    <2>2. HostType' /\ AuthType' /\ applied' \in [Conns -> [Requests -> Nat]]
        BY <1>10, <1>s, Untouched DEF Deny, Inspect, CacheType
    <2>3. QED
        BY <1>9, <2>1, <2>2
<1>11. CASE Input(c)
    <2>1. \E res \in Results : Complete(c, Ack(Requested(c), res))
        BY <1>11, <1>d DEF Input, Execute
    <2>2. HostType' /\ AuthType'
        BY <1>11, <1>s, Untouched DEF Input
    <2>3. applied' \in [Conns -> [Requests -> Nat]]
        <3>1. applied \in [Conns -> [Requests -> Nat]]
            BY <1>s DEF CacheType
        <3>2. ASSUME NEW r, applied' = [applied EXCEPT ![c][r] = @ + 1]
              PROVE  applied' \in [Conns -> [Requests -> Nat]]
            <4>1. [applied[c] EXCEPT ![r] = @ + 1] \in [Requests -> Nat]
                <5>1. applied[c] \in [Requests -> Nat]
                    BY <3>1
                <5>2. \A y \in Requests : [applied[c] EXCEPT ![r] = @ + 1][y] \in Nat
                    BY <5>1
                <5>3. QED
                    BY <5>1, <5>2
            <4>2. QED
                BY <3>1, <3>2, <4>1
        <3>3. QED
            BY <1>11, <3>1, <3>2 DEF Input
    <2>4. QED
        BY <1>9, <2>1, <2>2, <2>3
<1>12. ASSUME NEW code \in Codes, BeginPairing(c, code) PROVE TypeOK'
    <2>1. Complete(c, Ack(Requested(c), "ok"))
        BY <1>12 DEF BeginPairing, Execute
    <2>2. AuthType'
        BY <1>12, <1>s, PairingBegun DEF BeginPairing
    <2>3. HostType' /\ applied' \in [Conns -> [Requests -> Nat]]
        BY <1>12, <1>s, Untouched DEF BeginPairing, CacheType
    <2>4. QED
        BY <1>9, <1>d, <2>1, <2>2, <2>3
<1>13. CASE RevokeDevice(c)
    <2>1. \E res \in Results : Complete(c, Ack(Requested(c), res))
        BY <1>13, <1>d DEF RevokeDevice, Execute
    <2>2. AuthType'
        <3>1. \/ \E d \in DOMAIN devices : devices' = [devices EXCEPT ![d].revoked = TRUE]
              \/ devices' = devices
            BY <1>13 DEF RevokeDevice
        <3>2. pairings' = pairings
            BY <1>13 DEF RevokeDevice
        <3>3. QED
            BY <1>s, <3>1, <3>2, DeviceMarked, Untouched DEF authVars
    <2>3. HostType' /\ applied' \in [Conns -> [Requests -> Nat]]
        BY <1>13, <1>s, Untouched DEF RevokeDevice, CacheType
    <2>4. QED
        BY <1>9, <2>1, <2>2, <2>3
<1>14. CASE Stop(c)
    <2>1. Complete(c, Ack(Requested(c), "ok"))
        BY <1>14 DEF Stop, Execute
    <2>2. HostType'
        BY <1>14, <1>s DEF Stop, HostType
    <2>3. AuthType' /\ applied' \in [Conns -> [Requests -> Nat]]
        BY <1>14, <1>s, Untouched DEF Stop, CacheType
    <2>4. QED
        BY <1>9, <1>d, <2>1, <2>2, <2>3
<1>15. CASE Write(c)
    <2>1. wire[c] \o outbound[c] \in Seq(Frame)
        BY <1>s, ConcatProperties
    <2>2. SocketType'
        BY <1>15, <1>s, <2>1, EmptyFrames DEF SocketType, Write
    <2>3. ThreadType'
        BY <1>15, <1>s DEF ThreadType, Threads, Write
    <2>4. QED
        BY <1>15, <1>s, <2>2, <2>3, TypeParts, Untouched DEF Write
<1>16. QED
    BY <1>1, <1>2, <1>3, <1>4, <1>5, <1>6, <1>7, <1>8, <1>10, <1>11, <1>12, <1>13, <1>14, <1>15
    DEF ThreadStep

LEMMA HostStepType ==
    ASSUME TypeOK,
           \/ \E p \in DOMAIN pairings : ExpirePairing(p)
           \/ RunReturns \/ PumpEnds \/ PumpBlocks \/ PumpReturns \/ ServeReturns
    PROVE  TypeOK'
<1>s. HostType /\ AuthType /\ ThreadType /\ CacheType /\ SocketType /\ ClientType /\ BudgetType
    BY TypeParts
<1>1. ASSUME NEW p \in DOMAIN pairings, ExpirePairing(p) PROVE TypeOK'
    <2>1. AuthType'
        BY <1>1, <1>s, PairingMarked DEF ExpirePairing
    <2>2. QED
        BY <1>1, <1>s, <2>1, TypeParts, Untouched DEF ExpirePairing, connVars
<1>2. CASE RunReturns \/ ServeReturns
    <2>1. HostType' /\ BudgetType'
        BY <1>2, <1>s DEF HostType, BudgetType, budget, RunReturns, ServeReturns
    <2>2. ThreadType'
        BY <1>2, <1>s DEF ThreadType, Threads, RunReturns, ServeReturns
    <2>3. QED
        BY <1>2, <1>s, <2>1, <2>2, TypeParts, Untouched DEF RunReturns, ServeReturns
<1>3. CASE PumpEnds \/ PumpBlocks \/ PumpReturns
    <2>1. HostType'
        BY <1>3, <1>s DEF HostType, PumpEnds, PumpBlocks, PumpReturns
    <2>2. QED
        BY <1>3, <1>s, <2>1, TypeParts, Untouched DEF PumpEnds, PumpBlocks, PumpReturns, connVars
<1>4. QED
    BY <1>1, <1>2, <1>3

LEMMA TypeInit == Init => TypeOK
<1> SUFFICES ASSUME Init PROVE TypeOK
    OBVIOUS
<1>1. HostType /\ BudgetType
    BY DEF Init, HostType, BudgetType
<1>2. AuthType
    BY EmptySeq DEF Init, AuthType
<1>3. ThreadType
    BY DEF Init, ThreadType, Threads
<1>4. CacheType
    BY EmptyFrames DEF Init, CacheType
<1>5. SocketType
    BY EmptyFrames DEF Init, SocketType
<1>6. Ack(NoRequest, "ok") \in Frame
    BY FrameTypes DEF Results
<1>7. ClientType
    BY <1>6 DEF Init, ClientType
<1>8. QED
    BY <1>1, <1>2, <1>3, <1>4, <1>5, <1>7, TypeParts

LEMMA TypeStep == TypeOK /\ [Next]_vars => TypeOK'
<1> SUFFICES ASSUME TypeOK, [Next]_vars PROVE TypeOK'
    OBVIOUS
<1>1. ASSUME NEW c \in Conns, ConnStep(c) PROVE TypeOK'
    BY <1>1, ClientStepType, ThreadStepType DEF ConnStep
<1>2. CASE UNCHANGED vars
    BY <1>2 DEF vars, hostVars, authVars, connVars, clientVars, budget, TypeOK
<1>3. QED
    BY <1>1, <1>2, HostStepType DEF Next, ConnStep

\* The tables, the threads, the socket queues and the clients of the gateway
\* keep their types whatever the clients send and whichever thread runs.
THEOREM GatewayTypeCorrect == Spec => []TypeOK
BY TypeInit, TypeStep, PTL DEF Spec

-----------------------------------------------------------------------------
(* One device per pairing *)

\* Between the two mutexes of authenticate: only a thread that is about to store
\* a device holds a pairing (or did, when the process exited), and what threads
\* and devices name are pairings of the table.
PairInv ==
    /\ phase = "stopped" => \A c \in Conns : thread[c] = "ended"
    /\ \A c \in Conns : /\ thread[c] = "mint" => minting[c] # 0
                        /\ thread[c] # "mint" /\ phase # "stopped" => minting[c] = 0
                        /\ minting[c] # 0 => minting[c] \in DOMAIN pairings
    /\ \A i \in DOMAIN devices : devices[i].from \in DOMAIN pairings

\* A step that moves no pairing and no device, and no thread into or out of the
\* place between the mutexes.
LEMMA PairUntouched ==
    ASSUME PairInv, PairedOnce, phase' \in {phase, "joining"}, phase = "stopped" => phase' = phase,
           UNCHANGED <<pairings, minting>>, DOMAIN devices' = DOMAIN devices,
           \A i \in DOMAIN devices : devices'[i].from = devices[i].from,
           \A c \in Conns : thread'[c] = "mint" <=> thread[c] = "mint",
           phase = "stopped" => \A c \in Conns : thread'[c] = "ended"
    PROVE  PairInv' /\ PairedOnce'
<1>1. PairInv'
    BY DEF PairInv
<1>2. PairedOnce'
    BY DEF PairedOnce
<1>3. QED
    BY <1>1, <1>2

\* The steps of a connection other than the ones that concern pairings.
LEMMA PairConnStep ==
    ASSUME TypeOK, PairInv, PairedOnce, NEW c \in Conns, ConnStep(c),
           \A p \in DOMAIN pairings : ~ConsumePairing(c, p), ~MintDevice(c),
           \A code \in Codes : ~BeginPairing(c, code)
    PROVE  PairInv' /\ PairedOnce'
<1>t. thread \in [Conns -> Threads] /\ AuthType
    BY TypeParts DEF ThreadType
<1>0. ASSUME phase' = phase, UNCHANGED <<pairings, minting>>, thread[c] # "mint",
             DOMAIN devices' = DOMAIN devices,
             \A i \in DOMAIN devices : devices'[i].from = devices[i].from,
             NEW v, v # "mint", thread' = [thread EXCEPT ![c] = v],
             phase = "serving" \/ thread[c] # "ended"
      PROVE  PairInv' /\ PairedOnce'
    <2>1. \A d \in Conns : thread'[d] = "mint" <=> thread[d] = "mint"
        BY <1>0, <1>t
    <2>2. phase # "stopped"
        BY <1>0 DEF PairInv
    <2>3. QED
        BY <1>0, <2>1, <2>2, PairUntouched
<1>1. ASSUME UNCHANGED <<phase, pairings, devices, minting, thread>>
      PROVE  PairInv' /\ PairedOnce'
    <2>1. phase = "stopped" => \A d \in Conns : thread'[d] = "ended"
        BY <1>1 DEF PairInv
    <2>2. QED
        BY <1>1, <2>1, PairUntouched
<1>2. ASSUME NEW type, NEW f, Reply(c, type, f), phase' = phase, pairings' = pairings,
             DOMAIN devices' = DOMAIN devices,
             \A i \in DOMAIN devices : devices'[i].from = devices[i].from
      PROVE  PairInv' /\ PairedOnce'
    BY <1>0, <1>2 DEF Reply
<1>3. ASSUME NEW cred \in Offers[c], Connect(c, cred) PROVE PairInv' /\ PairedOnce'
    <2>1. /\ phase = "serving" /\ thread[c] = "ended"
          /\ thread' = [thread EXCEPT ![c] = "backlog"]
          /\ UNCHANGED <<phase, pairings, devices, minting>>
        BY <1>3 DEF Connect, hostVars, authVars
    <2>2. QED
        BY <1>0, <2>1
<1>4. CASE \/ \E r \in Requests : Call(c, r)
           \/ ClientStep(c) \/ Timeout(c) \/ Leave(c)
    <2>1. UNCHANGED <<phase, pairings, devices, minting, thread>>
        BY <1>4 DEF Call, ClientStep, ReceiveHello, Receive, Closed, Timeout, Leave, hostVars,
            authVars, connVars
    <2>2. QED
        BY <1>1, <2>1
<1>5. CASE \/ Accept(c) \/ CheckShutdown(c) \/ EnterManager(c) \/ ReadNothing(c) \/ ReadClose(c)
           \/ Heartbeat(c)
           \/ Write(c) \/ WriteFails(c)
    <2>1. /\ thread[c] \in {"backlog", "check", "read", "write"}
          /\ UNCHANGED <<phase, pairings, devices, minting>>
        BY <1>5 DEF Accept, CheckShutdown, EnterManager, ReadNothing, ReadClose, Heartbeat, Write,
           WriteFails,
            hostVars, authVars
    <2>2. \E v : v # "mint" /\ thread' = [thread EXCEPT ![c] = v]
        BY <1>5 DEF Accept, CheckShutdown, EnterManager, ReadNothing, ReadClose, Heartbeat, Write,
           WriteFails
    <2>3. QED
        BY <1>0, <2>1, <2>2
<1>6. CASE WelcomeDev(c) \/ RejectHello(c) \/ RefuseUnwelcome(c) \/ AnswerFromCache(c)
    <2>1. UNCHANGED <<phase, pairings, devices>> /\ \E type, f : Reply(c, type, f)
        BY <1>6 DEF WelcomeDev, RejectHello, RefuseUnwelcome, AnswerFromCache, hostVars, authVars
    <2>2. QED
        BY <1>2, <2>1
<1>7. CASE Deny(c) \/ Inspect(c) \/ Input(c) \/ Stop(c)
    <2>1. UNCHANGED <<phase, pairings, devices>> /\ \E type, f : Reply(c, type, f)
        BY <1>7 DEF Deny, Inspect, Input, Stop, Execute, Complete, hostVars, authVars
    <2>2. QED
        BY <1>2, <2>1
<1>8. CASE RevokeDevice(c)
    <2>1. /\ UNCHANGED <<phase, pairings>> /\ \E type, f : Reply(c, type, f)
          /\ \/ \E d \in DOMAIN devices : devices' = [devices EXCEPT ![d].revoked = TRUE]
             \/ devices' = devices
        BY <1>8 DEF RevokeDevice, Execute, Complete, hostVars
    <2>2. /\ DOMAIN devices' = DOMAIN devices
          /\ \A i \in DOMAIN devices : devices'[i].from = devices[i].from
        BY <1>t, <2>1, DeviceMarked
    <2>3. QED
        BY <1>2, <2>1, <2>2
<1>9. QED
    BY <1>3, <1>4, <1>5, <1>6, <1>7, <1>8 DEF ConnStep, ThreadStep

LEMMA PairStep == TypeOK /\ PairInv /\ PairedOnce /\ [Next]_vars => PairInv' /\ PairedOnce'
<1> SUFFICES ASSUME TypeOK, PairInv, PairedOnce, [Next]_vars PROVE PairInv' /\ PairedOnce'
    OBVIOUS
<1>t. /\ thread \in [Conns -> Threads] /\ minting \in [Conns -> Nat] /\ AuthType
      /\ DOMAIN pairings = 1..Len(pairings) /\ Len(pairings) \in Nat
      /\ DOMAIN devices = 1..Len(devices) /\ Len(devices) \in Nat
    BY TypeParts, LenProperties DEF ThreadType, AuthType
<1>1. ASSUME NEW c \in Conns, NEW p \in DOMAIN pairings, ConsumePairing(c, p)
      PROVE  PairInv' /\ PairedOnce'
    <2>1. /\ thread[c] = "read" /\ pairings[p].state = "open"
          /\ pairings' = [pairings EXCEPT ![p].state = "consumed"]
          /\ minting' = [minting EXCEPT ![c] = p]
          /\ thread' = [thread EXCEPT ![c] = "mint"] /\ UNCHANGED <<phase, devices>>
        BY <1>1 DEF ConsumePairing, Matches, hostVars
    <2>2. /\ DOMAIN pairings' = DOMAIN pairings
          /\ \A q \in DOMAIN pairings :
                pairings'[q].state = IF q = p THEN "consumed" ELSE pairings[q].state
        BY <1>t, <2>1, PairingMarked
    <2>3. phase # "stopped" /\ minting[c] = 0 /\ p # 0
        BY <1>t, <2>1 DEF PairInv
    <2>4. /\ \A i \in DOMAIN devices : devices[i].from # p
          /\ \A d \in Conns : minting[d] # p
        BY <2>1 DEF PairedOnce
    <2>5. \A d \in Conns : /\ minting'[d] = IF d = c THEN p ELSE minting[d]
                           /\ thread'[d] = IF d = c THEN "mint" ELSE thread[d]
        BY <1>t, <2>1
    <2>6. PairInv'
        BY <2>1, <2>2, <2>3, <2>5 DEF PairInv
    <2>7. ASSUME NEW q \in DOMAIN pairings
          PROVE  pairings'[q].state = "consumed" <=>
                     \/ \E i \in DOMAIN devices : devices[i].from = q
                     \/ \E d \in Conns : minting'[d] = q
        <3>1. CASE q = p
            BY <2>2, <2>5, <3>1
        <3>2. CASE q # p
            <4>1. (\E d \in Conns : minting'[d] = q) <=> (\E d \in Conns : minting[d] = q)
                BY <1>t, <2>3, <2>5, <3>2
            <4>2. QED
                BY <2>2, <3>2, <4>1 DEF PairedOnce
        <3>3. QED
            BY <3>1, <3>2
    <2>8. ASSUME NEW d \in Conns, minting'[d] # 0
          PROVE  /\ \A e \in Conns : minting'[e] = minting'[d] => e = d
                 /\ \A i \in DOMAIN devices : devices[i].from # minting'[d]
        BY <2>4, <2>5, <2>8 DEF PairedOnce
    <2>9. PairedOnce'
        BY <2>1, <2>2, <2>7, <2>8 DEF PairedOnce
    <2>10. QED
        BY <2>6, <2>9
<1>2. ASSUME NEW c \in Conns, MintDevice(c)
      PROVE  PairInv' /\ PairedOnce'
    <2> DEFINE p == minting[c]
    <2>1. /\ thread[c] = "mint" /\ devices' = Append(devices, [from |-> p, revoked |-> FALSE])
          /\ minting' = [minting EXCEPT ![c] = 0]
          /\ thread' = [thread EXCEPT ![c] = "write"] /\ UNCHANGED <<phase, pairings>>
        BY <1>2 DEF MintDevice, hostVars
    <2>2. p \in Nat /\ p # 0 /\ p \in DOMAIN pairings /\ phase # "stopped"
        BY <1>t, <2>1 DEF PairInv
    <2>3. /\ DOMAIN devices' = 1..(Len(devices) + 1)
          /\ \A i \in DOMAIN devices : devices'[i] = devices[i]
          /\ devices'[Len(devices) + 1].from = p
        BY <1>t, <2>1, <2>2, DeviceStored
    <2>4. \A i \in DOMAIN devices' : i \in DOMAIN devices \/ i = Len(devices) + 1
        BY <1>t, <2>3
    <2>d. \A i \in DOMAIN devices : i \in DOMAIN devices' /\ i # Len(devices) + 1
        BY <1>t, <2>3
    <2>e. Len(devices) + 1 \in DOMAIN devices'
        BY <1>t, <2>3
    <2>5. \A d \in Conns : /\ minting'[d] = IF d = c THEN 0 ELSE minting[d]
                           /\ thread'[d] = IF d = c THEN "write" ELSE thread[d]
        BY <1>t, <2>1
    <2>6. /\ \A i \in DOMAIN devices : devices[i].from # p
          /\ \A d \in Conns : minting[d] = p => d = c
        BY <2>2 DEF PairedOnce
    <2> HIDE DEF p
    <2>7. PairInv'
        BY <2>1, <2>2, <2>3, <2>4, <2>5 DEF PairInv
    <2>8. ASSUME NEW i \in DOMAIN devices', NEW j \in DOMAIN devices',
                 devices'[i].from = devices'[j].from
          PROVE  i = j
        <3>1. CASE i \in DOMAIN devices /\ j \in DOMAIN devices
            BY <2>3, <2>8, <3>1 DEF PairedOnce
        <3>2. CASE i = Len(devices) + 1 \/ j = Len(devices) + 1
            BY <2>3, <2>4, <2>6, <2>8, <3>2
        <3>3. QED
            BY <2>4, <3>1, <3>2
    <2>9. ASSUME NEW q \in DOMAIN pairings
          PROVE  pairings[q].state = "consumed" <=>
                     \/ \E i \in DOMAIN devices' : devices'[i].from = q
                     \/ \E d \in Conns : minting'[d] = q
        <3>1. q # 0
            BY <1>t
        <3>2. (\E i \in DOMAIN devices' : devices'[i].from = q) <=>
                  (q = p \/ \E i \in DOMAIN devices : devices[i].from = q)
            BY <2>3, <2>4, <2>d, <2>e
        <3>3. (\E d \in Conns : minting'[d] = q) <=> (q # p /\ \E d \in Conns : minting[d] = q)
            BY <2>5, <2>6, <3>1 DEF p
        <3>4. minting[c] = p
            BY DEF p
        <3>5. QED
            BY <3>2, <3>3, <3>4 DEF PairedOnce
    <2>10. ASSUME NEW d \in Conns, minting'[d] # 0
           PROVE  /\ \A e \in Conns : minting'[e] = minting'[d] => e = d
                  /\ \A i \in DOMAIN devices' : devices'[i].from # minting'[d]
        <3>1. d # c /\ minting'[d] = minting[d] /\ minting[d] # p
            BY <2>5, <2>6, <2>10
        <3>2. /\ \A e \in Conns : minting[e] = minting[d] => e = d
              /\ \A i \in DOMAIN devices : devices[i].from # minting[d]
            BY <2>10, <3>1 DEF PairedOnce
        <3>3. QED
            BY <2>3, <2>4, <2>5, <2>10, <3>1, <3>2
    <2>11. PairedOnce'
        BY <2>1, <2>8, <2>9, <2>10 DEF PairedOnce
    <2>12. QED
        BY <2>7, <2>11
<1>3. ASSUME NEW c \in Conns, NEW code \in Codes, BeginPairing(c, code)
      PROVE  PairInv' /\ PairedOnce'
    <2>1. /\ pairings' = Append(pairings, [code |-> code, state |-> "open"])
          /\ UNCHANGED <<phase, devices, minting>>
          /\ thread[c] # "mint" /\ thread[c] # "ended" /\ thread' = [thread EXCEPT ![c] = "write"]
        BY <1>3 DEF BeginPairing, Execute, Complete, Reply, hostVars
    <2>2. /\ DOMAIN pairings' = 1..(Len(pairings) + 1)
          /\ \A q \in DOMAIN pairings : pairings'[q] = pairings[q]
          /\ pairings'[Len(pairings) + 1].state = "open"
        BY <1>t, <2>1, PairingBegun
    <2>3. /\ \A q \in DOMAIN pairings' : q \in DOMAIN pairings \/ q = Len(pairings) + 1
          /\ \A q \in DOMAIN pairings : q \in DOMAIN pairings' /\ q # Len(pairings) + 1
          /\ Len(pairings) + 1 # 0
        BY <1>t, <2>2
    <2>4. \A d \in Conns : thread'[d] = IF d = c THEN "write" ELSE thread[d]
        BY <1>t, <2>1
    <2>5. PairInv'
        BY <2>1, <2>3, <2>4 DEF PairInv
    <2>6. ASSUME NEW q \in DOMAIN pairings'
          PROVE  pairings'[q].state = "consumed" <=>
                     \/ \E i \in DOMAIN devices : devices[i].from = q
                     \/ \E d \in Conns : minting[d] = q
        <3>1. CASE q \in DOMAIN pairings
            BY <2>2, <3>1 DEF PairedOnce
        <3>2. CASE q = Len(pairings) + 1
            BY <2>2, <2>3, <3>2 DEF PairInv
        <3>3. QED
            BY <2>3, <3>1, <3>2
    <2>7. PairedOnce'
        BY <2>1, <2>6 DEF PairedOnce
    <2>8. QED
        BY <2>5, <2>7
<1>4. ASSUME NEW p \in DOMAIN pairings, ExpirePairing(p)
      PROVE  PairInv' /\ PairedOnce'
    <2>1. /\ pairings[p].state = "open" /\ pairings' = [pairings EXCEPT ![p].state = "expired"]
          /\ UNCHANGED <<phase, devices, minting, thread>>
        BY <1>4 DEF ExpirePairing, hostVars, connVars
    <2>2. /\ DOMAIN pairings' = DOMAIN pairings
          /\ \A q \in DOMAIN pairings :
                pairings'[q].state = IF q = p THEN "expired" ELSE pairings[q].state
        BY <1>t, <2>1, PairingMarked
    <2>3. \A q \in DOMAIN pairings :
             pairings'[q].state = "consumed" <=> pairings[q].state = "consumed"
        BY <2>1, <2>2
    <2>4. PairInv'
        BY <2>1, <2>2 DEF PairInv
    <2>5. PairedOnce'
        BY <2>1, <2>2, <2>3 DEF PairedOnce
    <2>6. QED
        BY <2>4, <2>5
<1>5. CASE RunReturns \/ PumpEnds \/ PumpBlocks \/ PumpReturns
    <2>1. /\ phase' \in {phase, "joining"} /\ (phase = "stopped" => phase' = phase)
          /\ UNCHANGED <<pairings, devices, minting>>
          /\ \A c \in Conns : thread'[c] = "mint" <=> thread[c] = "mint"
          /\ phase = "stopped" => \A c \in Conns : thread'[c] = "ended"
        BY <1>5, <1>t DEF RunReturns, PumpEnds, PumpBlocks, PumpReturns, authVars, connVars, PairInv
    <2>2. QED
        BY <2>1, PairUntouched
<1>6. CASE ServeReturns
    <2>1. /\ phase' = "stopped" /\ \A c \in Conns : thread'[c] = "ended"
          /\ UNCHANGED <<pairings, devices, minting>>
        BY <1>6 DEF ServeReturns, authVars
    <2>2. PairInv'
        BY <2>1 DEF PairInv
    <2>3. PairedOnce'
        BY <2>1 DEF PairedOnce
    <2>4. QED
        BY <2>2, <2>3
<1>7. CASE UNCHANGED vars
    <2>1. UNCHANGED <<phase, pairings, devices, minting, thread>>
        BY <1>7 DEF vars, hostVars, authVars, connVars
    <2>2. QED
        BY <2>1 DEF PairInv, PairedOnce
<1>8. ASSUME NEW c \in Conns, ConnStep(c) PROVE PairInv' /\ PairedOnce'
    BY <1>1, <1>2, <1>3, <1>8, PairConnStep
<1>9. QED
    BY <1>4, <1>5, <1>6, <1>7, <1>8 DEF Next, ConnStep

\* A pairing mints exactly one device, however many clients present its code
\* and however their hellos interleave between the two mutexes of authenticate.
THEOREM PairingMintsOnce == Spec => []PairedOnce
<1>1. Init => PairInv /\ PairedOnce
    <2> SUFFICES ASSUME Init PROVE PairInv /\ PairedOnce
        OBVIOUS
    <2>1. /\ DOMAIN pairings = {} /\ DOMAIN devices = {} /\ phase = "serving"
          /\ \A c \in Conns : thread[c] = "ended" /\ minting[c] = 0
        BY EmptyFrames DEF Init
    <2>2. QED
        BY <2>1 DEF PairInv, PairedOnce
<1>2. QED
    BY <1>1, TypeInit, TypeStep, PairStep, PTL DEF Spec

-----------------------------------------------------------------------------
(* The window of completed_commands *)

\* The cache m holds the newest acks of the connection whose acks are r.
Windowed(r, m) ==
    /\ Len(m) = IF Len(r) < CacheLimit THEN Len(r) ELSE CacheLimit
    /\ \A i \in 1..Len(m) : m[i] = r[Len(r) - Len(m) + i]

Spaced(r) ==
    \A i, j \in DOMAIN r : i < j /\ r[i].id = r[j].id => j - i > CacheLimit

WindowInv == \A c \in Conns : Windowed(ran[c], completed[c])

\* remember_command keeps the newest acks, at the limit and below it.
LEMMA RememberWindow ==
    ASSUME NEW r \in Seq(Frame), NEW m \in Seq(Frame), NEW ack \in Frame, Windowed(r, m)
    PROVE  Windowed(Append(r, ack), Remember(m, ack))
<1> DEFINE r2 == Append(r, ack)
           n == Len(r)
           k == Len(m)
<1>1. n \in Nat /\ k \in Nat /\ CacheLimit \in Nat /\ CacheLimit >= 1
    BY LenProperties, GatewayAssumption
<1>2. /\ Len(r2) = n + 1 /\ r2[n + 1] = ack
      /\ \A i \in 1..n : r2[i] = r[i]
    BY AppendProperties
<1>w. /\ k = IF n < CacheLimit THEN n ELSE CacheLimit
      /\ \A i \in 1..k : m[i] = r[n - k + i]
    BY DEF Windowed
<1> HIDE DEF r2
<1>3. CASE k < CacheLimit
    <2> DEFINE m2 == Append(m, ack)
    <2>1. Remember(m, ack) = m2
        BY <1>3 DEF Remember
    <2>2. Len(m2) = k + 1 /\ m2[k + 1] = ack /\ \A i \in 1..k : m2[i] = m[i]
        BY AppendProperties
    <2> HIDE DEF m2
    <2>3. k = n
        BY <1>1, <1>3, <1>w
    <2>4. Len(m2) = IF Len(r2) < CacheLimit THEN Len(r2) ELSE CacheLimit
        BY <1>1, <1>2, <1>3, <2>2, <2>3
    <2>5. ASSUME NEW i \in 1..Len(m2) PROVE m2[i] = r2[Len(r2) - Len(m2) + i]
        <3>1. i \in 1..(k + 1) /\ Len(r2) - Len(m2) + i = i
            BY <1>1, <1>2, <2>2, <2>3
        <3>2. CASE i = k + 1
            BY <1>2, <2>2, <2>3, <3>1, <3>2
        <3>3. CASE i \in 1..k
            <4>1. n - k + i = i /\ i \in 1..n
                BY <1>1, <2>3, <3>3
            <4>2. QED
                BY <1>2, <1>w, <2>2, <3>1, <3>3, <4>1
        <3>4. QED
            BY <1>1, <3>1, <3>2, <3>3
    <2>6. QED
        BY <2>1, <2>4, <2>5 DEF Windowed, r2
<1>4. CASE ~(k < CacheLimit)
    <2> DEFINE m2 == Append(Tail(m), ack)
    <2>1. Remember(m, ack) = m2
        BY <1>4 DEF Remember
    <2>2. k = CacheLimit /\ n >= k /\ k >= 1
        BY <1>1, <1>4, <1>w
    <2>3. /\ Tail(m) \in Seq(Frame) /\ Len(Tail(m)) = k - 1
          /\ \A i \in 1..(k - 1) : Tail(m)[i] = m[i + 1]
        <3>1. m # <<>>
            BY <2>2, EmptySeq
        <3>2. QED
            BY <3>1, HeadTailProperties
    <2>4. Len(m2) = k /\ m2[k] = ack /\ \A i \in 1..(k - 1) : m2[i] = m[i + 1]
        <3>1. /\ Len(m2) = Len(Tail(m)) + 1 /\ m2[Len(Tail(m)) + 1] = ack
              /\ \A i \in 1..Len(Tail(m)) : m2[i] = Tail(m)[i]
            BY <2>3, AppendProperties
        <3>2. Len(Tail(m)) + 1 = k
            BY <1>1, <2>3
        <3>3. QED
            BY <2>3, <3>1, <3>2
    <2> HIDE DEF m2
    <2>5. Len(m2) = IF Len(r2) < CacheLimit THEN Len(r2) ELSE CacheLimit
        BY <1>1, <1>2, <2>2, <2>4
    <2>6. ASSUME NEW i \in 1..Len(m2) PROVE m2[i] = r2[Len(r2) - Len(m2) + i]
        <3>1. i \in 1..k /\ Len(r2) - Len(m2) + i = n - k + 1 + i
            BY <1>1, <1>2, <2>4
        <3>2. CASE i = k
            <4>1. n - k + 1 + i = n + 1
                BY <1>1, <3>2
            <4>2. QED
                BY <1>2, <2>4, <3>1, <3>2, <4>1
        <3>3. CASE i \in 1..(k - 1)
            <4>1. i + 1 \in 1..k /\ n - k + (i + 1) = n - k + 1 + i /\ n - k + 1 + i \in 1..n
                BY <1>1, <2>2, <3>3
            <4>2. m[i + 1] = r[n - k + (i + 1)]
                BY <1>w, <4>1
            <4>3. QED
                BY <1>2, <2>4, <3>1, <3>3, <4>1, <4>2
        <3>4. QED
            BY <1>1, <3>1, <3>2, <3>3
    <2>7. QED
        BY <2>1, <2>5, <2>6 DEF Windowed, r2
<1>5. QED
    BY <1>3, <1>4

\* A command that the cache does not hold is far from its last completion.
LEMMA SpacedAppended ==
    ASSUME NEW r \in Seq(Frame), NEW m \in Seq(Frame), NEW ack \in Frame,
           Windowed(r, m), Spaced(r), ack.id \notin Ids(m)
    PROVE  Spaced(Append(r, ack))
<1> DEFINE r2 == Append(r, ack)
           n == Len(r)
           k == Len(m)
<1>1. n \in Nat /\ k \in Nat /\ CacheLimit \in Nat /\ DOMAIN r = 1..n /\ DOMAIN m = 1..k
    BY LenProperties, GatewayAssumption
<1>2. /\ r2[n + 1] = ack /\ DOMAIN r2 = 1..(n + 1)
      /\ \A i \in 1..n : r2[i] = r[i]
    BY AppendProperties, LenProperties
<1>w. /\ k = IF n < CacheLimit THEN n ELSE CacheLimit
      /\ \A i \in 1..k : m[i] = r[n - k + i]
    BY DEF Windowed
<1> HIDE DEF r2
<1>3. SUFFICES ASSUME NEW i \in 1..(n + 1), NEW j \in 1..(n + 1), i < j, r2[i].id = r2[j].id
               PROVE  j - i > CacheLimit
    BY <1>2 DEF Spaced, r2
<1>4. CASE j \in 1..n
    <2>1. i \in 1..n
        BY <1>1, <1>3, <1>4
    <2>2. QED
        BY <1>1, <1>2, <1>3, <1>4, <2>1 DEF Spaced
<1>5. CASE j = n + 1
    <2>1. i \in 1..n /\ r[i].id = ack.id
        BY <1>1, <1>2, <1>3, <1>5
    <2>2. ASSUME i > n - k PROVE FALSE
        <3>1. i - (n - k) \in 1..k /\ n - k + (i - (n - k)) = i
            <4>1. n \in Nat /\ k \in Nat /\ i \in 1..n /\ i > n - k
                BY <1>1, <2>1, <2>2
            <4> HIDE DEF n, k
            <4>2. QED
                BY <4>1
        <3>2. m[i - (n - k)] = r[i]
            BY <1>w, <3>1
        <3>3. m[i - (n - k)].id \in Ids(m)
            BY <1>1, <3>1 DEF Ids
        <3>4. QED
            BY <2>1, <3>2, <3>3
    <2>3. QED
        BY <1>1, <1>5, <1>w, <2>1, <2>2
<1>6. QED
    BY <1>1, <1>4, <1>5

\* What happens to the cache and the history of completions in a step.
LEMMA CacheStep ==
    ASSUME TypeOK, [Next]_vars
    PROVE  \/ UNCHANGED <<completed, ran>>
           \/ \E c \in Conns : /\ completed' = [completed EXCEPT ![c] = <<>>]
                               /\ ran' = [ran EXCEPT ![c] = <<>>]
           \/ \E c \in Conns : \E ack \in Frame :
                 /\ ack.id \notin Ids(completed[c])
                 /\ completed' = [completed EXCEPT ![c] = Remember(@, ack)]
                 /\ ran' = [ran EXCEPT ![c] = Append(@, ack)]
<1> DEFINE Remembers(c, ack) ==
               /\ ack.id \notin Ids(completed[c])
               /\ completed' = [completed EXCEPT ![c] = Remember(@, ack)]
               /\ ran' = [ran EXCEPT ![c] = Append(@, ack)]
           Resets(c) == /\ completed' = [completed EXCEPT ![c] = <<>>]
                        /\ ran' = [ran EXCEPT ![c] = <<>>]
<1>1. ASSUME NEW c \in Conns, NEW res \in Results, Complete(c, Ack(Requested(c), res))
      PROVE  \E ack \in Frame : Remembers(c, ack)
    <2>1. inbox[c] # <<>>
        BY <1>1 DEF Complete, Reply
    <2>2. Ack(Requested(c), res) \in Frame /\ Ack(Requested(c), res).id = Requested(c)
        BY <2>1, RequestedType DEF Ack
    <2>3. QED
        BY <1>1, <2>2 DEF Complete
<1>2. ASSUME NEW c \in Conns,
             \/ Deny(c) \/ Inspect(c) \/ Input(c) \/ RevokeDevice(c) \/ Stop(c)
             \/ \E code \in Codes : BeginPairing(c, code)
      PROVE  \E ack \in Frame : Remembers(c, ack)
    <2>1. \E res \in Results : Complete(c, Ack(Requested(c), res))
        BY <1>2 DEF Deny, Inspect, Input, RevokeDevice, Stop, BeginPairing, Execute, Results
    <2>2. QED
        BY <1>1, <2>1
<1>3. ASSUME NEW c \in Conns, NEW cred, Connect(c, cred) PROVE Resets(c)
    BY <1>3 DEF Connect
<1>4. ASSUME NEW c \in Conns,
             \/ \E r \in Requests : Call(c, r)
             \/ ClientStep(c) \/ Timeout(c) \/ Leave(c)
      PROVE  UNCHANGED <<completed, ran>>
    BY <1>4 DEF Call, ClientStep, ReceiveHello, Receive, Closed, Timeout, Leave, connVars
<1>5. ASSUME NEW c \in Conns,
             \/ Accept(c) \/ CheckShutdown(c) \/ EnterManager(c) \/ ReadNothing(c)
             \/ ReadClose(c) \/ Heartbeat(c)
             \/ Write(c) \/ WriteFails(c) \/ \E p \in DOMAIN pairings : ConsumePairing(c, p)
             \/ MintDevice(c) \/ WelcomeDev(c) \/ RejectHello(c) \/ RefuseUnwelcome(c)
             \/ AnswerFromCache(c)
      PROVE  UNCHANGED <<completed, ran>>
    BY <1>5 DEF Accept, CheckShutdown, EnterManager, ReadNothing, ReadClose, Heartbeat, Write,
       WriteFails,
        ConsumePairing, MintDevice, WelcomeDev, RejectHello, RefuseUnwelcome, AnswerFromCache
<1>6. ASSUME \/ \E p \in DOMAIN pairings : ExpirePairing(p)
             \/ RunReturns \/ PumpEnds \/ PumpBlocks \/ PumpReturns \/ ServeReturns \/ UNCHANGED vars
      PROVE  UNCHANGED <<completed, ran>>
    BY <1>6 DEF ExpirePairing, RunReturns, PumpEnds, PumpBlocks, PumpReturns, ServeReturns, vars,
       connVars
<1> HIDE DEF Remembers, Resets
<1>7. \/ UNCHANGED <<completed, ran>>
      \/ \E c \in Conns : Resets(c)
      \/ \E c \in Conns : \E ack \in Frame : Remembers(c, ack)
    <2>1. ASSUME NEW c \in Conns, ConnStep(c)
          PROVE  \/ UNCHANGED <<completed, ran>>
                 \/ Resets(c)
                 \/ \E ack \in Frame : Remembers(c, ack)
        BY <1>2, <1>3, <1>4, <1>5, <2>1 DEF ConnStep, ThreadStep
    <2>2. QED
        BY <1>6, <2>1 DEF Next, ConnStep
<1>8. QED
    BY <1>7 DEF Remembers, Resets

LEMMA WindowStep ==
    TypeOK /\ WindowInv /\ RetryWindow /\ [Next]_vars => WindowInv' /\ RetryWindow'
<1> SUFFICES ASSUME TypeOK, WindowInv, RetryWindow, [Next]_vars PROVE WindowInv' /\ RetryWindow'
    OBVIOUS
<1>t. completed \in [Conns -> Seq(Frame)] /\ ran \in [Conns -> Seq(Frame)]
    BY DEF TypeOK
<1>s. /\ \A c \in Conns : Spaced(ran[c])
      /\ (\A c \in Conns : Windowed(ran'[c], completed'[c])) => WindowInv'
      /\ (\A c \in Conns : Spaced(ran'[c])) => RetryWindow'
    BY DEF RetryWindow, Spaced, WindowInv
<1>1. CASE UNCHANGED <<completed, ran>>
    BY <1>1 DEF WindowInv, RetryWindow
<1>2. ASSUME NEW c \in Conns, completed' = [completed EXCEPT ![c] = <<>>],
             ran' = [ran EXCEPT ![c] = <<>>]
      PROVE  WindowInv' /\ RetryWindow'
    <2>1. Windowed(<<>>, <<>>) /\ Spaced(<<>>)
        BY EmptyFrames, GatewayAssumption DEF Windowed, Spaced
    <2>2. \A d \in Conns : /\ completed'[d] = IF d = c THEN <<>> ELSE completed[d]
                           /\ ran'[d] = IF d = c THEN <<>> ELSE ran[d]
        BY <1>2, <1>t
    <2>3. QED
        BY <1>s, <2>1, <2>2 DEF WindowInv
<1>3. ASSUME NEW c \in Conns, NEW ack \in Frame, ack.id \notin Ids(completed[c]),
             completed' = [completed EXCEPT ![c] = Remember(@, ack)],
             ran' = [ran EXCEPT ![c] = Append(@, ack)]
      PROVE  WindowInv' /\ RetryWindow'
    <2>1. completed[c] \in Seq(Frame) /\ ran[c] \in Seq(Frame) /\ Windowed(ran[c], completed[c])
        BY <1>t DEF WindowInv
    <2>2. Windowed(Append(ran[c], ack), Remember(completed[c], ack))
        BY <2>1, RememberWindow
    <2>3. Spaced(Append(ran[c], ack))
        BY <1>3, <1>s, <2>1, SpacedAppended
    <2>4. \A d \in Conns :
             /\ completed'[d] = IF d = c THEN Remember(completed[c], ack) ELSE completed[d]
             /\ ran'[d] = IF d = c THEN Append(ran[c], ack) ELSE ran[d]
        BY <1>3, <1>t
    <2>5. QED
        BY <1>s, <2>2, <2>3, <2>4 DEF WindowInv
<1>4. QED
    BY <1>1, <1>2, <1>3, CacheStep

LEMMA WindowInit == Init => WindowInv /\ RetryWindow
<1> SUFFICES ASSUME Init PROVE WindowInv /\ RetryWindow
    OBVIOUS
<1>1. \A c \in Conns : ran[c] = <<>> /\ completed[c] = <<>>
    BY DEF Init
<1>2. Windowed(<<>>, <<>>)
    BY EmptyFrames, GatewayAssumption DEF Windowed
<1>3. QED
    BY <1>1, <1>2, EmptyFrames DEF WindowInv, RetryWindow

\* A connection carries a command out again only after CacheLimit other
\* completions: the cache of completed_commands is exactly the last CacheLimit
\* acks, for every limit and every order of retries, time-outs and answers.
THEOREM RetriesAnswered == Spec => []RetryWindow
BY WindowInit, WindowStep, TypeInit, TypeStep, PTL DEF Spec

-----------------------------------------------------------------------------
(* A call returns the result of its own command *)

Elems(q) == {q[i] : i \in 1..Len(q)}

HasHello(q) == \E f \in Elems(q) : f.type = "hello"

LEMMA ElemsOf ==
    ASSUME NEW q \in Seq(Frame), NEW p \in Seq(Frame), NEW f \in Frame
    PROVE  /\ Elems(Append(q, f)) = Elems(q) \cup {f}
           /\ Elems(q \o p) = Elems(q) \cup Elems(p)
           /\ q # <<>> => Head(q) \in Elems(q) /\ Elems(Tail(q)) \subseteq Elems(q)
           /\ q # <<>> /\ (HasHello(q) => Len(q) = 1) => ~HasHello(Tail(q))
<1>1. Len(q) \in Nat /\ Len(p) \in Nat
    BY LenProperties
<1>2. Elems(Append(q, f)) = Elems(q) \cup {f}
    <2>1. /\ Len(Append(q, f)) = Len(q) + 1 /\ Append(q, f)[Len(q) + 1] = f
          /\ \A i \in 1..Len(q) : Append(q, f)[i] = q[i]
        BY AppendProperties
    <2>2. 1..(Len(q) + 1) = 1..Len(q) \cup {Len(q) + 1}
        BY <1>1
    <2>3. QED
        BY <2>1, <2>2 DEF Elems
<1>3. Elems(q \o p) = Elems(q) \cup Elems(p)
    <2>1. /\ Len(q \o p) = Len(q) + Len(p)
          /\ \A i \in 1..(Len(q) + Len(p)) :
                (q \o p)[i] = IF i <= Len(q) THEN q[i] ELSE p[i - Len(q)]
        BY ConcatProperties
    <2>2. ASSUME NEW i \in 1..Len(q \o p)
          PROVE  (q \o p)[i] \in Elems(q) \cup Elems(p)
        <3>1. CASE i <= Len(q)
            BY <1>1, <2>1, <3>1 DEF Elems
        <3>2. CASE ~(i <= Len(q))
            <4>1. i - Len(q) \in 1..Len(p) /\ (q \o p)[i] = p[i - Len(q)]
                BY <1>1, <2>1, <3>2
            <4>2. QED
                BY <4>1 DEF Elems
        <3>3. QED
            BY <3>1, <3>2
    <2>3. ASSUME NEW i \in 1..Len(q) PROVE q[i] \in Elems(q \o p)
        <3>1. i \in 1..Len(q \o p) /\ (q \o p)[i] = q[i]
            BY <1>1, <2>1
        <3>2. QED
            BY <3>1 DEF Elems
    <2>4. ASSUME NEW i \in 1..Len(p) PROVE p[i] \in Elems(q \o p)
        <3>1. /\ i + Len(q) \in 1..Len(q \o p) /\ ~(i + Len(q) <= Len(q))
              /\ (i + Len(q)) - Len(q) = i
            BY <1>1, <2>1
        <3>2. (q \o p)[i + Len(q)] = p[i]
            BY <2>1, <3>1
        <3>3. QED
            BY <3>1, <3>2 DEF Elems
    <2>5. QED
        BY <2>2, <2>3, <2>4 DEF Elems
<1>4. ASSUME q # <<>>
      PROVE  /\ Head(q) \in Elems(q) /\ Elems(Tail(q)) \subseteq Elems(q)
             /\ Len(Tail(q)) = Len(q) - 1
    <2>1. /\ Head(q) = q[1] /\ Len(Tail(q)) = Len(q) - 1 /\ Len(q) >= 1
          /\ \A i \in 1..Len(Tail(q)) : Tail(q)[i] = q[i + 1]
        BY <1>1, <1>4, HeadTailProperties, EmptySeq
    <2>2. 1 \in 1..Len(q) /\ \A i \in 1..Len(Tail(q)) : i + 1 \in 1..Len(q)
        BY <1>1, <2>1
    <2>3. QED
        BY <2>1, <2>2 DEF Elems
<1>5. ASSUME q # <<>>, HasHello(q) => Len(q) = 1, HasHello(Tail(q)) PROVE FALSE
    <2>1. HasHello(q)
        BY <1>4, <1>5 DEF HasHello
    <2>2. Len(Tail(q)) = 0
        BY <1>4, <1>5, <2>1
    <2>3. Elems(Tail(q)) = {}
        BY <2>2 DEF Elems
    <2>4. QED
        BY <1>5, <2>3 DEF HasHello
<1>6. QED
    BY <1>2, <1>3, <1>4, <1>5

LEMMA ElemsEmpty == Elems(<<>>) = {} /\ ~HasHello(<<>>)
BY EmptyFrames DEF Elems, HasHello

\* The hello of a connection has not been answered.
Greeting(c) == thread[c] = "mint" \/ HasHello(inbox[c])

\* An ack that says what became of a command on this connection.
Own(c, f) == (f.res = "unauthenticated" /\ ~welcomed[c]) \/ f \in Elems(ran[c])

Underway(c) == Elems(outbound[c]) \cup Elems(wire[c])

\* Per connection: the hello comes first and alone, nothing is acknowledged
\* before it is answered, so no connection is welcomed after it has refused a
\* command; every ack under way is one of this connection's own; and a client
\* inside call waits for a request that is open.
OwnInv(c) ==
    /\ HasHello(inbox[c]) => Len(inbox[c]) = 1 /\ thread[c] # "mint"
    /\ Greeting(c) => /\ client[c] \in {"hello", "off"}
                      /\ \A f \in Underway(c) : f.type \notin {"welcome", "ack"}
    /\ \A f \in Underway(c) : f.type = "ack" => Own(c, f)
    /\ client[c] = "call" => asked[c] \in Requests /\ request[c][asked[c]] = "open"
    /\ client[c] = "hello" => asked[c] = NoRequest
    /\ client[c] = "idle" /\ asked[c] # NoRequest /\ request[c][asked[c]] = "answered" =>
          answer[c].id = asked[c] /\ Own(c, answer[c])

\* A step of the connection thread, which leaves the client alone.
LEMMA OwnThreadStep ==
    ASSUME NEW c \in Conns, OwnInv(c),
           client'[c] = client[c], asked'[c] = asked[c], request'[c] = request[c],
           answer'[c] = answer[c],
           HasHello(inbox'[c]) => Len(inbox'[c]) = 1 /\ thread'[c] # "mint",
           Greeting(c)' => Greeting(c),
           \A f \in Underway(c)' :
              f \in Underway(c) \/ /\ f.type = "ack" => Own(c, f)'
                                   /\ f.type \in {"welcome", "ack"} => ~Greeting(c)',
           Elems(ran[c]) \subseteq Elems(ran'[c]),
           welcomed'[c] = welcomed[c] \/ Greeting(c)
    PROVE  OwnInv(c)'
<1>1. ASSUME NEW f, Own(c, f), welcomed'[c] = welcomed[c] PROVE Own(c, f)'
    BY <1>1 DEF Own
<1>2. Greeting(c)' => /\ client'[c] \in {"hello", "off"}
                      /\ \A f \in Underway(c)' : f.type \notin {"welcome", "ack"}
    BY DEF OwnInv
<1>3. \A f \in Underway(c)' : f.type = "ack" => Own(c, f)'
    BY <1>1 DEF OwnInv
<1>4. client[c] = "idle" => welcomed'[c] = welcomed[c]
    BY DEF OwnInv
<1>5. client[c] = "idle" /\ asked[c] # NoRequest /\ request[c][asked[c]] = "answered" =>
          answer[c].id = asked[c] /\ Own(c, answer[c])'
    BY <1>1, <1>4 DEF OwnInv
<1>6. QED
    BY <1>2, <1>3, <1>5 DEF OwnInv, Own

\* The steps of the client.
LEMMA OwnClientStep ==
    ASSUME TypeOK, NEW c \in Conns, OwnInv(c),
           \/ \E cred \in Offers[c] : Connect(c, cred)
           \/ \E r \in Requests : Call(c, r)
           \/ ClientStep(c) \/ Timeout(c) \/ Leave(c)
    PROVE  OwnInv(c)'
<1>t. /\ inbox[c] \in Seq(Frame) /\ outbound[c] \in Seq(Frame) /\ wire[c] \in Seq(Frame)
      /\ SocketType /\ ClientType /\ ThreadType /\ CacheType
    BY TypeParts DEF SocketType
<1>1. ASSUME NEW cred \in Offers[c], Connect(c, cred) PROVE OwnInv(c)'
    <2>1. /\ inbox'[c] = IF cred = "skip" THEN <<>> ELSE <<Hello(cred)>>
          /\ outbound'[c] = <<>> /\ wire'[c] = <<>> /\ thread'[c] = "backlog"
          /\ client'[c] = IF cred = "skip" THEN "idle" ELSE "hello"
          /\ asked'[c] = NoRequest
        BY <1>1, <1>t DEF Connect, SocketType, ClientType, ThreadType
    <2>2. Underway(c)' = {}
        BY <2>1, ElemsEmpty DEF Underway
    <2>3. CASE cred = "skip"
        <3>1. ~HasHello(inbox'[c]) /\ ~Greeting(c)' /\ client'[c] = "idle"
            BY <2>1, <2>3, ElemsEmpty DEF Greeting
        <3>2. QED
            BY <2>1, <2>2, <3>1 DEF OwnInv
    <2>4. CASE cred # "skip"
        <3>1. Len(inbox'[c]) = 1 /\ client'[c] = "hello"
            BY <2>1, <2>4
        <3>2. QED
            BY <2>1, <2>2, <3>1 DEF OwnInv
    <2>5. QED
        BY <2>3, <2>4
<1>q. ~Greeting(c) => \A f \in Frame : f.type # "hello" => ~HasHello(Append(inbox[c], f))
    <2>1. \A f \in Frame : Elems(Append(inbox[c], f)) = Elems(inbox[c]) \cup {f}
        BY <1>t, ElemsOf
    <2>2. QED
        BY <2>1 DEF Greeting, HasHello
<1>u. ASSUME UNCHANGED <<ran, welcomed>> PROVE \A f : Own(c, f)' <=> Own(c, f)
    BY <1>u DEF Own
<1>2. ASSUME NEW r \in Requests, Call(c, r) PROVE OwnInv(c)'
    <2>1. /\ client[c] = "idle" /\ inbox'[c] = Append(inbox[c], Command(r))
          /\ client'[c] = "call" /\ asked'[c] = r /\ request'[c][r] = "open"
          /\ UNCHANGED <<thread, outbound, wire, ran, welcomed>>
        BY <1>2, <1>t DEF Call, connVars, SocketType, ClientType
    <2>2. ~Greeting(c)
        BY <2>1 DEF OwnInv
    <2>3. Command(r) \in Frame /\ Command(r).type # "hello"
        BY FrameTypes DEF Command
    <2>4. ~HasHello(inbox'[c]) /\ ~Greeting(c)'
        BY <1>q, <2>1, <2>2, <2>3 DEF Greeting
    <2>5. Underway(c)' = Underway(c)
        BY <2>1 DEF Underway
    <2>6. QED
        BY <1>u, <2>1, <2>4, <2>5 DEF OwnInv
<1>3. CASE ReceiveHello(c)
    <2>1. /\ client[c] = "hello" /\ wire[c] # <<>> /\ wire'[c] = Tail(wire[c])
          /\ client'[c] \in {"idle", "off", "hello"}
          /\ client'[c] = "idle" => Head(wire[c]) = Welcome
          /\ UNCHANGED <<thread, outbound, inbox, asked, request, answer, ran, welcomed>>
        BY <1>3, <1>t DEF ReceiveHello, connVars, SocketType, ClientType, Welcome, ErrorFrame
    <2>2. Head(wire[c]) \in Elems(wire[c]) /\ Elems(Tail(wire[c])) \subseteq Elems(wire[c])
        BY <1>t, <2>1, ElemsOf
    <2>3. Head(wire[c]) \in Underway(c) /\ Underway(c)' \subseteq Underway(c)
        BY <2>1, <2>2 DEF Underway
    <2>4. client'[c] = "idle" => ~Greeting(c)
        BY <2>1, <2>3 DEF OwnInv, Welcome
    <2>5. Greeting(c)' <=> Greeting(c)
        BY <2>1 DEF Greeting
    <2>6. asked[c] = NoRequest
        BY <2>1 DEF OwnInv
    <2>7. QED
        BY <1>u, <2>1, <2>3, <2>4, <2>5, <2>6 DEF OwnInv
<1>4. CASE Receive(c)
    <2> DEFINE f == Head(wire[c])
    <2>1. /\ client[c] = "call" /\ wire[c] # <<>> /\ wire'[c] = Tail(wire[c])
          /\ inbox'[c] \in {inbox[c], Append(inbox[c], Pong)}
          /\ UNCHANGED <<thread, outbound, asked, ran, welcomed>>
        BY <1>4, <1>t DEF Receive, connVars, SocketType
    <2>2. /\ f \in Elems(wire[c]) /\ Elems(Tail(wire[c])) \subseteq Elems(wire[c])
        BY <1>t, <2>1, ElemsOf
    <2>3. f \in Underway(c) /\ Underway(c)' \subseteq Underway(c)
        BY <2>1, <2>2 DEF Underway
    <2>4. ~Greeting(c) /\ asked[c] \in Requests /\ request[c][asked[c]] = "open"
        BY <2>1 DEF OwnInv
    <2>5. Pong \in Frame /\ Pong.type # "hello"
        BY FrameTypes DEF Pong
    <2>6. ~HasHello(inbox'[c]) /\ ~Greeting(c)'
        BY <1>q, <2>1, <2>4, <2>5 DEF Greeting
    <2>7. CASE f.type = "ack" /\ f.id = asked[c]
        <3>1. client'[c] = "idle" /\ answer'[c] = f
            BY <1>4, <1>t, <2>7 DEF Receive, ClientType
        <3>2. Own(c, f)
            BY <2>3, <2>7 DEF OwnInv
        <3> HIDE DEF f
        <3>3. QED
            BY <1>u, <2>1, <2>3, <2>6, <2>7, <3>1, <3>2 DEF OwnInv
    <2>8. CASE ~(f.type = "ack" /\ f.id = asked[c])
        <3>1. UNCHANGED <<client, request, answer>>
            BY <1>4, <2>8 DEF Receive
        <3>2. QED
            BY <1>u, <2>1, <2>3, <2>4, <2>6, <3>1 DEF OwnInv
    <2>9. QED
        BY <2>7, <2>8
<1>5. CASE Timeout(c)
    <2>1. /\ client[c] = "call" /\ client'[c] = "idle"
          /\ UNCHANGED <<thread, outbound, inbox, wire, asked, request, answer, ran, welcomed>>
        BY <1>5, <1>t DEF Timeout, connVars, ClientType
    <2>2. ~Greeting(c) /\ request[c][asked[c]] = "open"
        BY <2>1 DEF OwnInv
    <2>3. (Greeting(c)' <=> Greeting(c)) /\ Underway(c)' = Underway(c)
        BY <2>1 DEF Greeting, Underway
    <2>4. QED
        BY <1>u, <2>1, <2>2, <2>3 DEF OwnInv
<1>6. CASE Closed(c) \/ Leave(c)
    <2>1. /\ client'[c] = "off" /\ wire'[c] \in {wire[c], <<>>}
          /\ UNCHANGED <<thread, outbound, inbox, asked, request, answer, ran, welcomed>>
        BY <1>6, <1>t DEF Closed, Leave, connVars, ClientType, SocketType
    <2>2. (Greeting(c)' <=> Greeting(c)) /\ Underway(c)' \subseteq Underway(c)
        BY <2>1, ElemsEmpty DEF Greeting, Underway
    <2>3. QED
        BY <1>u, <2>1, <2>2 DEF OwnInv
<1>7. QED
    BY <1>1, <1>2, <1>3, <1>4, <1>5, <1>6 DEF ClientStep

\* A frame of the inbox answered: whatever it was, no hello is left.
LEMMA OwnAnswered ==
    ASSUME TypeOK, NEW c \in Conns, OwnInv(c), NEW type, NEW frame \in Frame,
           Reply(c, type, frame), frame.type = "ack" => Own(c, frame)',
           Elems(ran[c]) \subseteq Elems(ran'[c]), welcomed'[c] = welcomed[c] \/ type = "hello"
    PROVE  OwnInv(c)'
<1>t. /\ inbox[c] \in Seq(Frame) /\ outbound[c] \in Seq(Frame)
      /\ SocketType /\ ThreadType
    BY TypeParts DEF SocketType
<1>1. /\ inbox[c] # <<>> /\ Head(inbox[c]).type = type /\ inbox'[c] = Tail(inbox[c])
      /\ outbound'[c] = Append(outbound[c], frame) /\ thread'[c] = "write"
      /\ UNCHANGED <<wire, client, asked, request, answer>>
    BY <1>t DEF Reply, SocketType, ThreadType, clientVars
<1>2. ~HasHello(inbox'[c]) /\ Head(inbox[c]) \in Elems(inbox[c])
    BY <1>t, <1>1, ElemsOf DEF OwnInv
<1>3. ~Greeting(c)' /\ (type = "hello" => Greeting(c))
    BY <1>1, <1>2 DEF Greeting, HasHello
<1>4. Underway(c)' = Underway(c) \cup {frame}
    BY <1>t, <1>1, ElemsOf DEF Underway
<1>5. QED
    BY <1>1, <1>2, <1>3, <1>4, OwnThreadStep

LEMMA OwnStepOfThread ==
    ASSUME TypeOK, WindowInv, NEW c \in Conns, OwnInv(c),
           Accept(c) \/ ThreadStep(c) \/ Heartbeat(c) \/ WriteFails(c)
    PROVE  OwnInv(c)'
<1>t. /\ inbox[c] \in Seq(Frame) /\ outbound[c] \in Seq(Frame) /\ wire[c] \in Seq(Frame)
      /\ SocketType /\ ThreadType /\ CacheType
    BY TypeParts DEF SocketType
<1>h. HasHello(inbox[c]) => Len(inbox[c]) = 1 /\ thread[c] # "mint"
    BY DEF OwnInv
<1>1. CASE Accept(c) \/ CheckShutdown(c) \/ EnterManager(c) \/ ReadClose(c) \/ WriteFails(c)
    <2>1. /\ thread'[c] # "mint"
          /\ UNCHANGED <<inbox, outbound, wire, client, asked, request, answer, ran, welcomed>>
        BY <1>1, <1>t DEF Accept, CheckShutdown, EnterManager, ReadClose, WriteFails, ThreadType,
           clientVars
    <2>2. (Greeting(c)' => Greeting(c)) /\ Underway(c)' = Underway(c)
        BY <2>1 DEF Greeting, Underway
    <2>3. QED
        BY <1>h, <2>1, <2>2, OwnThreadStep
<1>2. CASE ReadNothing(c)
    <2>1. /\ thread'[c] # "mint"
          /\ inbox'[c] = inbox[c] \/ (inbox[c] # <<>> /\ inbox'[c] = Tail(inbox[c]))
          /\ UNCHANGED <<outbound, wire, client, asked, request, answer, ran, welcomed>>
        BY <1>2, <1>t DEF ReadNothing, ThreadType, SocketType, clientVars
    <2>2. HasHello(inbox'[c]) => inbox'[c] = inbox[c]
        BY <1>h, <1>t, <2>1, ElemsOf
    <2>3. (Greeting(c)' => Greeting(c)) /\ Underway(c)' = Underway(c)
        BY <2>1, <2>2 DEF Greeting, Underway
    <2>4. QED
        BY <1>h, <2>1, <2>2, <2>3, OwnThreadStep
<1>3. CASE Heartbeat(c)
    <2>1. /\ thread'[c] = "write" /\ outbound'[c] = Append(outbound[c], Ping)
          /\ UNCHANGED <<inbox, wire, client, asked, request, answer, ran, welcomed>>
        BY <1>3, <1>t DEF Heartbeat, ThreadType, SocketType, clientVars
    <2>2. Ping \in Frame /\ Ping.type \notin {"welcome", "ack"}
        BY FrameTypes DEF Ping
    <2>3. (Greeting(c)' => Greeting(c)) /\ Underway(c)' = Underway(c) \cup {Ping}
        BY <1>t, <2>1, <2>2, ElemsOf DEF Greeting, Underway
    <2>4. QED
        BY <1>h, <2>1, <2>2, <2>3, OwnThreadStep
<1>4. ASSUME NEW p \in DOMAIN pairings, ConsumePairing(c, p) PROVE OwnInv(c)'
    <2>1. /\ inbox[c] # <<>> /\ Head(inbox[c]).type = "hello" /\ inbox'[c] = Tail(inbox[c])
          /\ UNCHANGED <<outbound, wire, client, asked, request, answer, ran, welcomed>>
        BY <1>4, <1>t DEF ConsumePairing, SocketType, clientVars
    <2>2. ~HasHello(inbox'[c]) /\ Head(inbox[c]) \in Elems(inbox[c])
        BY <1>h, <1>t, <2>1, ElemsOf
    <2>3. Greeting(c) /\ Underway(c)' = Underway(c)
        BY <2>1, <2>2 DEF Greeting, HasHello, Underway
    <2>4. QED
        BY <2>1, <2>2, <2>3, OwnThreadStep
<1>5. CASE MintDevice(c)
    <2>1. /\ thread[c] = "mint" /\ thread'[c] = "write"
          /\ outbound'[c] = Append(outbound[c], Welcome)
          /\ UNCHANGED <<inbox, wire, client, asked, request, answer, ran>>
        BY <1>5, <1>t DEF MintDevice, ThreadType, SocketType, clientVars
    <2>2. Greeting(c) /\ ~Greeting(c)' /\ ~HasHello(inbox'[c])
        BY <1>h, <2>1 DEF Greeting
    <2>3. Welcome \in Frame /\ Welcome.type # "ack"
        BY FrameTypes DEF Welcome
    <2>4. Underway(c)' = Underway(c) \cup {Welcome}
        BY <1>t, <2>1, <2>3, ElemsOf DEF Underway
    <2>5. QED
        BY <2>1, <2>2, <2>3, <2>4, OwnThreadStep
<1>6. CASE WelcomeDev(c) \/ RejectHello(c)
    <2>1. Welcome \in Frame /\ ErrorFrame \in Frame /\ Welcome.type # "ack" /\ ErrorFrame.type # "ack"
        BY FrameTypes DEF Welcome, ErrorFrame
    <2>2. PICK f \in {Welcome, ErrorFrame} : Reply(c, "hello", f) /\ ran' = ran
        BY <1>6 DEF WelcomeDev, RejectHello
    <2>3. QED
        BY <2>1, <2>2, OwnAnswered
<1>7. CASE RefuseUnwelcome(c)
    <2>0. /\ Reply(c, "command", Ack(Requested(c), "unauthenticated")) /\ inbox[c] # <<>>
          /\ ~welcomed[c] /\ UNCHANGED <<ran, welcomed>>
        BY <1>7 DEF RefuseUnwelcome, Reply
    <2>1. PICK ack \in Frame : ack = Ack(Requested(c), "unauthenticated")
        BY <2>0, RequestedType DEF Results
    <2>2. ack.res = "unauthenticated"
        BY <2>1 DEF Ack
    <2>3. Own(c, ack)'
        BY <2>0, <2>2 DEF Own
    <2>4. QED
        BY <2>0, <2>1, <2>3, OwnAnswered
<1>8. CASE AnswerFromCache(c)
    <2>1. PICK i \in DOMAIN completed[c] : Reply(c, "command", completed[c][i])
        BY <1>8 DEF AnswerFromCache
    <2>2. /\ completed[c] \in Seq(Frame) /\ ran[c] \in Seq(Frame) /\ i \in 1..Len(completed[c])
          /\ UNCHANGED <<ran, welcomed>>
        BY <1>8, <1>t, LenProperties DEF CacheType, AnswerFromCache
    <2>3. completed[c][i] \in Frame
        BY <2>2, ElementOfSeq
    <2> DEFINE n == Len(ran[c])
               k == Len(completed[c])
    <2>4. n \in Nat /\ k \in Nat /\ i \in 1..k
        BY <2>2, LenProperties
    <2>w. k = (IF n < CacheLimit THEN n ELSE CacheLimit) /\ completed[c][i] = ran[c][n - k + i]
        BY <2>4 DEF WindowInv, Windowed
    <2>5. n - k + i \in 1..n
        <3> HIDE DEF n, k
        <3>1. CacheLimit \in Nat
            BY GatewayAssumption
        <3>2. k <= n
            BY <2>4, <2>w, <3>1
        <3>3. QED
            BY <2>4, <3>2
    <2>6. completed[c][i] \in Elems(ran[c])
        BY <2>w, <2>5 DEF Elems
    <2>7. PICK ack \in Frame : ack = completed[c][i]
        BY <2>3
    <2>8. Own(c, ack)'
        BY <2>2, <2>6, <2>7 DEF Own
    <2>9. QED
        BY <2>1, <2>2, <2>7, <2>8, OwnAnswered
<1>9. CASE \/ Deny(c) \/ Inspect(c) \/ Input(c) \/ RevokeDevice(c) \/ Stop(c)
           \/ \E code \in Codes : BeginPairing(c, code)
    <2>1. PICK res \in Results : Complete(c, Ack(Requested(c), res))
        BY <1>9 DEF Deny, Inspect, Input, RevokeDevice, Stop, BeginPairing, Execute, Results
    <2>2. inbox[c] # <<>>
        BY <2>1 DEF Complete, Reply
    <2>a. PICK ack \in Frame : ack = Ack(Requested(c), res)
        BY <2>2, RequestedType
    <2>3. /\ Reply(c, "command", ack) /\ welcomed' = welcomed
          /\ ran' = [ran EXCEPT ![c] = Append(ran[c], ack)]
        BY <2>1, <2>a DEF Complete
    <2>4. ran[c] \in Seq(Frame) /\ ran'[c] = Append(ran[c], ack)
        BY <1>t, <2>3 DEF CacheType
    <2>5. Elems(ran'[c]) = Elems(ran[c]) \cup {ack}
        BY <2>4, ElemsOf
    <2>6. Own(c, ack)'
        BY <2>5 DEF Own
    <2>7. QED
        BY <2>3, <2>5, <2>6, OwnAnswered
<1>10. CASE Write(c)
    <2>1. /\ thread[c] = "write" /\ thread'[c] = "check" /\ outbound'[c] = <<>>
          /\ wire'[c] \in {wire[c], wire[c] \o outbound[c]}
          /\ UNCHANGED <<inbox, client, asked, request, answer, ran, welcomed>>
        BY <1>10, <1>t DEF Write, ThreadType, SocketType, clientVars
    <2>2. Elems(wire[c] \o outbound[c]) = Elems(wire[c]) \cup Elems(outbound[c])
        <3>1. Ping \in Frame
            BY FrameTypes
        <3>2. QED
            BY <1>t, <3>1, ElemsOf
    <2>3. (Greeting(c)' => Greeting(c)) /\ Underway(c)' \subseteq Underway(c)
        BY <2>1, <2>2, ElemsEmpty DEF Greeting, Underway
    <2>4. QED
        BY <1>h, <2>1, <2>3, OwnThreadStep
<1>11. QED
    BY <1>1, <1>2, <1>3, <1>4, <1>5, <1>6, <1>7, <1>8, <1>9, <1>10 DEF ThreadStep

\* A step of one connection leaves the others alone.
LEMMA OthersAlone ==
    ASSUME TypeOK, NEW c \in Conns, ConnStep(c), NEW d \in Conns, d # c
    PROVE  /\ thread'[d] = thread[d] /\ inbox'[d] = inbox[d] /\ outbound'[d] = outbound[d]
           /\ wire'[d] = wire[d] /\ client'[d] = client[d] /\ asked'[d] = asked[d]
           /\ request'[d] = request[d] /\ answer'[d] = answer[d] /\ ran'[d] = ran[d]
           /\ welcomed'[d] = welcomed[d]
<1>t. /\ DOMAIN thread = Conns /\ DOMAIN inbox = Conns /\ DOMAIN outbound = Conns
      /\ DOMAIN wire = Conns /\ DOMAIN client = Conns /\ DOMAIN asked = Conns
      /\ DOMAIN request = Conns /\ DOMAIN answer = Conns /\ DOMAIN ran = Conns
      /\ DOMAIN welcomed = Conns
    BY DEF TypeOK
<1>0. CASE \E cred \in Offers[c] : Connect(c, cred)
    BY <1>0, <1>t DEF Connect, connVars
<1>1. CASE \E r \in Requests : Call(c, r)
    BY <1>1, <1>t DEF Call, connVars
<1>2. CASE ClientStep(c) \/ Timeout(c) \/ Leave(c)
    BY <1>2, <1>t DEF ClientStep, ReceiveHello, Receive, Closed, Timeout, Leave, connVars
<1>3. CASE \/ Accept(c) \/ CheckShutdown(c) \/ EnterManager(c) \/ ReadNothing(c) \/ ReadClose(c)
           \/ Heartbeat(c)
           \/ Write(c) \/ WriteFails(c)
    BY <1>3, <1>t DEF Accept, CheckShutdown, EnterManager, ReadNothing, ReadClose, Heartbeat,
       Write, WriteFails,
        clientVars
<1>4. CASE (\E p \in DOMAIN pairings : ConsumePairing(c, p)) \/ MintDevice(c)
    BY <1>4, <1>t DEF ConsumePairing, MintDevice, clientVars
<1>5. CASE WelcomeDev(c) \/ RejectHello(c) \/ RefuseUnwelcome(c) \/ AnswerFromCache(c)
    BY <1>5, <1>t DEF WelcomeDev, RejectHello, RefuseUnwelcome, AnswerFromCache, Reply, clientVars
<1>6. CASE \/ Deny(c) \/ Inspect(c) \/ Input(c) \/ RevokeDevice(c) \/ Stop(c)
           \/ \E code \in Codes : BeginPairing(c, code)
    <2>1. \E ack : Complete(c, ack)
        BY <1>6 DEF Deny, Inspect, Input, RevokeDevice, Stop, BeginPairing, Execute
    <2>2. QED
        BY <2>1, <1>t DEF Complete, Reply, clientVars
<1>7. QED
    BY <1>0, <1>1, <1>2, <1>3, <1>4, <1>5, <1>6 DEF ConnStep, ThreadStep

\* What OwnInv says about a connection that only loses its thread.
LEMMA OwnUntouched ==
    ASSUME NEW d \in Conns, OwnInv(d), thread'[d] \in {thread[d], "ended"},
           inbox'[d] = inbox[d], outbound'[d] = outbound[d], wire'[d] = wire[d],
           client'[d] = client[d], asked'[d] = asked[d], request'[d] = request[d],
           answer'[d] = answer[d], ran'[d] = ran[d], welcomed'[d] = welcomed[d]
    PROVE  OwnInv(d)'
<1>1. Underway(d)' = Underway(d)
    BY DEF Underway
<1>2. Greeting(d)' => Greeting(d)
    BY DEF Greeting
<1>3. HasHello(inbox'[d]) => Len(inbox'[d]) = 1 /\ thread'[d] # "mint"
    BY DEF OwnInv
<1>4. QED
    BY <1>1, <1>2, <1>3, OwnThreadStep

LEMMA OwnStep ==
    TypeOK /\ WindowInv /\ (\A c \in Conns : OwnInv(c)) /\ [Next]_vars => \A c \in Conns : OwnInv(c)'
<1> SUFFICES ASSUME TypeOK, WindowInv, \A c \in Conns : OwnInv(c), [Next]_vars, NEW d \in Conns
             PROVE  OwnInv(d)'
    OBVIOUS
<1>1. ASSUME NEW c \in Conns, ConnStep(c) PROVE OwnInv(d)'
    <2>1. CASE c = d
        BY <1>1, <2>1, OwnClientStep, OwnStepOfThread DEF ConnStep
    <2>2. CASE c # d
        BY <1>1, <2>2, OthersAlone, OwnUntouched
    <2>3. QED
        BY <2>1, <2>2
<1>2. CASE \/ \E p \in DOMAIN pairings : ExpirePairing(p)
           \/ RunReturns \/ PumpEnds \/ PumpBlocks \/ PumpReturns \/ ServeReturns \/ UNCHANGED vars
    <2>1. /\ UNCHANGED <<inbox, outbound, wire, client, asked, request, answer, ran, welcomed>>
          /\ thread'[d] \in {thread[d], "ended"}
        BY <1>2 DEF ExpirePairing, RunReturns, PumpEnds, PumpBlocks, PumpReturns, ServeReturns,
           vars, connVars, clientVars
    <2>2. QED
        BY <2>1, OwnUntouched
<1>3. QED
    BY <1>1, <1>2 DEF Next, ConnStep

LEMMA OwnImplies == (\A c \in Conns : OwnInv(c)) /\ TypeOK => AnswerIsOwn
<1> SUFFICES ASSUME TypeOK, NEW c \in Conns, OwnInv(c), client[c] = "idle", asked[c] # NoRequest,
                    request[c][asked[c]] = "answered"
             PROVE  /\ answer[c].id = asked[c]
                    /\ \/ answer[c].res = "unauthenticated" /\ ~welcomed[c]
                       \/ \E i \in DOMAIN ran[c] : ran[c][i] = answer[c]
    BY DEF AnswerIsOwn
<1>1. answer[c].id = asked[c] /\ Own(c, answer[c])
    BY DEF OwnInv
<1>2. DOMAIN ran[c] = 1..Len(ran[c])
    BY LenProperties DEF TypeOK
<1>3. QED
    BY <1>1, <1>2 DEF Own, Elems

\* What a call returns is the ack of the command it sent, with the result that
\* command had on this connection, though acks of timed-out calls arrive late,
\* retries are answered from the cache and other clients use the same ids.
THEOREM CallReturnsOwnAnswer == Spec => []AnswerIsOwn
<1> DEFINE Inv == \A c \in Conns : OwnInv(c)
<1>1. Init => Inv
    <2> SUFFICES ASSUME Init, NEW c \in Conns PROVE OwnInv(c)
        OBVIOUS
    <2>1. /\ inbox[c] = <<>> /\ outbound[c] = <<>> /\ wire[c] = <<>> /\ client[c] = "off"
          /\ thread[c] = "ended"
        BY DEF Init
    <2>2. ~HasHello(inbox[c]) /\ ~Greeting(c) /\ Underway(c) = {}
        BY <2>1, ElemsEmpty DEF Greeting, Underway
    <2>3. QED
        BY <2>1, <2>2 DEF OwnInv
<1>2. TypeOK /\ WindowInv /\ Inv /\ [Next]_vars => Inv'
    BY OwnStep
<1>3. Inv /\ TypeOK => AnswerIsOwn
    BY OwnImplies
<1> HIDE DEF Inv
<1>4. QED
    BY <1>1, <1>2, <1>3, TypeInit, TypeStep, WindowInit, WindowStep, PTL DEF Spec

=============================================================================
