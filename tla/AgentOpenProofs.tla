--------------------------- MODULE AgentOpenProofs ---------------------------
(***************************************************************************)
(* Proofs about AgentOpen, for every set of advertised capabilities and     *)
(* every bound on operations, runs of the host, replayed updates and        *)
(* misbehaviour of the agent.                                               *)
(***************************************************************************)
EXTENDS AgentOpen, FiniteSetTheorems, SequenceTheorems, TLAPS

-----------------------------------------------------------------------------
(* Types *)

\* The requests that the step under way has to have answered before it.
Answered == IF step = "bind" THEN 1 ELSE 0

\* What keeps the types: the request ids of a connection count its steps, a
\* connection that does not exist is empty, and recovery works on a row.
ConnectionEmpty ==
    worker = "ended" =>
        /\ nextId = 0 /\ toAgent = <<>> /\ toHost = <<>> /\ reply = NoReply
        /\ events = 0 /\ replayed = 0 /\ ill = FALSE

IdsCount ==
    /\ worker = "idle" => nextId = IF reply = NoReply THEN Answered ELSE Answered + 1
    /\ worker \in {"waiting", "parked"} => nextId = Answered + 1 /\ reply = NoReply

RecoversRow ==
    op = "recover" /\ step # "idle" => row >= 1 /\ target = sessions[row].native

OpenTypeInv == TypeOK /\ ConnectionEmpty /\ IdsCount /\ RecoversRow

LEMMA MethodType ==
    \A o \in Ops : Method(o) \in {"new", "load", "resume", "list"}
BY DEF Ops, Method

LEMMA AskedType ==
    ASSUME op \in Ops
    PROVE  Asked \in Methods
BY MethodType DEF Asked, Methods

LEMMA FrameTypes ==
    ASSUME NEW id \in Nat, NEW n \in Nat,
           NEW m \in Methods \cup {"none"}
    PROVE  /\ Response(id, m, n) \in Frames
           /\ ErrorResponse(id, m) \in Frames
           /\ Other("update") \in Frames
           /\ Other("permission") \in Frames
           /\ Other("garbage") \in Frames
BY DEF Response, ErrorResponse, Other, Frames

\* What the worker makes of a response.
LEMMA AnswerShape ==
    ASSUME NEW f \in Frames, Answer(f), target \in Nat
    PROVE  /\ worker' = "idle"
           /\ reply' \in Replies
           /\ reply' # NoReply
           /\ reply'.ok => f.ok /\ reply'.method = f.method
           /\ reply' = Failure => ~f.ok
<1>1. f.ok \in BOOLEAN /\ f.method \in Methods \cup {"none"} /\ f.native \in Nat
    BY DEF Frames
<1>2. CASE ~f.ok
    BY <1>2 DEF Answer, Failure, NoReply, Replies
<1>3. CASE f.ok
    <2>1. reply' = [ok |-> TRUE, method |-> f.method,
                    native |-> IF Asked \in {"load", "resume"} THEN target ELSE f.native]
        BY <1>3 DEF Answer
    <2>2. QED
        BY <1>1, <1>3, <2>1 DEF Answer, Failure, NoReply, Replies
<1>4. QED
    BY <1>2, <1>3

LEMMA OpenTypeInit == Init => OpenTypeInv
<1> SUFFICES ASSUME Init PROVE OpenTypeInv
    OBVIOUS
<1>1. /\ Len(sessions) = 0 /\ sessions \in Seq(Rows)
      /\ toHost \in Seq(Frames) /\ toAgent \in Seq(Requests)
    BY EmptySeq DEF Init
<1>2. reply \in Replies
    BY DEF Init, NoReply, Replies
<1>3. TypeOK
    <2>1. boot \in Nat /\ row \in 0..Len(sessions) /\ op \in Ops /\ target \in Nat /\ nextId \in 0..2
        BY <1>1 DEF Init, Ops
    <2>2. /\ events \in Nat /\ made \in Nat /\ replayed \in Nat /\ natives \subseteq 1..made
          /\ ill \in BOOLEAN /\ ops \in Nat /\ faults \in Nat /\ caps \in SUBSET Capabilities
        BY DEF Init
    <2>3. /\ step \in {"idle", "spawn"} /\ worker = "ended" /\ child = "none"
        BY DEF Init
    <2>4. QED
        BY <1>1, <1>2, <2>1, <2>2, <2>3 DEF TypeOK
<1>4. ConnectionEmpty /\ IdsCount /\ RecoversRow
    BY DEF Init, ConnectionEmpty, IdsCount, RecoversRow
<1>5. QED
    BY <1>3, <1>4 DEF OpenTypeInv

\* The caller's steps that end a connection, or find none.
LEMMA NoConnectionType ==
    ASSUME NoConnection
    PROVE  /\ child' = "none" /\ worker' = "ended" /\ nextId' = 0 /\ caps' = {}
           /\ toAgent' = <<>> /\ toHost' = <<>> /\ reply' = NoReply
           /\ toAgent' \in Seq(Requests)
           /\ toHost' \in Seq(Frames)
           /\ reply' \in Replies
           /\ events' = 0 /\ replayed' = 0 /\ ill' = FALSE
           /\ ConnectionEmpty' /\ IdsCount'
BY EmptySeq DEF NoConnection, FreshConnection, NoReply, Replies, ConnectionEmpty, IdsCount

LEMMA RecordType ==
    ASSUME OpenTypeInv, step # "idle", NEW st \in {"stale", "unavailable"}, RecordRecovery(st)
    PROVE  /\ sessions' \in Seq(Rows) /\ Len(sessions') = Len(sessions)
           /\ \A s \in 1..Len(sessions) :
                 /\ sessions'[s] = sessions[s]
                      \/ /\ op = "recover" /\ s = row
                         /\ sessions'[s] = [sessions[s] EXCEPT !.state = st]
<1> USE DEF OpenTypeInv, TypeOK
<1>1. CASE op # "recover"
    BY <1>1 DEF RecordRecovery
<1>2. CASE op = "recover"
    <2>1. sessions' = [sessions EXCEPT ![row].state = st]
        BY <1>2 DEF RecordRecovery
    <2>2. row \in 1..Len(sessions) /\ Len(sessions) \in Nat
        BY <1>2, LenProperties DEF RecoversRow
    <2>3. sessions[row] \in Rows
        BY <2>2, ElementOfSeq
    <2>4. [sessions[row] EXCEPT !.state = st] \in Rows
        BY <2>3 DEF Rows
    <2>5. sessions' = [sessions EXCEPT ![row] = [sessions[row] EXCEPT !.state = st]]
        BY <2>1
    <2>6. sessions' \in Seq(Rows) /\ Len(sessions') = Len(sessions)
          /\ \A s \in 1..Len(sessions) : sessions'[s] = IF s = row THEN [sessions[row] EXCEPT !.state = st]
                                                        ELSE sessions[s]
        BY <2>2, <2>4, <2>5, ExceptSeq
    <2>7. QED
        BY <1>2, <2>6
<1>3. QED
    BY <1>1, <1>2

\* The steps that leave the slot free: no connection, and the rows as recorded.
LEMMA FreeSlotType ==
    ASSUME OpenTypeInv, NoConnection, step' = "idle", sessions' \in Seq(Rows),
           row' \in 0..Len(sessions'), UNCHANGED <<boot, op, target, made, natives, ops, faults>>
    PROVE  OpenTypeInv'
<1>1. TypeOK'
    BY NoConnectionType DEF OpenTypeInv, TypeOK
<1>2. QED
    BY <1>1, NoConnectionType DEF OpenTypeInv, RecoversRow

LEMMA OpenTypeStep == OpenTypeInv /\ [Next]_vars => OpenTypeInv'
<1> SUFFICES ASSUME OpenTypeInv, [Next]_vars PROVE OpenTypeInv'
    OBVIOUS
<1> USE DEF OpenTypeInv
<1>t. /\ sessions \in Seq(Rows) /\ Len(sessions) \in Nat /\ DOMAIN sessions = 1..Len(sessions)
      /\ row \in 0..Len(sessions) /\ boot \in Nat /\ made \in Nat /\ target \in Nat
      /\ \A s \in 1..Len(sessions) : sessions[s] \in Rows /\ sessions[s].native \in Nat
    <2>1. sessions \in Seq(Rows) /\ Len(sessions) \in Nat /\ DOMAIN sessions = 1..Len(sessions)
        BY LenProperties DEF TypeOK
    <2>2. \A s \in 1..Len(sessions) : sessions[s] \in Rows
        BY <2>1, ElementOfSeq
    <2>3. \A x \in Rows : x.native \in Nat
        BY DEF Rows
    <2>4. QED
        BY <2>1, <2>2, <2>3 DEF TypeOK
<1>1. CASE Boot
    <2>1. /\ NoConnection /\ boot' = boot + 1 /\ row' = 0 /\ op' = "probe" /\ target' = 0
          /\ step' = "spawn" /\ UNCHANGED <<made, natives, ops, faults>>
          /\ sessions' = [s \in DOMAIN sessions |-> [sessions[s] EXCEPT !.state = "stored"]]
        BY <1>1 DEF Boot
    <2>2. \A s \in 1..Len(sessions) : [sessions[s] EXCEPT !.state = "stored"] \in Rows
        BY <1>t DEF Rows
    <2>3. sessions' \in [1..Len(sessions) -> Rows]
        BY <1>t, <2>1, <2>2
    <2>4. sessions' \in Seq(Rows) /\ row' \in 0..Len(sessions')
        <3>1. sessions' \in Seq(Rows)
            BY <1>t, <2>3, SeqDef
        <3>2. Len(sessions') \in Nat
            BY <3>1, LenProperties
        <3>3. QED
            BY <2>1, <3>1, <3>2
    <2>5. TypeOK'
        BY <1>t, <2>1, <2>4, NoConnectionType DEF TypeOK, Ops
    <2>6. QED
        BY <2>1, <2>5, NoConnectionType DEF RecoversRow
<1>2. ASSUME NEW o \in Ops \ {"recover"}, NEW n \in Nat, Open(o, n) PROVE OpenTypeInv'
    <2>1. /\ op' = o /\ target' = n /\ step = "idle" /\ step' = "spawn" /\ ops' = ops + 1
          /\ UNCHANGED <<boot, row, sessions, connVars, agentVars, faults>>
        BY <1>2 DEF Open, Begin
    <2>2. TypeOK'
        BY <2>1 DEF TypeOK, connVars, agentVars
    <2>3. ConnectionEmpty' /\ IdsCount'
        BY <2>1 DEF ConnectionEmpty, IdsCount, Answered, TypeOK, connVars, agentVars
    <2>4. QED
        BY <2>1, <2>2, <2>3 DEF RecoversRow
<1>3. CASE Recover
    <2>1. /\ op' = "recover" /\ target' = sessions[row + 1].native /\ step = "idle"
          /\ step' = "spawn" /\ row' = row + 1 /\ row < Len(sessions)
          /\ UNCHANGED <<boot, sessions, connVars, agentVars, faults, ops>>
        BY <1>3 DEF Recover, Begin
    <2>2. row + 1 \in 1..Len(sessions) /\ target' \in Nat
        BY <1>t, <2>1
    <2>3. TypeOK'
        BY <1>t, <2>1, <2>2 DEF TypeOK, Ops, connVars, agentVars
    <2>4. ConnectionEmpty' /\ IdsCount'
        BY <2>1 DEF ConnectionEmpty, IdsCount, Answered, TypeOK, connVars, agentVars
    <2>5. QED
        BY <2>1, <2>2, <2>3, <2>4 DEF RecoversRow
<1>4. CASE Spawn
    <2>1. /\ step' = "initialize" /\ step = "spawn" /\ FreshConnection("up", "idle")
          /\ caps' \in SUBSET Capabilities
          /\ UNCHANGED <<boot, row, op, target, sessions, made, natives, ops, faults>>
        BY <1>4, OpenAssumption DEF Spawn
    <2>2. /\ child' = "up" /\ worker' = "idle" /\ nextId' = 0 /\ reply' = NoReply
          /\ toAgent' \in Seq(Requests) /\ toHost' \in Seq(Frames) /\ reply' \in Replies
          /\ events' = 0 /\ replayed' = 0 /\ ill' = FALSE
        BY <2>1, EmptySeq DEF FreshConnection, NoReply, Replies
    <2>3. TypeOK'
        <3>1. /\ UNCHANGED <<boot, row, op, target, sessions, made, natives, ops, faults>>
              /\ step' = "initialize" /\ events' \in Nat /\ replayed' \in Nat /\ nextId' \in 0..2
            BY <2>1, <2>2
        <3>2. ill' \in BOOLEAN
            BY <2>2
        <3>3. QED
            BY <2>1, <2>2, <3>1, <3>2 DEF TypeOK
    <2>4. QED
        BY <2>1, <2>2, <2>3 DEF ConnectionEmpty, IdsCount, Answered, RecoversRow
<1>5. CASE SpawnFails
    <2>1. /\ step = "spawn" /\ step' = "idle" /\ faults' = faults + 1
          /\ RecordRecovery("unavailable")
          /\ UNCHANGED <<boot, row, op, target, connVars, agentVars, ops>>
        BY <1>5 DEF SpawnFails
    <2>2. sessions' \in Seq(Rows) /\ Len(sessions') = Len(sessions)
        BY <2>1, RecordType
    <2>3. TypeOK'
        BY <2>1, <2>2 DEF TypeOK, connVars, agentVars
    <2>4. QED
        BY <2>1, <2>3 DEF ConnectionEmpty, IdsCount, Answered, RecoversRow, TypeOK, connVars,
                          agentVars
<1>6. CASE Bind
    <2>1. /\ step = "initialize" /\ step' = "bind" /\ reply.ok /\ reply' = NoReply
          /\ UNCHANGED <<boot, row, op, target, sessions, child, worker, nextId, toAgent, toHost,
                         caps, events, agentVars, ops, faults>>
        BY <1>6 DEF Bind
    <2>2. reply # NoReply /\ worker = "idle" /\ nextId = 1
        BY <2>1 DEF NoReply, TypeOK, IdsCount, Answered
    <2>3. NoReply \in Replies
        BY DEF NoReply, Replies
    <2>4. TypeOK'
        BY <2>1, <2>3 DEF TypeOK, agentVars
    <2>5. QED
        BY <2>1, <2>2, <2>4 DEF ConnectionEmpty, IdsCount, Answered, RecoversRow
<1>7. CASE RejectAgent \/ BindFails
    <2>1. step # "idle" /\ DropConnection /\ \E st \in {"stale", "unavailable"} : RecordRecovery(st)
        BY <1>7 DEF RejectAgent, BindFails, HandshakeFailed
    <2>2. sessions' \in Seq(Rows) /\ Len(sessions') = Len(sessions)
        BY <2>1, RecordType
    <2>3. QED
        BY <1>t, <2>1, <2>2, FreeSlotType DEF DropConnection
<1>8. CASE Inspected
    BY <1>8, <1>t, FreeSlotType DEF Inspected, DropConnection
<1>9. CASE Install
    <2> DEFINE e == [native |-> reply.native, state |-> "live", history |-> events, owed |-> replayed]
    <2>1. e \in Rows
        BY DEF TypeOK, Rows, Replies
    <2>2. sessions' = Append(sessions, e) /\ row' = row + 1
        BY <1>9 DEF Install
    <2> HIDE DEF e
    <2>3. sessions' \in Seq(Rows) /\ Len(sessions') = Len(sessions) + 1
        BY <1>t, <2>1, <2>2, AppendProperties
    <2>4. row' \in 0..Len(sessions')
        BY <1>t, <2>2, <2>3
    <2>5. QED
        BY <1>9, <2>3, <2>4, FreeSlotType DEF Install, HandOver
<1>10. CASE Rehydrate
    <2>1. /\ op = "recover" /\ step # "idle" /\ row' = row
          /\ sessions' = [sessions EXCEPT ![row].state = "recovered"]
        BY <1>10 DEF Rehydrate, HandOver
    <2>2. row \in 1..Len(sessions)
        BY <1>t, <2>1 DEF RecoversRow
    <2>3. [sessions[row] EXCEPT !.state = "recovered"] \in Rows
        BY <1>t, <2>2 DEF Rows
    <2>4. sessions' = [sessions EXCEPT ![row] = [sessions[row] EXCEPT !.state = "recovered"]]
        BY <2>1
    <2>5. sessions' \in Seq(Rows) /\ Len(sessions') = Len(sessions)
        BY <1>t, <2>2, <2>3, <2>4, ExceptSeq
    <2>6. QED
        BY <1>10, <1>t, <2>1, <2>5, FreeSlotType DEF Rehydrate, HandOver
<1>11. CASE SendRequest
    <2> DEFINE q == [id |-> nextId + 1, method |-> Asked, native |-> target]
    <2>1. /\ step \in {"initialize", "bind"} /\ worker = "idle" /\ reply = NoReply
          /\ nextId' = nextId + 1 /\ nextId = Answered
          /\ UNCHANGED <<callerVars, sessions, child, toHost, caps, events, agentVars, ops, faults>>
        BY <1>11 DEF SendRequest, IdsCount
    <2>2. nextId' \in 0..2 /\ nextId' = Answered' + 1
        BY <2>1 DEF Answered, callerVars
    <2>3. q \in Requests
        BY <1>t, <2>1, AskedType DEF TypeOK, Requests
    <2>4. <<q>> \in Seq(Requests)
        BY <2>3
    <2>5. \/ toAgent' = <<q>> /\ worker' = "waiting" /\ reply' = reply
          \/ toAgent' = toAgent /\ worker' = worker /\ reply' = Failure
        BY <1>11 DEF SendRequest
    <2>6. Failure \in Replies /\ Failure # NoReply
        BY DEF Failure, NoReply, Replies
    <2> HIDE DEF q
    <2>7. /\ toAgent' \in Seq(Requests) /\ worker' \in {"idle", "waiting"} /\ reply' \in Replies
          /\ IdsCount'
        BY <2>1, <2>2, <2>4, <2>5, <2>6 DEF TypeOK, IdsCount
    <2>8. TypeOK'
        BY <2>1, <2>2, <2>7 DEF TypeOK, callerVars, agentVars
    <2>9. QED
        BY <2>1, <2>7, <2>8 DEF ConnectionEmpty, RecoversRow, callerVars
<1>12. ASSUME NEW k, Take(k),
              \/ UNCHANGED <<worker, reply>>
              \/ worker' = "parked" /\ UNCHANGED reply
              \/ \E f \in Frames : Answer(f),
              events' \in Nat
       PROVE  OpenTypeInv'
    <2>1. /\ worker = "waiting" /\ toHost # <<>> /\ toHost' = Tail(toHost)
          /\ UNCHANGED <<callerVars, sessions, child, nextId, toAgent, caps, agentVars, ops, faults>>
        BY <1>12 DEF Take
    <2>2. toHost' \in Seq(Frames)
        BY <2>1, HeadTailProperties DEF TypeOK
    <2>3. /\ worker' \in {"idle", "waiting", "parked"} /\ reply' \in Replies
          /\ worker' \in {"waiting", "parked"} => reply' = NoReply
          /\ worker' = "idle" => reply' # NoReply
        BY <1>12, <1>t, <2>1, AnswerShape DEF TypeOK, IdsCount
    <2>4. TypeOK'
        BY <1>12, <2>1, <2>2, <2>3 DEF TypeOK, callerVars, agentVars
    <2>5. QED
        BY <2>1, <2>3, <2>4 DEF ConnectionEmpty, IdsCount, Answered, RecoversRow, callerVars
<1>h. toHost # <<>> => Head(toHost) \in Frames
    BY HeadTailProperties DEF TypeOK
<1>f. ErrorResponse(nextId, "none") \in Frames
    BY FrameTypes DEF TypeOK
<1>13. CASE ReadResponse
    BY <1>12, <1>13, <1>h DEF ReadResponse, Take, TypeOK
<1>14. CASE ReadOrphan \/ ReadPermission
    BY <1>12, <1>14 DEF ReadOrphan, ReadPermission, TypeOK
<1>15. CASE ReadUpdate
    BY <1>12, <1>15 DEF ReadUpdate, TypeOK
<1>16. CASE ReadGarbage
    BY <1>12, <1>16, <1>f DEF ReadGarbage, TypeOK
<1>17. CASE ReadEof
    <2>1. /\ worker = "waiting" /\ Answer(ErrorResponse(nextId, "none"))
          /\ UNCHANGED <<callerVars, sessions, child, nextId, toAgent, toHost, caps, events,
                         agentVars, ops, faults>>
        BY <1>17 DEF ReadEof
    <2>2. worker' = "idle" /\ reply' \in Replies /\ reply' # NoReply
        BY <1>f, <1>t, <2>1, AnswerShape
    <2>3. TypeOK'
        BY <2>1, <2>2 DEF TypeOK, callerVars, agentVars
    <2>4. QED
        BY <2>1, <2>2, <2>3 DEF ConnectionEmpty, IdsCount, Answered, RecoversRow, callerVars
<1>18. ASSUME NEW f \in Frames, AgentSends(f), worker # "ended",
              made' \in Nat, natives' \subseteq 1..made', replayed' \in Nat, ill' \in BOOLEAN,
              toAgent' = toAgent \/ toAgent' = <<>>, faults' \in Nat
       PROVE  OpenTypeInv'
    <2>1. /\ toHost' = Append(toHost, f)
          /\ UNCHANGED <<callerVars, sessions, child, worker, nextId, reply, caps, events, ops>>
        BY <1>18 DEF AgentSends
    <2>2. toHost' \in Seq(Frames) /\ toAgent' \in Seq(Requests)
        BY <1>18, <2>1, AppendProperties, EmptySeq DEF TypeOK
    <2>3. TypeOK'
        BY <1>18, <2>1, <2>2 DEF TypeOK, callerVars
    <2>4. QED
        BY <1>18, <2>1, <2>3 DEF ConnectionEmpty, IdsCount, Answered, RecoversRow, callerVars
<1>u. child = "up" => worker # "ended"
    BY DEF TypeOK
<1>q. toAgent # <<>> => /\ Head(toAgent) \in Requests /\ Head(toAgent).id \in Nat
                        /\ Head(toAgent).method \in Methods
    <2>1. toAgent # <<>> => Head(toAgent) \in Requests
        BY HeadTailProperties DEF TypeOK
    <2>2. \A x \in Requests : x.id \in Nat /\ x.method \in Methods
        BY DEF Requests
    <2>3. QED
        BY <2>1, <2>2
<1>19. CASE AgentAnswers
    <2> DEFINE r == Head(toAgent)
    <2>1. worker # "ended" /\ r.id \in Nat /\ r.method \in Methods
        BY <1>19, <1>u, <1>q DEF AgentAnswers, Serving
    <2>2. /\ Response(r.id, r.method, made + 1) \in Frames
          /\ Response(r.id, r.method, 0) \in Frames
          /\ ErrorResponse(r.id, r.method) \in Frames
        BY <1>t, <2>1, FrameTypes
    <2>3. \E f \in Frames : AgentSends(f)
        BY <1>19, <2>2 DEF AgentAnswers
    <2>4. /\ made' \in Nat /\ natives' \subseteq 1..made' /\ toAgent' = <<>>
          /\ UNCHANGED <<replayed, ill, faults>>
        <3>1. \/ made' = made + 1 /\ natives' = natives \cup {made + 1}
              \/ made' = made /\ natives' = natives
            BY <1>19 DEF AgentAnswers
        <3>2. natives \subseteq 1..made
            BY DEF TypeOK
        <3>3. made' \in Nat /\ natives' \subseteq 1..made'
            <4>1. 1..made \subseteq 1..(made + 1) /\ made + 1 \in 1..(made + 1) /\ made + 1 \in Nat
                BY <1>t
            <4>2. CASE made' = made + 1 /\ natives' = natives \cup {made + 1}
                <5>1. natives' \subseteq 1..(made + 1)
                    BY <3>2, <4>1, <4>2
                <5>2. QED
                    BY <4>1, <4>2, <5>1
            <4>3. CASE made' = made /\ natives' = natives
                BY <1>t, <3>2, <4>3
            <4>4. QED
                BY <3>1, <4>2, <4>3
        <3>4. QED
            BY <1>19, <3>3 DEF AgentAnswers
    <2>5. QED
        BY <1>18, <2>1, <2>3, <2>4 DEF TypeOK
<1>o. \A k \in {"update", "permission", "garbage"} : Other(k) \in Frames
    BY DEF Other, Frames
<1>20. CASE AgentReplays
    BY <1>18, <1>20, <1>u, <1>o DEF AgentReplays, Serving, TypeOK
<1>21. CASE AgentRefuses
    <2>1. ErrorResponse(Head(toAgent).id, Head(toAgent).method) \in Frames
        BY <1>21, <1>q, FrameTypes DEF AgentRefuses, Serving
    <2>2. QED
        BY <1>18, <1>21, <1>u, <2>1 DEF AgentRefuses, Serving, Misbehave, TypeOK
<1>22. ASSUME NEW k \in {"permission", "garbage"}, AgentStrays(k) PROVE OpenTypeInv'
    <2>1. Other(k) \in Frames
        BY <1>o
    <2>2. /\ AgentSends(Other(k)) /\ worker # "ended" /\ ill' = TRUE /\ toAgent' = toAgent
          /\ UNCHANGED <<made, natives, replayed>> /\ faults' = faults + 1
        BY <1>22, <1>u DEF AgentStrays, Serving, Misbehave
    <2>3. ill' \in BOOLEAN
        BY <2>2
    <2>4. QED
        BY <1>18, <2>1, <2>2, <2>3 DEF TypeOK
<1>23. CASE AgentRepeats
    <2>1. Response(1, "initialize", 0) \in Frames
        BY FrameTypes DEF Methods
    <2>2. QED
        BY <1>18, <1>23, <1>u, <2>1 DEF AgentRepeats, Misbehave, TypeOK
<1>24. CASE AgentDies
    <2>1. /\ child = "up" /\ child' = "dead" /\ toAgent' = <<>> /\ faults' = faults + 1
          /\ ill' = TRUE /\ UNCHANGED <<made, natives, replayed>>
          /\ UNCHANGED <<callerVars, sessions, worker, nextId, toHost, reply, caps, events, ops>>
        BY <1>24 DEF AgentDies, Misbehave
    <2>2. toAgent' \in Seq(Requests)
        BY <2>1, EmptySeq
    <2>3. TypeOK'
        BY <2>1, <2>2 DEF TypeOK, callerVars
    <2>4. QED
        BY <1>u, <2>1, <2>3 DEF ConnectionEmpty, IdsCount, Answered, RecoversRow, callerVars
<1>25. ASSUME NEW n \in natives, Delete(n) PROVE OpenTypeInv'
    <2>1. /\ natives' \subseteq natives
          /\ UNCHANGED <<callerVars, sessions, connVars, made, replayed, ill, ops, faults>>
        BY <1>25 DEF Delete
    <2>2. TypeOK'
        BY <2>1 DEF TypeOK, callerVars, connVars
    <2>3. QED
        BY <2>1, <2>2 DEF ConnectionEmpty, IdsCount, Answered, RecoversRow, callerVars, connVars
<1>26. CASE UNCHANGED vars
    BY <1>26 DEF vars, TypeOK, ConnectionEmpty, IdsCount, Answered, RecoversRow, callerVars,
                 connVars, agentVars
<1>27. CASE Open("new", 0) \/ Open("list", 0) \/ Import
    BY <1>2, <1>27, <1>t DEF Import, Ops
<1>28. QED
    BY <1>1, <1>27, <1>3, <1>4, <1>5, <1>6, <1>7, <1>8, <1>9, <1>10, <1>11, <1>13, <1>14,
       <1>15, <1>16, <1>17, <1>19, <1>20, <1>21, <1>22, <1>23, <1>24, <1>25, <1>26
    DEF Next, Caller, Worker

\* Every state of the caller, the connection under construction and the rows is
\* well typed, and no child or worker exists without the other.
THEOREM OpenTypeCorrect == Spec => []TypeOK
<1>1. OpenTypeInv => TypeOK
    BY DEF OpenTypeInv
<1>2. QED
    BY OpenTypeInit, OpenTypeStep, <1>1, PTL DEF Spec

-----------------------------------------------------------------------------
(* Requests and responses on the wire *)

\* The request of a connection that has this id: initialize is the first.
MethodOf(id) == IF id = 1 THEN "initialize" ELSE Method(op)

\* Every request and every response on the wire belongs to the operation under
\* way, and its id says which of its two requests it is.
WireInv ==
    /\ \A i \in 1..Len(toAgent) : /\ toAgent[i].id \in 1..nextId
                                  /\ toAgent[i].method = MethodOf(toAgent[i].id)
                                  /\ toAgent[i].native = target
    /\ \A i \in 1..Len(toHost) :
          toHost[i].kind = "response" => /\ toHost[i].id \in 1..nextId
                                         /\ toHost[i].method = MethodOf(toHost[i].id)
    /\ reply.ok => reply.method = MethodOf(nextId)

LEMMA FrameAppended ==
    ASSUME NEW q \in Seq(Frames), NEW f \in Frames
    PROVE  /\ Len(Append(q, f)) = Len(q) + 1 /\ Len(q) \in Nat
           /\ \A i \in 1..Len(q) : Append(q, f)[i] = q[i]
           /\ Append(q, f)[Len(q) + 1] = f
           /\ \A i \in 1..Len(Append(q, f)) : i \in 1..Len(q) \/ i = Len(q) + 1
<1>1. /\ Len(Append(q, f)) = Len(q) + 1 /\ Len(q) \in Nat
      /\ \A i \in 1..Len(q) : Append(q, f)[i] = q[i]
      /\ Append(q, f)[Len(q) + 1] = f
    BY AppendProperties, LenProperties
<1>2. QED
    BY <1>1

LEMMA FrameTaken ==
    ASSUME NEW q \in Seq(Frames), q # <<>>
    PROVE  /\ Head(q) = q[1] /\ 1 \in 1..Len(q) /\ q[1] \in Frames
           /\ Len(Tail(q)) = Len(q) - 1 /\ Len(q) \in Nat
           /\ \A i \in 1..Len(Tail(q)) : i + 1 \in 1..Len(q) /\ Tail(q)[i] = q[i + 1]
<1>1. /\ Len(Tail(q)) = Len(q) - 1 /\ Len(q) \in Nat /\ Len(q) >= 1 /\ Head(q) = q[1]
      /\ \A i \in 1..Len(Tail(q)) : Tail(q)[i] = q[i + 1]
    BY HeadTailProperties, LenProperties, EmptySeq
<1>2. QED
    BY <1>1, ElementOfSeq

\* The request that an agent serves.
LEMMA ServedRequest ==
    ASSUME OpenTypeInv, WireInv, Serving
    PROVE  /\ Head(toAgent).id \in 1..nextId
           /\ Head(toAgent).method = MethodOf(Head(toAgent).id)
           /\ Head(toAgent).native = target
           /\ worker # "ended" /\ toHost \in Seq(Frames) /\ Head(toAgent) \in Requests
<1>1. toAgent \in Seq(Requests) /\ toAgent # <<>> /\ worker # "ended" /\ toHost \in Seq(Frames)
    BY DEF OpenTypeInv, TypeOK, Serving
<1>2. Head(toAgent) = toAgent[1] /\ 1 \in 1..Len(toAgent)
    BY <1>1, HeadTailProperties, LenProperties, EmptySeq
<1>3. QED
    BY <1>1, <1>2, HeadTailProperties DEF WireInv

\* A frame that the agent sends keeps the wire in order if it is no response or
\* a response to a request of the operation.
LEMMA SendKeepsWire ==
    ASSUME OpenTypeInv, WireInv, NEW f \in Frames, AgentSends(f),
           f.kind = "response" => f.id \in 1..nextId /\ f.method = MethodOf(f.id),
           toAgent' = toAgent \/ toAgent' = <<>>
    PROVE  WireInv'
<1>1. /\ toHost' = Append(toHost, f) /\ toHost \in Seq(Frames)
      /\ UNCHANGED <<nextId, reply, op, target>>
    BY DEF AgentSends, callerVars, OpenTypeInv, TypeOK
<1>2. \A id : MethodOf(id)' = MethodOf(id)
    BY <1>1 DEF MethodOf
<1>3. Len(<<>>) = 0
    BY EmptySeq
<1>4. \A i \in 1..Len(toHost') :
          toHost'[i].kind = "response" => /\ toHost'[i].id \in 1..nextId
                                          /\ toHost'[i].method = MethodOf(toHost'[i].id)
    BY <1>1, FrameAppended DEF WireInv
<1>5. \A i \in 1..Len(toAgent') : /\ toAgent'[i].id \in 1..nextId
                                  /\ toAgent'[i].method = MethodOf(toAgent'[i].id)
                                  /\ toAgent'[i].native = target
    BY <1>3 DEF WireInv
<1>6. QED
    BY <1>1, <1>2, <1>4, <1>5 DEF WireInv

\* A frame that the worker takes keeps it if the answer is to the last request.
LEMMA TakeKeepsWire ==
    ASSUME OpenTypeInv, WireInv, NEW k, Take(k),
           reply'.ok => reply'.method = MethodOf(nextId)
    PROVE  WireInv'
<1>1. /\ toHost' = Tail(toHost) /\ toHost \in Seq(Frames) /\ toHost # <<>>
      /\ UNCHANGED <<nextId, toAgent, op, target>>
    BY DEF Take, callerVars, OpenTypeInv, TypeOK
<1>2. \A id : MethodOf(id)' = MethodOf(id)
    BY <1>1 DEF MethodOf
<1>3. \A i \in 1..Len(toHost') :
          toHost'[i].kind = "response" => /\ toHost'[i].id \in 1..nextId
                                          /\ toHost'[i].method = MethodOf(toHost'[i].id)
    BY <1>1, FrameTaken DEF WireInv
<1>4. QED
    BY <1>1, <1>2, <1>3 DEF WireInv

LEMMA WireStep == OpenTypeInv /\ WireInv /\ [Next]_vars => WireInv'
<1> SUFFICES ASSUME OpenTypeInv, WireInv, [Next]_vars PROVE WireInv'
    OBVIOUS
<1>t. /\ OpenTypeInv' /\ toHost \in Seq(Frames) /\ toAgent \in Seq(Requests) /\ target \in Nat
      /\ nextId \in 0..2
    BY OpenTypeStep DEF OpenTypeInv, TypeOK
<1>1. CASE worker' = "ended"
    <2>1. Len(toAgent') = 0 /\ Len(toHost') = 0 /\ ~reply'.ok
        BY <1>t, <1>1, EmptySeq DEF OpenTypeInv, ConnectionEmpty, NoReply
    <2>2. QED
        BY <2>1 DEF WireInv
<1>2. CASE Boot \/ RejectAgent \/ BindFails \/ Inspected \/ Install \/ Rehydrate
    BY <1>1, <1>2, NoConnectionType
    DEF Boot, RejectAgent, BindFails, Inspected, Install, Rehydrate, DropConnection, HandOver
<1>3. CASE Open("new", 0) \/ Open("list", 0) \/ Import \/ Recover \/ SpawnFails
    <2>1. step \in {"idle", "spawn"} /\ worker' = worker
        BY <1>3 DEF Open, Import, Recover, Begin, SpawnFails, connVars
    <2>2. worker = "ended"
        BY <2>1 DEF OpenTypeInv, TypeOK
    <2>3. QED
        BY <1>1, <2>1, <2>2
<1>4. CASE Spawn
    <2>1. Len(toAgent') = 0 /\ Len(toHost') = 0 /\ ~reply'.ok
        BY <1>4, EmptySeq DEF Spawn, FreshConnection, NoReply
    <2>2. QED
        BY <2>1 DEF WireInv
<1>m. op' = op => \A id : MethodOf(id)' = MethodOf(id)
    BY DEF MethodOf
<1>5. CASE Bind
    <2>1. ~reply'.ok /\ UNCHANGED <<toAgent, toHost, nextId, op, target>>
        BY <1>5 DEF Bind, NoReply
    <2>2. QED
        BY <1>m, <2>1 DEF WireInv
<1>6. CASE SendRequest
    <2> DEFINE q == [id |-> nextId + 1, method |-> Asked, native |-> target]
    <2>1. /\ step \in {"initialize", "bind"} /\ worker = "idle" /\ reply = NoReply
          /\ nextId' = nextId + 1 /\ UNCHANGED <<toHost, op, target>>
          /\ toAgent' = <<q>> \/ toAgent' = toAgent
          /\ reply' = NoReply \/ reply' = Failure
        BY <1>6 DEF SendRequest, callerVars
    <2>2. nextId = Answered
        BY <2>1 DEF OpenTypeInv, IdsCount
    <2>3. q.id = nextId + 1 /\ q.method = MethodOf(nextId + 1) /\ q.native = target
        BY <2>1, <2>2 DEF Asked, MethodOf, Answered
    <2>4. ~reply'.ok
        BY <2>1 DEF NoReply, Failure
    <2>5. 1..nextId \subseteq 1..(nextId + 1) /\ nextId + 1 \in 1..(nextId + 1)
        BY <1>t
    <2> HIDE DEF q
    <2>6. Len(<<q>>) = 1 /\ <<q>>[1] = q
        OBVIOUS
    <2>7. \A i \in 1..Len(toAgent') : /\ toAgent'[i].id \in 1..nextId'
                                      /\ toAgent'[i].method = MethodOf(toAgent'[i].id)
                                      /\ toAgent'[i].native = target
        <3>1. CASE toAgent' = <<q>>
            BY <2>1, <2>3, <2>5, <2>6, <3>1
        <3>2. CASE toAgent' = toAgent
            BY <2>1, <2>5, <3>2 DEF WireInv
        <3>3. QED
            BY <2>1, <3>1, <3>2
    <2>8. QED
        BY <1>m, <2>1, <2>4, <2>5, <2>7 DEF WireInv
<1>f. ErrorResponse(nextId, "none") \in Frames /\ ~ErrorResponse(nextId, "none").ok
    BY <1>t, FrameTypes DEF ErrorResponse
<1>7. CASE ReadResponse
    <2>1. /\ Take("response") /\ Head(toHost).id = nextId /\ Answer(Head(toHost))
          /\ toHost # <<>> /\ Head(toHost).kind = "response"
        BY <1>7 DEF ReadResponse, Take
    <2>2. Head(toHost) \in Frames /\ Head(toHost).method = MethodOf(nextId)
        BY <1>t, <2>1, FrameTaken DEF WireInv
    <2>3. reply'.ok => reply'.method = MethodOf(nextId)
        BY <1>t, <2>1, <2>2, AnswerShape
    <2>4. QED
        BY <2>1, <2>3, TakeKeepsWire
<1>8. CASE ReadOrphan \/ ReadUpdate \/ ReadPermission
    <2>1. reply' = reply /\ \E k \in {"response", "update", "permission"} : Take(k)
        BY <1>8 DEF ReadOrphan, ReadUpdate, ReadPermission
    <2>2. reply'.ok => reply'.method = MethodOf(nextId)
        BY <2>1 DEF WireInv
    <2>3. QED
        BY <2>1, <2>2, TakeKeepsWire
<1>9. CASE ReadGarbage
    <2>1. ~reply'.ok
        BY <1>9, <1>f, <1>t, AnswerShape DEF ReadGarbage
    <2>2. QED
        BY <1>9, <2>1, TakeKeepsWire DEF ReadGarbage
<1>10. CASE ReadEof
    <2>1. ~reply'.ok
        BY <1>10, <1>f, <1>t, AnswerShape DEF ReadEof
    <2>2. UNCHANGED <<toAgent, toHost, nextId, op, target>>
        BY <1>10 DEF ReadEof, callerVars
    <2>3. QED
        BY <1>m, <2>1, <2>2 DEF WireInv
<1>11. CASE AgentAnswers \/ AgentRefuses
    <2> DEFINE r == Head(toAgent)
    <2>1. Serving /\ toAgent' = <<>>
        BY <1>11 DEF AgentAnswers, AgentRefuses
    <2>2. r.id \in 1..nextId /\ r.method = MethodOf(r.id) /\ r \in Requests
        BY <2>1, ServedRequest
    <2>3. r.id \in Nat /\ r.method \in Methods /\ made \in Nat
        BY <2>2 DEF Requests, OpenTypeInv, TypeOK
    <2>4. \E n \in Nat : AgentSends(Response(r.id, r.method, n)) \/ AgentSends(ErrorResponse(r.id, r.method))
        BY <1>11, <2>3 DEF AgentAnswers, AgentRefuses
    <2>5. PICK n \in Nat : AgentSends(Response(r.id, r.method, n)) \/ AgentSends(ErrorResponse(r.id, r.method))
        BY <2>4
    <2>6. /\ Response(r.id, r.method, n) \in Frames /\ ErrorResponse(r.id, r.method) \in Frames
          /\ Response(r.id, r.method, n).id = r.id /\ Response(r.id, r.method, n).method = r.method
          /\ ErrorResponse(r.id, r.method).id = r.id /\ ErrorResponse(r.id, r.method).method = r.method
        BY <2>3, FrameTypes DEF Response, ErrorResponse
    <2> HIDE DEF r
    <2>7. QED
        BY <2>1, <2>2, <2>5, <2>6, SendKeepsWire
<1>12. CASE AgentReplays \/ (\E k \in {"permission", "garbage"} : AgentStrays(k))
    <2>1. PICK k \in {"update", "permission", "garbage"} : AgentSends(Other(k)) /\ toAgent' = toAgent
        BY <1>12 DEF AgentReplays, AgentStrays
    <2>2. Other(k) \in Frames /\ Other(k).kind # "response"
        BY DEF Other, Frames
    <2>3. QED
        BY <2>1, <2>2, SendKeepsWire
<1>13. CASE AgentRepeats
    <2>1. AgentSends(Response(1, "initialize", 0)) /\ toAgent' = toAgent /\ nextId \in 1..2
        BY <1>13 DEF AgentRepeats
    <2>2. Response(1, "initialize", 0) \in Frames
        BY FrameTypes DEF Methods
    <2>3. /\ Response(1, "initialize", 0).id = 1
          /\ Response(1, "initialize", 0).method = MethodOf(1) /\ 1 \in 1..nextId
        BY <2>1 DEF Response, MethodOf
    <2>4. QED
        BY <2>1, <2>2, <2>3, SendKeepsWire
<1>14. CASE AgentDies
    <2>1. UNCHANGED <<toHost, reply, nextId, op, target>> /\ Len(toAgent') = 0
        BY <1>14, EmptySeq DEF AgentDies, callerVars
    <2>2. QED
        BY <1>m, <2>1 DEF WireInv
<1>15. CASE UNCHANGED vars \/ (\E n \in natives : Delete(n))
    <2>1. UNCHANGED <<toAgent, toHost, reply, nextId, op, target>>
        BY <1>15 DEF vars, Delete, callerVars, connVars
    <2>2. QED
        BY <1>m, <2>1 DEF WireInv
<1>16. QED
    BY <1>2, <1>3, <1>4, <1>5, <1>6, <1>7, <1>8, <1>9, <1>10, <1>11, <1>12, <1>13, <1>14, <1>15
    DEF Next, Caller, Worker

LEMMA WireInit == Init => WireInv
BY EmptySeq DEF Init, WireInv, NoReply

LEMMA WireAlways == Spec => [](OpenTypeInv /\ WireInv)
BY OpenTypeInit, OpenTypeStep, WireInit, WireStep, PTL DEF Spec

\* The caller of a request gets the answer to that request, whatever the agent
\* repeats, and however often.
THEOREM RepliesAreOwn == Spec => []OwnReply
<1>1. OpenTypeInv /\ WireInv => OwnReply
    <2> SUFFICES ASSUME OpenTypeInv, WireInv, reply.ok PROVE reply.method = Asked
        BY DEF OwnReply
    <2>1. reply # NoReply /\ reply.method = MethodOf(nextId)
        BY DEF WireInv, NoReply
    <2>2. worker = "idle" /\ step \in {"initialize", "bind"}
        BY <2>1 DEF OpenTypeInv, TypeOK, ConnectionEmpty, IdsCount
    <2>3. nextId = Answered + 1
        BY <2>1, <2>2 DEF OpenTypeInv, IdsCount
    <2>4. QED
        BY <2>1, <2>2, <2>3 DEF Answered, MethodOf, Asked
<1>2. QED
    BY <1>1, WireAlways, PTL

\* Recovery of a stored session never makes the agent create another one.
THEOREM RecoveryMakesNone == Spec => NoReplacement
<1>1. OpenTypeInv /\ WireInv /\ [Next]_vars
        => [op = "recover" /\ step # "idle" => made' = made]_vars
    <2> SUFFICES ASSUME OpenTypeInv, WireInv, Next, op = "recover"
                 PROVE  made' = made
        OBVIOUS
    <2>1. CASE AgentAnswers
        <3>1. Serving
            BY <2>1 DEF AgentAnswers
        <3>2. Head(toAgent).method = MethodOf(Head(toAgent).id)
            BY <3>1, ServedRequest
        <3>3. Head(toAgent).method # "new"
            BY <3>2 DEF MethodOf, Method
        <3>4. QED
            BY <2>1, <3>3 DEF AgentAnswers
    <2>2. CASE Boot \/ Open("new", 0) \/ Open("list", 0) \/ Import \/ SpawnFails \/ Caller
        BY <2>2 DEF Boot, Open, Import, SpawnFails, Caller, Recover, Begin, Spawn, Bind,
            RejectAgent, BindFails, Inspected, Install, Rehydrate, DropConnection, HandOver,
            agentVars
    <2>3. CASE Worker
        BY <2>3 DEF Worker, SendRequest, ReadResponse, ReadOrphan, ReadUpdate, ReadPermission,
            ReadGarbage, ReadEof, Take, agentVars
    <2>4. CASE \/ AgentReplays \/ AgentRefuses \/ AgentStrays("permission")
               \/ AgentStrays("garbage") \/ AgentRepeats \/ AgentDies
               \/ \E n \in natives : Delete(n)
        BY <2>4 DEF AgentReplays, AgentRefuses, AgentStrays, AgentRepeats, AgentDies, Delete,
            Misbehave
    <2>5. QED
        BY <2>1, <2>2, <2>3, <2>4 DEF Next
<1>2. QED
    BY <1>1, WireAlways, PTL DEF Spec, NoReplacement

-----------------------------------------------------------------------------
(* The replay of an imported session *)

\* The updates that are still in the pipe.
Updates(q) == {i \in 1..Len(q) : q[i].kind = "update"}

\* No update is lost between agent and event channel, and none comes after the
\* answer to session/load: the pipe keeps the order, and the agent replays only
\* while the request is open.
UpdateInv ==
    /\ events + Cardinality(Updates(toHost)) = replayed
    /\ \A i \in 1..Len(toHost) :
          toHost[i].kind = "response" /\ toHost[i].id = 2 =>
              toAgent = <<>> /\ \A j \in Updates(toHost) : j < i
    /\ reply.ok /\ step = "bind" => toAgent = <<>> /\ Updates(toHost) = {}

LEMMA UpdatesFinite ==
    ASSUME NEW q \in Seq(Frames)
    PROVE  /\ IsFiniteSet(Updates(q)) /\ Cardinality(Updates(q)) \in Nat
           /\ \A i \in Updates(q) : i \in Nat /\ i >= 1 /\ i <= Len(q)
<1>1. Len(q) \in Nat
    BY LenProperties
<1>2. IsFiniteSet(1..Len(q)) /\ Updates(q) \subseteq 1..Len(q)
    BY <1>1, FS_Interval DEF Updates
<1>3. QED
    BY <1>1, <1>2, FS_Subset, FS_CardinalityType

LEMMA UpdateAppended ==
    ASSUME NEW q \in Seq(Frames), NEW f \in Frames
    PROVE  /\ f.kind # "update" => Updates(Append(q, f)) = Updates(q)
           /\ f.kind = "update" =>
                 Cardinality(Updates(Append(q, f))) = Cardinality(Updates(q)) + 1
<1>1. /\ 1..Len(Append(q, f)) = 1..Len(q) \cup {Len(q) + 1}
      /\ \A i \in 1..Len(q) : Append(q, f)[i] = q[i]
      /\ Append(q, f)[Len(q) + 1] = f
    BY FrameAppended
<1>2. f.kind # "update" => Updates(Append(q, f)) = Updates(q)
    BY <1>1 DEF Updates
<1>3. f.kind = "update" => Updates(Append(q, f)) = Updates(q) \cup {Len(q) + 1}
    BY <1>1 DEF Updates
<1>4. Len(q) + 1 \notin Updates(q)
    BY UpdatesFinite, FrameAppended
<1>5. QED
    BY <1>2, <1>3, <1>4, UpdatesFinite, FS_AddElement

LEMMA UpdateTaken ==
    ASSUME NEW q \in Seq(Frames), q # <<>>
    PROVE  /\ \A j \in Updates(Tail(q)) : j + 1 \in Updates(q)
           /\ q[1].kind = "update" =>
                 Cardinality(Updates(q)) = Cardinality(Updates(Tail(q))) + 1
           /\ q[1].kind # "update" =>
                 Cardinality(Updates(q)) = Cardinality(Updates(Tail(q)))
<1> DEFINE T == Updates(Tail(q))
           U == Updates(q) \ {1}
           shift == [j \in T |-> j + 1]
<1>1. /\ Len(Tail(q)) = Len(q) - 1 /\ Len(q) \in Nat /\ Tail(q) \in Seq(Frames)
      /\ \A i \in 1..Len(Tail(q)) : i + 1 \in 1..Len(q) /\ Tail(q)[i] = q[i + 1]
      /\ 1 \in 1..Len(q)
    BY FrameTaken, HeadTailProperties
<1>2. \A j \in T : j \in Nat /\ j >= 1 /\ j + 1 \in Updates(q)
    BY <1>1, UpdatesFinite DEF Updates
<1>3. \A i \in U : \E j \in T : j + 1 = i
    <2> SUFFICES ASSUME NEW i \in U PROVE i - 1 \in T /\ (i - 1) + 1 = i
        OBVIOUS
    <2>1. i \in 1..Len(q) /\ i # 1 /\ q[i].kind = "update"
        BY DEF Updates
    <2>2. i - 1 \in 1..Len(Tail(q)) /\ (i - 1) + 1 = i
        BY <1>1, <2>1
    <2>3. QED
        BY <1>1, <2>1, <2>2 DEF Updates
<1>4. \A j \in T : j + 1 \in U
    BY <1>2
<1>5. IsFiniteSet(T) /\ IsFiniteSet(Updates(q)) /\ Cardinality(T) \in Nat
    BY <1>1, UpdatesFinite
<1> HIDE DEF T, U
<1>6. shift \in Bijection(T, U)
    <2>1. shift \in [T -> U] /\ \A j, k \in T : shift[j] = shift[k] => j = k
        BY <1>2, <1>4
    <2>2. \A i \in U : \E j \in T : shift[j] = i
        BY <1>3
    <2>3. QED
        BY <2>1, <2>2 DEF Bijection, Injection, Surjection, IsInjective
<1>7. Cardinality(U) = Cardinality(T)
    BY <1>5, <1>6, FS_Bijection DEF ExistsBijection
<1>8. CASE q[1].kind = "update"
    <2>1. 1 \in Updates(q)
        BY <1>1, <1>8 DEF Updates
    <2>2. Cardinality(U) = Cardinality(Updates(q)) - 1 /\ Cardinality(Updates(q)) \in Nat
        BY <1>5, <2>1, FS_RemoveElement, FS_CardinalityType DEF U
    <2>3. QED
        BY <1>2, <1>5, <1>7, <1>8, <2>2 DEF T
<1>9. CASE q[1].kind # "update"
    <2>1. U = Updates(q)
        BY <1>9 DEF U, Updates
    <2>2. QED
        BY <1>2, <1>7, <1>9, <2>1 DEF T
<1>10. QED
    BY <1>8, <1>9

\* A frame sent while a request is open.
LEMMA SendKeepsUpdates ==
    ASSUME OpenTypeInv, UpdateInv, NEW f \in Frames, AgentSends(f), toAgent # <<>>,
           f.kind = "response" => toAgent' = <<>>,
           f.kind = "update" => replayed' = replayed + 1,
           f.kind # "update" => replayed' = replayed
    PROVE  UpdateInv'
<1>1. /\ toHost' = Append(toHost, f) /\ toHost \in Seq(Frames) /\ replayed \in Nat
      /\ events \in Nat /\ UNCHANGED <<events, reply, step>>
    BY DEF AgentSends, callerVars, OpenTypeInv, TypeOK
<1>2. Cardinality(Updates(toHost)) \in Nat
    BY <1>1, UpdatesFinite
<1>3. events' + Cardinality(Updates(toHost')) = replayed'
    BY <1>1, <1>2, UpdateAppended DEF UpdateInv
<1>4. ~(reply.ok /\ step = "bind")
    BY DEF UpdateInv
<1>5. ASSUME NEW i \in 1..Len(toHost'), toHost'[i].kind = "response", toHost'[i].id = 2
      PROVE  toAgent' = <<>> /\ \A j \in Updates(toHost') : j < i
    <2>1. i \in 1..Len(toHost) => toHost'[i] = toHost[i]
        BY <1>1, FrameAppended
    <2>2. i = Len(toHost) + 1
        BY <1>1, <1>5, <2>1, FrameAppended DEF UpdateInv
    <2>3. f.kind = "response" /\ Updates(toHost') = Updates(toHost)
        BY <1>1, <1>5, <2>2, FrameAppended, UpdateAppended
    <2>4. \A j \in Updates(toHost) : j < Len(toHost) + 1
        BY <1>1, UpdatesFinite, FrameAppended
    <2>5. QED
        BY <2>2, <2>3, <2>4
<1>6. QED
    BY <1>1, <1>3, <1>4, <1>5 DEF UpdateInv

\* A frame taken, which the reply follows only in ReadResponse.
LEMMA TakeKeepsUpdates ==
    ASSUME OpenTypeInv, UpdateInv, NEW k, Take(k),
           k = "update" => events' = events + 1,
           k # "update" => events' = events,
           reply'.ok /\ step = "bind" => k = "response" /\ Head(toHost).id = 2
    PROVE  UpdateInv'
<1>1. /\ toHost' = Tail(toHost) /\ toHost \in Seq(Frames) /\ toHost # <<>> /\ events \in Nat
      /\ replayed \in Nat /\ UNCHANGED <<toAgent, step, replayed>>
      /\ Head(toHost) = toHost[1] /\ toHost[1].kind = k /\ 1 \in 1..Len(toHost)
    BY FrameTaken DEF Take, callerVars, agentVars, OpenTypeInv, TypeOK
<1>2. toHost' \in Seq(Frames)
    BY <1>1, HeadTailProperties
<1>3. Cardinality(Updates(toHost)) \in Nat /\ Cardinality(Updates(toHost')) \in Nat
    BY <1>1, <1>2, UpdatesFinite
<1>4. events' + Cardinality(Updates(toHost')) = replayed'
    BY <1>1, <1>3, UpdateTaken DEF UpdateInv
<1>5. /\ \A j \in Updates(toHost') : j + 1 \in Updates(toHost) /\ j \in Nat /\ j >= 1
      /\ \A i \in 1..Len(toHost') : i + 1 \in 1..Len(toHost) /\ toHost'[i] = toHost[i + 1] /\ i \in Int
    <2>1. \A j \in Updates(Tail(toHost)) : j + 1 \in Updates(toHost)
        BY <1>1, UpdateTaken
    <2>2. \A j \in Updates(toHost') : j \in Nat /\ j >= 1
        BY <1>2, UpdatesFinite
    <2>3. \A i \in 1..Len(Tail(toHost)) : i + 1 \in 1..Len(toHost) /\ Tail(toHost)[i] = toHost[i + 1]
        BY <1>1, FrameTaken
    <2>4. QED
        BY <1>1, <2>1, <2>2, <2>3
<1>6. ASSUME NEW i \in 1..Len(toHost'), toHost'[i].kind = "response", toHost'[i].id = 2
      PROVE  toAgent' = <<>> /\ \A j \in Updates(toHost') : j < i
    <2>1. toAgent = <<>> /\ \A j \in Updates(toHost) : j < i + 1
        BY <1>5, <1>6 DEF UpdateInv
    <2>2. QED
        BY <1>1, <1>5, <2>1
<1>7. ASSUME reply'.ok, step' = "bind"
      PROVE  toAgent' = <<>> /\ Updates(toHost') = {}
    <2>1. toHost[1].kind = "response" /\ toHost[1].id = 2
        BY <1>1, <1>7
    <2>2. toAgent = <<>> /\ \A j \in Updates(toHost) : j < 1
        BY <1>1, <2>1 DEF UpdateInv
    <2>3. QED
        BY <1>1, <1>5, <2>2
<1>8. QED
    BY <1>4, <1>6, <1>7 DEF UpdateInv

LEMMA UpdateStep == OpenTypeInv /\ WireInv /\ UpdateInv /\ [Next]_vars => UpdateInv'
<1> SUFFICES ASSUME OpenTypeInv, WireInv, UpdateInv, [Next]_vars PROVE UpdateInv'
    OBVIOUS
<1>t. /\ OpenTypeInv' /\ toHost \in Seq(Frames) /\ target \in Nat /\ nextId \in 0..2
    BY OpenTypeStep DEF OpenTypeInv, TypeOK
<1>0. ASSUME toHost' = <<>>, events' = 0, replayed' = 0, reply' = NoReply
      PROVE  UpdateInv'
    <2>1. Len(toHost') = 0 /\ ~reply'.ok
        BY <1>0, EmptySeq DEF NoReply
    <2>2. Updates(toHost') = {} /\ Cardinality({}) = 0
        BY <2>1, FS_EmptySet DEF Updates
    <2>3. events' + Cardinality(Updates(toHost')) = replayed'
        BY <1>0, <2>2
    <2>4. 1..Len(toHost') = {}
        BY <2>1
    <2>5. QED
        BY <2>1, <2>3, <2>4 DEF UpdateInv
<1>2. CASE Boot \/ RejectAgent \/ BindFails \/ Inspected \/ Install \/ Rehydrate
    BY <1>0, <1>2, NoConnectionType
    DEF Boot, RejectAgent, BindFails, Inspected, Install, Rehydrate, DropConnection, HandOver
<1>3. CASE Open("new", 0) \/ Open("list", 0) \/ Import \/ Recover \/ SpawnFails
    <2>1. step \in {"idle", "spawn"} /\ UNCHANGED <<toHost, events, replayed, reply>>
        BY <1>3 DEF Open, Import, Recover, Begin, SpawnFails, connVars, agentVars
    <2>2. toHost = <<>> /\ events = 0 /\ replayed = 0 /\ reply = NoReply
        BY <2>1 DEF OpenTypeInv, TypeOK, ConnectionEmpty
    <2>3. QED
        BY <1>0, <2>1, <2>2
<1>4. CASE Spawn
    BY <1>0, <1>4 DEF Spawn, FreshConnection
<1>5. CASE Bind
    <2>1. ~reply'.ok /\ UNCHANGED <<toAgent, toHost, events, replayed>>
        BY <1>5 DEF Bind, NoReply, agentVars
    <2>2. QED
        BY <2>1 DEF UpdateInv
<1>6. CASE SendRequest
    <2>1. /\ step \in {"initialize", "bind"} /\ worker = "idle" /\ reply = NoReply
          /\ UNCHANGED <<toHost, events, replayed>> /\ reply' \in {NoReply, Failure}
        BY <1>6 DEF SendRequest, agentVars
    <2>2. ~reply'.ok
        BY <2>1 DEF NoReply, Failure
    <2>3. nextId \in 0..1
        BY <2>1 DEF OpenTypeInv, IdsCount, Answered
    <2>4. \A i \in 1..Len(toHost) : ~(toHost[i].kind = "response" /\ toHost[i].id = 2)
        BY <2>3 DEF WireInv
    <2>5. QED
        BY <2>1, <2>2, <2>4 DEF UpdateInv
<1>f. ErrorResponse(nextId, "none") \in Frames /\ ~ErrorResponse(nextId, "none").ok
    BY <1>t, FrameTypes DEF ErrorResponse
<1>w. worker = "waiting" => reply = NoReply /\ ~NoReply.ok
    BY DEF OpenTypeInv, IdsCount, NoReply
<1>7. CASE ReadResponse
    <2>1. Take("response") /\ Head(toHost).id = nextId /\ events' = events /\ worker = "waiting"
        BY <1>7 DEF ReadResponse, Take
    <2>2. step = "bind" => Head(toHost).id = 2
        BY <2>1 DEF OpenTypeInv, IdsCount, Answered
    <2>3. QED
        BY <2>1, <2>2, TakeKeepsUpdates
<1>8. CASE ReadOrphan \/ ReadPermission \/ ReadUpdate
    <2>1. ~reply'.ok
        BY <1>8, <1>w DEF ReadOrphan, ReadPermission, ReadUpdate, Take
    <2>2. QED
        BY <1>8, <2>1, TakeKeepsUpdates DEF ReadOrphan, ReadPermission, ReadUpdate
<1>9. CASE ReadGarbage
    <2>1. ~reply'.ok
        BY <1>9, <1>f, <1>t, AnswerShape DEF ReadGarbage
    <2>2. QED
        BY <1>9, <2>1, TakeKeepsUpdates DEF ReadGarbage
<1>10. CASE ReadEof
    <2>1. ~reply'.ok
        BY <1>10, <1>f, <1>t, AnswerShape DEF ReadEof
    <2>2. UNCHANGED <<toAgent, toHost, events, replayed>>
        BY <1>10 DEF ReadEof, agentVars
    <2>3. QED
        BY <2>1, <2>2 DEF UpdateInv
<1>11. CASE AgentAnswers \/ AgentRefuses
    <2> DEFINE r == Head(toAgent)
    <2>1. Serving /\ toAgent' = <<>> /\ replayed' = replayed /\ toAgent # <<>>
        BY <1>11 DEF AgentAnswers, AgentRefuses, Misbehave, Serving
    <2>2. r.id \in Nat /\ r.method \in Methods /\ made \in Nat
        BY <2>1, ServedRequest DEF Requests, OpenTypeInv, TypeOK
    <2>3. PICK n \in Nat : AgentSends(Response(r.id, r.method, n)) \/ AgentSends(ErrorResponse(r.id, r.method))
        BY <1>11, <2>2 DEF AgentAnswers, AgentRefuses
    <2>4. /\ Response(r.id, r.method, n) \in Frames /\ ErrorResponse(r.id, r.method) \in Frames
          /\ Response(r.id, r.method, n).kind = "response"
          /\ ErrorResponse(r.id, r.method).kind = "response"
        BY <2>2, FrameTypes DEF Response, ErrorResponse
    <2> HIDE DEF r
    <2>5. QED
        BY <2>1, <2>3, <2>4, SendKeepsUpdates
<1>12. CASE AgentReplays
    <2>1. /\ AgentSends(Other("update")) /\ toAgent # <<>> /\ replayed' = replayed + 1
        BY <1>12 DEF AgentReplays, Serving
    <2>2. Other("update") \in Frames /\ Other("update").kind = "update"
        BY DEF Other, Frames
    <2>3. QED
        BY <2>1, <2>2, SendKeepsUpdates
<1>13. ASSUME NEW k \in {"permission", "garbage"}, AgentStrays(k) PROVE UpdateInv'
    <2>1. /\ AgentSends(Other(k)) /\ toAgent # <<>> /\ replayed' = replayed
        BY <1>13 DEF AgentStrays, Serving, Misbehave
    <2>2. Other(k) \in Frames /\ Other(k).kind \notin {"response", "update"}
        BY DEF Other, Frames
    <2>3. QED
        BY <2>1, <2>2, SendKeepsUpdates
<1>14. CASE AgentRepeats
    <2> DEFINE f == Response(1, "initialize", 0)
    <2>1. /\ toHost' = Append(toHost, f)
          /\ UNCHANGED <<toAgent, events, replayed, reply, step>>
        BY <1>14 DEF AgentRepeats, AgentSends, Misbehave, callerVars
    <2>2. f \in Frames /\ f.kind = "response" /\ f.id = 1
        BY FrameTypes DEF Methods, Response
    <2> HIDE DEF f
    <2>3. Updates(toHost') = Updates(toHost)
        BY <1>t, <2>1, <2>2, UpdateAppended
    <2>4. \A i \in 1..Len(toHost') :
             toHost'[i].kind = "response" /\ toHost'[i].id = 2 =>
                 i \in 1..Len(toHost) /\ toHost'[i] = toHost[i]
        BY <1>t, <2>1, <2>2, FrameAppended
    <2>5. QED
        BY <2>1, <2>3, <2>4 DEF UpdateInv
<1>15. CASE AgentDies
    <2>1. toAgent' = <<>> /\ UNCHANGED <<toHost, events, replayed, reply, step>>
        BY <1>15 DEF AgentDies, Misbehave, callerVars
    <2>2. QED
        BY <2>1 DEF UpdateInv
<1>16. CASE UNCHANGED vars \/ (\E n \in natives : Delete(n))
    <2>1. UNCHANGED <<toAgent, toHost, events, replayed, reply, step>>
        BY <1>16 DEF vars, Delete, callerVars, connVars, agentVars
    <2>2. QED
        BY <2>1 DEF UpdateInv
<1>17. QED
    BY <1>2, <1>3, <1>4, <1>5, <1>6, <1>7, <1>8, <1>9, <1>10, <1>11, <1>12, <1>13, <1>14, <1>15,
       <1>16 DEF Next, Caller, Worker

LEMMA UpdateInit == Init => UpdateInv
<1> SUFFICES ASSUME Init PROVE UpdateInv
    OBVIOUS
<1>1. Len(toHost) = 0 /\ ~reply.ok
    BY EmptySeq DEF Init, NoReply
<1>2. Updates(toHost) = {} /\ Cardinality({}) = 0
    BY <1>1, FS_EmptySet DEF Updates
<1>3. events + Cardinality(Updates(toHost)) = replayed
    <2>1. events = 0 /\ replayed = 0
        BY DEF Init
    <2>2. QED
        BY <1>2, <2>1
<1>4. 1..Len(toHost) = {}
    BY <1>1
<1>5. QED
    BY <1>1, <1>3, <1>4 DEF UpdateInv

LEMMA ImportStep == OpenTypeInv /\ UpdateInv /\ ImportWhole /\ [Next]_vars => ImportWhole'
<1> SUFFICES ASSUME OpenTypeInv, UpdateInv, ImportWhole, [Next]_vars PROVE ImportWhole'
    OBVIOUS
<1>t. /\ sessions \in Seq(Rows) /\ Len(sessions) \in Nat /\ DOMAIN sessions = 1..Len(sessions)
      /\ row \in 0..Len(sessions) /\ \A s \in 1..Len(sessions) : sessions[s] \in Rows
    BY LenProperties, ElementOfSeq DEF OpenTypeInv, TypeOK
<1>1. CASE UNCHANGED sessions
    BY <1>1 DEF ImportWhole
<1>2. ASSUME DOMAIN sessions' = DOMAIN sessions,
             \A s \in DOMAIN sessions : \E st : sessions'[s] = [sessions[s] EXCEPT !.state = st]
      PROVE  ImportWhole'
    <2>1. \A x \in Rows : \A st : /\ [x EXCEPT !.state = st].history = x.history
                                  /\ [x EXCEPT !.state = st].owed = x.owed
        BY DEF Rows
    <2>2. ASSUME NEW s \in DOMAIN sessions PROVE sessions'[s].history = sessions'[s].owed
        <3>1. PICK st : sessions'[s] = [sessions[s] EXCEPT !.state = st]
            BY <1>2
        <3>2. sessions[s] \in Rows /\ sessions[s].history = sessions[s].owed
            BY <1>t DEF ImportWhole
        <3>3. QED
            BY <2>1, <3>1, <3>2
    <2>3. QED
        BY <1>2, <2>2 DEF ImportWhole
<1>3. CASE Boot
    BY <1>2, <1>3 DEF Boot
<1>4. ASSUME NEW st, sessions' = [sessions EXCEPT ![row].state = st], row >= 1
      PROVE  ImportWhole'
    <2>1. row \in 1..Len(sessions)
        BY <1>4, <1>t
    <2>2. DOMAIN sessions' = DOMAIN sessions
        BY <1>4
    <2>3. \A s \in DOMAIN sessions : sessions'[s] = IF s = row THEN [sessions[s] EXCEPT !.state = st]
                                                    ELSE sessions[s]
        BY <1>4, <1>t, <2>1
    <2>4. [sessions[row] EXCEPT !.state = st].history = sessions[row].history
          /\ [sessions[row] EXCEPT !.state = st].owed = sessions[row].owed
        <3>1. \A x \in Rows : /\ [x EXCEPT !.state = st].history = x.history
                              /\ [x EXCEPT !.state = st].owed = x.owed
            BY DEF Rows
        <3>2. QED
            BY <1>t, <2>1, <3>1
    <2>5. QED
        BY <2>2, <2>3, <2>4 DEF ImportWhole
<1>5. CASE SpawnFails \/ RejectAgent \/ BindFails
    <2>1. step # "idle" /\ \E st : RecordRecovery(st)
        BY <1>5 DEF SpawnFails, RejectAgent, BindFails, HandshakeFailed
    <2>2. QED
        BY <1>1, <1>4, <2>1 DEF RecordRecovery, OpenTypeInv, RecoversRow
<1>6. CASE Rehydrate
    <2>1. op = "recover" /\ step = "bind" /\ sessions' = [sessions EXCEPT ![row].state = "recovered"]
        BY <1>6 DEF Rehydrate, HandOver
    <2>2. QED
        BY <1>4, <2>1 DEF OpenTypeInv, RecoversRow
<1>7. CASE Install
    <2> DEFINE e == [native |-> reply.native, state |-> "live", history |-> events, owed |-> replayed]
    <2>1. sessions' = Append(sessions, e) /\ reply.ok /\ step = "bind"
        BY <1>7 DEF Install, HandOver
    <2>2. events \in Nat /\ e \in Rows
        BY DEF OpenTypeInv, TypeOK, Replies, Rows
    <2>3. events = replayed
        <3>1. Updates(toHost) = {} /\ events + Cardinality(Updates(toHost)) = replayed
            BY <2>1 DEF UpdateInv
        <3>2. Cardinality({}) = 0
            BY FS_EmptySet
        <3>3. QED
            BY <2>2, <3>1, <3>2
    <2>4. e.history = e.owed
        BY <2>3
    <2> HIDE DEF e
    <2>5. /\ sessions' \in Seq(Rows) /\ Len(sessions') = Len(sessions) + 1
          /\ \A s \in 1..Len(sessions) : sessions'[s] = sessions[s]
          /\ sessions'[Len(sessions) + 1] = e
        BY <1>t, <2>1, <2>2, AppendProperties
    <2>6. \A s \in DOMAIN sessions' : s \in DOMAIN sessions \/ s = Len(sessions) + 1
        BY <1>t, <2>5, LenProperties
    <2>7. QED
        BY <1>t, <2>4, <2>5, <2>6 DEF ImportWhole
<1>8. CASE \/ Open("new", 0) \/ Open("list", 0) \/ Import \/ Recover \/ Spawn \/ Bind
           \/ Inspected
    BY <1>1, <1>8 DEF Open, Import, Begin, Recover, Spawn, Bind, Inspected
<1>9. CASE Worker
    BY <1>1, <1>9 DEF Worker, SendRequest, ReadResponse, ReadOrphan, ReadUpdate, ReadPermission,
        ReadGarbage, ReadEof, Take
<1>10. CASE \/ AgentAnswers \/ AgentReplays \/ AgentRefuses \/ AgentStrays("permission")
            \/ AgentStrays("garbage") \/ AgentRepeats \/ AgentDies
            \/ (\E n \in natives : Delete(n)) \/ UNCHANGED vars
    BY <1>1, <1>10 DEF AgentAnswers, AgentReplays, AgentRefuses, AgentStrays, AgentRepeats,
        AgentDies, AgentSends, Delete, vars
<1>11. QED
    BY <1>3, <1>5, <1>6, <1>7, <1>8, <1>9, <1>10 DEF Next, Caller

\* An imported session shows the whole history that the agent replayed, for any
\* number of updates.
THEOREM ImportsWhole == Spec => []ImportWhole
<1>1. Init => ImportWhole
    <2> SUFFICES ASSUME Init PROVE DOMAIN sessions = {}
        BY DEF ImportWhole
    <2>1. sessions \in Seq(Rows) /\ Len(sessions) = 0
        BY EmptySeq DEF Init
    <2>2. QED
        BY <2>1, LenProperties
<1>2. QED
    BY <1>1, OpenTypeInit, OpenTypeStep, WireInit, WireStep, UpdateInit, UpdateStep, ImportStep, PTL
    DEF Spec

-----------------------------------------------------------------------------
(* Why a stored session is called stale *)

\* The operation asks for a session that the agent no longer keeps.
Refused == Method(op) \in {"load", "resume"} /\ target \notin natives

\* While the agent of this connection behaves, it is not dead, it has written no
\* frame that does not decode, and an error, in the pipe or with the caller,
\* means that the session is gone.
CauseInv ==
    ~ill => /\ child # "dead"
            /\ \A i \in 1..Len(toHost) : /\ toHost[i].kind # "garbage"
                                         /\ ~toHost[i].ok => Refused
            /\ reply = Failure => Refused

LEMMA CauseStep == OpenTypeInv /\ WireInv /\ CauseInv /\ [Next]_vars => CauseInv'
<1> SUFFICES ASSUME OpenTypeInv, WireInv, CauseInv, [Next]_vars PROVE CauseInv'
    OBVIOUS
<1>t. /\ toHost \in Seq(Frames) /\ target \in Nat /\ nextId \in 0..2 /\ made \in Nat
      /\ natives \subseteq 1..made
    BY DEF OpenTypeInv, TypeOK
<1>n. Failure # NoReply
    BY DEF Failure, NoReply
<1>c. ASSUME ~ill
      PROVE  /\ child # "dead"
             /\ \A i \in 1..Len(toHost) : toHost[i].kind # "garbage"
             /\ \A i \in 1..Len(toHost) : ~toHost[i].ok => Refused
             /\ reply = Failure => Refused
    BY <1>c, Zenon DEF CauseInv
<1>0. ASSUME child' # "dead", toHost' = <<>>, reply' = NoReply
      PROVE  CauseInv'
    <2>1. 1..Len(toHost') = {}
        BY <1>0, EmptySeq
    <2>2. QED
        BY <1>0, <1>n, <2>1 DEF CauseInv
<1>2. CASE Boot \/ RejectAgent \/ BindFails \/ Inspected \/ Install \/ Rehydrate
    <2>1. NoConnection
        BY <1>2 DEF Boot, RejectAgent, BindFails, Inspected, Install, Rehydrate, DropConnection,
            HandOver
    <2>2. QED
        BY <1>0, <2>1 DEF NoConnection, FreshConnection
<1>3. CASE Open("new", 0) \/ Open("list", 0) \/ Import \/ Recover \/ SpawnFails
    <2>1. step \in {"idle", "spawn"} /\ UNCHANGED <<child, toHost, reply>>
        BY <1>3 DEF Open, Import, Recover, Begin, SpawnFails, connVars
    <2>2. child = "none" /\ toHost = <<>> /\ reply = NoReply
        BY <2>1 DEF OpenTypeInv, TypeOK, ConnectionEmpty
    <2>3. QED
        BY <1>0, <2>1, <2>2
<1>4. CASE Spawn
    BY <1>0, <1>4 DEF Spawn, FreshConnection
<1>5. CASE Bind
    <2>1. reply' # Failure /\ UNCHANGED <<op, target, natives, child, toHost, ill>>
        BY <1>5, <1>n DEF Bind, agentVars
    <2>2. Refused' = Refused
        BY <2>1 DEF Refused
    <2>3. QED
        BY <2>1, <2>2 DEF CauseInv
<1>6. CASE SendRequest
    <2>1. /\ UNCHANGED <<op, target, natives, child, toHost, ill>>
          /\ child = "dead" \/ reply' = reply
        BY <1>6 DEF SendRequest, agentVars, callerVars
    <2>2. Refused' = Refused
        BY <2>1 DEF Refused
    <2>3. QED
        BY <2>1, <2>2 DEF CauseInv
<1>7. ASSUME NEW k, Take(k), ~ill, reply' = Failure => reply = Failure \/ ~Head(toHost).ok
      PROVE  CauseInv'
    <2>1. /\ toHost' = Tail(toHost) /\ toHost # <<>>
          /\ UNCHANGED <<op, target, natives, child, ill>>
        BY <1>7 DEF Take, callerVars, agentVars
    <2>2. Refused' = Refused
        BY <2>1 DEF Refused
    <2>3. /\ Head(toHost) = toHost[1] /\ 1 \in 1..Len(toHost)
          /\ \A i \in 1..Len(toHost') : i + 1 \in 1..Len(toHost) /\ toHost'[i] = toHost[i + 1]
        BY <1>t, <2>1, FrameTaken
    <2>c. /\ child # "dead"
          /\ \A i \in 1..Len(toHost) : toHost[i].kind # "garbage"
          /\ \A i \in 1..Len(toHost) : ~toHost[i].ok => Refused
          /\ reply = Failure => Refused
        BY <1>7, <1>c
    <2>4. \A i \in 1..Len(toHost') : toHost'[i].kind # "garbage"
        BY <2>3, <2>c
    <2>5. \A i \in 1..Len(toHost') : ~toHost'[i].ok => Refused
        <3> SUFFICES ASSUME NEW i \in 1..Len(toHost'), ~toHost'[i].ok PROVE Refused
            OBVIOUS
        <3>1. i + 1 \in 1..Len(toHost) /\ ~toHost[i + 1].ok
            BY <2>3, Zenon
        <3>2. QED
            BY <2>c, <3>1, Zenon
    <2>6. reply' = Failure => Refused
        BY <1>7, <2>3, <2>c, Zenon
    <2>7. QED
        BY <2>1, <2>2, <2>4, <2>5, <2>6, <2>c, Zenon DEF CauseInv
<1>8. CASE \/ ReadResponse \/ ReadOrphan \/ ReadUpdate \/ ReadPermission
           \/ ReadGarbage \/ ReadEof
    <2>1. CASE ill
        <3>1. ill' = ill
            BY <1>8 DEF ReadResponse, ReadOrphan, ReadUpdate, ReadPermission, ReadGarbage, ReadEof,
                Take, agentVars
        <3>2. QED
            BY <2>1, <3>1 DEF CauseInv
    <2>2. CASE ~ill
        <3>1. CASE ReadResponse
            <4>1. Take("response") /\ Answer(Head(toHost)) /\ toHost # <<>>
                BY <3>1 DEF ReadResponse, Take
            <4>2. Head(toHost) \in Frames
                BY <1>t, <4>1, FrameTaken
            <4>3. QED
                BY <1>7, <1>t, <2>2, <4>1, <4>2, AnswerShape
        <3>2. CASE ReadOrphan \/ ReadUpdate \/ ReadPermission
            BY <1>7, <2>2, <3>2 DEF ReadOrphan, ReadUpdate, ReadPermission
        <3>3. ~ReadGarbage
            <4>1. SUFFICES ASSUME Take("garbage") PROVE FALSE
                BY DEF ReadGarbage
            <4>2. toHost # <<>> /\ Head(toHost).kind = "garbage"
                BY <4>1 DEF Take
            <4>3. QED
                BY <1>c, <1>t, <2>2, <4>2, FrameTaken
        <3>4. ~ReadEof
            BY <2>2 DEF CauseInv, ReadEof
        <3>5. QED
            BY <1>8, <3>1, <3>2, <3>3, <3>4
    <2>3. QED
        BY <2>1, <2>2
<1>9. ASSUME NEW f \in Frames, AgentSends(f), ~ill', ~ill, f.kind # "garbage",
             UNCHANGED natives \/ Method(op) \notin {"load", "resume"}, ~f.ok => Refused
      PROVE  CauseInv'
    <2>1. toHost' = Append(toHost, f) /\ UNCHANGED <<op, target, child, reply>>
        BY <1>9 DEF AgentSends, callerVars
    <2>2. Refused' = Refused
        BY <1>9, <2>1 DEF Refused
    <2>3. \A i \in 1..Len(toHost') : \/ i \in 1..Len(toHost) /\ toHost'[i] = toHost[i]
                                     \/ toHost'[i] = f
        BY <1>t, <2>1, FrameAppended
    <2>4. \A i \in 1..Len(toHost') : toHost'[i].kind # "garbage" /\ (~toHost'[i].ok => Refused)
        BY <1>9, <1>c, <2>3, Zenon
    <2>5. QED
        BY <1>9, <1>c, <2>1, <2>2, <2>4, Zenon DEF CauseInv
<1>10. CASE ill'
    BY <1>10 DEF CauseInv
<1>11. CASE AgentAnswers /\ ~ill'
    <2> DEFINE r == Head(toAgent)
    <2>1. Serving /\ ~ill
        BY <1>11 DEF AgentAnswers
    <2>2. /\ r.id \in Nat /\ r.method \in Methods /\ r.native = target
          /\ r.method \in {"initialize", Method(op)}
        BY <2>1, ServedRequest DEF Requests, MethodOf
    <2> HIDE DEF r
    <2>3. CASE r.method = "new" /\ AgentSends(Response(r.id, r.method, made + 1))
        <3>n. made + 1 \in Nat
            BY <1>t
        <3>1. /\ Response(r.id, r.method, made + 1) \in Frames
              /\ Response(r.id, r.method, made + 1).ok
              /\ Response(r.id, r.method, made + 1).kind # "garbage"
            BY <2>2, <3>n, FrameTypes DEF Response
        <3>2. Method(op) \notin {"load", "resume"}
            BY <2>2, <2>3
        <3>3. QED
            BY <1>9, <1>11, <2>1, <2>3, <3>1, <3>2
    <2>4. CASE UNCHANGED natives /\ AgentSends(Response(r.id, r.method, 0))
        <3>1. /\ Response(r.id, r.method, 0) \in Frames
              /\ Response(r.id, r.method, 0).ok
              /\ Response(r.id, r.method, 0).kind # "garbage"
            BY <1>t, <2>2, FrameTypes DEF Response
        <3>2. QED
            BY <1>9, <1>11, <2>1, <2>4, <3>1
    <2>5. CASE /\ r.method \in {"load", "resume"} /\ r.native \notin natives
               /\ UNCHANGED natives /\ AgentSends(ErrorResponse(r.id, r.method))
        <3>1. /\ ErrorResponse(r.id, r.method) \in Frames
              /\ ErrorResponse(r.id, r.method).kind # "garbage"
            BY <1>t, <2>2, FrameTypes DEF ErrorResponse
        <3>2. Refused
            BY <2>2, <2>5 DEF Refused
        <3>3. QED
            BY <1>9, <1>11, <2>1, <2>5, <3>1, <3>2
    <2>6. QED
        BY <1>11, <2>3, <2>4, <2>5 DEF AgentAnswers, r
<1>12. CASE AgentReplays /\ ~ill'
    <2>1. AgentSends(Other("update")) /\ UNCHANGED natives /\ ~ill
        BY <1>12 DEF AgentReplays
    <2>2. Other("update") \in Frames /\ Other("update").kind # "garbage" /\ Other("update").ok
        BY DEF Other, Frames
    <2>3. QED
        BY <1>9, <1>12, <2>1, <2>2
<1>13. CASE \/ AgentRefuses \/ AgentStrays("permission") \/ AgentStrays("garbage")
            \/ AgentRepeats \/ AgentDies
    BY <1>10, <1>13 DEF AgentRefuses, AgentStrays, AgentRepeats, AgentDies, Misbehave
<1>14. CASE UNCHANGED vars \/ (\E n \in natives : Delete(n))
    <2>1. /\ UNCHANGED <<op, target, child, toHost, reply, ill>>
          /\ natives' \subseteq natives
        BY <1>14 DEF vars, Delete, callerVars, connVars, agentVars
    <2>2. Refused => Refused'
        BY <2>1 DEF Refused
    <2>3. QED
        BY <2>1, <2>2 DEF CauseInv
<1>15. QED
    BY <1>2, <1>3, <1>4, <1>5, <1>6, <1>8, <1>10, <1>11, <1>12, <1>13, <1>14
    DEF Next, Caller, Worker

LEMMA CauseAlways == Spec => [](OpenTypeInv /\ CauseInv)
<1>1. Init => CauseInv
    <2> SUFFICES ASSUME Init PROVE CauseInv
        OBVIOUS
    <2>1. child # "dead" /\ toHost = <<>> /\ reply = NoReply
        BY DEF Init
    <2>2. 1..Len(toHost) = {} /\ reply # Failure
        BY <2>1, EmptySeq DEF NoReply, Failure
    <2>3. QED
        BY <2>1, <2>2 DEF CauseInv
<1>2. QED
    BY <1>1, OpenTypeInit, OpenTypeStep, WireInit, WireStep, CauseStep, PTL DEF Spec

\* Recovery calls a stored session stale only when the agent no longer keeps it
\* or misbehaved on this very connection: recover_stored_session, for any number
\* of sessions and runs of the host.
THEOREM StaleOnlyForCause == Spec => StaleForCause
<1> DEFINE Becomes(s) == sessions'[s].state = "stale" /\ sessions[s].state # "stale"
           Cause(s) == sessions[s].native \notin natives \/ ill
<1>1. ASSUME OpenTypeInv, CauseInv, [Next]_vars, NEW s \in DOMAIN sessions, Becomes(s)
      PROVE  Cause(s)
    <2>t. /\ sessions \in Seq(Rows) /\ Len(sessions) \in Nat
          /\ DOMAIN sessions = 1..Len(sessions) /\ sessions[s] \in Rows
          /\ row \in 0..Len(sessions)
        BY <1>1, LenProperties, ElementOfSeq DEF OpenTypeInv, TypeOK
    <2>0. ~UNCHANGED sessions
        BY <1>1
    <2>x. \A x \in Rows : \A st : [x EXCEPT !.state = st].state = st
        BY DEF Rows
    <2>2. ~Boot
        <3>1. SUFFICES ASSUME Boot PROVE sessions'[s].state = "stored"
            BY <1>1
        <3>2. sessions'[s] = [sessions[s] EXCEPT !.state = "stored"]
            BY <3>1 DEF Boot
        <3>3. QED
            BY <2>t, <2>x, <3>2
    <2>3. ~(SpawnFails \/ RejectAgent)
        <3>1. SUFFICES ASSUME step # "idle", RecordRecovery("unavailable") PROVE FALSE
            BY DEF SpawnFails, RejectAgent, HandshakeFailed
        <3>2. \/ sessions'[s] = sessions[s]
              \/ sessions'[s] = [sessions[s] EXCEPT !.state = "unavailable"]
            BY <1>1, <2>t, <3>1, RecordType
        <3>3. QED
            <4>1. CASE sessions'[s] = sessions[s]
                BY <1>1, <4>1, Zenon
            <4>2. CASE sessions'[s] = [sessions[s] EXCEPT !.state = "unavailable"]
                <5>1. sessions'[s].state = "unavailable"
                    BY <2>t, <2>x, <4>2
                <5>2. QED
                    BY <1>1, <5>1
            <4>3. QED
                BY <3>2, <4>1, <4>2
    <2>4. ~Rehydrate
        <3>1. SUFFICES ASSUME op = "recover", step # "idle",
                              sessions' = [sessions EXCEPT ![row].state = "recovered"]
                       PROVE  FALSE
            BY DEF Rehydrate, HandOver
        <3>2. \/ sessions'[s] = sessions[s]
              \/ sessions'[s] = [sessions[s] EXCEPT !.state = "recovered"]
            BY <2>t, <3>1
        <3>3. QED
            <4>1. CASE sessions'[s] = sessions[s]
                BY <1>1, <4>1, Zenon
            <4>2. CASE sessions'[s] = [sessions[s] EXCEPT !.state = "recovered"]
                <5>1. sessions'[s].state = "recovered"
                    BY <2>t, <2>x, <4>2
                <5>2. QED
                    BY <1>1, <5>1
            <4>3. QED
                BY <3>2, <4>1, <4>2
    <2>5. ~Install
        <3>1. SUFFICES ASSUME NEW e, sessions' = Append(sessions, e), e \in Rows PROVE FALSE
            <4>1. SUFFICES ASSUME Install PROVE FALSE
                OBVIOUS
            <4>2. reply.native \in Nat /\ events \in Nat /\ replayed \in Nat
                BY <1>1 DEF OpenTypeInv, TypeOK, Replies
            <4>3. [native |-> reply.native, state |-> "live", history |-> events,
                   owed |-> replayed] \in Rows
                BY <4>2 DEF Rows
            <4>4. QED
                BY <3>1, <4>1, <4>3 DEF Install
        <3>2. sessions'[s] = sessions[s]
            BY <2>t, <3>1, AppendProperties
        <3>3. QED
            BY <1>1, <3>2
    <2>6. BindFails
        <3>1. ~(\/ Open("new", 0) \/ Open("list", 0) \/ Import \/ Recover \/ Spawn \/ Bind
                \/ Inspected)
            BY <2>0 DEF Open, Import, Begin, Recover, Spawn, Bind, Inspected
        <3>2. ~Worker
            BY <2>0 DEF Worker, SendRequest, ReadResponse, ReadOrphan, ReadUpdate, ReadPermission,
                ReadGarbage, ReadEof, Take
        <3>3. ~(\/ AgentAnswers \/ AgentReplays \/ AgentRefuses \/ AgentStrays("permission")
                \/ AgentStrays("garbage") \/ AgentRepeats \/ AgentDies
                \/ (\E n \in natives : Delete(n)) \/ UNCHANGED vars)
            BY <2>0 DEF AgentAnswers, AgentReplays, AgentRefuses, AgentStrays, AgentRepeats,
                AgentDies, AgentSends, Delete, vars
        <3>4. QED
            BY <1>1, <2>2, <2>3, <2>4, <2>5, <3>1, <3>2, <3>3 DEF Next, Caller
    <2>7. step = "bind" /\ reply = Failure /\ RecordRecovery("stale")
        BY <2>6 DEF BindFails
    <2>8. op = "recover" /\ s = row
        BY <1>1, <2>t, <2>7, RecordType
    <2>9. target = sessions[s].native
        BY <1>1, <2>7, <2>8 DEF OpenTypeInv, RecoversRow
    <2>10. ill \/ target \notin natives
        BY <1>1, <2>7 DEF CauseInv, Refused
    <2>11. QED
        BY <2>9, <2>10
<1>2. OpenTypeInv /\ CauseInv /\ [Next]_vars =>
          [\A s \in DOMAIN sessions : Becomes(s) => Cause(s)]_vars
    BY <1>1
<1>3. QED
    BY <1>2, CauseAlways, PTL DEF Spec, StaleForCause

=============================================================================
