------------------------- MODULE GatewayReplayProofs -------------------------
(***************************************************************************)
(* What GatewayReplay promises for every journal limit, replay limit and    *)
(* page size, and for every number of events, attaches, faults and requests *)
(* under way.                                                               *)
(***************************************************************************)
EXTENDS GatewayReplay, FiniteSetTheorems, SequenceTheorems,
        WellFoundedInduction, TLAPS

LEMMA LeastNatural ==
    ASSUME NEW T \in SUBSET Nat, T # {}
    PROVE  \E x \in T : \A y \in T : x <= y
<1> DEFINE R == OpToRel(<, Nat)
<1>1. IsWellFoundedOn(R, Nat)
    BY NatLessThanWellFounded
<1>2. \A x, y \in Nat : y < x => <<y, x>> \in R
    BY DEF OpToRel
<1> HIDE DEF R
<1>3. PICK x \in T : \A y \in T : ~ (<<y, x>> \in R)
    BY <1>1, WFMin
<1>4. ASSUME NEW y \in T PROVE x <= y
    <2>1. x \in Nat /\ y \in Nat
        OBVIOUS
    <2>2. ~(y < x)
        BY <1>2, <1>3, <2>1
    <2>3. QED
        BY <2>1, <2>2
<1>5. QED
    BY <1>4

\* The run of D after n ends: what RunEnd chooses exists.
LEMMA RunEnds ==
    ASSUME NEW n \in Nat, NEW D \in SUBSET Nat, IsFiniteSet(D)
    PROVE  /\ RunEnd(n, D) \in n..(n + Cardinality(D))
           /\ (n + 1)..RunEnd(n, D) \subseteq D
           /\ RunEnd(n, D) + 1 \notin D
<1> DEFINE c == Cardinality(D)
           I == (n + 1)..(n + c + 1)
           T == I \ D
<1>1. c \in Nat
    BY FS_CardinalityType
<1>2. Cardinality(I) = c + 1
    <2>1. n + 1 \in Int /\ n + c + 1 \in Int
        BY <1>1
    <2>2. ~(n + 1 > n + c + 1) /\ (n + c + 1) - (n + 1) + 1 = c + 1
        BY <1>1
    <2> HIDE DEF c
    <2>3. QED
        BY <2>1, <2>2, FS_Interval
<1>3. T # {}
    <2>1. SUFFICES ASSUME I \subseteq D PROVE FALSE
        OBVIOUS
    <2>2. Cardinality(I) <= c
        BY <2>1, FS_Subset
    <2>3. QED
        BY <1>1, <1>2, <2>2
<1>4. T \in SUBSET Nat
    BY <1>1
<1> HIDE DEF T
<1>5. PICK x \in T : \A y \in T : x <= y
    BY <1>3, <1>4, LeastNatural
<1> USE DEF T
<1>6. x \in (n + 1)..(n + c + 1) /\ x \notin D
    BY <1>5
<1> HIDE DEF c
<1>7. /\ x - 1 \in n..(n + c)
      /\ (n + 1)..(x - 1) \subseteq D
      /\ (x - 1) + 1 \notin D
    BY <1>1, <1>5, <1>6
<1>8. QED
    BY <1>7 DEF RunEnd, c

-----------------------------------------------------------------------------
(* Lemmas about the operators *)

LEMMA FrameFacts ==
    ASSUME NEW f \in Frame
    PROVE  /\ f.kind = "event" => f.seq \in Nat
           /\ f.kind # "event" => /\ f \in Ack
                                  /\ f.kind \in {"attach", "replay"}
                                  /\ f.live \in BOOLEAN
                                  /\ f.latest \in Nat /\ f.from \in Nat /\ f.to \in Nat
           /\ f.kind # "none"
BY DEF Frame, Ack

LEMMA StaleFacts ==
    ASSUME NEW f \in Frame
    PROVE  /\ Stale(f) \in Frame
           /\ Stale(f).kind = f.kind
           /\ f.kind = "event" => Stale(f) = f
           /\ f.kind # "event" => Stale(f).latest = f.latest /\ Stale(f).live = FALSE
<1>1. CASE f.kind = "event"
    BY <1>1 DEF Stale
<1>2. CASE f.kind # "event"
    <2>1. f \in Ack
        BY <1>2, FrameFacts
    <2>2. Stale(f) = [f EXCEPT !.live = FALSE]
        BY <1>2 DEF Stale
    <2>3. Stale(f) \in Ack
        BY <2>1, <2>2 DEF Ack
    <2>4. Stale(f).kind = f.kind /\ Stale(f).latest = f.latest /\ Stale(f).live = FALSE
        BY <2>1, <2>2 DEF Ack
    <2>5. QED
        BY <1>2, <2>3, <2>4 DEF Frame
<1>3. QED
    BY <1>1, <1>2

LEMMA AckIsNotNone == NoAck \notin Ack
BY DEF NoAck, Ack

\* The part of TypeOK that the operators read.
HostType ==
    /\ latest \in Nat \ {0}
    /\ serving \in Ack \cup {NoAck}
    /\ receiver \in Seq(Nat)
    /\ out \in Seq(Frame) /\ wire \in Seq(Frame)
    /\ requests \in Seq(Request)

LEMMA OldestType ==
    ASSUME latest \in Nat \ {0}
    PROVE  Oldest \in Nat /\ 1 <= Oldest /\ Oldest <= latest
BY ReplayAssumption DEF Oldest, MaxOf

LEMMA AttachResultType ==
    ASSUME latest \in Nat \ {0}, NEW r \in Request
    PROVE  /\ AttachResult(r) \in Ack
           /\ AttachResult(r).kind = r.kind
           /\ AttachResult(r).live = r.live
           /\ AttachResult(r).latest = latest
<1> DEFINE to == IF r.kind = "attach" THEN Oldest - 1
                                      ELSE MinOf(latest, Oldest + MaxReplay - 1)
<1>1. Oldest \in Nat /\ 1 <= Oldest
    BY OldestType
<1>2. to \in Nat
    BY <1>1, ReplayAssumption DEF MinOf
<1>3. r.kind \in {"attach", "replay"} /\ r.live \in BOOLEAN
    BY DEF Request
<1>4. AttachResult(r) = [kind |-> r.kind, live |-> r.live, latest |-> latest,
                         from |-> Oldest, to |-> to]
    BY DEF AttachResult
<1> HIDE DEF to
<1>5. QED
    BY <1>1, <1>2, <1>3, <1>4 DEF Ack

LEMMA AnswersBehindType ==
    ASSUME HostType
    PROVE  AnswersBehind \in Nat
<1> DEFINE Live(q, k) == {i \in k..Len(q) : q[i].kind # "event" /\ q[i].live}
<1>1. ASSUME NEW q \in Seq(Frame), NEW k \in {1, 2} PROVE Cardinality(Live(q, k)) \in Nat
    <2>1. Len(q) \in Int /\ k \in Int
        OBVIOUS
    <2>2. IsFiniteSet(k..Len(q))
        BY <2>1, FS_Interval
    <2>3. Live(q, k) \subseteq k..Len(q)
        OBVIOUS
    <2> HIDE DEF Live
    <2>4. QED
        BY <2>2, <2>3, FS_Subset, FS_CardinalityType
<1>2. Cardinality(Live(out, 1)) \in Nat /\ Cardinality(Live(wire, 2)) \in Nat
    <2> HIDE DEF Live
    <2>1. QED
        BY <1>1 DEF HostType
<1>3. AnswersBehind = Cardinality(Live(out, 1)) + Cardinality(Live(wire, 2))
                      + (IF serving = NoAck THEN 0 ELSE 1)
    BY DEF AnswersBehind
<1> HIDE DEF Live
<1>4. QED
    BY <1>2, <1>3

\* m requests for a replay.
Asked(m) == [i \in 1..m |-> [kind |-> "replay", live |-> TRUE]]

LEMMA AskedType ==
    ASSUME NEW m \in Nat
    PROVE  /\ Asked(m) \in Seq(Request) /\ Len(Asked(m)) = m
           /\ \A i \in 1..m : Asked(m)[i].live = TRUE
<1>1. [kind |-> "replay", live |-> TRUE] \in Request
    BY DEF Request
<1>2. Asked(m) \in Seq(Request)
    BY <1>1, IsASeq DEF Asked
<1>3. Len(Asked(m)) = m
    BY <1>2, LenProperties DEF Asked
<1>4. \A i \in 1..m : Asked(m)[i].live = TRUE
    BY DEF Asked
<1>5. QED
    BY <1>2, <1>3, <1>4

\* How many replays fit below MaxQueue.
Room == MaxOf(0, MaxQueue - Len(requests) - AnswersBehind)

LEMMA RequestReplaysIs ==
    ASSUME HostType, NEW n \in Nat
    PROVE  /\ MinOf(n, Room) \in Nat
           /\ RequestReplays(n) = requests \o Asked(MinOf(n, Room))
<1>1. Len(requests) \in Nat
    BY DEF HostType
<1>2. MinOf(n, Room) \in Nat
    BY <1>1, AnswersBehindType, ReplayAssumption DEF Room, MaxOf, MinOf
<1>3. QED
    BY <1>2 DEF RequestReplays, Asked, Room

\* requestReplay only adds requests at the end, all of them waited for.
LEMMA RequestReplaysType ==
    ASSUME HostType, NEW n \in Nat
    PROVE  /\ RequestReplays(n) \in Seq(Request)
           /\ Len(RequestReplays(n)) >= Len(requests)
           /\ \A i \in 1..Len(requests) : RequestReplays(n)[i] = requests[i]
           /\ \A i \in 1..Len(RequestReplays(n)) :
                 i > Len(requests) => RequestReplays(n)[i].live = TRUE
<1>1. PICK m \in Nat : RequestReplays(n) = requests \o Asked(m)
    BY RequestReplaysIs
<1>2. requests \in Seq(Request) /\ Len(requests) \in Nat
    BY DEF HostType
<1>3. /\ Asked(m) \in Seq(Request) /\ Len(Asked(m)) = m
      /\ \A i \in 1..m : Asked(m)[i].live = TRUE
    BY AskedType
<1>4. QED
    BY <1>1, <1>2, <1>3, ConcatProperties

LEMMA EventFramesType ==
    ASSUME NEW s \in Seq(Nat)
    PROVE  /\ EventFrames(s) \in Seq(Frame)
           /\ Len(EventFrames(s)) = Len(s)
           /\ \A i \in 1..Len(s) : /\ EventFrames(s)[i].kind = "event"
                                   /\ EventFrames(s)[i].seq = s[i]
<1>1. DOMAIN s = 1..Len(s) /\ Len(s) \in Nat
    BY LenProperties
<1>2. \A i \in 1..Len(s) : s[i] \in Nat
    BY ElementOfSeq
<1>3. EventFrames(s) = [i \in 1..Len(s) |-> [kind |-> "event", seq |-> s[i]]]
    BY <1>1 DEF EventFrames
<1>4. ASSUME NEW i \in 1..Len(s)
      PROVE  EventFrames(s)[i] = [kind |-> "event", seq |-> s[i]]
    BY <1>3
<1>5. ASSUME NEW i \in 1..Len(s) PROVE EventFrames(s)[i] \in Frame
    <2>1. [kind |-> "event", seq |-> s[i]] \in [kind : {"event"}, seq : Nat]
        BY <1>2
    <2>2. QED
        BY <1>4, <2>1 DEF Frame
<1>6. EventFrames(s) \in Seq(Frame)
    BY <1>1, <1>3, <1>5, IsASeq
<1>7. Len(EventFrames(s)) = Len(s)
    BY <1>1, <1>3, <1>6, LenProperties
<1>8. ASSUME NEW i \in 1..Len(s)
      PROVE  EventFrames(s)[i].kind = "event" /\ EventFrames(s)[i].seq = s[i]
    <2>1. EventFrames(s)[i] = [kind |-> "event", seq |-> s[i]]
        BY <1>4
    <2>2. \A x : LET f == [kind |-> "event", seq |-> x]
                 IN  f.kind = "event" /\ f.seq = x
        OBVIOUS
    <2>3. QED
        BY <2>1, <2>2
<1>9. QED
    BY <1>6, <1>7, <1>8

-----------------------------------------------------------------------------
(* Types *)

\* What the proof of the types needs besides them: the deferred events can be
\* counted.
ReplayTypeInv == TypeOK /\ IsFiniteSet(deferred)

LEMMA TypeInvHostType == ReplayTypeInv => HostType
BY DEF ReplayTypeInv, TypeOK, HostType

\* The answer at the head of the wire, and what is left behind it.
LEMMA WireHead ==
    ASSUME HostType, wire # <<>>
    PROVE  /\ Head(wire) \in Frame
           /\ Head(wire) = wire[1]
           /\ Tail(wire) \in Seq(Frame)
           /\ Len(wire) \in Nat \ {0}
           /\ Len(Tail(wire)) = Len(wire) - 1
           /\ \A i \in 1..Len(Tail(wire)) : Tail(wire)[i] = wire[i + 1]
<1>1. wire \in Seq(Frame)
    BY DEF HostType
<1>2. QED
    BY <1>1, HeadTailProperties, ElementOfSeq, LenProperties

LEMMA ReceiveEventType ==
    ASSUME ReplayTypeInv, ReceiveEvent
    PROVE  ReplayTypeInv'
<1> DEFINE n == Head(wire).seq
           gap == n > cursor + 1
           k == IF gap /\ ~awaiting THEN 1 ELSE 0
<1>1. HostType
    BY TypeInvHostType
<1>2. wire # <<>> /\ Head(wire).kind = "event" /\ wire' = Tail(wire)
    BY DEF ReceiveEvent
<1>3. n \in Nat /\ wire' \in Seq(Frame)
    BY <1>1, <1>2, WireHead, FrameFacts
<1>4. k \in Nat
    OBVIOUS
<1>5. requests' = RequestReplays(k) /\ cursor' = (IF n = cursor + 1 THEN n ELSE cursor)
      /\ deferred' = (IF gap /\ awaiting THEN deferred \cup {n} ELSE deferred)
    BY DEF ReceiveEvent
<1> HIDE DEF k, n, gap
<1>6. requests' \in Seq(Request)
    BY <1>1, <1>4, <1>5, RequestReplaysType
<1>7. deferred' \subseteq Nat /\ IsFiniteSet(deferred')
    BY <1>3, <1>5, FS_AddElement DEF ReplayTypeInv, TypeOK
<1>8. cursor' \in Nat
    BY <1>3, <1>5 DEF ReplayTypeInv, TypeOK
<1>9. QED
    BY <1>3, <1>6, <1>7, <1>8
    DEF ReceiveEvent, ReplayTypeInv, TypeOK, hostVars, viewVars, history

LEMMA ReceiveAttachAckType ==
    ASSUME ReplayTypeInv, ReceiveAttachAck
    PROVE  ReplayTypeInv'
<1> DEFINE start == MaxOf(cursor, Head(wire).latest)
           later == {n \in deferred : n > start}
           end == RunEnd(start, later)
           behind == {n \in later : n > end}
<1>1. HostType
    BY TypeInvHostType
<1>2. wire # <<>> /\ Head(wire).kind = "attach" /\ wire' = Tail(wire)
    BY DEF ReceiveAttachAck
<1>3. Head(wire).latest \in Nat /\ wire' \in Seq(Frame)
    BY <1>1, <1>2, WireHead, FrameFacts
<1>4. start \in Nat
    BY <1>3 DEF MaxOf, ReplayTypeInv, TypeOK
<1>5. later \in SUBSET Nat /\ IsFiniteSet(later)
    BY FS_Subset DEF ReplayTypeInv, TypeOK
<1>6. IsFiniteSet(behind)
    BY <1>5, FS_Subset
<1>7. cursor' = end /\ requests' = RequestReplays(Cardinality(behind))
    BY DEF ReceiveAttachAck
<1> HIDE DEF behind, later, start
<1>8. end \in Nat
    <2>1. Cardinality(later) \in Nat
        BY <1>5, FS_CardinalityType
    <2>2. end \in start..(start + Cardinality(later))
        BY <1>4, <1>5, RunEnds
    <2>3. QED
        BY <1>4, <2>1, <2>2
<1> HIDE DEF end
<1>9. requests' \in Seq(Request)
    BY <1>1, <1>6, <1>7, FS_CardinalityType, RequestReplaysType
<1>10. deferred' = {} /\ IsFiniteSet(deferred')
    BY FS_EmptySet DEF ReceiveAttachAck
<1>11. until' \in Nat /\ loaded' \subseteq Nat /\ more' \in BOOLEAN
       /\ attached' \in BOOLEAN /\ awaiting' \in BOOLEAN
    BY <1>3 DEF ReceiveAttachAck
<1>12. QED
    BY <1>3, <1>7, <1>8, <1>9, <1>10, <1>11
    DEF ReceiveAttachAck, ReplayTypeInv, TypeOK, hostVars, history

LEMMA ReceiveReplayAckType ==
    ASSUME ReplayTypeInv, ReceiveReplayAck
    PROVE  ReplayTypeInv'
<1> DEFINE ack == Head(wire)
           gaps == IF ack.from > cursor + 1 THEN ack.from..ack.to ELSE {}
           k == (IF awaiting THEN 0 ELSE Cardinality(gaps))
                + (IF cursor' < ack.latest THEN 1 ELSE 0)
<1>1. HostType
    BY TypeInvHostType
<1>2. wire # <<>> /\ ack.kind = "replay" /\ wire' = Tail(wire)
    BY DEF ReceiveReplayAck
<1>3. /\ ack.latest \in Nat /\ ack.from \in Nat /\ ack.to \in Nat
      /\ wire' \in Seq(Frame)
    BY <1>1, <1>2, WireHead, FrameFacts
<1>4. IsFiniteSet(gaps) /\ gaps \subseteq Nat
    <2>1. ack.from \in Int /\ ack.to \in Int
        BY <1>3
    <2>2. IsFiniteSet(ack.from..ack.to) /\ IsFiniteSet({})
        BY <2>1, FS_Interval, FS_EmptySet
    <2>3. ack.from..ack.to \subseteq Nat
        BY <1>3
    <2> HIDE DEF ack
    <2>4. QED
        BY <2>2, <2>3
<1>5. /\ requests' = RequestReplays(k)
      /\ cursor' = (IF gaps = {} THEN MaxOf(cursor, ack.to) ELSE cursor)
      /\ deferred' = IF awaiting THEN deferred \cup gaps ELSE deferred
    BY DEF ReceiveReplayAck
<1>6. k \in Nat
    <2> HIDE DEF gaps
    <2>1. Cardinality(gaps) \in Nat
        BY <1>4, FS_CardinalityType
    <2>2. QED
        BY <2>1
<1>7. requests' \in Seq(Request)
    <2> HIDE DEF k
    <2>1. QED
        BY <1>1, <1>5, <1>6, RequestReplaysType
<1> HIDE DEF gaps
<1>8. deferred' \subseteq Nat /\ IsFiniteSet(deferred')
    BY <1>4, <1>5, FS_Union DEF ReplayTypeInv, TypeOK
<1>9. cursor' \in Nat
    BY <1>3, <1>5 DEF ReplayTypeInv, TypeOK, MaxOf
<1>10. QED
    BY <1>3, <1>7, <1>8, <1>9
    DEF ReceiveReplayAck, ReplayTypeInv, TypeOK, hostVars, viewVars, history

\* Giving up on a request changes only whether it is waited for.
LEMMA TimeoutType ==
    ASSUME ReplayTypeInv, Timeout
    PROVE  ReplayTypeInv'
<1> DEFINE Forgets == \E kind : Forget(kind)
<1>1. ASSUME NEW kind, Forget(kind)
      PROVE  /\ latest' = latest /\ link' = link /\ pc' = pc /\ subscribed' = subscribed
             /\ receiver' = receiver /\ attached' = attached /\ cursor' = cursor
             /\ loaded' = loaded /\ until' = until /\ more' = more
             /\ attaches' = attaches /\ missed' = missed
             /\ faults' \in Nat /\ forgot' \in BOOLEAN
             /\ awaiting' \in BOOLEAN
             /\ deferred' \subseteq Nat /\ IsFiniteSet(deferred')
    <2>1. awaiting' \in BOOLEAN /\ deferred' \in {deferred, {}}
        BY <1>1 DEF Forget, ReplayTypeInv, TypeOK
    <2>2. deferred' \subseteq Nat /\ IsFiniteSet(deferred')
        BY <2>1, FS_EmptySet DEF ReplayTypeInv, TypeOK
    <2>3. QED
        BY <1>1, <2>1, <2>2 DEF Forget, Fault, viewVars, ReplayTypeInv, TypeOK
<1>2. ASSUME NEW i \in DOMAIN requests, Forget(requests[i].kind),
             requests' = [requests EXCEPT ![i].live = FALSE],
             UNCHANGED <<serving, out, wire>>
      PROVE  ReplayTypeInv'
    <2>1. requests \in Seq(Request) /\ i \in 1..Len(requests)
        BY <1>2 DEF ReplayTypeInv, TypeOK
    <2>2. requests[i] \in Request
        BY <2>1, ElementOfSeq
    <2>3. [requests[i] EXCEPT !.live = FALSE] \in Request
        BY <2>2 DEF Request
    <2>4. requests' = [requests EXCEPT ![i] = [requests[i] EXCEPT !.live = FALSE]]
        BY <1>2
    <2>5. requests' \in Seq(Request)
        BY <2>1, <2>3, <2>4, ExceptSeq
    <2>6. QED
        BY <1>1, <1>2, <2>5 DEF ReplayTypeInv, TypeOK
<1>3. ASSUME serving # NoAck, Forget(serving.kind),
             serving' = [serving EXCEPT !.live = FALSE],
             UNCHANGED <<requests, out, wire>>
      PROVE  ReplayTypeInv'
    <2>1. serving \in Ack
        BY <1>3 DEF ReplayTypeInv, TypeOK
    <2>2. serving' \in Ack
        BY <1>3, <2>1 DEF Ack
    <2>3. serving' # NoAck
        BY <2>2, AckIsNotNone
    <2>4. QED
        BY <1>1, <1>3, <2>2, <2>3 DEF ReplayTypeInv, TypeOK
<1>4. ASSUME NEW i \in DOMAIN wire, Forget(wire[i].kind),
             wire' = [wire EXCEPT ![i] = Stale(@)],
             UNCHANGED <<requests, serving, out>>
      PROVE  ReplayTypeInv'
    <2>1. wire \in Seq(Frame) /\ i \in 1..Len(wire)
        BY <1>4 DEF ReplayTypeInv, TypeOK
    <2>2. Stale(wire[i]) \in Frame
        BY <2>1, ElementOfSeq, StaleFacts
    <2>3. wire' = [wire EXCEPT ![i] = Stale(wire[i])]
        BY <1>4
    <2>4. wire' \in Seq(Frame)
        BY <2>1, <2>2, <2>3, ExceptSeq
    <2>5. QED
        BY <1>1, <1>4, <2>4 DEF ReplayTypeInv, TypeOK
<1>5. QED
    BY <1>2, <1>3, <1>4 DEF Timeout

LEMMA HostActionsType ==
    ASSUME ReplayTypeInv, Host \/ Write \/ AppendEvent
    PROVE  ReplayTypeInv'
<1>1. CASE DispatchAttach
    <2>1. requests \in Seq(Request) /\ requests # <<>> /\ latest \in Nat \ {0}
        BY <1>1 DEF DispatchAttach, ReplayTypeInv, TypeOK
    <2>2. Head(requests) \in Request /\ Tail(requests) \in Seq(Request)
        BY <2>1, HeadTailProperties
    <2>3. AttachResult(Head(requests)) \in Ack
        BY <2>1, <2>2, AttachResultType
    <2>4. AttachResult(Head(requests)) # NoAck
        BY <2>3, AckIsNotNone
    <2>5. QED
        BY <1>1, <2>2, <2>3, <2>4
        DEF DispatchAttach, ReplayTypeInv, TypeOK, cursorVars, viewVars, history
<1>2. CASE DispatchSubscribe
    <2>1. serving \in Ack
        BY <1>2 DEF DispatchSubscribe, ReplayTypeInv, TypeOK
    <2>2. serving \in Frame /\ serving.latest \in Nat
        BY <2>1 DEF Frame, Ack
    <2>3. missed' \subseteq Nat
        <3>1. (serving.latest + 1)..latest \subseteq Nat /\ missed \subseteq Nat
            BY <2>2 DEF ReplayTypeInv, TypeOK
        <3>2. QED
            BY <1>2, <3>1 DEF DispatchSubscribe
    <2>4. out' \in Seq(Frame)
        BY <1>2, <2>2, AppendProperties DEF DispatchSubscribe, ReplayTypeInv, TypeOK
    <2>5. receiver' \in Seq(Nat)
        BY <1>2, EmptySeq DEF DispatchSubscribe
    <2>6. QED
        BY <1>2, <2>3, <2>4, <2>5
        DEF DispatchSubscribe, ReplayTypeInv, TypeOK, cursorVars, viewVars
<1>3. CASE Poll
    BY <1>3 DEF Poll, ReplayTypeInv, TypeOK, cursorVars, viewVars, history
<1>4. CASE Drain
    <2>1. receiver \in Seq(Nat) /\ out \in Seq(Frame)
        BY DEF ReplayTypeInv, TypeOK
    <2>2. out \o EventFrames(receiver) \in Seq(Frame)
        BY <2>1, EventFramesType, ConcatProperties
    <2>3. receiver' \in Seq(Nat)
        BY <1>4, EmptySeq DEF Drain
    <2>4. QED
        BY <1>4, <2>2, <2>3 DEF Drain, ReplayTypeInv, TypeOK, cursorVars, viewVars, history
<1>5. CASE Write
    <2>1. wire \o out \in Seq(Frame) /\ <<>> \in Seq(Frame)
        BY ConcatProperties, EmptySeq DEF ReplayTypeInv, TypeOK
    <2>2. QED
        BY <1>5, <2>1 DEF Write, ReplayTypeInv, TypeOK, cursorVars, viewVars, history
<1>6. CASE AppendEvent
    <2>1. latest' \in Nat \ {0}
        BY <1>6 DEF AppendEvent, ReplayTypeInv, TypeOK
    <2>2. receiver' \in Seq(Nat)
        BY <1>6, AppendProperties DEF AppendEvent, ReplayTypeInv, TypeOK
    <2>3. QED
        BY <1>6, <2>1, <2>2 DEF AppendEvent, ReplayTypeInv, TypeOK, cursorVars, viewVars, history
<1>7. QED
    BY <1>1, <1>2, <1>3, <1>4, <1>5, <1>6 DEF Host

\* A blocked write keeps every frame, in order; the one it stopped at may be
\* both on the wire and at the front of the queue.
LEMMA WriteBlockedType ==
    ASSUME ReplayTypeInv, NEW k \in DOMAIN out, WriteBlocked(k)
    PROVE  ReplayTypeInv'
<1>1. /\ out \in Seq(Frame) /\ wire \in Seq(Frame)
      /\ k \in 1..Len(out) /\ Len(out) \in Nat
    BY DEF ReplayTypeInv, TypeOK
<1>2. out[k] \in Frame /\ Stale(out[k]) \in Frame
    BY <1>1, ElementOfSeq, StaleFacts
<1>3. /\ SubSeq(out, 1, k - 1) \in Seq(Frame) /\ SubSeq(out, k, Len(out)) \in Seq(Frame)
      /\ SubSeq(out, 1, k) \in Seq(Frame) /\ SubSeq(out, k + 1, Len(out)) \in Seq(Frame)
    BY <1>1
<1>4. <<Stale(out[k])>> \in Seq(Frame)
    BY <1>2
<1>5. wire' \in Seq(Frame) /\ out' \in Seq(Frame)
    <2>1. CASE /\ wire' = wire \o SubSeq(out, 1, k - 1)
               /\ out' = SubSeq(out, k, Len(out))
        BY <1>1, <1>3, <2>1, ConcatProperties
    <2>2. CASE /\ wire' = wire \o SubSeq(out, 1, k)
               /\ out' = <<Stale(out[k])>> \o SubSeq(out, k + 1, Len(out))
        BY <1>1, <1>3, <1>4, <2>2, ConcatProperties
    <2>3. QED
        BY <2>1, <2>2 DEF WriteBlocked
<1>6. QED
    BY <1>5
    DEF WriteBlocked, Fault, ReplayTypeInv, TypeOK, cursorVars, viewVars, history

LEMMA ClientActionsType ==
    ASSUME ReplayTypeInv, SendAttach \/ ReceiveStaleAck \/ LoadHistory \/ Disconnect \/ Reconnect
    PROVE  ReplayTypeInv'
<1>1. CASE SendAttach
    <2>1. [kind |-> "attach", live |-> TRUE] \in Request
        BY DEF Request
    <2>2. requests' \in Seq(Request)
        BY <1>1, <2>1, AppendProperties DEF SendAttach, ReplayTypeInv, TypeOK
    <2>3. QED
        BY <1>1, <2>2 DEF SendAttach, ReplayTypeInv, TypeOK, hostVars, viewVars
<1>2. CASE ReceiveStaleAck
    <2>1. wire' \in Seq(Frame)
        BY <1>2, TypeInvHostType, WireHead DEF ReceiveStaleAck
    <2>2. QED
        BY <1>2, <2>1
        DEF ReceiveStaleAck, ReplayTypeInv, TypeOK, hostVars, cursorVars, viewVars, history
<1>3. CASE LoadHistory
    <2>1. PICK before : /\ loaded' = loaded \cup HistoryPage(before).events
                        /\ more' = HistoryPage(before).more
        BY <1>3 DEF LoadHistory
    <2>2. HistoryPage(before).events \subseteq Oldest..latest
        BY DEF HistoryPage
    <2>3. HistoryPage(before).more \in BOOLEAN
        BY DEF HistoryPage
    <2>4. loaded' \subseteq Nat
        <3>1. Oldest..latest \subseteq Nat /\ loaded \subseteq Nat
            BY OldestType DEF ReplayTypeInv, TypeOK
        <3>2. QED
            BY <2>1, <2>2, <3>1
    <2>5. QED
        BY <1>3, <2>1, <2>3, <2>4
        DEF LoadHistory, ReplayTypeInv, TypeOK, hostVars, cursorVars, history
<1>4. CASE Disconnect
    <2>1. /\ receiver' \in Seq(Nat) /\ out' \in Seq(Frame) /\ wire' \in Seq(Frame)
          /\ requests' \in Seq(Request)
        BY <1>4, EmptySeq DEF Disconnect
    <2>2. deferred' = {} /\ IsFiniteSet(deferred')
        BY <1>4, FS_EmptySet DEF Disconnect
    <2>3. QED
        <3>1. deferred' \subseteq Nat
            BY <2>2
        <3>2. serving' = NoAck /\ pc' = "read"
            BY <1>4 DEF Disconnect
        <3>3. /\ latest' = latest /\ attached' = attached /\ cursor' = cursor
              /\ loaded' = loaded /\ until' = until /\ more' = more
              /\ attaches' = attaches /\ missed' = missed /\ forgot' = forgot
              /\ faults' \in Nat /\ link' = "down"
              /\ subscribed' = FALSE /\ awaiting' = FALSE
            BY <1>4 DEF Disconnect, Fault, viewVars, ReplayTypeInv, TypeOK
        <3>4. QED
            BY <2>1, <2>2, <3>1, <3>2, <3>3 DEF ReplayTypeInv, TypeOK
<1>5. CASE Reconnect
    <2> DEFINE k == IF attached THEN 1 ELSE 0
    <2>1. k \in Nat /\ requests' = RequestReplays(k)
        BY <1>5 DEF Reconnect
    <2> HIDE DEF k
    <2>2. requests' \in Seq(Request)
        BY <2>1, TypeInvHostType, RequestReplaysType
    <2>3. QED
        BY <1>5, <2>2
        DEF Reconnect, ReplayTypeInv, TypeOK, hostVars, cursorVars, viewVars, history
<1>6. QED
    BY <1>1, <1>2, <1>3, <1>4, <1>5

LEMMA ReplayTypeInit == Init => ReplayTypeInv
<1> SUFFICES ASSUME Init PROVE ReplayTypeInv
    OBVIOUS
<1>1. /\ receiver \in Seq(Nat) /\ out \in Seq(Frame) /\ wire \in Seq(Frame)
      /\ requests \in Seq(Request)
    BY EmptySeq DEF Init
<1>2. IsFiniteSet(deferred)
    BY FS_EmptySet DEF Init
<1>3. deferred \subseteq Nat /\ loaded \subseteq Nat /\ missed \subseteq Nat
    BY DEF Init
<1>4. /\ latest = 1 /\ link = "up" /\ pc = "read" /\ serving = NoAck
      /\ subscribed = FALSE /\ attached = FALSE /\ awaiting = FALSE
      /\ cursor = 0 /\ until = 0 /\ more = FALSE
      /\ attaches = 0 /\ faults = 0 /\ forgot = FALSE
    BY DEF Init
<1>5. /\ latest \in Nat \ {0} /\ cursor \in Nat /\ until \in Nat
      /\ attaches \in Nat /\ faults \in Nat
    BY <1>4
<1>6. /\ subscribed \in BOOLEAN /\ attached \in BOOLEAN /\ awaiting \in BOOLEAN
      /\ more \in BOOLEAN /\ forgot \in BOOLEAN
    BY <1>4
<1>7. /\ link \in {"up", "down"} /\ pc \in {"read", "subscribe", "drain", "write"}
      /\ serving \in Ack \cup {NoAck} /\ (pc = "subscribe" <=> serving # NoAck)
    BY <1>4
<1>8. QED
    BY <1>1, <1>2, <1>3, <1>5, <1>6, <1>7 DEF ReplayTypeInv, TypeOK

LEMMA ReplayTypeStep == ReplayTypeInv /\ [Next]_vars => ReplayTypeInv'
<1> SUFFICES ASSUME ReplayTypeInv, [Next]_vars PROVE ReplayTypeInv'
    OBVIOUS
<1>1. CASE AppendEvent \/ Host \/ Write
    BY <1>1, HostActionsType
<1>2. CASE \E k \in DOMAIN out : WriteBlocked(k)
    BY <1>2, WriteBlockedType
<1>3. CASE Receive
    BY <1>3, ReceiveEventType, ReceiveAttachAckType, ReceiveReplayAckType, ClientActionsType
    DEF Receive
<1>4. CASE Timeout
    BY <1>4, TimeoutType
<1>5. CASE SendAttach \/ LoadHistory \/ Disconnect \/ Reconnect
    BY <1>5, ClientActionsType
<1>6. CASE UNCHANGED vars
    BY <1>6
    DEF vars, hostVars, cursorVars, viewVars, history, ReplayTypeInv, TypeOK
<1>7. QED
    BY <1>1, <1>2, <1>3, <1>4, <1>5, <1>6 DEF Next

\* Every variable keeps its type and dispatch holds an ack exactly between the
\* two times it takes the manager's mutex, whatever the limits and the faults.
\* The run of deferred events that an attach ack replays always has an end.
THEOREM ReplayTypeCorrect == Spec => []TypeOK
<1>1. ReplayTypeInv => TypeOK
    BY DEF ReplayTypeInv
<1>2. QED
    BY <1>1, ReplayTypeInit, ReplayTypeStep, PTL DEF Spec

-----------------------------------------------------------------------------
(* The pages of the history *)

\* No answer in q names an event later than n.
Known(q, n) == \A i \in 1..Len(q) : q[i].kind # "event" => q[i].latest <= n

\* No answer under way is ahead of the journal.
AnswersKnown ==
    /\ Known(wire, latest) /\ Known(out, latest)
    /\ serving # NoAck => serving.latest <= latest

\* What the view holds is the end of what its first page asked for.
LoadedRun ==
    /\ until <= latest
    /\ loaded = {} \/ \E lo \in 1..until : loaded = lo..until

HistInv == AnswersKnown /\ LoadedRun /\ HistoryWhole

LEMMA KnownConcat ==
    ASSUME NEW q \in Seq(Frame), NEW p \in Seq(Frame), NEW n \in Nat, Known(q, n), Known(p, n)
    PROVE  Known(q \o p, n)
BY ConcatProperties DEF Known

LEMMA KnownSubSeq ==
    ASSUME NEW q \in Seq(Frame), NEW n \in Nat, Known(q, n),
           NEW a \in Nat \ {0}, NEW b \in Int, b <= Len(q)
    PROVE  Known(SubSeq(q, a, b), n)
<1> DEFINE s == SubSeq(q, a, b)
<1>1. Len(q) \in Nat
    OBVIOUS
<1>2. \A i \in 1..Len(s) : a + i - 1 \in 1..Len(q) /\ s[i] = q[a + i - 1]
    BY <1>1
<1> HIDE DEF s
<1>3. Known(s, n)
    BY <1>2 DEF Known
<1>4. QED
    BY <1>3 DEF s

LEMMA KnownTail ==
    ASSUME HostType, wire # <<>>, NEW n \in Nat, Known(wire, n)
    PROVE  /\ Known(Tail(wire), n)
           /\ Head(wire).kind # "event" => Head(wire).latest <= n
BY WireHead DEF Known

LEMMA KnownLater ==
    ASSUME NEW q \in Seq(Frame), NEW n \in Nat, Known(q, n)
    PROVE  Known(q, n + 1)
<1>1. ASSUME NEW i \in 1..Len(q), q[i].kind # "event" PROVE q[i].latest <= n + 1
    BY <1>1, ElementOfSeq, FrameFacts DEF Known
<1>2. QED
    BY <1>1 DEF Known

LEMMA KnownEmpty == \A n : Known(<<>>, n)
BY EmptySeq DEF Known

LEMMA AnswersKnownStep ==
    ASSUME ReplayTypeInv, AnswersKnown, [Next]_vars
    PROVE  AnswersKnown'
<1> USE TypeInvHostType
<1>0. /\ latest \in Nat \ {0} /\ latest \in Nat
      /\ wire \in Seq(Frame) /\ out \in Seq(Frame)
      /\ Known(wire, latest) /\ Known(out, latest)
    BY DEF ReplayTypeInv, TypeOK, AnswersKnown
<1>1. CASE AppendEvent
    <2>1. Known(wire, latest + 1) /\ Known(out, latest + 1)
        BY <1>0, KnownLater
    <2>2. serving # NoAck => serving.latest <= latest + 1
        BY <1>0 DEF AnswersKnown, ReplayTypeInv, TypeOK, Ack
    <2>3. QED
        BY <1>1, <2>1, <2>2 DEF AppendEvent, AnswersKnown
<1>2. CASE DispatchAttach
    <2>1. Head(requests) \in Request
        BY <1>2 DEF DispatchAttach, HostType
    <2>2. serving'.latest = latest
        BY <1>0, <1>2, <2>1, AttachResultType DEF DispatchAttach
    <2>3. QED
        BY <1>0, <1>2, <2>2 DEF DispatchAttach, AnswersKnown
<1>3. CASE DispatchSubscribe
    <2>1. serving # NoAck /\ serving \in Frame
        BY <1>3 DEF DispatchSubscribe, ReplayTypeInv, TypeOK, Frame
    <2>2. Known(Append(out, serving), latest)
        BY <1>0, <2>1, AppendProperties DEF Known, AnswersKnown
    <2>3. QED
        BY <1>0, <1>3, <2>2 DEF DispatchSubscribe, AnswersKnown
<1>4. CASE Poll
    BY <1>4 DEF Poll, AnswersKnown
<1>5. CASE Drain
    <2>1. receiver \in Seq(Nat)
        BY DEF ReplayTypeInv, TypeOK
    <2>2. EventFrames(receiver) \in Seq(Frame) /\ Known(EventFrames(receiver), latest)
        BY <2>1, EventFramesType DEF Known
    <2>3. Known(out \o EventFrames(receiver), latest)
        BY <1>0, <2>2, KnownConcat
    <2>4. QED
        BY <1>5, <2>3 DEF Drain, AnswersKnown
<1>6. CASE Write
    <2>1. Known(wire \o out, latest) /\ Known(<<>>, latest)
        BY <1>0, KnownConcat, KnownEmpty
    <2>2. QED
        BY <1>6, <2>1 DEF Write, AnswersKnown
<1>7. ASSUME NEW k \in DOMAIN out, WriteBlocked(k) PROVE AnswersKnown'
    <2>1. k \in 1..Len(out) /\ Len(out) \in Nat
        BY <1>0
    <2>2. /\ Known(SubSeq(out, 1, k - 1), latest) /\ Known(SubSeq(out, k, Len(out)), latest)
          /\ Known(SubSeq(out, 1, k), latest) /\ Known(SubSeq(out, k + 1, Len(out)), latest)
        BY <1>0, <2>1, KnownSubSeq
    <2>3. Stale(out[k]) \in Frame /\ <<Stale(out[k])>> \in Seq(Frame)
        <3>1. out[k] \in Frame
            BY <1>0, <2>1, ElementOfSeq
        <3>2. Stale(out[k]) \in Frame
            BY <3>1, StaleFacts
        <3>3. QED
            BY <3>2
    <2>4. Known(<<Stale(out[k])>>, latest)
        <3>1. out[k] \in Frame
            BY <1>0, <2>1, ElementOfSeq
        <3>2. Stale(out[k]).kind # "event" => Stale(out[k]).latest <= latest
            BY <1>0, <2>1, <3>1, StaleFacts DEF Known
        <3>3. \A f : Len(<<f>>) = 1 /\ <<f>>[1] = f
            OBVIOUS
        <3>4. QED
            BY <3>2, <3>3 DEF Known
    <2>5. /\ SubSeq(out, 1, k - 1) \in Seq(Frame) /\ SubSeq(out, k, Len(out)) \in Seq(Frame)
          /\ SubSeq(out, 1, k) \in Seq(Frame) /\ SubSeq(out, k + 1, Len(out)) \in Seq(Frame)
        BY <1>0, <2>1
    <2>6. Known(wire, latest)' /\ Known(out, latest)'
        <3>1. latest' = latest
            BY <1>7 DEF WriteBlocked
        <3>2. CASE /\ wire' = wire \o SubSeq(out, 1, k - 1)
                   /\ out' = SubSeq(out, k, Len(out))
            BY <1>0, <2>2, <2>5, <3>1, <3>2, KnownConcat
        <3>3. CASE /\ wire' = wire \o SubSeq(out, 1, k)
                   /\ out' = <<Stale(out[k])>> \o SubSeq(out, k + 1, Len(out))
            BY <1>0, <2>2, <2>3, <2>4, <2>5, <3>1, <3>3, KnownConcat
        <3>4. QED
            BY <1>7, <3>2, <3>3 DEF WriteBlocked
    <2>7. QED
        BY <1>7, <2>6 DEF WriteBlocked, AnswersKnown
<1>8. CASE Receive
    <2>1. wire # <<>> /\ wire' = Tail(wire) /\ UNCHANGED <<latest, out, serving>>
        BY <1>8
        DEF Receive, ReceiveEvent, ReceiveAttachAck, ReceiveReplayAck, ReceiveStaleAck, hostVars
    <2>2. Known(Tail(wire), latest)
        BY <1>0, <2>1, KnownTail
    <2>3. QED
        BY <2>1, <2>2 DEF AnswersKnown
<1>9. CASE Timeout
    <2>1. latest' = latest
        BY <1>9 DEF Timeout, Forget
    <2>2. CASE UNCHANGED <<serving, out, wire>>
        BY <2>1, <2>2 DEF AnswersKnown
    <2>3. CASE /\ serving # NoAck /\ serving' = [serving EXCEPT !.live = FALSE]
               /\ UNCHANGED <<requests, out, wire>>
        <3>1. serving'.latest = serving.latest
            BY <2>3 DEF ReplayTypeInv, TypeOK, Ack
        <3>2. QED
            BY <2>1, <2>3, <3>1 DEF AnswersKnown
    <2>4. ASSUME NEW i \in DOMAIN wire, wire' = [wire EXCEPT ![i] = Stale(@)],
                 UNCHANGED <<requests, serving, out>>
          PROVE  AnswersKnown'
        <3>1. i \in 1..Len(wire) /\ wire[i] \in Frame
            BY <1>0, <2>4, ElementOfSeq
        <3>2. wire' = [wire EXCEPT ![i] = Stale(wire[i])]
            BY <2>4
        <3>3. Len(wire') = Len(wire)
            BY <1>0, <3>1, <3>2, StaleFacts, ExceptSeq
        <3>4. \A j \in 1..Len(wire) : wire'[j] = IF j = i THEN Stale(wire[i]) ELSE wire[j]
            BY <1>0, <3>2
        <3>5. Known(wire', latest)
            <4>1. Stale(wire[i]).kind # "event" => Stale(wire[i]).latest <= latest
                BY <1>0, <3>1, StaleFacts DEF Known
            <4>2. QED
                BY <1>0, <3>3, <3>4, <4>1 DEF Known
        <3>6. QED
            BY <2>1, <2>4, <3>5 DEF AnswersKnown
    <2>5. QED
        BY <1>9, <2>2, <2>3, <2>4 DEF Timeout
<1>10. CASE SendAttach \/ LoadHistory \/ Reconnect
    BY <1>10 DEF SendAttach, LoadHistory, Reconnect, hostVars, AnswersKnown
<1>11. CASE Disconnect
    BY <1>11, KnownEmpty DEF Disconnect, AnswersKnown
<1>12. CASE UNCHANGED vars
    BY <1>12 DEF vars, hostVars, AnswersKnown
<1>13. QED
    BY <1>1, <1>2, <1>3, <1>4, <1>5, <1>6, <1>7, <1>8, <1>9, <1>10, <1>11, <1>12
    DEF Next, Host

\* A page joins on to what the view holds, and the last one reaches back to the
\* oldest event the journal still has.
LEMMA LoadHistoryStep ==
    ASSUME ReplayTypeInv, HistInv, LoadHistory
    PROVE  LoadedRun' /\ HistoryWhole'
<1> DEFINE before == IF loaded = {} THEN until + 1
                                    ELSE CHOOSE n \in loaded : \A m \in loaded : n <= m
           start == MaxOf(Oldest, before - PageLimit)
<1>1. /\ latest \in Nat \ {0} /\ until \in Nat /\ until > 0 /\ until <= latest
      /\ loaded \subseteq Nat /\ PageLimit \in Nat \ {0}
    BY ReplayAssumption DEF ReplayTypeInv, TypeOK, LoadHistory, HistInv, LoadedRun
<1>2. Oldest \in Nat /\ 1 <= Oldest /\ Oldest <= latest
    BY <1>1, OldestType
<1>3. /\ loaded' = loaded \cup {n \in Oldest..latest : n < before /\ n >= start}
      /\ more' = (start > Oldest)
    <2>1. loaded' = loaded \cup HistoryPage(before).events /\ more' = HistoryPage(before).more
        BY DEF LoadHistory
    <2>2. HistoryPage(before) =
             [events |-> {n \in {m \in Oldest..latest : m < before} : n >= start},
              more   |-> start > Oldest]
        BY DEF HistoryPage
    <2> HIDE DEF before, start
    <2>3. QED
        BY <2>1, <2>2
<1>4. UNCHANGED <<latest, until>>
    BY DEF LoadHistory
<1>5. PICK lo \in 1..(until + 1) : loaded = lo..until
    <2>1. CASE loaded = {}
        <3>1. until + 1 \in 1..(until + 1) /\ loaded = (until + 1)..until
            BY <1>1, <2>1
        <3>2. QED
            BY <3>1
    <2>2. CASE loaded # {}
        <3>1. PICK l \in 1..until : loaded = l..until
            BY <2>2 DEF HistInv, LoadedRun
        <3>2. l \in 1..(until + 1)
            BY <1>1
        <3>3. QED
            BY <3>1, <3>2
    <2>3. QED
        BY <2>1, <2>2
<1>6. before = lo
    <2>1. CASE loaded = {}
        BY <1>1, <1>5, <2>1
    <2>2. CASE loaded # {}
        <3>1. lo \in loaded /\ \A m \in loaded : lo <= m
            BY <1>1, <1>5, <2>2
        <3>2. \A n \in loaded : (\A m \in loaded : n <= m) => n = lo
            BY <1>1, <1>5, <3>1
        <3>3. QED
            BY <2>2, <3>1, <3>2
    <2>3. QED
        BY <2>1, <2>2
<1> HIDE DEF before
<1>7. start = MaxOf(Oldest, lo - PageLimit)
    BY <1>6
<1> HIDE DEF start
<1>8. start \in Nat /\ 1 <= start /\ Oldest <= start
      /\ (start > Oldest => start < lo)
    BY <1>1, <1>2, <1>7 DEF MaxOf
<1>9. CASE start < lo
    <2>1. loaded' = start..until
        <3>1. {n \in Oldest..latest : n < before /\ n >= start} = start..(lo - 1)
            BY <1>1, <1>2, <1>6, <1>8
        <3>2. loaded' = (lo..until) \cup (start..(lo - 1))
            BY <1>3, <1>5, <3>1
        <3>3. QED
            BY <1>1, <1>8, <1>9, <3>2
    <2>2. start \in 1..until
        BY <1>1, <1>8, <1>9
    <2>3. LoadedRun'
        BY <1>1, <1>4, <2>1, <2>2 DEF LoadedRun
    <2>4. ~more' => \A n \in Oldest..until : n \in loaded'
        <3>1. SUFFICES ASSUME ~more', NEW n \in Oldest..until PROVE n \in loaded'
            OBVIOUS
        <3>2. ~(start > Oldest)
            BY <1>3, <3>1, Zenon
        <3>3. n \in start..until
            BY <1>1, <1>2, <1>8, <3>2
        <3>4. QED
            BY <2>1, <3>3
    <2>5. Oldest' = Oldest
        BY <1>4 DEF Oldest
    <2>6. QED
        BY <1>4, <2>3, <2>4, <2>5 DEF HistoryWhole
<1>10. CASE ~(start < lo)
    <2>1. start = Oldest /\ lo <= Oldest
        BY <1>1, <1>2, <1>8, <1>10
    <2>2. {n \in Oldest..latest : n < before /\ n >= start} = {}
        BY <1>1, <1>2, <1>6, <2>1
    <2>3. loaded' = lo..until
        BY <1>3, <1>5, <2>2
    <2>4. LoadedRun'
        <3>1. CASE lo = until + 1
            BY <1>1, <1>4, <2>3, <3>1 DEF LoadedRun
        <3>2. CASE lo # until + 1
            <4>1. lo \in 1..until
                BY <1>1, <3>2
            <4>2. QED
                BY <1>1, <1>4, <2>3, <4>1 DEF LoadedRun
        <3>3. QED
            BY <3>1, <3>2
    <2>5. \A n \in Oldest..until : n \in loaded'
        BY <1>1, <1>2, <2>1, <2>3
    <2>6. Oldest' = Oldest
        BY <1>4 DEF Oldest
    <2>7. QED
        BY <1>4, <2>4, <2>5, <2>6 DEF HistoryWhole
<1>11. QED
    BY <1>9, <1>10

LEMMA HistStep == ReplayTypeInv /\ HistInv /\ [Next]_vars => HistInv'
<1> SUFFICES ASSUME ReplayTypeInv, HistInv, [Next]_vars PROVE HistInv'
    OBVIOUS
<1>1. AnswersKnown'
    BY AnswersKnownStep DEF HistInv
<1>2. LoadedRun' /\ HistoryWhole'
    <2>1. CASE LoadHistory
        BY <2>1, LoadHistoryStep
    <2>2. CASE ReceiveAttachAck
        <3>1. until' = Head(wire).latest /\ loaded' = {} /\ more' = TRUE /\ latest' = latest
              /\ wire # <<>> /\ Head(wire).kind # "event"
            BY <2>2 DEF ReceiveAttachAck
        <3>2. until' <= latest
            BY <3>1, KnownTail, TypeInvHostType DEF HistInv, AnswersKnown, HostType
        <3>3. QED
            BY <3>1, <3>2 DEF LoadedRun, HistoryWhole
    <2>3. CASE AppendEvent
        <3>1. latest' = latest + 1 /\ UNCHANGED viewVars
            BY <2>3 DEF AppendEvent
        <3>2. latest \in Nat \ {0} /\ until \in Nat /\ until <= latest
            BY DEF ReplayTypeInv, TypeOK, HistInv, LoadedRun
        <3>3. Oldest \in Nat /\ Oldest' \in Nat /\ Oldest <= Oldest'
            BY <3>1, <3>2, ReplayAssumption DEF Oldest, MaxOf
        <3>4. LoadedRun'
            BY <3>1, <3>2 DEF HistInv, LoadedRun, viewVars
        <3>5. HistoryWhole'
            BY <3>1, <3>2, <3>3 DEF HistInv, HistoryWhole, viewVars
        <3>6. QED
            BY <3>4, <3>5
    <2>4. CASE UNCHANGED <<latest, viewVars>>
        BY <2>4 DEF viewVars, HistInv, LoadedRun, HistoryWhole, Oldest
    <2>5. LoadHistory \/ ReceiveAttachAck \/ AppendEvent \/ UNCHANGED <<latest, viewVars>>
        BY DEF Next, Host, Receive, DispatchAttach, DispatchSubscribe, Poll, Drain, Write,
               WriteBlocked, SendAttach, ReceiveEvent, ReceiveReplayAck, ReceiveStaleAck,
               Timeout, Forget, Disconnect, Reconnect, vars
    <2>6. QED
        BY <2>1, <2>2, <2>3, <2>4, <2>5
<1>3. QED
    BY <1>1, <1>2 DEF HistInv

\* Paging back through session.history while other threads append and the
\* journal is trimmed leaves no hole, for every journal limit and page size:
\* once the host promises no older page, the view holds every event the journal
\* retains up to the attach.
THEOREM HistoryIsWhole == Spec => []HistoryWhole
<1>1. Init => HistInv
    <2> SUFFICES ASSUME Init PROVE HistInv
        OBVIOUS
    <2>1. Known(wire, latest) /\ Known(out, latest)
        BY KnownEmpty DEF Init
    <2>2. AnswersKnown
        BY <2>1 DEF Init, AnswersKnown
    <2>3. LoadedRun /\ HistoryWhole
        BY DEF Init, LoadedRun, HistoryWhole
    <2>4. QED
        BY <2>2, <2>3 DEF HistInv
<1>2. HistInv => HistoryWhole
    BY DEF HistInv
<1>3. QED
    BY <1>1, <1>2, ReplayTypeInit, ReplayTypeStep, HistStep, PTL DEF Spec

-----------------------------------------------------------------------------
(* What the client lacks is on its way *)

\* The frames between the connection thread and the client, in order.
Pipe == wire \o out

IsLive(f) == f.kind # "event" /\ f.live

\* Behind position i of q comes event e, or an answer that tells the client of
\* it: the client then knows what it lacks.
Carries(q, i, e) ==
    \E j \in 1..Len(q) : /\ j > i
                         /\ \/ q[j].kind = "event" /\ q[j].seq = e
                            \/ IsLive(q[j]) /\ q[j].latest >= e

\* Event e, or an answer computed after it, is still to come behind position i
\* of the pipe.
Coming(i, e) ==
    \/ Carries(Pipe, i, e)
    \/ \E j \in 1..Len(receiver) : receiver[j] = e
    \/ serving # NoAck
    \/ requests # <<>>

Covered(i, n) == \A e \in (n + 1)..latest : e \in missed \/ Coming(i, e)

CursorCovered == link = "up" /\ attached => Covered(0, cursor)

\* An answer moves the cursor no further than what comes behind it goes on from.
AnswersCover == \A i \in 1..Len(Pipe) : IsLive(Pipe[i]) => Covered(i, Pipe[i].latest)

\* A client that defers events because of an attach gets the answer to it.
AttachPending ==
    awaiting => \/ \E i \in 1..Len(requests) : requests[i].kind = "attach"
                \/ serving # NoAck /\ serving.kind = "attach"
                \/ \E i \in 1..Len(Pipe) : IsLive(Pipe[i]) /\ Pipe[i].kind = "attach"

WaitedFor ==
    /\ serving # NoAck => serving.live = TRUE
    /\ \A i \in 1..Len(requests) : requests[i].live = TRUE

InSync == CursorCovered /\ AnswersCover /\ AttachPending /\ WaitedFor

SyncInv == ~forgot => InSync

\* A connection that holds no receiver has sent nothing, and was asked to when
\* the client is attached; one that is down holds nothing.
SubscriptionFirst ==
    ~subscribed => /\ wire = <<>> /\ out = <<>> /\ receiver = <<>>
                   /\ link = "up" /\ attached => serving # NoAck \/ requests # <<>>

DownIsEmpty ==
    link = "down" => /\ wire = <<>> /\ out = <<>> /\ receiver = <<>> /\ requests = <<>>
                     /\ serving = NoAck /\ subscribed = FALSE /\ awaiting = FALSE

LinkInv == SubscriptionFirst /\ DownIsEmpty

LEMMA EmptyConcat ==
    \A S : \A s, t \in Seq(S) : s \o t = <<>> => Len(s) = 0 /\ Len(t) = 0
<1> SUFFICES ASSUME NEW S, NEW s \in Seq(S), NEW t \in Seq(S), s \o t = <<>>
             PROVE  Len(s) = 0 /\ Len(t) = 0
    OBVIOUS
<1>1. Len(s \o t) = Len(s) + Len(t) /\ Len(s) \in Nat /\ Len(t) \in Nat
    OBVIOUS
<1>2. Len(s \o t) = 0
    OBVIOUS
<1>3. QED
    BY <1>1, <1>2

\* A replay that is not asked for again is one the client still waits for.
LEMMA AsksAgain ==
    ASSUME HostType, NEW n \in Nat, n > 0, RequestReplays(n) = <<>>, serving = NoAck
    PROVE  \/ \E i \in 1..Len(out) : IsLive(out[i])
           \/ \E i \in 2..Len(wire) : IsLive(wire[i])
<1> SUFFICES ASSUME ~(\E i \in 1..Len(out) : IsLive(out[i])),
                    ~(\E i \in 2..Len(wire) : IsLive(wire[i]))
             PROVE  FALSE
    OBVIOUS
<1> DEFINE Live(q, k) == {i \in k..Len(q) : q[i].kind # "event" /\ q[i].live}
<1>1. Live(out, 1) = {} /\ Live(wire, 2) = {}
    BY DEF IsLive
<1>2. AnswersBehind = Cardinality(Live(out, 1)) + Cardinality(Live(wire, 2))
                      + (IF serving = NoAck THEN 0 ELSE 1)
    BY DEF AnswersBehind
<1> HIDE DEF Live
<1>3. AnswersBehind = 0
    <2>1. Cardinality(Live(out, 1)) = 0 /\ Cardinality(Live(wire, 2)) = 0
        BY <1>1, FS_EmptySet
    <2>2. QED
        BY <1>2, <2>1
<1> DEFINE m == MinOf(n, Room)
<1>4. m \in Nat /\ RequestReplays(n) = requests \o Asked(m)
    BY RequestReplaysIs
<1>5. requests \in Seq(Request) /\ Asked(m) \in Seq(Request) /\ Len(Asked(m)) = m
    BY <1>4, AskedType DEF HostType
<1> HIDE DEF m
<1>6. requests \o Asked(m) = <<>>
    BY <1>4, Zenon
<1>7. Len(requests) = 0 /\ m = 0
    <2>1. Len(requests) = 0 /\ Len(Asked(m)) = 0
        BY <1>5, <1>6, EmptyConcat, Zenon
    <2>2. QED
        BY <1>5, <2>1, Zenon
<1>8. QED
    BY <1>3, <1>7, ReplayAssumption DEF m, MinOf, MaxOf, Room

-----------------------------------------------------------------------------
(* How the pipe changes *)

LEMMA PipeType == HostType => Pipe \in Seq(Frame) /\ Len(Pipe) \in Nat
BY ConcatProperties DEF HostType, Pipe

\* p is q without its first frame.
Shifted(q, p) ==
    /\ Len(q) \in Nat \ {0} /\ Len(p) = Len(q) - 1
    /\ \A i \in 1..Len(p) : p[i] = q[i + 1]

\* p is q with frame k there a second time, no longer waited for.
Doubled(q, p, k) ==
    /\ Len(q) \in Nat /\ Len(p) = Len(q) + 1 /\ k \in 1..Len(q)
    /\ \A i \in 1..k : p[i] = q[i]
    /\ p[k + 1] = Stale(q[k])
    /\ \A i \in (k + 1)..Len(q) : p[i + 1] = q[i]

LEMMA PipeReceived ==
    ASSUME HostType, wire # <<>>, wire' = Tail(wire), out' = out
    PROVE  Shifted(Pipe, Pipe') /\ Pipe[1] = Head(wire)
<1>1. out \in Seq(Frame) /\ wire \in Seq(Frame)
    BY DEF HostType
<1>2. /\ Tail(wire) \in Seq(Frame) /\ Len(wire) \in Nat \ {0}
      /\ Len(Tail(wire)) = Len(wire) - 1
      /\ \A i \in 1..Len(Tail(wire)) : Tail(wire)[i] = wire[i + 1]
      /\ Head(wire) = wire[1]
    BY WireHead
<1>3. /\ Len(wire \o out) = Len(wire) + Len(out)
      /\ \A i \in 1..(Len(wire) + Len(out)) :
            (wire \o out)[i] = IF i <= Len(wire) THEN wire[i] ELSE out[i - Len(wire)]
    BY <1>1, ConcatProperties
<1>4. /\ Len(Tail(wire) \o out) = Len(Tail(wire)) + Len(out)
      /\ \A i \in 1..(Len(Tail(wire)) + Len(out)) :
            (Tail(wire) \o out)[i] = IF i <= Len(Tail(wire)) THEN Tail(wire)[i]
                                                            ELSE out[i - Len(Tail(wire))]
    BY <1>1, <1>2, ConcatProperties
<1>5. Len(out) \in Nat
    BY <1>1
<1>6. Pipe = wire \o out /\ Pipe' = Tail(wire) \o out
    BY DEF Pipe
<1>7. Len(Pipe) \in Nat \ {0} /\ Len(Pipe') = Len(Pipe) - 1
    BY <1>2, <1>3, <1>4, <1>5, <1>6
<1>8. ASSUME NEW i \in 1..Len(Pipe') PROVE Pipe'[i] = Pipe[i + 1]
    <2>1. CASE i <= Len(wire) - 1
        BY <1>2, <1>3, <1>4, <1>5, <1>6, <1>7, <2>1
    <2>2. CASE ~(i <= Len(wire) - 1)
        <3>1. i - Len(Tail(wire)) = (i + 1) - Len(wire)
            BY <1>2, <1>7
        <3>2. Pipe'[i] = out[i - Len(Tail(wire))]
            BY <1>2, <1>4, <1>5, <1>6, <1>7, <2>2
        <3>3. Pipe[i + 1] = out[(i + 1) - Len(wire)]
            BY <1>2, <1>3, <1>5, <1>6, <1>7, <2>2
        <3>4. QED
            BY <3>1, <3>2, <3>3
    <2>3. QED
        BY <2>1, <2>2
<1>9. Pipe[1] = Head(wire)
    BY <1>2, <1>3, <1>5, <1>6
<1>10. QED
    BY <1>7, <1>8, <1>9 DEF Shifted

LEMMA ConcatFrames ==
    ASSUME NEW q \in Seq(Frame), NEW p \in Seq(Frame)
    PROVE  /\ q \o p \in Seq(Frame)
           /\ Len(q \o p) = Len(q) + Len(p)
           /\ \A i \in 1..Len(q) : (q \o p)[i] = q[i]
           /\ \A i \in 1..Len(p) : (q \o p)[Len(q) + i] = p[i]
<1>1. Len(q) \in Nat /\ Len(p) \in Nat
    OBVIOUS
<1>2. /\ q \o p \in Seq(Frame)
      /\ Len(q \o p) = Len(q) + Len(p)
      /\ \A i \in 1..(Len(q) + Len(p)) :
            (q \o p)[i] = IF i <= Len(q) THEN q[i] ELSE p[i - Len(q)]
    BY ConcatProperties
<1>3. ASSUME NEW i \in 1..Len(p) PROVE (q \o p)[Len(q) + i] = p[i]
    <2>1. /\ Len(q) + i \in 1..(Len(q) + Len(p)) /\ ~(Len(q) + i <= Len(q))
          /\ (Len(q) + i) - Len(q) = i
        BY <1>1
    <2>2. QED
        BY <1>2, <2>1
<1>4. \A i \in 1..Len(q) : (q \o p)[i] = q[i]
    BY <1>1, <1>2
<1>5. QED
    BY <1>2, <1>3, <1>4

LEMMA ConcatFramesAssoc ==
    ASSUME NEW x \in Seq(Frame), NEW y \in Seq(Frame), NEW z \in Seq(Frame)
    PROVE  (x \o y) \o z = x \o (y \o z)
BY ConcatAssociative

LEMMA DoubledLast ==
    ASSUME NEW x \in Seq(Frame), NEW c \in Seq(Frame), NEW f \in Frame,
           Len(x) > 0, f = Stale(x[Len(x)])
    PROVE  Doubled(x \o c, x \o (<<f>> \o c), Len(x))
<1> DEFINE b == <<f>>
           d == b \o c
<1>1. b \in Seq(Frame) /\ Len(b) = 1 /\ b[1] = f
    OBVIOUS
<1>2. Len(x) \in Nat /\ Len(c) \in Nat
    OBVIOUS
<1> HIDE DEF b
<1>3. /\ d \in Seq(Frame) /\ Len(d) = 1 + Len(c) /\ d[1] = f
      /\ \A i \in 1..Len(c) : d[1 + i] = c[i]
    <2>1. /\ d \in Seq(Frame) /\ Len(d) = Len(b) + Len(c)
          /\ \A i \in 1..Len(b) : d[i] = b[i]
          /\ \A i \in 1..Len(c) : d[Len(b) + i] = c[i]
        BY <1>1, ConcatFrames, Zenon
    <2> HIDE DEF d
    <2>2. QED
        BY <1>1, <1>2, <2>1
<1> HIDE DEF d
<1>4. /\ Len(x \o c) = Len(x) + Len(c)
      /\ \A i \in 1..Len(x) : (x \o c)[i] = x[i]
      /\ \A i \in 1..Len(c) : (x \o c)[Len(x) + i] = c[i]
    BY ConcatFrames
<1>5. /\ Len(x \o d) = Len(x) + 1 + Len(c)
      /\ \A i \in 1..Len(x) : (x \o d)[i] = x[i]
      /\ \A i \in 1..Len(d) : (x \o d)[Len(x) + i] = d[i]
    <2>1. /\ Len(x \o d) = Len(x) + Len(d)
          /\ \A i \in 1..Len(x) : (x \o d)[i] = x[i]
          /\ \A i \in 1..Len(d) : (x \o d)[Len(x) + i] = d[i]
        BY <1>3, ConcatFrames, Zenon
    <2>2. QED
        BY <1>2, <1>3, <2>1
<1>6. (x \o d)[Len(x) + 1] = Stale((x \o c)[Len(x)])
    BY <1>2, <1>3, <1>4, <1>5
<1>7. ASSUME NEW i \in (Len(x) + 1)..(Len(x) + Len(c))
      PROVE  (x \o d)[i + 1] = (x \o c)[i]
    <2> DEFINE j == i - Len(x)
    <2>1. j \in 1..Len(c) /\ i = Len(x) + j /\ i + 1 = Len(x) + (1 + j) /\ 1 + j \in 1..Len(d)
        BY <1>2, <1>3
    <2> HIDE DEF j
    <2>2. (x \o d)[Len(x) + (1 + j)] = d[1 + j]
        BY <1>5, <2>1
    <2>3. d[1 + j] = c[j] /\ (x \o c)[Len(x) + j] = c[j]
        BY <1>3, <1>4, <2>1
    <2>4. QED
        BY <2>1, <2>2, <2>3
<1>8. Doubled(x \o c, x \o d, Len(x))
    BY <1>2, <1>4, <1>5, <1>6, <1>7 DEF Doubled
<1>9. QED
    BY <1>8 DEF b, d

LEMMA PipeBlocked ==
    ASSUME HostType, NEW k \in DOMAIN out, WriteBlocked(k)
    PROVE  Pipe' = Pipe \/ \E p \in 1..Len(Pipe) : Doubled(Pipe, Pipe', p)
<1>1. /\ out \in Seq(Frame) /\ wire \in Seq(Frame)
      /\ k \in 1..Len(out) /\ Len(out) \in Nat /\ Len(wire) \in Nat
    BY DEF HostType
<1>2. CASE /\ wire' = wire \o SubSeq(out, 1, k - 1)
           /\ out' = SubSeq(out, k, Len(out))
    <2> DEFINE a == SubSeq(out, 1, k - 1)
               c == SubSeq(out, k, Len(out))
    <2>1. a \in Seq(Frame) /\ c \in Seq(Frame)
        BY <1>1
    <2>2. a \o c = out
        <3>1. SubSeq(out, 1, Len(out)) = out
            BY <1>1, SubSeqFull
        <3>2. /\ 1 \in 1..(Len(out) + 1) /\ k - 1 \in (1 - 1)..Len(out)
              /\ Len(out) \in (k - 1)..Len(out) /\ (k - 1) + 1 = k
            BY <1>1
        <3>3. SubSeq(out, 1, k - 1) \o SubSeq(out, (k - 1) + 1, Len(out))
              = SubSeq(out, 1, Len(out))
            BY <1>1, <3>2, ConcatAdjacentSubSeq
        <3>4. QED
            BY <3>1, <3>2, <3>3
    <2> HIDE DEF a, c
    <2>3. (wire \o a) \o c = wire \o out
        <3>1. (wire \o a) \o c = wire \o (a \o c)
            BY <1>1, <2>1, ConcatFramesAssoc
        <3>2. QED
            BY <2>2, <3>1, Zenon
    <2>4. QED
        BY <1>2, <2>3 DEF Pipe, a, c
<1>3. CASE /\ wire' = wire \o SubSeq(out, 1, k)
           /\ out' = <<Stale(out[k])>> \o SubSeq(out, k + 1, Len(out))
    <2> DEFINE a == SubSeq(out, 1, k)
               c == SubSeq(out, k + 1, Len(out))
               x == wire \o a
    <2>1. a \in Seq(Frame) /\ c \in Seq(Frame) /\ Len(a) = k /\ a[k] = out[k]
        BY <1>1
    <2>2. a \o c = out
        <3>1. SubSeq(out, 1, Len(out)) = out
            BY <1>1, SubSeqFull
        <3>2. 1 \in 1..(Len(out) + 1) /\ k \in (1 - 1)..Len(out) /\ Len(out) \in k..Len(out)
            BY <1>1
        <3>3. QED
            BY <1>1, <3>1, <3>2, ConcatAdjacentSubSeq
    <2>3. out[k] \in Frame
        BY <1>1, ElementOfSeq
    <2>4. Stale(out[k]) \in Frame
        BY <2>3, StaleFacts
    <2> HIDE DEF a, c
    <2>5. x \in Seq(Frame) /\ Len(x) = Len(wire) + k /\ x[Len(x)] = out[k]
        BY <1>1, <2>1, ConcatFrames
    <2>6. Pipe = x \o c
        <3>1. (wire \o a) \o c = wire \o (a \o c)
            BY <1>1, <2>1, ConcatFramesAssoc
        <3>2. QED
            BY <2>2, <3>1, Zenon DEF Pipe
    <2>7. Pipe' = x \o (<<Stale(out[k])>> \o c)
        BY <1>3 DEF Pipe, a, c
    <2> HIDE DEF x
    <2>8. Doubled(Pipe, Pipe', Len(x))
        <3>1. Len(x) > 0
            BY <1>1, <2>5
        <3>2. Stale(out[k]) = Stale(x[Len(x)])
            BY <2>5
        <3>3. Doubled(x \o c, x \o (<<Stale(out[k])>> \o c), Len(x))
            BY <2>1, <2>4, <2>5, <3>1, <3>2, DoubledLast
        <3>4. QED
            BY <2>6, <2>7, <3>3, Zenon
    <2>9. Len(x) \in 1..Len(Pipe)
        BY <2>8 DEF Doubled
    <2>10. QED
        BY <2>8, <2>9
<1>4. QED
    BY <1>2, <1>3 DEF WriteBlocked

-----------------------------------------------------------------------------
(* What a change of the pipe carries on *)

LEMMA CarriesShifted ==
    ASSUME NEW q, NEW p, Shifted(q, p), NEW i \in Nat, i > 0, NEW e, Carries(q, i, e)
    PROVE  Carries(p, i - 1, e)
<1>1. PICK j \in 1..Len(q) : /\ j > i
                             /\ \/ q[j].kind = "event" /\ q[j].seq = e
                                \/ IsLive(q[j]) /\ q[j].latest >= e
    BY DEF Carries
<1>2. Len(q) \in Nat \ {0} /\ Len(p) = Len(q) - 1
    BY DEF Shifted
<1>3. j - 1 \in 1..Len(p) /\ j - 1 > i - 1 /\ (j - 1) + 1 = j
    BY <1>1, <1>2
<1>4. p[j - 1] = q[j]
    BY <1>3 DEF Shifted
<1>5. QED
    BY <1>1, <1>3, <1>4 DEF Carries

LEMMA CarriesFurther ==
    ASSUME NEW q, NEW i \in Nat, NEW k \in Nat, k <= i, NEW e, Carries(q, i, e)
    PROVE  Carries(q, k, e)
<1>1. PICK j \in 1..Len(q) : /\ j > i
                             /\ \/ q[j].kind = "event" /\ q[j].seq = e
                                \/ IsLive(q[j]) /\ q[j].latest >= e
    BY DEF Carries
<1>2. j > k
    BY <1>1
<1>3. QED
    BY <1>1, <1>2 DEF Carries

\* What is carried behind nothing is carried by the first frame or behind it.
LEMMA CarriesFirst ==
    ASSUME NEW q, NEW e, Carries(q, 0, e),
           ~(q[1].kind = "event" /\ q[1].seq = e), ~(IsLive(q[1]) /\ q[1].latest >= e)
    PROVE  Carries(q, 1, e)
<1>1. PICK j \in 1..Len(q) : \/ q[j].kind = "event" /\ q[j].seq = e
                             \/ IsLive(q[j]) /\ q[j].latest >= e
    BY DEF Carries
<1>2. j # 1
    BY <1>1
<1>3. j > 1
    BY <1>2
<1>4. QED
    BY <1>1, <1>3 DEF Carries

LEMMA CarriesConcat ==
    ASSUME NEW q \in Seq(Frame), NEW p \in Seq(Frame), NEW i, NEW e, Carries(q, i, e)
    PROVE  Carries(q \o p, i, e)
<1>1. PICK j \in 1..Len(q) : /\ j > i
                             /\ \/ q[j].kind = "event" /\ q[j].seq = e
                                \/ IsLive(q[j]) /\ q[j].latest >= e
    BY DEF Carries
<1>2. (q \o p)[j] = q[j] /\ Len(q \o p) = Len(q) + Len(p)
    BY ConcatFrames
<1>3. j \in 1..Len(q \o p)
    BY <1>2
<1> DEFINE s == q \o p
<1>4. s[j] = q[j] /\ j \in 1..Len(s)
    BY <1>2, <1>3
<1> HIDE DEF s
<1>5. Carries(s, i, e)
    BY <1>1, <1>4 DEF Carries
<1>6. QED
    BY <1>5 DEF s

LEMMA CarriesBehind ==
    ASSUME NEW q \in Seq(Frame), NEW p \in Seq(Frame), NEW i \in 0..Len(q), NEW e,
           NEW j \in 1..Len(p),
           \/ p[j].kind = "event" /\ p[j].seq = e
           \/ IsLive(p[j]) /\ p[j].latest >= e
    PROVE  Carries(q \o p, i, e)
<1> DEFINE s == q \o p
           k == Len(q) + j
<1>1. Len(q) \in Nat /\ Len(p) \in Nat
    OBVIOUS
<1>2. s[k] = p[j] /\ Len(s) = Len(q) + Len(p)
    BY ConcatFrames
<1>3. k \in 1..Len(s) /\ k > i
    BY <1>1, <1>2
<1> HIDE DEF s, k
<1>4. Carries(s, i, e)
    BY <1>2, <1>3 DEF Carries
<1>5. QED
    BY <1>4 DEF s

\* The place of frame i after frame k is doubled.
Moved(i, k) == IF i <= k THEN i ELSE i + 1

LEMMA CarriesDoubled ==
    ASSUME NEW q, NEW p, NEW k, Doubled(q, p, k), NEW i \in 0..Len(q), NEW e, Carries(q, i, e)
    PROVE  Carries(p, Moved(i, k), e)
<1>1. PICK j \in 1..Len(q) : /\ j > i
                             /\ \/ q[j].kind = "event" /\ q[j].seq = e
                                \/ IsLive(q[j]) /\ q[j].latest >= e
    BY DEF Carries
<1>2. Len(q) \in Nat /\ Len(p) = Len(q) + 1 /\ k \in 1..Len(q)
    BY DEF Doubled
<1>3. Moved(j, k) \in 1..Len(p) /\ Moved(j, k) > Moved(i, k)
    BY <1>1, <1>2 DEF Moved
<1>4. p[Moved(j, k)] = q[j]
    <2>1. CASE j <= k
        BY <1>2, <2>1 DEF Moved, Doubled
    <2>2. CASE ~(j <= k)
        <3>1. j \in (k + 1)..Len(q)
            BY <1>2, <2>2
        <3>2. QED
            BY <2>2, <3>1 DEF Moved, Doubled
    <2>3. QED
        BY <2>1, <2>2
<1>5. QED
    BY <1>1, <1>3, <1>4 DEF Carries

\* A frame of the doubled pipe that is waited for was in the pipe before.
LEMMA DoubledLive ==
    ASSUME NEW q \in Seq(Frame), NEW p, NEW k, Doubled(q, p, k),
           NEW i \in 1..Len(p), IsLive(p[i])
    PROVE  \E j \in 1..Len(q) : i = Moved(j, k) /\ p[i] = q[j]
<1>1. Len(q) \in Nat /\ Len(p) = Len(q) + 1 /\ k \in 1..Len(q)
    BY DEF Doubled
<1>2. i # k + 1
    <2>1. SUFFICES ASSUME i = k + 1 PROVE FALSE
        OBVIOUS
    <2>2. p[i] = Stale(q[k]) /\ q[k] \in Frame
        BY <1>1, <2>1, ElementOfSeq DEF Doubled
    <2>3. ~IsLive(Stale(q[k]))
        BY <2>2, StaleFacts DEF IsLive
    <2>4. QED
        BY <2>2, <2>3
<1>3. CASE i <= k
    BY <1>1, <1>3 DEF Doubled, Moved
<1>4. CASE i > k + 1
    <2>1. i - 1 \in (k + 1)..Len(q) /\ (i - 1) + 1 = i
        BY <1>1, <1>4
    <2>2. p[i] = q[i - 1]
        BY <2>1 DEF Doubled
    <2>3. i = Moved(i - 1, k) /\ i - 1 \in 1..Len(q)
        BY <1>1, <1>4, <2>1 DEF Moved
    <2>4. QED
        BY <2>2, <2>3
<1>5. QED
    BY <1>1, <1>2, <1>3, <1>4

LEMMA DoubledHas ==
    ASSUME NEW q, NEW p, NEW k, Doubled(q, p, k), NEW j \in 1..Len(q)
    PROVE  Moved(j, k) \in 1..Len(p) /\ p[Moved(j, k)] = q[j]
<1>1. Len(q) \in Nat /\ Len(p) = Len(q) + 1 /\ k \in 1..Len(q)
    BY DEF Doubled
<1>2. CASE j <= k
    BY <1>1, <1>2 DEF Moved, Doubled
<1>3. CASE ~(j <= k)
    <2>1. j \in (k + 1)..Len(q)
        BY <1>1, <1>3
    <2>2. QED
        BY <1>1, <1>3, <2>1 DEF Moved, Doubled
<1>4. QED
    BY <1>2, <1>3

-----------------------------------------------------------------------------
(* The subscription comes first *)

\* After a reconnect the client asks for a replay: nothing it could wait for
\* instead is left.
LEMMA ReconnectAsks ==
    ASSUME ReplayTypeInv, LinkInv, Reconnect, attached
    PROVE  requests' # <<>>
<1>1. requests' = RequestReplays(1)
    BY DEF Reconnect
<1>2. wire = <<>> /\ out = <<>> /\ serving = NoAck
    BY DEF Reconnect, LinkInv, DownIsEmpty
<1>3. Len(out) = 0 /\ Len(wire) = 0
    BY <1>2, EmptySeq
<1>4. ~(\E i \in 1..Len(out) : IsLive(out[i])) /\ ~(\E i \in 2..Len(wire) : IsLive(wire[i]))
    BY <1>3
<1>5. HostType /\ 1 \in Nat /\ 1 > 0
    BY TypeInvHostType
<1>6. RequestReplays(1) # <<>>
    BY <1>2, <1>4, <1>5, AsksAgain
<1>7. QED
    BY <1>1, <1>6

LEMMA LinkStep == ReplayTypeInv /\ LinkInv /\ [Next]_vars => LinkInv'
<1> SUFFICES ASSUME ReplayTypeInv, LinkInv, [Next]_vars PROVE LinkInv'
    OBVIOUS
<1>0. subscribed \in BOOLEAN /\ link \in {"up", "down"}
    BY DEF ReplayTypeInv, TypeOK
<1>1. CASE AppendEvent
    <2>1. link = "down" => subscribed = FALSE
        BY DEF LinkInv, DownIsEmpty
    <2>2. QED
        BY <1>0, <1>1, <2>1
        DEF AppendEvent, LinkInv, SubscriptionFirst, DownIsEmpty, cursorVars
<1>2. CASE DispatchAttach
    <2>1. Head(requests) \in Request /\ latest \in Nat \ {0}
        BY <1>2 DEF DispatchAttach, ReplayTypeInv, TypeOK
    <2>2. serving' # NoAck
        BY <1>2, <2>1, AttachResultType, AckIsNotNone DEF DispatchAttach
    <2>3. link' = "up" /\ UNCHANGED <<subscribed, wire, out, receiver>>
        BY <1>2 DEF DispatchAttach
    <2>4. QED
        BY <2>2, <2>3 DEF LinkInv, SubscriptionFirst, DownIsEmpty
<1>3. CASE DispatchSubscribe
    <2>1. subscribed' = TRUE /\ link' = "up"
        BY <1>3 DEF DispatchSubscribe
    <2>2. QED
        BY <2>1 DEF LinkInv, SubscriptionFirst, DownIsEmpty
<1>4. CASE Poll
    BY <1>4 DEF Poll, LinkInv, SubscriptionFirst, DownIsEmpty, cursorVars
<1>5. CASE Drain
    <2>1. link' = "up" /\ receiver' = <<>>
          /\ UNCHANGED <<link, serving, subscribed, requests, wire, attached>>
        BY <1>5 DEF Drain, cursorVars
    <2>2. receiver = <<>> /\ out = <<>> => out' = <<>>
        <3>1. SUFFICES ASSUME receiver = <<>>, out = <<>> PROVE out' = <<>>
            OBVIOUS
        <3>2. EventFrames(<<>>) \in Seq(Frame) /\ Len(EventFrames(<<>>)) = 0
            BY EmptySeq, EventFramesType
        <3>3. EventFrames(<<>>) = <<>>
            BY <3>2, EmptySeq
        <3>4. out' = <<>> \o <<>>
            BY <1>5, <3>1, <3>3 DEF Drain
        <3>5. QED
            BY <3>4
    <2>3. QED
        BY <2>1, <2>2 DEF LinkInv, SubscriptionFirst, DownIsEmpty
<1>6. CASE Write
    <2>1. link' = "up" /\ out' = <<>>
          /\ UNCHANGED <<link, serving, subscribed, requests, receiver, attached>>
        BY <1>6 DEF Write, cursorVars
    <2>2. wire = <<>> /\ out = <<>> => wire' = <<>>
        BY <1>6 DEF Write
    <2>3. QED
        BY <2>1, <2>2 DEF LinkInv, SubscriptionFirst, DownIsEmpty
<1>7. ASSUME NEW k \in DOMAIN out, WriteBlocked(k) PROVE LinkInv'
    <2>1. out # <<>>
        BY EmptySeq
    <2>2. subscribed = TRUE /\ link = "up"
        BY <1>0, <2>1 DEF LinkInv, SubscriptionFirst, DownIsEmpty
    <2>3. subscribed' = TRUE /\ link' = "up"
        BY <1>7, <2>2 DEF WriteBlocked
    <2>4. QED
        BY <2>3 DEF LinkInv, SubscriptionFirst, DownIsEmpty
<1>8. CASE Receive
    <2>1. wire # <<>> /\ UNCHANGED <<link, subscribed>>
        BY <1>8
        DEF Receive, ReceiveEvent, ReceiveAttachAck, ReceiveReplayAck, ReceiveStaleAck, hostVars
    <2>2. subscribed = TRUE /\ link = "up"
        BY <1>0, <2>1 DEF LinkInv, SubscriptionFirst, DownIsEmpty
    <2>3. QED
        BY <2>1, <2>2 DEF LinkInv, SubscriptionFirst, DownIsEmpty
<1>9. CASE SendAttach
    <2>1. requests' # <<>>
        <3>1. requests \in Seq(Request)
            BY DEF ReplayTypeInv, TypeOK
        <3>2. QED
            BY <1>9, <3>1 DEF SendAttach
    <2>2. link' = "up" /\ UNCHANGED <<wire, out, receiver, subscribed>>
        BY <1>9 DEF SendAttach, hostVars
    <2>3. QED
        BY <2>1, <2>2 DEF LinkInv, SubscriptionFirst, DownIsEmpty
<1>10. CASE LoadHistory
    BY <1>10 DEF LoadHistory, LinkInv, SubscriptionFirst, DownIsEmpty, hostVars, cursorVars
<1>11. CASE Timeout
    <2>1. UNCHANGED <<link, subscribed, receiver, attached>>
        BY <1>11 DEF Timeout, Forget
    <2>2. ASSUME NEW i \in DOMAIN requests, requests' = [requests EXCEPT ![i].live = FALSE],
                 UNCHANGED <<serving, out, wire>>
          PROVE  LinkInv'
        <3>1. requests # <<>> /\ requests' # <<>>
            BY <2>2, EmptySeq
        <3>2. link = "up"
            BY <1>0, <3>1 DEF LinkInv, DownIsEmpty
        <3>3. QED
            BY <2>1, <2>2, <3>1, <3>2 DEF LinkInv, SubscriptionFirst, DownIsEmpty
    <2>3. ASSUME serving # NoAck, serving' = [serving EXCEPT !.live = FALSE],
                 UNCHANGED <<requests, out, wire>>
          PROVE  LinkInv'
        <3>1. serving \in Ack
            BY <2>3 DEF ReplayTypeInv, TypeOK
        <3>2. serving' \in Ack
            BY <2>3, <3>1 DEF Ack
        <3>3. serving' # NoAck
            BY <3>2, AckIsNotNone
        <3>4. link = "up"
            BY <1>0, <2>3 DEF LinkInv, DownIsEmpty
        <3>5. QED
            BY <2>1, <2>3, <3>3, <3>4 DEF LinkInv, SubscriptionFirst, DownIsEmpty
    <2>4. ASSUME NEW i \in DOMAIN wire
          PROVE  LinkInv'
        <3>1. wire # <<>>
            BY EmptySeq
        <3>2. subscribed = TRUE /\ link = "up"
            BY <1>0, <3>1 DEF LinkInv, SubscriptionFirst, DownIsEmpty
        <3>3. QED
            BY <2>1, <3>2 DEF LinkInv, SubscriptionFirst, DownIsEmpty
    <2>5. QED
        BY <1>11, <2>2, <2>3, <2>4 DEF Timeout
<1>12. CASE Disconnect
    BY <1>12 DEF Disconnect, LinkInv, SubscriptionFirst, DownIsEmpty
<1>13. CASE Reconnect
    <2>1. link' = "up" /\ UNCHANGED <<wire, out, receiver, serving, subscribed, attached>>
        BY <1>13 DEF Reconnect, hostVars, cursorVars
    <2>2. attached => requests' # <<>>
        BY <1>13, ReconnectAsks
    <2>3. QED
        BY <2>1, <2>2 DEF LinkInv, SubscriptionFirst, DownIsEmpty
<1>14. CASE UNCHANGED vars
    BY <1>14 DEF vars, hostVars, cursorVars, LinkInv, SubscriptionFirst, DownIsEmpty
<1>15. QED
    BY <1>1, <1>2, <1>3, <1>4, <1>5, <1>6, <1>7, <1>8, <1>9, <1>10, <1>11, <1>12, <1>13, <1>14
    DEF Next, Host

-----------------------------------------------------------------------------
(* Receiving a frame *)

\* While an answer is awaited anything may still be told.
LEMMA AskedCovers ==
    (serving' # NoAck \/ requests' # <<>>) => CursorCovered' /\ AnswersCover'
BY DEF CursorCovered, AnswersCover, Covered, Coming

\* What every handler of the client does: it takes the first frame off the wire
\* and never takes back a request.
Receives ==
    /\ wire # <<>> /\ wire' = Tail(wire)
    /\ UNCHANGED <<latest, link, out, serving, receiver, missed, forgot>>
    /\ \E k \in Nat : requests' = RequestReplays(k)

LEMMA ReceivesRequests ==
    ASSUME HostType, Receives
    PROVE  /\ requests # <<>> => requests' # <<>>
           /\ \A i \in 1..Len(requests) : i \in 1..Len(requests') /\ requests'[i] = requests[i]
           /\ \A i \in 1..Len(requests') : i > Len(requests) => requests'[i].live = TRUE
<1>1. PICK k \in Nat : requests' = RequestReplays(k)
    BY DEF Receives
<1>2. requests \in Seq(Request) /\ Len(requests) \in Nat
    BY DEF HostType
<1>3. /\ requests' \in Seq(Request)
      /\ Len(requests') >= Len(requests)
      /\ \A i \in 1..Len(requests) : requests'[i] = requests[i]
      /\ \A i \in 1..Len(requests') : i > Len(requests) => requests'[i].live = TRUE
    BY <1>1, RequestReplaysType
<1>4. Len(requests') \in Nat
    BY <1>3
<1>5. \A i \in 1..Len(requests) : i \in 1..Len(requests')
    BY <1>2, <1>3, <1>4
<1>6. requests # <<>> => requests' # <<>>
    <2>1. SUFFICES ASSUME requests # <<>>, requests' = <<>> PROVE FALSE
        OBVIOUS
    <2>2. Len(requests) # 0
        BY <1>2, <2>1, EmptySeq
    <2>3. Len(requests') = 0
        BY <2>1, EmptySeq
    <2>4. QED
        BY <1>2, <1>3, <2>2, <2>3
<1>7. QED
    BY <1>3, <1>5, <1>6

LEMMA ReceivesComing ==
    ASSUME HostType, Receives, NEW i \in Nat, i > 0, NEW e, e \in missed \/ Coming(i, e)
    PROVE  e \in missed' \/ Coming(i - 1, e)'
<1>1. UNCHANGED <<receiver, serving, missed, out>> /\ wire # <<>> /\ wire' = Tail(wire)
    BY DEF Receives
<1>2. Shifted(Pipe, Pipe')
    BY <1>1, PipeReceived
<1>3. Carries(Pipe, i, e) => Carries(Pipe', i - 1, e)
    BY <1>2, CarriesShifted
<1>4. requests # <<>> => requests' # <<>>
    BY ReceivesRequests
<1>5. QED
    BY <1>1, <1>3, <1>4 DEF Coming

LEMMA ReceivesAnswers ==
    ASSUME HostType, Receives, AnswersCover
    PROVE  AnswersCover'
<1>1. Shifted(Pipe, Pipe') /\ latest' = latest
    BY PipeReceived DEF Receives
<1>2. ASSUME NEW i \in 1..Len(Pipe'), IsLive(Pipe'[i]) PROVE Covered(i, Pipe[i].latest)'
    <2>1. Len(Pipe) \in Nat /\ Len(Pipe') = Len(Pipe) - 1 /\ Pipe'[i] = Pipe[i + 1]
        BY <1>1 DEF Shifted
    <2>2. i + 1 \in 1..Len(Pipe) /\ i + 1 \in Nat /\ i + 1 > 0 /\ (i + 1) - 1 = i
        BY <2>1
    <2>3. Covered(i + 1, Pipe[i + 1].latest)
        BY <1>2, <2>1, <2>2 DEF AnswersCover
    <2>4. ASSUME NEW e \in (Pipe[i + 1].latest + 1)..latest
          PROVE  e \in missed' \/ Coming(i, e)'
        <3>1. e \in missed \/ Coming(i + 1, e)
            BY <2>3 DEF Covered
        <3>2. PICK k \in Nat : k = i + 1
            BY <2>2
        <3>3. k > 0 /\ k - 1 = i /\ (e \in missed \/ Coming(k, e))
            BY <2>2, <3>1, <3>2
        <3>4. e \in missed' \/ Coming(k - 1, e)'
            BY <3>3, ReceivesComing
        <3>5. QED
            BY <3>3, <3>4
    <2>5. QED
        BY <1>1, <2>1, <2>4 DEF Covered
<1>3. QED
    BY <1>2 DEF AnswersCover

\* An answer that is still to come behind the first frame covers everything.
LEMMA LiveAnswerCovers ==
    ASSUME HostType, AnswersCover, NEW i \in 2..Len(Pipe), IsLive(Pipe[i]),
           NEW e \in Nat, e <= latest
    PROVE  e \in missed \/ Coming(1, e)
<1> DEFINE n == Pipe[i].latest
<1>1. Pipe \in Seq(Frame) /\ Len(Pipe) \in Nat
    BY PipeType
<1>2. i \in 1..Len(Pipe) /\ i > 1 /\ i \in Nat
    BY <1>1
<1>3. n \in Nat
    BY <1>1, <1>2, ElementOfSeq, FrameFacts DEF IsLive
<1>4. CASE e <= n
    <2>1. n >= e
        BY <1>3, <1>4
    <2>2. Carries(Pipe, 1, e)
        BY <1>2, <2>1 DEF Carries
    <2>3. QED
        BY <2>2 DEF Coming
<1>5. CASE ~(e <= n)
    <2>1. e \in (n + 1)..latest
        BY <1>3, <1>5 DEF HostType
    <2>2. Covered(i, n)
        BY <1>2 DEF AnswersCover
    <2>3. e \in missed \/ Coming(i, e)
        BY <2>1, <2>2 DEF Covered
    <2>4. Carries(Pipe, i, e) => Carries(Pipe, 1, e)
        BY <1>2, CarriesFurther
    <2>5. QED
        BY <2>3, <2>4 DEF Coming
<1>6. QED
    BY <1>4, <1>5

\* A client that asks for a replay, or would if it were not waiting for one,
\* will be told of everything.
LEMMA AsksCovers ==
    ASSUME HostType, Receives, AnswersCover,
           NEW k \in Nat, k > 0, requests' = RequestReplays(k), NEW e \in Nat, e <= latest
    PROVE  e \in missed' \/ Coming(0, e)'
<1>1. CASE requests' # <<>>
    BY <1>1 DEF Coming
<1>2. CASE serving # NoAck
    BY <1>2 DEF Coming, Receives
<1>3. CASE requests' = <<>> /\ serving = NoAck
    <2>1. \/ \E i \in 1..Len(out) : IsLive(out[i])
          \/ \E i \in 2..Len(wire) : IsLive(wire[i])
        BY <1>3, AsksAgain
    <2>2. /\ wire \in Seq(Frame) /\ out \in Seq(Frame)
          /\ Len(wire) \in Nat \ {0} /\ Len(out) \in Nat
        BY WireHead DEF HostType, Receives
    <2>3. /\ Len(Pipe) = Len(wire) + Len(out)
          /\ \A i \in 1..Len(wire) : Pipe[i] = wire[i]
          /\ \A i \in 1..Len(out) : Pipe[Len(wire) + i] = out[i]
        BY <2>2, ConcatFrames DEF Pipe
    <2>4. PICK i \in 2..Len(Pipe) : IsLive(Pipe[i])
        <3>1. ASSUME NEW i \in 1..Len(out), IsLive(out[i])
              PROVE  \E j \in 2..Len(Pipe) : IsLive(Pipe[j])
            <4>1. Len(wire) + i \in 2..Len(Pipe) /\ Pipe[Len(wire) + i] = out[i]
                BY <2>2, <2>3
            <4>2. QED
                BY <3>1, <4>1
        <3>2. ASSUME NEW i \in 2..Len(wire), IsLive(wire[i])
              PROVE  \E j \in 2..Len(Pipe) : IsLive(Pipe[j])
            <4>1. i \in 2..Len(Pipe) /\ Pipe[i] = wire[i]
                BY <2>2, <2>3
            <4>2. QED
                BY <3>2, <4>1
        <3>3. QED
            BY <2>1, <3>1, <3>2
    <2>5. e \in missed \/ Coming(1, e)
        BY <2>4, LiveAnswerCovers
    <2>6. PICK n \in Nat : n = 1
        OBVIOUS
    <2>7. n > 0 /\ n - 1 = 0 /\ (e \in missed \/ Coming(n, e))
        BY <2>5, <2>6
    <2>8. e \in missed' \/ Coming(n - 1, e)'
        BY <2>7, ReceivesComing
    <2>9. QED
        BY <2>7, <2>8
<1>4. QED
    BY <1>1, <1>2, <1>3

LEMMA ReceivesWaitedFor ==
    ASSUME HostType, Receives, WaitedFor
    PROVE  WaitedFor'
<1>1. serving' = serving
    BY DEF Receives
<1>2. ASSUME NEW i \in 1..Len(requests') PROVE requests'[i].live = TRUE
    <2>1. Len(requests) \in Nat
        BY DEF HostType
    <2>2. CASE i <= Len(requests)
        <3>1. i \in 1..Len(requests)
            BY <2>1, <2>2
        <3>2. QED
            BY <3>1, ReceivesRequests DEF WaitedFor
    <2>3. CASE ~(i <= Len(requests))
        <3>1. i > Len(requests)
            BY <2>1, <2>3
        <3>2. QED
            BY <3>1, ReceivesRequests
    <2>4. QED
        BY <2>2, <2>3
<1>3. QED
    BY <1>1, <1>2 DEF WaitedFor

LEMMA ReceivesPending ==
    ASSUME HostType, Receives, AttachPending, awaiting' = awaiting,
           ~(IsLive(Head(wire)) /\ Head(wire).kind = "attach")
    PROVE  AttachPending'
<1>1. SUFFICES ASSUME awaiting'
               PROVE  \/ \E i \in 1..Len(requests') : requests'[i].kind = "attach"
                      \/ serving' # NoAck /\ serving'.kind = "attach"
                      \/ \E i \in 1..Len(Pipe') : IsLive(Pipe'[i]) /\ Pipe'[i].kind = "attach"
    BY DEF AttachPending
<1>2. awaiting
    BY <1>1, Zenon
<1>3. CASE \E i \in 1..Len(requests) : requests[i].kind = "attach"
    BY <1>3, ReceivesRequests
<1>4. CASE serving # NoAck /\ serving.kind = "attach"
    BY <1>4 DEF Receives
<1>5. ASSUME NEW i \in 1..Len(Pipe), IsLive(Pipe[i]), Pipe[i].kind = "attach"
      PROVE  \E j \in 1..Len(Pipe') : IsLive(Pipe'[j]) /\ Pipe'[j].kind = "attach"
    <2>1. Shifted(Pipe, Pipe') /\ Pipe[1] = Head(wire)
        BY PipeReceived DEF Receives
    <2>2. i # 1
        BY <1>5, <2>1
    <2>3. Len(Pipe) \in Nat /\ Len(Pipe') = Len(Pipe) - 1
        BY <2>1 DEF Shifted
    <2>4. i - 1 \in 1..Len(Pipe') /\ (i - 1) + 1 = i
        BY <2>2, <2>3
    <2>5. Pipe'[i - 1] = Pipe[i]
        BY <2>1, <2>4 DEF Shifted
    <2>6. QED
        BY <1>5, <2>4, <2>5
<1>6. QED
    BY <1>2, <1>3, <1>4, <1>5 DEF AttachPending

\* What was still to come before the first frame is still to come after it,
\* unless it was the first frame that told of it.
LEMMA ReceivesRest ==
    ASSUME HostType, Receives, NEW e, e \in missed \/ Coming(0, e),
           ~(Head(wire).kind = "event" /\ Head(wire).seq = e),
           ~(IsLive(Head(wire)) /\ Head(wire).latest >= e)
    PROVE  e \in missed' \/ Coming(0, e)'
<1>1. Pipe[1] = Head(wire)
    BY PipeReceived DEF Receives
<1>2. Carries(Pipe, 0, e) => Carries(Pipe, 1, e)
    BY <1>1, CarriesFirst
<1>3. e \in missed \/ Coming(1, e)
    BY <1>2 DEF Coming
<1>4. PICK n \in Nat : n = 1
    OBVIOUS
<1>5. n > 0 /\ n - 1 = 0 /\ (e \in missed \/ Coming(n, e))
    BY <1>3, <1>4
<1>6. e \in missed' \/ Coming(n - 1, e)'
    BY <1>5, ReceivesComing
<1>7. QED
    BY <1>5, <1>6

LEMMA InInterval ==
    ASSUME NEW a \in Nat, NEW b \in Nat, NEW e \in (a + 1)..b
    PROVE  e \in Nat /\ e <= b /\ e > a
OBVIOUS

LEMMA CoveredNext ==
    ASSUME latest' = latest,
           \A e \in (cursor' + 1)..latest : e \in missed' \/ Coming(0, e)'
    PROVE  CursorCovered'
BY DEF CursorCovered, Covered

LEMMA ReceiveEventSync ==
    ASSUME ReplayTypeInv, InSync, ReceiveEvent
    PROVE  InSync'
<1> DEFINE n == Head(wire).seq
           gap == n > cursor + 1
           k == IF gap /\ ~awaiting THEN 1 ELSE 0
<1>1. HostType
    BY TypeInvHostType
<1>2. /\ wire # <<>> /\ Head(wire).kind = "event"
      /\ cursor' = (IF n = cursor + 1 THEN n ELSE cursor)
      /\ requests' = RequestReplays(k)
      /\ awaiting' = awaiting /\ attached' = attached /\ link' = link
    BY DEF ReceiveEvent
<1>3. n \in Nat /\ cursor \in Nat /\ latest \in Nat /\ awaiting \in BOOLEAN
    BY <1>1, <1>2, WireHead, FrameFacts DEF ReplayTypeInv, TypeOK
<1>4. k \in Nat
    OBVIOUS
<1>5. Receives
    <2> HIDE DEF k, n
    <2>1. QED
        BY <1>2, <1>4 DEF ReceiveEvent, Receives, hostVars, history
<1>6. ~IsLive(Head(wire))
    BY <1>2 DEF IsLive
<1>7. AnswersCover' /\ WaitedFor' /\ AttachPending'
    BY <1>1, <1>2, <1>5, <1>6, ReceivesAnswers, ReceivesWaitedFor, ReceivesPending DEF InSync
<1>8. CursorCovered'
    <2>1. SUFFICES ASSUME link' = "up", attached'
                   PROVE  CursorCovered'
        BY DEF CursorCovered
    <2>2. Covered(0, cursor)
        <3>1. link = "up" /\ attached
            BY <1>2, <2>1, Zenon
        <3>2. QED
            BY <3>1 DEF InSync, CursorCovered
    <2>3. ASSUME NEW e \in (cursor' + 1)..latest PROVE e \in missed' \/ Coming(0, e)'
        <3>1. e \in (cursor + 1)..latest /\ e \in Nat /\ e <= latest /\ (e = n => gap)
            <4>1. cursor' \in Nat /\ cursor <= cursor' /\ (n = cursor + 1 => cursor' = n)
                <5> HIDE DEF n
                <5>1. QED
                    BY <1>2, <1>3
            <4> HIDE DEF n
            <4>2. e \in Nat /\ e <= latest /\ e > cursor'
                BY <1>3, <2>3, <4>1, InInterval, Zenon
            <4>3. QED
                BY <1>3, <4>1, <4>2
        <3>2. e \in missed \/ Coming(0, e)
            BY <2>2, <3>1 DEF Covered
        <3>3. CASE e # n
            BY <1>1, <1>5, <1>6, <3>2, <3>3, ReceivesRest
        <3>4. CASE e = n /\ awaiting = FALSE
            <4>1. k > 0
                BY <3>1, <3>4
            <4> HIDE DEF k
            <4>2. QED
                BY <1>1, <1>2, <1>4, <1>5, <3>1, <4>1, AsksCovers DEF InSync
        <3>5. CASE awaiting = TRUE
            <4>1. AttachPending'
                BY <1>7
            <4>2. awaiting'
                BY <1>2, <3>5
            <4>3. CASE requests' # <<>>
                BY <4>3 DEF Coming
            <4>4. CASE serving' # NoAck
                BY <4>4 DEF Coming
            <4>5. CASE requests' = <<>> /\ serving' = NoAck
                <5>1. requests = <<>> /\ serving = NoAck
                    BY <1>1, <1>5, <4>5, ReceivesRequests DEF Receives
                <5>2. PICK i \in 1..Len(Pipe) : IsLive(Pipe[i]) /\ Pipe[i].kind = "attach"
                    <6>1. Len(requests) = 0
                        BY <5>1, EmptySeq
                    <6>2. ~(\E i \in 1..Len(requests) : requests[i].kind = "attach")
                        BY <6>1
                    <6>3. QED
                        BY <3>5, <5>1, <6>2 DEF InSync, AttachPending
                <5>3. i # 1
                    BY <1>1, <1>5, <1>6, <5>2, PipeReceived DEF Receives
                <5>4. i \in 2..Len(Pipe)
                    BY <5>3
                <5>5. e \in missed \/ Coming(1, e)
                    BY <1>1, <3>1, <5>2, <5>4, LiveAnswerCovers DEF InSync
                <5>6. PICK m \in Nat : m = 1
                    OBVIOUS
                <5>7. m > 0 /\ m - 1 = 0 /\ (e \in missed \/ Coming(m, e))
                    BY <5>5, <5>6
                <5>8. e \in missed' \/ Coming(m - 1, e)'
                    BY <1>1, <1>5, <5>7, ReceivesComing
                <5>9. QED
                    BY <5>7, <5>8
            <4>6. QED
                BY <4>3, <4>4, <4>5
        <3>6. QED
            BY <1>3, <3>3, <3>4, <3>5
    <2>4. latest' = latest
        BY <1>5 DEF Receives
    <2>5. QED
        BY <2>3, <2>4, CoveredNext
<1>9. QED
    BY <1>7, <1>8 DEF InSync

LEMMA ReceiveAttachAckSync ==
    ASSUME ReplayTypeInv, InSync, ReceiveAttachAck
    PROVE  InSync'
<1> DEFINE start == MaxOf(cursor, Head(wire).latest)
           later == {n \in deferred : n > start}
           end == RunEnd(start, later)
           behind == {n \in later : n > end}
<1>1. HostType
    BY TypeInvHostType
<1>2. /\ wire # <<>> /\ Head(wire).kind = "attach" /\ Head(wire).live
      /\ cursor' = end /\ requests' = RequestReplays(Cardinality(behind))
      /\ awaiting' = FALSE
    BY DEF ReceiveAttachAck
<1>3. Head(wire).latest \in Nat /\ cursor \in Nat /\ latest \in Nat
    BY <1>1, <1>2, WireHead, FrameFacts DEF ReplayTypeInv, TypeOK
<1>4. start \in Nat /\ start >= Head(wire).latest
    BY <1>3 DEF MaxOf
<1>5. later \in SUBSET Nat /\ IsFiniteSet(later) /\ IsFiniteSet(behind)
    BY FS_Subset DEF ReplayTypeInv, TypeOK
<1> HIDE DEF later, start, behind
<1>6. Cardinality(behind) \in Nat /\ Cardinality(later) \in Nat
    BY <1>5, FS_CardinalityType
<1>7. end \in Nat /\ end >= start
    BY <1>4, <1>5, <1>6, RunEnds
<1> HIDE DEF end
<1>8. Receives
    BY <1>2, <1>6 DEF ReceiveAttachAck, Receives, hostVars, history
<1>9. AnswersCover' /\ WaitedFor'
    BY <1>1, <1>8, ReceivesAnswers, ReceivesWaitedFor DEF InSync
<1>10. AttachPending'
    BY <1>2 DEF AttachPending
<1>11. ASSUME NEW e \in (cursor' + 1)..latest PROVE e \in missed' \/ Coming(0, e)'
    <2>1. e \in (Head(wire).latest + 1)..latest
        BY <1>2, <1>3, <1>4, <1>7
    <2>2. /\ Pipe[1] = Head(wire) /\ 1 \in 1..Len(Pipe)
        BY <1>1, <1>8, PipeReceived DEF Receives, Shifted
    <2>3. IsLive(Pipe[1])
        BY <1>2, <2>2 DEF IsLive
    <2>4. Covered(1, Pipe[1].latest)
        BY <2>2, <2>3 DEF InSync, AnswersCover
    <2>5. e \in missed \/ Coming(1, e)
        BY <2>1, <2>2, <2>4 DEF Covered
    <2>6. PICK m \in Nat : m = 1
        OBVIOUS
    <2>7. m > 0 /\ m - 1 = 0 /\ (e \in missed \/ Coming(m, e))
        BY <2>5, <2>6
    <2>8. e \in missed' \/ Coming(m - 1, e)'
        BY <1>1, <1>8, <2>7, ReceivesComing
    <2>9. QED
        BY <2>7, <2>8
<1>12. CursorCovered'
    BY <1>8, <1>11, CoveredNext DEF Receives
<1>13. QED
    BY <1>9, <1>10, <1>12 DEF InSync

LEMMA ReceiveReplayAckSync ==
    ASSUME ReplayTypeInv, InSync, ReceiveReplayAck
    PROVE  InSync'
<1> DEFINE ack == Head(wire)
           gaps == IF ack.from > cursor + 1 THEN ack.from..ack.to ELSE {}
           again == IF cursor' < ack.latest THEN 1 ELSE 0
           first == IF awaiting THEN 0 ELSE Cardinality(gaps)
<1>1. HostType
    BY TypeInvHostType
<1>2. /\ wire # <<>> /\ ack.kind = "replay" /\ ack.live
      /\ requests' = RequestReplays(first + again)
      /\ cursor' = (IF gaps = {} THEN MaxOf(cursor, ack.to) ELSE cursor)
      /\ awaiting' = awaiting
    BY DEF ReceiveReplayAck
<1>3. /\ ack.latest \in Nat /\ ack.from \in Nat /\ ack.to \in Nat
      /\ cursor \in Nat /\ latest \in Nat
    BY <1>1, <1>2, WireHead, FrameFacts DEF ReplayTypeInv, TypeOK
<1>4. first \in Nat
    <2>1. IsFiniteSet(gaps)
        <3>1. ack.from \in Int /\ ack.to \in Int
            BY <1>3
        <3>2. IsFiniteSet(ack.from..ack.to) /\ IsFiniteSet({})
            BY <3>1, FS_Interval, FS_EmptySet
        <3> HIDE DEF ack
        <3>3. QED
            BY <3>2
    <2> HIDE DEF gaps
    <2>2. Cardinality(gaps) \in Nat
        BY <2>1, FS_CardinalityType
    <2>3. QED
        BY <2>2
<1> HIDE DEF first, gaps
<1>5. cursor' \in Nat /\ cursor <= cursor'
    BY <1>2, <1>3 DEF MaxOf
<1>6. first + again \in Nat /\ (cursor' < ack.latest => first + again > 0)
    BY <1>4
<1> HIDE DEF again, ack
<1>7. Receives
    BY <1>2, <1>6 DEF ReceiveReplayAck, Receives, hostVars, history, ack
<1>8. ~(IsLive(Head(wire)) /\ Head(wire).kind = "attach")
    BY <1>2 DEF ack
<1>9. AnswersCover' /\ WaitedFor' /\ AttachPending'
    BY <1>1, <1>2, <1>7, <1>8, ReceivesAnswers, ReceivesWaitedFor, ReceivesPending DEF InSync
<1>10. ASSUME NEW e \in (cursor' + 1)..latest PROVE e \in missed' \/ Coming(0, e)'
    <2>0. e \in Nat /\ e <= latest /\ e > cursor'
        BY <1>3, <1>5, <1>10, InInterval, Zenon
    <2>1. CASE e <= ack.latest
        <3>1. cursor' < ack.latest
            BY <1>3, <1>5, <2>0, <2>1
        <3>2. QED
            BY <1>1, <1>2, <1>6, <1>7, <2>0, <3>1, AsksCovers DEF InSync
    <2>2. CASE ~(e <= ack.latest)
        <3>1. e \in (ack.latest + 1)..latest
            BY <1>3, <2>0, <2>2
        <3>2. /\ Pipe[1] = ack /\ 1 \in 1..Len(Pipe)
            BY <1>1, <1>7, PipeReceived DEF Receives, Shifted, ack
        <3>3. IsLive(Pipe[1])
            BY <1>2, <3>2 DEF IsLive
        <3>4. Covered(1, Pipe[1].latest)
            BY <3>2, <3>3 DEF InSync, AnswersCover
        <3>5. e \in missed \/ Coming(1, e)
            BY <3>1, <3>2, <3>4 DEF Covered
        <3>6. PICK m \in Nat : m = 1
            OBVIOUS
        <3>7. m > 0 /\ m - 1 = 0 /\ (e \in missed \/ Coming(m, e))
            BY <3>5, <3>6
        <3>8. e \in missed' \/ Coming(m - 1, e)'
            BY <1>1, <1>7, <3>7, ReceivesComing
        <3>9. QED
            BY <3>7, <3>8
    <2>3. QED
        BY <2>1, <2>2
<1>11. CursorCovered'
    BY <1>7, <1>10, CoveredNext DEF Receives
<1>12. QED
    BY <1>9, <1>11 DEF InSync

LEMMA ReceiveStaleAckSync ==
    ASSUME ReplayTypeInv, InSync, ReceiveStaleAck
    PROVE  InSync'
<1>1. HostType
    BY TypeInvHostType
<1>2. /\ wire # <<>> /\ Head(wire).kind # "event" /\ ~Head(wire).live
      /\ UNCHANGED <<awaiting, attached, cursor, link>>
    BY DEF ReceiveStaleAck, cursorVars
<1>3. ~IsLive(Head(wire))
    BY <1>2 DEF IsLive
<1>4. requests' = RequestReplays(0)
    <2>1. /\ MinOf(0, Room) \in Nat
          /\ RequestReplays(0) = requests \o Asked(MinOf(0, Room))
        BY <1>1, RequestReplaysIs
    <2>2. MinOf(0, Room) = 0
        BY <2>1 DEF MinOf
    <2>3. Asked(0) \in Seq(Request) /\ Len(Asked(0)) = 0
        BY AskedType
    <2>4. Asked(0) = <<>>
        BY <2>3, EmptySeq
    <2>5. RequestReplays(0) = requests
        BY <1>1, <2>1, <2>2, <2>4, ConcatEmptySeq DEF HostType
    <2>6. QED
        BY <2>5 DEF ReceiveStaleAck
<1>5. Receives
    BY <1>4 DEF ReceiveStaleAck, Receives, hostVars, history
<1>6. AnswersCover' /\ WaitedFor' /\ AttachPending'
    BY <1>1, <1>2, <1>3, <1>5, ReceivesAnswers, ReceivesWaitedFor, ReceivesPending DEF InSync
<1>7. CursorCovered'
    <2>1. SUFFICES ASSUME link' = "up", attached'
                   PROVE  CursorCovered'
        BY DEF CursorCovered
    <2>2. Covered(0, cursor)
        <3>1. link = "up" /\ attached
            BY <1>2, <2>1, Zenon
        <3>2. QED
            BY <3>1 DEF InSync, CursorCovered
    <2>3. ASSUME NEW e \in (cursor' + 1)..latest PROVE e \in missed' \/ Coming(0, e)'
        <3>1. e \in missed \/ Coming(0, e)
            BY <1>2, <2>2 DEF Covered
        <3>2. QED
            BY <1>1, <1>2, <1>3, <1>5, <3>1, ReceivesRest
    <2>4. QED
        BY <1>5, <2>3, CoveredNext DEF Receives
<1>8. QED
    BY <1>6, <1>7 DEF InSync

-----------------------------------------------------------------------------
(* The connection thread and the link *)

LEMMA SamePipeSync ==
    ASSUME InSync, Pipe' = Pipe,
           UNCHANGED <<latest, link, serving, receiver, requests, missed, attached, cursor, awaiting>>
    PROVE  InSync'
BY DEF InSync, CursorCovered, AnswersCover, AttachPending, WaitedFor, Covered, Coming

LEMMA AppendEventSync ==
    ASSUME ReplayTypeInv, LinkInv, InSync, AppendEvent
    PROVE  InSync'
<1>1. /\ latest' = latest + 1
      /\ receiver' = (IF subscribed THEN Append(receiver, latest + 1) ELSE receiver)
      /\ UNCHANGED <<link, serving, out, requests, wire, missed, attached, cursor, awaiting>>
    BY DEF AppendEvent, cursorVars, history
<1>2. Pipe' = Pipe
    BY <1>1 DEF Pipe
<1>3. latest \in Nat /\ receiver \in Seq(Nat) /\ subscribed \in BOOLEAN /\ cursor \in Nat
      /\ Len(receiver) \in Nat
    BY DEF ReplayTypeInv, TypeOK
<1>4. AttachPending' /\ WaitedFor'
    BY <1>1, <1>2 DEF InSync, AttachPending, WaitedFor
<1>5. CASE subscribed = FALSE
    <2>1. Pipe = <<>>
        BY <1>5 DEF LinkInv, SubscriptionFirst, Pipe
    <2>2. Len(Pipe') = 0
        BY <1>2, <2>1, EmptySeq
    <2>3. AnswersCover'
        BY <2>2 DEF AnswersCover
    <2>4. CursorCovered'
        <3>1. SUFFICES ASSUME link' = "up", attached' PROVE CursorCovered'
            BY DEF CursorCovered
        <3>2. link = "up" /\ attached
            BY <1>1, <3>1, Zenon
        <3>3. serving # NoAck \/ requests # <<>>
            BY <1>5, <3>2 DEF LinkInv, SubscriptionFirst
        <3>4. QED
            BY <1>1, <3>3, AskedCovers
    <2>5. QED
        BY <1>4, <2>3, <2>4 DEF InSync
<1>6. CASE subscribed = TRUE
    <2>1. receiver' = Append(receiver, latest + 1)
        BY <1>1, <1>6
    <2>2. /\ Len(receiver') = Len(receiver) + 1
          /\ receiver'[Len(receiver) + 1] = latest + 1
          /\ \A j \in 1..Len(receiver) : receiver'[j] = receiver[j]
        BY <1>3, <2>1, AppendProperties
    <2>3. ASSUME NEW i, NEW e, Coming(i, e) PROVE Coming(i, e)'
        <3>1. CASE \E j \in 1..Len(receiver) : receiver[j] = e
            <4>1. PICK j \in 1..Len(receiver) : receiver[j] = e
                BY <3>1
            <4>2. j \in 1..Len(receiver') /\ receiver'[j] = e
                BY <1>3, <2>2, <4>1
            <4>3. QED
                BY <4>2 DEF Coming
        <3>2. QED
            BY <1>1, <1>2, <2>3, <3>1 DEF Coming
    <2>4. ASSUME NEW i, NEW n \in Nat, Covered(i, n) PROVE Covered(i, n)'
        <3>1. SUFFICES ASSUME NEW e \in (n + 1)..latest' PROVE (e \in missed \/ Coming(i, e))'
            BY DEF Covered
        <3>2. CASE e = latest'
            <4>1. \E j \in 1..Len(receiver') : receiver'[j] = e
                <5>1. Len(receiver) + 1 \in 1..Len(receiver')
                    BY <1>3, <2>2
                <5>2. QED
                    BY <1>1, <2>2, <3>2, <5>1
            <4>2. QED
                BY <4>1 DEF Coming
        <3>3. CASE e # latest'
            <4>1. e \in (n + 1)..latest
                BY <1>1, <1>3, <3>3
            <4>2. e \in missed \/ Coming(i, e)
                BY <2>4, <4>1 DEF Covered
            <4>3. QED
                BY <1>1, <2>3, <4>2
        <3>4. QED
            BY <3>2, <3>3
    <2>5. CursorCovered'
        <3>1. SUFFICES ASSUME link' = "up", attached' PROVE Covered(0, cursor)'
            BY DEF CursorCovered
        <3>2. link = "up" /\ attached
            BY <1>1, <3>1, Zenon
        <3>3. Covered(0, cursor)
            BY <3>2 DEF InSync, CursorCovered
        <3>4. PICK n \in Nat : n = cursor
            BY <1>3
        <3>5. Covered(0, n)'
            BY <2>4, <3>3, <3>4
        <3>6. cursor' = n
            BY <1>1, <3>4
        <3>7. QED
            BY <3>5, <3>6 DEF Covered
    <2>6. AnswersCover'
        <3>1. SUFFICES ASSUME NEW i \in 1..Len(Pipe'), IsLive(Pipe'[i])
                       PROVE  Covered(i, Pipe[i].latest)'
            BY DEF AnswersCover
        <3>2. Pipe \in Seq(Frame) /\ i \in 1..Len(Pipe) /\ IsLive(Pipe[i])
            BY <1>2, <3>1, PipeType, TypeInvHostType
        <3>3. PICK n \in Nat : n = Pipe[i].latest
            BY <3>2, ElementOfSeq, FrameFacts DEF IsLive
        <3>4. Covered(i, n)
            BY <3>2, <3>3 DEF InSync, AnswersCover
        <3>5. Covered(i, n)'
            BY <2>4, <3>4
        <3>6. Pipe'[i].latest = n
            BY <1>2, <3>3
        <3>7. QED
            BY <3>5, <3>6 DEF Covered
    <2>7. QED
        BY <1>4, <2>5, <2>6 DEF InSync
<1>7. QED
    BY <1>3, <1>5, <1>6

LEMMA DispatchAttachSync ==
    ASSUME ReplayTypeInv, InSync, DispatchAttach
    PROVE  InSync'
<1>1. requests \in Seq(Request) /\ requests # <<>> /\ latest \in Nat \ {0}
    BY DEF DispatchAttach, ReplayTypeInv, TypeOK
<1>2. /\ Head(requests) \in Request /\ Head(requests) = requests[1]
      /\ Len(requests) \in Nat \ {0} /\ Len(Tail(requests)) = Len(requests) - 1
      /\ \A i \in 1..Len(Tail(requests)) : Tail(requests)[i] = requests[i + 1]
    BY <1>1, HeadTailProperties, ElementOfSeq, LenProperties
<1>3. /\ serving' = AttachResult(Head(requests)) /\ requests' = Tail(requests)
      /\ UNCHANGED <<wire, out, awaiting>>
    BY DEF DispatchAttach, cursorVars
<1>4. /\ serving' # NoAck /\ serving'.kind = requests[1].kind
      /\ serving'.live = requests[1].live
    BY <1>1, <1>2, <1>3, AttachResultType, AckIsNotNone
<1>5. CursorCovered' /\ AnswersCover'
    BY <1>4, AskedCovers
<1>6. WaitedFor'
    <2>1. serving'.live = TRUE
        BY <1>2, <1>4 DEF InSync, WaitedFor
    <2>2. ASSUME NEW i \in 1..Len(requests') PROVE requests'[i].live = TRUE
        <3>1. i + 1 \in 1..Len(requests) /\ requests'[i] = requests[i + 1]
            BY <1>2, <1>3
        <3>2. QED
            BY <3>1 DEF InSync, WaitedFor
    <2>3. QED
        BY <2>1, <2>2 DEF WaitedFor
<1>7. AttachPending'
    <2>1. Pipe' = Pipe
        BY <1>3 DEF Pipe
    <2>2. ASSUME NEW i \in 1..Len(requests), requests[i].kind = "attach"
          PROVE  AttachPending'
        <3>1. CASE i = 1
            BY <1>4, <2>2, <3>1 DEF AttachPending
        <3>2. CASE i # 1
            <4>1. i - 1 \in 1..Len(requests') /\ (i - 1) + 1 = i
                BY <1>2, <1>3, <3>2
            <4>2. requests'[i - 1] = requests[i]
                BY <1>2, <1>3, <4>1
            <4>3. QED
                BY <2>2, <4>1, <4>2 DEF AttachPending
        <3>3. QED
            BY <3>1, <3>2
    <2>3. serving = NoAck
        BY DEF DispatchAttach, ReplayTypeInv, TypeOK
    <2>4. QED
        BY <1>3, <2>1, <2>2, <2>3 DEF InSync, AttachPending
<1>8. QED
    BY <1>5, <1>6, <1>7 DEF InSync

LEMMA SendAttachSync ==
    ASSUME ReplayTypeInv, InSync, SendAttach
    PROVE  InSync'
<1>1. requests' = Append(requests, [kind |-> "attach", live |-> TRUE]) /\ serving' = serving
    BY DEF SendAttach, hostVars
<1>2. requests \in Seq(Request) /\ [kind |-> "attach", live |-> TRUE] \in Request
      /\ Len(requests) \in Nat
    BY DEF ReplayTypeInv, TypeOK, Request
<1>3. /\ Len(requests') = Len(requests) + 1
      /\ requests'[Len(requests) + 1] = [kind |-> "attach", live |-> TRUE]
      /\ \A i \in 1..Len(requests) : requests'[i] = requests[i]
    BY <1>1, <1>2, AppendProperties
<1>4. Len(requests) + 1 \in 1..Len(requests')
    BY <1>2, <1>3
<1>5. requests' # <<>>
    BY <1>4, EmptySeq
<1>6. CursorCovered' /\ AnswersCover'
    BY <1>5, AskedCovers
<1>7. AttachPending'
    BY <1>3, <1>4 DEF AttachPending
<1>8. WaitedFor'
    BY <1>1, <1>2, <1>3 DEF InSync, WaitedFor
<1>9. QED
    BY <1>6, <1>7, <1>8 DEF InSync

\* The answer goes behind everything, and what was appended while the mutex was
\* free is missed.
LEMMA DispatchSubscribeSync ==
    ASSUME ReplayTypeInv, InSync, DispatchSubscribe
    PROVE  InSync'
<1>1. /\ receiver' = <<>> /\ missed' = missed \cup (serving.latest + 1)..latest
      /\ out' = Append(out, serving) /\ serving' = NoAck
      /\ UNCHANGED <<latest, link, requests, wire, attached, cursor, awaiting>>
    BY DEF DispatchSubscribe, cursorVars
<1>2. serving \in Ack /\ serving # NoAck
    BY DEF DispatchSubscribe, ReplayTypeInv, TypeOK
<1>3. /\ serving \in Frame /\ serving.kind # "event" /\ serving.latest \in Nat
      /\ serving.live = TRUE
    BY <1>2 DEF Frame, Ack, InSync, WaitedFor
<1>4. IsLive(serving)
    BY <1>3 DEF IsLive
<1>5. wire \in Seq(Frame) /\ out \in Seq(Frame) /\ latest \in Nat /\ cursor \in Nat
    BY DEF ReplayTypeInv, TypeOK
<1>6. Pipe \in Seq(Frame) /\ Len(Pipe) \in Nat
    BY PipeType, TypeInvHostType
<1> DEFINE a == <<serving>>
<1>7. a \in Seq(Frame) /\ Len(a) = 1 /\ a[1] = serving
    BY <1>3
<1>8. Pipe' = Pipe \o a
    <2>1. out' = out \o a
        BY <1>1, <1>3, <1>5, AppendIsConcat
    <2> HIDE DEF a
    <2>2. (wire \o out) \o a = wire \o (out \o a)
        BY <1>5, <1>7, ConcatFramesAssoc
    <2>3. QED
        BY <1>1, <2>1, <2>2 DEF Pipe
<1> HIDE DEF a
<1>9. /\ Len(Pipe') = Len(Pipe) + 1 /\ Pipe'[Len(Pipe) + 1] = serving
      /\ \A i \in 1..Len(Pipe) : Pipe'[i] = Pipe[i]
    <2>1. /\ Len(Pipe \o a) = Len(Pipe) + Len(a)
          /\ \A i \in 1..Len(Pipe) : (Pipe \o a)[i] = Pipe[i]
          /\ \A i \in 1..Len(a) : (Pipe \o a)[Len(Pipe) + i] = a[i]
        BY <1>6, <1>7, ConcatFrames
    <2>2. QED
        BY <1>6, <1>7, <1>8, <2>1
<1>10. ASSUME NEW i \in 0..Len(Pipe), NEW n \in Nat PROVE Covered(i, n)'
    <2>1. SUFFICES ASSUME NEW e \in (n + 1)..latest PROVE (e \in missed \/ Coming(i, e))'
        BY <1>1 DEF Covered
    <2>2. CASE e \in (serving.latest + 1)..latest
        BY <1>1, <2>2
    <2>3. CASE ~(e \in (serving.latest + 1)..latest)
        <3>1. serving.latest >= e
            BY <1>3, <1>5, <2>3
        <3>2. 1 \in 1..Len(a) /\ IsLive(a[1]) /\ a[1].latest >= e
            BY <1>4, <1>7, <3>1
        <3>3. Carries(Pipe \o a, i, e)
            BY <1>6, <1>7, <3>2, CarriesBehind
        <3>4. Carries(Pipe', i, e)
            BY <1>8, <3>3
        <3>5. QED
            BY <3>4 DEF Coming
    <2>4. QED
        BY <2>2, <2>3
<1>11. CursorCovered'
    <2>1. PICK n \in Nat : n = cursor
        BY <1>5
    <2>2. 0 \in 0..Len(Pipe)
        BY <1>6
    <2>3. Covered(0, n)'
        BY <1>10, <2>2
    <2>4. cursor' = n
        BY <1>1, <2>1
    <2>5. QED
        BY <2>3, <2>4 DEF CursorCovered, Covered
<1>12. AnswersCover'
    <2>1. SUFFICES ASSUME NEW i \in 1..Len(Pipe'), IsLive(Pipe'[i])
                   PROVE  Covered(i, Pipe[i].latest)'
        BY DEF AnswersCover
    <2>2. CASE i = Len(Pipe) + 1
        <3>1. Pipe'[i].latest = serving.latest
            BY <1>9, <2>2
        <3>2. \A e \in (Pipe'[i].latest + 1)..latest' : e \in missed'
            BY <1>1, <3>1
        <3>3. QED
            BY <3>2 DEF Covered
    <2>3. CASE i # Len(Pipe) + 1
        <3>1. i \in 1..Len(Pipe) /\ i \in 0..Len(Pipe)
            BY <1>6, <1>9, <2>3
        <3>2. Pipe'[i] = Pipe[i] /\ Pipe[i] \in Frame
            BY <1>6, <1>9, <3>1, ElementOfSeq
        <3>3. PICK n \in Nat : n = Pipe[i].latest
            BY <2>1, <3>2, FrameFacts DEF IsLive
        <3>4. Covered(i, n)'
            BY <1>10, <3>1
        <3>5. Pipe'[i].latest = n
            BY <3>2, <3>3
        <3>6. QED
            BY <3>4, <3>5 DEF Covered
    <2>4. QED
        BY <2>2, <2>3
<1>13. AttachPending'
    <2>1. Len(Pipe) + 1 \in 1..Len(Pipe')
        BY <1>6, <1>9
    <2>2. \A i \in 1..Len(Pipe) : i \in 1..Len(Pipe')
        BY <1>6, <1>9
    <2>3. SUFFICES ASSUME awaiting'
                   PROVE  \/ \E i \in 1..Len(requests') : requests'[i].kind = "attach"
                          \/ \E i \in 1..Len(Pipe') : IsLive(Pipe'[i]) /\ Pipe'[i].kind = "attach"
        BY DEF AttachPending
    <2>4. awaiting
        BY <1>1, <2>3, Zenon
    <2>5. CASE serving.kind = "attach"
        BY <1>4, <1>9, <2>1, <2>5
    <2>6. CASE \E i \in 1..Len(requests) : requests[i].kind = "attach"
        BY <1>1, <2>6
    <2>7. CASE \E i \in 1..Len(Pipe) : IsLive(Pipe[i]) /\ Pipe[i].kind = "attach"
        BY <1>9, <2>2, <2>7
    <2>8. QED
        BY <2>4, <2>5, <2>6, <2>7 DEF InSync, AttachPending
<1>14. WaitedFor'
    BY <1>1 DEF InSync, WaitedFor
<1>15. QED
    BY <1>11, <1>12, <1>13, <1>14 DEF InSync

LEMMA DrainSync ==
    ASSUME ReplayTypeInv, InSync, Drain
    PROVE  InSync'
<1> DEFINE r == EventFrames(receiver)
<1>1. /\ out' = out \o r /\ receiver' = <<>>
      /\ UNCHANGED <<latest, link, serving, requests, wire, missed, attached, cursor, awaiting>>
    BY DEF Drain, cursorVars, history
<1>2. wire \in Seq(Frame) /\ out \in Seq(Frame) /\ receiver \in Seq(Nat)
    BY DEF ReplayTypeInv, TypeOK
<1>3. Pipe \in Seq(Frame) /\ Len(Pipe) \in Nat
    BY PipeType, TypeInvHostType
<1>4. /\ r \in Seq(Frame) /\ Len(r) = Len(receiver) /\ Len(r) \in Nat
      /\ \A i \in 1..Len(receiver) : r[i].kind = "event" /\ r[i].seq = receiver[i]
    BY <1>2, EventFramesType
<1> HIDE DEF r
<1>5. Pipe' = Pipe \o r
    <2>1. (wire \o out) \o r = wire \o (out \o r)
        BY <1>2, <1>4, ConcatFramesAssoc
    <2>2. QED
        BY <1>1, <2>1 DEF Pipe
<1>6. /\ Len(Pipe') = Len(Pipe) + Len(r)
      /\ \A i \in 1..Len(Pipe) : Pipe'[i] = Pipe[i]
      /\ \A i \in 1..Len(r) : Pipe'[Len(Pipe) + i] = r[i]
    BY <1>3, <1>4, <1>5, ConcatFrames
<1>7. ASSUME NEW i \in 0..Len(Pipe), NEW e, Coming(i, e) PROVE Coming(i, e)'
    <2>1. CASE Carries(Pipe, i, e)
        <3>1. Carries(Pipe', i, e)
            BY <1>3, <1>4, <1>5, <2>1, CarriesConcat
        <3>2. QED
            BY <3>1 DEF Coming
    <2>2. ASSUME NEW j \in 1..Len(receiver), receiver[j] = e PROVE Coming(i, e)'
        <3>1. j \in 1..Len(r) /\ r[j].kind = "event" /\ r[j].seq = e
            BY <1>4, <2>2
        <3>2. Carries(Pipe \o r, i, e)
            BY <1>3, <1>4, <3>1, CarriesBehind
        <3>3. Carries(Pipe', i, e)
            BY <1>5, <3>2
        <3>4. QED
            BY <3>3 DEF Coming
    <2>3. CASE serving # NoAck \/ requests # <<>>
        BY <1>1, <2>3 DEF Coming
    <2>4. QED
        BY <1>7, <2>1, <2>2, <2>3 DEF Coming
<1>8. ASSUME NEW i \in 0..Len(Pipe), NEW n, Covered(i, n) PROVE Covered(i, n)'
    BY <1>1, <1>7, <1>8 DEF Covered
<1>9. CursorCovered'
    <2>1. SUFFICES ASSUME link' = "up", attached' PROVE Covered(0, cursor)'
        BY DEF CursorCovered
    <2>2. link = "up" /\ attached
        BY <1>1, <2>1, Zenon
    <2>3. PICK n : n = cursor
        OBVIOUS
    <2>4. Covered(0, n) /\ 0 \in 0..Len(Pipe)
        BY <1>3, <2>2, <2>3 DEF InSync, CursorCovered
    <2>5. Covered(0, n)' /\ cursor' = n
        BY <1>1, <1>8, <2>3, <2>4
    <2>6. QED
        BY <2>5 DEF Covered
<1>10. AnswersCover'
    <2>1. SUFFICES ASSUME NEW i \in 1..Len(Pipe'), IsLive(Pipe'[i])
                   PROVE  Covered(i, Pipe[i].latest)'
        BY DEF AnswersCover
    <2>2. i \in 1..Len(Pipe)
        <3>1. SUFFICES ASSUME i > Len(Pipe) PROVE FALSE
            BY <1>3
        <3>2. i - Len(Pipe) \in 1..Len(r) /\ Len(Pipe) + (i - Len(Pipe)) = i
            BY <1>3, <1>4, <1>6, <3>1
        <3>3. Pipe'[i] = r[i - Len(Pipe)]
            BY <1>6, <3>2
        <3>4. Pipe'[i].kind = "event"
            BY <1>4, <3>2, <3>3
        <3>5. QED
            BY <2>1, <3>4 DEF IsLive
    <2>3. Pipe'[i] = Pipe[i]
        BY <1>6, <2>2
    <2>4. PICK n : n = Pipe[i].latest
        OBVIOUS
    <2>5. Covered(i, n) /\ i \in 0..Len(Pipe)
        BY <1>3, <2>1, <2>2, <2>3, <2>4 DEF InSync, AnswersCover
    <2>6. Covered(i, n)' /\ Pipe'[i].latest = n
        BY <1>8, <2>3, <2>4, <2>5
    <2>7. QED
        BY <2>6 DEF Covered
<1>11. AttachPending'
    <2>1. \A i \in 1..Len(Pipe) : i \in 1..Len(Pipe') /\ Pipe'[i] = Pipe[i]
        BY <1>3, <1>4, <1>6
    <2>2. QED
        BY <1>1, <2>1 DEF InSync, AttachPending
<1>12. WaitedFor'
    BY <1>1 DEF InSync, WaitedFor
<1>13. QED
    BY <1>9, <1>10, <1>11, <1>12 DEF InSync

\* Writing moves frames from the queue to the wire; a blocked write may leave
\* one in both, and the client waits for the first of the two only.
LEMMA WriteBlockedSync ==
    ASSUME ReplayTypeInv, InSync, NEW k \in DOMAIN out, WriteBlocked(k)
    PROVE  InSync'
<1>1. UNCHANGED <<latest, link, serving, receiver, requests, missed, attached, cursor, awaiting>>
    BY DEF WriteBlocked, cursorVars
<1>2. CASE Pipe' = Pipe
    BY <1>1, <1>2, SamePipeSync
<1>3. ASSUME NEW p \in 1..Len(Pipe), Doubled(Pipe, Pipe', p) PROVE InSync'
    <2>1. Pipe \in Seq(Frame) /\ Len(Pipe) \in Nat
        BY PipeType, TypeInvHostType
    <2>2. ASSUME NEW i \in 0..Len(Pipe), NEW n, Covered(i, n) PROVE Covered(Moved(i, p), n)'
        <3>1. ASSUME NEW e, Coming(i, e) PROVE Coming(Moved(i, p), e)'
            <4>1. Carries(Pipe, i, e) => Carries(Pipe', Moved(i, p), e)
                BY <1>3, CarriesDoubled
            <4>2. QED
                BY <1>1, <3>1, <4>1 DEF Coming
        <3>2. QED
            BY <1>1, <2>2, <3>1 DEF Covered
    <2>3. CursorCovered'
        <3>1. SUFFICES ASSUME link' = "up", attached' PROVE Covered(0, cursor)'
            BY DEF CursorCovered
        <3>2. link = "up" /\ attached
            BY <1>1, <3>1, Zenon
        <3>3. PICK n : n = cursor
            OBVIOUS
        <3>4. Covered(0, n) /\ 0 \in 0..Len(Pipe) /\ Moved(0, p) = 0
            BY <2>1, <3>2, <3>3 DEF InSync, CursorCovered, Moved
        <3>5. Covered(Moved(0, p), n)'
            BY <2>2, <3>4
        <3>6. Covered(0, n)' /\ cursor' = n
            BY <1>1, <3>3, <3>4, <3>5
        <3>7. QED
            BY <3>6 DEF Covered
    <2>4. AnswersCover'
        <3>1. SUFFICES ASSUME NEW i \in 1..Len(Pipe'), IsLive(Pipe'[i])
                       PROVE  Covered(i, Pipe[i].latest)'
            BY DEF AnswersCover
        <3>2. PICK j \in 1..Len(Pipe) : i = Moved(j, p) /\ Pipe'[i] = Pipe[j]
            BY <1>3, <2>1, <3>1, DoubledLive
        <3>3. PICK n : n = Pipe[j].latest
            OBVIOUS
        <3>4. Covered(j, n) /\ j \in 0..Len(Pipe)
            BY <2>1, <3>1, <3>2, <3>3 DEF InSync, AnswersCover
        <3>5. Covered(Moved(j, p), n)'
            BY <2>2, <3>4
        <3>6. Covered(i, n)' /\ Pipe'[i].latest = n
            BY <3>2, <3>3, <3>5
        <3>7. QED
            BY <3>6 DEF Covered
    <2>5. AttachPending'
        <3>1. \A j \in 1..Len(Pipe) : Moved(j, p) \in 1..Len(Pipe') /\ Pipe'[Moved(j, p)] = Pipe[j]
            BY <1>3, DoubledHas
        <3>2. SUFFICES ASSUME awaiting'
                       PROVE  \/ \E i \in 1..Len(requests') : requests'[i].kind = "attach"
                              \/ serving' # NoAck /\ serving'.kind = "attach"
                              \/ \E i \in 1..Len(Pipe') : /\ IsLive(Pipe'[i])
                                                          /\ Pipe'[i].kind = "attach"
            BY DEF AttachPending
        <3>3. awaiting
            BY <1>1, <3>2, Zenon
        <3>4. CASE \E j \in 1..Len(Pipe) : IsLive(Pipe[j]) /\ Pipe[j].kind = "attach"
            BY <3>1, <3>4
        <3>5. QED
            BY <1>1, <3>3, <3>4 DEF InSync, AttachPending
    <2>6. WaitedFor'
        BY <1>1 DEF InSync, WaitedFor
    <2>7. QED
        BY <2>3, <2>4, <2>5, <2>6 DEF InSync
<1>4. QED
    BY <1>2, <1>3, PipeBlocked, TypeInvHostType

LEMMA EmptySync ==
    ASSUME wire' = <<>>, out' = <<>>, serving' = NoAck, requests' = <<>>, awaiting' = FALSE
    PROVE  AnswersCover' /\ AttachPending' /\ WaitedFor'
<1>1. Pipe' = <<>>
    BY DEF Pipe
<1>2. Len(Pipe') = 0 /\ Len(requests') = 0
    BY <1>1, EmptySeq
<1>3. QED
    BY <1>2 DEF AnswersCover, AttachPending, WaitedFor

LEMMA ReconnectSync ==
    ASSUME ReplayTypeInv, LinkInv, InSync, Reconnect
    PROVE  InSync'
<1>1. /\ wire = <<>> /\ out = <<>> /\ serving = NoAck /\ awaiting = FALSE /\ requests = <<>>
    BY DEF Reconnect, LinkInv, DownIsEmpty
<1>2. UNCHANGED <<wire, out, serving, awaiting, attached>>
    BY DEF Reconnect, hostVars, cursorVars
<1>3. Pipe' = <<>> /\ Len(Pipe') = 0
    BY <1>1, <1>2, EmptySeq DEF Pipe
<1>4. AnswersCover' /\ AttachPending'
    BY <1>1, <1>2, <1>3 DEF AnswersCover, AttachPending
<1>5. CursorCovered'
    <2>1. SUFFICES ASSUME attached' PROVE CursorCovered'
        BY DEF CursorCovered
    <2>2. attached
        BY <1>2, <2>1, Zenon
    <2>3. requests' # <<>>
        BY <2>2, ReconnectAsks
    <2>4. QED
        BY <2>3, AskedCovers
<1>6. WaitedFor'
    <2> DEFINE k == IF attached THEN 1 ELSE 0
    <2>1. requests' = RequestReplays(k) /\ k \in Nat
        BY DEF Reconnect
    <2> HIDE DEF k
    <2>2. HostType
        BY TypeInvHostType
    <2>3. \A i \in 1..Len(requests') : i > Len(requests) => requests'[i].live = TRUE
        BY <2>1, <2>2, RequestReplaysType
    <2>4. Len(requests) = 0
        BY <1>1, EmptySeq
    <2>5. QED
        BY <1>1, <1>2, <2>3, <2>4 DEF WaitedFor
<1>7. QED
    BY <1>4, <1>5, <1>6 DEF InSync

LEMMA SyncStep == ReplayTypeInv /\ LinkInv /\ SyncInv /\ [Next]_vars => SyncInv'
<1> SUFFICES ASSUME ReplayTypeInv, LinkInv, SyncInv, [Next]_vars, ~forgot'
             PROVE  InSync'
    BY DEF SyncInv
<1>0. forgot' = forgot
    <2>1. CASE Timeout
        BY <2>1 DEF Timeout, Forget
    <2>2. CASE ~Timeout
        BY <2>2
        DEF Next, Host, Receive, AppendEvent, DispatchAttach, DispatchSubscribe, Poll, Drain,
            Write, WriteBlocked, SendAttach, ReceiveEvent, ReceiveAttachAck, ReceiveReplayAck,
            ReceiveStaleAck, LoadHistory, Disconnect, Reconnect, vars, history
    <2>3. QED
        BY <2>1, <2>2
<1>1. InSync
    BY <1>0 DEF SyncInv
<1>2. CASE AppendEvent
    BY <1>1, <1>2, AppendEventSync
<1>3. CASE DispatchAttach
    BY <1>1, <1>3, DispatchAttachSync
<1>4. CASE DispatchSubscribe
    BY <1>1, <1>4, DispatchSubscribeSync
<1>5. CASE Drain
    BY <1>1, <1>5, DrainSync
<1>6. CASE Write
    <2>1. Pipe' = Pipe
        <3>1. wire \o out \in Seq(Frame)
            BY TypeInvHostType, PipeType DEF Pipe
        <3>2. (wire \o out) \o <<>> = wire \o out
            BY <3>1, ConcatEmptySeq
        <3>3. QED
            BY <1>6, <3>2 DEF Write, Pipe
    <2>2. QED
        BY <1>1, <1>6, <2>1, SamePipeSync DEF Write, cursorVars, history
<1>7. ASSUME NEW k \in DOMAIN out, WriteBlocked(k) PROVE InSync'
    BY <1>1, <1>7, WriteBlockedSync
<1>8. CASE SendAttach
    BY <1>1, <1>8, SendAttachSync
<1>9. CASE Receive
    BY <1>1, <1>9, ReceiveEventSync, ReceiveAttachAckSync, ReceiveReplayAckSync,
       ReceiveStaleAckSync
    DEF Receive
<1>10. CASE Timeout
    BY <1>10 DEF Timeout, Forget
<1>11. CASE Disconnect
    <2>1. AnswersCover' /\ AttachPending' /\ WaitedFor'
        BY <1>11, EmptySync DEF Disconnect
    <2>2. CursorCovered'
        BY <1>11 DEF Disconnect, CursorCovered
    <2>3. QED
        BY <2>1, <2>2 DEF InSync
<1>12. CASE Reconnect
    BY <1>1, <1>12, ReconnectSync
<1>13. CASE Poll \/ LoadHistory \/ UNCHANGED vars
    <2>1. UNCHANGED <<wire, out>>
        BY <1>13 DEF Poll, LoadHistory, vars, hostVars
    <2>2. Pipe' = Pipe
        BY <2>1 DEF Pipe
    <2>3. QED
        BY <1>1, <1>13, <2>2, SamePipeSync
        DEF Poll, LoadHistory, vars, hostVars, cursorVars, history
<1>14. QED
    BY <1>2, <1>3, <1>4, <1>5, <1>6, <1>7, <1>8, <1>9, <1>10, <1>11, <1>12, <1>13
    DEF Next, Host

LEMMA SyncInit == Init => LinkInv /\ SyncInv
<1> SUFFICES ASSUME Init PROVE LinkInv /\ SyncInv
    OBVIOUS
<1>1. /\ wire = <<>> /\ out = <<>> /\ receiver = <<>> /\ requests = <<>> /\ serving = NoAck
      /\ link = "up" /\ attached = FALSE /\ awaiting = FALSE
    BY DEF Init
<1>2. LinkInv
    BY <1>1 DEF LinkInv, SubscriptionFirst, DownIsEmpty
<1>3. Pipe = <<>>
    BY <1>1 DEF Pipe
<1>4. Len(Pipe) = 0 /\ Len(requests) = 0
    BY <1>1, <1>3, EmptySeq
<1>5. InSync
    BY <1>1, <1>4 DEF InSync, CursorCovered, AnswersCover, AttachPending, WaitedFor
<1>6. QED
    BY <1>2, <1>5 DEF SyncInv

\* When nothing is under way to an attached client that gave up on no request,
\* it lacks no event but those appended between the attach and the subscription
\* of its connection: for every interleaving of appends, dispatch, drains,
\* writes, blocked writes that send a frame twice, lost connections, gaps and
\* replays, and for all limits.
THEOREM QuietIsSynced == Spec => []QuietMeansSynced
<1>1. ReplayTypeInv /\ SyncInv => QuietMeansSynced
    <2>1. SUFFICES ASSUME ReplayTypeInv, SyncInv, Quiet, attached, ~forgot PROVE OnlyMissed
        BY DEF QuietMeansSynced
    <2>2. /\ link = "up" /\ pc = "read" /\ receiver = <<>> /\ out = <<>>
          /\ requests = <<>> /\ wire = <<>>
        BY <2>1 DEF Quiet
    <2>3. serving = NoAck
        BY <2>1, <2>2 DEF ReplayTypeInv, TypeOK
    <2>4. Covered(0, cursor)
        BY <2>1, <2>2 DEF SyncInv, InSync, CursorCovered
    <2>5. Pipe = <<>>
        BY <2>2 DEF Pipe
    <2>6. Len(Pipe) = 0 /\ Len(receiver) = 0
        BY <2>2, <2>5, EmptySeq
    <2>7. \A e : ~Coming(0, e)
        BY <2>2, <2>3, <2>6 DEF Coming, Carries
    <2>8. QED
        BY <2>4, <2>7 DEF Covered, OnlyMissed
<1>2. QED
    BY <1>1, ReplayTypeInit, ReplayTypeStep, SyncInit, LinkStep, SyncStep, PTL DEF Spec

=============================================================================
