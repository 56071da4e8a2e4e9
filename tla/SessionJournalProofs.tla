------------------------ MODULE SessionJournalProofs ------------------------
(***************************************************************************)
(* Proofs about SessionJournal, for every set of clients, every journal    *)
(* limit and every bound.                                                  *)
(***************************************************************************)
EXTENDS SessionJournal, FiniteSetTheorems, SequenceTheorems, TLAPS

USE DEF NoRow

\* A key of table events names one row.
UniqueKeys(rows) == \A a, b \in rows : a.seq = b.seq => a = b

-----------------------------------------------------------------------------
(* Rows in key order *)

\* The rank of a row in a finite table with unique keys is a bijection onto
\* 1..n: this is what makes ORDER BY sequence well defined in the model.
LEMMA RankBijection ==
    ASSUME NEW S \in SUBSET Event, IsFiniteSet(S), UniqueKeys(S)
    PROVE  /\ \A r \in S : Rank(r, S) \in 1..Cardinality(S)
           /\ \A r, q \in S : Rank(r, S) = Rank(q, S) => r = q
           /\ \A i \in 1..Cardinality(S) : \E r \in S : Rank(r, S) = i
           /\ \A r, q \in S : r.seq < q.seq => Rank(r, S) < Rank(q, S)
<1> DEFINE Below(r) == {q \in S : q.seq < r.seq}
           n == Cardinality(S)
<1>1. n \in Nat
    BY FS_CardinalityType
<1>2. \A r \in S : r.seq \in Nat
    BY DEF Event
<1>3. ASSUME NEW r \in S
      PROVE  IsFiniteSet(Below(r)) /\ Cardinality(Below(r)) \in Nat /\ Cardinality(Below(r)) < n
    <2>1. Below(r) \in SUBSET S /\ Below(r) # S
        BY <1>2
    <2>2. QED
        BY <2>1, <1>1, FS_Subset, FS_CardinalityType
<1>r. \A r \in S : Rank(r, S) = Cardinality(Below(r)) + 1
    BY DEF Rank
<1>4. \A r \in S : Rank(r, S) \in 1..n
    <2> HIDE DEF Below, n
    <2> QED BY <1>1, <1>3, <1>r
<1>5. ASSUME NEW r \in S, NEW q \in S, r.seq < q.seq
      PROVE  Rank(r, S) < Rank(q, S)
    <2>1. Below(r) \in SUBSET Below(q) /\ r \in Below(q) /\ r \notin Below(r)
        BY <1>2, <1>5
    <2> HIDE DEF Below, n
    <2>2. /\ Cardinality(Below(r)) <= Cardinality(Below(q))
          /\ Cardinality(Below(r)) # Cardinality(Below(q))
        BY <2>1, <1>3, FS_Subset
    <2>3. QED
        BY <2>2, <1>3, <1>r
<1>6. \A r, q \in S : Rank(r, S) = Rank(q, S) => r = q
    <2> SUFFICES ASSUME NEW r \in S, NEW q \in S, Rank(r, S) = Rank(q, S)
                 PROVE  r = q
        OBVIOUS
    <2>1. Rank(r, S) \in Int /\ ~(r.seq < q.seq) /\ ~(q.seq < r.seq)
        BY <1>4, <1>5
    <2>2. QED
        BY <2>1, <1>2 DEF UniqueKeys
<1> DEFINE f == [r \in S |-> Rank(r, S)]
<1>7. f \in Injection(S, 1..n)
    BY <1>4, <1>6 DEF Injection, IsInjective
<1>8. IsFiniteSet(1..n) /\ Cardinality(1..n) = n
    BY <1>1, FS_Interval
<1>9. f \in Surjection(S, 1..n)
    BY <1>7, <1>8, FS_Injection
<1>10. \A i \in 1..n : \E r \in S : Rank(r, S) = i
    BY <1>9 DEF Surjection
<1>11. QED
    BY <1>4, <1>5, <1>6, <1>10

\* What recovery reads is a sequence of rows of the table, no longer than the
\* journal limit.
LEMMA RecoveredJournal ==
    ASSUME events \in SUBSET Event, IsFiniteSet(events), UniqueKeys(events)
    PROVE  /\ EventsAfterStart \in Seq(Event)
           /\ Len(EventsAfterStart) <= JournalLimit
           /\ \A i \in 1..Len(EventsAfterStart) : EventsAfterStart[i] \in events
<1> DEFINE kept == {r \in events : Rank(r, events) <= JournalLimit}
           k == Cardinality(kept)
           n == Cardinality(events)
<1>0. JournalLimit \in Nat
    BY JournalAssumption
<1>1. n \in Nat /\ IsFiniteSet(kept) /\ k \in Nat /\ k <= n
    BY FS_CardinalityType, FS_Subset
<1>2. k <= JournalLimit
    <2> DEFINE g == [r \in kept |-> Rank(r, events)]
    <2>1. g \in Injection(kept, 1..JournalLimit)
        BY RankBijection, <1>0, <1>1 DEF Injection, IsInjective
    <2>2. IsFiniteSet(1..JournalLimit) /\ Cardinality(1..JournalLimit) = JournalLimit
        BY <1>0, FS_Interval
    <2>3. QED
        BY <2>1, <2>2, FS_Injection
<1>3. ASSUME NEW i \in 1..k
      PROVE  \E r \in kept : Rank(r, events) = i
    BY <1>0, <1>1, <1>2, RankBijection
<1> DEFINE pick(i) == CHOOSE r \in kept : Rank(r, events) = i
<1>4. \A i \in 1..k : pick(i) \in kept
    BY <1>3
<1>5. EventsAfterStart = [i \in 1..k |-> pick(i)]
    BY DEF EventsAfterStart
<1> HIDE DEF pick
<1>6. EventsAfterStart \in [1..k -> kept]
    BY <1>4, <1>5
<1>7. EventsAfterStart \in Seq(events) /\ Len(EventsAfterStart) = k
    <2> HIDE DEF kept, k
    <2>1. EventsAfterStart \in Seq(kept)
        BY <1>1, <1>6, SeqDef
    <2>2. DOMAIN EventsAfterStart = 1..k /\ DOMAIN EventsAfterStart = 1..Len(EventsAfterStart)
        BY <1>6, <2>1, LenProperties
    <2>3. Len(EventsAfterStart) = k
        BY <1>1, <2>1, <2>2, LenProperties
    <2>4. QED
        BY <2>1, <2>3, SeqMonotonic DEF kept
<1>8. EventsAfterStart \in Seq(Event)
    BY <1>7, SeqMonotonic
<1>9. QED
    BY <1>8, <1>2, <1>6, <1>7, <1>1
-----------------------------------------------------------------------------
(* Types *)

\* The phases in which an operation holds the manager's mutex.
Busy == {"append", "store", "persist", "publish"}

\* What makes TypeOK inductive: a key of table events is used once, so that a
\* recovered journal is a sequence, and an operation that holds the mutex has an
\* append left to finish, so that rest stays a natural number.
TypeInv ==
    /\ TypeOK
    /\ UniqueKeys(events)
    /\ phase \in Busy => rest >= 1

\* Pushing an event on a journal gives a journal.
LEMMA PushBoundedType ==
    ASSUME NEW s \in Seq(Event), NEW e \in Event
    PROVE  PushBounded(s, e) \in Seq(Event)
<1>1. Append(s, e) \in Seq(Event) /\ Len(Append(s, e)) = Len(s) + 1 /\ Len(s) \in Nat
    BY AppendProperties, LenProperties
<1>2. JournalLimit \in Nat \ {0}
    BY JournalAssumption
<1>3. CASE Len(s) < JournalLimit
    BY <1>1, <1>3 DEF PushBounded
<1>4. CASE ~(Len(s) < JournalLimit)
    <2>1. Len(s) + 2 - JournalLimit \in 1..(Len(s) + 2) /\ Len(s) + 1 \in Int
        BY <1>1, <1>2, <1>4
    <2>2. \A i \in (Len(s) + 2 - JournalLimit)..(Len(s) + 1) : Append(s, e)[i] \in Event
        BY <1>1, <2>1, ElementOfSeq
    <2>3. SubSeq(Append(s, e), Len(s) + 2 - JournalLimit, Len(s) + 1) \in Seq(Event)
        BY <1>1, <2>1, <2>2, SubSeqProperties
    <2>4. QED
        BY <2>3, <1>4 DEF PushBounded
<1>5. QED
    BY <1>3, <1>4

LEMMA TypeInvInit == Init => TypeInv
BY FS_EmptySet, EmptySeq DEF Init, TypeInv, TypeOK, Phases, Busy, UniqueKeys, Event

\* Every step keeps the types: one case per action.
LEMMA TypeInvStep == TypeInv /\ [Next]_vars => TypeInv'
<1> SUFFICES ASSUME TypeInv, [Next]_vars PROVE TypeInv'
    OBVIOUS
<1> USE DEF TypeInv, TypeOK, Busy, Phases
<1>e. Current \in Event
    BY DEF Current, Event
<1>s. SaveRow => row' \in Nat \cup {NoRow} /\ hurt' \subseteq {"torn", "io"}
    BY DEF SaveRow, StoreFails
<1>1. CASE Restart
    <2>1. EventsAfterStart \in Seq(Event)
        BY RecoveredJournal
    <2>2. /\ journal' \in Seq(Event) /\ last' \in Nat
          /\ entry' \in {"unborn", "absent", "live", "recovered"}
        BY <1>1, <2>1, EmptySeq DEF Restart, memory
    <2>3. phase' = "idle" /\ boot' \in Nat
        BY <1>1 DEF Restart
    <2>4. QED
        BY <1>1, <2>2, <2>3 DEF Restart, StoreFails, memory, store, streams, history
<1>2. ASSUME NEW n \in 1..MaxBatch, OpenSession(n) PROVE TypeInv'
    BY <1>2, <1>s DEF OpenSession, streams
<1>3. ASSUME NEW n \in 1..MaxBatch, BeginOperation(n) PROVE TypeInv'
    BY <1>3 DEF BeginOperation, memory, store, streams, history
<1>a. CASE ArchiveSession
    BY <1>a, <1>s DEF ArchiveSession, memory, streams
<1>4. CASE AppendInMemory
    <2>1. [seq |-> last + 1, boot |-> boot] \in Event
        BY DEF Event
    <2>2. journal' \in Seq(Event)
        BY <1>4, <2>1, PushBoundedType DEF AppendInMemory
    <2>3. QED
        BY <1>4, <2>2 DEF AppendInMemory, store, streams, history
<1>5. CASE StoreEvent
    <2>1. CASE UNCHANGED events
        BY <1>5, <2>1 DEF StoreEvent, StoreFails, memory, streams, history
    <2>2. CASE InsertAccepted(Current) /\ events' = Prune(events \cup {Current})
        <3>1. events' \subseteq events \cup {Current}
            BY <2>2 DEF Prune
        <3>2. events' \subseteq Event
            BY <3>1, <1>e
        <3>3. IsFiniteSet(events')
            BY <3>1, FS_AddElement, FS_Subset
        <3>4. UniqueKeys(events')
            BY <2>2, <3>1 DEF UniqueKeys, InsertAccepted
        <3>5. QED
            BY <1>5, <3>2, <3>3, <3>4 DEF StoreEvent, StoreFails, memory, streams, history
    <2>3. QED
        BY <1>5, <2>1, <2>2 DEF StoreEvent
<1>6. CASE PersistSession
    BY <1>6, <1>s DEF PersistSession, memory, streams
<1>7. CASE Publish
    <2>1. chan' \in [Clients -> Seq(Event)]
        BY <1>7, <1>e, AppendProperties DEF Publish
    <2>2. rest' \in Nat /\ phase' \in Phases /\ (phase' \in Busy => rest' >= 1)
        BY <1>7 DEF Publish
    <2>3. published' \subseteq Event
        BY <1>7, <1>e DEF Publish
    <2>4. QED
        BY <1>7, <2>1, <2>2, <2>3 DEF Publish, memory, store
<1>8. ASSUME NEW c \in Clients, Subscribe(c) PROVE TypeInv'
    <2>1. chan' \in [Clients -> Seq(Event)]
        BY <1>8, EmptySeq DEF Subscribe
    <2>2. QED
        BY <1>8, <2>1 DEF Subscribe, memory, store, history
<1>9. ASSUME NEW c \in Clients, Drain(c) PROVE TypeInv'
    <2>1. chan' \in [Clients -> Seq(Event)]
        BY <1>9, HeadTailProperties DEF Drain
    <2>2. QED
        BY <1>9, <2>1 DEF Drain, memory, store, history
<1>10. ASSUME NEW c \in Clients, Unsubscribe(c) PROVE TypeInv'
    <2>1. chan' \in [Clients -> Seq(Event)]
        BY <1>10, EmptySeq DEF Unsubscribe
    <2>2. QED
        BY <1>10, <2>1 DEF Unsubscribe, memory, store, history
<1>11. ASSUME NEW after \in 0..MaxSequence, Attach(after) PROVE TypeInv'
    <2>1. {journal[i] : i \in AttachReplay(after)} \subseteq Event
        BY LenProperties, ElementOfSeq DEF AttachReplay
    <2>2. QED
        BY <1>11, <2>1 DEF Attach, memory, store, streams
<1>12. CASE Shutdown \/ Kill
    <2>1. LoseMemory
        BY <1>12 DEF Shutdown, Kill
    <2>2. chan' \in [Clients -> Seq(Event)] /\ journal' \in Seq(Event)
        BY <2>1, EmptySeq DEF LoseMemory
    <2>3. entry' \in {"unborn", "absent", "live", "recovered"} /\ phase' = "down"
        BY <2>1 DEF LoseMemory
    <2>4. hurt' \subseteq {"torn", "io"}
        BY <1>12 DEF Shutdown, Kill
    <2>5. QED
        BY <2>1, <2>2, <2>3, <2>4 DEF LoseMemory, store, history
<1>13. CASE UNCHANGED vars
    BY <1>13 DEF vars, memory, store, streams, history
<1>14. QED
    BY <1>1, <1>2, <1>3, <1>a, <1>4, <1>5, <1>6, <1>7, <1>8, <1>9, <1>10,
       <1>11, <1>12, <1>13 DEF Next

\* Every state of the manager and its store is well typed.
THEOREM TypeCorrect == Spec => []TypeOK
<1>1. TypeInv => TypeOK
    BY DEF TypeInv
<1>2. QED
    BY TypeInvInit, TypeInvStep, <1>1, PTL DEF Spec

-----------------------------------------------------------------------------
(* Live streams *)

\* A receiver that does not exist holds nothing, and no receiver outlives the
\* process: this is why the renumbering of a restart meets empty receivers.
StreamInv ==
    /\ StreamContiguous
    /\ \A c \in Clients : c \notin subscribed => chan[c] = <<>>
    /\ phase = "down" => \A c \in Clients : chan[c] = <<>>

LEMMA StreamInvInit == Init => StreamInv
<1> SUFFICES ASSUME Init PROVE StreamInv
    OBVIOUS
<1>1. \A c \in Clients : chan[c] = <<>> /\ Len(chan[c]) = 0
    BY EmptySeq DEF Init
<1>2. QED
    BY <1>1 DEF StreamInv, StreamContiguous

\* A step that leaves the receivers and the last published number alone keeps
\* the streams.
LEMMA StreamUntouched ==
    ASSUME StreamInv, UNCHANGED streams, PublishedUpTo' = PublishedUpTo,
           phase' = "down" => phase = "down"
    PROVE  StreamInv'
BY DEF StreamInv, StreamContiguous, streams

LEMMA StreamInvStep == TypeInv /\ StreamInv /\ [Next]_vars => StreamInv'
<1> SUFFICES ASSUME TypeInv, StreamInv, [Next]_vars PROVE StreamInv'
    OBVIOUS
<1> USE DEF TypeInv, TypeOK
<1>t. /\ last \in Nat /\ PublishedUpTo \in Int
      /\ \A c \in Clients : chan[c] \in Seq(Event) /\ Len(chan[c]) \in Nat
    BY LenProperties DEF PublishedUpTo
<1>1. CASE Restart
    <2>1. \A c \in Clients : chan'[c] = <<>> /\ Len(chan'[c]) = 0
        BY <1>1, EmptySeq DEF Restart, StreamInv, streams
    <2>2. QED
        BY <2>1 DEF StreamInv, StreamContiguous
<1>2. ASSUME NEW n \in 1..MaxBatch, OpenSession(n) \/ BeginOperation(n) PROVE StreamInv'
    BY <1>2, StreamUntouched
    DEF OpenSession, BeginOperation, PublishedUpTo, InFlight, memory
<1>3. CASE ArchiveSession
    BY <1>3, StreamUntouched DEF ArchiveSession, PublishedUpTo, InFlight, memory
<1>4. CASE AppendInMemory
    BY <1>4, <1>t, StreamUntouched DEF AppendInMemory, PublishedUpTo, InFlight
<1>5. CASE StoreEvent \/ PersistSession
    BY <1>5, StreamUntouched DEF StoreEvent, PersistSession, PublishedUpTo, InFlight, memory
<1>6. CASE Publish
    <2>1. PublishedUpTo = last - 1 /\ PublishedUpTo' = last /\ phase' # "down"
        BY <1>6 DEF Publish, PublishedUpTo, InFlight, memory
    <2>2. Current \in Event /\ Current.seq = last
        BY DEF Current, Event
    <2>3. ASSUME NEW c \in Clients, NEW i \in 1..Len(chan'[c])
          PROVE  chan'[c][i].seq = last - Len(chan'[c]) + i
        <3>1. CASE c \notin subscribed
            <4>1. Len(chan'[c]) = 0
                BY <1>6, <3>1, EmptySeq DEF Publish, StreamInv
            <4>2. QED
                BY <4>1
        <3>2. CASE c \in subscribed
            <4>1. chan'[c] = Append(chan[c], Current)
                BY <1>6, <3>2 DEF Publish
            <4>2. /\ Len(chan'[c]) = Len(chan[c]) + 1
                  /\ \A k \in 1..Len(chan[c]) : chan'[c][k] = chan[c][k]
                  /\ chan'[c][Len(chan[c]) + 1] = Current
                BY <4>1, <2>2, <1>t, AppendProperties
            <4>3. CASE i = Len(chan[c]) + 1
                BY <4>2, <4>3, <2>2, <1>t
            <4>4. CASE i # Len(chan[c]) + 1
                <5>1. i \in 1..Len(chan[c])
                    BY <4>2, <4>4, <1>t
                <5>2. chan[c][i].seq = last - 1 - Len(chan[c]) + i
                    BY <5>1, <2>1 DEF StreamInv, StreamContiguous
                <5>3. QED
                    BY <5>1, <5>2, <4>2, <1>t
            <4>5. QED
                BY <4>3, <4>4
        <3>3. QED
            BY <3>1, <3>2
    <2>4. \A c \in Clients : c \notin subscribed' => chan'[c] = <<>>
        BY <1>6 DEF Publish, StreamInv
    <2>5. QED
        BY <2>1, <2>3, <2>4 DEF StreamInv, StreamContiguous
<1>7. ASSUME NEW c \in Clients, Subscribe(c) \/ Unsubscribe(c) PROVE StreamInv'
    <2>1. PublishedUpTo' = PublishedUpTo /\ phase' = phase
        BY <1>7 DEF Subscribe, Unsubscribe, PublishedUpTo, InFlight, memory
    <2>2. /\ chan'[c] = <<>> /\ Len(chan'[c]) = 0
          /\ \A d \in Clients \ {c} : chan'[d] = chan[d]
          /\ \A d \in Clients \ {c} : d \notin subscribed' => d \notin subscribed
        BY <1>7, EmptySeq DEF Subscribe, Unsubscribe
    <2>3. ASSUME NEW d \in Clients, NEW i \in 1..Len(chan'[d])
          PROVE  chan'[d][i].seq = PublishedUpTo - Len(chan'[d]) + i
        BY <2>2 DEF StreamInv, StreamContiguous
    <2>4. QED
        BY <2>1, <2>2, <2>3 DEF StreamInv, StreamContiguous
<1>8. ASSUME NEW c \in Clients, Drain(c) PROVE StreamInv'
    <2>1. PublishedUpTo' = PublishedUpTo /\ phase' = phase /\ phase # "down"
        BY <1>8 DEF Drain, PublishedUpTo, InFlight, memory
    <2>2. /\ chan'[c] = Tail(chan[c])
          /\ \A d \in Clients \ {c} : chan'[d] = chan[d]
          /\ subscribed' = subscribed /\ chan[c] # <<>>
        BY <1>8 DEF Drain
    <2>3. /\ Len(chan'[c]) = Len(chan[c]) - 1
          /\ \A i \in 1..Len(chan'[c]) : chan'[c][i] = chan[c][i + 1]
        BY <2>2, <1>t, HeadTailProperties
    <2>4. ASSUME NEW d \in Clients, NEW i \in 1..Len(chan'[d])
          PROVE  chan'[d][i].seq = PublishedUpTo - Len(chan'[d]) + i
        <3>1. CASE d # c
            BY <3>1, <2>2 DEF StreamInv, StreamContiguous
        <3>2. CASE d = c
            <4>1. i + 1 \in 1..Len(chan[c])
                BY <2>3, <3>2, <1>t
            <4>2. chan[c][i + 1].seq = PublishedUpTo - Len(chan[c]) + (i + 1)
                BY <4>1 DEF StreamInv, StreamContiguous
            <4>3. chan'[c][i] = chan[c][i + 1] /\ i \in Int /\ Len(chan[c]) \in Int
                BY <2>3, <3>2, <1>t
            <4>4. PublishedUpTo - Len(chan[c]) + (i + 1) = PublishedUpTo - (Len(chan[c]) - 1) + i
                BY <4>3, <1>t
            <4>5. QED
                BY <4>2, <4>3, <4>4, <2>3, <3>2
        <3>3. QED
            BY <3>1, <3>2
    <2>5. \A d \in Clients : d \notin subscribed' => chan'[d] = <<>>
        BY <2>2 DEF StreamInv
    <2>6. QED
        BY <2>1, <2>4, <2>5 DEF StreamInv, StreamContiguous
<1>9. ASSUME NEW after \in 0..MaxSequence, Attach(after) PROVE StreamInv'
    BY <1>9, StreamUntouched DEF Attach, PublishedUpTo, InFlight, memory
<1>10. CASE Shutdown \/ Kill
    <2>1. LoseMemory
        BY <1>10 DEF Shutdown, Kill
    <2>2. \A c \in Clients : chan'[c] = <<>> /\ Len(chan'[c]) = 0
        BY <2>1, EmptySeq DEF LoseMemory
    <2>3. QED
        BY <2>2 DEF StreamInv, StreamContiguous
<1>11. CASE UNCHANGED vars
    BY <1>11, StreamUntouched DEF vars, PublishedUpTo, InFlight, memory
<1>12. QED
    BY <1>1, <1>2, <1>3, <1>4, <1>5, <1>6, <1>7, <1>8, <1>9, <1>10, <1>11 DEF Next

\* A client that stays subscribed sees every event that append publishes, in
\* order and once, whatever the store answers and wherever the host was killed.
THEOREM StreamsContiguous == Spec => []StreamContiguous
<1>1. StreamInv => StreamContiguous
    BY DEF StreamInv
<1>2. QED
    BY TypeInvInit, TypeInvStep, StreamInvInit, StreamInvStep, <1>1, PTL DEF Spec

-----------------------------------------------------------------------------
(* Numbers on the wire *)

\* What the row in table sessions knows at each point of append.  A crash keeps
\* only the first conjunct, and it is enough to number on from.
RowCovers ==
    /\ \A e \in published : e.seq <= row
    /\ phase \in {"idle", "append"} /\ Registered => row = last
    /\ phase \in {"store", "persist"} => last = row + 1
    /\ phase = "publish" => last = row /\ \A e \in published : e.seq < last
    /\ phase \in Busy => entry = "live"
    /\ phase = "down" => entry \in {"unborn", "absent"}
    /\ entry = "unborn" => published = {} /\ last = 0
    /\ \A a, b \in published : a.seq = b.seq => a = b

\* It holds until the store first fails a call.
NumberInv == "io" \notin hurt => RowCovers

\* What went wrong stays recorded.
LEMMA HurtGrows == [Next]_vars => hurt \subseteq hurt'
<1> SUFFICES ASSUME [Next]_vars PROVE hurt \subseteq hurt'
    OBVIOUS
<1>1. CASE Restart \/ ArchiveSession \/ StoreEvent \/ PersistSession
    BY <1>1 DEF Restart, ArchiveSession, StoreEvent, PersistSession, SaveRow, StoreFails
<1>2. ASSUME NEW n \in 1..MaxBatch, OpenSession(n) \/ BeginOperation(n) PROVE hurt \subseteq hurt'
    BY <1>2 DEF OpenSession, BeginOperation, SaveRow, StoreFails, history
<1>3. CASE AppendInMemory \/ Publish
    BY <1>3 DEF AppendInMemory, Publish, history
<1>4. ASSUME NEW c \in Clients, Subscribe(c) \/ Drain(c) \/ Unsubscribe(c) PROVE hurt \subseteq hurt'
    BY <1>4 DEF Subscribe, Drain, Unsubscribe, history
<1>5. ASSUME NEW after \in 0..MaxSequence, Attach(after) PROVE hurt \subseteq hurt'
    BY <1>5 DEF Attach
<1>6. CASE Shutdown \/ Kill
    BY <1>6 DEF Shutdown, Kill
<1>7. CASE UNCHANGED vars
    BY <1>7 DEF vars, history
<1>8. QED
    BY <1>1, <1>2, <1>3, <1>4, <1>5, <1>6, <1>7 DEF Next

LEMMA NumberInvStep == TypeInv /\ NumberInv /\ [Next]_vars => NumberInv'
<1> SUFFICES ASSUME TypeInv, NumberInv, [Next]_vars, "io" \notin hurt'
             PROVE  RowCovers'
    BY DEF NumberInv
<1>h. RowCovers
    BY HurtGrows DEF NumberInv
<1> USE DEF TypeInv, TypeOK, Busy, Registered
<1>t. last \in Nat /\ row \in Int /\ \A e \in published : e.seq \in Nat
    BY DEF Event
<1>s. SaveRow => row' = last
    BY DEF SaveRow, StoreFails
<1>1. CASE Restart
    <2>1. CASE row # NoRow /\ last' = row /\ entry' \in {"live", "recovered"}
        BY <1>1, <1>h, <2>1 DEF Restart, RowCovers, store
    <2>2. CASE row = NoRow /\ UNCHANGED memory
        BY <1>1, <1>h, <2>2 DEF Restart, RowCovers, memory, store
    <2>3. QED
        BY <1>1, <2>1, <2>2 DEF Restart, StoreFails
<1>2. ASSUME NEW n \in 1..MaxBatch, OpenSession(n) PROVE RowCovers'
    BY <1>2, <1>h, <1>s DEF OpenSession, RowCovers
<1>3. ASSUME NEW n \in 1..MaxBatch, BeginOperation(n) PROVE RowCovers'
    BY <1>3, <1>h DEF BeginOperation, RowCovers, memory, store, history
<1>4. CASE ArchiveSession
    BY <1>4, <1>h, <1>s DEF ArchiveSession, RowCovers, memory
<1>5. CASE AppendInMemory
    BY <1>5, <1>h, <1>t DEF AppendInMemory, RowCovers, store, history
<1>6. CASE StoreEvent
    BY <1>6, <1>h DEF StoreEvent, RowCovers, memory
<1>7. CASE PersistSession
    <2>1. row' = row + 1 /\ last' = row + 1 /\ phase' = "publish"
        BY <1>7, <1>h, <1>s DEF PersistSession, RowCovers, memory
    <2>2. published' = published /\ entry' = entry
        BY <1>7 DEF PersistSession, memory
    <2>3. \A e \in published : e.seq <= row + 1 /\ e.seq < row + 1
        BY <1>h, <1>t DEF RowCovers
    <2>4. QED
        BY <1>7, <1>h, <2>1, <2>2, <2>3 DEF PersistSession, RowCovers
<1>8. CASE Publish
    <2>1. /\ Current.seq = last /\ published' = published \cup {Current}
          /\ row' = row /\ last' = last /\ entry' = entry /\ row = last
          /\ phase' \in {"idle", "append"} /\ entry = "live"
          /\ \A e \in published : e.seq < last
        BY <1>8, <1>h DEF Publish, Current, RowCovers, memory, store
    <2>2. \A e \in published' : e.seq <= row'
        BY <2>1, <1>t
    <2>3. \A a, b \in published' : a.seq = b.seq => a = b
        BY <2>1, <1>h, <1>t DEF RowCovers
    <2>4. QED
        BY <2>1, <2>2, <2>3 DEF RowCovers
<1>9. ASSUME NEW c \in Clients, Subscribe(c) \/ Drain(c) \/ Unsubscribe(c) PROVE RowCovers'
    BY <1>9, <1>h DEF Subscribe, Drain, Unsubscribe, RowCovers, memory, store, history
<1>10. ASSUME NEW after \in 0..MaxSequence, Attach(after) PROVE RowCovers'
    BY <1>10, <1>h DEF Attach, RowCovers, memory, store
<1>11. CASE Shutdown \/ Kill
    <2>1. LoseMemory
        BY <1>11 DEF Shutdown, Kill
    <2>2. QED
        BY <2>1, <1>h DEF LoseMemory, RowCovers, store
<1>12. CASE UNCHANGED vars
    BY <1>12, <1>h DEF vars, RowCovers, memory, store, history
<1>13. QED
    BY <1>1, <1>2, <1>3, <1>4, <1>5, <1>6, <1>7, <1>8, <1>9, <1>10, <1>11, <1>12 DEF Next

LEMMA NumberInvInit == Init => NumberInv
BY DEF Init, NumberInv, RowCovers, Busy, Registered

\* As long as the store accepts what it is given, no sequence number is ever
\* sent twice, for any number of crashes at any point of append.
THEOREM PublishedOnce == Spec => []PublishedUnique
<1>1. NumberInv => PublishedUnique
    BY DEF NumberInv, RowCovers, PublishedUnique
<1>2. QED
    BY <1>1, NumberInvInit, NumberInvStep, TypeInvInit, TypeInvStep, PTL DEF Spec

-----------------------------------------------------------------------------
(* The stream that the gateway sees *)

\* Every step of the manager is a step of EventStream or leaves it alone.
LEMMA StreamStep ==
    TypeInv /\ NumberInv /\ [Next]_vars => [Stream!Next]_Stream!vars
<1> SUFFICES ASSUME TypeInv, NumberInv, [Next]_vars
             PROVE  [Stream!Next]_Stream!vars
    OBVIOUS
<1> USE DEF Stream!vars
<1>d. ASSUME UNCHANGED <<published, streams>>, hurt \subseteq hurt'
      PROVE  [Stream!Next]_Stream!vars
    <2>1. CASE ("io" \in hurt) <=> ("io" \in hurt')
        BY <1>d, <2>1 DEF streams
    <2>2. CASE "io" \notin hurt /\ "io" \in hurt'
        <3>1. Stream!Degrade
            BY <1>d, <2>2 DEF streams, Stream!Degrade
        <3>2. QED
            BY <3>1 DEF Stream!Next
    <2>3. QED
        BY <1>d, <2>1, <2>2
<1>g. hurt \subseteq hurt'
    BY HurtGrows
<1>1. CASE Restart \/ ArchiveSession \/ StoreEvent \/ PersistSession \/ AppendInMemory
    BY <1>1, <1>d, <1>g DEF Restart, ArchiveSession, StoreEvent, PersistSession,
        AppendInMemory, history
<1>2. ASSUME NEW n \in 1..MaxBatch, OpenSession(n) \/ BeginOperation(n)
      PROVE  [Stream!Next]_Stream!vars
    BY <1>2, <1>d, <1>g DEF OpenSession, BeginOperation, history
<1>3. CASE Publish
    <2>1. /\ published' = published \cup {Current} /\ hurt' = hurt /\ subscribed' = subscribed
          /\ chan' = [c \in Clients |-> IF c \in subscribed THEN Append(chan[c], Current)
                                                             ELSE chan[c]]
        BY <1>3 DEF Publish
    <2>2. "io" \notin hurt => \A x \in published : x.seq < Current.seq
        BY <1>3 DEF Publish, NumberInv, RowCovers, Current
    <2>3. Stream!Publish(Current)
        BY <2>1, <2>2 DEF Stream!Publish
    <2>4. Current \in published'
        BY <2>1
    <2>5. QED
        BY <2>3, <2>4 DEF Stream!Next
<1>4. ASSUME NEW c \in Clients, Subscribe(c) PROVE [Stream!Next]_Stream!vars
    <2>1. Stream!Attach(c)
        BY <1>4 DEF Subscribe, Stream!Attach, history
    <2>2. QED
        BY <2>1 DEF Stream!Next
<1>5. ASSUME NEW c \in Clients, Drain(c) PROVE [Stream!Next]_Stream!vars
    <2>1. Stream!Take(c)
        BY <1>5 DEF Drain, Stream!Take, history
    <2>2. QED
        BY <2>1 DEF Stream!Next
<1>6. ASSUME NEW c \in Clients, Unsubscribe(c) PROVE [Stream!Next]_Stream!vars
    <2>1. Stream!Leave(c)
        BY <1>6 DEF Unsubscribe, Stream!Leave, history
    <2>2. QED
        BY <2>1 DEF Stream!Next
<1>7. ASSUME NEW after \in 0..MaxSequence, Attach(after) PROVE [Stream!Next]_Stream!vars
    BY <1>7 DEF Attach, streams
<1>8. CASE Shutdown \/ Kill
    <2>1. LoseMemory /\ (("io" \in hurt') <=> ("io" \in hurt))
        BY <1>8 DEF Shutdown, Kill
    <2>2. Stream!Stop
        BY <2>1 DEF LoseMemory, Stream!Stop
    <2>3. QED
        BY <2>2 DEF Stream!Next
<1>9. CASE UNCHANGED vars
    BY <1>9 DEF vars, streams, history
<1>10. QED
    BY <1>1, <1>2, <1>3, <1>4, <1>5, <1>6, <1>7, <1>8, <1>9 DEF Next

\* The manager, its store, its crashes and its recovery implement the stream of
\* EventStream: one step per event, to all receivers, under a new number.
THEOREM ImplementsStream == Spec => StreamSpec
<1>1. Init => Stream!Init
    BY DEF Init, Stream!Init
<1>2. QED
    BY <1>1, NumberInvInit, NumberInvStep, TypeInvInit, TypeInvStep, StreamStep, PTL
    DEF Spec, StreamSpec, Stream!Spec

-----------------------------------------------------------------------------
(* Bounds *)

\* What the DELETE leaves of a table fits the limit: the keys that stay lie in
\* a window of JournalLimit numbers that ends with the largest key.
LEMMA PruneBound ==
    ASSUME NEW S \in SUBSET Event, IsFiniteSet(S), UniqueKeys(S)
    PROVE  Cardinality(Prune(S)) <= JournalLimit
<1>0. JournalLimit \in Nat \ {0}
    BY JournalAssumption
<1>1. CASE S = {}
    <2>1. Prune(S) = {}
        BY <1>1 DEF Prune
    <2>2. QED
        BY <2>1, <1>0, FS_EmptySet
<1>2. CASE S # {}
    <2>1. Cardinality(S) \in Nat /\ Cardinality(S) # 0
        BY <1>2, FS_CardinalityType, FS_EmptySet
    <2>2. PICK top \in S : Rank(top, S) = Cardinality(S)
        BY <2>1, RankBijection
    <2>3. \A r \in S : r.seq \in Nat
        BY DEF Event
    <2>4. \A r \in S : r.seq <= top.seq
        <3> SUFFICES ASSUME NEW r \in S, top.seq < r.seq PROVE FALSE
            BY <2>3
        <3>1. Rank(top, S) < Rank(r, S) /\ Rank(r, S) \in 1..Cardinality(S)
            BY RankBijection
        <3>2. QED
            BY <3>1, <2>1, <2>2
    <2> DEFINE lo == top.seq - JournalLimit + 1
               key == [r \in Prune(S) |-> r.seq]
    <2>5. lo \in Int /\ top.seq \in Int /\ lo <= top.seq
        BY <2>3, <1>0
    <2>6. \A r \in Prune(S) : r.seq \in lo..top.seq
        BY <2>3, <2>4, <1>0 DEF Prune
    <2>7. key \in Injection(Prune(S), lo..top.seq)
        <3>1. key \in [Prune(S) -> lo..top.seq]
            BY <2>6
        <3>2. \A r, q \in Prune(S) : key[r] = key[q] => r = q
            BY DEF Prune, UniqueKeys
        <3>3. QED
            BY <3>1, <3>2 DEF Injection, IsInjective
    <2>8. IsFiniteSet(lo..top.seq) /\ Cardinality(lo..top.seq) = top.seq - lo + 1
        <3> HIDE DEF lo
        <3> QED BY <2>5, FS_Interval
    <2>9. top.seq - lo + 1 = JournalLimit
        BY <2>3, <1>0
    <2>10. QED
        BY <2>7, <2>8, <2>9, FS_Injection
<1>3. QED
    BY <1>1, <1>2

\* The trim of append keeps a journal within the limit.
LEMMA PushBoundedLength ==
    ASSUME NEW s \in Seq(Event), NEW e \in Event, Len(s) <= JournalLimit
    PROVE  Len(PushBounded(s, e)) <= JournalLimit
<1>1. Append(s, e) \in Seq(Event) /\ Len(Append(s, e)) = Len(s) + 1 /\ Len(s) \in Nat
    BY AppendProperties, LenProperties
<1>2. JournalLimit \in Nat \ {0}
    BY JournalAssumption
<1>3. CASE Len(s) < JournalLimit
    BY <1>1, <1>2, <1>3 DEF PushBounded
<1>4. CASE ~(Len(s) < JournalLimit)
    <2>1. Len(s) = JournalLimit
        BY <1>1, <1>2, <1>4
    <2>2. PushBounded(s, e) = SubSeq(Append(s, e), 2, JournalLimit + 1)
        BY <1>1, <1>2, <2>1 DEF PushBounded
    <2>3. Len(SubSeq(Append(s, e), 2, JournalLimit + 1)) = JournalLimit
        BY <1>1, <1>2, <2>1, SubSeqProperties
    <2>4. QED
        BY <2>2, <2>3, <1>2
<1>5. QED
    BY <1>3, <1>4

LEMMA BoundedStep == TypeInv /\ JournalBounded /\ [Next]_vars => JournalBounded'
<1> SUFFICES ASSUME TypeInv, JournalBounded, [Next]_vars PROVE JournalBounded'
    OBVIOUS
<1> USE DEF TypeInv, TypeOK, JournalBounded
<1>0. JournalLimit \in Nat \ {0}
    BY JournalAssumption
<1>1. CASE Restart
    <2>1. Len(EventsAfterStart) <= JournalLimit
        BY RecoveredJournal
    <2>2. Len(journal') <= JournalLimit
        BY <1>1, <2>1, <1>0, EmptySeq DEF Restart, memory
    <2>3. QED
        BY <1>1, <2>2 DEF Restart, store
<1>2. CASE AppendInMemory
    <2>1. [seq |-> last + 1, boot |-> boot] \in Event
        BY DEF Event
    <2>2. Len(journal') <= JournalLimit
        BY <1>2, <2>1, PushBoundedLength DEF AppendInMemory
    <2>3. QED
        BY <1>2, <2>2 DEF AppendInMemory, store
<1>3. CASE StoreEvent
    <2>1. CASE UNCHANGED events
        BY <1>3, <2>1 DEF StoreEvent, memory
    <2>2. CASE InsertAccepted(Current) /\ events' = Prune(events \cup {Current})
        <3>0. Current \in Event /\ IsFiniteSet(events \cup {Current})
            <4>1. Current \in Event
                BY DEF Current, Event
            <4>2. QED
                BY <4>1, FS_AddElement
        <3>1. events \cup {Current} \in SUBSET Event /\ IsFiniteSet(events \cup {Current})
            BY <3>0
        <3>2. UniqueKeys(events \cup {Current})
            BY <2>2 DEF UniqueKeys, InsertAccepted
        <3>3. Cardinality(events') <= JournalLimit
            BY <2>2, <3>1, <3>2, PruneBound
        <3>4. QED
            BY <1>3, <3>3 DEF StoreEvent, memory
    <2>3. QED
        BY <1>3, <2>1, <2>2 DEF StoreEvent
<1>4. CASE Shutdown \/ Kill
    <2>1. journal' = <<>> /\ events' = events
        BY <1>4 DEF Shutdown, Kill, LoseMemory, store
    <2>2. QED
        BY <2>1, <1>0, EmptySeq
<1>5. CASE UNCHANGED <<journal, events>>
    BY <1>5
<1>6. CASE \E n \in 1..MaxBatch : OpenSession(n) \/ BeginOperation(n)
    BY <1>6, <1>5 DEF OpenSession, BeginOperation, memory, store
<1>7. CASE ArchiveSession \/ PersistSession \/ Publish
    BY <1>7, <1>5 DEF ArchiveSession, PersistSession, Publish, memory, store
<1>8. CASE \E c \in Clients : Subscribe(c) \/ Drain(c) \/ Unsubscribe(c)
    BY <1>8, <1>5 DEF Subscribe, Drain, Unsubscribe, memory, store
<1>9. CASE \E after \in 0..MaxSequence : Attach(after)
    BY <1>9, <1>5 DEF Attach, memory, store
<1>10. CASE UNCHANGED vars
    BY <1>10, <1>5 DEF vars, memory, store
<1>11. QED
    BY <1>1, <1>2, <1>3, <1>4, <1>6, <1>7, <1>8, <1>9, <1>10 DEF Next

\* Journal and table stay within the configured limit, for every limit, every
\* failure of the store and every number of restarts.
THEOREM JournalStaysBounded == Spec => []JournalBounded
<1>1. Init => JournalBounded
    <2> SUFFICES ASSUME Init PROVE JournalBounded
        OBVIOUS
    <2>1. Len(journal) = 0 /\ Cardinality(events) = 0 /\ JournalLimit \in Nat
        BY EmptySeq, FS_EmptySet, JournalAssumption DEF Init
    <2>2. QED
        BY <2>1 DEF JournalBounded
<1>2. QED
    BY <1>1, TypeInvInit, TypeInvStep, BoundedStep, PTL DEF Spec
=============================================================================
