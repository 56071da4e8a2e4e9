------------------------- MODULE SessionReplayProofs -------------------------
(***************************************************************************)
(* Proofs about what SessionJournal promises as long as the store has not   *)
(* failed a call and no append was torn in two (hurt = {}): kills at every  *)
(* other point, shutdowns and restarts included.                            *)
(***************************************************************************)
EXTENDS SessionJournalProofs

USE DEF NoRow

-----------------------------------------------------------------------------
(* Windows of sequence numbers *)

\* The oldest number that is retained once `top` is the newest.
Oldest(top) == IF top > JournalLimit THEN top - JournalLimit + 1 ELSE 1

\* A journal that holds the retained numbers, in order and once each.
Tiles(s, top) ==
    /\ Len(s) = top - Oldest(top) + 1
    /\ \A i \in 1..Len(s) : s[i].seq = Oldest(top) + i - 1

\* A table that holds the retained numbers and no other.
Fills(rows, top) ==
    /\ \A r \in rows : r.seq \in Oldest(top)..top
    /\ \A n \in Oldest(top)..top : \E r \in rows : r.seq = n

LEMMA OldestBounds ==
    ASSUME NEW top \in Nat
    PROVE  /\ Oldest(top) \in Nat \ {0}
           /\ Oldest(top) <= top + 1
           /\ top - Oldest(top) + 1 <= JournalLimit
           /\ top - Oldest(top) + 1 < JournalLimit => Oldest(top + 1) = Oldest(top)
           /\ top - Oldest(top) + 1 = JournalLimit => Oldest(top + 1) = Oldest(top) + 1
           /\ top >= 1 => Oldest(top) <= top
BY JournalAssumption DEF Oldest

LEMMA FillsBelow ==
    ASSUME NEW S, NEW top \in Nat, Fills(S, top)
    PROVE  \A r \in S : r.seq <= top
<1>1. \A r \in S : r.seq \in Oldest(top)..top
    BY DEF Fills
<1>2. Oldest(top) \in Int
    BY OldestBounds
<1>3. QED
    BY <1>1, <1>2

\* The trim in append keeps exactly the retained numbers.
LEMMA PushTiles ==
    ASSUME NEW s \in Seq(Event), NEW top \in Nat, Tiles(s, top),
           NEW e \in Event, e.seq = top + 1
    PROVE  /\ Tiles(PushBounded(s, e), top + 1)
           /\ \A i \in 1..Len(PushBounded(s, e)) :
                 \/ PushBounded(s, e)[i] = e
                 \/ \E j \in 1..Len(s) : PushBounded(s, e)[i] = s[j]
<1> DEFINE a == Append(s, e)
           p == PushBounded(s, e)
<1>1. /\ a \in Seq(Event) /\ Len(a) = Len(s) + 1 /\ Len(s) \in Nat
      /\ \A i \in 1..Len(s) : a[i] = s[i]
      /\ a[Len(s) + 1] = e
    BY AppendProperties, LenProperties
<1>2. JournalLimit \in Nat \ {0} /\ Oldest(top) \in Nat \ {0} /\ Len(s) <= JournalLimit
    BY JournalAssumption, OldestBounds DEF Tiles
<1>3. Len(s) = top - Oldest(top) + 1 /\ \A i \in 1..Len(s) : s[i].seq = Oldest(top) + i - 1
    BY DEF Tiles
<1> HIDE DEF a
<1>4. \A i \in 1..Len(a) : /\ a[i].seq = Oldest(top) + i - 1
                           /\ a[i] = e \/ \E j \in 1..Len(s) : a[i] = s[j]
    <2> SUFFICES ASSUME NEW i \in 1..Len(a)
                 PROVE  /\ a[i].seq = Oldest(top) + i - 1
                        /\ a[i] = e \/ \E j \in 1..Len(s) : a[i] = s[j]
        OBVIOUS
    <2>1. CASE i = Len(s) + 1
        BY <1>1, <1>2, <1>3, <2>1
    <2>2. CASE i \in 1..Len(s)
        BY <1>1, <1>3, <2>2
    <2>3. QED
        BY <1>1, <2>1, <2>2
<1>5. CASE Len(s) < JournalLimit
    <2>1. p = a /\ Oldest(top + 1) = Oldest(top)
        BY <1>3, <1>5, OldestBounds DEF PushBounded, a
    <2>2. Len(a) = (top + 1) - Oldest(top + 1) + 1
        BY <1>1, <1>2, <1>3, <2>1
    <2>3. QED
        BY <1>4, <2>1, <2>2 DEF Tiles
<1>6. CASE Len(s) = JournalLimit
    <2>0. ~(Len(s) < JournalLimit) /\ Len(s) + 2 - JournalLimit = 2
        BY <1>1, <1>2, <1>6
    <2>1. p = SubSeq(a, 2, Len(s) + 1)
        BY <2>0 DEF PushBounded, a
    <2>o. Oldest(top + 1) = Oldest(top) + 1
        BY <1>3, <1>6, OldestBounds
    <2>2. Len(p) = Len(s) /\ \A i \in 1..Len(p) : p[i] = a[i + 1]
        BY <1>1, <2>1, SubSeqProperties
    <2>3. Len(p) = (top + 1) - Oldest(top + 1) + 1
        BY <1>1, <1>2, <1>3, <2>o, <2>2
    <2> HIDE DEF p
    <2>4. ASSUME NEW i \in 1..Len(p)
          PROVE  /\ i + 1 \in 1..Len(a) /\ p[i] = a[i + 1]
                 /\ p[i].seq = Oldest(top + 1) + i - 1
        <3>1. i + 1 \in 1..Len(a) /\ p[i] = a[i + 1]
            BY <1>1, <2>2
        <3>2. a[i + 1].seq = Oldest(top) + (i + 1) - 1
            BY <1>4, <3>1
        <3>3. QED
            <4>1. Oldest(top) \in Nat /\ i \in Nat /\ p[i].seq = Oldest(top) + (i + 1) - 1
                BY <1>2, <3>1, <3>2
            <4>2. p[i].seq = Oldest(top + 1) + i - 1
                BY <2>o, <4>1
            <4>3. QED
                BY <3>1, <4>2, Zenon
    <2>5. Tiles(p, top + 1)
        BY <2>3, <2>4, Zenon DEF Tiles
    <2>6. \A i \in 1..Len(p) : p[i] = e \/ \E j \in 1..Len(s) : p[i] = s[j]
        BY <1>4, <2>4, Zenon
    <2>7. QED
        BY <2>5, <2>6, Zenon DEF p
<1>7. QED
    BY <1>1, <1>2, <1>5, <1>6

\* The DELETE in append_event keeps exactly the retained numbers.
LEMMA PruneFills ==
    ASSUME NEW S \in SUBSET Event, NEW top \in Nat, Fills(S, top),
           NEW e \in Event, e.seq = top + 1
    PROVE  /\ Fills(Prune(S \cup {e}), top + 1)
           /\ e \in Prune(S \cup {e})
           /\ \A r \in S : r.seq >= Oldest(top + 1) => r \in Prune(S \cup {e})
<1> DEFINE T == S \cup {e}
<1>1. JournalLimit \in Nat \ {0} /\ Oldest(top) \in Nat \ {0}
    BY JournalAssumption, OldestBounds
<1>2. \A r \in T : r.seq \in Nat /\ r.seq >= 1 /\ r.seq <= top + 1
    <2>1. \A r \in S : r.seq \in Oldest(top)..top
        BY DEF Fills
    <2>2. QED
        BY <1>1, <2>1
<1>3. \A r \in T : r \in Prune(T) <=> r.seq > top + 1 - JournalLimit
    <2> SUFFICES ASSUME NEW r \in T PROVE r \in Prune(T) <=> r.seq > top + 1 - JournalLimit
        OBVIOUS
    <2>1. r \in Prune(T) => r.seq > top + 1 - JournalLimit
        <3>1. e \in T
            OBVIOUS
        <3>2. r \in Prune(T) => r.seq > e.seq - JournalLimit
            BY <3>1 DEF Prune
        <3>3. QED
            BY <1>1, <1>2, <3>2
    <2>2. r.seq > top + 1 - JournalLimit => \A q \in T : r.seq > q.seq - JournalLimit
        BY <1>1, <1>2
    <2>3. QED
        BY <2>1, <2>2 DEF Prune
<1>4. \A r \in T : r \in Prune(T) <=> r.seq >= Oldest(top + 1)
    <2> HIDE DEF T
    <2>1. \A r \in T : r.seq > top + 1 - JournalLimit <=> r.seq >= Oldest(top + 1)
        BY <1>1, <1>2 DEF Oldest
    <2>2. QED
        BY <1>3, <2>1
<1>5. Prune(T) \subseteq T
    BY DEF Prune
<1>6. \A n \in Oldest(top + 1)..(top + 1) : \E r \in T : r.seq = n
    <2> SUFFICES ASSUME NEW n \in Oldest(top + 1)..(top + 1) PROVE \E r \in T : r.seq = n
        OBVIOUS
    <2>1. CASE n = top + 1
        BY <2>1
    <2>2. CASE n # top + 1
        <3>1. n \in Oldest(top)..top
            BY <1>1, <2>2, OldestBounds DEF Oldest
        <3>2. QED
            BY <3>1 DEF Fills
    <2>3. QED
        BY <2>1, <2>2
<1>7. Oldest(top + 1) \in Nat \ {0} /\ Oldest(top + 1) <= top + 1
    BY <1>1 DEF Oldest
<1> HIDE DEF T
<1>8. \A r \in Prune(T) : r.seq \in Oldest(top + 1)..(top + 1)
    BY <1>2, <1>4, <1>5, <1>7
<1>9. \A n \in Oldest(top + 1)..(top + 1) : \E r \in Prune(T) : r.seq = n
    BY <1>4, <1>6, <1>7
<1>10. e \in Prune(T) /\ \A r \in S : r.seq >= Oldest(top + 1) => r \in Prune(T)
    BY <1>4, <1>7 DEF T
<1>11. QED
    BY <1>8, <1>9, <1>10 DEF Fills, T

\* In a table without gaps the rank of a row is its distance from the oldest.
LEMMA FillsRank ==
    ASSUME NEW S \in SUBSET Event, IsFiniteSet(S), UniqueKeys(S),
           NEW top \in Nat, Fills(S, top)
    PROVE  /\ Cardinality(S) = top - Oldest(top) + 1
           /\ \A r \in S : Rank(r, S) = r.seq - Oldest(top) + 1
<1>1. Oldest(top) \in Nat \ {0} /\ Oldest(top) <= top + 1
    BY OldestBounds
<1>2. ASSUME NEW m \in Oldest(top)..(top + 1)
      PROVE  Cardinality({q \in S : q.seq < m}) = m - Oldest(top)
    <2> DEFINE B == {q \in S : q.seq < m}
               I == Oldest(top)..(m - 1)
               key == [q \in B |-> q.seq]
    <2>1. IsFiniteSet(B)
        BY FS_Subset
    <2>2. \A q \in B : q.seq \in I
        BY <1>1 DEF Fills
    <2>3. \A n \in I : \E q \in B : q.seq = n
        BY <1>1 DEF Fills
    <2>4. \A q, r \in B : q.seq = r.seq => q = r
        BY DEF UniqueKeys
    <2> HIDE DEF B, I
    <2>5. key \in Bijection(B, I)
        BY <2>2, <2>3, <2>4 DEF Bijection, Injection, Surjection, IsInjective
    <2>6. Cardinality(I) = Cardinality(B)
        BY <2>1, <2>5, FS_Bijection DEF ExistsBijection
    <2>7. Cardinality(I) = m - Oldest(top)
        <3>1. m - 1 \in Int /\ Oldest(top) \in Int
            BY <1>1
        <3>2. Cardinality(I) = IF Oldest(top) > m - 1 THEN 0 ELSE (m - 1) - Oldest(top) + 1
            BY <3>1, FS_Interval DEF I
        <3>3. QED
            BY <1>1, <3>2
    <2>8. QED
        BY <2>6, <2>7 DEF B
<1>3. \A r \in S : r.seq \in Oldest(top)..(top + 1) /\ r.seq < top + 1
    BY <1>1 DEF Fills
<1>4. {q \in S : q.seq < top + 1} = S
    BY <1>3
<1>5. Cardinality(S) = top - Oldest(top) + 1
    <2>1. top + 1 \in Oldest(top)..(top + 1)
        BY <1>1
    <2>2. Cardinality({q \in S : q.seq < top + 1}) = (top + 1) - Oldest(top)
        BY <1>2, <2>1
    <2>3. Cardinality(S) = (top + 1) - Oldest(top)
        BY <1>4, <2>2
    <2>4. QED
        BY <1>1, <2>3
<1>6. \A r \in S : Rank(r, S) = r.seq - Oldest(top) + 1
    BY <1>2, <1>3 DEF Rank
<1>7. QED
    BY <1>5, <1>6

\* Recovery reads back a gapless table as the journal it was written from.
LEMMA RecoveredTiles ==
    ASSUME events \in SUBSET Event, IsFiniteSet(events), UniqueKeys(events),
           NEW top \in Nat, Fills(events, top)
    PROVE  Tiles(EventsAfterStart, top)
<1> DEFINE n == Cardinality(events)
<1>1. /\ n = top - Oldest(top) + 1 /\ n <= JournalLimit /\ n \in Nat
      /\ \A r \in events : Rank(r, events) = r.seq - Oldest(top) + 1
    BY FillsRank, OldestBounds, FS_CardinalityType
<1>2. \A r \in events : Rank(r, events) \in 1..n
    BY RankBijection
<1> DEFINE kept == {r \in events : Rank(r, events) <= JournalLimit}
<1>3. kept = events
    BY <1>1, <1>2, JournalAssumption
<1>c. EventsAfterStart
        = [i \in 1..Cardinality(kept) |-> CHOOSE r \in kept : Rank(r, events) = i]
    BY DEF EventsAfterStart
<1> HIDE DEF kept
<1> DEFINE pick(i) == CHOOSE r \in events : Rank(r, events) = i
<1>4. EventsAfterStart = [i \in 1..n |-> pick(i)]
    BY <1>3, <1>c
<1>5. \A i \in 1..n : pick(i) \in events /\ Rank(pick(i), events) = i
    BY RankBijection
<1> HIDE DEF pick, n
<1>6. Len(EventsAfterStart) = n
    <2>1. EventsAfterStart \in Seq(Event)
        BY RecoveredJournal
    <2>2. DOMAIN EventsAfterStart = 1..n /\ DOMAIN EventsAfterStart = 1..Len(EventsAfterStart)
        BY <1>4, <2>1, LenProperties
    <2>3. QED
        BY <1>1, <2>1, <2>2, LenProperties
<1>7. ASSUME NEW i \in 1..n
      PROVE  EventsAfterStart[i].seq = Oldest(top) + i - 1
    <2>1. EventsAfterStart[i] \in events /\ Rank(EventsAfterStart[i], events) = i
        BY <1>4, <1>5
    <2>2. EventsAfterStart[i].seq - Oldest(top) + 1 = i
        BY <1>1, <2>1
    <2>3. EventsAfterStart[i].seq \in Nat /\ Oldest(top) \in Nat
        BY <2>1, OldestBounds DEF Event
    <2>4. QED
        BY <2>2, <2>3
<1>8. QED
    BY <1>1, <1>6, <1>7 DEF Tiles

\* A window of rows with unique keys can be listed in one way.
LEMMA TilesAgree ==
    ASSUME NEW S \in SUBSET Event, UniqueKeys(S), NEW top \in Nat,
           NEW s \in Seq(Event), Tiles(s, top), \A i \in 1..Len(s) : s[i] \in S,
           NEW t \in Seq(Event), Tiles(t, top), \A i \in 1..Len(t) : t[i] \in S
    PROVE  s = t
<1>1. Len(s) = Len(t) /\ \A i \in 1..Len(s) : s[i].seq = t[i].seq
    BY DEF Tiles
<1>2. \A i \in 1..Len(s) : s[i] = t[i]
    BY <1>1 DEF UniqueKeys
<1>3. QED
    BY <1>1, <1>2, SeqEqual
-----------------------------------------------------------------------------
(* Memory, table and what clients were given *)

\* What clients have been given, live or by a replay.
Seen == published \cup replayed

\* The newest number in the table: between the two transactions of an append the
\* event is ahead of the row.
Newest == IF phase = "persist" THEN last ELSE row

\* The parts of the invariant.  The table holds the retained window and the
\* journal does too; the two agree but for the event that append has not stored
\* yet; what clients were given is numbered no further than the row, and where
\* the table still has the number it has that very event.
TableFilled == Fills(events, Newest)

JournalTiled == Registered => Tiles(journal, last)

JournalStored ==
    Registered => \A i \in 1..Len(journal) :
                     journal[i] \in events \/ (phase = "store" /\ journal[i] = Current)

CurrentStored == phase \in {"persist", "publish"} => Current \in events

RowExists ==
    /\ entry = "unborn" => row = NoRow /\ journal = <<>> /\ last = 0
    /\ Registered => row # NoRow

SeenCovered == \A e \in Seen : e.seq <= row

SeenStored == \A e \in Seen, r \in events : e.seq = r.seq => e = r

Intact ==
    /\ TableFilled /\ JournalTiled /\ JournalStored /\ CurrentStored
    /\ RowExists /\ SeenCovered /\ SeenStored /\ SequenceNamesOneEvent

\* It holds until the store first fails a call or an append is torn in two.
IntactInv == hurt = {} => Intact

LEMMA IntactInvInit == Init => IntactInv
<1> SUFFICES ASSUME Init PROVE Intact
    BY DEF IntactInv
<1>1. Oldest(-1) = 1
    BY JournalAssumption DEF Oldest
<1>2. Newest = -1 /\ events = {} /\ Oldest(-1)..(-1) = {}
    BY <1>1 DEF Init, Newest
<1>3. TableFilled
    BY <1>2 DEF TableFilled, Fills
<1>4. QED
    BY <1>3 DEF Init, Intact, JournalTiled, JournalStored, CurrentStored, RowExists,
                SeenCovered, SeenStored, Seen, SequenceNamesOneEvent, Registered

\* The invariant reads nothing but these.
LEMMA IntactUntouched ==
    ASSUME Intact, UNCHANGED <<entry, last, journal, row, events, published, replayed, boot>>,
           phase' = phase \/ {phase, phase'} \subseteq {"idle", "append"}
    PROVE  Intact'
BY DEF Intact, TableFilled, Newest, JournalTiled, JournalStored, CurrentStored, RowExists,
       SeenCovered, SeenStored, Seen, SequenceNamesOneEvent, Registered, Current

LEMMA IntactStep ==
    TypeInv /\ NumberInv /\ IntactInv /\ [Next]_vars => IntactInv'
<1> SUFFICES ASSUME TypeInv, NumberInv, IntactInv, [Next]_vars, hurt' = {}
             PROVE  Intact'
    BY DEF IntactInv
<1>h. hurt = {} /\ Intact /\ RowCovers
    BY HurtGrows DEF IntactInv, NumberInv
<1> USE DEF TypeInv, TypeOK, Busy
<1>t. /\ last \in Nat /\ row \in Nat \cup {NoRow} /\ boot \in Nat
      /\ journal \in Seq(Event) /\ Len(journal) \in Nat
      /\ events \in SUBSET Event /\ IsFiniteSet(events) /\ UniqueKeys(events)
      /\ \A e \in Seen : e \in Event /\ e.seq \in Nat
      /\ \A e \in events : e.seq \in Nat
    BY LenProperties DEF Event, Seen
<1>s. SaveRow => row' = last
    BY DEF SaveRow, StoreFails
<1>1. CASE Restart
    <2>1. /\ phase = "down" /\ phase' = "idle" /\ events' = events /\ row' = row
          /\ Seen' = Seen
        BY <1>1 DEF Restart, store, Seen
    <2>2. TableFilled' /\ CurrentStored' /\ SeenCovered' /\ SeenStored' /\ SequenceNamesOneEvent'
        BY <1>h, <2>1 DEF Intact, TableFilled, Newest, CurrentStored, SeenCovered, SeenStored,
                          SequenceNamesOneEvent, Seen
    <2>3. CASE /\ row # NoRow /\ entry' \in {"live", "recovered"}
               /\ last' = row /\ journal' = EventsAfterStart
        <3>1. row \in Nat /\ Fills(events, row)
            BY <1>h, <1>t, <2>1, <2>3 DEF Intact, TableFilled, Newest
        <3>2. Tiles(journal', last')
            BY <1>t, <2>3, <3>1, RecoveredTiles
        <3>3. \A i \in 1..Len(journal') : journal'[i] \in events'
            BY <1>t, <2>1, <2>3, RecoveredJournal
        <3>4. QED
            BY <2>1, <2>2, <2>3, <3>2, <3>3
            DEF Intact, JournalTiled, JournalStored, RowExists, Registered
    <2>4. CASE row = NoRow /\ UNCHANGED memory
        <3>1. entry' = entry /\ ~Registered /\ last' = last /\ journal' = journal
            BY <1>h, <2>1, <2>4 DEF RowCovers, Registered, memory
        <3>2. QED
            BY <1>h, <2>1, <2>2, <2>4, <3>1 DEF Intact, JournalTiled, JournalStored,
                RowExists, Registered
    <2>5. QED
        BY <1>1, <2>3, <2>4 DEF Restart, StoreFails
<1>2. ASSUME NEW n \in 1..MaxBatch, OpenSession(n) PROVE Intact'
    <2>1. /\ row = NoRow /\ journal = <<>> /\ last = 0 /\ row' = 0 /\ last' = 0
          /\ journal' = <<>> /\ phase' = "append" /\ events' = events /\ Seen' = Seen
          /\ phase = "idle" /\ entry' = "live"
        BY <1>2, <1>h, <1>s DEF OpenSession, Intact, RowExists, Seen
    <2>2. Oldest(-1) = 1 /\ Oldest(0) = 1
        BY JournalAssumption DEF Oldest
    <2>3. events = {} /\ Seen = {}
        <3>1. \A r \in events : r.seq \in 1..(-1)
            BY <1>h, <2>1, <2>2 DEF Intact, TableFilled, Newest, Fills
        <3>2. \A e \in Seen : e.seq <= -1
            BY <1>h, <2>1 DEF Intact, SeenCovered
        <3>3. QED
            BY <1>t, <3>1, <3>2
    <2>4. TableFilled'
        BY <2>1, <2>2, <2>3 DEF TableFilled, Newest, Fills
    <2>5. Len(<<>>) = 0
        BY EmptySeq
    <2>6. JournalTiled' /\ JournalStored'
        BY <2>1, <2>2, <2>5 DEF JournalTiled, JournalStored, Tiles
    <2>7. QED
        BY <2>1, <2>3, <2>4, <2>6
        DEF Intact, CurrentStored, RowExists, SeenCovered, SeenStored, SequenceNamesOneEvent, Seen
<1>3. ASSUME NEW n \in 1..MaxBatch, BeginOperation(n) PROVE Intact'
    BY <1>3, <1>h, IntactUntouched DEF BeginOperation, memory, store, history
<1>4. CASE ArchiveSession
    <2>1. row = last
        BY <1>4, <1>h DEF ArchiveSession, RowCovers, Registered
    <2>2. QED
        BY <1>4, <1>h, <1>s, <2>1, IntactUntouched DEF ArchiveSession, memory
<1>5. CASE AppendInMemory
    <2>1. /\ phase = "append" /\ phase' = "store" /\ entry = "live" /\ row = last
          /\ last' = last + 1 /\ journal' = PushBounded(journal, Current')
          /\ UNCHANGED <<entry, row, events, boot, published, replayed>>
        BY <1>5, <1>h DEF AppendInMemory, RowCovers, Registered, Current, store, history
    <2>2. Current' \in Event /\ Current'.seq = last + 1
        BY <1>t, <2>1 DEF Current, Event
    <2>3. Tiles(journal, last) /\ \A i \in 1..Len(journal) : journal[i] \in events
        BY <1>h, <2>1 DEF Intact, JournalTiled, JournalStored, Registered
    <2>4. /\ Tiles(journal', last')
          /\ \A i \in 1..Len(journal') :
                journal'[i] = Current' \/ \E j \in 1..Len(journal) : journal'[i] = journal[j]
        BY <1>t, <2>1, <2>2, <2>3, PushTiles
    <2>5. JournalTiled' /\ JournalStored'
        BY <2>1, <2>3, <2>4 DEF JournalTiled, JournalStored
    <2>6. QED
        BY <1>h, <2>1, <2>5
        DEF Intact, TableFilled, Newest, CurrentStored, RowExists, SeenCovered, SeenStored,
            SequenceNamesOneEvent, Seen
<1>6. CASE StoreEvent
    <2>1. /\ phase = "store" /\ phase' = "persist" /\ entry = "live" /\ last = row + 1
          /\ UNCHANGED <<entry, last, journal, row, boot, published, replayed>>
        BY <1>6, <1>h DEF StoreEvent, RowCovers, memory
    <2>2. row \in Nat
        BY <1>h, <1>t, <2>1 DEF Intact, RowExists, Registered
    <2>3. Fills(events, row)
        BY <1>h, <2>1 DEF Intact, TableFilled, Newest
    <2>4. InsertAccepted(Current)
        <3>1. \A r \in events : r.seq <= row
            BY <2>2, <2>3, FillsBelow
        <3>2. QED
            BY <1>t, <2>1, <2>2, <3>1 DEF InsertAccepted, Current
    <2>5. events' = Prune(events \cup {Current})
        BY <1>6, <1>h, <2>4 DEF StoreEvent, StoreFails
    <2>6. Current \in Event /\ Current.seq = row + 1 /\ Current' = Current
        BY <1>t, <2>1 DEF Current, Event
    <2>7. /\ Fills(events', row + 1) /\ Current \in events'
          /\ \A r \in events : r.seq >= Oldest(row + 1) => r \in events'
          /\ events' \subseteq events \cup {Current}
        <3>1. events \in SUBSET Event /\ row \in Nat
            BY <1>t, <2>2
        <3>2. /\ Fills(Prune(events \cup {Current}), row + 1)
              /\ Current \in Prune(events \cup {Current})
              /\ \A r \in events :
                    r.seq >= Oldest(row + 1) => r \in Prune(events \cup {Current})
            BY <2>3, <2>6, <3>1, PruneFills
        <3>3. \A T : Prune(T) \subseteq T
            BY DEF Prune
        <3>4. QED
            BY <2>5, <3>2, <3>3, Zenon
    <2>8. ASSUME NEW i \in 1..Len(journal) PROVE journal[i] \in events'
        <3>1. journal[i].seq = Oldest(row + 1) + i - 1
            BY <1>h, <2>1 DEF Intact, JournalTiled, Tiles, Registered
        <3>2. journal[i].seq >= Oldest(row + 1)
            BY <1>t, <2>2, <3>1, OldestBounds
        <3>3. journal[i] \in events \/ journal[i] = Current
            BY <1>h, <2>1 DEF Intact, JournalStored, Registered
        <3>4. QED
            BY <2>7, <3>2, <3>3
    <2>9. TableFilled' /\ JournalTiled' /\ JournalStored' /\ CurrentStored'
        BY <1>h, <2>1, <2>6, <2>7, <2>8
        DEF Intact, TableFilled, Newest, JournalTiled, JournalStored, CurrentStored, Registered
    <2>10. SeenStored'
        <3> SUFFICES ASSUME NEW e \in Seen, NEW r \in events', e.seq = r.seq PROVE e = r
            BY <2>1 DEF SeenStored, Seen
        <3>1. e.seq <= row
            BY <1>h DEF Intact, SeenCovered
        <3>2. r \in events
            BY <1>t, <2>2, <2>6, <2>7, <3>1
        <3>3. QED
            BY <1>h, <3>2 DEF Intact, SeenStored
    <2>11. RowExists' /\ SeenCovered' /\ SequenceNamesOneEvent'
        BY <1>h, <2>1 DEF Intact, RowExists, SeenCovered, SequenceNamesOneEvent, Seen,
                          Registered
    <2>12. QED
        BY <2>9, <2>10, <2>11 DEF Intact
<1>7. CASE PersistSession
    <2>1. /\ phase = "persist" /\ phase' = "publish" /\ entry = "live" /\ last = row + 1
          /\ row' = last
          /\ UNCHANGED <<entry, last, journal, events, boot, published, replayed>>
        BY <1>7, <1>h, <1>s DEF PersistSession, RowCovers, memory
    <2>2. SeenCovered'
        BY <1>h, <1>t, <2>1 DEF Intact, SeenCovered, Seen
    <2>3. QED
        BY <1>h, <2>1, <2>2
        DEF Intact, TableFilled, Newest, JournalTiled, JournalStored, CurrentStored, RowExists,
            SeenStored, SequenceNamesOneEvent, Seen, Registered, Current
<1>8. CASE Publish
    <2>1. /\ phase = "publish" /\ phase' \in {"idle", "append"} /\ row = last
          /\ Seen' = Seen \cup {Current} /\ Current \in events /\ Current.seq = last
          /\ UNCHANGED <<entry, last, journal, events, row, boot>>
        BY <1>8, <1>h DEF Publish, RowCovers, memory, store, Seen, Intact, CurrentStored, Current
    <2>2. SeenCovered'
        BY <1>h, <1>t, <2>1 DEF Intact, SeenCovered
    <2>3. SeenStored'
        BY <1>h, <1>t, <2>1 DEF Intact, SeenStored, UniqueKeys
    <2>4. \A a, b \in Seen' : a.seq = b.seq => a = b
        BY <1>h, <2>1 DEF Intact, SeenStored, SequenceNamesOneEvent, Seen
    <2>5. QED
        BY <1>h, <2>1, <2>2, <2>3, <2>4
        DEF Intact, TableFilled, Newest, JournalTiled, JournalStored, CurrentStored, RowExists,
            SequenceNamesOneEvent, Seen, Registered, Current
<1>9. ASSUME NEW c \in Clients, Subscribe(c) \/ Drain(c) \/ Unsubscribe(c) PROVE Intact'
    BY <1>9, <1>h, IntactUntouched DEF Subscribe, Drain, Unsubscribe, memory, store, history
<1>10. ASSUME NEW after \in 0..MaxSequence, Attach(after) PROVE Intact'
    <2> DEFINE R == {journal[i] : i \in AttachReplay(after)}
    <2>1. /\ phase = "idle" /\ phase' = phase /\ Registered /\ row = last
          /\ Seen' = Seen \cup R
          /\ UNCHANGED <<entry, last, journal, events, row, boot>>
        BY <1>10, <1>h DEF Attach, RowCovers, memory, store, Seen
    <2>2. R \subseteq events
        BY <1>h, <1>t, <2>1, LenProperties DEF AttachReplay, Intact, JournalStored
    <2>3. \A e \in R : e.seq <= row
        <3>1. Fills(events, row)
            BY <1>h, <2>1 DEF Intact, TableFilled, Newest
        <3>2. \A e \in events : e.seq <= row
            BY <1>t, <2>1, <3>1, FillsBelow
        <3>3. QED
            BY <2>2, <3>2
    <2> HIDE DEF R
    <2>4. SeenCovered'
        BY <1>h, <1>t, <2>1, <2>3 DEF Intact, SeenCovered
    <2>5. SeenStored'
        BY <1>h, <1>t, <2>1, <2>2 DEF Intact, SeenStored, UniqueKeys
    <2>6. \A a, b \in Seen' : a.seq = b.seq => a = b
        BY <1>h, <1>t, <2>1, <2>2 DEF Intact, SeenStored, SequenceNamesOneEvent, Seen, UniqueKeys
    <2>7. QED
        BY <1>h, <2>1, <2>4, <2>5, <2>6
        DEF Intact, TableFilled, Newest, JournalTiled, JournalStored, CurrentStored, RowExists,
            SequenceNamesOneEvent, Seen, Registered, Current
<1>11. CASE Shutdown \/ Kill
    <2>1. LoseMemory /\ phase # "persist"
        BY <1>11, <1>h DEF Shutdown, Kill
    <2>2. /\ phase' = "down" /\ entry' \in {"unborn", "absent"} /\ last' = 0 /\ journal' = <<>>
          /\ entry' = "unborn" => entry = "unborn"
          /\ UNCHANGED <<row, events, published, replayed>>
        BY <2>1 DEF LoseMemory, store
    <2>3. QED
        BY <1>h, <2>1, <2>2
        DEF Intact, TableFilled, Newest, JournalTiled, JournalStored, CurrentStored, RowExists,
            SeenCovered, SeenStored, SequenceNamesOneEvent, Seen, Registered
<1>12. CASE UNCHANGED vars
    BY <1>12, <1>h, IntactUntouched DEF vars, memory, store, history
<1>13. QED
    BY <1>1, <1>2, <1>3, <1>4, <1>5, <1>6, <1>7, <1>8, <1>9, <1>10, <1>11, <1>12 DEF Next

-----------------------------------------------------------------------------
(* What follows *)

\* The invariant of the whole specification.
LEMMA IntactAlways == Spec => [](TypeInv /\ NumberInv /\ IntactInv)
BY TypeInvInit, TypeInvStep, NumberInvInit, NumberInvStep, IntactInvInit, IntactStep, PTL
DEF Spec

\* Kills, shutdowns and restarts never make append give a number to two events
\* of which a client has been given one: live streams and replays agree.
THEOREM ReplayAgrees == Spec => []ReplayAgreesWithStream
<1>1. IntactInv => ReplayAgreesWithStream
    BY DEF IntactInv, Intact, ReplayAgreesWithStream
<1>2. QED
    BY <1>1, IntactAlways, PTL

\* While the mutex is free the database is a copy of the memory, for every limit
\* and however often the host was killed before.
THEOREM DatabaseIsCopy == Spec => []DurableAtRest
<1>1. TypeInv /\ NumberInv /\ IntactInv => DurableAtRest
    <2> SUFFICES ASSUME TypeInv, NumberInv, IntactInv, hurt = {}, phase = "idle", Registered
                 PROVE  EventsAfterStart = journal /\ row = last
        BY DEF DurableAtRest
    <2> USE DEF TypeInv, TypeOK
    <2>1. Intact /\ row = last /\ last \in Nat
        BY DEF IntactInv, NumberInv, RowCovers
    <2>2. Fills(events, last) /\ Tiles(journal, last) /\ \A i \in 1..Len(journal) : journal[i] \in events
        BY <2>1 DEF Intact, TableFilled, Newest, JournalTiled, JournalStored
    <2>3. /\ Tiles(EventsAfterStart, last) /\ EventsAfterStart \in Seq(Event)
          /\ \A i \in 1..Len(EventsAfterStart) : EventsAfterStart[i] \in events
        BY <2>1, <2>2, RecoveredTiles, RecoveredJournal
    <2>4. QED
        BY <2>1, <2>2, <2>3, TilesAgree
<1>2. QED
    BY <1>1, IntactAlways, PTL

\* A client that attaches with any cursor is told to resynchronise or given every
\* event after its cursor, each once.
THEOREM ReplayIsComplete == Spec => []ReplayComplete
<1>1. TypeInv /\ NumberInv /\ IntactInv => ReplayComplete
    <2> SUFFICES ASSUME TypeInv, NumberInv, IntactInv, hurt = {}, phase = "idle", Registered,
                        NEW after \in 0..last, ~AttachResync(after)
                 PROVE  /\ \A i \in AttachReplay(after) : journal[i].seq \in (after + 1)..last
                        /\ \A n \in (after + 1)..last :
                              \E i \in AttachReplay(after) :
                                  \A j \in DOMAIN journal : journal[j].seq = n <=> j = i
        BY DEF ReplayComplete
    <2> DEFINE lo == Oldest(last)
               len == Len(journal)
    <2>1. /\ last \in Nat /\ len \in Nat /\ DOMAIN journal = 1..len
          /\ lo \in Nat \ {0} /\ (last >= 1 => lo <= last)
        BY LenProperties, OldestBounds DEF TypeInv, TypeOK
    <2>2. len = last - lo + 1 /\ \A i \in 1..len : journal[i].seq = lo + i - 1
        BY DEF IntactInv, Intact, JournalTiled, Tiles
    <2>3. AttachReplay(after) = {i \in 1..len : lo + i - 1 > after}
        BY <2>1, <2>2 DEF AttachReplay
    <2>4. len >= 1 => lo <= after + 1
        <3> SUFFICES ASSUME len >= 1 PROVE lo <= after + 1
            OBVIOUS
        <3>1. journal # <<>>
            BY EmptySeq
        <3>2. journal[1].seq = lo
            BY <2>1, <2>2
        <3>3. QED
            BY <2>1, <3>1, <3>2 DEF AttachResync
    <2> HIDE DEF lo, len
    <2>5. ASSUME NEW i \in AttachReplay(after) PROVE journal[i].seq \in (after + 1)..last
        BY <2>1, <2>2, <2>3
    <2>6. ASSUME NEW n \in (after + 1)..last
          PROVE  \E i \in AttachReplay(after) :
                     \A j \in DOMAIN journal : journal[j].seq = n <=> j = i
        <3> DEFINE k == n - lo + 1
        <3>1. k \in 1..len /\ lo + k - 1 = n /\ n > after
            BY <2>1, <2>2, <2>4
        <3>2. k \in AttachReplay(after)
            BY <2>3, <3>1
        <3>3. \A j \in 1..len : journal[j].seq = n <=> j = k
            <4> SUFFICES ASSUME NEW j \in 1..len PROVE journal[j].seq = n <=> j = k
                OBVIOUS
            <4>1. journal[j].seq = lo + j - 1
                BY <2>2
            <4>2. lo + j - 1 = n <=> j = k
                BY <2>1
            <4>3. QED
                BY <4>1, <4>2, Zenon
        <3>4. QED
            BY <2>1, <3>2, <3>3
    <2>7. QED
        BY <2>5, <2>6
<1>2. QED
    BY <1>1, IntactAlways, PTL
=============================================================================
