---------------------------- MODULE SessionJournal ----------------------------
(***************************************************************************)
(* The event journal of one session: the in-memory journal of the          *)
(* SessionManager (rust/session-core/src/manager.rs), the SQLite store that *)
(* backs it (rust/session-store/src/lib.rs) and what a restart makes of it. *)
(*                                                                         *)
(* Every operation of the manager holds the manager's mutex from its first *)
(* to its last append.  An append is four steps that a process death can   *)
(* separate: the in-memory push, the transaction that inserts the event,   *)
(* the statement that saves the session row, and the sends to subscribers. *)
(*                                                                         *)
(* Abstractions.  Sessions share nothing but the mutex, so one session is  *)
(* followed.  An event is its sequence number and the run of the host that *)
(* appended it: a run never gives two events one number, so the pair tells *)
(* events apart.  What an operation says in its events is in AgentTurn.    *)
(***************************************************************************)
EXTENDS Integers, Sequences, FiniteSets

CONSTANTS Clients,      \* gateway connections that may subscribe
          JournalLimit, \* HostConfig.journal_limit: journal and event table
          Faults,       \* the faults the environment may inject
          MaxSequence,  \* bound: no append goes past this sequence
          MaxBoot,      \* bound: the number of runs of the host process
          MaxBatch      \* bound: appends made under one hold of the mutex

ASSUME JournalAssumption ==
    /\ JournalLimit \in Nat \ {0}
    /\ Faults \subseteq {"kill", "io"}
    /\ MaxSequence \in Nat
    /\ MaxBoot \in Nat
    /\ MaxBatch \in Nat \ {0}

VARIABLES
    phase,      \* where the holder of the manager's mutex is
    rest,       \* appends the current operation still has to finish
    boot,       \* which run of the host process this is
    entry,      \* where Inner keeps the session
    last,       \* summary.last_sequence
    journal,    \* Session.journal or RecoveredSession.journal
    row,        \* last_sequence of the row in table sessions, or NoRow
    events,     \* rows of table events
    subscribed, \* clients that hold a receiver
    chan,       \* events sent to a client's receiver and not yet drained
    published,  \* history: events that were sent to the subscribers
    replayed,   \* history: events that an attach returned
    hurt        \* history: "io" once the store has failed a call, "torn" once
                \* the process died between the two transactions of an append

memory  == <<entry, last, journal>>
store   == <<row, events>>
streams == <<subscribed, chan>>
history == <<published, replayed, hurt>>
vars == <<phase, rest, boot, memory, store, streams, history>>

NoRow == -1

Event == [seq : Nat, boot : Nat]

Phases == {"down", "idle", "append", "store", "persist", "publish"}

\* "append" has not pushed the next event; the three phases after it have.
InFlight == phase \in {"store", "persist", "publish"}

\* The event that append is working on.
Current == [seq |-> last, boot |-> boot]

Registered == entry \in {"live", "recovered"}

-----------------------------------------------------------------------------
(* Helpers *)

\* Mutation: the boundary is off by one.
PushBoundedOffByOne(s, e) ==
    IF Len(s) <= JournalLimit
    THEN Append(s, e)
    ELSE SubSeq(Append(s, e), Len(s) + 1 - JournalLimit, Len(s) + 1)

\* VecDeque::push_back, then pop_front while the journal is over its limit.
PushBounded(s, e) ==
    IF Len(s) < JournalLimit
    THEN Append(s, e)
    ELSE SubSeq(Append(s, e), Len(s) + 2 - JournalLimit, Len(s) + 1)

\* INSERT INTO events fails when the key is taken or no session row exists.
InsertAccepted(e) == row # NoRow /\ \A r \in events : r.seq # e.seq

\* Mutation: the boundary is off by one.
PruneOffByOne(rows) == {r \in rows : \A q \in rows : r.seq >= q.seq - JournalLimit}

\* DELETE FROM events WHERE sequence <= MAX(sequence) - event_limit.
Prune(rows) == {r \in rows : \A q \in rows : r.seq > q.seq - JournalLimit}

\* SELECT ... ORDER BY sequence LIMIT journal_limit, from the first row on.
Rank(r, rows) == Cardinality({q \in rows : q.seq < r.seq}) + 1

EventsAfterStart ==
    LET kept == {r \in events : Rank(r, events) <= JournalLimit}
    IN  [i \in 1..Cardinality(kept) |-> CHOOSE r \in kept : Rank(r, events) = i]

\* attach: the retained events after a client's cursor.
AttachReplay(after) == {i \in DOMAIN journal : journal[i].seq > after}

\* Mutation: the boundary is off by one.
AttachResyncOffByOne(after) == journal # <<>> /\ after + 2 < journal[1].seq

\* attach: the cursor predates what is retained.
AttachResync(after) == journal # <<>> /\ after + 1 < journal[1].seq

-----------------------------------------------------------------------------
(* Actions *)

\* A call of the store returns an error, which the manager ignores.
StoreFails ==
    /\ "io" \in Faults
    /\ hurt' = hurt \cup {"io"}

\* persist_session: the row of the session takes the number of its last event.
SaveRow ==
    \/ row' = last /\ UNCHANGED hurt
    \/ StoreFails /\ UNCHANGED row

\* An empty database and a host that has not started.
Init ==
    /\ phase = "down"
    /\ rest = 0
    /\ boot = 0
    /\ entry = "unborn"
    /\ last = 0
    /\ journal = <<>>
    /\ row = NoRow
    /\ events = {}
    /\ subscribed = {}
    /\ chan = [c \in Clients |-> <<>>]
    /\ published = {}
    /\ replayed = {}
    /\ hurt = {}

\* Mutation: number on from the count of the stored events.
RestartFromCount ==
    /\ phase = "down"
    /\ boot < MaxBoot
    /\ phase' = "idle"
    /\ boot' = boot + 1
    /\ IF row = NoRow THEN UNCHANGED memory
                      ELSE /\ entry' \in {"live", "recovered"}
                           /\ last' = Cardinality(events)
                           /\ journal' = EventsAfterStart
    /\ UNCHANGED <<rest, store, streams, history>>

\* SessionManager::new over the store: a row becomes a live session when the
\* agent resumes it and a recovered one when it does not.  A store that cannot
\* be read yields no session, or no journal.
Restart ==
    /\ phase = "down"
    /\ boot < MaxBoot
    /\ phase' = "idle"
    /\ boot' = boot + 1
    /\ \/ /\ row # NoRow
          /\ entry' \in {"live", "recovered"}
          /\ last' = row
          /\ \/ journal' = EventsAfterStart /\ UNCHANGED hurt
             \/ StoreFails /\ journal' = <<>>
       \/ row = NoRow /\ UNCHANGED <<memory, hurt>>
       \/ StoreFails /\ UNCHANGED memory
    /\ UNCHANGED <<rest, store, streams, published, replayed>>

\* open_session, once the agent has answered: the session enters the map, its
\* row is saved, and the first Status event is appended (with an initial
\* prompt, the prompt's events too).
OpenSession(n) ==
    /\ phase = "idle"
    /\ entry = "unborn"
    /\ entry' = "live"
    /\ SaveRow
    /\ phase' = "append"
    /\ rest' = n
    /\ UNCHANGED <<boot, last, journal, events, streams, published, replayed>>

\* Any other operation that appends: it takes the mutex of a live session.
BeginOperation(n) ==
    /\ phase = "idle"
    /\ entry = "live"
    /\ last + n <= MaxSequence
    /\ phase' = "append"
    /\ rest' = n
    /\ UNCHANGED <<boot, memory, store, streams, history>>

\* archive_session saves the row of a live session without an append (the row
\* of a recovered session is rewritten with the number it has).
ArchiveSession ==
    /\ phase = "idle"
    /\ entry = "live"
    /\ SaveRow
    /\ UNCHANGED <<phase, rest, boot, memory, events, streams, published, replayed>>

\* append, first part: number the event and push it on the journal.
AppendInMemory ==
    /\ phase = "append"
    /\ last' = last + 1
    /\ journal' = PushBounded(journal, [seq |-> last + 1, boot |-> boot])
    /\ phase' = "store"
    /\ UNCHANGED <<rest, boot, entry, store, streams, history>>

\* Mutation: append returns early when the store reports an error.
StoreEventPropagatesError ==
    /\ phase = "store"
    /\ \/ /\ InsertAccepted(Current)
          /\ events' = Prune(events \cup {Current})
          /\ phase' = "persist"
          /\ UNCHANGED <<rest, hurt>>
       \/ /\ (~InsertAccepted(Current) /\ UNCHANGED hurt) \/ StoreFails
          /\ phase' = "idle"
          /\ rest' = 0
          /\ UNCHANGED events
    /\ UNCHANGED <<boot, memory, row, streams, published, replayed>>

\* append, second part: SqliteStore::append_event, whose error is ignored.
StoreEvent ==
    /\ phase = "store"
    /\ \/ /\ InsertAccepted(Current)
          /\ events' = Prune(events \cup {Current})
          /\ UNCHANGED hurt
       \/ /\ ~InsertAccepted(Current)
          /\ UNCHANGED <<events, hurt>>
       \/ StoreFails /\ UNCHANGED events
    /\ phase' = "persist"
    /\ UNCHANGED <<rest, boot, memory, row, streams, published, replayed>>

\* Mutation: append leaves the session row to a later save.
PersistSessionSkipped ==
    /\ phase = "persist"
    /\ phase' = "publish"
    /\ UNCHANGED <<rest, boot, memory, store, streams, history>>

\* append, third part: persist_session, whose error is ignored.
PersistSession ==
    /\ phase = "persist"
    /\ SaveRow
    /\ phase' = "publish"
    /\ UNCHANGED <<rest, boot, memory, events, streams, published, replayed>>

\* Mutation: the operation appends once more than it has events.
PublishOneTooMany ==
    /\ phase = "publish"
    /\ chan' = [c \in Clients |-> IF c \in subscribed THEN Append(chan[c], Current)
                                                       ELSE chan[c]]
    /\ published' = published \cup {Current}
    /\ rest' = rest - 1
    /\ phase' = IF rest = 0 THEN "idle" ELSE "append"
    /\ UNCHANGED <<boot, memory, store, subscribed, replayed, hurt>>

\* append, last part: send to every subscriber; then the operation goes on
\* with its next append or releases the mutex.
Publish ==
    /\ phase = "publish"
    /\ chan' = [c \in Clients |-> IF c \in subscribed THEN Append(chan[c], Current)
                                                       ELSE chan[c]]
    /\ published' = published \cup {Current}
    /\ rest' = rest - 1
    /\ phase' = IF rest = 1 THEN "idle" ELSE "append"
    /\ UNCHANGED <<boot, memory, store, subscribed, replayed, hurt>>

\* subscribe: a new receiver, which replaces the one the connection had.
Subscribe(c) ==
    /\ phase = "idle"
    /\ entry = "live"
    /\ subscribed' = subscribed \cup {c}
    /\ chan' = [chan EXCEPT ![c] = <<>>]
    /\ UNCHANGED <<phase, rest, boot, memory, store, history>>

\* The connection thread takes one event from its receiver.
Drain(c) ==
    /\ phase # "down"
    /\ chan[c] # <<>>
    /\ chan' = [chan EXCEPT ![c] = Tail(@)]
    /\ UNCHANGED <<phase, rest, boot, memory, store, subscribed, history>>

\* The connection drops its receiver: session.detach, or the connection ends.
Unsubscribe(c) ==
    /\ c \in subscribed
    /\ subscribed' = subscribed \ {c}
    /\ chan' = [chan EXCEPT ![c] = <<>>]
    /\ UNCHANGED <<phase, rest, boot, memory, store, history>>

\* attach, and events.replay through it: read-only, under the mutex.
Attach(after) ==
    /\ phase = "idle"
    /\ Registered
    /\ replayed' = replayed \cup {journal[i] : i \in AttachReplay(after)}
    /\ UNCHANGED <<phase, rest, boot, memory, store, streams, published, hurt>>

\* What the death of the process leaves: the database.
LoseMemory ==
    /\ phase' = "down"
    /\ rest' = 0
    /\ entry' = IF entry = "unborn" THEN "unborn" ELSE "absent"
    /\ last' = 0
    /\ journal' = <<>>
    /\ subscribed' = {}
    /\ chan' = [c \in Clients |-> <<>>]
    /\ UNCHANGED <<boot, store, published, replayed>>

\* serve returns while no thread is inside the manager.
Shutdown ==
    /\ phase = "idle"
    /\ LoseMemory
    /\ UNCHANGED hurt

\* The process dies inside an operation: a crash, or a shutdown that does not
\* wait for the connection threads.
Kill ==
    /\ "kill" \in Faults
    /\ phase \notin {"down", "idle"}
    /\ LoseMemory
    /\ hurt' = IF phase = "persist" THEN hurt \cup {"torn"} ELSE hurt

Next ==
    \/ Restart
    \/ \E n \in 1..MaxBatch : OpenSession(n) \/ BeginOperation(n)
    \/ ArchiveSession
    \/ AppendInMemory \/ StoreEvent \/ PersistSession \/ Publish
    \/ \E c \in Clients : Subscribe(c) \/ Drain(c) \/ Unsubscribe(c)
    \/ \E after \in 0..MaxSequence : Attach(after)
    \/ Shutdown
    \/ Kill

Spec == Init /\ [][Next]_vars

-----------------------------------------------------------------------------
(* Properties *)

\* The types of the manager's memory (Session), the tables and the receivers.
TypeOK ==
    /\ phase \in Phases
    /\ rest \in Nat
    /\ boot \in Nat
    /\ entry \in {"unborn", "absent", "live", "recovered"}
    /\ last \in Nat
    /\ journal \in Seq(Event)
    /\ row \in Nat \cup {NoRow}
    /\ events \subseteq Event /\ IsFiniteSet(events)
    /\ subscribed \subseteq Clients
    /\ chan \in [Clients -> Seq(Event)]
    /\ published \subseteq Event
    /\ replayed \subseteq Event
    /\ hurt \subseteq {"torn", "io"}

\* Whatever crashes and store errors happen, the trim in append and the DELETE
\* in append_event keep journal and table within the configured limit, also
\* when a journal is rebuilt from the table.
JournalBounded ==
    /\ Len(journal) <= JournalLimit
    /\ Cardinality(events) <= JournalLimit

\* The number of the last event that append has sent to the subscribers.
PublishedUpTo == IF InFlight THEN last - 1 ELSE last

\* A receiver holds consecutive events that end with the newest published one:
\* between subscribe and the drop of the receiver, append skips and repeats
\* nothing, whatever the store answers and however often the host restarted.
StreamContiguous ==
    \A c \in Clients : \A i \in 1..Len(chan[c]) :
        chan[c][i].seq = PublishedUpTo - Len(chan[c]) + i

\* No two events that were ever sent to a subscriber carry one sequence number,
\* across any number of crashes inside append: persist_session comes before the
\* sends, so the number a restart continues from covers every event sent.  Only
\* an error of the store, which append ignores, can break it.
PublishedUnique ==
    "io" \notin hurt => \A a, b \in published : a.seq = b.seq => a = b

\* No client is ever given two different events under one sequence number, be
\* it live or by a replay.
SequenceNamesOneEvent ==
    \A a, b \in published \cup replayed : a.seq = b.seq => a = b

\* The same, as far as it holds: a death of the process at any other point than
\* between append_event and persist_session leaves the numbering intact.
ReplayAgreesWithStream ==
    hurt = {} => SequenceNamesOneEvent

\* attach keeps its promise: unless it reports resync_required, the events it
\* replays are those after the cursor up to latest_sequence, each once.  Kills
\* and restarts do not change that, a torn append or an ignored error does.
ReplayComplete ==
    hurt = {} /\ phase = "idle" /\ Registered =>
        \A after \in 0..last : ~AttachResync(after) =>
            /\ \A i \in AttachReplay(after) : journal[i].seq \in (after + 1)..last
            /\ \A n \in (after + 1)..last :
                  \E i \in AttachReplay(after) :
                      \A j \in DOMAIN journal : journal[j].seq = n <=> j = i

\* Whenever the mutex is free the database is a copy of the memory: a restart
\* at this point reads back the same journal and continues its numbering.
DurableAtRest ==
    hurt = {} /\ phase = "idle" /\ Registered => EventsAfterStart = journal /\ row = last

\* What the gateway sees of the manager is EventStream: the four steps of append,
\* the crashes between them and the recovery add up to one publication of one
\* new number to all receivers.
Stream == INSTANCE EventStream
    WITH log <- published, attached <- subscribed, queue <- chan,
         sound <- "io" \notin hurt

StreamSpec == Stream!Spec
=============================================================================
