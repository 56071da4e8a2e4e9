---------------------------- MODULE GatewayReplay ----------------------------
(***************************************************************************)
(* How the events of one session reach one client: the connection thread of *)
(* the gateway (rust/gateway-server/src/server.rs) with its subscription    *)
(* and its outbound queue, and the replay cursor of the Apple client        *)
(* (SlightGateway/Connection/GatewayConnection.swift, EventJournal.swift).  *)
(*                                                                         *)
(* The journal of the session is what EventStream promises: the events      *)
(* Oldest..latest, each appended once.  Appends come from other threads at  *)
(* any time; session.attach and events.replay take the manager's mutex      *)
(* twice, once for the result and once for the subscription.                *)
(*                                                                         *)
(* Abstractions.  An event is its sequence number.  Both directions of the  *)
(* socket are first-in-first-out, so a request and its ack are one token    *)
(* that moves through requests, serving, out and wire; `live` says whether  *)
(* the client still waits for it (it forgets a request on a timeout).       *)
(* Handshake, heartbeats and other commands are in Gateway.                 *)
(***************************************************************************)
EXTENDS Integers, Sequences, FiniteSets

CONSTANTS JournalLimit, \* HostConfig.journal_limit
          MaxReplay,    \* HostConfig.max_replay_events
          PageLimit,    \* the limit of session.history
          Faults,       \* "drop", "timeout", "blocked"
          MaxSequence,  \* bound: appends
          MaxAttach,    \* bound: foreground attaches
          MaxFaults,    \* bound: faults in a behaviour
          MaxQueue      \* bound: requests that are told apart

ASSUME ReplayAssumption ==
    /\ JournalLimit \in Nat \ {0}
    /\ MaxReplay \in Nat \ {0}
    /\ PageLimit \in Nat \ {0}
    /\ Faults \subseteq {"drop", "timeout", "blocked"}
    /\ MaxSequence \in Nat \ {0}
    /\ MaxAttach \in Nat
    /\ MaxFaults \in Nat
    /\ MaxQueue \in Nat \ {0}

VARIABLES
    latest,     \* last_sequence of the session
    \* the connection and its thread
    link,       \* up or down
    pc,         \* read, subscribe, drain, write
    serving,    \* the ack under construction, or NoAck
    subscribed, \* whether the thread holds a receiver
    receiver,   \* events sent to it and not yet drained
    out,        \* the outbound queue
    \* the two directions of the socket
    requests,
    wire,
    \* the client
    attached,   \* attachedSessions contains the session
    cursor,     \* EventJournal.lastSequence
    awaiting,   \* pendingAttachSessions contains the session
    deferred,   \* deferredAttachEvents of the session
    loaded,     \* sequences in the view's loadedHistoryEvents
    until,      \* the newest event its first history page asked for
    more,       \* hasOlderHistory
    \* history
    attaches, faults,
    missed,     \* events appended between attach and subscribe
    forgot      \* a request of the client timed out

hostVars   == <<pc, serving, subscribed, receiver, out>>
cursorVars == <<attached, cursor, awaiting, deferred>>
viewVars   == <<loaded, until, more>>
history    == <<attaches, faults, missed, forgot>>
vars == <<latest, link, hostVars, requests, wire, cursorVars, viewVars, history>>

-----------------------------------------------------------------------------
(* The journal of the host *)

MaxOf(a, b) == IF a > b THEN a ELSE b
MinOf(a, b) == IF a < b THEN a ELSE b

Oldest == MaxOf(1, latest - JournalLimit + 1)

Request == [kind : {"attach", "replay"}, live : BOOLEAN]

Ack == [kind : {"attach", "replay"}, live : BOOLEAN,
        latest : Nat, from : Nat, to : Nat]

Frame == Ack \cup [kind : {"event"}, seq : Nat]

NoAck == [kind |-> "none"]

\* attach with no after_sequence: neither command of the client names one that
\* the host reads (events.replay says fromSequence), so the whole journal is
\* replayed and no resync is ever demanded.  session.attach sends no events,
\* events.replay the first max_replay_events.
AttachResult(r) ==
    [kind   |-> r.kind,
     live   |-> r.live,
     latest |-> latest,
     from   |-> Oldest,
     to     |-> IF r.kind = "attach" THEN Oldest - 1
                                     ELSE MinOf(latest, Oldest + MaxReplay - 1)]

\* Mutation: the page leaves out its oldest event.
HistoryPageShort(before) ==
    LET eligible == {n \in Oldest..latest : n < before}
        start    == MaxOf(Oldest, before - PageLimit)
    IN  [events |-> {n \in eligible : n > start}, more |-> start > Oldest]

\* history: the last PageLimit retained events before a sequence number.
HistoryPage(before) ==
    LET eligible == {n \in Oldest..latest : n < before}
        start    == MaxOf(Oldest, before - PageLimit)
    IN  [events |-> {n \in eligible : n >= start}, more |-> start > Oldest]

-----------------------------------------------------------------------------
Init ==
    /\ latest = 1
    /\ link = "up"
    /\ pc = "read" /\ serving = NoAck
    /\ subscribed = FALSE /\ receiver = <<>> /\ out = <<>>
    /\ requests = <<>> /\ wire = <<>>
    /\ attached = FALSE /\ cursor = 0
    /\ awaiting = FALSE /\ deferred = {}
    /\ loaded = {} /\ until = 0 /\ more = FALSE
    /\ attaches = 0 /\ faults = 0 /\ missed = {} /\ forgot = FALSE

\* Another thread appends an event and sends it to the receiver.
AppendEvent ==
    /\ latest < MaxSequence
    /\ latest' = latest + 1
    /\ receiver' = IF subscribed THEN Append(receiver, latest + 1) ELSE receiver
    /\ UNCHANGED <<link, pc, serving, subscribed, out, requests, wire, cursorVars,
                   viewVars, history>>

-----------------------------------------------------------------------------
(* The connection thread: read or time out, drain, write, and again *)

\* A command is read; attach takes the mutex and computes the result.
DispatchAttach ==
    /\ link = "up" /\ pc = "read"
    /\ requests # <<>>
    /\ serving' = AttachResult(Head(requests))
    /\ requests' = Tail(requests)
    /\ pc' = "subscribe"
    /\ UNCHANGED <<latest, link, subscribed, receiver, out, wire, cursorVars, viewVars, history>>

\* subscribe takes the mutex again.  The new receiver replaces the old one,
\* and what the old one held is gone.
DispatchSubscribe ==
    /\ link = "up" /\ pc = "subscribe"
    /\ subscribed' = TRUE
    /\ receiver' = <<>>
    /\ missed' = missed \cup (serving.latest + 1)..latest
    /\ out' = Append(out, serving)
    /\ serving' = NoAck
    /\ pc' = "drain"
    /\ UNCHANGED <<latest, link, requests, wire, cursorVars, viewVars, attaches, faults, forgot>>

\* The read times out.
Poll ==
    /\ link = "up" /\ pc = "read"
    /\ requests = <<>>
    /\ receiver # <<>> \/ out # <<>>
    /\ pc' = "drain"
    /\ UNCHANGED <<latest, link, serving, subscribed, receiver, out, requests, wire, cursorVars,
                   viewVars, history>>

\* The environment injects a fault.
Fault(f) == f \in Faults /\ faults < MaxFaults /\ faults' = faults + 1

EventFrames(s) == [i \in DOMAIN s |-> [kind |-> "event", seq |-> s[i]]]

Drain ==
    /\ link = "up" /\ pc = "drain"
    /\ out' = out \o EventFrames(receiver)
    /\ receiver' = <<>>
    /\ pc' = "write"
    /\ UNCHANGED <<latest, link, serving, subscribed, requests, wire, cursorVars, viewVars,
                   history>>

Write ==
    /\ link = "up" /\ pc = "write"
    /\ wire' = wire \o out
    /\ out' = <<>>
    /\ pc' = "read"
    /\ UNCHANGED <<latest, link, serving, subscribed, receiver, requests, cursorVars, viewVars,
                   history>>

\* A frame the client no longer waits for.
Stale(f) == IF f.kind = "event" THEN f ELSE [f EXCEPT !.live = FALSE]

\* The socket would block at some frame: it goes back to the front of the
\* queue, although the socket may have taken it into its own buffer.
WriteBlocked(k) ==
    /\ Fault("blocked")
    /\ link = "up" /\ pc = "write"
    /\ \/ /\ wire' = wire \o SubSeq(out, 1, k - 1)
          /\ out' = SubSeq(out, k, Len(out))
       \/ /\ wire' = wire \o SubSeq(out, 1, k)
          /\ out' = <<Stale(out[k])>> \o SubSeq(out, k + 1, Len(out))
    /\ pc' = "read"
    /\ UNCHANGED <<latest, link, serving, subscribed, receiver, requests, cursorVars, viewVars,
                   attaches, missed, forgot>>

-----------------------------------------------------------------------------
(* The client *)

\* perform(.sessionAttach): a view attaches in the foreground.
SendAttach ==
    /\ link = "up"
    /\ attaches < MaxAttach /\ Len(requests) < MaxQueue
    /\ attaches' = attaches + 1
    /\ requests' = Append(requests, [kind |-> "attach", live |-> TRUE])
    /\ awaiting' = TRUE
    /\ UNCHANGED <<latest, link, hostVars, wire, attached, cursor, deferred, viewVars, faults,
                   missed, forgot>>

\* Answers the client waits for, behind the frame that is handled.
AnswersBehind ==
    LET Live(q, k) == Cardinality({i \in k..Len(q) : q[i].kind # "event" /\ q[i].live})
    IN  Live(out, 1) + Live(wire, 2) + (IF serving = NoAck THEN 0 ELSE 1)

\* requestReplay, n times over.  Requests for a replay are all alike; those
\* beyond MaxQueue under way at once are not told apart.
RequestReplays(n) ==
    LET room == MaxOf(0, MaxQueue - Len(requests) - AnswersBehind)
    IN  requests \o [i \in 1..MinOf(n, room) |-> [kind |-> "replay", live |-> TRUE]]

\* Mutation: a gap is dropped instead of being requested.
ReceiveEventIgnoringGaps ==
    /\ wire # <<>> /\ Head(wire).kind = "event"
    /\ LET n == Head(wire).seq
       IN  /\ cursor' = IF n = cursor + 1 THEN n ELSE cursor
           /\ deferred' = IF n > cursor + 1 /\ awaiting THEN deferred \cup {n} ELSE deferred
    /\ wire' = Tail(wire)
    /\ UNCHANGED <<latest, link, hostVars, requests, attached, awaiting, viewVars, history>>

\* handleEvent: accept the next event, drop a duplicate, defer a gap while an
\* attach is pending and ask for a replay otherwise.
ReceiveEvent ==
    /\ wire # <<>> /\ Head(wire).kind = "event"
    /\ LET n == Head(wire).seq
           gap == n > cursor + 1
       IN  /\ cursor' = IF n = cursor + 1 THEN n ELSE cursor
           /\ deferred' = IF gap /\ awaiting THEN deferred \cup {n} ELSE deferred
           /\ requests' = RequestReplays(IF gap /\ ~awaiting THEN 1 ELSE 0)
    /\ wire' = Tail(wire)
    /\ UNCHANGED <<latest, link, hostVars, attached, awaiting, viewVars, history>>

\* The end of the unbroken run of events in D that starts after n.
RunEnd(n, D) == CHOOSE m \in n..(n + Cardinality(D)) :
                    (n + 1)..m \subseteq D /\ m + 1 \notin D

\* handleAck of a foreground attach: the cursor goes to latest_sequence (the
\* view loads what lies before it page by page), then the deferred events are
\* handled in order.
ReceiveAttachAck ==
    /\ wire # <<>> /\ Head(wire).kind = "attach" /\ Head(wire).live
    /\ LET start == MaxOf(cursor, Head(wire).latest)
           later == {n \in deferred : n > start}
       IN  /\ cursor' = RunEnd(start, later)
           /\ requests' = RequestReplays(
                              Cardinality({n \in later : n > RunEnd(start, later)}))
    /\ attached' = TRUE
    /\ awaiting' = FALSE
    /\ deferred' = {}
    /\ until' = Head(wire).latest /\ loaded' = {} /\ more' = TRUE
    /\ wire' = Tail(wire)
    /\ UNCHANGED <<latest, link, hostVars, history>>

\* handleAck of a background replay: its events are handled like live ones,
\* each gap asking for another replay, and so does a cursor that is behind.
ReceiveReplayAck ==
    /\ wire # <<>> /\ Head(wire).kind = "replay" /\ Head(wire).live
    /\ LET ack == Head(wire)
           gaps == IF ack.from > cursor + 1 THEN ack.from..ack.to ELSE {}
       IN  /\ cursor' = IF gaps = {} THEN MaxOf(cursor, ack.to) ELSE cursor
           /\ deferred' = IF awaiting THEN deferred \cup gaps ELSE deferred
           /\ requests' = RequestReplays(
                              (IF awaiting THEN 0 ELSE Cardinality(gaps))
                              + (IF cursor' < ack.latest THEN 1 ELSE 0))
    /\ wire' = Tail(wire)
    /\ UNCHANGED <<latest, link, hostVars, attached, awaiting, viewVars, history>>

\* An ack nobody waits for.
ReceiveStaleAck ==
    /\ wire # <<>> /\ Head(wire).kind # "event"
    /\ ~Head(wire).live
    /\ wire' = Tail(wire)
    /\ UNCHANGED <<latest, link, hostVars, requests, cursorVars, viewVars, history>>

\* loadHistoryPage: the first page after an attach, or the next older one.
LoadHistory ==
    /\ link = "up" /\ until > 0 /\ more
    /\ LET before == IF loaded = {} THEN until + 1
                                    ELSE CHOOSE n \in loaded : \A m \in loaded : n <= m
           page == HistoryPage(before)
       IN  loaded' = loaded \cup page.events /\ more' = page.more
    /\ UNCHANGED <<latest, link, hostVars, requests, wire, cursorVars, until, history>>

\* The client gives up on a request, wherever the request or its ack is.
Forget(kind) ==
    /\ Fault("timeout")
    /\ forgot' = TRUE
    /\ IF kind = "attach" THEN awaiting' = FALSE /\ deferred' = {}
                          ELSE UNCHANGED <<awaiting, deferred>>
    /\ UNCHANGED <<latest, link, pc, subscribed, receiver, attached, cursor, viewVars, attaches,
                   missed>>

Timeout ==
    \/ \E i \in DOMAIN requests :
          /\ requests[i].live /\ Forget(requests[i].kind)
          /\ requests' = [requests EXCEPT ![i].live = FALSE]
          /\ UNCHANGED <<serving, out, wire>>
    \/ /\ serving # NoAck /\ serving.live /\ Forget(serving.kind)
       /\ serving' = [serving EXCEPT !.live = FALSE]
       /\ UNCHANGED <<requests, out, wire>>
    \/ \E i \in DOMAIN wire :
          /\ wire[i].kind # "event" /\ wire[i].live /\ Forget(wire[i].kind)
          /\ wire' = [wire EXCEPT ![i] = Stale(@)]
          /\ UNCHANGED <<requests, serving, out>>

\* Mutation: the ack under construction survives the connection.
DisconnectKeepsAck ==
    /\ Fault("drop")
    /\ link = "up"
    /\ link' = "down"
    /\ pc' = "read"
    /\ subscribed' = FALSE /\ receiver' = <<>> /\ out' = <<>>
    /\ requests' = <<>> /\ wire' = <<>>
    /\ awaiting' = FALSE /\ deferred' = {}
    /\ UNCHANGED <<latest, serving, attached, cursor, viewVars, attaches, missed, forgot>>

\* The connection is lost: failAllPending, and what was under way is gone.
Disconnect ==
    /\ Fault("drop")
    /\ link = "up"
    /\ link' = "down"
    /\ pc' = "read" /\ serving' = NoAck
    /\ subscribed' = FALSE /\ receiver' = <<>> /\ out' = <<>>
    /\ requests' = <<>> /\ wire' = <<>>
    /\ awaiting' = FALSE /\ deferred' = {}
    /\ UNCHANGED <<latest, attached, cursor, viewVars, attaches, missed, forgot>>

\* Mutation: the attachments are not restored.
ReconnectPlain ==
    /\ link = "down"
    /\ link' = "up"
    /\ UNCHANGED <<latest, hostVars, requests, wire, cursorVars, viewVars, history>>

\* The client connects again and, once welcomed, restores its attachment.
Reconnect ==
    /\ link = "down"
    /\ link' = "up"
    /\ requests' = RequestReplays(IF attached THEN 1 ELSE 0)
    /\ UNCHANGED <<latest, hostVars, wire, cursorVars, viewVars, history>>

-----------------------------------------------------------------------------
Host == DispatchAttach \/ DispatchSubscribe \/ Poll \/ Drain

Receive == ReceiveEvent \/ ReceiveAttachAck \/ ReceiveReplayAck \/ ReceiveStaleAck

Next ==
    \/ AppendEvent
    \/ Host \/ Write
    \/ \E k \in DOMAIN out : WriteBlocked(k)
    \/ SendAttach \/ Receive \/ LoadHistory \/ Timeout
    \/ Disconnect \/ Reconnect

\* The connection thread polls, the client reads its socket, reconnects and
\* loads, and a blocked socket does not stay blocked.
Fairness ==
    /\ WF_vars(Host)
    /\ SF_vars(Write)
    /\ WF_vars(Receive)
    /\ WF_vars(Reconnect)

Spec == Init /\ [][Next]_vars /\ Fairness

-----------------------------------------------------------------------------
(* Properties *)

\* The types, and that an ack is under construction exactly between the two
\* times dispatch takes the manager's mutex.
TypeOK ==
    /\ latest \in Nat \ {0}
    /\ link \in {"up", "down"}
    /\ pc \in {"read", "subscribe", "drain", "write"}
    /\ serving \in Ack \cup {NoAck} /\ (pc = "subscribe" <=> serving # NoAck)
    /\ subscribed \in BOOLEAN
    /\ receiver \in Seq(Nat)
    /\ out \in Seq(Frame) /\ wire \in Seq(Frame)
    /\ requests \in Seq(Request)
    /\ attached \in BOOLEAN /\ awaiting \in BOOLEAN
    /\ cursor \in Nat
    /\ deferred \subseteq Nat
    /\ loaded \subseteq Nat /\ until \in Nat /\ more \in BOOLEAN
    /\ attaches \in Nat /\ faults \in Nat
    /\ missed \subseteq Nat /\ forgot \in BOOLEAN

\* Nothing of the exchange is under way.
Quiet ==
    /\ link = "up" /\ pc = "read"
    /\ receiver = <<>> /\ out = <<>> /\ requests = <<>> /\ wire = <<>>

\* The events the client lacks were all appended between attach and subscribe.
OnlyMissed == (cursor + 1)..latest \subseteq missed

\* An attached client that nothing is under way to lacks no event, except the
\* newest ones when they were appended between attach and subscribe: whatever
\* order events, acks, duplicates of blocked writes and reconnects come in, any
\* later event makes the client ask for what it lacks.  (Not when the client
\* gave up on a request: then the next event has to remind it.)
QuietMeansSynced == Quiet /\ attached /\ ~forgot => OnlyMissed

\* Paging back through session.history while the journal is trimmed: once no
\* older page is promised, every retained event up to the attach is loaded.
HistoryWhole ==
    until > 0 /\ ~more => \A n \in Oldest..until : n \in loaded

\* A client whose cursor the journal still reaches and that gave up on no
\* request comes to lack nothing else, again and again.
CatchesUp ==
    []<>(~attached \/ link = "down" \/ OnlyMissed \/ cursor + 1 < Oldest \/ forgot)

\* The same for every cursor and for a journal longer than one replay: "repeated
\* gaps keep pointing at the same missing range until replay catches up"
\* (EventJournal.swift).
ReplayCatchesUp == []<>(~attached \/ link = "down" \/ OnlyMissed \/ forgot)
=============================================================================
