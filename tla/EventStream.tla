----------------------------- MODULE EventStream -----------------------------
(***************************************************************************)
(* What the session manager promises the gateway about the events of one   *)
(* session, without a journal, a database or a crash in it: every event is *)
(* handed to every attached client in one step, and as long as the store   *)
(* is sound each event carries a number above all that were handed out     *)
(* before it.  A client's queue ends when the client or the host does.     *)
(*                                                                         *)
(* SessionJournal implements this; GatewayReplay starts from it.           *)
(***************************************************************************)
EXTENDS Integers, Sequences

CONSTANT Clients

VARIABLES log,      \* every event that was handed to the clients
          attached, \* clients that receive events
          queue,    \* events a client has not taken yet
          sound     \* no call of the store has failed

vars == <<log, attached, queue, sound>>

Init ==
    /\ log = {}
    /\ attached = {}
    /\ queue = [c \in Clients |-> <<>>]
    /\ sound = TRUE

Publish(e) ==
    /\ sound => \A x \in log : x.seq < e.seq
    /\ log' = log \cup {e}
    /\ queue' = [c \in Clients |-> IF c \in attached THEN Append(queue[c], e)
                                                     ELSE queue[c]]
    /\ UNCHANGED <<attached, sound>>

Attach(c) ==
    /\ attached' = attached \cup {c}
    /\ queue' = [queue EXCEPT ![c] = <<>>]
    /\ UNCHANGED <<log, sound>>

Take(c) ==
    /\ queue[c] # <<>>
    /\ queue' = [queue EXCEPT ![c] = Tail(@)]
    /\ UNCHANGED <<log, attached, sound>>

Leave(c) ==
    /\ c \in attached
    /\ attached' = attached \ {c}
    /\ queue' = [queue EXCEPT ![c] = <<>>]
    /\ UNCHANGED <<log, sound>>

\* The host ends: every client is detached at once.
Stop ==
    /\ attached' = {}
    /\ queue' = [c \in Clients |-> <<>>]
    /\ UNCHANGED <<log, sound>>

Degrade ==
    /\ sound' = FALSE
    /\ UNCHANGED <<log, attached, queue>>

Next ==
    \/ \E e \in log' : Publish(e)
    \/ \E c \in Clients : Attach(c) \/ Take(c) \/ Leave(c)
    \/ Stop
    \/ Degrade

Spec == Init /\ [][Next]_vars
=============================================================================
