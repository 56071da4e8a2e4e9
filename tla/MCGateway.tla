----------------------------- MODULE MCGateway -----------------------------
(* Two clients of Gateway that use the same request ids for their own commands. *)
EXTENDS Gateway, TLC

CONSTANTS c1, c2, r1, r2, r3, k1

TwoConns == {c1, c2}
OneConn  == {c1}
ThreeRequests == {r1, r2, r3}
OneCode == {k1}

MixedCommands ==
    [c \in Conns |->
        IF c = c1 THEN (r1 :> "pair" @@ r2 :> "revoke" @@ r3 :> "stop")
                  ELSE (r1 :> "set_mode" @@ r2 :> "read" @@ r3 :> "create")]

MixedOffers == [c \in Conns |-> IF c = c1 THEN {"dev", k1} ELSE {"skip", "dev", k1}]

DevOnly == [c \in Conns |-> {"dev"}]

InputOnly == [c \in Conns |-> [r \in Requests |-> "input"]]

AllScopes == [c \in Conns |-> Scopes]

\* The second client may not create sessions.
MixedScopes == [c \in Conns |-> IF c = c1 THEN Scopes ELSE Scopes \ {"CreateSession"}]
=============================================================================
