----------------------------- MODULE MCTranscript -----------------------------
(***************************************************************************)
(* A small world for Transcript: one tool call, two modes, two lists of     *)
(* options, and one update of each kind the host tells apart.              *)
(***************************************************************************)
EXTENDS Transcript

Block(kind, n) == [kind |-> kind, body |-> n]

Chunks(n) ==
    {[update |-> "agent_message_chunk", block |-> Block(k, n)] : k \in {"text", "image", "other"}}
    \cup {[update |-> "agent_thought_chunk", block |-> Block("text", n)],
          [update |-> "user_message_chunk", block |-> Block("resource_blob", n)]}

Entry(kind, n) == [type |-> "content", block |-> Block(kind, n)]
Diff(n) == [type |-> "diff", path |-> n]

ToolCalls(n) ==
    {[update |-> "tool_call",
      tool   |-> [id |-> "t1", title |-> n, kind |-> "edit", status |-> "in_progress",
                  content |-> c, locations |-> <<n>>, raw |-> None]] :
        c \in {<<>>, <<Entry("text", n)>>}}

Bare == [title |-> None, kind |-> None, status |-> None,
         content |-> None, locations |-> None, raw |-> None]

ToolUpdates(n) ==
    {[update |-> "tool_call_update", id |-> "t1", fields |-> f] : f \in
        {[Bare EXCEPT !.status = Some("completed")],
         [Bare EXCEPT !.status = Some("other"), !.raw = Some("null")],
         [Bare EXCEPT !.content = Some(<<Diff(n)>>)],
         [Bare EXCEPT !.status = Some("failed"), !.content = Some(<<Entry("other", n), Diff(n)>>)],
         [Bare EXCEPT !.status = Some("completed"), !.content = Some(<<>>)],
         [Bare EXCEPT !.status = Some("in_progress"), !.title = Some(n), !.kind = Some("read"),
                      !.locations = Some(<<n, n + 1>>), !.raw = Some("value")]}}

Select(v) ==
    [id |-> "model", category |-> Some("model"),
     kind |-> [kind |-> "select", current |-> v,
               options |-> [shape |-> "ungrouped", values |-> <<"a", "b">>]]]

Grouped ==
    [id |-> "effort", category |-> Some("custom"),
     kind |-> [kind |-> "select", current |-> "low",
               options |-> [shape |-> "grouped",
                            groups |-> <<[name |-> "g", values |-> <<"low">>]>>]]]

Future == [id |-> "next", category |-> None, kind |-> [kind |-> "slider"]]

MCConfigs == {<<Select("a")>>, <<Select("b"), Grouped, Future>>}

Settings ==
    {[update |-> "current_mode", mode |-> "m2"],
     [update |-> "config_option", options |-> <<Select("b"), Grouped, Future>>]}
    \cup {[update |-> "session_info", title |-> t] : t \in {"absent", "null", "", "agent's"}}

Others ==
    {[update |-> "plan", entries |-> <<[content |-> 1, priority |-> "high", status |-> "unnamed"]>>],
     [update |-> "available_commands",
      commands |-> <<[name |-> "a", input |-> Some([kind |-> "unstructured", hint |-> "h"])],
                     [name |-> "b", input |-> None]>>],
     [update |-> "usage", used |-> 1, size |-> 2, cost |-> None],
     [update |-> "unknown"],
     [update |-> "cancel_request"],
     [update |-> "other_notification"]}

\* Any update comes first; the second is one that meets what the first left.
MCUpdates(n) ==
    IF n = 1
    THEN Chunks(n) \cup ToolCalls(n) \cup Settings \cup Others
    ELSE ToolUpdates(n) \cup {[update |-> "agent_message_chunk", block |-> Block("text", n)],
                              [update |-> "agent_thought_chunk", block |-> Block("text", n)],
                              [update |-> "current_mode", mode |-> "m1"]}
=============================================================================
