------------------------------ MODULE AcpUpdate ------------------------------
(***************************************************************************)
(* What the host makes of one session/update notification of an agent: the  *)
(* normalisation of rust/acp-types/src/session.rs, content.rs and           *)
(* metadata.rs, which turns a wire update into agent events, and the        *)
(* payloads of rust/session-core/src/types.rs made from those events.  Pure *)
(* operators, no state.                                                    *)
(*                                                                         *)
(* Abstractions.  A text, a blob, a URI, a cost is a token: the number of   *)
(* the update that carried it, or NoText for the empty string.  An Option   *)
(* is a sequence of length at most one.  Raw input and raw output of a tool *)
(* call are treated alike by the code and are one field here, `raw`.        *)
(* "other" is any variant the host does not know.                          *)
(***************************************************************************)
EXTENDS Naturals, Sequences, SequencesExt

None == <<>>
Some(x) == <<x>>
OrElse(option, default) == IF option = None THEN default ELSE option[1]
AndThen(option, f(_)) == IF option = None THEN None ELSE f(option[1])

NoText == 0

-----------------------------------------------------------------------------
(* Content blocks *)

\* ResourceContent::from: an embedded resource of an unknown shape becomes an
\* empty text resource.
ResourceContent(block) ==
    IF block.kind = "resource_other" THEN [kind |-> "resource_text", body |-> NoText]
                                     ELSE block

\* NormalizedContent::from_wire: unknown blocks are dropped.
ContentFromWire(block) ==
    CASE block.kind \in {"text", "image", "audio", "resource_link"} -> Some(block)
      [] block.kind \in {"resource_text", "resource_blob", "resource_other"} ->
            Some(ResourceContent(block))
      [] OTHER -> None

\* text_fallback: media have no text; links and blobs fall back to their name
\* and URI, which the token stands for.
TextFallback(content) ==
    IF content.kind \in {"image", "audio"} THEN NoText ELSE content.body

\* ContentBlock::from_normalized: the block of a gateway payload.  The data of
\* media and blobs moves to another field of the block, which `body` covers.
BlockFromNormalized(content) == [kind |-> content.kind, body |-> content.body]

\* NormalizedToolContent::from_wire: a content block, a diff or a terminal.
ToolContentFromWire(entry) ==
    CASE entry.type = "content" ->
            AndThen(ContentFromWire(entry.block),
                    LAMBDA c : Some([type |-> "content", block |-> c]))
      [] entry.type \in {"diff", "terminal"} -> Some(entry)
      [] OTHER -> None

\* ToolCallContentPayload::from_normalized.
ToolContentPayload(entry) ==
    IF entry.type = "content"
    THEN [type |-> "content", block |-> BlockFromNormalized(entry.block)]
    ELSE entry

-----------------------------------------------------------------------------
(* Tool calls *)

\* normalize_tool_content: the entries that are understood, in order.
NormalizeToolContent(content) ==
    FlattenSeq([i \in 1..Len(content) |-> ToolContentFromWire(content[i])])

\* map_tool_status.
MapToolStatus(status) ==
    IF status \in {"pending", "in_progress", "completed", "failed"} THEN status
                                                                   ELSE "pending"

\* tool_kind_string; a kind is always sent as a string.
ToolKindString(kind) == Some(kind)

\* normalized_raw: null counts as absent.
NormalizedRaw(raw) == IF raw = Some("null") THEN None ELSE raw

\* The detail line is the first location (location_detail).
LocationDetail(locations) ==
    IF locations = <<>> THEN None ELSE Some(Head(locations))

\* normalize_tool_call.
NormalizeToolCall(tool) ==
    [id        |-> tool.id,
     title     |-> tool.title,
     kind      |-> ToolKindString(tool.kind),
     status    |-> MapToolStatus(tool.status),
     detail    |-> LocationDetail(tool.locations),
     content   |-> NormalizeToolContent(tool.content),
     locations |-> tool.locations,
     raw       |-> NormalizedRaw(tool.raw)]

\* normalize_tool_call_update: an absent title is empty, an absent status is
\* pending, an absent collection is empty.
NormalizeToolCallUpdate(id, fields) ==
    [id        |-> id,
     title     |-> OrElse(fields.title, NoText),
     kind      |-> AndThen(fields.kind, ToolKindString),
     status    |-> OrElse(AndThen(fields.status, LAMBDA s : Some(MapToolStatus(s))), "pending"),
     detail    |-> AndThen(fields.locations, LocationDetail),
     content   |-> OrElse(AndThen(fields.content, LAMBDA c : Some(NormalizeToolContent(c))), <<>>),
     locations |-> OrElse(fields.locations, <<>>),
     raw       |-> NormalizedRaw(fields.raw)]

\* The session.tool_call payload.
ToolCallPayload(call) ==
    [call EXCEPT !.content =
        [i \in DOMAIN call.content |-> ToolContentPayload(call.content[i])]]

-----------------------------------------------------------------------------
(* Session metadata *)

KnownCategories == {"mode", "model", "model_config", "thought_level"}

\* enum_string: a variant that does not serialise to a string is empty.
EnumString(value) == IF value = "unnamed" THEN "" ELSE value

\* AcpConfigCategory::from: an unknown category keeps its wire string.
ConfigCategory(category) ==
    IF category \in KnownCategories THEN category ELSE EnumString(category)

\* config_groups: an ungrouped list is one group without a name.
ConfigGroups(options) ==
    CASE options.shape = "ungrouped" -> <<[name |-> None, values |-> options.values]>>
      [] options.shape = "grouped"   ->
            [i \in 1..Len(options.groups) |->
                [name |-> Some(options.groups[i].name), values |-> options.groups[i].values]]
      [] OTHER -> <<>>

\* AcpConfigKind::from: an option of an unknown kind is an inert toggle.
ConfigKind(kind) ==
    CASE kind.kind = "boolean" -> [kind |-> "boolean", current |-> kind.current, groups |-> <<>>]
      [] kind.kind = "select"  -> [kind    |-> "select",
                                   current |-> kind.current,
                                   groups  |-> ConfigGroups(kind.options)]
      [] OTHER -> [kind |-> "boolean", current |-> "off", groups |-> <<>>]

\* AcpConfigOption::from.
ConfigOption(option) ==
    [id       |-> option.id,
     category |-> AndThen(option.category, LAMBDA c : Some(ConfigCategory(c))),
     kind     |-> ConfigKind(option.kind)]

\* AcpSessionInfoUpdate::from: "absent" and "null" stay apart from a value.
SessionInfoUpdate(u) ==
    CASE u.title = "absent" -> None
      [] u.title = "null"   -> Some(None)
      [] OTHER              -> Some(Some(u.title))

\* AvailableCommandSummary::from: the hint of an unstructured input, if any.
CommandSummary(command) ==
    [name |-> command.name,
     hint |-> AndThen(command.input,
                LAMBDA i : IF i.kind = "unstructured" THEN Some(i.hint) ELSE None)]

\* PlanSummary::from: each update replaces the whole plan.
PlanSummary(entries) ==
    [i \in 1..Len(entries) |->
        [content  |-> entries[i].content,
         priority |-> EnumString(entries[i].priority),
         status   |-> EnumString(entries[i].status)]]

\* AcpUsage::from: the numbers, and the cost when there is one.
Usage(u) == [used |-> u.used, size |-> u.size, cost |-> u.cost]

-----------------------------------------------------------------------------
(* session/update to agent events *)

\* content_event.
ContentEvent(role, block) ==
    AndThen(ContentFromWire(block),
            LAMBDA c : Some([type |-> "message", role |-> role, content |-> c]))

\* thought_event.
ThoughtEvent(block) ==
    AndThen(ContentFromWire(block), LAMBDA c : Some([type |-> "thought", content |-> c]))

\* normalize_update: the agent events of one session update, at most one.
NormalizeUpdate(u) ==
    CASE u.update = "user_message_chunk"  -> ContentEvent("user", u.block)
      [] u.update = "agent_message_chunk" -> ContentEvent("assistant", u.block)
      [] u.update = "agent_thought_chunk" -> ThoughtEvent(u.block)
      [] u.update = "tool_call"           -> Some([type |-> "tool_call", call |-> NormalizeToolCall(u.tool)])
      [] u.update = "tool_call_update"    -> Some([type |-> "tool_call", call |-> NormalizeToolCallUpdate(u.id, u.fields)])
      [] u.update = "plan"                -> Some([type |-> "plan", entries |-> PlanSummary(u.entries)])
      [] u.update = "available_commands"  ->
            Some([type     |-> "commands",
                  commands |-> [i \in DOMAIN u.commands |-> CommandSummary(u.commands[i])]])
      [] u.update = "current_mode"        -> Some([type |-> "mode", mode |-> u.mode])
      [] u.update = "config_option"       ->
            Some([type    |-> "config_options",
                  options |-> [i \in DOMAIN u.options |-> ConfigOption(u.options[i])]])
      [] u.update = "session_info"        -> Some([type |-> "info", title |-> SessionInfoUpdate(u)])
      [] u.update = "usage"               -> Some([type |-> "usage", usage |-> Usage(u)])
      [] OTHER                            -> None

\* normalize_notification: what is not a session update becomes a diagnostic.
NormalizeNotification(u) ==
    CASE u.update = "cancel_request"     -> Some([type |-> "diagnostics", level |-> "info"])
      [] u.update = "other_notification" -> Some([type |-> "diagnostics", level |-> "debug"])
      [] OTHER                           -> NormalizeUpdate(u)
=============================================================================
