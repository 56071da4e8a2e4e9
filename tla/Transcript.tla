------------------------------ MODULE Transcript ------------------------------
(***************************************************************************)
(* From what an agent says to what a client shows.  The agent's updates are *)
(* normalised (AcpUpdate), wait in the channel of the session, are applied  *)
(* by the manager's pump (apply_agent_event), become journal entries and    *)
(* events of a subscription, and are folded into a transcript by the view   *)
(* model of the Apple client (SlightGateway/Session/SessionViewModel.swift),*)
(* which loads a session in three calls (session.attach, session.history,   *)
(* session.inspect) while live events keep arriving.                       *)
(*                                                                         *)
(* Two tasks of the view model share the main actor: the one that observes  *)
(* the events of the connection (inbox) and the one that loads.  An ack     *)
(* resumes the second while the first may have events waiting, in any       *)
(* order; nothing else of the delay between host and client matters, so a   *)
(* published event is put in the inbox at once.                            *)
(*                                                                         *)
(* Left out, and modelled elsewhere: the journal's bound and recovery       *)
(* (SessionJournal), turns and permissions (AgentTurn), lost connections    *)
(* and gaps (GatewayReplay).  The host never inlines events in the answer   *)
(* to session.attach nor sends session.replay_complete, so the client's     *)
(* code for both is not reached.  The summary, the pending permissions and   *)
(* the local echo of a prompt are not part of the view here: session.input, *)
(* session.rename and the settings come from another device.               *)
(***************************************************************************)
EXTENDS AcpUpdate, Integers, FiniteSets, FiniteSetsExt

CONSTANTS
    Updates(_),   \* the updates an agent may send as its n-th
    Modes,        \* mode ids
    Configs,      \* complete lists of config options, as the agent sends them
    Titles,       \* titles a user may give
    PageLimit,    \* the limit of session.history
    MaxInputs,    \* bound: updates of the agent and commands of the other device
    MaxLoads      \* bound: loads of the session view

\* The shapes that the wire types give an update.  Texts of the agent are
\* numbers up to MaxInputs, prompts of the user are numbered from there on.
MessageChunks == {"user_message_chunk", "agent_message_chunk", "agent_thought_chunk"}

IsOption(option) == option = None \/ option = Some(option[1])

IsContent(content) ==
    /\ content \in Seq(ToSet(content))
    /\ \A i \in DOMAIN content : content[i].type = "content" =>
          content[i].block = [kind |-> content[i].block.kind, body |-> content[i].block.body]

WellTyped(u) ==
    /\ u.update = "current_mode" => u.mode \in Modes
    /\ u.update \in MessageChunks => u.block.body \in 0..MaxInputs
    /\ u.update = "tool_call" => IsContent(u.tool.content)
    /\ u.update = "tool_call_update" =>
          /\ \A field \in {"title", "kind", "status", "content", "locations", "raw"} :
                IsOption(u.fields[field])
          /\ u.fields.content # None => IsContent(u.fields.content[1])

ASSUME TranscriptAssumption ==
    /\ PageLimit \in Nat \ {0}
    /\ MaxInputs \in Nat /\ MaxLoads \in Nat
    /\ "m1" \in Modes
    /\ \A n \in 1..MaxInputs : \A u \in Updates(n) : WellTyped(u)

VARIABLES
    said,        \* history: the updates of the agent
    asked,       \* history: the prompts of the user
    want,        \* history: the last mode, options and title set by anyone
    crossed,     \* history: settings a command changed over a queued update
    disturbed,   \* history: what a load met: an event, a page, a failed call
    commands,    \* history: commands so far
    channel,     \* agent events not yet drained by the pump
    host,        \* modes, config_options and title of the session
    log,         \* journal: events, numbered from 1
    subscribed,  \* whether the connection holds a receiver
    inbox,       \* what the observation task has not handled yet
    call,        \* the call the loading task waits for, or its answer
    olderCall,   \* the same for loadOlderHistory
    attachedOnce, loads,
    stage,       \* where loadSnapshot is: isAttaching unless "idle"
    transcript,  \* the items shown
    replayBuffer,
    loaded,      \* sequences of loadedHistoryEvents
    seen,        \* loadedHistorySequences
    hasOlder,    \* hasOlderHistory
    ignoreReset, \* ignoreNextTranscriptReset
    metadata     \* acpMetadata: mode and options, as an Option

history  == <<said, asked, want, crossed, disturbed, commands>>
hostVars == <<channel, host, log, subscribed>>
viewVars == <<transcript, replayBuffer, loaded, seen, hasOlder, ignoreReset, metadata>>
taskVars == <<call, olderCall, attachedOnce, loads, stage>>
vars     == <<history, hostVars, inbox, viewVars, taskVars>>

NoCall == [op |-> "none"]

-----------------------------------------------------------------------------
(* The host: the journal and its subscription *)

\* append: the events get the next sequence numbers and go to the subscriber.
AppendAll(events) ==
    /\ log' = log \o events
    /\ inbox' = IF subscribed
                THEN inbox \o [i \in 1..Len(events) |-> [kind |-> "event", seq |-> Len(log) + i]]
                ELSE inbox

\* The message event of a content block.
MessagePayload(role, content, kind) ==
    [name |-> "session.message", role |-> role, text |-> TextFallback(content),
     block |-> [BlockFromNormalized(content) EXCEPT !.kind = kind]]

\* A thought is an assistant message whose text is marked as reasoning.
ThoughtKind(content) == IF content.kind = "text" THEN "reasoning" ELSE content.kind

Named(name) == [name |-> name]

\* The event an agent event becomes.
SessionEventOf(e) ==
    CASE e.type = "message" -> MessagePayload(e.role, e.content, e.content.kind)
      [] e.type = "thought" -> MessagePayload("assistant", e.content, ThoughtKind(e.content))
      [] e.type = "tool_call" -> [name |-> "session.tool_call", call |-> ToolCallPayload(e.call)]
      [] e.type = "mode" -> [name |-> "session.mode", mode |-> e.mode]
      [] e.type = "config_options" -> [name |-> "session.config_options", options |-> e.options]
      [] e.type = "plan" -> [name |-> "session.plan", entries |-> e.entries]
      [] e.type = "commands" -> [name |-> "session.commands", commands |-> e.commands]
      [] e.type = "usage" -> [name |-> "session.usage", usage |-> e.usage]
      [] e.type = "info" -> [name |-> "session.info", title |-> OrElse(e.title, None)]
      [] e.type = "diagnostics" -> [name |-> "session.diagnostics", level |-> e.level]

\* A title that is absent, cleared or blank leaves the session's title alone.
TitleOf(e, title) ==
    LET set == OrElse(e.title, None)
    IN  IF set = None \/ set = Some("") THEN title ELSE set[1]

\* Mutation: a mode the agent reports is published but not stored.
ApplyToHostNoMode(e) ==
    CASE e.type = "config_options" -> [host EXCEPT !.options = e.options]
      [] e.type = "info" -> [host EXCEPT !.title = TitleOf(e, host.title)]
      [] OTHER -> host

\* What an agent event changes of the session: its modes, if it has any, its
\* options and its title.
ApplyToHost(e) ==
    CASE e.type = "mode" /\ host.mode # None -> [host EXCEPT !.mode = Some(e.mode)]
      [] e.type = "config_options" -> [host EXCEPT !.options = e.options]
      [] e.type = "info" -> [host EXCEPT !.title = TitleOf(e, host.title)]
      [] OTHER -> host

\* apply_agent_event, of the oldest event of the channel.
ApplyAgentEvent ==
    /\ channel # <<>>
    /\ channel' = Tail(channel)
    /\ host' = ApplyToHost(Head(channel))
    /\ AppendAll(<<SessionEventOf(Head(channel))>>)
    /\ UNCHANGED <<history, subscribed, viewVars, taskVars>>

-----------------------------------------------------------------------------
(* The agent, and the commands that change the same settings *)

Wanted(u) ==
    CASE u.update = "current_mode" -> [want EXCEPT !.mode = u.mode]
      [] u.update = "config_option" -> [want EXCEPT !.options = u.options]
      [] u.update = "session_info" /\ u.title \notin {"absent", "null", ""} ->
            [want EXCEPT !.title = u.title]
      [] OTHER -> want

\* The agent sends an update and the session's worker normalises it.
AgentSays ==
    /\ Len(said) + commands < MaxInputs
    /\ \E u \in Updates(Len(said) + 1) :
          /\ said' = Append(said, u)
          /\ want' = Wanted(u)
          /\ channel' = channel \o NormalizeNotification(u)
    /\ UNCHANGED <<asked, crossed, disturbed, commands, host, log, subscribed, inbox,
                   viewVars, taskVars>>

Queued(type) == \E i \in DOMAIN channel : channel[i].type = type

Command(setting, type) ==
    /\ Len(said) + commands < MaxInputs
    /\ commands' = commands + 1
    /\ crossed' = IF Queued(type) THEN crossed \cup {setting} ELSE crossed
    /\ UNCHANGED <<said, disturbed, channel, subscribed, viewVars, taskVars>>

\* set_mode: the agent accepts, the session's modes and the journal follow.
\* What the agent reported before stays in the channel.
SetMode(m) ==
    /\ Command("mode", "mode")
    /\ want' = [want EXCEPT !.mode = m]
    /\ host' = IF host.mode = None THEN host ELSE [host EXCEPT !.mode = Some(m)]
    /\ AppendAll(<<[name |-> "session.mode", mode |-> m]>>)
    /\ UNCHANGED asked

\* set_config_option: the agent answers with the complete list.
SetConfigOption(options) ==
    LET normal == [i \in DOMAIN options |-> ConfigOption(options[i])]
    IN  /\ Command("options", "config_options")
        /\ want' = [want EXCEPT !.options = options]
        /\ host' = [host EXCEPT !.options = normal]
        /\ AppendAll(<<[name |-> "session.config_options", options |-> normal]>>)
        /\ UNCHANGED asked

\* rename_session, with a title that is not blank.
Rename(title) ==
    /\ Command("title", "info")
    /\ want' = [want EXCEPT !.title = title]
    /\ host' = [host EXCEPT !.title = title]
    /\ AppendAll(<<Named("session.snapshot")>>)
    /\ UNCHANGED asked

\* send_prompt: the user's message and the status.
SendPrompt ==
    /\ Command("none", "none")
    /\ asked' = Append(asked, MaxInputs + Len(asked) + 1)
    /\ AppendAll(<<[name |-> "session.message", role |-> "user",
                    text |-> MaxInputs + Len(asked) + 1,
                    block |-> [kind |-> "text", body |-> MaxInputs + Len(asked) + 1]],
                   Named("session.status")>>)
    /\ UNCHANGED <<want, host>>

-----------------------------------------------------------------------------
(* The answers of the host *)

\* session.attach: the last sequence number and a subscription, no events.
\* The connection tells its subscribers to reset on the first attach, and
\* that the replay is complete.
ServeAttach ==
    /\ call.op = "attach"
    /\ call' = [op |-> "attached", latest |-> Len(log)]
    /\ subscribed' = TRUE
    /\ attachedOnce' = TRUE
    /\ inbox' = inbox \o (IF attachedOnce THEN <<>> ELSE <<[kind |-> "reset"]>>)
                      \o <<[kind |-> "replayed"]>>
    /\ UNCHANGED <<history, channel, host, log, viewVars, olderCall, loads, stage>>

\* history: the last PageLimit events before a sequence number.
Page(before) ==
    LET start == Max({1, before - PageLimit})
    IN  [op |-> "page", events |-> start..(before - 1), more |-> start > 1]

ServeHistory ==
    /\ call.op = "history"
    /\ call' = Page(call.before)
    /\ UNCHANGED <<history, hostVars, inbox, viewVars, olderCall, attachedOnce, loads, stage>>

ServeOlder ==
    /\ olderCall.op = "history"
    /\ olderCall' = Page(olderCall.before)
    /\ UNCHANGED <<history, hostVars, inbox, viewVars, call, attachedOnce, loads, stage>>

\* session.inspect: the current modes and options.
ServeInspect ==
    /\ call.op = "inspect"
    /\ call' = [op |-> "inspected", mode |-> host.mode, options |-> host.options]
    /\ UNCHANGED <<history, hostVars, inbox, viewVars, olderCall, attachedOnce, loads, stage>>

-----------------------------------------------------------------------------
(* The view model: events to transcript items *)

\* A block of the message that is being streamed extends the last block when
\* both are text or both are reasoning.
MergeBlock(blocks, b) ==
    IF /\ blocks # <<>>
       /\ Last(blocks).kind = b.kind
       /\ b.kind \in {"text", "reasoning"}
    THEN [blocks EXCEPT ![Len(blocks)].texts = Append(@, b.body)]
    ELSE Append(blocks, [kind |-> b.kind, texts |-> <<b.body>>])

\* merge: consecutive assistant messages are one item.
Merge(items, e) ==
    IF /\ e.role = "assistant"
       /\ items # <<>>
       /\ Last(items).type = "message"
       /\ Last(items).role = "assistant"
    THEN [items EXCEPT ![Len(items)].blocks = MergeBlock(@, e.block)]
    ELSE Append(items, [type |-> "message", role |-> e.role, blocks |-> MergeBlock(<<>>, e.block)])

\* Mutation: an update without content clears the content.
MergingOverwrites(old, new) ==
    [new EXCEPT
        !.title     = IF @ = NoText THEN old.title ELSE @,
        !.locations = IF @ = <<>> THEN old.locations ELSE @,
        !.kind      = IF @ = None THEN old.kind ELSE @,
        !.detail    = IF @ = None THEN old.detail ELSE @,
        !.raw       = IF @ = None THEN old.raw ELSE @]

\* ToolCall.merging: what an update leaves empty stays; the status is taken.
Merging(old, new) ==
    [new EXCEPT
        !.title     = IF @ = NoText THEN old.title ELSE @,
        !.content   = IF @ = <<>> THEN old.content ELSE @,
        !.locations = IF @ = <<>> THEN old.locations ELSE @,
        !.kind      = IF @ = None THEN old.kind ELSE @,
        !.detail    = IF @ = None THEN old.detail ELSE @,
        !.raw       = IF @ = None THEN old.raw ELSE @]

ItemsOf(items, id) == {i \in DOMAIN items : items[i].type = "tool" /\ items[i].call.id = id}

\* upsert, of the first item of the tool call.
Upsert(items, new) ==
    LET known == ItemsOf(items, new.id)
    IN  IF known = {} THEN Append(items, [type |-> "tool", call |-> new])
                      ELSE [items EXCEPT ![Min(known)].call = Merging(@, new)]

\* handleEvent, as far as the items go.
ShowEvent(items, e) ==
    CASE e.name = "session.message"   -> Merge(items, e)
      [] e.name = "session.tool_call" -> Upsert(items, e.call)
      [] OTHER -> items

\* handleEvent, as far as the metadata goes: it is updated once it is loaded.
NoteEvent(meta, e) ==
    CASE meta = None -> meta
      [] e.name = "session.mode" /\ meta # None ->
            IF meta[1].mode = None THEN meta ELSE Some([meta[1] EXCEPT !.mode = Some(e.mode)])
      [] e.name = "session.config_options" /\ meta # None ->
            Some([meta[1] EXCEPT !.options = e.options])
      [] OTHER -> meta

Show(items, seqs) == FoldLeft(LAMBDA acc, n : ShowEvent(acc, log[n]), items, seqs)

Sorted(seqs) ==
    CHOOSE s \in [1..Cardinality(seqs) -> seqs] : \A i, j \in DOMAIN s : i < j => s[i] < s[j]

\* handleEvent, for each of a sequence of events, recording those not seen.
HandleEvents(seqs) ==
    /\ transcript' = Show(transcript, seqs)
    /\ metadata' = FoldLeft(LAMBDA acc, n : NoteEvent(acc, log[n]), metadata, seqs)
    /\ loaded' = loaded \cup (ToSet(seqs) \ seen)
    /\ seen' = seen \cup ToSet(seqs)

\* Mutation: the events of the old transcript are kept.
ClearTranscriptKeepsEvents ==
    /\ transcript' = <<>> /\ replayBuffer' = <<>>
    /\ seen' = {} /\ hasOlder' = FALSE
    /\ UNCHANGED loaded

ClearTranscript ==
    /\ transcript' = <<>> /\ replayBuffer' = <<>>
    /\ loaded' = {} /\ seen' = {} /\ hasOlder' = FALSE

-----------------------------------------------------------------------------
(* The view model: the observation task *)

HandleEvent ==
    /\ inbox # <<>> /\ Head(inbox).kind = "event"
    /\ inbox' = Tail(inbox)
    /\ IF stage # "idle"
       THEN /\ replayBuffer' = Append(replayBuffer, Head(inbox).seq)
            /\ disturbed' = disturbed \cup {"event"}
            /\ UNCHANGED <<transcript, loaded, seen, metadata>>
       ELSE /\ HandleEvents(<<Head(inbox).seq>>)
            /\ UNCHANGED <<replayBuffer, disturbed>>
    /\ UNCHANGED <<said, asked, want, crossed, commands, hostVars, hasOlder, ignoreReset, taskVars>>

\* flushReplayBuffer.
HandleReplayCompleted ==
    /\ inbox # <<>> /\ Head(inbox).kind = "replayed"
    /\ inbox' = Tail(inbox)
    /\ HandleEvents(replayBuffer)
    /\ replayBuffer' = <<>>
    /\ UNCHANGED <<history, hostVars, hasOlder, ignoreReset, taskVars>>

HandleTranscriptReset ==
    /\ inbox # <<>> /\ Head(inbox).kind = "reset"
    /\ inbox' = Tail(inbox)
    /\ IF ignoreReset
       THEN UNCHANGED <<transcript, replayBuffer, loaded, seen, hasOlder>>
       ELSE ClearTranscript
    /\ ignoreReset' = FALSE
    /\ UNCHANGED <<history, hostVars, metadata, taskVars>>

-----------------------------------------------------------------------------
(* The view model: loading *)

\* loadSnapshot, unless one is under way.
LoadSnapshot ==
    /\ stage = "idle" /\ loads < MaxLoads
    /\ stage' = "attach" /\ loads' = loads + 1
    /\ call' = [op |-> "attach"]
    /\ replayBuffer' = <<>>
    /\ UNCHANGED <<history, hostVars, inbox, transcript, loaded, seen, hasOlder, ignoreReset,
                   metadata, olderCall, attachedOnce>>

\* Mutation: the first page ends before the last event.
ResumeAttachOffByOne ==
    /\ call.op = "attached"
    /\ ClearTranscript
    /\ ignoreReset' = TRUE
    /\ IF olderCall = NoCall
       THEN /\ stage' = "history" /\ call' = [op |-> "history", before |-> call.latest]
            /\ UNCHANGED disturbed
       ELSE /\ stage' = "inspect" /\ call' = [op |-> "inspect"]
            /\ disturbed' = disturbed \cup {"page"}
    /\ UNCHANGED <<said, asked, want, crossed, commands, hostVars, inbox, metadata, olderCall,
                   attachedOnce, loads>>

\* loadSnapshot after the attach: the transcript and the buffer are cleared,
\* then the newest page is asked for.  loadHistoryPage does nothing while an
\* older page is being loaded.
ResumeAttach ==
    /\ call.op = "attached"
    /\ ClearTranscript
    /\ ignoreReset' = TRUE
    /\ IF olderCall = NoCall
       THEN /\ stage' = "history" /\ call' = [op |-> "history", before |-> call.latest + 1]
            /\ UNCHANGED disturbed
       ELSE /\ stage' = "inspect" /\ call' = [op |-> "inspect"]
            /\ disturbed' = disturbed \cup {"page"}
    /\ UNCHANGED <<said, asked, want, crossed, commands, hostVars, inbox, metadata, olderCall,
                   attachedOnce, loads>>

\* loadHistoryPage, replacing: only the events of the page that were not seen
\* are kept, and the transcript is rebuilt from them.
ResumeHistory ==
    /\ stage = "history" /\ call.op = "page"
    /\ LET new == call.events \ seen
       IN  /\ loaded' = new
           /\ seen' = seen \cup new
           /\ transcript' = Show(<<>>, Sorted(new))
    /\ hasOlder' = call.more
    /\ stage' = "inspect" /\ call' = [op |-> "inspect"]
    /\ UNCHANGED <<history, hostVars, inbox, replayBuffer, ignoreReset, metadata, olderCall,
                   attachedOnce, loads>>

\* loadMetadata, the end of loadSnapshot.  An event that was published before
\* the load and is handled after it will be shown a second time.
ResumeInspect ==
    /\ call.op = "inspected"
    /\ metadata' = Some([mode |-> call.mode, options |-> call.options])
    /\ stage' = "idle" /\ call' = NoCall
    /\ disturbed' = IF \E i \in DOMAIN inbox : inbox[i].kind = "event" /\ inbox[i].seq \in seen
                    THEN disturbed \cup {"event"} ELSE disturbed
    /\ UNCHANGED <<said, asked, want, crossed, commands, hostVars, inbox, transcript, replayBuffer, loaded, seen, hasOlder,
                   ignoreReset, olderCall, attachedOnce, loads>>

\* A call of loadSnapshot fails: without the attach nothing is loaded, without
\* the page the cleared transcript stays empty, without session.inspect there
\* is no metadata.
LoadFails ==
    /\ call.op \in {"attach", "history", "inspect"} /\ "call" \notin disturbed
    /\ disturbed' = disturbed \cup {"call"}
    /\ IF call.op = "history" THEN stage' = "inspect" /\ call' = [op |-> "inspect"]
                             ELSE stage' = "idle" /\ call' = NoCall
    /\ metadata' = IF call.op = "inspect" THEN None ELSE metadata
    /\ UNCHANGED <<said, asked, want, crossed, commands, hostVars, inbox, transcript,
                   replayBuffer, loaded, seen, hasOlder, ignoreReset, olderCall, attachedOnce,
                   loads>>

\* loadOlderHistory: the page before the oldest event, one page at a time.
LoadOlder ==
    /\ hasOlder /\ loaded # {}
    /\ olderCall = NoCall /\ stage # "history"
    /\ olderCall' = [op |-> "history", before |-> Min(loaded)]
    /\ UNCHANGED <<history, hostVars, inbox, viewVars, call, attachedOnce, loads, stage>>

\* loadHistoryPage, not replacing: the items of the page go in front.
ResumeOlder ==
    /\ olderCall.op = "page"
    /\ LET new == olderCall.events \ seen
       IN  /\ loaded' = loaded \cup new
           /\ seen' = seen \cup new
           /\ transcript' = Show(<<>>, Sorted(new)) \o transcript
    /\ hasOlder' = olderCall.more
    /\ olderCall' = NoCall
    /\ UNCHANGED <<history, hostVars, inbox, replayBuffer, ignoreReset, metadata, call,
                   attachedOnce, loads, stage>>

-----------------------------------------------------------------------------
Init ==
    /\ said = <<>> /\ asked = <<>>
    /\ crossed = {} /\ disturbed = {} /\ commands = 0
    /\ channel = <<>>
    /\ want = [mode |-> "m1", options |-> <<>>, title |-> "new"]
    /\ \E mode \in {None, Some("m1")} :
          host = [mode |-> mode, options |-> <<>>, title |-> "new"]
    /\ log = <<Named("session.snapshot")>>
    /\ subscribed = FALSE /\ inbox = <<>>
    /\ call = NoCall /\ olderCall = NoCall
    /\ attachedOnce = FALSE /\ loads = 0 /\ stage = "idle"
    /\ transcript = <<>> /\ replayBuffer = <<>>
    /\ loaded = {} /\ seen = {} /\ hasOlder = FALSE
    /\ ignoreReset = FALSE /\ metadata = None

Commands ==
    \/ \E m \in Modes : SetMode(m)
    \/ \E options \in Configs : SetConfigOption(options)
    \/ \E title \in Titles : Rename(title)
    \/ SendPrompt

Serve == ServeAttach \/ ServeHistory \/ ServeOlder \/ ServeInspect

View ==
    \/ HandleEvent \/ HandleReplayCompleted \/ HandleTranscriptReset
    \/ LoadSnapshot \/ ResumeAttach \/ ResumeHistory \/ ResumeInspect \/ LoadFails
    \/ LoadOlder \/ ResumeOlder

Next == AgentSays \/ ApplyAgentEvent \/ Commands \/ Serve \/ View

Spec == Init /\ [][Next]_vars

-----------------------------------------------------------------------------
(* What should hold *)

\* Types, and the bookkeeping of the two tasks: a load waits for exactly the
\* call of its stage, and every event kept for a rebuild is among the seen.
TypeOK ==
    /\ host.mode \in {None} \cup {Some(m) : m \in Modes}
    /\ want.mode \in Modes
    /\ crossed \subseteq {"mode", "options", "title"}
    /\ disturbed \subseteq {"event", "page", "call"}
    /\ subscribed \in BOOLEAN /\ attachedOnce \in BOOLEAN
    /\ stage \in {"idle", "attach", "history", "inspect"}
    /\ <<stage, call.op>> \in {<<"idle", "none">>,
                              <<"attach", "attach">>, <<"attach", "attached">>,
                              <<"history", "history">>, <<"history", "page">>,
                              <<"inspect", "inspect">>, <<"inspect", "inspected">>}
    /\ olderCall.op \in {"none", "history", "page"}
    /\ \A i \in DOMAIN inbox : inbox[i].kind \in {"event", "replayed", "reset"}
    /\ seen \subseteq 1..Len(log)
    /\ loaded \subseteq seen
    /\ ToSet(replayBuffer) \subseteq 1..Len(log)

\* Nothing is on its way and the session is open in the view.
AtRest ==
    /\ channel = <<>> /\ inbox = <<>>
    /\ stage = "idle" /\ olderCall = NoCall
    /\ attachedOnce

\* The pieces of messages on show, in order.
Flat(items) ==
    LET pieces(item) ==
            IF item.type # "message" THEN <<>>
            ELSE FlattenSeq([j \in DOMAIN item.blocks |->
                    [k \in DOMAIN item.blocks[j].texts |->
                        <<item.role, item.blocks[j].kind, item.blocks[j].texts[k]>>]])
    IN  FlattenSeq([i \in DOMAIN items |-> pieces(items[i])])

\* A piece of a message as it should be shown, for an update that has one.
Piece(u) ==
    IF u.update \notin MessageChunks
    THEN <<>>
    ELSE AndThen(ContentFromWire(u.block), LAMBDA c :
            << <<IF u.update = "user_message_chunk" THEN "user" ELSE "assistant",
                 IF u.update = "agent_thought_chunk" THEN ThoughtKind(c) ELSE c.kind,
                 c.body>> >>)

Spoken == FlattenSeq([i \in DOMAIN said |-> Piece(said[i])])

\* The pieces of a sequence that came from the agent, and those of the user.
FromAgent(pieces) ==
    FlattenSeq([i \in DOMAIN pieces |->
        IF pieces[i][3] <= MaxInputs THEN <<pieces[i]>> ELSE <<>>])
FromUser(pieces) ==
    FlattenSeq([i \in DOMAIN pieces |->
        IF pieces[i][3] <= MaxInputs THEN <<>> ELSE <<pieces[i]>>])

\* Every piece of every message is on show, once, in the order it was said:
\* those of the agent and those of the user.
Complete ==
    LET shown == Flat(transcript)
    IN  /\ FromAgent(shown) = Spoken
        /\ FromUser(shown) =
                [i \in DOMAIN asked |-> <<"user", "text", asked[i]>>]

\* A session view that has loaded all its history, with no call failing, shows
\* the whole conversation (SessionViewModel.swift loadSnapshot, handle and
\* flushReplayBuffer).  Broken by the code when an event arrives while the
\* view loads: it is put aside and nothing takes it back.
TranscriptComplete == AtRest /\ ~hasOlder /\ "call" \notin disturbed => Complete

\* The same for views whose loads met no event and no older page: the order of
\* handling, paging (manager.rs history, loadHistoryPage), merging (merge) and
\* normalising (session.rs normalize_update) lose and repeat nothing.
TranscriptWhole == AtRest /\ ~hasOlder /\ disturbed = {} => Complete

\* A tool-call update that says what it changes with a status and without an
\* empty value, which the host cannot tell from an absent one.
Explicit(fields) ==
    /\ fields.status # None
    /\ fields.title # Some(NoText)
    /\ fields.content # None => NormalizeToolContent(fields.content[1]) # <<>>
    /\ fields.locations # Some(<<>>)

\* ACP's reading of a tool-call update: present fields replace, absent stay.
Patch(shown, fields) ==
    [shown EXCEPT
        !.title     = OrElse(fields.title, @),
        !.kind      = IF fields.kind = None THEN @ ELSE fields.kind,
        !.status    = MapToolStatus(fields.status[1]),
        !.detail    = IF fields.locations = None THEN @ ELSE LocationDetail(fields.locations[1]),
        !.content   = IF fields.content = None THEN @ ELSE NormalizeToolContent(fields.content[1]),
        !.locations = OrElse(fields.locations, @),
        !.raw       = IF NormalizedRaw(fields.raw) = None THEN @ ELSE fields.raw]

\* The updates that open or change the tool call id.
IsStep(u, id) ==
    \/ u.update = "tool_call" /\ u.tool.id = id
    \/ u.update = "tool_call_update" /\ u.id = id

ToolSteps(id) ==
    FlattenSeq([i \in DOMAIN said |-> IF IsStep(said[i], id) THEN <<said[i]>> ELSE <<>>])

\* The call that the first of the steps opened, with the others applied.
Patched(steps) ==
    LET patched[j \in 1..Len(steps)] ==
            IF j = 1 THEN NormalizeToolCall(steps[1].tool)
                     ELSE Patch(patched[j - 1], steps[j].fields)
    IN  patched[Len(steps)]

\* A tool call on show, in one item, is the call the agent opened with all its
\* updates applied as ACP reads them (GatewayModels.swift merging,
\* session.rs normalize_tool_call_update), however the updates were split
\* between the history and live events.
ToolShown ==
    AtRest /\ ~hasOlder /\ disturbed = {} =>
        \A i \in DOMAIN transcript :
            LET id    == transcript[i].call.id
                steps == ToolSteps(id)
            IN  transcript[i].type = "tool" =>
                \/ Cardinality(ItemsOf(transcript, id)) > 1
                \/ steps[1].update # "tool_call"
                \/ \E j \in 2..Len(steps) :
                      steps[j].update = "tool_call" \/ ~Explicit(steps[j].fields)
                \/ transcript[i].call = Patched(steps)

\* The settings of the session are the last ones anybody made, agent or user,
\* and the view shows them, unless a command overtook a queued report of the
\* agent (manager.rs set_mode, set_config_option and apply_agent_event write
\* the same fields).
SettingsAgree ==
    AtRest =>
        /\ "mode" \notin crossed /\ host.mode # None => host.mode = Some(want.mode)
        /\ "options" \notin crossed =>
              host.options = [i \in DOMAIN want.options |-> ConfigOption(want.options[i])]
        /\ "title" \notin crossed => host.title = want.title
        /\ disturbed = {} => metadata = Some([mode |-> host.mode, options |-> host.options])
=============================================================================
