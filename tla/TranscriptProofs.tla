--------------------------- MODULE TranscriptProofs ---------------------------
(***************************************************************************)
(* What Transcript promises, for any number of updates, commands, loads     *)
(* and pages.  Types: TypeInv says what travels in the channel, the log and *)
(* the inbox.  Settings: a mode, an option list or a title is on its way    *)
(* from the agent to the host and from the host to the view; the entries of *)
(* channel and inbox are reduced to tags (which setting, which value), and  *)
(* Follows says that applying the tags in order turns the current value     *)
(* into the target.  HostInv relates the host to what was set last, ViewInv *)
(* the view to the host; both are preserved by pushing and popping tags.    *)
(* Tool calls: merging an update is what ACP says it means.                 *)
(***************************************************************************)
EXTENDS Transcript, NaturalsInduction, WellFoundedInduction, TLAPS

\* The metadata after the events seqs.
NotedAfter(meta, seqs) == FoldLeft(LAMBDA acc, n : NoteEvent(acc, log[n]), meta, seqs)

LEMMA NotedNone == \A meta : NotedAfter(meta, <<>>) = meta
<1> SUFFICES ASSUME NEW meta PROVE NotedAfter(meta, <<>>) = meta
    OBVIOUS
<1>1. DOMAIN <<>> = {}
    OBVIOUS
<1>2. QED
    BY <1>1 DEF NotedAfter, FoldLeft, MapThenFoldSet

LEMMA MaxOfOne == Max({1}) = 1
BY DEF Max

LEMMA NotedOne == \A meta, n : NotedAfter(meta, <<n>>) = NoteEvent(meta, log[n])
<1> SUFFICES ASSUME NEW meta, NEW n PROVE NotedAfter(meta, <<n>>) = NoteEvent(meta, log[n])
    OBVIOUS
<1> DEFINE s == <<n>>
           Folds(g) == g = [t \in SUBSET DOMAIN s |->
                              IF t = {} THEN meta
                              ELSE NoteEvent(g[t \ {Max(t)}], log[s[Max(t)]])]
           h == [t \in SUBSET DOMAIN s |-> IF t = {} THEN meta ELSE NoteEvent(meta, log[n])]
           iter == CHOOSE g : Folds(g)
<1>1. DOMAIN s = {1} /\ s[1] = n
    OBVIOUS
<1>2. SUBSET {1} = {{}, {1}}
    OBVIOUS
<1>3. NotedAfter(meta, s) = iter[DOMAIN s]
    BY DEF NotedAfter, FoldLeft, MapThenFoldSet
<1> HIDE DEF s
<1>4. ASSUME NEW t \in SUBSET DOMAIN s
      PROVE  h[t] = IF t = {} THEN meta ELSE NoteEvent(h[t \ {Max(t)}], log[s[Max(t)]])
    <2>1. CASE t = {}
        BY <2>1
    <2>2. CASE t = {1}
        <3>1. Max(t) = 1 /\ t \ {1} = {}
            BY <2>2, MaxOfOne
        <3>2. h[{}] = meta /\ h[t] = NoteEvent(meta, log[n])
            BY <1>1, <2>2
        <3> HIDE DEF h
        <3>3. QED
            BY <1>1, <2>2, <3>1, <3>2
    <2>3. QED
        BY <1>1, <1>2, <2>1, <2>2
<1>5. Folds(h)
    BY <1>4
<1> HIDE DEF h
<1>6. Folds(iter)
    <2> HIDE DEF Folds
    <2>1. QED
        BY <1>5
<1> HIDE DEF iter
<1>7. iter[{}] = meta /\ iter[{1}] = NoteEvent(iter[{1} \ {Max({1})}], log[s[Max({1})]])
    BY <1>1, <1>6
<1>8. {1} \ {Max({1})} = {} /\ s[Max({1})] = n
    BY <1>1, MaxOfOne
<1>9. iter[{1}] = NoteEvent(meta, log[n])
    BY <1>7, <1>8
<1>10. QED
    BY <1>1, <1>3, <1>9 DEF s

-----------------------------------------------------------------------------
(* The invariants *)

IsSeq(s) == \E S : s \in Seq(S)

IsSettings(r) == r = [mode |-> r.mode, options |-> r.options, title |-> r.title]
IsMetadata(r) == r = [mode |-> r.mode, options |-> r.options]

AgentEventTypes ==
    {"message", "thought", "tool_call", "mode", "config_options", "plan", "commands",
     "usage", "info", "diagnostics"}

\* A call asks for, or was answered with, what the journal has.
CallBounded(c) ==
    /\ c.op = "attached" => c.latest \in 0..Len(log)
    /\ c.op = "history" => c.before \in 1..(Len(log) + 1)
    /\ c.op = "page" => c.events \subseteq 1..Len(log)

NoTag == <<"none", None>>

\* The setting an agent event carries, and its value.
AgentTag(e) ==
    CASE e.type = "mode" -> <<"mode", Some(e.mode)>>
      [] e.type = "config_options" -> <<"options", e.options>>
      [] e.type = "info" /\ OrElse(e.title, None) \notin {None, Some("")} ->
            <<"title", OrElse(e.title, None)[1]>>
      [] OTHER -> NoTag

\* The same for an entry of the journal, as far as the view notes it.
LogTag(e) ==
    CASE e.name = "session.mode" -> <<"mode", Some(e.mode)>>
      [] e.name = "session.config_options" -> <<"options", e.options>>
      [] OTHER -> NoTag

ChannelTags == [i \in DOMAIN channel |-> AgentTag(channel[i])]

InboxTags ==
    [i \in DOMAIN inbox |->
        IF inbox[i].kind = "event" THEN LogTag(log[inbox[i].seq]) ELSE NoTag]

\* Once the reports in q are through, the setting k, now cur, has the value target.
Follows(q, k, cur, target) ==
    /\ (\A i \in DOMAIN q : q[i][1] # k) => cur = target
    /\ \A i \in DOMAIN q :
          q[i][1] = k /\ (\A j \in DOMAIN q : q[j][1] = k => j <= i) => q[i][2] = target

Normal(options) == [i \in DOMAIN options |-> ConfigOption(options[i])]

-----------------------------------------------------------------------------
(* Sequences of anything *)

LEMMA SeqOne == \A x : IsSeq(<<x>>) /\ Len(<<x>>) = 1 /\ <<x>>[1] = x
<1> SUFFICES ASSUME NEW x PROVE IsSeq(<<x>>) /\ Len(<<x>>) = 1 /\ <<x>>[1] = x
    OBVIOUS
<1>1. <<x>> \in Seq({x})
    OBVIOUS
<1>2. QED
    BY <1>1 DEF IsSeq

LEMMA SeqTwo ==
    \A x, y : IsSeq(<<x, y>>) /\ Len(<<x, y>>) = 2 /\ <<x, y>>[1] = x /\ <<x, y>>[2] = y
<1> SUFFICES ASSUME NEW x, NEW y
             PROVE  IsSeq(<<x, y>>) /\ Len(<<x, y>>) = 2 /\ <<x, y>>[1] = x /\ <<x, y>>[2] = y
    OBVIOUS
<1>1. <<x, y>> \in Seq({x, y})
    OBVIOUS
<1>2. QED
    BY <1>1 DEF IsSeq

LEMMA SeqNone == IsSeq(<<>>) /\ Len(<<>>) = 0 /\ DOMAIN <<>> = {}
<1>1. <<>> \in Seq({})
    OBVIOUS
<1>2. QED
    BY <1>1 DEF IsSeq

LEMMA SeqFacts ==
    ASSUME NEW s, IsSeq(s)
    PROVE  /\ Len(s) \in Nat /\ DOMAIN s = 1..Len(s)
           /\ s # <<>> => Len(s) # 0 /\ Head(s) = s[1]
           /\ s = <<>> => Len(s) = 0
<1>1. PICK S : s \in Seq(S)
    BY DEF IsSeq
<1>2. QED
    BY <1>1

LEMMA SeqTail ==
    ASSUME NEW s, IsSeq(s), s # <<>>
    PROVE  /\ IsSeq(Tail(s)) /\ Len(Tail(s)) = Len(s) - 1
           /\ DOMAIN Tail(s) = 1..(Len(s) - 1)
           /\ \A i \in 1..(Len(s) - 1) : Tail(s)[i] = s[i + 1]
<1>1. PICK S : s \in Seq(S)
    BY DEF IsSeq
<1>2. Tail(s) \in Seq(S)
    BY <1>1
<1>3. QED
    BY <1>1, <1>2 DEF IsSeq

LEMMA SeqConcat ==
    ASSUME NEW s, NEW t, IsSeq(s), IsSeq(t)
    PROVE  /\ IsSeq(s \o t) /\ Len(s \o t) = Len(s) + Len(t)
           /\ DOMAIN (s \o t) = 1..(Len(s) + Len(t))
           /\ \A i \in 1..Len(s) : (s \o t)[i] = s[i]
           /\ \A i \in 1..Len(t) : (s \o t)[Len(s) + i] = t[i]
<1>1. PICK S : s \in Seq(S)
    BY DEF IsSeq
<1>2. PICK T : t \in Seq(T)
    BY DEF IsSeq
<1>3. Len(s) \in Nat /\ Len(t) \in Nat /\ DOMAIN s = 1..Len(s) /\ DOMAIN t = 1..Len(t)
    BY <1>1, <1>2
<1>4. \A i \in 1..Len(s) : s[i] \in S \cup T
    BY <1>1
<1>5. \A i \in 1..Len(t) : t[i] \in S \cup T
    BY <1>2
<1>6. s \in Seq(S \cup T) /\ t \in Seq(S \cup T)
    BY <1>1, <1>2, <1>3, <1>4, <1>5
<1>7. s \o t \in Seq(S \cup T)
    BY <1>6
<1>8. QED
    BY <1>3, <1>6, <1>7 DEF IsSeq

LEMMA SeqAppend ==
    ASSUME NEW s, NEW x, IsSeq(s)
    PROVE  IsSeq(Append(s, x)) /\ ToSet(Append(s, x)) = ToSet(s) \cup {x}
<1>1. PICK S : s \in Seq(S)
    BY DEF IsSeq
<1>2. s \in Seq(S \cup {x})
    BY <1>1
<1>3. Append(s, x) \in Seq(S \cup {x})
    BY <1>2
<1>4. /\ Len(Append(s, x)) = Len(s) + 1 /\ Len(s) \in Nat
      /\ DOMAIN s = 1..Len(s) /\ DOMAIN Append(s, x) = 1..(Len(s) + 1)
      /\ \A i \in 1..Len(s) : Append(s, x)[i] = s[i]
      /\ Append(s, x)[Len(s) + 1] = x
    BY <1>2, <1>3
<1>5. IsSeq(Append(s, x))
    BY <1>3 DEF IsSeq
<1>6. ToSet(Append(s, x)) \subseteq ToSet(s) \cup {x}
    BY <1>4 DEF ToSet
<1>7. ToSet(s) \cup {x} \subseteq ToSet(Append(s, x))
    BY <1>4 DEF ToSet
<1>8. QED
    BY <1>5, <1>6, <1>7

-----------------------------------------------------------------------------
(* Reports on their way *)

\* A report of the setting behind the others is the new target.
LEMMA FollowsPush ==
    ASSUME NEW q, NEW r, NEW n \in Nat, DOMAIN q = 1..n, DOMAIN r = 1..(n + 1),
           \A i \in 1..n : r[i] = q[i],
           NEW k, NEW cur, NEW target, Follows(q, k, cur, target)
    PROVE  Follows(r, k, cur, IF r[n + 1][1] = k THEN r[n + 1][2] ELSE target)
<1>1. CASE r[n + 1][1] = k
    BY <1>1 DEF Follows
<1>2. CASE r[n + 1][1] # k
    <2>1. (\A i \in DOMAIN r : r[i][1] # k) => cur = target
        BY <1>2 DEF Follows
    <2>2. ASSUME NEW i \in DOMAIN r, r[i][1] = k, \A j \in DOMAIN r : r[j][1] = k => j <= i
          PROVE  r[i][2] = target
        <3>1. i \in 1..n
            BY <1>2, <2>2
        <3>2. q[i][1] = k /\ \A j \in DOMAIN q : q[j][1] = k => j <= i
            BY <2>2, <3>1
        <3>3. QED
            BY <2>2, <3>1, <3>2 DEF Follows
    <2>3. QED
        BY <1>2, <2>1, <2>2 DEF Follows
<1>3. QED
    BY <1>1, <1>2

\* The oldest report of the setting is taken.
LEMMA FollowsPop ==
    ASSUME NEW q, NEW r, NEW n \in Nat, n # 0, DOMAIN q = 1..n, DOMAIN r = 1..(n - 1),
           \A i \in 1..(n - 1) : r[i] = q[i + 1],
           NEW k, NEW cur, NEW target, Follows(q, k, cur, target)
    PROVE  Follows(r, k, IF q[1][1] = k THEN q[1][2] ELSE cur, target)
<1> DEFINE now == IF q[1][1] = k THEN q[1][2] ELSE cur
<1>1. ASSUME \A i \in DOMAIN r : r[i][1] # k PROVE now = target
    <2>1. \A i \in 2..n : q[i][1] # k
        <3>1. ASSUME NEW i \in 2..n PROVE q[i][1] # k
            <4>1. i - 1 \in DOMAIN r /\ r[i - 1] = q[(i - 1) + 1] /\ (i - 1) + 1 = i
                OBVIOUS
            <4>2. QED
                BY <1>1, <4>1
        <3>2. QED
            BY <3>1
    <2>2. CASE q[1][1] = k
        <3>1. \A j \in DOMAIN q : q[j][1] = k => j <= 1
            BY <2>1
        <3>2. QED
            BY <2>2, <3>1 DEF Follows
    <2>3. CASE q[1][1] # k
        <3>1. \A j \in DOMAIN q : q[j][1] # k
            BY <2>1, <2>3
        <3>2. QED
            BY <2>3, <3>1 DEF Follows
    <2>4. QED
        BY <2>2, <2>3
<1>2. ASSUME NEW i \in DOMAIN r, r[i][1] = k, \A j \in DOMAIN r : r[j][1] = k => j <= i
      PROVE  r[i][2] = target
    <2>1. i + 1 \in DOMAIN q /\ q[i + 1] = r[i]
        OBVIOUS
    <2>2. ASSUME NEW j \in DOMAIN q, q[j][1] = k PROVE j <= i + 1
        <3>1. CASE j = 1
            BY <3>1, <2>1
        <3>2. CASE j # 1
            <4>1. j - 1 \in DOMAIN r /\ r[j - 1] = q[(j - 1) + 1] /\ (j - 1) + 1 = j
                BY <3>2
            <4>2. j - 1 <= i
                BY <1>2, <2>2, <4>1
            <4>3. QED
                BY <4>2, <2>1
        <3>3. QED
            BY <3>1, <3>2
    <2>3. QED
        BY <1>2, <2>1, <2>2 DEF Follows
<1>3. QED
    BY <1>1, <1>2 DEF Follows

\* With no report under way a setting that is made is made.
LEMMA FollowsSet ==
    ASSUME NEW q, NEW k, NEW target, \A i \in DOMAIN q : q[i][1] # k
    PROVE  Follows(q, k, target, target)
BY DEF Follows

\* With no report under way the setting has its value.
LEMMA FollowsDone ==
    ASSUME NEW q, NEW k, NEW cur, NEW target, DOMAIN q = {}, Follows(q, k, cur, target)
    PROVE  cur = target
BY DEF Follows

-----------------------------------------------------------------------------
(* What an update becomes *)

\* The setting an update carries, and its value as the host stores it.
UpdateTag(u) ==
    CASE u.update = "current_mode" -> <<"mode", Some(u.mode)>>
      [] u.update = "config_option" -> <<"options", Normal(u.options)>>
      [] u.update = "session_info" /\ u.title \notin {"absent", "null", ""} -> <<"title", u.title>>
      [] OTHER -> NoTag

\* normalize_notification gives at most one event and loses no setting.
LEMMA Normalized ==
    ASSUME NEW u
    PROVE  \/ NormalizeNotification(u) = <<>> /\ UpdateTag(u) = NoTag
           \/ \E e : /\ NormalizeNotification(u) = <<e>>
                     /\ e.type \in AgentEventTypes
                     /\ e.type = "mode" => u.update = "current_mode" /\ e.mode = u.mode
                     /\ AgentTag(e) = UpdateTag(u)
<1> USE DEF AgentEventTypes, NoTag
<1> DEFINE Shape(e) ==
        /\ NormalizeNotification(u) = <<e>>
        /\ e.type \in AgentEventTypes
        /\ e.type = "mode" => u.update = "current_mode" /\ e.mode = u.mode
        /\ AgentTag(e) = UpdateTag(u)
<1>1. CASE u.update = "current_mode"
    <2>1. Shape([type |-> "mode", mode |-> u.mode])
        BY <1>1 DEF NormalizeNotification, NormalizeUpdate, AgentTag, UpdateTag, Some
    <2>2. QED
        BY <2>1, Zenon
<1>2. CASE u.update = "config_option"
    <2>1. Shape([type |-> "config_options", options |-> Normal(u.options)])
        BY <1>2 DEF NormalizeNotification, NormalizeUpdate, AgentTag, UpdateTag, Some, Normal
    <2>2. QED
        BY <2>1, Zenon
<1>3. CASE u.update = "session_info"
    <2> DEFINE e == [type |-> "info", title |-> SessionInfoUpdate(u)]
    <2>1. NormalizeNotification(u) = <<e>>
        BY <1>3 DEF NormalizeNotification, NormalizeUpdate, Some
    <2>2. e.type = "info" /\ e.title = SessionInfoUpdate(u)
        OBVIOUS
    <2>3. OrElse(e.title, None) = IF u.title \in {"absent", "null"} THEN <<>> ELSE <<u.title>>
        <3>1. CASE u.title = "absent"
            BY <2>2, <3>1 DEF SessionInfoUpdate, OrElse, None
        <3>2. CASE u.title = "null"
            BY <2>2, <3>2 DEF SessionInfoUpdate, OrElse, Some, None
        <3>3. CASE u.title \notin {"absent", "null"}
            BY <2>2, <3>3 DEF SessionInfoUpdate, OrElse, Some, None
        <3>4. QED
            BY <3>1, <3>2, <3>3
    <2> HIDE DEF e
    <2>4. CASE u.title \notin {"absent", "null", ""}
        <3>1. AgentTag(e) = <<"title", u.title>>
            <4> DEFINE t == OrElse(e.title, None)
            <4>1. t = <<u.title>>
                BY <2>3, <2>4
            <4> HIDE DEF t
            <4>2. t # <<>> /\ t # <<"">> /\ t[1] = u.title
                BY <2>4, <4>1
            <4>3. t \notin {None, Some("")}
                BY <4>2 DEF None, Some
            <4>4. AgentTag(e) = IF t \notin {None, Some("")} THEN <<"title", t[1]>> ELSE NoTag
                BY <2>2 DEF AgentTag, t
            <4>5. QED
                BY <4>2, <4>3, <4>4
        <3>2. QED
            BY <1>3, <2>1, <2>2, <2>4, <3>1 DEF UpdateTag
    <2>5. CASE u.title \in {"absent", "null", ""}
        <3>1. AgentTag(e) = NoTag
            BY <2>2, <2>3, <2>5 DEF AgentTag, Some, None
        <3>2. QED
            BY <1>3, <2>1, <2>2, <2>5, <3>1 DEF UpdateTag
    <2>6. QED
        BY <2>4, <2>5
<1>4. CASE u.update \notin {"current_mode", "config_option", "session_info"}
    <2>1. UpdateTag(u) = NoTag
        BY <1>4 DEF UpdateTag
    <2>2. \/ NormalizeNotification(u) = <<>>
          \/ \E e : /\ NormalizeNotification(u) = <<e>>
                    /\ e.type \in AgentEventTypes \ {"mode", "config_options", "info"}
        <3>1. \A b, r : \/ ContentEvent(r, b) = <<>>
                        \/ \E e : ContentEvent(r, b) = <<e>> /\ e.type = "message"
            BY DEF ContentEvent, AndThen, Some, None
        <3>2. \A b : \/ ThoughtEvent(b) = <<>>
                     \/ \E e : ThoughtEvent(b) = <<e>> /\ e.type = "thought"
            BY DEF ThoughtEvent, AndThen, Some, None
        <3>3. CASE u.update \in {"user_message_chunk", "agent_message_chunk"}
            <4>1. \E r : NormalizeNotification(u) = ContentEvent(r, u.block)
                BY <3>3 DEF NormalizeNotification, NormalizeUpdate
            <4>2. QED
                BY <3>1, <4>1
        <3>4. CASE u.update = "agent_thought_chunk"
            <4>1. NormalizeNotification(u) = ThoughtEvent(u.block)
                BY <3>4 DEF NormalizeNotification, NormalizeUpdate
            <4>2. QED
                BY <3>2, <4>1
        <3>5. CASE u.update \in {"tool_call", "tool_call_update", "plan", "available_commands",
                                 "usage", "cancel_request", "other_notification"}
            <4>1. \E c : \/ NormalizeNotification(u) = <<[type |-> "tool_call", call |-> c]>>
                         \/ NormalizeNotification(u) = <<[type |-> "plan", entries |-> c]>>
                         \/ NormalizeNotification(u) = <<[type |-> "commands", commands |-> c]>>
                         \/ NormalizeNotification(u) = <<[type |-> "usage", usage |-> c]>>
                         \/ NormalizeNotification(u) = <<[type |-> "diagnostics", level |-> c]>>
                <5>1. CASE u.update = "tool_call"
                    BY <5>1 DEF NormalizeNotification, NormalizeUpdate, Some
                <5>2. CASE u.update = "tool_call_update"
                    BY <5>2 DEF NormalizeNotification, NormalizeUpdate, Some
                <5>3. CASE u.update = "plan"
                    BY <5>3 DEF NormalizeNotification, NormalizeUpdate, Some
                <5>4. CASE u.update = "available_commands"
                    BY <5>4 DEF NormalizeNotification, NormalizeUpdate, Some
                <5>5. CASE u.update = "usage"
                    BY <5>5 DEF NormalizeNotification, NormalizeUpdate, Some
                <5>6. CASE u.update \in {"cancel_request", "other_notification"}
                    BY <5>6 DEF NormalizeNotification, Some
                <5>7. QED
                    BY <3>5, <5>1, <5>2, <5>3, <5>4, <5>5, <5>6
            <4>2. QED
                BY <4>1
        <3>6. CASE u.update \notin {"user_message_chunk", "agent_message_chunk",
                    "agent_thought_chunk", "tool_call", "tool_call_update", "plan",
                    "available_commands", "usage", "cancel_request", "other_notification"}
            BY <1>4, <3>6 DEF NormalizeNotification, NormalizeUpdate, None
        <3>7. QED
            BY <3>3, <3>4, <3>5, <3>6
    <2>3. \A e : e.type \in AgentEventTypes \ {"mode", "config_options", "info"}
                    => AgentTag(e) = NoTag
        BY DEF AgentTag
    <2>4. QED
        BY <2>1, <2>2, <2>3
<1>5. QED
    BY <1>1, <1>2, <1>3, <1>4

\* What was set last after an update.
LEMMA WantedTag ==
    ASSUME IsSettings(want), NEW u
    PROVE  /\ IsSettings(Wanted(u))
           /\ Wanted(u).mode = IF u.update = "current_mode" THEN u.mode ELSE want.mode
           /\ Some(Wanted(u).mode) =
                IF UpdateTag(u)[1] = "mode" THEN UpdateTag(u)[2] ELSE Some(want.mode)
           /\ Normal(Wanted(u).options) =
                IF UpdateTag(u)[1] = "options" THEN UpdateTag(u)[2] ELSE Normal(want.options)
           /\ Wanted(u).title = IF UpdateTag(u)[1] = "title" THEN UpdateTag(u)[2] ELSE want.title
<1> USE DEF IsSettings
<1>1. CASE u.update = "current_mode"
    BY <1>1 DEF Wanted, UpdateTag
<1>2. CASE u.update = "config_option"
    BY <1>2 DEF Wanted, UpdateTag
<1>3. CASE u.update = "session_info" /\ u.title \notin {"absent", "null", ""}
    BY <1>3 DEF Wanted, UpdateTag
<1>4. CASE /\ u.update \notin {"current_mode", "config_option"}
           /\ ~(u.update = "session_info" /\ u.title \notin {"absent", "null", ""})
    <2>1. Wanted(u) = want /\ UpdateTag(u) = NoTag
        BY <1>4 DEF Wanted, UpdateTag
    <2>2. QED
        <3>1. UpdateTag(u)[1] = "none"
            BY <2>1 DEF NoTag
        <3>2. QED
            BY <1>4, <2>1, <3>1
<1>5. QED
    BY <1>1, <1>2, <1>3, <1>4

\* The session and the journal entry after an agent event.
LEMMA AppliedTag ==
    ASSUME IsSettings(host), NEW e, e.type \in AgentEventTypes
    PROVE  /\ IsSettings(ApplyToHost(e))
           /\ ApplyToHost(e).mode =
                IF AgentTag(e)[1] = "mode" /\ host.mode # None THEN AgentTag(e)[2] ELSE host.mode
           /\ ApplyToHost(e).options =
                IF AgentTag(e)[1] = "options" THEN AgentTag(e)[2] ELSE host.options
           /\ ApplyToHost(e).title =
                IF AgentTag(e)[1] = "title" THEN AgentTag(e)[2] ELSE host.title
           /\ LogTag(SessionEventOf(e)) =
                IF AgentTag(e)[1] \in {"mode", "options"} THEN AgentTag(e) ELSE NoTag
<1>1. CASE e.type = "mode"
    <2>1. AgentTag(e) = <<"mode", Some(e.mode)>>
        BY <1>1 DEF AgentTag
    <2>2. SessionEventOf(e) = [name |-> "session.mode", mode |-> e.mode]
        BY <1>1 DEF SessionEventOf
    <2>3. ApplyToHost(e) = IF host.mode # None THEN [host EXCEPT !.mode = Some(e.mode)] ELSE host
        BY <1>1 DEF ApplyToHost
    <2>4. QED
        BY <2>1, <2>2, <2>3 DEF LogTag, IsSettings
<1>2. CASE e.type = "config_options"
    <2>1. AgentTag(e) = <<"options", e.options>>
        BY <1>2 DEF AgentTag
    <2>2. SessionEventOf(e) = [name |-> "session.config_options", options |-> e.options]
        BY <1>2 DEF SessionEventOf
    <2>3. ApplyToHost(e) = [host EXCEPT !.options = e.options]
        BY <1>2 DEF ApplyToHost
    <2>4. QED
        BY <2>1, <2>2, <2>3 DEF LogTag, IsSettings
<1>3. CASE e.type = "info"
    <2>1. SessionEventOf(e) = [name |-> "session.info", title |-> OrElse(e.title, None)]
        BY <1>3 DEF SessionEventOf
    <2>2. ApplyToHost(e) = [host EXCEPT !.title = TitleOf(e, host.title)]
        BY <1>3 DEF ApplyToHost
    <2>3. AgentTag(e) = IF OrElse(e.title, None) \notin {None, Some("")}
                        THEN <<"title", OrElse(e.title, None)[1]>> ELSE NoTag
        BY <1>3 DEF AgentTag
    <2>4. TitleOf(e, host.title) = IF OrElse(e.title, None) \notin {None, Some("")}
                                   THEN OrElse(e.title, None)[1] ELSE host.title
        BY DEF TitleOf
    <2>5. LogTag(SessionEventOf(e)) = NoTag
        BY <2>1 DEF LogTag
    <2>9. /\ IsSettings(ApplyToHost(e)) /\ ApplyToHost(e).title = TitleOf(e, host.title)
          /\ ApplyToHost(e).mode = host.mode /\ ApplyToHost(e).options = host.options
        <3> DEFINE v == TitleOf(e, host.title)
        <3>1. ApplyToHost(e) = [host EXCEPT !.title = v]
            BY <2>2
        <3> HIDE DEF v
        <3>2. /\ IsSettings(ApplyToHost(e)) /\ ApplyToHost(e).title = v
              /\ ApplyToHost(e).mode = host.mode /\ ApplyToHost(e).options = host.options
            BY <3>1 DEF IsSettings
        <3>3. QED
            BY <3>2 DEF v
    <2>6. CASE OrElse(e.title, None) \notin {None, Some("")}
        <3>1. AgentTag(e)[1] = "title" /\ AgentTag(e)[2] = TitleOf(e, host.title)
            <4>1. AgentTag(e) = <<"title", OrElse(e.title, None)[1]>>
                BY <2>3, <2>6, Zenon
            <4>2. TitleOf(e, host.title) = OrElse(e.title, None)[1]
                BY <2>4, <2>6, Zenon
            <4>3. QED
                BY <4>1, <4>2
        <3>2. QED
            BY <2>5, <2>9, <3>1
    <2>7. CASE OrElse(e.title, None) \in {None, Some("")}
        <3>1. AgentTag(e)[1] = "none" /\ TitleOf(e, host.title) = host.title
            <4>1. AgentTag(e) = NoTag /\ TitleOf(e, host.title) = host.title
                BY <2>3, <2>4, <2>7, Zenon
            <4>2. QED
                BY <4>1 DEF NoTag
        <3>2. QED
            BY <2>5, <2>9, <3>1
    <2>8. QED
        BY <2>6, <2>7
<1>4. CASE e.type \notin {"mode", "config_options", "info"}
    <2>1. AgentTag(e) = NoTag /\ ApplyToHost(e) = host
        BY <1>4 DEF AgentTag, ApplyToHost
    <2>2. SessionEventOf(e).name \notin {"session.mode", "session.config_options"}
        BY <1>4 DEF SessionEventOf, AgentEventTypes, MessagePayload
    <2>3. LogTag(SessionEventOf(e)) = NoTag
        BY <2>2 DEF LogTag
    <2>4. QED
        BY <2>1, <2>3 DEF NoTag
<1>5. QED
    BY <1>1, <1>2, <1>3, <1>4

-----------------------------------------------------------------------------
(* Appending to the journal *)

InboxTyped ==
    \A i \in DOMAIN inbox :
        /\ inbox[i].kind \in {"event", "replayed", "reset"}
        /\ inbox[i].kind = "event" => inbox[i].seq \in 1..Len(log)

LEMMA FcnIsSeq == \A S : \A n \in Nat : \A f \in [1..n -> S] : IsSeq(f) /\ Len(f) = n
<1> SUFFICES ASSUME NEW S, NEW n \in Nat, NEW f \in [1..n -> S] PROVE IsSeq(f) /\ Len(f) = n
    OBVIOUS
<1>1. f \in Seq(S) /\ Len(f) = n
    OBVIOUS
<1>2. QED
    BY <1>1 DEF IsSeq

\* append numbers the events on, keeps the old ones and what waits in the inbox.
LEMMA Appended ==
    ASSUME IsSeq(log), IsSeq(inbox), InboxTyped, NEW ev, IsSeq(ev), AppendAll(ev)
    PROVE  /\ IsSeq(log') /\ Len(log') = Len(log) + Len(ev)
           /\ IsSeq(inbox') /\ InboxTyped'
           /\ ~subscribed => inbox' = inbox /\ InboxTags' = InboxTags
           /\ subscribed =>
                 /\ DOMAIN InboxTags' = 1..(Len(inbox) + Len(ev))
                 /\ \A i \in 1..Len(inbox) : InboxTags'[i] = InboxTags[i]
                 /\ \A i \in 1..Len(ev) : InboxTags'[Len(inbox) + i] = LogTag(ev[i])
<1> DEFINE new == [i \in 1..Len(ev) |-> [kind |-> "event", seq |-> Len(log) + i]]
<1>1. /\ Len(log) \in Nat /\ Len(inbox) \in Nat /\ Len(ev) \in Nat
      /\ DOMAIN log = 1..Len(log) /\ DOMAIN inbox = 1..Len(inbox)
    BY SeqFacts
<1>2. /\ log' = log \o ev /\ IsSeq(log') /\ Len(log') = Len(log) + Len(ev)
      /\ \A i \in 1..Len(log) : log'[i] = log[i]
      /\ \A i \in 1..Len(ev) : log'[Len(log) + i] = ev[i]
    BY SeqConcat DEF AppendAll
<1>3. \A i \in DOMAIN inbox : inbox[i].kind = "event" =>
          inbox[i].seq \in 1..Len(log') /\ log'[inbox[i].seq] = log[inbox[i].seq]
    BY <1>1, <1>2 DEF InboxTyped
<1>4. CASE ~subscribed
    <2>1. inbox' = inbox
        BY <1>4 DEF AppendAll
    <2>2. InboxTyped'
        BY <1>3, <2>1 DEF InboxTyped
    <2>3. InboxTags' = InboxTags
        BY <1>3, <2>1 DEF InboxTags
    <2>4. QED
        BY <1>2, <1>4, <2>1, <2>2, <2>3
<1>5. CASE subscribed
    <2>1. IsSeq(new) /\ Len(new) = Len(ev)
        <3>1. new \in [1..Len(ev) -> {[kind |-> "event", seq |-> Len(log) + i] : i \in 1..Len(ev)}]
            OBVIOUS
        <3> HIDE DEF new
        <3>2. QED
            BY <1>1, <3>1, FcnIsSeq
    <2>2. \A i \in 1..Len(ev) : new[i] = [kind |-> "event", seq |-> Len(log) + i]
        OBVIOUS
    <2>i. inbox' = inbox \o new
        BY <1>5 DEF AppendAll
    <2> HIDE DEF new
    <2>3. /\ IsSeq(inbox')
          /\ DOMAIN inbox' = 1..(Len(inbox) + Len(ev))
          /\ \A i \in 1..Len(inbox) : inbox'[i] = inbox[i]
          /\ \A i \in 1..Len(ev) : inbox'[Len(inbox) + i] = new[i]
        <3>1. /\ IsSeq(inbox \o new)
              /\ DOMAIN (inbox \o new) = 1..(Len(inbox) + Len(new))
              /\ \A i \in 1..Len(inbox) : (inbox \o new)[i] = inbox[i]
              /\ \A i \in 1..Len(new) : (inbox \o new)[Len(inbox) + i] = new[i]
            BY <2>1, SeqConcat
        <3>2. QED
            BY <2>1, <2>i, <3>1, Zenon
    <2>4. \A i \in 1..(Len(inbox) + Len(ev)) :
             i \in 1..Len(inbox) \/ \E j \in 1..Len(ev) : i = Len(inbox) + j
        <3> SUFFICES ASSUME NEW i \in 1..(Len(inbox) + Len(ev)), i \notin 1..Len(inbox)
                     PROVE  \E j \in 1..Len(ev) : i = Len(inbox) + j
            OBVIOUS
        <3>1. i - Len(inbox) \in 1..Len(ev) /\ i = Len(inbox) + (i - Len(inbox))
            BY <1>1
        <3>2. QED
            BY <3>1
    <2>5. \A i \in 1..Len(ev) : /\ inbox'[Len(inbox) + i].kind = "event"
                                /\ inbox'[Len(inbox) + i].seq = Len(log) + i
        <3> SUFFICES ASSUME NEW i \in 1..Len(ev)
                     PROVE  /\ inbox'[Len(inbox) + i].kind = "event"
                            /\ inbox'[Len(inbox) + i].seq = Len(log) + i
            OBVIOUS
        <3>1. inbox'[Len(inbox) + i] = [kind |-> "event", seq |-> Len(log) + i]
            BY <2>2, <2>3, Zenon
        <3>2. QED
            BY <3>1
    <2>6. \A i \in 1..Len(ev) : Len(log) + i \in 1..Len(log')
        BY <1>1, <1>2
    <2>7. InboxTyped'
        <3> SUFFICES ASSUME NEW i \in DOMAIN inbox'
                     PROVE  /\ inbox'[i].kind \in {"event", "replayed", "reset"}
                            /\ inbox'[i].kind = "event" => inbox'[i].seq \in 1..Len(log')
            BY DEF InboxTyped
        <3>1. CASE i \in 1..Len(inbox)
            BY <1>1, <1>3, <2>3, <3>1 DEF InboxTyped
        <3>2. CASE \E j \in 1..Len(ev) : i = Len(inbox) + j
            BY <2>5, <2>6, <3>2
        <3>3. QED
            BY <2>3, <2>4, <3>1, <3>2
    <2>8. DOMAIN InboxTags' = 1..(Len(inbox) + Len(ev))
        BY <2>3 DEF InboxTags
    <2>9. ASSUME NEW i \in 1..Len(inbox) PROVE InboxTags'[i] = InboxTags[i]
        <3>1. i \in DOMAIN inbox /\ i \in DOMAIN inbox' /\ inbox'[i] = inbox[i]
            BY <1>1, <2>3
        <3>2. QED
            BY <1>3, <3>1 DEF InboxTags
    <2>10. ASSUME NEW i \in 1..Len(ev) PROVE InboxTags'[Len(inbox) + i] = LogTag(ev[i])
        <3>1. Len(inbox) + i \in DOMAIN inbox'
            BY <1>1, <2>3
        <3>2. QED
            BY <1>2, <2>5, <3>1 DEF InboxTags
    <2>11. QED
        BY <1>2, <1>5, <2>3, <2>7, <2>8, <2>9, <2>10
<1>6. QED
    BY <1>4, <1>5

\* Calls stay within a journal that grows.
LEMMA CallsKeep ==
    ASSUME Len(log) \in Nat, Len(log') \in Nat, Len(log') >= Len(log),
           NEW c, CallBounded(c)
    PROVE  /\ c.op = "attached" => c.latest \in 0..Len(log')
           /\ c.op = "history" => c.before \in 1..(Len(log') + 1)
           /\ c.op = "page" => c.events \subseteq 1..Len(log')
BY DEF CallBounded

-----------------------------------------------------------------------------
(* Types *)

ChannelTyped ==
    \A i \in DOMAIN channel :
        /\ channel[i].type \in AgentEventTypes
        /\ channel[i].type = "mode" => channel[i].mode \in Modes

\* The parts of TypeInv that the steps touch together.
HistoryTyped ==
    /\ crossed \subseteq {"mode", "options", "title"}
    /\ disturbed \subseteq {"event", "page", "call"}
    /\ IsSeq(said) /\ commands \in Nat
    /\ IsSettings(want) /\ want.mode \in Modes

HostTyped ==
    /\ IsSettings(host) /\ host.mode \in {None} \cup {Some(m) : m \in Modes}
    /\ subscribed \in BOOLEAN
    /\ IsSeq(channel) /\ ChannelTyped
    /\ IsSeq(log) /\ IsSeq(inbox) /\ InboxTyped

ViewTyped ==
    /\ IsSeq(replayBuffer)
    /\ seen \subseteq 1..Len(log)
    /\ loaded \subseteq seen
    /\ ToSet(replayBuffer) \subseteq 1..Len(log)

TaskTyped ==
    /\ attachedOnce \in BOOLEAN
    /\ stage \in {"idle", "attach", "history", "inspect"}
    /\ <<stage, call.op>> \in {<<"idle", "none">>,
                              <<"attach", "attach">>, <<"attach", "attached">>,
                              <<"history", "history">>, <<"history", "page">>,
                              <<"inspect", "inspect">>, <<"inspect", "inspected">>}
    /\ olderCall.op \in {"none", "history", "page"}
    /\ CallBounded(call) /\ CallBounded(olderCall)

TypeInv == HistoryTyped /\ HostTyped /\ ViewTyped /\ TaskTyped

LEMMA TypeInvTypes == TypeInv => TypeOK
BY Zenon DEF TypeInv, TypeOK, HistoryTyped, HostTyped, ViewTyped, TaskTyped, InboxTyped

\* A step that appends and leaves the view and its tasks alone.
LEMMA AppendTyped ==
    ASSUME HostTyped, ViewTyped, TaskTyped, NEW ev, IsSeq(ev), AppendAll(ev),
           UNCHANGED <<viewVars, taskVars, subscribed>>
    PROVE  ViewTyped' /\ TaskTyped' /\ IsSeq(log') /\ IsSeq(inbox') /\ InboxTyped'
<1>1. IsSeq(log') /\ IsSeq(inbox') /\ InboxTyped' /\ Len(log') = Len(log) + Len(ev)
    BY Appended DEF HostTyped
<1>2. Len(log) \in Nat /\ Len(ev) \in Nat
    BY SeqFacts DEF HostTyped
<1>3. Len(log') \in Nat /\ Len(log') >= Len(log) /\ 1..Len(log) \subseteq 1..Len(log')
    BY <1>1, <1>2
<1>4. ViewTyped'
    BY <1>3 DEF ViewTyped, viewVars
<1>5. CallBounded(call)' /\ CallBounded(olderCall)'
    <2>1. call' = call /\ olderCall' = olderCall /\ CallBounded(call) /\ CallBounded(olderCall)
        BY DEF taskVars, TaskTyped
    <2>2. QED
        BY <1>2, <1>3, <2>1, CallsKeep DEF CallBounded
<1>6. TaskTyped'
    BY <1>5 DEF TaskTyped, taskVars
<1>7. QED
    BY <1>1, <1>4, <1>6

\* A least element, without which Min(loaded) is nothing.
LEMMA LeastOf ==
    ASSUME NEW T \in SUBSET Nat, T # {}
    PROVE  Min(T) \in T /\ \A y \in T : Min(T) <= y
<1> DEFINE R == OpToRel(<, Nat)
<1>1. IsWellFoundedOn(R, Nat)
    BY NatLessThanWellFounded
<1>2. \A x, y \in Nat : y < x => <<y, x>> \in R
    BY DEF OpToRel
<1> HIDE DEF R
<1>3. PICK x \in T : \A y \in T : ~ (<<y, x>> \in R)
    BY <1>1, WFMin
<1>4. ASSUME NEW y \in T PROVE x <= y
    <2>1. x \in Nat /\ y \in Nat
        OBVIOUS
    <2>2. ~(y < x)
        BY <1>2, <1>3, <2>1
    <2>3. QED
        BY <2>1, <2>2
<1>5. \E z \in T : \A y \in T : z <= y
    BY <1>4
<1>6. QED
    BY <1>5, Zenon DEF Min

\* history answers with entries of the journal.
LEMMA PageBounded ==
    ASSUME Len(log) \in Nat, NEW before \in 1..(Len(log) + 1)
    PROVE  /\ Page(before).op = "page"
           /\ Page(before).events \subseteq 1..Len(log)
<1> DEFINE T == {1, before - PageLimit}
<1>1. Max(T) \in T /\ Max(T) >= 1
    <2>1. \E x \in T : \A y \in T : x >= y
        BY TranscriptAssumption
    <2>2. Max(T) \in T /\ \A y \in T : Max(T) >= y
        <3> HIDE DEF T
        <3>1. QED
            BY <2>1, Zenon DEF Max
    <2>3. QED
        BY <2>2
<1>2. Max(T) \in Int
    BY <1>1, TranscriptAssumption
<1> DEFINE start == Max(T)
<1>3. Page(before).op = "page" /\ Page(before).events = start..(before - 1)
    BY DEF Page
<1> HIDE DEF start
<1>4. start \in Int /\ start >= 1
    BY <1>1, <1>2 DEF start
<1>5. QED
    BY <1>3, <1>4

-----------------------------------------------------------------------------
LEMMA InitTyped == Init => TypeInv
<1> SUFFICES ASSUME Init PROVE HistoryTyped /\ HostTyped /\ ViewTyped /\ TaskTyped
    BY DEF TypeInv
<1>1. HistoryTyped
    <2>1. IsSeq(said) /\ commands \in Nat
        BY SeqNone DEF Init
    <2>2. IsSettings(want) /\ want.mode \in Modes
        BY TranscriptAssumption DEF Init, IsSettings
    <2>3. QED
        BY <2>1, <2>2 DEF Init, HistoryTyped
<1>2. HostTyped
    <2>1. IsSettings(host) /\ host.mode \in {None} \cup {Some(m) : m \in Modes}
        BY TranscriptAssumption DEF Init, IsSettings
    <2>2. IsSeq(channel) /\ IsSeq(log) /\ IsSeq(inbox)
        BY SeqNone, SeqOne DEF Init
    <2>3. ChannelTyped /\ InboxTyped
        BY SeqNone DEF Init, ChannelTyped, InboxTyped
    <2>4. QED
        BY <2>1, <2>2, <2>3 DEF Init, HostTyped
<1>3. ViewTyped
    BY SeqNone DEF Init, ViewTyped, ToSet
<1>4. TaskTyped
    BY DEF Init, TaskTyped, CallBounded, NoCall
<1>5. QED
    BY <1>1, <1>2, <1>3, <1>4

\* The agent speaks.
LEMMA AgentSaysTyped == TypeInv /\ AgentSays => TypeInv'
<1> SUFFICES ASSUME HistoryTyped, HostTyped, ViewTyped, TaskTyped, AgentSays
             PROVE  HistoryTyped' /\ HostTyped' /\ ViewTyped' /\ TaskTyped'
    BY DEF TypeInv
<1>1. PICK u \in Updates(Len(said) + 1) :
         /\ said' = Append(said, u)
         /\ want' = Wanted(u)
         /\ channel' = channel \o NormalizeNotification(u)
    BY DEF AgentSays
<1>2. u.update = "current_mode" => u.mode \in Modes
    <2>1. Len(said) \in Nat /\ commands \in Nat
        BY SeqFacts DEF HistoryTyped
    <2>2. Len(said) + commands < MaxInputs
        BY DEF AgentSays
    <2>3. Len(said) + 1 \in 1..MaxInputs
        BY <2>1, <2>2, TranscriptAssumption
    <2>4. QED
        BY <2>3, TranscriptAssumption DEF WellTyped
<1>3. HistoryTyped'
    <2>1. IsSettings(want') /\ want'.mode \in Modes
        BY <1>1, <1>2, WantedTag DEF HistoryTyped
    <2>2. IsSeq(said')
        BY <1>1, SeqAppend DEF HistoryTyped
    <2>3. QED
        BY <2>1, <2>2 DEF HistoryTyped, AgentSays
<1>4. IsSeq(channel') /\ ChannelTyped'
    <2>1. CASE NormalizeNotification(u) = <<>>
        <3>1. IsSeq(channel') /\ DOMAIN channel' = 1..(Len(channel) + 0)
              /\ \A i \in 1..Len(channel) : channel'[i] = channel[i]
            BY <1>1, <2>1, SeqNone, SeqConcat DEF HostTyped
        <3>2. Len(channel) \in Nat /\ DOMAIN channel = 1..Len(channel)
            BY SeqFacts DEF HostTyped
        <3>3. QED
            BY <3>1, <3>2 DEF HostTyped, ChannelTyped
    <2>2. ASSUME NEW e, NormalizeNotification(u) = <<e>>, e.type \in AgentEventTypes,
                 e.type = "mode" => u.update = "current_mode" /\ e.mode = u.mode
          PROVE  IsSeq(channel') /\ ChannelTyped'
        <3>1. /\ IsSeq(channel') /\ DOMAIN channel' = 1..(Len(channel) + 1)
              /\ \A i \in 1..Len(channel) : channel'[i] = channel[i]
              /\ channel'[Len(channel) + 1] = e
            <4>1. /\ IsSeq(<<e>>) /\ Len(<<e>>) = 1 /\ <<e>>[1] = e
                BY SeqOne
            <4>2. /\ IsSeq(channel \o <<e>>) /\ DOMAIN (channel \o <<e>>) = 1..(Len(channel) + Len(<<e>>))
                  /\ \A i \in 1..Len(channel) : (channel \o <<e>>)[i] = channel[i]
                  /\ \A i \in 1..Len(<<e>>) : (channel \o <<e>>)[Len(channel) + i] = <<e>>[i]
                BY <4>1, SeqConcat DEF HostTyped
            <4>3. QED
                BY <1>1, <2>2, <4>1, <4>2
        <3>2. Len(channel) \in Nat /\ DOMAIN channel = 1..Len(channel)
            BY SeqFacts DEF HostTyped
        <3>3. \A i \in DOMAIN channel' : i \in DOMAIN channel \/ i = Len(channel) + 1
            BY <3>1, <3>2
        <3>4. e.type = "mode" => e.mode \in Modes
            BY <1>2, <2>2
        <3>5. QED
            BY <2>2, <3>1, <3>2, <3>3, <3>4 DEF HostTyped, ChannelTyped
    <2>3. QED
        BY <2>1, <2>2, Normalized
<1>5. HostTyped'
    <2>1. UNCHANGED <<host, subscribed, log, inbox>>
        BY DEF AgentSays
    <2>2. InboxTyped'
        BY <2>1 DEF HostTyped, InboxTyped
    <2>3. QED
        BY <1>4, <2>1, <2>2, Zenon DEF HostTyped
<1>6. ViewTyped' /\ TaskTyped'
    BY DEF AgentSays, ViewTyped, TaskTyped, viewVars, taskVars, CallBounded
<1>7. QED
    BY <1>3, <1>5, <1>6

\* The pump applies an event.
LEMMA ApplyTyped == TypeInv /\ ApplyAgentEvent => TypeInv'
<1> SUFFICES ASSUME HistoryTyped, HostTyped, ViewTyped, TaskTyped, ApplyAgentEvent
             PROVE  HistoryTyped' /\ HostTyped' /\ ViewTyped' /\ TaskTyped'
    BY DEF TypeInv
<1> DEFINE e == Head(channel)
<1>1. /\ channel # <<>> /\ channel' = Tail(channel) /\ host' = ApplyToHost(e)
      /\ AppendAll(<<SessionEventOf(e)>>)
      /\ UNCHANGED <<history, subscribed, viewVars, taskVars>>
    BY DEF ApplyAgentEvent
<1>2. /\ Len(channel) \in Nat /\ Len(channel) # 0 /\ DOMAIN channel = 1..Len(channel)
      /\ e = channel[1]
    BY <1>1, SeqFacts DEF HostTyped
<1>3. e.type \in AgentEventTypes /\ (e.type = "mode" => e.mode \in Modes)
    BY <1>2 DEF HostTyped, ChannelTyped
<1> HIDE DEF e
<1>4. IsSeq(channel') /\ ChannelTyped'
    <2>1. /\ IsSeq(channel') /\ DOMAIN channel' = 1..(Len(channel) - 1)
          /\ \A i \in 1..(Len(channel) - 1) : channel'[i] = channel[i + 1]
        BY <1>1, SeqTail DEF HostTyped
    <2>2. \A i \in DOMAIN channel' : i + 1 \in DOMAIN channel /\ channel'[i] = channel[i + 1]
        BY <1>2, <2>1
    <2>3. QED
        BY <2>1, <2>2 DEF HostTyped, ChannelTyped
<1>5. IsSettings(host') /\ host'.mode \in {None} \cup {Some(m) : m \in Modes}
    <2>1. /\ IsSettings(ApplyToHost(e))
          /\ ApplyToHost(e).mode =
                IF AgentTag(e)[1] = "mode" /\ host.mode # None THEN AgentTag(e)[2] ELSE host.mode
        BY <1>3, AppliedTag DEF HostTyped
    <2>2. AgentTag(e)[1] = "mode" => AgentTag(e)[2] \in {Some(m) : m \in Modes}
        <3>1. CASE e.type = "mode"
            <4>1. AgentTag(e) = <<"mode", Some(e.mode)>>
                BY <3>1 DEF AgentTag
            <4>2. QED
                BY <1>3, <3>1, <4>1
        <3>2. CASE e.type # "mode"
            <4>1. \/ \E v : AgentTag(e) = <<"options", v>>
                  \/ \E v : AgentTag(e) = <<"title", v>>
                  \/ AgentTag(e) = <<"none", None>>
                BY <3>2 DEF AgentTag, NoTag
            <4>2. QED
                BY <4>1
        <3>3. QED
            BY <3>1, <3>2
    <2>3. QED
        BY <1>1, <2>1, <2>2 DEF HostTyped
<1>6. ViewTyped' /\ TaskTyped' /\ IsSeq(log') /\ IsSeq(inbox') /\ InboxTyped'
    BY <1>1, SeqOne, AppendTyped
<1>7. QED
    <2>1. subscribed' = subscribed
        BY <1>1
    <2>2. HostTyped'
        BY <1>4, <1>5, <1>6, <2>1, Zenon DEF HostTyped
    <2>3. HistoryTyped'
        BY <1>1 DEF HistoryTyped, history
    <2>4. QED
        BY <1>6, <2>2, <2>3

LEMMA SeqSnoc ==
    ASSUME NEW s, IsSeq(s), NEW x
    PROVE  /\ IsSeq(s \o <<x>>) /\ DOMAIN (s \o <<x>>) = 1..(Len(s) + 1)
           /\ \A i \in 1..Len(s) : (s \o <<x>>)[i] = s[i]
           /\ (s \o <<x>>)[Len(s) + 1] = x
<1>1. IsSeq(<<x>>) /\ Len(<<x>>) = 1 /\ <<x>>[1] = x
    BY SeqOne
<1>2. /\ IsSeq(s \o <<x>>) /\ DOMAIN (s \o <<x>>) = 1..(Len(s) + Len(<<x>>))
      /\ \A i \in 1..Len(s) : (s \o <<x>>)[i] = s[i]
      /\ \A i \in 1..Len(<<x>>) : (s \o <<x>>)[Len(s) + i] = <<x>>[i]
    BY <1>1, SeqConcat
<1>3. QED
    BY <1>1, <1>2

\* The connection's own notes of an attach reach the inbox.
LEMMA ControlTyped ==
    ASSUME IsSeq(inbox), InboxTyped, NEW more, IsSeq(more),
           \A i \in DOMAIN more : more[i].kind = "reset",
           inbox' = (inbox \o more) \o <<[kind |-> "replayed"]>>, log' = log
    PROVE  /\ IsSeq(inbox') /\ InboxTyped'
           /\ DOMAIN inbox' = 1..(Len(inbox) + Len(more) + 1)
           /\ \A i \in 1..Len(inbox) : inbox'[i] = inbox[i]
           /\ \A i \in 1..(Len(inbox) + Len(more) + 1) :
                 i \notin 1..Len(inbox) => inbox'[i].kind \in {"reset", "replayed"}
<1> DEFINE last == [kind |-> "replayed"]
           mid == inbox \o more
<1>1. last.kind = "replayed"
    OBVIOUS
<1>2. /\ Len(inbox) \in Nat /\ DOMAIN inbox = 1..Len(inbox)
      /\ Len(more) \in Nat /\ DOMAIN more = 1..Len(more)
    BY SeqFacts
<1>3. /\ IsSeq(mid) /\ Len(mid) = Len(inbox) + Len(more)
      /\ \A i \in 1..Len(inbox) : mid[i] = inbox[i]
      /\ \A i \in 1..Len(more) : mid[Len(inbox) + i] = more[i]
    BY SeqConcat
<1>i. inbox' = mid \o <<last>>
    OBVIOUS
<1> HIDE DEF mid, last
<1>4. /\ IsSeq(inbox') /\ DOMAIN inbox' = 1..(Len(mid) + 1)
      /\ \A i \in 1..Len(mid) : inbox'[i] = mid[i]
      /\ inbox'[Len(mid) + 1] = last
    <2>1. IsSeq(mid)
        BY <1>3
    <2>2. \A s, x : IsSeq(s) => /\ IsSeq(s \o <<x>>) /\ DOMAIN (s \o <<x>>) = 1..(Len(s) + 1)
                                /\ \A i \in 1..Len(s) : (s \o <<x>>)[i] = s[i]
                                /\ (s \o <<x>>)[Len(s) + 1] = x
        BY SeqSnoc, Zenon
    <2>3. /\ IsSeq(mid \o <<last>>) /\ DOMAIN (mid \o <<last>>) = 1..(Len(mid) + 1)
          /\ \A i \in 1..Len(mid) : (mid \o <<last>>)[i] = mid[i]
          /\ (mid \o <<last>>)[Len(mid) + 1] = last
        BY <2>1, <2>2, Zenon
    <2>4. QED
        BY <1>i, <2>3, Zenon
<1>5. /\ DOMAIN inbox' = 1..(Len(inbox) + Len(more) + 1)
      /\ \A i \in 1..Len(inbox) : inbox'[i] = inbox[i]
    BY <1>2, <1>3, <1>4
<1>6. ASSUME NEW i \in 1..(Len(inbox) + Len(more) + 1), i \notin 1..Len(inbox)
      PROVE  inbox'[i].kind \in {"reset", "replayed"}
    <2>1. CASE i = Len(mid) + 1
        BY <1>1, <1>4, <2>1
    <2>2. CASE i # Len(mid) + 1
        <3> DEFINE j == i - Len(inbox)
        <3>1. j \in 1..Len(more) /\ i = Len(inbox) + j /\ i \in 1..Len(mid)
            BY <1>2, <1>3, <1>6, <2>2
        <3> HIDE DEF j
        <3>2. inbox'[i] = more[j]
            BY <1>3, <1>4, <3>1
        <3>3. QED
            BY <1>2, <3>1, <3>2
    <2>3. QED
        BY <2>1, <2>2
<1>7. InboxTyped'
    <2> SUFFICES ASSUME NEW i \in DOMAIN inbox'
                 PROVE  /\ inbox'[i].kind \in {"event", "replayed", "reset"}
                        /\ inbox'[i].kind = "event" => inbox'[i].seq \in 1..Len(log)
        BY DEF InboxTyped
    <2>1. CASE i \in 1..Len(inbox)
        <3>1. inbox'[i] = inbox[i] /\ i \in DOMAIN inbox
            BY <1>2, <1>5, <2>1, Zenon
        <3>2. QED
            BY <3>1 DEF InboxTyped
    <2>2. CASE i \notin 1..Len(inbox)
        <3>1. inbox'[i].kind \in {"reset", "replayed"}
            BY <1>5, <1>6, <2>2, Zenon
        <3>2. QED
            BY <3>1
    <2>3. QED
        BY <2>1, <2>2
<1>8. QED
    BY <1>4, <1>5, <1>6, <1>7

\* A command of another device: the host changes a setting and appends ev.
LEMMA CommandTyped ==
    ASSUME TypeInv, NEW setting, NEW type, Command(setting, type),
           setting \in {"mode", "options", "title"} \/ type = "none",
           NEW ev, IsSeq(ev), AppendAll(ev),
           IsSettings(want'), want'.mode \in Modes,
           IsSettings(host'), host'.mode \in {None} \cup {Some(m) : m \in Modes}
    PROVE  TypeInv'
<1> USE DEF TypeInv
<1>1. /\ UNCHANGED <<said, disturbed, channel, subscribed, viewVars, taskVars>>
      /\ commands' = commands + 1
      /\ crossed' = IF Queued(type) THEN crossed \cup {setting} ELSE crossed
    BY DEF Command
<1>2. ~Queued("none")
    BY DEF Queued, HostTyped, ChannelTyped, AgentEventTypes
<1>3. crossed' \subseteq {"mode", "options", "title"}
    BY <1>1, <1>2 DEF HistoryTyped
<1>4. HistoryTyped'
    BY <1>1, <1>3 DEF HistoryTyped
<1>5. ViewTyped' /\ TaskTyped' /\ IsSeq(log') /\ IsSeq(inbox') /\ InboxTyped'
    BY <1>1, AppendTyped
<1>6. ChannelTyped' /\ IsSeq(channel')
    BY <1>1 DEF ChannelTyped, HostTyped
<1>7. HostTyped'
    BY <1>1, <1>5, <1>6, Zenon DEF HostTyped
<1>8. QED
    BY <1>4, <1>5, <1>7

LEMMA CommandsTyped == TypeInv /\ Commands => TypeInv'
<1> SUFFICES ASSUME TypeInv, Commands PROVE TypeInv'
    OBVIOUS
<1>t. /\ IsSettings(want) /\ want.mode \in Modes
      /\ IsSettings(host) /\ host.mode \in {None} \cup {Some(m) : m \in Modes}
    BY DEF TypeInv, HistoryTyped, HostTyped
<1>1. ASSUME NEW m \in Modes, SetMode(m) PROVE TypeInv'
    <2>1. /\ Command("mode", "mode") /\ want' = [want EXCEPT !.mode = m]
          /\ host' = IF host.mode = None THEN host ELSE [host EXCEPT !.mode = Some(m)]
          /\ AppendAll(<<[name |-> "session.mode", mode |-> m]>>)
        BY <1>1 DEF SetMode
    <2>2. IsSettings(want') /\ want'.mode \in Modes
        BY <1>t, <2>1 DEF IsSettings
    <2>3. IsSettings(host') /\ host'.mode \in {None} \cup {Some(k) : k \in Modes}
        <3>1. CASE host.mode = None
            BY <1>t, <2>1, <3>1
        <3>2. CASE host.mode # None
            <4>1. host' = [host EXCEPT !.mode = Some(m)]
                BY <2>1, <3>2
            <4>2. QED
                BY <1>t, <4>1 DEF IsSettings
        <3>3. QED
            BY <3>1, <3>2
    <2>4. QED
        BY <2>1, <2>2, <2>3, SeqOne, CommandTyped
<1>2. ASSUME NEW options \in Configs, SetConfigOption(options) PROVE TypeInv'
    <2>1. /\ Command("options", "config_options") /\ want' = [want EXCEPT !.options = options]
          /\ host' = [host EXCEPT !.options = Normal(options)]
          /\ AppendAll(<<[name |-> "session.config_options", options |-> Normal(options)]>>)
        BY <1>2 DEF SetConfigOption, Normal
    <2>2. IsSettings(want') /\ want'.mode \in Modes
        BY <1>t, <2>1 DEF IsSettings
    <2>3. IsSettings(host') /\ host'.mode \in {None} \cup {Some(k) : k \in Modes}
        BY <1>t, <2>1 DEF IsSettings
    <2>4. QED
        BY <2>1, <2>2, <2>3, SeqOne, CommandTyped
<1>3. ASSUME NEW title \in Titles, Rename(title) PROVE TypeInv'
    <2>1. /\ Command("title", "info") /\ want' = [want EXCEPT !.title = title]
          /\ host' = [host EXCEPT !.title = title]
          /\ AppendAll(<<Named("session.snapshot")>>)
        BY <1>3 DEF Rename
    <2>2. IsSettings(want') /\ want'.mode \in Modes
        BY <1>t, <2>1 DEF IsSettings
    <2>3. IsSettings(host') /\ host'.mode \in {None} \cup {Some(k) : k \in Modes}
        BY <1>t, <2>1 DEF IsSettings
    <2>4. QED
        BY <2>1, <2>2, <2>3, SeqOne, CommandTyped
<1>4. CASE SendPrompt
    <2>1. /\ Command("none", "none") /\ want' = want /\ host' = host
          /\ \E a : AppendAll(<<a, Named("session.status")>>)
        BY <1>4 DEF SendPrompt
    <2>2. PICK ev : IsSeq(ev) /\ AppendAll(ev)
        BY <2>1, SeqTwo
    <2>3. QED
        BY <1>t, <2>1, <2>2, CommandTyped
<1>5. QED
    BY <1>1, <1>2, <1>3, <1>4 DEF Commands

\* The host answers.
LEMMA ServeTyped == TypeInv /\ Serve => TypeInv'
<1> SUFFICES ASSUME TypeInv, Serve PROVE TypeInv'
    OBVIOUS
<1>t. HistoryTyped /\ HostTyped /\ ViewTyped /\ TaskTyped
    BY DEF TypeInv
<1>l. Len(log) \in Nat
    BY <1>t, SeqFacts DEF HostTyped
<1>1. CASE ServeAttach
    <2> DEFINE more == (IF attachedOnce THEN <<>> ELSE <<[kind |-> "reset"]>>)
    <2>1. /\ call.op = "attach" /\ call' = [op |-> "attached", latest |-> Len(log)]
          /\ subscribed' = TRUE /\ attachedOnce' = TRUE
          /\ inbox' = (inbox \o more) \o <<[kind |-> "replayed"]>>
          /\ UNCHANGED <<history, channel, host, log, viewVars, olderCall, stage>>
        BY <1>1 DEF ServeAttach
    <2>2. IsSeq(more) /\ \A i \in DOMAIN more : more[i].kind = "reset"
        <3>1. CASE attachedOnce
            BY <3>1, SeqNone
        <3>2. CASE ~attachedOnce
            <4>1. more = <<[kind |-> "reset"]>>
                BY <3>2
            <4>2. IsSeq(more) /\ Len(more) = 1 /\ more[1] = [kind |-> "reset"]
                BY <4>1, SeqOne
            <4>3. DOMAIN more = 1..1
                BY <4>1
            <4> HIDE DEF more
            <4>4. QED
                BY <4>2, <4>3
        <3>3. QED
            BY <3>1, <3>2
    <2> HIDE DEF more
    <2>3. IsSeq(inbox') /\ InboxTyped'
        BY <1>t, <2>1, <2>2, ControlTyped DEF HostTyped
    <2>4. HostTyped'
        <3>1. ChannelTyped'
            BY <1>t, <2>1 DEF HostTyped, ChannelTyped
        <3>2. QED
            BY <1>t, <2>1, <2>3, <3>1, Zenon DEF HostTyped
    <2>5. TaskTyped'
        <3>1. stage = "attach"
            BY <1>t, <2>1 DEF TaskTyped
        <3>2. CallBounded(call)' /\ CallBounded(olderCall)'
            BY <1>t, <1>l, <2>1 DEF TaskTyped, CallBounded
        <3>3. QED
            BY <1>t, <2>1, <3>1, <3>2 DEF TaskTyped
    <2>6. HistoryTyped' /\ ViewTyped'
        BY <1>t, <2>1 DEF HistoryTyped, ViewTyped, history, viewVars
    <2>7. QED
        BY <2>4, <2>5, <2>6 DEF TypeInv
<1>2. ASSUME UNCHANGED <<history, hostVars, inbox, viewVars>>, TaskTyped' PROVE TypeInv'
    <2>1. HistoryTyped' /\ ViewTyped'
        BY <1>t, <1>2 DEF HistoryTyped, ViewTyped, history, viewVars, hostVars
    <2>2. HostTyped'
        BY <1>t, <1>2 DEF HostTyped, hostVars, ChannelTyped, InboxTyped
    <2>3. QED
        BY <1>2, <2>1, <2>2 DEF TypeInv
<1>3. CASE ServeHistory
    <2>1. /\ call.op = "history" /\ call' = Page(call.before)
          /\ UNCHANGED <<history, hostVars, inbox, viewVars, olderCall, attachedOnce, loads, stage>>
        BY <1>3 DEF ServeHistory
    <2>2. call.before \in 1..(Len(log) + 1) /\ stage = "history"
        BY <1>t, <2>1 DEF TaskTyped, CallBounded
    <2>3. call'.op = "page" /\ call'.events \subseteq 1..Len(log)
        BY <1>l, <2>1, <2>2, PageBounded
    <2>4. TaskTyped'
        BY <1>t, <2>1, <2>2, <2>3 DEF TaskTyped, CallBounded, hostVars
    <2>5. QED
        BY <1>2, <2>1, <2>4
<1>4. CASE ServeOlder
    <2>1. /\ olderCall.op = "history" /\ olderCall' = Page(olderCall.before)
          /\ UNCHANGED <<history, hostVars, inbox, viewVars, call, attachedOnce, loads, stage>>
        BY <1>4 DEF ServeOlder
    <2>2. olderCall.before \in 1..(Len(log) + 1)
        BY <1>t, <2>1 DEF TaskTyped, CallBounded
    <2>3. olderCall'.op = "page" /\ olderCall'.events \subseteq 1..Len(log)
        BY <1>l, <2>1, <2>2, PageBounded
    <2>4. TaskTyped'
        BY <1>t, <2>1, <2>3 DEF TaskTyped, CallBounded, hostVars
    <2>5. QED
        BY <1>2, <2>1, <2>4
<1>5. CASE ServeInspect
    <2>1. /\ call.op = "inspect"
          /\ call' = [op |-> "inspected", mode |-> host.mode, options |-> host.options]
          /\ UNCHANGED <<history, hostVars, inbox, viewVars, olderCall, attachedOnce, loads, stage>>
        BY <1>5 DEF ServeInspect
    <2>2. TaskTyped'
        BY <1>t, <2>1 DEF TaskTyped, CallBounded, hostVars
    <2>3. QED
        BY <1>2, <2>1, <2>2
<1>6. QED
    BY <1>1, <1>3, <1>4, <1>5 DEF Serve

\* The observation task takes the oldest of the inbox.
LEMMA InboxTail ==
    ASSUME IsSeq(inbox), inbox # <<>>, InboxTyped, inbox' = Tail(inbox), log' = log
    PROVE  /\ Len(inbox) \in Nat /\ Len(inbox) # 0
           /\ DOMAIN inbox = 1..Len(inbox) /\ Head(inbox) = inbox[1]
           /\ Head(inbox).kind = "event" => Head(inbox).seq \in 1..Len(log)
           /\ IsSeq(inbox') /\ InboxTyped'
           /\ DOMAIN inbox' = 1..(Len(inbox) - 1)
           /\ \A i \in 1..(Len(inbox) - 1) : inbox'[i] = inbox[i + 1]
<1>1. /\ Len(inbox) \in Nat /\ Len(inbox) # 0
      /\ DOMAIN inbox = 1..Len(inbox) /\ Head(inbox) = inbox[1]
    BY SeqFacts
<1>2. /\ IsSeq(inbox') /\ DOMAIN inbox' = 1..(Len(inbox) - 1)
      /\ \A i \in 1..(Len(inbox) - 1) : inbox'[i] = inbox[i + 1]
    BY SeqTail
<1>3. \A i \in DOMAIN inbox' : i + 1 \in DOMAIN inbox /\ inbox'[i] = inbox[i + 1]
    BY <1>1, <1>2
<1>4. InboxTyped'
    BY <1>3 DEF InboxTyped
<1>5. Head(inbox).kind = "event" => Head(inbox).seq \in 1..Len(log)
    <2>1. 1 \in DOMAIN inbox
        BY <1>1
    <2>2. QED
        BY <1>1, <2>1 DEF InboxTyped
<1>6. QED
    BY <1>1, <1>2, <1>4, <1>5

LEMMA ObserveTyped ==
    TypeInv /\ (HandleEvent \/ HandleReplayCompleted \/ HandleTranscriptReset) => TypeInv'
<1> SUFFICES ASSUME TypeInv, HandleEvent \/ HandleReplayCompleted \/ HandleTranscriptReset
             PROVE  TypeInv'
    OBVIOUS
<1>t. HistoryTyped /\ HostTyped /\ ViewTyped /\ TaskTyped
    BY DEF TypeInv
<1>1. /\ inbox # <<>> /\ inbox' = Tail(inbox)
      /\ UNCHANGED <<said, asked, want, crossed, commands, hostVars, taskVars>>
    BY DEF HandleEvent, HandleReplayCompleted, HandleTranscriptReset, history
<1>2. /\ IsSeq(inbox') /\ InboxTyped'
      /\ Head(inbox).kind = "event" => Head(inbox).seq \in 1..Len(log)
    BY <1>1, <1>t, InboxTail DEF HostTyped, hostVars
<1>3. HostTyped' /\ TaskTyped'
    <2>1. UNCHANGED <<channel, host, log, subscribed>>
        BY <1>1 DEF hostVars
    <2>2. ChannelTyped'
        BY <1>t, <2>1 DEF HostTyped, ChannelTyped
    <2>3. HostTyped'
        BY <1>t, <1>2, <2>1, <2>2, Zenon DEF HostTyped
    <2>4. TaskTyped'
        BY <1>t, <1>1, <2>1 DEF TaskTyped, taskVars, CallBounded
    <2>5. QED
        BY <2>3, <2>4
<1>4. CASE HandleEvent
    <2>1. HistoryTyped'
        BY <1>t, <1>1, <1>4 DEF HandleEvent, HistoryTyped
    <2>2. CASE stage # "idle"
        <3>1. /\ replayBuffer' = Append(replayBuffer, Head(inbox).seq)
              /\ UNCHANGED <<loaded, seen, log>> /\ Head(inbox).seq \in 1..Len(log)
            BY <1>2, <1>4, <2>2 DEF HandleEvent, hostVars
        <3>2. /\ IsSeq(replayBuffer')
              /\ ToSet(replayBuffer') = ToSet(replayBuffer) \cup {Head(inbox).seq}
            BY <1>t, <3>1, SeqAppend DEF ViewTyped
        <3>3. ViewTyped'
            BY <1>t, <3>1, <3>2 DEF ViewTyped
        <3>4. QED
            BY <1>3, <2>1, <3>3 DEF TypeInv
    <2>3. CASE stage = "idle"
        <3> DEFINE new == ToSet(<<Head(inbox).seq>>)
        <3>1. /\ loaded' = loaded \cup (new \ seen) /\ seen' = seen \cup new
              /\ UNCHANGED <<replayBuffer, log>> /\ Head(inbox).seq \in 1..Len(log)
            BY <1>2, <1>4, <2>3 DEF HandleEvent, HandleEvents, hostVars
        <3>2. new = {Head(inbox).seq}
            BY DEF ToSet
        <3> HIDE DEF new
        <3>3. ViewTyped'
            BY <1>t, <3>1, <3>2 DEF ViewTyped
        <3>4. QED
            BY <1>3, <2>1, <3>3 DEF TypeInv
    <2>4. QED
        BY <2>2, <2>3
<1>5. CASE HandleReplayCompleted
    <2>1. /\ loaded' = loaded \cup (ToSet(replayBuffer) \ seen)
          /\ seen' = seen \cup ToSet(replayBuffer)
          /\ replayBuffer' = <<>> /\ UNCHANGED <<history, log>>
        BY <1>5 DEF HandleReplayCompleted, HandleEvents, hostVars
    <2>2. IsSeq(replayBuffer') /\ ToSet(replayBuffer') = {}
        BY <2>1, SeqNone DEF ToSet
    <2>3. ViewTyped'
        BY <1>t, <2>1, <2>2 DEF ViewTyped
    <2>4. HistoryTyped'
        BY <1>t, <2>1 DEF HistoryTyped, history
    <2>5. QED
        BY <1>3, <2>3, <2>4 DEF TypeInv
<1>6. CASE HandleTranscriptReset
    <2>1. /\ UNCHANGED <<history, log>>
          /\ \/ UNCHANGED <<replayBuffer, loaded, seen>>
             \/ replayBuffer' = <<>> /\ loaded' = {} /\ seen' = {}
        BY <1>6 DEF HandleTranscriptReset, ClearTranscript, hostVars
    <2>2. IsSeq(<<>>) /\ ToSet(<<>>) = {}
        BY SeqNone DEF ToSet
    <2>3. ViewTyped'
        BY <1>t, <2>1, <2>2 DEF ViewTyped
    <2>4. HistoryTyped'
        BY <1>t, <2>1 DEF HistoryTyped, history
    <2>5. QED
        BY <1>3, <2>3, <2>4 DEF TypeInv
<1>7. QED
    BY <1>4, <1>5, <1>6

\* A step of the loading tasks leaves the host alone.
LEMMA HostLeft ==
    ASSUME HostTyped, UNCHANGED <<hostVars, inbox>>
    PROVE  HostTyped' /\ log' = log
<1>1. UNCHANGED <<channel, host, log, subscribed, inbox>>
    BY DEF hostVars
<1>2. ChannelTyped' /\ InboxTyped'
    BY <1>1 DEF HostTyped, ChannelTyped, InboxTyped
<1>3. QED
    BY <1>1, <1>2, Zenon DEF HostTyped

LEMMA LoadTyped ==
    TypeInv /\ (LoadSnapshot \/ ResumeAttach \/ ResumeHistory \/ ResumeInspect \/ LoadFails)
        => TypeInv'
<1> SUFFICES ASSUME TypeInv,
                    LoadSnapshot \/ ResumeAttach \/ ResumeHistory \/ ResumeInspect \/ LoadFails
             PROVE  TypeInv'
    OBVIOUS
<1>t. HistoryTyped /\ HostTyped /\ ViewTyped /\ TaskTyped
    BY DEF TypeInv
<1>l. Len(log) \in Nat
    BY <1>t, SeqFacts DEF HostTyped
<1>n. IsSeq(<<>>) /\ ToSet(<<>>) = {}
    BY SeqNone DEF ToSet
<1>u. UNCHANGED <<hostVars, inbox, olderCall, attachedOnce>>
    BY DEF LoadSnapshot, ResumeAttach, ResumeHistory, ResumeInspect, LoadFails, hostVars
<1>h. HostTyped' /\ log' = log
    BY <1>t, <1>u, HostLeft
<1>1. CASE LoadSnapshot
    <2>1. /\ stage' = "attach" /\ call' = [op |-> "attach"] /\ replayBuffer' = <<>>
          /\ UNCHANGED <<history, loaded, seen>>
        BY <1>1 DEF LoadSnapshot
    <2>2. HistoryTyped'
        BY <1>t, <2>1 DEF HistoryTyped, history
    <2>3. ViewTyped'
        BY <1>t, <1>n, <1>h, <2>1 DEF ViewTyped
    <2>4. TaskTyped'
        BY <1>t, <1>u, <1>h, <2>1 DEF TaskTyped, CallBounded
    <2>5. QED
        BY <1>h, <2>2, <2>3, <2>4 DEF TypeInv
<1>2. CASE ResumeAttach
    <2>1. /\ call.op = "attached"
          /\ replayBuffer' = <<>> /\ loaded' = {} /\ seen' = {}
          /\ UNCHANGED <<said, asked, want, crossed, commands>>
          /\ disturbed' \in {disturbed, disturbed \cup {"page"}}
          /\ \/ stage' = "history" /\ call' = [op |-> "history", before |-> call.latest + 1]
             \/ stage' = "inspect" /\ call' = [op |-> "inspect"]
        BY <1>2 DEF ResumeAttach, ClearTranscript
    <2>2. HistoryTyped'
        BY <1>t, <2>1 DEF HistoryTyped
    <2>3. ViewTyped'
        BY <1>n, <2>1 DEF ViewTyped
    <2>4. call.latest + 1 \in 1..(Len(log) + 1)
        BY <1>t, <1>l, <2>1 DEF TaskTyped, CallBounded
    <2>5. TaskTyped'
        BY <1>t, <1>u, <1>h, <2>1, <2>4 DEF TaskTyped, CallBounded
    <2>6. QED
        BY <1>h, <2>2, <2>3, <2>5 DEF TypeInv
<1>3. CASE ResumeHistory
    <2>1. /\ call.op = "page" /\ stage' = "inspect" /\ call' = [op |-> "inspect"]
          /\ loaded' = call.events \ seen /\ seen' = seen \cup (call.events \ seen)
          /\ UNCHANGED <<history, replayBuffer>>
        BY <1>3 DEF ResumeHistory
    <2>2. call.events \subseteq 1..Len(log)
        BY <1>t, <2>1 DEF TaskTyped, CallBounded
    <2>3. HistoryTyped'
        BY <1>t, <2>1 DEF HistoryTyped, history
    <2>4. ViewTyped'
        BY <1>t, <1>h, <2>1, <2>2 DEF ViewTyped
    <2>5. TaskTyped'
        BY <1>t, <1>u, <1>h, <2>1 DEF TaskTyped, CallBounded
    <2>6. QED
        BY <1>h, <2>3, <2>4, <2>5 DEF TypeInv
<1>4. CASE ResumeInspect
    <2>1. /\ stage' = "idle" /\ call' = NoCall
          /\ disturbed' \in {disturbed, disturbed \cup {"event"}}
          /\ UNCHANGED <<said, asked, want, crossed, commands, replayBuffer, loaded, seen>>
        BY <1>4 DEF ResumeInspect
    <2>2. HistoryTyped'
        BY <1>t, <2>1 DEF HistoryTyped
    <2>3. ViewTyped'
        BY <1>t, <1>h, <2>1 DEF ViewTyped
    <2>4. TaskTyped'
        BY <1>t, <1>u, <1>h, <2>1 DEF TaskTyped, CallBounded, NoCall
    <2>5. QED
        BY <1>h, <2>2, <2>3, <2>4 DEF TypeInv
<1>5. CASE LoadFails
    <2>1. /\ disturbed' = disturbed \cup {"call"}
          /\ \/ stage' = "inspect" /\ call' = [op |-> "inspect"]
             \/ stage' = "idle" /\ call' = NoCall
          /\ UNCHANGED <<said, asked, want, crossed, commands, replayBuffer, loaded, seen>>
        BY <1>5 DEF LoadFails
    <2>2. HistoryTyped'
        BY <1>t, <2>1 DEF HistoryTyped
    <2>3. ViewTyped'
        BY <1>t, <1>h, <2>1 DEF ViewTyped
    <2>4. TaskTyped'
        BY <1>t, <1>u, <1>h, <2>1 DEF TaskTyped, CallBounded, NoCall
    <2>5. QED
        BY <1>h, <2>2, <2>3, <2>4 DEF TypeInv
<1>6. QED
    BY <1>1, <1>2, <1>3, <1>4, <1>5

LEMMA OlderTyped == TypeInv /\ (LoadOlder \/ ResumeOlder) => TypeInv'
<1> SUFFICES ASSUME TypeInv, LoadOlder \/ ResumeOlder PROVE TypeInv'
    OBVIOUS
<1>t. HistoryTyped /\ HostTyped /\ ViewTyped /\ TaskTyped
    BY DEF TypeInv
<1>l. Len(log) \in Nat
    BY <1>t, SeqFacts DEF HostTyped
<1>u. UNCHANGED <<history, hostVars, inbox, call, attachedOnce, stage, replayBuffer>>
    BY DEF LoadOlder, ResumeOlder, viewVars
<1>h. HostTyped' /\ log' = log /\ HistoryTyped'
    BY <1>t, <1>u, HostLeft DEF HistoryTyped, history
<1>1. CASE LoadOlder
    <2>1. /\ loaded # {} /\ olderCall' = [op |-> "history", before |-> Min(loaded)]
          /\ UNCHANGED <<loaded, seen>>
        BY <1>1 DEF LoadOlder, viewVars
    <2>2. loaded \subseteq 1..Len(log)
        BY <1>t DEF ViewTyped
    <2>3. Min(loaded) \in 1..(Len(log) + 1)
        <3>1. loaded \in SUBSET Nat
            BY <1>l, <2>2
        <3>2. Min(loaded) \in loaded
            BY <2>1, <3>1, LeastOf, Zenon
        <3>3. Min(loaded) \in 1..Len(log)
            BY <2>2, <3>2, Zenon
        <3>4. \A x : x \in 1..Len(log) => x \in 1..(Len(log) + 1)
            BY <1>l
        <3>5. QED
            BY <3>3, <3>4, Zenon
    <2>4. TaskTyped'
        BY <1>t, <1>u, <1>h, <2>1, <2>3 DEF TaskTyped, CallBounded
    <2>5. ViewTyped'
        BY <1>t, <1>u, <1>h, <2>1 DEF ViewTyped
    <2>6. QED
        BY <1>h, <2>4, <2>5 DEF TypeInv
<1>2. CASE ResumeOlder
    <2>1. /\ olderCall.op = "page" /\ olderCall' = NoCall
          /\ loaded' = loaded \cup (olderCall.events \ seen)
          /\ seen' = seen \cup (olderCall.events \ seen)
        BY <1>2 DEF ResumeOlder
    <2>2. olderCall.events \subseteq 1..Len(log)
        BY <1>t, <2>1 DEF TaskTyped, CallBounded
    <2>3. ViewTyped'
        BY <1>t, <1>u, <1>h, <2>1, <2>2 DEF ViewTyped
    <2>4. TaskTyped'
        BY <1>t, <1>u, <1>h, <2>1 DEF TaskTyped, CallBounded, NoCall
    <2>5. QED
        BY <1>h, <2>3, <2>4 DEF TypeInv
<1>3. QED
    BY <1>1, <1>2

LEMMA StutterTyped == TypeInv /\ UNCHANGED vars => TypeInv'
<1> SUFFICES ASSUME TypeInv, UNCHANGED vars PROVE TypeInv'
    OBVIOUS
<1>1. UNCHANGED <<history, hostVars, inbox, viewVars, taskVars>>
    BY DEF vars
<1>2. HistoryTyped /\ HostTyped /\ ViewTyped /\ TaskTyped
    BY DEF TypeInv
<1>3. HostTyped' /\ log' = log
    BY <1>1, <1>2, HostLeft
<1>4. HistoryTyped'
    BY <1>1, <1>2 DEF HistoryTyped, history
<1>5. ViewTyped'
    BY <1>1, <1>2, <1>3 DEF ViewTyped, viewVars
<1>6. TaskTyped'
    BY <1>1, <1>2, <1>3 DEF TaskTyped, taskVars, CallBounded
<1>7. QED
    BY <1>3, <1>4, <1>5, <1>6 DEF TypeInv

LEMMA TypeInvAlways == Spec => []TypeInv
<1>1. TypeInv /\ [Next]_vars => TypeInv'
    BY AgentSaysTyped, ApplyTyped, CommandsTyped, ServeTyped, ObserveTyped, LoadTyped, OlderTyped,
       StutterTyped DEF Next, View
<1>2. QED
    BY InitTyped, <1>1, PTL DEF Spec

\* Every reachable state of the host, the connection and the view model is well
\* typed, for any updates, page size and number of loads: a load waits for the
\* call of its stage and the view knows only entries of the journal.
THEOREM TranscriptTypeCorrect == Spec => []TypeOK
BY TypeInvAlways, TypeInvTypes, PTL

-----------------------------------------------------------------------------
(* Settings: the host *)

\* What the host holds becomes what was set last.
HostInv ==
    /\ "mode" \notin crossed /\ host.mode # None =>
          Follows(ChannelTags, "mode", host.mode, Some(want.mode))
    /\ "options" \notin crossed =>
          Follows(ChannelTags, "options", host.options, Normal(want.options))
    /\ "title" \notin crossed => Follows(ChannelTags, "title", host.title, want.title)

\* The kinds of tags.
LEMMA AgentTagKinds ==
    \A e : /\ AgentTag(e)[1] = "mode" => e.type = "mode" /\ AgentTag(e)[2] # None
           /\ AgentTag(e)[1] = "options" => e.type = "config_options"
           /\ AgentTag(e)[1] = "title" => e.type = "info"
<1> SUFFICES ASSUME NEW e
             PROVE  /\ AgentTag(e)[1] = "mode" => e.type = "mode" /\ AgentTag(e)[2] # None
                    /\ AgentTag(e)[1] = "options" => e.type = "config_options"
                    /\ AgentTag(e)[1] = "title" => e.type = "info"
    OBVIOUS
<1>1. CASE e.type = "mode"
    <2>1. AgentTag(e) = <<"mode", Some(e.mode)>>
        BY <1>1 DEF AgentTag
    <2>2. QED
        BY <1>1, <2>1 DEF Some, None
<1>2. CASE e.type = "config_options"
    <2>1. AgentTag(e) = <<"options", e.options>>
        BY <1>2 DEF AgentTag
    <2>2. QED
        BY <1>2, <2>1
<1>3. CASE e.type = "info"
    <2>1. AgentTag(e) = NoTag \/ \E v : AgentTag(e) = <<"title", v>>
        BY <1>3 DEF AgentTag
    <2>2. QED
        BY <1>3, <2>1 DEF NoTag
<1>4. CASE e.type \notin {"mode", "config_options", "info"}
    <2>1. AgentTag(e) = NoTag
        BY <1>4 DEF AgentTag
    <2>2. QED
        BY <2>1 DEF NoTag
<1>5. QED
    BY <1>1, <1>2, <1>3, <1>4

\* The agent's update joins the channel.
LEMMA SaysTags ==
    ASSUME TypeInv, AgentSays
    PROVE  \E u : /\ want' = Wanted(u)
                  /\ \A k \in {"mode", "options", "title"} : \A cur, target :
                        Follows(ChannelTags, k, cur, target) =>
                            Follows(ChannelTags', k, cur,
                                    IF UpdateTag(u)[1] = k THEN UpdateTag(u)[2] ELSE target)
<1>1. PICK u \in Updates(Len(said) + 1) :
         /\ want' = Wanted(u)
         /\ channel' = channel \o NormalizeNotification(u)
    BY DEF AgentSays
<1>2. IsSeq(channel)
    BY DEF TypeInv, HostTyped
<1>3. Len(channel) \in Nat /\ DOMAIN channel = 1..Len(channel)
    BY <1>2, SeqFacts
<1>4. DOMAIN ChannelTags = 1..Len(channel) /\ DOMAIN ChannelTags' = DOMAIN channel'
    BY <1>3 DEF ChannelTags
<1> SUFFICES ASSUME NEW k \in {"mode", "options", "title"}, NEW cur, NEW target,
                    Follows(ChannelTags, k, cur, target)
             PROVE  Follows(ChannelTags', k, cur,
                            IF UpdateTag(u)[1] = k THEN UpdateTag(u)[2] ELSE target)
    BY <1>1
<1>5. CASE NormalizeNotification(u) = <<>> /\ UpdateTag(u) = NoTag
    <2>1. channel' = channel
        <3>1. PICK S : channel \in Seq(S)
            BY <1>2 DEF IsSeq
        <3>2. QED
            BY <1>1, <1>5, <3>1
    <2>2. ChannelTags' = ChannelTags
        BY <2>1 DEF ChannelTags
    <2>3. UpdateTag(u)[1] # k
        BY <1>5 DEF NoTag
    <2>4. QED
        BY <2>2, <2>3
<1>6. ASSUME NEW e, NormalizeNotification(u) = <<e>>, AgentTag(e) = UpdateTag(u)
      PROVE  Follows(ChannelTags', k, cur,
                     IF UpdateTag(u)[1] = k THEN UpdateTag(u)[2] ELSE target)
    <2>1. /\ DOMAIN channel' = 1..(Len(channel) + 1)
          /\ \A i \in 1..Len(channel) : channel'[i] = channel[i]
          /\ channel'[Len(channel) + 1] = e
        <3>1. channel' = channel \o <<e>>
            BY <1>1, <1>6
        <3>2. QED
            BY <1>2, <3>1, SeqSnoc
    <2>2. DOMAIN ChannelTags' = 1..(Len(channel) + 1)
        BY <1>4, <2>1
    <2>3. \A i \in 1..Len(channel) : ChannelTags'[i] = ChannelTags[i]
        BY <1>3, <2>1 DEF ChannelTags
    <2>4. ChannelTags'[Len(channel) + 1] = UpdateTag(u)
        BY <1>3, <1>6, <2>1 DEF ChannelTags
    <2>5. QED
        BY <1>3, <1>4, <2>2, <2>3, <2>4, FollowsPush, SMTT(30)
<1>7. QED
    BY <1>5, <1>6, Normalized

\* The pump takes the oldest event of the channel.
LEMMA ApplyTags ==
    ASSUME TypeInv, ApplyAgentEvent, NEW k, NEW cur, NEW target,
           Follows(ChannelTags, k, cur, target)
    PROVE  Follows(ChannelTags', k,
                   IF AgentTag(Head(channel))[1] = k THEN AgentTag(Head(channel))[2] ELSE cur,
                   target)
<1>1. IsSeq(channel) /\ channel # <<>> /\ channel' = Tail(channel)
    BY DEF TypeInv, HostTyped, ApplyAgentEvent
<1>2. /\ Len(channel) \in Nat /\ Len(channel) # 0
      /\ DOMAIN channel = 1..Len(channel) /\ Head(channel) = channel[1]
    BY <1>1, SeqFacts
<1>3. /\ DOMAIN channel' = 1..(Len(channel) - 1)
      /\ \A i \in 1..(Len(channel) - 1) : channel'[i] = channel[i + 1]
    BY <1>1, SeqTail
<1>4. DOMAIN ChannelTags = 1..Len(channel) /\ DOMAIN ChannelTags' = 1..(Len(channel) - 1)
    BY <1>2, <1>3 DEF ChannelTags
<1>5. ASSUME NEW i \in 1..(Len(channel) - 1) PROVE ChannelTags'[i] = ChannelTags[i + 1]
    <2>1. i + 1 \in DOMAIN channel /\ i \in DOMAIN channel' /\ channel'[i] = channel[i + 1]
        BY <1>2, <1>3
    <2>2. QED
        BY <2>1 DEF ChannelTags
<1>6. ChannelTags[1] = AgentTag(Head(channel))
    BY <1>2 DEF ChannelTags
<1>7. QED
    BY <1>2, <1>4, <1>5, <1>6, FollowsPop

LEMMA HostInvStep == TypeInv /\ HostInv /\ [Next]_vars => HostInv'
<1> SUFFICES ASSUME TypeInv, HostInv, [Next]_vars PROVE HostInv'
    OBVIOUS
<1>w. IsSettings(want) /\ IsSettings(host)
    BY DEF TypeInv, HistoryTyped, HostTyped
<1>1. CASE AgentSays
    <2>1. PICK u : /\ want' = Wanted(u)
                   /\ \A k \in {"mode", "options", "title"} : \A cur, target :
                         Follows(ChannelTags, k, cur, target) =>
                             Follows(ChannelTags', k, cur,
                                     IF UpdateTag(u)[1] = k THEN UpdateTag(u)[2] ELSE target)
        BY <1>1, SaysTags
    <2>2. UNCHANGED <<host, crossed>>
        BY <1>1 DEF AgentSays
    <2>3. /\ Some(want'.mode) =
               IF UpdateTag(u)[1] = "mode" THEN UpdateTag(u)[2] ELSE Some(want.mode)
          /\ Normal(want'.options) =
               IF UpdateTag(u)[1] = "options" THEN UpdateTag(u)[2] ELSE Normal(want.options)
          /\ want'.title = IF UpdateTag(u)[1] = "title" THEN UpdateTag(u)[2] ELSE want.title
        BY <1>w, <2>1, WantedTag
    <2>4. "mode" \notin crossed' /\ host'.mode # None =>
              Follows(ChannelTags', "mode", host'.mode, Some(want'.mode))
        BY <2>1, <2>2, <2>3 DEF HostInv
    <2>5. "options" \notin crossed' =>
              Follows(ChannelTags', "options", host'.options, Normal(want'.options))
        BY <2>1, <2>2, <2>3 DEF HostInv
    <2>6. "title" \notin crossed' => Follows(ChannelTags', "title", host'.title, want'.title)
        BY <2>1, <2>2, <2>3 DEF HostInv
    <2>7. QED
        BY <2>4, <2>5, <2>6 DEF HostInv
<1>2. CASE ApplyAgentEvent
    <2> DEFINE t == AgentTag(Head(channel))
    <2>1. host' = ApplyToHost(Head(channel)) /\ UNCHANGED <<want, crossed>>
        BY <1>2 DEF ApplyAgentEvent, history
    <2>2. Head(channel).type \in AgentEventTypes
        <3>1. IsSeq(channel) /\ channel # <<>>
            BY <1>2 DEF ApplyAgentEvent, TypeInv, HostTyped
        <3>2. 1 \in DOMAIN channel /\ Head(channel) = channel[1]
            BY <3>1, SeqFacts
        <3>3. QED
            BY <3>2 DEF TypeInv, HostTyped, ChannelTyped
    <2>3. /\ host'.mode = IF t[1] = "mode" /\ host.mode # None THEN t[2] ELSE host.mode
          /\ host'.options = IF t[1] = "options" THEN t[2] ELSE host.options
          /\ host'.title = IF t[1] = "title" THEN t[2] ELSE host.title
        BY <1>w, <2>1, <2>2, AppliedTag
    <2>4. \A k, cur, target : Follows(ChannelTags, k, cur, target) =>
              Follows(ChannelTags', k, IF t[1] = k THEN t[2] ELSE cur, target)
        BY <1>2, ApplyTags
    <2>5. t[1] = "mode" => t[2] # None
        BY AgentTagKinds
    <2> HIDE DEF t
    <2>6. "mode" \notin crossed' /\ host'.mode # None =>
              Follows(ChannelTags', "mode", host'.mode, Some(want'.mode))
        BY <2>1, <2>3, <2>4, <2>5 DEF HostInv
    <2>7. "options" \notin crossed' =>
              Follows(ChannelTags', "options", host'.options, Normal(want'.options))
        BY <2>1, <2>3, <2>4 DEF HostInv
    <2>8. "title" \notin crossed' => Follows(ChannelTags', "title", host'.title, want'.title)
        BY <2>1, <2>3, <2>4 DEF HostInv
    <2>9. QED
        BY <2>6, <2>7, <2>8 DEF HostInv
<1>3. ASSUME NEW setting, NEW type, Command(setting, type)
      PROVE  /\ ChannelTags' = ChannelTags
             /\ \A k : k \notin crossed' => k \notin crossed
             /\ setting \notin crossed' => \A i \in DOMAIN channel : channel[i].type # type
    BY <1>3 DEF Command, ChannelTags, Queued
<1>4. ASSUME NEW m \in Modes, SetMode(m) PROVE HostInv'
    <2>1. /\ Command("mode", "mode") /\ want' = [want EXCEPT !.mode = m]
          /\ host' = IF host.mode = None THEN host ELSE [host EXCEPT !.mode = Some(m)]
        BY <1>4 DEF SetMode
    <2>2. /\ want'.mode = m /\ want'.options = want.options /\ want'.title = want.title
          /\ host.mode = None => host'.mode = None
          /\ host.mode # None => host'.mode = Some(m)
          /\ host'.options = host.options /\ host'.title = host.title
        BY <1>w, <2>1 DEF IsSettings
    <2>3. "mode" \notin crossed' => \A i \in DOMAIN ChannelTags : ChannelTags[i][1] # "mode"
        BY <1>3, <2>1, AgentTagKinds DEF ChannelTags
    <2>4. "mode" \notin crossed' /\ host'.mode # None =>
              Follows(ChannelTags', "mode", host'.mode, Some(want'.mode))
        BY <1>3, <2>1, <2>2, <2>3, FollowsSet
    <2>5. "options" \notin crossed' =>
              Follows(ChannelTags', "options", host'.options, Normal(want'.options))
        BY <1>3, <2>1, <2>2 DEF HostInv
    <2>6. "title" \notin crossed' => Follows(ChannelTags', "title", host'.title, want'.title)
        BY <1>3, <2>1, <2>2 DEF HostInv
    <2>7. QED
        BY <2>4, <2>5, <2>6 DEF HostInv
<1>5. ASSUME NEW options \in Configs, SetConfigOption(options) PROVE HostInv'
    <2>1. /\ Command("options", "config_options") /\ want' = [want EXCEPT !.options = options]
          /\ host' = [host EXCEPT !.options = Normal(options)]
        BY <1>5 DEF SetConfigOption, Normal
    <2>2. /\ want'.mode = want.mode /\ want'.options = options /\ want'.title = want.title
          /\ host'.mode = host.mode /\ host'.options = Normal(options) /\ host'.title = host.title
        BY <1>w, <2>1 DEF IsSettings
    <2>3. "options" \notin crossed' => \A i \in DOMAIN ChannelTags : ChannelTags[i][1] # "options"
        BY <1>3, <2>1, AgentTagKinds DEF ChannelTags
    <2>4. "mode" \notin crossed' /\ host'.mode # None =>
              Follows(ChannelTags', "mode", host'.mode, Some(want'.mode))
        BY <1>3, <2>1, <2>2 DEF HostInv
    <2>5. "options" \notin crossed' =>
              Follows(ChannelTags', "options", host'.options, Normal(want'.options))
        BY <1>3, <2>1, <2>2, <2>3, FollowsSet
    <2>6. "title" \notin crossed' => Follows(ChannelTags', "title", host'.title, want'.title)
        BY <1>3, <2>1, <2>2 DEF HostInv
    <2>7. QED
        BY <2>4, <2>5, <2>6 DEF HostInv
<1>6. ASSUME NEW title \in Titles, Rename(title) PROVE HostInv'
    <2>1. /\ Command("title", "info") /\ want' = [want EXCEPT !.title = title]
          /\ host' = [host EXCEPT !.title = title]
        BY <1>6 DEF Rename
    <2>2. /\ want'.mode = want.mode /\ want'.options = want.options /\ want'.title = title
          /\ host'.mode = host.mode /\ host'.options = host.options /\ host'.title = title
        BY <1>w, <2>1 DEF IsSettings
    <2>3. "title" \notin crossed' => \A i \in DOMAIN ChannelTags : ChannelTags[i][1] # "title"
        BY <1>3, <2>1, AgentTagKinds DEF ChannelTags
    <2>4. "mode" \notin crossed' /\ host'.mode # None =>
              Follows(ChannelTags', "mode", host'.mode, Some(want'.mode))
        BY <1>3, <2>1, <2>2 DEF HostInv
    <2>5. "options" \notin crossed' =>
              Follows(ChannelTags', "options", host'.options, Normal(want'.options))
        BY <1>3, <2>1, <2>2 DEF HostInv
    <2>6. "title" \notin crossed' => Follows(ChannelTags', "title", host'.title, want'.title)
        BY <1>3, <2>1, <2>2, <2>3, FollowsSet
    <2>7. QED
        BY <2>4, <2>5, <2>6 DEF HostInv
<1>7. CASE SendPrompt
    <2>1. Command("none", "none") /\ UNCHANGED <<want, host>>
        BY <1>7 DEF SendPrompt
    <2>2. QED
        BY <1>3, <2>1 DEF HostInv
<1>8. CASE Serve \/ View \/ UNCHANGED vars
    <2>1. UNCHANGED <<want, crossed, channel, host>>
        BY <1>8 DEF Serve, View, vars, history, hostVars, ServeAttach, ServeHistory, ServeOlder,
            ServeInspect, HandleEvent, HandleReplayCompleted, HandleTranscriptReset, LoadSnapshot,
            ResumeAttach, ResumeHistory, ResumeInspect, LoadFails, LoadOlder, ResumeOlder
    <2>2. ChannelTags' = ChannelTags
        BY <2>1 DEF ChannelTags
    <2>3. QED
        BY <2>1, <2>2 DEF HostInv
<1>9. QED
    BY <1>1, <1>2, <1>4, <1>5, <1>6, <1>7, <1>8 DEF Next, Commands

-----------------------------------------------------------------------------
(* Settings: the view *)

\* Settings m become those of h once the reports in q are handled.
Catching(q, m, h) ==
    /\ h.mode # None => m.mode # None /\ Follows(q, "mode", m.mode, h.mode)
    /\ h.mode = None => m.mode = None
    /\ Follows(q, "options", m.options, h.options)

\* The settings m after a report t.
Reported(m, t, r) ==
    /\ r.mode = IF t[1] = "mode" /\ m.mode # None THEN t[2] ELSE m.mode
    /\ r.options = IF t[1] = "options" THEN t[2] ELSE m.options

\* The reports under way end with the settings of the host.
SelfInv ==
    /\ ~subscribed => inbox = <<>>
    /\ Catching(InboxTags, host, host)

\* A view whose loads met nothing: what it holds, and what session.inspect
\* answered, is one inbox behind the host.
Undisturbed ==
    /\ replayBuffer = <<>>
    /\ ~subscribed => metadata = None
    /\ call.op \in {"attached", "history", "page", "inspect", "inspected"} => subscribed
    /\ attachedOnce /\ metadata = None => stage # "idle"
    /\ metadata # None =>
          /\ metadata = Some(metadata[1]) /\ IsMetadata(metadata[1])
          /\ Catching(InboxTags, metadata[1], host)
    /\ call.op = "inspected" => Catching(InboxTags, call, host)

ViewInv == SelfInv /\ (disturbed = {} => Undisturbed)

LEMMA FollowsSelf ==
    ASSUME NEW q, NEW k, NEW cur, NEW target, Follows(q, k, cur, target)
    PROVE  Follows(q, k, target, target)
BY DEF Follows

\* Reports of other settings change nothing.
LEMMA FollowsExtend ==
    ASSUME NEW q, NEW r, NEW n \in Nat, NEW d \in Nat, DOMAIN q = 1..n, DOMAIN r = 1..(n + d),
           \A i \in 1..n : r[i] = q[i],
           NEW k, \A i \in 1..(n + d) : i \notin 1..n => r[i][1] # k,
           NEW cur, NEW target, Follows(q, k, cur, target)
    PROVE  Follows(r, k, cur, target)
<1>1. (\A i \in DOMAIN r : r[i][1] # k) => cur = target
    BY DEF Follows
<1>2. ASSUME NEW i \in DOMAIN r, r[i][1] = k, \A j \in DOMAIN r : r[j][1] = k => j <= i
      PROVE  r[i][2] = target
    <2>1. i \in 1..n
        BY <1>2
    <2>2. q[i][1] = k /\ \A j \in DOMAIN q : q[j][1] = k => j <= i
        BY <1>2, <2>1
    <2>3. QED
        BY <1>2, <2>1, <2>2 DEF Follows
<1>3. QED
    BY <1>1, <1>2 DEF Follows

LEMMA CatchExtend ==
    ASSUME NEW q, NEW r, NEW n \in Nat, NEW d \in Nat, DOMAIN q = 1..n, DOMAIN r = 1..(n + d),
           \A i \in 1..n : r[i] = q[i],
           \A i \in 1..(n + d) : i \notin 1..n => r[i][1] \notin {"mode", "options"},
           NEW m, NEW h, Catching(q, m, h)
    PROVE  Catching(r, m, h)
<1>0. /\ \A i \in 1..(n + d) : i \notin 1..n => r[i][1] # "mode"
      /\ \A i \in 1..(n + d) : i \notin 1..n => r[i][1] # "options"
    OBVIOUS
<1>1. Follows(q, "mode", m.mode, h.mode) => Follows(r, "mode", m.mode, h.mode)
    BY <1>0, FollowsExtend, Zenon
<1>2. Follows(q, "options", m.options, h.options) => Follows(r, "options", m.options, h.options)
    BY <1>0, FollowsExtend, Zenon
<1>3. QED
    BY <1>1, <1>2 DEF Catching

\* The host changes a setting and reports it.
LEMMA CatchPush ==
    ASSUME NEW q, NEW r, NEW n \in Nat, DOMAIN q = 1..n, DOMAIN r = 1..(n + 1),
           \A i \in 1..n : r[i] = q[i],
           NEW m, NEW h, NEW g, Catching(q, m, h), Reported(h, r[n + 1], g),
           r[n + 1][1] = "mode" => r[n + 1][2] # None
    PROVE  Catching(r, m, g)
<1> DEFINE t == r[n + 1]
<1>1. Follows(q, "mode", m.mode, h.mode) =>
        Follows(r, "mode", m.mode, IF t[1] = "mode" THEN t[2] ELSE h.mode)
    BY FollowsPush
<1>2. Follows(r, "options", m.options, IF t[1] = "options" THEN t[2] ELSE h.options)
    BY FollowsPush DEF Catching
<1> HIDE DEF t
<1>3. /\ g.mode = IF t[1] = "mode" /\ h.mode # None THEN t[2] ELSE h.mode
      /\ g.options = IF t[1] = "options" THEN t[2] ELSE h.options
      /\ t[1] = "mode" => t[2] # None
    BY DEF Reported, t
<1>4. CASE h.mode = None
    BY <1>2, <1>3, <1>4 DEF Catching
<1>5. CASE h.mode # None
    BY <1>1, <1>2, <1>3, <1>5 DEF Catching
<1>6. QED
    BY <1>4, <1>5

\* The view takes the oldest report.
LEMMA CatchPop ==
    ASSUME NEW q, NEW r, NEW n \in Nat, n # 0, DOMAIN q = 1..n, DOMAIN r = 1..(n - 1),
           \A i \in 1..(n - 1) : r[i] = q[i + 1],
           NEW m, NEW h, NEW g, Catching(q, m, h), Reported(m, q[1], g),
           q[1][1] = "mode" => q[1][2] # None
    PROVE  Catching(r, g, h)
<1> DEFINE t == q[1]
<1>1. Follows(q, "mode", m.mode, h.mode) =>
        Follows(r, "mode", IF t[1] = "mode" THEN t[2] ELSE m.mode, h.mode)
    BY FollowsPop
<1>2. Follows(r, "options", IF t[1] = "options" THEN t[2] ELSE m.options, h.options)
    BY FollowsPop DEF Catching
<1> HIDE DEF t
<1>3. /\ g.mode = IF t[1] = "mode" /\ m.mode # None THEN t[2] ELSE m.mode
      /\ g.options = IF t[1] = "options" THEN t[2] ELSE m.options
      /\ t[1] = "mode" => t[2] # None
    BY DEF Reported, t
<1>4. CASE h.mode = None
    BY <1>2, <1>3, <1>4 DEF Catching
<1>5. CASE h.mode # None
    BY <1>1, <1>2, <1>3, <1>5 DEF Catching
<1>6. QED
    BY <1>4, <1>5

LEMMA CatchSelf ==
    ASSUME NEW q, NEW m, NEW h, Catching(q, m, h) PROVE Catching(q, h, h)
BY FollowsSelf DEF Catching

LEMMA CatchEmpty ==
    ASSUME NEW q, DOMAIN q = {}, NEW h PROVE Catching(q, h, h)
BY DEF Catching, Follows

\* A mode on its way is a mode.
LEMMA LogTagSome ==
    \A e : /\ LogTag(e)[1] = "mode" => LogTag(e)[2] # None
           /\ e.name \notin {"session.mode", "session.config_options"} => LogTag(e) = NoTag
<1> SUFFICES ASSUME NEW e
             PROVE  /\ LogTag(e)[1] = "mode" => LogTag(e)[2] # None
                    /\ e.name \notin {"session.mode", "session.config_options"}
                            => LogTag(e) = NoTag
    OBVIOUS
<1>1. CASE e.name = "session.mode"
    <2>1. LogTag(e) = <<"mode", Some(e.mode)>>
        BY <1>1 DEF LogTag
    <2>2. QED
        BY <1>1, <2>1 DEF Some, None
<1>2. CASE e.name = "session.config_options"
    <2>1. LogTag(e) = <<"options", e.options>>
        BY <1>2 DEF LogTag
    <2>2. QED
        BY <1>2, <2>1
<1>3. CASE e.name \notin {"session.mode", "session.config_options"}
    <2>1. LogTag(e) = NoTag
        BY <1>3 DEF LogTag
    <2>2. QED
        BY <2>1 DEF NoTag
<1>4. QED
    BY <1>1, <1>2, <1>3

LEMMA InboxTagSome ==
    \A i \in DOMAIN inbox : InboxTags[i][1] = "mode" => InboxTags[i][2] # None
<1> SUFFICES ASSUME NEW i \in DOMAIN inbox
             PROVE  InboxTags[i][1] = "mode" => InboxTags[i][2] # None
    OBVIOUS
<1>1. InboxTags[i] = NoTag \/ \E e : InboxTags[i] = LogTag(e)
    BY DEF InboxTags
<1>2. NoTag[1] = "none"
    BY DEF NoTag
<1>3. QED
    BY <1>1, <1>2, LogTagSome

\* handleEvent notes a report as it is.
LEMMA NoteReports ==
    ASSUME NEW m, IsMetadata(m), NEW e
    PROVE  \E r : NoteEvent(Some(m), e) = Some(r) /\ IsMetadata(r) /\ Reported(m, LogTag(e), r)
<1>0. Some(m) # None /\ Some(m)[1] = m
    BY DEF Some, None
<1>1. CASE e.name = "session.mode"
    <2>1. LogTag(e) = <<"mode", Some(e.mode)>>
        BY <1>1 DEF LogTag
    <2>2. NoteEvent(Some(m), e) =
             IF m.mode = None THEN Some(m) ELSE Some([m EXCEPT !.mode = Some(e.mode)])
        BY <1>0, <1>1 DEF NoteEvent
    <2>3. CASE m.mode = None
        <3>1. NoteEvent(Some(m), e) = Some(m) /\ Reported(m, LogTag(e), m)
            BY <2>1, <2>2, <2>3 DEF Reported
        <3>2. QED
            BY <3>1
    <2>4. CASE m.mode # None
        <3> DEFINE r == [m EXCEPT !.mode = Some(e.mode)]
        <3>1. NoteEvent(Some(m), e) = Some(r)
            BY <2>2, <2>4
        <3>2. IsMetadata(r) /\ r.mode = Some(e.mode) /\ r.options = m.options
            BY DEF IsMetadata
        <3> HIDE DEF r
        <3>3. Reported(m, LogTag(e), r)
            BY <2>1, <2>4, <3>2 DEF Reported
        <3>4. QED
            BY <3>1, <3>2, <3>3
    <2>5. QED
        BY <2>3, <2>4
<1>2. CASE e.name = "session.config_options"
    <2> DEFINE r == [m EXCEPT !.options = e.options]
    <2>1. LogTag(e) = <<"options", e.options>>
        BY <1>2 DEF LogTag
    <2>2. NoteEvent(Some(m), e) = Some(r)
        BY <1>0, <1>2 DEF NoteEvent
    <2>3. IsMetadata(r) /\ r.mode = m.mode /\ r.options = e.options
        BY DEF IsMetadata
    <2> HIDE DEF r
    <2>4. Reported(m, LogTag(e), r)
        BY <2>1, <2>3 DEF Reported
    <2>5. QED
        BY <2>2, <2>3, <2>4
<1>3. CASE e.name \notin {"session.mode", "session.config_options"}
    <2>1. NoteEvent(Some(m), e) = Some(m)
        BY <1>0, <1>3 DEF NoteEvent
    <2>2. LogTag(e)[1] = "none"
        BY <1>3, LogTagSome DEF NoTag
    <2>3. Reported(m, LogTag(e), m)
        BY <2>2 DEF Reported
    <2>4. QED
        BY <2>1, <2>3
<1>4. QED
    BY <1>1, <1>2, <1>3

LEMMA InboxTagsDomain ==
    ASSUME TypeInv
    PROVE  /\ IsSeq(inbox) /\ InboxTyped /\ IsSeq(log) /\ Len(inbox) \in Nat
           /\ DOMAIN inbox = 1..Len(inbox) /\ DOMAIN InboxTags = 1..Len(inbox)
<1>1. IsSeq(inbox) /\ InboxTyped /\ IsSeq(log)
    BY DEF TypeInv, HostTyped
<1>2. Len(inbox) \in Nat /\ DOMAIN inbox = 1..Len(inbox)
    BY <1>1, SeqFacts
<1>3. QED
    BY <1>1, <1>2 DEF InboxTags

\* What a step keeps of the view, when every view of the host stays in step.
LEMMA ViewKept ==
    ASSUME ViewInv, SelfInv',
           UNCHANGED <<subscribed, disturbed, replayBuffer, metadata, call, attachedOnce, stage>>,
           \A m : subscribed /\ Catching(InboxTags, m, host) => Catching(InboxTags', m, host')
    PROVE  ViewInv'
<1> SUFFICES ASSUME disturbed = {}, Undisturbed PROVE Undisturbed'
    BY DEF ViewInv
<1>1. metadata' # None => /\ metadata' = Some(metadata'[1]) /\ IsMetadata(metadata'[1])
                          /\ Catching(InboxTags', metadata'[1], host')
    BY DEF Undisturbed
<1>2. call'.op = "inspected" => Catching(InboxTags', call', host')
    BY DEF Undisturbed
<1>3. /\ replayBuffer' = <<>>
      /\ ~subscribed' => metadata' = None
      /\ call'.op \in {"attached", "history", "page", "inspect", "inspected"} => subscribed'
      /\ attachedOnce' /\ metadata' = None => stage' # "idle"
    BY Zenon DEF Undisturbed
<1>4. QED
    BY <1>1, <1>2, <1>3, Zenon DEF Undisturbed

\* A step that publishes one entry of the journal and makes the setting in it.
LEMMA PublishOne ==
    ASSUME TypeInv, ViewInv, NEW x, AppendAll(<<x>>), Reported(host, LogTag(x), host'),
           UNCHANGED <<subscribed, disturbed, replayBuffer, metadata, call, attachedOnce, stage>>
    PROVE  ViewInv'
<1>t. /\ IsSeq(inbox) /\ InboxTyped /\ IsSeq(log) /\ Len(inbox) \in Nat
      /\ DOMAIN inbox = 1..Len(inbox) /\ DOMAIN InboxTags = 1..Len(inbox)
    BY InboxTagsDomain
<1>x. IsSeq(<<x>>) /\ Len(<<x>>) = 1 /\ <<x>>[1] = x
    BY SeqOne
<1>1. CASE ~subscribed
    <2>1. inbox' = inbox /\ inbox = <<>>
        BY <1>1 DEF AppendAll, ViewInv, SelfInv
    <2>2. DOMAIN InboxTags' = {}
        BY <2>1, SeqNone DEF InboxTags
    <2>3. SelfInv'
        BY <2>1, <2>2, CatchEmpty DEF SelfInv
    <2>4. QED
        BY <1>1, <2>3, ViewKept
<1>2. CASE subscribed
    <2>1. /\ DOMAIN InboxTags' = 1..(Len(inbox) + 1)
          /\ \A i \in 1..Len(inbox) : InboxTags'[i] = InboxTags[i]
          /\ InboxTags'[Len(inbox) + 1] = LogTag(x)
        <3>1. /\ DOMAIN InboxTags' = 1..(Len(inbox) + Len(<<x>>))
              /\ \A i \in 1..Len(inbox) : InboxTags'[i] = InboxTags[i]
              /\ \A i \in 1..Len(<<x>>) : InboxTags'[Len(inbox) + i] = LogTag(<<x>>[i])
            BY <1>t, <1>x, <1>2, Appended
        <3>2. QED
            BY <1>x, <3>1
    <2>2. LogTag(x)[1] = "mode" => LogTag(x)[2] # None
        BY LogTagSome
    <2>3. \A m : Catching(InboxTags, m, host) => Catching(InboxTags', m, host')
        BY <1>t, <2>1, <2>2, CatchPush
    <2>4. Catching(InboxTags', host', host')
        BY <2>3, CatchSelf DEF ViewInv, SelfInv
    <2>5. SelfInv'
        BY <1>2, <2>4 DEF SelfInv
    <2>6. QED
        BY <2>3, <2>5, ViewKept
<1>3. QED
    BY <1>1, <1>2

LEMMA ApplyView == TypeInv /\ ViewInv /\ ApplyAgentEvent => ViewInv'
<1> SUFFICES ASSUME TypeInv, ViewInv, ApplyAgentEvent PROVE ViewInv'
    OBVIOUS
<1> DEFINE e == Head(channel)
<1>1. /\ host' = ApplyToHost(e) /\ AppendAll(<<SessionEventOf(e)>>)
      /\ UNCHANGED <<subscribed, disturbed, replayBuffer, metadata, call, attachedOnce, stage>>
    BY DEF ApplyAgentEvent, history, viewVars, taskVars
<1>2. e.type \in AgentEventTypes
    <2>1. IsSeq(channel) /\ channel # <<>>
        BY DEF ApplyAgentEvent, TypeInv, HostTyped
    <2>2. 1 \in DOMAIN channel /\ e = channel[1]
        BY <2>1, SeqFacts
    <2>3. QED
        BY <2>2 DEF TypeInv, HostTyped, ChannelTyped
<1> HIDE DEF e
<1>3. /\ host'.mode =
           IF AgentTag(e)[1] = "mode" /\ host.mode # None THEN AgentTag(e)[2] ELSE host.mode
      /\ host'.options = IF AgentTag(e)[1] = "options" THEN AgentTag(e)[2] ELSE host.options
      /\ LogTag(SessionEventOf(e)) =
           IF AgentTag(e)[1] \in {"mode", "options"} THEN AgentTag(e) ELSE NoTag
    BY <1>1, <1>2, AppliedTag DEF TypeInv, HostTyped
<1>4. Reported(host, LogTag(SessionEventOf(e)), host')
    <2>1. CASE AgentTag(e)[1] \in {"mode", "options"}
        BY <1>3, <2>1 DEF Reported
    <2>2. CASE AgentTag(e)[1] \notin {"mode", "options"}
        <3>1. LogTag(SessionEventOf(e))[1] = "none"
            BY <1>3, <2>2 DEF NoTag
        <3>2. host'.mode = host.mode /\ host'.options = host.options
            BY <1>3, <2>2
        <3>3. QED
            BY <3>1, <3>2 DEF Reported
    <2>3. QED
        BY <2>1, <2>2
<1>5. QED
    BY <1>1, <1>4, PublishOne

LEMMA CommandsView == TypeInv /\ ViewInv /\ Commands => ViewInv'
<1> SUFFICES ASSUME TypeInv, ViewInv, Commands PROVE ViewInv'
    OBVIOUS
<1>w. IsSettings(host)
    BY DEF TypeInv, HostTyped
<1>c. ASSUME NEW setting, NEW type, Command(setting, type)
      PROVE  UNCHANGED <<subscribed, disturbed, replayBuffer, metadata, call, attachedOnce, stage>>
    BY <1>c DEF Command, viewVars, taskVars
<1>1. ASSUME NEW m \in Modes, SetMode(m) PROVE ViewInv'
    <2> DEFINE x == [name |-> "session.mode", mode |-> m]
    <2>1. /\ Command("mode", "mode") /\ AppendAll(<<x>>)
          /\ host' = IF host.mode = None THEN host ELSE [host EXCEPT !.mode = Some(m)]
        BY <1>1 DEF SetMode
    <2>2. LogTag(x) = <<"mode", Some(m)>>
        BY DEF LogTag
    <2>3. /\ host'.options = host.options
          /\ host'.mode = IF host.mode = None THEN host.mode ELSE Some(m)
        BY <1>w, <2>1 DEF IsSettings
    <2> HIDE DEF x
    <2>4. Reported(host, LogTag(x), host')
        BY <2>2, <2>3 DEF Reported
    <2>5. QED
        BY <1>c, <2>1, <2>4, PublishOne
<1>2. ASSUME NEW options \in Configs, SetConfigOption(options) PROVE ViewInv'
    <2> DEFINE x == [name |-> "session.config_options", options |-> Normal(options)]
    <2>1. /\ Command("options", "config_options") /\ AppendAll(<<x>>)
          /\ host' = [host EXCEPT !.options = Normal(options)]
        BY <1>2 DEF SetConfigOption, Normal
    <2>2. LogTag(x) = <<"options", Normal(options)>>
        BY DEF LogTag
    <2>3. host'.options = Normal(options) /\ host'.mode = host.mode
        BY <1>w, <2>1 DEF IsSettings
    <2> HIDE DEF x
    <2>4. Reported(host, LogTag(x), host')
        BY <2>2, <2>3 DEF Reported
    <2>5. QED
        BY <1>c, <2>1, <2>4, PublishOne
<1>3. ASSUME NEW title \in Titles, Rename(title) PROVE ViewInv'
    <2> DEFINE x == Named("session.snapshot")
    <2>1. Command("title", "info") /\ AppendAll(<<x>>) /\ host' = [host EXCEPT !.title = title]
        BY <1>3 DEF Rename
    <2>2. LogTag(x)[1] = "none"
        BY DEF LogTag, Named, NoTag
    <2>3. host'.options = host.options /\ host'.mode = host.mode
        BY <1>w, <2>1 DEF IsSettings
    <2> HIDE DEF x
    <2>4. Reported(host, LogTag(x), host')
        BY <2>2, <2>3 DEF Reported
    <2>5. QED
        BY <1>c, <2>1, <2>4, PublishOne
<1>4. CASE SendPrompt
    <2>1. Command("none", "none") /\ host' = host
        BY <1>4 DEF SendPrompt
    <2>2. PICK a : a.name = "session.message" /\ AppendAll(<<a, Named("session.status")>>)
        BY <1>4 DEF SendPrompt
    <2> DEFINE b == Named("session.status")
               ev == <<a, b>>
    <2>3. LogTag(a)[1] = "none" /\ LogTag(b)[1] = "none"
        BY <2>2 DEF LogTag, Named, NoTag
    <2>4. IsSeq(ev) /\ Len(ev) = 2 /\ ev[1] = a /\ ev[2] = b
        BY SeqTwo
    <2>e. AppendAll(ev)
        BY <2>2
    <2> HIDE DEF ev, b
    <2>t. /\ IsSeq(inbox) /\ InboxTyped /\ IsSeq(log) /\ Len(inbox) \in Nat
          /\ DOMAIN inbox = 1..Len(inbox) /\ DOMAIN InboxTags = 1..Len(inbox)
        BY InboxTagsDomain
    <2>5. CASE ~subscribed
        <3>1. inbox' = inbox /\ InboxTags' = InboxTags
            BY <2>4, <2>e, <2>t, <2>5, Appended
        <3>2. SelfInv'
            BY <1>c, <2>1, <3>1 DEF ViewInv, SelfInv
        <3>3. QED
            BY <1>c, <2>1, <2>5, <3>2, ViewKept
    <2>6. CASE subscribed
        <3>1. /\ DOMAIN InboxTags' = 1..(Len(inbox) + Len(ev))
              /\ \A i \in 1..Len(inbox) : InboxTags'[i] = InboxTags[i]
              /\ \A i \in 1..Len(ev) : InboxTags'[Len(inbox) + i] = LogTag(ev[i])
            BY <2>4, <2>e, <2>t, <2>6, Appended
        <3>2. \A i \in 1..(Len(inbox) + 2) :
                 i \notin 1..Len(inbox) => InboxTags'[i][1] \notin {"mode", "options"}
            <4> SUFFICES ASSUME NEW i \in 1..(Len(inbox) + 2), i \notin 1..Len(inbox)
                         PROVE  InboxTags'[i][1] = "none"
                OBVIOUS
            <4>1. i = Len(inbox) + 1 \/ i = Len(inbox) + 2
                BY <2>t
            <4>2. /\ InboxTags'[Len(inbox) + 1] = LogTag(ev[1])
                  /\ InboxTags'[Len(inbox) + 2] = LogTag(ev[2])
                BY <2>4, <3>1
            <4>3. QED
                BY <2>3, <2>4, <4>1, <4>2
        <3>3. \A m : Catching(InboxTags, m, host) => Catching(InboxTags', m, host)
            BY <2>t, <2>4, <3>1, <3>2, CatchExtend
        <3>4. SelfInv'
            BY <1>c, <2>1, <2>6, <3>3 DEF ViewInv, SelfInv
        <3>5. QED
            BY <1>c, <2>1, <3>3, <3>4, ViewKept
    <2>7. QED
        BY <2>5, <2>6
<1>5. QED
    BY <1>1, <1>2, <1>3, <1>4 DEF Commands

\* A step that leaves the host and the inbox alone.
LEMMA HostStill ==
    ASSUME ViewInv, UNCHANGED <<host, log, inbox, subscribed>>
    PROVE  InboxTags' = InboxTags /\ SelfInv'
<1>1. InboxTags' = InboxTags
    BY DEF InboxTags
<1>2. QED
    BY <1>1 DEF ViewInv, SelfInv

LEMMA ServeView == TypeInv /\ ViewInv /\ Serve => ViewInv'
<1> SUFFICES ASSUME TypeInv, ViewInv, Serve PROVE ViewInv'
    OBVIOUS
<1>1. CASE ServeAttach
    <2> DEFINE more == (IF attachedOnce THEN <<>> ELSE <<[kind |-> "reset"]>>)
    <2>1. /\ call.op = "attach" /\ call' = [op |-> "attached", latest |-> Len(log)]
          /\ subscribed' = TRUE /\ attachedOnce' = TRUE
          /\ inbox' = (inbox \o more) \o <<[kind |-> "replayed"]>>
          /\ UNCHANGED <<disturbed, host, log, replayBuffer, metadata, stage>>
        BY <1>1 DEF ServeAttach, history, viewVars
    <2>2. IsSeq(more) /\ \A i \in DOMAIN more : more[i].kind = "reset"
        <3>1. CASE attachedOnce
            BY <3>1, SeqNone
        <3>2. CASE ~attachedOnce
            <4>1. more = <<[kind |-> "reset"]>>
                BY <3>2
            <4>2. IsSeq(more) /\ Len(more) = 1 /\ more[1] = [kind |-> "reset"]
                BY <4>1, SeqOne
            <4>3. DOMAIN more = 1..1
                BY <4>1
            <4> HIDE DEF more
            <4>4. QED
                BY <4>2, <4>3
        <3>3. QED
            BY <3>1, <3>2
    <2> HIDE DEF more
    <2>t. /\ IsSeq(inbox) /\ InboxTyped /\ Len(inbox) \in Nat
          /\ DOMAIN inbox = 1..Len(inbox) /\ DOMAIN InboxTags = 1..Len(inbox)
        BY InboxTagsDomain
    <2>m. Len(more) \in Nat
        BY <2>2, SeqFacts
    <2>3. /\ DOMAIN inbox' = 1..(Len(inbox) + Len(more) + 1)
          /\ \A i \in 1..Len(inbox) : inbox'[i] = inbox[i]
          /\ \A i \in 1..(Len(inbox) + Len(more) + 1) :
                i \notin 1..Len(inbox) => inbox'[i].kind \in {"reset", "replayed"}
        BY <2>1, <2>2, <2>t, ControlTyped
    <2> DEFINE d == Len(more) + 1
    <2>d. d \in Nat /\ Len(inbox) + Len(more) + 1 = Len(inbox) + d
        BY <2>m, <2>t
    <2> HIDE DEF d
    <2>4. DOMAIN InboxTags' = 1..(Len(inbox) + d)
        BY <2>3, <2>d DEF InboxTags
    <2>5. ASSUME NEW i \in 1..Len(inbox) PROVE InboxTags'[i] = InboxTags[i]
        <3>1. i \in DOMAIN inbox /\ i \in DOMAIN inbox' /\ inbox'[i] = inbox[i]
            BY <2>3, <2>t, <2>m
        <3>2. QED
            BY <2>1, <3>1 DEF InboxTags
    <2>6. ASSUME NEW i \in 1..(Len(inbox) + d), i \notin 1..Len(inbox)
          PROVE  InboxTags'[i][1] \notin {"mode", "options"}
        <3>1. i \in DOMAIN inbox' /\ inbox'[i].kind # "event"
            BY <2>3, <2>6, <2>d
        <3>2. InboxTags'[i] = NoTag
            BY <3>1 DEF InboxTags
        <3>3. QED
            BY <3>2 DEF NoTag
    <2>7. \A m : Catching(InboxTags, m, host) => Catching(InboxTags', m, host)
        BY <2>t, <2>d, <2>4, <2>5, <2>6, CatchExtend
    <2>8. SelfInv'
        BY <2>1, <2>7 DEF ViewInv, SelfInv
    <2>9. ASSUME disturbed = {}, Undisturbed PROVE Undisturbed'
        <3>1. stage = "attach"
            BY <2>1 DEF TypeInv, TaskTyped
        <3>2. metadata' # None => /\ metadata' = Some(metadata'[1]) /\ IsMetadata(metadata'[1])
                                  /\ Catching(InboxTags', metadata'[1], host')
            BY <2>1, <2>7, <2>9 DEF Undisturbed
        <3>3. call'.op = "attached" /\ subscribed' /\ stage' = "attach" /\ replayBuffer' = <<>>
            BY <2>1, <2>9, <3>1 DEF Undisturbed
        <3>4. QED
            BY <3>2, <3>3 DEF Undisturbed
    <2>10. QED
        BY <2>1, <2>8, <2>9 DEF ViewInv
<1>2. CASE ServeHistory \/ ServeOlder \/ ServeInspect
    <2>1. UNCHANGED <<disturbed, host, log, inbox, subscribed, replayBuffer, metadata, attachedOnce,
                      stage>>
        BY <1>2 DEF ServeHistory, ServeOlder, ServeInspect, history, hostVars, viewVars
    <2>2. InboxTags' = InboxTags /\ SelfInv'
        BY <2>1, HostStill
    <2>3. \/ call' = call
          \/ call.op = "history" /\ call'.op = "page"
          \/ /\ call.op = "inspect"
             /\ call' = [op |-> "inspected", mode |-> host.mode, options |-> host.options]
        BY <1>2 DEF ServeHistory, ServeOlder, ServeInspect, Page
    <2>4. ASSUME disturbed = {}, Undisturbed PROVE Undisturbed'
        <3>1. metadata' # None => /\ metadata' = Some(metadata'[1]) /\ IsMetadata(metadata'[1])
                                  /\ Catching(InboxTags', metadata'[1], host')
            BY <2>1, <2>2, <2>4 DEF Undisturbed
        <3>2. call'.op = "inspected" => Catching(InboxTags', call', host')
            <4>1. CASE call' = call
                BY <2>1, <2>2, <2>4, <4>1 DEF Undisturbed
            <4>2. CASE call' = [op |-> "inspected", mode |-> host.mode, options |-> host.options]
                <5>1. call'.mode = host.mode /\ call'.options = host.options
                    BY <4>2
                <5>2. QED
                    BY <2>1, <2>2, <5>1 DEF ViewInv, SelfInv, Catching
            <4>3. QED
                BY <2>3, <4>1, <4>2
        <3>3. call'.op \in {"attached", "history", "page", "inspect", "inspected"} => subscribed
            BY <2>3, <2>4 DEF Undisturbed
        <3>4. /\ replayBuffer' = <<>>
              /\ ~subscribed' => metadata' = None
              /\ attachedOnce' /\ metadata' = None => stage' # "idle"
            BY <2>1, <2>4, Zenon DEF Undisturbed
        <3>5. QED
            BY <2>1, <3>1, <3>2, <3>3, <3>4, Zenon DEF Undisturbed
    <2>5. QED
        BY <2>1, <2>2, <2>4 DEF ViewInv
<1>3. QED
    BY <1>1, <1>2 DEF Serve

\* The view takes a report, or nothing, from the inbox.
LEMMA ObserveView ==
    TypeInv /\ ViewInv /\ (HandleEvent \/ HandleReplayCompleted \/ HandleTranscriptReset)
        => ViewInv'
<1> SUFFICES ASSUME TypeInv, ViewInv,
                    HandleEvent \/ HandleReplayCompleted \/ HandleTranscriptReset
             PROVE  ViewInv'
    OBVIOUS
<1>1. /\ inbox # <<>> /\ inbox' = Tail(inbox)
      /\ UNCHANGED <<host, log, subscribed, call, attachedOnce, stage>>
    BY DEF HandleEvent, HandleReplayCompleted, HandleTranscriptReset, hostVars, taskVars
<1>2. /\ IsSeq(inbox) /\ InboxTyped
      /\ Len(inbox) \in Nat /\ Len(inbox) # 0
      /\ DOMAIN inbox = 1..Len(inbox) /\ Head(inbox) = inbox[1]
      /\ DOMAIN inbox' = 1..(Len(inbox) - 1)
      /\ \A i \in 1..(Len(inbox) - 1) : inbox'[i] = inbox[i + 1]
    BY <1>1, InboxTail DEF TypeInv, HostTyped
<1>3. DOMAIN InboxTags = 1..Len(inbox) /\ DOMAIN InboxTags' = 1..(Len(inbox) - 1)
    BY <1>2 DEF InboxTags
<1>4. ASSUME NEW i \in 1..(Len(inbox) - 1) PROVE InboxTags'[i] = InboxTags[i + 1]
    <2>1. i + 1 \in DOMAIN inbox /\ i \in DOMAIN inbox' /\ inbox'[i] = inbox[i + 1]
        BY <1>2
    <2>2. QED
        BY <1>1, <2>1 DEF InboxTags
<1>5. InboxTags[1][1] = "mode" => InboxTags[1][2] # None
    BY <1>2, InboxTagSome
<1>6. \A m, r : Catching(InboxTags, m, host) /\ Reported(m, InboxTags[1], r)
                    => Catching(InboxTags', r, host)
    BY <1>2, <1>3, <1>4, <1>5, CatchPop
<1>7. subscribed
    BY <1>1 DEF ViewInv, SelfInv
<1>8. SelfInv'
    <2> DEFINE r == [mode |-> IF InboxTags[1][1] = "mode" /\ host.mode # None
                              THEN InboxTags[1][2] ELSE host.mode,
                     options |-> IF InboxTags[1][1] = "options" THEN InboxTags[1][2]
                                 ELSE host.options]
    <2>1. Reported(host, InboxTags[1], r)
        BY DEF Reported
    <2> HIDE DEF r
    <2>2. Catching(InboxTags', r, host)
        BY <1>6, <2>1 DEF ViewInv, SelfInv
    <2>3. Catching(InboxTags', host, host)
        BY <2>2, CatchSelf
    <2>4. QED
        BY <1>1, <1>7, <2>3 DEF SelfInv
<1>9. CASE HandleEvent
    <2> DEFINE e == log[Head(inbox).seq]
    <2>1. InboxTags[1] = LogTag(e)
        BY <1>2, <1>9 DEF HandleEvent, InboxTags
    <2>2. CASE stage # "idle"
        <3>1. disturbed' # {}
            BY <1>9, <2>2 DEF HandleEvent
        <3>2. QED
            BY <1>8, <3>1 DEF ViewInv
    <2>3. CASE stage = "idle"
        <3>1. UNCHANGED <<replayBuffer, disturbed>> /\ metadata' = NoteEvent(metadata, e)
            BY <1>9, <2>3, NotedOne DEF HandleEvent, HandleEvents, NotedAfter
        <3>2. call.op = "none"
            BY <2>3 DEF TypeInv, TaskTyped
        <3>3. ASSUME disturbed = {}, Undisturbed PROVE Undisturbed'
            <4>1. CASE metadata = None
                <5>1. metadata' = None
                    BY <3>1, <4>1 DEF NoteEvent
                <5>2. ~attachedOnce
                    BY <2>3, <3>3, <4>1 DEF Undisturbed
                <5>3. replayBuffer' = <<>>
                    BY <3>1, <3>3 DEF Undisturbed
                <5>4. ~attachedOnce' /\ subscribed' /\ call'.op = "none"
                    BY <1>1, <1>7, <3>2, <5>2
                <5>5. QED
                    BY <5>1, <5>3, <5>4 DEF Undisturbed
            <4>2. CASE metadata # None
                <5>1. /\ metadata = Some(metadata[1]) /\ IsMetadata(metadata[1])
                      /\ Catching(InboxTags, metadata[1], host)
                    BY <3>3, <4>2 DEF Undisturbed
                <5>2. PICK r : /\ NoteEvent(Some(metadata[1]), e) = Some(r) /\ IsMetadata(r)
                               /\ Reported(metadata[1], LogTag(e), r)
                    BY <5>1, NoteReports
                <5>3. metadata' = Some(r)
                    BY <3>1, <5>1, <5>2
                <5>4. metadata' # None /\ metadata'[1] = r
                    BY <5>3 DEF Some, None
                <5>5. Catching(InboxTags', r, host')
                    BY <1>1, <1>6, <2>1, <5>1, <5>2
                <5>6. replayBuffer' = <<>>
                    BY <3>1, <3>3 DEF Undisturbed
                <5>7. subscribed' /\ call'.op = "none"
                    BY <1>1, <1>7, <3>2
                <5>8. QED
                    BY <5>2, <5>3, <5>4, <5>5, <5>6, <5>7 DEF Undisturbed
            <4>3. QED
                BY <4>1, <4>2
        <3>4. QED
            BY <1>8, <3>1, <3>3 DEF ViewInv
    <2>4. QED
        BY <2>2, <2>3
<1>10. CASE HandleReplayCompleted \/ HandleTranscriptReset
    <2>1. InboxTags[1] = NoTag
        <3>1. Head(inbox).kind \in {"replayed", "reset"}
            BY <1>10 DEF HandleReplayCompleted, HandleTranscriptReset
        <3>2. QED
            BY <1>2, <3>1 DEF InboxTags
    <2>2. \A m : Catching(InboxTags, m, host) => Catching(InboxTags', m, host)
        <3>1. \A m : Reported(m, NoTag, m)
            BY DEF Reported, NoTag
        <3>2. QED
            BY <1>6, <2>1, <3>1
    <2>3. disturbed' = disturbed
        BY <1>10 DEF HandleReplayCompleted, HandleTranscriptReset, history
    <2>4. ASSUME disturbed = {}, Undisturbed PROVE Undisturbed'
        <3>1. replayBuffer = <<>>
            BY <2>4 DEF Undisturbed
        <3>2. metadata' = metadata /\ replayBuffer' = <<>>
            <4>1. CASE HandleReplayCompleted
                <5>1. metadata' = NotedAfter(metadata, replayBuffer) /\ replayBuffer' = <<>>
                    BY <4>1 DEF HandleReplayCompleted, HandleEvents, NotedAfter
                <5>2. QED
                    BY <3>1, <5>1, NotedNone
            <4>2. CASE HandleTranscriptReset
                BY <3>1, <4>2 DEF HandleTranscriptReset, ClearTranscript
            <4>3. QED
                BY <1>10, <4>1, <4>2
        <3>3. metadata' # None => /\ metadata' = Some(metadata'[1]) /\ IsMetadata(metadata'[1])
                                  /\ Catching(InboxTags', metadata'[1], host')
            BY <1>1, <2>2, <2>4, <3>2 DEF Undisturbed
        <3>4. call'.op = "inspected" => Catching(InboxTags', call', host')
            BY <1>1, <2>2, <2>4 DEF Undisturbed
        <3>5. attachedOnce' /\ metadata' = None => stage' # "idle"
            BY <1>1, <2>4, <3>2, Zenon DEF Undisturbed
        <3>6. subscribed'
            BY <1>1, <1>7
        <3>7. QED
            BY <3>2, <3>3, <3>4, <3>5, <3>6, Zenon DEF Undisturbed
    <2>5. QED
        BY <1>8, <2>3, <2>4 DEF ViewInv
<1>11. QED
    BY <1>9, <1>10

LEMMA LoadView ==
    TypeInv /\ ViewInv /\ (LoadSnapshot \/ ResumeAttach \/ ResumeHistory \/ ResumeInspect \/ LoadFails)
        => ViewInv'
<1> SUFFICES ASSUME TypeInv, ViewInv,
                    LoadSnapshot \/ ResumeAttach \/ ResumeHistory \/ ResumeInspect \/ LoadFails
             PROVE  ViewInv'
    OBVIOUS
<1>1. UNCHANGED <<host, log, inbox, subscribed, attachedOnce>>
    BY DEF LoadSnapshot, ResumeAttach, ResumeHistory, ResumeInspect, LoadFails, hostVars
<1>2. InboxTags' = InboxTags /\ SelfInv'
    BY <1>1, HostStill
<1>3. CASE LoadSnapshot \/ ResumeAttach \/ ResumeHistory
    <2>1. /\ metadata' = metadata /\ replayBuffer' \in {<<>>, replayBuffer} /\ stage' # "idle"
          /\ disturbed' = {} => disturbed = {}
          /\ \/ call'.op = "attach"
             \/ call.op \in {"attached", "page"} /\ call'.op \in {"history", "inspect"}
        BY <1>3 DEF LoadSnapshot, ResumeAttach, ResumeHistory, ClearTranscript, history
    <2>2. ASSUME disturbed = {}, Undisturbed PROVE Undisturbed'
        <3>1. metadata' # None => /\ metadata' = Some(metadata'[1]) /\ IsMetadata(metadata'[1])
                                  /\ Catching(InboxTags', metadata'[1], host')
            BY <1>1, <1>2, <2>1, <2>2 DEF Undisturbed
        <3>2. replayBuffer' = <<>>
            BY <2>1, <2>2 DEF Undisturbed
        <3>3. call'.op \in {"attached", "history", "page", "inspect", "inspected"} => subscribed
            BY <2>1, <2>2 DEF Undisturbed
        <3>4. call'.op # "inspected"
            BY <2>1
        <3>5. ~subscribed' => metadata' = None
            BY <1>1, <2>1, <2>2, Zenon DEF Undisturbed
        <3>6. QED
            BY <1>1, <2>1, <3>1, <3>2, <3>3, <3>4, <3>5, Zenon DEF Undisturbed
    <2>3. QED
        BY <1>2, <2>1, <2>2 DEF ViewInv
<1>4. CASE ResumeInspect
    <2> DEFINE r == [mode |-> call.mode, options |-> call.options]
    <2>1. /\ call.op = "inspected" /\ metadata' = Some(r) /\ call' = NoCall
          /\ replayBuffer' = replayBuffer /\ (disturbed' = {} => disturbed = {})
        BY <1>4 DEF ResumeInspect
    <2>2. IsMetadata(r) /\ r.mode = call.mode /\ r.options = call.options
        BY DEF IsMetadata
    <2> HIDE DEF r
    <2>3. ASSUME disturbed = {}, Undisturbed PROVE Undisturbed'
        <3>1. Catching(InboxTags, call, host) /\ subscribed /\ replayBuffer' = <<>>
            BY <2>1, <2>3 DEF Undisturbed
        <3>2. Catching(InboxTags', r, host')
            BY <1>1, <1>2, <2>2, <3>1 DEF Catching
        <3>3. metadata' # None /\ metadata'[1] = r
            BY <2>1 DEF Some, None
        <3>4. call'.op = "none"
            BY <2>1 DEF NoCall
        <3>5. QED
            BY <1>1, <2>1, <2>2, <3>1, <3>2, <3>3, <3>4 DEF Undisturbed
    <2>4. QED
        BY <1>2, <2>1, <2>3 DEF ViewInv
<1>5. CASE LoadFails
    <2>1. disturbed' # {}
        BY <1>5 DEF LoadFails
    <2>2. QED
        BY <1>2, <2>1 DEF ViewInv
<1>6. QED
    BY <1>3, <1>4, <1>5

LEMMA ViewInvStep == TypeInv /\ ViewInv /\ [Next]_vars => ViewInv'
<1> SUFFICES ASSUME TypeInv, ViewInv, [Next]_vars PROVE ViewInv'
    OBVIOUS
<1>1. CASE AgentSays \/ LoadOlder \/ ResumeOlder \/ UNCHANGED vars
    <2>1. UNCHANGED <<host, log, inbox, subscribed, disturbed, replayBuffer, metadata, call,
                      attachedOnce, stage>>
        BY <1>1 DEF AgentSays, LoadOlder, ResumeOlder, vars, history, hostVars, viewVars, taskVars
    <2>2. InboxTags' = InboxTags /\ SelfInv'
        BY <2>1, HostStill
    <2>3. QED
        BY <2>1, <2>2, ViewKept
<1>2. QED
    BY <1>1, ApplyView, CommandsView, ServeView, ObserveView, LoadView DEF Next, View

LEMMA SettingsInit == Init => HostInv /\ ViewInv
<1> SUFFICES ASSUME Init PROVE HostInv /\ ViewInv
    OBVIOUS
<1>1. DOMAIN ChannelTags = {} /\ DOMAIN InboxTags = {}
    BY SeqNone DEF Init, ChannelTags, InboxTags
<1>2. /\ host.mode # None => host.mode = Some(want.mode)
      /\ host.options = <<>> /\ want.options = <<>> /\ host.title = want.title
    BY DEF Init
<1>3. Normal(<<>>) = <<>>
    BY DEF Normal
<1>4. HostInv
    BY <1>1, <1>2, <1>3 DEF HostInv, Follows
<1>5. SelfInv
    BY <1>1, CatchEmpty DEF Init, SelfInv
<1>6. Undisturbed
    <2>1. /\ replayBuffer = <<>> /\ metadata = None /\ call.op = "none" /\ ~attachedOnce
        BY DEF Init, NoCall
    <2>2. QED
        BY <2>1 DEF Undisturbed
<1>7. QED
    BY <1>4, <1>5, <1>6 DEF ViewInv

\* With nothing under way the reports have all arrived.
LEMMA SettingsRest == TypeInv /\ HostInv /\ ViewInv => SettingsAgree
<1> SUFFICES ASSUME TypeInv, HostInv, ViewInv, AtRest
             PROVE  /\ "mode" \notin crossed /\ host.mode # None => host.mode = Some(want.mode)
                    /\ "options" \notin crossed => host.options = Normal(want.options)
                    /\ "title" \notin crossed => host.title = want.title
                    /\ disturbed = {} =>
                          metadata = Some([mode |-> host.mode, options |-> host.options])
    BY DEF SettingsAgree, Normal
<1>1. channel = <<>> /\ inbox = <<>> /\ stage = "idle" /\ attachedOnce
    BY DEF AtRest
<1>2. DOMAIN ChannelTags = {} /\ DOMAIN InboxTags = {}
    BY <1>1, SeqNone DEF ChannelTags, InboxTags
<1>3. /\ "mode" \notin crossed /\ host.mode # None => host.mode = Some(want.mode)
      /\ "options" \notin crossed => host.options = Normal(want.options)
      /\ "title" \notin crossed => host.title = want.title
    BY <1>2, FollowsDone DEF HostInv
<1>4. ASSUME disturbed = {}
      PROVE  metadata = Some([mode |-> host.mode, options |-> host.options])
    <2>1. Undisturbed
        BY <1>4 DEF ViewInv
    <2>2. metadata # None
        BY <1>1, <2>1 DEF Undisturbed
    <2>3. /\ metadata = Some(metadata[1]) /\ IsMetadata(metadata[1])
          /\ Catching(InboxTags, metadata[1], host)
        BY <2>1, <2>2 DEF Undisturbed
    <2>4. metadata[1].mode = host.mode /\ metadata[1].options = host.options
        BY <1>2, <2>3, FollowsDone DEF Catching
    <2>5. metadata[1] = [mode |-> host.mode, options |-> host.options]
        BY <2>3, <2>4 DEF IsMetadata
    <2>6. QED
        BY <2>3, <2>5
<1>5. QED
    BY <1>3, <1>4

\* Once nothing is under way, the mode, the options and the title of a session
\* are the last ones agent or user set and the view shows them, for any
\* interleaving of updates, commands, loads and events and any number of them
\* (manager.rs apply_agent_event, set_mode, set_config_option, rename_session;
\* SessionViewModel.swift handleEvent and loadMetadata); the exceptions are the
\* ones SettingsAgree names.
THEOREM SettingsShown == Spec => []SettingsAgree
<1>1. TypeInv /\ HostInv /\ ViewInv /\ [Next]_vars => HostInv' /\ ViewInv'
    BY HostInvStep, ViewInvStep
<1>2. QED
    BY <1>1, TypeInvAlways, SettingsInit, SettingsRest, PTL DEF Spec

\* A tool call, field by field.
Call(i, t, k, s, d, n, l, w) ==
    [id |-> i, title |-> t, kind |-> k, status |-> s, detail |-> d, content |-> n,
     locations |-> l, raw |-> w]

\* A call with all fields replaced but its id and its status.
Replaced(c, t, k, d, n, l, w) ==
    [c EXCEPT !.title = t, !.content = n, !.locations = l, !.kind = k, !.detail = d, !.raw = w]

LEMMA CallReplaced ==
    ASSUME NEW i, NEW t, NEW k, NEW s, NEW d, NEW n, NEW l, NEW w,
           NEW tt, NEW kk, NEW dd, NEW nn, NEW ll, NEW ww
    PROVE  Replaced(Call(i, t, k, s, d, n, l, w), tt, kk, dd, nn, ll, ww)
             = Call(i, tt, kk, s, dd, nn, ll, ww)
<1> DEFINE c0 == Call(i, t, k, s, d, n, l, w)
           c1 == Call(i, tt, k, s, d, n, l, w)
           c2 == Call(i, tt, k, s, d, nn, l, w)
           c3 == Call(i, tt, k, s, d, nn, ll, w)
           c4 == Call(i, tt, kk, s, d, nn, ll, w)
           c5 == Call(i, tt, kk, s, dd, nn, ll, w)
           c6 == Call(i, tt, kk, s, dd, nn, ll, ww)
<1>1. [c0 EXCEPT !.title = tt] = c1
    BY DEF Call
<1>2. [c1 EXCEPT !.content = nn] = c2
    BY DEF Call
<1>3. [c2 EXCEPT !.locations = ll] = c3
    BY DEF Call
<1>4. [c3 EXCEPT !.kind = kk] = c4
    BY DEF Call
<1>5. [c4 EXCEPT !.detail = dd] = c5
    BY DEF Call
<1>6. [c5 EXCEPT !.raw = ww] = c6
    BY DEF Call
<1> HIDE DEF c0, c1, c2, c3, c4, c5, c6
<1>7. Replaced(c0, tt, kk, dd, nn, ll, ww)
        = [[[[[[c0 EXCEPT !.title = tt] EXCEPT !.content = nn] EXCEPT !.locations = ll]
               EXCEPT !.kind = kk] EXCEPT !.detail = dd] EXCEPT !.raw = ww]
    BY DEF Replaced
<1>8. Replaced(c0, tt, kk, dd, nn, ll, ww) = c6
    BY <1>1, <1>2, <1>3, <1>4, <1>5, <1>6, <1>7
<1>9. QED
    BY <1>8 DEF c0, c6

\* What the view makes of a tool call and an update of it is what ACP says the
\* update means: normalize_tool_call_update gives defaults to what the update
\* leaves out and ToolCall.merging takes the defaults for absence, which comes
\* out right for every update with a status and no explicitly empty value.
THEOREM UpdateIsPatch ==
    ASSUME NEW id, NEW t, NEW k, NEW s, NEW d, NEW n, NEW l, NEW w, NEW fields,
           \A field \in {"title", "kind", "status", "content", "locations", "raw"} :
               IsOption(fields[field]),
           Explicit(fields)
    PROVE  Merging(Call(id, t, k, s, d, n, l, w), NormalizeToolCallUpdate(id, fields))
             = Patch(Call(id, t, k, s, d, n, l, w), fields)
<1> DEFINE shown == Call(id, t, k, s, d, n, l, w)
           title == OrElse(fields.title, NoText)
           kind == AndThen(fields.kind, ToolKindString)
           status == OrElse(AndThen(fields.status, LAMBDA x : Some(MapToolStatus(x))), "pending")
           detail == AndThen(fields.locations, LocationDetail)
           content == OrElse(AndThen(fields.content, LAMBDA c : Some(NormalizeToolContent(c))), <<>>)
           locations == OrElse(fields.locations, <<>>)
           raw == NormalizedRaw(fields.raw)
           mTitle == IF title = NoText THEN t ELSE title
           mKind == IF kind = None THEN k ELSE kind
           mDetail == IF detail = None THEN d ELSE detail
           mContent == IF content = <<>> THEN n ELSE content
           mLocations == IF locations = <<>> THEN l ELSE locations
           mRaw == IF raw = None THEN w ELSE raw
           pTitle == OrElse(fields.title, t)
           pKind == IF fields.kind = None THEN k ELSE fields.kind
           pStatus == MapToolStatus(fields.status[1])
           pDetail == IF fields.locations = None THEN d ELSE LocationDetail(fields.locations[1])
           pContent == IF fields.content = None THEN n ELSE NormalizeToolContent(fields.content[1])
           pLocations == OrElse(fields.locations, l)
           pRaw == IF NormalizedRaw(fields.raw) = None THEN w ELSE fields.raw
           merged == Call(id, mTitle, mKind, status, mDetail, mContent, mLocations, mRaw)
           patched == Call(id, pTitle, pKind, pStatus, pDetail, pContent, pLocations, pRaw)
<1>0. /\ fields.title # None => fields.title = Some(fields.title[1])
      /\ fields.kind # None => fields.kind = Some(fields.kind[1])
      /\ fields.status # None => fields.status = Some(fields.status[1])
      /\ fields.content # None => fields.content = Some(fields.content[1])
      /\ fields.locations # None => fields.locations = Some(fields.locations[1])
      /\ fields.raw # None => fields.raw = Some(fields.raw[1])
    BY DEF IsOption
<1>1. Merging(shown, NormalizeToolCallUpdate(id, fields)) = merged
    <2> DEFINE new == Call(id, title, kind, status, detail, content, locations, raw)
    <2>1. NormalizeToolCallUpdate(id, fields) = new
        BY DEF NormalizeToolCallUpdate, Call
    <2> HIDE DEF title, kind, status, detail, content, locations, raw
    <2>2. /\ new.title = title /\ new.kind = kind /\ new.detail = detail /\ new.content = content
          /\ new.locations = locations /\ new.raw = raw
        BY DEF Call
    <2>3. /\ shown.title = t /\ shown.kind = k /\ shown.detail = d /\ shown.content = n
          /\ shown.locations = l /\ shown.raw = w
        BY DEF Call
    <2>4. Merging(shown, new)
            = Replaced(new, mTitle, mKind, mDetail, mContent, mLocations, mRaw)
        <3> HIDE DEF new, shown
        <3> QED  BY <2>2, <2>3 DEF Merging, Replaced
    <2>5. QED
        BY <2>1, <2>4, CallReplaced
<1>2. Patch(shown, fields) = patched
    <2>1. /\ shown.title = t /\ shown.kind = k /\ shown.detail = d /\ shown.content = n
          /\ shown.locations = l /\ shown.raw = w
        BY DEF Call
    <2> DEFINE settled == [shown EXCEPT !.status = MapToolStatus(fields.status[1])]
    <2>2. Patch(shown, fields)
            = Replaced(settled, pTitle, pKind, pDetail, pContent, pLocations, pRaw)
        <3> HIDE DEF shown
        <3>1. Patch(shown, fields)
                = [shown EXCEPT !.title = pTitle, !.kind = pKind, !.status = pStatus, !.detail = pDetail,
                                !.content = pContent, !.locations = pLocations, !.raw = pRaw]
            BY <2>1 DEF Patch
        <3> HIDE DEF pTitle, pKind, pStatus, pDetail, pContent, pLocations, pRaw
        <3>2. QED
            BY <3>1 DEF Replaced, pStatus
    <2>3. settled = Call(id, t, k, MapToolStatus(fields.status[1]), d, n, l, w)
        BY DEF Call
    <2> HIDE DEF settled
    <2>4. QED
        BY <2>2, <2>3, CallReplaced
<1>3. mTitle = pTitle
    BY <1>0 DEF Explicit, OrElse, Some
<1>4. mKind = pKind
    BY <1>0 DEF AndThen, ToolKindString, Some, None
<1>5. status = pStatus
    BY <1>0 DEF Explicit, AndThen, OrElse, Some, None
<1>6. mDetail = pDetail
    BY <1>0 DEF Explicit, AndThen, LocationDetail, Some, None
<1>7. mContent = pContent
    BY <1>0 DEF Explicit, AndThen, OrElse, Some, None
<1>8. mLocations = pLocations
    BY <1>0 DEF Explicit, OrElse, Some, None
<1>9. mRaw = pRaw
    BY <1>0 DEF NormalizedRaw, Some, None
<1> HIDE DEF shown, mTitle, mKind, status, mDetail, mContent, mLocations, mRaw,
             pTitle, pKind, pStatus, pDetail, pContent, pLocations, pRaw
<1>10. merged = patched
    BY <1>3, <1>4, <1>5, <1>6, <1>7, <1>8, <1>9
<1>11. Merging(shown, NormalizeToolCallUpdate(id, fields)) = Patch(shown, fields)
    BY <1>1, <1>2, <1>10
<1>12. QED
    BY <1>11 DEF shown
============================================================================
