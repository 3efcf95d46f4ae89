----------------------------- MODULE Exchanges -----------------------------
(***************************************************************************)
(* diff_core: what a watcher or a replay makes of the exchanges of a        *)
(* session, one after the other.  An exchange is compared with the one      *)
(* before it, and what is new becomes a datagram of labelled texts and tool *)
(* calls.  How the watcher comes by the lines is in ExchangeWatcher.        *)
(*                                                                         *)
(* A text is a sequence of pieces: "tag" is <system-reminder>, "hook" the   *)
(* marks of a hook's reminder, "words" anything else and "blank" white      *)
(* space.  Fields that only some blocks have are there in all of them.      *)
(***************************************************************************)
EXTENDS SequencesExt, Naturals

CONSTANTS
  Turns,        \* what a session appends to its messages in one exchange
  Headers,      \* [system, tools]: its system field and the names of its tools
  NoText, NoName,
  MaxMessages   \* bound: messages of a session

VARIABLES
  exchange,     \* the last one that was logged
  previous,     \* state.previous
  datagram,     \* what was emitted for it
  transcript,   \* history: what the lines of the transcript since the startup
                \* say, label -> all of it in order
  warned,       \* one of these had system_injection
  grown         \* history: messages were only appended since then

NoExchange == [none |-> TRUE]
NoDatagram == [none |-> TRUE]

exchangeVars == <<exchange, previous, datagram, transcript, warned, grown>>

\* What the turns are made of.
TextType == Seq({"tag", "hook", "words", "blank"})
TurnMessages == UNION {Range(turn) : turn \in Turns}
BlocksOf(messages) == UNION {Range(m.blocks) : m \in messages}
BlockType ==
  LET blocks == BlocksOf(TurnMessages)
  IN  [type : {b.type : b \in blocks}, text : TextType, name : {b.name : b \in blocks},
       input : {b.input : b \in blocks}, results : Seq(TextType), transient : BOOLEAN]
MessageType ==
  {m \in [role : {m.role : m \in TurnMessages}, plain : BOOLEAN, text : TextType,
          blocks : Seq(BlockType), transient : BOOLEAN] : m.plain => m.blocks = <<>>}

TurnsAssumption == \A turn \in Turns : turn \in Seq(MessageType)

ASSUME TurnsAssumption

-----------------------------------------------------------------------------
(* Splitting and comparing *)

strip_transient(message) ==
  [message EXCEPT !.transient = FALSE,
                  !.blocks = [i \in DOMAIN @ |-> [@[i] EXCEPT !.transient = FALSE]]]

\* Mutant: the markers of the cache are compared as well.
SplitUnstripped(x) ==
  [messages |-> x.messages,
   system |-> IF x.system.form \in {"blocks", "string"} THEN x.system.texts ELSE <<>>,
   tools |-> x.tools]

split_exchange(x) ==
  [messages |-> [i \in DOMAIN x.messages |-> strip_transient(x.messages[i])],
   system |-> IF x.system.form \in {"blocks", "string"} THEN x.system.texts ELSE <<>>,
   tools |-> x.tools]

diff_messages(prev, curr) ==
  LET common == {n \in 0 .. Len(curr) :
                   n <= Len(prev) /\ \A i \in 1..n : prev[i] = curr[i]}
  IN  SubSeq(curr, Max(common) + 1, Len(curr))

diff_system_blocks(prev, curr) == SelectSeq(curr, LAMBDA t : t # NoText /\ t \notin Range(prev))

diff_tools(prev, curr) == SelectSeq(curr, LAMBDA n : n # NoName /\ n \notin Range(prev))

classify_priority(new_system, new_tools) ==
  IF new_system = <<>> /\ new_tools = <<>> THEN "Low" ELSE "Normal"

-----------------------------------------------------------------------------
(* From API format to labels *)

\* A value is a string, another JSON value, or an array that merge_into made.
StringValue(t) == [form |-> "string", text |-> t, items |-> <<>>]
OtherValue(v) == [form |-> "other", text |-> <<v>>, items |-> <<>>]
ArrayValue(s) == [form |-> "array", text |-> <<>>, items |-> s]

Join(s, t) == s \o (<<"blank">> \o t)

\* Mutant: the second value takes the place of the first.
MergeReplacing(map, label, value) ==
  [l \in DOMAIN map \cup {label} |->
     IF l # label THEN map[l]
     ELSE IF label \notin DOMAIN map THEN value
     ELSE IF map[l].form = "string" /\ value.form = "string"
          THEN StringValue(Join(map[l].text, value.text))
     ELSE IF map[l].form = "array" THEN ArrayValue(Append(map[l].items, value))
     ELSE ArrayValue(<<value>>)]

merge_into(map, label, value) ==
  [l \in DOMAIN map \cup {label} |->
     IF l # label THEN map[l]
     ELSE IF label \notin DOMAIN map THEN value
     ELSE IF map[l].form = "string" /\ value.form = "string"
          THEN StringValue(Join(map[l].text, value.text))
     ELSE IF map[l].form = "array" THEN ArrayValue(Append(map[l].items, value))
     ELSE ArrayValue(<<map[l], value>>)]

tool_label(name) ==
  CASE name = "Read" -> "file_read"
    [] name = "Write" -> "file_write"
    [] name \in {"Edit", "NotebookEdit"} -> "file_edit"
    [] name = "Glob" -> "file_search"
    [] name = "Grep" -> "text_search"
    [] name = "WebSearch" -> "web_search"
    [] name = "WebFetch" -> "web_fetch"
    [] name = "Bash" -> "shell"
    [] name = "Task" -> "agent_dispatch"
    [] name = "AskUserQuestion" -> "ask_question"
    [] name = "EnterPlanMode" -> "start_plan"
    [] name = "ExitPlanMode" -> "finish_plan"
    [] OTHER -> "tool_use"

BySpeaker(role) == IF role = "user" THEN "user" ELSE "assistant"

Joined(texts) ==
  FlattenSeq([i \in DOMAIN texts |-> IF i = 1 THEN texts[i] ELSE <<"blank">> \o texts[i]])

\* The result of a tool is its string, or its text blocks joined.
extract_tool_result_text(block) == Joined(block.results)

\* <<label, value>>, or nothing for a block of no interest.
restructure_block(block, role) ==
  CASE block.type = "text" ->
         <<<<IF "tag" \in Range(block.text) THEN "system" ELSE BySpeaker(role),
             StringValue(block.text)>>>>
    [] block.type = "thinking" -> <<<<"thinking", StringValue(block.text)>>>>
    [] block.type = "tool_use" ->
         <<<<tool_label(IF block.name = NoName THEN "unknown" ELSE block.name),
             OtherValue(block.input)>>>>
    [] block.type = "tool_result" /\ extract_tool_result_text(block) # <<>> ->
         <<<<"tool_return", StringValue(extract_tool_result_text(block))>>>>
    [] OTHER -> <<>>

Labelled(message) ==
  IF message.plain THEN <<<<BySpeaker(message.role), StringValue(message.text)>>>>
  ELSE FlattenSeq([i \in DOMAIN message.blocks |->
                     restructure_block(message.blocks[i], message.role)])

LabelledAll(messages) == FlattenSeq([i \in DOMAIN messages |-> Labelled(messages[i])])

restructure_messages(messages) ==
  LET pairs == LabelledAll(messages)
      map[n \in 0..Len(pairs)] ==
        IF n = 0 THEN <<>> ELSE merge_into(map[n - 1], pairs[n][1], pairs[n][2])
  IN  map[Len(pairs)]

classify_traffic_kind(payload, is_startup) ==
  IF is_startup THEN "startup"
  ELSE IF {"start_plan", "finish_plan"} \cap DOMAIN payload # {} THEN "planning"
  ELSE IF "agent_dispatch" \in DOMAIN payload THEN "subagent"
  ELSE IF "user" \in DOMAIN payload THEN "conversation" ELSE "tool"

\* The pieces between the same two tags as piece k.
Chunk(text, k) ==
  {text[l] : l \in {m \in DOMAIN text : \A n \in DOMAIN text :
                      text[n] = "tag" => ~(m <= n /\ n <= k) /\ ~(k <= n /\ n <= m)}}

\* Words of a reminder that no hook wrote.
Unmarked(text) == \E k \in DOMAIN text : text[k] = "words" /\ "hook" \notin Chunk(text, k)

\* Mutant: one reminder of a hook speaks for all of them.
InjectionUnlessHook(payload) ==
  "system" \in DOMAIN payload /\ payload["system"].form = "string" /\
    LET text == payload["system"].text
    IN  "words" \in Range(text) /\ "hook" \notin Range(text)

has_platform_injection(payload) ==
  "system" \in DOMAIN payload /\ payload["system"].form = "string" /\
    Unmarked(payload["system"].text)

build_datagram(new_messages, new_system, new_tools, priority, is_startup) ==
  LET payload == restructure_messages(new_messages) IN
  [payload |-> payload,
   instructions |-> Joined(new_system),
   tools_added |-> new_tools,
   traffic_kind |-> classify_traffic_kind(payload, is_startup),
   system_injection |-> has_platform_injection(payload),
   priority |-> priority]

\* The first exchange is told without its system and its tools.
diff_and_emit(prev, curr) ==
  IF prev = NoExchange
  THEN IF curr.messages = <<>> THEN NoDatagram
       ELSE build_datagram(curr.messages, <<>>, <<>>, "Low", TRUE)
  ELSE LET m == diff_messages(prev.messages, curr.messages)
           s == diff_system_blocks(prev.system, curr.system)
           t == diff_tools(prev.tools, curr.tools)
       IN  IF m = <<>> /\ s = <<>> /\ t = <<>> THEN NoDatagram
           ELSE build_datagram(m, s, t, classify_priority(s, t), FALSE)

-----------------------------------------------------------------------------
(* A session and its exchanges *)

ExchangesInit ==
  /\ exchange = [messages |-> <<>>, system |-> [form |-> "none", texts |-> <<>>], tools |-> <<>>]
  /\ previous = NoExchange /\ datagram = NoDatagram
  /\ transcript = <<>> /\ warned = FALSE /\ grown = TRUE

Items(value) == IF value.form = "array" THEN value.items ELSE <<value>>

\* A payload is one more line of the transcript: what a reader then has.
Continued(told, payload) ==
  [l \in DOMAIN told \cup DOMAIN payload |->
     IF l \notin DOMAIN told THEN payload[l]
     ELSE IF l \notin DOMAIN payload THEN told[l]
     ELSE IF told[l].form = "string" /\ payload[l].form = "string"
          THEN StringValue(Join(told[l].text, payload[l].text))
     ELSE ArrayValue(Items(told[l]) \o Items(payload[l]))]

process_exchange(x) ==
  /\ exchange' = x
  /\ previous' = split_exchange(x)
  /\ datagram' = diff_and_emit(previous, previous')
  /\ IF datagram' = NoDatagram THEN UNCHANGED <<transcript, warned>>
     ELSE /\ transcript' = Continued(transcript, datagram'.payload)
          /\ warned' = (warned \/ datagram'.system_injection)

\* Each exchange is the whole conversation; the client marks its last block for
\* the cache, and no other.
Marked(messages) ==
  [i \in DOMAIN messages |->
     [messages[i] EXCEPT !.blocks = [k \in DOMAIN @ |->
        [@[k] EXCEPT !.transient = (i = Len(messages) /\ k = Len(messages[i].blocks))]]]]

Exchanged(messages, system, tools) ==
  process_exchange([messages |-> Marked(messages), system |-> system, tools |-> tools])

Continue ==
  \E turn \in Turns, header \in Headers :
    /\ Len(exchange.messages \o turn) <= MaxMessages
    /\ Exchanged(exchange.messages \o turn, header.system, header.tools)
    /\ UNCHANGED grown

\* The client leaves out a block it had sent: thinking of an earlier turn.
LeaveOut ==
  \E i \in DOMAIN exchange.messages : \E k \in DOMAIN exchange.messages[i].blocks :
    /\ exchange.messages[i].blocks[k].type = "thinking"
    /\ Exchanged([exchange.messages EXCEPT ![i].blocks = RemoveAt(@, k)],
                 exchange.system, exchange.tools)
    /\ grown' = FALSE

\* A truncation (detect_truncation), or a watcher or replay that starts: the
\* line that is kept is the first one again.
StartOver ==
  /\ exchange.messages # <<>> /\ previous # NoExchange
  /\ previous' = NoExchange /\ datagram' = NoDatagram
  /\ transcript' = <<>> /\ warned' = FALSE /\ grown' = TRUE
  /\ UNCHANGED exchange

ExchangesNext == Continue \/ LeaveOut \/ StartOver

ExchangesSpec == ExchangesInit /\ [][ExchangesNext]_exchangeVars

-----------------------------------------------------------------------------
(* Properties *)

ValuesOf(pairs, label) ==
  FlattenSeq([i \in DOMAIN pairs |-> IF pairs[i][1] = label THEN <<pairs[i][2]>> ELSE <<>>])

TextBlocks(messages) ==
  {b \in BlocksOf(Range(messages)) : b.type = "text" /\ "tag" \in Range(b.text)}

\* While messages are only appended, the datagrams since the startup tell the
\* conversation: under each label everything that was said, each time once and
\* in its order, whatever the client marks for its cache; and they warn of a
\* reminder of the platform exactly when there was one that no hook wrote, if
\* "each system-reminder block starts with <system-reminder>".
ConversationTold ==
  LET pairs == LabelledAll(exchange.messages)
      reminders == TextBlocks(exchange.messages)
  IN  (previous # NoExchange /\ grown) =>
        /\ DOMAIN transcript = {p[1] : p \in Range(pairs)}
        /\ \A label \in DOMAIN transcript :
             LET values == ValuesOf(pairs, label) IN
             IF transcript[label].form = "string"
             THEN transcript[label].text = Joined([i \in DOMAIN values |-> values[i].text])
             ELSE Items(transcript[label]) = values
        /\ (\A b \in reminders : Head(b.text) = "tag") =>
             (warned <=> \E b \in reminders : Unmarked(b.text))
=============================================================================
