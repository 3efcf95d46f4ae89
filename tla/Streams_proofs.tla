--------------------------- MODULE Streams_proofs ---------------------------
(***************************************************************************)
(* The two programs that read a stream in whatever pieces it arrives: the  *)
(* response filter of the proxy (SseIntercept) and the watcher of the      *)
(* exchange log (ExchangeWatcher).                                         *)
(*                                                                         *)
(* The filter keeps its promise for every set of streams, every channel    *)
(* capacity and every order of frames, reads and failures.  The watcher    *)
(* stays on the lines of the log for every number of exchanges, every      *)
(* length of a line, every division of the bytes into reads and every      *)
(* place where a truncation, a restart or a replay falls.                  *)
(***************************************************************************)
EXTENDS SseIntercept, ExchangeWatcher, FiniteSetTheorems, SequenceTheorems,
        NaturalsInduction, WellFoundedInduction, TLAPS

-----------------------------------------------------------------------------
(* Reading blocks off a stream, one event further *)

\* At most one start opens a block index: the latest one.
LEMMA OpenedUnique ==
  ASSUME NEW s, NEW n \in Nat, NEW i, NEW p, NEW q,
         Promise!Opened(s, n, i, p), Promise!Opened(s, n, i, q)
  PROVE  p = q
BY DEF Promise!Opened, Promise!Bounds, Promise!Starts

\* What one more event does to the block that is open at an index: nothing
\* unless it bounds it, a start opens it, a stop leaves none.
LEMMA OpenedStep ==
  ASSUME NEW s, NEW n \in Nat, NEW i, NEW p
  PROVE  /\ ~Promise!Bounds(s, n + 1, i) =>
              (Promise!Opened(s, n + 1, i, p) <=> Promise!Opened(s, n, i, p))
         /\ Promise!Starts(s, n + 1) /\ s[n + 1].index = i =>
              (Promise!Opened(s, n + 1, i, p) <=> p = n + 1)
         /\ s[n + 1].type = "stop" /\ s[n + 1].index = i =>
              ~Promise!Opened(s, n + 1, i, p)
<1> USE DEF Promise!Opened, Promise!Bounds, Promise!Starts
<1>1. ASSUME ~Promise!Bounds(s, n + 1, i)
      PROVE  Promise!Opened(s, n + 1, i, p) <=> Promise!Opened(s, n, i, p)
  BY <1>1
<1>2. ASSUME Promise!Starts(s, n + 1), s[n + 1].index = i
      PROVE  Promise!Opened(s, n + 1, i, p) <=> p = n + 1
  BY <1>2
<1>3. ASSUME s[n + 1].type = "stop", s[n + 1].index = i
      PROVE  ~Promise!Opened(s, n + 1, i, p)
  BY <1>3
<1> QED BY <1>1, <1>2, <1>3

\* The filter's own copy of Cardinality is Cardinality.
LEMMA SameCardinality ==
  ASSUME NEW S
  PROVE  Promise!Cardinality(S) = Cardinality(S)
BY DEF Promise!Cardinality, Cardinality

\* The rank counts a block start that is not thinking, and nothing else.
LEMMA RankStep ==
  ASSUME NEW s, NEW n \in Nat
  PROVE  /\ Promise!Rank(s, n) \in Nat
         /\ Promise!Rank(s, n + 1) =
              IF Promise!Starts(s, n + 1) /\ ~Promise!Thinking(s, n + 1)
              THEN Promise!Rank(s, n) + 1 ELSE Promise!Rank(s, n)
<1> DEFINE F(m) == Promise!ForwardedStarts(s, m)
<1>1. F(n) \subseteq 1..n BY DEF Promise!ForwardedStarts
<1>2. IsFiniteSet(F(n)) BY <1>1, FS_Interval, FS_Subset
<1>3. Promise!Rank(s, n) \in Nat
  <2>1. Cardinality(F(n)) \in Nat BY <1>2, FS_CardinalityType
  <2> QED BY <2>1, SameCardinality DEF Promise!Rank
<1>4. CASE Promise!Starts(s, n + 1) /\ ~Promise!Thinking(s, n + 1)
  <2>1. F(n + 1) = F(n) \cup {n + 1} BY <1>4 DEF Promise!ForwardedStarts
  <2>2. n + 1 \notin F(n) BY <1>1
  <2>3. Cardinality(F(n) \cup {n + 1}) = Cardinality(F(n)) + 1
    BY <1>2, <2>2, FS_AddElement
  <2> QED BY <1>3, <1>4, <2>1, <2>3, SameCardinality DEF Promise!Rank
<1>5. CASE ~(Promise!Starts(s, n + 1) /\ ~Promise!Thinking(s, n + 1))
  <2>1. F(n + 1) = F(n) BY <1>5 DEF Promise!ForwardedStarts
  <2> QED BY <1>3, <1>5, <2>1 DEF Promise!Rank
<1> QED BY <1>3, <1>4, <1>5

\* A start owns itself; a delta or a stop belongs to the open block.
LEMMA Ownership ==
  ASSUME NEW s, NEW n \in Nat, NEW p
  PROVE  /\ Promise!Starts(s, n + 1) =>
              (Promise!Owns(s, p, n + 1) <=> p = n + 1)
         /\ s[n + 1].type \in {"delta", "stop"} =>
              (Promise!Owns(s, p, n + 1)
                 <=> Promise!Opened(s, n, s[n + 1].index, p))
         /\ s[n + 1].type = "other" => ~Promise!Owns(s, p, n + 1)
<1>1. n + 1 - 1 = n OBVIOUS
<1> QED BY <1>1 DEF Promise!Owns, Promise!Starts

\* What the filter does with an event that a known block owns, and with one
\* that no block owns.
LEMMA Routing ==
  ASSUME NEW s, NEW n \in Nat
  PROVE  /\ \A p \in 1..n + 1 : Promise!Owns(s, p, n + 1) =>
              /\ Promise!Stripped(s, n + 1) <=> Promise!Thinking(s, p)
              /\ Promise!Renumbered(s, n + 1) = Promise!Rank(s, p - 1)
         /\ (\A p \in 1..n + 1 : ~Promise!Owns(s, p, n + 1)) =>
              /\ ~Promise!Stripped(s, n + 1)
              /\ Promise!Renumbered(s, n + 1) = s[n + 1].index
<1>1. ASSUME NEW p \in 1..n + 1, Promise!Owns(s, p, n + 1)
      PROVE  /\ Promise!Stripped(s, n + 1) <=> Promise!Thinking(s, p)
             /\ Promise!Renumbered(s, n + 1) = Promise!Rank(s, p - 1)
  <2>1. \A q \in 1..n + 1 : Promise!Owns(s, q, n + 1) => q = p
    <3>1. CASE Promise!Starts(s, n + 1) BY <1>1, <3>1, Ownership
    <3>2. CASE ~Promise!Starts(s, n + 1)
      <4>1. s[n + 1].type \in {"delta", "stop"} BY <1>1, <3>2 DEF Promise!Owns
      <4>2. Promise!Opened(s, n, s[n + 1].index, p) BY <1>1, <4>1, Ownership
      <4>3. ASSUME NEW q \in 1..n + 1, Promise!Owns(s, q, n + 1) PROVE q = p
        <5>1. Promise!Opened(s, n, s[n + 1].index, q) BY <4>1, <4>3, Ownership
        <5> QED BY <4>2, <5>1, OpenedUnique
      <4> QED BY <4>3
    <3> QED BY <3>1, <3>2
  <2>2. (CHOOSE q \in 1..n + 1 : Promise!Owns(s, q, n + 1)) = p
    BY <1>1, <2>1
  <2>3. Promise!Stripped(s, n + 1) <=> Promise!Thinking(s, p)
    BY <1>1, <2>1 DEF Promise!Stripped
  <2>4. Promise!Renumbered(s, n + 1) = Promise!Rank(s, p - 1)
    BY <1>1, <2>2 DEF Promise!Renumbered
  <2> QED BY <2>3, <2>4
<1>2. ASSUME \A p \in 1..n + 1 : ~Promise!Owns(s, p, n + 1)
      PROVE  /\ ~Promise!Stripped(s, n + 1)
             /\ Promise!Renumbered(s, n + 1) = s[n + 1].index
  BY <1>2 DEF Promise!Stripped, Promise!Renumbered
<1> QED BY <1>1, <1>2

-----------------------------------------------------------------------------
(* The types *)

Modes == [mode : {"none", "strip", "forward"}, forwarded_index : Nat]

\* The modes the handlers store are modes.
LEMMA ModeTypes ==
  /\ NoMode \in Modes /\ StripMode \in Modes
  /\ \A n \in Nat : ForwardMode(n) \in Modes
BY DEF NoMode, StripMode, ForwardMode, Modes

\* The event that is taken next is one of the stream, with a known index.
LEMMA NextEvent ==
  ASSUME TypeOK, Complete
  PROVE  /\ routed + 1 \in 1..Len(stream)
         /\ stream \in Seq(Promise!Event)
         /\ Event \in Promise!Event
         /\ Event.index \in Index
         /\ Mode \in Modes
<1>1. stream \in Seq(Promise!Event) BY StreamsAssumption DEF TypeOK
<1>2. received <= 2 * Len(stream) /\ 2 * (routed + 1) <= received
  BY <1>1 DEF TypeOK, Complete
<1>3. routed + 1 \in 1..Len(stream)
  <2>1. routed \in Nat /\ Len(stream) \in Nat /\ received \in Nat
    BY <1>1 DEF TypeOK
  <2> QED BY <1>2, <2>1
<1>4. Event \in Promise!Event BY <1>1, <1>3 DEF Event
<1>5. Event.index \in Index
  <2>1. stream \in Streams BY DEF TypeOK
  <2>2. routed + 1 \in DOMAIN stream BY <1>1, <1>3
  <2> QED BY <2>1, <2>2, StreamIndexAssumption DEF Event
<1>6. Mode \in Modes BY <1>5 DEF Mode, TypeOK, Modes
<1> QED BY <1>1, <1>3, <1>4, <1>5, <1>6

\* Taking an event, whatever its handler does with it, keeps the types.
LEMMA TypeRoute == TypeOK /\ Route => TypeOK'
<1> SUFFICES ASSUME TypeOK, Route PROVE TypeOK' OBVIOUS
<1>1. Complete /\ Take BY DEF Route, PassOther, BlockStart, BlockDelta, BlockStop, Take
<1>2. /\ routed + 1 \in 1..Len(stream)
      /\ Event.index \in Nat /\ Event.index \in Index
      /\ Mode \in Modes
  BY <1>1, NextEvent, IndexAssumption
<1>3. routed + 1 \in Nat /\ routed + 1 \in 0..Len(stream) BY <1>2 DEF TypeOK
<1>4. \A n \in Nat : Pass(n) =>
        /\ pending' \in Seq(Item) /\ Len(pending') <= 1
        /\ pc' \in {"frame", "route", "send", "returned"}
  BY <1>3 DEF Pass, Item
<1>5. Strip => /\ pending' \in Seq(Item) /\ Len(pending') <= 1
               /\ pc' \in {"frame", "route", "send", "returned"}
  BY DEF Strip
<1>6. IF Mode.mode = "forward" THEN Mode.forwarded_index \in Nat
      ELSE Event.index \in Nat
  BY <1>2 DEF Modes
<1>7. /\ stream' \in Streams /\ received' \in 0..2 * Len(stream')
      /\ routed' \in 0..Len(stream') /\ session' \in BOOLEAN
      /\ sent' \in Seq(Item) /\ tail' \in Nat
      /\ read' \in 0..Len(sent') /\ Len(sent') - read' <= Capacity
      /\ broken' \in BOOLEAN /\ closed' \in BOOLEAN
  BY <1>1, <1>3 DEF Take, TypeOK, input
<1> DEFINE Rest == /\ block_modes' \in [Index -> Modes]
                   /\ next_forwarded_index' \in Nat
                   /\ thinking_buffer' \in Seq(Nat)
                   /\ pending' \in Seq(Item) /\ Len(pending') <= 1
                   /\ log' \in Seq(Seq(Nat))
                   /\ pc' \in {"frame", "route", "send", "returned"}
                   /\ faults' \in 0..MaxLogFaults
<1>8. block_modes \in [Index -> Modes] BY DEF TypeOK, Modes
<1>9. ASSUME PassOther PROVE Rest
  BY <1>2, <1>4, <1>8, <1>9 DEF PassOther, filter, TypeOK
<1>10. ASSUME BlockStart PROVE Rest
  <2>1. /\ next_forwarded_index \in Nat /\ log \in Seq(Seq(Nat))
        /\ faults \in 0..MaxLogFaults /\ thinking_buffer \in Seq(Nat)
        /\ <<>> \in Seq(Nat) /\ log' = log /\ faults' = faults
    BY <1>10 DEF TypeOK, BlockStart
  <2>2. CASE Event.kind = "thinking"
    BY <1>2, <1>5, <1>8, <1>10, <2>1, <2>2, ModeTypes DEF BlockStart
  <2>3. CASE Event.kind # "thinking"
    <3>1. /\ block_modes' = [block_modes EXCEPT ![Event.index] =
                                ForwardMode(next_forwarded_index)]
          /\ next_forwarded_index' = next_forwarded_index + 1
          /\ thinking_buffer' = thinking_buffer
          /\ Pass(next_forwarded_index)
      BY <1>10, <2>3 DEF BlockStart
    <3>2. block_modes' \in [Index -> Modes] BY <1>8, <2>1, <3>1, ModeTypes
    <3> QED BY <1>4, <2>1, <3>1, <3>2
  <2> QED BY <2>2, <2>3
<1>11. ASSUME BlockDelta PROVE Rest
  <2>1. /\ next_forwarded_index \in Nat /\ log \in Seq(Seq(Nat))
        /\ faults \in 0..MaxLogFaults /\ thinking_buffer \in Seq(Nat)
        /\ log' = log /\ faults' = faults /\ block_modes' = block_modes
        /\ next_forwarded_index' = next_forwarded_index
    BY <1>11 DEF TypeOK, BlockDelta
  <2>2. CASE Mode.mode = "strip"
    <3>1. /\ thinking_buffer' = IF Event.kind = "thinking"
                                THEN Append(thinking_buffer, routed + 1)
                                ELSE thinking_buffer
          /\ Strip
      BY <1>11, <2>2 DEF BlockDelta
    <3>2. thinking_buffer' \in Seq(Nat) BY <1>3, <2>1, <3>1
    <3> QED BY <1>5, <1>8, <2>1, <3>1, <3>2
  <2>3. CASE Mode.mode # "strip"
    BY <1>4, <1>6, <1>8, <1>11, <2>1, <2>3 DEF BlockDelta
  <2> QED BY <2>2, <2>3
<1>12. ASSUME BlockStop PROVE Rest
  <2>1. /\ next_forwarded_index \in Nat /\ log \in Seq(Seq(Nat))
        /\ faults \in 0..MaxLogFaults /\ thinking_buffer \in Seq(Nat)
        /\ <<>> \in Seq(Nat)
        /\ next_forwarded_index' = next_forwarded_index
        /\ block_modes' = [block_modes EXCEPT ![Event.index] = NoMode]
    BY <1>12 DEF TypeOK, BlockStop
  <2>2. block_modes' \in [Index -> Modes] BY <1>8, <2>1, ModeTypes
  <2>3. CASE Mode.mode = "strip"
    <3>1. WriteSideLog /\ thinking_buffer' = <<>> /\ Strip
      BY <1>12, <2>3 DEF BlockStop
    <3>2. log' \in Seq(Seq(Nat)) /\ faults' \in 0..MaxLogFaults
      <4>1. CASE log' = Append(log, thinking_buffer) /\ faults' = faults
        BY <2>1, <4>1
      <4>2. CASE /\ faults < MaxLogFaults /\ faults' = faults + 1 /\ log' = log
        BY <2>1, <4>2, CapacityAssumption
      <4>3. CASE log' = log /\ faults' = faults BY <2>1, <4>3
      <4> QED BY <3>1, <4>1, <4>2, <4>3 DEF WriteSideLog
    <3> QED BY <1>5, <2>1, <2>2, <3>1, <3>2
  <2>4. CASE Mode.mode # "strip"
    BY <1>4, <1>6, <1>12, <2>1, <2>2, <2>4 DEF BlockStop
  <2> QED BY <2>3, <2>4
<1>13. Rest BY <1>9, <1>10, <1>11, <1>12 DEF Route
<1> QED BY <1>7, <1>13 DEF TypeOK, Modes

\* At most one event is being sent.
LEMMA AtMostOne ==
  ASSUME NEW n \in Nat, n <= 1
  PROVE  n \in 0..1
OBVIOUS
LEMMA ShortSequence ==
  ASSUME NEW q \in Seq(Item), Len(q) <= 1
  PROVE  Len(q) \in 0..1
<1>1. Len(q) \in Nat OBVIOUS
<1>2. \A n \in Nat : n <= 1 => n \in 0..1 BY AtMostOne
<1> QED BY <1>1, <1>2

\* No step of the task, of the client or of the upstream breaks a type.
LEMMA TypeStep == TypeOK /\ [Next]_vars => TypeOK'
<1> SUFFICES ASSUME TypeOK, [Next]_vars PROVE TypeOK' OBVIOUS
<1> USE DEF TypeOK, input, filter
<1>1. stream \in Seq(Promise!Event) /\ Len(stream) \in Nat
  BY StreamsAssumption
<1>2. CASE Frame
  <2>1. received' \in 0..2 * Len(stream) BY <1>1, <1>2 DEF Frame
  <2> QED BY <1>2, <2>1 DEF Frame
<1>3. CASE NextFrame BY <1>3 DEF NextFrame
<1>4. CASE Route BY <1>4, TypeRoute
<1>5. CASE Send
  <2>1. sent' \in Seq(Item) /\ Len(sent') = Len(sent) + Len(pending)
    BY <1>5, ConcatProperties DEF Send
  <2>2. Len(sent) \in Nat /\ Len(pending) \in 0..1 /\ Capacity \in Nat
    <3>1. pending \in Seq(Item) /\ Len(pending) <= 1 OBVIOUS
    <3> HIDE DEF TypeOK
    <3>2. Len(pending) \in 0..1 BY <3>1, ShortSequence
    <3> QED BY <3>2, CapacityAssumption DEF TypeOK
  <2>3. read \in 0..Len(sent') /\ Len(sent') - read <= Capacity
    BY <1>5, <2>1, <2>2 DEF Send, Room
  <2>4. pending' \in Seq(Item) /\ Len(pending') <= 1 BY <1>5 DEF Send
  <2> QED BY <1>5, <2>1, <2>3, <2>4 DEF Send
<1>6. CASE SendFails BY <1>6 DEF SendFails
<1>7. CASE StreamEnd BY <1>7 DEF StreamEnd
<1>8. CASE StreamError BY <1>8 DEF StreamError
<1>9. CASE ClientRead
  <2>1. /\ read' \in 0..Len(sent) /\ Len(sent) - read' <= Capacity
    BY <1>9, CapacityAssumption DEF ClientRead
  <2> QED BY <1>9, <2>1 DEF ClientRead
<1>10. CASE ClientClose BY <1>10 DEF ClientClose
<1>11. CASE UNCHANGED vars BY <1>11 DEF vars
<1> QED BY <1>2, <1>3, <1>4, <1>5, <1>6, <1>7, <1>8, <1>9, <1>10, <1>11
        DEF Next, Task

\* A response that has not started is well typed.
LEMMA TypeInit == Init => TypeOK
<1> SUFFICES ASSUME Init PROVE TypeOK OBVIOUS
<1>1. stream \in Streams /\ Len(stream) \in Nat
  BY StreamsAssumption DEF Init
<1>2. block_modes \in [Index -> Modes] BY ModeTypes DEF Init
<1>3. 0 \in 0..2 * Len(stream) /\ 0 \in 0..Len(stream) BY <1>1
<1>4. Capacity \in Nat /\ 0 \in 0..MaxLogFaults BY CapacityAssumption
<1>5. /\ sent = <<>> /\ pending = <<>> /\ log = <<>> /\ read = 0
      /\ thinking_buffer = <<>>
  BY DEF Init
<1>6. /\ sent \in Seq(Item) /\ pending \in Seq(Item) /\ Len(pending) <= 1
      /\ thinking_buffer \in Seq(Nat) /\ log \in Seq(Seq(Nat))
      /\ read \in 0..Len(sent) /\ Len(sent) - read <= Capacity
  BY <1>4, <1>5
<1> QED BY <1>1, <1>2, <1>3, <1>4, <1>6 DEF Init, TypeOK, Modes

-----------------------------------------------------------------------------
(* The modes track the stream *)

\* A step that takes no event and is not in the middle of sending one keeps
\* what the modes say.
LEMMA ModesKept ==
  ASSUME ModesTrackStream,
         stream' = stream, routed' = routed, block_modes' = block_modes,
         next_forwarded_index' = next_forwarded_index,
         pc' \in {"frame", "route"} => pending' = <<>>
  PROVE  ModesTrackStream'
BY DEF ModesTrackStream

\* What is open at an index after an event that bounds no block of that index.
LEMMA ModeUnbounded ==
  ASSUME TypeOK, ModesTrackStream, NEW i \in Index,
         ~Promise!Bounds(stream, routed + 1, i)
  PROVE  \/ block_modes[i] = NoMode
              /\ \A p \in 1..routed + 1 : ~Promise!Opened(stream, routed + 1, i, p)
         \/ \E p \in 1..routed + 1 :
              /\ Promise!Opened(stream, routed + 1, i, p)
              /\ block_modes[i] = ModeFor(stream, p)
<1>1. routed \in Nat BY DEF TypeOK
<1>2. \A p : Promise!Opened(stream, routed + 1, i, p)
               <=> Promise!Opened(stream, routed, i, p)
  BY <1>1, OpenedStep
<1>3. \A p : Promise!Opened(stream, routed, i, p) => p \in 1..routed
  BY DEF Promise!Opened
<1>4. 1..routed \subseteq 1..routed + 1 BY <1>1
<1> QED BY <1>2, <1>3, <1>4 DEF ModesTrackStream

\* Each handler leaves the modes as the stream, one event further, has them.
LEMMA ModesRoute ==
  ASSUME TypeOK, ModesTrackStream, Route
  PROVE  ModesTrackStream'
<1>1. Complete /\ Take
  BY DEF Route, PassOther, BlockStart, BlockDelta, BlockStop, Take
<1>2. routed \in Nat /\ routed' = routed + 1 /\ stream' = stream
  BY <1>1 DEF TypeOK, Take, input
<1>3. Event \in Promise!Event /\ Event.index \in Index BY <1>1, NextEvent
<1>4. pc' \in {"frame", "route"} => pending' = <<>>
  BY DEF Route, PassOther, BlockStart, BlockDelta, BlockStop, Pass, Strip
<1>5. next_forwarded_index = Promise!Rank(stream, routed)
  BY DEF ModesTrackStream
<1> DEFINE Tracked(i) ==
      LET m == block_modes'[i]
          open(p) == Promise!Opened(stream, routed + 1, i, p)
      IN  \/ m = NoMode /\ \A p \in 1..routed + 1 : ~open(p)
          \/ \E p \in 1..routed + 1 :
               /\ open(p)
               /\ m = ModeFor(stream, p)
<1>6. ASSUME NEW i \in Index, block_modes'[i] = block_modes[i],
             ~Promise!Bounds(stream, routed + 1, i)
      PROVE  Tracked(i)
  BY <1>6, ModeUnbounded
<1>7. CASE PassOther \/ BlockDelta
  <2>1. block_modes' = block_modes /\ Event.type \in {"other", "delta"}
    BY <1>7 DEF PassOther, BlockDelta, filter
  <2>2. next_forwarded_index' = next_forwarded_index
    BY <1>7 DEF PassOther, BlockDelta, filter
  <2>3. \A i \in Index : Tracked(i)
    BY <1>6, <2>1 DEF Promise!Bounds, Event
  <2>4. Promise!Rank(stream, routed + 1) = Promise!Rank(stream, routed)
    BY <1>2, <2>1, RankStep DEF Event, Promise!Starts
  <2> QED BY <1>2, <1>4, <1>5, <2>2, <2>3, <2>4 DEF ModesTrackStream
<1>8. CASE BlockStart
  <2> DEFINE j == Event.index
  <2>1. /\ Promise!Starts(stream, routed + 1)
        /\ Promise!Thinking(stream, routed + 1) <=> Event.kind = "thinking"
    BY <1>8 DEF BlockStart, Event, Promise!Starts, Promise!Thinking
  <2>2. /\ next_forwarded_index' = Promise!Rank(stream, routed + 1)
        /\ block_modes' = [block_modes EXCEPT ![j] =
             IF Promise!Thinking(stream, routed + 1) THEN StripMode
             ELSE ForwardMode(Promise!Rank(stream, routed))]
    BY <1>2, <1>5, <1>8, <2>1, RankStep DEF BlockStart
  <2>3. ASSUME NEW i \in Index, i # j PROVE Tracked(i)
    <3>1. block_modes'[i] = block_modes[i] BY <2>2, <2>3 DEF TypeOK
    <3>2. ~Promise!Bounds(stream, routed + 1, i)
      BY <2>3 DEF Promise!Bounds, Event
    <3> QED BY <1>6, <3>1, <3>2
  <2>4. Tracked(j)
    <3>1. block_modes'[j] = IF Promise!Thinking(stream, routed + 1) THEN StripMode
                            ELSE ForwardMode(Promise!Rank(stream, routed))
      BY <1>3, <2>2 DEF TypeOK
    <3>2. Promise!Opened(stream, routed + 1, j, routed + 1)
      BY <1>2, <2>1, OpenedStep DEF Event
    <3>3. routed + 1 \in 1..routed + 1 /\ routed + 1 - 1 = routed BY <1>2
    <3>4. block_modes'[j] = ModeFor(stream, routed + 1)
      <4>1. CASE Promise!Thinking(stream, routed + 1)
        BY <3>1, <4>1 DEF ModeFor
      <4>2. CASE ~Promise!Thinking(stream, routed + 1)
        BY <1>2, <3>1, <4>2 DEF ModeFor, Promise!Thinking
      <4> QED BY <4>1, <4>2
    <3> QED BY <3>2, <3>3, <3>4
  <2>5. \A i \in Index : Tracked(i) BY <2>3, <2>4
  <2> QED BY <1>2, <1>4, <2>2, <2>5 DEF ModesTrackStream
<1>9. CASE BlockStop
  <2> DEFINE j == Event.index
  <2>1. /\ Event.type = "stop" /\ next_forwarded_index' = next_forwarded_index
        /\ block_modes' = [block_modes EXCEPT ![j] = NoMode]
    BY <1>9 DEF BlockStop
  <2>2. Promise!Rank(stream, routed + 1) = Promise!Rank(stream, routed)
    BY <1>2, <2>1, RankStep DEF Event, Promise!Starts
  <2>3. ASSUME NEW i \in Index, i # j PROVE Tracked(i)
    <3>1. block_modes'[i] = block_modes[i] BY <2>1, <2>3 DEF TypeOK
    <3>2. ~Promise!Bounds(stream, routed + 1, i)
      BY <2>3 DEF Promise!Bounds, Event
    <3> QED BY <1>6, <3>1, <3>2
  <2>4. Tracked(j)
    <3>1. block_modes'[j] = NoMode BY <1>3, <2>1 DEF TypeOK
    <3>2. \A p \in 1..routed + 1 : ~Promise!Opened(stream, routed + 1, j, p)
      BY <1>2, <2>1, OpenedStep DEF Event
    <3> QED BY <3>1, <3>2
  <2>5. \A i \in Index : Tracked(i) BY <2>3, <2>4
  <2> QED BY <1>2, <1>4, <1>5, <2>1, <2>2, <2>5 DEF ModesTrackStream
<1> QED BY <1>7, <1>8, <1>9 DEF Route

\* No step leaves the modes behind the stream.
LEMMA ModesStep == TypeOK /\ ModesTrackStream /\ [Next]_vars => ModesTrackStream'
<1> SUFFICES ASSUME TypeOK, ModesTrackStream, [Next]_vars
             PROVE  ModesTrackStream'
  OBVIOUS
<1> USE DEF input, filter
<1>1. CASE Frame BY <1>1, ModesKept DEF Frame, ModesTrackStream
<1>2. CASE NextFrame BY <1>2, ModesKept DEF NextFrame, ModesTrackStream
<1>3. CASE Route BY <1>3, ModesRoute
<1>4. CASE Send BY <1>4, ModesKept DEF Send
<1>5. CASE SendFails BY <1>5, ModesKept DEF SendFails
<1>6. CASE StreamEnd BY <1>6, ModesKept DEF StreamEnd
<1>7. CASE StreamError BY <1>7, ModesKept DEF StreamError
<1>8. CASE ClientRead BY <1>8, ModesKept DEF ClientRead, ModesTrackStream
<1>9. CASE ClientClose BY <1>9, ModesKept DEF ClientClose, ModesTrackStream
<1>10. CASE UNCHANGED vars BY <1>10, ModesKept DEF vars, ModesTrackStream
<1> QED BY <1>1, <1>2, <1>3, <1>4, <1>5, <1>6, <1>7, <1>8, <1>9, <1>10
        DEF Next, Task

\* No block is open, and none was forwarded, before the first event.
LEMMA ModesInit == Init => ModesTrackStream
<1> SUFFICES ASSUME Init PROVE ModesTrackStream OBVIOUS
<1>1. Promise!Rank(stream, 0) = 0
  <2>1. Promise!ForwardedStarts(stream, 0) = {} BY DEF Promise!ForwardedStarts
  <2>2. Cardinality({}) = 0 BY FS_EmptySet
  <2> QED BY <2>1, <2>2, SameCardinality DEF Promise!Rank
<1>2. \A i \in Index : block_modes[i] = NoMode BY DEF Init
<1> QED BY <1>1, <1>2 DEF Init, ModesTrackStream

-----------------------------------------------------------------------------
(* The promise *)

\* Taking an event is a step of the filter: what the handler decides from the
\* modes is what the stream says of the event.
LEMMA RouteImplements ==
  ASSUME TypeOK, ModesTrackStream, Route
  PROVE  Promise!Filter
<1>1. Complete /\ Take /\ pc = "route"
  BY DEF Route, PassOther, BlockStart, BlockDelta, BlockStop, Take
<1>2. /\ routed + 1 \in 1..Len(stream) /\ stream \in Seq(Promise!Event)
      /\ Event \in Promise!Event /\ Event.index \in Index /\ Mode \in Modes
  BY <1>1, NextEvent
<1>3. /\ routed \in Nat /\ routed' = routed + 1 /\ stream' = stream
      /\ sent' = sent
  BY <1>1 DEF TypeOK, Take, input
<1>4. routed < Len(stream) BY <1>2, <1>3
<1>5. /\ sent \in Seq(Item)
      /\ pending = <<>>
      /\ sent \o pending = sent
  <2>1. sent \in Seq(Item) BY DEF TypeOK
  <2>2. pending = <<>> BY <1>1 DEF ModesTrackStream
  <2>3. sent \o <<>> = sent BY <2>1, ConcatEmptySeq
  <2> QED BY <2>1, <2>2, <2>3
<1>6. Event = stream[routed + 1] BY DEF Event
<1> DEFINE k == routed + 1
           item(n) == [src |-> k, index |-> n]
<1>7. ASSUME ~Promise!Stripped(stream, k), Pass(Promise!Renumbered(stream, k))
      PROVE  Promise!Filter
  <2>1. pending' = <<item(Promise!Renumbered(stream, k))>> BY <1>7 DEF Pass
  <2>2. sent' \o pending' = Append(sent \o pending, item(Promise!Renumbered(stream, k)))
    BY <1>3, <1>5, <2>1
  <2> QED BY <1>3, <1>4, <1>7, <2>2 DEF Promise!Filter
<1>8. ASSUME Promise!Stripped(stream, k), Strip
      PROVE  Promise!Filter
  <2>1. sent' \o pending' = sent \o pending
    BY <1>3, <1>5, <1>8 DEF Strip
  <2> QED BY <1>3, <1>4, <1>8, <2>1 DEF Promise!Filter
<1>9. \/ /\ Mode = NoMode
         /\ \A p : ~Promise!Opened(stream, routed, Event.index, p)
      \/ \E p \in 1..routed : /\ Promise!Opened(stream, routed, Event.index, p)
                              /\ Mode = ModeFor(stream, p)
  BY <1>2 DEF ModesTrackStream, Mode, Promise!Opened
<1>10. CASE PassOther
  <2>1. \A p \in 1..k : ~Promise!Owns(stream, p, k)
    BY <1>3, <1>6, <1>10, Ownership DEF PassOther
  <2>2. /\ ~Promise!Stripped(stream, k)
        /\ Promise!Renumbered(stream, k) = Event.index
    BY <1>3, <1>6, <2>1, Routing
  <2> QED BY <1>7, <1>10, <2>2 DEF PassOther
<1>11. CASE BlockStart
  <2>1. Promise!Starts(stream, k) BY <1>6, <1>11 DEF BlockStart, Promise!Starts
  <2>2. k \in 1..k /\ Promise!Owns(stream, k, k) BY <1>3, <2>1, Ownership
  <2>3. /\ Promise!Stripped(stream, k) <=> Promise!Thinking(stream, k)
        /\ Promise!Renumbered(stream, k) = Promise!Rank(stream, k - 1)
    BY <1>3, <2>2, Routing
  <2>4. k - 1 = routed BY <1>3
  <2>5. Promise!Renumbered(stream, k) = next_forwarded_index
    BY <2>3, <2>4 DEF ModesTrackStream
  <2>6. CASE Event.kind = "thinking"
    BY <1>6, <1>8, <1>11, <2>3, <2>6 DEF BlockStart, Promise!Thinking
  <2>7. CASE Event.kind # "thinking"
    BY <1>6, <1>7, <1>11, <2>3, <2>5, <2>7 DEF BlockStart, Promise!Thinking
  <2> QED BY <2>6, <2>7
<1>12. CASE BlockDelta \/ BlockStop
  <2>1. Event.type \in {"delta", "stop"} BY <1>12 DEF BlockDelta, BlockStop
  <2>2. /\ Mode.mode = "strip" => Strip
        /\ Mode.mode # "strip" =>
             Pass(IF Mode.mode = "forward" THEN Mode.forwarded_index
                  ELSE Event.index)
    BY <1>12 DEF BlockDelta, BlockStop
  <2>3. \A p : Promise!Owns(stream, p, k)
                 <=> Promise!Opened(stream, routed, Event.index, p)
    BY <1>3, <1>6, <2>1, Ownership
  <2>4. CASE /\ Mode = NoMode
             /\ \A p : ~Promise!Opened(stream, routed, Event.index, p)
    <3>1. /\ ~Promise!Stripped(stream, k)
          /\ Promise!Renumbered(stream, k) = Event.index
      BY <1>3, <1>6, <2>3, <2>4, Routing
    <3>2. Pass(Event.index) BY <2>2, <2>4 DEF NoMode
    <3> QED BY <1>7, <3>1, <3>2
  <2>5. ASSUME NEW p \in 1..routed,
               Promise!Opened(stream, routed, Event.index, p),
               Mode = ModeFor(stream, p)
        PROVE  Promise!Filter
    <3>1. p \in 1..k BY <1>3
    <3>2. /\ Promise!Stripped(stream, k) <=> Promise!Thinking(stream, p)
          /\ Promise!Renumbered(stream, k) = Promise!Rank(stream, p - 1)
      BY <1>3, <2>3, <2>5, <3>1, Routing
    <3>3. CASE Promise!Thinking(stream, p)
      <4>1. Mode.mode = "strip" BY <2>5, <3>3 DEF ModeFor, StripMode
      <4> QED BY <1>8, <2>2, <3>2, <3>3, <4>1
    <3>4. CASE ~Promise!Thinking(stream, p)
      <4>1. Mode = ForwardMode(Promise!Rank(stream, p - 1))
        BY <2>5, <3>4 DEF ModeFor
      <4>2. Pass(Promise!Rank(stream, p - 1)) BY <2>2, <4>1 DEF ForwardMode
      <4> QED BY <1>7, <3>2, <3>4, <4>2
    <3> QED BY <3>3, <3>4
  <2> QED BY <1>9, <2>4, <2>5
<1> QED BY <1>10, <1>11, <1>12 DEF Route

\* Every other step leaves what was taken and what was sent as they are: an
\* event that enters the channel is only no longer pending.
LEMMA StepImplements ==
  TypeOK /\ ModesTrackStream /\ [Next]_vars => [Promise!Next]_(Promise!vars)
<1> SUFFICES ASSUME TypeOK, ModesTrackStream, [Next]_vars
             PROVE  Promise!Next \/ UNCHANGED Promise!vars
  OBVIOUS
<1>1. CASE Route BY <1>1, RouteImplements DEF Promise!Next
<1>2. CASE Send
  <2>1. /\ sent' = sent \o pending /\ pending' = <<>>
        /\ stream' = stream /\ routed' = routed
    BY <1>2 DEF Send, input
  <2>2. sent \o pending \in Seq(Item) BY ConcatProperties DEF TypeOK
  <2>3. sent' \o pending' = sent \o pending BY <2>1, <2>2, ConcatEmptySeq
  <2> QED BY <2>1, <2>3 DEF Promise!vars
<1>3. ASSUME /\ stream' = stream /\ routed' = routed
             /\ sent' = sent /\ pending' = pending
      PROVE  UNCHANGED Promise!vars
  BY <1>3 DEF Promise!vars
<1>4. CASE \/ Frame \/ NextFrame \/ SendFails \/ StreamEnd \/ StreamError
           \/ ClientRead \/ ClientClose \/ UNCHANGED vars
  BY <1>3, <1>4 DEF Frame, NextFrame, SendFails, StreamEnd, StreamError,
                    ClientRead, ClientClose, vars, input
<1> QED BY <1>1, <1>2, <1>4 DEF Next, Task

\* The filter task implements its promise: for every stream the upstream may
\* send, however it is cut into frames, whatever the capacity of the channel
\* and whenever the client reads, leaves or the upstream fails.
THEOREM FilterImplemented == Spec => ImplementsFilter
<1>1. Init => Promise!Init
  <2> SUFFICES ASSUME Init PROVE Promise!Init OBVIOUS
  <2>1. sent \o pending = <<>> BY ConcatEmptySeq, EmptySeq DEF Init
  <2> QED BY <2>1 DEF Init, Promise!Init
<1> QED BY <1>1, TypeInit, TypeStep, ModesInit, ModesStep, StepImplements, PTL
        DEF Spec, ImplementsFilter, Promise!Spec

-----------------------------------------------------------------------------
(* Contiguous indices *)

\* The block starts among the first n events forwarded.
StartsIn(s, q, n) == {j \in 1..n : Promise!Starts(s, q[j].src)}

\* The rank of the stream is the number of block starts forwarded.
RankIsCount ==
  LET q == sent \o pending
  IN  Promise!Rank(stream, routed) = Cardinality(StartsIn(stream, q, Len(q)))

\* A step of the filter keeps the count, and gives a block start the count as
\* its index.
LEMMA ContiguousStep ==
  ASSUME TypeOK, RankIsCount, ForwardedContiguous,
         [Promise!Next]_(Promise!vars)
  PROVE  RankIsCount' /\ ForwardedContiguous'
<1> DEFINE q == sent \o pending
           k == routed + 1
<1>1. CASE UNCHANGED Promise!vars
  <2>1. stream' = stream /\ routed' = routed /\ q' = q
    BY <1>1 DEF Promise!vars
  <2> QED BY <2>1 DEF RankIsCount, ForwardedContiguous, Promise!ForwardedContiguous
<1>2. CASE Promise!Filter
  <2>1. /\ routed \in Nat /\ k \in Nat /\ routed' = k /\ stream' = stream
        /\ Promise!Rank(stream, routed) = Cardinality(StartsIn(stream, q, Len(q)))
        /\ q' = IF Promise!Stripped(stream, k) THEN q
                ELSE Append(q, [src |-> k, index |-> Promise!Renumbered(stream, k)])
    BY <1>2 DEF TypeOK, RankIsCount, Promise!Filter
  <2>2. q \in Seq(Item) /\ Len(q) \in Nat
    <3>1. q \in Seq(Item) BY ConcatProperties DEF TypeOK
    <3> QED BY <3>1, LenProperties
  <2>3. Promise!Starts(stream, k) =>
          /\ Promise!Stripped(stream, k) <=> Promise!Thinking(stream, k)
          /\ Promise!Renumbered(stream, k) = Promise!Rank(stream, routed)
    <3>1. ASSUME Promise!Starts(stream, k) PROVE Promise!Owns(stream, k, k)
      BY <2>1, <3>1, Ownership
    <3>2. k \in 1..k /\ k - 1 = routed BY <2>1
    <3> QED BY <2>1, <3>1, <3>2, Routing
  <2>4. CASE Promise!Stripped(stream, k)
    <3>1. q' = q BY <2>1, <2>4
    <3>2. Promise!Rank(stream, k) = Promise!Rank(stream, routed)
      BY <2>1, <2>3, <2>4, RankStep
    <3> QED BY <2>1, <3>1, <3>2
            DEF RankIsCount, ForwardedContiguous, Promise!ForwardedContiguous
  <2>5. CASE ~Promise!Stripped(stream, k)
    <3> DEFINE x == [src |-> k, index |-> Promise!Renumbered(stream, k)]
    <3>1. q' = Append(q, x) BY <2>1, <2>5
    <3> HIDE DEF q
    <3>2. /\ Len(q') = Len(q) + 1 /\ DOMAIN q' = 1..Len(q) + 1
          /\ q'[Len(q) + 1] = x
          /\ \A i \in 1..Len(q) : q'[i] = q[i]
      <4>1. q \in Seq(Item \cup {x}) BY <2>2
      <4> QED BY <2>2, <3>1, <4>1, AppendProperties
    <3>3. \A n \in 0..Len(q) : StartsIn(stream, q', n) = StartsIn(stream, q, n)
      BY <2>2, <3>2 DEF StartsIn
    <3>4. IsFiniteSet(StartsIn(stream, q, Len(q)))
      <4>1. StartsIn(stream, q, Len(q)) \subseteq 1..Len(q) BY DEF StartsIn
      <4>2. 1 \in Int /\ Len(q) \in Int BY <2>2 DEF q
      <4>3. IsFiniteSet(1..Len(q)) BY <4>2, FS_Interval
      <4> QED BY <4>1, <4>3, FS_Subset
    <3>5. Promise!Rank(stream, k) = Cardinality(StartsIn(stream, q', Len(q')))
      <4>1. CASE Promise!Starts(stream, k)
        <5>1. Promise!Rank(stream, k) = Promise!Rank(stream, routed) + 1
          BY <2>1, <2>3, <2>5, <4>1, RankStep
        <5>2. StartsIn(stream, q', Len(q')) = StartsIn(stream, q, Len(q)) \cup {Len(q) + 1}
          BY <2>2, <3>2, <4>1 DEF StartsIn
        <5>3. Len(q) + 1 \notin StartsIn(stream, q, Len(q)) BY <2>2 DEF StartsIn
        <5> QED BY <2>1, <3>4, <5>1, <5>2, <5>3, FS_AddElement
      <4>2. CASE ~Promise!Starts(stream, k)
        <5>1. Promise!Rank(stream, k) = Promise!Rank(stream, routed)
          BY <2>1, <4>2, RankStep
        <5>2. StartsIn(stream, q', Len(q')) = StartsIn(stream, q, Len(q))
          BY <2>2, <3>2, <4>2 DEF StartsIn
        <5> QED BY <2>1, <5>1, <5>2
      <4> QED BY <4>1, <4>2
    <3>6. RankIsCount' BY <2>1, <3>5 DEF RankIsCount, q
    <3>7. \A i \in 1..Len(q) : Promise!Starts(stream, q[i].src) =>
             q[i].index = Cardinality(StartsIn(stream, q, i - 1))
      <4>1. DOMAIN q = 1..Len(q) BY <2>2
      <4> QED BY <4>1, SameCardinality
              DEF ForwardedContiguous, Promise!ForwardedContiguous, StartsIn, q
    <3>8. \A i \in 1..Len(q) + 1 : Promise!Starts(stream, q'[i].src) =>
             q'[i].index = Cardinality(StartsIn(stream, q', i - 1))
      <4>1. ASSUME NEW i \in 1..Len(q), Promise!Starts(stream, q'[i].src)
            PROVE  q'[i].index = Cardinality(StartsIn(stream, q', i - 1))
        BY <2>2, <3>2, <3>3, <3>7, <4>1
      <4>2. ASSUME Promise!Starts(stream, k)
            PROVE  x.index = Cardinality(StartsIn(stream, q', Len(q)))
        BY <2>1, <2>2, <2>3, <3>3, <4>2
      <4>3. ASSUME NEW i \in 1..Len(q) + 1, i \notin 1..Len(q),
                   Promise!Starts(stream, q'[i].src)
            PROVE  q'[i].index = Cardinality(StartsIn(stream, q', i - 1))
        <5>1. i = Len(q) + 1 /\ i - 1 = Len(q) BY <2>2, <4>3
        <5>2. q'[i] = x /\ x.src = k BY <3>2, <5>1
        <5> QED BY <4>2, <4>3, <5>1, <5>2
      <4> QED BY <4>1, <4>3
    <3>9. ForwardedContiguous'
      BY <2>1, <3>2, <3>8, SameCardinality
         DEF ForwardedContiguous, Promise!ForwardedContiguous, StartsIn, q
    <3> QED BY <3>6, <3>9
  <2> QED BY <2>4, <2>5
<1> QED BY <1>1, <1>2 DEF Promise!Next

\* The count starts at zero.
LEMMA ContiguousInit == Init => RankIsCount /\ ForwardedContiguous
<1> SUFFICES ASSUME Init PROVE RankIsCount /\ ForwardedContiguous OBVIOUS
<1>1. sent \o pending = <<>> BY ConcatEmptySeq, EmptySeq DEF Init
<1>2. Promise!Rank(stream, 0) = 0
  BY ModesInit DEF Init, ModesTrackStream
<1>3. StartsIn(stream, <<>>, 0) = {} BY DEF StartsIn
<1>4. Cardinality({}) = 0 BY FS_EmptySet
<1>5. Len(<<>>) = 0 /\ DOMAIN <<>> = {} OBVIOUS
<1> QED BY <1>1, <1>2, <1>3, <1>4, <1>5
        DEF Init, RankIsCount, ForwardedContiguous, Promise!ForwardedContiguous

\* The blocks that reach the client are numbered without a gap, on every
\* stream, however many thinking blocks were taken out of it.
THEOREM IndicesContiguous == Spec => []ForwardedContiguous
<1> QED BY TypeInit, TypeStep, ModesInit, ModesStep, StepImplements,
           ContiguousInit, ContiguousStep, PTL DEF Spec

\* Every variable of the filter task keeps its type, and the channel never
\* holds more than its capacity.
THEOREM FilterTypeCorrect == Spec => []TypeOK
<1> QED BY TypeInit, TypeStep, PTL DEF Spec

-----------------------------------------------------------------------------
(* The thinking that is diverted *)

\* The thinking of the block that p starts, among the first n events; that of the
\* block that event k stops; the thinking blocks that have ended and had text.
Items(q) == {q[j] : j \in DOMAIN q}
Ascending(q) == \A i, j \in DOMAIN q : i < j => q[i] < q[j]
TextOf(s, p, n) ==
  {d \in p + 1..n : s[d].type = "delta" /\ Promise!Thinking(s, d) /\ Promise!Owns(s, p, d)}
TextEnding(s, k) == TextOf(s, CHOOSE p \in 1..k : Promise!Owns(s, p, k), k - 1)
EndedIn(s, n) ==
  {k \in 1..n : s[k].type = "stop" /\ Promise!Stripped(s, k) /\ TextEnding(s, k) # {}}
NthOf(S, n) == CHOOSE k \in S : Cardinality({e \in S : e < k}) = n - 1

OneByOne(s) ==
  \A p, q \in DOMAIN s :
    p < q /\ Promise!Starts(s, p) /\ Promise!Starts(s, q) =>
      \E k \in p..q : s[k].type = "stop" /\ s[k].index = s[p].index

\* The buffer has the text so far of the thinking block that is open.
OpenThinking(s, n, p) ==
  p \in 1..n /\ Promise!Opened(s, n, s[p].index, p) /\ Promise!Thinking(s, p)
BufferKept(s, n, b) ==
  /\ \A p : OpenThinking(s, n, p) => Items(b) = TextOf(s, p, n)
  /\ (\A p : ~OpenThinking(s, n, p)) => b = <<>>
  /\ Ascending(b) /\ \A j \in DOMAIN b : b[j] <= n

\* The side log has the blocks that have ended.
LogKept(s, n, l) ==
  /\ Len(l) = Cardinality(EndedIn(s, n))
  /\ \A j \in 1..Len(l) : Items(l[j]) = TextEnding(s, NthOf(EndedIn(s, n), j)) /\ Ascending(l[j])

NothingStripped(q) == \A i \in DOMAIN q : ~Promise!Stripped(stream, q[i].src)

DivertInv ==
  /\ NothingStripped(sent \o pending)
  /\ OneByOne(stream) => BufferKept(stream, routed, thinking_buffer)
  /\ OneByOne(stream) /\ session /\ faults = 0 => LogKept(stream, routed, log)

\* The nth of a set, when a greater one is added.
LEMMA NthAdded ==
  ASSUME NEW m \in Nat, NEW S, S \subseteq 1..m, NEW T, T = S \cup {m + 1}
  PROVE  /\ Cardinality(S) \in Nat /\ Cardinality(T) = Cardinality(S) + 1
         /\ \A n \in 1..Cardinality(S) : NthOf(T, n) = NthOf(S, n)
         /\ NthOf(T, Cardinality(S) + 1) = m + 1
<1> DEFINE k == m + 1
<1>a. \A e \in S : e \in Nat /\ e < k /\ ~(e < e) OBVIOUS
<1>1. IsFiniteSet(S)
  <2>1. IsFiniteSet(1..m) BY FS_Interval
  <2> QED BY <2>1, FS_Subset
<1>2. Cardinality(S) \in Nat BY <1>1, FS_CardinalityType
<1>3. k \notin S OBVIOUS
<1>4. Cardinality(T) = Cardinality(S) + 1 BY <1>1, <1>3, FS_AddElement
<1>5. {e \in T : e < k} = S
  <2>1. ~(k < k) OBVIOUS
  <2>2. \A e \in T : e < k <=> e \in S BY <2>1, <1>a
  <2>3. S \subseteq T OBVIOUS
  <2> QED BY <2>2, <2>3
<1>6. \A x \in S : {e \in T : e < x} = {e \in S : e < x} OBVIOUS
<1>7. ASSUME NEW x \in S PROVE Cardinality({e \in S : e < x}) < Cardinality(S)
  <2> DEFINE B == {e \in S : e < x}
  <2>1. B \in SUBSET S /\ x \notin B BY <1>7, <1>a
  <2>2. B # S BY <2>1
  <2> HIDE DEF B
  <2>3. IsFiniteSet(B) /\ Cardinality(B) <= Cardinality(S) /\ Cardinality(B) # Cardinality(S)
    BY <2>1, <2>2, <1>1, FS_Subset
  <2>4. Cardinality(B) \in Nat BY <2>3, FS_CardinalityType
  <2>5. Cardinality(B) < Cardinality(S) BY <2>3, <2>4, <1>2
  <2> QED BY <2>5 DEF B
<1>8. ASSUME NEW n \in 1..Cardinality(S) PROVE NthOf(T, n) = NthOf(S, n)
  <2>1. \A x : x \in T /\ Cardinality({e \in T : e < x}) = n - 1
               <=> x \in S /\ Cardinality({e \in S : e < x}) = n - 1
    <3>1. ASSUME NEW x \in S
          PROVE  Cardinality({e \in T : e < x}) = n - 1 <=> Cardinality({e \in S : e < x}) = n - 1
      BY <1>6, <3>1
    <3>2. Cardinality({e \in T : e < k}) # n - 1 BY <1>2, <1>5
    <3> QED BY <3>1, <3>2
  <2> QED BY <2>1 DEF NthOf
<1>9. NthOf(T, Cardinality(S) + 1) = k
  <2>1. \A x \in T : Cardinality({e \in T : e < x}) = (Cardinality(S) + 1) - 1 <=> x = k
    <3>1. ASSUME NEW x \in S PROVE Cardinality({e \in T : e < x}) # (Cardinality(S) + 1) - 1
      <4>1. Cardinality({e \in S : e < x}) < Cardinality(S) BY <1>7
      <4>2. Cardinality({e \in T : e < x}) = Cardinality({e \in S : e < x}) BY <1>6
      <4>3. (Cardinality(S) + 1) - 1 = Cardinality(S) BY <1>2
      <4>4. IsFiniteSet({e \in S : e < x}) BY <1>1, FS_Subset
      <4>5. Cardinality({e \in S : e < x}) \in Nat BY <4>4, FS_CardinalityType
      <4> QED BY <4>1, <4>2, <4>3, <4>5, <1>2
    <3>2. Cardinality({e \in T : e < k}) = (Cardinality(S) + 1) - 1
      <4>1. (Cardinality(S) + 1) - 1 = Cardinality(S) BY <1>2
      <4> QED BY <4>1, <1>5
    <3> QED BY <3>1, <3>2
  <2>2. k \in T OBVIOUS
  <2> QED BY <2>1, <2>2 DEF NthOf
<1> QED BY <1>2, <1>4, <1>8, <1>9

\* What one more event adds to the text of a block.
LEMMA TextStep ==
  ASSUME NEW s, NEW n \in Nat, NEW p \in 1..n
  PROVE  TextOf(s, p, n + 1) =
           IF s[n + 1].type = "delta" /\ Promise!Thinking(s, n + 1) /\ Promise!Owns(s, p, n + 1)
           THEN TextOf(s, p, n) \cup {n + 1} ELSE TextOf(s, p, n)
<1>1. p + 1..n + 1 = (p + 1..n) \cup {n + 1} /\ n + 1 \notin p + 1..n OBVIOUS
<1> QED BY <1>1 DEF TextOf

LEMMA EmptyText == ASSUME NEW s, NEW n \in Nat PROVE TextOf(s, n, n) = {}
BY DEF TextOf

\* What one more event adds to the blocks that have ended.
LEMMA EndedStep ==
  ASSUME NEW s, NEW n \in Nat
  PROVE  EndedIn(s, n + 1) =
           IF /\ s[n + 1].type = "stop" /\ Promise!Stripped(s, n + 1)
              /\ TextEnding(s, n + 1) # {}
           THEN EndedIn(s, n) \cup {n + 1} ELSE EndedIn(s, n)
<1>1. 1..n + 1 = (1..n) \cup {n + 1} /\ n + 1 \notin 1..n OBVIOUS
<1> QED BY <1>1 DEF EndedIn

\* Of blocks that come one after the other, one is open at a time.
LEMMA OneOpen ==
  ASSUME NEW s, OneByOne(s), NEW n \in Nat, 1..n \subseteq DOMAIN s,
         NEW p \in 1..n, NEW q \in 1..n,
         Promise!Opened(s, n, s[p].index, p), Promise!Starts(s, q), p <= q
  PROVE  p = q
<1> SUFFICES ASSUME p < q PROVE FALSE OBVIOUS
<1>1. PICK k \in p..q : s[k].type = "stop" /\ s[k].index = s[p].index
  BY DEF OneByOne, Promise!Opened
<1>2. k # p BY <1>1 DEF Promise!Opened, Promise!Starts
<1>3. k \in p + 1..n BY <1>1, <1>2
<1> QED BY <1>1, <1>3 DEF Promise!Opened, Promise!Bounds

\* What is appended is the last of a sequence.
LEMMA AppendItems ==
  ASSUME NEW S, NEW q \in Seq(S), NEW x \in S
  PROVE  /\ Items(Append(q, x)) = Items(q) \cup {x}
         /\ Len(Append(q, x)) = Len(q) + 1 /\ Append(q, x)[Len(q) + 1] = x
         /\ \A j \in 1..Len(q) : Append(q, x)[j] = q[j]
         /\ Append(q, x) # <<>>
<1>1. DOMAIN q = 1..Len(q) /\ DOMAIN Append(q, x) = 1..Len(q) + 1 /\ Len(q) \in Nat OBVIOUS
<1>2. /\ \A j \in 1..Len(q) : Append(q, x)[j] = q[j]
      /\ Append(q, x)[Len(q) + 1] = x
  OBVIOUS
<1>3. 1..Len(q) + 1 = (1..Len(q)) \cup {Len(q) + 1} BY <1>1
<1>4. Items(Append(q, x)) = Items(q) \cup {x} BY <1>1, <1>2, <1>3 DEF Items
<1> QED BY <1>1, <1>2, <1>4

LEMMA NoItems ==
  ASSUME NEW S, NEW q \in Seq(S) PROVE Items(q) = {} <=> q = <<>>
<1>1. DOMAIN q = 1..Len(q) /\ Len(q) \in Nat /\ (q = <<>> <=> Len(q) = 0) OBVIOUS
<1>2. ASSUME q # <<>> PROVE Items(q) # {}
  <2>1. 1 \in DOMAIN q BY <1>1, <1>2
  <2> QED BY <2>1 DEF Items
<1>3. ASSUME q = <<>> PROVE Items(q) = {}
  <2>1. DOMAIN q = {} BY <1>1, <1>3
  <2> QED BY <2>1 DEF Items
<1> QED BY <1>2, <1>3

\* A block is open after an event that neither stops nor starts one exactly if it
\* was before, and its text grows by what it owns.
LEMMA OpenKept ==
  ASSUME NEW s, NEW n \in Nat, s[n + 1].type \in {"delta", "other"}, NEW p
  PROVE  OpenThinking(s, n + 1, p) <=> OpenThinking(s, n, p)
<1> DEFINE i == s[p].index
<1>1. ~Promise!Bounds(s, n + 1, i) BY DEF Promise!Bounds
<1>2. Promise!Opened(s, n + 1, i, p) <=> Promise!Opened(s, n, i, p)
  <2> HIDE DEF i
  <2> QED BY <1>1, OpenedStep
<1>3. Promise!Opened(s, n, i, p) => p \in 1..n /\ p \in 1..n + 1
  BY DEF Promise!Opened
<1> QED BY <1>2, <1>3 DEF OpenThinking

\* A start finds no block open, and opens its own.
LEMMA OpenStarted ==
  ASSUME NEW s, OneByOne(s), NEW n \in Nat, 1..n + 1 \subseteq DOMAIN s,
         Promise!Starts(s, n + 1), NEW p
  PROVE  /\ ~OpenThinking(s, n, p)
         /\ OpenThinking(s, n + 1, p) <=> p = n + 1 /\ Promise!Thinking(s, n + 1)
<1>1. ~OpenThinking(s, n, p)
  <2> SUFFICES ASSUME OpenThinking(s, n, p) PROVE FALSE OBVIOUS
  <2>1. p \in 1..n /\ Promise!Opened(s, n, s[p].index, p) /\ Promise!Starts(s, p)
    BY DEF OpenThinking, Promise!Opened
  <2>2. PICK k \in p..n + 1 : s[k].type = "stop" /\ s[k].index = s[p].index
    BY <2>1 DEF OneByOne
  <2>3. k # p /\ k # n + 1 BY <2>1, <2>2 DEF Promise!Starts
  <2>4. k \in p + 1..n BY <2>1, <2>2, <2>3
  <2> QED BY <2>1, <2>2, <2>4 DEF Promise!Opened, Promise!Bounds
<1>2. OpenThinking(s, n + 1, p) <=> p = n + 1 /\ Promise!Thinking(s, n + 1)
  <2>1. ASSUME OpenThinking(s, n + 1, p), p # n + 1 PROVE FALSE
    <3>1. p \in 1..n /\ Promise!Opened(s, n + 1, s[p].index, p) BY <2>1 DEF OpenThinking
    <3>2. Promise!Opened(s, n, s[p].index, p) BY <3>1 DEF Promise!Opened
    <3> QED BY <1>1, <2>1, <3>1, <3>2 DEF OpenThinking
  <2>2. Promise!Opened(s, n + 1, s[n + 1].index, n + 1) BY OpenedStep
  <2>3. n + 1 \in 1..n + 1 OBVIOUS
  <2> QED BY <2>1, <2>2, <2>3 DEF OpenThinking
<1> QED BY <1>1, <1>2

\* A stop closes the block it belongs to, and no other.
LEMMA OpenStopped ==
  ASSUME NEW s, NEW n \in Nat, s[n + 1].type = "stop", NEW p
  PROVE  OpenThinking(s, n + 1, p) <=>
           OpenThinking(s, n, p) /\ s[p].index # s[n + 1].index
<1> DEFINE i == s[p].index
<1>1. CASE i = s[n + 1].index
  <2>1. ~Promise!Opened(s, n + 1, i, p)
    BY <1>1 DEF Promise!Opened, Promise!Bounds, Promise!Starts
  <2> QED BY <1>1, <2>1 DEF OpenThinking
<1>2. CASE i # s[n + 1].index
  <2>1. ~Promise!Bounds(s, n + 1, i) BY <1>2 DEF Promise!Bounds
  <2>2. Promise!Opened(s, n + 1, i, p) <=> Promise!Opened(s, n, i, p)
    <3> HIDE DEF i
    <3> QED BY <2>1, OpenedStep
  <2>3. Promise!Opened(s, n, i, p) => p \in 1..n /\ p \in 1..n + 1
    BY DEF Promise!Opened
  <2> QED BY <1>2, <2>2, <2>3 DEF OpenThinking
<1> QED BY <1>1, <1>2

\* The mode of an index says whether the block open there is a thinking one.
LEMMA ModeOpen ==
  ASSUME TypeOK, ModesTrackStream, NEW i \in Index
  PROVE  /\ block_modes[i].mode = "strip" =>
              \E p \in 1..routed : OpenThinking(stream, routed, p) /\ stream[p].index = i
         /\ block_modes[i].mode # "strip" =>
              \A p : OpenThinking(stream, routed, p) => stream[p].index # i
<1>1. \A p : Promise!Opened(stream, routed, i, p) => p \in 1..routed /\ stream[p].index = i
  BY DEF Promise!Opened
<1>2. CASE \A p \in 1..routed : ~Promise!Opened(stream, routed, i, p)
  <2>1. block_modes[i] = NoMode BY <1>2 DEF ModesTrackStream
  <2> QED BY <1>2, <2>1 DEF NoMode, OpenThinking
<1>3. ASSUME NEW p \in 1..routed, Promise!Opened(stream, routed, i, p)
      PROVE  /\ block_modes[i] = ModeFor(stream, p)
             /\ stream[p].index = i
             /\ \A q : Promise!Opened(stream, routed, i, q) => q = p
  <2>1. \A q : Promise!Opened(stream, routed, i, q) => q = p
    <3>1. routed \in Nat BY DEF TypeOK
    <3> QED BY <1>3, <3>1, OpenedUnique
  <2> QED BY <2>1, <1>1, <1>3 DEF ModesTrackStream
<1>4. ASSUME NEW p \in 1..routed, Promise!Opened(stream, routed, i, p)
      PROVE  /\ block_modes[i].mode = "strip" <=> Promise!Thinking(stream, p)
             /\ \A q : OpenThinking(stream, routed, q) /\ stream[q].index = i => q = p
  <2>1. block_modes[i] = ModeFor(stream, p) BY <1>3, <1>4
  <2>2. block_modes[i].mode = "strip" <=> Promise!Thinking(stream, p)
    BY <2>1 DEF ModeFor, StripMode, ForwardMode
  <2>3. \A q : Promise!Opened(stream, routed, i, q) => q = p BY <1>3, <1>4
  <2> QED BY <2>2, <2>3 DEF OpenThinking
<1> QED BY <1>1, <1>2, <1>4, <1>3 DEF OpenThinking

\* What the handlers keep of the text is what the open block has.
LEMMA BufferStep ==
  ASSUME TypeOK, ModesTrackStream, Route, OneByOne(stream),
         BufferKept(stream, routed, thinking_buffer)
  PROVE  BufferKept(stream, routed + 1, thinking_buffer')
<1> DEFINE s == stream
           n == routed
           k == routed + 1
           b == thinking_buffer
<1>1. Complete /\ Take
  BY DEF Route, PassOther, BlockStart, BlockDelta, BlockStop, Take
<1>2. /\ n \in Nat /\ k \in Nat /\ k \in 1..Len(s) /\ s \in Seq(Promise!Event)
      /\ Event.index \in Index /\ Event = s[k]
  BY <1>1, NextEvent DEF TypeOK, Event
<1>3. 1..k \subseteq DOMAIN s /\ 1..n \subseteq DOMAIN s BY <1>2
<1>4. b \in Seq(Nat) /\ \A j \in DOMAIN b : b[j] \in Nat BY SMTT(30) DEF TypeOK
<1>5. /\ \A p : OpenThinking(s, n, p) => Items(b) = TextOf(s, p, n)
      /\ (\A p : ~OpenThinking(s, n, p)) => b = <<>>
      /\ Ascending(b) /\ \A j \in DOMAIN b : b[j] <= n
  BY DEF BufferKept
<1>6. \A j \in DOMAIN b : b[j] <= k BY <1>2, <1>4, <1>5
<1>7. Ascending(<<>>) /\ Items(<<>>) = {} BY DEF Ascending, Items
<1>8. \A p : OpenThinking(s, n, p) => p \in 1..n BY DEF OpenThinking
<1>9. ASSUME b' = b,
             \A p : OpenThinking(s, k, p) <=> OpenThinking(s, n, p),
             \A p : OpenThinking(s, n, p) => TextOf(s, p, k) = TextOf(s, p, n)
      PROVE  BufferKept(s, k, b')
  BY <1>5, <1>6, <1>9 DEF BufferKept
<1>10. ASSUME b' = <<>>, \A p : OpenThinking(s, k, p) => TextOf(s, p, k) = {}
       PROVE  BufferKept(s, k, b')
  <2>1. DOMAIN b' = {} BY <1>10
  <2>2. Ascending(b') /\ Items(b') = {} BY <1>7, <1>10
  <2> QED BY <1>10, <2>1, <2>2 DEF BufferKept
<1>11. CASE PassOther
  <2>1. s[k].type = "other" /\ b' = b BY <1>2, <1>11 DEF PassOther, filter
  <2>2. \A p : OpenThinking(s, k, p) <=> OpenThinking(s, n, p) BY <1>2, <2>1, OpenKept
  <2>3. \A p \in 1..n : TextOf(s, p, k) = TextOf(s, p, n) BY <1>2, <2>1, TextStep
  <2> QED BY <1>8, <1>9, <2>1, <2>2, <2>3
<1>12. CASE BlockStart
  <2>1. Promise!Starts(s, k) BY <1>2, <1>12 DEF BlockStart, Promise!Starts
  <2>2. \A p : /\ ~OpenThinking(s, n, p)
               /\ OpenThinking(s, k, p) <=> p = k /\ Promise!Thinking(s, k)
    BY <1>2, <1>3, <2>1, OpenStarted
  <2>3. b = <<>> BY <1>5, <2>2
  <2>4. b' = <<>> BY <1>12, <2>3 DEF BlockStart
  <2>5. TextOf(s, k, k) = {} BY <1>2, EmptyText
  <2> QED BY <1>10, <2>2, <2>4, <2>5
<1>13. CASE BlockDelta
  <2>1. s[k].type = "delta" /\ Mode = block_modes[s[k].index] BY <1>2, <1>13 DEF BlockDelta, Mode
  <2>2. \A p : OpenThinking(s, k, p) <=> OpenThinking(s, n, p) BY <1>2, <2>1, OpenKept
  <2>3. \A p : Promise!Owns(s, p, k) <=> Promise!Opened(s, n, s[k].index, p)
    BY <1>2, <2>1, Ownership
  <2>4. CASE Mode.mode = "strip"
    <3>1. PICK p \in 1..n : OpenThinking(s, n, p) /\ s[p].index = s[k].index
      BY <1>2, <2>1, <2>4, ModeOpen
    <3>2. \A q : OpenThinking(s, n, q) => q = p
      <4> SUFFICES ASSUME NEW q, OpenThinking(s, n, q) PROVE q = p OBVIOUS
      <4>1. /\ p \in 1..n /\ q \in 1..n /\ Promise!Starts(s, p) /\ Promise!Starts(s, q)
            /\ Promise!Opened(s, n, s[p].index, p) /\ Promise!Opened(s, n, s[q].index, q)
        BY <3>1 DEF OpenThinking, Promise!Opened
      <4>2. p <= q \/ q <= p BY <4>1, <1>2
      <4> QED BY <4>1, <4>2, <1>2, <1>3, OneOpen
    <3>3. Promise!Owns(s, p, k) BY <2>3, <3>1 DEF OpenThinking
    <3>4. CASE Promise!Thinking(s, k)
      <4>1. b' = Append(b, k)
        BY <1>2, <1>13, <2>4, <3>4 DEF BlockDelta, Promise!Thinking
      <4>2. /\ Items(b') = Items(b) \cup {k}
            /\ DOMAIN b' = 1..Len(b) + 1 /\ b'[Len(b) + 1] = k
            /\ \A j \in 1..Len(b) : b'[j] = b[j]
            /\ DOMAIN b = 1..Len(b) /\ Len(b) \in Nat
        BY <1>2, <1>4, <4>1, AppendItems
      <4>3. \A j \in DOMAIN b' : b'[j] <= k BY <1>2, <1>6, <4>2
      <4>4. Ascending(b')
        <5>1. \A j \in DOMAIN b : b[j] < k BY <1>2, <1>4, <1>5
        <5>2. \A i, j \in DOMAIN b : i < j => b[i] < b[j] BY <1>5 DEF Ascending
        <5>3. ASSUME NEW i \in DOMAIN b', NEW j \in DOMAIN b', i < j PROVE b'[i] < b'[j]
          <6>1. i \in DOMAIN b BY <4>2, <5>3
          <6> QED BY <4>2, <5>1, <5>2, <5>3, <6>1
        <5> QED BY <5>3 DEF Ascending
      <4>5. TextOf(s, p, k) = TextOf(s, p, n) \cup {k}
        BY <1>2, <2>1, <3>3, <3>4, TextStep
      <4>6. Items(b') = TextOf(s, p, k) BY <1>5, <3>1, <4>2, <4>5
      <4> QED BY <2>2, <3>1, <3>2, <4>3, <4>4, <4>6 DEF BufferKept
    <3>5. CASE ~Promise!Thinking(s, k)
      <4>1. b' = b BY <1>2, <1>13, <2>4, <3>5 DEF BlockDelta, Promise!Thinking
      <4>2. \A q \in 1..n : TextOf(s, q, k) = TextOf(s, q, n) BY <1>2, <3>5, TextStep
      <4> QED BY <1>8, <1>9, <2>2, <4>1, <4>2
    <3> QED BY <3>4, <3>5
  <2>5. CASE Mode.mode # "strip"
    <3>1. b' = b BY <1>13, <2>5 DEF BlockDelta
    <3>2. \A p : OpenThinking(s, n, p) => s[p].index # s[k].index
      BY <1>2, <2>1, <2>5, ModeOpen
    <3>3. ASSUME NEW p, OpenThinking(s, n, p) PROVE TextOf(s, p, k) = TextOf(s, p, n)
      <4>1. ~Promise!Owns(s, p, k) BY <2>3, <3>2, <3>3 DEF Promise!Opened
      <4>2. p \in 1..n BY <1>8, <3>3
      <4> QED BY <1>2, <4>1, <4>2, TextStep
    <3> QED BY <1>9, <2>2, <3>1, <3>3
  <2> QED BY <2>4, <2>5
<1>14. CASE BlockStop
  <2>1. s[k].type = "stop" /\ Mode = block_modes[s[k].index] BY <1>2, <1>14 DEF BlockStop, Mode
  <2>2. \A p : OpenThinking(s, k, p) <=> OpenThinking(s, n, p) /\ s[p].index # s[k].index
    BY <1>2, <2>1, OpenStopped
  <2>3. CASE Mode.mode = "strip"
    <3>1. PICK p \in 1..n : OpenThinking(s, n, p) /\ s[p].index = s[k].index
      BY <1>2, <2>1, <2>3, ModeOpen
    <3>2. \A q : OpenThinking(s, n, q) => q = p
      <4> SUFFICES ASSUME NEW q, OpenThinking(s, n, q) PROVE q = p OBVIOUS
      <4>1. /\ p \in 1..n /\ q \in 1..n /\ Promise!Starts(s, p) /\ Promise!Starts(s, q)
            /\ Promise!Opened(s, n, s[p].index, p) /\ Promise!Opened(s, n, s[q].index, q)
        BY <3>1 DEF OpenThinking, Promise!Opened
      <4>2. p <= q \/ q <= p BY <4>1, <1>2
      <4> QED BY <4>1, <4>2, <1>2, <1>3, OneOpen
    <3>3. \A q : ~OpenThinking(s, k, q) BY <2>2, <3>1, <3>2
    <3>4. b' = <<>> BY <1>14, <2>3 DEF BlockStop
    <3> QED BY <1>10, <3>3, <3>4
  <2>4. CASE Mode.mode # "strip"
    <3>1. b' = b BY <1>14, <2>4 DEF BlockStop
    <3>2. \A p : OpenThinking(s, n, p) => s[p].index # s[k].index
      BY <1>2, <2>1, <2>4, ModeOpen
    <3>3. \A p \in 1..n : TextOf(s, p, k) = TextOf(s, p, n) BY <1>2, <2>1, TextStep
    <3> QED BY <1>8, <1>9, <2>2, <3>1, <3>2, <3>3
  <2> QED BY <2>3, <2>4
<1> QED BY <1>11, <1>12, <1>13, <1>14 DEF Route

\* The side log has one entry more exactly when a thinking block with text ends.
LEMMA LogStep ==
  ASSUME TypeOK, ModesTrackStream, Route, OneByOne(stream), session, faults' = 0,
         BufferKept(stream, routed, thinking_buffer), LogKept(stream, routed, log)
  PROVE  LogKept(stream, routed + 1, log')
<1> DEFINE s == stream
           n == routed
           k == routed + 1
           b == thinking_buffer
           E == EndedIn(s, n)
<1>1. Complete /\ Take
  BY DEF Route, PassOther, BlockStart, BlockDelta, BlockStop, Take
<1>2. /\ n \in Nat /\ k \in Nat /\ k \in 1..Len(s) /\ k - 1 = n
      /\ Event.index \in Index /\ Event = s[k]
  BY <1>1, NextEvent DEF TypeOK, Event
<1>3. b \in Seq(Nat) /\ log \in Seq(Seq(Nat)) BY DEF TypeOK
<1>4. /\ Len(log) = Cardinality(E)
      /\ \A j \in 1..Len(log) : Items(log[j]) = TextEnding(s, NthOf(E, j)) /\ Ascending(log[j])
  BY DEF LogKept
<1>5. ASSUME log' = log, EndedIn(s, k) = E PROVE LogKept(s, k, log')
  BY <1>4, <1>5 DEF LogKept
<1>6. CASE PassOther \/ BlockStart \/ BlockDelta
  <2>1. s[k].type # "stop" /\ log' = log
    BY <1>2, <1>6 DEF PassOther, BlockStart, BlockDelta
  <2>2. EndedIn(s, k) = E BY <1>2, <2>1, EndedStep
  <2> QED BY <1>5, <2>1, <2>2
<1>7. CASE BlockStop
  <2>1. s[k].type = "stop" /\ Mode = block_modes[s[k].index] BY <1>2, <1>7 DEF BlockStop, Mode
  <2>2. \A p : Promise!Owns(s, p, k) <=> Promise!Opened(s, n, s[k].index, p)
    BY <1>2, <2>1, Ownership
  <2>3. CASE Mode.mode = "strip"
    <3>1. PICK p \in 1..n : OpenThinking(s, n, p) /\ s[p].index = s[k].index
      BY <1>2, <2>1, <2>3, ModeOpen
    <3>2. Promise!Owns(s, p, k) /\ p \in 1..k /\ Promise!Thinking(s, p)
      BY <1>2, <2>2, <3>1 DEF OpenThinking
    <3>3. Promise!Stripped(s, k) BY <3>2 DEF Promise!Stripped
    <3>4. (CHOOSE q \in 1..k : Promise!Owns(s, q, k)) = p
      <4>1. \A q : Promise!Owns(s, q, k) => q = p
        BY <1>2, <2>2, <3>2, OpenedUnique
      <4> QED BY <3>2, <4>1
    <3>5. TextEnding(s, k) = Items(b)
      <4>1. TextEnding(s, k) = TextOf(s, p, n) BY <1>2, <3>4 DEF TextEnding
      <4> QED BY <3>1, <4>1 DEF BufferKept
    <3>6. Ascending(b) BY DEF BufferKept
    <3>7. WriteSideLog BY <1>7, <2>3 DEF BlockStop
    <3>8. CASE b = <<>>
      <4>1. log' = log BY <3>7, <3>8 DEF WriteSideLog
      <4>2. TextEnding(s, k) = {} BY <1>3, <3>5, <3>8, NoItems
      <4>3. EndedIn(s, k) = E BY <1>2, <4>2, EndedStep
      <4> QED BY <1>5, <4>1, <4>3
    <3>9. CASE b # <<>>
      <4>1. log' = Append(log, b)
        <5>1. faults \in Nat BY CapacityAssumption DEF TypeOK
        <5> QED BY <3>7, <3>9, <5>1 DEF WriteSideLog
      <4>2. TextEnding(s, k) # {} BY <1>3, <3>5, <3>9, NoItems
      <4>3. EndedIn(s, k) = E \cup {k} BY <1>2, <2>1, <3>3, <4>2, EndedStep
      <4>4. E \subseteq 1..n BY DEF EndedIn
      <4> HIDE DEF E
      <4>5. /\ Cardinality(E) \in Nat /\ Cardinality(EndedIn(s, k)) = Cardinality(E) + 1
            /\ \A j \in 1..Cardinality(E) : NthOf(EndedIn(s, k), j) = NthOf(E, j)
            /\ NthOf(EndedIn(s, k), Cardinality(E) + 1) = k
        BY <1>2, <4>3, <4>4, NthAdded
      <4>6. /\ Len(log') = Len(log) + 1 /\ log'[Len(log) + 1] = b
            /\ \A j \in 1..Len(log) : log'[j] = log[j]
        BY <1>3, <4>1, AppendItems
      <4>7. ASSUME NEW j \in 1..Len(log')
            PROVE  Items(log'[j]) = TextEnding(s, NthOf(EndedIn(s, k), j)) /\ Ascending(log'[j])
        <5>1. CASE j \in 1..Len(log) BY <1>4, <4>5, <4>6, <5>1
        <5>2. CASE j = Len(log) + 1 BY <1>4, <3>5, <3>6, <4>5, <4>6, <5>2
        <5>3. Len(log) \in Nat BY <1>3
        <5> QED BY <4>6, <5>1, <5>2, <5>3
      <4> QED BY <1>4, <4>5, <4>6, <4>7 DEF LogKept
    <3> QED BY <3>8, <3>9
  <2>4. CASE Mode.mode # "strip"
    <3>1. log' = log BY <1>7, <2>4 DEF BlockStop
    <3>2. \A p : OpenThinking(s, n, p) => s[p].index # s[k].index
      BY <1>2, <2>1, <2>4, ModeOpen
    <3>3. ~Promise!Stripped(s, k)
      <4> SUFFICES ASSUME NEW p \in 1..k, Promise!Owns(s, p, k), Promise!Thinking(s, p)
                   PROVE  FALSE
        BY DEF Promise!Stripped
      <4>1. Promise!Opened(s, n, s[k].index, p) BY <2>2
      <4> QED BY <3>2, <4>1 DEF OpenThinking, Promise!Opened
    <3>4. EndedIn(s, k) = E BY <1>2, <3>3, EndedStep
    <3> QED BY <1>5, <3>1, <3>4
  <2> QED BY <2>3, <2>4
<1> QED BY <1>6, <1>7 DEF Route

LEMMA DivertStep ==
  TypeOK /\ ModesTrackStream /\ DivertInv /\ [Next]_vars => DivertInv'
<1> SUFFICES ASSUME TypeOK, ModesTrackStream, DivertInv, [Next]_vars PROVE DivertInv' OBVIOUS
<1> DEFINE q == sent \o pending
<1>a. /\ NothingStripped(q) /\ q \in Seq(Item)
      /\ OneByOne(stream) => BufferKept(stream, routed, thinking_buffer)
      /\ OneByOne(stream) /\ session /\ faults = 0 => LogKept(stream, routed, log)
  BY ConcatProperties DEF DivertInv, TypeOK
<1>1. NothingStripped(q)'
  <2>1. Promise!Filter \/ UNCHANGED Promise!vars BY StepImplements DEF Promise!Next
  <2>2. CASE UNCHANGED Promise!vars
    BY <1>a, <2>2 DEF Promise!vars, NothingStripped
  <2>3. ASSUME Promise!Filter PROVE NothingStripped(q)'
    <3> DEFINE k == routed + 1
               x == [src |-> k, index |-> Promise!Renumbered(stream, k)]
    <3>1. /\ stream' = stream
          /\ q' = IF Promise!Stripped(stream, k) THEN q ELSE Append(q, x)
      BY <2>3 DEF Promise!Filter
    <3>2. CASE Promise!Stripped(stream, k) BY <1>a, <3>1, <3>2 DEF NothingStripped
    <3>3. CASE ~Promise!Stripped(stream, k)
      <4>1. q \in Seq(Item \cup {x}) BY <1>a
      <4> HIDE DEF q
      <4>2. /\ q' = Append(q, x) /\ DOMAIN q' = 1..Len(q) + 1 /\ DOMAIN q = 1..Len(q)
            /\ q'[Len(q) + 1] = x /\ \A i \in 1..Len(q) : q'[i] = q[i]
            /\ Len(q) \in Nat
        BY <3>1, <3>3, <4>1, AppendItems, LenProperties
      <4>3. x.src = k OBVIOUS
      <4>4. \A i \in DOMAIN q' : i \in 1..Len(q) \/ i = Len(q) + 1 BY <4>2
      <4> QED BY <1>a, <3>1, <3>3, <4>2, <4>3, <4>4 DEF NothingStripped
    <3> QED BY <3>2, <3>3
  <2> QED BY <2>1, <2>2, <2>3
<1>2. CASE Route
  <2>1. /\ stream' = stream /\ session' = session /\ routed' = routed + 1
        /\ faults' = 0 => faults = 0
    <3>1. stream' = stream /\ session' = session /\ routed' = routed + 1
      BY <1>2 DEF Route, PassOther, BlockStart, BlockDelta, BlockStop, Take, input
    <3>2. faults \in Nat BY CapacityAssumption DEF TypeOK
    <3>3. faults' = faults \/ faults' = faults + 1
      BY <1>2 DEF Route, PassOther, BlockStart, BlockDelta, BlockStop, WriteSideLog
    <3> QED BY <3>1, <3>2, <3>3
  <2>2. OneByOne(stream) => BufferKept(stream, routed + 1, thinking_buffer')
    BY <1>2, <1>a, BufferStep
  <2>3. OneByOne(stream) /\ session /\ faults' = 0 => LogKept(stream, routed + 1, log')
    BY <1>2, <1>a, <2>1, LogStep
  <2> QED BY <1>1, <2>1, <2>2, <2>3 DEF DivertInv
<1>3. CASE ~Route
  <2>1. UNCHANGED <<stream, session, routed, thinking_buffer, log, faults>>
    BY <1>3 DEF Next, Task, Frame, NextFrame, Send, SendFails, StreamEnd, StreamError,
                ClientRead, ClientClose, vars, input, filter
  <2> QED BY <1>1, <1>a, <2>1 DEF DivertInv
<1> QED BY <1>2, <1>3

LEMMA DivertInit == Init => DivertInv
<1> SUFFICES ASSUME Init PROVE DivertInv OBVIOUS
<1>1. sent \o pending = <<>> BY ConcatEmptySeq, EmptySeq DEF Init
<1>2. DOMAIN <<>> = {} /\ Len(<<>>) = 0 OBVIOUS
<1>3. NothingStripped(sent \o pending) BY <1>1, <1>2 DEF NothingStripped
<1>4. BufferKept(stream, 0, <<>>)
  <2>1. Ascending(<<>>) BY <1>2 DEF Ascending
  <2> QED BY <1>2, <2>1 DEF BufferKept, OpenThinking
<1>5. LogKept(stream, 0, <<>>)
  <2>1. EndedIn(stream, 0) = {} BY DEF EndedIn
  <2>2. Cardinality({}) = 0 BY FS_EmptySet
  <2> QED BY <1>2, <2>1, <2>2 DEF LogKept
<1> QED BY <1>3, <1>4, <1>5 DEF Init, DivertInv

\* What is flushed: while the task waits for a frame, less than one event is in the
\* buffer, and what is left of it at the end of the stream is never routed.
TailInv ==
  /\ 2 * routed <= received
  /\ pc = "frame" => received <= 2 * routed + 1
  /\ tail # 0 => pc = "returned" /\ tail = routed + 1 /\ received = 2 * tail - 1

LEMMA TailStep == TypeOK /\ TailInv /\ [Next]_vars => TailInv'
<1> SUFFICES ASSUME TypeOK, TailInv, [Next]_vars PROVE TailInv' OBVIOUS
<1>a. received \in Nat /\ routed \in Nat /\ tail \in Nat
  <2>1. Len(stream) \in Nat BY StreamsAssumption DEF TypeOK
  <2> QED BY <2>1 DEF TypeOK
<1>1. CASE StreamEnd
  <2>1. /\ received <= 2 * routed + 1 /\ 2 * routed <= received
        /\ tail' = 0 \/ (received % 2 = 1 /\ tail' = routed + 1)
        /\ pc' = "returned" /\ UNCHANGED <<received, routed>>
    BY <1>1 DEF StreamEnd, TailInv
  <2>2. received % 2 = 1 => received = 2 * routed + 1 BY <1>a, <2>1
  <2> QED BY <1>a, <2>1, <2>2 DEF TailInv
<1>2. CASE Frame
  BY <1>2, <1>a DEF Frame, TailInv, TypeOK
<1>3. CASE NextFrame
  BY <1>3, <1>a DEF NextFrame, Complete, TailInv
<1>4. CASE Route
  <2>1. /\ pc = "route" /\ 2 * (routed + 1) <= received /\ routed' = routed + 1
        /\ UNCHANGED <<received, tail>>
    BY <1>4 DEF Route, PassOther, BlockStart, BlockDelta, BlockStop, Take, Complete
  <2>2. pc' # "frame"
    BY <1>4 DEF Route, PassOther, BlockStart, BlockDelta, BlockStop, Strip, Pass
  <2> QED BY <1>a, <2>1, <2>2 DEF TailInv
<1>5. CASE Send \/ SendFails \/ StreamError
  BY <1>5 DEF Send, SendFails, StreamError, TailInv
<1>6. CASE ClientRead \/ ClientClose \/ UNCHANGED vars
  BY <1>6 DEF ClientRead, ClientClose, vars, TailInv
<1> QED BY <1>1, <1>2, <1>3, <1>4, <1>5, <1>6 DEF Next, Task

\* Thinking goes to the side log and not to the client, each block whole and in its
\* order, for any streams, however they are framed and whoever fails or leaves; only a
\* piece of the event in which a stream ends is flushed as it is.
THEOREM ThinkingIsDiverted == Spec => []ThinkingDiverted
<1>1. TypeOK /\ DivertInv /\ TailInv => ThinkingDiverted
  <2> SUFFICES ASSUME TypeOK, DivertInv, TailInv PROVE ThinkingDiverted OBVIOUS
  <2>1. \A k : ThinkingOf(k) = TextEnding(stream, k)
    BY DEF ThinkingOf, TextEnding, TextOf
  <2>2. \A i \in DOMAIN sent : ~Promise!Stripped(stream, sent[i].src)
    <3>1. /\ sent \in Seq(Item) /\ pending \in Seq(Item) BY DEF TypeOK
    <3>2. \A i \in DOMAIN sent : i \in DOMAIN (sent \o pending) /\ (sent \o pending)[i] = sent[i]
      BY <3>1
    <3> QED BY <3>2 DEF DivertInv, NothingStripped
  <2>3. session /\ faults = 0 /\ InSequence => LogKept(stream, routed, log)
    BY DEF DivertInv, InSequence, OneByOne
  <2>4. LogKept(stream, routed, log) =>
          /\ Len(log) = Cardinality(EndedIn(stream, routed))
          /\ \A j \in 1..Len(log) :
               /\ {log[j][i] : i \in DOMAIN log[j]}
                    = ThinkingOf(NthOf(EndedIn(stream, routed), j))
               /\ \A h, i \in DOMAIN log[j] : h < i => log[j][h] < log[j][i]
    BY <2>1 DEF LogKept, Items, Ascending
  <2>5. EndedIn(stream, routed) =
          {k \in 1..routed : /\ stream[k].type = "stop" /\ Promise!Stripped(stream, k)
                             /\ ThinkingOf(k) # {}}
    BY <2>1 DEF EndedIn
  <2>6. tail # 0 => pc = "returned" /\ tail = routed + 1 /\ received = 2 * tail - 1
    BY DEF TailInv
  <2> QED BY ZenonT(60), <2>2, <2>3, <2>4, <2>5, <2>6 DEF ThinkingDiverted, NthOf
<1> DEFINE Inv == TypeOK /\ ModesTrackStream /\ DivertInv /\ TailInv
<1>2. Init => Inv
  <2>1. Init => TailInv BY DEF Init, TailInv
  <2> QED BY <2>1, TypeInit, ModesInit, DivertInit
<1>3. Inv /\ [Next]_vars => Inv' BY TypeStep, ModesStep, DivertStep, TailStep
<1>4. Inv => ThinkingDiverted BY <1>1
<1> QED BY <1>2, <1>3, <1>4, PTL DEF Spec

-----------------------------------------------------------------------------
(* The lines of a log, byte by byte *)

Bytes == 0..N

LEMMA SizePositive ==
  \A e \in Exchanges : /\ e \in 1..N /\ e \in Bytes /\ e # NL /\ e # None
                       /\ Size[e] \in Nat /\ Size[e] >= 1
BY SizeAssumption DEF Exchanges, NL, None, Bytes

\* The bytes of an exchange, and of its line.
LEMMA TextBytes ==
  \A e \in Exchanges : /\ Text(e) \in Seq(Bytes) /\ Len(Text(e)) = Size[e]
                       /\ \A k \in 1..Size[e] : Text(e)[k] = e
<1> SUFFICES ASSUME NEW e \in Exchanges
             PROVE  /\ Text(e) \in Seq(Bytes) /\ Len(Text(e)) = Size[e]
                    /\ \A k \in 1..Size[e] : Text(e)[k] = e
  OBVIOUS
<1>1. Size[e] \in Nat /\ e \in Bytes BY SizePositive
<1> QED BY <1>1 DEF Text

LEMMA LineBytes ==
  \A e \in Exchanges : /\ LineOf(e) \in Seq(Bytes) /\ Len(LineOf(e)) = Size[e] + 1
                       /\ \A k \in 1..Size[e] : LineOf(e)[k] = e
                       /\ LineOf(e)[Size[e] + 1] = NL
<1> SUFFICES ASSUME NEW e \in Exchanges
             PROVE  /\ LineOf(e) \in Seq(Bytes) /\ Len(LineOf(e)) = Size[e] + 1
                    /\ \A k \in 1..Size[e] : LineOf(e)[k] = e
                    /\ LineOf(e)[Size[e] + 1] = NL
  OBVIOUS
<1> DEFINE t == Text(e)
<1>1. t \in Seq(Bytes) /\ Len(t) = Size[e] /\ \A k \in 1..Size[e] : t[k] = e BY TextBytes
<1>2. LineOf(e) = Append(t, NL) BY DEF LineOf
<1>3. NL \in Bytes /\ Size[e] \in Nat BY SizePositive, SizeAssumption DEF NL, Bytes
<1> HIDE DEF t
<1> QED BY <1>1, <1>2, <1>3

\* A sequence of bytes that are all those of an exchange parses to it.
LEMMA ParseText ==
  ASSUME NEW e \in Exchanges, NEW t \in Seq(Bytes), Len(t) = Size[e],
         \A k \in 1..Size[e] : t[k] = e
  PROVE  t = Text(e) /\ t # <<>> /\ Parse(t) = e
<1>1. /\ Text(e) \in Seq(Bytes) /\ Len(Text(e)) = Size[e]
      /\ \A k \in 1..Size[e] : Text(e)[k] = e
  BY TextBytes
<1>2. Size[e] \in Nat /\ Size[e] >= 1 BY SizePositive
<1>3. t = Text(e)
  <2> DEFINE u == Text(e)
  <2>1. u \in Seq(Bytes) /\ Len(u) = Len(t) /\ \A k \in 1..Len(t) : u[k] = t[k] BY <1>1
  <2> HIDE DEF u
  <2>2. u = t BY <2>1
  <2> QED BY <2>2 DEF u
<1>4. t # <<>> /\ t[1] = e BY <1>2
<1> QED BY <1>3, <1>4 DEF Parse

\* Whatever is read parses to an exchange or is malformed.
LEMMA ParseType ==
  \A t : Parse(t) \in Exchanges \cup {None}
<1> SUFFICES ASSUME NEW t, NEW e \in Exchanges, t = Text(e)
             PROVE  t[1] \in Exchanges
  BY DEF Parse
<1>1. Size[e] \in Nat /\ Size[e] >= 1 /\ \A k \in 1..Size[e] : Text(e)[k] = e
  BY SizePositive, TextBytes
<1> QED BY <1>1

\* The newline at i ends the text of one exchange, from the start of a line on.
LineEndsAt(f, i) ==
  /\ i > 1 /\ f[i - 1] \in Exchanges /\ Size[f[i - 1]] < i
  /\ \A k \in i - Size[f[i - 1]]..i - 1 : f[k] = f[i - 1]
  /\ i > Size[f[i - 1]] + 1 => f[i - Size[f[i - 1]] - 1] = NL

WholeLines(f) == \A i \in 1..Len(f) : f[i] = NL => LineEndsAt(f, i)

\* What follows the last newline: the text of e, without its newline yet.
EndsInText(f, e) ==
  /\ e \in Exchanges /\ Size[e] <= Len(f)
  /\ \A k \in Len(f) - Size[e] + 1..Len(f) : f[k] = e
  /\ Len(f) > Size[e] => f[Len(f) - Size[e]] = NL

EndsInLine(f, e) ==
  /\ e \in Exchanges
  /\ Len(f) > Size[e] /\ f[Len(f)] = NL /\ f[Len(f) - 1] = e

\* What is written to the end of a file changes no line that was there.
Extends(g, f) == Len(g) >= Len(f) /\ \A k \in 1..Len(f) : g[k] = f[k]

LEMMA LineStays ==
  ASSUME NEW f \in Seq(Bytes), NEW g \in Seq(Bytes), Extends(g, f),
         NEW i \in 1..Len(f), LineEndsAt(f, i)
  PROVE  LineEndsAt(g, i)
<1> DEFINE e == f[i - 1]
<1>1. i - 1 \in 1..Len(f) BY DEF LineEndsAt
<1>2. e \in Exchanges /\ g[i - 1] = e BY <1>1 DEF LineEndsAt, Extends
<1>3. Size[e] \in Nat /\ Size[e] >= 1 BY <1>2, SizePositive
<1>4. Size[e] < i /\ (\A k \in i - Size[e]..i - 1 : f[k] = e)
      /\ (i > Size[e] + 1 => f[i - Size[e] - 1] = NL)
  BY DEF LineEndsAt
<1>5. \A k \in i - Size[e]..i - 1 : k \in 1..Len(f) BY <1>3, <1>4
<1>6. i > Size[e] + 1 => i - Size[e] - 1 \in 1..Len(f) BY <1>3, <1>4
<1>7. Len(g) >= Len(f) /\ \A k \in 1..Len(f) : g[k] = f[k] BY DEF Extends
<1> HIDE DEF e
<1> QED BY <1>1, <1>2, <1>3, <1>4, <1>5, <1>6, <1>7 DEF LineEndsAt

LEMMA TextWritten ==
  ASSUME NEW f \in Seq(Bytes), WholeLines(f), NEW e \in Exchanges,
         f # <<>> => f[Len(f)] = NL
  PROVE  /\ f \o Text(e) \in Seq(Bytes) /\ WholeLines(f \o Text(e))
         /\ EndsInText(f \o Text(e), e) /\ Extends(f \o Text(e), f)
<1> DEFINE t == Text(e)
           g == f \o t
<1>1. t \in Seq(Bytes) /\ Len(t) = Size[e] /\ \A k \in 1..Size[e] : t[k] = e BY TextBytes
<1>2. Size[e] \in Nat /\ Size[e] >= 1 /\ e # NL BY SizePositive
<1> HIDE DEF t
<1>3. /\ g \in Seq(Bytes) /\ Len(g) = Len(f) + Size[e]
      /\ \A k \in 1..Len(f) : g[k] = f[k]
      /\ \A k \in Len(f) + 1..Len(g) : g[k] = e
  BY <1>1, <1>2
<1> HIDE DEF g
<1>4. Extends(g, f) BY <1>2, <1>3 DEF Extends
<1>5. WholeLines(g)
  <2> SUFFICES ASSUME NEW i \in 1..Len(g), g[i] = NL PROVE LineEndsAt(g, i)
    BY DEF WholeLines
  <2>1. i \in 1..Len(f) BY <1>2, <1>3
  <2>2. LineEndsAt(f, i) BY <1>3, <2>1 DEF WholeLines
  <2> QED BY <1>3, <1>4, <2>1, <2>2, LineStays
<1>6. EndsInText(g, e)
  <2>1. Len(g) > Size[e] => f # <<>> /\ Len(f) \in 1..Len(f) /\ Len(g) - Size[e] = Len(f)
    BY <1>2, <1>3
  <2>2. Len(g) - Size[e] + 1 = Len(f) + 1 /\ Size[e] <= Len(g) BY <1>2, <1>3
  <2> QED BY <1>3, <2>1, <2>2 DEF EndsInText
<1> QED BY <1>3, <1>4, <1>5, <1>6 DEF g, t

LEMMA NewlineWritten ==
  ASSUME NEW f \in Seq(Bytes), WholeLines(f), NEW e, EndsInText(f, e)
  PROVE  /\ Append(f, NL) \in Seq(Bytes) /\ WholeLines(Append(f, NL))
         /\ EndsInLine(Append(f, NL), e) /\ Extends(Append(f, NL), f)
<1> DEFINE g == Append(f, NL)
<1>1. NL \in Bytes BY SizeAssumption DEF NL, Bytes
<1>2. /\ g \in Seq(Bytes) /\ Len(g) = Len(f) + 1 /\ g[Len(f) + 1] = NL
      /\ \A k \in 1..Len(f) : g[k] = f[k]
  BY <1>1
<1>3. e \in Exchanges /\ Size[e] <= Len(f) BY DEF EndsInText
<1>4. Size[e] \in Nat /\ Size[e] >= 1 BY <1>3, SizePositive
<1> HIDE DEF g
<1>5. Extends(g, f) BY <1>2 DEF Extends
<1>6. LineEndsAt(g, Len(f) + 1)
  <2> DEFINE i == Len(f) + 1
  <2>1. i \in Nat /\ i > 1 /\ i - 1 = Len(f) /\ Len(f) \in 1..Len(f) BY <1>3, <1>4
  <2>2. f[Len(f)] = e
    <3>1. Len(f) \in Len(f) - Size[e] + 1..Len(f) BY <1>4
    <3> QED BY <3>1 DEF EndsInText
  <2>3. g[i - 1] = e BY <1>2, <2>1, <2>2
  <2>4. \A k \in i - Size[e]..i - 1 : g[k] = e
    <3> SUFFICES ASSUME NEW k \in i - Size[e]..i - 1 PROVE g[k] = e OBVIOUS
    <3>1. k \in 1..Len(f) /\ k \in Len(f) - Size[e] + 1..Len(f) BY <1>3, <1>4
    <3> QED BY <1>2, <3>1 DEF EndsInText
  <2>5. i > Size[e] + 1 => g[i - Size[e] - 1] = NL
    <3> SUFFICES ASSUME i > Size[e] + 1 PROVE g[i - Size[e] - 1] = NL OBVIOUS
    <3>1. /\ i - Size[e] - 1 = Len(f) - Size[e] /\ Len(f) - Size[e] \in 1..Len(f)
          /\ Len(f) > Size[e]
      BY <1>3, <1>4
    <3>2. f[Len(f) - Size[e]] = NL BY <3>1 DEF EndsInText
    <3>3. g[Len(f) - Size[e]] = NL BY <1>2, <3>1, <3>2
    <3> HIDE DEF i
    <3> QED BY <3>1, <3>3
  <2>6. Size[e] < i BY <1>3, <1>4
  <2> HIDE DEF i
  <2>7. LineEndsAt(g, i) BY <1>3, <2>1, <2>3, <2>4, <2>5, <2>6 DEF LineEndsAt
  <2> QED BY <2>7 DEF i
<1>7. WholeLines(g)
  <2> SUFFICES ASSUME NEW i \in 1..Len(g), g[i] = NL PROVE LineEndsAt(g, i)
    BY DEF WholeLines
  <2>1. CASE i \in 1..Len(f)
    <3>1. LineEndsAt(f, i) BY <1>2, <2>1 DEF WholeLines
    <3> QED BY <1>2, <1>5, <2>1, <3>1, LineStays
  <2>2. CASE i = Len(f) + 1 BY <1>6, <2>2
  <2> QED BY <1>2, <2>1, <2>2
<1>8. EndsInLine(g, e)
  <2>1. Len(f) \in Len(f) - Size[e] + 1..Len(f) /\ Len(f) \in 1..Len(f) BY <1>3, <1>4
  <2>2. f[Len(f)] = e BY <2>1 DEF EndsInText
  <2>3. Len(g) - 1 = Len(f) /\ Len(g) > Size[e] BY <1>2, <1>3, <1>4
  <2> QED BY <1>2, <1>3, <2>1, <2>2, <2>3 DEF EndsInLine
<1> QED BY <1>2, <1>5, <1>7, <1>8 DEF g

\* The file after a truncation, and before its one line is written again.
LEMMA OneLine ==
  \A e \in Exchanges : WholeLines(LineOf(e)) /\ EndsInLine(LineOf(e), e)
<1> SUFFICES ASSUME NEW e \in Exchanges PROVE WholeLines(LineOf(e)) /\ EndsInLine(LineOf(e), e)
  OBVIOUS
<1> DEFINE g == LineOf(e)
<1>1. /\ g \in Seq(Bytes) /\ Len(g) = Size[e] + 1
      /\ \A k \in 1..Size[e] : g[k] = e
      /\ g[Size[e] + 1] = NL
  BY LineBytes
<1>2. Size[e] \in Nat /\ Size[e] >= 1 /\ e # NL BY SizePositive
<1> HIDE DEF g
<1>3. g[Size[e]] = e BY <1>1, <1>2
<1>4. EndsInLine(g, e) BY <1>1, <1>2, <1>3 DEF EndsInLine
<1>5. WholeLines(g)
  <2> SUFFICES ASSUME NEW i \in 1..Len(g), g[i] = NL PROVE LineEndsAt(g, i)
    BY DEF WholeLines
  <2>1. i = Size[e] + 1 BY <1>1, <1>2
  <2>2. g[i - 1] = e BY <1>2, <1>3, <2>1
  <2>3. i > 1 /\ Size[e] < i /\ ~(i > Size[e] + 1) BY <1>2, <2>1
  <2>4. \A k \in i - Size[e]..i - 1 : g[k] = e BY <1>1, <1>2, <2>1
  <2> QED BY <2>2, <2>3, <2>4 DEF LineEndsAt
<1> QED BY <1>4, <1>5 DEF g

LEMMA NoLine == <<>> \in Seq(Bytes) /\ Len(<<>>) = 0 /\ WholeLines(<<>>)
BY DEF WholeLines

-----------------------------------------------------------------------------
(* What a watcher has read of it *)

\* Up to its position p a watcher holds the bytes b that it has not consumed
\* and before them q, a line it has not seen the end of.
Buffered(f, p, b, q) ==
  /\ Len(q) + Len(b) <= p /\ p <= Len(f)
  /\ \A k \in 1..Len(b) : b[k] = f[p - Len(b) + k]
  /\ \A k \in 1..Len(q) : q[k] = f[p - Len(b) - Len(q) + k] /\ q[k] # NL

\* The first s bytes of the log are n lines, the last of exchange e.
Newlines(f, s) == {j \in 1..s : f[j] = NL}

AtLine(f, s, n, e) ==
  IF s = 0 THEN n = 0 /\ e = None
  ELSE f[s] = NL /\ e = f[s - 1] /\ n = Cardinality(Newlines(f, s))

\* A line more.
LEMMA NewlinesAdded ==
  ASSUME NEW f, NEW s \in Nat, NEW i \in Nat, s < i, f[i] = NL,
         \A j \in s + 1..i - 1 : f[j] # NL
  PROVE  /\ Cardinality(Newlines(f, s)) \in Nat
         /\ Cardinality(Newlines(f, i)) = Cardinality(Newlines(f, s)) + 1
<1>1. IsFiniteSet(Newlines(f, s))
  <2>1. IsFiniteSet(1..s) BY FS_Interval
  <2> QED BY <2>1, FS_Subset DEF Newlines
<1>2. i \notin Newlines(f, s) BY DEF Newlines
<1>3. Newlines(f, i) = Newlines(f, s) \cup {i}
  <2>1. ASSUME NEW j \in Newlines(f, i) PROVE j \in Newlines(f, s) \cup {i}
    <3>1. j \in 1..i /\ f[j] = NL BY DEF Newlines
    <3>2. j \in 1..s \/ j \in s + 1..i - 1 \/ j = i BY <3>1
    <3> QED BY <3>1, <3>2 DEF Newlines
  <2>2. Newlines(f, s) \subseteq Newlines(f, i) BY DEF Newlines
  <2>3. i \in Newlines(f, i) BY DEF Newlines
  <2> QED BY <2>1, <2>2, <2>3
<1> QED BY <1>1, <1>2, <1>3, FS_AddElement, FS_CardinalityType

LEMMA AtFirstLine ==
  ASSUME NEW f, NEW i \in Nat, i > 0, f[i] = NL, \A j \in 1..i - 1 : f[j] # NL
  PROVE  AtLine(f, i, 1, f[i - 1])
<1>1. Newlines(f, 0) = {} BY DEF Newlines
<1>2. Cardinality({}) = 0 BY FS_EmptySet
<1>3. Cardinality(Newlines(f, i)) = 1
  <2>1. Cardinality(Newlines(f, i)) = Cardinality(Newlines(f, 0)) + 1 BY NewlinesAdded
  <2> QED BY <1>1, <1>2, <2>1
<1> QED BY <1>3 DEF AtLine

\* What is appended disturbs neither.
LEMMA ReadStays ==
  ASSUME NEW f \in Seq(Bytes), NEW g \in Seq(Bytes), Extends(g, f),
         NEW p \in Nat, NEW b \in Seq(Bytes), NEW q \in Seq(Bytes), Buffered(f, p, b, q)
  PROVE  Buffered(g, p, b, q)
<1>1. /\ Len(q) + Len(b) <= p /\ p <= Len(f)
      /\ \A k \in 1..Len(b) : b[k] = f[p - Len(b) + k]
      /\ \A k \in 1..Len(q) : q[k] = f[p - Len(b) - Len(q) + k] /\ q[k] # NL
  BY DEF Buffered
<1>2. Len(g) >= Len(f) /\ \A k \in 1..Len(f) : g[k] = f[k] BY DEF Extends
<1>3. \A k \in 1..Len(b) : p - Len(b) + k \in 1..Len(f) BY <1>1
<1>4. \A k \in 1..Len(q) : p - Len(b) - Len(q) + k \in 1..Len(f) BY <1>1
<1>5. \A k \in 1..Len(b) : b[k] = g[p - Len(b) + k] BY <1>1, <1>2, <1>3
<1>6. \A k \in 1..Len(q) : q[k] = g[p - Len(b) - Len(q) + k] BY <1>1, <1>2, <1>4
<1>7. Len(q) + Len(b) <= p /\ p <= Len(g) BY <1>1, <1>2
<1> QED BY <1>1, <1>5, <1>6, <1>7 DEF Buffered

LEMMA AtLineStays ==
  ASSUME NEW f \in Seq(Bytes), NEW g \in Seq(Bytes), Extends(g, f), WholeLines(f),
         NEW s \in 0..Len(f), NEW n, NEW e, AtLine(f, s, n, e)
  PROVE  AtLine(g, s, n, e)
<1>1. CASE s = 0 BY <1>1 DEF AtLine
<1>2. CASE s # 0
  <2>1. f[s] = NL /\ e = f[s - 1] /\ n = Cardinality(Newlines(f, s)) BY <1>2 DEF AtLine
  <2>2. \A k \in 1..Len(f) : g[k] = f[k] BY DEF Extends
  <2>3. Newlines(g, s) = Newlines(f, s)
    <3>1. \A j \in 1..s : g[j] = f[j] BY <2>2
    <3> QED BY <3>1 DEF Newlines
  <2>4. s \in 1..Len(f) BY <1>2
  <2>5. s - 1 \in 1..Len(f) BY <2>1, <2>4 DEF WholeLines, LineEndsAt
  <2> QED BY <1>2, <2>1, <2>2, <2>3, <2>4, <2>5 DEF AtLine
<1> QED BY <1>1, <1>2

\* BufReader's buffer is filled.
LEMMA Filled ==
  ASSUME NEW f \in Seq(Bytes), NEW p \in Nat, NEW q \in Seq(Bytes), Buffered(f, p, <<>>, q),
         NEW n \in p + 1..Len(f)
  PROVE  /\ SubSeq(f, p + 1, n) \in Seq(Bytes) /\ Len(SubSeq(f, p + 1, n)) = n - p
         /\ Buffered(f, n, SubSeq(f, p + 1, n), q)
<1> DEFINE b == SubSeq(f, p + 1, n)
<1>1. /\ b \in Seq(Bytes) /\ Len(b) = n - p
      /\ \A k \in 1..Len(b) : b[k] = f[p + k]
  OBVIOUS
<1>2. /\ Len(q) <= p
      /\ \A k \in 1..Len(q) : q[k] = f[p - Len(q) + k] /\ q[k] # NL
  BY DEF Buffered
<1> HIDE DEF b
<1>3. n - Len(b) = p BY <1>1
<1>4. Buffered(f, n, b, q) BY <1>1, <1>2, <1>3 DEF Buffered
<1> QED BY <1>1, <1>4 DEF b

\* A buffer without the end of a line is kept.
LEMMA PartTaken ==
  ASSUME NEW f \in Seq(Bytes), NEW p \in Nat, NEW b \in Seq(Bytes), NEW q \in Seq(Bytes),
         Buffered(f, p, b, q), \A k \in 1..Len(b) : b[k] # NL
  PROVE  /\ q \o b \in Seq(Bytes) /\ Len(q \o b) = Len(q) + Len(b)
         /\ Buffered(f, p, <<>>, q \o b)
<1> DEFINE t == q \o b
<1>1. /\ t \in Seq(Bytes) /\ Len(t) = Len(q) + Len(b)
      /\ \A k \in 1..Len(q) : t[k] = q[k]
      /\ \A k \in Len(q) + 1..Len(t) : t[k] = b[k - Len(q)] /\ k - Len(q) \in 1..Len(b)
  OBVIOUS
<1>2. /\ Len(q) + Len(b) <= p /\ p <= Len(f)
      /\ \A k \in 1..Len(b) : b[k] = f[p - Len(b) + k]
      /\ \A k \in 1..Len(q) : q[k] = f[p - Len(b) - Len(q) + k] /\ q[k] # NL
  BY DEF Buffered
<1> HIDE DEF t
<1>3. ASSUME NEW k \in 1..Len(t) PROVE t[k] = f[p - Len(t) + k] /\ t[k] # NL
  <2>1. CASE k \in 1..Len(q)
    <3>1. p - Len(b) - Len(q) + k = p - Len(t) + k BY <1>1, <1>2
    <3> QED BY <1>1, <1>2, <2>1, <3>1
  <2>2. CASE k \in Len(q) + 1..Len(t)
    <3>1. p - Len(b) + (k - Len(q)) = p - Len(t) + k BY <1>1, <1>2
    <3> QED BY <1>1, <1>2, <2>2, <3>1
  <2> QED BY <1>1, <2>1, <2>2
<1>4. Len(<<>>) = 0 OBVIOUS
<1>5. p - Len(<<>>) - Len(t) = p - Len(t) BY <1>1, <1>4
<1>6. Buffered(f, p, <<>>, t) BY <1>1, <1>2, <1>3, <1>4, <1>5 DEF Buffered
<1> QED BY <1>1, <1>6 DEF t

\* The bytes from the start of a line to the newline after it are one exchange.
LEMMA LineBetween ==
  ASSUME NEW f \in Seq(Bytes), WholeLines(f), NEW s \in Nat, NEW i \in 1..Len(f), s < i,
         f[i] = NL, s = 0 \/ f[s] = NL, \A j \in s + 1..i - 1 : f[j] # NL
  PROVE  /\ f[i - 1] \in Exchanges /\ i = s + Size[f[i - 1]] + 1
         /\ \A j \in s + 1..i - 1 : f[j] = f[i - 1]
<1> DEFINE e == f[i - 1]
<1>1. LineEndsAt(f, i) BY DEF WholeLines
<1>2. /\ i > 1 /\ e \in Exchanges /\ Size[e] < i
      /\ \A k \in i - Size[e]..i - 1 : f[k] = e
      /\ i > Size[e] + 1 => f[i - Size[e] - 1] = NL
  BY <1>1 DEF LineEndsAt
<1>3. Size[e] \in Nat /\ Size[e] >= 1 /\ e # NL BY <1>2, SizePositive
<1> HIDE DEF e
<1>4. ~(s < i - Size[e] - 1)
  <2> SUFFICES ASSUME s < i - Size[e] - 1 PROVE FALSE OBVIOUS
  <2>1. i > Size[e] + 1 /\ i - Size[e] - 1 \in s + 1..i - 1 BY <1>2, <1>3
  <2> QED BY <1>2, <2>1
<1>5. ~(s > i - Size[e] - 1)
  <2> SUFFICES ASSUME s > i - Size[e] - 1 PROVE FALSE OBVIOUS
  <2>1. s \in i - Size[e]..i - 1 /\ s # 0 BY <1>2, <1>3
  <2> QED BY <1>2, <1>3, <2>1
<1>6. i = s + Size[e] + 1 BY <1>2, <1>3, <1>4, <1>5
<1>7. \A j \in s + 1..i - 1 : f[j] = e BY <1>2, <1>3, <1>6
<1> QED BY <1>2, <1>6, <1>7 DEF e

\* A sequence put together, and the rest of one.
LEMMA Joined ==
  \A q, d \in Seq(Bytes) :
     /\ q \o d \in Seq(Bytes) /\ Len(q \o d) = Len(q) + Len(d)
     /\ \A k \in 1..Len(q) : (q \o d)[k] = q[k]
     /\ \A k \in Len(q) + 1..Len(q \o d) :
          (q \o d)[k] = d[k - Len(q)] /\ k - Len(q) \in 1..Len(d)
OBVIOUS

LEMMA Rest ==
  \A b \in Seq(Bytes) : \A c \in 1..Len(b) :
     /\ SubSeq(b, 1, c - 1) \in Seq(Bytes) /\ Len(SubSeq(b, 1, c - 1)) = c - 1
     /\ \A k \in 1..c - 1 : SubSeq(b, 1, c - 1)[k] = b[k] /\ k \in 1..Len(b)
     /\ SubSeq(b, c + 1, Len(b)) \in Seq(Bytes)
     /\ Len(SubSeq(b, c + 1, Len(b))) = Len(b) - c
     /\ \A k \in 1..Len(b) - c :
          SubSeq(b, c + 1, Len(b))[k] = b[c + k] /\ c + k \in 1..Len(b)
BY SMTT(30)

LEMMA Offset == \A i, s, z \in Nat : i = s + z + 1 => \A k \in 1..z : s + k \in s + 1..i - 1
OBVIOUS

\* A line whose end is in the buffer is taken whole.
EndOfLine(b, c) == c \in 1..Len(b) /\ b[c] = NL /\ \A k \in 1..c - 1 : b[k] # NL

LineFound(f, s, i, t) ==
  /\ i \in 1..Len(f) /\ s < i /\ f[i] = NL /\ f[i - 1] \in Exchanges
  /\ \A j \in s + 1..i - 1 : f[j] # NL
  /\ t = Text(f[i - 1]) /\ Parse(t) = f[i - 1] /\ t # <<>>

RestBuffered(f, p, r, i) == r \in Seq(Bytes) /\ p - Len(r) = i /\ Buffered(f, p, r, <<>>)

LEMMA LineTaken ==
  \A f, b, q \in Seq(Bytes) : \A p, s, i \in Nat : \A c :
     /\ WholeLines(f) /\ Buffered(f, p, b, q) /\ EndOfLine(b, c)
     /\ s = p - Len(b) - Len(q) /\ i = p - Len(b) + c /\ (s = 0 \/ f[s] = NL)
     => /\ LineFound(f, s, i, q \o SubSeq(b, 1, c - 1))
        /\ RestBuffered(f, p, SubSeq(b, c + 1, Len(b)), i)
<1> TAKE f, b, q \in Seq(Bytes)
<1> TAKE p, s, i \in Nat
<1> TAKE c
<1> HAVE /\ WholeLines(f) /\ Buffered(f, p, b, q) /\ EndOfLine(b, c)
         /\ s = p - Len(b) - Len(q) /\ i = p - Len(b) + c /\ (s = 0 \/ f[s] = NL)
<1>a. c \in 1..Len(b) /\ b[c] = NL /\ \A k \in 1..c - 1 : b[k] # NL BY DEF EndOfLine
<1>1. /\ Len(q) + Len(b) <= p /\ p <= Len(f)
      /\ \A k \in 1..Len(b) : b[k] = f[p - Len(b) + k]
      /\ \A k \in 1..Len(q) : q[k] = f[p - Len(b) - Len(q) + k] /\ q[k] # NL
  BY DEF Buffered
<1>0. Len(q) \in Nat /\ Len(b) \in Nat /\ Len(f) \in Nat /\ c \in Nat /\ c >= 1 /\ c <= Len(b)
  BY <1>a
<1>2. i \in 1..Len(f) /\ s < i /\ i = s + Len(q) + c BY <1>0, <1>1
<1>3. f[i] = NL BY <1>0, <1>1, <1>a
<1> DEFINE d == SubSeq(b, 1, c - 1)
           t == q \o d
           r == SubSeq(b, c + 1, Len(b))
<1>4. /\ d \in Seq(Bytes) /\ Len(d) = c - 1
      /\ \A k \in 1..c - 1 : d[k] = b[k] /\ k \in 1..Len(b)
  BY Rest, <1>a
<1>5. /\ r \in Seq(Bytes) /\ Len(r) = Len(b) - c
      /\ \A k \in 1..Len(r) : r[k] = b[c + k] /\ c + k \in 1..Len(b)
  <2>1. r \in Seq(Bytes) /\ Len(r) = Len(b) - c BY Rest, <1>a
  <2>2. \A k \in 1..Len(b) - c : r[k] = b[c + k] /\ c + k \in 1..Len(b) BY Rest, <1>a
  <2> QED BY <2>1, <2>2
<1> HIDE DEF d, r
<1>6. /\ t \in Seq(Bytes) /\ Len(t) = Len(q) + c - 1
      /\ \A k \in 1..Len(q) : t[k] = q[k]
      /\ \A k \in Len(q) + 1..Len(t) : t[k] = d[k - Len(q)] /\ k - Len(q) \in 1..c - 1
  <2>1. /\ t \in Seq(Bytes) /\ Len(t) = Len(q) + Len(d)
        /\ \A k \in 1..Len(q) : t[k] = q[k]
        /\ \A k \in Len(q) + 1..Len(t) : t[k] = d[k - Len(q)] /\ k - Len(q) \in 1..Len(d)
    BY <1>4, Joined
  <2> HIDE DEF t
  <2>2. Len(q) + Len(d) = Len(q) + c - 1 BY <1>0, <1>4
  <2> QED BY <1>4, <2>1, <2>2
<1> HIDE DEF t
<1>7. ASSUME NEW k \in 1..Len(t) PROVE t[k] = f[s + k] /\ t[k] # NL
  <2>1. CASE k \in 1..Len(q) BY <1>1, <1>6, <2>1
  <2>2. CASE k \in Len(q) + 1..Len(t)
    <3> DEFINE m == k - Len(q)
    <3>1. m \in 1..c - 1 /\ t[k] = d[m] BY <1>6, <2>2
    <3>2. m \in 1..Len(b) /\ d[m] = b[m] /\ b[m] # NL BY <1>4, <1>a, <3>1
    <3>3. b[m] = f[p - Len(b) + m] BY <1>1, <3>2
    <3>4. p - Len(b) + m = s + k BY <1>1
    <3> QED BY <3>1, <3>2, <3>3, <3>4
  <2> QED BY <1>6, <2>1, <2>2
<1>8. \A j \in s + 1..i - 1 : f[j] # NL
  <2> SUFFICES ASSUME NEW j \in s + 1..i - 1 PROVE f[j] # NL OBVIOUS
  <2>1. j - s \in 1..Len(t) /\ s + (j - s) = j BY <1>0, <1>2, <1>6
  <2> QED BY <1>7, <2>1
<1> DEFINE e == f[i - 1]
<1>9. /\ e \in Exchanges /\ i = s + Size[e] + 1
      /\ \A j \in s + 1..i - 1 : f[j] = e
  BY <1>2, <1>3, <1>8, LineBetween
<1>10. Size[e] \in Nat BY <1>9, SizePositive
<1> HIDE DEF e
<1>11. Len(t) = Size[e]
  <2>1. s + Len(q) + c = s + Size[e] + 1 BY <1>2, <1>9
  <2>2. Len(q) + c - 1 = Size[e] BY SMTT(30), <1>0, <1>10, <2>1
  <2> QED BY <1>6, <2>2
<1>12. \A k \in 1..Size[e] : t[k] = e
  <2> SUFFICES ASSUME NEW k \in 1..Size[e] PROVE t[k] = e OBVIOUS
  <2>1. s + k \in s + 1..i - 1
    <3>1. i \in Nat BY <1>0, <1>2
    <3>2. i = s + Size[e] + 1 BY <1>9
    <3>3. \A m \in 1..Size[e] : s + m \in s + 1..i - 1 BY ONLY <3>1, <3>2, <1>10, s \in Nat, Offset
    <3> QED BY <3>3
  <2> QED BY <1>7, <1>9, <1>11, <2>1
<1>13. t = Text(e) /\ t # <<>> /\ Parse(t) = e BY <1>6, <1>9, <1>11, <1>12, ParseText
<1>14. p - Len(r) = i BY <1>0, <1>1, <1>5
<1>15. Buffered(f, p, r, <<>>)
  <2>1. Len(<<>>) = 0 OBVIOUS
  <2>2. ASSUME NEW k \in 1..Len(r) PROVE r[k] = f[p - Len(r) + k]
    <3>1. c + k \in 1..Len(b) /\ r[k] = b[c + k] BY <1>5
    <3>2. p - Len(b) + (c + k) = p - Len(r) + k BY <1>0, <1>5
    <3> QED BY <1>1, <3>1, <3>2
  <2>3. Len(<<>>) + Len(r) <= p BY <1>0, <1>1, <1>5, <2>1
  <2> QED BY <1>1, <2>1, <2>2, <2>3 DEF Buffered
<1>16. LineFound(f, s, i, t) BY <1>2, <1>3, <1>8, <1>9, <1>13 DEF LineFound, e
<1>17. RestBuffered(f, p, r, i) BY <1>5, <1>14, <1>15 DEF RestBuffered
<1> QED BY <1>16, <1>17 DEF d, t, r

-----------------------------------------------------------------------------
(* Where a line ends, and which line it is *)

LEMMA LeastByte ==
  ASSUME NEW T \in SUBSET Nat, T # {}
  PROVE  Min(T) \in T /\ \A y \in T : Min(T) <= y
<1>1. \E x \in T : \A y \in T : ~(<<y, x>> \in OpToRel(<, Nat))
  BY NatLessThanWellFounded, WFMin
<1>2. ASSUME NEW x \in T, NEW y \in T, ~(<<y, x>> \in OpToRel(<, Nat))
      PROVE  x <= y
  BY <1>2 DEF OpToRel
<1>3. \E x \in T : \A y \in T : x <= y BY <1>1, <1>2
<1> QED BY <1>3 DEF Min

LEMMA CutAt ==
  ASSUME buf \in Seq(Bytes)
  PROVE  /\ HasNL => /\ Cut \in 1..Len(buf) /\ buf[Cut] = NL
                     /\ \A k \in 1..Cut - 1 : buf[k] # NL
         /\ ~HasNL => Cut = Len(buf) /\ \A k \in 1..Len(buf) : buf[k] # NL
<1>1. DOMAIN buf = 1..Len(buf) OBVIOUS
<1>2. CASE ~HasNL BY <1>1, <1>2 DEF HasNL, Cut
<1>3. CASE HasNL
  <2> DEFINE T == {i \in DOMAIN buf : buf[i] = NL}
  <2>1. T \in SUBSET Nat /\ T # {} BY <1>1, <1>3 DEF HasNL
  <2>2. Cut = Min(T) BY <1>3 DEF Cut
  <2>3. Cut \in T /\ \A y \in T : Cut <= y BY <2>1, <2>2, LeastByte
  <2>4. ASSUME NEW k \in 1..Cut - 1, buf[k] = NL PROVE FALSE
    <3>1. k \in T /\ k < Cut BY <1>1, <2>3, <2>4
    <3> QED BY <2>3, <3>1
  <2> QED BY <1>1, <1>3, <2>3, <2>4
<1> QED BY <1>2, <1>3

\* The nth newline is the one that n - 1 precede.
LEMMA LineNumber ==
  ASSUME file \in Seq(Bytes), NEW i \in 1..Len(file), file[i] = NL,
         NEW n, n = Cardinality(Newlines(file, i))
  PROVE  n \in DOMAIN LogLines /\ LogLines[n] = file[i - 1]
<1> DEFINE ends == {k \in DOMAIN file : file[k] = NL}
           before(k) == {j \in ends : j < k}
<1>1. DOMAIN file = 1..Len(file) /\ Len(file) \in Nat OBVIOUS
<1>2. IsFiniteSet(ends) /\ Cardinality(ends) \in Nat
  <2>1. IsFiniteSet(1..Len(file)) BY <1>1, FS_Interval
  <2>2. ends \subseteq 1..Len(file) BY <1>1
  <2> QED BY <2>1, <2>2, FS_Subset, FS_CardinalityType
<1>3. ASSUME NEW k \in ends
      PROVE  /\ IsFiniteSet(before(k)) /\ Cardinality(before(k)) \in Nat
             /\ Newlines(file, k) = before(k) \cup {k}
             /\ Cardinality(Newlines(file, k)) = Cardinality(before(k)) + 1
             /\ IsFiniteSet(Newlines(file, k)) /\ Newlines(file, k) \subseteq ends
  <2>1. before(k) \subseteq ends /\ k \notin before(k) BY <1>1
  <2>2. IsFiniteSet(before(k)) BY <1>2, <2>1, FS_Subset
  <2>3. Newlines(file, k) = before(k) \cup {k}
    <3>1. k \in 1..Len(file) /\ file[k] = NL BY <1>1
    <3>2. ASSUME NEW j \in Newlines(file, k) PROVE j \in before(k) \cup {k}
      <4>1. j \in 1..k /\ file[j] = NL BY DEF Newlines
      <4>2. j \in ends /\ (j < k \/ j = k) BY <1>1, <3>1, <4>1
      <4> QED BY <4>2
    <3>3. ASSUME NEW j \in before(k) \cup {k} PROVE j \in Newlines(file, k)
      <4>1. j \in 1..k /\ file[j] = NL BY <1>1, <3>1
      <4> QED BY <4>1 DEF Newlines
    <3> QED BY <3>2, <3>3
  <2>4. Cardinality(before(k)) \in Nat BY <2>2, FS_CardinalityType
  <2>5. Cardinality(before(k) \cup {k}) = Cardinality(before(k)) + 1
    BY <2>1, <2>2, FS_AddElement
  <2>6. IsFiniteSet(before(k) \cup {k}) BY <2>2, FS_AddElement
  <2>7. before(k) \cup {k} \subseteq ends BY <2>1
  <2> HIDE DEF before
  <2> QED BY <2>2, <2>3, <2>4, <2>5, <2>6, <2>7
<1>4. i \in ends BY <1>1
<1>5. Cardinality(before(i)) = n - 1 /\ n \in Nat /\ n >= 1
  <2>1. Cardinality(before(i)) \in Nat /\ n = Cardinality(before(i)) + 1 BY <1>3, <1>4
  <2> HIDE DEF before, ends
  <2> QED BY <2>1
<1>6. n \in 1..Cardinality(ends)
  <2>1. Cardinality(Newlines(file, i)) <= Cardinality(ends) BY <1>2, <1>3, <1>4, FS_Subset
  <2> QED BY <1>2, <1>5, <2>1
<1>7. ASSUME NEW k \in ends, NEW l \in ends, k < l
      PROVE  Cardinality(before(k)) # Cardinality(before(l))
  <2>1. Newlines(file, k) \subseteq before(l)
    <3>1. \A j \in Newlines(file, k) : j \in ends /\ j <= k BY <1>3 DEF Newlines
    <3>2. \A j \in ends : j <= k => j < l BY <1>1, <1>7
    <3> QED BY <3>1, <3>2
  <2>2. Cardinality(Newlines(file, k)) <= Cardinality(before(l))
    BY <1>3, <2>1, FS_Subset
  <2>3. /\ Cardinality(before(k)) \in Nat /\ Cardinality(before(l)) \in Nat
        /\ Cardinality(Newlines(file, k)) = Cardinality(before(k)) + 1
    BY <1>3
  <2> HIDE DEF before, ends
  <2> QED BY <2>2, <2>3
<1>8. ASSUME NEW k \in ends, Cardinality(before(k)) = n - 1 PROVE k = i
  <2>1. ~(k < i) /\ ~(i < k) BY <1>4, <1>5, <1>7, <1>8
  <2>2. k \in Nat /\ i \in Nat BY <1>1, <1>4
  <2> QED BY <2>1, <2>2
<1> DEFINE nth(m) == CHOOSE k \in ends : Cardinality({j \in ends : j < k}) = m - 1
<1>9. nth(n) = i BY <1>4, <1>5, <1>8
<1>10. LogLines = [m \in 1..Cardinality(ends) |-> file[nth(m) - 1]] BY DEF LogLines
<1> HIDE DEF ends, nth
<1> QED BY <1>6, <1>9, <1>10

-----------------------------------------------------------------------------
(* What a datagram tells *)

\* A message is in a datagram or in an exchange that was read at a start.
Covered(e) ==
  \A x \in ToSet(Messages[e]) :
    \/ \E d \in datagrams : x \in d.messages
    \/ \E h \in history : x \in ToSet(Messages[h])

\* A datagram leaves out only what the exchange it is compared with has.
LEMMA EmittedTells ==
  ASSUME NEW e \in Exchanges, NEW p \in Exchanges \cup {None},
         NEW x \in ToSet(Messages[e])
  PROVE  \/ \E d \in Emitted(p, e) : x \in d.messages
         \/ p # None /\ x \in ToSet(Messages[p])
<1> DEFINE cur == Messages[e]
           old == Messages[p]
           new == IF p = None THEN cur ELSE diff_messages(old, cur)
           blocks == IF p = None THEN {} ELSE diff_blocks(Blocks[p], Blocks[e])
           record == [rec |-> e, line |-> line_number + 1, prev |-> p,
                      startup |-> p = None, messages |-> ToSet(new)]
<1>1. cur \in Seq(ToSet(cur)) BY MessagesAssumption
<1>2. PICK i \in 1..Len(cur) : x = cur[i] BY <1>1 DEF ToSet
<1>3. Emitted(p, e) = IF new = <<>> /\ blocks = {} THEN {} ELSE {record} BY DEF Emitted
<1>4. record.messages = ToSet(new) OBVIOUS
<1>5. SUFFICES ASSUME ~(p # None /\ x \in ToSet(old)) PROVE x \in ToSet(new) /\ new # <<>>
  BY <1>3, <1>4, <1>5
<1> HIDE DEF record, blocks, cur, old
<1>6. CASE p = None
  <2>1. new = cur BY <1>6
  <2>2. cur # <<>> BY <1>1, <1>2
  <2> QED BY <2>1, <2>2 DEF cur
<1>7. CASE p # None
  <2> DEFINE differ == {k \in DOMAIN cur : k > Len(old) \/ cur[k] # old[k]}
  <2>1. p \in Exchanges BY <1>7
  <2>2. old \in Seq(ToSet(old)) BY <2>1, MessagesAssumption DEF old
  <2>3. i \in differ
    <3> SUFFICES ASSUME i <= Len(old), cur[i] = old[i] PROVE FALSE BY <1>1, <1>2, <2>2
    <3>1. i \in DOMAIN old BY <1>2, <2>2
    <3> QED BY <1>2, <1>5, <1>7, <3>1 DEF ToSet
  <2>4. differ \in SUBSET Nat /\ differ \subseteq 1..Len(cur) BY <1>1
  <2>5. Min(differ) \in differ /\ Min(differ) <= i BY <2>3, <2>4, LeastByte
  <2> DEFINE m == Min(differ)
  <2>6. m \in 1..Len(cur) /\ m <= i BY <2>4, <2>5
  <2>7. new = SubSeq(cur, m, Len(cur)) BY <1>7, <2>3 DEF diff_messages
  <2> HIDE DEF differ, m, new
  <2>8. Len(new) = Len(cur) - m + 1 /\ \A k \in 1..Len(cur) - m + 1 : new[k] = cur[m + k - 1]
    BY <1>1, <2>6, <2>7
  <2>9. i - m + 1 \in 1..Len(cur) - m + 1 BY <1>1, <1>2, <2>6
  <2>10. new[i - m + 1] = x
    <3>1. m + (i - m + 1) - 1 = i BY <1>2, <2>6
    <3> QED BY <1>2, <2>8, <2>9, <3>1
  <2>11. DOMAIN new = 1..Len(cur) - m + 1 BY <1>1, <2>6, <2>7
  <2>12. i - m + 1 \in DOMAIN new BY <2>9, <2>11
  <2>13. new # <<>> BY <2>12
  <2>14. x \in ToSet(new) BY <2>10, <2>12 DEF ToSet
  <2> QED BY <2>13, <2>14
<1> QED BY <1>6, <1>7

-----------------------------------------------------------------------------
(* Types *)

LEMMA TakenType ==
  ASSUME buf \in Seq(Bytes), partial_line \in Seq(Bytes)
  PROVE  /\ Taken \in Seq(Bytes)
         /\ SubSeq(buf, Cut + 1, Len(buf)) \in Seq(Bytes)
         /\ Len(SubSeq(buf, Cut + 1, Len(buf))) <= Len(buf)
<1>1. Cut \in 0..Len(buf) /\ (HasNL => Cut \in 1..Len(buf)) BY CutAt
<1> DEFINE n == IF HasNL THEN Cut - 1 ELSE Cut
<1>2. n \in 0..Len(buf) BY <1>1
<1> HIDE DEF n
<1>3. SubSeq(buf, 1, n) \in Seq(Bytes) BY <1>2
<1>4. partial_line \o SubSeq(buf, 1, n) \in Seq(Bytes) BY <1>3
<1>5. Taken \in Seq(Bytes) BY <1>4 DEF Taken, n
<1> QED BY <1>1, <1>5

FileTypes ==
  /\ file \in Seq(Bytes) /\ archived \in Seq(Bytes)
  /\ raw \in Seq(Bytes) /\ redo \in Seq(Bytes)
  /\ written \in Bytes /\ last \in Bytes
  /\ writer \in {"idle", "newline", "rewrite"}

FlagTypes ==
  /\ exists \in BOOLEAN /\ fresh \in BOOLEAN /\ shrunk \in BOOLEAN /\ polled \in BOOLEAN
  /\ malformed \in BOOLEAN /\ replaying \in BOOLEAN /\ stale \in BOOLEAN
  /\ disturbed \in BOOLEAN
  /\ stage \in {"wait", "load", "seek", "follow", "check"}

ReadTypes ==
  /\ buf \in Seq(Bytes) /\ partial_line \in Seq(Bytes)
  /\ pos \in Nat /\ Len(buf) <= pos
  /\ previous \in Exchanges \cup {None} /\ line_number \in Nat
  /\ stage \in {"seek", "check"} => buf = <<>>

CountTypes == compactions \in Nat /\ restarts \in Nat /\ replays \in Nat

SeenTypes ==
  /\ processed \subseteq Exchanges /\ history \subseteq Exchanges /\ due \subseteq Exchanges

\* The log exists from its first line on, and a replay begins with an exchange.
LogBegins ==
  /\ exists <=> last # None
  /\ ~exists => file = <<>> /\ writer = "idle"
  /\ written > 0 => raw # <<>>
  /\ raw # <<>> => raw[1] # None
  /\ replaying => (last = None => redo # <<>> /\ redo[1] # None)
  /\ ~replaying => (written > 0 => exists)

WatchTypes == LogBegins /\ FileTypes /\ FlagTypes /\ ReadTypes /\ CountTypes /\ SeenTypes

LEMMA BytesOf ==
  /\ Bytes = 0..N /\ Exchanges \subseteq Bytes /\ Bytes = Exchanges \cup {None}
  /\ 0 \in Bytes /\ NL \in Bytes /\ None \in Bytes /\ 1 \in Exchanges
BY SizeAssumption DEF Bytes, Exchanges, NL, None

LEMMA TypesTypeOK ==
  WatchTypes => WatchTypeOK
<1> SUFFICES ASSUME WatchTypes PROVE WatchTypeOK OBVIOUS
<1>1. {exists, fresh, shrunk, polled, malformed} \subseteq BOOLEAN
  BY DEF WatchTypes, FlagTypes
<1>2. {replaying, stale, disturbed} \subseteq BOOLEAN
  BY DEF WatchTypes, FlagTypes
<1>3. stage \in {"wait", "load", "seek"} \cup Following
  BY DEF WatchTypes, FlagTypes, Following
<1>4. {compactions, restarts, line_number} \subseteq Nat /\ replays \in Nat
  BY DEF WatchTypes, CountTypes, ReadTypes
<1>5. previous \in 0..N BY BytesOf DEF WatchTypes, ReadTypes
<1>6. {written, last} \subseteq 0..N BY BytesOf DEF WatchTypes, FileTypes
<1>7. processed \cup history \cup due \subseteq Exchanges BY DEF WatchTypes, SeenTypes
<1> QED BY <1>1, <1>2, <1>3, <1>4, <1>5, <1>6, <1>7, BytesOf
        DEF WatchTypes, FileTypes, ReadTypes, WatchTypeOK

\* The pipeline and the replay leave the watcher alone, and the watcher the log.
LEMMA WriterFrame ==
  Pipeline \/ Replay =>
    UNCHANGED <<stage, pos, buf, partial_line, line_number, previous, restarts, datagrams,
                processed, history, malformed, fresh>>
BY DEF Pipeline, Replay, AppendText, AppendNewline, Truncate, Rewrite, Archive, ReplayLine,
       EndReplay, reader, seen

LEMMA WatcherFrame ==
  Watch \/ Restart =>
    UNCHANGED <<file, exists, written, last, writer, compactions, raw, replaying, redo, replays>>
BY DEF Watch, Restart, Open, Fill, LoadLine, LoadEnd, SeekEnd, FollowLine, AtEnd, Check,
       fileVars, replayVars

LEMMA WatchTypesInit ==
  WatchInit => WatchTypes
<1> SUFFICES ASSUME WatchInit PROVE WatchTypes OBVIOUS
<1>2. LineOf(1) \in Seq(Bytes) BY BytesOf, LineBytes
<1>3. file \in Seq(Bytes)
  <2>1. CASE written = 0 BY <2>1 DEF WatchInit
  <2>2. CASE written = 1 BY <1>2, <2>2 DEF WatchInit
  <2> QED BY <2>1, <2>2 DEF WatchInit
<1>4. raw \in Seq(Bytes)
  <2>1. <<1>> \in Seq(Bytes) /\ <<>> \in Seq(Bytes) BY BytesOf
  <2>2. written = 0 \/ written = 1 BY DEF WatchInit
  <2>3. raw = <<>> \/ raw = <<1>> BY <2>2 DEF WatchInit
  <2> QED BY <2>1, <2>3
<1>5. FileTypes BY <1>3, <1>4, BytesOf DEF WatchInit, FileTypes
<1>6. FlagTypes
  <2>1. exists \in BOOLEAN BY DEF WatchInit
  <2>2. fresh \in BOOLEAN BY DEF WatchInit
  <2>3. stage \in {"wait", "load", "seek", "follow", "check"} BY DEF WatchInit
  <2> QED BY <2>1, <2>2, <2>3 DEF WatchInit, FlagTypes
<1>7. ReadTypes BY DEF WatchInit, ReadTypes
<1>8. CountTypes BY DEF WatchInit, CountTypes
<1>9. SeenTypes BY DEF WatchInit, SeenTypes
<1>10. LogBegins
  <2>1. CASE written = 0
    <3>1. /\ file = <<>> /\ raw = <<>> /\ last = None /\ writer = "idle" /\ replaying = FALSE
          /\ ~(written > 0)
      BY <2>1 DEF WatchInit, None
    <3>2. ~exists
      <4>1. exists = (written > 0) BY DEF WatchInit
      <4> QED BY <3>1, <4>1
    <3> QED BY <3>1, <3>2 DEF LogBegins
  <2>2. CASE written = 1
    <3>1. raw = <<1>> /\ last = 1 /\ replaying = FALSE BY <2>2 DEF WatchInit
    <3>2. exists = TRUE
      <4>1. exists = (written > 0) BY DEF WatchInit
      <4>2. written > 0 BY <2>2
      <4> QED BY <4>1, <4>2
    <3>3. 1 # None /\ raw[1] = 1 /\ raw # <<>> BY <3>1 DEF None
    <3> QED BY <3>1, <3>2, <3>3 DEF LogBegins
  <2> QED BY <2>1, <2>2 DEF WatchInit
<1> QED BY <1>5, <1>6, <1>7, <1>8, <1>9, <1>10 DEF WatchTypes

LEMMA FileTypesStep ==
  WatchTypes /\ [WatchNext]_watchVars => FileTypes'
<1> SUFFICES ASSUME WatchTypes, [WatchNext]_watchVars PROVE FileTypes' OBVIOUS
<1> USE DEF WatchTypes, FileTypes
<1>1. CASE AppendText
  <2>1. written' \in Exchanges BY <1>1, BytesOf, SizeAssumption DEF AppendText, Exchanges
  <2>2. Text(written') \in Seq(Bytes) BY <2>1, TextBytes
  <2>3. file' \in Seq(Bytes) BY <1>1, <2>2 DEF AppendText, Write
  <2>4. raw' \in Seq(Bytes) BY <1>1, <2>1, BytesOf DEF AppendText
  <2>5. UNCHANGED <<archived, redo>> BY <1>1 DEF AppendText, held, replayVars
  <2>6. writer' = "newline" /\ last' = written' BY <1>1 DEF AppendText, Write
  <2> QED BY <2>1, <2>3, <2>4, <2>5, <2>6, BytesOf
<1>2. CASE AppendNewline BY <1>2, BytesOf DEF AppendNewline, held, replayVars
<1>3. CASE Truncate BY <1>3, BytesOf DEF Truncate, Empty, held, replayVars
<1>4. CASE Rewrite
  <2>1. last \in Exchanges BY <1>4, BytesOf DEF Rewrite, LogBegins
  <2>2. LineOf(last) \in Seq(Bytes) BY <2>1, LineBytes
  <2> QED BY <1>4, <2>2 DEF Rewrite, held, replayVars
<1>5. CASE Archive BY <1>5, BytesOf DEF Archive
<1>6. CASE ReplayLine
  <2>1. redo # <<>> /\ redo' = Tail(redo) /\ UNCHANGED <<archived, raw, written>>
    BY <1>6 DEF ReplayLine, held
  <2>2. redo' \in Seq(Bytes) /\ Head(redo) \in Bytes BY <2>1
  <2>3. CASE Head(redo) = None BY <1>6, <2>1, <2>2, <2>3 DEF ReplayLine, Empty
  <2>4. CASE Head(redo) # None
    <3>1. Head(redo) \in Exchanges BY <2>2, <2>4, BytesOf
    <3>2. Text(Head(redo)) \in Seq(Bytes) BY <3>1, TextBytes
    <3>3. writer' = "newline" /\ file' = file \o Text(Head(redo)) /\ last' = Head(redo)
      BY <1>6, <2>4 DEF ReplayLine, Write
    <3>4. file' \in Seq(Bytes) BY <3>2, <3>3
    <3> QED BY <2>1, <2>2, <3>3, <3>4
  <2> QED BY <2>3, <2>4
<1>7. CASE EndReplay BY <1>7 DEF EndReplay, fileVars, held
<1>8. CASE Watch \/ Restart
  <2>1. archived' = archived \/ archived' = <<>>
    BY <1>8 DEF Watch, Restart, Open, Fill, LoadLine, LoadEnd, SeekEnd, FollowLine, AtEnd, Check,
       held
  <2>2. UNCHANGED <<file, written, last, writer, raw, redo>> BY <1>8, WatcherFrame
  <2>3. archived' \in Seq(Bytes) BY <2>1, NoLine
  <2> QED BY <2>2, <2>3
<1>9. CASE UNCHANGED watchVars BY <1>9 DEF watchVars, fileVars, replayVars, held
<1> QED BY <1>1, <1>2, <1>3, <1>4, <1>5, <1>6, <1>7, <1>8, <1>9 DEF WatchNext, Pipeline, Replay

LEMMA LogBeginsStep ==
  WatchTypes /\ [WatchNext]_watchVars => LogBegins'
<1> SUFFICES ASSUME WatchTypes, [WatchNext]_watchVars PROVE LogBegins' OBVIOUS
<1> USE DEF WatchTypes, LogBegins
<1>0. /\ raw \in Seq(Bytes) /\ redo \in Seq(Bytes) /\ written \in Nat
      /\ exists \in BOOLEAN /\ replaying \in BOOLEAN
  BY BytesOf, SizeAssumption DEF FileTypes, FlagTypes
<1>1. CASE AppendText
  <2>1. written' # None /\ written' = written + 1 /\ raw' = Append(raw, written')
    BY <1>0, <1>1 DEF AppendText, None
  <2>2. raw' # <<>> /\ raw'[1] # None BY <1>0, <2>1
  <2>3. last' = written' /\ exists' = TRUE BY <1>1 DEF AppendText, Write
  <2>4. ~replaying /\ UNCHANGED replaying BY <1>1 DEF AppendText, May, replayVars
  <2> QED BY <2>1, <2>2, <2>3, <2>4
<1>2. CASE AppendNewline BY <1>2 DEF AppendNewline, replayVars
<1>3. CASE Truncate
  <2>1. ~replaying /\ exists /\ raw # <<>> /\ raw' = Append(raw, None)
    BY <1>3 DEF Truncate, May
  <2>2. raw' # <<>> /\ raw'[1] # None BY <1>0, <2>1
  <2>3. UNCHANGED <<written, last, exists, replaying>> BY <1>3 DEF Truncate, Empty, replayVars
  <2> QED BY <2>1, <2>2, <2>3
<1>4. CASE Rewrite BY <1>4 DEF Rewrite, replayVars
<1>5. CASE Archive
  <2>1. raw # <<>> BY <1>0, <1>5 DEF Archive
  <2> QED BY <1>5, <2>1 DEF Archive
<1>6. CASE ReplayLine
  <2>1. /\ redo # <<>> /\ redo' = Tail(redo) /\ Head(redo) = redo[1] /\ replaying
        /\ UNCHANGED <<raw, written, replaying>>
    BY <1>0, <1>6 DEF ReplayLine
  <2>2. CASE Head(redo) = None
    <3>1. UNCHANGED <<exists, last>> BY <1>6, <2>2 DEF ReplayLine, Empty
    <3> QED BY <2>1, <2>2, <3>1
  <2>3. CASE Head(redo) # None
    <3>1. exists' = TRUE /\ last' = Head(redo) BY <1>6, <2>3 DEF ReplayLine, Write
    <3> QED BY <2>1, <2>3, <3>1
  <2> QED BY <2>2, <2>3
<1>7. CASE EndReplay BY <1>7 DEF EndReplay, fileVars
<1>8. CASE Watch \/ Restart BY <1>8, WatcherFrame
<1>9. CASE UNCHANGED watchVars BY <1>9 DEF watchVars, fileVars, replayVars
<1> QED BY <1>1, <1>2, <1>3, <1>4, <1>5, <1>6, <1>7, <1>8, <1>9 DEF WatchNext, Pipeline, Replay

LEMMA FlagTypesStep ==
  WatchTypes /\ [WatchNext]_watchVars => FlagTypes'
<1> SUFFICES ASSUME WatchTypes, [WatchNext]_watchVars PROVE FlagTypes' OBVIOUS
<1> USE DEF WatchTypes, FlagTypes, fileVars, replayVars, held, seen
<1>1. CASE AppendText BY <1>1 DEF AppendText, Write
<1>2. CASE AppendNewline BY <1>2 DEF AppendNewline
<1>3. CASE Truncate BY <1>3 DEF Truncate, Empty
<1>4. CASE Rewrite BY <1>4 DEF Rewrite
<1>5. CASE Archive BY <1>5 DEF Archive
<1>6. CASE ReplayLine BY <1>6 DEF ReplayLine, Write, Empty
<1>7. CASE EndReplay BY <1>7 DEF EndReplay
<1>8. CASE Open BY <1>8 DEF Open
<1>9. CASE Fill BY <1>9 DEF Fill
<1>10. CASE LoadLine BY <1>10 DEF LoadLine, Load
<1>11. CASE LoadEnd BY <1>11 DEF LoadEnd, Load
<1>12. CASE SeekEnd BY <1>12 DEF SeekEnd
<1>13. CASE FollowLine BY <1>13 DEF FollowLine
<1>14. CASE AtEnd BY <1>14 DEF AtEnd
<1>15. CASE Check BY <1>15 DEF Check
<1>16. CASE Restart BY <1>16 DEF Restart
<1>17. CASE UNCHANGED watchVars BY <1>17 DEF watchVars
<1> QED BY <1>1, <1>2, <1>3, <1>4, <1>5, <1>6, <1>7, <1>8, <1>9, <1>10, <1>11, <1>12, <1>13,
           <1>14, <1>15, <1>16, <1>17 DEF WatchNext, Pipeline, Watch, Replay

LEMMA ReadTypesStep ==
  WatchTypes /\ [WatchNext]_watchVars => ReadTypes'
<1> SUFFICES ASSUME WatchTypes, [WatchNext]_watchVars PROVE ReadTypes' OBVIOUS
<1> USE DEF WatchTypes, ReadTypes
<1>0. Held \in Seq(Bytes) BY DEF Held, FileTypes
<1>1. CASE Pipeline \/ Replay BY <1>1, WriterFrame
<1>2. CASE Open \/ AtEnd BY <1>2 DEF Open, AtEnd, reader
<1>3. CASE Fill
  <2>1. PICK n \in pos + 1..Len(Held) : buf' = SubSeq(Held, pos + 1, n) /\ pos' = n
    BY <1>3 DEF Fill
  <2>2. buf' \in Seq(Bytes) /\ Len(buf') = n - pos /\ n \in Nat BY <1>0, <2>1
  <2>3. UNCHANGED <<partial_line, line_number, previous, stage>> /\ stage \in {"load", "follow"}
    BY <1>3 DEF Fill
  <2> QED BY <2>1, <2>2, <2>3
<1>4. CASE LoadLine
  <2>1. buf' \in Seq(Bytes) /\ Len(buf') <= Len(buf) /\ pos' = pos /\ Len(buf) \in Nat
        /\ Len(buf') \in Nat
    BY <1>4, TakenType DEF LoadLine, Consume
  <2>2. partial_line' \in Seq(Bytes)
    <3>1. Taken \in Seq(Bytes) BY TakenType
    <3>2. partial_line' = <<>> \/ partial_line' = Taken BY <1>4 DEF LoadLine
    <3> QED BY <3>1, <3>2, NoLine
  <2>3. previous' \in Exchanges \cup {None} /\ line_number' \in Nat
    BY <1>4, ParseType DEF LoadLine, Load
  <2>4. stage' = "load" BY <1>4 DEF LoadLine
  <2> QED BY <2>1, <2>2, <2>3, <2>4
<1>5. CASE LoadEnd
  <2>1. previous' \in Exchanges \cup {None} /\ line_number' \in Nat
    BY <1>5, ParseType DEF LoadEnd, Load
  <2> QED BY <1>5, <2>1 DEF LoadEnd
<1>6. CASE SeekEnd
  <2>1. stage = "seek" BY <1>6 DEF SeekEnd
  <2> QED BY <1>0, <1>6 DEF SeekEnd
<1>7. CASE FollowLine
  <2>1. buf' \in Seq(Bytes) /\ Len(buf') <= Len(buf) /\ pos' = pos /\ Len(buf) \in Nat
        /\ Len(buf') \in Nat
    BY <1>7, TakenType DEF FollowLine, Consume
  <2>2. partial_line' \in Seq(Bytes)
    <3>1. Taken \in Seq(Bytes) BY TakenType
    <3>2. partial_line' = <<>> \/ partial_line' = Taken BY <1>7 DEF FollowLine
    <3> QED BY <3>1, <3>2, NoLine
  <2>3. previous' \in Exchanges \cup {None} /\ line_number' \in Nat
    BY <1>7, ParseType DEF FollowLine, seen
  <2>4. stage' = "follow" BY <1>7 DEF FollowLine
  <2> QED BY <2>1, <2>2, <2>3, <2>4
<1>8. CASE Check
  <2>1. stage = "check" /\ stage' = "follow" /\ buf' = buf BY <1>8 DEF Check
  <2>2. CASE exists /\ Len(file) < pos
    <3>1. pos' = 0 /\ line_number' = 0 /\ previous' = None /\ partial_line' = <<>>
      BY <1>8, <2>2 DEF Check, Reset
    <3> QED BY <2>1, <3>1, NoLine
  <2>3. CASE ~(exists /\ Len(file) < pos)
    <3>1. UNCHANGED <<pos, partial_line, line_number, previous>>
      BY <1>8, <2>3 DEF Check, reader
    <3> QED BY <2>1, <3>1
  <2> QED BY <2>2, <2>3
<1>9. CASE Restart BY <1>9 DEF Restart
<1>10. CASE UNCHANGED watchVars BY <1>10 DEF watchVars, reader
<1> QED BY <1>1, <1>2, <1>3, <1>4, <1>5, <1>6, <1>7, <1>8, <1>9, <1>10 DEF WatchNext, Watch

LEMMA CountTypesStep ==
  WatchTypes /\ [WatchNext]_watchVars => CountTypes'
<1> SUFFICES ASSUME WatchTypes, [WatchNext]_watchVars PROVE CountTypes' OBVIOUS
<1> USE DEF WatchTypes, CountTypes
<1>1. CASE Pipeline BY <1>1 DEF Pipeline, AppendText, AppendNewline, Truncate, Rewrite, replayVars
<1>2. CASE Replay BY <1>2 DEF Replay, Archive, ReplayLine, EndReplay, fileVars
<1>3. CASE Watch BY <1>3 DEF Watch, Open, Fill, LoadLine, LoadEnd, SeekEnd, FollowLine, AtEnd,
                            Check, fileVars, replayVars
<1>4. CASE Restart BY <1>4 DEF Restart, fileVars, replayVars
<1>5. CASE UNCHANGED watchVars BY <1>5 DEF watchVars, fileVars, replayVars
<1> QED BY <1>1, <1>2, <1>3, <1>4, <1>5 DEF WatchNext

LEMMA SeenTypesStep ==
  WatchTypes /\ [WatchNext]_watchVars => SeenTypes'
<1> SUFFICES ASSUME WatchTypes, [WatchNext]_watchVars PROVE SeenTypes' OBVIOUS
<1> USE DEF WatchTypes, SeenTypes
<1>1. CASE AppendText
  <2>1. written' \in Exchanges
    BY <1>1, BytesOf, SizeAssumption DEF AppendText, Exchanges, FileTypes
  <2> QED BY <1>1, <2>1 DEF AppendText, seen
<1>2. CASE AppendNewline \/ Truncate \/ Rewrite \/ Replay
  BY <1>2 DEF AppendNewline, Truncate, Rewrite, Replay, Archive, ReplayLine, EndReplay, seen
<1>3. CASE Open \/ Fill \/ SeekEnd \/ AtEnd \/ Check \/ Restart
  BY <1>3 DEF Open, Fill, SeekEnd, AtEnd, Check, Restart, seen
<1>4. CASE LoadLine BY <1>4, ParseType DEF LoadLine, Load, seen
<1>5. CASE LoadEnd BY <1>5, ParseType DEF LoadEnd, Load, seen
<1>6. CASE FollowLine BY <1>6, ParseType DEF FollowLine, seen
<1>7. CASE UNCHANGED watchVars BY <1>7 DEF watchVars, seen
<1> QED BY <1>1, <1>2, <1>3, <1>4, <1>5, <1>6, <1>7 DEF WatchNext, Pipeline, Watch

LEMMA WatchTypesStep ==
  WatchTypes /\ [WatchNext]_watchVars => WatchTypes'
BY LogBeginsStep, FileTypesStep, FlagTypesStep, ReadTypesStep, CountTypesStep, SeenTypesStep DEF WatchTypes

\* The variables of the watcher and of the pipeline keep their types.
THEOREM WatcherTypes ==
  WatchSpec => []WatchTypeOK
<1>1. WatchInit => WatchTypes BY WatchTypesInit
<1>2. WatchTypes /\ [WatchNext]_watchVars => WatchTypes' BY WatchTypesStep
<1>3. WatchTypes => WatchTypeOK BY TypesTypeOK
<1> QED BY <1>1, <1>2, <1>3, PTL DEF WatchSpec

-----------------------------------------------------------------------------
(* The log, whoever writes it *)

\* Between two operations the log is whole lines and ends in that of `last`; in
\* an append the newline is missing, in a truncation everything.
FileKept ==
  /\ WholeLines(file)
  /\ exists /\ writer = "idle" => EndsInLine(file, last)
  /\ writer = "newline" => EndsInText(file, last)
  /\ writer = "rewrite" => file = <<>>

LEMMA FileKeptInit ==
  WatchInit => FileKept
<1> SUFFICES ASSUME WatchInit PROVE FileKept OBVIOUS
<1>1. writer = "idle" BY DEF WatchInit
<1>2. CASE written = 0
  <2>1. file = <<>> /\ ~(written > 0) BY <1>2 DEF WatchInit
  <2>2. ~exists BY <2>1 DEF WatchInit
  <2> QED BY <1>1, <2>1, <2>2, NoLine DEF FileKept
<1>3. CASE written = 1
  <2>1. file = LineOf(1) /\ last = 1 BY <1>3 DEF WatchInit
  <2> QED BY <1>1, <2>1, OneLine, BytesOf DEF FileKept
<1> QED BY <1>2, <1>3 DEF WatchInit

\* An exchange is appended to whole lines.
LEMMA AppendKept ==
  ASSUME WatchTypes, FileKept, NEW e \in Exchanges, Write(e)
  PROVE  FileKept' /\ Extends(file', file)
<1>1. /\ writer = "idle" /\ writer' = "newline" /\ file' = file \o Text(e) /\ exists' = TRUE
      /\ last' = e
  BY DEF Write
<1>2. file \in Seq(Bytes) BY DEF WatchTypes, FileTypes
<1>3. file # <<>> => file[Len(file)] = NL
  <2>1. file # <<>> => exists BY DEF WatchTypes, LogBegins
  <2> QED BY <1>1, <2>1 DEF FileKept, EndsInLine
<1>4. WholeLines(file') /\ EndsInText(file', e) /\ Extends(file', file)
  BY <1>1, <1>2, <1>3, TextWritten DEF FileKept
<1> QED BY <1>1, <1>4 DEF FileKept

LEMMA NewlineKept ==
  ASSUME WatchTypes, FileKept, AppendNewline
  PROVE  FileKept' /\ Extends(file', file)
<1>1. /\ writer = "newline" /\ writer' = "idle" /\ file' = Append(file, NL)
      /\ last' = last /\ exists' = exists
  BY DEF AppendNewline
<1>2. file \in Seq(Bytes) BY DEF WatchTypes, FileTypes
<1>3. WholeLines(file') /\ EndsInLine(file', last) /\ Extends(file', file)
  BY <1>1, <1>2, NewlineWritten DEF FileKept
<1> QED BY <1>1, <1>3 DEF FileKept

LEMMA FileKeptStep ==
  WatchTypes /\ FileKept /\ [WatchNext]_watchVars => FileKept'
<1> SUFFICES ASSUME WatchTypes, FileKept, [WatchNext]_watchVars PROVE FileKept' OBVIOUS
<1>1. CASE AppendText
  <2>1. written' \in Exchanges
    BY <1>1, BytesOf, SizeAssumption DEF AppendText, Exchanges, WatchTypes, FileTypes
  <2>2. Write(written') BY <1>1 DEF AppendText
  <2>3. PICK e \in Exchanges : e = written' BY <2>1
  <2> QED BY <2>2, <2>3, AppendKept
<1>2. CASE AppendNewline BY <1>2, NewlineKept
<1>3. ASSUME Empty PROVE FileKept'
  <2>1. writer' = "rewrite" /\ file' = <<>> BY <1>3 DEF Empty
  <2> QED BY <2>1, NoLine DEF FileKept
<1>4. CASE Rewrite
  <2>1. last \in Exchanges
    BY <1>4, BytesOf DEF Rewrite, WatchTypes, LogBegins, FileTypes
  <2>2. file' = LineOf(last) /\ last' = last /\ writer' = "idle" BY <1>4 DEF Rewrite
  <2>3. WholeLines(LineOf(last)) /\ EndsInLine(LineOf(last), last) BY <2>1, OneLine
  <2> QED BY <2>2, <2>3 DEF FileKept
<1>5. CASE Archive
  <2>1. file' = <<>> /\ exists' = FALSE /\ writer' = "idle" BY <1>5 DEF Archive
  <2> QED BY <2>1, NoLine DEF FileKept
<1>6. CASE ReplayLine
  <2>1. redo # <<>> /\ Head(redo) \in Bytes
    BY <1>6 DEF ReplayLine, WatchTypes, FileTypes
  <2>2. CASE Head(redo) = None BY <1>3, <1>6, <2>2 DEF ReplayLine
  <2>3. CASE Head(redo) # None
    <3>1. Write(Head(redo)) BY <1>6, <2>3 DEF ReplayLine
    <3>2. Head(redo) \in Exchanges BY <2>1, <2>3, BytesOf
    <3>3. PICK e \in Exchanges : e = Head(redo) BY <3>2
    <3> QED BY <3>1, <3>3, AppendKept
  <2> QED BY <2>2, <2>3
<1>7. CASE EndReplay BY <1>7 DEF EndReplay, fileVars, FileKept
<1>8. CASE Watch \/ Restart BY <1>8, WatcherFrame DEF FileKept
<1>9. CASE UNCHANGED watchVars BY <1>9 DEF watchVars, fileVars, FileKept
<1>10. CASE Truncate BY <1>3, <1>10 DEF Truncate
<1> QED BY <1>1, <1>2, <1>4, <1>5, <1>6, <1>7, <1>8, <1>9, <1>10
        DEF WatchNext, Pipeline, Replay

-----------------------------------------------------------------------------
(* When the pipeline and a replay may act *)

\* A watcher that no replay has disturbed since it opened the log.
Steady == stage # "wait" /\ ~disturbed

\* Such a watcher has the log itself open; it has polled only in the loop; and
\* until then nothing is appended but the line whose creation it waited for.
Settled ==
  /\ stage = "wait" => ~disturbed /\ ~stale /\ ~polled /\ ~shrunk /\ ~malformed
  /\ Steady => ~replaying /\ ~stale /\ exists
  /\ polled => stage \in Following
  /\ stage \in {"wait", "load", "seek"} /\ ~disturbed /\ ~replaying =>
       writer = "idle" \/ (writer = "newline" /\ file = Text(last))

\* What an operation of the pipeline can rely on.
LEMMA MayWhen ==
  ASSUME Paced, Settled, May
  PROVE  /\ ~replaying
         /\ Steady => polled
         /\ stage = "wait" => ~exists
BY DEF Settled, May, Steady

LEMMA SettledInit ==
  WatchInit => Settled
BY DEF WatchInit, Settled, Steady

LEMMA SettledStep ==
  ASSUME Paced
  PROVE  WatchTypes /\ Settled /\ [WatchNext]_watchVars => Settled'
<1> SUFFICES ASSUME WatchTypes, Settled, [WatchNext]_watchVars PROVE Settled' OBVIOUS
<1> USE DEF Settled, Steady, Following
<1>0. /\ exists \in BOOLEAN /\ replaying \in BOOLEAN /\ stale \in BOOLEAN /\ polled \in BOOLEAN
      /\ disturbed \in BOOLEAN /\ shrunk \in BOOLEAN /\ malformed \in BOOLEAN
      /\ stage \in {"wait", "load", "seek", "follow", "check"}
  BY DEF WatchTypes, FlagTypes
<1>1. CASE AppendText
  <2>1. UNCHANGED <<replaying, stale, disturbed, stage, malformed, shrunk>> /\ ~polled' /\ exists'
    BY <1>1 DEF AppendText, Write, replayVars, held, seen
  <2>2. ~replaying /\ (Steady => polled) /\ (stage = "wait" => ~exists)
    BY <1>1, MayWhen DEF AppendText
  <2>3. CASE stage = "wait"
    <3>1. file = <<>> BY <2>2, <2>3 DEF WatchTypes, LogBegins
    <3>2. writer' = "newline" /\ file' = file \o Text(written') /\ last' = written'
      BY <1>1 DEF AppendText, Write
    <3>3. written' \in Exchanges
      BY <1>1, BytesOf, SizeAssumption DEF AppendText, Exchanges, WatchTypes, FileTypes
    <3>4. Text(written') \in Seq(Bytes) BY <3>3, TextBytes
    <3>5. PICK t \in Seq(Bytes) : t = Text(written') BY <3>4
    <3>6. <<>> \o t = t BY <3>5
    <3>7. file' = Text(last') BY <3>1, <3>2, <3>5, <3>6
    <3> QED BY <1>0, <2>1, <2>3, <3>2, <3>7
  <2>4. CASE stage # "wait" BY <1>0, <2>1, <2>2, <2>4
  <2> QED BY <2>3, <2>4
<1>2. CASE AppendNewline
  <2>1. /\ UNCHANGED <<replaying, stale, disturbed, stage, malformed, shrunk, exists>> /\ ~polled'
        /\ writer' = "idle"
    BY <1>2 DEF AppendNewline, replayVars, held, seen
  <2> QED BY <1>0, <2>1
<1>3. CASE Truncate
  <2>1. UNCHANGED <<replaying, stale, disturbed, stage, malformed, exists>> /\ ~polled'
    BY <1>3 DEF Truncate, Empty, replayVars, held, seen
  <2>2. ~replaying /\ (Steady => polled) /\ stage # "wait"
    BY <1>3, MayWhen DEF Truncate, WatchTypes, LogBegins
  <2> QED BY <1>0, <2>1, <2>2
<1>4. CASE Rewrite
  <2>1. /\ UNCHANGED <<replaying, stale, disturbed, stage, malformed, shrunk, exists>> /\ ~polled'
        /\ writer' = "idle"
    BY <1>4 DEF Rewrite, replayVars, held, seen
  <2> QED BY <1>0, <2>1
<1>5. CASE Archive
  <2>1. UNCHANGED <<stage, malformed>> /\ ~polled' /\ replaying' /\ disturbed' = (stage # "wait")
    BY <1>5 DEF Archive, seen
  <2>2. stage = "wait" => UNCHANGED <<stale, shrunk>> BY <1>5 DEF Archive
  <2> QED BY <1>0, <2>1, <2>2
<1>6. CASE ReplayLine
  <2>1. UNCHANGED <<stage, malformed, replaying, stale, disturbed>> /\ ~polled' /\ replaying
    BY <1>6 DEF ReplayLine, held, seen
  <2>2. stage = "wait" => ~shrunk'
    <3>1. CASE Empty BY <3>1 DEF Empty
    <3>2. CASE UNCHANGED shrunk BY <3>2
    <3> QED BY <1>6, <3>1, <3>2 DEF ReplayLine
  <2> QED BY <1>0, <2>1, <2>2
<1>7. CASE EndReplay
  <2>1. /\ UNCHANGED <<stage, malformed, stale, disturbed, shrunk, polled, exists, file, writer,
                       last>>
        /\ replaying /\ writer = "idle" /\ replaying' = FALSE
    BY <1>7 DEF EndReplay, held, seen, fileVars
  <2> QED BY <1>0, <2>1
<1>8. CASE Open
  <2>1. stage = "wait" /\ stage' = "load" /\ exists /\ disturbed' = replaying
        /\ UNCHANGED <<stale, polled>>
    BY <1>8 DEF Open
  <2>2. UNCHANGED <<replaying, exists, file, writer, last>> BY <1>8, WatcherFrame DEF Watch
  <2> QED BY <1>0, <2>1, <2>2
<1>9. CASE Fill \/ LoadLine \/ LoadEnd \/ SeekEnd \/ FollowLine \/ AtEnd
  <2>1. UNCHANGED <<stale, polled, disturbed>>
    BY <1>9 DEF Fill, LoadLine, LoadEnd, SeekEnd, FollowLine, AtEnd, held
  <2>2. stage # "wait" /\ stage' # "wait" /\ (stage' \in {"load", "seek"} => stage \in {"load", "seek"})
        /\ (stage \in Following => stage' \in Following)
    BY <1>9 DEF Fill, LoadLine, LoadEnd, SeekEnd, FollowLine, AtEnd
  <2>3. UNCHANGED <<replaying, exists, file, writer, last>> BY <1>9, WatcherFrame DEF Watch
  <2> QED BY <1>0, <2>1, <2>2, <2>3
<1>10. CASE Check
  <2>1. UNCHANGED <<stale, disturbed>> /\ stage = "check" /\ stage' = "follow"
    BY <1>10 DEF Check, held
  <2>2. UNCHANGED <<replaying, exists, file, writer, last>> BY <1>10, WatcherFrame DEF Watch
  <2> QED BY <1>0, <2>1, <2>2
<1>11. CASE Restart
  <2>1. /\ writer = "idle" /\ stage' = "wait" /\ shrunk' = FALSE /\ polled' = FALSE
        /\ stale' = FALSE /\ disturbed' = FALSE /\ malformed' = FALSE
    BY <1>11 DEF Restart
  <2>2. UNCHANGED <<replaying, exists, file, writer, last>> BY <1>11, WatcherFrame
  <2> QED BY <1>0, <2>1, <2>2
<1>12. CASE UNCHANGED watchVars
  BY <1>12 DEF watchVars, fileVars, replayVars, held, seen
<1> QED BY <1>1, <1>2, <1>3, <1>4, <1>5, <1>6, <1>7, <1>8, <1>9, <1>10, <1>11, <1>12
        DEF WatchNext, Pipeline, Watch, Replay

-----------------------------------------------------------------------------
(* Where an undisturbed watcher stands in the log *)

Consumed == pos - Len(buf)
Start == Consumed - Len(partial_line)

\* The watcher loaded the text of the first line before its newline was there.
Pending ==
  /\ stage \in {"seek"} \cup Following /\ ~polled
  /\ partial_line = <<>> /\ Consumed = Size[last]
  /\ line_number = 1 /\ previous = last
  /\ \/ writer = "newline" /\ file = Text(last)
     \/ writer = "idle" /\ file = LineOf(last)

\* It is in the log, after whole lines that it counted.
Reading ==
  /\ Buffered(file, pos, buf, partial_line)
  /\ AtLine(file, Start, line_number, previous) \/ Pending

\* Or the log was truncated behind its back.
Behind == (writer = "rewrite" /\ pos > 0) \/ pos > Len(file)

Truncated ==
  /\ buf = <<>> /\ partial_line = <<>> /\ stage \in Following /\ ~polled
  /\ writer = "rewrite" =>
       /\ pos > Size[last]
       /\ pos = Size[last] + 1 => line_number = 1 /\ previous = last
  /\ writer # "rewrite" => writer = "idle" /\ file = LineOf(last)

AtRest ==
  stage = "wait" =>
    pos = 0 /\ buf = <<>> /\ partial_line = <<>> /\ line_number = 0 /\ previous = None

InStep ==
  /\ ~malformed
  /\ IF Behind THEN Truncated ELSE Reading
  /\ shrunk => Behind /\ pos > Size[last] + 1
  /\ stage = "seek" =>
       /\ partial_line = <<>> /\ ~Behind
       /\ Pending \/ (writer = "idle" /\ pos = Len(file))
  /\ polled => writer = "idle" /\ pos = Len(file) /\ buf = <<>> /\ partial_line = <<>>

Watched == WatchTypes /\ FileKept /\ Settled /\ AtRest /\ (Steady => InStep)

\* A line whose end is in the buffer is the next line of the log.
LEMMA LineRead ==
  ASSUME WatchTypes, FileKept, Buffered(file, pos, buf, partial_line),
         AtLine(file, Start, line_number, previous), HasNL,
         NEW r, r = SubSeq(buf, Cut + 1, Len(buf)), NEW i, i = Consumed + Cut
  PROVE  /\ i \in 1..Len(file) /\ file[i] = NL /\ file[i - 1] \in Exchanges
         /\ Taken = Text(file[i - 1]) /\ Taken # <<>> /\ Parse(Taken) = file[i - 1]
         /\ Buffered(file, pos, r, <<>>) /\ pos - Len(r) = i
         /\ AtLine(file, i, line_number + 1, file[i - 1])
         /\ line_number + 1 = Cardinality(Newlines(file, i))
         /\ Start \in 0..Len(file)
<1>1. /\ file \in Seq(Bytes) /\ buf \in Seq(Bytes) /\ partial_line \in Seq(Bytes) /\ pos \in Nat
  BY DEF WatchTypes, FileTypes, ReadTypes
<1>2. /\ Cut \in 1..Len(buf) /\ buf[Cut] = NL /\ \A k \in 1..Cut - 1 : buf[k] # NL
  BY <1>1, CutAt
<1>3. Start \in Nat /\ Start = pos - Len(buf) - Len(partial_line) /\ i = pos - Len(buf) + Cut
      /\ Start \in 0..Len(file)
  <2>1. Len(buf) \in Nat /\ Len(partial_line) \in Nat /\ Len(file) \in Nat BY <1>1
  <2>2. Len(partial_line) + Len(buf) <= pos /\ pos <= Len(file) BY DEF Buffered
  <2> QED BY <1>1, <2>1, <2>2 DEF Start, Consumed
<1>4. Start = 0 \/ file[Start] = NL BY DEF AtLine
<1>5. WholeLines(file) BY DEF FileKept
<1>6. /\ i \in 1..Len(file) /\ Start < i /\ file[i] = NL /\ file[i - 1] \in Exchanges
      /\ \A j \in Start + 1..i - 1 : file[j] # NL
      /\ partial_line \o SubSeq(buf, 1, Cut - 1) = Text(file[i - 1])
      /\ Parse(Text(file[i - 1])) = file[i - 1] /\ Text(file[i - 1]) # <<>>
      /\ pos - Len(r) = i /\ Buffered(file, pos, r, <<>>)
  <2>1. EndOfLine(buf, Cut) BY <1>2 DEF EndOfLine
  <2>2. i \in Nat
    <3>1. Len(buf) \in Nat /\ Cut \in Nat /\ Len(buf) <= pos
      BY <1>1, <1>2 DEF WatchTypes, ReadTypes
    <3> QED BY <1>1, <1>3, <3>1
  <2>a. Cut \in Nat BY <1>2
  <2>3. PICK c \in Nat, s \in Nat : c = Cut /\ s = Start BY <1>3, <2>a
  <2>4. s = pos - Len(buf) - Len(partial_line) /\ i = pos - Len(buf) + c
        /\ (s = 0 \/ file[s] = NL) /\ EndOfLine(buf, c)
    BY <1>3, <1>4, <2>1, <2>3
  <2>5. /\ LineFound(file, s, i, partial_line \o SubSeq(buf, 1, c - 1))
        /\ RestBuffered(file, pos, SubSeq(buf, c + 1, Len(buf)), i)
    BY <1>1, <1>5, <2>2, <2>4, LineTaken
  <2>6. LineFound(file, Start, i, partial_line \o SubSeq(buf, 1, Cut - 1))
        /\ RestBuffered(file, pos, r, i)
    BY <2>3, <2>5
  <2> QED BY <2>6 DEF LineFound, RestBuffered
<1>7. Taken = Text(file[i - 1]) BY <1>6 DEF Taken
<1>8. /\ Cardinality(Newlines(file, Start)) \in Nat
      /\ Cardinality(Newlines(file, i)) = Cardinality(Newlines(file, Start)) + 1
  <2>1. i \in Nat BY <1>6
  <2> QED BY <1>3, <1>6, <2>1, NewlinesAdded
<1>9. line_number = Cardinality(Newlines(file, Start))
  <2>1. CASE Start = 0
    <3>1. Newlines(file, 0) = {} BY DEF Newlines
    <3>2. line_number = 0 BY <2>1 DEF AtLine
    <3> QED BY <2>1, <3>1, <3>2, FS_EmptySet
  <2>2. CASE Start # 0 BY <2>2 DEF AtLine
  <2> QED BY <2>1, <2>2
<1>10. AtLine(file, i, line_number + 1, file[i - 1]) BY <1>6, <1>8, <1>9 DEF AtLine
<1> QED BY <1>3, <1>6, <1>7, <1>8, <1>9, <1>10

\* A buffer without the end of a line is put to what was read of it before.
LEMMA PartRead ==
  ASSUME WatchTypes, Buffered(file, pos, buf, partial_line), ~HasNL,
         NEW r, r = SubSeq(buf, Cut + 1, Len(buf))
  PROVE  /\ r = <<>> /\ Buffered(file, pos, r, Taken)
         /\ pos - Len(r) - Len(Taken) = Start
<1>1. /\ file \in Seq(Bytes) /\ buf \in Seq(Bytes) /\ partial_line \in Seq(Bytes) /\ pos \in Nat
  BY DEF WatchTypes, FileTypes, ReadTypes
<1>2. Cut = Len(buf) /\ \A k \in 1..Len(buf) : buf[k] # NL BY <1>1, CutAt
<1>3. r = <<>> BY <1>1, <1>2
<1>4. Taken = partial_line \o buf
  <2>1. Taken = partial_line \o SubSeq(buf, 1, Len(buf)) BY <1>2 DEF Taken
  <2>2. SubSeq(buf, 1, Len(buf)) = buf BY <1>1
  <2> QED BY <2>1, <2>2
<1>5. Len(Taken) = Len(partial_line) + Len(buf) /\ Buffered(file, pos, <<>>, Taken)
  BY <1>1, <1>2, <1>4, PartTaken
<1>6. pos - Len(r) - Len(Taken) = Start
  <2>1. Len(<<>>) = 0 /\ Len(buf) \in Nat /\ Len(partial_line) \in Nat BY <1>1
  <2>2. Len(r) = 0 BY <1>3, <2>1
  <2>3. pos - Len(r) - Len(Taken) = pos - 0 - (Len(partial_line) + Len(buf)) BY <1>5, <2>2
  <2>4. pos - 0 - (Len(partial_line) + Len(buf)) = pos - Len(buf) - Len(partial_line)
    BY <1>1, <2>1
  <2> QED BY <2>3, <2>4 DEF Start, Consumed
<1> QED BY <1>3, <1>5, <1>6

\* After the one line of a log, a watcher has counted one.
LEMMA AfterOneLine ==
  ASSUME NEW e \in Exchanges, NEW f, f = LineOf(e)
  PROVE  AtLine(f, Size[e] + 1, 1, e)
<1>1. Size[e] \in Nat /\ Size[e] >= 1 /\ e # NL BY SizePositive
<1>2. f[Size[e] + 1] = NL /\ \A k \in 1..Size[e] : f[k] = e BY LineBytes
<1> DEFINE i == Size[e] + 1
<1>3. i \in Nat /\ i > 0 /\ i - 1 \in 1..Size[e] /\ i - 1 = Size[e] BY <1>1
<1>4. f[i] = NL /\ (\A j \in 1..i - 1 : f[j] # NL) /\ f[i - 1] = e BY <1>1, <1>2, <1>3
<1> HIDE DEF i
<1>5. AtLine(f, i, 1, f[i - 1]) BY <1>3, <1>4, AtFirstLine
<1> QED BY <1>4, <1>5 DEF i

LEMMA AtLineUnique ==
  ASSUME NEW f, NEW s, NEW m, NEW n, NEW d, NEW e, AtLine(f, s, m, d), AtLine(f, s, n, e)
  PROVE  m = n /\ d = e
BY DEF AtLine

\* One line that ends the log is all of it.
LEMMA OnlyLine ==
  ASSUME NEW f \in Seq(Bytes), WholeLines(f), NEW e, EndsInLine(f, e), Len(f) = Size[e] + 1
  PROVE  AtLine(f, Len(f), 1, e)
<1>1. e \in Exchanges /\ f[Len(f)] = NL /\ f[Len(f) - 1] = e BY DEF EndsInLine
<1>2. Size[e] \in Nat /\ Size[e] >= 1 /\ e # NL BY <1>1, SizePositive
<1>3. Len(f) \in 1..Len(f) /\ Len(f) \in Nat /\ Len(f) > 0 BY <1>2
<1>4. LineEndsAt(f, Len(f)) BY <1>1, <1>3 DEF WholeLines
<1>5. \A k \in Len(f) - Size[e]..Len(f) - 1 : f[k] = e BY <1>1, <1>4 DEF LineEndsAt
<1>6. Len(f) - Size[e] = 1 BY <1>2
<1>7. \A j \in 1..Len(f) - 1 : f[j] # NL BY <1>2, <1>5, <1>6
<1> QED BY <1>1, <1>3, <1>7, AtFirstLine

-----------------------------------------------------------------------------
(* Each step leaves it there *)

LEMMA WatchedTypes ==
  ASSUME Watched
  PROVE  /\ file \in Seq(Bytes) /\ buf \in Seq(Bytes) /\ partial_line \in Seq(Bytes)
         /\ pos \in Nat /\ Len(buf) \in Nat /\ Len(partial_line) \in Nat /\ Len(file) \in Nat
         /\ line_number \in Nat /\ Len(buf) <= pos
         /\ exists \in BOOLEAN /\ polled \in BOOLEAN /\ shrunk \in BOOLEAN /\ malformed \in BOOLEAN
         /\ stage \in {"wait", "load", "seek", "follow", "check"}
         /\ writer \in {"idle", "newline", "rewrite"}
         /\ exists => last \in Exchanges /\ Size[last] \in Nat /\ Size[last] >= 1
<1>1. exists => last \in Exchanges
  BY BytesOf DEF Watched, WatchTypes, LogBegins, FileTypes
<1>2. exists => Size[last] \in Nat /\ Size[last] >= 1 BY <1>1, SizePositive
<1> QED BY <1>1, <1>2 DEF Watched, WatchTypes, FileTypes, FlagTypes, ReadTypes

\* An undisturbed watcher has the log itself open.
LEMMA SteadyLog ==
  ASSUME Watched, Steady
  PROVE  exists /\ ~replaying /\ ~stale /\ Held = file /\ InStep
BY DEF Watched, Settled, Held

\* The position of a reader in the log.
LEMMA ReadingAt ==
  ASSUME Watched, Steady, Reading
  PROVE  /\ pos <= Len(file) /\ Consumed \in Nat /\ Start \in 0..Len(file)
         /\ Start + Len(partial_line) + Len(buf) = pos
<1>1. Len(partial_line) + Len(buf) <= pos /\ pos <= Len(file) BY DEF Reading, Buffered
<1> QED BY <1>1, WatchedTypes DEF Consumed, Start

\* Read to the end of a log that is whole lines, it holds no part of a line.
LEMMA NothingPartial ==
  ASSUME Watched, Steady, Reading, buf = <<>>, pos = Len(file), writer = "idle"
  PROVE  partial_line = <<>> /\ ~Pending /\ AtLine(file, pos, line_number, previous)
<1>0. exists BY SteadyLog
<1>1. file[Len(file)] = NL /\ Len(file) > Size[last] BY <1>0 DEF Watched, FileKept, EndsInLine
<1>2. Len(buf) = 0 BY WatchedTypes
<1>3. partial_line = <<>>
  <2> SUFFICES ASSUME partial_line # <<>> PROVE FALSE OBVIOUS
  <2> DEFINE k == Len(partial_line)
  <2>1. k \in 1..k /\ k \in Nat BY WatchedTypes
  <2>2. partial_line[k] = file[pos - Len(buf) - Len(partial_line) + k] /\ partial_line[k] # NL
    BY <2>1 DEF Reading, Buffered
  <2>3. pos - Len(buf) - Len(partial_line) + k = Len(file) BY <1>2, WatchedTypes
  <2> QED BY <1>1, <2>2, <2>3
<1>4. Start = pos /\ Consumed = pos
  <2>1. Len(partial_line) = 0 BY <1>3
  <2> QED BY <1>2, <2>1, WatchedTypes DEF Start, Consumed
<1>5. ~Pending
  <2> SUFFICES ASSUME Pending PROVE FALSE OBVIOUS
  <2>1. file = LineOf(last) /\ Consumed = Size[last] BY DEF Pending
  <2>2. Len(file) = Size[last] + 1 BY <1>0, <2>1, LineBytes, WatchedTypes
  <2> QED BY <1>0, <1>4, <2>1, <2>2, WatchedTypes
<1> QED BY <1>3, <1>4, <1>5 DEF Reading

LEMMA AppendFollowed ==
  ASSUME Watched, Steady, AppendText, Paced
  PROVE  InStep'
<1>1. Settled /\ May BY DEF AppendText, Watched
<1>2. polled BY <1>1, MayWhen
<1>3. InStep /\ exists BY SteadyLog
<1>4. writer = "idle" /\ pos = Len(file) /\ buf = <<>> /\ partial_line = <<>> /\ stage # "seek"
  BY <1>1, <1>2, <1>3 DEF InStep, Settled, Following
<1>5. ~Behind /\ Reading BY <1>3, <1>4, WatchedTypes DEF InStep, Behind
<1>6. ~shrunk /\ ~malformed BY <1>3, <1>5 DEF InStep
<1>7. AtLine(file, Start, line_number, previous) BY <1>2, <1>5 DEF Reading, Pending
<1>8. Write(written') /\ written' \in Exchanges
  BY BytesOf, SizeAssumption DEF AppendText, Exchanges, Watched, WatchTypes, FileTypes
<1>9. FileKept' /\ Extends(file', file) /\ file' \in Seq(Bytes)
  <2>1. PICK e \in Exchanges : e = written' BY <1>8
  <2>2. FileKept' /\ Extends(file', file) BY <1>8, <2>1, AppendKept DEF Watched
  <2>3. Text(e) \in Seq(Bytes) BY TextBytes
  <2>4. file' \in Seq(Bytes) BY <1>8, <2>1, <2>3, WatchedTypes DEF Write
  <2> QED BY <2>2, <2>4
<1>10. /\ UNCHANGED <<stage, pos, buf, partial_line, line_number, previous, malformed, shrunk>>
       /\ ~polled' /\ writer' = "newline"
  BY DEF AppendText, Write, reader, seen
<1>11. Buffered(file', pos, buf, partial_line)
  BY <1>5, <1>9, WatchedTypes, ReadStays DEF Reading
<1>12. AtLine(file', Start, line_number, previous)
  <2>1. WholeLines(file) BY DEF Watched, FileKept
  <2>2. Start \in 0..Len(file) BY <1>5, ReadingAt
  <2>3. PICK s \in 0..Len(file) : s = Start BY <2>2
  <2> QED BY <1>7, <1>9, <2>1, <2>3, WatchedTypes, AtLineStays
<1>13. Reading'
  <2>1. Start' = Start BY <1>10 DEF Start, Consumed
  <2> QED BY <1>10, <1>11, <1>12, <2>1 DEF Reading
<1>14. ~Behind'
  <2>1. pos' <= Len(file')
    <3>1. Len(file') >= Len(file) BY <1>9 DEF Extends
    <3>2. Len(file') \in Nat BY <1>9
    <3> QED BY <1>4, <1>10, <3>1, <3>2, WatchedTypes
  <2>2. Len(file') \in Nat BY <1>9
  <2> QED BY <1>10, <2>1, <2>2, WatchedTypes DEF Behind
<1> QED BY <1>4, <1>6, <1>10, <1>13, <1>14 DEF InStep

LEMMA NewlineFollowed ==
  ASSUME Watched, Steady, AppendNewline
  PROVE  InStep'
<1>1. /\ writer = "newline" /\ writer' = "idle" /\ file' = Append(file, NL) /\ last' = last
      /\ UNCHANGED <<stage, pos, buf, partial_line, line_number, previous, malformed, shrunk>>
      /\ ~polled'
  BY DEF AppendNewline, reader, seen
<1>2. InStep /\ exists BY SteadyLog
<1>3. ~Behind BY <1>1, <1>2 DEF InStep, Truncated
<1>4. Reading /\ ~shrunk /\ ~malformed BY <1>2, <1>3 DEF InStep
<1>5. FileKept' /\ Extends(file', file) BY NewlineKept DEF Watched
<1>6. file' \in Seq(Bytes) BY <1>1, BytesOf, WatchedTypes
<1>7. Buffered(file', pos, buf, partial_line)
  BY <1>4, <1>5, <1>6, WatchedTypes, ReadStays DEF Reading
<1>8. Pending => Pending'
  <2> SUFFICES ASSUME Pending PROVE Pending' OBVIOUS
  <2>1. file = Text(last) BY <1>1 DEF Pending
  <2>2. file' = LineOf(last) BY <1>1, <2>1 DEF LineOf
  <2> QED BY <1>1, <2>2 DEF Pending, Consumed
<1>9. AtLine(file, Start, line_number, previous) => AtLine(file', Start, line_number, previous)
  <2>1. WholeLines(file) BY DEF Watched, FileKept
  <2>2. Start \in 0..Len(file) BY <1>4, ReadingAt
  <2>3. PICK s \in 0..Len(file) : s = Start BY <2>2
  <2> QED BY <1>5, <1>6, <2>1, <2>3, WatchedTypes, AtLineStays
<1>10. Reading'
  <2>1. Start' = Start BY <1>1 DEF Start, Consumed
  <2> QED BY <1>1, <1>4, <1>7, <1>8, <1>9, <2>1 DEF Reading
<1>11. ~Behind'
  <2>1. pos <= Len(file) BY <1>4, ReadingAt
  <2>2. Len(file') >= Len(file) BY <1>5 DEF Extends
  <2>3. Len(file') \in Nat BY <1>6
  <2> QED BY <1>1, <2>1, <2>2, <2>3, WatchedTypes DEF Behind
<1>12. stage = "seek" => partial_line = <<>> /\ Pending BY <1>1, <1>2 DEF InStep
<1> QED BY <1>1, <1>4, <1>8, <1>10, <1>11, <1>12 DEF InStep

LEMMA TruncateFollowed ==
  ASSUME Watched, Steady, Truncate, Paced
  PROVE  InStep'
<1>1. Settled /\ May BY DEF Truncate, Watched
<1>2. polled BY <1>1, MayWhen
<1>3. InStep /\ exists /\ ~stale BY SteadyLog
<1>4. writer = "idle" /\ pos = Len(file) /\ buf = <<>> /\ partial_line = <<>>
      /\ stage \in Following /\ stage # "seek"
  BY <1>1, <1>2, <1>3 DEF InStep, Settled, Following
<1>5. ~Behind /\ Reading BY <1>3, <1>4, WatchedTypes DEF InStep, Behind
<1>6. ~shrunk /\ ~malformed BY <1>3, <1>5 DEF InStep
<1>7. AtLine(file, pos, line_number, previous) BY <1>4, <1>5, NothingPartial
<1>8. EndsInLine(file, last) /\ WholeLines(file) BY <1>3, <1>4 DEF Watched, FileKept
<1>9. pos > Size[last] BY <1>4, <1>8 DEF EndsInLine
<1>10. pos = Size[last] + 1 => line_number = 1 /\ previous = last
  <2> SUFFICES ASSUME pos = Size[last] + 1 PROVE line_number = 1 /\ previous = last OBVIOUS
  <2>1. AtLine(file, Len(file), 1, last) BY <1>4, <1>8, WatchedTypes, OnlyLine
  <2> QED BY <1>4, <1>7, <2>1, AtLineUnique
<1>11. /\ UNCHANGED <<stage, pos, buf, partial_line, line_number, previous, malformed, last>>
       /\ ~polled' /\ writer' = "rewrite" /\ file' = <<>>
  BY DEF Truncate, Empty, reader, seen
<1>12. Behind' BY <1>3, <1>9, <1>11, WatchedTypes DEF Behind
<1>13. shrunk' => pos > Size[last] + 1
  <2>1. shrunk' => pos > Len(LineOf(last)) BY <1>6 DEF Truncate, Empty
  <2> QED BY <1>3, <2>1, LineBytes, WatchedTypes
<1>14. Truncated' BY <1>4, <1>9, <1>10, <1>11 DEF Truncated, Following
<1> QED BY <1>4, <1>6, <1>11, <1>12, <1>13, <1>14 DEF InStep

LEMMA RewriteFollowed ==
  ASSUME Watched, Steady, Rewrite
  PROVE  InStep'
<1>1. /\ writer = "rewrite" /\ writer' = "idle" /\ file' = LineOf(last) /\ last' = last
      /\ UNCHANGED <<stage, pos, buf, partial_line, line_number, previous, malformed, shrunk>>
      /\ ~polled'
  BY DEF Rewrite, reader, seen
<1>2. InStep /\ exists BY SteadyLog
<1>3. last \in Exchanges /\ Size[last] \in Nat /\ Size[last] >= 1 BY <1>2, WatchedTypes
<1>4. Len(file') = Size[last] + 1 /\ file' \in Seq(Bytes) BY <1>1, <1>3, LineBytes
<1>5. file = <<>> BY <1>1 DEF Watched, FileKept
<1>6. CASE Behind
  <2>1. Truncated /\ ~malformed BY <1>2, <1>6 DEF InStep
  <2>2. /\ buf = <<>> /\ partial_line = <<>> /\ stage \in Following /\ pos > Size[last]
        /\ pos = Size[last] + 1 => line_number = 1 /\ previous = last
    BY <1>1, <2>1 DEF Truncated
  <2>3. stage # "seek" BY <2>2 DEF Following
  <2>4. CASE pos > Size[last] + 1
    <3>1. Behind' BY <1>1, <1>4, <2>4 DEF Behind
    <3>2. Truncated' BY <1>1, <2>2 DEF Truncated, Following
    <3> QED BY <1>1, <2>1, <2>3, <2>4, <3>1, <3>2 DEF InStep
  <2>5. CASE pos = Size[last] + 1
    <3>1. ~Behind' BY <1>1, <1>4, <2>5 DEF Behind
    <3>2. ~shrunk BY <1>2, <1>3, <2>5 DEF InStep
    <3>3. Buffered(file', pos, <<>>, <<>>)
      <4>1. Len(<<>>) = 0 OBVIOUS
      <4> QED BY <1>3, <1>4, <2>5, <4>1 DEF Buffered
    <3>4. Start' = pos
      <4>1. buf' = <<>> /\ partial_line' = <<>> /\ pos' = pos BY <1>1, <2>2
      <4>2. Len(buf') = 0 /\ Len(partial_line') = 0 BY <4>1
      <4> QED BY <4>1, <4>2, WatchedTypes DEF Start, Consumed
    <3>5. AtLine(file', pos, line_number, previous)
      BY <1>1, <1>3, <2>2, <2>5, AfterOneLine
    <3>6. Reading' BY <1>1, <2>2, <3>3, <3>4, <3>5 DEF Reading
    <3> QED BY <1>1, <2>1, <2>3, <3>1, <3>2, <3>6 DEF InStep
  <2> QED BY <1>3, <2>2, <2>4, <2>5, WatchedTypes
<1>7. CASE ~Behind
  <2>1. Reading /\ ~shrunk /\ ~malformed BY <1>2, <1>7 DEF InStep
  <2>2. pos = 0 BY <1>1, <1>7, WatchedTypes DEF Behind
  <2>3. Len(buf) = 0 /\ Len(partial_line) = 0 /\ Start = 0 /\ Consumed = 0
    BY <2>1, <2>2, WatchedTypes, ReadingAt DEF Consumed
  <2>4. buf = <<>> /\ partial_line = <<>> BY <2>3, WatchedTypes
  <2>5. ~Pending BY <1>1 DEF Pending
  <2>6. line_number = 0 /\ previous = None BY <2>1, <2>3, <2>5 DEF Reading, AtLine
  <2>7. Buffered(file', 0, <<>>, <<>>)
    <3>1. Len(<<>>) = 0 OBVIOUS
    <3> QED BY <1>3, <1>4, <3>1 DEF Buffered
  <2>8. Start' = 0
    <3>1. Start' = Start BY <1>1 DEF Start, Consumed
    <3> QED BY <2>3, <3>1
  <2>9. AtLine(file', 0, line_number, previous) BY <2>6 DEF AtLine
  <2>10. Reading' BY <1>1, <2>2, <2>4, <2>7, <2>8, <2>9 DEF Reading
  <2>11. ~Behind' BY <1>1, <1>3, <1>4, <2>2 DEF Behind
  <2>12. stage # "seek" BY <1>1, <1>2, <2>5 DEF InStep
  <2> QED BY <1>1, <2>1, <2>10, <2>11, <2>12 DEF InStep
<1> QED BY <1>6, <1>7

LEMMA OpenFollowed ==
  ASSUME Watched, Open, Steady'
  PROVE  InStep'
<1>1. /\ stage = "wait" /\ stage' = "load" /\ exists /\ disturbed' = replaying
      /\ UNCHANGED <<pos, buf, partial_line, line_number, previous, malformed, shrunk, polled>>
  BY DEF Open, reader, seen
<1>2. UNCHANGED <<file, writer, last>> BY WatcherFrame DEF Watch
<1>3. ~replaying BY <1>1 DEF Steady
<1>4. /\ ~polled /\ ~shrunk /\ ~malformed
      /\ writer = "idle" \/ writer = "newline"
  BY <1>1, <1>3 DEF Watched, Settled
<1>5. pos = 0 /\ buf = <<>> /\ partial_line = <<>> /\ line_number = 0 /\ previous = None
  BY <1>1 DEF Watched, AtRest
<1>6. ~Behind' BY <1>1, <1>2, <1>4, <1>5, WatchedTypes DEF Behind
<1>7. Buffered(file, 0, <<>>, <<>>)
  <2>1. Len(<<>>) = 0 OBVIOUS
  <2> QED BY <2>1, WatchedTypes DEF Buffered
<1>8. Start' = 0
  <2>1. buf' = <<>> /\ partial_line' = <<>> /\ pos' = 0 BY <1>1, <1>5
  <2>2. Len(buf') = 0 /\ Len(partial_line') = 0 BY <2>1
  <2>3. Start' = 0 - 0 - 0 BY <2>1, <2>2, Zenon DEF Start, Consumed
  <2> QED BY <2>3
<1>9. Reading' BY <1>1, <1>2, <1>5, <1>7, <1>8 DEF Reading, AtLine
<1> QED BY <1>1, <1>4, <1>6, <1>9 DEF InStep

LEMMA FillFollowed ==
  ASSUME Watched, Steady, Fill
  PROVE  InStep'
<1>1. InStep /\ exists /\ Held = file BY SteadyLog
<1>2. PICK n \in pos + 1..Len(file) : buf' = SubSeq(file, pos + 1, n) /\ pos' = n
  BY <1>1 DEF Fill
<1>3. /\ buf = <<>> /\ stage \in {"load", "follow"}
      /\ UNCHANGED <<stage, partial_line, line_number, previous, malformed, shrunk, polled>>
  BY DEF Fill, seen
<1>4. UNCHANGED <<file, writer, last>> BY WatcherFrame DEF Watch
<1>5. pos < Len(file) /\ n \in Nat /\ n <= Len(file) /\ n > pos BY <1>2, WatchedTypes
<1>6. writer # "rewrite"
  <2> SUFFICES ASSUME writer = "rewrite" PROVE FALSE OBVIOUS
  <2>1. file = <<>> BY DEF Watched, FileKept
  <2>2. Len(file) = 0 BY <2>1
  <2> QED BY <1>5, <2>2, WatchedTypes
<1>7. ~Behind BY <1>5, <1>6, WatchedTypes DEF Behind
<1>8. Reading /\ ~shrunk /\ ~malformed BY <1>1, <1>7 DEF InStep
<1>9. ~polled BY <1>1, <1>5, WatchedTypes DEF InStep
<1>10. /\ Len(SubSeq(file, pos + 1, n)) = n - pos
       /\ Buffered(file, n, SubSeq(file, pos + 1, n), partial_line)
  <2>1. Buffered(file, pos, <<>>, partial_line) BY <1>3, <1>8 DEF Reading
  <2> QED BY <1>2, <2>1, WatchedTypes, Filled
<1>11. Consumed' = Consumed /\ Start' = Start
  <2>1. Len(buf) = 0 BY <1>3
  <2>2. Len(buf') = n - pos BY <1>2, <1>10
  <2>3. Consumed' = Consumed BY <1>2, <1>5, <2>1, <2>2, WatchedTypes DEF Consumed
  <2> QED BY <1>3, <2>3 DEF Start
<1>12. Reading'
  <2>1. Pending => Pending' BY <1>3, <1>4, <1>11 DEF Pending
  <2> QED BY <1>2, <1>3, <1>4, <1>8, <1>10, <1>11, <2>1 DEF Reading
<1>13. ~Behind' BY <1>2, <1>4, <1>5, <1>6, WatchedTypes DEF Behind
<1> QED BY <1>3, <1>8, <1>9, <1>12, <1>13 DEF InStep

\* A watcher that has bytes in its buffer is not behind, and has not polled.
LEMMA BufferRead ==
  ASSUME Watched, Steady, buf # <<>>
  PROVE  ~Behind /\ Reading /\ ~polled /\ ~shrunk /\ ~malformed /\ stage # "seek"
<1>1. InStep BY SteadyLog
<1>2. ~Behind BY <1>1 DEF InStep, Truncated
<1>3. stage # "seek" BY DEF Watched, WatchTypes, ReadTypes
<1> QED BY <1>1, <1>2, <1>3 DEF InStep

\* What a step that consumes the buffer leaves, whichever loop it is in.
LEMMA Consumption ==
  ASSUME Watched, Steady, Consume, buf # <<>>,
         UNCHANGED <<file, writer, last, stage, malformed, shrunk, polled>>,
         Reading'
  PROVE  InStep'
<1>1. ~Behind /\ ~polled /\ ~shrunk /\ ~malformed /\ stage # "seek" BY BufferRead
<1>2. ~Behind' BY <1>1 DEF Behind, Consume
<1> QED BY <1>1, <1>2 DEF InStep

LEMMA LoadLineFollowed ==
  ASSUME Watched, Steady, LoadLine
  PROVE  InStep'
<1>1. /\ stage = "load" /\ stage' = "load" /\ buf # <<>> /\ Consume
      /\ buf' = SubSeq(buf, Cut + 1, Len(buf)) /\ pos' = pos
      /\ UNCHANGED <<malformed, shrunk, polled>>
  BY DEF LoadLine, Consume, Load, seen
<1>2. UNCHANGED <<file, writer, last>> BY WatcherFrame DEF Watch
<1>3. Reading BY <1>1, BufferRead
<1>4. AtLine(file, Start, line_number, previous) /\ Buffered(file, pos, buf, partial_line)
  BY <1>1, <1>3 DEF Reading, Pending, Following
<1>5. Reading'
  <2>1. CASE HasNL
    <3> DEFINE i == Consumed + Cut
    <3>1. /\ Parse(Taken) = file[i - 1] /\ file[i - 1] \in Exchanges
          /\ Buffered(file, pos, buf', <<>>) /\ pos - Len(buf') = i
          /\ AtLine(file, i, line_number + 1, file[i - 1])
      <4>1. PICK r : r = SubSeq(buf, Cut + 1, Len(buf)) OBVIOUS
      <4>2. PICK j : j = i OBVIOUS
      <4> HIDE DEF i
      <4>3. /\ Parse(Taken) = file[j - 1] /\ file[j - 1] \in Exchanges
            /\ Buffered(file, pos, r, <<>>) /\ pos - Len(r) = j
            /\ AtLine(file, j, line_number + 1, file[j - 1])
        BY <1>4, <2>1, <4>1, <4>2, LineRead DEF Watched, i
      <4> QED BY <1>1, <4>1, <4>2, <4>3
    <3>2. Parse(Taken) # None BY <3>1, SizePositive
    <3>3. line_number' = line_number + 1 /\ previous' = Parse(Taken) /\ partial_line' = <<>>
      BY <2>1, <3>2 DEF LoadLine, Load
    <3>4. Start' = i
      <4>1. Len(partial_line') = 0 BY <3>3
      <4>2. i \in Int
        <5>1. Cut \in 1..Len(buf) BY <2>1, CutAt, WatchedTypes
        <5> QED BY <5>1, WatchedTypes DEF Consumed
      <4> HIDE DEF i
      <4>3. Start' = pos - Len(buf') - 0 BY <1>1, <4>1 DEF Start, Consumed
      <4>4. i - 0 = i BY <4>2
      <4> QED BY <3>1, <4>3, <4>4
    <3> HIDE DEF i
    <3> QED BY <1>1, <1>2, <3>1, <3>3, <3>4 DEF Reading
  <2>2. CASE ~HasNL
    <3>1. /\ buf' = <<>> /\ Buffered(file, pos, buf', Taken)
          /\ pos - Len(buf') - Len(Taken) = Start
      <4>1. PICK r : r = SubSeq(buf, Cut + 1, Len(buf)) OBVIOUS
      <4>2. /\ r = <<>> /\ Buffered(file, pos, r, Taken)
            /\ pos - Len(r) - Len(Taken) = Start
        BY <1>4, <2>2, <4>1, PartRead DEF Watched
      <4> QED BY <1>1, <4>1, <4>2
    <3>2. partial_line' = Taken /\ UNCHANGED <<line_number, previous>> BY <2>2 DEF LoadLine
    <3>3. Start' = Start BY <1>1, <3>1, <3>2 DEF Start, Consumed
    <3> QED BY <1>1, <1>2, <1>4, <3>1, <3>2, <3>3 DEF Reading
  <2> QED BY <2>1, <2>2
<1> QED BY <1>1, <1>2, <1>5, Consumption

LEMMA LoadEndFollowed ==
  ASSUME Watched, Steady, LoadEnd
  PROVE  InStep'
<1>1. /\ stage = "load" /\ stage' = "seek" /\ buf = <<>> /\ pos >= Len(file)
      /\ partial_line' = <<>>
      /\ UNCHANGED <<pos, buf, malformed, shrunk, polled>>
  BY SteadyLog DEF LoadEnd, Load, seen
<1>2. UNCHANGED <<file, writer, last>> BY WatcherFrame DEF Watch
<1>3. InStep /\ exists BY SteadyLog
<1>4. ~Behind BY <1>1, <1>3 DEF InStep, Truncated, Following
<1>5. Reading /\ ~shrunk /\ ~malformed BY <1>3, <1>4 DEF InStep
<1>6. pos = Len(file) /\ Len(buf) = 0 /\ Consumed = pos
  <2>1. pos <= Len(file) BY <1>5, ReadingAt
  <2>2. Len(buf) = 0 BY <1>1
  <2> QED BY <1>1, <2>1, <2>2, WatchedTypes DEF Consumed
<1>7. AtLine(file, Start, line_number, previous) /\ Buffered(file, pos, buf, partial_line)
  BY <1>1, <1>5 DEF Reading, Pending, Following
<1>8. ~polled /\ (writer = "idle" \/ (writer = "newline" /\ file = Text(last)))
  BY <1>1, <1>3, SteadyLog DEF Watched, Settled, Following, Steady
<1>9. ~Behind' BY <1>1, <1>2, <1>4 DEF Behind
<1>10. Buffered(file, pos, <<>>, <<>>)
  <2>1. Len(<<>>) = 0 OBVIOUS
  <2> QED BY <1>6, <2>1, WatchedTypes DEF Buffered
<1>11. Consumed' = pos /\ Start' = pos
  <2>1. Len(buf') = 0 /\ Len(partial_line') = 0 BY <1>1
  <2> QED BY <1>1, <2>1, WatchedTypes DEF Start, Consumed
<1>12. CASE writer = "idle"
  <2>1. partial_line = <<>> /\ AtLine(file, pos, line_number, previous)
    BY <1>1, <1>5, <1>6, <1>12, NothingPartial
  <2>2. UNCHANGED <<line_number, previous>> BY <2>1 DEF LoadEnd
  <2>3. Reading' BY <1>1, <1>2, <1>10, <1>11, <2>1, <2>2 DEF Reading
  <2> QED BY <1>1, <1>2, <1>5, <1>6, <1>8, <1>9, <1>12, <2>3 DEF InStep
<1>13. CASE writer = "newline" /\ file = Text(last)
  <2>1. /\ last \in Exchanges /\ Size[last] \in Nat /\ Size[last] >= 1 /\ last # NL
        /\ Len(file) = Size[last] /\ \A k \in 1..Size[last] : file[k] = last
    BY <1>3, <1>13, WatchedTypes, TextBytes, SizePositive
  <2>2. Start = 0 /\ line_number = 0
    <3>1. Start \in 0..Len(file) BY <1>5, ReadingAt
    <3>2. Start # 0 => Start \in 1..Size[last] BY <2>1, <3>1
    <3>3. Start = 0 BY <1>7, <2>1, <3>2 DEF AtLine
    <3> QED BY <1>7, <3>3 DEF AtLine
  <2>3. Len(partial_line) = Size[last]
    BY <1>5, <1>6, <2>1, <2>2, ReadingAt, WatchedTypes
  <2>4. \A k \in 1..Size[last] : partial_line[k] = last
    <3> SUFFICES ASSUME NEW k \in 1..Size[last] PROVE partial_line[k] = last OBVIOUS
    <3>1. partial_line[k] = file[pos - Len(buf) - Len(partial_line) + k]
      BY <1>7, <2>3 DEF Buffered
    <3>2. pos - Len(buf) - Len(partial_line) + k = k
      BY <1>6, <2>1, <2>3, WatchedTypes
    <3> QED BY <2>1, <3>1, <3>2
  <2>5. partial_line # <<>> /\ Parse(partial_line) = last
    BY <2>1, <2>3, <2>4, WatchedTypes, ParseText
  <2>6. last # None BY <2>1, SizePositive
  <2>7. line_number' = 1 /\ previous' = last BY <2>2, <2>5, <2>6 DEF LoadEnd, Load
  <2>8. Pending' BY <1>1, <1>2, <1>6, <1>8, <1>11, <1>13, <2>1, <2>7 DEF Pending
  <2>9. Reading' BY <1>1, <1>2, <1>10, <2>8 DEF Reading
  <2> QED BY <1>1, <1>5, <1>8, <1>9, <2>8, <2>9 DEF InStep
<1> QED BY <1>8, <1>12, <1>13

LEMMA SeekFollowed ==
  ASSUME Watched, Steady, SeekEnd
  PROVE  InStep'
<1>1. /\ stage = "seek" /\ stage' = "follow" /\ pos' = Len(file)
      /\ UNCHANGED <<buf, partial_line, line_number, previous, malformed, shrunk, polled>>
  BY SteadyLog DEF SeekEnd, seen
<1>2. UNCHANGED <<file, writer, last>> BY WatcherFrame DEF Watch
<1>3. InStep /\ exists BY SteadyLog
<1>4. /\ buf = <<>> /\ partial_line = <<>> /\ ~Behind
      /\ Pending \/ (writer = "idle" /\ pos = Len(file))
  BY <1>1, <1>3 DEF InStep, Watched, WatchTypes, ReadTypes
<1>5. Reading /\ ~shrunk /\ ~malformed BY <1>3, <1>4 DEF InStep
<1>6. ~polled BY <1>1 DEF Watched, Settled, Following
<1>7. Buffered(file, Len(file), <<>>, <<>>)
  <2>1. Len(<<>>) = 0 OBVIOUS
  <2> QED BY <2>1, WatchedTypes DEF Buffered
<1>8. Consumed' = Len(file) /\ Start' = Len(file)
  <2>1. Len(buf') = 0 /\ Len(partial_line') = 0 BY <1>1, <1>4
  <2> QED BY <1>1, <2>1, WatchedTypes DEF Start, Consumed
<1>9. ~Behind'
  <2>1. writer # "rewrite"
    <3>1. CASE Pending BY <3>1 DEF Pending
    <3>2. CASE writer = "idle" BY <3>2
    <3> QED BY <1>4, <3>1, <3>2
  <2> QED BY <1>1, <1>2, <2>1, WatchedTypes DEF Behind
<1>10. Reading'
  <2>1. CASE ~Pending
    <3>1. writer = "idle" /\ pos = Len(file) BY <1>4, <2>1
    <3>2. AtLine(file, pos, line_number, previous) BY <1>4, <1>5, <3>1, NothingPartial
    <3> QED BY <1>1, <1>2, <1>4, <1>7, <1>8, <3>1, <3>2 DEF Reading
  <2>2. CASE Pending /\ writer = "newline"
    <3>1. file = Text(last) /\ Consumed = Size[last] /\ line_number = 1 /\ previous = last
      BY <2>2 DEF Pending
    <3>2. Len(file) = Size[last] BY <1>3, <3>1, TextBytes, WatchedTypes
    <3>3. Pending' BY <1>1, <1>2, <1>4, <1>6, <1>8, <2>2, <3>1, <3>2 DEF Pending, Following
    <3> QED BY <1>1, <1>2, <1>4, <1>7, <3>3 DEF Reading
  <2>3. CASE Pending /\ writer = "idle"
    <3>1. file = LineOf(last) /\ line_number = 1 /\ previous = last BY <2>3 DEF Pending
    <3>2. Len(file) = Size[last] + 1 BY <1>3, <3>1, LineBytes, WatchedTypes
    <3>3. AtLine(file, Size[last] + 1, 1, last)
      <4>1. PICK e \in Exchanges : e = last BY <1>3, WatchedTypes
      <4> QED BY <3>1, <4>1, AfterOneLine
    <3> QED BY <1>1, <1>2, <1>4, <1>7, <1>8, <3>1, <3>2, <3>3 DEF Reading
  <2> QED BY <2>1, <2>2, <2>3 DEF Pending
<1> QED BY <1>1, <1>5, <1>6, <1>9, <1>10 DEF InStep

\* The newline of a line that was loaded without it.
LEMMA PendingNewline ==
  ASSUME Watched, Steady, Reading, Pending, buf # <<>>
  PROVE  /\ HasNL /\ Taken = <<>> /\ SubSeq(buf, Cut + 1, Len(buf)) = <<>>
         /\ pos = Len(file) /\ AtLine(file, pos, line_number, previous)
<1>1. exists BY SteadyLog
<1>2. /\ partial_line = <<>> /\ Consumed = Size[last] /\ line_number = 1 /\ previous = last
      /\ \/ writer = "newline" /\ file = Text(last)
         \/ writer = "idle" /\ file = LineOf(last)
  BY DEF Pending
<1>3. last \in Exchanges /\ Size[last] \in Nat BY <1>1, WatchedTypes
<1>4. pos <= Len(file) BY ReadingAt
<1>5. Len(buf) >= 1 /\ pos = Size[last] + Len(buf)
  <2>1. Len(buf) # 0 BY WatchedTypes
  <2>2. Len(buf) >= 1 BY <2>1, WatchedTypes
  <2> QED BY <1>2, <1>3, <2>2, WatchedTypes DEF Consumed
<1>6. file = LineOf(last)
  <2> SUFFICES ASSUME file = Text(last) PROVE FALSE BY <1>2
  <2>1. Len(file) = Size[last] BY <1>3, TextBytes
  <2> QED BY <1>3, <1>4, <1>5, <2>1, WatchedTypes
<1>7. Len(file) = Size[last] + 1 /\ file[Size[last] + 1] = NL BY <1>3, <1>6, LineBytes
<1>8. Len(buf) = 1 /\ pos = Len(file)
  <2>1. Len(buf) \in Nat /\ pos \in Nat BY WatchedTypes
  <2>2. Size[last] + Len(buf) <= Size[last] + 1 BY <1>4, <1>5, <1>7
  <2>3. \A z, b \in Nat : z + b <= z + 1 /\ b >= 1 => b = 1 OBVIOUS
  <2>4. Len(buf) = 1 BY <1>3, <1>5, <2>1, <2>2, <2>3
  <2>5. pos = Size[last] + 1 BY <1>5, <2>4
  <2> QED BY <1>7, <2>4, <2>5
<1>9. buf[1] = NL
  <2>1. buf[1] = file[pos - Len(buf) + 1] BY <1>8 DEF Reading, Buffered
  <2>2. pos - Len(buf) + 1 = Size[last] + 1 BY <1>3, <1>7, <1>8
  <2> QED BY <1>7, <2>1, <2>2
<1>10. HasNL /\ Cut = 1
  <2>1. 1 \in DOMAIN buf BY <1>8, WatchedTypes
  <2>2. HasNL BY <1>9, <2>1 DEF HasNL
  <2>3. Cut \in 1..Len(buf) BY <2>2, CutAt, WatchedTypes
  <2> QED BY <1>8, <2>2, <2>3
<1>11. Taken = <<>>
  <2>1. Taken = <<>> \o SubSeq(buf, 1, 1 - 1) BY <1>2, <1>10 DEF Taken
  <2>2. SubSeq(buf, 1, 1 - 1) = <<>> BY WatchedTypes
  <2>3. <<>> \o <<>> = <<>> OBVIOUS
  <2> QED BY <2>1, <2>2, <2>3
<1>12. SubSeq(buf, Cut + 1, Len(buf)) = <<>> BY <1>8, <1>10, WatchedTypes
<1>13. AtLine(file, pos, line_number, previous)
  <2>1. PICK e \in Exchanges : e = last BY <1>3
  <2>2. AtLine(file, Size[e] + 1, 1, e) BY <1>6, <2>1, AfterOneLine
  <2> QED BY <1>2, <1>7, <1>8, <2>1, <2>2
<1> QED BY <1>8, <1>10, <1>11, <1>12, <1>13

LEMMA FollowLineFollowed ==
  ASSUME Watched, Steady, FollowLine
  PROVE  InStep'
<1>1. /\ stage = "follow" /\ stage' = "follow" /\ buf # <<>> /\ Consume
      /\ buf' = SubSeq(buf, Cut + 1, Len(buf)) /\ pos' = pos
      /\ partial_line' = IF HasNL THEN <<>> ELSE Taken
      /\ UNCHANGED <<shrunk, polled>>
  BY DEF FollowLine, Consume
<1>2. UNCHANGED <<file, writer, last>> BY WatcherFrame DEF Watch
<1>3. Reading /\ Buffered(file, pos, buf, partial_line) BY <1>1, BufferRead DEF Reading
<1>4. CASE Pending
  <2>1. /\ HasNL /\ Taken = <<>> /\ buf' = <<>> /\ pos = Len(file)
        /\ AtLine(file, pos, line_number, previous)
    BY <1>1, <1>3, <1>4, PendingNewline
  <2>2. UNCHANGED <<line_number, previous, malformed>> BY <2>1 DEF FollowLine, seen
  <2>3. partial_line' = <<>> BY <1>1, <2>1
  <2>4. Start' = pos
    <3>1. Len(buf') = 0 /\ Len(partial_line') = 0 BY <2>1, <2>3
    <3>2. Start' = pos - 0 - 0 BY <1>1, <3>1, Zenon DEF Start, Consumed
    <3> QED BY <3>2, WatchedTypes
  <2>5. Buffered(file, pos, <<>>, <<>>)
    <3>1. Len(<<>>) = 0 OBVIOUS
    <3> QED BY <2>1, <3>1, WatchedTypes DEF Buffered
  <2>6. Reading' BY <1>1, <1>2, <2>1, <2>2, <2>3, <2>4, <2>5 DEF Reading
  <2> QED BY <1>1, <1>2, <2>2, <2>6, Consumption
<1>5. CASE ~Pending /\ HasNL
  <2>1. AtLine(file, Start, line_number, previous) BY <1>3, <1>5 DEF Reading
  <2> DEFINE i == Consumed + Cut
  <2>2. /\ Parse(Taken) = file[i - 1] /\ file[i - 1] \in Exchanges /\ Taken # <<>>
        /\ Buffered(file, pos, buf', <<>>) /\ pos - Len(buf') = i
        /\ AtLine(file, i, line_number + 1, file[i - 1])
    <3>1. PICK r : r = SubSeq(buf, Cut + 1, Len(buf)) OBVIOUS
    <3>2. PICK j : j = i OBVIOUS
    <3> HIDE DEF i
    <3>3. /\ Parse(Taken) = file[j - 1] /\ file[j - 1] \in Exchanges /\ Taken # <<>>
          /\ Buffered(file, pos, r, <<>>) /\ pos - Len(r) = j
          /\ AtLine(file, j, line_number + 1, file[j - 1])
      BY <1>3, <1>5, <2>1, <3>1, <3>2, LineRead DEF Watched, i
    <3> QED BY <1>1, <3>1, <3>2, <3>3
  <2>3. Parse(Taken) # None BY <2>2, SizePositive
  <2>4. /\ line_number' = line_number + 1 /\ previous' = Parse(Taken) /\ partial_line' = <<>>
        /\ UNCHANGED malformed
    BY <1>1, <1>5, <2>2, <2>3 DEF FollowLine
  <2>5. Start' = i
    <3>1. Len(partial_line') = 0 BY <2>4
    <3>2. i \in Int
      <4>1. Cut \in 1..Len(buf) BY <1>5, CutAt, WatchedTypes
      <4> QED BY <4>1, WatchedTypes DEF Consumed
    <3> HIDE DEF i
    <3>3. Start' = pos - Len(buf') - 0 BY <1>1, <3>1 DEF Start, Consumed
    <3>4. i - 0 = i BY <3>2
    <3> QED BY <2>2, <3>3, <3>4
  <2> HIDE DEF i
  <2>6. Reading' BY <1>1, <1>2, <2>2, <2>4, <2>5 DEF Reading
  <2> QED BY <1>1, <1>2, <2>4, <2>6, Consumption
<1>6. CASE ~Pending /\ ~HasNL
  <2>1. AtLine(file, Start, line_number, previous) BY <1>3, <1>6 DEF Reading
  <2>2. /\ buf' = <<>> /\ Buffered(file, pos, buf', Taken)
        /\ pos - Len(buf') - Len(Taken) = Start
    <3>1. PICK r : r = SubSeq(buf, Cut + 1, Len(buf)) OBVIOUS
    <3>2. /\ r = <<>> /\ Buffered(file, pos, r, Taken)
          /\ pos - Len(r) - Len(Taken) = Start
      BY <1>3, <1>6, <3>1, PartRead DEF Watched
    <3> QED BY <1>1, <3>1, <3>2
  <2>3. partial_line' = Taken /\ UNCHANGED <<line_number, previous, malformed>>
    BY <1>1, <1>6 DEF FollowLine, seen
  <2>4. Start' = Start BY <1>1, <2>2, <2>3 DEF Start, Consumed
  <2>5. Reading' BY <1>1, <1>2, <2>1, <2>2, <2>3, <2>4 DEF Reading
  <2> QED BY <1>1, <1>2, <2>3, <2>5, Consumption
<1> QED BY <1>4, <1>5, <1>6

LEMMA AtEndFollowed ==
  ASSUME Watched, Steady, AtEnd
  PROVE  InStep'
<1>1. /\ stage = "follow" /\ stage' = "check"
      /\ UNCHANGED <<pos, buf, partial_line, line_number, previous, malformed, shrunk, polled>>
  BY DEF AtEnd, reader, seen
<1>2. UNCHANGED <<file, writer, last>> BY WatcherFrame DEF Watch
<1>3. InStep BY SteadyLog
<1>4. Behind' <=> Behind BY <1>1, <1>2 DEF Behind
<1>5. Truncated => Truncated' BY <1>1, <1>2 DEF Truncated, Following
<1>6. Reading => Reading'
  <2>1. Consumed' = Consumed /\ Start' = Start BY <1>1 DEF Consumed, Start
  <2>2. Pending => Pending' BY <1>1, <1>2, <2>1 DEF Pending, Following
  <2> QED BY <1>1, <1>2, <2>1, <2>2 DEF Reading
<1> QED BY <1>1, <1>2, <1>3, <1>4, <1>5, <1>6 DEF InStep

\* A poll notices that the log is shorter than the position; otherwise the
\* watcher is not behind, and at the end of whole lines when it has polled.
LEMMA CheckFollowed ==
  ASSUME Watched, Steady, Check
  PROVE  InStep'
<1>1. stage = "check" /\ stage' = "follow" /\ UNCHANGED <<buf, malformed>>
  BY DEF Check, seen
<1>2. UNCHANGED <<file, writer, last>> BY WatcherFrame DEF Watch
<1>3. InStep /\ exists /\ Held = file BY SteadyLog
<1>4. buf = <<>> /\ ~malformed BY <1>1, <1>3 DEF InStep, Watched, WatchTypes, ReadTypes
<1>5. CASE Len(file) < pos
  <2>1. /\ pos' = 0 /\ line_number' = 0 /\ previous' = None /\ partial_line' = <<>>
        /\ shrunk' = FALSE /\ polled' = FALSE
    BY <1>3, <1>5 DEF Check, Reset
  <2>2. Start' = 0
    <3>1. Len(<<>>) = 0 OBVIOUS
    <3>2. Len(buf') = 0 /\ Len(partial_line') = 0 BY <1>1, <1>4, <2>1, <3>1
    <3>3. Start' = 0 - 0 - 0 BY <2>1, <3>2, Zenon DEF Start, Consumed
    <3> QED BY <3>3
  <2>3. Buffered(file, 0, <<>>, <<>>)
    <3>1. Len(<<>>) = 0 OBVIOUS
    <3> QED BY <3>1, WatchedTypes DEF Buffered
  <2>4. Reading' BY <1>1, <1>2, <1>4, <2>1, <2>2, <2>3 DEF Reading, AtLine
  <2>5. ~Behind' BY <1>2, <2>1, WatchedTypes DEF Behind
  <2> QED BY <1>1, <1>4, <2>1, <2>4, <2>5 DEF InStep
<1>6. CASE ~(Len(file) < pos)
  <2>1. /\ UNCHANGED <<pos, partial_line, line_number, previous, shrunk>>
        /\ polled' = (writer = "idle" /\ pos >= Len(file))
    BY <1>3, <1>6 DEF Check, reader
  <2>2. ~Behind
    <3> SUFFICES ASSUME writer = "rewrite" /\ pos > 0 PROVE FALSE
      BY <1>6, WatchedTypes DEF Behind
    <3>1. file = <<>> BY DEF Watched, FileKept
    <3>2. Len(file) = 0 BY <3>1
    <3> QED BY <1>6, <3>2, WatchedTypes
  <2>3. Reading /\ ~shrunk BY <1>3, <2>2 DEF InStep
  <2>4. ~Behind' BY <1>2, <2>1, <2>2 DEF Behind
  <2>5. Consumed' = Consumed /\ Start' = Start BY <1>1, <2>1 DEF Consumed, Start
  <2>6. polled' => writer = "idle" /\ pos = Len(file) /\ partial_line = <<>> /\ ~Pending
    <3> SUFFICES ASSUME polled' PROVE writer = "idle" /\ pos = Len(file) /\ partial_line = <<>> /\ ~Pending
      OBVIOUS
    <3>1. writer = "idle" /\ pos >= Len(file) BY <2>1, Zenon
    <3>2. writer = "idle" /\ pos = Len(file) BY <1>6, <3>1, WatchedTypes
    <3> QED BY <1>4, <2>3, <3>2, NothingPartial
  <2>7. Pending => Pending' BY <1>1, <1>2, <2>1, <2>5, <2>6 DEF Pending, Following
  <2>8. Reading' BY <1>1, <1>2, <2>1, <2>3, <2>5, <2>7 DEF Reading
  <2> QED BY <1>1, <1>2, <1>4, <2>1, <2>3, <2>4, <2>6, <2>8 DEF InStep
<1> QED BY <1>5, <1>6

-----------------------------------------------------------------------------
(* The position, from the first step on *)

LEMMA AtRestStep ==
  Watched /\ [WatchNext]_watchVars => AtRest'
<1> SUFFICES ASSUME Watched, [WatchNext]_watchVars PROVE AtRest' OBVIOUS
<1>1. CASE Pipeline \/ Replay BY <1>1, WriterFrame DEF Watched, AtRest
<1>2. CASE Watch
  <2>1. stage' # "wait"
    BY <1>2 DEF Watch, Open, Fill, LoadLine, LoadEnd, SeekEnd, FollowLine, AtEnd, Check
  <2> QED BY <2>1 DEF AtRest
<1>3. CASE Restart BY <1>3 DEF Restart, AtRest
<1>4. CASE UNCHANGED watchVars BY <1>4 DEF watchVars, reader, Watched, AtRest
<1> QED BY <1>1, <1>2, <1>3, <1>4 DEF WatchNext

LEMMA InStepUnchanged ==
  ASSUME InStep, UNCHANGED watchVars
  PROVE  InStep'
<1>1. UNCHANGED <<file, writer, last, stage, pos, buf, partial_line, line_number, previous,
                  malformed, shrunk, polled>>
  BY DEF watchVars, fileVars, reader, seen
<1>2. Consumed' = Consumed /\ Start' = Start BY <1>1 DEF Consumed, Start
<1>3. Pending' <=> Pending BY <1>1, <1>2 DEF Pending, Following
<1>4. Reading' <=> Reading BY <1>1, <1>2, <1>3 DEF Reading
<1>5. (Behind' <=> Behind) /\ (Truncated' <=> Truncated)
  BY <1>1 DEF Behind, Truncated, Following
<1> QED BY <1>1, <1>3, <1>4, <1>5 DEF InStep

\* A watcher that is undisturbed after a step was so before, unless it has just
\* opened the log.
LEMMA SteadyBefore ==
  ASSUME Watched, [WatchNext]_watchVars, ~Open, Steady'
  PROVE  Steady /\ ~Archive /\ ~ReplayLine /\ ~EndReplay /\ ~Restart
<1>0. /\ disturbed \in BOOLEAN /\ replaying \in BOOLEAN
      /\ Steady => ~replaying
  BY DEF Watched, WatchTypes, FlagTypes, Settled
<1>1. ~Restart BY DEF Restart, Steady
<1>2. ~Archive
  <2> SUFFICES ASSUME Archive PROVE FALSE OBVIOUS
  <2>1. disturbed' = (stage # "wait") /\ stage' = stage BY DEF Archive
  <2> QED BY <2>1 DEF Steady
<1>3. CASE ReplayLine \/ EndReplay
  <2>1. replaying /\ UNCHANGED <<stage, disturbed>>
    BY <1>3 DEF ReplayLine, EndReplay, held
  <2> QED BY <1>0, <2>1 DEF Steady
<1>4. CASE Pipeline
  <2>1. UNCHANGED <<stage, disturbed>>
    BY <1>4 DEF Pipeline, AppendText, AppendNewline, Truncate, Rewrite, held
  <2> QED BY <2>1, <1>1, <1>2, <1>3 DEF Steady
<1>5. CASE Watch
  <2>1. UNCHANGED disturbed /\ stage # "wait"
    BY <1>5 DEF Watch, Fill, LoadLine, LoadEnd, SeekEnd, FollowLine, AtEnd, Check, held
  <2> QED BY <2>1, <1>1, <1>2, <1>3 DEF Steady
<1>6. CASE UNCHANGED watchVars
  <2>1. UNCHANGED <<stage, disturbed>> BY <1>6 DEF watchVars, held
  <2> QED BY <2>1, <1>1, <1>2, <1>3 DEF Steady
<1> QED BY <1>1, <1>2, <1>3, <1>4, <1>5, <1>6 DEF WatchNext, Replay

LEMMA InStepStep ==
  ASSUME Paced
  PROVE  Watched /\ [WatchNext]_watchVars => (Steady => InStep)'
<1> SUFFICES ASSUME Watched, [WatchNext]_watchVars, Steady' PROVE InStep' OBVIOUS
<1>1. CASE Open BY <1>1, OpenFollowed
<1>2. CASE ~Open
  <2>1. Steady /\ ~Archive /\ ~ReplayLine /\ ~EndReplay /\ ~Restart BY <1>2, SteadyBefore
  <2>2. CASE AppendText BY <2>1, <2>2, AppendFollowed
  <2>3. CASE AppendNewline BY <2>1, <2>3, NewlineFollowed
  <2>4. CASE Truncate BY <2>1, <2>4, TruncateFollowed
  <2>5. CASE Rewrite BY <2>1, <2>5, RewriteFollowed
  <2>6. CASE Fill BY <2>1, <2>6, FillFollowed
  <2>7. CASE LoadLine BY <2>1, <2>7, LoadLineFollowed
  <2>8. CASE LoadEnd BY <2>1, <2>8, LoadEndFollowed
  <2>9. CASE SeekEnd BY <2>1, <2>9, SeekFollowed
  <2>10. CASE FollowLine BY <2>1, <2>10, FollowLineFollowed
  <2>11. CASE AtEnd BY <2>1, <2>11, AtEndFollowed
  <2>12. CASE Check BY <2>1, <2>12, CheckFollowed
  <2>13. CASE UNCHANGED watchVars BY <2>1, <2>13, SteadyLog, InStepUnchanged
  <2> QED BY <1>2, <2>1, <2>2, <2>3, <2>4, <2>5, <2>6, <2>7, <2>8, <2>9, <2>10, <2>11, <2>12,
             <2>13 DEF WatchNext, Pipeline, Replay, Watch
<1> QED BY <1>1, <1>2

LEMMA WatchedInit ==
  WatchInit => Watched
<1> SUFFICES ASSUME WatchInit PROVE Watched OBVIOUS
<1>1. WatchTypes /\ FileKept /\ Settled BY WatchTypesInit, FileKeptInit, SettledInit
<1>2. AtRest BY DEF WatchInit, AtRest
<1>3. ~Steady BY DEF WatchInit, Steady
<1> QED BY <1>1, <1>2, <1>3 DEF Watched

LEMMA WatchedStep ==
  ASSUME Paced
  PROVE  Watched /\ [WatchNext]_watchVars => Watched'
<1> SUFFICES ASSUME Watched, [WatchNext]_watchVars PROVE Watched' OBVIOUS
<1>1. WatchTypes /\ FileKept /\ Settled BY DEF Watched
<1>2. WatchTypes' BY <1>1, WatchTypesStep
<1>3. FileKept' BY <1>1, FileKeptStep
<1>4. Settled' BY <1>1, SettledStep
<1>5. AtRest' BY AtRestStep
<1>6. (Steady => InStep)' BY InStepStep
<1> QED BY <1>2, <1>3, <1>4, <1>5, <1>6 DEF Watched

-----------------------------------------------------------------------------
(* What it has told *)

\* What was processed is told, and the exchange the next one is compared with
\* was processed or read at a start.
Told ==
  /\ \A e \in processed : Covered(e)
  /\ previous # None => previous \in processed \cup history

LEMMA TellingGrows ==
  [WatchNext]_watchVars => datagrams \subseteq datagrams' /\ history \subseteq history'
<1> SUFFICES ASSUME [WatchNext]_watchVars
             PROVE  datagrams \subseteq datagrams' /\ history \subseteq history'
  OBVIOUS
<1>1. CASE Pipeline \/ Replay BY <1>1, WriterFrame
<1>2. CASE Restart BY <1>2 DEF Restart
<1>3. CASE Open \/ Fill \/ SeekEnd \/ AtEnd \/ Check
  BY <1>3 DEF Open, Fill, SeekEnd, AtEnd, Check, seen
<1>4. CASE LoadLine BY <1>4 DEF LoadLine, Load, seen
<1>5. CASE LoadEnd BY <1>5 DEF LoadEnd, Load, seen
<1>6. CASE FollowLine BY <1>6 DEF FollowLine, seen
<1>7. CASE UNCHANGED watchVars BY <1>7 DEF watchVars, seen
<1> QED BY <1>1, <1>2, <1>3, <1>4, <1>5, <1>6, <1>7 DEF WatchNext, Watch

LEMMA StaysCovered ==
  [WatchNext]_watchVars => \A e \in Exchanges : Covered(e) => Covered(e)'
BY TellingGrows DEF Covered

\* The exchange a watcher processes is told with what it was compared with.
LEMMA ProcessedTold ==
  ASSUME WatchTypes, Told, [WatchNext]_watchVars, NEW e \in Exchanges,
         Emitted(previous, e) \subseteq datagrams'
  PROVE  Covered(e)'
<1>1. previous \in Exchanges \cup {None} BY DEF WatchTypes, ReadTypes
<1>2. ASSUME NEW x \in ToSet(Messages[e])
      PROVE  (\E d \in datagrams' : x \in d.messages)
               \/ \E h \in history' : x \in ToSet(Messages[h])
  <2>1. CASE \E d \in Emitted(previous, e) : x \in d.messages BY <2>1
  <2>2. CASE previous # None /\ x \in ToSet(Messages[previous])
    <3>1. CASE previous \in processed
      <4>1. Covered(previous) BY <3>1 DEF Told
      <4>2. \/ \E d \in datagrams : x \in d.messages
            \/ \E h \in history : x \in ToSet(Messages[h])
        BY <2>2, <4>1 DEF Covered
      <4> QED BY <4>2, TellingGrows
    <3>2. CASE previous \in history BY <2>2, <3>2, TellingGrows
    <3> QED BY <2>2, <3>1, <3>2 DEF Told
  <2>3. PICK p \in Exchanges \cup {None} : p = previous BY <1>1
  <2>4. \/ \E d \in Emitted(p, e) : x \in d.messages
        \/ p # None /\ x \in ToSet(Messages[p])
    BY EmittedTells
  <2> QED BY <2>1, <2>2, <2>3, <2>4
<1> QED BY <1>2 DEF Covered

LEMMA ToldInit ==
  WatchInit => Told
BY DEF WatchInit, Told

LEMMA ToldStep ==
  WatchTypes /\ Told /\ [WatchNext]_watchVars => Told'
<1> SUFFICES ASSUME WatchTypes, Told, [WatchNext]_watchVars PROVE Told' OBVIOUS
<1>0. processed \subseteq Exchanges BY DEF WatchTypes, SeenTypes
<1>1. ASSUME UNCHANGED processed, history \subseteq history',
             \/ previous' = previous
             \/ previous' = None
             \/ previous' \in history'
      PROVE  Told'
  <2>1. \A e \in processed' : Covered(e)' BY <1>0, <1>1, StaysCovered DEF Told
  <2>2. previous' # None => previous' \in processed' \cup history' BY <1>1 DEF Told
  <2> QED BY <2>1, <2>2 DEF Told
<1>2. history \subseteq history' BY TellingGrows
<1>3. CASE Pipeline \/ Replay BY <1>1, <1>2, <1>3, WriterFrame
<1>4. CASE Restart BY <1>1, <1>2, <1>4 DEF Restart
<1>5. CASE Open \/ Fill \/ SeekEnd \/ AtEnd
  BY <1>1, <1>2, <1>5 DEF Open, Fill, SeekEnd, AtEnd, seen
<1>6. CASE Check BY <1>1, <1>2, <1>6 DEF Check, Reset, seen
<1>7. ASSUME NEW text, Load(text) PROVE Told' BY <1>1, <1>2, <1>7 DEF Load
<1>8. ASSUME UNCHANGED <<previous, seen>> PROVE Told' BY <1>1, <1>2, <1>8 DEF seen
<1>9. CASE LoadLine BY <1>7, <1>8, <1>9 DEF LoadLine
<1>10. CASE LoadEnd BY <1>7, <1>8, <1>10 DEF LoadEnd
<1>11. CASE FollowLine
  <2> DEFINE e == Parse(Taken)
  <2>1. CASE ~HasNL \/ Taken = <<>> \/ e = None
    BY <1>1, <1>2, <1>11, <2>1 DEF FollowLine, seen
  <2>2. CASE ~(~HasNL \/ Taken = <<>> \/ e = None)
    <3>1. /\ datagrams' = datagrams \cup Emitted(previous, e)
          /\ previous' = e /\ processed' = processed \cup {e}
      BY <1>11, <2>2 DEF FollowLine
    <3>2. e \in Exchanges BY <2>2, ParseType
    <3>3. PICK f \in Exchanges : f = e BY <3>2
    <3>4. Covered(f)' BY <3>1, <3>3, ProcessedTold
    <3>5. \A g \in processed : Covered(g)' BY <1>0, StaysCovered DEF Told
    <3>6. processed' = processed \cup {f} /\ previous' = f BY <3>1, <3>3
    <3> HIDE DEF e
    <3>7. \A g \in processed' : Covered(g)' BY <3>4, <3>5, <3>6
    <3> QED BY <3>6, <3>7 DEF Told
  <2> QED BY <2>1, <2>2
<1>12. CASE UNCHANGED watchVars BY <1>1, <1>12 DEF watchVars, seen
<1> QED BY <1>3, <1>4, <1>5, <1>6, <1>9, <1>10, <1>11, <1>12 DEF WatchNext, Watch

-----------------------------------------------------------------------------
(* The theorems *)

LEMMA WatchedFollows ==
  Watched /\ Told => LogFollowed
<1> SUFFICES ASSUME Watched, Told PROVE LogFollowed OBVIOUS
<1>1. ASSUME ~disturbed PROVE ~malformed /\ (polled => ~shrunk)
  <2>1. CASE stage = "wait" BY <2>1 DEF Watched, Settled
  <2>2. CASE stage # "wait"
    <3>1. InStep BY <1>1, <2>2 DEF Watched, Steady
    <3>2. polled => ~Behind BY <3>1, WatchedTypes DEF InStep, Behind
    <3> QED BY <3>1, <3>2 DEF InStep
  <2> QED BY <2>1, <2>2
<1>2. \A e \in processed : Covered(e) BY DEF Told
<1> QED BY <1>1, <1>2 DEF LogFollowed, Covered

\* In step with a pipeline that acts once the watcher has polled, a watcher that
\* no replay disturbs skips no line, has noticed every truncation when it has
\* polled, and tells every message of the exchanges it processes, whatever the
\* sizes of the lines and the pieces in which they are read.
THEOREM WatcherFollowsLog ==
  ASSUME Paced
  PROVE  WatchSpec => []LogFollowed
<1>1. WatchInit => Watched /\ Told BY WatchedInit, ToldInit
<1>2. Watched /\ Told /\ [WatchNext]_watchVars => (Watched /\ Told)'
  BY WatchedStep, ToldStep DEF Watched
<1>3. Watched /\ Told => LogFollowed BY WatchedFollows
<1> QED BY <1>1, <1>2, <1>3, PTL DEF WatchSpec

\* An exchange is emitted at the line it is on, after the exchange before it.
Consecutive(d) ==
  /\ d.line \in DOMAIN LogLines /\ LogLines[d.line] = d.rec
  /\ d.startup <=> d.line = 1
  /\ ~d.startup => LogLines[d.line - 1] = d.prev

LEMMA EmittedConsecutive ==
  ASSUME Watched, Steady, FollowLine, NEW d \in datagrams' \ datagrams
  PROVE  Consecutive(d)
<1> DEFINE e == Parse(Taken)
<1>1. /\ stage = "follow" /\ buf # <<>> /\ HasNL /\ Taken # <<>> /\ e # None
      /\ d \in Emitted(previous, e)
  BY DEF FollowLine, seen
<1>2. Reading BY <1>1, BufferRead
<1>3. ~Pending BY <1>1, <1>2, PendingNewline
<1>4. Buffered(file, pos, buf, partial_line) /\ AtLine(file, Start, line_number, previous)
  BY <1>2, <1>3 DEF Reading
<1> DEFINE i == Consumed + Cut
           r == SubSeq(buf, Cut + 1, Len(buf))
<1>5. /\ i \in 1..Len(file) /\ file[i] = NL /\ e = file[i - 1]
      /\ line_number + 1 = Cardinality(Newlines(file, i))
      /\ Start \in 0..Len(file)
  <2>1. WatchTypes /\ FileKept BY DEF Watched
  <2>2. PICK j, q : j = i /\ q = r OBVIOUS
  <2> HIDE DEF i, r
  <2>3. /\ j \in 1..Len(file) /\ file[j] = NL /\ Parse(Taken) = file[j - 1]
        /\ line_number + 1 = Cardinality(Newlines(file, j))
        /\ Start \in 0..Len(file)
    BY <1>1, <1>4, <2>1, <2>2, LineRead DEF i, r
  <2> QED BY <2>2, <2>3
<1>6. file \in Seq(Bytes) /\ line_number \in Nat BY WatchedTypes
<1>7. line_number + 1 \in DOMAIN LogLines /\ LogLines[line_number + 1] = e
  <2>1. PICK j \in 1..Len(file), n \in Nat : j = i /\ n = line_number + 1 BY <1>5, <1>6
  <2> HIDE DEF i, e
  <2> QED BY <1>5, <1>6, <2>1, LineNumber
<1>8. /\ d.rec = e /\ d.line = line_number + 1 /\ d.prev = previous
      /\ d.startup = (previous = None)
  BY <1>1 DEF Emitted
<1> HIDE DEF e, i, r
<1>9. CASE Start = 0
  <2>1. line_number = 0 /\ previous = None BY <1>4, <1>9 DEF AtLine
  <2>2. d.startup BY <1>8, <2>1, Zenon
  <2>3. d.line = 1
    <3>1. d.line = 0 + 1 BY <1>8, <2>1, Zenon
    <3> QED BY <3>1
  <2> QED BY <1>7, <1>8, <2>2, <2>3 DEF Consecutive
<1>10. CASE Start # 0
  <2>1. PICK s \in 1..Len(file) : s = Start BY <1>5, <1>6, <1>10
  <2>2. /\ file[s] = NL /\ previous = file[s - 1]
        /\ line_number = Cardinality(Newlines(file, s))
    BY <1>4, <1>10, <2>1 DEF AtLine
  <2>3. line_number \in DOMAIN LogLines /\ LogLines[line_number] = previous
    <3>1. PICK n : n = line_number OBVIOUS
    <3> QED BY <1>6, <2>2, <3>1, LineNumber
  <2>4. line_number >= 1 BY <1>6, <2>3 DEF LogLines
  <2>5. previous # None
    <3>1. LineEndsAt(file, s) BY <2>2 DEF Watched, FileKept, WholeLines
    <3> QED BY <2>2, <3>1, SizePositive DEF LineEndsAt, None, NL
  <2>6. ~d.startup BY <1>8, <2>5, Zenon
  <2>7. d.line # 1 /\ d.line - 1 = line_number
    <3>1. d.line = line_number + 1 BY <1>8, Zenon
    <3> QED BY <1>6, <2>4, <3>1
  <2> QED BY <1>7, <1>8, <2>3, <2>6, <2>7 DEF Consecutive
<1> QED BY <1>9, <1>10

LEMMA StepConsecutive ==
  ASSUME Watched, [WatchNext]_watchVars, ~disturbed, NEW d \in datagrams' \ datagrams
  PROVE  Consecutive(d)
<1>1. CASE Pipeline \/ Replay BY <1>1, WriterFrame
<1>2. CASE Restart BY <1>2 DEF Restart
<1>3. CASE Open \/ Fill \/ SeekEnd \/ AtEnd \/ Check
  BY <1>3 DEF Open, Fill, SeekEnd, AtEnd, Check, seen
<1>4. CASE LoadLine BY <1>4 DEF LoadLine, Load, seen
<1>5. CASE LoadEnd BY <1>5 DEF LoadEnd, Load, seen
<1>6. CASE FollowLine
  <2>1. Steady BY <1>6 DEF FollowLine, Steady
  <2> QED BY <1>6, <2>1, EmittedConsecutive
<1>7. CASE UNCHANGED watchVars BY <1>7 DEF watchVars, seen
<1> QED BY <1>1, <1>2, <1>3, <1>4, <1>5, <1>6, <1>7 DEF WatchNext, Watch

\* A datagram names the line its exchange is on, compares it with the exchange
\* of the line before it and is a startup datagram only on the first line,
\* wherever in a line the reads and the truncations fall.
THEOREM WatcherConsecutive ==
  ASSUME Paced
  PROVE  WatchSpec => DatagramsConsecutive
<1>1. WatchInit => Watched BY WatchedInit
<1>2. Watched /\ [WatchNext]_watchVars => Watched' BY WatchedStep
<1> DEFINE Told1 == ~disturbed => \A d \in datagrams' \ datagrams : Consecutive(d)
<1>3. Watched /\ [WatchNext]_watchVars => [Told1]_watchVars BY StepConsecutive
<1>4. [Told1]_watchVars <=>
        [~disturbed => \A d \in datagrams' \ datagrams :
           /\ d.line \in DOMAIN LogLines /\ LogLines[d.line] = d.rec
           /\ d.startup <=> d.line = 1
           /\ ~d.startup => LogLines[d.line - 1] = d.prev]_watchVars
  BY DEF Consecutive
<1> QED BY <1>1, <1>2, <1>3, <1>4, PTL DEF WatchSpec, DatagramsConsecutive

=============================================================================
