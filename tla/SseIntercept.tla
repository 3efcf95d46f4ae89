---------------------------- MODULE SseIntercept ----------------------------
(***************************************************************************)
(* The task spawn_sse_intercept runs for one /v1/messages response: frames *)
(* from the upstream are cut into events at "\n\n", each event is routed    *)
(* by the mode of its block, and what is forwarded goes through a bounded  *)
(* channel to the client.  SseFilter is what it promises.                  *)
(*                                                                         *)
(* On the wire every event is two pieces, the text and the boundary that   *)
(* completes it; a frame carries any number of pieces.                     *)
(***************************************************************************)
EXTENDS Integers, Sequences, FiniteSets

CONSTANTS
  Streams,      \* the event streams the upstream may send
  Index,        \* the block indices in them
  Capacity,     \* frames the channel holds (mpsc::channel(32))
  MayBreak,     \* may the upstream connection fail
  MayClose,     \* may the client go away
  MaxLogFaults  \* bound: side-log writes that fail

ASSUME IndexAssumption == Index \subseteq Nat
ASSUME StreamIndexAssumption ==
  \A s \in Streams : \A k \in DOMAIN s : s[k].index \in Index
ASSUME CapacityAssumption == Capacity \in Nat \ {0} /\ MaxLogFaults \in Nat

VARIABLES
  stream,     \* what the upstream sends
  received,   \* pieces of it that arrived
  routed,     \* events taken from event_buffer
  block_modes, next_forwarded_index, thinking_buffer,   \* SseInterceptState
  session,    \* session_dir is Some
  pending,    \* the event being sent: route_complete_events awaits the channel
  sent,       \* every event that entered the channel
  read,       \* how many of them the client has read
  tail,       \* the unfinished event flushed at the end of the stream, or 0
  log,        \* thinking_log.jsonl: each entry lists the deltas in it
  pc, broken, closed, faults

input == <<stream, session>>
filter == <<block_modes, next_forwarded_index, thinking_buffer>>
vars == <<stream, received, routed, block_modes, next_forwarded_index,
          thinking_buffer, session, pending, sent, read, tail, log, pc,
          broken, closed, faults>>

Promise == INSTANCE SseFilter WITH out <- sent \o pending

ASSUME StreamsAssumption == Streams \subseteq Seq(Promise!Event)

NoMode == [mode |-> "none", forwarded_index |-> 0]
StripMode == [mode |-> "strip", forwarded_index |-> 0]
ForwardMode(n) == [mode |-> "forward", forwarded_index |-> n]

Item == [src : Nat, index : Nat]

TypeOK ==
  /\ stream \in Streams
  /\ received \in 0..2 * Len(stream)
  /\ routed \in 0..Len(stream)
  /\ block_modes \in [Index -> [mode : {"none", "strip", "forward"},
                                forwarded_index : Nat]]
  /\ next_forwarded_index \in Nat
  /\ thinking_buffer \in Seq(Nat)
  /\ session \in BOOLEAN
  /\ pending \in Seq(Item) /\ Len(pending) <= 1
  /\ sent \in Seq(Item)
  /\ read \in 0..Len(sent) /\ Len(sent) - read <= Capacity
  /\ tail \in Nat
  /\ log \in Seq(Seq(Nat))
  /\ pc \in {"frame", "route", "send", "returned"}
  /\ broken \in BOOLEAN /\ closed \in BOOLEAN
  /\ faults \in 0..MaxLogFaults

Init ==
  /\ stream \in Streams
  /\ received = 0
  /\ routed = 0
  /\ block_modes = [i \in Index |-> NoMode]
  /\ next_forwarded_index = 0
  /\ thinking_buffer = <<>>
  /\ session \in BOOLEAN
  /\ pending = <<>>
  /\ sent = <<>>
  /\ read = 0
  /\ tail = 0
  /\ log = <<>>
  /\ pc = "frame"
  /\ broken = FALSE
  /\ closed = FALSE
  /\ faults = 0

-----------------------------------------------------------------------------
(* Frames in, events out of the buffer *)

Complete == 2 * (routed + 1) <= received
Event == stream[routed + 1]
Mode == block_modes[Event.index]

Room == Len(sent) - read < Capacity

Frame ==
  /\ pc = "frame"
  /\ received < 2 * Len(stream)
  /\ received' \in received + 1..2 * Len(stream)
  /\ pc' = "route"
  /\ UNCHANGED <<input, filter, routed, pending, sent, read, tail, log,
                 broken, closed, faults>>

\* No complete event is left in the buffer: wait for the next frame.
NextFrame ==
  /\ pc = "route"
  /\ ~Complete
  /\ pc' = "frame"
  /\ UNCHANGED <<input, filter, received, routed, pending, sent, read, tail,
                 log, broken, closed, faults>>

Take ==
  /\ pc = "route"
  /\ Complete
  /\ routed' = routed + 1
  /\ UNCHANGED <<input, received, sent, read, tail, broken, closed>>

Strip == pending' = <<>> /\ pc' = "route"
Pass(n) == pending' = <<[src |-> routed + 1, index |-> n]>> /\ pc' = "send"

\* Not a content block event, or one whose data is not JSON: as it is.
PassOther ==
  /\ Take
  /\ Event.type = "other"
  /\ Pass(Event.index)
  /\ UNCHANGED <<filter, log, faults>>

-----------------------------------------------------------------------------
(* The three block handlers *)

\* Mutant: a stripped block takes a forwarded index.
BlockStartCountsAll ==
  /\ Take
  /\ Event.type = "start"
  /\ next_forwarded_index' = next_forwarded_index + 1
  /\ IF Event.kind = "thinking"
     THEN /\ block_modes' = [block_modes EXCEPT ![Event.index] = StripMode]
          /\ thinking_buffer' = <<>>
          /\ Strip
     ELSE /\ block_modes' = [block_modes EXCEPT ![Event.index] =
                               ForwardMode(next_forwarded_index)]
          /\ UNCHANGED thinking_buffer
          /\ Pass(next_forwarded_index)
  /\ UNCHANGED <<log, faults>>

\* handle_block_start
BlockStart ==
  /\ Take
  /\ Event.type = "start"
  /\ IF Event.kind = "thinking"
     THEN /\ block_modes' = [block_modes EXCEPT ![Event.index] = StripMode]
          /\ thinking_buffer' = <<>>
          /\ UNCHANGED next_forwarded_index
          /\ Strip
     ELSE /\ block_modes' = [block_modes EXCEPT ![Event.index] =
                               ForwardMode(next_forwarded_index)]
          /\ next_forwarded_index' = next_forwarded_index + 1
          /\ UNCHANGED thinking_buffer
          /\ Pass(next_forwarded_index)
  /\ UNCHANGED <<log, faults>>

\* Mutant: only the thinking deltas of a thinking block are stripped.
BlockDeltaByKind ==
  /\ Take
  /\ Event.type = "delta"
  /\ IF Event.kind = "thinking"
     THEN thinking_buffer' = Append(thinking_buffer, routed + 1) /\ Strip
     ELSE /\ Pass(IF Mode.mode = "forward" THEN Mode.forwarded_index
                  ELSE Event.index)
          /\ UNCHANGED thinking_buffer
  /\ UNCHANGED <<block_modes, next_forwarded_index, log, faults>>

\* handle_block_delta: the content of a stripped block is kept for the side
\* log, any other delta is forwarded, unchanged when no open block has it.
BlockDelta ==
  /\ Take
  /\ Event.type = "delta"
  /\ IF Mode.mode = "strip"
     THEN /\ thinking_buffer' = IF Event.kind = "thinking"
                                THEN Append(thinking_buffer, routed + 1)
                                ELSE thinking_buffer
          /\ Strip
     ELSE /\ Pass(IF Mode.mode = "forward" THEN Mode.forwarded_index
                  ELSE Event.index)
          /\ UNCHANGED thinking_buffer
  /\ UNCHANGED <<block_modes, next_forwarded_index, log, faults>>

\* write_thinking_side_log: an empty text writes nothing, an error is logged
\* and ignored.
WriteSideLog ==
  IF session /\ thinking_buffer # <<>>
  THEN \/ log' = Append(log, thinking_buffer) /\ UNCHANGED faults
       \/ faults < MaxLogFaults /\ faults' = faults + 1 /\ UNCHANGED log
  ELSE UNCHANGED <<log, faults>>

\* Mutant: a block that has stopped keeps its mode.
BlockStopKeepsMode ==
  /\ Take
  /\ Event.type = "stop"
  /\ UNCHANGED <<block_modes, next_forwarded_index>>
  /\ IF Mode.mode = "strip"
     THEN WriteSideLog /\ thinking_buffer' = <<>> /\ Strip
     ELSE /\ Pass(IF Mode.mode = "forward" THEN Mode.forwarded_index
                  ELSE Event.index)
          /\ UNCHANGED <<thinking_buffer, log, faults>>

\* handle_block_stop: the mode of the block is forgotten.
BlockStop ==
  /\ Take
  /\ Event.type = "stop"
  /\ block_modes' = [block_modes EXCEPT ![Event.index] = NoMode]
  /\ UNCHANGED next_forwarded_index
  /\ IF Mode.mode = "strip"
     THEN WriteSideLog /\ thinking_buffer' = <<>> /\ Strip
     ELSE /\ Pass(IF Mode.mode = "forward" THEN Mode.forwarded_index
                  ELSE Event.index)
          /\ UNCHANGED <<thinking_buffer, log, faults>>

-----------------------------------------------------------------------------
(* The channel and the two ends of the connection *)

\* Mutant: one event is taken from each frame.
SendAndWait ==
  /\ pc = "send"
  /\ Room
  /\ sent' = sent \o pending
  /\ pending' = <<>>
  /\ pc' = "frame"
  /\ UNCHANGED <<input, filter, received, routed, read, tail, log, broken,
                 closed, faults>>

Send ==
  /\ pc = "send"
  /\ Room
  /\ ~closed
  /\ sent' = sent \o pending
  /\ pending' = <<>>
  /\ pc' = "route"
  /\ UNCHANGED <<input, filter, received, routed, read, tail, log, broken,
                 closed, faults>>

\* The client is gone: the task returns, its event is dropped.
SendFails ==
  /\ pc = "send"
  /\ closed
  /\ pc' = "returned"
  /\ UNCHANGED <<input, filter, received, routed, pending, sent, read, tail,
                 log, broken, closed, faults>>

\* The stream ends, be it inside an event: what is left in the buffer is sent as it is.
StreamEnd ==
  /\ pc = "frame"
  /\ Room \/ closed
  /\ tail' = IF received % 2 = 1 /\ ~closed THEN routed + 1 ELSE 0
  /\ pc' = "returned"
  /\ UNCHANGED <<input, filter, received, routed, pending, sent, read, log,
                 broken, closed, faults>>

\* The upstream fails: the client gets an error and what is buffered is lost.
StreamError ==
  /\ MayBreak
  /\ pc = "frame"
  /\ Room \/ closed
  /\ broken' = TRUE
  /\ pc' = "returned"
  /\ UNCHANGED <<input, filter, received, routed, pending, sent, read, tail,
                 log, closed, faults>>

ClientRead ==
  /\ ~closed
  /\ read < Len(sent)
  /\ read' = read + 1
  /\ UNCHANGED <<input, filter, received, routed, pending, sent, tail, log,
                 pc, broken, closed, faults>>

ClientClose ==
  /\ MayClose
  /\ ~closed
  /\ closed' = TRUE
  /\ UNCHANGED <<input, filter, received, routed, pending, sent, read, tail,
                 log, pc, broken, faults>>

Route == PassOther \/ BlockStart \/ BlockDelta \/ BlockStop

Task == NextFrame \/ Route \/ Send \/ SendFails

Next == Frame \/ Task \/ StreamEnd \/ StreamError \/ ClientRead \/ ClientClose

Spec == Init /\ [][Next]_vars

\* The task runs, a client that stays reads, and the upstream goes on sending
\* or ends the stream: none of them owes the other a failure.
FairSpec ==
  Spec /\ WF_vars(Task) /\ WF_vars(ClientRead) /\ WF_vars(Frame \/ StreamEnd)

-----------------------------------------------------------------------------
(* Properties *)

\* What was sent, with what is being sent, is the filter's output on exactly
\* the events taken so far, in every order of frames, reads and disconnects.
ImplementsFilter == Promise!Spec

\* The blocks the client is sent are numbered 0, 1, 2, ... in the order they
\* start, however many were stripped between them.
ForwardedContiguous == Promise!ForwardedContiguous

\* The mode of the block that p started.
ModeFor(s, p) == IF Promise!Thinking(s, p) THEN StripMode
                 ELSE ForwardMode(Promise!Rank(s, p - 1))

\* Why the promise is kept: the mode of a block index tells what block is open
\* there, and the next index counts the blocks forwarded.
ModesTrackStream ==
  /\ next_forwarded_index = Promise!Rank(stream, routed)
  /\ \A i \in Index :
       LET m == block_modes[i]
           open(p) == Promise!Opened(stream, routed, i, p)
       IN  \/ m = NoMode /\ \A p \in 1..routed : ~open(p)
           \/ \E p \in 1..routed :
                /\ open(p)
                /\ m = ModeFor(stream, p)
  /\ pc \in {"frame", "route"} => pending = <<>>

\* The deltas the side log should hold for the block that event k stops.
ThinkingOf(k) ==
  LET p == CHOOSE p \in 1..k : Promise!Owns(stream, p, k)
  IN  {d \in p + 1..k - 1 : stream[d].type = "delta"
                              /\ Promise!Thinking(stream, d)
                              /\ Promise!Owns(stream, p, d)}

\* The blocks of the stream come one after the other, as the Messages API sends
\* them.
InSequence ==
  \A p, q \in DOMAIN stream :
    p < q /\ Promise!Starts(stream, p) /\ Promise!Starts(stream, q) =>
      \E k \in p..q : stream[k].type = "stop" /\ stream[k].index = stream[p].index

\* Thinking goes to the side log instead of the client: none of its events is
\* sent, and when the stream ends nothing is flushed unrouted but the one event the
\* stream ended inside of, which may be thinking cut short.  The side log has one
\* entry per thinking block that has ended and had text, in the order they ended,
\* each the whole text of its own block, unless a write of it failed.
ThinkingDiverted ==
  LET ended == {k \in 1..routed : /\ stream[k].type = "stop"
                                  /\ Promise!Stripped(stream, k)
                                  /\ ThinkingOf(k) # {}}
      nth(n) == CHOOSE k \in ended : Cardinality({e \in ended : e < k}) = n - 1
  IN  /\ \A i \in DOMAIN sent : ~Promise!Stripped(stream, sent[i].src)
      /\ tail # 0 => pc = "returned" /\ tail = routed + 1 /\ received = 2 * tail - 1
      /\ session /\ faults = 0 /\ InSequence =>
           /\ Len(log) = Cardinality(ended)
           /\ \A n \in 1..Len(log) :
                /\ {log[n][j] : j \in DOMAIN log[n]} = ThinkingOf(nth(n))
                /\ \A i, j \in DOMAIN log[n] : i < j => log[n][i] < log[n][j]

\* A client that stays connected gets all of what came whole: the bounded channel
\* delays the filter but never stops it.
EverythingDelivered ==
  <>(closed \/ broken \/ (routed = received \div 2 /\ read = Len(sent)
                            /\ pc = "returned"))

=============================================================================
