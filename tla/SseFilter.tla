----------------------------- MODULE SseFilter -----------------------------
(***************************************************************************)
(* What the response side of the bifrost proxy promises: "Thinking blocks  *)
(* are stripped from the stream and side-logged.  All other blocks are     *)
(* forwarded with contiguous renumbered indices."                          *)
(*                                                                         *)
(* An event of the upstream stream is known by its position.  What it      *)
(* belongs to is read off the stream itself: an event that names a block   *)
(* index belongs to the latest block of that index that has not stopped.   *)
(***************************************************************************)
EXTENDS Integers, Sequences, FiniteSets

CONSTANT Streams    \* the event streams the upstream may send

EventType == {"start", "delta", "stop", "other"}

\* kind: of a block for a start ("thinking", "text", ...), of the content for
\* a delta ("thinking" when it carries /delta/thinking).
Event == [type : EventType, index : Nat, kind : STRING]

Starts(s, p) == s[p].type = "start"
Thinking(s, p) == s[p].kind = "thinking"
Bounds(s, q, i) == s[q].type \in {"start", "stop"} /\ s[q].index = i

\* After the first n events, block index i is open and p started it.
Opened(s, n, i, p) ==
  /\ p \in 1..n
  /\ Starts(s, p)
  /\ s[p].index = i
  /\ \A q \in p + 1..n : ~Bounds(s, q, i)

\* Event k belongs to the block that p started.
Owns(s, p, k) ==
  \/ Starts(s, k) /\ p = k
  \/ s[k].type \in {"delta", "stop"} /\ Opened(s, k - 1, s[k].index, p)

Stripped(s, k) == \E p \in 1..k : Owns(s, p, k) /\ Thinking(s, p)

\* The number of blocks forwarded among the first n events.
ForwardedStarts(s, n) == {p \in 1..n : Starts(s, p) /\ ~Thinking(s, p)}
Rank(s, n) == Cardinality(ForwardedStarts(s, n))

\* The index event k is forwarded with: its block's rank among the forwarded
\* ones, or its own when no open block has it.
Renumbered(s, k) ==
  IF \E p \in 1..k : Owns(s, p, k)
  THEN Rank(s, (CHOOSE p \in 1..k : Owns(s, p, k)) - 1)
  ELSE s[k].index

-----------------------------------------------------------------------------

VARIABLES
  stream,   \* what the upstream sends
  routed,   \* the number of events filtered
  out       \* what was forwarded: which event, with what index

vars == <<stream, routed, out>>

Init ==
  /\ stream \in Streams
  /\ routed = 0
  /\ out = <<>>

Filter ==
  /\ routed < Len(stream)
  /\ routed' = routed + 1
  /\ out' = IF Stripped(stream, routed') THEN out
            ELSE Append(out, [src |-> routed',
                              index |-> Renumbered(stream, routed')])
  /\ UNCHANGED stream

Next == Filter

Spec == Init /\ [][Next]_vars

\* The client sees blocks 0, 1, 2, ... without a gap: the nth block start that
\* is forwarded carries index n - 1.
ForwardedContiguous ==
  \A i \in DOMAIN out :
    Starts(stream, out[i].src) =>
      out[i].index = Cardinality({j \in 1..i - 1 : Starts(stream, out[j].src)})

=============================================================================
