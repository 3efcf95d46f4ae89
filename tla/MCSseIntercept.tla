--------------------------- MODULE MCSseIntercept ---------------------------
(* Streams: every short sequence of events, and responses of three blocks   *)
(* sent one after the other, as the Messages API sends them.                *)
EXTENDS SseIntercept, SequencesExt

ev(t, i, k) == [type |-> t, index |-> i, kind |-> k]

Alphabet ==
  {ev("start", i, k) : i \in {0, 1}, k \in {"thinking", "text"}}
    \cup {ev("delta", i, k) : i \in {0, 1}, k \in {"thinking", "text"}}
    \cup {ev("stop", i, "none") : i \in {0, 1}}
    \cup {ev("other", 0, "none")}

ShortStreams == UNION {[1..n -> Alphabet] : n \in 1..3}

Block(b, i) ==
  CASE b = "thinking"  -> <<ev("start", i, "thinking"), ev("delta", i, "thinking"),
                            ev("delta", i, "thinking"),
                            ev("delta", i, "signature"), ev("stop", i, "none")>>
    [] b = "omitted"   -> <<ev("start", i, "thinking"),
                            ev("delta", i, "signature"), ev("stop", i, "none")>>
    [] b = "text"      -> <<ev("start", i, "text"), ev("delta", i, "text"),
                            ev("stop", i, "none")>>

Responses ==
  {Block(a, 0) \o Block(b, 1) \o Block(c, 2) \o <<ev("other", 0, "none")>> :
     a, b, c \in {"thinking", "omitted", "text"}}

ShortAndWhole == ShortStreams \cup Responses

=============================================================================
