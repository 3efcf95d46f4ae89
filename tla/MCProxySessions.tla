--------------------------- MODULE MCProxySessions ---------------------------
(* Two sessions, one in a workspace that lies inside the other's.          *)
EXTENDS ProxySessions

CONSTANTS a, b, a1, a2, b1, unknown, off

MCDir == [s \in Sessions |-> IF s = a THEN <<"ai", "nornir">> ELSE <<"ai">>]

MCSession == [r \in Requests |-> IF r = b1 THEN b ELSE a]

\* a2 is a compaction request: it shows no directory.
MCShows == [r \in Requests |->
  CASE r = a1 -> MCDir[a] [] r = a2 -> <<>> [] r = b1 -> <<"ai">>]

=============================================================================
