-------------------------- MODULE MCSessionReplay --------------------------
(* The requests of MCSessionFiles, with a replay before, between or beside   *)
(* them.                                                                     *)
EXTENDS MCSessionFiles, SessionReplay

MCDerivedFiles == <<"main", "sub", "comp", "pre">>

\* The sessions that are explored: all requests without a replay and without
\* failures; a main exchange and a compaction with two replays, which may meet
\* open handlers, and a crash or an I/O error; a subagent besides, with one
\* replay that is alone.
Sessions ==
  LET sent == {r \in Requests : pc[r] # "idle"}
      calm == crashes + faults = 0
  IN  \/ replays = 0 /\ calm
      \/ crashes + faults <= 1 /\ sent \subseteq {m1, c1}
      \/ replays = 1 /\ alone /\ calm /\ sent \subseteq {m1, c1, s1}

=============================================================================
