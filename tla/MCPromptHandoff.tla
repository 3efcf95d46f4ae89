-------------------------- MODULE MCPromptHandoff --------------------------
(* Two terminals with two personas, in one workspace or in two.            *)
EXTENDS PromptHandoff, TLC

CONSTANTS t1, t2, odin, tyr, nornir, docs

MCScopes ==
  {[workspaces |-> Workspaces, picks |-> 2, sessions |-> 3, mishaps |-> 0]} \cup
  {[workspaces |-> Workspaces, picks |-> 1, sessions |-> 3, mishaps |-> 1]} \cup
  {[workspaces |-> {w}, picks |-> 1, sessions |-> 4, mishaps |-> 0] : w \in Workspaces} \cup
  {[workspaces |-> {w}, picks |-> 1, sessions |-> 3, mishaps |-> 1] : w \in Workspaces} \cup
  {[workspaces |-> {w}, picks |-> 2, sessions |-> 2, mishaps |-> 1] : w \in Workspaces}

Interchangeable ==
  Permutations(Terminals) \cup Permutations(Personas) \cup Permutations(Workspaces)

=============================================================================
