--------------------------- MODULE MCSessionFiles ---------------------------
(* Two main exchanges, one or two compactions, subagents that may run beside *)
(* them, and a request that carries no tools.                                *)
EXTENDS SessionFiles

CONSTANTS m1, m2, c1, c2, s1, s2, u1

MCBody == [r \in Requests |->
  CASE r = m1 -> [valid |-> TRUE, tools |-> <<"Read", "Task">>, systemArray |-> TRUE]
    [] r = m2 -> [valid |-> TRUE, tools |-> <<"ToolSearch">>, systemArray |-> TRUE]
    [] r = c1 -> [valid |-> TRUE, tools |-> <<"Read">>, systemArray |-> TRUE]
    [] r = c2 -> [valid |-> TRUE, tools |-> <<"Read">>, systemArray |-> FALSE]
    [] r = s1 -> [valid |-> TRUE, tools |-> <<"Read", "Read">>, systemArray |-> TRUE]
    [] r = s2 -> [valid |-> TRUE, tools |-> <<"Bash">>, systemArray |-> TRUE]
    [] r = u1 -> [valid |-> FALSE, tools |-> <<"Task">>, systemArray |-> TRUE]]

Subagents == {"Subagent"}
AllKinds == {"Main", "Compaction", "Subagent", "None"}
NoKinds == {}

=============================================================================
