------------------------------ MODULE Positions -----------------------------
(***************************************************************************)
(* The elements of a sequence by where they stand, for the tools that      *)
(* filter lists: what an iterator chain with `filter` and `position` does. *)
(***************************************************************************)
EXTENDS SequencesExt, Naturals

Position(seq, Test(_)) == \* of the first element that passes, or 0
    LET hits == {i \in DOMAIN seq : Test(seq[i])} IN IF hits = {} THEN 0 ELSE Min(hits)

\* The elements that stand at some positions, in their order.
ElementsAt(seq, positions) ==
    FlattenSeq([i \in DOMAIN seq |-> IF i \in positions THEN <<seq[i]>> ELSE <<>>])
=============================================================================
