------------------------- MODULE MCExchangeWatcher -------------------------
(* A conversation that grows, is compacted, and starts over.               *)
EXTENDS ExchangeWatcher

MCSize == [e \in Exchanges |-> IF e = 2 THEN 1 ELSE 2]

MCMessages == [e \in Exchanges |->
  CASE e = 1 -> <<"a">>
    [] e = 2 -> <<"a", "b">>
    [] e = 3 -> <<"s", "b", "c">>
    [] OTHER -> <<"s", "b", "c">>]

MCBlocks == [e \in Exchanges |-> IF e = 4 THEN {"reminder"} ELSE {}]

=============================================================================
