--------------------------- MODULE MCDatagrams ---------------------------
(* A quality report too large for UDP with a malformed datagram from the   *)
(* command line, and a notice of a hook with a malformed report.           *)
EXTENDS Datagrams, TLC

CONSTANTS m1, m2, r1, r2

K(caller, malformed, big) == [caller |-> caller, malformed |-> malformed, big |-> big]
MCKinds ==
  {(m1 :> K("alerting", FALSE, TRUE)) @@ (m2 :> K("validated", TRUE, FALSE)),
   (m1 :> K("emit", FALSE, FALSE)) @@ (m2 :> K("alerting", TRUE, FALSE))}
=============================================================================
