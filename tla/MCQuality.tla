---------------------------- MODULE MCQuality ----------------------------
(* A Python source and a Rust source; a version with an issue that blocks,   *)
(* and one with an issue that is only shown.                                *)
EXTENDS Quality, TLC

CONSTANTS py, rs, tmp, empty, bad, odd, h1, h2, dir, i1, i2

MCCasts == {{h1, dir}, {h1, h2}, {i1, i2}}

\* No sidecars yet; one that is out of date and one whose source is gone.
S(c, r) == [content |-> c, filed |-> r]
MCStarts ==
  LET none == (py :> S(odd, Absent)) @@ (rs :> S(bad, Absent))
      some == (py :> S(odd, bad)) @@ (rs :> S(Absent, bad))
  IN  {[files |-> none, mode |-> "missing"], [files |-> some, mode |-> "force"],
       [files |-> some, mode |-> "strip"]}

\* The linter's own defaults object to something else.
MCFound ==
  ("gleipnir" :> (bad :> {"blocked"} @@ odd :> {"layer"} @@ empty :> {})) @@
  ("linter" :> (bad :> {"unused"} @@ odd :> {"unused"} @@ empty :> {})) @@
  ("defaults" :> (bad :> {"style"} @@ odd :> {} @@ empty :> {}))
=============================================================================
