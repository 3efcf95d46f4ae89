---------------------------- MODULE MCWriters ----------------------------
(* A batch, a record and a refused batch for one file, three glossary       *)
(* entries of one name, and two conversions to one file.                   *)
EXTENDS Writers

CONSTANTS b, r, x, g, h, k, c, d, y, report, glossary, toml

A(tool, arg, lines, out) == [tool |-> tool, arg |-> arg, lines |-> lines, out |-> out]
MCJob ==
  [p \in {b, r, x, g, h, k, c, d, y} |->
     CASE p = b -> A(append_embedding_normalize_batch_20, "none", <<"b1", "b2">>, report)
       [] p = r -> A(append_truth_qc_report_record, "none", <<"r1">>, report)
       [] p = x -> A(append_embedding_normalize_batch_20, "none", <<"x1", "bad">>, report)
       [] p = g -> A(write_truth_glossary_record, "plain", <<"g1">>, glossary)
       [] p = h -> A(write_truth_glossary_record, "plain", <<"h1">>, glossary)
       [] p = k -> A(write_truth_glossary_record, "plain", <<"k1">>, glossary)
       [] p = c -> A(json_to_toml, "plain", <<"c1">>, toml)
       [] p = y -> A(append_raw_jsonl, "crossing", <<"r1">>, report)
       [] p = d -> A(json_to_toml, "plain", <<"d1">>, toml)]
MCValid == {"b1", "b2", "r1", "x1", "g1", "h1", "k1", "c1", "d1"}
MCTogether == {{b, r, x, y}, {g, h, k}, {c, d}, {b, g, c}}
=============================================================================
