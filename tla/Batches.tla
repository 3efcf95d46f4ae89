------------------------------ MODULE Batches ------------------------------
(***************************************************************************)
(* split_jsonl_batches: the records of an input are dealt out to batch     *)
(* files in a directory under /tmp, and the manifest says which file has   *)
(* how many.  Dispatchers may use one directory; files of an earlier one   *)
(* stay.  The records of a file are those of an input from one number up   *)
(* to another.                                                             *)
(***************************************************************************)
EXTENDS Integers, Sequences, FiniteSets

CONSTANTS
  Dispatchers,
  Jobs,         \* the arguments and the input that a dispatcher may have
  Segments,     \* the names validate_path_segment accepts
  NoJob, Nobody,
  MaxBroken     \* bound: calls that fail and dispatchers that are killed

ASSUME JobsAssumption ==
  /\ \A j \in Jobs : /\ j.min_batch \in Nat /\ j.max_batch \in Nat
                     /\ j.input \in Seq({"record", "blank", "malformed"})
  /\ NoJob \notin Jobs /\ Nobody \notin Dispatchers /\ MaxBroken \in Nat

validate_args(j) ==
  /\ j.min_batch # 0 /\ j.max_batch # 0 /\ j.min_batch <= j.max_batch
  /\ j.directory \in Segments

\* Mutant: one batch too many where the maximum divides the total.
BatchesRoundedUp(total, min_batch, max_batch) ==
  LET num_batches == total \div max_batch + 1
  IN  IF total <= max_batch THEN <<total>>
      ELSE [i \in 1..num_batches |-> total \div num_batches +
                                       (IF i <= total % num_batches THEN 1 ELSE 0)]

\* "fewest batches, all in [min, max] when possible": evenly if that keeps all
\* of them at min_batch, or else all but the last at min_batch.
compute_batches(total, min_batch, max_batch) ==
  LET num_batches == (total + max_batch - 1) \div max_batch
  IN  IF total = 0 THEN <<>>
      ELSE IF total <= max_batch THEN <<total>>
      ELSE IF num_batches * min_batch <= total
      THEN [i \in 1..num_batches |-> total \div num_batches +
                                       (IF i <= total % num_batches THEN 1 ELSE 0)]
      ELSE [i \in 1..num_batches |-> IF i < num_batches THEN min_batch
                                     ELSE total - (num_batches - 1) * min_batch]

VARIABLES
  job, jobPc,
  total,        \* the records a dispatcher has read
  sizes,        \* its batches, as computed
  num, offset,  \* the batches it has written, and their records
  filled,       \* the records in the one it is writing
  batchFile,    \* <<directory, number>> -> whose records, from and up to which
  broken

batchVars == <<job, jobPc, total, sizes, num, offset, filled, batchFile, broken>>

BatchesInit ==
  /\ job = [d \in Dispatchers |-> NoJob]
  /\ jobPc = [d \in Dispatchers |-> "new"]
  /\ total = [d \in Dispatchers |-> 0] /\ num = total /\ offset = total /\ filled = total
  /\ sizes = [d \in Dispatchers |-> <<>>]
  /\ batchFile = <<>>
  /\ broken = 0

JobAt(d, l) == jobPc[d] = l
JobTo(d, l) == jobPc' = [jobPc EXCEPT ![d] = l]
Path(d) == <<job[d].directory, num[d] + 1>>

Dispatch(d) ==
  /\ JobAt(d, "new")
  /\ \E j \in Jobs :
       /\ job' = [job EXCEPT ![d] = j]
       /\ JobTo(d, IF validate_args(j) THEN "read" ELSE "failed")
  /\ UNCHANGED <<total, sizes, num, offset, filled, batchFile, broken>>

\* Blank lines are skipped; a line that is not JSON, or no record, is an error.
read_validated_lines(d) ==
  /\ JobAt(d, "read")
  /\ LET input == job[d].input
         t == Cardinality({i \in DOMAIN input : input[i] = "record"})
     IN  IF t = 0 \/ \E i \in DOMAIN input : input[i] = "malformed"
         THEN JobTo(d, "failed") /\ UNCHANGED <<total, sizes>>
         ELSE /\ JobTo(d, "create")
              /\ total' = [total EXCEPT ![d] = t]
              /\ sizes' = [sizes EXCEPT ![d] =
                             compute_batches(t, job[d].min_batch, job[d].max_batch)]
  /\ UNCHANGED <<job, num, offset, filled, batchFile, broken>>

\* The name k stands for a file with value v.
Named(k, v) == [x \in DOMAIN batchFile \cup {k} |-> IF x = k THEN v ELSE batchFile[x]]

\* write_batch: File::create empties a file that is there.
CreateBatch(d) ==
  /\ JobAt(d, "create") /\ JobTo(d, "write")
  /\ batchFile' = Named(Path(d), [by |-> d, from |-> offset[d], upto |-> offset[d]])
  /\ filled' = [filled EXCEPT ![d] = 0]
  /\ UNCHANGED <<job, total, sizes, num, offset, broken>>

\* Mutant: the next batch begins where this one began.
WriteLinesAgain(d) ==
  /\ JobAt(d, "write")
  /\ filled' = [filled EXCEPT ![d] = sizes[d][num[d] + 1]]
  /\ batchFile' = [batchFile EXCEPT ![Path(d)] = [@ EXCEPT !.upto = offset[d] + filled'[d]]]
  /\ num' = [num EXCEPT ![d] = @ + 1]
  /\ JobTo(d, IF num'[d] = Len(sizes[d]) THEN "print" ELSE "create")
  /\ UNCHANGED <<job, total, sizes, offset, broken>>

\* The buffer is written out in any number of pieces, and the batch is done
\* with the last.  What is written into a file that another dispatcher has
\* emptied since leaves a file that is nobody's.
WriteLines(d) ==
  /\ JobAt(d, "write")
  /\ \E k \in filled[d] + 1 .. sizes[d][num[d] + 1] :
       /\ filled' = [filled EXCEPT ![d] = k]
       /\ batchFile' = [batchFile EXCEPT ![Path(d)] =
                          IF @.by = d THEN [@ EXCEPT !.upto = offset[d] + k]
                          ELSE [@ EXCEPT !.by = Nobody]]
       /\ IF k < sizes[d][num[d] + 1]
          THEN UNCHANGED <<jobPc, num, offset>>
          ELSE /\ num' = [num EXCEPT ![d] = @ + 1]
               /\ offset' = [offset EXCEPT ![d] = @ + k]
               /\ JobTo(d, IF num[d] + 1 = Len(sizes[d]) THEN "print" ELSE "create")
  /\ UNCHANGED <<job, total, sizes, broken>>

\* The manifest is printed: for batch i its file and sizes[i].
Manifest(d) ==
  /\ JobAt(d, "print") /\ JobTo(d, "done")
  /\ UNCHANGED <<job, total, sizes, num, offset, filled, batchFile, broken>>

\* A call fails, or the dispatcher is killed: what it has written stays.
BreakDown(d) ==
  /\ jobPc[d] \in {"read", "create", "write", "print"} /\ JobTo(d, "failed")
  /\ broken < MaxBroken /\ broken' = broken + 1
  /\ UNCHANGED <<job, total, sizes, num, offset, filled, batchFile>>

BatchesNext ==
  \E d \in Dispatchers : Dispatch(d) \/ read_validated_lines(d) \/ CreateBatch(d)
                           \/ WriteLines(d) \/ Manifest(d) \/ BreakDown(d)

BatchesSpec == BatchesInit /\ [][BatchesNext]_batchVars

-----------------------------------------------------------------------------
(* Properties *)

\* "fewest batches, all in [min, max] when possible [...] At most one batch
\* (the tail) can be undersized" (compute_batches).
WellDivided(s, t, min_batch, max_batch) ==
  /\ \A i \in DOMAIN s : 1 <= s[i] /\ s[i] <= max_batch
  /\ \A i \in DOMAIN s : i < Len(s) => min_batch <= s[i]
  /\ (\E k \in 1..t : k * min_batch <= t /\ t <= k * max_batch) =>
        \A i \in DOMAIN s : min_batch <= s[i]
  /\ (Len(s) - 1) * max_batch < t

\* The files a manifest names hold the records of the input, each once and in
\* their order, as many as it says, in batches as promised; except a file
\* that another dispatcher of the same directory has written since.
Disturbed(d) ==
  \E e \in Dispatchers \ {d} : job[e] # NoJob /\ job[e].directory = job[d].directory

BatchesAsPromised ==
  \A d \in Dispatchers : JobAt(d, "done") =>
    LET file(i) == batchFile[<<job[d].directory, i>>]
        own(i) == i \in DOMAIN sizes[d] /\ file(i).by = d
    IN  /\ WellDivided(sizes[d], total[d], job[d].min_batch, job[d].max_batch)
        /\ \A i \in DOMAIN sizes[d] :
             /\ own(i) \/ Disturbed(d)
             /\ own(i) => /\ file(i).upto - file(i).from = sizes[d][i]
                          /\ i = 1 => file(i).from = 0
                          /\ i = Len(sizes[d]) => file(i).upto = total[d]
                          /\ own(i + 1) => file(i + 1).from = file(i).upto

\* Why: the first i batches have so many records, and what a dispatcher has
\* written, and still owns, is where these numbers put it.
Before(t, min_batch, max_batch, i) ==
  LET n == (t + max_batch - 1) \div max_batch
  IN  IF t <= max_batch THEN IF i = 0 THEN 0 ELSE t
      ELSE IF n * min_batch <= t
      THEN i * (t \div n) + (IF i <= t % n THEN i ELSE t % n)
      ELSE IF i < n THEN i * min_batch ELSE t

BatchTypes ==
  /\ job \in [Dispatchers -> Jobs \cup {NoJob}]
  /\ jobPc \in [Dispatchers -> {"new", "read", "create", "write", "print", "done", "failed"}]
  /\ total \in [Dispatchers -> Nat] /\ num \in [Dispatchers -> Nat]
  /\ offset \in [Dispatchers -> Nat] /\ filled \in [Dispatchers -> Nat]
  /\ sizes \in [Dispatchers -> Seq(Nat)]
  /\ batchFile \in [DOMAIN batchFile -> [by : Dispatchers \cup {Nobody}, from : Nat, upto : Nat]]

Divided == {"create", "write", "print", "done"}

BeforeOf(d, i) == Before(total[d], job[d].min_batch, job[d].max_batch, i)

DispatcherInv(d) ==
  /\ JobAt(d, "read") => job[d] \in Jobs /\ validate_args(job[d])
  /\ JobAt(d, "new") => job[d] = NoJob
  /\ jobPc[d] \in {"new", "read"} => num[d] = 0 /\ offset[d] = 0
  /\ jobPc[d] \in Divided =>
       /\ job[d] \in Jobs /\ validate_args(job[d]) /\ total[d] # 0
       /\ sizes[d] = compute_batches(total[d], job[d].min_batch, job[d].max_batch)
       /\ num[d] <= Len(sizes[d]) /\ offset[d] = BeforeOf(d, num[d])
       /\ jobPc[d] \in {"create", "write"} => num[d] < Len(sizes[d])
       /\ jobPc[d] \in {"print", "done"} => num[d] = Len(sizes[d])
       /\ JobAt(d, "write") => filled[d] < sizes[d][num[d] + 1]

BatchFiles(d) ==
  /\ jobPc[d] \in Divided =>
       \A i \in 1..num[d] :
         LET x == <<job[d].directory, i>> IN
         /\ x \in DOMAIN batchFile
         /\ batchFile[x].by # d => Disturbed(d)
         /\ batchFile[x].by = d => /\ batchFile[x].from = BeforeOf(d, i - 1)
                                   /\ batchFile[x].upto = BeforeOf(d, i)
  /\ JobAt(d, "write") =>
       /\ Path(d) \in DOMAIN batchFile
       /\ batchFile[Path(d)].by # d => Disturbed(d)
       /\ batchFile[Path(d)].by = d => /\ batchFile[Path(d)].from = offset[d]
                                       /\ batchFile[Path(d)].upto = offset[d] + filled[d]

BatchesInv == BatchTypes /\ (\A d \in Dispatchers : DispatcherInv(d) /\ BatchFiles(d))
=============================================================================
