------------------------------ MODULE Writers ------------------------------
(***************************************************************************)
(* The validated writers: write_engine and its five binaries, and the       *)
(* converter json_to_toml, which takes its atomic write.  A writer reads    *)
(* its records, validates them, and appends them to a file that must exist  *)
(* (jsonl) or makes a new document through a temporary file (json).         *)
(* Writers run at the same time and may be killed between any two calls.    *)
(***************************************************************************)
EXTENDS Naturals, Sequences, FiniteSets, SequencesExt

CONSTANTS
  Procs,      \* invocations of a writer
  Job,        \* [Procs -> [tool, arg, lines, out]]: binary, argument, input, target
  Valid,      \* the lines that are JSON and satisfy the schema
  BatchMax,   \* batch_size (20 in the source)
  NL, None,
  MaxFaults,  \* calls that fail and writers that are killed
  MaxDeletes,
  Together    \* bound: the writers that run in one behaviour

append_embedding_normalize_batch_20 ==
  [format |-> "jsonl", path |-> "fixed", most |-> BatchMax]
append_interview_summaries_record == [format |-> "jsonl", path |-> "named", most |-> 0]
append_raw_jsonl == [format |-> "jsonl", path |-> "named", most |-> 0]
append_truth_qc_report_record == [format |-> "jsonl", path |-> "fixed", most |-> 0]
write_truth_glossary_record == [format |-> "json", path |-> "named", most |-> 0]
json_to_toml == [format |-> "toml", path |-> "given", most |-> 0]

Tools ==
  {append_embedding_normalize_batch_20, append_interview_summaries_record,
   append_raw_jsonl, append_truth_qc_report_record, write_truth_glossary_record,
   json_to_toml}

ASSUME JobAssumption ==
  \A p \in Procs : /\ Job[p].tool \in Tools /\ Job[p].arg \in {"none", "plain", "crossing"}
                   /\ Job[p].lines \in Seq(STRING)

Format(p) == Job[p].tool.format
Out(p) == Job[p].out
Lines(p) == Job[p].lines
Targets == {Out(p) : p \in Procs}
Files(f) == {o \in Targets : \E p \in Procs : Out(p) = o /\ Format(p) = f}
Name(o) == <<o, "file">>
Temp(o) == <<o, "tmp">>        \* .{file_name}.tmp beside it

\* A file has the name of its format.
ASSUME TargetAssumption ==
  /\ \A p, q \in Procs : Out(p) = Out(q) => Format(p) = Format(q)
  /\ Procs \cap Targets = {} /\ None \notin Procs \cup Targets
  /\ NL \notin Procs \X STRING

VARIABLES
  pc,      \* [Procs -> where it stands]
  said,    \* [Procs -> its answer]: "", "OK", "FAIL" (refused), "IO"
  calls,   \* [Procs -> the writes a jsonl writer has made]
  fd,      \* [Procs -> the inode it has open]
  dir,     \* [names -> inode]
  data,    \* [inodes -> content]
  faults, deletes,
  \* For the properties:
  met,     \* pairs of writers of one document that ran at the same time
  made     \* [targets -> the writers that answered OK since it was deleted; of
           \* converters, which replace it, the last]

vars == <<pc, said, calls, fd, dir, data, faults, deletes, met, made>>
files == <<dir, data>>
limits == <<faults, deletes>>
history == <<met, made>>

\* An inode is named after the process that creates it, or after the file it
\* is at the start.
Inodes == Procs \cup Targets
Exists(n) == dir[n] # None
Content(o) == IF Exists(Name(o)) THEN data[dir[Name(o)]] ELSE <<None>>

Init ==
  /\ \E present \in Together : pc = [p \in Procs |-> IF p \in present THEN "start" ELSE "done"]
  /\ said = [p \in Procs |-> ""]
  /\ calls = [p \in Procs |-> 0] /\ fd = [p \in Procs |-> None]
  /\ \E there \in SUBSET Files("jsonl") :
       dir = [n \in Targets \X {"file", "tmp"} |->
                IF n[2] = "file" /\ n[1] \in there THEN n[1] ELSE None]
  /\ data = [i \in Inodes |-> <<>>]
  /\ faults = 0 /\ deletes = 0
  /\ met = {} /\ made = [o \in Targets |-> {}]

Move(p, from, to) == pc[p] = from /\ pc' = [pc EXCEPT ![p] = to]
Answer(p, s) == said' = [said EXCEPT ![p] = s]

-----------------------------------------------------------------------------
(* What a writer does before it touches a file *)

resolve_output_path(p) == Job[p].tool.path = "named" => Job[p].arg = "plain"

\* All the lines, or none: the first that is not valid refuses the batch.
validate_batch_lines(p) == \A i \in DOMAIN Lines(p) : Lines(p)[i] \in Valid

run_batch(p) == Len(Lines(p)) <= Job[p].tool.most /\ validate_batch_lines(p)
run_record(p) == Len(Lines(p)) = 1 /\ Lines(p)[1] \in Valid

Accepted(p) ==
  /\ resolve_output_path(p)
  /\ Lines(p) # <<>>
  /\ IF Job[p].tool.most > 0 THEN run_batch(p) ELSE run_record(p)

Running(p) == pc[p] \notin {"start", "done"}

\* p comes to the writers of its document that are at work.
Meet(p) ==
  LET there == {q \in Procs : q # p /\ Out(q) = Out(p) /\ Format(q) # "jsonl" /\ Running(q)}
  IN  met' = met \cup ({p} \X there) \cup (there \X {p})

Refuse(p) ==
  /\ ~Accepted(p)
  /\ Move(p, "start", "done")
  /\ Answer(p, "FAIL")
  /\ UNCHANGED <<calls, fd, files, limits, history>>

\* Mutant: a document is written without a look at what is there.
CheckNothing(p) ==
  /\ Accepted(p)
  /\ Move(p, "start", IF Format(p) = "jsonl" THEN "open" ELSE "create")
  /\ Meet(p)
  /\ UNCHANGED <<said, calls, fd, files, limits, made>>

\* The output is looked at before it is opened or made.
Check(p) ==
  /\ Accepted(p)
  /\ LET fits == CASE Format(p) = "jsonl" -> Exists(Name(Out(p)))
                   [] Format(p) = "json" -> ~Exists(Name(Out(p)))
                   [] OTHER -> TRUE
     IN  /\ Move(p, "start", IF ~fits THEN "done"
                             ELSE IF Format(p) = "jsonl" THEN "open" ELSE "create")
         /\ Answer(p, IF fits THEN "" ELSE "FAIL")
         /\ IF fits THEN Meet(p) ELSE UNCHANGED met
  /\ UNCHANGED <<calls, fd, files, limits, made>>

-----------------------------------------------------------------------------
(* append_line and the loop of run_batch *)

\* Mutant: the file is opened for writing and truncated.
OpenTruncate(p) ==
  /\ Move(p, "open", "append")
  /\ Exists(Name(Out(p)))
  /\ fd' = [fd EXCEPT ![p] = dir[Name(Out(p))]]
  /\ data' = [data EXCEPT ![dir[Name(Out(p))]] = <<>>]
  /\ UNCHANGED <<said, calls, dir, limits, history>>

\* Without create: a file removed since is an error.
OpenAppend(p) ==
  /\ pc[p] = "open"
  /\ IF Exists(Name(Out(p)))
     THEN /\ Move(p, "open", "append")
          /\ fd' = [fd EXCEPT ![p] = dir[Name(Out(p))]]
          /\ UNCHANGED said
     ELSE Move(p, "open", "done") /\ Answer(p, "IO") /\ UNCHANGED fd
  /\ UNCHANGED <<calls, files, limits, history>>

\* writeln! makes two calls, each at the end of the file as it is then: a record,
\* kept with its writer since two may write the same, and the end of the line.
Piece(p, k) == IF k % 2 = 1 THEN <<p, Lines(p)[(k + 1) \div 2]>> ELSE NL

AppendPiece(p) ==
  /\ Move(p, "append", "append")
  /\ calls[p] < 2 * Len(Lines(p))
  /\ data' = [data EXCEPT ![fd[p]] = Append(@, Piece(p, calls[p] + 1))]
  /\ calls' = [calls EXCEPT ![p] = @ + 1]
  /\ UNCHANGED <<said, fd, dir, limits, history>>

SyncAppend(p) ==
  /\ calls[p] = 2 * Len(Lines(p))
  /\ Move(p, "append", "done")
  /\ Answer(p, "OK")
  /\ UNCHANGED <<calls, fd, files, limits, history>>

-----------------------------------------------------------------------------
(* write_atomic, and write_file_atomic for the converter *)

\* Mutant: the document is written in place.
CreateInPlace(p) ==
  /\ Move(p, "create", "write")
  /\ dir' = [dir EXCEPT ![Name(Out(p))] = p]
  /\ fd' = [fd EXCEPT ![p] = p]
  /\ data' = [data EXCEPT ![p] = <<>>]
  /\ UNCHANGED <<said, calls, limits, history>>

\* File::create truncates a temporary file that is already there.
CreateTemp(p) ==
  LET inode == IF Exists(Temp(Out(p))) THEN dir[Temp(Out(p))] ELSE p IN
  /\ Move(p, "create", "write")
  /\ dir' = [dir EXCEPT ![Temp(Out(p))] = inode]
  /\ fd' = [fd EXCEPT ![p] = inode]
  /\ data' = [data EXCEPT ![inode] = <<>>]
  /\ UNCHANGED <<said, calls, limits, history>>

\* From the start of the file, whatever another writer has put there.
Over(new, old) ==
  [i \in 1..(IF Len(new) > Len(old) THEN Len(new) ELSE Len(old)) |->
     IF i <= Len(new) THEN new[i] ELSE old[i]]

WriteTemp(p) ==
  /\ Move(p, "write", "rename")
  /\ data' = [data EXCEPT ![fd[p]] = Over(Lines(p), @)]
  /\ UNCHANGED <<said, calls, fd, dir, limits, history>>

RenameTemp(p) ==
  /\ Move(p, "rename", "done")
  /\ IF Exists(Temp(Out(p)))
     THEN /\ dir' = [dir EXCEPT ![Name(Out(p))] = dir[Temp(Out(p))], ![Temp(Out(p))] = None]
          /\ made' = [made EXCEPT ![Out(p)] = IF Format(p) = "toml" THEN {p} ELSE @ \cup {p}]
          /\ Answer(p, "OK")
     ELSE Answer(p, "IO") /\ UNCHANGED <<dir, made>>
  /\ UNCHANGED <<calls, fd, data, limits, met>>

-----------------------------------------------------------------------------
(* Failures, and the others who use the files *)

\* A call fails: the writer reports it and leaves what it has written.  A
\* rename that fails removes the temporary file.
Fail(p) ==
  /\ faults < MaxFaults
  /\ pc[p] \in {"open", "append", "create", "write", "rename"}
  /\ Move(p, pc[p], "done")
  /\ Answer(p, "IO")
  /\ dir' = IF pc[p] = "rename" THEN [dir EXCEPT ![Temp(Out(p))] = None] ELSE dir
  /\ faults' = faults + 1
  /\ UNCHANGED <<calls, fd, data, deletes, history>>

Kill(p) ==
  /\ faults < MaxFaults
  /\ Running(p)
  /\ Move(p, pc[p], "done")
  /\ faults' = faults + 1
  /\ UNCHANGED <<said, calls, fd, files, deletes, history>>

\* The dispatcher makes the file of a jsonl writer ("touch"); a user deletes a
\* document that is to be written again.
Touch(o) ==
  /\ ~Exists(Name(o))
  /\ dir' = [dir EXCEPT ![Name(o)] = o]
  /\ UNCHANGED <<pc, said, calls, fd, data, limits, history>>

Delete(o) ==
  /\ Exists(Name(o))
  /\ deletes < MaxDeletes
  /\ deletes' = deletes + 1
  /\ dir' = [dir EXCEPT ![Name(o)] = None]
  /\ made' = [made EXCEPT ![o] = {}]
  /\ UNCHANGED <<pc, said, calls, fd, data, faults, met>>

Step(p) ==
  \/ Refuse(p) \/ Check(p)
  \/ OpenAppend(p) \/ AppendPiece(p) \/ SyncAppend(p)
  \/ CreateTemp(p) \/ WriteTemp(p) \/ RenameTemp(p)
  \/ Fail(p) \/ Kill(p)

Next ==
  \/ \E p \in Procs : Step(p)
  \/ \E o \in Files("jsonl") : Touch(o)
  \/ \E o \in Files("json") : Delete(o)

Spec == Init /\ [][Next]_vars

-----------------------------------------------------------------------------
(* Properties *)

Documents == Targets \ Files("jsonl")

Lone(p) == \A q \in Procs : <<p, q>> \notin met

\* A document is there only when a writer made it and said so, and one made by a
\* writer that had its document for itself (write_atomic) is the whole input of that
\* writer, until it is deleted or converted anew: no crash, no temporary file left
\* behind, no failed call, and no writers of it that overlap before or afterwards
\* leave a part of one.  Writers that overlap share the temporary file: of what they
\* leave only this is said.
DocumentsWhole ==
  \A o \in Documents :
    /\ Exists(Name(o)) <=> made[o] # {}
    /\ \A p \in made[o] : Lone(p) => Accepted(p) /\ Content(o) = Lines(p)

\* "File must NOT exist": of two json writers that both answer OK for a document that
\* was not deleted in between, one was at work when the other came.  Nothing else gets
\* past the check, which is a step apart from the rename: no call that failed and no
\* writer that was killed lets a second one replace a document.
NeverOverwritten ==
  \A o \in Files("json") : \A p, q \in made[o] : p # q => <<p, q>> \in met

\* Where the records of p are in a file.
RecordsOf(p, content) == {i \in DOMAIN content : content[i] \in {<<p, l>> : l \in Range(Lines(p))}}

\* What a jsonl writer left in its file is a prefix of its records in their
\* order (run_batch), whoever appends between two of its calls; all of them
\* when it answered OK, none when it refused its input.
BatchInOrder ==
  \A p \in Procs : Format(p) = "jsonl" =>
    LET content == IF fd[p] = None THEN <<>> ELSE data[fd[p]]
        own == RecordsOf(p, content)
        rank(i) == Cardinality({j \in own : j <= i})
    IN  /\ \A i \in own : rank(i) \in DOMAIN Lines(p) /\ content[i] = <<p, Lines(p)[rank(i)]>>
        /\ said[p] = "OK" => Cardinality(own) = Len(Lines(p)) /\ fd[p] = dir[Name(Out(p))]
        /\ said[p] = "FAIL" => own = {}
=============================================================================
