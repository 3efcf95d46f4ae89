--------------------------- MODULE Writers_proofs ---------------------------
(***************************************************************************)
(* Proofs about the tools that write records: the documents of a validated  *)
(* writer are whole and none is written over, and what it appended is in    *)
(* order; the gates of the agent definition pipeline agree with each other; *)
(* the transcript of a session tells its conversation; what the launcher    *)
(* starts is what its screen shows; and the dependencies shown before a     *)
(* file is read are those it rests on.                                       *)
(***************************************************************************)
EXTENDS Writers, Gates, Exchanges, Launcher, Deps, FiniteSetTheorems, SequenceTheorems,
        WellFoundedInduction, TLAPS

-----------------------------------------------------------------------------
(* The writers: the inductive invariant *)

Documented == {p \in Procs : Format(p) # "jsonl"}
Makers(o) == {p \in Procs : Out(p) = o}
FileNames == Targets \X {"file", "tmp"}

Types ==
  /\ pc \in [Procs -> {"start", "open", "append", "create", "write", "rename", "done"}]
  /\ said \in [Procs -> {"", "OK", "FAIL", "IO"}]
  /\ fd \in [Procs -> Inodes \cup {None}]
  /\ dir \in [FileNames -> Inodes \cup {None}]
  /\ data = [i \in Inodes |-> data[i]]

\* Where a writer stands.
StandAt(p) ==
  /\ Running(p) => Accepted(p) /\ said[p] = ""
  /\ pc[p] \in {"open", "append"} => p \notin Documented
  /\ pc[p] \in {"create", "write", "rename"} => p \in Documented
  /\ pc[p] = "append" => fd[p] \in Targets
StandInv == \A p \in Procs : StandAt(p)

\* An inode has one name; those of documents are named after their writers, each of
\* which makes one at most.
NameInv ==
  /\ \A n, k \in FileNames : dir[n] = dir[k] /\ dir[n] # None => n = k
  /\ \A o \in Files("jsonl") : dir[Name(o)] \in {o, None} /\ dir[Temp(o)] = None
  /\ \A o \in Documents : {dir[Name(o)], dir[Temp(o)]} \subseteq Makers(o) \cup {None}
  /\ \A p \in Procs : pc[p] \in {"start", "create"} => \A n \in FileNames : dir[n] # p

\* What the writer of a document has open was made for that document.
OpenInv ==
  \A p \in Documented : pc[p] \in {"write", "rename"} => fd[p] \in Makers(Out(p))

\* Writers of one document that are at work have met, and a json writer at work has met
\* all that have made the document since.
HaveMet(p, q) == <<p, q>> \in met
MetInv ==
  /\ \A p, q \in Procs : HaveMet(p, q) => HaveMet(q, p)
  /\ \A p, q \in Documented : Running(p) /\ Running(q) /\ Out(p) = Out(q) => p = q \/ HaveMet(p, q)

MadeAt(o) ==
  /\ made[o] \subseteq Makers(o)
  /\ Exists(Name(o)) <=> made[o] # {}
  /\ \A p \in made[o] : Accepted(p)
  /\ o \in Files("json") =>
       /\ \A p \in Makers(o) : Running(p) => \A q \in made[o] : HaveMet(p, q)
       /\ \A p, q \in made[o] : p = q \/ HaveMet(p, q)
MadeInv == made = [o \in Targets |-> made[o]] /\ \A o \in Documents : MadeAt(o)

\* A writer that is alone has the temporary file for itself while it is at work, and what
\* it has made is written to by nobody.
AtWork(p) ==
  /\ pc[p] \in {"write", "rename"} => dir[Temp(Out(p))] = fd[p]
  /\ pc[p] = "write" => data[fd[p]] = <<>>
  /\ pc[p] = "rename" => data[fd[p]] = Lines(p)
Whole(p) ==
  /\ data[dir[Name(Out(p))]] = Lines(p)
  /\ \A q \in Documented :
       pc[q] \in {"write", "rename"} /\ Out(q) = Out(p) => fd[q] # dir[Name(Out(p))]
LoneAt(p) == Lone(p) => AtWork(p) /\ (p \in made[Out(p)] => Whole(p))
LoneInv == \A p \in Documented : LoneAt(p)

BaseInv == Types /\ StandInv /\ NameInv
WriterInv == BaseInv /\ OpenInv /\ MetInv /\ MadeInv /\ LoneInv

-----------------------------------------------------------------------------
(* The files *)

LEMMA DocumentedOut == \A p \in Documented : Out(p) \in Documents
  BY TargetAssumption DEF Documented, Documents, Files, Targets

LEMMA Formats == \A p \in Procs : Format(p) \in {"jsonl", "json", "toml"} /\ Lines(p) \in Seq(STRING)
  BY JobAssumption DEF Format, Lines, Tools, append_embedding_normalize_batch_20, append_interview_summaries_record,
     append_raw_jsonl, append_truth_qc_report_record, write_truth_glossary_record, json_to_toml

LEMMA Naming ==
  /\ \A o \in Targets : Name(o) \in FileNames /\ Temp(o) \in FileNames
  /\ \A o, q \in Targets : Name(o) # Temp(q) /\ (o # q => Name(o) # Name(q) /\ Temp(o) # Temp(q))
  /\ \A p \in Procs : Out(p) \in Targets
  /\ Documents \subseteq Targets /\ \A f : Files(f) \subseteq Targets
  BY DEF Name, Temp, FileNames, Targets, Documents, Files

LEMMA InitWriters == Init => WriterInv
<1> SUFFICES ASSUME Init PROVE WriterInv
  OBVIOUS
<1>1. PICK there \in SUBSET Files("jsonl") :
        dir = [n \in FileNames |-> IF n[2] = "file" /\ n[1] \in there THEN n[1] ELSE None]
  BY DEF Init, FileNames
<1>2. PICK present \in Together : pc = [p \in Procs |-> IF p \in present THEN "start" ELSE "done"]
  BY DEF Init
<1>3. Types
  BY <1>1, <1>2 DEF Init, Types, Inodes, FileNames
<1>4. /\ \A p \in Procs : pc[p] \in {"start", "done"}
      /\ \A o \in Targets : dir[Name(o)] = IF o \in there THEN o ELSE None
      /\ \A o \in Targets : dir[Temp(o)] = None /\ made[o] = {}
      /\ \A n \in FileNames : dir[n] \in Targets \cup {None}
      /\ met = {}
  BY <1>1, <1>2 DEF Init, Name, Temp, FileNames
<1>5. StandInv /\ OpenInv /\ MetInv /\ LoneInv
  BY <1>4, Naming DEF StandInv, StandAt, OpenInv, MetInv, HaveMet, LoneInv, LoneAt, AtWork, Running, Documented
<1>6. NameInv
  <2>1. \A n, k \in FileNames : dir[n] = dir[k] /\ dir[n] # None => n = k
    BY <1>1 DEF FileNames
  <2>2. \A o \in Documents : dir[Name(o)] = None /\ dir[Temp(o)] = None
    BY <1>4, Naming DEF Documents
  <2>3. QED
    BY <1>4, <2>1, <2>2, Naming, TargetAssumption DEF NameInv
<1>7. MadeInv
  BY <1>4, Naming DEF Init, MadeInv, MadeAt, Exists, Documents
<1>8. QED
  BY <1>3, <1>5, <1>6, <1>7 DEF WriterInv, BaseInv

\* A step of one writer leaves the others where they are.
LEMMA StepFrame ==
  ASSUME Types, NEW p \in Procs, Step(p)
  PROVE  /\ pc'[p] # pc[p] \/ pc[p] = "append"
         /\ \A q \in Procs \ {p} : pc'[q] = pc[q] /\ said'[q] = said[q] /\ fd'[q] = fd[q]
<1>1. CASE Refuse(p) \/ Check(p)
  BY <1>1 DEF Types, Refuse, Check, Move, Answer
<1>2. CASE OpenAppend(p)
  BY <1>2 DEF Types, OpenAppend, Move, Answer
<1>3. CASE AppendPiece(p) \/ SyncAppend(p)
  BY <1>3 DEF Types, AppendPiece, SyncAppend, Move, Answer
<1>4. CASE CreateTemp(p)
  BY <1>4 DEF Types, CreateTemp, Move
<1>5. CASE WriteTemp(p) \/ RenameTemp(p)
  BY <1>5 DEF Types, WriteTemp, RenameTemp, Move, Answer
<1>6. CASE Fail(p) \/ Kill(p)
  BY <1>6 DEF Types, Fail, Kill, Move, Answer, Running
<1>7. QED
  BY <1>1, <1>2, <1>3, <1>4, <1>5, <1>6 DEF Step

LEMMA TypesStep == BaseInv /\ [Next]_vars => Types'
<1> SUFFICES ASSUME BaseInv, [Next]_vars PROVE Types'
  OBVIOUS
<1>a. Types /\ StandInv /\ (\A p \in Procs : Name(Out(p)) \in FileNames /\ Temp(Out(p)) \in FileNames)
      /\ Procs \subseteq Inodes
  BY Naming DEF BaseInv, Inodes
<1>1. ASSUME NEW p \in Procs, Refuse(p) \/ Check(p) PROVE Types'
  BY <1>1, <1>a DEF Types, Refuse, Check, Move, Answer, files
<1>2. ASSUME NEW p \in Procs, OpenAppend(p) PROVE Types'
  BY <1>2, <1>a DEF Types, OpenAppend, Move, Answer, files, Exists
<1>3. ASSUME NEW p \in Procs, AppendPiece(p) \/ SyncAppend(p) PROVE Types'
  BY <1>3, <1>a DEF Types, AppendPiece, SyncAppend, Move, Answer, files
<1>4. ASSUME NEW p \in Procs, CreateTemp(p) PROVE Types'
  BY <1>4, <1>a DEF Types, CreateTemp, Move, Exists
<1>5. ASSUME NEW p \in Procs, WriteTemp(p) PROVE Types'
  BY <1>5, <1>a DEF Types, WriteTemp, Move
<1>6. ASSUME NEW p \in Procs, RenameTemp(p) PROVE Types'
  <2>1. \/ dir' = dir
        \/ /\ dir' = [dir EXCEPT ![Name(Out(p))] = dir[Temp(Out(p))], ![Temp(Out(p))] = None]
           /\ dir[Temp(Out(p))] \in Inodes
    BY <1>6, <1>a DEF Types, RenameTemp, Exists
  <2>2. dir' \in [FileNames -> Inodes \cup {None}]
    BY <2>1, <1>a DEF Types
  <2>3. QED
    BY <1>6, <2>2, <1>a DEF Types, RenameTemp, Move, Answer
<1>7. ASSUME NEW p \in Procs, Fail(p) PROVE Types'
  BY <1>7, <1>a DEF Types, Fail, Move, Answer
<1>8. ASSUME NEW p \in Procs, Kill(p) PROVE Types'
  BY <1>8, <1>a DEF Types, Kill, Move, files
<1>9. ASSUME NEW o \in Targets, Touch(o) \/ Delete(o) PROVE Types'
  BY <1>9, <1>a, Naming DEF Types, Touch, Delete, Inodes
<1>10. CASE UNCHANGED vars
  BY <1>10, <1>a DEF Types, vars
<1>11. QED
  BY <1>1, <1>2, <1>3, <1>4, <1>5, <1>6, <1>7, <1>8, <1>9, <1>10, Naming DEF Next, Step

LEMMA StandInvStep == BaseInv /\ [Next]_vars => StandInv'
<1> SUFFICES ASSUME BaseInv, [Next]_vars, NEW p \in Procs PROVE StandAt(p)'
  BY DEF StandInv
<1>a. Types /\ StandAt(p) /\ Accepted(p)' = Accepted(p)
  BY DEF BaseInv, StandInv, Accepted, resolve_output_path, run_batch, run_record, validate_batch_lines
<1>1. CASE Refuse(p)
  BY <1>1, <1>a DEF Types, Refuse, Move, Answer, StandAt, Running
<1>2. CASE Check(p)
  <2>1. Accepted(p) /\ (pc'[p] \in {"open", "create"} => said'[p] = "") /\ pc'[p] \in {"open", "create", "done"}
        /\ (pc'[p] = "open" => p \notin Documented) /\ (pc'[p] = "create" => p \in Documented)
    BY <1>2, <1>a DEF Types, Check, Move, Answer, Documented
  <2>2. QED
    BY <2>1, <1>a DEF StandAt, Running
<1>3. CASE OpenAppend(p)
  <2>1. Out(p) \in Files("jsonl")
    BY <1>3, <1>a DEF OpenAppend, Move, StandAt, Documented, Files, Targets
  <2>2. dir[Name(Out(p))] \in {Out(p), None} /\ Out(p) \in Targets
    BY <2>1, Naming DEF BaseInv, NameInv
  <2>3. QED
    BY <1>3, <2>2, <1>a DEF Types, OpenAppend, Move, Answer, StandAt, Running, Exists
<1>4. CASE AppendPiece(p) \/ SyncAppend(p)
  BY <1>4, <1>a DEF Types, AppendPiece, SyncAppend, Move, Answer, StandAt, Running
<1>5. CASE CreateTemp(p) \/ WriteTemp(p)
  <2>1. pc[p] \in {"create", "write"} /\ pc'[p] \in {"write", "rename"} /\ said' = said
    BY <1>5, <1>a DEF Types, CreateTemp, WriteTemp, Move
  <2>2. QED
    BY <2>1, <1>a DEF StandAt, Running
<1>6. CASE RenameTemp(p) \/ Fail(p) \/ Kill(p)
  BY <1>6, <1>a DEF Types, RenameTemp, Fail, Kill, Move, StandAt, Running
<1>7. CASE pc'[p] = pc[p] /\ said'[p] = said[p] /\ fd'[p] = fd[p]
  BY <1>7, <1>a DEF StandAt, Running
<1>8. ASSUME NEW q \in Procs, q # p, Step(q) PROVE pc'[p] = pc[p] /\ said'[p] = said[p] /\ fd'[p] = fd[p]
  BY <1>8, <1>a, StepFrame
<1>9. ASSUME NEW o \in Targets, Touch(o) \/ Delete(o) PROVE UNCHANGED <<pc, said, fd>>
  BY <1>9 DEF Touch, Delete
<1>10. QED
  BY <1>1, <1>2, <1>3, <1>4, <1>5, <1>6, <1>7, <1>8, <1>9, Naming DEF Next, Step, vars

-----------------------------------------------------------------------------
(* Names and what is behind them *)

LEMMA NameInvStep == BaseInv /\ [Next]_vars => NameInv'
<1> SUFFICES ASSUME BaseInv, [Next]_vars PROVE NameInv'
  OBVIOUS
<1>a. Types /\ NameInv /\ StandInv
  BY DEF BaseInv
\* Nobody becomes a writer that is still to make its file.
<1>b. \A p \in Procs : pc'[p] \in {"start", "create"} => pc[p] \in {"start", "create"}
  <2>1. ASSUME NEW p \in Procs, Step(p), pc'[p] \in {"start", "create"} PROVE pc[p] \in {"start", "create"}
    BY <2>1, <1>a DEF Types, Step, Refuse, Check, OpenAppend, AppendPiece, SyncAppend, CreateTemp, WriteTemp,
       RenameTemp, Fail, Kill, Move
  <2>2. QED
    BY <2>1, <1>a, StepFrame DEF Next, Touch, Delete, vars
<1>1. ASSUME UNCHANGED dir PROVE NameInv'
  BY <1>1, <1>a, <1>b DEF NameInv
<1>2. ASSUME NEW n \in FileNames, dir' = [dir EXCEPT ![n] = None] PROVE NameInv'
  <2>1. \A k \in FileNames : dir'[k] \in {dir[k], None}
    BY <1>2, <1>a DEF Types
  <2>2. \A k, l \in FileNames : dir'[k] = dir'[l] /\ dir'[k] # None => k = l
    BY <2>1, <1>a DEF NameInv
  <2>3. \A o \in Targets : dir'[Name(o)] \in {dir[Name(o)], None} /\ dir'[Temp(o)] \in {dir[Temp(o)], None}
    BY <2>1, Naming
  <2>4. \A p \in Procs : None # p
    BY TargetAssumption
  <2>5. QED
    BY <2>1, <2>2, <2>3, <2>4, <1>a, <1>b, Naming DEF NameInv
<1>3. ASSUME NEW p \in Procs, CreateTemp(p) PROVE NameInv'
  <2> DEFINE o == Out(p)
  <2>1. p \in Documented /\ o \in Documents /\ pc[p] = "create" /\ pc'[p] = "write"
    BY <1>3, <1>a, DocumentedOut DEF CreateTemp, Move, Types, StandInv, StandAt
  <2>2. CASE Exists(Temp(o))
    <3>1. UNCHANGED dir
      BY <1>3, <2>1, <2>2, <1>a, Naming DEF CreateTemp, Types
    <3>2. QED
      BY <3>1, <1>1
  <2>3. CASE ~Exists(Temp(o))
    <3>1. dir' = [dir EXCEPT ![Temp(o)] = p] /\ Temp(o) \in FileNames
      BY <1>3, <2>1, <2>3, Naming DEF CreateTemp
    <3>2. \A n \in FileNames : dir[n] # p
      BY <2>1, <1>a DEF NameInv
    <3>3. \A n, k \in FileNames : dir'[n] = dir'[k] /\ dir'[n] # None => n = k
      BY <3>1, <3>2, <1>a DEF NameInv, Types
    <3>4. \A q \in Procs : pc'[q] \in {"start", "create"} => \A n \in FileNames : dir'[n] # q
      BY <3>1, <2>1, <1>a, <1>b DEF NameInv, Types
    <3>5. \A u \in Files("jsonl") : dir'[Name(u)] \in {u, None} /\ dir'[Temp(u)] = None
      BY <3>1, <2>1, <1>a, Naming DEF NameInv, Types, Documents
    <3>6. \A u \in Documents : {dir'[Name(u)], dir'[Temp(u)]} \subseteq Makers(u) \cup {None}
      <4>1. \A n \in FileNames : dir'[n] \in {dir[n], p}
        BY <3>1, <1>a DEF Types
      <4>2. \A u \in Documents : /\ dir'[Name(u)] = dir[Name(u)]
                                 /\ dir'[Temp(u)] = IF u = o THEN p ELSE dir[Temp(u)]
        BY <3>1, <2>1, <1>a, Naming DEF Types
      <4>3. p \in Makers(o)
        BY DEF Makers
      <4>4. QED
        BY <4>2, <4>3, <1>a DEF NameInv
    <3>7. QED
      BY <3>3, <3>4, <3>5, <3>6 DEF NameInv
  <2>4. QED
    BY <2>2, <2>3
<1>4. ASSUME NEW p \in Procs, RenameTemp(p), ~UNCHANGED dir PROVE NameInv'
  <2> DEFINE o == Out(p)
  <2>1. o \in Documents /\ Name(o) \in FileNames /\ Temp(o) \in FileNames /\ Name(o) # Temp(o)
    BY <1>4, <1>a, DocumentedOut, Naming DEF RenameTemp, Move, StandInv, StandAt
  <2>2. dir' = [dir EXCEPT ![Name(o)] = dir[Temp(o)], ![Temp(o)] = None] /\ dir[Temp(o)] # None
    BY <1>4 DEF RenameTemp, Exists
  <2>3. \A n \in FileNames : dir'[n] = IF n = Temp(o) THEN None ELSE IF n = Name(o) THEN dir[Temp(o)] ELSE dir[n]
    BY <2>1, <2>2, <1>a DEF Types
  <2>4. \A n, k \in FileNames : dir'[n] = dir'[k] /\ dir'[n] # None => n = k
    BY <2>1, <2>3, <1>a DEF NameInv
  <2>5. \A q \in Procs : pc'[q] \in {"start", "create"} => \A n \in FileNames : dir'[n] # q
    BY <2>1, <2>3, <1>a, <1>b, TargetAssumption DEF NameInv
  <2>6. \A u \in Files("jsonl") : dir'[Name(u)] \in {u, None} /\ dir'[Temp(u)] = None
    BY <2>1, <2>3, <1>a, Naming DEF NameInv, Documents
  <2>7. \A u \in Documents : {dir'[Name(u)], dir'[Temp(u)]} \subseteq Makers(u) \cup {None}
    <3>1. \A u \in Documents : /\ dir'[Name(u)] \in {dir[Name(u)], None} \/ (u = o /\ dir'[Name(u)] = dir[Temp(o)])
                               /\ dir'[Temp(u)] \in {dir[Temp(u)], None}
      BY <2>1, <2>3, Naming
    <3>2. QED
      BY <3>1, <2>1, <1>a DEF NameInv
  <2>8. QED
    BY <2>4, <2>5, <2>6, <2>7 DEF NameInv
<1>5. ASSUME NEW o \in Files("jsonl"), Touch(o) PROVE NameInv'
  <2>1. o \in Targets /\ Name(o) \in FileNames /\ dir' = [dir EXCEPT ![Name(o)] = o] /\ dir[Name(o)] = None
    BY <1>5, Naming DEF Touch, Exists
  <2>2. \A n \in FileNames : dir[n] # o
    <3> SUFFICES ASSUME NEW n \in FileNames, dir[n] = o PROVE FALSE
      OBVIOUS
    <3>1. PICK u \in Targets : n = Name(u) \/ n = Temp(u)
      BY DEF FileNames, Name, Temp
    <3>2. CASE u \in Files("jsonl")
      BY <2>1, <3>1, <3>2, <1>a, TargetAssumption DEF NameInv
    <3>3. CASE u \in Documents
      BY <2>1, <3>1, <3>3, <1>a, TargetAssumption DEF NameInv, Makers
    <3>4. QED
      BY <3>2, <3>3 DEF Documents
  <2>3. \A n, k \in FileNames : dir'[n] = dir'[k] /\ dir'[n] # None => n = k
    BY <2>1, <2>2, <1>a DEF NameInv, Types
  <2>4. \A p \in Procs : pc'[p] \in {"start", "create"} => \A n \in FileNames : dir'[n] # p
    <3>1. \A n \in FileNames : dir'[n] \in {dir[n], o}
      BY <2>1, <1>a DEF Types
    <3>2. o \notin Procs
      BY <2>1, TargetAssumption
    <3>3. QED
      BY <3>1, <3>2, <1>a, <1>b DEF NameInv
  <2>5. \A u \in Files("jsonl") : dir'[Name(u)] \in {u, None} /\ dir'[Temp(u)] = None
    BY <2>1, <1>a, Naming DEF NameInv, Types
  <2>6. \A u \in Documents : {dir'[Name(u)], dir'[Temp(u)]} \subseteq Makers(u) \cup {None}
    BY <2>1, <1>5, <1>a, Naming DEF NameInv, Types, Documents
  <2>7. QED
    BY <2>3, <2>4, <2>5, <2>6 DEF NameInv
<1>6. ASSUME NEW p \in Procs, Step(p), ~CreateTemp(p), ~RenameTemp(p)
      PROVE  UNCHANGED dir \/ dir' = [dir EXCEPT ![Temp(Out(p))] = None]
  BY <1>6 DEF Step, Refuse, Check, OpenAppend, AppendPiece, SyncAppend, WriteTemp, Fail, Kill, files
<1>7. QED
  BY <1>1, <1>2, <1>3, <1>4, <1>5, <1>6, Naming DEF Next, Delete, vars

LEMMA OverNothing == \A p \in Procs : Over(Lines(p), <<>>) = Lines(p)
  BY Formats DEF Over
LEMMA AcceptedStays == \A p \in Procs : Accepted(p)' = Accepted(p)
  BY DEF Accepted, resolve_output_path, run_batch, run_record, validate_batch_lines

\* A document has writers of documents only.
LEMMA MakersOf ==
  /\ \A o \in Documents : \A p \in Makers(o) : p \in Documented /\ Out(p) = o
  /\ \A p \in Procs : p \in Makers(Out(p))
  /\ \A p, q \in Procs : p \in Documented /\ Out(q) = Out(p) => q \in Documented
  BY TargetAssumption DEF Documents, Makers, Documented, Files

-----------------------------------------------------------------------------
(* Who has what open, and who has met whom *)

LEMMA OpenInvStep == BaseInv /\ OpenInv /\ [Next]_vars => OpenInv'
<1> SUFFICES ASSUME BaseInv, OpenInv, [Next]_vars, NEW p \in Documented, pc'[p] \in {"write", "rename"}
             PROVE  fd'[p] \in Makers(Out(p))
  BY DEF OpenInv
<1>a. Types /\ NameInv /\ p \in Procs /\ Out(p) \in Documents /\ (pc[p] \in {"write", "rename"} => fd[p] \in Makers(Out(p)))
  BY DocumentedOut DEF BaseInv, OpenInv, Documented
<1>1. CASE pc'[p] = pc[p] /\ fd'[p] = fd[p]
  BY <1>1, <1>a
<1>2. ASSUME Step(p) PROVE fd'[p] \in Makers(Out(p))
  <2>1. pc'[p] \in {"write", "rename"} =>
          \/ CreateTemp(p) \/ WriteTemp(p)
    BY <1>2, <1>a DEF Step, Refuse, Check, OpenAppend, AppendPiece, SyncAppend, RenameTemp, Fail, Kill, Move, Types
  <2>2. CASE CreateTemp(p)
    <3>1. fd'[p] = IF Exists(Temp(Out(p))) THEN dir[Temp(Out(p))] ELSE p
      BY <2>2, <1>a DEF CreateTemp, Types
    <3>2. Exists(Temp(Out(p))) => dir[Temp(Out(p))] \in Makers(Out(p))
      BY <1>a DEF NameInv, Exists
    <3>3. QED
      BY <3>1, <3>2, <1>a, MakersOf
  <2>3. CASE WriteTemp(p)
    BY <2>3, <1>a DEF WriteTemp, Move
  <2>4. QED
    BY <2>1, <2>2, <2>3
<1>3. ASSUME NEW q \in Procs, q # p, Step(q) PROVE pc'[p] = pc[p] /\ fd'[p] = fd[p]
  BY <1>3, <1>a, StepFrame
<1>4. ASSUME NEW o \in Targets, Touch(o) \/ Delete(o) PROVE UNCHANGED <<pc, fd>>
  BY <1>4 DEF Touch, Delete
<1>5. QED
  BY <1>1, <1>2, <1>3, <1>4, Naming DEF Next, vars

\* Writers do not part: what has been met is met for good.
LEMMA MetGrows == [Next]_vars => met \subseteq met'
<1> SUFFICES ASSUME [Next]_vars PROVE met \subseteq met'
  OBVIOUS
<1>1. ASSUME NEW p \in Procs, Step(p) PROVE met \subseteq met'
  BY <1>1 DEF Step, Refuse, Check, Meet, OpenAppend, AppendPiece, SyncAppend, CreateTemp, WriteTemp,
     RenameTemp, Fail, Kill, history
<1>2. QED
  BY <1>1 DEF Next, Touch, Delete, vars, history

LEMMA LoneStays == ASSUME [Next]_vars, NEW p \in Procs, Lone(p)' PROVE Lone(p)
  BY MetGrows DEF Lone

\* A writer goes to work by its check alone, and meets those it finds.
LEMMA Starts ==
  ASSUME Types, [Next]_vars, NEW p \in Procs, ~Running(p), Running(p)'
  PROVE  Check(p) /\ Step(p) /\ met' = met \cup ({p} \X {q \in Procs : q # p /\ Out(q) = Out(p) /\ Format(q) # "jsonl" /\ Running(q)})
                          \cup ({q \in Procs : q # p /\ Out(q) = Out(p) /\ Format(q) # "jsonl" /\ Running(q)} \X {p})
<1>1. PICK v \in Procs : Step(v)
  BY DEF Next, Touch, Delete, vars, Running
<1>2. v = p
  BY <1>1, StepFrame DEF Running
<1>3. Check(p)
  BY <1>1, <1>2 DEF Step, Refuse, Check, OpenAppend, AppendPiece, SyncAppend, CreateTemp, WriteTemp,
     RenameTemp, Fail, Kill, Move, Running, Types
<1>4. pc'[p] # "done"
  BY DEF Running
<1>5. Meet(p)
  BY <1>3, <1>4 DEF Check, Move, Types
<1>6. QED
  BY <1>1, <1>2, <1>3, <1>5 DEF Meet

LEMMA MetInvStep == BaseInv /\ MetInv /\ [Next]_vars => MetInv'
<1> SUFFICES ASSUME BaseInv, MetInv, [Next]_vars PROVE MetInv'
  OBVIOUS
<1>a. Types
  BY DEF BaseInv
<1>1. \A p, q \in Procs : HaveMet(p, q)' => HaveMet(q, p)'
  <2>1. ASSUME NEW p \in Procs, Check(p) \/ UNCHANGED met PROVE \A u, w \in Procs : HaveMet(u, w)' => HaveMet(w, u)'
    BY <2>1 DEF MetInv, HaveMet, Check, Meet
  <2>2. ASSUME NEW p \in Procs, Step(p) PROVE Check(p) \/ UNCHANGED met
    BY <2>2 DEF Step, Refuse, OpenAppend, AppendPiece, SyncAppend, CreateTemp, WriteTemp, RenameTemp, Fail, Kill, history
  <2>3. CASE UNCHANGED met
    BY <2>3 DEF MetInv, HaveMet
  <2>4. QED
    BY <2>1, <2>2, <2>3 DEF Next, Touch, Delete, vars, history
<1>2. ASSUME NEW p \in Documented, NEW q \in Documented, Running(p)', Running(q)', Out(p) = Out(q), p # q
      PROVE  HaveMet(p, q)'
  <2>a. p \in Procs /\ q \in Procs /\ Format(p) # "jsonl" /\ Format(q) # "jsonl"
    BY DEF Documented
  <2>1. CASE Running(p) /\ Running(q)
    BY <1>2, <2>1, MetGrows DEF MetInv, HaveMet
  <2>2. CASE ~Running(p)
    <3>1. Step(p) /\ Check(p)
      BY <1>2, <2>a, <2>2, <1>a, Starts
    <3>2. Running(q)
      BY <1>2, <2>a, <3>1, <1>a, StepFrame DEF Running
    <3>3. QED
      BY <1>2, <2>a, <2>2, <3>2, <1>a, Starts DEF HaveMet
  <2>3. CASE ~Running(q)
    <3>1. Step(q) /\ Check(q)
      BY <1>2, <2>a, <2>3, <1>a, Starts
    <3>2. Running(p)
      BY <1>2, <2>a, <3>1, <1>a, StepFrame DEF Running
    <3>3. QED
      BY <1>2, <2>a, <2>3, <3>2, <1>a, Starts DEF HaveMet
  <2>4. QED
    BY <2>1, <2>2, <2>3
<1>3. QED
  BY <1>1, <1>2 DEF MetInv

-----------------------------------------------------------------------------
(* Who has made a document *)

\* A step that neither makes nor deletes a document.
LEMMA MadeStays ==
  ASSUME BaseInv, MadeInv, [Next]_vars, NEW o \in Documents,
         made'[o] = made[o], dir'[Name(o)] = dir[Name(o)]
  PROVE  MadeAt(o)'
<1>a. Types /\ MadeAt(o)
  BY DEF BaseInv, MadeInv
<1>1. made'[o] \subseteq Makers(o) /\ (Exists(Name(o))' <=> made'[o] # {})
  BY <1>a DEF MadeAt, Exists
<1>2. \A p \in made'[o] : Accepted(p)'
  BY <1>a, AcceptedStays DEF MadeAt, Makers
<1>3. ASSUME o \in Files("json")
      PROVE  /\ \A p \in Makers(o) : Running(p)' => \A q \in made'[o] : HaveMet(p, q)'
             /\ \A p, q \in made'[o] : p = q \/ HaveMet(p, q)'
  <2>1. \A p, q \in made'[o] : p = q \/ HaveMet(p, q)'
    BY <1>a, <1>3, MetGrows DEF MadeAt, HaveMet
  <2>2. ASSUME NEW p \in Makers(o), Running(p)', NEW q \in made'[o] PROVE HaveMet(p, q)'
    <3>1. CASE Running(p)
      BY <1>a, <1>3, <2>2, <3>1, MetGrows DEF MadeAt, HaveMet
    <3>2. CASE ~Running(p)
      <4>1. Check(p) /\ p \in Procs /\ Out(p) = o
        BY <2>2, <3>2, <1>a, Starts DEF Makers
      <4>2. Format(p) = "json"
        BY <4>1, <1>3, TargetAssumption DEF Files
      <4>3. pc'[p] # "done"
        BY <2>2 DEF Running
      <4>4. ~Exists(Name(o))
        BY <4>1, <4>2, <4>3, <1>a DEF Check, Move, Types
      <4>5. QED
        BY <4>4, <1>a, <2>2 DEF MadeAt
    <3>3. QED
      BY <3>1, <3>2
  <2>3. QED
    BY <2>1, <2>2
<1>4. QED
  BY <1>1, <1>2, <1>3 DEF MadeAt

LEMMA MadeInvStep == BaseInv /\ MetInv /\ MadeInv /\ [Next]_vars => MadeInv'
<1> SUFFICES ASSUME BaseInv, MetInv, MadeInv, [Next]_vars PROVE MadeInv'
  OBVIOUS
<1>a. Types /\ NameInv /\ StandInv /\ made = [o \in Targets |-> made[o]] /\ \A o \in Documents : MadeAt(o)
  BY DEF BaseInv, MadeInv
<1>1. ASSUME UNCHANGED made, \A o \in Documents : dir'[Name(o)] = dir[Name(o)] PROVE MadeInv'
  BY <1>1, <1>a, MadeStays DEF MadeInv
<1>2. ASSUME NEW p \in Procs, Step(p), ~RenameTemp(p) PROVE MadeInv'
  <2>1. UNCHANGED made
    BY <1>2 DEF Step, Refuse, Check, OpenAppend, AppendPiece, SyncAppend, CreateTemp, WriteTemp, Fail, Kill, history
  <2>2. dir' = dir \/ \E i : dir' = [dir EXCEPT ![Temp(Out(p))] = i]
    BY <1>2 DEF Step, Refuse, Check, OpenAppend, AppendPiece, SyncAppend, CreateTemp, WriteTemp, Fail, Kill, files
  <2>3. \A o \in Documents : dir'[Name(o)] = dir[Name(o)]
    BY <2>2, <1>a, Naming DEF Types
  <2>4. QED
    BY <2>1, <2>3, <1>1
<1>3. ASSUME NEW p \in Procs, RenameTemp(p) PROVE MadeInv'
  <2> DEFINE o == Out(p)
  <2>1. /\ pc[p] = "rename" /\ pc'[p] = "done" /\ Running(p) /\ p \in Documented /\ o \in Documents /\ Accepted(p)
        /\ Step(p) /\ met' = met
    BY <1>3, <1>a, DocumentedOut DEF RenameTemp, Move, Types, StandInv, StandAt, Running, Step
  <2>2. CASE ~Exists(Temp(o))
    <3>1. UNCHANGED <<made, dir>>
      BY <1>3, <2>2 DEF RenameTemp
    <3>2. QED
      BY <3>1, <1>1
  <2>3. CASE Exists(Temp(o))
    <3>1. /\ dir' = [dir EXCEPT ![Name(o)] = dir[Temp(o)], ![Temp(o)] = None]
          /\ made' = [made EXCEPT ![o] = IF Format(p) = "toml" THEN {p} ELSE @ \cup {p}]
      BY <1>3, <2>3 DEF RenameTemp
    <3>2. ASSUME NEW u \in Documents, u # o PROVE MadeAt(u)'
      <4>1. made'[u] = made[u]
        BY <3>1, <3>2, <1>a, Naming
      <4>2. dir'[Name(u)] = dir[Name(u)]
        BY <3>1, <3>2, <2>1, <1>a, Naming DEF Types
      <4>3. QED
        BY <4>1, <4>2, MadeStays
    <3>3. MadeAt(o)'
      <4>1. made'[o] = (IF Format(p) = "toml" THEN {p} ELSE made[o] \cup {p}) /\ MadeAt(o)
        BY <3>1, <2>1, <1>a, Naming
      <4>2. dir'[Name(o)] = dir[Temp(o)]
        BY <3>1, <2>1, <1>a, Naming DEF Types
      <4>3. Exists(Name(o))' /\ made'[o] # {} /\ made'[o] \subseteq Makers(o)
        BY <4>1, <4>2, <2>3, MakersOf DEF MadeAt, Exists
      <4>4. \A q \in made'[o] : Accepted(q)'
        BY <4>1, <2>1, AcceptedStays DEF MadeAt, Makers
      <4>5. ASSUME o \in Files("json")
            PROVE  /\ \A q \in Makers(o) : Running(q)' => \A r \in made'[o] : HaveMet(q, r)'
                   /\ \A q, r \in made'[o] : q = r \/ HaveMet(q, r)'
        <5>1. \A q \in Makers(o) : Running(q)' => q # p /\ Running(q)
          BY <2>1, <1>a, StepFrame DEF Running, Makers
        <5>2. \A q \in Makers(o) : Running(q)' => HaveMet(q, p)
          BY <5>1, <2>1, MakersOf DEF MetInv
        <5>3. \A q \in Makers(o) : Running(q)' => \A r \in made[o] : HaveMet(q, r)
          BY <5>1, <4>1, <4>5 DEF MadeAt
        <5>4. \A r \in made[o] : HaveMet(p, r) /\ HaveMet(r, p)
          BY <4>1, <4>5, <2>1, MakersOf DEF MadeAt, MetInv, Makers
        <5>5. \A q, r \in made[o] : q = r \/ HaveMet(q, r)
          BY <4>1, <4>5 DEF MadeAt
        <5>6. made'[o] \subseteq made[o] \cup {p}
          BY <4>1
        <5>7. \A q, r : HaveMet(q, r)' = HaveMet(q, r)
          BY <2>1 DEF HaveMet
        <5>8. QED
          BY <5>2, <5>3, <5>4, <5>5, <5>6, <5>7
      <4>6. QED
        BY <4>3, <4>4, <4>5 DEF MadeAt
    <3>4. made' = [u \in Targets |-> made'[u]]
      BY <3>1, <1>a
    <3>5. QED
      BY <3>2, <3>3, <3>4 DEF MadeInv
  <2>4. QED
    BY <2>2, <2>3
<1>4. ASSUME NEW o \in Files("jsonl"), Touch(o) PROVE MadeInv'
  <2>1. o \in Targets /\ o \notin Documents /\ UNCHANGED made /\ dir' = [dir EXCEPT ![Name(o)] = o]
    BY <1>4, Naming DEF Touch, Documents, history
  <2>2. \A u \in Documents : dir'[Name(u)] = dir[Name(u)]
    BY <2>1, <1>a, Naming DEF Types
  <2>3. QED
    BY <2>1, <2>2, <1>1
<1>5. ASSUME NEW o \in Files("json"), Delete(o) PROVE MadeInv'
  <2>1. o \in Targets /\ dir' = [dir EXCEPT ![Name(o)] = None] /\ made' = [made EXCEPT ![o] = {}]
    BY <1>5, Naming DEF Delete
  <2>2. ASSUME NEW u \in Documents, u # o PROVE MadeAt(u)'
    <3>1. made'[u] = made[u] /\ dir'[Name(u)] = dir[Name(u)]
      BY <2>1, <2>2, <1>a, Naming DEF Types
    <3>2. QED
      BY <3>1, MadeStays
  <2>3. MadeAt(o)'
    <3>1. made'[o] = {} /\ dir'[Name(o)] = None
      BY <2>1, <1>a, Naming DEF Types
    <3>2. QED
      BY <3>1 DEF MadeAt, Exists
  <2>4. QED
    BY <2>1, <2>2, <2>3, <1>a DEF MadeInv
<1>6. CASE UNCHANGED vars
  BY <1>6, <1>1 DEF vars
<1>7. QED
  BY <1>2, <1>3, <1>4, <1>5, <1>6 DEF Next

-----------------------------------------------------------------------------
(* What a writer that is alone has open, and what it has made *)

\* A step that leaves a lone writer where it is, and the files it works on as they are;
\* another may come to work on a file that has no name of this document.
LEMMA LoneStill ==
  ASSUME WriterInv, [Next]_vars, NEW p \in Documented, Lone(p)',
         pc'[p] = pc[p], fd'[p] = fd[p],
         pc[p] \in {"write", "rename"} =>
           dir'[Temp(Out(p))] = dir[Temp(Out(p))] /\ data'[fd[p]] = data[fd[p]],
         p \in made'[Out(p)] =>
           /\ p \in made[Out(p)]
           /\ dir'[Name(Out(p))] = dir[Name(Out(p))]
           /\ data'[dir[Name(Out(p))]] = data[dir[Name(Out(p))]]
           /\ \A q \in Documented :
                pc'[q] \in {"write", "rename"} /\ Out(q) = Out(p) =>
                  (pc[q] \in {"write", "rename"} /\ fd'[q] = fd[q]) \/ fd'[q] # dir[Name(Out(p))]
  PROVE  LoneAt(p)'
<1>1. LoneAt(p) /\ Lone(p)
  BY LoneStays DEF WriterInv, LoneInv, Documented
<1>2. AtWork(p)'
  BY <1>1 DEF LoneAt, AtWork
<1>3. p \in made'[Out(p)] => Whole(p)'
  BY <1>1 DEF LoneAt, Whole
<1>4. QED
  BY <1>2, <1>3 DEF LoneAt

\* A writer at work has met every other one of its document at work.
LEMMA NotLone ==
  ASSUME WriterInv, NEW p \in Documented, NEW q \in Documented, p # q, Out(p) = Out(q), Running(p), Running(q)
  PROVE  ~Lone(p) /\ ~Lone(q)
  BY DEF WriterInv, MetInv, HaveMet, Lone, Documented

\* A step that changes neither what is behind a document nor what is at work.
LEMMA QuietStep ==
  ASSUME WriterInv, [Next]_vars, NEW p \in Procs, Step(p), UNCHANGED <<data, made>>,
         pc'[p] \notin {"write", "rename"},
         dir' = dir \/ (p \in Documented /\ Running(p) /\ dir' = [dir EXCEPT ![Temp(Out(p))] = None])
  PROVE  LoneInv'
<1> SUFFICES ASSUME NEW r \in Documented, Lone(r)' PROVE LoneAt(r)'
  BY DEF LoneInv, LoneAt
<1>a. Types /\ r \in Procs /\ LoneAt(r) /\ Lone(r) /\ \A q \in Procs \ {p} : pc'[q] = pc[q] /\ fd'[q] = fd[q]
  BY StepFrame, LoneStays DEF WriterInv, BaseInv, LoneInv, Documented
<1>b. /\ dir'[Name(Out(r))] = dir[Name(Out(r))]
      /\ Out(r) # Out(p) \/ ~Running(p) \/ p \notin Documented => dir'[Temp(Out(r))] = dir[Temp(Out(r))]
  BY <1>a, Naming DEF Types
<1>c. \A q \in Documented : pc'[q] \in {"write", "rename"} => pc[q] \in {"write", "rename"} /\ fd'[q] = fd[q]
  BY <1>a DEF Documented
<1>d. r \in made'[Out(r)] => Whole(r)'
  BY <1>a, <1>b, <1>c DEF LoneAt, Whole
<1>1. CASE r = p
  BY <1>1, <1>d DEF LoneAt, AtWork
<1>2. CASE r # p
  <2>1. pc[r] \in {"write", "rename"} => dir'[Temp(Out(r))] = dir[Temp(Out(r))]
    BY <1>2, <1>a, <1>b, NotLone DEF Running
  <2>2. AtWork(r)'
    BY <1>2, <2>1, <1>a DEF LoneAt, AtWork
  <2>3. QED
    BY <2>2, <1>d DEF LoneAt
<1>3. QED
  BY <1>1, <1>2

\* A step of a writer of documents leaves the files of other documents alone.
LEMMA Elsewhere ==
  ASSUME WriterInv, NEW r \in Documented, NEW p \in Documented, Out(r) # Out(p), NEW i \in Makers(Out(p))
  PROVE  /\ pc[r] \in {"write", "rename"} => fd[r] # i
         /\ dir[Name(Out(r))] # i
<1>1. i \in Procs /\ Out(i) = Out(p) /\ Out(r) \in Documents
  BY DocumentedOut DEF Makers
<1>2. pc[r] \in {"write", "rename"} => fd[r] # i
  BY <1>1 DEF WriterInv, OpenInv, Makers
<1>3. dir[Name(Out(r))] # i
  BY <1>1, TargetAssumption DEF WriterInv, BaseInv, NameInv, Makers
<1>4. QED
  BY <1>2, <1>3

LEMMA CreateLone ==
  ASSUME WriterInv, [Next]_vars, NEW p \in Procs, CreateTemp(p)
  PROVE  LoneInv'
<1> SUFFICES ASSUME NEW r \in Documented, Lone(r)' PROVE LoneAt(r)'
  BY DEF LoneInv, LoneAt
<1>a. /\ Types /\ NameInv /\ Step(p) /\ p \in Documented /\ Out(p) \in Documents /\ Running(p) /\ pc[p] = "create"
      /\ pc' = [pc EXCEPT ![p] = "write"] /\ pc'[p] = "write" /\ made' = made /\ Temp(Out(p)) \in FileNames
  BY DocumentedOut, Naming DEF CreateTemp, Move, Types, Step, StandInv, StandAt, Running, WriterInv, BaseInv, history
<1>b. r \in Procs /\ Lone(r) /\ LoneAt(r) /\ Out(r) \in Documents
  BY LoneStays, DocumentedOut DEF WriterInv, LoneInv, Documented
<1>c. \A q \in Procs \ {p} : pc'[q] = pc[q] /\ fd'[q] = fd[q]
  BY <1>a, StepFrame
<1>1. PICK i \in Makers(Out(p)) :
        /\ i = IF Exists(Temp(Out(p))) THEN dir[Temp(Out(p))] ELSE p
        /\ dir' = [dir EXCEPT ![Temp(Out(p))] = i]
        /\ fd' = [fd EXCEPT ![p] = i] /\ data' = [data EXCEPT ![i] = <<>>]
  <2>1. Exists(Temp(Out(p))) => dir[Temp(Out(p))] \in Makers(Out(p))
    BY <1>a DEF NameInv, Exists
  <2>2. QED
    BY <2>1, MakersOf DEF CreateTemp
<1>2. i \in Procs /\ i \in Inodes /\ \A o \in Documents : dir[Name(o)] # i
  <2>1. i \in Procs /\ i \in Inodes /\ i # None
    BY <1>1, TargetAssumption DEF Makers, Inodes
  <2>2. ASSUME NEW o \in Documents PROVE dir[Name(o)] # i
    <3>1. Name(o) \in FileNames /\ Name(o) # Temp(Out(p))
      BY <1>a, Naming
    <3>2. CASE Exists(Temp(Out(p)))
      BY <3>1, <3>2, <2>1, <1>1, <1>a DEF NameInv
    <3>3. CASE ~Exists(Temp(Out(p)))
      BY <3>1, <3>3, <1>1, <1>a DEF NameInv
    <3>4. QED
      BY <3>2, <3>3
  <2>3. QED
    BY <2>1, <2>2
<1>3. /\ fd'[p] = i /\ data'[i] = <<>> /\ \A j \in Inodes \ {i} : data'[j] = data[j]
      /\ dir'[Temp(Out(p))] = i
      /\ \A o \in Documents : dir'[Name(o)] = dir[Name(o)] /\ (o # Out(p) => dir'[Temp(o)] = dir[Temp(o)])
  BY <1>1, <1>2, <1>a, Naming DEF Types
<1>4. r \in made[Out(r)] => dir[Name(Out(r))] \in Inodes /\ dir[Name(Out(r))] # i
  <2>1. r \in made[Out(r)] => Exists(Name(Out(r)))
    BY <1>b DEF WriterInv, MadeInv, MadeAt
  <2>2. QED
    BY <2>1, <1>2, <1>b, <1>a, Naming DEF Types, Exists
<1>5. r \in made'[Out(r)] => Whole(r)'
  <2>1. SUFFICES ASSUME r \in made[Out(r)] PROVE Whole(r)'
    BY <1>a
  <2>2. data'[dir[Name(Out(r))]] = Lines(r) /\ dir'[Name(Out(r))] = dir[Name(Out(r))]
    BY <2>1, <1>3, <1>4, <1>b DEF LoneAt, Whole
  <2>3. ASSUME NEW q \in Documented, pc'[q] \in {"write", "rename"}, Out(q) = Out(r)
        PROVE  fd'[q] # dir[Name(Out(r))]
    <3>1. CASE q = p
      BY <3>1, <1>3, <1>4, <2>1
    <3>2. CASE q # p
      BY <3>2, <2>1, <2>3, <1>b, <1>c DEF LoneAt, Whole, Documented
    <3>3. QED
      BY <3>1, <3>2
  <2>4. QED
    BY <2>2, <2>3 DEF Whole
<1>6. AtWork(r)'
  <2>1. CASE r = p
    BY <2>1, <1>a, <1>3 DEF AtWork
  <2>2. CASE r # p /\ pc[r] \in {"write", "rename"}
    <3>1. Out(r) # Out(p)
      BY <2>2, <1>a, <1>b, NotLone DEF Running
    <3>2. fd[r] \in Inodes /\ fd[r] # i
      BY <2>2, <3>1, <1>a, Elsewhere DEF WriterInv, OpenInv, Makers, Inodes
    <3>3. dir'[Temp(Out(r))] = dir[Temp(Out(r))] /\ data'[fd[r]] = data[fd[r]]
      BY <3>1, <3>2, <1>3, <1>b
    <3>4. QED
      BY <2>2, <3>3, <1>b, <1>c DEF LoneAt, AtWork
  <2>3. CASE r # p /\ pc[r] \notin {"write", "rename"}
    BY <2>3, <1>b, <1>c DEF AtWork
  <2>4. QED
    BY <2>1, <2>2, <2>3
<1>7. QED
  BY <1>5, <1>6 DEF LoneAt

LEMMA WriteLone ==
  ASSUME WriterInv, [Next]_vars, NEW p \in Procs, WriteTemp(p)
  PROVE  LoneInv'
<1> SUFFICES ASSUME NEW r \in Documented, Lone(r)' PROVE LoneAt(r)'
  BY DEF LoneInv, LoneAt
<1>a. /\ Types /\ Step(p) /\ p \in Documented /\ Running(p) /\ pc[p] = "write" /\ pc'[p] = "rename"
      /\ UNCHANGED <<dir, fd, made>> /\ data' = [data EXCEPT ![fd[p]] = Over(Lines(p), @)]
  BY DEF WriteTemp, Move, Types, Step, StandInv, StandAt, Running, WriterInv, BaseInv, history
<1>b. r \in Procs /\ Lone(r) /\ LoneAt(r) /\ Out(r) \in Documents /\ \A q \in Procs \ {p} : pc'[q] = pc[q]
  BY <1>a, StepFrame, LoneStays, DocumentedOut DEF WriterInv, LoneInv, Documented
<1>c. fd[p] \in Makers(Out(p)) /\ fd[p] \in Inodes
  BY <1>a DEF WriterInv, OpenInv, Makers, Inodes
<1>d. data'[fd[p]] = Over(Lines(p), data[fd[p]]) /\ \A j \in Inodes \ {fd[p]} : data'[j] = data[j]
  BY <1>a, <1>c DEF Types
<1>1. r \in made'[Out(r)] => Whole(r)'
  <2>1. SUFFICES ASSUME r \in made[Out(r)] PROVE Whole(r)'
    BY <1>a
  <2>2. Exists(Name(Out(r))) /\ Whole(r)
    BY <2>1, <1>b DEF WriterInv, MadeInv, MadeAt, LoneAt
  <2>3. dir[Name(Out(r))] \in Inodes /\ dir[Name(Out(r))] # fd[p]
    BY <2>2, <1>a, <1>b, <1>c, Naming, Elsewhere DEF Types, Exists, Whole
  <2>4. \A q \in Documented : pc'[q] \in {"write", "rename"} => pc[q] \in {"write", "rename"}
    BY <1>a, <1>b DEF Documented
  <2>5. QED
    BY <2>2, <2>3, <2>4, <1>a, <1>d DEF Whole
<1>2. AtWork(r)'
  <2>1. CASE r = p
    BY <2>1, <1>a, <1>b, <1>d, OverNothing DEF LoneAt, AtWork
  <2>2. CASE r # p /\ pc[r] \in {"write", "rename"}
    <3>1. Out(r) # Out(p)
      BY <2>2, <1>a, <1>b, NotLone DEF Running
    <3>2. fd[r] \in Inodes /\ fd[r] # fd[p]
      BY <2>2, <3>1, <1>a, <1>c, Elsewhere DEF WriterInv, OpenInv, Makers, Inodes
    <3>3. QED
      BY <2>2, <3>2, <1>a, <1>b, <1>d DEF LoneAt, AtWork
  <2>3. CASE r # p /\ pc[r] \notin {"write", "rename"}
    BY <2>3, <1>b DEF AtWork
  <2>4. QED
    BY <2>1, <2>2, <2>3
<1>3. QED
  BY <1>1, <1>2 DEF LoneAt

LEMMA RenameLone ==
  ASSUME WriterInv, [Next]_vars, NEW p \in Procs, RenameTemp(p), Exists(Temp(Out(p)))
  PROVE  LoneInv'
<1> DEFINE o == Out(p)
<1> SUFFICES ASSUME NEW r \in Documented, Lone(r)' PROVE LoneAt(r)'
  BY DEF LoneInv, LoneAt
<1>a. /\ Types /\ Step(p) /\ p \in Documented /\ o \in Documents /\ Running(p) /\ pc[p] = "rename" /\ pc'[p] = "done"
      /\ UNCHANGED <<data, fd>> /\ made = [u \in Targets |-> made[u]]
      /\ dir' = [dir EXCEPT ![Name(o)] = dir[Temp(o)], ![Temp(o)] = None]
      /\ made' = [made EXCEPT ![o] = IF Format(p) = "toml" THEN {p} ELSE @ \cup {p}]
  BY DocumentedOut DEF RenameTemp, Move, Types, Step, StandInv, StandAt, Running, WriterInv, BaseInv, MadeInv
<1>b. /\ r \in Procs /\ Lone(r) /\ LoneAt(r) /\ Out(r) \in Documents
      /\ \A q \in Procs \ {p} : pc'[q] = pc[q] /\ fd'[q] = fd[q]
  BY <1>a, StepFrame, LoneStays, DocumentedOut DEF WriterInv, LoneInv, Documented
<1>c. \A q \in Documented : pc'[q] \in {"write", "rename"} => q # p /\ pc[q] \in {"write", "rename"} /\ fd'[q] = fd[q]
  BY <1>a, <1>b DEF Documented
<1>d. /\ dir'[Name(o)] = dir[Temp(o)] /\ made'[o] = (IF Format(p) = "toml" THEN {p} ELSE made[o] \cup {p})
      /\ \A u \in Documents \ {o} : dir'[Name(u)] = dir[Name(u)] /\ dir'[Temp(u)] = dir[Temp(u)] /\ made'[u] = made[u]
  BY <1>a, Naming DEF Types
<1>1. CASE r = p
  <2>1. dir[Temp(o)] = fd[p] /\ data[fd[p]] = Lines(p)
    BY <1>1, <1>a, <1>b DEF LoneAt, AtWork
  <2>2. \A q \in Documented : pc'[q] \in {"write", "rename"} => Out(q) # o
    BY <1>1, <1>a, <1>b, <1>c, NotLone DEF Running
  <2>3. Whole(p)' /\ AtWork(p)'
    BY <2>1, <2>2, <1>a, <1>d DEF Whole, AtWork
  <2>4. QED
    BY <2>3, <1>1 DEF LoneAt
<1>2. CASE r # p /\ Out(r) = o
  <2>1. pc'[r] \notin {"write", "rename"}
    BY <1>2, <1>a, <1>b, NotLone DEF Running
  <2>2. r \notin made'[o]
    <3>1. SUFFICES ASSUME Format(p) # "toml", r \in made[o] PROVE FALSE
      BY <1>2, <1>d
    <3>2. o \in Files("json")
      BY <3>1, <1>a, Formats, Naming DEF Files, Documented
    <3>3. HaveMet(p, r)
      BY <3>1, <3>2, <1>a, MakersOf DEF WriterInv, MadeInv, MadeAt, Documented
    <3>4. HaveMet(r, p)
      BY <3>3, <1>b DEF WriterInv, MetInv
    <3>5. QED
      BY <3>4, <1>b DEF HaveMet, Lone
  <2>3. QED
    BY <2>1, <2>2, <1>2 DEF LoneAt, AtWork
<1>3. CASE r # p /\ Out(r) # o
  <2>1. AtWork(r)'
    BY <1>3, <1>a, <1>b, <1>d DEF LoneAt, AtWork
  <2>2. r \in made'[Out(r)] => Whole(r)'
    BY <1>3, <1>a, <1>b, <1>c, <1>d DEF LoneAt, Whole
  <2>3. QED
    BY <2>1, <2>2 DEF LoneAt
<1>4. QED
  BY <1>1, <1>2, <1>3

LEMMA LoneInvStep == WriterInv /\ [Next]_vars => LoneInv'
<1> SUFFICES ASSUME WriterInv, [Next]_vars PROVE LoneInv'
  OBVIOUS
<1>a. Types /\ StandInv /\ NameInv /\ OpenInv /\ MadeInv
  BY DEF WriterInv, BaseInv
<1>1. ASSUME NEW p \in Procs, Refuse(p) \/ Check(p) \/ OpenAppend(p) \/ SyncAppend(p) \/ Kill(p) PROVE LoneInv'
  <2>1. UNCHANGED <<dir, data, made>> /\ Step(p) /\ pc'[p] \notin {"write", "rename"}
    BY <1>1, <1>a DEF Refuse, Check, OpenAppend, SyncAppend, Kill, files, history, Step, Move, Types
  <2>2. QED
    BY <2>1, QuietStep
<1>2. ASSUME NEW p \in Procs, Fail(p) PROVE LoneInv'
  <2>1. /\ UNCHANGED <<data, made>> /\ Step(p) /\ pc'[p] = "done"
        /\ dir' = dir \/ (pc[p] = "rename" /\ dir' = [dir EXCEPT ![Temp(Out(p))] = None])
    BY <1>2, <1>a DEF Fail, Step, Move, Types, history
  <2>2. pc[p] = "rename" => p \in Documented /\ Running(p)
    BY <1>a DEF StandInv, StandAt, Running
  <2>3. QED
    BY <2>1, <2>2, QuietStep
<1>3. ASSUME NEW p \in Procs, RenameTemp(p) PROVE LoneInv'
  <2>1. CASE ~Exists(Temp(Out(p)))
    <3>1. UNCHANGED <<dir, data, made>> /\ Step(p) /\ pc'[p] \notin {"write", "rename"}
      BY <1>3, <2>1, <1>a DEF RenameTemp, Step, Move, Types
    <3>2. QED
      BY <3>1, QuietStep
  <2>2. QED
    BY <1>3, <2>1, RenameLone
\* Files of records, documents that are deleted, and steps of nobody.
<1>b. ASSUME UNCHANGED <<pc, fd>>, \A o \in Documents : dir'[Temp(o)] = dir[Temp(o)],
             \A i \in Procs : data'[i] = data[i],
             \A o \in Documents : made'[o] = {} \/ (made'[o] = made[o] /\ dir'[Name(o)] = dir[Name(o)])
      PROVE  LoneInv'
  <2> SUFFICES ASSUME NEW r \in Documented, Lone(r)' PROVE LoneAt(r)'
    BY DEF LoneInv, LoneAt
  <2>1. r \in Procs /\ Out(r) \in Documents
    BY DocumentedOut DEF Documented
  <2>2. pc[r] \in {"write", "rename"} => data'[fd[r]] = data[fd[r]]
    BY <1>a, <1>b DEF OpenInv, Makers
  <2>3. r \in made'[Out(r)] => dir[Name(Out(r))] \in Procs /\ r \in made[Out(r)]
                               /\ dir'[Name(Out(r))] = dir[Name(Out(r))]
    BY <1>a, <1>b, <2>1 DEF MadeInv, MadeAt, NameInv, Exists, Makers
  <2>4. QED
    BY <1>b, <2>1, <2>2, <2>3, LoneStill
<1>4. ASSUME NEW p \in Procs, AppendPiece(p) PROVE LoneInv'
  <2>1. /\ UNCHANGED <<dir, made, fd>> /\ pc'[p] = pc[p] /\ pc[p] = "append" /\ fd[p] \in Targets
        /\ data' = [data EXCEPT ![fd[p]] = Append(@, Piece(p, calls[p] + 1))]
        /\ pc' = pc
    BY <1>4, <1>a DEF AppendPiece, Move, StandInv, StandAt, history, Types
  <2>2. \A i \in Procs : data'[i] = data[i]
    BY <2>1, <1>a, TargetAssumption DEF Types, Inodes
  <2>3. QED
    BY <2>1, <2>2, <1>b
<1>5. ASSUME NEW o \in Files("jsonl"), Touch(o) PROVE LoneInv'
  <2>1. o \in Targets /\ o \notin Documents /\ UNCHANGED <<pc, fd, data, made>> /\ dir' = [dir EXCEPT ![Name(o)] = o]
    BY <1>5, Naming DEF Touch, Documents, history
  <2>2. \A u \in Documents : dir'[Name(u)] = dir[Name(u)] /\ dir'[Temp(u)] = dir[Temp(u)]
    BY <2>1, <1>a, Naming DEF Types
  <2>3. QED
    BY <2>1, <2>2, <1>b
<1>6. ASSUME NEW o \in Files("json"), Delete(o) PROVE LoneInv'
  <2>1. o \in Targets /\ UNCHANGED <<pc, fd, data>> /\ dir' = [dir EXCEPT ![Name(o)] = None]
        /\ made' = [made EXCEPT ![o] = {}] /\ made = [u \in Targets |-> made[u]]
    BY <1>6, <1>a, Naming DEF Delete, MadeInv
  <2>2. \A u \in Documents : dir'[Temp(u)] = dir[Temp(u)]
                             /\ (made'[u] = {} \/ (made'[u] = made[u] /\ dir'[Name(u)] = dir[Name(u)]))
    BY <2>1, <1>a, Naming DEF Types
  <2>3. QED
    BY <2>1, <2>2, <1>b
<1>7. CASE UNCHANGED vars
  BY <1>7, <1>b DEF vars
<1>8. QED
  BY <1>1, <1>2, <1>3, <1>4, <1>5, <1>6, <1>7, CreateLone, WriteLone DEF Next, Step

LEMMA WriterInvStep == WriterInv /\ [Next]_vars => WriterInv'
  BY TypesStep, StandInvStep, NameInvStep, OpenInvStep, MetInvStep, MadeInvStep, LoneInvStep DEF WriterInv, BaseInv

\* A document is there only when a writer made it and said so, and that of a writer which
\* was alone is its whole input, whatever else is written, fails or is killed, and however
\* others overlap.
THEOREM DocumentsAreWhole == Spec => []DocumentsWhole
<1>1. WriterInv => DocumentsWhole
  <2> SUFFICES ASSUME WriterInv, NEW o \in Documents
               PROVE  /\ Exists(Name(o)) <=> made[o] # {}
                      /\ \A p \in made[o] : Lone(p) => Accepted(p) /\ Content(o) = Lines(p)
    BY DEF DocumentsWhole
  <2>1. MadeAt(o)
    BY DEF WriterInv, MadeInv
  <2>2. ASSUME NEW p \in made[o], Lone(p) PROVE Accepted(p) /\ Content(o) = Lines(p)
    <3>1. p \in Documented /\ Out(p) = o /\ Exists(Name(o)) /\ Accepted(p)
      BY <2>1, MakersOf DEF MadeAt
    <3>2. Whole(p)
      BY <2>2, <3>1 DEF WriterInv, LoneInv, LoneAt
    <3>3. QED
      BY <3>1, <3>2 DEF Whole, Content
  <2>3. QED
    BY <2>1, <2>2 DEF MadeAt
<1>2. QED
  BY <1>1, InitWriters, WriterInvStep, PTL DEF Spec

\* ... and of two json writers that both answer OK for one document, with no deletion in
\* between, one was at work when the other came: no third way past the check.
THEOREM NothingIsOverwritten == Spec => []NeverOverwritten
<1>1. WriterInv => NeverOverwritten
  <2>1. Files("json") \subseteq Documents
    BY TargetAssumption DEF Files, Documents, Targets
  <2>2. QED
    BY <2>1 DEF WriterInv, MadeInv, MadeAt, HaveMet, NeverOverwritten
<1>2. QED
  BY <1>1, InitWriters, WriterInvStep, PTL DEF Spec


-----------------------------------------------------------------------------
(* Records appended to a file *)

Pieces == (Procs \X STRING) \cup {NL}
Appending == {p \in Procs : Format(p) = "jsonl"}

Rank(own, i) == Cardinality({j \in own : j <= i})

\* The first n records of p are in content, in their order.
InOrder(p, content, n) ==
  LET own == RecordsOf(p, content)
  IN  /\ Cardinality(own) = n
      /\ \A i \in own : Rank(own, i) \in 1 .. n /\ content[i] = <<p, Lines(p)[Rank(own, i)]>>

\* How far a writer of records is, by the calls it has made.
BatchAt(p) ==
  /\ calls[p] \in 0 .. 2 * Len(Lines(p)) /\ InOrder(p, data[Out(p)], (calls[p] + 1) \div 2)
  /\ fd[p] \in {Out(p), None} /\ (fd[p] # None => dir[Name(Out(p))] = Out(p))
  /\ fd[p] = None => calls[p] = 0 /\ said[p] # "OK"
  /\ pc[p] \in {"start", "open"} \/ said[p] = "FAIL" => fd[p] = None
  /\ said[p] = "OK" => calls[p] = 2 * Len(Lines(p))

\* Files of records are written to by such writers only.
RecordTypes ==
  /\ calls = [p \in Procs |-> calls[p]]
  /\ \A o \in Files("jsonl") : data[o] \in Seq(Pieces)
  /\ \A p \in Documented : pc[p] = "write" => fd[p] \in Procs

BatchInv == BaseInv /\ RecordTypes /\ \A p \in Appending : BatchAt(p)

LEMMA FiniteOwn ==
  ASSUME NEW p, NEW s \in Seq(Pieces)
  PROVE  /\ RecordsOf(p, s) \subseteq 1 .. Len(s) /\ IsFiniteSet(RecordsOf(p, s))
         /\ \A i : IsFiniteSet({j \in RecordsOf(p, s) : j <= i})
<1>1. RecordsOf(p, s) \subseteq 1 .. Len(s)
  BY DEF RecordsOf
<1>2. IsFiniteSet(1 .. Len(s))
  BY FS_Interval
<1> QED
  BY <1>1, <1>2, FS_Subset

\* What another writer appends changes nothing.
LEMMA ForeignPiece ==
  ASSUME NEW p \in Procs, NEW s \in Seq(Pieces), NEW n \in Nat, InOrder(p, s, n),
         NEW x \in Pieces, x \notin {<<p, l>> : l \in Range(Lines(p))}
  PROVE  InOrder(p, Append(s, x), n)
<1> DEFINE t == Append(s, x)
<1>1. /\ DOMAIN t = 1 .. (Len(s) + 1) /\ t[Len(s) + 1] = x
      /\ \A i \in 1 .. Len(s) : t[i] = s[i]
  OBVIOUS
<1> HIDE DEF t
<1>2. DOMAIN s = 1 .. Len(s) /\ Len(s) \in Nat
  OBVIOUS
<1>3. RecordsOf(p, t) = RecordsOf(p, s)
  BY <1>1, <1>2 DEF RecordsOf
<1>4. \A i \in RecordsOf(p, s) : t[i] = s[i]
  BY <1>1, FiniteOwn
<1>5. InOrder(p, t, n)
  BY <1>3, <1>4 DEF InOrder
<1> QED
  BY <1>5 DEF t

\* The next record of its own, at the end.
LEMMA OwnPiece ==
  ASSUME NEW p \in Procs, NEW s \in Seq(Pieces), NEW n \in Nat, InOrder(p, s, n), n < Len(Lines(p))
  PROVE  InOrder(p, Append(s, <<p, Lines(p)[n + 1]>>), n + 1)
<1> DEFINE x == <<p, Lines(p)[n + 1]>>
           t == Append(s, x)
           own == RecordsOf(p, s)
           e == Len(s) + 1
<1>0. Lines(p) \in Seq(STRING) /\ Len(Lines(p)) \in Nat /\ n + 1 \in DOMAIN Lines(p)
  BY Formats
<1>1. /\ DOMAIN t = 1 .. e /\ t[e] = x
      /\ \A i \in 1 .. Len(s) : t[i] = s[i]
  OBVIOUS
<1>2. DOMAIN s = 1 .. Len(s) /\ Len(s) \in Nat
  OBVIOUS
<1>3. x \in {<<p, l>> : l \in Range(Lines(p))}
  BY <1>0 DEF Range
<1> HIDE DEF t, x
<1>4. RecordsOf(p, t) = own \cup {e} /\ e \notin own /\ own \subseteq 1 .. Len(s)
  BY <1>1, <1>2, <1>3 DEF RecordsOf
<1>5. IsFiniteSet(own) /\ \A i : IsFiniteSet({j \in own : j <= i})
  BY FiniteOwn
<1>6. Cardinality(own) = n /\ \A i \in own : Rank(own, i) \in 1 .. n /\ s[i] = <<p, Lines(p)[Rank(own, i)]>>
  BY DEF InOrder
<1>7. Cardinality(own \cup {e}) = n + 1
  BY <1>4, <1>5, <1>6, FS_AddElement
<1>8. ASSUME NEW i \in own PROVE Rank(own \cup {e}, i) = Rank(own, i)
  <2>1. {j \in own \cup {e} : j <= i} = {j \in own : j <= i}
    BY <1>2, <1>4, <1>8
  <2> QED
    BY <2>1 DEF Rank
<1>9. Rank(own \cup {e}, e) = n + 1
  <2>1. {j \in own \cup {e} : j <= e} = own \cup {e}
    BY <1>2, <1>4
  <2> QED
    BY <2>1, <1>7 DEF Rank
<1>10. \A i \in own \cup {e} : /\ Rank(own \cup {e}, i) \in 1 .. (n + 1)
                               /\ t[i] = <<p, Lines(p)[Rank(own \cup {e}, i)]>>
  <2>1. ASSUME NEW i \in own
        PROVE  Rank(own \cup {e}, i) \in 1 .. (n + 1) /\ t[i] = <<p, Lines(p)[Rank(own \cup {e}, i)]>>
    <3>1. Rank(own \cup {e}, i) \in 1 .. n /\ s[i] = <<p, Lines(p)[Rank(own \cup {e}, i)]>>
      BY <1>6, <1>8
    <3>2. t[i] = s[i]
      BY <1>1, <1>4
    <3> QED
      BY <3>1, <3>2
  <2>2. n + 1 \in 1 .. (n + 1) /\ t[e] = <<p, Lines(p)[n + 1]>>
    BY <1>1 DEF x
  <2> HIDE DEF own, e
  <2> QED
    BY <2>1, <2>2, <1>9
<1>11. InOrder(p, t, n + 1)
  BY <1>4, <1>7, <1>10 DEF InOrder
<1> QED
  BY <1>11 DEF t, x

\* What one call adds: an own record every other time.
LEMMA PieceAdded ==
  ASSUME NEW p \in Procs, NEW s \in Seq(Pieces), NEW k \in Nat, k < 2 * Len(Lines(p)),
         InOrder(p, s, (k + 1) \div 2)
  PROVE  Piece(p, k + 1) \in Pieces /\ InOrder(p, Append(s, Piece(p, k + 1)), (k + 2) \div 2)
<1>0. Lines(p) \in Seq(STRING) /\ Len(Lines(p)) \in Nat
  BY Formats
<1>1. CASE (k + 1) % 2 = 1
  <2>1. (k + 2) \div 2 = (k + 1) \div 2 + 1 /\ (k + 1) \div 2 \in Nat /\ (k + 1) \div 2 < Len(Lines(p))
    BY <1>0, <1>1
  <2> DEFINE n == (k + 1) \div 2
  <2>2. n \in Nat /\ n < Len(Lines(p)) /\ (k + 2) \div 2 = n + 1 /\ InOrder(p, s, n)
    BY <2>1
  <2>3. Piece(p, k + 1) = <<p, Lines(p)[n + 1]>>
    BY <1>1, <2>2 DEF Piece
  <2> HIDE DEF n
  <2>4. n + 1 \in DOMAIN Lines(p) /\ Lines(p)[n + 1] \in STRING
    BY <2>2, <1>0
  <2>5. Piece(p, k + 1) \in Pieces
    BY <2>3, <2>4 DEF Pieces
  <2>6. InOrder(p, Append(s, <<p, Lines(p)[n + 1]>>), n + 1)
    BY <2>2, OwnPiece
  <2> QED
    BY <2>2, <2>3, <2>5, <2>6
<1>2. CASE (k + 1) % 2 # 1
  <2>1. (k + 2) \div 2 = (k + 1) \div 2 /\ (k + 1) \div 2 \in Nat
    BY <1>2
  <2>2. Piece(p, k + 1) = NL /\ NL \in Pieces
    BY <1>2 DEF Piece, Pieces
  <2>3. NL \notin {<<p, l>> : l \in Range(Lines(p))}
    BY <1>0, TargetAssumption DEF Range
  <2> DEFINE n == (k + 1) \div 2
  <2>4. n \in Nat /\ (k + 2) \div 2 = n /\ InOrder(p, s, n)
    BY <2>1
  <2> HIDE DEF n
  <2> QED
    BY <2>2, <2>3, <2>4, ForeignPiece
<1> QED
  BY <1>1, <1>2

LEMMA ForeignAdded ==
  ASSUME NEW p \in Procs, NEW q \in Procs, p # q, NEW k \in Nat
  PROVE  Piece(q, k) \notin {<<p, l>> : l \in Range(Lines(p))}
<1>0. Lines(p) \in Seq(STRING)
  BY Formats
<1> QED
  BY <1>0, TargetAssumption DEF Piece, Range

LEMMA InitBatch == Init => BatchInv
<1> SUFFICES ASSUME Init PROVE BatchInv
  OBVIOUS
<1>1. BaseInv
  BY InitWriters DEF WriterInv, BaseInv
<1>2. /\ said = [p \in Procs |-> ""]
      /\ calls = [p \in Procs |-> 0] /\ fd = [p \in Procs |-> None]
      /\ \A o \in Targets : data[o] = <<>>
  BY DEF Init, Inodes
<1>3. RecordTypes
  <2>1. calls = [p \in Procs |-> calls[p]] /\ \A p \in Documented : pc[p] # "write"
    <3>1. PICK present \in Together : pc = [p \in Procs |-> IF p \in present THEN "start" ELSE "done"]
      BY DEF Init
    <3> QED
      BY <1>2, <3>1 DEF Documented
  <2>2. <<>> \in Seq(Pieces)
    OBVIOUS
  <2>3. \A o \in Files("jsonl") : data[o] \in Seq(Pieces)
    BY <1>2, <2>2, Naming
  <2> QED
    BY <2>1, <2>3 DEF RecordTypes
<1>4. ASSUME NEW p \in Procs PROVE InOrder(p, <<>>, 0)
  <2>1. RecordsOf(p, <<>>) = {}
    BY DEF RecordsOf
  <2> QED
    BY <2>1, FS_EmptySet DEF InOrder
<1>5. ASSUME NEW p \in Appending PROVE BatchAt(p)
  <2>1. p \in Procs /\ Out(p) \in Targets /\ Lines(p) \in Seq(STRING)
    BY Naming, Formats DEF Appending
  <2>2. (calls[p] + 1) \div 2 = 0 /\ calls[p] = 0
    <3>1. calls[p] = 0
      BY <1>2, <2>1
    <3>2. (0 + 1) \div 2 = 0
      OBVIOUS
    <3> QED
      BY <3>1, <3>2
  <2>3. 0 \in 0 .. 2 * Len(Lines(p))
    BY <2>1
  <2>4. InOrder(p, data[Out(p)], 0)
    BY <1>2, <1>4, <2>1
  <2>5. said[p] = "" /\ fd[p] = None
    BY <1>2, <2>1
  <2> QED
    BY <2>2, <2>3, <2>4, <2>5 DEF BatchAt
<1> QED
  BY <1>1, <1>3, <1>5 DEF BatchInv

\* A step that leaves a writer of records, its file's name and what is in the file of it.
LEMMA BatchStays ==
  ASSUME NEW p \in Appending, BatchAt(p), calls'[p] = calls[p], pc'[p] = pc[p], said'[p] = said[p], fd'[p] = fd[p],
         dir[Name(Out(p))] = Out(p) => dir'[Name(Out(p))] = Out(p),
         \A n \in Nat : InOrder(p, data[Out(p)], n) => InOrder(p, data'[Out(p)], n)
  PROVE  BatchAt(p)'
<1>1. Lines(p) \in Seq(STRING) /\ calls[p] \in Nat
  BY Formats DEF BatchAt, Appending
<1>2. (calls[p] + 1) \div 2 \in Nat
  BY <1>1
<1>3. \A n : InOrder(p, data[Out(p)], n)' <=> InOrder(p, data'[Out(p)], n)
  BY DEF InOrder, RecordsOf
<1> QED
  BY <1>2, <1>3 DEF BatchAt

LEMMA BatchInvStep == BatchInv /\ [Next]_vars => BatchInv'
<1> SUFFICES ASSUME BatchInv, [Next]_vars PROVE BatchInv'
  OBVIOUS
<1>a. Types /\ StandInv /\ NameInv /\ RecordTypes
  BY DEF BatchInv, BaseInv
<1>b. \A p \in Appending : p \in Procs /\ BatchAt(p) /\ Out(p) \in Files("jsonl") /\ Out(p) \in Targets
  BY DEF BatchInv, Appending, Files, Targets
<1>c. BaseInv'
  BY TypesStep, StandInvStep, NameInvStep DEF BatchInv, BaseInv
<1>d. Files("jsonl") \subseteq Inodes /\ Files("jsonl") \cap Procs = {} /\ \A p \in Appending : p \notin Documented
  BY TargetAssumption DEF Files, Inodes, Appending, Documented
\* A step of the file system or of nobody.
<1>1. ASSUME UNCHANGED <<pc, said, calls, fd, data>>,
             \A o \in Files("jsonl") : dir[Name(o)] = o => dir'[Name(o)] = o
      PROVE  BatchInv'
  <2>1. RecordTypes'
    BY <1>1, <1>a DEF RecordTypes
  <2>2. \A p \in Appending : BatchAt(p)'
    BY <1>1, <1>b, BatchStays
  <2> QED
    BY <1>c, <2>1, <2>2 DEF BatchInv
<1>2. ASSUME NEW o \in Files("jsonl"), Touch(o) PROVE BatchInv'
  <2>1. UNCHANGED <<pc, said, calls, fd, data>> /\ dir' = [dir EXCEPT ![Name(o)] = o]
    BY <1>2 DEF Touch
  <2>2. \A q \in Files("jsonl") : dir[Name(q)] = q => dir'[Name(q)] = q
    BY <2>1, <1>a, Naming DEF Types
  <2> QED
    BY <1>1, <2>1, <2>2
<1>3. ASSUME NEW o \in Files("json"), Delete(o) PROVE BatchInv'
  <2>1. UNCHANGED <<pc, said, calls, fd, data>> /\ dir' = [dir EXCEPT ![Name(o)] = None]
    BY <1>3 DEF Delete
  <2>2. o \notin Files("jsonl")
    BY TargetAssumption DEF Files
  <2>3. \A q \in Files("jsonl") : dir[Name(q)] = q => dir'[Name(q)] = q
    BY <2>1, <2>2, <1>a, Naming DEF Types
  <2> QED
    BY <1>1, <2>1, <2>3
<1>4. CASE UNCHANGED vars
  BY <1>1, <1>4 DEF vars
\* A step of a writer that leaves the files of records alone.
<1>5. ASSUME NEW p \in Procs, Step(p), calls' = calls, \A o \in Files("jsonl") : data'[o] = data[o],
             \A o \in Files("jsonl") : dir[Name(o)] = o => dir'[Name(o)] = o,
             p \in Documented => (pc'[p] = "write" => fd'[p] \in Procs),
             p \in Appending => BatchAt(p)'
      PROVE  BatchInv'
  <2>1. \A q \in Procs \ {p} : pc'[q] = pc[q] /\ said'[q] = said[q] /\ fd'[q] = fd[q]
    BY <1>5, <1>a, StepFrame
  <2>2. RecordTypes'
    BY <1>5, <2>1, <1>a DEF RecordTypes, Documented
  <2>3. \A q \in Appending : BatchAt(q)'
    BY <1>5, <2>1, <1>b, BatchStays
  <2> QED
    BY <1>c, <2>2, <2>3 DEF BatchInv
\* The inode and the name stay.
<1>e. ASSUME NEW p \in Appending, data'[Out(p)] = data[Out(p)], calls'[p] = calls[p]
      PROVE  InOrder(p, data[Out(p)], (calls[p] + 1) \div 2)'
  <2>1. InOrder(p, data[Out(p)], (calls[p] + 1) \div 2)
    BY <1>b DEF BatchAt
  <2> QED
    BY <1>e, <2>1 DEF InOrder, RecordsOf
<1>6. ASSUME NEW p \in Procs, Refuse(p) \/ Check(p) PROVE BatchInv'
  <2>1. /\ UNCHANGED <<calls, fd, dir, data>> /\ Step(p) /\ pc[p] = "start" /\ pc'[p] # "write"
        /\ said'[p] # "OK" /\ pc'[p] # "start"
    BY <1>6, <1>a DEF Refuse, Check, Step, Move, Answer, files, Types
  <2>2. p \in Appending => BatchAt(p)'
    BY <2>1, <1>b, <1>e DEF BatchAt
  <2> QED
    BY <1>5, <2>1, <2>2
<1>7. ASSUME NEW p \in Procs, OpenAppend(p) PROVE BatchInv'
  <2>1. UNCHANGED <<calls, dir, data>> /\ Step(p) /\ pc[p] = "open" /\ pc'[p] \in {"append", "done"} /\ p \in Appending
    BY <1>7, <1>a DEF OpenAppend, Step, Move, files, Types, StandInv, StandAt, Documented, Appending
  <2>2. said[p] # "FAIL" /\ said'[p] \notin {"FAIL", "OK"}
    BY <1>7, <1>a, <2>1 DEF OpenAppend, Answer, Types, StandInv, StandAt, Running
  <2>3. dir[Name(Out(p))] \in {Out(p), None} /\ Out(p) # None
    BY <2>1, <1>a, <1>b, TargetAssumption DEF NameInv
  <2>4. fd'[p] = fd[p] \/ (fd'[p] = Out(p) /\ dir[Name(Out(p))] = Out(p))
    BY <1>7, <2>3, <1>a DEF OpenAppend, Exists, Types
  <2>5. fd[p] = None /\ calls[p] = 0
    BY <2>1, <1>b DEF BatchAt
  <2>6. BatchAt(p)'
    BY <2>1, <2>2, <2>4, <2>5, <2>3, <1>b, <1>e DEF BatchAt
  <2> QED
    BY <1>5, <2>1, <2>6, <1>d
<1>8. ASSUME NEW p \in Procs, AppendPiece(p) PROVE BatchInv'
  <2>1. /\ p \in Appending /\ pc[p] = "append" /\ UNCHANGED <<said, fd, dir>> /\ pc' = pc
        /\ data' = [data EXCEPT ![fd[p]] = Append(@, Piece(p, calls[p] + 1))]
        /\ calls[p] < 2 * Len(Lines(p)) /\ calls' = [calls EXCEPT ![p] = @ + 1] /\ fd[p] \in Targets
    BY <1>8, <1>a DEF AppendPiece, Move, Types, StandInv, StandAt, Documented, Appending
  <2>2. fd[p] = Out(p) /\ Out(p) \in Files("jsonl") /\ data[Out(p)] \in Seq(Pieces) /\ Out(p) \in Inodes
    BY <2>1, <1>a, <1>b, <1>d, TargetAssumption DEF BatchAt, RecordTypes
  <2> DEFINE x == Piece(p, calls[p] + 1)
  <2>3. calls[p] \in Nat /\ InOrder(p, data[Out(p)], (calls[p] + 1) \div 2)
    BY <2>1, <1>b, Formats DEF BatchAt, Appending
  <2>4. x \in Pieces /\ InOrder(p, Append(data[Out(p)], x), (calls[p] + 2) \div 2)
    BY <2>1, <2>2, <2>3, PieceAdded DEF Appending
  <2>5. data'[Out(p)] = Append(data[Out(p)], x) /\ \A o \in Inodes \ {Out(p)} : data'[o] = data[o]
    BY <2>1, <2>2, <1>a DEF Types
  <2>6. calls'[p] = calls[p] + 1 /\ \A q \in Procs \ {p} : calls'[q] = calls[q]
    BY <2>1, <1>a, <1>b DEF RecordTypes
  <2>7. ASSUME NEW q \in Appending, q # p PROVE BatchAt(q)'
    <3>1. ASSUME NEW n \in Nat, InOrder(q, data[Out(q)], n) PROVE InOrder(q, data'[Out(q)], n)
      <4>1. CASE Out(q) = Out(p)
        <5>1. x \notin {<<q, l>> : l \in Range(Lines(q))}
          BY <2>1, <2>3, <2>7, ForeignAdded DEF Appending
        <5>2. InOrder(q, Append(data[Out(p)], x), n)
          BY <2>2, <2>4, <3>1, <4>1, <5>1, ForeignPiece DEF Appending
        <5> QED
          BY <4>1, <5>2, <2>5
      <4>2. CASE Out(q) # Out(p)
        BY <3>1, <4>2, <2>5, <1>b, <1>d
      <4> QED
        BY <4>1, <4>2
    <3> QED
      BY <3>1, <2>1, <2>6, <2>7, <1>b, BatchStays
  <2>8. BatchAt(p)'
    <3>1. InOrder(p, data[Out(p)], (calls[p] + 1) \div 2)'
      <4>1. (calls[p] + 1) + 1 = calls[p] + 2
        BY <2>3
      <4>2. InOrder(p, data'[Out(p)], (calls'[p] + 1) \div 2)
        BY <2>4, <2>5, <2>6, <4>1
      <4> QED
        BY <4>2 DEF InOrder, RecordsOf
    <3>2. said[p] = ""
      BY <2>1, <1>a, <1>b DEF StandInv, StandAt, Running
    <3>3. Len(Lines(p)) \in Nat
      BY <1>b, <2>1, Formats
    <3> QED
      <4>1. calls'[p] \in 0 .. 2 * Len(Lines(p))
        BY <3>3, <2>1, <2>3, <2>6
      <4>2. dir[Name(Out(p))] = Out(p) /\ Out(p) # None
        BY <2>1, <2>2, <1>b, TargetAssumption DEF BatchAt
      <4> QED
        BY <3>1, <3>2, <4>1, <4>2, <2>1, <2>2 DEF BatchAt
  <2>9. RecordTypes'
    <3>1. calls' = [q \in Procs |-> calls'[q]]
      BY <2>1, <1>a DEF RecordTypes
    <3>2. \A o \in Files("jsonl") : data'[o] \in Seq(Pieces)
      <4>1. Append(data[Out(p)], x) \in Seq(Pieces)
        BY <2>2, <2>4
      <4> QED
        BY <4>1, <2>5, <1>a, <1>d DEF RecordTypes
    <3> QED
      BY <3>1, <3>2, <2>1, <1>a DEF RecordTypes, Pieces
  <2> QED
    BY <1>c, <2>7, <2>8, <2>9 DEF BatchInv
<1>9. ASSUME NEW p \in Procs, SyncAppend(p) PROVE BatchInv'
  <2>1. /\ UNCHANGED <<calls, fd, dir, data>> /\ Step(p) /\ p \in Appending /\ pc[p] = "append" /\ pc'[p] = "done"
        /\ said'[p] = "OK" /\ calls[p] = 2 * Len(Lines(p)) /\ fd[p] \in Targets
    BY <1>9, <1>a DEF SyncAppend, Step, Move, Answer, files, Types, StandInv, StandAt, Documented, Appending
  <2>2. BatchAt(p)'
    BY <2>1, <1>b, <1>e, TargetAssumption DEF BatchAt
  <2> QED
    BY <1>5, <2>1, <2>2
<1>10. ASSUME NEW p \in Procs, CreateTemp(p) PROVE BatchInv'
  <2>1. /\ Step(p) /\ p \in Documented /\ Out(p) \in Documents /\ UNCHANGED calls
        /\ Temp(Out(p)) \in FileNames /\ p \notin Appending
    BY <1>10, <1>a, DocumentedOut, Naming DEF CreateTemp, Move, Types, Step, StandInv, StandAt, Documented, Appending
  <2>2. PICK i \in Procs :
          /\ dir' = [dir EXCEPT ![Temp(Out(p))] = i]
          /\ fd' = [fd EXCEPT ![p] = i] /\ data' = [data EXCEPT ![i] = <<>>]
    BY <1>10, <2>1, <1>a DEF CreateTemp, NameInv, Exists, Makers
  <2>3. fd'[p] \in Procs /\ \A o \in Files("jsonl") : data'[o] = data[o]
    BY <2>2, <1>a, <1>d DEF Types
  <2>4. \A o \in Files("jsonl") : dir'[Name(o)] = dir[Name(o)]
    BY <2>1, <2>2, <1>a, Naming DEF Types
  <2> QED
    BY <1>5, <2>1, <2>3, <2>4
<1>11. ASSUME NEW p \in Procs, WriteTemp(p) PROVE BatchInv'
  <2>1. /\ Step(p) /\ p \in Documented /\ UNCHANGED <<calls, dir, fd>> /\ p \notin Appending /\ fd[p] \in Procs
        /\ data' = [data EXCEPT ![fd[p]] = Over(Lines(p), @)] /\ pc'[p] = "rename"
    BY <1>11, <1>a DEF WriteTemp, Move, Types, Step, StandInv, StandAt, Documented, Appending, RecordTypes
  <2>2. \A o \in Files("jsonl") : data'[o] = data[o]
    BY <2>1, <1>a, <1>d DEF Types
  <2> QED
    BY <1>5, <2>1, <2>2
<1>12. ASSUME NEW p \in Procs, RenameTemp(p) \/ Fail(p) \/ Kill(p) PROVE BatchInv'
  <2>1. /\ Step(p) /\ UNCHANGED <<calls, fd, data>> /\ pc'[p] = "done" /\ Running(p)
    BY <1>12, <1>a DEF RenameTemp, Fail, Kill, Move, Types, Step, files, Running
  <2>2. pc[p] = "rename" => p \in Documented /\ Out(p) \in Documents
    BY <1>a, DocumentedOut DEF StandInv, StandAt
  <2>3. \A o \in Files("jsonl") : dir'[Name(o)] = dir[Name(o)]
    <3>1. ASSUME pc[p] = "rename", NEW o \in Files("jsonl")
          PROVE  /\ Name(o) \in FileNames /\ Name(o) # Temp(Out(p)) /\ Name(o) # Name(Out(p))
                 /\ Temp(Out(p)) \in FileNames
      BY <2>2, <3>1, Naming DEF Documents
    <3>2. CASE RenameTemp(p)
      BY <3>1, <3>2, <1>a DEF RenameTemp, Move, Types
    <3>3. CASE Fail(p)
      BY <3>1, <3>3, <1>a DEF Fail, Types
    <3>4. CASE Kill(p)
      BY <3>4 DEF Kill, files
    <3> QED
      BY <1>12, <3>2, <3>3, <3>4
  <2>4. p \in Appending => BatchAt(p)'
    <3> SUFFICES ASSUME p \in Appending PROVE BatchAt(p)'
      OBVIOUS
    <3>1. said[p] = "" /\ said'[p] \in {"IO", ""}
      <4>1. said[p] = ""
        BY <2>1, <1>a DEF StandInv, StandAt
      <4>2. ~RenameTemp(p)
        BY <2>2, <1>d DEF RenameTemp, Move
      <4> QED
        BY <1>12, <4>1, <4>2, <1>a DEF Fail, Kill, Answer, Types
    <3>2. dir'[Name(Out(p))] = dir[Name(Out(p))]
      BY <2>3, <1>b
    <3> QED
      BY <3>1, <3>2, <2>1, <1>b, <1>e DEF BatchAt
  <2> QED
    BY <1>5, <2>1, <2>3, <2>4
<1> QED
  BY <1>2, <1>3, <1>4, <1>6, <1>7, <1>8, <1>9, <1>10, <1>11, <1>12 DEF Next, Step

\* What a writer of records left in its file is its first records in their order, whoever
\* appends between two of its calls: all of them when it answered OK, none when it
\* refused its input (append_line, run_batch).
THEOREM BatchesInOrder == Spec => []BatchInOrder
<1>1. ASSUME BatchInv, NEW p \in Procs, Format(p) = "jsonl"
      PROVE  LET content == IF fd[p] = None THEN <<>> ELSE data[fd[p]]
                 own == RecordsOf(p, content)
                 rank(i) == Cardinality({j \in own : j <= i})
             IN  /\ \A i \in own : rank(i) \in DOMAIN Lines(p) /\ content[i] = <<p, Lines(p)[rank(i)]>>
                 /\ said[p] = "OK" => Cardinality(own) = Len(Lines(p)) /\ fd[p] = dir[Name(Out(p))]
                 /\ said[p] = "FAIL" => own = {}
  <2>1. BatchAt(p) /\ Lines(p) \in Seq(STRING) /\ Len(Lines(p)) \in Nat /\ DOMAIN Lines(p) = 1 .. Len(Lines(p))
    BY <1>1, Formats DEF BatchInv, Appending
  <2>2. CASE fd[p] = None
    <3>1. RecordsOf(p, <<>>) = {} /\ said[p] # "OK"
      BY <2>1, <2>2 DEF RecordsOf, BatchAt
    <3> QED
      BY <2>2, <3>1
  <2>3. CASE fd[p] # None
    <3> DEFINE n == (calls[p] + 1) \div 2
               own == RecordsOf(p, data[Out(p)])
    <3>1. /\ calls[p] \in 0 .. 2 * Len(Lines(p)) /\ fd[p] = Out(p) /\ dir[Name(Out(p))] = Out(p)
          /\ Cardinality(own) = n /\ said[p] # "FAIL"
          /\ \A i \in own : Rank(own, i) \in 1 .. n /\ data[Out(p)][i] = <<p, Lines(p)[Rank(own, i)]>>
          /\ said[p] = "OK" => calls[p] = 2 * Len(Lines(p))
      BY <2>1, <2>3 DEF BatchAt, InOrder
    <3>2. n \in Nat /\ n <= Len(Lines(p)) /\ (said[p] = "OK" => n = Len(Lines(p)))
      BY <2>1, <3>1
    <3> HIDE DEF n, own
    <3>3. \A i \in own : Rank(own, i) \in DOMAIN Lines(p)
      <4>1. ASSUME NEW m \in Nat, NEW k \in Nat, k <= m PROVE 1 .. k \subseteq 1 .. m
        BY <4>1
      <4>2. 1 .. n \subseteq DOMAIN Lines(p)
        BY <2>1, <3>2, <4>1
      <4> QED
        BY <3>1, <4>2
    <3> QED
      BY <2>3, <3>1, <3>2, <3>3 DEF Rank, own
  <2> QED
    BY <2>2, <2>3
<1>2. BatchInv => BatchInOrder
  BY <1>1 DEF BatchInOrder
<1> QED
  BY <1>2, InitBatch, BatchInvStep, PTL DEF Spec

-----------------------------------------------------------------------------
(* The gates: least elements and induction over the natural numbers        *)

LEMMA LeastNumber ==
  ASSUME NEW T \in SUBSET Nat, T # {}
  PROVE  \E x \in T : \A y \in T : x <= y
<1>1. \E x \in T : \A y \in T : ~(<<y, x>> \in OpToRel(<, Nat))
  BY NatLessThanWellFounded, WFMin
<1>2. ASSUME NEW x \in T, NEW y \in T, ~(<<y, x>> \in OpToRel(<, Nat))
      PROVE  x <= y
  BY <1>2 DEF OpToRel
<1> QED BY <1>1, <1>2

\* A set of numbers that has 0 and with every number the next has them all.
LEMMA AllNumbers ==
  ASSUME NEW T, 0 \in T, \A n \in Nat : n \in T => n + 1 \in T
  PROVE  Nat \subseteq T
<1> DEFINE U == Nat \ T
<1>1. SUFFICES ASSUME U # {} PROVE FALSE OBVIOUS
<1>2. PICK k \in U : \A y \in U : k <= y
  <2> U \in SUBSET Nat OBVIOUS
  <2> HIDE DEF U
  <2> QED BY <1>1, LeastNumber
<1>3. k \in Nat /\ k \notin T OBVIOUS
<1>4. k # 0 BY <1>3
<1>5. k - 1 \in Nat /\ (k - 1) + 1 = k /\ ~(k <= k - 1) BY <1>3, <1>4
<1>6. k - 1 \notin U BY <1>2, <1>5
<1>7. k - 1 \in T BY <1>5, <1>6
<1> QED BY <1>3, <1>5, <1>7

-----------------------------------------------------------------------------
(* The defaults of a raw definition *)

SettledBy(schema, entry, given) ==
  IF matches_if_clause(entry.if, given)
  THEN \A p \in DOMAIN entry.then \cap DOMAIN given : \A f \in entry.then[p] :
         resolve_default(schema, p, f) # Absent => f \in DOMAIN given[p]
  ELSE \A p \in DOMAIN entry.else \cap DOMAIN given :
         entry.else[p] \cap DOMAIN given[p] = {}

\* The fields an entry decides over are those its two lists name.
LEMMA WrittenThen ==
  ASSUME NEW e, NEW p \in DOMAIN e.then, NEW f \in e.then[p]
  PROVE  <<p, f>> \in Writes(e)
<1> DEFINE At(q) == {<<q, g>> : g \in e.then[q]}
<1>1. <<p, f>> \in At(p) BY Zenon
<1>2. At(p) \in {At(q) : q \in DOMAIN e.then} BY Zenon
<1>3. <<p, f>> \in UNION {At(q) : q \in DOMAIN e.then} BY Zenon, <1>1, <1>2
<1> QED BY Zenon, <1>3 DEF Writes

LEMMA WrittenElse ==
  ASSUME NEW e, NEW p \in DOMAIN e.else, NEW f \in e.else[p]
  PROVE  <<p, f>> \in Writes(e)
<1> DEFINE At(q) == {<<q, g>> : g \in e.else[q]}
<1>1. <<p, f>> \in At(p) BY Zenon
<1>2. At(p) \in {At(q) : q \in DOMAIN e.else} BY Zenon
<1>3. <<p, f>> \in UNION {At(q) : q \in DOMAIN e.else} BY Zenon, <1>1, <1>2
<1> QED BY Zenon, <1>3 DEF Writes

\* One entry, on a definition: it has the places it had, and a field of one is
\* what it was, unless the entry fills it in or takes it out.
LEMMA EntryDone ==
  ASSUME NEW schema, NEW given, NEW e
  PROVE  LET done == process_all_of(schema, given, e)
         IN  /\ DOMAIN done = DOMAIN given
             /\ \A p \in DOMAIN given : \A f \in DOMAIN given[p] :
                   \/ f \in DOMAIN done[p] /\ done[p][f] = given[p][f]
                   \/ /\ f \notin DOMAIN done[p]
                      /\ ~matches_if_clause(e.if, given)
                      /\ p \in DOMAIN e.else /\ f \in e.else[p]
             /\ \A p \in DOMAIN given : \A f \in DOMAIN done[p] :
                   f \notin DOMAIN given[p] =>
                     /\ matches_if_clause(e.if, given)
                     /\ p \in DOMAIN e.then /\ f \in e.then[p]
             /\ matches_if_clause(e.if, given) =>
                  \A p \in DOMAIN e.then \cap DOMAIN given : \A f \in e.then[p] :
                    resolve_default(schema, p, f) # Absent => f \in DOMAIN done[p]
             /\ ~matches_if_clause(e.if, given) =>
                  \A p \in DOMAIN e.else \cap DOMAIN given :
                    e.else[p] \cap DOMAIN done[p] = {}
<1> DEFINE done == process_all_of(schema, given, e)
           padded(p) == inject_required_defaults(schema, p, e.then[p], given[p])
<1>1. CASE matches_if_clause(e.if, given)
  <2>1. done = [p \in DOMAIN given |-> IF p \in DOMAIN e.then THEN padded(p) ELSE given[p]]
    BY <1>1 DEF process_all_of, apply_then
  <2>2. \A p : /\ \A f : f \in DOMAIN padded(p) <=>
                            f \in DOMAIN given[p]
                              \/ (f \in e.then[p] /\ resolve_default(schema, p, f) # Absent)
               /\ \A f \in DOMAIN given[p] : padded(p)[f] = given[p][f]
    BY DEF inject_required_defaults
  <2> HIDE DEF done, padded
  <2>3. \A p \in DOMAIN given : IF p \in DOMAIN e.then THEN done[p] = padded(p) ELSE done[p] = given[p]
    BY <2>1
  <2>4. DOMAIN done = DOMAIN given BY <2>1
  <2>5. ASSUME NEW p \in DOMAIN given, NEW f \in DOMAIN given[p]
        PROVE  f \in DOMAIN done[p] /\ done[p][f] = given[p][f]
    BY <2>2, <2>3
  <2>6. ASSUME NEW p \in DOMAIN given, NEW f \in DOMAIN done[p], f \notin DOMAIN given[p]
        PROVE  p \in DOMAIN e.then /\ f \in e.then[p]
    BY <2>2, <2>3, <2>6
  <2>7. ASSUME NEW p \in DOMAIN e.then \cap DOMAIN given, NEW f \in e.then[p],
               resolve_default(schema, p, f) # Absent
        PROVE  f \in DOMAIN done[p]
    BY <2>2, <2>3, <2>7
  <2> QED BY <1>1, <2>4, <2>5, <2>6, <2>7 DEF done
<1>2. CASE ~matches_if_clause(e.if, given)
  <2>1. done = [p \in DOMAIN given |->
                  IF p \in DOMAIN e.else
                  THEN [f \in DOMAIN given[p] \ e.else[p] |-> given[p][f]] ELSE given[p]]
    BY <1>2 DEF process_all_of, apply_else_strip
  <2> HIDE DEF done
  <2>3. \A p \in DOMAIN given :
          IF p \in DOMAIN e.else
          THEN /\ DOMAIN done[p] = DOMAIN given[p] \ e.else[p]
               /\ \A f \in DOMAIN given[p] \ e.else[p] : done[p][f] = given[p][f]
          ELSE done[p] = given[p]
    BY <2>1
  <2>4. DOMAIN done = DOMAIN given BY <2>1
  <2>5. ASSUME NEW p \in DOMAIN given, NEW f \in DOMAIN given[p]
        PROVE  \/ f \in DOMAIN done[p] /\ done[p][f] = given[p][f]
               \/ f \notin DOMAIN done[p] /\ p \in DOMAIN e.else /\ f \in e.else[p]
    BY <2>3
  <2>6. ASSUME NEW p \in DOMAIN given, NEW f \in DOMAIN done[p]
        PROVE  f \in DOMAIN given[p]
    BY <2>3
  <2>7. ASSUME NEW p \in DOMAIN e.else \cap DOMAIN given
        PROVE  e.else[p] \cap DOMAIN done[p] = {}
    BY <2>3
  <2> QED BY <1>2, <2>4, <2>5, <2>6, <2>7 DEF done
<1> QED BY <1>1, <1>2 DEF done

\* An entry whose condition reads nothing that another decides over finds what it
\* would have found before it.
LEMMA ConditionKept ==
  ASSUME NEW schema, NEW given, NEW e, NEW c,
         Reads(c) \cap Writes(e) = {}
  PROVE  matches_if_clause(c.if, process_all_of(schema, given, e)) = matches_if_clause(c.if, given)
<1> DEFINE done == process_all_of(schema, given, e)
           at == Head(c.if).at
           needs == Head(c.if).needs
           Met(d) == at \in DOMAIN d /\ \A f \in DOMAIN needs : f \in DOMAIN d[at] /\ d[at][f] \in needs[f]
<1>1. \A d : matches_if_clause(c.if, d) = Met(d)
  BY DEF matches_if_clause, matches_flat_condition
<1>2. DOMAIN done = DOMAIN given BY EntryDone
<1>3. ASSUME at \in DOMAIN given, NEW f \in DOMAIN needs
      PROVE  (f \in DOMAIN done[at]) = (f \in DOMAIN given[at])
             /\ (f \in DOMAIN given[at] => done[at][f] = given[at][f])
  <2>1. <<at, f>> \in Reads(c) BY Zenon DEF Reads
  <2>2. <<at, f>> \notin Writes(e) BY <2>1
  <2>3. ~(at \in DOMAIN e.then /\ f \in e.then[at]) BY <2>2, WrittenThen
  <2>4. ~(at \in DOMAIN e.else /\ f \in e.else[at]) BY <2>2, WrittenElse
  <2> HIDE DEF at, needs
  <2> QED BY <1>3, <2>3, <2>4, EntryDone
<1> HIDE DEF at, needs, done
<1>4. Met(done) = Met(given) BY <1>2, <1>3
<1> QED BY <1>1, <1>4 DEF done

\* An entry does not change whether it applies: what it fills in was missing, and
\* what it takes out can only break a condition.
LEMMA OwnConditionKept ==
  ASSUME NEW schema, NEW given, NEW e
  PROVE  matches_if_clause(e.if, process_all_of(schema, given, e)) = matches_if_clause(e.if, given)
<1> DEFINE done == process_all_of(schema, given, e)
           at == Head(e.if).at
           needs == Head(e.if).needs
           Met(d) == at \in DOMAIN d /\ \A f \in DOMAIN needs : f \in DOMAIN d[at] /\ d[at][f] \in needs[f]
<1>1. \A d : matches_if_clause(e.if, d) = Met(d)
  BY DEF matches_if_clause, matches_flat_condition
<1>2. DOMAIN done = DOMAIN given BY EntryDone
<1>3. ASSUME at \in DOMAIN given, NEW f \in DOMAIN given[at]
      PROVE  \/ f \in DOMAIN done[at] /\ done[at][f] = given[at][f]
             \/ f \notin DOMAIN done[at] /\ ~matches_if_clause(e.if, given)
  BY <1>3, EntryDone
<1>4. ASSUME at \in DOMAIN given, NEW f \in DOMAIN done[at], f \notin DOMAIN given[at]
      PROVE  matches_if_clause(e.if, given)
  BY <1>4, EntryDone
<1> HIDE DEF at, needs, done
<1>5. CASE matches_if_clause(e.if, given)
  <2>1. Met(given) BY <1>1, <1>5
  <2>2. Met(done) BY <2>1, <1>2, <1>3, <1>5
  <2> QED BY <1>1, <1>5, <2>2 DEF done
<1>6. CASE ~matches_if_clause(e.if, given)
  <2>1. ~Met(given) BY <1>1, <1>6
  <2>2. ~Met(done) BY <2>1, <1>2, <1>3, <1>4, <1>6
  <2> QED BY <1>1, <1>6, <2>2 DEF done
<1> QED BY <1>5, <1>6

LEMMA EntrySettles ==
  ASSUME NEW schema, NEW given, NEW e
  PROVE  SettledBy(schema, e, process_all_of(schema, given, e))
<1> DEFINE done == process_all_of(schema, given, e)
<1>1. matches_if_clause(e.if, done) = matches_if_clause(e.if, given) BY OwnConditionKept
<1>2. DOMAIN done = DOMAIN given BY EntryDone
<1>3. ASSUME matches_if_clause(e.if, given), NEW p \in DOMAIN e.then \cap DOMAIN given, NEW f \in e.then[p],
             resolve_default(schema, p, f) # Absent
      PROVE  f \in DOMAIN done[p]
  BY <1>3, EntryDone
<1>4. ASSUME ~matches_if_clause(e.if, given), NEW p \in DOMAIN e.else \cap DOMAIN given
      PROVE  e.else[p] \cap DOMAIN done[p] = {}
  BY <1>4, EntryDone
<1> HIDE DEF done
<1>5. SettledBy(schema, e, done) BY <1>1, <1>2, <1>3, <1>4 DEF SettledBy
<1> QED BY <1>5 DEF done

\* What another entry settled, an entry leaves as it is.
LEMMA SettledStays ==
  ASSUME NEW schema, NEW given, NEW e, NEW c, SettledBy(schema, c, given),
         Reads(c) \cap Writes(e) = {}, Writes(c) \cap Writes(e) = {}
  PROVE  SettledBy(schema, c, process_all_of(schema, given, e))
<1> DEFINE done == process_all_of(schema, given, e)
<1>1. matches_if_clause(c.if, done) = matches_if_clause(c.if, given) BY ConditionKept
<1>2. DOMAIN done = DOMAIN given BY EntryDone
<1>3. ASSUME matches_if_clause(c.if, given), NEW p \in DOMAIN c.then \cap DOMAIN given, NEW f \in c.then[p],
             resolve_default(schema, p, f) # Absent
      PROVE  f \in DOMAIN done[p]
  <2>1. f \in DOMAIN given[p] BY <1>3 DEF SettledBy
  <2>2. <<p, f>> \in Writes(c) BY WrittenThen
  <2>3. ~(p \in DOMAIN e.else /\ f \in e.else[p]) BY <2>2, WrittenElse
  <2> QED BY <2>1, <2>3, EntryDone
<1>4. ASSUME ~matches_if_clause(c.if, given), NEW p \in DOMAIN c.else \cap DOMAIN given
      PROVE  c.else[p] \cap DOMAIN done[p] = {}
  <2>1. SUFFICES ASSUME NEW f \in c.else[p], f \in DOMAIN done[p] PROVE FALSE OBVIOUS
  <2>2. f \notin DOMAIN given[p] BY <1>4 DEF SettledBy
  <2>3. <<p, f>> \in Writes(c) BY WrittenElse
  <2>4. ~(p \in DOMAIN e.then /\ f \in e.then[p]) BY <2>3, WrittenThen
  <2> QED BY <2>1, <2>2, <2>4, EntryDone
<1> HIDE DEF done
<1>5. SettledBy(schema, c, done) BY <1>1, <1>2, <1>3, <1>4 DEF SettledBy
<1> QED BY <1>5 DEF done

-----------------------------------------------------------------------------
(* Sequences put together *)

FlatOf(g, s, m) == g = [i \in 1..m |-> IF i = 1 THEN s[i] ELSE g[i - 1] \o s[i]]

LEMMA FlatExists ==
  ASSUME NEW s
  PROVE  \A m \in Nat : \E g : FlatOf(g, s, m)
<1> DEFINE T == {m \in Nat : \E g : FlatOf(g, s, m)}
<1>1. 0 \in T
  <2> DEFINE g == [i \in 1..0 |-> s]
  <2>1. 1..0 = {} OBVIOUS
  <2>2. g = [i \in 1..0 |-> IF i = 1 THEN s[i] ELSE g[i - 1] \o s[i]] BY <2>1
  <2> HIDE DEF g
  <2>3. FlatOf(g, s, 0) BY <2>2 DEF FlatOf
  <2> QED BY <2>3
<1>2. ASSUME NEW m \in Nat, m \in T PROVE m + 1 \in T
  <2>1. PICK g : FlatOf(g, s, m) BY <1>2
  <2>2. g = [i \in 1..m |-> IF i = 1 THEN s[i] ELSE g[i - 1] \o s[i]] BY <2>1 DEF FlatOf
  <2> DEFINE last == IF m + 1 = 1 THEN s[m + 1] ELSE g[m] \o s[m + 1]
             h == [i \in 1..m + 1 |-> IF i <= m THEN g[i] ELSE last]
  <2>3. \A i \in 1..m : g[i] = IF i = 1 THEN s[i] ELSE g[i - 1] \o s[i] BY <2>2
  <2> HIDE DEF last
  <2>4. ASSUME NEW i \in 1..m + 1
        PROVE  h[i] = IF i = 1 THEN s[i] ELSE h[i - 1] \o s[i]
    <3>1. CASE i <= m
      <4>1. i \in 1..m BY <3>1
      <4>2. h[i] = g[i] BY <4>1
      <4>3. i # 1 => i - 1 \in 1..m BY <4>1
      <4>4. i # 1 => h[i - 1] = g[i - 1] BY <4>3
      <4> HIDE DEF h
      <4> QED BY <4>1, <4>2, <4>4, <2>3
    <3>2. CASE ~(i <= m)
      <4>1. i = m + 1 BY <3>2
      <4>2. h[i] = last BY <4>1
      <4>3. i # 1 => m \in 1..m + 1 /\ m <= m /\ i - 1 = m BY <4>1
      <4>4. i # 1 => h[i - 1] = g[m] BY <4>3
      <4> HIDE DEF h
      <4> QED BY <4>1, <4>2, <4>4 DEF last
    <3> QED BY <3>1, <3>2
  <2>5. DOMAIN h = 1..m + 1 /\ h = [i \in 1..m + 1 |-> h[i]] OBVIOUS
  <2> HIDE DEF h
  <2>6. h = [i \in 1..m + 1 |-> IF i = 1 THEN s[i] ELSE h[i - 1] \o s[i]] BY <2>4, <2>5
  <2>7. FlatOf(h, s, m + 1) BY <2>6 DEF FlatOf
  <2>8. m + 1 \in Nat OBVIOUS
  <2> QED BY <2>7, <2>8
<1> HIDE DEF T
<1>3. Nat \subseteq T BY <1>1, <1>2, AllNumbers
<1> QED BY <1>3 DEF T

Agree(s, t, m) == \A i \in 1..m : s[i] = t[i]

\* The first m of a longer one are those of s, if the first m elements are.
LEMMA FlatUnique ==
  ASSUME NEW s, NEW t, NEW m \in Nat, NEW n \in Nat, m <= n, Agree(s, t, m),
         NEW g, FlatOf(g, s, m), NEW h, FlatOf(h, t, n)
  PROVE  Agree(g, h, m)
<1> USE DEF Agree
<1>1. \A i \in 1..m : g[i] = IF i = 1 THEN s[i] ELSE g[i - 1] \o s[i]
  <2>1. g = [i \in 1..m |-> IF i = 1 THEN s[i] ELSE g[i - 1] \o s[i]] BY DEF FlatOf
  <2> QED BY <2>1
<1>2. \A i \in 1..n : h[i] = IF i = 1 THEN t[i] ELSE h[i - 1] \o t[i]
  <2>1. h = [i \in 1..n |-> IF i = 1 THEN t[i] ELSE h[i - 1] \o t[i]] BY DEF FlatOf
  <2> QED BY <2>1
<1> DEFINE U == {i \in 1..m : g[i] # h[i]}
<1>3. SUFFICES ASSUME U # {} PROVE FALSE OBVIOUS
<1>4. U \in SUBSET Nat OBVIOUS
<1>5. PICK k \in U : \A y \in U : k <= y
  <2> HIDE DEF U
  <2> QED BY <1>3, <1>4, LeastNumber
<1>6. k \in 1..m /\ k \in 1..n /\ g[k] # h[k] /\ s[k] = t[k] BY <1>5
<1>7. k # 1 BY <1>1, <1>2, <1>6
<1>8. k - 1 \in 1..m /\ ~(k <= k - 1) BY <1>6, <1>7
<1>9. g[k - 1] = h[k - 1]
  <2>1. k - 1 \notin U BY <1>5, <1>8
  <2> QED BY <2>1, <1>8
<1> QED BY <1>1, <1>2, <1>6, <1>7, <1>9

LEMMA FlattenEmpty == FlattenSeq(<<>>) = <<>>
<1>1. Len(<<>>) = 0 OBVIOUS
<1> QED BY <1>1 DEF FlattenSeq

LEMMA FlattenOf ==
  ASSUME NEW s, Len(s) \in Nat, Len(s) # 0
  PROVE  \E g : FlatOf(g, s, Len(s)) /\ FlattenSeq(s) = g[Len(s)]
<1> DEFINE g == CHOOSE g : FlatOf(g, s, Len(s))
<1>1. FlatOf(g, s, Len(s))
  <2>1. \E h : FlatOf(h, s, Len(s)) BY FlatExists
  <2> QED BY <2>1
<1>2. FlattenSeq(s) = g[Len(s)] BY DEF FlattenSeq, FlatOf
<1> HIDE DEF g
<1> QED BY <1>1, <1>2

LEMMA FlattenAppend ==
  ASSUME NEW T, NEW s \in Seq(Seq(T)), NEW x \in Seq(T)
  PROVE  FlattenSeq(Append(s, x)) = FlattenSeq(s) \o x
<1> DEFINE t == Append(s, x)
           k == Len(s)
<1>1. /\ k \in Nat /\ Len(t) = k + 1 /\ t[k + 1] = x
      /\ \A i \in 1..k : t[i] = s[i]
  BY AppendProperties, LenProperties
<1> HIDE DEF t
<1>2. PICK h : FlatOf(h, t, k + 1) /\ FlattenSeq(t) = h[k + 1]
  <2>1. Len(t) \in Nat /\ Len(t) # 0 BY <1>1
  <2>2. PICK h : FlatOf(h, t, Len(t)) /\ FlattenSeq(t) = h[Len(t)] BY <2>1, FlattenOf
  <2> QED BY <2>2, <1>1
<1>3. h[k + 1] = IF k + 1 = 1 THEN t[k + 1] ELSE h[k] \o t[k + 1]
  <2>1. h = [i \in 1..k + 1 |-> IF i = 1 THEN t[i] ELSE h[i - 1] \o t[i]] BY <1>2 DEF FlatOf
  <2>2. k + 1 \in 1..k + 1 /\ (k + 1) - 1 = k BY <1>1
  <2>3. h[k + 1] = IF k + 1 = 1 THEN t[k + 1] ELSE h[(k + 1) - 1] \o t[k + 1]
    BY <2>1, <2>2
  <2> QED BY <2>2, <2>3
<1>4. CASE k = 0
  <2>1. s = <<>> BY <1>4
  <2>2. FlattenSeq(s) = <<>> BY <2>1, FlattenEmpty
  <2>3. <<>> \o x = x OBVIOUS
  <2> QED BY <2>2, <2>3, <1>1, <1>2, <1>3, <1>4 DEF t
<1>5. CASE k # 0
  <2>1. PICK g : FlatOf(g, s, k) /\ FlattenSeq(s) = g[k] BY <1>1, <1>5, FlattenOf
  <2>2. k \in 1..k /\ k <= k + 1 /\ k + 1 \in Nat BY <1>1, <1>5
  <2>3. g[k] = h[k]
    <3> DEFINE n == k + 1
    <3>1. k \in Nat /\ n \in Nat /\ k <= n BY <1>1
    <3>2. FlatOf(g, s, k) BY <2>1
    <3>3. FlatOf(h, t, n) BY <1>2
    <3>4. Agree(s, t, k) BY <1>1 DEF Agree
    <3> HIDE DEF k, n
    <3>5. Agree(g, h, k) BY <3>1, <3>2, <3>3, <3>4, FlatUnique
    <3> QED BY <3>5, <2>2 DEF Agree
  <2> QED BY <2>1, <2>3, <1>1, <1>2, <1>3, <1>5 DEF t
<1> QED BY <1>4, <1>5

LEMMA FlattenIsSeq ==
  ASSUME NEW T
  PROVE  \A s \in Seq(Seq(T)) : FlattenSeq(s) \in Seq(T)
<1> DEFINE U == {n \in Nat : \A s \in Seq(Seq(T)) : Len(s) = n => FlattenSeq(s) \in Seq(T)}
<1>1. 0 \in U
  <2>1. ASSUME NEW s \in Seq(Seq(T)), Len(s) = 0 PROVE FlattenSeq(s) \in Seq(T)
    <3>1. s = <<>> BY <2>1
    <3>2. FlattenSeq(s) = <<>> BY <3>1, FlattenEmpty
    <3> QED BY <3>2
  <2> QED BY <2>1
<1>2. ASSUME NEW n \in Nat, n \in U PROVE n + 1 \in U
  <2>1. ASSUME NEW s \in Seq(Seq(T)), Len(s) = n + 1 PROVE FlattenSeq(s) \in Seq(T)
    <3>1. s # <<>> BY <2>1
    <3>2. PICK t \in Seq(Seq(T)), x \in Seq(T) : s = Append(t, x) BY <3>1, SequenceEmptyOrAppend
    <3>3. Len(t) = n BY <2>1, <3>2, AppendProperties, LenProperties
    <3>4. FlattenSeq(t) \in Seq(T) BY <1>2, <3>3
    <3>5. FlattenSeq(s) = FlattenSeq(t) \o x BY <3>2, FlattenAppend
    <3> QED BY <3>4, <3>5, ConcatProperties
  <2>2. n + 1 \in Nat OBVIOUS
  <2> QED BY <2>1, <2>2
<1> HIDE DEF U
<1>3. Nat \subseteq U BY <1>1, <1>2, AllNumbers
<1>4. ASSUME NEW s \in Seq(Seq(T)) PROVE FlattenSeq(s) \in Seq(T)
  <2>1. Len(s) \in U BY <1>3, LenProperties
  <2> QED BY <2>1 DEF U
<1> QED BY <1>4

-----------------------------------------------------------------------------
(* One pass over the entries of a schema *)

PassOf(g, schema, given, m) ==
  g = [n \in 0..m |->
         IF n = 0 THEN apply_unconditional_defaults(schema, given)
         ELSE process_all_of(schema, g[n - 1], walk_properties_for_all_of(schema)[n])]

LEMMA PassExists ==
  ASSUME NEW schema, NEW given
  PROVE  \A m \in Nat : \E g : PassOf(g, schema, given, m)
<1> DEFINE T == {m \in Nat : \E g : PassOf(g, schema, given, m)}
           first == apply_unconditional_defaults(schema, given)
           one(d, n) == process_all_of(schema, d, walk_properties_for_all_of(schema)[n])
<1>1. \A g, m : PassOf(g, schema, given, m) <=>
                  g = [n \in 0..m |-> IF n = 0 THEN first ELSE one(g[n - 1], n)]
  BY DEF PassOf
<1> HIDE DEF first, one
<1>2. 0 \in T
  <2> DEFINE g == [n \in 0..0 |-> first]
  <2>1. \A n \in 0..0 : n = 0 OBVIOUS
  <2>2. g = [n \in 0..0 |-> IF n = 0 THEN first ELSE one(g[n - 1], n)] BY <2>1
  <2> HIDE DEF g
  <2>3. PassOf(g, schema, given, 0) BY <2>2, <1>1
  <2> QED BY <2>3
<1>3. ASSUME NEW m \in Nat, m \in T PROVE m + 1 \in T
  <2>1. PICK g : PassOf(g, schema, given, m) BY <1>3
  <2>2. g = [n \in 0..m |-> IF n = 0 THEN first ELSE one(g[n - 1], n)] BY <2>1, <1>1
  <2> DEFINE h == [n \in 0..m + 1 |-> IF n <= m THEN g[n] ELSE one(g[m], n)]
  <2>3. \A n \in 0..m : g[n] = IF n = 0 THEN first ELSE one(g[n - 1], n) BY <2>2
  <2>4. ASSUME NEW n \in 0..m + 1
        PROVE  h[n] = IF n = 0 THEN first ELSE one(h[n - 1], n)
    <3>1. CASE n <= m
      <4>1. n \in 0..m BY <3>1
      <4>2. h[n] = g[n] BY <4>1
      <4>3. n # 0 => n - 1 \in 0..m BY <4>1
      <4>4. n # 0 => h[n - 1] = g[n - 1] BY <4>3
      <4> HIDE DEF h
      <4> QED BY <4>1, <4>2, <4>4, <2>3
    <3>2. CASE ~(n <= m)
      <4>1. n = m + 1 /\ n # 0 BY <3>2
      <4>2. h[n] = one(g[m], n) BY <4>1
      <4>3. n - 1 \in 0..m + 1 /\ n - 1 <= m /\ n - 1 = m BY <4>1
      <4>4. h[n - 1] = g[m] BY <4>3
      <4> HIDE DEF h
      <4> QED BY <4>1, <4>2, <4>4
    <3> QED BY <3>1, <3>2
  <2>5. DOMAIN h = 0..m + 1 /\ h = [n \in 0..m + 1 |-> h[n]] OBVIOUS
  <2> HIDE DEF h
  <2>6. h = [n \in 0..m + 1 |-> IF n = 0 THEN first ELSE one(h[n - 1], n)] BY <2>4, <2>5
  <2>7. PassOf(h, schema, given, m + 1) BY <2>6, <1>1
  <2> QED BY <2>7
<1> HIDE DEF T
<1>4. Nat \subseteq T BY <1>2, <1>3, AllNumbers
<1> QED BY <1>4 DEF T

\* What the entries up to n have settled, and what has become of the data.
Through(schema, given, now, n) ==
  LET entries == walk_properties_for_all_of(schema)
  IN  /\ DOMAIN now = DOMAIN given
      /\ \A i \in 1..n : SettledBy(schema, entries[i], now)
      /\ \A p \in DOMAIN given : \A f \in DOMAIN given[p] :
            \/ f \in DOMAIN now[p] /\ now[p][f] = given[p][f]
            \/ /\ f \notin DOMAIN now[p]
               /\ \E i \in 1..n : /\ p \in DOMAIN entries[i].else /\ f \in entries[i].else[p]
                                  /\ ~matches_if_clause(entries[i].if, now)

LEMMA ThroughUnconditional ==
  ASSUME NEW schema, NEW given
  PROVE  Through(schema, given, apply_unconditional_defaults(schema, given), 0)
<1> DEFINE now == apply_unconditional_defaults(schema, given)
<1>1. DOMAIN now = DOMAIN given BY DEF apply_unconditional_defaults
<1>2. ASSUME NEW p \in DOMAIN given, NEW f \in DOMAIN given[p]
      PROVE  f \in DOMAIN now[p] /\ now[p][f] = given[p][f]
  BY DEF apply_unconditional_defaults, inject_required_defaults
<1>3. 1..0 = {} OBVIOUS
<1> HIDE DEF now
<1>4. Through(schema, given, now, 0) BY <1>1, <1>2, <1>3 DEF Through
<1> QED BY <1>4 DEF now

LEMMA ThroughEntry ==
  ASSUME NEW schema, NEW given, NEW now, NEW n \in Nat, Through(schema, given, now, n),
         OnePass(schema), n + 1 \in DOMAIN walk_properties_for_all_of(schema),
         1..n + 1 \subseteq DOMAIN walk_properties_for_all_of(schema)
  PROVE  Through(schema, given,
                 process_all_of(schema, now, walk_properties_for_all_of(schema)[n + 1]), n + 1)
<1> DEFINE entries == walk_properties_for_all_of(schema)
           e == entries[n + 1]
           done == process_all_of(schema, now, e)
<1>1. \A i \in 1..n : /\ i \in DOMAIN entries /\ i < n + 1 /\ i # n + 1
                        /\ Reads(entries[i]) \cap Writes(e) = {}
                        /\ Writes(entries[i]) \cap Writes(e) = {}
  <2>1. \A i, j \in DOMAIN entries :
            /\ i < j => Reads(entries[i]) \cap Writes(entries[j]) = {}
            /\ i # j => Writes(entries[i]) \cap Writes(entries[j]) = {}
    BY DEF OnePass
  <2>2. \A i \in 1..n : i \in DOMAIN entries /\ i < n + 1 /\ i # n + 1 OBVIOUS
  <2> HIDE DEF entries
  <2> QED BY <2>1, <2>2 DEF entries
<1>2. /\ DOMAIN now = DOMAIN given
      /\ \A i \in 1..n : SettledBy(schema, entries[i], now)
      /\ \A p \in DOMAIN given : \A f \in DOMAIN given[p] :
            \/ f \in DOMAIN now[p] /\ now[p][f] = given[p][f]
            \/ /\ f \notin DOMAIN now[p]
               /\ \E i \in 1..n : /\ p \in DOMAIN entries[i].else /\ f \in entries[i].else[p]
                                  /\ ~matches_if_clause(entries[i].if, now)
  BY DEF Through
<1> HIDE DEF entries
<1>3. DOMAIN done = DOMAIN given BY <1>2, EntryDone
<1>4. ASSUME NEW i \in 1..n + 1 PROVE SettledBy(schema, entries[i], done)
  <2>1. CASE i = n + 1 BY <2>1, EntrySettles
  <2>2. CASE i \in 1..n BY <2>2, <1>1, <1>2, SettledStays
  <2> QED BY <2>1, <2>2
<1>5. ASSUME NEW p \in DOMAIN given, NEW f \in DOMAIN given[p]
      PROVE  \/ f \in DOMAIN done[p] /\ done[p][f] = given[p][f]
             \/ /\ f \notin DOMAIN done[p]
                /\ \E i \in 1..n + 1 : /\ p \in DOMAIN entries[i].else /\ f \in entries[i].else[p]
                                       /\ ~matches_if_clause(entries[i].if, done)
  <2>1. CASE f \in DOMAIN now[p] /\ now[p][f] = given[p][f]
    <3>1. CASE f \in DOMAIN done[p] /\ done[p][f] = now[p][f] BY <2>1, <3>1
    <3>2. CASE ~(f \in DOMAIN done[p] /\ done[p][f] = now[p][f])
      <4>1. /\ f \notin DOMAIN done[p] /\ ~matches_if_clause(e.if, now)
            /\ p \in DOMAIN e.else /\ f \in e.else[p]
        BY <2>1, <3>2, <1>2, EntryDone
      <4>2. ~matches_if_clause(e.if, done) BY <4>1, OwnConditionKept
      <4>3. n + 1 \in 1..n + 1 OBVIOUS
      <4> QED BY <4>1, <4>2, <4>3
    <3> QED BY <3>1, <3>2
  <2>2. CASE f \notin DOMAIN now[p]
    <3>1. PICK i \in 1..n : /\ p \in DOMAIN entries[i].else /\ f \in entries[i].else[p]
                            /\ ~matches_if_clause(entries[i].if, now)
      BY <2>2, <1>2
    <3>2. <<p, f>> \in Writes(entries[i]) BY <3>1, WrittenElse
    <3>3. <<p, f>> \notin Writes(e) BY <3>2, <1>1
    <3>4. ~(p \in DOMAIN e.then /\ f \in e.then[p]) BY <3>3, WrittenThen
    <3>5. f \notin DOMAIN done[p] BY <3>4, <2>2, <1>2, EntryDone
    <3>6. ~matches_if_clause(entries[i].if, done) BY <3>1, <1>1, ConditionKept
    <3>7. i \in 1..n + 1 OBVIOUS
    <3> QED BY <3>1, <3>5, <3>6, <3>7
  <2> QED BY <2>1, <2>2, <1>2
<1> HIDE DEF done
<1>6. Through(schema, given, done, n + 1)
  BY <1>3, <1>4, <1>5 DEF Through, entries
<1> QED BY <1>6 DEF done, e, entries

\* One pass is enough.  A definition that went through apply_conditional_defaults
\* satisfies every entry of its schema, if no entry depends on what a later one
\* decides and no two decide over one field; nothing its author wrote is changed,
\* and nothing taken out but what an entry forbids that applies to the result.
\* For any schema and any definition.
THEOREM DefaultsSettle ==
  ASSUME NEW schema, NEW given, NEW T, walk_properties_for_all_of(schema) \in Seq(T),
         OnePass(schema)
  PROVE  /\ Settled(schema, apply_conditional_defaults(schema, given))
         /\ Keeps(schema, given, apply_conditional_defaults(schema, given))
<1> DEFINE entries == walk_properties_for_all_of(schema)
           k == Len(entries)
           g == CHOOSE g : PassOf(g, schema, given, k)
<1>1. k \in Nat /\ DOMAIN entries = 1..k BY LenProperties
<1>2. PassOf(g, schema, given, k)
  <2>1. \E h : PassOf(h, schema, given, k) BY <1>1, PassExists
  <2> QED BY <2>1
<1>3. apply_conditional_defaults(schema, given) = g[k]
  BY DEF apply_conditional_defaults, PassOf
<1> HIDE DEF g, k
<1>4. \A n \in 0..k : g[n] = IF n = 0 THEN apply_unconditional_defaults(schema, given)
                               ELSE process_all_of(schema, g[n - 1], entries[n])
  <2>1. g = [n \in 0..k |-> IF n = 0 THEN apply_unconditional_defaults(schema, given)
                             ELSE process_all_of(schema, g[n - 1], entries[n])]
    BY <1>2 DEF PassOf
  <2> QED BY <2>1
<1> DEFINE U == {n \in Nat : n <= k => Through(schema, given, g[n], n)}
<1>5. 0 \in U
  <2>1. 0 \in 0..k BY <1>1
  <2>2. g[0] = apply_unconditional_defaults(schema, given) BY <2>1, <1>4
  <2> QED BY <2>2, ThroughUnconditional
<1>6. ASSUME NEW n \in Nat, n \in U PROVE n + 1 \in U
  <2>1. SUFFICES ASSUME n + 1 <= k PROVE Through(schema, given, g[n + 1], n + 1) OBVIOUS
  <2>2. n + 1 \in 0..k /\ n + 1 # 0 /\ (n + 1) - 1 = n /\ n <= k BY <2>1, <1>1
  <2>3. g[n + 1] = process_all_of(schema, g[n], entries[n + 1]) BY <2>2, <1>4
  <2>4. Through(schema, given, g[n], n) BY <1>6, <2>2
  <2>5. n + 1 \in DOMAIN entries /\ 1..n + 1 \subseteq DOMAIN entries BY <2>1, <1>1
  <2> HIDE DEF U
  <2> QED BY <2>3, <2>4, <2>5, ThroughEntry
<1>7. Through(schema, given, g[k], k)
  <2> HIDE DEF U
  <2>1. Nat \subseteq U BY <1>5, <1>6, AllNumbers
  <2>2. k \in U BY <2>1, <1>1
  <2> QED BY <2>2, <1>1 DEF U
<1> HIDE DEF U
<1> DEFINE final == g[k]
<1> HIDE DEF final
<1>8. Through(schema, given, final, k) BY <1>7 DEF final
<1>9. Settled(schema, final)
  <2>1. \A i \in DOMAIN entries : SettledBy(schema, entries[i], final) BY <1>1, <1>8 DEF Through
  <2>2. \A e \in Range(entries) : SettledBy(schema, e, final) BY <2>1 DEF Range
  <2> HIDE DEF entries
  <2>3. \A e \in Range(entries) :
          IF matches_if_clause(e.if, final)
          THEN \A p \in DOMAIN e.then \cap DOMAIN final : \A f \in e.then[p] :
                 resolve_default(schema, p, f) # Absent => f \in DOMAIN final[p]
          ELSE \A p \in DOMAIN e.else \cap DOMAIN final : e.else[p] \cap DOMAIN final[p] = {}
    BY <2>2 DEF SettledBy
  <2> QED BY <2>3 DEF Settled, entries
<1>10. Keeps(schema, given, final)
  <2>1. DOMAIN final = DOMAIN given BY <1>8 DEF Through
  <2>2. ASSUME NEW p \in DOMAIN given, NEW f \in DOMAIN given[p],
               ~(f \in DOMAIN final[p] /\ final[p][f] = given[p][f])
        PROVE  /\ f \notin DOMAIN final[p]
               /\ \E e \in Range(entries) :
                     /\ p \in DOMAIN e.else /\ f \in e.else[p] /\ ~matches_if_clause(e.if, final)
    <3>1. PICK i \in 1..k : /\ f \notin DOMAIN final[p]
                            /\ p \in DOMAIN entries[i].else /\ f \in entries[i].else[p]
                            /\ ~matches_if_clause(entries[i].if, final)
      BY <2>2, <1>8 DEF Through
    <3>2. entries[i] \in Range(entries) BY <1>1 DEF Range
    <3> QED BY <3>1, <3>2
  <2> QED BY <2>1, <2>2 DEF Keeps
<1> QED BY <1>3, <1>9, <1>10 DEF final

-----------------------------------------------------------------------------
(* The gates *)

\* No gate reads a file of a schema that accepts an empty table behind a gate
\* that may be killed between truncating that file and writing it.
Strict == \A s \in Stages : s.writer # Hand => s.reader.schema \notin Lenient

\* What a definition names is what its schema annotates as a path.
NamesAreAnnotated ==
  \A d \in Definitions : extract_path_fields(SchemaTree(d.schema), d.body) = d.names

\* Both gates of a stage name one schema, and the defaults are of the raw one.
OneSchema(s) ==
  /\ s.writer.pattern \in {"output", "passthrough", "defaults", "hand"}
  /\ s.writer = Hand <=> s.writer.pattern = "hand"
  /\ s.writer # Hand => s.writer.schema = s.reader.schema
  /\ s.writer.pattern = "defaults" => s.writer.schema = "RAW_DEFINITION"

LEMMA StageFacts == ASSUME NEW s \in Stages PROVE OneSchema(s)
<1>0. \A r : OneSchema(Stage(Hand, r, NoAnswer)) BY DEF OneSchema, Stage, Hand, Gate
<1>1. OneSchema(Stage(gate_raw_definition_defaults, gate_raw_definition_input, check_raw_definition))
  BY DEF OneSchema, Stage, Gate, Hand, gate_raw_definition_defaults, gate_raw_definition_input
<1>2. OneSchema(Stage(gate_paths_resolved_output, gate_paths_verified, check_paths_resolved))
  BY DEF OneSchema, Stage, Gate, Hand, gate_paths_resolved_output, gate_paths_verified
<1>3. OneSchema(Stage(gate_paths_verified, gate_paths_verified_input, check_paths_verified))
  BY DEF OneSchema, Stage, Gate, Hand, gate_paths_verified, gate_paths_verified_input
<1>4. OneSchema(Stage(gate_guardrails_reduced_output, gate_guardrails_reduced_input, NoAnswer))
  BY DEF OneSchema, Stage, Gate, Hand, gate_guardrails_reduced_output, gate_guardrails_reduced_input
<1>5. OneSchema(Stage(gate_success_reduced_output, gate_success_reduced_input, NoAnswer))
  BY DEF OneSchema, Stage, Gate, Hand, gate_success_reduced_output, gate_success_reduced_input
<1>6. OneSchema(Stage(gate_criteria_merged_output, gate_criteria_merged_input, NoAnswer))
  BY DEF OneSchema, Stage, Gate, Hand, gate_criteria_merged_output, gate_criteria_merged_input
<1>7. OneSchema(Stage(gate_instructions_reduced_output, gate_instructions_reduced_input, NoAnswer))
  BY DEF OneSchema, Stage, Gate, Hand, gate_instructions_reduced_output, gate_instructions_reduced_input
<1>8. OneSchema(Stage(gate_examples_reduced_output, gate_examples_reduced_input, NoAnswer))
  BY DEF OneSchema, Stage, Gate, Hand, gate_examples_reduced_output, gate_examples_reduced_input
<1>9. OneSchema(Stage(gate_execution_merged_output, gate_execution_merged_input, NoAnswer))
  BY DEF OneSchema, Stage, Gate, Hand, gate_execution_merged_output, gate_execution_merged_input
<1>10. OneSchema(Stage(gate_includes_merged_output, gate_includes_merged_input, check_includes_merged))
  BY DEF OneSchema, Stage, Gate, Hand, gate_includes_merged_output, gate_includes_merged_input
<1>11. OneSchema(Stage(gate_permissions_resolved_output, gate_permissions_resolved_input, check_permissions_resolved))
  BY DEF OneSchema, Stage, Gate, Hand, gate_permissions_resolved_output, gate_permissions_resolved_input
<1>12. OneSchema(Stage(gate_universal_format_output, gate_universal_format_input, check_universal_format))
  BY DEF OneSchema, Stage, Gate, Hand, gate_universal_format_output, gate_universal_format_input
<1>13. OneSchema(Stage(gate_universal_render_output, gate_universal_render_input, check_universal_render))
  BY DEF OneSchema, Stage, Gate, Hand, gate_universal_render_output, gate_universal_render_input
<1>14. OneSchema(Stage(gate_anthropic_render_output, gate_anthropic_render_input, check_anthropic_render))
  BY DEF OneSchema, Stage, Gate, Hand, gate_anthropic_render_output, gate_anthropic_render_input
<1> QED
  BY Zenon, <1>0, <1>1, <1>2, <1>3, <1>4, <1>5, <1>6, <1>7, <1>8,
    <1>9, <1>10, <1>11, <1>12, <1>13, <1>14 DEF Stages

LEMMA EntriesAreSeq ==
  \E T : walk_properties_for_all_of(RawSchema) \in Seq(T)
<1> DEFINE T == UNION {Range(RawSchema.allOf[p]) : p \in Range(Preorder)}
           lists == [i \in DOMAIN Preorder |-> RawSchema.allOf[Preorder[i]]]
<1>1. Preorder \in Seq(Range(Preorder)) BY SchemaAssumption DEF SchemaAssumption
<1>2. ASSUME NEW i \in DOMAIN Preorder PROVE RawSchema.allOf[Preorder[i]] \in Seq(T)
  <2>1. Preorder[i] \in Range(Preorder) BY DEF Range
  <2>2. RawSchema.allOf[Preorder[i]] \in Seq(Range(RawSchema.allOf[Preorder[i]]))
    BY <2>1, SchemaAssumption DEF SchemaAssumption
  <2>3. Range(RawSchema.allOf[Preorder[i]]) \subseteq T BY Zenon, <2>1
  <2> HIDE DEF T
  <2> QED BY <2>2, <2>3, SeqMonotonic
<1> HIDE DEF T
<1>3. lists \in Seq(Seq(T))
  <2>1. DOMAIN Preorder = 1..Len(Preorder) /\ Len(Preorder) \in Nat BY <1>1, LenProperties
  <2>2. lists \in [1..Len(Preorder) -> Seq(T)] BY <1>2, <2>1
  <2> HIDE DEF lists
  <2> QED BY <2>1, <2>2, SeqDef
<1>4. FlattenSeq(lists) \in Seq(T) BY <1>3, FlattenIsSeq
<1> QED BY <1>4 DEF walk_properties_for_all_of

\* The defaults change no field of a definition but its raw one.
LEMMA DefinitionFields ==
  ASSUME NEW d \in Definitions
  PROVE  /\ WithDefaults(d).schema = d.schema
         /\ WithDefaults(d).names = d.names
         /\ WithDefaults(d).body = d.body
         /\ WithDefaults(d).raw = apply_conditional_defaults(RawSchema, d.raw)
<1>1. d = [schema |-> d.schema, names |-> d.names, body |-> d.body,
           writable |-> d.writable, raw |-> d.raw]
  BY DefinitionsAssumption DEF DefinitionsAssumption
<1>2. WithDefaults(d) = [d EXCEPT !.raw = apply_conditional_defaults(RawSchema, d.raw)]
  BY DEF WithDefaults
<1> DEFINE new == apply_conditional_defaults(RawSchema, d.raw)
<1> HIDE DEF new
<1>3. [d EXCEPT !.raw = new] = [schema |-> d.schema, names |-> d.names, body |-> d.body,
                                writable |-> d.writable, raw |-> new]
  BY <1>1
<1> QED BY <1>2, <1>3 DEF new

\* For whatever a gate writes, its paths exist when the paths it names do.
LEMMA WrittenPaths ==
  ASSUME NamesAreAnnotated, NEW w \in Written, NEW there
  PROVE  verify_paths(SchemaTree(w.schema), w.body, there) <=> w.names \subseteq there
<1>1. PICK d \in Definitions : w.schema = d.schema /\ w.body = d.body /\ w.names = d.names
  BY DefinitionFields DEF Written
<1>2. extract_path_fields(SchemaTree(d.schema), d.body) = d.names BY DEF NamesAreAnnotated
<1> QED BY <1>1, <1>2 DEF verify_paths

\* A definition that the gate of the stage has let through.
LetThrough(w) ==
  /\ w \in Written
  /\ stage.writer # Hand
  /\ w.schema = stage.reader.schema
  /\ stage.writer.pattern = "defaults" => draft \in Definitions /\ w = WithDefaults(draft)

AnswersTrue ==
  /\ (answer # NoAnswer /\ answer.by = "gate") =>
        /\ answer.on \in Written
        /\ answer.on.schema = stage.reader.schema
        /\ stage.reader.verify => answer.on.names \subseteq answer.in
  /\ (answer # NoAnswer /\ answer.by = "check" /\ answer.on # NoAnswer) =>
        ((answer.code = 0) <=> read_and_validate(stage.check, answer.on, answer.in))

GatesInv ==
  /\ stage \in Stages
  /\ draft # NoFile => draft \in Definitions /\ draft.schema = stage.writer.schema
  /\ result \in Written \cup {NoFile, Torn}
  /\ result = Torn => stage.writer # Hand
  /\ writing # NoAnswer => told = NoAnswer /\ LetThrough(writing)
  /\ told # NoAnswer => result = told /\ LetThrough(told)
  /\ AnswersTrue

LEMMA GatesInvInit == GatesInit => GatesInv
BY KindsApart DEF KindsApart, GatesInit, GatesInv, AnswersTrue

LEMMA GatesInvStep ==
  ASSUME Strict, NamesAreAnnotated
  PROVE  GatesInv /\ [GatesNext]_gateVars => GatesInv'
<1> SUFFICES ASSUME GatesInv, [GatesNext]_gateVars PROVE GatesInv' OBVIOUS
<1> USE DEF GatesInv
<1>0. /\ KindsApart /\ stage' = stage /\ draft' = draft
  BY KindsApart DEF GatesNext, gateVars, Offer, WriteByHand, PassThrough, ApplyDefaults, OpenFile,
    FillFile, GiveUp, Read, RunCheck, MovePath
<1>s. /\ stage.writer.pattern \in {"output", "passthrough", "defaults", "hand"}
      /\ stage.writer = Hand <=> stage.writer.pattern = "hand"
      /\ stage.writer # Hand => stage.writer.schema = stage.reader.schema
      /\ stage.writer.pattern = "defaults" => stage.writer.schema = "RAW_DEFINITION"
  BY StageFacts DEF OneSchema
<1>l. \A w : LetThrough(w)' <=> LetThrough(w') BY <1>0 DEF LetThrough
<1>a. ASSUME answer' = answer PROVE AnswersTrue' BY <1>0, <1>a DEF AnswersTrue
<1>1. ASSUME NEW d \in Offered, Offer(d) PROVE GatesInv'
  <2>1. d \in Definitions /\ (validate_and_write(stage.writer, d, world) => d.schema = stage.writer.schema)
    <3>1. d \in Definitions BY DEF Offered
    <3>2. d # Torn BY <3>1, <1>0 DEF KindsApart, Written
    <3> QED BY <3>1, <3>2 DEF validate_and_write, Accepts
  <2>2. d \in Written BY <2>1 DEF Written
  <2>3. writing' # NoAnswer => LetThrough(writing')
    BY <1>1, <1>s, <2>1, <2>2 DEF Offer, LetThrough
  <2>4. told' = NoAnswer /\ result' = result /\ answer' = answer BY <1>1 DEF Offer
  <2> QED BY <1>0, <1>a, <1>l, <2>3, <2>4
<1>2. ASSUME NEW d \in Offered, WriteByHand(d) PROVE GatesInv'
  <2>1. d \in Written BY DEF Offered, Written
  <2>2. writing = NoAnswer /\ told = NoAnswer BY <1>2 DEF WriteByHand, LetThrough
  <2>3. d # Torn BY <2>1, <1>0 DEF KindsApart
  <2>4. result' = d /\ writing' = writing /\ told' = told /\ answer' = answer BY <1>2 DEF WriteByHand
  <2> QED BY <1>0, <1>a, <2>1, <2>2, <2>3, <2>4
<1>3. ASSUME PassThrough PROVE GatesInv'
  <2>1. read_validate_write(stage.writer, draft, world) => draft \in Definitions /\ draft.schema = stage.writer.schema
    BY DEF read_validate_write, read_and_validate
  <2>2. draft \in Definitions => draft \in Written BY DEF Written
  <2>3. writing' # NoAnswer => LetThrough(writing')
    BY <1>3, <1>s, <2>1, <2>2 DEF PassThrough, LetThrough
  <2>4. told' = NoAnswer /\ result' = result /\ answer' = answer BY <1>3 DEF PassThrough
  <2> QED BY <1>0, <1>a, <1>l, <2>3, <2>4
<1>4. ASSUME ApplyDefaults PROVE GatesInv'
  <2>1. writing' # NoAnswer => draft # NoFile /\ writing' = WithDefaults(draft) BY <1>4 DEF ApplyDefaults
  <2>2. ASSUME draft # NoFile
        PROVE  /\ WithDefaults(draft) \in Written
               /\ WithDefaults(draft).schema = stage.reader.schema
    <3>1. draft \in Definitions /\ draft.schema = stage.writer.schema BY <2>2
    <3>2. stage.writer.pattern = "defaults" BY <1>4 DEF ApplyDefaults
    <3>3. draft.schema = "RAW_DEFINITION" /\ stage.writer.schema = stage.reader.schema
      BY <3>1, <3>2, <1>s
    <3> QED BY <3>1, <3>3, DefinitionFields DEF Written
  <2>3. writing' # NoAnswer => LetThrough(writing')
    BY <1>4, <1>s, <2>1, <2>2 DEF ApplyDefaults, LetThrough
  <2>4. told' = NoAnswer /\ result' = result /\ answer' = answer BY <1>4 DEF ApplyDefaults
  <2> QED BY <1>0, <1>a, <1>l, <2>3, <2>4
<1>5. ASSUME OpenFile PROVE GatesInv'
  <2>1. stage.writer # Hand /\ told = NoAnswer /\ LetThrough(writing) BY <1>5 DEF OpenFile, LetThrough
  <2>2. result' = Torn /\ writing' = writing /\ told' = told /\ answer' = answer BY <1>5 DEF OpenFile
  <2> QED BY <1>0, <1>a, <1>l, <2>1, <2>2
<1>6. ASSUME FillFile PROVE GatesInv'
  <2>1. LetThrough(writing) BY <1>6 DEF FillFile
  <2>2. writing \in Written /\ writing # Torn BY <2>1, <1>0 DEF LetThrough, KindsApart
  <2>3. result' = writing /\ writing' = NoAnswer /\ told' = writing /\ answer' = answer BY <1>6 DEF FillFile
  <2> QED BY <1>0, <1>a, <1>l, <2>1, <2>2, <2>3
<1>7. ASSUME GiveUp PROVE GatesInv'
  <2>1. writing' = NoAnswer /\ result' = result /\ told' = told /\ answer' = answer BY <1>7 DEF GiveUp
  <2> QED BY <1>0, <1>a, <1>l, <2>1
<1>8. ASSUME Read PROVE GatesInv'
  <2>1. /\ answer' = IF read_and_validate(stage.reader, result, world)
                     THEN [by |-> "gate", on |-> result, in |-> world] ELSE NoAnswer
        /\ writing' = writing /\ result' = result /\ told' = told
    BY <1>8 DEF Read
  <2>2. ASSUME read_and_validate(stage.reader, result, world)
        PROVE  /\ result \in Written /\ result.schema = stage.reader.schema
               /\ stage.reader.verify => result.names \subseteq world
    <3>1. result # NoFile /\ Accepts(stage.reader.schema, result)
          /\ PathsExist(stage.reader, result, world)
      BY <2>2 DEF read_and_validate
    <3>2. result # Torn BY <3>1 DEF Accepts, Strict
    <3>3. result \in Written /\ result.schema = stage.reader.schema BY <3>1, <3>2 DEF Accepts
    <3>4. stage.reader.verify => verify_paths(SchemaTree(stage.reader.schema), result.body, world)
      BY <3>1, <3>2 DEF PathsExist
    <3> QED BY <3>3, <3>4, WrittenPaths
  <2>3. AnswersTrue'
    <3>1. CASE read_and_validate(stage.reader, result, world)
      <4>1. answer' = [by |-> "gate", on |-> result, in |-> world] BY <2>1, <3>1
      <4>2. answer'.by = "gate" /\ answer'.on = result /\ answer'.in = world BY <4>1
      <4> QED BY <4>2, <3>1, <2>2, <1>0 DEF AnswersTrue
    <3>2. CASE ~read_and_validate(stage.reader, result, world)
      BY <2>1, <3>2 DEF AnswersTrue
    <3> QED BY <3>1, <3>2
  <2> QED BY <1>0, <1>l, <2>1, <2>3
<1>9. ASSUME NEW args, RunCheck(args) PROVE GatesInv'
  <2>1. writing' = writing /\ result' = result /\ told' = told BY <1>9 DEF RunCheck
  <2> DEFINE input == parse_check_args(args)
             content == IF input = "file" THEN result ELSE draft
  <2>2. answer' = [by |-> "check",
                   code |-> IF input = "help" THEN 0 ELSE run_check(stage.check, content, world),
                   in |-> world, on |-> IF input = "help" THEN NoAnswer ELSE content]
    BY <1>9 DEF RunCheck
  <2> HIDE DEF input, content
  <2>3. /\ answer'.by = "check" /\ answer'.in = world
        /\ input = "help" => answer'.on = NoAnswer
        /\ input # "help" => answer'.on = content /\ answer'.code = run_check(stage.check, content, world)
    BY <2>2
  <2>4. (run_check(stage.check, content, world) = 0) <=> read_and_validate(stage.check, content, world)
    <3>1. CASE content = NoFile BY <3>1 DEF run_check, read_and_validate
    <3>2. CASE content # NoFile /\ ~Accepts(stage.check.schema, content)
      BY <3>2 DEF run_check, read_and_validate
    <3>3. CASE content # NoFile /\ Accepts(stage.check.schema, content)
      BY <3>3 DEF run_check, read_and_validate
    <3> QED BY <3>1, <3>2, <3>3
  <2>5. AnswersTrue' BY <2>3, <2>4, <1>0 DEF AnswersTrue
  <2> QED BY <1>0, <1>l, <2>1, <2>5
<1>10. ASSUME MovePath PROVE GatesInv'
  <2>1. writing' = writing /\ result' = result /\ told' = told /\ answer' = answer BY <1>10 DEF MovePath
  <2> QED BY <1>0, <1>a, <1>l, <2>1
<1>11. ASSUME UNCHANGED gateVars PROVE GatesInv'
  <2>1. writing' = writing /\ result' = result /\ told' = told /\ answer' = answer BY <1>11 DEF gateVars
  <2> QED BY <1>0, <1>a, <1>l, <2>1
<1> QED BY <1>1, <1>2, <1>3, <1>4, <1>5, <1>6, <1>7, <1>8, <1>9, <1>10, <1>11 DEF GatesNext

LEMMA GatesInvAgree ==
  ASSUME NamesAreAnnotated PROVE GatesInv => GatesAgree
<1> SUFFICES ASSUME GatesInv PROVE GatesAgree OBVIOUS
<1> USE DEF GatesInv
<1>0. KindsApart BY KindsApart
<1>1. ASSUME told # NoAnswer, told.names \subseteq world
      PROVE  read_and_validate(stage.reader, told, world)
  <2>1. told \in Written /\ told.schema = stage.reader.schema BY <1>1 DEF LetThrough
  <2>2. told # NoFile /\ told # Torn BY <2>1, <1>0 DEF KindsApart
  <2>3. verify_paths(SchemaTree(told.schema), told.body, world) BY <1>1, <2>1, WrittenPaths
  <2> QED BY <2>1, <2>2, <2>3 DEF read_and_validate, Accepts, PathsExist
<1>2. ASSUME told # NoAnswer, stage.writer.pattern = "defaults", OnePass(RawSchema)
      PROVE  Settled(RawSchema, told.raw) /\ Keeps(RawSchema, draft.raw, told.raw)
  <2>1. draft \in Definitions /\ told = WithDefaults(draft) BY <1>2 DEF LetThrough
  <2>2. told.raw = apply_conditional_defaults(RawSchema, draft.raw) BY <2>1, DefinitionFields
  <2>3. PICK T : walk_properties_for_all_of(RawSchema) \in Seq(T) BY EntriesAreSeq
  <2> QED BY <1>2, <2>2, <2>3, DefaultsSettle
<1> QED BY <1>1, <1>2 DEF GatesAgree, AnswersTrue

\* The gates agree, for any schemas and definitions, any paths that come and go,
\* and any number of callers that are killed or fail in the middle of a write: if
\* no schema behind a gate accepts an empty table, which is how a torn file reads.
THEOREM GatesHold ==
  ASSUME Strict, NamesAreAnnotated
  PROVE  GatesSpec => []GatesAgree
<1>1. GatesInit => GatesInv BY GatesInvInit
<1>2. GatesInv /\ [GatesNext]_gateVars => GatesInv' BY GatesInvStep
<1>3. GatesInv => GatesAgree BY GatesInvAgree
<1> QED BY <1>1, <1>2, <1>3, PTL DEF GatesSpec

-----------------------------------------------------------------------------
(* Exchanges: sequences put together *)

\* A set of sequences that has the empty one, and with every sequence those one
\* element longer, has them all.
LEMMA AllSequences ==
  ASSUME NEW T, NEW U, <<>> \in U,
         \A s \in Seq(T) : s \in U => \A x \in T : Append(s, x) \in U
  PROVE  Seq(T) \subseteq U
<1> DEFINE V == {n \in Nat : \A s \in Seq(T) : Len(s) = n => s \in U}
<1>1. 0 \in V
  <2>1. \A s \in Seq(T) : Len(s) = 0 => s = <<>> OBVIOUS
  <2> QED BY <2>1
<1>2. ASSUME NEW n \in Nat, n \in V PROVE n + 1 \in V
  <2>1. ASSUME NEW s \in Seq(T), Len(s) = n + 1 PROVE s \in U
    <3>1. s # <<>> BY <2>1
    <3>2. PICK t \in Seq(T), x \in T : s = Append(t, x) BY <3>1, SequenceEmptyOrAppend
    <3>3. Len(t) = n BY <2>1, <3>2, AppendProperties, LenProperties
    <3>4. t \in U BY <1>2, <3>3
    <3> QED BY <3>2, <3>4
  <2>2. n + 1 \in Nat OBVIOUS
  <2> QED BY <2>1, <2>2
<1> HIDE DEF V
<1>3. Nat \subseteq V BY <1>1, <1>2, AllNumbers
<1>4. ASSUME NEW s \in Seq(T) PROVE s \in U
  <2>1. Len(s) \in V BY <1>3, LenProperties
  <2> QED BY <2>1 DEF V
<1> QED BY <1>4

LEMMA FlattenConcat ==
  ASSUME NEW T, NEW a \in Seq(Seq(T))
  PROVE  \A b \in Seq(Seq(T)) : FlattenSeq(a \o b) = FlattenSeq(a) \o FlattenSeq(b)
<1> DEFINE U == {b \in Seq(Seq(T)) : FlattenSeq(a \o b) = FlattenSeq(a) \o FlattenSeq(b)}
<1>1. FlattenSeq(a) \in Seq(T) BY FlattenIsSeq
<1>2. <<>> \in U
  <2>1. a \o <<>> = a OBVIOUS
  <2>2. FlattenSeq(a) \o <<>> = FlattenSeq(a) BY <1>1
  <2>3. <<>> \in Seq(Seq(T)) OBVIOUS
  <2>4. FlattenSeq(a) \o FlattenSeq(<<>>) = FlattenSeq(a) BY <2>2, FlattenEmpty
  <2>5. FlattenSeq(a \o <<>>) = FlattenSeq(a) BY <2>1
  <2> QED BY <2>3, <2>4, <2>5
<1>3. ASSUME NEW b \in Seq(Seq(T)), b \in U, NEW x \in Seq(T) PROVE Append(b, x) \in U
  <2>1. a \o Append(b, x) = Append(a \o b, x) OBVIOUS
  <2>2. a \o b \in Seq(Seq(T)) OBVIOUS
  <2>3. FlattenSeq(Append(a \o b, x)) = FlattenSeq(a \o b) \o x BY <2>2, FlattenAppend
  <2>4. FlattenSeq(Append(b, x)) = FlattenSeq(b) \o x BY FlattenAppend
  <2>5. FlattenSeq(b) \in Seq(T) BY FlattenIsSeq
  <2>6. (FlattenSeq(a) \o FlattenSeq(b)) \o x = FlattenSeq(a) \o (FlattenSeq(b) \o x)
    BY SMTT(30), <1>1, <2>5, ConcatAssociative
  <2>7. Append(b, x) \in Seq(Seq(T)) OBVIOUS
  <2> QED BY <1>3, <2>1, <2>3, <2>4, <2>6, <2>7
<1> HIDE DEF U
<1>4. Seq(Seq(T)) \subseteq U BY <1>2, <1>3, AllSequences
<1> QED BY <1>4 DEF U

In(x, s) == \E i \in DOMAIN s : s[i] = x

LEMMA InAppend ==
  ASSUME NEW T, NEW s \in Seq(T), NEW e \in T, NEW x
  PROVE  In(x, Append(s, e)) <=> In(x, s) \/ x = e
<1> DEFINE a == Append(s, e)
           k == Len(s)
<1>1. /\ DOMAIN Append(s, e) = 1..Len(s) + 1 /\ DOMAIN s = 1..Len(s) /\ Len(s) \in Nat
      /\ \A i \in 1..Len(s) : Append(s, e)[i] = s[i]
      /\ Append(s, e)[Len(s) + 1] = e
  BY AppendProperties, LenProperties
<1> HIDE DEF a, k
<1>2. /\ DOMAIN a = 1..k + 1 /\ DOMAIN s = 1..k /\ k \in Nat
      /\ \A i \in 1..k : a[i] = s[i]
      /\ a[k + 1] = e
  BY <1>1 DEF a, k
<1>3. In(x, a) => In(x, s) \/ x = e
  <2>1. SUFFICES ASSUME NEW i \in 1..k + 1, a[i] = x PROVE In(x, s) \/ x = e BY <1>2 DEF In
  <2>2. CASE i \in 1..k BY <2>1, <2>2, <1>2 DEF In
  <2>3. CASE i = k + 1 BY <2>1, <2>3, <1>2
  <2> QED BY <2>2, <2>3, <1>2
<1>4. In(x, s) => In(x, a)
  <2>1. SUFFICES ASSUME NEW i \in 1..k, s[i] = x PROVE In(x, a) BY <1>2 DEF In
  <2>2. i \in 1..k + 1 BY <1>2
  <2> QED BY <2>1, <2>2, <1>2 DEF In
<1>5. x = e => In(x, a)
  <2>1. k + 1 \in 1..k + 1 BY <1>2
  <2> QED BY <2>1, <1>2 DEF In
<1> QED BY <1>3, <1>4, <1>5 DEF a

LEMMA InConcat ==
  ASSUME NEW T, NEW s \in Seq(T), NEW t \in Seq(T), NEW x
  PROVE  In(x, s \o t) <=> In(x, s) \/ In(x, t)
<1> DEFINE a == s \o t
           k == Len(s)
           n == Len(t)
<1>1. /\ DOMAIN a = 1..k + n /\ DOMAIN s = 1..k /\ DOMAIN t = 1..n /\ k \in Nat /\ n \in Nat
      /\ \A i \in 1..k : a[i] = s[i]
      /\ \A i \in 1..n : a[k + i] = t[i]
  BY LenProperties, ConcatProperties
<1> HIDE DEF a, k, n
<1>2. ASSUME NEW i \in 1..k + n, a[i] = x PROVE In(x, s) \/ In(x, t)
  <2>1. CASE i \in 1..k BY <1>1, <1>2, <2>1 DEF In
  <2>2. CASE i \notin 1..k
    <3>1. i - k \in 1..n /\ k + (i - k) = i BY <1>1, <2>2
    <3>2. t[i - k] = x BY <1>1, <1>2, <3>1
    <3> QED BY <1>1, <3>1, <3>2 DEF In
  <2> QED BY <2>1, <2>2
<1>3. ASSUME NEW i \in 1..k, s[i] = x PROVE In(x, a)
  <2>1. i \in 1..k + n BY <1>1
  <2> QED BY <1>1, <1>3, <2>1 DEF In
<1>4. ASSUME NEW i \in 1..n, t[i] = x PROVE In(x, a)
  <2>1. k + i \in 1..k + n BY <1>1
  <2> QED BY <1>1, <1>4, <2>1 DEF In
<1>5. In(x, a) => In(x, s) \/ In(x, t) BY <1>1, <1>2 DEF In
<1>6. In(x, s) => In(x, a) BY <1>1, <1>3 DEF In
<1>7. In(x, t) => In(x, a) BY <1>1, <1>4 DEF In
<1> QED BY <1>5, <1>6, <1>7 DEF a

\* What is in sequences put together is in one of them.
LEMMA InFlatten ==
  ASSUME NEW T, NEW x
  PROVE  \A s \in Seq(Seq(T)) : In(x, FlattenSeq(s)) <=> \E i \in DOMAIN s : In(x, s[i])
<1> DEFINE P(s) == In(x, FlattenSeq(s)) <=> \E y : In(y, s) /\ In(x, y)
           U == {s \in Seq(Seq(T)) : P(s)}
<1>1. <<>> \in U
  <2>1. \A y : ~In(y, <<>>) BY DEF In
  <2> QED BY <2>1, FlattenEmpty
<1>2. ASSUME NEW s \in Seq(Seq(T)), s \in U, NEW e \in Seq(T) PROVE Append(s, e) \in U
  <2>1. FlattenSeq(Append(s, e)) = FlattenSeq(s) \o e BY FlattenAppend
  <2>2. FlattenSeq(s) \in Seq(T) BY FlattenIsSeq
  <2>3. In(x, FlattenSeq(s) \o e) <=> In(x, FlattenSeq(s)) \/ In(x, e) BY <2>2, InConcat
  <2>4. \A y : In(y, Append(s, e)) <=> In(y, s) \/ y = e BY InAppend
  <2>5. Append(s, e) \in Seq(Seq(T)) OBVIOUS
  <2>6. P(s) BY <1>2
  <2> HIDE DEF U
  <2>7. P(Append(s, e)) BY <2>1, <2>3, <2>4, <2>6
  <2> QED BY <2>5, <2>7 DEF U
<1> HIDE DEF U
<1>3. Seq(Seq(T)) \subseteq U BY <1>1, <1>2, AllSequences
<1>4. ASSUME NEW s \in Seq(Seq(T))
      PROVE  In(x, FlattenSeq(s)) <=> \E i \in DOMAIN s : In(x, s[i])
  <2>1. P(s) BY <1>3 DEF U
  <2> QED BY <2>1 DEF In
<1> QED BY <1>4

\* b is a, and c after it.
IsConcat(b, a, c) ==
  /\ DOMAIN b = 1..Len(a) + Len(c)
  /\ b = [i \in DOMAIN b |-> b[i]]
  /\ \A i \in 1..Len(a) : b[i] = a[i]
  /\ \A i \in 1..Len(c) : b[Len(a) + i] = c[i]

LEMMA ConcatIs ==
  ASSUME NEW T, NEW a \in Seq(T), NEW c \in Seq(T), NEW b, IsConcat(b, a, c)
  PROVE  b = a \o c
<1> DEFINE k == Len(a)
           n == Len(c)
           d == a \o c
<1>1. /\ k \in Nat /\ n \in Nat /\ DOMAIN d = 1..k + n /\ d = [i \in DOMAIN d |-> d[i]]
      /\ \A i \in 1..k : d[i] = a[i]
      /\ \A i \in 1..n : d[k + i] = c[i]
  <2>1. k \in Nat /\ n \in Nat BY LenProperties
  <2>2. /\ d \in Seq(T) /\ Len(d) = k + n
        /\ \A i \in 1..k + n : d[i] = IF i <= k THEN a[i] ELSE c[i - k]
    BY ConcatProperties
  <2> HIDE DEF d, k, n
  <2>3. DOMAIN d = 1..k + n /\ d \in [1..k + n -> T] BY <2>2, LenProperties
  <2>4. d = [i \in DOMAIN d |-> d[i]] BY <2>3
  <2>5. \A i \in 1..k : i \in 1..k + n /\ i <= k BY <2>1
  <2>6. \A i \in 1..n : k + i \in 1..k + n /\ ~(k + i <= k) /\ (k + i) - k = i BY <2>1
  <2> QED BY <2>1, <2>2, <2>3, <2>4, <2>5, <2>6
<1>2. /\ DOMAIN b = 1..k + n /\ b = [i \in DOMAIN b |-> b[i]]
      /\ \A i \in 1..k : b[i] = a[i]
      /\ \A i \in 1..n : b[k + i] = c[i]
  BY DEF IsConcat
<1> HIDE DEF k, n, d
<1>3. ASSUME NEW i \in 1..k + n PROVE b[i] = d[i]
  <2>1. CASE i \in 1..k BY <2>1, <1>1, <1>2
  <2>2. CASE i \notin 1..k
    <3>1. i - k \in 1..n /\ k + (i - k) = i BY <1>1, <2>2
    <3> QED BY <3>1, <1>1, <1>2
  <2> QED BY <2>1, <2>2
<1>4. b = d BY <1>1, <1>2, <1>3
<1> QED BY <1>4 DEF d

LEMMA TwoOf == ASSUME NEW u, NEW v PROVE <<u>> \o <<v>> = <<u, v>>
<1> DEFINE a == <<u>>
           c == <<v>>
           b == <<u, v>>
<1>1. a \in Seq({u, v}) /\ c \in Seq({u, v}) OBVIOUS
<1>2. /\ Len(a) = 1 /\ Len(c) = 1 /\ a[1] = u /\ c[1] = v
      /\ DOMAIN b = 1..2 /\ b[1] = u /\ b[2] = v /\ b = [i \in DOMAIN b |-> b[i]]
  OBVIOUS
<1> HIDE DEF a, b, c
<1>3. IsConcat(b, a, c)
  <2>1. \A i \in 1..1 : i = 1 /\ 1 + i = 2 OBVIOUS
  <2>2. 1 + 1 = 2 OBVIOUS
  <2> QED BY <2>1, <2>2, <1>2 DEF IsConcat
<1>4. b = a \o c BY <1>1, <1>3, ConcatIs
<1> QED BY <1>4 DEF a, b, c

LEMMA FlattenOne == ASSUME NEW T, NEW x \in Seq(T) PROVE FlattenSeq(<<x>>) = x
<1>1. <<>> \in Seq(Seq(T)) OBVIOUS
<1>2. Append(<<>>, x) = <<x>> OBVIOUS
<1>3. FlattenSeq(Append(<<>>, x)) = FlattenSeq(<<>>) \o x BY <1>1, FlattenAppend
<1>4. <<>> \o x = x OBVIOUS
<1> QED BY <1>2, <1>3, <1>4, FlattenEmpty

-----------------------------------------------------------------------------
(* Exchanges: texts joined *)

Parts(texts) ==
  [i \in DOMAIN texts |-> IF i = 1 THEN texts[i] ELSE <<"blank">> \o texts[i]]

Later(texts) == [i \in DOMAIN texts |-> <<"blank">> \o texts[i]]

LEMMA BlankText == ASSUME NEW t \in TextType PROVE <<"blank">> \o t \in TextType
<1>1. <<"blank">> \in Seq({"tag", "hook", "words", "blank"}) OBVIOUS
<1> QED BY <1>1, ConcatProperties DEF TextType

LEMMA PartsType ==
  ASSUME NEW s \in Seq(TextType)
  PROVE  /\ Parts(s) \in Seq(TextType) /\ DOMAIN Parts(s) = 1..Len(s) /\ Len(Parts(s)) = Len(s)
         /\ Later(s) \in Seq(TextType) /\ DOMAIN Later(s) = 1..Len(s) /\ Len(Later(s)) = Len(s)
<1> DEFINE n == Len(s)
<1>1. DOMAIN s = 1..Len(s) /\ Len(s) \in Nat /\ \A i \in 1..Len(s) : s[i] \in TextType
  BY LenProperties, ElementOfSeq
<1>2. \A i \in 1..Len(s) : <<"blank">> \o s[i] \in TextType BY <1>1, BlankText
<1> HIDE DEF n
<1>3. /\ DOMAIN Parts(s) = 1..n /\ n \in Nat /\ Parts(s) = [i \in 1..n |-> Parts(s)[i]]
      /\ \A i \in 1..n : Parts(s)[i] \in TextType
  BY <1>1, <1>2 DEF Parts, n
<1>4. /\ DOMAIN Later(s) = 1..n /\ n \in Nat /\ Later(s) = [i \in 1..n |-> Later(s)[i]]
      /\ \A i \in 1..n : Later(s)[i] \in TextType
  BY <1>1, <1>2 DEF Later, n
<1>5. Parts(s) \in [1..n -> TextType] /\ Later(s) \in [1..n -> TextType] BY <1>3, <1>4
<1>6. Parts(s) \in Seq(TextType) /\ Later(s) \in Seq(TextType) BY <1>3, <1>5, SeqDef
<1>7. Len(Parts(s)) = n /\ Len(Later(s)) = n BY <1>3, <1>4, <1>6, LenProperties
<1> QED BY <1>3, <1>4, <1>6, <1>7 DEF n

LEMMA JoinedType == ASSUME NEW s \in Seq(TextType) PROVE Joined(s) \in TextType
<1>1. Joined(s) = FlattenSeq(Parts(s)) BY DEF Joined, Parts
<1>2. Parts(s) \in Seq(Seq({"tag", "hook", "words", "blank"})) BY PartsType DEF TextType
<1>3. FlattenSeq(Parts(s)) \in Seq({"tag", "hook", "words", "blank"}) BY <1>2, FlattenIsSeq
<1> QED BY <1>1, <1>3 DEF TextType

LEMMA JoinedOne == ASSUME NEW t \in TextType PROVE Joined(<<t>>) = t
<1>1. Parts(<<t>>) = <<t>>
  <2>1. DOMAIN <<t>> = 1..1 /\ \A i \in 1..1 : i = 1 OBVIOUS
  <2>2. Parts(<<t>>) = [i \in 1..1 |-> <<t>>[i]] BY <2>1 DEF Parts
  <2>3. [i \in 1..1 |-> <<t>>[i]] = <<t>> OBVIOUS
  <2> QED BY <2>2, <2>3
<1>2. Joined(<<t>>) = FlattenSeq(<<t>>) BY <1>1 DEF Joined, Parts
<1> QED BY <1>2, FlattenOne DEF TextType

\* After the first, texts come with a blank before them.
LEMMA LaterFlat ==
  ASSUME NEW s \in Seq(TextType), s # <<>>
  PROVE  FlattenSeq(Later(s)) = <<"blank">> \o Joined(s)
<1> DEFINE C == {"tag", "hook", "words", "blank"}
           n == Len(s) - 1
           rest == [i \in 1..n |-> <<"blank">> \o s[i + 1]]
           x == <<"blank">> \o s[1]
<1>0. <<"blank">> \in Seq(C) OBVIOUS
<1>1. /\ n \in Nat /\ Len(s) = n + 1 /\ DOMAIN s = 1..n + 1
      /\ \A i \in 1..n + 1 : s[i] \in Seq(C)
  <2>1. Len(s) \in Nat \ {0} BY EmptySeq
  <2>2. DOMAIN s = 1..Len(s) BY LenProperties
  <2>3. \A i \in 1..Len(s) : s[i] \in TextType BY ElementOfSeq
  <2> QED BY <2>1, <2>2, <2>3 DEF TextType
<1> HIDE DEF n
<1>2. s[1] \in Seq(C) /\ x \in Seq(C)
  <2>1. 1 \in 1..n + 1 BY <1>1
  <2>2. s[1] \in Seq(C) BY <1>1, <2>1
  <2> QED BY <2>2, <1>0, ConcatProperties
<1>3. \A i \in 1..n : i + 1 \in 1..n + 1 /\ i + 1 # 1 BY <1>1
<1>4. rest \in Seq(Seq(C)) /\ Len(rest) = n /\ \A i \in 1..n : rest[i] = <<"blank">> \o s[i + 1]
  <2>1. \A i \in 1..n : s[i + 1] \in Seq(C) BY <1>1, <1>3
  <2>2. \A i \in 1..n : <<"blank">> \o s[i + 1] \in Seq(C) BY <2>1, <1>0, ConcatProperties
  <2>3. rest \in [1..n -> Seq(C)] BY <2>2
  <2>4. rest \in Seq(Seq(C)) BY <2>3, <1>1, SeqDef
  <2>5. DOMAIN rest = 1..n OBVIOUS
  <2>6. Len(rest) = n BY <2>4, <2>5, <1>1, LenProperties
  <2> QED BY <2>4, <2>6
<1>5. <<s[1]>> \in Seq(Seq(C)) /\ <<x>> \in Seq(Seq(C)) BY <1>2
<1> HIDE DEF rest, x, C
<1>6. Parts(s) = <<s[1]>> \o rest
  <2> DEFINE a == <<s[1]>>
  <2>1. Len(a) = 1 /\ a[1] = s[1] OBVIOUS
  <2>2. DOMAIN Parts(s) = 1..1 + n BY <1>1 DEF Parts
  <2>3. Parts(s) = [i \in DOMAIN Parts(s) |-> Parts(s)[i]] BY DEF Parts
  <2>4. Parts(s)[1] = s[1] BY <1>1, <2>2 DEF Parts
  <2>5. ASSUME NEW i \in 1..n PROVE Parts(s)[1 + i] = rest[i]
    <3>1. 1 + i = i + 1 /\ i + 1 \in DOMAIN s /\ i + 1 # 1 BY <1>1, <1>3
    <3>2. Parts(s)[i + 1] = <<"blank">> \o s[i + 1] BY <3>1 DEF Parts
    <3> QED BY <3>1, <3>2, <1>4
  <2>6. \A i \in 1..1 : Parts(s)[i] = a[i] BY <2>1, <2>4
  <2> HIDE DEF a
  <2>7. IsConcat(Parts(s), a, rest) BY <2>1, <2>2, <2>3, <2>5, <2>6, <1>4 DEF IsConcat
  <2> QED BY <2>7, <1>4, <1>5, ConcatIs DEF a
<1>7. Later(s) = <<x>> \o rest
  <2> DEFINE a == <<x>>
  <2>1. Len(a) = 1 /\ a[1] = x OBVIOUS
  <2>2. DOMAIN Later(s) = 1..1 + n BY <1>1 DEF Later
  <2>3. Later(s) = [i \in DOMAIN Later(s) |-> Later(s)[i]] BY DEF Later
  <2>4. Later(s)[1] = x BY <1>1, <2>2 DEF Later, x
  <2>5. ASSUME NEW i \in 1..n PROVE Later(s)[1 + i] = rest[i]
    <3>1. 1 + i = i + 1 /\ i + 1 \in DOMAIN s /\ i + 1 # 1 BY <1>1, <1>3
    <3>2. Later(s)[i + 1] = <<"blank">> \o s[i + 1] BY <3>1 DEF Later
    <3> QED BY <3>1, <3>2, <1>4
  <2>6. \A i \in 1..1 : Later(s)[i] = a[i] BY <2>1, <2>4
  <2> HIDE DEF a
  <2>7. IsConcat(Later(s), a, rest) BY <2>1, <2>2, <2>3, <2>5, <2>6, <1>4 DEF IsConcat
  <2> QED BY <2>7, <1>4, <1>5, ConcatIs DEF a
<1>8. FlattenSeq(Parts(s)) = s[1] \o FlattenSeq(rest)
  <2>1. FlattenSeq(<<s[1]>>) = s[1] BY <1>2, FlattenOne
  <2>2. FlattenSeq(<<s[1]>> \o rest) = FlattenSeq(<<s[1]>>) \o FlattenSeq(rest)
    BY <1>4, <1>5, FlattenConcat
  <2> QED BY <2>1, <2>2, <1>6
<1>9. FlattenSeq(Later(s)) = x \o FlattenSeq(rest)
  <2>1. FlattenSeq(<<x>>) = x BY <1>2, FlattenOne
  <2>2. FlattenSeq(<<x>> \o rest) = FlattenSeq(<<x>>) \o FlattenSeq(rest)
    BY <1>4, <1>5, FlattenConcat
  <2> QED BY <2>1, <2>2, <1>7
<1>10. x \o FlattenSeq(rest) = <<"blank">> \o (s[1] \o FlattenSeq(rest))
  <2>1. FlattenSeq(rest) \in Seq(C) BY <1>4, FlattenIsSeq
  <2> DEFINE blank == <<"blank">>
             f == FlattenSeq(rest)
             h == s[1]
  <2>2. blank \in Seq(C) BY <1>0
  <2>3. f \in Seq(C) BY <2>1
  <2>4. h \in Seq(C) BY <1>2
  <2>5. x = blank \o h BY DEF x
  <2> HIDE DEF blank, f, h
  <2>6. (blank \o h) \o f = blank \o (h \o f) BY <2>2, <2>3, <2>4, ConcatAssociative
  <2>7. x \o f = blank \o (h \o f) BY <2>5, <2>6
  <2> QED BY <2>7 DEF blank, f, h
<1> QED BY <1>8, <1>9, <1>10 DEF Joined, Parts

LEMMA JoinedConcat ==
  ASSUME NEW s \in Seq(TextType), NEW t \in Seq(TextType), s # <<>>, t # <<>>
  PROVE  Joined(s \o t) = Join(Joined(s), Joined(t))
<1> DEFINE C == {"tag", "hook", "words", "blank"}
           k == Len(s)
           n == Len(t)
           d == s \o t
<1>1. /\ k \in Nat \ {0} /\ n \in Nat /\ DOMAIN s = 1..k /\ DOMAIN t = 1..n
      /\ DOMAIN d = 1..k + n
      /\ \A i \in 1..k : d[i] = s[i]
      /\ \A i \in 1..n : d[k + i] = t[i]
  BY EmptySeq, LenProperties, ConcatProperties
<1>2. /\ Parts(s) \in Seq(Seq(C)) /\ Later(t) \in Seq(Seq(C))
      /\ Len(Parts(s)) = k /\ Len(Later(t)) = n
  BY PartsType DEF TextType
<1> HIDE DEF k, n, d, C
<1>3. Parts(d) = Parts(s) \o Later(t)
  <2>1. DOMAIN Parts(d) = 1..k + n BY <1>1 DEF Parts
  <2>2. Parts(d) = [i \in DOMAIN Parts(d) |-> Parts(d)[i]] BY DEF Parts
  <2>3. ASSUME NEW i \in 1..k PROVE Parts(d)[i] = Parts(s)[i]
    <3>1. i \in 1..k + n BY <1>1
    <3> QED BY <3>1, <1>1 DEF Parts
  <2>4. ASSUME NEW i \in 1..n PROVE Parts(d)[k + i] = Later(t)[i]
    <3>1. k + i \in 1..k + n /\ k + i # 1 BY <1>1
    <3>2. Parts(d)[k + i] = <<"blank">> \o d[k + i] BY <3>1, <1>1 DEF Parts
    <3>3. Later(t)[i] = <<"blank">> \o t[i] BY <1>1 DEF Later
    <3> QED BY <3>2, <3>3, <1>1
  <2>5. IsConcat(Parts(d), Parts(s), Later(t)) BY <1>2, <2>1, <2>2, <2>3, <2>4 DEF IsConcat
  <2> QED BY <2>5, <1>2, ConcatIs
<1>4. FlattenSeq(Parts(d)) = FlattenSeq(Parts(s)) \o FlattenSeq(Later(t))
  BY <1>2, <1>3, FlattenConcat
<1>5. FlattenSeq(Later(t)) = <<"blank">> \o Joined(t) BY LaterFlat
<1> QED BY <1>4, <1>5 DEF Joined, Parts, Join, d

-----------------------------------------------------------------------------
(* Exchanges: labels and values *)

TextLabels == {"user", "assistant", "system", "thinking", "tool_return"}
ToolLabels == {"file_read", "file_write", "file_edit", "file_search", "text_search", "web_search",
               "web_fetch", "shell", "agent_dispatch", "ask_question", "start_plan", "finish_plan",
               "tool_use"}
Inputs == {b.input : b \in BlocksOf(TurnMessages)}
TextValues == {StringValue(t) : t \in TextType}
OtherValues == {OtherValue(v) : v \in Inputs}
ValuesFor(l) == IF l \in TextLabels THEN TextValues ELSE OtherValues
PairType ==
  {p \in (TextLabels \cup ToolLabels) \X (TextValues \cup OtherValues) : p[2] \in ValuesFor(p[1])}

LEMMA BlockLabelled ==
  ASSUME NEW b \in BlockType, NEW role
  PROVE  restructure_block(b, role) \in Seq(PairType)
<1>1. b.text \in TextType /\ b.input \in Inputs /\ b.results \in Seq(TextType)
  BY DEF BlockType, Inputs
<1> DEFINE r == extract_tool_result_text(b)
           speaker == IF "tag" \in Range(b.text) THEN "system" ELSE BySpeaker(role)
           tool == tool_label(IF b.name = NoName THEN "unknown" ELSE b.name)
<1>2. r \in TextType BY <1>1, JoinedType DEF extract_tool_result_text
<1>3. speaker \in TextLabels BY DEF BySpeaker, TextLabels
<1>4. tool \in ToolLabels /\ tool \notin TextLabels BY DEF tool_label, ToolLabels, TextLabels
<1>5. restructure_block(b, role) \in
        {<<<<speaker, StringValue(b.text)>>>>, <<<<"thinking", StringValue(b.text)>>>>,
         <<<<tool, OtherValue(b.input)>>>>, <<<<"tool_return", StringValue(r)>>>>, <<>>}
  BY DEF restructure_block
<1> HIDE DEF r, speaker, tool
<1>6. StringValue(b.text) \in TextValues /\ StringValue(r) \in TextValues
      /\ OtherValue(b.input) \in OtherValues
  BY <1>1, <1>2 DEF TextValues, OtherValues
<1>7. "thinking" \in TextLabels /\ "tool_return" \in TextLabels BY DEF TextLabels
<1>8. /\ <<speaker, StringValue(b.text)>> \in PairType
      /\ <<"thinking", StringValue(b.text)>> \in PairType
      /\ <<"tool_return", StringValue(r)>> \in PairType
      /\ <<tool, OtherValue(b.input)>> \in PairType
  BY <1>3, <1>4, <1>6, <1>7 DEF PairType, ValuesFor
<1>9. \A p \in PairType : <<p>> \in Seq(PairType) OBVIOUS
<1>10. <<>> \in Seq(PairType) OBVIOUS
<1> QED BY <1>5, <1>8, <1>9, <1>10

LEMMA LabelledType ==
  ASSUME NEW m \in MessageType
  PROVE  Labelled(m) \in Seq(PairType)
<1>1. m.text \in TextType /\ m.blocks \in Seq(BlockType) /\ m.plain \in BOOLEAN BY DEF MessageType
<1>2. CASE m.plain
  <2>1. BySpeaker(m.role) \in TextLabels BY DEF BySpeaker, TextLabels
  <2>2. StringValue(m.text) \in TextValues BY <1>1 DEF TextValues
  <2>3. <<BySpeaker(m.role), StringValue(m.text)>> \in PairType BY <2>1, <2>2 DEF PairType, ValuesFor
  <2> QED BY <2>3, <1>2 DEF Labelled
<1>3. CASE ~m.plain
  <2> DEFINE s == [i \in DOMAIN m.blocks |-> restructure_block(m.blocks[i], m.role)]
             n == Len(m.blocks)
  <2>1. DOMAIN m.blocks = 1..n /\ n \in Nat /\ \A i \in 1..n : m.blocks[i] \in BlockType
    BY <1>1, LenProperties, ElementOfSeq
  <2> HIDE DEF n
  <2>2. \A i \in 1..n : restructure_block(m.blocks[i], m.role) \in Seq(PairType)
    BY <2>1, BlockLabelled
  <2>3. s \in [1..n -> Seq(PairType)] BY <2>1, <2>2
  <2>4. s \in Seq(Seq(PairType)) BY <2>1, <2>3, SeqDef
  <2>5. Labelled(m) = FlattenSeq(s) BY <1>3 DEF Labelled
  <2> QED BY <2>4, <2>5, FlattenIsSeq
<1> QED BY <1>1, <1>2, <1>3

EachLabelled(messages) == [i \in DOMAIN messages |-> Labelled(messages[i])]

LEMMA EachType ==
  ASSUME NEW s \in Seq(MessageType)
  PROVE  /\ EachLabelled(s) \in Seq(Seq(PairType)) /\ Len(EachLabelled(s)) = Len(s)
         /\ DOMAIN EachLabelled(s) = 1..Len(s)
<1> DEFINE n == Len(s)
<1>1. DOMAIN s = 1..n /\ n \in Nat /\ \A i \in 1..n : s[i] \in MessageType
  BY LenProperties, ElementOfSeq
<1> HIDE DEF n
<1>2. \A i \in 1..n : Labelled(s[i]) \in Seq(PairType) BY <1>1, LabelledType
<1>3. EachLabelled(s) \in [1..n -> Seq(PairType)] BY <1>1, <1>2 DEF EachLabelled
<1>4. EachLabelled(s) \in Seq(Seq(PairType)) BY <1>1, <1>3, SeqDef
<1>5. DOMAIN EachLabelled(s) = 1..n BY <1>1 DEF EachLabelled
<1>6. Len(EachLabelled(s)) = n BY <1>1, <1>4, <1>5, LenProperties
<1> QED BY <1>4, <1>5, <1>6 DEF n

LEMMA LabelledAllType ==
  ASSUME NEW s \in Seq(MessageType)
  PROVE  LabelledAll(s) \in Seq(PairType)
<1>1. LabelledAll(s) = FlattenSeq(EachLabelled(s)) BY DEF LabelledAll, EachLabelled
<1> QED BY <1>1, EachType, FlattenIsSeq

\* The pairs of a conversation are those of its parts.
LEMMA LabelledConcat ==
  ASSUME NEW s \in Seq(MessageType), NEW t \in Seq(MessageType)
  PROVE  LabelledAll(s \o t) = LabelledAll(s) \o LabelledAll(t)
<1> DEFINE d == s \o t
           k == Len(s)
           n == Len(t)
<1>1. /\ k \in Nat /\ n \in Nat /\ DOMAIN s = 1..k /\ DOMAIN t = 1..n
      /\ DOMAIN d = 1..k + n
      /\ \A i \in 1..k : d[i] = s[i]
      /\ \A i \in 1..n : d[k + i] = t[i]
  BY LenProperties, ConcatProperties
<1>2. /\ EachLabelled(s) \in Seq(Seq(PairType)) /\ EachLabelled(t) \in Seq(Seq(PairType))
      /\ Len(EachLabelled(s)) = k /\ Len(EachLabelled(t)) = n
  BY EachType
<1> HIDE DEF k, n, d
<1>3. EachLabelled(d) = EachLabelled(s) \o EachLabelled(t)
  <2>1. DOMAIN EachLabelled(d) = 1..k + n BY <1>1 DEF EachLabelled
  <2>2. EachLabelled(d) = [i \in DOMAIN EachLabelled(d) |-> EachLabelled(d)[i]] BY DEF EachLabelled
  <2>3. ASSUME NEW i \in 1..k PROVE EachLabelled(d)[i] = EachLabelled(s)[i]
    <3>1. i \in 1..k + n BY <1>1
    <3> QED BY <3>1, <1>1 DEF EachLabelled
  <2>4. ASSUME NEW i \in 1..n PROVE EachLabelled(d)[k + i] = EachLabelled(t)[i]
    <3>1. k + i \in 1..k + n BY <1>1
    <3> QED BY <3>1, <1>1 DEF EachLabelled
  <2>5. IsConcat(EachLabelled(d), EachLabelled(s), EachLabelled(t))
    BY <1>2, <2>1, <2>2, <2>3, <2>4 DEF IsConcat
  <2> QED BY <2>5, <1>2, ConcatIs
<1>4. FlattenSeq(EachLabelled(d)) = FlattenSeq(EachLabelled(s)) \o FlattenSeq(EachLabelled(t))
  BY <1>2, <1>3, FlattenConcat
<1> QED BY <1>4 DEF LabelledAll, EachLabelled, d

LabelsOf(pairs) == {pairs[i][1] : i \in DOMAIN pairs}

Picked(pairs, l) == [i \in DOMAIN pairs |-> IF pairs[i][1] = l THEN <<pairs[i][2]>> ELSE <<>>]

LEMMA PickedType ==
  ASSUME NEW s \in Seq(PairType), NEW l
  PROVE  /\ Picked(s, l) \in Seq(Seq(ValuesFor(l))) /\ Len(Picked(s, l)) = Len(s)
         /\ DOMAIN Picked(s, l) = 1..Len(s)
<1> DEFINE n == Len(s)
<1>1. DOMAIN s = 1..n /\ n \in Nat /\ \A i \in 1..n : s[i] \in PairType
  BY LenProperties, ElementOfSeq
<1> HIDE DEF n
<1>2. ASSUME NEW i \in 1..n
      PROVE  (IF s[i][1] = l THEN <<s[i][2]>> ELSE <<>>) \in Seq(ValuesFor(l))
  <2>1. s[i][2] \in ValuesFor(s[i][1]) BY <1>1 DEF PairType
  <2>2. s[i][1] = l => <<s[i][2]>> \in Seq(ValuesFor(l)) BY <2>1
  <2> QED BY <2>2
<1>3. Picked(s, l) \in [1..n -> Seq(ValuesFor(l))] BY <1>1, <1>2 DEF Picked
<1>4. Picked(s, l) \in Seq(Seq(ValuesFor(l))) BY <1>1, <1>3, SeqDef
<1>5. DOMAIN Picked(s, l) = 1..n BY <1>1 DEF Picked
<1>6. Len(Picked(s, l)) = n BY <1>1, <1>4, <1>5, LenProperties
<1> QED BY <1>4, <1>5, <1>6 DEF n

LEMMA ValuesType ==
  ASSUME NEW s \in Seq(PairType), NEW l
  PROVE  ValuesOf(s, l) \in Seq(ValuesFor(l))
<1>1. ValuesOf(s, l) = FlattenSeq(Picked(s, l)) BY DEF ValuesOf, Picked
<1> QED BY <1>1, PickedType, FlattenIsSeq

LEMMA ValuesConcat ==
  ASSUME NEW s \in Seq(PairType), NEW t \in Seq(PairType), NEW l
  PROVE  ValuesOf(s \o t, l) = ValuesOf(s, l) \o ValuesOf(t, l)
<1> DEFINE d == s \o t
           k == Len(s)
           n == Len(t)
<1>1. /\ k \in Nat /\ n \in Nat /\ DOMAIN s = 1..k /\ DOMAIN t = 1..n
      /\ DOMAIN d = 1..k + n
      /\ \A i \in 1..k : d[i] = s[i]
      /\ \A i \in 1..n : d[k + i] = t[i]
  BY LenProperties, ConcatProperties
<1>2. /\ Picked(s, l) \in Seq(Seq(ValuesFor(l))) /\ Picked(t, l) \in Seq(Seq(ValuesFor(l)))
      /\ Len(Picked(s, l)) = k /\ Len(Picked(t, l)) = n
  BY PickedType
<1> HIDE DEF k, n, d
<1>3. Picked(d, l) = Picked(s, l) \o Picked(t, l)
  <2>1. DOMAIN Picked(d, l) = 1..k + n BY <1>1 DEF Picked
  <2>2. Picked(d, l) = [i \in DOMAIN Picked(d, l) |-> Picked(d, l)[i]] BY DEF Picked
  <2>3. ASSUME NEW i \in 1..k PROVE Picked(d, l)[i] = Picked(s, l)[i]
    <3>1. i \in 1..k + n BY <1>1
    <3> QED BY <3>1, <1>1 DEF Picked
  <2>4. ASSUME NEW i \in 1..n PROVE Picked(d, l)[k + i] = Picked(t, l)[i]
    <3>1. k + i \in 1..k + n BY <1>1
    <3> QED BY <3>1, <1>1 DEF Picked
  <2>5. IsConcat(Picked(d, l), Picked(s, l), Picked(t, l))
    BY <1>2, <2>1, <2>2, <2>3, <2>4 DEF IsConcat
  <2> QED BY <2>5, <1>2, ConcatIs
<1>4. FlattenSeq(Picked(d, l)) = FlattenSeq(Picked(s, l)) \o FlattenSeq(Picked(t, l))
  BY <1>2, <1>3, FlattenConcat
<1> QED BY <1>4 DEF ValuesOf, Picked, d

LEMMA ValuesIn ==
  ASSUME NEW s \in Seq(PairType), NEW l, NEW x
  PROVE  In(x, ValuesOf(s, l)) <=> In(<<l, x>>, s)
<1> DEFINE n == Len(s)
<1>1. DOMAIN s = 1..n /\ \A i \in 1..n : s[i] \in PairType BY LenProperties, ElementOfSeq
<1>2. Picked(s, l) \in Seq(Seq(ValuesFor(l))) /\ DOMAIN Picked(s, l) = 1..n BY PickedType
<1>3. In(x, FlattenSeq(Picked(s, l))) <=> \E i \in DOMAIN Picked(s, l) : In(x, Picked(s, l)[i])
  BY <1>2, InFlatten
<1> HIDE DEF n
<1>4. ASSUME NEW i \in 1..n PROVE In(x, Picked(s, l)[i]) <=> s[i] = <<l, x>>
  <2>1. s[i] = <<s[i][1], s[i][2]>> BY <1>1 DEF PairType
  <2>2. In(x, <<s[i][2]>>) <=> x = s[i][2]
    <3>1. DOMAIN <<s[i][2]>> = {1} /\ <<s[i][2]>>[1] = s[i][2] OBVIOUS
    <3> QED BY <3>1 DEF In
  <2>3. ~In(x, <<>>) BY DEF In
  <2>4. Picked(s, l)[i] = IF s[i][1] = l THEN <<s[i][2]>> ELSE <<>> BY <1>1 DEF Picked
  <2>5. s[i] = <<l, x>> <=> s[i][1] = l /\ s[i][2] = x BY <2>1
  <2> QED BY <2>2, <2>3, <2>4, <2>5
<1>5. In(x, FlattenSeq(Picked(s, l))) <=> \E i \in 1..n : s[i] = <<l, x>> BY <1>2, <1>3, <1>4
<1> QED BY <1>1, <1>5 DEF ValuesOf, Picked, In

LEMMA SomeValues ==
  ASSUME NEW s \in Seq(PairType), NEW l
  PROVE  ValuesOf(s, l) # <<>> <=> l \in LabelsOf(s)
<1> DEFINE v == ValuesOf(s, l)
<1>1. v \in Seq(ValuesFor(l)) BY ValuesType
<1>2. v # <<>> <=> \E x : In(x, v)
  <2>1. ASSUME v # <<>> PROVE \E x : In(x, v)
    <3>1. Len(v) \in Nat \ {0} /\ DOMAIN v = 1..Len(v) BY <1>1, <2>1, EmptySeq, LenProperties
    <3>2. 1 \in DOMAIN v BY <3>1
    <3>3. In(v[1], v) BY <3>2 DEF In
    <3> QED BY <3>3
  <2>2. ASSUME v = <<>> PROVE \A x : ~In(x, v) BY <2>2 DEF In
  <2> QED BY <2>1, <2>2
<1>3. \A x : In(x, v) <=> In(<<l, x>>, s) BY ValuesIn
<1>4. (\E x : In(<<l, x>>, s)) <=> l \in LabelsOf(s)
  <2>1. \A i \in DOMAIN s : s[i] = <<s[i][1], s[i][2]>>
    <3>1. \A i \in DOMAIN s : s[i] \in PairType BY LenProperties, ElementOfSeq
    <3> QED BY <3>1 DEF PairType
  <2>2. ASSUME NEW x, In(<<l, x>>, s) PROVE l \in LabelsOf(s)
    <3>1. PICK i \in DOMAIN s : s[i] = <<l, x>> BY <2>2 DEF In
    <3>2. s[i][1] = l BY <3>1
    <3> QED BY <3>2 DEF LabelsOf
  <2>3. ASSUME l \in LabelsOf(s) PROVE \E x : In(<<l, x>>, s)
    <3>1. PICK i \in DOMAIN s : s[i][1] = l BY <2>3 DEF LabelsOf
    <3>2. s[i] = <<l, s[i][2]>> BY <2>1, <3>1
    <3>3. In(<<l, s[i][2]>>, s) BY <3>2 DEF In
    <3> QED BY <3>3
  <2> QED BY <2>2, <2>3
<1> HIDE DEF v
<1>5. v # <<>> <=> l \in LabelsOf(s) BY <1>2, <1>3, <1>4
<1> QED BY <1>5 DEF v

-----------------------------------------------------------------------------
(* Exchanges: what a transcript tells *)

TextsOf(values) == [i \in DOMAIN values |-> values[i].text]

Told(values) ==
  IF values[1].form = "string" THEN StringValue(Joined(TextsOf(values)))
  ELSE IF Len(values) = 1 THEN values[1] ELSE ArrayValue(values)

\* The payload of some pairs: under each label all of it, in order.
TellsOf(pairs) == [l \in LabelsOf(pairs) |-> Told(ValuesOf(pairs, l))]

LEMMA TextValueIs ==
  ASSUME NEW v \in TextValues
  PROVE  v.form = "string" /\ v.text \in TextType /\ v = StringValue(v.text) /\ Items(v) = <<v>>
<1>1. PICK t \in TextType : v = StringValue(t) BY DEF TextValues
<1>2. StringValue(t).form = "string" /\ StringValue(t).text = t BY DEF StringValue
<1> QED BY <1>1, <1>2 DEF Items

LEMMA OtherValueIs ==
  ASSUME NEW v \in OtherValues
  PROVE  v.form = "other" /\ Items(v) = <<v>>
<1>1. PICK t \in Inputs : v = OtherValue(t) BY DEF OtherValues
<1>2. OtherValue(t).form = "other" BY DEF OtherValue
<1> QED BY <1>1, <1>2 DEF Items

LEMMA TextsType ==
  ASSUME NEW s \in Seq(TextValues)
  PROVE  /\ TextsOf(s) \in Seq(TextType) /\ Len(TextsOf(s)) = Len(s)
         /\ DOMAIN TextsOf(s) = 1..Len(s)
<1> DEFINE n == Len(s)
<1>1. DOMAIN s = 1..n /\ n \in Nat /\ \A i \in 1..n : s[i] \in TextValues
  BY LenProperties, ElementOfSeq
<1> HIDE DEF n
<1>2. \A i \in 1..n : s[i].text \in TextType BY <1>1, TextValueIs
<1>3. TextsOf(s) \in [1..n -> TextType] BY <1>1, <1>2 DEF TextsOf
<1>4. TextsOf(s) \in Seq(TextType) BY <1>1, <1>3, SeqDef
<1>5. DOMAIN TextsOf(s) = 1..n BY <1>1 DEF TextsOf
<1>6. Len(TextsOf(s)) = n BY <1>1, <1>4, <1>5, LenProperties
<1> QED BY <1>4, <1>5, <1>6 DEF n

LEMMA TextsConcat ==
  ASSUME NEW s \in Seq(TextValues), NEW t \in Seq(TextValues)
  PROVE  TextsOf(s \o t) = TextsOf(s) \o TextsOf(t)
<1> DEFINE d == s \o t
           k == Len(s)
           n == Len(t)
<1>1. /\ k \in Nat /\ n \in Nat /\ DOMAIN s = 1..k /\ DOMAIN t = 1..n
      /\ DOMAIN d = 1..k + n
      /\ \A i \in 1..k : d[i] = s[i]
      /\ \A i \in 1..n : d[k + i] = t[i]
  BY LenProperties, ConcatProperties
<1>2. /\ TextsOf(s) \in Seq(TextType) /\ TextsOf(t) \in Seq(TextType)
      /\ Len(TextsOf(s)) = k /\ Len(TextsOf(t)) = n
  BY TextsType
<1> HIDE DEF k, n, d
<1>3. TextsOf(d) = TextsOf(s) \o TextsOf(t)
  <2>1. DOMAIN TextsOf(d) = 1..k + n BY <1>1 DEF TextsOf
  <2>2. TextsOf(d) = [i \in DOMAIN TextsOf(d) |-> TextsOf(d)[i]] BY DEF TextsOf
  <2>3. ASSUME NEW i \in 1..k PROVE TextsOf(d)[i] = TextsOf(s)[i]
    <3>1. i \in 1..k + n BY <1>1
    <3> QED BY <3>1, <1>1 DEF TextsOf
  <2>4. ASSUME NEW i \in 1..n PROVE TextsOf(d)[k + i] = TextsOf(t)[i]
    <3>1. k + i \in 1..k + n BY <1>1
    <3> QED BY <3>1, <1>1 DEF TextsOf
  <2>5. IsConcat(TextsOf(d), TextsOf(s), TextsOf(t))
    BY <1>2, <2>1, <2>2, <2>3, <2>4 DEF IsConcat
  <2> QED BY <2>5, <1>2, ConcatIs
<1> QED BY <1>3 DEF d

LEMMA ToldText ==
  ASSUME NEW s \in Seq(TextValues), s # <<>>
  PROVE  Told(s) = StringValue(Joined(TextsOf(s))) /\ TextsOf(s) # <<>>
<1>1. Len(s) \in Nat \ {0} BY EmptySeq
<1>2. s[1] \in TextValues
  <2>1. 1 \in 1..Len(s) BY <1>1
  <2> QED BY <2>1, ElementOfSeq
<1>3. s[1].form = "string" BY <1>2, TextValueIs
<1>4. Len(TextsOf(s)) = Len(s) BY TextsType
<1>5. Len(<<>>) = 0 OBVIOUS
<1> QED BY <1>1, <1>3, <1>4, <1>5 DEF Told

LEMMA ToldOther ==
  ASSUME NEW s \in Seq(OtherValues), s # <<>>
  PROVE  /\ Told(s) = IF Len(s) = 1 THEN s[1] ELSE ArrayValue(s)
         /\ Told(s).form # "string" /\ Items(Told(s)) = s
<1>1. Len(s) \in Nat \ {0} BY EmptySeq
<1>2. s[1] \in OtherValues
  <2>1. 1 \in 1..Len(s) BY <1>1
  <2> QED BY <2>1, ElementOfSeq
<1>3. s[1].form = "other" /\ Items(s[1]) = <<s[1]>> BY <1>2, OtherValueIs
<1>4. Told(s) = IF Len(s) = 1 THEN s[1] ELSE ArrayValue(s) BY <1>3 DEF Told
<1>5. Len(s) = 1 => s = <<s[1]>> OBVIOUS
<1>6. ArrayValue(s).form = "array" /\ Items(ArrayValue(s)) = s BY DEF ArrayValue, Items
<1> QED BY <1>3, <1>4, <1>5, <1>6

\* Two values of a label, when a reader puts them together.
Both(v, w) ==
  IF v.form = "string" /\ w.form = "string" THEN StringValue(Join(v.text, w.text))
  ELSE ArrayValue(Items(v) \o Items(w))

LEMMA ToldConcat ==
  ASSUME NEW l, NEW s \in Seq(ValuesFor(l)), NEW t \in Seq(ValuesFor(l)), s # <<>>, t # <<>>
  PROVE  Told(s \o t) = Both(Told(s), Told(t))
<1>1. s \o t \in Seq(ValuesFor(l)) /\ s \o t # <<>> BY ConcatProperties, ConcatEqualIffEmpty
<1>2. CASE l \in TextLabels
  <2>1. /\ s \in Seq(TextValues) /\ t \in Seq(TextValues) /\ s \o t \in Seq(TextValues)
    BY <1>1, <1>2 DEF ValuesFor
  <2>2. /\ Told(s) = StringValue(Joined(TextsOf(s))) /\ TextsOf(s) # <<>>
        /\ Told(t) = StringValue(Joined(TextsOf(t))) /\ TextsOf(t) # <<>>
        /\ Told(s \o t) = StringValue(Joined(TextsOf(s \o t)))
    BY <1>1, <2>1, ToldText
  <2>3. TextsOf(s \o t) = TextsOf(s) \o TextsOf(t) BY <2>1, TextsConcat
  <2>4. TextsOf(s) \in Seq(TextType) /\ TextsOf(t) \in Seq(TextType) BY <2>1, TextsType
  <2>5. Joined(TextsOf(s) \o TextsOf(t)) = Join(Joined(TextsOf(s)), Joined(TextsOf(t)))
    BY <2>2, <2>4, JoinedConcat
  <2>6. \A x : StringValue(x).form = "string" /\ StringValue(x).text = x BY DEF StringValue
  <2> QED BY <2>2, <2>3, <2>5, <2>6 DEF Both
<1>3. CASE l \notin TextLabels
  <2>1. /\ s \in Seq(OtherValues) /\ t \in Seq(OtherValues) /\ s \o t \in Seq(OtherValues)
    BY <1>1, <1>3 DEF ValuesFor
  <2>2. /\ Told(s).form # "string" /\ Items(Told(s)) = s
        /\ Told(t).form # "string" /\ Items(Told(t)) = t
        /\ Told(s \o t) = IF Len(s \o t) = 1 THEN (s \o t)[1] ELSE ArrayValue(s \o t)
    BY <1>1, <2>1, ToldOther
  <2>3. Len(s \o t) # 1
    <3>1. Len(s) \in Nat \ {0} /\ Len(t) \in Nat \ {0} BY EmptySeq
    <3>2. Len(s \o t) = Len(s) + Len(t) BY ConcatProperties
    <3> QED BY <3>1, <3>2
  <2> QED BY <2>2, <2>3 DEF Both
<1> QED BY <1>2, <1>3

LEMMA ToldOne ==
  ASSUME NEW l, NEW v \in ValuesFor(l)
  PROVE  Told(<<v>>) = v /\ v.form # "array"
<1> DEFINE s == <<v>>
<1>1. s \in Seq(ValuesFor(l)) /\ s # <<>> /\ Len(s) = 1 /\ s[1] = v OBVIOUS
<1> HIDE DEF s
<1>2. CASE l \in TextLabels
  <2>1. v \in TextValues /\ s \in Seq(TextValues) BY <1>1, <1>2 DEF ValuesFor
  <2>2. v.text \in TextType /\ v = StringValue(v.text) /\ v.form = "string" BY <2>1, TextValueIs
  <2>3. Told(s) = StringValue(Joined(TextsOf(s))) BY <1>1, <2>1, ToldText
  <2>4. TextsOf(s) = <<v.text>>
    <3>1. DOMAIN s = 1..1 /\ \A i \in 1..1 : i = 1 BY <1>1 DEF s
    <3>2. TextsOf(s) = [i \in 1..1 |-> v.text] BY <1>1, <3>1 DEF TextsOf
    <3>3. [i \in 1..1 |-> v.text] = <<v.text>> OBVIOUS
    <3> QED BY <3>2, <3>3
  <2>5. Joined(TextsOf(s)) = v.text BY <2>2, <2>4, JoinedOne
  <2> QED BY <2>2, <2>3, <2>5 DEF s
<1>3. CASE l \notin TextLabels
  <2>1. v \in OtherValues /\ s \in Seq(OtherValues) BY <1>1, <1>3 DEF ValuesFor
  <2>2. Told(s) = v BY <1>1, <2>1, ToldOther
  <2>3. v.form = "other" BY <2>1, OtherValueIs
  <2> QED BY <2>2, <2>3 DEF s
<1> QED BY <1>2, <1>3

\* The labels of some pairs and of others, and what they tell.
LEMMA TellsConcat ==
  ASSUME NEW s \in Seq(PairType), NEW t \in Seq(PairType)
  PROVE  /\ LabelsOf(s \o t) = LabelsOf(s) \cup LabelsOf(t)
         /\ \A l \in LabelsOf(s \o t) :
              TellsOf(s \o t)[l] = IF l \notin LabelsOf(s) THEN TellsOf(t)[l]
                                   ELSE IF l \notin LabelsOf(t) THEN TellsOf(s)[l]
                                   ELSE Both(TellsOf(s)[l], TellsOf(t)[l])
<1> DEFINE d == s \o t
<1>1. d \in Seq(PairType) BY ConcatProperties
<1>2. \A l : ValuesOf(d, l) = ValuesOf(s, l) \o ValuesOf(t, l) BY ValuesConcat
<1>3. \A l : /\ ValuesOf(d, l) # <<>> <=> l \in LabelsOf(d)
             /\ ValuesOf(s, l) # <<>> <=> l \in LabelsOf(s)
             /\ ValuesOf(t, l) # <<>> <=> l \in LabelsOf(t)
  BY <1>1, SomeValues
<1>4. \A l : ValuesOf(s, l) \in Seq(ValuesFor(l)) /\ ValuesOf(t, l) \in Seq(ValuesFor(l))
  BY ValuesType
<1> HIDE DEF d
<1>5. \A l : ValuesOf(d, l) = <<>> <=> ValuesOf(s, l) = <<>> /\ ValuesOf(t, l) = <<>>
  BY <1>2, <1>4, ConcatEqualIffEmpty
<1>6. LabelsOf(d) = LabelsOf(s) \cup LabelsOf(t) BY <1>3, <1>5
<1>7. ASSUME NEW l \in LabelsOf(d)
      PROVE  TellsOf(d)[l] = IF l \notin LabelsOf(s) THEN TellsOf(t)[l]
                             ELSE IF l \notin LabelsOf(t) THEN TellsOf(s)[l]
                             ELSE Both(TellsOf(s)[l], TellsOf(t)[l])
  <2>1. TellsOf(d)[l] = Told(ValuesOf(d, l)) BY <1>7 DEF TellsOf
  <2>2. l \in LabelsOf(s) => TellsOf(s)[l] = Told(ValuesOf(s, l)) BY DEF TellsOf
  <2>3. l \in LabelsOf(t) => TellsOf(t)[l] = Told(ValuesOf(t, l)) BY DEF TellsOf
  <2>4. CASE l \notin LabelsOf(s)
    <3>1. ValuesOf(s, l) = <<>> BY <2>4, <1>3
    <3>2. ValuesOf(d, l) = ValuesOf(t, l) BY <3>1, <1>2, <1>4, ConcatEmptySeq
    <3>3. l \in LabelsOf(t) BY <2>4, <1>6
    <3> QED BY <2>1, <2>3, <2>4, <3>2, <3>3
  <2>5. CASE l \in LabelsOf(s) /\ l \notin LabelsOf(t)
    <3>1. ValuesOf(t, l) = <<>> BY <2>5, <1>3
    <3>2. ValuesOf(d, l) = ValuesOf(s, l) BY <3>1, <1>2, <1>4, ConcatEmptySeq
    <3> QED BY <2>1, <2>2, <2>5, <3>2
  <2>6. CASE l \in LabelsOf(s) /\ l \in LabelsOf(t)
    <3>1. ValuesOf(s, l) # <<>> /\ ValuesOf(t, l) # <<>> BY <2>6, <1>3
    <3>2. Told(ValuesOf(s, l) \o ValuesOf(t, l)) = Both(Told(ValuesOf(s, l)), Told(ValuesOf(t, l)))
      BY <3>1, <1>4, ToldConcat
    <3> QED BY <2>1, <2>2, <2>3, <2>6, <3>2, <1>2
  <2> QED BY <2>4, <2>5, <2>6
<1> QED BY <1>6, <1>7 DEF d

\* A reader of two payloads has what one payload would tell.
LEMMA ContinuedTells ==
  ASSUME NEW s \in Seq(PairType), NEW t \in Seq(PairType)
  PROVE  Continued(TellsOf(s), TellsOf(t)) = TellsOf(s \o t)
<1>1. DOMAIN TellsOf(s) = LabelsOf(s) /\ DOMAIN TellsOf(t) = LabelsOf(t) BY DEF TellsOf
<1> DEFINE c == Continued(TellsOf(s), TellsOf(t))
           d == TellsOf(s \o t)
<1>2. DOMAIN d = LabelsOf(s) \cup LabelsOf(t) /\ d = [l \in DOMAIN d |-> d[l]]
  BY TellsConcat DEF TellsOf
<1>3. DOMAIN c = LabelsOf(s) \cup LabelsOf(t) /\ c = [l \in DOMAIN c |-> c[l]]
  BY <1>1 DEF Continued
<1>4. ASSUME NEW l \in LabelsOf(s) \cup LabelsOf(t) PROVE c[l] = d[l]
  <2>1. c[l] = IF l \notin LabelsOf(s) THEN TellsOf(t)[l]
               ELSE IF l \notin LabelsOf(t) THEN TellsOf(s)[l]
               ELSE Both(TellsOf(s)[l], TellsOf(t)[l])
    BY <1>1, <1>4 DEF Continued, Both
  <2> QED BY <2>1, <1>4, TellsConcat
<1> HIDE DEF c, d
<1>5. c = d BY <1>2, <1>3, <1>4
<1> QED BY <1>5 DEF c, d

\* One pair more is merged into the payload.
LEMMA MergedTells ==
  ASSUME NEW s \in Seq(PairType), NEW p \in PairType
  PROVE  merge_into(TellsOf(s), p[1], p[2]) = TellsOf(Append(s, p))
<1> DEFINE t == <<p>>
           l == p[1]
           v == p[2]
<1>0. v \in ValuesFor(l) BY DEF PairType
<1>1. t \in Seq(PairType) /\ Append(s, p) = s \o t OBVIOUS
<1>2. LabelsOf(t) = {l}
  <2>1. DOMAIN t = {1} /\ t[1] = p OBVIOUS
  <2> QED BY <2>1 DEF LabelsOf
<1>3. ValuesOf(t, l) = <<v>>
  <2>1. DOMAIN t = 1..1 /\ \A i \in 1..1 : t[i] = p OBVIOUS
  <2>2. Picked(t, l) = [i \in 1..1 |-> <<v>>] BY <2>1 DEF Picked
  <2>3. [i \in 1..1 |-> <<v>>] = <<<<v>>>> OBVIOUS
  <2>4. ValuesOf(t, l) = FlattenSeq(<<<<v>>>>) BY <2>2, <2>3 DEF ValuesOf, Picked
  <2>5. <<v>> \in Seq({v}) OBVIOUS
  <2> QED BY <2>4, <2>5, FlattenOne
<1>4. TellsOf(t)[l] = v /\ v.form # "array" BY <1>0, <1>2, <1>3, ToldOne DEF TellsOf
<1>5. ValuesOf(s, l) \in Seq(ValuesFor(l)) BY ValuesType
<1>6. l \in LabelsOf(s) => ValuesOf(s, l) # <<>> BY SomeValues
<1>7. DOMAIN TellsOf(s) = LabelsOf(s) BY DEF TellsOf
<1> DEFINE c == merge_into(TellsOf(s), l, v)
           d == TellsOf(s \o t)
<1>8. DOMAIN d = LabelsOf(s) \cup {l} /\ d = [k \in DOMAIN d |-> d[k]]
  <2>1. LabelsOf(s \o t) = LabelsOf(s) \cup {l} BY <1>1, <1>2, TellsConcat
  <2> QED BY <2>1 DEF TellsOf
<1>9. DOMAIN c = LabelsOf(s) \cup {l} /\ c = [k \in DOMAIN c |-> c[k]] BY <1>7 DEF merge_into
<1>10. \A k \in LabelsOf(s) \cup {l} :
         d[k] = IF k \notin LabelsOf(s) THEN TellsOf(t)[k]
                ELSE IF k \notin {l} THEN TellsOf(s)[k]
                ELSE Both(TellsOf(s)[k], TellsOf(t)[k])
  BY ZenonT(60), <1>1, <1>2, TellsConcat
<1>11. l \in LabelsOf(s) =>
         /\ TellsOf(s)[l] = Told(ValuesOf(s, l))
         /\ TellsOf(s)[l].form = "array" => Items(TellsOf(s)[l]) = TellsOf(s)[l].items
         /\ TellsOf(s)[l].form # "array" => Items(TellsOf(s)[l]) = <<TellsOf(s)[l]>>
  BY DEF TellsOf, Items
<1> DEFINE u == TellsOf(s)[l]
<1>12. l \in LabelsOf(s) /\ u.form = "array" => \E T : u.items \in Seq(T)
  <2>1. SUFFICES ASSUME l \in LabelsOf(s), u.form = "array" PROVE \E T : u.items \in Seq(T) OBVIOUS
  <2>2. l \notin TextLabels
    <3>1. SUFFICES ASSUME l \in TextLabels PROVE FALSE OBVIOUS
    <3>2. ValuesOf(s, l) \in Seq(TextValues) BY <1>5, <3>1 DEF ValuesFor
    <3>3. u = StringValue(Joined(TextsOf(ValuesOf(s, l)))) BY <3>2, <2>1, <1>6, <1>11, ToldText
    <3> QED BY <3>3, <2>1 DEF StringValue
  <2>3. ValuesOf(s, l) \in Seq(OtherValues) BY <1>5, <2>2 DEF ValuesFor
  <2>4. Items(u) = ValuesOf(s, l) BY <2>1, <2>3, <1>6, <1>11, ToldOther
  <2> QED BY <2>1, <2>3, <2>4, <1>11
<1>13. ASSUME NEW k \in LabelsOf(s) \cup {l} PROVE c[k] = d[k]
  <2>1. CASE k # l
    <3>1. c[k] = TellsOf(s)[k] BY <2>1, <1>7, <1>13 DEF merge_into
    <3> QED BY <3>1, <2>1, <1>10, <1>13
  <2>2. CASE k = l /\ l \notin LabelsOf(s)
    <3>1. c[k] = v BY <2>2, <1>7 DEF merge_into
    <3>2. d[k] = TellsOf(t)[l] BY <2>2, <1>10
    <3> QED BY <3>1, <3>2, <1>4
  <2>3. CASE k = l /\ l \in LabelsOf(s)
    <3>1. d[k] = Both(u, v) BY <2>3, <1>4, <1>10
    <3>2. c[k] = IF u.form = "string" /\ v.form = "string" THEN StringValue(Join(u.text, v.text))
                 ELSE IF u.form = "array" THEN ArrayValue(Append(u.items, v))
                 ELSE ArrayValue(<<u, v>>)
      BY <2>3, <1>7 DEF merge_into
    <3>3. Items(v) = <<v>> BY <1>4 DEF Items
    <3> HIDE DEF u, v, c, d
    <3>4. CASE u.form = "string" /\ v.form = "string" BY <3>1, <3>2, <3>4 DEF Both
    <3>5. CASE ~(u.form = "string" /\ v.form = "string") /\ u.form = "array"
      <4>1. PICK T : u.items \in Seq(T) BY <3>5, <2>3, <1>12
      <4>2. u.items \o <<v>> = Append(u.items, v) BY <4>1
      <4>3. Items(u) = u.items BY <3>5 DEF Items
      <4> QED BY <3>1, <3>2, <3>3, <3>5, <4>2, <4>3 DEF Both
    <3>6. CASE ~(u.form = "string" /\ v.form = "string") /\ u.form # "array"
      <4>1. <<u>> \o <<v>> = <<u, v>> BY TwoOf
      <4>2. Items(u) = <<u>> BY <3>6 DEF Items
      <4> QED BY <3>1, <3>2, <3>3, <3>6, <4>1, <4>2 DEF Both
    <3> QED BY <3>4, <3>5, <3>6
  <2> QED BY <2>1, <2>2, <2>3, <1>13
<1> HIDE DEF c, d
<1>14. c = d BY <1>8, <1>9, <1>13
<1> QED BY <1>1, <1>14 DEF c, d

LEMMA TellsNothing == TellsOf(<<>>) = <<>>
<1>1. LabelsOf(<<>>) = {} BY DEF LabelsOf
<1>2. TellsOf(<<>>) = [l \in {} |-> Told(ValuesOf(<<>>, l))] BY <1>1 DEF TellsOf
<1>3. DOMAIN <<>> = {} OBVIOUS
<1> QED BY <1>2

MapOf(g, pairs) ==
  g = [n \in 0..Len(pairs) |->
         IF n = 0 THEN <<>> ELSE merge_into(g[n - 1], pairs[n][1], pairs[n][2])]

LEMMA Restructured ==
  ASSUME NEW s \in Seq(MessageType)
  PROVE  restructure_messages(s) = TellsOf(LabelledAll(s))
<1> DEFINE P == LabelledAll(s)
           m == Len(P)
           h == [n \in 0..m |-> TellsOf(SubSeq(P, 1, n))]
<1>1. P \in Seq(PairType) /\ m \in Nat BY LabelledAllType, LenProperties
<1> HIDE DEF P
<1>2. h[0] = <<>>
  <2>1. SubSeq(P, 1, 0) = <<>> BY SubSeqEmpty
  <2>2. 0 \in 0..m BY <1>1
  <2> QED BY <2>1, <2>2, TellsNothing
<1>3. ASSUME NEW n \in 1..m PROVE h[n] = merge_into(h[n - 1], P[n][1], P[n][2])
  <2>1. n \in 0..m /\ n - 1 \in 0..m /\ 1 \in 1..m BY <1>1
  <2>2. SubSeq(P, 1, n) = SubSeq(P, 1, n - 1) \o <<P[n]>> BY <1>1, <2>1, SubSeqRecursiveSecond
  <2>3. P[n] \in PairType BY <1>1, ElementOfSeq
  <2>4. SubSeq(P, 1, n - 1) \in Seq(PairType)
    <3>1. \A i \in 1..n - 1 : P[i] \in PairType BY <1>1, ElementOfSeq
    <3> QED BY <3>1, <2>1, SubSeqProperties
  <2>5. SubSeq(P, 1, n - 1) \o <<P[n]>> = Append(SubSeq(P, 1, n - 1), P[n]) BY <2>3, <2>4
  <2>6. h[n] = TellsOf(SubSeq(P, 1, n)) /\ h[n - 1] = TellsOf(SubSeq(P, 1, n - 1)) BY <2>1
  <2> QED BY <2>2, <2>3, <2>4, <2>5, <2>6, MergedTells
<1> DEFINE last == h[m]
<1>4. last = TellsOf(P)
  <2>1. SubSeq(P, 1, m) = P BY <1>1, SubSeqFull
  <2>2. m \in 0..m BY <1>1
  <2> QED BY <2>1, <2>2
<1>5. DOMAIN h = 0..m /\ h = [n \in 0..m |-> h[n]] OBVIOUS
<1> HIDE DEF h, m
<1>6. MapOf(h, P)
  <2>1. \A n \in 0..m : h[n] = IF n = 0 THEN <<>> ELSE merge_into(h[n - 1], P[n][1], P[n][2])
    <3>1. \A n \in 0..m : n = 0 \/ n \in 1..m BY <1>1
    <3> QED BY <3>1, <1>2, <1>3
  <2>2. h = [n \in 0..m |-> IF n = 0 THEN <<>> ELSE merge_into(h[n - 1], P[n][1], P[n][2])]
    BY <2>1, <1>5
  <2> QED BY <2>2 DEF MapOf, m
<1>7. ASSUME NEW g, MapOf(g, P) PROVE g[m] = h[m]
  <2>1. \A n \in 0..m : g[n] = IF n = 0 THEN <<>> ELSE merge_into(g[n - 1], P[n][1], P[n][2])
    <3>1. g = [n \in 0..m |-> IF n = 0 THEN <<>> ELSE merge_into(g[n - 1], P[n][1], P[n][2])]
      BY <1>7 DEF MapOf, m
    <3> QED BY <3>1
  <2> DEFINE U == {n \in 0..m : g[n] # h[n]}
  <2>2. SUFFICES ASSUME U # {} PROVE FALSE
    <3>1. m \in 0..m BY <1>1
    <3> QED BY <3>1
  <2>3. U \in SUBSET Nat BY <1>1
  <2>4. PICK k \in U : \A y \in U : k <= y
    <3> HIDE DEF U
    <3> QED BY <2>2, <2>3, LeastNumber
  <2>5. k \in 0..m /\ g[k] # h[k] BY <2>4
  <2>6. k # 0
    <3>1. 0 \in 0..m BY <1>1
    <3> QED BY <3>1, <2>1, <2>5, <1>2
  <2>7. k \in 1..m /\ k - 1 \in 0..m /\ ~(k <= k - 1) BY <2>5, <2>6, <1>1
  <2>8. g[k - 1] = h[k - 1]
    <3>1. k - 1 \notin U BY <2>4, <2>7
    <3> QED BY <3>1, <2>7
  <2>9. g[k] = merge_into(g[k - 1], P[k][1], P[k][2]) BY <2>1, <2>5, <2>6
  <2>10. h[k] = merge_into(h[k - 1], P[k][1], P[k][2]) BY <1>3, <2>7
  <2> QED BY <2>5, <2>8, <2>9, <2>10
<1>8. restructure_messages(s) = (CHOOSE g : MapOf(g, P))[m]
  BY DEF restructure_messages, MapOf, P, m
<1>9. MapOf(CHOOSE g : MapOf(g, P), P) BY <1>6
<1>10. restructure_messages(s) = h[m] BY <1>7, <1>8, <1>9
<1> QED BY <1>4, <1>10 DEF P

-----------------------------------------------------------------------------
(* Exchanges: reminders that no hook wrote *)

TaggedTexts == {t \in TextType : t # <<>> /\ t[1] = "tag"}

Between(text, l, k) ==
  \E n \in DOMAIN text : text[n] = "tag" /\ ((l <= n /\ n <= k) \/ (k <= n /\ n <= l))

\* No hook speaks where piece k is.
Unspoken(text, k) == \A l \in DOMAIN text : text[l] = "hook" => Between(text, l, k)

LEMMA UnmarkedIs ==
  ASSUME NEW t
  PROVE  Unmarked(t) <=> \E k \in DOMAIN t : t[k] = "words" /\ Unspoken(t, k)
BY DEF Unmarked, Chunk, Unspoken, Between

\* A reminder begins with its tag, so what comes before it is apart from it.
LEMMA UnmarkedJoin ==
  ASSUME NEW a \in TextType, NEW b \in TaggedTexts
  PROVE  Unmarked(Join(a, b)) <=> Unmarked(a) \/ Unmarked(b)
<1> DEFINE j == Len(a)
           n == Len(b)
           s == Join(a, b)
<1>1. /\ j \in Nat /\ n \in Nat \ {0} /\ DOMAIN a = 1..j /\ DOMAIN b = 1..n /\ b[1] = "tag"
      /\ DOMAIN s = 1..j + 1 + n
      /\ \A i \in 1..j : s[i] = a[i]
      /\ s[j + 1] = "blank"
      /\ \A i \in 1..n : s[j + 1 + i] = b[i]
  <2> DEFINE C == {"tag", "hook", "words", "blank"}
             c == <<"blank">> \o b
  <2>1. a \in Seq(C) /\ b \in Seq(C) /\ <<"blank">> \in Seq(C) /\ b # <<>> /\ b[1] = "tag"
    BY DEF TextType, TaggedTexts
  <2>2. j \in Nat /\ n \in Nat \ {0} /\ DOMAIN a = 1..j /\ DOMAIN b = 1..n
    BY <2>1, EmptySeq, LenProperties
  <2>3. /\ c \in Seq(C) /\ Len(c) = 1 + n /\ c[1] = "blank"
        /\ \A i \in 1..n : c[1 + i] = b[i]
    <3>1. Len(<<"blank">>) = 1 /\ <<"blank">>[1] = "blank" OBVIOUS
    <3>2. /\ c \in Seq(C) /\ Len(c) = 1 + n
          /\ \A i \in 1..1 + n : c[i] = IF i <= 1 THEN <<"blank">>[i] ELSE b[i - 1]
      BY <2>1, <3>1, ConcatProperties
    <3>3. c[1] = "blank"
      <4>1. 1 \in 1..1 + n /\ 1 <= 1 BY <2>2
      <4> QED BY <3>1, <3>2, <4>1
    <3>4. ASSUME NEW i \in 1..n PROVE c[1 + i] = b[i]
      <4>1. 1 + i \in 1..1 + n /\ ~(1 + i <= 1) /\ (1 + i) - 1 = i BY <2>2
      <4>2. c[1 + i] = b[(1 + i) - 1] BY <3>2, <4>1
      <4> QED BY <4>1, <4>2
    <3> QED BY <3>2, <3>3, <3>4
  <2> HIDE DEF c, C
  <2>4. /\ a \o c \in Seq(C) /\ Len(a \o c) = j + (1 + n)
        /\ \A i \in 1..j + (1 + n) : (a \o c)[i] = IF i <= j THEN a[i] ELSE c[i - j]
    <3>1. /\ a \o c \in Seq(C) /\ Len(a \o c) = Len(a) + Len(c)
          /\ \A i \in 1..Len(a) + Len(c) : (a \o c)[i] = IF i <= Len(a) THEN a[i] ELSE c[i - Len(a)]
      <4>1. a \in Seq(C) /\ c \in Seq(C) BY <2>1, <2>3
      <4> QED BY <4>1, ConcatProperties
    <3> QED BY <3>1, <2>3
  <2>5. s = a \o c BY DEF Join, c
  <2> HIDE DEF s, j, n
  <2>6. DOMAIN s = 1..j + 1 + n
    <3>1. DOMAIN s = 1..Len(s) BY <2>4, <2>5, LenProperties
    <3>2. j + (1 + n) = j + 1 + n BY <2>2
    <3> QED BY <3>1, <3>2, <2>4, <2>5
  <2>7. \A i \in 1..j : i \in 1..j + (1 + n) /\ i <= j BY <2>2
  <2>8. \A i \in 1..1 + n : j + i \in 1..j + (1 + n) /\ ~(j + i <= j) /\ (j + i) - j = i BY <2>2
  <2>9. \A i \in 1..j : s[i] = a[i] BY <2>4, <2>5, <2>7
  <2>10. \A i \in 1..1 + n : s[j + i] = c[i] BY <2>4, <2>5, <2>8
  <2>11. \A i \in 1..n : 1 + i \in 1..1 + n /\ j + (1 + i) = j + 1 + i BY <2>2
  <2>12. 1 \in 1..1 + n BY <2>2
  <2>13. s[j + 1] = "blank" BY <2>3, <2>10, <2>12
  <2>14. \A i \in 1..n : s[j + 1 + i] = b[i] BY <2>3, <2>10, <2>11
  <2> QED BY <2>1, <2>2, <2>6, <2>9, <2>13, <2>14
<1> HIDE DEF j, n, s
<1>2. /\ j + 2 \in 1..j + 1 + n /\ s[j + 2] = "tag"
      /\ \A i \in 1..j : i \in 1..j + 1 + n
      /\ \A i \in 1..n : j + 1 + i \in 1..j + 1 + n
  <2>1. 1 \in 1..n /\ j + 1 + 1 = j + 2 BY <1>1
  <2>2. s[j + 2] = "tag" BY <2>1, <1>1
  <2> QED BY <2>2, <1>1
<1>3. \A i \in 1..j + 1 + n : i \in 1..j \/ i = j + 1 \/ (i - j - 1 \in 1..n /\ j + 1 + (i - j - 1) = i)
  BY <1>1
<1>4. ASSUME NEW k \in 1..j PROVE Unspoken(s, k) <=> Unspoken(a, k)
  <2>1. ASSUME Unspoken(a, k), NEW l \in 1..j + 1 + n, s[l] = "hook" PROVE Between(s, l, k)
    <3>1. CASE l \in 1..j
      <4>1. a[l] = "hook" BY <2>1, <3>1, <1>1
      <4>2. PICK m \in 1..j : a[m] = "tag" /\ ((l <= m /\ m <= k) \/ (k <= m /\ m <= l))
        BY <2>1, <3>1, <4>1, <1>1 DEF Unspoken, Between
      <4>3. s[m] = "tag" /\ m \in DOMAIN s BY <4>2, <1>1, <1>2
      <4> QED BY <4>2, <4>3 DEF Between
    <3>2. CASE l = j + 1 BY <3>2, <2>1, <1>1
    <3>3. CASE l - j - 1 \in 1..n
      <4>1. k <= j + 2 /\ j + 2 <= l BY <3>3, <1>1
      <4> QED BY <4>1, <1>1, <1>2 DEF Between
    <3> QED BY <3>1, <3>2, <3>3, <1>3
  <2>2. ASSUME Unspoken(s, k), NEW l \in 1..j, a[l] = "hook" PROVE Between(a, l, k)
    <3>1. s[l] = "hook" /\ l \in DOMAIN s BY <2>2, <1>1, <1>2
    <3>2. PICK m \in 1..j + 1 + n : s[m] = "tag" /\ ((l <= m /\ m <= k) \/ (k <= m /\ m <= l))
      BY <2>2, <3>1, <1>1 DEF Unspoken, Between
    <3>3. m \in 1..j BY <3>2, <1>1
    <3>4. a[m] = "tag" BY <3>2, <3>3, <1>1
    <3> QED BY <3>2, <3>3, <3>4, <1>1 DEF Between
  <2> QED BY <2>1, <2>2, <1>1 DEF Unspoken
<1>5. ASSUME NEW k \in 1..n PROVE Unspoken(s, j + 1 + k) <=> Unspoken(b, k)
  <2>1. ASSUME Unspoken(b, k), NEW l \in 1..j + 1 + n, s[l] = "hook" PROVE Between(s, l, j + 1 + k)
    <3>1. CASE l \in 1..j
      <4>1. l <= j + 2 /\ j + 2 <= j + 1 + k BY <3>1, <1>1
      <4> QED BY <4>1, <1>1, <1>2 DEF Between
    <3>2. CASE l = j + 1 BY <3>2, <2>1, <1>1
    <3>3. CASE l - j - 1 \in 1..n
      <4> DEFINE o == l - j - 1
      <4>1. o \in 1..n /\ l = j + 1 + o BY <3>3, <1>1
      <4> HIDE DEF o
      <4>2. b[o] = "hook" BY <2>1, <4>1, <1>1
      <4>3. PICK m \in 1..n : b[m] = "tag" /\ ((o <= m /\ m <= k) \/ (k <= m /\ m <= o))
        BY <2>1, <4>1, <4>2, <1>1 DEF Unspoken, Between
      <4>4. s[j + 1 + m] = "tag" /\ j + 1 + m \in DOMAIN s BY <4>3, <1>1, <1>2
      <4>5. (l <= j + 1 + m /\ j + 1 + m <= j + 1 + k) \/ (j + 1 + k <= j + 1 + m /\ j + 1 + m <= l)
        BY <4>1, <4>3, <1>1
      <4> QED BY <4>4, <4>5 DEF Between
    <3> QED BY <3>1, <3>2, <3>3, <1>3
  <2>2. ASSUME Unspoken(s, j + 1 + k), NEW l \in 1..n, b[l] = "hook" PROVE Between(b, l, k)
    <3> DEFINE o == j + 1 + l
    <3>1. s[o] = "hook" /\ o \in DOMAIN s BY <2>2, <1>1, <1>2
    <3>2. PICK m \in 1..j + 1 + n : s[m] = "tag" /\ ((o <= m /\ m <= j + 1 + k)
                                                     \/ (j + 1 + k <= m /\ m <= o))
      <4> HIDE DEF o
      <4> QED BY <2>2, <3>1, <1>1 DEF Unspoken, Between
    <3>3. m - j - 1 \in 1..n /\ j + 1 + (m - j - 1) = m BY <3>2, <1>1
    <3>4. b[m - j - 1] = "tag" BY <3>2, <3>3, <1>1
    <3>5. (l <= m - j - 1 /\ m - j - 1 <= k) \/ (k <= m - j - 1 /\ m - j - 1 <= l)
      BY <3>2, <1>1
    <3> QED BY <3>3, <3>4, <3>5, <1>1 DEF Between
  <2>3. j + 1 + k \in DOMAIN s BY <1>1, <1>2
  <2> QED BY <2>1, <2>2, <1>1 DEF Unspoken
<1>6. Unmarked(s) => Unmarked(a) \/ Unmarked(b)
  <2>1. SUFFICES ASSUME NEW k \in 1..j + 1 + n, s[k] = "words", Unspoken(s, k)
                 PROVE  Unmarked(a) \/ Unmarked(b)
    BY <1>1, UnmarkedIs
  <2>2. CASE k \in 1..j
    <3>1. a[k] = "words" /\ Unspoken(a, k) BY <2>1, <2>2, <1>1, <1>4
    <3> QED BY <3>1, <2>2, <1>1, UnmarkedIs
  <2>3. CASE k = j + 1 BY <2>1, <2>3, <1>1
  <2>4. CASE k - j - 1 \in 1..n
    <3> DEFINE o == k - j - 1
    <3>1. o \in 1..n /\ k = j + 1 + o BY <2>4, <1>1
    <3> HIDE DEF o
    <3>2. b[o] = "words" /\ Unspoken(b, o) BY <2>1, <3>1, <1>1, <1>5
    <3> QED BY <3>1, <3>2, <1>1, UnmarkedIs
  <2> QED BY <2>2, <2>3, <2>4, <1>3
<1>7. Unmarked(a) => Unmarked(s)
  <2>1. SUFFICES ASSUME NEW k \in 1..j, a[k] = "words", Unspoken(a, k) PROVE Unmarked(s)
    BY <1>1, UnmarkedIs
  <2>2. s[k] = "words" /\ Unspoken(s, k) /\ k \in DOMAIN s BY <2>1, <1>1, <1>2, <1>4
  <2> QED BY <2>2, UnmarkedIs
<1>8. Unmarked(b) => Unmarked(s)
  <2>1. SUFFICES ASSUME NEW k \in 1..n, b[k] = "words", Unspoken(b, k) PROVE Unmarked(s)
    BY <1>1, UnmarkedIs
  <2>2. s[j + 1 + k] = "words" /\ Unspoken(s, j + 1 + k) /\ j + 1 + k \in DOMAIN s
    BY <2>1, <1>1, <1>2, <1>5
  <2> QED BY <2>2, UnmarkedIs
<1> QED BY <1>6, <1>7, <1>8 DEF s

LEMMA UnmarkedJoined ==
  \A s \in Seq(TaggedTexts) :
    s # <<>> => (Unmarked(Joined(s)) <=> \E x : In(x, s) /\ Unmarked(x))
<1> DEFINE P(s) == s # <<>> => (Unmarked(Joined(s)) <=> \E x : In(x, s) /\ Unmarked(x))
           U == {s \in Seq(TaggedTexts) : P(s)}
<1>0. TaggedTexts \subseteq TextType BY DEF TaggedTexts
<1>1. <<>> \in U OBVIOUS
<1>2. ASSUME NEW s \in Seq(TaggedTexts), s \in U, NEW y \in TaggedTexts PROVE Append(s, y) \in U
  <2>1. Append(s, y) = s \o <<y>> /\ Append(s, y) \in Seq(TaggedTexts) OBVIOUS
  <2>2. s \in Seq(TextType) /\ y \in TextType /\ <<y>> \in Seq(TextType) BY <1>0, SeqMonotonic
  <2>3. \A x : In(x, Append(s, y)) <=> In(x, s) \/ x = y BY InAppend
  <2>4. Joined(<<y>>) = y BY <2>2, JoinedOne
  <2>5. CASE s = <<>>
    <3>1. Append(s, y) = <<y>> BY <2>5
    <3>2. \A x : ~In(x, s) BY <2>5 DEF In
    <3>3. P(Append(s, y)) BY <2>3, <2>4, <3>1, <3>2
    <3> QED BY <2>1, <3>3
  <2>6. CASE s # <<>>
    <3>1. <<y>> # <<>> OBVIOUS
    <3>2. Joined(s \o <<y>>) = Join(Joined(s), Joined(<<y>>)) BY <2>2, <2>6, <3>1, JoinedConcat
    <3>3. Joined(s) \in TextType BY <2>2, JoinedType
    <3>4. Unmarked(Join(Joined(s), y)) <=> Unmarked(Joined(s)) \/ Unmarked(y)
      BY <3>3, UnmarkedJoin
    <3>5. Unmarked(Joined(s)) <=> \E x : In(x, s) /\ Unmarked(x) BY <1>2, <2>6
    <3>6. Unmarked(Joined(Append(s, y))) <=> Unmarked(Joined(s)) \/ Unmarked(y)
      BY <2>1, <2>4, <3>2, <3>4
    <3>7. P(Append(s, y)) BY <2>3, <3>5, <3>6
    <3> QED BY <2>1, <3>7
  <2> QED BY <2>5, <2>6
<1> HIDE DEF U
<1>3. Seq(TaggedTexts) \subseteq U BY <1>1, <1>2, AllSequences
<1> QED BY <1>3 DEF U

Warns(pairs) == \E x : In(<<"system", x>>, pairs) /\ Unmarked(x.text)

WellTagged(pairs) == \A x : In(<<"system", x>>, pairs) => x.text \in TaggedTexts

LEMMA InjectionTells ==
  ASSUME NEW s \in Seq(PairType), WellTagged(s)
  PROVE  has_platform_injection(TellsOf(s)) <=> Warns(s)
<1> DEFINE v == ValuesOf(s, "system")
           n == Len(v)
           t == TextsOf(v)
<1>1. v \in Seq(TextValues)
  <2>1. "system" \in TextLabels BY DEF TextLabels
  <2> QED BY <2>1, ValuesType DEF ValuesFor
<1>2. \A x : In(x, v) <=> In(<<"system", x>>, s) BY ValuesIn
<1>3. "system" \in LabelsOf(s) <=> v # <<>> BY SomeValues
<1>4. DOMAIN TellsOf(s) = LabelsOf(s)
      /\ ("system" \in LabelsOf(s) => TellsOf(s)["system"] = Told(v))
  BY DEF TellsOf
<1> HIDE DEF v
<1>5. CASE v = <<>>
  <2>1. \A x : ~In(x, v) BY <1>5 DEF In
  <2>2. ~Warns(s) BY <2>1, <1>2 DEF Warns
  <2>3. ~has_platform_injection(TellsOf(s)) BY <1>3, <1>4, <1>5 DEF has_platform_injection
  <2> QED BY <2>2, <2>3
<1>6. CASE v # <<>>
  <2>1. Told(v) = StringValue(Joined(t)) /\ t # <<>> BY <1>1, <1>6, ToldText
  <2>2. Told(v).form = "string" /\ Told(v).text = Joined(t) BY <2>1 DEF StringValue
  <2>3. has_platform_injection(TellsOf(s)) <=> Unmarked(Joined(t))
    BY <2>2, <1>3, <1>4, <1>6 DEF has_platform_injection
  <2>4. DOMAIN v = 1..n /\ n \in Nat BY <1>1, LenProperties
  <2>5. DOMAIN t = 1..n /\ t \in Seq(TextType) /\ Len(t) = n BY <1>1, TextsType
  <2> HIDE DEF n
  <2>6. \A i \in 1..n : t[i] = v[i].text BY <2>4 DEF TextsOf
  <2> HIDE DEF t
  <2>7. \A i \in 1..n : t[i] \in TaggedTexts
    <3>1. \A i \in 1..n : In(v[i], v) BY <2>4 DEF In
    <3> QED BY <3>1, <2>6, <1>2 DEF WellTagged
  <2>8. t \in Seq(TaggedTexts)
    <3>1. t \in [1..n -> TaggedTexts]
      <4>1. t = [i \in DOMAIN t |-> t[i]] BY <2>5
      <4> QED BY <4>1, <2>5, <2>7
    <3> QED BY <3>1, <2>4, SeqDef
  <2>9. Unmarked(Joined(t)) <=> \E x : In(x, t) /\ Unmarked(x) BY <2>1, <2>8, UnmarkedJoined
  <2>10. (\E x : In(x, t) /\ Unmarked(x)) <=> \E x : In(x, v) /\ Unmarked(x.text)
    BY <2>4, <2>5, <2>6 DEF In
  <2> QED BY <2>3, <2>9, <2>10, <1>2 DEF Warns
<1> QED BY <1>5, <1>6

LEMMA WarnsConcat ==
  ASSUME NEW s \in Seq(PairType), NEW t \in Seq(PairType)
  PROVE  /\ Warns(s \o t) <=> Warns(s) \/ Warns(t)
         /\ WellTagged(s \o t) <=> WellTagged(s) /\ WellTagged(t)
<1>1. \A x : In(x, s \o t) <=> In(x, s) \/ In(x, t) BY InConcat
<1> QED BY <1>1 DEF Warns, WellTagged

\* What is labelled as the system's are the text blocks with a tag.
LEMMA RemindersOfBlock ==
  ASSUME NEW b, NEW role, NEW v
  PROVE  In(<<"system", v>>, restructure_block(b, role)) <=>
           b.type = "text" /\ "tag" \in Range(b.text) /\ v = StringValue(b.text)
<1> DEFINE p == <<"system", v>>
           tool == tool_label(IF b.name = NoName THEN "unknown" ELSE b.name)
           r == extract_tool_result_text(b)
<1>1. \A x : In(p, <<x>>) <=> x = p
  <2>1. \A x : DOMAIN <<x>> = {1} /\ <<x>>[1] = x OBVIOUS
  <2> QED BY <2>1 DEF In
<1>2. ~In(p, <<>>) BY DEF In
<1>3. tool # "system" BY DEF tool_label
<1>4. BySpeaker(role) # "system" BY DEF BySpeaker
<1> HIDE DEF tool, p
<1>5. \A l, x : <<l, x>> = p <=> l = "system" /\ x = v BY DEF p
<1>6. CASE b.type = "text"
  <2>1. restructure_block(b, role) =
          <<<<IF "tag" \in Range(b.text) THEN "system" ELSE BySpeaker(role), StringValue(b.text)>>>>
    BY <1>6 DEF restructure_block
  <2> QED BY <2>1, <1>1, <1>4, <1>5, <1>6 DEF p
<1>7. CASE b.type # "text"
  <2>1. restructure_block(b, role) \in
          {<<<<"thinking", StringValue(b.text)>>>>, <<<<tool, OtherValue(b.input)>>>>,
           <<<<"tool_return", StringValue(r)>>>>, <<>>}
    BY <1>7 DEF restructure_block, tool
  <2>2. ~In(p, restructure_block(b, role)) BY <2>1, <1>1, <1>2, <1>3, <1>5
  <2> QED BY <2>2, <1>7 DEF p
<1> QED BY <1>6, <1>7

LEMMA RemindersAre ==
  ASSUME NEW s \in Seq(MessageType), NEW v
  PROVE  In(<<"system", v>>, LabelledAll(s)) <=>
           \E b \in TextBlocks(s) : v = StringValue(b.text)
<1> DEFINE n == Len(s)
           Reminds(b) == b.type = "text" /\ "tag" \in Range(b.text) /\ v = StringValue(b.text)
<1>1. DOMAIN s = 1..n /\ \A i \in 1..n : s[i] \in MessageType BY LenProperties, ElementOfSeq
<1>2. EachLabelled(s) \in Seq(Seq(PairType)) /\ DOMAIN EachLabelled(s) = 1..n BY EachType
<1>3. In(<<"system", v>>, FlattenSeq(EachLabelled(s)))
        <=> \E i \in DOMAIN EachLabelled(s) : In(<<"system", v>>, EachLabelled(s)[i])
  BY <1>2, InFlatten
<1> HIDE DEF n
<1>4. \A i \in 1..n : EachLabelled(s)[i] = Labelled(s[i]) BY <1>1 DEF EachLabelled
<1>5. ASSUME NEW m \in MessageType
      PROVE  In(<<"system", v>>, Labelled(m)) <=> \E k \in DOMAIN m.blocks : Reminds(m.blocks[k])
  <2>1. m.blocks \in Seq(BlockType) /\ m.plain \in BOOLEAN /\ (m.plain => m.blocks = <<>>)
    BY DEF MessageType
  <2>2. CASE m.plain
    <3>1. DOMAIN m.blocks = {} BY <2>1, <2>2
    <3>2. Labelled(m) = <<<<BySpeaker(m.role), StringValue(m.text)>>>> BY <2>2 DEF Labelled
    <3>3. DOMAIN Labelled(m) = {1} /\ Labelled(m)[1][1] = BySpeaker(m.role) BY <3>2
    <3>4. BySpeaker(m.role) # "system" BY DEF BySpeaker
    <3>5. <<"system", v>>[1] = "system" OBVIOUS
    <3>6. ~In(<<"system", v>>, Labelled(m)) BY <3>3, <3>4, <3>5 DEF In
    <3> QED BY <3>1, <3>6
  <2>3. CASE ~m.plain
    <3> DEFINE q == [i \in DOMAIN m.blocks |-> restructure_block(m.blocks[i], m.role)]
               o == Len(m.blocks)
    <3>1. DOMAIN m.blocks = 1..o /\ o \in Nat /\ \A i \in 1..o : m.blocks[i] \in BlockType
      BY <2>1, LenProperties, ElementOfSeq
    <3> HIDE DEF o
    <3>2. \A i \in 1..o : restructure_block(m.blocks[i], m.role) \in Seq(PairType)
      BY <3>1, BlockLabelled
    <3>3. q \in [1..o -> Seq(PairType)] BY <3>1, <3>2
    <3>4. q \in Seq(Seq(PairType)) BY <3>1, <3>3, SeqDef
    <3>5. Labelled(m) = FlattenSeq(q) BY <2>3 DEF Labelled
    <3>6. DOMAIN q = 1..o /\ \A i \in 1..o : q[i] = restructure_block(m.blocks[i], m.role)
      BY <3>1
    <3> HIDE DEF q
    <3>7. In(<<"system", v>>, FlattenSeq(q)) <=> \E i \in DOMAIN q : In(<<"system", v>>, q[i])
      BY <3>4, InFlatten
    <3>8. \A i \in 1..o : In(<<"system", v>>, q[i]) <=> Reminds(m.blocks[i]) BY <3>6, RemindersOfBlock
    <3> HIDE DEF Reminds
    <3> QED BY <3>1, <3>5, <3>6, <3>7, <3>8
  <2> QED BY <2>1, <2>2, <2>3
<1>6. (\E i \in 1..n : \E k \in DOMAIN s[i].blocks : Reminds(s[i].blocks[k]))
        <=> \E b \in TextBlocks(s) : v = StringValue(b.text)
  BY <1>1 DEF TextBlocks, BlocksOf, Range
<1> HIDE DEF Reminds
<1>7. In(<<"system", v>>, FlattenSeq(EachLabelled(s)))
        <=> \E i \in 1..n : \E k \in DOMAIN s[i].blocks : Reminds(s[i].blocks[k])
  <2>1. \A i \in 1..n : In(<<"system", v>>, EachLabelled(s)[i])
                           <=> \E k \in DOMAIN s[i].blocks : Reminds(s[i].blocks[k])
    BY <1>1, <1>4, <1>5
  <2> QED BY <2>1, <1>2, <1>3
<1> QED BY <1>6, <1>7 DEF LabelledAll, EachLabelled

-----------------------------------------------------------------------------
(* Exchanges: marks and their removal *)

Stripped(messages) == [i \in DOMAIN messages |-> strip_transient(messages[i])]

\* The same to a reader who does not see the marks.
SameBlock(b, c) ==
  b.type = c.type /\ b.text = c.text /\ b.name = c.name /\ b.input = c.input
  /\ b.results = c.results

SameWords(m, n) ==
  /\ m.plain = n.plain /\ m.role = n.role /\ m.text = n.text
  /\ DOMAIN m.blocks = DOMAIN n.blocks
  /\ \A k \in DOMAIN n.blocks : SameBlock(m.blocks[k], n.blocks[k])

LEMMA SameLabelled ==
  ASSUME NEW m, NEW n, SameWords(m, n)
  PROVE  Labelled(m) = Labelled(n)
<1>1. /\ m.plain = n.plain /\ m.role = n.role /\ m.text = n.text
      /\ DOMAIN m.blocks = DOMAIN n.blocks
      /\ \A k \in DOMAIN n.blocks : SameBlock(m.blocks[k], n.blocks[k])
  BY DEF SameWords
<1>2. ASSUME NEW k \in DOMAIN n.blocks
      PROVE  restructure_block(m.blocks[k], m.role) = restructure_block(n.blocks[k], n.role)
  <2>1. SameBlock(m.blocks[k], n.blocks[k]) BY <1>1
  <2> QED BY <1>1, <2>1 DEF SameBlock, restructure_block, extract_tool_result_text
<1>3. [k \in DOMAIN m.blocks |-> restructure_block(m.blocks[k], m.role)]
        = [k \in DOMAIN n.blocks |-> restructure_block(n.blocks[k], n.role)]
  BY <1>1, <1>2
<1> QED BY <1>1, <1>3 DEF Labelled

LEMMA LabelledSame ==
  ASSUME NEW s, NEW t, DOMAIN s = DOMAIN t, \A i \in DOMAIN t : SameWords(s[i], t[i])
  PROVE  LabelledAll(s) = LabelledAll(t)
<1>1. \A i \in DOMAIN t : Labelled(s[i]) = Labelled(t[i]) BY SameLabelled
<1>2. EachLabelled(s) = EachLabelled(t) BY <1>1 DEF EachLabelled
<1> QED BY <1>2 DEF EachLabelled, LabelledAll

LEMMA StripIs ==
  ASSUME NEW n, n = [role |-> n.role, plain |-> n.plain, text |-> n.text, blocks |-> n.blocks,
                     transient |-> n.transient]
  PROVE  strip_transient(n) =
           [role |-> n.role, plain |-> n.plain, text |-> n.text,
            blocks |-> [k \in DOMAIN n.blocks |-> [n.blocks[k] EXCEPT !.transient = FALSE]],
            transient |-> FALSE]
<1> DEFINE b == [k \in DOMAIN n.blocks |-> [n.blocks[k] EXCEPT !.transient = FALSE]]
           u == [n EXCEPT !.transient = FALSE]
           r == n.role
           p == n.plain
           t == n.text
           c == n.blocks
           x == n.transient
           no == FALSE
<1>1. strip_transient(n) = [u EXCEPT !.blocks = b] BY DEF strip_transient
<1>2. u = [n EXCEPT !.transient = no] OBVIOUS
<1>3. n = [role |-> r, plain |-> p, text |-> t, blocks |-> c, transient |-> x] OBVIOUS
<1> HIDE DEF b, u, r, p, t, c, x, no
<1>4. u = [role |-> r, plain |-> p, text |-> t, blocks |-> c, transient |-> no] BY <1>2, <1>3
<1>5. [u EXCEPT !.blocks = b] = [role |-> r, plain |-> p, text |-> t, blocks |-> b,
                                 transient |-> no]
  BY <1>4
<1>6. strip_transient(n) = [role |-> r, plain |-> p, text |-> t, blocks |-> b, transient |-> no]
  BY <1>1, <1>5
<1> QED BY <1>6 DEF b, r, p, t, c, no

\* A message but for the marks of its blocks.
Remarked(m, n) ==
  /\ m = [role |-> n.role, plain |-> n.plain, text |-> n.text, blocks |-> m.blocks,
          transient |-> m.transient]
  /\ DOMAIN m.blocks = DOMAIN n.blocks
  /\ m.blocks = [k \in DOMAIN n.blocks |->
                   [n.blocks[k] EXCEPT !.transient = m.blocks[k].transient]]

LEMMA RemarkedSame ==
  ASSUME NEW n \in MessageType, NEW m, Remarked(m, n), m.transient \in BOOLEAN,
         \A k \in DOMAIN n.blocks : m.blocks[k].transient \in BOOLEAN
  PROVE  m \in MessageType /\ SameWords(m, n) /\ strip_transient(m) = strip_transient(n)
<1>1. /\ n.blocks \in Seq(BlockType) /\ (n.plain => n.blocks = <<>>)
      /\ n = [role |-> n.role, plain |-> n.plain, text |-> n.text, blocks |-> n.blocks,
              transient |-> n.transient]
  BY DEF MessageType
<1>2. /\ m = [role |-> n.role, plain |-> n.plain, text |-> n.text, blocks |-> m.blocks,
              transient |-> m.transient]
      /\ DOMAIN m.blocks = DOMAIN n.blocks
      /\ m.blocks = [k \in DOMAIN n.blocks |->
                       [n.blocks[k] EXCEPT !.transient = m.blocks[k].transient]]
  BY <1>1 DEF Remarked
<1> DEFINE o == Len(n.blocks)
<1>3. DOMAIN n.blocks = 1..o /\ o \in Nat /\ \A k \in 1..o : n.blocks[k] \in BlockType
  BY <1>1, LenProperties, ElementOfSeq
<1> HIDE DEF o
<1>4. ASSUME NEW k \in 1..o
      PROVE  /\ m.blocks[k] \in BlockType /\ SameBlock(m.blocks[k], n.blocks[k])
             /\ [m.blocks[k] EXCEPT !.transient = FALSE] = [n.blocks[k] EXCEPT !.transient = FALSE]
  <2>1. m.blocks[k] = [n.blocks[k] EXCEPT !.transient = m.blocks[k].transient] BY <1>2, <1>3
  <2>2. n.blocks[k] \in BlockType /\ m.blocks[k].transient \in BOOLEAN BY <1>3
  <2>3. n.blocks[k] = [type |-> n.blocks[k].type, text |-> n.blocks[k].text,
                       name |-> n.blocks[k].name, input |-> n.blocks[k].input,
                       results |-> n.blocks[k].results, transient |-> n.blocks[k].transient]
    BY <2>2 DEF BlockType
  <2> QED BY <2>1, <2>2, <2>3 DEF BlockType, SameBlock
<1>5. m.blocks \in Seq(BlockType)
  <2>1. m.blocks = [k \in 1..o |-> m.blocks[k]] BY <1>2, <1>3
  <2>2. m.blocks \in [1..o -> BlockType] BY <2>1, <1>4
  <2> QED BY <2>2, <1>3, SeqDef
<1>6. n.plain => m.blocks = <<>>
  <2>1. SUFFICES ASSUME n.plain PROVE m.blocks = <<>> OBVIOUS
  <2>2. DOMAIN m.blocks = {} BY <1>1, <1>2, <2>1
  <2>3. Len(m.blocks) = 0 BY <1>5, <2>2, LenProperties
  <2> QED BY <1>5, <2>3, EmptySeq
<1>7. m \in MessageType
  <2>1. n.role \in {x.role : x \in TurnMessages} /\ n.plain \in BOOLEAN /\ n.text \in TextType
    BY DEF MessageType
  <2> DEFINE all == [role : {x.role : x \in TurnMessages}, plain : BOOLEAN, text : TextType,
                     blocks : Seq(BlockType), transient : BOOLEAN]
  <2>2. m \in all
    <3> DEFINE c == m.blocks
               x == m.transient
               roles == {y.role : y \in TurnMessages}
    <3>1. m = [role |-> n.role, plain |-> n.plain, text |-> n.text, blocks |-> c, transient |-> x]
      BY <1>2
    <3>2. c \in Seq(BlockType) /\ x \in BOOLEAN /\ n.role \in roles /\ n.plain \in BOOLEAN
          /\ n.text \in TextType
      BY <2>1, <1>5
    <3> HIDE DEF c, x, roles
    <3> QED BY <3>1, <3>2 DEF roles
  <2>3. m.plain = n.plain BY <1>2
  <2> HIDE DEF all
  <2>4. m \in {x \in all : x.plain => x.blocks = <<>>} BY <2>2, <2>3, <1>6
  <2> QED BY <2>4 DEF MessageType, all
<1>8. SameWords(m, n)
  <2>1. m.plain = n.plain /\ m.role = n.role /\ m.text = n.text BY SMTT(30), <1>2
  <2> QED BY ZenonT(60), <2>1, <1>2, <1>3, <1>4 DEF SameWords
<1>9. strip_transient(m) = strip_transient(n)
  <2>1. [k \in DOMAIN m.blocks |-> [m.blocks[k] EXCEPT !.transient = FALSE]]
          = [k \in DOMAIN n.blocks |-> [n.blocks[k] EXCEPT !.transient = FALSE]]
    BY <1>2, <1>3, <1>4
  <2>2. strip_transient(m) =
          [role |-> n.role, plain |-> n.plain, text |-> n.text,
           blocks |-> [k \in DOMAIN m.blocks |-> [m.blocks[k] EXCEPT !.transient = FALSE]],
           transient |-> FALSE]
    <3>1. m.role = n.role /\ m.plain = n.plain /\ m.text = n.text BY <1>2
    <3>2. m = [role |-> m.role, plain |-> m.plain, text |-> m.text, blocks |-> m.blocks,
               transient |-> m.transient]
      BY <3>1, <1>2
    <3> QED BY <3>1, <3>2, StripIs
  <2>3. strip_transient(n) =
          [role |-> n.role, plain |-> n.plain, text |-> n.text,
           blocks |-> [k \in DOMAIN n.blocks |-> [n.blocks[k] EXCEPT !.transient = FALSE]],
           transient |-> FALSE]
    BY <1>1, StripIs
  <2> QED BY <2>1, <2>2, <2>3
<1> QED BY <1>7, <1>8, <1>9

LEMMA StripRemarks ==
  ASSUME NEW n \in MessageType
  PROVE  strip_transient(n) \in MessageType /\ SameWords(strip_transient(n), n)
<1> DEFINE m == strip_transient(n)
<1>1. n = [role |-> n.role, plain |-> n.plain, text |-> n.text, blocks |-> n.blocks,
           transient |-> n.transient] /\ n.blocks \in Seq(BlockType)
  BY DEF MessageType
<1>2. m = [role |-> n.role, plain |-> n.plain, text |-> n.text,
           blocks |-> [k \in DOMAIN n.blocks |-> [n.blocks[k] EXCEPT !.transient = FALSE]],
           transient |-> FALSE]
  BY <1>1, StripIs
<1> HIDE DEF m
<1>3. \A k \in DOMAIN n.blocks : n.blocks[k] \in BlockType BY <1>1, LenProperties, ElementOfSeq
<1>4. \A k \in DOMAIN n.blocks : [n.blocks[k] EXCEPT !.transient = FALSE].transient = FALSE
  BY <1>3 DEF BlockType
<1>5. /\ m.transient = FALSE /\ DOMAIN m.blocks = DOMAIN n.blocks
      /\ \A k \in DOMAIN n.blocks : m.blocks[k] = [n.blocks[k] EXCEPT !.transient = FALSE]
  BY <1>2
<1>6. \A k \in DOMAIN n.blocks : m.blocks[k].transient = FALSE BY <1>4, <1>5
<1>7. m.blocks = [k \in DOMAIN n.blocks |->
                    [n.blocks[k] EXCEPT !.transient = m.blocks[k].transient]]
  <2>1. m.blocks = [k \in DOMAIN n.blocks |-> [n.blocks[k] EXCEPT !.transient = FALSE]] BY <1>2
  <2> QED BY <2>1, <1>6
<1>8. m = [role |-> n.role, plain |-> n.plain, text |-> n.text, blocks |-> m.blocks,
           transient |-> m.transient]
  BY <1>2
<1>9. Remarked(m, n) BY <1>5, <1>7, <1>8 DEF Remarked
<1>10. m \in MessageType /\ SameWords(m, n) BY <1>5, <1>6, <1>9, RemarkedSame
<1> QED BY <1>10 DEF m

\* The client's mark, taken off again, leaves no trace.
LEMMA MarkedLike ==
  ASSUME NEW s \in Seq(MessageType)
  PROVE  /\ Marked(s) \in Seq(MessageType) /\ DOMAIN Marked(s) = DOMAIN s
         /\ \A i \in DOMAIN s : /\ SameWords(Marked(s)[i], s[i])
                                /\ strip_transient(Marked(s)[i]) = strip_transient(s[i])
<1> DEFINE o == Len(s)
<1>1. DOMAIN s = 1..o /\ o \in Nat /\ \A i \in 1..o : s[i] \in MessageType
  BY LenProperties, ElementOfSeq
<1> HIDE DEF o
<1>2. ASSUME NEW i \in 1..o
      PROVE  /\ Marked(s)[i] \in MessageType /\ SameWords(Marked(s)[i], s[i])
             /\ strip_transient(Marked(s)[i]) = strip_transient(s[i])
  <2> DEFINE n == s[i]
             m == Marked(s)[i]
             AtEnd(k) == i = Len(s) /\ k = Len(s[i].blocks)
  <2>1. n \in MessageType BY <1>1
  <2>2. n = [role |-> n.role, plain |-> n.plain, text |-> n.text, blocks |-> n.blocks,
             transient |-> n.transient] /\ n.blocks \in Seq(BlockType) /\ n.transient \in BOOLEAN
    BY <2>1 DEF MessageType
  <2>3. m = [n EXCEPT !.blocks = [k \in DOMAIN n.blocks |->
                                    [n.blocks[k] EXCEPT !.transient = AtEnd(k)]]]
    BY <1>1 DEF Marked
  <2> HIDE DEF m, n
  <2>4. m = [role |-> n.role, plain |-> n.plain, text |-> n.text,
             blocks |-> [k \in DOMAIN n.blocks |-> [n.blocks[k] EXCEPT !.transient = AtEnd(k)]],
             transient |-> n.transient]
    BY <2>2, <2>3
  <2>5. \A k \in DOMAIN n.blocks : n.blocks[k] \in BlockType BY <2>2, LenProperties, ElementOfSeq
  <2>6. \A k : AtEnd(k) \in BOOLEAN OBVIOUS
  <2> HIDE DEF AtEnd
  <2>7. \A k \in DOMAIN n.blocks : [n.blocks[k] EXCEPT !.transient = AtEnd(k)].transient = AtEnd(k)
    BY <2>5 DEF BlockType
  <2>8. /\ m.transient = n.transient /\ DOMAIN m.blocks = DOMAIN n.blocks
        /\ m.blocks = [k \in DOMAIN n.blocks |-> [n.blocks[k] EXCEPT !.transient = AtEnd(k)]]
    BY <2>4
  <2>9. \A k \in DOMAIN n.blocks : m.blocks[k].transient = AtEnd(k) BY <2>7, <2>8
  <2>10. m.blocks = [k \in DOMAIN n.blocks |->
                       [n.blocks[k] EXCEPT !.transient = m.blocks[k].transient]]
    BY <2>8, <2>9
  <2>11. m = [role |-> n.role, plain |-> n.plain, text |-> n.text, blocks |-> m.blocks,
              transient |-> m.transient]
    BY <2>4, <2>8
  <2>12. Remarked(m, n) BY <2>8, <2>10, <2>11 DEF Remarked
  <2>13. m.transient \in BOOLEAN /\ \A k \in DOMAIN n.blocks : m.blocks[k].transient \in BOOLEAN
    BY <2>2, <2>6, <2>8, <2>9
  <2>14. n \in MessageType BY <2>1
  <2>15. m \in MessageType /\ SameWords(m, n) /\ strip_transient(m) = strip_transient(n)
    BY <2>12, <2>13, <2>14, RemarkedSame
  <2> QED BY <2>15 DEF m, n
<1>3. DOMAIN Marked(s) = 1..o /\ Marked(s) = [i \in 1..o |-> Marked(s)[i]] BY <1>1 DEF Marked
<1>4. Marked(s) \in [1..o -> MessageType] BY <1>2, <1>3
<1>5. Marked(s) \in Seq(MessageType) BY <1>1, <1>4, SeqDef
<1> QED BY <1>1, <1>2, <1>3, <1>5

LEMMA StrippedLike ==
  ASSUME NEW s \in Seq(MessageType)
  PROVE  /\ Stripped(s) \in Seq(MessageType) /\ DOMAIN Stripped(s) = 1..Len(s)
         /\ Len(Stripped(s)) = Len(s) /\ LabelledAll(Stripped(s)) = LabelledAll(s)
<1> DEFINE o == Len(s)
<1>1. DOMAIN s = 1..o /\ o \in Nat /\ \A i \in 1..o : s[i] \in MessageType
  BY LenProperties, ElementOfSeq
<1> HIDE DEF o
<1>2. \A i \in 1..o : strip_transient(s[i]) \in MessageType /\ SameWords(strip_transient(s[i]), s[i])
  BY <1>1, StripRemarks
<1>3. DOMAIN Stripped(s) = 1..o /\ \A i \in 1..o : Stripped(s)[i] = strip_transient(s[i])
  BY <1>1 DEF Stripped
<1>4. Stripped(s) \in [1..o -> MessageType] BY <1>1, <1>2 DEF Stripped
<1>5. Stripped(s) \in Seq(MessageType) BY <1>1, <1>4, SeqDef
<1>6. Len(Stripped(s)) = o BY <1>1, <1>3, <1>5, LenProperties
<1>7. LabelledAll(Stripped(s)) = LabelledAll(s)
  <2> DEFINE t == Stripped(s)
  <2>1. DOMAIN t = DOMAIN s /\ \A i \in DOMAIN s : SameWords(t[i], s[i]) BY <1>1, <1>2, <1>3
  <2> HIDE DEF t
  <2>2. LabelledAll(t) = LabelledAll(s) BY <2>1, LabelledSame
  <2> QED BY <2>2 DEF t
<1> QED BY <1>3, <1>5, <1>6, <1>7 DEF o

LEMMA StrippedConcat ==
  ASSUME NEW s \in Seq(MessageType), NEW t \in Seq(MessageType)
  PROVE  Stripped(s \o t) = Stripped(s) \o Stripped(t)
<1> DEFINE d == s \o t
           k == Len(s)
           n == Len(t)
<1>1. /\ k \in Nat /\ n \in Nat /\ DOMAIN s = 1..k /\ DOMAIN t = 1..n
      /\ DOMAIN d = 1..k + n
      /\ \A i \in 1..k : d[i] = s[i]
      /\ \A i \in 1..n : d[k + i] = t[i]
  BY LenProperties, ConcatProperties
<1>2. /\ Stripped(s) \in Seq(MessageType) /\ Stripped(t) \in Seq(MessageType)
      /\ Len(Stripped(s)) = k /\ Len(Stripped(t)) = n
  BY StrippedLike
<1> HIDE DEF k, n, d
<1>3. DOMAIN Stripped(d) = 1..k + n BY <1>1 DEF Stripped
<1>4. Stripped(d) = [i \in DOMAIN Stripped(d) |-> Stripped(d)[i]] BY DEF Stripped
<1>5. ASSUME NEW i \in 1..k PROVE Stripped(d)[i] = Stripped(s)[i]
  <2>1. i \in 1..k + n BY <1>1
  <2> QED BY <2>1, <1>1 DEF Stripped
<1>6. ASSUME NEW i \in 1..n PROVE Stripped(d)[k + i] = Stripped(t)[i]
  <2>1. k + i \in 1..k + n BY <1>1
  <2> QED BY <2>1, <1>1 DEF Stripped
<1>7. IsConcat(Stripped(d), Stripped(s), Stripped(t)) BY <1>2, <1>3, <1>4, <1>5, <1>6 DEF IsConcat
<1>8. Stripped(d) = Stripped(s) \o Stripped(t) BY <1>7, <1>2, ConcatIs
<1> QED BY <1>8 DEF d

\* The comparison finds what was appended.
LEMMA DiffIsTurn ==
  ASSUME NEW a \in Seq(MessageType), NEW b \in Seq(MessageType)
  PROVE  diff_messages(a, a \o b) = b
<1> DEFINE k == Len(a)
           n == Len(b)
           d == a \o b
           common == {m \in 0 .. Len(d) : m <= Len(a) /\ \A i \in 1..m : a[i] = d[i]}
<1>1. /\ k \in Nat /\ n \in Nat /\ Len(d) = k + n /\ d \in Seq(MessageType)
      /\ \A i \in 1..k : d[i] = a[i]
      /\ \A i \in 1..n : d[k + i] = b[i]
  BY LenProperties, ConcatProperties
<1>2. diff_messages(a, d) = SubSeq(d, Max(common) + 1, Len(d)) BY DEF diff_messages
<1>3. /\ \A m \in common : m \in Nat /\ m <= k
      /\ k \in common
  <2>1. \A m \in common : m \in Nat /\ m <= k BY <1>1
  <2> HIDE DEF k, n, d
  <2>2. k \in 0..Len(d) /\ k <= Len(a) BY <1>1 DEF k
  <2> QED BY <2>1, <2>2, <1>1 DEF k
<1> HIDE DEF common
<1>4. Max(common) = k
  <2>1. Max(common) = CHOOSE x \in common : \A y \in common : x >= y BY DEF Max
  <2>2. \A y \in common : k >= y BY <1>1, <1>3
  <2>3. \A x \in common : (\A y \in common : x >= y) => x = k BY <1>1, <1>3
  <2> QED BY <2>1, <2>2, <2>3, <1>3
<1> HIDE DEF k, n, d
<1>5. SubSeq(d, k + 1, k + n) = b
  <2> DEFINE u == SubSeq(d, k + 1, k + n)
  <2>0. DOMAIN d = 1..k + n /\ \A i \in 1..k + n : d[i] \in MessageType
    BY <1>1, LenProperties, ElementOfSeq
  <2>1. \A i \in k + 1..k + n : d[i] \in MessageType BY <1>1, <2>0
  <2>2. /\ u \in Seq(MessageType)
        /\ Len(u) = IF k + 1 <= k + n THEN (k + n) - (k + 1) + 1 ELSE 0
        /\ \A i \in 1..(k + n) - (k + 1) + 1 : u[i] = d[k + 1 + i - 1]
    BY <1>1, <2>1, SubSeqProperties
  <2>3. Len(u) = n BY <1>1, <2>2
  <2>4. \A i \in 1..n : u[i] = d[k + i] BY <1>1, <2>2
  <2> HIDE DEF u
  <2>5. \A i \in 1..Len(u) : u[i] = b[i] BY <1>1, <2>3, <2>4
  <2>6. Len(u) = Len(b) BY <2>3 DEF n
  <2>7. u = b BY <2>2, <2>5, <2>6, SeqEqual
  <2> QED BY <2>7 DEF u
<1> QED BY <1>1, <1>2, <1>4, <1>5 DEF d

-----------------------------------------------------------------------------
(* Exchanges: the conversation *)

ToldInv ==
  /\ exchange.messages \in Seq(MessageType)
  /\ warned \in BOOLEAN
  /\ previous # NoExchange => previous = split_exchange(exchange)
  /\ previous = NoExchange => transcript = <<>> /\ warned = FALSE
  /\ (previous # NoExchange /\ grown) =>
        /\ transcript = TellsOf(LabelledAll(exchange.messages))
        /\ WellTagged(LabelledAll(exchange.messages)) =>
             (warned <=> Warns(LabelledAll(exchange.messages)))

LEMMA BuildIs ==
  ASSUME NEW s \in Seq(MessageType), NEW a, NEW b, NEW c, NEW d
  PROVE  /\ build_datagram(s, a, b, c, d) # NoDatagram
         /\ build_datagram(s, a, b, c, d).payload = TellsOf(LabelledAll(s))
         /\ build_datagram(s, a, b, c, d).system_injection =
              has_platform_injection(TellsOf(LabelledAll(s)))
<1> DEFINE g == build_datagram(s, a, b, c, d)
           p == restructure_messages(s)
<1>1. p = TellsOf(LabelledAll(s)) BY Restructured
<1>2. g = [payload |-> p, instructions |-> Joined(a), tools_added |-> b,
           traffic_kind |-> classify_traffic_kind(p, d),
           system_injection |-> has_platform_injection(p), priority |-> c]
  BY DEF build_datagram
<1> HIDE DEF g, p
<1>3. g.payload = p /\ g.system_injection = has_platform_injection(p) BY <1>2
<1>4. "payload" \in DOMAIN g BY <1>2
<1>5. DOMAIN NoDatagram = {"none"} BY DEF NoDatagram
<1>6. g # NoDatagram BY <1>4, <1>5
<1>7. g.system_injection = has_platform_injection(TellsOf(LabelledAll(s))) BY <1>1, <1>3
<1> QED BY <1>1, <1>3, <1>6, <1>7 DEF g

LEMMA SplitIs ==
  ASSUME NEW s \in Seq(MessageType), NEW x, x.messages = Marked(s)
  PROVE  split_exchange(x).messages = Stripped(s) /\ split_exchange(x) # NoExchange
<1>1. DOMAIN Marked(s) = DOMAIN s
      /\ \A i \in DOMAIN s : strip_transient(Marked(s)[i]) = strip_transient(s[i])
  BY MarkedLike
<1>2. [i \in DOMAIN x.messages |-> strip_transient(x.messages[i])] = Stripped(s)
  BY <1>1 DEF Stripped
<1> DEFINE d == split_exchange(x)
<1>3. d.messages = [i \in DOMAIN x.messages |-> strip_transient(x.messages[i])]
  BY DEF split_exchange
<1>4. "messages" \in DOMAIN d BY DEF split_exchange
<1>5. DOMAIN NoExchange = {"none"} BY DEF NoExchange
<1> HIDE DEF d
<1>6. d # NoExchange BY <1>4, <1>5
<1> QED BY <1>2, <1>3, <1>6 DEF d

LEMMA ExchangedIs ==
  ASSUME NEW s \in Seq(MessageType), NEW sys, NEW tools, Exchanged(s, sys, tools)
  PROVE  /\ exchange'.messages = Marked(s) /\ exchange'.messages \in Seq(MessageType)
         /\ LabelledAll(exchange'.messages) = LabelledAll(s)
         /\ previous' = split_exchange(exchange') /\ previous' # NoExchange
         /\ previous'.messages = Stripped(s)
         /\ datagram' = diff_and_emit(previous, previous')
         /\ datagram' = NoDatagram => transcript' = transcript /\ warned' = warned
         /\ datagram' # NoDatagram => /\ transcript' = Continued(transcript, datagram'.payload)
                                      /\ warned' = (warned \/ datagram'.system_injection)
<1> DEFINE x == [messages |-> Marked(s), system |-> sys, tools |-> tools]
<1>1. process_exchange(x) BY DEF Exchanged
<1>2. x.messages = Marked(s) OBVIOUS
<1> HIDE DEF x
<1>3. /\ exchange' = x /\ previous' = split_exchange(x)
      /\ datagram' = diff_and_emit(previous, previous')
      /\ datagram' = NoDatagram => transcript' = transcript /\ warned' = warned
      /\ datagram' # NoDatagram => /\ transcript' = Continued(transcript, datagram'.payload)
                                   /\ warned' = (warned \/ datagram'.system_injection)
  BY <1>1 DEF process_exchange
<1>4. Marked(s) \in Seq(MessageType) BY MarkedLike
<1>5. LabelledAll(Marked(s)) = LabelledAll(s)
  <2> DEFINE t == Marked(s)
  <2>1. DOMAIN t = DOMAIN s /\ \A i \in DOMAIN s : SameWords(t[i], s[i]) BY MarkedLike
  <2> HIDE DEF t
  <2>2. LabelledAll(t) = LabelledAll(s) BY <2>1, LabelledSame
  <2> QED BY <2>2 DEF t
<1>6. split_exchange(x).messages = Stripped(s) /\ split_exchange(x) # NoExchange
  BY <1>2, SplitIs
<1> QED BY <1>2, <1>3, <1>4, <1>5, <1>6

LEMMA EmptyLabelled == LabelledAll(<<>>) = <<>>
<1>1. DOMAIN <<>> = {} OBVIOUS
<1>2. [i \in DOMAIN <<>> |-> Labelled(<<>>[i])] = <<>> BY <1>1
<1> QED BY <1>2, FlattenEmpty DEF LabelledAll

LEMMA NoneStripped ==
  ASSUME NEW s \in Seq(MessageType)
  PROVE  Stripped(s) = <<>> <=> s = <<>>
<1>1. Len(Stripped(s)) = Len(s) /\ Stripped(s) \in Seq(MessageType) BY StrippedLike
<1>2. Len(<<>>) = 0 OBVIOUS
<1> QED BY <1>1, <1>2, EmptySeq

LEMMA InitTold == ExchangesInit => ToldInv
<1>1. ASSUME ExchangesInit PROVE ToldInv
  <2>1. exchange.messages = <<>> /\ previous = NoExchange /\ transcript = <<>> /\ warned = FALSE
    BY <1>1 DEF ExchangesInit
  <2>2. <<>> \in Seq(MessageType) OBVIOUS
  <2> QED BY <2>1, <2>2 DEF ToldInv
<1> QED BY <1>1

LEMMA ContinueTold == ASSUME TurnsAssumption, ToldInv, Continue PROVE ToldInv'
<1>1. PICK turn \in Turns, header \in Headers :
        Exchanged(exchange.messages \o turn, header.system, header.tools) /\ grown' = grown
  BY DEF Continue
<1> DEFINE e == exchange.messages
           s == e \o turn
           P == LabelledAll(e)
           Q == LabelledAll(turn)
<1>2. e \in Seq(MessageType) /\ turn \in Seq(MessageType) BY DEF ToldInv, TurnsAssumption
<1>3. s \in Seq(MessageType) BY <1>2, ConcatProperties
<1>4. P \in Seq(PairType) /\ Q \in Seq(PairType) BY <1>2, LabelledAllType
<1>5. LabelledAll(s) = P \o Q BY <1>2, LabelledConcat
<1>6. Exchanged(s, header.system, header.tools) BY <1>1
<1>7. /\ exchange'.messages \in Seq(MessageType)
      /\ LabelledAll(exchange'.messages) = P \o Q
      /\ previous' = split_exchange(exchange') /\ previous' # NoExchange
      /\ previous'.messages = Stripped(s)
      /\ datagram' = diff_and_emit(previous, previous')
      /\ datagram' = NoDatagram => transcript' = transcript /\ warned' = warned
      /\ datagram' # NoDatagram => /\ transcript' = Continued(transcript, datagram'.payload)
                                   /\ warned' = (warned \/ datagram'.system_injection)
  BY <1>3, <1>5, <1>6, ExchangedIs
<1>8. /\ \A x \in Seq(PairType) : WellTagged(x) => (has_platform_injection(TellsOf(x)) <=> Warns(x))
      /\ WellTagged(P \o Q) <=> WellTagged(P) /\ WellTagged(Q)
      /\ Warns(P \o Q) <=> Warns(P) \/ Warns(Q)
  BY <1>4, InjectionTells, WarnsConcat
<1>9. Stripped(s) = Stripped(e) \o Stripped(turn) BY <1>2, StrippedConcat
<1>10. /\ Stripped(e) \in Seq(MessageType) /\ Stripped(turn) \in Seq(MessageType)
       /\ Stripped(s) \in Seq(MessageType)
       /\ LabelledAll(Stripped(turn)) = Q /\ LabelledAll(Stripped(s)) = P \o Q
  BY <1>2, <1>3, <1>5, StrippedLike
<1>11. /\ Stripped(turn) = <<>> => turn = <<>>
       /\ Stripped(s) = <<>> => s = <<>>
  BY <1>2, <1>3, NoneStripped
<1>12. P \o Q \in Seq(PairType) BY <1>4, ConcatProperties
<1>13. Warns(<<>>) = FALSE BY DEF Warns, In
<1>14. warned \in BOOLEAN BY DEF ToldInv
<1>15. CASE previous = NoExchange
  <2>1. transcript = <<>> /\ warned = FALSE BY <1>15 DEF ToldInv
  <2>2. CASE Stripped(s) = <<>>
    <3>1. datagram' = NoDatagram BY <2>2, <1>7, <1>15 DEF diff_and_emit
    <3>2. P \o Q = <<>>
      <4>1. s = <<>> BY <2>2, <1>11
      <4> HIDE DEF s
      <4> QED BY <4>1, <1>5, EmptyLabelled
    <3>3. transcript' = TellsOf(P \o Q) /\ warned' = FALSE
      BY <3>1, <3>2, <2>1, <1>7, TellsNothing
    <3> HIDE DEF P, Q, e, s
    <3> QED BY <3>2, <3>3, <1>7, <1>13 DEF ToldInv
  <2>3. CASE Stripped(s) # <<>>
    <3>1. datagram' = build_datagram(Stripped(s), <<>>, <<>>, "Low", TRUE)
      BY <2>3, <1>7, <1>15 DEF diff_and_emit
    <3>2. /\ datagram' # NoDatagram /\ datagram'.payload = TellsOf(P \o Q)
          /\ datagram'.system_injection = has_platform_injection(TellsOf(P \o Q))
      BY <3>1, <1>10, BuildIs
    <3>3. transcript' = TellsOf(P \o Q)
      <4>1. <<>> \in Seq(PairType) /\ <<>> \o (P \o Q) = P \o Q BY <1>12, ConcatEmptySeq
      <4>2. Continued(TellsOf(<<>>), TellsOf(P \o Q)) = TellsOf(<<>> \o (P \o Q))
        BY <4>1, <1>12, ContinuedTells
      <4> QED BY <4>1, <4>2, <3>2, <2>1, <1>7, TellsNothing
    <3>4. warned' = has_platform_injection(TellsOf(P \o Q)) /\ warned' \in BOOLEAN
      <4>1. warned' = (FALSE \/ has_platform_injection(TellsOf(P \o Q))) BY <3>2, <2>1, <1>7
      <4>2. has_platform_injection(TellsOf(P \o Q)) \in BOOLEAN BY DEF has_platform_injection
      <4> HIDE DEF P, Q
      <4> QED BY <4>1, <4>2
    <3>5. WellTagged(P \o Q) => (warned' <=> Warns(P \o Q)) BY <3>4, <1>8, <1>12
    <3> HIDE DEF P, Q, e, s
    <3> QED BY <3>3, <3>4, <3>5, <1>7 DEF ToldInv
  <2> QED BY <2>2, <2>3
<1>16. CASE previous # NoExchange
  <2>1. previous.messages = Stripped(e)
    <3>1. previous = split_exchange(exchange) BY <1>16 DEF ToldInv
    <3> QED BY <3>1 DEF split_exchange, Stripped
  <2>2. diff_messages(previous.messages, previous'.messages) = Stripped(turn)
    BY <2>1, <1>7, <1>9, <1>10, DiffIsTurn
  <2>3. \/ datagram' = NoDatagram /\ Stripped(turn) = <<>>
        \/ \E a, b, c : datagram' = build_datagram(Stripped(turn), a, b, c, FALSE)
    BY <2>2, <1>7, <1>16 DEF diff_and_emit
  <2>4. grown => /\ transcript = TellsOf(P)
                 /\ WellTagged(P) => (warned <=> Warns(P))
    BY <1>16 DEF ToldInv
  <2>5. CASE datagram' = NoDatagram /\ Stripped(turn) = <<>>
    <3>1. turn = <<>> BY <2>5, <1>11
    <3>2. Q = <<>> BY <3>1, EmptyLabelled
    <3>3. P \o Q = P BY <3>2, <1>4, ConcatEmptySeq
    <3>4. transcript' = transcript /\ warned' = warned BY <2>5, <1>7
    <3> HIDE DEF P, Q, e, s
    <3> QED BY <3>3, <3>4, <2>4, <1>1, <1>7, <1>14 DEF ToldInv
  <2>6. CASE \E a, b, c : datagram' = build_datagram(Stripped(turn), a, b, c, FALSE)
    <3>1. PICK a, b, c : datagram' = build_datagram(Stripped(turn), a, b, c, FALSE) BY <2>6
    <3>2. /\ datagram' # NoDatagram /\ datagram'.payload = TellsOf(Q)
          /\ datagram'.system_injection = has_platform_injection(TellsOf(Q))
      BY <3>1, <1>10, BuildIs
    <3>3. grown => transcript' = TellsOf(P \o Q)
      BY <3>2, <2>4, <1>4, <1>7, ContinuedTells
    <3>4. warned' = (warned \/ has_platform_injection(TellsOf(Q))) BY <3>2, <1>7
    <3>5. warned' \in BOOLEAN BY <3>4
    <3>6. grown /\ WellTagged(P \o Q) => (warned' <=> Warns(P \o Q))
      <4>1. WellTagged(Q) => (has_platform_injection(TellsOf(Q)) <=> Warns(Q)) BY <1>4, <1>8
      <4> HIDE DEF P, Q
      <4> QED BY <4>1, <3>4, <2>4, <1>8
    <3> HIDE DEF P, Q, e, s
    <3> QED BY <3>3, <3>5, <3>6, <1>1, <1>7 DEF ToldInv
  <2> QED BY <2>3, <2>5, <2>6
<1> QED BY <1>15, <1>16

LEMMA DatagramIs ==
  ASSUME NEW prev, NEW curr
  PROVE  \/ diff_and_emit(prev, curr) = NoDatagram
         \/ diff_and_emit(prev, curr).system_injection \in BOOLEAN
<1>1. \A s, a, b, c, d : build_datagram(s, a, b, c, d).system_injection \in BOOLEAN
  BY DEF build_datagram, has_platform_injection
<1>2. \/ diff_and_emit(prev, curr) = NoDatagram
      \/ \E s, a, b, c, d : diff_and_emit(prev, curr) = build_datagram(s, a, b, c, d)
  BY DEF diff_and_emit
<1> QED BY <1>1, <1>2

LEMMA LeaveOutTold == ASSUME ToldInv, LeaveOut PROVE ToldInv'
<1>1. PICK i \in DOMAIN exchange.messages :
        \E k \in DOMAIN exchange.messages[i].blocks :
          /\ Exchanged([exchange.messages EXCEPT ![i].blocks = RemoveAt(@, k)],
                       exchange.system, exchange.tools)
          /\ grown' = FALSE
  BY DEF LeaveOut
<1> DEFINE e == exchange.messages
           m == e[i]
<1>2. PICK k \in DOMAIN m.blocks :
        /\ Exchanged([e EXCEPT ![i].blocks = RemoveAt(@, k)], exchange.system, exchange.tools)
        /\ grown' = FALSE
  BY <1>1
<1> DEFINE n == [m EXCEPT !.blocks = RemoveAt(m.blocks, k)]
           s == [e EXCEPT ![i] = n]
<1>3. e \in Seq(MessageType) /\ m \in MessageType /\ i \in 1..Len(e)
  <2>1. e \in Seq(MessageType) BY DEF ToldInv
  <2>2. i \in 1..Len(e) BY <2>1, LenProperties
  <2> QED BY <2>1, <2>2, ElementOfSeq
<1>4. s \in Seq(MessageType)
  <2>1. /\ m.blocks \in Seq(BlockType) /\ (m.plain => m.blocks = <<>>)
        /\ m = [role |-> m.role, plain |-> m.plain, text |-> m.text, blocks |-> m.blocks,
                transient |-> m.transient]
        /\ m.role \in {x.role : x \in TurnMessages} /\ m.plain \in BOOLEAN /\ m.text \in TextType
        /\ m.transient \in BOOLEAN
    BY <1>3 DEF MessageType
  <2> DEFINE b == m.blocks
             c == RemoveAt(b, k)
             l == Len(b)
  <2> HIDE DEF e, m
  <2>2. c \in Seq(BlockType)
    <3>1. l \in Nat /\ DOMAIN b = 1..l /\ k \in 1..l /\ \A j \in 1..l : b[j] \in BlockType
      BY <2>1, LenProperties, ElementOfSeq
    <3>2. c = SubSeq(b, 1, k - 1) \o SubSeq(b, k + 1, l) BY DEF RemoveAt
    <3> HIDE DEF b, c, l
    <3>3. SubSeq(b, 1, k - 1) \in Seq(BlockType) /\ SubSeq(b, k + 1, l) \in Seq(BlockType)
      BY <3>1, SubSeqProperties
    <3> QED BY <3>2, <3>3, ConcatProperties
  <2>3. ~m.plain
    <3>1. k \in DOMAIN m.blocks OBVIOUS
    <3>2. DOMAIN <<>> = {} OBVIOUS
    <3> QED BY <2>1, <3>1, <3>2
  <2>4. n = [role |-> m.role, plain |-> m.plain, text |-> m.text, blocks |-> c,
             transient |-> m.transient]
    BY <2>1
  <2> HIDE DEF n, c
  <2>5. n \in MessageType BY <2>1, <2>2, <2>3, <2>4 DEF MessageType
  <2> QED BY <2>5, <1>3, ExceptSeq
<1>5. [e EXCEPT ![i].blocks = RemoveAt(@, k)] = s OBVIOUS
<1>6. Exchanged(s, exchange.system, exchange.tools) BY <1>2, <1>5
<1> HIDE DEF s
<1>7. /\ exchange'.messages \in Seq(MessageType)
      /\ previous' = split_exchange(exchange') /\ previous' # NoExchange
      /\ datagram' = diff_and_emit(previous, previous')
      /\ datagram' = NoDatagram => warned' = warned
      /\ datagram' # NoDatagram => warned' = (warned \/ datagram'.system_injection)
  BY <1>4, <1>6, ExchangedIs
<1>8. warned' \in BOOLEAN
  <2>1. warned \in BOOLEAN BY DEF ToldInv
  <2>2. datagram' = NoDatagram \/ datagram'.system_injection \in BOOLEAN BY <1>7, DatagramIs
  <2> QED BY <2>1, <2>2, <1>7
<1> QED BY <1>2, <1>7, <1>8 DEF ToldInv

LEMMA StartOverTold == ASSUME ToldInv, StartOver PROVE ToldInv'
BY DEF ToldInv, StartOver

LEMMA ToldKept == TurnsAssumption /\ ToldInv /\ [ExchangesNext]_exchangeVars => ToldInv'
<1>1. ASSUME TurnsAssumption, ToldInv, [ExchangesNext]_exchangeVars PROVE ToldInv'
  <2>1. CASE Continue BY <1>1, <2>1, ContinueTold
  <2>2. CASE LeaveOut BY <1>1, <2>2, LeaveOutTold
  <2>3. CASE StartOver BY <1>1, <2>3, StartOverTold
  <2>4. CASE UNCHANGED exchangeVars BY <1>1, <2>4 DEF exchangeVars, ToldInv
  <2> QED BY <1>1, <2>1, <2>2, <2>3, <2>4 DEF ExchangesNext
<1> QED BY <1>1

LEMMA ToldMeans == ToldInv => ConversationTold
<1> SUFFICES ASSUME ToldInv, previous # NoExchange, grown
             PROVE  LET pairs == LabelledAll(exchange.messages)
                        reminders == TextBlocks(exchange.messages)
                    IN  /\ DOMAIN transcript = {p[1] : p \in Range(pairs)}
                        /\ \A label \in DOMAIN transcript :
                             LET values == ValuesOf(pairs, label) IN
                             IF transcript[label].form = "string"
                             THEN transcript[label].text =
                                    Joined([i \in DOMAIN values |-> values[i].text])
                             ELSE Items(transcript[label]) = values
                        /\ (\A b \in reminders : Head(b.text) = "tag") =>
                             (warned <=> \E b \in reminders : Unmarked(b.text))
  BY DEF ConversationTold
<1> DEFINE s == exchange.messages
           P == LabelledAll(s)
           reminders == TextBlocks(s)
<1>1. /\ s \in Seq(MessageType) /\ warned \in BOOLEAN /\ transcript = TellsOf(P)
      /\ WellTagged(P) => (warned <=> Warns(P))
  BY DEF ToldInv
<1>2. P \in Seq(PairType) BY <1>1, LabelledAllType
<1>3. \A v : In(<<"system", v>>, P) <=> \E b \in reminders : v = StringValue(b.text)
  BY <1>1, RemindersAre
<1>4. \A b \in reminders : b.text \in TextType /\ b.text # <<>>
  <2>1. SUFFICES ASSUME NEW b \in reminders PROVE b.text \in TextType /\ b.text # <<>> OBVIOUS
  <2>2. "tag" \in Range(b.text) BY DEF TextBlocks
  <2>3. PICK i \in DOMAIN s : b \in Range(s[i].blocks) BY DEF TextBlocks, BlocksOf, Range
  <2>4. s[i] \in MessageType BY <1>1, LenProperties, ElementOfSeq
  <2>5. s[i].blocks \in Seq(BlockType) BY <2>4 DEF MessageType
  <2>6. b \in BlockType
    <3>1. PICK k \in DOMAIN s[i].blocks : b = s[i].blocks[k] BY <2>3 DEF Range
    <3>2. k \in 1..Len(s[i].blocks) BY <2>5, LenProperties
    <3> QED BY <2>5, <3>1, <3>2, ElementOfSeq
  <2>7. b.text \in TextType BY <2>6 DEF BlockType
  <2>8. Range(<<>>) = {} BY DEF Range
  <2> QED BY <2>2, <2>7, <2>8
<1> HIDE DEF P, reminders
<1>5. DOMAIN transcript = LabelsOf(P) BY <1>1 DEF TellsOf
<1>6. LabelsOf(P) = {p[1] : p \in Range(P)} BY DEF LabelsOf, Range
<1>7. ASSUME NEW l \in DOMAIN transcript
      PROVE  IF transcript[l].form = "string"
             THEN transcript[l].text = Joined(TextsOf(ValuesOf(P, l)))
             ELSE Items(transcript[l]) = ValuesOf(P, l)
  <2>1. l \in LabelsOf(P) BY <1>5, <1>7
  <2>2. transcript[l] = Told(ValuesOf(P, l)) BY <2>1, <1>1 DEF TellsOf
  <2>3. ValuesOf(P, l) \in Seq(ValuesFor(l)) /\ ValuesOf(P, l) # <<>>
    BY <2>1, <1>2, ValuesType, SomeValues
  <2>4. CASE l \in TextLabels
    <3>1. ValuesOf(P, l) \in Seq(TextValues) BY <2>3, <2>4 DEF ValuesFor
    <3>2. Told(ValuesOf(P, l)) = StringValue(Joined(TextsOf(ValuesOf(P, l))))
      BY <2>3, <3>1, ToldText
    <3> QED BY <2>2, <3>2 DEF StringValue
  <2>5. CASE l \notin TextLabels
    <3>1. ValuesOf(P, l) \in Seq(OtherValues) BY <2>3, <2>5 DEF ValuesFor
    <3> QED BY <2>2, <2>3, <3>1, ToldOther
  <2> QED BY <2>4, <2>5
<1>8. ASSUME \A b \in reminders : Head(b.text) = "tag"
      PROVE  warned <=> \E b \in reminders : Unmarked(b.text)
  <2>1. \A t : StringValue(t).text = t BY DEF StringValue
  <2>2. \A b \in reminders : b.text \in TaggedTexts
    <3>1. SUFFICES ASSUME NEW b \in reminders PROVE b.text \in TaggedTexts OBVIOUS
    <3>2. b.text \in TextType /\ b.text # <<>> /\ Head(b.text) = "tag" BY <1>4, <1>8
    <3>3. Head(b.text) = b.text[1] BY <3>2 DEF TextType
    <3> QED BY <3>2, <3>3 DEF TaggedTexts
  <2>3. WellTagged(P) BY <2>1, <2>2, <1>3 DEF WellTagged
  <2>4. Warns(P) <=> \E b \in reminders : Unmarked(b.text)
    <3>1. ASSUME Warns(P) PROVE \E b \in reminders : Unmarked(b.text)
      <4>1. PICK x : In(<<"system", x>>, P) /\ Unmarked(x.text) BY <3>1 DEF Warns
      <4>2. PICK b \in reminders : x = StringValue(b.text) BY <4>1, <1>3
      <4>3. x.text = b.text BY <4>2, <2>1
      <4> QED BY <4>1, <4>3
    <3>2. ASSUME NEW b \in reminders, Unmarked(b.text) PROVE Warns(P)
      <4> DEFINE x == StringValue(b.text)
      <4>1. In(<<"system", x>>, P) BY <1>3
      <4>2. x.text = b.text BY <2>1
      <4> HIDE DEF x
      <4>3. Unmarked(x.text) BY <3>2, <4>2
      <4> QED BY <4>1, <4>3 DEF Warns
    <3> QED BY <3>1, <3>2
  <2> QED BY <2>3, <2>4, <1>1
<1> QED BY <1>5, <1>6, <1>7, <1>8 DEF P, reminders, TextsOf

\* While messages are only appended, what the datagrams of a session tell is its
\* conversation: what `diff_and_emit` finds in each exchange is what was appended.
THEOREM ConversationIsTold == ExchangesSpec => []ConversationTold
<1>1. ToldInv /\ [ExchangesNext]_exchangeVars => ToldInv' BY TurnsAssumption, ToldKept
<1> QED BY <1>1, InitTold, ToldMeans, PTL DEF ExchangesSpec
-----------------------------------------------------------------------------
(* Launcher: sequences *)

\* The elements at some positions, each a sequence of one, the others empty.
PickedAt(seq, positions) ==
  [i \in DOMAIN seq |-> IF i \in positions THEN <<seq[i]>> ELSE <<>>]

LEMMA PickedAtType ==
  ASSUME NEW T, NEW s \in Seq(T), NEW P
  PROVE  PickedAt(s, P) \in Seq(Seq(T)) /\ Len(PickedAt(s, P)) = Len(s) /\ DOMAIN PickedAt(s, P) = 1..Len(s)
<1> DEFINE m == PickedAt(s, P)
<1>1. Len(s) \in Nat /\ DOMAIN s = 1..Len(s) BY LenProperties
<1>2. \A i \in 1..Len(s) : s[i] \in T BY ElementOfSeq
<1>3. m \in [1..Len(s) -> Seq(T)] BY <1>1, <1>2 DEF PickedAt
<1> HIDE DEF m
<1>4. m \in Seq(Seq(T)) BY <1>1, <1>3
<1>5. Len(m) = Len(s) /\ DOMAIN m = 1..Len(s) BY <1>1, <1>3, <1>4, LenProperties
<1> QED BY <1>4, <1>5 DEF m

LEMMA ElementsAtType ==
  ASSUME NEW T, NEW s \in Seq(T), NEW P
  PROVE  ElementsAt(s, P) \in Seq(T)
<1>1. PickedAt(s, P) \in Seq(Seq(T)) BY PickedAtType
<1>2. FlattenSeq(PickedAt(s, P)) \in Seq(T) BY <1>1, FlattenIsSeq
<1> QED BY <1>2 DEF PickedAt, ElementsAt

LEMMA RangeIn == ASSUME NEW s, NEW x PROVE x \in Range(s) <=> In(x, s)
BY DEF Range, In

\* What is picked are the elements at the positions.
LEMMA ElementsAtRange ==
  ASSUME NEW T, NEW s \in Seq(T), NEW P
  PROVE  Range(ElementsAt(s, P)) = {s[i] : i \in P \cap DOMAIN s}
<1>1. PickedAt(s, P) \in Seq(Seq(T)) /\ DOMAIN PickedAt(s, P) = DOMAIN s
  BY PickedAtType, LenProperties
<1>2. ASSUME NEW x
      PROVE  In(x, ElementsAt(s, P)) <=> \E i \in P \cap DOMAIN s : s[i] = x
  <2>1. In(x, FlattenSeq(PickedAt(s, P))) <=> \E i \in DOMAIN PickedAt(s, P) : In(x, PickedAt(s, P)[i])
    BY <1>1, InFlatten
  <2>2. ASSUME NEW i \in DOMAIN s
        PROVE  In(x, PickedAt(s, P)[i]) <=> i \in P /\ s[i] = x
    <3>1. PickedAt(s, P)[i] = IF i \in P THEN <<s[i]>> ELSE <<>> BY DEF PickedAt
    <3>2. In(x, <<s[i]>>) <=> s[i] = x BY DEF In
    <3>3. ~In(x, <<>>) BY DEF In
    <3> QED BY <3>1, <3>2, <3>3
  <2> QED BY <1>1, <2>1, <2>2 DEF PickedAt, ElementsAt
<1> QED BY <1>2, RangeIn

LEMMA ElementsAtNone ==
  ASSUME NEW T, NEW s \in Seq(T), NEW P, P \cap DOMAIN s = {}
  PROVE  ElementsAt(s, P) = <<>>
<1>1. Range(ElementsAt(s, P)) = {} BY ElementsAtRange
<1>2. ElementsAt(s, P) \in Seq(T) BY ElementsAtType
<1>3. DOMAIN ElementsAt(s, P) = {} BY <1>1 DEF Range
<1> HIDE DEF ElementsAt
<1>4. Len(ElementsAt(s, P)) = 0 BY <1>2, <1>3, LenProperties
<1> QED BY <1>2, <1>4, EmptySeq

Singles(s) == [i \in DOMAIN s |-> <<s[i]>>]

LEMMA SinglesFlat == ASSUME NEW T PROVE \A s \in Seq(T) : FlattenSeq(Singles(s)) = s
<1> DEFINE U == {s \in Seq(T) : FlattenSeq(Singles(s)) = s}
<1>1. <<>> \in U
  <2>1. Singles(<<>>) = <<>> BY DEF Singles
  <2> QED BY <2>1, FlattenEmpty
<1>2. ASSUME NEW s \in Seq(T), s \in U, NEW x \in T PROVE Append(s, x) \in U
  <2> DEFINE k == Len(s)
             t == Append(s, x)
  <2>1. /\ k \in Nat /\ DOMAIN s = 1..k /\ DOMAIN t = 1..k + 1 /\ t[k + 1] = x /\ t \in Seq(T)
        /\ \A i \in 1..k : t[i] = s[i] /\ s[i] \in T
    BY AppendProperties, LenProperties, ElementOfSeq
  <2> HIDE DEF k, t
  <2>2. Singles(s) \in [1..k -> Seq(T)] BY <2>1 DEF Singles
  <2>3. Singles(s) \in Seq(Seq(T)) /\ Len(Singles(s)) = k BY <2>1, <2>2, LenProperties
  <2>4. Singles(t) = Append(Singles(s), <<x>>)
    <3> DEFINE b == Singles(t)
               a == Singles(s)
               c == Append(a, <<x>>)
    <3>1. <<x>> \in Seq(T) OBVIOUS
    <3>2. /\ c \in Seq(Seq(T)) /\ Len(c) = k + 1 /\ c[k + 1] = <<x>>
          /\ \A i \in 1..k : c[i] = a[i]
      BY <2>3, <3>1, AppendProperties
    <3>3. DOMAIN c = 1..k + 1 /\ c = [i \in DOMAIN c |-> c[i]]
      <4> HIDE DEF c
      <4> QED BY <3>2, LenProperties
    <3>4. \A i \in 1..k + 1 : b[i] = <<t[i]>> BY <2>1 DEF Singles
    <3>5. \A i \in 1..k : a[i] = <<s[i]>> BY <2>1 DEF Singles
    <3>6. DOMAIN b = 1..k + 1 /\ b = [i \in DOMAIN b |-> b[i]] BY <2>1 DEF Singles
    <3> HIDE DEF a, b, c
    <3>7. \A i \in 1..k + 1 : i \in 1..k \/ i = k + 1 BY <2>1
    <3>8. \A i \in 1..k + 1 : b[i] = c[i] BY <2>1, <3>2, <3>4, <3>5, <3>7
    <3> QED BY <3>3, <3>6, <3>8 DEF b, c, a
  <2>5. FlattenSeq(Append(Singles(s), <<x>>)) = FlattenSeq(Singles(s)) \o <<x>>
    <3>1. <<x>> \in Seq(T) OBVIOUS
    <3> QED BY <2>3, <3>1, FlattenAppend
  <2>6. FlattenSeq(Singles(s)) = s BY <1>2
  <2>7. s \o <<x>> = Append(s, x) BY AppendIsConcat
  <2> QED BY <2>1, <2>4, <2>5, <2>6, <2>7 DEF t
<1> HIDE DEF U
<1>3. Seq(T) \subseteq U BY <1>1, <1>2, AllSequences
<1> QED BY <1>3 DEF U

LEMMA ElementsAtAll ==
  ASSUME NEW T, NEW s \in Seq(T), NEW P, DOMAIN s \subseteq P
  PROVE  ElementsAt(s, P) = s
<1>1. PickedAt(s, P) = Singles(s) BY DEF PickedAt, Singles
<1>2. FlattenSeq(Singles(s)) = s BY SinglesFlat
<1> QED BY <1>1, <1>2 DEF PickedAt, ElementsAt

\* Those of a sequence that are in one of two files.
LEMMA AmongIs ==
  ASSUME NEW s, NEW fs
  PROVE  Among(s, fs) = FlattenSeq(PickedAt(s, {i \in DOMAIN s : s[i] \in Range(fs)}))
BY DEF Among, ElementsAt, PickedAt

LEMMA AmongType ==
  ASSUME NEW T, NEW s \in Seq(T), NEW fs PROVE Among(s, fs) \in Seq(T)
BY ElementsAtType DEF Among

LEMMA AmongAll ==
  ASSUME NEW T, NEW s \in Seq(T), NEW fs, Range(s) \subseteq Range(fs)
  PROVE  Among(s, fs) = s
<1>1. \A i \in DOMAIN s : s[i] \in Range(s) BY DEF Range
<1>2. DOMAIN s \subseteq {i \in DOMAIN s : s[i] \in Range(fs)} BY <1>1
<1> QED BY <1>2, ElementsAtAll DEF Among

LEMMA AmongNone ==
  ASSUME NEW T, NEW s \in Seq(T), NEW fs, Range(s) \cap Range(fs) = {}
  PROVE  Among(s, fs) = <<>>
<1>1. \A i \in DOMAIN s : s[i] \in Range(s) BY DEF Range
<1>2. {i \in DOMAIN s : s[i] \in Range(fs)} \cap DOMAIN s = {} BY <1>1
<1> QED BY <1>2, ElementsAtNone DEF Among

LEMMA AmongConcat ==
  ASSUME NEW T, NEW s \in Seq(T), NEW t \in Seq(T), NEW fs
  PROVE  Among(s \o t, fs) = Among(s, fs) \o Among(t, fs)
<1> DEFINE R == Range(fs)
           b == PickedAt(s \o t, {i \in DOMAIN (s \o t) : (s \o t)[i] \in R})
           a == PickedAt(s, {i \in DOMAIN s : s[i] \in R})
           c == PickedAt(t, {i \in DOMAIN t : t[i] \in R})
           k == Len(s)
           n == Len(t)
           d == s \o t
<1>1. /\ d \in Seq(T) /\ DOMAIN d = 1..k + n /\ DOMAIN s = 1..k /\ DOMAIN t = 1..n
      /\ k \in Nat /\ n \in Nat
      /\ \A i \in 1..k : d[i] = s[i]
      /\ \A i \in 1..n : d[k + i] = t[i]
  BY LenProperties, ConcatProperties
<1>2. a \in Seq(Seq(T)) /\ c \in Seq(Seq(T)) /\ Len(a) = k /\ Len(c) = n BY PickedAtType
<1>3. /\ DOMAIN b = 1..k + n /\ b = [i \in DOMAIN b |-> b[i]]
      /\ \A i \in 1..k + n : b[i] = IF d[i] \in R THEN <<d[i]>> ELSE <<>>
      /\ \A i \in 1..k : a[i] = IF s[i] \in R THEN <<s[i]>> ELSE <<>>
      /\ \A i \in 1..n : c[i] = IF t[i] \in R THEN <<t[i]>> ELSE <<>>
  <2> HIDE DEF R
  <2>1. DOMAIN b = DOMAIN d /\ b = [i \in DOMAIN b |-> b[i]] BY DEF PickedAt
  <2> HIDE DEF d, k, n
  <2>2. \A i \in 1..k + n : b[i] = IF d[i] \in R THEN <<d[i]>> ELSE <<>>
    BY <1>1 DEF PickedAt, d
  <2>3. \A i \in 1..k : a[i] = IF s[i] \in R THEN <<s[i]>> ELSE <<>> BY <1>1 DEF PickedAt
  <2>4. \A i \in 1..n : c[i] = IF t[i] \in R THEN <<t[i]>> ELSE <<>> BY <1>1 DEF PickedAt
  <2> QED BY <1>1, <2>1, <2>2, <2>3, <2>4
<1> HIDE DEF a, b, c, d, k, n, R
<1>4. IsConcat(b, a, c)
  <2>1. \A i \in 1..k : i \in 1..k + n BY <1>1
  <2>2. \A i \in 1..n : k + i \in 1..k + n BY <1>1
  <2>3. \A i \in 1..k : b[i] = a[i] BY <1>1, <1>3, <2>1
  <2>4. \A i \in 1..n : b[k + i] = c[i] BY <1>1, <1>3, <2>2
  <2> QED BY <1>2, <1>3, <2>3, <2>4 DEF IsConcat
<1>5. b = a \o c BY <1>2, <1>4, ConcatIs
<1>6. FlattenSeq(b) = FlattenSeq(a) \o FlattenSeq(c) BY <1>2, <1>5, FlattenConcat
<1> QED BY <1>6, AmongIs DEF a, b, c, d, R

\* The sizes of the first n files, one after the other.
TotalOf(g, s, m) == g = [n \in 0..m |-> IF n = 0 THEN 0 ELSE g[n - 1] + s[n].size]

LEMMA TotalExists ==
  ASSUME NEW s
  PROVE  \A m \in Nat : \E g : TotalOf(g, s, m)
<1> DEFINE T == {m \in Nat : \E g : TotalOf(g, s, m)}
<1>1. 0 \in T
  <2> DEFINE g == [i \in 0..0 |-> 0]
  <2>1. \A i \in 0..0 : i = 0 OBVIOUS
  <2>2. g = [n \in 0..0 |-> IF n = 0 THEN 0 ELSE g[n - 1] + s[n].size] BY <2>1
  <2> HIDE DEF g
  <2>3. TotalOf(g, s, 0) BY <2>2 DEF TotalOf
  <2> QED BY <2>3
<1>2. ASSUME NEW m \in Nat, m \in T PROVE m + 1 \in T
  <2>1. PICK g : TotalOf(g, s, m) BY <1>2
  <2>2. \A n \in 0..m : g[n] = IF n = 0 THEN 0 ELSE g[n - 1] + s[n].size
    <3>1. g = [n \in 0..m |-> IF n = 0 THEN 0 ELSE g[n - 1] + s[n].size] BY <2>1 DEF TotalOf
    <3> QED BY <3>1
  <2> DEFINE last == g[m] + s[m + 1].size
             h == [n \in 0..m + 1 |-> IF n <= m THEN g[n] ELSE last]
  <2> HIDE DEF last
  <2>3. ASSUME NEW n \in 0..m + 1
        PROVE  h[n] = IF n = 0 THEN 0 ELSE h[n - 1] + s[n].size
    <3>1. CASE n <= m
      <4>1. n \in 0..m BY <3>1
      <4>2. h[n] = g[n] BY <4>1
      <4>3. n # 0 => n - 1 \in 0..m BY <4>1
      <4>4. n # 0 => h[n - 1] = g[n - 1] BY <4>3
      <4> HIDE DEF h
      <4> QED BY <4>1, <4>2, <4>4, <2>2
    <3>2. CASE ~(n <= m)
      <4>1. n = m + 1 /\ n # 0 /\ n - 1 = m BY <3>2
      <4>2. h[n] = last BY <4>1
      <4>3. m \in 0..m + 1 /\ m <= m OBVIOUS
      <4>4. h[m] = g[m] BY <4>3
      <4> HIDE DEF h
      <4> QED BY <4>1, <4>2, <4>4 DEF last
    <3> QED BY <3>1, <3>2
  <2>4. DOMAIN h = 0..m + 1 /\ h = [n \in 0..m + 1 |-> h[n]] OBVIOUS
  <2> HIDE DEF h
  <2>5. h = [n \in 0..m + 1 |-> IF n = 0 THEN 0 ELSE h[n - 1] + s[n].size] BY <2>3, <2>4
  <2>6. TotalOf(h, s, m + 1) BY <2>5 DEF TotalOf
  <2>7. m + 1 \in Nat OBVIOUS
  <2> QED BY <2>6, <2>7
<1> HIDE DEF T
<1>3. Nat \subseteq T BY <1>1, <1>2, AllNumbers
<1> QED BY <1>3 DEF T

LEMMA TotalUnique ==
  ASSUME NEW s, NEW t, NEW m \in Nat, NEW n \in Nat, m <= n, Agree(s, t, m),
         NEW g, TotalOf(g, s, m), NEW h, TotalOf(h, t, n)
  PROVE  \A i \in 0..m : g[i] = h[i]
<1>1. \A i \in 0..m : g[i] = IF i = 0 THEN 0 ELSE g[i - 1] + s[i].size
  <2>1. g = [i \in 0..m |-> IF i = 0 THEN 0 ELSE g[i - 1] + s[i].size] BY DEF TotalOf
  <2> QED BY <2>1
<1>2. \A i \in 0..n : h[i] = IF i = 0 THEN 0 ELSE h[i - 1] + t[i].size
  <2>1. h = [i \in 0..n |-> IF i = 0 THEN 0 ELSE h[i - 1] + t[i].size] BY DEF TotalOf
  <2> QED BY <2>1
<1> DEFINE U == {i \in 0..m : g[i] # h[i]}
<1>3. SUFFICES ASSUME U # {} PROVE FALSE OBVIOUS
<1>4. U \in SUBSET Nat OBVIOUS
<1>5. PICK k \in U : \A y \in U : k <= y
  <2> HIDE DEF U
  <2> QED BY <1>3, <1>4, LeastNumber
<1>6. k \in 0..m /\ k \in 0..n /\ g[k] # h[k] BY <1>5
<1>7. k # 0 BY <1>1, <1>2, <1>6
<1>8. k - 1 \in 0..m /\ ~(k <= k - 1) /\ s[k] = t[k] BY <1>6, <1>7 DEF Agree
<1>9. g[k - 1] = h[k - 1]
  <2>1. k - 1 \notin U BY <1>5, <1>8
  <2> QED BY <2>1, <1>8
<1> HIDE DEF U
<1> QED BY <1>1, <1>2, <1>6, <1>7, <1>8, <1>9

LEMMA SizeIs ==
  ASSUME NEW s, Len(s) \in Nat
  PROVE  \E g : TotalOf(g, s, Len(s)) /\ SizeOf(s) = g[Len(s)]
<1> DEFINE g == CHOOSE g : TotalOf(g, s, Len(s))
<1>1. TotalOf(g, s, Len(s))
  <2>1. \E h : TotalOf(h, s, Len(s)) BY TotalExists
  <2> QED BY <2>1
<1>2. SizeOf(s) = g[Len(s)] BY DEF SizeOf, TotalOf
<1> HIDE DEF g
<1> QED BY <1>1, <1>2

LEMMA SizeEmpty == SizeOf(<<>>) = 0
<1>1. Len(<<>>) = 0 /\ 0 \in Nat OBVIOUS
<1>2. PICK g : TotalOf(g, <<>>, 0) /\ SizeOf(<<>>) = g[0] BY <1>1, SizeIs
<1>3. g = [n \in 0..0 |-> IF n = 0 THEN 0 ELSE g[n - 1] + <<>>[n].size] BY <1>2 DEF TotalOf
<1>4. 0 \in 0..0 OBVIOUS
<1>5. g[0] = 0 BY <1>3, <1>4
<1> QED BY <1>2, <1>5

LEMMA SizeAppend ==
  ASSUME NEW T, NEW s \in Seq(T), NEW x \in T
  PROVE  SizeOf(Append(s, x)) = SizeOf(s) + x.size
<1> DEFINE t == Append(s, x)
           k == Len(s)
<1>1. /\ k \in Nat /\ Len(t) = k + 1 /\ t[k + 1] = x
      /\ \A i \in 1..k : s[i] = t[i]
  BY AppendProperties, LenProperties
<1> HIDE DEF t
<1>2. PICK h : TotalOf(h, t, k + 1) /\ SizeOf(t) = h[k + 1]
  <2>1. Len(t) \in Nat BY <1>1
  <2>2. PICK h : TotalOf(h, t, Len(t)) /\ SizeOf(t) = h[Len(t)] BY <2>1, SizeIs
  <2> QED BY <2>2, <1>1
<1>3. PICK g : TotalOf(g, s, k) /\ SizeOf(s) = g[k] BY <1>1, SizeIs
<1> HIDE DEF k
<1>4. h[k + 1] = h[k] + t[k + 1].size
  <2>1. h = [n \in 0..k + 1 |-> IF n = 0 THEN 0 ELSE h[n - 1] + t[n].size] BY <1>2 DEF TotalOf
  <2>2. k + 1 \in 0..k + 1 /\ (k + 1) - 1 = k /\ k + 1 # 0 BY <1>1
  <2>3. h[k + 1] = IF k + 1 = 0 THEN 0 ELSE h[(k + 1) - 1] + t[k + 1].size BY <2>1, <2>2
  <2> QED BY <2>2, <2>3
<1>5. g[k] = h[k]
  <2> DEFINE n == k + 1
  <2>1. k \in Nat /\ n \in Nat /\ k <= n /\ k \in 0..k BY <1>1
  <2>2. TotalOf(h, t, n) BY <1>2
  <2>3. Agree(s, t, k) /\ TotalOf(g, s, k) BY <1>1, <1>3 DEF Agree
  <2> HIDE DEF n
  <2>4. \A i \in 0..k : g[i] = h[i] BY <2>1, <2>2, <2>3, TotalUnique
  <2> QED BY <2>1, <2>4
<1> QED BY <1>1, <1>2, <1>3, <1>4, <1>5 DEF t

Sized(T) == \A x \in T : x.size \in Nat

LEMMA SizeType == ASSUME NEW T, Sized(T) PROVE \A s \in Seq(T) : SizeOf(s) \in Nat
<1> DEFINE U == {s \in Seq(T) : SizeOf(s) \in Nat}
<1>1. <<>> \in U BY SizeEmpty
<1>2. ASSUME NEW s \in Seq(T), s \in U, NEW x \in T PROVE Append(s, x) \in U
  <2>1. SizeOf(Append(s, x)) = SizeOf(s) + x.size BY SizeAppend
  <2>2. Append(s, x) \in Seq(T) BY AppendProperties
  <2> QED BY <1>2, <2>1, <2>2 DEF Sized
<1> HIDE DEF U
<1>3. Seq(T) \subseteq U BY <1>1, <1>2, AllSequences
<1> QED BY <1>3 DEF U

LEMMA SizeConcat ==
  ASSUME NEW T, Sized(T), NEW a \in Seq(T)
  PROVE  \A b \in Seq(T) : SizeOf(a \o b) = SizeOf(a) + SizeOf(b)
<1> DEFINE U == {b \in Seq(T) : SizeOf(a \o b) = SizeOf(a) + SizeOf(b)}
<1>1. SizeOf(a) \in Nat BY SizeType
<1>2. <<>> \in U
  <2>1. a \o <<>> = a /\ <<>> \in Seq(T) OBVIOUS
  <2> QED BY <1>1, <2>1, SizeEmpty
<1>3. ASSUME NEW b \in Seq(T), b \in U, NEW x \in T PROVE Append(b, x) \in U
  <2>1. a \o Append(b, x) = Append(a \o b, x) OBVIOUS
  <2>2. a \o b \in Seq(T) /\ Append(b, x) \in Seq(T) OBVIOUS
  <2>3. SizeOf(Append(a \o b, x)) = SizeOf(a \o b) + x.size BY <2>2, SizeAppend
  <2>4. SizeOf(Append(b, x)) = SizeOf(b) + x.size BY SizeAppend
  <2>5. SizeOf(b) \in Nat /\ x.size \in Nat BY SizeType DEF Sized
  <2>6. SizeOf(a \o b) = SizeOf(a) + SizeOf(b) BY <1>3
  <2>7. SizeOf(a \o Append(b, x)) = SizeOf(a) + SizeOf(Append(b, x))
    BY <1>1, <2>1, <2>3, <2>4, <2>5, <2>6
  <2> QED BY <2>2, <2>7
<1> HIDE DEF U
<1>4. Seq(T) \subseteq U BY <1>2, <1>3, AllSequences
<1> QED BY <1>4 DEF U

LEMMA SizeOne == ASSUME NEW T, Sized(T), NEW x \in T PROVE SizeOf(<<x>>) = x.size
<1>1. <<>> \in Seq(T) /\ Append(<<>>, x) = <<x>> OBVIOUS
<1>2. SizeOf(Append(<<>>, x)) = SizeOf(<<>>) + x.size BY <1>1, SizeAppend
<1> QED BY <1>1, <1>2, SizeEmpty DEF Sized

-----------------------------------------------------------------------------
(* Launcher: the library *)

Fragments(l) == Range(l.foundation) \cup Range(l.personas) \cup Range(l.always) \cup Range(l.coding)

Listed(l) == {l.foundation, l.personas, l.always, l.coding, l.expertise, l.descriptors, l.languages}

\* What a scan finds: systems and spaces are no fragments, an expertise is no
\* fragment of another directory, and every language of a descriptor is listed.
LibraryOk(l) ==
  /\ \A s \in Listed(l) : s \in Seq(Range(s))
  /\ Sized(Fragments(l) \cup Range(l.expertise) \cup Range(l.descriptors))
  /\ Fragments(l) \cap Range(l.descriptors) = {}
  /\ Fragments(l) \cap Range(l.expertise) = {}
  /\ Range(l.expertise) \cap Range(l.descriptors) = {}
  /\ \A d \in Range(l.descriptors) : Range(d.languages) \subseteq Range(l.languages)
  /\ l.languages # <<>>

LEMMA SeqsAre ==
  ASSUME NEW S, IsFiniteSet(S), NEW s \in SetToSeqs(S)
  PROVE  s \in Seq(Range(s)) /\ Range(s) \subseteq S
<1>1. Cardinality(S) \in Nat BY FS_CardinalityType
<1>2. s \in [1..Cardinality(S) -> S] BY DEF SetToSeqs
<1>3. s \in Seq(S) BY <1>1, <1>2
<1>4. s \in Seq(Range(s)) BY <1>3, SeqOfRange
<1>5. Range(s) \subseteq S BY <1>2 DEF Range
<1> QED BY <1>4, <1>5

\* Three files have the fields a fragment has.
LEMMA FragmentsAre ==
  ASSUME NEW disk \in Disks, NEW category \in Directories
  PROVE  /\ IsFiniteSet(scan_xml_dir(disk, category))
         /\ \A f \in scan_xml_dir(disk, category) :
              /\ "category" \in DOMAIN f /\ "load" \in DOMAIN f
              /\ f.category = category /\ f.size \in Nat
<1>1. IsFiniteSet(disk[category]) /\ \A file \in disk[category] : file.size \in Nat
  BY LauncherAssumption DEF DisksAssumption
<1> DEFINE scanned(file) ==
      [id |-> parse_xml_root_attrs(file, category).id, category |-> category,
       load |-> parse_xml_root_attrs(file, category).load, name |-> file.name,
       title |-> file.title, domain |-> file.domain, size |-> file.size,
       template |-> file.template]
           S == disk[category]
           T == {scanned(file) : file \in S}
           h == [file \in S |-> scanned(file)]
<1>2. scan_xml_dir(disk, category) = T BY Zenon DEF scan_xml_dir
<1>3. \A file \in S : /\ "category" \in DOMAIN scanned(file) /\ "load" \in DOMAIN scanned(file)
                      /\ scanned(file).category = category
                      /\ scanned(file).size = file.size
  OBVIOUS
<1> HIDE DEF scanned
<1>4. IsFiniteSet(T)
  <2>1. h \in Surjection(S, T) BY Zenon DEF Surjection
  <2> QED BY <2>1, <1>1, FS_Surjection
<1>5. \A f \in T : \E file \in S : f = scanned(file) BY Zenon
<1> HIDE DEF T
<1> QED BY <1>1, <1>2, <1>3, <1>4, <1>5

LEMMA DescriptorsAre ==
  ASSUME NEW disk \in Disks, NEW kind \in {"systems", "spaces"}
  PROVE  /\ IsFiniteSet(scan_descriptor_dir(disk, kind))
         /\ \A d \in scan_descriptor_dir(disk, kind) :
              /\ "category" \notin DOMAIN d
              /\ d.size \in Nat /\ d.languages \in Seq(Range(d.languages))
<1>0. kind \in Directories BY DEF Directories
<1>1. IsFiniteSet(disk[kind]) /\ \A file \in disk[kind] :
        file.size \in Nat /\ file.languages \in Seq(Range(file.languages))
  BY <1>0, LauncherAssumption DEF DisksAssumption
<1> DEFINE scanned(file) ==
      [id |-> IF file.id = NoValue THEN file.stem ELSE file.id, kind |-> kind, name |-> file.name,
       title |-> file.title, parent |-> file.parent, languages |-> file.languages,
       size |-> file.size, template |-> file.template]
           S == disk[kind]
           T == {scanned(file) : file \in S}
           h == [file \in S |-> scanned(file)]
<1>2. scan_descriptor_dir(disk, kind) = T BY Zenon DEF scan_descriptor_dir
<1>3. \A file \in S : /\ "category" \notin DOMAIN scanned(file)
                      /\ scanned(file).languages = file.languages
                      /\ scanned(file).size = file.size
  OBVIOUS
<1> HIDE DEF scanned
<1>4. IsFiniteSet(T)
  <2>1. h \in Surjection(S, T) BY Zenon DEF Surjection
  <2> QED BY <2>1, <1>1, FS_Surjection
<1>5. \A f \in T : \E file \in S : f = scanned(file) BY Zenon
<1> HIDE DEF T
<1> QED BY <1>1, <1>2, <1>3, <1>4, <1>5

LEMMA ExpertiseAre ==
  ASSUME NEW disk \in Disks
  PROVE  /\ IsFiniteSet(scan_expertise_xml(disk))
         /\ \A f \in scan_expertise_xml(disk) :
              "category" \in DOMAIN f /\ f.category = "expertise" /\ f.size \in Nat
<1>0. "expertise" \in Directories BY DEF Directories
<1> DEFINE S == scan_xml_dir(disk, "expertise")
           manual(f) == [f EXCEPT !.load = "manual"]
           T == {manual(f) : f \in S}
           h == [f \in S |-> manual(f)]
<1>1. IsFiniteSet(S) /\ \A f \in S : /\ "category" \in DOMAIN f /\ "load" \in DOMAIN f
                                     /\ f.category = "expertise" /\ f.size \in Nat
  BY <1>0, FragmentsAre
<1>2. scan_expertise_xml(disk) = T BY Zenon DEF scan_expertise_xml
<1> HIDE DEF S
<1>3. \A f \in S : /\ "category" \in DOMAIN manual(f)
                   /\ manual(f).category = "expertise" /\ manual(f).size \in Nat
  <2> TAKE f \in S
  <2>1. DOMAIN manual(f) = DOMAIN f BY Zenon
  <2>2. "category" # "load" /\ "size" # "load" OBVIOUS
  <2>3. manual(f).category = f.category BY <1>1, <2>2
  <2>4. manual(f).size = f.size BY <1>1, <2>2
  <2> QED BY <1>1, <2>1, <2>3, <2>4
<1> HIDE DEF manual
<1>4. IsFiniteSet(T)
  <2>1. h \in Surjection(S, T) BY Zenon DEF Surjection
  <2> QED BY <2>1, <1>1, FS_Surjection
<1>5. \A f \in T : \E file \in S : f = manual(file) BY Zenon
<1> HIDE DEF T
<1> QED BY <1>2, <1>3, <1>4, <1>5

LEMMA FunctionIsSeq ==
  ASSUME NEW n \in Nat, NEW S, NEW f \in [1..n -> S]
  PROVE  f \in Seq(S) /\ Len(f) = n
OBVIOUS

\* Python, and every language a descriptor names, is in the list.
LEMMA LanguagesAre ==
  ASSUME NEW T, NEW D \in Seq(T), \A d \in T : d.languages \in Seq(Range(d.languages))
  PROVE  /\ Languages(D) \in Seq(Range(Languages(D)))
         /\ \A i \in DOMAIN D : Range(D[i].languages) \subseteq Range(Languages(D))
         /\ Languages(D) # <<>>
<1> DEFINE W == (UNION {Range(d.languages) : d \in T}) \cup {"python"}
           each == [i \in DOMAIN D |-> D[i].languages]
           named == <<"python">> \o FlattenSeq(each)
           first == {i \in DOMAIN named : \A j \in 1 .. i - 1 : named[j] # named[i]}
<1>1. each \in Seq(Seq(W))
  <2>1. \A d \in T : d.languages \in Seq(W)
    <3> TAKE d \in T
    <3>1. Range(d.languages) \in {Range(e.languages) : e \in T} BY Zenon
    <3>2. Range(d.languages) \subseteq W BY <3>1
    <3> HIDE DEF W
    <3> QED BY <3>2, SeqMonotonic
  <2> HIDE DEF W
  <2>2. Len(D) \in Nat /\ DOMAIN D = 1..Len(D) BY LenProperties
  <2>3. \A i \in 1..Len(D) : D[i] \in T BY ElementOfSeq
  <2>4. each \in [1..Len(D) -> Seq(W)] BY <2>1, <2>2, <2>3
  <2> HIDE DEF each
  <2> QED BY <2>2, <2>4, FunctionIsSeq
<1>2. "python" \in W OBVIOUS
<1> HIDE DEF W
<1>3. /\ <<"python">> \in Seq(W) /\ FlattenSeq(each) \in Seq(W) /\ named \in Seq(W)
  <2>1. <<"python">> \in Seq(W) BY <1>2
  <2>2. FlattenSeq(each) \in Seq(W) BY <1>1, FlattenIsSeq
  <2> QED BY <2>1, <2>2, ConcatProperties
<1>4. Languages(D) = ElementsAt(named, first) BY DEF Languages
<1>5. ASSUME NEW x, In(x, named) PROVE In(x, Languages(D))
  <2>1. Len(named) \in Nat /\ DOMAIN named = 1..Len(named) BY <1>3, LenProperties
  <2> DEFINE U == {i \in DOMAIN named : named[i] = x}
  <2>2. U \in SUBSET Nat /\ U # {}
    <3> HIDE DEF named
    <3> QED BY <1>5, <2>1 DEF In
  <2>3. PICK k \in U : \A y \in U : k <= y
    <3> HIDE DEF U
    <3> QED BY <2>2, LeastNumber
  <2> HIDE DEF named
  <2>4. k \in DOMAIN named /\ named[k] = x /\ k \in Nat BY <2>1, <2>3
  <2>5. \A j \in 1 .. k - 1 : named[j] # named[k]
    <3> SUFFICES ASSUME NEW j \in 1 .. k - 1, named[j] = x PROVE FALSE BY <2>4
    <3>1. j \in DOMAIN named /\ ~(k <= j) BY <2>1, <2>4
    <3> QED BY <2>3, <3>1
  <2>6. k \in first BY <2>4, <2>5
  <2>7. Range(ElementsAt(named, first)) = {named[i] : i \in first \cap DOMAIN named}
    BY <1>3, ElementsAtRange
  <2>8. x \in Range(Languages(D)) BY <1>4, <2>4, <2>6, <2>7
  <2> QED BY <2>8, RangeIn
<1>6. \A x : In(x, named) <=> In(x, <<"python">>) \/ In(x, FlattenSeq(each)) BY <1>3, InConcat
<1>7. ASSUME NEW i \in DOMAIN D PROVE Range(D[i].languages) \subseteq Range(Languages(D))
  <2> SUFFICES ASSUME NEW x \in Range(D[i].languages) PROVE x \in Range(Languages(D)) OBVIOUS
  <2>1. i \in DOMAIN each /\ each[i] = D[i].languages OBVIOUS
  <2> HIDE DEF each
  <2>2. In(x, each[i]) BY <2>1, RangeIn
  <2>3. In(x, FlattenSeq(each)) BY <1>1, <2>1, <2>2, InFlatten
  <2> QED BY <1>5, <1>6, <2>3, RangeIn
<1>8. In("python", Languages(D))
  <2>1. In("python", <<"python">>) BY DEF In
  <2> QED BY <1>5, <1>6, <2>1
<1>9. Languages(D) # <<>> BY <1>8 DEF In
<1>10. Languages(D) \in Seq(W) BY <1>3, <1>4, ElementsAtType
<1>11. Languages(D) \in Seq(Range(Languages(D))) BY <1>10, SeqOfRange
<1> QED BY <1>7, <1>9, <1>11

LEMMA EmptyInRange == <<>> \in Seq(Range(<<>>)) /\ Range(<<>>) = {}
BY DEF Range

LEMMA LibraryIsOk ==
  ASSUME NEW disk \in Disks, NEW l \in scan_library(disk)
  PROVE  LibraryOk(l)
<1> DEFINE always == {f \in UNION {scan_xml_dir(disk, category) : category \in Range(CategoryOrder)} :
                         f.load = "always"}
           descriptors == scan_descriptor_dir(disk, "systems") \cup scan_descriptor_dir(disk, "spaces")
           foundations == scan_xml_dir(disk, "foundation")
<1>1. /\ l.foundation \in IF foundations = {} THEN {<<>>} ELSE {<<f>> : f \in foundations}
      /\ l.personas \in ByName(scan_xml_dir(disk, "personas"))
      /\ l.always \in ByCategory(always)
      /\ l.coding \in ByName(scan_xml_dir(disk, "coding"))
      /\ l.expertise \in ByTitle(scan_expertise_xml(disk))
      /\ l.descriptors \in ByTitleAndKind(descriptors)
      /\ l.languages = Languages(l.descriptors)
  <2> HIDE DEF always, descriptors, foundations
  <2> DEFINE First == IF foundations = {} THEN {<<>>} ELSE {<<f>> : f \in foundations}
             Found == [foundation : First,
                       personas : ByName(scan_xml_dir(disk, "personas")),
                       always : ByCategory(always),
                       coding : ByName(scan_xml_dir(disk, "coding")),
                       expertise : ByTitle(scan_expertise_xml(disk)),
                       descriptors : ByTitleAndKind(descriptors)]
             built(k) == [foundation |-> k.foundation, personas |-> k.personas, always |-> k.always,
                         coding |-> k.coding, expertise |-> k.expertise,
                         descriptors |-> k.descriptors, languages |-> Languages(k.descriptors)]
  <2>1. scan_library(disk) = {built(k) : k \in Found}
    BY Zenon DEF scan_library, always, descriptors, foundations
  <2> HIDE DEF Found, built
  <2>2. PICK k \in Found : l = built(k) BY Zenon, <2>1
  <2> HIDE DEF First
  <2>3. /\ k.foundation \in First
        /\ k.personas \in ByName(scan_xml_dir(disk, "personas"))
        /\ k.always \in ByCategory(always)
        /\ k.coding \in ByName(scan_xml_dir(disk, "coding"))
        /\ k.expertise \in ByTitle(scan_expertise_xml(disk))
        /\ k.descriptors \in ByTitleAndKind(descriptors)
    <3> HIDE DEF always, descriptors, foundations
    <3> QED BY DEF Found
  <2>4. /\ l.foundation = k.foundation /\ l.personas = k.personas /\ l.always = k.always
        /\ l.coding = k.coding /\ l.expertise = k.expertise
        /\ l.descriptors = k.descriptors /\ l.languages = Languages(k.descriptors)
    BY <2>2 DEF built
  <2> HIDE DEF always, descriptors, foundations
  <2> QED BY <2>3, <2>4 DEF First
<1>2. Range(CategoryOrder) = {"cognitive-mode", "behavior", "communication", "safety", "anthropic"}
  <2>1. DOMAIN CategoryOrder = 1..5 BY DEF CategoryOrder
  <2>2. 1..5 = {1, 2, 3, 4, 5} OBVIOUS
  <2> QED BY <2>1, <2>2 DEF Range, CategoryOrder
<1>3. /\ IsFiniteSet(always)
      /\ \A f \in always : "category" \in DOMAIN f /\ f.category # "expertise" /\ f.size \in Nat
  <2> DEFINE Q == {scan_xml_dir(disk, category) : category \in Range(CategoryOrder)}
  <2>1. \A category \in Range(CategoryOrder) :
           category \in Directories /\ category # "expertise"
    BY <1>2 DEF Directories
  <2>2. \A S \in Q : IsFiniteSet(S) BY <2>1, FragmentsAre
  <2>3. IsFiniteSet(Q)
    <3> DEFINE h == [category \in Range(CategoryOrder) |-> scan_xml_dir(disk, category)]
    <3>1. h \in Surjection(Range(CategoryOrder), Q) BY Zenon DEF Surjection
    <3>2. IsFiniteSet(Range(CategoryOrder))
      <4>1. IsFiniteSet({}) BY FS_EmptySet
      <4>2. IsFiniteSet({} \cup {"cognitive-mode"}) BY <4>1, FS_AddElement
      <4>3. IsFiniteSet({} \cup {"cognitive-mode"} \cup {"behavior"}) BY <4>2, FS_AddElement
      <4>4. IsFiniteSet({} \cup {"cognitive-mode"} \cup {"behavior"} \cup {"communication"})
        BY <4>3, FS_AddElement
      <4>5. IsFiniteSet({} \cup {"cognitive-mode"} \cup {"behavior"} \cup {"communication"}
                        \cup {"safety"})
        BY <4>4, FS_AddElement
      <4>6. IsFiniteSet({} \cup {"cognitive-mode"} \cup {"behavior"} \cup {"communication"}
                        \cup {"safety"} \cup {"anthropic"})
        BY <4>5, FS_AddElement
      <4>7. Range(CategoryOrder) = {} \cup {"cognitive-mode"} \cup {"behavior"}
                \cup {"communication"} \cup {"safety"} \cup {"anthropic"}
        BY <1>2
      <4> QED BY <4>6, <4>7
    <3> QED BY <3>1, <3>2, FS_Surjection
  <2>4. IsFiniteSet(UNION Q) BY <2>2, <2>3, FS_UNION
  <2>5. always \in SUBSET UNION Q OBVIOUS
  <2>6. ASSUME NEW f \in always
        PROVE  "category" \in DOMAIN f /\ f.category # "expertise" /\ f.size \in Nat
    <3>1. PICK category \in Range(CategoryOrder) : f \in scan_xml_dir(disk, category) OBVIOUS
    <3> QED BY <2>1, <3>1, FragmentsAre
  <2> HIDE DEF Q, always
  <2> QED BY <2>4, <2>5, <2>6, FS_Subset
<1>4. /\ IsFiniteSet(descriptors)
      /\ \A d \in descriptors : /\ "category" \notin DOMAIN d /\ d.size \in Nat
                                /\ d.languages \in Seq(Range(d.languages))
  <2>1. IsFiniteSet(descriptors) BY DescriptorsAre, FS_Union
  <2> QED BY <2>1, DescriptorsAre
<1>5. /\ IsFiniteSet(scan_expertise_xml(disk))
      /\ \A f \in scan_expertise_xml(disk) :
           "category" \in DOMAIN f /\ f.category = "expertise" /\ f.size \in Nat
  BY ExpertiseAre
<1>6. \A category \in {"foundation", "personas", "coding"} :
        /\ IsFiniteSet(scan_xml_dir(disk, category))
        /\ \A f \in scan_xml_dir(disk, category) :
             "category" \in DOMAIN f /\ f.category # "expertise" /\ f.size \in Nat
  <2>1. \A category \in {"foundation", "personas", "coding"} :
           category \in Directories /\ category # "expertise"
    BY DEF Directories
  <2> QED BY <2>1, FragmentsAre
<1> HIDE DEF always, descriptors
<1>7. l.foundation \in Seq(Range(l.foundation)) /\ Range(l.foundation) \subseteq foundations
  <2>1. CASE l.foundation = <<>> BY <2>1, EmptyInRange
  <2>2. CASE \E file \in foundations : l.foundation = <<file>>
    <3>1. PICK file \in foundations : l.foundation = <<file>> BY <2>2
    <3>2. <<file>> \in Seq({file}) /\ Range(<<file>>) = {file} BY DEF Range
    <3> QED BY <3>1, <3>2
  <2> HIDE DEF foundations
  <2> QED BY <1>1, <2>1, <2>2
<1>8. l.personas \in Seq(Range(l.personas)) /\ Range(l.personas) \subseteq scan_xml_dir(disk, "personas")
  BY <1>1, <1>6, SeqsAre DEF ByName, Sorted
<1>9. l.coding \in Seq(Range(l.coding)) /\ Range(l.coding) \subseteq scan_xml_dir(disk, "coding")
  BY <1>1, <1>6, SeqsAre DEF ByName, Sorted
<1>10. l.always \in Seq(Range(l.always)) /\ Range(l.always) \subseteq always
  BY <1>1, <1>3, SeqsAre DEF ByCategory, Sorted
<1>11. l.expertise \in Seq(Range(l.expertise)) /\ Range(l.expertise) \subseteq scan_expertise_xml(disk)
  BY <1>1, <1>5, SeqsAre DEF ByTitle, Sorted
<1>12. l.descriptors \in Seq(Range(l.descriptors)) /\ Range(l.descriptors) \subseteq descriptors
  BY <1>1, <1>4, SeqsAre DEF ByTitleAndKind, Sorted
<1>13. /\ l.languages \in Seq(Range(l.languages)) /\ l.languages # <<>>
       /\ \A d \in Range(l.descriptors) : Range(d.languages) \subseteq Range(l.languages)
  <2> DEFINE D == l.descriptors
             T == Range(D)
  <2>1. D \in Seq(T) /\ \A d \in T : d.languages \in Seq(Range(d.languages)) BY <1>4, <1>12
  <2> HIDE DEF T
  <2>2. /\ Languages(D) \in Seq(Range(Languages(D)))
        /\ \A i \in DOMAIN D : Range(D[i].languages) \subseteq Range(Languages(D))
        /\ Languages(D) # <<>>
    BY <2>1, LanguagesAre
  <2> QED BY <1>1, <2>2 DEF Range
<1> DEFINE P == Fragments(l)
           X == Range(l.expertise)
           D == Range(l.descriptors)
<1>14. \A f \in P : "category" \in DOMAIN f /\ f.category # "expertise" /\ f.size \in Nat
  BY <1>3, <1>6, <1>7, <1>8, <1>9, <1>10 DEF Fragments
<1>15. \A f \in X : "category" \in DOMAIN f /\ f.category = "expertise" /\ f.size \in Nat
  BY <1>5, <1>11
<1>16. \A f \in D : "category" \notin DOMAIN f /\ f.size \in Nat BY <1>4, <1>12
<1> HIDE DEF P, X, D
<1>17. P \cap D = {} /\ P \cap X = {} /\ X \cap D = {} BY <1>14, <1>15, <1>16
<1>18. Sized(P \cup X \cup D) BY <1>14, <1>15, <1>16 DEF Sized
<1>19. \A s \in Listed(l) : s \in Seq(Range(s))
  BY <1>7, <1>8, <1>9, <1>10, <1>11, <1>12, <1>13 DEF Listed
<1> QED BY <1>13, <1>17, <1>18, <1>19 DEF LibraryOk, P, X, D

-----------------------------------------------------------------------------
(* Launcher: the selection *)

SectionsKnown == {"Workspace", "Persona", "Expertise", "Descriptors", "Coding"}

ProfilesOk(ps) == ps \in Seq(Range(ps)) /\ \A i \in DOMAIN ps : ps[i].coding \in BOOLEAN

\* The states of the launcher over one library and one file of profiles.
AppOf(l, ps) ==
  [library : {l}, profiles : {ps}, workspace : 0..Len(ps), persona : 0..Len(l.personas),
   coding : BOOLEAN, languages : SUBSET DOMAIN l.languages,
   expertise : SUBSET DOMAIN l.expertise, descriptors : SUBSET DOMAIN l.descriptors,
   section : SectionsKnown, cursor : Nat]

LEMMA ProfilesAreOk ==
  ASSUME NEW file \in ProfileFiles PROVE ProfilesOk(load_profiles(file))
<1> DEFINE table == {i \in DOMAIN file : file[i].table}
           kept == ElementsAt(file, table)
           ps == load_profiles(file)
<1>1. /\ file \in Seq(Range(file))
      /\ \A i \in DOMAIN file : file[i].table => file[i].coding \in BOOLEAN \cup {NoValue}
  BY LauncherAssumption DEF ProfilesAssumption
<1>2. kept \in Seq(Range(file)) BY <1>1, ElementsAtType
<1>3. Range(kept) = {file[i] : i \in table \cap DOMAIN file} BY <1>1, ElementsAtRange
<1>4. \A i \in DOMAIN kept : kept[i].coding \in BOOLEAN \cup {NoValue}
  <2> TAKE i \in DOMAIN kept
  <2>1. kept[i] \in Range(kept) BY DEF Range
  <2> HIDE DEF kept
  <2>2. PICK j \in table \cap DOMAIN file : kept[i] = file[j] BY <2>1, <1>3
  <2> QED BY <2>2, <1>1
<1> HIDE DEF kept
<1>5. DOMAIN ps = DOMAIN kept
      /\ \A i \in DOMAIN kept :
           ps[i].coding = IF kept[i].coding = NoValue THEN TRUE ELSE kept[i].coding
  BY DEF load_profiles, kept
<1>6. \A i \in DOMAIN kept : ps[i].coding \in BOOLEAN BY <1>4, <1>5
<1>7. ps = [i \in DOMAIN kept |-> ps[i]] BY DEF load_profiles, kept
<1> HIDE DEF ps
<1>8. ps \in Seq(Range(ps))
  <2>1. Len(kept) \in Nat /\ DOMAIN kept = 1..Len(kept) BY <1>2, LenProperties
  <2>2. \A i \in DOMAIN kept : ps[i] \in Range(ps) BY <1>5 DEF Range
  <2>3. ps \in [1..Len(kept) -> Range(ps)] BY <1>7, <2>1, <2>2
  <2> QED BY <2>1, <2>3, FunctionIsSeq
<1> QED BY <1>5, <1>6, <1>8 DEF ps, ProfilesOk

LEMMA MinIn == ASSUME NEW T \in SUBSET Nat, T # {} PROVE Min(T) \in T
<1>1. \E x \in T : \A y \in T : x <= y BY LeastNumber
<1> QED BY <1>1 DEF Min

LEMMA MaxOfOne == ASSUME NEW n \in Nat PROVE Max({1, n}) = IF n > 1 THEN n ELSE 1
<1> DEFINE m == IF n > 1 THEN n ELSE 1
<1>2. m \in {1, n} /\ \A y \in {1, n} : m >= y OBVIOUS
<1>3. \A x \in {1, n} : (\A y \in {1, n} : x >= y) => x = m OBVIOUS
<1> HIDE DEF m
<1>4. Max({1, n}) \in {1, n} /\ \A y \in {1, n} : Max({1, n}) >= y BY <1>2 DEF Max
<1> QED BY <1>3, <1>4 DEF m

\* A space is one of the descriptors, and there is none outside the spaces.
LEMMA SpaceIs ==
  ASSUME NEW l, LibraryOk(l), NEW ps, NEW a \in AppOf(l, ps)
  PROVE  /\ auto_space_index(a) \in {0} \cup DOMAIN l.descriptors
         /\ a.workspace = 0 \/ ps[a.workspace].spaces = {} => auto_space_index(a) = 0
<1> DEFINE id == l.personas[a.persona].id
           hits == {i \in DOMAIN l.descriptors :
                      l.descriptors[i].kind = "spaces" /\ l.descriptors[i].id = id}
<1>1. a.library = l /\ a.profiles = ps BY DEF AppOf
<1>2. auto_space_index(a) = 0
      \/ (/\ id \in ps[a.workspace].spaces
          /\ auto_space_index(a) = IF hits = {} THEN 0 ELSE Min(hits))
  BY <1>1 DEF auto_space_index, matching_space_index, Position
<1>3. a.workspace = 0 => auto_space_index(a) = 0 BY DEF auto_space_index
<1>4. l.descriptors \in Seq(Range(l.descriptors)) BY DEF LibraryOk, Listed
<1>5. DOMAIN l.descriptors \subseteq Nat BY <1>4, LenProperties
<1> HIDE DEF id
<1>6. hits # {} => Min(hits) \in DOMAIN l.descriptors
  <2>1. hits \in SUBSET Nat BY <1>5
  <2>2. hits \subseteq DOMAIN l.descriptors OBVIOUS
  <2> HIDE DEF hits
  <2> QED BY <2>1, <2>2, MinIn
<1> HIDE DEF hits
<1> QED BY <1>2, <1>3, <1>6

LEMMA SpaceKind ==
  ASSUME NEW l, LibraryOk(l), NEW ps, NEW a \in AppOf(l, ps), auto_space_index(a) # 0
  PROVE  l.descriptors[auto_space_index(a)].kind = "spaces"
<1> DEFINE id == l.personas[a.persona].id
           hits == {i \in DOMAIN l.descriptors :
                      l.descriptors[i].kind = "spaces" /\ l.descriptors[i].id = id}
<1>1. a.library = l /\ a.profiles = ps BY DEF AppOf
<1>2. auto_space_index(a) = IF hits = {} THEN 0 ELSE Min(hits)
  BY <1>1 DEF auto_space_index, matching_space_index, Position
<1>3. l.descriptors \in Seq(Range(l.descriptors)) BY DEF LibraryOk, Listed
<1>4. DOMAIN l.descriptors \subseteq Nat BY <1>3, LenProperties
<1>5. hits \subseteq Nat BY <1>4
<1>6. \A i \in hits : l.descriptors[i].kind = "spaces" OBVIOUS
<1> HIDE DEF hits
<1>7. hits # {} => Min(hits) \in hits BY <1>5, MinIn
<1> QED BY <1>2, <1>6, <1>7

LEMMA SameSpace ==
  ASSUME NEW a, NEW b, b.library = a.library, b.profiles = a.profiles,
         b.workspace = a.workspace, b.persona = a.persona
  PROVE  auto_space_index(b) = auto_space_index(a)
BY DEF auto_space_index

From(a) == a.descriptors \cup ({auto_space_index(a)} \ {0})

\* The languages of what is in the context are among the languages selected.
Synced(a) ==
  \A i \in From(a) :
    Range(a.library.descriptors[i].languages) \subseteq {a.library.languages[k] : k \in a.languages}

\* Those of the descriptors selected are, whatever the space.
ListedSynced(a) ==
  \A i \in a.descriptors :
    Range(a.library.descriptors[i].languages) \subseteq {a.library.languages[k] : k \in a.languages}

LEMMA SyncedLists == ASSUME NEW a, Synced(a) PROVE ListedSynced(a)
BY DEF Synced, ListedSynced, From

SyncedLanguages(a) ==
  {k \in DOMAIN a.library.languages :
     a.library.languages[k] \in UNION {Range(a.library.descriptors[i].languages) : i \in From(a)}}
  \cup (IF a.coding THEN {1} ELSE {})

LEMMA SyncIs ==
  ASSUME NEW a PROVE sync_languages_from_descriptors(a) = [a EXCEPT !.languages = SyncedLanguages(a)]
BY Zenon DEF sync_languages_from_descriptors, SyncedLanguages, From

LEMMA SyncOk ==
  ASSUME NEW l, LibraryOk(l), NEW ps, NEW a \in AppOf(l, ps), NEW b,
         b = sync_languages_from_descriptors(a)
  PROVE  /\ b \in AppOf(l, ps) /\ Synced(b) /\ (b.coding => 1 \in b.languages)
         /\ b.languages = SyncedLanguages(a)
         /\ b.workspace = a.workspace /\ b.persona = a.persona /\ b.coding = a.coding
         /\ b.expertise = a.expertise /\ b.descriptors = a.descriptors
         /\ b.section = a.section /\ b.cursor = a.cursor
<1>1. /\ l.languages \in Seq(Range(l.languages)) /\ l.languages # <<>>
      /\ \A d \in Range(l.descriptors) : Range(d.languages) \subseteq Range(l.languages)
  BY DEF LibraryOk, Listed
<1>2. 1 \in DOMAIN l.languages
  <2>1. Len(l.languages) \in Nat \ {0} BY <1>1, EmptySeq
  <2> QED BY <1>1, <2>1, LenProperties
<1>3. a.library = l /\ a.profiles = ps BY DEF AppOf
<1>4. SyncedLanguages(a) \subseteq DOMAIN l.languages BY <1>2, <1>3 DEF SyncedLanguages
<1> DEFINE s == SyncedLanguages(a)
<1>5. b = [a EXCEPT !.languages = s] BY SyncIs
<1>6. a.coding => 1 \in s BY DEF SyncedLanguages
<1> HIDE DEF s
<1>7. /\ b \in AppOf(l, ps) /\ b.languages = s
      /\ b.workspace = a.workspace /\ b.persona = a.persona /\ b.coding = a.coding
      /\ b.expertise = a.expertise /\ b.descriptors = a.descriptors
      /\ b.section = a.section /\ b.cursor = a.cursor
      /\ b.library = l /\ b.profiles = ps
  BY <1>3, <1>4, <1>5 DEF AppOf, s
<1>8. auto_space_index(b) = auto_space_index(a) BY <1>3, <1>7, SameSpace
<1>9. From(b) = From(a) BY <1>7, <1>8 DEF From
<1>10. From(a) \subseteq DOMAIN l.descriptors
  <2>1. a.descriptors \subseteq DOMAIN l.descriptors BY DEF AppOf
  <2> QED BY <2>1, SpaceIs DEF From
<1>11. Synced(b)
  <2> SUFFICES ASSUME NEW i \in From(a), NEW x \in Range(l.descriptors[i].languages)
               PROVE  x \in {l.languages[k] : k \in s}
    BY <1>7, <1>9 DEF Synced
  <2>1. l.descriptors[i] \in Range(l.descriptors) BY <1>10 DEF Range
  <2>2. x \in Range(l.languages) BY <1>1, <2>1
  <2>3. PICK k \in DOMAIN l.languages : l.languages[k] = x BY <2>2 DEF Range
  <2>4. x \in UNION {Range(l.descriptors[j].languages) : j \in From(a)} OBVIOUS
  <2>5. k \in s BY <1>3, <2>3, <2>4 DEF s, SyncedLanguages
  <2> QED BY <2>3, <2>5
<1> QED BY <1>6, <1>7, <1>11 DEF s

LEMMA NewIs ==
  ASSUME NEW l, LibraryOk(l), NEW ps, ProfilesOk(ps), NEW a, a = AppState_new(l, ps)
  PROVE  /\ a \in AppOf(l, ps) /\ Synced(a) /\ (a.coding => 1 \in a.languages)
         /\ a.section = "Workspace" /\ a.cursor = 1 /\ a.workspace = 0
<1>1. l.languages \in Seq(Range(l.languages)) /\ l.languages # <<>> BY DEF LibraryOk, Listed
<1>2. 1 \in DOMAIN l.languages
  <2>1. Len(l.languages) \in Nat \ {0} BY <1>1, EmptySeq
  <2> QED BY <1>1, <2>1, LenProperties
<1>3. Len(ps) \in Nat BY LenProperties DEF ProfilesOk
<1>4. l.personas \in Seq(Range(l.personas)) BY DEF LibraryOk, Listed
<1>5. Len(l.personas) \in Nat /\ (l.personas # <<>> => Len(l.personas) # 0)
  BY <1>4, LenProperties, EmptySeq
<1>6. a \in AppOf(l, ps) BY <1>2, <1>3, <1>5 DEF AppState_new, AppOf, SectionsKnown
<1>7. /\ a.workspace = 0 /\ a.descriptors = {} /\ a.languages = {1}
      /\ a.section = "Workspace" /\ a.cursor = 1
  BY DEF AppState_new
<1>8. auto_space_index(a) = 0 BY <1>7 DEF auto_space_index
<1>9. Synced(a) BY <1>7, <1>8 DEF Synced, From
<1> QED BY <1>6, <1>7, <1>9

LEMMA DefaultsIn ==
  ASSUME NEW l, LibraryOk(l), NEW profile
  PROVE  DescriptorDefaults(l, profile) \subseteq DOMAIN l.descriptors
<1> DEFINE d == l.descriptors
           hits == {i \in DOMAIN d : d[i].id = profile.primary /\ d[i].kind = "systems"}
           primary == IF profile.primary = NoValue THEN 0
                      ELSE IF hits = {} THEN 0 ELSE Min(hits)
           family == IF primary = 0 \/ d[primary].parent = NoValue THEN {}
                     ELSE {i \in Systems(l) : d[primary].parent \in {d[i].parent, d[i].id}}
           listed == {i \in DOMAIN d : d[i].id \in profile.descriptors}
<1>1. d \in Seq(Range(d)) BY DEF LibraryOk, Listed
<1>2. DOMAIN d \subseteq Nat BY <1>1, LenProperties
<1>3. hits # {} => Min(hits) \in DOMAIN d
  <2>1. hits \in SUBSET Nat /\ hits \subseteq DOMAIN d BY <1>2
  <2> HIDE DEF hits
  <2> QED BY <2>1, MinIn
<1>4. DescriptorDefaults(l, profile) = listed \cup ({primary} \ {0}) \cup family
  BY DEF DescriptorDefaults, Position
<1> HIDE DEF hits
<1>5. primary \in {0} \cup DOMAIN d BY <1>3
<1>6. Systems(l) \subseteq DOMAIN d BY DEF Systems
<1> HIDE DEF primary
<1> QED BY <1>4, <1>5, <1>6

PersonaOf(l, profile) ==
  LET hits == {i \in DOMAIN l.personas : l.personas[i].id = profile.persona}
  IN  IF hits = {} THEN 0 ELSE Min(hits)

ExpertiseOf(l, profile) == {i \in DOMAIN l.expertise : l.expertise[i].id \in profile.expertise}

\* Choosing a workspace leaves nothing of what was selected.
ProfileChosen(a, w) ==
  [a EXCEPT !.workspace = w, !.coding = a.profiles[w].coding,
            !.persona = PersonaOf(a.library, a.profiles[w]),
            !.expertise = ExpertiseOf(a.library, a.profiles[w])]

LEMMA ApplyIs ==
  ASSUME NEW a, NEW w
  PROVE  apply_workspace_profile(a, w)
           = sync_languages_from_descriptors(
               [ProfileChosen(a, w) EXCEPT
                  !.descriptors = DescriptorDefaults(ProfileChosen(a, w).library, a.profiles[w])])
BY Zenon DEF apply_workspace_profile, apply_descriptor_defaults, ProfileChosen, PersonaOf,
             ExpertiseOf, Position

LEMMA ApplyOk ==
  ASSUME NEW l, LibraryOk(l), NEW ps, ProfilesOk(ps), NEW a \in AppOf(l, ps),
         NEW w \in 1..Len(ps), NEW b, b = apply_workspace_profile(a, w)
  PROVE  /\ b \in AppOf(l, ps) /\ Synced(b) /\ (b.coding => 1 \in b.languages)
         /\ b.workspace = w /\ b.coding = ps[w].coding /\ b.persona = PersonaOf(l, ps[w])
         /\ b.expertise = ExpertiseOf(l, ps[w])
         /\ b.descriptors = DescriptorDefaults(l, ps[w])
         /\ b.section = a.section /\ b.cursor = a.cursor
         /\ \E c : /\ b.languages = SyncedLanguages(c)
                   /\ c.library = l /\ c.profiles = ps /\ c.workspace = w
                   /\ c.coding = ps[w].coding /\ c.persona = PersonaOf(l, ps[w])
                   /\ c.descriptors = DescriptorDefaults(l, ps[w])
<1> DEFINE p == ProfileChosen(a, w)
           c == [p EXCEPT !.descriptors = DescriptorDefaults(p.library, a.profiles[w])]
           persona == PersonaOf(l, ps[w])
           expertise == ExpertiseOf(l, ps[w])
           descriptors == DescriptorDefaults(l, ps[w])
<1>1. a.library = l /\ a.profiles = ps BY DEF AppOf
<1>2. w \in 0..Len(ps) /\ ps[w].coding \in BOOLEAN
  <2>1. Len(ps) \in Nat /\ DOMAIN ps = 1..Len(ps) BY LenProperties DEF ProfilesOk
  <2> QED BY <2>1 DEF ProfilesOk
<1>3. persona \in 0..Len(l.personas)
  <2>1. l.personas \in Seq(Range(l.personas)) BY DEF LibraryOk, Listed
  <2>2. Len(l.personas) \in Nat /\ DOMAIN l.personas = 1..Len(l.personas) BY <2>1, LenProperties
  <2> DEFINE hits == {i \in DOMAIN l.personas : l.personas[i].id = ps[w].persona}
  <2>3. hits # {} => Min(hits) \in DOMAIN l.personas
    <3>1. hits \in SUBSET Nat /\ hits \subseteq DOMAIN l.personas BY <2>2
    <3> HIDE DEF hits
    <3> QED BY <3>1, MinIn
  <2>4. persona = IF hits = {} THEN 0 ELSE Min(hits) BY DEF PersonaOf
  <2> HIDE DEF hits, persona
  <2> QED BY <2>2, <2>3, <2>4
<1>4. expertise \subseteq DOMAIN l.expertise BY DEF ExpertiseOf
<1>5. descriptors \subseteq DOMAIN l.descriptors BY DefaultsIn
<1>6. p = [a EXCEPT !.workspace = w, !.coding = ps[w].coding, !.persona = persona,
                    !.expertise = expertise]
  BY <1>1 DEF ProfileChosen
<1> HIDE DEF p, persona, expertise, descriptors
<1>7. /\ p \in AppOf(l, ps) /\ p.workspace = w /\ p.coding = ps[w].coding
      /\ p.persona = persona /\ p.expertise = expertise
      /\ p.library = l /\ p.profiles = ps /\ p.section = a.section /\ p.cursor = a.cursor
  BY <1>1, <1>2, <1>3, <1>4, <1>6 DEF AppOf
<1>8. c = [p EXCEPT !.descriptors = descriptors] BY <1>1, <1>7 DEF descriptors
<1>9. b = sync_languages_from_descriptors(c) BY ApplyIs DEF p
<1> HIDE DEF c
<1>10. /\ c \in AppOf(l, ps) /\ c.workspace = w /\ c.coding = ps[w].coding
       /\ c.persona = persona /\ c.expertise = expertise /\ c.descriptors = descriptors
       /\ c.library = l /\ c.profiles = ps /\ c.section = a.section /\ c.cursor = a.cursor
  BY <1>5, <1>7, <1>8 DEF AppOf
<1>11. /\ b \in AppOf(l, ps) /\ Synced(b) /\ (b.coding => 1 \in b.languages)
       /\ b.languages = SyncedLanguages(c)
       /\ b.workspace = c.workspace /\ b.persona = c.persona /\ b.coding = c.coding
       /\ b.expertise = c.expertise /\ b.descriptors = c.descriptors
       /\ b.section = c.section /\ b.cursor = c.cursor
  BY <1>9, <1>10, SyncOk
<1> QED BY <1>10, <1>11 DEF persona, expertise, descriptors

LEMMA SameLanguages ==
  ASSUME NEW a, NEW b, b.library = a.library, b.profiles = a.profiles, b.coding = a.coding,
         b.workspace = a.workspace, b.persona = a.persona, b.descriptors = a.descriptors
  PROVE  SyncedLanguages(b) = SyncedLanguages(a)
<1>1. auto_space_index(b) = auto_space_index(a) BY SameSpace
<1>2. From(b) = From(a) BY <1>1 DEF From
<1> QED BY <1>2 DEF SyncedLanguages

LEMMA SameSelection ==
  ASSUME NEW l, NEW ps, NEW a \in AppOf(l, ps), NEW b \in AppOf(l, ps),
         a.workspace = b.workspace, a.persona = b.persona, a.coding = b.coding,
         a.languages = b.languages, a.expertise = b.expertise, a.descriptors = b.descriptors
  PROVE  Selection(a) = Selection(b)
<1> DEFINE F == {"library", "profiles", "workspace", "persona", "coding", "languages",
                 "expertise", "descriptors"}
<1>1. DOMAIN a = F \cup {"section", "cursor"} /\ DOMAIN b = F \cup {"section", "cursor"} BY DEF AppOf
<1>2. a.library = b.library /\ a.profiles = b.profiles BY DEF AppOf
<1>3. DOMAIN a \ {"section", "cursor"} = F /\ DOMAIN b \ {"section", "cursor"} = F BY <1>1
<1>4. \A f \in F : a[f] = b[f] BY <1>2
<1> HIDE DEF F
<1> QED BY <1>3, <1>4 DEF Selection

Fresh(a) ==
  IF a.workspace = 0 THEN AppState_new(a.library, a.profiles)
  ELSE apply_workspace_profile(AppState_new(a.library, a.profiles), a.workspace)

LEMMA ApplyFresh ==
  ASSUME NEW l, LibraryOk(l), NEW ps, ProfilesOk(ps), NEW a \in AppOf(l, ps),
         NEW w \in 1..Len(ps), NEW b, b = apply_workspace_profile(a, w)
  PROVE  Selection(b) = Selection(Fresh(b))
<1> DEFINE n == AppState_new(l, ps)
           e == apply_workspace_profile(n, w)
<1>1. b \in AppOf(l, ps) /\ b.workspace = w BY ApplyOk
<1>2. b.library = l /\ b.profiles = ps BY <1>1 DEF AppOf
<1>3. n \in AppOf(l, ps) BY NewIs
<1>4. w # 0 OBVIOUS
<1>5. Fresh(b) = e BY <1>1, <1>2, <1>4 DEF Fresh
<1> HIDE DEF n, e
<1>6. PICK c : /\ b.languages = SyncedLanguages(c)
               /\ c.library = l /\ c.profiles = ps /\ c.workspace = w
               /\ c.coding = ps[w].coding /\ c.persona = PersonaOf(l, ps[w])
               /\ c.descriptors = DescriptorDefaults(l, ps[w])
  BY ApplyOk
<1>7. e = apply_workspace_profile(n, w) BY DEF e
<1>8. PICK k : /\ e.languages = SyncedLanguages(k)
               /\ k.library = l /\ k.profiles = ps /\ k.workspace = w
               /\ k.coding = ps[w].coding /\ k.persona = PersonaOf(l, ps[w])
               /\ k.descriptors = DescriptorDefaults(l, ps[w])
  BY <1>3, <1>7, ApplyOk
<1>9. b.languages = e.languages BY <1>6, <1>8, SameLanguages
<1>10. /\ b.workspace = w /\ b.coding = ps[w].coding /\ b.persona = PersonaOf(l, ps[w])
       /\ b.expertise = ExpertiseOf(l, ps[w]) /\ b.descriptors = DescriptorDefaults(l, ps[w])
  BY ApplyOk
<1>11. /\ e \in AppOf(l, ps)
       /\ e.workspace = w /\ e.coding = ps[w].coding /\ e.persona = PersonaOf(l, ps[w])
       /\ e.expertise = ExpertiseOf(l, ps[w]) /\ e.descriptors = DescriptorDefaults(l, ps[w])
  BY <1>3, <1>7, ApplyOk
<1> QED BY <1>1, <1>5, <1>9, <1>10, <1>11, SameSelection

-----------------------------------------------------------------------------
(* Launcher: the keys *)

RowOk(a) == a.cursor \in 1 .. Max({1, section_len(a, a.section)})

Kept(l, ps, a) == a \in AppOf(l, ps) /\ RowOk(a) /\ (a.coding => 1 \in a.languages)

LEMMA SystemsAre ==
  ASSUME NEW l, LibraryOk(l), NEW S \in SUBSET DOMAIN l.descriptors
  PROVE  /\ Ascending(l, S) \in Seq(DOMAIN l.descriptors) /\ Range(Ascending(l, S)) = S
         /\ system_indices(l) \in Seq(DOMAIN l.descriptors)
<1> DEFINE D == DOMAIN l.descriptors
           n == Len(l.descriptors)
           all == [i \in D |-> i]
<1>1. n \in Nat /\ D = 1..n
  <2>1. l.descriptors \in Seq(Range(l.descriptors)) BY DEF LibraryOk, Listed
  <2> QED BY <2>1, LenProperties
<1>2. all \in Seq(D)
  <2> HIDE DEF n
  <2>1. all \in [1..n -> D] BY <1>1
  <2> HIDE DEF all
  <2> QED BY <1>1, <2>1, FunctionIsSeq
<1>3. DOMAIN all = D /\ \A i \in D : all[i] = i OBVIOUS
<1>4. \A T : Ascending(l, T) = ElementsAt(all, T) BY DEF Ascending
<1> HIDE DEF all
<1>5. \A T : Ascending(l, T) \in Seq(D) BY <1>2, <1>4, ElementsAtType
<1>6. Range(Ascending(l, S)) = {all[i] : i \in S \cap DOMAIN all} BY <1>2, <1>4, ElementsAtRange
<1>7. {all[i] : i \in S \cap DOMAIN all} = S BY <1>3
<1>8. system_indices(l) \in Seq(D) BY <1>5 DEF system_indices
<1> QED BY <1>5, <1>6, <1>7, <1>8

\* The rows of a section.
LEMMA RowsAre ==
  ASSUME NEW l, LibraryOk(l), NEW ps, ProfilesOk(ps), NEW a \in AppOf(l, ps)
  PROVE  /\ Len(system_indices(l)) \in Nat
         /\ section_len(a, "Workspace") = Len(ps) + 1
         /\ section_len(a, "Persona") = Len(l.personas)
         /\ section_len(a, "Descriptors") = Len(system_indices(l))
         /\ section_len(a, "Coding") = 1 + Len(l.languages)
         /\ section_len(a, "Expertise") = Len(l.expertise)
         /\ \A s \in SectionsKnown : section_len(a, s) \in Nat
<1>1. a.library = l /\ a.profiles = ps BY DEF AppOf
<1>2. /\ section_len(a, "Workspace") = Len(ps) + 1
      /\ section_len(a, "Persona") = Len(l.personas)
      /\ section_len(a, "Descriptors") = Len(system_indices(l))
      /\ section_len(a, "Coding") = 1 + Len(l.languages)
      /\ section_len(a, "Expertise") = Len(l.expertise)
  BY <1>1 DEF section_len
<1>3. Len(ps) \in Nat BY LenProperties DEF ProfilesOk
<1>4. Len(l.personas) \in Nat /\ Len(l.languages) \in Nat /\ Len(l.expertise) \in Nat
  <2>1. /\ l.personas \in Seq(Range(l.personas)) /\ l.languages \in Seq(Range(l.languages))
        /\ l.expertise \in Seq(Range(l.expertise))
    BY DEF LibraryOk, Listed
  <2> QED BY <2>1, LenProperties
<1>5. Len(system_indices(l)) \in Nat BY SystemsAre, LenProperties
<1> QED BY <1>2, <1>3, <1>4, <1>5 DEF SectionsKnown

LEMMA SameRow ==
  ASSUME NEW l, LibraryOk(l), NEW ps, ProfilesOk(ps), NEW a \in AppOf(l, ps),
         NEW b \in AppOf(l, ps), b.section = a.section, b.cursor = a.cursor, RowOk(a)
  PROVE  RowOk(b)
<1>1. a.section \in SectionsKnown BY DEF AppOf
<1>2. section_len(b, a.section) = section_len(a, a.section) BY <1>1, RowsAre DEF SectionsKnown
<1> QED BY <1>2 DEF RowOk

\* A row under the cursor, in a section that has any.
LEMMA RowIn ==
  ASSUME NEW l, LibraryOk(l), NEW ps, ProfilesOk(ps), NEW a \in AppOf(l, ps), RowOk(a),
         NEW n \in Nat, n = section_len(a, a.section), n # 0
  PROVE  a.cursor \in 1..n
<1>1. Max({1, n}) = n BY MaxOfOne
<1> QED BY <1>1 DEF RowOk

LEMMA SyncedSame ==
  ASSUME NEW a, NEW b, b.library = a.library, b.profiles = a.profiles, b.persona = a.persona,
         b.workspace = a.workspace, b.descriptors = a.descriptors, b.languages = a.languages,
         Synced(a)
  PROVE  Synced(b)
<1>1. auto_space_index(b) = auto_space_index(a) BY SameSpace
<1>2. From(b) = From(a) BY <1>1 DEF From
<1> QED BY <1>2 DEF Synced

LEMMA ListedSame ==
  ASSUME NEW a, NEW b, b.library = a.library, b.descriptors = a.descriptors,
         b.languages = a.languages, ListedSynced(a)
  PROVE  ListedSynced(b)
BY DEF ListedSynced

LEMMA ClearOk ==
  ASSUME NEW l, LibraryOk(l), NEW ps, ProfilesOk(ps), NEW a \in AppOf(l, ps),
         NEW b, b = clear_workspace_profile(a)
  PROVE  /\ b \in AppOf(l, ps) /\ Synced(b) /\ (b.coding => 1 \in b.languages)
         /\ b.section = a.section /\ b.cursor = a.cursor
         /\ Selection(b) = Selection(Fresh(b))
<1> DEFINE n == AppState_new(l, ps)
<1>1. a.library = l /\ a.profiles = ps /\ a.section \in SectionsKnown /\ a.cursor \in Nat BY DEF AppOf
<1>2. b = [n EXCEPT !.section = a.section, !.cursor = a.cursor]
  BY <1>1 DEF clear_workspace_profile
<1>3. n \in AppOf(l, ps) /\ Synced(n) /\ (n.coding => 1 \in n.languages) /\ n.workspace = 0 BY NewIs
<1> HIDE DEF n
<1>4. /\ b \in AppOf(l, ps) /\ b.section = a.section /\ b.cursor = a.cursor
      /\ b.library = n.library /\ b.profiles = n.profiles /\ b.workspace = n.workspace
      /\ b.persona = n.persona /\ b.coding = n.coding /\ b.languages = n.languages
      /\ b.expertise = n.expertise /\ b.descriptors = n.descriptors
  BY <1>1, <1>2, <1>3 DEF AppOf
<1>5. b.library = l /\ b.profiles = ps BY <1>4 DEF AppOf
<1>6. Fresh(b) = n BY <1>3, <1>4, <1>5 DEF Fresh, n
<1>7. Selection(b) = Selection(n) BY <1>3, <1>4, SameSelection
<1>8. Synced(b) BY <1>3, <1>4, SyncedSame
<1> QED BY <1>3, <1>4, <1>6, <1>7, <1>8

LEMMA ToggleIn ==
  ASSUME NEW D, NEW S \in SUBSET D, NEW i \in D PROVE Toggle(S, i) \in SUBSET D
BY DEF Toggle

\* The persona matters to the space only.
LEMMA PersonaOk ==
  ASSUME NEW l, LibraryOk(l), NEW ps, NEW a \in AppOf(l, ps), NEW b,
         NEW p \in 0..Len(l.personas), b = [a EXCEPT !.persona = p]
  PROVE  /\ b \in AppOf(l, ps) /\ b.section = a.section /\ b.cursor = a.cursor
         /\ b.coding = a.coding /\ b.languages = a.languages
         /\ (ListedSynced(a) => ListedSynced(b))
<1>1. /\ b \in AppOf(l, ps) /\ b.section = a.section /\ b.cursor = a.cursor
      /\ b.coding = a.coding /\ b.languages = a.languages /\ b.descriptors = a.descriptors
      /\ b.library = a.library
  BY DEF AppOf
<1>2. ListedSynced(a) => ListedSynced(b) BY <1>1, ListedSame
<1> QED BY <1>1, <1>2

LEMMA ExpertiseOk ==
  ASSUME NEW l, NEW ps, NEW a \in AppOf(l, ps), NEW b,
         NEW S \in SUBSET DOMAIN l.expertise, b = [a EXCEPT !.expertise = S]
  PROVE  /\ b \in AppOf(l, ps) /\ b.section = a.section /\ b.cursor = a.cursor
         /\ b.coding = a.coding /\ b.languages = a.languages
         /\ (Synced(a) => Synced(b)) /\ (ListedSynced(a) => ListedSynced(b))
<1>1. /\ b \in AppOf(l, ps) /\ b.section = a.section /\ b.cursor = a.cursor
      /\ b.coding = a.coding /\ b.languages = a.languages /\ b.descriptors = a.descriptors
      /\ b.workspace = a.workspace /\ b.persona = a.persona
      /\ b.library = a.library /\ b.profiles = a.profiles
  BY DEF AppOf
<1>2. Synced(a) => Synced(b) BY <1>1, SyncedSame
<1>3. ListedSynced(a) => ListedSynced(b) BY <1>1, ListedSame
<1> QED BY <1>1, <1>2, <1>3

LEMMA ToggleOk ==
  ASSUME NEW l, LibraryOk(l), NEW ps, NEW a \in AppOf(l, ps), a.coding => 1 \in a.languages,
         NEW b, b = toggle_coding(a)
  PROVE  /\ b \in AppOf(l, ps) /\ b.section = a.section /\ b.cursor = a.cursor
         /\ (b.coding => 1 \in b.languages) /\ (b.coding => Synced(b))
<1> DEFINE related == {i \in DOMAIN l.expertise : coding_related(l.expertise[i])}
           on == [a EXCEPT !.coding = TRUE]
           c == sync_languages_from_descriptors(on)
<1>1. a.library = l /\ related \subseteq DOMAIN l.expertise BY DEF AppOf
<1>2. b = IF a.coding THEN [a EXCEPT !.coding = FALSE, !.expertise = @ \ related]
          ELSE [c EXCEPT !.expertise = @ \cup related]
  BY <1>1 DEF toggle_coding
<1> HIDE DEF related, c
<1>3. CASE a.coding
  <2>1. b = [a EXCEPT !.coding = FALSE, !.expertise = @ \ related] BY <1>2, <1>3
  <2>2. /\ b \in AppOf(l, ps) /\ b.section = a.section /\ b.cursor = a.cursor /\ b.coding = FALSE
    BY <2>1 DEF AppOf
  <2> QED BY <2>2
<1>4. CASE ~a.coding
  <2>1. on \in AppOf(l, ps) /\ on.section = a.section /\ on.cursor = a.cursor BY DEF AppOf
  <2> HIDE DEF on
  <2>2. /\ c \in AppOf(l, ps) /\ Synced(c) /\ (c.coding => 1 \in c.languages)
        /\ c.section = a.section /\ c.cursor = a.cursor
    BY <2>1, SyncOk DEF c
  <2>3. c.expertise \cup related \in SUBSET DOMAIN l.expertise BY <1>1, <2>2 DEF AppOf
  <2>4. b = [c EXCEPT !.expertise = c.expertise \cup related] BY <1>2, <1>4
  <2> QED BY <2>2, <2>3, <2>4, ExpertiseOk
<1> QED BY <1>3, <1>4

\* The space bar: the row stays, a workspace leaves nothing behind, and the
\* languages follow the context unless one was changed by hand.
LEMMA SpaceKept ==
  ASSUME NEW l, LibraryOk(l), NEW ps, ProfilesOk(ps), NEW a, Kept(l, ps, a),
         NEW b, b = handle_space(a)
  PROVE  /\ Kept(l, ps, b) /\ b.section = a.section
         /\ a.section = "Workspace" => Synced(b) /\ Selection(b) = Selection(Fresh(b))
         /\ Derives(a) => (b.coding => Synced(b))
         /\ (/\ a.coding => Synced(a)
             /\ a.section # "Persona"
             /\ ~(a.section = "Coding" /\ a.cursor > 1))
            => (b.coding => Synced(b))
         /\ (a.coding => ListedSynced(a)) /\ ~(a.section = "Coding" /\ a.cursor > 1)
            => (b.coding => ListedSynced(b))
<1>1. /\ a \in AppOf(l, ps) /\ RowOk(a) /\ (a.coding => 1 \in a.languages)
      /\ a.library = l /\ a.profiles = ps /\ a.section \in SectionsKnown /\ a.cursor \in Nat
  BY DEF Kept, AppOf
<1>2. /\ l.personas \in Seq(Range(l.personas)) /\ l.expertise \in Seq(Range(l.expertise))
      /\ l.languages \in Seq(Range(l.languages))
  BY DEF LibraryOk, Listed
<1>3. CASE a.section = "Workspace"
  <2>1. section_len(a, a.section) = Len(ps) + 1 /\ Len(ps) \in Nat
    BY <1>1, <1>3, RowsAre, LenProperties DEF ProfilesOk
  <2>2. a.cursor \in 1..Len(ps) + 1
    <3> DEFINE n == Len(ps) + 1
    <3>1. n \in Nat /\ n # 0 /\ n = section_len(a, a.section) BY <2>1
    <3> HIDE DEF n
    <3>2. a.cursor \in 1..n BY <1>1, <3>1, RowIn
    <3> QED BY <3>2 DEF n
  <2>3. /\ b \in AppOf(l, ps) /\ Synced(b) /\ (b.coding => 1 \in b.languages)
        /\ b.section = a.section /\ b.cursor = a.cursor
        /\ Selection(b) = Selection(Fresh(b))
    <3>1. CASE a.cursor = 1
      <4>1. b = clear_workspace_profile(a) BY <1>3, <3>1 DEF handle_space
      <4> QED BY <1>1, <4>1, ClearOk
    <3>2. CASE a.cursor > 1
      <4> DEFINE w == a.cursor - 1
      <4>1. b = apply_workspace_profile(a, w) BY <1>3, <3>2 DEF handle_space
      <4>2. w \in 1..Len(ps) BY <2>1, <2>2, <3>2
      <4> HIDE DEF w
      <4>3. /\ b \in AppOf(l, ps) /\ Synced(b) /\ (b.coding => 1 \in b.languages)
            /\ b.section = a.section /\ b.cursor = a.cursor
        BY <1>1, <4>1, <4>2, ApplyOk
      <4>4. Selection(b) = Selection(Fresh(b)) BY <1>1, <4>1, <4>2, ApplyFresh
      <4> QED BY <4>3, <4>4
    <3> QED BY <2>1, <2>2, <3>1, <3>2
  <2>4. ListedSynced(b) /\ ~Derives(a) BY <1>3, <2>3, SyncedLists DEF Derives
  <2> QED BY <1>1, <1>3, <2>3, <2>4, SameRow DEF Kept
<1>4. CASE a.section = "Persona"
  <2>0. ~Derives(a) BY <1>4 DEF Derives
  <2>1. CASE l.personas = <<>>
    <3>1. b = a BY <1>1, <1>4, <2>1 DEF handle_space
    <3> QED BY <1>4, <2>0, <3>1
  <2>2. CASE l.personas # <<>>
    <3>1. b = [a EXCEPT !.persona = a.cursor] BY <1>1, <1>4, <2>2 DEF handle_space
    <3>2. a.cursor \in 0..Len(l.personas)
      <4> DEFINE n == Len(l.personas)
      <4>1. n \in Nat \ {0} BY <1>2, <2>2, EmptySeq
      <4>2. n = section_len(a, a.section) BY <1>1, <1>4, RowsAre
      <4> HIDE DEF n
      <4>3. a.cursor \in 1..n BY <1>1, <4>1, <4>2, RowIn
      <4>4. a.cursor \in 0..n BY <4>1, <4>3
      <4> QED BY <4>4 DEF n
    <3>3. /\ b \in AppOf(l, ps) /\ b.section = a.section /\ b.cursor = a.cursor
          /\ b.coding = a.coding /\ b.languages = a.languages
          /\ (ListedSynced(a) => ListedSynced(b))
      BY <1>1, <3>1, <3>2, PersonaOk
    <3>4. RowOk(b) BY <1>1, <3>3, SameRow
    <3> QED BY <1>1, <1>4, <2>0, <3>3, <3>4 DEF Kept
  <2> QED BY <2>1, <2>2
<1>5. CASE a.section = "Descriptors"
  <2>1. CASE system_indices(l) = <<>>
    <3>1. b = a BY <1>1, <1>5, <2>1 DEF handle_space
    <3>2. ~Derives(a) BY <1>1, <1>5, <2>1 DEF Derives
    <3> QED BY <1>5, <3>1, <3>2
  <2>2. CASE system_indices(l) # <<>>
    <3> DEFINE i == system_indices(l)[a.cursor]
               S == Toggle(a.descriptors, i)
               c == [a EXCEPT !.descriptors = S]
    <3>1. b = sync_languages_from_descriptors(c)
      BY <1>1, <1>5, <2>2 DEF handle_space
    <3>2. i \in DOMAIN l.descriptors
      <4> DEFINE n == Len(system_indices(l))
      <4>1. system_indices(l) \in Seq(DOMAIN l.descriptors) BY SystemsAre
      <4>2. n \in Nat \ {0} BY <4>1, <2>2, EmptySeq
      <4>3. n = section_len(a, a.section) BY <1>1, <1>5, RowsAre
      <4> HIDE DEF n
      <4>4. a.cursor \in 1..n BY <1>1, <4>2, <4>3, RowIn
      <4> QED BY <4>1, <4>4, ElementOfSeq DEF n
    <3> HIDE DEF i
    <3>3. S \in SUBSET DOMAIN l.descriptors
      <4>1. a.descriptors \in SUBSET DOMAIN l.descriptors BY <1>1 DEF AppOf
      <4> QED BY <3>2, <4>1, ToggleIn
    <3> HIDE DEF S
    <3>4. c \in AppOf(l, ps) /\ c.section = a.section /\ c.cursor = a.cursor
      BY <1>1, <3>3 DEF AppOf
    <3> HIDE DEF c
    <3>5. /\ b \in AppOf(l, ps) /\ Synced(b) /\ (b.coding => 1 \in b.languages)
          /\ b.section = c.section /\ b.cursor = c.cursor
      BY <3>1, <3>4, SyncOk
    <3>6. RowOk(b) BY <1>1, <3>4, <3>5, SameRow
    <3>7. ListedSynced(b) BY <3>5, SyncedLists
    <3> QED BY <1>5, <3>4, <3>5, <3>6, <3>7 DEF Kept
  <2> QED BY <2>1, <2>2
<1>6. CASE a.section = "Coding"
  <2>0. b = handle_coding_space(a) BY <1>6 DEF handle_space
  <2>1. CASE a.cursor = 1
    <3>1. b = toggle_coding(a) BY <2>0, <2>1 DEF handle_coding_space
    <3>2. /\ b \in AppOf(l, ps) /\ b.section = a.section /\ b.cursor = a.cursor
          /\ (b.coding => 1 \in b.languages) /\ (b.coding => Synced(b))
      BY <1>1, <3>1, ToggleOk
    <3>3. RowOk(b) BY <1>1, <3>2, SameRow
    <3>4. b.coding => ListedSynced(b) BY <3>2, SyncedLists
    <3> QED BY <1>6, <3>2, <3>3, <3>4 DEF Kept
  <2>2. CASE a.cursor # 1 /\ (~a.coding \/ a.cursor = 2)
    <3>1. b = a BY <2>0, <2>2 DEF handle_coding_space
    <3>2. ~Derives(a) BY <1>6, <2>2 DEF Derives
    <3> QED BY <1>6, <3>1, <3>2
  <2>3. CASE a.cursor # 1 /\ ~(~a.coding \/ a.cursor = 2)
    <3>0. ~Derives(a) BY <1>6, <2>3 DEF Derives
    <3> DEFINE i == a.cursor - 1
               S == Toggle(a.languages, i)
    <3>1. b = [a EXCEPT !.languages = S] BY <2>0, <2>3 DEF handle_coding_space
    <3>2. Len(l.languages) \in Nat /\ DOMAIN l.languages = 1..Len(l.languages)
      BY <1>2, LenProperties
    <3>3. a.cursor \in 1..1 + Len(l.languages)
      <4> DEFINE n == 1 + Len(l.languages)
      <4>1. n \in Nat \ {0} BY <3>2
      <4>2. n = section_len(a, a.section) BY <1>1, <1>6, RowsAre
      <4> HIDE DEF n
      <4>3. a.cursor \in 1..n BY <1>1, <4>1, <4>2, RowIn
      <4> QED BY <4>3 DEF n
    <3>4. i \in DOMAIN l.languages /\ i # 1 BY <2>3, <3>2, <3>3
    <3> HIDE DEF i
    <3>5. S \in SUBSET DOMAIN l.languages
      <4>1. a.languages \in SUBSET DOMAIN l.languages BY <1>1 DEF AppOf
      <4> QED BY <3>4, <4>1, ToggleIn
    <3>6. 1 \in S <=> 1 \in a.languages BY <3>4 DEF Toggle
    <3> HIDE DEF S
    <3>7. /\ b \in AppOf(l, ps) /\ b.section = a.section /\ b.cursor = a.cursor
          /\ b.coding = a.coding /\ b.languages = S
      BY <1>1, <3>1, <3>5 DEF AppOf
    <3>8. RowOk(b) BY <1>1, <3>7, SameRow
    <3>9. a.cursor > 1 BY <1>1, <3>2, <3>3, <2>3
    <3> QED BY <1>1, <1>6, <3>0, <3>6, <3>7, <3>8, <3>9 DEF Kept
  <2> QED BY <2>1, <2>2, <2>3
<1>7. CASE a.section = "Expertise"
  <2>0. ~Derives(a) BY <1>7 DEF Derives
  <2>1. CASE l.expertise = <<>>
    <3>1. b = a BY <1>1, <1>7, <2>1 DEF handle_space
    <3> QED BY <1>7, <2>0, <3>1
  <2>2. CASE l.expertise # <<>>
    <3> DEFINE S == Toggle(a.expertise, a.cursor)
    <3>1. b = [a EXCEPT !.expertise = S] BY <1>1, <1>7, <2>2 DEF handle_space
    <3>2. S \in SUBSET DOMAIN l.expertise
      <4> DEFINE n == Len(l.expertise)
      <4>1. n \in Nat \ {0} BY <1>2, <2>2, EmptySeq
      <4>2. n = section_len(a, a.section) BY <1>1, <1>7, RowsAre
      <4>3. DOMAIN l.expertise = 1..n BY <1>2, LenProperties
      <4> HIDE DEF n
      <4>4. a.cursor \in 1..n BY <1>1, <4>1, <4>2, RowIn
      <4>5. a.expertise \in SUBSET DOMAIN l.expertise BY <1>1 DEF AppOf
      <4> QED BY <4>3, <4>4, <4>5, ToggleIn
    <3> HIDE DEF S
    <3>3. /\ b \in AppOf(l, ps) /\ b.section = a.section /\ b.cursor = a.cursor
          /\ b.coding = a.coding /\ b.languages = a.languages
          /\ (Synced(a) => Synced(b)) /\ (ListedSynced(a) => ListedSynced(b))
      BY <1>1, <3>1, <3>2, ExpertiseOk
    <3>4. RowOk(b) BY <1>1, <3>3, SameRow
    <3> QED BY <1>1, <1>7, <2>0, <3>3, <3>4 DEF Kept
  <2> QED BY <2>1, <2>2
<1> QED BY <1>1, <1>3, <1>4, <1>5, <1>6, <1>7 DEF SectionsKnown

LEMMA NextSection ==
  ASSUME NEW s \in SectionsKnown, NEW by \in {1, 4}
  PROVE  section_next(s, by) \in SectionsKnown
<1> DEFINE i == CHOOSE j \in DOMAIN SectionOrder : SectionOrder[j] = s
           k == 1 + ((i - 1 + by) % 5)
<1>1. DOMAIN SectionOrder = 1..5 /\ Len(SectionOrder) = 5 BY DEF SectionOrder
<1>2. /\ SectionOrder[1] = "Workspace" /\ SectionOrder[2] = "Persona"
      /\ SectionOrder[3] = "Expertise" /\ SectionOrder[4] = "Descriptors"
      /\ SectionOrder[5] = "Coding"
  BY DEF SectionOrder
<1>3. \E j \in DOMAIN SectionOrder : SectionOrder[j] = s
  <2>1. {1, 2, 3, 4, 5} \subseteq DOMAIN SectionOrder BY <1>1
  <2> QED BY <1>2, <2>1 DEF SectionsKnown
<1>4. i \in 1..5 BY <1>1, <1>3
<1> HIDE DEF i
<1>5. k \in {1, 2, 3, 4, 5}
  <2>1. i - 1 + by \in Int BY <1>4
  <2>2. (i - 1 + by) % 5 \in 0..4 BY <2>1
  <2> QED BY <2>2
<1>6. section_next(s, by) = SectionOrder[k] BY <1>1 DEF section_next, i
<1> HIDE DEF k
<1> QED BY <1>2, <1>5, <1>6 DEF SectionsKnown

Keys == {"tab", "backtab", "up", "down", "space"}

\* The other keys move the cursor and keep the selection.
LEMMA MoveKept ==
  ASSUME NEW l, LibraryOk(l), NEW ps, ProfilesOk(ps), NEW a, Kept(l, ps, a),
         NEW key \in Keys \ {"space"}, NEW b, b = handle_key(a, key)
  PROVE  /\ Kept(l, ps, b) /\ Selection(b) = Selection(a) /\ (Synced(a) => Synced(b))
         /\ (ListedSynced(a) => ListedSynced(b))
         /\ b.coding = a.coding /\ Fresh(b) = Fresh(a)
<1>1. /\ a \in AppOf(l, ps) /\ RowOk(a) /\ (a.coding => 1 \in a.languages)
      /\ a.section \in SectionsKnown /\ a.cursor \in Nat
  BY DEF Kept, AppOf
<1>2. \E s \in SectionsKnown, c \in Nat :
        /\ b = [a EXCEPT !.section = s, !.cursor = c]
        /\ c \in 1..Max({1, section_len(a, s)})
  <2>1. \A s \in SectionsKnown : section_len(a, s) \in Nat BY <1>1, RowsAre
  <2>2. \A s \in SectionsKnown : 1 \in 1..Max({1, section_len(a, s)})
    <3> TAKE s \in SectionsKnown
    <3>1. section_len(a, s) \in Nat BY <2>1
    <3>2. Max({1, section_len(a, s)}) \in Nat /\ Max({1, section_len(a, s)}) >= 1 BY <3>1, MaxOfOne
    <3> QED BY <3>2
  <2>3. CASE key = "tab"
    <3>1. b = [a EXCEPT !.section = section_next(a.section, 1), !.cursor = 1]
      BY <2>3 DEF handle_key
    <3>2. section_next(a.section, 1) \in SectionsKnown BY <1>1, NextSection
    <3> QED BY <2>2, <3>1, <3>2
  <2>4. CASE key = "backtab"
    <3>1. b = [a EXCEPT !.section = section_next(a.section, 4), !.cursor = 1]
      BY <2>4 DEF handle_key
    <3>2. section_next(a.section, 4) \in SectionsKnown BY <1>1, NextSection
    <3> QED BY <2>2, <3>1, <3>2
  <2> DEFINE n == section_len(a, a.section)
             m == Max({1, n})
  <2>5. n \in Nat /\ m = (IF n > 1 THEN n ELSE 1) /\ a.cursor \in 1..m
    <3>1. n \in Nat BY <1>1, <2>1
    <3>2. a.cursor \in 1..m BY <1>1 DEF RowOk
    <3> HIDE DEF n
    <3> QED BY <3>1, <3>2, MaxOfOne
  <2>6. \A c \in Nat : [a EXCEPT !.cursor = c] = [a EXCEPT !.section = a.section, !.cursor = c]
    BY <1>1 DEF AppOf
  <2> HIDE DEF n, m
  <2>7. CASE key = "up"
    <3> DEFINE c == IF a.cursor > 1 THEN a.cursor - 1 ELSE a.cursor
    <3>1. b = [a EXCEPT !.cursor = c] BY <2>7 DEF handle_key
    <3>2. c \in Nat /\ c \in 1..m BY <2>5
    <3> HIDE DEF c
    <3>3. b = [a EXCEPT !.section = a.section, !.cursor = c] BY <2>6, <3>1, <3>2
    <3> QED BY <1>1, <3>2, <3>3 DEF m, n
  <2>8. CASE key = "down"
    <3> DEFINE c == IF a.cursor < n THEN a.cursor + 1 ELSE a.cursor
    <3>1. b = [a EXCEPT !.cursor = c] BY <2>8 DEF handle_key, n
    <3>2. c \in Nat /\ c \in 1..m BY <2>5
    <3> HIDE DEF c
    <3>3. b = [a EXCEPT !.section = a.section, !.cursor = c] BY <2>6, <3>1, <3>2
    <3> QED BY <1>1, <3>2, <3>3 DEF m, n
  <2> QED BY <2>3, <2>4, <2>7, <2>8 DEF Keys
<1>3. PICK s \in SectionsKnown, c \in Nat :
        /\ b = [a EXCEPT !.section = s, !.cursor = c]
        /\ c \in 1..Max({1, section_len(a, s)})
  BY <1>2
<1>4. /\ b \in AppOf(l, ps) /\ b.section = s /\ b.cursor = c
      /\ b.library = a.library /\ b.profiles = a.profiles /\ b.workspace = a.workspace
      /\ b.persona = a.persona /\ b.coding = a.coding /\ b.languages = a.languages
      /\ b.expertise = a.expertise /\ b.descriptors = a.descriptors
  BY <1>1, <1>3 DEF AppOf
<1>5. section_len(b, s) = section_len(a, s) BY <1>1, <1>4, RowsAre DEF SectionsKnown
<1>6. RowOk(b) BY <1>3, <1>4, <1>5 DEF RowOk
<1>7. Selection(b) = Selection(a) BY <1>1, <1>4, SameSelection
<1>8. (Synced(a) => Synced(b)) /\ (ListedSynced(a) => ListedSynced(b))
  BY <1>4, SyncedSame, ListedSame
<1>9. Fresh(b) = Fresh(a) BY <1>4 DEF Fresh
<1> QED BY <1>1, <1>4, <1>6, <1>7, <1>8, <1>9 DEF Kept

-----------------------------------------------------------------------------
(* Launcher: the prompt *)

\* The systems in the order of the prompt are the selected ones.
LEMMA OrderedAre ==
  ASSUME NEW l, LibraryOk(l), NEW ps, NEW a \in AppOf(l, ps)
  PROVE  /\ ordered_descriptor_indices(a) \in Seq(DOMAIN l.descriptors)
         /\ Range(ordered_descriptor_indices(a)) = Systems(l) \cap a.descriptors
<1> DEFINE D == DOMAIN l.descriptors
           chosen == Systems(l) \cap a.descriptors
           primary == {i \in chosen : /\ a.workspace # 0 /\ ps[a.workspace].primary # NoValue
                                      /\ ps[a.workspace].primary = l.descriptors[i].id}
           overviews == {i \in chosen \ primary : is_overview_descriptor(a, i)}
           rest == chosen \ (primary \cup overviews)
           u == Ascending(l, primary)
           v == Ascending(l, rest)
           w == Ascending(l, overviews)
<1>1. a.library = l /\ a.profiles = ps BY DEF AppOf
<1>2. ordered_descriptor_indices(a) = u \o v \o w BY <1>1 DEF ordered_descriptor_indices
<1>3. chosen \subseteq D BY DEF Systems
<1>4. primary \subseteq chosen /\ overviews \subseteq chosen \ primary OBVIOUS
<1> HIDE DEF chosen, primary, overviews
<1>5. primary \in SUBSET D /\ overviews \in SUBSET D /\ rest \in SUBSET D BY <1>3, <1>4
<1>6. primary \cup rest \cup overviews = chosen BY <1>4
<1> HIDE DEF rest
<1>7. /\ u \in Seq(D) /\ v \in Seq(D) /\ w \in Seq(D)
      /\ Range(u) = primary /\ Range(v) = rest /\ Range(w) = overviews
  BY <1>5, SystemsAre
<1> HIDE DEF u, v, w, D
<1>8. u \o v \in Seq(D) /\ Range(u \o v) = primary \cup rest
  BY <1>7, ConcatProperties, RangeConcatenation
<1>9. u \o v \o w \in Seq(D) /\ Range(u \o v \o w) = primary \cup rest \cup overviews
  <2> DEFINE k == u \o v
  <2>1. k \in Seq(D) /\ Range(k) = primary \cup rest BY <1>8
  <2> HIDE DEF k
  <2>2. k \o w \in Seq(D) /\ Range(k \o w) = primary \cup rest \cup overviews
    BY <1>7, <2>1, ConcatProperties, RangeConcatenation
  <2> QED BY <2>2 DEF k
<1> QED BY <1>2, <1>6, <1>9 DEF chosen, D

SpacePart(a) ==
  IF auto_space_index(a) = 0 THEN <<>> ELSE <<a.library.descriptors[auto_space_index(a)]>>

SystemsPart(a) ==
  [i \in DOMAIN ordered_descriptor_indices(a) |->
     a.library.descriptors[ordered_descriptor_indices(a)[i]]]

LEMMA OneOf == ASSUME NEW x PROVE <<x>> \in Seq({x}) /\ Range(<<x>>) = {x}
BY DEF Range

LEMMA ContextIs ==
  ASSUME NEW l, LibraryOk(l), NEW ps, NEW a \in AppOf(l, ps)
  PROVE  /\ Context(a) = SpacePart(a) \o SystemsPart(a)
         /\ SpacePart(a) \in Seq(Range(l.descriptors))
         /\ SystemsPart(a) \in Seq(Range(l.descriptors))
         /\ \A i \in Systems(l) \cap a.descriptors : l.descriptors[i] \in Range(Context(a))
         /\ \A x \in Range(Context(a)) : \E i \in From(a) : x = l.descriptors[i]
<1> DEFINE D == DOMAIN l.descriptors
           o == ordered_descriptor_indices(a)
           S == Range(l.descriptors)
           i0 == auto_space_index(a)
<1>1. a.library = l BY DEF AppOf
<1>2. Context(a) = SpacePart(a) \o SystemsPart(a) BY DEF Context, SpacePart, SystemsPart
<1>3. o \in Seq(D) /\ Range(o) = Systems(l) \cap a.descriptors BY OrderedAre
<1>4. Len(o) \in Nat /\ DOMAIN o = 1..Len(o) /\ \A k \in 1..Len(o) : o[k] \in D
  BY <1>3, LenProperties, ElementOfSeq
<1>5. /\ SystemsPart(a) \in Seq(S) /\ DOMAIN SystemsPart(a) = DOMAIN o
      /\ \A k \in DOMAIN o : SystemsPart(a)[k] = l.descriptors[o[k]]
  <2>1. /\ DOMAIN SystemsPart(a) = DOMAIN o
        /\ \A k \in DOMAIN o : SystemsPart(a)[k] = l.descriptors[o[k]]
        /\ SystemsPart(a) = [k \in DOMAIN o |-> SystemsPart(a)[k]]
    BY <1>1 DEF SystemsPart
  <2> HIDE DEF o
  <2>2. \A k \in DOMAIN o : l.descriptors[o[k]] \in S BY <1>4 DEF Range
  <2>3. SystemsPart(a) \in [1..Len(o) -> S] BY <1>4, <2>1, <2>2
  <2>4. SystemsPart(a) \in Seq(S) BY <1>4, <2>3, FunctionIsSeq
  <2> QED BY <2>1, <2>4
<1>6. Range(SystemsPart(a)) = {l.descriptors[i] : i \in Systems(l) \cap a.descriptors}
  <2> HIDE DEF o
  <2>1. \A k \in DOMAIN o : o[k] \in Range(o) BY DEF Range
  <2>2. \A i \in Range(o) : \E k \in DOMAIN o : o[k] = i BY DEF Range
  <2> QED BY <1>3, <1>5, <2>1, <2>2 DEF Range
<1>7. i0 \in {0} \cup D BY SpaceIs
<1>8. SpacePart(a) \in Seq(S) /\ Range(SpacePart(a)) = {l.descriptors[i] : i \in {i0} \ {0}}
  <2>1. CASE i0 = 0
    <3>1. SpacePart(a) = <<>> BY <2>1 DEF SpacePart
    <3>2. Range(<<>>) = {} /\ <<>> \in Seq(S) BY DEF Range
    <3> QED BY <2>1, <3>1, <3>2
  <2>2. CASE i0 # 0
    <3> DEFINE x == l.descriptors[i0]
    <3>1. SpacePart(a) = <<x>> BY <1>1, <2>2 DEF SpacePart
    <3>2. x \in S BY <1>7, <2>2 DEF Range
    <3>3. {l.descriptors[i] : i \in {i0} \ {0}} = {x} BY <2>2
    <3> HIDE DEF x, S
    <3> QED BY <3>1, <3>2, <3>3, OneOf, SeqMonotonic
  <2> HIDE DEF i0
  <2> QED BY <2>1, <2>2
<1> HIDE DEF S, o, i0
<1>9. Range(Context(a)) = Range(SpacePart(a)) \cup Range(SystemsPart(a))
  BY <1>2, <1>5, <1>8, RangeConcatenation
<1>10. \A i \in Systems(l) \cap a.descriptors : l.descriptors[i] \in Range(Context(a))
  BY <1>6, <1>9
<1>11. \A x \in Range(Context(a)) : \E i \in From(a) : x = l.descriptors[i]
  BY <1>6, <1>8, <1>9 DEF From, i0
<1> QED BY <1>2, <1>5, <1>8, <1>10, <1>11 DEF S

PersonaPart(a) == IF a.persona = 0 THEN <<>> ELSE <<a.library.personas[a.persona]>>

CodingPart(a) == IF a.coding THEN a.library.coding ELSE <<>>

LEMMA AmongPair ==
  ASSUME NEW T, NEW fs
  PROVE  \A u, v \in Seq(T) : Among(u \o v, fs) = Among(u, fs) \o Among(v, fs)
BY AmongConcat

Chain(p, w, s, y) == p \o w \o s \o y

\* What is among the files of four sequences put together.
LEMMA AmongChain ==
  ASSUME NEW T, NEW fs
  PROVE  \A p, w, s, y \in Seq(T) :
            Among(Chain(p, w, s, y), fs)
              = Chain(Among(p, fs), Among(w, fs), Among(s, fs), Among(y, fs))
<1> TAKE p, w, s, y \in Seq(T)
<1> DEFINE p2 == p \o w
           p3 == p2 \o s
           p4 == p3 \o y
<1>1. \A u, v \in Seq(T) : Among(u \o v, fs) = Among(u, fs) \o Among(v, fs)
  BY AmongPair
<1>2. p2 \in Seq(T) BY ConcatProperties
<1>3. Among(p2, fs) = Among(p, fs) \o Among(w, fs) BY <1>1
<1> HIDE DEF p2
<1>4. p3 \in Seq(T) BY <1>2, ConcatProperties
<1>5. Among(p3, fs) = Among(p2, fs) \o Among(s, fs) BY <1>1, <1>2
<1> HIDE DEF p3
<1>6. Among(p4, fs) = Among(p3, fs) \o Among(y, fs) BY <1>1, <1>4
<1>7. Among(p4, fs)
         = Chain(Among(p, fs), Among(w, fs), Among(s, fs), Among(y, fs))
  BY <1>3, <1>5, <1>6 DEF Chain
<1> QED BY <1>7 DEF p4, p3, p2, Chain

\* The prompt holds the context and the expertise of the summary, and its size is
\* the one the screen shows.
LEMMA PromptIs ==
  ASSUME NEW l, LibraryOk(l), NEW ps, NEW a \in AppOf(l, ps)
  PROVE  /\ Among(assemble_prompt(a).parts, l.descriptors) = Context(a)
         /\ Among(assemble_prompt(a).parts, l.expertise) = SelectedExpertise(a)
         /\ SizeOf(assemble_prompt(a).parts) = estimate_tokens(a)
<1> DEFINE P == Fragments(l)
           D == Range(l.descriptors)
           X == Range(l.expertise)
           F == P \cup X \cup D
           f == l.foundation
           p == PersonaPart(a)
           w == l.always
           s == SpacePart(a)
           y == SystemsPart(a)
           c == CodingPart(a)
           e == SelectedExpertise(a)
           p1 == f \o p
           p2 == p1 \o w
           p3 == p2 \o s
           p4 == p3 \o y
           p5 == p4 \o c
           p6 == p5 \o e
<1>1. a.library = l BY DEF AppOf
<1>2. assemble_prompt(a).parts = p6
  BY <1>1 DEF assemble_prompt, PersonaPart, SpacePart, SystemsPart, CodingPart
<1>3. /\ f \in Seq(P) /\ w \in Seq(P) /\ l.coding \in Seq(P) /\ l.personas \in Seq(P)
  <2>1. /\ f \in Seq(Range(f)) /\ w \in Seq(Range(w)) /\ l.coding \in Seq(Range(l.coding))
        /\ l.personas \in Seq(Range(l.personas))
    BY DEF LibraryOk, Listed
  <2>2. /\ Range(f) \subseteq P /\ Range(w) \subseteq P /\ Range(l.coding) \subseteq P
        /\ Range(l.personas) \subseteq P
    BY DEF Fragments
  <2> HIDE DEF P, f, w
  <2> QED BY <2>1, <2>2, SeqMonotonic
<1>4. p \in Seq(P)
  <2>1. CASE a.persona = 0 BY <2>1 DEF PersonaPart
  <2>2. CASE a.persona # 0
    <3>1. a.persona \in 0..Len(l.personas) BY DEF AppOf
    <3>2. Len(l.personas) \in Nat BY <1>3, LenProperties
    <3>3. a.persona \in 1..Len(l.personas) BY <2>2, <3>1, <3>2
    <3> HIDE DEF P
    <3>4. l.personas[a.persona] \in P BY <1>3, <3>3, ElementOfSeq
    <3>5. p = <<l.personas[a.persona]>> BY <1>1, <2>2 DEF PersonaPart
    <3> QED BY <3>4, <3>5
  <2> QED BY <2>1, <2>2
<1>5. c \in Seq(P) BY <1>1, <1>3 DEF CodingPart
<1>6. e \in Seq(X)
  <2>1. l.expertise \in Seq(X) BY DEF LibraryOk, Listed
  <2> QED BY <1>1, <2>1, ElementsAtType DEF SelectedExpertise
<1>7. s \in Seq(D) /\ y \in Seq(D) /\ Context(a) = s \o y BY ContextIs
<1>8. /\ P \cap D = {} /\ P \cap X = {} /\ X \cap D = {} /\ Sized(F) BY DEF LibraryOk
<1>9. estimate_tokens(a)
        = SizeOf(f) + SizeOf(w) + (IF a.persona = 0 THEN 0 ELSE l.personas[a.persona].size)
          + SizeOf(Context(a)) + (IF a.coding THEN SizeOf(l.coding) ELSE 0) + SizeOf(e)
  BY <1>1 DEF estimate_tokens
<1>10. SizeOf(c) = IF a.coding THEN SizeOf(l.coding) ELSE 0
  BY <1>1, SizeEmpty DEF CodingPart
<1> DEFINE personaSize == IF a.persona = 0 THEN 0 ELSE l.personas[a.persona].size
<1>11. SizeOf(p) = personaSize
  <2>1. CASE a.persona = 0 BY <2>1, SizeEmpty DEF PersonaPart
  <2>2. CASE a.persona # 0
    <3> DEFINE x == l.personas[a.persona]
    <3>1. p = <<x>> BY <1>1, <2>2 DEF PersonaPart
    <3>2. 1 \in DOMAIN p /\ p[1] = x BY <3>1
    <3> HIDE DEF x, P, p
    <3>3. x \in P BY <1>4, <3>2, ElementOfSeq, LenProperties
    <3>4. Sized(P) BY <1>8 DEF Sized
    <3>5. SizeOf(<<x>>) = x.size BY <3>3, <3>4, SizeOne
    <3> QED BY <2>2, <3>1, <3>5 DEF x
  <2> QED BY <2>1, <2>2
<1> HIDE DEF personaSize
<1>12. estimate_tokens(a) = SizeOf(f) + SizeOf(w) + SizeOf(p) + SizeOf(Context(a)) + SizeOf(c) + SizeOf(e)
  BY <1>9, <1>10, <1>11 DEF personaSize
<1> HIDE DEF P, D, X, f, p, w, s, y, c, e
<1>13. /\ f \in Seq(F) /\ p \in Seq(F) /\ w \in Seq(F) /\ s \in Seq(F) /\ y \in Seq(F)
       /\ c \in Seq(F) /\ e \in Seq(F)
  <2>1. P \subseteq F /\ X \subseteq F /\ D \subseteq F OBVIOUS
  <2> HIDE DEF F
  <2> QED BY <1>3, <1>4, <1>5, <1>6, <1>7, <2>1, SeqMonotonic DEF f, w
<1> HIDE DEF F
<1>14. /\ p1 \in Seq(F) /\ p2 \in Seq(F) /\ p3 \in Seq(F) /\ p4 \in Seq(F)
       /\ p5 \in Seq(F) /\ p6 \in Seq(F) /\ s \o y \in Seq(F)
  <2>1. p1 \in Seq(F) /\ s \o y \in Seq(F) BY <1>13, ConcatProperties
  <2> HIDE DEF p1
  <2>2. p2 \in Seq(F) BY <1>13, <2>1, ConcatProperties
  <2> HIDE DEF p2
  <2>3. p3 \in Seq(F) BY <1>13, <2>2, ConcatProperties
  <2> HIDE DEF p3
  <2>4. p4 \in Seq(F) BY <1>13, <2>3, ConcatProperties
  <2> HIDE DEF p4
  <2>5. p5 \in Seq(F) BY <1>13, <2>4, ConcatProperties
  <2> HIDE DEF p5
  <2>6. p6 \in Seq(F) BY <1>13, <2>5, ConcatProperties
  <2> QED BY <2>1, <2>2, <2>3, <2>4, <2>5, <2>6
<1> HIDE DEF p1, p2, p3, p4, p5, p6
\* The sizes add up.
<1>15. SizeOf(p6) = SizeOf(f) + SizeOf(p) + SizeOf(w) + SizeOf(s) + SizeOf(y) + SizeOf(c) + SizeOf(e)
  <2>1. SizeOf(p1) = SizeOf(f) + SizeOf(p) BY <1>8, <1>13, SizeConcat DEF p1
  <2>2. SizeOf(p2) = SizeOf(p1) + SizeOf(w) BY <1>8, <1>13, <1>14, SizeConcat DEF p2
  <2>3. SizeOf(p3) = SizeOf(p2) + SizeOf(s) BY <1>8, <1>13, <1>14, SizeConcat DEF p3
  <2>4. SizeOf(p4) = SizeOf(p3) + SizeOf(y) BY <1>8, <1>13, <1>14, SizeConcat DEF p4
  <2>5. SizeOf(p5) = SizeOf(p4) + SizeOf(c) BY <1>8, <1>13, <1>14, SizeConcat DEF p5
  <2>6. SizeOf(p6) = SizeOf(p5) + SizeOf(e) BY <1>8, <1>13, <1>14, SizeConcat DEF p6
  <2> QED BY <2>1, <2>2, <2>3, <2>4, <2>5, <2>6
<1>16. SizeOf(Context(a)) = SizeOf(s) + SizeOf(y) BY <1>7, <1>8, <1>13, SizeConcat
<1>17. /\ SizeOf(f) \in Nat /\ SizeOf(p) \in Nat /\ SizeOf(w) \in Nat /\ SizeOf(s) \in Nat
       /\ SizeOf(y) \in Nat /\ SizeOf(c) \in Nat /\ SizeOf(e) \in Nat
  BY <1>8, <1>13, SizeType
<1>18. SizeOf(p6) = estimate_tokens(a)
  <2> DEFINE n1 == SizeOf(f)
             n2 == SizeOf(p)
             n3 == SizeOf(w)
             n4 == SizeOf(s)
             n5 == SizeOf(y)
             n6 == SizeOf(c)
             n7 == SizeOf(e)
  <2> HIDE DEF n1, n2, n3, n4, n5, n6, n7
  <2>1. /\ n1 \in Nat /\ n2 \in Nat /\ n3 \in Nat /\ n4 \in Nat /\ n5 \in Nat /\ n6 \in Nat
        /\ n7 \in Nat
    BY <1>17 DEF n1, n2, n3, n4, n5, n6, n7
  <2>2. SizeOf(p6) = n1 + n2 + n3 + n4 + n5 + n6 + n7
    BY <1>15 DEF n1, n2, n3, n4, n5, n6, n7
  <2>3. estimate_tokens(a) = n1 + n3 + n2 + (n4 + n5) + n6 + n7
    BY <1>12, <1>16 DEF n1, n2, n3, n4, n5, n6, n7
  <2> QED BY <2>1, <2>2, <2>3
\* Only the context is of the descriptors, only the end of the expertise.
<1>19. /\ Range(f) \subseteq P /\ Range(p) \subseteq P /\ Range(w) \subseteq P
       /\ Range(c) \subseteq P /\ Range(e) \subseteq X /\ Range(s) \subseteq D
       /\ Range(y) \subseteq D
  <2>1. f \in Seq(P) /\ w \in Seq(P) BY <1>3 DEF f, w
  <2> QED BY <2>1, <1>4, <1>5, <1>6, <1>7, RangeOfSeq
<1>20. Range(l.descriptors) = D /\ Range(l.expertise) = X BY DEF D, X
<1>21. p4 = Chain(p1, w, s, y) /\ p5 = p4 \o c /\ p6 = p5 \o e
  BY DEF p2, p3, p4, p5, p6, Chain
<1>22. ASSUME NEW fs
       PROVE  Among(p6, fs)
                = Chain(Among(f, fs) \o Among(p, fs), Among(w, fs), Among(s, fs),
                         Among(y, fs)) \o Among(c, fs) \o Among(e, fs)
  <2>1. \A u, v \in Seq(F) : Among(u \o v, fs) = Among(u, fs) \o Among(v, fs)
    BY AmongPair
  <2>2. Among(p1, fs) = Among(f, fs) \o Among(p, fs) BY <1>13, <2>1 DEF p1
  <2>3. p1 \in Seq(F) /\ w \in Seq(F) /\ s \in Seq(F) /\ y \in Seq(F) BY <1>13, <1>14
  <2>4. \A g1, g2, g3, g4 \in Seq(F) :
           Among(Chain(g1, g2, g3, g4), fs)
             = Chain(Among(g1, fs), Among(g2, fs), Among(g3, fs), Among(g4, fs))
    BY AmongChain
  <2>5. Among(p4, fs)
          = Chain(Among(p1, fs), Among(w, fs), Among(s, fs), Among(y, fs))
    BY <1>21, <2>3, <2>4
  <2>6. Among(p4 \o c, fs) = Among(p4, fs) \o Among(c, fs)
        /\ Among(p5 \o e, fs) = Among(p5, fs) \o Among(e, fs)
    BY <1>13, <1>14, <2>1
  <2> QED BY <1>21, <2>2, <2>5, <2>6
<1>23. s \o y \in Seq(F) /\ \A x \in Seq(F) : x \o <<>> = x /\ <<>> \o x = x
  BY <1>14, ConcatEmptySeq
<1>24. Among(p6, l.descriptors) = s \o y
  <2> DEFINE fs == l.descriptors
  <2>1. /\ Range(f) \cap D = {} /\ Range(p) \cap D = {} /\ Range(w) \cap D = {}
        /\ Range(c) \cap D = {} /\ Range(e) \cap D = {}
    BY <1>8, <1>19
  <2>2. /\ Among(f, fs) = <<>> /\ Among(p, fs) = <<>> /\ Among(w, fs) = <<>>
        /\ Among(c, fs) = <<>> /\ Among(e, fs) = <<>>
    BY <1>13, <1>20, <2>1, AmongNone
  <2>3. Among(s, fs) = s /\ Among(y, fs) = y BY <1>13, <1>19, <1>20, AmongAll
  <2>4. Among(p6, fs) = <<>> \o <<>> \o <<>> \o s \o y \o <<>> \o <<>>
    BY <1>22, <2>2, <2>3 DEF Chain
  <2>5. <<>> \o <<>> = <<>> OBVIOUS
  <2>6. <<>> \o s = s BY <1>13, <1>23
  <2>7. (s \o y) \o <<>> = s \o y BY <1>23
  <2> QED BY <2>4, <2>5, <2>6, <2>7
<1>25. Among(p6, l.expertise) = e
  <2> DEFINE fs == l.expertise
  <2>1. /\ Range(f) \cap X = {} /\ Range(p) \cap X = {} /\ Range(w) \cap X = {}
        /\ Range(s) \cap X = {} /\ Range(y) \cap X = {} /\ Range(c) \cap X = {}
    BY <1>8, <1>19
  <2>2. /\ Among(f, fs) = <<>> /\ Among(p, fs) = <<>> /\ Among(w, fs) = <<>>
        /\ Among(s, fs) = <<>> /\ Among(y, fs) = <<>> /\ Among(c, fs) = <<>>
    BY <1>13, <1>20, <2>1, AmongNone
  <2>3. Among(e, fs) = e BY <1>13, <1>19, <1>20, AmongAll
  <2>4. Among(p6, fs) = <<>> \o <<>> \o <<>> \o <<>> \o <<>> \o <<>> \o e
    BY <1>22, <2>2, <2>3 DEF Chain
  <2>5. <<>> \o <<>> = <<>> OBVIOUS
  <2>6. <<>> \o e = e BY <1>13, <1>23
  <2> QED BY <2>4, <2>5, <2>6
<1> QED BY <1>2, <1>7, <1>18, <1>24, <1>25 DEF e

-----------------------------------------------------------------------------
(* Launcher: the steps *)

\* What Enter made is of the selection on the screen.
OutcomeTold ==
  outcome # NoValue /\ outcome.kind \in {"launched", "updated"} =>
    /\ outcome.prompt = assemble_prompt(app) /\ app.persona # 0
    /\ outcome.kind = "launched" => outcome.grant = Granted(SelectedPersona(app))

\* Holds in every state: the library and the profiles are those read at the start, and
\* the selection is one the screen can show.
LauncherInv ==
  /\ LibraryOk(app.library) /\ ProfilesOk(app.profiles)
  /\ Kept(app.library, app.profiles, app)
  /\ app.coding /\ "language" \notin touched =>
       ListedSynced(app) /\ ("persona" \notin touched => Synced(app))
  /\ touched = {} => Selection(app) = Selection(Fresh(app))
  /\ OutcomeTold

LEMMA StartsTold ==
  ASSUME LauncherInit PROVE LauncherInv
<1>1. PICK disk \in Disks, file \in ProfileFiles :
        \E library \in scan_library(disk) : app = AppState_new(library, load_profiles(file))
  BY DEF LauncherInit
<1>2. PICK l \in scan_library(disk) : app = AppState_new(l, load_profiles(file)) BY <1>1
<1> DEFINE ps == load_profiles(file)
<1>3. LibraryOk(l) /\ ProfilesOk(ps) BY LibraryIsOk, ProfilesAreOk
<1>4. app = AppState_new(l, ps) BY <1>2
<1> HIDE DEF ps
<1>5. /\ app \in AppOf(l, ps) /\ Synced(app) /\ (app.coding => 1 \in app.languages)
      /\ app.section = "Workspace" /\ app.cursor = 1 /\ app.workspace = 0
  BY <1>3, <1>4, NewIs
<1>6. app.library = l /\ app.profiles = ps BY <1>5 DEF AppOf
<1>7. RowOk(app)
  <2>1. section_len(app, "Workspace") = Len(ps) + 1 /\ Len(ps) \in Nat
    BY <1>3, <1>5, RowsAre, LenProperties DEF ProfilesOk
  <2>2. Len(ps) + 1 \in Nat BY <2>1
  <2>3. Max({1, Len(ps) + 1}) \in Nat /\ Max({1, Len(ps) + 1}) >= 1
    BY <2>2, MaxOfOne
  <2> DEFINE m == Max({1, section_len(app, app.section)})
  <2>4. m \in Nat /\ m >= 1 BY <1>5, <2>1, <2>3
  <2> HIDE DEF m
  <2>5. app.cursor \in 1..m BY <1>5, <2>4
  <2> QED BY <2>5 DEF RowOk, m
<1>8. Fresh(app) = app BY <1>4, <1>5, <1>6 DEF Fresh
<1>9. outcome = NoValue BY DEF LauncherInit
<1>10. OutcomeTold BY <1>9 DEF OutcomeTold
<1>11. ListedSynced(app) BY <1>5, SyncedLists
<1> QED BY <1>3, <1>5, <1>6, <1>7, <1>8, <1>10, <1>11 DEF LauncherInv, Kept

LEMMA PressTold ==
  ASSUME LauncherInv, NEW key \in Keys, Press(key) PROVE LauncherInv'
<1> DEFINE l == app.library
           ps == app.profiles
<1>1. /\ LibraryOk(l) /\ ProfilesOk(ps) /\ Kept(l, ps, app)
      /\ app.coding /\ "language" \notin touched =>
           ListedSynced(app) /\ ("persona" \notin touched => Synced(app))
      /\ touched = {} => Selection(app) = Selection(Fresh(app))
  BY DEF LauncherInv
<1>2. /\ outcome = NoValue /\ app' = handle_key(app, key) /\ touched' = Touches(app, key)
      /\ inherited' = inherited /\ outcome' = outcome
  BY DEF Press
<1>3. OutcomeTold' BY <1>2 DEF OutcomeTold
<1>4. ASSUME Kept(l, ps, app'),
             app'.coding /\ "language" \notin touched' =>
               ListedSynced(app') /\ ("persona" \notin touched' => Synced(app')),
             touched' = {} => Selection(app') = Selection(Fresh(app'))
      PROVE  LauncherInv'
  <2>1. app'.library = l /\ app'.profiles = ps BY <1>4 DEF Kept, AppOf
  <2> HIDE DEF l, ps
  <2> QED BY <1>1, <1>3, <1>4, <2>1 DEF LauncherInv
<1> HIDE DEF l, ps
<1>5. CASE key = "space"
  <2> DEFINE hand == app.section = "Coding" /\ app.cursor > 1
  <2>1. app' = handle_space(app) BY <1>2, <1>5 DEF handle_key
  <2>2. /\ Kept(l, ps, app')
        /\ app.section = "Workspace" => Synced(app') /\ Selection(app') = Selection(Fresh(app'))
        /\ Derives(app) => (app'.coding => Synced(app'))
        /\ (app.coding => Synced(app)) /\ app.section # "Persona" /\ ~hand
             => (app'.coding => Synced(app'))
        /\ (app.coding => ListedSynced(app)) /\ ~hand => (app'.coding => ListedSynced(app'))
    BY <1>1, <2>1, SpaceKept
  <2>3. Synced(app') => ListedSynced(app') BY SyncedLists
  <2>4. CASE app.section = "Workspace" BY <1>4, <2>2, <2>3, <2>4
  <2>5. CASE app.section # "Workspace"
    <3>1. touched' = (IF Derives(app) THEN {} ELSE touched)
                     \cup {IF hand THEN "language"
                           ELSE IF app.section = "Persona" THEN "persona" ELSE "other"}
      BY <1>2, <1>5, <2>5 DEF Touches
    <3> HIDE DEF hand
    <3>2. touched' # {} BY <3>1
    <3>3. CASE Derives(app) BY <1>4, <2>2, <2>3, <3>2, <3>3
    <3>4. CASE ~Derives(app)
      <4>1. "language" \notin touched' => "language" \notin touched /\ ~hand BY <3>1, <3>4
      <4>2. "language" \notin touched' /\ "persona" \notin touched' =>
              "persona" \notin touched /\ app.section # "Persona"
        BY <3>1, <3>4, <4>1
      <4>3. ASSUME app'.coding, "language" \notin touched' PROVE ListedSynced(app')
        BY <1>1, <2>2, <4>1, <4>3
      <4>4. ASSUME app'.coding, "language" \notin touched', "persona" \notin touched'
            PROVE  Synced(app')
        BY <1>1, <2>2, <4>1, <4>2, <4>4
      <4> QED BY <1>4, <2>2, <3>2, <4>3, <4>4
    <3> QED BY <3>3, <3>4
  <2> QED BY <2>4, <2>5
<1>6. CASE key # "space"
  <2>1. /\ Kept(l, ps, app') /\ Selection(app') = Selection(app) /\ (Synced(app) => Synced(app'))
        /\ (ListedSynced(app) => ListedSynced(app'))
        /\ app'.coding = app.coding /\ Fresh(app') = Fresh(app)
    BY <1>1, <1>2, <1>6, MoveKept
  <2>2. touched' = touched BY <1>2, <1>6 DEF Touches
  <2> QED BY <1>1, <1>4, <2>1, <2>2
<1> QED BY <1>5, <1>6

LEMMA EndTold ==
  ASSUME LauncherInv,
         LaunchSession \/ \E session \in Sessions \cup {NoValue} : UpdateSession(session)
  PROVE  LauncherInv'
<1>1. /\ app' = app /\ touched' = touched /\ inherited' = inherited
      /\ \/ outcome' = IF Assembles(app)
                       THEN [kind |-> "launched", prompt |-> assemble_prompt(app),
                             cwd |-> StartDir(app), grant |-> Granted(SelectedPersona(app))]
                       ELSE [kind |-> "refused"]
         \/ \E session \in Sessions \cup {NoValue} :
              outcome' = IF session # NoValue /\ Assembles(app)
                         THEN [kind |-> "updated", prompt |-> assemble_prompt(app),
                               session |-> session]
                         ELSE [kind |-> "refused"]
  BY Zenon DEF LaunchSession, UpdateSession
<1>2. Assembles(app) => app.persona # 0 BY DEF Assembles
<1>3. \A n : Granted(n)' = Granted(n) BY <1>1 DEF Granted
<1> DEFINE g == Granted(SelectedPersona(app))
           p == assemble_prompt(app)
           start == StartDir(app)
           ok == Assembles(app)
<1>4. \/ outcome' = IF ok THEN [kind |-> "launched", prompt |-> p, cwd |-> start, grant |-> g]
                    ELSE [kind |-> "refused"]
      \/ \E session \in Sessions \cup {NoValue} :
           outcome' = IF session # NoValue /\ ok
                      THEN [kind |-> "updated", prompt |-> p, session |-> session]
                      ELSE [kind |-> "refused"]
  BY <1>1, Zenon
<1>5. ok => app.persona # 0 BY <1>2
<1> HIDE DEF g, p, start, ok
<1>6. outcome'.kind \in {"launched", "updated"} =>
        /\ outcome'.prompt = p /\ app.persona # 0
        /\ outcome'.kind = "launched" => outcome'.grant = g
  BY <1>4, <1>5
<1>7. OutcomeTold'
  BY <1>1, <1>3, <1>6 DEF OutcomeTold, p, g
<1> QED BY <1>1, <1>7 DEF LauncherInv

LEMMA LauncherSteps ==
  ASSUME LauncherInv, [LauncherNext]_launchVars PROVE LauncherInv'
<1>1. ASSUME NEW key \in Keys, Press(key) PROVE LauncherInv' BY <1>1, PressTold
<1>2. ASSUME UNCHANGED <<app, touched>>, OutcomeTold' PROVE LauncherInv'
  BY <1>2 DEF LauncherInv
<1>3. CASE Quit
  <2>1. OutcomeTold' BY <1>3 DEF Quit, OutcomeTold
  <2> QED BY <1>2, <1>3, <2>1 DEF Quit
<1>4. CASE LaunchSession BY <1>4, EndTold
<1>5. CASE \E session \in Sessions \cup {NoValue} : UpdateSession(session) BY <1>5, EndTold
<1>6. ASSUME NEW name \in Removable, RemoveFragment(name) PROVE LauncherInv'
  <2>1. OutcomeTold' BY <1>6 DEF RemoveFragment, OutcomeTold
  <2> QED BY <1>2, <1>6, <2>1 DEF RemoveFragment
<1>7. CASE UNCHANGED launchVars
  <2>1. UNCHANGED <<inherited, app, touched, gone, outcome>> BY <1>7 DEF launchVars
  <2>2. OutcomeTold' BY <2>1 DEF LauncherInv, OutcomeTold, Granted
  <2> QED BY <1>2, <2>1, <2>2
<1> QED BY <1>1, <1>3, <1>4, <1>5, <1>6, <1>7 DEF LauncherNext, Keys


\* A selection with these properties is launched as it is shown.
LEMMA InvShows == ASSUME LauncherInv PROVE LaunchedAsShown
<1> DEFINE l == app.library
           ps == app.profiles
           p == outcome.prompt
<1>1. /\ LibraryOk(l) /\ ProfilesOk(ps) /\ app \in AppOf(l, ps) /\ RowOk(app)
      /\ app.coding => 1 \in app.languages
      /\ app.coding /\ "language" \notin touched =>
           ListedSynced(app) /\ ("persona" \notin touched => Synced(app))
      /\ touched = {} => Selection(app) = Selection(Fresh(app))
      /\ OutcomeTold
  BY DEF LauncherInv, Kept
<1>2. app.cursor \in 1 .. Max({1, section_len(app, app.section)}) BY <1>1 DEF RowOk
<1>3. touched = {} =>
        Selection(app) = Selection(IF app.workspace = 0 THEN AppState_new(app.library, app.profiles)
                                   ELSE apply_workspace_profile(
                                          AppState_new(app.library, app.profiles), app.workspace))
  BY <1>1 DEF Fresh
<1>4. {app.library.descriptors[i] : i \in draw_descriptor_section(app)} \subseteq Range(summary_context(app))
  <2>1. \A i \in Systems(l) \cap app.descriptors : l.descriptors[i] \in Range(Context(app))
    BY <1>1, ContextIs
  <2> QED BY <2>1 DEF draw_descriptor_section, summary_context
<1>5. app.coding => 1 \in draw_coding_section(app) BY <1>1 DEF draw_coding_section
<1>6. ASSUME app.coding, "language" \notin touched, NEW d \in Range(summary_context(app))
      PROVE  \/ d.kind = "spaces" /\ "persona" \in touched
             \/ Range(d.languages) \subseteq Range(summary_coding(app))
  <2> SUFFICES ASSUME ~(d.kind = "spaces" /\ "persona" \in touched)
               PROVE  Range(d.languages) \subseteq Range(summary_coding(app))
    OBVIOUS
  <2>0. app.library = l BY <1>1 DEF AppOf
  <2>1. PICK i \in From(app) : d = l.descriptors[i] BY <1>1, ContextIs DEF summary_context
  <2>2. i \in app.descriptors \/ Synced(app)
    <3>1. CASE i \in app.descriptors BY <3>1
    <3>2. CASE i \notin app.descriptors
      <4>1. i = auto_space_index(app) /\ i # 0 BY <2>1, <3>2 DEF From
      <4>2. d.kind = "spaces" BY <1>1, <2>1, <4>1, SpaceKind
      <4> QED BY <1>1, <1>6, <4>2
    <3> QED BY <3>1, <3>2
  <2>3. Range(d.languages) \subseteq {l.languages[k] : k \in app.languages}
    BY <1>1, <1>6, <2>0, <2>1, <2>2 DEF Synced, ListedSynced
  <2>4. l.languages \in Seq(Range(l.languages)) BY <1>1 DEF LibraryOk, Listed
  <2>5. app.languages \subseteq DOMAIN l.languages BY <1>1 DEF AppOf
  <2>6. Range(ElementsAt(l.languages, app.languages))
          = {l.languages[k] : k \in app.languages \cap DOMAIN l.languages}
    BY <2>4, ElementsAtRange
  <2>7. summary_coding(app) = ElementsAt(l.languages, app.languages)
    BY <1>6 DEF summary_coding, selected_language_names
  <2> QED BY <2>3, <2>5, <2>6, <2>7
<1>7. ASSUME outcome # NoValue, outcome.kind \in {"launched", "updated"}
      PROVE  /\ p.persona = app.library.personas[app.persona].id
             /\ Among(p.parts, app.library.descriptors) = summary_context(app)
             /\ p.languages = (IF app.coding THEN summary_coding(app) ELSE <<>>)
             /\ Among(p.parts, app.library.expertise) = summary_expertise(app)
             /\ SizeOf(p.parts) = estimate_tokens(app)
             /\ outcome.kind = "launched" =>
                   outcome.grant = (IF summary_permissions(app) = NoValue THEN inherited
                                    ELSE summary_permissions(app))
  <2>1. /\ p = assemble_prompt(app) /\ app.persona # 0
        /\ outcome.kind = "launched" => outcome.grant = Granted(SelectedPersona(app))
    BY <1>1, <1>7 DEF OutcomeTold
  <2>2. p.persona = app.library.personas[app.persona].id
    BY <2>1 DEF assemble_prompt, SelectedPersona
  <2>3. p.languages = IF app.coding THEN summary_coding(app) ELSE <<>>
    BY <2>1 DEF assemble_prompt, summary_coding
  <2>4. /\ Among(assemble_prompt(app).parts, l.descriptors) = Context(app)
        /\ Among(assemble_prompt(app).parts, l.expertise) = SelectedExpertise(app)
        /\ SizeOf(assemble_prompt(app).parts) = estimate_tokens(app)
    BY <1>1, PromptIs
  <2>5. Granted(SelectedPersona(app)) = (IF summary_permissions(app) = NoValue THEN inherited
                                         ELSE summary_permissions(app))
    BY <1>1 DEF Granted, summary_permissions, allow_paths_for_persona, permission_for_persona
  <2> QED BY <2>1, <2>2, <2>3, <2>4, <2>5 DEF summary_context, summary_expertise
<1> QED BY <1>2, <1>3, <1>4, <1>5, <1>6, <1>7 DEF LaunchedAsShown

\* The session that starts is the one on the screen, after any keys, whatever the
\* library, the profiles and the environment: the prompt `assemble_prompt` makes, its
\* size and what it exempts are those of the summary, or, where the summary lists no
\* exemption, those the launcher was started with; the cursor is on a row, choosing a
\* workspace leaves nothing of what was chosen before, and the languages follow the
\* context, those of the space unless the persona was changed since.
THEOREM SessionIsShown == LauncherSpec => []LaunchedAsShown
<1>1. LauncherInit => LauncherInv BY StartsTold
<1>2. LauncherInv /\ [LauncherNext]_launchVars => LauncherInv' BY LauncherSteps
<1>3. LauncherInv => LaunchedAsShown BY InvShows
<1> QED BY <1>1, <1>2, <1>3, PTL DEF LauncherSpec

-----------------------------------------------------------------------------
(* Dependencies: what the steps of a walk keep                              *)

TurnsOf(g, n, one, state) == g = [i \in 0..n |-> IF i = 0 THEN state ELSE one[i][g[i - 1]]]

LEMMA TurnsExist ==
  ASSUME NEW one, NEW state
  PROVE  \A n \in Nat : \E g : TurnsOf(g, n, one, state)
<1> DEFINE T == {n \in Nat : \E g : TurnsOf(g, n, one, state)}
<1>1. 0 \in T
  <2> DEFINE g == [i \in 0..0 |-> state]
  <2>1. \A i \in 0..0 : i = 0 OBVIOUS
  <2>2. g = [i \in 0..0 |-> IF i = 0 THEN state ELSE one[i][g[i - 1]]] BY <2>1
  <2> HIDE DEF g
  <2>3. TurnsOf(g, 0, one, state) BY <2>2 DEF TurnsOf
  <2> QED BY <2>3
<1>2. ASSUME NEW m \in Nat, m \in T PROVE m + 1 \in T
  <2>1. PICK g : TurnsOf(g, m, one, state) BY <1>2
  <2>2. g = [i \in 0..m |-> IF i = 0 THEN state ELSE one[i][g[i - 1]]] BY <2>1 DEF TurnsOf
  <2> DEFINE h == [i \in 0..m + 1 |-> IF i <= m THEN g[i] ELSE one[i][g[m]]]
  <2>3. \A i \in 0..m : g[i] = IF i = 0 THEN state ELSE one[i][g[i - 1]] BY <2>2
  <2>4. ASSUME NEW i \in 0..m + 1
        PROVE  h[i] = IF i = 0 THEN state ELSE one[i][h[i - 1]]
    <3>1. CASE i <= m
      <4>1. i \in 0..m BY <3>1
      <4>2. h[i] = g[i] BY <4>1
      <4>3. i # 0 => i - 1 \in 0..m BY <4>1
      <4>4. i # 0 => h[i - 1] = g[i - 1] BY <4>3
      <4> HIDE DEF h
      <4> QED BY <4>1, <4>2, <4>4, <2>3
    <3>2. CASE ~(i <= m)
      <4>1. i = m + 1 /\ i # 0 BY <3>2
      <4>2. h[i] = one[i][g[m]] BY <4>1
      <4>3. i - 1 \in 0..m + 1 /\ i - 1 <= m /\ i - 1 = m BY <4>1
      <4>4. h[i - 1] = g[m] BY <4>3
      <4> HIDE DEF h
      <4> QED BY <4>1, <4>2, <4>4
    <3> QED BY <3>1, <3>2
  <2>5. DOMAIN h = 0..m + 1 /\ h = [i \in 0..m + 1 |-> h[i]] OBVIOUS
  <2> HIDE DEF h
  <2>6. h = [i \in 0..m + 1 |-> IF i = 0 THEN state ELSE one[i][h[i - 1]]] BY <2>4, <2>5
  <2>7. TurnsOf(h, m + 1, one, state) BY <2>6 DEF TurnsOf
  <2> QED BY <2>7
<1> HIDE DEF T
<1>3. Nat \subseteq T BY <1>1, <1>2, AllNumbers
<1> QED BY <1>3 DEF T

\* If the state is in U[0] and the i-th import takes the states of U[i - 1] to those
\* of U[i], what comes out is in the last one.
LEMMA InTurnKept ==
  ASSUME NEW n \in Nat, NEW one, NEW state, NEW U, state \in U[0],
         \A i \in 1..n : \A s \in U[i - 1] : one[i][s] \in U[i]
  PROVE  InTurn(n, one, state) \in U[n]
<1> DEFINE g == CHOOSE g : TurnsOf(g, n, one, state)
<1>1. TurnsOf(g, n, one, state) BY TurnsExist
<1>2. InTurn(n, one, state) = g[n] BY DEF InTurn, TurnsOf
<1> HIDE DEF g
<1>3. \A i \in 0..n : g[i] = IF i = 0 THEN state ELSE one[i][g[i - 1]]
  <2>1. g = [i \in 0..n |-> IF i = 0 THEN state ELSE one[i][g[i - 1]]] BY <1>1 DEF TurnsOf
  <2> QED BY <2>1
<1> DEFINE T == {i \in Nat : i \in 0..n => g[i] \in U[i]}
<1>4. 0 \in T BY <1>3
<1>5. ASSUME NEW i \in Nat, i \in T PROVE i + 1 \in T
  <2>1. SUFFICES ASSUME i + 1 \in 0..n PROVE g[i + 1] \in U[i + 1] OBVIOUS
  <2>2. i \in 0..n /\ i + 1 \in 1..n /\ (i + 1) - 1 = i /\ i + 1 # 0 BY <2>1
  <2>3. g[i] \in U[i] BY <1>5, <2>2
  <2>4. g[i + 1] = one[i + 1][g[i]] BY <1>3, <2>1, <2>2
  <2> QED BY <2>2, <2>3, <2>4
<1> HIDE DEF T
<1>6. Nat \subseteq T BY <1>4, <1>5, AllNumbers
<1>7. n \in T /\ n \in 0..n BY <1>6
<1> QED BY <1>2, <1>7 DEF T

\* One level of the walk.
LevelAt(p, c, n, deeper) ==
  [file \in DOMAIN p |-> [state \in ResolveState(p) |->
     walk_file(p, c, file, c.max_depth + 1 - n, IF n = 0 THEN <<>> ELSE deeper, state)]]

LevelsOf(g, p, c, m) == g = [n \in 0..m |-> LevelAt(p, c, n, g[n - 1])]

LEMMA LevelsExist ==
  ASSUME NEW p, NEW c
  PROVE  \A m \in Nat : \E g : LevelsOf(g, p, c, m)
<1> DEFINE T == {m \in Nat : \E g : LevelsOf(g, p, c, m)}
           one(n, deeper) == LevelAt(p, c, n, deeper)
<1>1. \A g, m : LevelsOf(g, p, c, m) <=> g = [n \in 0..m |-> one(n, g[n - 1])] BY DEF LevelsOf
<1>2. \A u, v : one(0, u) = one(0, v) BY DEF LevelAt
<1> HIDE DEF one
<1>3. 0 \in T
  <2> DEFINE g == [n \in 0..0 |-> one(0, <<>>)]
  <2>1. \A n \in 0..0 : n = 0 OBVIOUS
  <2>2. one(0, <<>>) = one(0, g[0 - 1]) BY <1>2
  <2>3. g = [n \in 0..0 |-> one(n, g[n - 1])]
    <3>1. \A n \in 0..0 : g[n] = one(0, <<>>) OBVIOUS
    <3>2. DOMAIN g = 0..0 /\ g = [n \in 0..0 |-> g[n]] OBVIOUS
    <3> HIDE DEF g
    <3>3. \A n \in 0..0 : g[n] = one(n, g[n - 1]) BY <2>1, <2>2, <3>1
    <3> QED BY <3>2, <3>3
  <2> HIDE DEF g
  <2>4. LevelsOf(g, p, c, 0) BY <2>3, <1>1
  <2> QED BY <2>4
<1>4. ASSUME NEW m \in Nat, m \in T PROVE m + 1 \in T
  <2>1. PICK g : LevelsOf(g, p, c, m) BY <1>4
  <2>2. g = [n \in 0..m |-> one(n, g[n - 1])] BY <2>1, <1>1
  <2> DEFINE h == [n \in 0..m + 1 |-> IF n <= m THEN g[n] ELSE one(n, g[m])]
  <2>3. \A n \in 0..m : g[n] = one(n, g[n - 1]) BY <2>2
  <2>4. ASSUME NEW n \in 0..m + 1 PROVE h[n] = one(n, h[n - 1])
    <3>1. CASE n = 0
      <4>1. h[0] = g[0] OBVIOUS
      <4>2. g[0] = one(0, g[0 - 1])
        <5>1. 0 \in 0..m OBVIOUS
        <5> QED BY <5>1, <2>3
      <4>3. one(0, g[0 - 1]) = one(0, h[0 - 1]) BY <1>2
      <4> HIDE DEF h
      <4> QED BY <3>1, <4>1, <4>2, <4>3
    <3>2. CASE n # 0 /\ n <= m
      <4>1. n \in 0..m /\ n - 1 \in 0..m BY <3>2
      <4>2. h[n] = g[n] /\ h[n - 1] = g[n - 1] BY <4>1
      <4> HIDE DEF h
      <4> QED BY <4>1, <4>2, <2>3
    <3>3. CASE ~(n <= m)
      <4>1. n = m + 1 BY <3>3
      <4>2. h[n] = one(n, g[m]) BY <4>1
      <4>3. n - 1 \in 0..m + 1 /\ n - 1 <= m /\ n - 1 = m BY <4>1
      <4>4. h[n - 1] = g[m] BY <4>3
      <4> HIDE DEF h
      <4> QED BY <4>1, <4>2, <4>4
    <3> QED BY <3>1, <3>2, <3>3
  <2>5. DOMAIN h = 0..m + 1 /\ h = [n \in 0..m + 1 |-> h[n]] OBVIOUS
  <2> HIDE DEF h
  <2>6. h = [n \in 0..m + 1 |-> one(n, h[n - 1])] BY <2>4, <2>5
  <2>7. LevelsOf(h, p, c, m + 1) BY <2>6, <1>1
  <2> QED BY <2>7
<1> HIDE DEF T
<1>5. Nat \subseteq T BY <1>3, <1>4, AllNumbers
<1> QED BY <1>5 DEF T

-----------------------------------------------------------------------------
(* Dependencies: what is picked stands in its order                        *)

\* Where the elements that are picked come from.
PlacesOf(h, s, P) ==
  /\ DOMAIN h = DOMAIN ElementsAt(s, P)
  /\ \A i \in DOMAIN h : h[i] \in P \cap DOMAIN s /\ ElementsAt(s, P)[i] = s[h[i]]
  /\ \A i, j \in DOMAIN h : i < j => h[i] < h[j]

LEMMA ElementsAtAppend ==
  ASSUME NEW T, NEW s \in Seq(T), NEW x \in T, NEW P
  PROVE  ElementsAt(Append(s, x), P) =
           IF Len(s) + 1 \in P THEN Append(ElementsAt(s, P), x) ELSE ElementsAt(s, P)
<1> DEFINE k == Len(s)
           a == PickedAt(s, P)
           t == Append(s, x)
           b == PickedAt(t, P)
           e == IF k + 1 \in P THEN <<x>> ELSE <<>>
           c == Append(a, e)
<1>1. a \in Seq(Seq(T)) /\ Len(a) = k /\ e \in Seq(T) /\ k \in Nat
  <2>1. a \in Seq(Seq(T)) /\ Len(a) = Len(s) BY PickedAtType
  <2>2. Len(s) \in Nat BY LenProperties
  <2>3. <<x>> \in Seq(T) /\ <<>> \in Seq(T) OBVIOUS
  <2> HIDE DEF a
  <2> QED BY <2>1, <2>2, <2>3
<1>2. /\ DOMAIN s = 1..k /\ DOMAIN t = 1..k + 1 /\ t[k + 1] = x
      /\ \A i \in 1..k : t[i] = s[i]
  BY AppendProperties, LenProperties
<1>3. b = c
  <2>1. DOMAIN b = DOMAIN t /\ b = [i \in DOMAIN b |-> b[i]] BY DEF PickedAt
  <2>2. \A i \in DOMAIN t : b[i] = IF i \in P THEN <<t[i]>> ELSE <<>> BY DEF PickedAt
  <2>3. \A i \in DOMAIN s : a[i] = IF i \in P THEN <<s[i]>> ELSE <<>> BY DEF PickedAt
  <2> HIDE DEF a, b, t, e, k
  <2>4. /\ c \in Seq(Seq(T)) /\ Len(c) = k + 1 /\ c[k + 1] = e
        /\ \A i \in 1..k : c[i] = a[i]
    BY <1>1, AppendProperties
  <2> HIDE DEF c
  <2>5. DOMAIN c = 1..k + 1 /\ c = [i \in DOMAIN c |-> c[i]] BY <2>4, LenProperties
  <2>6. ASSUME NEW i \in 1..k + 1 PROVE b[i] = c[i]
    <3>1. CASE i \in 1..k BY <3>1, <1>2, <2>2, <2>3, <2>4
    <3>2. CASE i = k + 1 BY <3>2, <1>2, <2>2, <2>4 DEF e
    <3> QED BY <3>1, <3>2, <1>1
  <2> QED BY <1>2, <2>1, <2>5, <2>6
<1>4. FlattenSeq(b) = FlattenSeq(a) \o e
  <2> HIDE DEF a, b, e, k, t
  <2> QED BY <1>1, <1>3, FlattenAppend
<1>5. FlattenSeq(b) = ElementsAt(t, P) /\ FlattenSeq(a) = ElementsAt(s, P)
  BY DEF ElementsAt, PickedAt
<1>6. ElementsAt(s, P) \in Seq(T) BY ElementsAtType
<1>7. ElementsAt(s, P) \o <<x>> = Append(ElementsAt(s, P), x) /\ ElementsAt(s, P) \o <<>> = ElementsAt(s, P)
  <2> DEFINE u == ElementsAt(s, P)
  <2> HIDE DEF u
  <2>1. u \in Seq(T) BY <1>6 DEF u
  <2>2. u \o <<x>> = Append(u, x) BY <2>1, AppendIsConcat
  <2>3. u \o <<>> = u BY <2>1
  <2> QED BY <2>2, <2>3 DEF u
<1> QED BY <1>4, <1>5, <1>7

LEMMA ElementsAtOrder ==
  ASSUME NEW T, NEW P
  PROVE  \A s \in Seq(T) : \E h : PlacesOf(h, s, P)
<1> DEFINE U == {s \in Seq(T) : \E h : PlacesOf(h, s, P)}
<1>1. <<>> \in U
  <2>1. ElementsAt(<<>>, P) = <<>>
    <3>1. <<>> \in Seq(T) /\ P \cap DOMAIN <<>> = {} OBVIOUS
    <3> QED BY <3>1, ElementsAtNone
  <2>2. DOMAIN <<>> = {} OBVIOUS
  <2>3. PlacesOf(<<>>, <<>>, P) BY <2>1, <2>2 DEF PlacesOf
  <2> QED BY <2>3
<1>2. ASSUME NEW s \in Seq(T), s \in U, NEW x \in T PROVE Append(s, x) \in U
  <2> DEFINE k == Len(s)
             t == Append(s, x)
             e == ElementsAt(s, P)
             n == Len(e)
  <2>1. PICK h : PlacesOf(h, s, P) BY <1>2
  <2>2. /\ k \in Nat /\ DOMAIN s = 1..k /\ DOMAIN t = 1..k + 1 /\ t[k + 1] = x /\ t \in Seq(T)
        /\ \A i \in 1..k : t[i] = s[i]
    BY AppendProperties, LenProperties
  <2>3. e \in Seq(T) BY ElementsAtType
  <2>4. n \in Nat /\ DOMAIN e = 1..n
    <3> HIDE DEF e
    <3> QED BY <2>3, LenProperties
  <2>5. ElementsAt(t, P) = IF k + 1 \in P THEN Append(e, x) ELSE e BY ElementsAtAppend
  <2>6. /\ DOMAIN h = 1..n
        /\ \A i \in 1..n : h[i] \in P /\ h[i] \in 1..k /\ e[i] = s[h[i]]
        /\ \A i, j \in 1..n : i < j => h[i] < h[j]
    BY <2>1, <2>2, <2>4 DEF PlacesOf
  <2> HIDE DEF U, k, t, e, n
  <2>7. CASE k + 1 \notin P
    <3>1. PlacesOf(h, t, P)
      <4>1. ElementsAt(t, P) = e BY <2>5, <2>7
      <4>2. \A i \in 1..n : h[i] \in P \cap DOMAIN t /\ e[i] = t[h[i]] BY <2>2, <2>6
      <4> QED BY <2>4, <2>6, <4>1, <4>2 DEF PlacesOf
    <3> QED BY <2>2, <3>1 DEF U, t
  <2>8. CASE k + 1 \in P
    <3> DEFINE d == Append(e, x)
               g == [i \in 1..n + 1 |-> IF i <= n THEN h[i] ELSE k + 1]
    <3>1. DOMAIN d = 1..n + 1 /\ d[n + 1] = x /\ \A i \in 1..n : d[i] = e[i]
      <4>1. Len(e) = n BY DEF n
      <4> QED BY <2>3, <2>4, <4>1, AppendProperties, LenProperties
    <3>2. /\ DOMAIN g = 1..n + 1 /\ g[n + 1] = k + 1
          /\ \A i \in 1..n : g[i] = h[i]
      BY <2>4
    <3> HIDE DEF d, g
    <3>3. \A i \in 1..n + 1 : i \in 1..n \/ i = n + 1 BY <2>4
    <3>4. ElementsAt(t, P) = d BY <2>5, <2>8 DEF d
    <3>5. ASSUME NEW i \in 1..n + 1 PROVE g[i] \in P \cap DOMAIN t /\ d[i] = t[g[i]]
      <4>1. CASE i \in 1..n BY <4>1, <2>2, <2>6, <3>1, <3>2
      <4>2. CASE i = n + 1 BY <4>2, <2>2, <2>8, <3>1, <3>2
      <4> QED BY <3>3, <4>1, <4>2
    <3>6. ASSUME NEW i \in 1..n + 1, NEW j \in 1..n + 1, i < j PROVE g[i] < g[j]
      <4>1. i \in 1..n BY <3>6, <2>4
      <4>2. g[i] = h[i] /\ h[i] \in 1..k BY <4>1, <2>6, <3>2
      <4>3. CASE j \in 1..n BY <3>6, <4>1, <4>3, <2>6, <3>2
      <4>4. CASE j = n + 1 BY <4>2, <4>4, <3>2, <2>2
      <4> QED BY <3>3, <4>3, <4>4
    <3>7. PlacesOf(g, t, P) BY <3>1, <3>2, <3>4, <3>5, <3>6 DEF PlacesOf
    <3> QED BY <2>2, <3>7 DEF U, t
  <2> QED BY <2>7, <2>8
<1> HIDE DEF U
<1>3. Seq(T) \subseteq U BY <1>1, <1>2, AllSequences
<1> QED BY <1>3 DEF U

\* Of the symbols of a name the first is kept.
LEMMA DedupKeeps ==
  ASSUME NEW T, NEW s \in Seq(T)
  PROVE  LET d == dedup_groups(s)
         IN  /\ d \in Seq(T) /\ Range(d) \subseteq Range(s) /\ Names(Range(d)) = Names(Range(s))
             /\ \A i, j \in DOMAIN d : d[i].name = d[j].name => i = j
<1> DEFINE P == {i \in DOMAIN s : \A j \in 1 .. i - 1 : s[j].name # s[i].name}
           d == ElementsAt(s, P)
<1>1. dedup_groups(s) = d BY DEF dedup_groups
<1>2. d \in Seq(T) BY ElementsAtType
<1>3. Range(d) = {s[i] : i \in P \cap DOMAIN s} BY ElementsAtRange
<1>4. PICK h : PlacesOf(h, s, P) BY ElementsAtOrder
<1>5. DOMAIN s = 1..Len(s) /\ Len(s) \in Nat BY LenProperties
<1>6. /\ DOMAIN h = DOMAIN d
      /\ \A i \in DOMAIN d : h[i] \in P /\ d[i] = s[h[i]]
      /\ \A i, j \in DOMAIN d : i < j => h[i] < h[j]
  BY <1>4 DEF PlacesOf
<1>7. \A i \in P : i \in DOMAIN s /\ \A j \in 1 .. i - 1 : s[j].name # s[i].name OBVIOUS
<1>8. \A i \in DOMAIN s : (\A j \in 1 .. i - 1 : s[j].name # s[i].name) => i \in P OBVIOUS
<1>9. DOMAIN d = 1..Len(d) /\ Len(d) \in Nat
  <2> HIDE DEF d
  <2> QED BY <1>2, LenProperties
<1> HIDE DEF d, P
<1>10. ASSUME NEW i \in DOMAIN d, NEW j \in DOMAIN d, d[i].name = d[j].name, i < j PROVE FALSE
  <2>1. h[i] < h[j] /\ h[i] \in 1..Len(s) /\ h[j] \in 1..Len(s) BY <1>5, <1>6, <1>7, <1>10
  <2>2. h[i] \in 1 .. h[j] - 1 BY <2>1, <1>5
  <2>3. s[h[i]].name # s[h[j]].name BY <2>2, <1>6, <1>7
  <2> QED BY <1>6, <1>10, <2>3
<1>11. \A i, j \in DOMAIN d : d[i].name = d[j].name => i = j
  <2>1. ASSUME NEW i \in DOMAIN d, NEW j \in DOMAIN d, d[i].name = d[j].name PROVE i = j
    <3>1. ~(i < j) BY <1>10, <2>1
    <3>2. ~(j < i) BY <1>10, <2>1
    <3>3. i \in Nat /\ j \in Nat BY <1>9
    <3> QED BY <3>1, <3>2, <3>3
  <2> QED BY <2>1
<1>12. Range(d) \subseteq Range(s) BY <1>3 DEF Range
<1>13. ASSUME NEW x \in Range(s) PROVE \E y \in Range(d) : y.name = x.name
  <2> DEFINE U == {i \in DOMAIN s : s[i].name = x.name}
  <2>1. U # {} /\ U \in SUBSET Nat BY <1>5 DEF Range
  <2>2. PICK i \in U : \A j \in U : i <= j
    <3> HIDE DEF U
    <3> QED BY <2>1, LeastNumber
  <2>3. i \in 1..Len(s) /\ s[i].name = x.name BY <2>2, <1>5
  <2>4. ASSUME NEW j \in 1..i - 1 PROVE s[j].name # s[i].name
    <3>1. j \in 1..Len(s) /\ ~(i <= j) BY <2>3, <1>5
    <3>2. j \notin U BY <2>2, <3>1
    <3> QED BY <2>3, <3>1, <3>2, <1>5
  <2>5. i \in P BY <1>8, <2>3, <2>4, <1>5
  <2>6. s[i] \in Range(d) BY <1>3, <1>5, <2>3, <2>5
  <2> QED BY <2>3, <2>6
<1>14. Names(Range(d)) = Names(Range(s)) BY <1>12, <1>13 DEF Names
<1> QED BY <1>1, <1>2, <1>11, <1>12, <1>14

-----------------------------------------------------------------------------
(* Dependencies: what leads where                                          *)

LEMMA ImportsLead ==
  ASSUME NEW p, NEW f, NEW e \in Imports(p, f)
  PROVE  e.file \in DOMAIN p /\ e.file \in Follows1(p, f)
BY DEF Imports, Follows1, Leads, Readable, IsFile

LEMMA FollowsAre == ASSUME NEW p, NEW f PROVE Follows1(p, f) \subseteq DOMAIN p
BY ImportsLead DEF Follows1

LEMMA ReachedOn ==
  ASSUME NEW p, NEW t, NEW f \in Reached(p, t)
  PROVE  Follows1(p, f) \subseteq Reached(p, t) /\ f \in DOMAIN p
<1>1. f \in DOMAIN p /\ \A fs \in Closed(p) : t \in fs => f \in fs BY DEF Reached
<1>2. ASSUME NEW d \in Follows1(p, f) PROVE d \in Reached(p, t)
  <2>1. d \in DOMAIN p BY FollowsAre
  <2>2. \A fs \in Closed(p) : f \in fs => d \in fs BY DEF Closed
  <2> QED BY <1>1, <2>1, <2>2 DEF Reached
<1> QED BY <1>1, <1>2

LEMMA BehindOn ==
  ASSUME NEW p, NEW f
  PROVE  /\ Follows1(p, f) \subseteq Behind(p, f)
         /\ \A g \in Behind(p, f) : Follows1(p, g) \subseteq Behind(p, f)
<1>1. ASSUME NEW d \in Follows1(p, f) PROVE d \in Behind(p, f)
  <2>1. d \in DOMAIN p BY FollowsAre
  <2> QED BY <2>1 DEF Behind
<1>2. ASSUME NEW g \in Behind(p, f), NEW d \in Follows1(p, g) PROVE d \in Behind(p, f)
  <2>1. d \in DOMAIN p BY FollowsAre
  <2>2. \A fs \in Closed(p) : Follows1(p, f) \subseteq fs => g \in fs BY DEF Behind
  <2>3. \A fs \in Closed(p) : g \in fs => d \in fs BY DEF Closed
  <2> QED BY <2>1, <2>2, <2>3 DEF Behind
<1> QED BY <1>1, <1>2

LEMMA ReachedLeast ==
  ASSUME NEW p, NEW t, NEW fs \in SUBSET DOMAIN p, t \in fs,
         \A f \in fs : Follows1(p, f) \subseteq fs
  PROVE  Reached(p, t) \subseteq fs
BY DEF Reached, Closed

NamesOf(p, e) == resolve_wildcard_names(p, e.names, e.file)

LEMMA WantedBy ==
  ASSUME NEW p, NEW t, NEW f \in Reached(p, t), NEW e \in Imports(p, f)
  PROVE  NamesOf(p, e) \subseteq Wanted(p, t, e.file)
BY DEF Wanted, NamesOf

-----------------------------------------------------------------------------
(* Dependencies: symbols                                                   *)

LEMMA ProjectIs ==
  ASSUME NEW p \in Projects, NEW f \in DOMAIN p
  PROVE  /\ p[f].imports \in Seq(Range(p[f].imports))
         /\ p[f].definitions \in Seq(Range(p[f].definitions))
         /\ \A d \in Range(p[f].definitions) : d.kind \in SymbolKinds
         /\ IsFiniteSet(DOMAIN p)
BY ProjectsAssumption

LEMMA FormIs ==
  ASSUME NEW kind \in SymbolKinds, kind # "other", NEW mode
  PROVE  /\ Form(kind, mode) \in {"text", "signature", "body"}
         /\ Form(kind, mode) = "signature" => mode = "signatures"
         /\ Form(kind, mode) = "body" => mode # "signatures"
<1>1. CASE kind \in {"constant", "type_alias"}
  <2>1. Form(kind, mode) = "text" BY <1>1 DEF Form
  <2> QED BY <2>1
<1>2. CASE kind \in {"function", "class"} /\ mode = "signatures"
  <2>1. Form(kind, mode) = "signature" BY <1>2 DEF Form
  <2> QED BY <1>2, <2>1
<1>3. CASE kind \in {"function", "class"} /\ mode # "signatures"
  <2>1. Form(kind, mode) = "body" BY <1>3 DEF Form
  <2> QED BY <1>3, <2>1
<1> QED BY <1>1, <1>2, <1>3 DEF SymbolKinds

\* What is extracted: the definitions of the names, in the form of the mode.
LEMMA ExtractIs ==
  ASSUME NEW p \in Projects, NEW f \in DOMAIN p, NEW names, NEW mode
  PROVE  LET y == extract_symbols(p, f, names, mode)
         IN  /\ y \in Seq(Symbols(p))
             /\ Names(Range(y)) = Defined(p, f) \cap names
             /\ \A x \in Range(y) : x.form = "signature" => mode = "signatures"
             /\ \A x \in Range(y) : x.form = "body" => mode # "signatures"
<1> DEFINE d == p[f].definitions
           R == Range(d)
           P == {i \in DOMAIN d : d[i].kind # "other" /\ d[i].name \in names}
           w == ElementsAt(d, P)
           y == extract_symbols(p, f, names, mode)
<1>1. d \in Seq(R) /\ \A x \in R : x.kind \in SymbolKinds BY ProjectIs
<1>2. DOMAIN y = DOMAIN w /\ \A i \in DOMAIN w : y[i] = [name |-> w[i].name, form |-> Form(w[i].kind, mode)]
  BY DEF extract_symbols
<1>3. y = [i \in DOMAIN w |-> y[i]] BY DEF extract_symbols
<1>4. w \in Seq(R) /\ Range(w) = {d[i] : i \in P \cap DOMAIN d} BY <1>1, ElementsAtType, ElementsAtRange
<1>5. Range(w) = {x \in R : x.kind # "other" /\ x.name \in names} BY <1>4 DEF Range
<1>6. DOMAIN w = 1..Len(w) /\ Len(w) \in Nat
  <2> HIDE DEF w
  <2> QED BY <1>4, LenProperties
<1>7. R \subseteq UNION {Range(p[g].definitions) : g \in DOMAIN p} OBVIOUS
<1>8. \A x \in R : x.name \in {z.name : z \in UNION {Range(p[g].definitions) : g \in DOMAIN p}} BY <1>7
<1>9. {x.name : x \in {z \in R : z.kind # "other"}} = Defined(p, f) BY DEF Defined
<1> HIDE DEF d, R, P, w, y
<1>10. \A i \in DOMAIN w : w[i] \in R /\ w[i].kind # "other" /\ w[i].name \in names BY <1>5 DEF Range
<1>11. ASSUME NEW i \in DOMAIN w
       PROVE  /\ y[i] \in Symbols(p)
              /\ y[i].form = "signature" => mode = "signatures"
              /\ y[i].form = "body" => mode # "signatures"
  <2>1. w[i].kind \in SymbolKinds /\ w[i].kind # "other" BY <1>1, <1>10
  <2>2. /\ Form(w[i].kind, mode) \in {"text", "signature", "body"}
        /\ Form(w[i].kind, mode) = "signature" => mode = "signatures"
        /\ Form(w[i].kind, mode) = "body" => mode # "signatures"
    BY <2>1, FormIs
  <2>3. y[i] = [name |-> w[i].name, form |-> Form(w[i].kind, mode)] BY <1>2
  <2> QED BY <1>8, <1>10, <2>2, <2>3 DEF Symbols
<1>12. y \in Seq(Symbols(p))
  <2>1. y \in [1..Len(w) -> Symbols(p)] BY <1>3, <1>6, <1>11
  <2> QED BY <1>6, <2>1
<1>13. Range(y) = {y[i] : i \in DOMAIN w} BY <1>2 DEF Range
<1>14. Names(Range(y)) = Defined(p, f) \cap names
  <2>1. ASSUME NEW n \in Names(Range(y)) PROVE n \in Defined(p, f) \cap names
    <3>1. PICK i \in DOMAIN w : n = y[i].name BY <1>13, <2>1 DEF Names
    <3>2. n = w[i].name BY <3>1, <1>2
    <3> QED BY <3>2, <1>9, <1>10
  <2>2. ASSUME NEW n \in Defined(p, f) \cap names PROVE n \in Names(Range(y))
    <3>1. PICK x \in R : x.kind # "other" /\ n = x.name BY <1>9, <2>2
    <3>2. x \in Range(w) BY <1>5, <2>2, <3>1
    <3>3. PICK i \in DOMAIN w : x = w[i] BY <3>2 DEF Range
    <3>4. n = y[i].name BY <1>2, <3>1, <3>3
    <3> QED BY <1>13, <3>4 DEF Names
  <2> QED BY <2>1, <2>2
<1>15. \A x \in Range(y) : x.form = "signature" => mode = "signatures" BY <1>11, <1>13
<1>16. \A x \in Range(y) : x.form = "body" => mode # "signatures" BY <1>11, <1>13
<1> QED BY <1>12, <1>14, <1>15, <1>16 DEF y

\* No file stands twice in the order, and, in the second, each behind those it imports.
Once(o) == \A i, j \in DOMAIN o : o[i] = o[j] => i = j

Ordered(p, o) ==
  \A i \in DOMAIN o : \A d \in Follows1(p, o[i]) : \E j \in DOMAIN o : j < i /\ o[j] = d

LEMMA StateOf ==
  ASSUME NEW p, NEW v \in SUBSET DOMAIN p, NEW o \in Seq(DOMAIN p),
         NEW g \in [DOMAIN p -> Seq(Symbols(p))]
  PROVE  [visited |-> v, order |-> o, groups |-> g] \in ResolveState(p)
BY DEF ResolveState

LEMMA StateIs ==
  ASSUME NEW p, NEW s \in ResolveState(p)
  PROVE  /\ s.visited \in SUBSET DOMAIN p /\ s.order \in Seq(DOMAIN p)
         /\ s.groups \in [DOMAIN p -> Seq(Symbols(p))]
         /\ DOMAIN s.order = 1..Len(s.order) /\ Len(s.order) \in Nat
         /\ Range(s.order) \subseteq DOMAIN p
<1>1. /\ s.visited \in SUBSET DOMAIN p /\ s.order \in Seq(DOMAIN p)
      /\ s.groups \in [DOMAIN p -> Seq(Symbols(p))]
  BY DEF ResolveState
<1>2. DOMAIN s.order = 1..Len(s.order) /\ Len(s.order) \in Nat BY <1>1, LenProperties
<1>3. \A i \in DOMAIN s.order : s.order[i] \in DOMAIN p BY <1>1, <1>2, ElementOfSeq
<1> QED BY <1>1, <1>2, <1>3 DEF Range

\* What adding the symbols y of f to s makes of it.
AddedTo(p, s, f, y, r) ==
  /\ r \in ResolveState(p) /\ r.visited = s.visited
  /\ Range(r.order) = Range(s.order) \cup {f}
  /\ Once(s.order) => Once(r.order)
  /\ Ordered(p, s.order) /\ (f \in Range(s.order) \/ Follows1(p, f) \subseteq Range(s.order))
       => Ordered(p, r.order)
  /\ Range(r.groups[f]) = Range(s.groups[f]) \cup Range(y)
  /\ \A d \in DOMAIN p : d # f => r.groups[d] = s.groups[d]

LEMMA AddSymbolsIs ==
  ASSUME NEW p, NEW s \in ResolveState(p), NEW f \in DOMAIN p, NEW y \in Seq(Symbols(p))
  PROVE  AddedTo(p, s, f, y, AddSymbols(s, f, y))
<1> DEFINE r == AddSymbols(s, f, y)
           o == s.order
           q == IF f \in Range(o) THEN o ELSE Append(o, f)
           g == [s.groups EXCEPT ![f] = @ \o y]
           k == Len(o)
<1>1. /\ s.visited \in SUBSET DOMAIN p /\ o \in Seq(DOMAIN p)
      /\ s.groups \in [DOMAIN p -> Seq(Symbols(p))]
      /\ DOMAIN o = 1..k /\ k \in Nat
  BY StateIs
<1>2. /\ r = [visited |-> s.visited, order |-> q, groups |-> g]
      /\ r.visited = s.visited /\ r.order = q /\ r.groups = g
      /\ q = IF f \in Range(o) THEN o ELSE Append(o, f)
      /\ g = [s.groups EXCEPT ![f] = @ \o y]
  BY DEF AddSymbols
<1>3. s.groups[f] \in Seq(Symbols(p)) /\ r.groups[f] = s.groups[f] \o y BY <1>1, <1>2
<1>4. s.groups[f] \o y \in Seq(Symbols(p)) BY <1>3, ConcatProperties
<1>5. g \in [DOMAIN p -> Seq(Symbols(p))] BY <1>1, <1>2, <1>3, <1>4
<1>6. \A d \in DOMAIN p : d # f => r.groups[d] = s.groups[d] BY <1>1, <1>2
<1>7. Range(r.groups[f]) = Range(s.groups[f]) \cup Range(y)
  <2>1. \A x : In(x, s.groups[f] \o y) <=> In(x, s.groups[f]) \/ In(x, y) BY <1>3, InConcat
  <2>2. \A x : x \in Range(r.groups[f]) <=> x \in Range(s.groups[f]) \/ x \in Range(y)
    BY <1>3, <2>1, RangeIn
  <2> QED BY <2>2
<1> HIDE DEF r, o, q, g, k
<1>8. CASE f \in Range(o)
  <2>1. q = o BY <1>2, <1>8
  <2>2. Range(q) = Range(o) \cup {f} BY <1>8, <2>1
  <2>3. r \in ResolveState(p)
    <3>1. q \in Seq(DOMAIN p) BY <1>1, <2>1
    <3>2. [visited |-> s.visited, order |-> q, groups |-> g] \in ResolveState(p)
      BY <1>1, <1>5, <3>1, StateOf
    <3> QED BY <1>2, <3>2
  <2>4. Once(s.order) => Once(r.order) BY <1>2, <2>1 DEF o
  <2>5. Ordered(p, s.order) => Ordered(p, r.order) BY <1>2, <2>1 DEF o
  <2> QED BY <1>2, <1>6, <1>7, <2>2, <2>3, <2>4, <2>5 DEF r, o, AddedTo
<1>9. CASE f \notin Range(o)
  <2>1. q = Append(o, f) BY <1>2, <1>9
  <2>2. q \in Seq(DOMAIN p) /\ DOMAIN q = 1..k + 1 /\ q[k + 1] = f /\ \A i \in 1..k : q[i] = o[i]
    <3>1. k = Len(o) BY DEF k
    <3> QED BY <1>1, <2>1, <3>1, AppendProperties, LenProperties
  <2>3. \A i \in 1..k + 1 : i \in 1..k \/ i = k + 1 BY <1>1
  <2>4. \A i \in 1..k : i \in 1..k + 1 /\ i < k + 1 /\ o[i] # f BY <1>1, <1>9 DEF Range
  <2>5. k + 1 \in 1..k + 1 BY <1>1
  <2>6. Range(q) = Range(o) \cup {f}
    <3>1. ASSUME NEW x \in Range(q) PROVE x \in Range(o) \cup {f}
      <4>1. PICK i \in 1..k + 1 : x = q[i] BY <2>2, <3>1 DEF Range
      <4> QED BY <4>1, <1>1, <2>2, <2>3 DEF Range
    <3>2. ASSUME NEW x \in Range(o) PROVE x \in Range(q)
      <4>1. PICK i \in 1..k : x = o[i] BY <1>1, <3>2 DEF Range
      <4> QED BY <4>1, <2>2, <2>4 DEF Range
    <3>3. f \in Range(q) BY <2>2, <2>5 DEF Range
    <3> QED BY <3>1, <3>2, <3>3
  <2>7. r \in ResolveState(p)
    <3>1. [visited |-> s.visited, order |-> q, groups |-> g] \in ResolveState(p)
      BY <1>1, <1>5, <2>2, StateOf
    <3> QED BY <1>2, <3>1
  <2>8. ASSUME Once(s.order) PROVE Once(r.order)
    <3>1. \A i, j \in 1..k : o[i] = o[j] => i = j BY <1>1, <2>8 DEF Once, o
    <3>2. ASSUME NEW i \in 1..k + 1, NEW j \in 1..k + 1, q[i] = q[j] PROVE i = j
      <4>1. CASE i \in 1..k /\ j \in 1..k BY <2>2, <3>1, <3>2, <4>1
      <4>2. CASE i \in 1..k /\ j = k + 1 BY <2>2, <2>4, <3>2, <4>2
      <4>3. CASE i = k + 1 /\ j \in 1..k BY <2>2, <2>4, <3>2, <4>3
      <4> QED BY <2>3, <4>1, <4>2, <4>3
    <3>3. Once(q) BY <2>2, <3>2 DEF Once
    <3> QED BY <1>2, <3>3
  <2>9. ASSUME Ordered(p, s.order), Follows1(p, f) \subseteq Range(o) PROVE Ordered(p, r.order)
    <3>1. \A i \in 1..k : \A d \in Follows1(p, o[i]) : \E j \in 1..k : j < i /\ o[j] = d
      BY <1>1, <2>9 DEF Ordered, o
    <3>2. ASSUME NEW i \in 1..k + 1, NEW d \in Follows1(p, q[i])
          PROVE  \E j \in 1..k + 1 : j < i /\ q[j] = d
      <4>1. CASE i \in 1..k
        <5>1. PICK j \in 1..k : j < i /\ o[j] = d BY <2>2, <3>1, <3>2, <4>1
        <5> QED BY <5>1, <2>2, <2>4
      <4>2. CASE i = k + 1
        <5>1. d \in Range(o) BY <2>2, <2>9, <3>2, <4>2
        <5>2. PICK j \in 1..k : o[j] = d BY <1>1, <5>1 DEF Range
        <5> QED BY <4>2, <5>2, <2>2, <2>4
      <4> QED BY <2>3, <4>1, <4>2
    <3>3. Ordered(p, q) BY <2>2, <3>2 DEF Ordered
    <3> QED BY <1>2, <3>3
  <2> QED BY <1>2, <1>6, <1>7, <1>9, <2>6, <2>7, <2>8, <2>9 DEF r, o, AddedTo
<1> QED BY <1>8, <1>9

-----------------------------------------------------------------------------
(* Dependencies: the walk                                                  *)

\* The depth is no limit; nothing depends on itself.
Endless(p, c) == c.max_depth >= Cardinality(DOMAIN p)
Acyclic(p, t) == \A f \in Reached(p, t) : f \notin Behind(p, f)

\* In which form something of d may be shown.
FormFits(p, c, t, d, x) ==
  c.mode = "hybrid" =>
    /\ d \notin UNION {Follows1(p, f) : f \in Reached(p, t) \ {t}} => x.form # "signature"
    /\ d \notin Follows1(p, t) => x.form # "body"

\* A state of the walk that holds nothing but what belongs there.
Grounded(p, c, t, s) ==
  /\ s \in ResolveState(p) /\ Once(s.order) /\ s.visited \subseteq Reached(p, t)
  /\ \A d \in DOMAIN p : Names(Range(s.groups[d])) \subseteq Defined(p, d) \cap Wanted(p, t, d)
  /\ \A d \in DOMAIN p : \A x \in Range(s.groups[d]) : FormFits(p, c, t, d, x)
  /\ Endless(p, c) /\ Acyclic(p, t) => Ordered(p, s.order)

Grows(p, s, r) ==
  /\ s.visited \subseteq r.visited /\ Range(s.order) \subseteq Range(r.order)
  /\ \A d \in DOMAIN p : Range(s.groups[d]) \subseteq Range(r.groups[d])

\* What an import asks for is there; so is all a file asks for.
Listed1(p, s, e) ==
  /\ e.file \in Range(s.order)
  /\ Defined(p, e.file) \cap NamesOf(p, e) \subseteq Names(Range(s.groups[e.file]))
Done(p, s, f) == \A e \in Imports(p, f) : e.file \in s.visited /\ Listed1(p, s, e)

\* Whatever is visited and not done has led to f.
Pending(p, s, f) == \A g \in s.visited : Done(p, s, g) \/ f \in Behind(p, g)

CallRight(p, c, t, n, f, s) ==
  /\ Grounded(p, c, t, s) /\ f \in Reached(p, t)
  /\ IF n = c.max_depth + 1 THEN f = t ELSE t \in s.visited
  /\ Endless(p, c) => c.max_depth + 1 - n <= Cardinality(s.visited) /\ Pending(p, s, f)

AnswerRight(p, c, t, f, s, r) ==
  /\ Grounded(p, c, t, r) /\ Grows(p, s, r)
  /\ Endless(p, c) => f \in r.visited /\ \A g \in r.visited \ s.visited : Done(p, r, g)

\* A walk of level n as it should be.
LevelRight(p, c, t, n, w) ==
  \A f \in DOMAIN p : \A s \in ResolveState(p) :
    CallRight(p, c, t, n, f, s) => AnswerRight(p, c, t, f, s, w[f][s])

LEMMA WalkKept ==
  ASSUME NEW p, NEW c, NEW t, c.max_depth \in Nat,
         \A deeper : LevelRight(p, c, t, 0, LevelAt(p, c, 0, deeper)),
         \A n \in 1..c.max_depth + 1 : \A deeper :
           LevelRight(p, c, t, n - 1, deeper) => LevelRight(p, c, t, n, LevelAt(p, c, n, deeper))
  PROVE  LevelRight(p, c, t, c.max_depth + 1, Walk(p, c))
<1> DEFINE m == c.max_depth + 1
           g == CHOOSE g : LevelsOf(g, p, c, m)
<1>1. LevelsOf(g, p, c, m)
  <2>1. m \in Nat OBVIOUS
  <2> QED BY <2>1, LevelsExist
<1>2. Walk(p, c) = g[m] BY DEF Walk, LevelsOf, LevelAt
<1>3. \A n \in 1..m : \A deeper :
        LevelRight(p, c, t, n - 1, deeper) => LevelRight(p, c, t, n, LevelAt(p, c, n, deeper))
  OBVIOUS
<1>4. m \in Nat OBVIOUS
<1> HIDE DEF g, m
<1>5. \A n \in 0..m : g[n] = LevelAt(p, c, n, g[n - 1])
  <2>1. g = [n \in 0..m |-> LevelAt(p, c, n, g[n - 1])] BY <1>1 DEF LevelsOf
  <2> QED BY <2>1
<1> DEFINE T == {n \in Nat : n \in 0..m => LevelRight(p, c, t, n, g[n])}
<1>6. 0 \in T
  <2>1. 0 \in 0..m BY <1>4
  <2>2. g[0] = LevelAt(p, c, 0, g[0 - 1]) BY <2>1, <1>5
  <2> QED BY <2>2
<1>7. ASSUME NEW n \in Nat, n \in T PROVE n + 1 \in T
  <2>1. SUFFICES ASSUME n + 1 \in 0..m PROVE LevelRight(p, c, t, n + 1, g[n + 1]) OBVIOUS
  <2>2. n \in 0..m /\ n + 1 \in 1..m /\ (n + 1) - 1 = n BY <2>1, <1>4
  <2>3. LevelRight(p, c, t, n, g[n]) BY <1>7, <2>2
  <2>4. g[n + 1] = LevelAt(p, c, n + 1, g[n]) BY <1>5, <2>1, <2>2
  <2>5. \A deeper : LevelRight(p, c, t, n, deeper)
                      => LevelRight(p, c, t, n + 1, LevelAt(p, c, n + 1, deeper))
    BY <1>3, <2>2
  <2> QED BY <2>3, <2>4, <2>5
<1> HIDE DEF T
<1>8. Nat \subseteq T BY <1>6, <1>7, AllNumbers
<1>9. m \in T /\ m \in 0..m BY <1>4, <1>8
<1> QED BY <1>2, <1>9 DEF T, m

LEMMA GrowsOn ==
  ASSUME NEW p, NEW s, NEW r, NEW q, Grows(p, s, r), Grows(p, r, q)
  PROVE  Grows(p, s, q)
BY DEF Grows

LEMMA StillListed ==
  ASSUME NEW p, NEW s, NEW r, Grows(p, s, r), NEW e, e.file \in DOMAIN p, Listed1(p, s, e)
  PROVE  Listed1(p, r, e)
BY DEF Grows, Listed1, Names

LEMMA StillDone ==
  ASSUME NEW p, NEW s, NEW r, Grows(p, s, r), NEW f, Done(p, s, f)
  PROVE  Done(p, r, f)
<1>1. ASSUME NEW e \in Imports(p, f) PROVE e.file \in r.visited /\ Listed1(p, r, e)
  <2>1. e.file \in DOMAIN p BY ImportsLead
  <2>2. e.file \in s.visited /\ Listed1(p, s, e) BY DEF Done
  <2>3. e.file \in r.visited BY <2>2 DEF Grows
  <2> QED BY <2>1, <2>2, <2>3, StillListed
<1> QED BY <1>1 DEF Done

LEMMA DoneLists ==
  ASSUME NEW p, NEW s, NEW f, Done(p, s, f)
  PROVE  Follows1(p, f) \subseteq Range(s.order)
BY DEF Done, Listed1, Follows1

LEMMA ImportsSeq ==
  ASSUME NEW p \in Projects, NEW f \in DOMAIN p
  PROVE  LET I == collect_local_imports(p, f)
         IN  /\ DOMAIN I = 1..Len(I) /\ Len(I) \in Nat
             /\ \A e : e \in Imports(p, f) <=> \E j \in 1..Len(I) : e = I[j] /\ Leads(p, I[j])
<1> DEFINE I == collect_local_imports(p, f)
           is == p[f].imports
<1>1. is \in Seq(Range(is)) BY ProjectIs
<1>2. DOMAIN is = 1..Len(is) /\ Len(is) \in Nat
  <2> HIDE DEF is
  <2> QED BY <1>1, LenProperties
<1>3. DOMAIN I = DOMAIN is BY DEF collect_local_imports
<1>4. I = [j \in 1..Len(is) |-> I[j]] BY <1>2, <1>3 DEF collect_local_imports
<1> HIDE DEF I, is
<1>5. I \in Seq({I[j] : j \in 1..Len(is)}) BY <1>2, <1>4
<1>6. DOMAIN I = 1..Len(I) /\ Len(I) \in Nat BY <1>5, LenProperties
<1>7. Imports(p, f) = {e \in Range(I) : Leads(p, e)} BY DEF Imports, I
<1>8. Range(I) = {I[j] : j \in 1..Len(I)} BY <1>6 DEF Range
<1> QED BY <1>6, <1>7, <1>8 DEF I

\* The file itself is marked as visited.
LEMMA SeenIs ==
  ASSUME NEW p, NEW c, NEW t, NEW s, Grounded(p, c, t, s), NEW f \in Reached(p, t),
         NEW z, z = [s EXCEPT !.visited = @ \cup {f}]
  PROVE  /\ Grounded(p, c, t, z) /\ Grows(p, s, z) /\ z.visited = s.visited \cup {f}
         /\ z.order = s.order /\ z.groups = s.groups
<1>1. s \in ResolveState(p) BY DEF Grounded
<1>2. z.visited = s.visited \cup {f} /\ z.order = s.order /\ z.groups = s.groups
  BY <1>1 DEF ResolveState
<1>3. f \in DOMAIN p BY ReachedOn
<1>4. z \in ResolveState(p) BY <1>1, <1>3 DEF ResolveState
<1>5. Grows(p, s, z) BY <1>2 DEF Grows
<1>6. Grounded(p, c, t, z) BY <1>2, <1>4 DEF Grounded
<1> QED BY <1>2, <1>5, <1>6

LEMMA EntryRight ==
  ASSUME NEW p \in Projects, NEW c \in ReadConfigs, NEW t, NEW n \in 1..c.max_depth + 1,
         NEW f \in DOMAIN p, NEW s, CallRight(p, c, t, n, f, s), f \notin s.visited,
         NEW z, z = [s EXCEPT !.visited = @ \cup {f}],
         NEW a, Grounded(p, c, t, a), Grows(p, z, a),
         Endless(p, c) => \A g \in a.visited \ z.visited : Done(p, a, g),
         NEW e \in Imports(p, f)
  PROVE  CallRight(p, c, t, n - 1, e.file, a)
<1>1. /\ Grounded(p, c, t, s) /\ f \in Reached(p, t)
      /\ IF n = c.max_depth + 1 THEN f = t ELSE t \in s.visited
      /\ Endless(p, c) => c.max_depth + 1 - n <= Cardinality(s.visited) /\ Pending(p, s, f)
  BY DEF CallRight
<1>2. c.max_depth \in Nat BY ProjectsAssumption
<1>3. z.visited = s.visited \cup {f} /\ Grows(p, s, z) BY <1>1, SeenIs
<1>4. z.visited \subseteq a.visited /\ Grows(p, s, a) BY <1>3, GrowsOn DEF Grows
<1>5. e.file \in Reached(p, t) /\ e.file \in Follows1(p, f)
  BY <1>1, ReachedOn, ImportsLead
<1>6. n - 1 # c.max_depth + 1 BY <1>2
<1>7. t \in a.visited BY <1>1, <1>3, <1>4
<1>8. ASSUME Endless(p, c) PROVE c.max_depth + 1 - (n - 1) <= Cardinality(a.visited)
  <2>1. a.visited \in SUBSET DOMAIN p BY StateIs DEF Grounded
  <2>2. IsFiniteSet(DOMAIN p) BY ProjectIs
  <2>3. IsFiniteSet(a.visited) BY <2>1, <2>2, FS_Subset
  <2>4. IsFiniteSet(z.visited) /\ Cardinality(z.visited) <= Cardinality(a.visited)
    BY <1>4, <2>3, FS_Subset
  <2>5. IsFiniteSet(s.visited) BY <1>3, <2>4, FS_Subset
  <2>6. Cardinality(z.visited) = Cardinality(s.visited) + 1 BY <1>3, <2>5, FS_AddElement
  <2>7. Cardinality(s.visited) \in Nat /\ Cardinality(a.visited) \in Nat
    BY <2>3, <2>5, FS_CardinalityType
  <2>8. c.max_depth + 1 - n <= Cardinality(s.visited) BY <1>1, <1>8
  <2> DEFINE m == c.max_depth
             x == Cardinality(s.visited)
             y == Cardinality(a.visited)
             v == Cardinality(z.visited)
  <2>9. m \in Nat /\ n \in Nat /\ x \in Nat /\ y \in Nat /\ v = x + 1 /\ v <= y /\ m + 1 - n <= x
    BY <1>2, <2>4, <2>6, <2>7, <2>8
  <2> HIDE DEF m, x, y, v
  <2>10. m + 1 - (n - 1) <= y BY <2>9
  <2> QED BY <2>10 DEF m, y
<1>9. ASSUME Endless(p, c), NEW g \in a.visited PROVE Done(p, a, g) \/ e.file \in Behind(p, g)
  <2>1. CASE g \notin z.visited BY <1>9, <2>1
  <2>2. CASE g = f BY <1>5, <2>2, BehindOn
  <2>3. CASE g \in s.visited
    <3>1. Done(p, s, g) \/ f \in Behind(p, g) BY <1>1, <1>9, <2>3 DEF Pending
    <3>2. Done(p, s, g) => Done(p, a, g) BY <1>4, StillDone
    <3>3. f \in Behind(p, g) => e.file \in Behind(p, g) BY <1>5, BehindOn
    <3> QED BY <3>1, <3>2, <3>3
  <2> QED BY <1>3, <2>1, <2>2, <2>3
<1>10. Endless(p, c) => Pending(p, a, e.file) BY <1>9 DEF Pending
<1> QED BY <1>5, <1>6, <1>7, <1>8, <1>10 DEF CallRight

\* The files an import leads to are walked, and what is visited in them is done.
LEMMA RecurseKeeps ==
  ASSUME NEW p \in Projects, NEW c \in ReadConfigs, NEW t, NEW n \in 1..c.max_depth + 1,
         NEW deeper, LevelRight(p, c, t, n - 1, deeper),
         NEW f \in DOMAIN p, NEW s, CallRight(p, c, t, n, f, s), f \notin s.visited,
         NEW z, z = [s EXCEPT !.visited = @ \cup {f}]
  PROVE  LET a == recurse_into_deps(p, collect_local_imports(p, f), deeper, z)
         IN  /\ Grounded(p, c, t, a) /\ Grows(p, z, a)
             /\ Endless(p, c) => /\ \A g \in a.visited \ z.visited : Done(p, a, g)
                                 /\ \A e \in Imports(p, f) : e.file \in a.visited
<1> DEFINE I == collect_local_imports(p, f)
           m == Len(I)
           one == [i \in DOMAIN I |-> [x \in ResolveState(p) |->
                     IF ~ Leads(p, I[i]) \/ I[i].file \in x.visited THEN x
                     ELSE deeper[I[i].file][x]]]
           So(i, a) ==
             /\ Grounded(p, c, t, a) /\ Grows(p, z, a)
             /\ Endless(p, c) => \A g \in a.visited \ z.visited : Done(p, a, g)
             /\ Endless(p, c) => \A j \in 1..i : Leads(p, I[j]) => I[j].file \in a.visited
           U == [i \in 0..m |-> {a \in ResolveState(p) : So(i, a)}]
           a == recurse_into_deps(p, I, deeper, z)
<1>1. /\ DOMAIN I = 1..m /\ m \in Nat
      /\ \A e : e \in Imports(p, f) <=> \E j \in 1..m : e = I[j] /\ Leads(p, I[j])
  BY ImportsSeq
<1>2. a = InTurn(m, one, z) BY DEF recurse_into_deps
<1>3. \A i \in 1..m : \A x \in ResolveState(p) :
        one[i][x] = IF ~ Leads(p, I[i]) \/ I[i].file \in x.visited THEN x ELSE deeper[I[i].file][x]
  BY <1>1
<1>4. Grounded(p, c, t, s) /\ f \in Reached(p, t) BY DEF CallRight
<1>5. Grounded(p, c, t, z) /\ Grows(p, z, z) BY <1>4, SeenIs DEF Grows
<1> HIDE DEF I, m, one
<1>6. z \in U[0]
  <2>1. So(0, z)
    <3>1. 1..0 = {} OBVIOUS
    <3> QED BY <1>5, <3>1
  <2>2. z \in ResolveState(p) BY <1>5 DEF Grounded
  <2> HIDE DEF So
  <2>3. 0 \in 0..m BY <1>1
  <2> QED BY <2>1, <2>2, <2>3
<1>7. ASSUME NEW i \in 1..m, NEW x \in U[i - 1] PROVE one[i][x] \in U[i]
  <2> DEFINE y == one[i][x]
  <2>1. i \in 0..m /\ i - 1 \in 0..m BY <1>1
  <2>2. x \in ResolveState(p) /\ So(i - 1, x)
    <3> HIDE DEF So
    <3> QED BY <2>1, <1>7
  <2>3. y = IF ~ Leads(p, I[i]) \/ I[i].file \in x.visited THEN x ELSE deeper[I[i].file][x]
    BY <1>3, <2>2
  <2>4. \A j \in 1..i : j \in 1 .. i - 1 \/ j = i BY <1>1
  <2> HIDE DEF y
  <2>5. So(i, y)
    <3>1. CASE ~ Leads(p, I[i])
      <4>1. y = x BY <2>3, <3>1
      <4>2. Endless(p, c) => \A j \in 1..i : Leads(p, I[j]) => I[j].file \in x.visited
        BY <2>2, <2>4, <3>1
      <4> QED BY <2>2, <4>1, <4>2
    <3>2. CASE Leads(p, I[i]) /\ I[i].file \in x.visited
      <4>1. y = x BY <2>3, <3>2
      <4>2. Endless(p, c) => \A j \in 1..i : Leads(p, I[j]) => I[j].file \in x.visited
        BY <2>2, <2>4, <3>2
      <4> QED BY <2>2, <4>1, <4>2
    <3>3. CASE Leads(p, I[i]) /\ I[i].file \notin x.visited
      <4> DEFINE e == I[i]
      <4>1. y = deeper[e.file][x] BY <2>3, <3>3
      <4>2. e \in Imports(p, f) BY <1>1, <3>3
      <4>3. e.file \in DOMAIN p BY <4>2, ImportsLead
      <4>4. CallRight(p, c, t, n - 1, e.file, x)
        <5>1. Grounded(p, c, t, x) /\ Grows(p, z, x) BY <2>2
        <5>2. Endless(p, c) => \A g \in x.visited \ z.visited : Done(p, x, g) BY <2>2
        <5> HIDE DEF e
        <5> QED BY <4>2, <5>1, <5>2, EntryRight
      <4>5. AnswerRight(p, c, t, e.file, x, y)
        <5> HIDE DEF e
        <5> QED BY <2>2, <4>1, <4>3, <4>4 DEF LevelRight
      <4>6. Grounded(p, c, t, y) /\ Grows(p, x, y) BY <4>5 DEF AnswerRight
      <4>7. Grows(p, z, y) BY <2>2, <4>6, GrowsOn
      <4>8. ASSUME Endless(p, c), NEW g \in y.visited \ z.visited PROVE Done(p, y, g)
        <5>1. CASE g \in x.visited
          <6>1. Done(p, x, g) BY <2>2, <4>8, <5>1
          <6> QED BY <4>6, <6>1, StillDone
        <5>2. CASE g \notin x.visited BY <4>5, <4>8, <5>2 DEF AnswerRight
        <5> QED BY <5>1, <5>2
      <4>9. ASSUME Endless(p, c), NEW j \in 1..i, Leads(p, I[j]) PROVE I[j].file \in y.visited
        <5>1. CASE j \in 1 .. i - 1
          <6>1. I[j].file \in x.visited BY <2>2, <4>9, <5>1
          <6> QED BY <4>6, <6>1 DEF Grows
        <5>2. CASE j = i BY <4>5, <4>9, <5>2 DEF AnswerRight
        <5> QED BY <2>4, <5>1, <5>2
      <4> QED BY <4>6, <4>7, <4>8, <4>9
    <3> QED BY <3>1, <3>2, <3>3
  <2>6. y \in ResolveState(p) BY <2>5 DEF Grounded
  <2> HIDE DEF So
  <2>7. y \in U[i] BY <2>1, <2>5, <2>6
  <2> QED BY <2>7 DEF y
<1> HIDE DEF U
<1>8. InTurn(m, one, z) \in U[m] BY <1>1, <1>6, <1>7, InTurnKept
<1>9. So(m, a)
  <2>1. m \in 0..m BY <1>1
  <2> HIDE DEF So, a
  <2> QED BY <1>2, <1>8, <2>1 DEF U
<1>10. Endless(p, c) => \A e \in Imports(p, f) : e.file \in a.visited BY <1>1, <1>9
<1> QED BY <1>9, <1>10 DEF I

\* What one import asks for is added.
LEMMA EntryAdds ==
  ASSUME NEW p \in Projects, NEW c, NEW t, NEW x, Grounded(p, c, t, x),
         NEW f \in Reached(p, t), NEW e \in Imports(p, f), NEW mode,
         \A y : (y.form = "signature" => mode = "signatures") /\ (y.form = "body" => mode # "signatures")
                  => FormFits(p, c, t, e.file, y),
         Endless(p, c) /\ Acyclic(p, t) => Follows1(p, e.file) \subseteq Range(x.order)
  PROVE  LET r == AddSymbols(x, e.file, SymbolsOf(p, e, mode))
         IN  Grounded(p, c, t, r) /\ Grows(p, x, r) /\ r.visited = x.visited /\ Listed1(p, r, e)
<1> DEFINE d == e.file
           y == SymbolsOf(p, e, mode)
           r == AddSymbols(x, d, y)
<1>1. d \in DOMAIN p BY ImportsLead
<1>2. /\ y \in Seq(Symbols(p))
      /\ Names(Range(y)) = Defined(p, d) \cap NamesOf(p, e)
      /\ \A v \in Range(y) : v.form = "signature" => mode = "signatures"
      /\ \A v \in Range(y) : v.form = "body" => mode # "signatures"
  BY <1>1, ExtractIs DEF SymbolsOf, NamesOf
<1>3. /\ x \in ResolveState(p) /\ Once(x.order) /\ x.visited \subseteq Reached(p, t)
      /\ \A g \in DOMAIN p : Names(Range(x.groups[g])) \subseteq Defined(p, g) \cap Wanted(p, t, g)
      /\ \A g \in DOMAIN p : \A v \in Range(x.groups[g]) : FormFits(p, c, t, g, v)
      /\ Endless(p, c) /\ Acyclic(p, t) => Ordered(p, x.order)
  BY DEF Grounded
<1>4. /\ r \in ResolveState(p) /\ r.visited = x.visited
      /\ Range(r.order) = Range(x.order) \cup {d}
      /\ Once(x.order) => Once(r.order)
      /\ Ordered(p, x.order) /\ (d \in Range(x.order) \/ Follows1(p, d) \subseteq Range(x.order))
           => Ordered(p, r.order)
      /\ Range(r.groups[d]) = Range(x.groups[d]) \cup Range(y)
      /\ \A g \in DOMAIN p : g # d => r.groups[g] = x.groups[g]
  <2>1. d \in DOMAIN p /\ y \in Seq(Symbols(p)) /\ x \in ResolveState(p) BY <1>1, <1>2, <1>3
  <2> HIDE DEF d, y
  <2>2. AddedTo(p, x, d, y, r) BY <2>1, AddSymbolsIs
  <2> QED BY <2>2 DEF AddedTo
<1>5. NamesOf(p, e) \subseteq Wanted(p, t, d) BY WantedBy
<1>6. \A v \in Range(y) : FormFits(p, c, t, d, v)
  <2> HIDE DEF y
  <2> QED BY <1>2
<1>7. Endless(p, c) /\ Acyclic(p, t) => Follows1(p, d) \subseteq Range(x.order) OBVIOUS
<1> HIDE DEF d, y, r
<1>8. Names(Range(r.groups[d])) = Names(Range(x.groups[d])) \cup Names(Range(y)) BY <1>4 DEF Names
<1>9. ASSUME NEW g \in DOMAIN p
      PROVE  /\ Names(Range(r.groups[g])) \subseteq Defined(p, g) \cap Wanted(p, t, g)
             /\ \A v \in Range(r.groups[g]) : FormFits(p, c, t, g, v)
             /\ Range(x.groups[g]) \subseteq Range(r.groups[g])
  <2>1. CASE g = d
    <3>1. Names(Range(r.groups[d])) \subseteq Defined(p, d) \cap Wanted(p, t, d)
      BY <1>1, <1>2, <1>3, <1>5, <1>8
    <3>2. \A v \in Range(r.groups[d]) : FormFits(p, c, t, d, v) BY <1>1, <1>3, <1>4, <1>6
    <3> QED BY <2>1, <3>1, <3>2, <1>4
  <2>2. CASE g # d BY <2>2, <1>3, <1>4
  <2> QED BY <2>1, <2>2
<1>10. Grounded(p, c, t, r) BY <1>3, <1>4, <1>7, <1>9 DEF Grounded
<1>11. Grows(p, x, r) BY <1>4, <1>9 DEF Grows
<1>12. Listed1(p, r, e) BY <1>2, <1>4, <1>8 DEF Listed1, d
<1> QED BY <1>4, <1>10, <1>11, <1>12 DEF r, d, y

\* Every import is listed, behind the files it rests on.
LEMMA ExtractKeeps ==
  ASSUME NEW p \in Projects, NEW c, NEW t, NEW a, Grounded(p, c, t, a),
         NEW f \in Reached(p, t), NEW mode,
         \A e \in Imports(p, f) : \A y :
           (y.form = "signature" => mode = "signatures") /\ (y.form = "body" => mode # "signatures")
             => FormFits(p, c, t, e.file, y),
         \A e \in Imports(p, f) :
           Endless(p, c) /\ Acyclic(p, t) => Follows1(p, e.file) \subseteq Range(a.order)
  PROVE  LET b == extract_from_deps(p, collect_local_imports(p, f), mode, a)
         IN  /\ Grounded(p, c, t, b) /\ Grows(p, a, b) /\ b.visited = a.visited
             /\ \A e \in Imports(p, f) : Listed1(p, b, e)
<1> DEFINE I == collect_local_imports(p, f)
           m == Len(I)
           one == [i \in DOMAIN I |-> [x \in ResolveState(p) |->
                     IF ~ Leads(p, I[i]) THEN x
                     ELSE AddSymbols(x, I[i].file, SymbolsOf(p, I[i], mode))]]
           So(i, x) ==
             /\ Grounded(p, c, t, x) /\ Grows(p, a, x) /\ x.visited = a.visited
             /\ \A j \in 1..i : Leads(p, I[j]) => Listed1(p, x, I[j])
           U == [i \in 0..m |-> {x \in ResolveState(p) : So(i, x)}]
           b == extract_from_deps(p, I, mode, a)
<1>1. /\ DOMAIN I = 1..m /\ m \in Nat
      /\ \A e : e \in Imports(p, f) <=> \E j \in 1..m : e = I[j] /\ Leads(p, I[j])
  <2>1. f \in DOMAIN p BY ReachedOn
  <2> QED BY <2>1, ImportsSeq
<1>2. b = InTurn(m, one, a) BY DEF extract_from_deps
<1>3. \A i \in 1..m : \A x \in ResolveState(p) :
        one[i][x] = IF ~ Leads(p, I[i]) THEN x
                    ELSE AddSymbols(x, I[i].file, SymbolsOf(p, I[i], mode))
  BY <1>1
<1> HIDE DEF I, m, one
<1>4. a \in U[0]
  <2>1. So(0, a)
    <3>1. 1..0 = {} OBVIOUS
    <3>2. Grows(p, a, a) BY DEF Grows
    <3> QED BY <3>1, <3>2
  <2>2. a \in ResolveState(p) BY DEF Grounded
  <2> HIDE DEF So
  <2>3. 0 \in 0..m BY <1>1
  <2> QED BY <2>1, <2>2, <2>3
<1>5. ASSUME NEW i \in 1..m, NEW x \in U[i - 1] PROVE one[i][x] \in U[i]
  <2> DEFINE y == one[i][x]
             e == I[i]
  <2>1. i \in 0..m /\ i - 1 \in 0..m BY <1>1
  <2>2. x \in ResolveState(p) /\ So(i - 1, x)
    <3> HIDE DEF So
    <3> QED BY <2>1, <1>5
  <2>3. y = IF ~ Leads(p, e) THEN x ELSE AddSymbols(x, e.file, SymbolsOf(p, e, mode))
    BY <1>3, <2>2
  <2>4. \A j \in 1..i : j \in 1 .. i - 1 \/ j = i BY <1>1
  <2> HIDE DEF y
  <2>5. So(i, y)
    <3>1. CASE ~ Leads(p, e)
      <4>1. y = x BY <2>3, <3>1
      <4>2. \A j \in 1..i : Leads(p, I[j]) => Listed1(p, x, I[j]) BY <2>2, <2>4, <3>1
      <4> QED BY <2>2, <4>1, <4>2
    <3>2. CASE Leads(p, e)
      <4>1. y = AddSymbols(x, e.file, SymbolsOf(p, e, mode)) BY <2>3, <3>2
      <4>2. e \in Imports(p, f) BY <1>1, <3>2
      <4>3. Endless(p, c) /\ Acyclic(p, t) => Follows1(p, e.file) \subseteq Range(x.order)
        <5>1. Range(a.order) \subseteq Range(x.order) BY <2>2 DEF Grows
        <5> QED BY <4>2, <5>1
      <4>4. \A v : (v.form = "signature" => mode = "signatures") /\ (v.form = "body" => mode # "signatures")
                     => FormFits(p, c, t, e.file, v)
        BY <4>2
      <4>5. Grounded(p, c, t, x) /\ Grows(p, a, x) /\ x.visited = a.visited BY <2>2
      <4> HIDE DEF e
      <4>6. Grounded(p, c, t, y) /\ Grows(p, x, y) /\ y.visited = x.visited /\ Listed1(p, y, e)
        BY <4>1, <4>2, <4>3, <4>4, <4>5, EntryAdds
      <4>7. Grows(p, a, y) BY <4>5, <4>6, GrowsOn
      <4>8. ASSUME NEW j \in 1..i, Leads(p, I[j]) PROVE Listed1(p, y, I[j])
        <5>1. CASE j \in 1 .. i - 1
          <6>1. Listed1(p, x, I[j]) BY <2>2, <4>8, <5>1
          <6>2. I[j].file \in DOMAIN p BY <4>8 DEF Leads, Readable, IsFile
          <6> QED BY <4>6, <6>1, <6>2, StillListed
        <5>2. CASE j = i BY <4>6, <5>2 DEF e
        <5> QED BY <2>4, <5>1, <5>2
      <4> QED BY <4>5, <4>6, <4>7, <4>8
    <3> QED BY <3>1, <3>2
  <2>6. y \in ResolveState(p) BY <2>5 DEF Grounded
  <2> HIDE DEF So
  <2>7. y \in U[i] BY <2>1, <2>5, <2>6
  <2> QED BY <2>7 DEF y
<1> HIDE DEF U
<1>6. InTurn(m, one, a) \in U[m] BY <1>1, <1>4, <1>5, InTurnKept
<1>7. So(m, b)
  <2>1. m \in 0..m BY <1>1
  <2> HIDE DEF So, b
  <2> QED BY <1>2, <1>6, <2>1 DEF U
<1>8. \A e \in Imports(p, f) : Listed1(p, b, e) BY <1>1, <1>7
<1> QED BY <1>7, <1>8 DEF I

\* A call as it should be is answered as it should be.
LEMMA WalkRight ==
  ASSUME NEW p \in Projects, NEW c \in ReadConfigs, NEW t, NEW n \in 0..c.max_depth + 1,
         NEW deeper, n # 0 => LevelRight(p, c, t, n - 1, deeper),
         NEW f \in DOMAIN p, NEW s, CallRight(p, c, t, n, f, s)
  PROVE  AnswerRight(p, c, t, f, s, walk_file(p, c, f, c.max_depth + 1 - n, deeper, s))
<1> DEFINE r == walk_file(p, c, f, c.max_depth + 1 - n, deeper, s)
           depth == c.max_depth + 1 - n
           z == [s EXCEPT !.visited = @ \cup {f}]
           I == collect_local_imports(p, f)
           mode == EffectiveMode(c.mode, depth)
           a == recurse_into_deps(p, I, deeper, z)
           b == extract_from_deps(p, I, mode, a)
<1>1. /\ Grounded(p, c, t, s) /\ f \in Reached(p, t)
      /\ IF n = c.max_depth + 1 THEN f = t ELSE t \in s.visited
      /\ Endless(p, c) => c.max_depth + 1 - n <= Cardinality(s.visited) /\ Pending(p, s, f)
  BY DEF CallRight
<1>2. c.max_depth \in Nat BY ProjectsAssumption
<1>3. Grows(p, s, s) BY DEF Grows
<1>4. r = IF depth > c.max_depth \/ f \in s.visited THEN s ELSE b BY DEF walk_file
<1> HIDE DEF r, b, a, I, z
<1>5. CASE f \in s.visited
  <2>1. r = s BY <1>4, <1>5
  <2>2. AnswerRight(p, c, t, f, s, s) BY <1>1, <1>3, <1>5 DEF AnswerRight
  <2> QED BY <2>1, <2>2 DEF r
<1>6. CASE n = 0
  <2>1. depth > c.max_depth BY <1>2, <1>6
  <2>2. r = s BY <1>4, <2>1
  <2>3. ~ Endless(p, c)
    <3>1. SUFFICES ASSUME Endless(p, c) PROVE FALSE OBVIOUS
    <3>2. IsFiniteSet(DOMAIN p) BY ProjectIs
    <3>3. s.visited \in SUBSET DOMAIN p BY <1>1, StateIs DEF Grounded
    <3>4. Cardinality(s.visited) <= Cardinality(DOMAIN p) BY <3>2, <3>3, FS_Subset
    <3>5. c.max_depth + 1 <= Cardinality(s.visited) BY <1>1, <1>2, <1>6, <3>1
    <3>6. Cardinality(s.visited) \in Nat /\ Cardinality(DOMAIN p) \in Nat
      BY <3>2, <3>3, FS_Subset, FS_CardinalityType
    <3> QED BY <1>2, <3>1, <3>4, <3>5, <3>6 DEF Endless
  <2>4. AnswerRight(p, c, t, f, s, s) BY <1>1, <1>3, <2>3 DEF AnswerRight
  <2> QED BY <2>2, <2>4 DEF r
<1>7. CASE n # 0 /\ f \notin s.visited
  <2>1. n \in 1..c.max_depth + 1 /\ depth \in Nat /\ ~(depth > c.max_depth) BY <1>2, <1>7
  <2>2. r = b BY <1>4, <1>7, <2>1
  <2>3. /\ Grounded(p, c, t, z) /\ Grows(p, s, z) /\ z.visited = s.visited \cup {f}
        /\ z.order = s.order
    BY <1>1, SeenIs DEF z
  <2>4. /\ Grounded(p, c, t, a) /\ Grows(p, z, a)
        /\ Endless(p, c) => /\ \A g \in a.visited \ z.visited : Done(p, a, g)
                            /\ \A e \in Imports(p, f) : e.file \in a.visited
    BY <1>7, <2>1, RecurseKeeps DEF a, I, z
  <2>5. Grows(p, s, a) BY <2>3, <2>4, GrowsOn
  <2>6. ASSUME NEW e \in Imports(p, f), NEW y,
               y.form = "signature" => mode = "signatures", y.form = "body" => mode # "signatures"
        PROVE  FormFits(p, c, t, e.file, y)
    <3>1. e.file \in Follows1(p, f) BY ImportsLead
    <3>2. SUFFICES ASSUME c.mode = "hybrid"
                   PROVE  /\ e.file \notin UNION {Follows1(p, g) : g \in Reached(p, t) \ {t}} => y.form # "signature"
                          /\ e.file \notin Follows1(p, t) => y.form # "body"
      BY DEF FormFits
    <3>3. CASE n = c.max_depth + 1
      <4>1. f = t /\ ~(depth > 0) BY <1>1, <1>2, <3>3
      <4>2. mode # "signatures" BY <3>2, <4>1 DEF EffectiveMode
      <4> QED BY <2>6, <3>1, <4>1, <4>2
    <3>4. CASE n # c.max_depth + 1
      <4>1. f # t /\ depth > 0 BY <1>1, <1>2, <1>7, <2>1, <3>4
      <4>2. mode = "signatures" BY <3>2, <4>1 DEF EffectiveMode
      <4>3. e.file \in UNION {Follows1(p, g) : g \in Reached(p, t) \ {t}} BY <1>1, <3>1, <4>1
      <4> QED BY <2>6, <4>2, <4>3
    <3> QED BY <3>3, <3>4
  <2>7. ASSUME NEW e \in Imports(p, f), Endless(p, c), Acyclic(p, t)
        PROVE  Follows1(p, e.file) \subseteq Range(a.order)
    <3>1. e.file \in a.visited /\ e.file \in Follows1(p, f) BY <2>4, <2>7, ImportsLead
    <3>2. f \notin Behind(p, f) /\ e.file \notin Behind(p, e.file)
      <4>1. e.file \in Reached(p, t) BY <1>1, <3>1, ReachedOn
      <4> QED BY <1>1, <2>7, <4>1 DEF Acyclic
    <3>3. Done(p, a, e.file)
      <4>1. CASE e.file \notin z.visited BY <2>4, <2>7, <3>1, <4>1
      <4>2. CASE e.file = f
        <5>1. f \in Behind(p, f) BY <3>1, <4>2, BehindOn
        <5> QED BY <3>2, <5>1
      <4>3. CASE e.file \in s.visited
        <5>1. Done(p, s, e.file) \/ f \in Behind(p, e.file) BY <1>1, <2>7, <4>3 DEF Pending
        <5>2. f \notin Behind(p, e.file) BY <3>1, <3>2, BehindOn
        <5> QED BY <2>5, <5>1, <5>2, StillDone
      <4> QED BY <2>3, <4>1, <4>2, <4>3
    <3> QED BY <3>3, DoneLists
  <2>8. /\ Grounded(p, c, t, b) /\ Grows(p, a, b) /\ b.visited = a.visited
        /\ \A e \in Imports(p, f) : Listed1(p, b, e)
    <3>1. \A e \in Imports(p, f) : \A y :
            (y.form = "signature" => mode = "signatures") /\ (y.form = "body" => mode # "signatures")
              => FormFits(p, c, t, e.file, y)
      <4> HIDE DEF mode
      <4> QED BY <2>6
    <3>2. \A e \in Imports(p, f) :
            Endless(p, c) /\ Acyclic(p, t) => Follows1(p, e.file) \subseteq Range(a.order)
      BY <2>7
    <3> HIDE DEF mode
    <3> QED BY <1>1, <2>4, <3>1, <3>2, ExtractKeeps DEF b, I
  <2>9. Grows(p, s, b) BY <2>5, <2>8, GrowsOn
  <2>10. ASSUME Endless(p, c), NEW g \in b.visited \ s.visited PROVE Done(p, b, g)
    <3>1. CASE g = f
      <4>1. \A e \in Imports(p, f) : e.file \in b.visited BY <2>4, <2>8, <2>10
      <4> QED BY <2>8, <3>1, <4>1 DEF Done
    <3>2. CASE g # f
      <4>1. g \in a.visited \ z.visited BY <2>3, <2>8, <2>10, <3>2
      <4>2. Done(p, a, g) BY <2>4, <2>10, <4>1
      <4> QED BY <2>8, <4>2, StillDone
    <3> QED BY <3>1, <3>2
  <2>11. f \in b.visited BY <2>3, <2>4, <2>8 DEF Grows
  <2>12. AnswerRight(p, c, t, f, s, b) BY <2>8, <2>9, <2>10, <2>11 DEF AnswerRight
  <2> QED BY <2>2, <2>12 DEF r
<1> QED BY <1>5, <1>6, <1>7

-----------------------------------------------------------------------------
(* Dependencies: what is shown                                             *)

\* The walk from the target: if the depth is no limit, all that is reached is done.
LEMMA WalkedIs ==
  ASSUME NEW p \in Projects, NEW c \in ReadConfigs, NEW t \in DOMAIN p
  PROVE  LET r == Walk(p, c)[t][NothingSeen(p)]
         IN  /\ Grounded(p, c, t, r)
             /\ Endless(p, c) => \A f \in Reached(p, t) : Done(p, r, f)
<1> DEFINE s == NothingSeen(p)
           n == c.max_depth + 1
           r == Walk(p, c)[t][s]
<1>1. c.max_depth \in Nat BY ProjectsAssumption
<1>2. ASSUME NEW k \in 0..n, NEW deeper, k # 0 => LevelRight(p, c, t, k - 1, deeper)
      PROVE  LevelRight(p, c, t, k, LevelAt(p, c, k, deeper))
  <2>1. SUFFICES ASSUME NEW f \in DOMAIN p, NEW x \in ResolveState(p), CallRight(p, c, t, k, f, x)
                 PROVE  AnswerRight(p, c, t, f, x, LevelAt(p, c, k, deeper)[f][x])
    BY DEF LevelRight
  <2> DEFINE w == IF k = 0 THEN <<>> ELSE deeper
  <2>2. LevelAt(p, c, k, deeper)[f][x] = walk_file(p, c, f, c.max_depth + 1 - k, w, x)
    BY DEF LevelAt
  <2>3. k # 0 => LevelRight(p, c, t, k - 1, w) BY <1>2
  <2> HIDE DEF w
  <2>4. AnswerRight(p, c, t, f, x, walk_file(p, c, f, c.max_depth + 1 - k, w, x))
    BY <2>1, <2>3, WalkRight
  <2> QED BY <2>2, <2>4
<1>3. LevelRight(p, c, t, n, Walk(p, c))
  <2>1. \A deeper : LevelRight(p, c, t, 0, LevelAt(p, c, 0, deeper))
    <3>1. 0 \in 0..n BY <1>1
    <3> HIDE DEF n
    <3> QED BY <1>2, <3>1
  <2>2. \A k \in 1..c.max_depth + 1 : \A deeper :
          LevelRight(p, c, t, k - 1, deeper) => LevelRight(p, c, t, k, LevelAt(p, c, k, deeper))
    <3>1. \A k \in 1..n : k \in 0..n /\ k # 0 BY <1>1
    <3> QED BY <1>2, <3>1
  <2> QED BY <1>1, <2>1, <2>2, WalkKept
<1>4. /\ s.visited = {} /\ s.order = <<>> /\ s.groups = [f \in DOMAIN p |-> <<>>]
      /\ s \in ResolveState(p)
  <2>1. <<>> \in Seq(DOMAIN p) /\ [f \in DOMAIN p |-> <<>>] \in [DOMAIN p -> Seq(Symbols(p))]
    OBVIOUS
  <2> QED BY <2>1, StateOf DEF NothingSeen
<1>5. \A d \in DOMAIN p : Range(s.groups[d]) = {} BY <1>4 DEF Range
<1> HIDE DEF s
<1>6. Grounded(p, c, t, s)
  <2>1. Once(s.order) /\ Ordered(p, s.order) BY <1>4 DEF Once, Ordered
  <2>2. \A d \in DOMAIN p : Names(Range(s.groups[d])) = {} BY <1>5 DEF Names
  <2> QED BY <1>4, <1>5, <2>1, <2>2 DEF Grounded
<1>7. t \in Reached(p, t) BY DEF Reached
<1>8. CallRight(p, c, t, n, t, s)
  <2>1. Cardinality(s.visited) = 0 BY <1>4, FS_EmptySet
  <2>2. c.max_depth + 1 - n = 0 BY <1>1
  <2>3. Pending(p, s, t) BY <1>4 DEF Pending
  <2> QED BY <1>6, <1>7, <2>1, <2>2, <2>3 DEF CallRight
<1>9. AnswerRight(p, c, t, t, s, r)
  <2> HIDE DEF n
  <2> QED BY <1>3, <1>4, <1>8 DEF LevelRight
<1> HIDE DEF r
<1>10. Grounded(p, c, t, r) BY <1>9 DEF AnswerRight
<1>11. ASSUME Endless(p, c) PROVE \A f \in Reached(p, t) : Done(p, r, f)
  <2>1. t \in r.visited /\ \A g \in r.visited : Done(p, r, g) BY <1>4, <1>9, <1>11 DEF AnswerRight
  <2>2. r.visited \in SUBSET DOMAIN p BY <1>10, StateIs DEF Grounded
  <2>3. \A g \in r.visited : Follows1(p, g) \subseteq r.visited BY <2>1 DEF Done, Follows1
  <2>4. Reached(p, t) \subseteq r.visited BY <2>1, <2>2, <2>3, ReachedLeast
  <2> QED BY <2>1, <2>4
<1> QED BY <1>10, <1>11 DEF r, s

ShownRight(p, c, t, groups) ==
  /\ NothingTwice(groups)
  /\ NothingElse(p, t, groups)
  /\ c.mode = "hybrid" => AsFarAs(p, t, groups)
  /\ Endless(p, c) =>
        /\ Everything(p, t, groups)
        /\ Acyclic(p, t) => BeforeUse(p, groups)

LEMMA ResolvedIs ==
  ASSUME NEW p \in Projects, NEW c \in ReadConfigs, NEW t \in DOMAIN p
  PROVE  ShownRight(p, c, t, resolve_dependencies(p, c, t))
<1> DEFINE r == Walk(p, c)[t][NothingSeen(p)]
           o == r.order
           P == {i \in DOMAIN o : r.groups[o[i]] # <<>>}
           e == ElementsAt(o, P)
           G == resolve_dependencies(p, c, t)
<1>1. /\ Grounded(p, c, t, r)
      /\ Endless(p, c) => \A f \in Reached(p, t) : Done(p, r, f)
  BY WalkedIs
<1>2. DOMAIN G = DOMAIN e /\ \A i \in DOMAIN e : G[i] = [file |-> e[i], symbols |-> dedup_groups(r.groups[e[i]])]
  BY DEF resolve_dependencies
<1>3. \A i \in P : i \in DOMAIN o /\ r.groups[o[i]] # <<>> OBVIOUS
<1>4. \A i \in DOMAIN o : r.groups[o[i]] # <<>> => i \in P OBVIOUS
<1> HIDE DEF r, P, G
<1>5. /\ r \in ResolveState(p) /\ Once(o)
      /\ \A d \in DOMAIN p : Names(Range(r.groups[d])) \subseteq Defined(p, d) \cap Wanted(p, t, d)
      /\ \A d \in DOMAIN p : \A x \in Range(r.groups[d]) : FormFits(p, c, t, d, x)
      /\ Endless(p, c) /\ Acyclic(p, t) => Ordered(p, o)
  BY <1>1 DEF Grounded
<1>6. /\ o \in Seq(DOMAIN p) /\ r.groups \in [DOMAIN p -> Seq(Symbols(p))]
      /\ DOMAIN o = 1..Len(o) /\ Len(o) \in Nat /\ \A i \in DOMAIN o : o[i] \in DOMAIN p
  BY <1>5, StateIs DEF Range
<1>7. PICK h : PlacesOf(h, o, P) BY <1>6, ElementsAtOrder
<1>8. /\ \A i \in DOMAIN e : h[i] \in P /\ h[i] \in DOMAIN o /\ e[i] = o[h[i]]
      /\ \A i, j \in DOMAIN e : i < j => h[i] < h[j]
  BY <1>7 DEF PlacesOf
<1>9. e \in Seq(DOMAIN p) /\ Range(e) = {o[i] : i \in P \cap DOMAIN o}
  BY <1>6, ElementsAtType, ElementsAtRange
<1> HIDE DEF e
<1>10. DOMAIN e = 1..Len(e) /\ Len(e) \in Nat BY <1>9, LenProperties
<1>11. \A i, j \in DOMAIN e : h[i] = h[j] => i = j
  <2>1. ASSUME NEW i \in DOMAIN e, NEW j \in DOMAIN e, h[i] = h[j] PROVE i = j
    <3>1. h[i] \in Nat /\ h[j] \in Nat BY <1>6, <1>8
    <3>2. ~(i < j) /\ ~(j < i) BY <1>8, <2>1, <3>1
    <3> QED BY <1>10, <3>2
  <2> QED BY <2>1
<1>12. \A i \in DOMAIN e : e[i] \in DOMAIN p BY <1>6, <1>8
<1>13. ASSUME NEW i \in DOMAIN e
       PROVE  LET y == G[i].symbols
                  d == e[i]
              IN  /\ G[i].file = d
                  /\ Range(y) \subseteq Range(r.groups[d]) /\ Names(Range(y)) = Names(Range(r.groups[d]))
                  /\ \A k, l \in DOMAIN y : y[k].name = y[l].name => k = l
  <2>1. G[i].file = e[i] /\ G[i].symbols = dedup_groups(r.groups[e[i]]) BY <1>2
  <2>2. r.groups[e[i]] \in Seq(Symbols(p)) BY <1>6, <1>12
  <2> QED BY <2>1, <2>2, DedupKeeps
<1>14. Range(G) = {G[i] : i \in DOMAIN e} BY <1>2 DEF Range
<1>15. NothingTwice(G)
  <2>1. ASSUME NEW i \in DOMAIN e, NEW j \in DOMAIN e, G[i].file = G[j].file PROVE i = j
    <3>1. o[h[i]] = o[h[j]] BY <1>8, <1>13, <2>1
    <3>2. h[i] = h[j] BY <1>5, <1>8, <3>1 DEF Once
    <3> QED BY <1>11, <3>2
  <2> QED BY <1>2, <1>13, <1>14, <2>1 DEF NothingTwice
<1>16. NothingElse(p, t, G) BY <1>5, <1>12, <1>13, <1>14 DEF NothingElse
<1>17. ASSUME c.mode = "hybrid" PROVE AsFarAs(p, t, G)
  <2>1. ASSUME NEW i \in DOMAIN e, NEW x \in Range(G[i].symbols)
        PROVE  /\ G[i].file \notin UNION {Follows1(p, f) : f \in Reached(p, t) \ {t}} => x.form # "signature"
               /\ G[i].file \notin Follows1(p, t) => x.form # "body"
    <3>1. x \in Range(r.groups[e[i]]) /\ G[i].file = e[i] BY <1>13
    <3>2. FormFits(p, c, t, e[i], x) BY <1>5, <1>12, <3>1
    <3> QED BY <1>17, <3>1, <3>2 DEF FormFits
  <2> QED BY <1>14, <2>1 DEF AsFarAs
<1>18. ASSUME Endless(p, c) PROVE Everything(p, t, G)
  <2>1. SUFFICES ASSUME NEW f \in Reached(p, t), NEW d \in Follows1(p, f)
                 PROVE  Names(Shown(G, d)) = Defined(p, d) \cap Wanted(p, t, d)
    BY DEF Everything
  <2>2. d \in DOMAIN p BY FollowsAre
  <2>3. ASSUME NEW n \in Names(Shown(G, d)) PROVE n \in Defined(p, d) \cap Wanted(p, t, d)
    <3>1. PICK x \in Shown(G, d) : n = x.name BY <2>3 DEF Names
    <3>2. PICK g \in Range(G) : g.file = d /\ x \in Range(g.symbols) BY <3>1 DEF Shown
    <3>3. n \in Names(Range(g.symbols)) BY <3>1, <3>2 DEF Names
    <3> QED BY <1>16, <3>2, <3>3 DEF NothingElse
  <2>4. ASSUME NEW n \in Defined(p, d) \cap Wanted(p, t, d) PROVE n \in Names(Shown(G, d))
    <3>0. PICK q \in Reached(p, t) : \E u \in Imports(p, q) : u.file = d /\ n \in NamesOf(p, u)
      BY <2>4 DEF Wanted, NamesOf
    <3>1. PICK u \in Imports(p, q) : u.file = d /\ n \in NamesOf(p, u) BY <3>0
    <3>2. Done(p, r, q) BY <1>1, <1>18
    <3>3. d \in Range(o) /\ n \in Names(Range(r.groups[d])) BY <2>4, <3>1, <3>2 DEF Done, Listed1
    <3>4. PICK k \in DOMAIN o : o[k] = d BY <3>3 DEF Range
    <3>5. r.groups[d] # <<>>
      <4>1. Range(r.groups[d]) # {} BY <3>3 DEF Names
      <4>2. r.groups[d] = <<>> => Range(r.groups[d]) = {} BY DEF Range
      <4> QED BY <4>1, <4>2
    <3>6. k \in P BY <1>4, <3>4, <3>5
    <3>7. d \in Range(e) BY <1>9, <3>4, <3>6
    <3>8. PICK i \in DOMAIN e : e[i] = d BY <3>7 DEF Range
    <3>9. n \in Names(Range(G[i].symbols)) /\ G[i].file = d BY <1>13, <3>3, <3>8
    <3>10. G[i] \in Range(G) BY <1>14
    <3> QED BY <3>9, <3>10 DEF Names, Shown
  <2> QED BY <2>3, <2>4
<1>19. ASSUME Endless(p, c), Acyclic(p, t) PROVE BeforeUse(p, G)
  <2>1. ASSUME NEW i \in DOMAIN e, NEW j \in DOMAIN e, e[j] \in Follows1(p, e[i]) PROVE j < i
    <3>1. Ordered(p, o) BY <1>5, <1>19
    <3>2. h[i] \in DOMAIN o /\ h[j] \in DOMAIN o /\ e[i] = o[h[i]] /\ e[j] = o[h[j]] BY <1>8
    <3>3. PICK k \in DOMAIN o : k < h[i] /\ o[k] = e[j] BY <2>1, <3>1, <3>2 DEF Ordered
    <3>4. k = h[j] BY <1>5, <3>2, <3>3 DEF Once
    <3>5. h[j] < h[i] /\ h[i] \in Nat /\ h[j] \in Nat BY <1>6, <3>2, <3>3, <3>4
    <3>6. ~(i < j) /\ i # j BY <1>8, <3>5
    <3> QED BY <1>10, <3>6
  <2>2. \A i \in DOMAIN e : G[i].file = e[i] BY <1>13
  <2> QED BY <1>2, <2>1, <2>2 DEF BeforeUse
<1> QED BY <1>15, <1>16, <1>17, <1>18, <1>19 DEF ShownRight, G

-----------------------------------------------------------------------------
(* Dependencies: the session *)

\* What is shown is what the walk from the file finds.
DepsInv ==
  /\ project \in Projects /\ readConfig \in ReadConfigs
  /\ injected # Nothing =>
       /\ target \in DOMAIN project
       /\ injected = resolve_dependencies(project, readConfig, target)

LEMMA DepsInvStep == DepsInv /\ [DepsNext]_depsVars => DepsInv'
<1> SUFFICES ASSUME DepsInv, [DepsNext]_depsVars PROVE DepsInv' OBVIOUS
<1>1. CASE resolve_context
  <2>1. project' = project /\ readConfig' = readConfig /\ target' = target
    BY <1>1 DEF resolve_context
  <2>2. CASE Readable(project, target)
    <3>1. injected' = render_injection(resolve_dependencies(project, readConfig, target))
      BY <1>1, <2>2 DEF resolve_context
    <3>2. target \in DOMAIN project BY <2>2 DEF Readable, IsFile
    <3>3. injected' # Nothing => injected' = resolve_dependencies(project, readConfig, target)
      BY <3>1 DEF render_injection
    <3> QED BY <2>1, <3>2, <3>3 DEF DepsInv
  <2>3. CASE ~ Readable(project, target)
    <3>1. injected' = Nothing BY <1>1, <2>3 DEF resolve_context
    <3> QED BY <2>1, <3>1 DEF DepsInv
  <2> QED BY <2>2, <2>3
<1>2. CASE AnotherFile BY <1>2 DEF AnotherFile, DepsInv
<1>3. CASE UNCHANGED depsVars BY <1>3 DEF depsVars, DepsInv
<1> QED BY <1>1, <1>2, <1>3 DEF DepsNext

LEMMA DepsInvShows == DepsInv => DependenciesShown
<1> SUFFICES ASSUME DepsInv, injected # Nothing
             PROVE  ShownRight(project, readConfig, target, injected)
  BY DEF DependenciesShown, ShownRight, Endless, Acyclic
<1>1. /\ project \in Projects /\ readConfig \in ReadConfigs /\ target \in DOMAIN project
      /\ injected = resolve_dependencies(project, readConfig, target)
  BY DEF DepsInv
<1> QED BY <1>1, ResolvedIs

\* What hook_post_llm_read shows of the project before a file is read: nothing that is
\* not defined or not imported, nothing twice, in hybrid mode each in its form, and,
\* if max_depth is no limit, all of it, a file before those that import it.
THEOREM DependenciesAreShown == DepsSpec => []DependenciesShown
<1>1. DepsInit => DepsInv BY DEF DepsInit, DepsInv
<1> QED BY <1>1, DepsInvStep, DepsInvShows, PTL DEF DepsSpec
=============================================================================
