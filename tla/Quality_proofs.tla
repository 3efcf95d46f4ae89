--------------------------- MODULE Quality_proofs ---------------------------
(* Proofs about Quality, for any sources, versions, checkers, filters and   *)
(* numbers of runs, edits and kills; and about Guardrails, for any project. *)
EXTENDS Quality, Guardrails, SequenceTheorems, TLAPS

-----------------------------------------------------------------------------
(* The inductive invariants *)

\* Where the runs of each kind stand: only Python and texts see the linter, and a
\* text has no sidecar.
PlaceInv ==
  \A p \in Runs :
    /\ pc[p] \in {"config", "fill", "lint"} => on[p] \in Python \cup {Temp}
    /\ pc[p] \in {"truncate", "save"} => p \notin Inputs

\* What a run has found, and what it reports, it found in versions its file had
\* meanwhile.
Backed(some, p) ==
  some \subseteq UNION {AllIssues(on[p], v) \cup FoundBy("defaults", v) : v \in seen[p]}

FoundAt(p) ==
  /\ pc[p] \in Reading => content[on[p]] \in seen[p]
  /\ pc[p] \in Analysing => Backed(issues[p], p)
  /\ output[p] # None => pc[p] = "done" /\ Backed(output[p], p)

FoundInv == \A p \in Runs : FoundAt(p)

\* Runs that are kept apart: one is at work, and never while the gate is.
AloneInv ==
  apart =>
    /\ \A p, q \in Runs : Busy(p) /\ Busy(q) => p = q
    /\ \A p \in Runs : Busy(p) => GateIdle

\* What such a run has found is all that the checkers find in its file, and what
\* it has filed is whole.
LinterDue == {"config", "fill", "lint"}
WholeAt(p) ==
  LET f == on[p] v == content[on[p]] IN
  /\ pc[p] = "check" => issues[p] = {}
  /\ pc[p] \in LinterDue => issues[p] = FoundBy("gleipnir", v)
  /\ pc[p] = "lint" => config = "whole"
  /\ pc[p] \in {"hash", "truncate", "save"} => issues[p] = AllIssues(f, v)
  /\ pc[p] \in {"truncate", "save"} => hash[p] = v
  /\ pc[p] = "save" => sidecar[f] = Torn
  /\ pc[p] = "report" /\ p \notin Inputs => sidecar[f] = Report(f, v)

WholeInv ==
  apart =>
    /\ \A f \in Sources : sidecar[f] \notin {NoReport, Torn} =>
         sidecar[f].issues = AllIssues(f, sidecar[f].hash)
    /\ \A p \in Runs : WholeAt(p)

\* Which sources the directory run has done with.
DoneInv ==
  apart /\ pc[Directory] \in Analysing \cup {"next"} =>
    \A f \in Sources \ (due \cup todo) :
      content[f] # Absent /\ (pc[Directory] = "next" \/ on[Directory] # f) =>
        sidecar[f] # NoReport /\ (mode = "force" => sidecar[f] = Report(f, content[f]))

\* Without kills a sidecar is about what its source holds, unless it was out of
\* date at the start or a hook or a run is still to come.
FreshInv ==
  apart /\ kills = 0 =>
    \A f \in Sources \ (due \cup old) :
      /\ content[f] # Absent /\ sidecar[f] # NoReport
      /\ (\A p \in Runs : ~(pc[p] \in Analysing /\ on[p] = f))
      => sidecar[f] = Report(f, content[f])

\* The gate reads while nothing changes.
GateInv ==
  apart /\ gate.at = "load" =>
    /\ \A p \in Runs : ~Busy(p)
    /\ \A f \in Sources \ Tests : sidecar[f] \notin {NoReport, Torn} /\ f \notin gate.todo =>
         \A i \in sidecar[f].issues : <<f, i>> \in gate.read

-----------------------------------------------------------------------------
(* Types *)

\* What a checker finds in a content is among the issues.
LEMMA FoundIssues ==
  ASSUME NEW t \in {"gleipnir", "linter", "defaults"}, NEW v \in Contents
  PROVE  FoundBy(t, v) \subseteq Issues
  BY QualityAssumption DEF Issues, FoundBy, Contents

\* All that the checkers find in a content, and the report of it.
LEMMA ReportTypes ==
  ASSUME NEW f, NEW v \in Contents
  PROVE  /\ AllIssues(f, v) \subseteq Issues
         /\ Report(f, v) \in Reports
         /\ Report(f, v) \notin {NoReport, Torn}
         /\ Report(f, v).hash = v /\ Report(f, v).issues = AllIssues(f, v)
<1>1. AllIssues(f, v) \subseteq Issues
  BY FoundIssues DEF AllIssues
<1>2. QED
  BY <1>1, ReportsAssumption DEF Reports, Report

LEMMA InitTypes == Init => TypeOK
<1>1. SUFFICES ASSUME Init PROVE TypeOK
  OBVIOUS
<1>2. PICK start \in Starts :
        /\ content = [f \in Files |-> IF f = Temp THEN Absent ELSE start.files[f].content]
        /\ sidecar = [f \in Sources |->
                        IF start.files[f].filed = Absent THEN NoReport ELSE Report(f, start.files[f].filed)]
        /\ mode = start.mode
        /\ old = {f \in Sources : Absent \notin {start.files[f].content, start.files[f].filed}
                               /\ start.files[f].filed # start.files[f].content}
  BY <1>1 DEF Init
<1>3. /\ start.files \in [Sources -> [content : Contents, filed : Contents]]
      /\ start.mode \in {"missing", "force", "strip"}
  BY StartsAssumption
<1>4. FileTypes
  <2>1. content \in [Files -> Contents]
    BY <1>2, <1>3 DEF Files, Contents
  <2>2. sidecar \in [Sources -> {NoReport, Torn} \cup Reports]
    BY <1>2, <1>3, ReportTypes
  <2>3. QED
    BY <1>1, <2>1, <2>2 DEF Init, FileTypes
<1>5. RunTypes
  BY <1>1 DEF Init, RunTypes, Analysing, Reading
<1>6. SeenTypes /\ GateTypes
  BY <1>1 DEF Init, SeenTypes, GateTypes, NoGate
<1>7. SettingTypes
  BY <1>1, <1>2, <1>3, QualityAssumption DEF Init, SettingTypes
<1>8. QED
  BY <1>4, <1>5, <1>6, <1>7 DEF TypeOK

\* What is left of a text when its file is gone: the file's types stay.
LEMMA PutTypes ==
  ASSUME NEW f \in Files, NEW v \in Contents, Put(f, v),
         content \in [Files -> Contents], SeenTypes
  PROVE  content' \in [Files -> Contents] /\ SeenTypes'
  BY DEF Put, SeenTypes

\* The files: a sidecar is nothing, torn or a report.
LEMMA FileTypesStep == TypeOK /\ [Next]_vars => FileTypes'
<1>1. SUFFICES ASSUME TypeOK, [Next]_vars PROVE FileTypes'
  OBVIOUS
<1>a. /\ FileTypes /\ RunTypes /\ SeenTypes
      /\ Inputs \subseteq Runs /\ Sources \subseteq Files /\ Temp \in Files
      /\ Versions \subseteq Contents /\ {Absent, Empty} \subseteq Contents
  BY <1>1 DEF TypeOK, Files, Contents, Texts, Runs
<1>2. ASSUME NEW f \in Sources, NEW v \in Versions, Edit(f, v) PROVE FileTypes'
  <2>1. content' \in [Files -> Contents]
    BY <1>2, <1>a, PutTypes DEF Edit, FileTypes
  <2>2. QED
    BY <1>2, <1>a, <2>1 DEF Edit, FileTypes
<1>3. ASSUME NEW f \in Sources, Remove(f) PROVE FileTypes'
  <2>1. content' \in [Files -> Contents]
    BY <1>3, <1>a, PutTypes DEF Remove, FileTypes
  <2>2. QED
    BY <1>3, <1>a, <2>1 DEF Remove, FileTypes
<1>4. ASSUME NEW p \in Runs, Hook(p) PROVE FileTypes'
  BY <1>4, <1>a DEF Hook, FileTypes
<1>5. ASSUME NEW p \in Runs, TruncateConfig(p) \/ FillConfig(p) PROVE FileTypes'
  BY <1>5, <1>a DEF TruncateConfig, FillConfig, FileTypes
<1>6. ASSUME NEW p \in Runs, hash_file(p) PROVE FileTypes'
  <2>1. content' \in [Files -> Contents]
    BY <1>6, <1>a, PutTypes DEF hash_file, FileTypes
  <2>2. QED
    BY <1>6, <1>a, <2>1 DEF hash_file, FileTypes
<1>7. ASSUME NEW p \in Runs, TruncateSidecar(p) PROVE FileTypes'
  BY <1>7, <1>a DEF TruncateSidecar, FileTypes
<1>8. ASSUME NEW p \in Runs, SaveSidecar(p) PROVE FileTypes'
  <2>1. [hash |-> hash[p], issues |-> issues[p]] \in Reports
    BY <1>a DEF Reports, RunTypes
  <2>2. sidecar' \in [Sources -> {NoReport, Torn} \cup Reports]
    BY <1>8, <1>a, <2>1 DEF SaveSidecar, FileTypes
  <2>3. QED
    BY <1>8, <1>a, <2>2 DEF SaveSidecar, FileTypes
<1>9. CASE Unlink
  BY <1>9, <1>a DEF Unlink, FileTypes
<1>10. ASSUME NEW p \in Inputs, NEW v \in Versions, TruncateTemp(p, v) PROVE FileTypes'
  <2>1. content' \in [Files -> Contents]
    BY <1>10, <1>a, PutTypes DEF TruncateTemp, FileTypes
  <2>2. QED
    BY <1>10, <1>a, <2>1 DEF TruncateTemp, FileTypes
<1>11. ASSUME NEW p \in Runs, WriteTemp(p) PROVE FileTypes'
  BY <1>11, <1>a DEF WriteTemp, FileTypes
<1>12. CASE UNCHANGED files
  BY <1>12, <1>a DEF FileTypes, files
<1>13. (Scan \/ find_qa_files \/ Gating \/ UNCHANGED vars) => UNCHANGED files
  BY DEF Scan, find_qa_files, Gating, load_qa_file, Decide, vars, files
<1>14. ASSUME NEW p \in Runs, run_gleipnir(p) \/ run_ruff(p) \/ Assess(p) \/ Again(p) \/ Kill(p)
       PROVE  UNCHANGED files
  BY <1>14 DEF run_gleipnir, run_ruff, Assess, Again, Kill
<1>15. find_source_files \/ EndScan \/ (\E f \in Sources : Orphan(f) \/ Take(f)) => UNCHANGED files
  BY DEF find_source_files, EndScan, Orphan, Take
<1>16. QED
  BY <1>1, <1>2, <1>3, <1>4, <1>5, <1>6, <1>7, <1>8, <1>9, <1>10, <1>11, <1>12, <1>13,
     <1>14, <1>15
     DEF Next, Scanning, Saga

\* A run that takes up a file of its kind.
LEMMA StartTypes ==
  ASSUME RunTypes, NEW p \in Runs, NEW f \in IF p \in Inputs THEN {Temp} ELSE Sources,
         Start(p, f), hash' \in [Runs -> Contents \cup {None}], UNCHANGED output,
         todo' \subseteq Sources
  PROVE  RunTypes'
<1>1. /\ on' = [on EXCEPT ![p] = f]
      /\ issues' = [issues EXCEPT ![p] = {}]
      /\ pc' = [pc EXCEPT ![p] = "check"]
  BY DEF Start, To
<1>2. f \in Files
  BY DEF Files
<1>3. QED
  BY <1>1, <1>2 DEF RunTypes, Analysing, Reading

LEMMA RunTypesStep == TypeOK /\ [Next]_vars => RunTypes'
<1>1. SUFFICES ASSUME TypeOK, [Next]_vars PROVE RunTypes'
  OBVIOUS
<1>a. /\ FileTypes /\ RunTypes
      /\ Inputs \subseteq Runs /\ Sources \subseteq Files /\ Temp \in Files
      /\ Directory \in Runs \ Inputs /\ Hooks \subseteq Runs \ Inputs
      /\ Versions \subseteq Contents /\ {Absent, Empty} \subseteq Contents
  BY <1>1, RunsAssumption DEF TypeOK, Files, Contents, Texts, Runs
<1>2. ASSUME NEW p \in Runs, Hook(p) PROVE RunTypes'
  <2>1. PICK f \in due : Hook(p)!(f)
    BY <1>2 DEF Hook
  <2>2. f \in Sources /\ p \in Hooks
    BY <2>1, <1>a DEF FileTypes
  <2>3. CASE Start(p, f)
    BY <2>1, <2>2, <2>3, <1>a, StartTypes DEF RunTypes
  <2>4. CASE UNCHANGED run
    BY <2>4, <1>a DEF RunTypes, run
  <2>5. QED
    BY <2>1, <2>3, <2>4 DEF run
<1>3. ASSUME NEW f \in Sources, Take(f) PROVE RunTypes'
  <2>1. CASE Start(Directory, f)
    BY <1>3, <2>1, <1>a, StartTypes DEF Take, RunTypes
  <2>2. CASE UNCHANGED <<pc, on, issues>>
    BY <1>3, <2>2, <1>a DEF Take, RunTypes
  <2>3. QED
    BY <1>3, <2>1, <2>2 DEF Take
<1>4. ASSUME NEW p \in Inputs, NEW v \in Versions, TruncateTemp(p, v) PROVE RunTypes'
  BY <1>4, <1>a DEF TruncateTemp, To, RunTypes, Analysing, Reading
<1>5. ASSUME NEW p \in Runs, WriteTemp(p) PROVE RunTypes'
  BY <1>5, <1>a, StartTypes DEF WriteTemp, RunTypes
<1>6. ASSUME NEW f \in Sources, Orphan(f) PROVE RunTypes'
  BY <1>6, <1>a DEF Orphan, At, To, RunTypes, Analysing, Reading
<1>7. CASE Unlink
  BY <1>7, <1>a DEF Unlink, At, To, RunTypes, Analysing, Reading
<1>8. CASE find_source_files \/ EndScan \/ Scan
  BY <1>8, <1>a DEF find_source_files, EndScan, Scan, At, To, RunTypes, Analysing, Reading
<1>b. ASSUME NEW p \in Runs, NEW tool \in {"gleipnir", "linter", "defaults"}, pc[p] \in Reading
      PROVE  Checked(tool, p) \subseteq Issues
  <2>1. content[on[p]] \in Contents
    BY <1>b, <1>a DEF RunTypes, FileTypes, Analysing
  <2>2. QED
    BY <2>1, FoundIssues DEF Checked
<1>9. ASSUME NEW p \in Runs, run_gleipnir(p) PROVE RunTypes'
  <2>1. Checked("gleipnir", p) \subseteq Issues
    BY <1>9, <1>b DEF run_gleipnir, At, Reading
  <2>2. QED
    BY <1>9, <1>a, <2>1 DEF run_gleipnir, At, To, RunTypes, Analysing, Reading
<1>10. ASSUME NEW p \in Runs, run_ruff(p) PROVE RunTypes'
  <2>1. Checked("linter", p) \subseteq Issues /\ Checked("defaults", p) \subseteq Issues
    BY <1>10, <1>b DEF run_ruff, At, Reading
  <2>2. PICK found \in SUBSET Issues : issues' = [issues EXCEPT ![p] = @ \cup found]
    BY <1>10, <2>1 DEF run_ruff
  <2>3. pc[p] = "lint" /\ To(p, "hash") /\ UNCHANGED <<on, todo, hash, output>>
    BY <1>10 DEF run_ruff, At
  <2>4. QED
    BY <1>a, <2>2, <2>3 DEF To, RunTypes, Analysing, Reading
<1>11. ASSUME NEW p \in Runs, TruncateConfig(p) \/ FillConfig(p) \/ TruncateSidecar(p) PROVE RunTypes'
  BY <1>11, <1>a DEF TruncateConfig, FillConfig, TruncateSidecar, At, To, RunTypes, Analysing, Reading
<1>12. ASSUME NEW p \in Runs, hash_file(p) PROVE RunTypes'
  <2>1. content[on[p]] \in Contents
    BY <1>12, <1>a DEF hash_file, At, RunTypes, FileTypes, Analysing, Reading
  <2>2. pc[p] = "hash" /\ UNCHANGED <<on, todo, issues, output>>
    BY <1>12 DEF hash_file, At
  <2>3. CASE p \in Inputs
    <3>1. /\ pc' = [q \in Runs |-> IF q = p THEN "report" ELSE IF pc[q] = "text" THEN "lost" ELSE pc[q]]
          /\ UNCHANGED hash
      BY <1>12, <2>3 DEF hash_file
    <3>2. QED
      BY <1>a, <2>2, <3>1 DEF RunTypes, Analysing, Reading
  <2>4. CASE p \notin Inputs
    <3>1. To(p, "truncate") /\ hash' = [hash EXCEPT ![p] = content[on[p]]]
      BY <1>12, <2>4 DEF hash_file
    <3>2. QED
      BY <1>a, <2>1, <2>2, <3>1 DEF To, RunTypes, Analysing, Reading
  <2>5. QED
    BY <2>3, <2>4
<1>13. ASSUME NEW p \in Runs, SaveSidecar(p) PROVE RunTypes'
  <2>1. /\ At(p, "save") /\ To(p, IF p = Directory THEN "next" ELSE "report")
        /\ UNCHANGED <<on, todo, issues, hash, output>>
    BY <1>13 DEF SaveSidecar
  <2>2. QED
    BY <1>a, <2>1 DEF At, To, RunTypes, Analysing, Reading
<1>14. ASSUME NEW p \in Runs, Assess(p) PROVE RunTypes'
  BY <1>14, <1>a DEF Assess, At, To, RunTypes, Analysing, Reading
<1>15. ASSUME NEW p \in Runs, Again(p) PROVE RunTypes'
  BY <1>15, <1>a DEF Again, At, To, RunTypes, Analysing, Reading
<1>16. ASSUME NEW p \in Runs, Kill(p) PROVE RunTypes'
  BY <1>16, <1>a DEF Kill, To, RunTypes, Analysing, Reading
<1>17. CASE UNCHANGED run
  BY <1>17, <1>a DEF RunTypes, run
<1>18. find_qa_files \/ Gating \/ UNCHANGED vars => UNCHANGED run
  BY DEF find_qa_files, Gating, load_qa_file, Decide, vars
<1>19. (\E f \in Sources, v \in Versions : Edit(f, v)) \/ (\E f \in Sources : Remove(f))
       => UNCHANGED run
  BY DEF Edit, Remove
<1>20. QED
  BY <1>1, <1>2, <1>3, <1>4, <1>5, <1>6, <1>7, <1>8, <1>9, <1>10, <1>11, <1>12, <1>13,
     <1>14, <1>15, <1>16, <1>17, <1>18, <1>19
     DEF Next, Scanning, Saga

LEMMA SeenTypesStep == TypeOK /\ [Next]_vars => SeenTypes'
<1>1. SUFFICES ASSUME TypeOK, [Next]_vars PROVE SeenTypes'
  OBVIOUS
<1>a. /\ FileTypes /\ SeenTypes /\ content \in [Files -> Contents]
      /\ Sources \subseteq Files /\ Temp \in Files
      /\ Versions \subseteq Contents /\ {Absent, Empty} \subseteq Contents
  BY <1>1 DEF TypeOK, FileTypes, Files, Contents, Texts
<1>2. ASSUME NEW f \in Sources, NEW v \in Versions, Edit(f, v) PROVE SeenTypes'
  BY <1>2, <1>a, PutTypes DEF Edit
<1>3. ASSUME NEW f \in Sources, Remove(f) PROVE SeenTypes'
  BY <1>3, <1>a, PutTypes DEF Remove
<1>4. ASSUME NEW p \in Runs, Hook(p) PROVE SeenTypes'
  BY <1>4, <1>a DEF Hook, SeenTypes, FileTypes
<1>5. ASSUME NEW f \in Sources, Take(f) PROVE SeenTypes'
  BY <1>5, <1>a DEF Take, SeenTypes
<1>6. ASSUME NEW p \in Inputs, NEW v \in Versions, TruncateTemp(p, v) PROVE SeenTypes'
  BY <1>6, <1>a, PutTypes DEF TruncateTemp
<1>7. ASSUME NEW p \in Runs, WriteTemp(p) PROVE SeenTypes'
  BY <1>7, <1>a DEF WriteTemp, SeenTypes
<1>8. ASSUME NEW p \in Runs, hash_file(p) PROVE SeenTypes'
  <2>1. CASE Put(Temp, Absent)
    BY <2>1, <1>a, PutTypes
  <2>2. CASE UNCHANGED seen
    BY <2>2, <1>a DEF SeenTypes
  <2>3. QED
    BY <1>8, <2>1, <2>2 DEF hash_file
<1>9. ASSUME NEW p \in Runs, Again(p) PROVE SeenTypes'
  BY <1>9, <1>a DEF Again, SeenTypes
<1>10. CASE UNCHANGED seen
  BY <1>10, <1>a DEF SeenTypes
<1>11. ASSUME NEW p \in Runs,
              \/ run_gleipnir(p) \/ TruncateConfig(p) \/ FillConfig(p) \/ run_ruff(p)
              \/ TruncateSidecar(p) \/ SaveSidecar(p) \/ Assess(p) \/ Kill(p)
       PROVE  UNCHANGED seen
  BY <1>11 DEF run_gleipnir, TruncateConfig, FillConfig, run_ruff, TruncateSidecar, SaveSidecar,
     Assess, Kill
<1>12. Scan \/ Unlink \/ find_source_files \/ EndScan \/ (\E f \in Sources : Orphan(f)) => UNCHANGED seen
  BY DEF Scan, Unlink, find_source_files, EndScan, Orphan
<1>13. find_qa_files \/ Gating \/ UNCHANGED vars => UNCHANGED seen
  BY DEF find_qa_files, Gating, load_qa_file, Decide, vars
<1>14. QED
  BY <1>1, <1>2, <1>3, <1>4, <1>5, <1>6, <1>7, <1>8, <1>9, <1>10, <1>11, <1>12, <1>13
     DEF Next, Scanning, Saga

\* What only the gate's steps change.
LEMMA GateStays ==
  ASSUME [Next]_vars PROVE find_qa_files \/ Gating \/ UNCHANGED gate
<1>1. ASSUME NEW p \in Runs, Hook(p) \/ Saga(p) \/ Again(p) \/ Kill(p) PROVE UNCHANGED gate
  BY <1>1 DEF Hook, Saga, WriteTemp, run_gleipnir, TruncateConfig, FillConfig, run_ruff, hash_file,
     TruncateSidecar, SaveSidecar, Assess, Again, Kill
<1>2. Scan \/ Scanning => UNCHANGED gate
  BY DEF Scan, Scanning, Unlink, find_source_files, EndScan, Orphan, Take
<1>3. ASSUME NEW v \in Versions,
             (\E f \in Sources : Edit(f, v) \/ Remove(f)) \/ (\E p \in Inputs : TruncateTemp(p, v))
      PROVE  UNCHANGED gate
  BY <1>3 DEF Edit, Remove, TruncateTemp
<1>4. (\E f \in Sources : Remove(f)) \/ UNCHANGED vars => UNCHANGED gate
  BY DEF Remove, vars
<1>5. QED
  BY <1>1, <1>2, <1>3, <1>4 DEF Next

LEMMA GateTypesStep == TypeOK /\ [Next]_vars => GateTypes'
<1>1. SUFFICES ASSUME TypeOK, [Next]_vars PROVE GateTypes'
  OBVIOUS
<1>a. FileTypes /\ GateTypes
  BY <1>1 DEF TypeOK
<1>2. CASE find_qa_files
  BY <1>2, <1>a DEF find_qa_files, GateTypes
<1>3. ASSUME NEW f \in Sources, load_qa_file(f) PROVE GateTypes'
  <2>1. sidecar[f] \notin {NoReport, Torn} => sidecar[f].issues \subseteq Issues
    BY <1>a DEF FileTypes, Reports
  <2>2. (IF sidecar[f] \in {NoReport, Torn} THEN gate.read
         ELSE gate.read \cup {<<f, i>> : i \in sidecar[f].issues}) \in SUBSET (Sources \X Issues)
    BY <2>1, <1>a DEF GateTypes
  <2>3. QED
    BY <1>3, <1>a, <2>2 DEF load_qa_file, GateTypes
<1>4. CASE Decide
  BY <1>4, <1>a DEF Decide, apply_filters, GateTypes
<1>5. CASE UNCHANGED gate
  BY <1>5, <1>a DEF GateTypes
<1>6. QED
  BY <1>1, <1>2, <1>3, <1>4, <1>5, GateStays DEF Gating

\* What no run changes.
LEMMA SettingTypesStep == TypeOK /\ [Next]_vars => SettingTypes'
<1>1. SUFFICES ASSUME TypeOK, [Next]_vars PROVE SettingTypes'
  OBVIOUS
<1>a. SettingTypes
  BY <1>1 DEF TypeOK
<1>2. ASSUME NEW f \in Sources, (\E v \in Versions : Edit(f, v)) \/ Remove(f) PROVE SettingTypes'
  BY <1>2, <1>a, QualityAssumption DEF Edit, Remove, SettingTypes, setting
<1>3. ASSUME NEW p \in Runs, Kill(p) PROVE SettingTypes'
  BY <1>3, <1>a, QualityAssumption DEF Kill, SettingTypes, setting
<1>4. CASE UNCHANGED <<edits, kills, setting>>
  BY <1>4, <1>a DEF SettingTypes, setting
<1>5. ASSUME NEW p \in Runs, Hook(p) \/ Saga(p) \/ Again(p) PROVE UNCHANGED <<edits, kills, setting>>
  BY <1>5 DEF Hook, Saga, WriteTemp, run_gleipnir, TruncateConfig, FillConfig, run_ruff, hash_file,
     TruncateSidecar, SaveSidecar, Assess, Again
<1>6. Scan \/ Scanning \/ find_qa_files \/ Gating => UNCHANGED <<edits, kills, setting>>
  BY DEF Scan, Scanning, Unlink, find_source_files, EndScan, Orphan, Take, find_qa_files, Gating,
     load_qa_file, Decide
<1>7. (\E p \in Inputs, v \in Versions : TruncateTemp(p, v)) \/ UNCHANGED vars
      => UNCHANGED <<edits, kills, setting>>
  BY DEF TruncateTemp, vars
<1>8. QED
  BY <1>1, <1>2, <1>3, <1>4, <1>5, <1>6, <1>7 DEF Next

\* Every variable has its type, for any cast and any number of edits and kills.
THEOREM TypesHold == Spec => []TypeOK
<1>1. TypeOK /\ [Next]_vars => TypeOK'
  BY FileTypesStep, RunTypesStep, SeenTypesStep, GateTypesStep, SettingTypesStep DEF TypeOK
<1>2. QED
  BY <1>1, InitTypes, PTL DEF Spec

-----------------------------------------------------------------------------
(* What is reported was there *)

LEMMA InitPlaces == Init => PlaceInv
  BY DEF Init, PlaceInv

LEMMA PlaceInvStep == TypeOK /\ PlaceInv /\ [Next]_vars => PlaceInv'
<1>1. SUFFICES ASSUME TypeOK, PlaceInv, [Next]_vars PROVE PlaceInv'
  OBVIOUS
<1>a. /\ RunTypes /\ PlaceInv
      /\ Directory \in Runs \ Inputs /\ Inputs \subseteq Runs
  BY <1>1, RunsAssumption DEF TypeOK, Runs
<1>b. ASSUME NEW p \in Runs, NEW f, Start(p, f) PROVE PlaceInv'
  BY <1>b, <1>a DEF Start, To, PlaceInv, RunTypes
<1>2. ASSUME NEW p \in Runs, Hook(p) PROVE PlaceInv'
  BY <1>2, <1>a, <1>b DEF Hook, PlaceInv
<1>3. ASSUME NEW f \in Sources, Take(f) PROVE PlaceInv'
  BY <1>3, <1>a, <1>b DEF Take, PlaceInv
<1>4. ASSUME NEW p \in Inputs, NEW v \in Versions, TruncateTemp(p, v) PROVE PlaceInv'
  BY <1>4, <1>a DEF TruncateTemp, To, PlaceInv, RunTypes
<1>5. ASSUME NEW p \in Runs, WriteTemp(p) PROVE PlaceInv'
  BY <1>5, <1>a, <1>b DEF WriteTemp
<1>6. ASSUME NEW f \in Sources, Orphan(f) PROVE PlaceInv'
  BY <1>6, <1>a DEF Orphan, At, To, PlaceInv, RunTypes
<1>7. CASE Unlink
  BY <1>7, <1>a DEF Unlink, At, To, PlaceInv, RunTypes
<1>8. CASE find_source_files \/ EndScan \/ Scan
  BY <1>8, <1>a DEF find_source_files, EndScan, Scan, At, To, PlaceInv, RunTypes
<1>9. ASSUME NEW p \in Runs, run_gleipnir(p) \/ TruncateConfig(p) \/ FillConfig(p) \/ run_ruff(p)
      PROVE  PlaceInv'
  BY <1>9, <1>a DEF run_gleipnir, TruncateConfig, FillConfig, run_ruff, At, To, PlaceInv, RunTypes
<1>10. ASSUME NEW p \in Runs, hash_file(p) \/ TruncateSidecar(p) PROVE PlaceInv'
  BY <1>10, <1>a DEF hash_file, TruncateSidecar, At, To, PlaceInv, RunTypes
<1>11. ASSUME NEW p \in Runs, SaveSidecar(p) \/ Assess(p) \/ Kill(p) PROVE PlaceInv'
  BY <1>11, <1>a DEF SaveSidecar, Assess, Kill, At, To, PlaceInv, RunTypes
<1>12. ASSUME NEW p \in Runs, Again(p) PROVE PlaceInv'
  BY <1>12, <1>a DEF Again, At, To, PlaceInv, RunTypes
<1>13. CASE UNCHANGED run
  BY <1>13, <1>a DEF PlaceInv, run
<1>14. find_qa_files \/ Gating \/ UNCHANGED vars => UNCHANGED run
  BY DEF find_qa_files, Gating, load_qa_file, Decide, vars
<1>15. (\E f \in Sources, v \in Versions : Edit(f, v)) \/ (\E f \in Sources : Remove(f))
       => UNCHANGED run
  BY DEF Edit, Remove
<1>16. QED
  BY <1>1, <1>2, <1>3, <1>4, <1>5, <1>6, <1>7, <1>8, <1>9, <1>10, <1>11, <1>12, <1>13,
     <1>14, <1>15
     DEF Next, Scanning, Saga

LEMMA InitFound == TypeOK /\ Init => FoundInv
  BY DEF Init, FoundInv, FoundAt, Analysing, Reading

\* A file that changes takes no run by surprise.
LEMMA PutFound ==
  ASSUME FileTypes, RunTypes, SeenTypes, FoundInv,
         NEW f \in Files, NEW v \in Contents, Put(f, v), NEW p \in Runs
  PROVE  /\ seen[p] \subseteq seen'[p]
         /\ pc[p] \in Reading => content'[on[p]] \in seen'[p]
<1>1. seen'[p] = IF p \in BusyOn(f) THEN seen[p] \cup {v} ELSE seen[p]
  BY DEF Put
<1>2. CASE pc[p] \in Reading
  <2>1. Busy(p) /\ on[p] \in Files /\ content[on[p]] \in seen[p]
    BY <1>2 DEF Busy, Reading, Analysing, RunTypes, Files, FoundInv, FoundAt
  <2>2. CASE on[p] = f
    BY <1>1, <2>1, <2>2 DEF Put, FileTypes, BusyOn
  <2>3. CASE on[p] # f
    BY <1>1, <2>1, <2>3 DEF Put, FileTypes, BusyOn
  <2>4. QED
    BY <1>1, <2>2, <2>3
<1>3. QED
  BY <1>1, <1>2

\* What is backed stays so while a run goes on with its file.
LEMMA FoundStays ==
  ASSUME NEW p \in Runs, FoundAt(p), UNCHANGED <<on[p], issues[p], output[p]>>,
         seen[p] \subseteq seen'[p],
         pc'[p] \in Reading => pc[p] \in Reading /\ content'[on[p]] \in seen'[p],
         pc'[p] \in Analysing => pc[p] \in Analysing,
         pc[p] = "done" => pc'[p] = "done"
  PROVE  FoundAt(p)'
<1>1. ASSUME NEW some, Backed(some, p) PROVE Backed(some, p)'
  <2>1. ASSUME NEW i \in some PROVE \E v \in seen'[p] : i \in AllIssues(on[p], v) \cup FoundBy("defaults", v)
    BY <1>1, <2>1 DEF Backed
  <2>2. QED
    BY <2>1 DEF Backed
<1>2. pc'[p] \in Reading => content'[on'[p]] \in seen'[p]
  OBVIOUS
<1>3. pc'[p] \in Analysing => Backed(issues[p], p)'
  BY <1>1 DEF FoundAt
<1>4. output'[p] # None => pc'[p] = "done" /\ Backed(output[p], p)'
  BY <1>1 DEF FoundAt
<1>5. QED
  BY <1>2, <1>3, <1>4 DEF FoundAt, Backed

\* A run that takes up a file has found nothing in it yet.
LEMMA StartFound ==
  ASSUME RunTypes, NEW p \in Runs, FoundAt(p), NEW f, Start(p, f), UNCHANGED output,
         pc[p] # "done", content'[f] \in seen'[p]
  PROVE  FoundAt(p)' /\ \A q \in Runs \ {p} : UNCHANGED <<pc[q], on[q], issues[q], output[q]>>
<1>1. pc'[p] = "check" /\ on'[p] = f /\ issues'[p] = {} /\ output'[p] = None
  BY DEF Start, To, RunTypes, FoundAt
<1>2. FoundAt(p)'
  BY <1>1 DEF FoundAt, Backed
<1>3. QED
  BY <1>2 DEF Start, To, RunTypes

LEMMA FoundInvStep == TypeOK /\ PlaceInv /\ FoundInv /\ [Next]_vars => FoundInv'
<1>1. SUFFICES ASSUME TypeOK, PlaceInv, FoundInv, [Next]_vars, NEW q \in Runs PROVE FoundAt(q)'
  BY DEF FoundInv
<1>a. /\ FileTypes /\ RunTypes /\ SeenTypes /\ FoundAt(q)
      /\ Inputs \subseteq Runs /\ Sources \subseteq Files /\ Temp \in Files
      /\ Directory \in Runs \ Inputs /\ Hooks \subseteq Runs \ Inputs
      /\ Versions \subseteq Contents /\ {Absent, Empty} \subseteq Contents
  BY <1>1, RunsAssumption DEF TypeOK, Files, Contents, Texts, Runs, FoundInv
\* The files change, the run does not.
<1>b. ASSUME NEW f \in Files, NEW v \in Contents, Put(f, v), UNCHANGED run PROVE FoundAt(q)'
  BY <1>b, <1>1, <1>a, PutFound, FoundStays DEF run
\* Another run moves.
<1>c. ASSUME UNCHANGED <<pc[q], on[q], issues[q], output[q], seen[q], content>> PROVE FoundAt(q)'
  BY <1>c, <1>a, FoundStays DEF FoundAt
<1>2. ASSUME NEW f \in Sources, (\E v \in Versions : Edit(f, v)) \/ Remove(f) PROVE FoundAt(q)'
  BY <1>2, <1>a, <1>b DEF Edit, Remove
<1>3. ASSUME NEW p \in Runs, Hook(p) PROVE FoundAt(q)'
  <2>1. PICK f \in due : Hook(p)!(f)
    BY <1>3 DEF Hook
  <2>2. f \in Sources
    BY <2>1, <1>a DEF FileTypes
  <2>3. CASE Start(p, f) /\ seen' = [seen EXCEPT ![p] = {content[f]}]
    BY <2>1, <2>2, <2>3, <1>a, <1>1, <1>c, StartFound DEF At, SeenTypes, FoundInv
  <2>4. CASE UNCHANGED <<pc, on, issues, seen>>
    BY <2>1, <2>4, <1>c
  <2>5. QED
    BY <2>1, <2>3, <2>4
<1>4. ASSUME NEW f \in Sources, Take(f) PROVE FoundAt(q)'
  <2>1. CASE Start(Directory, f) /\ seen' = [seen EXCEPT ![Directory] = {content[f]}]
    BY <1>4, <2>1, <1>a, <1>1, <1>c, StartFound DEF Take, At, SeenTypes, FoundInv, files
  <2>2. CASE UNCHANGED <<pc, on, issues, seen>>
    BY <1>4, <2>2, <1>c DEF Take, files
  <2>3. QED
    BY <1>4, <2>1, <2>2 DEF Take
<1>5. ASSUME NEW p \in Inputs, NEW v \in Versions, TruncateTemp(p, v) PROVE FoundAt(q)'
  <2>1. /\ Put(Temp, Empty) /\ pc[p] = "idle" /\ To(p, "text") /\ UNCHANGED <<issues, output>>
        /\ on' = [on EXCEPT ![p] = Temp]
    BY <1>5 DEF TruncateTemp, At
  <2>2. CASE q = p
    <3>1. pc'[q] = "text" /\ output'[q] = None
      BY <2>1, <2>2, <1>a DEF To, RunTypes, FoundAt
    <3>2. QED
      BY <3>1 DEF FoundAt, Analysing, Reading
  <2>3. CASE q # p
    <3>1. UNCHANGED <<pc[q], on[q], issues[q], output[q]>>
      BY <2>1, <2>3, <1>a DEF To, RunTypes
    <3>2. seen[q] \subseteq seen'[q] /\ (pc[q] \in Reading => content'[on[q]] \in seen'[q])
      BY <2>1, <1>a, <1>1, PutFound
    <3>3. QED
      BY <3>1, <3>2, <1>a, FoundStays
  <2>4. QED
    BY <2>2, <2>3
<1>6. ASSUME NEW p \in Runs, WriteTemp(p) PROVE FoundAt(q)'
  <2>1. PICK v \in Contents :
        /\ Start(p, Temp) /\ pc[p] \in {"text", "lost"} /\ UNCHANGED output
        /\ content' = [content EXCEPT ![Temp] = v]
        /\ seen' = [x \in Runs |-> IF x = p THEN {v}
                                   ELSE IF x \in BusyOn(Temp) THEN seen[x] \cup {v} ELSE seen[x]]
    BY <1>6 DEF WriteTemp
  <2>2. content'[Temp] \in seen'[p]
    BY <2>1, <1>a DEF FileTypes
  <2>3. FoundAt(p)' /\ \A x \in Runs \ {p} : UNCHANGED <<pc[x], on[x], issues[x], output[x]>>
    BY <2>1, <2>2, <1>a, <1>1, StartFound DEF FoundInv
  <2>4. CASE q # p
    <3>1. seen[q] \subseteq seen'[q]
      BY <2>1, <2>4
    <3>2. pc[q] \in Reading => content'[on[q]] \in seen'[q]
      BY <2>1, <2>4, <1>a DEF FoundAt, BusyOn, Busy, Reading, FileTypes
    <3>3. QED
      BY <3>1, <3>2, <2>3, <2>4, <1>a, FoundStays
  <2>5. QED
    BY <2>3, <2>4
<1>7. ASSUME NEW f \in Sources, Orphan(f) PROVE FoundAt(q)'
  BY <1>7, <1>a DEF Orphan, At, To, FoundAt, RunTypes, Analysing, Reading, Backed, files
<1>8. CASE Unlink
  BY <1>8, <1>a DEF Unlink, At, To, FoundAt, RunTypes, Analysing, Reading, Backed
<1>9. CASE find_source_files \/ EndScan \/ Scan
  <2>1. /\ UNCHANGED <<on, issues, output, seen, content>>
        /\ \E l \in {"orphans", "next", "done"} : To(Directory, l)
        /\ pc[Directory] # "done"
    BY <1>9 DEF find_source_files, EndScan, Scan, At, files
  <2>2. /\ pc'[q] \in Analysing => pc[q] \in Analysing
        /\ pc'[q] \in Reading => pc[q] \in Reading
        /\ pc[q] = "done" => pc'[q] = "done"
    BY <2>1, <1>a DEF To, RunTypes, Analysing, Reading
  <2>3. QED
    BY <2>1, <2>2, <1>a, FoundStays DEF FoundAt
\* The checkers: what they find is in the version they read.
<1>d. ASSUME NEW tool \in {"gleipnir", "linter", "defaults"}, pc[q] \in Reading,
             tool = "linter" => on[q] \in Python \cup {Temp}
      PROVE  Backed(Checked(tool, q), q)
  <2>1. content[on[q]] \in seen[q]
    BY <1>d, <1>a DEF FoundAt
  <2>2. Checked(tool, q) \subseteq AllIssues(on[q], content[on[q]]) \cup FoundBy("defaults", content[on[q]])
    BY <1>d DEF Checked, AllIssues
  <2>3. QED
    BY <2>1, <2>2 DEF Backed
<1>10. ASSUME NEW p \in Runs, run_gleipnir(p) PROVE FoundAt(q)'
  <2>1. CASE q = p
    <3>1. pc[q] \in Reading /\ pc[q] \in Analysing /\ output[q] = None
      BY <1>10, <2>1, <1>a DEF run_gleipnir, At, Reading, Analysing, FoundAt
    <3>2. Backed(issues[q] \cup Checked("gleipnir", q), q)
      BY <3>1, <1>a, <1>d DEF FoundAt, Backed
    <3>3. pc'[q] \in Reading /\ issues'[q] = issues[q] \cup Checked("gleipnir", q)
      BY <1>10, <2>1, <1>a DEF run_gleipnir, To, Reading, RunTypes
    <3>4. UNCHANGED <<content, on, seen, output>>
      BY <1>10 DEF run_gleipnir, files
    <3>5. QED
      BY <3>1, <3>2, <3>3, <3>4, <1>a DEF FoundAt, Backed
  <2>2. QED
    BY <1>10, <2>1, <1>a, <1>c DEF run_gleipnir, To, RunTypes, files
<1>11. ASSUME NEW p \in Runs, run_ruff(p) PROVE FoundAt(q)'
  <2>1. CASE q = p
    <3>1. pc[q] \in Reading /\ pc[q] \in Analysing /\ output[q] = None /\ on[q] \in Python \cup {Temp}
      BY <1>11, <2>1, <1>a, <1>1 DEF run_ruff, At, Reading, Analysing, FoundAt, PlaceInv
    <3>2. PICK found \in {{}, Checked("linter", q), Checked("defaults", q)} :
            issues'[q] = issues[q] \cup found
      BY <1>11, <2>1, <1>a DEF run_ruff, RunTypes
    <3>6. Backed(found, q)
      BY <3>1, <3>2, <1>d DEF Backed
    <3>3. pc'[q] \in Reading /\ Backed(issues[q] \cup found, q)
      BY <1>11, <2>1, <3>1, <3>6, <1>a DEF run_ruff, To, Reading, RunTypes, FoundAt, Backed
    <3>4. UNCHANGED <<content, on, seen, output>>
      BY <1>11 DEF run_ruff, files
    <3>5. QED
      BY <3>1, <3>2, <3>3, <3>4, <1>a DEF FoundAt, Backed
  <2>2. QED
    BY <1>11, <2>1, <1>a, <1>c DEF run_ruff, To, RunTypes, files
<1>12. ASSUME NEW p \in Runs, TruncateConfig(p) \/ FillConfig(p) PROVE FoundAt(q)'
  BY <1>12, <1>a DEF TruncateConfig, FillConfig, At, To, FoundAt, RunTypes, Analysing, Reading, Backed
<1>13. ASSUME NEW p \in Runs, hash_file(p) PROVE FoundAt(q)'
  <2>1. /\ pc[p] = "hash" /\ UNCHANGED <<on, issues, output>>
        /\ \/ Put(Temp, Absent)
           \/ UNCHANGED <<content, seen>>
    BY <1>13 DEF hash_file, At
  <2>5. \/ q = p /\ pc'[q] \in {"report", "truncate"}
        \/ pc[q] = "text" /\ pc'[q] = "lost"
        \/ q # p /\ pc'[q] = pc[q]
    BY <1>13, <1>a DEF hash_file, To, RunTypes
  <2>2. /\ pc'[q] \in Analysing => pc[q] \in Analysing
        /\ pc'[q] \in Reading => pc[q] \in Reading
        /\ pc[q] = "done" => pc'[q] = "done"
    BY <2>1, <2>5 DEF Analysing, Reading
  <2>3. seen[q] \subseteq seen'[q] /\ (pc[q] \in Reading => content'[on[q]] \in seen'[q])
    BY <2>1, <1>a, <1>1, PutFound DEF FoundAt
  <2>4. QED
    BY <2>1, <2>2, <2>3, <1>a, FoundStays
<1>14. ASSUME NEW p \in Runs, TruncateSidecar(p) \/ SaveSidecar(p) PROVE FoundAt(q)'
  <2>1. /\ pc[p] \in {"truncate", "save"} /\ UNCHANGED <<content, on, issues, output, seen>>
        /\ \E l \in {"save", "next", "report"} : To(p, l)
    BY <1>14 DEF TruncateSidecar, SaveSidecar, At
  <2>2. /\ pc'[q] \in Analysing => pc[q] \in Analysing
        /\ pc'[q] \in Reading => pc[q] \in Reading
        /\ pc[q] = "done" => pc'[q] = "done"
    BY <2>1, <1>a DEF To, RunTypes, Analysing, Reading
  <2>3. QED
    BY <2>1, <2>2, <1>a, FoundStays DEF FoundAt
<1>15. ASSUME NEW p \in Runs, Assess(p) PROVE FoundAt(q)'
  <2>1. CASE q = p
    <3>1. /\ pc'[q] = "done" /\ output'[q] \subseteq issues[q] /\ pc[q] \in Analysing
          /\ UNCHANGED <<on, seen>>
      BY <1>15, <2>1, <1>a DEF Assess, At, To, RunTypes, Analysing
    <3>2. QED
      BY <3>1, <1>a DEF FoundAt, Backed, Analysing, Reading
  <2>2. QED
    BY <1>15, <2>1, <1>a, <1>c DEF Assess, To, RunTypes, files
<1>16. ASSUME NEW p \in Runs, Again(p) PROVE FoundAt(q)'
  <2>1. CASE q = p
    BY <1>16, <2>1, <1>a DEF Again, To, RunTypes, FoundAt, Analysing, Reading
  <2>2. QED
    BY <1>16, <2>1, <1>a, <1>c DEF Again, To, RunTypes, SeenTypes, files
<1>17. ASSUME NEW p \in Runs, Kill(p) PROVE FoundAt(q)'
  <2>1. To(p, "done") /\ UNCHANGED <<content, on, issues, output, seen>>
    BY <1>17 DEF Kill, files
  <2>2. QED
    BY <2>1, <1>a, FoundStays DEF To, RunTypes, FoundAt, Analysing, Reading
<1>18. CASE UNCHANGED <<run, content, seen>>
  BY <1>18, <1>c DEF run
<1>19. find_qa_files \/ Gating \/ UNCHANGED vars => UNCHANGED <<run, content, seen>>
  BY DEF find_qa_files, Gating, load_qa_file, Decide, vars, files
<1>20. QED
  BY <1>1, <1>2, <1>3, <1>4, <1>5, <1>6, <1>7, <1>8, <1>9, <1>10, <1>11, <1>12, <1>13,
     <1>14, <1>15, <1>16, <1>17, <1>18, <1>19
     DEF Next, Scanning, Saga

\* What a run reports is true of a version its file had while it ran, whatever other
\* runs, tools and kills do to the files, the configuration and the sidecars meanwhile.
THEOREM ReportsAreTrue == Spec => []ReportedWasThere
<1>1. Init => TypeOK /\ PlaceInv /\ FoundInv
  BY InitTypes, InitPlaces, InitFound
<1>2. TypeOK /\ PlaceInv /\ FoundInv /\ [Next]_vars => (TypeOK /\ PlaceInv /\ FoundInv)'
  BY FileTypesStep, RunTypesStep, SeenTypesStep, GateTypesStep, SettingTypesStep, PlaceInvStep,
     FoundInvStep DEF TypeOK
<1>3. FoundInv => ReportedWasThere
  BY DEF FoundInv, FoundAt, Backed, ReportedWasThere
<1>4. QED
  BY <1>1, <1>2, <1>3, PTL DEF Spec

-----------------------------------------------------------------------------
(* Runs that are kept apart *)

\* Every busy label is a step of saga's or of the directory run's.
LEMMA BusyLabels ==
  ASSUME RunTypes, NEW p \in Runs
  PROVE  Busy(p) <=> pc[p] \in Analysing \cup {"text", "lost", "orphans", "unlink", "next"}
  BY DEF RunTypes, Busy, Analysing, Reading

\* A run becomes busy only when every other is at rest and the gate is too.
LEMMA NewlyBusy ==
  ASSUME RunTypes, FileTypes, [Next]_vars
  PROVE  \/ \A q \in Runs : Busy(q)' => Busy(q)
         \/ Quiet /\ UNCHANGED gate /\ \E p \in Runs : \A q \in Runs \ {p} : pc'[q] = pc[q]
<1> DEFINE Goal == \/ \A q \in Runs : Busy(q)' => Busy(q)
                   \/ Quiet /\ UNCHANGED gate /\ \E p \in Runs : \A q \in Runs \ {p} : pc'[q] = pc[q]
<1>a. Directory \in Runs /\ Inputs \subseteq Runs
  BY DEF Runs
<1>1. ASSUME NEW p \in Runs, Hook(p) PROVE Goal
  BY <1>1 DEF Hook, Start, To, RunTypes, Busy
<1>2. CASE Scan
  BY <1>2, <1>a DEF Scan, To, RunTypes
<1>3. ASSUME NEW p \in Inputs, NEW v \in Versions, TruncateTemp(p, v) PROVE Goal
  BY <1>3, <1>a DEF TruncateTemp, To, RunTypes
\* A run that is at work moves on.
<1>b. ASSUME NEW p \in Runs, Busy(p), NEW l, To(p, l) PROVE \A q \in Runs : Busy(q)' => Busy(q)
  BY <1>b DEF Busy, To, RunTypes
<1>4. ASSUME NEW f \in Sources, Orphan(f) \/ Take(f) PROVE Goal
  BY <1>4, <1>a, <1>b DEF Orphan, Take, Start, At, Busy
<1>5. CASE Unlink \/ find_source_files \/ EndScan
  BY <1>5, <1>a, <1>b DEF Unlink, find_source_files, EndScan, At, Busy
<1>6. ASSUME NEW p \in Runs, hash_file(p) PROVE Goal
  <2>1. \A q \in Runs : q # p => pc'[q] = pc[q] \/ pc[q] = "text"
    BY <1>6, <1>a DEF hash_file, To, RunTypes
  <2>2. Busy(p)
    BY <1>6 DEF hash_file, At, Busy
  <2>3. QED
    BY <2>1, <2>2 DEF Busy
<1>7. ASSUME NEW p \in Runs, Saga(p) \/ Kill(p) PROVE Goal
  BY <1>7, <1>b, <1>6 DEF Saga, WriteTemp, Start, run_gleipnir, TruncateConfig, FillConfig, run_ruff,
     TruncateSidecar, SaveSidecar, Assess, Kill, At, Busy
<1>8. ASSUME NEW p \in Runs, Again(p) PROVE Goal
  BY <1>8 DEF Again, To, Busy, RunTypes
<1>9. CASE UNCHANGED pc
  BY <1>9 DEF Busy
<1>10. find_qa_files \/ Gating \/ UNCHANGED vars => UNCHANGED pc
  BY DEF find_qa_files, Gating, load_qa_file, Decide, vars, run
<1>11. (\E f \in Sources, v \in Versions : Edit(f, v)) \/ (\E f \in Sources : Remove(f)) => UNCHANGED pc
  BY DEF Edit, Remove, run
<1>12. QED
  BY <1>1, <1>2, <1>3, <1>4, <1>5, <1>7, <1>8, <1>9, <1>10, <1>11
     DEF Next, Scanning

\* Nothing changes whether runs are kept apart.
LEMMA ApartStays == [Next]_vars => UNCHANGED <<apart, mode, old>>
<1>1. SUFFICES ASSUME [Next]_vars PROVE UNCHANGED setting
  BY DEF setting
<1>2. ASSUME NEW p \in Runs, Hook(p) \/ Saga(p) \/ Again(p) \/ Kill(p) PROVE UNCHANGED setting
  BY <1>2 DEF Hook, Saga, WriteTemp, run_gleipnir, TruncateConfig, FillConfig, run_ruff, hash_file,
     TruncateSidecar, SaveSidecar, Assess, Again, Kill
<1>3. Scan \/ Scanning \/ find_qa_files \/ Gating => UNCHANGED setting
  BY DEF Scan, Scanning, Unlink, find_source_files, EndScan, Orphan, Take, find_qa_files, Gating,
     load_qa_file, Decide
<1>4. \/ \E f \in Sources, v \in Versions : Edit(f, v)
      \/ \E f \in Sources : Remove(f)
      \/ \E p \in Inputs, v \in Versions : TruncateTemp(p, v)
      \/ UNCHANGED vars
      => UNCHANGED setting
  BY DEF Edit, Remove, TruncateTemp, vars
<1>5. QED
  BY <1>1, <1>2, <1>3, <1>4 DEF Next

LEMMA AloneInvStep == TypeOK /\ AloneInv /\ [Next]_vars => AloneInv'
<1>1. SUFFICES ASSUME TypeOK, AloneInv, [Next]_vars, apart PROVE AloneInv'
  BY ApartStays DEF AloneInv
<1>a. RunTypes /\ FileTypes
  BY <1>1 DEF TypeOK
<1>2. CASE \A q \in Runs : Busy(q)' => Busy(q)
  <2>1. CASE UNCHANGED gate
    BY <1>1, <1>2, <2>1 DEF AloneInv, GateIdle
  <2>2. CASE find_qa_files \/ Gating
    <3>1. \A p \in Runs : ~Busy(p)
      BY <1>1, <2>2 DEF AloneInv, GateIdle, find_qa_files, Gating, load_qa_file, Decide
    <3>2. QED
      BY <3>1, <1>2 DEF AloneInv
  <2>3. QED
    BY <2>1, <2>2, <1>1, GateStays
<1>3. CASE Quiet /\ UNCHANGED gate /\ \E p \in Runs : \A q \in Runs \ {p} : pc'[q] = pc[q]
  BY <1>1, <1>3 DEF AloneInv, Quiet, GateIdle, Busy
<1>4. QED
  BY <1>1, <1>a, <1>2, <1>3, NewlyBusy

LEMMA InitAlone == TypeOK /\ Init => AloneInv /\ WholeInv
<1>1. SUFFICES ASSUME TypeOK, Init PROVE AloneInv /\ WholeInv
  OBVIOUS
<1>2. \A p \in Runs : pc[p] = "idle"
  BY <1>1 DEF Init
<1>3. AloneInv /\ \A p \in Runs : WholeAt(p)
  BY <1>2 DEF AloneInv, WholeAt, Busy, LinterDue
<1>4. ASSUME NEW f \in Sources, sidecar[f] \notin {NoReport, Torn}
      PROVE  sidecar[f].issues = AllIssues(f, sidecar[f].hash)
  <2>1. PICK start \in Starts :
          sidecar = [g \in Sources |->
                      IF start.files[g].filed = Absent THEN NoReport ELSE Report(g, start.files[g].filed)]
    BY <1>1 DEF Init
  <2>2. start.files[f].filed \in Contents
    BY StartsAssumption
  <2>3. QED
    BY <1>4, <2>1, <2>2, ReportTypes
<1>5. QED
  BY <1>3, <1>4 DEF WholeInv

LEMMA WholeInvStep ==
  TypeOK /\ PlaceInv /\ AloneInv /\ AloneInv' /\ WholeInv /\ [Next]_vars => WholeInv'
<1>1. SUFFICES ASSUME TypeOK, PlaceInv, AloneInv, AloneInv', WholeInv, [Next]_vars, apart
               PROVE  WholeInv'
  BY ApartStays DEF WholeInv
<1> DEFINE Filed == \A f \in Sources : sidecar[f] \notin {NoReport, Torn} =>
                      sidecar[f].issues = AllIssues(f, sidecar[f].hash)
<1>a. /\ FileTypes /\ RunTypes /\ Filed /\ \A p \in Runs : WholeAt(p)
      /\ Inputs \subseteq Runs /\ Sources \subseteq Files /\ Temp \in Files \ Sources
      /\ Directory \in Runs \ Inputs /\ Hooks \subseteq Runs \ Inputs
      /\ Versions \subseteq Contents /\ {Absent, Empty} \subseteq Contents
  BY <1>1, RunsAssumption, QualityAssumption DEF TypeOK, Files, Contents, Texts, Runs, WholeInv
<1>b. SUFFICES Filed' /\ \A p \in Runs : WholeAt(p)'
  BY DEF WholeInv
\* What a run at work may read of the files stays.
<1>c. ASSUME UNCHANGED <<run, config, sidecar>>,
             \A p \in Runs : Busy(p) => content'[on[p]] = content[on[p]]
      PROVE  Filed' /\ \A p \in Runs : WholeAt(p)'
  <2>1. ASSUME NEW p \in Runs, Busy(p) PROVE WholeAt(p)'
    BY <2>1, <1>c, <1>a DEF WholeAt, run
  <2>2. ASSUME NEW p \in Runs, ~Busy(p) PROVE WholeAt(p)'
    BY <2>2, <1>c DEF WholeAt, run, Busy, LinterDue
  <2>3. QED
    BY <2>1, <2>2, <1>c, <1>a
<1>2. ASSUME NEW f \in Sources, (\E v \in Versions : Edit(f, v)) \/ Remove(f)
      PROVE  Filed' /\ \A p \in Runs : WholeAt(p)'
  <2>1. PICK v : content' = [content EXCEPT ![f] = v]
    BY <1>2 DEF Edit, Remove, Put
  <2>2. \A p \in Runs : Busy(p) => on[p] # f
    BY <1>1, <1>2 DEF Edit, Remove, BusyOn
  <2>3. QED
    BY <1>2, <2>1, <2>2, <1>a, <1>c DEF Edit, Remove, FileTypes
\* One run is at work after the step; the others need no proof.
<1>d. ASSUME NEW p \in Runs, Busy(p)', WholeAt(p)' PROVE \A q \in Runs : WholeAt(q)'
  <2>1. \A q \in Runs : q # p => ~Busy(q)'
    BY <1>1, <1>d, ApartStays DEF AloneInv
  <2>2. \A q \in Runs : ~Busy(q)' => WholeAt(q)'
    BY DEF Busy, WholeAt, LinterDue
  <2>3. QED
    BY <1>d, <2>1, <2>2
<1>e. ASSUME NEW p \in Runs, NEW f, Start(p, f) PROVE \A q \in Runs : WholeAt(q)'
  <2>1. pc'[p] = "check" /\ issues'[p] = {}
    BY <1>e, <1>a DEF Start, To, RunTypes
  <2>2. WholeAt(p)' /\ Busy(p)'
    BY <2>1 DEF WholeAt, LinterDue, Busy
  <2>3. QED
    BY <2>2, <1>d
<1>f. ASSUME UNCHANGED sidecar PROVE Filed'
  BY <1>f, <1>a
\* A run that comes to rest, or has no file.
<1>g. ASSUME NEW p \in Runs, Busy(p), pc'[p] \in {"done", "orphans", "unlink", "next"},
             \A q \in Runs \ {p} : pc'[q] = pc[q]
      PROVE  \A q \in Runs : WholeAt(q)'
  <2>1. \A q \in Runs \ {p} : ~Busy(q)
    BY <1>1, <1>g DEF AloneInv
  <2>2. QED
    BY <2>1, <1>g DEF Busy, WholeAt, LinterDue
<1>3. ASSUME NEW p \in Runs, Hook(p) PROVE Filed' /\ \A q \in Runs : WholeAt(q)'
  <2>1. CASE \E f \in due : Start(p, f)
    BY <1>3, <2>1, <1>e, <1>f DEF Hook
  <2>2. CASE UNCHANGED <<pc, on, issues, seen>>
    BY <1>3, <2>2, <1>c DEF Hook, run
  <2>3. QED
    BY <1>3, <2>1, <2>2 DEF Hook
<1>4. ASSUME NEW f \in Sources, Take(f) PROVE Filed' /\ \A q \in Runs : WholeAt(q)'
  <2>1. CASE Start(Directory, f)
    BY <1>4, <2>1, <1>a, <1>e, <1>f DEF Take, files
  <2>2. CASE UNCHANGED <<pc, on, issues, seen>>
    BY <1>4, <2>2, <1>f, <1>a DEF Take, files, WholeAt
  <2>3. QED
    BY <1>4, <2>1, <2>2 DEF Take
<1>5. ASSUME NEW p \in Inputs, NEW v \in Versions, TruncateTemp(p, v)
      PROVE  Filed' /\ \A q \in Runs : WholeAt(q)'
  <2>1. pc'[p] = "text" /\ UNCHANGED sidecar
    BY <1>5, <1>a DEF TruncateTemp, To, RunTypes
  <2>2. WholeAt(p)' /\ Busy(p)'
    BY <2>1 DEF WholeAt, LinterDue, Busy
  <2>3. QED
    BY <2>1, <2>2, <1>d, <1>f, <1>a
<1>6. ASSUME NEW p \in Runs, WriteTemp(p) PROVE Filed' /\ \A q \in Runs : WholeAt(q)'
  BY <1>6, <1>e, <1>f DEF WriteTemp
<1>7. ASSUME (\E f \in Sources : Orphan(f)) \/ find_source_files \/ EndScan
      PROVE  Filed' /\ \A q \in Runs : WholeAt(q)'
  <2>1. CASE UNCHANGED <<pc, on>>
    BY <1>7, <2>1, <1>f, <1>a DEF Orphan, find_source_files, EndScan, files, WholeAt
  <2>2. CASE \E l \in {"unlink", "next", "done"} : To(Directory, l)
    BY <1>7, <2>2, <1>f, <1>g, <1>a DEF Orphan, find_source_files, EndScan, files, Busy, At, To, RunTypes
  <2>3. QED
    BY <1>7, <2>1, <2>2 DEF Orphan, find_source_files, EndScan
<1>8. CASE Scan
  <2>1. /\ \A q \in Runs : ~Busy(q)
        /\ \A q \in Runs \ {Directory} : pc'[q] = pc[q]
        /\ pc'[Directory] = "orphans"
    BY <1>1, <1>8, <1>a DEF Scan, Quiet, To, RunTypes
  <2>2. QED
    BY <2>1, <1>8, <1>f DEF Scan, files, Busy, WholeAt, LinterDue
<1>9. CASE Unlink
  <2>1. /\ \A q \in Runs \ {Directory} : pc'[q] = pc[q]
        /\ pc'[Directory] = "orphans" /\ Busy(Directory)
        /\ sidecar' = [sidecar EXCEPT ![on[Directory]] = NoReport]
    BY <1>9, <1>a DEF Unlink, To, At, RunTypes, Busy
  <2>2. QED
    BY <2>1, <1>g, <1>a DEF FileTypes
<1>10. ASSUME NEW p \in Runs, Assess(p) \/ Kill(p) PROVE Filed' /\ \A q \in Runs : WholeAt(q)'
  BY <1>10, <1>f, <1>g, <1>a DEF Assess, Kill, To, At, RunTypes, Busy, files
<1>11. ASSUME NEW p \in Runs, Again(p) PROVE Filed' /\ \A q \in Runs : WholeAt(q)'
  BY <1>11, <1>f, <1>a DEF Again, To, At, RunTypes, WholeAt, LinterDue, files
<1>12. ASSUME NEW p \in Runs, run_gleipnir(p) PROVE Filed' /\ \A q \in Runs : WholeAt(q)'
  <2>1. issues[p] = {}
    BY <1>12, <1>a DEF run_gleipnir, At, WholeAt
  <2>2. /\ issues'[p] = FoundBy("gleipnir", content[on[p]])
        /\ pc'[p] = IF on[p] \in Python \cup {Temp} THEN "config" ELSE "hash"
        /\ UNCHANGED <<files, on>>
    BY <1>12, <2>1, <1>a DEF run_gleipnir, To, RunTypes, Checked
  <2>3. WholeAt(p)' /\ Busy(p)'
    BY <2>2 DEF WholeAt, LinterDue, Busy, files, AllIssues
  <2>4. QED
    BY <2>2, <2>3, <1>d, <1>f DEF files
<1>13. ASSUME NEW p \in Runs, TruncateConfig(p) \/ FillConfig(p)
       PROVE  Filed' /\ \A q \in Runs : WholeAt(q)'
  <2>1. /\ pc[p] \in LinterDue /\ pc'[p] \in LinterDue
        /\ pc'[p] = "lint" => config' = "whole"
        /\ UNCHANGED <<content, sidecar, on, issues>>
    BY <1>13, <1>a DEF TruncateConfig, FillConfig, At, To, RunTypes, LinterDue
  <2>2. WholeAt(p)' /\ Busy(p)'
    BY <2>1, <1>a DEF WholeAt, LinterDue, Busy
  <2>3. QED
    BY <2>1, <2>2, <1>d, <1>f
<1>14. ASSUME NEW p \in Runs, run_ruff(p) PROVE Filed' /\ \A q \in Runs : WholeAt(q)'
  <2>1. /\ issues[p] = FoundBy("gleipnir", content[on[p]])
        /\ config = "whole" /\ on[p] \in Python \cup {Temp}
    BY <1>14, <1>1, <1>a DEF run_ruff, At, WholeAt, LinterDue, PlaceInv
  <2>2. issues'[p] = issues[p] \cup Checked("linter", p) /\ pc'[p] = "hash" /\ UNCHANGED <<files, on>>
    BY <1>14, <2>1, <1>a DEF run_ruff, To, RunTypes
  <2>3. issues'[p] = AllIssues(on[p], content[on[p]])
    BY <2>1, <2>2 DEF Checked, AllIssues
  <2>4. WholeAt(p)' /\ Busy(p)'
    BY <2>2, <2>3 DEF WholeAt, LinterDue, Busy, files
  <2>5. QED
    BY <2>2, <2>4, <1>d, <1>f DEF files
<1>15. ASSUME NEW p \in Runs, hash_file(p) PROVE Filed' /\ \A q \in Runs : WholeAt(q)'
  <2>1. CASE p \in Inputs
    <3>1. pc'[p] = "report" /\ UNCHANGED sidecar
      BY <1>15, <2>1, <1>a DEF hash_file
    <3>2. WholeAt(p)' /\ Busy(p)'
      BY <3>1, <2>1 DEF WholeAt, LinterDue, Busy
    <3>3. QED
      BY <3>1, <3>2, <1>d, <1>f
  <2>2. CASE p \notin Inputs
    <3>1. /\ pc'[p] = "truncate" /\ hash'[p] = content[on[p]]
          /\ UNCHANGED <<content, sidecar, on, issues>>
      BY <1>15, <2>2, <1>a DEF hash_file, To, RunTypes
    <3>2. WholeAt(p)' /\ Busy(p)'
      BY <1>15, <3>1, <1>a DEF hash_file, At, WholeAt, LinterDue, Busy
    <3>3. QED
      BY <3>1, <3>2, <1>d, <1>f
  <2>3. QED
    BY <2>1, <2>2
<1>16. ASSUME NEW p \in Runs, TruncateSidecar(p) PROVE Filed' /\ \A q \in Runs : WholeAt(q)'
  <2>1. /\ pc[p] = "truncate" /\ pc'[p] = "save" /\ on[p] \in Sources
        /\ sidecar' = [sidecar EXCEPT ![on[p]] = Torn]
        /\ UNCHANGED <<content, on, issues, hash>>
    BY <1>16, <1>1, <1>a DEF TruncateSidecar, At, To, RunTypes, PlaceInv, Analysing
  <2>2. WholeAt(p)' /\ Busy(p)'
    BY <2>1, <1>a DEF WholeAt, LinterDue, Busy, FileTypes
  <2>3. QED
    BY <2>1, <2>2, <1>d, <1>a DEF FileTypes
<1>17. ASSUME NEW p \in Runs, SaveSidecar(p) PROVE Filed' /\ \A q \in Runs : WholeAt(q)'
  <2>1. /\ on[p] \in Sources /\ content[on[p]] \in Contents /\ sidecar[on[p]] = Torn
        /\ hash[p] = content[on[p]] /\ issues[p] = AllIssues(on[p], content[on[p]])
        /\ Busy(p)
    BY <1>17, <1>1, <1>a DEF SaveSidecar, At, WholeAt, RunTypes, FileTypes, PlaceInv, Analysing, Busy
  <2>2. sidecar' = [sidecar EXCEPT ![on[p]] = Report(on[p], content[on[p]])]
    BY <1>17, <2>1, ReportsAssumption DEF SaveSidecar, Report
  <2>3. /\ pc'[p] = IF p = Directory THEN "next" ELSE "report"
        /\ \A q \in Runs \ {p} : pc'[q] = pc[q]
        /\ UNCHANGED <<content, on>>
    BY <1>17, <1>a DEF SaveSidecar, To, RunTypes
  <2>4. Filed'
    BY <2>1, <2>2, <1>a, ReportTypes DEF FileTypes
  <2>5. CASE p = Directory
    BY <2>1, <2>3, <2>4, <2>5, <1>g
  <2>6. CASE p # Directory
    <3>1. WholeAt(p)' /\ Busy(p)'
      BY <2>1, <2>2, <2>3, <2>6, <1>a DEF WholeAt, LinterDue, Busy, FileTypes
    <3>2. QED
      BY <3>1, <2>4, <1>d
  <2>7. QED
    BY <2>5, <2>6
<1>18. CASE UNCHANGED <<run, files>>
  BY <1>18, <1>c DEF files
<1>19. find_qa_files \/ Gating \/ UNCHANGED vars => UNCHANGED <<run, files>>
  BY DEF find_qa_files, Gating, load_qa_file, Decide, vars
<1>20. QED
  BY <1>1, <1>2, <1>3, <1>4, <1>5, <1>6, <1>7, <1>8, <1>9, <1>10, <1>11, <1>12, <1>13,
     <1>14, <1>15, <1>16, <1>17, <1>18, <1>19
     DEF Next, Scanning, Saga

-----------------------------------------------------------------------------
(* What the directory run has done with *)

LEMMA InitDone == Init => DoneInv
  BY DEF Init, DoneInv, Analysing, Reading, Runs

LEMMA DoneInvStep ==
  TypeOK /\ PlaceInv /\ AloneInv /\ WholeInv /\ DoneInv /\ [Next]_vars => DoneInv'
<1>1. SUFFICES ASSUME TypeOK, PlaceInv, AloneInv, WholeInv, DoneInv, [Next]_vars, apart,
                      pc'[Directory] \in Analysing \cup {"next"},
                      NEW f \in Sources, f \notin due' \cup todo', content'[f] # Absent,
                      pc'[Directory] = "next" \/ on'[Directory] # f
               PROVE  /\ sidecar'[f] # NoReport
                      /\ mode' = "force" => sidecar'[f] = Report(f, content'[f])
  BY ApartStays DEF DoneInv
<1> DEFINE Goal == /\ sidecar'[f] # NoReport
                   /\ mode' = "force" => sidecar'[f] = Report(f, content'[f])
<1>a. /\ FileTypes /\ RunTypes /\ UNCHANGED mode
      /\ Inputs \subseteq Runs /\ Sources \subseteq Files /\ Temp \in Files \ Sources
      /\ Directory \in Runs \ Inputs /\ Directory \notin Hooks
  BY <1>1, RunsAssumption, QualityAssumption, ApartStays DEF TypeOK, Files, Runs
<1>b. /\ content[f] # Absent
      /\ f \notin due \cup todo
      /\ pc[Directory] \in Analysing \cup {"next"}
      /\ pc[Directory] = "next" \/ on[Directory] # f
      => /\ sidecar[f] # NoReport
         /\ mode = "force" => sidecar[f] = Report(f, content[f])
  BY <1>1 DEF DoneInv
\* Nothing happens to f.
<1>c. ASSUME content'[f] = content[f], sidecar'[f] = sidecar[f], f \notin due \cup todo,
             pc[Directory] \in Analysing \cup {"next"},
             pc[Directory] = "next" \/ on[Directory] # f
      PROVE  Goal
  BY <1>c, <1>b, <1>1, <1>a
<1>d. \A l : l \in Analysing \cup {"next"} => l \notin {"idle", "text", "lost", "orphans", "unlink", "done"}
  BY DEF Analysing, Reading
\* While the directory run is at work no other is.
<1>e. ASSUME NEW p \in Runs, Busy(p), pc'[Directory] = pc[Directory] PROVE p = Directory
  BY <1>1, <1>e, <1>a, <1>d DEF AloneInv, Busy
<1>2. ASSUME NEW g \in Sources, (\E v \in Versions : Edit(g, v)) \/ Remove(g) PROVE Goal
  <2>1. UNCHANGED <<run, sidecar>> /\ due \subseteq due'
    BY <1>2 DEF Edit, Remove
  <2>2. PICK v : content' = [content EXCEPT ![g] = v] /\ (g \in due' \/ v = Absent)
    BY <1>2 DEF Edit, Remove, Put
  <2>3. f # g /\ content'[f] = content[f]
    BY <2>2, <1>1, <1>a DEF FileTypes
  <2>4. QED
    BY <2>1, <2>3, <1>c, <1>1 DEF run
<1>3. ASSUME NEW p \in Runs, Hook(p) PROVE Goal
  <2>1. ~Busy(Directory) /\ p # Directory
    BY <1>3, <1>1, <1>a DEF Hook, Quiet
  <2>2. pc'[Directory] = pc[Directory]
    BY <1>3, <2>1, <1>a DEF Hook, Start, To, RunTypes
  <2>3. QED
    BY <2>1, <2>2, <1>1, <1>d DEF Busy
<1>4. ASSUME NEW p \in Inputs, NEW v \in Versions, TruncateTemp(p, v) PROVE Goal
  <2>1. ~Busy(Directory) /\ p # Directory
    BY <1>4, <1>1, <1>a DEF TruncateTemp, Quiet
  <2>2. pc'[Directory] = pc[Directory]
    BY <1>4, <2>1, <1>a DEF TruncateTemp, To, RunTypes
  <2>3. QED
    BY <2>1, <2>2, <1>1, <1>d DEF Busy
<1>5. ASSUME NEW p \in Runs, WriteTemp(p) PROVE Goal
  <2>1. Busy(p) /\ p # Directory
    BY <1>5, <1>a DEF WriteTemp, Busy
  <2>2. pc'[Directory] = pc[Directory]
    BY <1>5, <2>1, <1>a DEF WriteTemp, Start, To, RunTypes
  <2>3. QED
    BY <2>1, <2>2, <1>e
<1>6. ASSUME NEW g \in Sources, Orphan(g) PROVE Goal
  BY <1>6, <1>1, <1>a, <1>d DEF Orphan, At, To, RunTypes
<1>7. CASE Scan \/ Unlink \/ EndScan
  BY <1>7, <1>1, <1>a, <1>d DEF Scan, Unlink, EndScan, To, RunTypes
<1>8. CASE find_source_files
  BY <1>8, <1>1, <1>a DEF find_source_files, files
\* A source that is taken up is done with when it is skipped.
<1>9. ASSUME NEW g \in Sources, Take(g) PROVE Goal
  <2>1. /\ pc[Directory] = "next" /\ todo' = todo \ {g} /\ UNCHANGED files
        /\ \/ mode # "force" /\ sidecar[g] # NoReport
           \/ pc'[Directory] = "check" /\ on'[Directory] = g
    BY <1>9, <1>a DEF Take, At, Start, To, RunTypes
  <2>2. CASE f = g
    BY <2>1, <2>2, <1>1, <1>a DEF files
  <2>3. CASE f # g
    BY <2>1, <2>3, <1>c, <1>1 DEF files
  <2>4. QED
    BY <2>2, <2>3
<1>10. ASSUME NEW p \in Runs,
             run_gleipnir(p) \/ TruncateConfig(p) \/ FillConfig(p) \/ run_ruff(p) \/ TruncateSidecar(p)
      PROVE  Goal
  <2>1. /\ pc[p] \in Analysing /\ Busy(p) /\ UNCHANGED <<content, due, todo, on>>
        /\ pc'[p] \in Analysing
        /\ sidecar' = sidecar \/ sidecar' = [sidecar EXCEPT ![on[p]] = Torn]
        /\ \A q \in Runs \ {p} : pc'[q] = pc[q]
    BY <1>10, <1>a DEF run_gleipnir, TruncateConfig, FillConfig, run_ruff, TruncateSidecar, At, To,
       RunTypes, Analysing, Reading, Busy, files
  <2>2. p = Directory
    BY <2>1, <1>e, <1>a
  <2>3. on[Directory] # f
    BY <2>1, <2>2, <1>1 DEF Analysing, Reading
  <2>4. sidecar'[f] = sidecar[f]
    BY <2>1, <2>2, <2>3, <1>a DEF FileTypes
  <2>5. QED
    BY <2>1, <2>2, <2>3, <2>4, <1>c, <1>1
<1>11. ASSUME NEW p \in Runs, hash_file(p) PROVE Goal
  <2>1. /\ pc[p] = "hash" /\ Busy(p) /\ UNCHANGED <<sidecar, due, todo, on>>
        /\ \A q \in Runs \ {p} : pc'[q] = pc[q] \/ (pc[q] = "text" /\ pc'[q] = "lost")
        /\ p \notin Inputs => pc'[p] = "truncate" /\ UNCHANGED content
    BY <1>11, <1>a DEF hash_file, At, To, RunTypes, Busy
  <2>2. p = Directory
    BY <2>1, <1>e, <1>d, <1>1, <1>a
  <2>3. QED
    BY <2>1, <2>2, <1>c, <1>1, <1>a DEF Analysing, Reading
\* A source that was analysed is done with when its sidecar is written.
<1>12. ASSUME NEW p \in Runs, SaveSidecar(p) PROVE Goal
  <2>1. /\ pc[p] = "save" /\ Busy(p) /\ UNCHANGED <<content, due, todo, on>>
        /\ \A q \in Runs \ {p} : pc'[q] = pc[q]
    BY <1>12, <1>a DEF SaveSidecar, At, To, RunTypes, Busy
  <2>2. p = Directory
    BY <2>1, <1>e, <1>a
  <2>3. /\ on[p] \in Sources /\ sidecar[on[p]] = Torn
        /\ hash[p] = content[on[p]] /\ issues[p] = AllIssues(on[p], content[on[p]])
    BY <2>1, <2>2, <1>1, <1>a DEF WholeInv, WholeAt, RunTypes, Analysing
  <2>4. sidecar' = [sidecar EXCEPT ![on[p]] = Report(on[p], content[on[p]])]
    BY <1>12, <2>3, ReportsAssumption DEF SaveSidecar, Report
  <2>5. Report(on[p], content[on[p]]) # NoReport
    BY <2>3, <1>a, ReportTypes DEF FileTypes
  <2>6. CASE f = on[p]
    BY <2>1, <2>3, <2>4, <2>5, <2>6, <1>a DEF FileTypes
  <2>7. CASE f # on[p]
    BY <2>1, <2>2, <2>3, <2>4, <2>7, <1>1, <1>a, <1>c DEF FileTypes, Analysing
  <2>8. QED
    BY <2>6, <2>7
<1>13. ASSUME NEW p \in Runs, Assess(p) \/ Kill(p) PROVE Goal
  <2>1. Busy(p) /\ pc'[p] = "done" /\ \A q \in Runs \ {p} : pc'[q] = pc[q]
    BY <1>13, <1>a DEF Assess, Kill, At, To, RunTypes, Busy
  <2>2. QED
    BY <2>1, <1>e, <1>1, <1>a, <1>d
<1>14. ASSUME NEW p \in Runs, Again(p) PROVE Goal
  <2>1. /\ UNCHANGED <<content, sidecar, due, todo>> /\ p # Directory
        /\ pc'[Directory] = pc[Directory] /\ on'[Directory] = on[Directory]
    BY <1>14, <1>a DEF Again, To, RunTypes, files
  <2>2. QED
    BY <2>1, <1>c, <1>1
<1>15. CASE UNCHANGED <<run, files>>
  BY <1>15, <1>c, <1>1 DEF run, files
<1>16. find_qa_files \/ Gating \/ UNCHANGED vars => UNCHANGED <<run, files>>
  BY DEF find_qa_files, Gating, load_qa_file, Decide, vars
<1>17. QED
  BY <1>1, <1>2, <1>3, <1>4, <1>5, <1>6, <1>7, <1>8, <1>9, <1>10, <1>11, <1>12, <1>13,
     <1>14, <1>15, <1>16
     DEF Next, Scanning, Saga

\* The invariant of runs that are kept apart.
SagaInv == TypeOK /\ PlaceInv /\ AloneInv /\ WholeInv /\ DoneInv

LEMMA InitSaga == Init => SagaInv
  BY InitTypes, InitPlaces, InitAlone, InitDone DEF SagaInv

LEMMA SagaInvStep == SagaInv /\ [Next]_vars => SagaInv'
<1>1. TypeOK /\ [Next]_vars => TypeOK'
  BY FileTypesStep, RunTypesStep, SeenTypesStep, GateTypesStep, SettingTypesStep DEF TypeOK
<1>2. QED
  BY <1>1, PlaceInvStep, AloneInvStep, WholeInvStep, DoneInvStep DEF SagaInv

\* Runs that are kept apart leave whole sidecars that are true of their hash, and a
\* directory run leaves no source without one, nor with --force one that is out of date.
THEOREM SidecarsAreTrue == Spec => []SidecarTrue
<1>1. SagaInv => SidecarTrue
  <2>1. SUFFICES ASSUME SagaInv, apart PROVE SidecarTrue
    BY DEF SidecarTrue
  <2>2. \A f \in Sources : sidecar[f] \notin {NoReport, Torn} =>
          sidecar[f].issues = AllIssues(f, sidecar[f].hash)
    BY <2>1 DEF SagaInv, WholeInv
  <2>3. At(Directory, "next") /\ todo = {} =>
          \A f \in Sources \ due : content[f] # Absent =>
            sidecar[f] # NoReport /\ (mode = "force" => sidecar[f] = Report(f, content[f]))
    BY <2>1 DEF SagaInv, DoneInv, At
  <2>4. QED
    BY <2>1, <2>2, <2>3 DEF SidecarTrue
<1>2. QED
  BY <1>1, InitSaga, SagaInvStep, PTL DEF Spec

-----------------------------------------------------------------------------
(* The gate *)

LEMMA InitFresh == Init => FreshInv /\ GateInv
<1>1. SUFFICES ASSUME Init PROVE FreshInv /\ GateInv
  OBVIOUS
<1>2. GateInv
  BY <1>1 DEF Init, GateInv, NoGate
<1>3. ASSUME NEW f \in Sources \ old, content[f] # Absent, sidecar[f] # NoReport
      PROVE  sidecar[f] = Report(f, content[f])
  <2>1. PICK start \in Starts :
          /\ content = [g \in Files |-> IF g = Temp THEN Absent ELSE start.files[g].content]
          /\ sidecar = [g \in Sources |->
                         IF start.files[g].filed = Absent THEN NoReport ELSE Report(g, start.files[g].filed)]
          /\ old = {g \in Sources : Absent \notin {start.files[g].content, start.files[g].filed}
                                 /\ start.files[g].filed # start.files[g].content}
    BY <1>1 DEF Init
  <2>2. content[f] = start.files[f].content
    BY <2>1, <1>3 DEF Files
  <2>3. start.files[f].filed # Absent /\ sidecar[f] = Report(f, start.files[f].filed)
    BY <2>1, <1>3
  <2>4. QED
    BY <2>1, <2>2, <2>3, <1>3
<1>4. QED
  BY <1>2, <1>3 DEF FreshInv

LEMMA FreshInvStep == SagaInv /\ FreshInv /\ [Next]_vars => FreshInv'
<1>1. SUFFICES ASSUME SagaInv, FreshInv, [Next]_vars, apart, kills' = 0,
                      NEW f \in Sources, f \notin due' \cup old, content'[f] # Absent,
                      sidecar'[f] # NoReport,
                      \A p \in Runs : ~(pc'[p] \in Analysing /\ on'[p] = f)
               PROVE  sidecar'[f] = Report(f, content'[f])
  BY ApartStays DEF FreshInv
<1> DEFINE Goal == sidecar'[f] = Report(f, content'[f])
<1>a. /\ FileTypes /\ RunTypes /\ kills \in Nat
      /\ Inputs \subseteq Runs /\ Sources \subseteq Files /\ Temp \in Files \ Sources
      /\ Directory \in Runs \ Inputs
  BY <1>1, RunsAssumption, QualityAssumption DEF SagaInv, TypeOK, SettingTypes, Files, Runs
<1>b. \/ kills = 0
      \/ \E p \in Runs : Kill(p)
  <2>1. ASSUME NEW p \in Runs, Hook(p) \/ Saga(p) \/ Again(p) PROVE UNCHANGED kills
    BY <2>1 DEF Hook, Saga, WriteTemp, run_gleipnir, TruncateConfig, FillConfig, run_ruff, hash_file,
       TruncateSidecar, SaveSidecar, Assess, Again
  <2>2. Scan \/ Scanning \/ find_qa_files \/ Gating => UNCHANGED kills
    BY DEF Scan, Scanning, Unlink, find_source_files, EndScan, Orphan, Take, find_qa_files, Gating,
       load_qa_file, Decide
  <2>3. \/ \E g \in Sources, v \in Versions : Edit(g, v)
        \/ \E g \in Sources : Remove(g)
        \/ \E p \in Inputs, v \in Versions : TruncateTemp(p, v)
        \/ UNCHANGED vars
        => UNCHANGED kills
    BY DEF Edit, Remove, TruncateTemp, vars
  <2>4. QED
    BY <1>1, <2>1, <2>2, <2>3 DEF Next
<1>2. ASSUME NEW p \in Runs, Kill(p) PROVE FALSE
  BY <1>2, <1>1, <1>a DEF Kill
\* Nothing happens to f, and no run was at work on it.
<1>c. ASSUME content'[f] = content[f], sidecar'[f] = sidecar[f], f \notin due,
             \A p \in Runs : pc[p] \in Analysing /\ on[p] = f => pc'[p] \in Analysing /\ on'[p] = f
      PROVE  Goal
  BY <1>c, <1>b, <1>1, <1>2 DEF FreshInv
\* Only the run p moves, and not from a place where it has f in its hands.
<1>d. ASSUME NEW p \in Runs, content'[f] = content[f], sidecar'[f] = sidecar[f], f \notin due,
             \A q \in Runs \ {p} : pc'[q] = pc[q] /\ on'[q] = on[q],
             pc[p] \notin Analysing \/ on[p] # f \/ (pc'[p] \in Analysing /\ on'[p] = f)
      PROVE  Goal
  BY <1>d, <1>c
<1>e. {"idle", "text", "lost", "orphans", "unlink", "next", "done"} \cap Analysing = {}
  BY DEF Analysing, Reading
<1>3. ASSUME NEW g \in Sources, (\E v \in Versions : Edit(g, v)) \/ Remove(g) PROVE Goal
  <2>1. UNCHANGED <<run, sidecar>> /\ due \subseteq due'
    BY <1>3 DEF Edit, Remove
  <2>2. PICK v : content' = [content EXCEPT ![g] = v] /\ (g \in due' \/ v = Absent)
    BY <1>3 DEF Edit, Remove, Put
  <2>3. f # g /\ content'[f] = content[f]
    BY <2>2, <1>1, <1>a DEF FileTypes
  <2>4. QED
    BY <2>1, <2>3, <1>c, <1>1 DEF run
<1>4. ASSUME NEW p \in Runs, Hook(p) PROVE Goal
  <2>1. PICK g \in due : Hook(p)!(g)
    BY <1>4 DEF Hook
  <2>2. f # g
    BY <2>1, <1>1, <1>a DEF Start, To, RunTypes, FileTypes, Analysing, Reading
  <2>3. f \notin due /\ UNCHANGED <<content, sidecar>> /\ pc[p] = "idle"
    BY <2>1, <2>2, <1>1 DEF At
  <2>4. \A q \in Runs \ {p} : pc'[q] = pc[q] /\ on'[q] = on[q]
    BY <2>1, <1>a DEF Start, To, RunTypes
  <2>5. QED
    BY <2>3, <2>4, <1>d, <1>e
<1>5. ASSUME NEW g \in Sources, Take(g) \/ Orphan(g) PROVE Goal
  <2>1. /\ pc[Directory] \in {"next", "orphans"} /\ UNCHANGED files
        /\ \A q \in Runs \ {Directory} : pc'[q] = pc[q] /\ on'[q] = on[q]
    BY <1>5, <1>a DEF Take, Orphan, At, Start, To, RunTypes
  <2>2. QED
    BY <2>1, <1>1, <1>a, <1>d, <1>e DEF files
<1>6. ASSUME NEW p \in Runs, WriteTemp(p) \/ (\E v \in Versions : TruncateTemp(p, v)) PROVE Goal
  <2>1. /\ pc[p] \in {"idle", "text", "lost"} /\ UNCHANGED <<sidecar, due>>
        /\ \E v : content' = [content EXCEPT ![Temp] = v]
        /\ \A q \in Runs \ {p} : pc'[q] = pc[q] /\ on'[q] = on[q]
    BY <1>6, <1>a DEF WriteTemp, TruncateTemp, Put, At, Start, To, RunTypes
  <2>2. content'[f] = content[f]
    BY <2>1, <1>a DEF FileTypes
  <2>3. QED
    BY <2>1, <2>2, <1>1, <1>a, <1>d, <1>e
<1>7. CASE Scan \/ find_source_files \/ EndScan
  <2>1. /\ pc[Directory] \in {"idle", "next", "orphans"} /\ UNCHANGED <<files, on>>
        /\ \A q \in Runs \ {Directory} : pc'[q] = pc[q]
    BY <1>7, <1>a DEF Scan, find_source_files, EndScan, At, To, RunTypes
  <2>2. QED
    BY <2>1, <1>1, <1>a, <1>d, <1>e DEF files
<1>8. CASE Unlink
  <2>1. /\ pc[Directory] = "unlink" /\ UNCHANGED <<content, due>>
        /\ sidecar' = [sidecar EXCEPT ![on[Directory]] = NoReport]
        /\ \A q \in Runs \ {Directory} : pc'[q] = pc[q] /\ on'[q] = on[q]
    BY <1>8, <1>a DEF Unlink, At, To, RunTypes
  <2>2. sidecar'[f] = sidecar[f]
    BY <2>1, <1>1, <1>a DEF FileTypes
  <2>3. QED
    BY <2>1, <2>2, <1>1, <1>a, <1>d, <1>e
<1>9. ASSUME NEW p \in Runs,
             run_gleipnir(p) \/ TruncateConfig(p) \/ FillConfig(p) \/ run_ruff(p) \/ TruncateSidecar(p)
      PROVE  Goal
  <2>1. /\ pc[p] \in Analysing /\ UNCHANGED <<content, due, on>>
        /\ pc'[p] \in Analysing
        /\ sidecar' = sidecar \/ sidecar' = [sidecar EXCEPT ![on[p]] = Torn]
        /\ \A q \in Runs \ {p} : pc'[q] = pc[q]
    BY <1>9, <1>a DEF run_gleipnir, TruncateConfig, FillConfig, run_ruff, TruncateSidecar, At, To,
       RunTypes, Analysing, Reading, files
  <2>2. on[p] # f
    BY <2>1, <1>1
  <2>3. sidecar'[f] = sidecar[f]
    BY <2>1, <2>2, <1>a DEF FileTypes
  <2>4. QED
    BY <2>1, <2>2, <2>3, <1>d, <1>1
<1>10. ASSUME NEW p \in Runs, hash_file(p) PROVE Goal
  <2>1. /\ UNCHANGED <<sidecar, due, on>> /\ pc'[p] \in Analysing
        /\ content' = content \/ content' = [content EXCEPT ![Temp] = Absent]
        /\ \A q \in Runs \ {p} : pc'[q] = pc[q] \/ pc[q] = "text"
    BY <1>10, <1>a DEF hash_file, Put, To, RunTypes, Analysing
  <2>2. content'[f] = content[f]
    BY <2>1, <1>a DEF FileTypes
  <2>3. QED
    BY <2>1, <2>2, <1>c, <1>e, <1>1
<1>11. ASSUME NEW p \in Runs, SaveSidecar(p) PROVE Goal
  <2>1. /\ pc[p] = "save" /\ UNCHANGED <<content, due, on>>
        /\ \A q \in Runs \ {p} : pc'[q] = pc[q]
    BY <1>11, <1>a DEF SaveSidecar, At, To, RunTypes
  <2>2. /\ on[p] \in Sources /\ sidecar[on[p]] = Torn
        /\ hash[p] = content[on[p]] /\ issues[p] = AllIssues(on[p], content[on[p]])
    BY <2>1, <1>1, <1>a DEF SagaInv, WholeInv, WholeAt, PlaceInv, RunTypes, Analysing
  <2>3. sidecar' = [sidecar EXCEPT ![on[p]] = Report(on[p], content[on[p]])]
    BY <1>11, <2>2, ReportsAssumption DEF SaveSidecar, Report
  <2>4. CASE f = on[p]
    BY <2>1, <2>2, <2>3, <2>4, <1>a DEF FileTypes
  <2>5. CASE f # on[p]
    BY <2>1, <2>2, <2>3, <2>5, <1>1, <1>a, <1>d DEF FileTypes
  <2>6. QED
    BY <2>4, <2>5
\* What a hook's run has filed is about what its file still holds.
<1>12. ASSUME NEW p \in Runs, Assess(p) PROVE Goal
  <2>1. /\ pc[p] = "report" /\ UNCHANGED <<files, on>>
        /\ \A q \in Runs \ {p} : pc'[q] = pc[q]
    BY <1>12, <1>a DEF Assess, At, To, RunTypes
  <2>2. CASE on[p] = f
    <3>1. p \notin Inputs
      BY <2>1, <2>2, <1>a DEF RunTypes, Analysing
    <3>2. QED
      BY <2>1, <2>2, <3>1, <1>1 DEF SagaInv, WholeInv, WholeAt, files
  <2>3. CASE on[p] # f
    BY <2>1, <2>3, <1>1, <1>d DEF files
  <2>4. QED
    BY <2>2, <2>3
<1>13. ASSUME NEW p \in Runs, Again(p) PROVE Goal
  <2>1. /\ pc[p] = "done" /\ UNCHANGED files
        /\ \A q \in Runs \ {p} : pc'[q] = pc[q] /\ on'[q] = on[q]
    BY <1>13, <1>a DEF Again, At, To, RunTypes
  <2>2. QED
    BY <2>1, <1>1, <1>d, <1>e DEF files
<1>14. CASE UNCHANGED <<run, files>>
  BY <1>14, <1>c, <1>1 DEF run, files
<1>15. find_qa_files \/ Gating \/ UNCHANGED vars => UNCHANGED <<run, files>>
  BY DEF find_qa_files, Gating, load_qa_file, Decide, vars
<1>16. ASSUME NEW p \in Inputs, NEW v \in Versions, TruncateTemp(p, v) PROVE Goal
  BY <1>16, <1>6, <1>a
<1>17. QED
  BY <1>1, <1>2, <1>3, <1>4, <1>5, <1>6, <1>7, <1>8, <1>9, <1>10, <1>11, <1>12, <1>13,
     <1>14, <1>15, <1>16
     DEF Next, Scanning, Saga

\* While the gate reads, neither sidecars nor runs change.
LEMMA GateReadsStill ==
  ASSUME TypeOK, AloneInv, apart, gate.at = "load", [Next]_vars, \A p \in Runs : ~Busy(p)
  PROVE  UNCHANGED sidecar /\ \A p \in Runs : ~Busy(p)'
<1>a. RunTypes /\ Directory \in Runs /\ ~GateIdle
  BY DEF TypeOK, Runs, GateIdle
<1>1. ~Quiet
  BY <1>a DEF Quiet
<1>2. \A p \in Runs : ~Hook(p) /\ ~Kill(p)
  BY <1>1 DEF Hook, Kill
<1>3. \A p \in Runs : ~Saga(p)
  BY DEF Saga, WriteTemp, run_gleipnir, TruncateConfig, FillConfig, run_ruff, hash_file, TruncateSidecar,
     SaveSidecar, Assess, At, Busy
<1>4. ~Scan /\ ~Scanning
  BY <1>1, <1>a DEF Scan, Scanning, Unlink, find_source_files, EndScan, Orphan, Take, At, Busy
<1>5. ~(\E p \in Inputs, v \in Versions : TruncateTemp(p, v))
  BY <1>1 DEF TruncateTemp
<1>6. ASSUME NEW p \in Runs, Again(p) PROVE UNCHANGED sidecar /\ \A q \in Runs : ~Busy(q)'
  BY <1>6, <1>a DEF Again, To, RunTypes, Busy, files
<1>7. ASSUME \/ \E f \in Sources, v \in Versions : Edit(f, v)
             \/ \E f \in Sources : Remove(f)
             \/ find_qa_files \/ Gating \/ UNCHANGED vars
      PROVE  UNCHANGED <<sidecar, pc>>
  BY <1>7 DEF Edit, Remove, find_qa_files, Gating, load_qa_file, Decide, vars, run, files
<1>8. QED
  BY <1>2, <1>3, <1>4, <1>5, <1>6, <1>7 DEF Next, Busy

LEMMA GateInvStep == SagaInv /\ GateInv /\ [Next]_vars => GateInv'
<1>1. SUFFICES ASSUME SagaInv, GateInv, [Next]_vars, apart, gate'.at = "load" PROVE GateInv'
  BY ApartStays DEF GateInv
<1>a. FileTypes /\ GateTypes /\ TypeOK /\ AloneInv
  BY <1>1 DEF SagaInv, TypeOK
<1>2. CASE find_qa_files
  <2>1. /\ \A p \in Runs : ~Busy(p)
        /\ gate'.todo = {f \in Sources \ Tests : sidecar[f] # NoReport}
        /\ UNCHANGED <<files, run>>
    BY <1>2, <1>1, <1>a DEF find_qa_files, GateTypes
  <2>2. QED
    BY <2>1 DEF GateInv, files, run, Busy
<1>3. ASSUME NEW f \in Sources, load_qa_file(f) PROVE GateInv'
  <2>1. /\ gate.at = "load" /\ gate'.todo = gate.todo \ {f}
        /\ gate'.read = IF sidecar[f] \in {NoReport, Torn} THEN gate.read
                        ELSE gate.read \cup {<<f, i>> : i \in sidecar[f].issues}
        /\ UNCHANGED <<files, run>>
    BY <1>3, <1>a DEF load_qa_file, GateTypes
  <2>2. QED
    BY <2>1, <1>1 DEF GateInv, files, run, Busy
<1>4. CASE UNCHANGED gate
  <2>1. \A p \in Runs : ~Busy(p)
    BY <1>1, <1>4 DEF GateInv
  <2>2. UNCHANGED sidecar /\ \A p \in Runs : ~Busy(p)'
    BY <1>1, <1>4, <1>a, <2>1, GateReadsStill
  <2>3. QED
    BY <1>1, <1>4, <2>2 DEF GateInv
<1>5. ~Decide
  BY <1>1, <1>a DEF Decide, GateTypes
<1>6. QED
  BY <1>1, <1>2, <1>3, <1>4, <1>5, GateStays DEF Gating

\* Runs that are kept apart and not killed, and hooks that have caught up: the gate lets
\* no source pass whose report says what denies, and the report says what is there.
THEOREM TheGateIsSound == Spec => GateSound
<1> DEFINE Sound == apart /\ kills = 0 /\ due = {} /\ Decide /\ gate'.decision # "deny" =>
       \A f \in Sources \ (Tests \cup old) : content[f] # Absent /\ sidecar[f] # NoReport =>
         AllIssues(f, content[f]) \cap Warn \cap Deny = {}
<1>1. SagaInv /\ FreshInv /\ GateInv => Sound
  <2>1. SUFFICES ASSUME SagaInv, FreshInv, GateInv, apart, kills = 0, due = {}, Decide,
                        gate'.decision # "deny",
                        NEW f \in Sources \ (Tests \cup old), content[f] # Absent,
                        sidecar[f] # NoReport,
                        NEW i \in AllIssues(f, content[f]), i \in Warn, i \in Deny
                 PROVE  FALSE
    OBVIOUS
  <2>a. FileTypes /\ GateTypes
    BY <2>1 DEF SagaInv, TypeOK
  <2>2. gate.at = "load" /\ gate.todo = {} /\ gate'.decision = apply_filters(gate.read)
    BY <2>1, <2>a DEF Decide, GateTypes
  <2>3. \A p \in Runs : pc[p] \notin Analysing
    BY <2>1, <2>2 DEF GateInv, Busy, Analysing, Reading
  <2>4. sidecar[f] = Report(f, content[f]) /\ content[f] \in Contents
    BY <2>1, <2>3, <2>a DEF FreshInv, FileTypes, Files
  <2>5. sidecar[f] \notin {NoReport, Torn} /\ sidecar[f].issues = AllIssues(f, content[f])
    BY <2>4, ReportTypes
  <2>6. <<f, i>> \in gate.read
    BY <2>1, <2>2, <2>5 DEF GateInv
  <2>7. apply_filters(gate.read) = "deny"
    BY <2>1, <2>6 DEF apply_filters
  <2>8. QED
    BY <2>1, <2>2, <2>7
<1>2. Spec => [](SagaInv /\ FreshInv /\ GateInv)
  BY InitSaga, InitFresh, SagaInvStep, FreshInvStep, GateInvStep, PTL DEF Spec
<1>3. Spec => [][Sound]_vars
  BY <1>1, <1>2, PTL
<1>4. QED
  BY <1>3 DEF GateSound

-----------------------------------------------------------------------------
(* Layering *)

(* What was found of a file since it was written is what the checks find in it. *)
GuardInv ==
  /\ tree \in [FilePaths -> PythonSources \cup {NoSource}]
  /\ DOMAIN findings = FilePaths
  /\ \A p \in FilePaths : findings[p] # Unchecked =>
       tree[p] \in PythonSources /\ findings[p] = run_checks_v2(p, tree[p])

LEMMA InitGuard == GuardInit => GuardInv
BY DEF GuardInit, GuardInv

LEMMA GuardInvStep == GuardInv /\ [GuardNext]_guardVars => GuardInv'
<1> SUFFICES ASSUME GuardInv, [GuardNext]_guardVars PROVE GuardInv'
  OBVIOUS
<1> USE DEF GuardInv
<1>1. ASSUME NEW p \in FilePaths, WriteSource(p) PROVE GuardInv'
  BY <1>1 DEF WriteSource
<1>2. ASSUME NEW p \in FilePaths, RemoveSource(p) PROVE GuardInv'
  BY <1>2 DEF RemoveSource
<1>3. ASSUME NEW p \in FilePaths, CheckSource(p) PROVE GuardInv'
  BY <1>3 DEF CheckSource
<1>4. CASE UNCHANGED guardVars
  BY <1>4 DEF guardVars
<1> QED
  BY <1>1, <1>2, <1>3, <1>4 DEF GuardNext

LEMMA Prefix ==
  ASSUME NEW s \in Seq(STRING), NEW n \in 0 .. Len(s)
  PROVE  /\ SubSeq(s, 1, n) \in Seq(STRING) /\ Len(SubSeq(s, 1, n)) = n
         /\ \A k \in 1 .. n : SubSeq(s, 1, n)[k] = s[k]
<1>1. \A k \in 1 .. Len(s) : s[k] \in STRING
  BY ElementOfSeq
<1>2. n \in Nat /\ \A k \in 1 .. n : s[k] \in STRING
  BY <1>1
<1>3. /\ SubSeq(s, 1, n) \in Seq(STRING) /\ Len(SubSeq(s, 1, n)) = IF 1 <= n THEN n - 1 + 1 ELSE 0
      /\ \A k \in 1 .. n - 1 + 1 : SubSeq(s, 1, n)[k] = s[1 + k - 1]
  BY <1>2, SubSeqProperties
<1> DEFINE t == SubSeq(s, 1, n)
<1> HIDE DEF t
<1>4. Len(t) = n
  BY <1>2, <1>3 DEF t
<1>5. \A k \in 1 .. n : t[k] = s[k]
  BY <1>2, <1>3 DEF t
<1> QED
  BY <1>3, <1>4, <1>5 DEF t

LEMMA InitialOf ==
  \A s \in Seq(STRING) \ {<<>>} :
    /\ Len(s) \in Nat \ {0} /\ Initial(s) \in Seq(STRING) /\ Len(Initial(s)) = Len(s) - 1
    /\ \A k \in 1 .. Len(s) - 1 : Initial(s)[k] = s[k]
<1> SUFFICES ASSUME NEW s \in Seq(STRING) \ {<<>>}
    PROVE  /\ Len(s) \in Nat \ {0} /\ Initial(s) \in Seq(STRING) /\ Len(Initial(s)) = Len(s) - 1
           /\ \A k \in 1 .. Len(s) - 1 : Initial(s)[k] = s[k]
  OBVIOUS
<1>1. Len(s) \in Nat \ {0} /\ Len(s) - 1 \in 0 .. Len(s)
  BY EmptySeq
<1> QED
  BY <1>1, Prefix DEF Initial

(* A directory marker ends at the last name or before. *)
LEMMA BelowInitial ==
  ASSUME NEW s \in Seq(STRING) \ {<<>>}, NEW a, NEW b
  PROVE  /\ Below(a, b, Initial(s)) => Below(a, b, s)
         /\ Below(a, b, s) /\ Final(s) # b => Below(a, b, Initial(s))
<1> DEFINE t == Initial(s)
<1>1. /\ Len(s) \in Nat \ {0} /\ Len(t) = Len(s) - 1
      /\ \A k \in 1 .. Len(s) - 1 : t[k] = s[k]
  BY InitialOf
<1> HIDE DEF t
<1>2. ASSUME Below(a, b, t) PROVE Below(a, b, s)
  BY <1>1, <1>2 DEF Below
<1>3. ASSUME Below(a, b, s), Final(s) # b PROVE Below(a, b, t)
  <2>1. PICK k \in 1 .. Len(s) - 1 : s[k] = a /\ s[k + 1] = b
    BY <1>3 DEF Below
  <2>2. k \in 1 .. Len(t) - 1
    BY <1>1, <1>3, <2>1 DEF Final
  <2> QED
    BY <1>1, <2>1, <2>2 DEF Below
<1> QED
  BY <1>2, <1>3 DEF t

(* The zone of a file that has a level of its own, which its name gives. *)
LEMMA PlacedClass ==
  ASSUME NEW q \in Seq(STRING), q # <<>>, Placed(q)
  PROVE  LET zone == ZoneOf(Initial(q)) IN
         /\ zone \in LogicZones
         /\ classify_file_v2(q) = [level |-> LevelNamed(Final(q), zone), zone |-> zone]
         /\ LevelNamed(Final(q), zone) \in 1 .. 7
         /\ Final(q) \in {"ffi", "primitive", "simple", "dispatch", "composed", "assembled", "orchestrate"}
         /\ Final(q) = "orchestrate" => zone = "Orchestrate"
<1> DEFINE zone == ZoneOf(Initial(q))
           named == LevelNamed(Final(q), zone)
<1>1. zone \in LogicZones \cup StructureZones \cup {"none"}
  BY DEF ZoneOf, LogicZones, StructureZones
<1>2. /\ Final(q) \notin {"cli", "__main__", "__init__"}
      /\ zone \in LogicZones /\ named \in LevelsOf(zone)
      /\ classify_file_v2(q) = [level |-> named, zone |-> zone]
  BY <1>1 DEF Placed, classify_file_v2, Outside, LogicZones, StructureZones
<1>3. named \in 1 .. 7 /\ (zone # "Orchestrate" => named \in 1 .. 5)
  BY <1>2 DEF LevelsOf
<1>4. Final(q) \in {"ffi", "primitive", "simple", "dispatch", "composed", "assembled", "orchestrate"}
  BY <1>3 DEF LevelNamed, Outside
<1>5. Final(q) = "orchestrate" => zone = "Orchestrate"
  BY <1>3 DEF LevelNamed
<1> QED
  BY <1>2, <1>3, <1>4, <1>5

(* An import path that leads to such a file stands where the file does. *)
LEMMA PathOfPlaced ==
  ASSUME NEW q \in Seq(STRING) \ {<<>>}, Placed(q)
  PROVE  classify_import_path(q) = classify_file_v2(q) /\ classify_import_path(q) # NoClass
<1> DEFINE zone == ZoneOf(Initial(q))
<1>1. /\ zone \in LogicZones
      /\ classify_file_v2(q) = [level |-> LevelNamed(Final(q), zone), zone |-> zone]
      /\ LevelNamed(Final(q), zone) \in 1 .. 7
      /\ Final(q) \in {"ffi", "primitive", "simple", "dispatch", "composed", "assembled", "orchestrate"}
      /\ Final(q) = "orchestrate" => zone = "Orchestrate"
  BY PlacedClass
<1>2. \A b \in {"pure", "impure", "transform"} : Below("logic", b, Initial(q)) <=> Below("logic", b, q)
  BY <1>1, BelowInitial
<1>3. Below("logic", "orchestrate", Initial(q)) => Below("logic", "orchestrate", q)
  BY BelowInitial
<1>4. ZoneOf(q) = zone
  <2>1. CASE zone = "Orchestrate"
    BY <1>2, <1>3, <2>1 DEF ZoneOf
  <2>2. CASE zone # "Orchestrate"
    BY <1>1, <1>2, <2>2 DEF ZoneOf, LogicZones
  <2> QED
    BY <2>1, <2>2
<1> HIDE DEF zone
<1>5. classify_import_path(q) = classify_file_v2(q)
  BY <1>1, <1>4 DEF classify_import_path, LogicZones, StructureZones, Outside
<1>6. classify_file_v2(q) # NoClass
  <2>1. ASSUME NEW n \in 1 .. 7, NEW z \in LogicZones PROVE [level |-> n, zone |-> z] \in [level : Int, zone : LogicZones \cup StructureZones]
    OBVIOUS
  <2> QED
    BY <1>1, <2>1, NoClassAssumption
<1> QED
  BY <1>5, <1>6

(* Its directory, plainly named, is a place that only an entry point may import. *)
LEMMA DirectoryOfPlaced ==
  ASSUME NEW q \in Seq(STRING) \ {<<>>}, Placed(q), PlainlyNamed(q)
  PROVE  LET class == classify_import_path(Initial(q)) IN
         class # NoClass /\ class.level \in {7, Outside} /\ class.zone \in LogicZones
<1> DEFINE dirs == Initial(q)
           zone == ZoneOf(dirs)
<1>1. zone \in LogicZones
  BY PlacedClass
<1>2. /\ Elements(dirs) \cap {"ffi", "primitive", "simple", "dispatch", "composed", "assembled"} = {}
      /\ dirs \in Seq(STRING)
  BY InitialOf DEF PlainlyNamed
<1>3. dirs # <<>>
  BY <1>1, SMT DEF ZoneOf, Below, Elements, LogicZones
<1>4. Len(dirs) \in Nat \ {0} /\ DOMAIN dirs = 1 .. Len(dirs)
  BY <1>2, <1>3, EmptySeq, LenProperties
<1> HIDE DEF dirs
<1>5. \A k \in 1 .. Len(dirs) : dirs[k] \notin {"ffi", "primitive", "simple", "dispatch", "composed", "assembled"}
  BY <1>2, <1>4 DEF Elements
<1>6. LevelNamed(Final(dirs), zone) \in {7, Outside}
  BY <1>4, <1>5 DEF LevelNamed, Final, Outside
<1>7. \A k \in 1 .. Len(dirs) - 2 : dirs[k + 2] \notin {"ffi", "primitive", "simple", "dispatch", "composed"}
  BY <1>4, <1>5
<1> HIDE DEF zone
<1>8. DirectoryLevel(dirs, zone) \in {7, Outside}
  BY <1>7, Zenon DEF DirectoryLevel
<1>9. \E n \in {7, Outside} : classify_import_path(dirs) = [level |-> n, zone |-> zone]
  BY <1>1, <1>6, <1>8 DEF classify_import_path, LogicZones, StructureZones, zone
<1>10. ASSUME NEW n \in {7, Outside} PROVE [level |-> n, zone |-> zone] \in [level : Int, zone : LogicZones \cup StructureZones]
  BY <1>1 DEF Outside
<1> QED
  BY <1>1, <1>9, <1>10, NoClassAssumption DEF dirs

(* A file that an import names has the path the checks judge it by, or lies in the
   package that has it. *)
LEMMA PathOfNamed ==
  ASSUME NEW p \in Seq(STRING) \ {<<>>}, NEW q \in Seq(STRING) \ {<<>>}, NEW i, i.module \in Seq(STRING),
         i.names \cup i.renamed \subseteq STRING, i.level \in Nat, i.form # "from" => i.level = 0,
         q \in NamedFiles(p, i)
  PROVE  LET path == Dotted(p, i) IN
         /\ path \in Seq(STRING)
         /\ \/ q = path
            \/ i.form = "from" /\ q = Append(path, Final(q)) /\ Initial(q) = path
<1> DEFINE path == Dotted(p, i)
<1>1. i.level < Len(p) /\ Len(p) \in Nat
  BY EmptySeq DEF NamedFiles
<1>2. path = IF i.level > 0 THEN SubSeq(p, 1, Len(p) - i.level) \o i.module ELSE i.module
  BY <1>1 DEF Dotted, resolve_relative_import
<1>3. \/ q = path
      \/ i.form = "from" /\ \E name \in STRING : q = Append(path, name)
  <2> DEFINE base == IF i.level > 0 THEN SubSeq(p, 1, Len(p) - i.level) \o i.module ELSE i.module
  <2>1. i.form # "from" => q = i.module /\ i.level = 0
    BY DEF NamedFiles
  <2>2. i.form = "from" => q \in {base} \cup {Append(base, name) : name \in i.names \cup i.renamed}
    BY <1>1 DEF NamedFiles
  <2>3. base = path
    BY <1>2
  <2>4. i.form # "from" => base = i.module
    BY <2>1
  <2> HIDE DEF base, path
  <2> QED
    BY <2>1, <2>2, <2>3, <2>4
<1>4. path \in Seq(STRING)
  <2>1. Len(p) - i.level \in 0 .. Len(p)
    BY <1>1
  <2>2. SubSeq(p, 1, Len(p) - i.level) \in Seq(STRING)
    BY <2>1, Prefix
  <2> QED
    <3> DEFINE above == SubSeq(p, 1, Len(p) - i.level)
    <3>1. above \o i.module \in Seq(STRING)
      <4> HIDE DEF above
      <4> QED
        BY <2>2, ConcatProperties DEF above
    <3> HIDE DEF path
    <3> QED
      BY <1>2, <3>1
<1> HIDE DEF path
<1>5. ASSUME NEW name \in STRING, q = Append(path, name) PROVE Final(q) = name /\ Initial(q) = path
  <2>1. /\ Len(path) \in Nat /\ Len(q) = Len(path) + 1 /\ q[Len(path) + 1] = name
        /\ \A k \in 1 .. Len(path) : q[k] = path[k]
    BY <1>4, <1>5, LenProperties, AppendProperties
  <2>2. Final(q) = name
    BY <2>1 DEF Final
  <2>3. Initial(q) \in Seq(STRING) /\ Len(Initial(q)) = Len(path) /\ \A k \in 1 .. Len(path) : Initial(q)[k] = path[k]
    <3>1. /\ Initial(q) \in Seq(STRING) /\ Len(Initial(q)) = Len(q) - 1
          /\ \A k \in 1 .. Len(q) - 1 : Initial(q)[k] = q[k]
      BY InitialOf
    <3>2. Len(q) - 1 = Len(path)
      BY <2>1
    <3> QED
      BY <2>1, <3>1, <3>2
  <2> QED
    BY <1>4, <2>2, <2>3, SeqEqual
<1> QED
  BY <1>3, <1>4, <1>5 DEF path

(* Both import checks apply where they are looked for, and a clean file passes them. *)
LEMMA CleanPasses ==
  ASSUME NEW p, NEW s, ~UnderOldRules(p, s), run_checks_v2(p, s) = {}
  PROVE  /\ ~check_v2_import_boundaries(p, s)
         /\ classify_file_v2(p).level = 0 => ~check_v2_structure_import_boundary(s)
<1> DEFINE class == classify_file_v2(p)
           found == Findings(p, s, for_v2(class.level))
<1>1. checks_for_v2(class) \cap found \subseteq {"no_nested_functions"}
  <2> HIDE DEF found
  <2> QED
    BY DEF run_checks_v2, Stamped, found
<1>2. "v2_import_boundaries" \in checks_for_v2(class)
  BY DEF checks_for_v2, Common
<1>3. ASSUME class.level = 0 PROVE "v2_structure_import_boundary" \in checks_for_v2(class)
  <2>1. class.zone \in StructureZones
    <3>1. ~(Final(p) \in {"cli", "__main__"} \/ ZoneOf(Initial(p)) = "none")
      BY <1>3 DEF classify_file_v2, Outside
    <3>2. ZoneOf(Initial(p)) \notin StructureZones => class.level # 0
      BY <3>1 DEF classify_file_v2, Outside, LevelsOf
    <3> QED
      BY <1>3, <3>1, <3>2 DEF classify_file_v2
  <2> QED
    BY <1>3, <2>1 DEF checks_for_v2
<1>4. /\ check_v2_import_boundaries(p, s) => "v2_import_boundaries" \in found
      /\ check_v2_structure_import_boundary(s) => "v2_structure_import_boundary" \in found
  BY DEF Findings, ImportFindings
<1> HIDE DEF found, class
<1> QED
  BY <1>1, <1>2, <1>3, <1>4 DEF class

LEMMA LevelZero ==
  ASSUME NEW p, classify_file_v2(p).level = 0
  PROVE  ZoneOf(Initial(p)) \in StructureZones /\ classify_file_v2(p).zone = ZoneOf(Initial(p))
<1>1. ~(Final(p) \in {"cli", "__main__"} \/ ZoneOf(Initial(p)) = "none")
  BY DEF classify_file_v2, Outside
<1>2. ZoneOf(Initial(p)) \in StructureZones
  BY <1>1 DEF classify_file_v2, Outside, LevelsOf
<1> QED
  BY <1>1, <1>2 DEF classify_file_v2

(* What is named in no way the structure check reads anything into cannot be
   excused by it, and a package above a structure file holds no logic. *)
LEMMA StructureStaysApart ==
  ASSUME NEW p \in Seq(STRING) \ {<<>>}, NEW q \in Seq(STRING) \ {<<>>}, NEW i, i.module \in Seq(STRING),
         i.names \cup i.renamed \subseteq STRING, i.level \in Nat, i.form # "from" => i.level = 0,
         q \in NamedFiles(p, i), Placed(q), PlainlyNamed(q),
         classify_file_v2(p).level = 0, ~LeavesData("structure", i)
  PROVE  FALSE
<1> DEFINE path == Dotted(p, i)
           excused == AllowedTops \cup {"structure", "pydantic_validators"}
           above == SubSeq(p, 1, Len(p) - i.level)
<1>1. /\ path \in Seq(STRING)
      /\ \/ q = path
         \/ i.form = "from" /\ q = Append(path, Final(q)) /\ Initial(q) = path
  BY PathOfNamed
<1>2. /\ Final(q) \in {"ffi", "primitive", "simple", "dispatch", "composed", "assembled", "orchestrate"}
      /\ ZoneOf(Initial(q)) \in LogicZones
  BY PlacedClass
<1>3. /\ Len(q) \in Nat \ {0} /\ Initial(q) \in Seq(STRING) /\ Len(Initial(q)) = Len(q) - 1
      /\ \A k \in 1 .. Len(q) - 1 : Initial(q)[k] = q[k]
  BY InitialOf
<1>4. \A k \in 1 .. Len(q) : q[k] \notin excused
  <2>1. Final(q) \notin excused
    BY <1>2 DEF AllowedTops
  <2>2. ASSUME NEW k \in 1 .. Len(q) - 1 PROVE q[k] \notin excused
    <3>1. DOMAIN Initial(q) = 1 .. Len(q) - 1
      BY <1>3, LenProperties
    <3>2. q[k] \in Elements(Initial(q))
      BY <1>3, <3>1 DEF Elements
    <3> QED
      BY <3>2 DEF PlainlyNamed
  <2> QED
    BY <1>3, <2>1, <2>2 DEF Final
<1>5. Len(path) \in Nat /\ \A k \in 1 .. Len(path) : path[k] \notin excused
  <2>1. CASE q = path
    BY <1>3, <1>4, <2>1
  <2>2. CASE Initial(q) = path
    <3> HIDE DEF path, excused
    <3>1. Len(path) = Len(q) - 1 /\ \A k \in 1 .. Len(q) - 1 : path[k] = q[k]
      BY <1>3, <2>2
    <3>2. \A k \in 1 .. Len(q) - 1 : q[k] \notin excused
      BY <1>3, <1>4
    <3> QED
      BY <1>3, <3>1, <3>2
  <2> QED
    BY <1>1, <2>1, <2>2
<1>6. i.level < Len(p) /\ Len(p) \in Nat \ {0} /\ Len(p) - i.level \in 0 .. Len(p)
  BY EmptySeq DEF NamedFiles
<1>7. /\ above \in Seq(STRING) /\ Len(above) = Len(p) - i.level
      /\ \A k \in 1 .. Len(p) - i.level : above[k] = p[k]
  BY <1>6, Prefix
<1>8. path = IF i.level > 0 THEN above \o i.module ELSE i.module
  BY <1>6 DEF Dotted, resolve_relative_import
<1>9. \A k \in 1 .. Len(i.module) : i.module[k] \notin excused
  <2>1. CASE i.level = 0
    BY <1>5, <1>8, <2>1
  <2>2. CASE i.level > 0
    <3> DEFINE m == i.module
    <3> HIDE DEF above, m
    <3>1. /\ Len(above) \in Nat /\ Len(m) \in Nat /\ Len(above \o m) = Len(above) + Len(m)
          /\ \A k \in 1 .. Len(above) + Len(m) :
               (above \o m)[k] = IF k <= Len(above) THEN above[k] ELSE m[k - Len(above)]
      <4>1. above \in Seq(STRING) /\ m \in Seq(STRING)
        BY <1>7 DEF m
      <4>2. Len(above) \in Nat /\ Len(m) \in Nat
        BY <4>1, LenProperties
      <4>3. /\ Len(above \o m) = Len(above) + Len(m)
            /\ \A k \in 1 .. Len(above) + Len(m) :
                 (above \o m)[k] = IF k <= Len(above) THEN above[k] ELSE m[k - Len(above)]
        BY <4>1, ConcatProperties
      <4> QED
        BY <4>2, <4>3
    <3>2. ASSUME NEW k \in 1 .. Len(m) PROVE m[k] \notin excused
      <4>1. Len(above) + k \in 1 .. Len(above) + Len(m)
        BY <3>1
      <4>2. (above \o m)[Len(above) + k] = m[k]
        BY <3>1, <4>1
      <4>3. path = above \o m
        BY <1>8, <2>2 DEF m
      <4> HIDE DEF path, excused
      <4> QED
        BY <1>5, <3>1, <4>1, <4>2, <4>3
    <3> QED
      BY <3>2 DEF m
  <2> QED
    BY <2>1, <2>2
<1>10. i.module = <<>>
  <2> SUFFICES ASSUME i.module # <<>> PROVE FALSE
    OBVIOUS
  <2>1. Len(i.module) \in Nat \ {0} /\ DOMAIN i.module = 1 .. Len(i.module)
    BY EmptySeq, LenProperties
  <2>2. Top(i.module) \notin excused /\ Final(i.module) \notin excused
    BY <1>9, <2>1 DEF Top, Final
  <2>3. "structure" \notin Elements(i.module)
    BY <1>9, <2>1 DEF Elements
  <2> QED
    BY <2>2, <2>3 DEF LeavesData
<1> HIDE DEF path, excused, above
<1>11. i.level > 0 /\ path = above
  <2>1. ASSUME i.level = 0 PROVE FALSE
    <3>1. path = <<>>
      BY <1>8, <1>10, <2>1
    <3>2. Initial(q) = <<>>
      BY <1>1, <3>1
    <3> QED
      BY <1>2, <3>2 DEF ZoneOf, Below, Elements, LogicZones
  <2>2. i.level > 0
    BY <2>1
  <2> QED
    BY <1>7, <1>8, <1>10, <2>2, ConcatEmptySeq
<1>12. /\ Len(Initial(q)) \in Nat /\ Len(Initial(q)) <= Len(p) - 1
       /\ \A k \in 1 .. Len(Initial(q)) : Initial(q)[k] = Initial(p)[k]
  <2>1. \A k \in 1 .. Len(p) - 1 : Initial(p)[k] = p[k]
    BY InitialOf
  <2>2. Len(above) <= Len(p) - 1 /\ \A k \in 1 .. Len(above) : above[k] = Initial(p)[k]
    BY <1>6, <1>7, <1>11, <2>1
  <2>3. CASE q = path
    BY <1>3, <1>11, <2>2, <2>3
  <2>4. CASE Initial(q) = path
    BY <1>3, <1>11, <2>2, <2>4
  <2> QED
    BY <1>1, <2>3, <2>4
<1>13. ASSUME NEW b, Below("logic", b, Initial(q)) PROVE Below("logic", b, Initial(p))
  <2> DEFINE u == Initial(p)
             v == Initial(q)
  <2>1. Len(u) = Len(p) - 1
    BY InitialOf
  <2>2. PICK k \in 1 .. Len(v) - 1 : v[k] = "logic" /\ v[k + 1] = b
    BY <1>13 DEF Below
  <2> HIDE DEF u, v
  <2>3. /\ k \in 1 .. Len(u) - 1 /\ k \in 1 .. Len(v) /\ k + 1 \in 1 .. Len(v)
        /\ \A j \in 1 .. Len(v) : v[j] = u[j]
    BY <1>6, <1>12, <2>1 DEF u, v
  <2>4. u[k] = "logic" /\ u[k + 1] = b
    BY <2>2, <2>3
  <2> QED
    BY <2>3, <2>4 DEF Below, u
<1>14. ZoneOf(Initial(p)) \in LogicZones
  <2>1. \E b \in {"pure", "impure", "transform", "orchestrate"} : Below("logic", b, Initial(q))
    BY <1>2 DEF ZoneOf, LogicZones
  <2>2. \E b \in {"pure", "impure", "transform", "orchestrate"} : Below("logic", b, Initial(p))
    BY <1>13, <2>1
  <2> QED
    BY <2>2 DEF ZoneOf, LogicZones
<1>15. ZoneOf(Initial(p)) \in StructureZones
  BY LevelZero
<1> QED
  BY <1>14, <1>15 DEF LogicZones, StructureZones

(* Any other file stands at a level of its own, in a zone of logic. *)
LEMMA OwnLevel ==
  ASSUME NEW p, classify_file_v2(p).level \notin {0, Outside}
  PROVE  LET class == classify_file_v2(p) IN
         /\ Final(p) # "__init__" /\ class.zone \in LogicZones /\ class.level \in 1 .. 8
         /\ class.level = 8 => class.zone = "Orchestrate"
<1> DEFINE stem == Final(p)
           zone == ZoneOf(Initial(p))
           named == LevelNamed(stem, zone)
           class == classify_file_v2(p)
<1>1. CASE stem \in {"cli", "__main__"}
  BY <1>1 DEF classify_file_v2, LogicZones
<1>2. CASE stem \notin {"cli", "__main__"}
  <2>1. /\ zone \notin StructureZones \cup {"none"} /\ stem # "__init__" /\ named \in LevelsOf(zone)
        /\ class = [level |-> named, zone |-> zone]
    BY <1>2 DEF classify_file_v2
  <2>2. zone \in LogicZones
    BY <2>1 DEF ZoneOf, LogicZones, StructureZones
  <2>3. named \in 1 .. 7
    BY <2>1 DEF LevelsOf
  <2> QED
    BY <2>1, <2>2, <2>3
<1> QED
  BY <1>1, <1>2

(* An import that the boundary check lets through goes down. *)
LEMMA ImportGoesDown ==
  ASSUME NEW p \in Seq(STRING) \ {<<>>}, NEW q \in Seq(STRING) \ {<<>>}, Placed(q), PlainlyNamed(q),
         classify_file_v2(p).level \notin {0, Outside}, NEW path, path \in {q, Initial(q)},
         ~IllegalImport(classify_file_v2(p), classify_import_path(path))
  PROVE  StandsAbove(p, q)
<1> DEFINE upper == classify_file_v2(p)
           lower == classify_file_v2(q)
           target == classify_import_path(path)
<1>1. /\ upper.zone \in LogicZones /\ upper.level \in 1 .. 8
      /\ upper.level = 8 => upper.zone = "Orchestrate"
  BY OwnLevel
<1>2. lower.zone \in LogicZones /\ lower.level \in 1 .. 7
  BY PlacedClass
<1>3. target = NoClass \/ CanImport(upper, target)
  BY DEF IllegalImport
<1>4. ASSUME CanImport(upper, lower) PROVE StandsAbove(p, q)
  <2>1. upper.level > lower.level
    BY <1>4 DEF CanImport, LevelCanImport
  <2>2. can_reach(upper.zone, lower.zone)
    BY <1>2, <1>4 DEF CanImport, LogicZones, StructureZones
  <2>3. lower.zone \in InReach[upper.zone]
    BY <1>1, <1>2, <2>2 DEF can_reach, InReach, LogicZones
  <2> QED
    BY <1>1, <2>1, <2>3 DEF StandsAbove
<1>5. CASE path = q
  BY <1>3, <1>4, <1>5, PathOfPlaced
<1>6. CASE path = Initial(q)
  <2>1. target # NoClass
    BY <1>6, DirectoryOfPlaced
  <2>2. target.level = 7
    BY <1>3, <1>6, <2>1, DirectoryOfPlaced DEF CanImport, LevelCanImport
  <2>3. upper.level = 8
    BY <1>1, <1>3, <2>1, <2>2 DEF CanImport, LevelCanImport
  <2> QED
    BY <1>1, <1>2, <2>3 DEF StandsAbove, InReach, LogicZones
<1> QED
  BY <1>5, <1>6

LEMMA CleanNamesBelow ==
  ASSUME GuardInv, NEW p \in FilePaths, PassedChecks(p), ~UnderOldRules(p, tree[p]),
         classify_file_v2(p).level # Outside, NEW i \in PlainImports(tree[p]),
         NEW q \in FilePaths, Placed(q), PlainlyNamed(q), q \in NamedFiles(p, i)
  PROVE  StandsAbove(p, q)
<1> DEFINE s == tree[p]
           path == Dotted(p, i)
<1>1. s \in PythonSources /\ run_checks_v2(p, s) = {}
  BY UncheckedAssumption DEF GuardInv, PassedChecks
<1>2. /\ p \in Seq(STRING) \ {<<>>} /\ q \in Seq(STRING) \ {<<>>} /\ i \in s.imports
      /\ i.module \in Seq(STRING) /\ i.names \cup i.renamed \subseteq STRING
      /\ i.level \in Nat /\ (i.form # "from" => i.level = 0)
  BY <1>1, PathsAssumption, ImportsAssumption DEF PlainImports
<1>3. /\ ~check_v2_import_boundaries(p, s)
      /\ classify_file_v2(p).level = 0 => ~check_v2_structure_import_boundary(s)
  BY <1>1, CleanPasses
<1>4. path \in {q, Initial(q)}
  BY <1>2, PathOfNamed
<1>5. ASSUME classify_file_v2(p).level = 0 PROVE FALSE
  <2>1. ~LeavesData("structure", i)
    BY <1>3, <1>5 DEF check_v2_structure_import_boundary
  <2> QED
    BY <1>2, <1>5, <2>1, StructureStaysApart
<1>6. ~IllegalImport(classify_file_v2(p), classify_import_path(path))
  BY <1>3, <1>5, OwnLevel DEF check_v2_import_boundaries
<1> QED
  BY <1>2, <1>4, <1>5, <1>6, ImportGoesDown

(* Clean files are layered by where they stand: a plain import of a clean file
   that names a logic file goes to a lower level of a zone in reach, whatever was
   written, removed and checked in between. *)
THEOREM CleanFilesAreLayered == GuardSpec => []CleanIsLayered
<1>1. GuardInv => CleanIsLayered
  BY CleanNamesBelow DEF CleanIsLayered
<1> QED
  BY <1>1, InitGuard, GuardInvStep, PTL DEF GuardSpec

=============================================================================
