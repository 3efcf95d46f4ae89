------------------------------ MODULE Quality ------------------------------
(***************************************************************************)
(* Quality reports: saga runs the checkers on a source file and files what  *)
(* they find in a sidecar (.qa) beside it; syn reads sidecars, or a report  *)
(* on its standard input, and decides.  saga runs after every write of a    *)
(* tool (hook_post_llm_tool: saga <file> --sidecar | syn --stdin), over a   *)
(* directory, or on a text on its standard input.  The runs share the       *)
(* sources, the sidecars, the linter's configuration and the temporary      *)
(* files of /tmp/saga, and nothing keeps them apart.                        *)
(*                                                                         *)
(* A version of a source stands for its content.                            *)
(***************************************************************************)
EXTENDS Naturals, Sequences, FiniteSets

CONSTANTS
  Sources,         \* source files
  Python,          \* those that the linter is run on as well
  Tests,           \* those under a directory "tests"
  Temp,            \* /tmp/saga/<name>, for texts of one file name
  Versions,        \* what a source may hold
  Found,           \* [{"gleipnir", "linter", "defaults"} -> [Texts -> sets of issues]]:
                   \* "defaults" for a linter that runs without saga's configuration
  Warn, Deny,      \* the issues that warn.toml and deny.toml let through
  Hooks, Directory, Inputs, \* the runs of saga,
  Casts,           \* and which of them a behaviour has
  Starts,          \* what sources and sidecars may hold at the start, and the mode
                   \* of the directory run: "missing", "force" or "strip"
  Absent, Empty, None, NoReport, Torn,
  MaxEdits, MaxKills

Files == Sources \cup {Temp}
Runs == Hooks \cup {Directory} \cup Inputs
Texts == Versions \cup {Empty}
Issues == UNION {Found[t][v] : t \in DOMAIN Found, v \in Texts}

ASSUME QualityAssumption ==
  /\ Python \subseteq Sources /\ Tests \subseteq Sources /\ Temp \notin Sources
  /\ Absent \notin Texts
  /\ DOMAIN Found = {"gleipnir", "linter", "defaults"}
  /\ Warn \subseteq Issues /\ Deny \subseteq Issues
  /\ MaxEdits \in Nat /\ MaxKills \in Nat

ASSUME RunsAssumption ==
  /\ Directory \notin Hooks \cup Inputs /\ Hooks \cap Inputs = {}
  /\ Casts \subseteq SUBSET Runs

\* What a file holds, or held when it was hashed, and what a sidecar holds.
Contents == Texts \cup {Absent}
Reports == [hash : Contents \cup {None}, issues : SUBSET Issues]

ASSUME StartsAssumption ==
  Starts \subseteq [files : [Sources -> [content : Contents, filed : Contents]],
                    mode : {"missing", "force", "strip"}]
ASSUME ReportsAssumption ==
  /\ NoReport # Torn /\ {NoReport, Torn} \cap Reports = {}
  /\ None \notin Files \cup Contents

VARIABLES
  content,   \* [Files -> version, Empty or Absent]
  sidecar,   \* [Sources -> NoReport, Torn, or a report]
  config,    \* the linter's, in /tmp/saga: "none", "empty", "whole"
  due,       \* sources a tool has written and no hook has taken up
  pc,        \* [Runs -> where it stands]
  on,        \* [Runs -> the file it analyses]
  todo,      \* the sources the directory run has still to look at
  issues,    \* [Runs -> what it found]
  hash,      \* [Runs -> the version whose hash it takes]
  output,    \* [Runs -> what it reports], a set of issues or None
  seen,      \* [Runs -> the versions its file had meanwhile]
  gate,      \* the run of syn --mode gate
  edits, kills,
  cast,
  mode,      \* of the directory run
  old,       \* sources whose sidecar was out of date at the start
  apart      \* runs of saga that share anything do not overlap, nor do edits

files == <<content, sidecar, config, due>>
setting == <<cast, mode, old, apart>>
run == <<pc, on, todo, issues, hash, output>>
vars == <<files, run, seen, gate, edits, kills, setting>>

Busy(p) == pc[p] \notin {"idle", "done"}
BusyOn(f) == {p \in Runs : Busy(p) /\ on[p] = f}

\* What a checker finds in a file.
FoundBy(tool, v) == IF v = Absent THEN {} ELSE Found[tool][v]

AllIssues(f, v) ==
  FoundBy("gleipnir", v) \cup IF f \in Python \cup {Temp} THEN FoundBy("linter", v) ELSE {}
Report(f, v) == [hash |-> v, issues |-> AllIssues(f, v)]

NoGate == [at |-> "idle", todo |-> {}, read |-> {}, decision |-> None]

Init ==
  /\ \E start \in Starts :
       /\ content = [f \in Files |-> IF f = Temp THEN Absent ELSE start.files[f].content]
       /\ sidecar = [f \in Sources |->
                       IF start.files[f].filed = Absent THEN NoReport ELSE Report(f, start.files[f].filed)]
       /\ mode = start.mode
       /\ old = {f \in Sources : Absent \notin {start.files[f].content, start.files[f].filed}
                              /\ start.files[f].filed # start.files[f].content}
  /\ config = "none" /\ due = {}
  /\ pc = [p \in Runs |-> "idle"] /\ on = [p \in Runs |-> None]
  /\ todo = {} /\ issues = [p \in Runs |-> {}]
  /\ hash = [p \in Runs |-> None] /\ output = [p \in Runs |-> None]
  /\ seen = [p \in Runs |-> {}]
  /\ gate = NoGate
  /\ edits = 0 /\ kills = 0
  /\ cast \in Casts /\ apart \in BOOLEAN

At(p, l) == pc[p] = l
To(p, l) == pc' = [pc EXCEPT ![p] = l]

\* A file that changes has changed under every run that analyses it.
Put(f, v) ==
  /\ content' = [content EXCEPT ![f] = v]
  /\ seen' = [p \in Runs |-> IF p \in BusyOn(f) THEN seen[p] \cup {v} ELSE seen[p]]

-----------------------------------------------------------------------------
(* The sources *)

GateIdle == gate.at \in {"idle", "done"}

\* A tool of the session writes a file, and its hook is called.
Edit(f, v) ==
  /\ Hooks \cap cast # {}
  /\ edits < MaxEdits
  /\ apart => BusyOn(f) = {} /\ GateIdle
  /\ edits' = edits + 1
  /\ Put(f, v)
  /\ due' = due \cup {f}
  /\ UNCHANGED <<sidecar, config, run, gate, kills, setting>>

Remove(f) ==
  /\ edits < MaxEdits
  /\ content[f] # Absent
  /\ apart => BusyOn(f) = {} /\ GateIdle
  /\ edits' = edits + 1
  /\ Put(f, Absent)
  /\ UNCHANGED <<sidecar, config, due, run, gate, kills, setting>>

-----------------------------------------------------------------------------
(* Which file a run takes up *)

Quiet == apart => GateIdle /\ \A q \in Runs : ~Busy(q)

\* Mutant: the list of issues is not emptied for the next file.
StartKeepsIssues(p, f) ==
  /\ on' = [on EXCEPT ![p] = f]
  /\ UNCHANGED issues
  /\ To(p, "check")

Start(p, f) ==
  /\ on' = [on EXCEPT ![p] = f]
  /\ issues' = [issues EXCEPT ![p] = {}]
  /\ To(p, "check")

\* Mutant: like the directory run, the hook leaves a sidecar that is there.
HookSkipsFiled(p) ==
  \E f \in due :
    /\ p \in Hooks \cap cast
    /\ At(p, "idle")
    /\ Quiet
    /\ due' = due \ {f}
    /\ IF content[f] = Absent \/ sidecar[f] # NoReport
       THEN UNCHANGED <<pc, on, issues, seen>>
       ELSE /\ Start(p, f)
            /\ seen' = [seen EXCEPT ![p] = {content[f]}]
    /\ UNCHANGED <<content, sidecar, config, todo, hash, output, gate, edits, kills, setting>>

\* extract_file_path: a file that is gone is not assessed.
Hook(p) ==
  \E f \in due :
    /\ p \in Hooks \cap cast
    /\ At(p, "idle")
    /\ Quiet
    /\ due' = due \ {f}
    /\ IF content[f] = Absent
       THEN UNCHANGED <<pc, on, issues, seen>>
       ELSE /\ Start(p, f)
            /\ seen' = [seen EXCEPT ![p] = {content[f]}]
    /\ UNCHANGED <<content, sidecar, config, todo, hash, output, gate, edits, kills, setting>>

\* run_directory, plain or with --force, and strip_sidecars: first the sidecars
\* are listed.
Scan ==
  /\ Directory \in cast
  /\ At(Directory, "idle")
  /\ Quiet
  /\ To(Directory, "orphans")
  /\ todo' = {f \in Sources : sidecar[f] # NoReport}
  /\ UNCHANGED <<files, on, issues, hash, output, seen, gate, edits, kills, setting>>

\* An orphan is looked at and then removed; strip removes all there are.
Orphan(f) ==
  /\ At(Directory, "orphans")
  /\ f \in todo
  /\ IF mode = "strip" \/ content[f] = Absent
     THEN To(Directory, "unlink") /\ on' = [on EXCEPT ![Directory] = f] /\ UNCHANGED todo
     ELSE todo' = todo \ {f} /\ UNCHANGED <<pc, on>>
  /\ UNCHANGED <<files, issues, hash, output, seen, gate, edits, kills, setting>>

Unlink ==
  /\ At(Directory, "unlink")
  /\ sidecar' = [sidecar EXCEPT ![on[Directory]] = NoReport]
  /\ todo' = todo \ {on[Directory]}
  /\ To(Directory, "orphans")
  /\ on' = [on EXCEPT ![Directory] = None]
  /\ UNCHANGED <<content, config, due, issues, hash, output, seen, gate, edits, kills, setting>>

find_source_files ==
  /\ At(Directory, "orphans") /\ mode # "strip"
  /\ todo = {}
  /\ To(Directory, "next")
  /\ todo' = {f \in Sources : content[f] # Absent}
  /\ UNCHANGED <<files, on, issues, hash, output, seen, gate, edits, kills, setting>>

\* Mutant: --force skips like a plain run.
TakeMissing(f) ==
  /\ At(Directory, "next")
  /\ f \in todo
  /\ todo' = todo \ {f}
  /\ IF sidecar[f] # NoReport
     THEN UNCHANGED <<pc, on, issues, seen>>
     ELSE Start(Directory, f) /\ seen' = [seen EXCEPT ![Directory] = {content[f]}]
  /\ UNCHANGED <<files, hash, output, gate, edits, kills, setting>>

\* Without --force, a source that has a sidecar is skipped, whatever is in it.
Take(f) ==
  /\ At(Directory, "next")
  /\ f \in todo
  /\ todo' = todo \ {f}
  /\ IF mode # "force" /\ sidecar[f] # NoReport
     THEN UNCHANGED <<pc, on, issues, seen>>
     ELSE Start(Directory, f) /\ seen' = [seen EXCEPT ![Directory] = {content[f]}]
  /\ UNCHANGED <<files, hash, output, gate, edits, kills, setting>>

EndScan ==
  /\ At(Directory, IF mode = "strip" THEN "orphans" ELSE "next")
  /\ todo = {}
  /\ To(Directory, "done")
  /\ UNCHANGED <<files, on, todo, issues, hash, output, seen, gate, edits, kills, setting>>

\* generate_report_from_content: the text goes to a file that has only the
\* name of the source; the file is truncated first.
TruncateTemp(p, v) ==
  /\ p \in Inputs \cap cast
  /\ At(p, "idle")
  /\ Quiet
  /\ Put(Temp, Empty)
  /\ To(p, "text")
  /\ on' = [on EXCEPT ![p] = Temp]
  /\ hash' = [hash EXCEPT ![p] = v]
  /\ UNCHANGED <<sidecar, config, due, todo, issues, output, gate, edits, kills, setting>>

\* The text is written from the start of the file: over what another run has put
\* there meanwhile, which may leave a third text, or into a file that another run
\* has removed.
WriteTemp(p) ==
  \E v \in Contents :
    /\ p \in Inputs /\ pc[p] \in {"text", "lost"}
    /\ \/ pc[p] = "lost" /\ v = content[Temp]
       \/ pc[p] = "text" /\ content[Temp] = Empty /\ v = hash[p]
       \/ pc[p] = "text" /\ content[Temp] # Empty /\ v \in Versions
    /\ content' = [content EXCEPT ![Temp] = v]
    /\ seen' = [q \in Runs |-> IF q = p THEN {v} ELSE IF q \in BusyOn(Temp) THEN seen[q] \cup {v} ELSE seen[q]]
    /\ Start(p, Temp)
    /\ UNCHANGED <<sidecar, config, due, todo, hash, output, gate, edits, kills, setting>>

-----------------------------------------------------------------------------
(* generate_report, save_sidecar *)

Checked(tool, p) == FoundBy(tool, content[on[p]])

\* Each checker reads the file for itself.
run_gleipnir(p) ==
  /\ At(p, "check")
  /\ issues' = [issues EXCEPT ![p] = @ \cup Checked("gleipnir", p)]
  /\ To(p, IF on[p] \in Python \cup {Temp} THEN "config" ELSE "hash")
  /\ UNCHANGED <<files, on, todo, hash, output, seen, gate, edits, kills, setting>>

\* ensure_embedded_config truncates the configuration that is there and writes it anew.
TruncateConfig(p) ==
  /\ At(p, "config")
  /\ config' = "empty"
  /\ To(p, "fill")
  /\ UNCHANGED <<content, sidecar, due, on, todo, issues, hash, output, seen, gate, edits, kills, setting>>

FillConfig(p) ==
  /\ At(p, "fill")
  /\ config' = "whole"
  /\ To(p, "lint")
  /\ UNCHANGED <<content, sidecar, due, on, todo, issues, hash, output, seen, gate, edits, kills, setting>>

\* With an empty configuration ruff goes by its defaults, and basedpyright prints
\* nothing that parses.
run_ruff(p) ==
  /\ At(p, "lint")
  /\ \E found \in IF config = "whole" THEN {Checked("linter", p)} ELSE {{}, Checked("defaults", p)} :
       issues' = [issues EXCEPT ![p] = @ \cup found]
  /\ To(p, "hash")
  /\ UNCHANGED <<files, on, todo, hash, output, seen, gate, edits, kills, setting>>

\* The content is hashed after it was checked; a text is hashed as it came in,
\* after its file was removed, also from under a run that is to write to it.
hash_file(p) ==
  /\ At(p, "hash")
  /\ IF p \in Inputs
     THEN /\ Put(Temp, Absent)
          /\ pc' = [q \in Runs |-> IF q = p THEN "report" ELSE IF pc[q] = "text" THEN "lost" ELSE pc[q]]
          /\ UNCHANGED hash
     ELSE /\ hash' = [hash EXCEPT ![p] = content[on[p]]]
          /\ To(p, "truncate")
          /\ UNCHANGED <<content, seen>>
  /\ UNCHANGED <<sidecar, config, due, on, todo, issues, output, gate, edits, kills, setting>>

TruncateSidecar(p) ==
  /\ At(p, "truncate")
  /\ sidecar' = [sidecar EXCEPT ![on[p]] = Torn]
  /\ To(p, "save")
  /\ UNCHANGED <<content, config, due, on, todo, issues, hash, output, seen, gate, edits, kills, setting>>

\* Over the report of another run that truncated and wrote meanwhile, a longer
\* one leaves a whole report and a shorter one does not; a sidecar that was
\* unlinked stays away.
SaveSidecar(p) ==
  LET f == on[p]
      report == [hash |-> hash[p], issues |-> issues[p]]
  IN
  /\ At(p, "save")
  /\ \/ sidecar[f] = NoReport /\ UNCHANGED sidecar
     \/ sidecar[f] # NoReport /\ sidecar' = [sidecar EXCEPT ![f] = report]
     \/ /\ sidecar[f] \notin {NoReport, Torn} /\ sidecar[f] # report
        /\ sidecar' = [sidecar EXCEPT ![f] = Torn]
  /\ To(p, IF p = Directory THEN "next" ELSE "report")
  /\ UNCHANGED <<content, config, due, on, todo, issues, hash, output, seen, gate, edits, kills, setting>>

\* Mutant: syn reads the sidecar instead of what saga prints.
AssessSidecar(p) ==
  /\ At(p, "report")
  /\ output' = [output EXCEPT ![p] =
                  IF on[p] = Temp THEN issues[p]
                  ELSE IF sidecar[on[p]] \in {NoReport, Torn} THEN {} ELSE sidecar[on[p]].issues]
  /\ To(p, "done")
  /\ UNCHANGED <<files, on, todo, issues, hash, seen, gate, edits, kills, setting>>

\* The hook gives the session what syn --stdin lets through of the report, and
\* says nothing of a report with nothing to show.
Assess(p) ==
  /\ At(p, "report")
  /\ output' = [output EXCEPT ![p] = issues[p] \cap (IF p \in Hooks THEN Warn ELSE Issues)]
  /\ To(p, "done")
  /\ UNCHANGED <<files, on, todo, issues, hash, seen, gate, edits, kills, setting>>

\* The next event of the same session calls the same hook.
Again(p) ==
  /\ p \in Hooks
  /\ At(p, "done")
  /\ To(p, "idle")
  /\ output' = [output EXCEPT ![p] = None]
  /\ issues' = [issues EXCEPT ![p] = {}] /\ hash' = [hash EXCEPT ![p] = None]
  /\ on' = [on EXCEPT ![p] = None]
  /\ seen' = [seen EXCEPT ![p] = {}]
  /\ UNCHANGED <<files, todo, gate, edits, kills, setting>>

Kill(p) ==
  /\ kills < MaxKills
  /\ Busy(p)
  /\ kills' = kills + 1
  /\ To(p, "done")
  /\ UNCHANGED <<files, on, todo, issues, hash, output, seen, gate, edits, setting>>

-----------------------------------------------------------------------------
(* syn --mode gate over the directory, with --target src *)

\* The sidecars under a directory "tests" are not looked at.
find_qa_files ==
  /\ gate.at = "idle"
  /\ apart /\ \A q \in Runs : ~Busy(q)
  /\ gate' = [gate EXCEPT !.at = "load", !.todo = {f \in Sources \ Tests : sidecar[f] # NoReport}]
  /\ UNCHANGED <<files, run, seen, edits, kills, setting>>

\* Mutant: of several reports the last one is filtered.
LoadOverwrites(f) ==
  /\ gate.at = "load"
  /\ f \in gate.todo
  /\ gate' = [gate EXCEPT !.todo = @ \ {f},
                          !.read = IF sidecar[f] \in {NoReport, Torn} THEN @
                                   ELSE {<<f, i>> : i \in sidecar[f].issues}]
  /\ UNCHANGED <<files, run, seen, edits, kills, setting>>

\* A sidecar that does not parse, or is gone, is left out.
load_qa_file(f) ==
  /\ gate.at = "load"
  /\ f \in gate.todo
  /\ gate' = [gate EXCEPT !.todo = @ \ {f},
                          !.read = IF sidecar[f] \in {NoReport, Torn} THEN @
                                   ELSE @ \cup {<<f, i>> : i \in sidecar[f].issues}]
  /\ UNCHANGED <<files, run, seen, edits, kills, setting>>

\* Only an issue that warn.toml lets through can deny.
apply_filters(all) ==
  LET visible == {x \in all : x[2] \in Warn} IN
  IF \E x \in visible : x[2] \in Deny THEN "deny"
  ELSE IF visible # {} THEN "warn" ELSE "allow"

Decide ==
  /\ gate.at = "load"
  /\ gate.todo = {}
  /\ gate' = [gate EXCEPT !.at = "done", !.decision = apply_filters(gate.read)]
  /\ UNCHANGED <<files, run, seen, edits, kills, setting>>

Saga(p) ==
  \/ WriteTemp(p) \/ run_gleipnir(p) \/ TruncateConfig(p) \/ FillConfig(p) \/ run_ruff(p)
  \/ hash_file(p) \/ TruncateSidecar(p) \/ SaveSidecar(p) \/ Assess(p)

Scanning ==
  \/ Unlink \/ find_source_files \/ EndScan
  \/ \E f \in Sources : Orphan(f) \/ Take(f)

Gating == (\E f \in Sources : load_qa_file(f)) \/ Decide

Next ==
  \/ \E f \in Sources, v \in Versions : Edit(f, v)
  \/ \E f \in Sources : Remove(f)
  \/ \E p \in Runs : Hook(p) \/ Saga(p) \/ Again(p) \/ Kill(p)
  \/ \E p \in Inputs, v \in Versions : TruncateTemp(p, v)
  \/ Scan \/ Scanning
  \/ find_qa_files \/ Gating

Spec == Init /\ [][Next]_vars

\* A run that was started goes on, hooks are called for what tools wrote.
FairSpec ==
  /\ Spec
  /\ \A p \in Runs : WF_vars(Saga(p))
  /\ \A p \in Hooks : WF_vars(Hook(p)) /\ WF_vars(Again(p))
  /\ WF_vars(Scanning) /\ WF_vars(Gating)

-----------------------------------------------------------------------------
(* Properties *)

\* Where a run that analyses a file stands.
Reading == {"check", "config", "fill", "lint", "hash"}
Analysing == Reading \cup {"truncate", "save", "report"}

FileTypes ==
  /\ content \in [Files -> Contents]
  /\ sidecar \in [Sources -> {NoReport, Torn} \cup Reports]
  /\ config \in {"none", "empty", "whole"} /\ due \subseteq Sources

RunTypes ==
  /\ pc \in [Runs -> Analysing \cup {"idle", "text", "lost", "orphans", "unlink", "next", "done"}]
  /\ on \in [Runs -> Files \cup {None}] /\ todo \subseteq Sources
  /\ issues \in [Runs -> SUBSET Issues] /\ hash \in [Runs -> Contents \cup {None}]
  /\ output \in [Runs -> (SUBSET Issues) \cup {None}]
  /\ \A p \in Runs : pc[p] \in Analysing \cup {"text", "lost", "unlink"} =>
       on[p] \in IF p \in Inputs THEN {Temp} ELSE Sources

SeenTypes == seen \in [Runs -> SUBSET Contents]

GateTypes ==
  gate \in [at : {"idle", "load", "done"}, todo : SUBSET Sources,
            read : SUBSET (Sources \X Issues),
            decision : {None, "deny", "warn", "allow"}]

SettingTypes ==
  /\ edits \in 0..MaxEdits /\ kills \in 0..MaxKills
  /\ mode \in {"missing", "force", "strip"}
  /\ old \subseteq Sources /\ apart \in BOOLEAN /\ cast \in Casts

TypeOK == FileTypes /\ RunTypes /\ SeenTypes /\ GateTypes /\ SettingTypes

\* What saga reports is true of its file: every issue is one that a checker finds
\* in a content the file had while saga ran on it, if only by the linter's own
\* defaults, whatever other runs did to the sidecars, the configuration and the
\* temporary files meanwhile.
ReportedWasThere ==
  \A p \in Runs : output[p] # None =>
    output[p] \subseteq UNION {AllIssues(on[p], v) \cup FoundBy("defaults", v) : v \in seen[p]}

\* As long as runs of saga are kept apart from one another and from edits: a whole
\* sidecar says of the version it has the hash of all that the checkers find in it
\* (generate_report: issues, then content_hash); and a directory run leaves no source
\* without one ("generate missing"), nor with --force one that is out of date
\* ("regenerate all"), of those that no hook is still to take up.
SidecarTrue ==
  apart =>
    /\ \A f \in Sources : sidecar[f] \notin {NoReport, Torn} =>
         sidecar[f].issues = AllIssues(f, sidecar[f].hash)
    /\ At(Directory, "next") /\ todo = {} =>
         \A f \in Sources \ due : content[f] # Absent =>
           sidecar[f] # NoReport /\ (mode = "force" => sidecar[f] = Report(f, content[f]))

\* With runs kept apart, none killed and the hooks caught up, no source that has a
\* report passes the gate with an issue that denies (syn run, find_qa_files,
\* load_qa_file, apply_filters), though the gate looks at reports only and never at
\* a source.  What does not parse is left out: a torn report lets everything pass.
GateSound ==
  [][apart /\ kills = 0 /\ due = {} /\ Decide /\ gate'.decision # "deny" =>
       \A f \in Sources \ (Tests \cup old) : content[f] # Absent /\ sidecar[f] # NoReport =>
         AllIssues(f, content[f]) \cap Warn \cap Deny = {}]_vars

\* With runs kept apart and none killed, in the end every sidecar is about what its
\* source holds, if it was at the start: a hook follows every write, and no earlier
\* run comes after it.
EditIsFiled ==
  <>[](apart /\ kills = 0 => \A f \in Sources \ old :
         content[f] # Absent /\ sidecar[f] # NoReport =>
           sidecar[f] # Torn /\ sidecar[f].hash = content[f])
=============================================================================
