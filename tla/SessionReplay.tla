--------------------------- MODULE SessionReplay ---------------------------
(***************************************************************************)
(* intercept_replay beside the live pipeline of SessionFiles: it archives   *)
(* the derived files of a session one by one, reads the raw log and takes   *)
(* every line through the same file operations.  Nothing keeps a live       *)
(* handler, or the end of the process, from falling between two of them.    *)
(*                                                                         *)
(* A handler that has a file open writes on into the archived one, which    *)
(* nobody reads again.  The watcher that a replay starts is in              *)
(* ExchangeWatcher.                                                         *)
(***************************************************************************)
EXTENDS SessionFiles

CONSTANTS
  MaxReplays,  \* bound: replays begun
  DERIVED_FILES

ASSUME DerivedAssumption ==
  /\ DERIVED_FILES \in Seq(Derived)
  /\ \A f \in Derived : \E i \in DOMAIN DERIVED_FILES : DERIVED_FILES[i] = f

VARIABLES
  at,       \* where the replay stands, "off" when none runs
  left,     \* derived files it has still to archive
  read,     \* how far it has read the raw log: whole lines, and bodies of
            \* the line after these
  mine,     \* the record it is at, and its half, snap, keep and line
  missing,  \* derived files that do not exist
  moved,    \* handlers whose open file was archived
  alone,    \* the replay has met no open handler and no error
  exact,    \* history: nothing has gone wrong since a replay that was alone
  spotless, \* history: nothing has gone wrong at all
  replays

replayVars == <<at, left, read, mine, missing, moved, alone, exact, spotless, replays>>
allVars == <<vars, replayVars>>

process == <<at, left, read, mine>>
flags == <<alone, exact, spotless>>

Nothing == [req |-> NoRequest, half |-> FALSE, snap |-> <<>>, keep |-> <<>>, line |-> 0]

ReplayInit ==
  /\ Init
  /\ at = "off" /\ left = <<>> /\ read = [lines |-> 0, bodies |-> 0] /\ mine = Nothing
  /\ missing = Derived /\ moved = {}
  /\ alone = TRUE /\ exact = TRUE /\ spotless = TRUE
  /\ replays = 0

-----------------------------------------------------------------------------
(* The live handlers *)

\* What no replay undoes: the derived files may lack what is in the raw log.
Spoiled == exact' = FALSE /\ spotless' = FALSE

LiveStart(r) ==
  /\ Start(r)
  /\ alone' = (alone /\ at = "off")
  /\ spotless' = (spotless /\ at = "off")
  /\ UNCHANGED <<process, missing, moved, exact, replays>>

\* append_line_fsync creates the file it appends to.
Creates(r) == IF pc[r] \in FileName /\ ~half[r] THEN {pc[r]} ELSE {}

LiveStep(r) ==
  /\ r \notin moved
  /\ ~(pc[r] = "trunc_open" /\ "main" \in missing)
  /\ Handler(r)
  /\ missing' = missing \ Creates(r)
  /\ UNCHANGED <<process, moved, flags, replays>>

\* The rest of a write goes where the file has gone.
MovedStep(r) ==
  /\ r \in moved
  /\ moved' = moved \ {r}
  /\ half' = [half EXCEPT ![r] = FALSE]
  /\ Goto(r, IF pc[r] = "trunc_write" THEN "emit" ELSE After(r))
  /\ UNCHANGED <<file, snap, keep, line, rewritten, refs, lastMain, crashes, faults>>
  /\ UNCHANGED <<process, missing, flags, replays>>

\* write_truncate_fsync does not create a file: the handler ends with an error.
OpenMissing(r) ==
  /\ pc[r] = "trunc_open" /\ "main" \in missing
  /\ Goto(r, "forward")
  /\ UNCHANGED <<file, locals, refs, lastMain, crashes, faults, replayVars>>

LiveFault(r) ==
  /\ Fault(r)
  /\ Spoiled /\ moved' = moved \ {r}
  /\ UNCHANGED <<process, missing, alone, replays>>

LiveCrash ==
  /\ Crash
  /\ Spoiled /\ moved' = {}
  /\ UNCHANGED <<process, missing, alone, replays>>

-----------------------------------------------------------------------------
(* The replay *)

live == <<pc, locals, lastMain, crashes>>

Begin ==
  /\ at = "off" /\ replays < MaxReplays
  /\ replays' = replays + 1
  /\ at' = "archive" /\ left' = DERIVED_FILES
  /\ read' = [lines |-> 0, bodies |-> 0] /\ mine' = Nothing
  /\ alone' = Quiet /\ exact' = FALSE
  /\ spotless' = (spotless /\ Quiet)
  /\ UNCHANGED <<vars, missing, moved>>

\* Mutant: the files stay, and the replay appends to them.
archive_nothing ==
  /\ at = "archive"
  /\ at' = "watcher"
  /\ UNCHANGED <<vars, left, read, mine, missing, moved, flags, replays>>

\* archive_derived_files: a file is renamed if it exists.
archive_derived_files ==
  /\ at = "archive"
  /\ IF left = <<>>
     THEN at' = "watcher" /\ UNCHANGED <<file, left, missing, moved>>
     ELSE LET f == Head(left) IN
          /\ left' = Tail(left) /\ UNCHANGED at
          /\ file' = [file EXCEPT ![f] = EmptyFile]
          /\ missing' = missing \cup {f}
          /\ moved' = moved \cup {r \in Requests : half[r] /\ pc[r] = f}
                            \cup {r \in Requests : f = "main" /\ pc[r] = "trunc_write"}
  /\ UNCHANGED <<live, refs, faults, read, mine, flags, replays>>

spawn_watcher ==
  /\ at = "watcher" /\ at' = "next"
  /\ UNCHANGED <<vars, left, read, mine, missing, moved, flags, replays>>

Route(r) ==
  CASE Kind(r) = "Main"       -> "main"
    [] Kind(r) = "Subagent"   -> "sub"
    [] Kind(r) = "Compaction" -> "capture"
    [] Kind(r) = "None"       -> "next"

\* process_line on what the reader returns: a line that holds one record is
\* routed by its kind, any other is skipped.
process_line(text) ==
  IF Len(text) = 1 /\ text[1] # Torn
  THEN mine' = [Nothing EXCEPT !.req = text[1]] /\ at' = Route(text[1])
  ELSE UNCHANGED <<mine, at>>

\* process_raw_log: the next line, or what there is of the last one.
NextLine ==
  /\ at = "next"
  /\ LET raw == file["raw"]
         from(l) == SubSeq(l, read.bodies + 1, Len(l))
     IN  \/ /\ read.lines < Len(raw.lines)
            /\ process_line(from(raw.lines[read.lines + 1]))
            /\ read' = [lines |-> read.lines + 1, bodies |-> 0]
         \/ /\ read.lines = Len(raw.lines) /\ read.bodies < Len(raw.tail)
            /\ process_line(from(raw.tail))
            /\ read' = [read EXCEPT !.bodies = Len(raw.tail)]
  /\ UNCHANGED <<vars, left, missing, moved, flags, replays>>

\* The end of the raw log.  The watcher is killed and the replay returns.
EndOfLog ==
  /\ at = "next"
  /\ read.lines = Len(file["raw"].lines) /\ read.bodies = Len(file["raw"].tail)
  /\ at' = "off" /\ exact' = alone
  /\ UNCHANGED <<vars, left, read, mine, missing, moved, alone, spotless, replays>>

\* The same append_line_fsync, for append_exchange, append_subagent,
\* append_compaction and the snapshot of capture_precompaction.
ReplayText ==
  /\ at \in Derived /\ ~mine.half
  /\ file' = [file EXCEPT ![at] =
                [lines |-> @.lines,
                 tail |-> @.tail \o (IF at = "pre" THEN mine.snap ELSE <<mine.req>>)]]
  /\ mine' = [mine EXCEPT !.half = TRUE]
  /\ missing' = missing \ {at}
  /\ UNCHANGED <<live, refs, faults, at, left, read, moved, flags, replays>>

ReplayNewline ==
  /\ at \in Derived /\ mine.half
  /\ file' = [file EXCEPT ![at] = [lines |-> Append(@.lines, @.tail), tail |-> <<>>]]
  /\ mine' = [mine EXCEPT !.half = FALSE]
  /\ at' = CASE at \in {"main", "sub"} -> "next"
             [] at = "pre" -> "count"
             [] at = "comp" -> IF mine.line = 0 THEN "emit" ELSE "trunc_read"
  /\ UNCHANGED <<live, refs, faults, left, read, missing, moved, flags, replays>>

\* record_compaction: the operations of a handler.
Compacting(from, to) ==
  /\ at = from /\ at' = to
  /\ UNCHANGED <<live, faults, left, read, missing, moved, flags, replays>>

ReplayCapture ==
  LET last == read_last_line(file["main"]) IN
  /\ Compacting("capture", IF last = <<>> THEN "comp" ELSE "pre")
  /\ mine' = [mine EXCEPT !.snap = last]
  /\ UNCHANGED <<file, refs>>

ReplayCount ==
  /\ Compacting("count", "comp")
  /\ mine' = [mine EXCEPT !.line = Len(AllLines(file["pre"]))]
  /\ UNCHANGED <<file, refs>>

ReplayTruncateRead ==
  LET last == read_last_line(file["main"]) IN
  /\ Compacting("trunc_read", IF last = <<>> THEN "emit" ELSE "trunc_open")
  /\ mine' = [mine EXCEPT !.keep = last]
  /\ UNCHANGED <<file, refs>>

ReplayTruncateOpen ==
  /\ Compacting("trunc_open", "trunc_write")
  /\ file' = [file EXCEPT !["main"] = EmptyFile]
  /\ UNCHANGED <<mine, refs>>

ReplayTruncateWrite ==
  /\ Compacting("trunc_write", "emit")
  /\ \E f \in Overwrites(file["main"], mine.keep) : file' = [file EXCEPT !["main"] = f]
  /\ UNCHANGED <<mine, refs>>

ReplayEmit ==
  /\ Compacting("emit", "next")
  /\ refs' = refs \cup {[req |-> mine.req, line |-> mine.line, snap |-> mine.snap]}
  /\ UNCHANGED <<mine, file>>

\* A record that cannot be written is skipped with a warning; any other error
\* ends the replay, as a kill does.
ReplayFault ==
  /\ at # "off" /\ faults < MaxFaults /\ faults' = faults + 1
  /\ at' \in {"off"} \cup (IF at \in {"archive", "watcher", "next"} THEN {} ELSE {"next"})
  /\ mine' = Nothing
  /\ alone' = FALSE /\ Spoiled
  /\ UNCHANGED <<file, live, refs, left, read, missing, moved, replays>>

ReplayStep ==
  \/ archive_derived_files \/ spawn_watcher \/ NextLine \/ EndOfLog
  \/ ReplayText \/ ReplayNewline \/ ReplayCapture \/ ReplayCount
  \/ ReplayTruncateRead \/ ReplayTruncateOpen \/ ReplayTruncateWrite \/ ReplayEmit

ReplayNext ==
  \/ \E r \in Requests : LiveStart(r) \/ LiveStep(r) \/ MovedStep(r) \/ OpenMissing(r) \/ LiveFault(r)
  \/ LiveCrash
  \/ Begin \/ ReplayStep \/ ReplayFault

ReplaySpec == ReplayInit /\ [][ReplayNext]_allVars

-----------------------------------------------------------------------------
(* Properties *)

\* "The live interceptor and the replay binary must produce identical derived
\* files from the same input", step by step: whatever replays were killed or
\* ran beside open handlers, and whatever the proxy left unfinished, after one
\* replay that is alone, and the exchanges that come later, the derived files
\* are what the raw log says.
ReplayRebuilds == at = "off" /\ exact => LiveMatchesReplay

\* The references of a compaction stay right when the session is replayed.
ReplayKeepsReferences ==
  at = "off" /\ spotless /\ (replays > 0 => OneRecordPerLine) => CompactionsConsistent

=============================================================================
