---------------------------- MODULE SessionFiles ----------------------------
(***************************************************************************)
(* The files of one session directory, as the request handlers of the      *)
(* bifrost proxy write them.  Every POST /v1/messages runs `intercept` on   *)
(* its own task and no lock is held per session, so the steps of two        *)
(* requests of one session interleave between any two file operations.      *)
(*                                                                         *)
(* A file is a sequence of terminated lines and an unterminated tail, a    *)
(* line is the sequence of bodies written into it: <<r>> is a good JSONL    *)
(* record, <<>> a blank line, <<r, q>> two records glued together.          *)
(* append_line_fsync uses writeln! on an unbuffered File, which issues one  *)
(* write for the text and one for the newline: an append is two steps.      *)
(***************************************************************************)
EXTENDS Naturals, Sequences, SequencesExt

CONSTANTS
  Requests,     \* the requests of the session, each sent once
  Body,         \* Body[r]: does it validate, its tools, is `system` an array
  Overlap,      \* kinds whose handlers may overlap with any other handler
  MaxCrashes,   \* bound: proxy crashes
  MaxFaults,    \* bound: file operations that return an I/O error
  Torn,         \* what is left of a record that was partly overwritten
  NoRequest     \* no main exchange yet

FileName == {"raw", "main", "sub", "comp", "pre"}
Derived == FileName \ {"raw"}

BodyType == [valid : BOOLEAN, tools : Seq(STRING), systemArray : BOOLEAN]

ASSUME BodyAssumption == Body \in [Requests -> BodyType]
ASSUME TornAssumption == Torn \notin Requests /\ NoRequest \notin Requests
ASSUME BoundAssumption == MaxCrashes \in Nat /\ MaxFaults \in Nat

VARIABLES
  file,       \* file[f]: the contents of each file
  pc,         \* pc[r]: where the handler of request r stands
  half,       \* half[r]: r has written its text and not yet its newline
  snap,       \* snap[r]: the line capture_precompaction read
  keep,       \* keep[r]: the line truncate_mainexch read
  line,       \* line[r]: precomp_line, 0 for None
  rewritten,  \* rewritten[r]: the compaction block was injected
  refs,       \* the compaction datagrams: who, what line, what was captured
  lastMain,   \* history: the last body whose text reached the main log
  crashes, faults

locals == <<half, snap, keep, line, rewritten>>
vars == <<file, pc, half, snap, keep, line, rewritten, refs, lastMain,
          crashes, faults>>

-----------------------------------------------------------------------------
(* intercept_core *)

has_tool(ts, name) == \E i \in DOMAIN ts : ts[i] = name

MainOnlyTools == {"Task", "ToolSearch", "EnterPlanMode", "ExitPlanMode"}

classify_exchange(ts) ==
  IF Len(ts) = 0 THEN "None"
  ELSE IF Len(ts) = 1 /\ has_tool(ts, "Read") THEN "Compaction"
  ELSE IF \E t \in MainOnlyTools : has_tool(ts, t) THEN "Main"
  ELSE "Subagent"

\* What the pipeline makes of a body: a request that fails the wire schema is
\* forwarded like one that carries no tools.
Kind(r) == IF Body[r].valid THEN classify_exchange(Body[r].tools) ELSE "None"

-----------------------------------------------------------------------------
(* write_engine and session_io on a file *)

Line == Seq(Requests \cup {Torn})
File == [lines : Seq(Line), tail : Line]
EmptyFile == [lines |-> <<>>, tail |-> <<>>]

\* str::lines(): an unterminated tail is a line too.
AllLines(f) == IF f.tail = <<>> THEN f.lines ELSE Append(f.lines, f.tail)

NonBlank(f) == {i \in DOMAIN AllLines(f) : AllLines(f)[i] # <<>>}

\* The last non-empty line, <<>> when there is none.
read_last_line(f) ==
  IF NonBlank(f) = {} THEN <<>> ELSE AllLines(f)[Max(NonBlank(f))]

\* write_all(l ++ "\n") at offset 0 over what others appended since O_TRUNC:
\* the write ends at a line boundary, inside a line, or past the end.
Overwrites(f, l) ==
  LET rest(i) == SubSeq(f.lines, i + 1, Len(f.lines))
  IN  {[lines |-> <<l>>, tail |-> <<>>]}
      \cup {[lines |-> <<l>> \o rest(i), tail |-> f.tail] :
              i \in 1..Len(f.lines)}
      \cup {[lines |-> <<l, <<Torn>>>> \o rest(i), tail |-> f.tail] :
              i \in 1..Len(f.lines)}
      \cup {[lines |-> <<l>>, tail |-> <<Torn>>] : i \in DOMAIN f.tail}

-----------------------------------------------------------------------------

\* The pipeline's own file operations; "raw", "main", "sub", "pre" and "comp"
\* name the file being appended to.
Reading == {"capture", "count", "trunc_read"}
Writing == FileName \cup {"trunc_open", "trunc_write"}
Active == Reading \cup Writing \cup {"emit", "forward"}
PC == Active \cup {"idle", "done", "dead"}

TypeOK ==
  /\ file \in [FileName -> File]
  /\ pc \in [Requests -> PC]
  /\ half \in [Requests -> BOOLEAN]
  /\ snap \in [Requests -> Line]
  /\ keep \in [Requests -> Line]
  /\ line \in [Requests -> Nat]
  /\ rewritten \in [Requests -> BOOLEAN]
  /\ refs \subseteq [req : Requests, line : Nat, snap : Line]
  /\ lastMain \in Requests \cup {NoRequest}
  /\ crashes \in 0..MaxCrashes
  /\ faults \in 0..MaxFaults

Init ==
  /\ file = [f \in FileName |-> EmptyFile]
  /\ pc = [r \in Requests |-> "idle"]
  /\ half = [r \in Requests |-> FALSE]
  /\ snap = [r \in Requests |-> <<>>]
  /\ keep = [r \in Requests |-> <<>>]
  /\ line = [r \in Requests |-> 0]
  /\ rewritten = [r \in Requests |-> FALSE]
  /\ refs = {}
  /\ lastMain = NoRequest
  /\ crashes = 0
  /\ faults = 0

Goto(r, l) == pc' = [pc EXCEPT ![r] = l]

\* Claude Code waits for the answer to a main-loop request before it sends the
\* next, and the proxy intercepts before it forwards: only handlers of the
\* kinds in Overlap may be open beside another one.
Start(r) ==
  /\ pc[r] = "idle"
  /\ \A q \in Requests : pc[q] \in Active =>
        Kind(r) \in Overlap \/ Kind(q) \in Overlap
  /\ Goto(r, "raw")
  /\ UNCHANGED <<file, locals, refs, lastMain, crashes, faults>>

\* The first write of an append: the text, at the end of the file.
Text(r) == IF pc[r] = "pre" THEN snap[r] ELSE <<r>>

WriteText(r) ==
  /\ pc[r] \in FileName
  /\ ~half[r]
  /\ file' = [file EXCEPT ![pc[r]] =
                [lines |-> @.lines, tail |-> @.tail \o Text(r)]]
  /\ half' = [half EXCEPT ![r] = TRUE]
  /\ lastMain' = IF pc[r] = "main" THEN r ELSE lastMain
  /\ UNCHANGED <<pc, snap, keep, line, rewritten, refs, crashes, faults>>

\* Mutant: the truncation is skipped after the instruction is written.
AfterNoTruncation(r) ==
  CASE pc[r] = "raw" /\ Kind(r) = "Main"       -> "main"
    [] pc[r] = "raw" /\ Kind(r) = "Subagent"   -> "sub"
    [] pc[r] = "raw" /\ Kind(r) = "Compaction" -> "capture"
    [] pc[r] = "pre"                           -> "count"
    [] pc[r] = "comp"                          -> "emit"
    [] OTHER                                   -> "forward"

\* Where the handler goes once a line is written: the route by kind after the
\* raw capture, the next step of record_compaction, or out.
After(r) ==
  CASE pc[r] = "raw" /\ Kind(r) = "Main"       -> "main"
    [] pc[r] = "raw" /\ Kind(r) = "Subagent"   -> "sub"
    [] pc[r] = "raw" /\ Kind(r) = "Compaction" -> "capture"
    [] pc[r] = "pre"                           -> "count"
    [] pc[r] = "comp"                          -> IF line[r] = 0 THEN "emit"
                                                  ELSE "trunc_read"
    [] OTHER                                   -> "forward"

WriteNewline(r) ==
  /\ half[r]
  /\ file' = [file EXCEPT ![pc[r]] =
                [lines |-> Append(@.lines, @.tail), tail |-> <<>>]]
  /\ half' = [half EXCEPT ![r] = FALSE]
  /\ Goto(r, After(r))
  /\ UNCHANGED <<snap, keep, line, rewritten, refs, lastMain, crashes, faults>>

\* capture_precompaction: read the last main exchange, if there is one.
CaptureRead(r) ==
  /\ pc[r] = "capture"
  /\ snap' = [snap EXCEPT ![r] = read_last_line(file["main"])]
  /\ Goto(r, IF snap'[r] = <<>> THEN "comp" ELSE "pre")
  /\ UNCHANGED <<file, half, keep, line, rewritten, refs, lastMain, crashes,
                 faults>>

\* ... and count the lines of pre_compact_state after the append.
CountLines(r) ==
  /\ pc[r] = "count"
  /\ line' = [line EXCEPT ![r] = Len(AllLines(file["pre"]))]
  /\ Goto(r, "comp")
  /\ UNCHANGED <<file, half, snap, keep, rewritten, refs, lastMain, crashes,
                 faults>>

\* Mutant: the first line of the main log is kept instead of the last.
TruncateReadFirst(r) ==
  /\ pc[r] = "trunc_read"
  /\ keep' = [keep EXCEPT ![r] = IF NonBlank(file["main"]) = {} THEN <<>>
                                 ELSE AllLines(file["main"])[Min(NonBlank(file["main"]))]]
  /\ Goto(r, IF keep'[r] = <<>> THEN "emit" ELSE "trunc_open")
  /\ UNCHANGED <<file, half, snap, line, rewritten, refs, lastMain, crashes,
                 faults>>

\* truncate_mainexch: read the last line again, open with O_TRUNC, write it.
TruncateRead(r) ==
  /\ pc[r] = "trunc_read"
  /\ keep' = [keep EXCEPT ![r] = read_last_line(file["main"])]
  /\ Goto(r, IF keep'[r] = <<>> THEN "emit" ELSE "trunc_open")
  /\ UNCHANGED <<file, half, snap, line, rewritten, refs, lastMain, crashes,
                 faults>>

TruncateOpen(r) ==
  /\ pc[r] = "trunc_open"
  /\ file' = [file EXCEPT !["main"] = EmptyFile]
  /\ Goto(r, "trunc_write")
  /\ UNCHANGED <<locals, refs, lastMain, crashes, faults>>

TruncateWrite(r) ==
  /\ pc[r] = "trunc_write"
  /\ \E f \in Overwrites(file["main"], keep[r]) :
       file' = [file EXCEPT !["main"] = f]
  /\ Goto(r, "emit")
  /\ UNCHANGED <<locals, refs, lastMain, crashes, faults>>

\* The datagram with the pre_compact_state reference, then the injection of
\* the compaction block: it fails when the body has no system array, and the
\* original body is forwarded.
Emit(r) ==
  /\ pc[r] = "emit"
  /\ refs' = refs \cup {[req |-> r, line |-> line[r], snap |-> snap[r]]}
  /\ rewritten' = [rewritten EXCEPT ![r] = Body[r].systemArray]
  /\ Goto(r, "forward")
  /\ UNCHANGED <<file, half, snap, keep, line, lastMain, crashes, faults>>

\* Mutant: a compaction is only forwarded when it could be rewritten.
ForwardRewritten(r) ==
  /\ pc[r] = "forward"
  /\ Kind(r) = "Compaction" => rewritten[r]
  /\ Goto(r, "done")
  /\ UNCHANGED <<file, locals, refs, lastMain, crashes, faults>>

Forward(r) ==
  /\ pc[r] = "forward"
  /\ Goto(r, "done")
  /\ UNCHANGED <<file, locals, refs, lastMain, crashes, faults>>

\* Mutant: an error of the raw capture is ignored and the pipeline goes on.
FaultIgnoredForRaw(r) ==
  /\ faults < MaxFaults
  /\ pc[r] \in Reading \cup Writing
  /\ faults' = faults + 1
  /\ half' = [half EXCEPT ![r] = FALSE]
  /\ Goto(r, IF pc[r] = "raw" /\ Kind(r) = "Main" THEN "main" ELSE "forward")
  /\ UNCHANGED <<file, snap, keep, line, rewritten, refs, lastMain, crashes>>

\* Mutant: the log is truncated although the snapshot could not be written.
FaultIgnoredForSnapshot(r) ==
  /\ faults < MaxFaults
  /\ pc[r] \in Reading \cup Writing
  /\ faults' = faults + 1
  /\ half' = [half EXCEPT ![r] = FALSE]
  /\ Goto(r, IF pc[r] = "pre" THEN "trunc_read" ELSE "forward")
  /\ UNCHANGED <<file, snap, keep, line, rewritten, refs, lastMain, crashes>>

\* A file operation fails: `intercept` returns the error, the caller logs it
\* and forwards the original body.
Fault(r) ==
  /\ faults < MaxFaults
  /\ pc[r] \in Reading \cup Writing
  /\ faults' = faults + 1
  /\ half' = [half EXCEPT ![r] = FALSE]
  /\ Goto(r, "forward")
  /\ UNCHANGED <<file, snap, keep, line, rewritten, refs, lastMain, crashes>>

\* The proxy dies: the open handlers are gone, the files stay.
Crash ==
  /\ crashes < MaxCrashes
  /\ \E r \in Requests : pc[r] \in Active
  /\ crashes' = crashes + 1
  /\ pc' = [r \in Requests |-> IF pc[r] \in Active THEN "dead" ELSE pc[r]]
  /\ half' = [r \in Requests |-> FALSE]
  /\ UNCHANGED <<file, snap, keep, line, rewritten, refs, lastMain, faults>>

Handler(r) ==
  \/ WriteText(r) \/ WriteNewline(r)
  \/ CaptureRead(r) \/ CountLines(r)
  \/ TruncateRead(r) \/ TruncateOpen(r) \/ TruncateWrite(r)
  \/ Emit(r) \/ Forward(r)

Next == Crash \/ \E r \in Requests : Start(r) \/ Handler(r) \/ Fault(r)

Spec == Init /\ [][Next]_vars

\* A handler is a task of a multi-threaded runtime: it runs unless the proxy
\* dies.  Clients and failures are not fair.
FairSpec == Spec /\ \A r \in Requests : WF_vars(Handler(r))

-----------------------------------------------------------------------------
(* The replay of a raw log by intercept_replay *)

ReplayLine(d, l) ==
  LET r == l[1]
      good == Len(l) = 1 /\ r # Torn   \* blank, glued or torn: skipped
      last == Last(d.main)
  IN  CASE good /\ Kind(r) = "Main"     -> [d EXCEPT !.main = Append(@, l)]
        [] good /\ Kind(r) = "Subagent" -> [d EXCEPT !.sub = Append(@, l)]
        [] good /\ Kind(r) = "Compaction" /\ d.main = <<>> ->
             [d EXCEPT !.comp = Append(@, l)]
        [] good /\ Kind(r) = "Compaction" /\ d.main # <<>> ->
             [d EXCEPT !.comp = Append(@, l), !.pre = Append(@, last),
                       !.main = <<last>>]
        [] OTHER -> d

Replay(lines) ==
  LET after[n \in 0..Len(lines)] ==
        IF n = 0 THEN [f \in Derived |-> <<>>] ELSE ReplayLine(after[n - 1], lines[n])
  IN  after[Len(lines)]

-----------------------------------------------------------------------------
(* Properties *)

InLine(r, l) == \E i \in DOMAIN l : l[i] = r
InFile(r, f) == InLine(r, f.tail) \/ \E i \in DOMAIN f.lines : InLine(r, f.lines[i])

Quiet == \A r \in Requests : pc[r] \notin Active

\* The raw capture comes first: whatever order the handlers of a session run
\* in, and wherever the proxy dies or a write fails, a body that is in a
\* derived file is in raw_session_log, so the raw log alone can rebuild it.
RawFirst ==
  \A r \in Requests, f \in Derived : InFile(r, file[f]) => InFile(r, file["raw"])

\* The steps a handler can only be at once its body is in the raw log.
PastRaw == (Active \ {"raw", "forward"})

\* Why RawFirst is kept: every body that is in a derived file, in a line a
\* compaction holds in memory, or about to be written has been captured.
CaptureInv ==
  /\ RawFirst
  /\ \A r \in Requests : half[r] => pc[r] \in FileName
  /\ \A r \in Requests :
       half[r] \/ pc[r] \in PastRaw => InFile(r, file["raw"])
  /\ \A r, q \in Requests :
       InLine(q, snap[r]) \/ InLine(q, keep[r]) => InFile(q, file["raw"])

\* append_line_fsync appends one line: no line of any file holds the text of
\* two appends.
OneRecordPerLine ==
  \A f \in FileName : \A i \in DOMAIN file[f].lines : Len(file[f].lines[i]) <= 1

\* "The live interceptor and the replay binary must produce identical derived
\* files from the same input": once no handler is open, the derived files are
\* what a replay of the raw log writes, whatever subagents ran beside the main
\* exchanges.  A raw log with two records on a line (OneRecordPerLine) cannot
\* be replayed.
LiveMatchesReplay ==
  Quiet /\ OneRecordPerLine =>
    \A f \in Derived :
      file[f] = [lines |-> Replay(AllLines(file["raw"]))[f], tail |-> <<>>]

\* The line and the exchange of a compaction belong together wherever they are
\* told: the reference in its datagram names the line of pre_compact_state.jsonl
\* that holds the exchange this compaction captured, and between compactions
\* the main log starts with the one captured last.
CompactionsConsistent ==
  /\ \A d \in refs : d.line > 0 =>
       /\ d.line <= Len(AllLines(file["pre"]))
       /\ AllLines(file["pre"])[d.line] = d.snap
  /\ Quiet /\ file["pre"] # EmptyFile =>
       Head(AllLines(file["main"])) = Last(AllLines(file["pre"]))

\* The newest main exchange survives a compaction that is cut short anywhere:
\* it is in the main log or was snapshotted before the log was emptied.
LatestExchangeRecoverable ==
  lastMain # NoRequest =>
     InFile(lastMain, file["main"]) \/ InFile(lastMain, file["pre"])

\* The proxy fails open: a request that reached it is forwarded whatever its
\* kind and whatever fails, unless the proxy itself dies.
EveryRequestForwarded ==
  \A r \in Requests : pc[r] = "raw" ~> pc[r] \in {"done", "dead"}

=============================================================================
