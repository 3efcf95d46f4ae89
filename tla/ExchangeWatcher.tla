-------------------------- MODULE ExchangeWatcher --------------------------
(***************************************************************************)
(* The watcher that follows main_exchange_log.jsonl while the session      *)
(* pipeline appends to it and, at a compaction, truncates it to its last   *)
(* line in place.  The two share nothing but the file: the watcher learns  *)
(* of a truncation only by comparing the size of the file with its own     *)
(* position, when it has read to the end.  A replay (intercept_replay) moves *)
(* the log to the archive and writes it again: a watcher that has it open   *)
(* goes on with the file in the archive.                                    *)
(*                                                                         *)
(* Exchanges are numbered in the order they are logged.  The file is its   *)
(* bytes: Size[e] bytes of exchange e and a newline.  BufReader reads any  *)
(* number of the bytes there are, and keeps those it has not consumed.     *)
(***************************************************************************)
EXTENDS Integers, Sequences, FiniteSets, SequencesExt

CONSTANTS
  N,               \* bound: main exchanges logged
  Size,            \* Size[e]: the length of exchange e
  Messages,        \* Messages[e]: the conversation it carries
  Blocks,          \* Blocks[e]: its system blocks and tools
  Paced,           \* the pipeline acts only once the watcher has polled
  MaxCompactions,  \* bound
  MaxRestarts,     \* bound: watchers killed and spawned again
  MaxReplays,      \* bound: replays begun
  MaxReplayed      \* bound: lines of the raw log that a replay reads

Exchanges == 1..N
NL == 0
None == 0

ASSUME SizeAssumption == N \in Nat \ {0} /\ Size \in [Exchanges -> Nat \ {0}]
ASSUME MessagesAssumption ==
  \A e \in Exchanges : Messages[e] \in Seq(ToSet(Messages[e]))

VARIABLES
  file, exists,           \* main_exchange_log.jsonl
  written,                \* exchanges logged so far
  last,                   \* the one that was appended to the file last
  writer, compactions,    \* the pipeline: where its operation stands
  raw,                    \* raw_session_log.jsonl: exchanges, None a compaction
  replaying, redo,        \* a replay, and what it has still to write
  replays,
  stale, archived,        \* the watcher has the archived file open: its bytes
  disturbed,              \* a replay began or ran since the watcher opened the log
  stage,                  \* the watcher
  pos, buf,               \* its file position and what BufReader holds
  partial_line, line_number, previous,
  restarts,
  datagrams,              \* emitted: [rec, line, prev, startup, messages]
  processed,              \* exchanges the follow loop processed
  history,                \* exchanges a watcher loaded at its start
  due,                    \* exchanges logged while a watcher was following,
                          \* undisturbed
  fresh,                  \* the log did not exist when the watcher started
  malformed,              \* this watcher skipped a line as malformed
  shrunk,                 \* the log was truncated below `pos`, unnoticed so far
  polled                  \* the watcher has read to the end and polled since
                          \* the last operation

fileVars == <<file, exists, written, last, writer, compactions, raw>>
replayVars == <<replaying, redo, replays>>
held == <<stale, archived, disturbed>>
reader == <<pos, buf, partial_line>>
seen == <<datagrams, processed, history, malformed>>
watchVars == <<fileVars, replayVars, held, stage, reader, line_number, previous, restarts, seen, due,
          fresh, shrunk, polled>>

Text(e) == [i \in 1..Size[e] |-> e]
LineOf(e) == Append(Text(e), NL)

\* The exchange a line of text parses to, None when it is malformed.
Parse(text) == IF \E e \in Exchanges : text = Text(e) THEN text[1] ELSE None

Following == {"follow", "check"}

WatchInit ==
  /\ written \in {0, 1}
  /\ file = IF written = 0 THEN <<>> ELSE LineOf(written)
  /\ exists = (written > 0)
  /\ fresh = (written = 0)
  /\ last = written /\ raw = IF written = 0 THEN <<>> ELSE <<written>>
  /\ writer = "idle" /\ compactions = 0
  /\ replaying = FALSE /\ redo = <<>> /\ replays = 0
  /\ stale = FALSE /\ archived = <<>> /\ disturbed = FALSE
  /\ stage = "wait"
  /\ pos = 0 /\ buf = <<>> /\ partial_line = <<>>
  /\ line_number = 0 /\ previous = None
  /\ restarts = 0
  /\ datagrams = {} /\ processed = {} /\ history = {} /\ due = {}
  /\ malformed = FALSE
  /\ shrunk = FALSE /\ polled = FALSE

-----------------------------------------------------------------------------
(* diff_core *)

\* Mutant: the first message that differs is taken for the last common one.
DiffAfterFirst(prev, curr) ==
  LET differ == {i \in DOMAIN curr : i > Len(prev) \/ curr[i] # prev[i]}
  IN  IF differ = {} THEN <<>> ELSE SubSeq(curr, Min(differ) + 1, Len(curr))

diff_messages(prev, curr) ==
  LET differ == {i \in DOMAIN curr : i > Len(prev) \/ curr[i] # prev[i]}
  IN  IF differ = {} THEN <<>> ELSE SubSeq(curr, Min(differ), Len(curr))

\* system blocks and tools: what the previous exchange did not have.
diff_blocks(prev, curr) == curr \ prev

\* diff_and_emit: what is reported of e after p, nothing when p has it all.
Emitted(p, e) ==
  LET new == IF p = None THEN Messages[e] ELSE diff_messages(Messages[p], Messages[e])
      blocks == IF p = None THEN {} ELSE diff_blocks(Blocks[p], Blocks[e])
  IN  IF new = <<>> /\ blocks = {} THEN {}
      ELSE {[rec |-> e, line |-> line_number + 1, prev |-> p,
             startup |-> p = None, messages |-> ToSet(new)]}

-----------------------------------------------------------------------------
(* The pipeline: append_line_fsync and write_truncate_fsync on the log *)

\* The operations on the file, by a handler or by a replay.
Write(e) ==
  /\ writer = "idle" /\ writer' = "newline"
  /\ file' = file \o Text(e) /\ exists' = TRUE /\ last' = e

Empty ==
  /\ writer = "idle" /\ writer' = "rewrite"
  /\ file' = <<>> /\ UNCHANGED <<exists, last>>
  /\ shrunk' = (shrunk \/ (stage \in Following /\ ~stale /\ pos > Len(LineOf(last))))

\* A handler and a replay at once are in SessionReplay.
May == ~replaying /\ (Paced => polled \/ stale \/ (stage = "wait" /\ ~exists))

AppendText ==
  /\ May
  /\ written < N
  /\ written' = written + 1 /\ raw' = Append(raw, written')
  /\ Write(written')
  /\ due' = IF stage \in Following /\ ~disturbed THEN due \cup {written'} ELSE due
  /\ polled' = FALSE
  /\ UNCHANGED <<compactions, replayVars, held, stage, reader, line_number, previous,
                 restarts, seen, fresh, shrunk>>

AppendNewline ==
  /\ writer = "newline"
  /\ file' = Append(file, NL)
  /\ writer' = "idle"
  /\ polled' = FALSE
  /\ UNCHANGED <<exists, written, last, compactions, raw, replayVars, held, stage, reader,
                 line_number, previous, restarts, seen, due, fresh, shrunk>>

\* truncate_mainexch keeps the last exchange; it is skipped when there is none.
Truncate ==
  /\ May
  /\ compactions < MaxCompactions
  /\ written > 0
  /\ Empty
  /\ compactions' = compactions + 1 /\ raw' = Append(raw, None)
  /\ polled' = FALSE
  /\ UNCHANGED <<written, replayVars, held, stage, reader, line_number, previous, restarts,
                 seen, due, fresh>>

Rewrite ==
  /\ writer = "rewrite"
  /\ file' = LineOf(last)
  /\ writer' = "idle"
  /\ polled' = FALSE
  /\ UNCHANGED <<exists, written, last, compactions, raw, replayVars, held, stage, reader,
                 line_number, previous, restarts, seen, due, fresh, shrunk>>

-----------------------------------------------------------------------------
(* intercept_replay *)

\* archive_derived_files: the log is renamed.
Archive ==
  /\ ~replaying /\ writer = "idle" /\ Len(raw) \in 1..MaxReplayed
  /\ replays < MaxReplays /\ replays' = replays + 1
  /\ replaying' = TRUE /\ redo' = raw
  /\ file' = <<>> /\ exists' = FALSE /\ last' = None
  /\ disturbed' = (stage # "wait")
  /\ IF stage # "wait" /\ ~stale
     THEN stale' = TRUE /\ archived' = file /\ due' = due \cap processed /\ shrunk' = FALSE
     ELSE UNCHANGED <<stale, archived, due, shrunk>>
  /\ polled' = FALSE
  /\ UNCHANGED <<written, writer, compactions, raw, stage, reader, line_number, previous,
                 restarts, seen, fresh>>

\* process_line: the operations of the handlers again, a few milliseconds apart.
ReplayLine ==
  /\ replaying /\ redo # <<>>
  /\ IF Head(redo) = None THEN Empty ELSE Write(Head(redo)) /\ UNCHANGED shrunk
  /\ redo' = Tail(redo)
  /\ polled' = FALSE
  /\ UNCHANGED <<written, compactions, raw, replaying, replays, held, stage, reader,
                 line_number, previous, restarts, seen, due, fresh>>

EndReplay ==
  /\ replaying /\ redo = <<>> /\ writer = "idle"
  /\ replaying' = FALSE
  /\ UNCHANGED <<fileVars, redo, replays, held, stage, reader, line_number, previous,
                 restarts, seen, due, fresh, shrunk, polled>>

-----------------------------------------------------------------------------
(* run_watch: the start *)

\* What its handle reads.
Held == IF stale THEN archived ELSE file

Open ==
  /\ stage = "wait"
  /\ exists
  /\ stage' = "load"
  /\ disturbed' = replaying
  /\ UNCHANGED <<fileVars, replayVars, stale, archived, reader, line_number, previous,
                 restarts, seen, due, fresh, shrunk, polled>>

\* BufReader fills its buffer with some of the bytes past its position.
Fill ==
  /\ stage \in {"load", "follow"}
  /\ buf = <<>>
  /\ \E n \in pos + 1..Len(Held) :
       buf' = SubSeq(Held, pos + 1, n) /\ pos' = n
  /\ UNCHANGED <<fileVars, replayVars, held, stage, partial_line, line_number, previous, restarts,
                 seen, due, fresh, shrunk, polled>>

\* One line of the buffer, with what was read of it before.
HasNL == \E i \in DOMAIN buf : buf[i] = NL
Cut == IF HasNL THEN Min({i \in DOMAIN buf : buf[i] = NL}) ELSE Len(buf)

Taken == partial_line \o SubSeq(buf, 1, IF HasNL THEN Cut - 1 ELSE Cut)

Consume == buf' = SubSeq(buf, Cut + 1, Len(buf)) /\ UNCHANGED pos

\* Mutant: the first valid line is kept, not the last.
LoadFirst(text) ==
  /\ line_number' = line_number + 1
  /\ previous' = IF previous # None THEN previous ELSE Parse(text)
  /\ history' = IF Parse(text) = None THEN history ELSE history \cup {Parse(text)}
  /\ UNCHANGED <<datagrams, processed, malformed>>

\* A line that is already there: the last valid one becomes `previous`.
Load(text) ==
  /\ line_number' = line_number + 1
  /\ previous' = IF Parse(text) = None THEN previous ELSE Parse(text)
  /\ history' = IF Parse(text) = None THEN history ELSE history \cup {Parse(text)}
  /\ UNCHANGED <<datagrams, processed, malformed>>

LoadLine ==
  /\ stage = "load"
  /\ buf # <<>>
  /\ Consume
  /\ IF HasNL THEN Load(Taken) /\ partial_line' = <<>>
     ELSE partial_line' = Taken /\ UNCHANGED <<line_number, previous, seen>>
  /\ UNCHANGED <<fileVars, replayVars, held, stage, restarts, due, fresh, shrunk,
                 polled>>

\* The end of the file: a last line without a newline is a line.
LoadEnd ==
  /\ stage = "load"
  /\ buf = <<>>
  /\ pos >= Len(Held)
  /\ IF partial_line # <<>> THEN Load(partial_line)
     ELSE UNCHANGED <<line_number, previous, seen>>
  /\ partial_line' = <<>>
  /\ stage' = "seek"
  /\ UNCHANGED <<fileVars, replayVars, held, pos, buf, restarts, due, fresh, shrunk,
                 polled>>

SeekEnd ==
  /\ stage = "seek"
  /\ pos' = Len(Held)
  /\ stage' = "follow"
  /\ UNCHANGED <<fileVars, replayVars, held, buf, partial_line, line_number, previous, restarts,
                 seen, due, fresh, shrunk, polled>>

-----------------------------------------------------------------------------
(* run_watch: the loop *)

\* accumulate_line, then process_exchange on a line that parses.
FollowLine ==
  /\ stage = "follow"
  /\ buf # <<>>
  /\ Consume
  /\ partial_line' = IF HasNL THEN <<>> ELSE Taken
  /\ LET e == Parse(Taken)
     IN  IF ~HasNL \/ Taken = <<>>
         THEN UNCHANGED <<line_number, previous, seen>>
         ELSE IF e = None
         THEN malformed' = TRUE /\ UNCHANGED <<line_number, previous, datagrams,
                                               processed, history>>
         ELSE /\ line_number' = line_number + 1
              /\ datagrams' = datagrams \cup Emitted(previous, e)
              /\ previous' = e
              /\ processed' = processed \cup {e}
              /\ UNCHANGED <<history, malformed>>
  /\ UNCHANGED <<fileVars, replayVars, held, stage, restarts, due, fresh, shrunk,
                 polled>>

\* read_line returned 0.
AtEnd ==
  /\ stage = "follow"
  /\ buf = <<>>
  /\ pos >= Len(Held)
  /\ stage' = "check"
  /\ UNCHANGED <<fileVars, replayVars, held, reader, line_number, previous, restarts, seen, due,
                 fresh, shrunk, polled>>

Reset == pos' = 0 /\ line_number' = 0 /\ previous' = None /\ partial_line' = <<>>

\* Mutant: the size of the file is not looked at.
CheckNothing ==
  /\ stage = "check"
  /\ stage' = "follow"
  /\ polled' = (writer = "idle" /\ pos >= Len(Held))
  /\ UNCHANGED <<fileVars, replayVars, held, reader, line_number, previous, restarts, seen, due,
                 fresh, shrunk>>

\* detect_truncation, and the sleep until the next poll.
Check ==
  /\ stage = "check"
  /\ IF exists /\ Len(file) < pos
     THEN Reset /\ shrunk' = FALSE /\ polled' = FALSE
     ELSE /\ UNCHANGED <<reader, line_number, previous, shrunk>>
          /\ polled' = (writer = "idle" /\ pos >= Len(Held))
  /\ stage' = "follow"
  /\ UNCHANGED <<fileVars, replayVars, held, buf, restarts, seen, due, fresh>>

\* The watcher dies and the proxy spawns another for the next request.
Restart ==
  /\ restarts < MaxRestarts
  /\ stage # "wait"
  /\ Paced => writer = "idle"
  /\ restarts' = restarts + 1
  /\ stage' = "wait"
  /\ pos' = 0 /\ buf' = <<>> /\ partial_line' = <<>>
  /\ line_number' = 0 /\ previous' = None
  /\ fresh' = ~exists /\ shrunk' = FALSE /\ polled' = FALSE
  /\ stale' = FALSE /\ archived' = <<>> /\ disturbed' = FALSE
  /\ due' = due \cap processed /\ malformed' = FALSE
  /\ UNCHANGED <<fileVars, replayVars, datagrams, processed, history>>

Pipeline == AppendText \/ AppendNewline \/ Truncate \/ Rewrite

Watch == Open \/ Fill \/ LoadLine \/ LoadEnd \/ SeekEnd \/ FollowLine
           \/ AtEnd \/ Check

Replay == Archive \/ ReplayLine \/ EndReplay

WatchNext == Pipeline \/ Replay \/ Watch \/ Restart

WatchSpec == WatchInit /\ [][WatchNext]_watchVars

\* The watcher is a loop over a sleep: it polls for ever.  An operation of the
\* pipeline, once begun, is finished.
WatchFairSpec ==
  WatchSpec /\ WF_watchVars(Watch) /\ WF_watchVars(AppendNewline) /\ WF_watchVars(Rewrite)

-----------------------------------------------------------------------------
(* Properties *)

\* The lines of the log, as the exchange each holds.
LogLines ==
  LET ends == {i \in DOMAIN file : file[i] = NL}
      nth(n) == CHOOSE i \in ends : Cardinality({j \in ends : j < i}) = n - 1
  IN  [n \in 1..Cardinality(ends) |-> file[nth(n) - 1]]

WatchTypeOK ==
  /\ file \in Seq(0..N) /\ buf \in Seq(0..N) /\ partial_line \in Seq(0..N)
  /\ {exists, fresh, shrunk, polled, malformed} \subseteq BOOLEAN
  /\ {replaying, stale, disturbed} \subseteq BOOLEAN /\ replays \in Nat
  /\ archived \in Seq(0..N) /\ raw \in Seq(0..N) /\ redo \in Seq(0..N)
  /\ {written, last} \subseteq 0..N /\ previous \in 0..N
  /\ writer \in {"idle", "newline", "rewrite"}
  /\ stage \in {"wait", "load", "seek"} \cup Following
  /\ pos \in Nat /\ Len(buf) <= pos
  /\ {compactions, restarts, line_number} \subseteq Nat
  /\ processed \cup history \cup due \subseteq Exchanges

\* The watcher follows the log it shares with the pipeline: it reads whole
\* lines; once it has read to the end and polled it has noticed every truncation
\* ("can detect the size change to re-seek"); and a message of an exchange it has
\* processed was in a datagram, unless it was there before a watcher started.
\* The first two are asked of a watcher that no replay disturbed.
LogFollowed ==
  /\ ~disturbed => ~malformed /\ (polled => ~shrunk)
  /\ \A e \in processed : \A x \in ToSet(Messages[e]) :
       \/ \E d \in datagrams : x \in d.messages
       \/ \E h \in history : x \in ToSet(Messages[h])

\* A datagram names the line its exchange is on when it is emitted, compares it
\* with the exchange before it in the log, and repeats the whole conversation,
\* as a startup datagram does, only for the first; also in a log that a replay
\* has written again before the watcher opened it.
DatagramsConsecutive ==
  [][~disturbed => \A d \in datagrams' \ datagrams :
       /\ d.line \in DOMAIN LogLines /\ LogLines[d.line] = d.rec
       /\ d.startup <=> d.line = 1
       /\ ~d.startup => LogLines[d.line - 1] = d.prev]_watchVars

\* An exchange logged while a watcher follows is processed by it, unless a replay
\* has disturbed it.
EveryExchangeSeen == \A e \in Exchanges : e \in due ~> (e \in processed \/ e \notin due)

\* "Seeks to end of file (or start if file doesn't exist yet)": the exchanges
\* of a log that did not exist when the watcher started are all processed.
NewLogReadFromStart ==
  (fresh /\ polled /\ stage = "follow" /\ writer = "idle" /\ compactions = 0) =>
     1..written \subseteq processed

=============================================================================
