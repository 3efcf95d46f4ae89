# nornir in TLA+

nornir is a workspace of about a hundred small Rust crates around Claude Code:
a proxy that records and rewrites API traffic, daemons and hooks that hand
state from one session to the next, a voice relay with its speech cache,
validated writers, telemetry, quality reports, and the checkers, gates and tool
hooks that decide what a session may do. This directory models the parts that
run concurrently, survive crashes or depend on the order of events, and the
decisions of the sequential tools wherever several parts of the code have to agree on them.

Source paths below are relative to `src/`.

## 1. Inventory

### Traffic interception

| Part | State | Operations |
| --- | --- | --- |
| `daemons/bifrost_proxy` | session cache, watcher pool, shutdown flag; per response: buffer, block modes | `intercept_messages_request`, `intercept`, `resolve_workspace`, `spawn_watcher`, `forward_upstream`, `spawn_sse_intercept` |
| `capability/session_io` | five JSONL files per session | `append_*`, `capture_precompaction`, `truncate_mainexch`, `record_compaction` |
| `capability/write_engine` | files | `append_line_fsync`, `write_truncate_fsync`, `write_atomic`, validated `run` |
| `core/intercept_core`, `core/compaction_inject_core` | none | `classify_exchange`, `inject_compaction_system_block` |
| `interceptors/intercept_replay` | derived files | archive, replay the raw log |
| `interceptors/traffic_interceptor_rewriter` | the same files | the same routes inside the proxy's PyO3 predecessor |
| `watchers/watch_and_diff_exchange_intercepts`, `core/diff_core` | read position, previous exchange, transcript | follow the main log; compare, label and emit what is new, warn of injected reminders |

Requests reach the proxy over HTTP, each on its own task. The handlers of one
session share its files and nothing else: no lock is held per session. A replay
is a process of its own that archives and rewrites the same files. The
watcher is a separate process that follows `main_exchange_log.jsonl` and sends
datagrams. Hard here: interleaved file operations, writes that are two system
calls, truncation in place under a reader, crashes between two operations, and
the renumbering of a stream that arrives cut at any byte.

Correct means: the raw log can rebuild everything else, and a replay does; a
compaction keeps exactly the exchange it snapshotted; every request is
forwarded whatever fails; the client sees contiguous block numbers and no
thinking; each datagram names the right line and compares consecutive exchanges, and
together the datagrams tell the conversation.

### Sessions and prompts

| Part | State | Operations |
| --- | --- | --- |
| `cli/cc_launch` (interface) | the library of prompt fragments, profiles, the selection | keys, `apply_workspace_profile`, `apply_descriptor_defaults`, `build_launch_plan` |
| `cli/cc_launch` (files) | `cc_launch_prompt.xml`, `cc_launch_spec.toml`, `.SYSTEM_PROMPT.xml` of a workspace | `write_prompt_file`, `write_launch_spec`, `consume_launch_spec`, `discard_launch_spec`, `exec_claude` |
| `hooks/hook_session_start_orient` | `SYSTEM_PROMPT.xml` of a session | move the launch's prompt, take the slot |
| `hooks/hook_session_start_inject` | none | find the prompt and give it to the session again |
| `hooks/hook_session_end_handoff` | `CLEAR_HANDOFF.xml` of a workspace | copy the prompt of a session that is cleared |
| `capability/workspace_registry` | sqlite tables of workspaces and sessions | register, resolve, `clear_handoff_is_fresh` |

Claude Code runs the hooks of one event in parallel, several sessions share a
workspace, and every file but the session's own is named after the workspace or
after nothing at all. Correct means: the session that starts is the one on the
screen; a session that no other launch or /clear of its workspace comes between is only given its own
prompt, and gets it back after every compaction, resume and /clear; and a launch spec starts one session.

### Voice

| Part | State | Operations |
| --- | --- | --- |
| `daemons/relay_mic_to_voice` | recording, holding, the event channel | mute events, `start`, `stop`, `drain_queue` |
| `capability/keystroke_io` | the key, the worker's command channel | `SyntheticHold` start, stop, drop |
| `cli/announce`, `core/announce_core` | `queue.jsonl`, audio cache, table of hits, configuration | check the lock, queue, resolve, look up, synthesize, cache, play in a detached process |
| `cli/hush` | none | kill what is playing |

The relay and any number of announce processes share `RECORDING.lock` and
`queue.jsonl`, and announce processes the cache, the table of hits and `announce.toml`.
Correct means: a pressed key is released, the recording settles
to the state of the microphone, a queued message is spoken once, nothing
ordinary is heard over a recording, what is heard is the speech that was asked
for, and no speech is paid for more often than its first two hits.

### Written records, telemetry and quality

| Part | State | Operations |
| --- | --- | --- |
| `capability/write_engine`, `writers/*`, `converters/convert_json_to_toml` | output files, temporary files | validate, append, write once, batches all or nothing |
| `capability/datagram_io`, `core/datagram_core`, `senders/*` | none | validate, send over UDP and a Unix socket, alert |
| `daemons/record_datagrams` | socket, backlog, archive | listen, accept, append |
| `capability/saga_runner`, `core/saga_core`, `cli/saga_cli` | sidecar files, temporary files, the linter's configuration | run checkers, hash, save |
| `core/syn_core`, `cli/syn_cli` | none | read sidecars or a report, filter, decide |
| `dispatchers/split_jsonl_batches` | batch files | divide, write, print the manifest |

Writers, senders, recorders, runs of saga and dispatchers are processes that
share files and sockets and take no lock. Correct means: a document is whole
and only ever replaced by a writer that was already at work when the first one finished, a batch is in
its order, no datagram is lost silently, a report is true of the content it has the hash of, and a
manifest is true of its files.

### Tools that decide

| Part | State | Operations |
| --- | --- | --- |
| `core/gleipnir_core` | none; the project it checks is edited file by file | classify, select the checks, check one file |
| `hooks/hook_pre_*`, `hooks/hook_post_llm_read`, `capability/hook_io` | log, datagrams | decide, log, answer, alert |
| `core/dep_resolve_core`, `cli/dep_resolve` | none | follow the imports of a file, show the definitions |
| `gates/*`, `capability/gate_io`, `capability/io_check`, `cli/check_*` | the files between two stages | validate, write; read, validate |
| `core/default_apply_core`, `capability/default_apply_io` | none | fill in defaults in order |
| `core/path_core`, `capability/path_verify_io` | none | find the paths of a document, verify them |
| `core/report_render_core`, `core/format_core`, `core/schema_core`, `core/text_core`, `core/time_core`, `core/error_core` | none | pure functions |

Correct means: what one gate writes the next one takes; a call runs only past
the hooks that let it; a session is told of what a file rests on; and files that are
each clean make a layered project.

`PROJECT.json` lists every part with what is modelled of it, and the hazards,
each at its line.

## 2. Modules

| Module | Models | Extended or instantiated by |
| --- | --- | --- |
| `SessionFiles` | the five files of a session under concurrent handlers, crashes and I/O errors | `SessionReplay`, `MCSessionFiles`, `SessionFiles_proofs` |
| `SessionReplay` | intercept_replay beside the live handlers | `MCSessionReplay` |
| `SseFilter` | what the response filter promises: an abstract specification over whole events | `SseIntercept` (INSTANCE) |
| `SseIntercept` | the streaming task: frames, event buffer, block modes, bounded channel, side log | `MCSseIntercept`, `Streams_proofs` |
| `ExchangeWatcher` | the watcher process against the writes of the pipeline and of a replay, byte by byte | `MCExchangeWatcher`, `Streams_proofs` |
| `ProxySessions` | workspace resolution, cache and registry, links, the pool of watchers, shutdown and restart of the proxy | `MCProxySessions`, `ProxySessions_proofs` |
| `PromptHandoff` | launches, sessions, hooks and /clear over the shared prompt files | `MCPromptHandoff`, `PromptHandoff_proofs` |
| `VoiceRelay` | relay, key worker, announce processes and their queue, hush | `MCVoiceRelay`, `Voice_proofs` |
| `Writers` | the validated writers and the converter, one system call a step | `MCWriters`, `Writers_proofs` |
| `Datagrams` | senders, two transports, recorders and their socket | `MCDatagrams`, `Datagrams_proofs` |
| `Quality` | runs of saga, sidecars, the gate of syn | `MCQuality`, `Quality_proofs` |
| `Defaults`, `PathFields` | the order in which defaults are filled in; the paths of a document | `Gates` |
| `Gates` | the gates of a stage, the library they share, the check tools | `MCSubjects`, `Writers_proofs` |
| `ToolHooks` | the hooks around one tool call | `MCSubjects`, `Datagrams_proofs` |
| `Positions` | elements of a list by where they stand | `Launcher`, `Deps` |
| `Launcher` | cc_launch from the library to the launch | `MCSubjects`, `Writers_proofs` |
| `Deps` | the dependencies a session is shown | `MCSubjects`, `Writers_proofs` |
| `Layers`, `Guardrails` | where files and imports stand; the Python checks and a project that is edited | `MCSubjects` |
| `Announce` | from the call to the speech, and its cache | `MCSubjects`, `Voice_proofs` |
| `Batches` | the division into batches and the dispatchers | `MCSubjects`, `Datagrams_proofs` |
| `Exchanges` | what is new in an exchange, and the datagram it becomes | `MCSubjects`, `Writers_proofs` |

Each `MC` module gives the constants their small values and holds nothing else, `MCSubjects`
those of all the tools that share no state; `MCTools` puts them side by side, for one run. An
operator whose comment begins with "Mutant:" is not used by its
specification: it is a definition changed the way a bug would change it, and
`PROJECT.json` names the property that then fails.

### SessionFiles

A file is its terminated lines and an unterminated tail; a line is the sequence
of records written into it, so that a blank line, a good record and two records
glued together are three different values. Each action is one system call of
the handler of a request `r`, and `pc[r]` is the call it is about to make:

| Action | Code |
| --- | --- |
| `Start` | `intercept_messages_request`, up to the raw append |
| `WriteText`, `WriteNewline` | `append_line_fsync`: `writeln!` with an argument on a `File` is two writes |
| `CaptureRead`, `CountLines` | `capture_precompaction` |
| `TruncateRead`, `TruncateOpen`, `TruncateWrite` | `truncate_mainexch`, `write_truncate_fsync` |
| `Emit` | the datagram of `record_compaction` and the injection of the compaction block |
| `Fault` | any of these returns an error: `intercept` gives up, the caller forwards the original body |
| `Forward`, `Crash` | forwarding; the end of the proxy's process |

`TruncateWrite` writes at offset 0 of a file others may have appended to since
it was opened with `O_TRUNC`: `Overwrites` lists the outcomes.
`Overlap` says which kinds of handler may be open beside another. Claude Code
sends the main exchanges and compactions of one session one after the other, so
`Overlap` is the subagents. The proofs make no assumption on it.

### SessionReplay

The replay archives the derived files one by one (`left`), reads the raw log
line by line (`read`) and takes each body through the file operations of
`SessionFiles`, one system call a step. A handler that is in the middle of a
file when it is archived writes on into the archived one: `MovedStep`, for the
handlers in `moved`, and `missing` says which files do not exist, so that a
handler that opens one without creating it meets an error (`OpenMissing`). `Replay` is what the lines of
a raw log make of the files, one line after the other. `ReplayFault` and
`LiveCrash` end either side anywhere. `alone`, `exact` and `spotless` are history
for the properties: no action looks at `exact` and `spotless`.

### SseFilter and SseIntercept

`SseFilter` takes one event of the stream per step and says, from the stream
alone, whether it is stripped and what number it is forwarded with: an event
belongs to the latest start of its index that has not stopped. `SseIntercept`
is the task, with `block_modes`, `next_forwarded_index` and `thinking_buffer`
as in `SseInterceptState`. An event on the wire is two pieces, its text and
the blank line that ends it; a frame carries any number of pieces, so that
frames cut events anywhere that matters. `route_complete_events` awaits the
channel in the middle of a frame: `pending` and `pc = "send"`. A stream may end inside
an event: what is left in the buffer is then flushed to the client as it is, and `tail` is the event
it is a piece of. The refinement mapping is `out <- sent \o pending`. JSON that does not parse is an event of
type "other": both are forwarded as they are.

### ExchangeWatcher

The log is its bytes, `Size[e]` of them and a newline for exchange `e`;
`Fill` reads any number of the bytes there are into `buf`, as a `BufReader` may.
The pipeline appends in two writes and truncates in two. `LoadLine`, `LoadEnd` and `SeekEnd` are
the startup, `FollowLine`, `AtEnd` and `Check` the loop of `run_watch`, `Restart` a
watcher that died and the one the proxy spawns for the next request. `Archive`, `ReplayLine` and
`EndReplay` are a replay, which renames the log and writes it again from `raw`; a watcher that
has the log open is then `stale` and reads on in the archived file, while it still compares its position
with the size of the new one. The watcher that a replay starts is one that restarts after `Archive`. An exchange
has messages, some of which it shares with the one before it, and a datagram carries those
that are new by the comparison of `diff_core`. `due`,
`history`, `shrunk`, `fresh`, `disturbed` and `polled` record what happened for the
properties and are read by no action, except that `disturbed` keeps out of `due` what no property asks for,
and `polled` carries the assumption `Paced`: the pipeline's next operation comes after the watcher has
read to the end of the log and polled. Main exchanges of a session are seconds
apart and the poll is every 500 ms; section 5 says what happens without it.

### ProxySessions

A request `r` goes through `Lookup` (the registry is asked for the directory it
shows, before the cache is locked), `ResolveFound` or `ResolveKnown` (under the
cache's mutex), `Intercept`, `Link`, `TryWait` and `Spawn`, the order of
`intercept_messages_request`. The mutex of the table of watchers is `lock`: it
is taken in `TryWait` and given back in `Spawn`, or in the same step when
the watcher is alive. `OrientWorkspace` and `OrientSession` are the two
registrations of hook_session_start_orient. `Stop`, `KillAll` and `Return` are the
end of `run_server`; `Gone` is what the end of the process does to its memory, and
a watcher that was running in the table then becomes an orphan. Any call of the registry, the
directory, the link and the spawn may fail, as the code drops all these errors: a lookup that fails is
one that found nothing (`Lookup`), a sessions table that cannot be read makes the request one of no
workspace (`ResolveKnown`), and the hook goes on when it could not register (`OrientWorkspace`,
`OrientSession`, which the foreign key refuses where the workspace is missing). `failed` keeps which
calls failed and `late` whose watcher was started after `KillAll`, both for the properties only. A directory is its path
components, so that a registered path is a prefix of another; a workspace is the name of its
last component.

`SessionFiles` is what `Intercept` does to the session's files, and
`ExchangeWatcher` with its `Restart` what a watcher in the table does; the two
models meet here only in that a session has one handler pipeline and at most one
watcher. A request without a session id shares the entry `unknown`: it is neither
intercepted nor watched, but once resolved it is linked to a directory that is
never made. The replacement of a
symlink is one step; when it fails the old link may be gone.

### PromptHandoff

A prompt is the persona it is assembled for, or `Part` of one, where a write failed. A terminal is in the shell, in a
launch (`copy`, `spec`, `go`, `consume`, `exec`), in a session, or in a /clear
(`end`, `renew`). `orient` and `inject` are the two hooks of the last
SessionStart event, one step per file operation, in any order with each other.
`Handoff` is the SessionEnd hook. `Age` is the passing of the slot's 120 s,
which are longer than a /clear takes. `dir` is the project directory, which orient uses,
and `cwd` the directory of the hook event, which the other two use.

Nothing is kept apart: terminals launch, start claude by hand, compact, clear and exit in any order. A launch may be
given up after any of its writes (`Abandon`), which leaves its spec for a later `--go`. The mishaps of a
behaviour are what the code does not look at: the copy of the prompt that is not written (`CopyPrompt`), the spec that is not
deleted (`DeleteSpec`) and is read again, the moves and copies of the hooks (`Handoff`, `Move`, `Take`), a
session that dies (`Die`) or changes its directory (`Cd`). History says what a property may ask where:
`mixed` has the workspaces in which two terminals came between each other (`Overlap`), `spoilt` those in which a launch was given
up, a call failed or a session died before its prompt was moved, `left` those with the slot of a dead session,
`strayed` the terminals whose session changed its directory, `twice` the picks whose spec was read twice and
`overtaken` the sessions of a pick that was not the last. They only grow or are about one session, and no
action looks at any of them. A behaviour has a scope: its workspaces, and how many launches, sessions and mishaps.
Claude Code itself (`Event`, `Again`, `Clear`, `Renew`, `Exit`, ...) is external code,
modelled from how the hooks use it.

### VoiceRelay

`stage` is the relay's one thread, `worker` and `commands` the thread of the
SyntheticHold, `msg[m]` one run of announce and the playback it detaches. `Toggle` is
the listener, `events` its channel. `ReplayNext` runs announce again for a line of
the queue and `Wait` waits for it, which ends when the playback is detached.
`Crash` is a kill of the relay and its restart: the key,
the lock and the queue keep their state. `apart`, chosen once, says that no
announcement falls into a step of the relay and that no relay is killed.

### Writers

An invocation `p` takes its records through `parse_args`, the validation of all of
them, and then either `append_line` for each (the two writes apart) or
`write_atomic`: create the temporary file, write, fsync, rename. `dir` maps names
to inodes and `data` inodes to their content, so that a rename under a writer
that still has the file open is what it is. `calls` counts the writes of an appending writer, and a
record in a file is kept with who wrote it, since two may write the same. A tool is its format, how it finds its
output, and how many records it takes; the six are records of one shape. `Touch`
and `Delete` are what else happens to the files. Writers of one document overlap like all others, share its
temporary file and each check before the other's rename; `met` has the pairs that did, and `made` the writers that answered OK since the
document was deleted. `Together` lists the sets of writers of a behaviour.

### Datagrams

A sender tries the Unix socket (connect, write, close: a connection `conn[t]` and what of
the transmission is in it, `bytes[t]`), then UDP, and reports; `part` is what it transmits, the datagram, the alert
of `emit_validated_or_alert`, or the alert about a transport. A recorder binds,
listens, accepts one connection at a time from its backlog, reads it to the end
and appends. `path` is the recorder the socket's name leads to, which `cleanup_socket` of
another one takes away, so that recorders may overlap. A write may be cut (`WritePart`) and time out (`WriteTimeout`), and what was
written by then is a torn line of the archive. Whether an accepted stream inherits `O_NONBLOCK` from its listener differs: it
does on macOS and the BSDs and does not on Linux. `Read` covers both, and the timeout of a stream that blocks: where the
line is not whole yet, the connection may be given up at once. `due` has what was whole before its connection was
accepted, `disturbed` the recorders beside which another started or ended, and `overlap` says whether two ever ran at once;
all three are for the properties.

### Quality

A run of saga on a file takes its findings, then the hash of the content, then
writes the sidecar; a version stands for a content. Runs are those of the hook after a
tool's write (which syn reads through a pipe), one over a directory, and those on standard
input, which write their text to `Temp` first: `TruncateTemp` makes it `Empty` and `WriteTemp` fills it, over what another run has
written meanwhile, or into a file that another run has removed (`lost`). The linter's configuration is truncated and
filled the same way; while it is empty, `run_ruff` finds what the linter finds by its defaults, or nothing. `mode`
says what the directory run takes on:
the sources without a sidecar, with `--force` all of them, with `--strip` the sidecars whose
source is gone; `old` holds the sidecars that are out of date at the start. The gate of syn
lists the sidecars, then reads each. `cast` says which runs a behaviour has, `apart` that runs which share a file do
not overlap, nor do edits.

### Gates, Defaults, PathFields

A stage is two gates and a check tool; the thirty-seven gate crates are rows of `Stages` with the
pattern, the schema and the verification each crate names, so that a row that
disagrees with its crate shows as one gate refusing what the other wrote.
`Offer` validates, `OpenFile` and `FillFile` write (the file is torn in
between), `Read` is the next stage's gate, `RunCheck` a check tool with any
arguments. `Defaults` has `apply_unconditional_defaults` and `apply_conditional_defaults` over a schema
of places, each before those below it (`OnePass` says which schemas one pass settles); `PathFields` walks a
schema tree and the document beside it, level by level up to `SchemaDepth`, for the values that are paths.

### ToolHooks

The hooks of a call are started together and each decides (`Decide`), logs,
answers and alerts, one step each, and may die between any two. A log that cannot be opened or written is
passed over, as the code does: the hook is then in `unwritten`, and answers all the same. `decide_llm_bash`,
`decide_llm_tool`, `decide_subagent_bash` and `decide_subagent_tool` are the decisions,
over rules that are records of what they match. `Conclude` and `UserDecides` are
Claude Code and the user: one deny refuses, else one ask asks.

### Launcher

`scan_library` builds a library from a disk of fragments; files that no comparison tells apart are in any order,
as the directory lists them. `app` is `AppState`, with the library and the profiles it was made with. `Press` is one key,
with the handlers of `AppState` behind it; `LaunchSession` builds the plan with the prompt, and
`UpdateSession` is `--update`. The summary on the screen is computed apart from the prompt in the
code, and so it is in the module. `inherited` is the exempt paths the launcher was itself started with; `touched` says what
was changed by hand since a workspace was chosen and since the languages were last derived, for the property.

### Deps

`resolve_context` is the whole of it: `walk_file` follows the imports from a target,
depth first, `resolve_module_to_file` finds their files, and the symbols
are merged, grouped by file and given a form. `AnotherFile` is the next read. Nothing persists between reads.
The code recurses from `walk_file` to `recurse_into_deps` and back, one depth further each time, and not beyond
`max_depth`. `Walk` is that recursion as a function over the levels above the last depth: level n is `walk_file`
with level n - 1 for the calls it makes. `InTurn` is the loop over the imports of a file, which hands the
state on from one to the next. The property does not mention the walk: `Reached` and `Behind` are the
least sets of files that are closed under the imports.

### Layers, Guardrails

`Layers` has the two functions that must agree on where a thing stands, `classify_file_v2` for a file by
its path and `classify_import_path` for a target by its dotted name, and the checks on
imports. `Guardrails` has the other Python checks over an abstract source (imports,
functions, classes, assignments, annotations, calls), the matrix that says which
of them a place calls for, and a project: `WriteSource` and `RemoveSource` change a
file, `CheckSource` checks one, so findings may be of an older state of another file.

### Announce

`resolve_settings` and `apply_lookup` turn a call into a speech, and a speech is
what `compute_hash` hashes. `Look`, `LoadHits`, `SaveOpen`, `SaveWrite` are the lookup and the
counting, `Stream` the first hit, `Download`, `CacheOpen`, `CacheWrite` the second, `Play` the
playback; `BreakOff`, `Refused` and `Kill` are what fails. `calm` is history: nothing overlapped or
failed so far. `VoiceRelay` has the lock and the queue, `Announce` only that a call may go through it.

### Batches

A dispatcher reads and validates its input, computes its batches, and writes them one
after the other: `CreateBatch` empties the file, `WriteLines` writes any number of the lines
left, since a `BufWriter` flushes when it is full. A batch file is a span of the
records of one input. `BreakDown` is a failed call or a kill.

### Exchanges

The client sends the whole conversation with every exchange: `Continue` appends a turn, `Marked` puts
the mark of the cache on the last block, `LeaveOut` omits thinking of an earlier turn.
`process_exchange` is one action, as `ExchangeWatcher` and the replay of
`watch_and_diff_exchange_intercepts` both call it: `split_exchange` takes off what moves, the three
comparisons find what is new, and `build_datagram` puts it under labels. `StartOver` is a truncation
or a watcher that starts: the first exchange afterwards is told whole. `transcript` and
`grown` are history: what the lines of the transcript since then say, and whether messages
were only appended. A text is a sequence of the pieces the code looks for.

## 3. Runs and bounds

| Run | Configuration | Properties |
| --- | --- | --- |
| `SessionFiles_replay` | two main exchanges, two compactions (one whose body has no system array), an invalid body and a subagent that overlaps with all of them, without a replay; or a main exchange and a compaction with two replays, and a crash or an I/O error; or these and the subagent with one replay | `ReplayRebuilds`, `ReplayKeepsReferences` |
| `SessionFiles_crash` | two main, a compaction, an overlapping subagent; one crash and one I/O error anywhere | `RawFirst`, `LatestExchangeRecoverable`, `EveryRequestForwarded` |
| `SessionFiles_glued` | two overlapping subagents | `OneRecordPerLine` is violated |
| `SseIntercept_task` | every stream of up to three events over two indices, well formed or not, and the 27 responses of three blocks, ending anywhere, also inside an event; channel of one; failures, disconnects, one lost side-log write | `ThinkingDiverted`, `ImplementsFilter`, `EverythingDelivered` |
| `ExchangeWatcher_live` | four exchanges of one or two bytes, two truncations, one restart, one replay of up to three lines | `LogFollowed`, `DatagramsConsecutive`, `EveryExchangeSeen` |
| `ProxySessions_calls` | two sessions, one in a workspace inside the other's, two requests of it (one shows no directory) and one of the other; one watcher dies, two calls of the registry, the directory, the link or spawn fail, one crash, one restart, a shutdown at any moment | `OneWatcher`, `LinkedOnceKnown`, `WorkspaceKept` |
| `PromptHandoff_scopes` | two terminals, two personas; two workspaces, two picks and three session ids; two workspaces, one pick, three ids and a mishap; one workspace and one pick with four ids, or with three and a mishap; one workspace, two picks, two ids and a mishap | `InjectedIsOwn`, `Reinjected`, `SpecLaunchesOnce` |
| `VoiceRelay_runs` | three messages, one critical, four mute changes, a signal; either announcements apart from the relay's steps, or two messages at any time and a killed relay | `FollowsRecording`, `RecordingFollowsMic`, `QueuedIsSpoken` |
| `Writers_overlap` | a batch, a record, a refused batch and a refused path for one file; or three documents of one name; or two conversions to one; or a batch, a document and a conversion; two deletions and two failed calls or killed writers anywhere, nothing kept apart | `DocumentsWhole`, `BatchInOrder`, `NeverOverwritten` |
| `Datagrams_recorders` | a report too large for UDP and a malformed one, or a hook's notice and a malformed datagram of the command line; two recorders that start, stop and are killed beside one another, one failing call, writes that are cut or time out, streams that block or not | `RunningIsReachable`, `ArchiveInOrder`, `NeverSilent`, `WrittenIsArchived` |
| `Quality_runs` | two sources (one Python, one Rust), two versions, two edits; no sidecars and a plain directory run, or one out of date and one without its source and a run with `--force` or `--strip`; a hook and a directory run, two hooks, or two texts of one name; one kill | `ReportedWasThere`, `SidecarTrue`, `GateSound`, `EditIsFiled` |
| `Tools_subjects` | one tool at a time, from every initial state it has: see below | `GatesAgree`, `ToolRunsAsDecided`, `LaunchedAsShown`, `DependenciesShown`, `CleanIsLayered`, `HeardAsAsked`, `CreditsSaved`, `BatchesAsPromised`, `ConversationTold` |

Why the bounds are enough to meet the cases:

- Sessions: two compactions are needed for a snapshot to follow a truncation,
  two main exchanges for the first and last line to differ, and the subagent
  for a handler in between. A crash or error at any call of a
  compaction is one step of the run. `SessionFiles_replay` has a CONSTRAINT, `Sessions`,
  that cuts the product of everything with everything into the three families of the table; a
  replay takes two dozen steps, and what it can meet is a handler at each of its calls,
  a crash of either side, a second replay, and a subagent's record among the
  compaction's.
- Stream: three events hold a block of its own (start, delta, stop), a
  restart of an index, a delta without a block, and a stop of a block that never
  started; the longer responses have two thinking blocks with text and
  an omitted one. A channel of one frame makes the task wait inside a frame.
- Watcher: a line of two bytes can be read in pieces; two truncations
  show that counters are reset each time; the fourth exchange follows the
  second. Three lines of a raw log are two exchanges and a compaction; a replay is not paced.
- Proxy: two requests of one session meet in every step of the handler, one that shows
  its directory and one that relies on cache and registry; the restart empties the cache between
  them. Two faults let a lookup fail and then the table that would have made up for it. The request of the
  other session fills the registry and the pool beside them.
- Prompts: two of everything that is shared. Four session ids allow a launch, a
  /clear in each terminal and a session without a prompt. Two picks with a mishap let one be given up and
  the other find its spec; a mishap in two workspaces lets a session change to the other one. The
  constants are interchangeable and the invariants do not tell them apart, so symmetry is used.
- Voice: four mute changes queue up behind a drain; three messages make a
  queue whose second line matters.
- Writers: an append is four steps and a document six; every pair of them meets. Three documents of one
  name let one be made, deleted and made again while another is between its check and its rename, with two
  deletions, and let a writer that is alone come before or after two that overlap.
- Datagrams: with two starts a second recorder takes the name of one that runs, or follows one that was
  stopped or killed, at every step of a sender, and so may the first after itself; either may be stopped or killed
  while the other goes on. Two senders fill a backlog with a connection that
  waits behind another.
- Quality: two edits bring a file back to its first version. The casts are the pairs
  of runs that share something; a third run shares nothing new with them.
- Tools: for `gates`, every row of `Stages` with every definition of its schema, of a foreign
  schema and an unwritable one, two paths that come and go once, one torn write; a schema tree is four levels
  deep (`SchemaDepth`), and three would leave out the paths in arrays of objects. For `hooks`, 24
  calls, 64 configurations, every set of the hooks registered for a call, and one death. For
  `launcher`, any sequence of keys over a library with a persona that has a space, a
  descriptor with a parent, languages and a domain, and over one with empty directories; with two
  profiles files, over one of which it is started with exemptions. For `deps`, 240 projects of four files, with a package, a cycle, a wildcard
  and an unreadable file, in nine configurations. For `guardrails`, ten places, sixteen
  sources, two files at a time: layering is a relation of two files. For `announce`, six calls, some for
  one speech in different words, some for two that differ in one argument, three processes, two of them at
  once, and one trouble. For `batches`, two dispatchers over inputs that are divided evenly, exactly
  and with a tail, in one directory or two. For `exchanges`, up to four messages out of turns with text, thinking,
  tools and their results, and with reminders of a hook and of the platform, apart and together; four
  are two calls of tools with their results, so that a label holds a string, one input and several.

A TypeOK or the like is stated in each module with proofs and is for the
reader in the others. Deadlock is not checked: in
every model all work comes to an end once the bounds are used up.

## 4. Fairness

- `SessionFiles`: weak fairness of each handler, a task of a multi-threaded
  runtime that blocks on nothing but its own file operations. Clients, errors and
  crashes are not fair. `EveryRequestForwarded` allows for the end of the proxy.
- `SseIntercept`: the task runs, a client that stays reads, and the upstream
  either sends more or ends the stream. `EverythingDelivered` allows for a
  client that leaves and for an upstream that fails.
- `ExchangeWatcher`: the watcher is a loop around a sleep. A pipeline operation,
  once its first write is done, does its second; it need not begin another.
- `VoiceRelay`: the relay, its worker, hush and the announcers run. Users, signals
  and crashes are not fair.
- `Datagrams`: senders and recorders that run go on; nobody has to start a recorder,
  and no signal, fault or kill is fair.
- `Quality`: a run of saga or syn that was started goes on, and Claude Code runs the hook after each write
  of a tool. Edits, directory runs, gates and kills are not fair.

## 5. What the code does not keep

One run ends in a counterexample, and `findings` in `PROJECT.json` quotes the
sentence it contradicts:

- `SessionFiles_glued`: `append_line_fsync` writes a line and its newline
  separately, so two handlers put two records on one line.

Besides `Overlap`, which says what Claude Code sends side by side (section 2), three runs make an assumption: on the pace of the
pipeline (`Paced`), on announcements and the relay (`apart` of `VoiceRelay`), and on runs of saga (`apart` and `kills` of
`Quality`); and the comments of their properties say so. They are there because TLC
refutes the property without them, as each line shows when the configuration named is changed; the other lines are
what a reader may expect of the code and does not get:

| Configuration | Change | Refuted | What happens |
| --- | --- | --- | --- |
| `SessionFiles_glued` | INVARIANT `LiveMatchesReplay` | `LiveMatchesReplay` | two subagents are recorded in one order in the raw log and in the other in the subagent log, though `interceptors/INTERCEPT_DESIGN.md:38` wants replay and live files identical |
| `ExchangeWatcher_live` | `Paced = FALSE`, `N = 3`, `MaxCompactions = 0`, `MaxReplays = 0` | `DatagramsConsecutive` | an exchange logged between the watcher's load of the history and its seek to the end is never seen |
| `ExchangeWatcher_live` | `Paced = FALSE`, `N = 3`, `MaxCompactions = 1`, `MaxReplays = 0` | `LogFollowed` | the log is truncated and grows past the watcher's position between two polls |
| `ExchangeWatcher_live` | INVARIANT `NewLogReadFromStart` | `NewLogReadFromStart` | the exchanges in a log that appears after the watcher started are taken for history, against the comment at `watchers/watch_and_diff_exchange_intercepts/src/main.rs:248` |
| `ExchangeWatcher_live` | `~disturbed =>` removed | `DatagramsConsecutive` | a replay has renamed the log under a watcher: as long as the new log is the shorter one, each poll finds a truncation and reports the archived log from its start, with a startup datagram |
| `ExchangeWatcher_live` | `~disturbed` removed from `AppendText` | `EveryExchangeSeen` | the watcher of the session goes on with the archived file and sees no exchange that comes after the replay |
| `ExchangeWatcher_live` | `~disturbed =>` removed, `MaxReplayed = 4` | `LogFollowed` | a watcher is in the middle of a line when a replay truncates and refills the log, and takes the halves of two exchanges for one line |
| `VoiceRelay_runs` | `apart /\` removed | `QueuedIsSpoken` | a message queued between the read and the removal of the queue file is lost; one queued just after the drain waits for the next recording |
| `VoiceRelay_runs` | `apart /\` removed | `FollowsRecording` | a message that was being synthesized is played into the recording |
| `VoiceRelay_runs` | INVARIANT `OneAtATime` | `OneAtATime` | the replay waits for announce, not for its playback |
| `Quality_runs` | `apart =>` removed | `SidecarTrue`, `EditIsFiled` | a file is edited between the checkers and the hash, or two runs file in the other order |
| `Quality_runs` | `kills = 0` removed | `GateSound` | a torn sidecar does not parse, and the gate leaves it out |

The other properties make no such assumption: what goes wrong in the code goes wrong in the model, and the property names
what it may do. Each of these parts of a property is needed, and TLC refutes the property without it:

| Run | Part removed | Refuted | What happens |
| --- | --- | --- | --- |
| `SseIntercept_task` | `tail` may be a stripped event | `ThinkingDiverted` | the stream ends inside a thinking event: the flush at `daemons/bifrost_proxy/src/main.rs:590` sends that piece to the client |
| `ProxySessions_calls` | `s \notin late` | `OneWatcher` | a handler at work when the proxy stops spawns a watcher after `daemons/bifrost_proxy/src/main.rs:1007`, "Cleanup: kill watcher processes", and nothing kills it |
| `ProxySessions_calls` | `<<"read", r>>` | `WorkspaceKept` | after a restart the lookup of a request finds nothing and the sessions table cannot be read (`main.rs:211`): its session is handled under "unknown" |
| `ProxySessions_calls` | `Enclosing(s)` in `Placed` | `WorkspaceKept` | a workspace that could not be registered (`hooks/hook_session_start_orient/src/main.rs:77`) is taken for the one around it |
| `ProxySessions_calls` | `<<"link", s>> \notin failed` | `LinkedOnceKnown` | only the request that resolves a session links it, and nobody tries again |
| `PromptHandoff_scopes` | `mixed` | `InjectedIsOwn`, `Reinjected` | the prompt of a launch waits under the name of its workspace, and any session that starts or compacts there takes it; or two sessions of a workspace are cleared at once and share the slot |
| `PromptHandoff_scopes` | `spoilt` | `InjectedIsOwn`, `Reinjected` | a pick that was given up leaves its prompt to whichever session comes next; a dead session's slot is fresh for 120 s; a copy or a move fails |
| `PromptHandoff_scopes` | `t \notin strayed` | `Reinjected` | inject looks under the event's cwd, orient has put the prompt under the project directory |
| `PromptHandoff_scopes` | `i \in twice` | `SpecLaunchesOnce` | the spec could not be deleted (`cli/cc_launch/src/assembly.rs:286`), or two launches read it before either deletes it |
| `PromptHandoff_scopes` | `t \notin overtaken` | `SpecLaunchesOnce` | a second pick replaces the prompt in the temporary directory before the first has started claude, which then has the permissions of one persona and the prompt of another |
| `Writers_overlap` | `Lone(p)` | `DocumentsWhole` | two writers of a document share its temporary file |
| `Writers_overlap` | `<<p, q>> \in met` | `NeverOverwritten` | both check before either renames, and both answer OK |
| `Datagrams_recorders` | `disturbed` | `RunningIsReachable` | a recorder that starts removes the socket of one that runs, and one that stops late that of a newer one |
| `Datagrams_recorders` | `overlap` | `ArchiveInOrder` | two recorders archive side by side, the alert before what it is about |
| `Tools_subjects` | `"persona" \in touched` | `LaunchedAsShown` | inside the spaces the persona changes, and brings its space without its languages (`cli/cc_launch/src/tui.rs:142`) |
| `Tools_subjects` | `inherited` | `LaunchedAsShown` | cc_launch passes on the exempt paths it was started with (`cli/cc_launch/src/main.rs:215`), though `cli/cc_launch/src/permissions.rs:34` has it that no other persona has any grant |
| `Tools_subjects` | `unwritten` | `ToolRunsAsDecided` | a log that cannot be written is passed over (`capability/hook_io/src/lib.rs:288`) and the objection answered |

What else the properties allow for, since the code does it; each was met while the
module was written, and the guard or the condition that allows for it is in the module:

- Sessions. A raw line with two records makes a replay skip a compaction, and its reference
  dangles. A replay beside an open handler leaves derived files that
  differ until the next replay that is alone; the handler writes on into the archived file.
- Voice. `RECORDING.lock` survives a killed relay, and ordinary messages queue until the next recording ends.
  `queue_for_later` forgets `--translate` and `--quiet`: a queued dry run is spoken. A
  download that breaks off leaves an empty cache file, which is silence from then on; one
  whose request fails leaves a count of two and no file, and its speech is streamed and paid for
  ever after. Overlapping processes lose hits. `announce.toml` is read twice, and a backend that
  changed between is asked without a key. A long name that byte 48 cuts inside a character panics. The name of a
  cache file has 16 bits of the hash: that two speeches with one
  readable part differ there is `HashAssumption`.
- Telemetry. `emit_validated_or_alert` answers TRUE though every transport failed. A recorder that
  stops drops its backlog. On macOS and the BSDs an accepted stream does not block, and what is written after the
  accept is lost although its sender was told that it is written; elsewhere a sender that is slow loses it after the timeout. A write
  that was cut leaves a torn line in the archive.
- Quality. A run over a directory without `--force` skips a source that has a sidecar, whatever is in it. Texts of
  one file name that are checked at once are mixed up, and a linter whose configuration another run has just truncated
  goes by its defaults or reports nothing.
- Exchanges. Reminders in a message that is a plain string, or in the result of a tool, are never judged; text
  before a `<system-reminder>` is taken for one; the mark of a hook anywhere in a reminder excuses it. A mark of
  the cache inside the content of a tool result is not taken off. A block that is left out of an
  earlier message makes everything from there on new again. The first exchange is told without its
  system blocks and tools.
- Batches. Files of an earlier, larger dispatch stay in the directory; a dispatcher
  that fails leaves batches without a manifest; two with one directory overwrite each other.
- Gates. The check tools end with 2 for a path that does not exist, where `run_check` documents 1. A torn
  TOML file parses as an empty table, which lenient schemas accept.
- Hooks. A long command that is not ASCII ends the bash hook in a panic, where its head says that it
  always ends with 0. A category that warns ends the search, so that a later one that would block is not
  reached; an exempted first match silences its category.
- Launcher. The id of a space in `descriptors` selects its languages and not its text. A language chosen by
  hand is lost when a descriptor is toggled.
- Dependencies. In hybrid mode a symbol that both the target and another file ask for is in the form
  the walk comes to first, the signature; with a limited depth the order is that of the walk; `import *` leaves out
  type aliases; of two definitions of one name the first is shown.
- Gleipnir. `import a.b as c` passes the boundary checks, and so does `from pkg import logic`; directories with the name
  of a level misplace the files below them (`PlainlyNamed`); test files and scripts come under the
  old rules, which have no boundaries (`UnderOldRules`); `from . import composed` is
  flagged though the level below may be used; overrides for the transform zone never apply; the
  dispatch check does not look at a module-level `if`; mutual recursion is not caught.

## 6. Proofs

The theorems hold for every value of the constants that satisfies the named
assumptions of the module.

`SessionFiles_proofs`, from `BodyAssumption`, `TornAssumption` and
`BoundAssumption` of `SessionFiles` and `DerivedAssumption` of `SessionReplay` (`DERIVED_FILES` lists
the derived files):

- `TypeCorrect`: `Spec => []TypeOK`. `TypeOK` is inductive; the lemmas show
  that each file operation maps files to files.
- `RawLogComplete`: `Spec => []RawFirst`, for any set of requests and any
  `Overlap`. `RawFirst` is not inductive: a handler about to append to
  a derived file, or holding a line it read, must have been captured too.
  `CaptureInv` adds that, and `TextCaptured` and `CaptureStep` show that it is kept,
  with the last-line lemma `LastLineOfFile` for what a compaction reads and
  `OverwritesFile` for what it writes.
- `LatestIsRecoverable`: `Spec => []LatestExchangeRecoverable` where main exchanges and compactions do not
  overlap (`Overlap \cap Loop = {}`; other requests may), wherever crashes and errors cut a
  compaction short. `LatestInv`: the newest main exchange is in the last line of the main log that
  is not blank, or in the snapshots; a compaction that has read the last line holds it until
  its snapshot is written (`Held`), and one exchange of the loop is at work at a time (`OneLoop`).
- `ReplayRebuildsLoop` and `ReplayRebuildsFiles` (`ReplayRebuilds`): a replay that was alone from beginning to end
  leaves the files that `Replay` makes of the raw log, and where no call failed these are the files the live handlers
  wrote. The first is about the files of the loop, and both suppose that its exchanges do not overlap, as
  Claude Code waits for one before it sends the next. The second is about every file and needs that two subagents
  side by side do not write to one file (`SubsApart`): they may be captured in one order and logged in the other, and TLC
  finds that soon if the assumption is dropped. The invariant looks forward: `Live` and `LoopAt` say that what the
  open handlers have still to do turns the files there are into the `Replay` of the raw log
  (`CleanLive`), whichever step is next, and `Alone`, `Reach` and `Taken` say the same of a replay and the lines it has
  still to read. `ReplayNext1` is the induction: the `Replay` of one more line is the line's handler after the `Replay` before it.
- `ReplayReferencesRight`: `ReplaySpec => []ReplayKeepsReferences`, where exchanges of the loop do not overlap. A line
  a truncation leaves, and a snapshot, are those of the exchange the raw log has before the compaction;
  `MissingInv` says which files a handler may find missing, `SpotlessLive` where a handler that was not moved stands, and
  `ReplayRefs` and `ReplayGood` what a replay may add.

`Streams_proofs`, from `IndexAssumption`, `StreamIndexAssumption`,
`StreamsAssumption` and `CapacityAssumption` of `SseIntercept`, and `SizeAssumption` (a line has a byte) and
`MessagesAssumption` (a conversation is a sequence) of `ExchangeWatcher`:

- `FilterTypeCorrect`: the state is well typed and the channel never holds more
  than its capacity.
- `FilterImplemented`: `Spec => ImplementsFilter`. The inductive invariant is
  `ModesTrackStream`: the mode of an index says which block is open there, by the
  stream, and `next_forwarded_index` is the number of blocks forwarded. With it
  `Ownership` and `Routing` turn what the task looks up into what the
  filter reads off the stream; every step that routes an event is a `Filter` step and
  every other one a stutter.
- `IndicesContiguous`: `Spec => []ForwardedContiguous`, from the rank of the
  blocks forwarded so far and the number of starts in the output being equal.
- `ThinkingIsDiverted`: `Spec => []ThinkingDiverted`, for any framing, a stream that ends anywhere, a slow reader, a client that
  leaves and an upstream that fails. `DivertInv`: nothing stripped is sent or waits to be, the buffer is the text so far of
  the thinking block that is open (`BufferKept`), and the side log has the blocks that have ended, whole
  and in their order (`LogKept`, with `NthAdded` for the order). `TailInv`: while the task waits for a frame less than one event
  is in its buffer, so what the end of the stream flushes is a piece of the event after the last one routed, and nothing more.
- `WatcherFollowsLog`: `WatchSpec => []LogFollowed`, and `WatcherConsecutive`: `WatchSpec => DatagramsConsecutive`, with
  the pipeline paced (`Paced`; section 5 has what happens otherwise), for any lengths of lines, any division of the bytes into
  reads, any number of truncations, restarts and replays. The bytes are the argument: `FileKept` says that
  the log is whole lines (`WholeLines`), but for the newline of an append and the rewrite of a truncation. `InStep` says
  where a watcher that no replay disturbs stands: what it holds are the bytes before its position
  (`Buffered`), back to the end of a line, and it has counted the lines up to there and knows the last of them (`AtLine`); or
  the log was truncated below it (`Behind`) and it has nothing in its buffer and is about to find out, which is where
  `Size[last] + 1` matters: a log cut back to exactly its position is one it has read. The one exception is
  `Pending`: the watcher that opened the log between the text and the newline of its first line has counted that line
  already, and the newline alone is nothing to it. `LineTaken` puts a line together from its pieces,
  `LineNumber` makes the number of newlines the number of the line, and `EmittedTells` says that a message is in the
  datagram or in the exchange compared with, from which `Told` has every message of what was processed told.

`ProxySessions_proofs`, from `IdAssumption`, `RequestAssumption`, `BoundsAssumption`,
`DirAssumption` (workspaces are told apart by the last component of their path) and
`ShowsAssumption` (a session shows a directory of its own workspace and of none inside it):

- `WorkspaceIsKept`: `Spec => []WorkspaceKept`, for any number of overlapping requests, restarts, kills of the proxy and
  failed calls. `RegistryInv` has the hook of a start register before the first
  request unless one of its calls failed, and the tables hold a workspace of the session (`Placed`) or none; `HandlerInv` says what a
  handler has resolved so far, and `ResolveOwn` that the longest registered path which covers what a session shows is that of its
  workspace, of one around it where its own could not be registered, or none.
- `CachedIsLinked`: `Spec => []LinkedOnceKnown`. `LinkInv` adds that while the link is not there the request
  that filled the cache is still on its way to make it, unless the call that makes it failed.
- `WatchersAreOwned`: `Spec => []OneWatcher`, whatever is at work when the proxy is told to stop. `WatcherInv`: only the holder of the
  mutex starts a watcher, where the table has none; and after `KillAll` the table has none but those of `late`.

`PromptHandoff_proofs`, from `NoneAssumption`, `BoundsAssumption` and `ScopesAssumption`, for launches, sessions and
hooks that overlap in any way, are given up, fail and die:

- `OneSessionPerSpec`: `Spec => []SpecLaunchesOnce`. `SpecInv`: a pick whose spec is not read twice is in one place at a
  time, with a terminal or in the spec, and was launched only when it is in none. `PromptInv`: the prompt in the temporary
  directory is that of the last pick, wherever that is.
- `InjectsItsOwn` and `InjectsAgain`: `Spec => []InjectedIsOwn` and `Spec => []Reinjected`. The prompt passes
  four places. `WorkspaceInv` says of a workspace that is neither `spoilt` nor `mixed` (`Sound`), whatever happens in the others,
  that the prompt in it is that of the launch under way there, and the spec that of a launch which reads it; `SidInv` that ids are not
  shared, that an id has a prompt in its own workspace only and a new one has none yet; `SlotInv` that the slot of such a
  workspace is that of the session being cleared, or of a dead one (`left`); and
  `KeptInv` which of the places has the prompt of an undisturbed session at each of its steps.

`Voice_proofs`, from `MessagesAssumption` of `VoiceRelay`, and `AnnouncementsAssumption`,
`HashAssumption` and `SilenceAssumption` of `Announce`:

- `TheRelayFollows`: `Spec => []FollowsRecording`. `WorkerInv` (the relay returns after its worker, which releases the
  key last) holds across kills; `KeyInv` (the last command on its way to the worker says whether the key is
  to be down) and `LockInv` until a kill. `ApartInv` is for what is heard: while a message is being announced
  the relay rests or waits for those that it replays, so the lock a message looked at is the lock there is.
- `HeardIsOwn`: `AnnounceSpec => []HeardAsAsked`, for any announcements, configurations and number of
  processes. The inductive invariant `CacheInv` says that a process resolved
  the speech that was asked of it, that a cache file is empty or holds the speech of its name, and that
  while nothing overlapped or failed only one process is at work and no file stays empty. That a
  name stands for one speech is where `HashAssumption` comes in.
- `CreditsAreSaved`: `AnnounceSpec => []CreditsSaved`, with edits of the configuration between and during the
  processes. `CreditsInv`: the table counts every request that was paid for (`TableInv`), a speech that it
  counts twice is in the cache or on its way there, and a request is counted before it is sent (`CountedFor`).

`Writers_proofs`, from `JobAssumption` and `TargetAssumption` of `Writers` (a file has the name of its
format, and the end of a line is no record), `SchemaAssumption`, `DefinitionsAssumption`
and `KindsApart` of `Gates` (places and entries are listed, a definition is a record of its fields, and no document is
mistaken for a missing file or no answer), `TurnsAssumption` of `Exchanges` (a turn is a sequence of messages, whose
content is one text or blocks), `LauncherAssumption` of `Launcher`, and `ProjectsAssumption` of `Deps` (a project has finitely
many files, and a file is a list of imports and a list of definitions, each of one of the kinds there are):

- `DocumentsAreWhole`: `Spec => []DocumentsWhole`, and `NothingIsOverwritten`: `Spec => []NeverOverwritten`, for writers that overlap in
  any way, fail and are killed. `NameInv` says that no two names lead to one inode, `OpenInv` that what a writer has open was made for its
  document; `MetInv` that writers of one document that are at work have met, and `MadeInv` that a json writer which is at work has met
  every one that made the document since it was deleted: had one of them been through before, the check would have found the
  document. `LoneInv`: a writer that met nobody has the temporary name to itself, empty until it is written and whole until it is
  renamed, and nobody has open what it made.
- `BatchesInOrder`: `Spec => []BatchInOrder`, for any writers, overlapping or not. `BatchInv` says that the records a writer has
  in its file are the first half of its calls, rounded up (`BatchAt`): `OwnPiece` for the record it adds, `ForeignPiece`
  for what others add; that only such writers write to files of records is `BaseInv`, which needs no writer apart.
- `DefaultsSettle`: for a schema with `OnePass` and any definition, one pass of the defaults settles every entry of
  every `allOf` and changes nothing that was given. `Through` says what the first n entries have settled: `EntryDone` is the
  entry just applied, `ConditionKept` and `SettledStays` that no later entry undoes an earlier one, as an entry only adds
  to places that come later. Entries are numbered, and the induction over the numbers is `AllNumbers`.
- `GatesHold`: `GatesSpec => []GatesAgree`, for any schema trees and definitions. It supposes that no schema behind an
  output gate accepts an empty table (`Strict`), which is what a torn file reads as, and that the paths a definition
  names are those its schema annotates (`NamesAreAnnotated`); TLC evaluates both for the trees and definitions of the
  run. `GatesInv` adds that a file which is whole holds what its output gate let through, defaults and all
  (`LetThrough`), and that a gate answers for the file as it stood when it was read (`AnswersTrue`).
- `ConversationIsTold`: `ExchangesSpec => []ConversationTold`, for any turns, headers and number of messages. The
  invariant `ToldInv` says that what is compared with is the last exchange without its marks, and that the
  transcript is `TellsOf` the labelled pairs of the conversation. Three facts carry it: the comparison finds exactly the
  turn (`DiffIsTurn`), since marks are stripped on both sides; labelling does not see the marks (`LabelledSame`) and goes
  message by message (`LabelledConcat`); and telling in two parts is telling at once (`TellsConcat`), for texts because
  joining is associative, for calls because arrays are put together. For the warning, `UnmarkedJoined`: a tag
  at its head keeps a reminder apart from those before it.
- `SessionIsShown`: `LauncherSpec => []LaunchedAsShown`, for any keys, disks, profiles and environment (`LauncherAssumption`: directories hold
  finitely many files, and what a profile says of coding is a Boolean). `LauncherInv`: the library is one that was scanned,
  in which a fragment stands once and in one part
  (`LibraryOk`); positions selected exist, and the cursor is on a row (`Kept`); the languages selected cover
  the systems (`ListedSynced`) until one is changed by hand, and the space (`Synced`) until the persona is; and an untouched
  selection is that of a launcher started anew in its workspace. `ContextIs` and `PromptIs` then take the prompt apart: fragments
  that come from different parts of the library do not get mixed up when they are put together, so picking out those of one part
  gives back what the summary shows, and the sizes add up.
- `DependenciesAreShown`: `DepsSpec => []DependenciesShown`, for any projects, with cycles or without, any modes and depths.
  The state between two reads is simple (`DepsInv`); the argument is in the walk. `CallRight` says in what state a call of a
  level may be made and `AnswerRight` what it returns then, and `WalkRight` takes them from one level to the
  next (`WalkKept` is the induction, through `AllNumbers`). `Grounded` is what every state holds: a file is listed
  once, with names that are defined in it and that somebody reached imports, in a form that fits. Where the depth is
  no limit, a call at depth k has visited k files before its own, so the depth does not run out before the files do.
  `Pending` says who is still open: whatever was visited is `Done`, with all it asks for there, or leads to the file of the
  call. So without a cycle an import that was visited before is done, and a file is listed after
  all that it imports (`Ordered`). In the end nobody is open, what was visited is closed under the imports, and
  `ReachedLeast` makes it everything that is reached.

`Datagrams_proofs`, from `KindsAssumption`, `BoundsAssumption` and `NoneAssumption` of `Datagrams`, `RulesAssumption`
(a rule has one of the three severities or none) and `UnsetAssumption` of `ToolHooks`, and `JobsAssumption` of `Batches`:

- `NobodyIsSilent`: `Spec => []NeverSilent`, for any senders and recorders and any bound on faults; no assumption on how
  recorders overlap. `HeardInv` says at every step of a sender what has reached whom, and how many calls
  must have failed if nothing has.
- `StaysReachable`: `Spec => []RunningIsReachable`, also beside others: what `path` leads to changes only in the steps by which
  another one starts or ends.
- `ArchivedInOrder`: `Spec => []ArchiveInOrder`, for any recorders. The archive alone is not inductive: `LineInv` has the
  archive, the connection being read and the backlog of a recorder as one line in which a transmission stands once, and an
  alert behind the datagram it is about as long as nothing has overlapped; `CrossInv` that two recorders have no connection in
  common, and `AloneInv` that without an overlap there is one.
- `CallsRunAsDecided`: `HooksSpec => []ToolRunsAsDecided`, for any rules, calls, configurations and any number of deaths.
  `HooksInv` says of each hook what it has told Claude Code and what is in the log by then, or could not be written to it (`HookAt`), and from
  what the verdict was concluded (`Concluded`); it knows nothing of the rules. `DestructionIsDenied` and
  `CleanIsAllowed` are what the order of the categories and of their rules amounts to.
- `BatchesHold`: `BatchesSpec => []BatchesAsPromised`, for any inputs, sizes and number of dispatchers. The inductive
  invariant `BatchesInv` puts the batches a dispatcher has written, and still owns, where `Before` says: the
  number of records in the first batches. The lemmas are the arithmetic of the division:
  `EvenShare` and `EvenBatches` for the even one, `TailBatch` for the other,
  and `Divides` that both are as `compute_batches` promises.

`Quality_proofs`, from `QualityAssumption`, `RunsAssumption`, `StartsAssumption` and `ReportsAssumption`:

- `ReportsAreTrue`: `Spec => []ReportedWasThere`, for any runs, edits and kills, apart or not. `FoundInv`: what a run has
  found so far, it found in versions its file had meanwhile, an empty text and the linter's defaults among them.
- `SidecarsAreTrue`: `Spec => []SidecarTrue`, which is about runs kept apart. `AloneInv` says that one run is at work, `WholeInv` how far it is
  with its file (the findings of no checker, of one, of both; the hash; a torn sidecar), and `DoneInv` which sources a
  directory run has done with.
- `TheGateIsSound`: `Spec => GateSound`, an action property. `FreshInv` adds that without kills a sidecar is of what its
  source holds, unless a hook or a run is still to come, and `GateInv` that the gate has read what it is through with.
- `CleanFilesAreLayered`: `GuardSpec => []CleanIsLayered`, for any paths, sources and edits, from `ImportsAssumption`,
  `PathsAssumption` and `UncheckedAssumption` of `Guardrails` and `NoClassAssumption` of `Layers`. `GuardInv` is short;
  the argument is in the two classifiers. `PathOfPlaced`: a dotted path is classified as the file it leads to;
  `DirectoryOfPlaced`: the package of such a file is a place that only an entry point may import;
  `StructureStaysApart`: the structure check has no excuse for one, and no structure file lies below a zone of logic.

`TypeCorrect`, `ReplayTypeCorrect`, `FilterTypeCorrect`, `WatcherTypes`, `IndicesContiguous`, `RelayTypeCorrect`,
`DefaultsSettle` and the two `TypesHold` state no property of a run.

The library's induction theorems take an operator as a parameter and are out of the provers' reach. Where a proof
needs induction, over the entries of a schema or the lines of a raw log, it is done through least elements: a set of numbers
without one is empty (`LeastNumber`), so a set that has 0 and with each number the next has them all (`AllNumbers`).

Every invariant and every action property without fairness that a run expects to hold is a theorem. Only model-checked: the
liveness properties (`EveryRequestForwarded`, `EverythingDelivered`, `EveryExchangeSeen`, `RecordingFollowsMic`, `QueuedIsSpoken`,
`WrittenIsArchived`, `EditIsFiled`), as fairness and ENABLED are out of the prover's reach.

## 7. Not modelled

- Of the modelled parts: HTTP, TLS and JSON themselves; fsync, so that a crash
  of the machine may lose what a crash of the process does not; fs::copy is one
  step; the side log and the raw log are assumed to be on a working disk except where
  `Fault` or `faults` says otherwise.
- Resuming a session with arguments passed through cc_launch, orient's context output, and the
  drawing of the launcher's screen.
- Gleipnir's checks of Rust, TypeScript and Svelte: each looks at one syntax tree and
  shares no state with another; the Python checks are modelled since layering needs several to agree.
- The rendering of reports, `format_core`, `error_core`, `text_core` and `time_core`: pure text.
- The notification and log hooks, which write one record and decide nothing; the deployment
  scripts; and the first generation of the interceptor, which the proxy replaced.
- `gate_verdandi_input`, which no stage of the pipeline names.
- The parts with status `not_modelled` in `PROJECT.json`, each with its reason.

## 8. Plan

What is left, in the order of what matters to the system:

1. The answers of the hooks to other events, and what is said aloud of them, so that `ToolHooks` covers `response.rs`.
2. Gleipnir's checks of Rust, if they come to share state or to depend on where a file stands as those of Python do.
3. The rendering of a report, if a property comes to be about what is shown of it.
