----------------------------- MODULE VoiceRelay -----------------------------
(***************************************************************************)
(* Speech and the microphone: the daemon relay_mic_to_voice holds a key     *)
(* down while the microphone is on, announce speaks unless RECORDING.lock   *)
(* says that it is on, and then leaves its message in a queue file that the *)
(* relay drains when the microphone goes off.  The two share only files.    *)
(*                                                                         *)
(* A message is one invocation of announce.                                 *)
(***************************************************************************)
EXTENDS Naturals, Sequences, FiniteSets, SequencesExt

CONSTANTS
  Messages, Critical,  \* --severity critical
  Few,                 \* bound: messages announced when not `apart`
  MaxToggles, MaxCrashes

ASSUME MessagesAssumption ==
  Critical \subseteq Messages /\ MaxToggles \in Nat /\ MaxCrashes \in Nat

VARIABLES
  apart,          \* no announcement falls into a step of the relay, and no
                  \* relay is killed
  muted, toggles, \* the microphone
  events,         \* mute changes on their way to the event loop
  stage,             \* the relay
  recording, holding,
  content,        \* what drain_queue has read and not replayed
  leaving,        \* the last stop, before the relay returns
  shutdown, crashes,
  commands,       \* to the worker of the SyntheticHold
  worker,         \* its loop: "idle", "holding", "returned"
  key,            \* the key as the system sees it
  lock,           \* RECORDING.lock
  queue,          \* queue.jsonl
  hushing,        \* a hush process that has not run yet
  msg, replayed   \* where a message stands, and those the relay replayed

relay == <<stage, recording, holding, content, leaving>>
hold == <<commands, worker, key>>
mic == <<apart, muted, toggles>>
spoken == <<msg, replayed>>
vars == <<mic, events, relay, shutdown, crashes, hold, lock, queue, hushing, spoken>>

In(s) == {m \in Messages : msg[m] = s}

Init ==
  /\ apart \in BOOLEAN
  /\ muted \in BOOLEAN /\ toggles = 0 /\ events = <<>>
  /\ stage = "loop" /\ recording = FALSE /\ holding = FALSE
  /\ content = <<>> /\ leaving = FALSE
  /\ shutdown = FALSE /\ crashes = 0
  /\ commands = <<>> /\ worker = "idle" /\ key = "up"
  /\ lock = FALSE /\ queue = <<>> /\ hushing = FALSE
  /\ msg = [m \in Messages |-> "new"] /\ replayed = {}

-----------------------------------------------------------------------------
(* The microphone and the signals *)

AnnouncersDone == In("check") \cup In("queue") \cup In("synthesize") = {}
RelayAtRest ==
  \/ stage = "loop" /\ events = <<>> /\ ~shutdown /\ ~hushing
  \/ stage = "down" /\ ~hushing

\* The listener sends what it reads of the device to the event loop.
Toggle ==
  /\ toggles < MaxToggles
  /\ apart => AnnouncersDone /\ RelayAtRest
  /\ toggles' = toggles + 1
  /\ muted' = ~muted
  /\ events' = IF stage = "down" THEN events ELSE Append(events, muted')
  /\ UNCHANGED <<apart, relay, shutdown, crashes, hold, lock, queue, hushing, spoken>>

Signal ==
  /\ stage # "down"
  /\ ~shutdown
  /\ apart => AnnouncersDone
  /\ shutdown' = TRUE
  /\ UNCHANGED <<mic, events, relay, crashes, hold, lock, queue, hushing, spoken>>

\* The relay and its worker are killed; it is started again.
Crash ==
  /\ ~apart
  /\ crashes < MaxCrashes
  /\ stage # "down"
  /\ crashes' = crashes + 1
  /\ stage' = "loop" /\ recording' = FALSE /\ holding' = FALSE
  /\ content' = <<>> /\ leaving' = FALSE /\ events' = <<>>
  /\ commands' = <<>> /\ worker' = "idle"
  /\ shutdown' = FALSE
  /\ UNCHANGED <<mic, key, lock, queue, hushing, spoken>>

-----------------------------------------------------------------------------
(* relay_mic_to_voice: event_loop, start, stop, drain_queue *)

At(l) == stage = l /\ UNCHANGED <<mic, shutdown, crashes, worker, key>>

Receive ==
  /\ At("loop")
  /\ ~shutdown
  /\ events # <<>>
  /\ events' = Tail(events)
  /\ stage' = IF Head(events) /\ recording THEN "release"
           ELSE IF ~Head(events) /\ ~recording THEN "lock"
           ELSE "loop"
  /\ UNCHANGED <<recording, holding, content, leaving, commands, lock, queue,
                 hushing, spoken>>

Leave ==
  /\ At("loop")
  /\ shutdown
  /\ stage' = "release"
  /\ leaving' = TRUE
  /\ UNCHANGED <<events, recording, holding, content, commands, lock, queue,
                 hushing, spoken>>

CreateLock ==
  /\ At("lock")
  /\ lock' = TRUE
  /\ stage' = "hush"
  /\ UNCHANGED <<events, recording, holding, content, leaving, commands, queue,
                 hushing, spoken>>

\* hush is spawned and not waited for.  The hold begins if a terminal has the
\* focus.
Hush ==
  /\ At("hush")
  /\ hushing' = TRUE
  /\ recording' = TRUE
  /\ stage' = "focus"
  /\ UNCHANGED <<events, holding, content, leaving, commands, lock, queue, spoken>>

Focus ==
  /\ At("focus")
  /\ \/ commands' = Append(commands, "start") /\ holding' = TRUE
     \/ UNCHANGED <<commands, holding>>
  /\ stage' = "loop"
  /\ UNCHANGED <<events, recording, content, leaving, lock, queue, hushing, spoken>>

Release ==
  /\ At("release")
  /\ commands' = IF holding THEN Append(commands, "stop") ELSE commands
  /\ holding' = FALSE
  /\ stage' = "unlock"
  /\ UNCHANGED <<events, recording, content, leaving, lock, queue, hushing, spoken>>

\* Mutant: the recording goes on when the lock is gone.
RemoveLockOnly ==
  /\ At("unlock")
  /\ lock' = FALSE
  /\ stage' = "read"
  /\ UNCHANGED <<events, recording, holding, content, leaving, commands, queue,
                 hushing, spoken>>

RemoveLock ==
  /\ At("unlock")
  /\ lock' = FALSE
  /\ recording' = FALSE
  /\ stage' = "read"
  /\ UNCHANGED <<events, holding, content, leaving, commands, queue, hushing, spoken>>

ReadQueue ==
  /\ At("read")
  /\ content' = queue
  /\ stage' = IF queue = <<>> THEN "replay" ELSE "remove"
  /\ UNCHANGED <<events, recording, holding, leaving, commands, lock, queue,
                 hushing, spoken>>

RemoveQueue ==
  /\ At("remove")
  /\ queue' = <<>>
  /\ stage' = "replay"
  /\ UNCHANGED <<events, recording, holding, content, leaving, commands, lock,
                 hushing, spoken>>

\* Mutant: a line is replayed and the rest of the file is forgotten.
ReplayFirst ==
  /\ At("replay")
  /\ content # <<>>
  /\ content' = <<>>
  /\ msg' = [msg EXCEPT ![Head(content)] = "check"]
  /\ replayed' = replayed \cup {Head(content)}
  /\ stage' = "wait"
  /\ UNCHANGED <<events, recording, holding, leaving, commands, lock, queue, hushing>>

\* announce is run again with the message, and waited for.
ReplayNext ==
  /\ At("replay")
  /\ content # <<>>
  /\ content' = Tail(content)
  /\ msg' = [msg EXCEPT ![Head(content)] = "check"]
  /\ replayed' = replayed \cup {Head(content)}
  /\ stage' = "wait"
  /\ UNCHANGED <<events, recording, holding, leaving, commands, lock, queue, hushing>>

Wait ==
  /\ At("wait")
  /\ \A m \in replayed : msg[m] \notin {"check", "queue", "synthesize"}
  /\ stage' = "replay"
  /\ UNCHANGED <<events, recording, holding, content, leaving, commands, lock,
                 queue, hushing, spoken>>

\* The queue is empty: back to the loop, or drop the SyntheticHold and return.
Drained ==
  /\ At("replay")
  /\ content = <<>>
  /\ stage' = IF leaving THEN "join" ELSE "loop"
  /\ commands' = IF leaving THEN Append(commands, "shutdown") ELSE commands
  /\ UNCHANGED <<events, recording, holding, content, leaving, lock, queue,
                 hushing, spoken>>

\* Mutant: the worker is not waited for.
ReturnAtOnce ==
  /\ At("join")
  /\ stage' = "down"
  /\ events' = <<>>
  /\ UNCHANGED <<recording, holding, content, leaving, commands, lock, queue,
                 hushing, spoken>>

Return ==
  /\ At("join")
  /\ worker = "returned"
  /\ stage' = "down"
  /\ events' = <<>>
  /\ UNCHANGED <<recording, holding, content, leaving, commands, lock, queue,
                 hushing, spoken>>

-----------------------------------------------------------------------------
(* keystroke_io: worker_loop.  A key that is repressed stays down. *)

Press(c) == c = "start" /\ worker' = "holding" /\ key' = "down"

Unpress(c) ==
  /\ c = "stop"
  /\ worker' = "idle"
  /\ key' = IF worker = "holding" THEN "up" ELSE key

\* After the loop the combination is released whether it is held or not.
Quit(c) == c = "shutdown" /\ worker' = "returned" /\ key' = "up"

Command ==
  /\ commands # <<>>
  /\ worker # "returned"
  /\ commands' = Tail(commands)
  /\ LET c == Head(commands) IN Press(c) \/ Unpress(c) \/ Quit(c)
  /\ UNCHANGED <<mic, events, relay, shutdown, crashes, lock, queue, hushing, spoken>>

-----------------------------------------------------------------------------
(* announce and hush *)

Become(m, s) ==
  /\ msg' = [msg EXCEPT ![m] = s]
  /\ UNCHANGED <<mic, events, relay, shutdown, crashes, hold, lock, hushing, replayed>>

Announce(m) ==
  /\ msg[m] = "new"
  /\ IF apart THEN RelayAtRest ELSE m \in Few
  /\ Become(m, "check")
  /\ UNCHANGED queue

\* Mutant: the recording lock is not looked at.
CheckNoLock(m) ==
  /\ msg[m] = "check"
  /\ Become(m, "synthesize")
  /\ UNCHANGED queue

\* RECORDING.lock: all but critical messages are for later.
CheckLock(m) ==
  /\ msg[m] = "check"
  /\ Become(m, IF lock /\ m \notin Critical THEN "queue" ELSE "synthesize")
  /\ UNCHANGED queue

queue_for_later(m) ==
  /\ msg[m] = "queue"
  /\ queue' = Append(queue, m)
  /\ Become(m, "queued")

\* Playback is a process of its own: announce has returned when it plays.
Playback(m) ==
  /\ msg[m] = "synthesize"
  /\ Become(m, "playing")
  /\ UNCHANGED queue

PlayEnds(m) ==
  /\ msg[m] = "playing"
  /\ Become(m, "over")
  /\ UNCHANGED queue

\* hush kills the processes that play.
HushRuns ==
  /\ hushing
  /\ hushing' = FALSE
  /\ msg' = [m \in Messages |-> IF msg[m] = "playing" THEN "over" ELSE msg[m]]
  /\ UNCHANGED <<mic, events, relay, shutdown, crashes, hold, lock, queue, replayed>>

-----------------------------------------------------------------------------

Relay ==
  \/ Receive \/ Leave \/ CreateLock \/ Hush \/ Focus
  \/ Release \/ RemoveLock \/ ReadQueue \/ RemoveQueue
  \/ ReplayNext \/ Wait \/ Drained \/ Return

Announcer(m) == CheckLock(m) \/ queue_for_later(m) \/ Playback(m) \/ PlayEnds(m)

Next ==
  \/ Toggle \/ Signal \/ Crash
  \/ Relay \/ Command \/ HushRuns
  \/ \E m \in Messages : Announce(m) \/ Announcer(m)

Spec == Init /\ [][Next]_vars

\* The processes run; users, signals and crashes are not fair.
FairSpec ==
  /\ Spec
  /\ WF_vars(Relay) /\ WF_vars(Command) /\ WF_vars(HushRuns)
  /\ \A m \in Messages : WF_vars(Announcer(m))

-----------------------------------------------------------------------------
(* Properties *)

SwitchTypes ==
  /\ apart \in BOOLEAN /\ muted \in BOOLEAN /\ recording \in BOOLEAN
  /\ holding \in BOOLEAN /\ leaving \in BOOLEAN /\ shutdown \in BOOLEAN
  /\ lock \in BOOLEAN /\ hushing \in BOOLEAN

RelayTypes ==
  /\ events \in Seq(BOOLEAN)
  /\ toggles \in 0..MaxToggles /\ crashes \in 0..MaxCrashes
  /\ stage \in {"loop", "lock", "hush", "focus", "release", "unlock", "read",
                "remove", "replay", "wait", "join", "down"}
  /\ commands \in Seq({"start", "stop", "shutdown"})
  /\ worker \in {"idle", "holding", "returned"} /\ key \in {"up", "down"}

MessageTypes ==
  /\ queue \in Seq(Messages) /\ content \in Seq(Messages)
  /\ msg \in [Messages -> {"new", "check", "queue", "queued", "synthesize",
                           "playing", "over"}]
  /\ replayed \subseteq Messages

TypeOK == SwitchTypes /\ RelayTypes /\ MessageTypes

\* However the relay was run and killed before, the key is up when it returns;
\* and unless it was killed, what it does for others follows the recording
\* whenever it waits: the lock file is there while recording, and the key, when
\* the worker has caught up, is down only then; and "queue non-critical
\* messages during voice recording": nothing ordinary is heard then, if no
\* announcement falls into a step of the relay.
FollowsRecording ==
  /\ stage = "down" => key = "up"
  /\ holding /\ stage # "release" => recording
  /\ stage = "loop" /\ commands = <<>> /\ crashes = 0 => (key = "down") = holding
  /\ stage \in {"loop", "down"} /\ crashes = 0 => lock = recording
  /\ apart /\ recording /\ stage = "loop" /\ ~hushing => In("playing") \subseteq Critical

\* Once the microphone is left alone the recording settles to its last state,
\* though events pile up while the queue is drained.  (A new relay does not ask
\* the device before the next change.)
RecordingFollowsMic ==
  <>[](toggles > 0 /\ ~shutdown /\ crashes = 0 => recording = ~muted)

\* A queued message is not lost: it is spoken once the microphone is off, if no
\* announcement falls into a step of the relay.
QueuedIsSpoken ==
  \A m \in Messages :
    (apart /\ msg[m] = "queued" /\ muted /\ events = <<>> /\ ~shutdown)
       ~> (msg[m] # "queued" \/ ~muted \/ shutdown)

\* "sequential -- avoid overlapping playback"
OneAtATime == Cardinality(In("playing") \cap replayed) <= 1

=============================================================================
