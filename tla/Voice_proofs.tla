---------------------------- MODULE Voice_proofs ----------------------------
(***************************************************************************)
(* The relay leaves no key down and its lock and key follow the recording,  *)
(* for any messages, mute changes, signals and restarts; what is heard for  *)
(* a call of announce is what was asked for, for every set of calls and     *)
(* configurations, any number of processes and any order of their steps,    *)
(* failures and kills.                                                      *)
(***************************************************************************)
EXTENDS VoiceRelay, Announce, TLAPS

-----------------------------------------------------------------------------
(* The relay: the inductive invariant *)

\* The recording is off from the removal of the lock until the next hush, and a
\* key is held only in a recording.
StageInv ==
  /\ stage \in {"lock", "hush", "read", "remove", "replay", "wait", "join", "down"}
       => ~recording
  /\ stage = "focus" => recording
  /\ holding => recording /\ stage \in {"loop", "release"}

\* The relay returns after its worker, which releases the key last.
WorkerInv ==
  /\ worker = "returned" => key = "up"
  /\ stage = "down" => worker = "returned"

\* The key is where the commands on their way to the worker leave it.
KeyInv ==
  crashes = 0 =>
    /\ worker = "holding" <=> key = "down"
    /\ commands = <<>> => (key = "down" <=> holding)
    /\ commands # <<>> => (commands[Len(commands)] = "start" <=> holding)

LockInv == crashes = 0 => (lock <=> recording \/ stage = "hush")

Busy == In("check") \cup In("queue") \cup In("synthesize")

\* With announcements apart from the relay's steps, only those that it replays
\* run while it works, and nothing ordinary is spoken since the lock is there.
ApartInv ==
  apart =>
    /\ crashes = 0
    /\ RelayAtRest \/ Busy = {} \/ (stage = "wait" /\ Busy \subseteq replayed)
    /\ lock => In("synthesize") \subseteq Critical
    /\ lock /\ stage # "hush" /\ ~hushing => In("playing") \subseteq Critical

RelayInv == TypeOK /\ StageInv /\ WorkerInv /\ KeyInv /\ LockInv /\ ApartInv

LEMMA InitRelay == Init => RelayInv
<1> SUFFICES ASSUME Init PROVE RelayInv OBVIOUS
<1>1. SwitchTypes BY DEF Init, SwitchTypes
<1>2. RelayTypes BY MessagesAssumption DEF Init, RelayTypes
<1>3. MessageTypes BY DEF Init, MessageTypes
<1>4. StageInv /\ WorkerInv /\ KeyInv /\ LockInv BY DEF Init, StageInv, WorkerInv, KeyInv, LockInv
<1>5. ApartInv BY DEF Init, ApartInv, Busy, In
<1> QED BY <1>1, <1>2, <1>3, <1>4, <1>5 DEF RelayInv, TypeOK

-----------------------------------------------------------------------------
(* The relay: one step for every action *)

LEMMA SeqKept ==
  ASSUME NEW S, NEW s \in Seq(S)
  PROVE  /\ \A e \in S : Append(s, e) \in Seq(S)
         /\ s # <<>> => Tail(s) \in Seq(S) /\ Head(s) \in S
         /\ <<>> \in Seq(S)
OBVIOUS

LEMMA SwitchStep == SwitchTypes /\ [Next]_vars => SwitchTypes'
<1> SUFFICES ASSUME SwitchTypes, [Next]_vars PROVE SwitchTypes' OBVIOUS
<1> USE DEF SwitchTypes
<1>1. CASE Toggle BY <1>1 DEF Toggle, relay
<1>2. CASE Signal \/ Crash BY <1>2 DEF Signal, Crash, mic, relay
<1>3. CASE Receive \/ Leave \/ CreateLock BY <1>3 DEF Receive, Leave, CreateLock, At, mic
<1>4. CASE Hush \/ Focus BY <1>4 DEF Hush, Focus, At, mic
<1>5. CASE Release \/ RemoveLock BY <1>5 DEF Release, RemoveLock, At, mic
<1>6. CASE ReadQueue \/ RemoveQueue \/ Wait
  BY <1>6 DEF ReadQueue, RemoveQueue, Wait, At, mic
<1>7. CASE ReplayNext \/ Drained \/ Return
  BY <1>7 DEF ReplayNext, Drained, Return, At, mic
<1>8. CASE Command \/ HushRuns BY <1>8 DEF Command, HushRuns, mic, relay
<1>9. ASSUME NEW m \in Messages, Announce(m) \/ Announcer(m) PROVE SwitchTypes'
  BY <1>9 DEF Announce, Announcer, CheckLock, queue_for_later, Playback, PlayEnds, Become,
              mic, relay
<1>10. CASE UNCHANGED vars BY <1>10 DEF vars, mic, relay
<1> QED
  BY <1>1, <1>2, <1>3, <1>4, <1>5, <1>6, <1>7, <1>8, <1>9, <1>10 DEF Next, Relay

LEMMA RelayTypesStep == SwitchTypes /\ RelayTypes /\ [Next]_vars => RelayTypes'
<1> SUFFICES ASSUME SwitchTypes, RelayTypes, [Next]_vars PROVE RelayTypes' OBVIOUS
<1> USE DEF RelayTypes
<1>1. CASE Toggle
  <2>1. muted' \in BOOLEAN BY <1>1 DEF Toggle, SwitchTypes
  <2>2. toggles' \in 0..MaxToggles BY <1>1, MessagesAssumption DEF Toggle
  <2>3. events' \in Seq(BOOLEAN) BY <1>1, <2>1, SeqKept DEF Toggle
  <2> QED BY <1>1, <2>2, <2>3 DEF Toggle, relay, hold
<1>2. CASE Signal BY <1>2 DEF Signal, mic, relay, hold
<1>3. CASE Crash
  <2>1. crashes' \in 0..MaxCrashes BY <1>3, MessagesAssumption DEF Crash
  <2>2. commands' \in Seq({"start", "stop", "shutdown"}) /\ events' \in Seq(BOOLEAN)
    BY <1>3 DEF Crash
  <2> QED BY <1>3, <2>1, <2>2 DEF Crash, mic
<1>4. CASE Receive
  <2>1. events' \in Seq(BOOLEAN) BY <1>4, SeqKept DEF Receive
  <2> QED BY <1>4, <2>1 DEF Receive, At, mic
<1>5. CASE Leave \/ CreateLock \/ Hush BY <1>5 DEF Leave, CreateLock, Hush, At, mic
<1>6. CASE Focus \/ Release \/ Drained
  <2>1. commands' \in {commands, Append(commands, "start"), Append(commands, "stop"),
                       Append(commands, "shutdown")}
    BY <1>6 DEF Focus, Release, Drained
  <2> DEFINE S == {"start", "stop", "shutdown"}
  <2>3. commands \in Seq(S) /\ "start" \in S /\ "stop" \in S /\ "shutdown" \in S OBVIOUS
  <2>2. commands' \in Seq(S)
    <3> HIDE DEF S
    <3>1. \A e \in S : Append(commands, e) \in Seq(S) BY <2>3, SeqKept
    <3>2. Append(commands, "start") \in Seq(S) /\ Append(commands, "stop") \in Seq(S)
          /\ Append(commands, "shutdown") \in Seq(S)
      BY <2>3, <3>1
    <3> QED BY <2>1, <2>3, <3>2
  <2> QED BY <1>6, <2>2 DEF Focus, Release, Drained, At, mic
<1>7. CASE RemoveLock \/ ReadQueue \/ RemoveQueue
  BY <1>7 DEF RemoveLock, ReadQueue, RemoveQueue, At, mic
<1>8. CASE ReplayNext \/ Wait BY <1>8 DEF ReplayNext, Wait, At, mic
<1>9. CASE Return
  <2>1. events' \in Seq(BOOLEAN) BY <1>9 DEF Return
  <2> QED BY <1>9, <2>1 DEF Return, At, mic
<1>10. CASE Command
  <2>1. commands' \in Seq({"start", "stop", "shutdown"}) BY <1>10 DEF Command
  <2> QED BY <1>10, <2>1 DEF Command, Press, Unpress, Quit, mic, relay
<1>11. CASE HushRuns BY <1>11 DEF HushRuns, mic, relay, hold
<1>12. ASSUME NEW m \in Messages, Announce(m) \/ Announcer(m) PROVE RelayTypes'
  BY <1>12 DEF Announce, Announcer, CheckLock, queue_for_later, Playback, PlayEnds, Become,
               mic, relay, hold
<1>13. CASE UNCHANGED vars BY <1>13 DEF vars, mic, relay, hold
<1> QED
  BY <1>1, <1>2, <1>3, <1>4, <1>5, <1>6, <1>7, <1>8, <1>9, <1>10, <1>11, <1>12, <1>13
  DEF Next, Relay

LEMMA MessageTypesStep == MessageTypes /\ [Next]_vars => MessageTypes'
<1> SUFFICES ASSUME MessageTypes, [Next]_vars PROVE MessageTypes' OBVIOUS
<1> USE DEF MessageTypes
<1>1. CASE Toggle \/ Signal BY <1>1 DEF Toggle, Signal, relay, spoken
<1>2. CASE Crash
  <2>1. content' \in Seq(Messages) BY <1>2 DEF Crash
  <2> QED BY <1>2, <2>1 DEF Crash, spoken
<1>3. CASE Receive \/ Leave \/ CreateLock \/ Hush
  BY <1>3 DEF Receive, Leave, CreateLock, Hush, spoken
<1>4. CASE Focus \/ Release \/ RemoveLock BY <1>4 DEF Focus, Release, RemoveLock, spoken
<1>5. CASE ReadQueue \/ RemoveQueue
  <2>1. queue' \in Seq(Messages) /\ content' \in Seq(Messages)
    BY <1>5, SeqKept DEF ReadQueue, RemoveQueue
  <2> QED BY <1>5, <2>1 DEF ReadQueue, RemoveQueue, spoken
<1>6. CASE ReplayNext
  <2>1. content' \in Seq(Messages) /\ Head(content) \in Messages BY <1>6 DEF ReplayNext
  <2> QED BY <1>6, <2>1 DEF ReplayNext
<1>7. CASE Wait \/ Drained \/ Return BY <1>7 DEF Wait, Drained, Return, spoken
<1>8. CASE Command BY <1>8 DEF Command, relay, spoken
<1>9. CASE HushRuns
  <2>1. msg' \in [Messages -> {"new", "check", "queue", "queued", "synthesize",
                               "playing", "over"}]
    BY <1>9 DEF HushRuns
  <2> QED BY <1>9, <2>1 DEF HushRuns, relay
<1>10. ASSUME NEW m \in Messages, Announce(m) \/ Announcer(m) PROVE MessageTypes'
  <2>1. queue' \in Seq(Messages)
    BY <1>10 DEF Announce, Announcer, CheckLock, queue_for_later, Playback, PlayEnds
  <2>2. \E s \in {"check", "queue", "queued", "synthesize", "playing", "over"} : Become(m, s)
    BY <1>10 DEF Announce, Announcer, CheckLock, queue_for_later, Playback, PlayEnds
  <2> QED BY <2>1, <2>2 DEF Become, relay
<1>11. CASE UNCHANGED vars BY <1>11 DEF vars, relay, spoken
<1> QED
  BY <1>1, <1>2, <1>3, <1>4, <1>5, <1>6, <1>7, <1>8, <1>9, <1>10, <1>11 DEF Next, Relay

LEMMA TypesStep == TypeOK /\ [Next]_vars => TypeOK'
BY SwitchStep, RelayTypesStep, MessageTypesStep DEF TypeOK

\* What is none of the relay's own steps leaves it where it was.
Aside == Toggle \/ Signal \/ HushRuns \/ \E m \in Messages : Announce(m) \/ Announcer(m)

LEMMA AsideKeeps == Aside => UNCHANGED <<apart, relay, crashes, hold, lock>>
BY DEF Aside, Toggle, Signal, HushRuns, Announce, Announcer, CheckLock, queue_for_later,
       Playback, PlayEnds, Become, mic

LEMMA StageStep == TypeOK /\ StageInv /\ [Next]_vars => StageInv'
<1> SUFFICES ASSUME TypeOK, StageInv, [Next]_vars PROVE StageInv' OBVIOUS
<1> USE DEF StageInv
<1>a. recording \in BOOLEAN /\ holding \in BOOLEAN BY DEF TypeOK, SwitchTypes
<1>1. CASE Aside \/ UNCHANGED vars BY <1>1, AsideKeeps DEF vars, relay
<1>2. CASE Crash \/ Command BY <1>2 DEF Crash, Command, relay
<1>3. CASE Receive
  BY <1>3, <1>a DEF Receive, At
<1>7. CASE Leave BY <1>7, <1>a DEF Leave, At
<1>8. CASE CreateLock BY <1>8, <1>a DEF CreateLock, At
<1>9. CASE Hush
  <2>1. ~holding BY <1>9 DEF Hush, At
  <2> QED BY <1>9, <2>1 DEF Hush, At
<1>6. CASE Focus
  <2>1. recording' = recording /\ recording /\ stage' = "loop" BY <1>6 DEF Focus, At
  <2> QED BY <2>1
<1>4. CASE Release \/ RemoveLock \/ ReadQueue \/ RemoveQueue
  BY <1>4, <1>a DEF Release, RemoveLock, ReadQueue, RemoveQueue, At
<1>5. CASE ReplayNext \/ Wait \/ Drained \/ Return
  BY <1>5, <1>a DEF ReplayNext, Wait, Drained, Return, At
<1> QED BY <1>1, <1>2, <1>3, <1>4, <1>5, <1>6, <1>7, <1>8, <1>9 DEF Next, Relay, Aside

LEMMA WorkerStep == WorkerInv /\ [Next]_vars => WorkerInv'
<1> SUFFICES ASSUME WorkerInv, [Next]_vars PROVE WorkerInv' OBVIOUS
<1> USE DEF WorkerInv
<1>1. CASE Aside \/ UNCHANGED vars BY <1>1, AsideKeeps DEF vars, relay, hold
<1>2. CASE Crash BY <1>2 DEF Crash
<1>3. CASE Command BY <1>3 DEF Command, Press, Unpress, Quit, relay
<1>4. CASE Receive \/ Leave \/ CreateLock \/ Hush \/ Focus \/ Release \/ RemoveLock
  BY <1>4 DEF Receive, Leave, CreateLock, Hush, Focus, Release, RemoveLock, At
<1>5. CASE ReadQueue \/ RemoveQueue \/ ReplayNext \/ Wait \/ Drained \/ Return
  BY <1>5 DEF ReadQueue, RemoveQueue, ReplayNext, Wait, Drained, Return, At
<1> QED BY <1>1, <1>2, <1>3, <1>4, <1>5 DEF Next, Relay, Aside

LEMMA LockStep == TypeOK /\ StageInv /\ LockInv /\ [Next]_vars => LockInv'
<1> SUFFICES ASSUME TypeOK, StageInv, LockInv, [Next]_vars PROVE LockInv' OBVIOUS
<1> USE DEF LockInv
<1>a. recording \in BOOLEAN /\ lock \in BOOLEAN BY DEF TypeOK, SwitchTypes
<1>1. CASE Aside \/ UNCHANGED vars BY <1>1, AsideKeeps DEF vars, relay
<1>2. CASE Crash
  <2>1. crashes' # 0 BY <1>2 DEF Crash, TypeOK, RelayTypes
  <2> QED BY <2>1
<1>3. CASE Command BY <1>3 DEF Command, relay
<1>4. CASE Receive \/ Leave \/ CreateLock \/ Hush \/ Focus \/ Release \/ RemoveLock
  BY <1>4, <1>a DEF StageInv, Receive, Leave, CreateLock, Hush, Focus, Release, RemoveLock, At
<1>5. CASE ReadQueue \/ RemoveQueue \/ ReplayNext \/ Wait \/ Drained \/ Return
  BY <1>5, <1>a DEF ReadQueue, RemoveQueue, ReplayNext, Wait, Drained, Return, At
<1> QED BY <1>1, <1>2, <1>3, <1>4, <1>5 DEF Next, Relay, Aside

\* The last command, when one is taken and when one is added.
LEMMA LastCommand ==
  ASSUME NEW s \in Seq({"start", "stop", "shutdown"})
  PROVE  /\ \A c \in {"start", "stop", "shutdown"} :
              /\ Append(s, c) # <<>>
              /\ Append(s, c)[Len(Append(s, c))] = c
         /\ s # <<>> /\ Tail(s) = <<>> => s[Len(s)] = Head(s)
         /\ s # <<>> /\ Tail(s) # <<>> => Tail(s)[Len(Tail(s))] = s[Len(s)]
         /\ s # <<>> => Head(s) \in {"start", "stop", "shutdown"}
<1>1. ASSUME NEW c \in {"start", "stop", "shutdown"}
      PROVE  Append(s, c) # <<>> /\ Append(s, c)[Len(Append(s, c))] = c
  OBVIOUS
<1>2. s # <<>> => Len(s) \in Nat \ {0} /\ Len(Tail(s)) = Len(s) - 1 /\ Head(s) = s[1]
  OBVIOUS
<1>3. ASSUME s # <<>>, Tail(s) = <<>> PROVE Len(s) = 1
  <2>1. Len(<<>>) = 0 OBVIOUS
  <2>2. Len(Tail(s)) = 0 BY <2>1, <1>3
  <2> QED BY <2>2, <1>2, <1>3
<1>4. ASSUME s # <<>>, Tail(s) # <<>> PROVE Tail(s)[Len(Tail(s))] = s[Len(s)]
  <2>1. Len(Tail(s)) \in Nat \ {0} BY <1>4
  <2>2. Tail(s)[Len(Tail(s))] = s[Len(Tail(s)) + 1] BY <1>4, <2>1
  <2> QED BY <2>2, <1>4, <1>2
<1> QED BY <1>1, <1>2, <1>3, <1>4

LEMMA KeyStep == TypeOK /\ StageInv /\ KeyInv /\ [Next]_vars => KeyInv'
<1> SUFFICES ASSUME TypeOK, StageInv, KeyInv, [Next]_vars PROVE KeyInv' OBVIOUS
<1>a. /\ commands \in Seq({"start", "stop", "shutdown"}) /\ crashes \in Nat
      /\ worker \in {"idle", "holding", "returned"} /\ key \in {"up", "down"}
      /\ holding \in BOOLEAN
  BY MessagesAssumption DEF TypeOK, RelayTypes, SwitchTypes
<1>1. CASE Aside \/ UNCHANGED vars BY <1>1, AsideKeeps DEF vars, relay, hold, KeyInv
<1>2. CASE Crash BY <1>2, <1>a DEF Crash, KeyInv
<1>3. CASE Command
  <2> SUFFICES ASSUME crashes = 0
      PROVE  /\ worker' = "holding" <=> key' = "down"
             /\ commands' = <<>> => (key' = "down" <=> holding)
             /\ commands' # <<>> => (commands'[Len(commands')] = "start" <=> holding)
    BY <1>3 DEF Command, relay, KeyInv
  <2> DEFINE c == Head(commands)
  <2>1. commands # <<>> /\ commands' = Tail(commands) /\ (Press(c) \/ Unpress(c) \/ Quit(c))
    BY <1>3 DEF Command
  <2>2. /\ worker = "holding" <=> key = "down"
        /\ commands[Len(commands)] = "start" <=> holding
    BY <2>1 DEF KeyInv
  <2>3. commands' # <<>> => (commands'[Len(commands')] = "start" <=> holding)
    BY <2>1, <2>2, <1>a, LastCommand
  <2>4. commands' = <<>> => (c = "start" <=> holding) BY <2>1, <2>2, <1>a, LastCommand
  <2>5. /\ worker' = "holding" <=> key' = "down"
        /\ key' = "down" <=> c = "start"
    BY <2>1, <2>2, <1>a DEF Press, Unpress, Quit
  <2> QED BY <2>3, <2>4, <2>5
<1>4. CASE Focus
  <2>1. ~holding /\ UNCHANGED <<crashes, worker, key>>
    BY <1>4 DEF Focus, At, StageInv
  <2>2. CASE commands' = Append(commands, "start") /\ holding' = TRUE
    BY <2>1, <2>2, <1>a, LastCommand DEF KeyInv
  <2>3. CASE UNCHANGED <<commands, holding>> BY <2>1, <2>3 DEF KeyInv
  <2> QED BY <1>4, <2>2, <2>3 DEF Focus
<1>5. CASE Release
  <2>1. ~holding' /\ UNCHANGED <<crashes, worker, key>> BY <1>5 DEF Release, At
  <2>2. CASE holding
    <3>1. commands' = Append(commands, "stop") BY <1>5, <2>2 DEF Release
    <3> QED BY <2>1, <3>1, <1>a, LastCommand DEF KeyInv
  <2>3. CASE ~holding
    <3>1. commands' = commands BY <1>5, <2>3 DEF Release
    <3> QED BY <2>1, <2>3, <3>1 DEF KeyInv
  <2> QED BY <2>2, <2>3
<1>6. CASE Drained
  <2>1. ~holding /\ UNCHANGED <<holding, crashes, worker, key>>
    BY <1>6 DEF Drained, At, StageInv
  <2>2. commands' \in {commands, Append(commands, "shutdown")} BY <1>6 DEF Drained
  <2> QED BY <2>1, <2>2, <1>a, LastCommand DEF KeyInv
<1>7. CASE Receive \/ Leave \/ CreateLock \/ Hush \/ RemoveLock
  <2>1. UNCHANGED <<commands, holding, crashes, worker, key>>
    BY <1>7 DEF Receive, Leave, CreateLock, Hush, RemoveLock, At
  <2> QED BY <2>1 DEF KeyInv
<1>8. CASE ReadQueue \/ RemoveQueue \/ ReplayNext \/ Wait \/ Return
  <2>1. UNCHANGED <<commands, holding, crashes, worker, key>>
    BY <1>8 DEF ReadQueue, RemoveQueue, ReplayNext, Wait, Return, At
  <2> QED BY <2>1 DEF KeyInv
<1> QED
  BY <1>1, <1>2, <1>3, <1>4, <1>5, <1>6, <1>7, <1>8 DEF Next, Relay, Aside

\* While something is announced apart from its steps, the relay does nothing
\* but wait for what it replays itself.
RelayWaits == RelayAtRest \/ Busy = {} \/ (stage = "wait" /\ Busy \subseteq replayed)
Unheard == lock => In("synthesize") \subseteq Critical
Unplayed == lock /\ stage # "hush" /\ ~hushing => In("playing") \subseteq Critical

\* A step of the relay that begins none is taken when nothing is announced.
Turns ==
  \/ Receive \/ Leave \/ CreateLock \/ Hush \/ Focus \/ Release \/ RemoveLock
  \/ ReadQueue \/ RemoveQueue \/ Drained \/ Return \/ Wait

LEMMA TurnsAlone ==
  ASSUME TypeOK, RelayWaits, Turns
  PROVE  Busy = {} /\ Busy' = {} /\ UNCHANGED <<apart, crashes, msg, replayed>>
<1>1. UNCHANGED <<apart, crashes, msg, replayed>>
  BY DEF Turns, Receive, Leave, CreateLock, Hush, Focus, Release, RemoveLock, ReadQueue,
         RemoveQueue, Drained, Return, Wait, At, mic, spoken
<1>2. Busy = {}
  <2>1. CASE Wait
    <3>1. \A m \in replayed : m \notin Busy BY <2>1 DEF Wait, Busy, In
    <3>2. ~RelayAtRest BY <2>1 DEF Wait, At, RelayAtRest
    <3> QED BY <3>1, <3>2 DEF RelayWaits
  <2>2. CASE ~Wait
    <3>1. ~RelayAtRest /\ stage # "wait"
      BY <2>2 DEF Turns, RelayAtRest, Receive, Leave, CreateLock, Hush, Focus, Release,
                  RemoveLock, ReadQueue, RemoveQueue, Drained, Return, At
    <3> QED BY <3>1 DEF RelayWaits
  <2> QED BY <2>1, <2>2
<1> QED BY <1>1, <1>2 DEF Busy, In

LEMMA ApartStep == TypeOK /\ StageInv /\ LockInv /\ ApartInv /\ [Next]_vars => ApartInv'
<1> SUFFICES ASSUME TypeOK, StageInv, LockInv, ApartInv, [Next]_vars, apart'
             PROVE  crashes' = 0 /\ RelayWaits' /\ Unheard' /\ Unplayed'
  BY DEF ApartInv, RelayWaits, Unheard, Unplayed
<1>a. apart /\ apart' = apart
  BY DEF Next, vars, Toggle, Signal, Crash, Relay, Receive, Leave, CreateLock, Hush, Focus,
         Release, RemoveLock, ReadQueue, RemoveQueue, ReplayNext, Wait, Drained, Return, At,
         Command, HushRuns, Announce, Announcer, CheckLock, queue_for_later, Playback,
         PlayEnds, Become, mic
<1>b. crashes = 0 /\ RelayWaits /\ Unheard /\ Unplayed
  BY <1>a DEF ApartInv, RelayWaits, Unheard, Unplayed
<1>c. msg \in [Messages -> {"new", "check", "queue", "queued", "synthesize", "playing",
                            "over"}]
  BY DEF TypeOK, MessageTypes
<1>1. CASE Toggle
  <2>1. /\ Busy = {} /\ RelayAtRest
        /\ UNCHANGED <<msg, replayed, stage, lock, hushing, crashes>>
    BY <1>1, <1>a DEF Toggle, AnnouncersDone, Busy, relay, spoken
  <2>2. Busy' = {} BY <2>1 DEF Busy, In
  <2> QED BY <2>1, <2>2, <1>b DEF RelayWaits, Unheard, Unplayed, In
<1>2. CASE Signal
  <2>1. Busy = {} /\ UNCHANGED <<msg, replayed, stage, lock, hushing, crashes>>
    BY <1>2, <1>a DEF Signal, AnnouncersDone, Busy, relay, spoken
  <2>2. Busy' = {} BY <2>1 DEF Busy, In
  <2> QED BY <2>1, <2>2, <1>b DEF RelayWaits, Unheard, Unplayed, In
<1>3. CASE Crash BY <1>3, <1>a DEF Crash
<1>4. CASE Turns
  <2>1. Busy = {} /\ Busy' = {} /\ UNCHANGED <<crashes, msg, replayed>>
    BY <1>4, <1>b, TurnsAlone
  <2>2. Unheard' BY <2>1 DEF Unheard, Busy
  <2>3. Unplayed'
    <3>1. CASE Hush BY <3>1 DEF Hush, Unplayed
    <3>2. CASE CreateLock BY <3>2 DEF CreateLock, Unplayed
    <3>3. CASE ~Hush /\ ~CreateLock
      <4>1. lock' => lock /\ stage # "hush" /\ UNCHANGED hushing
        BY <3>3, <1>4 DEF Turns, Receive, Leave, Focus, Release, RemoveLock, ReadQueue,
                          RemoveQueue, Drained, Return, Wait, At
      <4>2. In("playing")' = In("playing") BY <2>1 DEF In
      <4> QED BY <4>1, <4>2, <1>b DEF Unplayed
    <3> QED BY <3>1, <3>2, <3>3
  <2> QED BY <2>1, <2>2, <2>3, <1>b DEF RelayWaits
<1>5. CASE ReplayNext
  <2>1. /\ stage = "replay" /\ stage' = "wait" /\ ~recording /\ UNCHANGED <<crashes, lock>>
        /\ Head(content) \in Messages
        /\ msg' = [msg EXCEPT ![Head(content)] = "check"]
        /\ replayed' = replayed \cup {Head(content)}
    BY <1>5 DEF ReplayNext, At, StageInv, TypeOK, MessageTypes
  <2>2. ~lock' BY <2>1, <1>b DEF LockInv
  <2>3. Busy = {} BY <2>1, <1>b DEF RelayWaits, RelayAtRest
  <2>4. Busy' \subseteq replayed' BY <2>1, <2>3, <1>c DEF Busy, In
  <2> QED BY <2>1, <2>2, <2>4, <1>b DEF RelayWaits, Unheard, Unplayed
<1>6. CASE Command \/ UNCHANGED vars
  <2>1. UNCHANGED <<stage, events, shutdown, hushing, lock, msg, replayed, crashes>>
    BY <1>6 DEF Command, vars, relay, spoken
  <2> QED BY <2>1, <1>b DEF RelayWaits, RelayAtRest, Busy, In, Unheard, Unplayed
<1>7. CASE HushRuns
  <2>1. /\ UNCHANGED <<stage, events, shutdown, lock, replayed, crashes>>
        /\ hushing /\ ~hushing'
        /\ msg' = [m \in Messages |-> IF msg[m] = "playing" THEN "over" ELSE msg[m]]
    BY <1>7 DEF HushRuns, relay, spoken
  <2>2. Busy' = Busy /\ In("synthesize")' = In("synthesize") /\ In("playing")' = {}
    BY <2>1 DEF Busy, In
  <2> QED BY <2>1, <2>2, <1>b DEF RelayWaits, RelayAtRest, Unheard, Unplayed
<1>8. ASSUME NEW m \in Messages, Announce(m) PROVE crashes' = 0 /\ RelayWaits' /\ Unheard' /\ Unplayed'
  <2>1. RelayAtRest /\ Become(m, "check") BY <1>8, <1>a DEF Announce
  <2>2. UNCHANGED <<stage, events, shutdown, hushing, lock, crashes>>
    BY <2>1 DEF Become, relay
  <2>3. RelayAtRest' BY <2>1, <2>2 DEF RelayAtRest
  <2>4. In("playing")' \subseteq In("playing") /\ In("synthesize")' \subseteq In("synthesize")
    BY <2>1, <1>c DEF Become, In
  <2> QED BY <2>2, <2>3, <2>4, <1>b DEF RelayWaits, Unheard, Unplayed
<1>9. ASSUME NEW m \in Messages, Announcer(m)
      PROVE  crashes' = 0 /\ RelayWaits' /\ Unheard' /\ Unplayed'
  <2>1. PICK t \in {"check", "queue", "synthesize", "playing"},
             s \in {"queue", "queued", "synthesize", "playing", "over"} :
          /\ msg[m] = t /\ Become(m, s)
          /\ s \in {"queue", "synthesize"} => t = "check"
          /\ s = "playing" => t = "synthesize"
          /\ s = "synthesize" /\ lock => m \in Critical
    BY <1>9 DEF Announcer, CheckLock, queue_for_later, Playback, PlayEnds
  <2>2. UNCHANGED <<stage, events, shutdown, hushing, lock, replayed, crashes>>
    BY <2>1 DEF Become, relay
  <2>3. Busy' \subseteq Busy BY <2>1, <1>c DEF Become, Busy, In
  <2>4. RelayWaits'
    BY <2>2, <2>3, <1>b DEF RelayWaits, RelayAtRest
  <2>5. Unheard'
    <3> SUFFICES ASSUME lock, NEW n \in In("synthesize")' PROVE n \in Critical
      BY <2>2 DEF Unheard
    <3>1. n \in In("synthesize") \/ (n = m /\ s = "synthesize")
      BY <2>1, <1>c DEF Become, In
    <3> QED BY <3>1, <2>1, <1>b DEF Unheard
  <2>6. Unplayed'
    <3> SUFFICES ASSUME lock, stage # "hush", ~hushing, NEW n \in In("playing")'
                 PROVE  n \in Critical
      BY <2>2 DEF Unplayed
    <3>1. n \in In("playing") \/ (n = m /\ m \in In("synthesize"))
      BY <2>1, <1>c DEF Become, In
    <3> QED BY <3>1, <1>b DEF Unheard, Unplayed
  <2> QED BY <2>2, <2>4, <2>5, <2>6, <1>b
<1> QED BY <1>1, <1>2, <1>3, <1>4, <1>5, <1>6, <1>7, <1>8, <1>9 DEF Next, Relay, Turns

\* Every variable of the relay, its worker and the announcements has its type.
THEOREM RelayTypeCorrect == Spec => []TypeOK
<1>1. Init => TypeOK BY InitRelay DEF RelayInv
<1> QED BY <1>1, TypesStep, PTL DEF Spec

LEMMA RelayInvStep == RelayInv /\ [Next]_vars => RelayInv'
BY TypesStep, StageStep, WorkerStep, KeyStep, LockStep, ApartStep DEF RelayInv

LEMMA RelayFollows == RelayInv => FollowsRecording
<1> SUFFICES ASSUME RelayInv PROVE FollowsRecording OBVIOUS
<1> USE DEF RelayInv
<1>a. lock \in BOOLEAN /\ recording \in BOOLEAN /\ holding \in BOOLEAN
  BY DEF TypeOK, SwitchTypes
<1>1. stage = "down" => key = "up" BY DEF WorkerInv
<1>2. holding /\ stage # "release" => recording BY DEF StageInv
<1>3. stage = "loop" /\ commands = <<>> /\ crashes = 0 => (key = "down") = holding
  BY <1>a DEF KeyInv
<1>4. stage \in {"loop", "down"} /\ crashes = 0 => lock = recording BY <1>a DEF LockInv
<1>5. apart /\ recording /\ stage = "loop" /\ ~hushing => In("playing") \subseteq Critical
  BY DEF ApartInv, LockInv
<1> QED BY <1>1, <1>2, <1>3, <1>4, <1>5 DEF FollowsRecording

\* However it was run and killed before, a relay that returns leaves no key down;
\* and until it is killed the lock and the key follow the recording, and nothing
\* ordinary is heard in one: for any messages, mute changes and restarts.
THEOREM TheRelayFollows == Spec => []FollowsRecording
<1>1. RelayInv /\ [Next]_vars => RelayInv' BY RelayInvStep
<1> QED BY InitRelay, <1>1, RelayFollows, PTL DEF Spec

-----------------------------------------------------------------------------
(* announce: what the files and the queue keep *)

\* A path names one speech.
LEMMA PathNamesSpeech ==
  ASSUME NEW k \in Speeches, NEW l \in Speeches, build_cache_path(k) = build_cache_path(l)
  PROVE  k = l
<1>1. /\ k.voice_id = l.voice_id /\ k.lang = l.lang
      /\ sanitize_filename(k.text) = sanitize_filename(l.text)
      /\ hash_short(compute_hash(k)) = hash_short(compute_hash(l))
  BY DEF build_cache_path
<1> QED BY <1>1, HashAssumption DEF compute_hash

\* A call without what the queue forgets comes out of it as it was.
LEMMA QueueKeeps ==
  ASSUME NEW c \in Announcements, c.translate = NoArg, ~c.quiet
  PROVE  QueuedArgs(c) = c
BY AnnouncementsAssumption DEF QueuedArgs

\* What is resolved for a call is one of the speeches.
LEMMA ResolvesToSpeech ==
  ASSUME NEW c \in Announcements \cup {QueuedArgs(d) : d \in Announcements},
         NEW f \in ConfigFiles
  PROVE  Speech(c, f) \in Speeches
BY DEF Speeches

-----------------------------------------------------------------------------
(* announce: the initial states, and one step for every action *)

LEMMA CacheInit == AnnounceInit => CacheInv
<1> SUFFICES ASSUME AnnounceInit PROVE CacheInv OBVIOUS
<1>1. \A p \in Procs : pc[p] = "new" /\ heard[p] = NoArg
  BY DEF AnnounceInit
<1>2. CacheTypes
  BY DEF AnnounceInit, CacheTypes, Rest
<1>3. \A p \in Procs : ProcessInv(p)
  BY <1>1 DEF ProcessInv, Ready
<1>4. FilesInv
  <2>1. DOMAIN cache = {} BY DEF AnnounceInit
  <2>2. \A p \in Procs : pc[p] \in Rest BY <1>1 DEF Rest
  <2> QED BY <2>1, <2>2 DEF FilesInv
<1>5. HeardAsAsked
  BY <1>1 DEF HeardAsAsked
<1> QED BY <1>2, <1>3, <1>4, <1>5 DEF CacheInv

\* A process that only goes on, or ends, disturbs nothing, unless it leaves a
\* file empty and the state is still calm.
LEMMA GoingOn ==
  ASSUME CacheInv, NEW p \in Procs, NEW l \in Ready \cup {"over"},
         pc[p] \notin Rest, l \in Ready => pc[p] \in Ready,
         l = "play" => build_cache_path(speech[p]) \in DOMAIN cache,
         Goto(p, l), calm' \in BOOLEAN,
         calm' => calm /\ pc[p] # "cache_write",
         UNCHANGED <<settings, cache, args, asked, wanted, speech, heard>>
  PROVE  CacheInv'
<1> USE DEF CacheInv
<1>1. CacheTypes'
  BY DEF CacheTypes, Goto, Ready, Rest
<1>2. \A q \in Procs : q # p => pc'[q] = pc[q]
  BY DEF CacheTypes, Goto
<1>3. pc'[p] = l /\ l # "new"
  BY DEF CacheTypes, Goto, Ready
<1>4. heard[p] = NoArg
  BY DEF ProcessInv, Rest
<1>5. ASSUME NEW q \in Procs PROVE ProcessInv(q)'
  <2>1. CASE q = p
    <3>1. pc[p] # "new" BY DEF Rest
    <3> QED BY <2>1, <3>1, <1>3, <1>4 DEF ProcessInv, Kept
  <2>2. CASE q # p BY <2>2, <1>2 DEF ProcessInv, Kept
  <2> QED BY <2>1, <2>2
<1>6. FilesInv'
  <2>1. \A x \in DOMAIN cache' :
          \/ cache'[x] = Silence
          \/ cache'[x] \in Speeches /\ build_cache_path(cache'[x]) = x
    BY DEF FilesInv, build_cache_path
  <2>2. calm' => \A q, r \in Procs : {pc'[q], pc'[r]} \cap Rest = {} => q = r
    <3> SUFFICES ASSUME calm', NEW q \in Procs, NEW r \in Procs,
                        pc'[q] \notin Rest, pc'[r] \notin Rest
                 PROVE  q = r
      OBVIOUS
    <3>1. pc[q] \notin Rest /\ pc[r] \notin Rest BY <1>2
    <3> QED BY <3>1 DEF FilesInv
  <2>3. calm' => \A x \in DOMAIN cache' : cache'[x] = Silence =>
                   \E q \in Procs : pc'[q] = "cache_write" /\ build_cache_path(speech'[q]) = x
    BY <1>2 DEF FilesInv
  <2> QED BY <2>1, <2>2, <2>3 DEF FilesInv
<1>7. HeardAsAsked'
  BY <1>4 DEF HeardAsAsked, Kept
<1> QED BY <1>1, <1>5, <1>6, <1>7

\* A process that begins, or goes on after the queue, is alone if the state
\* stays calm.
LEMMA Entering ==
  ASSUME CacheInv, NEW p \in Procs, NEW l \in {"resolve", "queued", "over"},
         pc[p] \in {"new", "queued"}, Goto(p, l), Enter(p),
         NEW c \in Announcements, NEW d \in {c, QueuedArgs(c)},
         asked' = [asked EXCEPT ![p] = c], args' = [args EXCEPT ![p] = d],
         UNCHANGED <<settings, cache, wanted, speech, heard>>
  PROVE  CacheInv'
<1> USE DEF CacheInv
<1>0. calm' \in BOOLEAN /\ (calm' => calm /\ ~Crowded(p))
  BY DEF Enter, Failure, CacheTypes
<1>1. CacheTypes'
  BY <1>0 DEF CacheTypes, Goto, Rest
<1>2. \A q \in Procs : q # p => pc'[q] = pc[q] /\ asked'[q] = asked[q] /\ args'[q] = args[q]
  BY DEF CacheTypes, Goto
<1>3. pc'[p] = l /\ asked'[p] = c /\ args'[p] = d
  BY DEF CacheTypes, Goto
<1>4. heard[p] = NoArg
  BY DEF ProcessInv
<1>5. ASSUME NEW q \in Procs PROVE ProcessInv(q)'
  <2>1. CASE q = p BY <2>1, <1>3, <1>4 DEF ProcessInv, Ready
  <2>2. CASE q # p BY <2>2, <1>2 DEF ProcessInv, Kept
  <2> QED BY <2>1, <2>2
<1>6. FilesInv'
  <2>1. \A x \in DOMAIN cache' :
          \/ cache'[x] = Silence
          \/ cache'[x] \in Speeches /\ build_cache_path(cache'[x]) = x
    BY DEF FilesInv, build_cache_path
  <2>2. calm' => \A q, r \in Procs : {pc'[q], pc'[r]} \cap Rest = {} => q = r
    BY <1>0, <1>2 DEF Crowded
  <2>3. calm' => \A x \in DOMAIN cache' : cache'[x] = Silence =>
                   \E q \in Procs : pc'[q] = "cache_write" /\ build_cache_path(speech'[q]) = x
    BY <1>0, <1>2 DEF FilesInv
  <2> QED BY <2>1, <2>2, <2>3 DEF FilesInv
<1>7. HeardAsAsked'
  BY <1>0, <1>2, <1>4 DEF HeardAsAsked, Kept
<1> QED BY <1>1, <1>5, <1>6, <1>7

\* A file that a process opens is empty, and the process is the one that will
\* write it; a file that is written holds the speech it is named for.
LEMMA Writing ==
  ASSUME CacheInv, NEW p \in Procs, NEW l, NEW v,
         pc[p] \in Ready, Goto(p, l),
         cache' = Put(cache, build_cache_path(speech[p]), v),
         \/ l = "cache_write" /\ v = Silence /\ calm' = calm
         \/ l = "play" /\ v = speech[p] /\ calm' = calm
         \/ l = "over" /\ v = Silence /\ calm' = FALSE,
         UNCHANGED <<settings, args, asked, wanted, speech>>,
         heard' = heard \/ (calm' = FALSE /\ l = "over" /\ heard' = [heard EXCEPT ![p] = Silence])
  PROVE  CacheInv'
<1> USE DEF CacheInv
<1> DEFINE path == build_cache_path(speech[p])
<1>1. CacheTypes'
  BY DEF CacheTypes, Goto, Ready, Rest
<1>2. \A q \in Procs : q # p => pc'[q] = pc[q] /\ heard'[q] = heard[q]
  BY DEF CacheTypes, Goto
<1>3. pc'[p] = l
  BY DEF CacheTypes, Goto
<1>4. heard[p] = NoArg /\ speech[p] \in Speeches
  BY DEF ProcessInv, Ready
<1>5. /\ DOMAIN cache' = DOMAIN cache \cup {path} /\ cache'[path] = v
      /\ \A x \in DOMAIN cache : x # path => cache'[x] = cache[x]
  BY DEF Put
<1>6. heard'[p] = NoArg \/ (heard'[p] = Silence /\ l = "over" /\ calm' = FALSE)
  BY <1>4 DEF CacheTypes
<1> HIDE DEF path
<1>7. ASSUME NEW q \in Procs PROVE ProcessInv(q)'
  <2>1. CASE q = p
    <3>1. l = "play" => path \in DOMAIN cache' BY <1>5
    <3> QED BY <2>1, <3>1, <1>3, <1>6 DEF ProcessInv, Kept, path, Ready, build_cache_path
  <2>2. CASE q # p BY <2>2, <1>2, <1>5 DEF ProcessInv, Kept, build_cache_path
  <2> QED BY <2>1, <2>2
<1>8. FilesInv'
  <2>1. \A x \in DOMAIN cache' :
          \/ cache'[x] = Silence
          \/ cache'[x] \in Speeches /\ build_cache_path(cache'[x]) = x
    BY <1>4, <1>5 DEF FilesInv, path
  <2>2. calm' => \A q, r \in Procs : {pc'[q], pc'[r]} \cap Rest = {} => q = r
    <3> SUFFICES ASSUME calm', NEW q \in Procs, NEW r \in Procs,
                        pc'[q] \notin Rest, pc'[r] \notin Rest
                 PROVE  q = r
      OBVIOUS
    <3>1. pc[p] \notin Rest BY DEF Ready, Rest
    <3>2. pc[q] \notin Rest /\ pc[r] \notin Rest BY <1>2, <3>1
    <3> QED BY <3>2 DEF FilesInv
  <2>3. ASSUME calm', NEW x \in DOMAIN cache', cache'[x] = Silence
        PROVE  \E q \in Procs : pc'[q] = "cache_write" /\ build_cache_path(speech'[q]) = x
    <3>1. CASE x = path
      <4>1. v = Silence BY <2>3, <3>1, <1>5
      <4>2. l = "cache_write" BY <2>3, <4>1, <1>4, SilenceAssumption
      <4> QED BY <3>1, <4>2, <1>3 DEF path
    <3>2. CASE x # path
      <4>1. x \in DOMAIN cache /\ cache[x] = Silence /\ calm BY <3>2, <2>3, <1>5
      <4>2. PICK q \in Procs : pc[q] = "cache_write" /\ build_cache_path(speech[q]) = x
        BY <4>1 DEF FilesInv
      <4>3. q = p BY <4>1, <4>2 DEF FilesInv, Ready, Rest
      <4> QED BY <4>2, <4>3, <3>2 DEF path
    <3> QED BY <3>1, <3>2
  <2> QED BY <2>1, <2>2, <2>3 DEF FilesInv
<1>9. HeardAsAsked'
  BY <1>2, <1>6 DEF HeardAsAsked, Kept
<1> QED BY <1>1, <1>7, <1>8, <1>9

\* A process that resolved a call has what was asked of it.
LEMMA Resolving ==
  ASSUME CacheInv, NEW p \in Procs, Resolve(p) PROVE CacheInv'
<1> USE DEF CacheInv
<1> DEFINE l == IF args[p].quiet THEN "over" ELSE "look"
<1>0. pc[p] = "resolve" /\ UNCHANGED <<settings, cache, args, asked, heard, calm>> /\ Goto(p, l)
  BY DEF Resolve, Stands, shared, History
<1>1. /\ asked[p] \in Announcements /\ args[p] \in {asked[p], QueuedArgs(asked[p])}
      /\ heard[p] = NoArg
  BY <1>0 DEF ProcessInv
<1>2. /\ speech' = [speech EXCEPT ![p] = Speech(args[p], settings)]
      /\ wanted' = [wanted EXCEPT ![p] = Speech(asked[p], settings)]
  BY DEF Resolve
<1>3. Speech(args[p], settings) \in Speeches /\ Speech(asked[p], settings) \in Speeches
  BY <1>1, ResolvesToSpeech DEF CacheTypes
<1>4. Kept(p) => Speech(args[p], settings) = Speech(asked[p], settings)
  BY <1>1, QueueKeeps DEF Kept
<1>5. l \in {"over", "look"} OBVIOUS
<1> HIDE DEF l
<1>6. CacheTypes'
  BY <1>0, <1>2, <1>3, <1>5 DEF CacheTypes, Goto, Ready, Rest
<1>7. /\ pc'[p] = l
      /\ speech'[p] = Speech(args[p], settings) /\ wanted'[p] = Speech(asked[p], settings)
      /\ \A q \in Procs : q # p => pc'[q] = pc[q] /\ speech'[q] = speech[q] /\ wanted'[q] = wanted[q]
  BY <1>0, <1>2 DEF CacheTypes, Goto
<1>8. ASSUME NEW q \in Procs PROVE ProcessInv(q)'
  <2>1. CASE q = p
    BY <2>1, <1>0, <1>1, <1>3, <1>4, <1>5, <1>7 DEF ProcessInv, Kept, Ready
  <2>2. CASE q # p
    BY <2>2, <1>0, <1>7 DEF ProcessInv, Kept, build_cache_path
  <2> QED BY <2>1, <2>2
<1>9. FilesInv'
  <2>1. \A x \in DOMAIN cache' :
          \/ cache'[x] = Silence
          \/ cache'[x] \in Speeches /\ build_cache_path(cache'[x]) = x
    BY <1>0 DEF FilesInv, build_cache_path
  <2>2. calm' => \A q, r \in Procs : {pc'[q], pc'[r]} \cap Rest = {} => q = r
    <3> SUFFICES ASSUME calm', NEW q \in Procs, NEW r \in Procs,
                        pc'[q] \notin Rest, pc'[r] \notin Rest
                 PROVE  q = r
      OBVIOUS
    <3>1. pc[p] \notin Rest BY <1>0 DEF Rest
    <3>2. pc[q] \notin Rest /\ pc[r] \notin Rest BY <1>7, <3>1
    <3> QED BY <1>0, <3>2 DEF FilesInv
  <2>3. calm' => \A x \in DOMAIN cache' : cache'[x] = Silence =>
                   \E q \in Procs : pc'[q] = "cache_write" /\ build_cache_path(speech'[q]) = x
    BY <1>0, <1>7 DEF FilesInv, build_cache_path
  <2> QED BY <2>1, <2>2, <2>3 DEF FilesInv
<1>10. HeardAsAsked'
  BY <1>0, <1>1, <1>7 DEF HeardAsAsked, Kept
<1> QED BY <1>6, <1>8, <1>9, <1>10

\* What is heard is the speech that was resolved, or what its file holds.
LEMMA Hearing ==
  ASSUME CacheInv, NEW p \in Procs, NEW v,
         pc[p] \in Ready \ {"cache_write"}, Goto(p, "over"),
         heard' = [heard EXCEPT ![p] = v],
         v = speech[p] \/ (v = Silence /\ ~calm'),
         calm' \in BOOLEAN, calm' => calm,
         UNCHANGED <<settings, cache, args, asked, wanted, speech>>
  PROVE  CacheInv'
<1> USE DEF CacheInv
<1>1. speech[p] \in Speeches /\ (Kept(p) => speech[p] = wanted[p])
  BY DEF ProcessInv
<1>2. CacheTypes'
  BY <1>1 DEF CacheTypes, Goto, Rest
<1>3. /\ pc'[p] = "over" /\ heard'[p] = v
      /\ \A q \in Procs : q # p => pc'[q] = pc[q] /\ heard'[q] = heard[q]
  BY DEF CacheTypes, Goto
<1>4. pc[p] \notin Rest
  BY DEF Ready, Rest
<1>5. ASSUME NEW q \in Procs PROVE ProcessInv(q)'
  <2>1. CASE q = p
    <3>1. pc[p] # "new" BY <1>4 DEF Rest
    <3> QED BY <2>1, <3>1, <1>3 DEF ProcessInv, Ready
  <2>2. CASE q # p BY <2>2, <1>3 DEF ProcessInv, Kept, build_cache_path
  <2> QED BY <2>1, <2>2
<1>6. FilesInv'
  <2>1. \A x \in DOMAIN cache' :
          \/ cache'[x] = Silence
          \/ cache'[x] \in Speeches /\ build_cache_path(cache'[x]) = x
    BY DEF FilesInv, build_cache_path
  <2>2. calm' => \A q, r \in Procs : {pc'[q], pc'[r]} \cap Rest = {} => q = r
    <3> SUFFICES ASSUME calm', NEW q \in Procs, NEW r \in Procs,
                        pc'[q] \notin Rest, pc'[r] \notin Rest
                 PROVE  q = r
      OBVIOUS
    <3>1. pc[q] \notin Rest /\ pc[r] \notin Rest BY <1>3, <1>4
    <3> QED BY <3>1 DEF FilesInv
  <2>3. calm' => \A x \in DOMAIN cache' : cache'[x] = Silence =>
                   \E q \in Procs : pc'[q] = "cache_write" /\ build_cache_path(speech'[q]) = x
    BY <1>3 DEF FilesInv, build_cache_path
  <2> QED BY <2>1, <2>2, <2>3 DEF FilesInv
<1>7. HeardAsAsked'
  <2> SUFFICES ASSUME NEW q \in Procs, heard'[q] # NoArg, Kept(q)'
               PROVE  heard'[q] = wanted'[q] \/ (heard'[q] = Silence /\ ~calm')
    BY DEF HeardAsAsked
  <2>1. Kept(q) BY DEF Kept
  <2>2. CASE q = p BY <2>1, <2>2, <1>1, <1>3
  <2>3. CASE q # p BY <2>1, <2>3, <1>3 DEF HeardAsAsked
  <2> QED BY <2>2, <2>3
<1> QED BY <1>2, <1>5, <1>6, <1>7

\* A process that is gone leaves the files as they are.
LEMMA Exiting ==
  ASSUME CacheInv, NEW p \in Procs, Exit(p) PROVE CacheInv'
<1> USE DEF CacheInv
<1>0. /\ pc[p] = "over" /\ Goto(p, "new") /\ UNCHANGED <<settings, cache, calm>>
      /\ args' = [args EXCEPT ![p] = NoArg] /\ asked' = [asked EXCEPT ![p] = NoArg]
      /\ wanted' = [wanted EXCEPT ![p] = NoArg] /\ speech' = [speech EXCEPT ![p] = NoArg]
      /\ heard' = [heard EXCEPT ![p] = NoArg]
  BY DEF Exit, Stands, shared
<1>1. CacheTypes'
  BY <1>0 DEF CacheTypes, Goto, Rest
<1>2. /\ pc'[p] = "new" /\ heard'[p] = NoArg
      /\ \A q \in Procs : q # p =>
           /\ pc'[q] = pc[q] /\ heard'[q] = heard[q] /\ args'[q] = args[q]
           /\ asked'[q] = asked[q] /\ wanted'[q] = wanted[q] /\ speech'[q] = speech[q]
  BY <1>0 DEF CacheTypes, Goto
<1>3. ASSUME NEW q \in Procs PROVE ProcessInv(q)'
  <2>1. CASE q = p BY <2>1, <1>2 DEF ProcessInv, Ready
  <2>2. CASE q # p BY <2>2, <1>0, <1>2 DEF ProcessInv, Kept, build_cache_path
  <2> QED BY <2>1, <2>2
<1>4. FilesInv'
  <2>1. \A x \in DOMAIN cache' :
          \/ cache'[x] = Silence
          \/ cache'[x] \in Speeches /\ build_cache_path(cache'[x]) = x
    BY <1>0 DEF FilesInv, build_cache_path
  <2>2. calm' => \A q, r \in Procs : {pc'[q], pc'[r]} \cap Rest = {} => q = r
    <3> SUFFICES ASSUME calm', NEW q \in Procs, NEW r \in Procs,
                        pc'[q] \notin Rest, pc'[r] \notin Rest
                 PROVE  q = r
      OBVIOUS
    <3>1. pc[q] \notin Rest /\ pc[r] \notin Rest BY <1>2 DEF Rest
    <3> QED BY <1>0, <3>1 DEF FilesInv
  <2>3. calm' => \A x \in DOMAIN cache' : cache'[x] = Silence =>
                   \E q \in Procs : pc'[q] = "cache_write" /\ build_cache_path(speech'[q]) = x
    BY <1>0, <1>2 DEF FilesInv, build_cache_path
  <2> QED BY <2>1, <2>2, <2>3 DEF FilesInv
<1>5. HeardAsAsked'
  BY <1>0, <1>2 DEF HeardAsAsked, Kept
<1> QED BY <1>1, <1>3, <1>4, <1>5

\* Without a failure, what a file holds when it is played is what its name
\* stands for.
LEMMA Playing ==
  ASSUME CacheInv, NEW p \in Procs, pc[p] = "play"
  PROVE  LET v == cache[build_cache_path(speech[p])] IN v = speech[p] \/ (v = Silence /\ ~calm)
<1> USE DEF CacheInv
<1> DEFINE path == build_cache_path(speech[p])
<1>1. path \in DOMAIN cache /\ speech[p] \in Speeches
  BY DEF ProcessInv, Ready
<1>2. CASE cache[path] = Silence
  <2> SUFFICES ASSUME calm PROVE FALSE BY <1>2
  <2>1. PICK q \in Procs : pc[q] = "cache_write" BY <1>1, <1>2 DEF FilesInv
  <2> QED BY <2>1 DEF FilesInv, Rest
<1>3. CASE cache[path] \in Speeches /\ build_cache_path(cache[path]) = path
  BY <1>1, <1>3, PathNamesSpeech
<1> QED BY <1>1, <1>2, <1>3 DEF FilesInv

LEMMA CacheStep == CacheInv /\ [AnnounceNext]_announceVars => CacheInv'
<1> SUFFICES ASSUME CacheInv, [AnnounceNext]_announceVars PROVE CacheInv' OBVIOUS
<1> USE DEF shared, own, History
<1>0. calm \in BOOLEAN BY DEF CacheInv, CacheTypes
<1>1. ASSUME NEW p \in Procs, Open(p) PROVE CacheInv'
  <2>1. PICK c \in Announcements :
          /\ args' = [args EXCEPT ![p] = c] /\ asked' = [asked EXCEPT ![p] = c]
          /\ \E l \in {"over", "resolve"} \cup (IF c.critical THEN {} ELSE {"queued"}) : Goto(p, l)
    BY <1>1 DEF Open
  <2>2. PICK l \in {"resolve", "queued", "over"} : Goto(p, l) BY <2>1
  <2> QED BY <1>1, <2>1, <2>2, Entering DEF Open, Stands
<1>2. ASSUME NEW p \in Procs, Replay(p) PROVE CacheInv'
  <2>1. /\ pc[p] = "queued" /\ Goto(p, "resolve") /\ Enter(p)
        /\ args' = [args EXCEPT ![p] = QueuedArgs(args[p])]
        /\ UNCHANGED <<settings, cache, asked, wanted, speech, heard>>
    BY <1>2 DEF Replay, Stands
  <2>2. /\ asked[p] \in Announcements /\ args[p] \in {asked[p], QueuedArgs(asked[p])}
        /\ asked \in [Procs -> Announcements \cup {NoArg}]
    BY <2>1 DEF CacheInv, ProcessInv, CacheTypes
  <2>3. QueuedArgs(QueuedArgs(asked[p])) = QueuedArgs(asked[p])
    <3>1. asked[p] \in
            [text : Field("text"), profile : Field("profile"), voice : Field("voice"),
             speed : Field("speed"), language : Field("language"), lookup : Field("lookup"),
             translate : Field("translate"), source : Field("source"),
             critical : BOOLEAN, no_cache : BOOLEAN, quiet : BOOLEAN]
      BY <2>2, AnnouncementsAssumption
    <3> QED BY <3>1 DEF QueuedArgs
  <2>4. asked' = [asked EXCEPT ![p] = asked[p]] BY <2>1, <2>2
  <2>5. QueuedArgs(args[p]) = QueuedArgs(asked[p]) BY <2>2, <2>3
  <2> QED BY <2>1, <2>2, <2>4, <2>5, Entering
<1>3. ASSUME NEW p \in Procs, Resolve(p) PROVE CacheInv'
  BY <1>3, Resolving
<1>4. ASSUME NEW p \in Procs, Look(p) PROVE CacheInv'
  <2>1. PICK l \in Ready \cup {"over"} :
          Goto(p, l) /\ (l = "play" => build_cache_path(speech[p]) \in DOMAIN cache)
    BY <1>4 DEF Look, Ready
  <2> QED BY <1>0, <1>4, <2>1, GoingOn DEF Look, Stands, Ready, Rest
<1>5. ASSUME NEW p \in Procs, LoadHits(p) PROVE CacheInv'
  <2>1. PICK l \in {"save", "stream"} : Goto(p, l) BY <1>5 DEF LoadHits
  <2> QED BY <1>0, <1>5, <2>1, GoingOn DEF LoadHits, Stands, Ready, Rest
<1>6. ASSUME NEW p \in Procs, SaveOpen(p) PROVE CacheInv'
  BY <1>0, <1>6, GoingOn DEF SaveOpen, Stands, Ready, Rest
<1>7. ASSUME NEW p \in Procs, SaveWrite(p) PROVE CacheInv'
  <2>1. PICK l \in {"stream", "download"} : Goto(p, l) BY <1>7 DEF SaveWrite
  <2> QED BY <1>0, <1>7, <2>1, GoingOn DEF SaveWrite, Stands, Ready, Rest
<1>8. ASSUME NEW p \in Procs, Stream(p) PROVE CacheInv'
  BY <1>0, <1>8, Hearing DEF Stream, Fetch, Stands, Ready
<1>9. ASSUME NEW p \in Procs, Download(p) PROVE CacheInv'
  BY <1>0, <1>9, GoingOn DEF Download, Fetch, Stands, Ready, Rest
<1>10. ASSUME NEW p \in Procs, CacheOpen(p) PROVE CacheInv'
  <2>1. /\ pc[p] \in Ready /\ Goto(p, "cache_write") /\ calm' = calm
        /\ cache' = Put(cache, build_cache_path(speech[p]), Silence)
        /\ UNCHANGED <<settings, args, asked, wanted, speech, heard>>
    BY <1>10 DEF CacheOpen, Stands, Ready
  <2> QED BY <2>1, Writing
<1>11. ASSUME NEW p \in Procs, CacheWrite(p) PROVE CacheInv'
  <2>1. /\ pc[p] \in Ready /\ Goto(p, "play") /\ calm' = calm
        /\ cache' = Put(cache, build_cache_path(speech[p]), speech[p])
        /\ UNCHANGED <<settings, args, asked, wanted, speech, heard>>
    BY <1>11 DEF CacheWrite, Stands, Ready
  <2> QED BY <2>1, Writing
<1>12. ASSUME NEW p \in Procs, Play(p) PROVE CacheInv'
  <2>1. LET v == cache[build_cache_path(speech[p])] IN v = speech[p] \/ (v = Silence /\ ~calm)
    BY <1>12, Playing DEF Play, Stands
  <2> QED BY <1>0, <1>12, <2>1, Hearing DEF Play, Stands, Ready
<1>13. ASSUME NEW p \in Procs, BreakOff(p) PROVE CacheInv'
  <2>1. CASE Fetch(p, "stream") /\ heard' = [heard EXCEPT ![p] = Silence] /\ UNCHANGED cache
    BY <1>13, <2>1, Hearing DEF BreakOff, Failure, Fetch, Stands, Ready
  <2>2. CASE /\ Fetch(p, "download")
             /\ cache' = Put(cache, build_cache_path(speech[p]), Silence)
             /\ heard' = [heard EXCEPT ![p] = Silence]
    <3>1. /\ pc[p] \in Ready /\ Goto(p, "over") /\ calm' = FALSE
          /\ UNCHANGED <<settings, args, asked, wanted, speech>>
      BY <1>13, <2>2 DEF BreakOff, Failure, Fetch, Stands, Ready
    <3> QED BY <2>2, <3>1, Writing
  <2> QED BY <1>13, <2>1, <2>2 DEF BreakOff
<1>14. ASSUME NEW p \in Procs, Refused(p) PROVE CacheInv'
  BY <1>0, <1>14, GoingOn DEF Refused, Failure, Ready, Rest
<1>15. ASSUME NEW p \in Procs, Kill(p) PROVE CacheInv'
  BY <1>0, <1>15, GoingOn DEF Kill, Failure, Ready, Rest
<1>16. ASSUME NEW p \in Procs, Exit(p) PROVE CacheInv'
  BY <1>16, Exiting
<1>17. CASE EditConfig
  BY <1>17 DEF EditConfig, CacheInv, CacheTypes, ProcessInv, FilesInv, HeardAsAsked, Kept,
               build_cache_path
<1>18. CASE UNCHANGED announceVars
  BY <1>18 DEF announceVars, CacheInv, CacheTypes, ProcessInv, FilesInv, HeardAsAsked, Kept,
               build_cache_path
<1> QED
  BY <1>1, <1>2, <1>3, <1>4, <1>5, <1>6, <1>7, <1>8, <1>9, <1>10, <1>11, <1>12, <1>13, <1>14,
     <1>15, <1>16, <1>17, <1>18 DEF AnnounceNext, Step

-----------------------------------------------------------------------------

\* Whatever is heard for a call is the speech it asks for under the
\* configuration it read, and without an overlap or a failure it is heard:
\* through the server, the cached files of other calls, and the queue.
THEOREM HeardIsOwn == AnnounceSpec => []HeardAsAsked
<1>1. CacheInv => HeardAsAsked
  BY DEF CacheInv
<1> QED BY CacheInit, CacheStep, <1>1, PTL DEF AnnounceSpec

-----------------------------------------------------------------------------
(* announce: what the table of hits says of the requests paid for *)

\* A table has counted every request that was paid for, and a speech it has
\* counted twice is in the cache, or on its way there.
Counting == {"save", "save_write", "download", "cache_open", "cache_write"}

TableInv(t) ==
  /\ \A x \in DOMAIN t : t[x] \in {1, 2}
  /\ \A k \in DOMAIN paid : paid[k] \in Nat /\ paid[k] <= Count(t, compute_hash(k))
  /\ \A k \in Speeches : Count(t, compute_hash(k)) = 2 =>
       \/ build_cache_path(k) \in DOMAIN cache
       \/ \E p \in Procs : pc[p] \in Counting /\ compute_hash(speech[p]) = compute_hash(k)

\* The request that p is about to pay for has been counted.
CountedFor(p, t) == Count(paid, speech[p]) < Count(t, compute_hash(speech[p]))

RequestInv(p) ==
  /\ pc[p] = "hits" => build_cache_path(speech[p]) \notin DOMAIN cache
  /\ pc[p] \in {"save", "save_write"} => TableInv(table[p]) /\ CountedFor(p, table[p])
  /\ pc[p] \in {"stream", "download"} /\ backend[p] = "elevenlabs" /\ ~args[p].no_cache =>
       CountedFor(p, hits)

\* While the table is being written, it is the one that its writer holds.
CreditsInv ==
  /\ DOMAIN table = Procs /\ DOMAIN backend = Procs
  /\ calm => /\ (\A p \in Procs : pc[p] # "save_write") => TableInv(hits)
             /\ \A p \in Procs : RequestInv(p)

\* Speeches that hash alike have one path.
LEMMA HashFixesPath ==
  ASSUME NEW k, NEW l, compute_hash(k) = compute_hash(l)
  PROVE  build_cache_path(k) = build_cache_path(l)
BY DEF compute_hash, build_cache_path

\* A table of which more is in the cache, or on its way, is as good.
LEMMA TableKept ==
  ASSUME NEW t, TableInv(t), paid' = paid, DOMAIN cache \subseteq DOMAIN cache',
         \A k \in Speeches :
           (\E p \in Procs : pc[p] \in Counting /\ compute_hash(speech[p]) = compute_hash(k))
           => \/ build_cache_path(k) \in DOMAIN cache'
              \/ \E p \in Procs : pc'[p] \in Counting /\ compute_hash(speech'[p]) = compute_hash(k)
  PROVE  /\ \A x \in DOMAIN t : t[x] \in {1, 2}
         /\ \A k \in DOMAIN paid' : paid'[k] \in Nat /\ paid'[k] <= Count(t, compute_hash(k))
         /\ \A k \in Speeches : Count(t, compute_hash(k)) = 2 =>
              \/ build_cache_path(k) \in DOMAIN cache'
              \/ \E p \in Procs : pc'[p] \in Counting /\ compute_hash(speech'[p]) = compute_hash(k)
BY DEF TableInv

\* While all is calm a process at work is alone.
LEMMA AtWorkAlone ==
  ASSUME CacheInv, calm, NEW p \in Procs, pc[p] \notin Rest, NEW q \in Procs, q # p
  PROVE  pc[q] \in Rest
BY DEF CacheInv, FilesInv

\* A step of the process at work: what it leaves behind is all there is to show.
LEMMA AtWork ==
  ASSUME CacheInv, CreditsInv, NEW p \in Procs, pc[p] \notin Rest,
         \A q \in Procs : q # p => pc'[q] = pc[q],
         DOMAIN table' = Procs, DOMAIN backend' = Procs,
         calm' => calm,
         calm' => (pc'[p] # "save_write" => TableInv(hits)'),
         calm' => RequestInv(p)'
  PROVE  CreditsInv'
<1>1. ASSUME calm', NEW q \in Procs, q # p PROVE pc'[q] \in Rest
  BY <1>1, AtWorkAlone
<1>2. ASSUME calm', NEW q \in Procs PROVE RequestInv(q)'
  <2>1. CASE q = p BY <1>2, <2>1
  <2>2. CASE q # p
    <3>1. pc'[q] \in Rest BY <1>1, <1>2, <2>2
    <3> QED BY <3>1 DEF RequestInv, Rest
  <2> QED BY <2>1, <2>2
<1> QED BY <1>2 DEF CreditsInv

\* A process that comes or goes takes no part in the counting.
LEMMA AtRest ==
  ASSUME CacheInv, CreditsInv, NEW p \in Procs,
         pc[p] \in Rest, pc'[p] \in Rest \cup {"resolve"},
         \A q \in Procs : q # p =>
           /\ pc'[q] = pc[q] /\ args'[q] = args[q] /\ speech'[q] = speech[q]
           /\ table'[q] = table[q] /\ backend'[q] = backend[q],
         DOMAIN table' = Procs, DOMAIN backend' = Procs,
         UNCHANGED <<cache, hits, paid>>, calm' => calm
  PROVE  CreditsInv'
<1>1. /\ pc[p] \notin Counting /\ pc'[p] \notin Counting
      /\ pc[p] # "save_write" /\ pc'[p] # "save_write"
  BY DEF Counting, Rest
<1>2. ASSUME NEW t, TableInv(t)
      PROVE  /\ \A x \in DOMAIN t : t[x] \in {1, 2}
             /\ \A k \in DOMAIN paid' : paid'[k] \in Nat /\ paid'[k] <= Count(t, compute_hash(k))
             /\ \A k \in Speeches : Count(t, compute_hash(k)) = 2 =>
                  \/ build_cache_path(k) \in DOMAIN cache'
                  \/ \E q \in Procs : pc'[q] \in Counting /\ compute_hash(speech'[q]) = compute_hash(k)
  <2>1. \A q \in Procs : pc[q] \in Counting => pc'[q] \in Counting /\ speech'[q] = speech[q]
    BY <1>1
  <2>2. \A k \in Speeches :
          (\E q \in Procs : pc[q] \in Counting /\ compute_hash(speech[q]) = compute_hash(k))
          => \E q \in Procs : pc'[q] \in Counting /\ compute_hash(speech'[q]) = compute_hash(k)
    BY <2>1
  <2> QED BY <1>2, <2>2, TableKept
<1>3. ASSUME calm', \A q \in Procs : pc'[q] # "save_write" PROVE TableInv(hits)'
  <2>1. \A q \in Procs : pc[q] # "save_write" BY <1>1, <1>3
  <2>2. TableInv(hits) BY <1>3, <2>1 DEF CreditsInv
  <2>3. hits' = hits OBVIOUS
  <2> QED BY <1>2, <2>2, <2>3 DEF TableInv
<1>4. ASSUME calm', NEW q \in Procs PROVE RequestInv(q)'
  <2>1. CASE q = p BY <1>1, <2>1 DEF RequestInv, Rest
  <2>2. CASE q # p
    <3>1. RequestInv(q) BY <1>4 DEF CreditsInv
    <3>2. /\ pc'[q] = pc[q] /\ args'[q] = args[q] /\ speech'[q] = speech[q]
          /\ table'[q] = table[q] /\ backend'[q] = backend[q]
      BY <2>2
    <3>3. pc[q] \in {"save", "save_write"} => TableInv(table[q])'
      <4>1. pc[q] \in {"save", "save_write"} => TableInv(table[q]) BY <3>1 DEF RequestInv
      <4> QED BY <1>2, <3>2, <4>1 DEF TableInv
    <3> QED BY <3>1, <3>2, <3>3 DEF RequestInv, CountedFor
  <2> QED BY <2>1, <2>2
<1> QED BY <1>3, <1>4 DEF CreditsInv

\* One hit more in a table that has counted less than two.
LEMMA HitCounted ==
  ASSUME NEW t, TableInv(t), NEW k, Count(t, compute_hash(k)) # 2
  PROVE  LET h == compute_hash(k) u == Put(t, h, Count(t, h) + 1)
         IN  /\ \A x \in DOMAIN u : u[x] \in {1, 2}
             /\ \A l \in DOMAIN paid : paid[l] <= Count(u, compute_hash(l))
             /\ Count(paid, k) < Count(u, h)
             /\ \A l : compute_hash(l) # h => Count(u, compute_hash(l)) = Count(t, compute_hash(l))
<1> DEFINE h == compute_hash(k)
           u == Put(t, h, Count(t, h) + 1)
<1> HIDE DEF h
<1>1. Count(t, h) \in {0, 1} BY DEF TableInv, Count, h
<1>2. /\ DOMAIN u = DOMAIN t \cup {h} /\ u[h] = Count(t, h) + 1
      /\ \A x \in DOMAIN t : x # h => u[x] = t[x]
  BY DEF Put
<1> HIDE DEF u
<1>3. \A x \in DOMAIN u : u[x] \in {1, 2} BY <1>1, <1>2 DEF TableInv
<1>4. Count(u, h) = Count(t, h) + 1 BY <1>2 DEF Count
<1>5. \A x : x # h => Count(u, x) = Count(t, x) BY <1>2 DEF Count
<1>6. \A l \in DOMAIN paid : paid[l] \in Nat /\ paid[l] <= Count(t, compute_hash(l))
  BY DEF TableInv
<1>7. ASSUME NEW l \in DOMAIN paid PROVE paid[l] <= Count(u, compute_hash(l))
  <2>1. CASE compute_hash(l) = h BY <1>1, <1>4, <1>6, <2>1
  <2>2. CASE compute_hash(l) # h BY <1>5, <1>6, <2>2
  <2> QED BY <2>1, <2>2
<1>8. Count(paid, k) < Count(u, h)
  <2>1. CASE k \in DOMAIN paid BY <1>1, <1>4, <1>6, <2>1 DEF Count, h
  <2>2. CASE k \notin DOMAIN paid
    <3>1. Count(paid, k) = 0 BY <2>2 DEF Count
    <3> QED BY <1>1, <1>4, <3>1
  <2> QED BY <2>1, <2>2
<1> QED BY <1>3, <1>5, <1>7, <1>8 DEF h, u

\* No step of a process leaves a request uncounted.
LEMMA CreditsStep == CacheInv /\ CreditsInv /\ [AnnounceNext]_announceVars => CreditsInv'
<1> SUFFICES ASSUME CacheInv, CreditsInv, [AnnounceNext]_announceVars PROVE CreditsInv' OBVIOUS
<1> USE DEF shared, own, History
<1>0. /\ pc \in [Procs -> Rest \cup {"resolve"} \cup Ready] /\ calm \in BOOLEAN
      /\ speech \in [Procs -> Speeches \cup {NoArg}]
      /\ args \in [Procs -> Announcements \cup {QueuedArgs(c) : c \in Announcements} \cup {NoArg}]
      /\ DOMAIN table = Procs /\ DOMAIN backend = Procs
  BY DEF CacheInv, CacheTypes, CreditsInv
<1>a. ASSUME NEW p \in Procs, pc[p] \in Ready
      PROVE  /\ pc[p] \notin Rest /\ speech[p] \in Speeches
             /\ calm => \A q \in Procs : q # p => pc[q] \in Rest
             /\ calm => (pc[p] # "save_write" => TableInv(hits))
             /\ calm => RequestInv(p)
  <2>1. pc[p] \notin Rest BY <1>a DEF Ready, Rest
  <2>2. speech[p] \in Speeches BY <1>a DEF CacheInv, ProcessInv
  <2>3. calm => \A q \in Procs : q # p => pc[q] \in Rest BY <2>1, AtWorkAlone
  <2>4. calm /\ pc[p] # "save_write" => \A q \in Procs : pc[q] # "save_write"
    BY <2>3 DEF Rest
  <2> QED BY <2>1, <2>2, <2>3, <2>4 DEF CreditsInv
\* A step of a process at work that leaves table, payments and speech alone, and
\* the files but for one more.
<1>b. ASSUME NEW p \in Procs, pc[p] \in Ready, NEW l, Goto(p, l), calm,
             speech' = speech, paid' = paid, DOMAIN cache \subseteq DOMAIN cache',
             \/ pc[p] \in Counting => l \in Counting
             \/ build_cache_path(speech[p]) \in DOMAIN cache'
      PROVE  \A t : TableInv(t) =>
               /\ \A x \in DOMAIN t : t[x] \in {1, 2}
               /\ \A k \in DOMAIN paid' : paid'[k] \in Nat /\ paid'[k] <= Count(t, compute_hash(k))
               /\ \A k \in Speeches : Count(t, compute_hash(k)) = 2 =>
                    \/ build_cache_path(k) \in DOMAIN cache'
                    \/ \E q \in Procs : pc'[q] \in Counting /\ compute_hash(speech'[q]) = compute_hash(k)
  <2>1. pc'[p] = l /\ \A q \in Procs : q # p => pc'[q] = pc[q] BY <1>0, <1>b DEF Goto
  <2>2. \A q \in Procs : q # p => pc[q] \notin Counting
    BY <1>a, <1>b DEF Counting, Rest
  <2>3. ASSUME NEW k \in Speeches,
               \E q \in Procs : pc[q] \in Counting /\ compute_hash(speech[q]) = compute_hash(k)
        PROVE  \/ build_cache_path(k) \in DOMAIN cache'
               \/ \E q \in Procs : pc'[q] \in Counting /\ compute_hash(speech'[q]) = compute_hash(k)
    <3>1. pc[p] \in Counting /\ compute_hash(speech[p]) = compute_hash(k) BY <2>2, <2>3
    <3>2. CASE l \in Counting BY <1>b, <2>1, <3>1, <3>2
    <3>3. CASE build_cache_path(speech[p]) \in DOMAIN cache'
      <4>1. build_cache_path(speech[p]) = build_cache_path(k) BY <3>1, HashFixesPath
      <4> QED BY <3>3, <4>1
    <3> QED BY <1>b, <3>1, <3>2, <3>3
  <2> QED BY <1>b, <2>3, TableKept
\* A step that is not calm shows nothing.
<1>c. ASSUME NEW p \in Procs, pc[p] \notin Rest, NEW l, Goto(p, l), calm' = FALSE,
             table' = table, backend' = backend
      PROVE  CreditsInv'
  <2>1. \A q \in Procs : q # p => pc'[q] = pc[q] BY <1>0, <1>c DEF Goto
  <2> QED BY <1>0, <1>c, <2>1, AtWork
<1>1. ASSUME NEW p \in Procs, Open(p) \/ Replay(p) \/ Exit(p) PROVE CreditsInv'
  <2>1. /\ pc[p] \in Rest /\ UNCHANGED <<cache, hits, paid>> /\ (calm' => calm)
        /\ \E l \in Rest \cup {"resolve"} : Goto(p, l)
    BY <1>0, <1>1 DEF Open, Replay, Exit, Enter, Failure, Stands, Rest
  <2>2. /\ speech' = speech \/ speech' = [speech EXCEPT ![p] = NoArg]
        /\ table' = table \/ table' = [table EXCEPT ![p] = NoArg]
        /\ backend' = backend \/ backend' = [backend EXCEPT ![p] = NoArg]
        /\ \E a : args' = [args EXCEPT ![p] = a]
    BY <1>1 DEF Open, Replay, Exit
  <2>3. /\ pc'[p] \in Rest \cup {"resolve"} /\ DOMAIN table' = Procs /\ DOMAIN backend' = Procs
        /\ \A q \in Procs : q # p =>
             /\ pc'[q] = pc[q] /\ args'[q] = args[q] /\ speech'[q] = speech[q]
             /\ table'[q] = table[q] /\ backend'[q] = backend[q]
    BY <1>0, <2>1, <2>2 DEF Goto
  <2> QED BY <2>1, <2>3, AtRest
<1>2. ASSUME NEW p \in Procs, Resolve(p) PROVE CreditsInv'
  <2>1. /\ pc[p] = "resolve" /\ UNCHANGED <<cache, hits, paid, args, table, backend, calm>>
        /\ \E s : speech' = [speech EXCEPT ![p] = s]
        /\ \E l \in {"over", "look"} : Goto(p, l)
    BY <1>2 DEF Resolve, Stands
  <2>2. /\ pc'[p] \in {"over", "look"}
        /\ \A q \in Procs : q # p => pc'[q] = pc[q] /\ speech'[q] = speech[q]
    BY <1>0, <2>1 DEF Goto
  <2>3. calm => \A q \in Procs : q # p => pc[q] \in Rest
    BY <2>1, AtWorkAlone DEF Rest
  <2>4. calm => TableInv(hits) BY <2>1, <2>3 DEF CreditsInv, Rest
  <2>5. calm => \A q \in Procs : pc[q] \notin Counting
    BY <2>1, <2>3 DEF Counting, Rest
  <2>6. TableInv(hits) /\ calm => TableInv(hits)'
    BY <2>1, <2>5 DEF TableInv
  <2>7. RequestInv(p)' BY <2>2 DEF RequestInv
  <2> QED BY <1>0, <2>1, <2>2, <2>4, <2>6, <2>7, AtWork DEF Rest
<1>3. ASSUME NEW p \in Procs, Look(p) PROVE CreditsInv'
  <2> DEFINE b == load_config(settings).backend
             path == build_cache_path(speech[p])
             l == IF ~Sliceable(speech[p].text) THEN "over"
                  ELSE IF ~args[p].no_cache /\ path \in DOMAIN cache THEN "play"
                  ELSE IF b = "kokoro" THEN "download"
                  ELSE IF args[p].no_cache THEN "stream" ELSE "hits"
  <2>1. /\ pc[p] = "look" /\ backend' = [backend EXCEPT ![p] = b] /\ Goto(p, l)
        /\ UNCHANGED <<cache, hits, paid, args, speech, table, calm>>
    BY <1>3 DEF Look, Stands
  <2>2. /\ l = "hits" => path \notin DOMAIN cache
        /\ l = "stream" => args[p].no_cache
        /\ l = "download" => b = "kokoro"
        /\ l \in {"over", "play", "download", "stream", "hits"}
    OBVIOUS
  <2> HIDE DEF b, l
  <2>3. /\ pc'[p] = l /\ backend'[p] = b /\ DOMAIN backend' = Procs
        /\ \A q \in Procs : q # p => pc'[q] = pc[q]
    BY <1>0, <2>1 DEF Goto
  <2>4. pc[p] \in Ready /\ pc[p] \notin Counting BY <2>1 DEF Ready, Counting
  <2>5. calm => TableInv(hits)' BY <1>a, <1>b, <2>1, <2>4 DEF TableInv
  <2>6. RequestInv(p)' BY <2>1, <2>2, <2>3 DEF RequestInv, build_cache_path
  <2> QED BY <1>0, <1>a, <2>1, <2>3, <2>4, <2>5, <2>6, AtWork
<1>4. ASSUME NEW p \in Procs, LoadHits(p) PROVE CreditsInv'
  <2> DEFINE k == speech[p]
             h == compute_hash(k)
             u == Put(hits, h, Count(hits, h) + 1)
  <2>1. /\ pc[p] = "hits" /\ pc[p] \in Ready
        /\ UNCHANGED <<cache, hits, paid, args, speech, backend, calm>>
        /\ table' = [table EXCEPT ![p] = IF Count(hits, h) < 2 THEN u ELSE @]
        /\ Goto(p, IF Count(hits, h) < 2 THEN "save" ELSE "stream")
    BY <1>4 DEF LoadHits, Stands, Ready
  <2>2. DOMAIN table' = Procs /\ \A q \in Procs : q # p => pc'[q] = pc[q]
    BY <1>0, <2>1 DEF Goto
  <2>3. ASSUME calm PROVE TableInv(hits)' /\ RequestInv(p)'
    <3>1. TableInv(hits) /\ k \in Speeches BY <1>a, <2>1, <2>3
    <3>2. Count(hits, h) # 2
      <4>1. build_cache_path(k) \notin DOMAIN cache
        BY <1>a, <2>1, <2>3 DEF RequestInv
      <4>2. \A q \in Procs : pc[q] \notin Counting
        BY <1>a, <2>1, <2>3 DEF Counting, Rest
      <4> QED BY <3>1, <4>1, <4>2 DEF TableInv
    <3>3. Count(hits, h) < 2 BY <3>1, <3>2 DEF TableInv, Count
    <3>4. table'[p] = u /\ pc'[p] = "save" BY <1>0, <2>1, <3>3 DEF Goto
    <3>5. Goto(p, "save") BY <2>1, <3>3
    <3>6. TableInv(hits)'
      <4>1. pc[p] \notin Counting BY <2>1 DEF Counting
      <4> QED BY <1>b, <2>1, <2>3, <3>1, <3>5, <4>1 DEF TableInv
    <3>7. /\ \A x \in DOMAIN u : u[x] \in {1, 2}
          /\ \A j \in DOMAIN paid : paid[j] <= Count(u, compute_hash(j))
          /\ Count(paid, k) < Count(u, h)
          /\ \A j : compute_hash(j) # h => Count(u, compute_hash(j)) = Count(hits, compute_hash(j))
      BY <3>1, <3>2, HitCounted
    <3> HIDE DEF u
    <3>8. ASSUME NEW j \in Speeches, Count(u, compute_hash(j)) = 2
          PROVE  \/ build_cache_path(j) \in DOMAIN cache'
                 \/ \E q \in Procs : pc'[q] \in Counting /\ compute_hash(speech'[q]) = compute_hash(j)
      <4>1. CASE compute_hash(j) = h BY <2>1, <3>4, <4>1 DEF Counting
      <4>2. CASE compute_hash(j) # h
        <5>1. Count(hits, compute_hash(j)) = 2 BY <3>7, <3>8, <4>2
        <5> QED BY <2>1, <3>6, <5>1 DEF TableInv
      <4> QED BY <4>1, <4>2
    <3>9. TableInv(table[p])'
      BY <2>1, <3>1, <3>4, <3>7, <3>8 DEF TableInv
    <3>10. CountedFor(p, table[p])' BY <2>1, <3>4, <3>7 DEF CountedFor
    <3> QED BY <3>4, <3>6, <3>9, <3>10 DEF RequestInv
  <2> QED BY <1>0, <1>a, <2>1, <2>2, <2>3, AtWork
<1>5. ASSUME NEW p \in Procs, SaveOpen(p) PROVE CreditsInv'
  <2>1. /\ pc[p] = "save" /\ pc[p] \in Ready /\ pc[p] \in Counting /\ Goto(p, "save_write")
        /\ UNCHANGED <<cache, paid, args, speech, backend, table, calm>>
    BY <1>5 DEF SaveOpen, Stands, Ready, Counting
  <2>2. pc'[p] = "save_write" /\ \A q \in Procs : q # p => pc'[q] = pc[q]
    BY <1>0, <2>1 DEF Goto
  <2>3. ASSUME calm PROVE RequestInv(p)'
    <3>1. TableInv(table[p]) /\ CountedFor(p, table[p]) BY <1>a, <2>1, <2>3 DEF RequestInv
    <3>2. "save_write" \in Counting BY DEF Counting
    <3>3. TableInv(table[p])' BY <1>b, <2>1, <2>3, <3>1, <3>2 DEF TableInv
    <3>4. CountedFor(p, table[p])' BY <2>1, <3>1 DEF CountedFor
    <3> QED BY <2>2, <3>3, <3>4 DEF RequestInv
  <2> QED BY <1>0, <1>a, <2>1, <2>2, <2>3, AtWork
<1>6. ASSUME NEW p \in Procs, SaveWrite(p) PROVE CreditsInv'
  <2> DEFINE h == compute_hash(speech[p])
  <2>1. /\ pc[p] = "save_write" /\ pc[p] \in Ready /\ hits' = table[p]
        /\ Goto(p, IF Count(table[p], h) = 1 THEN "stream" ELSE "download")
        /\ UNCHANGED <<cache, paid, args, speech, backend, table, calm>>
    BY <1>6 DEF SaveWrite, Stands, Ready
  <2>2. /\ pc'[p] = IF Count(table[p], h) = 1 THEN "stream" ELSE "download"
        /\ \A q \in Procs : q # p => pc'[q] = pc[q]
    BY <1>0, <2>1 DEF Goto
  <2>3. ASSUME calm PROVE TableInv(hits)' /\ RequestInv(p)'
    <3>1. TableInv(table[p]) /\ CountedFor(p, table[p]) BY <1>a, <2>1, <2>3 DEF RequestInv
    <3>2. CountedFor(p, hits)' BY <2>1, <3>1 DEF CountedFor
    <3>3. ASSUME NEW j \in Speeches, Count(table[p], compute_hash(j)) = 2
          PROVE  \/ build_cache_path(j) \in DOMAIN cache'
                 \/ \E q \in Procs : pc'[q] \in Counting /\ compute_hash(speech'[q]) = compute_hash(j)
      <4>1. CASE compute_hash(j) = h
        <5>1. pc'[p] = "download" BY <2>2, <3>3, <4>1
        <5> QED BY <2>1, <4>1, <5>1 DEF Counting
      <4>2. CASE compute_hash(j) # h
        <5>1. \A q \in Procs : pc[q] \in Counting => q = p
          BY <1>a, <2>1, <2>3 DEF Counting, Rest
        <5>2. build_cache_path(j) \in DOMAIN cache BY <3>1, <3>3, <4>2, <5>1 DEF TableInv
        <5> QED BY <2>1, <5>2
      <4> QED BY <4>1, <4>2
    <3>4. TableInv(hits)' BY <2>1, <3>1, <3>3 DEF TableInv
    <3>5. RequestInv(p)' BY <2>2, <3>2 DEF RequestInv
    <3> QED BY <3>4, <3>5
  <2> QED BY <1>0, <1>a, <2>1, <2>2, <2>3, AtWork
\* The server is paid for what was counted.
<1>d. ASSUME NEW p \in Procs, NEW l \in {"over", "cache_open"}, Goto(p, l),
             pc[p] \in {"stream", "download"}, Fetch(p, pc[p]),
             l = "over" => pc[p] = "stream",
             l = "cache_open" => pc[p] = "download",
             UNCHANGED <<cache, hits, args, speech, backend, table, calm>>
      PROVE  CreditsInv'
  <2> DEFINE k == speech[p]
  <2>1. /\ paid' = paid \/ ( /\ backend[p] = "elevenlabs" /\ ~args[p].no_cache
                             /\ paid' = Put(paid, k, Count(paid, k) + 1) )
        /\ pc[p] \in Ready
    BY <1>d DEF Fetch, Ready
  <2>2. pc'[p] = l /\ \A q \in Procs : q # p => pc'[q] = pc[q] BY <1>0, <1>d DEF Goto
  <2>3. RequestInv(p)' BY <2>2 DEF RequestInv
  <2>4. ASSUME calm PROVE TableInv(hits)'
    <3>1. TableInv(hits) BY <1>a, <1>d, <2>1, <2>4
    <3>2. \A j \in DOMAIN paid' : paid'[j] \in Nat /\ paid'[j] <= Count(hits, compute_hash(j))
      <4>1. \A j \in DOMAIN paid : paid[j] \in Nat /\ paid[j] <= Count(hits, compute_hash(j))
        BY <3>1 DEF TableInv
      <4>2. CASE paid' = paid BY <4>1, <4>2
      <4>3. CASE backend[p] = "elevenlabs" /\ ~args[p].no_cache
                 /\ paid' = Put(paid, k, Count(paid, k) + 1)
        <5>1. Count(paid, k) < Count(hits, compute_hash(k))
          BY <1>a, <1>d, <2>1, <2>4, <4>3 DEF RequestInv, CountedFor
        <5>2. Count(paid, k) \in Nat BY <4>1 DEF Count
        <5>3. Count(hits, compute_hash(k)) \in Nat BY <3>1 DEF TableInv, Count
        <5>4. /\ DOMAIN paid' = DOMAIN paid \cup {k} /\ paid'[k] = Count(paid, k) + 1
              /\ \A j \in DOMAIN paid : j # k => paid'[j] = paid[j]
          BY <4>3 DEF Put
        <5>5. paid'[k] \in Nat /\ paid'[k] <= Count(hits, compute_hash(k))
          BY <5>1, <5>2, <5>3, <5>4
        <5> QED BY <4>1, <5>4, <5>5
      <4> QED BY <2>1, <4>2, <4>3
    <3>3. ASSUME NEW j \in Speeches, Count(hits, compute_hash(j)) = 2
          PROVE  \/ build_cache_path(j) \in DOMAIN cache'
                 \/ \E q \in Procs : pc'[q] \in Counting /\ compute_hash(speech'[q]) = compute_hash(j)
      <4>1. \/ build_cache_path(j) \in DOMAIN cache
            \/ \E q \in Procs : pc[q] \in Counting /\ compute_hash(speech[q]) = compute_hash(j)
        BY <3>1, <3>3 DEF TableInv
      <4>2. \A q \in Procs : pc[q] \in Counting => pc'[q] \in Counting
        BY <1>d, <2>2 DEF Counting
      <4> QED BY <1>d, <4>1, <4>2
    <3> QED BY <1>d, <3>1, <3>2, <3>3 DEF TableInv
  <2> QED BY <1>0, <1>a, <1>d, <2>1, <2>2, <2>3, <2>4, AtWork
<1>7. ASSUME NEW p \in Procs, Stream(p) PROVE CreditsInv'
  <2>1. /\ pc[p] = "stream" /\ Fetch(p, pc[p]) /\ Goto(p, "over")
        /\ UNCHANGED <<cache, hits, args, speech, backend, table, calm>>
    BY <1>7 DEF Stream, Fetch, Stands
  <2> QED BY <1>d, <2>1
<1>8. ASSUME NEW p \in Procs, Download(p) PROVE CreditsInv'
  <2>1. /\ pc[p] = "download" /\ Fetch(p, pc[p]) /\ Goto(p, "cache_open")
        /\ UNCHANGED <<cache, hits, args, speech, backend, table, calm>>
    BY <1>8 DEF Download, Fetch, Stands
  <2> QED BY <1>d, <2>1
<1>9. ASSUME NEW p \in Procs, CacheOpen(p) \/ CacheWrite(p) PROVE CreditsInv'
  <2>1. /\ pc[p] \in {"cache_open", "cache_write"} /\ pc[p] \in Ready
        /\ \E v : cache' = Put(cache, build_cache_path(speech[p]), v)
        /\ \E l \in {"cache_write", "play"} : Goto(p, l)
        /\ UNCHANGED <<hits, paid, args, speech, backend, table, calm>>
    BY <1>9 DEF CacheOpen, CacheWrite, Stands, Ready
  <2>2. PICK l \in {"cache_write", "play"} : Goto(p, l) BY <2>1
  <2>3. pc'[p] = l /\ \A q \in Procs : q # p => pc'[q] = pc[q] BY <1>0, <2>2 DEF Goto
  <2>4. /\ DOMAIN cache \subseteq DOMAIN cache'
        /\ build_cache_path(speech[p]) \in DOMAIN cache'
    BY <2>1 DEF Put
  <2>5. RequestInv(p)' BY <2>3 DEF RequestInv
  <2>6. calm => TableInv(hits)'
    <3> SUFFICES ASSUME calm PROVE TableInv(hits)' OBVIOUS
    <3>1. TableInv(hits) BY <1>a, <2>1
    <3> QED BY <1>b, <2>1, <2>2, <2>4, <3>1 DEF TableInv
  <2> QED BY <1>0, <1>a, <2>1, <2>3, <2>5, <2>6, AtWork
<1>10. ASSUME NEW p \in Procs, Play(p) PROVE CreditsInv'
  <2>1. /\ pc[p] = "play" /\ pc[p] \in Ready /\ pc[p] \notin Counting /\ Goto(p, "over")
        /\ UNCHANGED <<cache, hits, paid, args, speech, backend, table, calm>>
    BY <1>10 DEF Play, Stands, Ready, Counting
  <2>2. pc'[p] = "over" /\ \A q \in Procs : q # p => pc'[q] = pc[q] BY <1>0, <2>1 DEF Goto
  <2>3. RequestInv(p)' BY <2>2 DEF RequestInv
  <2>4. calm => TableInv(hits)' BY <1>a, <1>b, <2>1 DEF TableInv
  <2> QED BY <1>0, <1>a, <2>1, <2>2, <2>3, <2>4, AtWork
<1>11. ASSUME NEW p \in Procs, BreakOff(p) \/ Refused(p) \/ Kill(p) PROVE CreditsInv'
  <2>1. /\ pc[p] \notin Rest /\ Goto(p, "over") /\ calm' = FALSE /\ table' = table
        /\ backend' = backend
    BY <1>11 DEF BreakOff, Refused, Kill, Failure, Fetch, Stands, Rest
  <2> QED BY <1>c, <2>1
<1>12. CASE EditConfig
  BY <1>12 DEF EditConfig, CreditsInv, TableInv, RequestInv, CountedFor, build_cache_path
<1>13. CASE UNCHANGED announceVars
  BY <1>13 DEF announceVars, CreditsInv, TableInv, RequestInv, CountedFor, build_cache_path
<1> QED
  BY <1>1, <1>2, <1>3, <1>4, <1>5, <1>6, <1>7, <1>8, <1>9, <1>10, <1>11, <1>12, <1>13
  DEF AnnounceNext, Step

\* Nothing has been paid for.
LEMMA CreditsInit == AnnounceInit => CreditsInv
<1> SUFFICES ASSUME AnnounceInit PROVE CreditsInv OBVIOUS
<1>1. /\ \A p \in Procs : pc[p] = "new"
      /\ DOMAIN hits = {} /\ DOMAIN paid = {} /\ DOMAIN table = Procs /\ DOMAIN backend = Procs
  BY DEF AnnounceInit
<1>2. TableInv(hits) BY <1>1 DEF TableInv, Count
<1>3. \A p \in Procs : RequestInv(p) BY <1>1 DEF RequestInv
<1> QED BY <1>1, <1>2, <1>3 DEF CreditsInv

\* Without an overlap or a failure no speech is paid for more than twice by calls
\* that use the cache: each request was counted before it was sent, and a speech
\* counted twice is in the cache, whatever the calls, the configurations and the
\* changes of the backend between them.
THEOREM CreditsAreSaved == AnnounceSpec => []CreditsSaved
<1> DEFINE Inv == CacheInv /\ CreditsInv
<1>1. AnnounceInit => Inv BY CacheInit, CreditsInit
<1>2. Inv /\ [AnnounceNext]_announceVars => Inv' BY CacheStep, CreditsStep
<1>3. Inv => CreditsSaved
  <2> SUFFICES ASSUME Inv, calm, NEW k \in DOMAIN paid PROVE paid[k] <= 2
    BY DEF CreditsSaved
  <2>1. \E t : TableInv(t)
    <3>1. CASE \A p \in Procs : pc[p] # "save_write" BY <3>1 DEF CreditsInv
    <3>2. ASSUME NEW p \in Procs, pc[p] = "save_write" PROVE TableInv(table[p])
      BY <3>2 DEF CreditsInv, RequestInv
    <3> QED BY <3>1, <3>2
  <2>2. PICK t : TableInv(t) BY <2>1
  <2> QED BY <2>2 DEF TableInv, Count
<1> QED BY <1>1, <1>2, <1>3, PTL DEF AnnounceSpec

=============================================================================
