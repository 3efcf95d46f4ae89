------------------------------ MODULE Announce ------------------------------
(***************************************************************************)
(* announce: how a call and the configuration become the speech that is     *)
(* asked for, and how the speech is cached.  Processes share the cache      *)
(* files, the table of hits and the configuration without a lock; fs::write *)
(* empties a file before it writes it.                                      *)
(*                                                                         *)
(* A speech is what compute_hash hashes; the audio that a server makes of   *)
(* it has its name.  Speeds are in hundredths.  When RECORDING.lock exists, *)
(* and what becomes of the queue, is in VoiceRelay.                         *)
(***************************************************************************)
EXTENDS Naturals, Sequences

CONSTANTS
  MaxAtOnce,      \* bound: processes at a time
  MaxBegun,       \* bound: processes begun
  Announcements,  \* the arguments a process may have
  ConfigFiles,    \* what announce.toml may hold
  Locks,          \* Locks[w]: VOICE.lock of workspace w, as settings
  Lookups,        \* Lookups[l]: the table of language l
  sanitize_filename(_), hash_short(_),
  Sliceable(_),   \* the file name of the text can be cut at byte 48
  NoArg, BadToml, Silence,
  MaxTroubles     \* bound: processes that overlap, fail or are killed, and
                  \* edits of announce.toml

-----------------------------------------------------------------------------
(* announce_core *)

NoSettings == [voice |-> NoArg, model |-> NoArg, speed |-> NoArg, language_code |-> NoArg]

DefaultConfig == [backend |-> "kokoro", voices |-> <<>>, default |-> NoSettings, profile |-> <<>>]

load_config(f) == IF f = BadToml THEN DefaultConfig ELSE f

FirstOf(options) == Head(SelectSeq(options, LAMBDA o : o # NoArg))

Clamp(s) == IF s < 70 THEN 70 ELSE IF s > 120 THEN 120 ELSE s

\* CLI > VOICE.lock > profile > default, and for the speed the voice's own.
resolve_settings(c, f) ==
  LET config == load_config(f)
      lock == IF c.source \in DOMAIN Locks THEN Locks[c.source] ELSE NoSettings
      profile == IF c.profile \in DOMAIN config.profile THEN config.profile[c.profile]
                 ELSE NoSettings
      default == config.default
      voice == FirstOf(<<c.voice, lock.voice, profile.voice, default.voice, "alloy">>)
      def == IF voice \in DOMAIN config.voices THEN config.voices[voice]
             ELSE [id |-> voice, speed |-> NoArg]
  IN  [text |-> c.text,
       voice_id |-> def.id,
       model |-> FirstOf(<<profile.model, default.model, "eleven_multilingual_v2">>),
       speed |-> Clamp(FirstOf(<<c.speed, lock.speed, profile.speed, def.speed,
                                 default.speed, 100>>)),
       lang |-> FirstOf(<<c.language, c.lookup, c.translate, lock.language_code,
                          profile.language_code, default.language_code, "en">>)]

apply_lookup(c, s) ==
  LET table == IF c.lookup \in DOMAIN Lookups THEN Lookups[c.lookup] ELSE <<>>
  IN  IF s.text \in DOMAIN table
      THEN [s EXCEPT !.text = table[s.text], !.lang = c.lookup] ELSE s

Speech(c, f) == apply_lookup(c, resolve_settings(c, f))

\* Mutant: the speed is not hashed.
HashWithoutSpeed(k) == <<k.text, k.voice_id, k.model, k.lang>>

compute_hash(k) == <<k.text, k.voice_id, k.speed, k.model, k.lang>>

build_cache_path(k) ==
  <<k.voice_id, k.lang, sanitize_filename(k.text), hash_short(compute_hash(k))>>

\* Mutant: the speed is not kept for the replay.
ArgvWithoutSpeed(c) == [c EXCEPT !.speed = NoArg, !.translate = NoArg, !.quiet = FALSE]

\* The arguments that queue_for_later keeps.
QueuedArgs(c) == [c EXCEPT !.translate = NoArg, !.quiet = FALSE]

Field(f) == {c[f] : c \in Announcements}

ASSUME AnnouncementsAssumption ==
  Announcements \subseteq
    [text : Field("text"), profile : Field("profile"), voice : Field("voice"),
     speed : Field("speed"), language : Field("language"), lookup : Field("lookup"),
     translate : Field("translate"), source : Field("source"),
     critical : BOOLEAN, no_cache : BOOLEAN, quiet : BOOLEAN]

\* Every speech that may be asked for.
Speeches == {Speech(c, f) : c \in Announcements \cup {QueuedArgs(d) : d \in Announcements},
                            f \in ConfigFiles}

\* The 16 bits of the hash in a file name tell apart what else would share it.
ASSUME HashAssumption ==
  \A k, l \in Speeches :
    /\ k.voice_id = l.voice_id /\ k.lang = l.lang
    /\ sanitize_filename(k.text) = sanitize_filename(l.text)
    /\ hash_short(<<k.text, k.voice_id, k.speed, k.model, k.lang>>)
         = hash_short(<<l.text, l.voice_id, l.speed, l.model, l.lang>>)
    => k = l
ASSUME SilenceAssumption == NoArg # Silence /\ {NoArg, Silence} \cap Speeches = {}

-----------------------------------------------------------------------------

VARIABLES
  settings,         \* announce.toml
  cache,            \* the audio files, by path
  hits,             \* hits.toml
  pc, args,         \* of each process
  asked,            \* history: its call before it was queued, if it was
  wanted,           \* history: the speech that call asks for
  speech, backend, keyed,  \* what it resolved, and the key it has
  table,            \* the hits it is about to save
  heard,            \* what is played for it
  paid,             \* requests that ElevenLabs answered and the cache was for
  calm,             \* history: no overlap, no failure, no kill
  begun, troubles

Procs == 1..MaxAtOnce

shared == <<settings, cache, hits>>
own == <<args, asked, wanted, speech, backend, keyed, table>>
announceVars == <<shared, pc, own, heard, paid, calm, begun, troubles>>

\* A table with one more entry.
Put(t, k, v) == [x \in DOMAIN t \cup {k} |-> IF x = k THEN v ELSE t[x]]
Count(t, k) == IF k \in DOMAIN t THEN t[k] ELSE 0

AnnounceInit ==
  /\ settings \in ConfigFiles /\ cache = <<>> /\ hits = <<>>
  /\ pc = [p \in Procs |-> "new"]
  /\ args = [p \in Procs |-> NoArg] /\ asked = args /\ wanted = args
  /\ speech = args /\ backend = args /\ table = args /\ heard = args
  /\ keyed = [p \in Procs |-> FALSE]
  /\ paid = <<>> /\ calm = TRUE
  /\ begun = 0 /\ troubles = 0

Rest == {"new", "queued", "over"}
Stands(p, l) == pc[p] = l
Goto(p, l) == pc' = [pc EXCEPT ![p] = l]
History == <<heard, paid, calm, begun, troubles>>
Crowded(p) == \E q \in Procs \ {p} : pc[q] \notin Rest

Failure == troubles < MaxTroubles /\ troubles' = troubles + 1 /\ calm' = FALSE

\* A process that runs beside another is trouble too.
Enter(p) == IF Crowded(p) THEN Failure ELSE UNCHANGED <<calm, troubles>>

\* SILENT.lock ends a call, RECORDING.lock queues it unless it is critical.
Open(p) ==
  /\ Stands(p, "new") /\ \A q \in 1..(p - 1) : ~Stands(q, "new")
  /\ begun < MaxBegun /\ begun' = begun + 1 /\ Enter(p)
  /\ \E c \in Announcements :
       /\ args' = [args EXCEPT ![p] = c] /\ asked' = [asked EXCEPT ![p] = c]
       /\ \E l \in {"over", "resolve"} \cup (IF c.critical THEN {} ELSE {"queued"}) : Goto(p, l)
  /\ UNCHANGED <<shared, wanted, speech, backend, keyed, table, heard, paid>>

\* relay_mic_to_voice calls announce again with what is in the queue.
Replay(p) ==
  /\ Stands(p, "queued") /\ Enter(p)
  /\ args' = [args EXCEPT ![p] = QueuedArgs(@)]
  /\ Goto(p, "resolve")
  /\ UNCHANGED <<shared, asked, wanted, speech, backend, keyed, table, heard, paid, begun>>

\* resolve_from_args: the configuration, the lock of the workspace and, for
\* ElevenLabs, the key (without one it fails: Kill).  A dry run ends here.
Resolve(p) ==
  /\ Stands(p, "resolve")
  /\ speech' = [speech EXCEPT ![p] = Speech(args[p], settings)]
  /\ wanted' = [wanted EXCEPT ![p] = Speech(asked[p], settings)]
  /\ keyed' = [keyed EXCEPT ![p] = load_config(settings).backend = "elevenlabs"]
  /\ Goto(p, IF args[p].quiet THEN "over" ELSE "look")
  /\ UNCHANGED <<shared, args, asked, backend, table, History>>

\* Mutant: the cache is not consulted.
LookNowhere(p) ==
  /\ Stands(p, "look")
  /\ LET b == load_config(settings).backend IN
     /\ backend' = [backend EXCEPT ![p] = b]
     /\ Goto(p, IF b = "kokoro" THEN "download" ELSE IF args[p].no_cache THEN "stream" ELSE "hits")
  /\ UNCHANGED <<shared, args, asked, wanted, speech, keyed, table, History>>

\* synthesize_and_play reads the configuration again, for the backend.  A name
\* that cannot be cut panics.
Look(p) ==
  /\ Stands(p, "look")
  /\ LET b == load_config(settings).backend IN
     /\ backend' = [backend EXCEPT ![p] = b]
     /\ Goto(p, IF ~Sliceable(speech[p].text) THEN "over"
                ELSE IF ~args[p].no_cache /\ build_cache_path(speech[p]) \in DOMAIN cache
                     THEN "play"
                ELSE IF b = "kokoro" THEN "download"
                ELSE IF args[p].no_cache THEN "stream" ELSE "hits")
  /\ UNCHANGED <<shared, args, asked, wanted, speech, keyed, table, History>>

\* "stream first hit, cache on second (save credits)".  A hash that has two
\* hits and no file is streamed, and not counted.
LoadHits(p) ==
  /\ Stands(p, "hits")
  /\ LET hash == compute_hash(speech[p]) n == Count(hits, hash) IN
     /\ table' = [table EXCEPT ![p] = IF n < 2 THEN Put(hits, hash, n + 1) ELSE @]
     /\ Goto(p, IF n < 2 THEN "save" ELSE "stream")
  /\ UNCHANGED <<shared, args, asked, wanted, speech, backend, keyed, History>>

SaveOpen(p) ==
  /\ Stands(p, "save") /\ Goto(p, "save_write")
  /\ hits' = <<>>
  /\ UNCHANGED <<settings, cache, own, History>>

SaveWrite(p) ==
  /\ Stands(p, "save_write")
  /\ hits' = table[p]
  /\ Goto(p, IF Count(table[p], compute_hash(speech[p])) = 1 THEN "stream" ELSE "download")
  /\ UNCHANGED <<settings, cache, own, History>>

\* The server answers with all of the audio, or its answer breaks off and is
\* taken for an empty one, or it refuses.
Fetch(p, l) ==
  /\ Stands(p, l)
  /\ backend[p] = "elevenlabs" => keyed[p]
  /\ paid' = IF backend[p] = "elevenlabs" /\ ~args[p].no_cache
             THEN Put(paid, speech[p], Count(paid, speech[p]) + 1) ELSE paid

\* The audio is played from a file that has the name of the process.
Stream(p) ==
  /\ Fetch(p, "stream") /\ Goto(p, "over")
  /\ heard' = [heard EXCEPT ![p] = speech[p]]
  /\ UNCHANGED <<shared, own, calm, troubles, begun>>

Download(p) ==
  /\ Fetch(p, "download") /\ Goto(p, "cache_open")
  /\ UNCHANGED <<shared, own, heard, calm, troubles, begun>>

CacheOpen(p) ==
  /\ Stands(p, "cache_open") /\ Goto(p, "cache_write")
  /\ cache' = Put(cache, build_cache_path(speech[p]), Silence)
  /\ UNCHANGED <<settings, hits, own, History>>

CacheWrite(p) ==
  /\ Stands(p, "cache_write") /\ Goto(p, "play")
  /\ cache' = Put(cache, build_cache_path(speech[p]), speech[p])
  /\ UNCHANGED <<settings, hits, own, History>>

\* The process that plays the file opens it later.
Play(p) ==
  /\ Stands(p, "play") /\ Goto(p, "over")
  /\ heard' = [heard EXCEPT ![p] = cache[build_cache_path(speech[p])]]
  /\ UNCHANGED <<shared, own, paid, calm, troubles, begun>>

\* An answer that breaks off is cached, or played, as nothing.
BreakOff(p) ==
  /\ Failure
  /\ \/ Fetch(p, "stream") /\ heard' = [heard EXCEPT ![p] = Silence] /\ UNCHANGED cache
     \/ /\ Fetch(p, "download")
        /\ cache' = Put(cache, build_cache_path(speech[p]), Silence)
        /\ heard' = [heard EXCEPT ![p] = Silence]
  /\ Goto(p, "over")
  /\ UNCHANGED <<settings, hits, own, begun>>

\* A request without a key, or one the server refuses, is an error.
Refused(p) ==
  /\ pc[p] \in {"stream", "download"} /\ Goto(p, "over")
  /\ \/ Failure
     \/ backend[p] = "elevenlabs" /\ ~keyed[p] /\ calm' = FALSE /\ UNCHANGED troubles
  /\ UNCHANGED <<shared, own, heard, paid, begun>>

Kill(p) ==
  /\ pc[p] \notin Rest /\ Goto(p, "over") /\ Failure
  /\ UNCHANGED <<shared, own, heard, paid, begun>>

\* The process is gone.
Exit(p) ==
  /\ Stands(p, "over") /\ Goto(p, "new")
  /\ args' = [args EXCEPT ![p] = NoArg] /\ asked' = [asked EXCEPT ![p] = NoArg]
  /\ wanted' = [wanted EXCEPT ![p] = NoArg] /\ speech' = [speech EXCEPT ![p] = NoArg]
  /\ backend' = [backend EXCEPT ![p] = NoArg] /\ keyed' = [keyed EXCEPT ![p] = FALSE]
  /\ table' = [table EXCEPT ![p] = NoArg] /\ heard' = [heard EXCEPT ![p] = NoArg]
  /\ UNCHANGED <<shared, paid, calm, troubles, begun>>

EditConfig ==
  /\ troubles < MaxTroubles /\ troubles' = troubles + 1
  /\ settings' \in ConfigFiles
  /\ UNCHANGED <<cache, hits, pc, own, heard, paid, calm, begun>>

Step(p) ==
  \/ Open(p) \/ Replay(p) \/ Resolve(p) \/ Look(p) \/ LoadHits(p)
  \/ SaveOpen(p) \/ SaveWrite(p) \/ Stream(p) \/ Download(p)
  \/ CacheOpen(p) \/ CacheWrite(p) \/ Play(p)
  \/ BreakOff(p) \/ Refused(p) \/ Kill(p) \/ Exit(p)

AnnounceNext == EditConfig \/ \E p \in Procs : Step(p)

AnnounceSpec == AnnounceInit /\ [][AnnounceNext]_announceVars

-----------------------------------------------------------------------------
(* Properties *)

\* The call is as it was made: the queue forgets two arguments.
Kept(p) == args[p] = asked[p] \/ (asked[p].translate = NoArg /\ ~asked[p].quiet)

\* Whatever is heard for a call, from the server, from a cached file or after
\* the queue, is the speech that the call and the configuration ask for, never
\* that of another call; and it is heard unless processes overlapped or failed.
HeardAsAsked ==
  \A p \in Procs : heard[p] # NoArg /\ Kept(p) =>
    heard[p] = wanted[p] \/ (heard[p] = Silence /\ ~calm)

\* Why: what a process resolved is what was asked of it, a file is empty or
\* holds the speech its name stands for, and without an overlap or a failure
\* only one process is at work and no file stays empty.
Ready == {"look", "hits", "save", "save_write", "stream", "download", "cache_open",
          "cache_write", "play"}

CacheTypes ==
  /\ settings \in ConfigFiles /\ calm \in BOOLEAN
  /\ pc \in [Procs -> Rest \cup {"resolve"} \cup Ready]
  /\ args \in [Procs -> Announcements \cup {QueuedArgs(c) : c \in Announcements} \cup {NoArg}]
  /\ asked \in [Procs -> Announcements \cup {NoArg}]
  /\ speech \in [Procs -> Speeches \cup {NoArg}]
  /\ wanted \in [Procs -> Speeches \cup {NoArg}]
  /\ heard \in [Procs -> Speeches \cup {NoArg, Silence}]

\* The parts of the invariant that are about one process, and about the files.
ProcessInv(p) ==
  /\ pc[p] # "new" => /\ asked[p] \in Announcements
                     /\ args[p] \in {asked[p], QueuedArgs(asked[p])}
  /\ pc[p] \in Ready => speech[p] \in Speeches /\ (Kept(p) => speech[p] = wanted[p])
  /\ heard[p] # NoArg => pc[p] = "over"
  /\ pc[p] = "play" => build_cache_path(speech[p]) \in DOMAIN cache

FilesInv ==
  /\ \A x \in DOMAIN cache :
       \/ cache[x] = Silence
       \/ cache[x] \in Speeches /\ build_cache_path(cache[x]) = x
  /\ calm => \A p, q \in Procs : {pc[p], pc[q]} \cap Rest = {} => p = q
  /\ calm => \A x \in DOMAIN cache : cache[x] = Silence =>
                \E p \in Procs : pc[p] = "cache_write" /\ build_cache_path(speech[p]) = x

CacheInv == CacheTypes /\ (\A p \in Procs : ProcessInv(p)) /\ FilesInv /\ HeardAsAsked

\* "stream first hit, cache on second (save credits)": no speech is paid for
\* more than twice, except in calls that do without the cache, unless processes
\* overlapped or failed.
CreditsSaved == calm => \A k \in DOMAIN paid : paid[k] <= 2

=============================================================================
