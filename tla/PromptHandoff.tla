--------------------------- MODULE PromptHandoff ---------------------------
(***************************************************************************)
(* The way of an assembled system prompt into its session and across       *)
(* /clear: cc_launch leaves it in files, the SessionStart hook orient       *)
(* moves it to the directory of the session, the SessionStart hook inject   *)
(* gives it to the session again after a compaction, a resume or a /clear,  *)
(* and the SessionEnd hook hands it over when /clear ends the session.      *)
(*                                                                         *)
(* Terminals run cc_launch, or claude without it, at the same time and in   *)
(* the same workspaces; the hooks of one event run in no given order.  A    *)
(* launch may be given up at any point, a session may die at any moment,    *)
(* and the calls whose errors the code ignores may fail.  A prompt is the   *)
(* persona it is assembled for.                                             *)
(***************************************************************************)
EXTENDS Naturals

CONSTANTS
  Terminals, Personas, Workspaces,
  None,           \* no file, no prompt
  Part,           \* a prompt that could not be written to its end
  MaxPicks,       \* bound: launches picked
  MaxSessions,    \* bound: session ids
  MaxMishaps,     \* bound: launches given up, calls that fail, sessions that die or
                  \* change their directory
  Scopes          \* bound: the workspaces of a behaviour, and how many launches,
                  \* sessions and mishaps it has

ASSUME NoneAssumption ==
  None \notin Personas \cup Workspaces \cup {Part} /\ Part \notin Personas
ASSUME BoundsAssumption == {MaxPicks, MaxSessions, MaxMishaps} \subseteq Nat
ASSUME ScopesAssumption ==
  Scopes \subseteq [workspaces : SUBSET Workspaces, picks : 0..MaxPicks,
                    sessions : 0..MaxSessions, mishaps : 0..MaxMishaps]

VARIABLES
  scope,           \* the scope of this behaviour
  tmp_prompt,      \* cc_launch_prompt.xml in the temporary directory
  spec,            \* cc_launch_spec.toml, beside it
  ws_prompt,       \* .SYSTEM_PROMPT.xml of a workspace
  slot,            \* CLEAR_HANDOFF.xml of a workspace, and is it fresh
  session_prompt,  \* SYSTEM_PROMPT.xml of <<workspace, session id>>
  picks, sessions, mishaps, \* so far
  pc, plan,        \* of a terminal: where it stands, what it is to launch
  persona, system, \* of its session: the persona whose permissions it has,
                   \* the prompt it was started with
  dir, cwd, sid,   \* its project directory, current directory and id
  source,          \* the last SessionStart event
  orient, inject,  \* the two hooks of that event
  injected,        \* what the session was given by it
  \* For the properties:
  spoilt,          \* workspaces in which something went wrong: see Spoil
  mixed,           \* workspaces in which two terminals came between each other
  left,            \* workspaces with a fresh slot of a session that is dead
  strayed,         \* terminals whose session has changed its directory
  launches,        \* sessions started for a pick
  twice,           \* picks whose spec was read twice: see ReadSpec, DeleteSpec
  overtaken        \* terminals whose session was not that of the last pick

files == <<tmp_prompt, spec, ws_prompt, slot, session_prompt>>
identity == <<persona, system, dir, cwd, sid, source>>
hooks == <<orient, inject, injected>>
marks == <<mishaps, spoilt, left, strayed, launches, twice, overtaken>>
vars == <<scope, files, picks, sessions, pc, plan, identity, hooks, marks, mixed>>

Prompt == Personas \cup {None, Part}
Ids == 0..MaxSessions
Picked == [id : 1..MaxPicks, persona : Personas, ws : Workspaces]
NoPlan == [id |-> 0, persona |-> None, ws |-> None]
Plan == Picked \cup {NoPlan}
NoSlot == [prompt |-> None, fresh |-> FALSE]

Init ==
  /\ scope \in Scopes
  /\ tmp_prompt = None /\ spec = NoPlan
  /\ ws_prompt = [w \in Workspaces |-> None]
  /\ slot = [w \in Workspaces |-> NoSlot]
  /\ session_prompt = [k \in Workspaces \X Ids |-> None]
  /\ picks = 0 /\ sessions = 0 /\ mishaps = 0
  /\ pc = [t \in Terminals |-> "shell"]
  /\ plan = [t \in Terminals |-> NoPlan]
  /\ persona = [t \in Terminals |-> None]
  /\ system = [t \in Terminals |-> None]
  /\ dir = [t \in Terminals |-> None] /\ cwd = dir
  /\ sid = [t \in Terminals |-> 0]
  /\ source = [t \in Terminals |-> "none"]
  /\ orient = [t \in Terminals |-> "off"]
  /\ inject = [t \in Terminals |-> "off"]
  /\ injected = [t \in Terminals |-> None]
  /\ spoilt = {} /\ mixed = {} /\ left = {} /\ strayed = {} /\ twice = {} /\ overtaken = {}
  /\ launches = [i \in 1..MaxPicks |-> 0]

Goto(t, l) == pc' = [pc EXCEPT ![t] = l]

Running(t) == pc[t] = "session"
Settled(t) == Running(t) /\ orient[t] = "off" /\ inject[t] = "off"

\* A terminal with a prompt on its way to w, and one whose session a /clear renews.
LaunchingIn(t, w) ==
  \/ pc[t] \in {"copy", "spec", "go", "consume", "exec"} /\ plan[t].ws = w
  \/ Running(t) /\ source[t] = "startup" /\ orient[t] = "move" /\ dir[t] = w

Clearing(t) ==
  \/ pc[t] \in {"end", "renew"}
  \/ Running(t) /\ source[t] = "clear" /\ ~Settled(t)

\* Two terminals come between each other in w: an event whose hook has not looked
\* for the prompt of a launch yet falls into a launch, or two launches or two
\* /clear overlap.
Overlap(w) ==
  \E t, u \in Terminals :
    /\ t # u
    /\ \/ LaunchingIn(t, w) /\ LaunchingIn(u, w)
       \/ LaunchingIn(t, w) /\ Running(u) /\ orient[u] = "move" /\ dir[u] = w
       \/ Clearing(t) /\ Clearing(u) /\ dir[t] = w /\ dir[u] = w

\* A workspace is spoilt when a launch in it is given up, a call in it fails, a
\* session dies before its prompt is moved, or a /clear begins while the slot of one
\* that has died is fresh.
Spoil(w) == spoilt' = spoilt \cup {w}
Mishap == mishaps < scope.mishaps /\ mishaps' = mishaps + 1
Fails(w) == Mishap /\ Spoil(w)
Well == UNCHANGED <<mishaps, spoilt>>

-----------------------------------------------------------------------------
(* cc_launch *)

\* write_prompt_file: the prompt in the temporary directory, where a write that
\* fails ends the launch ...
Pick(t, p, w) ==
  /\ pc[t] = "shell"
  /\ picks < scope.picks
  /\ picks' = picks + 1
  /\ \/ /\ tmp_prompt' = p
        /\ plan' = [plan EXCEPT ![t] = [id |-> picks', persona |-> p, ws |-> w]]
        /\ Goto(t, "copy")
        /\ UNCHANGED mishaps
     \/ tmp_prompt' = Part /\ Mishap /\ UNCHANGED <<pc, plan>>
  /\ UNCHANGED <<spec, ws_prompt, slot, session_prompt, sessions, identity, hooks,
                 spoilt, left, strayed, launches, twice, overtaken>>

\* What a write that fails leaves in a workspace.
Torn(w) == {ws_prompt, [ws_prompt EXCEPT ![w] = Part]}

\* ... and a copy of it in the workspace, whether it can be written or not.  A
\* direct launch goes on to exec.
CopyPrompt(t) ==
  /\ pc[t] = "copy"
  /\ \/ ws_prompt' = [ws_prompt EXCEPT ![plan[t].ws] = plan[t].persona] /\ Well
     \/ ws_prompt' \in Torn(plan[t].ws) /\ Fails(plan[t].ws)
  /\ Goto(t, "spec") \/ Goto(t, "exec")
  /\ UNCHANGED <<tmp_prompt, spec, slot, session_prompt, picks, sessions, plan,
                 identity, hooks, left, strayed, launches, twice, overtaken>>

WriteSpec(t) ==
  /\ pc[t] = "spec"
  /\ spec' = plan[t]
  /\ Goto(t, "go")
  /\ UNCHANGED <<tmp_prompt, ws_prompt, slot, session_prompt, picks, sessions,
                 plan, identity, hooks, marks>>

\* A launch that ends before its session: a write fails, a process is killed, the
\* user does not go on, the shell cannot change its directory, claude does not
\* start.  A spec that is not whole does not parse: it is none.
Abandon(t) ==
  /\ \/ pc[t] = "copy" /\ ws_prompt' \in Torn(plan[t].ws) /\ UNCHANGED spec
     \/ pc[t] = "spec" /\ spec' \in {spec, NoPlan} /\ UNCHANGED ws_prompt
     \/ pc[t] \in {"go", "consume", "exec"} /\ UNCHANGED <<spec, ws_prompt>>
  /\ IF plan[t] = NoPlan THEN Well ELSE Fails(plan[t].ws)
  /\ Goto(t, "shell")
  /\ plan' = [plan EXCEPT ![t] = NoPlan]
  /\ UNCHANGED <<tmp_prompt, slot, session_prompt, picks, sessions, identity, hooks,
                 left, strayed, launches, twice, overtaken>>

\* Quitting the picker discards the launch spec.
QuitPick(t) ==
  /\ pc[t] = "shell"
  /\ spec' = NoPlan
  /\ UNCHANGED <<tmp_prompt, ws_prompt, slot, session_prompt, picks, sessions,
                 pc, plan, identity, hooks, marks>>

\* `cc_launch --go` without a pick before it.
Go(t) ==
  /\ pc[t] = "shell"
  /\ Goto(t, "go")
  /\ UNCHANGED <<files, picks, sessions, plan, identity, hooks, marks>>

\* consume_launch_spec: read, then delete.  It need not be the spec this terminal
\* wrote, and may be one that another has read and not deleted yet.
ReadSpec(t) ==
  /\ pc[t] = "go"
  /\ Goto(t, IF spec = NoPlan THEN "shell" ELSE "consume")
  /\ plan' = [plan EXCEPT ![t] = spec]
  /\ IF plan[t] \in {NoPlan, spec} THEN UNCHANGED spoilt ELSE Spoil(plan[t].ws)
  /\ twice' = twice \cup {plan[u].id : u \in {u \in Terminals : pc[u] = "consume" /\ plan[u].id = spec.id}}
  /\ UNCHANGED <<files, picks, sessions, identity, hooks, mishaps, left,
                 strayed, launches, overtaken>>

\* Mutant: the spec is read and left where it is.
LeaveSpec(t) ==
  /\ pc[t] = "consume"
  /\ Goto(t, "exec")
  /\ UNCHANGED <<files, picks, sessions, plan, identity, hooks, marks>>

\* The deletion may fail: nothing looks at that.
DeleteSpec(t) ==
  /\ pc[t] = "consume"
  /\ \/ spec' = NoPlan /\ Well /\ UNCHANGED twice
     \/ UNCHANGED spec /\ Fails(plan[t].ws) /\ twice' = twice \cup {plan[t].id}
  /\ Goto(t, "exec")
  /\ UNCHANGED <<tmp_prompt, ws_prompt, slot, session_prompt, picks, sessions,
                 plan, identity, hooks, left, strayed, launches, overtaken>>

\* A session begins in w: both hooks of its SessionStart event are to run.
Event(t, s) ==
  /\ source' = [source EXCEPT ![t] = s]
  /\ orient' = [orient EXCEPT ![t] = "move"]
  /\ inject' = [inject EXCEPT ![t] = "read"]
  /\ injected' = [injected EXCEPT ![t] = None]

NewId(t) ==
  /\ sessions < scope.sessions
  /\ sessions' = sessions + 1
  /\ sid' = [sid EXCEPT ![t] = sessions']

Begin(t, w, p, prompt) ==
  /\ NewId(t)
  /\ dir' = [dir EXCEPT ![t] = w]
  /\ cwd' = [cwd EXCEPT ![t] = w]
  /\ persona' = [persona EXCEPT ![t] = p]
  /\ system' = [system EXCEPT ![t] = prompt]
  /\ Event(t, "startup")
  /\ Goto(t, "session")
  /\ plan' = [plan EXCEPT ![t] = NoPlan]

\* claude is given the permissions of the plan's persona and reads the prompt.
Exec(t) ==
  /\ pc[t] = "exec"
  /\ Begin(t, plan[t].ws, plan[t].persona, tmp_prompt)
  /\ launches' = [launches EXCEPT ![plan[t].id] = @ + 1]
  /\ overtaken' = IF plan[t].id = picks THEN overtaken ELSE overtaken \cup {t}
  /\ UNCHANGED <<files, picks, mishaps, spoilt, left, strayed, twice>>

\* claude started by hand.
Plain(t, w) ==
  /\ pc[t] = "shell"
  /\ Begin(t, w, None, None)
  /\ UNCHANGED <<files, picks, marks>>

-----------------------------------------------------------------------------
(* The session *)

\* A compaction, or the session resumed, which the hooks treat alike: the same id.
Again(t) ==
  /\ Settled(t)
  /\ Event(t, "compact")
  /\ UNCHANGED <<files, picks, sessions, pc, plan, persona, system, dir, cwd, sid, marks>>

Cd(t, w) ==
  /\ Settled(t)
  /\ cwd' = [cwd EXCEPT ![t] = w]
  /\ Mishap
  /\ strayed' = strayed \cup {t}
  /\ UNCHANGED <<files, picks, sessions, pc, plan, persona, system, dir, sid,
                 source, hooks, spoilt, left, launches, twice, overtaken>>

Clear(t) ==
  /\ Settled(t)
  /\ sessions < scope.sessions
  /\ Goto(t, "end")
  /\ IF dir[t] \in left THEN Spoil(dir[t]) ELSE UNCHANGED spoilt
  /\ UNCHANGED <<files, picks, sessions, plan, identity, hooks, mishaps, left, strayed,
                 launches, twice, overtaken>>

\* hook_session_end_handoff: nothing looks whether the copy succeeds.
Handoff(t) ==
  /\ pc[t] = "end"
  /\ LET prompt == session_prompt[cwd[t], sid[t]]
         Slot(p) == [slot EXCEPT ![cwd[t]] = [prompt |-> p, fresh |-> TRUE]]
     IN  \/ slot' = (IF prompt = None THEN slot ELSE Slot(prompt)) /\ Well
         \/ prompt # None /\ slot' \in {slot, Slot(Part)} /\ Fails(cwd[t])
  /\ Goto(t, "renew")
  /\ UNCHANGED <<tmp_prompt, spec, ws_prompt, session_prompt, picks, sessions,
                 plan, identity, hooks, left, strayed, launches, twice, overtaken>>

\* The new session of a /clear.
Renew(t) ==
  /\ pc[t] = "renew"
  /\ NewId(t)
  /\ Event(t, "clear")
  /\ Goto(t, "session")
  /\ UNCHANGED <<files, picks, plan, persona, system, dir, cwd, marks>>

\* With the process goes what it was.
Leave(t) ==
  LET Forget(f, value) == [f EXCEPT ![t] = value]
  IN  /\ Goto(t, "shell")
      /\ orient' = Forget(orient, "off") /\ inject' = Forget(inject, "off")
      /\ injected' = Forget(injected, None) /\ source' = Forget(source, "none")
      /\ persona' = Forget(persona, None) /\ system' = Forget(system, None)
      /\ dir' = Forget(dir, None) /\ cwd' = Forget(cwd, None) /\ sid' = Forget(sid, 0)
      /\ strayed' = strayed \ {t} /\ overtaken' = overtaken \ {t}
      /\ UNCHANGED <<files, picks, sessions, plan, launches, twice>>

Exit(t) == Settled(t) /\ Leave(t) /\ UNCHANGED <<mishaps, spoilt, left>>

\* The session dies with its hooks, or between the two events of a /clear.
Die(t) ==
  /\ pc[t] \in {"end", "renew"} \/ (Running(t) /\ ~Settled(t))
  /\ Leave(t)
  /\ Mishap
  /\ IF LaunchingIn(t, dir[t]) THEN Spoil(dir[t]) ELSE UNCHANGED spoilt
  /\ left' = IF Clearing(t) /\ slot[dir[t]].fresh THEN left \cup {dir[t]} ELSE left

\* FRESH_SECS pass.  A /clear takes less than a second.
Age(w) ==
  /\ slot[w].fresh
  /\ \A t \in Terminals : Clearing(t) => w \notin {dir[t], cwd[t]}
  /\ slot' = [slot EXCEPT ![w].fresh = FALSE]
  /\ left' = left \ {w}
  /\ UNCHANGED <<tmp_prompt, spec, ws_prompt, session_prompt, picks, sessions,
                 pc, plan, identity, hooks, mishaps, spoilt, strayed, launches, twice,
                 overtaken>>

-----------------------------------------------------------------------------
(* hook_session_start_orient: in the project directory *)

Own(t) == <<dir[t], sid[t]>>

OrientGoesOn(t, l) ==
  /\ orient' = [orient EXCEPT ![t] = l]
  /\ UNCHANGED <<tmp_prompt, spec, picks, sessions, pc, plan, identity, inject,
                 injected, left, strayed, launches, twice, overtaken>>

\* The prompt cc_launch left in the workspace, whatever the source.  Nothing looks
\* whether a rename succeeds.
Move(t) ==
  /\ orient[t] = "move"
  /\ \/ ws_prompt[dir[t]] = None /\ UNCHANGED <<ws_prompt, session_prompt>> /\ Well
     \/ /\ ws_prompt[dir[t]] # None
        /\ session_prompt' = [session_prompt EXCEPT ![Own(t)] = ws_prompt[dir[t]]]
        /\ ws_prompt' = [ws_prompt EXCEPT ![dir[t]] = None]
        /\ Well
     \/ ws_prompt[dir[t]] # None /\ UNCHANGED <<ws_prompt, session_prompt>> /\ Fails(dir[t])
  /\ OrientGoesOn(t, "take")
  /\ UNCHANGED slot

Taking(t) == source[t] = "clear" /\ session_prompt[Own(t)] = None /\ slot[dir[t]].fresh

\* Mutant: the slot is copied, not moved.
TakeLeavesSlot(t) ==
  /\ orient[t] = "take"
  /\ session_prompt' = IF Taking(t) THEN [session_prompt EXCEPT ![Own(t)] = slot[dir[t]].prompt]
                       ELSE session_prompt
  /\ OrientGoesOn(t, "off")
  /\ UNCHANGED <<ws_prompt, slot, mishaps, spoilt>>

\* The prompt of the session a /clear ended.
Take(t) ==
  /\ orient[t] = "take"
  /\ \/ ~Taking(t) /\ UNCHANGED <<session_prompt, slot>> /\ Well
     \/ /\ Taking(t)
        /\ session_prompt' = [session_prompt EXCEPT ![Own(t)] = slot[dir[t]].prompt]
        /\ slot' = [slot EXCEPT ![dir[t]] = NoSlot]
        /\ Well
     \/ Taking(t) /\ UNCHANGED <<session_prompt, slot>> /\ Fails(dir[t])
  /\ OrientGoesOn(t, "off")
  /\ UNCHANGED ws_prompt

-----------------------------------------------------------------------------
(* hook_session_start_inject: in the current directory *)

KeptPrompt(t) == session_prompt[cwd[t], sid[t]]

\* A file that is not whole may be empty, and an empty one is none.
Text(prompt) == IF prompt = Part THEN {Part, None} ELSE {prompt}

Step(t, l) ==
  /\ inject' = [inject EXCEPT ![t] = l]
  /\ UNCHANGED <<files, picks, sessions, pc, plan, identity, orient, marks>>

Give(t, prompt) == injected' = [injected EXCEPT ![t] = prompt] /\ Step(t, "off")
GoOn(t, l) == UNCHANGED injected /\ Step(t, l)

ReadPrompt(t) ==
  /\ inject[t] = "read"
  /\ \/ source[t] = "startup" /\ Give(t, None)
     \/ /\ source[t] # "startup"
        /\ \E prompt \in Text(KeptPrompt(t)) :
             IF prompt # None \/ source[t] # "clear" THEN Give(t, prompt)
             ELSE GoOn(t, "fresh")

CheckSlot(t) ==
  /\ inject[t] = "fresh"
  /\ GoOn(t, IF slot[cwd[t]].fresh THEN "slot" ELSE "again")

\* Mutant: a slot that is gone by now is not followed to the session.
ReadSlotOnly(t) ==
  /\ inject[t] = "slot"
  /\ \E prompt \in Text(slot[cwd[t]].prompt) : Give(t, prompt)

ReadSlot(t) ==
  /\ inject[t] = "slot"
  /\ \E prompt \in Text(slot[cwd[t]].prompt) :
       IF prompt # None THEN Give(t, prompt) ELSE GoOn(t, "again")

ReadAgain(t) ==
  /\ inject[t] = "again"
  /\ \E prompt \in Text(KeptPrompt(t)) : Give(t, prompt)

-----------------------------------------------------------------------------

Launch(t) ==
  \/ \E p \in Personas, w \in scope.workspaces : Pick(t, p, w)
  \/ CopyPrompt(t) \/ WriteSpec(t) \/ Abandon(t) \/ QuitPick(t) \/ Go(t)
  \/ ReadSpec(t) \/ DeleteSpec(t) \/ Exec(t)
  \/ \E w \in scope.workspaces : Plain(t, w)

Session(t) ==
  \/ Again(t) \/ \E w \in scope.workspaces : Cd(t, w)
  \/ Clear(t) \/ Handoff(t) \/ Renew(t) \/ Exit(t) \/ Die(t)

Hooks(t) ==
  \/ Move(t) \/ Take(t)
  \/ ReadPrompt(t) \/ CheckSlot(t) \/ ReadSlot(t) \/ ReadAgain(t)

Next ==
  /\ \/ \E t \in Terminals : Launch(t) \/ Session(t) \/ Hooks(t)
     \/ \E w \in scope.workspaces : Age(w)
  /\ mixed' = mixed \cup {w \in Workspaces : Overlap(w)'}
  /\ UNCHANGED scope

Spec == Init /\ [][Next]_vars

-----------------------------------------------------------------------------
(* Properties *)

FileTypes ==
  /\ tmp_prompt \in Prompt /\ spec \in Plan
  /\ ws_prompt \in [Workspaces -> Prompt]
  /\ slot \in [Workspaces -> [prompt : Prompt, fresh : BOOLEAN]]
  /\ session_prompt \in [Workspaces \X Ids -> Prompt]

LaunchTypes ==
  /\ picks \in 0..MaxPicks
  /\ pc \in [Terminals -> {"shell", "copy", "spec", "go", "consume", "exec",
                           "session", "end", "renew"}]
  /\ plan \in [Terminals -> Plan]
  /\ \A t \in Terminals :
       /\ pc[t] \in {"copy", "spec", "consume", "exec"} => plan[t] \in Picked
       /\ pc[t] \in {"shell", "session", "end", "renew"} => plan[t] = NoPlan

SessionTypes ==
  /\ scope \in Scopes /\ sessions \in Ids
  /\ persona \in [Terminals -> Personas \cup {None}] /\ system \in [Terminals -> Prompt]
  /\ dir \in [Terminals -> Workspaces \cup {None}] /\ cwd \in [Terminals -> Workspaces \cup {None}]
  /\ sid \in [Terminals -> Ids]

HookTypes ==
  /\ source \in [Terminals -> {"none", "startup", "compact", "clear"}]
  /\ orient \in [Terminals -> {"off", "move", "take"}]
  /\ inject \in [Terminals -> {"off", "read", "fresh", "slot", "again"}]
  /\ injected \in [Terminals -> Prompt]
  /\ \A t \in Terminals :
       /\ inject[t] \in {"fresh", "slot", "again"} => source[t] = "clear"
       /\ ~Running(t) => orient[t] = "off" /\ inject[t] = "off"
       /\ pc[t] \in {"session", "end", "renew"} => {dir[t], cwd[t]} \subseteq Workspaces

MarkTypes ==
  /\ mishaps \in 0..MaxMishaps
  /\ spoilt \subseteq Workspaces /\ mixed \subseteq Workspaces /\ left \subseteq Workspaces
  /\ strayed \subseteq Terminals /\ overtaken \subseteq Terminals
  /\ launches \in [1..MaxPicks -> Nat] /\ twice \subseteq 1..MaxPicks

TypeOK == FileTypes /\ LaunchTypes /\ SessionTypes /\ HookTypes /\ MarkTypes

\* The session of t has not changed its directory, and in its workspace nothing
\* went wrong and nobody came between another's launch or /clear.
Undisturbed(t) == dir[t] \notin spoilt \cup mixed /\ t \notin strayed

\* However launches and sessions overlap elsewhere, an undisturbed session is only
\* ever given the prompt of the persona it was started for: never one that another
\* launch or a session that was cleared or died left in its workspace.
InjectedIsOwn ==
  \A t \in Terminals : Undisturbed(t) => injected[t] \in {persona[t], None}

\* After a compaction, a resume or a /clear, an undisturbed session has its prompt
\* again, in whatever order the two hooks run, and its directory holds it for the
\* next one.
Reinjected ==
  \A t \in Terminals : Settled(t) /\ Undisturbed(t) =>
    /\ session_prompt[Own(t)] = persona[t]
    /\ source[t] # "startup" => injected[t] = persona[t]

\* "A stale spec must never launch a second, unintended session": also a pick that
\* was given up, and found by a later --go, starts one session at most, unless its
\* spec could not be deleted or two terminals read it side by side.  A session that
\* no other pick came before has the permissions of the persona its prompt is for.
SpecLaunchesOnce ==
  /\ \A i \in 1..MaxPicks : launches[i] <= 1 \/ i \in twice
  /\ \A t \in Terminals : Running(t) /\ t \notin overtaken => persona[t] = system[t]

=============================================================================
