------------------------ MODULE PromptHandoff_proofs ------------------------
(* Proofs about PromptHandoff, for any terminals, personas and workspaces,  *)
(* any number of launches and sessions and any number of mishaps.           *)
EXTENDS PromptHandoff, TLAPS

-----------------------------------------------------------------------------
(* Frames *)

\* A step of a terminal, or the passing of time; and what has come between.
LEMMA Steps ==
  ASSUME [Next]_vars
  PROVE  /\ scope' = scope
         /\ \/ \E t \in Terminals : Launch(t) \/ Session(t) \/ Hooks(t)
            \/ \E w \in scope.workspaces : Age(w)
            \/ UNCHANGED vars
         /\ mixed' = mixed \cup {w \in Workspaces : Overlap(w)'} \/ UNCHANGED vars
  BY DEF Next, vars

\* What the scope of a behaviour lets it use.
LEMMA ScopeTypes ==
  ASSUME scope \in Scopes
  PROVE  /\ scope.workspaces \subseteq Workspaces
         /\ scope.sessions \in 0..MaxSessions /\ scope.picks \in 0..MaxPicks
         /\ scope.mishaps \in 0..MaxMishaps
  BY ScopesAssumption

\* The steps of the hook inject change nothing but what it reads and gives.
InjectStep(t) == ReadPrompt(t) \/ CheckSlot(t) \/ ReadSlot(t) \/ ReadAgain(t)
LEMMA InjectFrame ==
  ASSUME NEW t \in Terminals, InjectStep(t)
  PROVE  /\ UNCHANGED <<files, picks, sessions, pc, plan, identity, orient, marks>>
         /\ inject[t] # "off"
         /\ \E l \in {"off", "fresh", "slot", "again"} : inject' = [inject EXCEPT ![t] = l]
         /\ \/ UNCHANGED injected
            \/ \E prompt \in {None, Part, KeptPrompt(t), slot[cwd[t]].prompt} :
                 injected' = [injected EXCEPT ![t] = prompt]
<1>1. \A prompt : Text(prompt) \subseteq {prompt, None, Part}
  BY DEF Text
<1>2. CASE ReadPrompt(t)
  BY <1>1, <1>2 DEF ReadPrompt, Give, GoOn, Step
<1>3. CASE CheckSlot(t)
  BY <1>3 DEF CheckSlot, Give, GoOn, Step
<1>4. CASE ReadSlot(t)
  BY <1>1, <1>4 DEF ReadSlot, Give, GoOn, Step
<1>5. CASE ReadAgain(t)
  BY <1>1, <1>5 DEF ReadAgain, Give, GoOn, Step
<1>6. QED
  BY <1>2, <1>3, <1>4, <1>5 DEF InjectStep

\* The hooks change neither where a terminal stands nor who its session is.
LEMMA HooksFrame ==
  ASSUME NEW t \in Terminals, Hooks(t)
  PROVE  UNCHANGED <<tmp_prompt, spec, picks, sessions, pc, plan, identity, left, strayed,
                     launches, twice, overtaken>>
<1>1. CASE Move(t) \/ Take(t)
  BY <1>1 DEF Move, Take, OrientGoesOn
<1>2. CASE InjectStep(t)
  BY <1>2, InjectFrame DEF files, marks
<1>3. QED
  BY <1>1, <1>2 DEF Hooks, InjectStep

\* The steps of a launch that are taken before there is a session.
Preparing(t) ==
  \/ \E p \in Personas, w \in scope.workspaces : Pick(t, p, w)
  \/ CopyPrompt(t) \/ WriteSpec(t) \/ Abandon(t) \/ QuitPick(t) \/ Go(t)
  \/ ReadSpec(t) \/ DeleteSpec(t)
LEMMA PreparingFrame ==
  ASSUME NEW t \in Terminals, Preparing(t)
  PROVE  /\ UNCHANGED <<slot, session_prompt, sessions, identity, hooks, left, strayed,
                        launches, overtaken>>
         /\ pc[t] \in {"shell", "copy", "spec", "go", "consume", "exec"}
         /\ \E l \in {"shell", "copy", "spec", "go", "consume", "exec"} : pc' = [pc EXCEPT ![t] = l]
                                                                        \/ pc' = pc
         /\ \/ plan' = plan
            \/ \E q : plan' = [plan EXCEPT ![t] = q]
<1>1. CASE \E p \in Personas, w \in scope.workspaces : Pick(t, p, w)
  BY <1>1 DEF Pick, Goto
<1>2. CASE CopyPrompt(t) \/ WriteSpec(t) \/ QuitPick(t) \/ Go(t) \/ DeleteSpec(t)
  BY <1>2 DEF CopyPrompt, WriteSpec, QuitPick, Go, DeleteSpec, Goto, files, marks
<1>3. CASE Abandon(t)
  BY <1>3 DEF Abandon, Goto
<1>4. CASE ReadSpec(t)
  BY <1>4 DEF ReadSpec, Goto, files
<1>5. QED
  BY <1>1, <1>2, <1>3, <1>4 DEF Preparing

\* The prompt of a pick.
LEMMA PickedTypes ==
  ASSUME NEW q \in Plan, q \in Picked \/ q # NoPlan
  PROVE  /\ q \in Picked /\ q.persona \in Personas /\ q.ws \in Workspaces /\ q.id \in 1..MaxPicks
         /\ q.persona \in Prompt /\ q.persona # None /\ q # NoPlan /\ q.id # 0
<1>1. q \in Picked
  BY DEF Plan
<1>2. q.persona \in Personas /\ q.ws \in Workspaces /\ q.id \in 1..MaxPicks
  BY <1>1 DEF Picked
<1>3. q # NoPlan
  BY <1>2 DEF NoPlan
<1>4. QED
  BY <1>1, <1>2, <1>3, NoneAssumption DEF Prompt

-----------------------------------------------------------------------------
(* Types *)

LEMMA InitTypes == Init => TypeOK
<1>1. SUFFICES ASSUME Init PROVE TypeOK
  OBVIOUS
<1>2. scope \in Scopes
  BY <1>1 DEF Init
<1>3. None \in Prompt /\ NoPlan \in Plan /\ 0 \in Ids /\ 0 \in 0..MaxPicks /\ 0 \in 0..MaxMishaps
  BY BoundsAssumption DEF Prompt, Plan, Ids
<1>4. FileTypes
  BY <1>1, <1>3 DEF Init, FileTypes, NoSlot
<1>5. LaunchTypes
  BY <1>1, <1>3 DEF Init, LaunchTypes
<1>6. SessionTypes /\ HookTypes
  BY <1>1, <1>2, <1>3 DEF Init, SessionTypes, HookTypes, Running
<1>7. MarkTypes
  BY <1>1, <1>3 DEF Init, MarkTypes
<1>8. QED
  BY <1>4, <1>5, <1>6, <1>7 DEF TypeOK

LEMMA FileTypesStep == TypeOK /\ [Next]_vars => FileTypes'
<1>1. SUFFICES ASSUME TypeOK, [Next]_vars PROVE FileTypes'
  OBVIOUS
<1>a. FileTypes /\ LaunchTypes /\ SessionTypes /\ HookTypes /\ None \in Prompt /\ Part \in Prompt
  BY <1>1 DEF TypeOK, Prompt
<1>b. ASSUME UNCHANGED files PROVE FileTypes'
  BY <1>b, <1>a DEF FileTypes, files
<1>c. ASSUME NEW w, NEW f \in Torn(w) PROVE f \in [Workspaces -> Prompt]
  BY <1>a, <1>c DEF Torn, FileTypes
<1>2. ASSUME NEW t \in Terminals, NEW p \in Personas, NEW w, Pick(t, p, w) PROVE FileTypes'
  BY <1>2, <1>a DEF Pick, FileTypes, Prompt
<1>3. ASSUME NEW t \in Terminals, CopyPrompt(t) PROVE FileTypes'
  <2>1. plan[t] \in Plan /\ plan[t] \in Picked
    BY <1>3, <1>a DEF CopyPrompt, LaunchTypes
  <2>2. ws_prompt' \in [Workspaces -> Prompt]
    BY <1>3, <1>a, <1>c, <2>1, PickedTypes DEF CopyPrompt, FileTypes
  <2>3. QED
    BY <1>3, <1>a, <2>2 DEF CopyPrompt, FileTypes
<1>4. ASSUME NEW t \in Terminals, WriteSpec(t) PROVE FileTypes'
  BY <1>4, <1>a DEF WriteSpec, FileTypes, LaunchTypes
<1>5. ASSUME NEW t \in Terminals, QuitPick(t) \/ DeleteSpec(t) PROVE FileTypes'
  BY <1>5, <1>a DEF QuitPick, DeleteSpec, FileTypes, Plan
<1>16. ASSUME NEW t \in Terminals, Abandon(t) PROVE FileTypes'
  <2>1. ws_prompt' \in [Workspaces -> Prompt] /\ spec' \in Plan
    BY <1>16, <1>a, <1>c DEF Abandon, FileTypes, Plan
  <2>2. QED
    BY <1>16, <1>a, <2>1 DEF Abandon, FileTypes
<1>6. ASSUME NEW t \in Terminals, Handoff(t) PROVE FileTypes'
  <2>1. session_prompt[cwd[t], sid[t]] \in Prompt
    BY <1>6, <1>a DEF Handoff, FileTypes, SessionTypes, HookTypes
  <2>2. \E prompt \in Prompt : slot' \in {slot, [slot EXCEPT ![cwd[t]] = [prompt |-> prompt, fresh |-> TRUE]]}
    BY <1>6, <1>a, <2>1 DEF Handoff
  <2>3. slot' \in [Workspaces -> [prompt : Prompt, fresh : BOOLEAN]]
    <3>1. \E r \in [prompt : Prompt, fresh : BOOLEAN] : slot' \in {slot, [slot EXCEPT ![cwd[t]] = r]}
      BY <2>2
    <3>2. QED
      BY <1>a, <3>1 DEF FileTypes
  <2>4. QED
    BY <1>6, <1>a, <2>3 DEF Handoff, FileTypes
<1>d. ASSUME NEW t \in Terminals, orient[t] # "off" PROVE dir[t] \in Workspaces /\ Own(t) \in Workspaces \X Ids
  BY <1>a, <1>d DEF HookTypes, SessionTypes, Own, Running
<1>7. ASSUME NEW t \in Terminals, Move(t) PROVE FileTypes'
  <2>1. ws_prompt[dir[t]] \in Prompt /\ Own(t) \in Workspaces \X Ids
    BY <1>7, <1>a, <1>d DEF Move, FileTypes
  <2>2. ws_prompt' \in [Workspaces -> Prompt] /\ session_prompt' \in [Workspaces \X Ids -> Prompt]
    BY <1>7, <1>a, <2>1 DEF Move, FileTypes
  <2>3. QED
    BY <1>7, <1>a, <2>2 DEF Move, OrientGoesOn, FileTypes
<1>8. ASSUME NEW t \in Terminals, Take(t) PROVE FileTypes'
  <2>1. slot[dir[t]].prompt \in Prompt /\ Own(t) \in Workspaces \X Ids /\ NoSlot \in [prompt : Prompt, fresh : BOOLEAN]
    BY <1>8, <1>a, <1>d DEF Take, FileTypes, NoSlot
  <2>2. /\ slot' \in {slot, [slot EXCEPT ![dir[t]] = NoSlot]}
        /\ session_prompt' \in {session_prompt, [session_prompt EXCEPT ![Own(t)] = slot[dir[t]].prompt]}
    BY <1>8 DEF Take
  <2>4. slot' \in [Workspaces -> [prompt : Prompt, fresh : BOOLEAN]]
    BY <2>1, <2>2, <1>a DEF FileTypes
  <2>5. session_prompt' \in [Workspaces \X Ids -> Prompt]
    BY <2>1, <2>2, <1>a DEF FileTypes
  <2>3. QED
    BY <1>8, <1>a, <2>4, <2>5 DEF Take, OrientGoesOn, FileTypes
<1>9. ASSUME NEW w \in Workspaces, Age(w) PROVE FileTypes'
  BY <1>9, <1>a DEF Age, FileTypes
<1>10. ASSUME NEW t \in Terminals, Go(t) \/ ReadSpec(t) \/ Exec(t) \/ (\E w \in Workspaces : Plain(t, w))
       PROVE  FileTypes'
  BY <1>10, <1>b DEF Go, ReadSpec, Exec, Plain
<1>11. ASSUME NEW t \in Terminals, \/ Again(t)
                                   \/ \E w \in Workspaces : Cd(t, w)
                                   \/ Clear(t) \/ Renew(t) \/ Exit(t) \/ Die(t)
       PROVE  FileTypes'
  BY <1>11, <1>b DEF Again, Cd, Clear, Renew, Exit, Die, Leave
<1>12. ASSUME NEW t \in Terminals, InjectStep(t) PROVE FileTypes'
  BY <1>12, <1>b, InjectFrame
<1>13. CASE UNCHANGED vars
  BY <1>13, <1>b DEF vars
<1>14. scope.workspaces \subseteq Workspaces
  BY <1>a, ScopeTypes DEF SessionTypes
<1>15. QED
  BY <1>1, <1>2, <1>3, <1>4, <1>5, <1>6, <1>7, <1>8, <1>9, <1>10, <1>11, <1>12, <1>13, <1>14, <1>16, Steps
     DEF Launch, Session, Hooks, InjectStep

LEMMA LaunchTypesStep == TypeOK /\ [Next]_vars => LaunchTypes'
<1>1. SUFFICES ASSUME TypeOK, [Next]_vars PROVE LaunchTypes'
  OBVIOUS
<1>a. /\ LaunchTypes /\ spec \in Plan /\ HookTypes
      /\ scope.workspaces \subseteq Workspaces /\ scope.picks \in 0..MaxPicks
  BY <1>1, ScopeTypes DEF TypeOK, FileTypes, SessionTypes
<1>2. ASSUME NEW t \in Terminals, NEW p \in Personas, NEW w \in Workspaces, Pick(t, p, w)
      PROVE  LaunchTypes'
  <2>1. picks' \in 0..MaxPicks /\ [id |-> picks', persona |-> p, ws |-> w] \in Picked
    BY <1>2, <1>a, BoundsAssumption DEF Pick, LaunchTypes, Picked
  <2>2. \/ UNCHANGED <<pc, plan>>
        \/ /\ pc' = [pc EXCEPT ![t] = "copy"]
           /\ plan' = [plan EXCEPT ![t] = [id |-> picks', persona |-> p, ws |-> w]]
    BY <1>2 DEF Pick, Goto
  <2>3. CASE UNCHANGED <<pc, plan>>
    BY <2>1, <2>3, <1>a DEF LaunchTypes
  <2>4. QED
    BY <2>1, <2>2, <2>3, <1>a DEF LaunchTypes, Plan
<1>3. ASSUME NEW t \in Terminals, CopyPrompt(t) PROVE LaunchTypes'
  BY <1>3, <1>a DEF CopyPrompt, Goto, LaunchTypes
<1>4. ASSUME NEW t \in Terminals, WriteSpec(t) \/ Go(t) \/ DeleteSpec(t) PROVE LaunchTypes'
  BY <1>4, <1>a DEF WriteSpec, Go, DeleteSpec, Goto, LaunchTypes
<1>5. ASSUME NEW t \in Terminals, ReadSpec(t) PROVE LaunchTypes'
  BY <1>5, <1>a DEF ReadSpec, Goto, LaunchTypes, Plan
<1>14. ASSUME NEW t \in Terminals, Abandon(t) PROVE LaunchTypes'
  BY <1>14, <1>a DEF Abandon, Goto, LaunchTypes, Plan
<1>b. ASSUME NEW t \in Terminals, NEW w, NEW p, NEW prompt, Begin(t, w, p, prompt), UNCHANGED picks
      PROVE  LaunchTypes'
  BY <1>b, <1>a DEF Begin, Goto, LaunchTypes, Plan
<1>6. ASSUME NEW t \in Terminals, Exec(t) PROVE LaunchTypes'
  BY <1>6, <1>b DEF Exec
<1>7. ASSUME NEW t \in Terminals, NEW w, Plain(t, w) PROVE LaunchTypes'
  BY <1>7, <1>b DEF Plain
<1>8. ASSUME NEW t \in Terminals, Clear(t) \/ Handoff(t) \/ Renew(t) PROVE LaunchTypes'
  BY <1>8, <1>a DEF Clear, Handoff, Renew, Goto, LaunchTypes, Settled, Running
<1>9. ASSUME NEW t \in Terminals, Exit(t) \/ Die(t) PROVE LaunchTypes'
  <2>1. pc[t] \in {"session", "end", "renew"} /\ UNCHANGED <<picks, plan>> /\ Goto(t, "shell")
    BY <1>9, <1>a DEF Exit, Die, Leave, Settled, Running
  <2>2. QED
    BY <2>1, <1>a DEF Goto, LaunchTypes
<1>10. CASE UNCHANGED <<picks, pc, plan>>
  BY <1>10, <1>a DEF LaunchTypes
<1>11. ASSUME NEW t \in Terminals, \/ QuitPick(t) \/ Again(t)
                                   \/ (\E w \in Workspaces : Cd(t, w)) \/ Hooks(t)
       PROVE  UNCHANGED <<picks, pc, plan>>
  BY <1>11, HooksFrame DEF QuitPick, Again, Cd
<1>12. (\E w \in Workspaces : Age(w)) \/ UNCHANGED vars => UNCHANGED <<picks, pc, plan>>
  BY DEF Age, vars
<1>13. QED
  BY <1>1, <1>a, <1>2, <1>3, <1>4, <1>5, <1>6, <1>7, <1>8, <1>9, <1>10, <1>11, <1>12, <1>14, Steps
     DEF Launch, Session

\* A new session: where it is, who it is, and the event of its hooks.
LEMMA BeginTypes ==
  ASSUME TypeOK, NEW t \in Terminals, NEW w \in Workspaces, NEW p \in Personas \cup {None},
         NEW prompt \in Prompt, Begin(t, w, p, prompt), scope' = scope
  PROVE  /\ SessionTypes' /\ HookTypes'
         /\ sessions' = sessions + 1 /\ sessions' \in Ids
<1>a. SessionTypes /\ HookTypes /\ pc \in [Terminals -> {"shell", "copy", "spec", "go", "consume",
        "exec", "session", "end", "renew"}]
  BY DEF TypeOK, LaunchTypes
<1>1. sessions' = sessions + 1 /\ sessions' \in Ids
  BY <1>a, ScopeTypes, BoundsAssumption DEF Begin, NewId, SessionTypes, Ids
<1>2. SessionTypes'
  BY <1>a, <1>1 DEF Begin, NewId, SessionTypes
<1>3. /\ dir' = [dir EXCEPT ![t] = w] /\ cwd' = [cwd EXCEPT ![t] = w]
      /\ pc' = [pc EXCEPT ![t] = "session"] /\ source' = [source EXCEPT ![t] = "startup"]
      /\ orient' = [orient EXCEPT ![t] = "move"] /\ inject' = [inject EXCEPT ![t] = "read"]
      /\ injected' = [injected EXCEPT ![t] = None]
  BY DEF Begin, Event, Goto
<1>4. /\ source' \in [Terminals -> {"none", "startup", "compact", "clear"}]
      /\ orient' \in [Terminals -> {"off", "move", "take"}]
      /\ inject' \in [Terminals -> {"off", "read", "fresh", "slot", "again"}]
      /\ injected' \in [Terminals -> Prompt]
  BY <1>3, <1>a DEF HookTypes, Prompt
<1>5. ASSUME NEW u \in Terminals
      PROVE  /\ inject'[u] \in {"fresh", "slot", "again"} => source'[u] = "clear"
             /\ ~Running(u)' => orient'[u] = "off" /\ inject'[u] = "off"
             /\ pc'[u] \in {"session", "end", "renew"} => {dir'[u], cwd'[u]} \subseteq Workspaces
  BY <1>3, <1>a DEF HookTypes, SessionTypes, Running
<1>6. HookTypes'
  BY <1>4, <1>5 DEF HookTypes
<1>7. QED
  BY <1>1, <1>2, <1>6

\* A session that ends.
LEMMA LeaveTypes ==
  ASSUME TypeOK, NEW t \in Terminals, Leave(t), scope' = scope
  PROVE  SessionTypes' /\ HookTypes'
<1>a. SessionTypes /\ HookTypes /\ None \in Prompt /\ 0 \in Ids
      /\ pc \in [Terminals -> {"shell", "copy", "spec", "go", "consume", "exec", "session", "end", "renew"}]
  BY BoundsAssumption DEF TypeOK, LaunchTypes, Prompt, Ids
<1>1. /\ pc' = [pc EXCEPT ![t] = "shell"] /\ orient' = [orient EXCEPT ![t] = "off"]
      /\ inject' = [inject EXCEPT ![t] = "off"] /\ injected' = [injected EXCEPT ![t] = None]
      /\ source' = [source EXCEPT ![t] = "none"] /\ dir' = [dir EXCEPT ![t] = None]
      /\ cwd' = [cwd EXCEPT ![t] = None]
  BY DEF Leave, Goto
<1>2. SessionTypes'
  BY <1>a DEF Leave, files, SessionTypes
<1>3. ASSUME NEW u \in Terminals
      PROVE  /\ inject'[u] \in {"fresh", "slot", "again"} => source'[u] = "clear"
             /\ ~Running(u)' => orient'[u] = "off" /\ inject'[u] = "off"
             /\ pc'[u] \in {"session", "end", "renew"} => {dir'[u], cwd'[u]} \subseteq Workspaces
  BY <1>1, <1>a DEF HookTypes, SessionTypes, Running
<1>4. /\ source' \in [Terminals -> {"none", "startup", "compact", "clear"}]
      /\ orient' \in [Terminals -> {"off", "move", "take"}]
      /\ inject' \in [Terminals -> {"off", "read", "fresh", "slot", "again"}]
      /\ injected' \in [Terminals -> Prompt]
  BY <1>1, <1>a DEF HookTypes
<1>5. HookTypes'
  BY <1>3, <1>4 DEF HookTypes
<1>6. QED
  BY <1>2, <1>5

LEMMA SessionTypesStep == TypeOK /\ [Next]_vars => SessionTypes'
<1>1. SUFFICES ASSUME TypeOK, [Next]_vars PROVE SessionTypes'
  OBVIOUS
<1>a. /\ SessionTypes /\ scope' = scope /\ scope.workspaces \subseteq Workspaces
      /\ None \in Prompt /\ tmp_prompt \in Prompt
  BY <1>1, ScopeTypes, Steps DEF TypeOK, FileTypes, SessionTypes, Prompt
<1>2. ASSUME NEW t \in Terminals, Exec(t) PROVE SessionTypes'
  <2>1. plan[t].ws \in Workspaces /\ plan[t].persona \in Personas
    BY <1>1, <1>2, PickedTypes DEF Exec, TypeOK, LaunchTypes
  <2>2. QED
    BY <1>1, <1>2, <1>a, <2>1, BeginTypes DEF Exec
<1>3. ASSUME NEW t \in Terminals, NEW w \in Workspaces, Plain(t, w) PROVE SessionTypes'
  BY <1>1, <1>3, <1>a, BeginTypes DEF Plain
<1>4. ASSUME NEW t \in Terminals, NEW w \in Workspaces, Cd(t, w) PROVE SessionTypes'
  BY <1>4, <1>a DEF Cd, SessionTypes
<1>5. ASSUME NEW t \in Terminals, Renew(t) PROVE SessionTypes'
  BY <1>5, <1>a, ScopeTypes, BoundsAssumption DEF Renew, NewId, SessionTypes, Ids
<1>6. CASE UNCHANGED <<sessions, persona, system, dir, cwd, sid>>
  BY <1>6, <1>a DEF SessionTypes
<1>7. ASSUME NEW t \in Terminals, Preparing(t)
      PROVE  UNCHANGED <<sessions, persona, system, dir, cwd, sid>>
  BY <1>7, PreparingFrame DEF identity
<1>8. ASSUME NEW t \in Terminals, Again(t) \/ Clear(t) \/ Handoff(t) \/ Hooks(t)
      PROVE  UNCHANGED <<sessions, persona, system, dir, cwd, sid>>
  BY <1>8, HooksFrame DEF Again, Clear, Handoff, identity
<1>9. (\E w \in Workspaces : Age(w)) \/ UNCHANGED vars
      => UNCHANGED <<sessions, persona, system, dir, cwd, sid>>
  BY DEF Age, vars, identity
<1>10. ASSUME NEW t \in Terminals, Exit(t) \/ Die(t) PROVE SessionTypes'
  BY <1>1, <1>10, <1>a, LeaveTypes DEF Exit, Die
<1>11. QED
  BY <1>1, <1>a, <1>2, <1>3, <1>4, <1>5, <1>6, <1>7, <1>8, <1>9, <1>10, Steps
     DEF Launch, Preparing, Session

LEMMA HookTypesStep == TypeOK /\ [Next]_vars => HookTypes'
<1>1. SUFFICES ASSUME TypeOK, [Next]_vars PROVE HookTypes'
  OBVIOUS
<1>a. /\ HookTypes /\ LaunchTypes /\ SessionTypes /\ scope' = scope /\ scope.workspaces \subseteq Workspaces
      /\ None \in Prompt /\ Part \in Prompt /\ tmp_prompt \in Prompt
  BY <1>1, ScopeTypes, Steps DEF TypeOK, FileTypes, SessionTypes, Prompt
<1>2. ASSUME NEW t \in Terminals, Exec(t) PROVE HookTypes'
  <2>1. plan[t].ws \in Workspaces /\ plan[t].persona \in Personas
    BY <1>1, <1>2, PickedTypes DEF Exec, TypeOK, LaunchTypes
  <2>2. QED
    BY <1>1, <1>2, <1>a, <2>1, BeginTypes DEF Exec
<1>3. ASSUME NEW t \in Terminals, NEW w \in Workspaces, Plain(t, w) PROVE HookTypes'
  BY <1>1, <1>3, <1>a, BeginTypes DEF Plain
<1>4. ASSUME NEW t \in Terminals, Again(t) PROVE HookTypes'
  BY <1>4, <1>a DEF Again, Event, Settled, Running, HookTypes
<1>5. ASSUME NEW t \in Terminals, Renew(t) PROVE HookTypes'
  BY <1>5, <1>a DEF Renew, Event, Goto, Running, HookTypes, LaunchTypes
<1>6. ASSUME NEW t \in Terminals, Exit(t) \/ Die(t) PROVE HookTypes'
  BY <1>1, <1>6, <1>a, LeaveTypes DEF Exit, Die
<1>7. ASSUME NEW t \in Terminals, Move(t) \/ Take(t) PROVE HookTypes'
  <2>1. /\ UNCHANGED <<pc, identity, inject, injected>> /\ orient[t] # "off"
        /\ \E l \in {"off", "take"} : orient' = [orient EXCEPT ![t] = l]
    BY <1>7 DEF Move, Take, OrientGoesOn
  <2>2. QED
    BY <2>1, <1>a DEF Running, HookTypes, identity
<1>8. ASSUME NEW t \in Terminals, InjectStep(t) PROVE HookTypes'
  <2>1. /\ UNCHANGED <<pc, source, orient, dir, cwd>> /\ inject[t] # "off"
    BY <1>8, InjectFrame DEF identity
  <2>2. \E l \in {"off", "fresh", "slot", "again"} :
             inject' = [inject EXCEPT ![t] = l] /\ (l # "off" => source[t] = "clear")
    <3>1. CASE ReadPrompt(t)
      BY <3>1, <1>a DEF ReadPrompt, Give, GoOn, Step, HookTypes
    <3>2. CASE CheckSlot(t)
      BY <3>2, <1>a DEF CheckSlot, GoOn, Step, HookTypes
    <3>3. CASE ReadSlot(t)
      BY <3>3, <1>a DEF ReadSlot, Give, GoOn, Step, HookTypes
    <3>4. CASE ReadAgain(t)
      BY <3>4, <1>a DEF ReadAgain, Give, Step, HookTypes
    <3>5. QED
      BY <1>8, <3>1, <3>2, <3>3, <3>4 DEF InjectStep
  <2>3. KeptPrompt(t) \in Prompt /\ slot[cwd[t]].prompt \in Prompt
    BY <1>1, <2>1 DEF TypeOK, FileTypes, SessionTypes, HookTypes, KeptPrompt, Running
  <2>4. injected' \in [Terminals -> Prompt]
    BY <1>8, <1>a, <2>3, InjectFrame DEF HookTypes
  <2>5. /\ inject' \in [Terminals -> {"off", "read", "fresh", "slot", "again"}]
        /\ \A u \in Terminals : inject'[u] # inject[u] => u = t /\ (inject'[u] # "off" => source[t] = "clear")
    BY <2>2, <1>a DEF HookTypes
  <2>6. ASSUME NEW u \in Terminals
        PROVE  /\ inject'[u] \in {"fresh", "slot", "again"} => source'[u] = "clear"
               /\ ~Running(u)' => orient'[u] = "off" /\ inject'[u] = "off"
               /\ pc'[u] \in {"session", "end", "renew"} => {dir'[u], cwd'[u]} \subseteq Workspaces
    <3>1. CASE u = t
      BY <3>1, <2>1, <2>5, <1>a DEF HookTypes, Running
    <3>2. CASE u # t
      BY <3>2, <2>1, <2>5, <1>a DEF HookTypes, Running
    <3>3. QED
      BY <3>1, <3>2
  <2>7. QED
    BY <1>a, <2>1, <2>4, <2>5, <2>6 DEF HookTypes
<1>9. CASE UNCHANGED <<source, hooks, dir, cwd>>
           /\ \A t \in Terminals : /\ Running(t) /\ ~Settled(t) => Running(t)'
                                   /\ pc'[t] \in {"session", "end", "renew"} => pc[t] \in {"session", "end", "renew"}
  BY <1>9, <1>a DEF HookTypes, hooks, Settled
<1>10. ASSUME NEW t \in Terminals, Preparing(t) PROVE HookTypes'
  <2>1. /\ UNCHANGED <<source, hooks, dir, cwd>>
        /\ \A u \in Terminals : pc'[u] = pc[u] \/ {pc[u], pc'[u]} \subseteq {"shell", "copy", "spec", "go", "consume", "exec"}
    BY <1>10, <1>a, PreparingFrame DEF identity, LaunchTypes
  <2>2. QED
    BY <2>1, <1>9 DEF Running
<1>11. ASSUME NEW t \in Terminals, Clear(t) \/ Handoff(t)
       PROVE  HookTypes'
  <2>1. UNCHANGED <<source, hooks, dir, cwd>>
    BY <1>11 DEF Clear, Handoff, identity
  <2>2. Settled(t) \/ pc[t] = "end"
    BY <1>11 DEF Clear, Handoff
  <2>3. \A u \in Terminals \ {t} : pc'[u] = pc[u]
    BY <1>11, <1>a DEF Clear, Handoff, Goto, LaunchTypes
  <2>4. QED
    BY <2>1, <2>2, <2>3, <1>9 DEF Running, Settled
<1>14. ASSUME NEW t \in Terminals, NEW w \in Workspaces, Cd(t, w) PROVE HookTypes'
  <2>1. UNCHANGED <<source, hooks, dir, pc>> /\ cwd' = [cwd EXCEPT ![t] = w]
    BY <1>14 DEF Cd
  <2>2. QED
    BY <2>1, <1>a DEF HookTypes, SessionTypes, hooks, Running
<1>12. ASSUME (\E w \in Workspaces : Age(w)) \/ UNCHANGED vars PROVE HookTypes'
  BY <1>12, <1>9 DEF Age, vars, Running, identity
<1>13. QED
  BY <1>1, <1>a, <1>2, <1>3, <1>4, <1>5, <1>6, <1>7, <1>8, <1>10, <1>11, <1>12, <1>14, Steps
     DEF Launch, Preparing, Session, Hooks, InjectStep

LEMMA MarkTypesStep == TypeOK /\ [Next]_vars => MarkTypes'
<1>1. SUFFICES ASSUME TypeOK, [Next]_vars PROVE MarkTypes'
  OBVIOUS
<1>a. /\ FileTypes /\ HookTypes /\ LaunchTypes /\ SessionTypes /\ MarkTypes
      /\ scope.workspaces \subseteq Workspaces /\ scope.mishaps \in 0..MaxMishaps
  BY <1>1, ScopeTypes DEF TypeOK, SessionTypes
<1>b. mixed' \subseteq Workspaces
  BY <1>1, <1>a, Steps DEF MarkTypes, vars
<1>c. ASSUME Mishap PROVE mishaps' \in 0..MaxMishaps
  BY <1>c, <1>a, BoundsAssumption DEF Mishap, MarkTypes
<1>d. ASSUME mishaps' \in 0..MaxMishaps, NEW w \in Workspaces, spoilt' \subseteq spoilt \cup {w},
             left' \subseteq left \cup {w},
             NEW t \in Terminals, strayed' \subseteq strayed \cup {t}, overtaken' \subseteq overtaken \cup {t},
             launches' \in [1..MaxPicks -> Nat], twice' \subseteq 1..MaxPicks
      PROVE  MarkTypes'
  BY <1>a, <1>b, <1>d DEF MarkTypes
<1>e. ASSUME mishaps' \in 0..MaxMishaps, UNCHANGED <<spoilt, left, strayed, launches, twice, overtaken>>
      PROVE  MarkTypes'
  BY <1>a, <1>b, <1>e DEF MarkTypes
<1>2. ASSUME NEW t \in Terminals, NEW p \in Personas, NEW w \in Workspaces, Pick(t, p, w) PROVE MarkTypes'
  BY <1>2, <1>a, <1>c, <1>e DEF Pick, MarkTypes
<1>3. ASSUME NEW t \in Terminals, CopyPrompt(t) \/ DeleteSpec(t) PROVE MarkTypes'
  <2>1. plan[t].ws \in Workspaces /\ plan[t].id \in 1..MaxPicks
    BY <1>3, <1>a, PickedTypes DEF CopyPrompt, DeleteSpec, LaunchTypes
  <2>2. mishaps' \in 0..MaxMishaps /\ spoilt' \subseteq spoilt \cup {plan[t].ws}
    BY <1>3, <1>a, <1>c DEF CopyPrompt, DeleteSpec, Well, Fails, Spoil, MarkTypes
  <2>3. UNCHANGED <<left, strayed, launches, overtaken>> /\ twice' \subseteq 1..MaxPicks
    BY <1>3, <1>a, <2>1 DEF CopyPrompt, DeleteSpec, MarkTypes
  <2>4. QED
    BY <2>1, <2>2, <2>3, <1>a, <1>d DEF MarkTypes
<1>4. ASSUME NEW t \in Terminals, Abandon(t) PROVE MarkTypes'
  <2>1. CASE plan[t] = NoPlan
    BY <1>4, <2>1, <1>a, <1>e DEF Abandon, Well, MarkTypes
  <2>2. CASE plan[t] # NoPlan
    <3>1. plan[t].ws \in Workspaces
      BY <2>2, <1>a, PickedTypes DEF LaunchTypes
    <3>2. mishaps' \in 0..MaxMishaps /\ spoilt' \subseteq spoilt \cup {plan[t].ws}
      BY <1>4, <2>2, <1>a, <1>c DEF Abandon, Fails, Spoil
    <3>3. UNCHANGED <<left, strayed, launches, twice, overtaken>>
      BY <1>4 DEF Abandon
    <3>4. QED
      BY <3>1, <3>2, <3>3, <1>a, <1>d DEF MarkTypes
  <2>3. QED
    BY <2>1, <2>2
<1>5. ASSUME NEW t \in Terminals, ReadSpec(t) PROVE MarkTypes'
  <2>1. UNCHANGED <<mishaps, left, strayed, launches, overtaken>>
    BY <1>5 DEF ReadSpec
  <2>2. twice' \subseteq 1..MaxPicks
    <3>1. \A u \in Terminals : pc[u] = "consume" => plan[u].id \in 1..MaxPicks
      BY <1>a, PickedTypes DEF LaunchTypes
    <3>2. QED
      BY <1>5, <3>1, <1>a DEF ReadSpec, MarkTypes
  <2>3. CASE plan[t] \in {NoPlan, spec}
    BY <1>5, <2>1, <2>2, <2>3, <1>a, <1>b DEF ReadSpec, MarkTypes
  <2>4. CASE plan[t] \notin {NoPlan, spec}
    <3>1. plan[t].ws \in Workspaces
      BY <2>4, <1>a, PickedTypes DEF LaunchTypes
    <3>2. spoilt' = spoilt \cup {plan[t].ws}
      BY <1>5, <2>4 DEF ReadSpec, Spoil
    <3>3. QED
      BY <2>1, <2>2, <3>1, <3>2, <1>a, <1>d DEF MarkTypes
  <2>5. QED
    BY <2>3, <2>4
<1>6. ASSUME NEW t \in Terminals, Exec(t) PROVE MarkTypes'
  <2>1. UNCHANGED <<mishaps, spoilt, left, strayed, twice>> /\ overtaken' \subseteq overtaken \cup {t}
    BY <1>6 DEF Exec
  <2>2. launches' \in [1..MaxPicks -> Nat]
    <3>1. plan[t].id \in 1..MaxPicks
      BY <1>6, <1>a, PickedTypes DEF Exec, LaunchTypes
    <3>2. launches[plan[t].id] + 1 \in Nat
      BY <3>1, <1>a DEF MarkTypes
    <3>3. launches' = [launches EXCEPT ![plan[t].id] = launches[plan[t].id] + 1]
      BY <1>6 DEF Exec
    <3>4. QED
      BY <3>2, <3>3, <1>a DEF MarkTypes
  <2>3. QED
    BY <2>1, <2>2, <1>a, <1>b DEF MarkTypes
<1>7. ASSUME NEW t \in Terminals, NEW w \in Workspaces, Cd(t, w) PROVE MarkTypes'
  BY <1>7, <1>a, <1>b, <1>c DEF Cd, MarkTypes
<1>f. ASSUME NEW t \in Terminals, pc[t] \in {"session", "end", "renew"} PROVE dir[t] \in Workspaces /\ cwd[t] \in Workspaces
  BY <1>f, <1>a DEF HookTypes
<1>8. ASSUME NEW t \in Terminals, Clear(t) PROVE MarkTypes'
  <2>1. dir[t] \in Workspaces
    BY <1>8, <1>f DEF Clear, Settled, Running
  <2>2. spoilt' \subseteq spoilt \cup {dir[t]} /\ UNCHANGED <<mishaps, left, strayed, launches, twice, overtaken>>
    BY <1>8 DEF Clear, Spoil
  <2>3. QED
    BY <2>1, <2>2, <1>a, <1>d DEF MarkTypes
<1>9. ASSUME NEW t \in Terminals, Handoff(t) PROVE MarkTypes'
  <2>1. cwd[t] \in Workspaces
    BY <1>9, <1>f DEF Handoff
  <2>2. spoilt' \subseteq spoilt \cup {cwd[t]} /\ mishaps' \in 0..MaxMishaps
    BY <1>9, <1>a, <1>c DEF Handoff, Well, Fails, Spoil, MarkTypes
  <2>3. UNCHANGED <<left, strayed, launches, twice, overtaken>>
    BY <1>9 DEF Handoff
  <2>4. QED
    BY <2>1, <2>2, <2>3, <1>a, <1>d DEF MarkTypes
<1>10. ASSUME NEW t \in Terminals, Exit(t) PROVE MarkTypes'
  BY <1>10, <1>a, <1>b DEF Exit, Leave, MarkTypes
<1>11. ASSUME NEW t \in Terminals, Die(t) PROVE MarkTypes'
  <2>1. dir[t] \in Workspaces
    BY <1>11, <1>f DEF Die, Running
  <2>2. /\ spoilt' \subseteq spoilt \cup {dir[t]} /\ left' \subseteq left \cup {dir[t]}
        /\ Mishap
    BY <1>11 DEF Die, Spoil
  <2>3. strayed' \subseteq strayed /\ overtaken' \subseteq overtaken /\ UNCHANGED <<launches, twice>>
    BY <1>11 DEF Die, Leave
  <2>4. QED
    BY <2>1, <2>2, <2>3, <1>a, <1>c, <1>d DEF MarkTypes
<1>12. ASSUME NEW t \in Terminals, Move(t) \/ Take(t) PROVE MarkTypes'
  <2>1. dir[t] \in Workspaces
    BY <1>12, <1>a DEF Move, Take, HookTypes, Running
  <2>2. spoilt' \subseteq spoilt \cup {dir[t]} /\ mishaps' \in 0..MaxMishaps
    BY <1>12, <1>a, <1>c DEF Move, Take, Well, Fails, Spoil, MarkTypes
  <2>3. UNCHANGED <<left, strayed, launches, twice, overtaken>>
    BY <1>12 DEF Move, Take, OrientGoesOn
  <2>4. QED
    BY <2>1, <2>2, <2>3, <1>a, <1>d DEF MarkTypes
<1>13. ASSUME NEW w \in Workspaces, Age(w) PROVE MarkTypes'
  BY <1>13, <1>a, <1>b DEF Age, MarkTypes
<1>14. ASSUME UNCHANGED marks PROVE MarkTypes'
  BY <1>14, <1>a, <1>b DEF MarkTypes, marks
<1>15. ASSUME NEW t \in Terminals, \/ WriteSpec(t) \/ QuitPick(t) \/ Go(t) \/ (\E w \in Workspaces : Plain(t, w))
                                   \/ Again(t) \/ Renew(t) \/ InjectStep(t)
       PROVE  UNCHANGED marks
  BY <1>15, InjectFrame DEF WriteSpec, QuitPick, Go, Plain, Again, Renew
<1>16. QED
  BY <1>1, <1>a, <1>2, <1>3, <1>4, <1>5, <1>6, <1>7, <1>8, <1>9, <1>10, <1>11, <1>12, <1>13, <1>14, <1>15,
     Steps DEF Launch, Session, Hooks, InjectStep, vars

LEMMA TypesStep == TypeOK /\ [Next]_vars => TypeOK'
  BY FileTypesStep, LaunchTypesStep, SessionTypesStep, HookTypesStep, MarkTypesStep DEF TypeOK

\* Every variable has its type, for any terminals, personas and workspaces, whatever
\* is given up, fails or dies.
THEOREM TypesHold == Spec => []TypeOK
  BY InitTypes, TypesStep, PTL DEF Spec

\* What a terminal does it does to itself and to the files.
LEMMA OthersFrame ==
  ASSUME TypeOK, NEW t \in Terminals, Launch(t) \/ Session(t) \/ Hooks(t),
         NEW u \in Terminals, u # t
  PROVE  /\ UNCHANGED <<pc[u], plan[u], persona[u], system[u], dir[u], cwd[u], sid[u], source[u],
                        orient[u], inject[u], injected[u]>>
         /\ (u \in strayed') <=> (u \in strayed)
         /\ (u \in overtaken') <=> (u \in overtaken)
<1>a. LaunchTypes /\ SessionTypes /\ HookTypes
  BY DEF TypeOK
<1>1. CASE Preparing(t)
  BY <1>1, <1>a, PreparingFrame DEF LaunchTypes, identity, hooks
<1>2. CASE Exec(t) \/ (\E w \in scope.workspaces : Plain(t, w))
  <2>1. ASSUME NEW w, NEW p, NEW prompt, Begin(t, w, p, prompt)
        PROVE  UNCHANGED <<pc[u], plan[u], persona[u], system[u], dir[u], cwd[u], sid[u], source[u],
                           orient[u], inject[u], injected[u]>>
    BY <2>1, <1>a DEF Begin, NewId, Event, Goto, LaunchTypes, SessionTypes, HookTypes
  <2>2. QED
    BY <2>1, <1>2 DEF Plain, Exec, marks
<1>3. CASE Again(t)
  BY <1>3, <1>a DEF Again, Event, HookTypes, marks
<1>4. CASE (\E w \in scope.workspaces : Cd(t, w)) \/ Clear(t) \/ Handoff(t)
  BY <1>4, <1>a DEF Cd, Clear, Handoff, Goto, LaunchTypes, SessionTypes, identity, hooks
<1>5. CASE Renew(t)
  BY <1>5, <1>a DEF Renew, NewId, Event, Goto, LaunchTypes, SessionTypes, HookTypes, marks
<1>6. CASE Exit(t) \/ Die(t)
  BY <1>6, <1>a DEF Exit, Die, Leave, Goto, LaunchTypes, SessionTypes, HookTypes
<1>7. CASE Hooks(t)
  <2>1. CASE Move(t) \/ Take(t)
    <3>1. UNCHANGED <<pc, plan, identity, inject, injected, strayed, overtaken>>
          /\ \E l \in {"off", "take"} : orient' = [orient EXCEPT ![t] = l]
      BY <2>1 DEF Move, Take, OrientGoesOn
    <3>2. QED
      BY <3>1, <1>a DEF HookTypes, identity
  <2>2. CASE InjectStep(t)
    BY <2>2, <1>a, InjectFrame DEF HookTypes, identity, marks
  <2>3. QED
    BY <1>7, <2>1, <2>2 DEF Hooks, InjectStep
<1>8. QED
  BY <1>1, <1>2, <1>3, <1>4, <1>5, <1>6, <1>7 DEF Launch, Preparing, Session

\* Time changes no terminal.
LEMMA AgeFrame ==
  ASSUME (\E w \in scope.workspaces : Age(w)) \/ UNCHANGED vars
  PROVE  UNCHANGED <<tmp_prompt, spec, ws_prompt, session_prompt, picks, sessions, pc, plan,
                     identity, hooks, spoilt, strayed, launches, twice, overtaken>>
  BY DEF Age, vars, files, marks

\* A session touches no launch.
InSession == {"session", "end", "renew"}
LEMMA SessionFrame ==
  ASSUME TypeOK, NEW t \in Terminals, Session(t)
  PROVE  /\ UNCHANGED <<tmp_prompt, spec, ws_prompt, session_prompt, picks, plan, launches, twice>>
         /\ pc[t] \in InSession /\ pc'[t] \in InSession \cup {"shell"}
         /\ \/ UNCHANGED <<persona, system, dir, overtaken>>
            \/ Leave(t)
<1>1. LaunchTypes
  BY DEF TypeOK
<1>2. CASE Again(t) \/ (\E w \in scope.workspaces : Cd(t, w))
  BY <1>2, <1>1 DEF Again, Cd, Settled, Running, InSession, LaunchTypes, files, marks
<1>3. CASE Clear(t)
  BY <1>3, <1>1 DEF Clear, Goto, Settled, Running, InSession, LaunchTypes, files, identity
<1>4. CASE Handoff(t)
  BY <1>4, <1>1 DEF Handoff, Goto, InSession, LaunchTypes, identity
<1>5. CASE Renew(t)
  BY <1>5, <1>1 DEF Renew, Goto, InSession, LaunchTypes, files, marks
<1>6. CASE Exit(t) \/ Die(t)
  BY <1>6, <1>1 DEF Exit, Die, Leave, Goto, Settled, Running, InSession, LaunchTypes, files
<1>7. QED
  BY <1>2, <1>3, <1>4, <1>5, <1>6 DEF Session

-----------------------------------------------------------------------------
(* A pick launches once *)

\* A launch with a pick.
Carrying(t) == pc[t] \in {"copy", "spec", "consume", "exec"}

\* A pick whose spec is not read twice is in one place at a time, and is launched
\* when it is in none.
SpecInv ==
  /\ spec.id <= picks /\ twice \subseteq 1..picks
  /\ \A t \in Terminals : plan[t].id <= picks
  /\ \A i \in 1..MaxPicks :
       /\ i > picks => launches[i] = 0
       /\ launches[i] <= 1 \/ i \in twice
  /\ spec # NoPlan /\ spec.id \notin twice => launches[spec.id] = 0
  /\ \A t \in Terminals :
       /\ pc[t] \in {"copy", "spec"} => plan[t].id \notin twice
       /\ Carrying(t) /\ plan[t].id \notin twice =>
            /\ launches[plan[t].id] = 0
            /\ pc[t] # "consume" => spec.id # plan[t].id
            /\ \A u \in Terminals : u # t /\ Carrying(u) => plan[u].id # plan[t].id

\* The prompt in the temporary directory is that of the last pick.
PromptInv ==
  /\ spec # NoPlan /\ spec.id = picks => tmp_prompt = spec.persona
  /\ \A t \in Terminals :
       /\ Carrying(t) /\ plan[t].id = picks => tmp_prompt = plan[t].persona
       /\ t \notin overtaken => persona[t] = system[t]

LaunchInv == TypeOK /\ SpecInv /\ PromptInv

LEMMA InitLaunch == Init => LaunchInv
<1>1. SUFFICES ASSUME Init PROVE SpecInv /\ PromptInv
  BY InitTypes DEF LaunchInv
<1>2. QED
  BY <1>1, BoundsAssumption DEF Init, SpecInv, PromptInv, Carrying, NoPlan

\* What picks are: numbers, and none of those that carry one is 0.
LEMMA PlanIds ==
  ASSUME TypeOK
  PROVE  /\ picks \in Nat /\ spec.id \in Nat /\ spec \in Plan
         /\ spec # NoPlan => spec.id \in 1..MaxPicks
         /\ \A t \in Terminals : /\ plan[t].id \in Nat
                                 /\ Carrying(t) => plan[t].id \in 1..MaxPicks
         /\ \A i \in 1..MaxPicks : launches[i] \in Nat
         /\ NoPlan.id = 0 /\ MaxPicks \in Nat
<1>1. FileTypes /\ LaunchTypes /\ MarkTypes
  BY DEF TypeOK
<1>2. \A q \in Plan : q.id \in Nat /\ (q # NoPlan => q.id \in 1..MaxPicks)
  BY BoundsAssumption DEF Plan, Picked, NoPlan
<1>3. \A q \in Picked : q \in Plan /\ q.id \in 1..MaxPicks
  BY DEF Plan, Picked
<1>4. NoPlan.id = 0 /\ MaxPicks \in Nat
  BY BoundsAssumption DEF NoPlan
<1>5. picks \in Nat /\ \A i \in 1..MaxPicks : launches[i] \in Nat
  BY <1>1, <1>4 DEF LaunchTypes, MarkTypes
<1>6. spec \in Plan /\ spec.id \in Nat /\ (spec # NoPlan => spec.id \in 1..MaxPicks)
  BY <1>1, <1>2 DEF FileTypes
<1>7. \A t \in Terminals : plan[t].id \in Nat /\ (Carrying(t) => plan[t].id \in 1..MaxPicks)
  BY <1>1, <1>2, <1>3 DEF LaunchTypes, Carrying
<1>8. QED
  BY <1>4, <1>5, <1>6, <1>7

\* A step that moves no pick on.
LEMMA LaunchFrame ==
  ASSUME LaunchInv, UNCHANGED <<tmp_prompt, spec, picks, launches, twice>>,
         \A u \in Terminals :
           /\ pc'[u] \in {"copy", "spec"} => pc[u] \in {"copy", "spec"}
           /\ Carrying(u)' => Carrying(u) /\ plan'[u] = plan[u] /\ (pc[u] # "consume" \/ pc'[u] = "consume")
           /\ plan'[u] \in {plan[u], NoPlan}
           /\ u \notin overtaken' => persona'[u] = system'[u]
  PROVE  SpecInv' /\ PromptInv'
<1>1. SpecInv /\ PromptInv /\ picks \in Nat /\ NoPlan.id = 0
  BY PlanIds DEF LaunchInv
<1>2. SpecInv'
  BY <1>1 DEF SpecInv
<1>3. PromptInv'
  BY <1>1 DEF PromptInv
<1>4. QED
  BY <1>2, <1>3

LEMMA LaunchInvStep == LaunchInv /\ [Next]_vars => LaunchInv'
<1>1. SUFFICES ASSUME LaunchInv, [Next]_vars PROVE SpecInv' /\ PromptInv'
  BY TypesStep DEF LaunchInv
<1>a. /\ TypeOK /\ LaunchTypes /\ FileTypes /\ SessionTypes /\ MarkTypes
      /\ SpecInv /\ PromptInv /\ scope.workspaces \subseteq Workspaces
  BY <1>1, ScopeTypes DEF LaunchInv, TypeOK, SessionTypes
<1>i. /\ picks \in Nat /\ spec.id \in Nat /\ spec \in Plan
      /\ spec # NoPlan => spec.id \in 1..MaxPicks
      /\ \A t \in Terminals : /\ plan[t].id \in Nat
                              /\ Carrying(t) => plan[t].id \in 1..MaxPicks
      /\ \A i \in 1..MaxPicks : launches[i] \in Nat
      /\ NoPlan.id = 0 /\ MaxPicks \in Nat
  BY <1>a, PlanIds
<1>o. ASSUME NEW t \in Terminals, Launch(t) \/ Session(t) \/ Hooks(t), NEW u \in Terminals, u # t
      PROVE  /\ UNCHANGED <<pc[u], plan[u], persona[u], system[u]>> /\ (Carrying(u)' <=> Carrying(u))
             /\ (u \in overtaken') <=> (u \in overtaken)
  BY <1>o, <1>a, OthersFrame DEF Carrying
<1>2. ASSUME NEW t \in Terminals, NEW p \in Personas, NEW w \in scope.workspaces, Pick(t, p, w)
      PROVE  SpecInv' /\ PromptInv'
  <2>1. /\ UNCHANGED <<spec, persona, system, launches, twice, overtaken>> /\ picks' = picks + 1
        /\ pc[t] = "shell" /\ picks' \in 1..MaxPicks
    BY <1>2, <1>a, <1>i, ScopeTypes DEF Pick, identity, SessionTypes
  <2>2. \A u \in Terminals \ {t} : UNCHANGED <<pc[u], plan[u]>> /\ (Carrying(u)' <=> Carrying(u))
    BY <1>2, <1>o DEF Launch
  <2>3. \/ plan'[t].id = picks' /\ plan'[t].persona = tmp_prompt' /\ pc'[t] = "copy"
        \/ UNCHANGED <<pc[t], plan[t]>>
    BY <1>2, <1>a DEF Pick, Goto, LaunchTypes
  <2>4. /\ twice \subseteq 1..picks /\ launches[picks'] = 0 /\ spec.id <= picks
        /\ picks' \notin twice
        /\ \A u \in Terminals : plan[u].id <= picks
    BY <2>1, <1>a, <1>i DEF SpecInv
  <2>5. SpecInv'
    BY <2>1, <2>2, <2>3, <2>4, <1>a, <1>i DEF SpecInv, Carrying
  <2>6. PromptInv'
    BY <2>1, <2>2, <2>3, <2>4, <1>a, <1>i DEF PromptInv, Carrying
  <2>7. QED
    BY <2>5, <2>6
<1>3. ASSUME NEW t \in Terminals, CopyPrompt(t) PROVE SpecInv' /\ PromptInv'
  <2>1. /\ UNCHANGED <<tmp_prompt, spec, picks, launches, twice, plan, persona, system, overtaken>>
        /\ pc[t] = "copy" /\ pc'[t] \in {"spec", "exec"}
    BY <1>3, <1>a DEF CopyPrompt, Goto, LaunchTypes, identity
  <2>2. \A u \in Terminals \ {t} : pc'[u] = pc[u]
    BY <1>3, <1>o DEF Launch
  <2>3. QED
    BY <2>1, <2>2, <1>1, <1>a, LaunchFrame DEF Carrying, PromptInv
\* The pick goes from the terminal to the spec.
<1>4. ASSUME NEW t \in Terminals, WriteSpec(t) PROVE SpecInv' /\ PromptInv'
  <2>1. /\ UNCHANGED <<tmp_prompt, picks, launches, twice, plan, persona, system, overtaken>>
        /\ pc[t] = "spec" /\ pc'[t] = "go" /\ spec' = plan[t]
    BY <1>4, <1>a DEF WriteSpec, Goto, LaunchTypes, identity, marks
  <2>2. \A u \in Terminals \ {t} : pc'[u] = pc[u] /\ (Carrying(u)' <=> Carrying(u))
    BY <1>4, <1>o DEF Launch
  <2>3. /\ Carrying(t) /\ ~Carrying(t)' /\ plan[t].id \notin twice /\ launches[plan[t].id] = 0
        /\ plan[t].id <= picks
        /\ \A u \in Terminals \ {t} : Carrying(u) => plan[u].id # plan[t].id
    BY <2>1, <1>a DEF SpecInv, Carrying
  <2>4. SpecInv'
    BY <2>1, <2>2, <2>3, <1>a, <1>i DEF SpecInv
  <2>5. PromptInv'
    BY <2>1, <2>2, <2>3, <1>a DEF PromptInv
  <2>6. QED
    BY <2>4, <2>5
\* Without a spec: with less picks on their way than before.
<1>s. ASSUME UNCHANGED <<tmp_prompt, picks, launches, twice, persona, system, overtaken>>, spec' = NoPlan,
             \A u \in Terminals :
               /\ pc'[u] \in {"copy", "spec"} => pc[u] \in {"copy", "spec"}
               /\ Carrying(u)' => Carrying(u) /\ plan'[u] = plan[u]
               /\ plan'[u] \in {plan[u], NoPlan}
      PROVE  SpecInv' /\ PromptInv'
  <2>1. spec'.id = 0 /\ \A u \in Terminals : Carrying(u)' => plan'[u].id # 0
    BY <1>s, <1>i
  <2>2. SpecInv'
    BY <2>1, <1>s, <1>a, <1>i DEF SpecInv
  <2>3. PromptInv'
    BY <2>1, <1>s, <1>a DEF PromptInv
  <2>4. QED
    BY <2>2, <2>3
<1>5. ASSUME NEW t \in Terminals, Abandon(t) PROVE SpecInv' /\ PromptInv'
  <2>1. /\ UNCHANGED <<tmp_prompt, picks, launches, twice, persona, system, overtaken>>
        /\ pc'[t] = "shell" /\ plan'[t] = NoPlan /\ spec' \in {spec, NoPlan}
    BY <1>5, <1>a DEF Abandon, Goto, LaunchTypes, identity
  <2>2. \A u \in Terminals \ {t} : UNCHANGED <<pc[u], plan[u]>> /\ (Carrying(u)' <=> Carrying(u))
    BY <1>5, <1>o DEF Launch
  <2>3. CASE spec' = spec
    BY <2>1, <2>2, <2>3, <1>1, <1>a, LaunchFrame DEF Carrying, PromptInv
  <2>4. CASE spec' = NoPlan
    BY <2>1, <2>2, <2>4, <1>s DEF Carrying
  <2>5. QED
    BY <2>1, <2>3, <2>4
<1>6. ASSUME NEW t \in Terminals, QuitPick(t) PROVE SpecInv' /\ PromptInv'
  <2>1. UNCHANGED <<tmp_prompt, picks, launches, twice, pc, plan, persona, system, overtaken>> /\ spec' = NoPlan
    BY <1>6 DEF QuitPick, identity, marks
  <2>2. QED
    BY <2>1, <1>s DEF Carrying
<1>7. ASSUME NEW t \in Terminals, Go(t) PROVE SpecInv' /\ PromptInv'
  <2>1. /\ UNCHANGED <<tmp_prompt, spec, picks, launches, twice, plan, persona, system, overtaken>>
        /\ pc'[t] = "go"
    BY <1>7, <1>a DEF Go, Goto, LaunchTypes, files, identity, marks
  <2>2. \A u \in Terminals \ {t} : pc'[u] = pc[u]
    BY <1>7, <1>o DEF Launch
  <2>3. QED
    BY <2>1, <2>2, <1>1, <1>a, LaunchFrame DEF Carrying, PromptInv
\* The pick goes from the spec to the terminal; a spec that another has read and not
\* deleted yet is read twice.
<1>8. ASSUME NEW t \in Terminals, ReadSpec(t) PROVE SpecInv' /\ PromptInv'
  <2>1. /\ UNCHANGED <<tmp_prompt, spec, picks, launches, persona, system, overtaken>>
        /\ pc[t] = "go" /\ pc'[t] = (IF spec = NoPlan THEN "shell" ELSE "consume") /\ plan'[t] = spec
    BY <1>8, <1>a DEF ReadSpec, Goto, LaunchTypes, files, identity
  <2>2. \A u \in Terminals \ {t} : UNCHANGED <<pc[u], plan[u]>> /\ (Carrying(u)' <=> Carrying(u))
    BY <1>8, <1>o DEF Launch
  <2>3. twice' = twice \cup {plan[u].id : u \in {u \in Terminals : pc[u] = "consume" /\ plan[u].id = spec.id}}
    BY <1>8 DEF ReadSpec
  <2>4. ~Carrying(t) /\ (Carrying(t)' <=> spec # NoPlan)
    BY <2>1 DEF Carrying
  <2>5. /\ twice \subseteq twice' /\ twice' \subseteq 1..picks
        /\ \A i \in twice' \ twice : i = spec.id /\ \E u \in Terminals : pc[u] = "consume" /\ plan[u].id = i
        /\ \A u \in Terminals : pc[u] = "consume" /\ plan[u].id = spec.id => spec.id \in twice'
    <3>1. \A u \in Terminals : pc[u] = "consume" => plan[u].id \in 1..picks
      BY <1>a, <1>i DEF SpecInv, Carrying
    <3>2. twice \subseteq 1..picks
      BY <1>a DEF SpecInv
    <3>3. \A i : i \in twice' <=> i \in twice \/ \E u \in Terminals : pc[u] = "consume" /\ plan[u].id = spec.id /\ i = plan[u].id
      BY <2>3
    <3>4. QED
      BY <3>1, <3>2, <3>3
  <2>6. ASSUME NEW u \in Terminals, Carrying(u), plan[u].id \notin twice', spec # NoPlan
        PROVE  plan[u].id # spec.id
    <3>1. CASE pc[u] = "consume"
      BY <2>5, <2>6, <3>1
    <3>2. CASE pc[u] # "consume"
      BY <2>5, <2>6, <3>2, <1>a DEF SpecInv
    <3>3. QED
      BY <3>1, <3>2
  <2>7. ASSUME NEW u \in Terminals, pc'[u] \in {"copy", "spec"} PROVE plan'[u].id \notin twice'
    <3>1. u # t /\ pc[u] \in {"copy", "spec"} /\ plan'[u] = plan[u] /\ Carrying(u)
      BY <2>1, <2>2, <2>7 DEF Carrying
    <3>2. plan[u].id \notin twice
      BY <3>1, <1>a DEF SpecInv
    <3>3. ASSUME plan[u].id \in twice' PROVE FALSE
      <4>1. PICK v \in Terminals : pc[v] = "consume" /\ plan[v].id = plan[u].id
        BY <3>2, <3>3, <2>5
      <4>2. v # u /\ Carrying(v)
        BY <3>1, <4>1 DEF Carrying
      <4>3. QED
        BY <3>1, <3>2, <4>1, <4>2, <1>a DEF SpecInv
    <3>4. QED
      BY <3>1, <3>3
  <2>8. ASSUME NEW u \in Terminals, Carrying(u)', plan'[u].id \notin twice'
        PROVE  /\ launches'[plan'[u].id] = 0
               /\ pc'[u] # "consume" => spec'.id # plan'[u].id
               /\ \A v \in Terminals : v # u /\ Carrying(v)' => plan'[v].id # plan'[u].id
    <3>1. CASE u = t
      <4>1. spec # NoPlan /\ spec.id \notin twice /\ plan'[u] = spec /\ pc'[u] = "consume"
        BY <3>1, <2>1, <2>4, <2>5, <2>8
      <4>2. launches[spec.id] = 0
        BY <4>1, <1>a DEF SpecInv
      <4>3. ASSUME NEW v \in Terminals, v # t, Carrying(v)' PROVE plan'[v].id # spec.id
        <5>1. Carrying(v) /\ plan'[v] = plan[v]
          BY <4>3, <2>2
        <5>2. CASE plan[v].id = spec.id
          BY <5>1, <5>2, <4>1, <2>6, <2>8
        <5>3. QED
          BY <5>1, <5>2
      <4>4. QED
        BY <3>1, <4>1, <4>2, <4>3, <2>1
    <3>2. CASE u # t
      <4>1. Carrying(u) /\ UNCHANGED <<pc[u], plan[u]>> /\ plan[u].id \notin twice
        BY <3>2, <2>2, <2>5, <2>8
      <4>2. /\ launches[plan[u].id] = 0
            /\ pc[u] # "consume" => spec.id # plan[u].id
            /\ \A v \in Terminals : v # u /\ Carrying(v) => plan[v].id # plan[u].id
        BY <4>1, <1>a DEF SpecInv
      <4>3. Carrying(t)' => plan'[t].id # plan[u].id
        BY <4>1, <2>1, <2>4, <2>6, <2>8
      <4>4. ASSUME NEW v \in Terminals, v # u, Carrying(v)' PROVE plan'[v].id # plan[u].id
        BY <4>2, <4>3, <4>4, <2>2
      <4>5. QED
        BY <4>1, <4>2, <4>4, <2>1
    <3>3. QED
      BY <3>1, <3>2
  <2>9. /\ spec'.id <= picks' /\ twice' \subseteq 1..picks'
        /\ \A u \in Terminals : plan'[u].id <= picks'
        /\ \A i \in 1..MaxPicks :
             /\ i > picks' => launches'[i] = 0
             /\ launches'[i] <= 1 \/ i \in twice'
        /\ spec' # NoPlan /\ spec'.id \notin twice' => launches'[spec'.id] = 0
    BY <2>1, <2>2, <2>5, <1>a DEF SpecInv
  <2>10. SpecInv'
    BY <2>7, <2>8, <2>9 DEF SpecInv
  <2>11. PromptInv'
    BY <2>1, <2>2, <2>4, <1>a DEF PromptInv
  <2>12. QED
    BY <2>10, <2>11
<1>9. ASSUME NEW t \in Terminals, DeleteSpec(t) PROVE SpecInv' /\ PromptInv'
  <2>1. /\ UNCHANGED <<tmp_prompt, picks, launches, plan, persona, system, overtaken>>
        /\ pc[t] = "consume" /\ pc'[t] = "exec"
    BY <1>9, <1>a DEF DeleteSpec, Goto, LaunchTypes, identity
  <2>2. \A u \in Terminals \ {t} : pc'[u] = pc[u] /\ (Carrying(u)' <=> Carrying(u))
    BY <1>9, <1>o DEF Launch
  <2>3. Carrying(t) /\ Carrying(t)' /\ plan[t].id \in 1..picks
    BY <2>1, <1>a, <1>i DEF Carrying, SpecInv
  <2>4. CASE spec' = NoPlan /\ twice' = twice
    BY <2>1, <2>2, <2>3, <2>4, <1>s
  <2>5. CASE spec' = spec /\ twice' = twice \cup {plan[t].id}
    <3>1. \A u \in Terminals : pc[u] \in {"copy", "spec"} => plan[u].id # plan[t].id
      BY <2>1, <2>3, <1>a DEF SpecInv, Carrying
    <3>2. SpecInv'
      BY <2>1, <2>2, <2>3, <2>5, <3>1, <1>a, <1>i DEF SpecInv
    <3>3. PromptInv'
      BY <2>1, <2>2, <2>3, <2>5, <1>a DEF PromptInv
    <3>4. QED
      BY <3>2, <3>3
  <2>6. QED
    BY <1>9, <2>4, <2>5 DEF DeleteSpec
\* A session is started for the pick, with its permissions and the prompt of the last.
<1>10. ASSUME NEW t \in Terminals, Exec(t) PROVE SpecInv' /\ PromptInv'
  <2>1. /\ UNCHANGED <<tmp_prompt, spec, picks, twice>> /\ pc[t] = "exec" /\ pc'[t] = "session"
        /\ persona'[t] = plan[t].persona /\ system'[t] = tmp_prompt /\ plan'[t] = NoPlan
        /\ launches' = [launches EXCEPT ![plan[t].id] = launches[plan[t].id] + 1]
        /\ t \notin overtaken' => plan[t].id = picks
    BY <1>10, <1>a DEF Exec, Begin, Goto, LaunchTypes, SessionTypes, files
  <2>2. \A u \in Terminals \ {t} : /\ UNCHANGED <<pc[u], plan[u], persona[u], system[u]>>
                                   /\ (Carrying(u)' <=> Carrying(u))
                                   /\ (u \in overtaken') <=> (u \in overtaken)
    BY <1>10, <1>o DEF Launch
  <2>3. Carrying(t) /\ ~Carrying(t)' /\ plan[t].id \in 1..MaxPicks /\ plan[t].id <= picks
    BY <2>1, <1>i, <1>a DEF Carrying, SpecInv
  <2>4. /\ \A i \in 1..MaxPicks : i # plan[t].id => launches'[i] = launches[i]
        /\ launches'[plan[t].id] = launches[plan[t].id] + 1
    BY <2>1, <2>3, <1>a DEF MarkTypes
  <2>5. plan[t].id \notin twice =>
          /\ launches[plan[t].id] = 0 /\ spec.id # plan[t].id
          /\ \A u \in Terminals : u # t /\ Carrying(u) => plan[u].id # plan[t].id
    BY <2>1, <2>3, <1>a DEF SpecInv
  <2>6. SpecInv'
    <3>1. /\ spec'.id <= picks' /\ twice' \subseteq 1..picks'
          /\ \A u \in Terminals : plan'[u].id <= picks'
      BY <2>1, <2>2, <1>a, <1>i DEF SpecInv
    <3>2. \A i \in 1..MaxPicks :
            /\ i > picks' => launches'[i] = 0
            /\ launches'[i] <= 1 \/ i \in twice'
      BY <2>1, <2>3, <2>4, <2>5, <1>a, <1>i DEF SpecInv
    <3>3. spec' # NoPlan /\ spec'.id \notin twice' => launches'[spec'.id] = 0
      BY <2>1, <2>4, <2>5, <1>a, <1>i DEF SpecInv
    <3>4. ASSUME NEW u \in Terminals
          PROVE  /\ pc'[u] \in {"copy", "spec"} => plan'[u].id \notin twice'
                 /\ Carrying(u)' /\ plan'[u].id \notin twice' =>
                      /\ launches'[plan'[u].id] = 0
                      /\ pc'[u] # "consume" => spec'.id # plan'[u].id
                      /\ \A v \in Terminals : v # u /\ Carrying(v)' => plan'[v].id # plan'[u].id
      <4>1. CASE u = t
        BY <4>1, <2>1, <2>3
      <4>2. CASE u # t
        <5>1. Carrying(u) /\ plan[u].id \notin twice => plan[u].id # plan[t].id
          BY <4>2, <2>3, <1>a DEF SpecInv
        <5>2. Carrying(u) /\ plan[u].id \notin twice => launches'[plan[u].id] = 0
          BY <5>1, <2>4, <1>a, <1>i DEF SpecInv
        <5>3. QED
          BY <4>2, <5>2, <2>1, <2>2, <2>3, <1>a DEF SpecInv
      <4>3. QED
        BY <4>1, <4>2
    <3>5. QED
      BY <3>1, <3>2, <3>3, <3>4 DEF SpecInv
  <2>7. PromptInv'
    BY <2>1, <2>2, <2>3, <1>a DEF PromptInv
  <2>8. QED
    BY <2>6, <2>7
<1>11. ASSUME NEW t \in Terminals, NEW w \in scope.workspaces, Plain(t, w) PROVE SpecInv' /\ PromptInv'
  <2>1. /\ UNCHANGED <<tmp_prompt, spec, picks, launches, twice, overtaken>> /\ pc'[t] = "session"
        /\ persona'[t] = None /\ system'[t] = None /\ plan'[t] = NoPlan
    BY <1>11, <1>a DEF Plain, Begin, Goto, LaunchTypes, SessionTypes, files, marks
  <2>2. \A u \in Terminals \ {t} : UNCHANGED <<pc[u], plan[u], persona[u], system[u]>>
    BY <1>11, <1>o DEF Launch
  <2>3. QED
    BY <2>1, <2>2, <1>1, <1>a, LaunchFrame DEF Carrying, PromptInv
<1>12. ASSUME NEW t \in Terminals, Session(t) PROVE SpecInv' /\ PromptInv'
  <2>1. /\ UNCHANGED <<tmp_prompt, spec, picks, plan, launches, twice>>
        /\ pc'[t] \in {"shell", "session", "end", "renew"}
        /\ UNCHANGED <<persona, system, overtaken>> \/ (persona'[t] = None /\ system'[t] = None)
    BY <1>12, <1>a, SessionFrame DEF InSession, Leave, SessionTypes
  <2>2. \A u \in Terminals \ {t} : UNCHANGED <<pc[u], persona[u], system[u]>>
                                   /\ (u \in overtaken' <=> u \in overtaken)
    BY <1>12, <1>o
  <2>3. QED
    BY <2>1, <2>2, <1>1, <1>a, LaunchFrame DEF Carrying, PromptInv
<1>13. CASE UNCHANGED <<tmp_prompt, spec, picks, pc, plan, persona, system, launches, twice, overtaken>>
  BY <1>13, <1>1, <1>a, LaunchFrame DEF Carrying, PromptInv
<1>14. QED
  BY <1>1, <1>2, <1>3, <1>4, <1>5, <1>6, <1>7, <1>8, <1>9, <1>10, <1>11, <1>12, <1>13, Steps, HooksFrame,
     AgeFrame DEF Launch, identity

\* Also a pick that was given up and whose spec a later --go finds starts one session
\* at most, unless its spec could not be deleted or was read side by side; and a
\* session that no other pick came before has the permissions its prompt is for.
THEOREM OneSessionPerSpec == Spec => []SpecLaunchesOnce
<1>1. LaunchInv => SpecLaunchesOnce
  BY DEF LaunchInv, SpecInv, PromptInv, SpecLaunchesOnce
<1>2. QED
  BY <1>1, InitLaunch, LaunchInvStep, PTL DEF Spec

-----------------------------------------------------------------------------
(* The prompt on its way into the session *)

\* A terminal whose prompt is in the workspace, and one whose session is to move it.
Copied(t, w) == pc[t] \in {"spec", "go", "consume", "exec"} /\ plan[t].ws = w
Arriving(t, w) == Running(t) /\ source[t] = "startup" /\ orient[t] = "move" /\ dir[t] = w
Reading(t) == pc[t] \in {"go", "consume"} /\ plan[t] = spec

\* In a sound workspace, the prompt is that of the launch under way there, and so
\* is the launch spec.
Sound(w) == w \notin spoilt \cup mixed
WorkspaceAt(w) ==
  /\ ~Overlap(w)
  /\ ws_prompt[w] # None => \E t \in Terminals : Copied(t, w) \/ Arriving(t, w)
  /\ \A t \in Terminals :
       /\ Copied(t, w) => ws_prompt[w] = plan[t].persona
       /\ Arriving(t, w) => ws_prompt[w] = persona[t]
  /\ spec # NoPlan /\ spec.ws = w => \E t \in Terminals : Reading(t)
WorkspaceInv == \A w \in Workspaces : Sound(w) => WorkspaceAt(w)

LEMMA InitWorkspace == Init => WorkspaceInv
  BY DEF Init, WorkspaceInv, WorkspaceAt, Overlap, LaunchingIn, Clearing, Copied, Arriving, Running

\* What spoils a workspace spoils it for good.
LEMMA SpoiltStays == [Next]_vars => spoilt \subseteq spoilt'
<1>1. SUFFICES ASSUME [Next]_vars PROVE spoilt \subseteq spoilt'
  OBVIOUS
<1>2. ASSUME NEW t \in Terminals, Preparing(t) \/ Exec(t) \/ (\E w \in scope.workspaces : Plain(t, w))
      PROVE  spoilt \subseteq spoilt'
  <2>1. CASE \E p \in Personas, w \in scope.workspaces : Pick(t, p, w)
    BY <2>1 DEF Pick
  <2>2. CASE CopyPrompt(t) \/ DeleteSpec(t) \/ Abandon(t) \/ ReadSpec(t)
    BY <2>2 DEF CopyPrompt, DeleteSpec, Abandon, ReadSpec, Well, Fails, Spoil
  <2>3. CASE WriteSpec(t) \/ QuitPick(t) \/ Go(t) \/ Exec(t) \/ (\E w \in scope.workspaces : Plain(t, w))
    BY <2>3 DEF WriteSpec, QuitPick, Go, Exec, Plain, marks
  <2>4. QED
    BY <1>2, <2>1, <2>2, <2>3 DEF Preparing
<1>3. ASSUME NEW t \in Terminals, Session(t) PROVE spoilt \subseteq spoilt'
  BY <1>3 DEF Session, Again, Cd, Clear, Handoff, Renew, Exit, Die, Well, Fails, Spoil, marks
<1>4. ASSUME NEW t \in Terminals, Hooks(t) PROVE spoilt \subseteq spoilt'
  <2>1. CASE Move(t) \/ Take(t)
    BY <2>1 DEF Move, Take, Well, Fails, Spoil
  <2>2. CASE InjectStep(t)
    BY <2>2, InjectFrame DEF marks
  <2>3. QED
    BY <1>4, <2>1, <2>2 DEF Hooks, InjectStep
<1>5. QED
  BY <1>1, <1>2, <1>3, <1>4, Steps, AgeFrame DEF Launch, Preparing

LEMMA SoundBefore ==
  ASSUME TypeOK, WorkspaceInv, [Next]_vars, NEW w \in Workspaces, Sound(w)'
  PROVE  /\ Sound(w) /\ WorkspaceAt(w)
         /\ w \notin spoilt' /\ ~Overlap(w) /\ ~Overlap(w)'
<1>1. mixed \subseteq mixed' /\ spoilt \subseteq spoilt'
  BY Steps, SpoiltStays DEF vars
<1>2. Sound(w) /\ WorkspaceAt(w) /\ ~Overlap(w) /\ w \notin spoilt'
  BY <1>1 DEF Sound, WorkspaceInv, WorkspaceAt
<1>3. CASE UNCHANGED vars
  BY <1>2, <1>3 DEF Overlap, LaunchingIn, Clearing, Settled, Running, vars, identity, hooks
<1>4. CASE mixed' = mixed \cup {w1 \in Workspaces : Overlap(w1)'}
  <2>1. ~Overlap(w)'
    BY <1>4 DEF Sound
  <2>2. QED
    BY <1>2, <2>1
<1>5. QED
  BY <1>2, <1>3, <1>4, Steps

\* Who is where, in the terms of Overlap.
LEMMA Apart ==
  ASSUME NEW w, ~Overlap(w), NEW t \in Terminals, NEW u \in Terminals, t # u
  PROVE  /\ ~(LaunchingIn(t, w) /\ LaunchingIn(u, w))
         /\ ~(LaunchingIn(t, w) /\ Running(u) /\ orient[u] = "move" /\ dir[u] = w)
         /\ ~(Clearing(t) /\ Clearing(u) /\ dir[t] = w /\ dir[u] = w)
  BY DEF Overlap
LEMMA ApartThen ==
  ASSUME NEW w, ~Overlap(w)', NEW t \in Terminals, NEW u \in Terminals, t # u
  PROVE  /\ ~(LaunchingIn(t, w)' /\ LaunchingIn(u, w)')
         /\ ~(LaunchingIn(t, w)' /\ Running(u)' /\ orient'[u] = "move" /\ dir'[u] = w)
         /\ ~(Clearing(t)' /\ Clearing(u)' /\ dir'[t] = w /\ dir'[u] = w)
  BY DEF Overlap
LEMMA LaunchesIn ==
  ASSUME NEW t, NEW w
  PROVE  /\ Copied(t, w) \/ Arriving(t, w) => LaunchingIn(t, w)
         /\ Copied(t, w)' \/ Arriving(t, w)' => LaunchingIn(t, w)'
  BY DEF Copied, Arriving, LaunchingIn

LEMMA WorkspaceInvStep == LaunchInv /\ WorkspaceInv /\ [Next]_vars => WorkspaceInv'
<1>1. SUFFICES ASSUME LaunchInv, WorkspaceInv, [Next]_vars, NEW w \in Workspaces, Sound(w)'
               PROVE  WorkspaceAt(w)'
  BY DEF WorkspaceInv
<1>a. /\ TypeOK /\ LaunchTypes /\ FileTypes /\ SessionTypes /\ HookTypes /\ MarkTypes
      /\ scope.workspaces \subseteq Workspaces /\ NoPlan.ws = None /\ w # None
  BY <1>1, ScopeTypes, NoneAssumption DEF LaunchInv, TypeOK, SessionTypes, NoPlan
<1>b. Sound(w) /\ WorkspaceAt(w) /\ w \notin spoilt' /\ ~Overlap(w) /\ ~Overlap(w)'
  BY <1>1, <1>a, SoundBefore
<1>o. ASSUME NEW t \in Terminals, Launch(t) \/ Session(t) \/ Hooks(t), NEW u \in Terminals, u # t
      PROVE  /\ UNCHANGED <<pc[u], plan[u], persona[u], dir[u], source[u], orient[u]>>
             /\ Copied(u, w)' <=> Copied(u, w)
             /\ Arriving(u, w)' <=> Arriving(u, w)
  BY <1>o, <1>a, OthersFrame DEF Copied, Arriving, Running
\* One terminal t that neither brings a prompt to w nor takes one.
<1>f. ASSUME NEW t \in Terminals, Launch(t) \/ Session(t) \/ Hooks(t), ws_prompt'[w] = ws_prompt[w],
             ~Copied(t, w), ~Arriving(t, w), ~Copied(t, w)', ~Arriving(t, w)',
             spec' \in {spec, NoPlan}, Reading(t) /\ spec.ws = w => spec' = NoPlan \/ Reading(t)'
      PROVE  WorkspaceAt(w)'
  <2>1. \A u \in Terminals \ {t} : (Copied(u, w)' <=> Copied(u, w)) /\ (Arriving(u, w)' <=> Arriving(u, w))
                                 /\ UNCHANGED <<pc[u], plan[u], persona[u]>>
    BY <1>f, <1>o
  <2>2. ws_prompt'[w] # None => \E u \in Terminals : Copied(u, w)' \/ Arriving(u, w)'
    BY <2>1, <1>f, <1>b DEF WorkspaceAt
  <2>3. \A u \in Terminals : /\ Copied(u, w)' => ws_prompt'[w] = plan'[u].persona
                             /\ Arriving(u, w)' => ws_prompt'[w] = persona'[u]
    BY <2>1, <1>f, <1>b DEF WorkspaceAt
  <2>4. ASSUME spec' # NoPlan, spec'.ws = w PROVE \E u \in Terminals : Reading(u)'
    <3>1. spec' = spec /\ \E u \in Terminals : Reading(u)
      BY <2>4, <1>f, <1>b DEF WorkspaceAt
    <3>2. QED
      BY <3>1, <2>1, <1>f, <2>4 DEF Reading
  <2>5. QED
    BY <2>2, <2>3, <2>4, <1>b DEF WorkspaceAt
<1>2. ASSUME NEW t \in Terminals, NEW p \in Personas, NEW w0 \in scope.workspaces, Pick(t, p, w0)
      PROVE  WorkspaceAt(w)'
  <2>1. /\ UNCHANGED <<ws_prompt, spec, identity, hooks>> /\ pc[t] = "shell" /\ pc'[t] \in {"shell", "copy"}
    BY <1>2, <1>a DEF Pick, Goto, LaunchTypes
  <2>2. QED
    BY <1>2, <2>1, <1>f DEF Launch, Copied, Arriving, Running, Reading
\* The prompt is there, and nobody else is on the way to w.
<1>3. ASSUME NEW t \in Terminals, CopyPrompt(t) PROVE WorkspaceAt(w)'
  <2>1. /\ UNCHANGED <<spec, plan, identity, hooks>> /\ pc[t] = "copy" /\ pc'[t] \in {"spec", "exec"}
    BY <1>3, <1>a DEF CopyPrompt, Goto, LaunchTypes
  <2>2. CASE plan[t].ws # w
    <3>1. ws_prompt'[w] = ws_prompt[w]
      BY <1>3, <2>2, <1>a DEF CopyPrompt, Torn, FileTypes
    <3>2. QED
      BY <1>3, <2>1, <2>2, <3>1, <1>f DEF Launch, Copied, Arriving, Running, Reading
  <2>3. CASE plan[t].ws = w
    <3>1. ws_prompt' = [ws_prompt EXCEPT ![w] = plan[t].persona]
      BY <1>3, <2>3, <1>b DEF CopyPrompt, Fails, Spoil
    <3>2. ws_prompt'[w] = plan[t].persona /\ Copied(t, w)' /\ plan'[t] = plan[t] /\ ~Arriving(t, w)'
      BY <2>1, <2>3, <3>1, <1>a DEF Copied, Arriving, Running, FileTypes
    <3>3. \A u \in Terminals \ {t} : ~Copied(u, w)' /\ ~Arriving(u, w)'
      BY <3>2, <1>b, ApartThen, LaunchesIn
    <3>4. ASSUME spec' # NoPlan, spec'.ws = w PROVE \E u \in Terminals : Reading(u)'
      <4>1. PICK u \in Terminals : Reading(u)
        BY <2>1, <3>4, <1>b DEF WorkspaceAt
      <4>2. u # t
        BY <4>1, <2>1 DEF Reading
      <4>3. QED
        BY <4>1, <4>2, <1>3, <1>o, <2>1 DEF Launch, Reading
    <3>5. QED
      BY <3>2, <3>3, <3>4, <1>b DEF WorkspaceAt
  <2>4. QED
    BY <2>2, <2>3
<1>4. ASSUME NEW t \in Terminals, WriteSpec(t) PROVE WorkspaceAt(w)'
  <2>1. /\ UNCHANGED <<ws_prompt, plan, identity, hooks>> /\ pc[t] = "spec" /\ pc'[t] = "go" /\ spec' = plan[t]
    BY <1>4, <1>a DEF WriteSpec, Goto, LaunchTypes
  <2>2. \A u \in Terminals : /\ Copied(u, w)' <=> Copied(u, w)
                             /\ Arriving(u, w)' <=> Arriving(u, w)
                             /\ UNCHANGED <<plan[u], persona[u]>>
    BY <1>4, <2>1, <1>o DEF Launch, Copied, Arriving, Running, identity
  <2>3. Reading(t)'
    BY <2>1 DEF Reading
  <2>4. QED
    BY <2>1, <2>2, <2>3, <1>b DEF WorkspaceAt
<1>5. ASSUME NEW t \in Terminals, Abandon(t) PROVE WorkspaceAt(w)'
  <2>1. /\ spec' \in {spec, NoPlan} /\ pc[t] \in {"copy", "spec", "go", "consume", "exec"} /\ pc'[t] = "shell"
        /\ ws_prompt' = ws_prompt \/ ws_prompt' \in Torn(plan[t].ws)
    BY <1>5, <1>a DEF Abandon, Goto, LaunchTypes
  <2>2. plan[t].ws # w
    <3>1. plan[t] # NoPlan => spoilt' = spoilt \cup {plan[t].ws}
      BY <1>5 DEF Abandon, Fails, Spoil
    <3>2. QED
      BY <3>1, <1>a, <1>b
  <2>3. ws_prompt'[w] = ws_prompt[w]
    BY <2>1, <2>2, <1>a DEF Torn, FileTypes
  <2>4. QED
    BY <1>5, <2>1, <2>2, <2>3, <1>f DEF Launch, Copied, Arriving, Running, Reading
<1>6. ASSUME NEW t \in Terminals, QuitPick(t) PROVE WorkspaceAt(w)'
  <2>1. /\ UNCHANGED <<ws_prompt, pc, plan, identity, hooks>> /\ spec' = NoPlan /\ pc[t] = "shell"
    BY <1>6 DEF QuitPick
  <2>2. QED
    BY <1>6, <2>1, <1>f DEF Launch, Copied, Arriving, Running, Reading
<1>7. ASSUME NEW t \in Terminals, Go(t) PROVE WorkspaceAt(w)'
  <2>1. /\ UNCHANGED <<ws_prompt, spec, plan, identity, hooks>> /\ pc[t] = "shell" /\ pc'[t] = "go"
        /\ plan[t] = NoPlan
    BY <1>7, <1>a DEF Go, Goto, LaunchTypes, files
  <2>2. QED
    BY <1>7, <2>1, <1>a, <1>f DEF Launch, Copied, Arriving, Running, Reading
\* The spec that is read for w is the one the terminal wrote: the launch under way there
\* would be a second one otherwise.
<1>8. ASSUME NEW t \in Terminals, ReadSpec(t) PROVE WorkspaceAt(w)'
  <2>1. /\ UNCHANGED <<ws_prompt, spec, identity, hooks>> /\ pc[t] = "go" /\ plan'[t] = spec
        /\ pc'[t] = (IF spec = NoPlan THEN "shell" ELSE "consume")
    BY <1>8, <1>a DEF ReadSpec, Goto, LaunchTypes, files
  <2>2. plan[t] # spec => plan[t].ws # w
    <3>1. plan[t] \notin {NoPlan, spec} => spoilt' = spoilt \cup {plan[t].ws}
      BY <1>8 DEF ReadSpec, Spoil
    <3>2. QED
      BY <3>1, <1>a, <1>b
  <2>3. CASE spec.ws # w
    <3>1. plan[t].ws # w
      BY <2>2, <2>3
    <3>2. QED
      BY <1>8, <2>1, <2>3, <3>1, <1>f DEF Launch, Copied, Arriving, Running, Reading
  <2>4. CASE spec.ws = w
    <3>1. spec # NoPlan /\ pc'[t] = "consume" /\ Reading(t)' /\ Copied(t, w)'
      BY <2>1, <2>4, <1>a DEF Reading, Copied
    <3>2. PICK u \in Terminals : Reading(u)
      BY <2>4, <3>1, <1>b DEF WorkspaceAt
    <3>3. u = t
      <4>1. SUFFICES ASSUME u # t PROVE FALSE
        OBVIOUS
      <4>2. Copied(u, w)
        BY <2>4, <3>2 DEF Reading, Copied
      <4>3. Copied(u, w)'
        BY <4>1, <4>2, <1>8, <1>o DEF Launch
      <4>4. QED
        BY <3>1, <4>1, <4>3, <1>b, ApartThen, LaunchesIn
    <3>4. plan[t] = spec /\ Copied(t, w)
      BY <3>2, <3>3, <2>1, <2>4 DEF Reading, Copied
    <3>5. \A v \in Terminals : /\ Copied(v, w)' <=> Copied(v, w)
                               /\ Arriving(v, w)' <=> Arriving(v, w)
                               /\ UNCHANGED <<plan[v], persona[v]>>
      <4>1. UNCHANGED plan[t] /\ (Arriving(t, w)' <=> Arriving(t, w)) /\ UNCHANGED persona
        BY <3>4, <2>1, <3>1 DEF Arriving, Running, identity
      <4>2. QED
        BY <4>1, <3>1, <3>4, <1>8, <1>o DEF Launch
    <3>6. QED
      BY <3>1, <3>5, <2>1, <1>b DEF WorkspaceAt
  <2>5. QED
    BY <2>3, <2>4
<1>9. ASSUME NEW t \in Terminals, DeleteSpec(t) PROVE WorkspaceAt(w)'
  <2>1. /\ UNCHANGED <<ws_prompt, plan, identity, hooks>> /\ pc[t] = "consume" /\ pc'[t] = "exec"
        /\ spec' = NoPlan \/ (spec' = spec /\ spoilt' = spoilt \cup {plan[t].ws})
    BY <1>9, <1>a DEF DeleteSpec, Goto, LaunchTypes, Fails, Spoil
  <2>2. \A u \in Terminals : /\ Copied(u, w)' <=> Copied(u, w)
                             /\ Arriving(u, w)' <=> Arriving(u, w)
                             /\ UNCHANGED <<plan[u], persona[u]>>
    BY <1>9, <2>1, <1>o DEF Launch, Copied, Arriving, Running, identity
  <2>3. ASSUME spec' # NoPlan, spec'.ws = w PROVE \E u \in Terminals : Reading(u)'
    <3>1. spec' = spec /\ plan[t].ws # w
      BY <2>1, <2>3, <1>b
    <3>2. PICK u \in Terminals : Reading(u)
      BY <3>1, <2>3, <1>b DEF WorkspaceAt
    <3>3. u # t
      BY <3>1, <3>2, <2>3 DEF Reading
    <3>4. QED
      BY <3>1, <3>2, <3>3, <1>9, <1>o DEF Launch, Reading
  <2>4. QED
    BY <2>1, <2>2, <2>3, <1>b DEF WorkspaceAt
\* A session that begins finds its prompt in its workspace.
<1>10. ASSUME NEW t \in Terminals, Exec(t) PROVE WorkspaceAt(w)'
  <2>1. /\ UNCHANGED <<spec, ws_prompt>> /\ pc[t] = "exec" /\ pc'[t] = "session"
        /\ persona'[t] = plan[t].persona /\ dir'[t] = plan[t].ws /\ plan'[t] = NoPlan
        /\ source'[t] = "startup" /\ orient'[t] = "move"
    BY <1>10, <1>a DEF Exec, Begin, Event, Goto, LaunchTypes, SessionTypes, HookTypes, files
  <2>2. /\ Copied(t, w) <=> plan[t].ws = w
        /\ Arriving(t, w)' <=> plan[t].ws = w
        /\ ~Arriving(t, w) /\ ~Copied(t, w)'
    BY <2>1 DEF Copied, Arriving, Running
  <2>3. ASSUME NEW u \in Terminals, u # t
        PROVE  /\ UNCHANGED <<pc[u], plan[u], persona[u]>>
               /\ Copied(u, w)' <=> Copied(u, w)
               /\ Arriving(u, w)' <=> Arriving(u, w)
    BY <1>10, <2>3, <1>o DEF Launch
  <2>4. ws_prompt'[w] # None => \E u \in Terminals : Copied(u, w)' \/ Arriving(u, w)'
    BY <2>1, <2>2, <2>3, <1>b DEF WorkspaceAt
  <2>5. \A u \in Terminals : /\ Copied(u, w)' => ws_prompt'[w] = plan'[u].persona
                             /\ Arriving(u, w)' => ws_prompt'[w] = persona'[u]
    BY <2>1, <2>2, <2>3, <1>b DEF WorkspaceAt
  <2>6. ~Reading(t)
    BY <2>1 DEF Reading
  <2>7. spec' # NoPlan /\ spec'.ws = w => \E u \in Terminals : Reading(u)'
    BY <2>1, <2>3, <2>6, <1>b DEF WorkspaceAt, Reading
  <2>8. QED
    BY <2>4, <2>5, <2>7, <1>b DEF WorkspaceAt
\* A session that has no prompt begins where none lies: there would be a launch under way.
<1>11. ASSUME NEW t \in Terminals, NEW w0 \in scope.workspaces, Plain(t, w0) PROVE WorkspaceAt(w)'
  <2>1. /\ UNCHANGED <<spec, ws_prompt>> /\ pc[t] = "shell" /\ pc'[t] = "session"
        /\ persona'[t] = None /\ dir'[t] = w0 /\ source'[t] = "startup" /\ orient'[t] = "move"
    BY <1>11, <1>a DEF Plain, Begin, Event, Goto, LaunchTypes, SessionTypes, HookTypes, files
  <2>2. ~Copied(t, w) /\ ~Arriving(t, w) /\ ~Copied(t, w)' /\ ~Reading(t) /\ (Arriving(t, w)' <=> w0 = w)
    BY <2>1 DEF Copied, Arriving, Running, Reading
  <2>3. CASE w0 # w
    BY <1>11, <2>1, <2>2, <2>3, <1>f DEF Launch
  <2>4. CASE w0 = w
    <3>1. \A u \in Terminals \ {t} : ~Copied(u, w)' /\ ~Arriving(u, w)'
      BY <2>2, <2>4, <1>b, ApartThen, LaunchesIn
    <3>2. \A u \in Terminals : ~Copied(u, w) /\ ~Arriving(u, w)
      BY <3>1, <2>2, <1>11, <1>o DEF Launch
    <3>3. ws_prompt'[w] = None
      BY <3>2, <2>1, <1>b DEF WorkspaceAt
    <3>4. spec' # NoPlan /\ spec'.ws = w => \E u \in Terminals : Reading(u)'
      BY <1>11, <2>1, <2>2, <1>o, <1>b DEF WorkspaceAt, Reading, Launch
    <3>5. QED
      BY <3>1, <3>3, <3>4, <2>1, <2>2, <1>b DEF WorkspaceAt
  <2>5. QED
    BY <2>3, <2>4
<1>12. ASSUME NEW t \in Terminals, Session(t) PROVE WorkspaceAt(w)'
  <2>1. /\ UNCHANGED <<spec, ws_prompt, plan>> /\ pc[t] \in InSession /\ pc'[t] \in InSession \cup {"shell"}
    BY <1>12, <1>a, SessionFrame
  <2>2. ~Copied(t, w) /\ ~Copied(t, w)' /\ ~Reading(t)
    BY <2>1 DEF Copied, Reading, InSession
  <2>3. ~Arriving(t, w) /\ ~Arriving(t, w)'
    <3>1. CASE Again(t) \/ Renew(t)
      BY <3>1, <1>a DEF Again, Renew, Event, Arriving, Settled, Running, HookTypes
    <3>2. CASE (\E w1 \in scope.workspaces : Cd(t, w1)) \/ Clear(t) \/ Handoff(t)
      BY <3>2, <1>a DEF Cd, Clear, Handoff, Goto, Arriving, Settled, Running, LaunchTypes, hooks, identity
    <3>3. CASE Exit(t)
      BY <3>3, <1>a DEF Exit, Leave, Goto, Arriving, Settled, Running, LaunchTypes
    <3>4. CASE Die(t)
      <4>1. pc'[t] = "shell"
        BY <3>4, <1>a DEF Die, Leave, Goto, LaunchTypes
      <4>2. ASSUME Arriving(t, w) PROVE FALSE
        <5>1. LaunchingIn(t, dir[t]) /\ dir[t] = w
          BY <4>2 DEF Arriving, LaunchingIn
        <5>2. QED
          BY <3>4, <5>1, <1>b DEF Die, Spoil
      <4>3. QED
        BY <4>1, <4>2 DEF Arriving, Running
    <3>5. QED
      BY <1>12, <3>1, <3>2, <3>3, <3>4 DEF Session
  <2>4. QED
    BY <1>12, <2>1, <2>2, <2>3, <1>f
\* The one that takes the prompt up is the one it is for.
<1>13. ASSUME NEW t \in Terminals, Move(t) PROVE WorkspaceAt(w)'
  <2>1. /\ UNCHANGED <<spec, pc, plan, identity>> /\ orient[t] = "move" /\ orient'[t] = "take"
        /\ pc[t] = "session" /\ dir[t] \in Workspaces
    BY <1>13, <1>a DEF Move, OrientGoesOn, HookTypes, Running
  <2>2. ~Copied(t, w) /\ ~Copied(t, w)' /\ ~Arriving(t, w)' /\ ~Reading(t)
    BY <2>1 DEF Copied, Arriving, Reading
  <2>3. CASE dir[t] # w
    <3>1. ws_prompt'[w] = ws_prompt[w] /\ ~Arriving(t, w)
      BY <1>13, <2>3, <1>a DEF Move, FileTypes, Arriving
    <3>2. QED
      BY <1>13, <2>1, <2>2, <3>1, <1>f DEF Hooks
  <2>4. CASE dir[t] = w
    <3>1. ws_prompt'[w] = None
      BY <1>13, <2>4, <1>a, <1>b DEF Move, Fails, Spoil, FileTypes
    <3>2. \A u \in Terminals \ {t} : (Copied(u, w)' <=> Copied(u, w)) /\ (Arriving(u, w)' <=> Arriving(u, w))
                                   /\ UNCHANGED <<pc[u], plan[u], persona[u]>>
      BY <1>13, <1>o DEF Hooks
    <3>3. \A u \in Terminals : Copied(u, w)' => ws_prompt'[w] = plan'[u].persona
      <4>1. SUFFICES ASSUME NEW u \in Terminals, Copied(u, w)' PROVE ws_prompt'[w] = plan'[u].persona
        OBVIOUS
      <4>2. u # t /\ Copied(u, w)
        BY <4>1, <2>2, <3>2
      <4>3. QED
        BY <4>2, <2>1, <2>4, <1>b, Apart, LaunchesIn DEF Running
    <3>4. \A u \in Terminals : Arriving(u, w)' => ws_prompt'[w] = persona'[u]
      <4>1. SUFFICES ASSUME NEW u \in Terminals, Arriving(u, w)' PROVE ws_prompt'[w] = persona'[u]
        OBVIOUS
      <4>2. u # t /\ Arriving(u, w)
        BY <4>1, <2>2, <3>2
      <4>3. QED
        BY <4>2, <2>1, <2>4, <1>b, Apart, LaunchesIn DEF Running
    <3>5. spec' # NoPlan /\ spec'.ws = w => \E u \in Terminals : Reading(u)'
      BY <2>1, <2>2, <3>2, <1>b DEF WorkspaceAt, Reading
    <3>6. QED
      BY <3>1, <3>3, <3>4, <3>5, <1>b DEF WorkspaceAt
  <2>5. QED
    BY <2>3, <2>4
\* A step that changes nothing of this.
<1>s. ASSUME UNCHANGED <<spec, ws_prompt, pc, plan, identity>>,
             \A u \in Terminals : orient'[u] = "move" <=> orient[u] = "move"
      PROVE  WorkspaceAt(w)'
  <2>1. \A u \in Terminals : /\ Copied(u, w)' <=> Copied(u, w)
                             /\ Arriving(u, w)' <=> Arriving(u, w)
                             /\ Reading(u)' <=> Reading(u)
                             /\ UNCHANGED <<plan[u], persona[u]>>
    BY <1>s DEF Copied, Arriving, Reading, Running, identity
  <2>2. QED
    BY <2>1, <1>s, <1>b DEF WorkspaceAt
<1>14. ASSUME NEW t \in Terminals, Take(t) \/ InjectStep(t) PROVE WorkspaceAt(w)'
  <2>1. UNCHANGED <<spec, ws_prompt, pc, plan, identity>>
    BY <1>14, InjectFrame DEF Take, OrientGoesOn, files
  <2>2. \A u \in Terminals : orient'[u] = "move" <=> orient[u] = "move"
    BY <1>14, <1>a, InjectFrame DEF Take, OrientGoesOn, HookTypes
  <2>3. QED
    BY <2>1, <2>2, <1>s
<1>15. CASE (\E w1 \in scope.workspaces : Age(w1)) \/ UNCHANGED vars
  BY <1>15, <1>s, AgeFrame DEF hooks
<1>16. QED
  BY <1>1, <1>2, <1>3, <1>4, <1>5, <1>6, <1>7, <1>8, <1>9, <1>10, <1>11, <1>12, <1>13, <1>14, <1>15, Steps
     DEF Launch, Hooks, InjectStep

-----------------------------------------------------------------------------
(* The prompt in the session *)

\* No two sessions have the same id; an id has a prompt in the directory of its
\* session only.
SidInv ==
  /\ \A t \in Terminals :
       /\ sid[t] <= sessions
       /\ pc[t] \in InSession => sid[t] # 0
       /\ t \notin strayed => cwd[t] = dir[t]
       /\ \A w \in Workspaces : sid[t] # 0 /\ w # dir[t] => session_prompt[<<w, sid[t]>>] = None
  /\ \A t, u \in Terminals : t # u /\ sid[t] # 0 => sid[t] # sid[u]
  /\ \A w \in Workspaces, i \in Ids : i > sessions => session_prompt[<<w, i>>] = None

LEMMA InitSid == TypeOK /\ Init => SidInv
  BY DEF Init, SidInv, Ids, InSession

\* A new id has no prompt yet.
LEMMA NewSid ==
  ASSUME TypeOK, SidInv, NEW t \in Terminals, NewId(t), UNCHANGED <<session_prompt, strayed>>,
         sessions' \in Ids, t \notin strayed => cwd'[t] = dir'[t],
         \A u \in Terminals : /\ pc'[u] \in InSession => u = t \/ pc[u] \in InSession
                              /\ u # t => UNCHANGED <<dir[u], cwd[u]>>
  PROVE  /\ SidInv'
         /\ sid'[t] = sessions + 1
         /\ \A w \in Workspaces : session_prompt'[<<w, sid'[t]>>] = None
<1>a. SessionTypes /\ sessions \in Nat /\ \A u \in Terminals : sid[u] \in Nat
  BY DEF TypeOK, SessionTypes, Ids
<1>1. sessions' = sessions + 1 /\ sid' = [sid EXCEPT ![t] = sessions + 1]
  BY DEF NewId
<1>2. sid'[t] = sessions + 1 /\ \A u \in Terminals \ {t} : sid'[u] = sid[u]
  BY <1>1, <1>a DEF SessionTypes
<1>3. \A w \in Workspaces : session_prompt'[<<w, sid'[t]>>] = None
  BY <1>1, <1>2, <1>a DEF SidInv
<1>4. ASSUME NEW u \in Terminals
      PROVE  /\ sid'[u] <= sessions'
             /\ pc'[u] \in InSession => sid'[u] # 0
             /\ u \notin strayed' => cwd'[u] = dir'[u]
             /\ \A w \in Workspaces : sid'[u] # 0 /\ w # dir'[u] => session_prompt'[<<w, sid'[u]>>] = None
  <2>1. CASE u = t
    BY <2>1, <1>1, <1>2, <1>3, <1>a
  <2>2. CASE u # t
    BY <2>2, <1>1, <1>2, <1>a DEF SidInv
  <2>3. QED
    BY <2>1, <2>2
<1>5. \A u, v \in Terminals : u # v /\ sid'[u] # 0 => sid'[u] # sid'[v]
  BY <1>1, <1>2, <1>a DEF SidInv
<1>6. \A w \in Workspaces, i \in Ids : i > sessions' => session_prompt'[<<w, i>>] = None
  <2>1. \A i \in Ids : i > sessions + 1 => i > sessions
    BY <1>a DEF Ids
  <2>2. QED
    BY <1>1, <2>1 DEF SidInv
<1>7. QED
  BY <1>2, <1>3, <1>4, <1>5, <1>6 DEF SidInv

\* The directory of a session is no other's.
LEMMA OwnsApart ==
  ASSUME SidInv, NEW t \in Terminals, NEW u \in Terminals, t # u, pc[t] \in InSession
  PROVE  sid[t] # sid[u] /\ Own(t) # Own(u)
  BY DEF SidInv, Own

LEMMA SidInvStep == TypeOK /\ SidInv /\ [Next]_vars => SidInv'
<1>1. SUFFICES ASSUME TypeOK, SidInv, [Next]_vars PROVE SidInv'
  OBVIOUS
<1>a. LaunchTypes /\ FileTypes /\ SessionTypes /\ HookTypes /\ MarkTypes /\ SessionTypes' /\ sessions' \in Ids
  BY <1>1, SessionTypesStep DEF TypeOK, SessionTypes
<1>o. ASSUME NEW t \in Terminals, Launch(t) \/ Session(t) \/ Hooks(t), NEW u \in Terminals, u # t
      PROVE  UNCHANGED <<pc[u], dir[u], cwd[u], sid[u]>> /\ (u \in strayed' <=> u \in strayed)
  BY <1>o, <1>1, OthersFrame
<1>2. ASSUME NEW t \in Terminals, Exec(t) \/ (\E w \in scope.workspaces : Plain(t, w))
      PROVE  SidInv'
  <2>1. PICK w, p, prompt : Begin(t, w, p, prompt)
    BY <1>2 DEF Exec, Plain
  <2>2. NewId(t) /\ UNCHANGED <<session_prompt, strayed>>
    BY <1>2, <2>1 DEF Exec, Plain, Begin, files, marks
  <2>3. cwd'[t] = dir'[t]
    BY <2>1, <1>a DEF Begin, SessionTypes
  <2>4. \A u \in Terminals : u # t => UNCHANGED <<pc[u], dir[u], cwd[u]>>
    BY <1>2, <1>o DEF Launch
  <2>5. QED
    BY <2>2, <2>3, <2>4, <1>1, <1>a, NewSid
<1>3. ASSUME NEW t \in Terminals, Renew(t) PROVE SidInv'
  <2>1. NewId(t) /\ UNCHANGED <<session_prompt, strayed, dir, cwd>>
    BY <1>3 DEF Renew, files, marks
  <2>2. \A u \in Terminals : u # t => UNCHANGED pc[u]
    BY <1>3, <1>o DEF Session
  <2>3. QED
    BY <2>1, <2>2, <1>1, <1>a, NewSid DEF SidInv
\* No id is given.
<1>b. ASSUME UNCHANGED <<sessions, sid, dir, session_prompt>>,
             \A t \in Terminals : /\ pc'[t] \in InSession => pc[t] \in InSession
                                  /\ t \notin strayed' => t \notin strayed /\ cwd'[t] = cwd[t]
      PROVE  SidInv'
  BY <1>b, <1>1 DEF SidInv
<1>4. ASSUME NEW t \in Terminals, Preparing(t) PROVE SidInv'
  <2>1. /\ UNCHANGED <<session_prompt, sessions, identity, strayed>>
        /\ \A u \in Terminals : pc'[u] = pc[u] \/ pc'[u] \notin InSession
    BY <1>4, <1>a, PreparingFrame DEF LaunchTypes, InSession
  <2>2. QED
    BY <2>1, <1>b DEF identity
<1>5. ASSUME NEW t \in Terminals, Again(t) \/ Clear(t) \/ Handoff(t) PROVE SidInv'
  <2>1. UNCHANGED <<session_prompt, sessions, sid, dir, cwd, strayed>> /\ pc[t] \in InSession
    BY <1>5 DEF Again, Clear, Handoff, Settled, Running, InSession, files, identity, marks
  <2>2. \A u \in Terminals : u # t => UNCHANGED pc[u]
    BY <1>5, <1>o DEF Session
  <2>3. QED
    BY <2>1, <2>2, <1>b
<1>6. ASSUME NEW t \in Terminals, NEW w \in scope.workspaces, Cd(t, w) PROVE SidInv'
  <2>1. UNCHANGED <<session_prompt, sessions, sid, dir, pc>> /\ strayed' = strayed \cup {t}
        /\ \A u \in Terminals \ {t} : cwd'[u] = cwd[u]
    BY <1>6, <1>o DEF Cd, Session, files
  <2>2. QED
    BY <2>1, <1>b
<1>7. ASSUME NEW t \in Terminals, Exit(t) \/ Die(t) PROVE SidInv'
  <2>1. /\ UNCHANGED <<session_prompt, sessions>> /\ pc'[t] = "shell"
        /\ sid'[t] = 0 /\ cwd'[t] = None /\ dir'[t] = None /\ strayed' \subseteq strayed
    BY <1>7, <1>a DEF Exit, Die, Leave, Goto, LaunchTypes, SessionTypes, files
  <2>2. \A u \in Terminals \ {t} : UNCHANGED <<pc[u], dir[u], cwd[u], sid[u]>> /\ (u \in strayed' <=> u \in strayed)
    BY <1>7, <1>o DEF Session
  <2>3. sessions \in Nat
    BY <1>a DEF SessionTypes, Ids
  <2>4. QED
    BY <2>1, <2>2, <2>3, <1>1 DEF SidInv, InSession
\* A hook writes to the directory of its own session.
<1>8. ASSUME NEW t \in Terminals, Move(t) \/ Take(t) PROVE SidInv'
  <2>1. /\ UNCHANGED <<sessions, pc, identity, strayed>> /\ pc[t] = "session"
        /\ \E prompt : session_prompt' = [session_prompt EXCEPT ![Own(t)] = prompt] \/ UNCHANGED session_prompt
    BY <1>8, <1>a DEF Move, Take, OrientGoesOn, HookTypes, Running
  <2>2. dir[t] \in Workspaces /\ sid[t] # 0 /\ sid[t] \in Ids /\ sid[t] <= sessions /\ sessions \in Nat
    BY <2>1, <1>1, <1>a DEF HookTypes, SidInv, InSession, SessionTypes, Ids
  <2>3. \A w \in Workspaces, i \in Ids : w # dir[t] \/ i # sid[t] =>
          session_prompt'[<<w, i>>] = session_prompt[<<w, i>>]
    BY <2>1, <2>2, <1>a DEF FileTypes, Own
  <2>4. \A u \in Terminals, w \in Workspaces : sid[u] # 0 /\ w # dir[u] =>
          session_prompt'[<<w, sid[u]>>] = None
    <3>1. SUFFICES ASSUME NEW u \in Terminals, NEW w \in Workspaces, sid[u] # 0, w # dir[u]
                   PROVE  session_prompt'[<<w, sid[u]>>] = session_prompt[<<w, sid[u]>>]
      BY <1>1 DEF SidInv
    <3>2. sid[u] \in Ids
      BY <1>a DEF SessionTypes
    <3>3. w # dir[t] \/ sid[u] # sid[t]
      BY <3>1, <1>1 DEF SidInv
    <3>4. QED
      BY <3>2, <3>3, <2>3
  <2>5. \A w \in Workspaces, i \in Ids : i > sessions => session_prompt'[<<w, i>>] = None
    <3>1. \A i \in Ids : i > sessions => i # sid[t]
      BY <2>2 DEF Ids
    <3>2. QED
      BY <3>1, <2>3, <1>1 DEF SidInv
  <2>6. QED
    BY <2>1, <2>4, <2>5, <1>1 DEF SidInv, identity
<1>9. ASSUME NEW t \in Terminals, InjectStep(t) PROVE SidInv'
  BY <1>9, <1>b, InjectFrame DEF files, identity, marks
<1>10. CASE (\E w \in scope.workspaces : Age(w)) \/ UNCHANGED vars
  BY <1>10, <1>b, AgeFrame DEF identity
<1>11. QED
  BY <1>1, <1>2, <1>3, <1>4, <1>5, <1>6, <1>7, <1>8, <1>9, <1>10, Steps
     DEF Launch, Preparing, Session, Hooks, InjectStep

\* In a sound workspace, the slot is that of the session that is being cleared, or
\* of one that died.
Handing(t) ==
  \/ pc[t] = "renew"
  \/ Running(t) /\ source[t] = "clear" /\ orient[t] # "off"
Handed(t, w) ==
  IF persona[t] = None THEN ~slot[w].fresh
  ELSE slot[w] = [prompt |-> persona[t], fresh |-> TRUE]
OfSlot(t, w) ==
  /\ Clearing(t) => w \notin left
  /\ pc[t] = "end" => ~slot[w].fresh
  /\ Handing(t) /\ Running(t) => session_prompt[Own(t)] = None
  /\ Handing(t) /\ t \notin strayed => Handed(t, w)
  /\ inject[t] = "slot" /\ t \notin strayed =>
       persona[t] # None /\ (Handing(t) \/ slot[w].prompt = None)
SlotAt(w) ==
  /\ slot[w].fresh => w \in left \/ \E t \in Terminals : Handing(t) /\ dir[t] = w
  /\ \A t \in Terminals : dir[t] = w => OfSlot(t, w)
SlotInv == \A w \in Workspaces : Sound(w) => SlotAt(w)

\* Where the prompt of a session is: on its way, or in the directory of the session.
Waiting(t) == (orient[t] = "move" /\ source[t] = "startup") \/ Handing(t)
KeptAt(t) ==
  /\ injected[t] \in {None, persona[t]}
  /\ pc[t] = "end" => session_prompt[Own(t)] = persona[t]
  /\ Running(t) =>
       /\ session_prompt[Own(t)] = IF Waiting(t) THEN None ELSE persona[t]
       /\ source[t] # "startup" /\ inject[t] = "off" => injected[t] = persona[t]
       /\ inject[t] = "again" => session_prompt[Own(t)] = persona[t]
KeptInv == \A t \in Terminals : Undisturbed(t) => KeptAt(t)

HandoffInv == LaunchInv /\ WorkspaceInv /\ SidInv /\ SlotInv /\ KeptInv

LEMMA HandingClears ==
  ASSUME NEW t PROVE /\ Handing(t) => Clearing(t)
                     /\ Handing(t)' => Clearing(t)'
  BY DEF Handing, Clearing, Settled, Running

\* The sessions of /clear: what a step of another terminal leaves alone.
LEMMA OfSlotByOthers ==
  ASSUME TypeOK, SidInv, NEW t \in Terminals, Launch(t) \/ Session(t) \/ Hooks(t),
         NEW u \in Terminals, u # t
  PROVE  /\ UNCHANGED <<pc[u], dir[u], inject[u], persona[u], session_prompt[Own(u)]>> \/ pc[u] \notin InSession
         /\ UNCHANGED <<pc[u], dir[u], inject[u], persona[u], source[u], injected[u]>>
         /\ Own(u)' = Own(u)
         /\ Handing(u)' <=> Handing(u)
         /\ Clearing(u)' <=> Clearing(u)
         /\ Waiting(u)' <=> Waiting(u)
         /\ Running(u)' <=> Running(u)
         /\ (u \in strayed') <=> (u \in strayed)
<1>a. FileTypes /\ SessionTypes /\ HookTypes
  BY DEF TypeOK
<1>1. /\ UNCHANGED <<pc[u], persona[u], dir[u], sid[u], source[u], orient[u], inject[u], injected[u]>>
      /\ (u \in strayed') <=> (u \in strayed)
  BY OthersFrame
<1>2. ASSUME pc[u] \in InSession PROVE session_prompt'[Own(u)] = session_prompt[Own(u)]
  <2>1. Own(u) \in Workspaces \X Ids
    BY <1>2, <1>a DEF HookTypes, SessionTypes, Own, InSession
  <2>2. CASE Move(t) \/ Take(t)
    <3>1. Own(t) # Own(u)
      BY <1>2, OwnsApart
    <3>2. \E prompt : session_prompt' = [session_prompt EXCEPT ![Own(t)] = prompt] \/ UNCHANGED session_prompt
      BY <2>2 DEF Move, Take
    <3>3. QED
      BY <3>1, <3>2, <2>1, <1>a DEF FileTypes
  <2>3. CASE Launch(t)
    <3>1. UNCHANGED session_prompt
      BY <2>3, PreparingFrame DEF Launch, Preparing, Exec, Plain, files
    <3>2. QED
      BY <3>1
  <2>4. CASE Session(t)
    BY <2>4, SessionFrame
  <2>5. CASE InjectStep(t)
    BY <2>5, InjectFrame DEF files
  <2>6. QED
    BY <2>2, <2>3, <2>4, <2>5 DEF Hooks, InjectStep
<1>3. QED
  BY <1>1, <1>2 DEF Own, Handing, Clearing, Waiting, Running, Settled

LEMMA InitSlot == Init => SlotInv /\ KeptInv
  BY DEF Init, SlotInv, SlotAt, OfSlot, NoSlot, Clearing, Handing, Running, Settled, KeptInv, KeptAt,
     Undisturbed

\* In a sound workspace one session at a time is cleared.
LEMMA OneClears ==
  ASSUME NEW w, ~Overlap(w), NEW t \in Terminals, NEW u \in Terminals, u # t,
         Clearing(t), dir[t] = w, dir[u] = w
  PROVE  ~Clearing(u) /\ ~Handing(u)
  BY Apart, HandingClears
LEMMA OneClearsThen ==
  ASSUME NEW w, ~Overlap(w)', NEW t \in Terminals, NEW u \in Terminals, u # t,
         Clearing(t)', dir'[t] = w, dir'[u] = w
  PROVE  ~Clearing(u)' /\ ~Handing(u)'
  BY ApartThen, HandingClears

\* One that waits at the slot is cleared.
LEMMA SlotClears ==
  ASSUME TypeOK, NEW t \in Terminals, inject[t] \in {"fresh", "slot", "again"} \/ pc[t] = "end"
  PROVE  Clearing(t) /\ (pc[t] # "end" => Running(t) /\ source[t] = "clear")
  BY DEF TypeOK, HookTypes, Clearing, Settled

LEMMA SlotInvStep == HandoffInv /\ [Next]_vars => SlotInv'
<1>1. SUFFICES ASSUME HandoffInv, [Next]_vars, NEW w \in Workspaces, Sound(w)'
               PROVE  SlotAt(w)'
  BY DEF SlotInv
<1>a. /\ TypeOK /\ LaunchTypes /\ FileTypes /\ SessionTypes /\ HookTypes /\ MarkTypes
      /\ SidInv /\ WorkspaceInv /\ scope.workspaces \subseteq Workspaces /\ w # None
  BY <1>1, ScopeTypes, NoneAssumption DEF HandoffInv, LaunchInv, TypeOK, SessionTypes
<1>b. /\ Sound(w) /\ WorkspaceAt(w) /\ SlotAt(w) /\ w \notin spoilt' /\ ~Overlap(w) /\ ~Overlap(w)'
      /\ \A t \in Terminals : dir[t] = w => OfSlot(t, w)
      /\ \A t \in Terminals : dir[t] = w /\ t \notin strayed => KeptAt(t)
  <2>1. Sound(w) /\ WorkspaceAt(w) /\ w \notin spoilt' /\ ~Overlap(w) /\ ~Overlap(w)'
    BY <1>1, <1>a, SoundBefore
  <2>2. SlotAt(w)
    BY <1>1, <2>1 DEF HandoffInv, SlotInv
  <2>3. \A t \in Terminals : dir[t] = w /\ t \notin strayed => KeptAt(t)
    BY <1>1, <2>1 DEF HandoffInv, KeptInv, Undisturbed, Sound
  <2>4. QED
    BY <2>1, <2>2, <2>3 DEF SlotAt
<1>o. ASSUME NEW t \in Terminals, Launch(t) \/ Session(t) \/ Hooks(t), NEW u \in Terminals, u # t
      PROVE  /\ dir'[u] = dir[u] /\ (Handing(u)' <=> Handing(u)) /\ (Clearing(u)' <=> Clearing(u))
             /\ dir[u] = w /\ slot'[w] = slot[w] /\ (w \in left' => w \in left) => OfSlot(u, w)'
             /\ ~Clearing(u) => OfSlot(u, w)'
  <2>1. /\ UNCHANGED <<pc[u], dir[u], inject[u], persona[u]>> /\ Own(u)' = Own(u)
        /\ Handing(u)' <=> Handing(u)
        /\ Clearing(u)' <=> Clearing(u)
        /\ Running(u)' <=> Running(u)
        /\ (u \in strayed') <=> (u \in strayed)
        /\ pc[u] \in InSession => session_prompt'[Own(u)] = session_prompt[Own(u)]
    BY <1>o, <1>a, OfSlotByOthers
  <2>2. ASSUME dir[u] = w, slot'[w] = slot[w], w \in left' => w \in left PROVE OfSlot(u, w)'
    <3>1. OfSlot(u, w)
      BY <2>2, <1>b
    <3>2. QED
      BY <3>1, <2>1, <2>2 DEF OfSlot, Handed, Running, InSession
  <2>3. ASSUME ~Clearing(u) PROVE OfSlot(u, w)'
    <3>1. ~Handing(u) /\ pc[u] # "end" /\ inject[u] # "slot"
      BY <2>3, <1>a, HandingClears, SlotClears
    <3>2. QED
      BY <3>1, <2>1, <2>3 DEF OfSlot
  <2>4. QED
    BY <2>1, <2>2, <2>3
\* The slot stays as it is, and so does the terminal it is for.
<1>f. ASSUME NEW t \in Terminals, Launch(t) \/ Session(t) \/ Hooks(t),
             slot'[w] = slot[w], w \in left' <=> w \in left,
             dir[t] = w /\ Handing(t) /\ slot[w].fresh => dir'[t] = w /\ Handing(t)',
             dir'[t] = w => OfSlot(t, w)'
      PROVE  SlotAt(w)'
  <2>1. \A u \in Terminals : dir'[u] = w => OfSlot(u, w)'
    BY <1>f, <1>o
  <2>2. slot'[w].fresh => w \in left' \/ \E u \in Terminals : Handing(u)' /\ dir'[u] = w
    BY <1>f, <1>o, <1>b DEF SlotAt
  <2>3. QED
    BY <2>1, <2>2 DEF SlotAt
\* A terminal whose session is not cleared.
<1>n. ASSUME NEW t \in Terminals, Launch(t) \/ Session(t) \/ Hooks(t), UNCHANGED <<slot, left>>,
             ~Clearing(t), ~Clearing(t)', pc'[t] # "end", inject'[t] # "slot"
      PROVE  SlotAt(w)'
  <2>1. ~Handing(t) /\ ~Handing(t)'
    BY <1>n, HandingClears
  <2>2. OfSlot(t, w)'
    BY <1>n, <2>1 DEF OfSlot
  <2>3. QED
    BY <1>n, <2>1, <2>2, <1>f
<1>2. ASSUME NEW t \in Terminals, Preparing(t) PROVE SlotAt(w)'
  <2>1. /\ UNCHANGED <<slot, left, identity, hooks>>
        /\ pc[t] \notin InSession /\ pc'[t] \notin InSession /\ ~Running(t)
    BY <1>2, <1>a, PreparingFrame DEF LaunchTypes, Running, InSession
  <2>2. inject'[t] = "off" /\ ~Clearing(t) /\ ~Clearing(t)'
    BY <2>1, <1>a DEF HookTypes, hooks, Clearing, Running, InSession
  <2>3. QED
    BY <1>2, <2>1, <2>2, <1>n DEF Launch, Preparing, InSession
<1>3. ASSUME NEW t \in Terminals, Exec(t) \/ (\E w0 \in scope.workspaces : Plain(t, w0)) PROVE SlotAt(w)'
  <2>1. PICK w0, p, prompt : Begin(t, w0, p, prompt)
    BY <1>3 DEF Exec, Plain
  <2>2. /\ UNCHANGED <<slot, left>> /\ pc[t] \in {"exec", "shell"}
        /\ pc'[t] = "session" /\ source'[t] = "startup" /\ inject'[t] = "read"
    BY <1>3, <2>1, <1>a DEF Exec, Plain, Begin, Event, Goto, LaunchTypes, HookTypes, files, marks
  <2>3. ~Clearing(t) /\ ~Clearing(t)'
    BY <2>2 DEF Clearing, Running
  <2>4. QED
    BY <1>3, <2>2, <2>3, <1>n DEF Launch
<1>4. ASSUME NEW t \in Terminals, Again(t) PROVE SlotAt(w)'
  <2>1. /\ UNCHANGED <<slot, left, pc>> /\ Settled(t) /\ source'[t] = "compact" /\ inject'[t] = "read"
    BY <1>4, <1>a DEF Again, Event, HookTypes, files, marks
  <2>2. ~Clearing(t) /\ ~Clearing(t)' /\ pc'[t] # "end"
    BY <2>1 DEF Clearing, Settled, Running
  <2>3. QED
    BY <1>4, <2>1, <2>2, <1>n DEF Session
<1>5. ASSUME NEW t \in Terminals, NEW w0 \in scope.workspaces, Cd(t, w0) PROVE SlotAt(w)'
  <2>1. /\ UNCHANGED <<slot, left, pc, source, hooks>> /\ Settled(t)
    BY <1>5 DEF Cd, files
  <2>2. ~Clearing(t) /\ ~Clearing(t)' /\ pc'[t] # "end" /\ inject'[t] # "slot"
    BY <2>1 DEF Clearing, Settled, Running, hooks
  <2>3. QED
    BY <1>5, <2>1, <2>2, <1>n DEF Session
<1>6. ASSUME NEW t \in Terminals, Exit(t) PROVE SlotAt(w)'
  <2>1. /\ UNCHANGED <<slot, left>> /\ Settled(t) /\ pc'[t] = "shell" /\ inject'[t] = "off"
    BY <1>6, <1>a DEF Exit, Leave, Goto, LaunchTypes, HookTypes, files
  <2>2. ~Clearing(t) /\ ~Clearing(t)'
    BY <2>1 DEF Clearing, Settled, Running
  <2>3. QED
    BY <1>6, <2>1, <2>2, <1>n DEF Session
\* One that dies leaves its slot behind.
<1>7. ASSUME NEW t \in Terminals, Die(t) PROVE SlotAt(w)'
  <2>1. /\ UNCHANGED slot /\ dir'[t] = None
        /\ left' = IF Clearing(t) /\ slot[dir[t]].fresh THEN left \cup {dir[t]} ELSE left
    BY <1>7, <1>a DEF Die, Leave, SessionTypes, files
  <2>2. CASE dir[t] # w
    BY <1>7, <2>1, <2>2, <1>a, <1>f DEF Session
  <2>3. CASE dir[t] = w
    <3>1. slot'[w].fresh => w \in left' \/ \E u \in Terminals : Handing(u)' /\ dir'[u] = w
      <4>1. SUFFICES ASSUME slot[w].fresh, w \notin left' PROVE \E u \in Terminals : Handing(u)' /\ dir'[u] = w
        BY <2>1
      <4>2. ~Clearing(t) /\ w \notin left
        BY <4>1, <2>1, <2>3
      <4>3. PICK u \in Terminals : Handing(u) /\ dir[u] = w
        BY <4>1, <4>2, <1>b DEF SlotAt
      <4>4. u # t
        BY <4>2, <4>3, HandingClears
      <4>5. QED
        BY <4>3, <4>4, <1>7, <1>o DEF Session
    <3>2. ASSUME NEW u \in Terminals, dir'[u] = w PROVE OfSlot(u, w)'
      <4>1. u # t /\ dir[u] = w
        BY <3>2, <2>1, <1>a, <1>7, <1>o DEF Session
      <4>2. CASE Clearing(t)
        BY <4>1, <4>2, <2>3, <1>b, <1>7, <1>o, OneClears DEF Session
      <4>3. CASE ~Clearing(t)
        BY <4>1, <4>3, <2>1, <1>7, <1>o DEF Session
      <4>4. QED
        BY <4>2, <4>3
    <3>3. QED
      BY <3>1, <3>2 DEF SlotAt
  <2>4. QED
    BY <2>2, <2>3
\* A /clear begins where no other is under way and nobody left a fresh slot.
<1>8. ASSUME NEW t \in Terminals, Clear(t) PROVE SlotAt(w)'
  <2>1. /\ UNCHANGED <<slot, left, dir, hooks>> /\ Settled(t) /\ pc'[t] = "end"
        /\ dir[t] \in left => spoilt' = spoilt \cup {dir[t]}
    BY <1>8, <1>a DEF Clear, Goto, LaunchTypes, identity, files, Spoil
  <2>2. ~Handing(t) /\ ~Handing(t)' /\ inject'[t] = "off" /\ Clearing(t)'
    BY <2>1 DEF Handing, Settled, Running, hooks, Clearing
  <2>3. ASSUME dir[t] = w PROVE OfSlot(t, w)'
    <3>1. w \notin left
      BY <2>1, <2>3, <1>b
    <3>2. ASSUME slot[w].fresh PROVE FALSE
      <4>1. PICK u \in Terminals : Handing(u) /\ dir[u] = w
        BY <3>1, <3>2, <1>b DEF SlotAt
      <4>2. u # t /\ Handing(u)' /\ dir'[u] = w
        BY <4>1, <2>2, <1>8, <1>o DEF Session
      <4>3. QED
        BY <4>2, <2>1, <2>2, <2>3, <1>b, OneClearsThen
    <3>3. QED
      BY <3>1, <3>2, <2>1, <2>2 DEF OfSlot
  <2>4. QED
    BY <1>8, <2>1, <2>2, <2>3, <1>f DEF Session
\* The session that is cleared hands its own prompt over.
<1>9. ASSUME NEW t \in Terminals, Handoff(t) PROVE SlotAt(w)'
  <2>1. /\ UNCHANGED <<left, identity, hooks, session_prompt, strayed>>
        /\ pc[t] = "end" /\ pc'[t] = "renew" /\ dir[t] \in Workspaces /\ cwd[t] \in Workspaces
    BY <1>9, <1>a DEF Handoff, Goto, LaunchTypes, HookTypes
  <2>2. /\ ~Running(t)' /\ Handing(t)' /\ inject'[t] = "off" /\ Clearing(t) /\ ~Handing(t) /\ Clearing(t)'
    BY <2>1, <1>a DEF Running, Handing, HookTypes, hooks, Clearing
  <2>3. CASE dir[t] # w
    <3>1. slot'[w] = slot[w]
      <4>1. CASE cwd[t] # w
        BY <1>9, <4>1, <1>a DEF Handoff, FileTypes
      <4>2. CASE cwd[t] = w
        <5>1. session_prompt[cwd[t], sid[t]] = None
          BY <4>2, <2>1, <2>3, <1>a DEF SidInv, InSession
        <5>2. QED
          BY <1>9, <5>1 DEF Handoff
      <4>3. QED
        BY <4>1, <4>2
    <3>2. QED
      BY <1>9, <2>1, <2>3, <3>1, <1>f DEF Session, identity
  <2>4. CASE dir[t] = w
    <3>1. \A u \in Terminals \ {t} : dir'[u] = w => OfSlot(u, w)'
      BY <2>2, <2>4, <1>b, <1>9, <1>o, OneClears DEF Session
    <3>2. t \notin strayed => Handed(t, w)'
      <4>1. SUFFICES ASSUME t \notin strayed PROVE Handed(t, w)'
        OBVIOUS
      <4>2. cwd[t] = w /\ session_prompt[cwd[t], sid[t]] = persona[t]
        BY <4>1, <2>1, <2>4, <1>a, <1>b DEF SidInv, KeptAt, Own
      <4>3. slot' = IF persona[t] = None THEN slot ELSE [slot EXCEPT ![w] = [prompt |-> persona[t], fresh |-> TRUE]]
        BY <1>9, <4>2, <1>b DEF Handoff, Fails, Spoil
      <4>4. ~slot[w].fresh /\ persona' = persona
        BY <2>1, <2>4, <1>b DEF OfSlot, identity
      <4>5. QED
        BY <4>3, <4>4, <1>a DEF Handed, FileTypes
    <3>3. OfSlot(t, w)'
      <4>1. w \notin left'
        BY <2>1, <2>2, <2>4, <1>b DEF OfSlot
      <4>2. QED
        BY <4>1, <3>2, <2>1, <2>2 DEF OfSlot
    <3>4. QED
      BY <3>1, <3>3, <2>1, <2>2, <2>4 DEF SlotAt, identity
  <2>5. QED
    BY <2>3, <2>4
<1>10. ASSUME NEW t \in Terminals, Renew(t) PROVE SlotAt(w)'
  <2>1. /\ UNCHANGED <<slot, left, dir, cwd, persona, session_prompt, strayed>> /\ NewId(t)
        /\ pc[t] = "renew" /\ pc'[t] = "session" /\ source'[t] = "clear" /\ orient'[t] = "move"
        /\ inject'[t] = "read" /\ sessions' \in Ids
    BY <1>10, <1>1, <1>a, SessionTypesStep DEF Renew, Event, Goto, LaunchTypes, HookTypes, SessionTypes, files, marks
  <2>2. Handing(t) /\ Handing(t)' /\ Clearing(t)
    BY <2>1 DEF Handing, Running, Clearing
  <2>3. ASSUME dir[t] = w PROVE OfSlot(t, w)'
    <3>1. OfSlot(t, w)
      BY <2>3, <1>b
    <3>2. \A u \in Terminals : u # t => pc'[u] = pc[u]
      BY <1>10, <1>a, OthersFrame DEF Session
    <3>3. session_prompt'[<<w, sid'[t]>>] = None
      BY <2>1, <3>2, <1>a, NewSid DEF SidInv, InSession
    <3>4. session_prompt'[Own(t)'] = None
      BY <2>1, <2>3, <3>3 DEF Own
    <3>5. QED
      BY <3>1, <3>4, <2>1, <2>2 DEF OfSlot, Handed
  <2>4. QED
    BY <1>10, <2>1, <2>2, <2>3, <1>f DEF Session
\* No prompt of a launch is there while a session is cleared.
<1>11. ASSUME NEW t \in Terminals, Move(t) PROVE SlotAt(w)'
  <2>1. /\ UNCHANGED <<slot, left, pc, identity, inject, strayed>> /\ orient[t] = "move" /\ orient'[t] = "take"
        /\ pc[t] = "session"
    BY <1>11, <1>a DEF Move, OrientGoesOn, HookTypes, Running
  <2>2. /\ Handing(t)' <=> Handing(t)
        /\ Clearing(t)' <=> Clearing(t)
        /\ Running(t)' /\ Running(t)
    BY <2>1 DEF Handing, Clearing, Running, Settled, identity
  <2>3. ASSUME dir[t] = w PROVE OfSlot(t, w)'
    <3>1. OfSlot(t, w)
      BY <2>3, <1>b
    <3>2. Handing(t) => session_prompt'[Own(t)] = None
      <4>1. SUFFICES ASSUME Handing(t) PROVE session_prompt'[Own(t)] = None
        OBVIOUS
      <4>2. ~Copied(t, w) /\ ~Arriving(t, w)
        BY <4>1, <2>1 DEF Handing, Copied, Arriving
      <4>3. ws_prompt[w] = None
        <5>1. SUFFICES ASSUME NEW u \in Terminals, Copied(u, w) \/ Arriving(u, w) PROVE FALSE
          BY <1>b DEF WorkspaceAt
        <5>2. u # t
          BY <5>1, <4>2
        <5>3. QED
          BY <5>1, <5>2, <2>1, <2>2, <2>3, <1>b, Apart, LaunchesIn
      <4>4. UNCHANGED session_prompt
        BY <1>11, <2>3, <4>3 DEF Move
      <4>5. QED
        BY <4>1, <4>4, <3>1, <2>2 DEF OfSlot
    <3>3. QED
      BY <3>1, <3>2, <2>1, <2>2 DEF OfSlot, Handed, Own, identity
  <2>4. QED
    BY <1>11, <2>1, <2>2, <2>3, <1>f DEF Hooks, identity
\* The session that begins takes it.
<1>12. ASSUME NEW t \in Terminals, Take(t) PROVE SlotAt(w)'
  <2>1. /\ UNCHANGED <<left, pc, identity, inject, strayed>> /\ orient[t] = "take" /\ orient'[t] = "off"
        /\ pc[t] = "session" /\ dir[t] \in Workspaces /\ (dir[t] # w => slot'[w] = slot[w])
    BY <1>12, <1>a DEF Take, OrientGoesOn, HookTypes, Running, FileTypes
  <2>2. /\ ~Handing(t)' /\ pc'[t] # "end" /\ (Clearing(t)' => Clearing(t))
        /\ Handing(t) <=> source[t] = "clear"
        /\ inject[t] = "slot" => source[t] = "clear"
    BY <2>1, <1>a DEF Handing, Running, Clearing, Settled, HookTypes, identity
  <2>3. CASE dir[t] # w
    BY <1>12, <2>1, <2>3, <1>f DEF Hooks, identity
  <2>4. CASE dir[t] = w /\ source[t] # "clear"
    <3>1. slot' = slot
      BY <1>12, <2>4 DEF Take, Taking
    <3>2. OfSlot(t, w)
      BY <2>4, <1>b
    <3>3. OfSlot(t, w)'
      BY <2>1, <2>2, <2>4, <3>1, <3>2 DEF OfSlot, identity
    <3>4. QED
      BY <1>12, <2>2, <2>4, <3>1, <3>3, <2>1, <1>f DEF Hooks, identity
  <2>5. CASE dir[t] = w /\ source[t] = "clear"
    <3>1. OfSlot(t, w) /\ Handing(t) /\ Running(t) /\ Clearing(t)
      BY <2>1, <2>2, <2>5, <1>b, HandingClears DEF Running
    <3>2. session_prompt[Own(t)] = None
      BY <3>1 DEF OfSlot
    <3>3. ~slot'[w].fresh /\ (t \notin strayed /\ persona[t] # None => slot'[w].prompt = None)
      <4>1. CASE slot[w].fresh
        <5>1. slot' = [slot EXCEPT ![w] = NoSlot]
          BY <1>12, <2>5, <3>2, <4>1, <1>b DEF Take, Taking, Fails, Spoil
        <5>2. QED
          BY <5>1, <1>a DEF FileTypes, NoSlot
      <4>2. CASE ~slot[w].fresh
        <5>1. slot' = slot
          BY <1>12, <2>5, <4>2 DEF Take, Taking
        <5>2. t \notin strayed => persona[t] = None
          BY <3>1, <4>2 DEF OfSlot, Handed
        <5>3. QED
          BY <4>2, <5>1, <5>2
      <4>3. QED
        BY <4>1, <4>2
    <3>4. OfSlot(t, w)'
      BY <3>1, <3>3, <2>1, <2>2 DEF OfSlot, identity
    <3>5. \A u \in Terminals \ {t} : dir'[u] = w => OfSlot(u, w)'
      BY <3>1, <2>5, <1>b, <1>12, <1>o, OneClears DEF Hooks
    <3>6. QED
      BY <3>3, <3>4, <3>5 DEF SlotAt
  <2>6. QED
    BY <2>3, <2>4, <2>5
\* A slot that is found fresh is that of the session that looks.
<1>13. ASSUME NEW t \in Terminals, InjectStep(t) PROVE SlotAt(w)'
  <2>1. /\ UNCHANGED <<slot, left, pc, identity, orient, session_prompt, strayed>> /\ inject[t] # "off"
    BY <1>13, InjectFrame DEF files, marks
  <2>2. /\ Running(t) /\ Running(t)' /\ (Handing(t)' <=> Handing(t)) /\ Own(t)' = Own(t)
        /\ Clearing(t)' => Clearing(t)
    BY <2>1, <1>a DEF HookTypes, Running, Handing, Clearing, Settled, Own, identity
  <2>3. ASSUME dir[t] = w, inject'[t] = "slot", t \notin strayed
        PROVE  persona[t] # None /\ Handing(t)
    <3>1. CheckSlot(t)
      BY <1>13, <2>3, <1>a DEF InjectStep, ReadPrompt, ReadSlot, ReadAgain, Give, GoOn, Step, HookTypes
    <3>2. cwd[t] = w /\ slot[w].fresh /\ inject[t] = "fresh"
      BY <2>3, <3>1, <1>a DEF CheckSlot, GoOn, Step, HookTypes, SidInv
    <3>3. Clearing(t)
      BY <3>2, <1>a, SlotClears
    <3>4. w \notin left /\ OfSlot(t, w)
      BY <3>3, <2>3, <1>b DEF OfSlot
    <3>5. PICK u \in Terminals : Handing(u) /\ dir[u] = w
      BY <3>2, <3>4, <1>b DEF SlotAt
    <3>6. u = t
      BY <3>3, <3>5, <2>3, <1>b, OneClears
    <3>7. QED
      BY <3>2, <3>4, <3>5, <3>6, <2>3 DEF OfSlot, Handed
  <2>4. ASSUME dir[t] = w PROVE OfSlot(t, w)'
    <3>1. OfSlot(t, w)
      BY <2>4, <1>b
    <3>2. QED
      BY <3>1, <2>1, <2>2, <2>3, <2>4 DEF OfSlot, Handed, identity
  <2>5. QED
    BY <1>13, <2>1, <2>2, <2>4, <1>f DEF Hooks, InjectStep, identity
\* Only a slot that nobody waits for grows old.
<1>14. ASSUME NEW w0 \in scope.workspaces, Age(w0) PROVE SlotAt(w)'
  <2>1. UNCHANGED <<pc, identity, hooks, session_prompt, strayed>>
    BY <1>14, AgeFrame
  <2>2. \A u \in Terminals : /\ Handing(u)' <=> Handing(u)
                             /\ Clearing(u)' <=> Clearing(u)
                             /\ UNCHANGED <<Own(u), dir[u], inject[u], persona[u]>>
    BY <2>1 DEF Handing, Clearing, Running, Settled, Own, identity, hooks
  <2>3. CASE w0 # w
    <3>1. slot'[w] = slot[w] /\ (w \in left' <=> w \in left)
      BY <1>14, <2>3, <1>a DEF Age, FileTypes
    <3>2. \A u \in Terminals : OfSlot(u, w) => OfSlot(u, w)'
      BY <2>1, <2>2, <3>1 DEF OfSlot, Handed, Running
    <3>3. QED
      BY <2>2, <3>1, <3>2, <1>b DEF SlotAt
  <2>4. CASE w0 = w
    <3>1. ~slot'[w].fresh
      BY <1>14, <2>4, <1>a DEF Age, FileTypes
    <3>2. \A u \in Terminals : dir[u] = w => ~Clearing(u)
      BY <1>14, <2>4 DEF Age
    <3>3. \A u \in Terminals : ~Clearing(u) => ~Handing(u) /\ pc[u] # "end" /\ inject[u] # "slot"
      BY <1>a, HandingClears, SlotClears
    <3>4. \A u \in Terminals : dir'[u] = w => OfSlot(u, w)'
      BY <2>1, <2>2, <3>2, <3>3 DEF OfSlot
    <3>5. QED
      BY <3>1, <3>4 DEF SlotAt
  <2>5. QED
    BY <2>3, <2>4
<1>15. CASE UNCHANGED vars
  <2>1. \A u \in Terminals : OfSlot(u, w) => OfSlot(u, w)'
    BY <1>15 DEF OfSlot, Handed, Handing, Clearing, Running, Settled, Own, vars, files, identity, hooks, marks
  <2>2. QED
    BY <1>15, <2>1, <1>b DEF SlotAt, Handing, Running, vars, files, identity, hooks, marks
<1>16. QED
  BY <1>1, <1>2, <1>3, <1>4, <1>5, <1>6, <1>7, <1>8, <1>9, <1>10, <1>11, <1>12, <1>13, <1>14, <1>15, Steps
     DEF Launch, Preparing, Session, Hooks, InjectStep

\* What another terminal does leaves a session its prompt.
LEMMA KeptByOthers ==
  ASSUME TypeOK, SidInv, NEW t \in Terminals, NEW u \in Terminals, u # t,
         Launch(t) \/ Session(t) \/ Hooks(t), KeptAt(u)
  PROVE  KeptAt(u)'
<1>1. /\ UNCHANGED <<pc[u], inject[u], persona[u], source[u], injected[u]>>
      /\ Own(u)' = Own(u)
      /\ Waiting(u)' <=> Waiting(u)
      /\ Running(u)' <=> Running(u)
      /\ pc[u] \in InSession => session_prompt'[Own(u)] = session_prompt[Own(u)]
  BY OfSlotByOthers
<1>2. QED
  BY <1>1 DEF KeptAt, InSession, Running

\* The steps of a launch.
LEMMA KeptByLaunch ==
  ASSUME HandoffInv, TypeOK', NEW t \in Terminals, Launch(t), KeptAt(t) \/ ~Preparing(t)
  PROVE  KeptAt(t)'
<1>a. /\ TypeOK /\ LaunchTypes /\ SessionTypes /\ HookTypes /\ SidInv
      /\ scope.workspaces \subseteq Workspaces /\ sessions' \in Ids
  BY ScopeTypes DEF HandoffInv, LaunchInv, TypeOK, SessionTypes
<1>1. CASE Preparing(t) /\ KeptAt(t)
  <2>1. /\ UNCHANGED <<identity, hooks, session_prompt>>
        /\ pc'[t] \in {"shell", "copy", "spec", "go", "consume", "exec"}
    BY <1>1, <1>a, PreparingFrame DEF LaunchTypes
  <2>2. QED
    BY <1>1, <2>1 DEF KeptAt, Running, identity, hooks
<1>2. CASE Exec(t) \/ (\E w \in scope.workspaces : Plain(t, w))
  <2>1. PICK w, p, prompt : w \in Workspaces /\ Begin(t, w, p, prompt)
    <3>1. CASE Exec(t)
      BY <3>1, <1>a, PickedTypes DEF Exec, LaunchTypes
    <3>2. CASE \E w \in scope.workspaces : Plain(t, w)
      BY <3>2, <1>a DEF Plain
    <3>3. QED
      BY <1>2, <3>1, <3>2
  <2>2. UNCHANGED <<session_prompt, strayed>>
    BY <1>2 DEF Exec, Plain, files, marks
  <2>3. /\ NewId(t) /\ pc'[t] = "session" /\ dir'[t] = w /\ cwd'[t] = w
        /\ source'[t] = "startup" /\ orient'[t] = "move" /\ inject'[t] = "read" /\ injected'[t] = None
    BY <2>1, <1>a DEF Begin, Event, Goto, LaunchTypes, HookTypes, SessionTypes
  <2>4. \A u \in Terminals : u # t => UNCHANGED <<pc[u], dir[u], cwd[u]>>
    BY <1>a, OthersFrame
  <2>5. session_prompt'[<<w, sid'[t]>>] = None
    BY <2>1, <2>2, <2>3, <2>4, <1>a, NewSid
  <2>6. session_prompt'[Own(t)'] = None
    BY <2>3, <2>5 DEF Own
  <2>7. QED
    BY <2>3, <2>6 DEF KeptAt, Running, Waiting
<1>3. QED
  BY <1>1, <1>2 DEF Launch, Preparing

\* The steps of a session.
LEMMA KeptBySession ==
  ASSUME HandoffInv, TypeOK', NEW t \in Terminals, Session(t), KeptAt(t) \/ Exit(t) \/ Die(t)
  PROVE  KeptAt(t)'
<1>a. /\ TypeOK /\ LaunchTypes /\ SessionTypes /\ HookTypes /\ SidInv
      /\ scope.workspaces \subseteq Workspaces /\ sessions' \in Ids
  BY ScopeTypes DEF HandoffInv, LaunchInv, TypeOK, SessionTypes
<1>1. CASE Exit(t) \/ Die(t)
  <2>1. pc'[t] = "shell" /\ injected'[t] = None
    BY <1>1, <1>a DEF Exit, Die, Leave, Goto, LaunchTypes, HookTypes
  <2>2. QED
    BY <2>1 DEF KeptAt, Running
<1>2. SUFFICES ASSUME KeptAt(t) PROVE KeptAt(t)'
  BY <1>1
<1>b. Settled(t) => session_prompt[Own(t)] = persona[t]
  BY <1>2 DEF KeptAt, Settled, Waiting, Handing, Running
<1>3. CASE \E w \in scope.workspaces : Cd(t, w)
  <2>1. UNCHANGED <<session_prompt, pc, persona, source, hooks, dir, sid>>
    BY <1>3 DEF Cd, files
  <2>2. QED
    BY <2>1, <1>2 DEF KeptAt, Waiting, Handing, Running, Own, hooks
<1>4. CASE Clear(t)
  <2>1. /\ Settled(t) /\ pc'[t] = "end" /\ UNCHANGED <<persona, injected, session_prompt>>
        /\ Own(t)' = Own(t)
    BY <1>4, <1>a DEF Clear, Goto, LaunchTypes, identity, hooks, files, Own
  <2>2. QED
    BY <2>1, <1>2, <1>b DEF KeptAt, Running
<1>5. CASE Again(t)
  <2>1. /\ Settled(t) /\ pc'[t] = "session" /\ UNCHANGED <<persona, session_prompt>> /\ Own(t)' = Own(t)
        /\ source'[t] = "compact" /\ inject'[t] = "read" /\ injected'[t] = None
    BY <1>5, <1>a DEF Again, Event, Settled, Running, LaunchTypes, HookTypes, files, Own
  <2>2. QED
    BY <2>1, <1>b DEF KeptAt, Running, Waiting, Handing
<1>6. CASE Handoff(t)
  <2>1. pc'[t] = "renew" /\ UNCHANGED <<injected, persona>>
    BY <1>6, <1>a DEF Handoff, Goto, LaunchTypes, identity, hooks
  <2>2. QED
    BY <2>1, <1>2 DEF KeptAt, Running
<1>7. CASE Renew(t)
  <2>1. /\ NewId(t) /\ UNCHANGED <<persona, session_prompt, dir, cwd, strayed>> /\ pc[t] = "renew"
        /\ pc'[t] = "session"
        /\ source'[t] = "clear" /\ orient'[t] = "move" /\ inject'[t] = "read" /\ injected'[t] = None
    BY <1>7, <1>a DEF Renew, Event, Goto, LaunchTypes, HookTypes, files, marks
  <2>2. \A u \in Terminals : u # t => UNCHANGED pc[u]
    BY <1>a, OthersFrame
  <2>3. dir[t] \in Workspaces
    BY <2>1, <1>a DEF HookTypes
  <2>4. session_prompt'[<<dir[t], sid'[t]>>] = None
    BY <2>1, <2>2, <2>3, <1>a, NewSid DEF SidInv, InSession
  <2>5. session_prompt'[Own(t)'] = None
    BY <2>1, <2>4 DEF Own
  <2>6. QED
    BY <2>1, <2>5 DEF KeptAt, Running, Waiting, Handing
<1>8. QED
  BY <1>1, <1>3, <1>4, <1>5, <1>6, <1>7 DEF Session

\* The two hooks, in whatever order their steps are.
LEMMA KeptByHooks ==
  ASSUME HandoffInv, NEW t \in Terminals, Hooks(t), Undisturbed(t), dir[t] \notin spoilt'
  PROVE  KeptAt(t)'
<1>a. /\ FileTypes /\ SessionTypes /\ HookTypes /\ TypeOK /\ SidInv
      /\ KeptAt(t) /\ UNCHANGED <<pc, identity>> /\ Own(t)' = Own(t)
  BY HooksFrame DEF HandoffInv, LaunchInv, TypeOK, KeptInv, Own, identity
<1>b. Running(t) /\ dir[t] \in Workspaces /\ cwd[t] = dir[t] /\ Own(t) \in Workspaces \X Ids
      /\ persona[t] # Part
  <2>1. orient[t] # "off" \/ inject[t] # "off"
    BY InjectFrame DEF Hooks, InjectStep, Move, Take
  <2>2. QED
    BY <2>1, <1>a, NoneAssumption DEF HookTypes, SessionTypes, Own, Running, Undisturbed, SidInv
<1> DEFINE w == dir[t]
<1>c. WorkspaceAt(w) /\ ~Overlap(w) /\ OfSlot(t, w) /\ t \notin strayed
  <2>1. Sound(w)
    BY DEF Undisturbed, Sound
  <2>2. QED
    BY <2>1, <1>b DEF HandoffInv, WorkspaceInv, WorkspaceAt, SlotInv, SlotAt, Undisturbed
<1>d. session_prompt[Own(t)] = IF Waiting(t) THEN None ELSE persona[t]
  BY <1>a, <1>b DEF KeptAt
<1>1. CASE Move(t)
  <2>1. /\ orient[t] = "move" /\ orient'[t] = "take" /\ UNCHANGED <<inject, injected>>
    BY <1>1, <1>a DEF Move, OrientGoesOn, HookTypes
  <2>e. Handing(t)' <=> Handing(t)
    BY <2>1, <1>a DEF Handing, Running, identity
  <2>2. CASE source[t] = "startup"
    <3>1. Waiting(t) /\ ~Waiting(t)' /\ Arriving(t, w)
      BY <2>1, <2>2, <1>a, <1>b DEF Waiting, Handing, Running, Arriving, identity
    <3>2. ws_prompt[w] = persona[t] /\ session_prompt[Own(t)] = None
      BY <3>1, <1>c, <1>d DEF WorkspaceAt
    <3>3. session_prompt'[Own(t)] = persona[t]
      BY <1>1, <3>2, <1>a, <1>b DEF Move, Fails, Spoil, FileTypes
    <3>4. QED
      BY <2>1, <3>1, <3>3, <1>a DEF KeptAt, Running, identity
  <2>3. CASE source[t] # "startup"
    <3>1. ~Copied(t, w) /\ ~Arriving(t, w)
      BY <2>3, <1>b DEF Copied, Arriving, Running
    <3>2. ws_prompt[w] = None
      <4>1. SUFFICES ASSUME NEW u \in Terminals, Copied(u, w) \/ Arriving(u, w) PROVE FALSE
        BY <1>c DEF WorkspaceAt
      <4>2. QED
        BY <4>1, <3>1, <2>1, <1>b, <1>c, Apart, LaunchesIn
    <3>3. UNCHANGED session_prompt
      BY <1>1, <3>2 DEF Move
    <3>4. Waiting(t)' <=> Waiting(t)
      BY <2>3, <2>e, <1>a DEF Waiting, identity
    <3>5. QED
      BY <2>1, <3>3, <3>4, <1>a DEF KeptAt, Running, identity
  <2>4. QED
    BY <2>2, <2>3
<1>2. CASE Take(t)
  <2>1. orient[t] = "take" /\ orient'[t] = "off" /\ UNCHANGED <<inject, injected>>
    BY <1>2, <1>a DEF Take, OrientGoesOn, HookTypes
  <2>2. ~Waiting(t)' /\ (Waiting(t) <=> source[t] = "clear")
    BY <2>1, <1>a, <1>b DEF Waiting, Handing, Running, identity
  <2>3. session_prompt'[Own(t)] = persona[t]
    <3>1. CASE source[t] = "clear"
      <4>1. Handed(t, w) /\ session_prompt[Own(t)] = None
        BY <2>1, <2>2, <3>1, <1>b, <1>c, <1>d DEF OfSlot, Handing
      <4>2. CASE persona[t] = None
        BY <1>2, <4>1, <4>2 DEF Handed, Take, Taking
      <4>3. CASE persona[t] # None
        <5>1. slot[w].fresh /\ slot[w].prompt = persona[t]
          BY <4>1, <4>3 DEF Handed
        <5>2. session_prompt' = [session_prompt EXCEPT ![Own(t)] = slot[w].prompt]
          BY <1>2, <3>1, <4>1, <5>1 DEF Take, Taking, Fails, Spoil
        <5>3. QED
          BY <5>1, <5>2, <1>a, <1>b DEF FileTypes
      <4>4. QED
        BY <4>2, <4>3
    <3>2. CASE source[t] # "clear"
      BY <1>2, <2>2, <3>2, <1>d DEF Take, Taking
    <3>3. QED
      BY <3>1, <3>2
  <2>4. QED
    BY <2>1, <2>2, <2>3, <1>a DEF KeptAt, Running, identity
<1>3. CASE InjectStep(t)
  <2>1. /\ UNCHANGED <<session_prompt, orient>> /\ KeptPrompt(t) = session_prompt[Own(t)]
    BY <1>3, <1>b, InjectFrame DEF files, KeptPrompt, Own
  <2>2. Waiting(t)' <=> Waiting(t)
    BY <2>1, <1>a DEF Waiting, Handing, Running, identity
  <2>3. SUFFICES /\ injected'[t] \in {None, persona[t]}
                 /\ source[t] # "startup" /\ inject'[t] = "off" => injected'[t] = persona[t]
                 /\ inject'[t] = "again" => session_prompt[Own(t)] = persona[t]
    BY <2>1, <2>2, <1>a, <1>b DEF KeptAt, Running, identity
  <2>4. Text(KeptPrompt(t)) = {session_prompt[Own(t)]}
    BY <2>1, <1>b, <1>d, NoneAssumption DEF Text
  <2>5. CASE ReadPrompt(t)
    <3>1. CASE source[t] = "startup"
      BY <2>5, <3>1, <1>a DEF ReadPrompt, Give, Step, HookTypes
    <3>2. CASE source[t] # "startup" /\ (session_prompt[Own(t)] # None \/ source[t] # "clear")
      <4>1. injected'[t] = session_prompt[Own(t)] /\ inject'[t] = "off"
        BY <2>4, <2>5, <3>2, <1>a DEF ReadPrompt, Give, Step, HookTypes
      <4>2. session_prompt[Own(t)] = persona[t]
        BY <3>2, <1>b, <1>d DEF Waiting, Handing, Running
      <4>3. QED
        BY <4>1, <4>2
    <3>3. CASE source[t] = "clear" /\ session_prompt[Own(t)] = None
      <4>1. inject'[t] = "fresh" /\ UNCHANGED injected
        BY <2>4, <2>5, <3>3, <1>a DEF ReadPrompt, GoOn, Step, HookTypes
      <4>2. QED
        BY <4>1, <1>a DEF KeptAt
    <3>4. QED
      BY <3>1, <3>2, <3>3
\* A slot that is empty is one that was taken, or there is no prompt.
  <2>7. CASE CheckSlot(t)
    <3>1. UNCHANGED injected /\ inject'[t] = IF slot[w].fresh THEN "slot" ELSE "again"
      BY <2>7, <1>a, <1>b DEF CheckSlot, GoOn, Step, HookTypes
    <3>2. source[t] = "clear"
      BY <2>7, <1>a DEF CheckSlot, HookTypes
    <3>3. ~slot[w].fresh => session_prompt[Own(t)] = persona[t]
      BY <3>2, <1>c, <1>d DEF OfSlot, Handed, Waiting
    <3>4. QED
      BY <3>1, <3>3, <1>a DEF KeptAt
  <2>8. CASE ReadSlot(t)
    <3>1. source[t] = "clear" /\ inject[t] = "slot"
      BY <2>8, <1>a DEF ReadSlot, HookTypes
    <3>2. persona[t] # None /\ (Handing(t) \/ slot[w].prompt = None)
      BY <3>1, <1>c DEF OfSlot
    <3>3. CASE Handing(t)
      <4>1. slot[w].prompt = persona[t]
        BY <3>2, <3>3, <1>c DEF OfSlot, Handed
      <4>2. Text(slot[w].prompt) = {persona[t]}
        BY <4>1, <1>b DEF Text
      <4>3. injected'[t] = persona[t] /\ inject'[t] = "off"
        BY <2>8, <3>2, <4>2, <1>a, <1>b DEF ReadSlot, Give, Step, HookTypes
      <4>4. QED
        BY <4>3
    <3>4. CASE ~Handing(t)
      <4>1. Text(slot[w].prompt) = {None}
        BY <3>2, <3>4, NoneAssumption DEF Text
      <4>2. inject'[t] = "again" /\ UNCHANGED injected
        BY <2>8, <4>1, <1>a, <1>b DEF ReadSlot, GoOn, Step, HookTypes
      <4>3. session_prompt[Own(t)] = persona[t]
        BY <3>1, <3>4, <1>d DEF Waiting
      <4>4. QED
        BY <4>2, <4>3, <1>a DEF KeptAt
    <3>5. QED
      BY <3>3, <3>4
  <2>9. CASE ReadAgain(t)
    <3>1. injected'[t] = session_prompt[Own(t)] /\ inject[t] = "again" /\ inject'[t] = "off"
      BY <2>4, <2>9, <1>a DEF ReadAgain, Give, Step, HookTypes
    <3>2. QED
      BY <3>1, <1>a, <1>b DEF KeptAt
  <2>10. QED
    BY <1>3, <2>5, <2>7, <2>8, <2>9 DEF InjectStep
<1>4. QED
  BY <1>1, <1>2, <1>3 DEF Hooks, InjectStep

LEMMA KeptInvStep == HandoffInv /\ TypeOK' /\ [Next]_vars => KeptInv'
<1>1. SUFFICES ASSUME HandoffInv, TypeOK', [Next]_vars, NEW u \in Terminals, Undisturbed(u)'
               PROVE  KeptAt(u)'
  BY DEF KeptInv
<1>a. /\ TypeOK /\ SidInv /\ LaunchTypes /\ SessionTypes /\ HookTypes
      /\ mixed \subseteq mixed' /\ spoilt \subseteq spoilt' /\ dir'[u] \notin spoilt'
  BY <1>1, Steps, SpoiltStays DEF HandoffInv, LaunchInv, TypeOK, vars, Undisturbed
\* One that stays where it is was undisturbed before.
<1>b. ASSUME dir'[u] = dir[u], u \in strayed => u \in strayed' PROVE Undisturbed(u) /\ KeptAt(u)
  BY <1>1, <1>a, <1>b DEF Undisturbed, HandoffInv, KeptInv
<1>2. ASSUME NEW t \in Terminals, t # u, Launch(t) \/ Session(t) \/ Hooks(t) PROVE KeptAt(u)'
  BY <1>2, <1>a, <1>b, OthersFrame, KeptByOthers
<1>3. CASE Launch(u)
  <2>1. Preparing(u) => dir'[u] = dir[u] /\ strayed' = strayed
    BY PreparingFrame DEF identity
  <2>2. QED
    BY <1>1, <1>3, <2>1, <1>b, KeptByLaunch
<1>4. CASE Session(u)
  <2>1. CASE Exit(u) \/ Die(u)
    BY <1>1, <1>4, <2>1, KeptBySession
  <2>2. CASE Again(u) \/ (\E w \in scope.workspaces : Cd(u, w)) \/ Clear(u) \/ Handoff(u) \/ Renew(u)
    <3>1. dir'[u] = dir[u] /\ (u \in strayed => u \in strayed')
      BY <2>2 DEF Again, Cd, Clear, Handoff, Renew, identity, marks
    <3>2. QED
      BY <1>1, <1>4, <3>1, <1>b, KeptBySession
  <2>3. QED
    BY <1>4, <2>1, <2>2 DEF Session
<1>5. CASE Hooks(u)
  <2>1. dir'[u] = dir[u] /\ strayed' = strayed
    BY <1>5, HooksFrame DEF identity
  <2>2. QED
    BY <1>1, <1>5, <1>a, <2>1, <1>b, KeptByHooks
<1>6. CASE (\E w \in scope.workspaces : Age(w)) \/ UNCHANGED vars
  <2>1. UNCHANGED <<session_prompt, pc, identity, hooks, strayed>>
    BY <1>6, AgeFrame
  <2>2. KeptAt(u)
    BY <2>1, <1>b DEF identity
  <2>3. QED
    BY <2>1, <2>2 DEF KeptAt, Waiting, Handing, Running, Own, identity, hooks
<1>7. QED
  BY <1>1, <1>2, <1>3, <1>4, <1>5, <1>6, Steps

LEMMA HandoffInvStep == HandoffInv /\ [Next]_vars => HandoffInv'
<1>1. SUFFICES ASSUME HandoffInv, [Next]_vars PROVE HandoffInv'
  OBVIOUS
<1>2. LaunchInv' /\ WorkspaceInv' /\ SidInv' /\ SlotInv' /\ TypeOK'
  BY <1>1, LaunchInvStep, WorkspaceInvStep, SidInvStep, SlotInvStep DEF HandoffInv, LaunchInv
<1>3. QED
  BY <1>1, <1>2, KeptInvStep DEF HandoffInv

LEMMA InitHandoff == Init => HandoffInv
  BY InitLaunch, InitWorkspace, InitSid, InitSlot DEF HandoffInv, LaunchInv

\* Whatever is given up, fails, dies or comes between others elsewhere, a session that
\* has not changed its directory, in a workspace where nothing of the kind happened, is
\* only ever given the prompt of the persona it was started for ...
THEOREM InjectsItsOwn == Spec => []InjectedIsOwn
<1>1. HandoffInv => InjectedIsOwn
  BY DEF HandoffInv, KeptInv, KeptAt, InjectedIsOwn
<1>2. QED
  BY <1>1, InitHandoff, HandoffInvStep, PTL DEF Spec

\* ... and has it again after every compaction, resume and /clear.
THEOREM InjectsAgain == Spec => []Reinjected
<1>1. HandoffInv => Reinjected
  <2>1. SUFFICES ASSUME HandoffInv, NEW t \in Terminals, Undisturbed(t), Settled(t)
                 PROVE  /\ session_prompt[Own(t)] = persona[t]
                        /\ source[t] # "startup" => injected[t] = persona[t]
    BY DEF Reinjected
  <2>2. KeptAt(t) /\ ~Waiting(t)
    BY <2>1 DEF HandoffInv, KeptInv, Waiting, Handing, Settled, Running
  <2>3. QED
    BY <2>1, <2>2 DEF KeptAt, Settled
<1>2. QED
  BY <1>1, InitHandoff, HandoffInvStep, PTL DEF Spec

=============================================================================
