----------------------------- MODULE ToolHooks -----------------------------
(***************************************************************************)
(* The hooks around one tool call of a session: the two that look for      *)
(* behaviour in an interactive session (hook_pre_llm_bash,                 *)
(* hook_pre_llm_tool), the two that hold a subagent to its grants          *)
(* (hook_pre_subagent_bash, hook_pre_subagent_tool), the one that adds the *)
(* dependencies of a Python file (hook_post_llm_read), and the library in  *)
(* which all of them read, answer, log and alert (hook_io).                *)
(*                                                                         *)
(* Claude Code starts the hooks of a call together and waits for all of    *)
(* them (external): one deny refuses the call, else one ask puts it to the *)
(* user, else it runs.  A hook that dies without an answer objects to      *)
(* nothing.  A rule is a record of the subjects it matches; a subject is a *)
(* command or a path, never its text.                                      *)
(***************************************************************************)
EXTENDS Sequences, Naturals

CONSTANTS
    Calls,           \* the tool calls: [tool, target, command]
    Rules(_),        \* category -> its rules in order: [matches, pattern, severity]
    Configs,         \* what a session's hooks are started with
    Unset,           \* no target, no command, no severity, no answer
    MaxDies          \* bound: hooks that die before they have answered

VARIABLES
    call, config,    \* the call and the configuration, chosen once
    hooks,           \* the hooks registered for the call, chosen once
    step,            \* hook -> how far it is
    said,            \* hook -> what it printed: allow, ask or deny
    journal,         \* the hooks whose objection is in intercept.log
    unwritten,       \* those for whose objection the log could not be written
    alerts,          \* the hooks whose objection the datagrams carry
    verdict,         \* of Claude Code: pending, asking, ran, refused
    approved,        \* the user approved
    died

hookVars == <<call, config, hooks, step, said, journal, unwritten, alerts, verdict, approved, died>>

chosen == <<call, config, hooks>>
records == <<journal, unwritten>>

Categories == {"destruction", "chaining", "subversion", "truncation", "evasion", "revert", "workflow",
               "floor", "probing", "gaming"}

DecisionKinds == {"allow", "warn", "ask", "deny"}

\* A rule without a severity has that of its category.
ASSUME RulesAssumption ==
    \A category \in Categories :
        /\ DOMAIN Rules(category) \subseteq Nat
        /\ \A i \in DOMAIN Rules(category) :
              Rules(category)[i].severity \in {Unset, "warn", "ask", "block"}

ASSUME UnsetAssumption ==
    Unset \notin {"warn", "ask", "block"} \cup DecisionKinds \cup [kind : DecisionKinds, category : Categories]

-----------------------------------------------------------------------------
(* Decisions.                                                              *)

Decision(kind, category) == [kind |-> kind, category |-> category]
Allow == Decision("allow", "none")
Deny(category) == Decision("deny", category)

\* make_decision: block denies, ask asks, warn allows with a warning.  The text
\* quotes the subject, cut to 60 bytes when it is longer.
make_decision(severity, category) ==
    Decision(CASE severity = "block" -> "deny" [] severity = "ask" -> "ask"
               [] severity = "warn" -> "warn", category)

\* A severity that is not recognised disables its category.
parse_severity(level) == IF level \in {"warn", "ask", "block"} THEN level ELSE Unset

Severity(rule, default) == IF rule.severity = Unset THEN default ELSE rule.severity

\* The rules of a category that match, and the first of them.
Matching(category, subject) == {i \in DOMAIN Rules(category) : subject \in Rules(category)[i].matches}

First(places) == CHOOSE i \in places : \A j \in places : i <= j

FirstRule(category, subject) == Rules(category)[First(Matching(category, subject))]

\* The first rule of a category that matches decides; when its pattern is
\* exempted, the category says nothing.
check_category(command, category, default, allowed) ==
    IF \/ Matching(category, command.id) = {}
       \/ FirstRule(category, command.id).pattern \in allowed
    THEN Unset
    ELSE make_decision(Severity(FirstRule(category, command.id), default), category)

BashOrder == <<"destruction", "chaining", "subversion", "truncation", "evasion", "revert",
               "workflow">>

\* What an enabled category says of a command.
Objection(command, category) ==
    LET default == parse_severity(config.severity[category])
    IN  IF default = Unset THEN Unset
        ELSE check_category(command, category, default, config.allowPatterns)

Objecting(command) == {i \in DOMAIN BashOrder : Objection(command, BashOrder[i]) # Unset}

\* Mutant: every category is asked, the last objection counts.
LastObjection(c) ==
    IF c.command = Unset \/ c.command.blank \/ Objecting(c.command) = {} THEN Allow
    ELSE LET last == CHOOSE i \in Objecting(c.command) : \A j \in Objecting(c.command) : i >= j
         IN  Objection(c.command, BashOrder[last])

\* hook_pre_llm_bash: the enabled categories in order, the first objection counts.
decide_llm_bash(c) ==
    IF c.command = Unset \/ c.command.blank \/ Objecting(c.command) = {} THEN Allow
    ELSE Objection(c.command, BashOrder[First(Objecting(c.command))])

\* A layer of hook_pre_llm_tool above the floor.
Layer(category, target) ==
    LET default == parse_severity(config.severity[category])
    IN  IF default = Unset \/ Matching(category, target) = {} THEN Unset
        ELSE make_decision(Severity(FirstRule(category, target), default), category)

\* Mutant: the exemptions are looked at before the floor.
ExemptFirst(c) ==
    CASE c.target = Unset \/ c.target \in config.allowPaths -> Allow
      [] c.target # Unset /\ c.target \notin config.allowPaths ->
            IF Matching("floor", c.target) # {} THEN Deny("floor")
            ELSE IF Layer("probing", c.target) # Unset THEN Layer("probing", c.target)
            ELSE IF Layer("gaming", c.target) # Unset THEN Layer("gaming", c.target)
            ELSE Allow

\* hook_pre_llm_tool: the floor admits no exemption, the layers above it do.
decide_llm_tool(c) ==
    IF c.target = Unset THEN Allow
    ELSE IF Matching("floor", c.target) # {} THEN Deny("floor")
    ELSE IF c.target \in config.allowPaths THEN Allow
    ELSE IF Layer("probing", c.target) # Unset THEN Layer("probing", c.target)
    ELSE IF Layer("gaming", c.target) # Unset THEN Layer("gaming", c.target)
    ELSE Allow

\* check_writer_and_name.
check_writer_and_name(command) ==
    IF command.writer \in config.writers /\ command.plainName THEN Allow ELSE Deny("bash")

\* validate_writer: a heredoc of header, body and closing line, or an echo.
validate_writer(command) ==
    IF command.form \in {"heredoc", "echo"} THEN check_writer_and_name(command)
    ELSE Deny("bash")

\* validate_inspect: every absolute path of the command under the prefix its
\* first word is granted, without "..".
validate_inspect(command) ==
    CASE command.chained -> Deny("chaining")
      [] ~ command.chained /\ "dotdot" \in command.paths -> Deny("path")
      [] ~ command.chained /\ "dotdot" \notin command.paths ->
            IF command.paths \subseteq config.inspect[command.first] THEN Allow
            ELSE Deny("bash")

\* hook_pre_subagent_bash: a known writer behind a pipe, else a known command.
decide_subagent_bash(c) ==
    IF c.command = Unset \/ c.command.blank THEN Deny("bash")
    ELSE IF c.command.first \in {"cat", "echo"} /\ c.command.writer \in config.writers
         THEN IF c.command.chained THEN Deny("chaining") ELSE validate_writer(c.command)
    ELSE IF c.command.first \in DOMAIN config.inspect THEN validate_inspect(c.command)
    ELSE Deny("bash")

\* hook_pre_subagent_tool: the prefixes granted to the tool.
decide_subagent_tool(c) ==
    IF DOMAIN config.grants = {} THEN Deny("config")
    ELSE IF c.tool \notin DOMAIN config.grants THEN Deny("path")
    ELSE IF c.target = Unset \/ c.target \in config.grants[c.tool] THEN Allow
    ELSE Deny("path")

\* hook_post_llm_read always allows; what it adds is in Deps.
decide(hook) ==
    CASE hook = "llm_bash" -> decide_llm_bash(call)
      [] hook = "llm_tool" -> decide_llm_tool(call)
      [] hook = "subagent_bash" -> decide_subagent_bash(call)
      [] hook = "subagent_tool" -> decide_subagent_tool(call)
      [] hook = "llm_read" -> Allow

\* The wire form: a warning is an allow with a reason and a context.
PreToolUseResponse(decision) ==
    IF decision.kind \in {"ask", "deny"} THEN decision.kind ELSE "allow"

Objects(decision) == decision.kind # "allow"

-----------------------------------------------------------------------------
HooksInit ==
    /\ call \in Calls /\ config \in Configs
    /\ hooks \in {IF call.tool = "Bash" THEN {"llm_bash"} ELSE {"llm_tool", "llm_read"},
                  IF call.tool = "Bash" THEN {"llm_bash", "subagent_bash"}
                  ELSE {"llm_tool", "subagent_tool"}}
    /\ step = [h \in hooks |-> "started"] /\ said = [h \in hooks |-> Unset]
    /\ journal = {} /\ unwritten = {} /\ alerts = {} /\ verdict = "pending" /\ approved = FALSE
    /\ died = 0

\* run_pre_hook: the event is read and decided on.  The text of a decision by
\* hook_pre_llm_bash cuts a long command at a byte, which ends the hook when the
\* byte is inside a character.
Decide(h) ==
    /\ step[h] = "started"
    /\ ~ (h = "llm_bash" /\ Objects(decide(h)) /\ call.command.cutsCharacter)
    /\ IF Objects(decide(h))
       THEN step' = [step EXCEPT ![h] = "decided"] /\ UNCHANGED said
       ELSE /\ step' = [step EXCEPT ![h] = "done"]
            /\ said' = [said EXCEPT ![h] = "allow"]
    /\ UNCHANGED <<chosen, records, alerts, verdict, approved, died>>

Cut(h) ==
    /\ step[h] = "started"
    /\ h = "llm_bash" /\ Objects(decide(h)) /\ call.command.cutsCharacter
    /\ step' = [step EXCEPT ![h] = "dead"]
    /\ UNCHANGED <<chosen, said, records, alerts, verdict, approved, died>>

\* Mutant: the answer is given before the objection is in the log.
AnswerFirst(h) ==
    /\ step[h] = "decided"
    /\ step' = [step EXCEPT ![h] = "logged"]
    /\ said' = [said EXCEPT ![h] = PreToolUseResponse(decide(h))]
    /\ UNCHANGED <<chosen, records, alerts, verdict, approved, died>>

\* notify_and_log, before anything is answered.  A log that cannot be opened or
\* written is passed over.
Log(h) ==
    /\ step[h] = "decided"
    /\ step' = [step EXCEPT ![h] = "logged"]
    /\ \/ journal' = journal \cup {h} /\ UNCHANGED unwritten
       \/ unwritten' = unwritten \cup {h} /\ UNCHANGED journal
    /\ UNCHANGED <<chosen, said, alerts, verdict, approved, died>>

Answer(h) ==
    /\ step[h] = "logged"
    /\ step' = [step EXCEPT ![h] = "answered"]
    /\ said' = [said EXCEPT ![h] = PreToolUseResponse(decide(h))]
    /\ UNCHANGED <<chosen, records, alerts, verdict, approved, died>>

\* emit_to_watchtower, which nobody may hear; what speak_alert says aloud is left out.
Emit(h) ==
    /\ step[h] = "answered"
    /\ step' = [step EXCEPT ![h] = "done"] /\ alerts' \in {alerts, alerts \cup {h}}
    /\ UNCHANGED <<chosen, said, records, verdict, approved, died>>

Die(h) ==
    /\ step[h] \notin {"done", "dead"} /\ died < MaxDies
    /\ step' = [step EXCEPT ![h] = "dead"] /\ died' = died + 1
    /\ UNCHANGED <<chosen, said, records, alerts, verdict, approved>>

\* An event that cannot be read is allowed.
Unreadable(h) ==
    /\ step[h] = "started" /\ died < MaxDies
    /\ step' = [step EXCEPT ![h] = "dead"] /\ said' = [said EXCEPT ![h] = "allow"]
    /\ died' = died + 1
    /\ UNCHANGED <<chosen, records, alerts, verdict, approved>>

\* Claude Code has heard every hook of the call.
Conclude ==
    /\ verdict = "pending" /\ \A h \in hooks : step[h] \in {"done", "dead"}
    /\ verdict' = CASE \E h \in hooks : said[h] = "deny" -> "refused"
                    [] (\A h \in hooks : said[h] # "deny") /\
                       (\E h \in hooks : said[h] = "ask") -> "asking"
                    [] \A h \in hooks : said[h] \notin {"deny", "ask"} -> "ran"
    /\ UNCHANGED <<chosen, step, said, records, alerts, approved, died>>

UserDecides(yes) ==
    /\ verdict = "asking"
    /\ approved' = yes /\ verdict' = IF yes THEN "ran" ELSE "refused"
    /\ UNCHANGED <<chosen, step, said, records, alerts, died>>

HooksNext ==
    \/ \E h \in hooks : Decide(h) \/ Cut(h) \/ Log(h) \/ Answer(h) \/ Emit(h) \/ Die(h)
                          \/ Unreadable(h)
    \/ Conclude
    \/ \E yes \in BOOLEAN : UserDecides(yes)

HooksSpec == HooksInit /\ [][HooksNext]_hookVars

-----------------------------------------------------------------------------
\* What a call meets, stated without the order the hooks look in.
Enabled(category) == parse_severity(config.severity[category]) # Unset

Clean == \* no enabled rule matches, and the grants cover the call
    /\ call.command # Unset =>
          \A i \in DOMAIN BashOrder : Enabled(BashOrder[i]) =>
              \A k \in Matching(BashOrder[i], call.command.id) :
                  Rules(BashOrder[i])[k].pattern \in config.allowPatterns
    /\ call.target # Unset =>
          /\ Matching("floor", call.target) = {}
          /\ \/ call.target \in config.allowPaths
             \/ \A c \in {"probing", "gaming"} : Enabled(c) => Matching(c, call.target) = {}

\* A command whose every destructive match blocks, without an exemption.
Destroys(command) ==
    LET met == {Rules("destruction")[k] : k \in Matching("destruction", command.id)}
    IN  /\ Enabled("destruction") /\ ~ command.blank /\ met # {}
        /\ \A r \in met : /\ r.pattern \notin config.allowPatterns
                         /\ Severity(r, config.severity["destruction"]) = "block"

\* A call runs only past hooks that let it: on the floor no exemption helps; what
\* a hook denied is refused and what it asked about was approved by the user, unless
\* the hook died, and whether or not the log and the datagrams could be written; a
\* destructive command does not run; a subagent never reaches a tool it has no grant
\* for; no objection is answered before the log has it or has failed to take it; and
\* what nothing objects to is not refused.
ToolRunsAsDecided ==
    LET alive(h) == h \in hooks /\ step[h] # "dead"
    IN  /\ verdict = "ran" =>
              /\ (alive("llm_tool") /\ call.target # Unset) =>
                    Matching("floor", call.target) = {}
              /\ alive("subagent_tool") => call.tool \in DOMAIN config.grants
              /\ \A h \in hooks : said[h] # "deny" /\ (said[h] = "ask" => approved)
              /\ \A h \in hooks : alive(h) =>
                    decide(h).kind # "deny" /\ (decide(h).kind = "ask" => approved)
        /\ \A h \in hooks : said[h] \in {"ask", "deny"} => h \in journal \cup unwritten
        /\ (alive("llm_bash") /\ call.command # Unset) =>
              ~ (verdict = "ran" /\ Destroys(call.command))
        /\ (verdict \in {"asking", "refused"} /\ hooks \cap {"subagent_bash", "subagent_tool"} = {})
              => ~ Clean

=============================================================================
