------------------------------- MODULE Gates -------------------------------
(***************************************************************************)
(* The gates of the agent definition pipeline, the library they share      *)
(* (gate_io), the passthrough that applies defaults (default_apply_io) and *)
(* the check tools (io_check and the check_ tools of cli).                 *)
(*                                                                         *)
(* A stage of the pipeline hands its definition to the next one through a  *)
(* TOML file: the output gate of the stage validates and writes it, the    *)
(* input gate reads and validates it again.  The two are separate crates,  *)
(* 37 of one mould, that agree only because each names the same schema.    *)
(* Modelled is one stage at a time: the file its gate reads (draft), the   *)
(* file it writes (result), the paths that exist, and a caller that may be *)
(* killed in the middle of a write, which is not atomic.  What a schema    *)
(* accepts is external: a definition here is accepted by one schema.       *)
(***************************************************************************)
EXTENDS Defaults, PathFields, Naturals

CONSTANTS
    Definitions,     \* [schema, body, names, writable], or [schema, raw] for a raw one
    SchemaTree(_),   \* the annotated schema of a name, as PathFields has it
    RawSchema,       \* the raw definition's schema, as Defaults has it
    Paths,           \* what a definition may name
    Lenient,         \* the schemas that accept an empty table
    Foreign,         \* a schema whose definitions come to every stage
    NoFile, Torn,    \* a file that is not there, and one truncated and not yet written
    NoAnswer,            \* no answer
    MaxGateFaults,   \* bound: calls killed or failed in the middle of a write
    MaxGateMoves     \* bound: paths that come and go, and edits by hand

VARIABLES
    stage,           \* the stage, chosen once
    draft, result,   \* the files before and behind the gate
    world,           \* the paths that exist
    writing,         \* what a call has validated and is about to write, or NoAnswer
    truncated,       \* that call has opened the file
    told,            \* the definition the caller was last told is in `result`
    answer,          \* what the input gate or the check tool last said, of which
                     \* content and in which world
    gateFaults, gateMoves

gateVars == <<stage, draft, result, world, writing, truncated, told, answer,
              gateFaults, gateMoves>>

\* The lists of a schema are sequences.
SchemaAssumption ==
    /\ Preorder \in Seq(Range(Preorder))
    /\ \A p \in Range(Preorder) : RawSchema.allOf[p] \in Seq(Range(RawSchema.allOf[p]))

\* A definition is a record of these fields.
DefinitionsAssumption ==
    \A d \in Definitions : d = [schema |-> d.schema, names |-> d.names, body |-> d.body,
                                writable |-> d.writable, raw |-> d.raw]

ASSUME SchemaAssumption
ASSUME DefinitionsAssumption

-----------------------------------------------------------------------------
(* The gates: the pattern each follows, its schema, and whether it verifies *)
(* paths.                                                                  *)

Gate(pattern, schema, verify) ==
    [pattern |-> pattern, schema |-> schema, verify |-> verify]

gate_anthropic_render_input == Gate("input", "ANTHROPIC_RENDER", TRUE)
gate_anthropic_render_output == Gate("output", "ANTHROPIC_RENDER", TRUE)
gate_criteria_merged_input == Gate("input", "CRITERIA_MERGED", TRUE)
gate_criteria_merged_output == Gate("output", "CRITERIA_MERGED", TRUE)
gate_examples_reduced_input == Gate("input", "EXAMPLES_REDUCED", TRUE)
gate_examples_reduced_output == Gate("output", "EXAMPLES_REDUCED", TRUE)
gate_execution_merged_input == Gate("input", "EXECUTION_MERGED", TRUE)
gate_execution_merged_output == Gate("output", "EXECUTION_MERGED", TRUE)
gate_guardrails_reduced_input == Gate("input", "GUARDRAILS_REDUCED", TRUE)
gate_guardrails_reduced_output == Gate("output", "GUARDRAILS_REDUCED", TRUE)
gate_include_example_entries_input == Gate("input", "INCLUDE_EXAMPLE_ENTRIES", FALSE)
gate_include_example_group_input == Gate("input", "INCLUDE_EXAMPLE_GROUP", FALSE)
gate_include_execution_instructions_input == Gate("input", "INCLUDE_EXECUTION_INSTRUCTIONS", FALSE)
gate_include_failure_criteria_input == Gate("input", "INCLUDE_FAILURE_CRITERIA", FALSE)
gate_include_guardrails_anti_patterns_input == Gate("input", "INCLUDE_GUARDRAILS_ANTI_PATTERNS", FALSE)
gate_include_guardrails_constraints_input == Gate("input", "INCLUDE_GUARDRAILS_CONSTRAINTS", FALSE)
gate_include_success_criteria_input == Gate("input", "INCLUDE_SUCCESS_CRITERIA", FALSE)
gate_includes_merged_input == Gate("input", "INCLUDES_MERGED", TRUE)
gate_includes_merged_output == Gate("output", "INCLUDES_MERGED", TRUE)
gate_instructions_reduced_input == Gate("input", "INSTRUCTIONS_REDUCED", TRUE)
gate_instructions_reduced_output == Gate("output", "INSTRUCTIONS_REDUCED", TRUE)
gate_output_content_input == Gate("input", "OUTPUT_CONTENT", FALSE)
gate_output_display_input == Gate("input", "OUTPUT_DISPLAY", FALSE)
gate_output_structure_input == Gate("input", "OUTPUT_STRUCTURE", FALSE)
gate_paths_resolved_output == Gate("output", "PATHS_RESOLVED", FALSE)
gate_paths_verified == Gate("passthrough", "PATHS_RESOLVED", TRUE)
gate_paths_verified_input == Gate("input", "PATHS_RESOLVED", TRUE)
gate_permissions_resolved_input == Gate("input", "PERMISSIONS_RESOLVED", TRUE)
gate_permissions_resolved_output == Gate("output", "PERMISSIONS_RESOLVED", TRUE)
gate_raw_definition_defaults == Gate("defaults", "RAW_DEFINITION", FALSE)
gate_raw_definition_input == Gate("input", "RAW_DEFINITION", FALSE)
gate_success_reduced_input == Gate("input", "SUCCESS_REDUCED", TRUE)
gate_success_reduced_output == Gate("output", "SUCCESS_REDUCED", TRUE)
gate_universal_format_input == Gate("input", "UNIVERSAL_FORMAT", TRUE)
gate_universal_format_output == Gate("output", "UNIVERSAL_FORMAT", TRUE)
gate_universal_render_input == Gate("input", "UNIVERSAL_RENDER", TRUE)
gate_universal_render_output == Gate("output", "UNIVERSAL_RENDER", TRUE)

\* Files written by hand: no output gate stands before their input gate.
Hand == Gate("hand", "none", FALSE)

(* The check tools: the schema and whether paths are verified.             *)
check_anthropic_render == Gate("check", "ANTHROPIC_RENDER", TRUE)
check_includes_merged == Gate("check", "INCLUDES_MERGED", TRUE)
check_paths_resolved == Gate("check", "PATHS_RESOLVED", FALSE)
check_paths_verified == Gate("check", "PATHS_RESOLVED", TRUE)
check_permissions_resolved == Gate("check", "PERMISSIONS_RESOLVED", TRUE)
check_raw_definition == Gate("check", "RAW_DEFINITION", FALSE)
check_universal_format == Gate("check", "UNIVERSAL_FORMAT", TRUE)
check_universal_render == Gate("check", "UNIVERSAL_RENDER", TRUE)

Stage(writer, reader, check) == [writer |-> writer, reader |-> reader, check |-> check]

Stages == {
    Stage(gate_raw_definition_defaults, gate_raw_definition_input, check_raw_definition),
    Stage(gate_paths_resolved_output, gate_paths_verified, check_paths_resolved),
    Stage(gate_paths_verified, gate_paths_verified_input, check_paths_verified),
    Stage(gate_guardrails_reduced_output, gate_guardrails_reduced_input, NoAnswer),
    Stage(gate_success_reduced_output, gate_success_reduced_input, NoAnswer),
    Stage(gate_criteria_merged_output, gate_criteria_merged_input, NoAnswer),
    Stage(gate_instructions_reduced_output, gate_instructions_reduced_input, NoAnswer),
    Stage(gate_examples_reduced_output, gate_examples_reduced_input, NoAnswer),
    Stage(gate_execution_merged_output, gate_execution_merged_input, NoAnswer),
    Stage(gate_includes_merged_output, gate_includes_merged_input, check_includes_merged),
    Stage(gate_permissions_resolved_output, gate_permissions_resolved_input,
          check_permissions_resolved),
    Stage(gate_universal_format_output, gate_universal_format_input, check_universal_format),
    Stage(gate_universal_render_output, gate_universal_render_input, check_universal_render),
    Stage(gate_anthropic_render_output, gate_anthropic_render_input, check_anthropic_render)}
    \cup {Stage(Hand, reader, NoAnswer) : reader \in {
              gate_include_example_entries_input, gate_include_example_group_input,
              gate_include_execution_instructions_input, gate_include_failure_criteria_input,
              gate_include_guardrails_anti_patterns_input,
              gate_include_guardrails_constraints_input, gate_include_success_criteria_input,
              gate_output_content_input, gate_output_display_input,
              gate_output_structure_input}}

-----------------------------------------------------------------------------
(* What the gates compute.                                                 *)

\* schema.validate: a torn file parses as an empty table.
Accepts(schema, content) ==
    IF content = Torn THEN schema \in Lenient ELSE content.schema = schema

PathsExist(gate, content, there) ==
    \/ ~ gate.verify
    \/ content = Torn
    \/ verify_paths(SchemaTree(gate.schema), content.body, there)

\* Mutant: the paths are verified only if the schema refuses the definition.
VerifyWhenInvalid(gate, content, there) ==
    content # NoFile /\ (Accepts(gate.schema, content) \/ PathsExist(gate, content, there))

\* The input gate: what it returns for a file, as a condition on the file.
read_and_validate(gate, content, there) ==
    content # NoFile /\ Accepts(gate.schema, content) /\ PathsExist(gate, content, there)

\* The output gate up to the write: TOML has no null, so not all can be written.
validate_and_write(gate, definition, there) ==
    /\ Accepts(gate.schema, definition)
    /\ PathsExist(gate, definition, there)
    /\ definition.writable

\* The passthrough gate up to the write.
read_validate_write(gate, content, there) == read_and_validate(gate, content, there)

\* The definition with its defaults, for the passthrough that applies them.
WithDefaults(definition) ==
    [definition EXCEPT !.raw = apply_conditional_defaults(RawSchema, definition.raw)]

\* What a gate may come to write: a definition, or one with its defaults.
Written ==
    Definitions \cup {WithDefaults(d) : d \in {e \in Definitions : e.schema = "RAW_DEFINITION"}}

\* Neither is an absent or a torn file, nor no answer.
KindsApart == {NoFile, Torn, NoAnswer} \cap Written = {} /\ NoFile # Torn

ASSUME KindsApart

\* Arguments, in order, up to the first that ends the scan: help, an unknown
\* option, or a second file.  The latter two are reported and the tool goes on.
parse_check_args(args) ==
    LET ends(i) == \/ args[i] \in {"help", "option"}
                   \/ args[i] = "file" /\ \E j \in 1 .. i - 1 : args[j] = "file"
        stops == {i \in DOMAIN args : ends(i)}
        last == IF stops = {} THEN Len(args) ELSE Min(stops) - 1
    IN  IF stops # {} /\ args[Min(stops)] = "help" THEN "help"
        ELSE IF \E j \in 1 .. last : args[j] = "file" THEN "file" ELSE "stdin"

\* The exit code: 0 valid, 1 invalid, 2 for what could not be read and for a
\* definition whose paths are missing, which reaches run_check as an error.
run_check(check, content, there) ==
    CASE content = NoFile -> 2
      [] content # NoFile /\ ~ Accepts(check.schema, content) -> 1
      [] content # NoFile /\ Accepts(check.schema, content) ->
            IF PathsExist(check, content, there) THEN 0 ELSE 2

-----------------------------------------------------------------------------
GatesInit ==
    /\ stage \in Stages
    /\ draft \in {NoFile} \cup {d \in Definitions : d.schema = stage.writer.schema}
    /\ result = NoFile /\ world \in SUBSET Paths
    /\ writing = NoAnswer /\ truncated = FALSE
    /\ told = NoAnswer /\ answer = NoAnswer
    /\ gateFaults = 0 /\ gateMoves = 0

\* A caller hands a definition to the output gate.
Offer(definition) ==
    /\ writing = NoAnswer /\ stage.writer.pattern = "output"
    /\ IF validate_and_write(stage.writer, definition, world)
       THEN writing' = definition
       ELSE UNCHANGED writing
    /\ told' = NoAnswer
    /\ UNCHANGED <<stage, draft, result, world, truncated, answer,
                   gateFaults, gateMoves>>

PassThrough ==
    /\ writing = NoAnswer /\ stage.writer.pattern = "passthrough"
    /\ IF read_validate_write(stage.writer, draft, world)
       THEN writing' = draft
       ELSE UNCHANGED writing
    /\ told' = NoAnswer
    /\ UNCHANGED <<stage, draft, result, world, truncated, answer,
                   gateFaults, gateMoves>>

\* read_apply_validate_write.
ApplyDefaults ==
    /\ writing = NoAnswer /\ stage.writer.pattern = "defaults"
    /\ IF draft # NoFile /\ Accepts(stage.writer.schema, draft)
       THEN writing' = WithDefaults(draft)
       ELSE UNCHANGED writing
    /\ told' = NoAnswer
    /\ UNCHANGED <<stage, draft, result, world, truncated, answer,
                   gateFaults, gateMoves>>

\* write_file: the file is truncated, then written.
OpenFile ==
    /\ writing # NoAnswer /\ ~ truncated
    /\ result' = Torn /\ truncated' = TRUE
    /\ UNCHANGED <<stage, draft, world, writing, told, answer, gateFaults, gateMoves>>

FillFile ==
    /\ writing # NoAnswer /\ truncated
    /\ result' = writing /\ told' = writing
    /\ writing' = NoAnswer /\ truncated' = FALSE
    /\ UNCHANGED <<stage, draft, world, answer, gateFaults, gateMoves>>

\* The caller is killed, or the write fails and the gate answers with an error.
GiveUp ==
    /\ writing # NoAnswer /\ gateFaults < MaxGateFaults
    /\ writing' = NoAnswer /\ truncated' = FALSE /\ gateFaults' = gateFaults + 1
    /\ UNCHANGED <<stage, draft, result, world, told, answer, gateMoves>>

\* The next stage reads the file.
Read ==
    /\ answer' = IF read_and_validate(stage.reader, result, world)
                 THEN [by |-> "gate", on |-> result, in |-> world] ELSE NoAnswer
    /\ UNCHANGED <<stage, draft, result, world, writing, truncated, told,
                   gateFaults, gateMoves>>

\* Somebody runs the check tool of the stage; standard input is taken as the
\* draft piped to it.
RunCheck(args) ==
    /\ stage.check # NoAnswer
    /\ LET input == parse_check_args(args)
           content == IF input = "file" THEN result ELSE draft
           code == IF input = "help" THEN 0 ELSE run_check(stage.check, content, world)
       IN  answer' = [by |-> "check", code |-> code, in |-> world,
                      on |-> IF input = "help" THEN NoAnswer ELSE content]
    /\ UNCHANGED <<stage, draft, result, world, writing, truncated, told,
                   gateFaults, gateMoves>>

\* A path comes or goes.
MovePath ==
    /\ gateMoves < MaxGateMoves /\ gateMoves' = gateMoves + 1
    /\ \E p \in Paths : world' = IF p \in world THEN world \ {p} ELSE world \cup {p}
    /\ UNCHANGED <<stage, draft, result, writing, truncated, told, answer, gateFaults>>

\* A file is written by hand, in front of an input gate that has no output gate.
WriteByHand(definition) ==
    /\ stage.writer = Hand /\ gateMoves < MaxGateMoves /\ gateMoves' = gateMoves + 1
    /\ result' = definition
    /\ UNCHANGED <<stage, draft, world, writing, truncated, told, answer, gateFaults>>

\* What callers come with: definitions of the stage, and some of another.
Offered == {d \in Definitions : d.schema \in {stage.writer.schema, stage.reader.schema, Foreign}}

GatesNext ==
    \/ \E d \in Offered : Offer(d) \/ WriteByHand(d)
    \/ PassThrough \/ ApplyDefaults
    \/ OpenFile \/ FillFile \/ GiveUp
    \/ Read
    \/ \E args \in {<<>>, <<"file">>, <<"json", "file">>, <<"file", "help">>,
                    <<"option", "file">>, <<"file", "file", "help">>} : RunCheck(args)
    \/ MovePath

GatesSpec == GatesInit /\ [][GatesNext]_gateVars

-----------------------------------------------------------------------------
\* What one gate said it wrote, the next gate takes, as long as the paths it
\* names are still there; what the gate of the raw definitions wrote satisfies
\* every entry of the schema, if one pass can, and keeps what the author wrote;
\* what an input gate returned is a whole definition of its schema whose paths
\* all existed when it answered; and a check tool that ends with 0 passes only
\* what the gate of its stage would pass.
GatesAgree ==
    /\ told # NoAnswer =>
          /\ result = told
          /\ told.names \subseteq world => read_and_validate(stage.reader, result, world)
          /\ (stage.writer.pattern = "defaults" /\ OnePass(RawSchema)) =>
                Settled(RawSchema, told.raw) /\ Keeps(RawSchema, draft.raw, told.raw)
    /\ (answer # NoAnswer /\ answer.by = "gate") =>
          /\ answer.on \in Written
          /\ answer.on.schema = stage.reader.schema
          /\ stage.reader.verify => answer.on.names \subseteq answer.in
    /\ (answer # NoAnswer /\ answer.by = "check" /\ answer.on # NoAnswer) =>
          ((answer.code = 0) <=> read_and_validate(stage.check, answer.on, answer.in))
=============================================================================
