----------------------------- MODULE Guardrails -----------------------------
(***************************************************************************)
(* gleipnir's checks of Python files, which of them a place in the project *)
(* calls for, and a project whose files are edited and checked one by one. *)
(*                                                                         *)
(* A source is what the checks tell apart of a file: imports, functions,   *)
(* classes, top-level assignments, type annotations, calls, lambdas,       *)
(* except clauses and marked lines.  A name is a record: text, size in     *)
(* characters, how it begins ("", "_", "_T", "__", "__x__", "test_") and   *)
(* whether it ends in a number that the list of known ones does not        *)
(* excuse.  A function lists the nodes of its body that count, each with   *)
(* the kinds of the nodes it stands in.                                    *)
(***************************************************************************)
EXTENDS Layers

CONSTANTS
  FilePaths,     \* the files a project may have
  PythonSources, \* what may be written in one
  TestStems,     \* the file names that have "test" in them
  NoSource,      \* there is no such file
  Unchecked      \* a file that was not checked since it was written

\* Only a from-import can be relative.
ASSUME ImportsAssumption ==
  \A s \in PythonSources : \A i \in s.imports :
    /\ i.module \in Seq(STRING) /\ i.names \cup i.renamed \subseteq STRING
    /\ i.level \in Nat /\ (i.form # "from" => i.level = 0)
ASSUME PathsAssumption == FilePaths \subseteq Seq(STRING) \ {<<>>}
ASSUME UncheckedAssumption == Unchecked # {}

-----------------------------------------------------------------------------
(* Types. *)

NamesInTypes(src) == UNION {t.names : t \in src.types}

check_no_any_types(src) == "Any" \in NamesInTypes(src)

check_no_object(src) == "object" \in NamesInTypes(src)

check_no_json_value(src) == "JsonValue" \in NamesInTypes(src)

check_no_bare_collections(src) ==
  \E t \in src.types : t.bare \cap {"dict", "list", "set", "tuple"} # {}

check_no_any_type_aliases(src) == \E t \in src.types : t.where = "alias" /\ "Any" \in t.names

check_no_callable_params(src) == \E t \in src.types : t.where = "param" /\ "Callable" \in t.names

check_no_callable_type_aliases(src) == \E t \in src.types : t.where = "alias" /\ "Callable" \in t.names

check_no_string_annotations(src) == \E t \in src.types : t.where \in {"param", "return"} /\ t.string

(* None is free, and one member is no union. *)
check_union_member_count(src, config) ==
  \E t \in src.types :
    /\ t.simple + t.named > 1
    /\ \/ t.simple > config.max_simple_union_members
       \/ t.named > config.max_named_union_members

AtTop(src) == {a \in src.assigns : a.at = "module"}

check_no_implicit_type_aliases(src) ==
  \E a \in AtTop(src) :
    a.right \in {"Literal[]", "dict[]", "list[]", "set[]", "tuple[]", "union"}

TypeFindings(src, config) ==
  LET found == [no_any_types |-> check_no_any_types(src),
                no_object |-> check_no_object(src),
                no_json_value |-> check_no_json_value(src),
                no_bare_collections |-> check_no_bare_collections(src),
                no_any_type_aliases |-> check_no_any_type_aliases(src),
                no_callable_params |-> check_no_callable_params(src),
                no_callable_type_aliases |-> check_no_callable_type_aliases(src),
                no_string_annotations |-> check_no_string_annotations(src),
                union_member_count |-> check_union_member_count(src, config),
                no_implicit_type_aliases |-> check_no_implicit_type_aliases(src)] IN
  {name \in DOMAIN found : found[name]}

-----------------------------------------------------------------------------
(* What no file may use. *)

HasCall(src, name) == \E c \in src.calls : c.name = name

LineHas(src, texts) == \E l \in src.lines : l.has \cap texts # {}

check_no_cast(src) == HasCall(src, "cast")

check_no_partial(src) == HasCall(src, "partial")

check_no_re_sub(src) == \E c \in src.calls : c.object = "re" /\ c.name = "sub"

(* A call by its bare name, in the function or one nested in it. *)
check_no_recursion(src) ==
  \E f \in src.functions, c \in src.calls :
    c.object = "" /\ c.name = f.name.text /\ f.name.text \in c.inside

check_no_overload(src) == \E f \in src.functions : "overload" \in f.decorators

check_no_bare_except(src) == "" \in src.excepts

check_no_broad_exceptions(src) == "Exception" \in src.excepts

check_no_print(src) == CodeHas(src, {"print("})

check_no_model_dump(src) == CodeHas(src, {".model_dump()", ".dict()"})

(* Comments count for these. *)
check_no_future_annotations(src) == LineHas(src, {"from __future__ import annotations"})

check_pydantic_only(src) ==
  LineHas(src, {"TypedDict", "@dataclass", "NamedTuple", "TypeAlias", "@define", "@frozen",
                "@mutable", "@attrs", "msgspec.Struct", "@msgspec.struct"})

(* A specific pyright code is a suppression like the rest. *)
check_no_suppression_comments(src) ==
  LineHas(src, {"type: ignore", "type: ignore[]", "noqa", "pylint: disable",
                "pyright: ignore", "pyright: ignore[]"})

check_init_files_empty(path, src) ==
  Final(path) = "__init__" /\ "empty" \notin src.marks /\ "ephemeral" \notin src.marks

check_no_dunder_all(src) == \E a \in AtTop(src) : a.left.text = "__all__"

(* One that takes a name of the function around it is reported as a closure. *)
NestedFunctions(src) ==
  {IF f.free \cap f.around # {} THEN "no_closures" ELSE "no_nested_functions" :
    f \in {g \in src.functions : g.at = "function"}}

check_no_general_lambda(src) == "elsewhere" \in src.lambdas

check_no_default_factory(src) == "default_factory" \in src.lambdas

ProhibitedFindings(path, src) ==
  LET found == [no_cast |-> check_no_cast(src),
                no_partial |-> check_no_partial(src),
                no_re_sub |-> check_no_re_sub(src),
                no_recursion |-> check_no_recursion(src),
                no_overload |-> check_no_overload(src),
                no_bare_except |-> check_no_bare_except(src),
                no_broad_exceptions |-> check_no_broad_exceptions(src),
                no_print |-> check_no_print(src),
                no_model_dump |-> check_no_model_dump(src),
                no_future_annotations |-> check_no_future_annotations(src),
                no_suppression_comments |-> check_no_suppression_comments(src),
                init_files_empty |-> check_init_files_empty(path, src),
                no_dunder_all |-> check_no_dunder_all(src),
                no_nested_functions |-> NestedFunctions(src) # {},
                no_general_lambda |-> check_no_general_lambda(src),
                no_default_factory |-> check_no_default_factory(src)] IN
  {name \in DOMAIN found : found[name]}

-----------------------------------------------------------------------------
(* How a file is built. *)

(* Decorated or not. *)
TopFunctions(src) == {f \in src.functions : f.at = "module"}

check_no_methods_in_classes(src) == \E c \in src.classes : c.methods # {}

check_no_callable_protocol(src) ==
  \E c \in src.classes : "Protocol" \in c.bases /\ \E m \in c.methods : m.name = "__call__"

AllowedDecorators == {"property", "cached_property", "staticmethod", "classmethod", "validator",
                      "field_validator", "model_validator", "computed_field", "root_validator"}

AllowedMethods == {"model_validate", "model_json_schema", "model_copy", "model_post_init", "model_rebuild"}

check_god_classes(src) ==
  \E c \in src.classes :
    /\ c.kind \notin {"Test", "Error"}
    /\ \E m \in c.methods : /\ ~m.hidden /\ m.name \notin AllowedMethods
                            /\ m.decorators \cap AllowedDecorators = {}

check_no_reexport_shims(src) ==
  \/ /\ \E i \in src.imports : ~i.deferred
     /\ check_no_dunder_all(src)
     /\ src.classes = {} /\ TopFunctions(src) = {}
     /\ \A a \in AtTop(src) : a.left.text = "__all__"
     /\ "attribute assignment" \notin src.marks
  \/ "compatibility docstring" \in src.marks

Literals == {"dictionary", "list"}

CollectionCalls == {"frozenset()", "set()", "dict()", "list()", "tuple()"}

Values == {"string", "integer", "float", "true", "false", "none", "concatenated_string"}

check_hardcoded_config(path, src) ==
  /\ classify_file_v2(path).level \notin {3, 6}
  /\ \E a \in AtTop(src) :
       /\ a.left.begins # "__x__"
       /\ \/ a.right \in Literals \cup CollectionCalls
          \/ a.capitals /\ a.left.size > 1 /\ a.right \in Values

(* is_module_level_constant *)
Collections(src) ==
  {a \in AtTop(src) : a.right \in {"dictionary", "set", "list", "tuple", "set_comprehension",
                                   "list_comprehension", "dictionary_comprehension", "frozenset()"}}

check_structures_no_functions(src) == TopFunctions(src) # {}

check_classes_outside_structure(src) == src.classes # {}

check_max_functions_outside_zones(src, config) ==
  Cardinality({f \in TopFunctions(src) : f.name.begins = ""}) > config.max_functions_outside_zones

(* A decorated function is a node of another kind and passes. *)
check_v2_structure_no_logic(path, src) ==
  /\ classify_file_v2(path).zone \in StructureZones
  /\ \/ \E f \in TopFunctions(src) : f.decorators = {}
     \/ Collections(src) # {}

ModelBases == {"BaseModel", "RootModel", "Enum", "IntEnum", "StrEnum", "Flag", "IntFlag"}

ExceptionBases == {"Exception", "ValueError", "TypeError", "RuntimeError", "IOError", "OSError", "KeyError",
                   "AttributeError", "NotImplementedError", "PermissionError", "FileNotFoundError"}

check_v2_structure_bases(path, src) ==
  /\ classify_file_v2(path).zone \in StructureZones
  /\ \E c \in src.classes :
       /\ c.bases \cap ModelBases = {}
       /\ ~Below("structure", "exception", Initial(path)) \/ c.bases \cap ExceptionBases = {}

(* Imports, docstrings, type aliases and typed tables may stand in a dispatch
   file; a statement of any other kind, an "if" say, is not looked at. *)
check_v2_dispatch_only_tables(path, src) ==
  /\ classify_file_v2(path).level \in {3, 6}
  /\ \/ TopFunctions(src) # {} \/ \E c \in src.classes : c.at = "module"
     \/ \E a \in AtTop(src) : ~({"dict", "Callable"} \subseteq a.annotation /\ a.right # "")
     \/ src.marks \cap {"expression", "attribute assignment"} # {}

check_v2_logic_no_constants(path, src) ==
  LET class == classify_file_v2(path) IN
  /\ class.zone \notin StructureZones
  /\ class.level \notin {0, 3, 6, Outside}
  /\ Collections(src) # {}

check_unknown_file_in_zone(path) ==
  LET class == classify_file_v2(path) IN
  /\ class.level = Outside
  /\ class.zone \notin StructureZones
  /\ Final(path) # "__init__"

(* A table of two entries or more, all bare names, inside a function. *)
check_no_inline_dispatch(src) ==
  \E f \in src.functions : \E d \in f.tables : d.pairs >= 2 /\ d.bare

ArchitectureFindings(path, src, config) ==
  LET found == [no_methods_in_classes |-> check_no_methods_in_classes(src),
                no_callable_protocol |-> check_no_callable_protocol(src),
                pydantic_only |-> check_pydantic_only(src),
                god_classes |-> check_god_classes(src),
                no_reexport_shims |-> check_no_reexport_shims(src),
                hardcoded_config |-> check_hardcoded_config(path, src),
                structures_no_functions |-> check_structures_no_functions(src),
                classes_only_in_structures |-> check_classes_outside_structure(src),
                v2_classes_only_in_structure |-> check_classes_outside_structure(src),
                max_functions_outside_zones |-> check_max_functions_outside_zones(src, config),
                v2_structure_no_logic |-> check_v2_structure_no_logic(path, src),
                v2_structure_bases |-> check_v2_structure_bases(path, src),
                v2_dispatch_only_tables |-> check_v2_dispatch_only_tables(path, src),
                v2_logic_no_constants |-> check_v2_logic_no_constants(path, src),
                unknown_file_in_zone |-> check_unknown_file_in_zone(path),
                no_inline_dispatch |-> check_no_inline_dispatch(src)] IN
  {name \in DOMAIN found : found[name]}

-----------------------------------------------------------------------------
(* Style. *)

(* Neither a test nor, for some checks, a name with two underscores. *)
Judged(src) == {f \in src.functions : f.name.begins \notin {"test_", "__", "__x__"}}

NotTests(src) == {f \in src.functions : f.name.begins # "test_"}

(* Code lines after the first and the docstring, blank ones and comments left out. *)
check_function_length(src, config) == \E f \in Judged(src) : f.code > config.max_function_lines

check_param_count(src, config) ==
  \E f \in Judged(src) : Cardinality(f.params) > config.max_function_params

NestingKinds == {"if", "for", "for else", "while", "while else", "with", "try", "except"}

Depth(node) ==
  Cardinality({k \in DOMAIN node.above : node.above[k] \in NestingKinds})
    + (IF node.kind \in NestingKinds THEN 1 ELSE 0)

check_nesting_depth(src, config) ==
  \E f \in NotTests(src) : \E k \in DOMAIN f.nodes : Depth(f.nodes[k]) > config.max_nesting_depth

ReservedName(name) == name.begins \in {"_", "__"} /\ name.text # "_"

check_no_underscore_prefix(src) ==
  \/ \E f \in src.functions : ReservedName(f.name)
  \/ \E c \in src.classes : ReservedName(c.name)
  \/ \E a \in src.assigns : ReservedName(a.left)

check_no_none_returns(src) == \E f \in Judged(src) : f.returns = "None"

check_no_throwaway_assignment(src) == \E a \in src.assigns : a.left.text = "_"

IsLetter(name) == name.size = 1 /\ name.text \notin {"i", "j", "k", "_"}

check_no_single_letter_names(src) ==
  \E f \in NotTests(src) : \E name \in f.params \cup f.locals : IsLetter(name)

check_no_numbered_suffixes(src) ==
  \E f \in src.functions : \E name \in f.params \cup f.locals : name.numbered

ShortLocals == {"db", "ok", "io", "fn", "fp", "fh", "ip", "tx", "rx", "ui", "pk", "op"}

ShortParams == ShortLocals \cup {"self", "cls", "id", "os"}

TooShort(name, known, config) ==
  name.begins \in {"", "test_"} /\ name.size < config.min_param_length /\ name.text \notin known

check_short_param_names(src, config) ==
  \E f \in src.functions : \E name \in f.params : TooShort(name, ShortParams, config)

check_short_local_names(src, config) ==
  \E f \in src.functions : \E name \in f.locals :
    name.size > 1 /\ TooShort(name, ShortLocals, config)

(* One more than the decisions outside functions nested in this one; a loop
   with an else counts twice. *)
Decisions == {"if", "elif", "ternary", "for", "for else", "while", "while else", "except", "try else",
              "and", "or", "comprehension for", "comprehension if", "case", "assert"}

cyclomatic_complexity(f) ==
  LET own == {k \in DOMAIN f.nodes : "function" \notin Elements(f.nodes[k].above)} IN
  1 + Cardinality({k \in own : f.nodes[k].kind \in Decisions})
    + Cardinality({k \in own : f.nodes[k].kind \in {"for else", "while else"}})

(* Gravity and ceiling; a level without bounds has none. *)
check_v2_cc_level(src, config) ==
  \E f \in src.functions :
    \/ cyclomatic_complexity(f) < config.min_cc
    \/ cyclomatic_complexity(f) > config.max_cc

StyleFindings(src, config) ==
  LET found == [function_length |-> check_function_length(src, config),
                param_count |-> check_param_count(src, config),
                nesting_depth |-> check_nesting_depth(src, config),
                no_underscore_prefix |-> check_no_underscore_prefix(src),
                no_none_returns |-> check_no_none_returns(src),
                no_throwaway_assignment |-> check_no_throwaway_assignment(src),
                no_single_letter_names |-> check_no_single_letter_names(src),
                no_numbered_suffixes |-> check_no_numbered_suffixes(src),
                short_param_names |-> check_short_param_names(src, config),
                short_local_names |-> check_short_local_names(src, config),
                v2_cc_level |-> check_v2_cc_level(src, config)] IN
  {name \in DOMAIN found : found[name]}

-----------------------------------------------------------------------------
(* The numbers a place calls for (gleipnir_statistics.toml). *)

NoCeiling == 9999

BaseNumbers == [max_function_lines |-> 50, max_function_params |-> 5, max_nesting_depth |-> 4,
             min_param_length |-> 4, max_simple_union_members |-> 4, max_named_union_members |-> 8,
             max_functions_outside_zones |-> 3, max_function_imports |-> 3, max_other_imports |-> 3,
             min_cc |-> 0, max_cc |-> NoCeiling]

for_kind(kind) ==
  IF kind \in {"pure_function", "impure_function", "unsafe_pure", "unsafe_impure"}
  THEN [BaseNumbers EXCEPT !.max_function_lines = 25] ELSE BaseNumbers

Bounded(low, high, lines, depth, params, outside) ==
  [BaseNumbers EXCEPT !.min_cc = low, !.max_cc = high, !.max_function_lines = lines,
                   !.max_nesting_depth = depth, !.max_function_params = params,
                   !.max_functions_outside_zones = outside]

(* The tighter numbers written for transform files are looked up under a
   compound key that the nested tables do not have: they never apply. *)
for_v2(level) ==
  CASE level = 0 -> BaseNumbers
    [] level = 1 -> Bounded(1, 1, 10, 2, 3, 3)
    [] level = 2 -> Bounded(1, 3, 20, 3, 4, 3)
    [] level = 3 -> Bounded(1, 2, 20, 1, 3, 0)
    [] level = 4 -> Bounded(4, 8, 30, 4, 5, 3)
    [] level = 5 -> Bounded(1, 2, 30, 2, 5, 3)
    [] level = 6 -> Bounded(1, 2, 20, 1, 3, 0)
    [] level = 7 -> Bounded(1, 5, 30, 2, 5, 3)
    [] level \in {8, Outside} -> Bounded(1, 2, 30, 4, 5, 1)

-----------------------------------------------------------------------------
(* The matrix: the checks each place calls for (gleipnir_matrix.toml). *)

Everywhere ==
  {"no_bare_collections", "no_bare_except", "no_broad_exceptions", "no_deferred_imports",
   "no_future_annotations", "no_general_lambda", "no_json_value", "no_nested_functions", "no_object",
   "no_partial", "no_re_sub", "no_recursion", "no_suppression_comments", "no_sys_path_mutation",
   "no_type_checking_imports"}

(* All but the test row of the first architecture. *)
ButTests ==
  Everywhere \cup
  {"god_classes", "hardcoded_config", "init_files_empty", "function_length", "nesting_depth",
   "no_any_type_aliases", "no_any_types", "no_callable_params", "no_callable_protocol",
   "no_callable_type_aliases", "no_cast", "no_disallowed_stdlib", "no_dunder_all",
   "no_implicit_type_aliases", "no_inline_dispatch", "no_model_dump", "no_numbered_suffixes",
   "no_overload", "no_print", "no_single_letter_names", "no_string_annotations",
   "no_throwaway_assignment", "no_underscore_prefix", "pydantic_only", "short_local_names",
   "short_param_names", "union_member_count"}

Common == ButTests \cup {"no_before_validators", "unknown_file_in_zone", "v2_cc_level", "v2_import_boundaries"}

checks_for_v2(class) ==
  LET dispatch == class.level \in {3, 6} IN
  IF class.level = 8
  THEN Common \cup {"no_default_factory", "no_reexport_shims", "v2_classes_only_in_structure",
                    "v2_logic_no_constants"}
  ELSE IF class.zone \in StructureZones
  THEN Common \cup {"no_methods_in_classes", "no_none_returns", "param_count", "v2_structure_bases",
                    "v2_structure_import_boundary", "v2_structure_no_logic"}
              \cup (IF class.zone = "StructureGen" THEN {} ELSE {"no_default_factory"})
  ELSE Common \cup {"no_default_factory", "no_none_returns", "no_reexport_shims", "param_count",
                    "v2_classes_only_in_structure", "v2_logic_no_constants"}
              \cup (IF class.zone \in {"Pure", "Transform"} THEN {"impure_module_quarantine"} ELSE {})
              \cup (IF dispatch THEN {"v2_dispatch_only_tables"} ELSE {})

checks_for_kind(kind) ==
  LET common == Everywhere \cup {"no_default_factory"}
      most == common \cup ButTests \cup {"no_parent_imports"}
      functions == {"classes_only_in_structures", "no_reexport_shims"}
      typed == {"no_any_type_aliases", "no_any_types", "no_callable_params", "no_callable_type_aliases",
                "no_cast", "no_model_dump", "no_string_annotations"} IN
  CASE kind = "test" -> common \cup {"no_any_types"}
    [] kind = "script" ->
         (most \ {"hardcoded_config", "no_disallowed_stdlib"})
           \cup {"no_methods_in_classes", "no_none_returns", "no_relative_imports", "no_unsafe_imports", "param_count"}
    [] kind = "data_structure" ->
         common \cup typed \cup
           {"hardcoded_config", "init_files_empty", "no_disallowed_stdlib", "no_dunder_all",
            "no_implicit_type_aliases", "no_methods_in_classes", "no_overload", "no_parent_imports", "no_print",
            "no_unsafe_imports", "pydantic_only", "structures_import_boundary", "structures_no_functions",
            "union_member_count"}
    [] kind \in {"impure_function", "pure_function"} ->
         most \cup functions \cup {"import_count", "no_none_returns", "no_unsafe_imports", "param_count"}
              \cup (IF kind = "pure_function" THEN {"impure_module_quarantine"} ELSE {})
    [] kind \in {"unsafe_impure", "unsafe_pure"} ->
         ((most \cup functions) \ typed) \cup {"no_none_returns", "no_string_annotations", "param_count"}
           \cup (IF kind = "unsafe_pure" THEN {"impure_module_quarantine"} ELSE {})
    [] kind = "outside" ->
         most \cup functions \cup {"max_functions_outside_zones", "no_unsafe_imports"}

classify_file(path, src) ==
  LET dirs == Initial(path) IN
  IF src.script THEN "script"
  ELSE IF Final(path) \in TestStems THEN "test"
  ELSE IF "structures" \in Elements(dirs) THEN "data_structure"
  ELSE IF Below("unsafe", "impure", dirs) THEN "unsafe_impure"
  ELSE IF Below("unsafe", "pure", dirs) THEN "unsafe_pure"
  ELSE IF Below("functions", "impure", dirs) THEN "impure_function"
  ELSE IF Below("functions", "pure", dirs) THEN "pure_function"
  ELSE "outside"

-----------------------------------------------------------------------------
(* A check of one file: the names of the checks that find something. *)
Findings(path, src, config) ==
  ImportFindings(path, src, config) \cup TypeFindings(src, config) \cup ProhibitedFindings(path, src)
    \cup ArchitectureFindings(path, src, config) \cup StyleFindings(src, config)

(* A violation that names its check keeps that name. *)
Stamped(found, src) ==
  IF "no_nested_functions" \in found
  THEN (found \ {"no_nested_functions"}) \cup NestedFunctions(src) ELSE found

run_checks(path, src) ==
  LET kind == classify_file(path, src) IN
  Stamped(checks_for_kind(kind) \cap Findings(path, src, for_kind(kind)), src)

(* Scripts and tests are left to the rules of the first architecture. *)
UnderOldRules(path, src) == src.script \/ Final(path) \in TestStems

run_checks_v2(path, src) ==
  LET class == classify_file_v2(path) IN
  IF UnderOldRules(path, src) THEN run_checks(path, src)
  ELSE Stamped(checks_for_v2(class) \cap Findings(path, src, for_v2(class.level)), src)

-----------------------------------------------------------------------------
(* The project. *)

CONSTANT MaxFiles    \* bound: the files it has at once

VARIABLES tree, findings

guardVars == <<tree, findings>>

GuardInit ==
  /\ tree = [p \in FilePaths |-> NoSource]
  /\ findings = [p \in FilePaths |-> Unchecked]

PythonFiles == {p \in FilePaths : tree[p] # NoSource}

(* A file is written or rewritten by whoever works on the project. *)
WriteSource(p) ==
  /\ Cardinality(PythonFiles \cup {p}) <= MaxFiles
  /\ \E s \in PythonSources \ {tree[p]} : tree' = [tree EXCEPT ![p] = s]
  /\ findings' = [findings EXCEPT ![p] = Unchecked]

RemoveSource(p) ==
  /\ tree[p] # NoSource
  /\ tree' = [tree EXCEPT ![p] = NoSource]
  /\ findings' = [findings EXCEPT ![p] = Unchecked]

(* run_gleipnir on a project that is not on the list of old ones. *)
CheckSource(p) ==
  /\ tree[p] # NoSource /\ findings[p] = Unchecked
  /\ findings' = [findings EXCEPT ![p] = run_checks_v2(p, tree[p])]
  /\ UNCHANGED tree

GuardNext ==
  \/ \E p \in FilePaths : WriteSource(p)
  \/ \E p \in FilePaths : RemoveSource(p)
  \/ \E p \in FilePaths : CheckSource(p)

GuardSpec == GuardInit /\ [][GuardNext]_guardVars

-----------------------------------------------------------------------------
(* The files an import may name, by Python's rules: the module, and for a
   from-import a module of that package. *)
NamedFiles(path, i) ==
  LET base == IF i.level > 0 THEN SubSeq(path, 1, Len(path) - i.level) \o i.module ELSE i.module IN
  IF i.form # "from" THEN {i.module}
  ELSE IF i.level >= Len(path) THEN {}
  ELSE {base} \cup {Append(base, name) : name \in i.names \cup i.renamed}

(* A logic file with a level of its own. *)
Placed(path) == classify_file_v2(path).level \in 1 .. 7

(* No directory on its way has a name the checks read something into. *)
PlainlyNamed(path) ==
  Elements(Initial(path)) \cap
    ({"ffi", "primitive", "simple", "dispatch", "composed", "assembled", "structure",
      "pydantic_validators"} \cup AllowedTops) = {}

PassedChecks(p) == findings[p] = {}

(* What a zone may reach, itself included. *)
InReach == [Pure |-> {"Pure"}, Impure |-> {"Impure", "Pure"}, Transform |-> {"Transform"},
            Orchestrate |-> LogicZones]

(* A logic file above another one, in a zone that reaches it. *)
StandsAbove(p, q) ==
  LET upper == classify_file_v2(p)
      lower == classify_file_v2(q) IN
  upper.level > lower.level /\ upper.zone \in LogicZones /\ lower.zone \in InReach[upper.zone]

(* Although each file is checked alone, and an import is judged by its path
   only, clean files are layered by where the files really stand: whatever was
   edited in between, a plain import of a clean file that names a logic file
   goes to a lower level of a zone in reach.  So no cycle of imports runs
   through clean files, and nothing pure or structural reaches the impure. *)
CleanIsLayered ==
  \A p \in FilePaths :
    ( /\ PassedChecks(p) /\ ~UnderOldRules(p, tree[p])
      /\ classify_file_v2(p).level # Outside ) =>
    \A i \in PlainImports(tree[p]), q \in {r \in FilePaths : Placed(r) /\ PlainlyNamed(r)} :
      q \in NamedFiles(p, i) => StandsAbove(p, q)

=============================================================================
