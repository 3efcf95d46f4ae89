----------------------------- MODULE PathFields -----------------------------
(***************************************************************************)
(* path_core and path_verify_io: the strings of a definition that its      *)
(* schema annotates with `format: path_exists_absolute`, and the check     *)
(* that each names something on disk.                                      *)
(*                                                                         *)
(* A value is a record with one field, by kind: [string |-> ...],          *)
(* [object |-> a function from keys] or [array |-> a sequence].  A node of *)
(* a schema says whether it is such a leaf and has the nodes of its        *)
(* properties, of the members of allOf/oneOf/anyOf, of then and else, and  *)
(* of its items (at most one).  The code follows a JSON pointer from the   *)
(* root where this walks value and schema together: the same for keys      *)
(* without "/" and "~".                                                    *)
(***************************************************************************)
EXTENDS SequencesExt, Naturals

CONSTANT SchemaDepth \* no schema is nested deeper; they are compiled in

Is(kind, value) == kind \in DOMAIN value

\* Each part of the walk says which nodes come next, and with which values.
walk_properties(schema, value) ==
    IF Is("object", value)
    THEN {<<schema.properties[k], value.object[k]>> :
              k \in DOMAIN schema.properties \cap DOMAIN value.object}
    ELSE {}

\* Every branch is walked, whichever of them the value satisfies.
walk_combinators(schema, value) == {<<branch, value>> : branch \in schema.combinators}

walk_conditionals(schema, value) == {<<branch, value>> : branch \in schema.conditionals}

\* Mutant: only the first element of an array is looked at.
FirstItem(schema, value) ==
    IF Is("array", value) /\ value.array # <<>>
    THEN {<<item, Head(value.array)>> : item \in schema.items}
    ELSE {}

walk_items(schema, value) ==
    IF Is("array", value)
    THEN {<<item, element>> : item \in schema.items, element \in Range(value.array)}
    ELSE {}

try_extract_leaf(value) == IF Is("string", value) THEN {value.string} ELSE {}

\* A node annotated as a path is a leaf: nothing below it is walked.
walk_schema(schema, value) ==
    IF schema.path THEN {}
    ELSE walk_properties(schema, value) \cup walk_combinators(schema, value)
         \cup walk_conditionals(schema, value) \cup walk_items(schema, value)

\* All the nodes, level by level, and the strings of the leaves among them.
extract_path_fields(schema, value) ==
    LET level[n \in 0 .. SchemaDepth] ==
            IF n = 0 THEN {<<schema, value>>}
            ELSE UNION {walk_schema(at[1], at[2]) : at \in level[n - 1]}
        leaves == {at \in UNION {level[n] : n \in 0 .. SchemaDepth} : at[1].path}
    IN  UNION {try_extract_leaf(at[2]) : at \in leaves}

\* world: the paths that exist.
verify_paths(schema, value, world) == extract_path_fields(schema, value) \subseteq world
=============================================================================
