------------------------------ MODULE Defaults ------------------------------
(***************************************************************************)
(* default_apply_core: the defaults and the forbidden fields of a raw      *)
(* definition, as its schema states them with `required`, `default` and    *)
(* the if/then/else entries of `allOf`.                                    *)
(*                                                                         *)
(* The objects of a definition are PLACES (the root and the sections and   *)
(* groups below it), and a definition gives each place it has the fields   *)
(* present there.  A schema is a record: the fields each place requires    *)
(* (or NoList, when it has no such list), the default each field has, and  *)
(* the conditional entries of each place.  The two forms of a clause, flat *)
(* (about the place of the entry) and nested (about places named from the  *)
(* root), differ only in how they name a place, so a clause here names the *)
(* place.  Defaults that are themselves objects, an `else` that mixes both *)
(* forms, and the report that is only shown are left out.                  *)
(***************************************************************************)
EXTENDS SequencesExt, Naturals

CONSTANTS
    Preorder,        \* the places, each before those below it, the root first
    Above(_),        \* a place, and the places it lies in
    Absent,          \* no default
    NoList           \* a place whose schema has no `required`

\* The value a field takes when it is missing, Absent if it has none.
resolve_default(schema, place, field) == schema.default[place][field]

\* An object with the defaults of the missing fields among `required`.
inject_required_defaults(schema, place, required, object) ==
    LET missing == {f \in required \ DOMAIN object :
                        resolve_default(schema, place, f) # Absent}
    IN  [f \in DOMAIN object \cup missing |->
            IF f \in missing THEN resolve_default(schema, place, f) ELSE object[f]]

\* A place without a `required` list ends the walk: nothing below it is given
\* its unconditional defaults.
apply_unconditional_defaults(schema, data) ==
    [p \in DOMAIN data |->
        IF \A q \in Above(p) : schema.required[q] # NoList
        THEN inject_required_defaults(schema, p, schema.required[p], data[p])
        ELSE data[p]]

matches_flat_condition(needs, object) ==
    \A f \in DOMAIN needs : f \in DOMAIN object /\ object[f] \in needs[f]

\* Of a clause that names several places only the first is looked at.
matches_if_clause(clause, data) ==
    LET first == Head(clause)
    IN  first.at \in DOMAIN data /\ matches_flat_condition(first.needs, data[first.at])

\* The fields a `then` requires are filled in, at each place that is there.
apply_then(schema, clause, data) ==
    [p \in DOMAIN data |->
        IF p \in DOMAIN clause
        THEN inject_required_defaults(schema, p, clause[p], data[p])
        ELSE data[p]]

\* The fields an `else` forbids are taken out.
apply_else_strip(clause, data) ==
    [p \in DOMAIN data |->
        IF p \in DOMAIN clause
        THEN [f \in DOMAIN data[p] \ clause[p] |-> data[p][f]]
        ELSE data[p]]

process_all_of(schema, data, entry) ==
    IF matches_if_clause(entry.if, data)
    THEN apply_then(schema, entry.then, data)
    ELSE apply_else_strip(entry.else, data)

\* The entries in the order they are met: those of a place before those of the
\* places below it.
walk_properties_for_all_of(schema) ==
    FlattenSeq([i \in DOMAIN Preorder |-> schema.allOf[Preorder[i]]])

\* Mutant: the entries are met before the defaults they may depend on.
DefaultsLast(schema, data) ==
    LET entries == walk_properties_for_all_of(schema)
        after[n \in 0 .. Len(entries)] ==
            IF n = 0 THEN data ELSE process_all_of(schema, after[n - 1], entries[n])
    IN  apply_unconditional_defaults(schema, after[Len(entries)])

\* One pass: the unconditional defaults, then every entry once, in order.
apply_conditional_defaults(schema, data) ==
    LET entries == walk_properties_for_all_of(schema)
        after[n \in 0 .. Len(entries)] ==
            IF n = 0 THEN apply_unconditional_defaults(schema, data)
            ELSE process_all_of(schema, after[n - 1], entries[n])
    IN  after[Len(entries)]

-----------------------------------------------------------------------------
(* What the defaults are to achieve, stated without an order.              *)

Reads(entry) == {<<Head(entry.if).at, f>> : f \in DOMAIN Head(entry.if).needs}

Writes(entry) ==
    (UNION {{<<p, f>> : f \in entry.then[p]} : p \in DOMAIN entry.then})
    \cup (UNION {{<<p, f>> : f \in entry.else[p]} : p \in DOMAIN entry.else})

Required(schema) ==
    UNION {{<<p, f>> : f \in schema.required[p]} :
                p \in {q \in DOMAIN schema.required : schema.required[q] # NoList}}

\* A schema whose entries can be met in one pass: no entry depends on what a
\* later one fills in or takes out, and no two entries, nor an entry and the
\* unconditional list, decide over the same field.
OnePass(schema) ==
    LET entries == walk_properties_for_all_of(schema)
    IN  \A i, j \in DOMAIN entries :
            /\ i < j => Reads(entries[i]) \cap Writes(entries[j]) = {}
            /\ i # j => Writes(entries[i]) \cap Writes(entries[j]) = {}
            /\ Writes(entries[i]) \cap Required(schema) = {}

\* Every entry is satisfied: what its `then` requires is there, as far as it has
\* a default, and what its `else` forbids is not.
Settled(schema, data) ==
    \A entry \in Range(walk_properties_for_all_of(schema)) :
        IF matches_if_clause(entry.if, data)
        THEN \A p \in DOMAIN entry.then \cap DOMAIN data : \A f \in entry.then[p] :
                 resolve_default(schema, p, f) # Absent => f \in DOMAIN data[p]
        ELSE \A p \in DOMAIN entry.else \cap DOMAIN data :
                 entry.else[p] \cap DOMAIN data[p] = {}

\* Nothing the author wrote is changed, and nothing is lost but by an entry that
\* forbids it.
Keeps(schema, data, result) ==
    /\ DOMAIN result = DOMAIN data
    /\ \A p \in DOMAIN data : \A f \in DOMAIN data[p] :
          \/ f \in DOMAIN result[p] /\ result[p][f] = data[p][f]
          \/ /\ f \notin DOMAIN result[p]
             /\ \E entry \in Range(walk_properties_for_all_of(schema)) :
                   /\ p \in DOMAIN entry.else /\ f \in entry.else[p]
                   /\ ~ matches_if_clause(entry.if, result)
=============================================================================
