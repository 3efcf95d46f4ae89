-------------------------------- MODULE Deps --------------------------------
(***************************************************************************)
(* dep_resolve_core, and hook_post_llm_read and dep_resolve in which it    *)
(* runs: what a session is told of the project's own modules before it     *)
(* reads a Python file.                                                    *)
(*                                                                         *)
(* A file is a sequence of directories, its stem and ".py".  A project      *)
(* maps its files to their content: the `from ... import` statements in    *)
(* order, each with the module it names (parts, and dots before them) and  *)
(* the names it imports, and the top-level definitions in order.  Parsing  *)
(* and the text of a definition are abstract: a definition is shown as its *)
(* signature, its body or, for a constant or an alias, its text.           *)
(***************************************************************************)
EXTENDS Positions, Integers

CONSTANTS
    Projects,        \* the projects: file -> [imports, definitions, readable]
    ReadConfigs,     \* [mode, max_depth] of a hook or a run of dep_resolve
    FilesRead(_),    \* the files of a project that are read
    NotFound,        \* no file
    Nothing          \* no context

SymbolKinds == {"function", "class", "constant", "type_alias", "other"}

ASSUME ProjectsAssumption ==
    /\ \A p \in Projects : \A f \in DOMAIN p :
          /\ p[f].imports \in Seq(Range(p[f].imports))
          /\ p[f].definitions \in Seq(Range(p[f].definitions))
          /\ \A d \in Range(p[f].definitions) : d.kind \in SymbolKinds
    /\ \A p \in Projects : IsFiniteSet(DOMAIN p)
    /\ \A c \in ReadConfigs : c.max_depth \in Nat

VARIABLES project, readConfig, target, injected

depsVars == <<project, readConfig, target, injected>>

IsFile(p, f) == f \in DOMAIN p
Readable(p, f) == IsFile(p, f) /\ p[f].readable

-----------------------------------------------------------------------------
(* Modules to files.                                                       *)

\* A module and, behind it, its parents, each as a file and as a package.
Candidates(base, parts) ==
    FlattenSeq([i \in 1 .. Len(parts) |->
        LET path == base \o SubSeq(parts, 1, Len(parts) + 1 - i)
        IN  <<Append(path, ".py"), path \o <<"__init__", ".py">> >>])

resolve_module_to_file(p, parts, relative) ==
    LET all == Candidates(<<>>, parts)
                      \o (IF relative THEN <<>> ELSE Candidates(<<"src">>, parts))
        first == Position(all, LAMBDA f : IsFile(p, f))
    IN  IF first = 0 THEN NotFound ELSE all[first]

\* One dot is the directory of the file, every other one goes up by one.
resolve_relative_module(file, parts, level) ==
    SubSeq(file, 1, Len(file) - 1 - level) \o parts

collect_local_imports(p, file) ==
    LET imports == p[file].imports
    IN  [i \in DOMAIN imports |->
            [names |-> imports[i].names,
             file |-> IF imports[i].level > 0
                      THEN resolve_module_to_file(p,
                              resolve_relative_module(file, imports[i].module, imports[i].level),
                              TRUE)
                      ELSE resolve_module_to_file(p, imports[i].module, FALSE)]]

-----------------------------------------------------------------------------
(* Symbols.                                                                *)

\* What "*" imports: no private names, and no type aliases.
extract_all_top_level_names(p, file) ==
    {d.name : d \in {e \in Range(p[file].definitions) :
                        e.kind \in {"function", "class", "constant"} /\ ~ e.private}}

resolve_wildcard_names(p, names, file) ==
    IF "*" \in names THEN extract_all_top_level_names(p, file) ELSE names

\* A function or a class is shown by signature or by body.
Form(kind, mode) ==
    CASE kind \in {"constant", "type_alias"} -> "text"
      [] kind \in {"function", "class"} /\ mode = "signatures" -> "signature"
      [] kind \in {"function", "class"} /\ mode # "signatures" -> "body"

extract_symbols(p, file, names, mode) ==
    LET d == p[file].definitions
        wanted == ElementsAt(d, {i \in DOMAIN d : d[i].kind # "other" /\ d[i].name \in names})
    IN  [i \in DOMAIN wanted |-> [name |-> wanted[i].name, form |-> Form(wanted[i].kind, mode)]]

dedup_groups(symbols) ==
    ElementsAt(symbols, {i \in DOMAIN symbols : \A j \in 1 .. i - 1 : symbols[j].name # symbols[i].name})

-----------------------------------------------------------------------------
(* The walk.  Its state: the files visited, the files in the order they    *)
(* are shown, and the symbols of each.                                     *)

Symbols(p) == [name : {d.name : d \in UNION {Range(p[f].definitions) : f \in DOMAIN p}},
               form : {"text", "signature", "body"}]

ResolveState(p) == [visited : SUBSET DOMAIN p, order : Seq(DOMAIN p),
                    groups : [DOMAIN p -> Seq(Symbols(p))]]

NothingSeen(p) == [visited |-> {}, order |-> <<>>, groups |-> [f \in DOMAIN p |-> <<>>]]

\* What n imports make of a state in their order: "one[i]" is what the i-th does.
InTurn(n, one, state) ==
    LET after[i \in 0 .. n] == IF i = 0 THEN state ELSE one[i][after[i - 1]]
    IN  after[n]

\* Whether an import leads to a file of the project that can be read.
Leads(p, entry) == entry.file # NotFound /\ Readable(p, entry.file)

\* "deeper" is the walk of the next level.
recurse_into_deps(p, imports, deeper, state) ==
    InTurn(Len(imports),
           [i \in DOMAIN imports |-> [s \in ResolveState(p) |->
               IF ~ Leads(p, imports[i]) \/ imports[i].file \in s.visited THEN s
               ELSE deeper[imports[i].file][s]]],
           state)

\* In hybrid mode only the imports of the target itself are shown in full.
EffectiveMode(mode, depth) == IF mode = "hybrid" /\ depth > 0 THEN "signatures" ELSE mode

AddSymbols(state, file, symbols) ==
    [visited |-> state.visited,
     order |-> IF file \in Range(state.order) THEN state.order ELSE Append(state.order, file),
     groups |-> [state.groups EXCEPT ![file] = @ \o symbols]]

SymbolsOf(p, entry, mode) ==
    extract_symbols(p, entry.file, resolve_wildcard_names(p, entry.names, entry.file), mode)

extract_from_deps(p, imports, mode, state) ==
    InTurn(Len(imports),
           [i \in DOMAIN imports |-> [s \in ResolveState(p) |->
               IF ~ Leads(p, imports[i]) THEN s
               ELSE AddSymbols(s, imports[i].file, SymbolsOf(p, imports[i], mode))]],
           state)

\* Mutant: the dependencies are shown before those they have themselves.
ExtractFirst(p, c, file, depth, deeper, state) ==
    IF depth > c.max_depth \/ file \in state.visited THEN state
    ELSE LET imports == collect_local_imports(p, file)
             seen == [state EXCEPT !.visited = @ \cup {file}]
         IN  recurse_into_deps(p, imports, deeper,
                 extract_from_deps(p, imports, EffectiveMode(c.mode, depth), seen))

walk_file(p, c, file, depth, deeper, state) ==
    IF depth > c.max_depth \/ file \in state.visited THEN state
    ELSE LET imports == collect_local_imports(p, file)
             seen == [state EXCEPT !.visited = @ \cup {file}]
         IN  extract_from_deps(p, imports, EffectiveMode(c.mode, depth),
                 recurse_into_deps(p, imports, deeper, seen))

\* The walk from depth 0: level n is n above the depth at which nothing is walked
\* any more.
Walk(p, c) ==
    LET level[n \in 0 .. c.max_depth + 1] ==
            [file \in DOMAIN p |-> [state \in ResolveState(p) |->
                walk_file(p, c, file, c.max_depth + 1 - n,
                          IF n = 0 THEN <<>> ELSE level[n - 1], state)]]
    IN  level[c.max_depth + 1]

\* The groups to show, in order.
resolve_dependencies(p, c, file) ==
    LET walked == Walk(p, c)[file][NothingSeen(p)]
        shown == ElementsAt(walked.order,
                            {i \in DOMAIN walked.order : walked.groups[walked.order[i]] # <<>>})
    IN  [i \in DOMAIN shown |->
            [file |-> shown[i], symbols |-> dedup_groups(walked.groups[shown[i]])]]

render_injection(groups) == IF groups = <<>> THEN Nothing ELSE groups

-----------------------------------------------------------------------------
DepsInit ==
    /\ project \in Projects /\ readConfig \in ReadConfigs
    /\ target \in FilesRead(project)
    /\ injected = Nothing

\* The hook of a Read, unless it is switched off, the file is not there, is not
\* Python or lies in no project.
resolve_context ==
    /\ injected' = IF Readable(project, target)
                   THEN render_injection(resolve_dependencies(project, readConfig, target))
                   ELSE Nothing
    /\ UNCHANGED <<project, readConfig, target>>

\* The session reads another file.
AnotherFile ==
    /\ target' \in FilesRead(project) /\ injected' = Nothing
    /\ UNCHANGED <<project, readConfig>>

DepsNext == resolve_context \/ AnotherFile

DepsSpec == DepsInit /\ [][DepsNext]_depsVars

-----------------------------------------------------------------------------
\* What is shown, without a walk: the files an import leads to, from where.

Imports(p, f) == {e \in Range(collect_local_imports(p, f)) : Leads(p, e)}

Follows1(p, f) == {e.file : e \in Imports(p, f)}

\* What has with each file those it imports.
Closed(p) == {fs \in SUBSET DOMAIN p : \A f \in fs : Follows1(p, f) \subseteq fs}

Reached(p, t) == \* t and everything behind it
    {f \in DOMAIN p : \A fs \in Closed(p) : t \in fs => f \in fs}

Behind(p, f) == \* everything f depends on
    {d \in DOMAIN p : \A fs \in Closed(p) : Follows1(p, f) \subseteq fs => d \in fs}

Wanted(p, t, d) == \* the names somebody reached imports from d
    UNION {resolve_wildcard_names(p, e.names, d) :
               e \in {i \in UNION {Imports(p, f) : f \in Reached(p, t)} : i.file = d}}

Defined(p, d) == \* what can be shown of d
    {e.name : e \in {x \in Range(p[d].definitions) : x.kind # "other"}}

Shown(groups, d) == UNION {Range(g.symbols) : g \in {h \in Range(groups) : h.file = d}}

Names(symbols) == {s.name : s \in symbols}

NothingTwice(groups) ==
    /\ \A i, j \in DOMAIN groups : groups[i].file = groups[j].file => i = j
    /\ \A g \in Range(groups) :
          \A i, j \in DOMAIN g.symbols : g.symbols[i].name = g.symbols[j].name => i = j

NothingElse(p, t, groups) ==
    \A g \in Range(groups) :
        Names(Range(g.symbols)) \subseteq Defined(p, g.file) \cap Wanted(p, t, g.file)

Everything(p, t, groups) ==
    \A d \in UNION {Follows1(p, f) : f \in Reached(p, t)} :
        Names(Shown(groups, d)) = Defined(p, d) \cap Wanted(p, t, d)

BeforeUse(p, groups) ==
    \A i, j \in DOMAIN groups : groups[j].file \in Follows1(p, groups[i].file) => j < i

AsFarAs(p, t, groups) ==
    \A g \in Range(groups) : \A s \in Range(g.symbols) :
        /\ g.file \notin UNION {Follows1(p, f) : f \in Reached(p, t) \ {t}} => s.form # "signature"
        /\ g.file \notin Follows1(p, t) => s.form # "body"

\* A session is shown the interfaces a file rests on: nothing that is not defined
\* where it is said to be or that nothing imports, and nothing twice.  If the depth
\* is no limit, every definition that is imported is there, and, without a cycle,
\* every file before those that import it; in hybrid mode what only the target
\* imports is shown in full and what only others import by its signature.
DependenciesShown ==
    injected # Nothing =>
        /\ NothingTwice(injected)
        /\ NothingElse(project, target, injected)
        /\ readConfig.mode = "hybrid" => AsFarAs(project, target, injected)
        /\ readConfig.max_depth >= Cardinality(DOMAIN project) =>
              /\ Everything(project, target, injected)
              /\ (\A f \in Reached(project, target) : f \notin Behind(project, f)) =>
                    BeforeUse(project, injected)
=============================================================================
