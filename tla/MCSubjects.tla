----------------------------- MODULE MCSubjects -----------------------------
(* The tools that share no state, with the small values of their constants. *)
EXTENDS Gates, ToolHooks, Launcher, Deps, Guardrails,
        Announce, Batches, Exchanges

-----------------------------------------------------------------------------
(* Gates *)

\* Two places, a root and a group below it.
MCPreorder == <<"root", "group">>
MCAbove(p) == {"root", p}

MCRawSchema == [
    required |-> [p \in {"root", "group"} |-> IF p = "root" THEN {"format"} ELSE {}],
    default |-> [p \in {"root", "group"} |-> [f \in {"format", "frequency", "batch"} |->
                    CASE f = "format" -> "jsonl" [] f = "frequency" -> "record"
                      [] f = "batch" -> "twenty"]],
    allOf |-> [p \in {"root", "group"} |-> IF p = "group" THEN <<>> ELSE <<
        [if |-> <<[at |-> "root", needs |-> [f \in {"format"} |-> {"jsonl"}]]>>,
         then |-> [q \in {"group"} |-> {"frequency"}],
         else |-> [q \in {"group"} |-> {"frequency"}]],
        [if |-> <<[at |-> "group", needs |-> [f \in {"frequency"} |-> {"batched"}]]>>,
         then |-> [q \in {"group"} |-> {"batch"}],
         else |-> [q \in {"group"} |-> {"batch"}]]>>]]

Leaf == [path |-> TRUE, properties |-> <<>>, combinators |-> {}, conditionals |-> {},
         items |-> {}]
Node(properties, combinators, conditionals, items) ==
    [path |-> FALSE, properties |-> properties, combinators |-> combinators,
     conditionals |-> conditionals, items |-> items]
Empty == [k \in {} |-> k]

\* An object whose key `prompt` is a path under a condition, and whose `tools` are an
\* array of objects each with a path, in one of the branches.
MCSchemaTree(name) ==
    Node([k \in {"tools"} |->
            Node(Empty, {}, {}, {Node(Empty, {Node([j \in {"path"} |-> Leaf], {}, {}, {})},
                                      {}, {})})],
         {}, {Node([k \in {"prompt"} |-> Leaf], {}, {}, {})}, {})

Text(s) == [string |-> s]
Object(f) == [object |-> f]
Tool(p) == Object([k \in {"path"} |-> Text(p)])

Bodies == {
    [names |-> {"p1"},
     body |-> Object([k \in {"name", "prompt"} |->
                        Text(IF k = "prompt" THEN "p1" ELSE "p2")])],
    [names |-> {"p1", "p2"},
     body |-> Object([k \in {"tools"} |-> [array |-> <<Tool("p1"), Tool("p2")>>]])]}

MCStageSchemas == {s.reader.schema : s \in Stages} \ {"RAW_DEFINITION"}

MCDefinitions ==
    {[schema |-> s, names |-> b.names, body |-> b.body, writable |-> w, raw |-> Empty] :
        s \in MCStageSchemas, b \in Bodies, w \in {TRUE}}
    \cup {[schema |-> s, names |-> {}, body |-> Object(Empty), writable |-> FALSE,
           raw |-> Empty] : s \in MCStageSchemas}
    \cup {[schema |-> "RAW_DEFINITION", names |-> {}, body |-> Object(Empty),
           writable |-> TRUE, raw |-> r] : r \in {
        [p \in {"root", "group"} |-> Empty],
        [p \in {"root"} |-> [f \in {"format"} |-> "jsonl"]],
        [p \in {"root", "group"} |-> IF p = "root" THEN [f \in {"format"} |-> "text"]
                                     ELSE [f \in {"frequency"} |-> "record"]],
        [p \in {"root", "group"} |-> IF p = "root" THEN [f \in {"format"} |-> "jsonl"]
                                     ELSE [f \in {"frequency", "batch"} |->
                                              IF f = "batch" THEN "fifty" ELSE "batched"]]}}

MCLenient == {"INCLUDE_EXAMPLE_ENTRIES"}

-----------------------------------------------------------------------------
(* Tool hooks *)

R(matches, pattern, severity) == [matches |-> matches, pattern |-> pattern, severity |-> severity]
MCRules(category) ==
    CASE category = "destruction" -> <<R({"reset"}, "reset", Unset), R({"reset", "clean"}, "clean", "block")>>
      [] category = "workflow" -> <<R({"reset", "push"}, "push", "ask")>>
      [] category = "evasion" -> <<R({"long"}, "long", Unset)>>
      [] category = "floor" -> <<R({"keys"}, "keys", Unset)>>
      [] category = "probing" -> <<R({"settings", "keys"}, "settings", Unset)>>
      [] category = "gaming" -> <<R({"settings", "tests"}, "tests", "warn")>>
      [] OTHER -> <<>>
Command(id, first, writer, form) ==
    [id |-> id, blank |-> FALSE, first |-> first, writer |-> writer, form |-> form,
     plainName |-> TRUE, chained |-> FALSE, paths |-> {}, cutsCharacter |-> FALSE]
Bash(command) == [tool |-> "Bash", target |-> Unset, command |-> command]
OnFile(tool, file) == [tool |-> tool, target |-> file, command |-> Unset]
MCCalls == {Bash([Command("none", "", "", "") EXCEPT !.blank = TRUE])} \cup {Bash(c) : c \in {
    Command("reset", "git", "", "plain"), Command("clean", "git", "", "plain"),
    Command("push", "git", "", "plain"), Command("status", "git", "", "plain"),
    [Command("long", "python", "", "plain") EXCEPT !.cutsCharacter = TRUE],
    Command("record", "cat", "w1", "heredoc"), Command("record", "cat", "w1", "broken"),
    [Command("record", "echo", "w1", "echo") EXCEPT !.plainName = FALSE],
    [Command("record", "echo", "w1", "echo") EXCEPT !.chained = TRUE],
    [Command("list", "ls", "", "plain") EXCEPT !.paths = {"schemas"}],
    [Command("list", "ls", "", "plain") EXCEPT !.paths = {"schemas", "home"}],
    [Command("list", "ls", "", "plain") EXCEPT !.paths = {"dotdot"}],
    [Command("list", "ls", "", "plain") EXCEPT !.chained = TRUE]}}
    \cup {OnFile(t, p) : t \in {"Read", "Write"}, p \in {"keys", "settings", "tests", "schemas", Unset}}
Sev(f, w, p) == [c \in {"destruction", "chaining", "subversion", "truncation", "evasion", "revert",
    "workflow", "probing", "gaming"} |-> CASE c = "destruction" -> f [] c = "workflow" -> w
       [] c = "probing" -> p [] c = "evasion" -> "warn" [] c = "gaming" -> "warn" [] OTHER -> "off"]
MCConfigs == {[severity |-> Sev(f, w, p), allowPatterns |-> a, allowPaths |-> b,
     writers |-> {"w1"}, inspect |-> [x \in {"ls"} |-> {"schemas"}], grants |-> g] :
   f \in {"block", "warn"}, w \in {"ask", "off"}, p \in {"block", "off"},
   a \in {{}, {"reset"}}, b \in {{}, {"keys", "settings"}},
   g \in {[t \in {"Read"} |-> {"schemas"}], [t \in {} |-> {}]}}

-----------------------------------------------------------------------------
(* The launcher *)

Fragment(name, id, languages, parent, domain, size) ==
    [name |-> name, title |-> name, id |-> id, stem |-> id, load |-> NoValue, domain |-> domain,
     parent |-> parent, languages |-> languages, size |-> size, template |-> FALSE]
Plain(name, id, size) == Fragment(name, id, <<>>, NoValue, "", size)
MCDisk == [d \in Directories |->
    CASE d = "foundation" -> {Plain(1, "collab", 1)}
      [] d = "personas" -> {Plain(2, "vidar", 2), Plain(3, "tyr", 4)}
      [] d = "safety" -> {Plain(4, "care", 8), [Plain(5, "rare", 16) EXCEPT !.load = "manual"]}
      [] d = "behavior" -> {Plain(6, "calm", 32)}
      [] d = "coding" -> {Plain(7, "tests", 64)}
      [] d = "expertise" -> {Fragment(8, "rust-idiom", <<>>, NoValue, "coding", 128),
                             Plain(9, "prose", 256)}
      [] d = "systems" -> {Fragment(10, "bifrost", <<"rust">>, "nornir", "", 512),
                           Fragment(11, "nornir", <<>>, NoValue, "", 1024)}
      [] d = "spaces" -> {Fragment(12, "tyr", <<"toml">>, NoValue, "", 2048)}
      [] OTHER -> {}]
MCBroken == [MCDisk EXCEPT !["expertise"] = {}, !["personas"] = {},
    !["systems"] = {[Plain(10, "bifrost", 512) EXCEPT !.template = TRUE]}]
Profile(path, persona, coding, expertise, primary, descriptors) ==
    [table |-> TRUE, path |-> path, spaces |-> {}, exists |-> TRUE, persona |-> persona,
     coding |-> coding, expertise |-> expertise, primary |-> primary, descriptors |-> descriptors]
MCProfiles == {
  <<Profile("work", "vidar", NoValue, NoValue, "bifrost", NoValue),
    [Profile("space", "tyr", FALSE, {"prose"}, NoValue, {"nornir"}) EXCEPT !.spaces = {"tyr"}]>>,
  <<[Profile("other", "nobody", TRUE, {"rust-idiom"}, "nornir", {"bifrost"}) EXCEPT !.exists = FALSE],
    [Profile("odd", NoValue, NoValue, NoValue, NoValue, NoValue) EXCEPT !.table = FALSE]>>}
MCDisks == {MCDisk, MCBroken}

-----------------------------------------------------------------------------
(* Dependency resolution *)

Py(parts) == Append(parts, ".py")
Import(module, level, names) == [module |-> module, level |-> level, names |-> names]
Def(name, kind) == [name |-> name, kind |-> kind, private |-> name = "_h"]
File(imports, definitions) == [imports |-> imports, definitions |-> definitions, readable |-> TRUE]
A == Py(<<"app">>)
B == Py(<<"src", "pkg", "b">>)
C == Py(<<"src", "pkg", "c">>)
P == Py(<<"src", "pkg", "__init__">>)
ImportsOfA == {<<>>, <<Import(<<"pkg", "b">>, 0, {"fb"})>>,
    <<Import(<<"pkg", "b">>, 0, {"fb"}), Import(<<"pkg", "c">>, 0, {"*"})>>,
    <<Import(<<"pkg", "c">>, 0, {"_h", "fc"}), Import(<<"pkg", "b">>, 0, {"*"})>>,
    <<Import(<<"pkg", "missing">>, 0, {"fp"}), Import(<<"os">>, 0, {"path"})>>}
ImportsOfB == {<<>>, <<Import(<<"c">>, 1, {"fc", "Tc"})>>, <<Import(<<"pkg", "c">>, 0, {"kc"}), Import(<<>>, 1, {"fp"})>>,
    <<Import(<<"app">>, 0, {"fa"})>>}
ImportsOfC == {<<>>, <<Import(<<"b">>, 1, {"fb"})>>, <<Import(<<"pkg">>, 0, {"*"})>>}
ImportsOfP == {<<>>, <<Import(<<"c">>, 1, {"fc"})>>}
MCDepsProjects == {
  [f \in {A, B, C, P} |->
     CASE f = A -> File(a, <<Def("fa", "function")>>)
       [] f = B -> File(b, <<Def("fb", "function"), Def("Cb", "class"), Def("fb", "function")>>)
       [] f = C -> [File(c, <<Def("kc", "constant"), Def("fc", "function"), Def("Tc", "type_alias"), Def("_h", "function"), Def("main", "other")>>) EXCEPT !.readable = r]
       [] f = P -> File(p, <<Def("fp", "function")>>)] :
   a \in ImportsOfA, b \in ImportsOfB, c \in ImportsOfC, p \in ImportsOfP, r \in BOOLEAN}
MCReadConfigs == {[mode |-> m, max_depth |-> d] : m \in {"signatures", "hybrid", "full"}, d \in {0, 1, 10}}
MCTargets(p) == {A, C}

-----------------------------------------------------------------------------
(* Guardrails *)

PureAt(name) == <<"pkg", "logic", "pure", "names", name>>

ImpureAt(name) == <<"pkg", "logic", "impure", "store", name>>

MCFilePaths ==
  {PureAt("simple"), PureAt("dispatch"), PureAt("composed"),
   ImpureAt("assembled"),
   <<"pkg", "logic", "transform", "shape", "composed">>,
   <<"pkg", "logic", "orchestrate", "run", "dispatch">>,
   <<"pkg", "logic", "orchestrate", "run", "orchestrate">>,
   <<"pkg", "cli">>, <<"pkg", "structure", "model", "names">>, <<"pkg", "structure", "gen", "names">>}

MCName(text, size) == [text |-> text, size |-> size, begins |-> "", numbered |-> FALSE]

BlankSource ==
  [script |-> FALSE, imports |-> {}, lines |-> {}, functions |-> {}, classes |-> {}, assigns |-> {},
   types |-> {}, calls |-> {}, lambdas |-> {}, excepts |-> {}, marks |-> {}]

(* A function of so many decisions. *)
FunctionOf(decisions) ==
  [name |-> MCName("render", 6), at |-> "module", decorators |-> {}, params |-> {MCName("item", 4)},
   locals |-> {}, returns |-> "str", code |-> 2 * decisions + 1, free |-> {}, around |-> {}, tables |-> {},
   nodes |-> [k \in 1 .. decisions |-> [kind |-> "if", above |-> <<>>]]]

WithFunction(decisions, imports) ==
  [BlankSource EXCEPT !.functions = {FunctionOf(decisions)}, !.imports = imports]

WithModel(imports) ==
  [BlankSource EXCEPT !.imports = imports,
     !.classes = {[name |-> MCName("Label", 5), kind |-> "", at |-> "module", bases |-> {"BaseModel"}, methods |-> {}]}]

WithTable(imports) ==
  [BlankSource EXCEPT !.imports = imports,
     !.assigns = {[left |-> MCName("HANDLERS", 8), at |-> "module", right |-> "dictionary", capitals |-> TRUE,
                   annotation |-> {"dict", "Callable"}]}]

FromModule(level, module, names) ==
  [form |-> "from", module |-> module, level |-> level, names |-> names, renamed |-> {}, deferred |-> FALSE]

ImportModule(form, module) ==
  [form |-> form, module |-> module, level |-> 0, names |-> {}, renamed |-> {}, deferred |-> FALSE]

MCSources ==
  {WithFunction(0, {}), WithFunction(3, {FromModule(0, <<"pkg", "structure", "model", "names">>, {"Label"})}),
   WithModel({}), WithTable({FromModule(1, <<"simple">>, {"render"})}), WithTable({}),
   WithFunction(0, {FromModule(1, <<"simple">>, {"render"})}),
   WithFunction(3, {FromModule(0, PureAt("simple"), {"render"})}),
   WithFunction(0, {FromModule(1, <<>>, {"composed", "dispatch"})}),
   WithFunction(3, {FromModule(3, <<"impure", "store", "assembled">>, {"render"})}),
   WithFunction(0, {FromModule(3, <<"transform", "shape", "composed">>, {"render"})}),
   WithFunction(0, {ImportModule("import", ImpureAt("assembled"))}),
   WithFunction(0, {ImportModule("import as", ImpureAt("assembled"))}),
   WithFunction(0, {FromModule(0, <<"pkg", "logic", "orchestrate", "run">>, {"dispatch"})}),
   WithModel({FromModule(0, PureAt("simple"), {"render"})}),
   WithModel({FromModule(2, <<"model", "names">>, {"Label"})}),
   [WithFunction(3, {ImportModule("import", PureAt("composed"))}) EXCEPT !.script = TRUE]}

-----------------------------------------------------------------------------
(* announce: calls that ask for one speech in different ways, or for two that differ in
   one argument; calls the queue forgets something of, and one whose text cannot be cut;
   a configuration with the paid backend, and one that cannot be read, whose backend is
   the local one. *)

Hello == [text |-> "hello", profile |-> NoArg, voice |-> NoArg, speed |-> NoArg, language |-> NoArg,
          lookup |-> NoArg, translate |-> NoArg, source |-> NoArg, critical |-> FALSE,
          no_cache |-> FALSE, quiet |-> FALSE]

Slow == [Hello EXCEPT !.speed = 30, !.source = "w1"]
LookedUp == [Hello EXCEPT !.lookup = "de", !.profile = "alert"]
Translated == [Hello EXCEPT !.text = "hallo", !.language = "de", !.profile = "alert"]

MCAnnouncements ==
  {Hello, Slow, LookedUp, Translated,
   [Hello EXCEPT !.critical = TRUE, !.no_cache = TRUE],
   [Hello EXCEPT !.translate = "fr", !.quiet = TRUE, !.text = "long"]}

MCConfig(b) ==
  [backend |-> b, voices |-> [anna |-> [id |-> "v1", speed |-> 110]],
   default |-> [NoSettings EXCEPT !.model = "turbo", !.speed = 90],
   profile |-> [alert |-> [NoSettings EXCEPT !.voice = "anna"]]]

MCConfigFiles == {MCConfig("elevenlabs"), BadToml}

MCLocks == [w1 |-> [NoSettings EXCEPT !.voice = "alloy", !.language_code = "en"]]
MCLookups == [de |-> [hello |-> "hallo"]]
MCSanitize(t) == t
MCHashShort(h) == h
MCSliceable(t) == t # "long"

-----------------------------------------------------------------------------
(* The batch dispatcher: inputs that are divided evenly, exactly and with a small tail,
   two of them into one directory; one batch; and what is refused. *)

MCJob(n, low, high, dir) ==
  [input |-> [i \in 1..n |-> "record"], directory |-> dir, min_batch |-> low, max_batch |-> high]

MCJobs ==
  {MCJob(7, 2, 3, "a"), MCJob(5, 3, 4, "a"), MCJob(6, 1, 3, "b"), MCJob(1, 2, 3, "a"),
   MCJob(1, 3, 2, "a"), MCJob(1, 1, 1, ".."),
   [MCJob(3, 1, 1, "b") EXCEPT !.input[2] = "blank"],
   [MCJob(2, 1, 1, "b") EXCEPT !.input[2] = "malformed"]}

-----------------------------------------------------------------------------
(* The diff of exchanges: what is said, thought and done; reminders of a hook and of the
   platform, apart and together; results of tools; and a text as a plain string. *)

Blank == [type |-> "text", text |-> <<>>, name |-> NoName, input |-> "", results |-> <<>>,
          transient |-> FALSE]
Says(t) == [Blank EXCEPT !.text = t]
Thinks(t) == [Blank EXCEPT !.type = "thinking", !.text = t]
Uses(n, i) == [Blank EXCEPT !.type = "tool_use", !.name = n, !.input = i]
Returns(r) == [Blank EXCEPT !.type = "tool_result", !.results = r]
Message(role, blocks) ==
  [role |-> role, plain |-> FALSE, text |-> <<>>, blocks |-> blocks, transient |-> FALSE]

MCTurns ==
  {<<>>,
   <<[Message("user", <<>>) EXCEPT !.plain = TRUE, !.text = <<"words">>]>>,
   <<Message("user", <<Says(<<"words">>), Says(<<"tag", "hook", "words">>)>>)>>,
   <<Message("user", <<Says(<<"tag", "blank", "words">>), Says(<<"tag", "words", "hook">>)>>)>>,
   <<Message("user", <<Says(<<"words", "tag", "words">>)>>)>>,
   <<Message("assistant", <<Thinks(<<"words">>), Uses("Task", "i1"), Uses("Bash", "i2")>>),
     Message("user", <<Returns(<<<<"words">>, <<"words", "tag">>>>), Returns(<<>>)>>)>>,
   <<Message("assistant", <<Says(<<"words">>), Uses("Bash", "i1"), Uses("EnterPlanMode", "i3")>>)>>}

MCHeaders ==
  {[system |-> [form |-> "blocks", texts |-> <<<<"words">>, <<"words", "hook">>>>],
    tools |-> <<"Bash">>],
   [system |-> [form |-> "string", texts |-> <<<<"words">>>>], tools |-> <<"Bash", "Task">>]}

=============================================================================
