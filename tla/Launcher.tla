------------------------------ MODULE Launcher ------------------------------
(***************************************************************************)
(* cc_launch: the library of prompt fragments it scans, the selection the  *)
(* user makes of them key by key, what the screen says of the selection,   *)
(* and what Enter makes of it: a prompt, a working directory and the paths *)
(* the hooks of the session exempt.  What becomes of the files it leaves   *)
(* is in PromptHandoff.                                                    *)
(*                                                                         *)
(* Positions count from 1, and 0 is no position.  A fragment is a file of  *)
(* the library, with the attributes of its first line and the rank its     *)
(* name and its title have; colours, borders and widths are left out.      *)
(***************************************************************************)
EXTENDS Positions

CONSTANTS
    Disks,           \* the libraries: directory -> its fragments
    ProfileFiles,    \* the profiles files: sequences of profiles, by name
    NoValue,         \* an attribute that is not there
    Environments,    \* the exempt paths the launcher itself was started with
    Removable,       \* fragments that may go between the scan and the launch
    Sessions         \* the sessions --update may find

VARIABLES
    inherited,           \* the exempt paths in the launcher's environment
    app,                 \* AppState, with the library and the profiles it was made with
    touched,             \* what was changed by hand since a workspace was chosen, the
                         \* persona and the languages since they were last derived
    gone,                \* fragments removed since the scan
    outcome              \* NoValue, or what Enter came to

launchVars == <<inherited, app, touched, gone, outcome>>

Directories == {"foundation", "personas", "cognitive-mode", "behavior", "communication", "safety",
                "anthropic", "coding", "expertise", "systems", "spaces"}

DisksAssumption ==
    \A disk \in Disks : \A directory \in Directories :
        /\ IsFiniteSet(disk[directory])
        /\ \A file \in disk[directory] :
              file.size \in Nat /\ file.languages \in Seq(Range(file.languages))

ProfilesAssumption ==
    \A file \in ProfileFiles :
        /\ file \in Seq(Range(file))
        /\ \A i \in DOMAIN file : file[i].table => file[i].coding \in BOOLEAN \cup {NoValue}

ASSUME LauncherAssumption == DisksAssumption /\ ProfilesAssumption

-----------------------------------------------------------------------------
(* The library.                                                            *)

parse_xml_root_attrs(file, category) ==
    [id |-> IF file.id = NoValue THEN "unknown" ELSE file.id,
     load |-> IF file.load # NoValue THEN file.load
              ELSE CASE category = "personas" -> "manual" [] category = "coding" -> "implement"
                     [] category \notin {"personas", "coding"} -> "always"]

scan_xml_dir(disk, category) ==
    {[id |-> parse_xml_root_attrs(file, category).id, category |-> category,
      load |-> parse_xml_root_attrs(file, category).load, name |-> file.name, title |-> file.title,
      domain |-> file.domain, size |-> file.size, template |-> file.template] : file \in disk[category]}

\* A system or a space without an id takes the stem of its file name.
scan_descriptor_dir(disk, kind) ==
    {[id |-> IF file.id = NoValue THEN file.stem ELSE file.id, kind |-> kind, name |-> file.name,
      title |-> file.title, parent |-> file.parent, languages |-> file.languages,
      size |-> file.size, template |-> file.template] : file \in disk[kind]}

scan_expertise_xml(disk) ==
    {[file EXCEPT !.load = "manual"] : file \in scan_xml_dir(disk, "expertise")}

coding_related(file) == file.domain = "coding"

CategoryOrder == <<"cognitive-mode", "behavior", "communication", "safety", "anthropic">>

category_order(category) == CHOOSE i \in DOMAIN CategoryOrder : CategoryOrder[i] = category

\* Files that come neither before nor after each other stay as the directory lists
\* them, in any order.
Sorted(files, Before(_, _)) ==
    {s \in SetToSeqs(files) : \A i, j \in DOMAIN s : i < j => ~ Before(s[j], s[i])}

ByName(files) == Sorted(files, LAMBDA a, b : a.name < b.name)
ByTitle(files) == Sorted(files, LAMBDA a, b : a.title < b.title)
ByTitleAndKind(files) == \* the systems are read before the spaces
    Sorted(files, LAMBDA a, b : \/ a.title < b.title
                                \/ a.title = b.title /\ a.kind = "systems" /\ b.kind = "spaces")
ByCategory(files) ==
    Sorted(files, LAMBDA a, b : LET m == category_order(a.category)
                                    n == category_order(b.category)
                                IN  m < n \/ (m = n /\ a.name < b.name))

\* python first, then every language a descriptor names, in their order.
Languages(descriptors) ==
    LET named == <<"python">> \o FlattenSeq([i \in DOMAIN descriptors |-> descriptors[i].languages])
    IN  ElementsAt(named, {i \in DOMAIN named : \A j \in 1 .. i - 1 : named[j] # named[i]})

\* Of the foundation directory whichever file is listed first is taken.
scan_library(disk) ==
    LET foundations == scan_xml_dir(disk, "foundation")
        always == {f \in UNION {scan_xml_dir(disk, category) : category \in Range(CategoryOrder)} :
                       f.load = "always"}
        descriptors == scan_descriptor_dir(disk, "systems") \cup scan_descriptor_dir(disk, "spaces")
    IN  {[foundation |-> l.foundation, personas |-> l.personas, always |-> l.always,
          coding |-> l.coding, expertise |-> l.expertise, descriptors |-> l.descriptors,
          languages |-> Languages(l.descriptors)] :
             l \in [foundation : IF foundations = {} THEN {<<>>} ELSE {<<f>> : f \in foundations},
                    personas : ByName(scan_xml_dir(disk, "personas")),
                    always : ByCategory(always),
                    coding : ByName(scan_xml_dir(disk, "coding")),
                    expertise : ByTitle(scan_expertise_xml(disk)),
                    descriptors : ByTitleAndKind(descriptors)]}

\* Sections of the file that are not tables are dropped; a profile without an
\* entry has no path, no persona and no descriptors, and codes.
load_profiles(file) ==
    LET kept == ElementsAt(file, {i \in DOMAIN file : file[i].table})
        or(value, default) == IF value = NoValue THEN default ELSE value
    IN  [i \in DOMAIN kept |->
            [path |-> kept[i].path, spaces |-> kept[i].spaces, exists |-> kept[i].exists,
             persona |-> or(kept[i].persona, "none"), coding |-> or(kept[i].coding, TRUE),
             expertise |-> or(kept[i].expertise, {}), primary |-> kept[i].primary,
             descriptors |-> or(kept[i].descriptors, {})]]

-----------------------------------------------------------------------------
(* The selection.                                                          *)

Systems(library) == {i \in DOMAIN library.descriptors : library.descriptors[i].kind = "systems"}
Ascending(library, indices) == ElementsAt([i \in DOMAIN library.descriptors |-> i], indices)
system_indices(library) == Ascending(library, Systems(library))

AppState_new(library, profiles) ==
    [library |-> library, profiles |-> profiles, workspace |-> 0,
     persona |-> IF library.personas = <<>> THEN 0 ELSE 1, coding |-> TRUE,
     languages |-> {1}, expertise |-> {}, descriptors |-> {},
     section |-> "Workspace", cursor |-> 1]

\* A path matches a space when "/spaces/<id>" is part of it.
matching_space_index(library, id, profile) ==
    IF id \in profile.spaces
    THEN Position(library.descriptors, LAMBDA d : d.kind = "spaces" /\ d.id = id)
    ELSE 0

\* Of the persona selected now, not of the one the profile names.
auto_space_index(a) ==
    IF a.persona = 0 \/ a.workspace = 0 THEN 0
    ELSE matching_space_index(a.library, a.library.personas[a.persona].id,
                              a.profiles[a.workspace])

\* The languages are those of the selected descriptors and of the space, and
\* python while coding: what was chosen by hand is lost.
sync_languages_from_descriptors(a) ==
    LET from == a.descriptors \cup ({auto_space_index(a)} \ {0})
        named == UNION {Range(a.library.descriptors[i].languages) : i \in from}
    IN  [a EXCEPT !.languages = {l \in DOMAIN a.library.languages : a.library.languages[l] \in named}
                                \cup (IF a.coding THEN {1} ELSE {})]

is_overview_descriptor(a, i) ==
    \E d \in Range(a.library.descriptors) : d.parent = a.library.descriptors[i].id

\* The primary descriptor first, overviews last; spaces are not among them.
ordered_descriptor_indices(a) ==
    LET chosen == Systems(a.library) \cap a.descriptors
        primary == {i \in chosen : /\ a.workspace # 0 /\ a.profiles[a.workspace].primary # NoValue
                                   /\ a.profiles[a.workspace].primary = a.library.descriptors[i].id}
        overviews == {i \in chosen \ primary : is_overview_descriptor(a, i)}
    IN  Ascending(a.library, primary)
        \o Ascending(a.library, chosen \ (primary \cup overviews)) \o Ascending(a.library, overviews)

\* Those the profile lists, its primary one, and the family of a primary that is
\* a child: its siblings and their parent.
DescriptorDefaults(library, profile) ==
    LET d == library.descriptors
        listed == {i \in DOMAIN d : d[i].id \in profile.descriptors}
        primary == IF profile.primary = NoValue THEN 0
                   ELSE Position(d, LAMBDA e : e.id = profile.primary /\ e.kind = "systems")
        family == IF primary = 0 \/ d[primary].parent = NoValue THEN {}
                  ELSE {i \in Systems(library) : d[primary].parent \in {d[i].parent, d[i].id}}
    IN  listed \cup ({primary} \ {0}) \cup family

\* Mutant: the descriptors chosen before stay chosen.
DefaultsAdded(a, profile) == [a EXCEPT !.descriptors = @ \cup DescriptorDefaults(a.library, profile)]

apply_descriptor_defaults(a, profile) ==
    [a EXCEPT !.descriptors = DescriptorDefaults(a.library, profile)]

\* A persona that is not in the library selects none.
apply_workspace_profile(a, w) ==
    LET profile == a.profiles[w]
        chosen == [a EXCEPT !.workspace = w, !.coding = profile.coding,
            !.persona = Position(a.library.personas, LAMBDA p : p.id = profile.persona),
            !.expertise = {i \in DOMAIN a.library.expertise :
                               a.library.expertise[i].id \in profile.expertise}]
    IN  sync_languages_from_descriptors(apply_descriptor_defaults(chosen, profile))

clear_workspace_profile(a) ==
    [AppState_new(a.library, a.profiles) EXCEPT !.section = a.section, !.cursor = a.cursor]

\* Expertise of the coding domain comes and goes with coding.
toggle_coding(a) ==
    LET related == {i \in DOMAIN a.library.expertise : coding_related(a.library.expertise[i])}
    IN  IF a.coding
        THEN [a EXCEPT !.coding = FALSE, !.expertise = @ \ related]
        ELSE [sync_languages_from_descriptors([a EXCEPT !.coding = TRUE])
              EXCEPT !.expertise = @ \cup related]

-----------------------------------------------------------------------------
(* The keys.                                                               *)

SectionOrder == <<"Workspace", "Persona", "Expertise", "Descriptors", "Coding">>

section_next(section, by) == \* by 1 or 4 places, around the end
    LET i == CHOOSE j \in DOMAIN SectionOrder : SectionOrder[j] = section
    IN  SectionOrder[1 + ((i - 1 + by) % Len(SectionOrder))]

section_len(a, section) ==
    CASE section = "Workspace" -> Len(a.profiles) + 1
      [] section = "Persona" -> Len(a.library.personas)
      [] section = "Descriptors" -> Len(system_indices(a.library))
      [] section = "Coding" -> 1 + Len(a.library.languages)
      [] section = "Expertise" -> Len(a.library.expertise)

Toggle(set, i) == IF i \in set THEN set \ {i} ELSE set \cup {i}

\* python is always on, and languages are locked while coding is off.
handle_coding_space(a) ==
    IF a.cursor = 1 THEN toggle_coding(a)
    ELSE IF ~ a.coding \/ a.cursor = 2 THEN a
    ELSE [a EXCEPT !.languages = Toggle(@, a.cursor - 1)]

handle_space(a) ==
    CASE a.section = "Workspace" /\ a.cursor = 1 -> clear_workspace_profile(a)
      [] a.section = "Workspace" /\ a.cursor > 1 -> apply_workspace_profile(a, a.cursor - 1)
      [] a.section = "Persona" ->
            IF a.library.personas = <<>> THEN a ELSE [a EXCEPT !.persona = a.cursor]
      [] a.section = "Descriptors" ->
            IF system_indices(a.library) = <<>> THEN a
            ELSE sync_languages_from_descriptors(
                    [a EXCEPT !.descriptors = Toggle(@, system_indices(a.library)[a.cursor])])
      [] a.section = "Coding" -> handle_coding_space(a)
      [] a.section = "Expertise" ->
            IF a.library.expertise = <<>> THEN a ELSE [a EXCEPT !.expertise = Toggle(@, a.cursor)]

handle_key(a, key) ==
    CASE key = "tab" -> [a EXCEPT !.section = section_next(@, 1), !.cursor = 1]
      [] key = "backtab" -> [a EXCEPT !.section = section_next(@, 4), !.cursor = 1]
      [] key = "up" -> [a EXCEPT !.cursor = IF @ > 1 THEN @ - 1 ELSE @]
      [] key = "down" -> [a EXCEPT !.cursor = IF @ < section_len(a, a.section) THEN @ + 1 ELSE @]
      [] key = "space" -> handle_space(a)

-----------------------------------------------------------------------------
(* The screen.                                                             *)

SelectedPersona(a) == IF a.persona = 0 THEN "none" ELSE a.library.personas[a.persona].id

\* Only tyr carries a permission; the paths are compiled in.
permission_for_persona(id) == IF id = "tyr" THEN "Security Infrastructure" ELSE NoValue
allow_paths_for_persona(id) == permission_for_persona(id)

SizeOf(files) ==
    LET total[n \in 0 .. Len(files)] == IF n = 0 THEN 0 ELSE total[n - 1] + files[n].size
    IN  total[Len(files)]

SelectedExpertise(a) == ElementsAt(a.library.expertise, a.expertise)

\* The space, if there is one, before the systems.
Context(a) ==
    LET space == auto_space_index(a)
        systems == ordered_descriptor_indices(a)
    IN  (IF space = 0 THEN <<>> ELSE <<a.library.descriptors[space]>>)
        \o [i \in DOMAIN systems |-> a.library.descriptors[systems[i]]]

selected_language_names(a) == ElementsAt(a.library.languages, a.languages)

\* Bytes, where the screen shows a quarter of them.
estimate_tokens(a) ==
    SizeOf(a.library.foundation)
    + SizeOf(a.library.always)
    + (IF a.persona = 0 THEN 0 ELSE a.library.personas[a.persona].size)
    + SizeOf(Context(a))
    + (IF a.coding THEN SizeOf(a.library.coding) ELSE 0)
    + SizeOf(SelectedExpertise(a))

summary_context(a) == Context(a)
summary_coding(a) == IF a.coding THEN selected_language_names(a) ELSE NoValue
summary_expertise(a) == SelectedExpertise(a)
summary_permissions(a) == permission_for_persona(SelectedPersona(a))

\* The rows that carry a mark; a row under the cursor is one of the section.
draw_descriptor_section(a) == Systems(a.library) \cap a.descriptors
draw_coding_section(a) == (IF a.coding THEN {} ELSE {"disable"}) \cup a.languages
draw_expertise_section(a) == a.expertise

-----------------------------------------------------------------------------
(* The launch.                                                             *)

\* The fragments of the prompt in order.  The language context, which is no
\* fragment, comes between the coding fragments and the expertise.
assemble_prompt(a) ==
    LET space == auto_space_index(a)
    IN  [parts |-> a.library.foundation
                \o (IF a.persona = 0 THEN <<>> ELSE <<a.library.personas[a.persona]>>)
                \o a.library.always
                \o (IF space = 0 THEN <<>> ELSE <<a.library.descriptors[space]>>)
                \o [i \in DOMAIN ordered_descriptor_indices(a) |->
                        a.library.descriptors[ordered_descriptor_indices(a)[i]]]
                \o (IF a.coding THEN a.library.coding ELSE <<>>)
                \o SelectedExpertise(a),
         languages |-> IF a.coding THEN selected_language_names(a) ELSE <<>>,
         persona |-> SelectedPersona(a)]

\* A prompt is refused without a persona, when a fragment is gone, and when a
\* template variable was left in one.
Assembles(a) ==
    /\ a.persona # 0
    /\ \A part \in Range(assemble_prompt(a).parts) : part.name \notin gone /\ ~ part.template

\* The directory claude is started in: the workspace's, if it is there.
StartDir(a) ==
    IF a.workspace # 0 /\ a.profiles[a.workspace].exists THEN a.profiles[a.workspace].path ELSE "current"

\* The environment of claude: what the launcher has, unless the persona sets it.
Granted(persona) ==
    IF allow_paths_for_persona(persona) = NoValue THEN inherited
    ELSE allow_paths_for_persona(persona)

LauncherInit ==
    /\ \E disk \in Disks, file \in ProfileFiles : \E library \in scan_library(disk) :
          app = AppState_new(library, load_profiles(file))
    /\ inherited \in Environments
    /\ touched = {} /\ gone = {} /\ outcome = NoValue

\* The keys after which the languages are derived again.
Derives(a) ==
    \/ a.section = "Descriptors" /\ system_indices(a.library) # <<>>
    \/ a.section = "Coding" /\ a.cursor = 1 /\ ~ a.coding

\* What the key leaves changed by hand, for the properties.
Touches(a, key) ==
    IF key # "space" THEN touched
    ELSE IF a.section = "Workspace" THEN {}
    ELSE (IF Derives(a) THEN {} ELSE touched)
         \cup {IF a.section = "Coding" /\ a.cursor > 1 THEN "language"
               ELSE IF a.section = "Persona" THEN "persona" ELSE "other"}

Press(key) ==
    /\ outcome = NoValue
    /\ app' = handle_key(app, key)
    /\ touched' = Touches(app, key)
    /\ UNCHANGED <<inherited, gone, outcome>>

Quit ==
    /\ outcome = NoValue
    /\ outcome' = [kind |-> "quit"]
    /\ UNCHANGED <<inherited, app, touched, gone>>

\* Enter: exec_claude, or --pick and then --go, which knows only the spec.
LaunchSession ==
    /\ outcome = NoValue
    /\ outcome' = IF Assembles(app)
                  THEN [kind |-> "launched", prompt |-> assemble_prompt(app),
                        cwd |-> StartDir(app), grant |-> Granted(SelectedPersona(app))]
                  ELSE [kind |-> "refused"]
    /\ UNCHANGED <<inherited, app, touched, gone>>

\* --update: the prompt goes to a session that has a directory.
UpdateSession(session) ==
    /\ outcome = NoValue
    /\ outcome' = IF session # NoValue /\ Assembles(app)
                  THEN [kind |-> "updated", prompt |-> assemble_prompt(app), session |-> session]
                  ELSE [kind |-> "refused"]
    /\ UNCHANGED <<inherited, app, touched, gone>>

\* A fragment is removed while the launcher is open.
RemoveFragment(name) ==
    /\ outcome = NoValue /\ name \notin gone
    /\ gone' = gone \cup {name}
    /\ UNCHANGED <<inherited, app, touched, outcome>>

LauncherNext ==
    \/ \E key \in {"tab", "backtab", "up", "down", "space"} : Press(key)
    \/ Quit \/ LaunchSession
    \/ \E session \in Sessions \cup {NoValue} : UpdateSession(session)
    \/ \E name \in Removable : RemoveFragment(name)

LauncherSpec == LauncherInit /\ [][LauncherNext]_launchVars

-----------------------------------------------------------------------------
Among(parts, files) == ElementsAt(parts, {i \in DOMAIN parts : parts[i] \in Range(files)})

Selection(a) == [f \in DOMAIN a \ {"section", "cursor"} |-> a[f]]

\* After any keys the session that starts is the one on the screen: the persona, the
\* context in its order, the languages and the expertise of the summary are those of
\* the prompt, and the size it states is the size of what was assembled.  It exempts
\* what the summary lists; when that lists nothing, it exempts what the launcher was
\* itself started with, which no screen shows.  The summary agrees with the marked
\* rows and the cursor is on a row; choosing a workspace leaves nothing of what was
\* chosen before.  While a session codes, python is in its prompt, and so are the
\* languages of every system, unless one was taken out by hand since they were last
\* derived; those of the space are there unless the persona was changed by hand since
\* then, because a persona brings its space without its languages.
LaunchedAsShown ==
    LET row == draw_descriptor_section(app)
        fresh == IF app.workspace = 0 THEN AppState_new(app.library, app.profiles)
                 ELSE apply_workspace_profile(AppState_new(app.library, app.profiles),
                                              app.workspace)
    IN  /\ app.cursor \in 1 .. Max({1, section_len(app, app.section)})
        /\ touched = {} => Selection(app) = Selection(fresh)
        /\ {app.library.descriptors[i] : i \in row} \subseteq Range(summary_context(app))
        /\ app.coding => 1 \in draw_coding_section(app)
        /\ (app.coding /\ "language" \notin touched) =>
              \A d \in Range(summary_context(app)) :
                  \/ d.kind = "spaces" /\ "persona" \in touched
                  \/ Range(d.languages) \subseteq Range(summary_coding(app))
        /\ (outcome # NoValue /\ outcome.kind \in {"launched", "updated"}) =>
              LET p == outcome.prompt
                  shown == summary_context(app)
              IN  /\ p.persona = app.library.personas[app.persona].id
                  /\ Among(p.parts, app.library.descriptors) = shown
                  /\ p.languages = (IF app.coding THEN summary_coding(app) ELSE <<>>)
                  /\ Among(p.parts, app.library.expertise) = summary_expertise(app)
                  /\ SizeOf(p.parts) = estimate_tokens(app)
                  /\ outcome.kind = "launched" =>
                        outcome.grant = (IF summary_permissions(app) = NoValue THEN inherited
                                         ELSE summary_permissions(app))
=============================================================================
