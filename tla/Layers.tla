------------------------------- MODULE Layers -------------------------------
(***************************************************************************)
(* The layering of Python projects that gleipnir enforces: where a file    *)
(* stands (zone and level, from its path alone), where the target of an    *)
(* import stands (from the dotted path alone), which may import which, and *)
(* the checks that look at imports.                                        *)
(*                                                                         *)
(* A file is named by the modules on its way below src, the stem last:     *)
(* <<"pkg", "logic", "pure", "names", "simple">>; the dotted path of an    *)
(* absolute import is the same kind of sequence.  No directory above src   *)
(* is named like a zone.                                                   *)
(*                                                                         *)
(* An import is a record: form is "from", "import" or "import as"; module  *)
(* and level as extract_module_info returns them; names and renamed what a *)
(* from-import takes, without and with "as"; deferred when it stands       *)
(* inside a function.                                                      *)
(***************************************************************************)
EXTENDS Integers, Sequences, FiniteSets

CONSTANT NoClass     \* classify_import_path's None

Elements(s) == {s[k] : k \in DOMAIN s}

Initial(s) == SubSeq(s, 1, Len(s) - 1)

Final(s) == s[Len(s)]

Top(s) == IF s = <<>> THEN "" ELSE s[1]

-----------------------------------------------------------------------------
(* Levels are the ordinals of the enum; Outside has none. *)
Outside == 99

StructureZones == {"Structure", "StructureGen", "StructureModel", "StructureConfig", "StructureExample"}

LogicZones == {"Pure", "Impure", "Transform", "Orchestrate"}

ASSUME NoClassAssumption == NoClass \notin [level : Int, zone : LogicZones \cup StructureZones]

LevelCanImport(source, target) == source # Outside /\ target # Outside /\ source > target

can_reach(source, target) ==
  \/ source \in LogicZones /\ target = source
  \/ source = "Impure" /\ target = "Pure"
  \/ source = "Orchestrate" /\ target \in LogicZones

CanImport(source, target) ==
  /\ LevelCanImport(source.level, target.level)
  /\ target.zone \in StructureZones \/ can_reach(source.zone, target.zone)

(* "/parent/dir/" occurs in the path. *)
Below(parent, dir, dirs) ==
  \E k \in 1 .. Len(dirs) - 1 : dirs[k] = parent /\ dirs[k + 1] = dir

(* The first zone marker that matches. *)
ZoneOf(dirs) ==
  IF Below("logic", "pure", dirs) THEN "Pure"
  ELSE IF Below("logic", "impure", dirs) THEN "Impure"
  ELSE IF Below("logic", "transform", dirs) THEN "Transform"
  ELSE IF Below("logic", "orchestrate", dirs) THEN "Orchestrate"
  ELSE IF Below("structure", "gen", dirs) THEN "StructureGen"
  ELSE IF Below("structure", "model", dirs) THEN "StructureModel"
  ELSE IF Below("structure", "config", dirs) THEN "StructureConfig"
  ELSE IF Below("structure", "example", dirs) THEN "StructureExample"
  ELSE IF "structure" \in Elements(dirs) THEN "Structure"
  ELSE "none"

(* The level a name stands for in a zone. *)
LevelNamed(stem, zone) ==
  IF stem \in {"ffi", "primitive"} THEN 1
  ELSE IF stem = "simple" THEN 2
  ELSE IF stem = "dispatch" THEN (IF zone = "Orchestrate" THEN 6 ELSE 3)
  ELSE IF stem = "composed" THEN 4
  ELSE IF stem = "assembled" THEN 5
  ELSE IF stem = "orchestrate" THEN 7
  ELSE Outside

LevelsOf(zone) == IF zone = "Orchestrate" THEN 6 .. 7 ELSE 1 .. 5

(* Where a file stands. *)
classify_file_v2(path) ==
  LET stem == Final(path)
      zone == ZoneOf(Initial(path))
      level == LevelNamed(stem, zone) IN
  IF stem \in {"cli", "__main__"} THEN [level |-> 8, zone |-> "Orchestrate"]
  ELSE IF zone = "none" THEN [level |-> Outside, zone |-> "Structure"]
  ELSE IF zone \in StructureZones THEN [level |-> 0, zone |-> zone]
  ELSE IF stem # "__init__" /\ level \in LevelsOf(zone) THEN [level |-> level, zone |-> zone]
  ELSE [level |-> Outside, zone |-> zone]

(* The level of a directory below the zone, for paths whose last segment names
   none. *)
DirectoryLevel(dotted, zone) ==
  LET under(name) ==
        \E k \in 1 .. Len(dotted) - 2 :
          /\ dotted[k] = "logic" /\ dotted[k + 2] = name
          /\ dotted[k + 1] = (CASE zone = "Pure" -> "pure" [] zone = "Impure" -> "impure"
                                [] zone = "Transform" -> "transform" [] OTHER -> "") IN
  IF zone = "Orchestrate" THEN 7
  ELSE IF under("ffi") \/ under("primitive") THEN 1
  ELSE IF under("simple") THEN 2
  ELSE IF under("dispatch") THEN 3
  ELSE IF under("composed") THEN 4
  ELSE Outside

(* Where the target of an import stands, NoClass if its path meets no zone. *)
classify_import_path(dotted) ==
  LET zone == ZoneOf(dotted)
      named == LevelNamed(Final(dotted), zone) IN
  IF zone = "none" THEN NoClass
  ELSE IF zone \in StructureZones THEN [level |-> 0, zone |-> zone]
  ELSE IF named # Outside THEN [level |-> named, zone |-> zone]
  ELSE [level |-> DirectoryLevel(dotted, zone), zone |-> zone]

(* The dotted path of a relative import.  One that climbs above the package
   begins with directories above src. *)
resolve_relative_import(path, module, level) ==
  IF level < Len(path) THEN SubSeq(path, 1, Len(path) - level) \o module
  ELSE <<"src">> \o module

-----------------------------------------------------------------------------
(* The import checks: whether a file has a violation. *)

(* The statements whose path the checks see: "import a.b as c" is a node of
   another kind. *)
PlainImports(src) == {i \in src.imports : i.form \in {"from", "import"}}

FromImports(src) == {i \in src.imports : i.form = "from"}

\* Mutant: one directory too few.
DottedTooDeep(path, i) ==
  IF i.level > 0 THEN resolve_relative_import(path, i.module, i.level - 1) ELSE i.module

Dotted(path, i) ==
  IF i.level > 0 THEN resolve_relative_import(path, i.module, i.level) ELSE i.module

IllegalImport(source, target) == target # NoClass /\ ~CanImport(source, target)

check_v2_import_boundaries(path, src) ==
  LET class == classify_file_v2(path) IN
  /\ Final(path) # "__init__"
  /\ \/ class.level = Outside
     \/ /\ class.level # 0
        /\ \E i \in PlainImports(src) :
             IllegalImport(class, classify_import_path(Dotted(path, i)))

(* A structure file stays among structures: relative imports of a bare package
   are not looked at. *)
AllowedTops == {"pydantic", "typing", "collections", "enum", "tree_sitter",
                "typing_extensions", "annotated_types"}

LeavesData(zone, i) ==
  /\ i.module # <<>>
  /\ Top(i.module) \notin AllowedTops
  /\ zone \notin Elements(i.module)
  /\ Final(i.module) # "pydantic_validators"

check_v2_structure_import_boundary(src) == \E i \in PlainImports(src) : LeavesData("structure", i)

check_structures_import_boundary(src) == \E i \in PlainImports(src) : LeavesData("structures", i)

ImpureModules == {"io", "shutil", "os", "sys", "subprocess", "socket", "requests", "httpx", "urllib",
                  "aiohttp", "time", "datetime", "random", "importlib", "types"}

PathlibPure == {"PurePath", "PurePosixPath", "PureWindowsPath"}

(* A module named impure counts anywhere in an absolute path, but only at the
   head of a relative one; of pathlib only the pure names may be taken. *)
check_impure_module_quarantine(src) ==
  \E i \in PlainImports(src) :
    \/ i.level = 0 /\ "impure" \in Elements(i.module)
    \/ i.level > 0 /\ Top(i.module) = "impure"
    \/ Top(i.module) \in ImpureModules
    \/ Top(i.module) = "pathlib" /\ (i.form = "import" \/ ~(i.names \subseteq PathlibPure))

(* The quarantine of the first architecture.  Lines are looked at as text too,
   except comments. *)
UnsafeTexts == {"from unsafe import", "from unsafe.pure import", "from unsafe.impure import", "import unsafe"}

ParentTexts == {"from functions import", "import functions", "from unsafe import", "import unsafe"}

CodeHas(src, texts) == \E l \in src.lines : ~l.comment /\ l.has \cap texts # {}

check_no_unsafe_imports(path, src) ==
  /\ "unsafe" \notin Elements(Initial(path))
  /\ \/ CodeHas(src, UnsafeTexts)
     \/ \E i \in PlainImports(src) :
          \/ i.level > 0 /\ Top(i.module) = "unsafe"
          \/ i.level = 0 /\ \E k \in 2 .. Len(i.module) : i.module[k] = "unsafe"

check_no_parent_imports(src) == CodeHas(src, ParentTexts)

check_no_relative_imports(src) == \E i \in FromImports(src) : i.level > 0

check_no_type_checking_imports(src) == "if TYPE_CHECKING" \in src.marks

check_no_disallowed_stdlib(src) ==
  \E i \in PlainImports(src) : Top(i.module) \in {"argparse", "logging", "unittest", "configparser", "json"}

check_no_before_validators(src) == \E i \in FromImports(src) : "BeforeValidator" \in i.names

check_no_sys_path_mutation(src) ==
  \/ \E c \in src.calls : c.object = "sys.path" /\ c.name \in {"insert", "append"}
  \/ "sys.path assignment" \in src.marks

check_no_deferred_imports(src) == \E i \in src.imports : i.deferred

(* The first architecture counts the imports a module makes at its top: one
   whose path ends in functions has nothing after it to be told by. *)
check_import_count(src, config) ==
  LET top == {i \in src.imports : ~i.deferred}
      through(dir) == {i \in top : i.form # "import as" /\ dir \in Elements(Initial(i.module))} IN
  \/ Cardinality(through("functions")) > config.max_function_imports
  \/ Cardinality({i \in top : i.form # "import as"} \ (through("functions") \cup through("structures")))
       > config.max_other_imports

(* The import checks that find something. *)
ImportFindings(path, src, config) ==
  LET found == [no_unsafe_imports |-> check_no_unsafe_imports(path, src),
                no_relative_imports |-> check_no_relative_imports(src),
                impure_module_quarantine |-> check_impure_module_quarantine(src),
                no_type_checking_imports |-> check_no_type_checking_imports(src),
                no_parent_imports |-> check_no_parent_imports(src),
                no_disallowed_stdlib |-> check_no_disallowed_stdlib(src),
                no_sys_path_mutation |-> check_no_sys_path_mutation(src),
                no_deferred_imports |-> check_no_deferred_imports(src),
                v2_import_boundaries |-> check_v2_import_boundaries(path, src),
                no_before_validators |-> check_no_before_validators(src),
                structures_import_boundary |-> check_structures_import_boundary(src),
                v2_structure_import_boundary |-> check_v2_structure_import_boundary(src),
                import_count |-> check_import_count(src, config)] IN
  {name \in DOMAIN found : found[name]}

=============================================================================
