INIT ToolsInit
NEXT ToolsNext
CONSTANTS
  Preorder <- MCPreorder
  Above <- MCAbove
  Absent = Absent
  NoList = NoList
  Definitions <- MCDefinitions
  SchemaTree <- MCSchemaTree
  SchemaDepth = 4
  RawSchema <- MCRawSchema
  Paths = {"p1", "p2"}
  Lenient <- MCLenient
  NoFile = NoFile
  Foreign = "GUARDRAILS_REDUCED"
  Torn = Torn
  NoAnswer = NoAnswer
  MaxGateFaults = 1
  MaxGateMoves = 1
  Calls <- MCCalls
  Rules <- MCRules
  Configs <- MCConfigs
  Unset = Unset
  MaxDies = 1
  Disks <- MCDisks
  ProfileFiles <- MCProfiles
  NoValue = NoValue
  Environments = {NoValue, "exempt"}
  Removable = {7}
  Sessions = {"s1"}
  Projects <- MCDepsProjects
  ReadConfigs <- MCReadConfigs
  FilesRead <- MCTargets
  NotFound = NotFound
  Nothing = Nothing
  NoClass = NoClass
  NoSource = NoSource
  Unchecked = Unchecked
  FilePaths <- MCFilePaths
  PythonSources <- MCSources
  TestStems = {"test_names"}
  MaxFiles = 2
  MaxAtOnce = 2
  MaxBegun = 3
  Announcements <- MCAnnouncements
  ConfigFiles <- MCConfigFiles
  Locks <- MCLocks
  Lookups <- MCLookups
  sanitize_filename <- MCSanitize
  hash_short <- MCHashShort
  Sliceable <- MCSliceable
  NoArg = NoArg
  BadToml = BadToml
  Silence = Silence
  MaxTroubles = 1
  d1 = d1  d2 = d2
  Dispatchers = {d1, d2}
  Jobs <- MCJobs
  Segments = {"a", "b"}
  NoJob = NoJob
  Nobody = Nobody
  MaxBroken = 1
  Turns <- MCTurns
  Headers <- MCHeaders
  NoText = NoText
  NoName = NoName
  MaxMessages = 4
INVARIANTS GatesAgree ToolRunsAsDecided LaunchedAsShown DependenciesShown CleanIsLayered HeardAsAsked CreditsSaved BatchesAsPromised ConversationTold
CHECK_DEADLOCK FALSE
