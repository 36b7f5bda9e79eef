CONSTANTS
  down = down
  unreadable = unreadable
  u1 = u1
  u2 = u2
  dd = dd
  s1 = s1
  s2 = s2
  s3 = s3
  UintRange = 256
  Names = {"a", "d", "w"}
  DefaultsOf <- MCDefaults
  ExeNames = {"d"}
  OldEntries = {"a"}
  Covers <- MCCovers
  MaxEdits = 4
  Connections = {1, 2, 3}
  ProcessOf <- MCProcessOf
  NameOf <- MCNameOf
  ApiOf <- MCApiOf
  Modules = {"Profiling", "CrashAnalysis"}
  SupportedApis <- MCSupportedApis
  Conflicts = {{"Profiling", "CrashAnalysis"}}
  Overlap = FALSE
  LateEdits = FALSE
  MatchNames <- MatchedNames
  MatchPatterns <- MatchedPatterns
  Infos <- Systems
  Overrides = {}
  Down = down
  Unreadable = unreadable
  MaxClicks = 4
  Users = {u1, u2}
  Driver = dd
  MaxCaptures = 2
  MaxRequests = 2
  IteratorsFail = FALSE
  Processes = {s1, s2, s3}
  AccountOf <- Accounts
  PanelConnections = {"graphics", "compute"}
  ModesOf <- CaptureModes
  CancelSupported = FALSE
  MaxActs = 2
  MaxQueue = 1
  SpmGpus = {0, 2, 3, 4}
  HardwareOf <- HardwareEvents
  HashOrders <- FourOrders
  RdfTraces <- RdfFiles
  LegacyTraces <- LegacyFiles
  MaxTraces = 2
  ModuleOrder <- MCModules
  SystemModules = {"DeviceClocks"}
  FeatureModules = {"Raytracing", "CrashAnalysis"}
  Alone = {"CrashAnalysis"}
  DefaultPresets <- BuiltInPresets
  TypedNames = {"mine"}
  Trimmed <- MCTrimmed
  MaxSettingsEdits = 5
  MaxPresets = 3
SPECIFICATION PartsSpec
CHECK_DEADLOCK FALSE
INVARIANTS
  LockedWhileConnected
  RemovedStaysRemoved
  AcceptedTriggersFire
  SupportFits
  MatchesWhatItMeans
  WidgetFollows
  ReportedOnce
  AbortedWasAsked
  CrashFilesHold
  OneInstance
  EnabledAreCompatible
  SettingsHold
  BegunWasWanted
  CountersReadBack
