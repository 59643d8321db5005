CONSTANTS
  ImageFiles = {f1, f2}
  AppVersions = {1, 2}
  MaxLaunches = 3
  AgentTabs = {t1, t2}
  InstallSteps = 2
  MaxStarts = 1
  HookReports = {"session_start", "running", "session_end", "other", "bad"}
  MaxEvents = 3
  Connections = {k1}
  MaxSecretsKept = 2
  MaxSerial = 1
  MaxFrames = 1
  TermRows = 2
  CellHeight = 2
  ViewHeight = 4
  WheelSteps = {3}
  MaxPrinted = 1
  MaxModes = 1
  MaxQueued = 2
  MaxOwed = 1
SPECIFICATION MCSpec
INVARIANTS
  MainHasRuntime
  BootIsTrue
  StatusIsLatest
  SentAsOne
PROPERTIES
  SetupReports
  EventReachesTab
  RelayLetsGo
  AnswersReachProgram
CHECK_DEADLOCK FALSE
