CONSTANTS
  Attempt = {a1, a2}
  MaxStarts = 3
  MaxSecrets = 3
  MaxFiles = 3
  RotateLines = 2
  MaxLines = 9
  Workspace = {w1}
  NoWorkspace = none
  MaxTabs = 2
  MaxRows = 2
  MaxSaves = 2
  Builds = {5, 7}
  BuiltIns <- MCBuiltIns
  MaxOpens = 3
  MaxEntered = 1
SPECIFICATION MCSpec
INVARIANTS PairingIsHonest ServerHasStoredSecret AuditInOrder DatabaseIsWhole
PROPERTIES DialogCloses SetupEnds
CHECK_DEADLOCK FALSE
