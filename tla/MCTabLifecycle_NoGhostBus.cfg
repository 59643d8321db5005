SPECIFICATION Spec
CONSTANTS
  Workspace = {w1}
  NoWorkspace = none
  MaxTabs = 2
  MaxRows = 2
  MaxSaves = 2
INVARIANTS NoGhostBus
