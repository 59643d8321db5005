SPECIFICATION Spec
CONSTANTS
  Workspace = {w1, w2}
  NoWorkspace = none
  MaxTabs = 2
  MaxRows = 2
  MaxSaves = 2
SYMMETRY WorkspaceSymmetry
INVARIANTS TabsAreInHand
PROPERTY ClosingIsClean
