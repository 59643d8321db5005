CONSTANTS
  CharBytes = {2}
  HistoryCap = 2
  MaxChars = 2
  MaxWorkspaces = 3
  MaxCommands = 2
  Mounts = {p, q}
  MaxChanges = 3
  ForwardInputs <- MCForward
  ExposeInputs <- MCExpose
  MaxSandboxes = 2
  MaxDialogs = 2
  Refreshers = {r1, r2}
  MaxLogins = 2
  MaxRefreshes = 1
  TermRows = 2
  CellHeight = 2
  ViewHeight = 4
  WheelSteps = {3}
  MaxPrinted = 1
  MaxModes = 1
  MaxQueued = 2
  MaxOwed = 1
SPECIFICATION MCSpec
SYMMETRY MCSymmetry
INVARIANTS
  FieldIsSound
  WorkspacesAgree
  StaleRowHasNotice
  SavedIsBound
  LoginIsTrue
  ScreenFollowsHand
CHECK_DEADLOCK FALSE
