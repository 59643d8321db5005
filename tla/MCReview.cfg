CONSTANTS
  Texts = {a, e, z}
  Empty = e
  Binaries = {z}
  NoFile = NoFile
  MaxChanges = 3
  MaxOps = 1
  MaxProbes = 1
  MaxReads = 1
  Projects = {p, q}
  Boxes = {b1, b2}
  Nothing = Nothing
  MaxTabs = 2
  MaxHostShells = 1
  MaxRemote = 1
  MaxResults = 1
  MaxScript = 5
  MaxWidth = 2
  MaxSelectable = 2
SPECIFICATION MCSpec
SYMMETRY MCSymmetry
INVARIANTS FileIsTrue ListsStayWithTheirBox ShownIsDone
CHECK_DEADLOCK FALSE
