SPECIFICATION Spec
CONSTANTS
  Client = {c1}
  MaxVersion = 2
  Capacity = 2
  MaxRefreshes = 1

PROPERTIES ConnectedClientCatchesUp
