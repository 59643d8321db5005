CONSTANTS
  Client = {c1}
  MaxVersion = 3
  Capacity = 1
  MaxRefreshes = 2
  WebHosts = {h1, h2}
  MaxKeys = 3
  MaxAttempts = 2
  MaxDrops = 2
  WebTabs = {1, 2}
  MaxEntries = 3
  MaxSessions = 2
  MaxMoves = 1
  UploadIds = {u1, u2}
  UploadTabs = {"agent", "guest"}
  Places = {"box"}
  PlaceOf <- MCPlaceOf
  FileNames = {n}
  NoUpload = none
  Pieces = 1
SPECIFICATION MCSpec
INVARIANTS
  NothingMissed
  UnlockedIsStored
  TerminalsAreCurrent
  UploadIsTrue
PROPERTIES
  ViewMovesOn
  SessionSettles
CHECK_DEADLOCK FALSE
