SPECIFICATION FairSpec
CONSTANTS
  b1 = b1
  b2 = b2
  z = z
  Procs <- TwoSessions
  Action <- MCAction
  Type <- MCType
  Types <- MCTypes
  Gui = {b1, z}
  Faulty = {b2}
  Junk = 0
  Kills = TRUE
INVARIANTS
  TypeOK
  SessionsAreDistinct
  SeparateUpdatesAddUp
PROPERTIES
  ContinueJoinsTheNewest
  FinishedProxiesLeave
