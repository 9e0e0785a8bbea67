SPECIFICATION FairSpec
CONSTANTS
  b1 = b1
  b2 = b2
  z = z
  Procs <- BarrackAndZone
  Action <- MCAction
  Type <- MCType
  Types <- MCTypes
  Gui = {b1, z}
  Faulty = {}
  Junk = 0
  Kills = FALSE
PROPERTIES
  StartedProxiesListen
