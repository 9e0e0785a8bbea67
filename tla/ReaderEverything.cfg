SPECIFICATION Spec
CONSTANTS
  Folders = 1
  Captures <- MCWholeCaptures
  MaxIds = 4
  LeticiaFaults = {}
INVARIANTS
  EverythingHasBeenRead
