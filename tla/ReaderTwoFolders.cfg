SPECIFICATION FairSpec
CONSTANTS
  Folders = 2
  Captures <- MCCaptures
  MaxIds = 3
  LeticiaFaults = {"refuse", "crash", "hang"}
INVARIANTS
  TypeOK
  ReadsInOrder
  NeverLosesAnId
  StopsWhenAFileRunsDry
  UnreadableMeansDamaged
PROPERTIES
  Finishes
