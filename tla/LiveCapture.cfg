SPECIFICATION LiveSpec
CONSTANTS
  Empty = Empty
  Payload = {chunk}
  Rewrites <- MCRewrites
  Faults = {"write"}
  MaxChunks = 2
INVARIANTS
  CaptureIsWellFormed
  ReadsInOrderLive
  NeverLosesAnIdLive

  
