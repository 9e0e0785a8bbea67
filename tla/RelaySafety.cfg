SPECIFICATION Spec
CONSTANTS
  redirect = redirect
  redirected = redirected
  Empty = Empty
  Payload = {redirect, redirected}
  Rewrites <- MCRewrites
  Faults = {"recv", "write", "plugins", "send"}
  MaxChunks = 2
INVARIANTS
  TypeOK
  IdsOrderTheCapture
  GapsAreFinal
  CaptureIsUnmodified
  LoggedBeforeForwarded
  CutRecordIsLast
  NobodyNeedsADeadOwnersMutex
  ParamsOutliveTheListeners
PROPERTIES
  OrphansComeFromStartup
  RelaysClient
  RelaysServer
