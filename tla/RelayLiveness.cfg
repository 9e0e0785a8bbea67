SPECIFICATION FairSpec
CONSTANTS
  redirect = redirect
  redirected = redirected
  Empty = Empty
  Payload = {redirected}
  Rewrites <- MCRewrites
  Faults = {"recv", "write", "flush", "plugins", "send"}
  MaxChunks = 2
PROPERTIES
  OneEndStopsTheProxy
  ServerHangupStopsTheProxy
