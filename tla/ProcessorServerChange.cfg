SPECIFICATION Spec
CONSTANTS
  Length <- ServerLength
  Packets <- ServerPackets
  Ends <- ChangedEnds
  BufferSize = 24
  Modified <- ServerChanges
  MaxMisread = 3
  CallbackMayFail = FALSE
  Memcpy = {"moves"}
CHECK_DEADLOCK FALSE
INVARIANTS OnlyChangedPacketsDiffer
