SPECIFICATION FairSpec
CONSTANTS
  Length <- ServerLength
  Packets <- ServerPackets
  Ends <- BodyEnds
  BufferSize = 24
  Modified <- ServerChanges
  MaxMisread = 3
  CallbackMayFail = FALSE
  Memcpy = {"moves"}
CHECK_DEADLOCK FALSE
INVARIANTS PacketsComeOutWhole NothingIsHeldBack OnlyChangedPacketsDiffer ChangesGoOut
PROPERTIES EveryChunkIsSentOn
