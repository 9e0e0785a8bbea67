SPECIFICATION Spec
CONSTANTS
  Length <- FewLength
  Packets <- FewPackets
  Ends <- FewEnds
  BufferSize = 5
  Modified <- Nothing
  MaxMisread = 2
  CallbackMayFail = TRUE
  Memcpy = {"moves", "repeats"}
CHECK_DEADLOCK FALSE
INVARIANTS TypeOK PacketsComeOnce EveryLossHasACause
