SPECIFICATION Spec
CONSTANTS
  SeqRange = 12
  Window = 4
  Reorder = 2
  Burst = 8
  MaxPackets = 20
  MaxFlight = 2
  ChunkSize = 2
  TmpSize = 3
  MaxInput = 5
  MaxCount = 3
  FrameByte = {0, 3, 31, 62, 126, 127, 248, 254, 255}
  StartFlags = 10
  MaxFrame = 2
  MaxFrames = 2
INVARIANTS InOrder GapReported ChunksLive DleTransparent FramesKept
PROPERTIES StreamIsQueue RoomKept
