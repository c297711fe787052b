\* Both boards' drivers, with rings that wrap, laps, wedges and a bad frame.
CONSTANTS
  QueueSize = 2
  IdxMod = 4
  MaxSends = 1
  Ring = 3
  StatusEvery = 2
  SnapEvery = 2
  FrozenSnaps = 2
  Cooldown = 2
  MaxTries = 1
  MaxFrames = 4
  MaxTx = 3
  MaxWedges = 1
\* A driver that failed its bring-up does nothing any more.
CHECK_DEADLOCK FALSE
SPECIFICATION NicSpec
INVARIANTS
  BufferInOnePlace
  FramesInOrder
PROPERTIES
  FramesKept
  EngineRecovers
  BringUpEnds
  InFlightKept
