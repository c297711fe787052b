\* The transmit queue of the QEMU board.
CONSTANTS
  QueueSize = 2
  IdxMod = 4
  MaxSends = 2
  Ring = 3
  StatusEvery = 2
  SnapEvery = 2
  FrozenSnaps = 2
  Cooldown = 2
  MaxTries = 2
  MaxFrames = 1
  MaxTx = 2
  MaxWedges = 0
\* A driver that failed its bring-up does nothing any more.
CHECK_DEADLOCK FALSE
SPECIFICATION NicSpec
INVARIANTS
  SentOnWire
