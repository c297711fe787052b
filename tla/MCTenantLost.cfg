\* A receiver whose buffer cannot be written.
CONSTANTS
  ep1 = ep1
  ep2 = ep2
  guard = guard
  daemon = daemon
  Procs = {2, 3}
  BootProcs = {2, 3}
  DynProcs = {}
  Endpoints = {ep1}
  CanWrite <- AllRights
  CanRead <- AllRights
  QueueCap = 1
  Modules = {}
  ModuleProc <- NoModules
  Budget <- NoModules
  GuardModules = {}
  RingCapacity = 4
  BootEvents = 0
  MsgMax = 2
  NoProc = NoProc
  NoEndpoint = NoEndpoint
  NoMsg = NoMsg
SPECIFICATION Spec
CHECK_DEADLOCK FALSE
INVARIANT NoSenderLost
