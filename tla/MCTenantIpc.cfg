\* Three tenants over one endpoint, without modules.
CONSTANTS
  ep1 = ep1
  ep2 = ep2
  guard = guard
  daemon = daemon
  Procs = {2, 3, 4}
  BootProcs = {2, 3, 4}
  DynProcs = {}
  Endpoints = {ep1}
  CanWrite <- AllRights
  CanRead <- AllRights
  QueueCap = 2
  Modules = {}
  ModuleProc <- NoModules
  Budget <- NoModules
  GuardModules = {}
  RingCapacity = 4
  BootEvents = 0
  MsgMax = 2
  NoProc = NoProc
  NoEndpoint = NoEndpoint
  NoMsg = NoMsg
SPECIFICATION Spec
\* The scheduler returns when no tenant is ready.
CHECK_DEADLOCK FALSE
INVARIANTS
  RendezvousInv
PROPERTIES
  ImplementsRendezvous
  EveryWakeRuns
