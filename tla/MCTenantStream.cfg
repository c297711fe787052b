\* A tenant, a guard and a daemon, with two process ids left for restarts.
CONSTANTS
  ep1 = ep1
  ep2 = ep2
  guard = guard
  daemon = daemon
  Procs = {3, 4, 5, 6, 7}
  BootProcs = {3, 4, 5}
  DynProcs = {6, 7}
  Endpoints = {ep1}
  CanWrite <- TenantWrites
  CanRead <- GuardReads
  QueueCap = 2
  Modules = {guard, daemon}
  ModuleProc <- Spawned
  Budget <- Budgets
  GuardModules = {guard, daemon}
  RingCapacity = 2
  BootEvents = 3
  MsgMax = 1
  NoProc = NoProc
  NoEndpoint = NoEndpoint
  NoMsg = NoMsg
SPECIFICATION Spec
\* The scheduler returns when no tenant is ready.
CHECK_DEADLOCK FALSE
INVARIANTS
  NoMissedRecord
  StreamComplete
  DaemonsAlive
PROPERTIES
  ReadsExact
  RunReturns
