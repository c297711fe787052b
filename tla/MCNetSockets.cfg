\* Two tenants that open, serve and close sockets, and the net driver.
CONSTANTS
  rd = rd
  wr = wr
  ep = ep
  net = net
  t1 = t1
  t2 = t2
  drv = drv
  Procs = {t1, t2, drv}
  Tier1 = {t1, t2}
  BootProcs = {t1, t2, drv}
  Slots = {0, 1}
  SlotNet = 0
  Rights = {rd, wr}
  Read = rd
  Write = wr
  GenMax = 1
  FixedObjects = {net}
  NetObjects = {net}
  EventLog = EventLog
  SocketIds = {0}
  Handles = {0, 1}
  RootGrants <- TenantsAndDriver
  DynBaseline <- Nothing
  DynEventLog <- Nothing
  ROOT = ROOT
  NoObject = NoObject
  NoHandle = NoHandle
  Deadline = 2
  NoWindow = NoWindow
  NoPoller = NoPoller
SPECIFICATION NetSpec
CONSTRAINT Bounded
\* Every tenant may terminate.
CHECK_DEADLOCK FALSE
INVARIANTS
  NoSharedSocket
PROPERTIES
  StaysHome
  ExpiredUntilClosed
  SlotsAccounted
  AcceptEnds
