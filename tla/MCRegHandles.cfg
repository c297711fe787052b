\* A boot tenant and a module loaded at run time.
CONSTANTS
  rd = rd
  wr = wr
  ep = ep
  net = net
  t1 = t1
  t2 = t2
  drv = drv
  Procs = {t1, t2}
  Tier1 = {t1, t2}
  BootProcs = {t1}
  Slots = {0, 1}
  SlotNet = 1
  Rights = {rd, wr}
  Read = rd
  Write = wr
  GenMax = 1
  FixedObjects = {ep}
  NetObjects = {}
  EventLog = EventLog
  SocketIds = {}
  Handles = {}
  RootGrants <- OneCap
  DynBaseline <- ModuleBaseline
  DynEventLog <- ModuleEventLog
  ROOT = ROOT
  NoObject = NoObject
  NoHandle = NoHandle
  RegSlots = {0}
SPECIFICATION RegSpec
CONSTRAINT Bounded
\* Every tenant may terminate.
CHECK_DEADLOCK FALSE
INVARIANTS
  RefcountExact
  HandleInv
PROPERTIES
  AuthorityNeverGrows
  StaleForever
