\* The passes of one revocation, from every state one tenant can reach.
CONSTANTS
  rd = rd
  wr = wr
  ep = ep
  t1 = t1
  Procs = {t1}
  Tier1 = {t1}
  BootProcs = {t1}
  Slots = {0, 1, 2}
  SlotNet = 2
  Rights = {rd, wr}
  Read = rd
  Write = wr
  GenMax = 1
  FixedObjects = {ep}
  NetObjects = {}
  EventLog = EventLog
  SocketIds = {}
  Handles = {}
  RootGrants <- OneCap
  DynBaseline <- Nothing
  DynEventLog <- Nothing
  ROOT = ROOT
  NoObject = NoObject
  NoHandle = NoHandle
  Order <- SlotOrder
  None = None
SPECIFICATION WalkSpec
\* Every tenant may terminate.
CHECK_DEADLOCK FALSE
INVARIANTS
  DiscoverExact
  DerivationInv
PROPERTIES
  ForestSpec
  ImplementsAtomicRevoke
  WalkReturns
