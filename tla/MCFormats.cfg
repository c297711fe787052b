SPECIFICATION Spec
CHECK_DEADLOCK FALSE
CONSTANTS
  Symbol <- MCSymbol
  MAX_HEADERS = 2
  MAX_REQUEST_LINE = 6
  MAX_HEADER_LINE = 5
  MAX_BODY = 2
  MaxDigits = 1
  Streams <- MCStreams
  MAX_DEPTH = 2
  MaxInt = 11
  IntDigits = 2
  Token <- MCToken
  Messages <- MCMessages
  MAX_SECTIONS = 4
  HEADER_LEN = 1
  ENTRY_LEN = 1
  LebMax = 3
  LebMod = 256
  Natives <- MCNatives
  Wasms <- MCWasms
  U32 = 8
  MaxQueue = 2
  MaxEntries = 2
  MemLens = {0, 5, 6}
  Rings = {0}
  Places = {0, 4, 7}
  Authorities = {{}, {"READ"}, {"WRITE"}, {"READ", "WRITE"}}
  RingMemories <- MCRingMemories
  HandleTables <- MCHandleTables
  RingPlaces = {0, 2, 5, 10, 11}
  MaxRing = 2
  UART_MMIO_LEN = 8
  FD_WRITE_MAX = 3
  FifoDepth = 2
  Calls <- MCCalls
  MaxTexts = 2
  MaxLine = 2
INVARIANTS HttpServed McpRoundTrip ContainersRead CallsConfined RingAnswers ConsoleWhole
