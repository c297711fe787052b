SPECIFICATION Spec
CHECK_DEADLOCK FALSE
CONSTANTS
  PtEntries = 4
  MaxPages = 12
  Layouts <- MCLayouts
  StackPages = 2
  Builds <- MCBuilds
  Tampered <- MCTampered
  DynSlots = 4
  PidPools = {{5, 6, 7}, {5, 6, 7, 8, 9}}
INVARIANTS MapsExactly StackClear RunsVerified
PROPERTIES EarlyKeyReboots
