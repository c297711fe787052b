\* The sources of QEMU virt: the NIC has the lower number.
CONSTANTS
  UartIrq = 10
  NicIrq = 8
  SameIrqLimit = 3
  SpuriousLimit = 2
  FifoSize = 2
  MaxKeys = 4
SPECIFICATION Spec
\* The board may have been reset.
CHECK_DEADLOCK FALSE
PROPERTIES
  StormEnds
  KeyReboots
