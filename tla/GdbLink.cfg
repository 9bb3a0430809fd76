\* Three damaged packets: both of an exchange and one sent again, or one three times.
CONSTANTS
  NrReg = 3
  DutReg = 2
  Eip = 2
  Cs = 3
  RegBytes = 2
  Boot <- MCBoot
  MemSize = 4
  mtu = 2
  Mbr <- MCMbr
  Entry = 1
  Warmup = 1
  Calls <- MCCalls
  MaxCalls = 3
  MaxHits = 3
SPECIFICATION Spec
INVARIANTS InStep CopyIsWhole
PROPERTIES ActsLikeReference Returns
\* An assertion may end NEMU, and a run has MaxCalls calls.
CHECK_DEADLOCK FALSE
