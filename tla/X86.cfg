CONSTANTS
  Byte = 4
  MemSize = 16
  CodeBase = 100
  PortIn = 177
  Programs <- MCPrograms
  Starts <- MCStarts
SPECIFICATION Spec
INVARIANT NothingLeftOver
PROPERTY DoesAsWritten
\* A program ends.
CHECK_DEADLOCK FALSE
