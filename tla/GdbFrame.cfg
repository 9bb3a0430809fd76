\* The smallest buffer the longest run fits into after one doubling.
CONSTANTS
  Chars <- MCChars
  Digits <- MCDigits
  Messages <- MCMessages
  Size = 97
  MaxBody = 5
  MaxPackets = 2
SPECIFICATION RecvSpec
INVARIANTS InBuffer DecodesWhatWasWritten SumGuards
\* The peer may close the line.
CHECK_DEADLOCK FALSE
