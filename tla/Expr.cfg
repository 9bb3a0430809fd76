\* Every operator, parentheses and dereferences.
CONSTANTS
  Modulus = 8
  Numbers = {1, 2}
  Binary <- AllBinary
  Parens = TRUE
  Deref = TRUE
  pmem <- MCpmem
  MaxTokens = 8
SPECIFICATION ExprSpec
INVARIANTS ValueIsRight FlatNeverAborts
\* The evaluated expression is the last state.
CHECK_DEADLOCK FALSE
