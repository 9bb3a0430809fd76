\* As Expr: (1)/(*2) is taken for a pair of parentheses around 1)/(*2.
CONSTANTS
  Modulus = 8
  Numbers = {1, 2}
  Binary <- AllBinary
  Parens = TRUE
  Deref = TRUE
  pmem <- MCpmem
  MaxTokens = 8
SPECIFICATION ExprSpec
INVARIANT CalculatesValue
\* The evaluated expression is the last state.
CHECK_DEADLOCK FALSE
