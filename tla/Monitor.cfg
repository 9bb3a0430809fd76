\* Every build, two watchpoints over two expressions, si -2 to si 2, counters of 0 .. 4.
CONSTANTS
  NR_WP = 2
  NoExpr = NoExpr
  Modulus64 = 5
  Exprs = {e1, e2}
  Values = {0, 1}
  Counts <- MCCounts
SPECIFICATION FairSpec
INVARIANTS StateOfLoop Counted ValuesFresh NoChangeMissed
PROPERTIES EndedIsFinal SiReturns
\* NEMU exits.
CHECK_DEADLOCK FALSE
