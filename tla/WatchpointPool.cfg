\* Four nodes: append and unlink both walk over an inner node.
CONSTANTS
  NR_WP = 4
  NULL = NULL
  NoExpr = NoExpr
  Exprs = {e1}
  Values = {0, 1}
  Indices = {0, 1, 2, 3, 4}
SPECIFICATION FairSpec
INVARIANT IInv
PROPERTIES ImplementsList HandlerReturns
\* assert(0) ends the process.
CHECK_DEADLOCK FALSE
