------------------------------ MODULE ExprValue -----------------------------
(* The debugger's expressions against the grammar of C. *)
EXTENDS ExprEval

C == INSTANCE CExpr

\* A dereference that begins a parenthesis which opens behind one that closed, as in
\* (a)+(*b).  In a part whose own parentheses are the first and the last of these, expr.c
\* counts from the closing one and takes the dereference for the loosest operator.
Misread(t) ==
  \E i \in 1 .. Len(t), j \in 1 .. Len(t) - 1 :
    i < j /\ Type(t, i) = ")" /\ Type(t, j) = "(" /\ Type(t, j + 1) = "*"

\* No quotient that matters depends on whether numbers have a sign: 1/(1-2) is 0 for
\* expr.c, which divides uint32_t, and -1 for the programs of gen-expr.c:58-64.
SignFree(t) == C!Depends \notin C!Expr(t)

\* Whenever expr returns a value it is the one that C's grammar derives, and the only one,
\* for the ints of gen-expr and for words alike; expressions that may be misread aside.
ValueIsRight ==
  IsValue(result) /\ ~Misread(buf) /\ SignFree(buf) => C!Expr(buf) = {result}

\* The help text of p: "calculate the value of a given expression" (ui.c:140).  A value
\* that expr returns is the value of the expression, whatever the expression, if that is
\* the same for ints and for words.
CalculatesValue == IsValue(result) /\ SignFree(buf) => C!Expr(buf) = {result}
=============================================================================
