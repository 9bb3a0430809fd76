----------------------------- MODULE MCExprEval -----------------------------
(* Expressions of a few tokens over 3-bit words, for TLC. *)
EXTENDS ExprValue

MCpmem == [a \in 0 .. 2 |-> 2 - a]
AllBinary == {"+", "-", "*", "/", "==", "!=", "&&"}
=============================================================================
