------------------------------- MODULE CExpr -------------------------------
(***************************************************************************)
(* What the grammar of C makes of a sequence of tokens: the values of all  *)
(* its derivations.  An expression of a level is a unit, or an operator of *)
(* that level or a tighter one, with an expression of its own level on the *)
(* left and a tighter one on the right.  The grammar knows nothing of      *)
(* expr.c and serves as its reference.  Numbers are the ints that the      *)
(* programs of gen-expr compute with; memory, the registers and expr.c     *)
(* have words.  The two differ where a division gives another quotient,    *)
(* and what depends on one has no value here.                              *)
(***************************************************************************)
EXTENDS Integers, Sequences

CONSTANTS Modulus, pmem

Number(v) == <<"value", v % Modulus>>
Fault == <<"crash", 0>>
Depends == <<"depends", 0>>  \* on whether numbers have a sign
Truth(p) == Number(IF p THEN 1 ELSE 0)

\* The word v as an int, and the quotient of ints, which C truncates toward 0.
AsInt(v) == IF 2 * v < Modulus THEN v ELSE v - Modulus
Magnitude(i) == IF i < 0 THEN -i ELSE i
Quotient(i, j) ==
  LET q == Magnitude(i) \div Magnitude(j) IN IF i < 0 <=> j < 0 THEN q ELSE -q

Divide(v, w) ==
  IF w = 0 THEN Fault
  ELSE IF Number(Quotient(AsInt(v), AsInt(w))) = Number(v \div w) THEN Number(v \div w)
  ELSE Depends

Operate(op, a, b) ==
  IF a[1] # "value" THEN a
  ELSE IF op = "&&" /\ a[2] = 0 THEN Truth(FALSE)
  ELSE IF b[1] # "value" THEN b
  ELSE CASE op = "+" -> Number(a[2] + b[2]) [] op = "-" -> Number(a[2] - b[2])
         [] op = "*" -> Number(a[2] * b[2]) [] op = "/" -> Divide(a[2], b[2])
         [] op = "==" -> Truth(a[2] = b[2]) [] op = "!=" -> Truth(a[2] # b[2])
         [] op = "&&" -> Truth(b[2] # 0)

Fetch(a) ==
  IF a[1] # "value" THEN a ELSE IF a[2] \in DOMAIN pmem THEN Number(pmem[a[2]]) ELSE Fault

Levels == <<{"*", "/"}, {"+", "-"}, {"==", "!="}, {"&&"}>>
All == Len(Levels)

\* Tokens s to e as an expression of a level, when m says what the shorter parts mean.
Derived(t, m, s, e, level) ==
  (IF s = e /\ t[s][1] = "num" THEN {Number(t[s][2])} ELSE {})
  \cup (IF s < e /\ t[s][1] = "(" /\ t[e][1] = ")" THEN m[<<s + 1, e - 1>>][All] ELSE {})
  \cup (IF s < e /\ t[s][1] = "*" THEN {Fetch(a) : a \in m[<<s + 1, e>>][0]} ELSE {})
  \cup UNION {IF t[p][1] \in Levels[l]
              THEN {Operate(t[p][1], a, b) : a \in m[<<s, p - 1>>][l], b \in m[<<p + 1, e>>][l - 1]}
              ELSE {} : p \in s + 1 .. e - 1, l \in 1 .. level}

Meanings(t) ==
  LET m[part \in (1 .. Len(t)) \X (1 .. Len(t))] ==
        [level \in 0 .. All |-> Derived(t, m, part[1], part[2], level)]
  IN m

Expr(t) == Meanings(t)[<<1, Len(t)>>][All]
=============================================================================
