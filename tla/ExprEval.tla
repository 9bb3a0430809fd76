------------------------------ MODULE ExprEval ------------------------------
(***************************************************************************)
(* The debugger's expressions, nemu/src/monitor/debug/expr.c, fed with     *)
(* those that tools/gen-expr derives at random: the generator rewrites the *)
(* leftmost open place of buf until none is left, then expr evaluates the  *)
(* tokens.  A token is a pair <<type, value>>; the text is not modelled.   *)
(***************************************************************************)
EXTENDS SequencesExt, Integers

CONSTANTS Modulus,   \* 2 ^ 32: uint32_t arithmetic wraps
          Numbers,   \* the numbers that occur
          Binary,    \* the binary operators that occur
          Parens,    \* whether parentheses occur
          Deref,     \* whether *e occurs, which gen-expr does not write
          pmem,      \* a function: the words that paddr_read can read
          MaxTokens  \* bound on the length of an expression

ASSUME ExprAssumption ==
  /\ Modulus \in Nat \ {0, 1} /\ MaxTokens \in Nat \ {0}
  /\ Numbers \subseteq Nat /\ \A addr \in DOMAIN pmem : pmem[addr] \in Nat
  /\ Binary \subseteq {"+", "-", "*", "/", "==", "!=", "&&"}

VARIABLES buf,     \* the expression, with places still open
          result   \* what expr made of it

expr_vars == <<buf, result>>

Open == <<"open", 0>>
Num(v) == <<"num", v>>
Tok(type) == <<type, 0>>
Type(t, i) == t[i][1]

\* What an evaluation comes to: a value, a failed assertion, or SIGFPE.
Value(v) == <<"value", v>>
Abort == <<"abort", 0>>
Crash == <<"crash", 0>>
None == <<"none", 0>>

Uint(v) == Value(v % Modulus)

-----------------------------------------------------------------------------
(* expr.c                                                                  *)

\* The marking of dereferences at the start of expr; it runs from the left
\* over the array it changes, so the operator before may itself be marked.
MarksDeref == {"(", "==", "!=", "+", "-", "/", "*"}
marked(t) ==
  LET m[i \in 0 .. Len(t)] ==
        IF i = 0 THEN << >>
        ELSE Append(m[i - 1],
                    IF /\ Type(t, i) = "*"
                       /\ i = 1 \/ Type(m[i - 1], i - 1) \in MarksDeref
                    THEN Tok("deref") ELSE t[i])
  IN m[Len(t)]

Depth(t, s, e) ==
  Cardinality({i \in s .. e : Type(t, i) = "("}) - Cardinality({i \in s .. e : Type(t, i) = ")"})

\* Variant: && is not among the operators that are looked for.
LevelWithoutAnd(type) ==
  CASE type \in {"==", "!="} -> 3 [] type \in {"+", "-"} -> 2
    [] type \in {"*", "/"} -> 1 [] type = "deref" -> 0 [] OTHER -> -1

Level(type) ==
  CASE type = "&&" -> 4 [] type \in {"==", "!="} -> 3 [] type \in {"+", "-"} -> 2
    [] type \in {"*", "/"} -> 1 [] type = "deref" -> 0 [] OTHER -> -1

\* The operators outside parentheses.
Top(t, s, e) == {p \in s .. e : Depth(t, s, p) = 0 /\ Level(Type(t, p)) >= 0}

\* Variant: the first of those that bind equally loosely, not the last.
find_primary_operator_first(t, s, e) ==
  IF Top(t, s, e) = {} THEN s
  ELSE CHOOSE p \in Top(t, s, e) : \A q \in Top(t, s, e) :
         \/ Level(Type(t, q)) < Level(Type(t, p))
         \/ Level(Type(t, q)) = Level(Type(t, p)) /\ q >= p

\* Of the operators that bind most loosely, the last.
find_primary_operator(t, s, e) ==
  IF Top(t, s, e) = {} THEN s
  ELSE CHOOSE p \in Top(t, s, e) : \A q \in Top(t, s, e) :
         \/ Level(Type(t, q)) < Level(Type(t, p))
         \/ Level(Type(t, q)) = Level(Type(t, p)) /\ q <= p

Apply(op, a, b) ==
  CASE op = "+" -> Uint(a + b) [] op = "-" -> Uint(a - b) [] op = "*" -> Uint(a * b)
    [] op = "/" -> IF b = 0 THEN Crash ELSE Value(a \div b)
    [] op = "==" -> Value(IF a = b THEN 1 ELSE 0)
    [] op = "!=" -> Value(IF a = b THEN 0 ELSE 1)
    [] op = "&&" -> Value(IF a # 0 /\ b # 0 THEN 1 ELSE 0)
    [] OTHER -> Abort

paddr_read(addr) == IF addr \in DOMAIN pmem THEN Uint(pmem[addr]) ELSE Abort

IsValue(r) == r[1] = "value"

\* The value of every part of the tokens, from s to e.
eval(t) ==
  LET val[part \in (1 .. Len(t) + 1) \X (0 .. Len(t))] ==
        LET s == part[1]
            e == part[2]
            op == find_primary_operator(t, s, e)
            val1 == val[<<s, op - 1>>]
            val2 == val[<<op + 1, e>>]
        IN IF s > e THEN Abort
           ELSE IF s = e THEN IF Type(t, s) = "num" THEN Uint(t[s][2]) ELSE Abort
           ELSE IF Type(t, s) = "(" /\ Type(t, e) = ")"  \* check_parentheses
           THEN IF Depth(t, s, e) = 0 THEN val[<<s + 1, e - 1>>] ELSE Abort
           ELSE IF Type(t, op) = "deref"
           THEN IF IsValue(val2) THEN paddr_read(val2[2]) ELSE val2
           ELSE IF ~IsValue(val1) THEN val1
           ELSE IF ~IsValue(val2) THEN val2
           ELSE Apply(Type(t, op), val1[2], val2[2])
  IN val

expr(t) == eval(marked(t))[<<1, Len(t)>>]

-----------------------------------------------------------------------------
(* gen-expr.c, and a user who also writes == != && and *                    *)

ExprInit == buf = <<Open>> /\ result = None

Place == SelectInSeq(buf, LAMBDA x : x = Open)

\* gen_rand_expr calls itself from left to right.
Expand(new) ==
  /\ Place # 0 /\ Len(buf) + Len(new) - 1 <= MaxTokens
  /\ buf' = SubSeq(buf, 1, Place - 1) \o new \o SubSeq(buf, Place + 1, Len(buf))
  /\ UNCHANGED result

gen_opnum(v) == Expand(<<Num(v)>>)
GenParens == Parens /\ Expand(<<Tok("("), Open, Tok(")")>>)
GenBinary(op) == Expand(<<Open, Tok(op), Open>>)
UserDeref == Deref /\ Expand(<<Tok("*"), Open>>)

CmdP ==
  /\ Place = 0 /\ result = None
  /\ result' = expr(buf)
  /\ UNCHANGED buf

ExprNext ==
  \/ \E v \in Numbers : gen_opnum(v)
  \/ GenParens \/ UserDeref
  \/ \E op \in Binary : GenBinary(op)
  \/ CmdP

ExprSpec == ExprInit /\ [][ExprNext]_expr_vars

-----------------------------------------------------------------------------
(* Properties                                                              *)

\* Numbers with one operator between any two of them are always evaluated: the
\* operators split the expression until only numbers are left.
FlatNeverAborts ==
  (\A i \in 1 .. Len(buf) : Type(buf, i) = "num" <=> i % 2 = 1) => result # Abort
=============================================================================
