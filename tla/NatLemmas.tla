------------------------------ MODULE NatLemmas ------------------------------
(***************************************************************************)
(* Induction on the natural numbers in a form the provers can use: the     *)
(* library's induction theorems take an operator as a parameter, so the    *)
(* least element of a set of naturals is derived from the pigeonhole       *)
(* principle on finite sets instead.                                       *)
(***************************************************************************)
EXTENDS Integers, FiniteSetTheorems, TLAPS

\* A set of naturals closed under predecessor is empty: below any of its
\* elements u |-> u - 1 would map a finite set one-to-one into a smaller one.
LEMMA NoDescent ==
  ASSUME NEW U \in SUBSET Nat, \A u \in U : u - 1 \in U
  PROVE  U = {}
<1> SUFFICES ASSUME NEW x \in U PROVE FALSE
  OBVIOUS
<1> DEFINE S == {u \in U : u <= x}
           D == S \ {x}
           f == [u \in S |-> u - 1]
<1>1. IsFiniteSet(S)
  <2>1. S \in SUBSET Nat /\ x \in Nat /\ \A s \in S : s <= x
    OBVIOUS
  <2> HIDE DEF S
  <2> QED BY <2>1, FS_BoundedSetOfNaturals
<1>2. IsFiniteSet(D) /\ Cardinality(D) = Cardinality(S) - 1 /\ Cardinality(S) \in Nat
  <2>1. x \in S
    OBVIOUS
  <2> HIDE DEF S
  <2>2. Cardinality(S) \in Nat
    BY <1>1, FS_CardinalityType
  <2> QED BY <1>1, <2>1, <2>2, FS_RemoveElement
<1>3. f \in [S -> D]
  <2>1. ASSUME NEW u \in S PROVE u - 1 \in D
    <3>1. u \in Nat /\ u - 1 \in U /\ u <= x /\ x \in Nat
      OBVIOUS
    <3> QED BY <3>1
  <2> HIDE DEF D, S
  <2> QED BY <2>1
<1>4. \E u, v \in S : u # v /\ f[u] = f[v]
  <2> HIDE DEF S, f
  <2>1. Cardinality(D) < Cardinality(S)
    BY <1>2
  <2> HIDE DEF D
  <2> QED BY <1>1, <1>2, <1>3, <2>1, FS_PigeonHole
<1> QED BY <1>4

\* Every set of naturals that is not empty has a least element.
LEMMA LeastNat ==
  ASSUME NEW T \in SUBSET Nat, T # {}
  PROVE  \E m \in T : \A n \in T : m <= n
<1> SUFFICES ASSUME \A m \in T : \E n \in T : n < m PROVE FALSE
  OBVIOUS
<1> DEFINE U == {u \in Nat : \E t \in T : t <= u}
<1>1. \A u \in U : u - 1 \in U
  OBVIOUS
<1>2. U = {}
  <2>1. U \in SUBSET Nat
    OBVIOUS
  <2> HIDE DEF U
  <2> QED BY <1>1, <2>1, NoDescent
<1>3. T \subseteq U
  OBVIOUS
<1> QED BY <1>2, <1>3

\* Induction up to n, over the set of the numbers a fact holds of.
LEMMA Induction ==
  ASSUME NEW n \in Nat, NEW P, 0 \in P, \A i \in 1 .. n : i - 1 \in P => i \in P
  PROVE  \A i \in 0 .. n : i \in P
<1> DEFINE U == {u \in 0 .. n : u \notin P}
<1>1. ASSUME NEW u \in U PROVE u - 1 \in U
  <2>1. u # 0 /\ u \in Nat
    OBVIOUS
  <2>2. u \in 1 .. n /\ u - 1 \in 0 .. n
    BY <2>1
  <2> QED  BY <2>2
<1>2. U = {}
  <2>1. U \in SUBSET Nat
    OBVIOUS
  <2> HIDE DEF U
  <2> QED  BY <1>1, <2>1, NoDescent
<1> QED  BY <1>2

\* A definition by recursion on 0 .. n has a solution.
Recurs(n, S, base, step) == n \in Nat /\ base \in S /\ step \in [1 .. n -> [S -> S]]
Solves(f, n, S, base, step) ==
  f \in [0 .. n -> S] /\ f[0] = base /\ \A i \in 1 .. n : f[i] = step[i][f[i - 1]]

LEMMA Recursion ==
  ASSUME NEW n, NEW S, NEW base, NEW step, Recurs(n, S, base, step)
  PROVE  \E f : Solves(f, n, S, base, step)
<1> n \in Nat /\ base \in S /\ step \in [1 .. n -> [S -> S]]
  BY DEF Recurs
<1> DEFINE Up(f, m) == f[0] = base /\ \A i \in 1 .. m : f[i] = step[i][f[i - 1]]
           P == {m \in 0 .. n : \E f \in [0 .. m -> S] : Up(f, m)}
<1>1. 0 \in P
  <2> DEFINE f == [i \in 0 .. 0 |-> base]
  <2>1. f \in [0 .. 0 -> S] /\ Up(f, 0)
    OBVIOUS
  <2>2. 0 \in 0 .. n
    OBVIOUS
  <2> HIDE DEF f, Up
  <2> QED  BY <2>1, <2>2
<1>2. ASSUME NEW m \in 1 .. n, m - 1 \in P PROVE m \in P
  <2>1. PICK f \in [0 .. m - 1 -> S] : Up(f, m - 1)
    BY <1>2
  <2> DEFINE g == [i \in 0 .. m |-> IF i = m THEN step[m][f[m - 1]] ELSE f[i]]
  <2>2. m - 1 \in 0 .. m - 1 /\ step[m] \in [S -> S]
    OBVIOUS
  <2>3. \A i \in 0 .. m : i # m => i \in 0 .. m - 1
    OBVIOUS
  <2>4. g \in [0 .. m -> S]
    BY <2>2, <2>3
  <2>5. \A i \in 0 .. m - 1 : g[i] = f[i]
    OBVIOUS
  <2>6. g[m] = step[m][g[m - 1]]
    BY <2>2, <2>5
  <2>7. ASSUME NEW i \in 1 .. m PROVE g[i] = step[i][g[i - 1]]
    <3>1. CASE i = m
      BY <2>6, <3>1
    <3>2. CASE i # m
      <4>1. i \in 1 .. m - 1 /\ i \in 0 .. m - 1 /\ i - 1 \in 0 .. m - 1
        BY <3>2
      <4> HIDE DEF g
      <4> QED  BY <2>1, <2>5, <4>1
    <3> QED  BY <3>1, <3>2
  <2>8. g[0] = base
    <3>1. 0 \in 0 .. m - 1
      OBVIOUS
    <3> HIDE DEF g
    <3> QED  BY <2>1, <2>5, <3>1
  <2>9. Up(g, m)
    <3> HIDE DEF g
    <3> QED  BY <2>7, <2>8
  <2>10. m \in 0 .. n
    OBVIOUS
  <2> HIDE DEF g, Up
  <2> QED  BY <2>4, <2>9, <2>10
<1>3. n \in P
  <2> HIDE DEF P
  <2>1. \A i \in 0 .. n : i \in P
    BY <1>1, <1>2, Induction
  <2> QED  BY <2>1
<1> QED  BY <1>3 DEF Solves

\* Quotient and remainder are the only ones of their kind.
LEMMA Division ==
  ASSUME NEW n \in Nat \ {0}, NEW v \in Int, NEW q \in Int, NEW r \in 0 .. n - 1,
         v = q * n + r
  PROVE  v \div n = q /\ v % n = r
<1>1. v % n \in 0 .. n - 1 /\ v = n * (v \div n) + (v % n)
  OBVIOUS
<1> DEFINE p == v \div n
<1>2. p \in Int
  OBVIOUS
<1>3. n * p = p * n
  BY <1>2
<1> HIDE DEF p
<1>4. CASE p >= q + 1
  <2>1. p * n >= (q + 1) * n
    BY <1>2, <1>4
  <2>2. (q + 1) * n = q * n + n
    OBVIOUS
  <2>3. QED
    BY <2>1, <2>2, <1>1, <1>2, <1>3 DEF p
<1>5. CASE q >= p + 1
  <2>1. q * n >= (p + 1) * n
    BY <1>2, <1>5
  <2>2. (p + 1) * n = p * n + n
    BY <1>2
  <2>3. QED
    BY <2>1, <2>2, <1>1, <1>2, <1>3 DEF p
<1>6. CASE p = q
  BY <1>6, <1>1, <1>2, <1>3 DEF p
<1>7. QED
  BY <1>2, <1>4, <1>5, <1>6
=============================================================================
