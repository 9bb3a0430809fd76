-------------------------- MODULE WatchpointProofs --------------------------
(***************************************************************************)
(* Proofs about WatchpointPool, for a pool of any size.                    *)
(***************************************************************************)
EXTENDS WatchpointPool, NatLemmas

-----------------------------------------------------------------------------
(* Sequences of distinct nodes                                             *)

\* A sequence without repetition is no longer than the pool.
LEMMA DistinctBound ==
  ASSUME NEW n \in Nat, NEW s \in [1 .. n -> WP],
         \A i, j \in 1 .. n : s[i] = s[j] => i = j
  PROVE  n <= NR_WP
<1> SUFFICES ASSUME NR_WP < n PROVE FALSE
  BY PoolAssumption
<1>1. IsFiniteSet(1 .. n) /\ Cardinality(1 .. n) = n
  BY FS_Interval
<1>2. IsFiniteSet(WP) /\ Cardinality(WP) = NR_WP
  BY FS_Interval, PoolAssumption DEF WP
<1>3. \E i, j \in 1 .. n : i # j /\ s[i] = s[j]
  BY <1>1, <1>2, FS_PigeonHole
<1> QED BY <1>3

\* What it is to be a member of Lists.
LEMMA ListsMember ==
  ASSUME NEW s \in Lists
  PROVE  /\ Len(s) \in Nat /\ s \in [1 .. Len(s) -> WP]
         /\ \A i, j \in 1 .. Len(s) : s[i] = s[j] => i = j
<1>1. PICK n \in 0 .. NR_WP : s \in [1 .. n -> WP]
  BY DEF Lists
<1>2. Len(s) = n /\ n \in Nat
  BY <1>1, PoolAssumption
<1> QED BY <1>1, <1>2 DEF Lists, Distinct

LEMMA ListsIntro ==
  ASSUME NEW n \in Nat, NEW s \in [1 .. n -> WP],
         \A i, j \in 1 .. n : s[i] = s[j] => i = j
  PROVE  s \in Lists /\ Len(s) = n
<1>1. n \in 0 .. NR_WP
  BY DistinctBound, PoolAssumption
<1>2. Len(s) = n
  OBVIOUS
<1> QED BY <1>1, <1>2 DEF Lists, Distinct

LEMMA EmptyList ==
  ASSUME NEW nx \in [WP -> WP \cup {NULL}], NEW s \in Lists, IsList(nx, NULL, s)
  PROVE  Len(s) = 0 /\ s = << >>
<1>1. Len(s) \in Nat /\ s \in [1 .. Len(s) -> WP]
  BY ListsMember
<1>2. ASSUME Len(s) # 0 PROVE FALSE
  <2>1. 1 \in 1 .. Len(s)
    BY <1>1, <1>2
  <2>2. s[1] \in WP
    BY <1>1, <2>1
  <2> QED BY <2>1, <2>2, PoolAssumption DEF IsList, At
<1> QED BY <1>1, <1>2

-----------------------------------------------------------------------------
(* What the handlers do to the links, as facts about one list              *)

\* A list is not disturbed by writing links outside it.
LEMMA Frame ==
  ASSUME NEW nx, NEW ny, NEW p, NEW s \in Lists, IsList(nx, p, s),
         \A n \in Nodes(s) : ny[n] = nx[n]
  PROVE  IsList(ny, p, s)
<1>1. Len(s) \in Nat
  BY ListsMember
<1> QED BY <1>1 DEF IsList, Nodes

\* Taking the first node off.
LEMMA Pop ==
  ASSUME NEW nx \in [WP -> WP \cup {NULL}], NEW p \in WP,
         NEW s \in Lists, IsList(nx, p, s)
  PROVE  /\ Len(s) \in Nat /\ Len(s) > 0 /\ s[1] = p
         /\ Without(s, 1) \in Lists
         /\ IsList(nx, nx[p], Without(s, 1))
         /\ Nodes(Without(s, 1)) = Nodes(s) \ {p}
<1> DEFINE n == Len(s)
           r == Without(s, 1)
<1>1. n \in Nat /\ s \in [1 .. n -> WP] /\ \A i, j \in 1 .. n : s[i] = s[j] => i = j
  BY ListsMember
<1>2. n > 0 /\ s[1] = p
  BY <1>1, PoolAssumption DEF IsList, At
<1>3. n - 1 \in Nat /\ r \in [1 .. n - 1 -> WP] /\ \A i \in 1 .. n - 1 : r[i] = s[i + 1]
  BY <1>1, <1>2 DEF Without
<1>4. r \in Lists /\ Len(r) = n - 1
  <2>1. \A i, j \in 1 .. n - 1 : r[i] = r[j] => i = j
    BY <1>1, <1>2, <1>3
  <2> HIDE DEF n, r
  <2> QED BY <1>3, <2>1, ListsIntro
<1>5. IsList(nx, nx[p], r)
  <2>1. nx[p] = At(r, 1)
    <3>1. nx[s[1]] = At(s, 2)
      BY <1>1, <1>2 DEF IsList
    <3>2. At(s, 2) = At(r, 1)
      BY <1>1, <1>2, <1>3, <1>4 DEF At
    <3> QED BY <3>1, <3>2, <1>2
  <2>2. ASSUME NEW i \in 1 .. n - 1 PROVE nx[r[i]] = At(r, i + 1)
    <3>1. nx[s[i + 1]] = At(s, i + 2)
      BY <1>1, <1>2 DEF IsList
    <3>2. At(s, i + 2) = At(r, i + 1)
      BY <1>1, <1>2, <1>3, <1>4 DEF At
    <3> QED BY <3>1, <3>2, <1>3
  <2> HIDE DEF r
  <2> QED BY <1>4, <2>1, <2>2 DEF IsList
<1>6. Nodes(r) = Nodes(s) \ {p}
  <2>1. ASSUME NEW i \in 1 .. n - 1 PROVE r[i] \in Nodes(s) \ {p}
    BY <1>1, <1>2, <1>3 DEF Nodes
  <2>2. ASSUME NEW i \in 1 .. n, s[i] # p PROVE s[i] \in Nodes(r)
    <3>1. i - 1 \in 1 .. n - 1 /\ r[i - 1] = s[i]
      BY <1>1, <1>2, <1>3, <2>2
    <3> HIDE DEF r
    <3> QED BY <1>4, <3>1 DEF Nodes
  <2> HIDE DEF r
  <2> QED BY <1>4, <2>1, <2>2 DEF Nodes
<1> QED BY <1>1, <1>2, <1>4, <1>5, <1>6

\* One link is written, or two of them.
Link1(ny, nx, q, p) == ny = [nx EXCEPT ![q] = p]
Link2(ny, nx, q, p, r, o) == ny = [nx EXCEPT ![q] = p, ![r] = o]

\* Putting a node in front.
LEMMA Push ==
  ASSUME NEW nx \in [WP -> WP \cup {NULL}], NEW p, NEW q \in WP,
         NEW s \in Lists, IsList(nx, p, s), q \notin Nodes(s),
         NEW ny, Link1(ny, nx, q, p)
  PROVE  /\ Pushed(q, s) \in Lists
         /\ IsList(ny, q, Pushed(q, s))
         /\ Nodes(Pushed(q, s)) = Nodes(s) \cup {q}
<1> DEFINE n == Len(s)
           r == Pushed(q, s)
<1>0. ny = [nx EXCEPT ![q] = p]
  BY DEF Link1
<1>1. n \in Nat /\ s \in [1 .. n -> WP] /\ \A i, j \in 1 .. n : s[i] = s[j] => i = j
  BY ListsMember
<1>2. \A i \in 1 .. n : s[i] # q
  BY DEF Nodes
<1>3. /\ r \in [1 .. n + 1 -> WP] /\ r[1] = q
      /\ \A i \in 1 .. n : r[i + 1] = s[i]
      /\ \A i \in 2 .. n + 1 : r[i] = s[i - 1]
  BY <1>1 DEF Pushed
<1>4. r \in Lists /\ Len(r) = n + 1
  <2>1. \A i, j \in 1 .. n + 1 : r[i] = r[j] => i = j
    BY <1>1, <1>2, <1>3
  <2>2. n + 1 \in Nat
    BY <1>1
  <2> HIDE DEF n, r
  <2> QED BY <1>3, <2>1, <2>2, ListsIntro
<1>5. IsList(ny, q, r)
  <2>1. ASSUME NEW i \in 1 .. n + 1 PROVE ny[r[i]] = At(r, i + 1)
    <3>1. CASE i = 1
      <4>1. ny[r[1]] = p
        BY <1>0, <1>3
      <4>2. p = At(s, 1) /\ At(s, 1) = At(r, 2)
        BY <1>1, <1>3, <1>4 DEF IsList, At
      <4> QED BY <4>1, <4>2, <3>1
    <3>2. CASE i > 1
      <4>1. i - 1 \in 1 .. n /\ r[i] = s[i - 1]
        BY <1>1, <1>3, <3>2
      <4>2. ny[r[i]] = nx[s[i - 1]]
        BY <1>0, <1>1, <1>2, <4>1
      <4>3. nx[s[i - 1]] = At(s, i)
        BY <1>1, <4>1 DEF IsList
      <4>4. At(s, i) = At(r, i + 1)
        BY <1>1, <1>3, <1>4, <3>2 DEF At
      <4> QED BY <4>2, <4>3, <4>4
    <3> QED BY <1>1, <3>1, <3>2
  <2>2. At(r, 1) = q
    BY <1>1, <1>3, <1>4 DEF At
  <2> HIDE DEF r
  <2> QED BY <1>4, <2>1, <2>2 DEF IsList
<1>6. Nodes(r) = Nodes(s) \cup {q}
  <2>1. ASSUME NEW i \in 1 .. n + 1 PROVE r[i] \in Nodes(s) \cup {q}
    BY <1>1, <1>3 DEF Nodes
  <2>2. ASSUME NEW i \in 1 .. n PROVE s[i] \in Nodes(r)
    <3>1. i + 1 \in 1 .. n + 1 /\ r[i + 1] = s[i]
      BY <1>1, <1>3
    <3> HIDE DEF r
    <3> QED BY <1>4, <3>1 DEF Nodes
  <2>3. q \in Nodes(r)
    <3> HIDE DEF r
    <3> QED BY <1>1, <1>3, <1>4 DEF Nodes
  <2> HIDE DEF r
  <2> QED BY <1>4, <2>1, <2>2, <2>3 DEF Nodes
<1> QED BY <1>4, <1>5, <1>6

\* Linking a node behind the last one, where AppendWalk ends.
LEMMA Append1 ==
  ASSUME NEW nx \in [WP -> WP \cup {NULL}], NEW p, NEW q \in WP,
         NEW s \in Lists, IsList(nx, p, s), q \notin Nodes(s),
         NEW t \in Nodes(s), nx[t] = NULL,
         NEW ny, Link2(ny, nx, t, q, q, NULL)
  PROVE  /\ Added(s, q) \in Lists
         /\ IsList(ny, p, Added(s, q))
         /\ Nodes(Added(s, q)) = Nodes(s) \cup {q}
<1> DEFINE n == Len(s)
           r == Added(s, q)
<1>0. ny = [nx EXCEPT ![t] = q, ![q] = NULL]
  BY DEF Link2
<1>1. n \in Nat /\ s \in [1 .. n -> WP] /\ \A i, j \in 1 .. n : s[i] = s[j] => i = j
  BY ListsMember
<1>2. \A i \in 1 .. n : s[i] # q
  BY DEF Nodes
<1>3. /\ r \in [1 .. n + 1 -> WP] /\ r[n + 1] = q
      /\ \A i \in 1 .. n : r[i] = s[i]
  BY <1>1 DEF Added
<1>4. r \in Lists /\ Len(r) = n + 1
  <2>1. \A i, j \in 1 .. n + 1 : r[i] = r[j] => i = j
    BY <1>1, <1>2, <1>3
  <2>2. n + 1 \in Nat
    BY <1>1
  <2> HIDE DEF n, r
  <2> QED BY <1>3, <2>1, <2>2, ListsIntro
<1>5. n > 0 /\ t = s[n]
  <2>1. PICK k \in 1 .. n : t = s[k]
    BY DEF Nodes
  <2>2. ASSUME k < n PROVE FALSE
    <3>1. nx[t] = s[k + 1] /\ s[k + 1] \in WP
      BY <1>1, <2>1, <2>2 DEF IsList, At
    <3> QED BY <3>1, PoolAssumption
  <2> QED BY <1>1, <2>1, <2>2
<1>6. IsList(ny, p, r)
  <2>1. ASSUME NEW i \in 1 .. n + 1 PROVE ny[r[i]] = At(r, i + 1)
    <3>1. CASE i = n + 1
      BY <1>0, <1>1, <1>3, <1>4, <3>1 DEF At
    <3>2. CASE i = n
      <4>1. t # q /\ t \in WP /\ r[i] = t
        BY <1>1, <1>2, <1>3, <1>5, <3>2
      <4> QED BY <1>0, <1>1, <1>3, <1>4, <4>1, <3>2 DEF At
    <3>3. CASE i < n
      <4>1. i \in 1 .. n /\ r[i] = s[i] /\ s[i] \in WP /\ s[i] # q /\ s[i] # t
        BY <1>1, <1>2, <1>3, <1>5, <3>3
      <4>2. ny[s[i]] = nx[s[i]]
        BY <1>0, <4>1
      <4>3. nx[s[i]] = At(s, i + 1)
        BY <4>1 DEF IsList
      <4>4. At(s, i + 1) = At(r, i + 1)
        BY <1>1, <1>3, <1>4, <3>3 DEF At
      <4> QED BY <4>1, <4>2, <4>3, <4>4
    <3>4. i = n + 1 \/ i = n \/ i < n
      <4>1. n \in Nat
        BY <1>1
      <4> HIDE DEF n
      <4> QED BY <4>1
    <3> QED BY <3>1, <3>2, <3>3, <3>4
  <2>2. At(r, 1) = p
    BY <1>1, <1>3, <1>4, <1>5 DEF At, IsList
  <2> HIDE DEF r
  <2> QED BY <1>4, <2>1, <2>2 DEF IsList
<1>7. Nodes(r) = Nodes(s) \cup {q}
  <2>1. ASSUME NEW i \in 1 .. n + 1 PROVE r[i] \in Nodes(s) \cup {q}
    BY <1>1, <1>3 DEF Nodes
  <2>2. ASSUME NEW i \in 1 .. n PROVE s[i] \in Nodes(r)
    <3>1. i \in 1 .. n + 1 /\ r[i] = s[i]
      BY <1>1, <1>3
    <3> HIDE DEF r
    <3> QED BY <1>4, <3>1 DEF Nodes
  <2>3. q \in Nodes(r)
    <3> HIDE DEF r
    <3> QED BY <1>1, <1>3, <1>4 DEF Nodes
  <2> HIDE DEF r
  <2> QED BY <1>4, <2>1, <2>2, <2>3 DEF Nodes
<1> QED BY <1>4, <1>6, <1>7

\* The links ny from p visit the nodes of s, without its k + 1st, q.
Unlinked(ny, p, s, q, k) ==
  /\ k + 1 \in 1 .. Len(s) /\ s[k + 1] = q
  /\ Without(s, k + 1) \in Lists
  /\ IsList(ny, p, Without(s, k + 1))
  /\ Nodes(Without(s, k + 1)) = Nodes(s) \ {q}

\* Linking the predecessor past a node, where UnlinkWalk ends.
LEMMA UnlinkAt ==
  ASSUME NEW nx \in [WP -> WP \cup {NULL}], NEW p, NEW q \in WP,
         NEW s \in Lists, IsList(nx, p, s),
         NEW k \in 1 .. Len(s), nx[s[k]] = q
  PROVE  Unlinked([nx EXCEPT ![s[k]] = nx[q]], p, s, q, k)
<1> DEFINE n == Len(s)
           r == Without(s, k + 1)
           ny == [nx EXCEPT ![s[k]] = nx[q]]
<1>1. n \in Nat /\ s \in [1 .. n -> WP] /\ \A i, j \in 1 .. n : s[i] = s[j] => i = j
  BY ListsMember
<1>2. k + 1 \in 1 .. n /\ s[k + 1] = q
  BY <1>1, PoolAssumption DEF IsList, At
<1>3. /\ r \in [1 .. n - 1 -> WP] /\ n - 1 \in Nat
      /\ \A i \in 1 .. k : r[i] = s[i]
      /\ \A i \in k + 1 .. n - 1 : r[i] = s[i + 1]
  BY <1>1, <1>2 DEF Without
<1>4. r \in Lists /\ Len(r) = n - 1
  <2>1. \A i, j \in 1 .. n - 1 : r[i] = r[j] => i = j
    BY <1>1, <1>2, <1>3
  <2> HIDE DEF n, r
  <2> QED BY <1>3, <2>1, ListsIntro
<1>5. nx[q] = At(s, k + 2) /\ At(s, k + 2) = At(r, k + 1)
  BY <1>1, <1>2, <1>3, <1>4 DEF IsList, At
<1>6. IsList(ny, p, r)
  <2>1. ASSUME NEW i \in 1 .. n - 1 PROVE ny[r[i]] = At(r, i + 1)
    <3>1. CASE i = k
      BY <1>1, <1>3, <1>5, <3>1
    <3>2. CASE i < k
      <4>1. i \in 1 .. n /\ r[i] = s[i] /\ s[i] \in WP /\ s[i] # s[k]
        BY <1>1, <1>2, <1>3, <3>2
      <4>2. ny[r[i]] = At(s, i + 1)
        BY <4>1 DEF IsList
      <4>3. At(s, i + 1) = At(r, i + 1)
        BY <1>1, <1>2, <1>3, <1>4, <3>2 DEF At
      <4> QED BY <4>2, <4>3
    <3>3. CASE i > k
      <4>1. i + 1 \in 1 .. n /\ r[i] = s[i + 1] /\ s[i + 1] \in WP /\ s[i + 1] # s[k]
        BY <1>1, <1>2, <1>3, <3>3
      <4>2. ny[r[i]] = At(s, i + 2)
        BY <4>1 DEF IsList
      <4>3. At(s, i + 2) = At(r, i + 1)
        <5>1. CASE i = n - 1
          BY <1>1, <1>4, <5>1 DEF At
        <5>2. CASE i < n - 1
          <6>1. i + 1 \in k + 1 .. n - 1 /\ i + 2 \in 1 .. n /\ r[i + 1] = s[i + 2]
            BY <1>1, <1>2, <1>3, <3>3, <5>2
          <6> HIDE DEF r
          <6> QED BY <1>1, <1>4, <6>1 DEF At
        <5>3. i = n - 1 \/ i < n - 1
          <6>1. n \in Nat
            BY <1>1
          <6> HIDE DEF n
          <6> QED BY <6>1
        <5> QED BY <5>1, <5>2, <5>3
      <4> QED BY <4>2, <4>3
    <3> QED BY <1>1, <3>1, <3>2, <3>3
  <2>2. At(r, 1) = p
    BY <1>1, <1>2, <1>3, <1>4 DEF At, IsList
  <2> HIDE DEF r, ny
  <2> QED BY <1>4, <2>1, <2>2 DEF IsList
<1>7. Nodes(r) = Nodes(s) \ {q}
  <2>1. ASSUME NEW i \in 1 .. n - 1 PROVE r[i] \in Nodes(s) \ {q}
    BY <1>1, <1>2, <1>3 DEF Nodes
  <2>2. ASSUME NEW i \in 1 .. n, s[i] # q PROVE s[i] \in Nodes(r)
    <3>1. CASE i <= k
      <4>1. i \in 1 .. n - 1 /\ r[i] = s[i]
        BY <1>1, <1>2, <1>3, <3>1
      <4> HIDE DEF r
      <4> QED BY <1>4, <4>1 DEF Nodes
    <3>2. CASE i > k
      <4>1. i - 1 \in 1 .. n - 1 /\ r[i - 1] = s[i]
        BY <1>1, <1>2, <1>3, <2>2, <3>2
      <4> HIDE DEF r
      <4> QED BY <1>4, <4>1 DEF Nodes
    <3> QED BY <1>1, <3>1, <3>2
  <2> HIDE DEF r
  <2> QED BY <1>4, <2>1, <2>2 DEF Nodes
<1> QED BY <1>2, <1>4, <1>6, <1>7 DEF Unlinked

LEMMA Unlink ==
  ASSUME NEW nx \in [WP -> WP \cup {NULL}], NEW p, NEW q \in WP,
         NEW s \in Lists, IsList(nx, p, s),
         NEW t \in Nodes(s), nx[t] = q,
         NEW ny, Link1(ny, nx, t, nx[q])
  PROVE  \E k \in 1 .. Len(s) : Unlinked(ny, p, s, q, k)
<1>1. PICK k \in 1 .. Len(s) : t = s[k]
  BY DEF Nodes
<1>2. nx[s[k]] = q /\ ny = [nx EXCEPT ![s[k]] = nx[q]]
  BY <1>1 DEF Link1
<1>3. Unlinked([nx EXCEPT ![s[k]] = nx[q]], p, s, q, k)
  BY <1>2, UnlinkAt
<1>4. Unlinked(ny, p, s, q, k)
  BY <1>2, <1>3
<1> QED BY <1>4

\* The links lead to one list only: two lists that start at p are the same.
LEMMA OneList ==
  ASSUME NEW nx, NEW p, NEW s \in Lists, NEW t \in Lists,
         IsList(nx, p, s), IsList(nx, p, t)
  PROVE  s = t
<1>1. /\ Len(s) \in Nat /\ s \in [1 .. Len(s) -> WP]
      /\ Len(t) \in Nat /\ t \in [1 .. Len(t) -> WP]
  BY ListsMember
<1> DEFINE D == {i \in Nat \ {0} : At(s, i) # At(t, i)}
<1>2. D = {}
  <2>1. SUFFICES ASSUME D # {} PROVE FALSE
    OBVIOUS
  <2>2. PICK m \in D : \A i \in D : m <= i
    <3>1. D \in SUBSET Nat
      OBVIOUS
    <3> HIDE DEF D
    <3> QED BY <2>1, <3>1, LeastNat
  <2>3. m > 1
    BY DEF IsList
  <2>4. m - 1 \in Nat \ {0} /\ At(s, m - 1) = At(t, m - 1)
    BY <2>2, <2>3
  <2>5. CASE m - 1 \in 1 .. Len(s) /\ m - 1 \in 1 .. Len(t)
    BY <2>4, <2>5 DEF IsList, At
  <2>6. CASE m - 1 \notin 1 .. Len(s)
    <3>1. At(s, m - 1) = NULL /\ At(s, m) = NULL
      BY <1>1, <2>3, <2>6 DEF At
    <3>2. m - 1 \notin 1 .. Len(t)
      BY <1>1, <2>4, <3>1, PoolAssumption DEF At
    <3> QED BY <1>1, <2>3, <3>1, <3>2 DEF At
  <2>7. CASE m - 1 \notin 1 .. Len(t)
    <3>1. At(t, m - 1) = NULL /\ At(t, m) = NULL
      BY <1>1, <2>3, <2>7 DEF At
    <3>2. m - 1 \notin 1 .. Len(s)
      BY <1>1, <2>4, <3>1, PoolAssumption DEF At
    <3> QED BY <1>1, <2>3, <3>1, <3>2 DEF At
  <2> QED BY <2>5, <2>6, <2>7
<1>3. \A i \in Nat \ {0} : At(s, i) = At(t, i)
  BY <1>2
<1>4. Len(s) = Len(t)
  <2>1. ASSUME Len(s) < Len(t) PROVE FALSE
    <3>1. At(t, Len(t)) \in WP /\ At(s, Len(t)) = NULL
      BY <1>1, <2>1 DEF At
    <3> QED BY <1>1, <1>3, <2>1, <3>1, PoolAssumption
  <2>2. ASSUME Len(t) < Len(s) PROVE FALSE
    <3>1. At(s, Len(s)) \in WP /\ At(t, Len(s)) = NULL
      BY <1>1, <2>2 DEF At
    <3> QED BY <1>1, <1>3, <2>2, <3>1, PoolAssumption
  <2>3. Len(s) \in Nat /\ Len(t) \in Nat
    BY <1>1
  <2> QED BY <2>1, <2>2, <2>3
<1>5. \A i \in 1 .. Len(s) : s[i] = t[i]
  BY <1>1, <1>3, <1>4 DEF At
<1> QED BY <1>1, <1>4, <1>5

\* So ListFrom is the list.
LEMMA ListFromIs ==
  ASSUME NEW nx, NEW p, NEW s \in Lists, IsList(nx, p, s)
  PROVE  ListFrom(nx, p) = s
<1>1. ListFrom(nx, p) \in Lists /\ IsList(nx, p, ListFrom(nx, p))
  BY DEF ListFrom
<1> QED BY <1>1, OneList

-----------------------------------------------------------------------------
(* The inductive invariant                                                 *)

Inv == TypeOK /\ IInv

Shape(s, f) ==
  /\ IsList(next, head, s) /\ IsList(next, free_, f)
  /\ PoolShape(s, f) /\ CursorShape(s, f)

LEMMA ShapeIInv ==
  ASSUME NEW s \in Lists, NEW f \in Lists, Shape(s, f)
  PROVE  IInv
BY DEF Shape, IInv

\* The lists that init_wp_pool builds.
LEMMA InitInv == Init => Inv
<1> SUFFICES ASSUME Init PROVE Inv
  OBVIOUS
<1> USE PoolAssumption
<1>1. TypeOK
  BY DEF Init, TypeOK, WP, NoReq
<1> DEFINE f == [i \in 1 .. NR_WP |-> i - 1]
<1>2. f \in Lists /\ Len(f) = NR_WP
  <2>1. f \in [1 .. NR_WP -> WP] /\ \A i, j \in 1 .. NR_WP : f[i] = f[j] => i = j
    BY DEF WP
  <2> HIDE DEF f
  <2> QED BY <2>1, ListsIntro
<1>3. << >> \in Lists /\ Len(<< >>) = 0
  <2>1. << >> \in [1 .. 0 -> WP] /\ \A i, j \in 1 .. 0 : << >>[i] = << >>[j] => i = j
    OBVIOUS
  <2> QED BY <2>1, ListsIntro
<1>4. IsList(next, head, << >>) /\ Nodes(<< >>) = {}
  BY <1>3 DEF Init, IsList, At, Nodes
<1>5. IsList(next, free_, f)
  <2>1. \A i \in 1 .. NR_WP : next[f[i]] = IF i < NR_WP THEN f[i + 1] ELSE NULL
    BY DEF Init, WP
  <2>2. f[1] = free_
    BY DEF Init
  <2> HIDE DEF f
  <2> QED BY <1>2, <2>1, <2>2 DEF IsList, At
<1>6. Nodes(f) = WP
  <2>1. ASSUME NEW p \in WP PROVE p + 1 \in 1 .. NR_WP /\ f[p + 1] = p
    BY DEF WP
  <2>2. f \in [1 .. NR_WP -> WP]
    BY DEF WP
  <2> HIDE DEF f
  <2> QED BY <1>2, <2>1, <2>2 DEF Nodes
<1>7. Shape(<< >>, f)
  <2> HIDE DEF f
  <2> QED BY <1>4, <1>5, <1>6 DEF Shape, PoolShape, CursorShape, Pending, Init
<1>8. IInv
  <2> HIDE DEF f
  <2> QED BY <1>2, <1>3, <1>7, ShapeIInv
<1> QED BY <1>1, <1>8 DEF Inv

-----------------------------------------------------------------------------
(* What each step does to the two lists.  s and f are the lists before it, *)
(* s2 and f2 the lists after it.                                           *)

\* A first watchpoint: the node leaves free_ and becomes the whole of head.
LEMMA CmdWFirstShape ==
  ASSUME Inv, NEW e \in Exprs, NEW v \in Values, CmdWFirst(e, v)
  PROVE  \E s, f, s2, f2 \in Lists :
           /\ Shape(s, f) /\ Shape(s2, f2)'
           /\ f # << >> /\ free_ = f[1]
           /\ s2 = Added(s, free_) /\ f2 = Without(f, 1)
<1> USE PoolAssumption
<1>0. PICK s \in Lists, f \in Lists : Shape(s, f)
  BY DEF Inv, IInv, Shape
<1>1. /\ next \in [WP -> WP \cup {NULL}] /\ free_ \in WP /\ head = NULL /\ pc = "idle"
      /\ next' = [next EXCEPT ![free_] = NULL] /\ head' = free_ /\ free_' = next[free_]
      /\ pc' = pc /\ temp' = temp /\ wp' = wp /\ req' = req
  BY DEF Inv, TypeOK, CmdWFirst, locals
<1>2. /\ Len(f) \in Nat /\ Len(f) > 0 /\ f[1] = free_
      /\ Without(f, 1) \in Lists /\ IsList(next, next[free_], Without(f, 1))
      /\ Nodes(Without(f, 1)) = Nodes(f) \ {free_}
  <2>1. IsList(next, free_, f)
    BY <1>0 DEF Shape
  <2> QED BY <1>1, <2>1, Pop
<1>3. Len(s) = 0 /\ Nodes(s) = {} /\ free_ \in Nodes(f)
  <2>1. IsList(next, NULL, s)
    BY <1>0, <1>1 DEF Shape
  <2>2. Len(s) = 0
    BY <1>1, <2>1, EmptyList
  <2> QED BY <1>2, <2>2 DEF Nodes
<1>4. PICK f2 \in Lists : f2 = Without(f, 1)
  BY <1>2
<1>5. PICK s2 \in Lists : s2 = Added(s, free_) /\ Len(s2) = 1 /\ s2[1] = free_
  <2> DEFINE r == Added(s, free_)
  <2>1. r \in [1 .. 1 -> WP] /\ r[1] = free_ /\ \A i, j \in 1 .. 1 : r[i] = r[j] => i = j
    BY <1>1, <1>3 DEF Added
  <2>2. r \in Lists /\ Len(r) = 1
    <3> HIDE DEF r
    <3> QED BY <2>1, ListsIntro
  <2> QED BY <2>1, <2>2
<1>6. IsList(next', head', s2) /\ Nodes(s2) = {free_}
  BY <1>1, <1>5 DEF IsList, At, Nodes
<1>7. IsList(next', free_', f2)
  <2>1. \A n \in Nodes(f2) : next'[n] = next[n]
    BY <1>1, <1>2, <1>4
  <2>2. IsList(next, free_', f2)
    BY <1>1, <1>2, <1>4
  <2> QED BY <2>1, <2>2, Frame
<1>8. PoolShape(s2, f2)'
  BY <1>0, <1>1, <1>2, <1>3, <1>4, <1>6 DEF Shape, PoolShape, Pending
<1>9. CursorShape(s2, f2)'
  BY <1>1 DEF CursorShape
<1>10. Shape(s2, f2)'
  BY <1>6, <1>7, <1>8, <1>9 DEF Shape
<1>11. f # << >>
  BY <1>2
<1> QED BY <1>0, <1>2, <1>4, <1>5, <1>10, <1>11

\* A further watchpoint: the node leaves free_, and the walk starts at head.
LEMMA CmdWAppendShape ==
  ASSUME Inv, NEW e \in Exprs, NEW v \in Values, CmdWAppend(e, v)
  PROVE  \E s, f, f2 \in Lists :
           /\ Shape(s, f) /\ Shape(s, f2)'
           /\ f # << >> /\ free_ = f[1] /\ f2 = Without(f, 1)
<1> USE PoolAssumption
<1>0. PICK s \in Lists, f \in Lists : Shape(s, f)
  BY DEF Inv, IInv, Shape
<1>1. /\ next \in [WP -> WP \cup {NULL}] /\ free_ \in WP /\ head \in WP /\ pc = "idle"
      /\ next' = next /\ head' = head /\ free_' = next[free_]
      /\ pc' = "append" /\ temp' = head /\ wp' = free_
      /\ req'.expression \in Exprs /\ req'.value \in Values
  BY DEF Inv, TypeOK, CmdWAppend, NoReq
<1>2. /\ Len(f) \in Nat /\ Len(f) > 0 /\ f[1] = free_
      /\ Without(f, 1) \in Lists /\ IsList(next, next[free_], Without(f, 1))
      /\ Nodes(Without(f, 1)) = Nodes(f) \ {free_}
  <2>1. IsList(next, free_, f)
    BY <1>0 DEF Shape
  <2> QED BY <1>1, <2>1, Pop
<1>3. PICK f2 \in Lists : f2 = Without(f, 1)
  BY <1>2
<1>4. free_ \in Nodes(f) /\ head \in Nodes(s)
  <2>1. IsList(next, head, s)
    BY <1>0 DEF Shape
  <2>2. Len(s) \in Nat /\ Len(s) > 0 /\ s[1] = head
    BY <1>1, <2>1, Pop
  <2> QED BY <1>2, <2>2 DEF Nodes
<1>5. IsList(next', head', s) /\ IsList(next', free_', f2)
  BY <1>0, <1>1, <1>2, <1>3 DEF Shape
<1>6. PoolShape(s, f2)'
  BY <1>0, <1>1, <1>2, <1>3, <1>4 DEF Shape, PoolShape, Pending
<1>7. CursorShape(s, f2)'
  BY <1>1, <1>4 DEF CursorShape
<1>8. Shape(s, f2)'
  BY <1>5, <1>6, <1>7 DEF Shape
<1>9. f # << >>
  BY <1>2
<1> QED BY <1>0, <1>2, <1>3, <1>8, <1>9

\* The walk over head found its end: the new node becomes the last one.
LEMMA AppendLinkShape ==
  ASSUME Inv, AppendLink
  PROVE  \E s, f, s2 \in Lists :
           Shape(s, f) /\ Shape(s2, f)' /\ s2 = Added(s, wp)
<1> USE PoolAssumption
<1>0. PICK s \in Lists, f \in Lists : Shape(s, f)
  BY DEF Inv, IInv, Shape
<1>1. /\ next \in [WP -> WP \cup {NULL}] /\ pc = "append" /\ wp \in WP
      /\ temp \in Nodes(s) /\ next[temp] = NULL
      /\ next' = [next EXCEPT ![temp] = wp, ![wp] = NULL]
      /\ head' = head /\ free_' = free_ /\ pc' = "idle"
  BY <1>0 DEF Inv, TypeOK, AppendLink, Return, Shape, CursorShape
<1>2. /\ wp \notin Nodes(s) /\ wp \notin Nodes(f) /\ temp \notin Nodes(f)
      /\ temp \in WP /\ temp # wp
  <2>1. Nodes(s) \subseteq WP
    BY ListsMember DEF Nodes
  <2> QED BY <1>0, <1>1, <2>1 DEF Shape, PoolShape, Pending
<1>3. /\ Added(s, wp) \in Lists /\ IsList(next', head', Added(s, wp))
      /\ Nodes(Added(s, wp)) = Nodes(s) \cup {wp}
  <2>1. IsList(next, head', s)
    BY <1>0, <1>1 DEF Shape
  <2>2. Link2(next', next, temp, wp, wp, NULL)
    BY <1>1 DEF Link2
  <2> QED BY <1>1, <1>2, <2>1, <2>2, Append1
<1>4. PICK s2 \in Lists : s2 = Added(s, wp)
  BY <1>3
<1>5. IsList(next', free_', f)
  <2>1. Nodes(f) \subseteq WP
    BY ListsMember DEF Nodes
  <2>2. \A n \in Nodes(f) : next'[n] = next[n]
    BY <1>1, <1>2, <2>1
  <2> QED BY <1>0, <1>1, <2>2, Frame DEF Shape
<1>6. PoolShape(s2, f)'
  BY <1>0, <1>1, <1>2, <1>3, <1>4 DEF Shape, PoolShape, Pending
<1>7. CursorShape(s2, f)'
  BY <1>1 DEF CursorShape
<1>8. Shape(s2, f)'
  BY <1>3, <1>4, <1>5, <1>6, <1>7 DEF Shape
<1> QED BY <1>0, <1>4, <1>8

\* Deleting the oldest watchpoint.
LEMMA FreeHeadShape ==
  ASSUME Inv, FreeHead
  PROVE  \E s, f, s2, f2 \in Lists :
           /\ Shape(s, f) /\ Shape(s2, f2)'
           /\ Len(s) \in Nat /\ Len(s) > 0
           /\ s2 = Without(s, 1) /\ f2 = Pushed(s[1], f)
<1> USE PoolAssumption
<1>0. PICK s \in Lists, f \in Lists : Shape(s, f)
  BY DEF Inv, IInv, Shape
<1>1. /\ next \in [WP -> WP \cup {NULL}] /\ pc = "find" /\ head \in WP
      /\ next' = [next EXCEPT ![head] = free_]
      /\ head' = next[head] /\ free_' = head /\ pc' = "idle"
  BY DEF Inv, TypeOK, FreeHead, Return
<1>2. /\ Len(s) \in Nat /\ Len(s) > 0 /\ s[1] = head
      /\ Without(s, 1) \in Lists /\ IsList(next, next[head], Without(s, 1))
      /\ Nodes(Without(s, 1)) = Nodes(s) \ {head}
  <2>1. IsList(next, head, s)
    BY <1>0 DEF Shape
  <2> QED BY <1>1, <2>1, Pop
<1>3. head \in Nodes(s) /\ head \notin Nodes(f)
  <2>1. head \in Nodes(s)
    BY <1>2 DEF Nodes
  <2> QED BY <1>0, <2>1 DEF Shape, PoolShape
<1>4. /\ Pushed(head, f) \in Lists /\ IsList(next', free_', Pushed(head, f))
      /\ Nodes(Pushed(head, f)) = Nodes(f) \cup {head}
  <2>1. IsList(next, free_, f)
    BY <1>0 DEF Shape
  <2>2. Link1(next', next, head, free_)
    BY <1>1 DEF Link1
  <2> QED BY <1>1, <1>3, <2>1, <2>2, Push
<1>5. PICK s2 \in Lists : s2 = Without(s, 1)
  BY <1>2
<1>6. PICK f2 \in Lists : f2 = Pushed(head, f)
  BY <1>4
<1>7. IsList(next', head', s2)
  <2>1. Nodes(s2) \subseteq WP
    BY ListsMember DEF Nodes
  <2>2. \A n \in Nodes(s2) : next'[n] = next[n]
    BY <1>1, <1>2, <1>5, <2>1
  <2>3. IsList(next, head', s2)
    BY <1>1, <1>2, <1>5
  <2> QED BY <2>2, <2>3, Frame
<1>8. PoolShape(s2, f2)'
  BY <1>0, <1>1, <1>2, <1>3, <1>4, <1>5, <1>6 DEF Shape, PoolShape, Pending
<1>9. CursorShape(s2, f2)'
  BY <1>1 DEF CursorShape
<1>10. Shape(s2, f2)'
  BY <1>4, <1>6, <1>7, <1>8, <1>9 DEF Shape
<1> QED BY <1>0, <1>2, <1>5, <1>6, <1>10

\* Deleting another one, once the walk is at its predecessor.
LEMMA UnlinkLinkShape ==
  ASSUME Inv, UnlinkLink
  PROVE  \E s, f, s2, f2 \in Lists : \E k \in 1 .. Len(s) :
           /\ Shape(s, f) /\ Shape(s2, f2)'
           /\ k + 1 \in 1 .. Len(s)
           /\ s2 = Without(s, k + 1) /\ f2 = Pushed(s[k + 1], f)
<1> USE PoolAssumption
<1>0. PICK s \in Lists, f \in Lists : Shape(s, f)
  BY DEF Inv, IInv, Shape
<1>1. /\ next \in [WP -> WP \cup {NULL}] /\ pc = "unlink"
      /\ next[temp] = wp
      /\ next' = [next EXCEPT ![temp] = next[wp], ![wp] = free_]
      /\ head' = head /\ free_' = wp /\ pc' = "idle"
  BY DEF Inv, TypeOK, UnlinkLink, Return
<1>2. Len(s) \in Nat /\ s \in [1 .. Len(s) -> WP]
  BY ListsMember
<1>3. \E k \in 1 .. Len(s) : \E j \in k + 1 .. Len(s) : temp = s[k] /\ wp = s[j]
  BY <1>0, <1>1 DEF Shape, CursorShape
<1>4. wp \in Nodes(s) /\ wp \in WP /\ temp \in Nodes(s) /\ temp \in WP
  BY <1>2, <1>3 DEF Nodes
<1>5. wp \notin Nodes(f) /\ temp \notin Nodes(f)
  BY <1>0, <1>4 DEF Shape, PoolShape
<1>6. PICK nx1 : nx1 = [next EXCEPT ![temp] = next[wp]]
  OBVIOUS
<1>7. PICK k \in 1 .. Len(s) : Unlinked(nx1, head, s, wp, k)
  <2>1. IsList(next, head, s) /\ next[temp] = wp
    BY <1>0, <1>1 DEF Shape
  <2>2. Link1(nx1, next, temp, next[wp])
    BY <1>6 DEF Link1
  <2>3. next \in [WP -> WP \cup {NULL}] /\ wp \in WP /\ temp \in Nodes(s)
    BY <1>1, <1>4
  <2> QED BY <2>1, <2>2, <2>3, Unlink
<1>8. /\ k + 1 \in 1 .. Len(s) /\ s[k + 1] = wp
      /\ Without(s, k + 1) \in Lists
      /\ IsList(nx1, head, Without(s, k + 1))
      /\ Nodes(Without(s, k + 1)) = Nodes(s) \ {wp}
  BY <1>7 DEF Unlinked
<1>9. next' = [nx1 EXCEPT ![wp] = free_] /\ nx1 \in [WP -> WP \cup {NULL}]
  BY <1>1, <1>4, <1>6
<1>10. IsList(nx1, free_, f)
  <2>1. \A n \in Nodes(f) : nx1[n] = next[n]
    <3>1. Nodes(f) \subseteq WP
      BY ListsMember DEF Nodes
    <3> QED BY <1>1, <1>4, <1>5, <1>6, <3>1
  <2> QED BY <1>0, <2>1, Frame DEF Shape
<1>11. /\ Pushed(wp, f) \in Lists /\ IsList(next', free_', Pushed(wp, f))
      /\ Nodes(Pushed(wp, f)) = Nodes(f) \cup {wp}
  <2>1. Link1(next', nx1, wp, free_)
    BY <1>9 DEF Link1
  <2>2. Pushed(wp, f) \in Lists /\ IsList(next', wp, Pushed(wp, f))
        /\ Nodes(Pushed(wp, f)) = Nodes(f) \cup {wp}
    <3>1. nx1 \in [WP -> WP \cup {NULL}] /\ wp \in WP /\ wp \notin Nodes(f)
      BY <1>4, <1>5, <1>9
    <3> QED BY <1>10, <2>1, <3>1, Push, SMTT(60)
  <2> QED BY <1>1, <2>2
<1>12. PICK s2 \in Lists : s2 = Without(s, k + 1)
  BY <1>8
<1>13. PICK f2 \in Lists : f2 = Pushed(wp, f)
  BY <1>11
<1>14. IsList(next', head', s2)
  <2>1. \A n \in Nodes(s2) : next'[n] = nx1[n]
    <3>1. Nodes(s2) \subseteq WP
      BY ListsMember DEF Nodes
    <3> QED BY <1>8, <1>9, <1>12, <3>1
  <2>2. IsList(nx1, head', s2)
    BY <1>1, <1>8, <1>12
  <2> QED BY <2>1, <2>2, Frame
<1>15. PoolShape(s2, f2)'
  BY <1>0, <1>1, <1>4, <1>8, <1>11, <1>12, <1>13 DEF Shape, PoolShape, Pending
<1>16. CursorShape(s2, f2)'
  BY <1>1 DEF CursorShape
<1>17. Shape(s2, f2)'
  BY <1>11, <1>13, <1>14, <1>15, <1>16 DEF Shape
<1> QED BY <1>0, <1>8, <1>12, <1>13, <1>17

\* The steps that only move a cursor, or write fields other than next.
SameLists == next' = next /\ head' = head /\ free_' = free_

LEMMA SameListsShape ==
  ASSUME SameLists, pc # "append", pc' # "append",
         NEW s \in Lists, NEW f \in Lists, Shape(s, f), CursorShape(s, f)'
  PROVE  Shape(s, f)'
<1>1. IsList(next', head', s) /\ IsList(next', free_', f)
  BY DEF Shape, SameLists
<1>2. PoolShape(s, f)'
  BY DEF Shape, PoolShape, Pending
<1> QED BY <1>1, <1>2 DEF Shape

\* Following a link inside a list ends on the list or at NULL.
LEMMA Follow ==
  ASSUME NEW nx \in [WP -> WP \cup {NULL}], NEW p,
         NEW s \in Lists, IsList(nx, p, s), NEW t \in Nodes(s)
  PROVE  t \in WP /\ nx[t] \in Nodes(s) \cup {NULL}
<1>1. Len(s) \in Nat /\ s \in [1 .. Len(s) -> WP]
  BY ListsMember
<1>2. PICK k \in 1 .. Len(s) : t = s[k]
  BY DEF Nodes
<1>3. nx[t] = At(s, k + 1)
  BY <1>2 DEF IsList
<1>4. CASE k = Len(s)
  BY <1>1, <1>2, <1>3, <1>4 DEF At
<1>5. CASE k < Len(s)
  <2>1. k + 1 \in 1 .. Len(s)
    BY <1>1, <1>5
  <2> QED BY <1>1, <1>2, <1>3, <2>1 DEF At, Nodes
<1>6. k = Len(s) \/ k < Len(s)
  <2>1. Len(s) \in Nat /\ k \in 1 .. Len(s)
    BY <1>1
  <2> QED BY <2>1
<1> QED BY <1>1, <1>2, <1>4, <1>5, <1>6

LEMMA HeadFollow ==
  ASSUME NEW nx \in [WP -> WP \cup {NULL}], NEW p \in WP \cup {NULL},
         NEW s \in Lists, IsList(nx, p, s)
  PROVE  p \in Nodes(s) \cup {NULL}
<1>1. CASE p = NULL
  BY <1>1
<1>2. CASE p \in WP
  <2>1. Len(s) \in Nat /\ Len(s) > 0 /\ s[1] = p
    BY <1>2, Pop
  <2> QED BY <2>1 DEF Nodes
<1> QED BY <1>1, <1>2

\* Each walk keeps its cursor where CursorShape says.
WalkStep ==
  \/ CmdWNoneFree \/ AppendWalk
  \/ \E i \in Indices : CmdD(i)
  \/ FindWalk \/ FindMissing \/ FreeInner \/ UnlinkWalk
  \/ CheckStart \/ (\E v \in Values : CheckOne(v)) \/ CheckEnd

LEMMA WalkShape ==
  ASSUME Inv, WalkStep
  PROVE  \E s, f \in Lists : Shape(s, f) /\ Shape(s, f)'
<1> USE PoolAssumption
<1>0. PICK s \in Lists, f \in Lists : Shape(s, f)
  BY DEF Inv, IInv, Shape
<1>1. /\ next \in [WP -> WP \cup {NULL}] /\ head \in WP \cup {NULL}
      /\ IsList(next, head, s) /\ IsList(next, free_, f) /\ CursorShape(s, f)
  BY <1>0 DEF Inv, TypeOK, Shape
<1>2. head \in Nodes(s) \cup {NULL}
  BY <1>1, HeadFollow
<1>3. SUFFICES Shape(s, f)'
  BY <1>0
<1>4. CASE CmdWNoneFree
  <2>1. Len(f) = 0 /\ f = << >>
    BY <1>1, <1>4, EmptyList DEF CmdWNoneFree
  <2>2. SameLists /\ pc # "append" /\ pc' # "append" /\ CursorShape(s, f)'
    BY <1>4, <2>1 DEF CmdWNoneFree, SameLists, CursorShape
  <2> QED BY <1>0, <2>2, SameListsShape
<1>5. CASE AppendWalk
  <2>1. temp \in Nodes(s) /\ next[temp] # NULL /\ temp' = next[temp] /\ pc = "append"
    BY <1>1, <1>5 DEF AppendWalk, CursorShape
  <2>2. temp' \in Nodes(s)
    BY <1>1, <2>1, Follow
  <2>3. CursorShape(s, f)'
    BY <1>1, <1>5, <2>1, <2>2 DEF AppendWalk, CursorShape
  <2>4. PoolShape(s, f)'
    BY <1>0, <1>5 DEF AppendWalk, Shape, PoolShape, Pending
  <2> QED BY <1>1, <1>5, <2>3, <2>4 DEF AppendWalk, Shape
<1>6. ASSUME NEW i \in Indices, CmdD(i) PROVE Shape(s, f)'
  <2>1. SameLists /\ pc # "append" /\ pc' # "append" /\ CursorShape(s, f)'
    BY <1>2, <1>6 DEF CmdD, SameLists, CursorShape
  <2> QED BY <1>0, <2>1, SameListsShape
<1>7. CASE FindWalk
  <2>1. temp \in Nodes(s)
    BY <1>1, <1>7 DEF FindWalk, CursorShape
  <2>2. temp' \in Nodes(s) \cup {NULL}
    BY <1>1, <1>7, <2>1, Follow DEF FindWalk
  <2>3. SameLists /\ pc # "append" /\ pc' # "append" /\ CursorShape(s, f)'
    BY <1>7, <2>2 DEF FindWalk, SameLists, CursorShape
  <2> QED BY <1>0, <2>3, SameListsShape
<1>8. CASE FindMissing
  <2>1. SameLists /\ pc # "append" /\ pc' # "append" /\ CursorShape(s, f)'
    BY <1>8 DEF FindMissing, Return, SameLists, CursorShape
  <2> QED BY <1>0, <2>1, SameListsShape
<1>9. CASE FreeInner
  <2>1. temp \in Nodes(s) /\ temp # head /\ head \in Nodes(s) /\ temp' = head /\ wp' = temp
    <3>1. temp \in Nodes(s) /\ temp # head /\ temp' = head /\ wp' = temp
      BY <1>1, <1>9 DEF FreeInner, CursorShape
    <3>2. head # NULL
      <4>1. ASSUME head = NULL PROVE Nodes(s) = {}
        <5>1. Len(s) = 0
          BY <1>1, <4>1, EmptyList
        <5> QED BY <5>1 DEF Nodes
      <4> QED BY <3>1, <4>1
    <3> QED BY <1>2, <3>1, <3>2
  <2>2. Len(s) \in Nat /\ Len(s) > 0 /\ s[1] = head
    <3>1. head \in WP
      BY <1>1, <2>1, Follow
    <3> QED BY <1>1, <3>1, Pop
  <2>3. PICK j \in 1 .. Len(s) : temp = s[j]
    BY <2>1 DEF Nodes
  <2>4. j \in 1 + 1 .. Len(s) /\ 1 \in 1 .. Len(s)
    BY <2>1, <2>2, <2>3
  <2>5. temp' = s[1] /\ wp' = s[j]
    BY <2>1, <2>2, <2>3
  <2>6. \E k \in 1 .. Len(s) : \E m \in k + 1 .. Len(s) : temp' = s[k] /\ wp' = s[m]
    BY <2>4, <2>5
  <2>7. SameLists /\ pc # "append" /\ pc' = "unlink"
    BY <1>9 DEF FreeInner, SameLists
  <2>8. CursorShape(s, f)'
    BY <2>6, <2>7 DEF CursorShape
  <2> QED BY <1>0, <2>7, <2>8, SameListsShape
<1>10. CASE UnlinkWalk
  <2>1. Len(s) \in Nat
    BY ListsMember
  <2>2. PICK k \in 1 .. Len(s) : \E j \in k + 1 .. Len(s) : temp = s[k] /\ wp = s[j]
    BY <1>1, <1>10 DEF UnlinkWalk, CursorShape
  <2>3. PICK j \in k + 1 .. Len(s) : temp = s[k] /\ wp = s[j]
    BY <2>2
  <2>4. k + 1 \in 1 .. Len(s) /\ next[temp] = s[k + 1]
    BY <1>1, <2>1, <2>3 DEF IsList, At
  <2>5. j \in (k + 1) + 1 .. Len(s)
    <3>1. j # k + 1
      BY <1>10, <2>3, <2>4 DEF UnlinkWalk
    <3> QED BY <2>1, <2>3, <3>1
  <2>6. temp' = s[k + 1] /\ wp' = s[j]
    BY <1>10, <2>3, <2>4 DEF UnlinkWalk
  <2>7. \E m \in 1 .. Len(s) : \E l \in m + 1 .. Len(s) : temp' = s[m] /\ wp' = s[l]
    BY <2>4, <2>5, <2>6
  <2>8. SameLists /\ pc # "append" /\ pc' = "unlink"
    BY <1>10 DEF UnlinkWalk, SameLists
  <2>9. CursorShape(s, f)'
    BY <2>7, <2>8 DEF CursorShape
  <2> QED BY <1>0, <2>8, <2>9, SameListsShape
<1>11. CASE CheckStart
  <2>1. SameLists /\ pc # "append" /\ pc' # "append" /\ CursorShape(s, f)'
    BY <1>2, <1>11 DEF CheckStart, SameLists, CursorShape
  <2> QED BY <1>0, <2>1, SameListsShape
<1>12. ASSUME NEW v \in Values, CheckOne(v) PROVE Shape(s, f)'
  <2>1. temp \in Nodes(s)
    BY <1>1, <1>12 DEF CheckOne, CursorShape
  <2>2. temp' \in Nodes(s) \cup {NULL}
    BY <1>1, <1>12, <2>1, Follow DEF CheckOne
  <2>3. SameLists /\ pc # "append" /\ pc' # "append" /\ CursorShape(s, f)'
    BY <1>12, <2>2 DEF CheckOne, SameLists, CursorShape
  <2> QED BY <1>0, <2>3, SameListsShape
<1>13. CASE CheckEnd
  <2>1. SameLists /\ pc # "append" /\ pc' # "append" /\ CursorShape(s, f)'
    BY <1>13 DEF CheckEnd, Return, SameLists, CursorShape
  <2> QED BY <1>0, <2>1, SameListsShape
<1> QED BY <1>4, <1>5, <1>6, <1>7, <1>8, <1>9, <1>10, <1>11, <1>12, <1>13 DEF WalkStep

-----------------------------------------------------------------------------
(* The invariant holds for every size of the pool                          *)

LEMMA NextCases ==
  ASSUME Next
  PROVE  \/ \E e \in Exprs, v \in Values : CmdWFirst(e, v)
         \/ \E e \in Exprs, v \in Values : CmdWAppend(e, v)
         \/ AppendLink \/ FreeHead \/ UnlinkLink \/ WalkStep
BY DEF Next, Command, HandlerStep, WalkStep

LEMMA IInvStep == Inv /\ Next => IInv'
<1> SUFFICES ASSUME Inv, Next PROVE \E s, f \in Lists : Shape(s, f)'
  BY DEF Shape, IInv
<1>1. ASSUME NEW e \in Exprs, NEW v \in Values, CmdWFirst(e, v)
      PROVE  \E s, f \in Lists : Shape(s, f)'
  BY <1>1, CmdWFirstShape
<1>2. ASSUME NEW e \in Exprs, NEW v \in Values, CmdWAppend(e, v)
      PROVE  \E s, f \in Lists : Shape(s, f)'
  BY <1>2, CmdWAppendShape
<1>3. CASE AppendLink
  BY <1>3, AppendLinkShape
<1>4. CASE FreeHead
  BY <1>4, FreeHeadShape
<1>5. CASE UnlinkLink
  BY <1>5, UnlinkLinkShape
<1>6. CASE WalkStep
  BY <1>6, WalkShape
<1> QED BY <1>1, <1>2, <1>3, <1>4, <1>5, <1>6, NextCases

\* The cursor is a node whenever a walk follows its link.
LEMMA CursorType ==
  ASSUME Inv
  PROVE  /\ pc = "append" => /\ temp \in WP /\ wp \in WP
                             /\ req.expression \in Exprs /\ req.value \in Values
         /\ pc = "unlink" => temp \in WP /\ wp \in WP
<1>1. PICK s \in Lists, f \in Lists : Shape(s, f)
  BY DEF Inv, IInv, Shape
<1>2. s \in [1 .. Len(s) -> WP] /\ Len(s) \in Nat
  BY ListsMember
<1> QED BY <1>1, <1>2 DEF Shape, CursorShape, Nodes

LEMMA TypeStep == Inv /\ Next => TypeOK'
<1> SUFFICES ASSUME Inv, Next PROVE TypeOK'
  OBVIOUS
<1> USE PoolAssumption DEF TypeOK, Inv
<1>1. ASSUME NEW e \in Exprs, NEW v \in Values, CmdWFirst(e, v) PROVE TypeOK'
  BY <1>1 DEF CmdWFirst, Fill, locals
<1>2. ASSUME NEW e \in Exprs, NEW v \in Values, CmdWAppend(e, v) PROVE TypeOK'
  BY <1>2 DEF CmdWAppend, fields
<1>3. CASE AppendLink
  <2>1. temp \in WP /\ wp \in WP /\ req.expression \in Exprs /\ req.value \in Values
    BY <1>3, CursorType DEF AppendLink
  <2> QED BY <1>3, <2>1 DEF AppendLink, Fill, Return, NoReq
<1>4. CASE FreeHead
  BY <1>4 DEF FreeHead, Return, NoReq, fields
<1>5. CASE UnlinkLink
  <2>1. temp \in WP /\ wp \in WP
    BY <1>5, CursorType DEF UnlinkLink
  <2> QED BY <1>5, <2>1 DEF UnlinkLink, Return, NoReq, fields
<1>6. CASE WalkStep
  <2>1. pc \in {"append", "unlink"} => temp \in WP
    BY CursorType
  <2>2. CASE CmdWNoneFree
    BY <2>2 DEF CmdWNoneFree, fields
  <2>3. CASE AppendWalk
    BY <2>1, <2>3 DEF AppendWalk, fields
  <2>4. ASSUME NEW i \in Indices, CmdD(i) PROVE TypeOK'
    BY <2>4 DEF CmdD, fields
  <2>5. CASE FindWalk
    BY <2>5 DEF FindWalk, fields
  <2>6. CASE FindMissing
    BY <2>6 DEF FindMissing, Return, NoReq, fields
  <2>7. CASE FreeInner
    BY <2>7 DEF FreeInner, fields
  <2>8. CASE UnlinkWalk
    BY <2>1, <2>8 DEF UnlinkWalk, fields
  <2>9. CASE CheckStart
    BY <2>9 DEF CheckStart, fields
  <2>10. ASSUME NEW v \in Values, CheckOne(v) PROVE TypeOK'
    BY <2>10 DEF CheckOne
  <2>11. CASE CheckEnd
    BY <2>11 DEF CheckEnd, Return, NoReq, fields
  <2> QED BY <1>6, <2>2, <2>3, <2>4, <2>5, <2>6, <2>7, <2>8, <2>9, <2>10, <2>11 DEF WalkStep
<1> QED BY <1>1, <1>2, <1>3, <1>4, <1>5, <1>6, NextCases

\* Stuttering changes neither.
LEMMA InvStutter == Inv /\ UNCHANGED vars => Inv'
<1> SUFFICES ASSUME Inv, UNCHANGED vars PROVE Inv'
  OBVIOUS
<1>1. TypeOK'
  BY DEF vars, Inv, TypeOK
<1>2. PICK s \in Lists, f \in Lists : Shape(s, f)
  BY DEF Inv, IInv, Shape
<1>3. Shape(s, f)'
  BY <1>2 DEF vars, Shape, PoolShape, CursorShape, Pending
<1>4. IInv'
  BY <1>3 DEF Shape, IInv
<1> QED BY <1>1, <1>4 DEF Inv

LEMMA SpecInv == Spec => []Inv
<1>1. Init => Inv
  BY InitInv
<1>2. Inv /\ [Next]_vars => Inv'
  BY IInvStep, TypeStep, InvStutter DEF Inv
<1> QED BY <1>1, <1>2, PTL DEF Spec

\* In every reachable state the pointers are nodes of the pool or NULL, and a
\* walk of watchpoint.c or ui.c never follows the link of NULL.
THEOREM TypeCorrect == Spec => []TypeOK
BY SpecInv, PTL DEF Inv

\* The links always form the two lists described by IInv.
THEOREM ShapeCorrect == Spec => []IInv
BY SpecInv, PTL DEF Inv

LEMMA InvAbort == Inv => AbortOnlyWhenFull
<1> SUFFICES ASSUME Inv, pc = "aborted" PROVE Nodes(Live) = WP
  BY DEF AbortOnlyWhenFull
<1>1. PICK s \in Lists, f \in Lists : Shape(s, f)
  BY DEF Inv, IInv, Shape
<1>2. IsList(next, head, s) /\ IsList(next, free_, f)
  BY <1>1 DEF Shape
<1>3. Live = s /\ Free = f
  BY <1>2, ListFromIs DEF Live, Free
<1>4. Nodes(s) \subseteq WP /\ Nodes(f) \subseteq WP
  BY ListsMember DEF Nodes
<1>5. Pending = {}
  BY DEF Pending
<1>6. Nodes(f) = {}
  <2>1. f = << >>
    BY <1>1 DEF Shape, CursorShape
  <2> QED BY <2>1 DEF Nodes
<1> QED BY <1>1, <1>3, <1>4, <1>5, <1>6 DEF Shape, PoolShape

\* new_wp's assert(0) is reached only when all NR_WP watchpoints are set.
THEOREM AbortCorrect == Spec => []AbortOnlyWhenFull
BY SpecInv, InvAbort, PTL

-----------------------------------------------------------------------------
(* The pool implements WatchpointList                                      *)

LEMMA AbstractInit == Init => Abstract!Init
<1> SUFFICES ASSUME Init PROVE Abstract!Init
  OBVIOUS
<1> USE PoolAssumption
<1> DEFINE f == [i \in 1 .. NR_WP |-> i - 1]
<1>1. Inv
  BY InitInv
<1>2. f \in Lists /\ Len(f) = NR_WP
  <2>1. f \in [1 .. NR_WP -> WP] /\ \A i, j \in 1 .. NR_WP : f[i] = f[j] => i = j
    BY DEF WP
  <2> HIDE DEF f
  <2> QED BY <2>1, ListsIntro
<1>3. IsList(next, free_, f)
  <2>1. \A i \in 1 .. NR_WP : next[f[i]] = IF i < NR_WP THEN f[i + 1] ELSE NULL
    BY DEF Init, WP
  <2>2. f[1] = free_
    BY DEF Init
  <2> HIDE DEF f
  <2> QED BY <1>2, <2>1, <2>2 DEF IsList, At
<1>4. Free = f
  <2> HIDE DEF f
  <2> QED BY <1>2, <1>3, ListFromIs DEF Free
<1>5. Live = << >>
  <2>1. PICK s \in Lists : IsList(next, head, s)
    BY <1>1 DEF Inv, IInv
  <2>2. s = << >>
    BY <1>1, <2>1, EmptyList DEF Init, Inv, TypeOK
  <2> QED BY <2>1, <2>2, ListFromIs DEF Live
<1>6. pc = "idle" /\ Abstract!WP = WP
  BY DEF Init, Abstract!WP, WP
<1> QED BY <1>4, <1>5, <1>6 DEF Init, Abstract!Init, Spare

\* The mapped lists, when the shape of the links is known.
LEMMA MapLists ==
  ASSUME NEW s \in Lists, NEW f \in Lists, Shape(s, f)
  PROVE  Live = s /\ Free = f
BY ListFromIs DEF Shape, Live, Free

LEMMA MapLists2 ==
  ASSUME NEW s \in Lists, NEW f \in Lists, Shape(s, f)'
  PROVE  Live' = s /\ Free' = f
<1>1. IsList(next', head', s) /\ IsList(next', free_', f)
  BY DEF Shape
<1>2. ListFrom(next', head') = s /\ ListFrom(next', free_') = f
  BY <1>1, ListFromIs
<1> QED BY <1>2 DEF Live, Free

\* Taking the first element off and putting it back, and the other way round.
LEMMA PushedWithout ==
  ASSUME NEW f \in Lists, f # << >>
  PROVE  Pushed(f[1], Without(f, 1)) = f
<1>1. Len(f) \in Nat /\ f \in [1 .. Len(f) -> WP]
  BY ListsMember
<1>2. Len(f) > 0
  BY <1>1
<1> DEFINE n == Len(f)
           r == Without(f, 1)
           q == Pushed(f[1], r)
<1>3. Len(r) = n - 1 /\ \A i \in 1 .. n - 1 : r[i] = f[i + 1]
  BY <1>1, <1>2 DEF Without
<1>4. q = [i \in 1 .. n |-> IF i = 1 THEN f[1] ELSE r[i - 1]]
  <2>1. (n - 1) + 1 = n
    BY <1>1
  <2> HIDE DEF r
  <2> QED BY <1>3, <2>1 DEF Pushed
<1>5. \A i \in 1 .. n : (IF i = 1 THEN f[1] ELSE r[i - 1]) = f[i]
  <2> HIDE DEF r
  <2> QED BY <1>1, <1>3
<1> HIDE DEF q
<1>6. q = f
  BY <1>1, <1>4, <1>5
<1> QED BY <1>6 DEF q

LEMMA WithoutPushed ==
  ASSUME NEW f \in Lists, NEW p \in WP
  PROVE  /\ Pushed(p, f)[1] = p /\ Pushed(p, f) # << >>
         /\ Without(Pushed(p, f), 1) = f
<1>1. Len(f) \in Nat /\ f \in [1 .. Len(f) -> WP]
  BY ListsMember
<1> DEFINE n == Len(f)
           r == Pushed(p, f)
<1>2. Len(r) = n + 1 /\ r[1] = p /\ \A i \in 2 .. n + 1 : r[i] = f[i - 1]
  BY <1>1 DEF Pushed
<1>3. r # << >>
  <2>1. n + 1 > 0
    BY <1>1
  <2> HIDE DEF r
  <2> QED BY <1>2, <2>1
<1>4. Without(r, 1) = [i \in 1 .. n |-> r[i + 1]]
  <2>1. (n + 1) - 1 = n
    BY <1>1
  <2>2. Len(r) - 1 = n
    BY <1>2, <2>1
  <2> HIDE DEF r
  <2> QED BY <2>2 DEF Without
<1>5. \A i \in 1 .. n : r[i + 1] = f[i]
  BY <1>1, <1>2
<1>6. Without(r, 1) = f
  <2> HIDE DEF r
  <2> QED BY <1>1, <1>4, <1>5
<1> QED BY <1>2, <1>3, <1>6

\* A step that changes neither list nor any field a user sees is a stutter of
\* WatchpointList.
LEMMA AbstractStutter ==
  ASSUME Live' = Live, Spare' = Spare, UNCHANGED fields,
         (pc' = "aborted") <=> (pc = "aborted")
  PROVE  UNCHANGED Abstract!vars
BY DEF Abstract!vars, Spare, fields

LEMMA AbstractSet ==
  ASSUME NEW e \in Exprs, NEW v \in Values,
         pc # "aborted", pc' # "aborted", Spare # << >>,
         Live' = Added(Live, Spare[1]), Spare' = Without(Spare, 1),
         expression' = [expression EXCEPT ![Spare[1]] = e],
         value' = [value EXCEPT ![Spare[1]] = v]
  PROVE  Abstract!Next
<1>1. (pc = "aborted")' = (pc = "aborted")
  OBVIOUS
<1>2. Live' = Abstract!Added(Live, Spare[1]) /\ Spare' = Abstract!Without(Spare, 1)
  BY DEF Abstract!Added, Added, Abstract!Without, Without
<1>3. Abstract!Set(e, v)
  BY <1>1, <1>2 DEF Abstract!Set
<1> QED BY <1>3 DEF Abstract!Next

LEMMA AbstractDelete ==
  ASSUME NEW k \in 1 .. Len(Live),
         pc # "aborted", pc' # "aborted",
         Live' = Without(Live, k), Spare' = Pushed(Live[k], Spare),
         UNCHANGED fields
  PROVE  Abstract!Next
<1>1. (pc = "aborted")' = (pc = "aborted")
  OBVIOUS
<1>2. Live' = Abstract!Without(Live, k) /\ Spare' = Abstract!Pushed(Live[k], Spare)
  BY DEF Abstract!Pushed, Pushed, Abstract!Without, Without
<1>3. Abstract!Delete(k)
  BY <1>1, <1>2 DEF Abstract!Delete, fields
<1> QED BY <1>3 DEF Abstract!Next

LEMMA AbstractStep == Inv /\ Inv' /\ Next => Abstract!Next \/ UNCHANGED Abstract!vars
<1> SUFFICES ASSUME Inv, Inv', Next PROVE Abstract!Next \/ UNCHANGED Abstract!vars
  OBVIOUS
<1> USE PoolAssumption
<1>1. ASSUME NEW e \in Exprs, NEW v \in Values, CmdWFirst(e, v)
      PROVE  Abstract!Next
  <2>1. PICK s \in Lists, f \in Lists, s2 \in Lists, f2 \in Lists :
          /\ Shape(s, f) /\ Shape(s2, f2)' /\ f # << >> /\ free_ = f[1]
          /\ s2 = Added(s, free_) /\ f2 = Without(f, 1)
    BY <1>1, CmdWFirstShape
  <2>2. Live = s /\ Free = f /\ Live' = s2 /\ Free' = f2
    BY <2>1, MapLists, MapLists2
  <2>3. pc = "idle" /\ pc' = "idle"
    BY <1>1 DEF CmdWFirst, locals
  <2>4. Spare = f /\ Spare' = f2
    BY <2>2, <2>3 DEF Spare
  <2>5. /\ expression' = [expression EXCEPT ![Spare[1]] = e]
        /\ value' = [value EXCEPT ![Spare[1]] = v]
    BY <1>1, <2>1, <2>4 DEF CmdWFirst, Fill
  <2>6. Live' = Added(Live, Spare[1]) /\ Spare' = Without(Spare, 1) /\ Spare # << >>
    BY <2>1, <2>2, <2>4
  <2> QED BY <2>3, <2>5, <2>6, AbstractSet
<1>2. ASSUME NEW e \in Exprs, NEW v \in Values, CmdWAppend(e, v)
      PROVE  UNCHANGED Abstract!vars
  <2>1. PICK s \in Lists, f \in Lists, f2 \in Lists :
          /\ Shape(s, f) /\ Shape(s, f2)'
          /\ f # << >> /\ free_ = f[1] /\ f2 = Without(f, 1)
    BY <1>2, CmdWAppendShape
  <2>2. Live = s /\ Free = f /\ Live' = s /\ Free' = f2
    BY <2>1, MapLists, MapLists2
  <2>3. pc = "idle" /\ pc' = "append" /\ wp' = free_ /\ UNCHANGED fields
    BY <1>2 DEF CmdWAppend
  <2>4. Spare = f /\ Spare' = Pushed(f[1], Without(f, 1))
    BY <2>1, <2>2, <2>3 DEF Spare
  <2>5. Spare' = Spare
    BY <2>1, <2>4, PushedWithout
  <2> QED BY <2>2, <2>3, <2>5, AbstractStutter
<1>3. CASE AppendLink
  <2>1. PICK s \in Lists, f \in Lists, s2 \in Lists :
          Shape(s, f) /\ Shape(s2, f)' /\ s2 = Added(s, wp)
    BY <1>3, AppendLinkShape
  <2>2. Live = s /\ Free = f /\ Live' = s2 /\ Free' = f
    BY <2>1, MapLists, MapLists2
  <2>3. /\ pc = "append" /\ pc' = "idle"
        /\ expression' = [expression EXCEPT ![wp] = req.expression]
        /\ value' = [value EXCEPT ![wp] = req.value]
    BY <1>3 DEF AppendLink, Return, Fill
  <2>4. wp \in WP /\ req.expression \in Exprs /\ req.value \in Values
    BY <2>3, CursorType
  <2>5. Spare = Pushed(wp, f) /\ Spare' = f
    BY <2>2, <2>3 DEF Spare
  <2>6. Spare[1] = wp /\ Spare # << >> /\ Spare' = Without(Spare, 1)
    BY <2>4, <2>5, WithoutPushed
  <2>7. Live' = Added(Live, Spare[1])
    BY <2>1, <2>2, <2>6
  <2>8. /\ expression' = [expression EXCEPT ![Spare[1]] = req.expression]
        /\ value' = [value EXCEPT ![Spare[1]] = req.value]
    BY <2>3, <2>6
  <2> QED BY <2>3, <2>4, <2>6, <2>7, <2>8, AbstractSet
<1>4. CASE FreeHead
  <2>1. PICK s \in Lists, f \in Lists, s2 \in Lists, f2 \in Lists :
          /\ Shape(s, f) /\ Shape(s2, f2)' /\ Len(s) \in Nat /\ Len(s) > 0
          /\ s2 = Without(s, 1) /\ f2 = Pushed(s[1], f)
    BY <1>4, FreeHeadShape
  <2>2. Live = s /\ Free = f /\ Live' = s2 /\ Free' = f2
    BY <2>1, MapLists, MapLists2
  <2>3. pc = "find" /\ pc' = "idle" /\ UNCHANGED fields
    BY <1>4 DEF FreeHead, Return
  <2>4. Spare = f /\ Spare' = f2
    BY <2>2, <2>3 DEF Spare
  <2>5. 1 \in 1 .. Len(Live)
    BY <2>1, <2>2
  <2>6. Live' = Without(Live, 1) /\ Spare' = Pushed(Live[1], Spare)
    BY <2>1, <2>2, <2>4
  <2> QED BY <2>3, <2>5, <2>6, AbstractDelete
<1>5. CASE UnlinkLink
  <2>1. PICK s \in Lists, f \in Lists, s2 \in Lists, f2 \in Lists :
          \E k \in 1 .. Len(s) :
            /\ Shape(s, f) /\ Shape(s2, f2)' /\ k + 1 \in 1 .. Len(s)
            /\ s2 = Without(s, k + 1) /\ f2 = Pushed(s[k + 1], f)
    BY <1>5, UnlinkLinkShape
  <2>2. PICK j \in 1 .. Len(s) : s2 = Without(s, j) /\ f2 = Pushed(s[j], f)
    BY <2>1
  <2>3. Live = s /\ Free = f /\ Live' = s2 /\ Free' = f2
    BY <2>1, MapLists, MapLists2
  <2>4. pc = "unlink" /\ pc' = "idle" /\ UNCHANGED fields
    BY <1>5 DEF UnlinkLink, Return
  <2>5. Spare = f /\ Spare' = f2
    BY <2>3, <2>4 DEF Spare
  <2>6. j \in 1 .. Len(Live) /\ Live' = Without(Live, j) /\ Spare' = Pushed(Live[j], Spare)
    BY <2>2, <2>3, <2>5
  <2> QED BY <2>4, <2>6, AbstractDelete
<1>6. CASE WalkStep
  <2>1. PICK s \in Lists, f \in Lists : Shape(s, f) /\ Shape(s, f)'
    BY <1>6, WalkShape
  <2>2. Live = s /\ Free = f /\ Live' = s /\ Free' = f
    BY <2>1, MapLists, MapLists2
  <2>3. CASE CmdWNoneFree
    <3>1. pc = "idle" /\ pc' = "aborted" /\ UNCHANGED fields
      BY <2>3 DEF CmdWNoneFree
    <3>2. f = << >>
      BY <2>1, <3>1 DEF Shape, CursorShape
    <3>3. Spare = << >> /\ Spare' = Spare
      BY <2>2, <3>1, <3>2 DEF Spare
    <3>4. Abstract!Exhausted
      BY <2>2, <3>1, <3>3 DEF Abstract!Exhausted, fields
    <3> QED BY <3>4 DEF Abstract!Next
  <2>4. ASSUME NEW v \in Values, CheckOne(v) PROVE Abstract!Next
    <3>1. /\ pc = "check" /\ pc' = "check" /\ temp # NULL /\ expression' = expression
          /\ value' = [value EXCEPT ![temp] = v]
      BY <2>4 DEF CheckOne
    <3>2. temp \in Nodes(s)
      BY <2>1, <3>1 DEF Shape, CursorShape
    <3>3. PICK k \in 1 .. Len(Live) : temp = Live[k]
      BY <2>2, <3>2 DEF Nodes
    <3>4. Live' = Live /\ Spare' = Spare
      BY <2>2, <3>1 DEF Spare
    <3>5. (pc = "aborted")' = (pc = "aborted")
      BY <3>1
    <3>6. value' = [value EXCEPT ![Live[k]] = v]
      BY <3>1, <3>3
    <3>7. Abstract!Refresh(k, v)
      BY <3>1, <3>4, <3>5, <3>6 DEF Abstract!Refresh
    <3> QED BY <3>7 DEF Abstract!Next
  <2>5. CASE AppendWalk
    <3>1. pc = "append" /\ pc' = "append" /\ wp' = wp /\ UNCHANGED fields
      BY <2>5 DEF AppendWalk
    <3>2. Spare' = Spare
      BY <2>2, <3>1 DEF Spare
    <3> QED BY <2>2, <3>1, <3>2, AbstractStutter
  <2>6. CASE (\E i \in Indices : CmdD(i)) \/ FindWalk \/ FindMissing \/ FreeInner
             \/ UnlinkWalk \/ CheckStart \/ CheckEnd
    <3>1. /\ pc \notin {"append", "aborted"} /\ pc' \notin {"append", "aborted"}
          /\ UNCHANGED fields
      BY <2>6 DEF CmdD, FindWalk, FindMissing, FreeInner, UnlinkWalk, CheckStart,
                  CheckEnd, Return
    <3>2. Spare' = Spare
      BY <2>2, <3>1 DEF Spare
    <3> QED BY <2>2, <3>1, <3>2, AbstractStutter
  <2> QED BY <1>6, <2>3, <2>4, <2>5, <2>6 DEF WalkStep
<1> QED BY <1>1, <1>2, <1>3, <1>4, <1>5, <1>6, NextCases

\* Every behaviour of the linked lists is a behaviour of WatchpointList.
THEOREM PoolImplementsList == Spec => ImplementsList
<1>1. Init => Abstract!Init
  BY AbstractInit
<1>2. Inv /\ Inv' /\ [Next]_vars => [Abstract!Next]_Abstract!vars
  <2> SUFFICES ASSUME Inv, Inv', [Next]_vars PROVE [Abstract!Next]_Abstract!vars
    OBVIOUS
  <2>1. CASE Next
    BY <2>1, AbstractStep
  <2>2. CASE UNCHANGED vars
    BY <2>2 DEF vars, Abstract!vars, Live, Spare, Free, ListFrom, IsList
  <2> QED BY <2>1, <2>2
<1> QED BY <1>1, <1>2, SpecInv, PTL DEF Spec, Abstract!Spec, ImplementsList
=============================================================================
