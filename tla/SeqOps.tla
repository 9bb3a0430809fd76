------------------------------- MODULE SeqOps -------------------------------
(***************************************************************************)
(* Sequences with an element put in front, added at the end or left out,   *)
(* and what they hold.  They are written index by index, the form in which *)
(* the provers use them, and without RECURSIVE, which they do not.         *)
(***************************************************************************)
EXTENDS Integers, Sequences

Pushed(n, s) == [i \in 1 .. Len(s) + 1 |-> IF i = 1 THEN n ELSE s[i - 1]]
Added(s, n) == [i \in 1 .. Len(s) + 1 |-> IF i = Len(s) + 1 THEN n ELSE s[i]]
Without(s, k) == [i \in 1 .. Len(s) - 1 |-> IF i < k THEN s[i] ELSE s[i + 1]]

\* What of s is in S, in its order.
Filtered(s, S) ==
  LET kept[n \in 0 .. Len(s)] == IF n = 0 THEN << >>
                                 ELSE IF s[n] \in S THEN Append(kept[n - 1], s[n]) ELSE kept[n - 1]
  IN kept[Len(s)]

Distinct(s) == \A i, j \in 1 .. Len(s) : s[i] = s[j] => i = j
Nodes(s) == {s[i] : i \in 1 .. Len(s)}
=============================================================================
