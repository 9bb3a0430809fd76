--------------------------- MODULE WatchpointList ---------------------------
(***************************************************************************)
(* What the watchpoint pool promises to the debugger: the watchpoints that *)
(* exist, in the order they were set, and the numbers that are still free, *)
(* the last one given back being the first one handed out again.           *)
(* WatchpointPool, with its linked lists and its walks, implements this.   *)
(***************************************************************************)
EXTENDS SeqOps

CONSTANTS NR_WP,    \* the size of the pool
          Exprs,    \* the expressions a user watches
          NoExpr,   \* the expression of a slot that was never used
          Values    \* what an expression may evaluate to

WP == 0 .. NR_WP - 1

VARIABLES live,        \* the watchpoints that are set, oldest first
          spare,       \* the numbers that are free, next one to use first
          expression,  \* [WP -> expression]
          value,       \* [WP -> the value last seen]
          aborted      \* a watchpoint was asked for and none was free

vars == <<live, spare, expression, value, aborted>>

Init ==
  /\ live = << >>
  /\ spare = [i \in 1 .. NR_WP |-> i - 1]
  /\ expression = [n \in WP |-> NoExpr]
  /\ \E v \in Values : value = [n \in WP |-> v]
  /\ aborted = FALSE

Set(e, v) ==
  /\ ~aborted /\ spare # << >>
  /\ live' = Added(live, spare[1])
  /\ spare' = Without(spare, 1)
  /\ expression' = [expression EXCEPT ![spare[1]] = e]
  /\ value' = [value EXCEPT ![spare[1]] = v]
  /\ UNCHANGED aborted

Exhausted ==
  /\ ~aborted /\ spare = << >>
  /\ aborted' = TRUE
  /\ UNCHANGED <<live, spare, expression, value>>

Delete(k) ==
  /\ ~aborted
  /\ live' = Without(live, k)
  /\ spare' = Pushed(live[k], spare)
  /\ UNCHANGED <<expression, value, aborted>>

Refresh(k, v) ==
  /\ ~aborted
  /\ value' = [value EXCEPT ![live[k]] = v]
  /\ UNCHANGED <<live, spare, expression, aborted>>

Next ==
  \/ \E e \in Exprs, v \in Values : Set(e, v)
  \/ Exhausted
  \/ \E k \in 1 .. Len(live) : Delete(k) \/ \E v \in Values : Refresh(k, v)

Spec == Init /\ [][Next]_vars
=============================================================================
