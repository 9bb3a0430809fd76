--------------------------- MODULE WatchpointPool ---------------------------
(***************************************************************************)
(* The watchpoint pool of nemu/src/monitor/debug/watchpoint.c, with the    *)
(* commands of ui.c and the loop of cpu_exec that use it.  The 32 WP       *)
(* structs are linked into two lists, head (set) and free_; setting one    *)
(* walks to the end of head, deleting one searches for its number and then *)
(* walks to its predecessor.  Each iteration of a walk is a step, so that  *)
(* what the walks rely on (the list ends, the node is on it) is checked.   *)
(***************************************************************************)
EXTENDS SeqOps

CONSTANTS NR_WP,    \* the size of wp_pool
          NULL,     \* the null pointer
          Exprs,    \* the expressions a user watches
          NoExpr,   \* the expression of a slot that was never used
          Values,   \* what an expression may evaluate to
          Indices   \* the numbers a user passes to the d command

\* Pointers into wp_pool are indices; init_wp_pool gives node i the NO i,
\* which is never written again, so NO of node p is p.
WP == 0 .. NR_WP - 1

ASSUME PoolAssumption ==
  /\ NR_WP \in Nat \ {0}
  /\ NULL \notin WP
  /\ Values # {} /\ NULL \notin Values
  /\ Indices \subseteq Int

VARIABLES
  head, free_,        \* the two lists
  next,               \* [WP -> WP or NULL], the next fields
  expression, value,  \* the fields the debugger fills in
  pc,                 \* which handler is running, and where it is
  temp,               \* the local cursor of its walk
  wp,                 \* the node it is about
  req                 \* cmd_w's expression and value, cmd_d's index

vars == <<head, free_, next, expression, value, pc, temp, wp, req>>
locals == <<pc, temp, wp, req>>
fields == <<expression, value>>

NoReq == [expression |-> NoExpr, value |-> NULL, index |-> NULL]

\* wp_pool is a static array: its fields start at zero, all equal.
Init ==
  /\ next = [p \in WP |-> IF p = NR_WP - 1 THEN NULL ELSE p + 1]
  /\ head = NULL /\ free_ = 0
  /\ expression = [p \in WP |-> NoExpr]
  /\ \E v \in Values : value = [p \in WP |-> v]
  /\ pc = "idle" /\ temp = NULL /\ wp = NULL /\ req = NoReq

Return == pc' = "idle" /\ temp' = NULL /\ wp' = NULL /\ req' = NoReq

-----------------------------------------------------------------------------
(* cmd_w: new_wp, then the expression and its value are stored in the node *)

Fill(p, e, v) ==
  /\ expression' = [expression EXCEPT ![p] = e]
  /\ value' = [value EXCEPT ![p] = v]

CmdWFirst(e, v) ==
  /\ pc = "idle" /\ free_ # NULL /\ head = NULL
  /\ head' = free_
  /\ free_' = next[free_]
  /\ next' = [next EXCEPT ![free_] = NULL]
  /\ Fill(free_, e, v)
  /\ UNCHANGED locals

CmdWAppend(e, v) ==
  /\ pc = "idle" /\ free_ # NULL /\ head # NULL
  /\ pc' = "append" /\ wp' = free_ /\ temp' = head
  /\ req' = [expression |-> e, value |-> v, index |-> NULL]
  /\ free_' = next[free_]
  /\ UNCHANGED <<head, next, fields>>

CmdWNoneFree ==
  /\ pc = "idle" /\ free_ = NULL
  /\ pc' = "aborted"
  /\ UNCHANGED <<head, free_, next, fields, temp, wp, req>>

AppendWalk ==
  /\ pc = "append" /\ next[temp] # NULL
  /\ temp' = next[temp]
  /\ UNCHANGED <<head, free_, next, fields, pc, wp, req>>

\* Variant: the new node goes in front of the list.
AppendInFront ==
  /\ pc = "append" /\ next[temp] = NULL
  /\ head' = wp
  /\ next' = [next EXCEPT ![wp] = head]
  /\ Fill(wp, req.expression, req.value)
  /\ Return
  /\ UNCHANGED free_

AppendLink ==
  /\ pc = "append" /\ next[temp] = NULL
  /\ next' = [next EXCEPT ![temp] = wp, ![wp] = NULL]
  /\ Fill(wp, req.expression, req.value)
  /\ Return
  /\ UNCHANGED <<head, free_>>

-----------------------------------------------------------------------------
(* cmd_d: look for the node with that number, then free_wp                 *)

CmdD(i) ==
  /\ pc = "idle"
  /\ pc' = "find" /\ temp' = head /\ req' = [expression |-> NoExpr, value |-> NULL, index |-> i]
  /\ UNCHANGED <<head, free_, next, fields, wp>>

FindWalk ==
  /\ pc = "find" /\ temp # NULL /\ temp # req.index
  /\ temp' = next[temp]
  /\ UNCHANGED <<head, free_, next, fields, pc, wp, req>>

\* Variant: the search starts again when it reaches the end.
FindAround ==
  /\ pc = "find" /\ temp = NULL
  /\ temp' = head
  /\ UNCHANGED <<head, free_, next, fields, pc, wp, req>>

FindMissing ==
  /\ pc = "find" /\ temp = NULL
  /\ Return
  /\ UNCHANGED <<head, free_, next, fields>>

FreeHead ==
  /\ pc = "find" /\ temp # NULL /\ temp = req.index /\ temp = head
  /\ head' = next[head]
  /\ free_' = head
  /\ next' = [next EXCEPT ![head] = free_]
  /\ Return
  /\ UNCHANGED fields

FreeInner ==
  /\ pc = "find" /\ temp # NULL /\ temp = req.index /\ temp # head
  /\ pc' = "unlink" /\ wp' = temp /\ temp' = head
  /\ UNCHANGED <<head, free_, next, fields, req>>

UnlinkWalk ==
  /\ pc = "unlink" /\ next[temp] # wp
  /\ temp' = next[temp]
  /\ UNCHANGED <<head, free_, next, fields, pc, wp, req>>

\* Variant: the last two assignments of free_wp in the other order.
UnlinkSwapped ==
  /\ pc = "unlink" /\ next[temp] = wp
  /\ free_' = wp
  /\ next' = [next EXCEPT ![wp] = free_, ![temp] = free_]
  /\ Return
  /\ UNCHANGED <<head, fields>>

UnlinkLink ==
  /\ pc = "unlink" /\ next[temp] = wp
  /\ free_' = wp
  /\ next' = [next EXCEPT ![temp] = next[wp], ![wp] = free_]
  /\ Return
  /\ UNCHANGED <<head, fields>>

-----------------------------------------------------------------------------
(* cpu_exec re-evaluates every watchpoint after an instruction             *)

CheckStart ==
  /\ pc = "idle"
  /\ pc' = "check" /\ temp' = head
  /\ UNCHANGED <<head, free_, next, fields, wp, req>>

CheckOne(v) ==
  /\ pc = "check" /\ temp # NULL
  /\ value' = [value EXCEPT ![temp] = v]
  /\ temp' = next[temp]
  /\ UNCHANGED <<head, free_, next, expression, pc, wp, req>>

CheckEnd ==
  /\ pc = "check" /\ temp = NULL
  /\ Return
  /\ UNCHANGED <<head, free_, next, fields>>

-----------------------------------------------------------------------------
Command ==
  \/ \E e \in Exprs, v \in Values : CmdWFirst(e, v) \/ CmdWAppend(e, v)
  \/ CmdWNoneFree
  \/ \E i \in Indices : CmdD(i)
  \/ CheckStart

HandlerStep ==
  \/ AppendWalk \/ AppendLink
  \/ FindWalk \/ FindMissing \/ FreeHead \/ FreeInner
  \/ UnlinkWalk \/ UnlinkLink
  \/ \E v \in Values : CheckOne(v)
  \/ CheckEnd

Next == Command \/ HandlerStep

Spec == Init /\ [][Next]_vars

\* A handler runs until it returns; nobody has to type another command.
FairSpec == Spec /\ WF_vars(HandlerStep)
(***************************************************************************)
(* Properties                                                              *)
(***************************************************************************)

TypeOK ==
  /\ head \in WP \cup {NULL} /\ free_ \in WP \cup {NULL}
  /\ next \in [WP -> WP \cup {NULL}]
  /\ expression \in [WP -> Exprs \cup {NoExpr}]
  /\ value \in [WP -> Values]
  /\ pc \in {"idle", "append", "find", "unlink", "check", "aborted"}
  /\ temp \in WP \cup {NULL} /\ wp \in WP \cup {NULL}
  /\ req \in [expression : Exprs \cup {NoExpr}, value : Values \cup {NULL},
              index : Indices \cup {NULL}]

\* The sequence s is what following the links nx from p visits before NULL.
At(s, i) == IF i \in 1 .. Len(s) THEN s[i] ELSE NULL
IsList(nx, p, s) ==
  /\ At(s, 1) = p
  /\ \A i \in 1 .. Len(s) : nx[s[i]] = At(s, i + 1)

Lists == {s \in UNION {[1 .. n -> WP] : n \in 0 .. NR_WP} : Distinct(s)}

\* The list that starts at p, when the links do form one.
ListFrom(nx, p) == CHOOSE s \in Lists : IsList(nx, p, s)

Live == ListFrom(next, head)
Free == ListFrom(next, free_)
\* new_wp has taken its node off free_ and not linked it yet.
Pending == IF pc = "append" THEN {wp} ELSE {}

\* What the links look like between any two steps of the handlers: the two
\* lists have no node in common and hold, with the node being linked, the
\* whole pool; and where the cursor of a walk may be.
PoolShape(s, f) ==
  /\ Nodes(s) \cap Nodes(f) = {}
  /\ (Nodes(s) \cup Nodes(f)) \cap Pending = {}
  /\ WP \subseteq Nodes(s) \cup Nodes(f) \cup Pending
CursorShape(s, f) ==
  /\ pc = "append" => temp \in Nodes(s) /\ wp \in WP
                      /\ req.expression \in Exprs /\ req.value \in Values
  /\ pc \in {"find", "check"} => temp \in Nodes(s) \cup {NULL}
  /\ pc = "unlink" => \E k \in 1 .. Len(s) : \E j \in k + 1 .. Len(s) :
                        temp = s[k] /\ wp = s[j]
  /\ pc = "aborted" => f = << >>

IInv ==
  \E s \in Lists : /\ IsList(next, head, s)
                   /\ \E f \in Lists : /\ IsList(next, free_, f)
                                       /\ PoolShape(s, f)
                                       /\ CursorShape(s, f)

\* The assert(0) of new_wp (watchpoint.c:25) ends NEMU only when all NR_WP
\* watchpoints are set.
AbortOnlyWhenFull == pc = "aborted" => Nodes(Live) = WP

\* The node being linked counts as free until it is on the list.
Spare == IF pc = "append" THEN Pushed(wp, Free) ELSE Free

\* The pool does what WatchpointList says: w appends the node freed last, d
\* takes out the one it names and keeps the others in order, and no command
\* or re-evaluation touches the fields of another watchpoint.
Abstract == INSTANCE WatchpointList
              WITH live <- Live, spare <- Spare, aborted <- (pc = "aborted")
ImplementsList == Abstract!Spec

\* Every walk ends: a command that was given returns, or aborts.
HandlerReturns == (pc # "idle") ~> (pc \in {"idle", "aborted"})
=============================================================================
