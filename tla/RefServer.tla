----------------------------- MODULE RefServer -----------------------------
(***************************************************************************)
(* What NEMU expects of a reference (diff-test.c calls it through four     *)
(* pointers): a call is a row of units of work, each done once, in order   *)
(* and at once; a call that returns has done all of them.                  *)
(***************************************************************************)
EXTENDS Integers, Sequences

CONSTANTS Calls,       \* the calls NEMU may make
          First,       \* and the one that sets the reference up
          Nothing,     \* no call
          Aborted,     \* the value of a call an assertion ended
          Units(_),    \* how many units a call has
          Do(_, _, _), \* the outcomes of unit number i of a call on a machine
          Value(_, _), \* what a call returns, given the machine
          Machines     \* the states the reference may start in

VARIABLES call,     \* the call in progress, or Nothing
          done,     \* units done
          machine,  \* the state of the reference
          value     \* what the last call returned, or Aborted

vars == <<call, done, machine, value>>

Init == call = First /\ done = 0 /\ machine \in Machines /\ value = Nothing

Call == /\ call = Nothing /\ value # Aborted /\ call' \in Calls
        /\ UNCHANGED <<done, machine, value>>

Serve == /\ call # Nothing /\ done < Units(call)
         /\ machine' \in Do(call, done, machine) /\ done' = done + 1
         /\ UNCHANGED <<call, value>>

Return == /\ call # Nothing /\ done = Units(call) /\ value' = Value(call, machine)
          /\ call' = Nothing /\ done' = 0 /\ UNCHANGED machine

\* An assertion on what the reference refused; it may come when part is done.
Abort == /\ call # Nothing /\ value' = Aborted
         /\ call' = Nothing /\ done' = 0 /\ UNCHANGED machine

Next == Call \/ Serve \/ Return \/ Abort

Spec == Init /\ [][Next]_vars
=============================================================================
