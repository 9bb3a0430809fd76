------------------------------ MODULE KeyFifo ------------------------------
(***************************************************************************)
(* What the keyboard promises to the guest: a queue of key events, read in *)
(* the order they were sent, that holds at most Capacity of them.  One     *)
(* more stops the emulator; none is ever overwritten or read twice.        *)
(***************************************************************************)
EXTENDS SeqOps

CONSTANTS Events,    \* what send_key may enqueue
          KEY_NONE,  \* what the guest reads when there is nothing
          Capacity

VARIABLES pending,   \* the events sent and not yet read, oldest first
          port,      \* what the guest finds in the data register
          aborted    \* why the emulator stopped, or "no"

vars == <<pending, port, aborted>>

Init == pending = << >> /\ port = KEY_NONE /\ aborted = "no"

Send(k) ==
  /\ aborted = "no" /\ Len(pending) < Capacity
  /\ pending' = Added(pending, k)
  /\ UNCHANGED <<port, aborted>>

Overflow(k) ==
  /\ aborted = "no" /\ Len(pending) = Capacity
  /\ pending' = Added(pending, k)
  /\ aborted' = "overflow"
  /\ UNCHANGED port

Read ==
  /\ aborted = "no" /\ pending # << >>
  /\ port' = pending[1]
  /\ pending' = Without(pending, 1)
  /\ UNCHANGED aborted

ReadNone ==
  /\ aborted = "no" /\ pending = << >>
  /\ port' = KEY_NONE
  /\ UNCHANGED <<pending, aborted>>

BadAccess ==
  /\ aborted = "no"
  /\ aborted' = "access"
  /\ UNCHANGED <<pending, port>>

Next ==
  \/ \E k \in Events : Send(k) \/ Overflow(k)
  \/ Read \/ ReadNone \/ BadAccess

Spec == Init /\ [][Next]_vars
=============================================================================
