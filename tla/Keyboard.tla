------------------------------ MODULE Keyboard ------------------------------
(***************************************************************************)
(* The i8042 of nemu/src/device/keyboard.c: a ring of KEY_QUEUE_LEN slots  *)
(* that send_key fills from SDL's events and the data register empties,    *)
(* one event for each read.  One slot stays unused, since key_f = key_r is *)
(* how the code knows that the ring is empty.                              *)
(***************************************************************************)
EXTENDS SeqOps

CONSTANTS KEY_QUEUE_LEN,  \* 1024 in the code
          Scancodes,      \* what SDL reports, after truncation to uint8_t
          KEY_NONE,       \* _KEY_NONE, what an unmapped scancode maps to
          keymap          \* [Scancodes -> AM keys or KEY_NONE]

\* keymap[scancode] | KEYDOWN_MASK: every AM key is below 0x8000, so the pair
\* can be read back from the word.
Word(scancode, is_keydown) == <<keymap[scancode], is_keydown>>
Events == {Word(s, d) : s \in {c \in Scancodes : keymap[c] # KEY_NONE},
                        d \in BOOLEAN}

ASSUME KeyboardAssumption ==
  /\ KEY_QUEUE_LEN \in Nat \ {0, 1}
  /\ KEY_NONE \notin Events

Slots == 0 .. KEY_QUEUE_LEN - 1

VARIABLES key_queue, key_f, key_r,
          port,     \* i8042_data_port_base[0]
          nemu_state,  \* its state field
          aborted   \* the assertion that ended NEMU, or "no"

vars == <<key_queue, key_f, key_r, port, nemu_state, aborted>>
ring == <<key_queue, key_f, key_r>>

States == {"STOP", "RUNNING", "END", "ABORT"}
running == nemu_state = "RUNNING"

\* The static array is zero, which is _KEY_NONE.
Init ==
  /\ key_queue = [i \in Slots |-> KEY_NONE]
  /\ key_f = 0 /\ key_r = 0
  /\ port = KEY_NONE
  /\ nemu_state = "STOP"
  /\ aborted = "no"

-----------------------------------------------------------------------------
\* Variant: a full ring is not noticed.
SendUnchecked(scancode, is_keydown) ==
  /\ aborted = "no" /\ running /\ keymap[scancode] # KEY_NONE
  /\ key_queue' = [key_queue EXCEPT ![key_r] = Word(scancode, is_keydown)]
  /\ key_r' = (key_r + 1) % KEY_QUEUE_LEN
  /\ UNCHANGED <<key_f, port, nemu_state, aborted>>

SendKey(scancode, is_keydown) ==
  /\ aborted = "no" /\ running /\ keymap[scancode] # KEY_NONE
  /\ key_queue' = [key_queue EXCEPT ![key_r] = Word(scancode, is_keydown)]
  /\ key_r' = (key_r + 1) % KEY_QUEUE_LEN
  /\ aborted' = IF key_r' # key_f THEN "no" ELSE "overflow"
  /\ UNCHANGED <<key_f, port, nemu_state>>

SendIgnored(scancode) ==
  /\ aborted = "no" /\ (~running \/ keymap[scancode] = KEY_NONE)
  /\ UNCHANGED vars

\* Variant: the index runs on without wrapping to the first slot.
ReadUnwrapped ==
  /\ aborted = "no" /\ key_f # key_r
  /\ port' = key_queue[key_f]
  /\ key_f' = key_f + 1
  /\ UNCHANGED <<key_queue, key_r, nemu_state, aborted>>

\* i8042_data_io_handler, for a read at offset 0
ReadKey ==
  /\ aborted = "no" /\ key_f # key_r
  /\ port' = key_queue[key_f]
  /\ key_f' = (key_f + 1) % KEY_QUEUE_LEN
  /\ UNCHANGED <<key_queue, key_r, nemu_state, aborted>>

ReadNothing ==
  /\ aborted = "no" /\ key_f = key_r
  /\ port' = KEY_NONE
  /\ UNCHANGED <<ring, nemu_state, aborted>>

\* A write, or an access at another offset, fails an assertion.
BadAccess ==
  /\ aborted = "no"
  /\ aborted' = "access"
  /\ UNCHANGED <<ring, port, nemu_state>>

\* cpu_exec is entered or left, or an instruction ends the program.
SwitchState ==
  /\ aborted = "no"
  /\ nemu_state' \in States \ {nemu_state}
  /\ UNCHANGED <<ring, port, aborted>>

Next ==
  \/ \E s \in Scancodes : SendIgnored(s) \/ \E d \in BOOLEAN : SendKey(s, d)
  \/ ReadKey \/ ReadNothing \/ BadAccess
  \/ SwitchState

Spec == Init /\ [][Next]_vars

-----------------------------------------------------------------------------
(* Properties                                                              *)

TypeOK ==
  /\ key_queue \in [Slots -> Events \cup {KEY_NONE}]
  /\ key_f \in Slots /\ key_r \in Slots
  /\ port \in Events \cup {KEY_NONE}
  /\ nemu_state \in States
  /\ aborted \in {"no", "overflow", "access"}

\* The slots in use, counted from key_f.  After the failed Assert the ring
\* holds one event more than it can tell from an empty one.
Count ==
  IF aborted = "overflow" THEN KEY_QUEUE_LEN
  ELSE IF key_r >= key_f THEN key_r - key_f
  ELSE key_r - key_f + KEY_QUEUE_LEN
Slot(i) == IF key_f + i - 1 < KEY_QUEUE_LEN THEN key_f + i - 1
           ELSE key_f + i - 1 - KEY_QUEUE_LEN
Pending == [i \in 1 .. Count |-> key_queue[Slot(i)]]

\* Every slot between key_f and key_r holds an event that was sent: the guest
\* can not read a word that nobody stored (keyboard.c:52-54).
PendingSent == \A i \in 1 .. Count : key_queue[Slot(i)] \in Events

\* The ring is the bounded queue that KeyFifo describes.
Fifo == INSTANCE KeyFifo WITH pending <- Pending, Capacity <- KEY_QUEUE_LEN - 1
ImplementsFifo == Fifo!Spec
=============================================================================
