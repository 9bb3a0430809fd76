--------------------------- MODULE DevicesProofs ---------------------------
(***************************************************************************)
(* That the ring of the i8042 is a bounded queue, that the board drives it *)
(* as Keyboard says, and that the events on their way from the user to the *)
(* guest keep their order, get lost only where the code throws them away   *)
(* and are never invented.                                                 *)
(***************************************************************************)
EXTENDS Devices, NatLemmas, SequenceTheorems

\* The index of a ring is advanced modulo its length.
LEMMA Wrap ==
  ASSUME NEW i \in Slots
  PROVE  /\ (i + 1) % KEY_QUEUE_LEN = IF i = KEY_QUEUE_LEN - 1 THEN 0 ELSE i + 1
         /\ (i + 1) % KEY_QUEUE_LEN \in Slots
<1>1. CASE i = KEY_QUEUE_LEN - 1
  <2>1. (i + 1) % KEY_QUEUE_LEN = 0
    BY <1>1, KeyboardAssumption DEF Slots
  <2> QED BY <1>1, <2>1, KeyboardAssumption DEF Slots
<1>2. CASE i # KEY_QUEUE_LEN - 1
  <2>1. i + 1 < KEY_QUEUE_LEN /\ i + 1 \in Nat
    BY <1>2, KeyboardAssumption DEF Slots
  <2>2. (i + 1) % KEY_QUEUE_LEN = i + 1
    BY <2>1, KeyboardAssumption
  <2> QED BY <1>2, <2>1, <2>2, KeyboardAssumption DEF Slots
<1> QED BY <1>1, <1>2

\* After the overflow the indices meet.
RingInv == TypeOK /\ PendingSent /\ (aborted = "overflow" => key_r = key_f)

\* Where the events are: the next free slot is behind the last one in use.
LEMMA Places ==
  ASSUME TypeOK
  PROVE  /\ Count \in 0 .. KEY_QUEUE_LEN
         /\ aborted # "overflow" => Count < KEY_QUEUE_LEN
         /\ \A i \in 1 .. KEY_QUEUE_LEN : Slot(i) \in Slots
         /\ \A i, j \in 1 .. KEY_QUEUE_LEN : Slot(i) = Slot(j) => i = j
         /\ aborted # "overflow" => Slot(Count + 1) = key_r
         /\ Slot(1) = key_f
BY KeyboardAssumption DEF TypeOK, Slots, Count, Slot

LEMMA PendingLen ==
  ASSUME TypeOK
  PROVE  Len(Pending) = Count /\ \A i \in 1 .. Count : Pending[i] = key_queue[Slot(i)]
BY Places DEF Pending

\* send_key adds one event behind the others and touches none of them.
LEMMA SendPlaces ==
  ASSUME TypeOK, TypeOK', NEW s \in Scancodes, NEW d \in BOOLEAN, SendKey(s, d)
  PROVE  /\ Count' = Count + 1
         /\ \A i \in 1 .. Count : key_queue'[Slot(i)'] = key_queue[Slot(i)]
         /\ \A i : i = Count + 1 => key_queue'[Slot(i)'] = Word(s, d)
<1>1. /\ key_f' = key_f /\ aborted = "no" /\ key_f \in Slots /\ key_r \in Slots
      /\ key_queue' = [key_queue EXCEPT ![key_r] = Word(s, d)]
      /\ key_queue \in [Slots -> Events \cup {KEY_NONE}]
      /\ key_r' = (key_r + 1) % KEY_QUEUE_LEN
      /\ aborted' = IF key_r' # key_f THEN "no" ELSE "overflow"
  BY DEF SendKey, TypeOK
<1>2. key_r' = IF key_r = KEY_QUEUE_LEN - 1 THEN 0 ELSE key_r + 1
  BY <1>1, Wrap
<1>3. Count' = Count + 1
  BY <1>1, <1>2, KeyboardAssumption DEF Count, Slots
<1>4. \A i \in 1 .. KEY_QUEUE_LEN : Slot(i)' = Slot(i)
  BY <1>1 DEF Slot
<1>5. /\ Count \in 0 .. KEY_QUEUE_LEN - 1 /\ Slot(Count + 1) = key_r
      /\ \A i \in 1 .. Count : Slot(i) \in Slots /\ Slot(i) # key_r
  <2>1. Count \in 0 .. KEY_QUEUE_LEN - 1 /\ Slot(Count + 1) = key_r
    BY <1>1, Places, KeyboardAssumption
  <2>2. ASSUME NEW i \in 1 .. Count PROVE Slot(i) \in Slots /\ Slot(i) # key_r
    <3>1. i \in 1 .. KEY_QUEUE_LEN /\ Count + 1 \in 1 .. KEY_QUEUE_LEN /\ i # Count + 1
      BY <2>1, KeyboardAssumption
    <3> QED BY <2>1, <3>1, Places
  <2> QED BY <2>1, <2>2
<1>6. \A i \in 1 .. Count : Slot(i)' = Slot(i)
  BY <1>4, <1>5, KeyboardAssumption
<1>7. \A i : i = Count + 1 => key_queue'[Slot(i)'] = Word(s, d)
  <2> SUFFICES ASSUME NEW i, i = Count + 1 PROVE key_queue'[Slot(i)'] = Word(s, d)
    OBVIOUS
  <2>1. i \in 1 .. KEY_QUEUE_LEN /\ Slot(i) = key_r
    BY <1>5, KeyboardAssumption
  <2>2. Slot(i)' = Slot(i)
    BY <2>1, <1>4
  <2> QED BY <2>1, <2>2, <1>1
<1>8. \A i \in 1 .. Count : key_queue'[Slot(i)'] = key_queue[Slot(i)]
  BY <1>1, <1>5, <1>6
<1> QED BY <1>3, <1>7, <1>8

\* A read takes the oldest event; the others move one place nearer.
LEMMA ReadPlaces ==
  ASSUME TypeOK, ReadKey
  PROVE  /\ Count \in 1 .. KEY_QUEUE_LEN - 1
         /\ Count' = Count - 1
         /\ \A i \in 1 .. Count - 1 : key_queue'[Slot(i)'] = key_queue[Slot(i + 1)]
         /\ port' = key_queue[Slot(1)]
<1>1. /\ key_f \in Slots /\ key_r \in Slots /\ aborted = "no" /\ key_f # key_r
      /\ key_queue' = key_queue /\ key_r' = key_r /\ aborted' = aborted
      /\ key_f' = (key_f + 1) % KEY_QUEUE_LEN /\ port' = key_queue[key_f]
  BY DEF ReadKey, TypeOK
<1>2. key_f' = IF key_f = KEY_QUEUE_LEN - 1 THEN 0 ELSE key_f + 1
  BY <1>1, Wrap
<1>3. Count \in 1 .. KEY_QUEUE_LEN - 1
  BY <1>1, KeyboardAssumption DEF Count, Slots
<1>4. Count' = Count - 1
  BY <1>1, <1>2, KeyboardAssumption DEF Count, Slots
<1>5. \A i \in 1 .. KEY_QUEUE_LEN - 1 : Slot(i)' = Slot(i + 1)
  BY <1>1, <1>2, KeyboardAssumption DEF Slot, Slots
<1>6. \A i \in 1 .. Count - 1 : Slot(i)' = Slot(i + 1)
  BY <1>3, <1>5, KeyboardAssumption
<1>7. Slot(1) = key_f
  BY Places, KeyboardAssumption
<1> QED BY <1>1, <1>3, <1>4, <1>6, <1>7

-----------------------------------------------------------------------------
(* Types and pending events                                                *)

LEMMA RingInit == Init => RingInv
<1> SUFFICES ASSUME Init PROVE RingInv
  OBVIOUS
<1>1. TypeOK
  <2>1. 0 \in Slots
    BY KeyboardAssumption DEF Slots
  <2>2. key_queue \in [Slots -> Events \cup {KEY_NONE}]
    BY DEF Init
  <2> QED BY <2>1, <2>2 DEF Init, States, TypeOK
<1>2. Count = 0 /\ aborted # "overflow"
  BY DEF Init, Count
<1>3. PendingSent
  BY <1>2 DEF PendingSent
<1> QED BY <1>1, <1>2, <1>3 DEF RingInv

LEMMA TypeStep ==
  ASSUME TypeOK, [Next]_vars
  PROVE  TypeOK'
<1>1. ASSUME NEW s \in Scancodes, NEW d \in BOOLEAN, SendKey(s, d) PROVE TypeOK'
  <2>1. Word(s, d) \in Events
    BY <1>1 DEF SendKey, Events
  <2>2. key_r' \in Slots
    BY <1>1, Wrap DEF SendKey, TypeOK
  <2> QED BY <1>1, <2>1, <2>2 DEF SendKey, TypeOK
<1>2. CASE ReadKey
  <2>1. key_f' \in Slots
    BY <1>2, Wrap DEF ReadKey, TypeOK
  <2> QED BY <1>2, <2>1 DEF ReadKey, TypeOK
<1>3. CASE ReadNothing \/ BadAccess \/ SwitchState
  BY <1>3 DEF ReadNothing, BadAccess, SwitchState, TypeOK, ring
<1>4. CASE UNCHANGED vars
  BY <1>4 DEF vars, TypeOK
<1>5. ASSUME NEW s \in Scancodes, SendIgnored(s) PROVE TypeOK'
  BY <1>4, <1>5 DEF SendIgnored
<1> QED BY <1>1, <1>2, <1>3, <1>4, <1>5 DEF Next

\* What a step that leaves the ring alone does to the places.
LEMMA SamePlaces ==
  ASSUME UNCHANGED ring, aborted # "overflow", aborted' # "overflow"
  PROVE  Count' = Count /\ \A i : Slot(i)' = Slot(i)
BY DEF ring, Count, Slot

LEMMA RingStep ==
  ASSUME RingInv, [Next]_vars
  PROVE  RingInv'
<1>1. TypeOK'
  BY TypeStep DEF RingInv
<1>2. ASSUME NEW s \in Scancodes, NEW d \in BOOLEAN, SendKey(s, d) PROVE RingInv'
  <2>1. Word(s, d) \in Events
    BY <1>2 DEF SendKey, Events
  <2>2. /\ Count' = Count + 1 /\ Count \in 0 .. KEY_QUEUE_LEN
        /\ \A i \in 1 .. Count : key_queue'[Slot(i)'] = key_queue[Slot(i)]
        /\ \A i : i = Count + 1 => key_queue'[Slot(i)'] = Word(s, d)
    BY <1>1, <1>2, SendPlaces, Places DEF RingInv
  <2>3. ASSUME NEW i \in 1 .. Count + 1 PROVE key_queue'[Slot(i)'] \in Events
    <3>1. CASE i = Count + 1
      BY <2>1, <2>2, <3>1
    <3>2. CASE i \in 1 .. Count
      BY <2>2, <3>2 DEF RingInv, PendingSent
    <3> QED BY <2>2, <3>1, <3>2, KeyboardAssumption
  <2>4. PendingSent'
    BY <2>2, <2>3 DEF PendingSent
  <2>5. aborted' = "overflow" => key_r' = key_f'
    BY <1>2 DEF SendKey
  <2> QED BY <1>1, <2>4, <2>5 DEF RingInv
<1>3. CASE ReadKey
  <2>1. /\ Count \in 1 .. KEY_QUEUE_LEN - 1 /\ Count' = Count - 1
        /\ \A i \in 1 .. Count - 1 : key_queue'[Slot(i)'] = key_queue[Slot(i + 1)]
    BY <1>3, ReadPlaces DEF RingInv
  <2>2. ASSUME NEW i \in 1 .. Count - 1 PROVE key_queue'[Slot(i)'] \in Events
    <3>1. i + 1 \in 1 .. Count
      BY <2>1, KeyboardAssumption
    <3> QED BY <2>1, <3>1 DEF RingInv, PendingSent
  <2>3. PendingSent'
    BY <2>1, <2>2 DEF PendingSent
  <2> QED BY <1>1, <1>3, <2>3 DEF RingInv, ReadKey
<1>4. CASE ReadNothing \/ BadAccess \/ SwitchState
  <2>1. UNCHANGED ring /\ aborted # "overflow" /\ aborted' # "overflow"
    BY <1>4 DEF ReadNothing, BadAccess, SwitchState
  <2>2. Count' = Count /\ \A i : Slot(i)' = Slot(i)
    BY <2>1, SamePlaces
  <2>3. key_queue' = key_queue
    BY <2>1 DEF ring
  <2> QED BY <1>1, <2>1, <2>2, <2>3 DEF RingInv, PendingSent
<1>5. CASE UNCHANGED vars
  <2>1. Count' = Count /\ (\A i : Slot(i)' = Slot(i)) /\ UNCHANGED vars
    BY <1>5 DEF vars, Count, Slot
  <2> QED BY <1>1, <2>1 DEF RingInv, PendingSent, vars
<1>6. ASSUME NEW s \in Scancodes, SendIgnored(s) PROVE RingInv'
  BY <1>5, <1>6 DEF SendIgnored
<1> QED BY <1>2, <1>3, <1>4, <1>5, <1>6 DEF Next

\* The indices stay inside the ring and every word in it is an event or
\* _KEY_NONE, for every length (keyboard.c:39-59).
THEOREM TypeCorrect == Spec => []TypeOK
<1>1. Init => TypeOK
  BY RingInit DEF RingInv
<1>2. TypeOK /\ [Next]_vars => TypeOK'
  BY TypeStep
<1> QED BY <1>1, <1>2, PTL DEF Spec

LEMMA RingCorrect == Spec => []RingInv
<1>1. RingInv /\ [Next]_vars => RingInv'
  BY RingStep
<1> QED BY RingInit, <1>1, PTL DEF Spec

\* The guest never reads a word that send_key did not store, whatever the
\* length of the ring and however often the indices have wrapped.
THEOREM PendingCorrect == Spec => []PendingSent
<1>1. RingInv => PendingSent
  BY DEF RingInv
<1> QED BY <1>1, RingCorrect, PTL
-----------------------------------------------------------------------------
(* The ring implements the queue                                           *)

LEMMA SendAdds ==
  ASSUME TypeOK, TypeOK', NEW s \in Scancodes, NEW d \in BOOLEAN, SendKey(s, d)
  PROVE  /\ Pending' = Added(Pending, Word(s, d))
         /\ IF Len(Pending) < KEY_QUEUE_LEN - 1 THEN aborted' = "no"
            ELSE Len(Pending) = KEY_QUEUE_LEN - 1 /\ aborted' = "overflow"
<1>1. /\ Count' = Count + 1
      /\ \A i \in 1 .. Count : key_queue'[Slot(i)'] = key_queue[Slot(i)]
      /\ \A i : i = Count + 1 => key_queue'[Slot(i)'] = Word(s, d)
  BY SendPlaces
<1>2. Len(Pending) = Count /\ Count \in 0 .. KEY_QUEUE_LEN - 1 /\ aborted = "no"
  BY PendingLen, Places, KeyboardAssumption DEF SendKey
<1>3. Pending' = [i \in 1 .. Count + 1 |-> key_queue'[Slot(i)']]
  BY <1>1 DEF Pending
<1>4. Added(Pending, Word(s, d))
        = [i \in 1 .. Count + 1 |-> IF i = Count + 1 THEN Word(s, d) ELSE Pending[i]]
  BY <1>2 DEF Added
<1>5. ASSUME NEW i \in 1 .. Count + 1
      PROVE  key_queue'[Slot(i)'] = IF i = Count + 1 THEN Word(s, d) ELSE Pending[i]
  <2>1. CASE i = Count + 1
    BY <1>1, <2>1
  <2>2. CASE i # Count + 1
    <3>1. i \in 1 .. Count
      BY <1>2, <2>2, KeyboardAssumption
    <3> QED BY <1>1, <2>2, <3>1, PendingLen
  <2> QED BY <2>1, <2>2
<1>6. Pending' = Added(Pending, Word(s, d))
  BY <1>3, <1>4, <1>5
<1>7. IF Count < KEY_QUEUE_LEN - 1 THEN aborted' = "no"
      ELSE Count = KEY_QUEUE_LEN - 1 /\ aborted' = "overflow"
  <2>1. /\ key_f \in Slots /\ key_r \in Slots
        /\ key_r' = IF key_r = KEY_QUEUE_LEN - 1 THEN 0 ELSE key_r + 1
        /\ aborted' = IF key_r' # key_f THEN "no" ELSE "overflow"
    BY Wrap DEF SendKey, TypeOK
  <2>2. Count = IF key_r >= key_f THEN key_r - key_f ELSE key_r - key_f + KEY_QUEUE_LEN
    BY <1>2 DEF Count
  <2> QED BY <2>1, <2>2, KeyboardAssumption DEF Slots
<1> QED BY <1>2, <1>6, <1>7

LEMMA ReadTakes ==
  ASSUME TypeOK, ReadKey
  PROVE  /\ Pending # << >> /\ port' = Pending[1]
         /\ Pending' = Without(Pending, 1)
<1>1. /\ Count \in 1 .. KEY_QUEUE_LEN - 1 /\ Count' = Count - 1
      /\ \A i \in 1 .. Count - 1 : key_queue'[Slot(i)'] = key_queue[Slot(i + 1)]
      /\ port' = key_queue[Slot(1)]
  BY ReadPlaces
<1>2. Len(Pending) = Count /\ \A i \in 1 .. Count : Pending[i] = key_queue[Slot(i)]
  BY PendingLen
<1>3. Pending # << >> /\ port' = Pending[1]
  BY <1>1, <1>2, KeyboardAssumption
<1>4. Pending' = [i \in 1 .. Count - 1 |-> key_queue'[Slot(i)']]
  BY <1>1 DEF Pending
<1>5. Without(Pending, 1)
        = [i \in 1 .. Count - 1 |-> IF i < 1 THEN Pending[i] ELSE Pending[i + 1]]
  BY <1>2 DEF Without
<1>6. ASSUME NEW i \in 1 .. Count - 1
      PROVE  key_queue'[Slot(i)'] = IF i < 1 THEN Pending[i] ELSE Pending[i + 1]
  <2>1. ~(i < 1) /\ i + 1 \in 1 .. Count
    BY <1>1, KeyboardAssumption
  <2> QED BY <1>1, <1>2, <2>1
<1> QED BY <1>3, <1>4, <1>5, <1>6

\* Nothing else moves an event.
LEMMA SamePending ==
  ASSUME UNCHANGED ring, aborted # "overflow", aborted' # "overflow"
  PROVE  Pending' = Pending
BY SamePlaces DEF ring, Pending

LEMMA FifoStep ==
  ASSUME RingInv, [Next]_vars
  PROVE  [Fifo!Next]_Fifo!vars
<1> USE DEF Fifo!Next, Fifo!vars
<1>1. TypeOK /\ TypeOK'
  BY TypeStep DEF RingInv
<1>2. ASSUME NEW s \in Scancodes, NEW d \in BOOLEAN, SendKey(s, d)
      PROVE  Fifo!Next
  <2>1. Word(s, d) \in Events /\ aborted = "no" /\ port' = port
    BY <1>2 DEF SendKey, Events
  <2>2. /\ Pending' = Added(Pending, Word(s, d))
        /\ IF Len(Pending) < KEY_QUEUE_LEN - 1 THEN aborted' = "no"
           ELSE Len(Pending) = KEY_QUEUE_LEN - 1 /\ aborted' = "overflow"
    BY <1>1, <1>2, SendAdds
  <2>3. Fifo!Send(Word(s, d)) \/ Fifo!Overflow(Word(s, d))
    BY <2>1, <2>2 DEF Fifo!Send, Fifo!Overflow, Fifo!Added, Added
  <2> QED BY <2>1, <2>3
<1>3. CASE ReadKey
  <2>1. /\ Pending # << >> /\ port' = Pending[1]
        /\ Pending' = Without(Pending, 1)
    BY <1>1, <1>3, ReadTakes
  <2>2. Fifo!Read
    BY <1>3, <2>1 DEF ReadKey, Fifo!Read, Fifo!Without, Without
  <2> QED BY <2>2
<1>4. CASE ReadNothing
  <2>1. Pending' = Pending
    BY <1>4, SamePending DEF ReadNothing
  <2>2. Count = 0
    BY <1>1, <1>4, KeyboardAssumption DEF ReadNothing, Count, TypeOK, Slots
  <2>3. Pending = << >>
    BY <2>2 DEF Pending
  <2>4. Fifo!ReadNone
    BY <1>4, <2>1, <2>3 DEF ReadNothing, Fifo!ReadNone
  <2> QED BY <2>4
<1>5. CASE BadAccess
  <2>1. Pending' = Pending
    BY <1>5, SamePending DEF BadAccess
  <2>2. Fifo!BadAccess
    BY <1>5, <2>1 DEF BadAccess, Fifo!BadAccess
  <2> QED BY <2>2
<1>6. CASE SwitchState
  <2>1. Pending' = Pending
    BY <1>6, SamePending DEF SwitchState
  <2> QED BY <1>6, <2>1 DEF SwitchState
<1>7. CASE UNCHANGED vars
  <2>1. Count' = Count /\ \A i : Slot(i)' = Slot(i)
    BY <1>7 DEF vars, Count, Slot
  <2>2. Pending' = Pending
    BY <1>7, <2>1 DEF vars, Pending
  <2> QED BY <1>7, <2>2 DEF vars
<1>8. ASSUME NEW s \in Scancodes, SendIgnored(s) PROVE UNCHANGED vars
  BY <1>8 DEF SendIgnored
<1> QED BY <1>2, <1>3, <1>4, <1>5, <1>6, <1>7, <1>8 DEF Next

\* The ring of key_queue, key_f and key_r is the bounded queue of KeyFifo:
\* events reach the guest in the order SDL reported them, each once, and the
\* Assert of send_key fires exactly when one more than Capacity is pending.
THEOREM RingImplementsFifo == Spec => ImplementsFifo
<1>1. Init => Fifo!Init
  <2> SUFFICES ASSUME Init PROVE Fifo!Init
    OBVIOUS
  <2>1. Count = 0
    BY DEF Init, Count
  <2>2. Pending = << >>
    BY <2>1 DEF Pending
  <2> QED BY <2>2 DEF Init, Fifo!Init
<1>2. RingInv /\ [Next]_vars => [Fifo!Next]_Fifo!vars
  BY FifoStep
<1> QED BY <1>1, <1>2, RingCorrect, PTL DEF Spec, ImplementsFifo, Fifo!Spec

-----------------------------------------------------------------------------
(* Sequences that grow at the end, shrink at the front and are filtered    *)

LEMMA AddedSeq ==
  ASSUME NEW T, NEW s \in Seq(T), NEW x \in T
  PROVE  Added(s, x) = s \o <<x>> /\ Added(s, x) \in Seq(T) /\ Len(Added(s, x)) = Len(s) + 1
<1>1. Len(s) \in Nat /\ \A i \in 1 .. Len(s) : s[i] \in T
  OBVIOUS
<1> DEFINE n == Len(s)
           a == [i \in 1 .. n + 1 |-> IF i = n + 1 THEN x ELSE s[i]]
<1>2. Added(s, x) = a
  BY DEF Added
<1>3. <<x>> \in Seq(T) /\ Len(<<x>>) = 1 /\ <<x>>[1] = x
  OBVIOUS
<1>4. /\ s \o <<x>> \in Seq(T) /\ Len(s \o <<x>>) = n + 1
      /\ \A i \in 1 .. n + 1 : (s \o <<x>>)[i] = IF i = n + 1 THEN x ELSE s[i]
  <2>1. s \o <<x>> \in Seq(T) /\ Len(s \o <<x>>) = n + 1
    BY <1>1, <1>3, ConcatProperties
  <2>2. \A i \in 1 .. n + 1 : (s \o <<x>>)[i] = IF i <= n THEN s[i] ELSE <<x>>[i - n]
    BY <1>1, <1>3
  <2>3. \A i \in 1 .. n + 1 : ~(i <= n) => i = n + 1 /\ i - n = 1
    BY <1>1
  <2> QED  BY <1>1, <1>3, <2>1, <2>2, <2>3
<1>5. a \in Seq(T) /\ Len(a) = n + 1
  BY <1>1
<1>6. a = s \o <<x>>
  <2>1. \A i \in 1 .. n + 1 : a[i] = (s \o <<x>>)[i]
    BY <1>4
  <2> HIDE DEF a
  <2> QED  BY <1>4, <1>5, <2>1, SeqEqual
<1> QED  BY <1>2, <1>5, <1>6

LEMMA WithoutSeq ==
  ASSUME NEW T, NEW s \in Seq(T), s # <<>>
  PROVE  /\ s[1] \in T /\ Len(s) \in Nat \ {0}
         /\ Without(s, 1) \in Seq(T) /\ Len(Without(s, 1)) = Len(s) - 1
         /\ \A i \in 1 .. Len(s) - 1 : Without(s, 1)[i] = s[i + 1]
         /\ s = <<s[1]>> \o Without(s, 1)
<1> DEFINE n == Len(s)
           w == [i \in 1 .. n - 1 |-> IF i < 1 THEN s[i] ELSE s[i + 1]]
<1>1. n \in Nat \ {0} /\ \A i \in 1 .. n : s[i] \in T
  OBVIOUS
<1>2. s[1] \in T
  BY <1>1
<1>3. Without(s, 1) = w
  BY DEF Without
<1>4. \A i \in 1 .. n - 1 : i + 1 \in 1 .. n /\ ~(i < 1)
  BY <1>1
<1>5. w \in Seq(T) /\ Len(w) = n - 1 /\ \A i \in 1 .. n - 1 : w[i] = s[i + 1]
  BY <1>1, <1>4
<1> HIDE DEF w
<1>6. s = <<s[1]>> \o w
  <2>1. PICK x \in T : x = s[1]
    BY <1>2
  <2>2. <<x>> \in Seq(T) /\ Len(<<x>>) = 1 /\ <<x>>[1] = x
    OBVIOUS
  <2>3. <<x>> \o w \in Seq(T) /\ Len(<<x>> \o w) = n
    BY <1>1, <1>5, <2>2, ConcatProperties
  <2>4. \A i \in 1 .. n : (<<x>> \o w)[i] = IF i <= 1 THEN <<x>>[i] ELSE w[i - 1]
    BY <1>1, <1>5, <2>2
  <2>5. ASSUME NEW i \in 1 .. n PROVE (<<x>> \o w)[i] = s[i]
    <3>1. CASE i = 1
      BY <2>1, <2>2, <2>4, <3>1
    <3>2. CASE i # 1
      <4>1. i - 1 \in 1 .. n - 1 /\ (i - 1) + 1 = i /\ ~(i <= 1)
        BY <1>1, <3>2
      <4>2. w[i - 1] = s[i]
        BY <1>5, <4>1
      <4> QED  BY <2>4, <4>1, <4>2
    <3> QED  BY <3>1, <3>2
  <2>6. <<x>> \o w = s
    BY <2>3, <2>5, SeqEqual
  <2> QED  BY <2>1, <2>6
<1> QED  BY <1>1, <1>2, <1>3, <1>5, <1>6

\* The filter, step by step.
Kept(s, P, f) ==
  [n \in 0 .. Len(s) |-> IF n = 0 THEN << >>
                         ELSE IF s[n] \in P THEN Append(f[n - 1], s[n]) ELSE f[n - 1]]

Filters(t, s, P, T) ==
  /\ Filtered(s, P) = t[Len(s)] /\ t[0] = << >>
  /\ \A i \in 1 .. Len(s) : t[i] = IF s[i] \in P THEN t[i - 1] \o <<s[i]>> ELSE t[i - 1]
  /\ \A i \in 0 .. Len(s) : t[i] \in Seq(T)

LEMMA FilteredSteps ==
  ASSUME NEW T, NEW s \in Seq(T), NEW P
  PROVE  \E t : Filters(t, s, P, T)
<1> DEFINE n == Len(s)
           step == [i \in 1 .. n |-> [v \in Seq(T) |-> IF s[i] \in P THEN Append(v, s[i]) ELSE v]]
<1>1. n \in Nat /\ \A i \in 1 .. n : s[i] \in T
  OBVIOUS
<1>2. step \in [1 .. n -> [Seq(T) -> Seq(T)]] /\ << >> \in Seq(T)
  BY <1>1
<1>3. \A i \in 1 .. n : \A v \in Seq(T) : step[i][v] = IF s[i] \in P THEN Append(v, s[i]) ELSE v
  OBVIOUS
<1>4. Filtered(s, P) = (CHOOSE f : f = Kept(s, P, f))[n]
  BY DEF Filtered, Kept
<1> HIDE DEF n, step
<1>5. PICK f : Solves(f, n, Seq(T), << >>, step)
  BY <1>1, <1>2, Recursion DEF Recurs
<1>6. f = Kept(s, P, f)
  <2>1. \A i \in 0 .. n : i # 0 => i \in 1 .. n /\ i - 1 \in 0 .. n
    BY <1>1
  <2>2. ASSUME NEW i \in 1 .. n
        PROVE  f[i] = IF s[i] \in P THEN Append(f[i - 1], s[i]) ELSE f[i - 1]
    <3>1. f[i] = step[i][f[i - 1]]
      BY <1>5 DEF Solves
    <3>2. i - 1 \in 0 .. n
      BY <1>1
    <3>3. f[i - 1] \in Seq(T)
      BY <1>5, <3>2 DEF Solves
    <3> QED  BY <1>3, <3>1, <3>3
  <2>3. f[0] = << >> /\ f = [i \in 0 .. n |-> f[i]]
    BY <1>5 DEF Solves
  <2>4. \A i \in 0 .. n : f[i] = IF i = 0 THEN << >>
                                 ELSE IF s[i] \in P THEN Append(f[i - 1], s[i]) ELSE f[i - 1]
    BY <2>1, <2>2, <2>3
  <2> QED  BY <2>3, <2>4 DEF Kept, n
<1> DEFINE t == CHOOSE g : g = Kept(s, P, g)
<1>7. t = Kept(s, P, t)
  BY <1>6
<1> HIDE DEF t
<1>8. /\ t[0] = << >>
      /\ \A i \in 1 .. n : t[i] = IF s[i] \in P THEN Append(t[i - 1], s[i]) ELSE t[i - 1]
  <2>1. \A i \in 1 .. n : i \in 0 .. n /\ i # 0
    BY <1>1
  <2>2. \A i \in 0 .. n : t[i] = IF i = 0 THEN << >>
                                 ELSE IF s[i] \in P THEN Append(t[i - 1], s[i]) ELSE t[i - 1]
    BY <1>7 DEF Kept, n
  <2> QED  BY <1>1, <2>1, <2>2
<1>9. \A i \in 0 .. n : t[i] \in Seq(T)
  <2> DEFINE Q == {i \in 0 .. n : t[i] \in Seq(T)}
  <2>1. 0 \in Q
    <3>1. 0 \in 0 .. n
      BY <1>1
    <3>2. t[0] \in Seq(T)
      BY <1>2, <1>8
    <3> QED  BY <3>1, <3>2
  <2>2. ASSUME NEW i \in 1 .. n, i - 1 \in Q PROVE i \in Q
    <3>1. t[i - 1] \in Seq(T) /\ s[i] \in T
      BY <1>1, <2>2
    <3>2. Append(t[i - 1], s[i]) \in Seq(T)
      BY <3>1
    <3>3. t[i] \in Seq(T)
      BY <1>8, <3>1, <3>2
    <3> QED  BY <1>1, <3>3
  <2>3. \A i \in 0 .. n : i \in Q
    <3> HIDE DEF Q
    <3> QED  BY <1>1, <2>1, <2>2, Induction
  <2> QED  BY <2>3
<1>10. ASSUME NEW i \in 1 .. n
       PROVE  t[i] = IF s[i] \in P THEN t[i - 1] \o <<s[i]>> ELSE t[i - 1]
  <2>1. i - 1 \in 0 .. n /\ s[i] \in T
    BY <1>1
  <2>2. Append(t[i - 1], s[i]) = t[i - 1] \o <<s[i]>>
    BY <1>9, <2>1, AppendIsConcat
  <2> QED  BY <1>8, <2>2
<1>11. Filters(t, s, P, T)
  <2> HIDE DEF t
  <2> QED  BY <1>4, <1>7, <1>8, <1>9, <1>10 DEF n, t, Filters
<1> QED  BY <1>11

LEMMA FilterSeq ==
  ASSUME NEW T, NEW s \in Seq(T), NEW P
  PROVE  Filtered(s, P) \in Seq(T)
<1>1. PICK t : Filters(t, s, P, T)
  BY FilteredSteps
<1>2. Len(s) \in 0 .. Len(s)
  OBVIOUS
<1> QED  BY <1>1, <1>2 DEF Filters

LEMMA FilterEmpty ==
  ASSUME NEW T, NEW s \in Seq(T), NEW P
  PROVE  s = << >> => Filtered(s, P) = << >>
<1>1. PICK t : Filters(t, s, P, T)
  BY FilteredSteps
<1>2. s = << >> => Len(s) = 0
  OBVIOUS
<1> QED  BY <1>1, <1>2 DEF Filters

\* One more element is one more in the filter, or none.
LEMMA FilterAdded ==
  ASSUME NEW T, NEW s \in Seq(T), NEW x \in T, NEW P
  PROVE  Filtered(Added(s, x), P) = IF x \in P THEN Filtered(s, P) \o <<x>> ELSE Filtered(s, P)
<1>1. PICK n \in Nat : n = Len(s)
  OBVIOUS
<1>2. PICK a \in Seq(T) : a = Added(s, x) /\ Len(a) = n + 1
  BY <1>1, AddedSeq
<1>3. a[n + 1] = x /\ \A i \in 1 .. n : a[i] = s[i]
  BY <1>1, <1>2 DEF Added
<1>4. PICK t : Filters(t, s, P, T)
  BY FilteredSteps
<1>5. /\ Filtered(s, P) = t[n] /\ t[0] = << >>
      /\ \A i \in 1 .. n : t[i] = IF s[i] \in P THEN t[i - 1] \o <<s[i]>> ELSE t[i - 1]
  BY <1>1, <1>4 DEF Filters
<1>6. PICK u : Filters(u, a, P, T)
  BY FilteredSteps
<1>7. /\ Filtered(a, P) = u[n + 1] /\ u[0] = << >>
      /\ \A i \in 1 .. n + 1 : u[i] = IF a[i] \in P THEN u[i - 1] \o <<a[i]>> ELSE u[i - 1]
  BY <1>2, <1>6 DEF Filters
<1> DEFINE Q == {i \in 0 .. n : u[i] = t[i]}
<1>8. 0 \in Q
  BY <1>1, <1>5, <1>7
<1>9. ASSUME NEW i \in 1 .. n, i - 1 \in Q PROVE i \in Q
  <2>1. i \in 0 .. n /\ i \in 1 .. n + 1 /\ u[i - 1] = t[i - 1] /\ a[i] = s[i]
    BY <1>1, <1>3, <1>9
  <2>2. u[i] = t[i]
    BY <1>5, <1>7, <2>1
  <2> QED  BY <2>1, <2>2
<1>10. \A i \in 0 .. n : i \in Q
  <2> HIDE DEF Q
  <2> QED  BY <1>1, <1>8, <1>9, Induction
<1>11. u[n] = t[n]
  <2>1. n \in 0 .. n
    BY <1>1
  <2> QED  BY <1>10, <2>1
<1>12. n + 1 \in 1 .. n + 1 /\ (n + 1) - 1 = n
  BY <1>1
<1>13. u[n + 1] = IF x \in P THEN u[n] \o <<x>> ELSE u[n]
  BY <1>3, <1>7, <1>12
<1> QED  BY <1>2, <1>5, <1>7, <1>11, <1>13

\* The first element is the first in the filter, or not in it.
LEMMA FilterFirst ==
  ASSUME NEW T, NEW s \in Seq(T), s # << >>, NEW P
  PROVE  Filtered(s, P) = (IF s[1] \in P THEN <<s[1]>> ELSE << >>) \o Filtered(Without(s, 1), P)
<1>1. PICK n \in Nat \ {0} : n = Len(s)
  BY WithoutSeq
<1>2. PICK w \in Seq(T) : w = Without(s, 1) /\ Len(w) = n - 1
  BY <1>1, WithoutSeq
<1>3. \A i \in 1 .. n - 1 : w[i] = s[i + 1]
  BY <1>1, <1>2, WithoutSeq
<1>4. \A i \in 1 .. n : s[i] \in T
  BY <1>1
<1> DEFINE h == IF s[1] \in P THEN <<s[1]>> ELSE << >>
<1>5. h \in Seq(T)
  <2>1. 1 \in 1 .. n
    BY <1>1
  <2>2. s[1] \in T
    BY <1>4, <2>1
  <2> QED  BY <2>2
<1>6. PICK t : Filters(t, s, P, T)
  BY FilteredSteps
<1>7. /\ Filtered(s, P) = t[n] /\ t[0] = << >>
      /\ \A i \in 1 .. n : t[i] = IF s[i] \in P THEN t[i - 1] \o <<s[i]>> ELSE t[i - 1]
  BY <1>1, <1>6 DEF Filters
<1>8. PICK m \in Nat : m = n - 1 /\ Len(w) = m
  BY <1>1, <1>2
<1>9. PICK u : Filters(u, w, P, T)
  BY FilteredSteps
<1>10. /\ Filtered(w, P) = u[m] /\ u[0] = << >>
       /\ \A i \in 1 .. m : u[i] = IF w[i] \in P THEN u[i - 1] \o <<w[i]>> ELSE u[i - 1]
       /\ \A i \in 0 .. m : u[i] \in Seq(T)
  BY <1>8, <1>9 DEF Filters
<1> HIDE DEF h
<1> DEFINE Q == {i \in 0 .. m : t[i + 1] = h \o u[i]}
<1>11. 0 \in Q
  <2>1. 0 \in 0 .. m /\ 1 \in 1 .. n /\ 1 - 1 = 0
    BY <1>1, <1>8
  <2>2. t[1] = IF s[1] \in P THEN t[0] \o <<s[1]>> ELSE t[0]
    BY <1>7, <2>1
  <2>3. s[1] \in T /\ <<s[1]>> \in Seq(T)
    BY <1>4, <2>1
  <2>4. << >> \o <<s[1]>> = <<s[1]>>
    BY <2>3, ConcatEmptySeq
  <2>5. t[1] = h
    BY <1>7, <2>2, <2>4 DEF h
  <2>6. h \o u[0] = h
    BY <1>5, <1>10, ConcatEmptySeq
  <2> QED  BY <2>1, <2>5, <2>6
<1>12. ASSUME NEW i \in 1 .. m, i - 1 \in Q PROVE i \in Q
  <2>1. /\ i \in 0 .. m /\ i + 1 \in 1 .. n /\ i - 1 \in 0 .. m
        /\ (i + 1) - 1 = i /\ (i - 1) + 1 = i
    BY <1>1, <1>8
  <2>2. t[i] = h \o u[i - 1] /\ w[i] = s[i + 1] /\ w[i] \in T
    BY <1>3, <1>4, <1>8, <1>12, <2>1
  <2>3. t[i + 1] = IF s[i + 1] \in P THEN t[i] \o <<s[i + 1]>> ELSE t[i]
    BY <1>7, <2>1
  <2>4. u[i] = IF w[i] \in P THEN u[i - 1] \o <<w[i]>> ELSE u[i - 1]
    BY <1>10
  <2>5. (h \o u[i - 1]) \o <<w[i]>> = h \o (u[i - 1] \o <<w[i]>>)
    <3>1. PICK v \in Seq(T) : v = u[i - 1]
      BY <1>10, <2>1
    <3>2. PICK x \in T : x = w[i]
      BY <2>2
    <3>3. <<x>> \in Seq(T)
      OBVIOUS
    <3>4. (h \o v) \o <<x>> = h \o (v \o <<x>>)
      BY <1>5, <3>3, ConcatAssociative
    <3> QED  BY <3>1, <3>2, <3>4
  <2>6. t[i + 1] = h \o u[i]
    BY <2>2, <2>3, <2>4, <2>5
  <2> QED  BY <2>1, <2>6
<1>13. \A i \in 0 .. m : i \in Q
  <2> HIDE DEF Q
  <2> QED  BY <1>8, <1>11, <1>12, Induction
<1>14. t[n] = h \o u[m]
  <2>1. m \in 0 .. m /\ m + 1 = n
    BY <1>1, <1>8
  <2> QED  BY <1>13, <2>1
<1> QED  BY <1>2, <1>7, <1>10, <1>14 DEF h

-----------------------------------------------------------------------------
(* The board around the ring: the thread, SDL's queue and what was typed   *)

\* Key events, as SDL queues them or as the user caused them
Keyed == KeyEvents \cup Strokes
AllEvents == Keyed \cup {Quit}
AllWords == {Word(s, d) : s \in Scancodes, d \in BOOLEAN}

\* After a failed assertion the thread is gone.
Types ==
  /\ sdl \in Seq(AllEvents)
  /\ typed \in Seq(Keyed)
  /\ got \in Seq(Events)
  /\ lost \in BOOLEAN
  /\ aborted # "no" => pc = "exit"

LEMMA WordTypes ==
  ASSUME NEW e \in Keyed
  PROVE  /\ e.key \in Keys /\ e.down \in BOOLEAN /\ e # Quit
         /\ Truncated[e.key] \in Scancodes
         /\ WordOf(e) = Word(Truncated[e.key], e.down)
         /\ WordOf(e) \in AllWords
         /\ WordOf(e) \in Events <=> Mapped(e)
<1>1. e.key \in Keys /\ e.down \in BOOLEAN /\ e # Quit
  BY QuitAssumption DEF Keyed, KeyEvents, Strokes
<1>2. Truncated[e.key] \in Scancodes
  BY <1>1, DevicesAssumption
<1>3. WordOf(e) = Word(Truncated[e.key], e.down)
  BY <1>1 DEF WordOf
<1>4. WordOf(e) \in AllWords
  BY <1>1, <1>2, <1>3 DEF AllWords
<1>5. Mapped(e) <=> keymap[Truncated[e.key]] # KEY_NONE
  BY <1>1 DEF Mapped
<1>6. Mapped(e) => WordOf(e) \in Events
  BY <1>1, <1>2, <1>3, <1>5 DEF Events
<1>7. WordOf(e) \in Events => Mapped(e)
  BY <1>3, <1>5 DEF Events, Word
<1> QED  BY <1>1, <1>2, <1>3, <1>4, <1>6, <1>7

LEMMA NewEvents ==
  ASSUME NEW k \in Keys, NEW d \in BOOLEAN, NEW p \in BOOLEAN
  PROVE  /\ KeyEvent(k, d, p) \in Keyed /\ KeyEvent(k, d, p).prompt = p
         /\ KeyEvent(k, d, p).key = k /\ KeyEvent(k, d, p).down = d
         /\ [key |-> k, down |-> d] \in Keyed
BY DEF KeyEvent, Keyed, KeyEvents, Strokes

LEMMA QuitWord == ~Mapped(Quit) /\ WordOf(Quit) = KEY_NONE /\ KEY_NONE \notin Events
BY KeyboardAssumption DEF Mapped, WordOf

LEMMA EventsAreWords == Events \subseteq AllWords
BY DEF Events, AllWords

LEMMA WordEvent ==
  ASSUME NEW e \in AllEvents
  PROVE  WordOf(e) \in AllWords \cup {KEY_NONE} /\ (WordOf(e) \in Events <=> Mapped(e))
<1>1. CASE e \in Keyed
  BY <1>1, WordTypes
<1>2. CASE e = Quit
  BY <1>2, QuitWord
<1> QED  BY <1>1, <1>2 DEF AllEvents

\* Every step but those of the ring's own leaves it alone.
LEMMA RingActs ==
  ASSUME Types, BoardNext
  PROVE  \/ UNCHANGED i8042 /\ nemu_state' \in States \cup {nemu_state}
         \/ (LookCommand \/ ExecRead) /\ (ReadKey \/ ReadNothing)
         \/ AccessFails /\ BadAccess /\ pc' = "exit"
         \/ /\ PollKey /\ sdl[1] \in Keyed
            /\ \/ SendKey(Truncated[sdl[1].key], sdl[1].down)
               \/ SendIgnored(Truncated[sdl[1].key])
<1> USE DEF i8042
<1>1. ASSUME NEW k \in Keys, NEW d \in BOOLEAN, TypeKey(k, d)
      PROVE  UNCHANGED <<i8042, nemu_state>>
  BY <1>1 DEF TypeKey
<1>2. CASE CloseWindow \/ TimerSignal \/ \E c \in {"run", "look"} : Command(c)
  BY <1>2 DEF CloseWindow, TimerSignal, Command
<1>3. CASE Clear \/ Cleared \/ RunCommand
  BY <1>3 DEF Clear, Cleared, RunCommand, States
<1>4. CASE LookCommand
  BY <1>4 DEF LookCommand
<1>5. CASE ExecRead
  BY <1>5 DEF ExecRead
<1>6. CASE TestFlag \/ ClearFlag \/ \E state \in {"RUNNING", "STOP", "END"} : ExecOther(state)
  BY <1>6 DEF TestFlag, ClearFlag, ExecOther, States
<1>7. CASE PollQuit \/ PollEnd \/ CheckState
  BY <1>7 DEF PollQuit, PollEnd, CheckState, States
<1>8. CASE PollKey
  <2>1. /\ sdl # << >> /\ sdl[1] # Quit
        /\ \/ SendKey(Truncated[sdl[1].key], sdl[1].down)
           \/ SendIgnored(Truncated[sdl[1].key])
    BY <1>8 DEF PollKey
  <2>2. sdl[1] \in AllEvents
    BY <2>1, WithoutSeq DEF Types
  <2> QED  BY <1>8, <2>1, <2>2 DEF AllEvents
<1>9. CASE AccessFails
  BY <1>9 DEF AccessFails
<1> QED  BY <1>1, <1>2, <1>3, <1>4, <1>5, <1>6, <1>7, <1>8, <1>9 DEF BoardNext, MainStep

LEMMA Alive == Types /\ BoardNext => pc # "exit" /\ aborted = "no"
<1>1. BoardNext => pc # "exit"
  BY DEF BoardNext, MainStep, TypeKey, CloseWindow, TimerSignal, Command, Clear, Cleared, RunCommand,
         LookCommand, ExecRead, ExecOther, AccessFails, TestFlag, ClearFlag, PollKey, PollQuit,
         PollEnd, CheckState
<1> QED  BY <1>1 DEF Types

\* A step of the board is one of the ring, or none of it.
LEMMA RingSteps ==
  ASSUME Types, [BoardNext]_board_vars
  PROVE  [Next]_vars
<1>1. CASE UNCHANGED board_vars
  BY <1>1 DEF board_vars, i8042, ring, vars
<1>2. ASSUME BoardNext, UNCHANGED i8042, nemu_state' \in States \cup {nemu_state}
      PROVE  [Next]_vars
  <2>1. aborted = "no" /\ UNCHANGED <<ring, port, aborted>>
    BY <1>2, Alive DEF i8042
  <2>2. CASE nemu_state' = nemu_state
    BY <2>1, <2>2 DEF vars, ring
  <2>3. CASE nemu_state' \in States \ {nemu_state}
    BY <2>1, <2>3 DEF Next, SwitchState
  <2> QED  BY <1>2, <2>2, <2>3
<1>3. ASSUME ReadKey \/ ReadNothing \/ BadAccess PROVE [Next]_vars
  BY <1>3 DEF Next
<1>4. ASSUME sdl[1] \in Keyed,
             \/ SendKey(Truncated[sdl[1].key], sdl[1].down)
             \/ SendIgnored(Truncated[sdl[1].key])
      PROVE  [Next]_vars
  <2>1. Truncated[sdl[1].key] \in Scancodes /\ sdl[1].down \in BOOLEAN
    BY <1>4, WordTypes
  <2> QED  BY <1>4, <2>1 DEF Next
<1>5. CASE BoardNext
  BY <1>2, <1>3, <1>4, <1>5, RingActs
<1> QED  BY <1>1, <1>5

-----------------------------------------------------------------------------
(* The ways an event can take: what a step does to the four places that    *)
(* hold events, SDL's queue, the ring, what the guest read and what was    *)
(* thrown away.                                                            *)

Enters(k, d) ==
  /\ sdl' = Added(sdl, KeyEvent(k, d, pc = "prompt"))
  /\ typed' = Added(typed, [key |-> k, down |-> d])
  /\ UNCHANGED <<Pending, got, lost, pc>>
QuitEnters ==
  /\ sdl' = Added(sdl, Quit)
  /\ UNCHANGED <<Pending, typed, got, lost, pc>>
Dropped ==
  /\ sdl # << >> /\ sdl' = Without(sdl, 1)
  /\ lost' = (lost \/ Mapped(sdl[1]))
  /\ UNCHANGED <<Pending, typed, got>>
Sent ==
  /\ sdl # << >> /\ sdl' = Without(sdl, 1) /\ Mapped(sdl[1])
  /\ Pending' = Added(Pending, WordOf(sdl[1]))
  /\ UNCHANGED <<typed, got, lost>>
Delivers ==
  /\ Pending # << >> /\ Pending' = Without(Pending, 1)
  /\ got' = Added(got, Pending[1])
  /\ UNCHANGED <<sdl, typed, lost>>
LooksAt ==
  /\ Pending # << >> /\ Pending' = Without(Pending, 1)
  /\ lost' = TRUE
  /\ UNCHANGED <<sdl, typed, got>>
Still == UNCHANGED <<sdl, Pending, typed, got, lost>>

Flows ==
  \/ \E k \in Keys, d \in BOOLEAN : Enters(k, d)
  \/ QuitEnters \/ Dropped \/ Sent \/ Delivers \/ LooksAt \/ Still

LEMMA StillPending ==
  ASSUME UNCHANGED i8042
  PROVE  Pending' = Pending
<1>1. Count' = Count /\ \A i : Slot(i)' = Slot(i)
  BY DEF i8042, ring, Count, Slot
<1> QED  BY <1>1 DEF i8042, ring, Pending

LEMMA PollFlows ==
  ASSUME Types, TypeOK, TypeOK', PollKey, sdl[1] \in Keyed,
         \/ SendKey(Truncated[sdl[1].key], sdl[1].down)
         \/ SendIgnored(Truncated[sdl[1].key])
  PROVE  Sent \/ Dropped
<1> DEFINE e == sdl[1]
<1>1. /\ sdl # << >> /\ sdl' = Without(sdl, 1) /\ typed' = typed /\ got' = got
      /\ lost' = (lost \/ (Mapped(e) /\ ~running))
  BY DEF PollKey
<1>2. /\ Truncated[e.key] \in Scancodes /\ e.down \in BOOLEAN
      /\ WordOf(e) = Word(Truncated[e.key], e.down)
      /\ Mapped(e) <=> keymap[Truncated[e.key]] # KEY_NONE
  BY WordTypes DEF Mapped
<1>3. CASE SendKey(Truncated[e.key], e.down)
  <2>1. running /\ Mapped(e)
    BY <1>2, <1>3 DEF SendKey
  <2>2. Pending' = Added(Pending, WordOf(e))
    BY <1>2, <1>3, SendAdds
  <2>3. lost' = lost
    BY <1>1, <2>1, Zenon DEF Types
  <2> QED  BY <1>1, <2>1, <2>2, <2>3 DEF Sent
<1>4. CASE SendIgnored(Truncated[e.key])
  <2>1. ~running \/ ~Mapped(e)
    BY <1>2, <1>4 DEF SendIgnored
  <2>2. UNCHANGED i8042
    BY <1>4 DEF SendIgnored, vars, i8042, ring
  <2>3. lost' = (lost \/ Mapped(e))
    BY <1>1, <2>1, Zenon
  <2> QED  BY <1>1, <2>2, <2>3, StillPending DEF Dropped
<1> QED  BY <1>3, <1>4

LEMMA StepFlows ==
  ASSUME Types, TypeOK, TypeOK', [BoardNext]_board_vars
  PROVE  Flows
<1>1. CASE UNCHANGED board_vars
  <2>1. UNCHANGED i8042 /\ UNCHANGED <<sdl, typed, got, lost>>
    BY <1>1 DEF board_vars, history
  <2> QED  BY <2>1, StillPending DEF Still, Flows
<1>2. ASSUME NEW k \in Keys, NEW d \in BOOLEAN, TypeKey(k, d) PROVE Flows
  <2>1. Pending' = Pending
    BY <1>2, StillPending DEF TypeKey
  <2>2. Enters(k, d)
    BY <1>2, <2>1 DEF TypeKey, Enters
  <2> QED  BY <2>2 DEF Flows
<1>3. CASE CloseWindow
  <2>1. Pending' = Pending
    BY <1>3, StillPending DEF CloseWindow
  <2> QED  BY <1>3, <2>1 DEF CloseWindow, QuitEnters, Flows, history
<1>4. CASE TimerSignal \/ \E c \in {"run", "look"} : Command(c)
  <2>1. UNCHANGED i8042 /\ UNCHANGED <<sdl, typed, got, lost>>
    BY <1>4 DEF TimerSignal, Command, history
  <2> QED  BY <2>1, StillPending DEF Still, Flows
<1>5. CASE Clear
  <2>1. Pending' = Pending
    BY <1>5, StillPending DEF Clear
  <2> QED  BY <1>5, <2>1 DEF Clear, Dropped, Flows
<1>6. CASE Cleared \/ RunCommand
  <2>1. UNCHANGED i8042 /\ UNCHANGED <<sdl, typed, got, lost>>
    BY <1>6 DEF Cleared, RunCommand, history
  <2> QED  BY <2>1, StillPending DEF Still, Flows
<1>7. CASE LookCommand
  <2>1. /\ sdl' = sdl /\ typed' = typed /\ got' = got /\ lost' = (lost \/ ReadKey)
        /\ ReadKey \/ ReadNothing
    BY <1>7 DEF LookCommand
  <2>2. CASE ReadKey
    <3>1. lost' = TRUE
      BY <2>1, <2>2, Zenon
    <3> QED  BY <2>1, <2>2, <3>1, ReadTakes DEF LooksAt, Flows
  <2>3. CASE ReadNothing
    <3>1. ~ReadKey
      BY <2>3 DEF ReadKey, ReadNothing
    <3>2. lost' = lost
      BY <2>1, <3>1, Zenon DEF Types
    <3>3. Pending' = Pending
      BY <2>3, SamePending DEF ReadNothing
    <3> QED  BY <2>1, <3>2, <3>3 DEF Still, Flows
  <2> QED  BY <2>1, <2>2, <2>3
<1>8. CASE ExecRead
  <2>1. /\ sdl' = sdl /\ typed' = typed /\ lost' = lost
        /\ got' = IF ReadKey THEN Added(got, port') ELSE got
        /\ ReadKey \/ ReadNothing
    BY <1>8 DEF ExecRead
  <2>2. CASE ReadKey
    <3>1. got' = Added(got, port')
      BY <2>1, <2>2, Zenon
    <3> QED  BY <2>1, <2>2, <3>1, ReadTakes DEF Delivers, Flows
  <2>3. CASE ReadNothing
    <3>1. ~ReadKey
      BY <2>3 DEF ReadKey, ReadNothing
    <3>2. got' = got
      BY <2>1, <3>1, Zenon
    <3>3. Pending' = Pending
      BY <2>3, SamePending DEF ReadNothing
    <3> QED  BY <2>1, <3>2, <3>3 DEF Still, Flows
  <2> QED  BY <2>1, <2>2, <2>3
<1>9. CASE TestFlag \/ ClearFlag \/ \E state \in {"RUNNING", "STOP", "END"} : ExecOther(state)
  <2>1. UNCHANGED i8042 /\ UNCHANGED <<sdl, typed, got, lost>>
    BY <1>9 DEF TestFlag, ClearFlag, ExecOther, history
  <2> QED  BY <2>1, StillPending DEF Still, Flows
<1>10. CASE PollKey
  <2>1. sdl[1] \in AllEvents /\ sdl[1] # Quit
    BY <1>10, WithoutSeq DEF PollKey, Types
  <2>2. \/ SendKey(Truncated[sdl[1].key], sdl[1].down)
        \/ SendIgnored(Truncated[sdl[1].key])
    BY <1>10 DEF PollKey
  <2>3. sdl[1] \in Keyed
    BY <2>1 DEF AllEvents
  <2> QED  BY <1>10, <2>2, <2>3, PollFlows DEF Flows
<1>11. CASE PollQuit
  <2>1. UNCHANGED i8042 /\ sdl # << >> /\ sdl' = Without(sdl, 1) /\ UNCHANGED <<typed, got, lost>>
    BY <1>11 DEF PollQuit, history
  <2>2. lost' = (lost \/ Mapped(sdl[1]))
    <3>1. ~Mapped(sdl[1])
      BY <1>11 DEF PollQuit, Mapped
    <3> QED  BY <2>1, <3>1, Zenon DEF Types
  <2> QED  BY <2>1, <2>2, StillPending DEF Dropped, Flows
<1>12. CASE PollEnd \/ CheckState
  <2>1. UNCHANGED i8042 /\ UNCHANGED <<sdl, typed, got, lost>>
    BY <1>12 DEF PollEnd, CheckState, history
  <2> QED  BY <2>1, StillPending DEF Still, Flows
<1>13. CASE AccessFails
  <2>1. BadAccess /\ UNCHANGED <<sdl, typed, got, lost>>
    BY <1>13 DEF AccessFails, history
  <2>2. Pending' = Pending
    BY <2>1, SamePending DEF BadAccess
  <2> QED  BY <2>1, <2>2 DEF Still, Flows
<1> QED  BY <1>1, <1>2, <1>3, <1>4, <1>5, <1>6, <1>7, <1>8, <1>9, <1>10, <1>11, <1>12, <1>13
         DEF BoardNext, MainStep

-----------------------------------------------------------------------------
(* What the guest reads was typed, in that order, and nothing is missing   *)

LEMMA PendingSeq ==
  ASSUME RingInv
  PROVE  Pending \in Seq(Events)
<1>1. Count \in Nat
  BY Places, KeyboardAssumption DEF RingInv
<1>2. \A i \in 1 .. Count : key_queue[Slot(i)] \in Events
  BY DEF RingInv, PendingSent
<1> QED  BY <1>1, <1>2 DEF Pending

LEMMA TypesInit == BoardInit => Types
<1>1. \A T : << >> \in Seq(T)
  OBVIOUS
<1>2. BoardInit => /\ sdl = << >> /\ typed = << >> /\ got = << >> /\ lost = FALSE
              /\ aborted = "no"
  BY DEF BoardInit, Init
<1> QED  BY <1>1, <1>2 DEF Types

LEMMA AbortEnds ==
  ASSUME Types, [BoardNext]_board_vars
  PROVE  aborted' # "no" => pc' = "exit"
<1>1. CASE UNCHANGED board_vars
  BY <1>1 DEF board_vars, i8042, Types
<1>2. CASE BoardNext
  <2>1. aborted = "no"
    BY <1>2, Alive
  <2>2. CASE UNCHANGED i8042
    BY <2>1, <2>2 DEF i8042
  <2>3. CASE ReadKey \/ ReadNothing
    BY <2>1, <2>3 DEF ReadKey, ReadNothing
  <2>4. CASE PollKey
    BY <2>4 DEF PollKey
  <2>5. CASE pc' = "exit"
    BY <2>5
  <2> QED  BY <1>2, <2>2, <2>3, <2>4, <2>5, RingActs
<1> QED  BY <1>1, <1>2

LEMMA TypesStep ==
  ASSUME Types, RingInv, RingInv', [BoardNext]_board_vars
  PROVE  Types'
<1>1. Flows
  BY StepFlows DEF RingInv
<1>2. aborted' # "no" => pc' = "exit"
  BY AbortEnds
<1>3. /\ sdl \in Seq(AllEvents) /\ typed \in Seq(Keyed) /\ got \in Seq(Events)
      /\ lost \in BOOLEAN
  BY DEF Types
<1>4. ASSUME NEW k \in Keys, NEW d \in BOOLEAN, Enters(k, d)
      PROVE  sdl' \in Seq(AllEvents) /\ typed' \in Seq(Keyed)
  <2>1. KeyEvent(k, d, pc = "prompt") \in AllEvents
    BY NewEvents DEF AllEvents
  <2>2. [key |-> k, down |-> d] \in Keyed
    BY NewEvents
  <2> QED  BY <1>3, <1>4, <2>1, <2>2, AddedSeq DEF Enters
<1>5. CASE QuitEnters
  <2>1. Quit \in AllEvents
    BY DEF AllEvents
  <2> QED  BY <1>2, <1>3, <1>5, <2>1, AddedSeq DEF QuitEnters, Types
<1>6. CASE Dropped \/ Sent
  <2>1. sdl' \in Seq(AllEvents)
    BY <1>3, <1>6, WithoutSeq DEF Dropped, Sent
  <2>2. lost' \in BOOLEAN
    BY <1>3, <1>6, Zenon DEF Dropped, Sent
  <2> QED  BY <1>2, <1>3, <1>6, <2>1, <2>2 DEF Dropped, Sent, Types
<1>7. CASE Delivers
  <2>1. Pending \in Seq(Events)
    BY PendingSeq
  <2>2. Pending[1] \in Events
    BY <1>7, <2>1, WithoutSeq DEF Delivers
  <2>3. got' \in Seq(Events)
    BY <1>3, <1>7, <2>2, AddedSeq DEF Delivers
  <2> QED  BY <1>2, <1>3, <1>7, <2>3 DEF Delivers, Types
<1>8. CASE LooksAt \/ Still
  BY <1>2, <1>3, <1>8 DEF LooksAt, Still, Types
<1>9. ASSUME NEW k \in Keys, NEW d \in BOOLEAN, Enters(k, d) PROVE Types'
  BY <1>2, <1>3, <1>4, <1>9 DEF Enters, Types
<1> QED  BY <1>1, <1>5, <1>6, <1>7, <1>8, <1>9 DEF Flows

BoardInv == Types /\ RingInv

LEMMA BoardStart == BoardInit => BoardInv
BY TypesInit, RingInit DEF BoardInit, BoardInv

LEMMA BoardStep ==
  ASSUME BoardInv, [BoardNext]_board_vars
  PROVE  BoardInv'
<1>1. RingInv'
  BY RingSteps, RingStep DEF BoardInv
<1> QED  BY <1>1, TypesStep DEF BoardInv

LEMMA BoardCorrect == BoardSpec => []BoardInv
<1>1. BoardInv /\ [BoardNext]_board_vars => BoardInv'
  BY BoardStep
<1> QED  BY BoardStart, <1>1, PTL DEF BoardSpec

\* The board drives the i8042 as Keyboard says it may be driven: the
\* commands, cpu_exec and device_update that can run between two of its
\* steps change nothing of it.
THEOREM BoardImplementsKeyboard == BoardSpec => Spec
<1>1. BoardInit => Init
  BY DEF BoardInit
<1>2. BoardInv /\ [BoardNext]_board_vars => [Next]_vars
  BY RingSteps DEF BoardInv
<1> QED  BY <1>1, <1>2, BoardCorrect, PTL DEF BoardSpec, Spec

-----------------------------------------------------------------------------
LEMMA NodesAdded ==
  ASSUME NEW T, NEW s \in Seq(T), NEW x
  PROVE  Nodes(Added(s, x)) = Nodes(s) \cup {x}
<1>1. PICK n \in Nat : n = Len(s)
  OBVIOUS
<1> DEFINE a == [i \in 1 .. n + 1 |-> IF i = n + 1 THEN x ELSE s[i]]
<1>2. Added(s, x) = a /\ Len(a) = n + 1
  BY <1>1 DEF Added
<1>3. \A i \in 1 .. n : a[i] = s[i] /\ i \in 1 .. n + 1
  BY <1>1
<1>4. a[n + 1] = x /\ n + 1 \in 1 .. n + 1
  BY <1>1
<1>5. \A i \in 1 .. n + 1 : i = n + 1 \/ i \in 1 .. n
  BY <1>1
<1> HIDE DEF a
<1>6. Nodes(a) = {a[i] : i \in 1 .. n + 1} /\ Nodes(s) = {s[i] : i \in 1 .. n}
  BY <1>1, <1>2 DEF Nodes
<1> QED  BY <1>2, <1>3, <1>4, <1>5, <1>6

LEMMA NodesWithout ==
  ASSUME NEW T, NEW s \in Seq(T), s # << >>
  PROVE  s[1] \in Nodes(s) /\ Nodes(Without(s, 1)) \subseteq Nodes(s)
<1>1. PICK n \in Nat \ {0} : n = Len(s)
  BY WithoutSeq
<1>2. Len(Without(s, 1)) = n - 1 /\ \A i \in 1 .. n - 1 : Without(s, 1)[i] = s[i + 1]
  BY <1>1, WithoutSeq
<1>3. \A i \in 1 .. n - 1 : i + 1 \in 1 .. n
  BY <1>1
<1> QED  BY <1>1, <1>2, <1>3 DEF Nodes

Ordinary == \A e \in Nodes(typed) : e.key \in Scancodes
Said == {Word(e.key, e.down) : e \in Nodes(typed)}
Caused(e, t) == \E x \in Nodes(t) : x.key = e.key /\ x.down = e.down

\* Where an event on its way to the guest can be: it was typed.
OnlyTypedInv ==
  /\ OnlyTyped
  /\ \A e \in Nodes(sdl) : e # Quit => Caused(e, typed)

\* Of a key that uint8_t can hold the code makes the word of that key.
LEMMA OrdinaryWord ==
  ASSUME NEW e \in Keyed, Caused(e, typed), Ordinary
  PROVE  WordOf(e) \in Said
<1>1. PICK x \in Nodes(typed) : x.key = e.key /\ x.down = e.down
  BY DEF Caused
<1>2. e.key \in Keys /\ WordOf(e) = Word(Truncated[e.key], e.down)
  BY WordTypes
<1>3. e.key \in Scancodes
  BY <1>1 DEF Ordinary
<1>4. Truncated[e.key] = e.key
  BY <1>2, <1>3, DevicesAssumption
<1>5. WordOf(e) = Word(x.key, x.down)
  BY <1>1, <1>2, <1>4
<1> QED  BY <1>1, <1>5 DEF Said

LEMMA OnlyTypedStep ==
  ASSUME BoardInv, OnlyTypedInv, [BoardNext]_board_vars
  PROVE  OnlyTypedInv'
<1>1. Flows /\ Types /\ Pending \in Seq(Events)
  BY BoardStep, StepFlows, PendingSeq DEF BoardInv, RingInv
<1>2. /\ Ordinary => Nodes(got) \cup Nodes(Pending) \subseteq Said
      /\ \A e \in Nodes(sdl) : e # Quit => Caused(e, typed)
  BY DEF OnlyTypedInv, OnlyTyped, Ordinary, Said
<1>3. sdl \in Seq(AllEvents) /\ typed \in Seq(Keyed) /\ got \in Seq(Events)
  BY <1>1 DEF Types
<1>4. SUFFICES /\ Ordinary' => Nodes(got') \cup Nodes(Pending') \subseteq Said'
               /\ \A e \in Nodes(sdl') : e # Quit => Caused(e, typed')
  BY DEF OnlyTypedInv, OnlyTyped, Ordinary, Said, Nodes, Caused
<1>5. ASSUME NEW k \in Keys, NEW d \in BOOLEAN, Enters(k, d)
      PROVE  /\ Ordinary' => Nodes(got') \cup Nodes(Pending') \subseteq Said'
             /\ \A e \in Nodes(sdl') : e # Quit => Caused(e, typed')
  <2> DEFINE x == KeyEvent(k, d, pc = "prompt")
             w == [key |-> k, down |-> d]
  <2>1. x.key = k /\ x.down = d /\ w.key = k /\ w.down = d
    BY NewEvents
  <2>2. Nodes(sdl') = Nodes(sdl) \cup {x} /\ Nodes(typed') = Nodes(typed) \cup {w}
    BY <1>3, <1>5, NodesAdded DEF Enters
  <2>3. got' = got /\ Pending' = Pending
    BY <1>5 DEF Enters
  <2> HIDE DEF x, w
  <2>4. (Ordinary' => Ordinary) /\ Said \subseteq Said'
    BY <2>2 DEF Ordinary, Said
  <2>5. Caused(x, typed') /\ \A e : Caused(e, typed) => Caused(e, typed')
    BY <2>1, <2>2 DEF Caused
  <2> QED  BY <1>2, <2>2, <2>3, <2>4, <2>5
<1>12. ASSUME typed' = typed
      PROVE  (Ordinary' <=> Ordinary) /\ Said' = Said /\ \A e : Caused(e, typed') <=> Caused(e, typed)
  BY <1>12 DEF Ordinary, Said, Caused
<1>6. CASE QuitEnters
  <2>1. Nodes(sdl') = Nodes(sdl) \cup {Quit}
    BY <1>3, <1>6, NodesAdded DEF QuitEnters
  <2> QED  BY <1>12, <1>2, <1>6, <2>1 DEF QuitEnters
<1>7. CASE Dropped
  <2>1. Nodes(sdl') \subseteq Nodes(sdl)
    BY <1>3, <1>7, NodesWithout DEF Dropped
  <2> QED  BY <1>12, <1>2, <1>7, <2>1 DEF Dropped
<1>8. CASE Sent
  <2>1. Nodes(sdl') \subseteq Nodes(sdl) /\ sdl[1] \in Nodes(sdl)
    BY <1>3, <1>8, NodesWithout DEF Sent
  <2>2. sdl[1] # Quit
    BY <1>8 DEF Sent, Mapped
  <2>3. Nodes(Pending') = Nodes(Pending) \cup {WordOf(sdl[1])}
    BY <1>1, <1>8, NodesAdded DEF Sent
  <2>4. sdl[1] \in Keyed /\ Caused(sdl[1], typed)
    BY <1>2, <1>3, <1>8, <2>1, <2>2, WithoutSeq DEF AllEvents, Sent
  <2>5. Ordinary => WordOf(sdl[1]) \in Said
    BY <2>4, OrdinaryWord
  <2> QED  BY <1>12, <1>2, <1>8, <2>1, <2>3, <2>5 DEF Sent
<1>9. CASE Delivers
  <2>1. Nodes(Pending') \subseteq Nodes(Pending) /\ Pending[1] \in Nodes(Pending)
    BY <1>1, <1>9, NodesWithout DEF Delivers
  <2>2. Nodes(got') = Nodes(got) \cup {Pending[1]}
    BY <1>3, <1>9, NodesAdded DEF Delivers
  <2> QED  BY <1>12, <1>2, <1>9, <2>1, <2>2 DEF Delivers
<1>10. CASE LooksAt
  <2>1. Nodes(Pending') \subseteq Nodes(Pending)
    BY <1>1, <1>10, NodesWithout DEF LooksAt
  <2> QED  BY <1>12, <1>2, <1>10, <2>1 DEF LooksAt
<1>11. CASE Still
  BY <1>12, <1>2, <1>11 DEF Still
<1> QED  BY <1>1, <1>5, <1>6, <1>7, <1>8, <1>9, <1>10, <1>11 DEF Flows

\* The guest is told of no key, press or release but the user's, for every ring,
\* keymap and interleaving of the signal, the commands and the guest, as long as no
\* key beyond uint8_t is typed (keyboard.c:30-56, device.c:24-70).
THEOREM OnlyTypedCorrect == BoardSpec => []OnlyTyped
<1>1. BoardInit => OnlyTypedInv
  <2> SUFFICES ASSUME BoardInit PROVE OnlyTypedInv
    OBVIOUS
  <2>1. sdl = << >> /\ typed = << >> /\ got = << >> /\ Init
    BY DEF BoardInit
  <2>2. Count = 0
    BY <2>1 DEF Init, Count
  <2>3. Pending = << >>
    BY <2>2 DEF Pending
  <2> QED  BY <2>1, <2>3 DEF OnlyTypedInv, OnlyTyped, Nodes
<1>2. BoardInv /\ OnlyTypedInv /\ [BoardNext]_board_vars => OnlyTypedInv'
  BY OnlyTypedStep
<1>3. OnlyTypedInv => OnlyTyped
  BY DEF OnlyTypedInv
<1> QED  BY <1>1, <1>2, <1>3, BoardCorrect, PTL DEF BoardSpec

-----------------------------------------------------------------------------

\* Three queues in a row, read as one, and how events get into it and move
\* on in it.
Row(a, b, c) == a \o b \o c
Joined(a, b) == a \o b

LEMMA RowGrows ==
  ASSUME NEW T, NEW a \in Seq(T), NEW b \in Seq(T), NEW c \in Seq(T), NEW y \in Seq(T)
  PROVE  Row(a, b, Joined(c, y)) = Joined(Row(a, b, c), y)
<1>1. PICK ab \in Seq(T) : ab = a \o b
  BY ConcatProperties
<1>2. (ab \o c) \o y = ab \o (c \o y)
  BY ConcatAssociative, SMTT(60)
<1> QED  BY <1>1, <1>2 DEF Row, Joined

LEMMA RowSends ==
  ASSUME NEW T, NEW a \in Seq(T), NEW b \in Seq(T), NEW c \in Seq(T), NEW y \in Seq(T)
  PROVE  Row(a, Joined(b, y), c) = Row(a, b, Joined(y, c))
<1>1. PICK ab \in Seq(T) : ab = a \o b
  BY ConcatProperties
<1>2. (a \o b) \o y = a \o (b \o y)
  BY ConcatAssociative, SMTT(60)
<1>3. (ab \o y) \o c = ab \o (y \o c)
  BY ConcatAssociative, SMTT(60)
<1> QED  BY <1>1, <1>2, <1>3 DEF Row, Joined

LEMMA RowReads ==
  ASSUME NEW T, NEW a \in Seq(T), NEW b \in Seq(T), NEW c \in Seq(T), NEW y \in Seq(T)
  PROVE  Row(Joined(a, y), b, c) = Row(a, Joined(y, b), c)
<1>1. (a \o y) \o b = a \o (y \o b)
  BY ConcatAssociative, SMTT(60)
<1> QED  BY <1>1 DEF Row, Joined

\* The words SDL holds, mapped or not.
WordsOf(s) == [i \in 1 .. Len(s) |-> WordOf(s[i])]
PortWords == AllWords \cup {KEY_NONE}

LEMMA MappingsIs ==
  ASSUME NEW s
  PROVE  Mappings(s) = Filtered(WordsOf(s), Events)
BY DEF Mappings, WordsOf

LEMMA WordsSeq ==
  ASSUME NEW s \in Seq(AllEvents)
  PROVE  WordsOf(s) \in Seq(PortWords) /\ Len(WordsOf(s)) = Len(s)
<1>1. \A i \in 1 .. Len(s) : WordOf(s[i]) \in PortWords
  <2> SUFFICES ASSUME NEW i \in 1 .. Len(s) PROVE WordOf(s[i]) \in PortWords
    OBVIOUS
  <2>1. s[i] \in AllEvents
    OBVIOUS
  <2> QED  BY <2>1, WordEvent DEF PortWords
<1>2. Len(s) \in Nat
  OBVIOUS
<1> QED  BY <1>1, <1>2 DEF WordsOf

LEMMA WordsAdded ==
  ASSUME NEW s \in Seq(AllEvents), NEW e \in AllEvents
  PROVE  WordsOf(Added(s, e)) = Added(WordsOf(s), WordOf(e))
<1>1. PICK n \in Nat : n = Len(s)
  OBVIOUS
<1>2. PICK a \in Seq(AllEvents) : a = Added(s, e) /\ Len(a) = n + 1
  BY <1>1, AddedSeq
<1>3. \A i \in 1 .. n + 1 : a[i] = IF i = n + 1 THEN e ELSE s[i]
  BY <1>1, <1>2 DEF Added
<1>4. PICK w \in Seq(PortWords) : w = WordsOf(s) /\ Len(w) = n
  BY <1>1, WordsSeq
<1>5. \A i \in 1 .. n : w[i] = WordOf(s[i])
  BY <1>1, <1>4 DEF WordsOf
<1>6. WordsOf(a) = [i \in 1 .. n + 1 |-> WordOf(a[i])]
  BY <1>2 DEF WordsOf
<1>7. Added(w, WordOf(e)) = [i \in 1 .. n + 1 |-> IF i = n + 1 THEN WordOf(e) ELSE w[i]]
  BY <1>4 DEF Added
<1>8. \A i \in 1 .. n + 1 : WordOf(a[i]) = IF i = n + 1 THEN WordOf(e) ELSE w[i]
  <2>1. \A i \in 1 .. n + 1 : i # n + 1 => i \in 1 .. n
    BY <1>1
  <2> QED  BY <1>3, <1>5, <2>1
<1> QED  BY <1>2, <1>4, <1>6, <1>7, <1>8

LEMMA WordsWithout ==
  ASSUME NEW s \in Seq(AllEvents), s # << >>
  PROVE  /\ WordsOf(s) # << >> /\ WordsOf(s)[1] = WordOf(s[1])
         /\ WordsOf(Without(s, 1)) = Without(WordsOf(s), 1)
<1>1. PICK n \in Nat \ {0} : n = Len(s)
  BY WithoutSeq
<1>2. PICK a \in Seq(AllEvents) : a = Without(s, 1) /\ Len(a) = n - 1
  BY <1>1, WithoutSeq
<1>3. \A i \in 1 .. n - 1 : a[i] = s[i + 1]
  BY <1>1, <1>2, WithoutSeq
<1>4. PICK w \in Seq(PortWords) : w = WordsOf(s) /\ Len(w) = n
  BY <1>1, WordsSeq
<1>5. w # << >>
  BY <1>1, <1>4
<1>6. \A i \in 1 .. n : w[i] = WordOf(s[i])
  BY <1>1, <1>4 DEF WordsOf
<1>7. \A i \in 1 .. n - 1 : Without(w, 1)[i] = w[i + 1]
  BY <1>4, <1>5, WithoutSeq
<1>8. WordsOf(a) = [i \in 1 .. n - 1 |-> WordOf(a[i])]
  BY <1>2 DEF WordsOf
<1>9. Without(w, 1) = [i \in 1 .. n - 1 |-> IF i < 1 THEN w[i] ELSE w[i + 1]]
  BY <1>4 DEF Without
<1>10. \A i \in 1 .. n - 1 : WordOf(a[i]) = IF i < 1 THEN w[i] ELSE w[i + 1]
  <2>1. \A i \in 1 .. n - 1 : i + 1 \in 1 .. n /\ ~(i < 1)
    BY <1>1
  <2> QED  BY <1>3, <1>6, <2>1
<1>11. 1 \in 1 .. n
  BY <1>1
<1> QED  BY <1>2, <1>4, <1>5, <1>6, <1>8, <1>9, <1>10, <1>11

LEMMA MappingsSeq ==
  ASSUME NEW s \in Seq(AllEvents)
  PROVE  Mappings(s) \in Seq(PortWords)
BY WordsSeq, FilterSeq, MappingsIs

LEMMA MappingsEmpty ==
  ASSUME NEW s \in Seq(AllEvents), s = << >>
  PROVE  Mappings(s) = << >>
<1>1. PICK w \in Seq(PortWords) : w = WordsOf(s) /\ Len(w) = Len(s)
  BY WordsSeq
<1>2. w = << >>
  BY <1>1
<1>3. Filtered(w, Events) = << >>
  BY <1>2, FilterEmpty
<1> QED  BY <1>1, <1>3, MappingsIs

\* A later event's word comes behind those of the others; the first event's is first.
LEMMA MappingsAdded ==
  ASSUME NEW s \in Seq(AllEvents), NEW e \in AllEvents
  PROVE  Mappings(Added(s, e)) = IF Mapped(e) THEN Mappings(s) \o <<WordOf(e)>> ELSE Mappings(s)
<1>1. PICK w \in Seq(PortWords) : w = WordsOf(s)
  BY WordsSeq
<1>2. PICK x \in PortWords : x = WordOf(e) /\ (x \in Events <=> Mapped(e))
  BY WordEvent DEF PortWords
<1>3. WordsOf(Added(s, e)) = Added(w, x)
  BY <1>1, <1>2, WordsAdded
<1>4. Filtered(Added(w, x), Events)
        = IF x \in Events THEN Filtered(w, Events) \o <<x>> ELSE Filtered(w, Events)
  BY FilterAdded
<1> QED  BY <1>1, <1>2, <1>3, <1>4, MappingsIs

LEMMA MappingsWithout ==
  ASSUME NEW s \in Seq(AllEvents), s # << >>, NEW r, r = Mappings(Without(s, 1))
  PROVE  Mappings(s) = IF Mapped(s[1]) THEN <<WordOf(s[1])>> \o r ELSE << >> \o r
<1>1. PICK w \in Seq(PortWords) : w = WordsOf(s)
  BY WordsSeq
<1>2. w # << >> /\ w[1] = WordOf(s[1]) /\ WordsOf(Without(s, 1)) = Without(w, 1)
  BY <1>1, WordsWithout
<1>3. s[1] \in AllEvents
  BY WithoutSeq
<1>4. w[1] \in Events <=> Mapped(s[1])
  BY <1>2, <1>3, WordEvent
<1>5. Filtered(w, Events)
        = (IF w[1] \in Events THEN <<w[1]>> ELSE << >>) \o Filtered(Without(w, 1), Events)
  BY <1>2, FilterFirst
<1> QED  BY <1>1, <1>2, <1>4, <1>5, MappingsIs

LEMMA NothingLostStep ==
  ASSUME BoardInv, NothingLost, [BoardNext]_board_vars
  PROVE  NothingLost'
<1>1. Flows /\ Types /\ RingInv /\ RingInv' /\ Types'
  BY BoardStep, StepFlows DEF BoardInv, RingInv
<1>2. /\ sdl \in Seq(AllEvents) /\ typed \in Seq(AllEvents)
      /\ sdl' \in Seq(AllEvents)
  BY <1>1 DEF Types, AllEvents
<1> DEFINE g == got
           p == Pending
           u == Mappings(sdl)
           f == Mappings(typed)
           g1 == got'
           p1 == Pending'
           u1 == Mappings(sdl')
           f1 == Mappings(typed')
<1>3. g \in Seq(PortWords) /\ p \in Seq(PortWords) /\ p1 \in Seq(PortWords)
  <2>1. Events \subseteq PortWords
    BY EventsAreWords DEF PortWords
  <2>2. got \in Seq(PortWords)
    BY <1>1, <2>1 DEF Types
  <2>3. Pending \in Seq(Events)
    BY <1>1, PendingSeq
  <2>4. RingInv' => (Pending \in Seq(Events))'
    BY PendingSeq, PTL
  <2> QED  BY <1>1, <2>1, <2>2, <2>3, <2>4
<1>4. u \in Seq(PortWords) /\ u1 \in Seq(PortWords)
  BY <1>2, MappingsSeq
<1>5. ~lost => Row(g, p, u) = f
  BY DEF NothingLost, Row
<1>6. SUFFICES ASSUME ~lost' PROVE Row(g1, p1, u1) = f1
  BY DEF NothingLost, Mappings, Row
<1> HIDE DEF g, p, u, f, g1, p1, u1, f1
<1>7. ASSUME NEW k \in Keys, NEW d \in BOOLEAN, Enters(k, d)
      PROVE  Row(g1, p1, u1) = f1
  <2> DEFINE e == KeyEvent(k, d, pc = "prompt")
             y == [key |-> k, down |-> d]
  <2>1. /\ e \in Keyed /\ e.key = k /\ e.down = d
        /\ y \in Keyed /\ y.key = k /\ y.down = d
    BY NewEvents
  <2>2. g1 = g /\ p1 = p /\ ~lost /\ sdl' = Added(sdl, e) /\ typed' = Added(typed, y)
    BY <1>6, <1>7 DEF Enters, g, p, g1, p1
  <2> HIDE DEF e, y
  <2>3. /\ WordOf(e) = Word(Truncated[k], d) /\ WordOf(y) = Word(Truncated[k], d)
        /\ e \in AllEvents /\ y \in AllEvents /\ (Mapped(e) <=> Mapped(y))
    BY <2>1, WordTypes DEF AllEvents, Mapped
  <2>4. PICK x \in PortWords : x = WordOf(e) /\ x = WordOf(y)
    BY <2>3, WordEvent DEF PortWords
  <2>5. u1 = IF Mapped(e) THEN Joined(u, <<x>>) ELSE u
    BY <1>2, <2>2, <2>3, <2>4, MappingsAdded DEF u, u1, Joined
  <2>6. f1 = IF Mapped(e) THEN Joined(f, <<x>>) ELSE f
    BY <1>2, <2>2, <2>3, <2>4, MappingsAdded DEF f, f1, Joined
  <2>7. Row(g, p, Joined(u, <<x>>)) = Joined(Row(g, p, u), <<x>>)
    <3> DEFINE z == <<x>>
    <3>1. z \in Seq(PortWords)
      OBVIOUS
    <3> HIDE DEF z
    <3>2. Row(g, p, Joined(u, z)) = Joined(Row(g, p, u), z)
      BY <1>3, <1>4, <3>1, RowGrows
    <3> QED  BY <3>2 DEF z
  <2> QED  BY <1>5, <2>2, <2>5, <2>6, <2>7
<1>8. CASE QuitEnters
  <2>1. g1 = g /\ p1 = p /\ ~lost /\ f1 = f /\ sdl' = Added(sdl, Quit)
    BY <1>6, <1>8 DEF QuitEnters, g, p, f, g1, p1, f1
  <2>2. Quit \in AllEvents
    BY DEF AllEvents
  <2>3. u1 = u
    BY <1>2, <2>1, <2>2, MappingsAdded, QuitWord DEF u, u1
  <2> QED  BY <1>5, <2>1, <2>3
<1>9. CASE Dropped
  <2>1. ~lost /\ ~Mapped(sdl[1])
    BY <1>6, <1>9, Zenon DEF Dropped
  <2>2. g1 = g /\ p1 = p /\ f1 = f /\ sdl # << >> /\ sdl' = Without(sdl, 1)
    BY <1>9 DEF Dropped, g, p, f, g1, p1, f1
  <2>3. u = << >> \o u1
    BY <1>2, <2>1, <2>2, MappingsWithout DEF u, u1
  <2>4. << >> \o u1 = u1
    BY <1>4, ConcatEmptySeq
  <2> QED  BY <1>5, <2>1, <2>2, <2>3, <2>4
<1>10. CASE Sent
  <2>1. /\ g1 = g /\ ~lost /\ f1 = f /\ sdl # << >> /\ sdl' = Without(sdl, 1) /\ Mapped(sdl[1])
        /\ p1 = Added(p, WordOf(sdl[1]))
    BY <1>6, <1>10 DEF Sent, g, p, f, g1, p1, f1
  <2>2. sdl[1] \in AllEvents
    BY <1>2, <2>1, WithoutSeq
  <2>3. PICK x \in PortWords : x = WordOf(sdl[1])
    BY <2>2, WordEvent DEF PortWords
  <2>4. u = Joined(<<x>>, u1)
    BY <1>2, <2>1, <2>3, MappingsWithout DEF u, u1, Joined
  <2>5. p1 = Joined(p, <<x>>)
    BY <1>3, <2>1, <2>3, AddedSeq DEF Joined
  <2>6. Row(g, Joined(p, <<x>>), u1) = Row(g, p, Joined(<<x>>, u1))
    <3> DEFINE y == <<x>>
    <3>1. y \in Seq(PortWords)
      OBVIOUS
    <3> HIDE DEF y
    <3>2. Row(g, Joined(p, y), u1) = Row(g, p, Joined(y, u1))
      BY <1>3, <1>4, <3>1, RowSends
    <3> QED  BY <3>2 DEF y
  <2> QED  BY <1>5, <2>1, <2>4, <2>5, <2>6
<1>11. CASE Delivers
  <2>1. /\ ~lost /\ f1 = f /\ u1 = u /\ p # << >> /\ p1 = Without(p, 1)
        /\ g1 = Added(g, p[1])
    BY <1>6, <1>11 DEF Delivers, g, p, u, f, g1, p1, u1, f1
  <2>2. PICK x \in PortWords : x = p[1] /\ p = Joined(<<x>>, p1)
    BY <1>3, <2>1, WithoutSeq DEF Joined
  <2>3. g1 = Joined(g, <<x>>)
    BY <1>3, <2>1, <2>2, AddedSeq DEF Joined
  <2>4. Row(Joined(g, <<x>>), p1, u) = Row(g, Joined(<<x>>, p1), u)
    <3> DEFINE y == <<x>>
    <3>1. y \in Seq(PortWords)
      OBVIOUS
    <3> HIDE DEF y
    <3>2. Row(Joined(g, y), p1, u) = Row(g, Joined(y, p1), u)
      BY <1>3, <1>4, <3>1, RowReads
    <3> QED  BY <3>2 DEF y
  <2> QED  BY <1>5, <2>1, <2>2, <2>3, <2>4
<1>12. CASE LooksAt
  BY <1>6, <1>12 DEF LooksAt
<1>13. CASE Still
  <2>1. g1 = g /\ p1 = p /\ ~lost /\ f1 = f /\ u1 = u
    BY <1>6, <1>13 DEF Still, g, p, u, f, g1, p1, u1, f1
  <2> QED  BY <1>5, <2>1
<1> QED  BY <1>1, <1>7, <1>8, <1>9, <1>10, <1>11, <1>12, <1>13 DEF Flows

\* As long as nobody threw an event away, what the guest read, what the ring
\* holds and what SDL holds are together exactly the mapped events typed, in
\* their order, each once (device.c:24-70, keyboard.c:30-56).
THEOREM NothingLostCorrect == BoardSpec => []NothingLost
<1>1. BoardInit => NothingLost
  <2> SUFFICES ASSUME BoardInit PROVE NothingLost
    OBVIOUS
  <2>1. sdl = << >> /\ typed = << >> /\ got = << >> /\ Init
    BY DEF BoardInit
  <2>2. Count = 0
    BY <2>1 DEF Init, Count
  <2>3. Pending = << >>
    BY <2>2 DEF Pending
  <2>4. Types
    BY TypesInit
  <2>5. Mappings(typed) = << >> /\ Mappings(sdl) = << >>
    BY <2>1, <2>4, MappingsEmpty DEF Types, AllEvents
  <2>7. (<< >> \o << >>) \o << >> = << >>
    OBVIOUS
  <2> QED  BY <2>1, <2>3, <2>5, <2>7 DEF NothingLost
<1>2. BoardInv /\ NothingLost /\ [BoardNext]_board_vars => NothingLost'
  BY NothingLostStep
<1> QED  BY <1>1, <1>2, BoardCorrect, PTL DEF BoardSpec

-----------------------------------------------------------------------------
(* Keys typed for the debugger                                             *)

\* Once the command has cleared SDL's queue, no event in it was typed at the
\* prompt.
PromptGone ==
  pc \notin {"prompt", "clear"} => \A e \in Nodes(sdl) : e # Quit => e.prompt = FALSE

LEMMA PromptGoneStep ==
  ASSUME Types, PromptGone, [BoardNext]_board_vars
  PROVE  PromptGone'
<1>1. sdl \in Seq(AllEvents)
  BY DEF Types
<1>2. SUFFICES ASSUME pc' \notin {"prompt", "clear"}, NEW e \in Nodes(sdl'), e # Quit
               PROVE  e.prompt = FALSE
  BY DEF PromptGone, Nodes
<1>3. ASSUME pc \notin {"prompt", "clear"}, sdl' = sdl \/ (sdl # << >> /\ sdl' = Without(sdl, 1))
      PROVE  e.prompt = FALSE
  <2>1. Nodes(sdl') \subseteq Nodes(sdl)
    BY <1>1, <1>3, NodesWithout
  <2> QED  BY <1>2, <1>3, <2>1 DEF PromptGone
<1>4. ASSUME NEW k \in Keys, NEW d \in BOOLEAN, TypeKey(k, d)
      PROVE  e.prompt = FALSE
  <2>1. Nodes(sdl') = Nodes(sdl) \cup {KeyEvent(k, d, pc = "prompt")} /\ pc' = pc
    BY <1>1, <1>4, NodesAdded DEF TypeKey
  <2>2. KeyEvent(k, d, pc = "prompt").prompt = FALSE
    BY <1>2, <2>1 DEF KeyEvent
  <2> QED  BY <1>2, <2>1, <2>2 DEF PromptGone
<1>5. CASE CloseWindow
  <2>1. Nodes(sdl') = Nodes(sdl) \cup {Quit} /\ pc' = pc
    BY <1>1, <1>5, NodesAdded DEF CloseWindow
  <2> QED  BY <1>2, <2>1 DEF PromptGone
<1>6. CASE Cleared
  <2>1. sdl' = << >>
    BY <1>6 DEF Cleared
  <2> QED  BY <1>2, <2>1 DEF Nodes
<1>7. CASE Clear \/ \E c \in {"run", "look"} : Command(c)
  BY <1>2, <1>7 DEF Clear, Command
<1>8. CASE TimerSignal \/ UNCHANGED board_vars
  BY <1>2, <1>3, <1>8 DEF TimerSignal, board_vars
<1>9. CASE RunCommand \/ LookCommand
  BY <1>3, <1>9 DEF RunCommand, LookCommand
<1>10. CASE ExecRead \/ AccessFails \/ \E state \in {"RUNNING", "STOP", "END"} : ExecOther(state)
  BY <1>3, <1>10 DEF ExecRead, AccessFails, ExecOther
<1>11. CASE TestFlag \/ ClearFlag \/ PollKey \/ PollQuit \/ PollEnd \/ CheckState
  BY <1>3, <1>11 DEF TestFlag, ClearFlag, PollKey, PollQuit, PollEnd, CheckState
<1> QED  BY <1>4, <1>5, <1>6, <1>7, <1>8, <1>9, <1>10, <1>11 DEF BoardNext, MainStep

\* What is typed while NEMU waits for a command never reaches the ring
\* through device_update, whatever the user types meanwhile: ui_mainloop
\* empties SDL's queue before it runs the command (ui.c:193-196).
THEOREM PromptKeysStayCorrect == BoardSpec => PromptKeysStay
<1>1. BoardInit => PromptGone
  BY DEF BoardInit, PromptGone
<1>2. Types /\ PromptGone /\ [BoardNext]_board_vars => PromptGone'
  BY PromptGoneStep
<1>3. Types /\ PromptGone /\ [BoardNext]_board_vars =>
        [pc = "poll" /\ ring' # ring => sdl # << >> /\ ~sdl[1].prompt]_board_vars
  <2> SUFFICES ASSUME Types, PromptGone, BoardNext, pc = "poll", ring' # ring
               PROVE  sdl # << >> /\ ~sdl[1].prompt
    OBVIOUS
  <2>1. PollKey
    <3>1. ~UNCHANGED i8042
      BY DEF i8042
    <3> QED  BY <3>1, RingActs DEF LookCommand, ExecRead, AccessFails
  <2>2. sdl # << >> /\ sdl[1] # Quit
    BY <2>1 DEF PollKey
  <2>3. sdl[1] \in Nodes(sdl)
    BY <2>2, NodesWithout DEF Types
  <2>4. sdl[1].prompt = FALSE
    BY <2>2, <2>3 DEF PromptGone
  <2> QED  BY <2>2, <2>4
<1>4. BoardInv => Types
  BY DEF BoardInv
<1> QED  BY <1>1, <1>2, <1>3, <1>4, BoardCorrect, PTL DEF BoardSpec, PromptKeysStay
=============================================================================
