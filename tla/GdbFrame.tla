------------------------------ MODULE GdbFrame ------------------------------
(***************************************************************************)
(* recv_packet of tools/qemu-diff/src/protocol.c: one call of fgetc is one *)
(* step, and the characters are those of a peer that may send anything,    *)
(* restart a packet in its middle or close the line.  A run is the packets *)
(* of one connection, up to MaxPackets of them.                            *)
(***************************************************************************)
EXTENDS GdbHex, FiniteSetsExt, SequencesExt

CONSTANTS Chars,       \* the characters the peer sends in a body
          Digits,      \* and those of a checksum, besides the right ones
          Size,        \* the size of a new buffer, 4096 in the code
          Messages,    \* what a peer that follows the protocol may want to say
          MaxBody,     \* bound: characters of a packet body
          MaxPackets   \* bound: packets of a connection

Dollar == 36
Hash == 35
Brace == 125
Star == 42
Markers == {Dollar, Hash, Brace, Star}
EOF == -1

\* One doubling makes room for any run, and the markers are among the characters.
ASSUME BufferAssumption == Size >= 126 - 29 /\ {Size, MaxBody, MaxPackets} \subseteq Nat
ASSUME CharsAssumption == Markers \subseteq Chars /\ Chars \cup Digits \subseteq 0 .. 255

VARIABLES
  recv,      \* where recv_packet waits for a character, or how it ended
  reply,   \* the characters stored so far
  size,    \* the size of the buffer
  sum,     \* the checksum, a uint8_t
  escape,  \* a '}' has come
  ungot,   \* what ungetc put back; the end of the line stays here too
  digits,  \* the characters of the checksum
  sum_ok,  \* *ret_sum_ok
  body,    \* history: the characters after the last '$'
  packets  \* packets asked for so far

recv_vars == <<recv, reply, size, sum, escape, ungot, digits, sum_ok, body, packets>>

-----------------------------------------------------------------------------

\* c ^= 0x20
Flipped(c) == IF (c \div 32) % 2 = 1 THEN c - 32 ELSE c + 32

\* A fresh buffer, and the variables of the call.
Fresh == [reply |-> <<>>, size |-> Size, sum |-> 0, escape |-> FALSE]

RecvInit ==
  /\ recv = "seek" /\ reply = Fresh.reply /\ size = Fresh.size /\ sum = Fresh.sum
  /\ escape = Fresh.escape
  /\ ungot = <<>> /\ digits = <<>> /\ sum_ok = FALSE /\ body = <<>> /\ packets = 1

\* The digits of the right checksum.
RightDigits == {hex_encode(sum \div 16), hex_encode(sum % 16)}

\* What fgetc may give: what was put back, or the next character of the line.
Input == IF ungot # <<>> THEN {ungot[1]}
         ELSE {EOF} \cup IF recv \in {"msb", "lsb"} THEN Digits \cup RightDigits ELSE Chars
fgetc(c) == ungot' = IF c = EOF THEN <<EOF>> ELSE <<>>

Plus(c) == (sum + c) % 256

\* while ((c = fgetc(in)) != EOF && c != '$');
Seek ==
  /\ recv = "seek"
  /\ \E c \in Input :
       /\ fgetc(c)
       /\ recv' = CASE c = EOF -> "closed" [] c = Dollar -> "body" [] OTHER -> "seek"
  /\ UNCHANGED <<reply, size, sum, escape, digits, sum_ok, body, packets>>

\* Variants: a packet that starts over keeps the pending escape, or the sum.
RestartEscaped == /\ reply' = <<>> /\ sum' = 0 /\ body' = <<>> /\ UNCHANGED <<escape, size, recv>>
RestartSummed == /\ reply' = <<>> /\ body' = <<>> /\ escape' = FALSE
                 /\ UNCHANGED <<sum, size, recv>>
\* A packet that starts over forgets the old one; the buffer stays as large as it is.
Restart == /\ reply' = <<>> /\ sum' = 0 /\ escape' = FALSE /\ body' = <<>>
           /\ UNCHANGED <<size, recv>>

\* A character is stored, XORed if escaped, in a buffer large enough.
Store(c) ==
  /\ reply' = Append(reply, IF escape THEN Flipped(c) ELSE c)
  /\ escape' = FALSE
  /\ size' = IF Len(reply) = size THEN 2 * size ELSE size

\* The loop from its fgetc to the next.
Body ==
  /\ recv = "body"
  /\ \E c \in Input :
       /\ fgetc(c)
       /\ Len(body) < MaxBody \/ c \in {Hash, Dollar, EOF}
       /\ \/ c = EOF /\ recv' = "closed" /\ UNCHANGED <<reply, size, sum, escape, body>>
          \/ c = Dollar /\ Restart
          \/ c = Hash /\ recv' = "msb" /\ UNCHANGED <<reply, size, sum, escape, body>>
          \/ /\ c \notin {EOF, Dollar, Hash}
             /\ sum' = Plus(c) /\ body' = Append(body, c)
             /\ \/ c = Brace /\ escape' = TRUE /\ UNCHANGED <<reply, size, recv>>
                \/ c = Star /\ reply # <<>> /\ recv' = "count" /\ UNCHANGED <<reply, size, escape>>
                \/ c # Brace /\ (c = Star => reply = <<>>) /\ Store(c) /\ UNCHANGED recv
  /\ UNCHANGED <<digits, sum_ok, packets>>

\* Variant: the run is written without a look at the size.
NoRoom(count) == size
\* The size of the buffer before the run is written.
RoomFor(count) == IF Len(reply) + count > size THEN 2 * size ELSE size

\* After a '*': a run of the last character, or a '*' that stands for itself.
Count ==
  /\ recv = "count" /\ recv' = "body"
  /\ \E c2 \in Input :
       IF c2 < 29 \/ c2 > 126 \/ c2 \in {Dollar, Hash}
       THEN /\ ungot' = <<c2>> /\ Store(Star) /\ UNCHANGED <<sum, body>>
       ELSE /\ fgetc(c2)
            /\ reply' = reply \o [i \in 1 .. c2 - 29 |-> Last(reply)]
            /\ size' = RoomFor(c2 - 29)
            /\ sum' = Plus(c2) /\ body' = Append(body, c2)
            /\ UNCHANGED escape
  /\ UNCHANGED <<digits, sum_ok, packets>>

\* The first digit of the checksum; the end of the line is the character 255.
Msb ==
  /\ recv = "msb" /\ recv' = "lsb"
  /\ \E c \in Input : fgetc(c) /\ digits' = <<c % 256>>
  /\ UNCHANGED <<reply, size, sum, escape, sum_ok, body, packets>>

\* The second digit, the verdict and the terminator.
Lsb ==
  /\ recv = "lsb" /\ recv' = "done"
  /\ \E c \in Input : fgetc(c) /\ digits' = Append(digits, c % 256)
  /\ sum_ok' = (sum = gdb_decode_hex(digits'[1], digits'[2]))
  /\ size' = IF Len(reply) = size THEN size + 1 ELSE size
  /\ UNCHANGED <<reply, sum, escape, body, packets>>

\* The next call of recv_packet.
Again ==
  /\ recv = "done" /\ packets < MaxPackets /\ packets' = packets + 1
  /\ recv' = "seek" /\ reply' = Fresh.reply /\ size' = Fresh.size /\ sum' = Fresh.sum
  /\ escape' = Fresh.escape /\ body' = <<>> /\ digits' = <<>>
  /\ sum_ok' = FALSE /\ UNCHANGED ungot

RecvNext == Seek \/ Body \/ Count \/ Msb \/ Lsb \/ Again

RecvSpec == RecvInit /\ [][RecvNext]_recv_vars

-----------------------------------------------------------------------------

\* The reply never runs over its buffer, and a reply handed out has room for its
\* terminator: one doubling is enough for the longest run ("get a bigger buffer if
\* needed", "terminate it for good measure").
InBuffer == Len(reply) <= size /\ (recv = "done" => Len(reply) < size)

\* What a peer that follows the protocol writes: a unit is a character of the payload,
\* escaped when it is a marker, and how often it repeats.
Unit == [char : 0 .. 255, more : {m \in 0 .. 126 - 29 : m + 29 \notin {Dollar, Hash}}]
ASSUME MessagesAssumption == Messages \subseteq Seq(Unit)

LineOf(u) == (IF u.char \in Markers THEN <<Brace, Flipped(u.char)>> ELSE <<u.char>>)
               \o (IF u.more = 0 THEN <<>> ELSE <<Star, u.more + 29>>)
PayloadOf(u) == [i \in 1 .. u.more + 1 |-> u.char]
Wire(s) == FlattenSeq([i \in 1 .. Len(s) |-> LineOf(s[i])])
Payload(s) == FlattenSeq([i \in 1 .. Len(s) |-> PayloadOf(s[i])])
Written == {<<Wire(s), Payload(s)>> : s \in Messages}

\* A packet the protocol's own rules produced is given back as the payload it stands
\* for, whatever came before its last '$'.
DecodesWhatWasWritten ==
  recv = "done" => \A w \in Written : body = w[1] => reply = w[2]

\* The sum of the characters of a packet, of any width.
Total(s) == LET t[n \in 0 .. Len(s)] == IF n = 0 THEN 0 ELSE t[n - 1] + s[n] IN t[Len(s)]

\* A packet is accepted if and only if its two digits are the sum of all characters
\* between its last '$' and its '#', counts and escapes included; one that is cut short
\* is never accepted ("not part of the checksum").
SumGuards ==
  recv = "done" =>
    LET total == Total(body) % 256
    IN sum_ok <=> /\ {digits[1], digits[2]} \subseteq HexDigits
                  /\ hex_nibble(digits[1]) = total \div 16
                  /\ hex_nibble(digits[2]) = total % 16
=============================================================================
