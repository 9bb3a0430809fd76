------------------------------- MODULE GdbHex -------------------------------
(***************************************************************************)
(* The hexadecimal of the GDB remote protocol (tools/qemu-diff): bytes,    *)
(* checksums and registers travel as pairs of digits.                      *)
(***************************************************************************)
EXTENDS Integers, Sequences

DecimalDigits == 48 .. 57
UpperDigits == 65 .. 70
LowerDigits == 97 .. 102
HexDigits == DecimalDigits \cup UpperDigits \cup LowerDigits

hex_nibble(hex) ==
  IF hex \in DecimalDigits THEN hex - 48 ELSE (IF hex \in UpperDigits THEN hex + 32 ELSE hex) - 87

hex_encode(digit) == IF digit > 9 THEN 97 + digit - 10 ELSE 48 + digit

\* UINT16_MAX tells that there is no number.
gdb_decode_hex(msb, lsb) ==
  IF {msb, lsb} \subseteq HexDigits THEN 16 * hex_nibble(msb) + hex_nibble(lsb) ELSE 65535

\* Pairs up to the first that is none; the first weighs least.
gdb_decode_hex_str(bytes) ==
  LET pair[n \in 1 .. Len(bytes) \div 2] == gdb_decode_hex(bytes[2 * n - 1], bytes[2 * n])
      v[n \in Nat] == IF n \notin DOMAIN pair \/ pair[n] = 65535 THEN 0
                      ELSE pair[n] + 256 * v[n + 1]
  IN v[1]

\* Two digits for each byte, as gdb_setregs and gdb_memcpy_to_qemu_small print them.
HexBytes(bytes) ==
  [i \in 1 .. 2 * Len(bytes) |->
     LET b == bytes[(i + 1) \div 2] IN hex_encode(IF i % 2 = 1 THEN b \div 16 ELSE b % 16)]
=============================================================================
