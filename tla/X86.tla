-------------------------------- MODULE X86 ---------------------------------
(***************************************************************************)
(* One instruction of the x86 guest (exec_once of cpu.c): what X86Decode   *)
(* found is carried out by the functions of isa/x86/exec.  Flags are set   *)
(* as X86Alu says.                                                         *)
(***************************************************************************)
EXTENDS X86Decode, Bitwise

CONSTANT PortIn    \* external: the word a device gives at every port

ASSUME PortAssumption == PortIn \in 0 .. Long - 1

VARIABLES machine,   \* the guest
          listing    \* history: the program that was loaded, instruction by instruction

vars == <<machine, listing>>

Alu == INSTANCE X86Alu WITH
  eflags <- machine.eflags, Operands <- {}, MaxLimbs <- 0, MaxBetween <- 0,
  last <- 0, chain <- 0, between <- 0

-----------------------------------------------------------------------------

Wrote(d, v) == [d EXCEPT !.m = operand_write(d, v)]
WroteReg(d, r, v, w) == [d EXCEPT !.m = rtl_sr(@, r, v, w)]
WithFlags(d, flags) == [d EXCEPT !.m.eflags = flags]
Stopped(d) == [d EXCEPT !.m = Dead(@)]

rtl_push(d, v) ==
  LET esp == (d.m.gpr[ESP] - 4) % Long
  IN [d EXCEPT !.m = rtl_sm([@ EXCEPT !.gpr[ESP] = esp], esp, v, 4)]
rtl_pop(d) ==
  LET esp == d.m.gpr[ESP]
      up == [d EXCEPT !.m.gpr[ESP] = (@ + 4) % Long]
  IN [d |-> IF Lies(esp, 4) THEN up ELSE Stopped(up), val |-> rtl_lm(d.m, esp, 4)]

rtl_jrelop(d, is_jmp, target) ==
  [d EXCEPT !.m.cpu_pc = IF is_jmp THEN target ELSE @, !.m.is_jmp = is_jmp]
rtl_j(d, target) == rtl_jrelop(d, TRUE, target)

\* rtl_setcc with its inverting bit; there is no parity flag.
Condition(opcode) ==
  LET cc == opcode % 16
      name == <<"O", "B", "E", "BE", "S", "P", "L", "LE">>[(cc \div 2) + 1]
  IN IF name = "P" THEN [known |-> FALSE, bit |-> 0]
     ELSE [known |-> TRUE, bit |-> (Alu!rtl_setcc(name) + cc) % 2]

\* rol: every turn of the loop rotates the operand it was given, by one.
Rotated(d) ==
  LET msb == Alu!rtl_msb(d.dest.val, d.dest.width)
      flags == [d.m.eflags EXCEPT !.CF = msb,
                  !.OF = IF d.src.val = 1 THEN (msb + d.m.eflags.CF) % 2 ELSE 0]
  IN IF d.src.val = 0 THEN d ELSE WithFlags(Wrote(d, (2 * d.dest.val + msb) % Long), flags)

\* The host takes a shift count modulo the bits of a word.
Bits == CHOOSE n \in 1 .. 64 : 2 ^ n = Long
Shifted(ins, v, n) ==
  LET p == 2 ^ (n % Bits)
  IN CASE ins = "shl" -> (v * p) % Long [] ins = "shr" -> v \div p
       [] ins = "sar" -> (Signed(v, 4) \div p) % Long

\* add, adc, sub, sbb and cmp: the value and the flags, as in X86Alu.
Additive(ins, a, b, w) ==
  LET plus == ins \in {"add", "adc"}
      CF == machine.eflags.CF
      s0 == IF plus THEN Alu!rtl_add(a, b) ELSE Alu!rtl_sub(a, b)
      s1 == (IF plus THEN s0 + CF ELSE s0 - CF) % Size[w]
      Carry(x, y) == IF plus THEN Alu!rtl_is_add_carry(x, y) ELSE Alu!rtl_is_sub_carry(x, y)
      Over(x) == IF plus THEN Alu!rtl_is_add_overflow(x, a, b, w) ELSE Alu!rtl_is_sub_overflow(x, a, b, w)
  IN IF ins \in {"adc", "sbb"}
     THEN [val |-> s1, flags |-> Alu!Flags(Alu!rtl_or(Carry(s0, a), Carry(s1, s0)), Over(Carry(s1, s0)), s1, w)]
     ELSE [val |-> s0, flags |-> Alu!Flags(Carry(s0, a), Over(s0), s0, w)]

\* mul and imul with one operand; Num is what a word of the host counts as.
Multiplied(d, signed) ==
  LET w == d.dest.width
      Num(v) == IF signed THEN Signed(v, 4) ELSE v
      p == Num(d.dest.val) * Num(rtl_lr(d.m, EAX, w))
  IN IF w = 1 THEN WroteReg(d, EAX, p % Long, 2)
     ELSE WroteReg(WroteReg(d, EAX, p % Long, w), EDX,
                   IF w = 2 THEN (p % Long) \div Size[2] ELSE (p \div Long) % Long, w)

\* C's division.
Abs(n) == IF n < 0 THEN -n ELSE n
Quot(n, q) == IF (n < 0) = (q < 0) THEN Abs(n) \div Abs(q) ELSE -(Abs(n) \div Abs(q))

\* div and idiv: the dividend is a word of the host, a double one for 4-byte operands;
\* SIGFPE when the divisor is 0 or the quotient too large for the host.
Divided(d, signed) ==
  LET w == d.dest.width
      low == rtl_lr(d.m, EAX, IF w = 4 THEN 4 ELSE 2)
      n == IF w = 1 THEN low ELSE low + Size[w] * rtl_lr(d.m, EDX, w)
      top == IF w = 4 THEN Long * Long ELSE Long
      dividend == IF signed /\ 2 * n >= top THEN n - top ELSE n
      divisor == IF signed THEN Signed(d.dest.val, 4) ELSE d.dest.val
      q == Quot(dividend, divisor)
  IN IF divisor = 0 THEN Stopped(d)
     ELSE IF signed /\ 2 * q = top THEN Stopped(d)
     ELSE WroteReg(WroteReg(d, EAX, q % Long, w), IF w = 1 THEN AH ELSE EDX, (dividend - q * divisor) % Long, w)

\* cltd and cwtl look at the prefix themselves.
Widened(d, ins) ==
  LET w == IF d.m.is_operand_size_16 THEN 2 ELSE 4
  IN IF ins = "cltd" THEN WroteReg(d, EDX, IF Signed(d.m.gpr[EAX], w) < 0 THEN Long - 1 ELSE 0, w)
     ELSE WroteReg(d, EAX, rtl_sext(d.m.gpr[EAX], w \div 2), w)

Moved(d, ins) ==
  LET wide == [d EXCEPT !.dest.width = IF d.m.is_operand_size_16 THEN 2 ELSE 4]
  IN CASE ins = "mov" -> Wrote(d, d.src.val)
       [] ins = "lea" -> Wrote(d, d.src.at)
       [] ins = "movzx" -> Wrote(wide, d.src.val)
       [] ins = "movsx" -> Wrote(wide, rtl_sext(d.src.val, d.src.width))

Stacked(d, ins) ==
  LET p == rtl_pop(IF ins = "leave" THEN [d EXCEPT !.m.gpr[ESP] = d.m.gpr[EBP]] ELSE d)
  IN CASE ins = "push" -> rtl_push(d, d.dest.val)
       [] ins = "pop" -> Wrote(p.d, p.val)
       [] ins = "leave" -> WroteReg(p.d, EBP, p.val, 4)
       [] ins = "call" -> rtl_j(rtl_push(d, d.seq_pc), d.jmp_pc)
       [] ins = "call_rm" -> rtl_j(rtl_push(d, d.seq_pc), d.dest.val)
       [] ins = "ret" -> rtl_j(p.d, p.val)

Logical(d, ins) ==
  LET a == d.dest.val
      b == d.src.val
      s0 == CASE ins \in {"and", "test"} -> a & b [] ins = "or" -> a | b [] ins = "xor" -> a ^^ b
  IN WithFlags(IF ins = "test" THEN d ELSE Wrote(d, s0), Alu!Flags(0, 0, s0, d.dest.width))

\* shl, shr and sar: the value of the operand stands where its width belongs.
Shift(d, ins) ==
  LET s0 == Shifted(ins, d.dest.val, d.src.val)
  IN WithFlags(Wrote(d, s0), Alu!Flags(machine.eflags.CF, machine.eflags.OF, s0, d.dest.val))

\* imul with two and three operands: s1 and s0 are the operands with their signs.
Product(a, b) == (a * b) % Long

\* jmp, jcc, jmp_rm and setcc; a condition that is not known panics.
Jumped(d, ins) ==
  LET c == Condition(d.opcode)
  IN CASE ins = "jmp" -> rtl_j(d, d.jmp_pc)
       [] ins = "jmp_rm" -> rtl_j(d, d.dest.val)
       [] ins = "jcc" -> IF c.known THEN rtl_jrelop(d, c.bit = 1, d.jmp_pc) ELSE Stopped(d)
       [] ins = "setcc" -> IF c.known THEN Wrote(d, c.bit) ELSE Stopped(d)

\* in and out, as wide as the operand in the accumulator.
Ported(d, ins) ==
  IF ins = "in" THEN Wrote(d, PortIn % Size[d.dest.width])
  ELSE [d EXCEPT !.m.out = <<d.dest.val, d.src.val % Size[d.dest.width]>>]

\* inv and nemu_trap; inv fetches the instruction again to show it.
Invalid(d) ==
  [Past([d EXCEPT !.seq_pc = d.m.cpu_pc], 8) EXCEPT !.m.state = IF @ = "dead" THEN @ ELSE "abort"]
Trapped(d) == [d EXCEPT !.m.state = "end"]

\* inc and dec: the value of the operand stands where its width belongs.
Counted(d, s0) ==
  WithFlags(Wrote(d, s0), Alu!Flags(machine.eflags.CF, machine.eflags.OF, s0, d.dest.val))

\* Variant: the prefix stays on.
Prefixed16(d) == d
\* isa_exec is done, the prefix is off again.
Unprefixed(d) == [d EXCEPT !.m.is_operand_size_16 = FALSE]

-----------------------------------------------------------------------------
(* exec.c: idex, the groups, the escape byte and the prefix                *)

RECURSIVE idex(_, _)

\* isa_exec and, with 0x100, what follows the escape byte.
Opcode(d, table) ==
  LET o == table + CodeByte(d, 1)
  IN idex(set_width([Past(d, 1) EXCEPT !.opcode = o], opcode_table[o].width), opcode_table[o])

Execute(d, ins) ==
  CASE ins \in DOMAIN Groups ->
         LET e == Groups[ins][d.ext_opcode + 1]
         IN idex(d, [decode |-> IF e = "test" THEN "test_I" ELSE "none", execute |-> e])
    [] ins = "2byte_esc" -> Opcode(d, \h100)
    [] ins = "operand_size" -> Unprefixed(Opcode([d EXCEPT !.m.is_operand_size_16 = TRUE], 0))
    [] ins \in {"add", "adc", "sub", "sbb", "cmp"} ->
         LET r == Additive(ins, d.dest.val, d.src.val, d.dest.width)
         IN WithFlags(IF ins = "cmp" THEN d ELSE Wrote(d, r.val), r.flags)
    [] ins = "inc" -> Counted(d, Alu!rtl_add(d.dest.val, 1))
    [] ins = "dec" -> Counted(d, Alu!rtl_sub(d.dest.val, 1))
    [] ins \in {"and", "or", "xor", "test"} -> Logical(d, ins)
    [] ins \in {"shl", "shr", "sar"} -> Shift(d, ins)
    [] ins = "rol" -> Rotated(d)
    [] ins = "not" -> Wrote(d, Long - 1 - d.dest.val)
    [] ins = "neg" -> Wrote(d, Alu!rtl_sub(0, d.dest.val))
    [] ins \in {"mul", "imul1"} -> Multiplied(d, ins = "imul1")
    [] ins = "imul2" -> Wrote(d, Product(Signed(d.dest.val, d.dest.width), Signed(d.src.val, d.src.width)))
    [] ins = "imul3" -> Wrote(d, Product(Signed(d.src2.val, d.src.width), Signed(d.src.val, d.src.width)))
    [] ins \in {"div", "idiv"} -> Divided(d, ins = "idiv")
    [] ins \in {"mov", "lea", "movzx", "movsx"} -> Moved(d, ins)
    [] ins \in {"cltd", "cwtl"} -> Widened(d, ins)
    [] ins \in {"push", "pop", "leave", "call", "call_rm", "ret"} -> Stacked(d, ins)
    [] ins \in {"jmp", "jmp_rm", "jcc", "setcc"} -> Jumped(d, ins)
    [] ins \in {"in", "out"} -> Ported(d, ins)
    [] ins = "nop" -> d
    [] ins = "nemu_trap" -> Trapped(d)
    [] ins = "inv" -> Invalid(d)

idex(d, e) == Execute(Decode(d, e.decode), e.execute)

\* exec_once: isa_exec and update_pc; an assertion leaves nothing to look at.
exec_once(m) ==
  LET d == Opcode(DecInfo(m), 0)
  IN IF d.m.state = "dead" THEN Dead(m)
     ELSE [d.m EXCEPT !.is_jmp = FALSE, !.cpu_pc = IF d.m.is_jmp THEN @ ELSE d.seq_pc]

\* cpu_exec's loop.
Next == /\ machine.state = "running" /\ machine' = exec_once(machine) /\ UNCHANGED listing
=============================================================================
