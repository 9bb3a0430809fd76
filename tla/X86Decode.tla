----------------------------- MODULE X86Decode ------------------------------
(***************************************************************************)
(* How the x86 guest reads an instruction (isa/x86/decode): the table of   *)
(* opcodes, the helpers that find the operands, ModR/M and SIB bytes.  The *)
(* bytes of opcodes, ModR/M and SIB are those of the machine; data and     *)
(* immediate bytes have Byte values, as in X86Alu, and a register four.    *)
(***************************************************************************)
EXTENDS Integers, SequencesExt

CONSTANTS Byte,      \* the number of values of a data byte, 256 in the code
          MemSize,   \* the bytes of data memory, from address 0
          CodeBase   \* the address of the first byte of code

ASSUME ByteAssumption == Byte \in Nat /\ Byte > 1 /\ Byte % 2 = 0
ASSUME MemAssumption == MemSize \in Nat /\ CodeBase \in Nat

Size == [w \in {1, 2, 4} |-> Byte ^ w]
Long == Size[4]

EAX == 0
ECX == 1
EDX == 2
ESP == 4
EBP == 5
AH == 4

\* The number whose w bytes, the low one first, b gives.
Little(b, w) == b[1] + (IF w = 1 THEN 0 ELSE Byte * b[2])
                     + (IF w = 4 THEN Size[2] * (b[3] + Byte * b[4]) ELSE 0)

\* A machine is a record of gpr, eflags, mem, code, cpu_pc, is_jmp, is_operand_size_16,
\* out (the last port written) and state.

\* reg_b: the first four are low bytes, the others the bytes above them.
rtl_lr(m, r, w) == IF w = 1 /\ r >= AH THEN (m.gpr[r - AH] \div Byte) % Byte ELSE m.gpr[r] % Size[w]
rtl_sr(m, r, v, w) ==
  IF w = 1 /\ r >= AH
  THEN [m EXCEPT !.gpr[r - AH] = (@ - (@ % Size[2])) + (v % Byte) * Byte + (@ % Byte)]
  ELSE [m EXCEPT !.gpr[r] = (@ - (@ % Size[w])) + (v % Size[w])]

\* Bytes of memory; beyond it an assertion ends NEMU.
Lies(a, w) == a + w <= MemSize
Dead(m) == [m EXCEPT !.state = "dead"]
rtl_lm(m, a, w) == IF Lies(a, w) THEN Little([i \in 1 .. w |-> m.mem[a + i]], w) ELSE 0
rtl_sm(m, a, v, w) ==
  IF Lies(a, w) THEN [m EXCEPT !.mem = [i \in DOMAIN @ |->
                        IF i - a \in 1 .. w THEN (v \div Byte ^ (i - a - 1)) % Byte ELSE @[i]]]
  ELSE Dead(m)

\* The value of the low bytes as a signed number, and that number in a register.
Signed(v, w) == IF v % Size[w] >= Size[w] \div 2 THEN (v % Size[w]) - Size[w] ELSE v % Size[w]
rtl_sext(v, w) == Signed(v, w) % Long

-----------------------------------------------------------------------------
(* The opcode table: the helper that decodes, the one that executes, and   *)
(* the width (0: by the operand size); 256 and up follow the byte 0x0f.    *)

Arith == <<"add", "or", "adc", "sbb", "and", "sub", "xor", "cmp">>

\* The eight rows of the arithmetic; byte xor is decoded towards memory both times.
ArithRows ==
  {<<8 * k + j, 8 * k + j,
     IF 8 * k + j = \h32 THEN "G2E" ELSE <<"G2E", "G2E", "E2G", "E2G", "I2a", "I2a">>[j + 1],
     Arith[k + 1], (j + 1) % 2>> : k \in 0 .. 7, j \in 0 .. 5}

\* first, last, decode, execute, width
Rows == ArithRows \cup {
  <<\h0f, \h0f, "none", "2byte_esc", 0>>, <<\h40, \h47, "r", "inc", 0>>, <<\h48, \h4f, "r", "dec", 0>>,
  <<\h50, \h57, "r", "push", 0>>, <<\h58, \h5f, "r", "pop", 0>>, <<\h66, \h66, "none", "operand_size", 0>>,
  <<\h68, \h68, "I", "push", 0>>, <<\h69, \h69, "I_E2G", "imul3", 0>>, <<\h6a, \h6a, "push_SI", "push", 1>>,
  <<\h70, \h7f, "J", "jcc", 1>>, <<\h80, \h80, "I2E", "gp1", 1>>, <<\h81, \h81, "I2E", "gp1", 0>>,
  <<\h83, \h83, "SI2E", "gp1", 0>>, <<\h84, \h84, "G2E", "test", 1>>, <<\h85, \h85, "G2E", "test", 0>>,
  <<\h88, \h88, "mov_G2E", "mov", 1>>, <<\h89, \h89, "mov_G2E", "mov", 0>>,
  <<\h8a, \h8a, "mov_E2G", "mov", 1>>, <<\h8b, \h8b, "mov_E2G", "mov", 0>>,
  <<\h8d, \h8d, "lea_M2G", "lea", 0>>, <<\h90, \h90, "none", "nop", 0>>,
  <<\h98, \h98, "none", "cwtl", 0>>, <<\h99, \h99, "none", "cltd", 0>>,
  <<\ha0, \ha0, "O2a", "mov", 1>>, <<\ha1, \ha1, "O2a", "mov", 0>>,
  <<\ha2, \ha2, "a2O", "mov", 1>>, <<\ha3, \ha3, "a2O", "mov", 0>>,
  <<\ha8, \ha8, "I2a", "test", 1>>, <<\ha9, \ha9, "I2a", "test", 0>>,
  <<\hb0, \hb7, "mov_I2r", "mov", 1>>, <<\hb8, \hbf, "mov_I2r", "mov", 0>>,
  <<\hc0, \hc0, "gp2_Ib2E", "gp2", 1>>, <<\hc1, \hc1, "gp2_Ib2E", "gp2", 0>>, <<\hc3, \hc3, "none", "ret", 0>>,
  <<\hc6, \hc6, "mov_I2E", "mov", 1>>, <<\hc7, \hc7, "mov_I2E", "mov", 0>>, <<\hc9, \hc9, "none", "leave", 0>>,
  <<\hd0, \hd0, "gp2_1_E", "gp2", 1>>, <<\hd1, \hd1, "gp2_1_E", "gp2", 0>>,
  <<\hd2, \hd2, "gp2_cl2E", "gp2", 1>>, <<\hd3, \hd3, "gp2_cl2E", "gp2", 0>>,
  <<\hd6, \hd6, "none", "nemu_trap", 0>>, <<\he8, \he8, "J", "call", 0>>, <<\he9, \he9, "J", "jmp", 0>>,
  <<\heb, \heb, "J", "jmp", 1>>, <<\hec, \hec, "in_dx2a", "in", 1>>, <<\hed, \hed, "in_dx2a", "in", 0>>,
  <<\hee, \hee, "out_a2dx", "out", 1>>, <<\hef, \hef, "out_a2dx", "out", 0>>,
  <<\hf6, \hf6, "E", "gp3", 1>>, <<\hf7, \hf7, "E", "gp3", 0>>,
  <<\hfe, \hfe, "E", "gp4", 1>>, <<\hff, \hff, "E", "gp5", 0>>,
  <<\h101, \h101, "gp7_E", "gp7", 0>>, <<\h180, \h18f, "J", "jcc", 0>>,
  <<\h190, \h197, "setcc_E", "setcc", 1>>, <<\h19f, \h19f, "setcc_E", "setcc", 1>>,
  <<\h1af, \h1af, "E2G", "imul2", 0>>, <<\h1b6, \h1b6, "mov_E2G", "movzx", 1>>,
  <<\h1b7, \h1b7, "mov_E2G", "movzx", 2>>, <<\h1be, \h1be, "mov_E2G", "movsx", 1>>,
  <<\h1bf, \h1bf, "mov_E2G", "movsx", 2>>, <<\h1ff, \h1ff, "E", "gp5", 0>>}

opcode_table ==
  [o \in 0 .. 511 |->
     IF \E r \in Rows : o \in r[1] .. r[2]
     THEN LET r == CHOOSE x \in Rows : o \in x[1] .. x[2]
          IN [decode |-> r[3], execute |-> r[4], width |-> r[5]]
     ELSE [decode |-> "none", execute |-> "inv", width |-> 0]]

\* The groups, by the middle bits of ModR/M; test is the only entry that decodes more.
Groups ==
  [gp1 |-> Arith,
   gp2 |-> <<"rol", "inv", "inv", "inv", "shl", "shr", "inv", "sar">>,
   gp3 |-> <<"test", "inv", "not", "neg", "mul", "imul1", "div", "idiv">>,
   gp4 |-> <<"inv", "dec", "inv", "inv", "inv", "inv", "inv", "inv">>,
   gp5 |-> <<"inc", "dec", "call_rm", "inv", "jmp_rm", "inv", "push", "inv">>,
   gp7 |-> [i \in 1 .. 8 |-> "inv"]]

-----------------------------------------------------------------------------
(* decinfo: the machine, seq_pc, the opcode, three operands                *)

\* An operand has a type, a width, a place (register, address or immediate) and a value.
NoOperand == [type |-> "none", width |-> 4, at |-> 0, val |-> 0]
DecInfo(m) == [m |-> m, seq_pc |-> m.cpu_pc, opcode |-> 0, ext_opcode |-> 0, jmp_pc |-> 0,
               dest |-> NoOperand, src |-> NoOperand, src2 |-> NoOperand]

\* instr_fetch: the bytes at seq_pc, and decinfo after them.
CodeByte(d, i) == LET at == d.seq_pc - CodeBase + i IN IF at \in DOMAIN d.m.code THEN d.m.code[at] ELSE 0
Fetched(d, len) == Little([i \in 1 .. len |-> CodeByte(d, i)], len) % Long
Past(d, len) ==
  [d EXCEPT !.seq_pc = (@ + len) % Long,
            !.m.state = IF d.seq_pc - CodeBase + len \in 1 .. Len(d.m.code) THEN @ ELSE "dead"]

set_width(d, width) ==
  LET w == IF width = 0 THEN IF d.m.is_operand_size_16 THEN 2 ELSE 4 ELSE width
  IN [d EXCEPT !.dest.width = w, !.src.width = w, !.src2.width = w]

\* Operand o of decinfo is register r; its value is loaded.
SetReg(d, o, r, load) ==
  [d EXCEPT ![o].type = "reg", ![o].at = r,
            ![o].val = IF load THEN rtl_lr(d.m, r, d[o].width) ELSE @]
SetMem(d, o, a, load) ==
  [d EXCEPT ![o].type = "mem", ![o].at = a,
            ![o].val = IF load THEN rtl_lm(d.m, a, d[o].width) ELSE @,
            !.m.state = IF load /\ ~Lies(a, d[o].width) THEN "dead" ELSE @]
SetImm(d, o, v) == [d EXCEPT ![o].type = "imm", ![o].at = v, ![o].val = v]

\* Variant: no exception for the base register in the SIB byte.
NoBasePlain(mod, rm, base) == mod = 0 /\ rm = EBP
\* mod 0 with base 5 means no base but four bytes of displacement.
NoBase(mod, rm, base) == mod = 0 /\ base = EBP

\* load_addr, with seq_pc behind ModR/M.
load_addr(d, mod, rm, o, load) ==
  LET sib == CodeByte(d, 1)
      base == IF rm = ESP THEN sib % 8 ELSE rm
      index == IF rm = ESP THEN (sib \div 8) % 8 ELSE ESP
      d1 == IF rm = ESP THEN Past(d, 1) ELSE d
      len == IF NoBase(mod, rm, base) \/ mod = 2 THEN 4 ELSE mod
      disp == IF len = 0 THEN 0 ELSE IF len = 1 THEN rtl_sext(Fetched(d1, 1), 1) ELSE Fetched(d1, len)
      addr == disp + (IF NoBase(mod, rm, base) THEN 0 ELSE d.m.gpr[base])
                   + (IF index = ESP THEN 0 ELSE d.m.gpr[index] * 2 ^ (sib \div 64))
  IN SetMem(IF len = 0 THEN d1 ELSE Past(d1, len), o, addr % Long, load)

\* The rm and, unless it is "none", the reg operand.
read_ModR_M(d, rm, load_rm, reg, load_reg) ==
  LET b == CodeByte(d, 1)
      d1 == [Past(d, 1) EXCEPT !.ext_opcode = (b \div 8) % 8]
      d2 == IF reg = "none" THEN d1 ELSE SetReg(d1, reg, (b \div 8) % 8, load_reg)
  IN IF b \div 64 = 3 THEN SetReg(d2, rm, b % 8, load_rm) ELSE load_addr(d2, b \div 64, b % 8, rm, load_rm)

\* The decode_op helpers, by name.
DecodeOp(d, s) ==
  CASE s[1] = "rm" -> read_ModR_M(d, s[2], s[3], s[4], s[5])
    [] s[1] = "width" -> [d EXCEPT ![s[2]].width = s[3]]
    [] s[1] = "I" -> LET w == d[s[2]].width IN SetImm(Past(d, w), s[2], Fetched(d, w))
    [] s[1] = "SI" ->
         LET w == d[s[2]].width
             p == SetImm(Past(d, w), s[2], IF w = 1 THEN rtl_sext(Fetched(d, w), w) ELSE Fetched(d, w))
         IN IF w = 2 THEN [p EXCEPT !.m = Dead(@)] ELSE p
    [] s[1] = "a" -> SetReg(d, s[2], EAX, s[3])
    [] s[1] = "r" -> SetReg(d, s[2], d.opcode % 8, s[3])
    [] s[1] = "O" -> SetMem(Past(d, 4), s[2], Fetched(d, 4), s[3])
    [] s[1] = "one" -> SetImm(d, "src", 1)
    [] s[1] = "cl" -> [SetReg(d, "src", ECX, TRUE) EXCEPT !.src.val = rtl_lr(d.m, ECX, 1)]
    [] s[1] = "dx" -> [SetReg(d, s[2], EDX, TRUE) EXCEPT ![s[2]].val = rtl_lr(d.m, EDX, 2)]
    [] s[1] = "cut" -> [d EXCEPT !.src.val = IF d.dest.width = 2 THEN @ % Size[2] ELSE @]
    [] s[1] = "target" -> [d EXCEPT !.jmp_pc = (d.dest.at + d.seq_pc) % Long]

\* The decode helpers the table names, as rows of steps.
Helper ==
  LET E(load) == <<"rm", "dest", load, "none", FALSE>>
      I == <<"I", "src">>
      byte == <<"width", "src", 1>>
  IN [none |-> <<>>,
      G2E |-> <<<<"rm", "dest", TRUE, "src", TRUE>>>>,
      mov_G2E |-> <<<<"rm", "dest", FALSE, "src", TRUE>>>>,
      E2G |-> <<<<"rm", "src", TRUE, "dest", TRUE>>>>,
      mov_E2G |-> <<<<"rm", "src", TRUE, "dest", FALSE>>>>,
      lea_M2G |-> <<<<"rm", "src", FALSE, "dest", FALSE>>>>,
      I2a |-> <<<<"a", "dest", TRUE>>, I>>,
      I_E2G |-> <<<<"rm", "src2", TRUE, "dest", FALSE>>, I>>,
      I2E |-> <<E(TRUE), I>>,
      mov_I2E |-> <<E(FALSE), I>>,
      mov_I2r |-> <<<<"r", "dest", FALSE>>, I>>,
      I |-> <<<<"I", "dest">>>>,
      r |-> <<<<"r", "dest", TRUE>>>>,
      E |-> <<E(TRUE)>>,
      setcc_E |-> <<E(FALSE)>>,
      gp7_E |-> <<E(FALSE)>>,
      test_I |-> <<I>>,
      SI2E |-> <<E(TRUE), byte, <<"SI", "src">>, <<"cut">>>>,
      gp2_1_E |-> <<E(TRUE), <<"one">>>>,
      gp2_cl2E |-> <<E(TRUE), <<"cl">>>>,
      gp2_Ib2E |-> <<E(TRUE), byte, I>>,
      O2a |-> <<<<"O", "src", TRUE>>, <<"a", "dest", FALSE>>>>,
      a2O |-> <<<<"a", "src", TRUE>>, <<"O", "dest", FALSE>>>>,
      J |-> <<<<"SI", "dest">>, <<"target">>>>,
      push_SI |-> <<<<"SI", "dest">>>>,
      in_dx2a |-> <<<<"dx", "src">>, <<"a", "dest", FALSE>>>>,
      out_a2dx |-> <<<<"a", "src", TRUE>>, <<"dx", "dest">>>>]

Decode(d, helper) == FoldLeft(DecodeOp, d, Helper[helper])

\* operand_write
operand_write(d, v) ==
  CASE d.dest.type = "reg" -> rtl_sr(d.m, d.dest.at, v, d.dest.width)
    [] d.dest.type = "mem" -> rtl_sm(d.m, d.dest.at, v, d.dest.width)
    [] OTHER -> Dead(d.m)
=============================================================================
