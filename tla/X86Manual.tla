----------------------------- MODULE X86Manual ------------------------------
(***************************************************************************)
(* What the i386 manual says of the instructions NEMU knows: how they are  *)
(* written in bytes and what they change.  A program is loaded in any of   *)
(* its encodings and run by X86, and every instruction of it must do what  *)
(* is said here.  Where the code is known to differ (README) the           *)
(* instruction is in Astray and nothing is asked of its result.            *)
(***************************************************************************)
EXTENDS X86

CONSTANTS Programs,   \* sequences of instructions
          Starts      \* the registers, flags and memory a program may start with

\* An operand: a register, a memory cell (base or index -1: none) or an immediate.
Reg(n) == [kind |-> "reg", n |-> n]
Mem(base, index, scale, disp) ==
  [kind |-> "mem", base |-> base, index |-> index, scale |-> scale, disp |-> disp]
Imm(v) == [kind |-> "imm", v |-> v % Long]
None == [kind |-> "none"]
A == Reg(EAX)

LittleEndian(v, w) == [i \in 1 .. w |-> (v \div Byte ^ (i - 1)) % Byte]
\* Does a value survive being cut to one byte and extended again?
Short(v) == v % Long \in 0 .. (Byte \div 2) - 1 \cup Long - Byte \div 2 .. Long - 1

-----------------------------------------------------------------------------
(* Assembler                                                               *)

\* ModR/M, SIB and displacement of an operand E beside register g.
Encodings(e, g) ==
  IF e.kind = "reg" THEN {<<192 + 8 * g + e.n>>}
  ELSE LET b == IF e.base = -1 THEN EBP ELSE e.base
           x == IF e.index = -1 THEN ESP ELSE e.index
           rms == {<<ESP, 64 * e.scale + 8 * x + b>>} \cup IF e.index = -1 /\ b # ESP THEN {<<b>>} ELSE {}
           disps == IF e.base = -1 THEN {<<0, LittleEndian(e.disp, 4)>>}
                    ELSE {<<2, LittleEndian(e.disp, 4)>>}
                         \cup (IF Short(e.disp) THEN {<<1, LittleEndian(e.disp, 1)>>} ELSE {})
                         \cup (IF e.disp = 0 /\ b # EBP THEN {<<0, <<>>>>} ELSE {})
       IN {<<64 * t[1] + 8 * g + rm[1]>> \o Tail(rm) \o t[2] : rm \in rms, t \in disps}

\* The bytes an instruction may have, without the prefix.  i.w is its width, 0, 1 or 2
\* for i.form: see the opcode map of the manual.
Index(s, x) == CHOOSE n \in DOMAIN s : s[n] = x
Conditions == <<"o", "no", "b", "ae", "e", "ne", "be", "a", "s", "ns", "p", "np", "l", "ge", "le", "g">>
Bare(i) ==
  LET W == IF i.w = 1 THEN 0 ELSE 1
      d == i.dst
      s == i.src
      E(opcode, e, g) == {opcode \o x : x \in Encodings(e, g)}
      I(w) == LittleEndian(s.v, w)
      With(set, bytes) == {x \o bytes : x \in set}
      IsE(o) == o.kind \in {"reg", "mem"}
      k == Index(Arith, i.ins) - 1
      g2 == Index(<<"rol", "ror", "rcl", "rcr", "shl", "shr", "sal", "sar">>, i.ins) - 1
      g3 == Index(<<"test", "?", "not", "neg", "mul", "imul1", "div", "idiv">>, i.ins) - 1
      cc == Index(Conditions, i.cc) - 1
  IN CASE i.ins \in {Arith[n] : n \in 1 .. 8} ->
            (IF s.kind = "reg" THEN E(<<8 * k + W>>, d, s.n) ELSE {})
            \cup (IF d.kind = "reg" /\ IsE(s) THEN E(<<8 * k + 2 + W>>, s, d.n) ELSE {})
            \cup (IF d = A /\ s.kind = "imm" THEN {<<8 * k + 4 + W>> \o I(i.w)} ELSE {})
            \cup (IF s.kind = "imm" THEN With(E(<<\h80 + W>>, d, k), I(i.w)) ELSE {})
            \cup (IF s.kind = "imm" /\ W = 1 /\ Short(s.v) THEN With(E(<<\h83>>, d, k), I(1)) ELSE {})
       [] i.ins = "mov" ->
            (IF s.kind = "reg" THEN E(<<\h88 + W>>, d, s.n) ELSE {})
            \cup (IF d.kind = "reg" /\ IsE(s) THEN E(<<\h8a + W>>, s, d.n) ELSE {})
            \cup (IF s.kind = "imm" THEN With(E(<<\hc6 + W>>, d, 0), I(i.w)) ELSE {})
            \cup (IF s.kind = "imm" /\ d.kind = "reg" THEN {<<\hb0 + 8 * W + d.n>> \o I(i.w)} ELSE {})
            \cup (IF d = A /\ s.kind = "mem" /\ s.base = -1 /\ s.index = -1
                  THEN {<<\ha0 + W>> \o LittleEndian(s.disp, 4)} ELSE {})
            \cup (IF s = A /\ d.kind = "mem" /\ d.base = -1 /\ d.index = -1
                  THEN {<<\ha2 + W>> \o LittleEndian(d.disp, 4)} ELSE {})
       [] i.ins = "test" ->
            (IF s.kind = "reg" THEN E(<<\h84 + W>>, d, s.n) ELSE With(E(<<\hf6 + W>>, d, 0), I(i.w)))
            \cup (IF d = A /\ s.kind = "imm" THEN {<<\ha8 + W>> \o I(i.w)} ELSE {})
       [] i.ins \in {"inc", "dec"} ->
            LET g == IF i.ins = "inc" THEN 0 ELSE 1
            IN E(<<\hfe + W>>, d, g) \cup (IF d.kind = "reg" /\ W = 1 THEN {<<\h40 + 8 * g + d.n>>} ELSE {})
       [] i.ins \in {"rol", "shl", "shr", "sar"} ->
            (IF s.kind = "imm" THEN With(E(<<\hc0 + W>>, d, g2), I(1)) ELSE E(<<\hd2 + W>>, d, g2))
            \cup (IF s = Imm(1) THEN E(<<\hd0 + W>>, d, g2) ELSE {})
       [] i.ins \in {"not", "neg", "mul", "imul1", "div", "idiv"} -> E(<<\hf6 + W>>, d, g3)
       [] i.ins = "imul2" -> E(<<\h0f, \haf>>, s, d.n)
       [] i.ins = "imul3" -> With(E(<<\h69>>, i.src2, d.n), I(i.w))
       [] i.ins = "lea" -> E(<<\h8d>>, s, d.n)
       [] i.ins \in {"movzx", "movsx"} ->
            E(<<\h0f, (IF i.ins = "movzx" THEN \hb6 ELSE \hbe) + i.from - 1>>, s, d.n)
       [] i.ins = "setcc" -> E(<<\h0f, \h90 + cc>>, d, 0)
       [] i.ins = "jcc" -> {<<\h0f, \h80 + cc>> \o I(4)} \cup IF Short(s.v) THEN {<<\h70 + cc>> \o I(1)} ELSE {}
       [] i.ins = "jmp" -> IF IsE(s) THEN E(<<\hff>>, s, 4)
                           ELSE {<<\he9>> \o I(4)} \cup IF Short(s.v) THEN {<<\heb>> \o I(1)} ELSE {}
       [] i.ins = "call" -> IF IsE(s) THEN E(<<\hff>>, s, 2) ELSE {<<\he8>> \o I(4)}
       [] i.ins = "push" -> (IF s.kind = "reg" THEN {<<\h50 + s.n>>} ELSE {})
                            \cup IF IsE(s) THEN E(<<\hff>>, s, 6)
                                 ELSE {<<\h68>> \o I(4)} \cup IF Short(s.v) THEN {<<\h6a>> \o I(1)} ELSE {}
       [] i.ins = "pop" -> {<<\h58 + d.n>>}
       [] i.ins = "in" -> {<<\hec + W>>}
       [] i.ins = "out" -> {<<\hee + W>>}
       [] OTHER -> {<<[ret |-> \hc3, leave |-> \hc9, cwtl |-> \h98, cltd |-> \h99, nop |-> \h90,
                       nemu_trap |-> \hd6][i.ins]>>}

\* The operand-size prefix makes four bytes two.
Assembled(i) == IF i.w = 2 THEN {<<\h66>> \o b : b \in Bare(i)} ELSE Bare(i)

-----------------------------------------------------------------------------
(* What an instruction changes, byte by byte                               *)

\* The cells of an operand, the low byte first: AH is the second byte of EAX.
Address(m, e) == (e.disp + (IF e.base = -1 THEN 0 ELSE m.gpr[e.base])
                         + (IF e.index = -1 THEN 0 ELSE m.gpr[e.index] * 2 ^ e.scale)) % Long
MemCells(a, w) == [n \in 1 .. w |-> <<"mem", a, n>>]
RegCells(r, w) == [n \in 1 .. w |-> <<"reg", r, n>>]
Cells(m, o, w) ==
  CASE o.kind = "mem" -> MemCells(Address(m, o), w)
    [] o.kind = "reg" /\ w = 1 /\ o.n > 3 -> <<<<"reg", o.n - 4, 2>>>>
    [] OTHER -> RegCells(o.n, w)
AllCells == {<<"reg", r, n>> : r \in 0 .. 7, n \in 1 .. 4} \cup {<<"mem", a, 1>> : a \in 0 .. MemSize - 1}

Inside(c) == c[1] = "reg" \/ c[2] + c[3] <= MemSize
Same(c, x) == IF c[1] = "mem" THEN x[1] = "mem" /\ c[2] + c[3] = x[2] + x[3] ELSE c = x
CellByte(m, c) == CASE c[1] = "reg" -> LittleEndian(m.gpr[c[2]], 4)[c[3]]
                    [] Inside(c) -> m.mem[c[2] + c[3]]
                    [] OTHER -> 0
ValueIn(m, cells) == FoldRightDomain(LAMBDA n, v : CellByte(m, cells[n]) + Byte * v, cells, 0)
ValueOf(m, o, w) == IF o.kind = "imm" THEN o.v % Size[w] ELSE ValueIn(m, Cells(m, o, w))

Holds(cc, f) ==
  CASE cc = "o" -> f.OF = 1 [] cc = "no" -> f.OF = 0 [] cc = "b" -> f.CF = 1 [] cc = "ae" -> f.CF = 0
    [] cc = "e" -> f.ZF = 1 [] cc = "ne" -> f.ZF = 0 [] cc = "be" -> f.CF = 1 \/ f.ZF = 1
    [] cc = "a" -> f.CF = 0 /\ f.ZF = 0 [] cc = "s" -> f.SF = 1 [] cc = "ns" -> f.SF = 0
    [] cc = "l" -> f.SF # f.OF [] cc = "ge" -> f.SF = f.OF
    [] cc = "le" -> f.ZF = 1 \/ f.SF # f.OF [] cc = "g" -> f.ZF = 0 /\ f.SF = f.OF

\* The dividend is in AX, or in DX and AX, or in EDX and EAX; so is a product.
Pair(w) == IF w = 1 THEN RegCells(EAX, 2) ELSE RegCells(EAX, w) \o RegCells(EDX, w)
Number(v, w, signed) == IF signed /\ 2 * v >= Byte ^ w THEN v - Byte ^ w ELSE v
Division(i, m) ==
  LET signed == i.ins = "idiv"
      n == Number(ValueIn(m, Pair(i.w)), 2 * i.w, signed)
      d == Number(ValueOf(m, i.dst, i.w), i.w, signed)
      q == Quot(n, d)
  IN IF d = 0 THEN [fits |-> FALSE, q |-> 0, r |-> 0]
     ELSE [fits |-> IF signed THEN -Size[i.w] \div 2 <= q /\ q < Size[i.w] \div 2 ELSE q < Size[i.w],
           q |-> q, r |-> n - q * d]

Set(cells, v) == [cells |-> cells, v |-> v % Byte ^ Len(cells)]

\* What changes, in this order; next is the address behind the instruction.
Changes(i, m, next) ==
  LET w == i.w
      v == ValueOf(m, i.dst, w)
      u == ValueOf(m, i.src, w)
      CF == m.eflags.CF
      esp == m.gpr[ESP]
      sign(o, x) == Number(ValueOf(m, o, x), x, TRUE)
      count == IF i.src.kind = "imm" THEN i.src.v % Bits ELSE ValueOf(m, i.src, 1) % Bits
      Dst(x) == <<Set(Cells(m, i.dst, w), x)>>
      Esp(x) == Set(RegCells(ESP, 4), x)
      Push(x) == <<Esp(esp - 4), Set(MemCells((esp - 4) % Long, 4), x)>>
      top == ValueIn(m, MemCells(esp, 4))
  IN CASE i.ins = "mov" -> Dst(u)
       [] i.ins = "add" -> Dst(v + u) [] i.ins = "adc" -> Dst(v + u + CF)
       [] i.ins = "sub" -> Dst(v - u) [] i.ins = "sbb" -> Dst(v - u - CF)
       [] i.ins = "and" -> Dst(v & u) [] i.ins = "or" -> Dst(v | u) [] i.ins = "xor" -> Dst(v ^^ u)
       [] i.ins = "inc" -> Dst(v + 1) [] i.ins = "dec" -> Dst(v - 1)
       [] i.ins = "not" -> Dst(-1 - v) [] i.ins = "neg" -> Dst(-v)
       [] i.ins = "shl" -> Dst(v * 2 ^ count) [] i.ins = "shr" -> Dst(v \div 2 ^ count)
       [] i.ins = "sar" -> Dst(sign(i.dst, w) \div 2 ^ count)
       [] i.ins = "rol" -> Dst(IF count = 0 THEN v ELSE 2 * v + (IF sign(i.dst, w) < 0 THEN 1 ELSE 0))
       [] i.ins = "mul" -> <<Set(Pair(w), v * ValueIn(m, RegCells(EAX, w)))>>
       [] i.ins = "imul1" -> <<Set(Pair(w), sign(i.dst, w) * sign(A, w))>>
       [] i.ins = "imul2" -> Dst(sign(i.dst, w) * sign(i.src, w))
       [] i.ins = "imul3" -> Dst(sign(i.src2, w) * sign(i.src, w))
       [] i.ins \in {"div", "idiv"} ->
            LET d == Division(i, m)
            IN <<Set(RegCells(EAX, w), d.q),
                 Set(IF w = 1 THEN <<<<"reg", EAX, 2>>>> ELSE RegCells(EDX, w), d.r)>>
       [] i.ins = "lea" -> Dst(Address(m, i.src))
       [] i.ins = "movzx" -> Dst(ValueOf(m, i.src, i.from)) [] i.ins = "movsx" -> Dst(sign(i.src, i.from))
       [] i.ins = "cwtl" -> <<Set(RegCells(EAX, w), sign(A, w \div 2))>>
       [] i.ins = "cltd" -> <<Set(RegCells(EDX, w), IF sign(A, w) < 0 THEN -1 ELSE 0)>>
       [] i.ins = "setcc" -> Dst(IF Holds(i.cc, m.eflags) THEN 1 ELSE 0)
       [] i.ins = "push" -> Push(u) [] i.ins = "call" -> Push(next)
       [] i.ins = "pop" -> <<Esp(esp + 4)>> \o Dst(top) [] i.ins = "ret" -> <<Esp(esp + 4)>>
       [] i.ins = "leave" -> LET ebp == m.gpr[EBP]
                             IN <<Esp(ebp + 4), Set(RegCells(EBP, 4), ValueIn(m, MemCells(ebp, 4)))>>
       [] i.ins = "in" -> <<Set(RegCells(EAX, w), PortIn)>>
       [] OTHER -> <<>>

\* Where the program goes on.
Goes(i, m, next) ==
  LET to == IF i.src.kind = "imm" THEN (next + i.src.v) % Long ELSE ValueOf(m, i.src, 4)
  IN CASE i.ins \in {"jmp", "call"} -> to
       [] i.ins = "jcc" /\ Holds(i.cc, m.eflags) -> to
       [] i.ins = "ret" -> ValueIn(m, MemCells(m.gpr[ESP], 4))
       [] OTHER -> next

\* The flags, where they are settled: a logical result, or what they were.
Flagged(i, m) ==
  LET v == ValueOf(m, i.dst, i.w)
      u == ValueOf(m, i.src, i.w)
      r == CASE i.ins \in {"and", "test"} -> v & u [] i.ins = "or" -> v | u [] OTHER -> v ^^ u
  IN IF i.ins \in {"and", "or", "xor", "test"}
     THEN [CF |-> 0, OF |-> 0, ZF |-> IF r = 0 THEN 1 ELSE 0, SF |-> IF 2 * r >= Size[i.w] THEN 1 ELSE 0]
     ELSE m.eflags
FlagsOpen == {"add", "adc", "sub", "sbb", "cmp", "inc", "dec", "neg", "rol", "shl", "shr", "sar",
              "mul", "imul1", "imul2", "imul3", "div", "idiv"}

\* The operands and how many bytes of each are read or written.
Used(i) ==
  {<<i.dst, i.w>>, <<i.src, IF i.ins \in {"movzx", "movsx"} THEN i.from ELSE i.w>>}
  \cup IF i.ins = "imul3" THEN {<<i.src2, i.w>>} ELSE {}

\* The processor has a fault of its own here: a quotient too large, no such memory.
Faults(i, m) ==
  \/ i.ins \in {"div", "idiv"} /\ ~Division(i, m).fits
  \/ i.ins \in {"push", "call"} /\ ~Lies((m.gpr[ESP] - 4) % Long, 4)
  \/ i.ins \in {"pop", "ret"} /\ ~Lies(m.gpr[ESP], 4)
  \/ i.ins = "leave" /\ ~Lies(m.gpr[EBP], 4)
  \/ \E u \in Used(i) : u[1].kind = "mem" /\ i.ins # "lea" /\ ~Lies(Address(m, u[1]), u[2])

\* Known to differ: byte xor towards a register is decoded the other way; signed
\* operands of 1 and 2 bytes reach sar, imul and idiv without their sign; rol turns once.
Astray(i, m) ==
  LET Below(o, w) == Number(ValueOf(m, o, w), w, TRUE) < 0
  IN \/ i.ins = "xor" /\ i.w = 1 /\ m.code[m.cpu_pc - CodeBase + 1] = \h32
     \/ i.ins = "sar" /\ i.w < 4 /\ Below(i.dst, i.w)
     \/ i.ins = "imul1" /\ i.w < 4 /\ (Below(i.dst, i.w) \/ Below(A, i.w))
     \/ i.ins = "idiv" /\ i.w < 4 /\ (Below(i.dst, i.w) \/ Below(A, 2))
     \/ i.ins = "rol" /\ IF i.src.kind = "imm" THEN i.src.v > 1 ELSE ValueOf(m, i.src, 1) > 1

\* Not in the opcode tables: inc of a byte, and setcc from sets to setle.
Unknown(i) ==
  \/ i.ins = "inc" /\ i.w = 1
  \/ i.ins = "setcc" /\ i.cc \in {"s", "ns", "p", "np", "l", "ge", "le"}

\* In the tables, but there is no parity flag: rtl_setcc panics.
Parity(i) == i.ins = "jcc" /\ i.cc \in {"p", "np"}

-----------------------------------------------------------------------------

\* The listing of a program whose instructions have those bytes.
Listing(p, bytes) ==
  [n \in DOMAIN p |-> [i |-> p[n], len |-> Len(bytes[n]),
     at |-> FoldLeft(LAMBDA a, b : a + Len(b), CodeBase, SubSeq(bytes, 1, n - 1))]]

\* A program is loaded and followed by traps.
Init ==
  \E p \in Programs : \E b \in [DOMAIN p -> UNION {Assembled(p[n]) : n \in DOMAIN p}] :
    /\ \A n \in DOMAIN p : b[n] \in Assembled(p[n])
    /\ listing = Listing(p, b)
    /\ \E s \in Starts :
         machine = [gpr |-> s.gpr, eflags |-> s.eflags, mem |-> s.mem,
                    code |-> FlattenSeq(b) \o [n \in 1 .. 12 |-> \hd6],
                    cpu_pc |-> CodeBase, is_jmp |-> FALSE, is_operand_size_16 |-> FALSE,
                    out |-> <<>>, state |-> "running"]

Spec == Init /\ [][Next]_vars

\* Between two instructions neither the mark of a jump nor that of the operand-size
\* prefix is left over for the next one.
NothingLeftOver == ~machine.is_jmp /\ ~machine.is_operand_size_16

\* The bytes of all registers and of memory are those the changes say, and the rest as
\* before.
Exactly(m, n, changes) ==
  \A c \in AllCells :
    LET hits == {x \in DOMAIN changes : \E y \in DOMAIN changes[x].cells : Same(changes[x].cells[y], c)}
    IN CellByte(n, c) =
         IF hits = {} THEN CellByte(m, c)
         ELSE LET s == changes[Max(hits)]
              IN (s.v \div Byte ^ ((CHOOSE y \in DOMAIN s.cells : Same(s.cells[y], c)) - 1)) % Byte

\* An instruction, in any encoding, changes the bytes of registers and memory it names
\* and no others, goes on where it should and leaves the flags it has no say in; or it
\* is one NEMU does not have, and changes nothing; or the processor would have a fault, too.
DoesAsWritten ==
  [][\A e \in Range(listing) :
       e.at = machine.cpu_pc =>
         LET next == e.at + e.len
         IN \/ /\ \/ Unknown(e.i) /\ machine'.state = "abort"
                  \/ Parity(e.i) /\ machine'.state = "dead"
               /\ Exactly(machine, machine', <<>>)
            \/ Faults(e.i, machine)
            \/ Astray(e.i, machine)
            \/ /\ machine'.state = IF e.i.ins = "nemu_trap" THEN "end" ELSE "running"
               /\ Exactly(machine, machine', Changes(e.i, machine, next))
               /\ machine'.cpu_pc = Goes(e.i, machine, next)
               /\ e.i.ins \notin FlagsOpen => machine'.eflags = Flagged(e.i, machine)
               /\ e.i.ins = "out" =>
                    machine'.out = <<ValueIn(machine, RegCells(EDX, 2)), ValueIn(machine, RegCells(EAX, e.i.w))>>]_vars
=============================================================================
