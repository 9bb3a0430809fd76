------------------------------- MODULE MCX86 --------------------------------
(***************************************************************************)
(* Bytes of two bits: a register has 256 values, memory is at 0 .. 15 and  *)
(* code at 100.  Every instruction on its own, with operands of all kinds, *)
(* and every row of three that use the stack, jump or have the prefix.     *)
(***************************************************************************)
EXTENDS X86Manual

MCStarts ==
  LET g(eax, ecx, edx) == [r \in 0 .. 7 |-> <<eax, ecx, edx, 5, 8, 12, 3, 2>>[r + 1]]
      m == [n \in 1 .. 16 |-> (n * n + n \div 3) % 4]
  IN {[gpr |-> g(r[1], r[2], r[3]), mem |-> m,
       eflags |-> [CF |-> c[1], OF |-> c[2], ZF |-> c[3], SF |-> c[4]]] :
        r \in {<<1, 2, 0>>, <<255, 1, 255>>, <<131, 2, 3>>, <<78, 3, 64>>, <<0, 0, 7>>, <<52, 1, 0>>},
        c \in {<<0, 0, 0, 0>>, <<1, 1, 0, 1>>}}

\* Memory operands: with a base, with base and index, with neither, with EBP.
Mems == {Mem(3, -1, 0, 0), Mem(ESP, -1, 0, 1), Mem(3, ECX, 1, Long - 3), Mem(-1, -1, 0, 6), Mem(-1, ECX, 2, 0), Mem(EBP, -1, 0, 0)}
Regs(w) == {Reg(0), Reg(1), Reg(6)} \cup IF w = 1 THEN {Reg(4)} ELSE {}
Es(w) == Regs(w) \cup Mems
Ins(ins, w, dst, src) == [ins |-> ins, w |-> w, dst |-> dst, src |-> src]
W == {1, 2, 4}

One ==
  UNION {
    {Ins(s, w, e, r) : s \in {Arith[n] : n \in 1 .. 8} \cup {"mov"}, e \in Es(w), r \in {Reg(1), Reg(6)}}
    \cup {Ins(s, w, r, e) : s \in {"xor", "sub", "mov"}, e \in Mems, r \in {Reg(0), Reg(5)}}
    \cup {Ins(s, w, e, Imm(v)) : s \in {"add", "and", "mov", "cmp"}, e \in Regs(w) \cup {Mem(3, -1, 0, 0)}, v \in {1, Long - 2}}
    \cup {Ins("mov", w, A, Mem(-1, -1, 0, 6)), Ins("mov", w, Mem(-1, -1, 0, 6), A)}
    \cup {Ins("test", w, e, s) : e \in Es(w), s \in {Reg(1), Imm(2)}}
    \cup {Ins(s, w, e, None) : s \in {"inc", "dec", "not", "neg", "mul", "imul1", "div", "idiv"}, e \in Es(w)}
    \cup {Ins(s, w, e, n) : s \in {"rol", "shl", "shr", "sar"}, e \in {Reg(0), Reg(6), Mem(3, -1, 0, 0)},
                            n \in {Imm(1), Imm(3), Reg(ECX)}}
    \cup {Ins(s, w, A, None) : s \in {"in", "out", "nop"}} : w \in W}
  \cup UNION {
    {Ins("imul2", w, r, e) : r \in {Reg(0), Reg(2)}, e \in Es(w)}
    \cup {Ins("imul3", w, Reg(2), Imm(v)) @@ [src2 |-> e] : v \in {3, 253}, e \in Es(w)}
    \cup {Ins("lea", w, r, e) : r \in {Reg(0), Reg(2)}, e \in Mems}
    \cup {Ins(s, w, Reg(2), e) @@ [from |-> f] : s \in {"movzx", "movsx"}, e \in Mems \cup {Reg(0), Reg(4)}, f \in {1, 2}}
    \cup {Ins(s, w, None, None) : s \in {"cwtl", "cltd"}} : w \in {2, 4}}
  \cup UNION {
    {Ins("setcc", 1, e, None) @@ [cc |-> c] : e \in {Reg(0), Reg(4), Mem(3, -1, 0, 0)}}
    \cup {Ins("jcc", 4, None, Imm(v)) @@ [cc |-> c] : v \in {1, 9}} : c \in {Conditions[n] : n \in DOMAIN Conditions}}

\* Instructions of which several make a program.
Several ==
  {Ins("push", 4, None, s) : s \in {Reg(EAX), Reg(ESP), Mem(ESP, -1, 0, 0), Imm(200), Imm(1)}}
  \cup {Ins("pop", 4, r, None) : r \in {Reg(EBP), Reg(ESP)}}
  \cup {Ins(s, 4, None, None) : s \in {"ret", "leave"}}
  \cup {Ins("call", 4, None, Imm(1)), Ins("call", 4, None, Reg(EBP)), Ins("jmp", 4, None, Imm(2)), Ins("jmp", 4, None, Mem(ESP, -1, 0, 0)),
        Ins("mov", 2, Reg(EBP), Imm(100)), Ins("inc", 2, A, None), Ins("mov", 4, Reg(EBP), Reg(ESP))}

MCPrograms == {<<i>> : i \in One} \cup [1 .. 3 -> Several]
=============================================================================
