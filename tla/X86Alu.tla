------------------------------- MODULE X86Alu -------------------------------
(***************************************************************************)
(* The additive instructions of the x86 guest and the flags they leave,    *)
(* nemu/src/isa/x86/exec/arith.c over the pseudo instructions of           *)
(* include/isa/rtl.h: add, adc, sub, sbb, cmp, inc and dec of 1, 2 and 4   *)
(* bytes, computed in 4-byte RTL registers.  The size of a byte is a       *)
(* parameter.  What programs make of the flags is kept as history: sums    *)
(* and differences of many limbs, and the conditions after a comparison.   *)
(***************************************************************************)
EXTENDS Integers

CONSTANTS Byte,        \* the number of values of a byte, 256 in the code
          Operands,    \* the operands tried, of those that fit the width
          MaxLimbs,    \* bound: limbs of a sum
          MaxBetween   \* bound: inc and dec between two of them

Widths == {1, 2, 4}

ASSUME ByteAssumption == Byte \in Nat /\ Byte > 1 /\ Byte % 2 = 0
ASSUME BoundAssumption == MaxLimbs \in Nat /\ MaxBetween \in Nat

VARIABLES
  eflags,  \* the record of CF, OF, ZF and SF
  last,    \* history: the last instruction that set flags, and its operands
  chain,   \* history: the long sum or difference under way
  between  \* inc and dec since its last limb

vars == <<eflags, last, chain, between>>

-----------------------------------------------------------------------------
(* RTL: registers hold 4 bytes                                             *)

Size == [w \in 1 .. 4 |-> IF w = 1 THEN Byte
                          ELSE IF w = 2 THEN Byte * Byte
                          ELSE IF w = 3 THEN Byte * Byte * Byte
                          ELSE Byte * Byte * Byte * Byte]
Word == Size[4]
Bit == {0, 1}
If(b) == IF b THEN 1 ELSE 0

rtl_add(a, b) == (a + b) % Word
rtl_sub(a, b) == (a - b) % Word
rtl_or(a, b) == If(a = 1 \/ b = 1)

\* The bytes that a shift for operands of that width keeps: the host takes a
\* shift count modulo 32, whatever the width is.
Kept(width) == Size[IF width % 4 = 0 THEN 4 ELSE width % 4]
\* Variant: without the mask of the lowest bit.
rtl_msb_unmasked(v, width) == v \div (Kept(width) \div 2)
rtl_msb(v, width) == (v \div (Kept(width) \div 2)) % 2

rtl_is_add_carry(res, src1) == If(res < src1)
rtl_is_sub_carry(res, src1) == If(src1 < res)
\* Variant: forgets to complement src1.
rtl_is_add_overflow_plain(res, src1, src2, width) ==
  If(/\ rtl_msb(src1, width) # rtl_msb(src2, width)
     /\ rtl_msb(res, width) # rtl_msb(src1, width))
\* The top bits of ~src1 ^ src2 and res ^ src1
rtl_is_add_overflow(res, src1, src2, width) ==
  If(/\ rtl_msb(src1, width) = rtl_msb(src2, width)
     /\ rtl_msb(res, width) # rtl_msb(src1, width))
\* Variant: compares the result with src2.
rtl_is_sub_overflow_swapped(res, src1, src2, width) ==
  If(/\ rtl_msb(src1, width) # rtl_msb(src2, width)
     /\ rtl_msb(res, width) # rtl_msb(src2, width))
\* The top bits of src1 ^ src2 and res ^ src1
rtl_is_sub_overflow(res, src1, src2, width) ==
  If(/\ rtl_msb(src1, width) # rtl_msb(src2, width)
     /\ rtl_msb(res, width) # rtl_msb(src1, width))

rtl_update_ZF(res, width) == If(res % Kept(width) = 0)
rtl_update_SF(res, width) == rtl_msb(res, width)

\* rtl_setcc: the condition of the subcode, without its inverting low bit
rtl_setcc(cc) ==
  CASE cc = "O" -> eflags.OF
    [] cc = "B" -> eflags.CF
    [] cc = "E" -> eflags.ZF
    [] cc = "BE" -> rtl_or(eflags.CF, eflags.ZF)
    [] cc = "S" -> eflags.SF
    [] cc = "L" -> If(eflags.SF # eflags.OF)
    [] cc = "LE" -> rtl_or(If(eflags.SF # eflags.OF), eflags.ZF)

Flags(cf, of, res, width) ==
  [CF |-> cf, OF |-> of, ZF |-> rtl_update_ZF(res, width), SF |-> rtl_update_SF(res, width)]

-----------------------------------------------------------------------------
(* The long sum or difference: limbs of x and y, and of the result         *)

NoChain == [op |-> "none", x |-> 0, y |-> 0, res |-> 0, weight |-> 1, limbs |-> 0]

\* The limbs a and b went in, and res, cut to the width, came out.
Extended(c, width, a, b, res) ==
  [op |-> c.op, x |-> c.x + c.weight * a, y |-> c.y + c.weight * b,
   res |-> c.res + c.weight * (res % Size[width]),
   weight |-> c.weight * Size[width], limbs |-> c.limbs + 1]

Begun(op) == [NoChain EXCEPT !.op = op]
Used(ins, width, a, b) == last' = [ins |-> ins, width |-> width, dest |-> a, src |-> b]

Init ==
  /\ eflags = [CF |-> 0, OF |-> 0, ZF |-> 0, SF |-> 0]
  /\ last = [ins |-> "none", width |-> 4, dest |-> 0, src |-> 0]
  /\ chain = NoChain /\ between = 0

\* A sum begins with its lowest limbs.  Its carry is that of 4-byte operands:
\* narrower ones are a history of their own.
Add(width, a, b) ==
  LET s0 == rtl_add(a, b)
      of == rtl_is_add_overflow(s0, a, b, width) IN
  /\ eflags' = Flags(rtl_is_add_carry(s0, a), of, s0, width)
  /\ chain' = Extended(Begun(IF width = 4 THEN "add" ELSE "narrow"), width, a, b, s0)
  /\ Used("add", width, a, b) /\ between' = 0

\* Variant: forgets the carry of dest + src.
AdcHalf(width, a, b) ==
  LET s0 == rtl_add(a, b)
      sum == rtl_add(s0, eflags.CF) % Size[width]
      of == rtl_is_add_overflow(rtl_is_add_carry(sum, s0), a, b, width) IN
  /\ eflags' = Flags(rtl_is_add_carry(sum, s0), of, sum, width)
  /\ chain' = Extended(chain, width, a, b, sum)
  /\ Used("adc", width, a, b) /\ between' = 0

\* The overflow is computed when s1 holds the carry of s0 + CF, no longer the sum.
Adc(width, a, b) ==
  LET s0 == rtl_add(a, b)
      sum == rtl_add(s0, eflags.CF) % Size[width]
      s1 == rtl_is_add_carry(sum, s0)
      of == rtl_is_add_overflow(s1, a, b, width) IN
  /\ eflags' = Flags(rtl_or(rtl_is_add_carry(s0, a), s1), of, sum, width)
  /\ chain' = Extended(chain, width, a, b, sum)
  /\ Used("adc", width, a, b) /\ between' = 0

Sub(width, a, b) ==
  LET s0 == rtl_sub(a, b)
      of == rtl_is_sub_overflow(s0, a, b, width) IN
  /\ eflags' = Flags(rtl_is_sub_carry(s0, a), of, s0, width)
  /\ chain' = Extended(Begun("sub"), width, a, b, s0)
  /\ Used("sub", width, a, b) /\ between' = 0

\* The same with s1: the borrow of s0 - CF, no longer the difference.
Sbb(width, a, b) ==
  LET s0 == rtl_sub(a, b)
      diff == rtl_sub(s0, eflags.CF) % Size[width]
      s1 == rtl_is_sub_carry(diff, s0)
      of == rtl_is_sub_overflow(s1, a, b, width) IN
  /\ eflags' = Flags(rtl_or(rtl_is_sub_carry(s0, a), s1), of, diff, width)
  /\ chain' = Extended(chain, width, a, b, diff)
  /\ Used("sbb", width, a, b) /\ between' = 0

\* cmp is sub without a result.
Cmp(width, a, b) ==
  LET s0 == rtl_sub(a, b)
      of == rtl_is_sub_overflow(s0, a, b, width) IN
  /\ eflags' = Flags(rtl_is_sub_carry(s0, a), of, s0, width)
  /\ chain' = Begun("cmp")
  /\ Used("cmp", width, a, b) /\ between' = 0

\* rtl_update_ZFSF gets the operand where its width belongs; CF and OF stay.
Inc(width, a) ==
  LET s0 == rtl_add(a, 1) IN
  /\ eflags' = Flags(eflags.CF, eflags.OF, s0, a)
  /\ Used("inc", width, a, 1)
  /\ between' = between + 1
  /\ UNCHANGED chain

Dec(width, a) ==
  LET s0 == rtl_sub(a, 1) IN
  /\ eflags' = Flags(eflags.CF, eflags.OF, s0, a)
  /\ Used("dec", width, a, 1)
  /\ between' = between + 1
  /\ UNCHANGED chain

\* An operand of a width: a register or memory cell is extended with zeros.
Values(width) == Operands \cap (0 .. Size[width] - 1)

\* A behaviour is one comparison or one long sum or difference.
Start ==
  /\ chain = NoChain
  /\ \E width \in Widths : \E a, b \in Values(width) :
       \/ Add(width, a, b)
       \/ Sub(width, a, b)
       \/ Cmp(width, a, b)

NextLimb ==
  /\ chain.limbs < MaxLimbs
  /\ \/ chain.op = "add" /\ \E width \in Widths : \E a, b \in Values(width) : Adc(width, a, b)
     \/ chain.op = "sub" /\ \E width \in Widths : \E a, b \in Values(width) : Sbb(width, a, b)

\* inc of a byte is not in the opcode table.
CountLimb ==
  /\ between < MaxBetween /\ chain.limbs < MaxLimbs
  /\ \/ \E width \in {2, 4} : \E a \in Values(width) : Inc(width, a)
     \/ \E width \in Widths : \E a \in Values(width) : Dec(width, a)

Next == Start \/ NextLimb \/ CountLimb

Spec == Init /\ [][Next]_vars

-----------------------------------------------------------------------------
(* Properties                                                              *)

TypeOK ==
  /\ eflags \in [CF : Bit, OF : Bit, ZF : Bit, SF : Bit]
  /\ last \in [ins : {"none", "add", "adc", "sub", "sbb", "cmp", "inc", "dec"},
               width : Widths, dest : 0 .. Word - 1, src : 0 .. Word - 1]
  /\ chain \in [op : {"none", "add", "narrow", "sub", "cmp"}, x : Nat, y : Nat, res : Nat,
                weight : Nat \ {0}, limbs : 0 .. MaxLimbs + 1]
  /\ between \in 0 .. MaxBetween

\* A long addition, add of words and then adc limb by limb of any width with
\* inc and dec of the counters in between, is right in every limb and in its
\* last carry; so is a long subtraction, which may begin with any width: CF
\* carries over exactly what a limb could not hold.
LimbsAddUp ==
  /\ chain.op = "add" => chain.res + eflags.CF * chain.weight = chain.x + chain.y
  /\ chain.op = "sub" => chain.res - eflags.CF * chain.weight = chain.x - chain.y

\* A value of that width as a signed number
Signed(v, width) == IF v < Size[width] \div 2 THEN v ELSE v - Size[width]

\* After sub or cmp of any width each condition that rtl_setcc computes from
\* the flags holds exactly when the operands are in that relation, unsigned
\* (B, BE), signed (L, LE) or both (E).
Compares ==
  last.ins \in {"sub", "cmp"} =>
    LET a == last.dest
        b == last.src
        sa == Signed(a, last.width)
        sb == Signed(b, last.width) IN
    /\ rtl_setcc("B") = If(a < b) /\ rtl_setcc("BE") = If(a <= b)
    /\ rtl_setcc("L") = If(sa < sb) /\ rtl_setcc("LE") = If(sa <= sb)
    /\ rtl_setcc("E") = If(a = b)

\* After add of any width OF says whether the signed sum fits the width, and
\* the sign of the sum, as if it had no bound, is SF unless OF.
Overflows ==
  last.ins = "add" =>
    LET s == Signed(last.dest, last.width) + Signed(last.src, last.width)
        half == Size[last.width] \div 2 IN
    /\ rtl_setcc("O") = If(s < -half \/ s >= half)
    /\ rtl_setcc("L") = If(s < 0)
=============================================================================
