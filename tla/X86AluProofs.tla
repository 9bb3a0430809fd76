---------------------------- MODULE X86AluProofs ----------------------------
(***************************************************************************)
(* Long sums and differences are right for every size of a byte, of limb   *)
(* and of counter, and for any number of limbs; so are the conditions      *)
(* after one sum or difference.                                            *)
(***************************************************************************)
EXTENDS X86Alu, NatLemmas

\* What is in the range is its own remainder, and so is what is one range away.
LEMMA Near ==
  ASSUME NEW n \in Nat \ {0}, NEW v \in Int
  PROVE  /\ v \in 0 .. n - 1 => v % n = v
         /\ v \in n .. 2 * n - 1 => v % n = v - n
         /\ v \in -n .. -1 => v % n = v + n
<1>1. ASSUME v \in 0 .. n - 1 PROVE v % n = v
  <2>1. v = 0 * n + v
    OBVIOUS
  <2>2. QED
    BY <2>1, <1>1, Division
<1>2. ASSUME v \in n .. 2 * n - 1 PROVE v % n = v - n
  <2>1. v = 1 * n + (v - n) /\ v - n \in 0 .. n - 1
    BY <1>2
  <2>2. QED
    BY <2>1, Division
<1>3. ASSUME v \in -n .. -1 PROVE v % n = v + n
  <2>1. v = (-1) * n + (v + n) /\ v + n \in 0 .. n - 1
    BY <1>3
  <2>2. QED
    BY <2>1, Division
<1>4. QED
  BY <1>1, <1>2, <1>3

\* A sum of two of its digits wraps at most once.
LEMMA Wraps ==
  ASSUME NEW n \in Nat \ {0}, NEW t \in Int, t \in 0 .. 2 * n - 1
  PROVE  t % n = IF t < n THEN t ELSE t - n
<1>1. CASE t < n
  <2>1. t \in 0 .. n - 1
    BY <1>1
  <2>2. QED
    BY <2>1, <1>1, Near
<1>2. CASE t >= n
  <2>1. t \in n .. 2 * n - 1
    BY <1>2
  <2>2. QED
    BY <2>1, <1>2, Near
<1>3. QED
  BY <1>1, <1>2

-----------------------------------------------------------------------------
(* Sizes                                                                   *)

\* The sizes are even, and each divides that of a word.
LEMMA Sizes ==
  /\ Word \in Nat /\ Word > 1
  /\ \A w \in 1 .. 4 : Size[w] \in Nat /\ Size[w] > 1 /\ Size[w] <= Word
  /\ \A w \in Widths : /\ (w = 4 \/ 2 * Size[w] <= Word)
                       /\ \E q \in Nat \ {0} : Word = q * Size[w]
<1> DEFINE b2 == Byte * Byte
           b3 == b2 * Byte
           b4 == b3 * Byte
<1>1. Byte \in Nat /\ Byte >= 2
  BY ByteAssumption
<1>2. \A m \in Nat : m * Byte \in Nat /\ m * Byte >= 2 * m
  <2>1. SUFFICES ASSUME NEW m \in Nat PROVE m * Byte \in Nat /\ m * Byte >= 2 * m
    OBVIOUS
  <2>2. PICK k \in Nat : Byte = 2 + k
    <3>1. Byte - 2 \in Nat /\ Byte = 2 + (Byte - 2)
      BY <1>1
    <3>2. QED
      BY <3>1
  <2>3. m * Byte = 2 * m + m * k /\ m * k \in Nat
    BY <2>2
  <2>4. QED
    BY <2>3
<1>3. b2 \in Nat /\ b2 >= 2 * Byte
  BY <1>1, <1>2
<1> HIDE DEF b2
<1>4. b3 \in Nat /\ b3 >= 2 * b2
  BY <1>2, <1>3
<1> HIDE DEF b3
<1>5. b4 \in Nat /\ b4 >= 2 * b3
  BY <1>2, <1>4
<1> HIDE DEF b4
<1>6. Size = [w \in 1 .. 4 |-> IF w = 1 THEN Byte ELSE IF w = 2 THEN b2
                                ELSE IF w = 3 THEN b3 ELSE b4]
  BY DEF Size, b2, b3, b4
<1>7. Size[1] = Byte /\ Size[2] = b2 /\ Size[3] = b3 /\ Size[4] = b4 /\ Word = b4
  BY <1>6 DEF Word
<1>8. Word \in Nat /\ Word > 1
  BY <1>1, <1>3, <1>4, <1>5, <1>7
<1>9. \A w \in 1 .. 4 : Size[w] \in Nat /\ Size[w] > 1 /\ Size[w] <= Word
  BY <1>1, <1>3, <1>4, <1>5, <1>7
<1>10. \A w \in Widths : w = 4 \/ 2 * Size[w] <= Word
  BY <1>1, <1>3, <1>4, <1>5, <1>7 DEF Widths
<1>11. \A w \in Widths : \E q \in Nat \ {0} : Word = q * Size[w]
  <2>1. Word = 1 * Size[4]
    BY <1>5, <1>7
  <2>2. Word = b2 * Size[2]
    <3>1. b4 = b2 * Byte * Byte
      BY DEF b4, b3
    <3>2. b2 * Byte * Byte = b2 * (Byte * Byte)
      BY <1>1, <1>3
    <3>3. QED
      BY <3>1, <3>2, <1>7 DEF b2
  <2>3. Word = b3 * Size[1]
    BY <1>7 DEF b4
  <2>4. b2 \in Nat \ {0} /\ b3 \in Nat \ {0}
    BY <1>1, <1>3, <1>4
  <2>5. QED
    BY <2>1, <2>2, <2>3, <2>4 DEF Widths
<1>12. QED
  BY <1>8, <1>9, <1>10, <1>11

-----------------------------------------------------------------------------
(* One limb                                                                *)

\* adc: the carries of dest + src and of s0 + CF together are the carry out.
LEMMA AdcLimb ==
  ASSUME NEW w \in Widths, NEW a \in 0 .. Size[w] - 1, NEW b \in 0 .. Size[w] - 1,
         NEW c \in Bit
  PROVE  LET s0 == rtl_add(a, b)
             sum == rtl_add(s0, c) % Size[w]
             cf == rtl_or(rtl_is_add_carry(s0, a), rtl_is_add_carry(sum, s0)) IN
         /\ sum \in 0 .. Size[w] - 1
         /\ sum + cf * Size[w] = a + b + c
<1> DEFINE S == Size[w]
           s0 == rtl_add(a, b)
           sum == rtl_add(s0, c) % S
           cf == rtl_or(rtl_is_add_carry(s0, a), rtl_is_add_carry(sum, s0))
<1>1. /\ S \in Nat \ {0} /\ S > 1 /\ S <= Word /\ Word \in Nat \ {0}
      /\ S = Word \/ 2 * S <= Word
  BY Sizes DEF Widths, Word
<1>2. a \in 0 .. S - 1 /\ b \in 0 .. S - 1 /\ c \in 0 .. 1
  BY DEF Bit
<1> HIDE DEF S
<1>3. CASE a + b >= Word
  <2>1. S = Word
    BY <1>1, <1>2, <1>3
  <2>2. a + b \in Word .. 2 * Word - 1
    BY <1>1, <1>2, <1>3, <2>1
  <2>3. s0 = (a + b) - Word
    <3>1. a + b \in Int /\ Word \in Nat \ {0}
      BY <1>1, <1>2
    <3>2. (a + b) % Word = (a + b) - Word
      BY <2>2, <3>1, Near
    <3>3. QED
      BY <3>2 DEF rtl_add
  <2>4. s0 \in 0 .. Word - 2
    BY <1>1, <1>2, <2>1, <2>2, <2>3
  <2> HIDE DEF s0
  <2>5. rtl_add(s0, c) = s0 + c
    <3>1. s0 + c \in 0 .. Word - 1
      BY <1>1, <1>2, <2>4
    <3>2. QED
      BY <3>1, <1>1, Near DEF rtl_add
  <2>6. sum = s0 + c
    <3>1. s0 + c \in 0 .. S - 1 /\ s0 + c \in Int
      BY <1>1, <1>2, <2>1, <2>4
    <3>2. QED
      BY <3>1, <1>1, <2>5, Near
  <2>7. s0 < a
    BY <1>1, <1>2, <2>1, <2>3
  <2>8. cf = 1
    BY <2>7 DEF rtl_or, rtl_is_add_carry, If
  <2> HIDE DEF sum, cf
  <2>9. sum \in 0 .. S - 1 /\ sum + cf * S = a + b + c
    BY <1>1, <1>2, <2>1, <2>3, <2>4, <2>6, <2>8
  <2>10. QED
    BY <2>9 DEF s0, sum, cf, S
<1>4. CASE a + b < Word
  <2>1. s0 = a + b
    <3>1. a + b \in 0 .. Word - 1 /\ a + b \in Int /\ Word \in Nat \ {0}
      BY <1>1, <1>2, <1>4
    <3>2. (a + b) % Word = a + b
      BY <3>1, Near
    <3>3. QED
      BY <3>2 DEF rtl_add
  <2>2. s0 \in Nat /\ ~(s0 < a) /\ s0 \in 0 .. Word - 1 /\ s0 <= 2 * S - 2
    BY <1>1, <1>2, <1>4, <2>1
  <2> HIDE DEF s0
  <2>3. CASE s0 + c < S
    <3>1. rtl_add(s0, c) = s0 + c
      <4>1. s0 + c \in 0 .. Word - 1
        BY <1>1, <1>2, <2>2, <2>3
      <4>2. QED
        BY <4>1, <1>1, Near DEF rtl_add
    <3>2. sum = s0 + c
      <4>1. s0 + c \in 0 .. S - 1
        BY <1>1, <1>2, <2>2, <2>3
      <4>2. QED
        BY <3>1, <4>1, <1>1, Near
    <3>3. ~(sum < s0)
      BY <1>2, <2>2, <3>2
    <3>4. cf = 0
      BY <2>2, <3>3 DEF rtl_or, rtl_is_add_carry, If
    <3> HIDE DEF sum, cf
    <3>5. sum \in 0 .. S - 1 /\ sum + cf * S = a + b + c
      BY <1>1, <1>2, <2>1, <2>2, <2>3, <3>2, <3>4
    <3>6. QED
      BY <3>5 DEF s0, sum, cf, S
  <2>4. CASE s0 + c >= S
    <3>1. sum = s0 + c - S
      <4>1. CASE s0 + c < Word
        <5>1. rtl_add(s0, c) = s0 + c
          <6>1. s0 + c \in 0 .. Word - 1
            BY <4>1, <1>1, <1>2, <2>2
          <6>2. QED
            BY <6>1, <1>1, Near DEF rtl_add
        <5>2. s0 + c \in S .. 2 * S - 1
          BY <1>1, <1>2, <2>2, <2>4
        <5>3. s0 + c \in Int
          BY <5>2, <1>1
        <5>4. (s0 + c) % S = (s0 + c) - S
          BY <5>2, <5>3, <1>1, Near
        <5>5. sum = (s0 + c) - S
          BY <5>1, <5>4
        <5>6. QED
          BY <5>5, <2>2, <1>1, <1>2
      <4>2. CASE s0 + c >= Word
        <5>1. s0 + c = Word /\ S = Word
          BY <4>2, <1>1, <1>2, <2>2
        <5>2. rtl_add(s0, c) = 0
          <6>1. s0 + c \in Word .. 2 * Word - 1 /\ (s0 + c) - Word = 0
            BY <5>1, <1>1
          <6>2. QED
            BY <6>1, <1>1, Near DEF rtl_add
        <5>3. QED
          BY <5>1, <5>2, <1>1, <1>2, <2>2, Near
      <4>3. QED
        BY <4>1, <4>2, <1>1, <1>2, <2>2
    <3>2. sum < s0
      BY <3>1, <1>1, <1>2, <2>2
    <3>3. cf = 1
      BY <3>2 DEF rtl_or, rtl_is_add_carry, If
    <3> HIDE DEF sum, cf
    <3>4. sum \in 0 .. S - 1 /\ sum + cf * S = a + b + c
      BY <1>1, <1>2, <2>1, <2>2, <2>4, <3>1, <3>3
    <3>5. QED
      BY <3>4 DEF s0, sum, cf, S
  <2>5. QED
    BY <2>3, <2>4, <1>1, <1>2, <2>2
<1>5. QED
  BY <1>3, <1>4, <1>1, <1>2

\* add of a whole word: the carry is the one of dest + src.
LEMMA AddLimb ==
  ASSUME NEW a \in 0 .. Size[4] - 1, NEW b \in 0 .. Size[4] - 1
  PROVE  LET s0 == rtl_add(a, b)
             cf == rtl_is_add_carry(s0, a) IN
         /\ s0 % Size[4] = s0
         /\ s0 \in 0 .. Size[4] - 1
         /\ s0 + cf * Size[4] = a + b
<1> DEFINE s0 == rtl_add(a, b)
           cf == rtl_is_add_carry(s0, a)
<1>1. Word \in Nat \ {0} /\ Size[4] = Word
  BY Sizes DEF Word
<1>2. a \in 0 .. Word - 1 /\ b \in 0 .. Word - 1 /\ a + b \in Int
  BY <1>1
<1>3. CASE a + b < Word
  <2>1. s0 = a + b
    <3>1. a + b \in 0 .. Word - 1
      BY <1>1, <1>2, <1>3
    <3>2. (a + b) % Word = a + b
      BY <1>1, <1>2, <3>1, Near
    <3>3. QED
      BY <3>2 DEF rtl_add
  <2> HIDE DEF s0
  <2>2. s0 \in 0 .. Word - 1 /\ ~(s0 < a)
    BY <2>1, <1>1, <1>2, <1>3
  <2>3. cf = 0
    BY <2>2 DEF rtl_is_add_carry, If
  <2>4. s0 % Word = s0
    <3>1. s0 \in Int
      BY <2>2, <1>1
    <3>2. QED
      BY <3>1, <2>2, <1>1, Near
  <2> HIDE DEF cf
  <2>5. s0 % Word = s0 /\ s0 \in 0 .. Word - 1 /\ s0 + cf * Word = a + b
    BY <1>1, <1>2, <2>1, <2>2, <2>3, <2>4
  <2>6. QED
    BY <1>1, <2>5 DEF s0, cf
<1>4. CASE a + b >= Word
  <2>1. s0 = (a + b) - Word
    <3>1. a + b \in Word .. 2 * Word - 1
      BY <1>1, <1>2, <1>4
    <3>2. (a + b) % Word = (a + b) - Word
      BY <1>1, <1>2, <3>1, Near
    <3>3. QED
      BY <3>2 DEF rtl_add
  <2> HIDE DEF s0
  <2>2. s0 \in 0 .. Word - 1 /\ s0 < a
    BY <2>1, <1>1, <1>2, <1>4
  <2>3. cf = 1
    BY <2>2 DEF rtl_is_add_carry, If
  <2>4. s0 % Word = s0
    <3>1. s0 \in Int
      BY <2>2, <1>1
    <3>2. QED
      BY <3>1, <2>2, <1>1, Near
  <2> HIDE DEF cf
  <2>5. s0 % Word = s0 /\ s0 \in 0 .. Word - 1 /\ s0 + cf * Word = a + b
    BY <1>1, <1>2, <2>1, <2>2, <2>3, <2>4
  <2>6. QED
    BY <1>1, <2>5 DEF s0, cf
<1>5. QED
  BY <1>1, <1>2, <1>3, <1>4

\* One word below zero, cut to a smaller width, is one of that width below zero.
LEMMA Borrowed ==
  ASSUME NEW w \in Widths, NEW d \in Int, d \in -Size[w] .. Size[w] - 1
  PROVE  (d % Word) % Size[w] = IF d < 0 THEN d + Size[w] ELSE d
<1> DEFINE S == Size[w]
<1>1. S \in Nat \ {0} /\ S <= Word /\ Word \in Nat \ {0}
  BY Sizes DEF Widths
<1>2. PICK q \in Nat \ {0} : Word = q * S
  BY Sizes
<1>3. d \in -S .. S - 1
  OBVIOUS
<1> HIDE DEF S
<1>4. CASE d < 0
  <2>1. d \in -Word .. -1 /\ d \in Int
    BY <1>1, <1>3, <1>4
  <2>2. d % Word = d + Word
    BY <1>1, <2>1, Near
  <2>3. d + Word \in Int /\ d + S \in 0 .. S - 1 /\ q - 1 \in Int
    BY <1>1, <1>2, <1>3, <1>4
  <2>4. q * S = (q - 1) * S + S
    BY <1>1, <1>2
  <2>5. (q - 1) * S \in Int
    BY <1>1, <1>2
  <2>6. d + Word = (q - 1) * S + (d + S)
    BY <1>1, <1>2, <1>3, <2>4, <2>5
  <2>7. (d + Word) % S = d + S
    BY <1>1, <2>3, <2>6, Division
  <2>8. QED
    BY <2>2, <2>7, <1>4 DEF S
<1>5. CASE ~(d < 0)
  <2>1. d \in 0 .. Word - 1 /\ d \in 0 .. S - 1 /\ d \in Int
    BY <1>1, <1>3, <1>5
  <2>2. d % Word = d
    BY <1>1, <2>1, Near
  <2>3. d % S = d
    BY <1>1, <2>1, Near
  <2>4. QED
    BY <2>2, <2>3, <1>5 DEF S
<1>6. QED
  BY <1>4, <1>5

\* sub of any width: the borrow of the words is the one of the operands.
LEMMA SubLimb ==
  ASSUME NEW w \in Widths, NEW a \in 0 .. Size[w] - 1, NEW b \in 0 .. Size[w] - 1
  PROVE  LET s0 == rtl_sub(a, b)
             cf == rtl_is_sub_carry(s0, a) IN
         /\ s0 \in 0 .. Word - 1
         /\ s0 % Size[w] \in 0 .. Size[w] - 1
         /\ (s0 % Size[w]) - cf * Size[w] = a - b
         /\ s0 = IF a < b THEN (a - b) + Word ELSE a - b
         /\ cf = IF a < b THEN 1 ELSE 0
<1> DEFINE S == Size[w]
           s0 == rtl_sub(a, b)
           cf == rtl_is_sub_carry(s0, a)
           d == a - b
<1>1. S \in Nat \ {0} /\ S <= Word /\ Word \in Nat \ {0}
  BY Sizes DEF Widths
<1>2. a \in 0 .. S - 1 /\ b \in 0 .. S - 1
  OBVIOUS
<1>3. d \in Int /\ d \in -S .. S - 1 /\ (d < 0 <=> a < b)
  BY <1>1, <1>2
<1>4. s0 % S = IF d < 0 THEN d + S ELSE d
  BY <1>3, Borrowed DEF rtl_sub
<1>5. s0 = IF d < 0 THEN d + Word ELSE d
  <2>1. d < 0 => d \in -Word .. -1
    BY <1>1, <1>3
  <2>2. ~(d < 0) => d \in 0 .. Word - 1
    BY <1>1, <1>3
  <2>3. d % Word = IF d < 0 THEN d + Word ELSE d
    BY <1>1, <1>3, <2>1, <2>2, Near
  <2>4. QED
    BY <2>3 DEF rtl_sub
<1> HIDE DEF s0
<1>6. s0 \in 0 .. Word - 1 /\ (a < s0 <=> a < b)
  BY <1>1, <1>2, <1>3, <1>5
<1>7. cf = IF a < b THEN 1 ELSE 0
  BY <1>6 DEF rtl_is_sub_carry, If
<1> DEFINE r == s0 % S
<1>8. r = IF d < 0 THEN d + S ELSE d
  BY <1>4
<1> HIDE DEF cf, r, S
<1>9. r \in 0 .. S - 1 /\ r - cf * S = d
  BY <1>1, <1>2, <1>3, <1>7, <1>8
<1>10. QED
  BY <1>3, <1>5, <1>6, <1>7, <1>9 DEF s0, cf, r, S

\* sbb: the borrows of dest - src and of s0 - CF together are the borrow.
LEMMA SbbLimb ==
  ASSUME NEW w \in Widths, NEW a \in 0 .. Size[w] - 1, NEW b \in 0 .. Size[w] - 1,
         NEW c \in Bit
  PROVE  LET s0 == rtl_sub(a, b)
             diff == rtl_sub(s0, c) % Size[w]
             cf == rtl_or(rtl_is_sub_carry(s0, a), rtl_is_sub_carry(diff, s0)) IN
         /\ diff \in 0 .. Size[w] - 1
         /\ diff - cf * Size[w] = a - b - c
<1> DEFINE S == Size[w]
           s0 == rtl_sub(a, b)
           c1 == rtl_is_sub_carry(s0, a)
           diff == rtl_sub(s0, c) % S
           cf == rtl_or(c1, rtl_is_sub_carry(diff, s0))
           d == a - b - c
<1>1. S \in Nat \ {0} /\ S > 1 /\ S <= Word /\ Word \in Nat \ {0}
  BY Sizes DEF Widths
<1>2. a \in 0 .. S - 1 /\ b \in 0 .. S - 1 /\ c \in 0 .. 1
  BY DEF Bit
<1>3. s0 = IF a < b THEN (a - b) + Word ELSE a - b
  BY SubLimb
<1>4. c1 = IF a < b THEN 1 ELSE 0
  BY SubLimb
<1>5. d \in Int /\ d \in -S .. S - 1
  BY <1>1, <1>2
<1>6. (d % Word) % S = IF d < 0 THEN d + S ELSE d
  BY <1>5, Borrowed
<1> HIDE DEF s0, c1
<1>7. rtl_sub(s0, c) = d % Word
  <2>1. s0 - c = IF a < b THEN d + Word ELSE d
    BY <1>1, <1>2, <1>3
  <2>2. ASSUME a < b PROVE (d + Word) % Word = d % Word
    <3>1. d \in -Word .. -1 /\ d + Word \in 0 .. Word - 1 /\ d + Word \in Int
      BY <1>1, <1>2, <1>5, <2>2
    <3>2. d % Word = d + Word
      BY <3>1, <1>1, <1>5, Near
    <3>3. (d + Word) % Word = d + Word
      BY <3>1, <1>1, Near
    <3>4. QED
      BY <3>2, <3>3
  <2>3. QED
    BY <2>1, <2>2 DEF rtl_sub
<1>8. diff = IF d < 0 THEN d + S ELSE d
  BY <1>6, <1>7
<1> HIDE DEF diff, S
<1>9. s0 < diff <=> a = b /\ c = 1
  BY <1>1, <1>2, <1>3, <1>8
<1>10. cf = IF d < 0 THEN 1 ELSE 0
  BY <1>1, <1>2, <1>4, <1>9 DEF rtl_or, rtl_is_sub_carry, If
<1> HIDE DEF cf
<1>11. diff \in 0 .. S - 1 /\ diff - cf * S = d
  BY <1>1, <1>2, <1>5, <1>8, <1>10
<1>12. QED
  BY <1>11 DEF s0, c1, diff, cf, S

-----------------------------------------------------------------------------
(* Types                                                                   *)

LEMMA MsbBit ==
  ASSUME NEW v \in Nat, NEW width \in Nat
  PROVE  rtl_msb(v, width) \in Bit
<1>1. (IF width % 4 = 0 THEN 4 ELSE width % 4) \in 1 .. 4
  OBVIOUS
<1>2. Kept(width) \in Nat /\ Kept(width) > 1
  BY <1>1, Sizes DEF Kept
<1>3. Kept(width) \div 2 \in Nat \ {0}
  BY <1>2
<1> DEFINE q == v \div (Kept(width) \div 2)
<1>4. q \in Int
  BY <1>3
<1> HIDE DEF q
<1>5. q % 2 \in 0 .. 1
  BY <1>4
<1>6. QED
  BY <1>5 DEF q, rtl_msb, Bit

LEMMA FlagsType ==
  ASSUME NEW cf \in Bit, NEW of \in Bit, NEW res \in Nat, NEW width \in Nat
  PROVE  /\ Flags(cf, of, res, width) \in [CF : Bit, OF : Bit, ZF : Bit, SF : Bit]
         /\ Flags(cf, of, res, width).CF = cf
<1>1. rtl_update_ZF(res, width) \in Bit
  BY DEF rtl_update_ZF, If, Bit
<1>2. rtl_update_SF(res, width) \in Bit
  BY MsbBit DEF rtl_update_SF
<1>3. QED
  BY <1>1, <1>2 DEF Flags

\* What one more limb makes of the long sum.
LEMMA ExtendedType ==
  ASSUME NEW c \in [op : {"none", "add", "narrow", "sub", "cmp"}, x : Nat, y : Nat, res : Nat,
                    weight : Nat \ {0}, limbs : 0 .. MaxLimbs],
         NEW w \in Widths, NEW a \in Nat, NEW b \in Nat, NEW res \in Nat
  PROVE  LET e == Extended(c, w, a, b, res) IN
         /\ e \in [op : {"none", "add", "narrow", "sub", "cmp"}, x : Nat, y : Nat, res : Nat,
                   weight : Nat \ {0}, limbs : 0 .. MaxLimbs + 1]
         /\ e.op = c.op /\ e.x = c.x + c.weight * a /\ e.y = c.y + c.weight * b
         /\ e.res = c.res + c.weight * (res % Size[w])
         /\ e.weight = c.weight * Size[w]
<1>1. Size[w] \in Nat \ {0}
  BY Sizes DEF Widths
<1>2. res % Size[w] \in Nat
  BY <1>1
<1> DEFINE k == c.weight
<1>3. k \in Nat \ {0} /\ c.x \in Nat /\ c.y \in Nat /\ c.res \in Nat /\ c.limbs \in 0 .. MaxLimbs
  OBVIOUS
<1> HIDE DEF k
<1>4. \A m, n \in Nat : m * n \in Nat
  OBVIOUS
<1>5. \A m, n \in Nat \ {0} : m * n \in Nat \ {0}
  OBVIOUS
<1>6. k * Size[w] \in Nat \ {0}
  BY <1>1, <1>3, <1>5
<1>7. k * a \in Nat /\ k * b \in Nat /\ k * (res % Size[w]) \in Nat
  BY <1>2, <1>3, <1>4
<1>8. c.limbs + 1 \in 0 .. MaxLimbs + 1
  BY <1>3, BoundAssumption
<1>9. QED
  BY <1>3, <1>6, <1>7, <1>8 DEF Extended, k

ChainType == [op : {"none", "add", "narrow", "sub", "cmp"}, x : Nat, y : Nat, res : Nat,
              weight : Nat \ {0}, limbs : 0 .. MaxLimbs]
Instructions == {"none", "add", "adc", "sub", "sbb", "cmp", "inc", "dec"}

LEMMA BegunType ==
  ASSUME NEW op \in {"none", "add", "narrow", "sub", "cmp"}
  PROVE  Begun(op) \in ChainType /\ Begun(op).op = op /\ Begun(op).x = 0 /\ Begun(op).y = 0
         /\ Begun(op).res = 0 /\ Begun(op).weight = 1
  BY BoundAssumption DEF Begun, NoChain, ChainType

LEMMA OperandType ==
  ASSUME NEW w \in Widths, NEW a \in Values(w)
  PROVE  a \in 0 .. Size[w] - 1 /\ a \in Nat /\ a \in 0 .. Word - 1 /\ w \in Nat
<1>1. Size[w] \in Nat /\ Size[w] <= Word /\ Word \in Nat
  BY Sizes DEF Widths
<1>2. a \in 0 .. Size[w] - 1
  BY DEF Values
<1>3. QED
  BY <1>1, <1>2 DEF Widths

\* An instruction that adds a limb keeps the types.
LEMMA LimbStep ==
  ASSUME NEW w \in Widths, NEW a \in Values(w), NEW b \in Values(w),
         NEW cf \in Bit, NEW of \in Bit, NEW res \in Nat, NEW c \in ChainType,
         NEW ins \in Instructions,
         eflags' = Flags(cf, of, res, w), chain' = Extended(c, w, a, b, res),
         Used(ins, w, a, b), between' = 0
  PROVE  TypeOK'
<1>1. a \in 0 .. Word - 1 /\ b \in 0 .. Word - 1 /\ a \in Nat /\ b \in Nat /\ w \in Nat
  BY OperandType
<1>2. eflags' \in [CF : Bit, OF : Bit, ZF : Bit, SF : Bit]
  BY <1>1, FlagsType
<1>3. last' \in [ins : Instructions, width : Widths, dest : 0 .. Word - 1, src : 0 .. Word - 1]
  BY <1>1 DEF Used
<1>4. chain' \in [op : {"none", "add", "narrow", "sub", "cmp"}, x : Nat, y : Nat, res : Nat,
                 weight : Nat \ {0}, limbs : 0 .. MaxLimbs + 1]
  BY <1>1, ExtendedType DEF ChainType
<1>5. between' \in 0 .. MaxBetween
  BY BoundAssumption
<1>6. QED
  BY <1>2, <1>3, <1>4, <1>5 DEF TypeOK, Instructions

\* inc and dec keep them too, and the carry with them.
LEMMA CountStep ==
  ASSUME TypeOK, NEW w \in Widths, NEW a \in Values(w), NEW res \in Nat,
         NEW ins \in Instructions,
         eflags' = Flags(eflags.CF, eflags.OF, res, a), Used(ins, w, a, 1),
         between < MaxBetween, between' = between + 1, chain' = chain
  PROVE  TypeOK' /\ eflags'.CF = eflags.CF
<1>1. a \in 0 .. Word - 1 /\ a \in Nat
  BY OperandType
<1>2. eflags.CF \in Bit /\ eflags.OF \in Bit
  BY DEF TypeOK
<1>3. eflags' \in [CF : Bit, OF : Bit, ZF : Bit, SF : Bit] /\ eflags'.CF = eflags.CF
  BY <1>1, <1>2, FlagsType
<1>4. 1 \in 0 .. Word - 1
  BY Sizes DEF Word
<1>5. last' \in [ins : Instructions, width : Widths, dest : 0 .. Word - 1, src : 0 .. Word - 1]
  BY <1>1, <1>4 DEF Used
<1>6. between' \in 0 .. MaxBetween
  BY BoundAssumption DEF TypeOK
<1>7. QED
  BY <1>3, <1>5, <1>6 DEF TypeOK, Instructions

\* What the five instructions with two operands need for LimbStep.
LEMMA Bits ==
  /\ \A b \in BOOLEAN : If(b) \in Bit
  /\ \A a, b : rtl_or(a, b) \in Bit
  /\ \A res, a : rtl_is_add_carry(res, a) \in Bit /\ rtl_is_sub_carry(res, a) \in Bit
  /\ \A res, a, b, w : /\ rtl_is_add_overflow(res, a, b, w) \in Bit
                      /\ rtl_is_sub_overflow(res, a, b, w) \in Bit
  BY DEF If, Bit, rtl_or, rtl_is_add_carry, rtl_is_sub_carry,
         rtl_is_add_overflow, rtl_is_sub_overflow

LEMMA Registers ==
  /\ \A a, b \in Int : rtl_add(a, b) \in Nat /\ rtl_sub(a, b) \in Nat
  /\ \A v \in Nat, w \in Widths : v % Size[w] \in Nat
<1>1. Word \in Nat \ {0} /\ \A w \in Widths : Size[w] \in Nat \ {0}
  BY Sizes DEF Widths, Word
<1>2. \A v \in Int : v % Word \in Nat
  BY <1>1
<1>3. \A a, b \in Int : a + b \in Int /\ a - b \in Int
  OBVIOUS
<1>4. QED
  BY <1>1, <1>2, <1>3 DEF rtl_add, rtl_sub

-----------------------------------------------------------------------------
(* The invariant                                                           *)

IInv == TypeOK /\ LimbsAddUp

LEMMA TypeInit == Init => TypeOK
<1>1. 0 \in 0 .. Word - 1 /\ 4 \in Widths
  BY Sizes DEF Widths, Word
<1>2. QED
  BY <1>1, BoundAssumption DEF Init, TypeOK, NoChain, Bit

LEMMA TypeNext == TypeOK /\ [Next]_vars => TypeOK'
<1> SUFFICES ASSUME TypeOK, [Next]_vars PROVE TypeOK'
  OBVIOUS
<1>1. CASE Start
  <2>0. PICK w \in Widths : \E a, b \in Values(w) : Add(w, a, b) \/ Sub(w, a, b) \/ Cmp(w, a, b)
    BY <1>1 DEF Start
  <2>1. PICK a \in Values(w), b \in Values(w) : Add(w, a, b) \/ Sub(w, a, b) \/ Cmp(w, a, b)
    BY <2>0
  <2>2. a \in Nat /\ b \in Nat /\ w \in Nat /\ a \in 0 .. Word - 1 /\ b \in 0 .. Word - 1
    BY OperandType
  <2>3. rtl_add(a, b) \in Nat /\ rtl_sub(a, b) \in Nat
    BY <2>2, Registers
  <2>4. Begun("add") \in ChainType /\ Begun("sub") \in ChainType /\ Begun("cmp") \in ChainType
    BY BegunType
  <2>5. CASE Add(w, a, b)
    <3>1. PICK c \in ChainType : c = Begun(IF w = 4 THEN "add" ELSE "narrow")
      BY BegunType
    <3>2. chain' = Extended(c, w, a, b, rtl_add(a, b))
      BY <2>5, <3>1 DEF Add
    <3>3. QED
      BY <2>3, <2>5, <3>2, Bits, LimbStep DEF Add, Instructions
  <2>6. CASE Sub(w, a, b)
    BY <2>3, <2>4, <2>6, Bits, LimbStep DEF Sub, Instructions
  <2>7. CASE Cmp(w, a, b)
    <3>1. eflags' \in [CF : Bit, OF : Bit, ZF : Bit, SF : Bit]
      BY <2>2, <2>3, <2>7, Bits, FlagsType DEF Cmp
    <3>2. last' \in [ins : Instructions, width : Widths, dest : 0 .. Word - 1, src : 0 .. Word - 1]
      BY <2>2, <2>7 DEF Cmp, Used, Instructions
    <3>3. chain' \in [op : {"none", "add", "narrow", "sub", "cmp"}, x : Nat, y : Nat, res : Nat,
                     weight : Nat \ {0}, limbs : 0 .. MaxLimbs + 1]
      BY <2>4, <2>7, BoundAssumption DEF Cmp, ChainType
    <3>4. between' \in 0 .. MaxBetween
      BY <2>7, BoundAssumption DEF Cmp
    <3>5. QED
      BY <3>1, <3>2, <3>3, <3>4 DEF TypeOK, Instructions
  <2>8. QED
    BY <2>1, <2>5, <2>6, <2>7
<1>2. CASE NextLimb
  <2>0. PICK w \in Widths : \E a, b \in Values(w) : Adc(w, a, b) \/ Sbb(w, a, b)
    BY <1>2 DEF NextLimb
  <2>1. PICK a \in Values(w), b \in Values(w) : Adc(w, a, b) \/ Sbb(w, a, b)
    BY <2>0
  <2>2. a \in Nat /\ b \in Nat /\ eflags.CF \in Int
    BY OperandType DEF TypeOK, Bit
  <2>3. chain \in ChainType
    BY <1>2, BoundAssumption DEF NextLimb, TypeOK, ChainType
  <2> DEFINE s0 == rtl_add(a, b)
             d0 == rtl_sub(a, b)
  <2>4. s0 \in Nat /\ d0 \in Nat
    BY <2>2, Registers
  <2> HIDE DEF s0, d0
  <2> DEFINE sum == rtl_add(s0, eflags.CF) % Size[w]
             diff == rtl_sub(d0, eflags.CF) % Size[w]
  <2>5. sum \in Nat /\ diff \in Nat
    <3>1. rtl_add(s0, eflags.CF) \in Nat /\ rtl_sub(d0, eflags.CF) \in Nat
      <4>1. s0 \in Int /\ d0 \in Int
        BY <2>4
      <4>2. PICK c \in Int : c = eflags.CF
        BY <2>2
      <4>3. rtl_add(s0, c) \in Nat /\ rtl_sub(d0, c) \in Nat
        BY <4>1, Registers
      <4>4. QED
        BY <4>2, <4>3
    <3>2. QED
      BY <3>1, Registers
  <2>6. CASE Adc(w, a, b)
    BY <2>3, <2>5, <2>6, Bits, LimbStep DEF Adc, Instructions, s0
  <2>7. CASE Sbb(w, a, b)
    BY <2>3, <2>5, <2>7, Bits, LimbStep DEF Sbb, Instructions, d0
  <2>8. QED
    BY <2>1, <2>6, <2>7
<1>3. CASE CountLimb
  <2>0. PICK w \in Widths : \E a \in Values(w) : Inc(w, a) \/ Dec(w, a)
    BY <1>3 DEF CountLimb, Widths
  <2>1. PICK a \in Values(w) : Inc(w, a) \/ Dec(w, a)
    BY <2>0
  <2>2. rtl_add(a, 1) \in Nat /\ rtl_sub(a, 1) \in Nat
    BY OperandType, Registers
  <2>3. between < MaxBetween
    BY <1>3 DEF CountLimb
  <2>4. QED
    BY <2>1, <2>2, <2>3, CountStep DEF Inc, Dec, Instructions
<1>4. CASE UNCHANGED vars
  BY <1>4 DEF vars, TypeOK
<1>5. QED
  BY <1>1, <1>2, <1>3, <1>4 DEF Next

\* The flags stay bits and the history stays what it is.
THEOREM TypeCorrect == Spec => []TypeOK
  BY TypeInit, TypeNext, PTL DEF Spec

\* A right limb on top of a right sum.
LEMMA ChainSum ==
  ASSUME NEW c \in ChainType, NEW w \in Widths, NEW a \in Nat, NEW b \in Nat, NEW res \in Nat,
         NEW cin \in Bit, NEW cf \in Bit,
         c.res + cin * c.weight = c.x + c.y,
         (res % Size[w]) + cf * Size[w] = a + b + cin
  PROVE  LET e == Extended(c, w, a, b, res) IN e.res + cf * e.weight = e.x + e.y
<1> DEFINE k == c.weight
           S == Size[w]
           r == res % S
           e == Extended(c, w, a, b, res)
<1>1. k \in Nat /\ c.x \in Nat /\ c.y \in Nat /\ c.res \in Nat /\ S \in Nat /\ r \in Nat
  <2>1. c.weight \in Nat /\ c.x \in Nat /\ c.y \in Nat /\ c.res \in Nat
    BY DEF ChainType
  <2>2. Size[w] \in Nat
    BY Sizes DEF Widths
  <2>3. res % Size[w] \in Nat
    BY Registers
  <2>4. QED
    BY <2>1, <2>2, <2>3
<1>2. /\ e.res = c.res + k * r /\ e.weight = k * S
      /\ e.x = c.x + k * a /\ e.y = c.y + k * b
  BY DEF Extended
<1>3. c.res + cin * k = c.x + c.y /\ r + cf * S = a + b + cin /\ cin \in 0 .. 1 /\ cf \in 0 .. 1
  BY DEF Bit
<1> HIDE DEF k, S, r, e
<1>4. k * (r + cf * S) = k * r + cf * (k * S)
  <2>1. CASE cf = 0
    BY <2>1, <1>1
  <2>2. CASE cf = 1
    BY <2>2, <1>1
  <2>3. QED
    BY <2>1, <2>2, <1>3
<1>5. k * (a + b + cin) = k * a + k * b + cin * k
  <2>1. CASE cin = 0
    BY <2>1, <1>1
  <2>2. CASE cin = 1
    BY <2>2, <1>1
  <2>3. QED
    BY <2>1, <2>2, <1>3
<1>6. k * r + cf * (k * S) = k * a + k * b + cin * k
  BY <1>3, <1>4, <1>5
<1>7. k * r \in Int /\ cf * (k * S) \in Int /\ k * a \in Int /\ k * b \in Int /\ cin * k \in Int
  <2>1. \A m, n \in Int : m * n \in Int
    OBVIOUS
  <2>2. QED
    BY <2>1, <1>1, <1>3
<1> DEFINE kr == k * r
           kS == cf * (k * S)
           ka == k * a
           kb == k * b
           kc == cin * k
<1>8. kr + kS = ka + kb + kc /\ kr \in Int /\ kS \in Int /\ ka \in Int /\ kb \in Int /\ kc \in Int
  BY <1>6, <1>7
<1>9. (c.res + kc = c.x + c.y) /\ e.res = c.res + kr /\ cf * e.weight = kS
      /\ e.x = c.x + ka /\ e.y = c.y + kb
  BY <1>2, <1>3
<1> HIDE DEF kr, kS, ka, kb, kc
<1>10. e.res + cf * e.weight = e.x + e.y
  BY <1>1, <1>8, <1>9
<1>11. QED
  BY <1>10 DEF e

\* The same for a difference.
LEMMA ChainDifference ==
  ASSUME NEW c \in ChainType, NEW w \in Widths, NEW a \in Nat, NEW b \in Nat, NEW res \in Nat,
         NEW cin \in Bit, NEW cf \in Bit,
         c.res - cin * c.weight = c.x - c.y,
         (res % Size[w]) - cf * Size[w] = a - b - cin
  PROVE  LET e == Extended(c, w, a, b, res) IN e.res - cf * e.weight = e.x - e.y
<1> DEFINE k == c.weight
           S == Size[w]
           r == res % S
           e == Extended(c, w, a, b, res)
<1>1. k \in Nat /\ c.x \in Nat /\ c.y \in Nat /\ c.res \in Nat /\ S \in Nat /\ r \in Nat
  <2>1. c.weight \in Nat /\ c.x \in Nat /\ c.y \in Nat /\ c.res \in Nat
    BY DEF ChainType
  <2>2. Size[w] \in Nat
    BY Sizes DEF Widths
  <2>3. res % Size[w] \in Nat
    BY Registers
  <2>4. QED
    BY <2>1, <2>2, <2>3
<1>2. /\ e.res = c.res + k * r /\ e.weight = k * S
      /\ e.x = c.x + k * a /\ e.y = c.y + k * b
  BY DEF Extended
<1>3. c.res - cin * k = c.x - c.y /\ r - cf * S = a - b - cin /\ cin \in 0 .. 1 /\ cf \in 0 .. 1
  BY DEF Bit
<1> HIDE DEF k, S, r, e
<1>4. k * (r - cf * S) = k * r - cf * (k * S)
  <2>1. CASE cf = 0
    BY <2>1, <1>1
  <2>2. CASE cf = 1
    BY <2>2, <1>1
  <2>3. QED
    BY <2>1, <2>2, <1>3
<1>5. k * (a - b - cin) = k * a - k * b - cin * k
  <2>1. CASE cin = 0
    BY <2>1, <1>1
  <2>2. CASE cin = 1
    BY <2>2, <1>1
  <2>3. QED
    BY <2>1, <2>2, <1>3
<1>6. k * r - cf * (k * S) = k * a - k * b - cin * k
  BY <1>3, <1>4, <1>5
<1>7. k * r \in Int /\ cf * (k * S) \in Int /\ k * a \in Int /\ k * b \in Int /\ cin * k \in Int
  <2>1. \A m, n \in Int : m * n \in Int
    OBVIOUS
  <2>2. QED
    BY <2>1, <1>1, <1>3
<1> DEFINE kr == k * r
           kS == cf * (k * S)
           ka == k * a
           kb == k * b
           kc == cin * k
<1>8. kr - kS = ka - kb - kc /\ kr \in Int /\ kS \in Int /\ ka \in Int /\ kb \in Int /\ kc \in Int
  BY <1>6, <1>7
<1>9. (c.res - kc = c.x - c.y) /\ e.res = c.res + kr /\ cf * e.weight = kS
      /\ e.x = c.x + ka /\ e.y = c.y + kb
  BY <1>2, <1>3
<1> HIDE DEF kr, kS, ka, kb, kc
<1>10. e.res - cf * e.weight = e.x - e.y
  BY <1>1, <1>8, <1>9
<1>11. QED
  BY <1>10 DEF e

LEMMA LimbsNext ==
  ASSUME IInv, [Next]_vars
  PROVE  LimbsAddUp'
<1>1. CASE Start
  <2>0. PICK w \in Widths : \E a, b \in Values(w) :
          Add(w, a, b) \/ Sub(w, a, b) \/ Cmp(w, a, b)
    BY <1>1 DEF Start
  <2>1. PICK a \in Values(w), b \in Values(w) :
          Add(w, a, b) \/ Sub(w, a, b) \/ Cmp(w, a, b)
    BY <2>0
  <2>2. a \in 0 .. Size[w] - 1 /\ b \in 0 .. Size[w] - 1 /\ a \in Nat /\ b \in Nat /\ w \in Nat
    BY OperandType
  <2>9. CASE w # 4 /\ Add(w, a, b)
    <3>1. chain'.op = "narrow"
      BY <2>9, BegunType DEF Add, Extended
    <3>2. QED
      BY <3>1 DEF LimbsAddUp
  <2>3. CASE w = 4 /\ Add(w, a, b)
    <3> DEFINE s0 == rtl_add(a, b)
               cf == rtl_is_add_carry(s0, a)
    <3>1. w = 4
      BY <2>3
    <3>2. s0 \in Nat /\ cf \in Bit
      BY <2>2, Registers, Bits
    <3>3. (s0 % Size[w]) + cf * Size[w] = a + b + 0
      <4>1. (s0 % Size[w]) + cf * Size[w] = a + b
        BY <2>2, <3>1, AddLimb
      <4>2. QED
        BY <4>1, <2>2
    <3>4. Begun("add") \in ChainType /\ Begun("add").res + 0 * Begun("add").weight
                                     = Begun("add").x + Begun("add").y
      BY BegunType
    <3>5. chain' = Extended(Begun("add"), w, a, b, s0) /\ eflags'.CF = cf
      BY <2>3 DEF Add, Flags
    <3>6. chain'.op = "add"
      BY <3>5, BegunType DEF Extended
    <3>7. 0 \in Bit
      BY DEF Bit
    <3> HIDE DEF s0, cf
    <3>8. chain'.res + cf * chain'.weight = chain'.x + chain'.y
      BY <2>2, <3>2, <3>3, <3>4, <3>5, <3>7, ChainSum
    <3>9. QED
      BY <3>5, <3>6, <3>8 DEF LimbsAddUp
  <2>4. CASE Sub(w, a, b)
    <3> DEFINE s0 == rtl_sub(a, b)
               cf == rtl_is_sub_carry(s0, a)
    <3>1. s0 \in Nat /\ cf \in Bit
      BY <2>2, Registers, Bits
    <3>2. (s0 % Size[w]) - cf * Size[w] = a - b - 0
      <4>1. (s0 % Size[w]) - cf * Size[w] = a - b
        BY <2>2, SubLimb
      <4>2. QED
        BY <4>1, <2>2
    <3>3. Begun("sub") \in ChainType /\ Begun("sub").res - 0 * Begun("sub").weight
                                     = Begun("sub").x - Begun("sub").y
      BY BegunType
    <3>4. chain' = Extended(Begun("sub"), w, a, b, s0) /\ eflags'.CF = cf
      BY <2>4 DEF Sub, Flags
    <3>5. chain'.op = "sub"
      BY <3>4, BegunType DEF Extended
    <3>6. 0 \in Bit
      BY DEF Bit
    <3> HIDE DEF s0, cf
    <3>7. chain'.res - cf * chain'.weight = chain'.x - chain'.y
      BY <2>2, <3>1, <3>2, <3>3, <3>4, <3>6, ChainDifference
    <3>8. QED
      BY <3>4, <3>5, <3>7 DEF LimbsAddUp
  <2>5. CASE Cmp(w, a, b)
    <3>1. chain'.op = "cmp"
      BY <2>5, BegunType DEF Cmp
    <3>2. QED
      BY <3>1 DEF LimbsAddUp
  <2>6. QED
    BY <2>1, <2>3, <2>4, <2>5, <2>9
<1>2. CASE NextLimb
  <2>0. PICK w \in Widths : \E a, b \in Values(w) :
          (chain.op = "add" /\ Adc(w, a, b)) \/ (chain.op = "sub" /\ Sbb(w, a, b))
    BY <1>2 DEF NextLimb
  <2>1. PICK a \in Values(w), b \in Values(w) :
          (chain.op = "add" /\ Adc(w, a, b)) \/ (chain.op = "sub" /\ Sbb(w, a, b))
    BY <2>0
  <2>2. a \in 0 .. Size[w] - 1 /\ b \in 0 .. Size[w] - 1 /\ a \in Nat /\ b \in Nat /\ w \in Nat
    BY OperandType
  <2>3. chain \in ChainType
    BY <1>2, BoundAssumption DEF NextLimb, IInv, TypeOK, ChainType
  <2>4. PICK c \in Bit : c = eflags.CF
    BY DEF IInv, TypeOK
  <2>5. Size[w] \in Nat \ {0}
    BY Sizes DEF Widths
  <2>6. CASE chain.op = "add" /\ Adc(w, a, b)
    <3> DEFINE s0 == rtl_add(a, b)
               sum == rtl_add(s0, c) % Size[w]
               cf == rtl_or(rtl_is_add_carry(s0, a), rtl_is_add_carry(sum, s0))
    <3>1. sum \in 0 .. Size[w] - 1 /\ sum + cf * Size[w] = a + b + c
      BY <2>2, AdcLimb
    <3>2. cf \in Bit
      BY Bits
    <3>3. chain' = Extended(chain, w, a, b, sum) /\ sum \in Nat
      BY <2>4, <2>5, <2>6, <3>1 DEF Adc
    <3>4. eflags'.CF = cf
      BY <2>4, <2>6 DEF Adc, Flags
    <3> HIDE DEF cf, sum
    <3>5. sum % Size[w] = sum
      BY <2>5, <3>1, <3>3, Near
    <3>6. chain.res + c * chain.weight = chain.x + chain.y
      BY <2>4, <2>6 DEF IInv, LimbsAddUp
    <3>7. chain'.res + cf * chain'.weight = chain'.x + chain'.y
      BY <2>2, <2>3, <3>1, <3>2, <3>3, <3>5, <3>6, ChainSum
    <3>8. chain'.op = "add"
      BY <2>6, <3>3 DEF Extended
    <3>9. QED
      BY <3>4, <3>7, <3>8 DEF LimbsAddUp
  <2>7. CASE chain.op = "sub" /\ Sbb(w, a, b)
    <3> DEFINE s0 == rtl_sub(a, b)
               diff == rtl_sub(s0, c) % Size[w]
               cf == rtl_or(rtl_is_sub_carry(s0, a), rtl_is_sub_carry(diff, s0))
    <3>1. diff \in 0 .. Size[w] - 1 /\ diff - cf * Size[w] = a - b - c
      BY <2>2, SbbLimb
    <3>2. cf \in Bit
      BY Bits
    <3>3. chain' = Extended(chain, w, a, b, diff) /\ diff \in Nat
      BY <2>4, <2>5, <2>7, <3>1 DEF Sbb
    <3>4. eflags'.CF = cf
      BY <2>4, <2>7 DEF Sbb, Flags
    <3> HIDE DEF cf, diff
    <3>5. diff % Size[w] = diff
      BY <2>5, <3>1, <3>3, Near
    <3>6. chain.res - c * chain.weight = chain.x - chain.y
      BY <2>4, <2>7 DEF IInv, LimbsAddUp
    <3>7. chain'.res - cf * chain'.weight = chain'.x - chain'.y
      BY <2>2, <2>3, <3>1, <3>2, <3>3, <3>5, <3>6, ChainDifference
    <3>8. chain'.op = "sub"
      BY <2>7, <3>3 DEF Extended
    <3>9. QED
      BY <3>4, <3>7, <3>8 DEF LimbsAddUp
  <2>8. QED
    BY <2>1, <2>6, <2>7
<1>3. CASE CountLimb
  <2>0. PICK w \in Widths : \E a \in Values(w) : Inc(w, a) \/ Dec(w, a)
    BY <1>3 DEF CountLimb, Widths
  <2>1. PICK a \in Values(w) : Inc(w, a) \/ Dec(w, a)
    BY <2>0
  <2>2. rtl_add(a, 1) \in Nat /\ rtl_sub(a, 1) \in Nat
    BY OperandType, Registers
  <2>3. between < MaxBetween
    BY <1>3 DEF CountLimb
  <2>4. eflags'.CF = eflags.CF /\ chain' = chain
    BY <2>1, <2>2, <2>3, CountStep DEF Inc, Dec, Instructions, IInv
  <2>5. QED
    BY <2>4 DEF IInv, LimbsAddUp
<1>4. CASE UNCHANGED vars
  BY <1>4 DEF vars, IInv, LimbsAddUp
<1>5. QED
  BY <1>1, <1>2, <1>3, <1>4 DEF Next

\* Long sums that begin with add of words, and long differences, of any number
\* of limbs of any width are right, with inc and dec in between.
THEOREM LimbsCorrect == Spec => []LimbsAddUp
<1>1. Init => IInv
  BY TypeInit DEF Init, NoChain, IInv, LimbsAddUp
<1>2. IInv /\ [Next]_vars => IInv'
  BY TypeNext, LimbsNext DEF IInv
<1>3. IInv => LimbsAddUp
  BY DEF IInv
<1>4. QED
  BY <1>1, <1>2, <1>3, PTL DEF Spec

-----------------------------------------------------------------------------
(* The conditions after sub, cmp and add                                   *)

\* The quotient goes with the remainder.
LEMMA Quotient ==
  ASSUME NEW n \in Nat \ {0}, NEW v \in Int, NEW q \in Int, NEW r \in 0 .. n - 1,
         v = q * n + r
  PROVE  v \div n = q
<1> DEFINE p == v \div n
<1>1. v % n = r
  BY Division
<1>2. p \in Int /\ v = n * p + (v % n)
  OBVIOUS
<1>3. n * p = p * n
  BY <1>2
<1> HIDE DEF p
<1>4. p * n = q * n
  BY <1>1, <1>2, <1>3
<1>5. CASE p >= q + 1
  <2>1. p * n >= (q + 1) * n
    BY <1>2, <1>5
  <2>2. (q + 1) * n = q * n + n
    OBVIOUS
  <2>3. QED
    BY <2>1, <2>2, <1>4
<1>6. CASE q >= p + 1
  <2>1. q * n >= (p + 1) * n
    BY <1>2, <1>6
  <2>2. (p + 1) * n = p * n + n
    BY <1>2
  <2>3. QED
    BY <2>1, <2>2, <1>4
<1>7. QED
  BY <1>2, <1>5, <1>6 DEF p

\* Every size has two halves: the top bit tells them apart.
LEMMA Halves ==
  ASSUME NEW w \in Widths
  PROVE  \E h \in Nat \ {0} : /\ Size[w] = 2 * h /\ Size[w] \div 2 = h
                              /\ Kept(w) = Size[w]
<1>1. PICK g \in Nat \ {0} : Byte = 2 * g
  <2>1. Byte \div 2 \in Nat \ {0} /\ Byte = 2 * (Byte \div 2)
    BY ByteAssumption
  <2>2. QED
    BY <2>1
<1>2. Size[1] = Byte /\ Size[2] = Byte * Byte /\ Size[4] = Word
  BY DEF Size, Word
<1>3. PICK q \in Nat \ {0} : Word = q * Size[1]
  BY Sizes DEF Widths
<1>4. \A m \in Nat \ {0} : m * (2 * g) = 2 * (m * g) /\ m * g \in Nat \ {0}
  <2>1. SUFFICES ASSUME NEW m \in Nat \ {0}
                 PROVE  m * (2 * g) = 2 * (m * g) /\ m * g \in Nat \ {0}
    OBVIOUS
  <2>2. m * g >= 1
    <3>1. PICK k \in Nat : m = k + 1
      <4>1. m - 1 \in Nat /\ m = (m - 1) + 1
        OBVIOUS
      <4>2. QED
        BY <4>1
    <3>2. (k + 1) * g = k * g + g /\ k * g \in Nat
      OBVIOUS
    <3>3. QED
      BY <3>1, <3>2
  <2>3. m * (2 * g) = 2 * (m * g) /\ m * g \in Int
    OBVIOUS
  <2>4. QED
    BY <2>2, <2>3
<1>5. Size[w] \in {1 * (2 * g), Byte * (2 * g), q * (2 * g)} /\ Byte \in Nat \ {0}
  BY <1>1, <1>2, <1>3 DEF Widths
<1>6. PICK h \in Nat \ {0} : Size[w] = 2 * h
  BY <1>4, <1>5
<1>7. Size[w] \div 2 = h
  BY <1>6
<1>8. Kept(w) = Size[w]
  BY DEF Kept, Widths
<1>9. QED
  BY <1>6, <1>7, <1>8

\* The top bit of a width is that of the value cut to the width.
LEMMA TopBit ==
  ASSUME NEW w \in Widths, NEW v \in Int
  PROVE  rtl_msb(v, w) = If(v % Size[w] >= Size[w] \div 2)
<1>1. PICK h \in Nat \ {0} : Size[w] = 2 * h /\ Size[w] \div 2 = h /\ Kept(w) = Size[w]
  BY Halves
<1> DEFINE k == v \div (2 * h)
           r == v % (2 * h)
<1>2. k \in Int /\ r \in 0 .. 2 * h - 1 /\ v = (2 * h) * k + r
  <2>1. ASSUME NEW n \in Nat \ {0}
        PROVE  v \div n \in Int /\ v % n \in 0 .. n - 1 /\ v = n * (v \div n) + (v % n)
    OBVIOUS
  <2>2. 2 * h \in Nat \ {0}
    OBVIOUS
  <2>3. QED
    BY <2>1, <2>2
<1> HIDE DEF k, r
<1>3. v = (2 * k) * h + r
  BY <1>2
<1>4. CASE r < h
  <2>1. r \in 0 .. h - 1 /\ 2 * k \in Int
    BY <1>2, <1>4
  <2>2. v \div h = 2 * k
    BY <1>3, <2>1, Quotient
  <2>3. (2 * k) % 2 = 0
    BY <1>2
  <2>4. QED
    BY <1>1, <1>2, <1>4, <2>2, <2>3 DEF rtl_msb, If, r
<1>5. CASE r >= h
  <2>1. r - h \in 0 .. h - 1 /\ 2 * k + 1 \in Int
    BY <1>2, <1>5
  <2>2. (2 * k + 1) * h = (2 * k) * h + h /\ (2 * k) * h \in Int
    BY <1>2
  <2>3. v = (2 * k + 1) * h + (r - h)
    BY <1>2, <1>3, <2>2
  <2>4. v \div h = 2 * k + 1
    BY <2>1, <2>3, Quotient
  <2>5. (2 * k + 1) % 2 = 1
    BY <1>2
  <2>6. QED
    BY <1>1, <1>2, <1>5, <2>4, <2>5 DEF rtl_msb, If, r
<1>6. QED
  BY <1>2, <1>4, <1>5

\* Of an operand the top bit is the sign.
LEMMA Sign ==
  ASSUME NEW w \in Widths, NEW v \in 0 .. Size[w] - 1
  PROVE  rtl_msb(v, w) = If(v >= Size[w] \div 2)
<1>1. Size[w] \in Nat \ {0}
  BY Sizes DEF Widths
<1>2. v \in Int /\ v % Size[w] = v
  BY <1>1, Near
<1>3. QED
  BY <1>2, TopBit

\* The flags of a difference tell how the operands compare, with and without sign.
LEMMA SubSays ==
  ASSUME NEW w \in Widths, NEW a \in 0 .. Size[w] - 1, NEW b \in 0 .. Size[w] - 1
  PROVE  LET s0 == rtl_sub(a, b) IN
         /\ rtl_is_sub_carry(s0, a) = If(a < b)
         /\ rtl_update_ZF(s0, w) = If(a = b)
         /\ (rtl_update_SF(s0, w) # rtl_is_sub_overflow(s0, a, b, w))
              <=> Signed(a, w) < Signed(b, w)
<1> DEFINE s0 == rtl_sub(a, b)
           S == Size[w]
           r == s0 % S
<1>1. PICK h \in Nat \ {0} : S = 2 * h /\ S \div 2 = h /\ Kept(w) = S
  BY Halves
<1>2. /\ rtl_is_sub_carry(s0, a) = IF a < b THEN 1 ELSE 0
      /\ r - rtl_is_sub_carry(s0, a) * S = a - b
      /\ r \in 0 .. S - 1 /\ s0 \in 0 .. Word - 1
  BY SubLimb
<1>3. r = IF a < b THEN (a - b) + S ELSE a - b
  BY <1>1, <1>2
<1>4. s0 \in Int
  BY <1>2
<1>5. /\ rtl_msb(a, w) = If(a >= h) /\ rtl_msb(b, w) = If(b >= h)
      /\ rtl_msb(s0, w) = If(r >= h)
  BY <1>1, <1>4, Sign, TopBit
<1>6. rtl_update_ZF(s0, w) = If(r = 0)
  BY <1>1 DEF rtl_update_ZF
<1>7. Signed(a, w) = (IF a < h THEN a ELSE a - S) /\ Signed(b, w) = (IF b < h THEN b ELSE b - S)
  BY <1>1 DEF Signed
<1>8. a \in 0 .. S - 1 /\ b \in 0 .. S - 1
  OBVIOUS
<1> HIDE DEF s0, S, r
<1>9. rtl_update_ZF(s0, w) = If(a = b)
  BY <1>1, <1>3, <1>6, <1>8 DEF If
<1>10. rtl_update_SF(s0, w) = If(r >= h)
  BY <1>5 DEF rtl_update_SF
<1>11. rtl_is_sub_overflow(s0, a, b, w)
         = If(If(a >= h) # If(b >= h) /\ If(r >= h) # If(a >= h))
  BY <1>5 DEF rtl_is_sub_overflow
<1>12. (rtl_update_SF(s0, w) # rtl_is_sub_overflow(s0, a, b, w))
         <=> Signed(a, w) < Signed(b, w)
  BY <1>1, <1>3, <1>7, <1>8, <1>10, <1>11 DEF If
<1>13. rtl_is_sub_carry(s0, a) = If(a < b)
  BY <1>2 DEF If
<1>14. QED
  BY <1>9, <1>12, <1>13 DEF s0

\* The flags of a sum tell whether the signed sum fits, and its sign if it does not.
LEMMA AddSays ==
  ASSUME NEW w \in Widths, NEW a \in 0 .. Size[w] - 1, NEW b \in 0 .. Size[w] - 1
  PROVE  LET s0 == rtl_add(a, b)
             s == Signed(a, w) + Signed(b, w)
             half == Size[w] \div 2 IN
         /\ rtl_is_add_overflow(s0, a, b, w) = If(s < -half \/ s >= half)
         /\ (rtl_update_SF(s0, w) # rtl_is_add_overflow(s0, a, b, w)) <=> s < 0
<1> DEFINE s0 == rtl_add(a, b)
           S == Size[w]
           r == s0 % S
           s == Signed(a, w) + Signed(b, w)
<1>1. PICK h \in Nat \ {0} : S = 2 * h /\ S \div 2 = h /\ Kept(w) = S
  BY Halves
<1>2. S \in Nat \ {0} /\ Word \in Nat \ {0} /\ (S = Word \/ 2 * S <= Word)
  BY Sizes DEF Widths, Word
<1>3. a \in 0 .. S - 1 /\ b \in 0 .. S - 1
  OBVIOUS
<1>4. s0 \in Int /\ r = IF a + b < S THEN a + b ELSE a + b - S
  <2> HIDE DEF S
  <2>1. PICK t \in Int : t = a + b
    BY <1>2, <1>3
  <2>2. s0 = t % Word
    BY <2>1 DEF rtl_add
  <2>3. t \in 0 .. 2 * S - 2
    BY <1>2, <1>3, <2>1
  <2>4. t % S = IF t < S THEN t ELSE t - S
    <3>1. t \in 0 .. 2 * S - 1
      BY <1>2, <2>3
    <3>2. QED
      BY <1>2, <3>1, Wraps
  <2>5. t % Word = IF t < Word THEN t ELSE t - Word
    <3>1. t \in 0 .. 2 * Word - 1
      BY <1>2, <2>3
    <3>2. QED
      BY <1>2, <3>1, Wraps
  <2> HIDE DEF s0
  <2>6. CASE t < Word
    <3>1. s0 = t
      BY <2>2, <2>5, <2>6
    <3>2. r = t % S
      BY <3>1
    <3>3. r = IF t < S THEN t ELSE t - S
      BY <2>4, <3>2
    <3> HIDE DEF r
    <3>4. QED
      BY <1>2, <1>3, <2>1, <3>1, <3>3
  <2>7. CASE t >= Word
    <3>1. S = Word /\ s0 = t - S
      BY <1>2, <2>2, <2>3, <2>5, <2>7
    <3>2. t - S \in 0 .. S - 1 /\ t - S \in Int
      BY <1>2, <2>3, <2>7, <3>1
    <3>3. s0 \in 0 .. S - 1 /\ s0 \in Int
      BY <3>1, <3>2
    <3>4. s0 % S = s0
      BY <1>2, <3>3, Near
    <3>5. QED
      BY <1>2, <1>3, <2>1, <2>7, <3>1, <3>3, <3>4
  <2>8. QED
    BY <1>2, <2>6, <2>7
<1>5. /\ rtl_msb(a, w) = If(a >= h) /\ rtl_msb(b, w) = If(b >= h)
      /\ rtl_msb(s0, w) = If(r >= h)
  BY <1>1, <1>4, Sign, TopBit
<1>6. s = (IF a < h THEN a ELSE a - S) + (IF b < h THEN b ELSE b - S)
  BY <1>1 DEF Signed
<1> HIDE DEF s0, S, r, s
<1>7. rtl_update_SF(s0, w) = If(r >= h)
  BY <1>5 DEF rtl_update_SF
<1>8. rtl_is_add_overflow(s0, a, b, w)
        = If(If(a >= h) = If(b >= h) /\ If(r >= h) # If(a >= h))
  BY <1>5 DEF rtl_is_add_overflow
<1>9. rtl_is_add_overflow(s0, a, b, w) = If(s < -h \/ s >= h)
  BY <1>1, <1>3, <1>4, <1>6, <1>8 DEF If
<1>10. (rtl_update_SF(s0, w) # rtl_is_add_overflow(s0, a, b, w)) <=> s < 0
  BY <1>1, <1>3, <1>4, <1>6, <1>7, <1>8 DEF If
<1>11. QED
  BY <1>1, <1>9, <1>10 DEF s0, s, S

Conditions == Compares /\ Overflows

\* What a step with sub, cmp or add leaves
LEMMA ConditionsSub ==
  ASSUME NEW w \in Widths, NEW a \in Values(w), NEW b \in Values(w),
         Sub(w, a, b) \/ Cmp(w, a, b)
  PROVE  Conditions'
<1> DEFINE s0 == rtl_sub(a, b)
           cf == rtl_is_sub_carry(s0, a)
           of == rtl_is_sub_overflow(s0, a, b, w)
           zf == rtl_update_ZF(s0, w)
           sf == rtl_update_SF(s0, w)
<1>1. a \in 0 .. Size[w] - 1 /\ b \in 0 .. Size[w] - 1 /\ a \in Int /\ b \in Int
  BY OperandType
<1>2. cf = If(a < b) /\ zf = If(a = b) /\ ((sf # of) <=> Signed(a, w) < Signed(b, w))
  BY <1>1, SubSays
<1>3. eflags' = [CF |-> cf, OF |-> of, ZF |-> zf, SF |-> sf]
  BY DEF Sub, Cmp, Flags
<1>4. last'.ins \in {"sub", "cmp"} /\ last'.width = w /\ last'.dest = a /\ last'.src = b
  BY DEF Sub, Cmp, Used
<1> HIDE DEF cf, of, zf, sf, s0
<1>5. eflags'.CF = If(a < b) /\ eflags'.ZF = If(a = b)
      /\ (If(eflags'.SF # eflags'.OF) = If(Signed(a, w) < Signed(b, w)))
  BY <1>2, <1>3 DEF If
<1>6. Signed(a, w) \in Int /\ Signed(b, w) \in Int /\ (Signed(a, w) = Signed(b, w) <=> a = b)
  <2>1. PICK h \in Nat \ {0} : Size[w] = 2 * h /\ Size[w] \div 2 = h
    BY Halves
  <2>2. QED
    BY <1>1, <2>1 DEF Signed
<1>7. rtl_or(eflags'.CF, eflags'.ZF) = If(a <= b)
  BY <1>1, <1>5 DEF rtl_or, If
<1>8. rtl_or(If(eflags'.SF # eflags'.OF), eflags'.ZF) = If(Signed(a, w) <= Signed(b, w))
  BY <1>5, <1>6 DEF rtl_or, If
<1>9. Compares'
  BY <1>4, <1>5, <1>7, <1>8 DEF Compares, rtl_setcc
<1>10. Overflows'
  BY <1>4 DEF Overflows
<1>11. QED
  BY <1>9, <1>10 DEF Conditions

LEMMA ConditionsAdd ==
  ASSUME NEW w \in Widths, NEW a \in Values(w), NEW b \in Values(w), Add(w, a, b)
  PROVE  Conditions'
<1> DEFINE s0 == rtl_add(a, b)
           of == rtl_is_add_overflow(s0, a, b, w)
           sf == rtl_update_SF(s0, w)
           s == Signed(a, w) + Signed(b, w)
           half == Size[w] \div 2
<1>1. a \in 0 .. Size[w] - 1 /\ b \in 0 .. Size[w] - 1
  BY OperandType
<1>2. of = If(s < -half \/ s >= half) /\ ((sf # of) <=> s < 0)
  BY <1>1, AddSays
<1>3. eflags'.OF = of /\ eflags'.SF = sf
  BY DEF Add, Flags
<1>4. last'.ins = "add" /\ last'.width = w /\ last'.dest = a /\ last'.src = b
  BY DEF Add, Used
<1> HIDE DEF of, sf, s0
<1>5. eflags'.OF = If(s < -half \/ s >= half) /\ If(eflags'.SF # eflags'.OF) = If(s < 0)
  BY <1>2, <1>3 DEF If
<1>6. Overflows'
  BY <1>4, <1>5 DEF Overflows, rtl_setcc
<1>7. Compares'
  BY <1>4 DEF Compares
<1>8. QED
  BY <1>6, <1>7 DEF Conditions

LEMMA ConditionsNext ==
  ASSUME Conditions, [Next]_vars
  PROVE  Conditions'
<1>1. CASE Start
  <2>0. PICK w \in Widths : \E a, b \in Values(w) :
          Add(w, a, b) \/ Sub(w, a, b) \/ Cmp(w, a, b)
    BY <1>1 DEF Start
  <2>1. PICK a \in Values(w), b \in Values(w) :
          Add(w, a, b) \/ Sub(w, a, b) \/ Cmp(w, a, b)
    BY <2>0
  <2>2. QED
    BY <2>1, ConditionsSub, ConditionsAdd
<1>2. CASE NextLimb \/ CountLimb
  <2>1. last'.ins \in {"adc", "sbb", "inc", "dec"}
    BY <1>2 DEF NextLimb, CountLimb, Adc, Sbb, Inc, Dec, Used
  <2>2. QED
    BY <2>1 DEF Conditions, Compares, Overflows
<1>3. CASE UNCHANGED vars
  <2>1. eflags' = eflags /\ last' = last
    BY <1>3 DEF vars
  <2>2. QED
    BY <2>1 DEF Conditions, Compares, Overflows, rtl_setcc
<1>4. QED
  BY <1>1, <1>2, <1>3 DEF Next

LEMMA ConditionsHold == Spec => []Conditions
<1>1. Init => Conditions
  BY DEF Init, Conditions, Compares, Overflows
<1>2. QED
  BY <1>1, ConditionsNext, PTL DEF Spec

\* For every size of a byte and all operands of all widths, each condition
\* that setcc and the jumps compute after sub and cmp says how the operands compare.
THEOREM ComparesCorrect == Spec => []Compares
<1>1. Conditions => Compares
  BY DEF Conditions
<1>2. QED
  BY <1>1, ConditionsHold, PTL

\* The same for OF and the sign after add.
THEOREM OverflowsCorrect == Spec => []Overflows
<1>1. Conditions => Overflows
  BY DEF Conditions
<1>2. QED
  BY <1>1, ConditionsHold, PTL
=============================================================================
