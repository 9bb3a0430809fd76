\* Sums and differences of two limbs, of bytes of one bit: every operand.
CONSTANTS
  Byte = 2
  Operands <- AllWords
  MaxLimbs = 2
  MaxBetween = 1
SPECIFICATION Spec
INVARIANTS TypeOK LimbsAddUp Compares Overflows
\* The sum has all its limbs.
CHECK_DEADLOCK FALSE
