------------------------------ MODULE MCX86Alu ------------------------------
(***************************************************************************)
(* Every operand of every width, for TLC.                                  *)
(***************************************************************************)
EXTENDS X86Alu

AllWords == 0 .. Word - 1
=============================================================================
