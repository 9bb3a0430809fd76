----------------------------- MODULE MCGdbLink -----------------------------
(***************************************************************************)
(* Three registers of two bytes; copies of one, two and four chunks.       *)
(***************************************************************************)
EXTENDS GdbLink

MCBoot == <<258, 10, 43981>>

MCMbr == <<250, 49, 192>>

MCCalls ==
  {[op |-> "getregs"], [op |-> "exec", n |-> 2], [op |-> "setregs", regs |-> <<4660, 65535>>],
   [op |-> "memcpy", dest |-> 1, src |-> <<17>>],
   [op |-> "memcpy", dest |-> 0, src |-> <<171, 9>>],
   [op |-> "memcpy", dest |-> 0, src |-> <<1, 2, 3, 4>>]}
=============================================================================
