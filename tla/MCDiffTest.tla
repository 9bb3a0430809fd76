----------------------------- MODULE MCDiffTest -----------------------------
(***************************************************************************)
(* A machine with one register, one flag and one cell of memory, for TLC.  *)
(***************************************************************************)
EXTENDS DiffTest, Integers

Bit == {0, 1}
MCDeviceOps == {"in", "out", "push"}
MCOps == {"inc", "load", "store", "jz"} \cup MCDeviceOps

Result(pc, gpr, flags, ram) ==
  [regs |-> [pc |-> pc % 3, gpr |-> gpr, flags |-> flags], ram |-> ram]

MCisa ==
  [x \in MCOps \X Regs \X RAMs |->
     LET r == x[2]
         ram == x[3]
         seq == r.pc + 1 IN
     CASE x[1] = "inc" -> Result(seq, 1 - r.gpr, r.gpr, ram)
       [] x[1] = "load" -> Result(seq, ram, r.flags, ram)
       [] x[1] = "store" -> Result(seq, r.gpr, r.flags, r.gpr)
       [] x[1] = "jz" -> Result(seq + r.flags, r.gpr, r.flags, ram)
       [] OTHER -> Result(seq, r.gpr, r.flags, ram)]

\* in gets its register from the device, push (push r/m) the memory.
MCdevice ==
  [x \in Skipped \X Regs \X RAMs |->
     LET r == x[2]
         ram == x[3]
         seq == r.pc + 1 IN
     CASE x[1] = "in" -> {Result(seq, answer, r.flags, ram) : answer \in Bit}
       [] x[1] = "push" -> {Result(seq, r.gpr, r.flags, answer) : answer \in Bit}
       [] OTHER -> {Result(seq, r.gpr, r.flags, ram)}]

MCPCs == 0 .. 2
=============================================================================
