------------------------------ MODULE DiffTest ------------------------------
(***************************************************************************)
(* Differential testing, nemu/src/monitor/diff-test/diff-test.c: after     *)
(* each instruction of NEMU (the DUT) the reference design (REF) executes  *)
(* it too and the registers are compared.  REF has no devices, so an       *)
(* instruction that reached one is not repeated: REF gets the registers of *)
(* the DUT instead, and nothing of what it wrote to memory.  The           *)
(* instruction set is a parameter, and the DUT may get any instruction     *)
(* wrong.                                                                  *)
(***************************************************************************)
CONSTANTS PCs, GPRs, FLAGS,  \* the parts of CPU_state
          RAMs,              \* the contents of pmem
          Ops, DeviceOps,    \* instructions, and those that reach a device
          isa,               \* what an instruction does: [<<op, regs, ram>> -> result]
          device             \* the same for those that REF skips: the results there
                             \* are, one for each answer of the device

Regs == [pc : PCs, gpr : GPRs, flags : FLAGS]
Results == [regs : Regs, ram : RAMs]
Skipped == DeviceOps \cup {"trap"}

ASSUME DiffTestAssumption ==
  /\ DeviceOps \subseteq Ops
  /\ "none" \notin Ops /\ "trap" \notin Ops
  /\ isa \in [Ops \X Regs \X RAMs -> Results]
  /\ device \in [Skipped \X Regs \X RAMs -> SUBSET Results]

VARIABLES
  dut, dut_ram, ref, ref_ram,  \* registers and memory of the two machines
  is_skip_ref,
  nemu_state,
  op,     \* the instruction to be checked, or "none" between two of them
  fault,  \* history: how the first wrong result of the DUT was wrong
  looked, \* history: the debugger has read a device
  missed  \* history: REF skipped an instruction that wrote memory

vars == <<dut, dut_ram, ref, ref_ram, is_skip_ref, nemu_state, op, fault, looked, missed>>

\* init_difftest copies the image and the registers.
Init ==
  /\ dut \in Regs /\ dut_ram \in RAMs
  /\ ref = dut /\ ref_ram = dut_ram
  /\ is_skip_ref = FALSE
  /\ nemu_state = "RUNNING"
  /\ op = "none" /\ fault = "none" /\ looked = FALSE /\ missed = FALSE

-----------------------------------------------------------------------------
\* Variant: only the first of the two is compared.
CheckPC(r) == dut.pc = r.pc

\* isa_difftest_checkregs of x86: the comparison of the flags is commented out.
CheckRegs(r) == dut.pc = r.pc /\ dut.gpr = r.gpr

\* How the result res differs from right, the first time that one does.
Fault(res, right) ==
  IF fault # "none" \/ res = right THEN fault
  ELSE IF res.regs.pc # right.regs.pc \/ res.regs.gpr # right.regs.gpr THEN "seen"
  ELSE "unseen"

\* exec_once, for an instruction that uses only registers and memory
Exec(o) ==
  LET right == isa[<<o, dut, dut_ram>>] IN
  /\ nemu_state = "RUNNING" /\ op = "none"
  /\ \E res \in Results :
       /\ dut' = res.regs /\ dut_ram' = res.ram
       /\ fault' = Fault(res, right)
  /\ op' = o
  /\ UNCHANGED <<ref, ref_ram, is_skip_ref, nemu_state, looked, missed>>

\* What the DUT makes of an instruction that REF is to skip: registers and
\* memory both, as push and call from a device write the stack.  A wrong result
\* is one that no answer of the device explains.
SkippedResult(o) ==
  \E res \in Results :
    /\ dut' = res.regs /\ dut_ram' = res.ram
    /\ fault' = IF fault = "none" /\ res \notin device[<<o, dut, dut_ram>>]
                THEN "skipped" ELSE fault
    /\ missed' = (missed \/ res.ram # dut_ram)

\* Variant: the access to the device does not ask for the skip.
ExecDeviceChecked(o) ==
  /\ nemu_state = "RUNNING" /\ op = "none"
  /\ SkippedResult(o)
  /\ op' = o
  /\ UNCHANGED <<ref, ref_ram, is_skip_ref, nemu_state, looked>>

\* exec_once, for one that reads or writes a device: find_mapid_by_addr calls
\* difftest_skip_ref.
ExecDevice(o) ==
  /\ nemu_state = "RUNNING" /\ op = "none"
  /\ SkippedResult(o)
  /\ is_skip_ref' = TRUE
  /\ op' = o
  /\ UNCHANGED <<ref, ref_ram, nemu_state, looked>>

\* nemu_trap
ExecTrap ==
  /\ nemu_state = "RUNNING" /\ op = "none"
  /\ SkippedResult("trap")
  /\ is_skip_ref' = TRUE /\ nemu_state' = "END" /\ op' = "trap"
  /\ UNCHANGED <<ref, ref_ram, looked>>

\* Variant: is_skip_ref is not cleared, and stays for the rest of the run.
StepSkipSticky ==
  /\ op # "none" /\ is_skip_ref
  /\ ref' = dut
  /\ op' = "none"
  /\ UNCHANGED <<dut, dut_ram, ref_ram, is_skip_ref, nemu_state, fault, looked, missed>>

\* Variant: the registers are not copied to REF.
StepSkipUncopied ==
  /\ op # "none" /\ is_skip_ref
  /\ is_skip_ref' = FALSE /\ op' = "none"
  /\ UNCHANGED <<dut, dut_ram, ref, ref_ram, nemu_state, fault, looked, missed>>

\* difftest_step for an instruction that REF skips
StepSkip ==
  /\ op # "none" /\ is_skip_ref
  /\ ref' = dut
  /\ is_skip_ref' = FALSE /\ op' = "none"
  /\ UNCHANGED <<dut, dut_ram, ref_ram, nemu_state, fault, looked, missed>>

\* Variant: checkregs stops NEMU as a watchpoint does.
StepCheckStop ==
  LET res == isa[<<op, ref, ref_ram>>] IN
  /\ op # "none" /\ ~is_skip_ref
  /\ ref' = res.regs /\ ref_ram' = res.ram
  /\ nemu_state' = IF CheckRegs(res.regs) THEN nemu_state ELSE "STOP"
  /\ op' = "none"
  /\ UNCHANGED <<dut, dut_ram, is_skip_ref, fault, looked, missed>>

\* difftest_step for every other one
StepCheck ==
  LET res == isa[<<op, ref, ref_ram>>] IN
  /\ op # "none" /\ ~is_skip_ref
  /\ ref' = res.regs /\ ref_ram' = res.ram
  /\ nemu_state' = IF CheckRegs(res.regs) THEN nemu_state ELSE "ABORT"
  /\ op' = "none"
  /\ UNCHANGED <<dut, dut_ram, is_skip_ref, fault, looked, missed>>

\* An x or p command, or a watchpoint, whose address is that of a device: it
\* goes through find_mapid_by_addr like the guest's own accesses.
DebuggerRead ==
  /\ nemu_state = "RUNNING" /\ op = "none"
  /\ is_skip_ref' = TRUE /\ looked' = TRUE
  /\ UNCHANGED <<dut, dut_ram, ref, ref_ram, nemu_state, op, fault, missed>>

Next ==
  \/ \E o \in Ops \ DeviceOps : Exec(o)
  \/ \E o \in DeviceOps : ExecDevice(o)
  \/ ExecTrap
  \/ StepSkip \/ StepCheck
  \/ DebuggerRead

Spec == Init /\ [][Next]_vars

-----------------------------------------------------------------------------
(* Properties                                                              *)

TypeOK ==
  /\ dut \in Regs /\ ref \in Regs
  /\ dut_ram \in RAMs /\ ref_ram \in RAMs
  /\ is_skip_ref \in BOOLEAN
  /\ nemu_state \in {"RUNNING", "END", "ABORT"}
  /\ op \in Ops \cup {"none", "trap"}
  /\ fault \in {"none", "seen", "unseen", "skipped"}
  /\ looked \in BOOLEAN /\ missed \in BOOLEAN

\* What the copy of the registers cannot repair has not happened: the debugger
\* made REF skip an instruction of its own, or one that REF had to skip wrote
\* memory.
Followed == ~looked /\ ~missed

\* Between two instructions the machines agree in every register and in
\* memory, unless the DUT got one wrong: what REF skipped left it no trace of,
\* except for memory written by a skipped instruction.
Lockstep ==
  fault = "none" /\ Followed /\ op = "none" => dut = ref /\ dut_ram = ref_ram

\* A DUT that implements the instruction set is not reported, as long as only
\* the guest reaches devices and what reaches one leaves memory alone.
NoFalseAlarm == fault = "none" /\ Followed => nemu_state # "ABORT"

\* Of the instructions that REF repeats, the first whose result is wrong in the
\* pc or in a general register is reported at once, if no earlier one was wrong
\* unseen or skipped: diff-test.c:73, "The result of every instruction will be
\* compared with" REF, as far as that is so.
FaultReported == fault = "seen" /\ Followed /\ op = "none" => nemu_state = "ABORT"

\* Whatever went wrong before, unseen in a flag or in memory or skipped with the
\* device, and whatever REF missed: NEMU goes on only while the two machines agree in
\* the pc and the general registers.
NoSilentDrift ==
  op = "none" /\ nemu_state = "RUNNING" => dut.pc = ref.pc /\ dut.gpr = ref.gpr

\* diff-test.c:15-16, is_skip_ref "is used to let ref skip instructions which
\* can not produce consistent behavior with NEMU": no other one is skipped, so
\* looking at a device with the debugger makes no difference to a correct DUT.
LookingIsHarmless == fault = "none" /\ ~missed => nemu_state # "ABORT"
=============================================================================
