--------------------------- MODULE DiffTestProofs ---------------------------
(***************************************************************************)
(* Proofs about DiffTest, for every machine that the constants describe.   *)
(***************************************************************************)
EXTENDS DiffTest, TLAPS

\* What one more step of REF would leave it with.
RefResult == isa[<<op, ref, ref_ram>>]

\* Within one instruction: REF is where the DUT was, so that one more step of
\* REF, or a copy of the registers, puts it where the DUT is.
Paired ==
  /\ op = "none" => ~is_skip_ref
  /\ fault = "none" =>
       /\ nemu_state # "ABORT"
       /\ IF op = "none" THEN dut = ref /\ dut_ram = ref_ram
          ELSE IF is_skip_ref THEN dut_ram = ref_ram
          ELSE RefResult.regs = dut /\ RefResult.ram = dut_ram
  /\ fault = "seen" =>
       IF op = "none" THEN nemu_state = "ABORT"
       ELSE ~is_skip_ref /\ ~CheckRegs(RefResult.regs)

Inv ==
  /\ TypeOK
  /\ op = "trap" => is_skip_ref
  /\ Followed => Paired

LEMMA Result ==
  ASSUME NEW o \in Ops, NEW r \in Regs, NEW m \in RAMs
  PROVE  isa[<<o, r, m>>] \in Results
BY DiffTestAssumption

\* What SkippedResult leaves keeps the types, and finds no fault that is seen.
LEMMA SkippedTypes ==
  ASSUME TypeOK, NEW o, SkippedResult(o)
  PROVE  /\ dut' \in Regs /\ dut_ram' \in RAMs /\ missed' \in BOOLEAN
         /\ fault' \in {"none", "seen", "unseen", "skipped"}
         /\ fault' = fault \/ (fault = "none" /\ fault' = "skipped")
         /\ ~missed' => ~missed /\ dut_ram' = dut_ram
BY DEF TypeOK, SkippedResult, Results

\* The types are preserved by every step.
LEMMA TypeStep ==
  ASSUME TypeOK, op = "trap" => is_skip_ref, [Next]_vars
  PROVE  TypeOK'
<1>1. ASSUME NEW o \in Ops, Exec(o) PROVE TypeOK'
  <2>2. dut' \in Regs /\ dut_ram' \in RAMs /\ fault' \in {"none", "seen", "unseen", "skipped"}
    BY <1>1 DEF TypeOK, Exec, Fault, Results
  <2> QED BY <1>1, <2>2 DEF Exec, TypeOK
<1>2. ASSUME NEW o \in DeviceOps, ExecDevice(o) PROVE TypeOK'
  BY <1>2, SkippedTypes, DiffTestAssumption DEF ExecDevice, TypeOK
<1>3. CASE ExecTrap
  BY <1>3, SkippedTypes DEF ExecTrap, TypeOK
<1>4. CASE StepSkip
  BY <1>4 DEF StepSkip, TypeOK
<1>5. CASE StepCheck
  <2>1. op \in Ops
    BY <1>5 DEF StepCheck, TypeOK
  <2>2. isa[<<op, ref, ref_ram>>] \in Results
    BY <2>1, Result DEF TypeOK
  <2> QED BY <1>5, <2>2 DEF StepCheck, TypeOK, Results
<1>6. CASE DebuggerRead
  BY <1>6 DEF DebuggerRead, TypeOK
<1>7. CASE UNCHANGED vars
  BY <1>7 DEF vars, TypeOK
<1> QED BY <1>1, <1>2, <1>3, <1>4, <1>5, <1>6, <1>7 DEF Next

LEMMA InitInv == Init => Inv
BY DEF Init, Inv, Followed, Paired, TypeOK

\* Every step that REF can follow keeps the machines paired.
LEMMA PairedStep ==
  ASSUME Inv, Paired, [Next]_vars, Followed'
  PROVE  Paired'
<1>1. TypeOK' /\ TypeOK
  BY TypeStep DEF Inv
<1>2. ASSUME NEW o \in Ops \ DeviceOps, Exec(o) PROVE Paired'
  <2>1. PICK res \in Results :
          /\ dut' = res.regs /\ dut_ram' = res.ram
          /\ fault' = Fault(res, isa[<<o, dut, dut_ram>>])
    BY <1>1, <1>2, Result DEF Exec, TypeOK
  <2>2. /\ op = "none" /\ op' = o /\ nemu_state' = "RUNNING" /\ nemu_state = "RUNNING"
        /\ ~is_skip_ref' /\ ref' = ref /\ ref_ram' = ref_ram
    BY <1>2 DEF Exec, Inv, Paired
  <2>0. o # "none" /\ o # "trap"
    BY DiffTestAssumption
  <2>3. PICK right \in Results : right = isa[<<o, dut, dut_ram>>]
    BY <1>1, <1>2, Result DEF TypeOK
  <2>4. fault # "seen"
    BY <2>2 DEF Inv, Paired
  <2>5. (fault' # "none" /\ fault' # "seen") \/ fault = "none"
    BY <1>1, <2>1, <2>4 DEF Fault, TypeOK
  <2>6. CASE fault = "none"
    <3>1. RefResult' = right
      BY <2>2, <2>3, <2>6 DEF Inv, Paired, RefResult
    <3>2. CASE res = right
      <4>1. fault' = "none"
        BY <2>1, <2>3, <2>6, <3>2 DEF Fault
      <4> QED BY <1>1, <2>0, <2>1, <2>2, <3>1, <3>2, <4>1 DEF Inv, Paired
    <3>3. CASE res # right
      <4>1. /\ fault' # "none"
            /\ fault' = "seen" => ~(dut'.pc = right.regs.pc /\ dut'.gpr = right.regs.gpr)
        BY <2>1, <2>3, <2>6, <3>3 DEF Fault, Results
      <4>2. fault' = "seen" => ~CheckRegs(RefResult.regs)'
        BY <3>1, <4>1 DEF CheckRegs
      <4> QED BY <1>1, <2>0, <2>2, <4>1, <4>2 DEF Inv, Paired
    <3> QED BY <3>2, <3>3
  <2>9. fault # "none" => fault' = fault
    BY <2>1 DEF Fault
  <2>7. CASE fault # "none"
    BY <1>1, <2>0, <2>2, <2>4, <2>5, <2>7, <2>9 DEF Inv, Paired
  <2> QED BY <2>6, <2>7
<1>3. ASSUME NEW o \in DeviceOps, ExecDevice(o) PROVE Paired'
  <2>1. o # "none" /\ o # "trap"
    BY DiffTestAssumption
  <2>2. fault # "seen"
    BY <1>3 DEF ExecDevice, Inv, Paired
  <2>3. /\ dut_ram' = dut_ram
        /\ fault' = fault \/ fault' = "skipped"
    BY <1>1, <1>3, SkippedTypes DEF ExecDevice, Followed
  <2> QED BY <1>1, <1>3, <2>1, <2>2, <2>3 DEF ExecDevice, Inv, Paired
<1>4. CASE ExecTrap
  <2>1. /\ dut_ram' = dut_ram
        /\ fault' = fault \/ fault' = "skipped"
    BY <1>1, <1>4, SkippedTypes DEF ExecTrap, Followed
  <2> QED BY <1>1, <1>4, <2>1 DEF ExecTrap, Inv, Paired
<1>5. CASE StepSkip
  BY <1>1, <1>5 DEF StepSkip, Inv, Paired
<1>6. CASE StepCheck
  <2>1. /\ ref' = RefResult.regs /\ ref_ram' = RefResult.ram /\ op # "none" /\ op' = "none"
        /\ nemu_state' = IF CheckRegs(RefResult.regs) THEN nemu_state ELSE "ABORT"
        /\ UNCHANGED <<dut, dut_ram, is_skip_ref, fault>> /\ ~is_skip_ref
    BY <1>6 DEF StepCheck, RefResult
  <2>2. fault = "none" => CheckRegs(RefResult.regs)
    BY <2>1 DEF Inv, Paired, CheckRegs
  <2> QED BY <1>1, <2>1, <2>2 DEF Inv, Paired
<1>7. CASE DebuggerRead
  BY <1>7 DEF DebuggerRead, Followed
<1>8. CASE UNCHANGED vars
  BY <1>1, <1>8 DEF vars, Inv, Paired, RefResult, CheckRegs
<1> QED BY <1>2, <1>3, <1>4, <1>5, <1>6, <1>7, <1>8 DEF Next

LEMMA InvStep ==
  ASSUME Inv, [Next]_vars
  PROVE  Inv'
<1>1. TypeOK'
  BY TypeStep DEF Inv
<1>2. (op = "trap" => is_skip_ref)'
  BY DiffTestAssumption
     DEF Inv, Next, vars, Exec, ExecDevice, ExecTrap, StepSkip, StepCheck, DebuggerRead
<1>3. Followed' => Followed
  BY DEF Next, vars, Followed, SkippedResult, Exec, ExecDevice, ExecTrap, StepSkip, StepCheck,
         DebuggerRead
<1>4. Followed' => Paired'
  BY <1>3, PairedStep DEF Inv
<1> QED BY <1>1, <1>2, <1>4 DEF Inv

LEMMA InvCorrect == Spec => []Inv
<1>1. Inv /\ [Next]_vars => Inv'
  BY InvStep
<1> QED BY InitInv, <1>1, PTL DEF Spec

\* Types, for every machine.
THEOREM TypeCorrect == Spec => []TypeOK
<1>1. Inv => TypeOK
  BY DEF Inv
<1> QED BY <1>1, InvCorrect, PTL

\* Whatever a fault-free DUT executes, REF is in the same state behind it, for
\* every instruction set, as long as only the guest reaches devices and no
\* instruction that does writes memory.
THEOREM LockstepCorrect == Spec => []Lockstep
<1>1. Inv => Lockstep
  BY DEF Inv, Paired, Lockstep
<1> QED BY <1>1, InvCorrect, PTL

\* A correct DUT is never reported, under the same condition.
THEOREM NoFalseAlarmCorrect == Spec => []NoFalseAlarm
<1>1. Inv => NoFalseAlarm
  BY DEF Inv, Paired, NoFalseAlarm
<1> QED BY <1>1, InvCorrect, PTL

\* Under the same condition the first wrong result, if REF repeats the
\* instruction and pc or a general register shows it, stops NEMU in its step.
THEOREM FaultReportedCorrect == Spec => []FaultReported
<1>1. Inv => FaultReported
  BY DEF Inv, Paired, FaultReported
<1> QED BY <1>1, InvCorrect, PTL

\* With or without faults, debugger reads and memory that REF missed: NEMU goes on only while the pc
\* and the general registers of the two machines agree.
THEOREM NoSilentDriftCorrect == Spec => []NoSilentDrift
<1>1. Init => NoSilentDrift
  BY DEF Init, NoSilentDrift
<1>2. NoSilentDrift /\ [Next]_vars => NoSilentDrift'
  BY DiffTestAssumption DEF NoSilentDrift, Next, vars, Exec, ExecDevice, ExecTrap, StepSkip, StepCheck,
         DebuggerRead, CheckRegs
<1> QED BY <1>1, <1>2, PTL DEF Spec
=============================================================================
