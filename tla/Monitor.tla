------------------------------ MODULE Monitor ------------------------------
(***************************************************************************)
(* NEMU's monitor: the command loop of ui.c and cpu_exec, which executes   *)
(* guest instructions and after each one compares them with the reference  *)
(* (DIFF_TEST), re-evaluates the watchpoints (DEBUG) and polls the devices *)
(* (HAS_IOE).  The three macros of common.h are chosen once, when NEMU is   *)
(* built; the watchpoints are those of WatchpointList, which               *)
(* WatchpointPool implements.  An instruction may change what any          *)
(* expression evaluates to: the guest is known to the monitor only         *)
(* through them.                                                           *)
(***************************************************************************)
EXTENDS SeqOps

CONSTANTS NR_WP, Exprs, NoExpr, Values,
          Counts,    \* the arguments of si, ints
          Modulus64  \* 2^64: cpu_exec takes a uint64_t

ASSUME MonitorAssumption ==
  /\ NR_WP \in Nat \ {0}
  /\ Modulus64 \in Nat /\ Modulus64 > 1
  /\ Counts \subseteq {k \in Int : -Modulus64 < k /\ k < Modulus64}

VARIABLES
  DEBUG, HAS_IOE, DIFF_TEST,                \* how NEMU was built
  live, spare, expression, value, aborted,  \* the watchpoints
  nemu_state,  \* its state field
  guest,       \* [Exprs -> Values], what each expression would evaluate to
  pc,          \* where the monitor is
  n,           \* cpu_exec's counter
  cursor,      \* the watchpoint to be evaluated next
  changed,     \* cpu_exec's local
  batch,       \* is_batch_mode
  asked, done, \* history: the count this cpu_exec was given, and its instructions
  before       \* history: guest when this cpu_exec was entered

build == <<DEBUG, HAS_IOE, DIFF_TEST>>
wps == <<live, spare, expression, value, aborted>>
history == <<asked, done, before>>
vars == <<build, wps, nemu_state, guest, pc, n, cursor, changed, batch, history>>

WL == INSTANCE WatchpointList

Ended == {"END", "ABORT"}

Init ==
  /\ DEBUG \in BOOLEAN /\ HAS_IOE \in BOOLEAN /\ DIFF_TEST \in BOOLEAN
  /\ WL!Init
  /\ nemu_state = "STOP"
  /\ guest \in [Exprs -> Values]
  /\ pc = "start" /\ n = 0 /\ cursor = 1 /\ changed = FALSE
  /\ batch \in BOOLEAN
  /\ asked = 0 /\ done = 0 /\ before = guest

-----------------------------------------------------------------------------
(* ui_mainloop and the commands that change something                      *)

\* Variant: the parameter is an int64_t, and the test n > 0 fails at once.
UnsignedClamped(k) == IF k < 0 THEN 0 ELSE k

\* The conversion of an int to the uint64_t that cpu_exec takes
Unsigned(k) == k % Modulus64

\* cpu_exec(k): a program that has ended is not run again.
Enter(k) ==
  IF nemu_state \in Ended
    THEN /\ pc' = IF batch THEN "quit" ELSE "prompt"
         /\ UNCHANGED <<nemu_state, n, history>>
    ELSE /\ nemu_state' = "RUNNING"
         /\ n' = Unsigned(k)
         /\ pc' = IF n' = 0 THEN "leave" ELSE "exec"
         /\ asked' = k /\ done' = 0 /\ before' = guest

Start ==
  /\ pc = "start"
  /\ IF batch THEN Enter(-1)
     ELSE pc' = "prompt" /\ UNCHANGED <<nemu_state, n, history>>
  /\ UNCHANGED <<wps, guest, cursor, changed, batch>>

CmdC ==
  /\ pc = "prompt" /\ Enter(-1)
  /\ UNCHANGED <<wps, guest, cursor, changed, batch>>

CmdSi(k) ==
  /\ pc = "prompt" /\ Enter(k)
  /\ UNCHANGED <<wps, guest, cursor, changed, batch>>

CmdW(e) ==
  /\ pc = "prompt" /\ WL!Set(e, guest[e])
  /\ UNCHANGED <<nemu_state, guest, pc, n, cursor, changed, batch, history>>

\* assert(0) in new_wp
CmdWNoneFree ==
  /\ pc = "prompt" /\ WL!Exhausted
  /\ pc' = "quit"
  /\ UNCHANGED <<nemu_state, guest, n, cursor, changed, batch, history>>

CmdD(k) ==
  /\ pc = "prompt" /\ WL!Delete(k)
  /\ UNCHANGED <<nemu_state, guest, pc, n, cursor, changed, batch, history>>

\* q, or the end of the input
CmdQ ==
  /\ pc = "prompt" /\ pc' = "quit"
  /\ UNCHANGED <<wps, nemu_state, guest, n, cursor, changed, batch, history>>

-----------------------------------------------------------------------------
(* The loop of cpu_exec, one action for each part of an iteration          *)

AfterExec == IF DIFF_TEST THEN "diff" ELSE IF DEBUG THEN "watch" ELSE "update"

\* exec_once.  An ordinary instruction, nemu_trap, or inv, which both go
\* through interpret_rtl_exit.
ExecOnce(state) ==
  /\ pc = "exec"
  /\ guest' \in [Exprs -> Values]
  /\ nemu_state' = IF state = "RUNNING" THEN nemu_state ELSE state
  /\ pc' = AfterExec
  /\ cursor' = 1 /\ changed' = FALSE
  /\ done' = done + 1
  /\ UNCHANGED <<wps, n, batch, asked, before>>

\* difftest_step: checkregs may find a difference, though not behind
\* nemu_trap, which asked for the check to be skipped.
DiffTestStep ==
  /\ pc = "diff"
  /\ \/ UNCHANGED nemu_state
     \/ nemu_state # "END" /\ nemu_state' = "ABORT"
  /\ pc' = IF DEBUG THEN "watch" ELSE "update"
  /\ UNCHANGED <<wps, guest, n, cursor, changed, batch, history>>

\* Variant: the walk ends at the first change.
CheckWatchpointFirst ==
  /\ pc = "watch" /\ cursor <= Len(live) /\ ~changed
  /\ WL!Refresh(cursor, guest[expression[live[cursor]]])
  /\ changed' = (guest[expression[live[cursor]]] # value[live[cursor]])
  /\ cursor' = IF changed' THEN Len(live) + 1 ELSE cursor + 1
  /\ UNCHANGED <<nemu_state, guest, pc, n, batch, history>>

\* Variant: changed says only what the last watchpoint did.
CheckWatchpointLast ==
  /\ pc = "watch" /\ cursor <= Len(live)
  /\ WL!Refresh(cursor, guest[expression[live[cursor]]])
  /\ changed' = (guest[expression[live[cursor]]] # value[live[cursor]])
  /\ cursor' = cursor + 1
  /\ UNCHANGED <<nemu_state, guest, pc, n, batch, history>>

\* Variant: temp is not moved to the next watchpoint.
CheckWatchpointStuck ==
  /\ pc = "watch" /\ cursor <= Len(live)
  /\ WL!Refresh(cursor, guest[expression[live[cursor]]])
  /\ changed' = (changed \/ guest[expression[live[cursor]]] # value[live[cursor]])
  /\ UNCHANGED <<nemu_state, guest, pc, n, cursor, batch, history>>

CheckWatchpoint ==
  /\ pc = "watch" /\ cursor <= Len(live)
  /\ WL!Refresh(cursor, guest[expression[live[cursor]]])
  /\ changed' = (changed \/ guest[expression[live[cursor]]] # value[live[cursor]])
  /\ cursor' = cursor + 1
  /\ UNCHANGED <<nemu_state, guest, pc, n, batch, history>>

CheckDone ==
  /\ pc = "watch" /\ cursor > Len(live)
  /\ nemu_state' = IF changed THEN "STOP" ELSE nemu_state
  /\ pc' = "update"
  /\ UNCHANGED <<wps, guest, n, cursor, changed, batch, history>>

\* Variant: the state is not looked at before the next instruction.
NextIterationUnchecked ==
  /\ pc = "update"
  /\ n' = n - 1
  /\ pc' = IF n' = 0 THEN "leave" ELSE "exec"
  /\ UNCHANGED <<wps, nemu_state, guest, cursor, changed, batch, history>>

\* device_update has returned: the break, or n -- and the test.
NextIteration ==
  /\ pc = "update"
  /\ IF nemu_state = "RUNNING"
       THEN n' = n - 1 /\ pc' = IF n' = 0 THEN "leave" ELSE "exec"
       ELSE n' = n /\ pc' = "leave"
  /\ UNCHANGED <<wps, nemu_state, guest, cursor, changed, batch, history>>

\* The window was closed: device_update calls exit(0).
DeviceQuit ==
  /\ HAS_IOE /\ pc = "update"
  /\ pc' = "quit"
  /\ UNCHANGED <<wps, nemu_state, guest, n, cursor, changed, batch, history>>

\* Variant: the state stays RUNNING behind the last instruction of si.
LeaveRunning ==
  /\ pc = "leave"
  /\ pc' = IF batch THEN "quit" ELSE "prompt"
  /\ UNCHANGED <<wps, nemu_state, guest, n, cursor, changed, batch, history>>

\* The switch behind the loop, and the return to ui_mainloop or main.
Leave ==
  /\ pc = "leave"
  /\ nemu_state' = IF nemu_state = "RUNNING" THEN "STOP" ELSE nemu_state
  /\ pc' = IF batch THEN "quit" ELSE "prompt"
  /\ UNCHANGED <<wps, guest, n, cursor, changed, batch, history>>

-----------------------------------------------------------------------------
Command ==
  \/ CmdC \/ \E k \in Counts : CmdSi(k)
  \/ \E e \in Exprs : CmdW(e)
  \/ CmdWNoneFree
  \/ \E k \in 1 .. Len(live) : CmdD(k)
  \/ CmdQ

MonitorStep ==
  \/ Start
  \/ \E state \in {"RUNNING"} \cup Ended : ExecOnce(state)
  \/ DiffTestStep \/ CheckWatchpoint \/ CheckDone
  \/ NextIteration \/ Leave

Next == (Command \/ MonitorStep \/ DeviceQuit) /\ UNCHANGED build

Spec == Init /\ [][Next]_vars

\* NEMU is one thread, which goes on whenever no command is awaited.
FairSpec == Spec /\ WF_vars(MonitorStep /\ UNCHANGED build)

-----------------------------------------------------------------------------
(* Properties                                                              *)

\* An instruction is executed only while the state is RUNNING, and the user
\* is asked for a command only when it is not: a trap, an invalid opcode, a
\* difference or a watchpoint stops the loop before the next instruction.
StateOfLoop ==
  /\ pc = "exec" => nemu_state = "RUNNING"
  /\ pc \in {"start", "prompt"} => nemu_state # "RUNNING"

\* How many instructions a count stands for: itself if it is none below 0, and
\* else all but so many of 2^64.
Times(k) == IF k >= 0 THEN k ELSE Modulus64 + k

\* si executes as many instructions as its count stands for, and fewer only when
\* the program ended or a watchpoint stopped it; si -1 does what c does.
Counted ==
  /\ done <= Times(asked)
  /\ pc = "leave" /\ nemu_state = "RUNNING" => done = Times(asked)
  /\ pc = "exec" => done < Times(asked)

\* With DEBUG, what `info w` prints is what the expressions are worth now:
\* one pass re-evaluates every watchpoint, also behind the first change.
ValuesFresh ==
  DEBUG /\ pc \in {"start", "prompt", "exec", "update", "leave"} =>
    \A k \in 1 .. Len(live) : value[live[k]] = guest[expression[live[k]]]

\* With DEBUG, c and si run past no change: before each further instruction
\* every watched expression is worth what it was when the command was given.
NoChangeMissed ==
  DEBUG /\ pc = "exec" =>
    \A k \in 1 .. Len(live) :
      guest[expression[live[k]]] = before[expression[live[k]]]

\* Without DEBUG a program that trapped or aborted has ended: none of the
\* stages behind the instruction and no command brings it back to life.
EndedIsFinal ==
  [][(~DEBUG /\ nemu_state \in Ended)
       => (nemu_state' = nemu_state /\ guest' = guest)]_vars

\* Every c and every si, of a count below 0 too, comes back to the prompt or
\* leaves NEMU, watchpoints or not: after 2^64 - 1 instructions at the latest.
SiReturns == (pc = "exec") ~> (pc \in {"prompt", "quit"})
=============================================================================
