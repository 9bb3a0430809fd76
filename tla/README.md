# NEMU: specifications and proofs

TLA+ models of NEMU, the emulator of the ics2019 course project in `src/`: its
monitor and debugger, its devices, differential testing, and the instructions
of the x86 guest. Each model is checked by TLC on small instances, and the
central ones carry proofs, for all values of their constants, that TLAPS checks.
`PROJECT.json` ties every definition to the lines it models.

## 1. The system

NEMU is one process with one thread, one signal handler, and in the QEMU
configuration of differential testing a second process at the end of a socket.

| component | state | operations | interacts with |
|---|---|---|---|
| Watchpoint pool (`monitor/debug/watchpoint.c`) | `wp_pool`, lists `head` and `free_` | `init_wp_pool`, `new_wp`, `free_wp` | called by `w` and `d` (`ui.c`); walked by `info w` and by `cpu_exec` |
| Monitor (`cpu-exec.c`, `ui.c`, `monitor.c`) | `nemu_state`, `is_batch_mode`, `n` | `cpu_exec`, the commands c, si, w, d, p, x, info, q | everything: it drives the CPU, `difftest_step`, the watchpoints, `device_update` |
| Expressions (`expr.c`) | `tokens`, `nr_token` | `expr`, `eval`, `check_parentheses`, `find_primary_operator` | called by p, w, x and at every watchpoint check; reads registers and memory |
| Expression generator (`tools/gen-expr`) | `buf` | `gen_rand_expr` | writes test inputs for `expr` |
| Differential testing (`diff-test.c`, `isa/*/diff-test.c`) | `is_skip_ref`, `skip_dut_nr_instr` | `difftest_step`, `difftest_skip_ref`, `checkregs` | after each instruction; device accesses (`map.h`) ask for a skip |
| REF behind the GDB protocol (`tools/qemu-diff`) | a socket, the last packet | send, receive, acknowledge, resend | called by `difftest_step` |
| Keyboard (`device/keyboard.c`) | `key_queue`, `key_f`, `key_r` | `send_key`, `i8042_data_io_handler` | fed by `device_update`, read by guest and debugger |
| Device update (`device/device.c`) | `device_update_flag`, SDL's queue | `timer_sig_handler`, `device_update`, `sdl_clear_event_queue` | the signal arrives between any two steps |
| I/O maps (`device/io`, `memory/memory.c`) | `maps`, `p_space`, `pmem` | `map_read`, `map_write`, `find_mapid_by_addr`, `paddr_read`, `paddr_write` | every access of the guest and of the debugger |
| Timer, serial, VGA | a few registers | callbacks of the maps | guest programs |
| x86 guest (`isa/x86`) | registers, EFLAGS | decode, ModR/M, the EHelpers | written in RTL (`include/rtl`), whose temporaries `s0`, `s1`, `t0`, `t1` all share |
| riscv32 and mips32 guests | | a handful of instructions | skeletons |
| Nanos-lite | a bump allocator, the ramdisk | `new_page`, `ramdisk_read`, `ramdisk_write` | otherwise stubs with TODO panics |

What is hard:

- *Long legal sequences.* `w` and `d` relink two lists in one array; a lost node
  or a cycle shows only many commands later. The keyboard's indices wrap.
- *Several writers of one flag.* In one iteration of `cpu_exec` the instruction,
  the comparison with REF and the watchpoints all write `nemu_state.state`.
- *Flags set in one place and used in another.* `is_skip_ref` is set by the
  address lookup and read after the instruction; the lookup also serves the
  debugger.
- *Interleaving.* The timer signal sets `device_update_flag` between any two
  steps of `device_update`; the user types at any time.
- *Edges of numbers.* Carries and overflows of 1, 2 and 4 bytes computed in
  4-byte registers; the unsigned counter of `cpu_exec`; division in `expr`.
- *An unreliable line* between NEMU and QEMU (acknowledge, resend).

What makes each part correct, and where the property is:

| component | correctness | properties |
|---|---|---|
| Watchpoint pool | no node is lost, doubled or on both lists; every walk ends; the pool behaves as a list of watchpoints | `IInv`, `ImplementsList`, `HandlerReturns` |
| Monitor | an instruction runs only in state RUNNING; si is exact, for negative counts too, and returns; no watched change is run past; an ended program stays ended | `StateOfLoop`, `Counted`, `SiReturns`, `NoChangeMissed`, `ValuesFresh`, `EndedIsFinal` |
| Expressions | a value is the one, and the only one, that C's grammar derives, where signed and unsigned division agree; expressions without parentheses are evaluated, not aborted | `ValueIsRight`, `FlatNeverAborts`; `CalculatesValue` is violated |
| Differential testing | the machines stay in lockstep across skips that leave memory alone; no false alarm; every fault a comparison can see is reported at once; the registers never drift apart unnoticed | `Lockstep`, `NoFalseAlarm`, `FaultReported`, `NoSilentDrift` |
| Keyboard | a bounded FIFO | `ImplementsFifo` |
| Device update | nothing lost or invented from SDL to the guest, keys typed at the prompt stay there, the queue is emptied again and again | `NothingLost`, `OnlyTyped`, `PromptKeysStay`, `Delivered` |
| I/O maps, serial, timer, VGA | no register belongs to two devices; an access of any length that begins in a window spoils no other device; callbacks run on the right side of the transfer | `SpacesDisjoint`, `WindowsAgree`, `HostInTouch` |
| REF behind the GDB protocol | a packet is decoded as it was written, stays in its buffer, and counts only with the right checksum; the two sides stay in step across resends; the calls do to QEMU what NEMU expects of a reference, and return | `DecodesWhatWasWritten`, `InBuffer`, `SumGuards`, `InStep`, `CopyIsWhole`, `ActsLikeReference`, `Returns` |
| x86 arithmetic | long sums and differences are right; conditions mean what they say | `LimbsAddUp`, `Compares`, `Overflows` |
| x86 guest | an instruction in any encoding changes what the manual says and nothing else; no decoding state is left over for the next one | `DoesAsWritten`, `NothingLeftOver` |

## 2. The modules

| module | models | role |
|---|---|---|
| `SeqOps`, `NatLemmas` | | operators on sequences without repetition, with lemmas; arithmetic, induction over an interval and recursive functions, which the solvers need spelled out |
| `WatchpointList` | the promise of the pool | abstract specification |
| `WatchpointPool` | `watchpoint.c` and its callers, one action per step of a walk | detailed specification, refines `WatchpointList` |
| `Monitor` | `ui_mainloop` and `cpu_exec` | composes the loop with `WatchpointList` |
| `KeyFifo` | the promise of the keyboard | abstract specification |
| `Keyboard` | `keyboard.c` | detailed specification, refines `KeyFifo`; TLC checks it inside `Devices` |
| `Devices` | `device.c`, SDL's queue, the signal | extends `Keyboard` by the board around it |
| `DiffTest` | `difftest_step` and who sets `is_skip_ref` | parameterised by the instruction set |
| `ExprEval` | `expr.c` on tokens, inputs from `gen-expr.c` | a recursive function on the parts of an expression |
| `CExpr`, `ExprValue` | the expression grammar of C: the values of all derivations of every part of the tokens | the reference, and `ExprEval` compared with it |
| `X86Alu` | `arith.c`, `rtl.h` and `cc.c`: add, adc, sub, sbb, cmp, inc, dec, setcc | instructions as actions |
| `X86Decode` | `decode.c`, `modrm.c`, the opcode table of `exec.c`, registers and memory operands | operators on a machine and on `decinfo` |
| `X86` | `exec_once` and every EHelper | uses `X86Decode` and, for flags, `X86Alu` |
| `X86Manual` | | the i386 manual: an assembler and what each instruction changes, byte by byte; the reference `X86` is compared with |
| `IoMap` | `map.c`, `mmio.c`, `port-io.c`, `memory.c` and the callbacks of serial, timer, VGA and keyboard | memory and devices as bytes |
| `GdbHex` | the hexadecimal of `protocol.c` | used by the next two |
| `GdbFrame` | `recv_packet`, one call of fgetc a step | the characters of packets |
| `RefServer` | what NEMU expects of a reference | abstract specification |
| `GdbLink` | `gdb_send`, `gdb_recv`, `gdb-host.c`, the calls of `diff-test.c` and `init_isa` | detailed specification, refines `RefServer` |
| `MC*` | | finite instances |
| `WatchpointProofs`, `DiffTestProofs`, `X86AluProofs`, `IoMapProofs` | | theorems about the module of the name |
| `MonitorProofs` | | theorems about `Monitor`, `ExprEval` and `ExprValue` |
| `DevicesProofs` | | theorems about `Keyboard` and `Devices` |
| `GdbProofs` | | theorems about `GdbLink` and `GdbFrame` |

How state and actions correspond to the code:

- `WatchpointPool`: `head`, `free_`, `next`, `expression` and `value` are the
  fields of `wp_pool`. `pc`, `temp` and `wp` are the locals of the walk that is
  under way, one action per iteration: `AppendWalk` and `AppendLink` are the
  loop and the tail of `new_wp`, `FindWalk` the search of `cmd_d`, `UnlinkWalk`
  and `UnlinkLink` those of `free_wp`, `CheckOne` the pass in `cpu_exec`.
- `Monitor`: `pc` is the place in the loop. One iteration is `ExecOnce`,
  `DiffTestStep` if DIFF_TEST is defined, `CheckWatchpoint` once for each
  watchpoint and `CheckDone` if DEBUG is, then `NextIteration`. The macros are
  chosen in `Init` and never change. `Unsigned` is the conversion of si's int to
  the uint64_t of `cpu_exec`, with `Modulus64` for 2^64; c is `Enter(-1)`. The guest is only what the watched
  expressions evaluate to, and an instruction may change that to anything.
- `Keyboard`: `send_key`'s write, advance and Assert are one action: nothing
  interrupts them (the signal handler touches one flag only). Its `Spec` lets
  `nemu_state` change at any time.
- `Devices`: `BoardSpec` says when the actions of `Keyboard` happen, and that
  `Spec` follows from it is a theorem. The flag is tested, cleared and the queue polled in separate
  actions, so that `TimerSignal` falls between any two of them. `armed` is the
  interval timer of setitimer(ITIMER_VIRTUAL): it runs while the process does.
  `typed` is what the user did, with SDL's scancode before `device_update` cuts it
  to uint8_t (`Truncated`); `Mappings` are the words the code makes of events.
  `AccessFails` is the assertion in the keyboard's callback, for guest and debugger.
- `DiffTest`: an instruction is a function from registers and memory to
  registers and memory (`isa`). The DUT may get any instruction wrong; `fault`
  remembers whether the first wrong result showed in pc or general registers.
  What REF skips, accesses to devices and nemu_trap, has the results of `device`:
  one for each answer, of registers and of memory, as push and call through a
  device's register (`exec.c:43-45`) write the stack. The DUT may get these wrong,
  too, which `fault` records as "skipped". `missed` remembers that a skipped
  instruction wrote memory, of which REF is never told, and `looked` that the
  debugger has read a device; `Followed` says that neither has happened.
- `ExprEval`: a token is a pair of type and value. `buf` is derived step by step
  as `gen_rand_expr` does; a user may also write `==`, `!=`, `&&` and `*`.
  `CExpr` computes with ints, as the programs of `gen-expr` do, and marks a value
  that depends on whether a division has signs; it gives each part of the tokens the set of its values at each of the five levels
  of precedence, from the sets of shorter parts. It shares nothing with `ExprEval`.
  `Modulus` is 2 ^ 32 in the code.
- `X86Alu`: one action per EHelper, with the pseudo instructions as operators
  of their names. `Byte` is the number of values of a byte, so the same text
  describes small machines for TLC and the real one. `chain` and `last` are
  history: the long sum a program computes, and its last instruction.

- `X86Decode` and `X86`: a decode helper is a row of steps on `decinfo`, each a
  `decode_op` function; `exec_once` takes a machine to the next. The RTL
  temporaries that end with the instruction are LET definitions. Opcodes,
  ModR/M and SIB are the bytes of the machine; data bytes have `Byte` values
  and code lies apart from data memory, so a program does not write its code.
  Whatever would end NEMU (an assertion, a panic, SIGFPE) ends in state "dead".
- `X86Manual`: `Programs` are instructions as one writes them, `Assembled` gives
  every encoding the manual allows, `Changes` the cells that change, byte by
  byte. `Astray` lists what the code is known to get wrong, `Unknown` what its
  tables lack, `Parity` what ends in a panic, `Faults` where the processor itself would have a fault, and
  `FlagsOpen` the instructions whose flags are left to `X86Alu` or undefined
  in the code.
- `IoMap`: one action per call of the bus: `pio_read`, `pio_write`, `paddr_read`,
  `paddr_write`, and `AccessFails` where an assertion or a callback refuses.
  `InitDevice` is one device's init function. `is_skip_ref` says
  whether the access asked for the skip; what becomes of it is in `DiffTest`. `shadow`, `did` and `spilled` are history.
- `GdbFrame`: `recv` is the fgetc where `recv_packet` waits; `ungot` is what ungetc
  put back; `body` is history. The peer may send any characters.
- `GdbLink`: `up` and `down` are the two directions of the socket. `Send` and
  `Acked` are `gdb_send`, `Receive` is `gdb_recv`, `Take` what the caller does
  with the answer; `Request` tells request number k of a call. `Stub` is QEMU.
  The refinement reads the number of units done off k and `served`.

Operators and actions headed *Variant* are not part of the model. Each is a
plausible mistake in the code that one property must notice; the list
`mutants` of `PROJECT.json` pairs them.

## 3. What TLC checks

| run | instance | what it shows |
|---|---|---|
| `WatchpointPool` | pool of 4, one expression with two values | the shape of both lists at every step, refinement of `WatchpointList`, every handler returns |
| `Monitor` | all 8 builds, 2 watchpoints, si -2 to 2, `Modulus64` 5, batch or not | the loop's properties, and that si returns |
| `DiffTest` | 3 pcs, one register, one flag, one memory cell, 7 instructions of which 3 reach devices, one of them (push) to write memory | lockstep, no false alarm, prompt report, no silent drift |
| `Devices` | ring of 3, three events of a mapped key, an unmapped one and one whose scancode is truncated | the ring's types and its refinement of `KeyFifo` up to the overflow or a failed assertion; order, origin and delivery of key events |
| `Expr` | all expressions of up to 8 tokens over 3-bit words | values are the only ones C's grammar derives, but where a dereference opens a later parenthesis or a division depends on signs; flat expressions are always evaluated |
| `Alu` | bytes of one bit, all operands of all widths, sums of two limbs with one inc or dec between | long sums, conditions, overflow |
| `IoMap` | the six devices of init_device with small windows in their real order, pages of 8 bytes, bytes of one bit, two writes | allocation, routing, accesses that run over a window's end, callbacks |
| `GdbFrame` | bodies of up to 5 characters out of the 4 markers, two counts and a letter; two packets | decoding, the buffer, the checksum, starting over, the end of the line |
| `GdbLink` | init_isa and then up to three calls, three damaged packets | the two sides in step, whole copies, refinement of `RefServer`, every call returns |
| `X86` | every instruction in every encoding over operands of all kinds, 12 starts; programs of three out of 14 instructions on stack, jumps and prefix | each instruction does as the manual says |
| `DiffTestDebugger` | as `DiffTest` | a counterexample, section 6 |
| `ExprMisread` | as `Expr` | a counterexample, section 6 |

Why the bounds are enough:

- Four slots give every pair of lists, removal of the first,
  an inner and the last node, and exhaustion. The proofs lift the bound.
- Three events wrap both indices of a ring of three, or overflow it with the third.
  The proofs lift the bound.
- Two watchpoints are needed for a change behind or before another one; counts
  to 2 distinguish nothing, last and further instructions. With `Modulus64` 5, c and
  si -1 stand for 4 instructions and si -2 for 3, so that the run reaches the end
  of a negative count, too. The proofs lift the bounds.
- `MCisa` has an instruction for each way two machines can differ: through a
  register, a flag (jz), memory (store, load) and a device (in, out, and push,
  which writes what it read to memory). The proofs hold for every instruction set.
- Three typed events overflow the ring of `Devices` and fill it again behind a
  read; one of the three keys is 260, which becomes 4. `MaxTyped` is a bound of the model only.
- Eight tokens hold two operators in parentheses, three operators in a row, a
  parenthesised pair `(1)/(1)`, the misread `(1)/(*2)` and nested dereferences.
  Three bits wrap. The proofs lift both bounds.
- With bytes of one bit, a word still has operands of 1, 2 and 4 bytes and
  both signs of each. `MaxLimbs` and `MaxBetween` bound the program, not the
  data.
- In `IoMap` a page holds the largest device exactly once (vmem) and the others
  in part; `sync` follows `screen` without a gap, and the keyboard's page is
  the one behind vmem's, so that the end of each window has another kind of
  neighbour. Two writes put one value over another.
- `Size` 97 is the smallest buffer that one doubling makes large enough, as the
  4096 of the code is for its longest run. Five characters hold an escape and
  a run, or a packet cut short by the next.
- Chunks of two bytes give copies of one, exactly one, and two requests; the
  program of init_isa has two. Three damages hit both packets of an exchange
  and one of them twice.
- Bytes of two bits leave room for carries, signs and widths of 1, 2 and 4
  bytes, and make a register 8 bits wide. Memory has 16 bytes, so addresses
  may lie at its end and beyond. Rows of three instructions hold a call with
  its return, a push with its pop, and an instruction behind a prefixed one.

`CHECK_DEADLOCK FALSE` appears where the program really stops: NEMU exits, an
assertion ends it, or the modelled expression or sum is complete.

### Fairness

- `WatchpointPool`: WF of `HandlerStep`. A handler is straight code that runs
  until it returns. Commands are never forced.
- `Monitor`: WF of `MonitorStep`, the thread between two prompts. Neither
  commands nor the closing of the window are fair.
- `Devices`: WF of `MainStep`, for the same reason, and WF of `TimerSignal`: the
  interval timer is armed again by its handler and fires as long as the process uses time. No
  fairness of what the user types.
- `GdbLink`: WF of `Client`, the code between two calls of fgetc, and WF of
  `Stub`: QEMU answers. NEMU need not call, and damage is never forced.
- `Keyboard`, `DiffTest`, `ExprEval`, `X86Alu`, `X86`, `IoMap` and `GdbFrame` have
  safety properties only.

## 4. What is proved

| theorem | for every | argument |
|---|---|---|
| `WatchpointProofs!ShapeCorrect`, `TypeCorrect` | `NR_WP`, expressions, values | `IInv`: there are two sequences without repetition that the links spell out from `head` and `free_`, disjoint and together the pool (but for the node being linked), and each cursor is on the list it walks. Needed because neither the partition nor the types survive a step alone: `free_wp` may follow a link only because its node is on the list. |
| `AbortCorrect` | | from `IInv`; it has no run of its own: the refinement checked there implies it |
| `PoolImplementsList` | | `Live` and `Free` are the sequences of `IInv`; `AppendLink`, `FreeHead`, `UnlinkLink` and `CheckOne` are the abstract steps, all others stutter. A list is unique, so CHOOSE in `ListFrom` is determined. |
| `DevicesProofs!TypeCorrect`, `PendingCorrect`, `RingImplementsFifo` | ring length >= 2, key map | inductive (`RingInv`): types, all pending slots hold events, and `key_r = key_f` only after the overflow. The pending sequence is read off the ring modulo its length. `PendingCorrect` has no run of its own. |
| `BoardImplementsKeyboard` | the same, keys, scancodes | every step of `Devices` is a step of `Keyboard` or leaves the ring alone (`RingActs`, `RingSteps`), so that what is proved of the ring, `RingImplementsFifo` included, holds on the board. |
| `OnlyTypedCorrect` | the same | `OnlyTypedInv`: an event of SDL's queue was typed, too, key and direction (`Caused`), even where the truncation will make another key of it. Of a key that uint8_t holds the truncation makes the key itself (`OrdinaryWord`). |
| `NothingLostCorrect` | the same | `Flows` names the seven ways in which a step can move an event: into SDL's queue (a key, the close button), out of it unsent, from it to the ring, from the ring to the guest, from the ring to the debugger, or not at all. Under `BoardInv` every step is one of them, and each leaves alone what was read, what the ring holds and what SDL holds put behind one another, or sets `lost`. The lemmas `FilterAdded` and `FilterFirst` say what a filtered sequence becomes when one element comes or goes. |
| `PromptKeysStayCorrect` | the same | `PromptGone`: behind `sdl_clear_event_queue` no event of SDL's queue was typed at the prompt, and none joins it before the next prompt. |
| `MonitorProofs!StateOfLoopCorrect`, `CountedCorrect`, `EndedIsFinalCorrect` | build, pool, expressions, counts of either sign, `Modulus64` | `CountUnsigned`: the conversion keeps a count from 0 on and makes 2^64 + k of one below. `Balance` relates `n` and `done` at each place of the loop: their sum is `Times(asked)` before an instruction and one more behind it. |
| `ValuesFreshCorrect`, `NoChangeMissedCorrect` | the same | `WInv`: the watchpoints in use are distinct, and `Watched` says at each place of the loop which of them hold the value of now, which that of before the command, and that a difference has already stopped the loop. The pass over the list needs it: behind the first change the rest is neither fresh nor old. |
| `MonitorProofs!FlatCorrect` | numbers, operators, width, memory, length | `Shaped`, inductive, says what the generator can write: behind an operand stands an operator, a `)` or nothing. A flat one of these `Alternates` between numbers and operators (`FlatAlternates`) and no `*` of it is marked (`Unmarked`). `FindsOperator`: the loosest and last operator exists; `SplitsFlat`: between two shorter flat parts; so the parts of length up to any bound evaluate. That `eval` is defined on all parts is `EvalParts`: a part asks only for shorter ones. |
| `MonitorProofs!ValueCorrect` | the same, all expressions | Two halves, each by induction over the length of a part. *Some derivation has the value* (`ValueSound`): a part with a value splits as the grammar does (`ValueSplits`): it is a number, a pair of parentheses around a part with a value, a dereference before one, or two of them around the loosest and last operator. *No derivation has another* (`ValueUnique`): what the grammar derives is a `Phrase`, balanced, never closing what it did not open, and with no looser operator outside parentheses (`DerivedPhrase`); so a derivation's operator is one that `find_primary_operator` sees (`OperatorSeen`), and the last of the loosest is the only one that fits both sides. `DepthSplits` adds up the parentheses of neighbouring parts, and `Reading` says what the marking of `*` leaves as it was. `Misread` is needed in one place, `FirstDeref`: a dereference is found as the loosest operator only where it comes first. `Operate` of C gives the value that `eval` computes, or `Depends`, which nothing above it loses but an && that has its answer; `SignFree` excludes it. |
| `IoMapProofs!SpacesDisjointCorrect`, `WindowsAgreeCorrect`, `HostInTouchCorrect` | devices and their order, windows, page and space sizes, sizes of a byte, data | `Laid`: the pieces of `new_space` lie one behind the other in whole pages, so what an access or a callback puts (`StoredStep`) stays in the pages of its own device unless it runs over them, which `spilled` records. `Windowed` ties a map to the piece of its device, `Copied` a device to its shadow. |
| `DiffTestProofs!TypeCorrect`, `LockstepCorrect`, `NoFalseAlarmCorrect`, `FaultReportedCorrect`, `NoSilentDriftCorrect` | instruction set, answers of devices, registers, memory | `Paired`: between an instruction and its check, one more step of REF (or a copy, when it skips) puts REF where the DUT is, unless the DUT was wrong. It holds while `Followed` does, that is until the debugger reads a device or a skipped instruction writes memory; `NoSilentDriftCorrect` needs neither condition. |
| `X86AluProofs!TypeCorrect`, `LimbsCorrect` | size of a byte, operands, number of limbs | `TypeOK` and `LimbsAddUp` are inductive together; the lemmas `AddLimb`, `AdcLimb`, `SubLimb`, `SbbLimb` say that CF is the digit that did not fit, in both partial carries and for narrow operands of adc and sbb. |
| `ComparesCorrect`, `OverflowsCorrect` | size of a byte, operands | `TopBit`: the top bit of a width is that of the value modulo the width, whatever lies above. From it `SubSays` and `AddSays` read SF and OF as comparisons of the operands with half the width. |
| `GdbProofs!StaysInStep` | calls, registers, data, damage | `Exchange`: the two directions of the socket and `served` are in one of six configurations, from a request on its way (perhaps behind the acknowledgement of the answer before) to an answer asked for again. A resend moves between them; it never carries out a request twice. |
| `ImplementsReference` | the same, sizes of registers and of memory | `Data`: between two packets, what the client has got of the registers is what the machine has (`Gotten`), and `k` lies within the call. `UnitsMapped` ties the units `RefServer` counts to `k` and `served`: Stub's answer is the abstract step, the rest stutters. `DecodedOfHex` says that the digits QEMU writes are read back as the registers they were written from, for registers of any length; with it the partial update of `difftest_setregs` leaves the registers of QEMU that NEMU does not have. |
| `CopiesWhole` | the same | `CopyKept`: as long as no answer was an error, the first `k` chunks of the source are in the machine's memory (`k + 1` once served), and a further chunk leaves them there (`OneChunkMore`). |
| `InBufferCorrect` | size of a new buffer from 97 on, peer, length of packets | `Room`: the buffer never shrinks below a new one, and the longest run (126 - 29) fits into a new one, so one doubling is enough. A run needs a character before it (`Behind`). |
| `SumGuardsCorrect` | the same | `Tallied`: `sum` is that of the characters of the body so far, modulo 256, across `$` that begins a packet anew and a count put back; `Judged`: the verdict compares it with the number the two digits stand for. `TotalMore` is the sum of one character more. |
| `DecodesCorrect` | peer, messages of any length, characters and runs | `Wired` says what `reply` and `escape` are wherever the body so far is a whole message (`AtUnit`), one with a `}` behind it (`AtBrace`), or with a `*` (`AtStar`), for all messages at once: what has come is the beginning of many. `WireRead` is the other half: the last character of a written message stands for itself, is flipped behind a `}`, or is a count behind a `*`, and each case belongs to one branch of the decoder. A count may itself be the character `*` (a run of 14) or `}`; the conjuncts need each other to tell it from a marker. |

The assumptions are the ASSUMEs of the modules: a pool that is not empty and a
ring of at least two slots, operands, maps and calls of the stated types, a byte
with an even number of values, a buffer as large as the longest run, characters
that are bytes, messages that are sequences of units (a character and how often it
repeats, with a count that is neither `$` nor `#`), and copies that lie within
QEMU's memory. About devices: their
windows lie above pmem, the callbacks of clock and keyboard have spaces of 4
bytes, and screen and sync come with vmem; SDL_QUIT is no event of a key, and
the word of no event is that of an empty queue; the cast of a scancode leaves the
keys alone that uint8_t holds. What a debugger's count stands for assumes that its
magnitude is below 2^64 (an int's is). TLC evaluates each of them.

`NatLemmas` derives from the integers what the provers lack: `Induction` over an
interval (a set that holds 0 and is closed under the step, up to n, holds n),
`Recursion` (an equation that gives f[i] from f[i - 1] has exactly one solution),
and `Division`. The proofs of `Weight`, of `Total`, of `Filtered`,
of `marked`, of `eval`, of `Meanings` and of what a message is written as (`FlattenMore`) rest on them.

Only model-checked:

- `HandlerReturns`, `SiReturns`, `Delivered`, `Returns`: liveness under fairness.
- `DoesAsWritten` and `NothingLeftOver`: `X86` recurses through the groups and
  the prefix, and uses bitwise operators.

## 5. What is not modelled

- *Text*: the regular expressions of `make_token`, the parsing of arguments, the
  buffers that hold expressions, and the output of info, help, and the log.
  Their limits (32 tokens, 50 characters) are listed as hazards.
- *Failing watch expressions*: `cmd_w` stores whatever `expr` returns.
- `difftest_skip_dut`: its one call stands behind a TODO panic. `attach` and
  `detach` have no caller.
- *x86*: string instructions, pusha, popa, lidt, int, iret and the moves of
  control registers are TODO panics or missing in the tables. Names and display
  of registers (`reg.c`) are text. Prefixed calls, jumps and stack instructions
  are modelled but in no program of the run.
- *Accesses that straddle the end of pmem*: what lies behind the array is up to
  the build.
- *The line of the GDB protocol* is TCP: acknowledgements are neither lost nor
  damaged. `gdb_connect_qemu`, fork and exec are external; `gdb_start_noack` has
  no caller, `gdb_end` runs at exit.
- *SDL's window*: what the VGA shows is history only.
- *riscv32 and mips32* have a handful of instructions (lui, load, store, trap).
- *Nanos-lite*: what is not a stub is a bump allocator and a memcpy.

## 6. Where code and text disagree

Two disagreements have a run. In `DiffTestDebugger`, x, p and watchpoints on a device
address set `is_skip_ref` outside an instruction (`map.h:27`): REF skips the next
one. If that is a store, a later load reports a correct NEMU, against the comment
at `diff-test.c:15`. In `ExprMisread`, `check_parentheses` (`expr.c:115`) takes the first and the
last parenthesis of `(1)/(*2)` for a pair. In what is left, `1)/(*2`, only the dereference
stands outside parentheses as `find_primary_operator` counts them; all before it is
dropped, and p prints the word at address 2, against its help text ("calculate the value
of a given expression", `ui.c:140`). `ValueIsRight` leaves such expressions aside (`Misread`).

Met while modelling, and left as they are in the models:

| where | what the code does |
|---|---|
| `cpu-exec.c:80` | With DEBUG, a watchpoint that changes at the last instruction replaces END by STOP, and the ended program can be continued, against `cpu-exec.c:37`. `EndedIsFinal` is therefore stated for builds without DEBUG. |
| `expr.c:127` | `(1)/(1)` is taken for a parenthesised expression and ends in assert(0), though `gen-expr` writes it; `FlatNeverAborts` speaks of expressions without parentheses. |
| `expr.c:194` | `**a` and `a && *b` abort: neither TK_DEREF nor TK_AND is among the tokens behind which `*` is a dereference. |
| `expr.c:177` | Quotients are unsigned where the C program of `gen-expr` (`gen-expr.c:58-64`) computes signed ones (`1/(1-2)`). `CExpr` divides ints as C does and gives a quotient that a sign would change no value; `SignFree` leaves expressions that depend on one aside. |
| `diff-test.c:113`, `exec.c:43-45` | call and push of a word that a device register holds write the stack. REF skips them and gets the registers only, so its memory falls behind, and a later pop may report a correct DUT. The history `missed` says that this has happened; `Lockstep`, `NoFalseAlarm` and `FaultReported` speak of runs where it has not. |
| `diff-test.c:73` | "The result of every instruction will be compared": that of an instruction which reaches a device is copied to REF unchecked. `fault` is "skipped" where it was wrong. |
| `device.c:52` | The cast to uint8_t makes other keys of scancodes from 256 on: 260 is told to the guest as 4, the A. `OnlyTyped` speaks of runs in which no such key was typed. |
| `ui.c:54` | `atoi` gives an int, `cpu_exec` takes a uint64_t: `si -1` goes on like `c`, and a count k below 0 runs 2^64 + k instructions. |
| `arith.c:6` | add of bytes and half words leaves CF clear; `LimbsAddUp` lets a long sum begin with add of words only. |
| `arith.c:61`, `arith.c:70`, `logic.c:63` | inc, dec, sar, shl and shr pass their operand as the width: ZF and SF are those of other bits. |
| `arith.c:105` | adc and sbb compute OF from a register that no longer holds the sum. |
| `arith.c:77`, `arith.c:166` | neg and imul leave the flags alone; imul and idiv of 1 and 2 bytes lose the sign of their operands. |
| `logic.c:60`, `logic.c:81` | sar of narrow operands shifts in zeros; rol by more than one is rol by one. |
| `exec.c:67` | xor of bytes towards a register (0x32) is decoded towards memory. |
| `exec.c:39` | inc of a byte and setcc from sets to setle are missing in the tables. |
| `cc.c:25` | jp and jnp are in the tables and panic, as there is no PF; `Parity` expects that. |
| `x86/rtl.h:26` | push, pop, call and ret move 4 bytes with the operand-size prefix, too. |
| `qemu-diff/src/diff-test.c:30` | difftest_setregs does not look at the answer of its request, as difftest_memcpy_from_dut does. |

## 7. Plan

Done, in this order: watchpoints, keyboard, monitor, differential testing,
device update, expressions, additive instructions; then the I/O maps, the GDB
protocol, and the rest of the x86 guest with its decoding. What is left:

1. The tokens of `make_token` and the arguments of the commands, with their
   buffers, if a model can be shorter than the code.
2. The allocator and the ramdisk of Nanos-lite, once they are more than stubs.
