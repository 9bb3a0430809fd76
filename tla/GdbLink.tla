------------------------------ MODULE GdbLink -------------------------------
(***************************************************************************)
(* The reference that runs in QEMU: the calls of tools/qemu-diff become    *)
(* requests of the GDB remote protocol, each acknowledged, answered and    *)
(* the answer acknowledged.  The line keeps the order but may damage the   *)
(* packets, at most MaxHits times; GdbFrame has the characters of one.     *)
(***************************************************************************)
EXTENDS GdbHex, FiniteSetsExt

CONSTANTS NrReg,     \* the registers of union isa_gdb_regs
          DutReg,    \* and how many of them NEMU knows (DIFFTEST_REG_SIZE)
          Eip, Cs,   \* the places of two of them
          RegBytes,  \* the bytes of a register, 4 in the code
          Boot,      \* the registers QEMU starts with
          MemSize,   \* the bytes of its memory
          mtu,       \* the longest memory request, 1500 in the code
          Mbr,       \* what init_isa copies, and
          Entry,     \* where to
          Warmup,    \* the instructions init_isa runs, 20 in the code
          Calls,     \* the calls of the four functions NEMU makes
          MaxCalls,  \* bound: calls
          MaxHits    \* bound: damaged packets

Byte == 0 .. 255

\* What a byte of a register weighs, from the low one on.
Weight[n \in 0 .. RegBytes] == IF n = 0 THEN 1 ELSE 256 * Weight[n - 1]
Value == 0 .. Weight[RegBytes] - 1

Nothing == [op |-> "nothing"]
Aborted == [op |-> "aborted"]

ASSUME RegAssumption == /\ {NrReg, DutReg, RegBytes, mtu} \subseteq Nat \ {0} /\ DutReg <= NrReg
                        /\ Eip \in 1 .. DutReg /\ Cs \in DutReg + 1 .. NrReg
                        /\ Boot \in [1 .. NrReg -> Value]
ASSUME SizeAssumption == {MemSize, Warmup, MaxCalls, MaxHits, Entry} \subseteq Nat
ASSUME DataAssumption ==
  /\ Mbr \in Seq(Byte) /\ Entry + Len(Mbr) <= MemSize /\ Entry \in Value
  /\ \A c \in Calls :
       \/ c.op = "memcpy" /\ c.src \in Seq(Byte) /\ c.dest \in Nat /\ c.dest + Len(c.src) <= MemSize
       \/ c.op = "setregs" /\ c.regs \in [1 .. DutReg -> Value]
       \/ c.op = "exec" /\ c.n \in Nat
       \/ c.op = "getregs"

VARIABLES
  pc,       \* where the client stands in gdb_send and gdb_recv
  call,     \* the call in progress
  k,        \* its requests that have been answered
  ok,       \* ok of gdb_memcpy_to_qemu
  qemu_r,   \* the registers last decoded, a local of the calls
  up, down, \* the line to the stub and back: acknowledgements and packets
  last,     \* external: the stub's last answer
  machine,  \* external: the registers and the memory of the stub
  served,   \* history: the present request has been carried out
  value,    \* history: what the last call returned, or Aborted
  calls,    \* calls so far
  hits      \* packets damaged so far

vars == <<pc, call, k, ok, qemu_r, up, down, last, machine, served, value, calls, hits>>

-----------------------------------------------------------------------------

OK == <<79, 75>>
Error == <<69, 48, 49>>
Stopped == <<83, 48, 53>>

\* The bytes of the registers in memory, the low byte first.
BytesOf(regs) ==
  [i \in 1 .. RegBytes * Len(regs) |->
     (regs[(i + RegBytes - 1) \div RegBytes] \div Weight[(i - 1) % RegBytes]) % 256]

\* r->array[i], read from its own digits only.
Decoded(reply) ==
  [i \in 1 .. NrReg |-> gdb_decode_hex_str(SubSeq(reply, 2 * RegBytes * (i - 1) + 1, 2 * RegBytes * i))]

\* The requests, as what follows the letter of the packet.
gdb_getregs == [op |-> "g"]
gdb_setregs(regs) == [op |-> "G", hex |-> HexBytes(BytesOf(regs))]
gdb_si == [op |-> "vCont"]  \* vCont;s:1, one step
gdb_memcpy_to_qemu_small(dest, src) == [op |-> "M", dest |-> dest, hex |-> HexBytes(src)]

\* The requests of a copy: full ones as long as more than mtu bytes are left, then one.
Chunks(len) == IF len = 0 THEN 1 ELSE (len + mtu - 1) \div mtu

gdb_memcpy_to_qemu(dest, src, i) ==
  gdb_memcpy_to_qemu_small(dest + mtu * i, SubSeq(src, mtu * i + 1, Min({mtu * (i + 1), Len(src)})))

\* How many requests a call makes, and its request number i.
Requests(c) == CASE c.op = "memcpy" -> Chunks(Len(c.src))
                 [] c.op = "getregs" -> 1
                 [] c.op = "setregs" -> 2
                 [] c.op = "exec" -> c.n
                 [] c.op = "init" -> Chunks(Len(Mbr)) + 2 + Warmup

\* Variant: the registers NEMU does not know are cleared.
SetAlone(regs) == [i \in 1 .. NrReg |-> IF i <= DutReg THEN regs[i] ELSE 0]
\* difftest_setregs: what getregs left, its first part overwritten.
Merged(regs) == [i \in 1 .. NrReg |-> IF i <= DutReg THEN regs[i] ELSE qemu_r[i]]

Request(c, i) ==
  CASE c.op = "memcpy" -> gdb_memcpy_to_qemu(c.dest, c.src, i)
    [] c.op = "getregs" -> gdb_getregs
    [] c.op = "setregs" -> IF i = 0 THEN gdb_getregs ELSE gdb_setregs(Merged(c.regs))
    [] c.op = "exec" -> gdb_si
    [] c.op = "init" ->
         LET m == Chunks(Len(Mbr))
         IN CASE i < m -> gdb_memcpy_to_qemu(Entry, Mbr, i)
              [] i = m -> gdb_getregs
              [] i = m + 1 -> gdb_setregs([qemu_r EXCEPT ![Eip] = Entry, ![Cs] = 0])
              [] i > m + 1 -> gdb_si

-----------------------------------------------------------------------------

\* What travels: an acknowledgement is one character, a packet has a checksum that fits.
Ack == [kind |-> "+"]
Nack == [kind |-> "-"]
send_packet(content) == [kind |-> "$", content |-> content, sum_ok |-> TRUE]

\* External: QEMU, stopped before its first instruction.
AtBoot == [regs |-> Boot, mem |-> [a \in 0 .. MemSize - 1 |-> 0]]

\* init_isa is the first call; gdb_begin has sent an acknowledgement.
Init ==
  /\ pc = "next" /\ call = [op |-> "init"] /\ k = 0 /\ ok = TRUE
  /\ qemu_r = Boot
  /\ up = <<Ack>> /\ down = <<>> /\ last = Error
  /\ machine = AtBoot
  /\ served = FALSE /\ value = Nothing /\ calls = 0 /\ hits = 0

\* NEMU calls one of the four functions.
Call ==
  /\ pc = "idle" /\ calls < MaxCalls /\ calls' = calls + 1
  /\ call' \in Calls /\ k' = 0 /\ ok' = TRUE /\ pc' = "next"
  /\ UNCHANGED <<qemu_r, up, down, last, machine, served, value, hits>>

\* An assertion of init_isa or difftest_memcpy_from_dut finds ok false, behind the copy
\* or the setregs; difftest_setregs does not look at it.
Failed == ~ok /\ k >= IF call.op = "init" THEN Chunks(Len(Mbr)) ELSE Requests(call)

\* gdb_send up to the point where it waits.
Send ==
  /\ pc = "next" /\ k < Requests(call) /\ ~Failed
  /\ up' = Append(up, send_packet(Request(call, k))) /\ pc' = "ack" /\ served' = FALSE
  /\ UNCHANGED <<call, k, ok, qemu_r, down, last, machine, value, calls, hits>>

\* fgetc in gdb_send: anything but '+' sends the packet again.  Of a packet only the
\* first character is gone, and what is left is not one any more.
Acked ==
  /\ pc = "ack" /\ down # <<>>
  /\ down' = IF Head(down).kind = "$" THEN <<[kind |-> "#"]>> \o Tail(down) ELSE Tail(down)
  /\ IF Head(down) = Ack THEN pc' = "reply" /\ UNCHANGED up
     ELSE UNCHANGED pc /\ up' = Append(up, send_packet(Request(call, k)))
  /\ UNCHANGED <<call, k, ok, qemu_r, last, machine, served, value, calls, hits>>

\* Variant: only the last request of a copy counts.
OkLast(reply) == reply = OK
\* ok of a copy and of gdb_setregs.
Okay(reply) == ok /\ reply = OK

\* What the caller of gdb_recv does with the answer.
Take(reply) ==
  LET r == Request(call, k).op
  IN /\ k' = k + 1 /\ pc' = "next"
     /\ ok' = IF r = "M" \/ (r = "G" /\ call.op = "init") THEN Okay(reply) ELSE ok
     /\ qemu_r' = IF r = "g" THEN Decoded(reply) ELSE qemu_r

\* Variants: a packet is taken whatever its checksum; it is acknowledged whatever it is.
TakenAnyway(p) == TRUE
PlusAnyway(p) == Ack
Taken(p) == p.sum_ok
Verdict(p) == IF p.sum_ok THEN Ack ELSE Nack

\* gdb_recv: characters before a packet are skipped, a damaged one is asked for again.
Receive ==
  /\ pc = "reply" /\ down # <<>> /\ down' = Tail(down)
  /\ LET p == Head(down)
     IN /\ up' = IF p.kind = "$" THEN Append(up, Verdict(p)) ELSE up
        /\ IF p.kind = "$" /\ Taken(p) THEN Take(p.content) ELSE UNCHANGED <<pc, k, ok, qemu_r>>
  /\ UNCHANGED <<call, last, machine, served, value, calls, hits>>

\* difftest_getregs hands over the registers NEMU knows.
Returned(c, regs) == [of |-> c, regs |-> IF c.op = "getregs" THEN SubSeq(regs, 1, DutReg) ELSE <<>>]

\* The call returns, or an assertion ends NEMU.
Return ==
  /\ pc = "next" /\ (k = Requests(call) \/ Failed)
  /\ IF Failed THEN pc' = "aborted" /\ value' = Aborted
     ELSE pc' = "idle" /\ value' = Returned(call, qemu_r)
  /\ call' = Nothing /\ k' = 0
  /\ UNCHANGED <<ok, qemu_r, up, down, last, machine, served, calls, hits>>

-----------------------------------------------------------------------------

\* External: QEMU's stub, as far as the calls rely on it.

\* The bytes a row of digits stands for, and the registers.
Bytes(hex) == [i \in 1 .. Len(hex) \div 2 |-> gdb_decode_hex(hex[2 * i - 1], hex[2 * i])]
Words(hex) == [i \in 1 .. NrReg |->
  LET b == Bytes(hex)
      at == RegBytes * (i - 1)
      v[n \in 0 .. RegBytes] == IF n = 0 THEN 0 ELSE v[n - 1] + b[at + n] * Weight[n - 1]
  IN v[RegBytes]]

\* An instruction moves on and, say, changes a register NEMU does not know.
Stepped(regs) ==
  [regs EXCEPT ![Eip] = (@ + 1) % Weight[RegBytes], ![NrReg] = (@ + 1) % Weight[RegBytes]]
Copied(mem, dest, src) ==
  [a \in DOMAIN mem |-> IF a - dest + 1 \in DOMAIN src THEN src[a - dest + 1] ELSE mem[a]]

\* A request and its answer; a memory request may be refused.
Carried(r) ==
  CASE r.op = "g" -> {<<machine, HexBytes(BytesOf(machine.regs))>>}
    [] r.op = "G" -> {<<[machine EXCEPT !.regs = Words(r.hex)], OK>>}
    [] r.op = "M" -> {<<[machine EXCEPT !.mem = Copied(@, r.dest, Bytes(r.hex))], OK>>,
                      <<machine, Error>>}
    [] r.op = "vCont" -> {<<[machine EXCEPT !.regs = Stepped(@)], Stopped>>}

Stub ==
  /\ up # <<>> /\ up' = Tail(up)
  /\ LET p == Head(up)
     IN \/ p = Ack /\ UNCHANGED <<down, last, machine, served>>
        \/ p = Nack /\ down' = Append(down, send_packet(last)) /\ UNCHANGED <<last, machine, served>>
        \/ /\ p.kind = "$" /\ ~p.sum_ok
           /\ down' = Append(down, Nack) /\ UNCHANGED <<last, machine, served>>
        \/ /\ p.kind = "$" /\ p.sum_ok
           /\ \E c \in Carried(p.content) :
                /\ machine' = c[1] /\ last' = c[2]
                /\ down' = down \o <<Ack, send_packet(c[2])>>
           /\ served' = TRUE
  /\ UNCHANGED <<pc, call, k, ok, qemu_r, value, calls, hits>>

\* A packet under way is damaged so that its checksum tells.
Hurt(line, i) == i \in DOMAIN line /\ line[i].kind = "$" /\ line[i].sum_ok
Damage ==
  /\ hits < MaxHits /\ hits' = hits + 1
  /\ \/ \E i \in DOMAIN up : Hurt(up, i) /\ up' = [up EXCEPT ![i].sum_ok = FALSE] /\ UNCHANGED down
     \/ \E i \in DOMAIN down : Hurt(down, i) /\ down' = [down EXCEPT ![i].sum_ok = FALSE] /\ UNCHANGED up
  /\ UNCHANGED <<pc, call, k, ok, qemu_r, last, machine, served, value, calls>>

Client == Send \/ Acked \/ Receive \/ Return

Next == Call \/ Client \/ Stub \/ Damage

\* NEMU runs until it waits, and QEMU answers.
Spec == Init /\ [][Next]_vars /\ WF_vars(Client) /\ WF_vars(Stub)

-----------------------------------------------------------------------------

\* The two sides stay in step: an acknowledgement is waited for only where one comes
\* next, a packet only where one does, and between calls nothing of an old answer is on
\* its way to the client, so no call ever reads the answer of another.
InStep ==
  /\ pc = "ack" /\ down # <<>> => Head(down) \in {Ack, Nack}
  /\ pc = "reply" /\ down # <<>> => Head(down).kind = "$"
  /\ pc \in {"idle", "next"} => down = <<>>

\* A copy that returned is in the reference's memory, every chunk of it.
CopyIsWhole ==
  pc = "idle" /\ value.of.op = "memcpy" =>
    \A i \in DOMAIN value.of.src : machine.mem[value.of.dest + i - 1] = value.of.src[i]

\* Every call returns, or an assertion ends NEMU: a damaged packet is asked for again.
Returns == (call # Nothing) ~> (call = Nothing)

\* The calls as units of work: gdb_getregs, which setregs and init_isa ask for before
\* they write, is none.
GetFirst(c) == CASE c.op = "setregs" -> 0 [] c.op = "init" -> Chunks(Len(Mbr)) [] OTHER -> Requests(c)
UnitsDone ==
  LET answered == k + IF pc \in {"ack", "reply"} /\ served THEN 1 ELSE 0
  IN IF call # Nothing /\ answered > GetFirst(call) THEN answered - 1 ELSE answered
Units(c) == IF c.op \in {"setregs", "init"} THEN Requests(c) - 1 ELSE Requests(c)
Do(c, i, m) ==
  LET Chunk(dest, src) == {m, [m EXCEPT !.mem =
        Copied(@, dest + mtu * i, SubSeq(src, mtu * i + 1, Min({mtu * (i + 1), Len(src)})))]}
      regs == CASE c.op = "setregs" -> [j \in 1 .. NrReg |-> IF j <= DutReg THEN c.regs[j] ELSE m.regs[j]]
                [] c.op = "getregs" -> m.regs
                [] c.op = "init" /\ i = GetFirst(c) -> [m.regs EXCEPT ![Eip] = Entry, ![Cs] = 0]
                [] OTHER -> Stepped(m.regs)
  IN CASE c.op = "memcpy" -> Chunk(c.dest, c.src)
       [] c.op = "init" /\ i < GetFirst(c) -> Chunk(Entry, Mbr)
       [] OTHER -> {[m EXCEPT !.regs = regs]}

Ref == INSTANCE RefServer WITH
  First <- [op |-> "init"], Machines <- {AtBoot}, done <- UnitsDone,
  Value <- LAMBDA c, m : Returned(c, m.regs)

\* The protocol implements the reference NEMU expects: each unit of a call is carried out
\* once, in order, however often its packets are sent; setregs keeps the registers NEMU
\* does not know, and getregs returns what the reference holds at that moment.
ActsLikeReference == Ref!Spec
=============================================================================
