------------------------------ MODULE GdbProofs ------------------------------
(***************************************************************************)
(* Proofs about GdbLink, for any registers, memory, calls and number of    *)
(* damaged packets: the exchange of one request, what its digits stand     *)
(* for, what the calls ask for and what the stub does, the refinement of   *)
(* RefServer, and the copies.  Then GdbFrame, for packets of any length,   *)
(* and for messages of any length that a peer writes by the rules.         *)
(***************************************************************************)
EXTENDS GdbLink, GdbFrame, NatLemmas, SequenceTheorems

-----------------------------------------------------------------------------
(* The exchange of one request                                             *)

Packet(content, b) == [kind |-> "$", content |-> content, sum_ok |-> b]

\* Where a request stands: nothing is asked; it is on its way, perhaps behind the
\* acknowledgement of the answer before; it came damaged; it is carried out and answered;
\* the answer is acknowledged to be coming; it came damaged and is asked for again.
Quiet == pc \in {"next", "idle", "aborted"} /\ up \in {<<>>, <<Ack>>} /\ down = <<>>
Asked == /\ pc = "ack" /\ served = FALSE /\ down = <<>>
         /\ \E b \in BOOLEAN : LET p == Packet(Request(call, k), b) IN up = <<p>> \/ up = <<Ack, p>>
Refused == pc = "ack" /\ served = FALSE /\ up = <<>> /\ down = <<Nack>>
Answered == pc = "ack" /\ served = TRUE /\ up = <<>> /\ \E b \in BOOLEAN : down = <<Ack, Packet(last, b)>>
Coming == pc = "reply" /\ served = TRUE /\ up = <<>> /\ \E b \in BOOLEAN : down = <<Packet(last, b)>>
AskedAgain == pc = "reply" /\ served = TRUE /\ up = <<Nack>> /\ down = <<>>

Exchange == Quiet \/ Asked \/ Refused \/ Answered \/ Coming \/ AskedAgain

\* Short lines, as the code of the lines sees them.
LEMMA SameSeq ==
  ASSUME NEW S, NEW s \in Seq(S), NEW t \in Seq(S), Len(s) = Len(t),
         \A i \in 1 .. Len(s) : s[i] = t[i]
  PROVE  s = t
  OBVIOUS

LEMMA Line ==
  ASSUME NEW a, NEW b
  PROVE  /\ Append(<<>>, a) = <<a>> /\ Append(<<a>>, b) = <<a, b>>
         /\ Tail(<<a>>) = <<>> /\ Tail(<<a, b>>) = <<b>>
         /\ Head(<<a>>) = a /\ Head(<<a, b>>) = a
         /\ <<>> \o <<a, b>> = <<a, b>>
         /\ <<a>> # <<>> /\ <<a, b>> # <<>>
<1>1. Append(<<>>, a) = <<a>>
  OBVIOUS
<1>2. Append(<<a>>, b) = <<a, b>>
  <2>1. Append(<<a>>, b) \in Seq({a, b}) /\ <<a, b>> \in Seq({a, b})
    OBVIOUS
  <2>2. Len(Append(<<a>>, b)) = 2 /\ Len(<<a, b>>) = 2
    OBVIOUS
  <2>3. Append(<<a>>, b)[1] = a /\ Append(<<a>>, b)[2] = b
    OBVIOUS
  <2>4. \A i \in 1 .. 2 : Append(<<a>>, b)[i] = <<a, b>>[i]
    BY <2>3
  <2> QED  BY <2>1, <2>2, <2>4, SameSeq
<1>3. Tail(<<a>>) = <<>>
  OBVIOUS
<1>4. Tail(<<a, b>>) = <<b>>
  OBVIOUS
<1>5. Head(<<a>>) = a /\ Head(<<a, b>>) = a
  OBVIOUS
<1>6. <<>> \o <<a, b>> = <<a, b>>
  OBVIOUS
<1>7. <<a>> # <<>> /\ <<a, b>> # <<>>
  OBVIOUS
<1> QED  BY <1>1, <1>2, <1>3, <1>4, <1>5, <1>6, <1>7

LEMMA Kinds ==
  ASSUME NEW c, NEW b
  PROVE  /\ Ack.kind = "+" /\ Nack.kind = "-"
         /\ Packet(c, b).kind = "$" /\ Packet(c, b).content = c /\ Packet(c, b).sum_ok = b
         /\ Ack # Nack /\ Ack # Packet(c, b) /\ Nack # Packet(c, b)
         /\ send_packet(c) = Packet(c, TRUE)
<1>1. /\ Ack.kind = "+" /\ Nack.kind = "-"
      /\ Packet(c, b).kind = "$" /\ Packet(c, b).content = c /\ Packet(c, b).sum_ok = b
  BY DEF Ack, Nack, Packet
<1>2. send_packet(c) = Packet(c, TRUE)
  BY DEF send_packet, Packet
<1> QED  BY <1>1, <1>2

\* What a step of each kind does to the exchange.
LEMMA SendStep ==
  ASSUME Exchange, Send
  PROVE  Asked'
<1>1. up \in {<<>>, <<Ack>>} /\ down = <<>>
  BY DEF Send, Exchange, Quiet, Asked, Refused, Answered, Coming, AskedAgain
<1> DEFINE r == Request(call, k)
           p == Packet(r, TRUE)
<1>2. up' = Append(up, p) /\ pc' = "ack" /\ served' = FALSE /\ down' = down
  BY Kinds DEF Send
<1>3. Request(call, k)' = r
  <2>1. call' = call /\ k' = k /\ qemu_r' = qemu_r
    BY DEF Send
  <2> QED  BY <2>1 DEF Request, Merged
<1> HIDE DEF p, r
<1>4. up' = <<p>> \/ up' = <<Ack, p>>
  BY <1>1, <1>2, Line
<1> USE DEF p
<1> HIDE DEF p
<1>5. \E b \in BOOLEAN : LET q == Packet(r, b) IN up' = <<q>> \/ up' = <<Ack, q>>
  BY <1>4 DEF p
<1> QED  BY <1>1, <1>2, <1>3, <1>5 DEF Asked

\* A '+' is the stub's answer coming; a '-' makes gdb_send repeat its packet.
LEMMA AckedStep ==
  ASSUME Exchange, Acked
  PROVE  (Answered /\ Coming') \/ (Refused /\ Asked')
<1>1. pc = "ack" /\ down # <<>>
  BY DEF Acked
<1>2. Answered \/ Refused
  BY <1>1 DEF Exchange, Quiet, Asked, Refused, Answered, Coming, AskedAgain
<1>3. CASE Answered
  <2>1. PICK b \in BOOLEAN : down = <<Ack, Packet(last, b)>>
    BY <1>3 DEF Answered
  <2> DEFINE p == Packet(last, b)
  <2>2. Head(down) = Ack /\ Tail(down) = <<p>> /\ Ack.kind # "$"
    BY <2>1, Line, Kinds, ZenonT(60)
  <2>3. down' = <<p>> /\ pc' = "reply" /\ up' = up /\ served' = served /\ last' = last
    BY <2>2 DEF Acked
  <2> QED  BY <1>3, <2>3 DEF Answered, Coming
<1>4. CASE Refused
  <2> DEFINE r == Request(call, k)
             p == Packet(r, TRUE)
  <2>1. Head(down) = Nack /\ Tail(down) = <<>> /\ Nack.kind # "$" /\ Nack # Ack
    BY <1>4, Line, Kinds DEF Refused
  <2>2. down' = <<>> /\ pc' = pc /\ up' = Append(up, p) /\ served' = served
    <3>1. send_packet(Request(call, k)) = p
      BY Kinds
    <3> HIDE DEF p
    <3> QED  BY <2>1, <3>1 DEF Acked
  <2>3. up' = <<p>>
    BY <1>4, <2>2, Line DEF Refused
  <2>4. Request(call, k)' = r
    <3>1. call' = call /\ k' = k /\ qemu_r' = qemu_r
      BY DEF Acked
    <3> QED  BY <3>1 DEF Request, Merged
  <2> HIDE DEF r
  <2>5. \E b \in BOOLEAN : LET q == Packet(r, b) IN up' = <<q>> \/ up' = <<Ack, q>>
    BY <2>3
  <2> QED  BY <1>1, <1>4, <2>2, <2>4, <2>5 DEF Refused, Asked
<1> QED  BY <1>2, <1>3, <1>4

\* A packet whose checksum fits is the stub's answer to this request.
LEMMA ReceiveStep ==
  ASSUME Exchange, Receive
  PROVE  /\ Coming
         /\ \/ Take(last) /\ Quiet'
            \/ UNCHANGED <<pc, k, ok, qemu_r>> /\ AskedAgain'
<1>1. pc = "reply" /\ down # <<>>
  BY DEF Receive
<1>2. Coming
  BY <1>1 DEF Exchange, Quiet, Asked, Refused, Answered, Coming, AskedAgain
<1>3. PICK b \in BOOLEAN : down = <<Packet(last, b)>>
  BY <1>2 DEF Coming
<1> DEFINE p == Packet(last, b)
<1>4. Head(down) = p /\ Tail(down) = <<>> /\ p.kind = "$" /\ p.content = last /\ p.sum_ok = b
  <2>1. p.kind = "$" /\ p.content = last /\ p.sum_ok = b
    BY DEF Packet
  <2>2. down = <<p>>
    BY <1>3
  <2> HIDE DEF p
  <2> QED  BY <2>1, <2>2, Line
<1>5. down' = <<>> /\ served' = served /\ up' = Append(up, Verdict(p))
  BY <1>4 DEF Receive
<1>6. CASE b = TRUE
  <2>1. Take(last) /\ up' = Append(<<>>, Ack)
    BY <1>2, <1>4, <1>5, <1>6 DEF Receive, Taken, Verdict, Coming
  <2>2. pc' = "next" /\ up' = <<Ack>>
    BY <2>1, Line DEF Take
  <2> QED  BY <1>2, <1>5, <2>1, <2>2 DEF Quiet
<1>7. CASE b = FALSE
  <2>1. UNCHANGED <<pc, k, ok, qemu_r>> /\ up' = Append(<<>>, Nack)
    BY <1>2, <1>4, <1>5, <1>7 DEF Receive, Taken, Verdict, Coming
  <2>2. up' = <<Nack>>
    BY <2>1, Line
  <2> QED  BY <1>2, <1>5, <2>1, <2>2 DEF Coming, AskedAgain
<1> QED  BY <1>6, <1>7

LEMMA ReturnStep ==
  ASSUME Exchange, Return
  PROVE  Quiet /\ Quiet'
<1>1. Quiet
  BY DEF Return, Exchange, Quiet, Asked, Refused, Answered, Coming, AskedAgain
<1> QED  BY <1>1 DEF Quiet, Return

LEMMA CallStep ==
  ASSUME Exchange, Call
  PROVE  Quiet /\ Quiet'
<1>1. Quiet
  BY DEF Call, Exchange, Quiet, Asked, Refused, Answered, Coming, AskedAgain
<1> QED  BY <1>1 DEF Quiet, Call

\* The stub carries a request out only once, however often its packets are sent.
StubIdle == UNCHANGED <<last, machine, served>>
StubServes ==
  /\ served = FALSE /\ served' = TRUE
  /\ \E c \in Carried(Request(call, k)) : machine' = c[1] /\ last' = c[2]
LEMMA StubStep ==
  ASSUME Exchange, Stub
  PROVE  /\ UNCHANGED <<pc, call, k, ok, qemu_r, value>>
         /\ \/ StubIdle /\ ((Quiet /\ Quiet') \/ (Asked /\ (Asked' \/ Refused')) \/ (AskedAgain /\ Coming'))
            \/ StubServes /\ Asked /\ Answered'
<1>1. up # <<>> /\ up' = Tail(up) /\ UNCHANGED <<pc, call, k, ok, qemu_r, value>>
  BY DEF Stub
<1>2. Quiet \/ Asked \/ AskedAgain
  BY <1>1 DEF Exchange, Quiet, Asked, Refused, Answered, Coming, AskedAgain
<1> DEFINE r == Request(call, k)
<1>3. Request(call, k)' = r
  BY <1>1 DEF Request, Merged
<1> DEFINE Serves(p) == \E c \in Carried(p.content) :
                          /\ machine' = c[1] /\ last' = c[2]
                          /\ down' = down \o <<Ack, send_packet(c[2])>>
<1>4. LET p == Head(up)
      IN \/ p = Ack /\ UNCHANGED <<down, last, machine, served>>
         \/ p = Nack /\ down' = Append(down, send_packet(last)) /\ UNCHANGED <<last, machine, served>>
         \/ /\ p.kind = "$" /\ ~p.sum_ok
            /\ down' = Append(down, Nack) /\ UNCHANGED <<last, machine, served>>
         \/ p.kind = "$" /\ p.sum_ok /\ Serves(p) /\ served' = TRUE
  BY DEF Stub
<1> HIDE DEF r, Serves
<1>5. CASE Quiet
  <2>1. Head(up) = Ack /\ Tail(up) = <<>>
    BY <1>1, <1>5, Line DEF Quiet
  <2>2. UNCHANGED <<down, last, machine, served>>
    BY <1>4, <2>1, Kinds
  <2> QED  BY <1>1, <1>5, <2>1, <2>2 DEF Quiet, StubIdle
<1>6. CASE AskedAgain
  <2>1. Head(up) = Nack /\ Tail(up) = <<>>
    BY <1>6, Line DEF AskedAgain
  <2>2. down' = Append(down, send_packet(last)) /\ UNCHANGED <<last, machine, served>>
    BY <1>4, <2>1, Kinds
  <2> DEFINE p == Packet(last, TRUE)
  <2>3. send_packet(last) = p
    BY Kinds
  <2>4. down' = <<p>>
    BY <1>6, <2>2, <2>3, Line DEF AskedAgain
  <2>5. \E b \in BOOLEAN : down' = <<Packet(last, b)>>
    BY <2>4
  <2> QED  BY <1>1, <1>6, <2>1, <2>2, <2>5 DEF AskedAgain, Coming, StubIdle
<1>7. CASE Asked
  <2>1. PICK b \in BOOLEAN : up = <<Packet(r, b)>> \/ up = <<Ack, Packet(r, b)>>
    BY <1>7 DEF Asked, r
  <2> DEFINE p == Packet(r, b)
  <2>2. p.kind = "$" /\ p.content = r /\ p.sum_ok = b /\ p # Ack /\ p # Nack
    BY DEF Packet, Ack, Nack
  <2>3. pc = "ack" /\ served = FALSE /\ down = <<>>
    BY <1>7 DEF Asked
  <2>4. CASE up = <<Ack, p>>
    <3> HIDE DEF p
    <3>1. Head(up) = Ack /\ Tail(up) = <<p>>
      BY <2>4, Line
    <3>2. UNCHANGED <<down, last, machine, served>>
      BY <1>4, <3>1, Kinds
    <3>3. \E c \in BOOLEAN : LET q == Packet(r, c) IN up' = <<q>> \/ up' = <<Ack, q>>
      BY <1>1, <3>1 DEF p
    <3> QED  BY <1>1, <1>3, <1>7, <2>3, <3>2, <3>3 DEF Asked, StubIdle
  <2>5. CASE up = <<p>> /\ b = FALSE
    <3> HIDE DEF p
    <3>1. Head(up) = p /\ Tail(up) = <<>>
      BY <2>5, Line
    <3>2. down' = <<Nack>> /\ UNCHANGED <<last, machine, served>>
      BY <1>4, <2>2, <2>3, <2>5, <3>1, Line
    <3> QED  BY <1>1, <1>7, <2>3, <3>1, <3>2 DEF Refused, StubIdle
  <2>6. CASE up = <<p>> /\ b = TRUE
    <3> HIDE DEF p
    <3>1. Head(up) = p /\ Tail(up) = <<>>
      BY <2>6, Line
    <3>2. Serves(p) /\ served' = TRUE
      BY <1>4, <2>2, <2>6, <3>1
    <3>3. PICK c \in Carried(r) : /\ machine' = c[1] /\ last' = c[2]
                                 /\ down' = down \o <<Ack, send_packet(c[2])>>
      BY <2>2, <3>2 DEF Serves
    <3> DEFINE q == Packet(last', TRUE)
    <3>4. send_packet(c[2]) = q
      BY <3>3, Kinds
    <3>5. down' = <<Ack, q>>
      BY <2>3, <3>3, <3>4, Line
    <3>6. \E d \in BOOLEAN : down' = <<Ack, Packet(last', d)>>
      BY <3>5
    <3>7. Answered'
      BY <1>1, <2>3, <3>1, <3>2, <3>6 DEF Answered
    <3>8. StubServes
      BY <2>3, <3>2, <3>3 DEF StubServes, r
    <3> QED  BY <1>1, <1>7, <3>7, <3>8
  <2> QED  BY <2>1, <2>4, <2>5, <2>6
<1> QED  BY <1>2, <1>5, <1>6, <1>7

LEMMA HurtPacket ==
  ASSUME NEW c, NEW b \in BOOLEAN
  PROVE  [Packet(c, b) EXCEPT !.sum_ok = FALSE] = Packet(c, FALSE)
<1> DEFINE p == Packet(c, b)
           q == [p EXCEPT !.sum_ok = FALSE]
<1>1. p \in [kind : {"$"}, content : {c}, sum_ok : BOOLEAN]
  BY DEF Packet
<1> HIDE DEF p
<1>2. q \in [kind : {"$"}, content : {c}, sum_ok : BOOLEAN]
  BY <1>1
<1>3. q.kind = "$" /\ q.content = c /\ q.sum_ok = FALSE
  BY <1>1
<1> HIDE DEF q
<1>4. q = [kind |-> "$", content |-> c, sum_ok |-> FALSE]
  BY <1>2, <1>3
<1> QED  BY <1>4 DEF p, q, Packet

LEMMA HurtLine ==
  ASSUME NEW c, NEW b \in BOOLEAN, NEW line, NEW i, Hurt(line, i)
  PROVE  /\ line # <<>> /\ line # <<Ack>> /\ line # <<Nack>>
         /\ line = <<Packet(c, b)>> => [line EXCEPT ![i].sum_ok = FALSE] = <<Packet(c, FALSE)>>
         /\ line = <<Ack, Packet(c, b)>> =>
              [line EXCEPT ![i].sum_ok = FALSE] = <<Ack, Packet(c, FALSE)>>
<1> DEFINE p == Packet(c, b)
           q == Packet(c, FALSE)
<1>1. [p EXCEPT !.sum_ok = FALSE] = q
  BY HurtPacket
<1>2. Ack.kind # "$" /\ Nack.kind # "$"
  BY Kinds
<1>3. line # <<>>
  BY DEF Hurt
<1>4. line # <<Ack>> /\ line # <<Nack>>
  BY <1>2 DEF Hurt
<1> HIDE DEF p, q
<1>5. CASE line = <<p>>
  <2>1. i = 1
    BY <1>5 DEF Hurt
  <2>2. [line EXCEPT ![i].sum_ok = FALSE] = [line EXCEPT ![1] = q]
    BY <1>1, <1>5, <2>1
  <2>3. [line EXCEPT ![i].sum_ok = FALSE] = <<q>>
    BY <1>5, <2>2
  <2> QED  BY <1>2, <1>3, <1>4, <1>5, <2>3 DEF p, q
<1>6. CASE line = <<Ack, p>>
  <2>1. i = 2
    BY <1>2, <1>6 DEF Hurt
  <2>2. [line EXCEPT ![i].sum_ok = FALSE] = [line EXCEPT ![2] = q]
    BY <1>1, <1>6, <2>1
  <2>3. [line EXCEPT ![i].sum_ok = FALSE] = <<Ack, q>>
    BY <1>6, <2>2
  <2> QED  BY <1>2, <1>3, <1>4, <1>6, <2>3 DEF p, q
<1> QED  BY <1>3, <1>4, <1>5, <1>6 DEF p, q

\* Damage shows in the checksum, so that it costs a repetition and nothing else.
LEMMA DamageStep ==
  ASSUME Exchange, Damage
  PROVE  /\ UNCHANGED <<pc, call, k, ok, qemu_r, last, machine, served, value>>
         /\ \/ Asked /\ Asked'
            \/ Answered /\ Answered'
            \/ Coming /\ Coming'
<1>1. UNCHANGED <<pc, call, k, ok, qemu_r, last, machine, served, value>>
  BY DEF Damage
<1> DEFINE r == Request(call, k)
<1>2. Request(call, k)' = r
  BY <1>1 DEF Request, Merged
<1> HIDE DEF r
<1>3. CASE \E i \in DOMAIN up : Hurt(up, i) /\ up' = [up EXCEPT ![i].sum_ok = FALSE] /\ UNCHANGED down
  <2>1. PICK i \in DOMAIN up : Hurt(up, i) /\ up' = [up EXCEPT ![i].sum_ok = FALSE] /\ UNCHANGED down
    BY <1>3
  <2>2. Asked
    BY <2>1, HurtLine DEF Exchange, Quiet, Asked, Refused, Answered, Coming, AskedAgain
  <2>3. PICK b \in BOOLEAN : up = <<Packet(r, b)>> \/ up = <<Ack, Packet(r, b)>>
    BY <2>2 DEF Asked, r
  <2>4. CASE up = <<Packet(r, b)>>
    <3>1. up' = <<Packet(r, FALSE)>>
      BY <2>1, <2>4, HurtLine, ZenonT(60)
    <3> QED  BY <1>1, <1>2, <2>1, <2>2, <3>1 DEF Asked
  <2>5. CASE up = <<Ack, Packet(r, b)>>
    <3>1. up' = <<Ack, Packet(r, FALSE)>>
      BY <2>1, <2>5, HurtLine, ZenonT(60)
    <3> QED  BY <1>1, <1>2, <2>1, <2>2, <3>1 DEF Asked
  <2> QED  BY <2>3, <2>4, <2>5
<1>4. CASE \E i \in DOMAIN down : Hurt(down, i) /\ down' = [down EXCEPT ![i].sum_ok = FALSE] /\ UNCHANGED up
  <2>1. PICK i \in DOMAIN down : Hurt(down, i) /\ down' = [down EXCEPT ![i].sum_ok = FALSE] /\ UNCHANGED up
    BY <1>4
  <2>2. Answered \/ Coming
    BY <2>1, HurtLine DEF Exchange, Quiet, Asked, Refused, Answered, Coming, AskedAgain
  <2>3. CASE Answered
    <3>1. PICK b \in BOOLEAN : down = <<Ack, Packet(last, b)>>
      BY <2>3 DEF Answered
    <3>3. down' = <<Ack, Packet(last, FALSE)>>
      BY <2>1, <3>1, HurtLine, ZenonT(60)
    <3> QED  BY <1>1, <2>1, <2>3, <3>3 DEF Answered
  <2>4. CASE Coming
    <3>1. PICK b \in BOOLEAN : down = <<Packet(last, b)>>
      BY <2>4 DEF Coming
    <3>3. down' = <<Packet(last, FALSE)>>
      BY <2>1, <3>1, HurtLine, ZenonT(60)
    <3> QED  BY <1>1, <2>1, <2>4, <3>3 DEF Coming
  <2> QED  BY <2>2, <2>3, <2>4
<1> QED  BY <1>3, <1>4 DEF Damage

LEMMA IdleStep ==
  ASSUME Exchange, UNCHANGED vars
  PROVE  Exchange'
<1>1. Request(call, k)' = Request(call, k)
  BY DEF vars, Request, Merged
<1> QED  BY <1>1 DEF vars, Exchange, Quiet, Asked, Refused, Answered, Coming, AskedAgain

LEMMA ExchangeStep == Exchange /\ [Next]_vars => Exchange'
<1> SUFFICES ASSUME Exchange, [Next]_vars PROVE Exchange'
  OBVIOUS
<1> USE DEF Exchange
<1>1. CASE Call
  BY <1>1, CallStep
<1>2. CASE Send
  BY <1>2, SendStep
<1>3. CASE Acked
  BY <1>3, AckedStep
<1>4. CASE Receive
  BY <1>4, ReceiveStep
<1>5. CASE Return
  BY <1>5, ReturnStep
<1>6. CASE Stub
  BY <1>6, StubStep
<1>7. CASE Damage
  BY <1>7, DamageStep
<1>8. CASE UNCHANGED vars
  BY <1>8, IdleStep
<1> QED  BY <1>1, <1>2, <1>3, <1>4, <1>5, <1>6, <1>7, <1>8 DEF Next, Client

LEMMA ExchangeInit == Init => Exchange
  BY DEF Init, Exchange, Quiet

LEMMA ExchangeCorrect == Spec => []Exchange
  BY ExchangeInit, ExchangeStep, PTL DEF Spec

\* However many packets are damaged and whatever NEMU asks, client and stub stay in
\* step: no call reads the answer of another.
THEOREM StaysInStep == Spec => []InStep
<1>1. Exchange => InStep
  <2> SUFFICES ASSUME Exchange PROVE InStep
    OBVIOUS
  <2> USE DEF InStep
  <2>1. CASE Quiet \/ Asked \/ AskedAgain
    BY <2>1 DEF Quiet, Asked, AskedAgain
  <2>2. CASE Refused
    BY <2>2, Line DEF Refused
  <2>3. CASE Answered
    BY <2>3, Line DEF Answered
  <2>4. CASE Coming
    <3>1. PICK b \in BOOLEAN : down = <<Packet(last, b)>>
      BY <2>4 DEF Coming
    <3> DEFINE p == Packet(last, b)
    <3>2. p.kind = "$"
      BY DEF Packet
    <3> HIDE DEF p
    <3>3. Head(down) = p
      BY <3>1, Line DEF p
    <3> QED  BY <2>4, <3>2, <3>3 DEF Coming
  <2> QED  BY <2>1, <2>2, <2>3, <2>4 DEF Exchange
<1> QED  BY <1>1, ExchangeCorrect, PTL

-----------------------------------------------------------------------------
(* Digits, bytes and registers                                             *)

LEMMA HexPair ==
  ASSUME NEW b \in Byte
  PROVE  /\ hex_encode(b \div 16) \in HexDigits /\ hex_encode(b % 16) \in HexDigits
         /\ gdb_decode_hex(hex_encode(b \div 16), hex_encode(b % 16)) = b
<1>1. PICK h \in 0 .. 15, l \in 0 .. 15 : b = 16 * h + l /\ b \div 16 = h /\ b % 16 = l
  BY DEF Byte
<1>2. /\ hex_encode(h) \in HexDigits /\ hex_nibble(hex_encode(h)) = h
      /\ hex_encode(l) \in HexDigits /\ hex_nibble(hex_encode(l)) = l
  BY DEF hex_encode, hex_nibble, HexDigits, DecimalDigits, UpperDigits, LowerDigits
<1>3. gdb_decode_hex(hex_encode(h), hex_encode(l)) = 16 * h + l
  BY <1>2 DEF gdb_decode_hex
<1> QED  BY <1>1, <1>2, <1>3

\* The two digits of a byte, by their place.
LEMMA HexPlaces ==
  ASSUME NEW s \in Seq(Byte)
  PROVE  /\ Len(HexBytes(s)) = 2 * Len(s)
         /\ \A i \in 1 .. Len(s) : gdb_decode_hex(HexBytes(s)[2 * i - 1], HexBytes(s)[2 * i]) = s[i]
<1> DEFINE n == Len(s)
           h == [i \in 1 .. 2 * n |->
                   LET b == s[(i + 1) \div 2] IN hex_encode(IF i % 2 = 1 THEN b \div 16 ELSE b % 16)]
<1>1. HexBytes(s) = h /\ n \in Nat
  BY DEF HexBytes
<1>2. Len(h) = 2 * n
  BY <1>1
<1>3. ASSUME NEW i \in 1 .. n PROVE gdb_decode_hex(h[2 * i - 1], h[2 * i]) = s[i]
  <2>1. 2 * i - 1 \in 1 .. 2 * n /\ 2 * i \in 1 .. 2 * n
    BY <1>1
  <2>2. /\ (2 * i - 1 + 1) \div 2 = i /\ (2 * i + 1) \div 2 = i
        /\ (2 * i - 1) % 2 = 1 /\ (2 * i) % 2 = 0
    BY <1>1
  <2>3. h[2 * i - 1] = hex_encode(s[i] \div 16) /\ h[2 * i] = hex_encode(s[i] % 16)
    BY <2>1, <2>2
  <2>4. s[i] \in Byte
    BY <1>1
  <2> HIDE DEF h
  <2> QED  BY <2>3, <2>4, HexPair
<1> HIDE DEF h
<1> QED  BY <1>1, <1>2, <1>3

\* What a packet of bytes stands for is the bytes.
LEMMA BytesOfHex ==
  ASSUME NEW s \in Seq(Byte)
  PROVE  Bytes(HexBytes(s)) = s
<1> DEFINE h == HexBytes(s)
<1>1. Len(h) = 2 * Len(s) /\ Len(s) \in Nat
  BY HexPlaces
<1>2. Len(h) \div 2 = Len(s)
  BY <1>1
<1>3. \A i \in 1 .. Len(s) : gdb_decode_hex(h[2 * i - 1], h[2 * i]) = s[i]
  BY HexPlaces
<1> HIDE DEF h
<1>4. Bytes(h) = [i \in 1 .. Len(s) |-> s[i]]
  BY <1>2, <1>3 DEF Bytes
<1> QED  BY <1>4 DEF h

-----------------------------------------------------------------------------
(* Weights: the definition by recursion has a solution                     *)

LEMMA WeightDef ==
  Weight = [n \in 0 .. RegBytes |-> IF n = 0 THEN 1 ELSE 256 * Weight[n - 1]]
<1> DEFINE step == [n \in 1 .. RegBytes |-> [v \in Int |-> 256 * v]]
<1>1. RegBytes \in Nat /\ step \in [1 .. RegBytes -> [Int -> Int]] /\ 1 \in Int
  BY RegAssumption
<1>2. \A n \in 1 .. RegBytes : \A v \in Int : step[n][v] = 256 * v
  OBVIOUS
<1> HIDE DEF step
<1>3. PICK f : Solves(f, RegBytes, Int, 1, step)
  BY <1>1, Recursion DEF Recurs
<1>4. f = [n \in 0 .. RegBytes |-> IF n = 0 THEN 1 ELSE 256 * f[n - 1]]
  <2>1. \A n \in 0 .. RegBytes : n # 0 => n \in 1 .. RegBytes /\ n - 1 \in 0 .. RegBytes
    BY <1>1
  <2>2. ASSUME NEW n \in 1 .. RegBytes PROVE f[n] = 256 * f[n - 1]
    <3>1. f[n] = step[n][f[n - 1]]
      BY <1>3 DEF Solves
    <3>2. n - 1 \in 0 .. RegBytes
      BY <1>1
    <3>3. f[n - 1] \in Int
      BY <1>3, <3>2 DEF Solves
    <3> QED  BY <1>2, <3>1, <3>3
  <2>4. f[0] = 1
    BY <1>3 DEF Solves
  <2>3. f = [n \in 0 .. RegBytes |-> f[n]]
    BY <1>3 DEF Solves
  <2> QED  BY <2>1, <2>2, <2>3, <2>4
<1>5. Weight = CHOOSE f2 : f2 = [n \in 0 .. RegBytes |-> IF n = 0 THEN 1 ELSE 256 * f2[n - 1]]
  BY DEF Weight
<1> QED  BY <1>4, <1>5, ZenonT(60)

LEMMA Weights ==
  /\ Weight[0] = 1
  /\ \A n \in 1 .. RegBytes : Weight[n] = 256 * Weight[n - 1]
  /\ \A n \in 0 .. RegBytes : Weight[n] \in Nat \ {0}
<1>0. RegBytes \in Nat
  BY RegAssumption
<1>1. Weight[0] = 1 /\ \A n \in 1 .. RegBytes : Weight[n] = 256 * Weight[n - 1]
  BY <1>0, WeightDef
<1> DEFINE U == {n \in 0 .. RegBytes : Weight[n] \notin Nat \ {0}}
<1>2. ASSUME NEW u \in U PROVE u - 1 \in U
  <2>1. u # 0 /\ u \in 1 .. RegBytes /\ u - 1 \in 0 .. RegBytes
    BY <1>0, <1>1
  <2>2. Weight[u] = 256 * Weight[u - 1]
    BY <1>1, <2>1
  <2> DEFINE w == Weight[u - 1]
  <2>3. w \in Nat \ {0} => 256 * w \in Nat \ {0}
    OBVIOUS
  <2> QED  BY <2>1, <2>2, <2>3
<1>3. U = {}
  <2>1. U \in SUBSET Nat
    BY <1>0
  <2> HIDE DEF U
  <2> QED  BY <1>2, <2>1, NoDescent
<1> QED  BY <1>1, <1>3

-----------------------------------------------------------------------------
(* Registers as bytes and back                                             *)

Regs == [1 .. NrReg -> Value]

\* The place of byte n of register i in the row of all bytes.
LEMMA Place ==
  ASSUME NEW i \in 1 .. NrReg, NEW n \in 1 .. RegBytes
  PROVE  LET at == RegBytes * (i - 1) + n
         IN /\ at \in 1 .. RegBytes * NrReg
            /\ (at + RegBytes - 1) \div RegBytes = i
            /\ (at - 1) % RegBytes = n - 1
<1>0. RegBytes \in Nat \ {0} /\ NrReg \in Nat \ {0} /\ i \in Nat /\ n \in Nat
  BY RegAssumption
<1> DEFINE at == RegBytes * (i - 1) + n
<1>1. PICK p \in Int : p = RegBytes * (i - 1)
  BY <1>0
<1>2. p = (i - 1) * RegBytes /\ p + RegBytes = i * RegBytes
  BY <1>0, <1>1
<1>3. at = p + n
  BY <1>1
<1>4. (at + RegBytes - 1) \div RegBytes = i
  <2>1. PICK v \in Int : v = at + RegBytes - 1
    BY <1>0, <1>3
  <2>2. v = i * RegBytes + (n - 1) /\ n - 1 \in 0 .. RegBytes - 1
    BY <1>0, <1>2, <1>3, <2>1
  <2>3. v \div RegBytes = i
    BY <1>0, <2>2, Division
  <2> QED  BY <2>1, <2>3
<1>5. (at - 1) % RegBytes = n - 1
  <2>1. at - 1 = (i - 1) * RegBytes + (n - 1)
    BY <1>0, <1>2, <1>3
  <2>2. n - 1 \in 0 .. RegBytes - 1 /\ at - 1 \in Int /\ i - 1 \in Int
    BY <1>0, <1>3
  <2> HIDE DEF at
  <2> QED  BY <1>0, <2>1, <2>2, Division
<1>6. at \in 1 .. RegBytes * NrReg
  <2>1. PICK q \in Int : q = RegBytes * NrReg
    BY <1>0
  <2>2. PICK d \in Nat : NrReg = i + d
    <3>1. NrReg - i \in Nat /\ NrReg = i + (NrReg - i)
      BY <1>0
    <3> QED  BY <3>1
  <2>3. RegBytes * NrReg = RegBytes * i + RegBytes * d /\ RegBytes * d \in Nat
    BY <1>0, <2>2
  <2>4. RegBytes * i = p + RegBytes /\ p \in Nat
    BY <1>0, <1>1
  <2>5. q >= p + RegBytes
    BY <2>1, <2>3, <2>4, <1>0
  <2> QED  BY <1>0, <1>3, <2>1, <2>4, <2>5
<1> QED  BY <1>4, <1>5, <1>6

LEMMA BytesOfType ==
  ASSUME NEW regs \in Regs
  PROVE  BytesOf(regs) \in Seq(Byte) /\ Len(BytesOf(regs)) = RegBytes * NrReg
<1>0. RegBytes \in Nat \ {0} /\ NrReg \in Nat \ {0} /\ Len(regs) = NrReg
  BY RegAssumption DEF Regs
<1>1. PICK q \in Nat : q = RegBytes * NrReg
  BY <1>0
<1>2. BytesOf(regs) = [i \in 1 .. q |->
        (regs[(i + RegBytes - 1) \div RegBytes] \div Weight[(i - 1) % RegBytes]) % 256]
  BY <1>0, <1>1 DEF BytesOf
<1>3. ASSUME NEW i \in 1 .. q
      PROVE  (regs[(i + RegBytes - 1) \div RegBytes] \div Weight[(i - 1) % RegBytes]) % 256 \in Byte
  <2>1. PICK m \in 0 .. RegBytes - 1 : (i - 1) % RegBytes = m
    BY <1>0
  <2>2. Weight[m] \in Nat \ {0}
    BY <1>0, <2>1, Weights
  <2>3. PICK j \in Int : (i + RegBytes - 1) \div RegBytes = j
    BY <1>0
  <2>4. j \in 1 .. NrReg
    <3>1. PICK r \in 0 .. RegBytes - 1 : i + RegBytes - 1 = RegBytes * j + r
      BY <1>0, <2>3
    <3>2. j >= 1
      <4> SUFFICES ASSUME j <= 0 PROVE FALSE
        BY <2>3
      <4>1. RegBytes * j <= 0
        BY <1>0, <2>3
      <4>2. PICK a \in Int : a = RegBytes * j
        BY <1>0, <2>3
      <4> QED  BY <1>0, <3>1, <4>1, <4>2
    <3>3. j <= NrReg
      <4> SUFFICES ASSUME j >= NrReg + 1 PROVE FALSE
        BY <1>0, <2>3
      <4>1. PICK d \in Nat : j = NrReg + 1 + d
        <5>1. j - (NrReg + 1) \in Nat /\ j = NrReg + 1 + (j - (NrReg + 1))
          BY <1>0, <2>3
        <5> QED  BY <5>1
      <4>2. RegBytes * j = RegBytes * NrReg + RegBytes + RegBytes * d /\ RegBytes * d \in Nat
        BY <1>0, <4>1
      <4>3. PICK a \in Int, e \in Nat : a = RegBytes * j /\ e = RegBytes * d
        BY <1>0, <2>3, <4>2
      <4>4. a = q + RegBytes + e /\ i + RegBytes - 1 = a + r
        BY <1>1, <3>1, <4>2, <4>3
      <4> QED  BY <1>0, <1>1, <4>3, <4>4
    <3> QED  BY <1>0, <2>3, <3>2, <3>3
  <2>5. regs[j] \in Nat
    BY <2>4, Weights, RegAssumption, SMTT(60) DEF Regs, Value
  <2>6. PICK d \in Int : regs[j] \div Weight[m] = d
    BY <2>2, <2>5
  <2> QED  BY <2>1, <2>3, <2>6 DEF Byte
<1>4. BytesOf(regs) \in [1 .. q -> Byte]
  BY <1>2, <1>3
<1>5. BytesOf(regs) \in Seq(Byte) /\ Len(BytesOf(regs)) = q
  BY <1>4
<1> QED  BY <1>1, <1>5

\* Byte n of register i.
LEMMA ByteOfReg ==
  ASSUME NEW regs \in Regs, NEW i \in 1 .. NrReg, NEW n \in 1 .. RegBytes
  PROVE  BytesOf(regs)[RegBytes * (i - 1) + n] = (regs[i] \div Weight[n - 1]) % 256
<1>0. Len(regs) = NrReg
  BY RegAssumption DEF Regs
<1> DEFINE at == RegBytes * (i - 1) + n
<1>1. /\ at \in 1 .. RegBytes * NrReg
      /\ (at + RegBytes - 1) \div RegBytes = i
      /\ (at - 1) % RegBytes = n - 1
  BY Place
<1> HIDE DEF at
<1>2. BytesOf(regs)[at] = (regs[i] \div Weight[n - 1]) % 256
  BY <1>0, <1>1 DEF BytesOf
<1> QED  BY <1>2 DEF at

LEMMA ProductBound ==
  ASSUME NEW d \in Nat, NEW base \in Nat \ {0}, d <= base - 1, NEW w \in Nat \ {0}
  PROVE  d * w \in Nat /\ (base - 1) * w \in Nat /\ d * w <= (base - 1) * w
<1>1. PICK e \in Nat : base - 1 = d + e
  <2>1. base - 1 - d \in Nat /\ base - 1 = d + (base - 1 - d)
    OBVIOUS
  <2> QED  BY <2>1
<1>2. (d + e) * w = d * w + e * w /\ d * w \in Nat /\ e * w \in Nat
  OBVIOUS
<1>3. (base - 1) * w = d * w + e * w
  BY <1>1, <1>2, Zenon
<1>4. PICK t \in Nat, u \in Nat : t = d * w /\ u = e * w
  BY <1>2
<1>5. t + u \in Nat /\ t <= t + u
  OBVIOUS
<1> QED  BY <1>3, <1>4, <1>5, Zenon

\* One byte more of a number.
LEMMA NextByte ==
  ASSUME NEW x \in Nat, NEW w \in Nat \ {0}, NEW base \in Nat \ {0}
  PROVE  /\ x \div (base * w) = (x \div w) \div base
         /\ x % (base * w) = (x % w) + ((x \div w) % base) * w
<1>1. PICK q \in Int, r \in 0 .. w - 1 : q = x \div w /\ r = x % w /\ x = w * q + r
  OBVIOUS
<1>2. PICK a \in Int, d \in 0 .. base - 1 : a = q \div base /\ d = q % base /\ q = base * a + d
  <2>1. q \div base \in Int /\ q % base \in 0 .. base - 1 /\ q = base * (q \div base) + (q % base)
    OBVIOUS
  <2> QED  BY <2>1
<1>3. PICK m \in Nat \ {0} : m = base * w
  OBVIOUS
<1>4. PICK t \in Int : t = d * w
  BY <1>2
<1>5. t \in Nat /\ (base - 1) * w \in Nat /\ t <= (base - 1) * w
  <2>1. d \in Nat /\ d <= base - 1
    OBVIOUS
  <2> QED  BY <1>4, <2>1, ProductBound, Zenon
<1>6. x = a * m + (t + r) /\ t + r \in 0 .. m - 1
  <2>1. x = w * (base * a + d) + r
    BY <1>1, <1>2, Zenon
  <2>2. w * (base * a + d) = a * m + t
    <3>1. w * (base * a + d) = a * (base * w) + d * w
      BY <1>1, <1>2
    <3> QED  BY <1>3, <1>4, <3>1, Zenon
  <2>3. t + r \in 0 .. m - 1
    <3>1. PICK f \in Int : f = (base - 1) * w /\ m = f + w
      BY <1>3
    <3>2. t \in Nat /\ t <= f
      BY <1>5, <3>1, Zenon
    <3> QED  BY <1>1, <3>1, <3>2
  <2>4. a * m \in Int
    BY <1>2
  <2> QED  BY <1>1, <1>4, <2>1, <2>2, <2>3, <2>4
<1>7. x \div m = a /\ x % m = t + r
  <2>1. PICK u \in 0 .. m - 1 : u = t + r
    BY <1>6
  <2>2. x = a * m + u /\ x \in Int
    BY <1>6, <2>1
  <2>3. x \div m = a /\ x % m = u
    BY <1>2, <1>3, <2>2, Division
  <2> QED  BY <2>1, <2>3
<1>8. x \div m = (x \div w) \div base
  BY <1>1, <1>2, <1>7
<1>9. x % m = (x % w) + ((x \div w) % base) * w
  <2> DEFINE e == (x \div w) % base
             z == x % m
             y == x % w
  <2>1. e = d /\ y = r /\ z = t + r
    BY <1>1, <1>2, <1>7
  <2> HIDE DEF e, z, y
  <2>2. z = y + e * w
    BY <1>2, <1>4, <2>1
  <2> QED  BY <2>2 DEF e, z, y
<1> QED  BY <1>3, <1>8, <1>9

LEMMA NextWeight ==
  ASSUME NEW x \in Nat, NEW n \in 1 .. RegBytes, NEW w, w = Weight[n - 1]
  PROVE  /\ x \div Weight[n] = (x \div w) \div 256
         /\ x % Weight[n] = (x % w) + ((x \div w) % 256) * w
<1>1. PICK y \in Nat \ {0}, base \in Nat \ {0} : y = w /\ base = 256 /\ Weight[n] = base * y
  <2>1. PICK base \in Nat \ {0} : base = 256
    OBVIOUS
  <2>2. Weight[n - 1] \in Nat \ {0} /\ Weight[n] = base * Weight[n - 1]
    BY <2>1, RegAssumption, Weights
  <2> QED  BY <2>1, <2>2
<1>2. x \div (base * y) = (x \div y) \div base /\ x % (base * y) = (x % y) + ((x \div y) % base) * y
  BY NextByte, Zenon
<1> QED  BY <1>1, <1>2

LEMMA QuotientIsNat ==
  ASSUME NEW x \in Nat, NEW w \in Nat \ {0}
  PROVE  x \div w \in Nat
  OBVIOUS

LEMMA ValueRange ==
  ASSUME NEW x \in Value
  PROVE  RegBytes \in Nat \ {0} /\ x \in Nat /\ x < Weight[RegBytes]
<1>1. RegBytes \in Nat \ {0}
  BY RegAssumption
<1>2. PICK w \in Nat : w = Weight[RegBytes]
  BY <1>1, Weights
<1>3. x \in 0 .. w - 1
  BY <1>2 DEF Value
<1> QED  BY <1>1, <1>2, <1>3

\* gdb_decode_hex_str adds up the digits of a register to the register.
LEMMA DecodesRegister ==
  ASSUME NEW x \in Value, NEW str, Len(str) = 2 * RegBytes,
         \A n \in 1 .. RegBytes :
           gdb_decode_hex(str[2 * n - 1], str[2 * n]) = (x \div Weight[n - 1]) % 256
  PROVE  gdb_decode_hex_str(str) = x
<1>0. RegBytes \in Nat \ {0} /\ x \in Nat /\ x < Weight[RegBytes]
  BY ValueRange
<1> DEFINE pair == [n \in 1 .. Len(str) \div 2 |-> gdb_decode_hex(str[2 * n - 1], str[2 * n])]
           G(f) == [n \in Nat |-> IF n \notin DOMAIN pair \/ pair[n] = 65535 THEN 0
                                  ELSE pair[n] + 256 * f[n + 1]]
           w == [n \in Nat |-> IF n \in 1 .. RegBytes THEN x \div Weight[n - 1] ELSE 0]
           v == CHOOSE f : f = G(f)
<1>1. DOMAIN pair = 1 .. RegBytes
  BY <1>0
<1>2. \A n \in 1 .. RegBytes : /\ pair[n] = (x \div Weight[n - 1]) % 256
                               /\ pair[n] \in 0 .. 255
  <2> SUFFICES ASSUME NEW n \in 1 .. RegBytes
               PROVE  pair[n] = (x \div Weight[n - 1]) % 256 /\ pair[n] \in 0 .. 255
    OBVIOUS
  <2>1. pair[n] = (x \div Weight[n - 1]) % 256
    BY <1>1
  <2>2. Weight[n - 1] \in Nat \ {0}
    BY <1>0, Weights
  <2>3. PICK q \in Int : q = x \div Weight[n - 1]
    BY <1>0, <2>2
  <2>4. q % 256 \in 0 .. 255
    OBVIOUS
  <2> HIDE DEF pair
  <2> QED  BY <2>1, <2>3, <2>4
<1>15. \A n \in Nat : (n \notin DOMAIN pair \/ pair[n] = 65535) <=> n \notin 1 .. RegBytes
  <2> HIDE DEF pair
  <2>1. ASSUME NEW n \in 1 .. RegBytes PROVE pair[n] # 65535
    <3>1. PICK p \in 0 .. 255 : p = pair[n]
      BY <1>2
    <3>2. p # 65535
      OBVIOUS
    <3> QED  BY <3>1, <3>2
  <2> QED  BY <1>1, <2>1
<1>3. gdb_decode_hex_str(str) = v[1]
  BY DEF gdb_decode_hex_str
<1> HIDE DEF pair
<1>4. \A n \in Nat : w[n] = IF n \notin 1 .. RegBytes THEN 0 ELSE pair[n] + 256 * w[n + 1]
  <2> SUFFICES ASSUME NEW n \in 1 .. RegBytes PROVE x \div Weight[n - 1] = pair[n] + 256 * w[n + 1]
    BY <1>0
  <2>1. Weight[n - 1] \in Nat \ {0} /\ Weight[n] = 256 * Weight[n - 1]
    BY <1>0, Weights
  <2>2. PICK q \in Nat : q = x \div Weight[n - 1]
    BY <1>0, <2>1, QuotientIsNat
  <2>3. pair[n] = q % 256
    BY <1>2, <2>2
  <2>7. q = 256 * (q \div 256) + (q % 256)
    OBVIOUS
  <2>4. x \div Weight[n] = q \div 256
    <3> HIDE DEF w, v
    <3>1. x \in Nat
      BY <1>0
    <3>2. x \div Weight[n] = (x \div Weight[n - 1]) \div 256
      BY <3>1, NextWeight
    <3> QED  BY <2>2, <3>2, Zenon
  <2>5. CASE n # RegBytes
    <3>1. w[n + 1] = x \div Weight[n]
      <4>1. n + 1 \in 1 .. RegBytes /\ n + 1 - 1 = n
        BY <1>0, <2>5
      <4> QED  BY <4>1
    <3> HIDE DEF w
    <3>2. pair[n] + 256 * w[n + 1] = (q % 256) + 256 * (q \div 256)
      BY <2>3, <2>4, <3>1
    <3> QED  BY <2>2, <2>7, <3>2
  <2>6. CASE n = RegBytes
    <3>1. w[n + 1] = 0
      BY <1>0, <2>6
    <3>2. x \div Weight[n] = 0
      <4>1. x = 0 * Weight[n] + x /\ x \in 0 .. Weight[n] - 1 /\ Weight[n] \in Nat \ {0}
        BY <1>0, <2>6, Weights
      <4> QED  BY <4>1, Division
    <3> HIDE DEF w
    <3>3. pair[n] + 256 * w[n + 1] = (q % 256) + 256 * 0
      BY <2>3, <3>1
    <3>4. q \div 256 = 0
      BY <2>4, <3>2
    <3> QED  BY <2>2, <2>7, <3>3, <3>4
  <2> QED  BY <2>5, <2>6
<1>5. w = G(w)
  BY <1>15, <1>4
<1>6. v = G(v)
  BY <1>5
<1> HIDE DEF v
<1>7. \A n \in 1 .. RegBytes : v[n] = pair[n] + 256 * v[n + 1]
  <2>1. \A n \in 1 .. RegBytes : n \in Nat /\ ~(n \notin DOMAIN pair \/ pair[n] = 65535)
    BY <1>15
  <2> QED  BY <1>6, <2>1
<1>8. v[RegBytes + 1] = 0 /\ w[RegBytes + 1] = 0
  <2>1. RegBytes + 1 \notin 1 .. RegBytes /\ RegBytes + 1 \in Nat
    BY <1>0
  <2> QED  BY <1>1, <1>6, <2>1
<1> DEFINE U == {u \in 0 .. RegBytes : v[RegBytes + 1 - u] # w[RegBytes + 1 - u]}
<1> HIDE DEF w
<1>9. ASSUME NEW u \in U PROVE u - 1 \in U
  <2>1. u # 0
    BY <1>0, <1>8
  <2>2. PICK n \in 1 .. RegBytes : n = RegBytes + 1 - u
    BY <1>0, <2>1
  <2>3. v[n] # w[n] /\ n \in Nat
    BY <2>2
  <2>4. v[n + 1] # w[n + 1]
    BY <1>4, <1>7, <2>3
  <2>5. n + 1 = RegBytes + 1 - (u - 1) /\ u - 1 \in 0 .. RegBytes
    BY <1>0, <2>1, <2>2
  <2> QED  BY <2>4, <2>5
<1>10. U = {}
  <2>1. U \in SUBSET Nat
    BY <1>0
  <2> HIDE DEF U
  <2> QED  BY <1>9, <2>1, NoDescent
<1>11. v[1] = w[1]
  <2>1. RegBytes \in 0 .. RegBytes /\ RegBytes + 1 - RegBytes = 1
    BY <1>0
  <2> QED  BY <1>10, <2>1
<1>12. w[1] = x
  <2>1. x \div 1 = x
    BY <1>0
  <2> QED  BY <1>0, <2>1, Weights DEF w
<1> QED  BY <1>3, <1>11, <1>12

Summed(b, at, f) ==
  [n \in 0 .. RegBytes |-> IF n = 0 THEN 0 ELSE f[n - 1] + b[at + n] * Weight[n - 1]]

\* The stub adds up the same digits the other way round.
LEMMA AddsToRegister ==
  ASSUME NEW x \in Value, NEW b, NEW at,
         \A n \in 1 .. RegBytes : b[at + n] = (x \div Weight[n - 1]) % 256
  PROVE  /\ \E f : f = Summed(b, at, f)
         /\ \A f : f = Summed(b, at, f) => f[RegBytes] = x
<1>0. RegBytes \in Nat \ {0} /\ x \in Nat /\ x < Weight[RegBytes]
  BY ValueRange
<1> DEFINE G(f) == [n \in 0 .. RegBytes |-> IF n = 0 THEN 0 ELSE f[n - 1] + b[at + n] * Weight[n - 1]]
           w == [n \in 0 .. RegBytes |-> x % Weight[n]]
<1>2. w[0] = 0
  <2>1. x % 1 = 0
    BY <1>0
  <2> QED  BY <1>0, <2>1, Weights
<1>3. \A n \in 1 .. RegBytes : w[n] = w[n - 1] + b[at + n] * Weight[n - 1]
  <2> SUFFICES ASSUME NEW n \in 1 .. RegBytes
               PROVE  w[n] = w[n - 1] + b[at + n] * Weight[n - 1]
    OBVIOUS
  <2>1. n - 1 \in 0 .. RegBytes /\ n \in 0 .. RegBytes
    BY <1>0
  <2>2. w[n] = x % Weight[n] /\ w[n - 1] = x % Weight[n - 1]
    BY <2>1
  <2>3. b[at + n] = (x \div Weight[n - 1]) % 256
    OBVIOUS
  <2> HIDE DEF w
  <2>4. x \in Nat
    BY <1>0
  <2>5. x % Weight[n] = (x % Weight[n - 1]) + ((x \div Weight[n - 1]) % 256) * Weight[n - 1]
    BY <2>4, NextWeight
  <2> QED  BY <2>2, <2>3, <2>5, Zenon
<1>4. w = G(w)
  <2>1. \A n \in 0 .. RegBytes : n # 0 => n \in 1 .. RegBytes
    BY <1>0
  <2>2. \A n \in 0 .. RegBytes :
          x % Weight[n] = IF n = 0 THEN 0 ELSE w[n - 1] + b[at + n] * Weight[n - 1]
    <3>1. \A n \in 0 .. RegBytes : w[n] = x % Weight[n]
      OBVIOUS
    <3>2. 0 \in 0 .. RegBytes
      BY <1>0
    <3> HIDE DEF w
    <3> QED  BY <1>2, <1>3, <2>1, <3>1, <3>2
  <2> QED  BY <2>2
<1> HIDE DEF w
<1>5. SUFFICES ASSUME NEW v, v = G(v) PROVE v[RegBytes] = x
  BY <1>4 DEF Summed
<1>6. v[0] = 0 /\ \A n \in 1 .. RegBytes : v[n] = v[n - 1] + b[at + n] * Weight[n - 1]
  BY <1>0, <1>5
<1> DEFINE U == {u \in 0 .. RegBytes : v[u] # w[u]}
<1>7. ASSUME NEW u \in U PROVE u - 1 \in U
  <2>1. u \in 1 .. RegBytes
    BY <1>0, <1>2, <1>6
  <2>2. v[u - 1] # w[u - 1]
    BY <1>3, <1>6, <2>1
  <2> QED  BY <1>0, <2>1, <2>2
<1>8. U = {}
  <2>1. U \in SUBSET Nat
    BY <1>0
  <2> HIDE DEF U
  <2> QED  BY <1>7, <2>1, NoDescent
<1>9. v[RegBytes] = w[RegBytes]
  BY <1>0, <1>8
<1>10. w[RegBytes] = x
  <2>1. w[RegBytes] = x % Weight[RegBytes]
    BY <1>0 DEF w
  <2>2. PICK y \in Nat \ {0} : y = Weight[RegBytes]
    BY <1>0, Weights
  <2>3. x = 0 * y + x /\ x \in 0 .. y - 1
    BY <1>0, <2>2
  <2>4. x % y = x
    BY <2>2, <2>3, Division
  <2> QED  BY <2>1, <2>2, <2>4
<1> QED  BY <1>9, <1>10

\* The digits of a register in the row of all of them.
LEMMA DigitsOfReg ==
  ASSUME NEW regs \in Regs, NEW i \in 1 .. NrReg, NEW n \in 1 .. RegBytes
  PROVE  LET h == HexBytes(BytesOf(regs))
             j == RegBytes * (i - 1) + n
         IN /\ gdb_decode_hex(h[2 * j - 1], h[2 * j]) = (regs[i] \div Weight[n - 1]) % 256
            /\ j \in 1 .. RegBytes * NrReg
            /\ BytesOf(regs)[j] = (regs[i] \div Weight[n - 1]) % 256
<1> DEFINE b == BytesOf(regs)
           j == RegBytes * (i - 1) + n
<1>1. b \in Seq(Byte) /\ Len(b) = RegBytes * NrReg
  BY BytesOfType
<1>2. j \in 1 .. RegBytes * NrReg
  BY Place
<1>3. b[j] = (regs[i] \div Weight[n - 1]) % 256
  BY ByteOfReg
<1> HIDE DEF b, j
<1>4. gdb_decode_hex(HexBytes(b)[2 * j - 1], HexBytes(b)[2 * j]) = b[j]
  BY <1>1, <1>2, HexPlaces
<1> QED  BY <1>2, <1>3, <1>4 DEF b, j

\* What the stub makes of the registers of a packet is the registers,
LEMMA WordsOfHex ==
  ASSUME NEW regs \in Regs
  PROVE  Words(HexBytes(BytesOf(regs))) = regs
<1> DEFINE b == BytesOf(regs)
<1>1. Bytes(HexBytes(b)) = b
  BY BytesOfHex, BytesOfType
<1> DEFINE Sum(i) == (CHOOSE f : f = Summed(b, RegBytes * (i - 1), f))[RegBytes]
<1>2. ASSUME NEW i \in 1 .. NrReg PROVE Sum(i) = regs[i]
  <2>1. \A n \in 1 .. RegBytes : b[RegBytes * (i - 1) + n] = (regs[i] \div Weight[n - 1]) % 256
    BY ByteOfReg
  <2>2. regs[i] \in Value
    BY DEF Regs
  <2> HIDE DEF b
  <2>3. PICK at \in Int : at = RegBytes * (i - 1)
    BY RegAssumption
  <2>4. \A n \in 1 .. RegBytes : b[at + n] = (regs[i] \div Weight[n - 1]) % 256
    BY <2>1, <2>3
  <2>5. /\ \E f : f = Summed(b, at, f)
        /\ \A f : f = Summed(b, at, f) => f[RegBytes] = regs[i]
    BY <2>2, <2>4, AddsToRegister
  <2> QED  BY <2>3, <2>5
<1> HIDE DEF b
<1>3. Words(HexBytes(b)) = [i \in 1 .. NrReg |-> Sum(i)]
  BY <1>1 DEF Words, Summed
<1> HIDE DEF Sum
<1>4. [i \in 1 .. NrReg |-> Sum(i)] = [i \in 1 .. NrReg |-> regs[i]]
  BY <1>2
<1>5. [i \in 1 .. NrReg |-> regs[i]] = regs
  BY DEF Regs
<1> QED  BY <1>3, <1>4, <1>5 DEF b

\* and what gdb_getregs makes of the stub's answer is the registers too.
LEMMA DecodedOfHex ==
  ASSUME NEW regs \in Regs
  PROVE  Decoded(HexBytes(BytesOf(regs))) = regs
<1>0. RegBytes \in Nat \ {0} /\ NrReg \in Nat \ {0}
  BY RegAssumption
<1> DEFINE h == HexBytes(BytesOf(regs))
           Part(i) == SubSeq(h, 2 * RegBytes * (i - 1) + 1, 2 * RegBytes * i)
<1>1. ASSUME NEW i \in 1 .. NrReg PROVE gdb_decode_hex_str(Part(i)) = regs[i]
  <2>1. PICK p \in Int : p = RegBytes * (i - 1)
    BY <1>0
  <2>2. 2 * RegBytes * (i - 1) = 2 * p /\ 2 * RegBytes * i = 2 * p + 2 * RegBytes
    BY <1>0, <2>1
  <2>3. Part(i) = SubSeq(h, 2 * p + 1, 2 * p + 2 * RegBytes)
    BY <2>2
  <2> HIDE DEF h, Part
  <2>4. Part(i) = [j \in 1 .. 2 * RegBytes |-> h[2 * p + j]]
    BY <1>0, <2>3
  <2>5. Len(Part(i)) = 2 * RegBytes
    BY <1>0, <2>4
  <2>6. ASSUME NEW n \in 1 .. RegBytes
        PROVE  gdb_decode_hex(Part(i)[2 * n - 1], Part(i)[2 * n]) = (regs[i] \div Weight[n - 1]) % 256
    <3>1. Part(i)[2 * n - 1] = h[2 * p + (2 * n - 1)] /\ Part(i)[2 * n] = h[2 * p + 2 * n]
      BY <1>0, <2>4
    <3>2. PICK j \in Int : j = p + n
      OBVIOUS
    <3>3. 2 * j - 1 = 2 * p + (2 * n - 1) /\ 2 * j = 2 * p + 2 * n
      BY <3>2
    <3>4. gdb_decode_hex(h[2 * j - 1], h[2 * j]) = (regs[i] \div Weight[n - 1]) % 256
      BY <2>1, <3>2, DigitsOfReg DEF h
    <3> QED  BY <3>1, <3>3, <3>4
  <2>7. regs[i] \in Value
    BY DEF Regs
  <2> QED  BY <2>5, <2>6, <2>7, DecodesRegister
<1>2. Decoded(h) = [i \in 1 .. NrReg |-> gdb_decode_hex_str(Part(i))]
  BY DEF Decoded
<1> HIDE DEF h, Part
<1>3. Decoded(h) = [i \in 1 .. NrReg |-> regs[i]]
  BY <1>1, <1>2
<1>4. [i \in 1 .. NrReg |-> regs[i]] = regs
  BY DEF Regs
<1> QED  BY <1>3, <1>4 DEF h

-----------------------------------------------------------------------------
(* Calls and their requests                                                *)

InitCall == [op |-> "init"]
Going == Calls \cup {InitCall}

LEMMA ChunksType ==
  ASSUME NEW len \in Nat
  PROVE  /\ Chunks(len) \in Nat \ {0}
         /\ mtu * Chunks(len) \in Nat /\ mtu * Chunks(len) >= len
<1>0. mtu \in Nat \ {0}
  BY RegAssumption
<1>1. CASE len = 0
  BY <1>0, <1>1 DEF Chunks
<1>2. CASE len # 0
  <2>1. PICK v \in Nat : v = len + mtu - 1
    BY <1>0
  <2>2. PICK q \in Int, r \in 0 .. mtu - 1 : q = v \div mtu /\ v = mtu * q + r
    BY <1>0
  <2>3. q >= 1
    <3> SUFFICES ASSUME q <= 0 PROVE FALSE
      OBVIOUS
    <3>1. PICK p \in Int : p = mtu * q
      BY <1>0
    <3>2. p <= 0
      BY <1>0, <3>1
    <3> QED  BY <1>0, <1>2, <2>1, <2>2, <3>1, <3>2
  <2>4. Chunks(len) = q
    BY <1>2, <2>1, <2>2 DEF Chunks
  <2>5. PICK p \in Int : p = mtu * q
    BY <1>0
  <2>6. p >= len
    BY <1>0, <2>1, <2>2, <2>5
  <2> QED  BY <2>3, <2>4, <2>5, <2>6
<1> QED  BY <1>1, <1>2

\* What a call is and how many requests it makes.
LEMMA CallShapes ==
  ASSUME NEW c \in Going
  PROVE  \/ /\ c.op = "memcpy" /\ c.src \in Seq(Byte) /\ c.dest \in Nat
            /\ c.dest + Len(c.src) <= MemSize
            /\ Requests(c) = Chunks(Len(c.src))
         \/ c.op = "getregs" /\ Requests(c) = 1
         \/ c.op = "setregs" /\ c.regs \in [1 .. DutReg -> Value] /\ Requests(c) = 2
         \/ c.op = "exec" /\ c.n \in Nat /\ Requests(c) = c.n
         \/ c = InitCall /\ c.op = "init" /\ Requests(c) = Chunks(Len(Mbr)) + 2 + Warmup
<1>1. CASE c = InitCall
  BY <1>1 DEF InitCall, Requests
<1>2. CASE c \in Calls
  BY <1>2, DataAssumption DEF Requests
<1> QED  BY <1>1, <1>2 DEF Going

LEMMA RequestsType ==
  ASSUME NEW c \in Going
  PROVE  Requests(c) \in Nat /\ GetFirst(c) \in Nat
<1>1. Len(Mbr) \in Nat /\ Chunks(Len(Mbr)) \in Nat
  BY DataAssumption, ChunksType
<1>2. CASE c.op = "memcpy"
  <2>1. Len(c.src) \in Nat
    BY <1>2, CallShapes
  <2> QED  BY <1>2, <2>1, CallShapes, ChunksType DEF GetFirst
<1>3. CASE c.op # "memcpy"
  BY <1>1, <1>3, CallShapes, SizeAssumption DEF GetFirst
<1> QED  BY <1>2, <1>3

LEMMA MergedType ==
  ASSUME qemu_r \in Regs, NEW r \in [1 .. DutReg -> Value]
  PROVE  Merged(r) \in Regs
  BY RegAssumption DEF Merged, Regs

LEMMA ValueType ==
  /\ 0 \in Value
  /\ \A r \in Regs : Stepped(r) \in Regs /\ [r EXCEPT ![Eip] = Entry, ![Cs] = 0] \in Regs
<1>1. PICK w \in Nat \ {0} : w = Weight[RegBytes]
  BY Weights, RegAssumption
<1>2. Value = 0 .. w - 1
  BY <1>1 DEF Value
<1>3. 0 \in Value
  BY <1>2
<1>4. Entry \in Value
  BY DataAssumption
<1>5. \A x \in Value : (x + 1) % w \in Value
  BY <1>2
<1>6. Eip \in 1 .. NrReg /\ Cs \in 1 .. NrReg /\ NrReg \in 1 .. NrReg
  BY RegAssumption
<1>7. ASSUME NEW r \in Regs
      PROVE  Stepped(r) \in Regs /\ [r EXCEPT ![Eip] = Entry, ![Cs] = 0] \in Regs
  <2>1. [r EXCEPT ![Eip] = Entry, ![Cs] = 0] \in Regs
    BY <1>3, <1>4 DEF Regs
  <2>2. (r[Eip] + 1) % w \in Value /\ (r[NrReg] + 1) % w \in Value
    <3>1. r[Eip] \in Value /\ r[NrReg] \in Value
      BY <1>6 DEF Regs
    <3> QED  BY <1>5, <3>1
  <2>3. Stepped(r) = [r EXCEPT ![Eip] = (r[Eip] + 1) % w, ![NrReg] = (r[NrReg] + 1) % w]
    BY <1>1 DEF Stepped
  <2>4. Stepped(r) \in Regs
    <3> DEFINE x == (r[Eip] + 1) % w
               y == (r[NrReg] + 1) % w
    <3>1. Stepped(r) = [r EXCEPT ![Eip] = x, ![NrReg] = y] /\ x \in Value /\ y \in Value
      BY <2>2, <2>3
    <3> HIDE DEF x, y
    <3> QED  BY <3>1 DEF Regs
  <2> QED  BY <2>1, <2>4
<1> QED  BY <1>3, <1>7

\* The four kinds of requests.
Copies(dest, src) == /\ Request(call, k) = gdb_memcpy_to_qemu(dest, src, k)
                     /\ src \in Seq(Byte) /\ dest \in Nat /\ dest + Len(src) <= MemSize
                     /\ k < GetFirst(call) /\ Request(call, k).op = "M"
Gets == Request(call, k).op = "g"
Sets(regs) == Request(call, k) = gdb_setregs(regs) /\ regs \in Regs /\ Request(call, k).op = "G"
Steps == Request(call, k) = gdb_si

LEMMA RequestKinds ==
  ASSUME call \in Going, k \in Nat, k < Requests(call), qemu_r \in Regs
  PROVE  \/ call.op = "memcpy" /\ Copies(call.dest, call.src)
         \/ call.op = "getregs" /\ Gets /\ k = 0
         \/ call.op = "setregs" /\ k = 0 /\ Gets
         \/ call.op = "setregs" /\ k = 1 /\ Sets(Merged(call.regs))
         \/ call.op = "exec" /\ Steps
         \/ call.op = "init" /\ k < GetFirst(call) /\ Copies(Entry, Mbr)
         \/ call.op = "init" /\ k = GetFirst(call) /\ Gets
         \/ call.op = "init" /\ k = GetFirst(call) + 1 /\ Sets([qemu_r EXCEPT ![Eip] = Entry, ![Cs] = 0])
         \/ call.op = "init" /\ k > GetFirst(call) + 1 /\ Steps
<1>1. CASE call.op = "memcpy"
  <2>1. /\ call.src \in Seq(Byte) /\ call.dest \in Nat /\ call.dest + Len(call.src) <= MemSize
    BY <1>1, CallShapes
  <2>2. k < GetFirst(call)
    BY <1>1 DEF GetFirst
  <2>3. Request(call, k) = gdb_memcpy_to_qemu(call.dest, call.src, k)
    BY <1>1 DEF Request
  <2>4. Request(call, k).op = "M"
    BY <2>3 DEF gdb_memcpy_to_qemu, gdb_memcpy_to_qemu_small
  <2>5. Copies(call.dest, call.src)
    BY <2>1, <2>2, <2>3, <2>4 DEF Copies
  <2> QED  BY <1>1, <2>5
<1>2. CASE call.op = "getregs"
  <2>1. k = 0
    BY <1>2, CallShapes
  <2> QED  BY <1>2, <2>1 DEF Request, gdb_getregs, Gets
<1>3. CASE call.op = "setregs"
  <2>1. k \in {0, 1} /\ call.regs \in [1 .. DutReg -> Value]
    BY <1>3, CallShapes
  <2>2. k = 0 => Request(call, k).op = "g"
    BY <1>3 DEF Request, gdb_getregs
  <2>3. k = 1 => Request(call, k) = gdb_setregs(Merged(call.regs))
    BY <1>3 DEF Request
  <2>4. k = 1 => Request(call, k).op = "G"
    BY <2>3 DEF gdb_setregs
  <2>5. k = 1 => Sets(Merged(call.regs))
    BY <2>1, <2>3, <2>4, MergedType DEF Sets
  <2> QED  BY <1>3, <2>1, <2>2, <2>5 DEF Gets
<1>4. CASE call.op = "exec"
  BY <1>4 DEF Request, Steps
<1>5. CASE call.op = "init"
  <2> DEFINE m == Chunks(Len(Mbr))
  <2>1. GetFirst(call) = m /\ Mbr \in Seq(Byte) /\ Entry \in Nat /\ Entry + Len(Mbr) <= MemSize
    BY <1>5, DataAssumption, SizeAssumption DEF GetFirst
  <2>2. m \in Nat
    BY ChunksType, <2>1
  <2>3. Request(call, k) =
          CASE k < m -> gdb_memcpy_to_qemu(Entry, Mbr, k)
            [] k = m -> gdb_getregs
            [] k = m + 1 -> gdb_setregs([qemu_r EXCEPT ![Eip] = Entry, ![Cs] = 0])
            [] k > m + 1 -> gdb_si
    BY <1>5 DEF Request
  <2> HIDE DEF m
  <2>4. CASE k < m
    <3>1. Request(call, k) = gdb_memcpy_to_qemu(Entry, Mbr, k)
      BY <2>2, <2>3, <2>4
    <3>2. Request(call, k).op = "M"
      BY <3>1 DEF gdb_memcpy_to_qemu, gdb_memcpy_to_qemu_small
    <3>3. Copies(Entry, Mbr)
      BY <2>1, <2>4, <3>1, <3>2 DEF Copies
    <3> QED  BY <1>5, <2>1, <2>4, <3>3
  <2>5. CASE k = m
    <3>1. Request(call, k) = gdb_getregs
      BY <2>2, <2>3, <2>5
    <3>2. Gets
      BY <3>1 DEF gdb_getregs, Gets
    <3> QED  BY <1>5, <2>1, <2>5, <3>2
  <2>6. CASE k = m + 1
    <3>1. Request(call, k) = gdb_setregs([qemu_r EXCEPT ![Eip] = Entry, ![Cs] = 0])
      BY <2>2, <2>3, <2>6
    <3>2. Request(call, k).op = "G"
      BY <3>1 DEF gdb_setregs
    <3>3. Sets([qemu_r EXCEPT ![Eip] = Entry, ![Cs] = 0])
      BY <3>1, <3>2, ValueType DEF Sets
    <3> QED  BY <1>5, <2>1, <2>6, <3>3
  <2>7. CASE k > m + 1
    <3>1. Request(call, k) = gdb_si
      BY <2>2, <2>3, <2>7
    <3>2. Steps
      BY <3>1 DEF Steps
    <3> QED  BY <1>5, <2>1, <2>7, <3>2
  <2> QED  BY <2>2, <2>4, <2>5, <2>6, <2>7
<1>6. call.op \in {"memcpy", "getregs", "setregs", "exec", "init"}
  BY CallShapes
<1> QED  BY <1>1, <1>2, <1>3, <1>4, <1>5, <1>6

-----------------------------------------------------------------------------
(* What the stub carries out                                               *)

Memory == [0 .. MemSize - 1 -> Byte]
Machine == [regs : Regs, mem : Memory]

LEMMA MachineParts ==
  ASSUME NEW m \in Machine, NEW regs \in Regs, NEW mem \in Memory
  PROVE  /\ [m EXCEPT !.regs = regs] \in Machine
         /\ [m EXCEPT !.regs = regs].regs = regs /\ [m EXCEPT !.regs = regs].mem = m.mem
         /\ [m EXCEPT !.mem = mem] \in Machine
         /\ [m EXCEPT !.mem = mem].mem = mem /\ [m EXCEPT !.mem = mem].regs = m.regs
         /\ [m EXCEPT !.regs = m.regs] = m
<1>1. /\ [m EXCEPT !.regs = regs] \in Machine
      /\ [m EXCEPT !.regs = regs].regs = regs /\ [m EXCEPT !.regs = regs].mem = m.mem
  BY DEF Machine
<1>2. /\ [m EXCEPT !.mem = mem] \in Machine
      /\ [m EXCEPT !.mem = mem].mem = mem /\ [m EXCEPT !.mem = mem].regs = m.regs
  BY DEF Machine
<1>3. [m EXCEPT !.regs = m.regs] = m
  BY DEF Machine
<1> QED  BY <1>1, <1>2, <1>3

LEMMA CopiedType ==
  ASSUME NEW mem \in Memory, NEW dest \in Nat, NEW src \in Seq(Byte)
  PROVE  /\ Copied(mem, dest, src) \in Memory
         /\ \A a \in 0 .. MemSize - 1 :
              Copied(mem, dest, src)[a] = IF a - dest + 1 \in 1 .. Len(src) THEN src[a - dest + 1] ELSE mem[a]
<1>1. DOMAIN src = 1 .. Len(src) /\ DOMAIN mem = 0 .. MemSize - 1
  BY DEF Memory
<1>2. \A i \in 1 .. Len(src) : src[i] \in Byte
  OBVIOUS
<1> DEFINE f == [a \in 0 .. MemSize - 1 |-> IF a - dest + 1 \in 1 .. Len(src) THEN src[a - dest + 1] ELSE mem[a]]
<1>3. Copied(mem, dest, src) = f
  BY <1>1 DEF Copied
<1>4. f \in Memory
  BY <1>2 DEF Memory
<1> QED  BY <1>3, <1>4

\* The bytes of chunk number i of a copy.
Chunk(src, i) == SubSeq(src, mtu * i + 1, Min({mtu * (i + 1), Len(src)}))

LEMMA Minimum ==
  ASSUME NEW a \in Int, NEW b \in Int
  PROVE  Min({a, b}) = IF a <= b THEN a ELSE b
<1> DEFINE m == IF a <= b THEN a ELSE b
<1>1. m \in {a, b} /\ \A y \in {a, b} : m <= y
  OBVIOUS
<1>2. \A x \in {a, b} : (\A y \in {a, b} : x <= y) => x = m
  OBVIOUS
<1> HIDE DEF m
<1>3. Min({a, b}) = m
  BY <1>1, <1>2 DEF Min
<1> QED  BY <1>3 DEF m

LEMMA ChunkType ==
  ASSUME NEW src \in Seq(Byte), NEW i \in Nat
  PROVE  /\ Chunk(src, i) \in Seq(Byte)
         /\ mtu * i \in Nat /\ mtu * (i + 1) = mtu * i + mtu
         /\ \A j \in Int : j \in 1 .. Len(Chunk(src, i)) <=> j \in 1 .. mtu /\ mtu * i + j <= Len(src)
         /\ \A j \in 1 .. Len(Chunk(src, i)) : Chunk(src, i)[j] = src[mtu * i + j]
<1>0. mtu \in Nat \ {0} /\ Len(src) \in Nat
  BY RegAssumption
<1>1. PICK p \in Nat : p = mtu * i
  BY <1>0
<1>2. mtu * (i + 1) = p + mtu
  BY <1>0, <1>1
<1> DEFINE m == IF p + mtu <= Len(src) THEN p + mtu ELSE Len(src)
<1>3. Min({p + mtu, Len(src)}) = m
  BY <1>0, Minimum
<1>4. Chunk(src, i) = SubSeq(src, p + 1, m)
  BY <1>1, <1>2, <1>3 DEF Chunk
<1>5. m \in Nat /\ m <= Len(src)
  BY <1>0
<1>6. SubSeq(src, p + 1, m) \in Seq(Byte)
  BY <1>0
<1>7. \A j \in 1 .. m - p : SubSeq(src, p + 1, m)[j] = src[p + j]
  BY <1>0
<1>8. Len(SubSeq(src, p + 1, m)) = IF p + 1 <= m THEN m - p ELSE 0
  BY <1>0
<1> QED  BY <1>0, <1>1, <1>2, <1>4, <1>6, <1>7, <1>8

\* The unit of work request number i of a call is, but for the gdb_getregs before a write.
UnitOf(c, i) == IF i > GetFirst(c) THEN i - 1 ELSE i

\* A copy is refused or done.
LEMMA CopyServed ==
  ASSUME machine \in Machine, k \in Nat, NEW dest, NEW src, Copies(dest, src), StubServes
  PROVE  /\ machine' \in Machine
         /\ \/ machine' = machine /\ last' = Error
            \/ /\ machine' = [machine EXCEPT !.mem = Copied(machine.mem, dest + mtu * k, Chunk(src, k))]
               /\ last' = OK
<1>1. src \in Seq(Byte) /\ dest \in Nat /\ Chunk(src, k) \in Seq(Byte) /\ mtu * k \in Nat
  BY ChunkType DEF Copies
<1> DEFINE at == dest + mtu * k
           hex == HexBytes(Chunk(src, k))
<1>2. at \in Nat /\ Bytes(hex) = Chunk(src, k)
  BY <1>1, BytesOfHex
<1>3. Request(call, k) = [op |-> "M", dest |-> at, hex |-> hex]
  BY DEF Copies, gdb_memcpy_to_qemu, gdb_memcpy_to_qemu_small, Chunk
<1> HIDE DEF at, hex
<1> DEFINE r == [op |-> "M", dest |-> at, hex |-> hex]
<1>4. Carried(r) = {<<[machine EXCEPT !.mem = Copied(machine.mem, at, Bytes(hex))], OK>>, <<machine, Error>>}
  BY DEF Carried
<1> HIDE DEF r
<1>5. PICK c \in Carried(r) : machine' = c[1] /\ last' = c[2]
  BY <1>3 DEF StubServes, r
<1>6. \/ machine' = machine /\ last' = Error
      \/ machine' = [machine EXCEPT !.mem = Copied(machine.mem, at, Chunk(src, k))] /\ last' = OK
  BY <1>2, <1>4, <1>5
<1>7. machine.mem \in Memory /\ machine.regs \in Regs
  BY DEF Machine
<1>8. Copied(machine.mem, at, Chunk(src, k)) \in Memory
  BY <1>1, <1>2, <1>7, CopiedType
<1>9. machine' \in Machine
  <2>1. PICK mem \in Memory : mem = Copied(machine.mem, at, Chunk(src, k))
    BY <1>8
  <2>2. [machine EXCEPT !.mem = mem] \in Machine
    BY <1>7, MachineParts
  <2> QED  BY <1>6, <2>1, <2>2, ZenonT(60)
<1>10. at = dest + mtu * k
  BY DEF at
<1> QED  BY <1>6, <1>9, <1>10, ZenonT(60)

LEMMA GetServed ==
  ASSUME Gets, StubServes
  PROVE  machine' = machine /\ last' = HexBytes(BytesOf(machine.regs))
<1>1. Carried(Request(call, k)) = {<<machine, HexBytes(BytesOf(machine.regs))>>}
  BY DEF Carried, Gets
<1> QED  BY <1>1 DEF StubServes

LEMMA SetServed ==
  ASSUME machine \in Machine, NEW regs, Sets(regs), StubServes
  PROVE  machine' = [machine EXCEPT !.regs = regs] /\ machine' \in Machine
<1>1. regs \in Regs
  BY DEF Sets
<1>2. Request(call, k) = [op |-> "G", hex |-> HexBytes(BytesOf(regs))]
  BY DEF Sets, gdb_setregs
<1> DEFINE hex == HexBytes(BytesOf(regs))
           r == [op |-> "G", hex |-> hex]
<1>3. Words(hex) = regs
  BY <1>1, WordsOfHex
<1> HIDE DEF hex
<1>4. Carried(r) = {<<[machine EXCEPT !.regs = Words(hex)], OK>>}
  BY DEF Carried
<1>5. Request(call, k) = r
  BY <1>2 DEF hex
<1> HIDE DEF r
<1>6. machine' = [machine EXCEPT !.regs = regs]
  BY <1>3, <1>4, <1>5 DEF StubServes
<1>7. machine.mem \in Memory
  BY DEF Machine
<1> QED  BY <1>1, <1>6, <1>7, MachineParts

LEMMA StepServed ==
  ASSUME machine \in Machine, Steps, StubServes
  PROVE  machine' = [machine EXCEPT !.regs = Stepped(machine.regs)] /\ machine' \in Machine
<1>1. machine.mem \in Memory /\ machine.regs \in Regs
  BY DEF Machine
<1>2. Carried(gdb_si) = {<<[machine EXCEPT !.regs = Stepped(machine.regs)], Stopped>>}
  BY DEF Carried, gdb_si
<1>3. machine' = [machine EXCEPT !.regs = Stepped(machine.regs)]
  BY <1>2 DEF StubServes, Steps
<1>4. Stepped(machine.regs) \in Regs
  BY <1>1, ValueType
<1> QED  BY <1>1, <1>3, <1>4, MachineParts

-----------------------------------------------------------------------------
(* Units of work                                                           *)

LEMMA UnitFacts ==
  ASSUME call \in Going, k \in Nat, k < Requests(call)
  PROVE  /\ k = GetFirst(call) => UnitOf(call, k + 1) = UnitOf(call, k)
         /\ k # GetFirst(call) => /\ UnitOf(call, k + 1) = UnitOf(call, k) + 1
                                  /\ UnitOf(call, k) < Units(call)
<1>0. GetFirst(call) \in Nat /\ Requests(call) \in Nat
  BY RequestsType
<1>1. k = GetFirst(call) => UnitOf(call, k + 1) = UnitOf(call, k)
  BY <1>0 DEF UnitOf
<1>2. k # GetFirst(call) => UnitOf(call, k + 1) = UnitOf(call, k) + 1
  BY <1>0 DEF UnitOf
<1>3. ASSUME k # GetFirst(call) PROVE UnitOf(call, k) < Units(call)
  <2>1. CASE call.op \in {"setregs", "init"}
    <3>1. Units(call) = Requests(call) - 1
      BY <2>1 DEF Units
    <3>2. GetFirst(call) < Requests(call) - 1
      <4>1. CASE call.op = "setregs"
        BY <4>1, CallShapes DEF GetFirst
      <4>2. CASE call.op = "init"
        <5>1. Chunks(Len(Mbr)) \in Nat /\ Warmup \in Nat
          BY ChunksType, DataAssumption, SizeAssumption
        <5>2. Requests(call) = Chunks(Len(Mbr)) + 2 + Warmup
          BY <4>2, CallShapes
        <5> QED  BY <4>2, <5>1, <5>2 DEF GetFirst
      <4> QED  BY <2>1, <4>1, <4>2
    <3> QED  BY <1>0, <1>3, <3>1, <3>2 DEF UnitOf
  <2>2. CASE call.op \notin {"setregs", "init"}
    <3>1. Units(call) = Requests(call) /\ GetFirst(call) = Requests(call)
      BY <2>2 DEF Units, GetFirst
    <3> QED  BY <1>0, <3>1 DEF UnitOf
  <2> QED  BY <2>1, <2>2
<1> QED  BY <1>1, <1>2, <1>3

\* All units are done when all requests are answered.
LEMMA UnitsComplete ==
  ASSUME call \in Going, k = Requests(call)
  PROVE  UnitOf(call, k) = Units(call)
<1>0. GetFirst(call) \in Nat /\ Requests(call) \in Nat
  BY RequestsType
<1>1. CASE call.op = "setregs"
  BY <1>1, CallShapes DEF GetFirst, UnitOf, Units
<1>2. CASE call.op = "init"
  <2>1. Chunks(Len(Mbr)) \in Nat /\ Warmup \in Nat
    BY ChunksType, DataAssumption, SizeAssumption
  <2>2. Requests(call) = Chunks(Len(Mbr)) + 2 + Warmup
    BY <1>2, CallShapes
  <2>3. GetFirst(call) = Chunks(Len(Mbr)) /\ Units(call) = Requests(call) - 1
    BY <1>2 DEF GetFirst, Units
  <2> QED  BY <2>1, <2>2, <2>3 DEF UnitOf
<1>3. CASE call.op \notin {"setregs", "init"}
  <2>1. Units(call) = Requests(call) /\ GetFirst(call) = Requests(call)
    BY <1>3 DEF Units, GetFirst
  <2> QED  BY <1>0, <2>1 DEF UnitOf
<1> QED  BY <1>1, <1>2, <1>3

\* What one unit of each kind of call does.
LEMMA UnitDoes ==
  ASSUME NEW c, NEW i, NEW m \in Machine
  PROVE  /\ c.op = "memcpy" => Do(c, i, m) =
              {m, [m EXCEPT !.mem = Copied(m.mem, c.dest + mtu * i, Chunk(c.src, i))]}
         /\ c.op = "init" /\ i < GetFirst(c) => Do(c, i, m) =
              {m, [m EXCEPT !.mem = Copied(m.mem, Entry + mtu * i, Chunk(Mbr, i))]}
         /\ c.op = "getregs" => Do(c, i, m) = {m}
         /\ c.op = "setregs" => Do(c, i, m) =
              {[m EXCEPT !.regs = [j \in 1 .. NrReg |-> IF j <= DutReg THEN c.regs[j] ELSE m.regs[j]]]}
         /\ c.op = "init" /\ i = GetFirst(c) /\ ~(i < GetFirst(c)) => Do(c, i, m) =
              {[m EXCEPT !.regs = [m.regs EXCEPT ![Eip] = Entry, ![Cs] = 0]]}
         /\ c.op = "init" /\ i # GetFirst(c) /\ ~(i < GetFirst(c)) => Do(c, i, m) =
              {[m EXCEPT !.regs = Stepped(m.regs)]}
         /\ c.op = "exec" => Do(c, i, m) = {[m EXCEPT !.regs = Stepped(m.regs)]}
<1>1. c.op = "memcpy" => Do(c, i, m) =
        {m, [m EXCEPT !.mem = Copied(m.mem, c.dest + mtu * i, Chunk(c.src, i))]}
  BY DEF Do, Chunk
<1>2. c.op = "init" /\ i < GetFirst(c) => Do(c, i, m) =
        {m, [m EXCEPT !.mem = Copied(m.mem, Entry + mtu * i, Chunk(Mbr, i))]}
  BY DEF Do, Chunk
<1>3. c.op = "getregs" => Do(c, i, m) = {[m EXCEPT !.regs = m.regs]}
  BY DEF Do
<1>4. c.op = "setregs" => Do(c, i, m) =
        {[m EXCEPT !.regs = [j \in 1 .. NrReg |-> IF j <= DutReg THEN c.regs[j] ELSE m.regs[j]]]}
  BY DEF Do
<1>5. c.op = "init" /\ i = GetFirst(c) /\ ~(i < GetFirst(c)) => Do(c, i, m) =
        {[m EXCEPT !.regs = [m.regs EXCEPT ![Eip] = Entry, ![Cs] = 0]]}
  BY DEF Do
<1>6. c.op = "init" /\ i # GetFirst(c) /\ ~(i < GetFirst(c)) => Do(c, i, m) =
        {[m EXCEPT !.regs = Stepped(m.regs)]}
  BY DEF Do
<1>7. c.op = "exec" => Do(c, i, m) = {[m EXCEPT !.regs = Stepped(m.regs)]}
  BY DEF Do
<1>8. [m EXCEPT !.regs = m.regs] = m
  BY MachineParts DEF Machine
<1> QED  BY <1>1, <1>2, <1>3, <1>4, <1>5, <1>6, <1>7, <1>8

-----------------------------------------------------------------------------
(* The data of the exchange                                                *)

\* A call in progress, and whether its present request has been carried out.
Active == pc \in {"next", "ack", "reply"}
Done == pc \in {"ack", "reply"} /\ served = TRUE

Calling ==
  /\ pc \in {"next", "ack", "reply", "idle", "aborted"}
  /\ Active => call \in Going /\ k \in Nat /\ k <= Requests(call)
  /\ pc \in {"ack", "reply"} => k < Requests(call)
  /\ ~Active => call = Nothing /\ k = 0
  /\ pc = "idle" => \E c \in Going : \E r : value = Returned(c, r)

\* After gdb_getregs the client holds the registers of the machine, as long as nothing
\* else is carried out.
Held == \/ call.op = "getregs" /\ k = 1
        \/ call.op \in {"setregs", "init"} /\ k = GetFirst(call) + 1
Gotten ==
  /\ Done /\ Gets => last = HexBytes(BytesOf(machine.regs))
  /\ Active /\ ~Done /\ Held => qemu_r = machine.regs

Data == machine \in Machine /\ qemu_r \in Regs /\ ok \in BOOLEAN /\ Calling /\ Gotten

LEMMA DataInit == Init => Data
<1> SUFFICES ASSUME Init PROVE Data
  OBVIOUS
<1>1. machine \in Machine
  <2>1. 0 \in Byte
    BY DEF Byte
  <2>2. Boot \in Regs
    BY RegAssumption DEF Regs
  <2> QED  BY <2>1, <2>2 DEF Init, AtBoot, Machine, Memory
<1>2. qemu_r \in Regs /\ ok \in BOOLEAN
  BY RegAssumption DEF Init, Regs
<1>3. call \in Going /\ k = 0 /\ pc = "next" /\ call.op = "init"
  BY DEF Init, Going, InitCall
<1>4. Requests(call) \in Nat /\ GetFirst(call) \in Nat
  BY <1>3, RequestsType
<1>5. Calling
  BY <1>3, <1>4 DEF Calling, Active
<1>6. Gotten
  BY <1>3, <1>4 DEF Gotten, Held, Done
<1> QED  BY <1>1, <1>2, <1>5, <1>6 DEF Data

\* The units done, as the refinement maps them.
UnitsMapped ==
  /\ Active /\ ~Done => UnitsDone = UnitOf(call, k)
  /\ Active /\ Done => UnitsDone = UnitOf(call, k + 1)
  /\ ~Active => UnitsDone = 0

LEMMA UnitsNow == Calling => UnitsMapped
<1> SUFFICES ASSUME Calling PROVE UnitsMapped
  OBVIOUS
<1>1. ASSUME NEW c \in Going PROVE c # Nothing
  <2>1. c.op # "nothing"
    BY CallShapes
  <2> QED  BY <2>1 DEF Nothing
<1>2. Active => call # Nothing
  BY <1>1 DEF Calling
<1>3. Active /\ ~Done => UnitsDone = UnitOf(call, k)
  <2> SUFFICES ASSUME Active, ~Done PROVE UnitsDone = UnitOf(call, k)
    OBVIOUS
  <2>1. k \in Nat /\ ~(pc \in {"ack", "reply"} /\ served)
    BY DEF Done, Calling
  <2> QED  BY <1>2, <2>1 DEF UnitsDone, UnitOf
<1>4. Active /\ Done => UnitsDone = UnitOf(call, k + 1)
  <2> SUFFICES ASSUME Active, Done PROVE UnitsDone = UnitOf(call, k + 1)
    OBVIOUS
  <2>1. k \in Nat /\ (pc \in {"ack", "reply"} /\ served)
    BY DEF Done, Calling
  <2> QED  BY <1>2, <2>1 DEF UnitsDone, UnitOf
<1>5. ~Active => UnitsDone = 0
  BY DEF UnitsDone, Calling, Active
<1> QED  BY <1>3, <1>4, <1>5 DEF UnitsMapped

LEMMA UnitsNext == Calling' => UnitsMapped'
  BY UnitsNow, PTL

-----------------------------------------------------------------------------
(* A step keeps the data and is a step of the reference                    *)

\* What hangs on the variables of a call alone.
LEMMA SameCall ==
  ASSUME UNCHANGED <<call, k, qemu_r>>
  PROVE  /\ Request(call, k)' = Request(call, k) /\ Gets' = Gets /\ Held' = Held
         /\ UnitOf(call, k)' = UnitOf(call, k) /\ UnitOf(call, k + 1)' = UnitOf(call, k + 1)
         /\ Requests(call)' = Requests(call)
<1>1. Request(call, k)' = Request(call, k)
  BY DEF Request, Merged
<1> QED  BY <1>1 DEF Gets, Held, UnitOf, GetFirst, Requests

Stutters == UNCHANGED <<call, UnitsDone, machine, value>>

LEMMA SameData ==
  ASSUME Data, UNCHANGED <<call, k, ok, qemu_r, last, machine, value>>,
         \/ UNCHANGED <<pc, served>>
         \/ UNCHANGED served /\ pc = "ack" /\ pc' = "reply"
         \/ pc = "next" /\ pc' = "ack" /\ served' = FALSE /\ k < Requests(call)
  PROVE  Data' /\ Stutters
<1>1. Active' = Active /\ Done' = Done
  BY DEF Active, Done
<1>2. Calling'
  BY <1>1, SameCall DEF Data, Calling, Active
<1>3. Gotten'
  BY <1>1, SameCall DEF Data, Gotten
<1>4. UnitsDone' = UnitsDone
  <2>1. /\ Active' /\ ~Done' => UnitsDone' = UnitOf(call, k)'
        /\ Active' /\ Done' => UnitsDone' = UnitOf(call, k + 1)'
        /\ ~Active' => UnitsDone' = 0
    BY <1>2, UnitsNext DEF UnitsMapped
  <2> QED  BY <1>1, <2>1, SameCall, UnitsNow DEF Data, UnitsMapped
<1> QED  BY <1>2, <1>3, <1>4 DEF Data, Stutters

Refines == [Ref!Next]_Ref!vars

LEMMA StutterRefines == Stutters => Refines
  BY DEF Stutters, Refines, Ref!vars

\* Taking the answer of a gdb_getregs leaves the client with the machine's registers.
LEMMA TakeData ==
  ASSUME Data, Done, Take(last), UNCHANGED <<call, last, machine, served, value>>
  PROVE  Data' /\ Stutters
<1>1. /\ call \in Going /\ k \in Nat /\ k < Requests(call) /\ qemu_r \in Regs
      /\ Requests(call) \in Nat /\ GetFirst(call) \in Nat
  BY RequestsType DEF Data, Calling, Done, Active
<1>2. k' = k + 1 /\ pc' = "next" /\ call' = call /\ machine' = machine /\ value' = value
  BY DEF Take
<1>3. Active /\ Active' /\ ~Done'
  BY <1>2 DEF Active, Done
<1>4. Calling'
  BY <1>1, <1>2, <1>3 DEF Calling
<1>5. qemu_r' = IF Gets THEN machine.regs ELSE qemu_r
  <2>1. CASE Gets
    <3>1. last = HexBytes(BytesOf(machine.regs)) /\ machine.regs \in Regs
      BY <2>1 DEF Data, Gotten, Machine
    <3>2. qemu_r' = Decoded(last)
      BY <2>1 DEF Take, Gets
    <3> QED  BY <2>1, <3>1, <3>2, DecodedOfHex
  <2>2. CASE ~Gets
    BY <2>2 DEF Take, Gets
  <2> QED  BY <2>1, <2>2
<1>6. qemu_r' \in Regs
  BY <1>1, <1>5 DEF Data, Machine
<1>7. ok' \in BOOLEAN
  BY DEF Take, Okay, Data
<1>8. Held' => Gets
  <2> SUFFICES ASSUME Held' PROVE Gets
    OBVIOUS
  <2>1. \/ call.op = "getregs" /\ k = 0
        \/ call.op \in {"setregs", "init"} /\ k = GetFirst(call)
    BY <1>1, <1>2 DEF Held, GetFirst
  <2>2. call.op = "setregs" => GetFirst(call) = 0
    BY DEF GetFirst
  <2> QED  BY <1>1, <2>1, <2>2, RequestKinds
<1>9. Gotten'
  BY <1>2, <1>3, <1>5, <1>8 DEF Gotten
<1>10. UnitsDone' = UnitsDone
  <2>1. UnitsDone' = UnitOf(call', k')
    BY <1>3, <1>4, UnitsNext DEF UnitsMapped
  <2>2. UnitsDone = UnitOf(call, k + 1)
    BY <1>3, UnitsNow DEF UnitsMapped, Data
  <2> QED  BY <1>2, <2>1, <2>2
<1> QED  BY <1>2, <1>4, <1>6, <1>7, <1>9, <1>10 DEF Data, Stutters

\* A request is carried out as the next unit of its call, and nothing is done before it.
LEMMA ServeData ==
  ASSUME Data, StubServes, pc = "ack", UNCHANGED <<pc, call, k, ok, qemu_r, value>>
  PROVE  Data' /\ Refines
<1>1. /\ call \in Going /\ k \in Nat /\ k < Requests(call) /\ qemu_r \in Regs /\ machine \in Machine
      /\ Requests(call) \in Nat /\ GetFirst(call) \in Nat
  BY RequestsType DEF Data, Calling, Active
<1>2. Active /\ ~Done /\ Active' /\ Done'
  BY DEF Active, Done, StubServes
<1>3. Calling'
  BY <1>1, <1>2, SameCall DEF Data, Calling, Active
<1>4. UnitsDone = UnitOf(call, k) /\ UnitsDone' = UnitOf(call, k + 1)
  <2>1. UnitsDone' = UnitOf(call, k + 1)'
    BY <1>2, <1>3, UnitsNext DEF UnitsMapped
  <2>2. UnitsDone = UnitOf(call, k)
    BY <1>2, UnitsNow DEF UnitsMapped, Data
  <2> QED  BY <2>1, <2>2, SameCall
<1>5. Gotten'
  <2>1. Gets' => last' = HexBytes(BytesOf(machine'.regs))
    BY SameCall, GetServed
  <2> QED  BY <1>2, <2>1 DEF Gotten
<1>6. call # Nothing
  <2>1. call.op # "nothing"
    BY <1>1, CallShapes
  <2> QED  BY <2>1 DEF Nothing
<1>7. Held => qemu_r = machine.regs
  BY <1>2 DEF Data, Gotten
<1>8. ASSUME k # GetFirst(call), machine' \in Do(call, UnitOf(call, k), machine)
      PROVE  Ref!Next
  <2>1. UnitsDone < Units(call) /\ UnitsDone' = UnitsDone + 1
    BY <1>1, <1>4, <1>8, UnitFacts
  <2>2. machine' \in Do(call, UnitsDone, machine)
    BY <1>4, <1>8
  <2>3. Ref!Serve
    BY <1>6, <2>1, <2>2 DEF Ref!Serve
  <2> QED  BY <2>3 DEF Ref!Next
<1>9. ASSUME k = GetFirst(call), machine' = machine
      PROVE  Stutters
  BY <1>1, <1>4, <1>9, UnitFacts DEF Stutters
<1>10. CASE call.op = "memcpy" /\ Copies(call.dest, call.src)
  <2>1. k < GetFirst(call) /\ UnitOf(call, k) = k
    BY <1>1, <1>10 DEF Copies, UnitOf
  <2>2. machine' \in Machine /\ machine' \in Do(call, k, machine)
    BY <1>1, <1>10, CopyServed, UnitDoes
  <2> QED  BY <1>1, <1>3, <1>5, <1>8, <2>1, <2>2 DEF Data, Refines
<1>11. CASE call.op = "init" /\ Copies(Entry, Mbr)
  <2>1. k < GetFirst(call) /\ UnitOf(call, k) = k
    BY <1>1, <1>11 DEF Copies, UnitOf
  <2>2. machine' \in Machine /\ machine' \in Do(call, k, machine)
    BY <1>1, <1>11, <2>1, CopyServed, UnitDoes
  <2> QED  BY <1>1, <1>3, <1>5, <1>8, <2>1, <2>2 DEF Data, Refines
<1>12. CASE call.op = "getregs" /\ Gets /\ k = 0
  <2>1. k # GetFirst(call)
    BY <1>12, CallShapes, <1>1 DEF GetFirst
  <2>2. machine' \in Machine /\ machine' \in Do(call, UnitOf(call, k), machine)
    BY <1>1, <1>12, GetServed, UnitDoes
  <2> QED  BY <1>1, <1>3, <1>5, <1>8, <2>1, <2>2 DEF Data, Refines
<1>13. CASE call.op \in {"setregs", "init"} /\ k = GetFirst(call) /\ Gets
  <2>1. machine' = machine
    BY <1>13, GetServed
  <2>2. Stutters
    BY <1>9, <1>13, <2>1
  <2> QED  BY <1>1, <1>3, <1>5, <2>1, <2>2, StutterRefines DEF Data
<1>14. CASE call.op = "setregs" /\ k = 1 /\ Sets(Merged(call.regs))
  <2>1. GetFirst(call) = 0
    BY <1>14 DEF GetFirst
  <2>2. qemu_r = machine.regs
    BY <1>7, <1>14, <2>1 DEF Held
  <2>3. machine' = [machine EXCEPT !.regs = Merged(call.regs)] /\ machine' \in Machine
    BY <1>1, <1>14, SetServed
  <2>4. Merged(call.regs) = [j \in 1 .. NrReg |-> IF j <= DutReg THEN call.regs[j] ELSE machine.regs[j]]
    BY <2>2 DEF Merged
  <2>5. machine' \in Do(call, UnitOf(call, k), machine)
    BY <1>1, <1>14, <2>3, <2>4, UnitDoes
  <2> QED  BY <1>1, <1>3, <1>5, <1>8, <1>14, <2>1, <2>3, <2>5 DEF Data, Refines
<1>15. CASE call.op = "init" /\ k = GetFirst(call) + 1 /\ Sets([qemu_r EXCEPT ![Eip] = Entry, ![Cs] = 0])
  <2>1. k # GetFirst(call) /\ UnitOf(call, k) = GetFirst(call) /\ ~(GetFirst(call) < GetFirst(call))
    BY <1>1, <1>15 DEF UnitOf
  <2>2. qemu_r = machine.regs
    BY <1>7, <1>15 DEF Held
  <2> DEFINE regs == [machine.regs EXCEPT ![Eip] = Entry, ![Cs] = 0]
  <2>3. Sets(regs)
    BY <1>15, <2>2
  <2> HIDE DEF regs
  <2>4. machine' = [machine EXCEPT !.regs = regs] /\ machine' \in Machine
    BY <1>1, <2>3, SetServed
  <2>5. machine' \in Do(call, UnitOf(call, k), machine)
    BY <1>1, <1>15, <2>1, <2>4, UnitDoes DEF regs
  <2> QED  BY <1>1, <1>3, <1>5, <1>8, <2>1, <2>4, <2>5 DEF Data, Refines
<1>16. CASE call.op = "init" /\ k > GetFirst(call) + 1 /\ Steps
  <2>1. PICK u \in Nat : u = UnitOf(call, k) /\ u > GetFirst(call)
    BY <1>1, <1>16 DEF UnitOf
  <2>2. k # GetFirst(call) /\ u # GetFirst(call) /\ ~(u < GetFirst(call))
    BY <1>1, <1>16, <2>1
  <2>3. machine' = [machine EXCEPT !.regs = Stepped(machine.regs)] /\ machine' \in Machine
    BY <1>1, <1>16, StepServed
  <2>4. machine' \in Do(call, u, machine)
    BY <1>1, <1>16, <2>2, <2>3, UnitDoes
  <2> QED  BY <1>1, <1>3, <1>5, <1>8, <2>1, <2>2, <2>3, <2>4 DEF Data, Refines
<1>17. CASE call.op = "exec" /\ Steps
  <2>1. k # GetFirst(call)
    BY <1>17, <1>1 DEF GetFirst
  <2>2. machine' = [machine EXCEPT !.regs = Stepped(machine.regs)] /\ machine' \in Machine
    BY <1>1, <1>17, StepServed
  <2>3. machine' \in Do(call, UnitOf(call, k), machine)
    BY <1>1, <1>17, <2>2, UnitDoes
  <2> QED  BY <1>1, <1>3, <1>5, <1>8, <2>1, <2>2, <2>3 DEF Data, Refines
<1>18. call.op = "setregs" => GetFirst(call) = 0
  BY DEF GetFirst
<1> QED  BY <1>1, <1>10, <1>11, <1>12, <1>13, <1>14, <1>15, <1>16, <1>17, <1>18, RequestKinds

LEMMA CallData ==
  ASSUME Data, Call
  PROVE  Data' /\ Refines
<1>1. /\ pc = "idle" /\ pc' = "next" /\ call' \in Calls /\ k' = 0 /\ ok' = TRUE
      /\ UNCHANGED <<qemu_r, last, machine, served, value>> /\ call = Nothing /\ k = 0
  BY DEF Call, Data, Calling, Active
<1>2. call' \in Going /\ Requests(call') \in Nat /\ GetFirst(call') \in Nat
  <2>1. call' \in Going
    BY <1>1 DEF Going
  <2> QED  BY <2>1, RequestsType
<1>3. Active' /\ ~Done' /\ ~Active
  BY <1>1 DEF Active, Done
<1>4. Calling'
  BY <1>1, <1>2, <1>3 DEF Calling
<1>5. ~Held'
  BY <1>1, <1>2 DEF Held, GetFirst
<1>6. Gotten'
  BY <1>3, <1>5 DEF Gotten
<1>7. UnitsDone' = UnitsDone
  <2>1. UnitsDone' = UnitOf(call', k') /\ UnitsDone = 0
    BY <1>3, <1>4, UnitsNext, UnitsNow DEF UnitsMapped, Data
  <2> QED  BY <1>1, <1>2, <2>1 DEF UnitOf
<1>8. value # Aborted
  <2>1. PICK c \in Going : \E r : value = Returned(c, r)
    BY <1>1 DEF Data, Calling
  <2> QED  BY <2>1 DEF Returned, Aborted
<1>9. Ref!Call
  BY <1>1, <1>7, <1>8 DEF Ref!Call
<1>10. Refines
  BY <1>9 DEF Refines, Ref!Next
<1> QED  BY <1>1, <1>4, <1>6, <1>10 DEF Data

LEMMA ReturnData ==
  ASSUME Data, Return
  PROVE  Data' /\ Refines
<1>1. /\ pc = "next" /\ call' = Nothing /\ k' = 0 /\ UNCHANGED <<ok, qemu_r, last, machine, served>>
      /\ k = Requests(call) \/ Failed
      /\ IF Failed THEN pc' = "aborted" /\ value' = Aborted ELSE pc' = "idle" /\ value' = Returned(call, qemu_r)
  BY DEF Return
<1>2. Active /\ ~Done /\ ~Active' /\ ~Done'
  BY <1>1 DEF Active, Done
<1>3. call \in Going
  BY <1>2 DEF Data, Calling
<1>4. Calling'
  BY <1>1, <1>2, <1>3 DEF Calling
<1>5. Gotten'
  BY <1>2 DEF Gotten
<1>6. UnitsDone' = 0 /\ UnitsDone = UnitOf(call, k)
  BY <1>2, <1>4, UnitsNext, UnitsNow DEF UnitsMapped, Data
<1>7. call # Nothing
  <2>1. call.op # "nothing"
    BY <1>3, CallShapes
  <2> QED  BY <2>1 DEF Nothing
<1>8. CASE Failed
  <2>1. Ref!Abort
    BY <1>1, <1>6, <1>7, <1>8 DEF Ref!Abort
  <2> QED  BY <1>1, <1>4, <1>5, <2>1 DEF Data, Refines, Ref!Next
<1>9. CASE ~Failed
  <2>1. k = Requests(call) /\ value' = Returned(call, qemu_r)
    BY <1>1, <1>9
  <2>2. UnitsDone = Units(call)
    BY <1>3, <1>6, <2>1, UnitsComplete
  <2>3. Returned(call, qemu_r) = Returned(call, machine.regs)
    <3>1. CASE call.op = "getregs"
      <4>1. Held
        BY <1>3, <2>1, <3>1, CallShapes DEF Held
      <4> QED  BY <1>2, <4>1 DEF Data, Gotten
    <3>2. CASE call.op # "getregs"
      BY <3>2 DEF Returned
    <3> QED  BY <3>1, <3>2
  <2>4. Ref!Return
    BY <1>1, <1>6, <1>7, <2>1, <2>2, <2>3 DEF Ref!Return
  <2> QED  BY <1>1, <1>4, <1>5, <2>4 DEF Data, Refines, Ref!Next
<1> QED  BY <1>8, <1>9

LEMMA DataStep ==
  ASSUME Exchange, Data, [Next]_vars
  PROVE  Data' /\ Refines
<1>1. CASE Call
  BY <1>1, CallData
<1>2. CASE Send
  BY <1>2, SameData, StutterRefines DEF Send
<1>3. CASE Acked
  <2>1. UNCHANGED <<call, k, ok, qemu_r, last, machine, value, served>>
    BY <1>3 DEF Acked
  <2>2. pc = "ack" /\ pc' \in {"ack", "reply"}
    BY <1>3 DEF Acked
  <2> QED  BY <2>1, <2>2, SameData, StutterRefines
<1>4. CASE Receive
  <2>1. Done /\ UNCHANGED <<call, last, machine, served, value>>
    BY <1>4, ReceiveStep DEF Coming, Done, Receive
  <2>2. Take(last) \/ UNCHANGED <<pc, k, ok, qemu_r>>
    BY <1>4, ReceiveStep
  <2>3. CASE Take(last)
    BY <2>1, <2>3, TakeData, StutterRefines
  <2>4. CASE UNCHANGED <<pc, k, ok, qemu_r>>
    BY <2>1, <2>4, SameData, StutterRefines
  <2> QED  BY <2>2, <2>3, <2>4
<1>5. CASE Return
  BY <1>5, ReturnData
<1>6. CASE Stub
  <2>1. UNCHANGED <<pc, call, k, ok, qemu_r, value>> /\ (StubIdle \/ (StubServes /\ pc = "ack"))
    BY <1>6, StubStep DEF Asked
  <2>2. CASE StubIdle
    BY <2>1, <2>2, SameData, StutterRefines DEF StubIdle
  <2>3. CASE StubServes /\ pc = "ack"
    BY <2>1, <2>3, ServeData
  <2> QED  BY <2>1, <2>2, <2>3
<1>7. CASE Damage
  BY <1>7, DamageStep, SameData, StutterRefines
<1>8. CASE UNCHANGED vars
  BY <1>8, SameData, StutterRefines DEF vars
<1> QED  BY <1>1, <1>2, <1>3, <1>4, <1>5, <1>6, <1>7, <1>8 DEF Next, Client

LEMMA DataCorrect == Spec => []Data
<1>1. Exchange /\ Data /\ [Next]_vars => Data'
  BY DataStep
<1> QED  BY <1>1, DataInit, ExchangeCorrect, PTL DEF Spec

\* For any registers, memory, calls and any number of damaged packets the protocol
\* implements the reference NEMU expects: each unit of a call is carried out once and in
\* order, setregs keeps the registers NEMU does not know, and a call returns what the
\* machine holds at that moment.
THEOREM ImplementsReference == Spec => ActsLikeReference
<1>1. Init => Ref!Init
  <2> SUFFICES ASSUME Init PROVE Ref!Init
    OBVIOUS
  <2>1. Calling /\ call = [op |-> "init"] /\ machine \in {AtBoot} /\ value = Nothing
    BY DataInit DEF Init, Data
  <2>2. UnitsDone = 0
    <3>1. Active /\ ~Done /\ k = 0 /\ call \in Going
      BY DEF Init, Active, Done, Going, InitCall
    <3>2. GetFirst(call) \in Nat
      BY <3>1, RequestsType
    <3> QED  BY <2>1, <3>1, <3>2, UnitsNow DEF UnitsMapped, UnitOf
  <2> QED  BY <2>1, <2>2 DEF Ref!Init
<1>2. Exchange /\ Data /\ [Next]_vars => [Ref!Next]_Ref!vars
  BY DataStep DEF Refines
<1> QED  BY <1>1, <1>2, ExchangeCorrect, DataCorrect, PTL DEF Spec, ActsLikeReference, Ref!Spec

-----------------------------------------------------------------------------
(* Copies                                                                  *)

\* The first n chunks of the copy in progress are in the machine's memory.
Kept(n) == \A j \in 1 .. Len(call.src) :
             j <= mtu * n => machine.mem[call.dest + j - 1] = call.src[j]

\* A copy that is still ok is in memory as far as it was carried out and not refused.
CopyKept ==
  Active /\ call.op = "memcpy" /\ ok =>
    /\ Kept(k)
    /\ Done /\ last = OK => Kept(k + 1)

LEMMA SameKept ==
  ASSUME UNCHANGED <<call, machine>>, NEW n
  PROVE  Kept(n)' <=> Kept(n)
  BY DEF Kept

\* One chunk more is in memory, and what was copied before is still there.
LEMMA OneChunkMore ==
  ASSUME NEW mem \in Memory, NEW dest \in Nat, NEW src \in Seq(Byte), NEW i \in Nat,
         dest + Len(src) <= MemSize,
         \A j \in 1 .. Len(src) : j <= mtu * i => mem[dest + j - 1] = src[j]
  PROVE  \A j \in 1 .. Len(src) :
           j <= mtu * (i + 1) => Copied(mem, dest + mtu * i, Chunk(src, i))[dest + j - 1] = src[j]
<1> DEFINE chunk == Chunk(src, i)
<1>1. PICK p \in Nat : p = mtu * i
  BY ChunkType
<1>2. mtu * (i + 1) = p + mtu
  BY <1>1, ChunkType
<1>3. chunk \in Seq(Byte)
  BY ChunkType
<1>4. \A j \in Int : j \in 1 .. Len(chunk) <=> j \in 1 .. mtu /\ p + j <= Len(src)
  BY <1>1, ChunkType
<1>5. \A j \in 1 .. Len(chunk) : chunk[j] = src[p + j]
  BY <1>1, ChunkType
<1> HIDE DEF chunk
<1>6. PICK at \in Nat : at = dest + p
  OBVIOUS
<1>7. \A a \in 0 .. MemSize - 1 :
        Copied(mem, at, chunk)[a] = IF a - at + 1 \in 1 .. Len(chunk) THEN chunk[a - at + 1] ELSE mem[a]
  BY <1>3, CopiedType
<1>8. mtu \in Nat /\ MemSize \in Nat /\ Len(src) \in Nat
  BY RegAssumption, SizeAssumption
<1>9. ASSUME NEW j \in 1 .. Len(src), j <= p + mtu
      PROVE  Copied(mem, at, chunk)[dest + j - 1] = src[j]
  <2>1. PICK a \in 0 .. MemSize - 1 : a = dest + j - 1
    BY <1>8
  <2>2. PICK n \in Int : n = a - at + 1 /\ n = j - p
    BY <1>6, <2>1
  <2>3. Copied(mem, at, chunk)[a] = IF n \in 1 .. Len(chunk) THEN chunk[n] ELSE mem[a]
    BY <1>7, <2>2
  <2>4. CASE j <= p
    <3>1. ~(n \in 1 .. mtu)
      BY <2>2, <2>4
    <3>2. ~(n \in 1 .. Len(chunk))
      BY <1>4, <3>1
    <3>3. mem[dest + j - 1] = src[j]
      BY <1>1, <2>4
    <3> QED  BY <2>1, <2>3, <3>2, <3>3
  <2>5. CASE j > p
    <3>1. n \in 1 .. mtu /\ p + n = j
      BY <1>8, <1>9, <2>2, <2>5
    <3>2. n \in 1 .. Len(chunk)
      BY <1>4, <3>1
    <3>3. chunk[n] = src[j]
      BY <1>5, <3>1, <3>2
    <3> QED  BY <2>1, <2>3, <3>2, <3>3
  <2> QED  BY <2>4, <2>5
<1> QED  BY <1>1, <1>2, <1>6, <1>9 DEF chunk

LEMMA ServeKept ==
  ASSUME Data, StubServes, pc = "ack", CopyKept, UNCHANGED <<pc, call, k, ok, qemu_r, value>>
  PROVE  CopyKept'
<1> SUFFICES ASSUME Active', call'.op = "memcpy", ok'
             PROVE  Kept(k)' /\ (last' = OK => Kept(k + 1)')
  BY DEF CopyKept
<1>1. call \in Going /\ k \in Nat /\ k < Requests(call) /\ qemu_r \in Regs /\ machine \in Machine
  BY DEF Data, Calling, Active
<1>2. call.op = "memcpy" /\ ok /\ Active
  BY DEF Active
<1>3. Copies(call.dest, call.src) /\ Kept(k)
  BY <1>1, <1>2, RequestKinds DEF CopyKept
<1>4. /\ call.src \in Seq(Byte) /\ call.dest \in Nat /\ call.dest + Len(call.src) <= MemSize
      /\ Len(call.src) \in Nat
  BY <1>3 DEF Copies
<1>5. CASE machine' = machine /\ last' = Error
  <2>1. Error # OK
    BY DEF Error, OK
  <2> QED  BY <1>3, <1>5, <2>1, SameKept
<1>6. CASE machine' = [machine EXCEPT !.mem = Copied(machine.mem, call.dest + mtu * k, Chunk(call.src, k))]
  <2>1. machine.mem \in Memory
    BY <1>1 DEF Machine
  <2>2. machine'.mem = Copied(machine.mem, call.dest + mtu * k, Chunk(call.src, k))
    BY <1>1, <1>6 DEF Machine
  <2>3. \A j \in 1 .. Len(call.src) : j <= mtu * k => machine.mem[call.dest + j - 1] = call.src[j]
    BY <1>3 DEF Kept
  <2>4. \A j \in 1 .. Len(call.src) : j <= mtu * (k + 1) => machine'.mem[call.dest + j - 1] = call.src[j]
    <3>1. PICK mem \in Memory, dest \in Nat, src \in Seq(Byte) :
            mem = machine.mem /\ dest = call.dest /\ src = call.src
      BY <1>4, <2>1
    <3>2. \A j \in 1 .. Len(src) :
            j <= mtu * (k + 1) => Copied(mem, dest + mtu * k, Chunk(src, k))[dest + j - 1] = src[j]
      <4>1. dest + Len(src) <= MemSize
        BY <1>4, <3>1
      <4>2. PICK i \in Nat : i = k
        BY <1>1
      <4>3. \A j \in 1 .. Len(src) : j <= mtu * i => mem[dest + j - 1] = src[j]
        BY <2>3, <3>1, <4>2
      <4>4. \A j \in 1 .. Len(src) :
              j <= mtu * (i + 1) => Copied(mem, dest + mtu * i, Chunk(src, i))[dest + j - 1] = src[j]
        BY <4>1, <4>3, OneChunkMore
      <4> QED  BY <4>2, <4>4
    <3> QED  BY <2>2, <3>1, <3>2
  <2>5. Kept(k + 1)'
    BY <2>4 DEF Kept
  <2>6. mtu * k <= mtu * (k + 1)
    BY <1>1, <1>4, ChunkType, RegAssumption
  <2>7. mtu * k \in Nat /\ mtu * (k + 1) \in Nat
    BY <1>1, <1>4, ChunkType, RegAssumption
  <2>8. Kept(k)'
    BY <2>4, <2>6, <2>7 DEF Kept
  <2> QED  BY <2>5, <2>8
<1>7. QED  BY <1>1, <1>3, <1>5, <1>6, CopyServed

CopyInv == CopyKept /\ CopyIsWhole

LEMMA CopyInit == Init => CopyInv
<1> SUFFICES ASSUME Init PROVE CopyInv
  OBVIOUS
<1>1. call.op # "memcpy" /\ pc = "next"
  BY DEF Init
<1> QED  BY <1>1 DEF CopyInv, CopyKept, CopyIsWhole

LEMMA SameCopy ==
  ASSUME CopyInv, UNCHANGED <<call, k, ok, last, machine, value>>,
         \/ UNCHANGED <<pc, served>>
         \/ UNCHANGED served /\ pc = "ack" /\ pc' = "reply"
         \/ pc = "next" /\ pc' = "ack" /\ served' = FALSE
  PROVE  CopyInv'
<1>1. Active' = Active /\ Done' = Done /\ (pc' = "idle" => pc = "idle")
  BY DEF Active, Done
<1>2. CopyKept'
  BY <1>1, SameKept DEF CopyInv, CopyKept
<1>3. CopyIsWhole'
  BY <1>1 DEF CopyInv, CopyIsWhole
<1> QED  BY <1>2, <1>3 DEF CopyInv

LEMMA CopyStep == Exchange /\ Data /\ CopyInv /\ [Next]_vars => CopyInv'
<1> SUFFICES ASSUME Exchange, Data, CopyInv, [Next]_vars PROVE CopyInv'
  OBVIOUS
<1>1. CASE Call
  <2>1. pc' = "next" /\ k' = 0 /\ ~Done'
    BY <1>1 DEF Call, Done
  <2>2. call' \in Going
    BY <1>1 DEF Call, Going
  <2>3. Kept(0)'
    <3>1. \A j \in 1 .. Len(call'.src) : ~(j <= mtu * 0)
      BY RegAssumption
    <3> QED  BY <3>1 DEF Kept
  <2> QED  BY <2>1, <2>3 DEF CopyInv, CopyKept, CopyIsWhole
<1>2. CASE Send
  BY <1>2, SameCopy DEF Send
<1>3. CASE Acked
  BY <1>3, SameCopy DEF Acked
<1>4. CASE Receive
  <2>1. Done /\ UNCHANGED <<call, last, machine, served, value>>
    BY <1>4, ReceiveStep DEF Coming, Done, Receive
  <2>2. Take(last) \/ UNCHANGED <<pc, k, ok, qemu_r>>
    BY <1>4, ReceiveStep
  <2>3. CASE Take(last)
    <3>1. k' = k + 1 /\ pc' = "next" /\ ~Done'
      BY <2>3 DEF Take, Done
    <3>2. /\ call \in Going /\ k \in Nat /\ k < Requests(call) /\ qemu_r \in Regs
      BY <2>1 DEF Data, Calling, Done, Active
    <3>3. ASSUME call.op = "memcpy", ok' PROVE Kept(k + 1)
      <4>1. Request(call, k).op = "M"
        BY <3>2, <3>3, RequestKinds DEF Copies
      <4>2. ok' = Okay(last)
        BY <2>3, <4>1 DEF Take
      <4>3. ok /\ last = OK
        BY <3>3, <4>2 DEF Okay
      <4> QED  BY <2>1, <3>3, <4>3 DEF CopyInv, CopyKept, Done, Active
    <3>4. CopyKept'
      BY <2>1, <3>1, <3>3, SameKept DEF CopyKept
    <3> QED  BY <3>1, <3>4 DEF CopyInv, CopyIsWhole
  <2>4. CASE UNCHANGED <<pc, k, ok, qemu_r>>
    BY <2>1, <2>4, SameCopy
  <2> QED  BY <2>2, <2>3, <2>4
<1>5. CASE Return
  <2>1. /\ pc = "next" /\ machine' = machine /\ ~Active' /\ Active
        /\ k = Requests(call) \/ Failed
        /\ pc' = "idle" => ~Failed /\ value' = Returned(call, qemu_r)
    BY <1>5 DEF Return, Active
  <2>2. CopyKept'
    BY <2>1 DEF CopyKept
  <2>3. call \in Going
    BY <2>1 DEF Data, Calling
  <2>4. ASSUME pc' = "idle", value'.of.op = "memcpy"
        PROVE  \A i \in DOMAIN value'.of.src : machine'.mem[value'.of.dest + i - 1] = value'.of.src[i]
    <3>1. value'.of = call
      BY <2>1, <2>4 DEF Returned
    <3>2. /\ call.src \in Seq(Byte) /\ Len(call.src) \in Nat
          /\ k = Requests(call) /\ Requests(call) = Chunks(Len(call.src))
      BY <2>1, <2>3, <2>4, <3>1, CallShapes
    <3>3. ok
      <4>1. Requests(call) \in Nat
        BY <2>3, RequestsType
      <4> QED  BY <2>1, <2>4, <3>1, <3>2, <4>1 DEF Failed
    <3>4. Kept(k)
      BY <2>1, <2>4, <3>1, <3>3 DEF CopyInv, CopyKept
    <3>5. mtu * k \in Nat /\ mtu * k >= Len(call.src)
      BY <3>2, ChunksType
    <3>6. \A j \in 1 .. Len(call.src) : machine.mem[call.dest + j - 1] = call.src[j]
      BY <3>2, <3>4, <3>5 DEF Kept
    <3> QED  BY <2>1, <3>1, <3>2, <3>6
  <2> QED  BY <2>2, <2>4 DEF CopyInv, CopyIsWhole
<1>6. CASE Stub
  <2>1. UNCHANGED <<pc, call, k, ok, qemu_r, value>> /\ (StubIdle \/ (StubServes /\ pc = "ack"))
    BY <1>6, StubStep DEF Asked
  <2>2. CASE StubIdle
    BY <2>1, <2>2, SameCopy DEF StubIdle
  <2>3. CASE StubServes /\ pc = "ack"
    <3>1. CopyKept'
      BY <2>1, <2>3, ServeKept DEF CopyInv
    <3> QED  BY <2>1, <2>3, <3>1 DEF CopyInv, CopyIsWhole
  <2> QED  BY <2>1, <2>2, <2>3
<1>7. CASE Damage
  BY <1>7, DamageStep, SameCopy
<1>8. CASE UNCHANGED vars
  BY <1>8, SameCopy DEF vars
<1> QED  BY <1>1, <1>2, <1>3, <1>4, <1>5, <1>6, <1>7, <1>8 DEF Next, Client

\* A copy that returned is in the reference's memory whole, however long it is and
\* however it divides into requests of mtu bytes.
THEOREM CopiesWhole == Spec => []CopyIsWhole
<1>1. CopyInv => CopyIsWhole
  BY DEF CopyInv
<1>2. Spec => []CopyInv
  BY CopyInit, CopyStep, ExchangeCorrect, DataCorrect, PTL DEF Spec
<1> QED  BY <1>1, <1>2, PTL

-----------------------------------------------------------------------------
(* The characters of a packet: GdbFrame                                    *)

\* What may be waiting for fgetc, and the buffer: it is never smaller than a new one,
\* and a new one has room for the longest run.
Room ==
  /\ ungot \in Seq(Int)
  /\ sum \in 0 .. 255
  /\ reply \in Seq(Int)
  /\ size \in Nat /\ size >= Size
  /\ Len(reply) <= size
  /\ recv = "done" => Len(reply) < size

USE DEF EOF

LEMMA InputIsChar ==
  ASSUME Room, NEW c \in Input
  PROVE  c \in Int
<1>1. CASE ungot # <<>>
  <2>1. ungot \in Seq(Int)
    BY DEF Room
  <2>2. 1 \in 1 .. Len(ungot)
    BY <1>1, <2>1
  <2>3. ungot[1] \in Int
    BY <2>1, <2>2
  <2> QED  BY <1>1, <2>3 DEF Input
<1>2. CASE ungot = <<>>
  <2>0. sum \in 0 .. 255
    BY DEF Room
  <2>1. sum \div 16 \in 0 .. 15 /\ sum % 16 \in 0 .. 15
    BY <2>0
  <2>2. RightDigits \subseteq 0 .. 255
    BY <2>1 DEF RightDigits, hex_encode
  <2>3. Chars \subseteq 0 .. 255 /\ Digits \subseteq 0 .. 255
    BY CharsAssumption
  <2>4. Input \subseteq {-1} \cup Digits \cup RightDigits \cup Chars
    BY <1>2 DEF Input
  <2>5. c \in {-1} \cup Digits \cup RightDigits \cup Chars
    BY <2>4
  <2> QED  BY <2>2, <2>3, <2>5
<1> QED  BY <1>1, <1>2

\* Whatever is read, what waits for the next fgetc is a character or the end.
LEMMA FgetcStep ==
  ASSUME Room, NEW c \in Input, fgetc(c)
  PROVE  ungot' \in Seq(Int)
  BY DEF fgetc

LEMMA PlusIsByte ==
  ASSUME Room, NEW c \in Input
  PROVE  Plus(c) \in 0 .. 255
<1>1. c \in Int
  BY InputIsChar
<1> QED  BY <1>1 DEF Plus, Room

\* One character more: the buffer is doubled when it is full.
LEMMA StoreStep ==
  ASSUME Room, NEW c \in Int, Store(c)
  PROVE  /\ reply' \in Seq(Int)
         /\ size' \in Nat /\ size' >= Size
         /\ Len(reply') <= size'
<1>1. Flipped(c) \in Int
  BY DEF Flipped
<1>2. PICK d \in Int : reply' = Append(reply, d)
  BY <1>1 DEF Store
<1>3. reply' \in Seq(Int) /\ Len(reply') = Len(reply) + 1
  BY <1>2 DEF Room
<1>4. size' = IF Len(reply) = size THEN 2 * size ELSE size
  BY DEF Store
<1>5. Len(reply) \in Nat /\ Size \in Nat /\ Size >= 97
  BY BufferAssumption DEF Room
<1> QED  BY <1>3, <1>4, <1>5 DEF Room

\* A run is no longer than a new buffer, so that one doubling makes room for it.
LEMMA RunStep ==
  ASSUME Room, NEW n \in 0 .. 97,
         reply' = reply \o [i \in 1 .. n |-> Last(reply)],
         \A i \in 1 .. n : Last(reply) \in Int,
         size' = RoomFor(n)
  PROVE  /\ reply' \in Seq(Int)
         /\ size' \in Nat /\ size' >= Size
         /\ Len(reply') <= size'
<1> DEFINE run == [i \in 1 .. n |-> Last(reply)]
<1>1. run \in Seq(Int) /\ Len(run) = n
  OBVIOUS
<1>2. reply' = reply \o run
  OBVIOUS
<1> HIDE DEF run
<1>3. reply' \in Seq(Int) /\ Len(reply') = Len(reply) + n
  BY <1>1, <1>2 DEF Room
<1>4. Len(reply) \in Nat /\ Size \in Nat /\ Size >= 97
  BY BufferAssumption DEF Room
<1> QED  BY <1>3, <1>4 DEF Room, RoomFor

\* A '*' opens a run only behind a character.
Behind == recv = "count" => reply # <<>>

Framed == Room /\ Behind

LEMMA FrameInit == RecvInit => Framed
  BY BufferAssumption DEF RecvInit, Fresh, Framed, Room, Behind

LEMMA FrameStep == Framed /\ [RecvNext]_recv_vars => Framed'
<1> SUFFICES ASSUME Framed, [RecvNext]_recv_vars PROVE Framed'
  OBVIOUS
<1>0. Room /\ Behind
  BY DEF Framed
<1>1. CASE Seek
  <2>1. PICK c \in Input : fgetc(c) /\ recv' # "done" /\ recv' # "count"
    BY <1>1 DEF Seek
  <2>2. ungot' \in Seq(Int)
    BY <1>0, <2>1, FgetcStep
  <2> QED  BY <1>0, <1>1, <2>1, <2>2 DEF Seek, Framed, Room, Behind
<1>2. CASE Body
  <2>1. PICK c \in Input :
          /\ fgetc(c)
          /\ \/ c = EOF /\ recv' = "closed" /\ UNCHANGED <<reply, size, sum, escape, body>>
             \/ c = Dollar /\ Restart
             \/ c = Hash /\ recv' = "msb" /\ UNCHANGED <<reply, size, sum, escape, body>>
             \/ /\ c \notin {EOF, Dollar, Hash}
                /\ sum' = Plus(c) /\ body' = Append(body, c)
                /\ \/ c = Brace /\ escape' = TRUE /\ UNCHANGED <<reply, size, recv>>
                   \/ c = Star /\ reply # <<>> /\ recv' = "count" /\ UNCHANGED <<reply, size, escape>>
                   \/ c # Brace /\ (c = Star => reply = <<>>) /\ Store(c) /\ UNCHANGED recv
    BY <1>2 DEF Body
  <2>2. ungot' \in Seq(Int) /\ Plus(c) \in 0 .. 255 /\ c \in Int /\ recv = "body"
    BY <1>0, <1>2, <2>1, FgetcStep, PlusIsByte, InputIsChar DEF Body
  <2>3. CASE c = EOF /\ recv' = "closed" /\ UNCHANGED <<reply, size, sum, escape, body>>
    BY <1>0, <2>2, <2>3 DEF Framed, Room, Behind
  <2>4. CASE c = Dollar /\ Restart
    BY BufferAssumption, <1>0, <2>2, <2>4 DEF Restart, Framed, Room, Behind
  <2>5. CASE c = Hash /\ recv' = "msb" /\ UNCHANGED <<reply, size, sum, escape, body>>
    BY <1>0, <2>2, <2>5 DEF Framed, Room, Behind
  <2>6. CASE sum' = Plus(c) /\ c = Brace /\ UNCHANGED <<reply, size, recv>>
    BY <1>0, <2>2, <2>6 DEF Framed, Room, Behind
  <2>7. CASE sum' = Plus(c) /\ reply # <<>> /\ recv' = "count" /\ UNCHANGED <<reply, size>>
    BY <1>0, <2>2, <2>7 DEF Framed, Room, Behind
  <2>8. CASE sum' = Plus(c) /\ Store(c) /\ UNCHANGED recv
    BY <1>0, <2>2, <2>8, StoreStep DEF Framed, Room, Behind
  <2> QED  BY <2>1, <2>3, <2>4, <2>5, <2>6, <2>7, <2>8
<1>3. CASE Count
  <2>1. PICK c2 \in Input :
          IF c2 < 29 \/ c2 > 126 \/ c2 \in {Dollar, Hash}
          THEN /\ ungot' = <<c2>> /\ Store(Star) /\ UNCHANGED <<sum, body>>
          ELSE /\ fgetc(c2)
               /\ reply' = reply \o [i \in 1 .. c2 - 29 |-> Last(reply)]
               /\ size' = RoomFor(c2 - 29)
               /\ sum' = Plus(c2) /\ body' = Append(body, c2)
               /\ UNCHANGED escape
    BY <1>3 DEF Count
  <2>2. c2 \in Int /\ Plus(c2) \in 0 .. 255 /\ recv = "count" /\ recv' = "body"
    BY <1>0, <1>3, PlusIsByte, InputIsChar DEF Count
  <2>3. CASE c2 < 29 \/ c2 > 126 \/ c2 \in {Dollar, Hash}
    <3>1. ungot' = <<c2>> /\ Store(Star) /\ UNCHANGED sum
      BY <2>1, <2>3
    <3>2. ungot' \in Seq(Int)
      BY <2>2, <3>1
    <3> QED  BY <1>0, <2>2, <3>1, <3>2, StoreStep DEF Star, Framed, Room, Behind
  <2>4. CASE ~(c2 < 29 \/ c2 > 126 \/ c2 \in {Dollar, Hash})
    <3>1. fgetc(c2) /\ sum' = Plus(c2) /\ size' = RoomFor(c2 - 29)
          /\ reply' = reply \o [i \in 1 .. c2 - 29 |-> Last(reply)]
      BY <2>1, <2>4
    <3>2. ungot' \in Seq(Int) /\ c2 - 29 \in 0 .. 97
      BY <1>0, <2>2, <2>4, <3>1, FgetcStep
    <3>3. Last(reply) \in Int
      BY <1>0, <2>2 DEF Last, Room, Behind
    <3>4. reply' \in Seq(Int) /\ size' \in Nat /\ size' >= Size /\ Len(reply') <= size'
      BY <1>0, <3>1, <3>2, <3>3, RunStep
    <3> QED  BY <2>2, <3>1, <3>2, <3>4 DEF Framed, Room, Behind
  <2> QED  BY <2>3, <2>4
<1>4. CASE Msb
  <2>1. PICK c \in Input : fgetc(c)
    BY <1>4 DEF Msb
  <2>2. ungot' \in Seq(Int)
    BY <1>0, <2>1, FgetcStep
  <2> QED  BY <1>0, <1>4, <2>2 DEF Msb, Framed, Room, Behind
<1>5. CASE Lsb
  <2>1. PICK c \in Input : fgetc(c)
    BY <1>5 DEF Lsb
  <2>2. ungot' \in Seq(Int)
    BY <1>0, <2>1, FgetcStep
  <2>3. Len(reply) \in Nat /\ size' = IF Len(reply) = size THEN size + 1 ELSE size
    BY <1>0, <1>5 DEF Lsb, Room
  <2>4. recv' = "done" /\ UNCHANGED <<reply, sum>> /\ size \in Nat /\ Size \in Nat /\ size >= Size
    BY BufferAssumption, <1>0, <1>5 DEF Lsb, Room
  <2>5. Len(reply) <= size /\ sum \in 0 .. 255 /\ reply \in Seq(Int)
    BY <1>0 DEF Room
  <2> QED  BY <2>2, <2>3, <2>4, <2>5 DEF Framed, Room, Behind
<1>6. CASE Again
  BY BufferAssumption, <1>0, <1>6 DEF Again, Fresh, Framed, Room, Behind
<1>7. CASE UNCHANGED recv_vars
  BY <1>0, <1>7 DEF recv_vars, Framed, Room, Behind
<1> QED  BY <1>1, <1>2, <1>3, <1>4, <1>5, <1>6, <1>7 DEF RecvNext

\* For every size of a new buffer from 97 on, every peer and packets of any length,
\* recv_packet writes inside its buffer and finds room for the terminator.
THEOREM InBufferCorrect == RecvSpec => []InBuffer
<1>1. Framed => InBuffer
  BY DEF Framed, Room, InBuffer
<1>2. RecvInit => Framed
  BY FrameInit
<1>3. Framed /\ [RecvNext]_recv_vars => Framed'
  BY FrameStep
<1> QED  BY <1>1, <1>2, <1>3, PTL DEF RecvSpec

\* A sum of one character more.
LEMMA TotalSteps ==
  ASSUME NEW s \in Seq(Int)
  PROVE  \E t : /\ Total(s) = t[Len(s)] /\ t[0] = 0
                /\ \A i \in 1 .. Len(s) : t[i] = t[i - 1] + s[i]
                /\ \A i \in 0 .. Len(s) : t[i] \in Int
<1> DEFINE n == Len(s)
           Sums(f) == [i \in 0 .. n |-> IF i = 0 THEN 0 ELSE f[i - 1] + s[i]]
           step == [i \in 1 .. n |-> [v \in Int |-> v + s[i]]]
<1>1. n \in Nat /\ step \in [1 .. n -> [Int -> Int]] /\ 0 \in Int
  OBVIOUS
<1>2. \A i \in 1 .. n : \A v \in Int : step[i][v] = v + s[i]
  OBVIOUS
<1>3. Total(s) = (CHOOSE f : f = Sums(f))[n]
  BY DEF Total
<1> HIDE DEF n, step
<1>4. PICK f : Solves(f, n, Int, 0, step)
  BY <1>1, Recursion DEF Recurs
<1>5. f = Sums(f)
  <2>1. \A i \in 0 .. n : i # 0 => i \in 1 .. n /\ i - 1 \in 0 .. n
    BY <1>1
  <2>2. \A i \in 0 .. n : f[i] = IF i = 0 THEN 0 ELSE f[i - 1] + s[i]
    BY <1>2, <1>4, <2>1 DEF Solves
  <2>3. f = [i \in 0 .. n |-> f[i]]
    BY <1>4 DEF Solves
  <2> QED  BY <2>2, <2>3
<1> DEFINE t == CHOOSE g : g = Sums(g)
<1>6. t = Sums(t)
  BY <1>5
<1> HIDE DEF t
<1>7. t[0] = 0 /\ \A i \in 1 .. n : t[i] = t[i - 1] + s[i]
  <2>1. \A i \in 1 .. n : i \in 0 .. n /\ i # 0
    BY <1>1
  <2>2. \A i \in 0 .. n : t[i] = IF i = 0 THEN 0 ELSE t[i - 1] + s[i]
    BY <1>6
  <2> QED  BY <1>1, <2>1, <2>2
<1>8. \A i \in 0 .. n : t[i] \in Int
  <2> DEFINE P == {i \in 0 .. n : t[i] \in Int}
  <2>1. 0 \in P
    BY <1>1, <1>7
  <2>2. ASSUME NEW i \in 1 .. n, i - 1 \in P PROVE i \in P
    <3>1. s[i] \in Int
      BY DEF n
    <3>2. t[i] = t[i - 1] + s[i] /\ t[i - 1] \in Int
      BY <1>7, <2>2
    <3>3. t[i] \in Int
      BY <3>1, <3>2
    <3> QED  BY <1>1, <3>3
  <2>3. \A i \in 0 .. n : i \in P
    <3> HIDE DEF P
    <3> QED  BY <1>1, <2>1, <2>2, Induction
  <2> QED  BY <2>3
<1> QED  BY <1>3, <1>7, <1>8 DEF n, t

LEMMA EmptyTotal == Total(<<>>) = 0 /\ <<>> \in Seq(Int)
<1>1. PICK e \in Seq(Int) : e = <<>> /\ Len(e) = 0
  <2>1. <<>> \in Seq(Int) /\ Len(<<>>) = 0
    OBVIOUS
  <2> QED  BY <2>1
<1>2. PICK v : Total(e) = v[Len(e)] /\ v[0] = 0
  BY TotalSteps
<1> QED  BY <1>1, <1>2

LEMMA TotalMore ==
  ASSUME NEW s \in Seq(Int), NEW c \in Int
  PROVE  Total(s) \in Int /\ Total(Append(s, c)) = Total(s) + c
<1> DEFINE n == Len(s)
           more == Append(s, c)
<1>1. n \in Nat /\ more \in Seq(Int) /\ Len(more) = n + 1 /\ more[n + 1] = c
      /\ \A i \in 1 .. n : more[i] = s[i]
  OBVIOUS
<1>2. PICK t : /\ Total(s) = t[n] /\ t[0] = 0
               /\ \A i \in 1 .. n : t[i] = t[i - 1] + s[i]
               /\ \A i \in 0 .. n : t[i] \in Int
  BY TotalSteps
<1> HIDE DEF more
<1>3. PICK u : /\ Total(more) = u[n + 1] /\ u[0] = 0
               /\ \A i \in 1 .. n + 1 : u[i] = u[i - 1] + more[i]
  BY <1>1, TotalSteps
<1> HIDE DEF n
<1> DEFINE P == {i \in 0 .. n : t[i] = u[i]}
<1>4. 0 \in P
  BY <1>1, <1>2, <1>3
<1>5. ASSUME NEW i \in 1 .. n, i - 1 \in P PROVE i \in P
  <2>1. t[i - 1] = u[i - 1] /\ t[i] = t[i - 1] + s[i] /\ more[i] = s[i]
    BY <1>1, <1>2, <1>5
  <2>2. i \in 1 .. n + 1
    BY <1>1
  <2>3. u[i] = u[i - 1] + more[i]
    BY <1>3, <2>2
  <2> QED  BY <1>1, <2>1, <2>3
<1>6. u[n] = t[n]
  <2> HIDE DEF P
  <2>1. \A i \in 0 .. n : i \in P
    BY <1>1, <1>4, <1>5, Induction
  <2> QED  BY <1>1, <2>1 DEF P
<1>7. u[n + 1] = u[n] + c
  <2>1. n + 1 \in 1 .. n + 1 /\ (n + 1) - 1 = n
    BY <1>1
  <2>2. u[n + 1] = u[(n + 1) - 1] + more[n + 1]
    BY <1>3, <2>1
  <2> QED  BY <1>1, <2>1, <2>2
<1>8. Total(s) \in Int
  BY <1>1, <1>2
<1> QED  BY <1>2, <1>3, <1>6, <1>7, <1>8 DEF more

\* The checksum so far is that of the characters so far, and the verdict compares it with
\* the number of the two digits.
Tallied == body \in Seq(Int) /\ sum = Total(body) % 256
Judged ==
  /\ recv = "lsb" => \E a \in 0 .. 255 : digits = <<a>>
  /\ recv = "done" => \E a, b \in 0 .. 255 :
       digits = <<a, b>> /\ sum_ok = (sum = gdb_decode_hex(a, b))

\* One character more in the sum.
LEMMA TallyStep ==
  ASSUME Tallied, NEW c \in Int, sum' = Plus(c), body' = Append(body, c)
  PROVE  Tallied'
<1>1. PICK t \in Int : t = Total(body) /\ Total(body') = t + c /\ body' \in Seq(Int)
  BY TotalMore DEF Tallied
<1>2. ((t % 256) + c) % 256 = (t + c) % 256
  OBVIOUS
<1> QED  BY <1>1, <1>2 DEF Tallied, Plus

LEMMA SameTally == UNCHANGED <<sum, body>> /\ Tallied => Tallied'
  BY DEF Tallied

LEMMA NewTally == sum' = 0 /\ body' = <<>> => Tallied'
  BY EmptyTotal DEF Tallied

\* While no digit is read there is nothing to judge.
LEMMA NoJudge == recv' \notin {"lsb", "done"} => Judged'
  BY DEF Judged

LEMMA SumsStep == Framed /\ Tallied /\ Judged /\ [RecvNext]_recv_vars => Tallied' /\ Judged'
<1> SUFFICES ASSUME Framed, Tallied, Judged, [RecvNext]_recv_vars
             PROVE  Tallied' /\ Judged'
  OBVIOUS
<1>0. Room
  BY DEF Framed
<1>1. CASE Seek
  <2>1. UNCHANGED <<sum, body>> /\ recv' \in {"closed", "body", "seek"}
    BY <1>1 DEF Seek
  <2> QED  BY <2>1, SameTally, NoJudge
<1>2. CASE Body
  <2>1. PICK c \in Input :
          \/ c = EOF /\ recv' = "closed" /\ UNCHANGED <<reply, size, sum, escape, body>>
          \/ c = Dollar /\ Restart
          \/ c = Hash /\ recv' = "msb" /\ UNCHANGED <<reply, size, sum, escape, body>>
          \/ /\ c \notin {EOF, Dollar, Hash}
             /\ sum' = Plus(c) /\ body' = Append(body, c)
             /\ \/ c = Brace /\ escape' = TRUE /\ UNCHANGED <<reply, size, recv>>
                \/ c = Star /\ reply # <<>> /\ recv' = "count" /\ UNCHANGED <<reply, size, escape>>
                \/ c # Brace /\ (c = Star => reply = <<>>) /\ Store(c) /\ UNCHANGED recv
    BY <1>2 DEF Body
  <2>2. c \in Int /\ recv = "body"
    BY <1>0, <1>2, InputIsChar DEF Body
  <2>3. recv' \in {"body", "closed", "msb", "count"}
    BY <2>1, <2>2 DEF Restart
  <2>4. UNCHANGED <<sum, body>> \/ (sum' = 0 /\ body' = <<>>) \/ (sum' = Plus(c) /\ body' = Append(body, c))
    BY <2>1 DEF Restart
  <2> QED  BY <2>2, <2>3, <2>4, SameTally, NewTally, TallyStep, NoJudge
<1>3. CASE Count
  <2>1. PICK c2 \in Input :
          UNCHANGED <<sum, body>> \/ (sum' = Plus(c2) /\ body' = Append(body, c2))
    BY <1>3 DEF Count
  <2>2. c2 \in Int /\ recv' = "body"
    BY <1>0, <1>3, InputIsChar DEF Count
  <2> QED  BY <2>1, <2>2, SameTally, TallyStep, NoJudge
<1>4. CASE Msb
  <2>1. PICK c \in Input : digits' = <<c % 256>>
    BY <1>4 DEF Msb
  <2>2. recv' = "lsb" /\ UNCHANGED <<sum, body>>
    BY <1>4 DEF Msb
  <2>3. PICK a \in 0 .. 255 : a = c % 256
    BY <1>0, InputIsChar
  <2>4. Judged'
    BY <2>1, <2>2, <2>3 DEF Judged
  <2> QED  BY <2>2, <2>4, SameTally
<1>5. CASE Lsb
  <2>1. PICK c \in Input : digits' = Append(digits, c % 256)
    BY <1>5 DEF Lsb
  <2>2. /\ recv = "lsb" /\ recv' = "done" /\ UNCHANGED <<sum, body>>
        /\ sum_ok' = (sum = gdb_decode_hex(digits'[1], digits'[2]))
    BY <1>5 DEF Lsb
  <2>3. PICK b \in 0 .. 255 : b = c % 256
    BY <1>0, InputIsChar
  <2>4. PICK a \in 0 .. 255 : digits = <<a>>
    BY <2>2 DEF Judged
  <2>5. digits' = <<a, b>>
    <3>1. digits' = Append(<<a>>, b)
      BY <2>1, <2>3, <2>4
    <3> QED  BY <3>1, Line
  <2>6. digits'[1] = a /\ digits'[2] = b
    BY <2>5
  <2>7. sum_ok' = (sum' = gdb_decode_hex(a, b))
    BY <2>2, <2>6, Zenon
  <2>8. Judged'
    BY <2>2, <2>5, <2>7 DEF Judged
  <2> QED  BY <2>2, <2>8, SameTally
<1>6. CASE Again
  <2>1. sum' = 0 /\ body' = <<>> /\ recv' = "seek"
    BY <1>6 DEF Again, Fresh
  <2> QED  BY <2>1, NewTally, NoJudge
<1>7. CASE UNCHANGED recv_vars
  <2>1. UNCHANGED <<sum, body, recv, digits, sum_ok>>
    BY <1>7 DEF recv_vars
  <2> QED  BY <2>1, SameTally DEF Judged
<1> QED  BY <1>1, <1>2, <1>3, <1>4, <1>5, <1>6, <1>7 DEF RecvNext

\* Two characters are the digits of a byte if each is the digit of its half.
LEMMA TwoDigits ==
  ASSUME NEW v \in 0 .. 255, NEW a \in 0 .. 255, NEW b \in 0 .. 255
  PROVE  v = gdb_decode_hex(a, b) <=>
           /\ {a, b} \subseteq HexDigits
           /\ hex_nibble(a) = v \div 16
           /\ hex_nibble(b) = v % 16
<1>1. CASE {a, b} \subseteq HexDigits
  <2>1. hex_nibble(a) \in 0 .. 15 /\ hex_nibble(b) \in 0 .. 15
    BY <1>1 DEF HexDigits, hex_nibble, DecimalDigits, UpperDigits, LowerDigits
  <2>2. PICK h \in 0 .. 15, l \in 0 .. 15 : h = hex_nibble(a) /\ l = hex_nibble(b)
    BY <2>1
  <2>3. gdb_decode_hex(a, b) = 16 * h + l
    BY <1>1, <2>2 DEF gdb_decode_hex
  <2>4. v = 16 * h + l <=> h = v \div 16 /\ l = v % 16
    OBVIOUS
  <2> QED  BY <1>1, <2>2, <2>3, <2>4
<1>2. CASE ~({a, b} \subseteq HexDigits)
  <2>1. gdb_decode_hex(a, b) = 65535
    BY <1>2 DEF gdb_decode_hex
  <2> QED  BY <1>2, <2>1
<1> QED  BY <1>1, <1>2

\* A packet of any length is accepted if and only if its digits are the sum of all its
\* characters, whatever came before its last '$'.
THEOREM SumGuardsCorrect == RecvSpec => []SumGuards
<1>1. Framed /\ Tallied /\ Judged => SumGuards
  <2> SUFFICES ASSUME Framed, Tallied, Judged, recv = "done" PROVE SumGuards
    BY DEF SumGuards
  <2>1. PICK a \in 0 .. 255, b \in 0 .. 255 :
          digits = <<a, b>> /\ sum_ok = (sum = gdb_decode_hex(a, b))
    BY DEF Judged
  <2>2. sum \in 0 .. 255 /\ sum = Total(body) % 256
    BY DEF Framed, Room, Tallied
  <2>3. digits[1] = a /\ digits[2] = b
    BY <2>1
  <2>4. sum_ok <=> sum = gdb_decode_hex(a, b)
    BY <2>1, Zenon
  <2>5. PICK v \in 0 .. 255 : v = sum /\ v = Total(body) % 256
    BY <2>2
  <2>6. v = gdb_decode_hex(a, b) <=>
          /\ {a, b} \subseteq HexDigits
          /\ hex_nibble(a) = v \div 16
          /\ hex_nibble(b) = v % 16
    BY TwoDigits, ZenonT(60)
  <2>7. sum_ok <=> /\ {digits[1], digits[2]} \subseteq HexDigits
                   /\ hex_nibble(digits[1]) = v \div 16
                   /\ hex_nibble(digits[2]) = v % 16
    BY <2>3, <2>4, <2>5, <2>6, Zenon
  <2> QED  BY <2>5, <2>7, Zenon DEF SumGuards
<1>2. RecvInit => Framed /\ Tallied /\ Judged
  <2> SUFFICES ASSUME RecvInit PROVE Framed /\ Tallied /\ Judged
    OBVIOUS
  <2>1. Framed
    BY FrameInit
  <2>2. sum = 0 /\ body = <<>> /\ recv = "seek"
    BY DEF RecvInit, Fresh
  <2>3. Total(<<>>) = 0 /\ <<>> \in Seq(Int)
    BY EmptyTotal
  <2> QED  BY <2>1, <2>2, <2>3 DEF Tallied, Judged
<1>3. Framed /\ [RecvNext]_recv_vars => Framed'
  BY FrameStep
<1>4. Framed /\ Tallied /\ Judged /\ [RecvNext]_recv_vars => Tallied' /\ Judged'
  BY SumsStep
<1> QED  BY <1>1, <1>2, <1>3, <1>4, PTL DEF RecvSpec

-----------------------------------------------------------------------------
(* What a peer that follows the protocol writes                            *)

\* Pieces put behind one another, one piece more.
Pieces == Seq(Seq(Int))

LEMMA FlattenSteps ==
  ASSUME NEW q \in Pieces, q # <<>>
  PROVE  \E t : /\ FlattenSeq(q) = t[Len(q)] /\ t[1] = q[1]
                /\ \A i \in 2 .. Len(q) : t[i] = t[i - 1] \o q[i]
                /\ \A i \in 1 .. Len(q) : t[i] \in Seq(Int)
<1> DEFINE n == Len(q)
           S == Seq(Int)
           Flat(f) == [i \in 1 .. n |-> IF i = 1 THEN q[i] ELSE f[i - 1] \o q[i]]
           step == [i \in 1 .. n - 1 |-> [v \in S |-> v \o q[i + 1]]]
<1>1. n \in Nat /\ n >= 1
  BY DEF Pieces
<1>2. \A i \in 1 .. n : q[i] \in S
  BY DEF Pieces
<1>3. step \in [1 .. n - 1 -> [S -> S]]
  <2>1. ASSUME NEW i \in 1 .. n - 1, NEW v \in S PROVE v \o q[i + 1] \in S
    <3>1. i + 1 \in 1 .. n
      BY <1>1
    <3>2. q[i + 1] \in S
      BY <1>2, <3>1
    <3> QED  BY <3>2
  <2> QED  BY <2>1
<1>4. \A i \in 1 .. n - 1 : \A v \in S : step[i][v] = v \o q[i + 1]
  OBVIOUS
<1>5. FlattenSeq(q) = (CHOOSE f : f = Flat(f))[n]
  <2>1. Len(q) # 0
    BY <1>1
  <2> QED  BY <2>1, Zenon DEF FlattenSeq
<1>6. q[1] \in S /\ n - 1 \in Nat
  BY <1>1, <1>2
<1> HIDE DEF n, step, S
<1>7. PICK g : Solves(g, n - 1, S, q[1], step)
  <2>1. Recurs(n - 1, S, q[1], step)
    BY <1>3, <1>6 DEF Recurs
  <2> QED  BY <2>1, Recursion
<1>8. \E f : f = Flat(f)
  <2> DEFINE f == [i \in 1 .. n |-> g[i - 1]]
  <2>1. \A i \in 1 .. n : i # 1 => i - 1 \in 1 .. n - 1 /\ i - 1 \in 1 .. n /\ (i - 1) - 1 \in 0 .. n - 1
                                   /\ (i - 1) + 1 = i
    BY <1>1
  <2>2. ASSUME NEW i \in 1 .. n PROVE f[i] = IF i = 1 THEN q[i] ELSE f[i - 1] \o q[i]
    <3>1. CASE i = 1
      <4>1. g[1 - 1] = q[1]
        BY <1>7 DEF Solves
      <4> QED  BY <3>1, <4>1
    <3>2. CASE i # 1
      <4> DEFINE j == i - 1
      <4>1. j \in 1 .. n - 1 /\ j \in 1 .. n /\ j - 1 \in 0 .. n - 1 /\ j + 1 = i
        BY <2>1, <3>2
      <4>2. g[j] = step[j][g[j - 1]] /\ g[j - 1] \in S
        BY <1>7, <4>1 DEF Solves
      <4>3. step[j][g[j - 1]] = g[j - 1] \o q[j + 1]
        BY <1>4, <4>1, <4>2
      <4>4. f[i] = g[j] /\ f[j] = g[j - 1]
        BY <4>1
      <4>5. f[i] = f[j] \o q[i]
        BY <4>1, <4>2, <4>3, <4>4, Zenon
      <4> QED  BY <3>2, <4>5, Zenon
    <3> QED  BY <3>1, <3>2
  <2>3. f = [i \in 1 .. n |-> f[i]]
    OBVIOUS
  <2>4. f = Flat(f)
    <3> HIDE DEF f
    <3> QED  BY <2>2, <2>3, Zenon
  <2> QED  BY <2>4, Zenon
<1> DEFINE t == CHOOSE f : f = Flat(f)
<1>9. t = Flat(t)
  BY <1>8, Zenon
<1> HIDE DEF t
<1>10. t[1] = q[1] /\ \A i \in 2 .. n : t[i] = t[i - 1] \o q[i]
  <2>1. \A i \in 1 .. n : t[i] = IF i = 1 THEN q[i] ELSE t[i - 1] \o q[i]
    BY <1>9, Zenon
  <2>2. 1 \in 1 .. n /\ \A i \in 2 .. n : i \in 1 .. n /\ i # 1
    BY <1>1 DEF n
  <2> QED  BY <2>1, <2>2, Zenon
<1>11. \A i \in 1 .. n : t[i] \in S
  <2> DEFINE P == {i \in 0 .. n : i = 0 \/ t[i] \in S}
  <2>1. 0 \in P
    BY <1>1 DEF n
  <2>2. ASSUME NEW i \in 1 .. n, i - 1 \in P PROVE i \in P
    <3>1. CASE i = 1
      BY <1>6, <1>10, <3>1
    <3>2. CASE i # 1
      <4>1. i - 1 # 0 /\ i \in 2 .. n /\ i \in 0 .. n
        BY <3>2
      <4>2. t[i - 1] \in S /\ q[i] \in S
        BY <1>2, <2>2, <4>1 DEF n, S
      <4>3. t[i] = t[i - 1] \o q[i]
        BY <1>10, <4>1
      <4>4. t[i] \in S
        BY <4>2, <4>3 DEF S
      <4> QED  BY <4>1, <4>4
    <3> QED  BY <3>1, <3>2
  <2>3. \A i \in 0 .. n : i \in P
    <3>1. n \in Nat
      BY <1>1 DEF n
    <3> HIDE DEF P
    <3> QED  BY <2>1, <2>2, <3>1, Induction
  <2>4. \A i \in 1 .. n : i \in 0 .. n /\ i # 0
    BY <1>1 DEF n
  <2> QED  BY <2>3, <2>4
<1> QED  BY <1>5, <1>10, <1>11 DEF n, t, S

LEMMA FlattenMore ==
  ASSUME NEW q \in Pieces, NEW x \in Seq(Int)
  PROVE  /\ FlattenSeq(q) \in Seq(Int)
         /\ FlattenSeq(Append(q, x)) = FlattenSeq(q) \o x
<1> DEFINE n == Len(q)
           more == Append(q, x)
<1>1. n \in Nat /\ more \in Pieces /\ Len(more) = n + 1 /\ more[n + 1] = x
      /\ \A i \in 1 .. n : more[i] = q[i]
  BY DEF Pieces
<1>2. more # <<>>
  BY <1>1
<1> HIDE DEF more
<1>3. PICK u : /\ FlattenSeq(more) = u[n + 1] /\ u[1] = more[1]
               /\ \A i \in 2 .. n + 1 : u[i] = u[i - 1] \o more[i]
  <2>1. PICK u : /\ FlattenSeq(more) = u[Len(more)] /\ u[1] = more[1]
                 /\ \A i \in 2 .. Len(more) : u[i] = u[i - 1] \o more[i]
    BY <1>1, <1>2, FlattenSteps, ZenonT(60)
  <2> QED  BY <1>1, <2>1, Zenon
<1>4. CASE q = <<>>
  <2>1. n = 0 /\ Len(q) = 0
    BY <1>4
  <2>2. FlattenSeq(q) = q
    BY <2>1, Zenon DEF FlattenSeq
  <2>3. FlattenSeq(more) = x
    BY <1>1, <1>3, <2>1
  <2>4. <<>> \o x = x /\ <<>> \in Seq(Int)
    OBVIOUS
  <2> QED  BY <1>4, <2>2, <2>3, <2>4, Zenon DEF more
<1>5. CASE q # <<>>
  <2>1. PICK t : /\ FlattenSeq(q) = t[n] /\ t[1] = q[1]
                 /\ \A i \in 2 .. n : t[i] = t[i - 1] \o q[i]
                 /\ \A i \in 1 .. n : t[i] \in Seq(Int)
    BY <1>5, FlattenSteps
  <2>2. n >= 1
    BY <1>1, <1>5 DEF Pieces
  <2> HIDE DEF n
  <2> DEFINE P == {i \in 0 .. n : i = 0 \/ t[i] = u[i]}
  <2>3. 0 \in P
    BY <1>1
  <2>4. ASSUME NEW i \in 1 .. n, i - 1 \in P PROVE i \in P
    <3>1. CASE i = 1
      <4>1. 1 \in 1 .. n
        BY <1>1, <2>2
      <4>2. t[1] = u[1]
        BY <1>1, <1>3, <2>1, <4>1, Zenon
      <4> QED  BY <3>1, <4>2
    <3>2. CASE i # 1
      <4>1. i \in 2 .. n /\ i \in 2 .. n + 1 /\ i - 1 # 0 /\ i \in 0 .. n
        BY <1>1, <3>2
      <4>2. t[i - 1] = u[i - 1]
        BY <2>4, <4>1
      <4>3. t[i] = t[i - 1] \o q[i] /\ u[i] = u[i - 1] \o more[i] /\ more[i] = q[i]
        BY <1>1, <1>3, <2>1, <4>1, Zenon
      <4>4. t[i] = u[i]
        BY <4>2, <4>3, Zenon
      <4> QED  BY <4>1, <4>4
    <3> QED  BY <3>1, <3>2
  <2>5. u[n] = t[n]
    <3> HIDE DEF P
    <3>1. \A i \in 0 .. n : i \in P
      BY <1>1, <2>3, <2>4, Induction
    <3>2. n \in 0 .. n /\ n # 0
      BY <1>1, <2>2
    <3>3. n \in P
      BY <3>1, <3>2
    <3> QED  BY <3>2, <3>3 DEF P
  <2>6. u[n + 1] = u[n] \o x
    <3>1. n + 1 \in 2 .. n + 1 /\ (n + 1) - 1 = n
      BY <1>1, <2>2
    <3>2. u[n + 1] = u[(n + 1) - 1] \o more[n + 1]
      BY <1>3, <3>1, Zenon
    <3> QED  BY <1>1, <3>1, <3>2, Zenon
  <2>7. FlattenSeq(q) \in Seq(Int)
    BY <1>1, <2>1, <2>2
  <2>8. FlattenSeq(more) = FlattenSeq(q) \o x
    BY <1>3, <2>1, <2>5, <2>6, Zenon
  <2> QED  BY <2>7, <2>8 DEF more
<1> QED  BY <1>4, <1>5

-----------------------------------------------------------------------------

Single(u) == [u EXCEPT !.more = 0]

LEMMA UnitTypes ==
  ASSUME NEW u \in Unit
  PROVE  /\ u.char \in Int /\ u.more \in Nat /\ u.more + 29 \in 29 .. 126
         /\ u.more + 29 \notin {Dollar, Hash} /\ Flipped(u.char) \in Int
         /\ LineOf(u) \in Seq(Int) /\ PayloadOf(u) \in Seq(Int)
         /\ Single(u) \in Unit /\ Single(u).char = u.char /\ Single(u).more = 0
<1>1. u.char \in Int /\ u.more \in Nat /\ u.more + 29 \in 29 .. 126 /\ u.more + 29 \notin {Dollar, Hash}
  BY DEF Unit
<1>2. Flipped(u.char) \in Int
  BY <1>1 DEF Flipped
<1>3. LineOf(u) \in Seq(Int)
  <2>1. <<Brace, Flipped(u.char)>> \in Seq(Int) /\ <<u.char>> \in Seq(Int)
        /\ <<Star, u.more + 29>> \in Seq(Int) /\ <<>> \in Seq(Int)
    BY <1>1, <1>2 DEF Brace, Star
  <2> QED  BY <2>1 DEF LineOf
<1>4. PayloadOf(u) \in Seq(Int)
  <2>1. u.more + 1 \in Nat
    BY <1>1
  <2>2. PICK n \in Nat, c \in Int : n = u.more + 1 /\ c = u.char
    BY <1>1, <2>1, Zenon
  <2>3. [i \in 1 .. n |-> c] \in Seq(Int)
    OBVIOUS
  <2> QED  BY <2>2, <2>3 DEF PayloadOf
<1>5. Single(u) \in Unit /\ Single(u).char = u.char /\ Single(u).more = 0
  BY DEF Single, Unit, Dollar, Hash
<1> QED  BY <1>1, <1>2, <1>3, <1>4, <1>5

\* What is written for one unit more.
LEMMA WireGrows ==
  ASSUME NEW s \in Seq(Unit), NEW u \in Unit
  PROVE  /\ Wire(s) \in Seq(Int) /\ Wire(Append(s, u)) = Wire(s) \o LineOf(u)
         /\ Payload(s) \in Seq(Int) /\ Payload(Append(s, u)) = Payload(s) \o PayloadOf(u)
<1> DEFINE w == [i \in 1 .. Len(s) |-> LineOf(s[i])]
           p == [i \in 1 .. Len(s) |-> PayloadOf(s[i])]
           more == Append(s, u)
           w1 == [i \in 1 .. Len(more) |-> LineOf(more[i])]
           p1 == [i \in 1 .. Len(more) |-> PayloadOf(more[i])]
<1>1. Len(s) \in Nat /\ Len(more) = Len(s) + 1 /\ more[Len(s) + 1] = u
      /\ \A i \in 1 .. Len(s) : more[i] = s[i] /\ s[i] \in Unit
  OBVIOUS
<1>0. \A i \in 1 .. Len(more) : more[i] \in Unit
  OBVIOUS
<1> HIDE DEF more
<1>2. w \in Pieces /\ p \in Pieces
  <2>1. \A i \in 1 .. Len(s) : LineOf(s[i]) \in Seq(Int) /\ PayloadOf(s[i]) \in Seq(Int)
    BY <1>1, UnitTypes
  <2> QED  BY <1>1, <2>1 DEF Pieces
<1>3. LineOf(u) \in Seq(Int) /\ PayloadOf(u) \in Seq(Int)
  BY UnitTypes
<1>4. w1 = Append(w, LineOf(u))
  <2>1. w1 \in Seq(Seq(Int))
    <3>1. \A i \in 1 .. Len(more) : LineOf(more[i]) \in Seq(Int)
      BY <1>0, UnitTypes
    <3> QED  BY <1>1, <3>1
  <2> DEFINE v == Append(w, LineOf(u))
  <2>2. v \in Seq(Seq(Int)) /\ Len(v) = Len(s) + 1 /\ v[Len(s) + 1] = LineOf(u)
        /\ \A i \in 1 .. Len(s) : v[i] = w[i]
    BY <1>1, <1>2, <1>3 DEF Pieces
  <2>3. Len(w1) = Len(s) + 1 /\ w1[Len(s) + 1] = LineOf(u)
        /\ \A i \in 1 .. Len(s) : w1[i] = w[i]
    BY <1>1
  <2> HIDE DEF v, w1, w
  <2>4. \A i \in 1 .. Len(v) : v[i] = w1[i]
    BY <1>1, <2>2, <2>3
  <2>5. v = w1
    BY <2>1, <2>2, <2>3, <2>4, SameSeq
  <2> QED  BY <2>5 DEF v
<1>5. p1 = Append(p, PayloadOf(u))
  <2>1. p1 \in Seq(Seq(Int))
    <3>1. \A i \in 1 .. Len(more) : PayloadOf(more[i]) \in Seq(Int)
      BY <1>0, UnitTypes
    <3> QED  BY <1>1, <3>1
  <2> DEFINE v == Append(p, PayloadOf(u))
  <2>2. v \in Seq(Seq(Int)) /\ Len(v) = Len(s) + 1 /\ v[Len(s) + 1] = PayloadOf(u)
        /\ \A i \in 1 .. Len(s) : v[i] = p[i]
    BY <1>1, <1>2, <1>3 DEF Pieces
  <2>3. Len(p1) = Len(s) + 1 /\ p1[Len(s) + 1] = PayloadOf(u)
        /\ \A i \in 1 .. Len(s) : p1[i] = p[i]
    BY <1>1
  <2> HIDE DEF v, p1, p
  <2>4. \A i \in 1 .. Len(v) : v[i] = p1[i]
    BY <1>1, <2>2, <2>3
  <2>5. v = p1
    BY <2>1, <2>2, <2>3, <2>4, SameSeq
  <2> QED  BY <2>5 DEF v
<1>6. Wire(s) = FlattenSeq(w) /\ Wire(more) = FlattenSeq(w1)
      /\ Payload(s) = FlattenSeq(p) /\ Payload(more) = FlattenSeq(p1)
  BY DEF Wire, Payload
<1> HIDE DEF w, p, w1, p1
<1>7. FlattenSeq(w) \in Seq(Int) /\ FlattenSeq(Append(w, LineOf(u))) = FlattenSeq(w) \o LineOf(u)
  BY <1>2, <1>3, FlattenMore
<1>8. FlattenSeq(p) \in Seq(Int) /\ FlattenSeq(Append(p, PayloadOf(u))) = FlattenSeq(p) \o PayloadOf(u)
  BY <1>2, <1>3, FlattenMore
<1>9. Wire(more) = Wire(s) \o LineOf(u) /\ Payload(more) = Payload(s) \o PayloadOf(u)
  BY <1>4, <1>5, <1>6, <1>7, <1>8, Zenon
<1> QED  BY <1>6, <1>7, <1>8, <1>9, Zenon DEF more

LEMMA Associates ==
  ASSUME NEW a \in Seq(Int), NEW b \in Seq(Int), NEW c \in Seq(Int)
  PROVE  a \o (b \o c) = (a \o b) \o c
<1> DEFINE T == Int
<1> SUFFICES ASSUME a \in Seq(T), b \in Seq(T), c \in Seq(T) PROVE a \o (b \o c) = (a \o b) \o c
  OBVIOUS
<1> HIDE DEF T
<1> QED  BY ConcatAssociative, SMTT(60)

LEMMA Places ==
  ASSUME NEW a \in Seq(Int), NEW b \in Seq(Int), NEW n, Len(a) + Len(b) = n, Len(a) = 1
  PROVE  /\ a \o b \in Seq(Int) /\ Len(a \o b) = n
         /\ \A i \in 1 .. n : (a \o b)[i] = IF i <= 1 THEN a[i] ELSE b[i - 1]
<1>1. /\ a \o b \in Seq(Int) /\ Len(a \o b) = Len(a) + Len(b)
      /\ \A i \in 1 .. Len(a) + Len(b) : (a \o b)[i] = IF i <= Len(a) THEN a[i] ELSE b[i - Len(a)]
  BY ConcatProperties
<1> QED  BY <1>1, Zenon

\* One character, or two, at the end of a sequence of numbers.
LEMMA TwoMore ==
  ASSUME NEW b \in Seq(Int), NEW c \in Int, NEW d \in Int
  PROVE  b \o <<c, d>> = Append(Append(b, c), d)
<1> DEFINE l == b \o <<c, d>>
           r == Append(Append(b, c), d)
<1>1. l \in Seq(Int) /\ r \in Seq(Int) /\ Len(l) = Len(b) + 2 /\ Len(r) = Len(b) + 2
  OBVIOUS
<1>2. \A i \in 1 .. Len(b) + 2 : l[i] = r[i]
  OBVIOUS
<1> HIDE DEF l, r
<1>3. l = r
  BY <1>1, <1>2, SameSeq
<1> QED  BY <1>3 DEF l, r

\* The last characters that are written for a message.
LEMMA WireEnds ==
  ASSUME NEW s \in Seq(Unit), NEW u \in Unit
  PROVE  /\ u.more = 0 /\ u.char \notin Markers => Wire(Append(s, u)) = Append(Wire(s), u.char)
         /\ u.more = 0 /\ u.char \in Markers =>
              Wire(Append(s, u)) = Append(Append(Wire(s), Brace), Flipped(u.char))
         /\ u.more # 0 =>
              Wire(Append(s, u)) = Append(Append(Wire(Append(s, Single(u))), Star), u.more + 29)
<1>1. /\ u.char \in Int /\ u.more + 29 \in Int /\ Single(u) \in Unit
      /\ Flipped(u.char) \in Int /\ Star \in Int /\ Brace \in Int
  BY UnitTypes DEF Star, Brace
<1>2. Wire(s) \in Seq(Int) /\ Wire(Append(s, u)) = Wire(s) \o LineOf(u)
      /\ Wire(Append(s, Single(u))) = Wire(s) \o LineOf(Single(u))
  BY <1>1, WireGrows
<1> DEFINE lit == IF u.char \in Markers THEN <<Brace, Flipped(u.char)>> ELSE <<u.char>>
<1>3. lit \in Seq(Int) /\ lit \o <<>> = lit
  BY <1>1
<1>4. CASE u.more = 0
  <2>1. LineOf(u) = lit
    BY <1>3, <1>4 DEF LineOf
  <2>2. u.char \notin Markers => Wire(Append(s, u)) = Append(Wire(s), u.char)
    <3>1. Wire(s) \o <<u.char>> = Append(Wire(s), u.char)
      BY <1>1, <1>2, AppendIsConcat, Zenon
    <3>2. u.char \notin Markers => lit = <<u.char>>
      OBVIOUS
    <3> HIDE DEF lit
    <3> QED  BY <1>2, <2>1, <3>1, <3>2, Zenon
  <2>3. u.char \in Markers => Wire(Append(s, u)) = Append(Append(Wire(s), Brace), Flipped(u.char))
    <3>1. Wire(s) \o <<Brace, Flipped(u.char)>> = Append(Append(Wire(s), Brace), Flipped(u.char))
      BY <1>1, <1>2, TwoMore, Zenon
    <3>2. u.char \in Markers => lit = <<Brace, Flipped(u.char)>>
      OBVIOUS
    <3> HIDE DEF lit
    <3> QED  BY <1>2, <2>1, <3>1, <3>2, Zenon
  <2> QED  BY <1>4, <2>2, <2>3, Zenon
<1>5. CASE u.more # 0
  <2>1. Single(u).more = 0 /\ Single(u).char = u.char
    BY UnitTypes, Zenon
  <2>2. LineOf(Single(u)) = lit
    BY <1>3, <2>1 DEF LineOf
  <2>3. LineOf(u) = lit \o <<Star, u.more + 29>>
    BY <1>5 DEF LineOf
  <2> HIDE DEF lit
  <2>4. Wire(s) \o (lit \o <<Star, u.more + 29>>) = (Wire(s) \o lit) \o <<Star, u.more + 29>>
    <3>1. <<Star, u.more + 29>> \in Seq(Int)
      BY <1>1
    <3> QED  BY <1>2, <1>3, <3>1, Associates, Zenon
  <2>5. Wire(s) \o lit \in Seq(Int)
    BY <1>2, <1>3
  <2>6. (Wire(s) \o lit) \o <<Star, u.more + 29>> = Append(Append(Wire(s) \o lit, Star), u.more + 29)
    BY <1>1, <2>5, TwoMore, Zenon
  <2>7. Wire(Append(s, u)) = Append(Append(Wire(Append(s, Single(u))), Star), u.more + 29)
    BY <1>2, <2>2, <2>3, <2>4, <2>6, Zenon
  <2> QED  BY <1>5, <2>7
<1> QED  BY <1>4, <1>5

\* And what they stand for.
LEMMA PayloadEnds ==
  ASSUME NEW s \in Seq(Unit), NEW u \in Unit
  PROVE  /\ u.more = 0 => Payload(Append(s, u)) = Append(Payload(s), u.char)
         /\ u.more # 0 => Payload(Append(s, u)) =
                            Payload(Append(s, Single(u))) \o [i \in 1 .. u.more |-> u.char]
<1>1. u.char \in Int /\ u.more \in Nat /\ Single(u) \in Unit
  BY UnitTypes, Zenon
<1>2. Payload(s) \in Seq(Int) /\ Payload(Append(s, u)) = Payload(s) \o PayloadOf(u)
      /\ Payload(Append(s, Single(u))) = Payload(s) \o PayloadOf(Single(u))
  BY <1>1, WireGrows
<1>3. PICK n \in Nat, c \in Int : n = u.more /\ c = u.char
  BY <1>1, Zenon
<1>4. [i \in 1 .. 1 |-> c] = <<c>>
  OBVIOUS
<1>5. PayloadOf(Single(u)) = <<c>>
  <2>1. Single(u).more = 0 /\ Single(u).char = c
    BY <1>3, UnitTypes, Zenon
  <2> QED  BY <1>4, <2>1 DEF PayloadOf
<1>6. PayloadOf(u) = [i \in 1 .. n + 1 |-> c]
  BY <1>3 DEF PayloadOf
<1>7. CASE n = 0
  <2>1. PayloadOf(u) = <<c>>
    BY <1>4, <1>6, <1>7
  <2>2. Payload(s) \o <<c>> = Append(Payload(s), c)
    BY <1>2, AppendIsConcat, Zenon
  <2> QED  BY <1>2, <1>3, <1>7, <2>1, <2>2, Zenon
<1>8. CASE n # 0
  <2> DEFINE run == [i \in 1 .. n |-> c]
             one == <<c>>
  <2>1. run \in Seq(Int) /\ one \in Seq(Int) /\ Len(run) = n /\ Len(one) = 1 /\ one[1] = c
        /\ \A i \in 1 .. n : run[i] = c
    OBVIOUS
  <2>2. PayloadOf(u) = one \o run
    <3> DEFINE all == [i \in 1 .. n + 1 |-> c]
    <3>1. all \in Seq(Int) /\ Len(all) = n + 1 /\ \A i \in 1 .. n + 1 : all[i] = c
      OBVIOUS
    <3> HIDE DEF all
    <3> DEFINE both == one \o run
    <3>2. both \in Seq(Int) /\ Len(both) = n + 1 /\ \A i \in 1 .. n + 1 : both[i] = c
      <4> HIDE DEF run, one
      <4>1. both \in Seq(Int) /\ Len(both) = n + 1
            /\ \A i \in 1 .. n + 1 : both[i] = IF i <= 1 THEN one[i] ELSE run[i - 1]
        <5>1. Len(one) + Len(run) = n + 1
          BY <2>1
        <5> QED  BY <2>1, <5>1, Places, Zenon
      <4>2. \A i \in 1 .. n + 1 : (i <= 1 => i = 1) /\ (~(i <= 1) => i - 1 \in 1 .. n)
        OBVIOUS
      <4> HIDE DEF both
      <4>3. \A i \in 1 .. n + 1 : both[i] = c
        BY <2>1, <4>1, <4>2
      <4> QED  BY <4>1, <4>3
    <3> HIDE DEF both
    <3>3. all = both
      BY <3>1, <3>2, SameSeq
    <3> QED  BY <1>6, <3>3 DEF all, both
  <2> HIDE DEF run, one
  <2>3. Payload(s) \o (one \o run) = (Payload(s) \o one) \o run
    BY <1>2, <2>1, Associates, Zenon
  <2>4. Payload(Append(s, u)) = Payload(Append(s, Single(u))) \o run
    BY <1>2, <1>5, <2>2, <2>3, Zenon DEF one
  <2> QED  BY <1>3, <1>8, <2>4 DEF run
<1> QED  BY <1>7, <1>8

LEMMA NothingToWrite == Wire(<<>>) = <<>> /\ Payload(<<>>) = <<>> /\ <<>> \in Seq(Unit)
<1>1. Len(<<>>) = 0
  OBVIOUS
<1>2. Wire(<<>>) = <<>>
  <2> DEFINE w == [i \in 1 .. Len(<<>>) |-> LineOf(<<>>[i])]
  <2>1. w = <<>>
    OBVIOUS
  <2>2. FlattenSeq(<<>>) = <<>>
    BY <1>1, Zenon DEF FlattenSeq
  <2> QED  BY <2>1, <2>2, Zenon DEF Wire
<1>3. Payload(<<>>) = <<>>
  <2> DEFINE w == [i \in 1 .. Len(<<>>) |-> PayloadOf(<<>>[i])]
  <2>1. w = <<>>
    OBVIOUS
  <2>2. FlattenSeq(<<>>) = <<>>
    BY <1>1, Zenon DEF FlattenSeq
  <2> QED  BY <2>1, <2>2, Zenon DEF Payload
<1> QED  BY <1>2, <1>3

\* What a longer sequence of numbers is made of.
LEMMA NotNothing ==
  ASSUME NEW a \in Seq(Int), NEW c \in Int
  PROVE  Append(a, c) # <<>>
  BY AppendProperties

LEMMA LastOnes ==
  ASSUME NEW a \in Seq(Int), NEW b \in Seq(Int), NEW c \in Int, NEW d \in Int,
         Append(a, c) = Append(b, d)
  PROVE  a = b /\ c = d
  BY AppendInjective

BadCount(c) == c < 29 \/ c > 126 \/ c \in {Dollar, Hash}

LEMMA Flips ==
  ASSUME NEW c \in Markers
  PROVE  Flipped(c) \notin Markers /\ Flipped(Flipped(c)) = c
<1>1. c = 36 \/ c = 35 \/ c = 125 \/ c = 42
  BY DEF Markers, Dollar, Hash, Brace, Star
<1> QED  BY <1>1 DEF Flipped, Markers, Dollar, Hash, Brace, Star

\* What the last character of a written message can be: a character that stands for
\* itself, one that is flipped behind a brace, or a count behind a star.
Plainly(b, c, s) ==
  /\ c \notin Markers
  /\ \E r \in Seq(Unit) : b = Wire(r) /\ Payload(s) = Append(Payload(r), c)
Escaped(b, c, s) ==
  \E r \in Seq(Unit), m \in Markers :
    /\ b = Append(Wire(r), Brace) /\ c = Flipped(m)
    /\ Payload(s) = Append(Payload(r), m)
Counted(b, c, s) ==
  /\ c \in 29 .. 126 /\ ~BadCount(c)
  /\ \E r \in Seq(Unit), m \in Int :
       /\ r # <<>> /\ b = Append(Wire(r), Star)
       /\ Payload(r) # <<>> /\ Last(Payload(r)) = m
       /\ Payload(s) = Payload(r) \o [i \in 1 .. c - 29 |-> m]

LEMMA WireRead ==
  ASSUME NEW b \in Seq(Int), NEW c \in Int, NEW s \in Seq(Unit), Append(b, c) = Wire(s)
  PROVE  Plainly(b, c, s) \/ Escaped(b, c, s) \/ Counted(b, c, s)
<1>1. Append(b, c) # <<>>
  BY NotNothing, Zenon
<1>2. s # <<>>
  BY <1>1, NothingToWrite, Zenon
<1>3. PICK r \in Seq(Unit), u \in Unit : s = Append(r, u)
  BY <1>2, SequenceEmptyOrAppend
<1>4. /\ u.char \in Int /\ u.more \in Nat /\ u.more + 29 \in 29 .. 126
      /\ u.more + 29 \notin {Dollar, Hash} /\ Flipped(u.char) \in Int /\ Single(u) \in Unit
      /\ Single(u).char = u.char /\ Single(u).more = 0
  BY UnitTypes, Zenon
<1>5. Wire(r) \in Seq(Int) /\ Payload(r) \in Seq(Int)
  BY WireGrows, Zenon
<1>6. CASE u.more = 0 /\ u.char \notin Markers
  <2>1. Wire(s) = Append(Wire(r), u.char) /\ Payload(s) = Append(Payload(r), u.char)
    BY <1>3, <1>6, WireEnds, PayloadEnds, Zenon
  <2>2. Append(b, c) = Append(Wire(r), u.char)
    BY <2>1, Zenon
  <2>3. b = Wire(r) /\ c = u.char
    <3>1. PICK w \in Seq(Int), d \in Int : w = Wire(r) /\ d = u.char
      BY <1>4, <1>5, Zenon
    <3>2. Append(b, c) = Append(w, d)
      BY <2>2, <3>1, Zenon
    <3>3. b = w /\ c = d
      BY <3>2, LastOnes
    <3> QED  BY <3>1, <3>3, Zenon
  <2> QED  BY <1>6, <2>1, <2>3, Zenon DEF Plainly
<1>7. CASE u.more = 0 /\ u.char \in Markers
  <2>1. Wire(s) = Append(Append(Wire(r), Brace), Flipped(u.char))
        /\ Payload(s) = Append(Payload(r), u.char)
    BY <1>3, <1>7, WireEnds, PayloadEnds, Zenon
  <2>2. Append(Wire(r), Brace) \in Seq(Int)
    BY <1>5 DEF Brace
  <2>3. Append(b, c) = Append(Append(Wire(r), Brace), Flipped(u.char))
    BY <2>1, Zenon
  <2>4. b = Append(Wire(r), Brace) /\ c = Flipped(u.char)
    <3>1. PICK w \in Seq(Int), d \in Int : w = Append(Wire(r), Brace) /\ d = Flipped(u.char)
      BY <1>4, <2>2, Zenon
    <3>2. Append(b, c) = Append(w, d)
      BY <2>3, <3>1, Zenon
    <3>3. b = w /\ c = d
      BY <3>2, LastOnes
    <3> QED  BY <3>1, <3>3, Zenon
  <2> QED  BY <1>7, <2>1, <2>4, Zenon DEF Escaped
<1>8. CASE u.more # 0
  <2> DEFINE q == Append(r, Single(u))
  <2>1. Wire(s) = Append(Append(Wire(q), Star), u.more + 29)
        /\ Payload(s) = Payload(q) \o [i \in 1 .. u.more |-> u.char]
    BY <1>3, <1>8, WireEnds, PayloadEnds, Zenon
  <2>2. q \in Seq(Unit) /\ q # <<>>
    BY <1>4, AppendProperties
  <2>3. Payload(q) = Append(Payload(r), u.char)
    BY <1>4, PayloadEnds, Zenon
  <2> HIDE DEF q
  <2>4. Wire(q) \in Seq(Int)
    BY <2>2, WireGrows, Zenon
  <2>5. Append(Wire(q), Star) \in Seq(Int) /\ u.more + 29 \in Int
    BY <1>4, <2>4 DEF Star
  <2>6. b = Append(Wire(q), Star) /\ c = u.more + 29
    <3>1. Append(b, c) = Append(Append(Wire(q), Star), u.more + 29)
      BY <2>1, Zenon
    <3>2. PICK w \in Seq(Int), d \in Int : w = Append(Wire(q), Star) /\ d = u.more + 29
      BY <2>5, Zenon
    <3>3. Append(b, c) = Append(w, d)
      BY <3>1, <3>2, Zenon
    <3>4. b = w /\ c = d
      BY <3>3, LastOnes
    <3> QED  BY <3>2, <3>4, Zenon
  <2>7. c - 29 = u.more /\ c \in 29 .. 126 /\ ~BadCount(c)
    <3>1. PICK m \in Nat : m = u.more
      BY <1>4, Zenon
    <3>2. c = m + 29 /\ c \in 29 .. 126 /\ c \notin {Dollar, Hash}
      BY <1>4, <2>6, <3>1, Zenon
    <3>3. c - 29 = m
      BY <3>2
    <3>4. ~BadCount(c)
      BY <3>2 DEF BadCount
    <3> QED  BY <3>1, <3>2, <3>3, <3>4, Zenon
  <2>8. Append(Payload(r), u.char) # <<>> /\ Last(Append(Payload(r), u.char)) = u.char
    <3>1. Append(Payload(r), u.char) # <<>>
      BY <1>4, <1>5, NotNothing, Zenon
    <3>2. Last(Append(Payload(r), u.char)) = u.char
      BY <1>4, <1>5 DEF Last
    <3> QED  BY <3>1, <3>2
  <2>9. Payload(q) # <<>> /\ Last(Payload(q)) = u.char
    BY <2>3, <2>8, Zenon
  <2>10. Payload(s) = Payload(q) \o [i \in 1 .. c - 29 |-> u.char]
    BY <2>1, <2>7, Zenon
  <2> QED  BY <1>4, <2>2, <2>6, <2>7, <2>9, <2>10, Zenon DEF Counted
<1> QED  BY <1>6, <1>7, <1>8

-----------------------------------------------------------------------------
(* The decoder against what was written, wherever a message may end        *)

\* Nothing is stored before the first '$', and a count is read behind a star.
Seeking == recv = "seek" => body = <<>> /\ reply = <<>> /\ escape = FALSE
Counting == recv = "count" => \E b \in Seq(Int) : body = Append(b, Star)

\* Behind whole units, the reply is the payload so far.
AtUnit ==
  \A s \in Seq(Unit) : body = Wire(s) =>
    /\ recv # "count"
    /\ recv \in {"body", "msb", "lsb", "done"} => reply = Payload(s)
    /\ recv = "body" => escape = FALSE

\* Behind the '}' of a unit the next character is to be flipped.
AtBrace ==
  recv = "body" =>
    \A s \in Seq(Unit) : body = Append(Wire(s), Brace) => reply = Payload(s) /\ escape = TRUE

\* Behind the '*' of a unit a count is read, unless the character there is none.
AtStar ==
  \A s \in Seq(Unit) : s # <<>> /\ body = Append(Wire(s), Star) =>
    \/ recv = "count" /\ reply = Payload(s) /\ escape = FALSE
    \/ recv = "body" /\ \E c \in Int : ungot = <<c>> /\ BadCount(c)
    \/ recv \notin {"body", "count"}

Wired == Seeking /\ Counting /\ AtUnit /\ AtBrace /\ AtStar

\* A count that is none is what fgetc gives next.
LEMMA NoRun ==
  ASSUME AtStar, recv = "body", NEW c \in Input, NEW s, Counted(body, c, s)
  PROVE  FALSE
<1>1. PICK r \in Seq(Unit) : r # <<>> /\ body = Append(Wire(r), Star)
  BY DEF Counted
<1>2. PICK d \in Int : ungot = <<d>> /\ BadCount(d)
  BY <1>1, Zenon DEF AtStar
<1>3. <<d>> # <<>> /\ <<d>>[1] = d
  OBVIOUS
<1>4. Input = {d}
  BY <1>2, <1>3, Zenon DEF Input
<1>5. c = d
  BY <1>4
<1> QED  BY <1>2, <1>5 DEF Counted

\* A message with something in it has a payload, and nothing else is written as nothing.
LEMMA SomethingWritten ==
  ASSUME NEW s \in Seq(Unit), s # <<>>
  PROVE  Wire(s) # <<>> /\ Payload(s) # <<>>
<1>1. PICK r \in Seq(Unit), u \in Unit : s = Append(r, u)
  BY SequenceEmptyOrAppend
<1>2. Wire(s) \in Seq(Int) /\ Wire(s) = Wire(r) \o LineOf(u) /\ Wire(r) \in Seq(Int)
      /\ Payload(s) = Payload(r) \o PayloadOf(u) /\ Payload(r) \in Seq(Int)
  BY <1>1, WireGrows, Zenon
<1>3. LineOf(u) \in Seq(Int) /\ PayloadOf(u) \in Seq(Int) /\ u.char \in Int /\ u.more \in Nat
  BY UnitTypes, Zenon
<1>4. Len(LineOf(u)) > 0
  <2>1. LineOf(u) # <<>>
    BY <1>3 DEF LineOf
  <2> QED  BY <1>3, <2>1
<1>5. Len(PayloadOf(u)) > 0
  <2>1. PICK m \in Nat : m = u.more
    BY <1>3, Zenon
  <2>2. Len(PayloadOf(u)) = m + 1
    BY <2>1 DEF PayloadOf
  <2> QED  BY <2>1, <2>2
<1>6. PICK w \in Seq(Int), l \in Seq(Int) : w = Wire(r) /\ l = LineOf(u)
  BY <1>2, <1>3, Zenon
<1>7. PICK p \in Seq(Int), q \in Seq(Int) : p = Payload(r) /\ q = PayloadOf(u)
  BY <1>2, <1>3, Zenon
<1>8. w \o l # <<>> /\ p \o q # <<>>
  <2>1. Len(l) > 0 /\ Len(q) > 0
    BY <1>4, <1>5, <1>6, <1>7, Zenon
  <2> QED  BY <2>1
<1> QED  BY <1>2, <1>6, <1>7, <1>8, Zenon

\* Nothing is stored and nothing was written.
LEMMA WiredAnew ==
  ASSUME body' = <<>>, reply' = <<>>, escape' = FALSE, recv' # "count"
  PROVE  Wired'
<1>1. \A b \in Seq(Int), c \in Int : <<>> # Append(b, c)
  BY NotNothing, Zenon
<1>2. \A s \in Seq(Unit) : <<>> = Wire(s) => Payload(s) = <<>>
  BY SomethingWritten, NothingToWrite, Zenon
<1>3. \A s \in Seq(Unit) : Wire(s) \in Seq(Int)
  <2>1. \E u : u \in Unit
    <3>1. [char |-> 0, more |-> 0] \in Unit
      BY DEF Unit, Dollar, Hash
    <3> QED  BY <3>1
  <2> QED  BY <2>1, WireGrows, Zenon
<1>4. Brace \in Int /\ Star \in Int
  BY DEF Brace, Star
<1>5. Seeking' /\ Counting'
  BY Zenon DEF Seeking, Counting
<1>6. AtUnit'
  BY <1>2, Zenon DEF AtUnit
<1>7. AtBrace' /\ AtStar'
  BY <1>1, <1>3, <1>4, Zenon DEF AtBrace, AtStar
<1> QED  BY <1>5, <1>6, <1>7 DEF Wired

LEMMA WiresAreLines == \A s \in Seq(Unit) : Wire(s) \in Seq(Int) /\ Payload(s) \in Seq(Int)
<1>1. [char |-> 0, more |-> 0] \in Unit
  BY DEF Unit, Dollar, Hash
<1> QED  BY <1>1, WireGrows, Zenon

LEMMA WireLast ==
  ASSUME NEW s \in Seq(Unit), NEW b \in Seq(Int), NEW c \in Int, NEW d \in Int,
         Append(b, c) = Append(Wire(s), d)
  PROVE  b = Wire(s) /\ c = d
<1>1. PICK w \in Seq(Int) : w = Wire(s)
  BY WiresAreLines, Zenon
<1>2. Append(b, c) = Append(w, d)
  BY <1>1, Zenon
<1>3. b = w /\ c = d
  BY <1>2, LastOnes
<1> QED  BY <1>1, <1>3, Zenon

LEMMA MarkersDiffer ==
  /\ Brace \in Int /\ Star \in Int /\ Brace # Star /\ Brace \in Markers /\ Star \in Markers
  /\ \A m \in Markers : Flipped(m) # Brace /\ Flipped(m) # Star
<1>1. Brace \in Int /\ Star \in Int /\ Brace # Star /\ Brace \in Markers /\ Star \in Markers
  BY DEF Brace, Star, Markers
<1> QED  BY <1>1, Flips, Zenon

\* The body is one character longer: what the message behind it can be.
LEMMA WiredBody ==
  ASSUME AtStar, recv = "body", body \in Seq(Int), NEW c \in Input, c \in Int,
         NEW s \in Seq(Unit), Append(body, c) = Wire(s)
  PROVE  Plainly(body, c, s) \/ Escaped(body, c, s)
<1>1. Plainly(body, c, s) \/ Escaped(body, c, s) \/ Counted(body, c, s)
  BY WireRead, Zenon
<1> QED  BY <1>1, NoRun, Zenon

\* The end of the packet, its digits and the end of the line leave the message alone.
LEMMA WiredKept ==
  ASSUME Wired, UNCHANGED <<body, reply>>, recv \in {"body", "msb", "lsb"},
         recv' \in {"closed", "msb", "lsb", "done"}
  PROVE  Wired'
<1>1. recv' \notin {"seek", "body", "count"}
  OBVIOUS
<1>2. AtUnit'
  <2> SUFFICES ASSUME NEW s \in Seq(Unit), body = Wire(s)
               PROVE  recv' \in {"msb", "lsb", "done"} => reply = Payload(s)
    BY <1>1, Zenon DEF AtUnit
  <2> QED  BY Zenon DEF Wired, AtUnit
<1> QED  BY <1>1, <1>2, Zenon DEF Wired, Seeking, Counting, AtBrace, AtStar

\* A '}': the message goes on behind its escape.
LEMMA WiredEscape ==
  ASSUME Wired, recv = "body", body \in Seq(Int), Brace \in Input,
         body' = Append(body, Brace), escape' = TRUE, UNCHANGED <<reply, recv>>
  PROVE  Wired'
<1>1. Seeking' /\ Counting'
  BY DEF Seeking, Counting
<1>2. AtUnit'
  <2> SUFFICES ASSUME NEW s \in Seq(Unit), Append(body, Brace) = Wire(s) PROVE FALSE
    BY Zenon DEF AtUnit
  <2>1. Plainly(body, Brace, s) \/ Escaped(body, Brace, s)
    BY WiredBody, MarkersDiffer, Zenon DEF Wired
  <2> QED  BY <2>1, MarkersDiffer, Zenon DEF Plainly, Escaped
<1>3. AtBrace'
  <2> SUFFICES ASSUME NEW s \in Seq(Unit), Append(body, Brace) = Append(Wire(s), Brace)
               PROVE  reply = Payload(s)
    BY Zenon DEF AtBrace
  <2>1. body = Wire(s)
    BY WireLast, MarkersDiffer, Zenon
  <2> QED  BY <2>1, Zenon DEF Wired, AtUnit
<1>4. AtStar'
  <2> SUFFICES ASSUME NEW s \in Seq(Unit), Append(body, Brace) = Append(Wire(s), Star) PROVE FALSE
    BY Zenon DEF AtStar
  <2> QED  BY WireLast, MarkersDiffer, Zenon
<1> QED  BY <1>1, <1>2, <1>3, <1>4 DEF Wired

\* A '*' behind a character: a count is read.
LEMMA WiredRun ==
  ASSUME Wired, recv = "body", body \in Seq(Int), Star \in Input,
         body' = Append(body, Star), recv' = "count", UNCHANGED <<reply, escape>>
  PROVE  Wired'
<1>1. Seeking' /\ Counting' /\ AtBrace'
  BY Zenon DEF Seeking, Counting, AtBrace
<1>2. AtUnit'
  <2> SUFFICES ASSUME NEW s \in Seq(Unit), Append(body, Star) = Wire(s) PROVE FALSE
    BY Zenon DEF AtUnit
  <2>1. Plainly(body, Star, s) \/ Escaped(body, Star, s)
    BY WiredBody, MarkersDiffer, Zenon DEF Wired
  <2> QED  BY <2>1, MarkersDiffer, Zenon DEF Plainly, Escaped
<1>3. AtStar'
  <2> SUFFICES ASSUME NEW s \in Seq(Unit), Append(body, Star) = Append(Wire(s), Star)
               PROVE  reply = Payload(s) /\ escape = FALSE
    BY Zenon DEF AtStar
  <2>1. body = Wire(s)
    BY WireLast, MarkersDiffer, Zenon
  <2> QED  BY <2>1, Zenon DEF Wired, AtUnit
<1> QED  BY <1>1, <1>2, <1>3 DEF Wired

\* A character that is stored is one of the message, or the flipped one behind a '}'.
LEMMA WiredStore ==
  ASSUME Wired, recv = "body", body \in Seq(Int), NEW c \in Input, c \in Int,
         c # Brace, c = Star => reply = <<>>, body' = Append(body, c), Store(c), UNCHANGED recv
  PROVE  Wired'
<1>0. reply' = Append(reply, IF escape THEN Flipped(c) ELSE c) /\ escape' = FALSE
  BY Zenon DEF Store
<1>1. Seeking' /\ Counting'
  BY DEF Seeking, Counting
<1>2. AtUnit'
  <2> SUFFICES ASSUME NEW s \in Seq(Unit), Append(body, c) = Wire(s)
               PROVE  reply' = Payload(s)
    BY <1>0, Zenon DEF AtUnit
  <2>1. Plainly(body, c, s) \/ Escaped(body, c, s)
    BY WiredBody, Zenon DEF Wired
  <2>2. CASE Plainly(body, c, s)
    <3>1. PICK r \in Seq(Unit) : body = Wire(r) /\ Payload(s) = Append(Payload(r), c)
      BY <2>2, Zenon DEF Plainly
    <3>2. reply = Payload(r) /\ escape = FALSE
      BY <3>1, Zenon DEF Wired, AtUnit
    <3>3. reply' = Append(reply, c)
      BY <1>0, <3>2
    <3> QED  BY <3>1, <3>2, <3>3, Zenon
  <2>3. CASE Escaped(body, c, s)
    <3>1. PICK r \in Seq(Unit), m \in Markers :
            body = Append(Wire(r), Brace) /\ c = Flipped(m) /\ Payload(s) = Append(Payload(r), m)
      BY <2>3, Zenon DEF Escaped
    <3>2. reply = Payload(r) /\ escape = TRUE
      BY <3>1, Zenon DEF Wired, AtBrace
    <3>3. reply' = Append(reply, Flipped(c)) /\ Flipped(c) = m
      BY <1>0, <3>1, <3>2, Flips
    <3> QED  BY <3>1, <3>2, <3>3, Zenon
  <2> QED  BY <2>1, <2>2, <2>3
<1>3. AtBrace'
  <2> SUFFICES ASSUME NEW s \in Seq(Unit), Append(body, c) = Append(Wire(s), Brace) PROVE FALSE
    BY Zenon DEF AtBrace
  <2> QED  BY WireLast, MarkersDiffer, Zenon
<1>4. AtStar'
  <2> SUFFICES ASSUME NEW s \in Seq(Unit), s # <<>>, Append(body, c) = Append(Wire(s), Star) PROVE FALSE
    BY Zenon DEF AtStar
  <2>1. body = Wire(s) /\ c = Star
    BY WireLast, MarkersDiffer, Zenon
  <2>2. reply = Payload(s)
    BY <2>1, Zenon DEF Wired, AtUnit
  <2> QED  BY <2>1, <2>2, SomethingWritten, Zenon
<1> QED  BY <1>1, <1>2, <1>3, <1>4 DEF Wired

\* No count behind the '*': a peer that writes this has no message that ends here.
LEMMA WiredNoCount ==
  ASSUME Wired, recv = "count", recv' = "body", NEW c \in Int, BadCount(c),
         ungot' = <<c>>, UNCHANGED body
  PROVE  Wired'
<1>1. Seeking' /\ Counting' /\ AtUnit'
  BY Zenon DEF Wired, Seeking, Counting, AtUnit
<1>2. AtBrace'
  <2> SUFFICES ASSUME NEW s \in Seq(Unit), body = Append(Wire(s), Brace) PROVE FALSE
    BY Zenon DEF AtBrace
  <2>1. PICK b \in Seq(Int) : body = Append(b, Star)
    BY Zenon DEF Wired, Counting
  <2>2. Append(b, Star) = Append(Wire(s), Brace)
    BY <2>1, Zenon
  <2> QED  BY <2>2, WireLast, MarkersDiffer, Zenon
<1>3. AtStar'
  BY Zenon DEF AtStar
<1> QED  BY <1>1, <1>2, <1>3 DEF Wired

\* A count: the last character is stored that often.
LEMMA WiredCount ==
  ASSUME Wired, recv = "count", recv' = "body", body \in Seq(Int), NEW c \in Int,
         reply' = reply \o [i \in 1 .. c - 29 |-> Last(reply)],
         body' = Append(body, c), UNCHANGED escape
  PROVE  Wired'
<1>0. PICK b \in Seq(Int) : body = Append(b, Star)
  BY Zenon DEF Wired, Counting
<1>1. Seeking' /\ Counting'
  BY DEF Seeking, Counting
<1>2. \A s \in Seq(Unit) : body # Wire(s)
  BY Zenon DEF Wired, AtUnit
<1>3. AtUnit'
  <2> SUFFICES ASSUME NEW s \in Seq(Unit), Append(body, c) = Wire(s)
               PROVE  reply' = Payload(s) /\ escape = FALSE
    BY Zenon DEF AtUnit
  <2>1. Plainly(body, c, s) \/ Escaped(body, c, s) \/ Counted(body, c, s)
    BY WireRead, Zenon
  <2>2. ~Plainly(body, c, s)
    BY <1>2, Zenon DEF Plainly
  <2>3. ~Escaped(body, c, s)
    <3> SUFFICES ASSUME NEW r \in Seq(Unit), body = Append(Wire(r), Brace) PROVE FALSE
      BY Zenon DEF Escaped
    <3>1. Append(b, Star) = Append(Wire(r), Brace)
      BY <1>0, Zenon
    <3>2. Star = Brace
      BY <3>1, WireLast, MarkersDiffer
    <3> QED  BY <3>2, MarkersDiffer, Zenon
  <2>4. PICK r \in Seq(Unit), m \in Int :
          /\ r # <<>> /\ body = Append(Wire(r), Star)
          /\ Last(Payload(r)) = m
          /\ Payload(s) = Payload(r) \o [i \in 1 .. c - 29 |-> m]
    BY <2>1, <2>2, <2>3, Zenon DEF Counted
  <2>5. reply = Payload(r) /\ escape = FALSE
    <3>1. \/ recv = "count" /\ reply = Payload(r) /\ escape = FALSE
          \/ recv = "body" \/ recv \notin {"body", "count"}
      BY <2>4, Zenon DEF Wired, AtStar
    <3> QED  BY <3>1
  <2>6. reply' = Payload(r) \o [i \in 1 .. c - 29 |-> m]
    BY <2>4, <2>5, Zenon
  <2> QED  BY <2>4, <2>5, <2>6, Zenon
<1>4. AtBrace' /\ AtStar'
  <2>1. \A s \in Seq(Unit) : /\ Append(body, c) # Append(Wire(s), Brace)
                              /\ Append(body, c) # Append(Wire(s), Star)
    BY <1>2, WireLast, MarkersDiffer, Zenon
  <2> QED  BY <2>1, Zenon DEF AtBrace, AtStar
<1> QED  BY <1>1, <1>3, <1>4 DEF Wired

LEMMA WiredStep == Framed /\ Tallied /\ Wired /\ [RecvNext]_recv_vars => Wired'
<1> SUFFICES ASSUME Framed, Tallied, Wired, [RecvNext]_recv_vars PROVE Wired'
  OBVIOUS
<1>0. Room /\ body \in Seq(Int)
  BY DEF Framed, Tallied
<1>1. CASE Seek
  <2>1. recv = "seek" /\ recv' # "count" /\ UNCHANGED <<reply, escape, body>>
    BY <1>1 DEF Seek
  <2>2. body = <<>> /\ reply = <<>> /\ escape = FALSE
    BY <2>1, Zenon DEF Wired, Seeking
  <2> QED  BY <2>1, <2>2, WiredAnew
<1>2. CASE Body
  <2>1. PICK c \in Input :
          \/ c = EOF /\ recv' = "closed" /\ UNCHANGED <<reply, size, sum, escape, body>>
          \/ c = Dollar /\ Restart
          \/ c = Hash /\ recv' = "msb" /\ UNCHANGED <<reply, size, sum, escape, body>>
          \/ /\ c \notin {EOF, Dollar, Hash}
             /\ sum' = Plus(c) /\ body' = Append(body, c)
             /\ \/ c = Brace /\ escape' = TRUE /\ UNCHANGED <<reply, size, recv>>
                \/ c = Star /\ reply # <<>> /\ recv' = "count" /\ UNCHANGED <<reply, size, escape>>
                \/ c # Brace /\ (c = Star => reply = <<>>) /\ Store(c) /\ UNCHANGED recv
    BY <1>2 DEF Body
  <2>2. c \in Int /\ recv = "body"
    BY <1>0, <1>2, InputIsChar DEF Body
  <2>3. CASE recv' \in {"closed", "msb"} /\ UNCHANGED <<reply, body>>
    BY <2>2, <2>3, WiredKept
  <2>4. CASE Restart
    BY <2>2, <2>4, WiredAnew DEF Restart
  <2>5. CASE c = Brace /\ body' = Append(body, c) /\ escape' = TRUE /\ UNCHANGED <<reply, recv>>
    BY <1>0, <2>2, <2>5, WiredEscape
  <2>6. CASE c = Star /\ body' = Append(body, c) /\ recv' = "count" /\ UNCHANGED <<reply, escape>>
    BY <1>0, <2>2, <2>6, WiredRun
  <2>7. CASE body' = Append(body, c) /\ c # Brace /\ (c = Star => reply = <<>>) /\ Store(c) /\ UNCHANGED recv
    BY <1>0, <2>2, <2>7, WiredStore
  <2> QED  BY <2>1, <2>3, <2>4, <2>5, <2>6, <2>7
<1>3. CASE Count
  <2>1. PICK c2 \in Input :
          IF c2 < 29 \/ c2 > 126 \/ c2 \in {Dollar, Hash}
          THEN /\ ungot' = <<c2>> /\ Store(Star) /\ UNCHANGED <<sum, body>>
          ELSE /\ fgetc(c2)
               /\ reply' = reply \o [i \in 1 .. c2 - 29 |-> Last(reply)]
               /\ size' = RoomFor(c2 - 29)
               /\ sum' = Plus(c2) /\ body' = Append(body, c2)
               /\ UNCHANGED escape
    BY <1>3 DEF Count
  <2>2. c2 \in Int /\ recv = "count" /\ recv' = "body"
    BY <1>0, <1>3, InputIsChar DEF Count
  <2>3. CASE BadCount(c2)
    <3>1. ungot' = <<c2>> /\ UNCHANGED body
      BY <2>1, <2>3 DEF BadCount
    <3> QED  BY <2>2, <2>3, <3>1, WiredNoCount
  <2>4. CASE ~BadCount(c2)
    <3>1. /\ reply' = reply \o [i \in 1 .. c2 - 29 |-> Last(reply)]
          /\ body' = Append(body, c2) /\ UNCHANGED escape
      BY <2>1, <2>4 DEF BadCount
    <3> QED  BY <1>0, <2>2, <3>1, WiredCount
  <2> QED  BY <2>3, <2>4
<1>4. CASE Msb
  BY <1>4, WiredKept DEF Msb
<1>5. CASE Lsb
  BY <1>5, WiredKept DEF Lsb
<1>6. CASE Again
  BY <1>6, WiredAnew DEF Again, Fresh
<1>7. CASE UNCHANGED recv_vars
  BY <1>7, Zenon DEF recv_vars, Wired, Seeking, Counting, AtUnit, AtBrace, AtStar
<1> QED  BY <1>1, <1>2, <1>3, <1>4, <1>5, <1>6, <1>7 DEF RecvNext

\* Any message of any length, escaped and run-length encoded by the protocol's own rules,
\* is given back as the payload it stands for, whatever came before its last '$'.
THEOREM DecodesCorrect == RecvSpec => []DecodesWhatWasWritten
<1>1. Wired => DecodesWhatWasWritten
  <2> SUFFICES ASSUME Wired, recv = "done", NEW w \in Written, body = w[1] PROVE reply = w[2]
    BY DEF DecodesWhatWasWritten
  <2>1. PICK s \in Messages : w = <<Wire(s), Payload(s)>>
    BY DEF Written
  <2>2. s \in Seq(Unit) /\ body = Wire(s) /\ w[2] = Payload(s)
    BY <2>1, MessagesAssumption
  <2> QED  BY <2>2, Zenon DEF Wired, AtUnit
<1>2. RecvInit => Framed /\ Tallied /\ Wired
  <2> SUFFICES ASSUME RecvInit PROVE Framed /\ Tallied /\ Wired
    OBVIOUS
  <2>1. Framed
    BY FrameInit
  <2>2. /\ sum = 0 /\ body = <<>> /\ reply = <<>> /\ escape = FALSE /\ recv = "seek"
    BY DEF RecvInit, Fresh
  <2>3. Tallied
    BY <2>2, EmptyTotal DEF Tallied
  <2>4. AtUnit
    BY <2>2, SomethingWritten, NothingToWrite, Zenon DEF AtUnit
  <2>5. Seeking /\ Counting /\ AtBrace /\ AtStar
    BY <2>2, Zenon DEF Seeking, Counting, AtBrace, AtStar
  <2> QED  BY <2>1, <2>3, <2>4, <2>5 DEF Wired
<1>3. Framed /\ [RecvNext]_recv_vars => Framed'
  BY FrameStep
<1>4. Framed /\ Tallied /\ Judged /\ [RecvNext]_recv_vars => Tallied' /\ Judged'
  BY SumsStep
<1>5. Framed /\ Tallied /\ Wired /\ [RecvNext]_recv_vars => Wired'
  BY WiredStep
<1>6. RecvInit => Judged
  BY DEF RecvInit, Judged
<1> QED  BY <1>1, <1>2, <1>3, <1>4, <1>5, <1>6, PTL DEF RecvSpec
=============================================================================
