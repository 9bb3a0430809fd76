--------------------------- MODULE MonitorProofs ---------------------------
(***************************************************************************)
(* Proofs about Monitor, for any watchpoints, expressions and counts; and  *)
(* about ExprEval, for expressions of any length: flat ones are always     *)
(* evaluated, and what any of them evaluates to is what C's grammar says.  *)
(***************************************************************************)
EXTENDS Monitor, ExprValue, NatLemmas, SequenceTheorems

\* The counter of cpu_exec against the instructions executed so far.
Balance ==
  /\ Times(asked) \in Nat /\ done \in Nat
  /\ done <= Times(asked)
  /\ pc = "exec" => n \in Nat /\ n > 0 /\ done + n = Times(asked)
  /\ pc \in {"diff", "watch", "update"} => n \in Nat /\ n > 0 /\ done + n = Times(asked) + 1
  /\ pc = "leave" /\ nemu_state = "RUNNING" => done = Times(asked)

\* Watchpoints are evaluated only with DEBUG.
NoWatch == ~DEBUG => pc # "watch"

Inv == StateOfLoop /\ Balance /\ NoWatch

\* A process keeps the build it was started from.
LEMMA BuildFixed == [Next]_vars => UNCHANGED build
BY DEF Next, vars

\* What an int stands for when it is read as a uint64_t
LEMMA CountUnsigned ==
  ASSUME NEW k \in Counts \cup {-1}
  PROVE  Unsigned(k) \in Nat /\ Unsigned(k) = Times(k)
<1>1. k \in Int /\ -Modulus64 < k /\ k < Modulus64 /\ Modulus64 \in Nat /\ Modulus64 > 1
  BY MonitorAssumption
<1>2. CASE k >= 0
  <2>1. k % Modulus64 = k
    BY <1>1, <1>2
  <2> QED BY <1>1, <1>2, <2>1 DEF Unsigned, Times
<1>3. CASE k < 0
  <2>1. k % Modulus64 = Modulus64 + k
    BY <1>1, <1>3
  <2> QED BY <1>1, <1>3, <2>1 DEF Unsigned, Times
<1> QED BY <1>1, <1>2, <1>3

\* The other variables do not matter to the loop's control.
LEMMA StepKinds ==
  ASSUME [Next]_vars
  PROVE  \/ \E k \in Counts \cup {-1} :
              pc \in {"start", "prompt"} /\ Enter(k) /\ UNCHANGED guest
         \/ /\ pc \in {"start", "prompt"} /\ pc' \in {"prompt", "quit"}
            /\ UNCHANGED <<nemu_state, guest, n, asked, done>>
         \/ \E state \in {"RUNNING"} \cup Ended : ExecOnce(state)
         \/ DiffTestStep \/ CheckWatchpoint \/ CheckDone
         \/ NextIteration \/ Leave \/ DeviceQuit
         \/ UNCHANGED <<nemu_state, guest, pc, n, asked, done>>
<1>1. CASE Command
  <2>1. CASE CmdC
    BY <2>1 DEF CmdC
  <2>2. ASSUME NEW k \in Counts, CmdSi(k) PROVE Enter(k) /\ pc = "prompt" /\ UNCHANGED guest
    BY <2>2 DEF CmdSi
  <2>3. ASSUME NEW e \in Exprs, CmdW(e) PROVE UNCHANGED <<nemu_state, guest, pc, n, asked, done>>
    BY <2>3 DEF CmdW, history
  <2>4. CASE CmdWNoneFree \/ CmdQ
    BY <2>4 DEF CmdWNoneFree, CmdQ, history
  <2>5. ASSUME NEW k \in 1 .. Len(live), CmdD(k)
        PROVE  UNCHANGED <<nemu_state, guest, pc, n, asked, done>>
    BY <2>5 DEF CmdD, history
  <2> QED BY <1>1, <2>1, <2>2, <2>3, <2>4, <2>5 DEF Command
<1>2. CASE Start
  <2>1. CASE batch
    BY <1>2, <2>1 DEF Start
  <2>2. CASE ~batch
    BY <1>2, <2>2 DEF Start, history
  <2> QED BY <2>1, <2>2
<1>3. CASE UNCHANGED vars
  BY <1>3 DEF vars, history
<1> QED BY <1>1, <1>2, <1>3 DEF Next, MonitorStep

LEMMA InvStep ==
  ASSUME Inv, [Next]_vars
  PROVE  Inv'
<1> USE DEF Inv, StateOfLoop, Balance, NoWatch
<1>0. DEBUG' = DEBUG
  BY BuildFixed DEF build
<1>1. ASSUME NEW k \in Counts \cup {-1}, pc \in {"start", "prompt"}, Enter(k) PROVE Inv'
  <2>1. CASE nemu_state \in Ended
    BY <1>0, <1>1, <2>1 DEF Enter, history, Ended
  <2>2. CASE nemu_state \notin Ended
    <3>1. /\ nemu_state' = "RUNNING" /\ n' = Times(k) /\ asked' = k /\ done' = 0
          /\ pc' = IF Times(k) = 0 THEN "leave" ELSE "exec"
      BY <1>0, <1>1, <2>2, CountUnsigned DEF Enter
    <3>2. Times(k) \in Nat /\ Times(asked)' = Times(k)
      BY <3>1, CountUnsigned DEF Times
    <3> QED BY <1>0, <3>1, <3>2
  <2> QED BY <1>0, <2>1, <2>2
<1>2. ASSUME pc \in {"start", "prompt"}, pc' \in {"prompt", "quit"},
             UNCHANGED <<nemu_state, guest, n, asked, done>>
      PROVE  Inv'
  BY <1>0, <1>2
<1>3. ASSUME NEW state \in {"RUNNING"} \cup Ended, ExecOnce(state) PROVE Inv'
  <2>1. /\ pc = "exec" /\ pc' \in {"diff", "watch", "update"} /\ n' = n /\ asked' = asked
        /\ done' = done + 1 /\ (~DEBUG => pc' # "watch")
    BY <1>0, <1>3 DEF ExecOnce, AfterExec
  <2> QED BY <1>0, <2>1 DEF Times
<1>4. CASE DiffTestStep
  <2>1. /\ pc = "diff" /\ pc' \in {"watch", "update"} /\ (~DEBUG => pc' # "watch")
        /\ UNCHANGED <<n, asked, done>>
    BY <1>0, <1>4 DEF DiffTestStep, history
  <2> QED BY <1>0, <2>1
<1>5. CASE CheckWatchpoint
  BY <1>0, <1>5 DEF CheckWatchpoint, history
<1>6. CASE CheckDone
  <2>1. pc = "watch" /\ pc' = "update" /\ UNCHANGED <<n, asked, done>>
    BY <1>0, <1>6 DEF CheckDone, history
  <2> QED BY <1>0, <2>1
<1>7. CASE NextIteration
  <2>1. /\ pc = "update" /\ UNCHANGED <<asked, done, nemu_state>>
        /\ IF nemu_state = "RUNNING"
             THEN n' = n - 1 /\ pc' = IF n' = 0 THEN "leave" ELSE "exec"
             ELSE n' = n /\ pc' = "leave"
    BY <1>0, <1>7 DEF NextIteration, history
  <2>2. n \in Nat /\ n > 0 /\ done + n = Times(asked) + 1 /\ Times(asked)' = Times(asked)
    BY <1>0, <2>1 DEF Times
  <2> QED BY <1>0, <2>1, <2>2
<1>8. CASE Leave
  <2>1. /\ pc = "leave" /\ pc' \in {"quit", "prompt"} /\ UNCHANGED <<n, asked, done>>
        /\ nemu_state' # "RUNNING"
    BY <1>0, <1>8 DEF Leave, history
  <2> QED BY <1>0, <2>1
<1>9. CASE DeviceQuit
  <2>1. pc' = "quit" /\ UNCHANGED <<n, asked, done, nemu_state>>
    BY <1>0, <1>9 DEF DeviceQuit, history
  <2> QED BY <1>0, <2>1
<1>10. CASE UNCHANGED <<nemu_state, guest, pc, n, asked, done>>
  BY <1>0, <1>10
<1> QED BY <1>0, <1>1, <1>2, <1>3, <1>4, <1>5, <1>6, <1>7, <1>8, <1>9, <1>10, StepKinds

LEMMA InvCorrect == Spec => []Inv
<1>1. Init => Inv
  BY DEF Init, Inv, StateOfLoop, Balance, NoWatch, Times
<1>2. Inv /\ [Next]_vars => Inv'
  BY InvStep
<1> QED BY <1>1, <1>2, PTL DEF Spec

\* An instruction is executed only in state RUNNING, a command is read only in
\* another one, in every configuration of the three macros.
THEOREM StateOfLoopCorrect == Spec => []StateOfLoop
<1>1. Inv => StateOfLoop
  BY DEF Inv
<1> QED BY <1>1, InvCorrect, PTL

\* si k executes at most k instructions, and exactly k when nothing stops it;
\* with a k below 0, as many as 2^64 + k, like c.
THEOREM CountedCorrect == Spec => []Counted
<1>1. Inv => Counted
  BY DEF Inv, Balance, Counted
<1> QED BY <1>1, InvCorrect, PTL

\* Without DEBUG a program that has ended stays so: cpu-exec.c:35-39.
THEOREM EndedIsFinalCorrect == Spec => EndedIsFinal
<1>1. ASSUME Inv, Next, ~DEBUG, nemu_state \in Ended
      PROVE  nemu_state' = nemu_state /\ guest' = guest
  <2>1. pc # "exec" /\ pc # "watch" /\ nemu_state # "RUNNING"
    BY <1>1 DEF Inv, StateOfLoop, NoWatch, Ended
  <2>2. [Next]_vars
    BY <1>1
  <2>3. ASSUME NEW k \in Counts \cup {-1}, Enter(k) PROVE nemu_state' = nemu_state
    BY <1>1, <2>3 DEF Enter
  <2>4. DiffTestStep => nemu_state' = nemu_state /\ guest' = guest
    BY <1>1 DEF DiffTestStep, Ended
  <2> QED BY <2>1, <2>2, <2>3, <2>4, StepKinds
        DEF ExecOnce, CheckWatchpoint, CheckDone, NextIteration, Leave, DeviceQuit
<1>2. Inv /\ [Next]_vars
        => [(~DEBUG /\ nemu_state \in Ended) => (nemu_state' = nemu_state /\ guest' = guest)]_vars
  BY <1>1
<1> QED BY <1>2, InvCorrect, PTL DEF Spec, EndedIsFinal

-----------------------------------------------------------------------------
(* What the watchpoints hold                                               *)

LEMMA SeqIntro ==
  ASSUME NEW S, NEW m \in Nat, NEW s \in [1 .. m -> S]
  PROVE  s \in Seq(S) /\ Len(s) = m
OBVIOUS

LEMMA AddedOf ==
  ASSUME NEW S, NEW s \in Seq(S), NEW x \in S
  PROVE  /\ Added(s, x) \in Seq(S) /\ Len(Added(s, x)) = Len(s) + 1
         /\ Added(s, x)[Len(s) + 1] = x
         /\ \A i \in 1 .. Len(s) : Added(s, x)[i] = s[i]
<1>1. Len(s) + 1 \in Nat /\ \A i \in 1 .. Len(s) + 1 : (IF i = Len(s) + 1 THEN x ELSE s[i]) \in S
  OBVIOUS
<1>2. Added(s, x) \in [1 .. Len(s) + 1 -> S]
  BY <1>1 DEF Added
<1>3. Added(s, x) \in Seq(S) /\ Len(Added(s, x)) = Len(s) + 1
  BY <1>1, <1>2, SeqIntro
<1> QED BY <1>3 DEF Added

LEMMA PushedOf ==
  ASSUME NEW S, NEW s \in Seq(S), NEW x \in S
  PROVE  /\ Pushed(x, s) \in Seq(S) /\ Len(Pushed(x, s)) = Len(s) + 1
         /\ Pushed(x, s)[1] = x
         /\ \A i \in 2 .. Len(s) + 1 : Pushed(x, s)[i] = s[i - 1]
<1>1. Len(s) + 1 \in Nat /\ \A i \in 1 .. Len(s) + 1 : (IF i = 1 THEN x ELSE s[i - 1]) \in S
  OBVIOUS
<1>2. Pushed(x, s) \in [1 .. Len(s) + 1 -> S]
  BY <1>1 DEF Pushed
<1>3. Pushed(x, s) \in Seq(S) /\ Len(Pushed(x, s)) = Len(s) + 1
  BY <1>1, <1>2, SeqIntro
<1> QED BY <1>3 DEF Pushed

LEMMA WithoutOf ==
  ASSUME NEW S, NEW s \in Seq(S), NEW k \in 1 .. Len(s)
  PROVE  /\ Without(s, k) \in Seq(S) /\ Len(Without(s, k)) = Len(s) - 1
         /\ \A i \in 1 .. Len(s) - 1 : Without(s, k)[i] = IF i < k THEN s[i] ELSE s[i + 1]
<1>1. Len(s) - 1 \in Nat /\ \A i \in 1 .. Len(s) - 1 : (IF i < k THEN s[i] ELSE s[i + 1]) \in S
  OBVIOUS
<1>2. Without(s, k) \in [1 .. Len(s) - 1 -> S]
  BY <1>1 DEF Without
<1>3. Without(s, k) \in Seq(S) /\ Len(Without(s, k)) = Len(s) - 1
  BY <1>1, <1>2, SeqIntro
<1> QED BY <1>3 DEF Without

\* No slot is on a list twice or on both of them.
Pool ==
  /\ live \in Seq(WL!WP) /\ spare \in Seq(WL!WP)
  /\ Distinct(live) /\ Distinct(spare)
  /\ \A i \in 1 .. Len(live), j \in 1 .. Len(spare) : live[i] # spare[j]
  /\ DOMAIN value = WL!WP /\ DOMAIN expression = WL!WP

\* A watchpoint holds what its expression is worth, or was worth at the beginning.
Fresh(k) == value[live[k]] = guest[expression[live[k]]]
Seen(k) == value[live[k]] = before[expression[live[k]]]

Watched ==
  /\ pc \in {"start", "prompt", "exec", "update", "leave"} => \A k \in 1 .. Len(live) : Fresh(k)
  /\ pc \in {"exec", "diff"} => \A k \in 1 .. Len(live) : Seen(k)
  /\ pc = "diff" => cursor = 1
  /\ pc = "watch" =>
       /\ cursor \in Nat \ {0}
       /\ \A k \in 1 .. Len(live) : /\ k < cursor => Fresh(k)
                                    /\ k >= cursor \/ ~changed => Seen(k)
  /\ pc = "update" /\ nemu_state = "RUNNING" => \A k \in 1 .. Len(live) : Seen(k)

WInv == Pool /\ (DEBUG => Watched)

LEMMA PoolSet ==
  ASSUME Pool, spare # << >>, live' = Added(live, spare[1]), spare' = Without(spare, 1),
         DOMAIN value' = WL!WP, DOMAIN expression' = WL!WP
  PROVE  Pool'
<1>1. /\ 1 \in 1 .. Len(spare) /\ spare[1] \in WL!WP /\ live \in Seq(WL!WP) /\ spare \in Seq(WL!WP)
      /\ Len(live) \in Nat /\ Len(spare) \in Nat
  BY DEF Pool
<1> DEFINE new == spare[1]
<1>2. /\ live' \in Seq(WL!WP) /\ Len(live') = Len(live) + 1 /\ live'[Len(live) + 1] = spare[1]
      /\ \A i \in 1 .. Len(live) : live'[i] = live[i]
  <2>1. new \in WL!WP /\ live' = Added(live, new)
    BY <1>1
  <2>2. /\ Added(live, new) \in Seq(WL!WP) /\ Len(Added(live, new)) = Len(live) + 1
        /\ Added(live, new)[Len(live) + 1] = new
        /\ \A i \in 1 .. Len(live) : Added(live, new)[i] = live[i]
    <3>1. live \in Seq(WL!WP) /\ new \in WL!WP
      BY <1>1
    <3> DEFINE made == Added(live, new)
    <3>2. made \in Seq(WL!WP) /\ Len(made) = Len(live) + 1
      <4> HIDE DEF new
      <4> QED BY <3>1, AddedOf
    <3>3. made[Len(live) + 1] = new /\ \A i \in 1 .. Len(live) : made[i] = live[i]
      BY <1>1 DEF Added
    <3> QED BY <3>2, <3>3
  <2> QED BY <2>1, <2>2
<1>3. /\ spare' \in Seq(WL!WP) /\ Len(spare') = Len(spare) - 1
      /\ \A i \in 1 .. Len(spare) - 1 : spare'[i] = spare[i + 1]
  <2>1. /\ Without(spare, 1) \in Seq(WL!WP) /\ Len(Without(spare, 1)) = Len(spare) - 1
        /\ \A i \in 1 .. Len(spare) - 1 : Without(spare, 1)[i] = IF i < 1 THEN spare[i] ELSE spare[i + 1]
    BY <1>1, WithoutOf
  <2> QED BY <1>1, <2>1
<1>4. Distinct(live')
  BY <1>1, <1>2 DEF Pool, Distinct
<1>5. ASSUME NEW i \in 1 .. Len(spare'), NEW j \in 1 .. Len(spare'), spare'[i] = spare'[j] PROVE i = j
  <2>1. i + 1 \in 1 .. Len(spare) /\ j + 1 \in 1 .. Len(spare) /\ spare[i + 1] = spare[j + 1]
    <3>1. i \in 1 .. Len(spare) - 1 /\ j \in 1 .. Len(spare) - 1
      BY <1>3
    <3>2. spare[i + 1] = spare[j + 1]
      BY <1>3, <1>5, <3>1
    <3> QED BY <1>1, <3>1, <3>2
  <2> QED BY <2>1 DEF Pool, Distinct
<1>6. ASSUME NEW i \in 1 .. Len(live'), NEW j \in 1 .. Len(spare') PROVE live'[i] # spare'[j]
  <2>1. j + 1 \in 1 .. Len(spare) /\ spare'[j] = spare[j + 1] /\ j + 1 # 1
    BY <1>1, <1>3 DEF Pool
  <2>2. CASE i = Len(live) + 1
    BY <1>1, <1>2, <2>1, <2>2 DEF Pool, Distinct
  <2>3. CASE i # Len(live) + 1
    <3>1. i \in 1 .. Len(live)
      BY <1>2, <2>3 DEF Pool
    <3> QED BY <1>2, <2>1, <3>1 DEF Pool
  <2> QED BY <2>2, <2>3
<1> QED BY <1>2, <1>3, <1>4, <1>5, <1>6 DEF Pool, Distinct

LEMMA PoolDelete ==
  ASSUME Pool, NEW k \in 1 .. Len(live), live' = Without(live, k), spare' = Pushed(live[k], spare),
         UNCHANGED <<value, expression>>
  PROVE  /\ Pool'
         /\ Len(live') = Len(live) - 1
         /\ \A i \in 1 .. Len(live') : \E j \in 1 .. Len(live) : j # k /\ live'[i] = live[j]
<1>1. /\ live[k] \in WL!WP /\ Len(live) \in Nat /\ Len(spare) \in Nat
      /\ live \in Seq(WL!WP) /\ spare \in Seq(WL!WP)
  BY DEF Pool
<1> DEFINE old == live[k]
<1>2. /\ live' \in Seq(WL!WP) /\ Len(live') = Len(live) - 1
      /\ \A i \in 1 .. Len(live) - 1 : live'[i] = IF i < k THEN live[i] ELSE live[i + 1]
  BY WithoutOf DEF Pool
<1>3. /\ spare' \in Seq(WL!WP) /\ Len(spare') = Len(spare) + 1 /\ spare'[1] = live[k]
      /\ \A i \in 2 .. Len(spare) + 1 : spare'[i] = spare[i - 1]
  <2>1. old \in WL!WP /\ spare' = Pushed(old, spare)
    BY <1>1
  <2>2. /\ Pushed(old, spare) \in Seq(WL!WP) /\ Len(Pushed(old, spare)) = Len(spare) + 1
        /\ Pushed(old, spare)[1] = old
        /\ \A i \in 2 .. Len(spare) + 1 : Pushed(old, spare)[i] = spare[i - 1]
    <3>1. spare \in Seq(WL!WP) /\ old \in WL!WP
      BY <1>1
    <3> HIDE DEF old
    <3> QED BY <3>1, PushedOf, ZenonT(60)
  <2> QED BY <2>1, <2>2
<1> DEFINE at(i) == IF i < k THEN i ELSE i + 1
<1>4. \A i \in 1 .. Len(live') : at(i) \in 1 .. Len(live) /\ at(i) # k /\ live'[i] = live[at(i)]
  BY <1>1, <1>2
<1>5. \A i, j \in 1 .. Len(live') : at(i) = at(j) => i = j
  BY <1>1, <1>2
<1> HIDE DEF at
<1>6. Distinct(live')
  BY <1>4, <1>5 DEF Pool, Distinct
<1>7. ASSUME NEW i \in 1 .. Len(spare') PROVE i = 1 \/ (i - 1 \in 1 .. Len(spare) /\ spare'[i] = spare[i - 1])
  BY <1>1, <1>3
<1>8. ASSUME NEW i \in 1 .. Len(spare'), NEW j \in 1 .. Len(spare'), spare'[i] = spare'[j] PROVE i = j
  <2>1. CASE i = 1 /\ j = 1
    BY <2>1
  <2>2. CASE i = 1 /\ j # 1
    BY <1>3, <1>7, <1>8, <2>2 DEF Pool
  <2>3. CASE i # 1 /\ j = 1
    BY <1>3, <1>7, <1>8, <2>3 DEF Pool
  <2>4. CASE i # 1 /\ j # 1
    <3>1. i - 1 = j - 1
      BY <1>7, <1>8, <2>4, SMTT(60) DEF Pool, Distinct
    <3> QED BY <1>1, <1>3, <3>1
  <2> QED BY <2>1, <2>2, <2>3, <2>4
<1>9. ASSUME NEW i \in 1 .. Len(live'), NEW j \in 1 .. Len(spare') PROVE live'[i] # spare'[j]
  <2>1. CASE j = 1
    BY <1>3, <1>4, <2>1, SMTT(60) DEF Pool, Distinct
  <2>2. CASE j # 1
    BY <1>4, <1>7, <2>2 DEF Pool
  <2> QED BY <2>1, <2>2
<1>10. Pool'
  BY <1>2, <1>3, <1>6, <1>8, <1>9 DEF Pool, Distinct
<1> QED BY <1>2, <1>4, <1>10

\* WatchpointList has its own instance of the operators on sequences.
LEMMA SameOps ==
  ASSUME NEW s, NEW x
  PROVE  /\ WL!Added(s, x) = Added(s, x) /\ WL!Pushed(x, s) = Pushed(x, s)
         /\ WL!Without(s, x) = Without(s, x)
BY DEF WL!Added, Added, WL!Pushed, Pushed, WL!Without, Without

\* A walk has refreshed the watchpoint it is at.
LEMMA RefreshStep ==
  ASSUME Pool, DEBUG, Watched, DEBUG' = DEBUG, CheckWatchpoint
  PROVE  Watched'
<1>1. /\ pc = "watch" /\ pc' = "watch" /\ cursor \in 1 .. Len(live) /\ cursor' = cursor + 1
      /\ value' = [value EXCEPT ![live[cursor]] = guest[expression[live[cursor]]]]
      /\ changed' = (changed \/ guest[expression[live[cursor]]] # value[live[cursor]])
      /\ UNCHANGED <<live, expression, guest, before>>
  <2>1. pc = "watch" /\ pc' = pc /\ cursor <= Len(live) /\ cursor' = cursor + 1 /\ before' = before
    BY DEF CheckWatchpoint, history
  <2>2. cursor \in 1 .. Len(live)
    BY <2>1 DEF Watched, Pool
  <2> QED BY <2>1, <2>2 DEF CheckWatchpoint, WL!Refresh
<1>2. live[cursor] \in DOMAIN value
  BY <1>1 DEF Pool
<1>3. ASSUME NEW k \in 1 .. Len(live), k # cursor PROVE value'[live[k]] = value[live[k]]
  <2>1. live[k] # live[cursor] /\ live[k] \in DOMAIN value
    BY <1>1, <1>3 DEF Pool, Distinct
  <2> QED BY <1>1, <2>1
<1>4. value'[live[cursor]] = guest[expression[live[cursor]]]
  BY <1>1, <1>2
<1>5. ASSUME ~changed' PROVE ~changed /\ guest[expression[live[cursor]]] = value[live[cursor]]
  BY <1>1, <1>5, Zenon
<1>6. ASSUME NEW k \in 1 .. Len(live), k < cursor + 1 PROVE Fresh(k)'
  <2>1. CASE k = cursor
    BY <1>1, <1>4, <2>1 DEF Fresh
  <2>2. CASE k # cursor
    <3>1. k < cursor
      BY <1>1, <1>6, <2>2
    <3>2. Fresh(k)
      BY <1>1, <3>1 DEF Watched
    <3> QED BY <1>1, <1>3, <2>2, <3>2 DEF Fresh
  <2> QED BY <2>1, <2>2
<1>7. ASSUME NEW k \in 1 .. Len(live), k >= cursor + 1 \/ ~changed' PROVE Seen(k)'
  <2>1. CASE k = cursor
    <3>1. ~changed'
      BY <1>1, <1>7, <2>1
    <3>2. Seen(cursor)
      BY <1>1 DEF Watched
    <3> QED BY <1>1, <1>4, <1>5, <2>1, <3>1, <3>2 DEF Seen
  <2>2. CASE k # cursor
    <3>1. k >= cursor \/ ~changed
      BY <1>1, <1>5, <1>7, <2>2
    <3>2. Seen(k)
      BY <1>1, <3>1 DEF Watched
    <3> QED BY <1>1, <1>3, <2>2, <3>2 DEF Seen
  <2> QED BY <2>1, <2>2
<1>8. cursor' \in Nat \ {0}
  BY <1>1
<1> QED BY <1>1, <1>6, <1>7, <1>8 DEF Watched

\* What a cpu_exec that begins has seen is what the watchpoints hold.
LEMMA EnterStep ==
  ASSUME Pool, DEBUG => Watched, DEBUG' = DEBUG, NEW k \in Counts \cup {-1},
         pc \in {"start", "prompt"}, Enter(k), UNCHANGED <<wps, guest, cursor, changed, batch>>
  PROVE  WInv'
<1>1. UNCHANGED <<live, spare, value, expression, guest>>
  BY DEF wps
<1>2. Pool'
  BY <1>1 DEF Pool
<1>3. CASE nemu_state \in Ended
  <2>1. pc' \in {"quit", "prompt"} /\ before' = before
    BY <1>3 DEF Enter, history
  <2> QED BY <1>1, <1>2, <2>1 DEF WInv, Watched, Fresh, Seen
<1>4. CASE nemu_state \notin Ended
  <2>1. pc' \in {"leave", "exec"} /\ before' = guest
    BY <1>4 DEF Enter
  <2> QED BY <1>1, <1>2, <2>1 DEF WInv, Watched, Fresh, Seen
<1> QED BY <1>3, <1>4

LEMMA WInvStep ==
  ASSUME WInv, [Next]_vars
  PROVE  WInv'
<1>0. DEBUG' = DEBUG
  BY BuildFixed DEF build
<1> USE DEF WInv
<1>1. ASSUME NEW k \in Counts \cup {-1}, pc \in {"start", "prompt"}, Enter(k),
             UNCHANGED <<wps, guest, cursor, changed, batch>>
      PROVE  WInv'
  BY <1>0, <1>1, EnterStep
<1>2. ASSUME pc \in {"start", "prompt"}, pc' \in {"prompt", "quit"},
             UNCHANGED <<wps, guest, before>>
      PROVE  WInv'
  <2>1. UNCHANGED <<live, spare, value, expression>>
    BY <1>2 DEF wps
  <2> QED BY <1>0, <1>2, <2>1 DEF Pool, Watched, Fresh, Seen
<1>3. ASSUME NEW e \in Exprs, CmdW(e) PROVE WInv'
  <2>1. /\ pc = "prompt" /\ pc' = pc /\ spare # << >> /\ guest' = guest
        /\ live' = Added(live, spare[1]) /\ spare' = Without(spare, 1)
        /\ expression' = [expression EXCEPT ![spare[1]] = e]
        /\ value' = [value EXCEPT ![spare[1]] = guest[e]]
    BY <1>3, SameOps DEF CmdW, WL!Set
  <2>2. Pool'
    BY <2>1, PoolSet DEF Pool
  <2>3. spare[1] \in WL!WP /\ Len(live) \in Nat /\ 1 \in 1 .. Len(spare)
    BY <2>1 DEF Pool
  <2>4. ASSUME DEBUG, NEW k \in 1 .. Len(live') PROVE Fresh(k)'
    <3>1. Len(live') = Len(live) + 1
      BY <2>1, <2>3, SeqIntro DEF Added
    <3>2. CASE k = Len(live) + 1
      <4>1. live'[k] = spare[1]
        BY <2>1, <2>3, <3>2 DEF Added
      <4> QED BY <2>1, <2>3, <4>1 DEF Fresh, Pool
    <3>3. CASE k # Len(live) + 1
      <4>1. k \in 1 .. Len(live) /\ live'[k] = live[k]
        BY <2>1, <2>3, <3>1, <3>3 DEF Added
      <4>2. live[k] # spare[1] /\ live[k] \in WL!WP
        BY <2>3, <4>1 DEF Pool
      <4>3. value'[live[k]] = value[live[k]] /\ expression'[live[k]] = expression[live[k]]
        BY <2>1, <4>2 DEF Pool
      <4>4. Fresh(k)
        BY <2>1, <2>4, <4>1 DEF Watched
      <4> QED BY <2>1, <4>1, <4>3, <4>4 DEF Fresh
    <3> QED BY <3>2, <3>3
  <2> QED BY <1>0, <2>1, <2>2, <2>4 DEF Watched
<1>4. CASE CmdWNoneFree
  <2>1. pc = "prompt" /\ pc' = "quit" /\ UNCHANGED <<live, spare, value, expression, guest, before>>
    BY <1>4 DEF CmdWNoneFree, WL!Exhausted, history
  <2> QED BY <1>0, <2>1 DEF Pool, Watched, Fresh, Seen
<1>5. ASSUME NEW k \in 1 .. Len(live), CmdD(k) PROVE WInv'
  <2>1. /\ pc = "prompt" /\ pc' = pc /\ guest' = guest /\ UNCHANGED <<value, expression>>
        /\ live' = Without(live, k) /\ spare' = Pushed(live[k], spare)
    BY <1>5, SameOps DEF CmdD, WL!Delete
  <2>2. /\ Pool'
        /\ \A i \in 1 .. Len(live') : \E j \in 1 .. Len(live) : j # k /\ live'[i] = live[j]
    BY <2>1, PoolDelete
  <2>3. ASSUME DEBUG, NEW i \in 1 .. Len(live') PROVE Fresh(i)'
    <3>1. PICK j \in 1 .. Len(live) : live'[i] = live[j]
      BY <2>2
    <3>2. Fresh(j)
      BY <2>1, <2>3 DEF Watched
    <3> QED BY <2>1, <3>1, <3>2 DEF Fresh
  <2> QED BY <1>0, <2>1, <2>2, <2>3 DEF Watched
<1>6. ASSUME NEW state \in {"RUNNING"} \cup Ended, ExecOnce(state) PROVE WInv'
  <2>1. /\ pc = "exec" /\ pc' \in {"diff", "watch", "update"} /\ (DEBUG => pc' # "update")
        /\ cursor' = 1 /\ before' = before /\ UNCHANGED <<live, spare, value, expression>>
    BY <1>6 DEF ExecOnce, AfterExec, wps
  <2> QED BY <1>0, <2>1 DEF Pool, Watched, Fresh, Seen
<1>7. CASE DiffTestStep
  <2>1. /\ pc = "diff" /\ pc' = (IF DEBUG THEN "watch" ELSE "update") /\ cursor' = cursor
        /\ UNCHANGED <<live, spare, value, expression, guest, before>>
    BY <1>7 DEF DiffTestStep, wps, history
  <2> QED BY <1>0, <2>1 DEF Pool, Watched, Fresh, Seen
<1>8. CASE CheckWatchpoint
  <2>1. Pool'
    <3>1. UNCHANGED <<live, spare, expression>> /\ DOMAIN value' = DOMAIN value
      BY <1>8 DEF CheckWatchpoint, WL!Refresh
    <3> QED BY <3>1 DEF Pool
  <2> QED BY <1>0, <1>8, <2>1, RefreshStep
<1>9. CASE CheckDone
  <2>1. /\ pc = "watch" /\ pc' = "update" /\ cursor > Len(live)
        /\ (nemu_state' = "RUNNING" => ~changed)
        /\ UNCHANGED <<live, spare, value, expression, guest, before>>
    BY <1>9 DEF CheckDone, wps, history
  <2>2. Pool'
    BY <2>1 DEF Pool
  <2>3. ASSUME DEBUG, NEW k \in 1 .. Len(live)
        PROVE  Fresh(k) /\ (nemu_state' = "RUNNING" => Seen(k))
    <3>1. k < cursor
      BY <2>1, <2>3 DEF Pool, Watched
    <3> QED BY <2>1, <2>3, <3>1 DEF Watched
  <2> QED BY <1>0, <2>1, <2>2, <2>3 DEF Watched, Fresh, Seen
<1>10. CASE NextIteration
  <2>1. /\ pc = "update" /\ pc' \in {"exec", "leave"} /\ (pc' = "exec" => nemu_state = "RUNNING")
        /\ UNCHANGED <<live, spare, value, expression, guest, before>>
    BY <1>10 DEF NextIteration, wps, history
  <2> QED BY <1>0, <2>1 DEF Pool, Watched, Fresh, Seen
<1>11. CASE Leave
  <2>1. /\ pc = "leave" /\ pc' \in {"prompt", "quit"}
        /\ UNCHANGED <<live, spare, value, expression, guest, before>>
    BY <1>11 DEF Leave, wps, history
  <2> QED BY <1>0, <2>1 DEF Pool, Watched, Fresh, Seen
<1>12. CASE DeviceQuit
  <2>1. pc' = "quit" /\ UNCHANGED <<live, spare, value, expression, guest, before>>
    BY <1>12 DEF DeviceQuit, wps, history
  <2> QED BY <1>0, <2>1 DEF Pool, Watched, Fresh, Seen
<1>13. CASE Start
  <2>1. CASE batch
    BY <1>1, <1>13, <2>1 DEF Start
  <2>2. CASE ~batch
    BY <1>2, <1>13, <2>2 DEF Start, history
  <2> QED BY <2>1, <2>2
<1>14. CASE CmdC \/ \E k \in Counts : CmdSi(k)
  BY <1>1, <1>14 DEF CmdC, CmdSi
<1>15. CASE CmdQ
  BY <1>2, <1>15 DEF CmdQ, history
<1>16. CASE UNCHANGED vars
  BY <1>16 DEF vars, build, wps, history, Pool, Watched, Fresh, Seen
<1> QED BY <1>3, <1>4, <1>5, <1>6, <1>7, <1>8, <1>9, <1>10, <1>11, <1>12, <1>13, <1>14, <1>15, <1>16
        DEF Next, Command, MonitorStep

LEMMA WInvCorrect == Spec => []WInv
<1>1. Init => WInv
  <2> SUFFICES ASSUME Init PROVE WInv
    OBVIOUS
  <2>1. live = << >> /\ spare = [i \in 1 .. NR_WP |-> i - 1] /\ NR_WP \in Nat /\ pc = "start"
        /\ DOMAIN value = WL!WP /\ DOMAIN expression = WL!WP
    BY MonitorAssumption DEF Init, WL!Init
  <2>2. spare \in [1 .. NR_WP -> WL!WP]
    BY <2>1 DEF WL!WP
  <2>3. spare \in Seq(WL!WP) /\ Len(spare) = NR_WP
    BY <2>1, <2>2, SeqIntro
  <2>4. Distinct(spare)
    BY <2>1, <2>3 DEF Distinct
  <2> QED BY <2>1, <2>3, <2>4 DEF WInv, Pool, Watched, Distinct
<1> QED BY <1>1, WInvStep, PTL DEF Spec

\* With DEBUG, whatever the user sets and deletes, one pass refreshes every watchpoint.
THEOREM ValuesFreshCorrect == Spec => []ValuesFresh
<1>1. WInv => ValuesFresh
  BY DEF WInv, Watched, Fresh, ValuesFresh
<1> QED BY <1>1, WInvCorrect, PTL

\* With DEBUG the program never runs past a change of a watched expression, for any number
\* of watchpoints and changes.
THEOREM NoChangeMissedCorrect == Spec => []NoChangeMissed
<1>1. WInv => NoChangeMissed
  BY DEF WInv, Watched, Fresh, Seen, NoChangeMissed
<1> QED BY <1>1, WInvCorrect, PTL

-----------------------------------------------------------------------------
(* Flat expressions: ExprEval                                              *)

\* What the generator writes: an operand ends the expression or has an operator or a
\* closing parenthesis behind it, and none closes that was not opened.
Token == {Open} \cup {Num(v) : v \in Numbers} \cup {Tok(x) : x \in {"(", ")", "*"} \cup Binary}
Ends == {"open", "num", ")"}
Shaped(b) ==
  /\ b \in Seq(Token) /\ Len(b) \in Nat /\ Len(b) >= 1
  /\ \A i \in 1 .. Len(b) : Type(b, i) \in Ends /\ i # Len(b) => Type(b, i + 1) \in Binary \cup {")"}
  /\ Type(b, Len(b)) \in Ends
  /\ \A i \in 1 .. Len(b) : Type(b, i) = ")" => \E j \in 1 .. Len(b) : Type(b, j) = "("

LEMMA Binaries == "open" \notin Binary /\ "num" \notin Binary /\ "(" \notin Binary /\ ")" \notin Binary
  BY ExprAssumption

LEMMA PlaceIsOpen ==
  ASSUME buf \in Seq(Token), Place # 0
  PROVE  Place \in 1 .. Len(buf) /\ buf[Place] = Open
<1> DEFINE I == {i \in 1 .. Len(buf) : buf[i] = Open}
<1>1. Place = IF I # {} THEN CHOOSE x \in I : \A y \in I : x =< y ELSE 0
  BY DEF Place, SelectInSeq, Min
<1>2. I \in SUBSET Nat
  OBVIOUS
<1>3. I # {} /\ Place = CHOOSE x \in I : \A y \in I : x =< y
  BY <1>1
<1>4. \A i \in I : i \in 1 .. Len(buf) /\ buf[i] = Open
  OBVIOUS
<1> HIDE DEF I
<1>5. \E x \in I : \A y \in I : x =< y
  BY <1>2, <1>3, LeastNat
<1>6. Place \in I
  BY <1>3, <1>5, Zenon
<1> QED  BY <1>4, <1>6

\* One place is rewritten.
Splice(b, p, new, b2) == b2 = SubSeq(b, 1, p - 1) \o new \o SubSeq(b, p + 1, Len(b))

LEMMA Spliced ==
  ASSUME NEW b \in Seq(Token), NEW p \in 1 .. Len(b), NEW new \in Seq(Token), NEW z \in Nat, z = Len(new),
         NEW b2, Splice(b, p, new, b2)
  PROVE  /\ b2 \in Seq(Token) /\ Len(b2) = Len(b) + z - 1
         /\ \A i \in 1 .. p - 1 : b2[i] = b[i]
         /\ \A i \in 1 .. z : b2[p + i - 1] = new[i]
         /\ \A i \in p + 1 .. Len(b) : b2[i + z - 1] = b[i]
<1> DEFINE l == SubSeq(b, 1, p - 1)
           r == SubSeq(b, p + 1, Len(b))
<1>0. PICK m \in Nat : m = Len(b) /\ p \in 1 .. m
  OBVIOUS
<1>1. l \in Seq(Token) /\ Len(l) = p - 1 /\ \A i \in 1 .. p - 1 : l[i] = b[i]
  OBVIOUS
<1>2. r \in Seq(Token) /\ Len(r) = Len(b) - p /\ \A i \in 1 .. Len(b) - p : r[i] = b[i + p]
  OBVIOUS
<1> DEFINE ln == l \o new
<1>3. ln \in Seq(Token) /\ Len(ln) = p - 1 + z
      /\ \A i \in 1 .. p - 1 + z : ln[i] = IF i <= p - 1 THEN l[i] ELSE new[i - (p - 1)]
  <2> HIDE DEF l
  <2>1. /\ ln \in Seq(Token) /\ Len(ln) = Len(l) + Len(new)
        /\ \A i \in 1 .. Len(l) + Len(new) : ln[i] = IF i <= Len(l) THEN l[i] ELSE new[i - Len(l)]
    BY <1>1, ConcatProperties
  <2> QED  BY <1>1, <2>1, Zenon
<1>4. b2 = ln \o r
  BY DEF Splice
<1>5. b2 \in Seq(Token) /\ Len(b2) = p - 1 + z + (Len(b) - p)
      /\ \A i \in 1 .. p - 1 + z + (Len(b) - p) :
           b2[i] = IF i <= p - 1 + z THEN ln[i] ELSE r[i - (p - 1 + z)]
  <2> HIDE DEF ln, r
  <2>1. /\ b2 \in Seq(Token) /\ Len(b2) = Len(ln) + Len(r)
        /\ \A i \in 1 .. Len(ln) + Len(r) : b2[i] = IF i <= Len(ln) THEN ln[i] ELSE r[i - Len(ln)]
    <3> DEFINE v == ln \o r
    <3>1. /\ v \in Seq(Token) /\ Len(v) = Len(ln) + Len(r)
          /\ \A i \in 1 .. Len(ln) + Len(r) : v[i] = IF i <= Len(ln) THEN ln[i] ELSE r[i - Len(ln)]
      BY <1>2, <1>3, ConcatProperties
    <3> QED  BY <1>4, <3>1, Zenon
  <2> QED  BY <1>2, <1>3, <2>1, Zenon
<1> HIDE DEF l, r, ln
<1>6. ASSUME NEW i \in 1 .. p - 1 PROVE b2[i] = b[i]
  <2>1. i \in 1 .. p - 1 + z /\ i <= p - 1 /\ i <= p - 1 + z /\ i \in 1 .. p - 1 + z + (Len(b) - p)
    BY <1>0
  <2>2. b2[i] = ln[i] /\ ln[i] = l[i]
    BY <1>3, <1>5, <2>1, Zenon
  <2> QED  BY <1>1, <2>2, Zenon
<1>7. ASSUME NEW i \in 1 .. z PROVE b2[p + i - 1] = new[i]
  <2> DEFINE j == p + i - 1
  <2>1. j \in 1 .. p - 1 + z /\ ~(j <= p - 1) /\ j - (p - 1) = i /\ j \in 1 .. p - 1 + z + (Len(b) - p)
        /\ j <= p - 1 + z
    BY <1>0
  <2> HIDE DEF j
  <2>2. b2[j] = ln[j] /\ ln[j] = new[j - (p - 1)]
    BY <1>3, <1>5, <2>1, Zenon
  <2>3. b2[j] = new[i]
    BY <2>1, <2>2, Zenon
  <2> QED  BY <2>3 DEF j
<1>8. ASSUME NEW i \in p + 1 .. Len(b) PROVE b2[i + z - 1] = b[i]
  <2> DEFINE j == i + z - 1
             k == i - p
  <2>1. j \in 1 .. p - 1 + z + (Len(b) - p) /\ ~(j <= p - 1 + z) /\ j - (p - 1 + z) = k
        /\ k \in 1 .. Len(b) - p /\ k + p = i
    BY <1>0
  <2> HIDE DEF j, k
  <2>2. b2[j] = r[j - (p - 1 + z)] /\ r[k] = b[k + p]
    BY <1>2, <1>5, <2>1, Zenon
  <2>3. b2[j] = b[i]
    BY <2>1, <2>2, Zenon
  <2> QED  BY <2>3 DEF j
<1>9. p - 1 + z + (Len(b) - p) = Len(b) + z - 1
  BY <1>0
<1> QED  BY <1>5, <1>6, <1>7, <1>8, <1>9, Zenon

LEMMA ShapeSpliced ==
  ASSUME NEW b, Shaped(b), NEW p \in 1 .. Len(b), b[p] = Open, NEW new, Shaped(new),
         NEW b2, Splice(b, p, new, b2)
  PROVE  Shaped(b2)
<1> DEFINE z == Len(new)
           m == Len(b)
<1>1. b \in Seq(Token) /\ new \in Seq(Token) /\ z \in Nat /\ z >= 1 /\ m \in Nat /\ p \in 1 .. m
  BY DEF Shaped
<1>2. /\ b2 \in Seq(Token) /\ Len(b2) = m + z - 1
      /\ \A i \in 1 .. p - 1 : b2[i] = b[i]
      /\ \A i \in 1 .. z : b2[p + i - 1] = new[i]
      /\ \A i \in p + 1 .. m : b2[i + z - 1] = b[i]
  BY <1>1, Spliced
<1>3. /\ \A i \in 1 .. m : Type(b, i) \in Ends /\ i # m => Type(b, i + 1) \in Binary \cup {")"}
      /\ Type(b, m) \in Ends
      /\ \A i \in 1 .. m : Type(b, i) = ")" => \E j \in 1 .. m : Type(b, j) = "("
  BY DEF Shaped
<1>4. /\ \A i \in 1 .. z : Type(new, i) \in Ends /\ i # z => Type(new, i + 1) \in Binary \cup {")"}
      /\ Type(new, z) \in Ends
      /\ \A i \in 1 .. z : Type(new, i) = ")" => \E j \in 1 .. z : Type(new, j) = "("
  BY DEF Shaped
<1>5. Type(b, p) = "open"
  BY DEF Type, Open
<1> HIDE DEF z, m
<1>6. /\ \A i \in 1 .. p - 1 : Type(b2, i) = Type(b, i)
      /\ \A i \in 1 .. z : Type(b2, p + i - 1) = Type(new, i)
      /\ \A i \in p + 1 .. m : Type(b2, i + z - 1) = Type(b, i)
  BY <1>2, Zenon DEF Type
<1>7. ASSUME NEW i \in 1 .. m + z - 1
      PROVE  \/ i \in 1 .. p - 1
             \/ \E j \in 1 .. z : i = p + j - 1
             \/ \E j \in p + 1 .. m : i = j + z - 1
  <2>1. CASE i < p
    BY <2>1
  <2>2. CASE p <= i /\ i < p + z
    <3>1. i - p + 1 \in 1 .. z /\ i = p + (i - p + 1) - 1
      BY <1>1, <2>2
    <3> QED  BY <3>1
  <2>3. CASE p + z <= i
    <3>1. i - z + 1 \in p + 1 .. m /\ i = (i - z + 1) + z - 1
      BY <1>1, <2>3
    <3> QED  BY <3>1
  <2> QED  BY <1>1, <2>1, <2>2, <2>3
<1>8. ASSUME NEW i \in 1 .. m + z - 1, Type(b2, i) \in Ends, i # m + z - 1
      PROVE  Type(b2, i + 1) \in Binary \cup {")"}
  <2>1. CASE i \in 1 .. p - 1
    <3>1. Type(b, i) \in Ends /\ i \in 1 .. m /\ i # m
      BY <1>1, <1>6, <1>8, <2>1
    <3>2. Type(b, i + 1) \in Binary \cup {")"}
      BY <1>3, <3>1
    <3>3. i + 1 # p
      BY <1>5, <3>2, Binaries
    <3>4. i + 1 \in 1 .. p - 1
      BY <1>1, <2>1, <3>3
    <3> QED  BY <1>6, <3>2, <3>4
  <2>2. ASSUME NEW j \in 1 .. z, i = p + j - 1 PROVE Type(b2, i + 1) \in Binary \cup {")"}
    <3>1. CASE j # z
      <4>1. Type(new, j) \in Ends
        BY <1>6, <1>8, <2>2
      <4>2. Type(new, j + 1) \in Binary \cup {")"} /\ j + 1 \in 1 .. z /\ p + (j + 1) - 1 = i + 1
        BY <1>1, <1>4, <2>2, <3>1, <4>1
      <4> QED  BY <1>6, <4>2
    <3>2. CASE j = z
      <4>1. p # m /\ p + 1 \in p + 1 .. m /\ (p + 1) + z - 1 = i + 1
        BY <1>1, <1>8, <2>2, <3>2
      <4>2. Type(b, p + 1) \in Binary \cup {")"}
        BY <1>1, <1>3, <1>5, <4>1 DEF Ends
      <4> QED  BY <1>6, <4>1, <4>2
    <3> QED  BY <3>1, <3>2
  <2>3. ASSUME NEW j \in p + 1 .. m, i = j + z - 1 PROVE Type(b2, i + 1) \in Binary \cup {")"}
    <3>1. Type(b, j) \in Ends /\ j \in 1 .. m /\ j # m
      BY <1>1, <1>6, <1>8, <2>3
    <3>2. Type(b, j + 1) \in Binary \cup {")"} /\ j + 1 \in p + 1 .. m /\ (j + 1) + z - 1 = i + 1
      BY <1>1, <1>3, <2>3, <3>1
    <3> QED  BY <1>6, <3>2
  <2> QED  BY <1>7, <2>1, <2>2, <2>3
<1>9. Type(b2, m + z - 1) \in Ends
  <2>1. CASE p = m
    <3>1. z \in 1 .. z /\ p + z - 1 = m + z - 1
      BY <1>1, <2>1
    <3> QED  BY <1>4, <1>6, <3>1
  <2>2. CASE p # m
    <3>1. m \in p + 1 .. m
      BY <1>1, <2>2
    <3> QED  BY <1>3, <1>6, <3>1
  <2> QED  BY <2>1, <2>2
<1>10. ASSUME NEW i \in 1 .. m, Type(b, i) = "("
       PROVE  \E j \in 1 .. m + z - 1 : Type(b2, j) = "("
  <2>1. CASE i < p
    <3>1. i \in 1 .. p - 1 /\ i \in 1 .. m + z - 1
      BY <1>1, <2>1
    <3> QED  BY <1>6, <1>10, <3>1
  <2>2. CASE i > p
    <3>1. i \in p + 1 .. m /\ i + z - 1 \in 1 .. m + z - 1
      BY <1>1, <2>2
    <3> QED  BY <1>6, <1>10, <3>1
  <2> QED  BY <1>1, <1>5, <1>10, <2>1, <2>2
<1>11. ASSUME NEW i \in 1 .. m + z - 1, Type(b2, i) = ")"
       PROVE  \E j \in 1 .. m + z - 1 : Type(b2, j) = "("
  <2>1. CASE i \in 1 .. p - 1
    <3>1. Type(b, i) = ")" /\ i \in 1 .. m
      BY <1>1, <1>6, <1>11, <2>1
    <3> QED  BY <1>3, <1>10, <3>1
  <2>2. ASSUME NEW j \in 1 .. z, i = p + j - 1 PROVE \E k \in 1 .. m + z - 1 : Type(b2, k) = "("
    <3>1. Type(new, j) = ")"
      BY <1>6, <1>11, <2>2
    <3>2. PICK k \in 1 .. z : Type(new, k) = "("
      BY <1>4, <3>1
    <3>3. p + k - 1 \in 1 .. m + z - 1 /\ Type(b2, p + k - 1) = "("
      BY <1>1, <1>6, <3>2
    <3> QED  BY <3>3
  <2>3. ASSUME NEW j \in p + 1 .. m, i = j + z - 1 PROVE \E k \in 1 .. m + z - 1 : Type(b2, k) = "("
    <3>1. Type(b, j) = ")" /\ j \in 1 .. m
      BY <1>1, <1>6, <1>11, <2>3
    <3> QED  BY <1>3, <1>10, <3>1
  <2> QED  BY <1>7, <2>1, <2>2, <2>3
<1>12. m + z - 1 \in Nat /\ m + z - 1 >= 1
  BY <1>1
<1> QED  BY <1>2, <1>8, <1>9, <1>11, <1>12 DEF Shaped

\* What the generator puts in a place has the shape, too.
LEMMA NewShaped ==
  /\ \A v \in Numbers : Shaped(<<Num(v)>>)
  /\ Shaped(<<Tok("("), Open, Tok(")")>>) /\ Shaped(<<Tok("*"), Open>>) /\ Shaped(<<Open>>)
  /\ \A op \in Binary : Shaped(<<Open, Tok(op), Open>>)
<1>1. ASSUME NEW v \in Numbers PROVE Shaped(<<Num(v)>>)
  <2>1. Num(v) \in Token /\ Num(v)[1] = "num"
    BY DEF Token, Num
  <2> QED  BY <2>1 DEF Shaped, Type, Ends
<1>2. /\ Tok("(") \in Token /\ Tok("(")[1] = "(" /\ Tok(")") \in Token /\ Tok(")")[1] = ")"
      /\ Open \in Token /\ Open[1] = "open" /\ Tok("*") \in Token /\ Tok("*")[1] = "*"
      /\ \A op \in Binary : Tok(op) \in Token /\ Tok(op)[1] = op
  BY DEF Token, Tok, Open
<1>3. Shaped(<<Tok("("), Open, Tok(")")>>)
  BY <1>2 DEF Shaped, Type, Ends
<1>4. Shaped(<<Tok("*"), Open>>)
  BY <1>2 DEF Shaped, Type, Ends
<1>5. ASSUME NEW op \in Binary PROVE Shaped(<<Open, Tok(op), Open>>)
  BY <1>2, Binaries DEF Shaped, Type, Ends
<1>6. Shaped(<<Open>>)
  BY <1>2 DEF Shaped, Type, Ends
<1> QED  BY <1>1, <1>3, <1>4, <1>5, <1>6

\* Numbers with an operator between any two of them.
Flat(t) == \A i \in 1 .. Len(t) : Type(t, i) = "num" <=> i % 2 = 1
Alternates(t) ==
  /\ t \in Seq(Token) /\ Len(t) \in Nat /\ Len(t) % 2 = 1
  /\ \A i \in 1 .. Len(t) : IF i % 2 = 1 THEN Type(t, i) = "num" ELSE Type(t, i) \in Binary

LEMMA FlatAlternates == ASSUME NEW t, Shaped(t), Flat(t) PROVE Alternates(t)
<1>0. t \in Seq(Token) /\ Len(t) \in Nat /\ Len(t) >= 1
  BY DEF Shaped
<1>1. ASSUME NEW i \in 1 .. Len(t), i % 2 # 1 PROVE Type(t, i) \in Binary \cup {")"}
  <2> DEFINE j == i - 1
  <2>1. j \in 1 .. Len(t) /\ j % 2 = 1 /\ j # Len(t) /\ j + 1 = i
    BY <1>0, <1>1
  <2>2. Type(t, j) = "num"
    BY <2>1 DEF Flat
  <2>3. Type(t, j + 1) \in Binary \cup {")"}
    <3> HIDE DEF j
    <3> QED  BY <2>1, <2>2, Zenon DEF Shaped, Ends
  <2> QED  BY <2>1, <2>3
<1>2. ASSUME NEW i \in 1 .. Len(t) PROVE Type(t, i) # "("
  <2>1. CASE i % 2 = 1
    BY <2>1 DEF Flat
  <2>2. CASE i % 2 # 1
    BY <1>1, <2>2, Binaries
  <2> QED  BY <2>1, <2>2
<1>3. ASSUME NEW i \in 1 .. Len(t) PROVE Type(t, i) # ")"
  BY <1>2, Zenon DEF Shaped
<1>4. ASSUME NEW i \in 1 .. Len(t), i % 2 # 1 PROVE Type(t, i) \in Binary
  BY <1>1, <1>3, <1>4
<1>5. Len(t) % 2 = 1
  <2>1. Len(t) \in 1 .. Len(t) /\ Type(t, Len(t)) \in Ends
    BY <1>0 DEF Shaped
  <2> QED  BY <1>4, <2>1, Binaries DEF Ends
<1>6. \A i \in 1 .. Len(t) : i % 2 = 1 => Type(t, i) = "num"
  BY DEF Flat
<1> QED  BY <1>0, <1>4, <1>5, <1>6 DEF Alternates

\* Which stars are dereferences.
Marks(t, k) ==
  /\ Len(k) = Len(t)
  /\ \A i \in 1 .. Len(t) :
       k[i] = IF Type(t, i) = "*" /\ (i = 1 \/ Type(k, i - 1) \in MarksDeref)
              THEN Tok("deref") ELSE t[i]

LEMMA Marked ==
  ASSUME NEW t \in Seq(Token)
  PROVE  marked(t) \in Seq(Token \cup {Tok("deref")}) /\ Marks(t, marked(t))
<1> DEFINE z == Len(t)
           X == Token \cup {Tok("deref")}
           New(x, i) == IF Type(t, i) = "*" /\ (i = 1 \/ Type(x, i - 1) \in MarksDeref)
                        THEN Tok("deref") ELSE t[i]
           Step(m) == [i \in 0 .. z |-> IF i = 0 THEN << >> ELSE Append(m[i - 1], New(m[i - 1], i))]
           step == [i \in 1 .. z |-> [x \in Seq(X) |-> Append(x, New(x, i))]]
<1>1. marked(t) = (CHOOSE m : m = Step(m))[z]
  BY Zenon DEF marked
<1>2. z \in Nat /\ \A i \in 1 .. z : t[i] \in X
  OBVIOUS
<1>3. ASSUME NEW i \in 1 .. z, NEW x PROVE New(x, i) \in X
  BY <1>2
<1> HIDE DEF New, X, z
<1>4. \E m : m = Step(m)
  <2>1. step \in [1 .. z -> [Seq(X) -> Seq(X)]]
    BY <1>3
  <2>2. << >> \in Seq(X)
    OBVIOUS
  <2>3. Recurs(z, Seq(X), << >>, step)
    <3> HIDE DEF step
    <3> QED  BY <1>2, <2>1, <2>2 DEF Recurs
  <2>4. PICK f : Solves(f, z, Seq(X), << >>, step)
    <3> HIDE DEF step
    <3> QED  BY <2>3, Recursion
  <2>5. f \in [0 .. z -> Seq(X)] /\ f[0] = << >> /\ \A i \in 1 .. z : f[i] = step[i][f[i - 1]]
    BY <2>4 DEF Solves
  <2>6. ASSUME NEW i \in 0 .. z, i # 0 PROVE f[i] = Append(f[i - 1], New(f[i - 1], i))
    <3>1. i \in 1 .. z /\ f[i - 1] \in Seq(X)
      BY <1>2, <2>5, <2>6
    <3> QED  BY <2>5, <3>1
  <2>7. \A i \in 0 .. z : f[i] = Step(f)[i]
    <3> HIDE DEF step
    <3> QED  BY <2>5, <2>6
  <2>8. f = [i \in 0 .. z |-> f[i]] /\ Step(f) = [i \in 0 .. z |-> Step(f)[i]]
    BY <2>5
  <2> HIDE DEF Step
  <2> QED  BY <2>7, <2>8, Zenon
<1> DEFINE m == CHOOSE f : f = Step(f)
<1>5. m = Step(m)
  <2> HIDE DEF Step
  <2> QED  BY <1>4, Zenon
<1> HIDE DEF m
<1> DEFINE P == {i \in 0 .. z : /\ m[i] \in Seq(X) /\ Len(m[i]) = i
                                /\ \A j \in 1 .. i : m[i][j] = New(m[i], j)}
<1>6. m[0] = << >> /\ \A i \in 1 .. z : m[i] = Append(m[i - 1], New(m[i - 1], i))
  <2>1. \A i \in 0 .. z : m[i] = IF i = 0 THEN << >> ELSE Append(m[i - 1], New(m[i - 1], i))
    BY <1>5, Zenon
  <2>2. 0 \in 0 .. z /\ \A i \in 1 .. z : i \in 0 .. z /\ i # 0
    BY <1>2
  <2> QED  BY <2>1, <2>2, Zenon
<1>7. 0 \in P
  <2>1. << >> \in Seq(X) /\ Len(<< >>) = 0 /\ 1 .. 0 = {} /\ 0 \in 0 .. z
    BY <1>2
  <2> QED  BY <1>6, <2>1, Zenon
<1>8. ASSUME NEW i \in 1 .. z, i - 1 \in P PROVE i \in P
  <2> DEFINE x == m[i - 1]
             w == New(x, i)
             y == Append(x, w)
  <2>1. x \in Seq(X) /\ Len(x) = i - 1 /\ \A j \in 1 .. i - 1 : x[j] = New(x, j)
    BY <1>8
  <2>2. m[i] = y /\ w \in X
    BY <1>3, <1>6
  <2> HIDE DEF x, w
  <2>3. y \in Seq(X) /\ Len(y) = i /\ y[i] = w /\ \A j \in 1 .. i - 1 : y[j] = x[j]
    BY <2>1, <2>2
  <2> HIDE DEF y
  <2>4. ASSUME NEW j \in 1 .. i PROVE New(y, j) = New(x, j)
    <3>1. j = 1 \/ Type(y, j - 1) = Type(x, j - 1)
      <4>1. j # 1 => j - 1 \in 1 .. i - 1
        OBVIOUS
      <4> QED  BY <2>3, <4>1 DEF Type
    <3> QED  BY <3>1, Zenon DEF New
  <2>5. \A j \in 1 .. i : y[j] = New(y, j)
    <3>1. \A j \in 1 .. i : j = i \/ j \in 1 .. i - 1
      OBVIOUS
    <3> QED  BY <2>1, <2>3, <2>4, <3>1, Zenon DEF w
  <2>6. i \in 0 .. z
    BY <1>2
  <2> QED  BY <2>2, <2>3, <2>5, <2>6
<1>9. z \in P
  <2> HIDE DEF P
  <2>1. \A i \in 0 .. z : i \in P
    BY <1>2, <1>7, <1>8, Induction
  <2> QED  BY <1>2, <2>1
<1>10. m[z] \in Seq(X) /\ Len(m[z]) = z /\ \A j \in 1 .. z : m[z][j] = New(m[z], j)
  BY <1>9
<1>11. marked(t) = m[z]
  BY <1>1, Zenon DEF m
<1> QED  BY <1>10, <1>11, Zenon DEF Marks, New, X, z

\* Behind a number no '*' is a dereference.
LEMMA Unmarked == ASSUME NEW t, Alternates(t) PROVE marked(t) = t
<1> DEFINE k == marked(t)
           z == Len(t)
           X == Token \cup {Tok("deref")}
<1>1. t \in Seq(Token) /\ t \in Seq(X) /\ z \in Nat
  BY DEF Alternates
<1>2. k \in Seq(X) /\ Len(k) = z
  BY <1>1, Marked DEF Marks
<1>3. ASSUME NEW i \in 1 .. z
      PROVE  k[i] = IF Type(t, i) = "*" /\ (i = 1 \/ Type(k, i - 1) \in MarksDeref)
                    THEN Tok("deref") ELSE t[i]
  BY <1>1, Marked DEF Marks
<1> HIDE DEF k, X
<1>4. ASSUME NEW i \in 1 .. z, i % 2 = 1 PROVE k[i] = t[i] /\ Type(k, i) = "num"
  <2>1. Type(t, i) = "num"
    BY <1>4 DEF Alternates
  <2> QED  BY <1>3, <2>1 DEF Type
<1>5. ASSUME NEW i \in 1 .. z, i % 2 # 1 PROVE k[i] = t[i]
  <2>1. i # 1 /\ i - 1 \in 1 .. z /\ (i - 1) % 2 = 1
    BY <1>1, <1>5
  <2>2. Type(k, i - 1) \notin MarksDeref
    BY <1>4, <2>1 DEF MarksDeref
  <2> QED  BY <1>3, <2>1, <2>2
<1>6. \A i \in 1 .. z : k[i] = t[i]
  BY <1>4, <1>5
<1>7. k = t
  BY <1>1, <1>2, <1>6, SeqEqual
<1> QED  BY <1>7 DEF k

\* Of the operators outside parentheses there is one that binds most loosely and is the last.
Loosest(t, s, e, p) ==
  \A q \in Top(t, s, e) :
    \/ Level(Type(t, q)) < Level(Type(t, p))
    \/ Level(Type(t, q)) = Level(Type(t, p)) /\ q <= p

LEMMA FindsOperator ==
  ASSUME NEW t, NEW s \in Nat, NEW e \in Nat, s <= e
  PROVE  /\ find_primary_operator(t, s, e) \in s .. e
         /\ Top(t, s, e) # {} => /\ find_primary_operator(t, s, e) \in Top(t, s, e)
                                /\ Loosest(t, s, e, find_primary_operator(t, s, e))
<1> DEFINE T == Top(t, s, e)
           L(p) == Level(Type(t, p))
           Best(p) == \A q \in T : L(q) < L(p) \/ (L(q) = L(p) /\ q <= p)
<1>1. CASE T = {}
  BY <1>1 DEF find_primary_operator
<1>2. CASE T # {}
  <2>1. \A p \in T : p \in s .. e /\ L(p) >= 0
    BY DEF Top
  <2>2. \A p : L(p) \in -1 .. 4
    BY DEF Level
  <2>3. find_primary_operator(t, s, e) = CHOOSE p \in T : Best(p)
    BY <1>2, Zenon DEF find_primary_operator
  <2> HIDE DEF T, L
  <2>4. PICK l \in Nat : (\E p \in T : 4 - L(p) = l) /\ \A p \in T : l <= 4 - L(p)
    <3> DEFINE S == {4 - L(p) : p \in T}
    <3>1. S \in SUBSET Nat /\ S # {}
      BY <1>2, <2>2
    <3>2. PICK l \in S : \A k \in S : l <= k
      <4> HIDE DEF S
      <4> QED  BY <3>1, LeastNat
    <3> QED  BY <3>1, <3>2
  <2>5. PICK d \in Nat : (\E p \in T : 4 - L(p) = l /\ e - p = d)
                         /\ \A p \in T : 4 - L(p) = l => d <= e - p
    <3> DEFINE S == {e - p : p \in {q \in T : 4 - L(q) = l}}
    <3>1. S \in SUBSET Nat /\ S # {}
      BY <2>1, <2>4
    <3>2. PICK k \in S : \A m \in S : k <= m
      <4> HIDE DEF S
      <4> QED  BY <3>1, LeastNat
    <3> QED  BY <3>1, <3>2
  <2>6. PICK p \in T : 4 - L(p) = l /\ e - p = d
    BY <2>5
  <2>7. Best(p)
    <3> SUFFICES ASSUME NEW q \in T PROVE L(q) < L(p) \/ (L(q) = L(p) /\ q <= p)
      OBVIOUS
    <3>1. l <= 4 - L(q) /\ (4 - L(q) = l => d <= e - q)
      BY <2>4, <2>5
    <3>2. L(q) \in -1 .. 4 /\ L(p) \in -1 .. 4 /\ p \in s .. e /\ q \in s .. e
      BY <2>1, <2>2
    <3> QED  BY <2>6, <3>1, <3>2
  <2> HIDE DEF Best
  <2>8. find_primary_operator(t, s, e) \in T /\ Best(find_primary_operator(t, s, e))
    BY <2>3, <2>7, Zenon
  <2>9. Loosest(t, s, e, find_primary_operator(t, s, e))
    BY <2>8, Zenon DEF Loosest, Best, T, L
  <2> QED  BY <2>1, <2>8, <2>9 DEF T
<1> QED  BY <1>1, <1>2

\* What eval makes of a part of the tokens, given what it makes of the parts of it.
Part(t, v, s, e) ==
  LET op == find_primary_operator(t, s, e)
      val1 == v[<<s, op - 1>>]
      val2 == v[<<op + 1, e>>]
  IN IF s > e THEN Abort
     ELSE IF s = e THEN IF Type(t, s) = "num" THEN Uint(t[s][2]) ELSE Abort
     ELSE IF Type(t, s) = "(" /\ Type(t, e) = ")"
     THEN IF Depth(t, s, e) = 0 THEN v[<<s + 1, e - 1>>] ELSE Abort
     ELSE IF Type(t, op) = "deref"
     THEN IF IsValue(val2) THEN paddr_read(val2[2]) ELSE val2
     ELSE IF ~IsValue(val1) THEN val1
     ELSE IF ~IsValue(val2) THEN val2
     ELSE Apply(Type(t, op), val1[2], val2[2])

SameParts(t, v, w, s, e) ==
  LET op == find_primary_operator(t, s, e)
  IN s < e => /\ v[<<s + 1, e - 1>>] = w[<<s + 1, e - 1>>]
              /\ v[<<s, op - 1>>] = w[<<s, op - 1>>] /\ v[<<op + 1, e>>] = w[<<op + 1, e>>]

LEMMA PartOfParts ==
  ASSUME NEW t, NEW s \in Nat, NEW e \in Nat, NEW v, NEW w, SameParts(t, v, w, s, e)
  PROVE  Part(t, v, s, e) = Part(t, w, s, e)
<1>1. CASE s > e \/ s = e
  BY <1>1 DEF Part
<1>2. CASE s < e
  <2>1. ~(s > e) /\ s # e
    BY <1>2
  <2> DEFINE op == find_primary_operator(t, s, e)
  <2>2. /\ v[<<s + 1, e - 1>>] = w[<<s + 1, e - 1>>]
        /\ v[<<s, op - 1>>] = w[<<s, op - 1>>] /\ v[<<op + 1, e>>] = w[<<op + 1, e>>]
    BY <1>2, Zenon DEF SameParts
  <2> QED  BY <2>1, <2>2, Zenon DEF Part
<1> QED  BY <1>1, <1>2

\* eval returns, for the parts of every sequence of tokens: a part's own parts are shorter.
LEMMA EvalParts ==
  ASSUME NEW t, NEW z \in Nat, z = Len(t)
  PROVE  \A s \in 1 .. z + 1, e \in 0 .. z : eval(t)[<<s, e>>] = Part(t, eval(t), s, e)
<1> DEFINE D == (1 .. z + 1) \X (0 .. z)
           Whole(v) == [p \in D |-> Part(t, v, p[1], p[2])]
           Upto(k, v) == [p \in D |-> IF p[2] < p[1] + k THEN Part(t, v, p[1], p[2]) ELSE Abort]
           P == {k \in 0 .. z : \E v : v = Upto(k, v)}
<1>1. eval(t) = CHOOSE v : v = Whole(v)
  BY Zenon DEF eval, Part
<1>d. /\ \A p \in D : p[1] \in 1 .. z + 1 /\ p[2] \in 0 .. z /\ p = <<p[1], p[2]>>
      /\ \A s \in 1 .. z + 1, e \in 0 .. z : /\ <<s, e>> \in D
                                              /\ <<s, e>>[1] = s /\ <<s, e>>[2] = e
  OBVIOUS
<1> HIDE DEF D
<1>2. 0 \in P
  <2> DEFINE v == [p \in D |-> Abort]
  <2>1. \A p \in D : p[2] < p[1] + 0 => Part(t, v, p[1], p[2]) = Abort
    <3> HIDE DEF v
    <3> QED  BY <1>d DEF Part
  <2>2. v = Upto(0, v)
    <3>1. \A p \in D : Abort = IF p[2] < p[1] + 0 THEN Part(t, v, p[1], p[2]) ELSE Abort
      BY <2>1, Zenon
    <3> QED  BY <3>1, Zenon
  <2>3. 0 \in 0 .. z
    OBVIOUS
  <2> HIDE DEF v, Upto
  <2> QED  BY <2>2, <2>3, Zenon
<1>3. ASSUME NEW k \in 1 .. z, k - 1 \in P PROVE k \in P
  <2>1. PICK v : v = Upto(k - 1, v)
    BY <1>3, Zenon
  <2> DEFINE w == [p \in D |-> IF p[2] < p[1] + k THEN Part(t, v, p[1], p[2]) ELSE Abort]
  <2>2. \A p \in D : v[p] = IF p[2] < p[1] + (k - 1) THEN Part(t, v, p[1], p[2]) ELSE Abort
    BY <2>1, Zenon
  <2>3. \A p \in D : w[p] = IF p[2] < p[1] + k THEN Part(t, v, p[1], p[2]) ELSE Abort
    BY Zenon
  <2> HIDE DEF w
  <2>4. ASSUME NEW s \in 1 .. z + 1, NEW e \in 0 .. z, e < s + (k - 1)
        PROVE  v[<<s, e>>] = w[<<s, e>>]
    <3>1. e < s + k
      BY <2>4
    <3>2. PICK p \in D : p = <<s, e>> /\ p[1] = s /\ p[2] = e
      BY <1>d, ZenonT(60)
    <3>3. v[p] = Part(t, v, p[1], p[2])
      BY <2>2, <2>4, <3>2, Zenon
    <3>4. w[p] = Part(t, v, p[1], p[2])
      BY <2>3, <3>1, <3>2, Zenon
    <3> QED  BY <3>2, <3>3, <3>4, Zenon
  <2>5. ASSUME NEW s \in 1 .. z + 1, NEW e \in 0 .. z, e < s + k
        PROVE  Part(t, v, s, e) = Part(t, w, s, e)
    <3>2. s \in Nat /\ e \in Nat
      OBVIOUS
    <3> DEFINE op == find_primary_operator(t, s, e)
    <3>1. ASSUME s < e
          PROVE  /\ v[<<s + 1, e - 1>>] = w[<<s + 1, e - 1>>]
                 /\ v[<<s, op - 1>>] = w[<<s, op - 1>>] /\ v[<<op + 1, e>>] = w[<<op + 1, e>>]
      <4>0. s <= e
        BY <3>1, <3>2
      <4>1. op \in s .. e
        BY <3>2, <4>0, FindsOperator, Zenon
      <4> HIDE DEF op
      <4>2. /\ s + 1 \in 1 .. z + 1 /\ e - 1 \in 0 .. z /\ e - 1 < s + 1 + (k - 1)
            /\ op - 1 \in 0 .. z /\ op - 1 < s + (k - 1)
            /\ op + 1 \in 1 .. z + 1 /\ e < op + 1 + (k - 1)
        BY <2>5, <3>1, <4>1
      <4> QED  BY <2>4, <4>2, Zenon
    <3> HIDE DEF op
    <3>3. SameParts(t, v, w, s, e)
      BY <3>1, Zenon DEF SameParts, op
    <3> QED  BY <3>2, <3>3, PartOfParts
  <2>6. w = Upto(k, w)
    <3>1. ASSUME NEW p \in D
          PROVE  (IF p[2] < p[1] + k THEN Part(t, v, p[1], p[2]) ELSE Abort)
                   = IF p[2] < p[1] + k THEN Part(t, w, p[1], p[2]) ELSE Abort
      BY <1>d, <2>5, Zenon
    <3>2. Upto(k, w) = [p \in D |-> IF p[2] < p[1] + k THEN Part(t, v, p[1], p[2]) ELSE Abort]
      BY <3>1, Zenon
    <3> HIDE DEF Upto
    <3> QED  BY <3>2, Zenon DEF w
  <2>7. k \in 0 .. z
    OBVIOUS
  <2> HIDE DEF Upto
  <2> QED  BY <2>6, <2>7, Zenon
<1>4. \E v : v = Whole(v)
  <2>1. z \in P
    <3> HIDE DEF P
    <3>1. \A k \in 0 .. z : k \in P
      BY <1>2, <1>3, Induction
    <3> QED  BY <3>1
  <2>2. PICK v : v = Upto(z, v)
    BY <2>1, Zenon
  <2>3. \A p \in D : p[2] < p[1] + z
    <3>1. \A s \in 1 .. z + 1, e \in 0 .. z : e < s + z
      OBVIOUS
    <3> QED  BY <1>d, <3>1, Zenon
  <2>4. Upto(z, v) = Whole(v)
    BY <2>3, Zenon
  <2> HIDE DEF Upto, Whole
  <2> QED  BY <2>2, <2>4, Zenon
<1> DEFINE v == CHOOSE f : f = Whole(f)
<1>5. v = Whole(v)
  <2> HIDE DEF Whole
  <2> QED  BY <1>4, Zenon
<1> HIDE DEF v
<1>6. \A p \in D : v[p] = Part(t, v, p[1], p[2])
  BY <1>5, Zenon
<1>7. eval(t) = v
  BY <1>1, Zenon DEF v
<1>8. \A s \in 1 .. z + 1, e \in 0 .. z : v[<<s, e>>] = Part(t, v, s, e)
  <2> SUFFICES ASSUME NEW s \in 1 .. z + 1, NEW e \in 0 .. z PROVE v[<<s, e>>] = Part(t, v, s, e)
    OBVIOUS
  <2>1. PICK p \in D : p = <<s, e>> /\ p[1] = s /\ p[2] = e
    BY <1>d, ZenonT(60)
  <2> QED  BY <1>6, <2>1, Zenon
<1> QED  BY <1>7, <1>8, Zenon

\* An operator between two values gives a value, or divides by zero.
LEMMA Applies ==
  ASSUME NEW op \in Binary, NEW a, NEW b
  PROVE  Apply(op, a, b) # Abort
<1>1. op \in {"+", "-", "*", "/", "==", "!=", "&&"}
  BY ExprAssumption
<1>2. (\A v : Value(v) # Abort) /\ Crash # Abort
  BY DEF Value, Abort, Crash
<1> QED  BY <1>1, <1>2 DEF Apply, Uint

\* The operator that is found lies between two shorter flat expressions.
LEMMA SplitsFlat ==
  ASSUME NEW t, Alternates(t), NEW s \in 1 .. Len(t), NEW e \in 1 .. Len(t),
         s % 2 = 1, e % 2 = 1, s < e,
         NEW op, op = find_primary_operator(t, s, e)
  PROVE  op \in s + 1 .. e - 1 /\ op % 2 = 0 /\ Type(t, op) \in Binary
<1>1. \A i \in 1 .. Len(t) : /\ i % 2 = 1 => Type(t, i) = "num"
                             /\ i % 2 # 1 => Type(t, i) \in Binary
  BY DEF Alternates
<1>2. ASSUME NEW i \in 1 .. Len(t) PROVE Type(t, i) # "(" /\ Type(t, i) # ")"
  <2>1. CASE i % 2 = 1
    <3>1. Type(t, i) = "num"
      BY <1>1, <2>1, Zenon
    <3> QED  BY <3>1
  <2>2. CASE i % 2 # 1
    <3>1. Type(t, i) \in Binary
      BY <1>1, <2>2, Zenon
    <3> QED  BY <3>1, Binaries
  <2> QED  BY <2>1, <2>2
<1>3. \A p \in s .. e : Depth(t, s, p) = 0
  <2> SUFFICES ASSUME NEW p \in s .. e PROVE Depth(t, s, p) = 0
    OBVIOUS
  <2>1. \A i \in s .. p : i \in 1 .. Len(t)
    OBVIOUS
  <2>2. {i \in s .. p : Type(t, i) = "("} = {} /\ {i \in s .. p : Type(t, i) = ")"} = {}
    BY <1>2, <2>1
  <2>3. Cardinality({}) = 0
    BY FS_EmptySet
  <2>4. Depth(t, s, p) = 0 - 0
    BY <2>2, <2>3, Zenon DEF Depth
  <2> QED  BY <2>4
<1>4. s + 1 \in s .. e /\ s + 1 \in 1 .. Len(t) /\ (s + 1) % 2 # 1
  OBVIOUS
<1>5. \A b \in Binary : Level(b) >= 0
  BY ExprAssumption DEF Level
<1>6. s + 1 \in Top(t, s, e)
  BY <1>1, <1>3, <1>4, <1>5 DEF Top
<1>7. op \in Top(t, s, e)
  BY <1>6, FindsOperator
<1>8. op \in s .. e /\ Level(Type(t, op)) >= 0
  BY <1>7 DEF Top
<1>9. op % 2 # 1
  <2>1. Level("num") = -1
    BY DEF Level
  <2>2. op \in 1 .. Len(t)
    BY <1>8
  <2>3. op % 2 = 1 => Level(Type(t, op)) = -1
    <3>1. op % 2 = 1 => Type(t, op) = "num"
      BY <1>1, <2>2, Zenon
    <3> QED  BY <2>1, <3>1, Zenon
  <2> QED  BY <1>8, <2>3
<1>10. op \in 1 .. Len(t) /\ op % 2 = 0 /\ op # s /\ op # e
  BY <1>8, <1>9
<1> QED  BY <1>1, <1>8, <1>9, <1>10

LEMMA FlatEvaluates == ASSUME NEW t, Alternates(t) PROVE expr(t) # Abort
<1> DEFINE z == Len(t)
           v == eval(t)
           P == {k \in 0 .. z : \A s \in 1 .. z, e \in 1 .. z :
                   s % 2 = 1 /\ e % 2 = 1 /\ s <= e /\ e - s <= k => v[<<s, e>>] # Abort}
<1>1. z \in Nat /\ z % 2 = 1 /\ z \in 1 .. z /\ 1 \in 1 .. z
  BY DEF Alternates
<1>2. \A s \in 1 .. z, e \in 1 .. z : v[<<s, e>>] = Part(t, v, s, e)
  <2>1. \A s \in 1 .. z + 1, e \in 0 .. z : v[<<s, e>>] = Part(t, v, s, e)
    BY <1>1, EvalParts
  <2>2. \A s \in 1 .. z : s \in 1 .. z + 1 /\ s \in 0 .. z
    BY <1>1
  <2> HIDE DEF v, z
  <2> QED  BY <2>1, <2>2, Zenon
<1>3. \A i \in 1 .. z : i % 2 = 1 => Type(t, i) = "num"
  BY DEF Alternates
<1>4. ASSUME NEW s \in 1 .. z, s % 2 = 1 PROVE Part(t, v, s, s) # Abort
  <2>1. Part(t, v, s, s) = Uint(t[s][2])
    BY <1>3, <1>4 DEF Part
  <2> QED  BY <2>1 DEF Uint, Value, Abort
<1>5. 0 \in P
  <2> SUFFICES ASSUME NEW s \in 1 .. z, NEW e \in 1 .. z, s % 2 = 1, s <= e, e - s <= 0
               PROVE  v[<<s, e>>] # Abort
    BY <1>1
  <2>1. s = e
    OBVIOUS
  <2> HIDE DEF v
  <2> QED  BY <1>2, <1>4, <2>1
<1>6. ASSUME NEW k \in 1 .. z, k - 1 \in P PROVE k \in P
  <2> SUFFICES ASSUME NEW s \in 1 .. z, NEW e \in 1 .. z, s % 2 = 1, e % 2 = 1, s <= e, e - s <= k
               PROVE  v[<<s, e>>] # Abort
    BY <1>1
  <2> HIDE DEF v
  <2>1. CASE s = e
    BY <1>2, <1>4, <2>1
  <2>2. CASE s < e
    <3> DEFINE op == find_primary_operator(t, s, e)
    <3>1. op \in s + 1 .. e - 1 /\ op % 2 = 0 /\ Type(t, op) \in Binary
      BY <2>2, SplitsFlat
    <3> HIDE DEF op
    <3>2. /\ op - 1 \in 1 .. z /\ (op - 1) % 2 = 1 /\ s <= op - 1 /\ op - 1 - s <= k - 1
          /\ op + 1 \in 1 .. z /\ (op + 1) % 2 = 1 /\ op + 1 <= e /\ e - (op + 1) <= k - 1
      BY <1>1, <2>2, <3>1
    <3>3. v[<<s, op - 1>>] # Abort /\ v[<<op + 1, e>>] # Abort
      BY <1>6, <3>2
    <3>4. ~(s > e) /\ s # e /\ Type(t, s) # "(" /\ Type(t, op) # "deref"
      <4>1. "deref" \notin Binary
        BY ExprAssumption
      <4> QED  BY <1>3, <2>2, <3>1, <4>1
    <3>5. \/ Part(t, v, s, e) = v[<<s, op - 1>>]
          \/ Part(t, v, s, e) = v[<<op + 1, e>>]
          \/ Part(t, v, s, e) = Apply(Type(t, op), v[<<s, op - 1>>][2], v[<<op + 1, e>>][2])
      BY <3>4, Zenon DEF Part, op
    <3>6. Part(t, v, s, e) # Abort
      BY <3>1, <3>3, <3>5, Applies
    <3> QED  BY <1>2, <3>6
  <2> QED  BY <2>1, <2>2
<1>7. v[<<1, z>>] # Abort
  <2>1. z \in P
    <3> HIDE DEF P
    <3>1. \A k \in 0 .. z : k \in P
      BY <1>1, <1>5, <1>6, Induction
    <3> QED  BY <1>1, <3>1
  <2> QED  BY <1>1, <2>1
<1>8. expr(t) = v[<<1, z>>]
  BY Unmarked, Zenon DEF expr
<1> QED  BY <1>7, <1>8

ExprInv == Shaped(buf) /\ (result = None \/ (Place = 0 /\ result = expr(buf)))

LEMMA ExpandStep ==
  ASSUME ExprInv, NEW new, Shaped(new), Expand(new)
  PROVE  ExprInv'
<1>1. Shaped(buf) /\ buf \in Seq(Token) /\ Place # 0
  BY DEF ExprInv, Shaped, Expand
<1>2. Place \in 1 .. Len(buf) /\ buf[Place] = Open
  BY <1>1, PlaceIsOpen
<1>3. Splice(buf, Place, new, buf')
  BY Zenon DEF Expand, Splice
<1>4. Shaped(buf')
  BY <1>1, <1>2, <1>3, ShapeSpliced, Zenon
<1>5. result' = None
  BY <1>1 DEF ExprInv, Expand
<1> QED  BY <1>4, <1>5 DEF ExprInv, Shaped

LEMMA ExprStep == ExprInv /\ [ExprNext]_expr_vars => ExprInv'
<1> SUFFICES ASSUME ExprInv, [ExprNext]_expr_vars PROVE ExprInv'
  OBVIOUS
<1>1. CASE \E v \in Numbers : gen_opnum(v)
  BY <1>1, NewShaped, ExpandStep DEF gen_opnum
<1>2. CASE GenParens
  BY <1>2, NewShaped, ExpandStep DEF GenParens
<1>3. CASE UserDeref
  BY <1>3, NewShaped, ExpandStep DEF UserDeref
<1>4. CASE \E op \in Binary : GenBinary(op)
  BY <1>4, NewShaped, ExpandStep DEF GenBinary
<1>5. CASE CmdP
  <2>1. Place = 0 /\ result' = expr(buf) /\ buf' = buf
    BY <1>5 DEF CmdP
  <2>2. Place' = Place
    BY <2>1 DEF Place, SelectInSeq
  <2>3. expr(buf') = expr(buf)
    BY <2>1, Zenon
  <2>4. Shaped(buf') = Shaped(buf)
    BY <2>1, Zenon
  <2> QED  BY <2>1, <2>2, <2>3, <2>4, Zenon DEF ExprInv
<1>6. CASE UNCHANGED expr_vars
  <2>1. buf' = buf /\ result' = result
    BY <1>6 DEF expr_vars
  <2>2. Place' = Place
    BY <2>1 DEF Place, SelectInSeq
  <2>3. expr(buf') = expr(buf)
    BY <2>1, Zenon
  <2>4. Shaped(buf') = Shaped(buf)
    BY <2>1, Zenon
  <2> QED  BY <2>1, <2>2, <2>3, <2>4, Zenon DEF ExprInv
<1> QED  BY <1>1, <1>2, <1>3, <1>4, <1>5, <1>6 DEF ExprNext

\* A flat expression of any length that gen-expr can write, with any of the operators, is
\* evaluated: find_primary_operator splits it between two shorter ones of its kind.
THEOREM FlatCorrect == ExprSpec => []FlatNeverAborts
<1>1. ExprInv => FlatNeverAborts
  <2> SUFFICES ASSUME ExprInv, Flat(buf), result # None PROVE result # Abort
    BY DEF FlatNeverAborts, Flat, None, Abort
  <2>1. Alternates(buf) /\ result = expr(buf)
    BY FlatAlternates DEF ExprInv
  <2> QED  BY <2>1, FlatEvaluates
<1>2. ExprInit => ExprInv
  BY NewShaped DEF ExprInit, ExprInv
<1>3. ExprInv /\ [ExprNext]_expr_vars => ExprInv'
  BY ExprStep
<1> QED  BY <1>1, <1>2, <1>3, PTL DEF ExprSpec

-----------------------------------------------------------------------------
(* The value of an expression: ExprEval against the grammar, CExpr         *)

\* Of the brackets in s .. e those up to p and those behind p.
CountOf(t, x, a, b) == Cardinality({i \in a .. b : Type(t, i) = x})

LEMMA DepthCounts ==
  \A t, a, b : Depth(t, a, b) = CountOf(t, "(", a, b) - CountOf(t, ")", a, b)
BY Zenon DEF Depth, CountOf

LEMMA CountSplits ==
  ASSUME NEW t, NEW s \in Nat, NEW p \in Nat, NEW e \in Nat, s <= p + 1, p <= e, NEW x
  PROVE  /\ CountOf(t, x, s, e) = CountOf(t, x, s, p) + CountOf(t, x, p + 1, e)
         /\ CountOf(t, x, s, e) \in Nat /\ CountOf(t, x, s, p) \in Nat
         /\ CountOf(t, x, p + 1, e) \in Nat
<1> DEFINE Of(a, b) == {i \in a .. b : Type(t, i) = x}
           A == Of(s, p)
           B == Of(p + 1, e)
<1>1. ASSUME NEW a \in Nat, NEW b \in Nat PROVE IsFiniteSet(Of(a, b))
  <2>1. IsFiniteSet(a .. b)
    BY FS_Interval
  <2>2. Of(a, b) \in SUBSET (a .. b)
    OBVIOUS
  <2> HIDE DEF Of
  <2> QED  BY <2>1, <2>2, FS_Subset
<1>2. IsFiniteSet(A) /\ IsFiniteSet(B)
  <2>1. p + 1 \in Nat
    OBVIOUS
  <2> HIDE DEF Of
  <2> QED  BY <1>1, <2>1
<1>3. Of(s, e) = A \cup B /\ A \cap B = {}
  OBVIOUS
<1> HIDE DEF A, B
<1>4. Cardinality(A \cup B) = Cardinality(A) + Cardinality(B) - Cardinality(A \cap B)
  BY <1>2, FS_Union
<1>5. Cardinality(A \cap B) = 0
  BY <1>3, FS_EmptySet
<1>6. Cardinality(A) \in Nat /\ Cardinality(B) \in Nat
  BY <1>2, FS_CardinalityType
<1>7. Cardinality(A \cup B) = Cardinality(A) + Cardinality(B)
  BY <1>4, <1>5, <1>6
<1>8. CountOf(t, x, s, e) = Cardinality(A \cup B)
  BY <1>3, Zenon DEF CountOf
<1>9. CountOf(t, x, s, p) = Cardinality(A) /\ CountOf(t, x, p + 1, e) = Cardinality(B)
  BY Zenon DEF CountOf, A, B
<1> QED  BY <1>6, <1>7, <1>8, <1>9

LEMMA DepthSplits ==
  ASSUME NEW t, NEW s \in Nat, NEW p \in Nat, NEW e \in Nat, s <= p + 1, p <= e
  PROVE  /\ Depth(t, s, e) = Depth(t, s, p) + Depth(t, p + 1, e)
         /\ Depth(t, s, e) \in Int /\ Depth(t, s, p) \in Int /\ Depth(t, p + 1, e) \in Int
<1>1. \A x : /\ CountOf(t, x, s, e) = CountOf(t, x, s, p) + CountOf(t, x, p + 1, e)
             /\ CountOf(t, x, s, e) \in Nat /\ CountOf(t, x, s, p) \in Nat
             /\ CountOf(t, x, p + 1, e) \in Nat
  BY CountSplits
<1> QED  BY <1>1, DepthCounts

LEMMA DepthOfOne ==
  ASSUME NEW t, NEW s \in Nat
  PROVE  Depth(t, s, s) = IF Type(t, s) = "(" THEN 1 ELSE IF Type(t, s) = ")" THEN -1 ELSE 0
<1>1. \A x : Cardinality({x}) = 1
  <2>1. IsFiniteSet({}) /\ Cardinality({}) = 0
    BY FS_EmptySet
  <2> QED  BY <2>1, FS_AddElement
<1>2. Cardinality({}) = 0
  BY FS_EmptySet
<1>3. \A x : {i \in s .. s : Type(t, i) = x} = IF Type(t, s) = x THEN {s} ELSE {}
  OBVIOUS
<1>4. \A x : Cardinality({i \in s .. s : Type(t, i) = x}) = IF Type(t, s) = x THEN 1 ELSE 0
  BY <1>1, <1>2, <1>3, Zenon
<1>5. Depth(t, s, s) = (IF Type(t, s) = "(" THEN 1 ELSE 0) - (IF Type(t, s) = ")" THEN 1 ELSE 0)
  BY <1>4, Zenon DEF Depth
<1> QED  BY <1>5

\* From the bracket or operator at s on.
LEMMA DepthBehind ==
  ASSUME NEW t, NEW s \in Nat, NEW e \in Nat, s <= e
  PROVE  /\ Depth(t, s, e) \in Int /\ Depth(t, s + 1, e) \in Int
         /\ Depth(t, s, e) = Depth(t, s, s) + Depth(t, s + 1, e)
  BY DepthSplits

LEMMA DepthNegative ==
  ASSUME NEW t, NEW s \in Nat, NEW e \in Nat, Depth(t, s, e) < 0
  PROVE  \E i \in s .. e : Type(t, i) = ")"
<1> SUFFICES ASSUME {i \in s .. e : Type(t, i) = ")"} = {} PROVE ~(Depth(t, s, e) < 0)
  OBVIOUS
<1> DEFINE A == {i \in s .. e : Type(t, i) = "("}
<1>1. Depth(t, s, e) = Cardinality(A) - Cardinality({})
  BY Zenon DEF Depth
<1>2. IsFiniteSet(A)
  <2>1. IsFiniteSet(s .. e) /\ A \in SUBSET (s .. e)
    BY FS_Interval
  <2> HIDE DEF A
  <2> QED  BY <2>1, FS_Subset
<1> HIDE DEF A
<1>3. Cardinality(A) \in Nat /\ Cardinality({}) = 0
  BY <1>2, FS_CardinalityType, FS_EmptySet
<1> QED  BY <1>1, <1>3

\* Parentheses are where they were.
LEMMA DepthSame ==
  ASSUME NEW t, NEW u, NEW s \in Nat, NEW e \in Nat,
         \A i \in s .. e : /\ Type(t, i) = "(" <=> Type(u, i) = "("
                           /\ Type(t, i) = ")" <=> Type(u, i) = ")"
  PROVE  Depth(t, s, e) = Depth(u, s, e)
<1>1. /\ {i \in s .. e : Type(t, i) = "("} = {i \in s .. e : Type(u, i) = "("}
      /\ {i \in s .. e : Type(t, i) = ")"} = {i \in s .. e : Type(u, i) = ")"}
  OBVIOUS
<1> QED  BY <1>1, Zenon DEF Depth

\* Every parenthesis of s .. e has its partner in it.
Balanced(t, s, e) == s <= e /\ Depth(t, s, e) = 0 /\ \A q \in s .. e : Depth(t, s, q) >= 0

Neutral(t, p) == Type(t, p) # "(" /\ Type(t, p) # ")"

LEMMA Within ==
  ASSUME NEW t, NEW s \in Nat, NEW e \in Nat, s < e, Type(t, s) = "(", Type(t, e) = ")",
         Balanced(t, s + 1, e - 1)
  PROVE  Balanced(t, s, e) /\ \A q \in s .. e - 1 : Depth(t, s, q) >= 1
<1>1. s + 1 <= e - 1 /\ Depth(t, s + 1, e - 1) = 0 /\ \A q \in s + 1 .. e - 1 : Depth(t, s + 1, q) >= 0
  BY DEF Balanced
<1>2. Depth(t, s, s) = 1 /\ Depth(t, e, e) = -1
  BY DepthOfOne
<1>3. ASSUME NEW q \in s .. e - 1 PROVE Depth(t, s, q) >= 1
  <2>1. CASE q = s
    BY <1>2, <2>1
  <2>2. CASE q # s
    <3>1. q \in s + 1 .. e - 1 /\ q \in Nat /\ s <= q
      BY <2>2
    <3>2. Depth(t, s, q) = Depth(t, s, s) + Depth(t, s + 1, q) /\ Depth(t, s + 1, q) \in Int
      BY <3>1, DepthBehind
    <3>3. Depth(t, s + 1, q) >= 0
      BY <1>1, <3>1
    <3> QED  BY <1>2, <3>2, <3>3
  <2> QED  BY <2>1, <2>2
<1>4. Depth(t, s, e) = 0
  <2>1. e - 1 \in Nat /\ s <= e - 1 /\ s <= (e - 1) + 1 /\ e - 1 <= e /\ (e - 1) + 1 = e
    BY <1>1
  <2>2. Depth(t, s, e) = Depth(t, s, e - 1) + Depth(t, (e - 1) + 1, e)
    BY <2>1, DepthSplits
  <2>3. Depth(t, s, e - 1) = Depth(t, s, s) + Depth(t, s + 1, e - 1)
    BY <2>1, DepthBehind
  <2> QED  BY <1>1, <1>2, <2>1, <2>2, <2>3
<1>5. ASSUME NEW q \in s .. e PROVE Depth(t, s, q) >= 0
  <2>1. CASE q = e
    BY <1>4, <2>1
  <2>2. CASE q # e
    <3>1. q \in s .. e - 1 /\ q \in Nat
      BY <2>2
    <3>2. Depth(t, s, q) >= 1 /\ Depth(t, s, q) \in Int
      BY <1>3, <3>1, DepthBehind
    <3> QED  BY <3>2
  <2> QED  BY <2>1, <2>2
<1> QED  BY <1>3, <1>4, <1>5 DEF Balanced

LEMMA Behind ==
  ASSUME NEW t, NEW s \in Nat, NEW e \in Nat, s < e, Neutral(t, s), Balanced(t, s + 1, e)
  PROVE  /\ Balanced(t, s, e) /\ Depth(t, s, s) = 0
         /\ \A q \in s + 1 .. e : Depth(t, s, q) = Depth(t, s + 1, q)
<1>1. Depth(t, s, s) = 0
  BY DepthOfOne DEF Neutral
<1>2. ASSUME NEW q \in s + 1 .. e PROVE Depth(t, s, q) = Depth(t, s + 1, q)
  <2>1. q \in Nat /\ s <= q
    OBVIOUS
  <2>2. Depth(t, s, q) = Depth(t, s, s) + Depth(t, s + 1, q) /\ Depth(t, s + 1, q) \in Int
    BY <2>1, DepthBehind
  <2> QED  BY <1>1, <2>2
<1>3. \A q \in s .. e : q = s \/ q \in s + 1 .. e
  OBVIOUS
<1>4. e \in s + 1 .. e /\ s <= e
  OBVIOUS
<1> QED  BY <1>1, <1>2, <1>3, <1>4 DEF Balanced

LEMMA Beside ==
  ASSUME NEW t, NEW s \in Nat, NEW e \in Nat, NEW p \in s + 1 .. e - 1, Neutral(t, p),
         Balanced(t, s, p - 1), Balanced(t, p + 1, e)
  PROVE  /\ Balanced(t, s, e) /\ Depth(t, s, p) = 0
         /\ \A q \in p + 1 .. e : Depth(t, s, q) = Depth(t, p + 1, q)
<1>0. /\ p \in Nat /\ p - 1 \in Nat /\ s <= p - 1 /\ s <= (p - 1) + 1 /\ p - 1 <= p /\ (p - 1) + 1 = p
      /\ s <= p + 1
  OBVIOUS
<1>1. Depth(t, s, p) = 0
  <2>1. \A r \in Nat : s <= r + 1 /\ r <= p => Depth(t, s, p) = Depth(t, s, r) + Depth(t, r + 1, p)
    BY <1>0, DepthSplits
  <2>2. Depth(t, p, p) = 0
    BY <1>0, DepthOfOne DEF Neutral
  <2>3. Depth(t, s, p) = Depth(t, s, p - 1) + Depth(t, p, p)
    BY <1>0, <2>1
  <2> QED  BY <2>2, <2>3 DEF Balanced
<1>2. ASSUME NEW q \in p + 1 .. e PROVE Depth(t, s, q) = Depth(t, p + 1, q)
  <2>1. q \in Nat /\ p <= q
    OBVIOUS
  <2>2. Depth(t, s, q) = Depth(t, s, p) + Depth(t, p + 1, q) /\ Depth(t, p + 1, q) \in Int
    BY <1>0, <2>1, DepthSplits
  <2> QED  BY <1>1, <2>2
<1>3. \A q \in s .. e : q \in s .. p - 1 \/ q = p \/ q \in p + 1 .. e
  OBVIOUS
<1>4. e \in p + 1 .. e /\ s <= e
  OBVIOUS
<1> QED  BY <1>1, <1>2, <1>3, <1>4 DEF Balanced

\* What the grammar derives as an expression of a level: it ends with an operand, and outside
\* its parentheses no operator behind an operand binds more loosely.
Operand == {"num", ")"}
Phrase(t, s, e, l) ==
  /\ Balanced(t, s, e) /\ Type(t, e) \in Operand
  /\ \A q \in s + 1 .. e : Depth(t, s, q) = 0 /\ Type(t, q - 1) \in Operand => Level(Type(t, q)) <= l

LEMMA PhraseNum ==
  ASSUME NEW t, NEW s \in Nat, Type(t, s) = "num", NEW l \in Nat
  PROVE  Phrase(t, s, s, l)
<1>1. Depth(t, s, s) = 0
  BY DepthOfOne
<1> QED  BY <1>1 DEF Phrase, Balanced, Operand

LEMMA PhraseParens ==
  ASSUME NEW t, NEW s \in Nat, NEW e \in Nat, s < e, Type(t, s) = "(", Type(t, e) = ")",
         NEW k \in Nat, Phrase(t, s + 1, e - 1, k), NEW l \in Nat
  PROVE  Phrase(t, s, e, l)
<1>1. Balanced(t, s, e) /\ \A q \in s .. e - 1 : Depth(t, s, q) >= 1
  BY Within DEF Phrase
<1>2. \A q \in s + 1 .. e : q # e => q \in s .. e - 1
  OBVIOUS
<1>3. \A q \in s + 1 .. e : Depth(t, s, q) = 0 => q = e
  BY <1>1, <1>2
<1>4. Level(Type(t, e)) <= l
  BY DEF Level
<1> QED  BY <1>1, <1>3, <1>4 DEF Phrase, Operand

LEMMA PhraseDeref ==
  ASSUME NEW t, NEW s \in Nat, NEW e \in Nat, s < e, Type(t, s) = "*",
         NEW l \in Nat, NEW k \in 0 .. l, Phrase(t, s + 1, e, k)
  PROVE  Phrase(t, s, e, l)
<1>1. Balanced(t, s, e) /\ \A q \in s + 1 .. e : Depth(t, s, q) = Depth(t, s + 1, q)
  BY Behind DEF Phrase, Neutral
<1>2. ASSUME NEW q \in s + 1 .. e, Depth(t, s, q) = 0, Type(t, q - 1) \in Operand
      PROVE  Level(Type(t, q)) <= l
  <2>1. CASE q = s + 1
    BY <1>2, <2>1 DEF Operand
  <2>2. CASE q # s + 1
    <3>1. q \in (s + 1) + 1 .. e
      BY <2>2
    <3>2. Level(Type(t, q)) <= k
      BY <1>1, <1>2, <3>1 DEF Phrase
    <3>3. Level(Type(t, q)) \in Int
      BY DEF Level
    <3> QED  BY <3>2, <3>3
  <2> QED  BY <2>1, <2>2
<1> QED  BY <1>1, <1>2 DEF Phrase

LEMMA PhraseBinary ==
  ASSUME NEW t, NEW s \in Nat, NEW e \in Nat, NEW p \in s + 1 .. e - 1,
         NEW l \in Nat, NEW j \in 1 .. l, Level(Type(t, p)) = j,
         Phrase(t, s, p - 1, j), Phrase(t, p + 1, e, j - 1)
  PROVE  Phrase(t, s, e, l)
<1>0. Neutral(t, p) /\ Type(t, p) \notin Operand
  BY DEF Level, Neutral, Operand
<1>1. /\ Balanced(t, s, e) /\ Depth(t, s, p) = 0
      /\ \A q \in p + 1 .. e : Depth(t, s, q) = Depth(t, p + 1, q)
  BY <1>0, Beside DEF Phrase
<1>l. \A q : Level(Type(t, q)) \in Int
  BY DEF Level
<1>2. ASSUME NEW q \in s + 1 .. e, Depth(t, s, q) = 0, Type(t, q - 1) \in Operand
      PROVE  Level(Type(t, q)) <= l
  <2>1. CASE q < p
    <3>1. q \in s + 1 .. p - 1
      BY <2>1
    <3>2. Level(Type(t, q)) <= j
      BY <1>2, <3>1 DEF Phrase
    <3> QED  BY <1>l, <3>2
  <2>2. CASE q = p
    BY <2>2
  <2>3. CASE q = p + 1
    BY <1>0, <1>2, <2>3
  <2>4. CASE q > p + 1
    <3>1. q \in (p + 1) + 1 .. e /\ q \in p + 1 .. e
      BY <2>4
    <3>2. Level(Type(t, q)) <= j - 1
      BY <1>1, <1>2, <3>1 DEF Phrase
    <3> QED  BY <1>l, <3>2
  <2> QED  BY <2>1, <2>2, <2>3, <2>4
<1> QED  BY <1>1, <1>2 DEF Phrase

\* The rules of the grammar.
Derives(t, m, s, e, l, c) ==
  \/ s = e /\ Type(t, s) = "num" /\ c = C!Number(t[s][2])
  \/ s < e /\ Type(t, s) = "(" /\ Type(t, e) = ")" /\ c \in m[<<s + 1, e - 1>>][C!All]
  \/ s < e /\ Type(t, s) = "*" /\ \E a \in m[<<s + 1, e>>][0] : c = C!Fetch(a)
  \/ \E p \in s + 1 .. e - 1, j \in 1 .. l :
       /\ Type(t, p) \in C!Levels[j]
       /\ \E a \in m[<<s, p - 1>>][j], b \in m[<<p + 1, e>>][j - 1] : c = C!Operate(Type(t, p), a, b)

LEMMA Rules ==
  ASSUME NEW t, NEW m, NEW s, NEW e, NEW l, NEW c
  PROVE  c \in C!Derived(t, m, s, e, l) <=> Derives(t, m, s, e, l, c)
<1> DEFINE A == IF s = e /\ t[s][1] = "num" THEN {C!Number(t[s][2])} ELSE {}
           B == IF s < e /\ t[s][1] = "(" /\ t[e][1] = ")" THEN m[<<s + 1, e - 1>>][C!All] ELSE {}
           D == IF s < e /\ t[s][1] = "*" THEN {C!Fetch(a) : a \in m[<<s + 1, e>>][0]} ELSE {}
           S(p, j) == {C!Operate(t[p][1], a, b) : a \in m[<<s, p - 1>>][j], b \in m[<<p + 1, e>>][j - 1]}
           F(p, j) == IF t[p][1] \in C!Levels[j] THEN S(p, j) ELSE {}
           U == UNION {F(p, j) : p \in s + 1 .. e - 1, j \in 1 .. l}
<1>1. C!Derived(t, m, s, e, l) = A \cup B \cup D \cup U
  BY DEF C!Derived
<1>2. c \in A <=> s = e /\ Type(t, s) = "num" /\ c = C!Number(t[s][2])
  BY Zenon DEF Type
<1>3. c \in B <=> s < e /\ Type(t, s) = "(" /\ Type(t, e) = ")" /\ c \in m[<<s + 1, e - 1>>][C!All]
  BY Zenon DEF Type
<1>4. c \in D <=> s < e /\ Type(t, s) = "*" /\ \E a \in m[<<s + 1, e>>][0] : c = C!Fetch(a)
  BY Zenon DEF Type
<1>5. \A p, j : c \in S(p, j) <=> \E a \in m[<<s, p - 1>>][j], b \in m[<<p + 1, e>>][j - 1] : c = C!Operate(Type(t, p), a, b)
  BY DEF Type
<1>6. c \in U <=> \E p \in s + 1 .. e - 1, j \in 1 .. l : c \in F(p, j)
  <2> HIDE DEF F
  <2> QED  OBVIOUS
<1>7. \A p, j : c \in F(p, j) <=> Type(t, p) \in C!Levels[j] /\ c \in S(p, j)
  <2> HIDE DEF S
  <2> QED  BY Zenon DEF Type
<1> HIDE DEF A, B, D, S, F, U
<1>8. c \in C!Derived(t, m, s, e, l) <=> c \in A \/ c \in B \/ c \in D \/ c \in U
  BY <1>1, Zenon
<1> QED  BY <1>2, <1>3, <1>4, <1>5, <1>6, <1>7, <1>8, ZenonT(60) DEF Derives

SameMeanings(m, w, s, e) ==
  /\ s < e => m[<<s + 1, e - 1>>] = w[<<s + 1, e - 1>>] /\ m[<<s + 1, e>>] = w[<<s + 1, e>>]
  /\ \A p \in s + 1 .. e - 1 : m[<<s, p - 1>>] = w[<<s, p - 1>>] /\ m[<<p + 1, e>>] = w[<<p + 1, e>>]

LEMMA DerivedOfParts ==
  ASSUME NEW t, NEW m, NEW w, NEW s, NEW e, NEW l, SameMeanings(m, w, s, e)
  PROVE  C!Derived(t, m, s, e, l) = C!Derived(t, w, s, e, l)
<1> SUFFICES ASSUME NEW c PROVE Derives(t, m, s, e, l, c) <=> Derives(t, w, s, e, l, c)
  <2> SUFFICES ASSUME NEW c PROVE c \in C!Derived(t, m, s, e, l) <=> c \in C!Derived(t, w, s, e, l)
    BY Zenon
  <2> QED  BY Rules, Zenon
<1> QED  BY Zenon DEF Derives, SameMeanings

Row(t, m, s, e) == [l \in 0 .. C!All |-> C!Derived(t, m, s, e, l)]

LEMMA RowOfParts ==
  ASSUME NEW t, NEW m, NEW w, NEW s, NEW e, SameMeanings(m, w, s, e)
  PROVE  Row(t, m, s, e) = Row(t, w, s, e)
<1>1. \A l : C!Derived(t, m, s, e, l) = C!Derived(t, w, s, e, l)
  <2> SUFFICES ASSUME NEW l PROVE C!Derived(t, m, s, e, l) = C!Derived(t, w, s, e, l)
    OBVIOUS
  <2> QED  BY DerivedOfParts
<1> QED  BY <1>1, Zenon DEF Row

LEMMA EmptyRow ==
  ASSUME NEW t, NEW m, NEW s \in Nat, NEW e \in Nat, e < s
  PROVE  Row(t, m, s, e) = [l \in 0 .. C!All |-> {}]
<1>1. ASSUME NEW l PROVE C!Derived(t, m, s, e, l) = {}
  <2>1. ASSUME NEW c PROVE ~Derives(t, m, s, e, l, c)
    <3>1. s # e /\ ~(s < e) /\ s + 1 .. e - 1 = {}
      OBVIOUS
    <3> QED  BY <3>1, Zenon DEF Derives
  <2>2. \A c : c \notin C!Derived(t, m, s, e, l)
    BY <2>1, Rules, Zenon
  <2> QED  BY <2>2, Zenon
<1> QED  BY <1>1, Zenon DEF Row

\* C!Meanings returns, too.
LEMMA MeaningParts ==
  ASSUME NEW t, NEW z \in Nat, z = Len(t)
  PROVE  \A s \in 1 .. z, e \in 1 .. z : C!Meanings(t)[<<s, e>>] = Row(t, C!Meanings(t), s, e)
<1> DEFINE D == (1 .. z) \X (1 .. z)
           Nothing == [l \in 0 .. C!All |-> {}]
           Whole(v) == [p \in D |-> Row(t, v, p[1], p[2])]
           Upto(k, v) == [p \in D |-> IF p[2] < p[1] + k THEN Row(t, v, p[1], p[2]) ELSE Nothing]
           P == {k \in 0 .. z : \E v : v = Upto(k, v)}
<1>1. C!Meanings(t) = CHOOSE v : v = Whole(v)
  BY Zenon DEF C!Meanings, Row
<1>d. /\ \A p \in D : p[1] \in 1 .. z /\ p[2] \in 1 .. z /\ p = <<p[1], p[2]>>
      /\ \A s \in 1 .. z, e \in 1 .. z : /\ <<s, e>> \in D
                                         /\ <<s, e>>[1] = s /\ <<s, e>>[2] = e
  OBVIOUS
<1>e. \A v : \A s \in 1 .. z, e \in 1 .. z : e < s => Row(t, v, s, e) = Nothing
  BY EmptyRow
<1> HIDE DEF D, Nothing
<1>2. 0 \in P
  <2> DEFINE v == [p \in D |-> Nothing]
  <2>1. \A p \in D : p[2] < p[1] + 0 => Row(t, v, p[1], p[2]) = Nothing
    <3> HIDE DEF v
    <3> SUFFICES ASSUME NEW p \in D, p[2] < p[1] + 0 PROVE Row(t, v, p[1], p[2]) = Nothing
      OBVIOUS
    <3>1. p[1] \in 1 .. z /\ p[2] \in 1 .. z
      BY <1>d, Zenon
    <3>2. p[2] < p[1]
      BY <3>1
    <3> QED  BY <1>e, <3>1, <3>2, Zenon
  <2>2. v = Upto(0, v)
    <3>1. \A p \in D : Nothing = IF p[2] < p[1] + 0 THEN Row(t, v, p[1], p[2]) ELSE Nothing
      BY <2>1, Zenon
    <3> QED  BY <3>1, Zenon
  <2>3. 0 \in 0 .. z
    OBVIOUS
  <2> HIDE DEF v, Upto
  <2> QED  BY <2>2, <2>3, Zenon
<1>3. ASSUME NEW k \in 1 .. z, k - 1 \in P PROVE k \in P
  <2>1. PICK v : v = Upto(k - 1, v)
    BY <1>3, Zenon
  <2> DEFINE w == [p \in D |-> IF p[2] < p[1] + k THEN Row(t, v, p[1], p[2]) ELSE Nothing]
  <2>2. \A p \in D : v[p] = IF p[2] < p[1] + (k - 1) THEN Row(t, v, p[1], p[2]) ELSE Nothing
    BY <2>1, Zenon
  <2>3. \A p \in D : w[p] = IF p[2] < p[1] + k THEN Row(t, v, p[1], p[2]) ELSE Nothing
    BY Zenon
  <2> HIDE DEF w
  <2>4. ASSUME NEW s \in 1 .. z, NEW e \in 1 .. z, e < s + (k - 1)
        PROVE  v[<<s, e>>] = w[<<s, e>>]
    <3>1. e < s + k
      BY <2>4
    <3>2. PICK p \in D : p = <<s, e>> /\ p[1] = s /\ p[2] = e
      BY <1>d, ZenonT(60)
    <3>3. v[p] = Row(t, v, p[1], p[2])
      BY <2>2, <2>4, <3>2, Zenon
    <3>4. w[p] = Row(t, v, p[1], p[2])
      BY <2>3, <3>1, <3>2, Zenon
    <3> QED  BY <3>2, <3>3, <3>4, Zenon
  <2>5. ASSUME NEW s \in 1 .. z, NEW e \in 1 .. z, e < s + k
        PROVE  Row(t, v, s, e) = Row(t, w, s, e)
    <3>1. ASSUME s < e
          PROVE  v[<<s + 1, e - 1>>] = w[<<s + 1, e - 1>>] /\ v[<<s + 1, e>>] = w[<<s + 1, e>>]
      <4>1. /\ s + 1 \in 1 .. z /\ e - 1 \in 1 .. z
            /\ e - 1 < s + 1 + (k - 1) /\ e < s + 1 + (k - 1)
        BY <2>5, <3>1
      <4> QED  BY <2>4, <4>1, Zenon
    <3>2. ASSUME NEW p \in s + 1 .. e - 1
          PROVE  v[<<s, p - 1>>] = w[<<s, p - 1>>] /\ v[<<p + 1, e>>] = w[<<p + 1, e>>]
      <4>1. /\ p - 1 \in 1 .. z /\ p - 1 < s + (k - 1)
            /\ p + 1 \in 1 .. z /\ e < p + 1 + (k - 1)
        BY <2>5
      <4> QED  BY <2>4, <4>1, Zenon
    <3>3. SameMeanings(v, w, s, e)
      BY <3>1, <3>2, Zenon DEF SameMeanings
    <3> QED  BY <3>3, RowOfParts
  <2>6. w = Upto(k, w)
    <3>1. ASSUME NEW p \in D
          PROVE  (IF p[2] < p[1] + k THEN Row(t, v, p[1], p[2]) ELSE Nothing)
                   = IF p[2] < p[1] + k THEN Row(t, w, p[1], p[2]) ELSE Nothing
      BY <1>d, <2>5, Zenon
    <3>2. Upto(k, w) = [p \in D |-> IF p[2] < p[1] + k THEN Row(t, v, p[1], p[2]) ELSE Nothing]
      BY <3>1, Zenon
    <3> HIDE DEF Upto
    <3> QED  BY <3>2, Zenon DEF w
  <2>7. k \in 0 .. z
    OBVIOUS
  <2> HIDE DEF Upto
  <2> QED  BY <2>6, <2>7, Zenon
<1>4. \E v : v = Whole(v)
  <2>1. z \in P
    <3> HIDE DEF P
    <3>1. \A k \in 0 .. z : k \in P
      BY <1>2, <1>3, Induction
    <3> QED  BY <3>1
  <2>2. PICK v : v = Upto(z, v)
    BY <2>1, Zenon
  <2>3. \A p \in D : p[2] < p[1] + z
    <3>1. \A s \in 1 .. z, e \in 1 .. z : e < s + z
      OBVIOUS
    <3> QED  BY <1>d, <3>1, Zenon
  <2>4. Upto(z, v) = Whole(v)
    BY <2>3, Zenon
  <2> HIDE DEF Upto, Whole
  <2> QED  BY <2>2, <2>4, Zenon
<1> DEFINE v == CHOOSE f : f = Whole(f)
<1>5. v = Whole(v)
  <2> HIDE DEF Whole
  <2> QED  BY <1>4, Zenon
<1> HIDE DEF v
<1>6. \A p \in D : v[p] = Row(t, v, p[1], p[2])
  BY <1>5, Zenon
<1>7. C!Meanings(t) = v
  BY <1>1, Zenon DEF v
<1>8. \A s \in 1 .. z, e \in 1 .. z : v[<<s, e>>] = Row(t, v, s, e)
  <2> SUFFICES ASSUME NEW s \in 1 .. z, NEW e \in 1 .. z PROVE v[<<s, e>>] = Row(t, v, s, e)
    OBVIOUS
  <2>1. PICK p \in D : p = <<s, e>> /\ p[1] = s /\ p[2] = e
    BY <1>d, ZenonT(60)
  <2> QED  BY <1>6, <2>1, Zenon
<1> QED  BY <1>7, <1>8, Zenon

\* A star is the only token whose kind the marking changes.
Reading(b, k) ==
  \A i \in 1 .. Len(b) :
    /\ Type(b, i) # "deref"
    /\ Type(k, i) # "deref" => k[i] = b[i]
    /\ Type(k, i) = "deref" => Type(b, i) = "*" /\ (i = 1 \/ Type(k, i - 1) \in MarksDeref)

LEMMA MarksRead ==
  ASSUME NEW b \in Seq(Token), NEW k, Marks(b, k)
  PROVE  Reading(b, k)
<1> SUFFICES ASSUME NEW i \in 1 .. Len(b)
             PROVE  /\ Type(b, i) # "deref"
                    /\ Type(k, i) # "deref" => k[i] = b[i]
                    /\ Type(k, i) = "deref" => Type(b, i) = "*" /\ (i = 1 \/ Type(k, i - 1) \in MarksDeref)
  BY DEF Reading
<1>1. b[i] \in Token
  OBVIOUS
<1>2. Type(b, i) # "deref"
  <2>1. "deref" \notin Binary
    BY ExprAssumption
  <2> QED  BY <1>1, <2>1 DEF Token, Type, Open, Num, Tok
<1>3. k[i] = IF Type(b, i) = "*" /\ (i = 1 \/ Type(k, i - 1) \in MarksDeref) THEN Tok("deref") ELSE b[i]
  BY DEF Marks
<1>4. Tok("deref")[1] = "deref"
  BY DEF Tok
<1> DEFINE M == Type(b, i) = "*" /\ (i = 1 \/ Type(k, i - 1) \in MarksDeref)
<1>5. M => Type(k, i) = "deref"
  BY <1>3, <1>4, Zenon DEF Type
<1>6. ~M => k[i] = b[i] /\ Type(k, i) = Type(b, i)
  BY <1>3, Zenon DEF Type
<1> QED  BY <1>2, <1>5, <1>6, Zenon

LEMMA SameDepth ==
  ASSUME NEW b, NEW k, Reading(b, k), Len(b) \in Nat, NEW s \in 1 .. Len(b), NEW e \in 1 .. Len(b)
  PROVE  Depth(k, s, e) = Depth(b, s, e)
<1>1. \A i \in 1 .. Len(b) : /\ Type(k, i) = "(" <=> Type(b, i) = "("
                             /\ Type(k, i) = ")" <=> Type(b, i) = ")"
  BY DEF Reading, Type
<1>2. \A i \in s .. e : i \in 1 .. Len(b)
  OBVIOUS
<1>3. s \in Nat /\ e \in Nat
  OBVIOUS
<1> QED  BY <1>1, <1>2, <1>3, DepthSame

\* A level has its operators.
LEMMA LevelOf ==
  ASSUME NEW x
  PROVE  /\ Level(x) \in -1 .. 4
         /\ \A j \in 1 .. 4 : x \in C!Levels[j] <=> Level(x) = j
         /\ Level(x) = 0 <=> x = "deref"
         /\ Level(x) >= 0 => x # "(" /\ x # ")" /\ x # "num"
         /\ x \in MarksDeref /\ x # "(" => Level(x) >= 1
<1>1. \A j \in 1 .. 4 : j = 1 \/ j = 2 \/ j = 3 \/ j = 4
  OBVIOUS
<1>2. C!Levels[1] = {"*", "/"} /\ C!Levels[2] = {"+", "-"} /\ C!Levels[3] = {"==", "!="} /\ C!Levels[4] = {"&&"}
  BY DEF C!Levels
<1>3. \A j \in 1 .. 4 : x \in C!Levels[j] <=> Level(x) = j
  BY <1>1, <1>2 DEF Level
<1>4. /\ Level(x) \in -1 .. 4
      /\ Level(x) = 0 <=> x = "deref"
      /\ Level(x) >= 0 => x # "(" /\ x # ")" /\ x # "num"
      /\ x \in MarksDeref /\ x # "(" => Level(x) >= 1
  BY DEF Level, MarksDeref
<1> QED  BY <1>3, <1>4

LEMMA AllLevels == C!All = 4
  BY DEF C!All, C!Levels

Parts(k, v, z) == \A s \in 1 .. z + 1, e \in 0 .. z : v[<<s, e>>] = Part(k, v, s, e)

\* How a part comes to its value.
SplitsUnary(k, v, s, e) ==
  /\ s < e /\ Type(k, s) = "deref" /\ \A q \in Top(k, s, e) : Level(Type(k, q)) <= 0
  /\ IsValue(v[<<s + 1, e>>]) /\ v[<<s, e>>] = paddr_read(v[<<s + 1, e>>][2])
SplitsBinary(k, v, s, e, op) ==
  /\ op \in s + 1 .. e - 1 /\ op \in Top(k, s, e) /\ Loosest(k, s, e, op) /\ Level(Type(k, op)) >= 1
  /\ IsValue(v[<<s, op - 1>>]) /\ IsValue(v[<<op + 1, e>>])
  /\ v[<<s, e>>] = Apply(Type(k, op), v[<<s, op - 1>>][2], v[<<op + 1, e>>][2])
SplitsParens(k, v, s, e) ==
  /\ s + 1 <= e - 1 /\ Type(k, s) = "(" /\ Type(k, e) = ")"
  /\ IsValue(v[<<s + 1, e - 1>>]) /\ v[<<s, e>>] = v[<<s + 1, e - 1>>]
Splits(k, v, s, e) ==
  \/ s = e /\ Type(k, s) = "num" /\ v[<<s, e>>] = Uint(k[s][2])
  \/ SplitsParens(k, v, s, e)
  \/ SplitsUnary(k, v, s, e)
  \/ \E op \in s + 1 .. e - 1 : SplitsBinary(k, v, s, e, op)

LEMMA NoEmptyPart ==
  ASSUME NEW k, NEW z \in Nat, NEW v, Parts(k, v, z), NEW s \in 1 .. z + 1, NEW e \in 0 .. z,
         IsValue(v[<<s, e>>])
  PROVE  s <= e
<1>1. s > e => v[<<s, e>>] = Abort
  BY Zenon DEF Parts, Part
<1>2. ~IsValue(Abort)
  BY DEF IsValue, Abort
<1>3. ~(s > e)
  BY <1>1, <1>2, Zenon
<1> QED  BY <1>3

\* The token before the operator that is found is the end of an operand.
LEMMA FirstDeref ==
  ASSUME NEW b, NEW k, NEW z \in Nat, z = Len(b), Reading(b, k), ~Misread(b),
         NEW s \in 1 .. z, NEW e \in s .. z, NEW op \in s .. e, op \in Top(k, s, e),
         \A q \in Top(k, s, e) : Level(Type(k, q)) <= 0, Type(k, op) = "deref"
  PROVE  op = s
<1> SUFFICES ASSUME op # s PROVE FALSE
  OBVIOUS
<1> DEFINE p == op - 1
<1>1. p \in Nat /\ op \in Nat /\ p \in s .. e /\ s \in Nat /\ s <= p /\ s <= p + 1 /\ p <= op /\ p + 1 = op
      /\ op \in 1 .. z /\ p \in 1 .. z /\ op # 1
  OBVIOUS
<1> HIDE DEF p
<1>2. Type(b, op) = "*" /\ Type(k, p) \in MarksDeref
  BY <1>1 DEF Reading, p
<1>3. Depth(k, s, p) = 0
  <2>1. Depth(k, s, op) = Depth(k, s, p) + Depth(k, p + 1, op) /\ Depth(k, s, p) \in Int
    <3>1. s \in Nat /\ p \in Nat /\ op \in Nat /\ s <= p + 1 /\ p <= op
      BY <1>1
    <3> HIDE DEF Top
    <3> QED  BY <3>1, DepthSplits
  <2>2. Depth(k, op, op) = 0
    BY <1>1, DepthOfOne
  <2>3. Depth(k, s, op) = 0
    BY DEF Top
  <2> QED  BY <1>1, <2>1, <2>2, <2>3
<1>4. CASE Type(k, p) # "("
  <2>1. Level(Type(k, p)) >= 1
    BY <1>2, <1>4, LevelOf
  <2>2. p \in Top(k, s, e)
    BY <1>1, <1>3, <2>1, LevelOf DEF Top
  <2>3. Level(Type(k, p)) <= 0
    BY <2>2
  <2> QED  BY <2>1, <2>3, LevelOf
<1>5. CASE Type(k, p) = "("
  <2>1. p # s
    BY <1>1, <1>3, <1>5, DepthOfOne
  <2> DEFINE r == p - 1
  <2>2. r \in Nat /\ s <= r /\ s <= r + 1 /\ r <= p /\ r + 1 = p
    BY <1>1, <2>1
  <2> HIDE DEF r
  <2>3. Depth(k, s, r) < 0
    <3>1. Depth(k, s, p) = Depth(k, s, r) + Depth(k, r + 1, p) /\ Depth(k, s, r) \in Int
      BY <1>1, <2>2, DepthSplits
    <3>2. Depth(k, p, p) = 1
      BY <1>1, <1>5, DepthOfOne
    <3> QED  BY <1>3, <2>2, <3>1, <3>2
  <2>4. PICK i \in s .. r : Type(k, i) = ")"
    BY <1>1, <2>2, <2>3, DepthNegative
  <2>5. i \in 1 .. z /\ i < p
    BY <1>1, <2>2
  <2>6. Type(b, i) = ")" /\ Type(b, p) = "("
    BY <1>1, <1>5, <2>4, <2>5 DEF Reading, Type
  <2>7. p \in 1 .. Len(b) - 1
    BY <1>1
  <2>8. Misread(b)
    BY <1>1, <1>2, <2>5, <2>6, <2>7 DEF Misread
  <2> QED  BY <2>8
<1> QED  BY <1>4, <1>5

LEMMA ValueSplits ==
  ASSUME NEW b, NEW k, NEW z \in Nat, z = Len(b), Reading(b, k), ~Misread(b),
         NEW v, Parts(k, v, z), NEW s \in 1 .. z, NEW e \in 1 .. z, IsValue(v[<<s, e>>])
  PROVE  Splits(k, v, s, e)
<1> DEFINE op == find_primary_operator(k, s, e)
           val == v[<<s, e>>]
           val1 == v[<<s, op - 1>>]
           val2 == v[<<op + 1, e>>]
<1>0. s \in 1 .. z + 1 /\ e \in 0 .. z /\ s \in Nat /\ e \in Nat
  OBVIOUS
<1>1. s <= e
  BY <1>0, NoEmptyPart
<1>2. val = Part(k, v, s, e)
  BY <1>0, Zenon DEF Parts
<1>3. ~IsValue(Abort)
  BY DEF IsValue, Abort
<1>4. CASE s = e
  <2>1. ~(s > e)
    BY <1>1, <1>0
  <2>2. Type(k, s) = "num" /\ val = Uint(k[s][2])
    BY <1>2, <1>3, <1>4, <2>1, Zenon DEF Part
  <2> QED  BY <1>4, <2>2, Zenon DEF Splits
<1>5. CASE s # e /\ Type(k, s) = "(" /\ Type(k, e) = ")"
  <2>1. ~(s > e)
    BY <1>0, <1>1
  <2>2. val = v[<<s + 1, e - 1>>]
    BY <1>2, <1>3, <1>5, <2>1, Zenon DEF Part
  <2>3. s + 1 \in 1 .. z + 1 /\ e - 1 \in 0 .. z
    BY <1>0
  <2>4. s + 1 <= e - 1
    <3> DEFINE a == s + 1
               c == e - 1
    <3>1. a \in 1 .. z + 1 /\ c \in 0 .. z /\ IsValue(v[<<a, c>>])
      BY <2>2, <2>3, Zenon
    <3> HIDE DEF a, c
    <3>2. a <= c
      BY <3>1, NoEmptyPart
    <3> QED  BY <3>2 DEF a, c
  <2> QED  BY <1>5, <2>2, <2>4, Zenon DEF Splits, SplitsParens
<1>6. CASE s # e /\ ~(Type(k, s) = "(" /\ Type(k, e) = ")")
  <2>1. ~(s > e) /\ s < e
    BY <1>0, <1>1, <1>6
  <2>2. /\ op \in s .. e
        /\ Top(k, s, e) # {} => op \in Top(k, s, e) /\ Loosest(k, s, e, op)
    BY <1>0, <1>1, FindsOperator
  <2>3. val = IF Type(k, op) = "deref"
              THEN IF IsValue(val2) THEN paddr_read(val2[2]) ELSE val2
              ELSE IF ~IsValue(val1) THEN val1
              ELSE IF ~IsValue(val2) THEN val2
              ELSE Apply(Type(k, op), val1[2], val2[2])
    BY <1>2, <1>6, <2>1, Zenon DEF Part
  <2>4. op = s \/ (op \in Top(k, s, e) /\ Loosest(k, s, e, op))
    BY <2>2, Zenon DEF find_primary_operator
  <2> HIDE DEF op
  <2>5. CASE Type(k, op) = "deref"
    <3>1. IsValue(val2) /\ val = paddr_read(val2[2])
      BY <2>3, <2>5, Zenon
    <3>2. Top(k, s, e) # {} => op \in Top(k, s, e) /\ Loosest(k, s, e, op)
      BY <2>2
    <3>3. \A q \in Top(k, s, e) : Level(Type(k, q)) <= 0
      <4> SUFFICES ASSUME NEW q \in Top(k, s, e) PROVE Level(Type(k, q)) <= 0
        OBVIOUS
      <4>1. Level(Type(k, q)) < Level(Type(k, op)) \/ Level(Type(k, q)) = Level(Type(k, op))
        BY <3>2 DEF Loosest
      <4>2. Level(Type(k, op)) = 0 /\ Level(Type(k, q)) \in Int
        BY <2>5, LevelOf
      <4> QED  BY <4>1, <4>2
    <3>4. op = s
      <4>1. CASE op \in Top(k, s, e)
        BY <1>0, <1>1, <2>2, <2>5, <3>3, <4>1, FirstDeref
      <4> QED  BY <2>4, <4>1
    <3> QED  BY <2>1, <2>5, <3>1, <3>3, <3>4, Zenon DEF Splits, SplitsUnary
  <2>6. CASE Type(k, op) # "deref"
    <3>1. IsValue(val1) /\ IsValue(val2) /\ val = Apply(Type(k, op), val1[2], val2[2])
      BY <2>3, <2>6, Zenon
    <3>2. op - 1 \in 0 .. z /\ op + 1 \in 1 .. z + 1
      BY <1>0, <2>2
    <3>3. s <= op - 1
      <4> DEFINE c == op - 1
      <4>1. c \in 0 .. z /\ IsValue(v[<<s, c>>])
        BY <3>1, <3>2, Zenon
      <4> HIDE DEF c
      <4>2. s <= c
        BY <1>0, <4>1, NoEmptyPart
      <4> QED  BY <4>2 DEF c
    <3>4. op + 1 <= e
      <4> DEFINE a == op + 1
      <4>1. a \in 1 .. z + 1 /\ IsValue(v[<<a, e>>])
        BY <3>1, <3>2, Zenon
      <4> HIDE DEF a
      <4>2. a <= e
        BY <1>0, <4>1, NoEmptyPart
      <4> QED  BY <4>2 DEF a
    <3>5. op \in s + 1 .. e - 1 /\ op # s
      BY <1>0, <2>2, <3>3, <3>4
    <3>6. op \in Top(k, s, e) /\ Loosest(k, s, e, op)
      BY <2>4, <3>5
    <3>7. Level(Type(k, op)) >= 1
      <4>1. Level(Type(k, op)) >= 0
        BY <3>6 DEF Top
      <4> QED  BY <2>6, <4>1, LevelOf
    <3> QED  BY <3>1, <3>5, <3>6, <3>7, Zenon DEF Splits, SplitsBinary
  <2> QED  BY <2>5, <2>6
<1> QED  BY <1>4, <1>5, <1>6

\* Values are what a uint32_t holds.
IsWord(r) == \E x \in 0 .. Modulus - 1 : r = <<"value", x>>

LEMMA UintIsWord ==
  ASSUME NEW h \in Int
  PROVE  /\ IsWord(Uint(h)) /\ Uint(h) = C!Number(h)
         /\ h \in 0 .. Modulus - 1 => Uint(h) = Value(h)
<1>1. Modulus \in Nat \ {0, 1}
  BY ExprAssumption
<1>2. h % Modulus \in 0 .. Modulus - 1
  BY <1>1
<1>3. h \in 0 .. Modulus - 1 => h % Modulus = h
  BY <1>1
<1> QED  BY <1>2, <1>3 DEF IsWord, Uint, Value, C!Number

LEMMA WordIsValue ==
  ASSUME NEW r, IsWord(r)
  PROVE  IsValue(r) /\ r[2] \in 0 .. Modulus - 1 /\ r = <<"value", r[2]>>
BY DEF IsWord, IsValue

\* What the grammar makes of a part with the value w, unless it depends on the sign of numbers
Like(d, w) == d = w \/ d = C!Depends

LEMMA Fetches ==
  ASSUME NEW a, IsWord(a), IsValue(paddr_read(a[2])), NEW d, Like(d, a)
  PROVE  IsWord(paddr_read(a[2])) /\ Like(C!Fetch(d), paddr_read(a[2]))
<1>1. a[2] \in DOMAIN pmem /\ paddr_read(a[2]) = Uint(pmem[a[2]])
  <2>1. ~IsValue(Abort)
    BY DEF IsValue, Abort
  <2> QED  BY <2>1, Zenon DEF paddr_read
<1>2. pmem[a[2]] \in Int
  BY <1>1, ExprAssumption
<1>3. IsWord(Uint(pmem[a[2]])) /\ Uint(pmem[a[2]]) = C!Number(pmem[a[2]])
  BY <1>2, UintIsWord
<1>4. a[1] = "value"
  BY WordIsValue DEF IsValue
<1>5. C!Fetch(a) = C!Number(pmem[a[2]])
  BY <1>1, <1>4, Zenon DEF C!Fetch
<1>6. C!Fetch(C!Depends) = C!Depends
  BY DEF C!Fetch, C!Depends
<1> QED  BY <1>1, <1>3, <1>5, <1>6, Zenon DEF Like

LEMMA Truths ==
  /\ C!Truth(TRUE) = Value(1) /\ C!Truth(FALSE) = Value(0) /\ IsWord(Value(0)) /\ IsWord(Value(1))
<1>1. Modulus \in Nat \ {0, 1}
  BY ExprAssumption
<1>2. 0 \in 0 .. Modulus - 1 /\ 1 \in 0 .. Modulus - 1
  BY <1>1
<1>3. Uint(0) = Value(0) /\ Uint(1) = Value(1) /\ Uint(0) = C!Number(0) /\ Uint(1) = C!Number(1)
      /\ IsWord(Uint(0)) /\ IsWord(Uint(1))
  BY <1>2, UintIsWord
<1>4. C!Truth(TRUE) = C!Number(1) /\ C!Truth(FALSE) = C!Number(0)
  BY Zenon DEF C!Truth
<1> QED  BY <1>3, <1>4, Zenon

LEMMA OperatesWords ==
  ASSUME NEW op, Level(op) >= 1, NEW a, IsWord(a), NEW c, IsWord(c), IsValue(Apply(op, a[2], c[2]))
  PROVE  IsWord(Apply(op, a[2], c[2])) /\ Like(C!Operate(op, a, c), Apply(op, a[2], c[2]))
<1>1. PICK x \in 0 .. Modulus - 1 : a[1] = "value" /\ a[2] = x
  BY WordIsValue DEF IsValue
<1>2. PICK y \in 0 .. Modulus - 1 : c[1] = "value" /\ c[2] = y
  BY WordIsValue DEF IsValue
<1>m. Modulus \in Nat \ {0, 1}
  BY ExprAssumption
<1>t. \A p \in BOOLEAN : C!Truth(p) = Value(IF p THEN 1 ELSE 0) /\ IsWord(C!Truth(p))
  BY Truths
<1>3. op \in {"+", "-", "*", "/", "==", "!=", "&&"}
  BY DEF Level
<1>4. IsValue(Apply(op, x, y))
  BY <1>1, <1>2, Zenon
<1> SUFFICES IsWord(Apply(op, x, y)) /\ Like(C!Operate(op, a, c), Apply(op, x, y))
  BY <1>1, <1>2, Zenon
<1> USE DEF Like
<1>5. CASE op = "+"
  <2>1. Apply(op, x, y) = Uint(x + y) /\ C!Operate(op, a, c) = C!Number(x + y)
    BY <1>1, <1>2, <1>5 DEF Apply, C!Operate
  <2> QED  BY <2>1, <1>m, UintIsWord
<1>6. CASE op = "-"
  <2>1. Apply(op, x, y) = Uint(x - y) /\ C!Operate(op, a, c) = C!Number(x - y)
    BY <1>1, <1>2, <1>6 DEF Apply, C!Operate
  <2> QED  BY <2>1, <1>m, UintIsWord
<1>7. CASE op = "*"
  <2>1. Apply(op, x, y) = Uint(x * y) /\ C!Operate(op, a, c) = C!Number(x * y)
    BY <1>1, <1>2, <1>7 DEF Apply, C!Operate
  <2>2. x * y \in Int
    BY <1>m
  <2> QED  BY <2>1, <2>2, UintIsWord
<1>8. CASE op = "/"
  <2>1. y # 0
    <3>1. y = 0 => Apply(op, x, y) = Crash
      BY <1>8 DEF Apply
    <3> QED  BY <1>4, <3>1 DEF IsValue, Crash
  <2>2. /\ Apply(op, x, y) = Value(x \div y)
        /\ C!Operate(op, a, c) = C!Number(x \div y) \/ C!Operate(op, a, c) = C!Depends
    <3>1. C!Operate(op, a, c) = C!Divide(x, y)
      BY <1>1, <1>2, <1>8 DEF C!Operate
    <3>2. C!Divide(x, y) = C!Number(x \div y) \/ C!Divide(x, y) = C!Depends
      BY <2>1, Zenon DEF C!Divide
    <3>3. Apply(op, x, y) = Value(x \div y)
      BY <1>8, <2>1 DEF Apply
    <3> QED  BY <3>1, <3>2, <3>3
  <2>3. x \div y \in 0 .. x
    BY <1>m, <2>1
  <2>4. x \div y \in 0 .. Modulus - 1
    BY <1>m, <2>3
  <2> QED  BY <1>m, <2>2, <2>4, UintIsWord
<1>9. CASE op = "=="
  <2>1. Apply(op, x, y) = Value(IF x = y THEN 1 ELSE 0) /\ C!Operate(op, a, c) = C!Truth(x = y)
    BY <1>1, <1>2, <1>9 DEF Apply, C!Operate
  <2> QED  BY <1>t, <2>1
<1>10. CASE op = "!="
  <2>1. Apply(op, x, y) = Value(IF x = y THEN 0 ELSE 1) /\ C!Operate(op, a, c) = C!Truth(x # y)
    BY <1>1, <1>2, <1>10 DEF Apply, C!Operate
  <2> QED  BY <1>t, <2>1
<1>11. CASE op = "&&"
  <2>1. Apply(op, x, y) = Value(IF x # 0 /\ y # 0 THEN 1 ELSE 0)
    BY <1>11 DEF Apply
  <2>2. C!Operate(op, a, c) = C!Truth(x # 0 /\ y # 0)
    BY <1>1, <1>2, <1>11, Truths DEF C!Operate
  <2> QED  BY <1>t, <2>1, <2>2
<1> QED  BY <1>3, <1>5, <1>6, <1>7, <1>8, <1>9, <1>10, <1>11

LEMMA Operates ==
  ASSUME NEW op, Level(op) >= 1, NEW a, IsWord(a), NEW c, IsWord(c), IsValue(Apply(op, a[2], c[2])),
         NEW d, Like(d, a), NEW f, Like(f, c)
  PROVE  IsWord(Apply(op, a[2], c[2])) /\ Like(C!Operate(op, d, f), Apply(op, a[2], c[2]))
<1>1. IsWord(Apply(op, a[2], c[2])) /\ Like(C!Operate(op, a, c), Apply(op, a[2], c[2]))
  BY OperatesWords
<1>2. CASE d = C!Depends
  <2>1. C!Operate(op, d, f) = C!Depends
    BY <1>2 DEF C!Operate, C!Depends
  <2> QED  BY <1>1, <2>1 DEF Like
<1>3. CASE d = a /\ f = C!Depends
  <2>1. a[1] = "value" /\ C!Depends[1] # "value"
    BY WordIsValue DEF IsValue, C!Depends
  <2>2. CASE op = "&&" /\ a[2] = 0
    <3>1. C!Operate(op, d, f) = C!Truth(FALSE)
      BY <1>3, <2>1, <2>2, Zenon DEF C!Operate
    <3>2. Apply(op, a[2], c[2]) = Value(0)
      BY <2>2 DEF Apply
    <3> QED  BY <1>1, <3>1, <3>2, Truths DEF Like
  <2>3. CASE ~(op = "&&" /\ a[2] = 0)
    <3>1. C!Operate(op, d, f) = C!Depends
      BY <1>3, <2>1, <2>3, Zenon DEF C!Operate
    <3> QED  BY <1>1, <3>1 DEF Like
  <2> QED  BY <2>2, <2>3
<1> QED  BY <1>1, <1>2, <1>3 DEF Like

\* b are the tokens, k the marked ones, v and g what eval and the grammar make of their parts.
Reads(b, k, v, g, z) ==
  /\ b \in Seq(Token) /\ z \in Nat /\ z = Len(b) /\ Reading(b, k) /\ ~Misread(b) /\ Parts(k, v, z)
  /\ \A s \in 1 .. z, e \in 1 .. z : g[<<s, e>>] = Row(b, g, s, e)

LEMMA GrammarRules ==
  ASSUME NEW b, NEW k, NEW v, NEW g, NEW z, Reads(b, k, v, g, z),
         NEW s \in 1 .. z, NEW e \in 1 .. z, NEW l \in 0 .. 4, NEW c
  PROVE  c \in g[<<s, e>>][l] <=> Derives(b, g, s, e, l, c)
<1>1. g[<<s, e>>] = Row(b, g, s, e)
  BY DEF Reads
<1>2. l \in 0 .. C!All
  BY AllLevels
<1>3. Row(b, g, s, e)[l] = C!Derived(b, g, s, e, l)
  BY <1>2, Zenon DEF Row
<1> QED  BY <1>1, <1>3, Rules, Zenon

\* What is known of a part with a value: it is an expression of every level from that of its
\* loosest operator on.
Sound(k, v, g, s, e) ==
  /\ Balanced(k, s, e) /\ Type(k, e) \in Operand /\ IsWord(v[<<s, e>>])
  /\ \E d : /\ Like(d, v[<<s, e>>])
            /\ \A l \in 0 .. 4 :
                 (\A q \in Top(k, s, e) : Level(Type(k, q)) <= l) => d \in g[<<s, e>>][l]

LEMMA SoundIntro ==
  ASSUME NEW k, NEW v, NEW g, NEW s, NEW e, NEW d,
         Balanced(k, s, e), Type(k, e) \in Operand, IsWord(v[<<s, e>>]), Like(d, v[<<s, e>>]),
         \A l \in 0 .. 4 :
           (\A q \in Top(k, s, e) : Level(Type(k, q)) <= l) => d \in g[<<s, e>>][l]
  PROVE  Sound(k, v, g, s, e)
BY Zenon DEF Sound

LEMMA SoundNum ==
  ASSUME NEW b, NEW k, NEW v, NEW g, NEW z, Reads(b, k, v, g, z), NEW s \in 1 .. z,
         Type(k, s) = "num", v[<<s, s>>] = Uint(k[s][2])
  PROVE  Sound(k, v, g, s, s)
<1>1. k[s] = b[s] /\ b[s] \in Token
  BY DEF Reads, Reading
<1>2. b[s][2] \in Nat
  <2>1. b[s][1] = "num"
    BY <1>1 DEF Type
  <2> QED  BY <1>1, <2>1, Binaries, ExprAssumption DEF Token, Open, Num, Tok
<1>3. IsWord(Uint(b[s][2])) /\ Uint(b[s][2]) = C!Number(b[s][2])
  BY <1>2, UintIsWord
<1>4. \A l \in 0 .. 4 : v[<<s, s>>] \in g[<<s, s>>][l]
  <2> SUFFICES ASSUME NEW l \in 0 .. 4 PROVE v[<<s, s>>] \in g[<<s, s>>][l]
    OBVIOUS
  <2>1. Type(b, s) = "num"
    BY <1>1 DEF Type
  <2>2. Derives(b, g, s, s, l, v[<<s, s>>])
    BY <1>1, <1>3, <2>1, Zenon DEF Derives
  <2> QED  BY <2>2, GrammarRules
<1>5. Balanced(k, s, s) /\ Type(k, s) \in Operand
  <2>1. s \in Nat /\ 0 \in Nat
    BY DEF Reads
  <2> QED  BY <2>1, PhraseNum DEF Phrase
<1>6. Like(v[<<s, s>>], v[<<s, s>>])
  BY DEF Like
<1> QED  BY <1>1, <1>3, <1>4, <1>5, <1>6, SoundIntro, Zenon

LEMMA SoundParens ==
  ASSUME NEW b, NEW k, NEW v, NEW g, NEW z, Reads(b, k, v, g, z), NEW s \in 1 .. z, NEW e \in 1 .. z,
         SplitsParens(k, v, s, e), Sound(k, v, g, s + 1, e - 1)
  PROVE  Sound(k, v, g, s, e)
<1>1. /\ s + 1 <= e - 1 /\ Type(k, s) = "(" /\ Type(k, e) = ")" /\ v[<<s, e>>] = v[<<s + 1, e - 1>>]
      /\ s < e /\ s \in Nat /\ e \in Nat
  BY DEF SplitsParens, Reads
<1>2. Balanced(k, s, e) /\ Type(k, e) \in Operand
  BY <1>1, Within DEF Sound, Operand
<1>3. Type(b, s) = "(" /\ Type(b, e) = ")"
  BY <1>1 DEF Reads, Reading, Type
<1>4. \A q : Level(Type(k, q)) <= 4
  BY LevelOf
<1>5. PICK d : Like(d, v[<<s, e>>]) /\ d \in g[<<s + 1, e - 1>>][C!All]
  <2>1. 4 \in 0 .. 4
    OBVIOUS
  <2> QED  BY <1>1, <1>4, <2>1, AllLevels, Zenon DEF Sound
<1>6. ASSUME NEW l \in 0 .. 4 PROVE d \in g[<<s, e>>][l]
  <2>1. Derives(b, g, s, e, l, d)
    BY <1>1, <1>3, <1>5, Zenon DEF Derives
  <2> QED  BY <2>1, GrammarRules
<1>7. IsWord(v[<<s, e>>])
  BY <1>1 DEF Sound
<1> QED  BY <1>2, <1>5, <1>6, <1>7, SoundIntro, Zenon

LEMMA SoundUnary ==
  ASSUME NEW b, NEW k, NEW v, NEW g, NEW z, Reads(b, k, v, g, z), NEW s \in 1 .. z, NEW e \in 1 .. z,
         IsValue(v[<<s, e>>]), SplitsUnary(k, v, s, e), Sound(k, v, g, s + 1, e)
  PROVE  Sound(k, v, g, s, e)
<1>1. /\ s < e /\ s \in Nat /\ e \in Nat /\ Type(k, s) = "deref" /\ Neutral(k, s)
      /\ \A q \in Top(k, s, e) : Level(Type(k, q)) <= 0
      /\ v[<<s, e>>] = paddr_read(v[<<s + 1, e>>][2])
  BY DEF SplitsUnary, Reads, Neutral
<1>2. /\ Balanced(k, s, e) /\ Type(k, e) \in Operand
      /\ \A q \in s + 1 .. e : Depth(k, s, q) = Depth(k, s + 1, q)
  BY <1>1, Behind DEF Sound
<1>3. Type(b, s) = "*"
  BY <1>1 DEF Reads, Reading
<1>4. \A q \in Top(k, s + 1, e) : q \in Top(k, s, e)
  BY <1>1, <1>2 DEF Top
<1>5. PICK d : Like(d, v[<<s + 1, e>>]) /\ d \in g[<<s + 1, e>>][0]
  <2>1. 0 \in 0 .. 4
    OBVIOUS
  <2> QED  BY <1>1, <1>4, <2>1, Zenon DEF Sound
<1>6. IsWord(v[<<s, e>>]) /\ Like(C!Fetch(d), v[<<s, e>>])
  <2>1. IsWord(v[<<s + 1, e>>])
    BY DEF Sound
  <2> QED  BY <1>1, <1>5, <2>1, Fetches, Zenon
<1>7. ASSUME NEW l \in 0 .. 4 PROVE C!Fetch(d) \in g[<<s, e>>][l]
  <2>1. Derives(b, g, s, e, l, C!Fetch(d))
    BY <1>1, <1>3, <1>5, Zenon DEF Derives
  <2> QED  BY <2>1, GrammarRules
<1> QED  BY <1>2, <1>6, <1>7, SoundIntro, Zenon

LEMMA SoundBinary ==
  ASSUME NEW b, NEW k, NEW v, NEW g, NEW z, Reads(b, k, v, g, z), NEW s \in 1 .. z, NEW e \in 1 .. z,
         IsValue(v[<<s, e>>]), NEW p, SplitsBinary(k, v, s, e, p),
         Sound(k, v, g, s, p - 1), Sound(k, v, g, p + 1, e)
  PROVE  Sound(k, v, g, s, e)
<1> DEFINE j == Level(Type(k, p))
           left == v[<<s, p - 1>>]
           right == v[<<p + 1, e>>]
<1>1. /\ p \in s + 1 .. e - 1 /\ p \in Top(k, s, e) /\ Loosest(k, s, e, p)
      /\ v[<<s, e>>] = Apply(Type(k, p), left[2], right[2])
      /\ s \in Nat /\ e \in Nat /\ p \in 1 .. z /\ p \in Nat
  BY DEF SplitsBinary, Reads
<1>2. j \in 1 .. 4 /\ Neutral(k, p) /\ Type(k, p) # "deref"
  BY LevelOf DEF SplitsBinary, Neutral
<1>3. /\ Balanced(k, s, e) /\ Depth(k, s, p) = 0 /\ Type(k, e) \in Operand
      /\ \A q \in p + 1 .. e : Depth(k, s, q) = Depth(k, p + 1, q)
  BY <1>1, <1>2, Beside DEF Sound
<1>4. Type(b, p) = Type(k, p)
  BY <1>1, <1>2 DEF Reads, Reading, Type
<1>l. \A q : Level(Type(k, q)) \in -1 .. 4
  BY LevelOf
<1>5. PICK d : Like(d, left) /\ d \in g[<<s, p - 1>>][j]
  <2>1. \A q \in Top(k, s, p - 1) : q \in Top(k, s, e)
    BY <1>1 DEF Top
  <2>2. \A q \in Top(k, s, p - 1) : Level(Type(k, q)) <= j
    BY <1>1, <1>l, <2>1 DEF Loosest
  <2>3. j \in 0 .. 4
    BY <1>2
  <2> HIDE DEF j
  <2> QED  BY <2>2, <2>3, Zenon DEF Sound
<1>6. PICK f : Like(f, right) /\ f \in g[<<p + 1, e>>][j - 1]
  <2>1. \A q \in Top(k, p + 1, e) : q \in Top(k, s, e) /\ q > p
    BY <1>1, <1>3 DEF Top
  <2>2. \A q \in Top(k, p + 1, e) : Level(Type(k, q)) <= j - 1
    <3> SUFFICES ASSUME NEW q \in Top(k, p + 1, e) PROVE Level(Type(k, q)) <= j - 1
      OBVIOUS
    <3>1. q \in Nat
      BY <1>1 DEF Top
    <3>2. Level(Type(k, q)) < j \/ (Level(Type(k, q)) = j /\ q <= p)
      BY <1>1, <2>1 DEF Loosest
    <3> QED  BY <1>1, <1>2, <1>l, <2>1, <3>1, <3>2
  <2>3. j - 1 \in 0 .. 4
    BY <1>2
  <2> HIDE DEF j
  <2> QED  BY <2>2, <2>3, Zenon DEF Sound
<1>7. IsWord(v[<<s, e>>]) /\ Like(C!Operate(Type(b, p), d, f), v[<<s, e>>])
  <2>1. IsWord(left) /\ IsWord(right) /\ j >= 1
    BY <1>2 DEF Sound
  <2>2. IsValue(Apply(Type(k, p), left[2], right[2]))
    BY <1>1, Zenon
  <2> HIDE DEF left, right
  <2> QED  BY <1>1, <1>4, <1>5, <1>6, <2>1, <2>2, Operates
<1>8. ASSUME NEW l \in 0 .. 4, \A q \in Top(k, s, e) : Level(Type(k, q)) <= l
      PROVE  C!Operate(Type(b, p), d, f) \in g[<<s, e>>][l]
  <2>1. j \in 1 .. l
    BY <1>1, <1>2, <1>8
  <2>2. Type(b, p) \in C!Levels[j]
    BY <1>2, <1>4, LevelOf
  <2> HIDE DEF j
  <2>3. Derives(b, g, s, e, l, C!Operate(Type(b, p), d, f))
    BY <1>1, <1>5, <1>6, <2>1, <2>2, Zenon DEF Derives
  <2> QED  BY <2>3, GrammarRules
<1> HIDE DEF left, right, j
<1> QED  BY <1>3, <1>7, <1>8, SoundIntro, Zenon

LEMMA ValueSound ==
  ASSUME NEW b, NEW k, NEW v, NEW g, NEW z, Reads(b, k, v, g, z)
  PROVE  \A s \in 1 .. z, e \in 1 .. z : IsValue(v[<<s, e>>]) => Sound(k, v, g, s, e) /\ Splits(k, v, s, e)
<1> DEFINE P == {h \in 0 .. z : \A s \in 1 .. z, e \in 1 .. z :
                   e - s < h /\ IsValue(v[<<s, e>>]) => Sound(k, v, g, s, e)}
<1>0. z \in Nat /\ z = Len(b) /\ Reading(b, k) /\ ~Misread(b) /\ Parts(k, v, z)
  BY DEF Reads
<1>1. ASSUME NEW s \in 1 .. z, NEW e \in 1 .. z, IsValue(v[<<s, e>>]) PROVE s <= e /\ Splits(k, v, s, e)
  <2>1. s \in 1 .. z + 1 /\ e \in 0 .. z
    BY <1>0
  <2> QED  BY <1>0, <1>1, <2>1, NoEmptyPart, ValueSplits
<1>2. 0 \in P
  <2>1. ASSUME NEW s \in 1 .. z, NEW e \in 1 .. z, e - s < 0, IsValue(v[<<s, e>>]) PROVE FALSE
    BY <1>0, <1>1, <2>1
  <2> QED  BY <1>0, <2>1
<1>3. ASSUME NEW h \in 1 .. z, h - 1 \in P PROVE h \in P
  <2> SUFFICES ASSUME NEW s \in 1 .. z, NEW e \in 1 .. z, e - s < h, IsValue(v[<<s, e>>])
               PROVE  Sound(k, v, g, s, e)
    BY <1>0
  <2>0. \A a \in 1 .. z, c \in 1 .. z : c - a < h - 1 /\ IsValue(v[<<a, c>>]) => Sound(k, v, g, a, c)
    BY <1>3
  <2> HIDE DEF P
  <2>1. Splits(k, v, s, e)
    BY <1>1
  <2>2. CASE s = e /\ Type(k, s) = "num" /\ v[<<s, e>>] = Uint(k[s][2])
    BY <2>2, SoundNum
  <2>3. CASE SplitsParens(k, v, s, e)
    <3>1. s + 1 \in 1 .. z /\ e - 1 \in 1 .. z /\ (e - 1) - (s + 1) < h - 1 /\ IsValue(v[<<s + 1, e - 1>>])
      BY <1>0, <2>3 DEF SplitsParens
    <3>2. Sound(k, v, g, s + 1, e - 1)
      BY <2>0, <3>1, Zenon
    <3> QED  BY <2>3, <3>2, SoundParens
  <2>4. CASE SplitsUnary(k, v, s, e)
    <3>1. s + 1 \in 1 .. z /\ e - (s + 1) < h - 1 /\ IsValue(v[<<s + 1, e>>])
      BY <1>0, <2>4 DEF SplitsUnary
    <3>2. Sound(k, v, g, s + 1, e)
      BY <2>0, <3>1, Zenon
    <3> QED  BY <2>4, <3>2, SoundUnary
  <2>5. ASSUME NEW p \in s + 1 .. e - 1, SplitsBinary(k, v, s, e, p) PROVE Sound(k, v, g, s, e)
    <3>1. /\ p - 1 \in 1 .. z /\ (p - 1) - s < h - 1 /\ IsValue(v[<<s, p - 1>>])
          /\ p + 1 \in 1 .. z /\ e - (p + 1) < h - 1 /\ IsValue(v[<<p + 1, e>>])
      BY <1>0, <2>5 DEF SplitsBinary
    <3>2. Sound(k, v, g, s, p - 1) /\ Sound(k, v, g, p + 1, e)
      BY <2>0, <3>1, Zenon
    <3> QED  BY <2>5, <3>2, SoundBinary
  <2> QED  BY <2>1, <2>2, <2>3, <2>4, <2>5, Zenon DEF Splits
<1>4. z \in P
  <2> HIDE DEF P
  <2>1. \A h \in 0 .. z : h \in P
    BY <1>0, <1>2, <1>3, Induction
  <2> QED  BY <1>0, <2>1
<1>5. \A s \in 1 .. z, e \in 1 .. z : e - s < z
  BY <1>0
<1>6. \A s \in 1 .. z, e \in 1 .. z : IsValue(v[<<s, e>>]) => Sound(k, v, g, s, e)
  BY <1>4, <1>5
<1> QED  BY <1>1, <1>6, Zenon

\* What the grammar derives is a phrase.
LEMMA DerivedPhrase ==
  ASSUME NEW b, NEW k, NEW v, NEW g, NEW z, Reads(b, k, v, g, z)
  PROVE  \A s \in 1 .. z, e \in 1 .. z, l \in 0 .. 4 : \A c \in g[<<s, e>>][l] : Phrase(b, s, e, l)
<1> DEFINE P == {h \in 0 .. z : \A s \in 1 .. z, e \in 1 .. z : e - s < h =>
                   \A l \in 0 .. 4 : \A c \in g[<<s, e>>][l] : Phrase(b, s, e, l)}
<1>0. z \in Nat
  BY DEF Reads
<1>1. ASSUME NEW s \in 1 .. z, NEW e \in 1 .. z, NEW l \in 0 .. 4, NEW c \in g[<<s, e>>][l]
      PROVE  s <= e /\ Derives(b, g, s, e, l, c)
  <2>1. Derives(b, g, s, e, l, c)
    BY GrammarRules
  <2>2. (\E p \in s + 1 .. e - 1, j \in 1 .. l :
       /\ Type(b, p) \in C!Levels[j]
       /\ \E x \in g[<<s, p - 1>>][j], y \in g[<<p + 1, e>>][j - 1] : c = C!Operate(Type(b, p), x, y)) => s <= e
    BY <1>0
  <2>3. s = e => s <= e
    BY <1>0
  <2>4. s < e => s <= e
    BY <1>0
  <2>5. s <= e
    BY <2>1, <2>2, <2>3, <2>4, Zenon DEF Derives
  <2> QED  BY <2>1, <2>5
<1>2. 0 \in P
  <2>1. ASSUME NEW s \in 1 .. z, NEW e \in 1 .. z, e - s < 0, NEW l \in 0 .. 4, NEW c \in g[<<s, e>>][l] PROVE FALSE
    BY <1>0, <1>1, <2>1
  <2> QED  BY <1>0, <2>1, SMTT(60)
<1>3. ASSUME NEW h \in 1 .. z, h - 1 \in P PROVE h \in P
  <2> h \in 0 .. z
    BY <1>0
  <2> SUFFICES \A s \in 1 .. z, e \in 1 .. z : e - s < h =>
                 \A l \in 0 .. 4 : \A c \in g[<<s, e>>][l] : Phrase(b, s, e, l)
    BY Zenon
  <2> SUFFICES ASSUME NEW s \in 1 .. z, NEW e \in 1 .. z, e - s < h, NEW l \in 0 .. 4, NEW c \in g[<<s, e>>][l]
               PROVE  Phrase(b, s, e, l)
    BY Zenon
  <2>0. \A a \in 1 .. z, d \in 1 .. z : d - a < h - 1 =>
          \A m \in 0 .. 4 : \A x \in g[<<a, d>>][m] : Phrase(b, a, d, m)
    BY <1>3
  <2> HIDE DEF P
  <2>1. Derives(b, g, s, e, l, c) /\ s <= e /\ s \in Nat /\ e \in Nat /\ l \in Nat
    BY <1>0, <1>1
  <2>2. CASE s = e /\ Type(b, s) = "num"
    BY <2>1, <2>2, PhraseNum
  <2>3. CASE s < e /\ Type(b, s) = "(" /\ Type(b, e) = ")" /\ c \in g[<<s + 1, e - 1>>][C!All]
    <3>1. s + 1 \in 1 .. z /\ e - 1 \in 1 .. z /\ (e - 1) - (s + 1) < h - 1 /\ 4 \in 0 .. 4 /\ 4 \in Nat
      BY <1>0, <2>3
    <3>2. Phrase(b, s + 1, e - 1, 4)
      BY <2>0, <2>3, <3>1, AllLevels, Zenon
    <3> QED  BY <2>1, <2>3, <3>1, <3>2, PhraseParens
  <2>4. ASSUME s < e, Type(b, s) = "*", NEW a \in g[<<s + 1, e>>][0] PROVE Phrase(b, s, e, l)
    <3>1. s + 1 \in 1 .. z /\ e - (s + 1) < h - 1 /\ 0 \in 0 .. 4 /\ 0 \in 0 .. l
      BY <1>0, <2>4
    <3>2. Phrase(b, s + 1, e, 0)
      BY <2>0, <2>4, <3>1, Zenon
    <3> QED  BY <2>1, <2>4, <3>1, <3>2, PhraseDeref
  <2>5. ASSUME NEW p \in s + 1 .. e - 1, NEW j \in 1 .. l, Type(b, p) \in C!Levels[j],
               NEW x \in g[<<s, p - 1>>][j], NEW y \in g[<<p + 1, e>>][j - 1]
        PROVE  Phrase(b, s, e, l)
    <3>1. /\ p - 1 \in 1 .. z /\ (p - 1) - s < h - 1 /\ j \in 0 .. 4 /\ j - 1 \in 0 .. 4 /\ j \in 1 .. 4
          /\ p + 1 \in 1 .. z /\ e - (p + 1) < h - 1
      BY <1>0
    <3>2. Phrase(b, s, p - 1, j) /\ Phrase(b, p + 1, e, j - 1)
      BY <2>0, <2>5, <3>1, Zenon
    <3>3. Level(Type(b, p)) = j
      BY <2>5, <3>1, LevelOf
    <3> QED  BY <2>1, <2>5, <3>2, <3>3, PhraseBinary
  <2> QED  BY <2>1, <2>2, <2>3, <2>4, <2>5, Zenon DEF Derives
<1>4. z \in P
  <2> HIDE DEF P
  <2>1. \A h \in 0 .. z : h \in P
    BY <1>0, <1>2, <1>3, Induction
  <2> QED  BY <1>0, <2>1
<1>5. \A s \in 1 .. z, e \in 1 .. z : e - s < z
  BY <1>0
<1> QED  BY <1>4, <1>5, Zenon

Agrees(v, g, s, e) ==
  IsValue(v[<<s, e>>]) => \A l \in 0 .. 4 : \A c \in g[<<s, e>>][l] : Like(c, v[<<s, e>>])

\* An operator of the grammar is one for find_primary_operator, too.
LEMMA OperatorSeen ==
  ASSUME NEW b, NEW k, NEW v, NEW g, NEW z, Reads(b, k, v, g, z), NEW s \in 1 .. z, NEW e \in 1 .. z,
         NEW p \in s + 1 .. e - 1, NEW j \in 1 .. 4, Type(b, p) \in C!Levels[j], Phrase(b, s, p - 1, j)
  PROVE  p \in Top(k, s, e) /\ Level(Type(k, p)) = j /\ Type(k, p) = Type(b, p) /\ Depth(b, s, p) = 0
<1> DEFINE r == p - 1
<1>1. /\ z = Len(b) /\ Reading(b, k) /\ z \in Nat /\ s \in Nat /\ r \in Nat /\ p \in Nat /\ s <= r + 1 /\ r <= p
      /\ r + 1 = p /\ p \in 1 .. z /\ r \in 1 .. z /\ p # 1
  BY DEF Reads
<1>2. Type(b, r) \in Operand /\ Depth(b, s, r) = 0
  BY DEF Phrase, Balanced
<1>j. Level(Type(b, p)) = j
  BY LevelOf
<1> HIDE DEF r
<1>3. Type(k, r) \in Operand
  BY <1>1, <1>2 DEF Reading, Type, Operand
<1>4. Type(k, p) # "deref"
  <2>1. Type(k, r) \notin MarksDeref
    BY <1>3 DEF Operand, MarksDeref
  <2>2. r = p - 1
    BY <1>1
  <2> QED  BY <1>1, <2>1, <2>2 DEF Reading
<1>5. Type(k, p) = Type(b, p)
  BY <1>1, <1>4 DEF Reading, Type
<1>6. Depth(b, s, p) = 0
  <2>1. Depth(b, s, p) = Depth(b, s, r) + Depth(b, r + 1, p)
    <3>1. s \in Nat /\ r \in Nat /\ p \in Nat /\ s <= r + 1 /\ r <= p
      BY <1>1
    <3> QED  BY <3>1, DepthSplits
  <2>2. Depth(b, p, p) = 0
    BY <1>1, <1>j, DepthOfOne, LevelOf
  <2> QED  BY <1>1, <1>2, <2>1, <2>2
<1>7. Depth(k, s, p) = 0
  BY <1>1, <1>6, SameDepth
<1> QED  BY <1>1, <1>j, <1>5, <1>6, <1>7 DEF Top

LEMMA AgreesNum ==
  ASSUME NEW b, NEW k, NEW v, NEW g, NEW z, Reads(b, k, v, g, z), NEW s \in 1 .. z,
         Type(k, s) = "num", v[<<s, s>>] = Uint(k[s][2])
  PROVE  Agrees(v, g, s, s)
<1> SUFFICES ASSUME NEW l \in 0 .. 4, NEW c \in g[<<s, s>>][l] PROVE Like(c, v[<<s, s>>])
  BY DEF Agrees
<1>1. Derives(b, g, s, s, l, c)
  BY GrammarRules
<1>2. ~(s < s) /\ s + 1 .. s - 1 = {}
  BY DEF Reads
<1>3. c = C!Number(b[s][2])
  BY <1>1, <1>2, Zenon DEF Derives
<1>4. k[s] = b[s]
  BY DEF Reads, Reading
<1> QED  BY <1>3, <1>4 DEF Uint, Value, C!Number, Like

LEMMA AgreesParens ==
  ASSUME NEW b, NEW k, NEW v, NEW g, NEW z, Reads(b, k, v, g, z), NEW s \in 1 .. z, NEW e \in 1 .. z,
         SplitsParens(k, v, s, e), Agrees(v, g, s + 1, e - 1)
  PROVE  Agrees(v, g, s, e)
<1> SUFFICES ASSUME NEW l \in 0 .. 4, NEW c \in g[<<s, e>>][l] PROVE Like(c, v[<<s, e>>])
  BY DEF Agrees
<1>0. /\ z \in Nat /\ s + 1 <= e - 1 /\ Type(k, s) = "(" /\ Type(k, e) = ")"
      /\ IsValue(v[<<s + 1, e - 1>>]) /\ v[<<s, e>>] = v[<<s + 1, e - 1>>]
      /\ s \in Nat /\ e \in Nat /\ s < e /\ s # e /\ s + 1 \in 1 .. z /\ e - 1 \in 1 .. z
  BY DEF SplitsParens, Reads
<1>1. Derives(b, g, s, e, l, c)
  BY GrammarRules
<1>2. Type(b, s) = "(" /\ Type(b, e) = ")"
  BY <1>0 DEF Reads, Reading, Type
<1>3. Type(b, s) # "*"
  BY <1>2
<1>4. CASE c \in g[<<s + 1, e - 1>>][C!All]
  <2>1. 4 \in 0 .. 4
    OBVIOUS
  <2> QED  BY <1>0, <1>4, <2>1, AllLevels, Zenon DEF Agrees
<1>5. ASSUME NEW p \in s + 1 .. e - 1, NEW j \in 1 .. l, Type(b, p) \in C!Levels[j],
             NEW x \in g[<<s, p - 1>>][j]
      PROVE  FALSE
  <2> DEFINE r == p - 1
  <2>1. r \in 1 .. z /\ j \in 0 .. 4 /\ r \in s .. e - 1 /\ x \in g[<<s, r>>][j]
    BY <1>0
  <2> HIDE DEF r
  <2>2. Phrase(b, s, r, j)
    BY <2>1, DerivedPhrase
  <2>3. Depth(b, s, r) = 0
    BY <2>2 DEF Phrase, Balanced
  <2>4. Depth(k, s, r) = 0
    BY <2>1, <2>3, SameDepth DEF Reads
  <2>5. Balanced(k, s + 1, e - 1)
    BY <1>0, ValueSound DEF Sound
  <2>6. Depth(k, s, r) >= 1
    BY <1>0, <2>1, <2>5, Within
  <2> QED  BY <2>4, <2>6
<1> QED  BY <1>0, <1>1, <1>3, <1>4, <1>5, Zenon DEF Derives

LEMMA AgreesUnary ==
  ASSUME NEW b, NEW k, NEW v, NEW g, NEW z, Reads(b, k, v, g, z), NEW s \in 1 .. z, NEW e \in 1 .. z,
         IsValue(v[<<s, e>>]), SplitsUnary(k, v, s, e), Agrees(v, g, s + 1, e)
  PROVE  Agrees(v, g, s, e)
<1> SUFFICES ASSUME NEW l \in 0 .. 4, NEW c \in g[<<s, e>>][l] PROVE Like(c, v[<<s, e>>])
  BY DEF Agrees
<1>0. /\ s < e /\ Type(k, s) = "deref" /\ \A q \in Top(k, s, e) : Level(Type(k, q)) <= 0
      /\ IsValue(v[<<s + 1, e>>]) /\ v[<<s, e>>] = paddr_read(v[<<s + 1, e>>][2])
      /\ z \in Nat /\ s \in Nat /\ e \in Nat /\ s # e /\ s + 1 \in 1 .. z /\ e \in s + 1 .. z
  BY DEF SplitsUnary, Reads
<1>1. Derives(b, g, s, e, l, c)
  BY GrammarRules
<1>2. Type(b, s) # "("
  <2>1. Type(b, s) = "*"
    BY <1>0 DEF Reads, Reading
  <2> QED  BY <2>1
<1>3. ASSUME NEW a \in g[<<s + 1, e>>][0], c = C!Fetch(a) PROVE Like(c, v[<<s, e>>])
  <2>1. 0 \in 0 .. 4
    OBVIOUS
  <2>2. Like(a, v[<<s + 1, e>>])
    BY <1>0, <1>3, <2>1, Zenon DEF Agrees
  <2>3. IsWord(v[<<s + 1, e>>])
    BY <1>0, ValueSound DEF Sound
  <2>4. Like(C!Fetch(a), v[<<s, e>>])
    BY <1>0, <2>2, <2>3, Fetches, Zenon
  <2> QED  BY <1>3, <2>4, Zenon
<1>4. ASSUME NEW p \in s + 1 .. e - 1, NEW j \in 1 .. l, Type(b, p) \in C!Levels[j],
             NEW x \in g[<<s, p - 1>>][j]
      PROVE  FALSE
  <2>1. p - 1 \in 1 .. z /\ j \in 0 .. 4 /\ j \in 1 .. 4
    BY <1>0
  <2>2. Phrase(b, s, p - 1, j)
    BY <2>1, DerivedPhrase
  <2>3. p \in Top(k, s, e) /\ Level(Type(k, p)) = j
    BY <1>4, <2>1, <2>2, OperatorSeen
  <2> QED  BY <1>0, <2>1, <2>3
<1> QED  BY <1>0, <1>1, <1>2, <1>3, <1>4, Zenon DEF Derives

LEMMA AgreesBinary ==
  ASSUME NEW b, NEW k, NEW v, NEW g, NEW z, Reads(b, k, v, g, z), NEW s \in 1 .. z, NEW e \in 1 .. z,
         IsValue(v[<<s, e>>]), NEW op, SplitsBinary(k, v, s, e, op),
         Agrees(v, g, s, op - 1), Agrees(v, g, op + 1, e)
  PROVE  Agrees(v, g, s, e)
<1> SUFFICES ASSUME NEW l \in 0 .. 4, NEW c \in g[<<s, e>>][l] PROVE Like(c, v[<<s, e>>])
  BY DEF Agrees
<1> DEFINE left == v[<<s, op - 1>>]
           right == v[<<op + 1, e>>]
           L == Level(Type(k, op))
           r == op - 1
<1>0. /\ op \in s + 1 .. e - 1 /\ op \in Top(k, s, e) /\ Loosest(k, s, e, op) /\ L \in 1 .. 4
      /\ IsValue(left) /\ IsValue(right) /\ v[<<s, e>>] = Apply(Type(k, op), left[2], right[2])
      /\ z \in Nat /\ z = Len(b) /\ s \in Nat /\ e \in Nat /\ op \in Nat /\ op \in 1 .. z /\ s < e /\ s # e
      /\ r \in 1 .. z /\ r \in s .. e /\ r + 1 = op /\ op + 1 \in 1 .. z
  <2>1. /\ op \in s + 1 .. e - 1 /\ op \in Top(k, s, e) /\ Loosest(k, s, e, op) /\ L >= 1
        /\ IsValue(left) /\ IsValue(right) /\ v[<<s, e>>] = Apply(Type(k, op), left[2], right[2])
    BY Zenon DEF SplitsBinary
  <2>2. z \in Nat /\ z = Len(b)
    BY DEF Reads
  <2>3. L \in -1 .. 4
    BY LevelOf
  <2> HIDE DEF L, left, right
  <2> QED  BY <2>1, <2>2, <2>3
<1>1. Derives(b, g, s, e, l, c)
  BY GrammarRules
<1>2. /\ Sound(k, v, g, s, r) /\ IsWord(left) /\ IsWord(right)
  <2>1. Sound(k, v, g, s, r) /\ Sound(k, v, g, op + 1, e)
    BY <1>0, ValueSound
  <2> QED  BY <2>1 DEF Sound
<1>3. Type(k, op) = Type(b, op) /\ Neutral(b, op) /\ Type(b, op) \notin Operand /\ L = Level(Type(b, op))
  <2>1. Type(k, op) # "deref" /\ Type(k, op) # "(" /\ Type(k, op) # ")" /\ Type(k, op) # "num"
    BY <1>0, LevelOf
  <2>2. Type(k, op) = Type(b, op)
    BY <1>0, <2>1 DEF Reads, Reading, Type
  <2> QED  BY <2>1, <2>2 DEF Neutral, Operand
<1>4. Type(b, r) \in Operand
  <2>1. Type(k, r) \in Operand
    BY <1>2 DEF Sound
  <2> QED  BY <1>0, <2>1 DEF Reads, Reading, Type, Operand
<1>5. Depth(b, s, op) = 0
  <2>1. Depth(k, s, op) = 0
    BY <1>0 DEF Top
  <2> QED  BY <1>0, <2>1, SameDepth DEF Reads
<1> HIDE DEF r, L
<1>6. ~(Type(b, s) = "(" /\ Type(b, e) = ")" /\ c \in g[<<s + 1, e - 1>>][C!All])
  <2> SUFFICES ASSUME Type(b, s) = "(", Type(b, e) = ")", c \in g[<<s + 1, e - 1>>][C!All] PROVE FALSE
    OBVIOUS
  <2>1. s + 1 \in 1 .. z /\ e - 1 \in 1 .. z /\ 4 \in 0 .. 4
    BY <1>0
  <2>2. Phrase(b, s + 1, e - 1, 4)
    BY <2>1, AllLevels, DerivedPhrase
  <2>3. Depth(b, s, op) >= 1
    <3>1. op \in s .. e - 1
      BY <1>0
    <3> QED  BY <1>0, <2>2, <3>1, Within DEF Phrase
  <2> QED  BY <1>5, <2>3
<1>7. ~(Type(b, s) = "*" /\ \E a \in g[<<s + 1, e>>][0] : c = C!Fetch(a))
  <2> SUFFICES ASSUME Type(b, s) = "*", NEW a \in g[<<s + 1, e>>][0] PROVE FALSE
    OBVIOUS
  <2>1. s + 1 \in 1 .. z /\ 0 \in 0 .. 4
    BY <1>0
  <2>2. Phrase(b, s + 1, e, 0)
    BY <2>1, DerivedPhrase
  <2>3. r # s
    BY <1>4 DEF Operand
  <2>4. op \in (s + 1) + 1 .. e /\ op \in s + 1 .. e
    BY <1>0, <2>3
  <2>5. Depth(b, s + 1, op) = 0
    BY <1>0, <1>5, <2>2, <2>4, Behind DEF Phrase, Neutral
  <2>6. L <= 0
    BY <1>0, <1>3, <1>4, <2>2, <2>4, <2>5 DEF Phrase, r
  <2> QED  BY <1>0, <2>6
<1>8. ASSUME NEW p \in s + 1 .. e - 1, NEW j \in 1 .. l, Type(b, p) \in C!Levels[j],
             NEW x \in g[<<s, p - 1>>][j], NEW y \in g[<<p + 1, e>>][j - 1],
             c = C!Operate(Type(b, p), x, y)
      PROVE  Like(c, v[<<s, e>>])
  <2>1. /\ p - 1 \in 1 .. z /\ p + 1 \in 1 .. z /\ j \in 0 .. 4 /\ j \in 1 .. 4 /\ j - 1 \in 0 .. 4
        /\ p \in Nat /\ p \in 1 .. z
    <3>1. s \in 1 .. z /\ e \in 1 .. z /\ z \in Nat /\ l \in 0 .. 4
      BY <1>0
    <3> QED  BY <3>1, SMTT(60)
  <2>2. Phrase(b, s, p - 1, j) /\ Phrase(b, p + 1, e, j - 1)
    BY <2>1, DerivedPhrase
  <2>3. p \in Top(k, s, e) /\ Level(Type(k, p)) = j /\ Type(k, p) = Type(b, p) /\ Depth(b, s, p) = 0
    BY <1>8, <2>1, <2>2, OperatorSeen
  <2>4. j < L \/ (j = L /\ p <= op)
    BY <1>0, <2>3 DEF Loosest, L
  <2>5. CASE p < op
    <3>1. p # r
      <4>1. Type(b, p) \notin Operand
        BY <2>1, <1>8, LevelOf DEF Operand
      <4> QED  BY <1>4, <4>1
    <3>2. op \in (p + 1) + 1 .. e /\ op \in p + 1 .. e
      BY <1>0, <2>1, <2>5, <3>1
    <3>3. Neutral(b, p)
      BY <2>1, <1>8, LevelOf DEF Neutral
    <3>4. Depth(b, p + 1, op) = 0
      <4>1. Balanced(b, s, p - 1) /\ Balanced(b, p + 1, e)
        BY <2>2 DEF Phrase
      <4>2. s \in Nat /\ e \in Nat
        BY <1>0
      <4>3. \A q \in p + 1 .. e : Depth(b, s, q) = Depth(b, p + 1, q)
        BY <3>3, <4>1, <4>2, Beside, Zenon
      <4> QED  BY <1>5, <3>2, <4>3, Zenon
    <3>5. L <= j - 1
      BY <1>3, <1>4, <2>2, <3>2, <3>4 DEF Phrase, r
    <3>6. L \in Nat /\ j \in Nat
      BY <1>0, <2>1
    <3>7. j - 1 < j
      BY <3>6
    <3>8. FALSE
      BY <2>4, <3>5, <3>6, <3>7
    <3> QED  BY <3>8
  <2>6. CASE p > op
    <3>1. op \in s + 1 .. p - 1
      BY <1>0, <2>1, <2>6
    <3>2. L <= j
      BY <1>3, <1>4, <1>5, <2>2, <3>1 DEF Phrase, r
    <3> QED  BY <1>0, <2>1, <2>4, <2>6, <3>2
  <2>7. CASE p = op
    <3>1. Like(x, left) /\ Like(y, right)
      BY <1>0, <2>1, <2>7, Zenon DEF Agrees
    <3>2. Like(C!Operate(Type(b, op), x, y), v[<<s, e>>])
      <4>1. Level(Type(k, op)) >= 1 /\ IsValue(Apply(Type(k, op), left[2], right[2]))
        BY <1>0, SMTT(60) DEF L
      <4> HIDE DEF left, right
      <4> QED  BY <1>0, <1>2, <1>3, <3>1, <4>1, Operates
    <3> QED  BY <1>8, <2>7, <3>2, Zenon
  <2> QED  BY <1>0, <2>1, <2>5, <2>6, <2>7
<1> QED  BY <1>0, <1>1, <1>6, <1>7, <1>8, Zenon DEF Derives

LEMMA ValueUnique ==
  ASSUME NEW b, NEW k, NEW v, NEW g, NEW z, Reads(b, k, v, g, z)
  PROVE  \A s \in 1 .. z, e \in 1 .. z : Agrees(v, g, s, e)
<1> DEFINE P == {h \in 0 .. z : \A s \in 1 .. z, e \in 1 .. z : e - s < h => Agrees(v, g, s, e)}
<1>0. z \in Nat
  BY DEF Reads
<1>1. 0 \in P
  <2>1. ASSUME NEW s \in 1 .. z, NEW e \in 1 .. z, e - s < 0 PROVE Agrees(v, g, s, e)
    <3>1. IsValue(v[<<s, e>>]) => FALSE
      BY <1>0, <2>1, ValueSound DEF Sound, Balanced
    <3> QED  BY <3>1 DEF Agrees
  <2> QED  BY <1>0, <2>1
<1>2. ASSUME NEW h \in 1 .. z, h - 1 \in P PROVE h \in P
  <2> SUFFICES ASSUME NEW s \in 1 .. z, NEW e \in 1 .. z, e - s < h PROVE Agrees(v, g, s, e)
    BY <1>0
  <2> SUFFICES ASSUME IsValue(v[<<s, e>>]) PROVE Agrees(v, g, s, e)
    BY DEF Agrees
  <2>0. \A a \in 1 .. z, d \in 1 .. z : d - a < h - 1 => Agrees(v, g, a, d)
    BY <1>2
  <2> HIDE DEF P
  <2>1. Splits(k, v, s, e)
    BY ValueSound
  <2>2. CASE s = e /\ Type(k, s) = "num" /\ v[<<s, e>>] = Uint(k[s][2])
    BY <2>2, AgreesNum
  <2>3. CASE SplitsParens(k, v, s, e)
    <3>1. s + 1 \in 1 .. z /\ e - 1 \in 1 .. z /\ (e - 1) - (s + 1) < h - 1
      BY <1>0, <2>3 DEF SplitsParens
    <3>2. Agrees(v, g, s + 1, e - 1)
      BY <2>0, <3>1, Zenon
    <3> QED  BY <2>3, <3>2, AgreesParens
  <2>4. CASE SplitsUnary(k, v, s, e)
    <3>1. s + 1 \in 1 .. z /\ e - (s + 1) < h - 1
      BY <1>0, <2>4 DEF SplitsUnary
    <3>2. Agrees(v, g, s + 1, e)
      BY <2>0, <3>1, Zenon
    <3> QED  BY <2>4, <3>2, AgreesUnary
  <2>5. ASSUME NEW p \in s + 1 .. e - 1, SplitsBinary(k, v, s, e, p) PROVE Agrees(v, g, s, e)
    <3>1. /\ p - 1 \in 1 .. z /\ (p - 1) - s < h - 1
          /\ p + 1 \in 1 .. z /\ e - (p + 1) < h - 1
      BY <1>0
    <3>2. Agrees(v, g, s, p - 1) /\ Agrees(v, g, p + 1, e)
      BY <2>0, <3>1, Zenon
    <3> QED  BY <2>5, <3>2, AgreesBinary
  <2> QED  BY <2>1, <2>2, <2>3, <2>4, <2>5, Zenon DEF Splits
<1>3. z \in P
  <2> HIDE DEF P
  <2>1. \A h \in 0 .. z : h \in P
    BY <1>0, <1>1, <1>2, Induction
  <2> QED  BY <1>0, <2>1
<1>4. \A s \in 1 .. z, e \in 1 .. z : e - s < z
  BY <1>0
<1> QED  BY <1>3, <1>4, Zenon

\* A value of expr is the only one that the grammar derives, where the sign does not matter.
LEMMA ExprAgrees ==
  ASSUME NEW b \in Seq(Token), Len(b) >= 1, ~Misread(b), SignFree(b), IsValue(expr(b))
  PROVE  C!Expr(b) = {expr(b)}
<1> DEFINE k == marked(b)
           v == eval(k)
           g == C!Meanings(b)
           z == Len(b)
<1>1. z \in Nat /\ 1 \in 1 .. z /\ z \in 1 .. z
  OBVIOUS
<1>2. Marks(b, k) /\ Len(k) = z
  BY Marked DEF Marks
<1>3. Reading(b, k)
  BY <1>2, MarksRead
<1>4. Parts(k, v, z)
  BY <1>1, <1>2, EvalParts DEF Parts
<1>5. \A s \in 1 .. z, e \in 1 .. z : g[<<s, e>>] = Row(b, g, s, e)
  BY <1>1, MeaningParts
<1>6. expr(b) = v[<<1, z>>] /\ C!Expr(b) = g[<<1, z>>][4]
  BY <1>2, AllLevels, Zenon DEF expr, C!Expr
<1> HIDE DEF k, v, g, z
<1>7. Reads(b, k, v, g, z)
  BY <1>1, <1>3, <1>4, <1>5 DEF Reads, z
<1>8. IsValue(v[<<1, z>>])
  BY <1>6, Zenon
<1>9. Sound(k, v, g, 1, z) /\ Agrees(v, g, 1, z)
  BY <1>1, <1>7, <1>8, ValueSound, ValueUnique
<1>d. C!Depends \notin g[<<1, z>>][4]
  BY <1>6, Zenon DEF SignFree
<1>10. v[<<1, z>>] \in g[<<1, z>>][4]
  <2>1. 4 \in 0 .. 4 /\ \A q : Level(Type(k, q)) <= 4
    BY LevelOf
  <2> QED  BY <1>9, <1>d, <2>1, Zenon DEF Sound, Like
<1>11. \A c \in g[<<1, z>>][4] : c = v[<<1, z>>]
  <2>1. 4 \in 0 .. 4
    OBVIOUS
  <2> QED  BY <1>8, <1>9, <1>d, <2>1, Zenon DEF Agrees, Like
<1>12. g[<<1, z>>][4] = {v[<<1, z>>]}
  BY <1>10, <1>11, Zenon
<1> QED  BY <1>6, <1>12, Zenon

\* Whatever value the debugger gives to an expression of any length, it is the only one that
\* C's grammar derives, unless that depends on the sign of numbers: eval splits a part with a value where a derivation does.
THEOREM ValueCorrect == ExprSpec => []ValueIsRight
<1>1. ExprInv => ValueIsRight
  <2> SUFFICES ASSUME ExprInv, IsValue(result), ~Misread(buf), SignFree(buf) PROVE C!Expr(buf) = {result}
    BY DEF ValueIsRight
  <2>1. buf \in Seq(Token) /\ Len(buf) >= 1
    BY DEF ExprInv, Shaped
  <2>2. result = expr(buf)
    BY DEF ExprInv, IsValue, None
  <2> QED  BY <2>1, <2>2, ExprAgrees
<1>2. ExprInit => ExprInv
  BY NewShaped DEF ExprInit, ExprInv
<1>3. ExprInv /\ [ExprNext]_expr_vars => ExprInv'
  BY ExprStep
<1> QED  BY <1>1, <1>2, <1>3, PTL DEF ExprSpec
=============================================================================
