----------------------------- MODULE ClockProofs -----------------------------
(***************************************************************************)
(* Proofs about Clock, for a counter of any width, any time between two    *)
(* polls and any delays.                                                   *)
(***************************************************************************)
EXTENDS Clock, TLAPS

(* The remainders the proofs need, once and for all. *)
LEMMA Remainders ==
  ASSUME NEW m \in Nat \ {0}
  PROVE  /\ \A a \in Int : a % m \in 0 .. m - 1
         /\ \A a \in 0 .. m - 1 : a % m = a
         /\ \A c, s \in 0 .. m - 1 : (((c + 1) % m) - s) % m <= ((c - s) % m) + 1
<1>1. \A a \in Int : a % m \in 0 .. m - 1
  OBVIOUS
<1>2. \A a \in 0 .. m - 1 : a % m = a
  OBVIOUS
<1>3. ASSUME NEW c \in 0 .. m - 1, NEW s \in 0 .. m - 1
      PROVE  (((c + 1) % m) - s) % m <= ((c - s) % m) + 1
  OBVIOUS
<1> QED
  BY <1>1, <1>2, <1>3

LEMMA TwoBytes ==
  ASSUME NEW b \in Nat \ {0}, NEW c \in Nat
  PROVE  (c % b) + b * (c \div b) = c
OBVIOUS

LEMMA Range_M == M \in Nat /\ M > 1
BY ClockAssumption DEF M

-----------------------------------------------------------------------------
(* Nothing is between the two reads of the counter but millis itself, and    *)
(* what it has read of the low byte is of the counter as it is.              *)
ReadsInOrder ==
  /\ ReadsOneTime
  /\ pc \in {"off", "idle"} => low = Unread

LEMMA ReadsInOrderInitially == Init => ReadsInOrder
BY DEF Init, ReadsInOrder, ReadsOneTime

LEMMA ReadsStayInOrder == ReadsInOrder /\ [Next]_vars => ReadsInOrder'
<1> SUFFICES ASSUME ReadsInOrder, [Next]_vars PROVE ReadsInOrder'
  OBVIOUS
<1> USE DEF ReadsInOrder, ReadsOneTime
<1>1. CASE timer_init
  BY <1>1 DEF timer_init
<1>2. CASE Tick
  BY <1>2 DEF Tick
<1>3. CASE Isr
  BY <1>3 DEF Isr
<1>4. CASE Begin
  BY <1>4 DEF Begin
<1>5. CASE ReadLow
  BY <1>5 DEF ReadLow, Waiting
<1>6. CASE ReadHigh
  BY <1>6 DEF ReadHigh
<1>7. CASE UNCHANGED vars
  BY <1>7 DEF vars
<1> QED
  BY <1>1, <1>2, <1>3, <1>4, <1>5, <1>6, <1>7 DEF Next, Interpreter

(* The two bytes that millis puts together are always those of one time.     *)
THEOREM MillisReadsOneTime == Spec => []ReadsOneTime
<1>1. ReadsInOrder => ReadsOneTime
  BY DEF ReadsInOrder
<1> QED
  BY <1>1, ReadsInOrderInitially, ReadsStayInOrder, PTL DEF Spec

-----------------------------------------------------------------------------
(* Type correctness. *)

LEMMA TypeInitially == Init => TypeOK
<1> SUFFICES ASSUME Init PROVE TypeOK
  OBVIOUS
<1>1. 0 \in 0 .. M - 1 /\ 0 \in 0 .. 2 * M
  BY Range_M
<1> QED
  BY <1>1 DEF Init, TypeOK, LongestCounted

LEMMA TypePreserved == TypeOK /\ ReadsInOrder /\ [Next]_vars => TypeOK'
<1> SUFFICES ASSUME TypeOK, ReadsInOrder, [Next]_vars PROVE TypeOK'
  OBVIOUS
<1> USE Range_M, ClockAssumption DEF TypeOK
<1>1. CASE timer_init
  BY <1>1 DEF timer_init
<1>2. CASE Tick
  BY <1>2 DEF Tick, LongestCounted
<1>3. CASE Isr
  <2>1. millis_counter' \in 0 .. M - 1
    BY <1>3, Remainders DEF Isr, Counted
  <2> QED
    BY <1>3, <2>1 DEF Isr
<1>4. CASE Begin
  BY <1>4 DEF Begin
<1>5. CASE ReadLow
  <2>1. low' \in 0 .. B - 1
    BY <1>5, Remainders DEF ReadLow
  <2> QED
    BY <1>5, <2>1 DEF ReadLow
<1>6. CASE ReadHigh
  <2>1. low + B * (millis_counter \div B) = millis_counter
    BY <1>6, TwoBytes DEF ReadHigh, ReadsInOrder, ReadsOneTime
  <2> QED
    BY <1>6, <2>1 DEF ReadHigh, Unread, LongestCounted
<1>7. CASE UNCHANGED vars
  BY <1>7 DEF vars
<1> QED
  BY <1>1, <1>2, <1>3, <1>4, <1>5, <1>6, <1>7 DEF Next, Interpreter

(* Every variable of the clock keeps its type; the counter keeps its width.  *)
THEOREM ClockTypeCorrect == Spec => []TypeOK
<1>1. Init => TypeOK /\ ReadsInOrder
  BY TypeInitially, ReadsInOrderInitially
<1>2. (TypeOK /\ ReadsInOrder) /\ [Next]_vars => (TypeOK /\ ReadsInOrder)'
  BY TypePreserved, ReadsStayInOrder
<1> QED
  BY <1>1, <1>2, PTL DEF Spec

-----------------------------------------------------------------------------
(* Delays. *)

Pending == IF due THEN 1 ELSE 0

(* The counter is never further from started_at than time has passed, the    *)
(* millisecond in progress included; with it, an interrupt that is requested *)
(* and not yet taken counts as taken.                                        *)
CountsWhatPassed ==
  pc = "poll" => ((millis_counter - started_at) % M) + Pending <= elapsed + 1

DelayInv == TypeOK /\ ReadsInOrder /\ CountsWhatPassed

LEMMA CountingPreserved == DelayInv /\ [Next]_vars => CountsWhatPassed'
<1> SUFFICES ASSUME DelayInv, [Next]_vars PROVE CountsWhatPassed'
  OBVIOUS
<1> DEFINE d == (millis_counter - started_at) % M
<1>0. /\ M \in Nat \ {0} /\ millis_counter \in 0 .. M - 1 /\ started_at \in 0 .. M - 1
      /\ elapsed \in 0 .. 2 * M /\ due \in BOOLEAN
  BY Range_M DEF DelayInv, TypeOK, LongestCounted
<1>d. d \in 0 .. M - 1
  BY <1>0, Remainders
<1>1. CASE timer_init
  BY <1>1 DEF timer_init, CountsWhatPassed
<1>2. CASE Tick
  <2>1. CASE pc = "poll"
    <3>1. elapsed' = IF elapsed < 2 * M THEN elapsed + 1 ELSE elapsed
      BY <1>2, <2>1 DEF Tick, Waiting, LongestCounted
    <3>2. d <= elapsed + 1 /\ Pending' = 1
      BY <1>0, <1>2, <1>d, <2>1 DEF Tick, DelayInv, CountsWhatPassed, Pending
    <3>3. millis_counter' = millis_counter /\ started_at' = started_at
      BY <1>2 DEF Tick
    <3> HIDE DEF d
    <3>4. d + 1 <= elapsed' + 1
      BY <1>0, <1>d, <3>1, <3>2
    <3> QED
      BY <3>2, <3>3, <3>4 DEF d, CountsWhatPassed
  <2>2. CASE pc # "poll"
    BY <1>2, <2>2 DEF Tick, CountsWhatPassed
  <2> QED
    BY <2>1, <2>2
<1>3. CASE Isr
  <2>1. /\ millis_counter' = (millis_counter + 1) % M /\ started_at' = started_at
        /\ pc' = pc /\ elapsed' = elapsed /\ Pending = 1 /\ Pending' = 0
    BY <1>3 DEF Isr, Counted, Pending
  <2>2. (((millis_counter + 1) % M) - started_at) % M <= d + 1
    BY <1>0, Remainders
  <2>3. (((millis_counter + 1) % M) - started_at) % M \in 0 .. M - 1
    BY <1>0, Remainders
  <2>4. pc = "poll" => d + 1 <= elapsed + 1
    BY <2>1 DEF DelayInv, CountsWhatPassed
  <2> HIDE DEF d
  <2> QED
    BY <1>0, <1>d, <2>1, <2>2, <2>3, <2>4 DEF CountsWhatPassed
<1>4. CASE Begin
  BY <1>4 DEF Begin, CountsWhatPassed
<1>5. CASE ReadLow
  BY <1>5 DEF ReadLow, DelayInv, CountsWhatPassed, Pending
<1>6. CASE ReadHigh
  <2>1. low + B * (millis_counter \div B) = millis_counter
    BY <1>0, <1>6, TwoBytes, ClockAssumption
       DEF ReadHigh, DelayInv, ReadsInOrder, ReadsOneTime
  <2>2. millis_counter' = millis_counter /\ due' = due
    BY <1>6 DEF ReadHigh
  <2>3. CASE pc = "start"
    <3>1. started_at' = millis_counter /\ elapsed' = elapsed
      BY <1>6, <2>1, <2>3 DEF ReadHigh
    <3>2. (millis_counter - millis_counter) % M = 0
      BY <1>0, Remainders
    <3> QED
      BY <1>0, <2>2, <3>1, <3>2 DEF CountsWhatPassed, Pending
  <2>4. CASE pc # "start"
    <3>1. pc = "poll" /\ (pc' = "idle" \/ UNCHANGED <<pc, started_at, elapsed>>)
      BY <1>6, <2>4 DEF ReadHigh
    <3> QED
      BY <2>2, <3>1 DEF DelayInv, CountsWhatPassed, Pending
  <2> QED
    BY <2>3, <2>4
<1>7. CASE UNCHANGED vars
  BY <1>7 DEF vars, DelayInv, CountsWhatPassed, Pending
<1> QED
  BY <1>1, <1>2, <1>3, <1>4, <1>5, <1>6, <1>7 DEF Next, Interpreter

LEMMA EndsInTime ==
  ASSUME \A r \in Requests : r.how = "delay.rfl" => r.ms < M \div 2
  PROVE  DelayInv /\ [Next]_vars => [pc = "poll" /\ pc' = "idle" => elapsed + 1 >= delay.ms]_vars
<1> SUFFICES ASSUME DelayInv, Next, pc = "poll", pc' = "idle"
             PROVE  elapsed + 1 >= delay.ms
  BY DEF DelayInv
<1> DEFINE d == (millis_counter - started_at) % M
<1>0. /\ M \in Nat \ {0} /\ millis_counter \in 0 .. M - 1 /\ started_at \in 0 .. M - 1
      /\ elapsed \in 0 .. 2 * M /\ due \in BOOLEAN /\ delay.ms \in 0 .. M - 1
      /\ delay \in Requests
  BY Range_M, ClockAssumption DEF DelayInv, TypeOK, LongestCounted, Waits
<1>1. ReadHigh
  BY DEF Next, Interpreter, timer_init, Tick, Isr, Begin, ReadLow
<1>2. low + B * (millis_counter \div B) = millis_counter
  BY <1>0, <1>1, TwoBytes, ClockAssumption
     DEF ReadHigh, DelayInv, ReadsInOrder, ReadsOneTime
<1>3. Passed(millis_counter)
  BY <1>1, <1>2 DEF ReadHigh
<1>4. d \in 0 .. M - 1 /\ d <= elapsed + 1
  <2>1. d \in 0 .. M - 1
    BY <1>0, Remainders
  <2>2. d + Pending <= elapsed + 1 /\ Pending \in {0, 1}
    BY DEF DelayInv, CountsWhatPassed, Pending
  <2> HIDE DEF d
  <2> QED
    BY <1>0, <2>1, <2>2
<1>5. IF delay.how = "delay_ms" THEN d >= delay.ms ELSE Signed(d) > Signed(delay.ms)
  BY <1>3 DEF Passed
<1> HIDE DEF d
<1>6. CASE delay.how = "delay_ms"
  BY <1>0, <1>4, <1>5, <1>6
<1>7. CASE delay.how # "delay_ms"
  <2>1. delay.how = "delay.rfl"
    BY <1>0, <1>7, ClockAssumption DEF Waits
  <2>2. delay.ms < M \div 2
    BY <1>0, <2>1
  <2>3. d > delay.ms
    BY <1>0, <1>4, <1>5, <1>7, <2>2 DEF Signed
  <2> QED
    BY <1>0, <1>4, <2>3
<1> QED
  BY <1>6, <1>7

(* No delay ends before its time, however the counter wraps around and the   *)
(* interrupts fall, if .delay_ms is asked for less than half of what the     *)
(* counter can tell.                                                         *)
THEOREM DelaysAreNeverShort ==
  ASSUME \A r \in Requests : r.how = "delay.rfl" => r.ms < M \div 2
  PROVE  Spec => NeverShort
<1>1. Init => DelayInv
  BY TypeInitially, ReadsInOrderInitially DEF DelayInv, CountsWhatPassed, Init
<1>2. DelayInv /\ [Next]_vars => DelayInv'
  BY TypePreserved, ReadsStayInOrder, CountingPreserved DEF DelayInv
<1>3. DelayInv /\ [Next]_vars
        => [pc = "poll" /\ pc' = "idle" => elapsed + 1 >= delay.ms]_vars
  BY EndsInTime
<1> QED
  BY <1>1, <1>2, <1>3, PTL DEF Spec, NeverShort
-----------------------------------------------------------------------------
(* Delays that end in time. *)

LEMMA NextRemainder ==
  ASSUME NEW m \in Nat \ {0}, NEW c \in 0 .. m - 1, NEW s \in 0 .. m - 1,
         ((c - s) % m) + 1 < m
  PROVE  (((c + 1) % m) - s) % m = ((c - s) % m) + 1
OBVIOUS

(* The most a poll can read when it does not end the delay. *)
LastUnpassed ==
  IF delay.how = "delay_ms" THEN (IF delay.ms = 0 THEN 0 ELSE delay.ms - 1)
  ELSE delay.ms

(* What has passed is at most one time between polls before the clock is     *)
(* first read, and then what the counter tells, which is what the last poll  *)
(* read and what has passed since.                                           *)
OnTime ==
  /\ pc \in {"off", "idle"} => elapsed = 0
  /\ Waiting => late <= PollsEvery
  /\ pc = "start" => elapsed <= late
  /\ pc = "poll" => LET d == (millis_counter - started_at) % M IN
       /\ elapsed <= PollsEvery + d + Pending
       /\ d + Pending <= late + LastUnpassed

(* .delay_ms compares signed numbers: its end must come, with the time       *)
(* between two polls, before the difference reads as a negative number.      *)
ShortRequests ==
  \A r \in Requests : r.how = "delay.rfl" => r.ms + Between < M \div 2

(* While a delay is under way the difference does not wrap around. *)
LEMMA NoWrap ==
  ASSUME ShortRequests, TypeOK, OnTime, pc = "poll"
  PROVE  LET d == (millis_counter - started_at) % M IN
         /\ d \in Nat
         /\ d + Pending < M
         /\ delay.how = "delay.rfl" => d + Pending < M \div 2
<1> DEFINE d == (millis_counter - started_at) % M
<1>1. d \in 0 .. M - 1
  BY Remainders, Range_M DEF TypeOK
<1>2. /\ late <= PollsEvery /\ d + Pending <= late + LastUnpassed
      /\ late \in Nat /\ Pending \in {0, 1}
  BY DEF OnTime, Waiting, TypeOK, Pending
<1>3. /\ delay.how \in {"delay_ms", "delay.rfl"} /\ delay.ms \in 0 .. M - 1
      /\ delay.how = "delay.rfl" => delay.ms + Between < M \div 2
  BY ClockAssumption DEF TypeOK, ShortRequests, Waits
<1> HIDE DEF d
<1>4. CASE delay.how = "delay_ms"
  <2>1. PollsEvery = 1
    BY <1>4 DEF PollsEvery
  <2>2. LastUnpassed \in Nat /\ LastUnpassed + 1 < M
    <3>1. M > 1 /\ M \in Nat
      BY Range_M
    <3> QED
      BY <1>3, <1>4, <3>1 DEF LastUnpassed
  <2> QED
    BY <1>1, <1>2, <1>4, <2>1, <2>2, Range_M DEF d
<1>5. CASE delay.how = "delay.rfl"
  <2>1. PollsEvery = Between /\ LastUnpassed = delay.ms
    BY <1>5 DEF PollsEvery, LastUnpassed
  <2> QED
    BY <1>1, <1>2, <1>3, <1>5, <2>1, Range_M, ClockAssumption DEF d
<1> QED
  BY <1>3, <1>4, <1>5

LEMMA OnTimeStep ==
  ASSUME ShortRequests, TypeOK, ReadsInOrder, OnTime, [Next]_vars
  PROVE  OnTime'
<1> DEFINE d == (millis_counter - started_at) % M
<1>0. /\ M \in Nat \ {0} /\ millis_counter \in 0 .. M - 1 /\ started_at \in 0 .. M - 1
      /\ elapsed \in 0 .. 2 * M /\ due \in BOOLEAN /\ late \in Nat
      /\ delay.ms \in 0 .. M - 1 /\ PollsEvery \in Nat /\ PollsEvery > 0
      /\ delay.how \in {"delay_ms", "delay.rfl"} /\ LastUnpassed \in Nat
  BY Range_M, ClockAssumption DEF TypeOK, LongestCounted, Waits, PollsEvery, LastUnpassed
<1>d. d \in 0 .. M - 1
  BY <1>0, Remainders
<1>p. /\ pc = "poll" => elapsed <= PollsEvery + d + Pending /\ d + Pending <= late + LastUnpassed
      /\ Pending \in {0, 1} /\ Pending' \in {0, 1}
  BY DEF OnTime, Pending
<1>1. CASE timer_init
  BY <1>1 DEF timer_init, OnTime, Waiting
<1>2. CASE Tick
  <2>1. /\ pc' = pc /\ millis_counter' = millis_counter /\ started_at' = started_at
        /\ PollsEvery' = PollsEvery /\ LastUnpassed' = LastUnpassed
        /\ Pending = 0 /\ Pending' = 1
        /\ Waiting => late < PollsEvery /\ late' = late + 1 /\ elapsed' \in {elapsed, elapsed + 1}
        /\ ~Waiting => elapsed' = elapsed
    BY <1>2 DEF Tick, PollsEvery, LastUnpassed, Pending
  <2>2. CASE pc = "poll"
    <3> HIDE DEF d
    <3>1. late < PollsEvery /\ late' = late + 1 /\ elapsed' \in {elapsed, elapsed + 1}
      BY <2>1, <2>2 DEF Waiting
    <3>2. elapsed' <= PollsEvery + d + 1 /\ d + 1 <= late' + LastUnpassed /\ late' <= PollsEvery
      BY <1>0, <1>d, <1>p, <2>1, <2>2, <3>1
    <3> QED
      BY <2>1, <2>2, <3>2 DEF OnTime, d
  <2>3. CASE pc = "start"
    <3>1. late < PollsEvery /\ late' = late + 1 /\ elapsed' \in {elapsed, elapsed + 1} /\ elapsed <= late
      BY <2>1, <2>3 DEF Waiting, OnTime
    <3> QED
      BY <1>0, <2>1, <2>3, <3>1 DEF OnTime
  <2>4. CASE ~Waiting
    BY <2>1, <2>4 DEF OnTime, Waiting
  <2> QED
    BY <2>2, <2>3, <2>4 DEF Waiting
<1>3. CASE Isr
  <2>1. /\ millis_counter' = (millis_counter + 1) % M /\ UNCHANGED <<started_at, pc, elapsed, late>>
        /\ Pending = 1 /\ Pending' = 0 /\ PollsEvery' = PollsEvery /\ LastUnpassed' = LastUnpassed
    BY <1>3 DEF Isr, Counted, Pending, PollsEvery, LastUnpassed
  <2>2. CASE pc = "poll"
    <3>1. d + 1 < M
      BY <2>1, <2>2, NoWrap
    <3>2. (((millis_counter + 1) % M) - started_at) % M = d + 1
      BY <1>0, <3>1, NextRemainder
    <3>3. elapsed <= PollsEvery + (d + 1) + 0 /\ (d + 1) + 0 <= late + LastUnpassed
      BY <1>0, <1>d, <1>p, <2>1, <2>2
    <3>4. late <= PollsEvery
      BY <2>2 DEF OnTime, Waiting
    <3> HIDE DEF d
    <3> QED
      BY <2>1, <2>2, <3>2, <3>3, <3>4 DEF OnTime
  <2>3. CASE pc # "poll"
    BY <2>1, <2>3 DEF OnTime, Waiting
  <2> QED
    BY <2>2, <2>3
<1>4. CASE Begin
  <2>1. pc' = "start" /\ late' = 0 /\ elapsed' = 0 /\ PollsEvery' \in Nat
    BY <1>4, ClockAssumption DEF Begin, OnTime, PollsEvery
  <2> QED
    BY <2>1 DEF OnTime
<1>5. CASE ReadLow
  BY <1>5 DEF ReadLow, OnTime, Waiting, PollsEvery, LastUnpassed, Pending
<1>6. CASE ReadHigh
  <2>1. low + B * (millis_counter \div B) = millis_counter
    BY <1>0, <1>6, TwoBytes, ClockAssumption DEF ReadHigh, ReadsInOrder, ReadsOneTime
  <2>2. /\ millis_counter' = millis_counter /\ late' = Pending /\ Pending' = Pending
        /\ PollsEvery' = PollsEvery /\ LastUnpassed' = LastUnpassed /\ delay' = delay
    BY <1>6 DEF ReadHigh, Pending, PollsEvery, LastUnpassed
  <2>3. late' <= PollsEvery'
    BY <1>0, <1>p, <2>2
  <2>4. CASE pc = "start"
    <3>1. started_at' = millis_counter /\ elapsed' = elapsed /\ pc' = "poll"
      BY <1>6, <2>1, <2>4 DEF ReadHigh
    <3>2. (millis_counter - millis_counter) % M = 0
      BY <1>0, Remainders
    <3>3. elapsed <= late /\ late <= PollsEvery
      BY <2>4 DEF OnTime, Waiting
    <3>4. elapsed <= PollsEvery + 0 + Pending /\ 0 + Pending <= Pending + LastUnpassed
      BY <1>0, <1>p, <3>3
    <3> QED
      BY <2>2, <2>3, <3>1, <3>2, <3>4 DEF OnTime
  <2>5. CASE pc = "poll" /\ ~Passed(millis_counter)
    <3>1. UNCHANGED <<pc, started_at, elapsed>>
      BY <1>6, <2>1, <2>5 DEF ReadHigh
    <3>2. d <= LastUnpassed
      <4>1. CASE delay.how = "delay_ms"
        <5>1. d < delay.ms
          BY <1>0, <1>d, <2>5, <4>1 DEF Passed
        <5> HIDE DEF d
        <5> QED
          BY <1>0, <1>d, <4>1, <5>1 DEF LastUnpassed
      <4>2. CASE delay.how = "delay.rfl"
        <5>1. ~(Signed(d) > Signed(delay.ms))
          BY <2>5, <4>2 DEF Passed
        <5>2. d < M \div 2
          <6>1. d + Pending < M \div 2
            BY <2>5, <4>2, NoWrap
          <6> HIDE DEF d
          <6> QED
            BY <1>0, <1>d, <1>p, <6>1
        <5>3. delay.ms < M \div 2
          BY <1>0, <4>2, ClockAssumption DEF ShortRequests, TypeOK
        <5> HIDE DEF d
        <5> QED
          BY <1>0, <1>d, <4>2, <5>1, <5>2, <5>3 DEF Signed, LastUnpassed
      <4> QED
        BY <1>0, <4>1, <4>2
    <3>3. d + Pending <= Pending + LastUnpassed
      <4> HIDE DEF d
      <4> QED
        BY <1>0, <1>d, <1>p, <3>2
    <3> QED
      BY <1>p, <2>2, <2>3, <2>5, <3>1, <3>3 DEF OnTime
  <2>6. CASE pc = "poll" /\ Passed(millis_counter)
    <3>1. pc' = "idle" /\ elapsed' = 0
      BY <1>6, <2>1, <2>6 DEF ReadHigh
    <3> QED
      BY <3>1 DEF OnTime, Waiting
  <2> QED
    BY <1>6, <2>4, <2>5, <2>6 DEF ReadHigh
<1>7. CASE UNCHANGED vars
  BY <1>7 DEF vars, OnTime, Waiting, PollsEvery, LastUnpassed, Pending
<1> QED
  BY <1>1, <1>2, <1>3, <1>4, <1>5, <1>6, <1>7 DEF Next, Interpreter

(* A delay goes on for no longer than it takes to read the clock first and   *)
(* to poll once after its time, wherever in its range the counter stood when *)
(* it began (delay_ms, .delay_ms of programs/delay.rfl).                     *)
THEOREM DelaysAreNeverOverdue ==
  ASSUME ShortRequests
  PROVE  Spec => []NeverOverdue
<1>1. Init => TypeOK /\ ReadsInOrder /\ OnTime
  BY TypeInitially, ReadsInOrderInitially DEF Init, OnTime, Waiting
<1>2. TypeOK /\ ReadsInOrder /\ OnTime /\ [Next]_vars => TypeOK' /\ ReadsInOrder' /\ OnTime'
  BY TypePreserved, ReadsStayInOrder, OnTimeStep
<1>3. TypeOK /\ OnTime => NeverOverdue
  <2> SUFFICES ASSUME TypeOK, OnTime, Waiting PROVE elapsed <= delay.ms + 2 * PollsEvery
    BY DEF NeverOverdue
  <2>1. /\ late \in Nat /\ PollsEvery \in Nat /\ delay.ms \in Nat
        /\ elapsed \in Nat /\ late <= PollsEvery
    BY Range_M, ClockAssumption DEF OnTime, TypeOK, Waits, PollsEvery, LongestCounted
  <2>2. CASE pc = "start"
    BY <2>1, <2>2 DEF OnTime
  <2>3. CASE pc = "poll"
    <3> DEFINE d == (millis_counter - started_at) % M
    <3>1. d \in Nat /\ Pending \in {0, 1}
      BY <2>3, NoWrap DEF Pending
    <3>2. elapsed <= PollsEvery + d + Pending /\ d + Pending <= late + LastUnpassed
      BY <2>3 DEF OnTime
    <3>3. LastUnpassed \in Nat /\ LastUnpassed <= delay.ms
      BY <2>1 DEF LastUnpassed
    <3> HIDE DEF d
    <3> QED
      BY <2>1, <3>1, <3>2, <3>3
  <2> QED
    BY <2>2, <2>3 DEF Waiting
<1> QED
  BY <1>1, <1>2, <1>3, PTL DEF Spec


=============================================================================
