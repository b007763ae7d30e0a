-------------------------------- MODULE Clock --------------------------------
(***************************************************************************)
(* The millisecond clock of the AVR build (delay.c) and the two ways to    *)
(* wait for it: delay_ms, which the instruction DELAY and the LED system   *)
(* call execute, and the function .delay_ms of programs/delay.rfl, which   *)
(* polls the clock with PUSH_MILLIS.                                       *)
(*                                                                         *)
(* Two actors: the timer, which requests an interrupt every millisecond    *)
(* and whose handler counts it, and the interpreter.  The counter has two  *)
(* bytes, which the interpreter reads one after the other.                 *)
(*                                                                         *)
(* While the interpreter is in delay_ms it does nothing but poll.  In      *)
(* .delay_ms other tasks have slices between two polls, so that the clock  *)
(* may advance by several milliseconds: by no more than Between.           *)
(***************************************************************************)
EXTENDS Integers

CONSTANTS
  B,         \* the values of a byte: 256
  Between,   \* milliseconds that pass between two polls of .delay_ms
  Requests   \* the delays of the program: function and milliseconds

M == B * B
Waits == [how : {"delay_ms", "delay.rfl"}, ms : 0 .. M - 1]

ASSUME ClockAssumption ==
  /\ B \in Nat /\ B > 1 /\ B % 2 = 0
  /\ Between \in Nat \ {0}
  /\ Requests \subseteq Waits /\ Requests # {}

VARIABLES
  millis_counter,
  due,          \* the timer has requested an interrupt
  interrupts,   \* whether they are enabled
  pc,           \* "off", "idle", "start" (before the first read) or "poll"
  low,          \* the low byte, between the two reads of millis, else Unread
  delay,        \* the delay in progress, or the last one
  started_at,
  elapsed,      \* history: milliseconds since the delay in progress began
  late          \* history: milliseconds the interpreter has not read yet

vars == <<millis_counter, due, interrupts, pc, low, delay, started_at, elapsed, late>>

Unread == -1

Init ==
  /\ millis_counter = 0
  /\ due = FALSE
  /\ interrupts = FALSE
  /\ pc = "off"
  /\ low = Unread
  /\ delay \in Requests
  /\ started_at = 0
  /\ elapsed = 0
  /\ late = 0

-----------------------------------------------------------------------------
(* The timer. *)

timer_init ==
  /\ pc = "off"
  /\ pc' = "idle"
  /\ interrupts' = TRUE
  /\ UNCHANGED <<millis_counter, due, low, delay, started_at, elapsed, late>>

(* Bound of the model: no delay takes longer than twice what the clock can   *)
(* tell, unless it never ends.                                               *)
LongestCounted == 2 * M

Waiting == pc \in {"start", "poll"}
PollsEvery == IF delay.how = "delay_ms" THEN 1 ELSE Between

(* A millisecond passes.  The interpreter polls again in time, and millis    *)
(* does not keep the interrupts disabled for as long as that.                *)
Tick ==
  /\ pc # "off"
  /\ ~due
  /\ Waiting => late < PollsEvery
  /\ due' = TRUE
  /\ late' = IF Waiting THEN late + 1 ELSE 0
  /\ elapsed' = IF Waiting /\ elapsed < LongestCounted THEN elapsed + 1 ELSE elapsed
  /\ UNCHANGED <<millis_counter, interrupts, pc, low, delay, started_at>>

CountedOn(n) == n + 1                        \* a mutant
Counted(n) == (n + 1) % M

(* ISR(TIMER0_COMPA_vect) *)
Isr ==
  /\ due /\ interrupts
  /\ due' = FALSE
  /\ millis_counter' = Counted(millis_counter)
  /\ UNCHANGED <<interrupts, pc, low, delay, started_at, elapsed, late>>

-----------------------------------------------------------------------------
(* The interpreter. *)

Begin ==
  /\ pc = "idle"
  /\ delay' \in Requests
  /\ pc' = "start"
  /\ late' = 0
  /\ UNCHANGED <<millis_counter, due, interrupts, low, started_at, elapsed>>

(* millis: interrupts are disabled before the counter is read and enabled    *)
(* afterwards.                                                               *)
ReadLowUnmasked ==                           \* a mutant
  /\ Waiting /\ low = Unread
  /\ low' = millis_counter % B
  /\ UNCHANGED <<millis_counter, due, interrupts, pc, delay, started_at, elapsed, late>>

ReadLow ==
  /\ Waiting /\ low = Unread
  /\ interrupts' = FALSE
  /\ low' = millis_counter % B
  /\ UNCHANGED <<millis_counter, due, pc, delay, started_at, elapsed, late>>

Signed(n) == IF n < M \div 2 THEN n ELSE n - M

(* Whether the loop ends at time now.  delay_ms compares a difference of     *)
(* unsigned numbers; .delay_ms pushes the clock, subtracts with SUB_U16 and  *)
(* has COMPARE_GT, which is signed.                                          *)
PassedAsInts(now) ==                         \* a mutant
  IF delay.how = "delay_ms" THEN now - started_at >= delay.ms
  ELSE Signed((now - started_at) % M) > Signed(delay.ms)

PassedUnsubtracted(now) ==                   \* a mutant
  IF delay.how = "delay_ms" THEN now >= (started_at + delay.ms) % M
  ELSE Signed((now - started_at) % M) > Signed(delay.ms)

Passed(now) ==
  LET difference == (now - started_at) % M IN
  IF delay.how = "delay_ms" THEN difference >= delay.ms
  ELSE Signed(difference) > Signed(delay.ms)

ReadHigh ==
  LET now == low + B * (millis_counter \div B) IN
  /\ low # Unread
  /\ interrupts' = TRUE
  /\ low' = Unread
  /\ late' = IF due THEN 1 ELSE 0
  /\ \/ /\ pc = "start"
        /\ started_at' = now
        /\ pc' = "poll"
        /\ UNCHANGED elapsed
     \/ /\ pc = "poll" /\ ~Passed(now)
        /\ UNCHANGED <<pc, started_at, elapsed>>
     \/ /\ pc = "poll" /\ Passed(now)
        /\ pc' = "idle"
        /\ started_at' = 0
        /\ elapsed' = 0
  /\ UNCHANGED <<millis_counter, due, delay>>

Interpreter == Begin \/ ReadLow \/ ReadHigh

Next == timer_init \/ Tick \/ Isr \/ Interpreter

Spec == Init /\ [][Next]_vars

(* The timer runs and the interpreter goes on reading.  The processor takes  *)
(* a requested interrupt as soon as interrupts are enabled, even if only for *)
(* the moment between two polls.                                             *)
FairSpec ==
  /\ Spec
  /\ WF_vars(timer_init) /\ WF_vars(Tick) /\ SF_vars(Isr)
  /\ WF_vars(ReadLow \/ ReadHigh)

-----------------------------------------------------------------------------
(* Properties. *)

TypeOK ==
  /\ millis_counter \in 0 .. M - 1
  /\ due \in BOOLEAN /\ interrupts \in BOOLEAN
  /\ pc \in {"off", "idle", "start", "poll"}
  /\ low \in {Unread} \cup 0 .. B - 1
  /\ delay \in Requests
  /\ started_at \in 0 .. M - 1
  /\ elapsed \in 0 .. LongestCounted /\ late \in Nat

(* The two bytes millis puts together are those of one time: the handler     *)
(* does not run between the two reads (cli and sei in millis).               *)
ReadsOneTime == low # Unread => ~interrupts /\ low = millis_counter % B

(* No delay ends before its time, but for the millisecond in progress when   *)
(* it begins (delay_ms, .delay_ms of programs/delay.rfl).                    *)
NeverShort ==
  [][pc = "poll" /\ pc' = "idle" => elapsed + 1 >= delay.ms]_vars

(* Nor does it go on for longer than it takes to read the clock first and to *)
(* poll once after its time, also when the counter wraps around meanwhile.   *)
NeverOverdue == Waiting => elapsed <= delay.ms + 2 * PollsEvery

(* Every delay ends. *)
DelayEnds == Waiting ~> pc = "idle"

=============================================================================
