------------------------------ MODULE CallFrames ------------------------------
(***************************************************************************)
(* Function calls and local variables of one task, on its stack (CALL,     *)
(* RETURN, ALLOC_LOCAL, PUSH_LOCAL and POP_LOCAL of instructions.c, and    *)
(* ALLOC_I16, FREE_I16, READ_I16 and WRITE_I16 for variables of the task), *)
(* with the message handlers that cpu_process_context_inbox calls between  *)
(* two of its instructions.                                                *)
(*                                                                         *)
(* A cell of the stack is a word of two bytes: an address, a saved base    *)
(* pointer or a variable.  Of the operand stack only the operand produced  *)
(* last is kept.  Programs are those compiler.py makes: a variable is      *)
(* named by its offset in the frame of the function that allocated it.     *)
(***************************************************************************)
EXTENDS Stack, SequencesExt

CONSTANTS
  Address,      \* addresses of program memory
  Handler,      \* Task.message_handler_address
  Word,         \* what a word of an operand or a variable is, in the model
  STACK_SIZE,   \* cpu.h: TASK_STACK_SIZE
  AllocSizes    \* the sizes programs give to ALLOC_LOCAL

ASSUME CallFramesAssumption ==
  /\ Address \subseteq Nat /\ 0 \in Address
  /\ Handler \in Address
  /\ Word \subseteq Nat /\ 0 \in Word
  /\ STACK_SIZE \in Nat \ {0}
  /\ AllocSizes \subseteq Nat \ {0}

VARIABLES
  ip,       \* CPU.ip
  stack,    \* CPU.stack
  operand,  \* the top of CPU.opstack
  status,   \* "running", "failed" (exit) or "undefined"
  bases     \* history: the bases of the calls in progress, the outermost first

vars == <<ip, stack, operand, status, bases>>

Init ==
  /\ ip = 0
  /\ stack = stack_create(STACK_SIZE)
  /\ operand = 0
  /\ status = "running"
  /\ bases = <<0>>

Exit(how) ==
  /\ status' = how
  /\ UNCHANGED <<ip, stack, operand, bases>>

-----------------------------------------------------------------------------

(* Instructions that leave the stack alone. *)
Execute ==
  /\ status = "running"
  /\ ip' \in Address
  /\ operand' \in Word
  /\ UNCHANGED <<stack, status, bases>>

(* The frame of call_address: the return address, then the base pointer. *)
FrameWithoutBase(back) ==                    \* a mutant
  [Push(Push(stack, <<back>>), <<stack.bp>>) EXCEPT !.bp = stack.bp]
NewFrame(back) ==
  LET s == Push(Push(stack, <<back>>), <<stack.bp>>) IN [s EXCEPT !.bp = s.sp]

CallAddress(address, back) ==
  IF CanPush(stack, 2)
  THEN /\ stack' = NewFrame(back)
       /\ bases' = Append(bases, stack.sp + 2)
       /\ ip' = address
       /\ UNCHANGED <<operand, status>>
  ELSE Exit("failed")

(* CALL: ip stands on the next instruction when the frame is made. *)
Call ==
  /\ status = "running"
  /\ \E address, back \in Address : CallAddress(address, back)

(* A slice begins with a message in the inbox. *)
HandleMessage ==
  /\ status = "running"
  /\ Handler # 0
  /\ CallAddress(Handler, ip)

(* RETURN: the frame and everything above it is dropped. *)
UnwoundFromTop == stack                      \* a mutant
Unwound == [stack EXCEPT !.sp = stack.bp]

Return ==
  LET s == Unwound
      t == Pop(s, 1)
  IN
  /\ status = "running"
  /\ IF CanPop(s, 2)
     THEN /\ stack' = [Pop(t, 1) EXCEPT !.bp = TopOf(s, 1)[1]]
          /\ ip' = TopOf(t, 1)[1]
          /\ bases' = Front(bases)
          /\ UNCHANGED <<operand, status>>
     ELSE Exit("failed")

(* ALLOC_LOCAL and ALLOC_I16 move the pointer, past the end of the array if   *)
(* need be.  The model stops one allocation past the end.                    *)
AllocLocal ==
  /\ status = "running"
  /\ stack.sp <= STACK_SIZE
  /\ \E n \in AllocSizes : stack' = [stack EXCEPT !.sp = @ + n]
  /\ ip' \in Address
  /\ UNCHANGED <<operand, status, bases>>

(* FREE_I16, of a variable that the running function has. *)
FreeLocal ==
  /\ status = "running"
  /\ stack.sp > stack.bp
  /\ stack' = Pop(stack, 1)
  /\ ip' \in Address
  /\ UNCHANGED <<operand, status, bases>>

(* Where the variables are: PUSH_LOCAL and POP_LOCAL count from the base of   *)
(* the running function, READ_I16 and WRITE_I16 from the bottom of the stack, *)
(* where the variables of the task's own code are.                           *)
VariableAtBottom(o) == o                     \* a mutant
Variable(o) == stack.bp + o
Locals == {Variable(o) : o \in 0 .. stack.sp - stack.bp - 1}
OfTask == 0 .. (IF Len(bases) = 1 THEN stack.sp ELSE bases[2] - 2) - 1

(* No test that the variable is inside the array. *)
Read(a) ==
  /\ status = "running"
  /\ IF a < STACK_SIZE
     THEN /\ operand' = ReadAt(stack, 1, a)[1]
          /\ ip' \in Address
          /\ UNCHANGED <<stack, status, bases>>
     ELSE Exit("undefined")

Write(a) ==
  /\ status = "running"
  /\ IF CanWriteAt(stack, 1, a)
     THEN /\ stack' = WriteAt(stack, <<operand>>, a)
          /\ ip' \in Address
          /\ UNCHANGED <<operand, status, bases>>
     ELSE Exit("failed")

PushLocal == \E a \in Locals : Read(a)
PopLocal == \E a \in Locals : Write(a)
LoadI16 == \E a \in OfTask : Read(a)
StoreI16 == \E a \in OfTask : Write(a)

Stopped == status # "running" /\ UNCHANGED vars

Next ==
  \/ Execute \/ Call \/ HandleMessage \/ Return
  \/ AllocLocal \/ FreeLocal \/ PushLocal \/ PopLocal \/ LoadI16 \/ StoreI16
  \/ Stopped

Spec == Init /\ [][Next]_vars

-----------------------------------------------------------------------------
(* Properties. *)

TypeOK ==
  /\ ip \in Address
  /\ stack.data \in [0 .. STACK_SIZE - 1 -> Nat]
  /\ stack.size = STACK_SIZE
  /\ stack.sp \in Nat /\ stack.bp \in Nat
  /\ operand \in Nat
  /\ status \in {"running", "failed", "undefined"}
  /\ bases \in Seq(Nat) \ {<<>>}

(* Frames lie one above the other: the base pointer is that of the innermost *)
(* call, each call has the return address and its caller's base in the two   *)
(* words below its own, inside the array and above the base of its caller    *)
(* (call_address, ret).                                                      *)
FramesLinked ==
  /\ bases[1] = 0
  /\ stack.bp = Last(bases) /\ stack.bp <= stack.sp /\ stack.bp <= STACK_SIZE
  /\ \A k \in 2 .. Len(bases) :
       /\ bases[k] >= bases[k - 1] + 2
       /\ stack.data[bases[k] - 1] = bases[k - 1]
       /\ stack.data[bases[k] - 2] \in Address

(* The variables of call k.  Those beyond the array have no contents.        *)
VariablesOf(k) ==
  LET b == bases[k]
      e == IF k = Len(bases) THEN stack.sp ELSE bases[k + 1] - 2
  IN [i \in 1 .. e - b |-> IF b + i - 1 < STACK_SIZE THEN stack.data[b + i - 1] ELSE 0]

Calls ==
  [k \in DOMAIN bases |->
     [back |-> IF k = 1 THEN 0 ELSE stack.data[bases[k] - 2], locals |-> VariablesOf(k)]]

(* One array of words gives every call its own variables and its way back,   *)
(* also when a message handler is called between any two instructions.       *)
Promise == INSTANCE CallStack
             WITH pc <- ip, calls <- Calls, Sizes <- AllocSizes,
                  Word <- Word \cup Address \cup 0 .. STACK_SIZE
CallsAreNested == Promise!Spec

=============================================================================
