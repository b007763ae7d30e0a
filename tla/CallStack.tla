------------------------------ MODULE CallStack ------------------------------
(***************************************************************************)
(* What the virtual machine promises about function calls: a call has      *)
(* local variables of its own, which nothing but its own instructions      *)
(* read or write (those of the task's own code are every call's), and when *)
(* it returns the caller goes on where it left off, with its variables as  *)
(* they were.  The call of a message handler is a call like any other,     *)
(* made where the task happens to be.                                      *)
(* CallFrames.tla, one array of cells, is shown to implement this.         *)
(***************************************************************************)
EXTENDS Naturals, Sequences, SequencesExt

CONSTANTS
  Address,   \* addresses of program memory
  Word,      \* what a variable can hold
  Sizes      \* the numbers of variables that are declared together

VARIABLES
  pc,      \* the address executed next
  calls,   \* the calls in progress, the task's own code first
  operand  \* the operand produced last

vars == <<pc, calls, operand>>

Init ==
  /\ pc = 0
  /\ calls = << [back |-> 0, locals |-> <<>>] >>
  /\ operand = 0

Step == pc' \in Address /\ operand' \in Word /\ UNCHANGED calls

(* A call from the current code; the return will be to address b. *)
Call(b) ==
  /\ pc' \in Address
  /\ calls' = Append(calls, [back |-> b, locals |-> <<>>])
  /\ UNCHANGED operand

Return ==
  /\ Len(calls) > 1
  /\ pc' = Last(calls).back
  /\ calls' = Front(calls)
  /\ UNCHANGED operand

(* The contents of a new variable are anything. *)
Declare(n) ==
  /\ pc' \in Address
  /\ \E new \in [1 .. n -> Word] :
       calls' = [calls EXCEPT ![Len(calls)].locals = @ \o new]
  /\ UNCHANGED operand

(* The running call's last variable goes. *)
Drop ==
  /\ Last(calls).locals # <<>>
  /\ pc' \in Address
  /\ calls' = [calls EXCEPT ![Len(calls)].locals = Front(@)]
  /\ UNCHANGED operand

(* Code reads and writes its own variables, and those of the task's own code. *)
Visible == {1, Len(calls)}

Read(k, i) ==
  /\ i \in DOMAIN calls[k].locals
  /\ pc' \in Address
  /\ operand' = calls[k].locals[i]
  /\ UNCHANGED calls

Write(k, i) ==
  /\ i \in DOMAIN calls[k].locals
  /\ pc' \in Address
  /\ calls' = [calls EXCEPT ![k].locals[i] = operand]
  /\ UNCHANGED operand

Next ==
  \/ Step \/ Return \/ Drop
  \/ \E b \in Address : Call(b)
  \/ \E n \in Sizes : Declare(n)
  \/ \E k \in Visible : \E i \in DOMAIN calls[k].locals : Read(k, i) \/ Write(k, i)

Spec == Init /\ [][Next]_vars

=============================================================================
