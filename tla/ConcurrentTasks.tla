--------------------------- MODULE ConcurrentTasks ---------------------------
(***************************************************************************)
(* What the virtual machine promises a program about its tasks: each task  *)
(* is an activity of its own, with a program counter that only its own     *)
(* steps move (an instruction, or the delivery of a message to its         *)
(* handler); tasks are started one at a time, at an address, under an      *)
(* identifier no other task has, and end one at a time.  Nothing is said   *)
(* of how the tasks share the one interpreter: Scheduler.tla is the code,  *)
(* and is shown to implement this.                                         *)
(***************************************************************************)
EXTENDS Naturals

CONSTANTS
  Task,      \* every task identifier the machine can ever hand out
  Main,      \* the identifier of the task that runs the program's main
  Address    \* the addresses of program memory

VARIABLES
  tasks,   \* the tasks that exist
  pc       \* the address each of them executes next (0 for the others)

vars == <<tasks, pc>>

Init ==
  /\ tasks = {Main}
  /\ pc = [t \in Task |-> 0]

(* Task t executes an instruction, or is diverted to its message handler. *)
Step(t) ==
  /\ t \in tasks
  /\ \E a \in Address : pc' = [pc EXCEPT ![t] = a]
  /\ UNCHANGED tasks

(* Task t starts task s at some address; Task bounds how many can exist. *)
Spawn(t, s) ==
  /\ t \in tasks
  /\ s \notin tasks
  /\ tasks' = tasks \cup {s}
  /\ \E a, b \in Address : pc' = [pc EXCEPT ![t] = a, ![s] = b]

(* Task t ends. *)
Finish(t) ==
  /\ t \in tasks \ {Main}
  /\ tasks' = tasks \ {t}
  /\ pc' = [pc EXCEPT ![t] = 0]

(* The machine exits, and every task with it. *)
Exit ==
  /\ tasks' = {}
  /\ pc' = [t \in Task |-> 0]

Next ==
  \/ \E t \in Task : Step(t) \/ Finish(t)
  \/ \E t, s \in Task : Spawn(t, s)
  \/ Exit

Spec == Init /\ [][Next]_vars

=============================================================================
