------------------------------ MODULE MCMemory ------------------------------
(* A small machine: three tasks besides main, two messages.  It reads one   *)
(* byte more than the header at once, so that a message with a payload of   *)
(* two never arrives whole.  The counter wraps around at once.              *)
EXTENDS Memory

Sizes == [CPU |-> 9, PortBank |-> 2, Pointer |-> 2, Server |-> 5, Task |-> 3,
          Stack |-> 2, TaskTreeNode |-> 4, MessageQueue |-> 3, Message |-> 5]

ReadAtOnce == HEADER + 1
AroundTheHeader == HEADER - 1 .. HEADER + 1
OneOrTwo == {1, 2}
One == {1}

(* A task that may exist, and one that never does.                          *)
SomeTasks == {1, MAX_TASKS + 1}

=============================================================================
