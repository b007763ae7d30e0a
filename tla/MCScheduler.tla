----------------------------- MODULE MCScheduler -----------------------------
(* Small instances of Scheduler for TLC: three or four tasks besides main,  *)
(* one or two addresses, slices of one or two instructions.  CONTEXT_MAX_   *)
(* CYCLES is 255 in the code; a slice of two already lets a task act twice, *)
(* or act and be preempted.                                                 *)
EXTENDS Scheduler

NoAddress == {0}
TwoAddresses == {0, 1}

NoTask == {}
AnyTask == TaskId
Children == TaskId \ {Root}

=============================================================================
