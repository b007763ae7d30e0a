-------------------------- MODULE MCVirtualMachine --------------------------
(* Small instances of VirtualMachine: one or two tasks besides main, slices *)
(* of one instruction, memory for two messages.                             *)
EXTENDS VirtualMachine, TLC

NoAddress == {0}
TwoAddresses == {0, 1}
Children == TaskId \ {Root}
Zeroed == {NULL}

(* All addresses are alike.  It is enough to look at one of them for the    *)
(* inbox of main, and at one of those that have never been used whenever a  *)
(* new one is taken.                                                        *)
InitFromThere == MachineInit /\ message_queues = CHOOSE q \in Queue : TRUE

UnusedQueues ==
  {q \in Queue \ inboxes : /\ queue[q] = M!EmptyQueue(Root)
                           /\ \A p \in Queue : queue[p].next # q}

UnusedMessages ==
  {m \in Message \ messages : /\ message[m] = [next |-> NULL, task_dst |-> Root]
                              /\ \A k \in Message : message[k].next # m
                              /\ \A q \in Queue : m \notin {queue[q].head, queue[q].tail}}

OneOfTheAlike ==
  /\ \A q \in (inboxes' \ inboxes) \cap UnusedQueues :
       q = CHOOSE p \in UnusedQueues : TRUE
  /\ \A m \in (messages' \ messages) \cap UnusedMessages :
       m = CHOOSE k \in UnusedMessages : TRUE

FairMachineSpecFromThere ==
  /\ InitFromThere
  /\ [][MachineNext /\ OneOfTheAlike]_allVars
  /\ WF_allVars(MachineNext)

=============================================================================
