--------------------------- MODULE VirtualMachine ---------------------------
(***************************************************************************)
(* The scheduler and the messages together: cpu_run_cycle polls the        *)
(* server, switches to the node, empties its inbox and only then executes  *)
(* instructions, some of which create or free inboxes or send messages.    *)
(* Every step is a step of Scheduler, of Messaging or of both; the two     *)
(* share tasks_number.                                                     *)
(*                                                                         *)
(* The switch to the node is written after the loop that empties its       *)
(* inbox.  The code does it before; nothing that happens between reads     *)
(* what the other changes.                                                 *)
(***************************************************************************)
EXTENDS Scheduler

CONSTANTS TASK_MESSAGE_QUEUE_SIZE, Queue, Message, Wild, Leftover

VARIABLES
  inbox, message_queues, inboxes, queue, messages, message, status, refused, astray,
  polled,     \* cpu_check_incoming_messages is done for this node
  diverted,   \* a message of this node has been processed
  waits       \* history: rounds at whose end the inbox has not been empty since

ASSUME VirtualMachineAssumption ==
  /\ TASK_MESSAGE_QUEUE_SIZE \in Nat \ {0}
  /\ IsFiniteSet(Queue) /\ IsFiniteSet(Message)
  /\ NULL \notin Queue \cup Message \cup {Wild}
  /\ Wild \notin Queue \cup Message
  /\ Leftover \subseteq Message \cup {NULL, Wild}

M == INSTANCE Messaging WITH Enders <- Returners \ {Root}

mailVars == <<inbox, message_queues, inboxes, queue, messages, message, status,
              refused, astray>>
turnVars == <<polled, diverted, waits>>
allVars == <<vars, mailVars, turnVars>>

MachineInit ==
  /\ Init
  /\ M!Init
  /\ polled = FALSE
  /\ diverted = FALSE
  /\ waits = [t \in TaskId |-> 0]

(* A step of both parts.  When a list of the messages turns out to be broken *)
(* the machine stops in the middle of it.                                    *)
Both(Instruction, Call) ==
  /\ Call
  /\ IF status' = "running" THEN Instruction ELSE UNCHANGED vars
  /\ UNCHANGED <<polled, diverted>>

-----------------------------------------------------------------------------
(* Before the instructions. *)

Poll ==
  /\ phase = "enter" /\ ~polled
  /\ M!Running
  /\ UNCHANGED mailVars \/ \E d \in TaskId : M!ReceiveMessage(d)
  /\ polled' = TRUE
  /\ UNCHANGED <<vars, diverted, waits>>

ProcessInbox ==
  /\ phase = "enter" /\ polled
  /\ M!ProcessMessage(Top.node)
  /\ diverted' = TRUE
  /\ waits' = [waits EXCEPT ![Top.node] = IF queue[inbox[Top.node]].count = 1 THEN 0 ELSE @]
  /\ UNCHANGED <<vars, polled>>

InboxIgnored(n) == TRUE                      \* a mutant
InboxEmpty(n) == queue[inbox[n]].count = 0

StartSlice ==
  LET n == Top.node
      h == task[n].message_handler_address
  IN
  /\ phase = "enter" /\ polled
  /\ M!Running
  /\ InboxEmpty(n)
  /\ RunCycle
  /\ ip' = IF diverted /\ h # 0 THEN h ELSE ResumeAddress(n)
  /\ polled' = FALSE
  /\ diverted' = FALSE
  /\ UNCHANGED <<mailVars, waits>>

-----------------------------------------------------------------------------
(* Instructions. *)

Send ==
  /\ phase = "slice"
  /\ \E d \in TaskId : Both(Execute, M!SendMessage(d))
  /\ UNCHANGED waits

Spawn ==
  /\ phase = "slice"
  /\ ~LimitReached
  /\ Both(AsyncCall, M!CreateInbox)
  /\ UNCHANGED waits

(* The tasks below the one that ends go with it, and their inboxes too. *)
TheRunningTask == {current}                  \* a mutant
EndingTasks == Subtree(current)

Finish ==
  /\ phase = "slice"
  /\ current \in Returners \ {Root}
  /\ OrphanReturns \/ children[current] = <<>>
  /\ Both(AsyncReturn, M!FreeInboxes(EndingTasks))
  /\ waits' = [t \in TaskId |-> IF t \in EndingTasks THEN 0 ELSE waits[t]]

(* The steps of the scheduler that no message plays a part in. *)
Alone ==
  /\ M!Running
  /\ \/ StartRound \/ Descend \/ ReadFreedChildren
     \/ Execute \/ AsyncCallRefused \/ AsyncReturnOfMain
  /\ UNCHANGED <<mailVars, turnVars>>

(* The process exits, and its memory goes back to the system.  HALT frees    *)
(* the tasks with their inboxes first (cpu_free).                            *)
Quit ==
  /\ M!Running
  /\ Fail \/ (Halt /\ \A t \in live : M!EndsInNull(queue[inbox[t]].head))
  /\ inbox' = [t \in TaskId |-> NULL]
  /\ inboxes' = {}
  /\ queue' = [q \in Queue |-> M!EmptyQueue(Root)]
  /\ messages' = {}
  /\ message' = [m \in Message |-> [next |-> NULL, task_dst |-> Root]]
  /\ refused' = {}
  /\ polled' = FALSE
  /\ diverted' = FALSE
  /\ waits' = [t \in TaskId |-> 0]
  /\ UNCHANGED <<message_queues, status, astray>>

(* Bound of the model: longer waits than WaitIsBounded allows need no count. *)
WaitsCounted == MAX_TASKS + 2

(* A call of the traversal returns; at the end of the outermost one the      *)
(* tasks with messages in their inboxes have waited for one more round.      *)
Return ==
  /\ M!Running
  /\ Ascend
  /\ waits' = [t \in TaskId |->
                 IF phase' = "idle" /\ t \in live /\ M!Mail[t] # <<>>
                      /\ waits[t] < WaitsCounted
                 THEN waits[t] + 1 ELSE waits[t]]
  /\ UNCHANGED <<mailVars, polled, diverted>>

MachineGone == (phase \in Stopped \/ ~M!Running) /\ UNCHANGED allVars

MachineNext ==
  \/ Poll \/ ProcessInbox \/ StartSlice
  \/ Send \/ Spawn \/ Finish
  \/ Alone \/ Return \/ Quit \/ MachineGone

MachineSpec == MachineInit /\ [][MachineNext]_allVars

(* One thread, as in Scheduler.  It is assumed that every client that        *)
(* connects writes its message or goes away: server_receive_message waits    *)
(* for one that does neither, and with it all tasks.                         *)
FairMachineSpec == MachineSpec /\ WF_allVars(MachineNext)

-----------------------------------------------------------------------------
(* Properties. *)

Working == phase \in Running /\ M!Running

(* The inboxes that exist are those of the tasks that exist: the two         *)
(* structures are created and freed together (cpu_create_task, task_free).   *)
OneInboxPerTask ==
  Working => /\ M!Tasks = live
             /\ inboxes = {inbox[t] : t \in live}
             /\ \A s, t \in live : inbox[s] = inbox[t] => s = t

(* A message waits for the end of one round, and for one more for every task *)
(* that has ended, whose siblings the traversal passed over                  *)
(* (cpu_process_context_inbox under task_tree_traverse_dfs).                 *)
WaitIsBounded ==
  Working => \A t \in live :
    waits[t] <= 1 + tasks_number - Cardinality(live \ {Root})

(* An inbox that holds messages is emptied again, so that every message it   *)
(* accepts is processed, unless its task ends or the process does            *)
(* (cpu_process_context_inbox).                                              *)
EveryInboxEmptied ==
  \A t \in TaskId : M!Mail[t] # <<>> ~> M!Mail[t] = <<>> \/ ~Working

=============================================================================
