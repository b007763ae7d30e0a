------------------------------ MODULE Messaging ------------------------------
(***************************************************************************)
(* Messages between tasks (messaging.c, and the list of queues that cpu.c  *)
(* keeps).  Every task has an inbox, a linked list of Message structures;  *)
(* the inboxes are chained in one list, in the order their tasks were      *)
(* created, which deliver_local searches for the destination.              *)
(*                                                                         *)
(* Both kinds of structure are heap memory.  Queue and Message are the     *)
(* addresses malloc can return, `inboxes' and `messages' those that are    *)
(* allocated; a freed address may be handed out again.  message_create     *)
(* does not set Message.next, which is then what the memory held before:   *)
(* any member of Leftover.  A step that reads or writes a structure that   *)
(* is not allocated ends in status "undefined", of which nothing more is   *)
(* said, and a search that comes round to where it was in "hung".          *)
(*                                                                         *)
(* This module is the component alone: instructions, the server and the    *)
(* scheduler call it in any order.  VirtualMachine has the actual order.   *)
(* Payloads are left out (no step depends on one), and so is the sending   *)
(* to other machines: vm_dst of every message a task sends is the local    *)
(* one.                                                                    *)
(***************************************************************************)
EXTENDS Naturals, Sequences, FiniteSets

CONSTANTS
  MAX_TASKS,                 \* task.h
  TASK_MESSAGE_QUEUE_SIZE,   \* messaging.h: messages an inbox holds
  Queue,      \* addresses a MessageQueue can be at
  Message,    \* addresses a Message can be at
  NULL,       \* the null pointer
  Wild,       \* a pointer to no Message or MessageQueue at all
  Leftover,   \* what the first word of new memory may hold
  Enders      \* tasks whose code contains ASYNC_RETURN

TaskId == 0 .. MAX_TASKS
Root == 0

ASSUME MessagingAssumption ==
  /\ MAX_TASKS \in Nat
  /\ TASK_MESSAGE_QUEUE_SIZE \in Nat \ {0}
  /\ IsFiniteSet(Queue) /\ IsFiniteSet(Message)
  /\ NULL \notin Queue \cup Message \cup {Wild}
  /\ Wild \notin Queue \cup Message
  /\ Leftover \subseteq Message \cup {NULL, Wild}
  /\ Enders \subseteq TaskId \ {Root}

VARIABLES
  tasks_number,     \* CPU.tasks_number
  inbox,            \* Task.inbox, NULL for a task that does not exist
  message_queues,   \* CPU.message_queues, the inbox of main
  inboxes,          \* the allocated MessageQueues
  queue,            \* MessageQueue.next, .task_id, .head, .tail, .count
  messages,         \* the allocated Messages
  message,          \* Message.next, .task_dst
  status,           \* "running", "undefined" or "hung"
  refused,          \* history: messages a full inbox did not take
  astray            \* history: a list was followed beyond its last message

vars == <<tasks_number, inbox, message_queues, inboxes, queue, messages,
          message, status, refused, astray>>
heap == <<inboxes, queue, messages, message>>

Running == status = "running"
Tasks == {t \in TaskId : inbox[t] # NULL}

EmptyQueue(t) ==
  [next |-> NULL, task_id |-> t, head |-> NULL, tail |-> NULL, count |-> 0]

Init ==
  /\ tasks_number = 0
  /\ message_queues \in Queue
  /\ inbox = [t \in TaskId |-> IF t = Root THEN message_queues ELSE NULL]
  /\ inboxes = {message_queues}
  /\ queue = [q \in Queue |-> EmptyQueue(Root)]
  /\ messages = {}
  /\ message = [m \in Message |-> [next |-> NULL, task_dst |-> Root]]
  /\ status = "running"
  /\ refused = {}
  /\ astray = FALSE

Stop(how) ==
  /\ status' = how
  /\ UNCHANGED <<tasks_number, inbox, message_queues, heap, refused>>

(* The last message of a queue points to a next one. *)
PointsBeyond(q) == queue[q].count > 0 /\ message[queue[q].tail].next # NULL

-----------------------------------------------------------------------------
(* Walks over linked lists. *)

(* The first n + 1 pointers of the list that starts at p. *)
PointersFrom(p, next, n) ==
  LET f[k \in 0 .. n] ==
        IF k = 0 THEN p
        ELSE IF f[k - 1] \in DOMAIN next THEN next[f[k - 1]] ELSE NULL
  IN f

(* The pointer at which a search of the list of queues Q stops, as a         *)
(* singleton; the empty set if it never does.                                *)
SearchEnds(Q, stops(_)) ==
  LET list == PointersFrom(message_queues, [q \in Queue |-> Q[q].next],
                           Cardinality(Queue))
  IN {list[k] : k \in {k \in DOMAIN list :
        stops(list[k]) /\ \A j \in 0 .. k - 1 : ~stops(list[j])}}

(* The messages of a list, and whether message_queue_free can free it. *)
ListFrom(p) ==
  PointersFrom(p, [m \in Message |-> message[m].next], Cardinality(Message))
MessagesAfter(p) ==                          \* a mutant
  {ListFrom(p)[k] : k \in DOMAIN ListFrom(p) \ {0}} \ {NULL}
MessagesFrom(p) == {ListFrom(p)[k] : k \in DOMAIN ListFrom(p)} \ {NULL}
EndsInNull(p) ==
  /\ MessagesFrom(p) \subseteq messages
  /\ \E k \in DOMAIN ListFrom(p) : ListFrom(p)[k] = NULL

-----------------------------------------------------------------------------
(* Creating and freeing inboxes. *)

(* The queues once the one at q is ready for task t. *)
CreatedInACircle(q, t) ==                    \* a mutant
  [queue EXCEPT ![q] = [EmptyQueue(t) EXCEPT !.next = message_queues]]

Created(q, t) == [queue EXCEPT ![q] = EmptyQueue(t)]

(* cpu_create_task_inbox: the queue of a new task goes to the end of the     *)
(* list.  The memory may be that of a queue that was freed, and is still in  *)
(* the list.                                                                 *)
CreateInbox ==
  LET t == tasks_number + 1 IN
  /\ Running
  /\ tasks_number < MAX_TASKS
  /\ \E q \in Queue \ inboxes :
       LET last == SearchEnds(Created(q, t),
                     LAMBDA p : p \notin inboxes \cup {q}
                                  \/ Created(q, t)[p].next = NULL)
       IN IF last \cap (inboxes \cup {q}) # {}
          THEN /\ tasks_number' = t
               /\ inbox' = [inbox EXCEPT ![t] = q]
               /\ inboxes' = inboxes \cup {q}
               /\ queue' = [p \in Queue |->
                              IF p \in last THEN [Created(q, t)[p] EXCEPT !.next = q]
                              ELSE Created(q, t)[p]]
               /\ UNCHANGED <<message_queues, messages, message, status, refused>>
          ELSE Stop(IF last = {} THEN "hung" ELSE "undefined")
  /\ UNCHANGED astray

(* message_queue_free for the inboxes of the tasks S, which end together:    *)
(* the messages from each head on are freed and then the queue, which stays  *)
(* in the list.                                                              *)
FreeInboxes(S) ==
  LET heads == [t \in S |-> queue[inbox[t]].head]
      gone == UNION {MessagesFrom(heads[t]) : t \in S}
  IN
  /\ Running
  /\ S \subseteq Tasks \ {Root}
  /\ astray' = (astray \/ \E t \in S : PointsBeyond(inbox[t]))
  /\ IF /\ \A t \in S : EndsInNull(heads[t])
        /\ \A s, t \in S :
             s # t => MessagesFrom(heads[s]) \cap MessagesFrom(heads[t]) = {}
     THEN /\ inbox' = [t \in TaskId |-> IF t \in S THEN NULL ELSE inbox[t]]
          /\ inboxes' = inboxes \ {inbox[t] : t \in S}
          /\ messages' = messages \ gone
          /\ refused' = refused \ gone
          /\ UNCHANGED <<tasks_number, message_queues, queue, message, status>>
     ELSE Stop("undefined")

-----------------------------------------------------------------------------
(* Sending. *)

InboxOf(d) ==
  SearchEnds(queue, LAMBDA p : p \notin inboxes \/ queue[p].task_id = d)

HasRoomForOneMore(q) ==                      \* a mutant
  queue[q].count <= TASK_MESSAGE_QUEUE_SIZE
HasRoom(q) == queue[q].count < TASK_MESSAGE_QUEUE_SIZE

(* The message m, whose next field is n, becomes the last of the queue. *)
EnqueuedAtTheHead(q, m, n) ==                \* a mutant
  /\ queue' = [queue EXCEPT ![q].head = m, ![q].count = @ + 1,
                            ![q].tail = IF queue[q].head = NULL THEN m ELSE @]
  /\ message' = [message EXCEPT ![m] =
                   [next |-> queue[q].head, task_dst |-> queue[q].task_id]]

EnqueuedTailLeftBehind(q, m, n) ==           \* a mutant
  /\ queue' = [queue EXCEPT ![q].head = IF @ = NULL THEN m ELSE @, ![q].count = @ + 1,
                            ![q].tail = IF queue[q].head = NULL THEN m ELSE @]
  /\ message' = [k \in Message |->
                   IF k = m THEN [next |-> n, task_dst |-> queue[q].task_id]
                   ELSE IF k = queue[q].tail THEN [message[k] EXCEPT !.next = m]
                   ELSE message[k]]

Enqueued(q, m, n) ==
  LET new == [next |-> n, task_dst |-> queue[q].task_id] IN
  IF queue[q].head = NULL
  THEN /\ queue' = [queue EXCEPT ![q].head = m, ![q].tail = m, ![q].count = @ + 1]
       /\ message' = [message EXCEPT ![m] = new]
  ELSE /\ queue' = [queue EXCEPT ![q].tail = m, ![q].count = @ + 1]
       /\ message' = [message EXCEPT ![m] = new, ![queue[q].tail].next = m]

(* deliver_local: a message at the new address m for task d. *)
DeliverLocal(m, n, d) ==
  /\ UNCHANGED astray
  /\ \/ /\ InboxOf(d) = {}
        /\ Stop("hung")
     \/ \E q \in InboxOf(d) :
       \/ /\ q = NULL                           \* "task %d not found": freed
          /\ UNCHANGED vars
       \/ /\ q \notin inboxes \cup {NULL}
          /\ Stop("undefined")
       \/ /\ q \in inboxes
          /\ ~HasRoom(q)                        \* "task %d inbox is full"
          /\ messages' = messages \cup {m}
          /\ message' = [message EXCEPT ![m] = [next |-> n, task_dst |-> d]]
          /\ refused' = refused \cup {m}
          /\ UNCHANGED <<tasks_number, inbox, message_queues, inboxes, queue, status>>
       \/ /\ q \in inboxes
          /\ HasRoom(q)
          /\ queue[q].head = NULL \/ queue[q].tail \in messages
          /\ Enqueued(q, m, n)
          /\ messages' = messages \cup {m}
          /\ UNCHANGED <<tasks_number, inbox, message_queues, inboxes, status, refused>>
       \/ /\ q \in inboxes
          /\ HasRoom(q)
          /\ queue[q].head # NULL /\ queue[q].tail \notin messages
          /\ Stop("undefined")

(* A task executes SEND_MESSAGE: message_create leaves next as it found it.  *)
SendMessage(d) ==
  /\ Running
  /\ \E m \in Message \ messages, n \in Leftover : DeliverLocal(m, n, d)

(* A message arrives at the server: message_deserialize clears next. *)
ReceiveMessage(d) ==
  /\ Running
  /\ \E m \in Message \ messages : DeliverLocal(m, NULL, d)

-----------------------------------------------------------------------------
(* Handling. *)

(* One turn of the loop of cpu_process_context_inbox, for task t.            *)
ProcessMessage(t) ==
  LET q == inbox[t]
      m == queue[q].head
  IN
  /\ Running
  /\ t \in Tasks
  /\ queue[q].count > 0
  /\ astray' = (astray \/ (queue[q].count = 1 /\ PointsBeyond(q)))
  /\ IF m \in messages
     THEN /\ queue' = [queue EXCEPT ![q].head = message[m].next,
                                    ![q].count = queue[q].count - 1]
          /\ messages' = messages \ {m}
          /\ refused' = refused \ {m}
          /\ UNCHANGED <<tasks_number, inbox, message_queues, inboxes, message, status>>
     ELSE Stop("undefined")

-----------------------------------------------------------------------------

Stopped == ~Running /\ UNCHANGED vars

Next ==
  \/ CreateInbox
  \/ \E S \in SUBSET Tasks : S \cap Enders # {} /\ FreeInboxes(S)
  \/ \E d \in TaskId : SendMessage(d) \/ ReceiveMessage(d)
  \/ \E t \in TaskId : ProcessMessage(t)
  \/ Stopped

Spec == Init /\ [][Next]_vars

-----------------------------------------------------------------------------
(* Properties. *)

Pointer == Message \cup {NULL, Wild}

TypeOK ==
  /\ tasks_number \in 0 .. MAX_TASKS
  /\ inbox \in [TaskId -> Queue \cup {NULL}]
  /\ message_queues \in Queue
  /\ inboxes \subseteq Queue
  /\ queue \in [Queue -> [next : Queue \cup {NULL}, task_id : TaskId,
                          head : Pointer, tail : Pointer,
                          count : 0 .. TASK_MESSAGE_QUEUE_SIZE]]
  /\ messages \subseteq Message
  /\ message \in [Message -> [next : Pointer, task_dst : TaskId]]
  /\ status \in {"running", "undefined", "hung"}
  /\ refused \subseteq Message /\ astray \in BOOLEAN

(* The messages of an inbox, in the order they will be processed. *)
Mail ==
  [t \in TaskId |->
     IF inbox[t] = NULL THEN <<>>
     ELSE [k \in 1 .. queue[inbox[t]].count |-> ListFrom(queue[inbox[t]].head)[k - 1]]]

(* As long as no list has been followed beyond its last message, the inbox   *)
(* of every task is a well-formed one: as many messages as it counts, all of *)
(* them allocated and addressed to the task, the last one is its tail, and   *)
(* no message is in it twice or in another inbox too (deliver_local,         *)
(* cpu_process_context_inbox).                                               *)
InboxLinked ==
  ~astray =>
    /\ \A t \in Tasks :
         LET q == queue[inbox[t]] IN
         /\ q.task_id = t
         /\ q.count = 0 <=> q.head = NULL
         /\ q.count > 0 => q.tail = Mail[t][q.count]
         /\ \A i \in DOMAIN Mail[t] :
              Mail[t][i] \in messages /\ message[Mail[t][i]].task_dst = t
    /\ \A s, t \in Tasks : \A i \in DOMAIN Mail[s], j \in DOMAIN Mail[t] :
         Mail[s][i] = Mail[t][j] => s = t /\ i = j

(* Until then a message that is allocated is waiting in an inbox, or was     *)
(* refused by a full one: deliver_local and cpu_process_context_inbox free   *)
(* all others.                                                               *)
KeptOrRefused ==
  Running /\ ~astray =>
    messages = refused \cup {m \in Message :
                               \E t \in Tasks : \E i \in DOMAIN Mail[t] : Mail[t][i] = m}

(* No step touches a Message or MessageQueue that was freed, or follows a    *)
(* pointer to neither (message_create, deliver_local, message_queue_free).   *)
NeverUndefined == status # "undefined"

(* Until then, and while every task that was started is still there, each    *)
(* search for an inbox ends, at one that exists or at the end of the list,   *)
(* and every list of messages is sound (deliver_local,                       *)
(* cpu_create_task_inbox, message_queue_free).                               *)
SearchesSucceed == ~astray /\ Tasks = 0 .. tasks_number => Running

(* Until then the linked lists implement mailboxes: messages are accepted up *)
(* to the limit, and handed to their task once each in the order they came.  *)
Promise == INSTANCE Mailbox
             WITH Task <- TaskId, Main <- Root, Letter <- Message,
                  Capacity <- TASK_MESSAGE_QUEUE_SIZE,
                  open <- Tasks, mail <- Mail
DeliversInOrder == Promise!Init /\ [][Promise!Next \/ astray']_Promise!vars

=============================================================================
