------------------------------- MODULE Memory -------------------------------
(***************************************************************************)
(* What the machine allocates and what it believes it has allocated        *)
(* (sys.c, and the constructors and destructors that call it).  The memory *)
(* itself is a set of blocks.  vmmalloc and vmcalloc add their size to a   *)
(* 16-bit counter, which a program can read with SYSCALL 4; vmfree is told *)
(* the size by its caller and takes that off.  Lists of children come from *)
(* realloc and are not counted.                                            *)
(*                                                                         *)
(* Tasks, inboxes and the server appear as far as they allocate and free:  *)
(* when and where tasks run is in Scheduler and VirtualMachine, what the   *)
(* lists of inboxes look like in Messaging.  As there, a search that comes *)
(* to the inbox of a task that has ended is undefined.                     *)
(***************************************************************************)
EXTENDS Server, Integers, FiniteSets

CONSTANTS
  MAX_TASKS, TASK_MESSAGE_QUEUE_SIZE, PORTS, OPSTACK_SIZE, STACK_SIZE,
  SizeOf,     \* sizeof of the structures
  Limit,      \* the counter's numbers: 2^16
  Message,    \* addresses of messages
  PayloadSizes  \* the sizes of the payloads tasks send

TaskId == 0 .. MAX_TASKS
Root == 0
Cpu == -1        \* the owner of what belongs to no task and no message

Structures == {"CPU", "PortBank", "Pointer", "Server", "Task", "Stack",
               "TaskTreeNode", "MessageQueue", "Message"}

ASSUME MemoryAssumption ==
  /\ MAX_TASKS \in Nat /\ TASK_MESSAGE_QUEUE_SIZE \in Nat
  /\ PORTS \in Nat /\ OPSTACK_SIZE \in Nat /\ STACK_SIZE \in Nat
  /\ SizeOf \in [Structures -> Nat]
  /\ Limit \in Nat \ {0}
  /\ Message \cap (TaskId \cup {Cpu}) = {}
  /\ PayloadSizes \subseteq Word

VARIABLES
  phase,         \* "off", "running", "undefined" or "exited"
  server,        \* whether server_create succeeded
  tasks_number, live, parent,
  childCapacity, \* how many pointers there is room for in the list of children
  inbox,         \* the messages of each task, oldest first
  message,       \* payload_size, and the bytes of the payload there really are
  blocks,        \* the memory allocated
  dynamic_memory_usage,
  refused,       \* history: messages a full inbox did not take
  miscounted     \* history: something was freed that had never been counted

taskVars == <<tasks_number, live, parent, childCapacity>>
memory == <<blocks, dynamic_memory_usage>>
machineVars == <<phase, server, taskVars, inbox, message, memory, refused, miscounted>>
vars == <<serverVars, machineVars>>

Block(owner, what, size) == [owner |-> owner, what |-> what, size |-> size]
BytesOf(bs) == UNION {{b} \X (1 .. b.size) : b \in bs}
Total(bs) == Cardinality(BytesOf(bs))
Same(b, c) == b.owner = c.owner /\ b.what = c.what

(* vmmalloc and vmcalloc for the blocks `new', realloc for those `moved',     *)
(* then vmfree for those `old' names, with the sizes it gives; a null        *)
(* pointer names no block.                                                   *)
Reallocate(new, moved, old) ==
  /\ blocks' = moved \cup {b \in blocks \cup new : \A c \in moved \cup old : ~Same(b, c)}
  /\ dynamic_memory_usage' =
       (dynamic_memory_usage + Total(new) + Limit * Cardinality(old) - Total(old)) % Limit
Account(new, old) == Reallocate(new, {}, old)

-----------------------------------------------------------------------------
(* Constructors and destructors. *)

StackBlocks(t) ==      \* a Stack and its bytes are freed together: one block
  {Block(t, "opstack", SizeOf.Stack + OPSTACK_SIZE),
   Block(t, "stack", SizeOf.Stack + STACK_SIZE)}

TaskBlocks(t) ==                             \* task_create, with node and inbox
  {Block(t, "Task", SizeOf.Task), Block(t, "node", SizeOf.TaskTreeNode),
   Block(t, "queue", SizeOf.MessageQueue)} \cup StackBlocks(t)

MessageBlocks(m, size) == {Block(m, "Message", SizeOf.Message), Block(m, "payload", size)}

MachineBlocks(served) ==                     \* cpu_create
  {Block(Cpu, "CPU", SizeOf.CPU), Block(Cpu, "bank", SizeOf.PortBank),
   Block(Cpu, "ports", PORTS * SizeOf.Pointer)}
    \cup IF served THEN {Block(Cpu, "server", SizeOf.Server)} ELSE {}

MessageFreesOfPointers(m) ==                 \* a mutant
  {Block(m, "Message", SizeOf.Pointer), Block(m, "payload", message[m].payload_size)}
MessageFrees(m) == MessageBlocks(m, message[m].payload_size)
InboxFrees(t) ==
  {Block(t, "queue", SizeOf.MessageQueue)} \cup UNION {MessageFrees(m) : m \in Range(inbox[t])}

TaskFreesButMessages(t) ==                   \* a mutant
  {Block(t, "Task", SizeOf.Task), Block(t, "queue", SizeOf.MessageQueue)} \cup StackBlocks(t)

TaskFrees(t) ==                              \* task_free
  {Block(t, "Task", SizeOf.Task)} \cup InboxFrees(t) \cup StackBlocks(t)

(* The list of the children of a task, which task_tree_add_child reallocates *)
(* when it is full.                                                          *)
ChildCount(t) == Cardinality({c \in live : c # Root /\ parent[c] = t})
ListBlocks(t, capacity) ==
  IF capacity = 0 THEN {} ELSE {Block(t, "children", capacity * SizeOf.Pointer)}
CapacityForOneMore(t) ==
  IF ChildCount(t) < childCapacity[t] THEN childCapacity[t]
  ELSE IF childCapacity[t] = 0 THEN 2 ELSE 2 * childCapacity[t]

(* The list is freed as if it held the nodes of its children.                *)
TreeFrees(S) ==                              \* task_tree_free
  (UNION {TaskFrees(t) : t \in S})
    \cup {Block(t, "children", SizeOf.TaskTreeNode * ChildCount(t)) : t \in S}
    \cup {Block(t, "node", SizeOf.TaskTreeNode) : t \in S}

MachineFrees ==                              \* cpu_free
  {Block(Cpu, "ports", PORTS), Block(Cpu, "bank", SizeOf.PortBank),
   Block(Cpu, "CPU", SizeOf.CPU)} \cup TreeFrees(live)

ClosedUnderChildren(S) == \A c \in live \ {Root} : parent[c] \in S => c \in S
Subtree(t) ==
  {c \in live : \A S \in SUBSET live : t \in S /\ ClosedUnderChildren(S) => c \in S}

NoPayload == [payload_size |-> 0, held |-> 0]
IsTruncated(msg) == msg.held < msg.payload_size

-----------------------------------------------------------------------------
Init ==
  /\ ServerInit
  /\ phase = "off"
  /\ server = FALSE
  /\ tasks_number = 0
  /\ live = {}
  /\ parent = [t \in TaskId |-> Root]
  /\ childCapacity = [t \in TaskId |-> 0]
  /\ inbox = [t \in TaskId |-> <<>>]
  /\ message = [m \in Message |-> NoPayload]
  /\ blocks = {}
  /\ dynamic_memory_usage = 0
  /\ refused = {}
  /\ miscounted = FALSE

(* The process ends, and with it all but the memory. *)
Ends ==
  /\ reading' = NULL
  /\ arrived' = 0
  /\ closed' = FALSE
  /\ server' = FALSE
  /\ tasks_number' = 0
  /\ live' = {}
  /\ parent' = [t \in TaskId |-> Root]
  /\ childCapacity' = [t \in TaskId |-> 0]
  /\ inbox' = [t \in TaskId |-> <<>>]
  /\ message' = [m \in Message |-> NoPayload]
  /\ miscounted' = FALSE

(* cpu_create and cpu_load_program.  server_create returns NULL where the    *)
(* port is taken.                                                            *)
Start ==
  /\ phase = "off"
  /\ server' \in BOOLEAN
  /\ phase' = "running"
  /\ live' = {Root}
  /\ Account(MachineBlocks(server') \cup TaskBlocks(Root), {})
  /\ UNCHANGED <<serverVars, tasks_number, parent, childCapacity, inbox, message, refused,
                 miscounted>>

Working == phase = "running" /\ reading = NULL

Stop ==
  /\ phase' = "undefined"
  /\ Ends
  /\ blocks' = {}
  /\ dynamic_memory_usage' = 0
  /\ refused' = {}

(* Searches follow the list of inboxes in the order they were created. *)
Ended == (1 .. tasks_number) \ live
Broken(d) == \E t \in Ended : d \in live => t < d

-----------------------------------------------------------------------------
(* Tasks. *)

AsyncCall ==
  LET t == tasks_number + 1 IN
  /\ Working
  /\ tasks_number < MAX_TASKS
  /\ IF Ended # {} THEN Stop
     ELSE \E p \in live :
       /\ tasks_number' = t
       /\ live' = live \cup {t}
       /\ parent' = [parent EXCEPT ![t] = p]
       /\ childCapacity' = [childCapacity EXCEPT ![p] = CapacityForOneMore(p)]
       /\ Reallocate(TaskBlocks(t), ListBlocks(p, CapacityForOneMore(p)), {})
       /\ UNCHANGED <<serverVars, phase, server, inbox, message, refused, miscounted>>

AsyncReturn ==
  \E t \in live \ {Root} :
    LET gone == Subtree(t)
        mail == UNION {Range(inbox[g]) : g \in gone}
    IN
    /\ Working
    /\ live' = live \ gone
    /\ inbox' = [g \in TaskId |-> IF g \in gone THEN <<>> ELSE inbox[g]]
    /\ Account({}, TreeFrees(gone))
    /\ parent' = [g \in TaskId |-> IF g \in gone THEN Root ELSE parent[g]]
    /\ childCapacity' = [g \in TaskId |-> IF g \in gone THEN 0 ELSE childCapacity[g]]
    /\ message' = [m \in Message |-> IF m \in mail THEN NoPayload ELSE message[m]]
    /\ miscounted' = (miscounted \/ (\E g \in gone : ChildCount(g) > 0)
                                \/ \E m \in mail : IsTruncated(message[m]))
    /\ UNCHANGED <<serverVars, phase, server, tasks_number, refused>>

(* What is left allocated when HALT has freed the machine. *)
Halt ==
  /\ Working
  /\ phase' = "exited"
  /\ Account({}, MachineFrees)
  /\ Ends
  /\ UNCHANGED refused

-----------------------------------------------------------------------------
(* Messages. *)

(* It makes no difference which address a message gets. *)
FreeAddresses == {m \in Message : \A b \in blocks : b.owner # m}
NewAddress == CHOOSE m \in FreeAddresses : TRUE

HasRoomForOneMore(d) == Len(inbox[d]) <= TASK_MESSAGE_QUEUE_SIZE   \* a mutant
HasRoom(d) == Len(inbox[d]) < TASK_MESSAGE_QUEUE_SIZE

(* deliver_local for a new message at m with the blocks `new', unless the    *)
(* search for d is broken.  A full inbox leaves it where it is; a task that  *)
(* does not exist has it freed.                                              *)
Deliver(m, new, msg, d) ==
  /\ message' = [message EXCEPT ![m] = IF d \in live THEN msg ELSE NoPayload]
  /\ \/ /\ d \in live /\ HasRoom(d)
        /\ inbox' = [inbox EXCEPT ![d] = Append(@, m)]
        /\ Account(new, {})
        /\ UNCHANGED <<refused, miscounted>>
     \/ /\ d \in live /\ ~HasRoom(d)
        /\ refused' = refused \cup {m}
        /\ Account(new, {})
        /\ UNCHANGED <<inbox, miscounted>>
     \/ /\ d \notin live
        /\ Account(new, MessageBlocks(m, msg.payload_size))
        /\ miscounted' = (miscounted \/ IsTruncated(msg))
        /\ UNCHANGED <<inbox, refused>>

(* SYSCALL 3. *)
Send ==
  \E d \in TaskId, n \in PayloadSizes :
    LET m == NewAddress IN
    /\ Working
    /\ FreeAddresses # {}
    /\ IF Broken(d) THEN Stop
       ELSE /\ Deliver(m, MessageBlocks(m, n), [payload_size |-> n, held |-> n], d)
            /\ UNCHANGED <<serverVars, phase, server, taskVars>>

(* cpu_check_incoming_messages, up to the read of the client's bytes.        *)
(* Bound of the model: there is an address for one more message.             *)
Poll ==
  /\ Working
  /\ FreeAddresses # {}
  /\ IF server
     THEN Accept /\ UNCHANGED machineVars
     ELSE Stop

Receive ==
  LET r == Received IN
  /\ CanRead
  /\ \/ /\ r = NULL
        /\ Read
        /\ UNCHANGED machineVars
     \/ /\ r # NULL /\ ~Broken(r.task_dst)
        /\ Read
        /\ LET m == NewAddress
               held == Len(r.payload)
               new == {Block(m, "Message", SizeOf.Message)}
                        \cup IF held > 0 THEN {Block(m, "payload", held)} ELSE {}
           IN Deliver(m, new, [payload_size |-> r.payload_size, held |-> held], r.task_dst)
        /\ UNCHANGED <<phase, server, taskVars>>
     \/ /\ r # NULL /\ Broken(r.task_dst)
        /\ Stop

(* One turn of the loop of cpu_process_context_inbox. *)
ProcessMessage ==
  \E t \in live :
    /\ Working
    /\ inbox[t] # <<>>
    /\ LET m == Head(inbox[t]) IN
         /\ Account({}, MessageFrees(m))
         /\ message' = [message EXCEPT ![m] = NoPayload]
         /\ miscounted' = (miscounted \/ IsTruncated(message[m]))
    /\ inbox' = [inbox EXCEPT ![t] = Tail(@)]
    /\ UNCHANGED <<serverVars, phase, server, taskVars, refused>>

Outside == (Arrive \/ Close) /\ UNCHANGED machineVars

Machine ==
  \/ Start \/ AsyncCall \/ AsyncReturn \/ Halt
  \/ Send \/ Poll \/ Receive \/ ProcessMessage

Gone == phase \in {"undefined", "exited"} /\ UNCHANGED vars

Next == Machine \/ Outside \/ Gone

Spec == Init /\ [][Next]_vars

(* The machine is one thread that never rests.  Clients owe it nothing. *)
FairSpec == Spec /\ WF_vars(Machine)

-----------------------------------------------------------------------------
(* Properties. *)

TypeOK ==
  /\ phase \in {"off", "running", "undefined", "exited"}
  /\ server \in BOOLEAN
  /\ reading = NULL \/ reading.payload_size \in 0 .. B * B - 1
  /\ tasks_number \in TaskId /\ live \subseteq TaskId /\ parent \in [TaskId -> TaskId]
  /\ childCapacity \in [TaskId -> Nat]
  /\ \A t \in TaskId : /\ Range(inbox[t]) \subseteq Message
                      /\ Len(inbox[t]) <= TASK_MESSAGE_QUEUE_SIZE
  /\ dynamic_memory_usage \in 0 .. Limit - 1

(* The counter is the memory in use without the lists of children, up to its *)
(* width, as long as no task has ended before its children and no message    *)
(* has come without its payload (vmmalloc, vmcalloc and vmfree with the      *)
(* sizes their callers give, among the lists that realloc and vmfree treat   *)
(* differently).                                                             *)
Counted(bs) == {b \in bs : b.what # "children"}
UsageIsExact ==
  phase = "running" /\ miscounted = FALSE =>
    dynamic_memory_usage = Total(Counted(blocks)) % Limit

Queued == UNION {Range(inbox[t]) : t \in live}

(* All memory belongs to something that exists, and nothing that exists has  *)
(* lost its own, nor the list of its children, which has room for them all;  *)
(* the exceptions are messages a full inbox refused.  HALT returns           *)
(* everything but those and the server (task_tree_add_child, task_tree_free, *)
(* task_free, message_queue_free, deliver_local, cpu_free).                  *)
NothingLeaks ==
  /\ phase = "running" =>
       /\ {b.owner : b \in blocks} = {Cpu} \cup live \cup Queued \cup refused
       /\ \A t \in live : /\ TaskBlocks(t) \cup ListBlocks(t, childCapacity[t]) \subseteq blocks
                          /\ ChildCount(t) <= childCapacity[t]
       /\ Queued \cap refused = {}
  /\ phase = "exited" =>
       \A b \in blocks : b.owner \in refused \/ b.what = "server"

(* The machine does not wait for ever for what a client will send: it "makes *)
(* the client unblocking" before it reads (server_receive_message).          *)
PollReturns == reading # NULL ~> reading = NULL

=============================================================================
