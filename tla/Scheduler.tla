------------------------------ MODULE Scheduler ------------------------------
(***************************************************************************)
(* The task scheduler of the virtual machine: the tree of tasks            *)
(* (tasktree.c, task.c) and the loop that walks it, giving every task it   *)
(* meets a slice of at most CONTEXT_MAX_CYCLES instructions (cpu_run,      *)
(* cpu_run_cycle and the context switch of cpu.c).                         *)
(*                                                                         *)
(* The walk is a recursive C function: `frames' is its call stack, one     *)
(* record per active call with the node it visits and its loop index i.    *)
(* Instructions change the tree while the walk is in progress: ASYNC_CALL  *)
(* appends a child to the running node, ASYNC_RETURN frees the running     *)
(* node and closes the gap in its parent's list, under the loop index of   *)
(* the parent's frame.                                                     *)
(*                                                                         *)
(* What is abstracted: an instruction that does not touch tasks only moves *)
(* the instruction pointer or ends the process; a pending message shows    *)
(* only as the pointer starting at the task's message handler (Messaging   *)
(* has the queues).  A node's memory is its identifier: `live' tells the   *)
(* nodes that are allocated, and parent, children and task keep the stale  *)
(* contents of those that were freed.                                      *)
(***************************************************************************)
EXTENDS Naturals, Sequences, FiniteSets, SequencesExt, Functions

CONSTANTS
  MAX_TASKS,            \* task.h: how many tasks can be created besides main
  CONTEXT_MAX_CYCLES,   \* cpu.h: instructions in a slice
  Address,              \* addresses of program memory
  Returners,            \* tasks whose code contains ASYNC_RETURN
  OrphanReturns,        \* TRUE: a task may end while tasks it started live
  NULL                  \* the null pointer

TaskId == 0 .. MAX_TASKS
Root == 0

ASSUME SchedulerAssumption ==
  /\ MAX_TASKS \in Nat
  /\ CONTEXT_MAX_CYCLES \in Nat \ {0}
  /\ Address \subseteq Nat
  /\ 0 \in Address
  /\ Returners \subseteq TaskId
  /\ OrphanReturns \in BOOLEAN
  /\ NULL \notin TaskId

VARIABLES
  tasks_number,   \* CPU.tasks_number: tasks created so far, main not counted
  live,           \* nodes (and their tasks) that are allocated
  parent,         \* TaskTreeNode.parent
  children,       \* TaskTreeNode.children[0 .. childCount - 1]
  task,           \* Task.ip, Task.active, Task.message_handler_address
  current,        \* CPU.task_tree_current_node
  ip,             \* CPU.ip
  frames,         \* the calls of task_tree_traverse_dfs in progress
  cycles,         \* cpu_run_cycle's instruction budget
  phase,          \* where the interpreter's loop stands
  seen,           \* history: the tasks given a slice in this round
  returns         \* history: the ASYNC_RETURNs executed in this round

treeVars == <<tasks_number, live, parent, children>>
vars == <<tasks_number, live, parent, children, task, current, ip, frames,
          cycles, phase, seen, returns>>

Running == {"idle", "enter", "slice", "scan"}
Stopped == {"halted", "failed", "undefined"}

(* A call of task_tree_traverse_dfs: the node it visits, its loop index. *)
Frame == [node : TaskId, i : Nat]

Top == frames[Len(frames)]

-----------------------------------------------------------------------------
(* Initial state: cpu_create and cpu_load_program. *)

Init ==
  /\ tasks_number = 0
  /\ live = {Root}
  /\ parent = [t \in TaskId |-> NULL]
  /\ children = [t \in TaskId |-> <<>>]
  /\ task = [t \in TaskId |->
               [ip |-> 0, active |-> FALSE, message_handler_address |-> 0]]
  /\ current = Root
  /\ ip = 0
  /\ frames = <<>>
  /\ cycles = 0
  /\ phase = "idle"
  /\ seen = {}
  /\ returns = 0

-----------------------------------------------------------------------------
(* The tree. *)

(* The nodes task_tree_free reaches from n: n and all its descendants. *)
ClosedUnderChildren(S) == \A p \in S : Range(children[p]) \subseteq S
Subtree(n) ==
  {m \in live : \A S \in SUBSET live : n \in S /\ ClosedUnderChildren(S) => m \in S}

AddChildInFront(p, c) ==
  /\ children' = [children EXCEPT ![p] = <<c>> \o @]
  /\ parent' = [parent EXCEPT ![c] = p]

AddChild(p, c) ==
  /\ children' = [children EXCEPT ![p] = Append(@, c)]
  /\ parent' = [parent EXCEPT ![c] = p]

(* A node is freed with its subtree; its siblings move down one place. *)
RemoveChildWithoutUnlinking(c) ==
  /\ children' = children
  /\ live' = live \ Subtree(c)

RemoveChild(c) ==
  /\ \E i \in DOMAIN children[parent[c]] :
       /\ children[parent[c]][i] = c
       /\ \A j \in 1 .. i - 1 : children[parent[c]][j] # c
       /\ children' = [children EXCEPT ![parent[c]] = RemoveAt(@, i)]
  /\ live' = live \ Subtree(c)

-----------------------------------------------------------------------------
(* The walk. *)

(* cpu_run: start another traversal at the root. *)
StartRound ==
  /\ phase = "idle"
  /\ frames' = <<[node |-> Root, i |-> 0]>>
  /\ phase' = "enter"
  /\ seen' = {}
  /\ returns' = 0
  /\ UNCHANGED <<treeVars, task, current, ip, cycles>>

(* The task structures after cpu_context_switch to node n. *)
SwitchedToStillActive(n) ==
  [task EXCEPT ![current].ip = ip, ![n].active = TRUE]
SwitchedToUnsaved(n) ==
  [task EXCEPT ![current].active = FALSE, ![n].active = TRUE]

SwitchedTo(n) ==
  [task EXCEPT ![current].active = FALSE, ![current].ip = ip,
               ![n].active = TRUE]

(* The pointer the task was left at, before any message is handled. *)
ResumeAddress(n) == IF n = current THEN ip ELSE task[n].ip

(* cpu_run_cycle up to its loop: switch to the node, then handle its inbox.  *)
(* With messages waiting and a handler registered the task goes on in the    *)
(* handler.                                                                  *)
RunCycle ==
  LET n == Top.node IN
  /\ phase = "enter"
  /\ task' = SwitchedTo(n)
  /\ ip' \in {ResumeAddress(n)} \cup ({task[n].message_handler_address} \ {0})
  /\ current' = n
  /\ cycles' = CONTEXT_MAX_CYCLES
  /\ phase' = "slice"
  /\ seen' = seen \cup {n}
  /\ UNCHANGED <<treeVars, frames, returns>>

MoreChildrenButLast == Top.i + 1 < Len(children[Top.node])
MoreChildren == Top.i < Len(children[Top.node])

(* The frames left when the innermost call returns: its caller's i++. *)
CallerSameIndex == Front(frames)
CallerNextIndex == [Front(frames) EXCEPT ![Len(frames) - 1].i = @ + 1]

(* The loop of task_tree_traverse_dfs finds another child ... *)
Descend ==
  /\ phase = "scan"
  /\ Top.node \in live
  /\ MoreChildren
  /\ frames' = Append(frames,
                      [node |-> children[Top.node][Top.i + 1], i |-> 0])
  /\ phase' = "enter"
  /\ UNCHANGED <<treeVars, task, current, ip, cycles, seen, returns>>

(* ... or is done with this node, and its caller's loop moves on. *)
Ascend ==
  /\ phase = "scan"
  /\ ~MoreChildren
  /\ IF Len(frames) = 1
     THEN /\ frames' = <<>>
          /\ phase' = "idle"
     ELSE /\ frames' = CallerNextIndex
          /\ phase' = "scan"
  /\ UNCHANGED <<treeVars, task, current, ip, cycles, seen, returns>>

(* The task of this frame freed itself and had children: the loop reads a   *)
(* child list that is freed memory.  Nothing is said of what follows.       *)
ReadFreedChildren ==
  /\ phase = "scan"
  /\ Top.node \notin live
  /\ MoreChildren
  /\ phase' = "undefined"
  /\ UNCHANGED <<treeVars, task, current, ip, frames, cycles, seen, returns>>

-----------------------------------------------------------------------------
(* Instructions. *)

(* The end of an instruction that leaves the pointer at a. *)
EndInstructionUncounted(a) ==
  /\ ip' = a
  /\ UNCHANGED <<cycles, phase>>

EndInstruction(a) ==
  /\ ip' = a
  /\ cycles' = cycles - 1
  /\ phase' = IF cycles = 1 THEN "scan" ELSE "slice"

(* Any instruction that neither touches tasks nor ends the process. *)
Execute ==
  /\ phase = "slice"
  /\ \E a \in Address : EndInstruction(a)
  /\ UNCHANGED <<treeVars, task, current, frames, seen, returns>>

LimitReachedOneLater == tasks_number = MAX_TASKS + 1
LimitReached == tasks_number = MAX_TASKS

(* ASYNC_CALL: a new task at address a with message handler h, a child of    *)
(* the running one.                                                          *)
AsyncCall ==
  LET id == tasks_number + 1 IN
  /\ phase = "slice"
  /\ ~LimitReached
  /\ tasks_number' = id
  /\ live' = live \cup {id}
  /\ AddChild(current, id)
  /\ \E a, h, next \in Address :
       /\ task' = [task EXCEPT ![id] =
                     [ip |-> a, active |-> FALSE, message_handler_address |-> h]]
       /\ EndInstruction(next)
  /\ UNCHANGED <<current, frames, seen, returns>>

(* ASYNC_CALL once MAX_TASKS tasks have been created: "reached max tasks". *)
AsyncCallRefused ==
  /\ phase = "slice"
  /\ LimitReached
  /\ \E next \in Address : EndInstruction(next)
  /\ UNCHANGED <<treeVars, task, current, frames, seen, returns>>

(* ASYNC_RETURN: the running task is freed and its slice is over.  CPU.ip    *)
(* and CPU.task_tree_current_node keep their values.                         *)
AsyncReturn ==
  /\ phase = "slice"
  /\ current \in Returners \ {Root}
  /\ OrphanReturns \/ children[current] = <<>>
  /\ RemoveChild(current)
  /\ \E a \in Address : ip' = a
  /\ phase' = "scan"
  /\ returns' = returns + 1
  /\ UNCHANGED <<tasks_number, parent, task, current, frames, cycles, seen>>

(* ASYNC_RETURN in the main task: the root has no parent to be removed from, *)
(* task_tree_remove_child dereferences NULL.                                 *)
AsyncReturnOfMain ==
  /\ phase = "slice"
  /\ current = Root
  /\ Root \in Returners
  /\ phase' = "undefined"
  /\ UNCHANGED <<treeVars, task, current, ip, frames, cycles, seen, returns>>

(* The process is gone: HALT frees the tree and exits, a failed check in an  *)
(* instruction or in the call of a handler exits at once.                    *)
Exit(p) ==
  /\ phase' = p
  /\ live' = {}
  /\ UNCHANGED <<tasks_number, parent, children, task, current, ip, frames,
                 cycles, seen, returns>>

Halt == phase = "slice" /\ Exit("halted")
Fail == phase \in {"enter", "slice"} /\ Exit("failed")

Gone == phase \in Stopped /\ UNCHANGED vars

Next ==
  \/ StartRound \/ RunCycle \/ Descend \/ Ascend \/ ReadFreedChildren
  \/ Execute \/ AsyncCall \/ AsyncCallRefused
  \/ AsyncReturn \/ AsyncReturnOfMain
  \/ Halt \/ Fail \/ Gone

Spec == Init /\ [][Next]_vars

(* The interpreter is one thread that never waits: while the process lives,  *)
(* it takes its next step.                                                   *)
FairSpec == Spec /\ WF_vars(Next)

-----------------------------------------------------------------------------
(* Invariants. *)

TypeOK ==
  /\ tasks_number \in 0 .. MAX_TASKS
  /\ live \subseteq TaskId
  /\ parent \in [TaskId -> TaskId \cup {NULL}]
  /\ children \in [TaskId -> Seq(TaskId)]
  /\ task \in [TaskId -> [ip : Address, active : BOOLEAN,
                          message_handler_address : Address]]
  /\ current \in TaskId
  /\ ip \in Address
  /\ frames \in Seq(Frame)
  /\ frames = <<>> <=> phase = "idle"
  /\ cycles \in 0 .. CONTEXT_MAX_CYCLES
  /\ phase = "slice" => cycles > 0
  /\ phase \in Running \cup Stopped
  /\ seen \subseteq TaskId
  /\ returns \in Nat

(* The tree links agree: while the process lives the root is allocated, the  *)
(* parent of an allocated node is allocated, and the child list of an        *)
(* allocated node holds exactly its allocated children, in the order they    *)
(* were created (task_tree_add_child, task_tree_remove_child,                *)
(* task_tree_free).                                                          *)
TreeConsistent ==
  /\ phase \notin {"halted", "failed"} => Root \in live
  /\ \A c \in live \ {Root} : parent[c] \in live /\ parent[c] < c
  /\ \A p \in live :
       /\ Range(children[p]) = {c \in live \ {Root} : parent[c] = p}
       /\ \A i, j \in DOMAIN children[p] :
            i < j => children[p][i] < children[p][j]

(* The recursion of task_tree_traverse_dfs stands on a path of the tree that *)
(* starts at the root.  Every call but the innermost works on an allocated   *)
(* node; the innermost does too, until its task ends itself.                 *)
WalkFollowsTree ==
  phase \in Running =>
    /\ \A k \in DOMAIN frames :
         /\ k = 1 => frames[k].node = Root
         /\ k > 1 => frames[k].node # Root /\ parent[frames[k].node] = frames[k - 1].node
         /\ k < Len(frames) \/ phase \in {"enter", "slice"} => frames[k].node \in live

(* At most one allocated task is marked active, and during a slice it is the *)
(* task the interpreter executes (cpu_context_switch, cpu_set_task_node).    *)
OneActiveTask ==
  /\ \A t \in live : task[t].active => t = current
  /\ phase = "slice" => current = Top.node /\ task[current].active

(* No task gets two slices in one traversal, whatever tasks are created and  *)
(* freed under the loop indices of task_tree_traverse_dfs.                   *)
OneSliceARound == phase = "enter" => Top.node \notin seen

(* A child list is read out of freed memory only when a task ended with      *)
(* children, or main executed ASYNC_RETURN; in other programs it never is.   *)
NeverUndefined == phase # "undefined"

-----------------------------------------------------------------------------
(* Action properties. *)

RoundEnds == phase = "scan" /\ phase' = "idle"

(* A traversal that ends has skipped at most one subtree for every           *)
(* ASYNC_RETURN executed in it: task_tree_remove_child moves the next        *)
(* sibling under the caller's loop index, which is then incremented.         *)
SkipsBoundedByReturns ==
  [][RoundEnds =>
       Cardinality({t \in live \ seen : parent[t] \in seen}) <= returns]_vars

-----------------------------------------------------------------------------
(* Liveness. *)

(* A task that exists gets a slice, ends, or the process exits, in spite of  *)
(* the siblings that are skipped when tasks end: cpu_run walks the tree      *)
(* again and again.                                                          *)
EveryTaskRuns ==
  \A t \in TaskId :
    t \in live ~> (phase = "slice" /\ current = t) \/ t \notin live

-----------------------------------------------------------------------------
(* The scheduler implements ConcurrentTasks: the counter of the task that is *)
(* switched in is CPU.ip, those of the others are saved in their Task.       *)

TaskPC ==
  [t \in TaskId |-> IF t \notin live THEN 0
                    ELSE IF t = current THEN ip ELSE task[t].ip]

Promise == INSTANCE ConcurrentTasks
             WITH Task <- TaskId, Main <- Root, tasks <- live, pc <- TaskPC

(* Switching tasks in and out loses no task's place: for the program every   *)
(* task runs on a program counter of its own (cpu_context_switch).           *)
IndependentTasks == Promise!Spec

=============================================================================
