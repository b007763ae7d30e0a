# A verification development for SimpleStackMachine

SimpleStackMachine is a byte-code virtual machine for microcontrollers and
desktops: a C interpreter (`src/`), an assembler-like compiler (`compiler.py`)
and sample programs (`programs/`). One thread interprets a tree of tasks in
slices; tasks call functions, keep local variables on a stack of bytes, and
send messages to each other's inboxes.

This directory holds TLA+ models of the interpreter, the TLC configurations
that check them on small instances, and proofs that TLAPS checks for instances
of any size: about the scheduler, messaging, the two together, function calls,
operands, compiled programs, the clock, memory accounting and the wire format.
Paths below are relative to the repository; line numbers are in `PROJECT.json`,
which maps each definition to its source.

## 1. Inventory

| part | state it keeps | operations | talks to |
|---|---|---|---|
| task tree and scheduler (`tasktree.c`, `task.c`, `cpu.c`) | tree nodes with parent and child list; `Task` with saved `ip`, `active`, handler address; `CPU.task_tree_current_node`, `CPU.ip`, `tasks_number`; the C recursion of the traversal | `cpu_run`, `cpu_run_cycle`, `cpu_context_switch`, ASYNC_CALL, ASYNC_RETURN, HALT | messaging (each slice starts with the inbox), stacks (each task has two) |
| messaging (`messaging.c`) | one `MessageQueue` per task, all chained from `CPU.message_queues`; a list of heap-allocated `Message`s in each | create and free an inbox, deliver, process | scheduler, SYSCALL, server |
| stacks (`stack.c`) | bytes, `sp`, `bp` | push, pop, read and write at an address | every instruction |
| function calls and variables (`instructions.c`) | return addresses, saved base pointers and variables on `CPU.stack` | CALL, RETURN, ALLOC_LOCAL, PUSH_LOCAL, POP_LOCAL, ALLOC_I16, FREE_I16, READ_I16, WRITE_I16, call of a message handler | scheduler, messaging |
| computing instructions (`instructions.c`, `builtin.c`) | untyped bytes on `CPU.opstack` | literals, constants, arithmetic, comparison, bits, printing, conditional jump | ports, program memory |
| ports (`io.c`) | pointers to three hardware registers | read, write | the world |
| server and wire format (`server.c`, `messaging.c`) | a listening socket | poll for one message, serialize, deserialize | messaging |
| memory accounting (`sys.c`) | one 16-bit counter | `vmmalloc`, `vmcalloc`, `vmfree` | everything that allocates |
| clock and delay (`delay.c`) | a 16-bit millisecond counter, written by an interrupt on AVR | `millis`, `delay_ms` | blocks the interpreter |
| compiler (`compiler.py`) | tables of labels, constants, variables | passes over the source lines | its output is `program[]` |
| `memory.c`, `serial.c`, `main.c`, `Makefile`, generators, tests | – | – | – |

What is hard here, and what makes each part correct:

* **Scheduler.** The traversal is a recursive `for` loop over child lists that
  the very task it runs may change: ASYNC_CALL appends, ASYNC_RETURN frees the
  node and shifts its siblings under the caller's index. Correct means: the
  tree stays a tree, the recursion never stands on a freed node except where
  its own task has just ended, nobody runs twice in a round, nobody is
  forgotten for ever, and no task loses its place when others run.
* **Messaging.** Linked lists on a heap that reuses addresses, with one field
  (`Message.next`) that is not initialised and one list (`message_queues`)
  from which nothing is ever removed. Correct means: each inbox is a bounded
  first-in first-out queue, every message is in one place until it is freed,
  every search ends.
* **The two together.** A slice polls the server, switches, empties the inbox
  and executes. Tasks and inboxes must exist together, and a message must be
  handled within a bounded number of rounds.
* **Calls.** A message handler is called between any two instructions, several
  in a row. Correct means: every call has variables of its own and every
  return goes back to where the call was made.
* **Operands.** Types exist only in the names of instructions. Correct means:
  on bytes, each instruction computes what it computes on typed values.
* **Memory.** Every caller of `vmfree` says how much it frees, and a destructor
  is far from its constructor; one list grows by a `realloc` that is not
  counted. Correct means: the counter is the memory it is meant to count, and
  what is allocated belongs to something that exists.
* **Clock.** A counter of two bytes is read by one actor and incremented by
  another, and wraps around every 65 seconds. Correct means: no delay is
  short, none goes on for ever.
* **Server.** A client's bytes come in pieces or not at all; the machine reads
  once. Correct means: what is received was sent, and the read comes back.
* **Compiler.** Addresses and offsets are computed by passes over lines that
  other passes change. Correct means: the bytes, run by the machine, do what
  the source says.

`PROJECT.json` lists, under `hazards`, each such place with its line and the
properties that watch it.

## 2. Modules

    ConcurrentTasks   Mailbox        CallStack     OperandStack   SourceMachine   what is promised
         ^              ^               ^               ^               ^
         | implements   |               |               |               |
      Scheduler      Messaging      CallFrames     Interpreter     CodeMachine    the code
            ^          ^                 ^             /               |
             \________/                   \           /             Compiler
            VirtualMachine                Stack (stack.c)         (compiler.py)
      (scheduler and messaging composed)                               |
                                                                   Language

      Clock (delay.c, delay.rfl)         Memory (sys.c and its callers)
                                            |
                                         Server (server.c, send_message.c)
                                            |
                                         Wire (message_serialize, _deserialize)

    proofs, each extending the module it is about:
      MessagingProofs   CallFramesProofs   InterpreterProofs   CodeMachineProofs
            ^ (instance)
      VirtualMachineProofs        ClockProofs        MemoryProofs
      (Scheduler, VirtualMachine)                    (Memory, Server, Wire)

The five modules of the upper row say what the machine promises a program,
with no pointers, stacks, frames or addresses in them. Each module of the
second row is a translation of the code together with a refinement mapping
(`Promise == INSTANCE ... WITH ...`); that its specification implies the
promise is checked as a property. `MC...` modules give constants their values
for TLC. `ListLemmas` has what several proofs need: list operations element by
element (`Front`, `Last`, `RemoveAt`, `Append`, `Tail`), induction over a set
of numbers, and the least element of one.
Operators marked `a mutant` are plausible mistakes in the operator next to
them; none of the specifications uses them, and `PROJECT.json` tells which
property notices each.

**Scheduler.** `frames` is the C call stack of `task_tree_traverse_dfs`: one
record per active call with its node and loop index. `phase` is where the
interpreter's loop stands: `idle` (between traversals), `enter` (about to call
`cpu_run_cycle`), `slice` (executing instructions), `scan` (at the test of the
`for` loop). Actions: `StartRound` (`cpu_run`), `RunCycle` (context switch and
inbox), `Descend` and `Ascend` (the loop), `Execute`, `AsyncCall`,
`AsyncCallRefused`, `AsyncReturn`, `Halt`, `Fail` (instructions), and two
actions for what has undefined behaviour: `ReadFreedChildren` and
`AsyncReturnOfMain`. `Returners` and `OrphanReturns` say what programs may do:
which tasks contain ASYNC_RETURN, and whether a task may end while tasks it
started are alive. A freed node keeps its contents, so that the code's late
reads and writes of it (`cpu_context_switch` saving `ip` into the task that
just ended) are steps of the model; that another allocation takes the memory
in between is not modelled.

**Messaging.** Heap addresses are model values; `inboxes` and `messages` are
the allocated ones, `queue` and `message` the contents of all, so that a freed
structure keeps its contents until its address is handed out again.
`message_create` leaves `next` as it was: any member of `Leftover`. Steps that
touch memory that is not allocated end in `status = "undefined"`, searches
that go round in `"hung"`. `astray` is a history: it becomes true when the code
follows the `next` of a list's last message (`PointsBeyond`) and that is not
null. The payload, and the pointer to it, are left out.

**VirtualMachine** runs both in the order of `cpu_run_cycle`: `Poll`, the
switch, `ProcessInbox` once per message, then instructions. Every step is a
step of one module or a joint step of both (`Spawn`, `Finish`, `Send`).

**CallFrames** has a stack of words (two bytes each, all values here have that
size) and `bases`, a history of the bases of the calls in progress, from which
the refinement mapping cuts the array into calls. `Execute` stands for all
other instructions and jumps. ALLOC_LOCAL, PUSH_LOCAL and POP_LOCAL belong to
functions and count from their base. ALLOC_I16, FREE_I16, READ_I16 and
WRITE_I16 count from the bottom of the stack, where only the variables of the
task's own code are: code outside any function, as programs have it in tasks
started by ASYNC_CALL (`LoadI16`, `StoreI16`). The functions of the same kind
for U16 have no opcode and are left out.

**Interpreter** has the bytes of the operand stack, most significant byte
lowest as in `stack_write_bend_data_at`; `types` is a history of what was
pushed. A byte has `BITS` bits; two make a number and four an F32, which is
only moved: F32 arithmetic gives some F32. A truth value is one byte, as `bool`
is; %s prints one byte, and so takes a truth value. Programs give each
instruction operands of the types in its name. COMPARE has none there; `ComparedTypes`
says for which types programs use it. `Bytes(ts)` is what operands of the types
`ts` take; `OperandUnder` reads the operand below those, and its number comes
from its bytes by `Decode`.

**Clock.** Two actors. The timer requests an interrupt every millisecond
(`Tick`), whose handler counts it (`Isr`) as soon as interrupts are enabled.
The interpreter begins a delay and polls; `millis` is two steps, because an
8-bit processor reads two bytes one after the other (`ReadLow`, `ReadHigh`),
with interrupts disabled in between. `delay.how` tells the two loops apart:
`delay_ms` in C, which compares an unsigned difference, and `.delay_ms` of
`programs/delay.rfl`, which subtracts with SUB_U16 and compares with the signed
COMPARE_GT, and between two polls of which other tasks have their slices
(`Between`). `elapsed` and `late` are histories.

**Wire, Server, Memory.** `Wire` has the two conversions between a message and
its bytes. In `Server` a client connects and sends a message built by
`tools/send_message.c`, whose bytes arrive in pieces, or closes; the machine
accepts without waiting and then reads once, waiting, up to `BUFFER_SIZE`.
`Memory` adds everything that calls `vmmalloc`, `vmcalloc` and `vmfree`: memory
is a set of blocks with an owner, and `dynamic_memory_usage` changes by what
callers say, modulo `Limit`. `Reallocate(new, moved, old)` is the one place
where both change: `moved` are the lists of children that `realloc` makes longer
(`ListBlocks`, `CapacityForOneMore`), which it does not count, and `Account` is
the same without them. `Total` counts the bytes of a set of blocks, and `Subtree(t)` is the
least set with `t` in it that is closed under children, which is what
`task_tree_free` reaches. Tasks, inboxes and the server appear as far as they allocate.

**Language, SourceMachine, Compiler, CodeMachine.** A program is a sequence of
statements and marks, as the sample programs are written: each statement
stands for the one to three instructions they use for it (`LinesOf`, the
notation in which the model's programs are given to the compiler). `SourceMachine` runs
the statements by name: variables, functions, labels and constants have no
addresses. `Compiler` translates the passes of `compiler.py`
(`build_const_data`, `build_local_variables`, `build_jumps`, `encode_line`).
Of two constants or labels with one name the last counts; variables that are
unknown or allocated twice, and unknown labels, make the compiler stop
(`Compiles`). `CodeMachine` fetches opcodes and operands from the compiled bytes
(`cpu_fetch_data`) and dispatches them. Its operands are bytes: a comparison
pops two words and pushes one byte, POP_JUMP_IF_FALSE pops one byte whatever was
pushed, and SYSCALL 0 pops what the format at the given address names
(`Letters`, `TakenBy`, `Taken`). A refused ASYNC_CALL leaves its handler on the
operand stack. `listing` is what the refinement mapping needs to
read the bytes back: computed from the source, never used by a step.

## 3. Runs

| run | instance | what it shows | states |
|---|---|---|---|
| `scheduler_tree` | 4 tasks besides main, slices of 2, tasks end at any time, main too | types, tree, walk, single active task, no second slice; a round skips at most one subtree per ASYNC_RETURN | 14 172 |
| `scheduler_tasks` | 3 tasks, 2 addresses, slices of 2, tasks end when childless, fairness | no freed list is read; implements `ConcurrentTasks`; every task runs again, ends, or the process exits | 329 675 |
| `messaging_inboxes` | 2 tasks, inboxes of 2, 3 messages, 3 queues; any `next` in new messages; up to the first list followed too far | lists well formed, nothing lost, searches succeed until a task ends, implements `Mailbox` | 324 400 (up to renaming addresses) |
| `machine` | 2 tasks, slices of 1, inboxes of 2, 2 messages, fairness | tasks and inboxes match; waits are bounded; inboxes are emptied again and again | 58 676 (never used addresses are alike) |
| `calls` | 5 words, 2 addresses, 2 values | frames linked; implements `CallStack` | 148 812 |
| `interp` | 2-bit numbers, 8-byte stack, two F32, one port, one constant, at most 3 operands | implements `OperandStack` with operands of 1, 2 and 4 bytes mixed | 143 473 |
| `clock` | bytes of 4 values, so a counter of 16 ms; up to 3 ms between polls; `delay_ms` of 0 to 15 ms, `.delay_ms` of 0 to 4 ms | `millis` reads one time; no delay is short or overdue; every delay ends | 55 189 |
| `memory` | 3 tasks besides main, 2 messages, inboxes of 1, counter modulo 16; reads of a byte more than the header, pieces ending around the header | the counter is the memory in use but for child lists; nothing leaks but refused messages and the server; what is received was sent | 200 407 |
| `program` | 606 programs with one further task, 12 bytes of operands, 40 bytes of stack | compiled bytes implement the source; what is left on the operand stack is refused tasks | 82 882 |

Three more runs are expected to fail; section 6 explains each.

Why the bounds are enough to be interesting. Four tasks (the code's own
`MAX_TASKS`) make every shape of tree the machine can have, and skipping,
ending and starting meet at every loop index. A slice of two instructions lets
a task act twice or be preempted in between; 255 adds nothing but length. Two
messages fill an inbox of two, and three are refused one; three queue
addresses for three tasks make memory reuse happen as soon as one ends, and a
message address is reused after each processing. The run ends each behaviour
where a list has been followed beyond its last message (CONSTRAINT `NotAstray`),
because of what comes after nothing is claimed. In `machine` all addresses
are alike as long as they have not been used: of these, the run takes one
whenever a new one is needed (`OneOfTheAlike`), which leaves out only renamings
and, unlike SYMMETRY, is sound with liveness. Five words hold two calls, or
a call with a variable, a handler on top of either, a variable beyond the end
of the array, and an overflow. In numbers of two bits, which stand for 0 to 3
and for -2 to 1, there are all the cases of sign, wrap-around, truncation,
division by zero and byte order, and all numbers occur. Eight bytes are two
F32; three operands (CONSTRAINT `FewOperands`) are the longest format and its
address. A shift by the bits of an `int` or more does not occur there; the
proof includes it. With one port there is one address that is no port.

A counter of 16 ms in two bytes of two bits has the carry between bytes (every
4 ms) and the wrap-around within every delay; each delay begins at each value
of the counter. The programs of `program` are a `main` of three pieces out of
seven (assignments, constants, calls, printing, starting tasks, jumps forwards
and backwards) with three versions of a function (identity, recursion that
ends, recursion that does not), eight that define a constant, labels and a
function twice, and one that runs past its end; three more do not compile. Variables of
four and two bytes make offsets differ from indices; a string of six bytes
before a word puts the second constant at an address unlike its index; 300 needs both bytes of a
word. What a fresh variable contains is either of two bytes, so that reading a
wrong place shows. `Operands` and `Calls` are what a program can rely on: with
more than eight bytes passed on, or more than four calls in progress, it may
stop for lack of room; with fewer it may not.

The messages of `memory` have payloads of one or two bytes and reads end at
one byte less than the header, the header, or one more: nothing, a message
without its payload, and a whole one. One destination is a task that never
exists. Three tasks below one are the fewest that make a list of children grow
twice (2, then 4).

CHECK_DEADLOCK is never turned off: a machine that has exited stutters in an
explicit action (`Gone`, `Stopped`, `MachineGone`).

**Fairness.** `FairSpec` and `FairMachineSpec` assume weak fairness of the
whole next-state relation: the interpreter is one thread that never waits
(`while (true)` in `cpu_run`; every instruction, delays included, ends, and so
does every poll). Nothing is assumed about what programs
do: a task may loop for ever, and is preempted by the slice; it may never send
or end. The server is never obliged to deliver. Both liveness properties allow
for the end of the process, or for its state becoming undefined. That a task is
not starved by siblings that keep ending follows from the limit on tasks:
`tasks_number` never falls, so that only finitely many end.

That delays and polls end is an assumption there, which the next two modules
look at. `Clock!FairSpec`: the timer goes on and the interpreter goes on
polling (weak fairness), and a requested interrupt is taken if interrupts are
enabled again and again (strong fairness), because an AVR takes a pending one
as soon as `sei` allows it, however soon `millis` disables them again. Weak
fairness would let the interpreter poll for ever with the handler never
running. `Memory!FairSpec` is weak fairness of the machine only; clients are
other programs, on other hosts, and nothing makes them write or close. Under
it a poll need not come back (run `memory_silent`, section 6): so
`FairMachineSpec`, and with it `EveryInboxEmptied`, assumes that every client
that connects writes its message or goes away.

## 4. Properties worth knowing

* `SkipsBoundedByReturns`, `OneSliceARound`, `EveryTaskRuns`: ending a task in
  the middle of the traversal costs siblings at most one turn per end, never
  gives anyone a second one, and starves nobody.
* `IndependentTasks`: the interpreter keeps one running task's pointer in
  `cpu->ip` and the others in their `Task`; to the program each task has a
  counter of its own.
* `SearchesSucceed`: until a task ends, every search for an inbox succeeds.
* `DeliversInOrder`, `KeptOrRefused`: inboxes are bounded FIFO queues; an
  allocated message is in exactly one inbox, or was refused by a full one.
  These, `InboxLinked` and `SearchesSucceed` hold whatever is in new memory,
  until `astray`: a list that is not empty may end in an unset pointer, and all
  is well as long as none has been followed. The
  second half is what the code does, not what one would like: a refused
  message is never freed.
* `WaitIsBounded`: at the end of a round an accepted message has been there
  for at most one round, plus one for each task that ended. Without the
  second term it is violated.
* `CallsAreNested`: calls, handlers and local variables on one array behave as
  if each call had memory of its own.
* `OperandsKeepTheirTypes`: bytes compute what types promise.
* `ReadsOneTime`, `NeverShort`, `NeverOverdue`, `DelayEnds`: the two bytes of a
  reading are of one time; a delay takes at least as long as asked (but for the
  millisecond in progress when it begins) and at most two polls longer, across
  every wrap-around. For `.delay_ms` this holds only for delays that, with
  the milliseconds between two polls, are less than half of what the counter
  can tell: `ShortDelays`, in the proofs `ShortRequests`.
* `UsageIsExact`: what SYSCALL 4 reports is the memory in use without the lists
  of children (`Counted`), through every path of creation, delivery, refusal
  and end. Those lists are never counted: `realloc` gets them. What is in use
  is more than what is reported as soon as a task has started another. The
  property says nothing after one of two events, which `miscounted` records: a
  task ended before its children, and a message was freed that had come
  without its payload. Each takes bytes off the counter that were never added.
* `NothingLeaks`: every block, lists of children included, belongs to the
  machine, a task that is alive, a message in an inbox, or a message a full
  inbox refused; HALT returns all but the last and the server's.
* `ReceivedAsSent`: a read that got only a part of a message never yields
  another message, or a part of a payload.
* `CodeRunsSource`, `LeftoversAreRefusals`: compiled bytes run as the source
  says; every refused ASYNC_CALL leaves two bytes, and nothing else does.

## 5. Proofs

Each theorem holds for every value of the constants that the named assumption
of its module allows; hypotheses beyond that are in the tables. All the safety
properties the runs check are proved, and all refinements but one (see the
end). Nothing is assumed but what the modules' ASSUMEs say, and TLC evaluates
each of these on the runs.

### Scheduler

`VirtualMachineProofs`, in its first part, proves for every `MAX_TASKS`, slice length, address set and
kind of program allowed by `SchedulerAssumption`:

| theorem | states |
|---|---|
| `TypeCorrect` | `Spec => []TypeOK` |
| `TreeStaysConsistent` | `Spec => []TreeConsistent` |
| `WalkStaysOnTree` | `Spec => []WalkFollowsTree` |
| `OneTaskIsActive` | `Spec => []OneActiveTask` |
| `NoSecondSlice` | `Spec => []OneSliceARound` |
| `SkipsAreBounded` | `Spec => SkipsBoundedByReturns` |
| `DisciplinedProgramsStayDefined` | if tasks end only when childless and main never does, `Spec => []NeverUndefined` |
| `DisciplinedTasksAreIndependent` | for the same programs, `Spec => IndependentTasks` |

The argument. None of the four safety properties is inductive alone. That the
next node has had no slice (`OneSliceARound`) needs to know what the loops
still have ahead of them; that depends on the child lists, which the running
task changes; and these are only as expected if the recursion really stands on
a path of allocated nodes. `IInv` joins them with three more facts:

* `Created`: nothing exists beyond `tasks_number`, so a new child is new;
* `WalkDescends`: identifiers increase along the recursion, and a call just
  made is for the child at its caller's index;
* `UnseenAhead`: children that a loop has not reached, and children of nodes
  not yet visited, have had no slice. An ASYNC_RETURN moves siblings to lower
  indices, towards what is done, which is why nobody is visited twice (and
  why somebody is skipped).

One lemma per action shows that it preserves `IInv`; `RemovedChild` and
`SubtreeProperties` isolate what ending a task does to lists and to the set of
allocated nodes (an ended subtree contains no node of the walk but its top).
`DisciplinedProgramsStayDefined` adds that a task that has just ended left an
empty child list. The refinement theorem shows that each action maps to a step
of `ConcurrentTasks` or to a stutter: switching changes where counters are
kept, not what they are.

`SkipsAreBounded` speaks of the end of a round, and its invariant `Counted` of
every step before: `Missed`, the tasks without a slice whose parent had one and
which no loop has `Ahead` of it any more, are at most as many as ASYNC_RETURNs
of the round. An ASYNC_RETURN shifts one sibling out of the loop's way and so
adds one to both sides at most; nothing else adds to `Missed`, because a new
child goes to the end of its list. When the root's loop is over nothing is
ahead, and `Missed` is what was skipped below a parent that was seen. In a
round without an ASYNC_RETURN it is empty, and then everybody has been seen:
of those who have not, the one created first would be in it (`AllSeen`).

### Calls

`CallFramesProofs` proves, for stacks of any size, any words and addresses and
any sizes of variables (`CallFramesAssumption`):

| theorem | states |
|---|---|
| `CallFramesTypeCorrect` | `Spec => []TypeOK` |
| `FramesStayLinked` | `Spec => []FramesLinked` |
| `CallFramesAreNested` | `Spec => CallsAreNested` |

`FramesLinked` says what the two words below each base are, and a step that
writes to the array could change them. Its strengthening `IInv` adds that the
array holds words (`StackOfWords`) and that bases ascend (`Ascending`), so that
the frames of outer calls are below the base of the innermost. Most steps then
need one lemma, `BelowUntouched`: what changes neither the calls nor the two
words below any base preserves everything. `VariablesAreNotLinks` shows that
writes are of this kind, those to variables of the running function, above its
base, and those to variables of the task's own code, below all frames. A call
adds the frame that the invariant asks for, and RETURN takes from the two
words below the base what the invariant says they are.

`CallFramesAreNested` is the refinement of `CallStack`. The mapping cuts the
array at `bases`; `Framed` follows from `IInv` and says of it what the steps
need: the pieces are disjoint, in order, and end at the next call's two links
or at `sp`. A second invariant, `Cells`, says that every word of the array is
one that `CallStack` has a value for. Then each action changes one piece: CALL
adds an empty one, RETURN drops the last, ALLOC_LOCAL and ALLOC_I16 lengthen
one (by a cell that holds whatever was there), and a write changes one cell of
one piece (`VariableCell`, `VariableWritten`), all others being untouched.

### Operands

`InterpreterProofs` proves, for bytes of any width, stacks of any size, and any
ports, literals, constants and formats (`InterpreterAssumption`):

| theorem | states |
|---|---|
| `InterpreterTypeCorrect` | `Spec => []TypeOK` |
| `InterpreterKeepsTypes` | if only signed numbers are compared and constants fit a byte, `Spec => OperandsKeepTheirTypes` |

The two hypotheses of the second, `OnlySignedCompared` and `ConstantsFit`, are
the two places where the machine does not do what types promise (section 6);
the runs check the same programs.

`IInv` says that the bytes on the stack are exactly those of its operands:
`opstack.sp = Bytes(types)`. As `Bytes` is a recursive function, what it
returns for a list with one more type (`BytesAppend`) and for two lists joined
(`BytesOfBoth`) comes by induction over the length of lists (`LongerList`).
Then what is popped is what was pushed, and `Pushed` and `OperandRead` say which
bytes a push writes and a pop reads.

The refinement mapping reads operands from the top down; a push and a pop
change its list at the end that everything is counted from. `Described` reads
the same operands from the bottom up (`Describes`), so that a push appends to
it (`DescribedAppend`) and a pop cuts it (`DescribedBelow`) without touching
the others. `ReplaceAgrees` is the step that most instructions are; what is
left of each is that its bytes, read back, are the number its type promises:

* `Decode` of `Encode(n)` is `n`, wrapped around (`NumberOfBytes`), for which
  division by a product is two divisions (`DivisionByProduct`: the second byte
  is the quotient's remainder);
* C's division, of absolute values with the sign put back, is the one quotient
  whose rest is small enough and has the sign of the dividend
  (`DividedIsQuotient`, `QuotientIsUnique`);
* a sum of different powers of two has just these bits (`NumbersOfBits`), and a
  number is known by its bits (`SameBits`), which makes the bitwise
  instructions what they are bit by bit (`CombinedNumber`).

All powers of two are of unknown exponents. That they are positive and double
from one to the next (`PowersOfTwo`) is proved from what the prover's library
says of the number of subsets of a set.

### Clock

`ClockProofs` proves, for a counter of any width, any delays and any number of
milliseconds between two polls (`ClockAssumption`):

| theorem | states |
|---|---|
| `MillisReadsOneTime` | `Spec => []ReadsOneTime` |
| `ClockTypeCorrect` | `Spec => []TypeOK` |
| `DelaysAreNeverShort` | if `.delay_ms` is asked for less than half of what the counter can tell, `Spec => NeverShort` |
| `DelaysAreNeverOverdue` | if this is so with the time between two polls added (`ShortRequests`), `Spec => []NeverOverdue` |

The counter's type needs `ReadsOneTime`: only if both bytes are of one time is
what `ReadHigh` puts together a value of the counter. `NeverShort` follows from
`CountsWhatPassed`: the difference between the counter and `started_at`, in the
counter's arithmetic, with a requested interrupt counted as taken, is at most
what has passed and one more. It is an inequality because the difference falls
back to zero when the counter comes round, which makes a delay longer but
never shorter.

`NeverOverdue` bounds from the other side, and there the difference must not
have come round. `OnTime` bounds what has passed by the difference, and the
difference by the last poll's that did not end the delay (`LastUnpassed`) and
what has passed since (`late`), which is at most the time between polls. That
is less than a turn of the counter (`NoWrap`), for the signed comparison of
`.delay_ms` less than half of one, so that the next poll ends the delay.

### Messaging

`MessagingProofs` proves, for any number of tasks, inboxes of any size and any
finite sets of addresses (`MessagingAssumption`):

| theorem | states |
|---|---|
| `MessagingTypeCorrect` | `Spec => []TypeOK` |
| `InboxesStayLinked` | `Spec => []InboxLinked` |
| `MessagesKeptOrRefused` | `Spec => []KeptOrRefused` |
| `MessagingSearchesSucceed` | `Spec => []SearchesSucceed` |
| `MessagingDeliversInOrder` | `Spec => DeliversInOrder` |

Nothing is assumed about what `malloc` leaves in `Message.next`: any member of
`Leftover`, which is any set of pointers. Each of the last four says what holds
until `astray`, the step in which a list is followed beyond its last message;
`messaging_local` shows what that leads to (section 6). That freed addresses
are handed out again, and that ended tasks stay in `message_queues`, is part
of what is proved about.

`InboxLinked` says that a walk from `head` along `next` meets `count` messages,
the last of which is `tail`. Where that one points to it does not say: that
field is written before it is followed, but in the step that sets `astray`.
`Sound` adds that the allocated queues are the inboxes of the tasks
(`Inboxes`) and `KeptOrRefused` for stopped programs too (`Kept`), and `IInv` is
the types and, unless `astray`, `Sound`. The walk is a recursive function, so that its values
come from `WalkExists`, by induction over the number of links; that it fits
into the heap (`DistinctFits`) needs the addresses to be finitely many and the
messages of a list to be different. A delivery then appends to one list
(`MailAppended`), a processing takes the head of one (`MailTaken`), the end of
tasks frees whole lists (`FreedIsMail`), and what no step touches stays the
same list (`NextSame`). These lemmas serve the invariant and the refinement of
`Mailbox` alike. `SearchesSucceed` needs the list of inboxes as well: until a
task has ended it is a chain in the order of creation (`Chained`), so that a
search finds its inbox after as many links as the task has predecessors. No
step makes `astray` false again (`AstrayStays`), so that the refinement may stop
there.

### Scheduler and messaging together

The second part of `VirtualMachineProofs` proves, whatever is in new memory
(`SchedulerAssumption`, `VirtualMachineAssumption`):

| theorem | states |
|---|---|
| `MachineIsAScheduler` | `MachineSpec => Spec`: each step is one of Scheduler's or leaves the scheduler alone |
| `EveryTaskHasAnInbox` | `MachineSpec => []OneInboxPerTask` |
| `MessagesAreNotKeptWaiting` | `MachineSpec => []WaitIsBounded` |

By the first, every theorem about Scheduler holds of the machine.
`Paired` is the invariant of the second: the two modules count tasks
separately and agree while the machine works. The third sums over rounds:
`Patient` says that a task that had its turn in this round has waited for
nothing, and that what any inbox has waited for, with the ASYNC_RETURNs of the
round in progress (`ReturnsNow`), is at most one round and the tasks that have
`Ended`. At the end of a round `Counted` of the scheduler is used: an inbox
still waits only if a subtree was skipped, and then some task ended.

### Memory, server and wire format

`MemoryProofs` proves, for any sizes of structures, stacks, payloads and reads,
and bytes and counters of any width (`MemoryAssumption`, `ServerAssumption`,
`WireAssumption`):

| theorem | states |
|---|---|
| `MessagesArriveAsSent` | `Spec => []ReceivedAsSent` |
| `MemoryTypeCorrect` | `Spec => []TypeOK` |
| `MemoryIsOwned` | `Spec => []NothingLeaks` |
| `UsageStaysExact` | `Spec => []UsageIsExact` |

`RoundTrip` says what `message_deserialize` makes of the first `n` bytes of
what `message_serialize` made: nothing below the header's length, the message
if all is there, and else the message without its payload. With `ClientInv` (what
is being read is a message the tool built) that is `ReceivedAsSent`.

`TypeInv` needs to know of sets of blocks that they are finite, and that an
address is free for the message being read (`Waits`). `OwnerInv` says which
blocks exist: `Lists` that no message is in two places and that each list of
children has room for them (`ListsHoldChildren`), `Owned` that each living task,
each kept message and the machine own exactly the blocks their constructor
made and, for a task, its list at its present length; `Returned` what is left
after HALT. A step adds the blocks of one owner, replaces a list by a longer
one, or drops those of some owners (`Added`, `Relisted`, `Dropped`,
`FreedOfOwners`). `UsageIsExact` follows step by step: what is freed with the
sizes that were counted leaves the counter right (`FreedAsCounted`: this uses
`OwnerInv`; `ReallocateExact`), also when the 16-bit arithmetic wraps, below
zero included (`WrapsAlike`). A list of children was never counted, and when it
is freed empty nothing is taken off for it; the two cases in which something is
are those that `miscounted` records, and the property does not speak of what
follows them.

### Compiled programs

`CodeMachineProofs` proves, for any stack sizes, any number of tasks and any
programs that keep the stack discipline (`CodeMachineAssumption`, and
`Disciplined(compile_rfl(p), certificate[p])` for every program `p` that
compiles):

| theorem | states |
|---|---|
| `CodeMachineTypeCorrect` | `Spec => []TypeOK` |
| `LeftoversStayRefusals` | `Spec => []LeftoversAreRefusals` |
| `ControlStaysInCode` | always `ip \in DOMAIN certificate[program].depth`, the first byte of an instruction of the code, and while the machine runs, that instruction is in the program with its operand |

No instruction tests what it finds on the operand stack, nor where it jumps,
so these properties cannot hold of any bytes whatever. What they need of the
bytes is `Disciplined`, in the manner of a bytecode verifier: a certificate
tells where the instructions are, the function each belongs to, how many bytes
of operands more than at the function's call there are before it, and how many
the function leaves; `Allows` compares each instruction with its successors
only (`Keeps`). It counts what the code pushes and pops: two bytes for a word,
one for a truth value, so that a program which tests a word, of which
POP_JUMP_IF_FALSE pops one byte, is not disciplined. What SYSCALL 0 pops depends
on the format: there the certificate also tells the word on top (`top`), which
the PUSHL_U16 before it has pushed, and no jump may lead in between. A function may take operands it is passed, leave results, call
itself, and jump as it likes. The condition speaks of the bytes, not of the
source, so the theorems do not rest on the compiler being right. It is not
empty: TLC finds (`ProgramsAreDisciplined`, in `MCCodeMachine`) that it holds of
all programs of the run `program` that compile but for the one that runs past
its end, with
the certificate that reading the program from top to bottom gives
(`Certificate`). For that one the three properties of the run are
model-checked only.

The argument. The certificate compares the operands with those there were at
the call in progress, of which the machine keeps no record. `Balanced` states
that there is a number of bytes for each call in progress, zero for the first,
such that each call's, with what its function leaves, is what its caller's
return address expects; and that the stack has the last of these, with what
the certificate says of `ip` and two for each task refused (`Leftovers`).
`OnCourse` says that `ip` and all return addresses are those of instructions,
and that only the code before main's is in no call; `Known`, that the top word
is what the certificate says where it says anything. So at HALT, which the certificate
allows in that code only, nothing is left but the refusals. There is a lemma
for each instruction; those that move within a function share
`MovesWithOperands`, CALL and RETURN extend and shorten the list of numbers.

### Only model-checked

* Liveness (`EveryTaskRuns`, `EveryInboxEmptied`, `DelayEnds`): ENABLED and
  fairness are beyond the prover.
* `CodeRunsSource`, the refinement of `SourceMachine` by `CodeMachine`, and
  that the programs of the run `program` keep the stack discipline: what the
  compiler's passes return for every program is induction over data.

## 6. Findings

| run | disagreement |
|---|---|
| `messaging_local` | `message_create` does not set `next`; after a queue has been emptied its head is that value (`messaging.c:138`, `cpu.c:352`). |
| `messaging_ended` | The queue of a task that ended is freed but not taken out of `message_queues` (`task.c:29`). If its memory is then given to the next task's queue, the list becomes circular and `cpu_create_task_inbox` never ends (`status = "hung"`). |
| `memory_silent` | The accepted socket is set to blocking under a comment that says "make client unblocking" (`server.c:92`, 93), and read from (96): a client that connects and then neither writes nor closes keeps the machine, with all its tasks, in that read. |

Also seen. The models do these things as the code does, or the note says that
they are left out; no text of the repository says that they should be
otherwise.

* When a task ends during the traversal, its next sibling and everything below
  it get no slice in that round (`tasktree.c:93`). `SkipsBoundedByReturns` and
  `EveryTaskRuns` bound the damage.
* `tasks_number` is never decremented, so that ASYNC_CALL is refused for good
  after `MAX_TASKS` tasks have been started, however many of them are left
  (`cpu.c:26`). A loop of refused ASYNC_CALLs fills the operand stack.
* COMPARE is signed, also for U16 (`instructions.c:333`). One consequence is in
  `programs/delay.rfl`, whose parameter is U16: from 2^15 ms on `.delay_ms`
  returns at once, and for 2^15 - 1 it never returns.
* A U16 constant is stored as two bytes and pushed as one
  (`instructions.c:39`).
* A child list grows by an uncounted `realloc`, so that the counter is less
  than what is in use, and is freed as if it held whole nodes, which makes it
  still less; `port_bank_free` takes a byte off for each pointer (`io.c:60`).
* A message a full inbox refuses is never freed. At HALT the server is not
  freed either.
* A message read in part, or longer than the buffer, has a size and no payload;
  freeing it takes its size off the counter (`messaging.c:239`). `crc` is
  computed and never compared.
* `message_serialize`, which only the tool calls, gives `vmmalloc` the size of
  the header and the payload together, in a parameter of 16 bits
  (`messaging.c:172`).
* `server_create` returns NULL when the port is taken, and the first poll
  dereferences it (`Memory` ends in phase `"undefined"`).
* POP_JUMP_IF_FALSE pops one byte, whatever was pushed, which its comment says
  is to change (`instructions.c:312`): a word tested leaves its high byte.
* In the compiler only lines that begin with `fn` start offsets of variables
  anew: a function that is just a label, as in `blink_led_v2.rfl`, goes on with
  those of the function above it. A constant hides a variable of its name, and
  labels of all functions share their names.

## 7. Assumptions and what is not modelled

* Allocation never fails, and freed tree nodes keep their contents until the
  next switch.
* Stacks are far from 2^16 bytes, so that the 16-bit `final_address` does not
  wrap; CallFrames stops ALLOC_LOCAL one allocation past the end of the array,
  and CodeMachine ends in `"undefined"` where `sp` would wrap.
* Variables are read and written as words. PUSH_LOCAL and POP_LOCAL copy through
  a C pointer variable, which larger sizes overrun; CodeMachine ends in
  `"undefined"` at any other size.
* A task's two stacks are modelled one at a time: operands in Interpreter and
  CodeMachine, frames in CallFrames and, as the calls it promises, in
  CodeMachine. CodeMachine has the main task only; the tasks it starts are
  recorded and do not run.
* CodeMachine has thirteen of the 51 instructions; most others are actions of
  Scheduler, CallFrames, Interpreter and Clock and are not fetched from bytes.
  It ends in `"undefined"` at the others, at a PUSH_U16 of a port, at a SYSCALL
  other than 0, and at a format that has no end in the program. The compiler's
  reading of the text (includes, comments, quotes, escapes) and ports are left
  out, and no variable of the model's programs has the name of a constant.
* Memory has no lists and no instructions, as Messaging and Scheduler have no
  sizes. A search through an inbox list with a freed queue ends in
  `"undefined"` in both.
* An instruction whose operand is not entirely in the program is treated like
  one whose opcode is not: the bytes fetched are unset, and CodeMachine ends in
  `"undefined"`.
* Which errors `accept` and `read` report makes no difference to the machine
  and is left out; so is `send_remote_message`, which no program can reach:
  every message a task sends has the local `vm_dst`.
* Clock is the AVR build; the desktop builds call `usleep`. `micros` and
  `delay_us` have the same pattern with four bytes and no caller.
* Overflowing products and left shifts wrap around (undefined in C where an
  `int` overflows, wrapping in the builds); shifts by the width of an `int` or
  more give any number; division by zero ends in `"undefined"`.
* F32 rounding, output formatting, serial output, `task_tree_print` and
  `memory.c` (not used by the program) are not modelled.

## 8. Plan

1. *Done:* scheduler with its promise, runs and proofs; messaging and the
   composition; calls, variables and their proofs; operands; clock and its
   proofs; server, wire format and memory accounting; compiler and the machine
   on its bytes.
2. *Done:* proofs of messaging, of the composition, of operands and of memory;
   the refinements of `Mailbox`, `CallStack` and `OperandStack`; the bounds on
   skips, waits and delays; types, operands and control of compiled programs.
   *Left:* that the compiler's output keeps the stack discipline when its source
   does, and the refinement of `SourceMachine`.
3. Composition of stacks with the scheduler: nested handlers at a full inbox,
   tasks that run from the compiled bytes.
4. Untyped programs: POP_I16 on an empty stack, operands of the wrong size.
