----------------------------- MODULE CodeMachine -----------------------------
(***************************************************************************)
(* The machine on the bytes of a compiled program: cpu_fetch_data and the  *)
(* dispatch of cpu_execute, for the instructions that move the control and *)
(* the variables of the main task, which starts others (cpu.c,             *)
(* instructions.c, builtin.c).                                             *)
(*                                                                         *)
(* Operands are bytes, two of a word and one of a truth value.  Variables  *)
(* are words, and a call in progress has its own bytes, as CallFrames.tla  *)
(* shows of the calls on one stack.  The other tasks have stacks of their  *)
(* own and do not take part.                                               *)
(***************************************************************************)
EXTENDS Compiler

W == B * B      \* the values of a word, two bytes

CONSTANTS
  Programs,      \* the source programs
  MAX_TASKS,     \* task.h
  OPSTACK_SIZE,  \* cpu.h: TASK_OPSTACK_SIZE
  STACK_SIZE,    \* cpu.h: TASK_STACK_SIZE
  FreshBytes,    \* what the stack may contain above its pointer
  Operands, Calls \* what a program can rely on: SourceMachine.tla

ASSUME CodeMachineAssumption ==
  /\ Programs # {}
  /\ {MAX_TASKS, OPSTACK_SIZE, STACK_SIZE, Operands, Calls} \subseteq Nat
  /\ FreshBytes \subseteq 0 .. B - 1

VARIABLES
  program,   \* the source program
  image,     \* what compiler.py makes of it: CPU.program, CPU.data_address
  listing,   \* history: what the bytes of the image are the code of
  ip,        \* CPU.ip
  opstack,   \* CPU.opstack: its bytes, the top one last
  calls,     \* the calls on CPU.stack: return address, bytes of the variables
  tasks,     \* the tasks made: Task.ip at first, message_handler_address
  refused,   \* history: the number of tasks refused
  printed,   \* what was printed last, for each character of the format
  status     \* "running", "halted", "failed" (exit) or "undefined": C does
             \* not define what follows, or this module does not follow it

vars == <<program, image, listing, ip, opstack, calls, tasks, refused, printed, status>>

Frame(back) == [back |-> back, locals |-> <<>>]

(* How the refinement reads the image: of each byte of the code, the          *)
(* statement of the text of which an instruction begins there (0 for none),  *)
(* the function it is in, and how many bytes the statement has pushed for    *)
(* itself (each of its instructions but the last pushes a word); of each     *)
(* function, the variables and where each begins.                            *)
FunctionOf(p, k) ==
  LET fns == {i \in 1 .. k : p[i].do = "fn"} IN IF fns = {} THEN 0 ELSE Max(fns)

CodeOf(p, k) ==
  LET lines == LinesOf(p[k])
      bytes(j) == [b \in 1 .. Size(lines[j]) |->
                     [statement |-> IF b = 1 THEN k ELSE 0, pushed |-> 2 * (j - 1),
                      fn |-> FunctionOf(p, k)]]
  IN FlattenSeq([j \in DOMAIN lines |-> bytes(j)])

VariablesIn(p, f) ==
  LET ks == {k \in DOMAIN p : p[k].do = "declare" /\ FunctionOf(p, k) = f}
      size(k) == IF k \in ks THEN p[k].n ELSE 0
      named(x) == CHOOSE k \in ks : p[k].name = x
  IN [x \in {p[k].name : k \in ks} |-> Total([k \in 1 .. named(x) - 1 |-> size(k)])]

Listing(p) ==
  [code |-> FlattenSeq([k \in DOMAIN p |-> CodeOf(p, k)]),
   variables |-> [f \in {FunctionOf(p, k) : k \in DOMAIN p} |-> VariablesIn(p, f)]]

Init ==
  /\ program \in {p \in Programs : Compiles(p)}
  /\ image = compile_rfl(program)
  /\ listing = Listing(include_main_call(program))
  /\ ip = 0
  /\ opstack = <<>>
  /\ calls = << Frame(0) >>
  /\ tasks = <<>>
  /\ refused = 0
  /\ printed = <<>>
  /\ status = "running"

Byte(a) == image.bytes[a + 1]
InProgram(a) == a < Len(image.bytes)

(* Outside the program no opcode is fetched, and no operand of its own.       *)
Width(op) == Size(Plain(op))
IsAt(op) ==
  /\ status = "running"
  /\ InProgram(ip) /\ Byte(ip) = Opcode[op]
  /\ InProgram(ip + Width(op) - 1)
Operand == Byte(ip + 1) + B * Byte(ip + 2)

Exit(how) ==
  /\ status' = how
  /\ UNCHANGED <<program, image, listing, ip, opstack, calls, tasks, refused, printed>>

GoOn(n) == ip' = ip + n /\ UNCHANGED <<program, image, listing, status>>
Jumps(a) == ip' = a /\ UNCHANGED <<program, image, listing, status>>

(* The byte and the word that are under k bytes, and all that is under them. *)
ByteUnder(k) == opstack[Len(opstack) - k]
WordUnder(k) == B * ByteUnder(k + 1) + ByteUnder(k)
Under(k) == SubSeq(opstack, 1, Len(opstack) - k)
Holds(n) == Len(opstack) >= n
CanPushOneMore(n) == Len(opstack) <= OPSTACK_SIZE             \* a mutant
CanPush(n) == Len(opstack) + n <= OPSTACK_SIZE

-----------------------------------------------------------------------------

halt == IsAt("HALT") /\ Exit("halted")

push_literal_U16 ==
  /\ IsAt("PUSHL_U16")
  /\ IF CanPush(2)
     THEN /\ GoOn(3)
          /\ opstack' = opstack \o TwoBytes(Operand)
          /\ UNCHANGED <<calls, tasks, refused, printed>>
     ELSE Exit("failed")

(* The byte of constant data; ports are not followed. *)
DataAt(im, a) == im.data_address + a - PORTS

push_U16 ==
  /\ IsAt("PUSH_U16")
  /\ IF Operand < PORTS \/ ~ InProgram(DataAt(image, Operand)) THEN Exit("undefined")
     ELSE IF ~ CanPush(2) THEN Exit("failed")
     ELSE /\ GoOn(3)
          /\ opstack' = opstack \o TwoBytes(Byte(DataAt(image, Operand)))
          /\ UNCHANGED <<calls, tasks, refused, printed>>

compare_equal ==
  /\ IsAt("COMPARE_EQ")
  /\ IF Holds(4)
     THEN /\ GoOn(1)
          /\ opstack' = Append(Under(4), IF WordUnder(2) = WordUnder(0) THEN 1 ELSE 0)
          /\ UNCHANGED <<calls, tasks, refused, printed>>
     ELSE Exit("failed")

(* One byte is popped, whatever was pushed; what a byte other than 0 and 1   *)
(* is as a truth value is not defined.                                       *)
pop_jump_if_false ==
  /\ IsAt("POP_JUMP_IF_FALSE")
  /\ IF Holds(1)
     THEN /\ \/ ByteUnder(0) # 1 /\ Jumps(Operand)
             \/ ByteUnder(0) # 0 /\ Jumps(ip + 3)
          /\ opstack' = Under(1)
          /\ UNCHANGED <<calls, tasks, refused, printed>>
     ELSE Exit("failed")

jump ==
  /\ IsAt("JUMP")
  /\ Jumps(Operand)
  /\ UNCHANGED <<opstack, calls, tasks, refused, printed>>

(* A frame takes two words of the stack besides its variables.               *)
SizeOf(frames) == Total([k \in DOMAIN frames |-> 4 + Len(frames[k].locals)]) - 4
Bottom == SizeOf(calls) - Len(Last(calls).locals)

call ==
  /\ IsAt("CALL")
  /\ IF SizeOf(calls) + 4 <= STACK_SIZE
     THEN /\ Jumps(Operand)
          /\ calls' = Append(calls, Frame(ip + 3))
          /\ UNCHANGED <<opstack, tasks, refused, printed>>
     ELSE Exit("failed")

ret ==
  /\ IsAt("RETURN")
  /\ IF Len(calls) > 1
     THEN /\ Jumps(Last(calls).back)
          /\ calls' = Front(calls)
          /\ UNCHANGED <<opstack, tasks, refused, printed>>
     ELSE Exit("failed")

(* The operand of ALLOC_LOCAL is fetched and not used; a stack pointer that   *)
(* wraps around is not followed.                                              *)
allocate_local ==
  /\ IsAt("ALLOC_LOCAL")
  /\ IF ~ Holds(2) THEN Exit("failed")
     ELSE IF SizeOf(calls) + WordUnder(0) >= W THEN Exit("undefined")
     ELSE /\ GoOn(3)
          /\ \E b \in FreshBytes :
               calls' = [calls EXCEPT ![Len(calls)].locals = @ \o [i \in 1 .. WordUnder(0) |-> b]]
          /\ opstack' = Under(2)
          /\ UNCHANGED <<tasks, refused, printed>>

(* PUSH_LOCAL and POP_LOCAL pop an offset and, under it, a size; only that of *)
(* a word is followed.  Outside the variables of the call the bytes are       *)
(* others'.                                                                   *)
IsLocal(o) == o + 2 <= Len(Last(calls).locals)
CanRead(o) == Bottom + o + 2 <= STACK_SIZE

push_local ==
  LET o == WordUnder(0) IN
  /\ IsAt("PUSH_LOCAL")
  /\ IF ~ Holds(4) THEN Exit("failed")
     ELSE IF WordUnder(2) # 2 \/ ~ IsLocal(o) \/ ~ CanRead(o) THEN Exit("undefined")
     ELSE /\ GoOn(1)
          /\ opstack' = Under(4) \o SubSeq(Last(calls).locals, o + 1, o + 2)
          /\ UNCHANGED <<calls, tasks, refused, printed>>

pop_local ==
  LET o == WordUnder(0) IN
  /\ IsAt("POP_LOCAL")
  /\ IF ~ Holds(4) THEN Exit("failed")
     ELSE IF WordUnder(2) # 2 THEN Exit("undefined")
     ELSE IF ~ Holds(6) \/ ~ CanRead(o) THEN Exit("failed")
     ELSE IF ~ IsLocal(o) THEN Exit("undefined")
     ELSE /\ GoOn(1)
          /\ calls' = [calls EXCEPT ![Len(calls)].locals =
                         [@ EXCEPT ![o + 1] = ByteUnder(5), ![o + 2] = ByteUnder(4)]]
          /\ opstack' = Under(6)
          /\ UNCHANGED <<tasks, refused, printed>>

(* cpu_create_task: a task too many is refused before its handler is popped. *)
MakeWithoutPop ==                             \* a mutant
  /\ tasks' = Append(tasks, [code |-> Operand, handler |-> WordUnder(0)])
  /\ UNCHANGED <<opstack, refused>>
Make ==
  /\ tasks' = Append(tasks, [code |-> Operand, handler |-> WordUnder(0)])
  /\ opstack' = Under(2)
  /\ UNCHANGED refused
Refuse ==
  /\ refused' = refused + 1
  /\ UNCHANGED <<tasks, opstack>>

async_call ==
  /\ IsAt("ASYNC_CALL")
  /\ IF Len(tasks) = MAX_TASKS \/ Holds(2)
     THEN /\ GoOn(3)
          /\ IF Len(tasks) = MAX_TASKS THEN Refuse ELSE Make
          /\ UNCHANGED <<calls, printed>>
     ELSE Exit("failed")

(* The letters of a text's directives: what follows a % that is not one.     *)
Letters(s) ==
  LET after[i \in 0 .. Len(s)] == i > 1 /\ s[i - 1] = Percent /\ ~ after[i - 1]
  IN {i \in DOMAIN s : after[i]}

(* The format at an address: the bytes up to the first zero, unless that is  *)
(* the letter of a directive.                                                *)
BytesFrom(im, a) == SubSeq(im.bytes, DataAt(im, a) + 1, Len(im.bytes))
Ends(s) == {i \in DOMAIN s : s[i] = 0} \ Letters(s)
FormatAt(im, a) == SubSeq(BytesFrom(im, a), 1, Min(Ends(BytesFrom(im, a))) - 1)

(* The bytes that a directive pops: %u and %i a word, %f a float, %s one.    *)
TakenBy(char) ==
  CASE char \in {105, LetterU} -> 2
    [] char = 102 -> 4
    [] char = 115 -> 1
    [] OTHER -> 0

(* And those that the directives among the first i characters pop. *)
Taken(s, i) ==
  Cardinality({x \in (Letters(s) \cap (1 .. i)) \X (1 .. 4) : x[2] <= TakenBy(s[x[1]])})

(* What the i-th character prints, when os are the operands under the format *)
(* address: itself, or what it pops, or itself after a %.                    *)
Shown(s, i, os) ==
  IF i \notin Letters(s) THEN IF s[i] = Percent THEN <<>> ELSE << s[i] >>
  ELSE IF TakenBy(s[i]) = 0 THEN << Percent, s[i] >>
  ELSE << s[i] >> \o SubSeq(os, Len(os) - Taken(s, i) + 1, Len(os) - Taken(s, i - 1))

(* SYSCALL 0, the only one that is followed. *)
builtin_print ==
  LET format == FormatAt(image, WordUnder(0))
      taken == Taken(format, Len(format))
  IN
  /\ IsAt("SYSCALL")
  /\ IF Operand # 0 THEN Exit("undefined")
     ELSE IF ~ Holds(2) THEN Exit("failed")
     ELSE IF Ends(BytesFrom(image, WordUnder(0))) = {} THEN Exit("undefined")
     ELSE IF ~ Holds(2 + taken) THEN Exit("failed")
     ELSE /\ GoOn(3)
          /\ printed' = [i \in DOMAIN format |-> Shown(format, i, Under(2))]
          /\ opstack' = Under(2 + taken)
          /\ UNCHANGED <<calls, tasks, refused>>

(* No instruction of these at ip: opcode or operand are unset, or data, or   *)
(* the opcode is unknown or of an instruction that is not followed.          *)
FetchNothing ==
  /\ status = "running" /\ \A op \in DOMAIN Opcode : ~ IsAt(op)
  /\ Exit("undefined")

Stopped == status # "running" /\ UNCHANGED vars

Next ==
  \/ halt \/ push_literal_U16 \/ push_U16 \/ compare_equal \/ pop_jump_if_false \/ jump
  \/ call \/ ret \/ allocate_local \/ push_local \/ pop_local
  \/ async_call \/ builtin_print \/ FetchNothing \/ Stopped

Spec == Init /\ [][Next]_vars

-----------------------------------------------------------------------------
(* The state of the source program that the state of the machine stands for. *)

InCode(a) == a < Len(listing.code)
StatementAt(a) ==
  IF InCode(a) THEN listing.code[a + 1].statement
  ELSE IF a = Len(listing.code) THEN Len(program) + 3
  ELSE 0

Temporaries == IF InCode(ip) THEN listing.code[ip + 1].pushed ELSE 0

(* The variables of call m by name, as far as it has allocated them.         *)
VariablesOf(m) ==
  LET a == IF m = Len(calls) THEN ip ELSE calls[m + 1].back - 3
      bytes == calls[m].locals
      begin == IF InCode(a) THEN listing.variables[listing.code[a + 1].fn] ELSE <<>>
  IN [x \in {x \in DOMAIN begin : begin[x] + 2 <= Len(bytes)} |->
        SubSeq(bytes, begin[x] + 1, begin[x] + 2)]

Frames ==
  [m \in DOMAIN calls |->
     [vars |-> IF m = 1 THEN <<>> ELSE VariablesOf(m),
      back |-> IF m = 1 THEN 0 ELSE StatementAt(calls[m].back)]]

Made ==
  [i \in DOMAIN tasks |->
     [code |-> StatementAt(tasks[i].code), handler |-> StatementAt(tasks[i].handler)]]

Promise == INSTANCE SourceMachine
             WITH at <- StatementAt(ip), passed <- Under(Temporaries), frames <- Frames,
                  tasks <- Made, Fresh <- {<<b, b>> : b \in FreshBytes}

-----------------------------------------------------------------------------
(* Properties. *)

TypeOK ==
  /\ image.bytes \in Seq(0 .. B - 1)
  /\ ip \in 0 .. W - 1
  /\ opstack \in Seq(0 .. B - 1) /\ Len(opstack) <= OPSTACK_SIZE
  /\ calls \in Seq([back : 0 .. W - 1, locals : Seq(0 .. B - 1)]) /\ calls # <<>>
  /\ tasks \in Seq([code : 0 .. W - 1, handler : 0 .. W - 1])
  /\ Len(tasks) <= MAX_TASKS
  /\ refused \in Nat
  /\ printed \in Seq(Seq(0 .. B - 1))
  /\ status \in {"running", "halted", "failed", "undefined"}

(* A refused ASYNC_CALL leaves the address of the message handler among the  *)
(* operands (cpu_create_task returns before it pops it), and nothing else    *)
(* does: a program that takes what it passes ends with two bytes for each    *)
(* task it was refused.                                                      *)
Leftovers == 2 * refused
LeftoversAreRefusals == status = "halted" => Len(opstack) = Leftovers

(* Stack discipline, which no instruction checks.  A certificate says where  *)
(* the instructions of an image are, which function each is in (that of main *)
(* is not 0, where the code before main's begins), how many bytes of         *)
(* operands more than when it was called there are before each (fewer: it    *)
(* takes what it is passed), and how many more each function leaves.  Before *)
(* some instructions the top word is always that of the PUSHL_U16 they       *)
(* follow: so it is known what format is printed, and what it takes.         *)
OperandAt(im, a) == im.bytes[a + 2] + B * im.bytes[a + 3]

Pushes(op) ==
  CASE op \in {"PUSHL_U16", "PUSH_U16"} -> 2
    [] op = "COMPARE_EQ"        -> -3
    [] op = "POP_JUMP_IF_FALSE" -> -1
    [] op \in {"ALLOC_LOCAL", "PUSH_LOCAL", "ASYNC_CALL"} -> -2
    [] op = "POP_LOCAL"         -> -6
    [] OTHER -> 0

Prints(im, a) == LET format == FormatAt(im, a) IN -2 - Taken(format, Len(format))

(* The certificate allows the instruction op at a.                           *)
Keeps(im, c, a, op) ==
  LET n == OperandAt(im, a)
      next == a + Width(op)
      Leads(b, d) == b \in DOMAIN c.depth /\ c.depth[b] = d /\ c.fn[b] = c.fn[a]
      LeadsOn(b, d) == Leads(b, d) /\ b \notin DOMAIN c.top
      After(d) == LeadsOn(next, c.depth[a] + d)
      Entry == /\ n \in DOMAIN c.depth /\ c.depth[n] = 0 /\ n \notin DOMAIN c.top
               /\ c.fn[n] = n /\ n # 0
  IN CASE op = "HALT"   -> c.fn[a] = 0 /\ c.depth[a] = 0
       [] op = "RETURN" -> c.fn[a] # 0 /\ c.depth[a] = c.effect[c.fn[a]]
       [] op = "JUMP"   -> LeadsOn(n, c.depth[a])
       [] op = "CALL"   -> Entry /\ After(c.effect[n])
       [] op = "POP_JUMP_IF_FALSE" -> LeadsOn(n, c.depth[a] + -1) /\ After(-1)
       [] op = "PUSHL_U16" -> /\ Leads(next, c.depth[a] + 2)
                              /\ next \in DOMAIN c.top => c.top[next] = n
       [] op = "SYSCALL" -> /\ n = 0 /\ a \in DOMAIN c.top
                            /\ Ends(BytesFrom(im, c.top[a])) # {}
                            /\ After(Prints(im, c.top[a]))
       [] OTHER -> After(Pushes(op))

Allows(im, c, a) ==
  \E op \in DOMAIN Opcode : /\ im.bytes[a + 1] = Opcode[op]
                            /\ a + Width(op) <= Len(im.bytes)
                            /\ Keeps(im, c, a, op)

Fits(im) ==
  /\ im.bytes \in Seq(0 .. B - 1) /\ Len(im.bytes) <= W
  /\ im.data_address \in Nat /\ im.data_address >= PORTS

IsCertificate(im, c) ==
  /\ DOMAIN c.depth \subseteq 0 .. Len(im.bytes) - 1 /\ DOMAIN c.fn = DOMAIN c.depth
  /\ \A a \in DOMAIN c.depth : c.depth[a] \in Int /\ c.fn[a] \in DOMAIN c.effect
  /\ \A f \in DOMAIN c.effect : c.effect[f] \in Int
  /\ 0 \in DOMAIN c.depth /\ c.depth[0] = 0 /\ c.fn[0] = 0 /\ 0 \notin DOMAIN c.top

Disciplined(im, c) ==
  Fits(im) /\ IsCertificate(im, c) /\ \A a \in DOMAIN c.depth : Allows(im, c, a)

(* The bytes that compiler.py makes of a program (addresses of labels and    *)
(* constants, offsets of variables, the call of main) make the machine do    *)
(* what the program says, wherever its calls and jumps lead; it executes     *)
(* what is not code only when the program runs past its last statement, and  *)
(* stops short only when the program passes too many bytes or calls too      *)
(* deep.                                                                     *)
CodeRunsSource == Promise!Spec

=============================================================================
