---------------------------- MODULE SourceMachine ----------------------------
(***************************************************************************)
(* What a source program (programs/*.rfl) says its main task does.         *)
(* Functions, variables, constants and labels are names here, a statement  *)
(* runs in one step, and there are no addresses.  Values are passed        *)
(* between statements, and between a function and its caller, on the       *)
(* operand stack: a word is two bytes there, a truth value is one.         *)
(* CodeMachine.tla, the bytes compiler.py makes of the program and the     *)
(* machine that fetches them, is shown to implement this.                  *)
(***************************************************************************)
EXTENDS Language

CONSTANTS
  Programs,    \* the programs
  MAX_TASKS,   \* how many tasks ASYNC_CALL can make
  Fresh,       \* what a new variable may contain
  Operands,    \* a task can rely on as many bytes for operands
  Calls        \* and on as many calls in progress

VARIABLES
  program,  \* the program
  at,       \* the statement it is at
  passed,   \* the bytes of the values passed on, the latest last
  frames,   \* the calls in progress: variables by name, statement to return to
  tasks,    \* the tasks it has made: where they begin, their message handlers
  printed,  \* the text printed last
  status    \* "running", "halted", "failed" or "undefined"

vars == <<program, at, passed, frames, tasks, printed, status>>

Init ==
  /\ program \in Programs
  /\ at = 1
  /\ passed = <<>>
  /\ frames = << [vars |-> <<>>, back |-> 0] >>
  /\ tasks = <<>>
  /\ printed = <<>>
  /\ status = "running"

(* A program calls main, and halts when main returns. *)
Prologue == << Statement("call", "main", "", 0), Statement("halt", "", "", 0) >>
Text == Prologue \o program
Here == IF at <= 2 THEN Prologue[at] ELSE program[at - 2]

Doing(what) == status = "running" /\ at <= Len(program) + 2 /\ Here.do = what
Goto(k) == at' = k /\ UNCHANGED <<program, status>>
Onward == Goto(From(Text, at + 1))

(* The last n bytes passed, and those before them. *)
Latest(n) == SubSeq(passed, Len(passed) - n + 1, Len(passed))
Before(n) == SubSeq(passed, 1, Len(passed) - n)
Passes(n) == Len(passed) >= n

Locals == Last(frames).vars
LocalsBecome(v) == frames' = [frames EXCEPT ![Len(frames)].vars = v]

Literal ==
  /\ Doing("push") /\ Onward
  /\ passed' = passed \o TwoBytes(Here.n)
  /\ UNCHANGED <<frames, tasks, printed>>

Constant ==
  /\ Doing("push constant") /\ Onward
  /\ passed' = passed \o TwoBytes(ConstantOf(Text, Here.name))
  /\ UNCHANGED <<frames, tasks, printed>>

Declare ==
  /\ Doing("declare") /\ Onward
  /\ \E v \in Fresh :
       LocalsBecome([x \in DOMAIN Locals \cup {Here.name} |->
                       IF x = Here.name THEN v ELSE Locals[x]])
  /\ UNCHANGED <<passed, tasks, printed>>

Get ==
  /\ Doing("get") /\ Onward
  /\ Here.name \in DOMAIN Locals
  /\ passed' = passed \o Locals[Here.name]
  /\ UNCHANGED <<frames, tasks, printed>>

Set ==
  /\ Doing("set") /\ Onward
  /\ Here.name \in DOMAIN Locals /\ Passes(2)
  /\ LocalsBecome([Locals EXCEPT ![Here.name] = Latest(2)])
  /\ passed' = Before(2)
  /\ UNCHANGED <<tasks, printed>>

Compare ==
  /\ Doing("compare") /\ Onward
  /\ Passes(4)
  /\ passed' = Append(Before(4), IF Latest(2) = SubSeq(Latest(4), 1, 2) THEN 1 ELSE 0)
  /\ UNCHANGED <<frames, tasks, printed>>

Unless ==
  /\ Doing("unless")
  /\ Passes(1) /\ Last(passed) \in {0, 1}
  /\ Goto(IF Last(passed) = 0 THEN Place(Text, Here.name) ELSE From(Text, at + 1))
  /\ passed' = Before(1)
  /\ UNCHANGED <<frames, tasks, printed>>

Jump ==
  /\ Doing("jump")
  /\ Goto(Place(Text, Here.name))
  /\ UNCHANGED <<passed, frames, tasks, printed>>

Call ==
  /\ Doing("call")
  /\ Goto(Place(Text, Here.name))
  /\ frames' = Append(frames, [vars |-> <<>>, back |-> From(Text, at + 1)])
  /\ UNCHANGED <<passed, tasks, printed>>

Return ==
  /\ Doing("return") /\ Len(frames) > 1
  /\ Goto(Last(frames).back)
  /\ frames' = Front(frames)
  /\ UNCHANGED <<passed, tasks, printed>>

(* A task more, or none: then a word more is left among the operands. *)
Spawn ==
  /\ Doing("spawn") /\ Onward
  /\ IF Len(tasks) < MAX_TASKS
     THEN /\ tasks' = Append(tasks, [code |-> Place(Text, Here.name),
                                     handler |-> Place(Text, Here.other)])
          /\ UNCHANGED passed
     ELSE /\ Len(passed') = Len(passed) + 2 /\ SubSeq(passed', 1, Len(passed)) = passed
          /\ UNCHANGED tasks
  /\ UNCHANGED <<frames, printed>>

(* The text of the constant, with the word passed where it has its %u; what  *)
(* each character prints.                                                    *)
Show ==
  LET char == ConstantOf(Text, Here.name) IN
  /\ Doing("print") /\ Onward
  /\ Passes(2)
  /\ printed' = << <<char>>, <<>>, <<LetterU>> \o Latest(2), <<>>, <<Percent, char>> >>
  /\ passed' = Before(2)
  /\ UNCHANGED <<frames, tasks>>

Halt ==
  /\ Doing("halt")
  /\ status' = "halted"
  /\ UNCHANGED <<program, at, passed, frames, tasks, printed>>

(* What follows the last statement of a program is not said. *)
RunOff ==
  /\ status = "running" /\ at > Len(program) + 2
  /\ status' = "undefined"
  /\ UNCHANGED <<program, at, passed, frames, tasks, printed>>

(* A task that passes few bytes and has few calls never runs out of room. *)
Fail ==
  /\ status = "running"
  /\ Len(passed) > Operands \/ Len(frames) > Calls
  /\ status' = "failed"
  /\ UNCHANGED <<program, at, passed, frames, tasks, printed>>

Next ==
  \/ Literal \/ Constant \/ Declare \/ Get \/ Set \/ Compare \/ Unless \/ Jump
  \/ Call \/ Return \/ Spawn \/ Show \/ Halt \/ RunOff \/ Fail

Spec == Init /\ [][Next]_vars

=============================================================================
