------------------------------- MODULE Compiler -------------------------------
(***************************************************************************)
(* compiler.py: the passes that turn the lines of a program into bytes.    *)
(* A line has an operation (an instruction or a mark), the kind of its     *)
(* operand (# a number, $ a variable or a constant, . a label, or none)    *)
(* and that operand, a name or a number.  Reading the text (includes,      *)
(* comments, blanks, quotes) is left out, and so are the ports, whose      *)
(* names compile to the addresses below those of the constants.  No        *)
(* variable has the name of a constant, and no name an underscore.         *)
(***************************************************************************)
EXTENDS Language

PORTS == 3                                    \* the length of compiler.py's PORTS

Opcode == [HALT |-> 0, JUMP |-> 2, POP_JUMP_IF_FALSE |-> 3, COMPARE_EQ |-> 4,
           CALL |-> 9, RETURN |-> 10, SYSCALL |-> 11, ASYNC_CALL |-> 12,
           PUSHL_U16 |-> 14, PUSH_U16 |-> 22, ALLOC_LOCAL |-> 23,
           PUSH_LOCAL |-> 24, POP_LOCAL |-> 25]

IsInstruction(l) == l.op \in DOMAIN Opcode
HasOperand(l) == l.op \notin {"HALT", "COMPARE_EQ", "RETURN", "PUSH_LOCAL", "POP_LOCAL"}

Size(l) == IF ~ IsInstruction(l) THEN 0 ELSE IF HasOperand(l) THEN 3 ELSE 1

Line(op, kind, name, n) == [op |-> op, kind |-> kind, name |-> name, n |-> n]
Number(op, n) == Line(op, "#", "", n)
Label(op, name) == Line(op, ".", name, 0)
Name(op, name) == Line(op, "$", name, 0)
Plain(op) == Line(op, "", "", 0)

(* How programs write a statement; a word is two bytes. *)
LinesOf(s) ==
  CASE IsMark(s)           -> << Line(s.do, "", s.name, s.n) >>
    [] s.do = "push"       -> << Number("PUSHL_U16", s.n) >>
    [] s.do = "push constant" -> << Name("PUSH_U16", s.name) >>
    [] s.do = "declare"    -> << Number("PUSHL_U16", s.n), Name("ALLOC_LOCAL", s.name) >>
    [] s.do = "get"        -> << Number("PUSHL_U16", 2), Name("PUSHL_U16", s.name), Plain("PUSH_LOCAL") >>
    [] s.do = "set"        -> << Number("PUSHL_U16", 2), Name("PUSHL_U16", s.name), Plain("POP_LOCAL") >>
    [] s.do = "compare"    -> << Plain("COMPARE_EQ") >>
    [] s.do = "unless"     -> << Label("POP_JUMP_IF_FALSE", s.name) >>
    [] s.do = "jump"       -> << Label("JUMP", s.name) >>
    [] s.do = "call"       -> << Label("CALL", s.name) >>
    [] s.do = "return"     -> << Plain("RETURN") >>
    [] s.do = "spawn"      -> << Label("PUSHL_U16", s.other), Label("ASYNC_CALL", s.name) >>
    [] s.do = "print"      -> << Name("PUSHL_U16", s.name), Number("SYSCALL", 0) >>
    [] s.do = "halt"       -> << Plain("HALT") >>

Total(ns) ==
  LET sum[i \in 0 .. Len(ns)] == IF i = 0 THEN 0 ELSE sum[i - 1] + ns[i] IN sum[Len(ns)]

-----------------------------------------------------------------------------
(* The passes. *)

BytesOf(n) == << n % B, (n \div B) % B >>

DataOf(l) ==
  CASE l.op = "CONST U16"    -> BytesOf(l.n)
    [] l.op = "CONST STRING" -> Append(Characters(l.n), 0)
    [] OTHER                 -> <<>>

Data(lines) == FlattenSeq([i \in DOMAIN lines |-> DataOf(lines[i])])

ConstantAddress(lines, i) == PORTS + Len(Data(SubSeq(lines, 1, i - 1)))

(* A name that is defined twice means the last of the two. *)
build_const_data(lines) ==
  LET constant(name) == SelectLastInSeq(lines, LAMBDA l : DataOf(l) # <<>> /\ l.name = name)
      built(l) == IF l.kind = "$" /\ constant(l.name) # 0
                  THEN Number(l.op, ConstantAddress(lines, constant(l.name)))
                  ELSE l
  IN SelectSeq([i \in DOMAIN lines |-> built(lines[i])], LAMBDA l : DataOf(l) = <<>>)

(* The function a line belongs to: its variables are named after it. *)
FunctionAt(lines, i) == SelectLastInSubSeq(lines, 1, i, LAMBDA l : l.op = "fn")
Variable(lines, i) == << lines[FunctionAt(lines, i)].name, lines[i].name >>
AllocationsOf(lines, i) ==
  {j \in DOMAIN lines : lines[j].op = "ALLOC_LOCAL" /\ Variable(lines, j) = Variable(lines, i)}

(* compiler.py stops at a variable outside of a function, at one allocated   *)
(* twice, and at one that is not allocated.                                  *)
HasItsVariables(lines) ==
  LET uses == {i \in DOMAIN lines : lines[i].kind = "$"} IN
  /\ \A i \in uses : FunctionAt(lines, i) # 0
  /\ \A i \in uses : Cardinality(AllocationsOf(lines, i)) = 1

(* The offset of the variable that line i allocates; its size is the number  *)
(* that the line before pushes.                                              *)
AllocatedSize(lines, i) == IF lines[i].op = "ALLOC_LOCAL" THEN lines[i - 1].n ELSE 0
OffsetInProgram(lines, i) ==                                  \* a mutant
  Total([k \in 1 .. i - 1 |-> AllocatedSize(lines, k)])
Offset(lines, i) ==
  Total([k \in 1 .. i - FunctionAt(lines, i) |-> AllocatedSize(lines, i - k)])

build_local_variables(lines) ==
  LET variable(i) == CHOOSE j \in AllocationsOf(lines, i) : TRUE
      built(i) == IF lines[i].kind = "$" THEN Number(lines[i].op, Offset(lines, variable(i)))
                  ELSE lines[i]
  IN SubSeq([i \in DOMAIN lines |-> built(i)], 1, Len(lines))

AddressOf(lines, i) == Total([k \in 1 .. i - 1 |-> Size(lines[k])])

LabelAt(lines, name) ==
  SelectLastInSeq(lines, LAMBDA l : l.op \in {"fn", "label"} /\ l.name = name)

(* compiler.py stops at a label that is nowhere. *)
HasItsLabels(lines) ==
  \A i \in DOMAIN lines : lines[i].kind = "." => LabelAt(lines, lines[i].name) # 0

build_jumps(lines) ==
  LET built(l) == IF l.kind = "." THEN Number(l.op, AddressOf(lines, LabelAt(lines, l.name))) ELSE l
  IN SelectSeq([i \in DOMAIN lines |-> built(lines[i])], IsInstruction)

encode_line(l) ==
  << Opcode[l.op] >> \o IF HasOperand(l) THEN BytesOf(l.n) ELSE <<>>

-----------------------------------------------------------------------------

(* The code calls main before the program's own lines, then halts. *)
include_main_call(p) ==
  << Statement("call", "main", "", 0), Statement("halt", "", "", 0) >> \o p

Lines(source) ==
  LET p == include_main_call(source) IN FlattenSeq([k \in DOMAIN p |-> LinesOf(p[k])])

Compiles(source) ==
  LET lines == build_const_data(Lines(source)) IN HasItsVariables(lines) /\ HasItsLabels(lines)

compile_rfl(source) ==
  LET lines == Lines(source)
      built == build_jumps(build_local_variables(build_const_data(lines)))
      code == FlattenSeq([i \in DOMAIN built |-> encode_line(built[i])])
  IN [bytes |-> code \o Data(lines), data_address |-> Len(code)]

=============================================================================
