---------------------------- MODULE MCCodeMachine ----------------------------
(***************************************************************************)
(* Programs for CodeMachine: two constants (a string of six bytes, then    *)
(* a word), a main of up to three pieces and a function f in several       *)
(* versions.  There are loops, calls inside loops, recursion that ends and *)
(* that does not, more tasks than there may be, names that are defined     *)
(* twice, and a program that runs past its end.  Three programs do not     *)
(* compile.                                                                *)
(***************************************************************************)
EXTENDS CodeMachine

Do(what) == Statement(what, "", "", 0)
On(what, name) == Statement(what, name, "", 0)
Push(n) == Statement("push", "", "", n)
Declaration(name, n) == Statement("declare", name, "", n)
Spawning(name, handler) == Statement("spawn", name, handler, 0)
Get(x) == On("get", x)
Set(x) == On("set", x)

Constants == << Statement("CONST STRING", "s", "", 7), Statement("CONST U16", "c", "", 1) >>

(* What main does with its variables x and y; the second and the third may   *)
(* jump back to the beginning.                                               *)
Pieces == <<
  << Push(300), Set("x") >>,
  << On("push constant", "c"), Set("y") >>,
  << Get("x"), On("call", "f"), Set("y") >>,
  << Get("x"), On("print", "s") >>,
  << Spawning("g", "f") >>,
  << Get("x"), Get("y"), Do("compare"), On("unless", "again") >>,
  << Get("y"), Get("x"), Do("compare"), On("unless", "end") >> >>

Main(a, b, c) ==
  << On("fn", "main"), Declaration("x", 4), Declaration("y", 2), Push(1), Set("x"), Push(1), Set("y") >>
  \o a \o << On("label", "again") >> \o b \o c \o << On("label", "end"), Do("return") >>

Returned == << Get("a"), Do("return") >>
Identity == << On("fn", "f"), Declaration("a", 2), Set("a") >> \o Returned
Declares == << On("fn", "f"), Declaration("a", 2), Set("a"), Declaration("x", 2) >>
(* f(a) is c, by way of f(c) when a is not c; or by way of f(a) for ever.    *)
ToC == Declares
  \o << On("push constant", "c"), Set("x"), Get("a"), Get("x"), Do("compare"), On("unless", "other") >>
  \o Returned \o << On("label", "other"), Get("x"), On("call", "f"), Do("return") >>
Endless == Declares
  \o << Get("a"), Push(1), Do("compare"), On("unless", "other") >>
  \o Returned \o << On("label", "other"), Get("a"), On("call", "f"), Do("return") >>

G == << On("fn", "g"), On("label", "work"), On("jump", "work") >>
GRunsOn == << On("fn", "main"), Push(5), On("jump", "g"), On("fn", "g"), On("print", "s") >> \o Constants

Program(a, b, c, f) ==
  Constants \o Main(Pieces[a], Pieces[b], Pieces[c]) \o f \o G

(* A constant, labels and a function that are defined again further down. *)
Earlier == << Statement("CONST U16", "c", "", 9), On("fn", "d"), On("label", "again"), On("label", "end"),
              Do("return"), On("fn", "f"), Declaration("b", 4), Do("return") >>

Unknown == << On("fn", "f"), Declaration("a", 2), Set("a"), Get("b"), Do("return") >>
Twice == << On("fn", "f"), Declaration("a", 2), Declaration("a", 2), Set("a") >> \o Returned
Nowhere == << On("fn", "f"), On("jump", "nowhere") >>

Source ==
  {GRunsOn} \cup {Program(1, 2, 3, f) : f \in {Unknown, Twice, Nowhere}}
  \cup {Earlier \o Program(a, b, c, Identity) : a \in {2, 5}, b \in {3, 4}, c \in {6, 7}}
  \cup {Program(a, b, c, Identity) : a \in 1 .. 7, b \in 1 .. 7, c \in 1 .. 7}
  \cup {Program(a, b, c, f) : <<a, b, c>> \in {t \in (1 .. 7) \X (1 .. 7) \X (1 .. 7) :
                                               3 \in {t[1], t[2], t[3]}},
                               f \in {ToC, Endless}}
Unset == {0, 9}

(* What the programs do to the operand stack, read from top to bottom: a     *)
(* function begins with what it is passed, a label that nothing runs into    *)
(* with what the jumps to it leave.  Each function leaves as many operands   *)
(* as it takes, and every format takes a word.                               *)
Certificate(p) ==
  LET lines == Lines(p)
      bytes == compile_rfl(p).bytes
      effect(op) == IF op = "SYSCALL" THEN -4 ELSE Pushes(op)
      address == [i \in DOMAIN lines |-> AddressOf(lines, i)]
      jumps(i) == {j \in 1 .. i - 1 : lines[j].kind = "." /\ lines[j].name = lines[i].name}
      before[i \in 1 .. Len(lines)] ==
        IF i = 1 \/ lines[i].op = "fn" THEN 0
        ELSE IF lines[i].op = "label" /\ lines[i - 1].op \in {"RETURN", "JUMP"}
        THEN before[Max(jumps(i))] + effect(lines[Max(jumps(i))].op)
        ELSE before[i - 1] + effect(lines[i - 1].op)
      entry(i) == LET k == FunctionAt(lines, i) IN IF k = 0 THEN 0 ELSE address[k]
      is == {i \in DOMAIN lines : IsInstruction(lines[i])}
      line(a) == CHOOSE i \in is : address[i] = a
      begins == {address[i] : i \in is}
  IN [depth |-> [a \in begins |-> before[line(a)]],
      fn |-> [a \in begins |-> entry(line(a))],
      top |-> [a \in {address[i] : i \in {i \in is : lines[i].op = "SYSCALL"}} |->
                 bytes[a - 1] + B * bytes[a]],
      effect |-> [f \in {entry(i) : i \in is} |-> 0]]

ASSUME ProgramsAreDisciplined ==
  \A p \in Source \ {GRunsOn} : Compiles(p) => Disciplined(compile_rfl(p), Certificate(p))

=============================================================================
