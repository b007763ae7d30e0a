----------------------------- MODULE Interpreter -----------------------------
(***************************************************************************)
(* The instructions that compute: operands on the operand stack of a task  *)
(* (instructions.c, builtin_print, on the bytes of stack.c), constants and *)
(* ports.                                                                  *)
(*                                                                         *)
(* The bytes carry no types.  Programs are those that give each            *)
(* instruction operands of the types in its name, so that `types' can say  *)
(* what the bytes are; COMPARE has no type in its name, and ComparedTypes  *)
(* are those it is used for.  A byte has BITS bits, 8 in the code; a       *)
(* number two bytes, an F32 four.  C ints have twice the bits of a number, *)
(* as on the desktop targets.                                              *)
(***************************************************************************)
EXTENDS Stack, SequencesExt

CONSTANTS
  BITS,            \* of a byte
  OPSTACK_SIZE,    \* cpu.h: TASK_OPSTACK_SIZE
  PORTS,           \* PortBank.size
  Data,            \* constant data: the bytes of the program's constants
  DeclaredU16,     \* the U16 constants among them: address and value
  Literals,        \* the numbers programs push, as U16
  F32Literals,     \* what an F32 may be, as bytes
  ComparedTypes,   \* the types programs compare
  Formats          \* the formats they print with, as the types of the operands

ASSUME InterpreterAssumption ==
  /\ BITS \in Nat \ {0} /\ OPSTACK_SIZE \in Nat /\ PORTS \in Nat
  /\ \A c \in DeclaredU16 :
       /\ c.address \in Nat /\ c.address >= PORTS
       /\ Data[c.address - PORTS] \in 0 .. 2^BITS - 1
  /\ Literals \subseteq 0 .. 2^(2 * BITS) - 1
  /\ F32Literals \subseteq {v \in Seq(0 .. 2^BITS - 1) : Len(v) = 4}
  /\ ComparedTypes \subseteq {"U16", "I16"}
  /\ Formats \subseteq Seq({"U16", "I16", "F32", "bool"})

VARIABLES
  opstack,   \* CPU.opstack
  ports,     \* the bytes of the port bank
  did,       \* history: the last instruction, and the address it is given
  shown,     \* the values the last instruction printed
  status,    \* "running", "failed" (exit) or "undefined"
  types      \* history: the types of the operands, the top one last

vars == <<opstack, ports, did, shown, status, types>>

B == 2^BITS
W == 2 * BITS
Size(t) == CASE t = "bool" -> 1 [] t \in {"U16", "I16"} -> 2 [] t = "F32" -> 4
Bytes(ts) ==
  LET sum[k \in 0 .. Len(ts)] == IF k = 0 THEN 0 ELSE sum[k - 1] + Size(ts[k])
  IN sum[Len(ts)]

At(op, a) == [op |-> op, at |-> a]
Op(op) == At(op, 0)

Init ==
  /\ opstack = stack_create(OPSTACK_SIZE)
  /\ ports = [p \in 0 .. PORTS - 1 |-> 0]
  /\ did = Op("")
  /\ shown = <<>>
  /\ status = "running"
  /\ types = <<>>

Exit(how) ==
  /\ status' = how
  /\ UNCHANGED <<opstack, ports, did, shown, types>>

-----------------------------------------------------------------------------
(* Values and their bytes, the least significant first.  An F32 is only      *)
(* moved: it is the number its bytes spell.                                  *)

Encode(n) == << n % B, (n \div B) % B >>
Abs(n) == IF n < 0 THEN -n ELSE n
EncodeBool(b) == << IF b THEN 1 ELSE 0 >>

DecodeUnsigned(v) == v[1] + B * v[2]
DecodeSigned(v) ==
  LET n == DecodeUnsigned(v) IN IF n >= 2^(W - 1) THEN n - 2^W ELSE n

Decode(t, v) ==
  CASE t = "U16"  -> DecodeUnsigned(v)
    [] t = "I16"  -> DecodeSigned(v)
    [] t = "F32"  -> DecodeUnsigned(v) + B^2 * DecodeUnsigned(Tail(Tail(v)))
    [] t = "bool" -> IF v[1] # 0 THEN 1 ELSE 0

-----------------------------------------------------------------------------
(* What instructions do to the stack. *)

OnTop(ts) == IsSuffix(ts, types)
Consumed(n) == SubSeq(types, 1, Len(types) - n)

(* The stack when its top operands, of the types ts, have been popped. *)
WithoutTop(s, ts) == Pop(s, Bytes(ts))

(* The bytes of the operand under others of the types above. *)
BytesUnder(above, t) == TopOf(WithoutTop(opstack, above), Size(t))
OperandUnder(above, t) == Decode(t, BytesUnder(above, t))

Continue(i, s, ts, printed) ==
  /\ did' = i
  /\ opstack' = s
  /\ types' = ts
  /\ shown' = printed
  /\ UNCHANGED <<ports, status>>

(* Operands of the types ts are popped, the bytes v of type t pushed. *)
Replace(i, ts, t, v) ==
  LET s == WithoutTop(opstack, ts) IN
  IF CanPush(s, Len(v))
  THEN Continue(i, Push(s, v), Append(Consumed(Len(ts)), t), <<>>)
  ELSE Exit("failed")

-----------------------------------------------------------------------------
(* Instructions. *)

(* PUSHL_U16, PUSHL_I16, PUSHL_F32; PUSH_MILLIS with a time among them.      *)
PushLiteral ==
  \/ \E t \in {"U16", "I16"}, n \in Literals : Replace(Op("PUSHL"), <<>>, t, Encode(n))
  \/ \E v \in F32Literals : Replace(Op("PUSHL"), <<>>, "F32", v)

(* PUSH_U16 of a port or of constant data: one byte either way.              *)
ByteAt(a) == IF a < PORTS THEN ports[a] ELSE Data[a - PORTS]
PushAddress(a) == Replace(At("PUSH", a), <<>>, "U16", Encode(ByteAt(a)))

PushPort == \E a \in 0 .. PORTS - 1 : PushAddress(a)
PushConstant == \E c \in DeclaredU16 : PushAddress(c.address)

(* C computes on ints and keeps the two low bytes, also where the int        *)
(* overflows in MUL and LSHIFT, as the builds wrap around.                   *)
DividedDown(a, b) == IF b > 0 THEN a \div b ELSE (-a) \div (-b)   \* a mutant
Divided(a, b) ==
  LET n == Abs(a) \div Abs(b) IN IF (a < 0) = (b < 0) THEN n ELSE -n

ArithmeticResult(op, a, b) ==
  CASE op = "ADD" -> a + b
    [] op = "SUB" -> a - b
    [] op = "MUL" -> a * b
    [] op = "DIV" -> Divided(a, b)

(* ADD, SUB, MUL and DIV of U16 and I16: the top operand is the second one.  *)
(* A division by zero is undefined.                                          *)
Calculate ==
  \E t \in {"U16", "I16"}, op \in {"ADD", "SUB", "MUL", "DIV"} :
    LET b == OperandUnder(<<>>, t)
        a == OperandUnder(<<t>>, t)
    IN /\ OnTop(<<t, t>>)
       /\ IF op = "DIV" /\ b = 0
          THEN Exit("undefined")
          ELSE Replace(Op(op), <<t, t>>, t, Encode(ArithmeticResult(op, a, b)))

(* The four of F32, with some F32 as the result. *)
CalculateF32 ==
  /\ OnTop(<<"F32", "F32">>)
  /\ \E v \in F32Literals : Replace(Op("F32"), <<"F32", "F32">>, "F32", v)

CompareResult(op, a, b) ==
  CASE op = "EQ" -> a = b
    [] op = "LT" -> a < b
    [] op = "GT" -> a > b
    [] op = "LE" -> a <= b
    [] op = "GE" -> a >= b

(* COMPARE reads two signed numbers, whatever they are. *)
Compare ==
  \E t \in ComparedTypes, op \in {"EQ", "LT", "GT", "LE", "GE"} :
    LET b == OperandUnder(<<>>, "I16")
        a == OperandUnder(<<t>>, "I16")
    IN /\ OnTop(<<t, t>>)
       /\ Replace(Op(op), <<t, t>>, "bool", EncodeBool(CompareResult(op, a, b)))

BitsOf(n) == {i \in 0 .. W - 1 : (n \div 2^i) % 2 = 1}
NumberOf(bits) ==
  LET sum[i \in 0 .. W] ==
        IF i = 0 THEN 0 ELSE sum[i - 1] + (IF i - 1 \in bits THEN 2^(i - 1) ELSE 0)
  IN sum[W]

CombinedBits(op, a, b) ==
  CASE op = "AND" -> a \cap b
    [] op = "OR"  -> a \cup b
    [] op = "XOR" -> (a \cup b) \ (a \cap b)

CombineBits ==
  \E op \in {"AND", "OR", "XOR"} :
    LET b == BitsOf(OperandUnder(<<>>, "U16"))
        a == BitsOf(OperandUnder(<<"U16">>, "U16"))
    IN /\ OnTop(<<"U16", "U16">>)
       /\ Replace(Op(op), <<"U16", "U16">>, "U16", Encode(NumberOf(CombinedBits(op, a, b))))

Complement ==
  /\ OnTop(<<"U16">>)
  /\ Replace(Op("NOT"), <<"U16">>, "U16", Encode(-1 - OperandUnder(<<>>, "U16")))

(* C leaves a shift by the bits of an int or more undefined: some number. *)
Shifted(op, a, b) ==
  IF b < 2 * W THEN {IF op = "LSHIFT" THEN a * 2^b ELSE a \div 2^b} ELSE 0 .. 2^W - 1

Shift ==
  \E op \in {"LSHIFT", "RSHIFT"} :
    LET b == OperandUnder(<<>>, "U16")
        a == OperandUnder(<<"U16">>, "U16")
    IN /\ OnTop(<<"U16", "U16">>)
       /\ \E n \in Shifted(op, a, b) : Replace(Op(op), <<"U16", "U16">>, "U16", Encode(n))

(* POP_U16, POP_I16, POP_F32. *)
Discard ==
  \E t \in {"U16", "I16", "F32"} :
    /\ OnTop(<<t>>)
    /\ Continue(Op("POP"), Pop(opstack, Size(t)), Consumed(1), <<>>)

JumpIfFalse ==
  /\ OnTop(<<"bool">>)
  /\ Continue(Op(IF OperandUnder(<<>>, "bool") = 0 THEN "JUMP" ELSE "STAY"),
              Pop(opstack, 1), Consumed(1), <<>>)

(* POPA_U16: the bank takes a uint8_t.  An address that is not a port's ends *)
(* the process, and PORTS stands for any such.                               *)
WritePort ==
  \E p \in 0 .. PORTS :
    /\ OnTop(<<"U16">>)
    /\ IF p < PORTS
       THEN /\ did' = At("POPA", p)
            /\ ports' = [ports EXCEPT ![p] = OperandUnder(<<>>, "U16") % B]
            /\ opstack' = Pop(opstack, 2)
            /\ types' = Consumed(1)
            /\ shown' = <<>>
            /\ UNCHANGED status
       ELSE Exit("failed")

(* TOP_U16, TOP_I16, TOP_F32. *)
Show ==
  \E t \in {"U16", "I16", "F32"} :
    /\ OnTop(<<t>>)
    /\ Continue(Op("TOP"), opstack, types, << OperandUnder(<<>>, t) >>)

(* SYSCALL 0: the address of the format is popped, then what it names in the *)
(* order of the format: U16 for %u, I16 for %i, F32 for %f, and for %s one   *)
(* byte, which only a truth value is.  Anything else in a format is printed  *)
(* as it stands and pops nothing.                                            *)
BuiltinPrint ==
  \E f \in Formats :
    LET ts == Reverse(f) \o <<"U16">>
        above(i) == Reverse(SubSeq(f, 1, i - 1)) \o <<"U16">>
    IN /\ OnTop(ts)
       /\ Continue(Op("PRINT"), WithoutTop(opstack, ts), Consumed(Len(ts)),
                   [i \in DOMAIN f |-> OperandUnder(above(i), f[i])])

Stopped == status # "running" /\ UNCHANGED vars

Instruction ==
  \/ PushLiteral \/ PushConstant \/ PushPort
  \/ Calculate \/ CalculateF32 \/ Compare \/ CombineBits \/ Complement \/ Shift
  \/ Discard \/ JumpIfFalse \/ WritePort \/ Show \/ BuiltinPrint

Next == (status = "running" /\ Instruction) \/ Stopped

Spec == Init /\ [][Next]_vars

-----------------------------------------------------------------------------
(* Properties. *)

TypeOK ==
  /\ opstack.data \in [0 .. OPSTACK_SIZE - 1 -> 0 .. B - 1]
  /\ opstack.size = OPSTACK_SIZE /\ opstack.bp = 0
  /\ opstack.sp = Bytes(types)
  /\ opstack.sp <= OPSTACK_SIZE
  /\ ports \in [0 .. PORTS - 1 -> 0 .. B - 1]
  /\ status \in {"running", "failed", "undefined"}

(* The operands the bytes stand for. *)
Operands ==
  [i \in DOMAIN types |->
     [type |-> types[i],
      value |-> OperandUnder(SubSeq(types, i + 1, Len(types)), types[i])]]

(* The bytes hold typed operands, and every instruction computes on them as  *)
(* their types compute (the instructions of instructions.c on stack.c).      *)
Promise == INSTANCE OperandStack
             WITH operands <- Operands, Float <- {Decode("F32", v) : v \in F32Literals},
                  Port <- 0 .. PORTS - 1, Constants <- DeclaredU16
OperandsKeepTheirTypes == Promise!Spec

=============================================================================
