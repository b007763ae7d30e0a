---------------------------- MODULE OperandStack ----------------------------
(***************************************************************************)
(* What the instruction set promises about operands: every operand has a   *)
(* type and a value of that type; an instruction consumes the operands on  *)
(* top and leaves its result, computed as the type computes.  Numbers have *)
(* W bits and wrap around.  Interpreter.tla, an array of bytes, is shown   *)
(* to implement this.                                                      *)
(***************************************************************************)
EXTENDS Integers, Sequences, SequencesExt

CONSTANTS
  W,          \* the bits of a number
  Float,      \* the values of type F32, as numbers
  Port,       \* the addresses of ports
  Constants,  \* the constants the program declares: address and value
  Formats     \* what it prints with: the types of the operands to print

VARIABLES
  operands,  \* the operands, the top one last
  ports,     \* what the program has written to each port
  did,       \* the last instruction, and the address it is given
  shown      \* the values the last instruction printed

vars == <<operands, ports, did, shown>>

Value(t) ==
  CASE t = "U16"  -> 0 .. 2^W - 1
    [] t = "I16"  -> -(2^(W - 1)) .. 2^(W - 1) - 1
    [] t = "F32"  -> Float
    [] t = "bool" -> {0, 1}

Types == {"U16", "I16", "F32", "bool"}

(* The number of type t that n wraps around to. *)
Wrapped(t, n) ==
  LET least == IF t = "U16" THEN 0 ELSE -(2^(W - 1)) IN least + ((n - least) % 2^W)

(* Division rounds towards zero: the remainder has the sign of a. *)
Quotient(a, b) ==
  CHOOSE q \in -(2^W) .. 2^W :
    LET r == a - q * b IN r * r < b * b /\ r * a >= 0

Arithmetic(t, op, a, b) ==
  Wrapped(t, CASE op = "ADD" -> a + b
               [] op = "SUB" -> a - b
               [] op = "MUL" -> a * b
               [] op = "DIV" -> Quotient(a, b))

Order(op, a, b) ==
  CASE op = "EQ" -> a = b
    [] op = "LT" -> a < b
    [] op = "GT" -> a > b
    [] op = "LE" -> a <= b
    [] op = "GE" -> a >= b

Bit(v, i) == (v \div 2^i) % 2
Bits(op, x, y) ==
  CASE op = "AND" -> x * y
    [] op = "OR"  -> x + y - x * y
    [] op = "XOR" -> (x + y) % 2
BitwiseNumber(op, a, b) ==
  CHOOSE v \in Value("U16") : \A i \in 0 .. W - 1 : Bit(v, i) = Bits(op, Bit(a, i), Bit(b, i))

At(op, a) == [op |-> op, at |-> a]
Op(op) == At(op, 0)

Init ==
  /\ operands = <<>>
  /\ ports = [p \in Port |-> 0]
  /\ did = Op("")
  /\ shown = <<>>

(* The operands on top have the types ts, the top one last; they make way    *)
(* for new ones.                                                             *)
Consume(n) == SubSeq(operands, 1, Len(operands) - n)
OnTop(ts) ==
  /\ Len(ts) <= Len(operands)
  /\ \A i \in DOMAIN ts : operands[Len(operands) - Len(ts) + i].type = ts[i]
Operands(n) == [i \in 1 .. n |-> operands[Len(operands) - n + i].value]

(* Instruction i leaves v of type t for the n operands on top. *)
Replace(i, n, t, v) ==
  /\ did' = i
  /\ operands' = Append(Consume(n), [type |-> t, value |-> v])
  /\ shown' = <<>>
  /\ UNCHANGED ports

PushLiteral == \E t \in Types : \E v \in Value(t) : Replace(Op("PUSHL"), 0, t, v)
PushConstant == \E c \in Constants : Replace(At("PUSH", c.address), 0, "U16", c.value)
PushPort == \E p \in Port : Replace(At("PUSH", p), 0, "U16", ports[p])

Calculate ==
  \E t \in {"U16", "I16"}, op \in {"ADD", "SUB", "MUL", "DIV"} :
    LET a == Operands(2)[1]
        b == Operands(2)[2]
    IN /\ OnTop(<<t, t>>)
       /\ op = "DIV" => b # 0
       /\ Replace(Op(op), 2, t, Arithmetic(t, op, a, b))

CalculateF32 ==
  /\ OnTop(<<"F32", "F32">>)
  /\ \E v \in Float : Replace(Op("F32"), 2, "F32", v)

Compare ==
  \E t \in {"U16", "I16"}, op \in {"EQ", "LT", "GT", "LE", "GE"} :
    /\ OnTop(<<t, t>>)
    /\ Replace(Op(op), 2, "bool", IF Order(op, Operands(2)[1], Operands(2)[2]) THEN 1 ELSE 0)

CombineBits ==
  \E op \in {"AND", "OR", "XOR"} :
    /\ OnTop(<<"U16", "U16">>)
    /\ Replace(Op(op), 2, "U16", BitwiseNumber(op, Operands(2)[1], Operands(2)[2]))

Complement ==
  OnTop(<<"U16">>) /\ Replace(Op("NOT"), 1, "U16", 2^W - 1 - Operands(1)[1])

(* Nothing is promised of a shift by more than the bits of a C int, 2 W.     *)
Shift ==
  \E op \in {"LSHIFT", "RSHIFT"}, v \in Value("U16") :
    LET a == Operands(2)[1]
        b == Operands(2)[2]
    IN /\ OnTop(<<"U16", "U16">>)
       /\ b < 2 * W =>
            v = IF op = "LSHIFT" THEN Wrapped("U16", a * 2^b) ELSE a \div 2^b
       /\ Replace(Op(op), 2, "U16", v)

Discard ==
  /\ operands # <<>>
  /\ did' = Op("POP")
  /\ operands' = Consume(1)
  /\ shown' = <<>>
  /\ UNCHANGED ports

JumpIfFalse ==
  /\ OnTop(<<"bool">>)
  /\ did' = Op(IF Operands(1)[1] = 0 THEN "JUMP" ELSE "STAY")
  /\ operands' = Consume(1)
  /\ shown' = <<>>
  /\ UNCHANGED ports

(* A port takes the low byte. *)
WritePort ==
  \E p \in Port :
    /\ OnTop(<<"U16">>)
    /\ did' = At("POPA", p)
    /\ ports' = [ports EXCEPT ![p] = Operands(1)[1] % (2^(W \div 2))]
    /\ operands' = Consume(1)
    /\ shown' = <<>>

Show ==
  /\ operands # <<>>
  /\ did' = Op("TOP")
  /\ shown' = Operands(1)
  /\ UNCHANGED <<operands, ports>>

(* The values are printed from the top down, under the address of a format.  *)
BuiltinPrint ==
  \E f \in Formats :
    /\ OnTop(Reverse(f) \o <<"U16">>)
    /\ did' = Op("PRINT")
    /\ shown' = Tail(Reverse(Operands(Len(f) + 1)))
    /\ operands' = Consume(Len(f) + 1)
    /\ UNCHANGED ports

Next ==
  \/ PushLiteral \/ PushConstant \/ PushPort
  \/ Calculate \/ CalculateF32 \/ Compare \/ CombineBits \/ Complement \/ Shift
  \/ Discard \/ JumpIfFalse \/ WritePort \/ Show \/ BuiltinPrint

Spec == Init /\ [][Next]_vars

=============================================================================
