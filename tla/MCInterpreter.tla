---------------------------- MODULE MCInterpreter ----------------------------
(***************************************************************************)
(* A small instance of Interpreter.  A byte of one bit makes numbers of    *)
(* two bits, all of which occur, and a stack of eight bytes has room for   *)
(* two F32.                                                                *)
(***************************************************************************)
EXTENDS Interpreter

(* As signed numbers 0, 1, -2 and -1.                                       *)
Numbers == 0 .. 3
TwoFloats == { <<1, 0, 1, 1>>, <<0, 1, 1, 0>> }

(* One constant at the first address after the ports, low byte first; it    *)
(* is less than a byte.                                                    *)
SmallConstant == [a \in 0 .. 1 |-> <<B - 1, 0>>[a + 1]]
DeclaredSmall == { [address |-> PORTS, value |-> B - 1] }

Signed == {"I16"}

Mixed == { <<"I16", "U16">>, <<"F32">>, <<"bool">> }

(* Bound: three operands, which the longest format and its address are.     *)
FewOperands == Len(types) <= 3

=============================================================================
