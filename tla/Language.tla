------------------------------- MODULE Language -------------------------------
(***************************************************************************)
(* The programs of programs/*.rfl, as sequences of statements and of the   *)
(* marks (constants, functions and labels) that name what follows them.    *)
(* A statement does something, with a name, another name and a number; it  *)
(* stands for the one to three instructions that programs write for it.    *)
(***************************************************************************)
EXTENDS Integers, SequencesExt, FiniteSetsExt

Statement(do, name, other, n) == [do |-> do, name |-> name, other |-> other, n |-> n]

IsMark(s) == s.do \in {"CONST U16", "CONST STRING", "fn", "label"}
IsPlace(s) == s.do \in {"fn", "label"}
IsConstant(s) == IsMark(s) /\ ~ IsPlace(s)

B == 256                                      \* the values of a byte

(* A word among the operands, its high byte first. *)
TwoBytes(n) == << n \div B, n % B >>

(* The text of a string constant: a character, %u, which prints a word, and  *)
(* the character after a %, which prints the two as they are.                *)
Percent == 37
LetterU == 117
Characters(n) == << n, Percent, LetterU, Percent, n >>

(* The first statement from the k-th on, or the end. *)
From(p, k) ==
  CHOOSE j \in k .. Len(p) + 1 :
    /\ j > Len(p) \/ ~ IsMark(p[j])
    /\ \A i \in k .. j - 1 : IsMark(p[i])

(* Of two marks with one name the last counts. *)
Place(p, name) == From(p, Max({i \in DOMAIN p : IsPlace(p[i]) /\ p[i].name = name}))
ConstantOf(p, name) == p[Max({i \in DOMAIN p : IsConstant(p[i]) /\ p[i].name = name})].n

=============================================================================
