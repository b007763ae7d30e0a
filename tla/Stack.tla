-------------------------------- MODULE Stack --------------------------------
(***************************************************************************)
(* The stacks of a task (stack.c): an array of cells, a stack pointer and  *)
(* a base pointer.  A cell is a byte, or a word in a module whose values   *)
(* all have the size of one.  A value is the sequence of its cells as the  *)
(* host keeps them, least significant first; on the stack they are in the  *)
(* opposite order.                                                         *)
(***************************************************************************)
EXTENDS Integers, Sequences

stack_create(size) ==
  [data |-> [i \in 0 .. size - 1 |-> 0], size |-> size, sp |-> 0, bp |-> 0]

(* Mutants: the address is checked and not the end; the value is written      *)
(* upwards though it is read downwards.                                      *)
CanWriteFrom(s, n, a) == a < s.size
WriteUpwards(s, v, a) ==
  [s EXCEPT !.data = [i \in DOMAIN s.data |->
                        IF i \in a .. a + Len(v) - 1 THEN v[i - a + 1] ELSE @[i]],
            !.sp = IF a + Len(v) > @ THEN a + Len(v) ELSE @]

CanWriteAt(s, n, a) == a + n <= s.size
WriteAt(s, v, a) ==
  [s EXCEPT !.data = [i \in DOMAIN s.data |->
                        IF i \in a .. a + Len(v) - 1 THEN v[Len(v) - (i - a)] ELSE @[i]],
            !.sp = IF a + Len(v) > @ THEN a + Len(v) ELSE @]

(* Only the size is compared with sp, not the address. *)
CanReadAt(s, n) == n <= s.sp
ReadAt(s, n, a) == [i \in 1 .. n |-> s.data[a + n - i]]

CanPush(s, n) == CanWriteAt(s, n, s.sp)
Push(s, v) == WriteAt(s, v, s.sp)

CanPop(s, n) == n <= s.sp
Pop(s, n) == [s EXCEPT !.sp = @ - n]
TopOf(s, n) == ReadAt(s, n, s.sp - n)

=============================================================================
