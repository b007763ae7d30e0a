------------------------------- MODULE MCClock -------------------------------
(* A small clock: bytes of four values make a counter that wraps around     *)
(* after sixteen milliseconds.  delay_ms is asked for every delay there is, *)
(* .delay_ms for those whose end, with the milliseconds between two polls,  *)
(* is less than half of what the counter can tell.                          *)
EXTENDS Clock

AnyDelay == [how : {"delay_ms"}, ms : 0 .. M - 1]
ShortDelays == [how : {"delay.rfl"}, ms : 0 .. M \div 2 - 1 - Between]
Delays == AnyDelay \cup ShortDelays

=============================================================================
