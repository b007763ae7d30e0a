---------------------------- MODULE MCCallFrames ----------------------------
(***************************************************************************)
(* A small instance of CallFrames: a stack of five words holds two calls,  *)
(* or one with variables; one of the two addresses is the handler's.       *)
(***************************************************************************)
EXTENDS CallFrames

Addresses == {0, 1}
Values == {0, 1}
OneWord == {1}

=============================================================================
