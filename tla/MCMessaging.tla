----------------------------- MODULE MCMessaging -----------------------------
(* Small instances of Messaging: one or two tasks besides main, inboxes of  *)
(* two messages, memory for four messages and three queues.                 *)
EXTENDS Messaging, TLC

NoTask == {}
Children == TaskId \ {Root}

Zeroed == {NULL}
Anything == {NULL, Wild} \cup Message

(* After that nothing more is claimed.                                      *)
NotAstray == ~astray

Addresses == Permutations(Queue) \cup Permutations(Message)

=============================================================================
