------------------------------- MODULE Mailbox -------------------------------
(***************************************************************************)
(* What the virtual machine promises about messages: every task has a      *)
(* mailbox from its creation to its end; a mailbox keeps at most Capacity  *)
(* messages and gives them back in the order they were accepted, each of   *)
(* them once.  Messaging.tla, the linked lists of the code, is shown to    *)
(* implement this.                                                         *)
(***************************************************************************)
EXTENDS Naturals, Sequences

CONSTANTS
  Task,       \* the identifiers of tasks
  Main,       \* the task that exists from the start
  Letter,     \* what is sent
  Capacity    \* how many letters a mailbox keeps

VARIABLES
  open,   \* the tasks that have a mailbox
  mail    \* the letters in each of them, the oldest first

vars == <<open, mail>>

Init ==
  /\ open = {Main}
  /\ mail = [t \in Task |-> <<>>]

Open(t) ==
  /\ t \notin open
  /\ open' = open \cup {t}
  /\ UNCHANGED mail

(* A letter is in one place only. *)
Post(t, l) ==
  /\ t \in open
  /\ Len(mail[t]) < Capacity
  /\ \A s \in Task : \A i \in DOMAIN mail[s] : mail[s][i] # l
  /\ mail' = [mail EXCEPT ![t] = Append(@, l)]
  /\ UNCHANGED open

Take(t) ==
  /\ t \in open
  /\ mail[t] # <<>>
  /\ mail' = [mail EXCEPT ![t] = Tail(@)]
  /\ UNCHANGED open

(* The tasks of S end, and their letters are thrown away with them. *)
Close(S) ==
  /\ S \subseteq open \ {Main}
  /\ open' = open \ S
  /\ mail' = [t \in Task |-> IF t \in S THEN <<>> ELSE mail[t]]

Next ==
  \/ \E t \in Task : Open(t) \/ Take(t)
  \/ \E t \in Task, l \in Letter : Post(t, l)
  \/ \E S \in SUBSET Task : Close(S)

Spec == Init /\ [][Next]_vars

=============================================================================
