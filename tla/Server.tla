------------------------------- MODULE Server -------------------------------
(***************************************************************************)
(* Messages from outside (server.c, tools/send_message.c).  A client       *)
(* connects and sends a message, whose bytes may arrive in several pieces, *)
(* or it fails and closes the connection.  The machine accepts without     *)
(* blocking, but then reads once, and waits until there is something to    *)
(* read.                                                                   *)
(*                                                                         *)
(* Only the client whose connection the machine has accepted appears:      *)
(* whatever the others do, or this one did before, is the same to the      *)
(* machine if they do it once they are accepted.                           *)
(***************************************************************************)
EXTENDS Wire

CONSTANTS
  BUFFER_SIZE,  \* what the machine reads at once
  Pieces,       \* Bound: the numbers of bytes that may have arrived
  TextSizes,    \* the sizes of the texts clients send
  Destinations  \* the tasks they send them to

ASSUME ServerAssumption ==
  /\ BUFFER_SIZE \in Nat
  /\ Pieces \subseteq Nat
  /\ TextSizes \subseteq Nat
  /\ Destinations \subseteq Word

VARIABLES
  reading,      \* the message of the client in whose read the machine is, or NULL
  arrived,      \* how much of it has arrived
  closed        \* the client has closed the connection before sending

serverVars == <<reading, arrived, closed>>

ServerInit ==
  /\ reading = NULL
  /\ arrived = 0
  /\ closed = FALSE

(* The message the tool builds for a text and a task, whose size it keeps in *)
(* 16 bits.  No one ever compares the crc.                                   *)
Built(size, d) ==
  [vm_src |-> 0, vm_dst |-> 1, task_src |-> 0, task_dst |-> d, seq |-> 0,
   payload_size |-> size % (B * B), crc |-> B * B - 2, frag_id |-> 0, frag_total |-> 1,
   payload |-> [i \in 1 .. size % (B * B) |-> 1 + (i % (B - 1))]]

Sent == message_serialize(reading)

-----------------------------------------------------------------------------
(* The client. *)

Arrive ==
  /\ reading # NULL /\ ~closed
  /\ \E n \in Pieces : arrived < n /\ n <= Len(Sent) /\ arrived' = n
  /\ UNCHANGED <<reading, closed>>

Close ==
  /\ reading # NULL /\ arrived = 0
  /\ closed' = TRUE
  /\ UNCHANGED <<reading, arrived>>

(* server_receive_message, in two steps. *)
Accept ==
  /\ reading = NULL
  /\ \E n \in TextSizes, d \in Destinations : reading' = Built(n, d)
  /\ UNCHANGED <<arrived, closed>>

CanRead == reading # NULL /\ (arrived > 0 \/ closed)

Read ==
  /\ CanRead
  /\ reading' = NULL
  /\ arrived' = 0
  /\ closed' = FALSE

(* The message read, when it can be. *)
BytesRead == IF arrived < BUFFER_SIZE THEN arrived ELSE BUFFER_SIZE
Received ==
  IF BytesRead = 0 THEN NULL ELSE message_deserialize(SubSeq(Sent, 1, BytesRead))

-----------------------------------------------------------------------------
(* A message that is read is the one the client sent, or that message        *)
(* without its payload where not all of it was read; never another, and      *)
(* never with a part of the payload (message_deserialize on what one read    *)
(* returned).                                                                *)
ReceivedAsSent ==
  CanRead =>
    Received = IF BytesRead < HEADER THEN NULL
               ELSE IF BytesRead < HEADER + reading.payload_size
               THEN [reading EXCEPT !.payload = <<>>]
               ELSE reading

=============================================================================
