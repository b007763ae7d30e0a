-------------------------------- MODULE Wire --------------------------------
(***************************************************************************)
(* The bytes of a message between machines (message_serialize and          *)
(* message_deserialize of messaging.c).  A message is a record of the      *)
(* fields of struct Message but `next'; a payload of <<>> is a null        *)
(* pointer.  Numbers have two bytes, the low one first, as on all targets. *)
(***************************************************************************)
EXTENDS Naturals, Sequences, Functions

CONSTANTS
  B,      \* the values of a byte: 256
  NULL    \* no message

(* The fields in the order of the buffer. *)
Words == <<"vm_src", "vm_dst", "task_src", "task_dst", "seq", "payload_size", "crc">>
Bytes == <<"frag_id", "frag_total">>
Fields == Range(Words) \cup Range(Bytes) \cup {"payload"}
HEADER == 2 * Len(Words) + Len(Bytes)

Byte == 0 .. B - 1
Word == 0 .. B * B - 1
MessageStruct ==
  [vm_src : Word, vm_dst : Word, task_src : Word, task_dst : Word, seq : Word,
   payload_size : Word, crc : Word, frag_id : Byte, frag_total : Byte, payload : Seq(Byte)]

ASSUME WireAssumption ==
  /\ B \in Nat /\ B > 1
  /\ NULL \notin MessageStruct

message_serialize(msg) ==
  LET word(i) == msg[Words[i]] IN
  [k \in 1 .. 2 * Len(Words) |-> IF k % 2 = 1 THEN word((k + 1) \div 2) % B
                                              ELSE word(k \div 2) \div B]
    \o [i \in DOMAIN Bytes |-> msg[Bytes[i]]]
    \o msg.payload

(* The payload is copied if the buffer holds all of it. *)
PayloadCutShort(buffer, size) ==             \* a mutant
  IF Len(buffer) > HEADER THEN SubSeq(buffer, HEADER + 1, Len(buffer)) ELSE <<>>
PayloadIn(buffer, size) ==
  IF HEADER + size <= Len(buffer) THEN SubSeq(buffer, HEADER + 1, HEADER + size) ELSE <<>>

At(fields, f) == CHOOSE i \in DOMAIN fields : fields[i] = f

message_deserialize(buffer) ==
  LET word(f) == buffer[2 * At(Words, f) - 1] + B * buffer[2 * At(Words, f)]
      byte(f) == buffer[2 * Len(Words) + At(Bytes, f)]
  IN IF Len(buffer) < HEADER THEN NULL
     ELSE [f \in Fields |-> IF f \in Range(Words) THEN word(f)
                            ELSE IF f \in Range(Bytes) THEN byte(f)
                            ELSE PayloadIn(buffer, word("payload_size"))]

=============================================================================
