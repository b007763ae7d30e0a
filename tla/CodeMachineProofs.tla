------------------------- MODULE CodeMachineProofs -------------------------
(***************************************************************************)
(* Proofs about CodeMachine, for any programs whose bytes keep the stack   *)
(* discipline (Disciplined), stacks of any size and any number of tasks.   *)
(***************************************************************************)
EXTENDS CodeMachine, ListLemmas, FiniteSetTheorems, TLAPS

(* What is computed with B and W uses these facts, not the numbers. *)
LEMMA Sizes ==
  B \in Nat \ {0} /\ W \in Nat \ {0} /\ B < W
BY DEF B, W

Octet == 0 .. B - 1
Word == 0 .. W - 1
Call == [back : Word, locals : Seq(0 .. B - 1)]
Task == [code : Word, handler : Word]

(* The function that call m executes. *)
Running(c, m) == IF m = Len(calls) THEN c.fn[ip] ELSE c.fn[calls[m + 1].back]

(* The certificate is followed: the machine is at an instruction, and will    *)
(* return to others, before which the top word is not known; only the code    *)
(* before main's is in no call.                                               *)
OnCourse(c) ==
  /\ ip \in DOMAIN c.depth
  /\ \A m \in 2 .. Len(calls) :
       calls[m].back \in DOMAIN c.depth /\ calls[m].back \notin DOMAIN c.top
  /\ \A m \in DOMAIN calls : (Running(c, m) = 0) <=> (m = 1)

(* Where the top word is known, that is what it is.                           *)
Known(c) == ip \in DOMAIN c.top => c.top[ip] = WordUnder(0)

(* The bytes of operands there were when the call in progress was made, not   *)
(* counting those that refused tasks left.                                    *)
Spare(c) == Len(opstack) - Leftovers - c.depth[ip]

(* h[m] is that number for call m.                                            *)
Balanced(c, h) ==
  /\ h[1] = 0
  /\ \A m \in 2 .. Len(calls) :
       h[m] + c.effect[Running(c, m)] = h[m - 1] + c.depth[calls[m].back]
  /\ h[Len(calls)] = Spare(c)

(* The inductive invariant. *)
IInv(c) ==
  /\ Disciplined(image, c)
  /\ TypeOK
  /\ LeftoversAreRefusals
  /\ OnCourse(c)
  /\ Known(c)
  /\ \E h \in [DOMAIN calls -> Int] : Balanced(c, h)

-----------------------------------------------------------------------------
(* Instructions and what the certificate says of them. *)

(* No two instructions have one opcode. *)
LEMMA OpcodesDiffer ==
  ASSUME NEW op \in DOMAIN Opcode, NEW other \in DOMAIN Opcode, Opcode[op] = Opcode[other]
  PROVE  op = other
BY DEF Opcode

(* An instruction takes one byte or three. *)
LEMMA Widths ==
  ASSUME NEW op \in DOMAIN Opcode
  PROVE  Width(op) = IF op \in {"HALT", "COMPARE_EQ", "RETURN", "PUSH_LOCAL", "POP_LOCAL"}
                     THEN 1 ELSE 3
BY DEF Opcode, Width, Size, Plain, Line, IsInstruction, HasOperand

(* The instruction the machine executes is one the certificate allows.       *)
LEMMA Allowed ==
  ASSUME NEW c, IInv(c), NEW op \in DOMAIN Opcode, IsAt(op)
  PROVE  /\ Keeps(image, c, ip, op)
         /\ ip + Width(op) <= Len(image.bytes)
<1>1. PICK other \in DOMAIN Opcode : /\ image.bytes[ip + 1] = Opcode[other]
                                     /\ ip + Width(other) <= Len(image.bytes)
                                     /\ Keeps(image, c, ip, other)
  BY Zenon DEF IInv, OnCourse, Disciplined, Allows
<1>2. other = op
  BY <1>1, OpcodesDiffer DEF IsAt, Byte
<1> QED
  BY <1>1, <1>2, Zenon

(* Types of what is fetched. *)
LEMMA Fetched ==
  ASSUME NEW c, IInv(c)
  PROVE  /\ image.bytes \in Seq(0 .. B - 1) /\ Len(image.bytes) \in 0 .. W
         /\ image.data_address \in Nat /\ image.data_address >= PORTS
         /\ ip \in Nat /\ ip \in Word
<1>1. Fits(image) /\ ip \in 0 .. W - 1
  BY Zenon DEF IInv, Disciplined, TypeOK
<1>2. image.bytes \in Seq(0 .. B - 1) /\ Len(image.bytes) <= W
      /\ image.data_address \in Nat /\ image.data_address >= PORTS
  BY <1>1, Zenon DEF Fits
<1>3. Len(image.bytes) \in Nat
  BY <1>2, LenProperties
<1> QED
  BY <1>1, <1>2, <1>3 DEF Word

(* Two bytes make a word, and a word is two bytes. *)
LEMMA OperandOfBytes ==
  ASSUME NEW low \in 0 .. B - 1, NEW high \in 0 .. B - 1
  PROVE  low + B * high \in Word
<1>1. low + B * high \in Nat /\ low + B * high < W
  BY DEF B, W
<1> QED
  BY <1>1, Sizes DEF Word

LEMMA WordOfBytes ==
  ASSUME NEW high \in 0 .. B - 1, NEW low \in 0 .. B - 1
  PROVE  B * high + low \in Word
<1>1. low + B * high \in Word
  BY OperandOfBytes, Zenon
<1>2. B * high + low = low + B * high
  BY DEF B
<1> QED
  BY <1>1, <1>2, Zenon

LEMMA BytesOfWord ==
  ASSUME NEW x \in Word
  PROVE  x \div B \in 0 .. B - 1 /\ x % B \in 0 .. B - 1
<1>1. x \in Nat /\ x < B * B
  BY Sizes DEF Word, W
<1>2. B = 256
  BY DEF B
<1> QED
  BY <1>1, <1>2

(* Types of the certificate. *)
LEMMA Certified ==
  ASSUME NEW c, IInv(c)
  PROVE  /\ ip \in DOMAIN c.depth
         /\ \A a \in DOMAIN c.depth : a \in 0 .. W - 1 /\ c.depth[a] \in Int
                                     /\ c.effect[c.fn[a]] \in Int
<1>1. IsCertificate(image, c) /\ ip \in DOMAIN c.depth
  BY Zenon DEF IInv, Disciplined, OnCourse
<1>2. SUFFICES ASSUME NEW a \in DOMAIN c.depth
               PROVE  a \in 0 .. W - 1 /\ c.depth[a] \in Int /\ c.effect[c.fn[a]] \in Int
  BY <1>1
<1>3. a \in 0 .. Len(image.bytes) - 1
  BY <1>1, Zenon DEF IsCertificate
<1>4. a \in 0 .. W - 1
  BY <1>3, Fetched, Sizes
<1>5. c.depth[a] \in Int /\ c.effect[c.fn[a]] \in Int
  BY <1>1, Zenon DEF IsCertificate
<1> QED
  BY <1>4, <1>5

(* Its operand is a word. *)
LEMMA OperandIsWord ==
  ASSUME NEW c, IInv(c), NEW op \in DOMAIN Opcode, IsAt(op), Width(op) = 3
  PROVE  Operand = OperandAt(image, ip) /\ Operand \in Word
<1>1. ip + 3 <= Len(image.bytes) /\ ip \in Nat /\ Len(image.bytes) \in Nat
  <2>1. ip + Width(op) <= Len(image.bytes) /\ ip \in Nat /\ Len(image.bytes) \in 0 .. W
    BY Allowed, Fetched, Zenon
  <2> QED
    BY <2>1
<1>2. image.bytes[ip + 2] \in 0 .. B - 1 /\ image.bytes[ip + 3] \in 0 .. B - 1
  <2>1. ip + 2 \in 1 .. Len(image.bytes) /\ ip + 3 \in 1 .. Len(image.bytes)
    BY <1>1
  <2> QED
    <3>1. image.bytes \in Seq(0 .. B - 1)
      BY Fetched, Zenon
    <3> QED
      BY <2>1, <3>1, ElementOfSeq
<1>3. Operand = OperandAt(image, ip)
  BY <1>1 DEF Operand, OperandAt, Byte
<1> QED
  BY <1>2, <1>3, OperandOfBytes, Zenon DEF OperandAt

(* Where most instructions lead, and how many bytes they leave there.        *)
LEMMA GoesOn ==
  ASSUME NEW c, IInv(c), NEW op \in DOMAIN Opcode, IsAt(op),
         op \notin {"HALT", "RETURN", "JUMP", "CALL", "SYSCALL", "PUSHL_U16"}
  PROVE  LET next == ip + Width(op) IN
         /\ next \in DOMAIN c.depth /\ c.fn[next] = c.fn[ip]
         /\ c.depth[next] = c.depth[ip] + Pushes(op)
         /\ next \notin DOMAIN c.top
<1>1. Keeps(image, c, ip, op)
  BY Allowed
<1>2. CASE op = "POP_JUMP_IF_FALSE"
  BY <1>1, <1>2 DEF Keeps, Pushes
<1>3. CASE op # "POP_JUMP_IF_FALSE"
  BY <1>1, <1>3 DEF Keeps
<1> QED
  BY <1>2, <1>3

-----------------------------------------------------------------------------
(* Steps. *)

(* Nothing changes but the status. *)
LEMMA ExitKeeps ==
  ASSUME NEW c, IInv(c), NEW how \in {"halted", "failed", "undefined"}, Exit(how),
         how = "halted" => Len(opstack) = Leftovers
  PROVE  IInv(c)'
<1>1. /\ status' = how
      /\ UNCHANGED <<program, image, listing, ip, opstack, calls, tasks, refused, printed>>
  BY DEF Exit
<1>2. TypeOK'
  <2>1. TypeOK
    BY DEF IInv
  <2> QED
    BY <1>1, <2>1 DEF TypeOK
<1>3. LeftoversAreRefusals'
  BY <1>1, Zenon DEF LeftoversAreRefusals, Leftovers
<1>4. Disciplined(image, c)'
  BY <1>1, Zenon DEF IInv
<1>5. OnCourse(c)' /\ Known(c)'
  BY <1>1, Zenon DEF IInv, OnCourse, Running, Known, WordUnder, ByteUnder
<1>6. \E h \in [DOMAIN calls' -> Int] : Balanced(c, h)'
  <2>1. PICK h \in [DOMAIN calls -> Int] : Balanced(c, h)
    BY Zenon DEF IInv
  <2>2. Balanced(c, h)'
    BY <1>1, <2>1, Zenon DEF Balanced, Running, Spare, Leftovers
  <2> QED
    BY <1>1, <2>2, Zenon
<1> QED
  BY <1>2, <1>3, <1>4, <1>5, <1>6, Zenon DEF IInv

(* The calls in progress are as many as the indices they have.               *)
LEMMA CallIndices ==
  ASSUME NEW c, IInv(c)
  PROVE  /\ calls \in Seq(Call) /\ Len(calls) \in Nat \ {0}
         /\ DOMAIN calls = 1 .. Len(calls)
<1>1. calls \in Seq(Call) /\ calls # <<>>
  BY Zenon DEF IInv, TypeOK, Call, Word
<1> QED
  BY <1>1, EmptySeq

(* A step within a function, which gains or loses as many bytes as the       *)
(* certificate says.                                                         *)
LEMMA StepWithin ==
  ASSUME NEW c, IInv(c), status = "running", TypeOK', UNCHANGED <<image, status>>,
         ip' \in DOMAIN c.depth, c.fn[ip'] = c.fn[ip],
         Len(calls') = Len(calls),
         \A m \in 1 .. Len(calls) : calls'[m].back = calls[m].back,
         Known(c)', Spare(c)' = Spare(c)
  PROVE  IInv(c)'
<1> DEFINE n == Len(calls)
<1>1. n \in Nat \ {0} /\ DOMAIN calls = 1 .. n
  BY CallIndices
<1>2. DOMAIN calls' = 1 .. n
  <2>1. calls' \in Seq(Call)
    BY Zenon DEF TypeOK, Call, Word
  <2> QED
    BY <2>1
<1>3. \A m \in 1 .. n : Running(c, m)' = Running(c, m)
  <2> SUFFICES ASSUME NEW m \in 1 .. n
               PROVE  Running(c, m)' = Running(c, m)
    OBVIOUS
  <2>1. CASE m = n
    BY <2>1, Zenon DEF Running
  <2>2. CASE m # n
    <3>1. m + 1 \in 1 .. n
      BY <1>1, <2>2
    <3> QED
      BY <2>2, <3>1, Zenon DEF Running
  <2> QED
    BY <2>1, <2>2
<1>4. OnCourse(c)'
  <2>1. \A m \in 2 .. n : m \in 1 .. n
    BY <1>1
  <2>2. OnCourse(c)
    BY DEF IInv
  <2> QED
    BY <1>1, <1>2, <1>3, <2>1, <2>2, Zenon DEF OnCourse
<1>5. \E h \in [DOMAIN calls' -> Int] : Balanced(c, h)'
  <2>1. PICK h \in [1 .. n -> Int] : Balanced(c, h)
    BY <1>1, Zenon DEF IInv
  <2>2. \A m \in 2 .. n : h[m] + c.effect[Running(c, m)'] = h[m - 1] + c.depth[calls'[m].back]
    <3>1. \A m \in 2 .. n : m \in 1 .. n
      BY <1>1
    <3> QED
      BY <1>3, <2>1, <3>1, Zenon DEF Balanced
  <2>3. h[n] = Spare(c)'
    BY <2>1, Zenon DEF Balanced
  <2>4. Balanced(c, h)'
    BY <2>1, <2>2, <2>3, Zenon DEF Balanced
  <2> QED
    BY <1>2, <2>1, <2>4, Zenon
<1>6. Disciplined(image, c)' /\ LeftoversAreRefusals'
  BY DEF IInv, LeftoversAreRefusals
<1> QED
  BY <1>4, <1>5, <1>6, Zenon DEF IInv

(* The types of all variables. *)
LEMMA Types ==
  ASSUME NEW c, IInv(c)
  PROVE  /\ opstack \in Seq(Octet) /\ Len(opstack) \in Nat /\ Len(opstack) <= OPSTACK_SIZE
         /\ calls \in Seq(Call) /\ calls # <<>>
         /\ tasks \in Seq(Task) /\ Len(tasks) <= MAX_TASKS
         /\ refused \in Nat /\ Leftovers \in Nat /\ printed \in Seq(Seq(Octet))
<1>1. TypeOK
  BY DEF IInv
<1>2. opstack \in Seq(Octet)
  BY <1>1, Zenon DEF TypeOK, Octet
<1>3. refused \in Nat
  BY <1>1, Zenon DEF TypeOK
<1>4. Leftovers \in Nat
  BY <1>3 DEF Leftovers
<1> QED
  BY <1>1, <1>2, <1>3, <1>4, LenProperties, Zenon DEF TypeOK, Call, Task, Word, Octet

LEMMA TypesAfter ==
  ASSUME NEW c, IInv(c), UNCHANGED <<image, status>>, ip' \in DOMAIN c.depth,
         opstack' \in Seq(Octet), Len(opstack') <= OPSTACK_SIZE,
         calls' \in Seq(Call), calls' # <<>>,
         tasks' \in Seq(Task), Len(tasks') <= MAX_TASKS,
         refused' \in Nat, printed' \in Seq(Seq(Octet))
  PROVE  TypeOK'
<1>1. ip' \in 0 .. W - 1
  BY Certified, Zenon
<1>2. TypeOK /\ image' = image /\ status' = status
  BY DEF IInv
<1>3. /\ image'.bytes \in Seq(0 .. B - 1)
      /\ status' \in {"running", "halted", "failed", "undefined"}
  BY <1>2, Zenon DEF TypeOK
<1> QED
  BY <1>1, <1>3, Zenon DEF TypeOK, Call, Task, Word, Octet

(* What is popped, and what is left. *)
LEMMA Popped ==
  ASSUME NEW c, IInv(c), NEW k \in Nat, Holds(k)
  PROVE  /\ Under(k) \in Seq(Octet) /\ Len(Under(k)) = Len(opstack) - k
         /\ \A j \in 0 .. k - 1 : ByteUnder(j) \in Octet
<1>1. opstack \in Seq(Octet) /\ Len(opstack) \in Nat /\ k <= Len(opstack)
  BY Types DEF Holds
<1> DEFINE n == Len(opstack)
<1>2. n - k \in Nat /\ \A i \in 1 .. n - k : i \in 1 .. n
  BY <1>1
<1>3. Under(k) \in Seq(Octet) /\ Len(Under(k)) = n - k
  BY <1>1, <1>2, SubSeqProperties DEF Under
<1>4. ASSUME NEW j \in 0 .. k - 1
      PROVE  ByteUnder(j) \in Octet
  <2>1. n - j \in 1 .. n
    BY <1>1
  <2> QED
    BY <1>1, <2>1, ElementOfSeq DEF ByteUnder
<1> QED
  BY <1>3, <1>4

(* A word is popped. *)
LEMMA PoppedWord ==
  ASSUME NEW c, IInv(c), NEW k \in Nat, NEW j \in Nat, j + 2 <= k, Holds(k)
  PROVE  WordUnder(j) \in Word
<1>1. j \in 0 .. k - 1 /\ j + 1 \in 0 .. k - 1
  OBVIOUS
<1>2. ByteUnder(j) \in 0 .. B - 1 /\ ByteUnder(j + 1) \in 0 .. B - 1
  BY <1>1, Popped, Zenon DEF Octet
<1> QED
  BY <1>2, WordOfBytes, Zenon DEF WordUnder

(* Sequences that get longer. *)
LEMMA TwoMore ==
  ASSUME NEW S, NEW s \in Seq(S), NEW x \in S, NEW y \in S
  PROVE  LET t == s \o << x, y >> IN
         t \in Seq(S) /\ Len(t) = Len(s) + 2 /\ t[Len(s) + 1] = x /\ t[Len(s) + 2] = y
OBVIOUS

LEMMA Joined ==
  ASSUME NEW S, NEW s \in Seq(S), NEW t \in Seq(S)
  PROVE  s \o t \in Seq(S) /\ Len(s \o t) = Len(s) + Len(t)
BY ConcatProperties

(* A word is pushed as two bytes, and is the top word then. *)
LEMMA PushedWord ==
  ASSUME NEW c, IInv(c), CanPush(2), NEW x \in Word, opstack' = opstack \o TwoBytes(x)
  PROVE  /\ opstack' \in Seq(Octet) /\ Len(opstack') = Len(opstack) + 2
         /\ Len(opstack') <= OPSTACK_SIZE
         /\ WordUnder(0)' = x
<1>1. opstack \in Seq(Octet) /\ Len(opstack) \in Nat /\ OPSTACK_SIZE \in Nat
  BY Types, CodeMachineAssumption
<1> DEFINE n == Len(opstack)
           high == x \div B
           low == x % B
<1>2. high \in Octet /\ low \in Octet
  BY BytesOfWord, Zenon DEF Octet
<1>3. opstack' = opstack \o << high, low >>
  BY Zenon DEF TwoBytes
<1>4. x = B * high + low
  BY Sizes DEF Word
<1> HIDE DEF high, low
<1>5. /\ opstack' \in Seq(Octet) /\ Len(opstack') = n + 2
      /\ opstack'[n + 1] = high /\ opstack'[n + 2] = low
  BY <1>1, <1>2, <1>3, TwoMore
<1>6. ByteUnder(0)' = low /\ ByteUnder(0 + 1)' = high
  BY <1>1, <1>5 DEF ByteUnder
<1>7. WordUnder(0)' = x
  BY <1>4, <1>6, Zenon DEF WordUnder
<1>8. Len(opstack') <= OPSTACK_SIZE
  BY <1>1, <1>5 DEF CanPush
<1> QED
  BY <1>5, <1>7, <1>8

LEMMA SpareKept ==
  ASSUME NEW c, IInv(c), NEW k \in Int, c.depth[ip'] = c.depth[ip] + k,
         opstack' \in Seq(Octet), refused' \in Nat,
         Len(opstack') + Leftovers = Len(opstack) + Leftovers' + k
  PROVE  Spare(c)' = Spare(c)
<1> DEFINE a == Len(opstack)
           b == Len(opstack')
           d == c.depth[ip]
           r == Leftovers
           s == Leftovers'
<1>1. a \in Int /\ r \in Int /\ s \in Int
  <2>1. s \in Int
    BY DEF Leftovers
  <2> QED
    BY <2>1, Types
<1>2. b \in Int
  BY LenProperties
<1>3. d \in Int
  BY Certified, Zenon
<1>4. b + r = a + s + k
  OBVIOUS
<1> HIDE DEF a, b, d, r, s
<1>5. b - s - (d + k) = a - r - d
  BY <1>1, <1>2, <1>3, <1>4
<1> QED
  BY <1>5 DEF Spare, a, b, d, r, s

(* A shorter operand stack, with no task refused. *)
LEMMA Shorter ==
  ASSUME NEW c, IInv(c), NEW k \in Nat, Len(opstack') = Len(opstack) - k
  PROVE  Len(opstack') = Len(opstack) + -k /\ Len(opstack') <= OPSTACK_SIZE
BY Types, CodeMachineAssumption

LEMMA NoneRefused ==
  ASSUME NEW c, IInv(c), NEW k \in Int, refused' = refused,
         Len(opstack') = Len(opstack) + k
  PROVE  Len(opstack') + Leftovers = Len(opstack) + Leftovers' + k
<1>1. Len(opstack) \in Nat /\ Leftovers \in Nat
  BY Types, Zenon
<1>2. Leftovers' = Leftovers
  BY Zenon DEF Leftovers
<1> DEFINE r == Leftovers
<1> HIDE DEF r
<1> QED
  BY <1>1, <1>2 DEF r

(* A sequence of one byte, over and over. *)
LEMMA Repeated ==
  ASSUME NEW S, NEW x \in S, NEW n \in Nat
  PROVE  [i \in 1 .. n |-> x] \in Seq(S)
OBVIOUS

LEMMA ByteIsWord ==
  ASSUME NEW x \in 0 .. B - 1
  PROVE  x \in Word
BY Sizes DEF Word

(* No top word is known there. *)
LEMMA NoneKnown ==
  ASSUME NEW c, ip' \notin DOMAIN c.top
  PROVE  Known(c)'
BY Zenon DEF Known

(* An instruction that goes on, or jumps, within the function. *)
LEMMA Moves ==
  ASSUME NEW c, IInv(c), NEW k \in Int, status = "running", UNCHANGED <<image, status>>,
         ip' \in DOMAIN c.depth, c.fn[ip'] = c.fn[ip], c.depth[ip'] = c.depth[ip] + k,
         Known(c)',
         calls' \in Seq(Call), Len(calls') = Len(calls),
         \A m \in 1 .. Len(calls) : calls'[m].back = calls[m].back,
         opstack' \in Seq(Octet), Len(opstack') <= OPSTACK_SIZE,
         tasks' \in Seq(Task), Len(tasks') <= MAX_TASKS,
         refused' \in Nat, printed' \in Seq(Seq(Octet)),
         Len(opstack') + Leftovers = Len(opstack) + Leftovers' + k
  PROVE  IInv(c)'
<1>1. calls' # <<>>
  BY CallIndices, EmptySeq
<1>2. TypeOK'
  BY <1>1, TypesAfter, Zenon
<1>3. Spare(c)' = Spare(c)
  BY SpareKept, Zenon
<1> QED
  BY <1>2, <1>3, StepWithin, Zenon

(* One that is followed by the next one. *)
LEMMA Onward ==
  ASSUME NEW c, IInv(c), NEW op \in DOMAIN Opcode, IsAt(op),
         op \notin {"HALT", "RETURN", "JUMP", "CALL", "SYSCALL", "PUSHL_U16"}, GoOn(Width(op)),
         calls' \in Seq(Call), Len(calls') = Len(calls),
         \A m \in 1 .. Len(calls) : calls'[m].back = calls[m].back,
         opstack' \in Seq(Octet), Len(opstack') <= OPSTACK_SIZE,
         tasks' \in Seq(Task), Len(tasks') <= MAX_TASKS,
         refused' \in Nat, printed' \in Seq(Seq(Octet)),
         Len(opstack') + Leftovers = Len(opstack) + Leftovers' + Pushes(op)
  PROVE  IInv(c)'
<1>1. /\ ip' = ip + Width(op) /\ UNCHANGED <<image, status>> /\ status = "running"
  BY DEF GoOn, IsAt
<1>2. /\ ip' \in DOMAIN c.depth /\ c.fn[ip'] = c.fn[ip]
      /\ c.depth[ip'] = c.depth[ip] + Pushes(op)
      /\ ip' \notin DOMAIN c.top
  BY <1>1, GoesOn, Zenon
<1>3. Pushes(op) \in Int
  BY DEF Pushes
<1>4. Known(c)'
  BY <1>2, NoneKnown, Zenon
<1> QED
  BY <1>1, <1>2, <1>3, <1>4, Moves, Zenon

(* One that changes nothing but the operand stack, which gets k bytes longer. *)
LEMMA MovesWithOperands ==
  ASSUME NEW c, IInv(c), NEW k \in Int, status = "running", UNCHANGED <<image, status>>,
         ip' \in DOMAIN c.depth, c.fn[ip'] = c.fn[ip], c.depth[ip'] = c.depth[ip] + k,
         Known(c)',
         UNCHANGED <<calls, tasks, refused, printed>>,
         opstack' \in Seq(Octet), Len(opstack') <= OPSTACK_SIZE,
         Len(opstack') = Len(opstack) + k
  PROVE  IInv(c)'
<1>1. /\ calls' = calls /\ tasks' = tasks /\ refused' = refused /\ printed' = printed
  OBVIOUS
<1>2. Len(opstack') + Leftovers = Len(opstack) + Leftovers' + k
  BY NoneRefused
<1> QED
  BY <1>1, <1>2, Types, Moves, Zenon

(* One that changes nothing but the operand stack. *)
LEMMA OnwardWithOperands ==
  ASSUME NEW c, IInv(c), NEW op \in DOMAIN Opcode, IsAt(op),
         op \notin {"HALT", "RETURN", "JUMP", "CALL", "SYSCALL", "PUSHL_U16"}, GoOn(Width(op)),
         UNCHANGED <<calls, tasks, refused, printed>>,
         opstack' \in Seq(Octet), Len(opstack') <= OPSTACK_SIZE,
         Len(opstack') = Len(opstack) + Pushes(op)
  PROVE  IInv(c)'
<1>1. /\ calls' = calls /\ tasks' = tasks /\ refused' = refused /\ printed' = printed
  OBVIOUS
<1>2. Len(opstack') + Leftovers = Len(opstack) + Leftovers' + Pushes(op)
  <2>1. Pushes(op) \in Int
    BY DEF Pushes
  <2> QED
    BY <1>1, <2>1, NoneRefused
<1> QED
  BY <1>1, <1>2, Types, Onward, Zenon

-----------------------------------------------------------------------------
(* Instructions. *)

LEMMA HaltKeeps ==
  ASSUME NEW c, IInv(c), halt
  PROVE  IInv(c)'
<1>1. IsAt("HALT") /\ Exit("halted") /\ "HALT" \in DOMAIN Opcode
  BY DEF halt, Opcode
<1>2. c.fn[ip] = 0 /\ c.depth[ip] = 0
  <2>1. Keeps(image, c, ip, "HALT")
    BY <1>1, Allowed, Zenon
  <2> QED
    BY <2>1 DEF Keeps
<1>3. Len(calls) = 1
  <2>1. Len(calls) \in DOMAIN calls
    BY CallIndices
  <2>2. Running(c, Len(calls)) = 0
    BY <1>2, Zenon DEF Running
  <2> QED
    BY <2>1, <2>2, Zenon DEF IInv, OnCourse
<1>4. Len(opstack) = Leftovers
  <2>1. PICK h \in [DOMAIN calls -> Int] : Balanced(c, h)
    BY Zenon DEF IInv
  <2>2. Spare(c) = 0
    BY <1>3, <2>1, Zenon DEF Balanced
  <2> DEFINE a == Len(opstack)
             r == Leftovers
  <2>3. a - r - 0 = 0
    BY <1>2, <2>2, Zenon DEF Spare
  <2>4. a \in Int /\ r \in Int
    BY Types
  <2> HIDE DEF a, r
  <2>5. a = r
    BY <2>3, <2>4
  <2> QED
    BY <2>5 DEF a, r
<1> QED
  BY <1>1, <1>4, ExitKeeps, Zenon

(* What fails or is undefined changes nothing. *)
LEMMA ExitsKeep ==
  ASSUME NEW c, IInv(c), NEW how \in {"failed", "undefined"}, Exit(how)
  PROVE  IInv(c)'
BY ExitKeeps

LEMMA PushLiteralKeeps ==
  ASSUME NEW c, IInv(c), push_literal_U16
  PROVE  IInv(c)'
<1>1. IsAt("PUSHL_U16") /\ "PUSHL_U16" \in DOMAIN Opcode /\ status = "running"
  BY DEF push_literal_U16, Opcode, IsAt
<1>2. Width("PUSHL_U16") = 3
  BY <1>1, Widths
<1>3. CASE CanPush(2)
  <2>1. /\ ip' = ip + 3 /\ opstack' = opstack \o TwoBytes(Operand)
        /\ UNCHANGED <<image, status, calls, tasks, refused, printed>>
    BY <1>3 DEF push_literal_U16, GoOn
  <2>2. Operand \in Word /\ Operand = OperandAt(image, ip)
    BY <1>1, <1>2, OperandIsWord, Zenon
  <2>3. /\ opstack' \in Seq(Octet) /\ Len(opstack') = Len(opstack) + 2
        /\ Len(opstack') <= OPSTACK_SIZE /\ WordUnder(0)' = Operand
    BY <1>3, <2>1, <2>2, PushedWord, Zenon
  <2>4. /\ ip' \in DOMAIN c.depth /\ c.fn[ip'] = c.fn[ip] /\ c.depth[ip'] = c.depth[ip] + 2
        /\ ip' \in DOMAIN c.top => c.top[ip'] = OperandAt(image, ip)
    <3>1. Keeps(image, c, ip, "PUSHL_U16")
      BY <1>1, Allowed, Zenon
    <3> QED
      BY <1>2, <2>1, <3>1 DEF Keeps
  <2>5. Known(c)'
    BY <2>2, <2>3, <2>4, Zenon DEF Known
  <2>6. 2 \in Int
    OBVIOUS
  <2> QED
    BY <1>1, <2>1, <2>3, <2>4, <2>5, <2>6, MovesWithOperands, Zenon
<1>4. CASE ~ CanPush(2)
  BY <1>4, ExitsKeep, Zenon DEF push_literal_U16
<1> QED
  BY <1>3, <1>4

LEMMA PushKeeps ==
  ASSUME NEW c, IInv(c), push_U16
  PROVE  IInv(c)'
<1>1. IsAt("PUSH_U16") /\ "PUSH_U16" \in DOMAIN Opcode
  BY DEF push_U16, Opcode
<1>2. Width("PUSH_U16") = 3 /\ Pushes("PUSH_U16") = 2
  BY <1>1, Widths DEF Pushes
<1> DEFINE n == Operand
           a == DataAt(image, n)
<1>3. CASE ~ (n < PORTS) /\ InProgram(a) /\ CanPush(2)
  <2>1. /\ GoOn(3) /\ opstack' = opstack \o TwoBytes(Byte(a))
        /\ UNCHANGED <<calls, tasks, refused, printed>>
    BY <1>3, Zenon DEF push_U16
  <2>2. n \in Nat
    <3>1. n \in Word
      BY <1>1, <1>2, OperandIsWord, Zenon
    <3> QED
      BY <3>1, Sizes DEF Word
  <2>3. Byte(a) \in Word
    <3>1. image.data_address \in Nat /\ Len(image.bytes) \in Nat /\ image.bytes \in Seq(0 .. B - 1)
      BY Fetched, LenProperties, Zenon
    <3> HIDE DEF n
    <3>2. a + 1 \in 1 .. Len(image.bytes)
      BY <1>3, <2>2, <3>1 DEF DataAt, PORTS, InProgram
    <3>3. image.bytes[a + 1] \in 0 .. B - 1
      BY <3>1, <3>2, ElementOfSeq, Zenon
    <3> QED
      BY <3>3, ByteIsWord, Zenon DEF Byte
  <2>4. opstack' \in Seq(Octet) /\ Len(opstack') = Len(opstack) + 2 /\ Len(opstack') <= OPSTACK_SIZE
    BY <1>3, <2>1, <2>3, PushedWord, Zenon
  <2> QED
    BY <1>1, <1>2, <2>1, <2>4, OnwardWithOperands
<1>4. CASE n < PORTS \/ ~ InProgram(a) \/ ~ CanPush(2)
  <2>1. Exit("failed") \/ Exit("undefined")
    BY <1>4, Zenon DEF push_U16
  <2> QED
    BY <2>1, ExitsKeep
<1> QED
  BY <1>3, <1>4, Zenon

LEMMA CompareKeeps ==
  ASSUME NEW c, IInv(c), compare_equal
  PROVE  IInv(c)'
<1>1. IsAt("COMPARE_EQ") /\ "COMPARE_EQ" \in DOMAIN Opcode
  BY DEF compare_equal, Opcode
<1>2. Width("COMPARE_EQ") = 1 /\ Pushes("COMPARE_EQ") = -3
  BY <1>1, Widths DEF Pushes
<1>3. CASE Holds(4)
  <2> DEFINE x == IF WordUnder(2) = WordUnder(0) THEN 1 ELSE 0
  <2>1. /\ GoOn(1) /\ UNCHANGED <<calls, tasks, refused, printed>>
        /\ opstack' = Append(Under(4), x)
    BY <1>3, Zenon DEF compare_equal
  <2>2. x \in Octet
    BY DEF Octet, B
  <2>3. Under(4) \in Seq(Octet) /\ Len(Under(4)) = Len(opstack) - 4
    BY <1>3, Popped
  <2> HIDE DEF x
  <2>4. opstack' \in Seq(Octet) /\ Len(opstack') = (Len(opstack) - 4) + 1
    BY <2>1, <2>2, <2>3, AppendProperties
  <2>5. Len(opstack') = Len(opstack) - 3
    BY <2>4, Types
  <2>6. Len(opstack') = Len(opstack) + -3 /\ Len(opstack') <= OPSTACK_SIZE
    BY <2>5, Shorter
  <2> QED
    BY <1>1, <1>2, <2>1, <2>4, <2>6, OnwardWithOperands
<1>4. CASE ~ Holds(4)
  BY <1>4, ExitsKeep, Zenon DEF compare_equal
<1> QED
  BY <1>3, <1>4

(* The variables of the call in progress, and new ones in their place. *)
LEMMA LastCall ==
  ASSUME NEW c, IInv(c)
  PROVE  /\ Last(calls) = calls[Len(calls)] /\ calls[Len(calls)] \in Call
         /\ Last(calls).locals \in Seq(0 .. B - 1)
         /\ calls[Len(calls)].locals \in Seq(0 .. B - 1)
<1>1. calls[Len(calls)] \in Call
  BY CallIndices, ElementOfSeq
<1> QED
  BY <1>1 DEF Last, Call

LEMMA LocalsChange ==
  ASSUME NEW c, IInv(c), NEW v \in Seq(0 .. B - 1),
         calls' = [calls EXCEPT ![Len(calls)].locals = v]
  PROVE  /\ calls' \in Seq(Call) /\ Len(calls') = Len(calls)
         /\ \A m \in 1 .. Len(calls) : calls'[m].back = calls[m].back
<1> DEFINE n == Len(calls)
<1>1. calls \in Seq(Call) /\ n \in Nat \ {0} /\ calls \in [1 .. n -> Call]
  BY CallIndices, LenProperties
<1>2. [calls[n] EXCEPT !.locals = v] \in Call /\ [calls[n] EXCEPT !.locals = v].back = calls[n].back
  BY LastCall DEF Call
<1>3. calls' = [calls EXCEPT ![n] = [calls[n] EXCEPT !.locals = v]]
  BY Zenon
<1>4. calls' \in [1 .. n -> Call]
  BY <1>1, <1>2, <1>3, Zenon
<1>5. \A m \in 1 .. n : calls'[m].back = calls[m].back
  BY <1>1, <1>2, <1>3, Zenon
<1> QED
  BY <1>1, <1>4, <1>5, SeqDef

(* The two bytes of a variable. *)
LEMMA LocalBytes ==
  ASSUME NEW c, IInv(c), NEW o \in Word, IsLocal(o)
  PROVE  LET bytes == SubSeq(Last(calls).locals, o + 1, o + 2) IN
         bytes \in Seq(Octet) /\ Len(bytes) = 2
<1> DEFINE v == Last(calls).locals
<1>1. v \in Seq(Octet) /\ Len(v) \in Nat
  BY LastCall, LenProperties, Zenon DEF Octet
<1>2. o \in Nat /\ o + 2 <= Len(v)
  BY Sizes DEF Word, IsLocal
<1> HIDE DEF v
<1>3. o + 1 <= o + 2 /\ \A i \in o + 1 .. o + 2 : i \in 1 .. Len(v)
  BY <1>1, <1>2
<1>4. SubSeq(v, o + 1, o + 2) \in Seq(Octet) /\ Len(SubSeq(v, o + 1, o + 2)) = 2
  BY <1>1, <1>2, <1>3, SubSeqProperties
<1> QED
  BY <1>4 DEF v

LEMMA TwoWritten ==
  ASSUME NEW S, NEW v \in Seq(S), NEW i, NEW j, NEW x \in S, NEW y \in S
  PROVE  [v EXCEPT ![i] = x, ![j] = y] \in Seq(S)
<1> DEFINE w == [v EXCEPT ![i] = x, ![j] = y]
<1>1. Len(v) \in Nat /\ v \in [1 .. Len(v) -> S]
  BY LenProperties
<1>2. w \in [1 .. Len(v) -> S]
  <2>1. [v EXCEPT ![i] = x] \in [1 .. Len(v) -> S]
    BY <1>1, Zenon
  <2> QED
    BY <2>1, Zenon
<1> HIDE DEF w
<1>3. w \in Seq(S)
  BY <1>1, <1>2, SeqDef
<1> QED
  BY <1>3 DEF w

(* A condition was popped. *)
LEMMA PopJumpKeeps ==
  ASSUME NEW c, IInv(c), pop_jump_if_false
  PROVE  IInv(c)'
<1>1. /\ IsAt("POP_JUMP_IF_FALSE") /\ "POP_JUMP_IF_FALSE" \in DOMAIN Opcode
      /\ status = "running"
  BY DEF pop_jump_if_false, Opcode, IsAt
<1>2. Width("POP_JUMP_IF_FALSE") = 3
  BY <1>1, Widths
<1>3. CASE Holds(1)
  <2>1. /\ ip' \in {Operand, ip + 3}
        /\ opstack' = Under(1)
        /\ UNCHANGED <<image, status, calls, tasks, refused, printed>>
    BY <1>3 DEF pop_jump_if_false, Jumps
  <2>2. Operand = OperandAt(image, ip)
    BY <1>1, <1>2, OperandIsWord, Zenon
  <2>3. /\ ip' \in DOMAIN c.depth /\ c.fn[ip'] = c.fn[ip] /\ c.depth[ip'] = c.depth[ip] + -1
        /\ ip' \notin DOMAIN c.top
    <3>1. Keeps(image, c, ip, "POP_JUMP_IF_FALSE")
      BY <1>1, Allowed, Zenon
    <3>2. \A b \in {OperandAt(image, ip), ip + 3} :
            /\ b \in DOMAIN c.depth /\ c.fn[b] = c.fn[ip]
            /\ c.depth[b] = c.depth[ip] + -1
            /\ b \notin DOMAIN c.top
      BY <1>2, <3>1 DEF Keeps
    <3> QED
      BY <2>1, <2>2, <3>2, Zenon
  <2>4. Known(c)'
    BY <2>3, NoneKnown, Zenon
  <2>5. opstack' \in Seq(Octet) /\ Len(opstack') = Len(opstack) - 1
    BY <1>3, <2>1, Popped
  <2>6. Len(opstack') = Len(opstack) + -1 /\ Len(opstack') <= OPSTACK_SIZE
    BY <2>5, Shorter
  <2> QED
    BY <1>1, <2>1, <2>3, <2>4, <2>5, <2>6, MovesWithOperands
<1>4. CASE ~ Holds(1)
  BY <1>4, ExitsKeep, Zenon DEF pop_jump_if_false
<1> QED
  BY <1>3, <1>4

LEMMA JumpKeeps ==
  ASSUME NEW c, IInv(c), jump
  PROVE  IInv(c)'
<1>1. IsAt("JUMP") /\ "JUMP" \in DOMAIN Opcode /\ status = "running"
  BY DEF jump, Opcode, IsAt
<1>2. ip' = Operand /\ UNCHANGED <<image, status, opstack, calls, tasks, refused, printed>>
  BY DEF jump, Jumps
<1>3. Operand = OperandAt(image, ip)
  BY <1>1, Widths, OperandIsWord
<1>4. /\ ip' \in DOMAIN c.depth /\ c.fn[ip'] = c.fn[ip] /\ c.depth[ip'] = c.depth[ip]
      /\ ip' \notin DOMAIN c.top
  <2>1. Keeps(image, c, ip, "JUMP")
    BY <1>1, Allowed, Zenon
  <2> QED
    BY <1>2, <1>3, <2>1 DEF Keeps
<1>5. c.depth[ip'] = c.depth[ip] + 0 /\ Len(opstack') = Len(opstack) + 0
  BY <1>2, <1>4, Certified, Types
<1>6. opstack' \in Seq(Octet) /\ Len(opstack') <= OPSTACK_SIZE
  BY <1>2, Types, Zenon
<1>7. 0 \in Int
  OBVIOUS
<1>8. Known(c)'
  BY <1>4, NoneKnown, Zenon
<1> QED
  BY <1>1, <1>2, <1>4, <1>5, <1>6, <1>7, <1>8, MovesWithOperands, Zenon

(* A variable is of the call in progress: its function and the operands stay. *)
LEMMA AllocateLocalKeeps ==
  ASSUME NEW c, IInv(c), allocate_local
  PROVE  IInv(c)'
<1>1. IsAt("ALLOC_LOCAL") /\ "ALLOC_LOCAL" \in DOMAIN Opcode
  BY DEF allocate_local, Opcode
<1>2. Width("ALLOC_LOCAL") = 3 /\ Pushes("ALLOC_LOCAL") = -2
  BY <1>1, Widths DEF Pushes
<1> DEFINE size == WordUnder(0)
           fits == ~ (SizeOf(calls) + size >= W)
<1>3. CASE Holds(2) /\ fits
  <2> DEFINE n == Len(calls)
  <2>1. PICK b \in FreshBytes :
          calls' = [calls EXCEPT ![n].locals = @ \o [i \in 1 .. size |-> b]]
    BY <1>3, Zenon DEF allocate_local
  <2>2. GoOn(3) /\ opstack' = Under(2) /\ UNCHANGED <<tasks, refused, printed>>
    BY <1>3, Zenon DEF allocate_local
  <2>3. opstack' \in Seq(Octet) /\ Len(opstack') = Len(opstack) - 2
    BY <1>3, <2>2, Popped
  <2>4. size \in Word
    BY <1>3, PoppedWord
  <2>5. Len(opstack') = Len(opstack) + -2 /\ Len(opstack') <= OPSTACK_SIZE
    BY <2>3, Shorter
  <2> HIDE DEF size
  <2>6. [i \in 1 .. size |-> b] \in Seq(0 .. B - 1)
    <3>1. size \in Nat
      BY <2>4, Sizes DEF Word
    <3>2. b \in 0 .. B - 1
      BY CodeMachineAssumption DEF B
    <3> QED
      BY <3>1, <3>2, Repeated, Zenon
  <2>7. calls' \in Seq(Call) /\ Len(calls') = n
        /\ \A m \in 1 .. n : calls'[m].back = calls[m].back
    BY <2>1, <2>6, LocalsChange, CallIndices, ConcatProperties, LastCall
  <2>8. Len(opstack') + Leftovers = Len(opstack) + Leftovers' + -2
    BY <2>2, <2>5, NoneRefused
  <2> QED
    BY <1>1, <1>2, <2>2, <2>3, <2>5, <2>7, <2>8, Types, Onward
<1>4. CASE ~ Holds(2) \/ ~ fits
  <2>1. Exit("failed") \/ Exit("undefined")
    BY <1>4, Zenon DEF allocate_local
  <2> QED
    BY <2>1, ExitsKeep
<1> QED
  BY <1>3, <1>4, Zenon

LEMMA PushLocalKeeps ==
  ASSUME NEW c, IInv(c), push_local
  PROVE  IInv(c)'
<1> DEFINE o == WordUnder(0)
           bytes == SubSeq(Last(calls).locals, o + 1, o + 2)
           good == ~ (WordUnder(2) # 2 \/ ~ IsLocal(o) \/ ~ CanRead(o))
<1>1. IsAt("PUSH_LOCAL") /\ "PUSH_LOCAL" \in DOMAIN Opcode
  BY DEF push_local, Opcode
<1>2. Width("PUSH_LOCAL") = 1 /\ Pushes("PUSH_LOCAL") = -2
  BY <1>1, Widths DEF Pushes
<1>3. CASE Holds(4) /\ good
  <2>1. /\ GoOn(1) /\ UNCHANGED <<calls, tasks, refused, printed>>
        /\ opstack' = Under(4) \o bytes
    BY <1>3, Zenon DEF push_local
  <2>2. Under(4) \in Seq(Octet) /\ Len(Under(4)) = Len(opstack) - 4
    BY <1>3, Popped
  <2>3. o \in Word
    BY <1>3, PoppedWord
  <2>4. bytes \in Seq(Octet) /\ Len(bytes) = 2
    BY <1>3, <2>3, LocalBytes, Zenon
  <2> HIDE DEF bytes
  <2>5. opstack' \in Seq(Octet) /\ Len(opstack') = (Len(opstack) - 4) + 2
    BY <2>1, <2>2, <2>4, Joined, Zenon
  <2>6. Len(opstack') = Len(opstack) - 2
    BY <2>5, Types
  <2>7. Len(opstack') = Len(opstack) + -2 /\ Len(opstack') <= OPSTACK_SIZE
    BY <2>6, Shorter
  <2> QED
    BY <1>1, <1>2, <2>1, <2>5, <2>7, OnwardWithOperands
<1>4. CASE ~ (Holds(4) /\ good)
  <2>1. Exit("failed") \/ Exit("undefined")
    BY <1>4, Zenon DEF push_local
  <2> QED
    BY <2>1, ExitsKeep
<1> QED
  BY <1>3, <1>4, Zenon

LEMMA PopLocalKeeps ==
  ASSUME NEW c, IInv(c), pop_local
  PROVE  IInv(c)'
<1> DEFINE o == WordUnder(0)
           good == Holds(4) /\ ~ (WordUnder(2) # 2) /\ Holds(6) /\ CanRead(o) /\ IsLocal(o)
<1>1. IsAt("POP_LOCAL") /\ "POP_LOCAL" \in DOMAIN Opcode
  BY DEF pop_local, Opcode
<1>2. Width("POP_LOCAL") = 1 /\ Pushes("POP_LOCAL") = -6
  BY <1>1, Widths DEF Pushes
<1>3. CASE good
  <2> DEFINE x == ByteUnder(5)
             y == ByteUnder(4)
             w == [calls[Len(calls)].locals EXCEPT ![o + 1] = x, ![o + 2] = y]
  <2>1. /\ GoOn(1) /\ opstack' = Under(6) /\ UNCHANGED <<tasks, refused, printed>>
        /\ calls' = [calls EXCEPT ![Len(calls)].locals = w]
    BY <1>3, Zenon DEF pop_local
  <2>2. opstack' \in Seq(Octet) /\ Len(opstack') = Len(opstack) - 6
    BY <1>3, <2>1, Popped
  <2>3. x \in 0 .. B - 1 /\ y \in 0 .. B - 1
    BY <1>3, Popped DEF Octet
  <2>4. w \in Seq(0 .. B - 1)
    <3> HIDE DEF x, y, o
    <3> QED
      BY <2>3, LastCall, TwoWritten, Zenon
  <2>5. calls' \in Seq(Call) /\ Len(calls') = Len(calls)
        /\ \A m \in 1 .. Len(calls) : calls'[m].back = calls[m].back
    BY <2>1, <2>4, LocalsChange, Zenon
  <2>6. Len(opstack') = Len(opstack) + -6 /\ Len(opstack') <= OPSTACK_SIZE
    BY <2>2, Shorter
  <2>7. Len(opstack') + Leftovers = Len(opstack) + Leftovers' + -6
    BY <2>1, <2>6, NoneRefused
  <2> QED
    BY <1>1, <1>2, <2>1, <2>2, <2>5, <2>6, <2>7, Types, Onward
<1>4. CASE ~ good
  <2>1. Exit("failed") \/ Exit("undefined")
    BY <1>4, Zenon DEF pop_local
  <2> QED
    BY <2>1, ExitsKeep
<1> QED
  BY <1>3, <1>4, Zenon

(* A refused task leaves a word, a task made nothing. *)
LEMMA AsyncCallKeeps ==
  ASSUME NEW c, IInv(c), async_call
  PROVE  IInv(c)'
<1>1. IsAt("ASYNC_CALL") /\ "ASYNC_CALL" \in DOMAIN Opcode
  BY DEF async_call, Opcode
<1>2. Width("ASYNC_CALL") = 3 /\ Pushes("ASYNC_CALL") = -2
  BY <1>1, Widths DEF Pushes
<1>3. CASE Len(tasks) = MAX_TASKS
  <2>1. /\ GoOn(3) /\ calls' = calls /\ printed' = printed /\ tasks' = tasks
        /\ opstack' = opstack /\ refused' = refused + 1
    BY <1>3, Zenon DEF async_call, Refuse
  <2>2. refused' \in Nat
    BY <2>1, Types
  <2>3. Len(opstack') + Leftovers = Len(opstack) + Leftovers' + -2
    <3>1. Len(opstack) \in Nat /\ refused \in Nat
      BY Types, Zenon
    <3> QED
      BY <2>1, <3>1 DEF Leftovers
  <2> QED
    BY <1>1, <1>2, <2>1, <2>2, <2>3, Types, Onward
<1>4. CASE Len(tasks) # MAX_TASKS /\ Holds(2)
  <2> DEFINE handler == WordUnder(0)
  <2>1. /\ GoOn(3) /\ calls' = calls /\ printed' = printed /\ refused' = refused
        /\ opstack' = Under(2)
        /\ tasks' = Append(tasks, [code |-> Operand, handler |-> handler])
    BY <1>4, Zenon DEF async_call, Make
  <2>2. opstack' \in Seq(Octet) /\ Len(opstack') = Len(opstack) - 2
    BY <1>4, <2>1, Popped
  <2>3. handler \in Word
    BY <1>4, PoppedWord
  <2> HIDE DEF handler
  <2>4. tasks' \in Seq(Task) /\ Len(tasks') = Len(tasks) + 1
    <3>1. Operand \in Word
      BY <1>1, <1>2, OperandIsWord, Zenon
    <3>2. [code |-> Operand, handler |-> handler] \in Task
      BY <2>3, <3>1, Zenon DEF Task
    <3>3. tasks \in Seq(Task)
      BY Types, Zenon
    <3> QED
      BY <2>1, <3>2, <3>3, AppendProperties, Zenon
  <2>5. Len(tasks') <= MAX_TASKS
    <3>1. Len(tasks) \in Nat /\ Len(tasks) <= MAX_TASKS /\ MAX_TASKS \in Nat
      BY Types, LenProperties, CodeMachineAssumption
    <3> QED
      BY <1>4, <2>4, <3>1
  <2>6. Len(opstack') = Len(opstack) + -2 /\ Len(opstack') <= OPSTACK_SIZE
    BY <2>2, Shorter
  <2>7. Len(opstack') + Leftovers = Len(opstack) + Leftovers' + -2
    BY <2>1, <2>6, NoneRefused
  <2> QED
    BY <1>1, <1>2, <2>1, <2>2, <2>4, <2>5, <2>6, <2>7, Types, Onward
<1>5. CASE Len(tasks) # MAX_TASKS /\ ~ Holds(2)
  BY <1>5, ExitsKeep, Zenon DEF async_call
<1> QED
  BY <1>3, <1>4, <1>5, Zenon

(* A format is made of bytes. *)
LEMMA FormatOfBytes ==
  ASSUME NEW c, IInv(c), NEW a \in Nat, Ends(BytesFrom(image, a)) # {}
  PROVE  FormatAt(image, a) \in Seq(Octet)
<1> DEFINE s == BytesFrom(image, a)
           zeros == Ends(s)
           k == Min(zeros)
<1>1. image.bytes \in Seq(Octet) /\ image.data_address \in Nat /\ image.data_address >= PORTS
  BY Fetched, Zenon DEF Octet
<1>2. s \in Seq(Octet)
  <2> DEFINE from == DataAt(image, a)
             n == Len(image.bytes)
  <2>1. from \in Nat /\ n \in Nat
    BY <1>1 DEF DataAt, PORTS
  <2> HIDE DEF from
  <2>2. \A i \in from + 1 .. n : i \in 1 .. n
    BY <2>1
  <2>3. SubSeq(image.bytes, from + 1, n) \in Seq(Octet)
    BY <1>1, <2>1, <2>2, SubSeqProperties
  <2> QED
    BY <2>3 DEF BytesFrom, from
<1> HIDE DEF s
<1>3. Len(s) \in Nat /\ DOMAIN s = 1 .. Len(s) /\ zeros \subseteq 1 .. Len(s)
  BY <1>2, LenProperties DEF Ends
<1>4. k \in zeros
  <2>1. zeros \subseteq Nat /\ zeros # {}
    BY <1>3 DEF s
  <2> HIDE DEF zeros
  <2>2. PICK m \in zeros : \A j \in 0 .. m - 1 : j \notin zeros
    BY <2>1, LeastElement, Zenon
  <2>3. \A x \in zeros : m <= x
    BY <2>1, <2>2
  <2> QED
    BY <2>2, <2>3, Zenon DEF Min
<1>5. k \in 1 .. Len(s)
  BY <1>3, <1>4, Zenon
<1> HIDE DEF k
<1>6. \A i \in 1 .. k - 1 : i \in 1 .. Len(s)
  BY <1>3, <1>5
<1>7. SubSeq(s, 1, k - 1) \in Seq(Octet)
  BY <1>2, <1>3, <1>5, <1>6, SubSeqProperties
<1> QED
  BY <1>7, Zenon DEF FormatAt, k, s

(* The bytes that part of a text takes are among those that all of it takes. *)
LEMMA TakenBytes ==
  ASSUME NEW s \in Seq(Octet), NEW i \in 0 .. Len(s)
  PROVE  /\ Taken(s, i) \in Nat /\ Taken(s, Len(s)) \in Nat
         /\ Taken(s, i) <= Taken(s, Len(s))
<1> DEFINE n == Len(s)
           Bytes(j) == {x \in (Letters(s) \cap (1 .. j)) \X (1 .. 4) : x[2] <= TakenBy(s[x[1]])}
<1>1. n \in Nat /\ i \in Nat /\ i <= n
  BY LenProperties
<1>2. ASSUME NEW j \in Nat
      PROVE  IsFiniteSet(Bytes(j))
  <2>1. IsFiniteSet(1 .. j) /\ IsFiniteSet(1 .. 4)
    <3>1. 1 \in Int /\ 4 \in Int /\ j \in Int
      OBVIOUS
    <3> QED
      BY <3>1, FS_Interval, Zenon
  <2>2. IsFiniteSet(Letters(s) \cap (1 .. j))
    BY <2>1, FS_Subset, Zenon
  <2>3. IsFiniteSet((Letters(s) \cap (1 .. j)) \X (1 .. 4))
    BY <2>1, <2>2, FS_Product, Zenon
  <2> QED
    BY <2>3, FS_Subset, Zenon
<1>3. \A x \in 1 .. i : x \in 1 .. n
  BY <1>1
<1>4. Bytes(i) \subseteq Bytes(n)
  BY <1>3
<1>5. IsFiniteSet(Bytes(i)) /\ IsFiniteSet(Bytes(n))
  BY <1>1, <1>2, Zenon
<1>6. Taken(s, i) = Cardinality(Bytes(i)) /\ Taken(s, n) = Cardinality(Bytes(n))
  BY Zenon DEF Taken
<1> HIDE DEF Bytes
<1> QED
  BY <1>4, <1>5, <1>6, FS_CardinalityType, FS_Subset, Zenon

(* What a character prints is made of it and of bytes that were popped.      *)
LEMMA ShownBytes ==
  ASSUME NEW s \in Seq(Octet), NEW i \in 1 .. Len(s), NEW os \in Seq(Octet),
         Taken(s, Len(s)) <= Len(os)
  PROVE  Shown(s, i, os) \in Seq(Octet)
<1>1. s[i] \in Octet /\ Percent \in Octet
  BY ElementOfSeq DEF Percent, Octet, B
<1> DEFINE n == Len(os)
           low == n - Taken(s, i) + 1
           high == n - Taken(s, i - 1)
<1>2. SubSeq(os, low, high) \in Seq(Octet)
  <2>1. n \in Nat /\ Len(s) \in Nat /\ i - 1 \in 0 .. Len(s) /\ i \in 0 .. Len(s)
    BY LenProperties
  <2>2. /\ Taken(s, i) \in Nat /\ Taken(s, i - 1) \in Nat /\ Taken(s, Len(s)) \in Nat
        /\ Taken(s, i) <= Taken(s, Len(s))
    BY <2>1, TakenBytes
  <2>3. low \in Int /\ high \in Int /\ low >= 1 /\ high <= n
    BY <2>1, <2>2
  <2> HIDE DEF low, high
  <2>4. \A k \in low .. high : k \in 1 .. n
    BY <2>1, <2>3
  <2> QED
    BY <2>3, <2>4, SubSeqProperties
<1> HIDE DEF low, high
<1>3. << s[i] >> \in Seq(Octet) /\ << Percent, s[i] >> \in Seq(Octet) /\ <<>> \in Seq(Octet)
  BY <1>1
<1>4. << s[i] >> \o SubSeq(os, low, high) \in Seq(Octet)
  BY <1>2, <1>3, ConcatProperties
<1> QED
  BY <1>3, <1>4, Zenon DEF Shown, low, high, n

(* The certificate knows the format, and so what it takes.                   *)
LEMMA PrintKeeps ==
  ASSUME NEW c, IInv(c), builtin_print
  PROVE  IInv(c)'
<1> DEFINE a == WordUnder(0)
           format == FormatAt(image, a)
           taken == Taken(format, Len(format))
           ended == Ends(BytesFrom(image, a)) # {}
<1>1. IsAt("SYSCALL") /\ "SYSCALL" \in DOMAIN Opcode /\ status = "running"
  BY DEF builtin_print, Opcode, IsAt
<1>2. Width("SYSCALL") = 3
  BY <1>1, Widths
<1>3. CASE Operand = 0 /\ Holds(2) /\ ended /\ Holds(2 + taken)
  <2>1. /\ ip' = ip + 3 /\ UNCHANGED <<image, status>>
        /\ calls' = calls /\ tasks' = tasks /\ refused' = refused
        /\ opstack' = Under(2 + taken)
        /\ printed' = [i \in DOMAIN format |-> Shown(format, i, Under(2))]
    BY <1>3, Zenon DEF builtin_print, GoOn
  <2>2. format \in Seq(Octet)
    <3>1. a \in Nat
      <4>1. a \in Word
        BY <1>3, PoppedWord
      <4> HIDE DEF a
      <4> QED
        BY <4>1, Sizes DEF Word
    <3> QED
      BY <1>3, <3>1, FormatOfBytes, Zenon
  <2>3. c.top[ip] = a
    <3>1. Keeps(image, c, ip, "SYSCALL")
      BY <1>1, Allowed, Zenon
    <3>2. ip \in DOMAIN c.top
      BY <3>1 DEF Keeps
    <3> QED
      BY <3>2, Zenon DEF IInv, Known
  <2> HIDE DEF a
  <2>4. taken \in Nat
    <3>1. Len(format) \in 0 .. Len(format)
      BY <2>2, LenProperties
    <3> HIDE DEF format
    <3> QED
      BY <2>2, <3>1, TakenBytes, Zenon
  <2>5. /\ ip' \in DOMAIN c.depth /\ c.fn[ip'] = c.fn[ip]
        /\ c.depth[ip'] = c.depth[ip] + (-2 - taken)
        /\ ip' \notin DOMAIN c.top
    <3>1. Keeps(image, c, ip, "SYSCALL")
      BY <1>1, Allowed, Zenon
    <3>2. Prints(image, a) = -2 - taken
      BY Zenon DEF Prints
    <3>3. /\ ip' \in DOMAIN c.depth /\ c.fn[ip'] = c.fn[ip]
          /\ c.depth[ip'] = c.depth[ip] + Prints(image, c.top[ip])
          /\ ip' \notin DOMAIN c.top
      BY <1>2, <2>1, <3>1 DEF Keeps
    <3> QED
      BY <2>3, <3>2, <3>3, Zenon
  <2>6. Under(2) \in Seq(Octet) /\ Len(Under(2)) = Len(opstack) - 2
    BY <1>3, Popped
  <2>7. taken <= Len(Under(2))
    <3>1. Len(opstack) \in Nat
      BY Types, Zenon
    <3> HIDE DEF taken
    <3> QED
      BY <1>3, <2>4, <2>6, <3>1 DEF Holds
  <2>8. printed' \in Seq(Seq(Octet))
    <3>1. DOMAIN format = 1 .. Len(format) /\ Len(format) \in Nat
      BY <2>2, LenProperties
    <3> HIDE DEF format
    <3>2. ASSUME NEW i \in 1 .. Len(format)
          PROVE  Shown(format, i, Under(2)) \in Seq(Octet)
      BY <2>2, <2>6, <2>7, ShownBytes, Zenon
    <3> DEFINE item(i) == Shown(format, i, Under(2))
    <3>3. \A i \in 1 .. Len(format) : item(i) \in Seq(Octet)
      BY <3>2, Zenon
    <3>4. printed' = [i \in 1 .. Len(format) |-> item(i)]
      BY <2>1, <3>1, Zenon
    <3> HIDE DEF item
    <3> QED
      BY <3>1, <3>3, <3>4
  <2> HIDE DEF taken
  <2>9. 2 + taken \in Nat /\ -2 - taken \in Int
    BY <2>4
  <2>10. opstack' \in Seq(Octet) /\ Len(opstack') = Len(opstack) - (2 + taken)
    BY <1>3, <2>1, <2>9, Popped, Zenon
  <2>11. Len(opstack') = Len(opstack) + (-2 - taken) /\ Len(opstack') <= OPSTACK_SIZE
    <3>1. Len(opstack) \in Nat /\ Len(opstack) <= OPSTACK_SIZE /\ OPSTACK_SIZE \in Nat
      BY Types, CodeMachineAssumption
    <3> QED
      BY <2>4, <2>10, <3>1
  <2>12. Len(opstack') + Leftovers = Len(opstack) + Leftovers' + (-2 - taken)
    BY <2>1, <2>9, <2>11, NoneRefused, Zenon
  <2>13. Known(c)'
    BY <2>5, NoneKnown, Zenon
  <2>14. /\ calls' \in Seq(Call) /\ Len(calls') = Len(calls)
         /\ \A m \in 1 .. Len(calls) : calls'[m].back = calls[m].back
         /\ tasks' \in Seq(Task) /\ Len(tasks') <= MAX_TASKS /\ refused' \in Nat
    BY <2>1, Types, Zenon
  <2> QED
    BY <1>1, <2>1, <2>5, <2>8, <2>9, <2>10, <2>11, <2>12, <2>13, <2>14, Moves, Zenon
<1>4. CASE ~ (Operand = 0 /\ Holds(2) /\ ended /\ Holds(2 + taken))
  <2>1. Exit("failed") \/ Exit("undefined")
    BY <1>4, Zenon DEF builtin_print
  <2> QED
    BY <2>1, ExitsKeep
<1> QED
  BY <1>3, <1>4, Zenon

-----------------------------------------------------------------------------
(* Calls and returns. *)

(* The functions of the calls in progress when one is added: the caller will  *)
(* be in the same function when it is returned to.                            *)
LEMMA FunctionsAfterCall ==
  ASSUME NEW c, NEW n \in Nat \ {0}, n = Len(calls), Len(calls') = n + 1,
         \A m \in 1 .. n : calls'[m] = calls[m],
         c.fn[calls'[n + 1].back] = c.fn[ip]
  PROVE  /\ \A m \in 1 .. n : Running(c, m)' = Running(c, m)
         /\ Running(c, n + 1)' = c.fn[ip']
<1>1. Running(c, n + 1)' = c.fn[ip']
  BY Zenon DEF Running
<1>2. ASSUME NEW m \in 1 .. n
      PROVE  Running(c, m)' = Running(c, m)
  <2>1. m # n + 1
    OBVIOUS
  <2>2. Running(c, m)' = c.fn[calls'[m + 1].back]
    BY <2>1, Zenon DEF Running
  <2>3. CASE m = n
    BY <2>2, <2>3, Zenon DEF Running
  <2>4. CASE m # n
    <3>1. m + 1 \in 1 .. n
      BY <2>4
    <3> QED
      BY <2>2, <2>4, <3>1, Zenon DEF Running
  <2> QED
    BY <2>3, <2>4
<1> QED
  BY <1>1, <1>2

LEMMA CallKeeps ==
  ASSUME NEW c, IInv(c), call
  PROVE  IInv(c)'
<1> DEFINE f == Operand
           back == ip + 3
<1>1. IsAt("CALL") /\ "CALL" \in DOMAIN Opcode /\ status = "running"
  BY DEF call, Opcode, IsAt
<1>2. Width("CALL") = 3
  BY <1>1, Widths
<1>3. /\ f \in DOMAIN c.depth /\ c.depth[f] = 0 /\ c.fn[f] = f /\ f # 0
      /\ back \in DOMAIN c.depth /\ c.fn[back] = c.fn[ip]
      /\ c.depth[back] = c.depth[ip] + c.effect[f]
      /\ f \notin DOMAIN c.top /\ back \notin DOMAIN c.top
  <2>1. Keeps(image, c, ip, "CALL") /\ f = OperandAt(image, ip)
    BY <1>1, <1>2, Allowed, OperandIsWord, Zenon
  <2> HIDE DEF f
  <2> QED
    BY <1>2, <2>1 DEF Keeps
<1>4. CASE SizeOf(calls) + 4 <= STACK_SIZE
  <2>1. /\ ip' = f /\ calls' = Append(calls, Frame(back))
        /\ opstack' = opstack /\ tasks' = tasks /\ refused' = refused /\ printed' = printed
        /\ image' = image /\ status' = status
    BY <1>4, Zenon DEF call, Jumps
  <2> HIDE DEF f, back
  <2>2. PICK n \in Nat \ {0} : n = Len(calls) /\ DOMAIN calls = 1 .. n /\ calls \in Seq(Call)
    BY CallIndices
  <2>3. Frame(back) \in Call /\ Frame(back).back = back
    <3>1. back \in Word
      BY <1>3, Certified, Zenon DEF Word
    <3>2. <<>> \in Seq(0 .. B - 1)
      OBVIOUS
    <3> QED
      BY <3>1, <3>2 DEF Frame, Call
  <2>4. calls' \in Seq(Call) /\ Len(calls') = n + 1
        /\ \A m \in 1 .. n : calls'[m] = calls[m]
    BY <2>1, <2>2, <2>3, AppendProperties
  <2>5. calls'[n + 1].back = back
    BY <2>1, <2>2, <2>3, AppendProperties
  <2>6. DOMAIN calls' = 1 .. n + 1 /\ calls' # <<>>
    BY <2>2, <2>4, EmptySeq
  <2>7. TypeOK'
    BY <1>3, <2>1, <2>4, <2>6, Types, TypesAfter, Zenon
  <2>8. /\ \A m \in 1 .. n : Running(c, m)' = Running(c, m)
        /\ Running(c, n + 1)' = f
    <3>1. c.fn[calls'[n + 1].back] = c.fn[ip]
      BY <1>3, <2>5, Zenon
    <3>2. /\ \A m \in 1 .. n : Running(c, m)' = Running(c, m)
          /\ Running(c, n + 1)' = c.fn[ip']
      BY <2>2, <2>4, <3>1, FunctionsAfterCall, Zenon
    <3>3. c.fn[ip'] = f
      BY <1>3, <2>1, Zenon
    <3> QED
      BY <3>2, <3>3, Zenon
  <2>9. OnCourse(c)'
    <3>1. \A m \in 2 .. n + 1 : m \in 2 .. n \/ m = n + 1
      BY <2>2
    <3>2. \A m \in 1 .. n + 1 : m \in 1 .. n \/ m = n + 1
      BY <2>2
    <3>3. n + 1 # 1 /\ \A m \in 2 .. n : m \in 1 .. n
      BY <2>2
    <3>4. OnCourse(c)
      BY DEF IInv
    <3>5. \A m \in 2 .. n + 1 : calls'[m].back \in DOMAIN c.depth /\ calls'[m].back \notin DOMAIN c.top
      BY <1>3, <2>2, <2>4, <2>5, <3>1, <3>3, <3>4, Zenon DEF OnCourse
    <3>6. \A m \in 1 .. n + 1 : (Running(c, m)' = 0) <=> (m = 1)
      <4> SUFFICES ASSUME NEW m \in 1 .. n + 1
                   PROVE  (Running(c, m)' = 0) <=> (m = 1)
        OBVIOUS
      <4>1. CASE m \in 1 .. n
        BY <2>2, <2>8, <3>4, <4>1, Zenon DEF OnCourse
      <4>2. CASE m = n + 1
        BY <1>3, <2>8, <3>3, <4>2, Zenon
      <4> QED
        BY <3>2, <4>1, <4>2, Zenon
    <3>7. ip' \in DOMAIN c.depth
      BY <1>3, <2>1, Zenon
    <3> QED
      BY <2>4, <2>6, <3>5, <3>6, <3>7, Zenon DEF OnCourse
  <2>10. \E h \in [DOMAIN calls' -> Int] : Balanced(c, h)'
    <3>1. PICK h \in [1 .. n -> Int] : Balanced(c, h)
      BY <2>2, Zenon DEF IInv
    <3>2. h[n] \in Int /\ c.depth[ip] \in Int /\ c.effect[f] \in Int
      <4>1. n \in 1 .. n
        BY <2>2
      <4> QED
        BY <1>3, <3>1, <4>1, Certified, Zenon
    <3>3. PICK g \in [1 .. n + 1 -> Int] :
            g[n + 1] = h[n] + c.depth[ip] /\ \A m \in 1 .. n : g[m] = h[m]
      <4> DEFINE w == [m \in 1 .. n + 1 |-> IF m = n + 1 THEN h[n] + c.depth[ip] ELSE h[m]]
      <4>1. w \in [1 .. n + 1 -> Int]
        BY <2>2, <3>1, <3>2
      <4>2. w[n + 1] = h[n] + c.depth[ip] /\ \A m \in 1 .. n : w[m] = h[m]
        BY <2>2
      <4> QED
        BY <4>1, <4>2, Zenon
    <3>5. ASSUME NEW m \in 2 .. n + 1
          PROVE  g[m] + c.effect[Running(c, m)'] = g[m - 1] + c.depth[calls'[m].back]
      <4>1. CASE m = n + 1
        <5>1. m - 1 = n /\ n \in 1 .. n
          BY <2>2, <4>1
        <5>2. g[m - 1] = h[n] /\ g[m] = h[n] + c.depth[ip]
          BY <3>3, <4>1, <5>1
        <5>3. Running(c, m)' = f /\ c.depth[calls'[m].back] = c.depth[ip] + c.effect[f]
          BY <1>3, <2>5, <2>8, <4>1
        <5> DEFINE x == h[n]
                   y == c.depth[ip]
                   z == c.effect[f]
        <5>4. x \in Int /\ y \in Int /\ z \in Int
          BY <3>2
        <5> HIDE DEF x, y, z
        <5>5. (x + y) + z = x + (y + z)
          BY <5>4
        <5> QED
          BY <5>2, <5>3, <5>5, Zenon DEF x, y, z
      <4>2. CASE m # n + 1
        <5>1. m \in 2 .. n /\ m \in 1 .. n /\ m - 1 \in 1 .. n
          BY <2>2, <4>2
        <5>2. h[m] + c.effect[Running(c, m)] = h[m - 1] + c.depth[calls[m].back]
          BY <2>2, <3>1, <5>1, Zenon DEF Balanced
        <5> QED
          BY <2>4, <2>8, <3>3, <5>1, <5>2, Zenon
      <4> QED
        BY <4>1, <4>2
    <3>6. g[n + 1] = Spare(c)'
      <4>1. h[n] = Spare(c)
        BY <2>2, <3>1, Zenon DEF Balanced
      <4> DEFINE a == Len(opstack)
                 r == Leftovers
                 d == c.depth[ip]
      <4>2. h[n] = a - r - d /\ a \in Int /\ r \in Int /\ d \in Int
        BY <3>2, <4>1, Types DEF Spare
      <4>3. Spare(c)' = a - r - 0
        BY <1>3, <2>1, Zenon DEF Spare, Leftovers
      <4>4. g[n + 1] = h[n] + d
        BY <3>3
      <4> HIDE DEF a, r, d
      <4>5. (a - r - d) + d = a - r - 0
        BY <4>2
      <4> QED
        BY <4>2, <4>3, <4>4, <4>5, Zenon
    <3>7. g[1] = 0
      <4>1. 1 \in 1 .. n
        BY <2>2
      <4>2. h[1] = 0
        BY <3>1, Zenon DEF Balanced
      <4> QED
        BY <3>3, <4>1, <4>2
    <3>8. Balanced(c, g)'
      <4>1. g[Len(calls')] = Spare(c)'
        BY <2>4, <3>6, Zenon
      <4>2. \A m \in 2 .. Len(calls') :
              g[m] + c.effect[Running(c, m)'] = g[m - 1] + c.depth[calls'[m].back]
        BY <2>4, <3>5, Zenon
      <4> QED
        BY <3>7, <4>1, <4>2, Zenon DEF Balanced
    <3> QED
      BY <2>6, <3>3, <3>8, Zenon
  <2>11. Disciplined(image, c)' /\ LeftoversAreRefusals' /\ Known(c)'
    <3>1. Known(c)'
      BY <1>3, <2>1, NoneKnown, Zenon
    <3> QED
      BY <1>1, <2>1, <3>1 DEF IInv, LeftoversAreRefusals
  <2> QED
    BY <2>7, <2>9, <2>10, <2>11, Zenon DEF IInv
<1>5. CASE ~ (SizeOf(calls) + 4 <= STACK_SIZE)
  BY <1>5, ExitsKeep, Zenon DEF call
<1> QED
  BY <1>4, <1>5

LEMMA FunctionsAfterReturn ==
  ASSUME NEW c, NEW n \in Nat \ {0, 1}, n = Len(calls), Len(calls') = n - 1,
         \A m \in 1 .. n - 1 : calls'[m] = calls[m],
         ip' = calls[n].back
  PROVE  \A m \in 1 .. n - 1 : Running(c, m)' = Running(c, m)
<1> SUFFICES ASSUME NEW m \in 1 .. n - 1
             PROVE  Running(c, m)' = Running(c, m)
  OBVIOUS
<1>1. m # n
  OBVIOUS
<1>2. Running(c, m) = c.fn[calls[m + 1].back]
  BY <1>1, Zenon DEF Running
<1>3. CASE m = n - 1
  <2>1. m + 1 = n
    BY <1>3
  <2>2. Running(c, m)' = c.fn[ip']
    BY <1>3, Zenon DEF Running
  <2> QED
    BY <1>2, <2>1, <2>2, Zenon
<1>4. CASE m # n - 1
  <2>1. m + 1 \in 1 .. n - 1
    BY <1>4
  <2>2. Running(c, m)' = c.fn[calls'[m + 1].back]
    BY <1>4, Zenon DEF Running
  <2> QED
    BY <1>2, <2>1, <2>2, Zenon
<1> QED
  BY <1>3, <1>4

LEMMA ReturnKeeps ==
  ASSUME NEW c, IInv(c), ret
  PROVE  IInv(c)'
<1>1. IsAt("RETURN") /\ "RETURN" \in DOMAIN Opcode /\ status = "running"
  BY DEF ret, Opcode, IsAt
<1>2. c.depth[ip] = c.effect[c.fn[ip]]
  <2>1. Keeps(image, c, ip, "RETURN")
    BY <1>1, Allowed, Zenon
  <2> QED
    BY <2>1 DEF Keeps
<1>3. CASE Len(calls) > 1
  <2>1. PICK n \in Nat \ {0, 1} : n = Len(calls) /\ DOMAIN calls = 1 .. n /\ calls \in Seq(Call)
    BY <1>3, CallIndices
  <2>2. /\ ip' = calls[n].back /\ calls' = Front(calls)
        /\ opstack' = opstack /\ tasks' = tasks /\ refused' = refused /\ printed' = printed
        /\ image' = image /\ status' = status
    BY <1>3, <2>1, Zenon DEF ret, Jumps, Last
  <2>3. /\ calls' \in Seq(Call) /\ Len(calls') = n - 1
        /\ \A m \in 1 .. n - 1 : calls'[m] = calls[m]
    <3>1. calls # <<>>
      BY Types
    <3> QED
      BY <2>1, <2>2, <3>1, FrontProperties
  <2>4. DOMAIN calls' = 1 .. n - 1 /\ calls' # <<>>
    BY <2>1, <2>3, EmptySeq
  <2>5. OnCourse(c)
    BY DEF IInv
  <2>6. /\ n \in 2 .. n /\ n - 1 \in 1 .. n - 1 /\ n - 1 \in 1 .. n
        /\ \A m \in 2 .. n - 1 : m \in 2 .. n /\ m \in 1 .. n - 1
        /\ \A m \in 1 .. n - 1 : m \in 1 .. n
    BY <2>1
  <2>7. ip' \in DOMAIN c.depth
    BY <2>1, <2>2, <2>5, <2>6, Zenon DEF OnCourse
  <2>8. TypeOK'
    BY <2>2, <2>3, <2>4, <2>7, Types, TypesAfter, Zenon
  <2>9. \A m \in 1 .. n - 1 : Running(c, m)' = Running(c, m)
    BY <2>1, <2>2, <2>3, FunctionsAfterReturn, Zenon
  <2>10. OnCourse(c)'
    <3>1. \A m \in 2 .. n - 1 : calls'[m].back \in DOMAIN c.depth /\ calls'[m].back \notin DOMAIN c.top
      BY <2>1, <2>3, <2>5, <2>6, Zenon DEF OnCourse
    <3>2. \A m \in 1 .. n - 1 : (Running(c, m)' = 0) <=> (m = 1)
      BY <2>1, <2>5, <2>6, <2>9, Zenon DEF OnCourse
    <3> QED
      BY <2>3, <2>4, <2>7, <3>1, <3>2, Zenon DEF OnCourse
  <2>11. \E h \in [DOMAIN calls' -> Int] : Balanced(c, h)'
    <3>1. PICK h \in [1 .. n -> Int] : Balanced(c, h)
      BY <2>1, Zenon DEF IInv
    <3>2. PICK g \in [1 .. n - 1 -> Int] : \A m \in 1 .. n - 1 : g[m] = h[m]
      <4> DEFINE w == [m \in 1 .. n - 1 |-> h[m]]
      <4>1. w \in [1 .. n - 1 -> Int]
        BY <2>6, <3>1
      <4>2. \A m \in 1 .. n - 1 : w[m] = h[m]
        OBVIOUS
      <4> QED
        BY <4>1, <4>2, Zenon
    <3>3. \A m \in 2 .. n - 1 : g[m] + c.effect[Running(c, m)'] = g[m - 1] + c.depth[calls'[m].back]
      <4> SUFFICES ASSUME NEW m \in 2 .. n - 1
                   PROVE  g[m] + c.effect[Running(c, m)'] = g[m - 1] + c.depth[calls'[m].back]
        OBVIOUS
      <4>1. m \in 2 .. n /\ m \in 1 .. n - 1 /\ m - 1 \in 1 .. n - 1
        BY <2>1
      <4>2. h[m] + c.effect[Running(c, m)] = h[m - 1] + c.depth[calls[m].back]
        BY <2>1, <3>1, <4>1, Zenon DEF Balanced
      <4> QED
        BY <2>3, <2>9, <3>2, <4>1, <4>2, Zenon
    <3>4. g[n - 1] = Spare(c)'
      <4> DEFINE a == Len(opstack)
                 r == Leftovers
                 d == c.depth[ip]
                 e == c.depth[ip']
                 x == h[n]
                 y == h[n - 1]
      <4>1. x = a - r - d
        BY <2>1, <3>1, Zenon DEF Balanced, Spare
      <4>2. x + d = y + e
        <5>1. h[n] + c.effect[Running(c, n)] = h[n - 1] + c.depth[calls[n].back]
          BY <2>1, <2>6, <3>1, Zenon DEF Balanced
        <5>2. Running(c, n) = c.fn[ip]
          BY <2>1, Zenon DEF Running
        <5>3. c.depth[calls[n].back] = e
          BY <2>2, Zenon
        <5>4. c.effect[Running(c, n)] = d
          BY <1>2, <5>2, Zenon
        <5> QED
          BY <5>1, <5>3, <5>4, Zenon
      <4>3. Spare(c)' = a - r - e
        BY <2>2, Zenon DEF Spare, Leftovers
      <4>4. a \in Int /\ r \in Int
        BY Types
      <4>5. d \in Int /\ e \in Int
        BY <2>7, Certified, Zenon
      <4>6. x \in Int /\ y \in Int
        <5>1. n \in 1 .. n /\ n - 1 \in 1 .. n
          BY <2>1
        <5> QED
          BY <5>1
      <4>7. g[n - 1] = y
        BY <2>6, <3>2, Zenon
      <4> HIDE DEF a, r, d, e, x, y
      <4>8. y = a - r - e
        BY <4>1, <4>2, <4>4, <4>5, <4>6
      <4> QED
        BY <4>3, <4>7, <4>8, Zenon
    <3>5. g[1] = 0
      <4>1. 1 \in 1 .. n - 1
        BY <2>1
      <4>2. h[1] = 0
        BY <3>1, Zenon DEF Balanced
      <4> QED
        BY <3>2, <4>1, <4>2
    <3>6. Balanced(c, g)'
      <4>1. g[Len(calls')] = Spare(c)'
        BY <2>3, <3>4, Zenon
      <4>2. \A m \in 2 .. Len(calls') :
              g[m] + c.effect[Running(c, m)'] = g[m - 1] + c.depth[calls'[m].back]
        BY <2>3, <3>3, Zenon
      <4> QED
        BY <3>5, <4>1, <4>2, Zenon DEF Balanced
    <3> QED
      BY <2>4, <3>6, Zenon
  <2>12. Disciplined(image, c)' /\ LeftoversAreRefusals' /\ Known(c)'
    <3>1. calls[n].back \notin DOMAIN c.top
      BY <2>1, <2>5, <2>6, Zenon DEF OnCourse
    <3>2. Known(c)'
      BY <2>2, <3>1, NoneKnown, Zenon
    <3> QED
      BY <1>1, <2>2, <3>2 DEF IInv, LeftoversAreRefusals
  <2> QED
    BY <2>8, <2>10, <2>11, <2>12, Zenon DEF IInv
<1>4. CASE ~ (Len(calls) > 1)
  BY <1>4, ExitsKeep, Zenon DEF ret
<1> QED
  BY <1>3, <1>4

-----------------------------------------------------------------------------
(* The specification. *)

LEMMA StepKeeps ==
  ASSUME NEW c, IInv(c), Next \/ UNCHANGED vars
  PROVE  IInv(c)'
<1>1. CASE UNCHANGED vars
  <2>1. UNCHANGED <<program, image, listing, ip, opstack, calls, tasks, refused, printed, status>>
    BY <1>1 DEF vars
  <2>2. Disciplined(image, c)' /\ TypeOK' /\ LeftoversAreRefusals' /\ OnCourse(c)' /\ Known(c)'
    BY <2>1, Zenon DEF IInv, TypeOK, LeftoversAreRefusals, Leftovers, OnCourse, Running, Known,
                       WordUnder, ByteUnder
  <2>3. PICK h \in [DOMAIN calls -> Int] : Balanced(c, h)
    BY Zenon DEF IInv
  <2>4. Balanced(c, h)'
    BY <2>1, <2>3, Zenon DEF Balanced, Running, Spare, Leftovers
  <2> QED
    BY <2>1, <2>2, <2>4, Zenon DEF IInv
<1>2. CASE FetchNothing
  BY <1>2, ExitsKeep DEF FetchNothing
<1>3. CASE Stopped
  BY <1>1, <1>3, Zenon DEF Stopped
<1> QED
  BY <1>1, <1>2, <1>3, HaltKeeps, PushLiteralKeeps, PushKeeps, CompareKeeps, PopJumpKeeps,
     JumpKeeps, CallKeeps, ReturnKeeps, AllocateLocalKeeps, PushLocalKeeps, PopLocalKeeps,
     AsyncCallKeeps, PrintKeeps, Zenon DEF Next

(* Everything about the program that is executed. *)
Inv(certificate) ==
  \E p \in Programs : program = p /\ image = compile_rfl(p) /\ IInv(certificate[p])

LEMMA InitInv ==
  ASSUME NEW certificate,
         \A p \in Programs : Compiles(p) => Disciplined(compile_rfl(p), certificate[p]),
         Init
  PROVE  Inv(certificate)
<1>1. PICK p \in Programs : program = p /\ Compiles(p)
  BY Zenon DEF Init
<1> DEFINE c == certificate[p]
<1>2. image = compile_rfl(p) /\ Disciplined(image, c)
  BY <1>1, Zenon DEF Init
<1>3. /\ ip = 0 /\ opstack = <<>> /\ calls = << Frame(0) >> /\ tasks = <<>>
      /\ refused = 0 /\ printed = <<>> /\ status = "running"
  BY Zenon DEF Init
<1> HIDE DEF c
<1>4. TypeOK
  <2>1. image.bytes \in Seq(0 .. B - 1)
    BY <1>2, Zenon DEF Disciplined, Fits
  <2>2. 0 \in 0 .. W - 1
    BY Sizes
  <2>3. Frame(0) \in [back : 0 .. W - 1, locals : Seq(0 .. B - 1)]
    BY <2>2 DEF Frame
  <2>4. Len(opstack) <= OPSTACK_SIZE /\ Len(tasks) <= MAX_TASKS
    BY <1>3, CodeMachineAssumption
  <2>5. calls \in Seq([back : 0 .. W - 1, locals : Seq(0 .. B - 1)]) /\ calls # <<>>
    BY <1>3, <2>3
  <2>6. /\ opstack \in Seq(0 .. B - 1) /\ printed \in Seq(Seq(0 .. B - 1)) /\ refused \in Nat
        /\ tasks \in Seq([code : 0 .. W - 1, handler : 0 .. W - 1])
    BY <1>3
  <2> QED
    BY <1>3, <2>1, <2>2, <2>4, <2>5, <2>6 DEF TypeOK
<1>5. Len(calls) = 1 /\ DOMAIN calls = {1}
  BY <1>3
<1>6. 0 \in DOMAIN c.depth /\ c.depth[0] = 0 /\ c.fn[0] = 0 /\ 0 \notin DOMAIN c.top
  BY <1>2, Zenon DEF Disciplined, IsCertificate
<1>7. OnCourse(c) /\ Known(c)
  BY <1>3, <1>5, <1>6 DEF OnCourse, Running, Known
<1>8. \E h \in [DOMAIN calls -> Int] : Balanced(c, h)
  <2> DEFINE h == [m \in {1} |-> 0]
  <2>1. h \in [DOMAIN calls -> Int] /\ h[1] = 0
    BY <1>5
  <2>2. Spare(c) = 0
    BY <1>3, <1>6 DEF Spare, Leftovers
  <2>3. Balanced(c, h)
    BY <1>5, <2>1, <2>2 DEF Balanced
  <2> QED
    BY <2>1, <2>3, Zenon
<1>9. LeftoversAreRefusals
  BY <1>3 DEF LeftoversAreRefusals, Leftovers
<1>10. IInv(c)
  BY <1>2, <1>4, <1>7, <1>8, <1>9, Zenon DEF IInv
<1> QED
  BY <1>1, <1>2, <1>10, Zenon DEF Inv, c

LEMMA StepInv ==
  ASSUME NEW certificate, Inv(certificate), [Next]_vars
  PROVE  Inv(certificate)'
<1>1. PICK p \in Programs : program = p /\ image = compile_rfl(p) /\ IInv(certificate[p])
  BY Zenon DEF Inv
<1>2. IInv(certificate[p])'
  BY <1>1, StepKeeps, Zenon
<1>3. UNCHANGED <<program, image>>
  BY DEF Next, vars, halt, push_literal_U16, push_U16, compare_equal, pop_jump_if_false, jump,
     call, ret, allocate_local, push_local, pop_local, async_call, builtin_print, FetchNothing,
     Stopped, Exit, GoOn, Jumps
<1> QED
  BY <1>1, <1>2, <1>3, Zenon DEF Inv

(* The types of all variables, for any programs that keep the stack          *)
(* discipline: neither stack outgrows its room and no more tasks are made    *)
(* than there may be, operands and what is printed are bytes, addresses are  *)
(* words (cpu_execute on the bytes of compiler.py).                          *)
THEOREM CodeMachineTypeCorrect ==
  ASSUME NEW certificate,
         \A p \in Programs : Compiles(p) => Disciplined(compile_rfl(p), certificate[p])
  PROVE  Spec => []TypeOK
<1>1. Inv(certificate) => TypeOK
  BY Zenon DEF Inv, IInv
<1> QED
  BY <1>1, InitInv, StepInv, PTL DEF Spec

(* A program that keeps the stack discipline and halts leaves two bytes of   *)
(* operands for each task it was refused, whatever it calls, jumps, prints   *)
(* and starts before (cpu_create_task returns before it pops the handler).   *)
(* The discipline counts bytes, as the code does: a program that tests a     *)
(* word, of which POP_JUMP_IF_FALSE pops one byte, does not keep it.         *)
THEOREM LeftoversStayRefusals ==
  ASSUME NEW certificate,
         \A p \in Programs : Compiles(p) => Disciplined(compile_rfl(p), certificate[p])
  PROVE  Spec => []LeftoversAreRefusals
<1>1. Inv(certificate) => LeftoversAreRefusals
  BY Zenon DEF Inv, IInv
<1> QED
  BY <1>1, InitInv, StepInv, PTL DEF Spec

(* Where the certificate allows an instruction, all of it is in the program.  *)
LEMMA InstructionIsThere ==
  ASSUME NEW c, IInv(c), status = "running"
  PROVE  \E op \in DOMAIN Opcode : IsAt(op)
<1>1. PICK op \in DOMAIN Opcode : /\ image.bytes[ip + 1] = Opcode[op]
                                  /\ ip + Width(op) <= Len(image.bytes)
  BY Zenon DEF IInv, OnCourse, Disciplined, Allows
<1>2. Width(op) \in {1, 3}
  BY Widths
<1>3. ip \in Nat /\ Len(image.bytes) \in Nat
  BY Fetched
<1>4. InProgram(ip) /\ InProgram(ip + Width(op) - 1)
  BY <1>1, <1>2, <1>3 DEF InProgram
<1> QED
  BY <1>1, <1>4, Zenon DEF IsAt, Byte

(* The machine is always at the beginning of an instruction of such a        *)
(* program, never in the middle of one and never in its data, also after     *)
(* returning from calls inside calls, and fetches an opcode and an operand    *)
(* that are there (cpu_fetch_data, call_address, ret).                        *)
THEOREM ControlStaysInCode ==
  ASSUME NEW certificate,
         \A p \in Programs : Compiles(p) => Disciplined(compile_rfl(p), certificate[p])
  PROVE  Spec => [](/\ ip \in DOMAIN certificate[program].depth
                    /\ status = "running" => \E op \in DOMAIN Opcode : IsAt(op))
<1>1. ASSUME Inv(certificate)
      PROVE  /\ ip \in DOMAIN certificate[program].depth
             /\ status = "running" => \E op \in DOMAIN Opcode : IsAt(op)
  <2>1. IInv(certificate[program])
    BY <1>1, Zenon DEF Inv
  <2>2. ip \in DOMAIN certificate[program].depth
    BY <2>1, Zenon DEF IInv, OnCourse
  <2> QED
    BY <2>1, <2>2, InstructionIsThere, Zenon
<1> QED
  BY <1>1, InitInv, StepInv, PTL DEF Spec

=============================================================================
