--------------------------- MODULE MessagingProofs ---------------------------
(***************************************************************************)
(* Proofs about Messaging, for any number of tasks, any size of inboxes    *)
(* and any memory.                                                         *)
(***************************************************************************)
EXTENDS Messaging, ListLemmas, FiniteSetTheorems, TLAPS

-----------------------------------------------------------------------------
(* Walks over linked lists: the recursion of PointersFrom does define a      *)
(* function.                                                                 *)
IsWalk(f, p, next, n) ==
  f = [k \in 0 .. n |->
         IF k = 0 THEN p
         ELSE IF f[k - 1] \in DOMAIN next THEN next[f[k - 1]] ELSE NULL]

LEMMA WalkExists ==
  ASSUME NEW p, NEW next, NEW n \in Nat
  PROVE  \E f : IsWalk(f, p, next, n)
<1> DEFINE Walk(f, m) == IsWalk(f, p, next, m)
           T == {m \in Nat : \E f : Walk(f, m)}
<1> USE DEF IsWalk
<1>1. 0 \in T
  <2>1. Walk([k \in 0 .. 0 |-> p], 0)
    OBVIOUS
  <2> QED
    BY <2>1
<1>2. ASSUME NEW m \in Nat, m \in T
      PROVE  m + 1 \in T
  <2>1. PICK f : Walk(f, m)
    BY <1>2
  <2> DEFINE x == IF f[m] \in DOMAIN next THEN next[f[m]] ELSE NULL
             g == [k \in 0 .. m + 1 |-> IF k = m + 1 THEN x ELSE f[k]]
  <2>2. Walk(g, m + 1)
    <3> SUFFICES ASSUME NEW k \in 0 .. m + 1
                 PROVE  g[k] = IF k = 0 THEN p
                               ELSE IF g[k - 1] \in DOMAIN next THEN next[g[k - 1]] ELSE NULL
      OBVIOUS
    <3>1. CASE k = m + 1
      BY <3>1
    <3>2. CASE k # m + 1
      <4>1. k \in 0 .. m /\ g[k] = f[k] /\ (k # 0 => g[k - 1] = f[k - 1])
        BY <3>2
      <4>2. f[k] = IF k = 0 THEN p
                   ELSE IF f[k - 1] \in DOMAIN next THEN next[f[k - 1]] ELSE NULL
        BY <2>1, <4>1
      <4> QED
        BY <4>1, <4>2
    <3> QED
      BY <3>1, <3>2
  <2> HIDE DEF g, Walk
  <2> QED
    BY <2>2
<1> HIDE DEF T
<1>3. n \in T
  BY <1>1, <1>2, SetInduction
<1> QED
  BY <1>3 DEF T

LEMMA WalkProperties ==
  ASSUME NEW p, NEW next, NEW n \in Nat
  PROVE  LET f == PointersFrom(p, next, n) IN
         /\ DOMAIN f = 0 .. n
         /\ f[0] = p
         /\ \A k \in 0 .. n - 1 : f[k + 1] = IF f[k] \in DOMAIN next THEN next[f[k]] ELSE NULL
<1> DEFINE f == PointersFrom(p, next, n)
<1>1. f = [k \in 0 .. n |->
             IF k = 0 THEN p
             ELSE IF f[k - 1] \in DOMAIN next THEN next[f[k - 1]] ELSE NULL]
  <2>1. \E g : IsWalk(g, p, next, n)
    BY WalkExists
  <2>2. f = CHOOSE g : IsWalk(g, p, next, n)
    BY Zenon DEF PointersFrom, IsWalk
  <2> HIDE DEF f
  <2>3. IsWalk(f, p, next, n)
    BY <2>1, <2>2, Zenon
  <2> QED
    BY <2>3, Zenon DEF IsWalk
<1> HIDE DEF f
<1>2. DOMAIN f = 0 .. n /\ f[0] = p
  BY <1>1
<1>3. ASSUME NEW k \in 0 .. n - 1
      PROVE  f[k + 1] = IF f[k] \in DOMAIN next THEN next[f[k]] ELSE NULL
  <2>1. k + 1 \in 0 .. n /\ k + 1 # 0 /\ (k + 1) - 1 = k
    OBVIOUS
  <2> QED
    BY <1>1, <2>1
<1> QED
  BY <1>2, <1>3 DEF f

-----------------------------------------------------------------------------
(* Mail, for any heap. *)

Pointers == Cardinality(Message)

LEMMA FiniteHeap == Pointers \in Nat /\ Cardinality(Queue) \in Nat
BY MessagingAssumption, FS_CardinalityType DEF Pointers

NextIn(msg) == [m \in Message |-> msg[m].next]

MailIn(ib, q, msg) ==
  [t \in TaskId |->
     IF ib[t] = NULL THEN <<>>
     ELSE [k \in 1 .. q[ib[t]].count |->
             PointersFrom(q[ib[t]].head, NextIn(msg), Pointers)[k - 1]]]

LEMMA MailIsMailIn ==
  Mail = MailIn(inbox, queue, message) /\ Mail' = MailIn(inbox', queue', message')
BY DEF Mail, MailIn, ListFrom, NextIn, Pointers

(* The list s has c messages, the first one h, linked to one another. *)
Linked(s, c, h, msg) ==
  /\ s = [k \in 1 .. c |-> s[k]]
  /\ c > 0 => s[1] = h
  /\ \A k \in 1 .. c - 1 : s[k] \in Message => s[k + 1] = msg[s[k]].next

(* The messages of an inbox follow one another. *)
LEMMA MailFollows ==
  ASSUME NEW ib, NEW q, NEW msg, NEW t \in TaskId, ib[t] # NULL,
         q[ib[t]].count \in 0 .. Pointers
  PROVE  Linked(MailIn(ib, q, msg)[t], q[ib[t]].count, q[ib[t]].head, msg)
<1> DEFINE s == MailIn(ib, q, msg)[t]
           c == q[ib[t]].count
           f == PointersFrom(q[ib[t]].head, NextIn(msg), Pointers)
<1>1. s = [k \in 1 .. c |-> f[k - 1]]
  BY DEF MailIn
<1>2. /\ f[0] = q[ib[t]].head
      /\ \A k \in 0 .. Pointers - 1 :
           f[k + 1] = IF f[k] \in Message THEN msg[f[k]].next ELSE NULL
  <2>1. DOMAIN NextIn(msg) = Message /\ \A m \in Message : NextIn(msg)[m] = msg[m].next
    BY DEF NextIn
  <2> QED
    BY <2>1, WalkProperties, FiniteHeap
<1>3. c \in Nat /\ c <= Pointers /\ Pointers \in Nat
  BY FiniteHeap
<1> HIDE DEF s, c, f
<1>4. c > 0 => s[1] = q[ib[t]].head
  BY <1>1, <1>2, <1>3
<1>5. ASSUME NEW k \in 1 .. c - 1, s[k] \in Message
      PROVE  s[k + 1] = msg[s[k]].next
  <2>1. s[k] = f[k - 1] /\ s[k + 1] = f[(k + 1) - 1]
    BY <1>1, <1>3
  <2>2. (k - 1) \in 0 .. Pointers - 1 /\ (k - 1) + 1 = (k + 1) - 1
    BY <1>3
  <2> QED
    BY <1>2, <1>5, <2>1, <2>2
<1>6. s = [k \in 1 .. c |-> s[k]]
  BY <1>1
<1> QED
  BY <1>4, <1>5, <1>6 DEF s, c, Linked

(* The links determine the list. *)
LEMMA MailDetermined ==
  ASSUME NEW ib, NEW q, NEW msg, NEW t \in TaskId, ib[t] # NULL,
         q[ib[t]].count \in 0 .. Pointers,
         NEW s, Linked(s, q[ib[t]].count, q[ib[t]].head, msg),
         \A k \in 1 .. q[ib[t]].count - 1 : s[k] \in Message
  PROVE  MailIn(ib, q, msg)[t] = s
<1> DEFINE c == q[ib[t]].count
           r == MailIn(ib, q, msg)[t]
           T == {k \in Nat : k < c => r[k + 1] = s[k + 1]}
<1>1. /\ r = [k \in 1 .. c |-> r[k]]
      /\ c > 0 => r[1] = q[ib[t]].head
      /\ \A k \in 1 .. c - 1 : r[k] \in Message => r[k + 1] = msg[r[k]].next
  <2>1. Linked(r, c, q[ib[t]].head, msg)
    BY MailFollows
  <2> HIDE DEF r, c
  <2> QED
    BY <2>1 DEF Linked
<1>2. /\ s = [k \in 1 .. c |-> s[k]]
      /\ c > 0 => s[1] = q[ib[t]].head
      /\ \A k \in 1 .. c - 1 : s[k] \in Message /\ s[k + 1] = msg[s[k]].next
  BY DEF Linked
<1>3. c \in Nat
  BY FiniteHeap
<1> HIDE DEF c, r
<1>4. 0 \in T
  BY <1>1, <1>2, <1>3
<1>5. ASSUME NEW k \in Nat, k \in T
      PROVE  k + 1 \in T
  <2> SUFFICES ASSUME k + 1 < c PROVE r[(k + 1) + 1] = s[(k + 1) + 1]
    OBVIOUS
  <2>1. k + 1 \in 1 .. c - 1
    BY <1>3
  <2>2. r[k + 1] = s[k + 1]
    BY <1>3, <1>5
  <2> QED
    BY <1>1, <1>2, <2>1, <2>2
<1>6. Nat \subseteq T
  <2> HIDE DEF T
  <2> QED
    BY <1>4, <1>5, SetInduction
<1>7. ASSUME NEW k \in 1 .. c PROVE r[k] = s[k]
  <2>1. k - 1 \in Nat /\ k - 1 < c /\ (k - 1) + 1 = k
    BY <1>3
  <2>2. k - 1 \in T
    BY <1>6, <2>1
  <2> QED
    BY <2>1, <2>2
<1>8. r = s
  <2> HIDE DEF T
  <2> QED
    BY <1>1, <1>2, <1>7
<1> QED
  BY <1>8 DEF r

-----------------------------------------------------------------------------
(* What is always true of the heap.                                          *)

(* The allocated queues are the inboxes of the tasks, which were created in  *)
(* order.                                                                    *)
Inboxes ==
  /\ Root \in Tasks
  /\ inbox[Root] = message_queues
  /\ Tasks \subseteq 0 .. tasks_number
  /\ inboxes = {inbox[t] : t \in Tasks}

(* KeptOrRefused, also of the states in which the program has stopped.       *)
Waiting == {m \in Message : \E t \in Tasks : \E i \in DOMAIN Mail[t] : Mail[t][i] = m}
Kept == messages = refused \cup Waiting

(* What InboxLinked says of the inboxes.                                     *)
ListsLinked ==
  /\ \A t \in Tasks :
       LET q == queue[inbox[t]] IN
       /\ q.task_id = t
       /\ q.count = 0 <=> q.head = NULL
       /\ q.count > 0 => q.tail = Mail[t][q.count]
       /\ \A i \in DOMAIN Mail[t] :
            Mail[t][i] \in messages /\ message[Mail[t][i]].task_dst = t
  /\ \A s, t \in Tasks : \A i \in DOMAIN Mail[s], j \in DOMAIN Mail[t] :
       Mail[s][i] = Mail[t][j] => s = t /\ i = j

(* What a message_create that leaves Message.next as it found it does not    *)
(* spoil: the last message of a list may point anywhere, and is followed     *)
(* there only when its inbox is emptied or freed.                            *)
Sound == TypeOK /\ Inboxes /\ ListsLinked /\ Kept
IInv == TypeOK /\ (~astray => Sound)

(* Memory holds the messages of a list that has no message twice.            *)
LEMMA DistinctFits ==
  ASSUME NEW s, NEW c \in Nat,
         \A i \in 1 .. c : s[i] \in Message,
         \A i, j \in 1 .. c : s[i] = s[j] => i = j
  PROVE  c \in 0 .. Pointers
<1> DEFINE f == [i \in 1 .. c |-> s[i]]
<1>1. Cardinality(1 .. c) = c /\ IsFiniteSet(1 .. c)
  BY FS_Interval
<1>2. f \in [1 .. c -> Message]
  OBVIOUS
<1>3. IsFiniteSet(Message)
  BY MessagingAssumption
<1>4. CASE Pointers < c
  <2>1. \E x, y \in 1 .. c : x # y /\ f[x] = f[y]
    <3> HIDE DEF f
    <3> QED
      BY <1>1, <1>2, <1>3, <1>4, FS_PigeonHole DEF Pointers
  <2> QED
    BY <2>1
<1> QED
  BY <1>4, FiniteHeap

(* The inbox of a task and the list in it. *)
LEMMA ListOf ==
  ASSUME TypeOK, ListsLinked, NEW t \in Tasks
  PROVE  LET q == queue[inbox[t]] IN
         /\ inbox[t] \in Queue /\ t \in TaskId /\ inbox[t] # NULL
         /\ q.count \in Nat /\ q.count \in 0 .. Pointers
         /\ DOMAIN Mail[t] = 1 .. q.count
         /\ Linked(Mail[t], q.count, q.head, message)
         /\ \A i \in 1 .. q.count : Mail[t][i] \in messages /\ Mail[t][i] \in Message
         /\ \A i, j \in 1 .. q.count : Mail[t][i] = Mail[t][j] => i = j
         /\ Mail[t] \in Seq(Message) /\ Len(Mail[t]) = q.count
<1> DEFINE q == queue[inbox[t]]
           c == q.count
           s == Mail[t]
<1>1. inbox[t] \in Queue /\ t \in TaskId /\ inbox[t] # NULL
  BY DEF Tasks, TypeOK
<1>2. c \in Nat
  BY <1>1 DEF TypeOK
<1>3. DOMAIN s = 1 .. c
  BY <1>1, MailIsMailIn DEF MailIn
<1>4. \A i \in 1 .. c : s[i] \in messages
  BY <1>3 DEF ListsLinked
<1>5. \A i, j \in 1 .. c : s[i] = s[j] => i = j
  <2>1. \A i, j \in DOMAIN s : s[i] = s[j] => t = t /\ i = j
    BY Zenon DEF ListsLinked
  <2> HIDE DEF s, c
  <2> QED
    BY <1>3, <2>1
<1>6. \A i \in 1 .. c : s[i] \in Message
  BY <1>4 DEF TypeOK
<1>7. c \in 0 .. Pointers
  <2> HIDE DEF s, c
  <2> QED
    BY <1>2, <1>5, <1>6, DistinctFits
<1>8. Linked(s, c, q.head, message)
  BY <1>1, <1>7, MailFollows, MailIsMailIn
<1>9. s \in Seq(Message) /\ Len(s) = c
  <2>1. s = [k \in 1 .. c |-> s[k]]
    BY <1>8 DEF Linked
  <2> HIDE DEF s, c
  <2> QED
    BY <1>2, <1>6, <2>1
<1> QED
  BY <1>1, <1>2, <1>3, <1>4, <1>5, <1>6, <1>7, <1>8, <1>9

(* Two tasks have two inboxes. *)
LEMMA InboxesDiffer ==
  ASSUME ListsLinked, NEW s \in Tasks, NEW t \in Tasks, inbox[s] = inbox[t]
  PROVE  s = t
BY DEF ListsLinked

(* A message at the end of a list of allocated messages. *)
LEMMA LinkedAppend ==
  ASSUME NEW s \in Seq(Message), NEW c \in Nat, Len(s) = c, NEW m \in Message,
         NEW h, NEW msg, NEW msg2, Linked(s, c, h, msg),
         \A i, j \in 1 .. c : s[i] = s[j] => i = j,
         \A i \in 1 .. c : s[i] # m,
         c > 0 => msg2[s[c]].next = m,
         \A k \in Message \ {m} : (c > 0 => k # s[c]) => msg2[k].next = msg[k].next
  PROVE  /\ Linked(Append(s, m), c + 1, IF c = 0 THEN m ELSE h, msg2)
         /\ \A i \in 1 .. c + 1 : Append(s, m)[i] \in Message
         /\ \A i, j \in 1 .. c + 1 : Append(s, m)[i] = Append(s, m)[j] => i = j
<1> DEFINE a == Append(s, m)
<1>0. a = [i \in 1 .. c + 1 |-> a[i]]
  BY AppendElements
<1>1. /\ \A i \in 1 .. c : a[i] = s[i]
      /\ a[c + 1] = m
  BY AppendElements
<1>2. /\ c > 0 => s[1] = h
      /\ \A k \in 1 .. c - 1 : s[k] \in Message => s[k + 1] = msg[s[k]].next
  BY DEF Linked
<1>3. \A i \in 1 .. c : s[i] \in Message
  BY ElementOfSeq
<1> HIDE DEF a
<1>4. a[1] = IF c = 0 THEN m ELSE h
  BY <1>1, <1>2
<1>5. ASSUME NEW k \in 1 .. c
      PROVE  a[k + 1] = msg2[a[k]].next
  <2>1. CASE k = c
    <3>1. k > 0 /\ a[k] = s[k] /\ a[k + 1] = m
      BY <1>1, <2>1
    <3> QED
      BY <2>1, <3>1
  <2>2. CASE k # c
    <3>1. k \in 1 .. c - 1 /\ k + 1 \in 1 .. c /\ c \in 1 .. c
      BY <2>2
    <3>2. s[k] # s[c] /\ s[k] # m /\ s[k] \in Message
      BY <1>3, <2>2, <3>1
    <3>3. msg2[s[k]].next = msg[s[k]].next
      BY <3>2
    <3> QED
      BY <1>1, <1>2, <3>1, <3>2, <3>3
  <2> QED
    BY <2>1, <2>2
<1>6. \A i \in 1 .. c + 1 : a[i] \in Message
  BY <1>1, <1>3
<1>7. \A i, j \in 1 .. c + 1 : a[i] = a[j] => i = j
  <2> TAKE i, j \in 1 .. c + 1
  <2>1. i \in 1 .. c \/ i = c + 1
    OBVIOUS
  <2>2. j \in 1 .. c \/ j = c + 1
    OBVIOUS
  <2> QED
    BY <1>1, <2>1, <2>2
<1>8. Linked(a, c + 1, IF c = 0 THEN m ELSE h, msg2)
  <2>1. \A k \in 1 .. (c + 1) - 1 : a[k] \in Message => a[k + 1] = msg2[a[k]].next
    BY <1>5
  <2> QED
    BY <1>0, <1>4, <2>1, Zenon DEF Linked
<1> QED
  BY <1>6, <1>7, <1>8 DEF a

(* The list without its first message. *)
LEMMA LinkedTail ==
  ASSUME NEW s \in Seq(Message), NEW c \in Nat \ {0}, Len(s) = c,
         NEW h, NEW msg, Linked(s, c, h, msg)
  PROVE  /\ Tail(s) \in Seq(Message) /\ Len(Tail(s)) = c - 1
         /\ \A i \in 1 .. c - 1 : Tail(s)[i] = s[i + 1] /\ Tail(s)[i] \in Message
         /\ Linked(Tail(s), c - 1, msg[s[1]].next, msg)
<1> DEFINE r == Tail(s)
<1>0. s # <<>>
  BY EmptySeq
<1>1. /\ r = [i \in 1 .. c - 1 |-> r[i]]
      /\ \A i \in 1 .. c - 1 : r[i] = s[i + 1]
  BY <1>0, TailElements
<1>2. r \in Seq(Message) /\ Len(r) = c - 1
  BY <1>0, HeadTailProperties
<1>3. \A k \in 1 .. c - 1 : s[k] \in Message => s[k + 1] = msg[s[k]].next
  BY DEF Linked
<1>4. \A i \in 1 .. c : s[i] \in Message
  BY ElementOfSeq
<1> HIDE DEF r
<1>5. \A i \in 1 .. c - 1 : r[i] \in Message
  BY <1>1, <1>4
<1>6. c - 1 > 0 => r[1] = msg[s[1]].next
  <2> HAVE c - 1 > 0
  <2>1. 1 \in 1 .. c - 1 /\ 1 \in 1 .. c
    OBVIOUS
  <2> QED
    BY <1>1, <1>3, <1>4, <2>1
<1>7. ASSUME NEW k \in 1 .. (c - 1) - 1
      PROVE  r[k + 1] = msg[r[k]].next
  <2>1. k + 1 \in 1 .. c - 1 /\ k \in 1 .. c - 1 /\ k + 1 \in 1 .. c
    OBVIOUS
  <2> QED
    BY <1>1, <1>3, <1>4, <2>1
<1>8. Linked(r, c - 1, msg[s[1]].next, msg)
  BY <1>1, <1>6, <1>7 DEF Linked
<1> QED
  BY <1>1, <1>2, <1>5, <1>8 DEF r

(* The same for the next state. *)
LEMMA NextList ==
  ASSUME NEW t \in TaskId, inbox'[t] # NULL,
         queue'[inbox'[t]].count \in 0 .. Pointers,
         NEW s, Linked(s, queue'[inbox'[t]].count, queue'[inbox'[t]].head, message'),
         \A k \in 1 .. queue'[inbox'[t]].count - 1 : s[k] \in Message
  PROVE  Mail'[t] = s
<1>1. MailIn(inbox', queue', message')[t] = s
  BY MailDetermined
<1> QED
  BY <1>1, MailIsMailIn

(* A list stays as it is if its messages go on pointing where they do.       *)
LEMMA NextSame ==
  ASSUME TypeOK, ListsLinked, NEW t \in Tasks, inbox'[t] # NULL,
         queue'[inbox'[t]].count = queue[inbox[t]].count,
         queue'[inbox'[t]].head = queue[inbox[t]].head,
         \A k \in 1 .. queue[inbox[t]].count :
           message'[Mail[t][k]].next = message[Mail[t][k]].next
  PROVE  Mail'[t] = Mail[t]
<1> DEFINE s == Mail[t]
           c == queue[inbox[t]].count
           h == queue[inbox[t]].head
<1>1. /\ t \in TaskId
      /\ c \in Nat /\ c \in 0 .. Pointers
      /\ Linked(s, c, h, message)
      /\ \A k \in 1 .. c : s[k] \in Message
  BY ListOf
<1>2. s = [k \in 1 .. c |-> s[k]]
  BY <1>1 DEF Linked
<1>3. c > 0 => s[1] = h
  BY <1>1 DEF Linked
<1>4. \A k \in 1 .. c - 1 : s[k] \in Message => s[k + 1] = message'[s[k]].next
  <2>1. \A k \in 1 .. c - 1 : s[k] \in Message => s[k + 1] = message[s[k]].next
    BY <1>1 DEF Linked
  <2>2. \A k \in 1 .. c : message'[s[k]].next = message[s[k]].next
    OBVIOUS
  <2>3. c \in Nat
    BY <1>1
  <2> HIDE DEF s, c, h
  <2>4. \A k \in 1 .. c - 1 : k \in 1 .. c
    BY <2>3
  <2> QED
    BY <2>1, <2>2, <2>4
<1>5. Linked(s, c, h, message')
  <2> HIDE DEF s, c, h
  <2> QED
    BY <1>2, <1>3, <1>4, Zenon DEF Linked
<1>6. /\ queue'[inbox'[t]].count = c
      /\ queue'[inbox'[t]].head = h
  OBVIOUS
<1>7. \A k \in 1 .. c - 1 : s[k] \in Message
  BY <1>1
<1> HIDE DEF s, c, h
<1> QED
  BY <1>1, <1>5, <1>6, <1>7, NextList DEF s

-----------------------------------------------------------------------------
(* A message is accepted: it becomes the last of its list, and no other list *)
(* changes.                                                                  *)
LEMMA EnqueuedDetails ==
  ASSUME TypeOK, ListsLinked, NEW t \in Tasks, NEW m \in Message \ messages,
         NEW n \in Pointer, Enqueued(inbox[t], m, n)
  PROVE  /\ \A p \in Queue \ {inbox[t]} : queue'[p] = queue[p]
         /\ queue'[inbox[t]].task_id = t
         /\ queue'[inbox[t]].head = IF queue[inbox[t]].count = 0 THEN m
                                    ELSE queue[inbox[t]].head
         /\ queue'[inbox[t]].tail = m
         /\ queue'[inbox[t]].count = queue[inbox[t]].count + 1
         /\ message'[m].task_dst = t
         /\ \A k \in Message \ {m} :
              /\ message'[k].task_dst = message[k].task_dst
              /\ message'[k].next = IF queue[inbox[t]].count > 0
                                        /\ k = Mail[t][queue[inbox[t]].count]
                                     THEN m ELSE message[k].next
<1> DEFINE q == queue[inbox[t]]
           c == q.count
<1>1. /\ inbox[t] \in Queue /\ c \in Nat
      /\ \A i \in 1 .. c : Mail[t][i] \in messages /\ Mail[t][i] \in Message
  BY ListOf
<1>2. /\ queue \in [Queue -> [next : Queue \cup {NULL}, task_id : TaskId,
                              head : Pointer, tail : Pointer,
                              count : 0 .. TASK_MESSAGE_QUEUE_SIZE]]
      /\ message \in [Message -> [next : Pointer, task_dst : TaskId]]
  BY DEF TypeOK
<1>3. /\ q.task_id = t
      /\ c = 0 <=> q.head = NULL
      /\ c > 0 => q.tail = Mail[t][c]
  BY DEF ListsLinked
<1>6. DOMAIN queue = Queue /\ DOMAIN message = Message
  BY <1>2
<1>7. q \in [next : Queue \cup {NULL}, task_id : TaskId, head : Pointer,
             tail : Pointer, count : 0 .. TASK_MESSAGE_QUEUE_SIZE]
  BY <1>1, <1>2
<1>8. \A k \in Message : message[k] \in [next : Pointer, task_dst : TaskId]
  BY <1>2
<1> DEFINE r == [next |-> n, task_dst |-> t]
<1>4. CASE c = 0
  <2> DEFINE r1 == [q EXCEPT !.head = m, !.tail = m, !.count = @ + 1]
  <2>1. queue' = [queue EXCEPT ![inbox[t]] = r1]
    <3>1. queue' = [queue EXCEPT ![inbox[t]].head = m, ![inbox[t]].tail = m,
                                 ![inbox[t]].count = @ + 1]
      BY <1>3, <1>4 DEF Enqueued
    <3> QED
      BY <3>1
  <2>2. message' = [message EXCEPT ![m] = r]
    BY <1>3, <1>4 DEF Enqueued
  <2>3. /\ r1.task_id = t /\ r1.head = m /\ r1.tail = m /\ r1.count = c + 1
    BY <1>3, <1>7
  <2> HIDE DEF r1, r
  <2>7. queue'[inbox[t]] = r1
    BY <1>1, <1>6, <2>1
  <2>4. \A p \in Queue \ {inbox[t]} : queue'[p] = queue[p]
    BY <1>6, <2>1
  <2>5. message'[m] = r
    BY <1>6, <2>2
  <2>6. \A k \in Message \ {m} : message'[k] = message[k]
    BY <1>6, <2>2
  <2> QED
    BY <1>4, <2>3, <2>4, <2>5, <2>6, <2>7 DEF r
<1>5. CASE c # 0
  <2>1. c > 0 /\ q.tail = Mail[t][c] /\ q.tail \in messages /\ q.tail \in Message /\ q.tail # m
    <3>1. c > 0 /\ c \in 1 .. c
      BY <1>1, <1>5
    <3> QED
      BY <1>1, <1>3, <3>1
  <2> DEFINE r1 == [q EXCEPT !.tail = m, !.count = @ + 1]
             l  == q.tail
             r2 == [message[l] EXCEPT !.next = m]
             message1 == [message EXCEPT ![m] = r]
  <2>2. queue' = [queue EXCEPT ![inbox[t]] = r1]
    <3>1. queue' = [queue EXCEPT ![inbox[t]].tail = m, ![inbox[t]].count = @ + 1]
      BY <1>3, <1>5 DEF Enqueued
    <3> QED
      BY <3>1
  <2>3. message' = [message1 EXCEPT ![l].next = m]
    <3>1. message' = [message EXCEPT ![m] = r, ![l].next = m]
      BY <1>3, <1>5 DEF Enqueued
    <3> QED
      BY <3>1
  <2>4. r1.task_id = t /\ r1.head = q.head /\ r1.tail = m /\ r1.count = c + 1
    BY <1>3, <1>7
  <2>9. r2.next = m /\ r2.task_dst = message[l].task_dst
    BY <1>8, <2>1
  <2>10. l \in Message /\ l # m /\ (c > 0 /\ l = Mail[t][c])
    BY <2>1
  <2> HIDE DEF r1, l, r
  <2>11. /\ DOMAIN message1 = Message /\ message1[m] = r /\ message1[l] = message[l]
         /\ \A k \in Message \ {m} : message1[k] = message[k]
    BY <1>6, <2>10
  <2>12. message' = [message1 EXCEPT ![l] = r2]
    BY <2>3, <2>11
  <2> HIDE DEF r2, message1
  <2>13. queue'[inbox[t]] = r1
    BY <1>1, <1>6, <2>2
  <2>5. \A p \in Queue \ {inbox[t]} : queue'[p] = queue[p]
    BY <1>6, <2>2
  <2>6. message'[m] = r
    BY <2>10, <2>11, <2>12
  <2>7. message'[l] = r2
    BY <2>10, <2>11, <2>12
  <2>8. \A k \in Message \ {m} : k # l => message'[k] = message[k]
    BY <2>11, <2>12
  <2>14. r.task_dst = t
    BY DEF r
  <2> QED
    BY <1>5, <2>4, <2>5, <2>6, <2>7, <2>8, <2>9, <2>10, <2>13, <2>14
<1> QED
  BY <1>4, <1>5

(* The mail of the task t is now s, and that of every other is as it was.    *)
MailBecomes(t, s) == Mail' = [Mail EXCEPT ![t] = s]

LEMMA MailAppended ==
  ASSUME TypeOK, ListsLinked, NEW t \in Tasks, NEW m \in Message \ messages,
         NEW n \in Pointer, Enqueued(inbox[t], m, n), inbox' = inbox
  PROVE  MailBecomes(t, Append(Mail[t], m))
<1> DEFINE q == queue[inbox[t]]
           c == q.count
           s == Mail[t]
           h == IF c = 0 THEN m ELSE q.head
<1>1. /\ inbox[t] \in Queue /\ t \in TaskId /\ inbox[t] # NULL
      /\ c \in Nat
      /\ Linked(s, c, q.head, message)
      /\ \A i \in 1 .. c : s[i] \in messages
      /\ \A i, j \in 1 .. c : s[i] = s[j] => i = j
      /\ s \in Seq(Message) /\ Len(s) = c
  BY ListOf
<1>4. /\ queue'[inbox[t]].count = c + 1
      /\ queue'[inbox[t]].head = h
      /\ \A p \in Queue \ {inbox[t]} : queue'[p] = queue[p]
  BY EnqueuedDetails
<1>5. \A k \in Message \ {m} :
        message'[k].next = IF c > 0 /\ k = s[c] THEN m ELSE message[k].next
  BY EnqueuedDetails
<1>6. /\ Linked(Append(s, m), c + 1, h, message')
      /\ \A i \in 1 .. c + 1 : Append(s, m)[i] \in Message
      /\ \A i, j \in 1 .. c + 1 : Append(s, m)[i] = Append(s, m)[j] => i = j
  <2>1. c > 0 => message'[s[c]].next = m
    <3> HAVE c > 0
    <3>1. c \in 1 .. c
      BY <1>1
    <3>2. s[c] \in Message \ {m}
      BY <1>1, <3>1, ElementOfSeq
    <3> HIDE DEF c, s
    <3> QED
      BY <1>5, <3>2
  <2>2. \A k \in Message \ {m} : (c > 0 => k # s[c]) => message'[k].next = message[k].next
    BY <1>5
  <2>3. \A i \in 1 .. c : s[i] # m
    BY <1>1
  <2> DEFINE g == q.head
             new == message'
  <2>4. Linked(s, c, g, message)
    BY <1>1
  <2>5. c > 0 => new[s[c]].next = m
    BY <2>1
  <2>6. \A k \in Message \ {m} : (c > 0 => k # s[c]) => new[k].next = message[k].next
    BY <2>2
  <2>7. s \in Seq(Message) /\ Len(s) = c /\ c \in Nat /\ m \in Message
    BY <1>1
  <2>8. \A i, j \in 1 .. c : s[i] = s[j] => i = j
    BY <1>1
  <2> HIDE DEF c, s, g, new
  <2>9. Linked(Append(s, m), c + 1, IF c = 0 THEN m ELSE g, new)
    BY <2>3, <2>4, <2>5, <2>6, <2>7, <2>8, LinkedAppend
  <2>10. \A i \in 1 .. c + 1 : Append(s, m)[i] \in Message
    BY <2>3, <2>4, <2>5, <2>6, <2>7, <2>8, LinkedAppend
  <2>11. \A i, j \in 1 .. c + 1 : Append(s, m)[i] = Append(s, m)[j] => i = j
    BY <2>3, <2>4, <2>5, <2>6, <2>7, <2>8, LinkedAppend
  <2> QED
    BY <2>9, <2>10, <2>11 DEF new, g
<1>3. c + 1 \in 0 .. Pointers
  <2> DEFINE a == Append(s, m)
             b == c + 1
  <2>1. b \in Nat
    BY <1>1
  <2>2. \A i \in 1 .. b : a[i] \in Message
    BY <1>6
  <2>3. \A i, j \in 1 .. b : a[i] = a[j] => i = j
    BY <1>6
  <2> HIDE DEF a, b
  <2>4. b \in 0 .. Pointers
    BY <2>1, <2>2, <2>3, DistinctFits
  <2> QED
    BY <2>4 DEF b
<1>7. Mail'[t] = Append(s, m)
  <2> DEFINE a == Append(s, m)
             b == c + 1
  <2>1. b \in 0 .. Pointers
    BY <1>3
  <2>2. Linked(a, b, h, message')
    BY <1>6
  <2>3. \A k \in 1 .. b - 1 : a[k] \in Message
    BY <1>1, <1>6
  <2>4. /\ queue'[inbox'[t]].count = b /\ queue'[inbox'[t]].head = h
        /\ inbox'[t] # NULL /\ t \in TaskId
    BY <1>1, <1>4
  <2> HIDE DEF a, b, h
  <2> QED
    BY <2>1, <2>2, <2>3, <2>4, NextList DEF a
<1>8. ASSUME NEW u \in TaskId, u # t
      PROVE  Mail'[u] = Mail[u]
  <2>1. CASE inbox[u] = NULL
    BY <2>1, MailIsMailIn DEF MailIn
  <2>2. CASE inbox[u] # NULL
    <3>1. u \in Tasks
      BY <2>2 DEF Tasks
    <3>2. /\ inbox[u] \in Queue
          /\ queue[inbox[u]].count \in 0 .. Pointers
          /\ DOMAIN Mail[u] = 1 .. queue[inbox[u]].count
          /\ \A i \in 1 .. queue[inbox[u]].count : Mail[u][i] \in messages
          /\ \A i \in 1 .. queue[inbox[u]].count : Mail[u][i] \in Message
      BY <3>1, ListOf
    <3>3. queue'[inbox[u]] = queue[inbox[u]]
      BY <1>4, <1>8, <3>1, <3>2, InboxesDiffer
    <3>4. ASSUME NEW k \in 1 .. queue[inbox[u]].count
          PROVE  message'[Mail[u][k]].next = message[Mail[u][k]].next
      <4>1. Mail[u][k] # m
        BY <3>2
      <4>2. c > 0 => Mail[u][k] # s[c]
        <5>1. \A i \in DOMAIN Mail[u], j \in DOMAIN Mail[t] :
                 Mail[u][i] = Mail[t][j] => u = t /\ i = j
          BY <3>1, Zenon DEF ListsLinked
        <5>2. DOMAIN s = 1 .. c
          BY ListOf
        <5> HIDE DEF c
        <5>3. c > 0 => c \in DOMAIN s
          BY <1>1, <5>2
        <5> QED
          BY <1>8, <3>2, <5>1, <5>3
      <4> HIDE DEF s, c
      <4> QED
        BY <1>5, <3>2, <4>1, <4>2
    <3> QED
      BY <2>2, <3>1, <3>2, <3>3, <3>4, NextSame
  <2> QED
    BY <2>1, <2>2
<1>9. Mail' = [u \in TaskId |-> Mail'[u]] /\ Mail = [u \in TaskId |-> Mail[u]]
  BY MailIsMailIn DEF MailIn
<1> DEFINE a == Append(s, m)
<1> HIDE DEF a
<1>10. Mail' = [u \in TaskId |-> IF u = t THEN a ELSE Mail[u]]
  BY <1>7, <1>8, <1>9 DEF a
<1> QED
  BY <1>9, <1>10 DEF a, MailBecomes

-----------------------------------------------------------------------------
(* A message is taken: it was the first of its list, and no other list       *)
(* changes.                                                                  *)
Dequeued(t) ==
  /\ queue[inbox[t]].count > 0
  /\ queue' = [queue EXCEPT ![inbox[t]].head = message[queue[inbox[t]].head].next,
                            ![inbox[t]].count = queue[inbox[t]].count - 1]
  /\ UNCHANGED <<inbox, message>>

LEMMA MailTaken ==
  ASSUME TypeOK, ListsLinked, NEW t \in Tasks, Dequeued(t)
  PROVE  /\ MailBecomes(t, Tail(Mail[t]))
         /\ queue[inbox[t]].head = Mail[t][1]
<1> DEFINE c == queue[inbox[t]].count
           g == queue[inbox[t]].head
           s == Mail[t]
           n == c - 1
           r == Tail(s)
           h == message[g].next
<1>1. /\ inbox[t] \in Queue /\ t \in TaskId /\ inbox[t] # NULL
      /\ c \in Nat /\ c \in 0 .. Pointers /\ c > 0
      /\ Linked(s, c, g, message)
      /\ s \in Seq(Message) /\ Len(s) = c
  BY ListOf DEF Dequeued
<1>2. s[1] = g
  BY <1>1 DEF Linked
<1>3. /\ queue'[inbox[t]].count = n
      /\ queue'[inbox[t]].head = h
      /\ \A p \in Queue \ {inbox[t]} : queue'[p] = queue[p]
  <2>1. queue \in [Queue -> [next : Queue \cup {NULL}, task_id : TaskId,
                             head : Pointer, tail : Pointer,
                             count : 0 .. TASK_MESSAGE_QUEUE_SIZE]]
    BY DEF TypeOK
  <2> QED
    BY <1>1, <2>1 DEF Dequeued
<1>0. message' = message /\ inbox' = inbox
  BY DEF Dequeued
<1>4. Linked(r, n, h, message)
  <2>1. c \in Nat \ {0}
    BY <1>1
  <2>2. Linked(r, n, message[s[1]].next, message)
    <3> HIDE DEF s, c, g
    <3> QED
      BY <1>1, <2>1, LinkedTail
  <2> QED
    BY <1>2, <2>2
<1>5. \A k \in 1 .. n - 1 : r[k] \in Message
  <2>1. c \in Nat \ {0}
    BY <1>1
  <2>2. \A k \in 1 .. c - 1 : Tail(s)[k] = s[k + 1] /\ Tail(s)[k] \in Message
    <3> HIDE DEF s, c, g
    <3> QED
      BY <1>1, <2>1, LinkedTail
  <2> HIDE DEF s, c
  <2> QED
    BY <1>1, <2>2
<1>6. Mail'[t] = r
  <2>1. Linked(r, n, h, message')
    BY <1>0, <1>4
  <2>2. /\ queue'[inbox'[t]].count = n /\ queue'[inbox'[t]].head = h
        /\ inbox'[t] # NULL /\ t \in TaskId
    BY <1>0, <1>1, <1>3
  <2>3. n \in 0 .. Pointers
    BY <1>1, FiniteHeap
  <2> HIDE DEF r, n, h
  <2> QED
    BY <1>5, <2>1, <2>2, <2>3, NextList
<1>7. ASSUME NEW u \in TaskId, u # t
      PROVE  Mail'[u] = Mail[u]
  <2>1. CASE inbox[u] = NULL
    BY <1>0, <2>1, MailIsMailIn DEF MailIn
  <2>2. CASE inbox[u] # NULL
    <3>1. u \in Tasks
      BY <2>2 DEF Tasks
    <3>2. inbox[u] \in Queue
      BY <3>1, ListOf
    <3>3. queue'[inbox[u]] = queue[inbox[u]]
      BY <1>3, <1>7, <3>1, <3>2, InboxesDiffer
    <3> QED
      BY <1>0, <2>2, <3>1, <3>2, <3>3, NextSame
  <2> QED
    BY <2>1, <2>2
<1>8. Mail' = [u \in TaskId |-> Mail'[u]] /\ Mail = [u \in TaskId |-> Mail[u]]
  BY MailIsMailIn DEF MailIn
<1> HIDE DEF r
<1>9. Mail' = [u \in TaskId |-> IF u = t THEN r ELSE Mail[u]]
  BY <1>6, <1>7, <1>8
<1> QED
  BY <1>2, <1>8, <1>9 DEF r, MailBecomes

-----------------------------------------------------------------------------
(* message_queue_free frees the messages of a list that ends with its last   *)
(* message, and no others.                                                   *)
LEMMA FreedIsMail ==
  ASSUME TypeOK, ListsLinked, NEW t \in Tasks, ~PointsBeyond(inbox[t])
  PROVE  /\ MessagesFrom(queue[inbox[t]].head) = {Mail[t][i] : i \in DOMAIN Mail[t]}
         /\ EndsInNull(queue[inbox[t]].head)
<1> DEFINE c == queue[inbox[t]].count
           h == queue[inbox[t]].head
           s == Mail[t]
           f == ListFrom(h)
           T == {k \in Nat : c <= k /\ k <= Pointers => f[k] = NULL}
<1>1. /\ inbox[t] \in Queue /\ t \in TaskId /\ inbox[t] # NULL
      /\ c \in Nat /\ c <= Pointers /\ DOMAIN s = 1 .. c
      /\ \A i \in 1 .. c : s[i] \in Message
  BY ListOf
<1>2. s = [k \in 1 .. c |-> f[k - 1]]
  BY <1>1 DEF Mail
<1>3. /\ DOMAIN f = 0 .. Pointers
      /\ f[0] = h
      /\ \A k \in 0 .. Pointers - 1 :
           f[k + 1] = IF f[k] \in Message THEN message[f[k]].next ELSE NULL
  <2>1. /\ DOMAIN NextIn(message) = Message
        /\ \A m \in Message : NextIn(message)[m] = message[m].next
    BY DEF NextIn
  <2>2. f = PointersFrom(h, NextIn(message), Pointers)
    BY DEF ListFrom, NextIn, Pointers
  <2> QED
    BY <2>1, <2>2, WalkProperties, FiniteHeap
<1>4. c > 0 => message[s[c]].next = NULL
  <2>1. c > 0 => queue[inbox[t]].tail = s[c]
    BY DEF ListsLinked
  <2>2. c > 0 => message[queue[inbox[t]].tail].next = NULL
    BY DEF PointsBeyond
  <2> QED
    BY <2>1, <2>2
<1>5. c = 0 => h = NULL
  BY DEF ListsLinked
<1>6. NULL \notin Message /\ Pointers \in Nat
  BY MessagingAssumption, FiniteHeap
<1> HIDE DEF c, h, s, f
<1>7. f[c] = NULL
  <2>1. CASE c = 0
    BY <1>3, <1>5, <2>1
  <2>2. CASE c # 0
    <3>1. c - 1 \in 0 .. Pointers - 1 /\ c \in 1 .. c /\ (c - 1) + 1 = c /\ c > 0
      BY <1>1, <1>6, <2>2
    <3>2. f[c - 1] = s[c] /\ s[c] \in Message
      BY <1>1, <1>2, <3>1
    <3> QED
      BY <1>3, <1>4, <3>1, <3>2
  <2> QED
    BY <2>1, <2>2
<1>8. 0 \in T
  BY <1>1, <1>7
<1>9. ASSUME NEW k \in Nat, k \in T
      PROVE  k + 1 \in T
  <2> SUFFICES ASSUME c <= k + 1, k + 1 <= Pointers
               PROVE  f[k + 1] = NULL
    OBVIOUS
  <2>1. CASE c = k + 1
    BY <1>7, <2>1
  <2>2. CASE c # k + 1
    <3>1. c <= k /\ k <= Pointers /\ k \in 0 .. Pointers - 1
      BY <1>1, <1>6, <2>2
    <3>2. f[k] = NULL
      BY <1>9, <3>1
    <3> QED
      BY <1>3, <1>6, <3>1, <3>2
  <2> QED
    BY <2>1, <2>2
<1>10. \A k \in 0 .. Pointers : c <= k => f[k] = NULL
  <2>1. Nat \subseteq T
    <3> HIDE DEF T
    <3> QED
      BY <1>8, <1>9, SetInduction
  <2> QED
    BY <2>1
<1>11. MessagesFrom(h) = {f[k] : k \in 0 .. Pointers} \ {NULL}
  BY <1>3 DEF MessagesFrom, f
<1>12. ASSUME NEW k \in 0 .. Pointers, f[k] # NULL
       PROVE  \E i \in 1 .. c : f[k] = s[i]
  <2>1. k < c /\ k + 1 \in 1 .. c /\ (k + 1) - 1 = k
    BY <1>1, <1>6, <1>10, <1>12
  <2> QED
    BY <1>2, <2>1
<1>13. ASSUME NEW i \in 1 .. c
       PROVE  \E k \in 0 .. Pointers : f[k] = s[i] /\ f[k] # NULL
  <2>1. i - 1 \in 0 .. Pointers
    BY <1>1, <1>6
  <2> QED
    BY <1>1, <1>2, <1>6, <2>1
<1>14. MessagesFrom(h) = {s[i] : i \in 1 .. c}
  BY <1>11, <1>12, <1>13
<1>15. EndsInNull(h)
  <2>1. \A i \in 1 .. c : s[i] \in messages
    BY ListOf DEF s, c
  <2>2. c \in DOMAIN f /\ f[c] = NULL
    BY <1>1, <1>3, <1>6, <1>7
  <2> QED
    BY <1>14, <2>1, <2>2 DEF EndsInNull, f
<1> QED
  BY <1>1, <1>14, <1>15 DEF h, s

-----------------------------------------------------------------------------
(* Type correctness, which holds of any memory. *)
QueueRecord ==
  [next : Queue \cup {NULL}, task_id : TaskId, head : Pointer, tail : Pointer,
   count : 0 .. TASK_MESSAGE_QUEUE_SIZE]
MessageRecord == [next : Pointer, task_dst : TaskId]

LEMMA DeliverLocalTypes ==
  ASSUME TypeOK, NEW m \in Message \ messages, NEW n \in Pointer, NEW d \in TaskId,
         DeliverLocal(m, n, d)
  PROVE  TypeOK'
<1>0. astray' \in BOOLEAN
  BY DEF DeliverLocal, TypeOK
<1>1. CASE \E how \in {"hung", "undefined"} : Stop(how)
  BY <1>0, <1>1 DEF TypeOK, Stop, heap
<1>2. CASE UNCHANGED vars
  BY <1>2 DEF TypeOK, vars
<1>3. CASE /\ messages' = messages \cup {m}
           /\ message' = [message EXCEPT ![m] = [next |-> n, task_dst |-> d]]
           /\ refused' = refused \cup {m}
           /\ UNCHANGED <<tasks_number, inbox, message_queues, inboxes, queue, status>>
  <2>1. message' \in [Message -> MessageRecord]
    BY <1>3 DEF TypeOK, MessageRecord
  <2> QED
    BY <1>0, <1>3, <2>1 DEF TypeOK, MessageRecord
<1>4. ASSUME NEW q \in inboxes,
             HasRoom(q), queue[q].head = NULL \/ queue[q].tail \in messages,
             Enqueued(q, m, n),
             messages' = messages \cup {m},
             UNCHANGED <<tasks_number, inbox, message_queues, inboxes, status, refused>>
      PROVE  TypeOK'
  <2>1. /\ q \in Queue
        /\ queue \in [Queue -> QueueRecord]
        /\ message \in [Message -> MessageRecord]
        /\ m \in Pointer
    BY DEF TypeOK, QueueRecord, MessageRecord, Pointer
  <2>2. queue[q] \in QueueRecord
    BY <2>1
  <2>3. queue[q].count + 1 \in 0 .. TASK_MESSAGE_QUEUE_SIZE
    BY <1>4, <2>2, MessagingAssumption DEF HasRoom, QueueRecord
  <2>4. queue' \in [Queue -> QueueRecord]
    <3>1. CASE queue[q].head = NULL
      BY <2>1, <2>2, <2>3, <1>4, <3>1 DEF Enqueued, QueueRecord
    <3>2. CASE queue[q].head # NULL
      BY <2>1, <2>2, <2>3, <1>4, <3>2 DEF Enqueued, QueueRecord
    <3> QED
      BY <3>1, <3>2
  <2>5. message' \in [Message -> MessageRecord]
    <3>1. queue[q].task_id \in TaskId
      BY <2>2 DEF QueueRecord
    <3> DEFINE new == [next |-> n, task_dst |-> queue[q].task_id]
    <3>2. new \in MessageRecord
      BY <3>1 DEF MessageRecord
    <3>3. CASE queue[q].head = NULL
      <4>1. message' = [message EXCEPT ![m] = new]
        BY <1>4, <3>3 DEF Enqueued
      <4> HIDE DEF new
      <4> QED
        BY <2>1, <3>2, <4>1
    <3>4. CASE queue[q].head # NULL
      <4>1. message' = [message EXCEPT ![m] = new, ![queue[q].tail].next = m]
        BY <1>4, <3>4 DEF Enqueued
      <4>2. queue[q].tail \in Message
        BY <1>4, <3>4 DEF TypeOK
      <4> HIDE DEF new
      <4> QED
        BY <2>1, <3>2, <4>1, <4>2 DEF MessageRecord
    <3> QED
      BY <3>3, <3>4
  <2> QED
    BY <1>0, <1>4, <2>4, <2>5 DEF TypeOK, QueueRecord, MessageRecord
<1> QED
  BY <1>1, <1>2, <1>3, <1>4, Zenon DEF DeliverLocal

LEMMA TypeStep == TypeOK /\ [Next]_vars => TypeOK'
<1> SUFFICES ASSUME TypeOK, [Next]_vars
             PROVE  TypeOK'
  OBVIOUS
<1>0. \A how \in {"hung", "undefined"} : Stop(how) /\ astray' \in BOOLEAN => TypeOK'
  BY DEF TypeOK, Stop, heap
<1>1. CASE CreateInbox
  <2> DEFINE t == tasks_number + 1
  <2>0. PICK q \in Queue \ inboxes : \E last :
          \/ /\ tasks_number' = t
             /\ inbox' = [inbox EXCEPT ![t] = q]
             /\ inboxes' = inboxes \cup {q}
             /\ queue' = [p \in Queue |->
                            IF p \in last THEN [Created(q, t)[p] EXCEPT !.next = q]
                            ELSE Created(q, t)[p]]
             /\ UNCHANGED <<message_queues, messages, message, status, refused>>
          \/ Stop("hung") \/ Stop("undefined")
    BY <1>1 DEF CreateInbox
  <2>1. PICK last :
          \/ /\ tasks_number' = t
             /\ inbox' = [inbox EXCEPT ![t] = q]
             /\ inboxes' = inboxes \cup {q}
             /\ queue' = [p \in Queue |->
                            IF p \in last THEN [Created(q, t)[p] EXCEPT !.next = q]
                            ELSE Created(q, t)[p]]
             /\ UNCHANGED <<message_queues, messages, message, status, refused>>
          \/ Stop("hung") \/ Stop("undefined")
    BY <2>0
  <2>2. t \in TaskId /\ t \in 0 .. MAX_TASKS
    BY <1>1, MessagingAssumption DEF CreateInbox, TypeOK, TaskId
  <2>3. Created(q, t) \in [Queue -> QueueRecord]
    <3>1. EmptyQueue(t) \in QueueRecord
      BY <2>2, MessagingAssumption DEF EmptyQueue, QueueRecord, Pointer
    <3>2. queue \in [Queue -> QueueRecord]
      BY DEF TypeOK, QueueRecord
    <3> QED
      BY <3>1, <3>2 DEF Created
  <2>4. ASSUME queue' = [p \in Queue |->
                         IF p \in last THEN [Created(q, t)[p] EXCEPT !.next = q]
                         ELSE Created(q, t)[p]]
        PROVE  queue' \in [Queue -> QueueRecord]
    <3>1. \A p \in Queue : Created(q, t)[p] \in QueueRecord
      BY <2>3
    <3>2. \A p \in Queue : [Created(q, t)[p] EXCEPT !.next = q] \in QueueRecord
      BY <3>1 DEF QueueRecord
    <3>3. ASSUME NEW p \in Queue
          PROVE  (IF p \in last THEN [Created(q, t)[p] EXCEPT !.next = q]
                  ELSE Created(q, t)[p]) \in QueueRecord
      BY <3>1, <3>2
    <3>4. queue' \in [Queue -> QueueRecord]
      BY <2>4, <3>3
    <3> QED
      BY <3>4
  <2>6. astray' \in BOOLEAN
    BY <1>1 DEF CreateInbox, TypeOK
  <2>5. CASE Stop("hung") \/ Stop("undefined")
    BY <1>0, <2>5, <2>6
  <2> HIDE DEF t
  <2> QED
    BY <2>1, <2>2, <2>4, <2>5, <2>6 DEF TypeOK, QueueRecord
<1>2. ASSUME NEW S \in SUBSET Tasks, FreeInboxes(S)
      PROVE  TypeOK'
  <2>0. astray' \in BOOLEAN
    BY <1>2 DEF FreeInboxes, TypeOK
  <2>1. CASE Stop("undefined")
    BY <1>0, <2>0, <2>1
  <2>2. CASE ~Stop("undefined")
    BY <1>2, <2>0, <2>2 DEF FreeInboxes, TypeOK
  <2> QED
    BY <2>1, <2>2
<1>3. ASSUME NEW d \in TaskId, SendMessage(d)
      PROVE  TypeOK'
  <2>1. PICK m \in Message \ messages, n \in Leftover : DeliverLocal(m, n, d)
    BY <1>3 DEF SendMessage
  <2>2. n \in Pointer
    BY MessagingAssumption DEF Pointer
  <2> QED
    BY <2>1, <2>2, DeliverLocalTypes
<1>4. ASSUME NEW d \in TaskId, ReceiveMessage(d)
      PROVE  TypeOK'
  <2>1. PICK m \in Message \ messages : DeliverLocal(m, NULL, d)
    BY <1>4 DEF ReceiveMessage
  <2>2. NULL \in Pointer
    BY DEF Pointer
  <2> QED
    BY <2>1, <2>2, DeliverLocalTypes
<1>5. ASSUME NEW t \in TaskId, ProcessMessage(t)
      PROVE  TypeOK'
  <2> DEFINE q == inbox[t]
             m == queue[q].head
  <2>0. astray' \in BOOLEAN
    BY <1>5 DEF ProcessMessage, TypeOK
  <2>1. CASE m \in messages
    <3>1. /\ queue' = [queue EXCEPT ![q].head = message[m].next,
                                    ![q].count = queue[q].count - 1]
          /\ messages' = messages \ {m}
          /\ refused' = refused \ {m}
          /\ UNCHANGED <<tasks_number, inbox, message_queues, inboxes, message, status>>
      BY <1>5, <2>1 DEF ProcessMessage
    <3>2. q \in Queue /\ queue[q].count > 0
      BY <1>5 DEF ProcessMessage, Tasks, TypeOK
    <3>3. queue \in [Queue -> QueueRecord] /\ queue[q] \in QueueRecord
      BY <3>2 DEF TypeOK, QueueRecord
    <3>4. queue[q].count - 1 \in 0 .. TASK_MESSAGE_QUEUE_SIZE
      BY <3>2, <3>3, MessagingAssumption DEF QueueRecord
    <3>5. message[m].next \in Pointer
      BY <2>1 DEF TypeOK
    <3> DEFINE h == message[m].next
               c == queue[q].count - 1
    <3>6. queue' = [queue EXCEPT ![q].head = h, ![q].count = c]
      BY <3>1
    <3>7. queue' \in [Queue -> QueueRecord]
      <4> HIDE DEF h, c, q
      <4> QED
        BY <3>2, <3>3, <3>4, <3>5, <3>6 DEF QueueRecord, h, c
    <3> HIDE DEF q, m
    <3> QED
      BY <2>0, <3>1, <3>7 DEF TypeOK, QueueRecord
  <2>2. CASE m \notin messages
    BY <1>0, <1>5, <2>0, <2>2 DEF ProcessMessage
  <2> QED
    BY <2>1, <2>2
<1>6. CASE UNCHANGED vars
  BY <1>6 DEF vars, TypeOK
<1> QED
  BY <1>1, <1>2, <1>3, <1>4, <1>5, <1>6 DEF Next, Stopped

LEMMA TypeInit == Init => TypeOK
<1> SUFFICES ASSUME Init PROVE TypeOK
  OBVIOUS
<1>1. Root \in TaskId /\ EmptyQueue(Root) \in QueueRecord
  BY MessagingAssumption DEF Root, TaskId, EmptyQueue, QueueRecord, Pointer
<1>2. queue \in [Queue -> QueueRecord]
  BY <1>1 DEF Init
<1>3. message \in [Message -> MessageRecord]
  BY <1>1 DEF Init, MessageRecord, Pointer
<1>4. astray \in BOOLEAN
  BY Zenon DEF Init
<1>5. /\ tasks_number \in 0 .. MAX_TASKS /\ message_queues \in Queue
      /\ inbox \in [TaskId -> Queue \cup {NULL}]
      /\ inboxes \subseteq Queue /\ messages \subseteq Message /\ refused \subseteq Message
      /\ status \in {"running", "undefined", "hung"}
  BY MessagingAssumption DEF Init
<1> QED
  BY <1>2, <1>3, <1>4, <1>5, Zenon DEF TypeOK, QueueRecord, MessageRecord

(* The fields of the queues and messages keep to their types, and no inbox   *)
(* counts more than TASK_MESSAGE_QUEUE_SIZE messages, whatever is in the     *)
(* memory malloc returns (messaging.c).                                      *)
THEOREM MessagingTypeCorrect == Spec => []TypeOK
BY TypeInit, TypeStep, PTL DEF Spec

-----------------------------------------------------------------------------
(* The inductive invariant, action by action. *)
WellLinked(t) ==
  LET q == queue[inbox[t]] IN
  /\ q.task_id = t
  /\ q.count = 0 <=> q.head = NULL
  /\ q.count > 0 => q.tail = Mail[t][q.count]
  /\ \A i \in DOMAIN Mail[t] :
       Mail[t][i] \in messages /\ message[Mail[t][i]].task_dst = t

Apart(s, t) ==
  \A i \in DOMAIN Mail[s], j \in DOMAIN Mail[t] :
    Mail[s][i] = Mail[t][j] => s = t /\ i = j

LEMMA ListsLinkedParts ==
  /\ ListsLinked <=> /\ \A t \in Tasks : WellLinked(t)
                     /\ \A s, t \in Tasks : Apart(s, t)
  /\ ListsLinked' <=> /\ \A t \in Tasks' : WellLinked(t)'
                      /\ \A s, t \in Tasks' : Apart(s, t)'
BY Zenon DEF ListsLinked, WellLinked, Apart

(* What is kept apart from the inboxes of Messages may change. *)
LEMMA NothingMoves ==
  ASSUME TypeOK, Inboxes, ListsLinked, UNCHANGED <<inbox, queue, message_queues, inboxes>>,
         tasks_number' = tasks_number,
         messages \subseteq messages', \A k \in messages : message'[k] = message[k]
  PROVE  Mail' = Mail /\ Tasks' = Tasks /\ Inboxes' /\ ListsLinked'
<1>1. Tasks' = Tasks
  BY DEF Tasks
<1>2. Inboxes'
  BY <1>1 DEF Inboxes
<1>3. ASSUME NEW t \in TaskId
      PROVE  Mail'[t] = Mail[t]
  <2>1. CASE inbox[t] = NULL
    BY <2>1, MailIsMailIn DEF MailIn
  <2>2. CASE inbox[t] # NULL
    <3>1. t \in Tasks
      BY <2>2 DEF Tasks
    <3>2. \A k \in 1 .. queue[inbox[t]].count : message'[Mail[t][k]].next = message[Mail[t][k]].next
      BY <3>1, ListOf
    <3> QED
      BY <2>2, <3>1, <3>2, NextSame
  <2> QED
    BY <2>1, <2>2
<1>4. Mail' = Mail
  <2>1. Mail' = [u \in TaskId |-> Mail'[u]] /\ Mail = [u \in TaskId |-> Mail[u]]
    BY MailIsMailIn DEF MailIn
  <2> QED
    BY <1>3, <2>1
<1>5. ASSUME NEW t \in Tasks
      PROVE  WellLinked(t)'
  <2>1. WellLinked(t)
    BY ListsLinkedParts
  <2>2. \A i \in DOMAIN Mail[t] :
          Mail[t][i] \in messages /\ message[Mail[t][i]].task_dst = t
    BY <2>1 DEF WellLinked
  <2> QED
    BY <1>4, <2>1, <2>2 DEF WellLinked
<1>6. \A s, t \in Tasks : Apart(s, t)'
  BY <1>4, ListsLinkedParts DEF Apart
<1> QED
  BY <1>1, <1>2, <1>4, <1>5, <1>6, ListsLinkedParts

LEMMA AcceptedKeepsLinked ==
  ASSUME TypeOK, Inboxes, ListsLinked, NEW t \in Tasks, NEW m \in Message \ messages,
         NEW x \in Pointer, Enqueued(inbox[t], m, x), messages' = messages \cup {m},
         UNCHANGED <<tasks_number, inbox, message_queues, inboxes>>
  PROVE  Tasks' = Tasks /\ Inboxes' /\ ListsLinked'
<1> DEFINE c == queue[inbox[t]].count
           n == c + 1
           s == Mail[t]
<1>1. Tasks' = Tasks /\ Inboxes'
  BY DEF Tasks, Inboxes
<1>2. Mail' = [Mail EXCEPT ![t] = Append(@, m)]
  <2>1. MailBecomes(t, Append(Mail[t], m))
    BY MailAppended
  <2> QED
    BY <2>1, Zenon DEF MailBecomes
<1>3. /\ t \in TaskId /\ inbox[t] \in Queue
      /\ c \in Nat /\ s \in Seq(Message) /\ Len(s) = c /\ DOMAIN s = 1 .. c
      /\ \A i \in 1 .. c : s[i] \in messages
  BY ListOf
<1>4. Mail'[t] = Append(s, m) /\ \A u \in TaskId \ {t} : Mail'[u] = Mail[u]
  <2>1. Mail = [u \in TaskId |-> Mail[u]]
    BY MailIsMailIn DEF MailIn
  <2> HIDE DEF s
  <2> QED
    BY <1>2, <1>3, <2>1 DEF s
<1>5. /\ DOMAIN Append(s, m) = 1 .. n
      /\ \A i \in 1 .. c : Append(s, m)[i] = s[i]
      /\ Append(s, m)[n] = m
  <2>1. m \in Message
    OBVIOUS
  <2>2. Append(s, m) = [i \in 1 .. Len(s) + 1 |-> Append(s, m)[i]]
    BY <1>3, <2>1, AppendElements
  <2>3. /\ \A i \in 1 .. Len(s) : Append(s, m)[i] = s[i]
        /\ Append(s, m)[Len(s) + 1] = m
    BY <1>3, <2>1, AppendElements
  <2> HIDE DEF s, c
  <2>4. DOMAIN Append(s, m) = 1 .. Len(s) + 1
    BY <2>2
  <2> QED
    BY <1>3, <2>3, <2>4
<1>6. /\ queue'[inbox[t]].task_id = t
      /\ queue'[inbox[t]].head = IF c = 0 THEN m ELSE queue[inbox[t]].head
      /\ queue'[inbox[t]].tail = m
      /\ queue'[inbox[t]].count = n
      /\ message'[m].task_dst = t
      /\ \A k \in Message \ {m} : message'[k].task_dst = message[k].task_dst
  BY EnqueuedDetails
<1>7. \A p \in Queue \ {inbox[t]} : queue'[p] = queue[p]
  BY EnqueuedDetails
<1>8. WellLinked(t) /\ NULL \notin Message /\ \A k \in messages : k \in Message \ {m}
  BY ListsLinkedParts, MessagingAssumption DEF TypeOK
<1>9. WellLinked(t)'
  <2>1. queue'[inbox[t]].head # NULL /\ n > 0
    <3>1. c = 0 <=> queue[inbox[t]].head = NULL
      BY <1>8 DEF WellLinked
    <3> HIDE DEF c
    <3> QED
      BY <1>3, <1>6, <1>8, <3>1
  <2>2. ASSUME NEW i \in DOMAIN Mail'[t]
        PROVE  Mail'[t][i] \in messages' /\ message'[Mail'[t][i]].task_dst = t
    <3>1. \A j \in 1 .. c : s[j] \in messages /\ message[s[j]].task_dst = t
      BY <1>3, <1>8 DEF WellLinked
    <3>2. i \in 1 .. n
      BY <1>4, <1>5
    <3>3. CASE i = n
      BY <1>4, <1>5, <1>6, <3>3
    <3>4. CASE i # n
      <4>1. i \in 1 .. c
        BY <1>3, <3>2, <3>4
      <4>2. Mail'[t][i] = s[i]
        BY <1>4, <1>5, <4>1
      <4>3. s[i] \in messages /\ message[s[i]].task_dst = t
        BY <3>1, <4>1
      <4> HIDE DEF s
      <4> QED
        BY <1>6, <1>8, <4>2, <4>3
    <3> QED
      BY <3>3, <3>4
  <2>3. Mail'[t][n] = m
    BY <1>4, <1>5
  <2>4. queue'[inbox'[t]] = queue'[inbox[t]]
    OBVIOUS
  <2> HIDE DEF n
  <2> QED
    BY <1>6, <2>1, <2>2, <2>3, <2>4 DEF WellLinked
<1>10. ASSUME NEW u \in Tasks, u # t
       PROVE  WellLinked(u)'
  <2>1. /\ u \in TaskId /\ inbox[u] \in Queue /\ queue[inbox[u]].count \in Nat
        /\ DOMAIN Mail[u] = 1 .. queue[inbox[u]].count
        /\ \A i \in 1 .. queue[inbox[u]].count : Mail[u][i] \in messages
    BY ListOf
  <2>2. Mail'[u] = Mail[u]
    BY <1>4, <1>10, <2>1
  <2>3. queue'[inbox'[u]] = queue[inbox[u]]
    BY <1>7, <1>10, <2>1, InboxesDiffer
  <2>4. WellLinked(u) /\ Apart(u, t)
    BY ListsLinkedParts
  <2>5. \A i \in DOMAIN Mail[u] :
          Mail[u][i] \in messages' /\ message'[Mail[u][i]].task_dst = u
    <3>1. \A i \in DOMAIN Mail[u] :
            Mail[u][i] \in messages /\ message[Mail[u][i]].task_dst = u
      BY <2>4 DEF WellLinked
    <3> QED
      BY <1>6, <1>8, <3>1
  <2> QED
    BY <2>2, <2>3, <2>4, <2>5 DEF WellLinked
<1>11. ASSUME NEW u \in Tasks, NEW v \in Tasks,
              NEW i \in DOMAIN Mail'[u], NEW j \in DOMAIN Mail'[v],
              Mail'[u][i] = Mail'[v][j]
       PROVE  u = v /\ i = j
  <2>1. /\ u \in TaskId /\ v \in TaskId
        /\ \A k \in DOMAIN Mail[u] : Mail[u][k] # m
        /\ \A k \in DOMAIN Mail[v] : Mail[v][k] # m
    BY ListOf
  <2>2. ASSUME NEW k \in TaskId, NEW h \in DOMAIN Mail'[k]
        PROVE  \/ h \in DOMAIN Mail[k] /\ Mail'[k][h] = Mail[k][h]
               \/ k = t /\ h = n /\ Mail'[k][h] = m
    <3>1. CASE k = t
      <4>1. h \in 1 .. n /\ Mail'[k][h] = Append(s, m)[h] /\ Mail[k] = s
        BY <1>4, <1>5, <3>1
      <4>2. CASE h = n
        BY <1>5, <3>1, <4>1, <4>2
      <4>3. CASE h # n
        <5>3. h \in 1 .. n /\ c \in Nat
          BY <1>3, <4>1, Zenon
        <5>1. h \in 1 .. c
          <6> HIDE DEF c
          <6> QED
            BY <4>3, <5>3
        <5>2. h \in DOMAIN Mail[k] /\ s[h] = Append(s, m)[h]
          BY <1>3, <1>5, <4>1, <5>1, Zenon
        <5> QED
          BY <4>1, <5>2, Zenon
      <4> QED
        BY <4>2, <4>3
    <3>2. CASE k # t
      BY <1>4, <3>2
    <3> QED
      BY <3>1, <3>2
  <2>3. Apart(u, v)
    BY ListsLinkedParts
  <2> HIDE DEF n
  <2> QED
    BY <1>11, <2>1, <2>2, <2>3 DEF Apart
<1>12. \A u, v \in Tasks : Apart(u, v)'
  BY <1>11 DEF Apart
<1> QED
  BY <1>1, <1>9, <1>10, <1>12, ListsLinkedParts

LEMMA TakenKeepsLinked ==
  ASSUME TypeOK, Inboxes, ListsLinked, NEW t \in Tasks, Dequeued(t),
         ~(queue[inbox[t]].count = 1 /\ PointsBeyond(inbox[t])),
         messages' = messages \ {queue[inbox[t]].head},
         UNCHANGED <<tasks_number, message_queues, inboxes>>
  PROVE  Tasks' = Tasks /\ Inboxes' /\ ListsLinked'
<1> DEFINE c == queue[inbox[t]].count
           n == c - 1
           s == Mail[t]
           g == queue[inbox[t]].head
<1>1. Tasks' = Tasks /\ Inboxes' /\ inbox' = inbox /\ message' = message
  BY DEF Tasks, Inboxes, Dequeued
<1>2. Mail' = [Mail EXCEPT ![t] = Tail(@)] /\ g = s[1]
  <2>1. MailBecomes(t, Tail(Mail[t])) /\ g = s[1]
    BY MailTaken
  <2> QED
    BY <2>1, Zenon DEF MailBecomes
<1>3. /\ t \in TaskId /\ inbox[t] \in Queue
      /\ c \in Nat \ {0} /\ s \in Seq(Message) /\ Len(s) = c /\ DOMAIN s = 1 .. c
      /\ \A i \in 1 .. c : s[i] \in messages /\ s[i] \in Message
      /\ \A i, j \in 1 .. c : s[i] = s[j] => i = j
      /\ Linked(s, c, g, message)
  BY ListOf DEF Dequeued
<1>4. Mail'[t] = Tail(s) /\ \A u \in TaskId \ {t} : Mail'[u] = Mail[u]
  <2>1. Mail = [u \in TaskId |-> Mail[u]]
    BY MailIsMailIn DEF MailIn
  <2> HIDE DEF s
  <2> QED
    BY <1>2, <1>3, <2>1 DEF s
<1>5. /\ DOMAIN Tail(s) = 1 .. n
      /\ \A i \in 1 .. n : Tail(s)[i] = s[i + 1]
  <2>1. /\ Tail(s) \in Seq(Message) /\ Len(Tail(s)) = c - 1
        /\ \A i \in 1 .. c - 1 : Tail(s)[i] = s[i + 1] /\ Tail(s)[i] \in Message
    <3> HIDE DEF s, c, g
    <3> QED
      BY <1>3, LinkedTail
  <2> HIDE DEF s, c
  <2> QED
    BY <1>3, <2>1
<1>6. /\ queue'[inbox[t]].task_id = queue[inbox[t]].task_id
      /\ queue'[inbox[t]].head = message[g].next
      /\ queue'[inbox[t]].tail = queue[inbox[t]].tail
      /\ queue'[inbox[t]].count = n
      /\ \A p \in Queue \ {inbox[t]} : queue'[p] = queue[p]
  <2>1. queue \in [Queue -> QueueRecord]
    BY DEF TypeOK, QueueRecord
  <2> QED
    BY <1>3, <2>1 DEF Dequeued, QueueRecord
<1>7. WellLinked(t) /\ NULL \notin Message
  BY ListsLinkedParts, MessagingAssumption
<1>8. /\ c > 0 => queue[inbox[t]].tail = s[c]
      /\ c = 1 => message[queue[inbox[t]].tail].next = NULL
  <2>1. c > 0 => queue[inbox[t]].tail = s[c]
    BY <1>7 DEF WellLinked
  <2>2. c = 1 => message[queue[inbox[t]].tail].next = NULL
    BY DEF PointsBeyond
  <2> QED
    BY <2>1, <2>2
<1>9. \A k \in 1 .. c - 1 : s[k + 1] = message[s[k]].next
  <2>1. \A k \in 1 .. c - 1 : s[k] \in Message => s[k + 1] = message[s[k]].next
    BY <1>3 DEF Linked
  <2> HIDE DEF s, c
  <2> QED
    BY <1>3, <2>1
<1>10. WellLinked(t)'
  <2>1. n = 0 <=> message[g].next = NULL
    <3> HIDE DEF s, c, g
    <3>1. CASE c = 1
      BY <1>2, <1>3, <1>8, <3>1
    <3>2. CASE c # 1
      <4>1. 1 \in 1 .. c - 1 /\ 1 + 1 \in 1 .. c
        BY <1>3, <3>2
      <4>2. message[g].next = s[1 + 1]
        BY <1>2, <1>9, <4>1
      <4> QED
        BY <1>3, <1>7, <3>2, <4>1, <4>2
    <3> QED
      BY <3>1, <3>2
  <2>2. n > 0 => queue[inbox[t]].tail = Tail(s)[n]
    <3> HIDE DEF s, c, g
    <3> HAVE n > 0
    <3>1. n \in 1 .. n /\ n + 1 = c /\ c > 0
      BY <1>3
    <3> QED
      BY <1>5, <1>8, <3>1
  <2>3. ASSUME NEW i \in DOMAIN Mail'[t]
        PROVE  Mail'[t][i] \in messages' /\ message'[Mail'[t][i]].task_dst = t
    <3>1. \A j \in 1 .. c : message[s[j]].task_dst = t
      BY <1>3, <1>7 DEF WellLinked
    <3>2. i \in 1 .. n /\ Mail'[t][i] = s[i + 1]
      BY <1>4, <1>5
    <3> HIDE DEF s, c
    <3>3. i + 1 \in 1 .. c /\ i + 1 # 1 /\ 1 \in 1 .. c
      BY <1>3, <3>2
    <3>4. s[i + 1] \in messages /\ s[i + 1] # s[1]
      BY <1>3, <3>3
    <3> QED
      BY <1>1, <1>2, <3>1, <3>2, <3>3, <3>4 DEF g
  <2>4. queue[inbox[t]].task_id = t
    BY <1>7 DEF WellLinked
  <2>5. queue'[inbox'[t]] = queue'[inbox[t]] /\ message' = message
    BY <1>1
  <2> HIDE DEF n, s, g
  <2> QED
    BY <1>4, <1>6, <2>1, <2>2, <2>3, <2>4, <2>5 DEF WellLinked
<1>11. ASSUME NEW u \in Tasks, u # t
       PROVE  WellLinked(u)'
  <2>1. u \in TaskId /\ inbox[u] \in Queue
    BY ListOf
  <2>2. Mail'[u] = Mail[u]
    BY <1>4, <1>11, <2>1
  <2>3. queue'[inbox'[u]] = queue[inbox[u]]
    BY <1>1, <1>6, <1>11, <2>1, InboxesDiffer
  <2>4. WellLinked(u) /\ Apart(u, t)
    BY ListsLinkedParts
  <2>5. \A i \in DOMAIN Mail[u] :
          Mail[u][i] \in messages' /\ message'[Mail[u][i]].task_dst = u
    <3>1. \A i \in DOMAIN Mail[u] :
            Mail[u][i] \in messages /\ message[Mail[u][i]].task_dst = u
      BY <2>4 DEF WellLinked
    <3>2. 1 \in DOMAIN s
      BY <1>3
    <3>3. \A i \in DOMAIN Mail[u] : Mail[u][i] # s[1]
      BY <1>11, <2>4, <3>2 DEF Apart
    <3> QED
      BY <1>1, <1>2, <3>1, <3>3
  <2> QED
    BY <1>1, <2>2, <2>3, <2>4, <2>5 DEF WellLinked
<1>12. ASSUME NEW u \in Tasks, NEW v \in Tasks,
              NEW i \in DOMAIN Mail'[u], NEW j \in DOMAIN Mail'[v],
              Mail'[u][i] = Mail'[v][j]
       PROVE  u = v /\ i = j
  <2>1. u \in TaskId /\ v \in TaskId
    BY DEF Tasks
  <2>2. ASSUME NEW k \in TaskId, NEW h \in DOMAIN Mail'[k]
        PROVE  /\ h \in Int
               /\ k = t => h + 1 \in DOMAIN Mail[k] /\ Mail'[k][h] = Mail[k][h + 1]
               /\ k # t => h \in DOMAIN Mail[k] /\ Mail'[k][h] = Mail[k][h]
    <3>1. CASE k = t
      <4>1. h \in 1 .. n /\ Mail'[k][h] = s[h + 1]
        BY <1>4, <1>5, <3>1
      <4> HIDE DEF s, c
      <4>2. h + 1 \in 1 .. c /\ h \in Int
        BY <1>3, <4>1
      <4> QED
        BY <1>3, <3>1, <4>1, <4>2 DEF s
    <3>2. CASE k # t
      <4>1. Mail'[k] = Mail[k]
        BY <1>4, <3>2
      <4>2. h \in Int
        <5>1. CASE k \in Tasks
          BY <4>1, <5>1, ListOf
        <5>2. CASE k \notin Tasks
          BY <4>1, <5>2 DEF Mail, Tasks
        <5> QED
          BY <5>1, <5>2
      <4> QED
        BY <3>2, <4>1, <4>2
    <3> QED
      BY <3>1, <3>2
  <2>3. Apart(u, v)
    BY ListsLinkedParts
  <2>4. CASE u = t /\ v = t
    <3>1. i \in Int /\ j \in Int /\ i + 1 = j + 1
      BY <1>12, <2>1, <2>2, <2>3, <2>4 DEF Apart
    <3> QED
      BY <2>4, <3>1
  <2>5. CASE u # t /\ v # t
    BY <1>12, <2>1, <2>2, <2>3, <2>5 DEF Apart
  <2>6. CASE u = t /\ v # t
    BY <1>12, <2>1, <2>2, <2>3, <2>6 DEF Apart
  <2>7. CASE u # t /\ v = t
    BY <1>12, <2>1, <2>2, <2>3, <2>7 DEF Apart
  <2> QED
    BY <2>4, <2>5, <2>6, <2>7
<1>13. \A u, v \in Tasks : Apart(u, v)'
  BY <1>12 DEF Apart
<1> QED
  BY <1>1, <1>10, <1>11, <1>13, ListsLinkedParts

(* The tasks of S end: what is left of messages and inboxes is that of the   *)
(* other tasks.                                                              *)
LEMMA FreedKeepsLinked ==
  ASSUME TypeOK, Inboxes, ListsLinked, NEW S, S \subseteq Tasks \ {Root},
         inbox' = [t \in TaskId |-> IF t \in S THEN NULL ELSE inbox[t]],
         inboxes' = inboxes \ {inbox[t] : t \in S},
         messages' = messages \ {m \in Message :
                       \E t \in S : \E i \in DOMAIN Mail[t] : Mail[t][i] = m},
         UNCHANGED <<tasks_number, message_queues, queue, message>>
  PROVE  /\ Tasks' = Tasks \ S
         /\ Mail' = [t \in TaskId |-> IF t \in S THEN <<>> ELSE Mail[t]]
         /\ Inboxes' /\ ListsLinked'
<1>1. Tasks' = Tasks \ S
  BY DEF Tasks
<1>2. Mail' = [t \in TaskId |-> IF t \in S THEN <<>> ELSE Mail[t]]
  <2>1. ASSUME NEW t \in TaskId
        PROVE  Mail'[t] = IF t \in S THEN <<>> ELSE Mail[t]
    BY MailIsMailIn DEF MailIn
  <2>2. Mail' = [t \in TaskId |-> Mail'[t]]
    BY MailIsMailIn DEF MailIn
  <2> QED
    BY <2>1, <2>2
<1>3. /\ \A t \in Tasks \ S : t \in TaskId /\ Mail'[t] = Mail[t] /\ inbox'[t] = inbox[t]
  BY <1>2 DEF Tasks
<1>4. Inboxes'
  <2>1. Root \in Tasks'
    BY <1>1 DEF Inboxes
  <2>2. inbox'[Root] = message_queues'
    BY <1>1, <1>3, <2>1 DEF Inboxes
  <2>3. inboxes' = {inbox'[t] : t \in Tasks'}
    <3>1. \A s, t \in Tasks : inbox[s] = inbox[t] => s = t
      BY InboxesDiffer
    <3>2. inboxes = {inbox[t] : t \in Tasks}
      BY DEF Inboxes
    <3> QED
      BY <1>1, <1>3, <3>1, <3>2
  <2> QED
    BY <1>1, <2>1, <2>2, <2>3 DEF Inboxes
<1>5. ASSUME NEW t \in Tasks \ S
      PROVE  WellLinked(t)'
  <2>1. WellLinked(t)
    BY ListsLinkedParts
  <2>2. \A i \in DOMAIN Mail[t] : Mail[t][i] \in messages'
    <3>1. \A i \in DOMAIN Mail[t] : Mail[t][i] \in messages
      BY <2>1 DEF WellLinked
    <3>2. \A u \in S : Apart(t, u)
      BY ListsLinkedParts
    <3> QED
      BY <3>1, <3>2 DEF Apart
  <2> QED
    BY <1>3, <2>1, <2>2 DEF WellLinked
<1>6. \A s, t \in Tasks \ S : Apart(s, t)'
  BY <1>3, ListsLinkedParts DEF Apart
<1> QED
  BY <1>1, <1>2, <1>4, <1>5, <1>6, ListsLinkedParts

(* A task is created, with an empty inbox.                                   *)
LEMMA CreatedKeepsLinked ==
  ASSUME TypeOK, Inboxes, ListsLinked, NEW q \in Queue \ inboxes, NEW last,
         NEW t \in TaskId, t = tasks_number + 1,
         tasks_number' = t,
         inbox' = [inbox EXCEPT ![t] = q],
         inboxes' = inboxes \cup {q},
         queue' = [p \in Queue |->
                     IF p \in last THEN [Created(q, t)[p] EXCEPT !.next = q]
                     ELSE Created(q, t)[p]],
         UNCHANGED <<message_queues, messages, message>>
  PROVE  /\ t \notin Tasks /\ Tasks' = Tasks \cup {t}
         /\ Mail' = Mail
         /\ Inboxes' /\ ListsLinked'
<1>1. t \notin Tasks /\ q # NULL /\ tasks_number \in Nat
  BY MessagingAssumption DEF Inboxes, TypeOK
<1>2. \A u \in TaskId : inbox'[u] = IF u = t THEN q ELSE inbox[u]
  BY DEF TypeOK
<1>3. Tasks' = Tasks \cup {t}
  BY <1>1, <1>2 DEF Tasks
<1>4. /\ queue'[q].count = 0 /\ queue'[q].head = NULL /\ queue'[q].task_id = t
      /\ \A p \in Queue \ {q} : /\ queue'[p].count = queue[p].count
                                /\ queue'[p].head = queue[p].head
                                /\ queue'[p].tail = queue[p].tail
                                /\ queue'[p].task_id = queue[p].task_id
  <2>1. queue \in [Queue -> QueueRecord]
    BY DEF TypeOK, QueueRecord
  <2>2. /\ Created(q, t)[q] = EmptyQueue(t)
        /\ \A p \in Queue \ {q} : Created(q, t)[p] = queue[p]
    BY <2>1 DEF Created
  <2>3. \A p \in Queue : queue'[p] = IF p \in last THEN [Created(q, t)[p] EXCEPT !.next = q]
                                     ELSE Created(q, t)[p]
    OBVIOUS
  <2>4. /\ queue'[q].count = 0 /\ queue'[q].head = NULL /\ queue'[q].task_id = t
    <3>1. queue'[q] = IF q \in last THEN [EmptyQueue(t) EXCEPT !.next = q] ELSE EmptyQueue(t)
      BY <2>2, <2>3
    <3> QED
      BY <3>1 DEF EmptyQueue
  <2>5. ASSUME NEW p \in Queue \ {q}
        PROVE  /\ queue'[p].count = queue[p].count
               /\ queue'[p].head = queue[p].head
               /\ queue'[p].tail = queue[p].tail
               /\ queue'[p].task_id = queue[p].task_id
    <3>1. queue'[p] = IF p \in last THEN [queue[p] EXCEPT !.next = q] ELSE queue[p]
      BY <2>2, <2>3
    <3>2. queue[p] \in QueueRecord
      BY <2>1
    <3> QED
      BY <3>1, <3>2 DEF QueueRecord
  <2> QED
    BY <2>4, <2>5
<1>5. \A u \in Tasks : /\ u \in TaskId /\ u # t /\ inbox[u] \in Queue \ {q}
                       /\ inbox'[u] = inbox[u] /\ inbox[u] # NULL
  BY <1>1, <1>2, ListOf DEF Inboxes
<1>6. ASSUME NEW u \in TaskId
      PROVE  Mail'[u] = Mail[u]
  <2>1. CASE u \in Tasks
    <3>1. /\ inbox'[u] = inbox[u] /\ inbox'[u] # NULL
          /\ queue'[inbox'[u]].count = queue[inbox[u]].count
          /\ queue'[inbox'[u]].head = queue[inbox[u]].head
      BY <1>4, <1>5, <2>1
    <3> HIDE DEF Mail
    <3> QED
      BY <2>1, <3>1, NextSame
  <2>2. CASE u = t
    <3>1. Mail[u] = <<>>
      BY <1>1, <2>2 DEF Mail, Tasks
    <3>2. inbox'[u] = q /\ queue'[inbox'[u]].count = 0
      BY <1>2, <1>4, <2>2
    <3>3. Mail'[u] = [k \in 1 .. 0 |-> PointersFrom(queue'[q].head, NextIn(message'), Pointers)[k - 1]]
      <4>1. Mail' = MailIn(inbox', queue', message')
        BY MailIsMailIn
      <4>2. u \in TaskId /\ q # NULL
        BY <1>1
      <4> QED
        BY <3>2, <4>1, <4>2 DEF MailIn
    <3> QED
      BY <3>1, <3>3
  <2>3. CASE u \notin Tasks /\ u # t
    BY <1>2, <2>3, MailIsMailIn DEF MailIn, Tasks
  <2> QED
    BY <2>1, <2>2, <2>3
<1>7. Mail' = Mail
  <2> DEFINE M1 == Mail
             M2 == Mail'
  <2>1. M2 = [u \in TaskId |-> M2[u]] /\ M1 = [u \in TaskId |-> M1[u]]
    BY MailIsMailIn DEF MailIn
  <2>2. \A u \in TaskId : M2[u] = M1[u]
    BY <1>6
  <2> HIDE DEF M1, M2
  <2>3. M2 = M1
    BY <2>1, <2>2
  <2> QED
    BY <2>3 DEF M1, M2
<1>8. Inboxes'
  <2>1. Root \in Tasks' /\ inbox'[Root] = message_queues'
    BY <1>3, <1>5 DEF Inboxes
  <2>2. Tasks' \subseteq 0 .. tasks_number'
    BY <1>1, <1>3 DEF Inboxes, TaskId
  <2>3. inboxes' = {inbox'[u] : u \in Tasks'}
    BY <1>2, <1>3, <1>5 DEF Inboxes
  <2> QED
    BY <2>1, <2>2, <2>3 DEF Inboxes
<1>9. ASSUME NEW u \in Tasks
      PROVE  WellLinked(u)'
  <2>1. WellLinked(u)
    BY ListsLinkedParts
  <2>2. /\ queue'[inbox'[u]].count = queue[inbox[u]].count
        /\ queue'[inbox'[u]].head = queue[inbox[u]].head
        /\ queue'[inbox'[u]].tail = queue[inbox[u]].tail
        /\ queue'[inbox'[u]].task_id = queue[inbox[u]].task_id
    BY <1>4, <1>5
  <2> QED
    BY <1>7, <2>1, <2>2 DEF WellLinked
<1>10. WellLinked(t)'
  <2>1. DOMAIN Mail'[t] = {}
    <3>1. Mail[t] = <<>>
      BY <1>1 DEF Mail, Tasks
    <3> QED
      BY <1>7, <3>1
  <2>2. inbox'[t] = q
    BY <1>2
  <2> QED
    BY <1>4, <2>1, <2>2 DEF WellLinked
<1>11. \A u, v \in Tasks \cup {t} : Apart(u, v)'
  <2>1. DOMAIN Mail[t] = {}
    <3>1. Mail[t] = <<>>
      BY <1>1 DEF Mail, Tasks
    <3> QED
      BY <3>1
  <2>2. \A u, v \in Tasks : Apart(u, v)
    BY ListsLinkedParts
  <2> QED
    BY <1>7, <2>1, <2>2 DEF Apart
<1> QED
  BY <1>1, <1>3, <1>7, <1>8, <1>9, <1>10, <1>11, ListsLinkedParts

-----------------------------------------------------------------------------
(* Every step that does not go astray keeps the lists sound, and is a step   *)
(* of Mailbox or leaves its variables alone.                                 *)
Promised == Promise!Next \/ UNCHANGED <<Tasks, Mail>>

LEMMA StopKeeps ==
  ASSUME Sound, UNCHANGED <<tasks_number, inbox, message_queues, heap, refused>>
  PROVE  Inboxes' /\ ListsLinked' /\ Kept' /\ Promised
<1>1. Mail' = Mail /\ Tasks' = Tasks
  BY MailIsMailIn DEF heap, Tasks
<1>2. Inboxes' /\ ListsLinked'
  BY NothingMoves DEF heap, Sound
<1> QED
  BY <1>1, <1>2 DEF Kept, Waiting, Sound, heap, Promised

LEMMA DeliverLocalKeeps ==
  ASSUME Sound, NEW m \in Message \ messages, NEW n \in Pointer, NEW d \in TaskId,
         DeliverLocal(m, n, d)
  PROVE  Inboxes' /\ ListsLinked' /\ Kept' /\ Promised
<1>1. CASE \E how \in {"hung", "undefined"} : Stop(how)
  BY <1>1, StopKeeps DEF Stop
<1>2. CASE UNCHANGED vars
  BY <1>2, StopKeeps DEF vars, heap
<1>3. CASE /\ messages' = messages \cup {m}
           /\ message' = [message EXCEPT ![m] = [next |-> n, task_dst |-> d]]
           /\ refused' = refused \cup {m}
           /\ UNCHANGED <<tasks_number, inbox, message_queues, inboxes, queue, status>>
  <2>1. \A k \in messages : message'[k] = message[k]
    BY <1>3 DEF Sound, TypeOK
  <2>2. Mail' = Mail /\ Tasks' = Tasks /\ Inboxes' /\ ListsLinked'
    BY <1>3, <2>1, NothingMoves DEF Sound
  <2>3. Kept'
    BY <1>3, <2>2 DEF Sound, Kept, Waiting
  <2> QED
    BY <2>2, <2>3 DEF Promised
<1>4. ASSUME NEW q \in inboxes, HasRoom(q), Enqueued(q, m, n),
             messages' = messages \cup {m},
             UNCHANGED <<tasks_number, inbox, message_queues, inboxes, status, refused>>
      PROVE  Inboxes' /\ ListsLinked' /\ Kept' /\ Promised
  <2>1. PICK t \in Tasks : q = inbox[t]
    BY DEF Sound, Inboxes
  <2>2. TypeOK /\ Inboxes /\ ListsLinked /\ Kept /\ Enqueued(inbox[t], m, n)
    BY <1>4, <2>1 DEF Sound
  <2>3. Tasks' = Tasks /\ Inboxes' /\ ListsLinked'
    BY <1>4, <2>2, AcceptedKeepsLinked
  <2>4. Mail' = [Mail EXCEPT ![t] = Append(@, m)]
    <3>2. TypeOK /\ ListsLinked /\ Enqueued(inbox[t], m, n)
      BY <2>2, Zenon
    <3>3. inbox' = inbox
      BY <1>4, Zenon
    <3>1. MailBecomes(t, Append(Mail[t], m))
      BY <3>2, <3>3, MailAppended
    <3> QED
      BY <3>1, Zenon DEF MailBecomes
  <2>5. /\ t \in TaskId /\ Mail[t] \in Seq(Message)
        /\ Len(Mail[t]) = queue[inbox[t]].count /\ DOMAIN Mail = TaskId
    BY <2>2, ListOf, MailIsMailIn DEF MailIn
  <2>6. m \in Message
    OBVIOUS
  <2>7. Waiting' = Waiting \cup {m}
    <3> DEFINE a == Append(Mail[t], m)
    <3>1. \A k : (\E i \in DOMAIN a : a[i] = k)
                   <=> (k = m \/ \E i \in DOMAIN Mail[t] : Mail[t][i] = k)
      <4> DEFINE s == Mail[t]
                 c == Len(s)
      <4>1. /\ DOMAIN s = 1 .. c /\ c \in Nat
            /\ a = [i \in 1 .. c + 1 |-> a[i]]
        <5>1. s \in Seq(Message)
          BY <2>5
        <5> HIDE DEF s, a
        <5>2. DOMAIN s = 1 .. c /\ c \in Nat
          BY <5>1, LenProperties
        <5>3. a = [i \in 1 .. c + 1 |-> a[i]]
          BY <5>1, <2>6, AppendElements DEF a, s
        <5> QED
          BY <5>2, <5>3
      <4>2. (\A i \in 1 .. c : a[i] = s[i]) /\ a[c + 1] = m
        <5>1. s \in Seq(Message)
          BY <2>5
        <5> QED
          BY <5>1, <2>6, AppendElements
      <4> HIDE DEF a, s, c
      <4>3. DOMAIN a = 1 .. c + 1
        BY <4>1
      <4>4. ASSUME NEW k, NEW i \in DOMAIN a, a[i] = k
            PROVE  k = m \/ \E j \in DOMAIN s : s[j] = k
        <5>1. i = c + 1 \/ i \in 1 .. c
          BY <4>1, <4>3
        <5> QED
          BY <4>1, <4>2, <4>4, <5>1
      <4>5. ASSUME NEW i \in DOMAIN s
            PROVE  i \in DOMAIN a /\ a[i] = s[i]
        <5>1. i \in 1 .. c
          BY <4>1
        <5>2. i \in 1 .. c + 1
          BY <4>1, <5>1
        <5> QED
          BY <4>2, <4>3, <5>1, <5>2
      <4>6. c + 1 \in DOMAIN a
        BY <4>1, <4>3
      <4> QED
        BY <4>2, <4>4, <4>5, <4>6 DEF s
    <3>2. Mail'[t] = a /\ \A u \in TaskId \ {t} : Mail'[u] = Mail[u]
      BY <2>4, <2>5
    <3>3. \A u \in Tasks : u \in TaskId
      BY DEF Tasks
    <3> HIDE DEF a
    <3> QED
      BY <2>3, <3>1, <3>2, <3>3 DEF Waiting
  <2>8. Kept'
    BY <1>4, <2>2, <2>7 DEF Kept
  <2>9. Promise!Post(t, m)
    <3>1. Len(Mail[t]) < TASK_MESSAGE_QUEUE_SIZE
      BY <1>4, <2>1, <2>5 DEF HasRoom
    <3>2. ASSUME NEW s \in TaskId, NEW i \in DOMAIN Mail[s]
          PROVE  Mail[s][i] # m
      <4>1. CASE s \in Tasks
        BY <2>2, <4>1, ListOf
      <4>2. CASE s \notin Tasks
        BY <4>2 DEF Mail, Tasks
      <4> QED
        BY <4>1, <4>2
    <3> QED
      BY <2>3, <2>4, <3>1, <3>2 DEF Promise!Post
  <2> QED
    BY <2>3, <2>5, <2>6, <2>8, <2>9 DEF Promised, Promise!Next
<1> QED
  BY <1>1, <1>2, <1>3, <1>4, Zenon DEF DeliverLocal

LEMMA ProcessMessageKeeps ==
  ASSUME Sound, NEW t \in TaskId, ProcessMessage(t), ~astray'
  PROVE  Inboxes' /\ ListsLinked' /\ Kept' /\ Promised
<1> DEFINE q == inbox[t]
           m == queue[q].head
<1>1. CASE m \notin messages
  BY <1>1, StopKeeps DEF ProcessMessage, Stop
<1>2. CASE m \in messages
  <2>1. /\ Dequeued(t)
        /\ messages' = messages \ {queue[inbox[t]].head}
        /\ refused' = refused \ {queue[inbox[t]].head}
        /\ UNCHANGED <<tasks_number, message_queues, inboxes>>
    BY <1>2 DEF ProcessMessage, Dequeued
  <2>2. t \in Tasks /\ TypeOK /\ Inboxes /\ ListsLinked /\ Kept
    BY DEF ProcessMessage, Sound
  <2>0. ~(queue[inbox[t]].count = 1 /\ PointsBeyond(inbox[t]))
    BY DEF ProcessMessage
  <2>3. Tasks' = Tasks /\ Inboxes' /\ ListsLinked'
    BY <2>0, <2>1, <2>2, TakenKeepsLinked
  <2>4. /\ Mail' = [Mail EXCEPT ![t] = Tail(@)]
        /\ queue[inbox[t]].head = Mail[t][1]
    <3>1. Dequeued(t)
      BY <2>1, Zenon
    <3>2. t \in Tasks /\ TypeOK /\ ListsLinked
      BY <2>2, Zenon
    <3>3. MailBecomes(t, Tail(Mail[t])) /\ queue[inbox[t]].head = Mail[t][1]
      BY <3>1, <3>2, MailTaken
    <3> QED
      BY <3>3, Zenon DEF MailBecomes
  <2>5. /\ Mail[t] \in Seq(Message) /\ Len(Mail[t]) = queue[inbox[t]].count
        /\ queue[inbox[t]].count > 0 /\ DOMAIN Mail = TaskId
        /\ DOMAIN Mail[t] = 1 .. queue[inbox[t]].count
        /\ queue[inbox[t]].count \in Nat
        /\ \A i, j \in 1 .. queue[inbox[t]].count : Mail[t][i] = Mail[t][j] => i = j
    BY <2>1, <2>2, ListOf, MailIsMailIn DEF MailIn, Dequeued
  <2>6. Waiting' = Waiting \ {Mail[t][1]}
    <3> DEFINE r == Tail(Mail[t])
               s == Mail[t]
               n == queue[inbox[t]].count
               x == s[1]
    <3>1. \A k : (\E i \in DOMAIN r : r[i] = k)
                   <=> (k # x /\ \E i \in DOMAIN s : s[i] = k)
      <4>1. /\ DOMAIN s = 1 .. n /\ n \in Nat \ {0}
            /\ r = [i \in 1 .. n - 1 |-> r[i]]
        BY <2>5, TailElements
      <4>2. \A i \in 1 .. n - 1 : r[i] = s[i + 1]
        BY <2>5, TailElements
      <4>3. \A i, j \in 1 .. n : s[i] = s[j] => i = j
        BY <2>5
      <4> HIDE DEF r, s, n
      <4>4. DOMAIN r = 1 .. n - 1
        BY <4>1
      <4>5. ASSUME NEW i \in DOMAIN r
            PROVE  r[i] # x /\ \E j \in DOMAIN s : s[j] = r[i]
        <5>1. i + 1 \in 1 .. n /\ i + 1 # 1 /\ 1 \in 1 .. n
          BY <4>1, <4>4
        <5> QED
          BY <4>1, <4>2, <4>3, <4>4, <5>1
      <4>6. ASSUME NEW i \in DOMAIN s, s[i] # x
            PROVE  \E j \in DOMAIN r : r[j] = s[i]
        <5>1. i # 1 /\ i - 1 \in 1 .. n - 1 /\ (i - 1) + 1 = i
          BY <4>1, <4>6
        <5>2. r[i - 1] = s[i]
          BY <4>2, <5>1
        <5> QED
          BY <4>4, <5>1, <5>2
      <4> QED
        BY <4>5, <4>6
    <3>2. Mail'[t] = r /\ \A u \in TaskId \ {t} : Mail'[u] = Mail[u]
      BY <2>4, <2>5
    <3>3. \A u \in Tasks : u \in TaskId
      BY DEF Tasks
    <3>4. \A u \in Tasks \ {t} : \A i \in DOMAIN Mail[u] : Mail[u][i] # x
      <4>1. 1 \in DOMAIN Mail[t]
        BY <2>5
      <4>2. \A u \in Tasks : Apart(u, t)
        BY <2>2, ListsLinkedParts
      <4> QED
        BY <4>1, <4>2 DEF Apart
    <3> HIDE DEF r, x
    <3> QED
      BY <2>2, <2>3, <3>1, <3>2, <3>3, <3>4 DEF Waiting, x
  <2>7. Kept'
    <3>1. messages' = messages \ {Mail[t][1]} /\ refused' = refused \ {Mail[t][1]}
      BY <2>1, <2>4
    <3> QED
      BY <2>2, <2>6, <3>1 DEF Kept
  <2>8. Promise!Take(t)
    <3>1. Mail[t] # <<>>
      BY <2>5
    <3> QED
      BY <2>2, <2>3, <2>4, <3>1 DEF Promise!Take
  <2> QED
    BY <2>3, <2>7, <2>8 DEF Promised, Promise!Next
<1> QED
  BY <1>1, <1>2

LEMMA FreeInboxesKeeps ==
  ASSUME Sound, NEW S \in SUBSET Tasks, FreeInboxes(S), ~astray'
  PROVE  Inboxes' /\ ListsLinked' /\ Kept' /\ Promised
<1> DEFINE heads == [t \in S |-> queue[inbox[t]].head]
           gone == UNION {MessagesFrom(heads[t]) : t \in S}
           dropped == {m \in Message : \E t \in S : \E i \in DOMAIN Mail[t] : Mail[t][i] = m}
<1>0. S \subseteq Tasks \ {Root}
  BY DEF FreeInboxes
<1>1. CASE Stop("undefined")
  BY <1>1, StopKeeps DEF Stop
<1>2. CASE /\ inbox' = [t \in TaskId |-> IF t \in S THEN NULL ELSE inbox[t]]
           /\ inboxes' = inboxes \ {inbox[t] : t \in S}
           /\ messages' = messages \ gone
           /\ refused' = refused \ gone
           /\ UNCHANGED <<tasks_number, message_queues, queue, message, status>>
  <2>1. TypeOK /\ Inboxes /\ ListsLinked /\ Kept
    BY DEF Sound
  <2>2. gone = dropped
    <3>1. \A t \in S : MessagesFrom(heads[t]) = {Mail[t][i] : i \in DOMAIN Mail[t]}
      <4> TAKE t \in S
      <4>1. heads[t] = queue[inbox[t]].head /\ t \in Tasks
        OBVIOUS
      <4>3. ~PointsBeyond(inbox[t])
        BY DEF FreeInboxes
      <4>2. MessagesFrom(queue[inbox[t]].head) = {Mail[t][i] : i \in DOMAIN Mail[t]}
        BY <2>1, <4>1, <4>3, FreedIsMail
      <4> QED
        BY <4>1, <4>2
    <3>2. \A t \in S : \A i \in DOMAIN Mail[t] : Mail[t][i] \in Message
      BY <2>1, ListOf
    <3> HIDE DEF heads
    <3> QED
      BY <3>1, <3>2
  <2> HIDE DEF gone
  <2>3. /\ Tasks' = Tasks \ S
        /\ Mail' = [t \in TaskId |-> IF t \in S THEN <<>> ELSE Mail[t]]
        /\ Inboxes' /\ ListsLinked'
    BY <1>0, <1>2, <2>1, <2>2, FreedKeepsLinked
  <2>4. \A t \in Tasks : t \in TaskId
    BY DEF Tasks
  <2>5. Waiting' = Waiting \ dropped
    <3>1. ASSUME NEW s \in Tasks \ S, NEW t \in S,
                 NEW i \in DOMAIN Mail[s], NEW j \in DOMAIN Mail[t]
          PROVE  Mail[s][i] # Mail[t][j]
      BY <2>1, <3>1, ListsLinkedParts DEF Apart
    <3>2. \A t \in Tasks \ S : Mail'[t] = Mail[t]
      BY <2>3, <2>4
    <3>3. Waiting' = {m \in Message : \E t \in Tasks \ S : \E i \in DOMAIN Mail[t] : Mail[t][i] = m}
      BY <2>3, <3>2 DEF Waiting
    <3> QED
      BY <3>1, <3>3 DEF Waiting
  <2>6. Kept'
    BY <1>2, <2>1, <2>2, <2>5 DEF Kept
  <2>7. Promise!Close(S)
    BY <1>0, <2>3 DEF Promise!Close
  <2>8. S \in SUBSET TaskId
    BY <2>4
  <2> QED
    BY <2>3, <2>6, <2>7, <2>8 DEF Promised, Promise!Next
<1> QED
  BY <1>1, <1>2 DEF FreeInboxes

LEMMA CreateInboxKeeps ==
  ASSUME Sound, CreateInbox
  PROVE  Inboxes' /\ ListsLinked' /\ Kept' /\ Promised
<1> DEFINE t == tasks_number + 1
<1>0. PICK q \in Queue \ inboxes : \E last :
        \/ /\ tasks_number' = t
           /\ inbox' = [inbox EXCEPT ![t] = q]
           /\ inboxes' = inboxes \cup {q}
           /\ queue' = [p \in Queue |->
                          IF p \in last THEN [Created(q, t)[p] EXCEPT !.next = q]
                          ELSE Created(q, t)[p]]
           /\ UNCHANGED <<message_queues, messages, message, status, refused>>
        \/ Stop("hung") \/ Stop("undefined")
  BY DEF CreateInbox
<1>1. PICK last :
        \/ /\ tasks_number' = t
           /\ inbox' = [inbox EXCEPT ![t] = q]
           /\ inboxes' = inboxes \cup {q}
           /\ queue' = [p \in Queue |->
                          IF p \in last THEN [Created(q, t)[p] EXCEPT !.next = q]
                          ELSE Created(q, t)[p]]
           /\ UNCHANGED <<message_queues, messages, message, status, refused>>
        \/ Stop("hung") \/ Stop("undefined")
  BY <1>0
<1>2. CASE Stop("hung") \/ Stop("undefined")
  BY <1>2, StopKeeps DEF Stop
<1>3. CASE ~(Stop("hung") \/ Stop("undefined"))
  <2>1. TypeOK /\ Inboxes /\ ListsLinked /\ Kept
    BY DEF Sound
  <2>2. t \in TaskId
    BY <2>1, MessagingAssumption DEF CreateInbox, TypeOK, TaskId
  <2>3. /\ tasks_number' = t
        /\ inbox' = [inbox EXCEPT ![t] = q]
        /\ inboxes' = inboxes \cup {q}
        /\ queue' = [p \in Queue |->
                       IF p \in last THEN [Created(q, t)[p] EXCEPT !.next = q]
                       ELSE Created(q, t)[p]]
        /\ UNCHANGED <<message_queues, messages, message, status, refused>>
    BY <1>1, <1>3
  <2>4. t = tasks_number + 1
    OBVIOUS
  <2> HIDE DEF t
  <2>5. /\ t \notin Tasks /\ Tasks' = Tasks \cup {t}
        /\ Mail' = Mail
        /\ Inboxes' /\ ListsLinked'
    BY <2>1, <2>2, <2>3, <2>4, CreatedKeepsLinked
  <2>6. DOMAIN Mail[t] = {}
    BY <2>5 DEF Mail, Tasks
  <2>7. Kept'
    BY <2>1, <2>3, <2>5, <2>6 DEF Kept, Waiting
  <2>8. Promise!Open(t)
    BY <2>5 DEF Promise!Open
  <2> QED
    BY <2>2, <2>5, <2>7, <2>8 DEF Promised, Promise!Next
<1> QED
  BY <1>2, <1>3

(* Once astray, always astray. *)
LEMMA AstrayStays ==
  ASSUME [Next]_vars, ~astray'
  PROVE  ~astray
<1>1. ASSUME NEW m, NEW n, NEW d, DeliverLocal(m, n, d)
      PROVE  ~astray
  BY <1>1 DEF DeliverLocal
<1>2. ASSUME NEW d, SendMessage(d) \/ ReceiveMessage(d)
      PROVE  ~astray
  BY <1>1, <1>2 DEF SendMessage, ReceiveMessage
<1>3. ASSUME NEW S, FreeInboxes(S)
      PROVE  ~astray
  BY <1>3 DEF FreeInboxes
<1>4. ASSUME NEW t, ProcessMessage(t)
      PROVE  ~astray
  BY <1>4 DEF ProcessMessage
<1>5. CASE CreateInbox \/ UNCHANGED vars
  BY <1>5 DEF CreateInbox, vars
<1> QED
  BY <1>2, <1>3, <1>4, <1>5 DEF Next, Stopped

LEMMA SoundStep ==
  ASSUME Sound, [Next]_vars, ~astray'
  PROVE  Sound' /\ Promised
<1>1. TypeOK'
  BY TypeStep DEF Sound
<1>2. CASE CreateInbox
  BY <1>1, <1>2, CreateInboxKeeps DEF Sound
<1>3. ASSUME NEW S \in SUBSET Tasks, FreeInboxes(S)
      PROVE  Sound' /\ Promised
  BY <1>1, <1>3, FreeInboxesKeeps DEF Sound
<1>4. ASSUME NEW d \in TaskId, SendMessage(d) \/ ReceiveMessage(d)
      PROVE  Sound' /\ Promised
  <2>1. PICK m \in Message \ messages, n \in Leftover \cup {NULL} : DeliverLocal(m, n, d)
    BY <1>4 DEF SendMessage, ReceiveMessage
  <2>2. n \in Pointer
    BY MessagingAssumption DEF Pointer
  <2> QED
    BY <1>1, <2>1, <2>2, DeliverLocalKeeps DEF Sound
<1>5. ASSUME NEW t \in TaskId, ProcessMessage(t)
      PROVE  Sound' /\ Promised
  BY <1>1, <1>5, ProcessMessageKeeps DEF Sound
<1>6. CASE UNCHANGED vars
  BY <1>1, <1>6, StopKeeps DEF vars, heap, Sound
<1> QED
  BY <1>2, <1>3, <1>4, <1>5, <1>6 DEF Next, Stopped

LEMMA InvStep ==
  ASSUME IInv, [Next]_vars
  PROVE  IInv' /\ (~astray' => Promised)
<1>1. TypeOK'
  BY TypeStep DEF IInv
<1>2. ASSUME ~astray'
      PROVE  Sound' /\ Promised
  BY <1>2, AstrayStays, SoundStep DEF IInv
<1> QED
  BY <1>1, <1>2 DEF IInv

LEMMA InvInit == Init => IInv /\ Promise!Init
<1> SUFFICES ASSUME Init PROVE IInv /\ Promise!Init
  OBVIOUS
<1>1. TypeOK
  BY TypeInit
<1>2. /\ inbox = [t \in TaskId |-> IF t = Root THEN message_queues ELSE NULL]
      /\ message_queues \in Queue /\ NULL \notin Queue /\ Root \in TaskId
      /\ tasks_number = 0 /\ MAX_TASKS \in Nat
  BY MessagingAssumption DEF Init, Root, TaskId
<1>3. Tasks = {Root}
  BY <1>2 DEF Tasks
<1>4. inbox[Root] = message_queues /\ queue[message_queues] = EmptyQueue(Root)
  BY <1>2 DEF Init
<1>5. Inboxes
  BY <1>2, <1>3, <1>4 DEF Inboxes, Root, Init
<1>6. \A t \in TaskId : Mail[t] = <<>>
  <2> TAKE t \in TaskId
  <2>1. CASE t = Root
    <3>1. queue[inbox[t]].count = 0 /\ inbox[t] # NULL
      BY <1>2, <1>4, <2>1 DEF EmptyQueue
    <3>2. Mail[t] = [k \in 1 .. 0 |-> ListFrom(queue[inbox[t]].head)[k - 1]]
      BY <3>1 DEF Mail
    <3> QED
      BY <3>2
  <2>2. CASE t # Root
    BY <1>2, <2>2 DEF Mail
  <2> QED
    BY <2>1, <2>2
<1>7. Mail = [t \in TaskId |-> <<>>]
  BY <1>6, MailIsMailIn DEF MailIn
<1>8. \A t \in Tasks : WellLinked(t)
  <2>1. Mail[Root] = <<>> /\ queue[inbox[Root]] = EmptyQueue(Root)
    BY <1>2, <1>4, <1>6
  <2> QED
    BY <1>3, <2>1 DEF WellLinked, EmptyQueue
<1>9. ListsLinked
  <2>1. \A s, t \in Tasks : Apart(s, t)
    BY <1>2, <1>3, <1>6 DEF Apart
  <2> QED
    BY <1>8, <2>1, ListsLinkedParts
<1>10. Kept
  BY <1>2, <1>3, <1>6 DEF Kept, Waiting, Init
<1>11. Promise!Init
  BY <1>3, <1>7 DEF Promise!Init
<1> QED
  BY <1>1, <1>5, <1>9, <1>10, <1>11 DEF IInv, Sound

THEOREM MessagingInvariant == Spec => []IInv
<1>1. Init => IInv
  BY InvInit
<1>2. IInv /\ [Next]_vars => IInv'
  BY InvStep
<1> QED
  BY <1>1, <1>2, PTL DEF Spec

(* Whatever is in the memory malloc returns: until a list is followed beyond *)
(* its last message, the count, the head, the tail and the links agree in    *)
(* every inbox, and no message is in two places (deliver_local,              *)
(* cpu_process_context_inbox, message_queue_free).                           *)
THEOREM InboxesStayLinked == Spec => []InboxLinked
<1>1. IInv => InboxLinked
  <2>1. ListsLinked => InboxLinked
    BY Zenon DEF InboxLinked, ListsLinked
  <2>2. astray => InboxLinked
    BY Zenon DEF InboxLinked
  <2> QED
    BY <2>1, <2>2 DEF IInv, Sound
<1> QED
  BY <1>1, MessagingInvariant, PTL

(* No message is lost from memory until then: each one that is allocated is  *)
(* in an inbox, or was refused by a full one (deliver_local,                 *)
(* cpu_process_context_inbox, message_queue_free).                           *)
THEOREM MessagesKeptOrRefused == Spec => []KeptOrRefused
<1>1. IInv => KeptOrRefused
  BY DEF IInv, Sound, KeptOrRefused, Kept, Waiting
<1> QED
  BY <1>1, MessagingInvariant, PTL

(* Until then the linked lists of messaging.c implement the mailboxes of     *)
(* Mailbox.                                                                  *)
THEOREM MessagingDeliversInOrder == Spec => DeliversInOrder
<1>1. Init => IInv /\ Promise!Init
  BY InvInit
<1>2. IInv /\ [Next]_vars => IInv'
  BY InvStep
<1>3. IInv /\ [Next]_vars => [Promise!Next \/ astray']_(Promise!vars)
  BY InvStep DEF Promised, Promise!vars
<1> QED
  BY <1>1, <1>2, <1>3, PTL DEF Spec, DeliversInOrder

-----------------------------------------------------------------------------
(* The list of queues.  As long as no task has ended, it leads from inbox to *)
(* inbox in the order of the tasks, and the program runs.                    *)
NextQueue(Q) == [q \in Queue |-> Q[q].next]

Chained ==
  Tasks = 0 .. tasks_number =>
    /\ Running
    /\ \A t \in Tasks :
         queue[inbox[t]].next = IF t = tasks_number THEN NULL ELSE inbox[t + 1]

LEMMA ChainWalk ==
  ASSUME NEW next, NEW n \in Nat, NEW N \in Nat, n + 1 <= N, NEW box,
         \A u \in 0 .. n : /\ box[u] \in DOMAIN next
                           /\ next[box[u]] = IF u = n THEN NULL ELSE box[u + 1]
  PROVE  LET f == PointersFrom(box[0], next, N) IN
         /\ \A k \in 0 .. n : f[k] = box[k]
         /\ f[n + 1] = NULL
<1> DEFINE f == PointersFrom(box[0], next, N)
           T == {k \in Nat : k <= n => f[k] = box[k]}
<1>1. /\ f[0] = box[0]
      /\ \A k \in 0 .. N - 1 : f[k + 1] = IF f[k] \in DOMAIN next THEN next[f[k]] ELSE NULL
  BY WalkProperties
<1> HIDE DEF f
<1>2. 0 \in T
  BY <1>1
<1>3. ASSUME NEW k \in Nat, k \in T
      PROVE  k + 1 \in T
  <2> SUFFICES ASSUME k + 1 <= n PROVE f[k + 1] = box[k + 1]
    OBVIOUS
  <2>1. k \in 0 .. N - 1 /\ k \in 0 .. n /\ k # n /\ f[k] = box[k]
    BY <1>3
  <2> QED
    BY <1>1, <2>1
<1>4. \A k \in 0 .. n : f[k] = box[k]
  <2>1. Nat \subseteq T
    <3> HIDE DEF T
    <3> QED
      BY <1>2, <1>3, SetInduction
  <2> QED
    BY <2>1
<1>5. f[n + 1] = NULL
  <2>1. n \in 0 .. N - 1 /\ n \in 0 .. n
    OBVIOUS
  <2>2. f[n] = box[n] /\ box[n] \in DOMAIN next /\ next[box[n]] = NULL
    BY <1>4, <2>1
  <2> QED
    BY <1>1, <2>1, <2>2
<1> QED
  BY <1>4, <1>5 DEF f

(* Memory holds an inbox for each task. *)
LEMMA InboxesFit ==
  ASSUME TypeOK, Inboxes, ListsLinked, Tasks = 0 .. tasks_number
  PROVE  tasks_number + 1 <= Cardinality(Queue) /\ tasks_number \in Nat
<1> DEFINE f == [t \in 0 .. tasks_number |-> inbox[t]]
<1>1. tasks_number \in Nat
  BY MessagingAssumption DEF TypeOK
<1>2. /\ IsFiniteSet(0 .. tasks_number)
      /\ Cardinality(0 .. tasks_number) = tasks_number + 1
  <2>1. 0 \in Int /\ tasks_number \in Int /\ ~(0 > tasks_number)
    BY <1>1
  <2>2. Cardinality(0 .. tasks_number) = tasks_number - 0 + 1
    BY <2>1, FS_Interval
  <2> QED
    BY <1>1, <2>1, <2>2, FS_Interval
<1>3. f \in [0 .. tasks_number -> Queue]
  BY ListOf
<1>4. ~ \E x, y \in 0 .. tasks_number : x # y /\ f[x] = f[y]
  BY InboxesDiffer
<1>5. IsFiniteSet(Queue)
  BY MessagingAssumption
<1>6. ~(Cardinality(Queue) < Cardinality(0 .. tasks_number))
  <2> HIDE DEF f
  <2> QED
    BY <1>2, <1>3, <1>4, <1>5, FS_PigeonHole
<1> QED
  BY <1>1, <1>2, <1>6, FiniteHeap

(* Where the pointers of the list lead, whatever else the queues hold.       *)
LEMMA QueueWalk ==
  ASSUME TypeOK, Inboxes, ListsLinked, Tasks = 0 .. tasks_number,
         NEW Q, \A t \in Tasks :
           Q[inbox[t]].next = IF t = tasks_number THEN NULL ELSE inbox[t + 1]
  PROVE  LET list == PointersFrom(message_queues, NextQueue(Q), Cardinality(Queue)) IN
         /\ DOMAIN list = 0 .. Cardinality(Queue)
         /\ \A k \in 0 .. tasks_number : list[k] = inbox[k]
         /\ list[tasks_number + 1] = NULL
         /\ tasks_number + 1 \in 0 .. Cardinality(Queue)
<1>1. tasks_number + 1 <= Cardinality(Queue) /\ tasks_number \in Nat /\ Cardinality(Queue) \in Nat
  BY InboxesFit, FiniteHeap
<1>2. \A u \in 0 .. tasks_number :
        /\ inbox[u] \in DOMAIN NextQueue(Q)
        /\ NextQueue(Q)[inbox[u]] = IF u = tasks_number THEN NULL ELSE inbox[u + 1]
  BY ListOf DEF NextQueue
<1>3. inbox[0] = message_queues
  BY DEF Inboxes, Root
<1>4. LET f == PointersFrom(inbox[0], NextQueue(Q), Cardinality(Queue)) IN
      /\ \A k \in 0 .. tasks_number : f[k] = inbox[k]
      /\ f[tasks_number + 1] = NULL
  BY <1>1, <1>2, ChainWalk
<1>5. DOMAIN PointersFrom(message_queues, NextQueue(Q), Cardinality(Queue))
        = 0 .. Cardinality(Queue)
  BY <1>1, WalkProperties
<1> QED
  BY <1>1, <1>3, <1>4, <1>5

(* deliver_local finds an inbox that exists, or the end of the list.         *)
LEMMA SearchFindsInbox ==
  ASSUME TypeOK, Inboxes, ListsLinked, Tasks = 0 .. tasks_number, Chained,
         NEW d \in TaskId
  PROVE  InboxOf(d) # {} /\ InboxOf(d) \subseteq inboxes \cup {NULL}
<1> DEFINE list == PointersFrom(message_queues, NextQueue(queue), Cardinality(Queue))
           N == Cardinality(Queue)
           stop == {k \in 0 .. N : list[k] \notin inboxes \/ queue[list[k]].task_id = d}
           first == {k \in stop : \A j \in 0 .. k - 1 : j \notin stop}
<1>1. /\ DOMAIN list = 0 .. N
      /\ \A k \in 0 .. tasks_number : list[k] = inbox[k]
      /\ list[tasks_number + 1] = NULL
      /\ tasks_number + 1 \in 0 .. N
  BY QueueWalk DEF Chained
<1>2. NULL \notin inboxes /\ \A k \in 0 .. tasks_number : inbox[k] \in inboxes
  BY MessagingAssumption DEF TypeOK, Inboxes
<1>3. N \in Nat /\ tasks_number \in Nat
  BY InboxesFit, FiniteHeap
<1>4. InboxOf(d) = {list[k] : k \in first}
  <2>1. InboxOf(d) =
          {list[k] : k \in {k \in 0 .. N :
             /\ list[k] \notin inboxes \/ queue[list[k]].task_id = d
             /\ \A j \in 0 .. k - 1 : ~(list[j] \notin inboxes \/ queue[list[j]].task_id = d)}}
    BY <1>1 DEF InboxOf, SearchEnds, NextQueue
  <2>2. first = {k \in 0 .. N :
             /\ list[k] \notin inboxes \/ queue[list[k]].task_id = d
             /\ \A j \in 0 .. k - 1 : ~(list[j] \notin inboxes \/ queue[list[j]].task_id = d)}
    <3> HIDE DEF list, N
    <3> QED
      BY <1>3
  <2> QED
    BY <2>1, <2>2
<1> HIDE DEF list, N
<1>5. tasks_number + 1 \in stop /\ stop \subseteq Nat
  BY <1>1, <1>2
<1>6. first # {}
  <2> HIDE DEF stop
  <2>1. \E k \in stop : \A j \in 0 .. k - 1 : j \notin stop
    BY <1>5, LeastElement
  <2> QED
    BY <2>1
<1>7. ASSUME NEW k \in first
      PROVE  list[k] \in inboxes \cup {NULL}
  <2>1. k \in Nat /\ k <= tasks_number + 1
    BY <1>3, <1>5
  <2>2. k \in 0 .. tasks_number \/ k = tasks_number + 1
    BY <1>3, <2>1
  <2> QED
    BY <1>1, <1>2, <2>2
<1> HIDE DEF first
<1> QED
  BY <1>4, <1>6, <1>7

(* cpu_create_task_inbox finds the inbox of the last task. *)
LEMMA SearchFindsLast ==
  ASSUME TypeOK, Inboxes, ListsLinked, Tasks = 0 .. tasks_number, Chained,
         NEW q \in Queue \ inboxes, NEW t \in TaskId
  PROVE  SearchEnds(Created(q, t),
           LAMBDA p : p \notin inboxes \cup {q} \/ Created(q, t)[p].next = NULL)
           = {inbox[tasks_number]}
<1> DEFINE Q == Created(q, t)
           list == PointersFrom(message_queues, NextQueue(Q), Cardinality(Queue))
           N == Cardinality(Queue)
           n == tasks_number
           stop == {k \in 0 .. N : list[k] \notin inboxes \cup {q} \/ Q[list[k]].next = NULL}
           first == {k \in stop : \A j \in 0 .. k - 1 : j \notin stop}
<1>1. \A u \in Tasks : /\ inbox[u] \in inboxes /\ inbox[u] \in Queue
                       /\ Q[inbox[u]] = queue[inbox[u]]
  <2>1. \A u \in Tasks : inbox[u] \in inboxes /\ inbox[u] \in Queue
    BY ListOf DEF Inboxes
  <2> QED
    BY <2>1 DEF Created, TypeOK
<1>2. \A u \in Tasks : Q[inbox[u]].next = IF u = tasks_number THEN NULL ELSE inbox[u + 1]
  BY <1>1 DEF Chained
<1>3. /\ DOMAIN list = 0 .. N
      /\ \A k \in 0 .. n : list[k] = inbox[k]
      /\ n + 1 \in 0 .. N
  <2> HIDE DEF Q
  <2> QED
    BY <1>2, QueueWalk
<1>4. N \in Nat /\ n \in Nat
  BY InboxesFit, FiniteHeap
<1>5. \A k \in 0 .. n : k \in stop <=> k = n
  <2> TAKE k \in 0 .. n
  <2>1. list[k] = inbox[k] /\ inbox[k] \in inboxes /\ k \in 0 .. N
    BY <1>1, <1>3, <1>4
  <2>2. Q[inbox[k]].next = IF k = n THEN NULL ELSE inbox[k + 1]
    BY <1>2
  <2>3. k # n => inbox[k + 1] # NULL
    BY <1>4 DEF Tasks
  <2> HIDE DEF Q, list, N, n
  <2> QED
    BY <2>1, <2>2, <2>3
<1>6. first = {n}
  <2>1. n \in first
    <3> HIDE DEF stop
    <3> QED
      BY <1>4, <1>5
  <2>2. \A k \in first : k = n
    <3> TAKE k \in first
    <3>1. k \in stop /\ k \in Nat /\ \A j \in 0 .. k - 1 : j \notin stop
      BY <1>4
    <3> HIDE DEF stop
    <3>2. n \in stop /\ \A j \in 0 .. n : j \in stop <=> j = n
      BY <1>4, <1>5
    <3>3. ~(n < k)
      BY <1>4, <3>1, <3>2
    <3> QED
      BY <1>4, <3>1, <3>2, <3>3
  <2> HIDE DEF first
  <2> QED
    BY <2>1, <2>2
<1>7. SearchEnds(Q, LAMBDA p : p \notin inboxes \cup {q} \/ Q[p].next = NULL)
        = {list[k] : k \in first}
  <2>1. SearchEnds(Q, LAMBDA p : p \notin inboxes \cup {q} \/ Q[p].next = NULL) =
          {list[k] : k \in {k \in 0 .. N :
             /\ list[k] \notin inboxes \cup {q} \/ Q[list[k]].next = NULL
             /\ \A j \in 0 .. k - 1 :
                  ~(list[j] \notin inboxes \cup {q} \/ Q[list[j]].next = NULL)}}
    BY <1>3 DEF SearchEnds, NextQueue
  <2>2. first = {k \in 0 .. N :
             /\ list[k] \notin inboxes \cup {q} \/ Q[list[k]].next = NULL
             /\ \A j \in 0 .. k - 1 :
                  ~(list[j] \notin inboxes \cup {q} \/ Q[list[j]].next = NULL)}
    <3> HIDE DEF list, N, Q
    <3> QED
      BY <1>4
  <2> QED
    BY <2>1, <2>2
<1>8. list[n] = inbox[n]
  BY <1>3, <1>4
<1> HIDE DEF first, list
<1> QED
  BY <1>6, <1>7, <1>8

LEMMA ChainedStep ==
  ASSUME Sound, Chained, Next \/ UNCHANGED vars, ~astray'
  PROVE  Chained'
<1> USE DEF Sound
<1>1. CASE UNCHANGED vars
  BY <1>1 DEF vars, Chained, Tasks, Running
<1>2. CASE CreateInbox
  <2> SUFFICES ASSUME Tasks' = 0 .. tasks_number'
               PROVE  /\ Running'
                      /\ \A u \in Tasks' :
                           queue'[inbox'[u]].next = IF u = tasks_number' THEN NULL
                                                    ELSE inbox'[u + 1]
    BY Zenon DEF Chained
  <2> DEFINE t == tasks_number + 1
  <2>1. PICK q \in Queue \ inboxes :
          LET last == SearchEnds(Created(q, t),
                        LAMBDA p : p \notin inboxes \cup {q}
                                     \/ Created(q, t)[p].next = NULL)
          IN IF last \cap (inboxes \cup {q}) # {}
             THEN /\ tasks_number' = t
                  /\ inbox' = [inbox EXCEPT ![t] = q]
                  /\ inboxes' = inboxes \cup {q}
                  /\ queue' = [p \in Queue |->
                                 IF p \in last THEN [Created(q, t)[p] EXCEPT !.next = q]
                                 ELSE Created(q, t)[p]]
                  /\ UNCHANGED <<message_queues, messages, message, status, refused>>
             ELSE Stop(IF last = {} THEN "hung" ELSE "undefined")
    BY <1>2 DEF CreateInbox
  <2>2. t \in TaskId /\ tasks_number \in Nat /\ t = tasks_number + 1
    BY <1>2, MessagingAssumption DEF CreateInbox, TypeOK, TaskId
  <2> DEFINE last == SearchEnds(Created(q, t),
                       LAMBDA p : p \notin inboxes \cup {q}
                                    \/ Created(q, t)[p].next = NULL)
             Q2 == [p \in Queue |->
                      IF p \in last THEN [Created(q, t)[p] EXCEPT !.next = q]
                      ELSE Created(q, t)[p]]
             T2 == /\ tasks_number' = t
                   /\ inbox' = [inbox EXCEPT ![t] = q]
                   /\ inboxes' = inboxes \cup {q}
                   /\ queue' = Q2
                   /\ UNCHANGED <<message_queues, messages, message, status, refused>>
  <2>3. T2 \/ \E how \in {"hung", "undefined"} : Stop(how)
    BY <2>1
  <2>4. Tasks = 0 .. tasks_number
    <3>1. CASE T2
      <4>1. /\ tasks_number' = t
            /\ inbox' = [inbox EXCEPT ![t] = q]
            /\ inboxes' = inboxes \cup {q}
            /\ UNCHANGED <<message_queues, messages, message>>
        BY <3>1
      <4>4. TypeOK /\ Inboxes
        OBVIOUS
      <4> HIDE DEF t, last, Sound
      <4>2. t \notin Tasks
        BY <2>2, <4>4 DEF Inboxes
      <4>3. \A u \in TaskId : inbox'[u] = IF u = t THEN q ELSE inbox[u]
        BY <4>1, <4>4 DEF TypeOK
      <4>9. q # NULL
        BY MessagingAssumption
      <4>5. Tasks' = Tasks \cup {t}
        BY <2>2, <4>3, <4>9 DEF Tasks
      <4>6. Tasks \subseteq 0 .. tasks_number
        BY <4>4 DEF Inboxes
      <4>7. 0 .. t = Tasks \cup {t}
        BY <4>1, <4>5
      <4>8. ASSUME NEW x \in 0 .. tasks_number
            PROVE  x \in Tasks
        <5>1. x \in 0 .. t /\ x # t
          BY <2>2
        <5> QED
          BY <4>7, <5>1
      <4> QED
        BY <4>6, <4>8
    <3>2. CASE \E how \in {"hung", "undefined"} : Stop(how)
      BY <3>2 DEF Stop, Tasks
    <3> QED
      BY <2>3, <3>1, <3>2
  <2>5. last = {inbox[tasks_number]}
    <3> HIDE DEF t
    <3> QED
      BY <2>2, <2>4, SearchFindsLast
  <2>6. \A u \in Tasks : /\ inbox[u] \in inboxes /\ inbox[u] \in Queue \ {q}
                         /\ u \in TaskId /\ u # t /\ inbox[u] # NULL
    BY <2>2, <2>4, ListOf DEF Inboxes
  <2>7. tasks_number \in Tasks
    BY <2>2, <2>4
  <2>8. T2
    <3>1. last \cap (inboxes \cup {q}) # {}
      <4> HIDE DEF last
      <4> QED
        BY <2>5, <2>6, <2>7
    <3> QED
      BY <2>1, <3>1
  <2>9. Running'
    BY <2>4, <2>8 DEF Chained, Running
  <2>10. /\ inbox'[t] = q
         /\ \A u \in Tasks : inbox'[u] = inbox[u]
    BY <2>2, <2>6, <2>8 DEF TypeOK
  <2>11. /\ queue'[q].next = NULL
         /\ queue'[inbox[tasks_number]].next = q
         /\ \A u \in Tasks \ {tasks_number} : queue'[inbox[u]].next = queue[inbox[u]].next
    <3>1. queue \in [Queue -> QueueRecord]
      BY DEF TypeOK, QueueRecord
    <3>2. /\ Created(q, t)[q] = EmptyQueue(t)
          /\ \A p \in Queue \ {q} : Created(q, t)[p] = queue[p]
      BY <3>1 DEF Created
    <3>3. \A u \in Tasks : inbox[u] = inbox[tasks_number] => u = tasks_number
      BY <2>7, InboxesDiffer
    <3>4. \A p \in Queue : queue'[p] = IF p = inbox[tasks_number]
                                       THEN [Created(q, t)[p] EXCEPT !.next = q]
                                       ELSE Created(q, t)[p]
      <4> HIDE DEF last, t
      <4> QED
        BY <2>5, <2>8
    <3>5. queue'[q] = EmptyQueue(t)
      BY <2>6, <2>7, <3>2, <3>4
    <3>6. queue'[inbox[tasks_number]] = [queue[inbox[tasks_number]] EXCEPT !.next = q]
      BY <2>6, <2>7, <3>2, <3>4
    <3>7. queue[inbox[tasks_number]] \in QueueRecord
      BY <2>6, <2>7, <3>1
    <3>8. \A u \in Tasks \ {tasks_number} : queue'[inbox[u]] = queue[inbox[u]]
      BY <2>6, <3>2, <3>3, <3>4
    <3>9. queue'[inbox[tasks_number]].next = q
      BY <3>6, <3>7 DEF QueueRecord
    <3> QED
      BY <3>5, <3>8, <3>9 DEF EmptyQueue
  <2>12. tasks_number' = t
    BY <2>8
  <2>13. ASSUME NEW u \in Tasks'
         PROVE  queue'[inbox'[u]].next = IF u = tasks_number' THEN NULL ELSE inbox'[u + 1]
    <3>1. CASE u = t
      BY <2>10, <2>11, <2>12, <3>1
    <3>2. CASE u = tasks_number
      BY <2>2, <2>7, <2>10, <2>11, <2>12, <3>2
    <3>3. CASE u # t /\ u # tasks_number
      <4>1. u \in Tasks /\ u + 1 \in Tasks
        BY <2>2, <2>4, <2>12, <3>3
      <4>2. queue[inbox[u]].next = inbox[u + 1]
        BY <2>4, <3>3, <4>1 DEF Chained
      <4> QED
        BY <2>10, <2>11, <2>12, <3>3, <4>1, <4>2
    <3> QED
      BY <3>1, <3>2, <3>3
  <2> QED
    BY <2>9, <2>13
<1>3. ASSUME NEW S \in SUBSET Tasks, S \cap Enders # {}, FreeInboxes(S)
      PROVE  Chained'
  <2> DEFINE heads == [t \in S |-> queue[inbox[t]].head]
  <2>1. /\ \A t \in S : EndsInNull(heads[t])
        /\ \A s, t \in S : s # t => MessagesFrom(heads[s]) \cap MessagesFrom(heads[t]) = {}
    <3>0. \A t \in S : ~PointsBeyond(inbox[t])
      BY <1>3 DEF FreeInboxes
    <3>1. \A t \in S : /\ t \in Tasks /\ heads[t] = queue[inbox[t]].head
                       /\ MessagesFrom(queue[inbox[t]].head) = {Mail[t][i] : i \in DOMAIN Mail[t]}
                       /\ EndsInNull(queue[inbox[t]].head)
      BY <3>0, FreedIsMail
    <3>2. \A s, t \in S : Apart(s, t)
      BY ListsLinkedParts
    <3> HIDE DEF heads
    <3> QED
      BY <3>1, <3>2 DEF Apart
  <2>2. /\ inbox' = [t \in TaskId |-> IF t \in S THEN NULL ELSE inbox[t]]
        /\ UNCHANGED <<tasks_number, status>>
    BY <1>3, <2>1 DEF FreeInboxes
  <2>3. Tasks' = Tasks \ S
    BY <2>2 DEF Tasks
  <2>4. Tasks' # 0 .. tasks_number'
    BY <1>3, <2>2, <2>3 DEF Inboxes
  <2> QED
    BY <2>4 DEF Chained
<1>4. ASSUME NEW m \in Message \ messages, NEW n, NEW d \in TaskId, Running, DeliverLocal(m, n, d)
      PROVE  Chained'
  <2>1. CASE Tasks # 0 .. tasks_number
    BY <1>4, <2>1 DEF DeliverLocal, Stop, vars, Chained, Tasks
  <2>2. CASE Tasks = 0 .. tasks_number
    <3>1. InboxOf(d) # {} /\ InboxOf(d) \subseteq inboxes \cup {NULL}
      BY <2>2, SearchFindsInbox
    <3>2. ASSUME NEW q \in inboxes
          PROVE  queue[q].head = NULL \/ queue[q].tail \in messages
      <4>1. PICK t \in Tasks : q = inbox[t]
        BY DEF Inboxes
      <4>2. WellLinked(t)
        BY ListsLinkedParts
      <4>3. /\ queue[inbox[t]].count \in Nat
            /\ \A i \in 1 .. queue[inbox[t]].count : Mail[t][i] \in messages
        BY ListOf
      <4> QED
        BY <4>1, <4>2, <4>3 DEF WellLinked
    <3>3. \/ UNCHANGED vars
          \/ /\ UNCHANGED <<tasks_number, inbox, inboxes, queue, status>>
          \/ \E q \in inboxes : /\ Enqueued(q, m, n)
                                /\ UNCHANGED <<tasks_number, inbox, inboxes, status>>
      BY <1>4, <3>1, <3>2 DEF DeliverLocal
    <3>4. UNCHANGED <<tasks_number, inbox, status>>
      BY <3>3 DEF vars
    <3>5. \A p \in Queue : queue'[p].next = queue[p].next
      <4>1. CASE queue' = queue
        BY <4>1, Zenon
      <4>2. ASSUME NEW q \in inboxes, Enqueued(q, m, n)
            PROVE  \A p \in Queue : queue'[p].next = queue[p].next
        <5>1. q \in Queue /\ queue \in [Queue -> QueueRecord]
          BY DEF TypeOK, QueueRecord
        <5>2. CASE queue[q].head = NULL
          BY <4>2, <5>1, <5>2 DEF Enqueued, QueueRecord
        <5>3. CASE queue[q].head # NULL
          BY <4>2, <5>1, <5>3 DEF Enqueued, QueueRecord
        <5> QED
          BY <5>2, <5>3
      <4> QED
        BY <3>3, <4>1, <4>2 DEF vars
    <3>6. Tasks' = Tasks
      BY <3>4 DEF Tasks
    <3>7. \A t \in Tasks : queue'[inbox[t]].next = queue[inbox[t]].next
      BY <3>5, ListOf
    <3> QED
      BY <2>2, <3>4, <3>6, <3>7 DEF Chained, Running
  <2> QED
    BY <2>1, <2>2
<1>5. ASSUME NEW t \in TaskId, ProcessMessage(t)
      PROVE  Chained'
  <2>1. t \in Tasks /\ queue[inbox[t]].count > 0
    BY <1>5 DEF ProcessMessage
  <2>2. queue[inbox[t]].head \in messages
    <3>1. /\ queue[inbox[t]].count \in Nat
          /\ Linked(Mail[t], queue[inbox[t]].count, queue[inbox[t]].head, message)
          /\ \A i \in 1 .. queue[inbox[t]].count : Mail[t][i] \in messages
      BY <2>1, ListOf
    <3> QED
      BY <2>1, <3>1 DEF Linked
  <2>3. /\ queue' = [queue EXCEPT ![inbox[t]].head = message[queue[inbox[t]].head].next,
                                  ![inbox[t]].count = queue[inbox[t]].count - 1]
        /\ UNCHANGED <<tasks_number, inbox, status>>
    BY <1>5, <2>2 DEF ProcessMessage
  <2>4. \A p \in Queue : queue'[p].next = queue[p].next
    BY <2>3 DEF TypeOK
  <2> QED
    BY <2>3, <2>4, ListOf DEF Chained, Tasks, Running
<1> QED
  BY <1>1, <1>2, <1>3, <1>4, <1>5, Zenon DEF Next, Stopped, SendMessage, ReceiveMessage

(* While no task has ended and no list was followed beyond its last message, *)
(* whatever is in the memory malloc returns, every search for an inbox finds it or the end of *)
(* the list, and no step is undefined (cpu_create_task_inbox, deliver_local, *)
(* message_queue_free, cpu_process_context_inbox).                           *)
THEOREM MessagingSearchesSucceed == Spec => []SearchesSucceed
<1>1. Init => IInv /\ Chained
  <2> SUFFICES ASSUME Init PROVE IInv /\ Chained
    OBVIOUS
  <2>1. IInv
    BY InvInit
  <2>2. Root \in TaskId /\ NULL \notin Queue
    BY MessagingAssumption DEF Root, TaskId
  <2>3. Tasks = {Root} /\ inbox[Root] = message_queues
    BY <2>2 DEF Init, Tasks
  <2>4. queue[inbox[Root]].next = NULL
    BY <2>3 DEF Init, EmptyQueue
  <2>5. Chained
    BY <2>3, <2>4 DEF Chained, Init, Running, Root
  <2> QED
    BY <2>1, <2>5
<1>2. IInv /\ (~astray => Chained) /\ [Next]_vars => IInv' /\ (~astray' => Chained')
  BY InvStep, AstrayStays, ChainedStep DEF IInv
<1>3. (~astray => Chained) => SearchesSucceed
  BY DEF Chained, SearchesSucceed
<1> QED
  BY <1>1, <1>2, <1>3, PTL DEF Spec

=============================================================================
