------------------------ MODULE VirtualMachineProofs ------------------------
(***************************************************************************)
(* Proofs about Scheduler, for every MAX_TASKS, slice length, set of       *)
(* addresses and kind of program, and about VirtualMachine, which extends  *)
(* it, for any number of tasks, any slices and any memory.  The machine is *)
(* a Scheduler, so that the invariants of the first part hold of it; what  *)
(* it does to the inboxes are steps of Messaging, so that the types of     *)
(* MessagingProofs hold of it too.                                         *)
(***************************************************************************)
EXTENDS VirtualMachine, ListLemmas, FiniteSetTheorems, TLAPS

MP == INSTANCE MessagingProofs WITH Enders <- Returners \ {Root}

-----------------------------------------------------------------------------
(* Type correctness. *)

LEMMA AboveOne ==
  ASSUME NEW m \in Nat \ {0}, m # 1
  PROVE  m > 1 /\ m - 1 \in Nat /\ m - 1 > 0 /\ m - 1 \in 1 .. m - 1
OBVIOUS

(* The calls of the traversal left when the innermost one returns. *)
LEMMA CallerProperties ==
  ASSUME frames \in Seq(Frame), frames # <<>>, Len(frames) # 1
  PROVE  /\ CallerNextIndex \in Seq(Frame)
         /\ Len(CallerNextIndex) = Len(frames) - 1
         /\ Len(frames) \in Nat /\ Len(frames) > 1
         /\ \A k \in 1 .. Len(frames) - 1 :
              /\ CallerNextIndex[k].node = frames[k].node
              /\ CallerNextIndex[k].i = IF k = Len(frames) - 1
                                        THEN frames[k].i + 1 ELSE frames[k].i
<1> DEFINE f == Front(frames)
           n == Len(frames) - 1
           r == [f[n] EXCEPT !.i = @ + 1]
           g == [f EXCEPT ![n] = r]
<1>1. Len(frames) \in Nat \ {0}
  BY LastProperties
<1>2. Len(frames) > 1 /\ n \in Nat /\ n > 0 /\ n \in 1 .. n
  <2>1. Len(frames) # 1
    OBVIOUS
  <2> QED
    BY <1>1, <2>1, AboveOne, Zenon
<1>3. /\ f \in Seq(Frame)
      /\ Len(f) = n
      /\ \A k \in 1 .. n : f[k] = frames[k]
  BY FrontProperties
<1>4. \A k \in 1 .. n : f[k] \in Frame
  BY <1>3, ElementOfSeq
<1>5. r \in Frame /\ r.node = f[n].node /\ r.i = f[n].i + 1
  <2>1. f[n] \in Frame
    BY <1>2, <1>4
  <2> HIDE DEF f, n
  <2> QED
    BY <2>1 DEF Frame
<1>6. CallerNextIndex = g
  <2>1. CallerNextIndex = [f EXCEPT ![n].i = @ + 1]
    BY Zenon DEF CallerNextIndex
  <2> HIDE DEF f, n
  <2> QED
    BY <2>1
<1> HIDE DEF f, n, r
<1>7. /\ g \in Seq(Frame)
      /\ Len(g) = Len(f)
      /\ \A k \in 1 .. Len(f) : g[k] = IF k = n THEN r ELSE f[k]
  BY <1>2, <1>3, <1>5, ExceptSeq
<1> QED
  BY <1>1, <1>2, <1>3, <1>5, <1>6, <1>7 DEF n

(* What ASYNC_RETURN does to the child lists: nothing, or the list of the    *)
(* parent of the task that ends closes the gap at some position i.           *)
LEMMA RemovedChild ==
  ASSUME children \in [TaskId -> Seq(TaskId)], NEW c \in TaskId, RemoveChild(c),
         parent[c] \in TaskId
  PROVE  /\ children' \in [TaskId -> Seq(TaskId)]
         /\ \A t \in TaskId : t # parent[c] => children'[t] = children[t]
         /\ \E i \in 1 .. Len(children[parent[c]]) :
              /\ children[parent[c]][i] = c
              /\ Len(children'[parent[c]]) = Len(children[parent[c]]) - 1
              /\ \A j \in 1 .. Len(children[parent[c]]) - 1 :
                   children'[parent[c]][j] = IF j < i THEN children[parent[c]][j]
                                             ELSE children[parent[c]][j + 1]
<1> DEFINE p == parent[c]
           s == children[p]
<1>1. s \in Seq(TaskId)
  OBVIOUS
<1>2. DOMAIN s = 1 .. Len(s)
  BY <1>1, LenProperties
<1>3. PICK i \in DOMAIN s : s[i] = c /\ children' = [children EXCEPT ![p] = RemoveAt(s, i)]
  BY DEF RemoveChild
<1>4. /\ RemoveAt(s, i) \in Seq(TaskId)
      /\ Len(RemoveAt(s, i)) = Len(s) - 1
      /\ \A j \in 1 .. Len(s) - 1 :
           RemoveAt(s, i)[j] = IF j < i THEN s[j] ELSE s[j + 1]
  BY <1>1, RemoveAtProperties
<1>5. children'[p] = RemoveAt(s, i)
  BY <1>3
<1> QED
  BY <1>2, <1>3, <1>4, <1>5

(* Type correctness is preserved by every step. *)
LEMMA TypeStep == TypeOK /\ [Next]_vars => TypeOK'
<1> SUFFICES ASSUME TypeOK, [Next]_vars PROVE TypeOK'
  OBVIOUS
<1> USE SchedulerAssumption
<1>0. phase \in {"enter", "slice", "scan"} =>
         /\ Top \in Frame
         /\ Top.node \in TaskId
         /\ Top.i \in Nat
         /\ children[Top.node] \in Seq(TaskId)
         /\ Len(children[Top.node]) \in Nat
  <2> SUFFICES ASSUME phase \in {"enter", "slice", "scan"}
               PROVE  Top \in Frame /\ Top.node \in TaskId /\ Top.i \in Nat
                      /\ children[Top.node] \in Seq(TaskId)
                      /\ Len(children[Top.node]) \in Nat
    OBVIOUS
  <2>1. Top \in Frame
    BY LastProperties DEF TypeOK, Top
  <2>2. Top.node \in TaskId /\ Top.i \in Nat
    BY <2>1 DEF Frame
  <2>3. children[Top.node] \in Seq(TaskId)
    BY <2>2 DEF TypeOK
  <2> QED
    BY <2>1, <2>2, <2>3, LenProperties
<1>1. CASE StartRound
  <2>1. [node |-> Root, i |-> 0] \in Frame
    BY DEF Frame, Root, TaskId
  <2>2. frames' \in Seq(Frame) /\ frames' # <<>>
    BY <1>1, <2>1 DEF StartRound
  <2> QED
    BY <1>1, <2>2 DEF TypeOK, StartRound, treeVars, Running, Stopped
<1>2. CASE RunCycle
  <2>1. Top.node \in TaskId
    BY <1>0, <1>2 DEF RunCycle
  <2> DEFINE n == Top.node
             T == [ip : Address, active : BOOLEAN, message_handler_address : Address]
  <2>2. task[n] \in T /\ task[current] \in T /\ ip \in Address
    BY <2>1 DEF TypeOK
  <2>3. ip' \in Address
    <3>1. ResumeAddress(n) \in Address /\ task[n].message_handler_address \in Address
      BY <2>2 DEF ResumeAddress
    <3> QED
      BY <1>2, <3>1 DEF RunCycle
  <2>4. task' \in [TaskId -> T]
    <3> DEFINE u == [task EXCEPT ![current].active = FALSE, ![current].ip = ip]
    <3> DEFINE r == [task[current] EXCEPT !.active = FALSE, !.ip = ip]
               w == [u[n] EXCEPT !.active = TRUE]
    <3>4. task \in [TaskId -> T]
      BY DEF TypeOK
    <3>5. u = [task EXCEPT ![current] = r]
      BY <3>4
    <3>6. r \in T
      BY <2>2
    <3>1. u \in [TaskId -> T]
      <4> HIDE DEF u, r, T
      <4> QED
        BY <3>4, <3>5, <3>6
    <3>7. u[n] \in T
      <4> HIDE DEF u, n, T
      <4> QED
        BY <2>1, <3>1 DEF n
    <3>8. w \in T
      BY <3>7
    <3>9. [u EXCEPT ![n].active = TRUE] = [u EXCEPT ![n] = w]
      <4> HIDE DEF u
      <4> QED
        OBVIOUS
    <3>2. [u EXCEPT ![n].active = TRUE] \in [TaskId -> T]
      <4> HIDE DEF u, n, T, w
      <4> QED
        BY <3>1, <3>8, <3>9
    <3>3. task' = [u EXCEPT ![n].active = TRUE]
      BY <1>2 DEF RunCycle, SwitchedTo
    <3> QED
      BY <3>2, <3>3
  <2> QED
    BY <1>2, <2>1, <2>3, <2>4 DEF TypeOK, RunCycle, treeVars, Running, Stopped
<1>3. CASE Descend
  <2>1. children[Top.node][Top.i + 1] \in TaskId
    <3>1. Top.i + 1 \in 1 .. Len(children[Top.node])
      BY <1>0, <1>3 DEF Descend, MoreChildren
    <3> QED
      BY <1>0, <1>3, <3>1, ElementOfSeq DEF Descend
  <2>2. [node |-> children[Top.node][Top.i + 1], i |-> 0] \in Frame
    BY <2>1 DEF Frame
  <2>3. frames' \in Seq(Frame) /\ frames' # <<>>
    <3> DEFINE r == [node |-> children[Top.node][Top.i + 1], i |-> 0]
    <3>1. frames \in Seq(Frame) /\ r \in Frame /\ frames' = Append(frames, r)
      BY <1>3, <2>2 DEF TypeOK, Descend
    <3> HIDE DEF r
    <3> QED
      BY <3>1, AppendProperties
  <2> QED
    BY <1>3, <2>3 DEF TypeOK, Descend, treeVars, Running, Stopped
<1>4. CASE Ascend
  <2>1. frames \in Seq(Frame) /\ frames # <<>>
    BY <1>4 DEF TypeOK, Ascend
  <2>2. CASE Len(frames) = 1
    <3>1. frames' = <<>> /\ phase' = "idle"
      BY <1>4, <2>2 DEF Ascend
    <3>2. <<>> \in Seq(Frame)
      BY EmptySeq
    <3> QED
      BY <1>4, <3>1, <3>2 DEF TypeOK, Ascend, treeVars, Running, Stopped
  <2>3. CASE Len(frames) # 1
    <3>1. frames' = CallerNextIndex /\ phase' = "scan"
      BY <1>4, <2>3 DEF Ascend
    <3>2. /\ CallerNextIndex \in Seq(Frame)
          /\ Len(CallerNextIndex) = Len(frames) - 1
          /\ Len(frames) \in Nat /\ Len(frames) > 1
      BY <2>1, <2>3, CallerProperties
    <3>3. CallerNextIndex # <<>>
      BY <3>2, EmptySeq
    <3> QED
      BY <1>4, <3>1, <3>2, <3>3 DEF TypeOK, Ascend, treeVars, Running, Stopped
  <2> QED
    BY <2>2, <2>3
<1>5. CASE ReadFreedChildren
  BY <1>5 DEF TypeOK, ReadFreedChildren, treeVars, Running, Stopped
<1>6. ASSUME NEW a \in Address, EndInstruction(a), phase = "slice"
      PROVE  /\ ip' \in Address
             /\ cycles' \in 0 .. CONTEXT_MAX_CYCLES
             /\ phase' = "slice" => cycles' > 0
             /\ phase' \in {"slice", "scan"}
  BY <1>6 DEF TypeOK, EndInstruction
<1>7. CASE Execute
  BY <1>6, <1>7 DEF TypeOK, Execute, treeVars, Running, Stopped
<1>8. CASE AsyncCall
  <2> DEFINE id == tasks_number + 1
  <2>1. id \in TaskId /\ id \in 0 .. MAX_TASKS
    BY <1>8 DEF TypeOK, AsyncCall, LimitReached, TaskId
  <2>2. Append(children[current], id) \in Seq(TaskId)
    BY <2>1, AppendProperties DEF TypeOK
  <2>3. children' \in [TaskId -> Seq(TaskId)] /\ parent' \in [TaskId -> TaskId \cup {NULL}]
    BY <1>8, <2>1, <2>2 DEF TypeOK, AsyncCall, AddChild
  <2>4. PICK a, h, next \in Address :
          /\ task' = [task EXCEPT ![id] =
                        [ip |-> a, active |-> FALSE, message_handler_address |-> h]]
          /\ EndInstruction(next)
    BY <1>8 DEF AsyncCall
  <2>5. task' \in [TaskId -> [ip : Address, active : BOOLEAN,
                              message_handler_address : Address]]
    BY <2>4 DEF TypeOK
  <2>6. phase = "slice" /\ frames' = frames /\ current' = current /\ seen' = seen
        /\ returns' = returns /\ tasks_number' = id /\ live' = live \cup {id}
    BY <1>8 DEF AsyncCall
  <2>7. /\ ip' \in Address
        /\ cycles' \in 0 .. CONTEXT_MAX_CYCLES
        /\ phase' = "slice" => cycles' > 0
        /\ phase' \in {"slice", "scan"}
    BY <1>6, <2>4, <2>6
  <2> HIDE DEF id
  <2> QED
    BY <2>1, <2>3, <2>5, <2>6, <2>7 DEF TypeOK, Running, Stopped
<1>9. CASE AsyncCallRefused
  BY <1>6, <1>9 DEF TypeOK, AsyncCallRefused, treeVars, Running, Stopped
<1>10. CASE AsyncReturn
  <2>1. children' \in [TaskId -> Seq(TaskId)]
    <3>1. current \in TaskId /\ RemoveChild(current)
      BY <1>10 DEF TypeOK, AsyncReturn
    <3>2. CASE parent[current] \in TaskId
      BY <3>1, <3>2, RemovedChild DEF TypeOK
    <3>3. CASE parent[current] = NULL
      BY <3>1, <3>3 DEF TypeOK, RemoveChild
    <3> QED
      BY <3>1, <3>2, <3>3 DEF TypeOK
  <2>2. live' \subseteq TaskId
    BY <1>10 DEF TypeOK, AsyncReturn, RemoveChild
  <2> QED
    BY <1>10, <2>1, <2>2 DEF TypeOK, AsyncReturn, Running, Stopped
<1>11. CASE AsyncReturnOfMain
  BY <1>11 DEF TypeOK, AsyncReturnOfMain, treeVars, Running, Stopped
<1>12. CASE Halt
  BY <1>12 DEF TypeOK, Halt, Exit, Running, Stopped
<1>13. CASE Fail
  BY <1>13 DEF TypeOK, Fail, Exit, Running, Stopped
<1>14. CASE UNCHANGED vars
  BY <1>14 DEF TypeOK, vars
<1>15. CASE Gone
  BY <1>15, <1>14 DEF Gone
<1> QED
  BY <1>1, <1>2, <1>3, <1>4, <1>5, <1>7, <1>8, <1>9, <1>10, <1>11, <1>12, <1>13,
     <1>14, <1>15 DEF Next

LEMMA TypeInit == Init => TypeOK
<1> SUFFICES ASSUME Init PROVE TypeOK
  OBVIOUS
<1>1. <<>> \in Seq(TaskId) /\ <<>> \in Seq(Frame)
  BY EmptySeq
<1> QED
  BY <1>1, SchedulerAssumption DEF Init, TypeOK, TaskId, Root, Running

(* Every state of the scheduler is well-typed: in particular the counter of  *)
(* tasks never passes MAX_TASKS and a slice never exceeds its budget.        *)
THEOREM TypeCorrect == Spec => []TypeOK
<1> QED
  BY TypeInit, TypeStep, PTL DEF Spec

-----------------------------------------------------------------------------
(* The tree and the walk on it: the inductive invariant. *)

(* Identifiers are handed out in order: nothing exists, or was given a slice, *)
(* beyond the last one, and no child list was written there.                  *)
Created ==
  /\ live \cup seen \subseteq 0 .. tasks_number
  /\ \A t \in TaskId : t > tasks_number => children[t] = <<>>

(* Going down the recursion identifiers increase, and a call that has just    *)
(* been made is for the child at its caller's loop index.                     *)
WalkDescends ==
  phase \in Running =>
    /\ \A k, l \in DOMAIN frames : k < l => frames[k].node < frames[l].node
    /\ phase = "enter" /\ Len(frames) > 1 =>
         LET caller == frames[Len(frames) - 1] IN
         /\ caller.i + 1 \in DOMAIN children[caller.node]
         /\ children[caller.node][caller.i + 1] = Top.node

(* How far a call's loop has come in the child list of its node: the innermost *)
(* call has finished with the first i children, the others are busy with one   *)
(* more.                                                                       *)
Progress(k) == IF k < Len(frames) THEN frames[k].i + 1 ELSE frames[k].i

(* What the walk has still to visit has had no slice in this round.           *)
UnseenAhead ==
  /\ \A p \in live \ seen : Range(children[p]) \cap seen = {}
  /\ phase \in Running =>
       \A k \in DOMAIN frames :
         /\ frames[k].node \in live =>
              \A j \in DOMAIN children[frames[k].node] :
                j > Progress(k) => children[frames[k].node][j] \notin seen
         /\ k < Len(frames) \/ phase # "enter" => frames[k].node \in seen

IInv ==
  /\ TypeOK /\ Created
  /\ TreeConsistent /\ WalkFollowsTree /\ WalkDescends
  /\ OneActiveTask /\ UnseenAhead /\ OneSliceARound

Shape == /\ Created /\ TreeConsistent /\ WalkFollowsTree /\ WalkDescends
         /\ OneActiveTask /\ UnseenAhead /\ OneSliceARound

(* Child lists and the call stack, element by element. *)
LEMMA Elements ==
  ASSUME TypeOK
  PROVE  /\ \A t \in TaskId :
              /\ Len(children[t]) \in Nat
              /\ DOMAIN children[t] = 1 .. Len(children[t])
              /\ \A j \in 1 .. Len(children[t]) : children[t][j] \in TaskId
         /\ Len(frames) \in Nat
         /\ DOMAIN frames = 1 .. Len(frames)
         /\ \A k \in 1 .. Len(frames) : frames[k].node \in TaskId /\ frames[k].i \in Nat
         /\ phase # "idle" => /\ Len(frames) >= 1
                             /\ Top.node \in TaskId /\ Top.i \in Nat
<1>1. ASSUME NEW t \in TaskId
      PROVE  /\ Len(children[t]) \in Nat
             /\ DOMAIN children[t] = 1 .. Len(children[t])
             /\ \A j \in 1 .. Len(children[t]) : children[t][j] \in TaskId
  <2>1. children[t] \in Seq(TaskId)
    BY DEF TypeOK
  <2> QED
    BY <2>1, LenProperties, ElementOfSeq
<1>2. frames \in Seq(Frame)
  BY DEF TypeOK
<1>3. Len(frames) \in Nat /\ DOMAIN frames = 1 .. Len(frames)
  BY <1>2, LenProperties
<1>4. \A k \in 1 .. Len(frames) : frames[k] \in Frame
  BY <1>2, ElementOfSeq
<1>5. \A k \in 1 .. Len(frames) : frames[k].node \in TaskId /\ frames[k].i \in Nat
  BY <1>4 DEF Frame
<1>6. ASSUME phase # "idle"
      PROVE  Len(frames) >= 1 /\ Top.node \in TaskId /\ Top.i \in Nat
  <2>1. frames # <<>>
    BY <1>6 DEF TypeOK
  <2>2. Len(frames) \in Nat \ {0} /\ Top \in Frame
    BY <1>2, <2>1, LastProperties DEF Top
  <2> QED
    BY <2>2 DEF Frame
<1> QED
  BY <1>1, <1>3, <1>5, <1>6

LEMMA ShapeInit == Init => Shape
<1> SUFFICES ASSUME Init PROVE Shape
  OBVIOUS
<1>1. \A t \in TaskId : children[t] = <<>> /\ DOMAIN children[t] = {} /\ Range(children[t]) = {}
  BY DEF Init, Range
<1>2. Root \in TaskId /\ TaskId \subseteq Nat
  BY SchedulerAssumption DEF TaskId, Root
<1>3. frames = <<>> /\ DOMAIN frames = {} /\ phase = "idle" /\ seen = {} /\ live = {Root}
      /\ tasks_number = 0 /\ current = Root /\ task[Root].active = FALSE
  BY <1>2 DEF Init
<1>4. Created
  BY <1>1, <1>3 DEF Created, Root
<1>5. TreeConsistent
  BY <1>1, <1>2, <1>3 DEF TreeConsistent
<1> QED
  BY <1>3, <1>4, <1>5 DEF Shape, WalkFollowsTree, WalkDescends, OneActiveTask, UnseenAhead,
     OneSliceARound

(* Steps that leave the tree and the walk alone, within the slice. *)
LEMMA ShapeSlice ==
  ASSUME IInv, UNCHANGED <<treeVars, task, current, frames, seen>>,
         phase = "slice", phase' \in {"slice", "scan"}
  PROVE  Shape'
<1> USE DEF IInv, Shape, treeVars
<1>1. Created'
  BY DEF Created
<1>2. TreeConsistent'
  BY DEF TreeConsistent
<1>3. WalkFollowsTree'
  BY DEF WalkFollowsTree, Running
<1>4. WalkDescends'
  BY DEF WalkDescends, Running
<1>5. OneActiveTask' /\ OneSliceARound'
  BY DEF OneActiveTask, OneSliceARound, Top
<1>6. UnseenAhead'
  BY DEF UnseenAhead, Progress, Running
<1> QED
  BY <1>1, <1>2, <1>3, <1>4, <1>5, <1>6

(* Steps after which nothing more is claimed of the walk. *)
LEMMA ShapeStopped ==
  ASSUME IInv, UNCHANGED <<tasks_number, parent, children, task, current, frames, seen>>,
         \/ live' = live /\ phase \in Running /\ phase' = "undefined"
         \/ live' = {} /\ phase' \in {"halted", "failed"}
  PROVE  Shape'
<1> USE DEF IInv, Shape
<1>1. Created'
  BY DEF Created
<1>2. TreeConsistent'
  <2>1. CASE live' = live /\ phase \in Running /\ phase' = "undefined"
    <3>1. Root \in live'
      BY <2>1 DEF TreeConsistent, Running
    <3> QED
      BY <2>1, <3>1 DEF TreeConsistent
  <2>2. CASE live' = {} /\ phase' \in {"halted", "failed"}
    BY <2>2 DEF TreeConsistent
  <2> QED
    BY <2>1, <2>2
<1>3. WalkFollowsTree' /\ WalkDescends'
  BY DEF WalkFollowsTree, WalkDescends, Running
<1>4. OneActiveTask' /\ OneSliceARound'
  BY DEF OneActiveTask, OneSliceARound
<1>5. UnseenAhead'
  BY DEF UnseenAhead, Running
<1> QED
  BY <1>1, <1>2, <1>3, <1>4, <1>5

LEMMA ShapeStartRound == IInv /\ StartRound => Shape'
<1> SUFFICES ASSUME IInv, StartRound PROVE Shape'
  OBVIOUS
<1> USE DEF IInv, Shape, treeVars
<1>1. /\ UNCHANGED <<tasks_number, live, parent, children, task, current>>
      /\ seen' = {} /\ phase' = "enter" /\ phase = "idle"
      /\ frames' = <<[node |-> Root, i |-> 0]>>
  BY DEF StartRound
<1>2. Len(frames') = 1 /\ DOMAIN frames' = {1} /\ frames'[1].node = Root /\ frames'[1].i = 0
  BY <1>1
<1>3. Created' /\ TreeConsistent'
  BY <1>1 DEF Created, TreeConsistent
<1>4. WalkFollowsTree'
  <2>1. Root \in live
    BY <1>1 DEF TreeConsistent
  <2> QED
    BY <1>1, <1>2, <2>1 DEF WalkFollowsTree
<1>5. WalkDescends'
  BY <1>1, <1>2 DEF WalkDescends
<1>6. OneActiveTask' /\ OneSliceARound'
  BY <1>1 DEF OneActiveTask, OneSliceARound
<1>7. UnseenAhead'
  BY <1>1, <1>2 DEF UnseenAhead
<1> QED
  BY <1>3, <1>4, <1>5, <1>6, <1>7

(* The switch to a task that has had no slice in this round.                  *)
LEMMA ShapeRunCycle == IInv /\ RunCycle => Shape'
<1> SUFFICES ASSUME IInv, RunCycle PROVE Shape'
  OBVIOUS
<1> USE DEF IInv, Shape
<1> DEFINE n == Top.node
           L == Len(frames)
<1>1. /\ UNCHANGED <<tasks_number, live, parent, children, frames>>
      /\ seen' = seen \cup {n} /\ current' = n
      /\ phase = "enter" /\ phase' = "slice"
      /\ task' = SwitchedTo(n)
  BY DEF RunCycle, treeVars
<1>2. /\ L \in Nat /\ L >= 1 /\ DOMAIN frames = 1 .. L
      /\ n \in TaskId /\ n = frames[L].node
      /\ \A k \in 1 .. L : frames[k].node \in TaskId /\ frames[k].i \in Nat
      /\ \A t \in TaskId : DOMAIN children[t] = 1 .. Len(children[t]) /\ Len(children[t]) \in Nat
  BY <1>1, Elements DEF Top
<1> HIDE DEF n, L
<1>3. n \in live /\ n \notin seen /\ live \subseteq TaskId
  <2>1. frames[L].node \in live
    <3>1. L \in 1 .. Len(frames) /\ phase \in {"enter", "slice"}
      BY <1>1, <1>2 DEF L
    <3>2. \A k \in 1 .. Len(frames) :
            k < Len(frames) \/ phase \in {"enter", "slice"} => frames[k].node \in live
      BY <1>1, <1>2 DEF WalkFollowsTree, Running, L
    <3> QED
      BY <3>1, <3>2
  <2>2. n \notin seen
    BY <1>1 DEF OneSliceARound, n
  <2>3. live \subseteq TaskId
    BY DEF TypeOK
  <2> QED
    BY <1>2, <2>1, <2>2, <2>3
<1>4. Created'
  BY <1>1, <1>3 DEF Created
<1>5. TreeConsistent'
  BY <1>1 DEF TreeConsistent
<1>6. WalkFollowsTree'
  BY <1>1 DEF WalkFollowsTree, Running
<1>7. WalkDescends'
  BY <1>1 DEF WalkDescends, Running
<1>8. OneActiveTask'
  <2>1. Top' = Top
    BY <1>1 DEF Top
  <2>2. \A t \in TaskId : task'[t].active <=> t = n \/ (t # current /\ task[t].active)
    <3> SUFFICES ASSUME NEW t \in TaskId
                 PROVE  task'[t].active <=> t = n \/ (t # current /\ task[t].active)
      OBVIOUS
    <3>1. task \in [TaskId -> [ip : Address, active : BOOLEAN, message_handler_address : Address]]
          /\ current \in TaskId
      BY DEF TypeOK
    <3>2. CASE t = n
      BY <1>1, <1>2, <3>1, <3>2 DEF SwitchedTo
    <3>3. CASE t # n /\ t = current
      BY <1>1, <1>2, <3>1, <3>3 DEF SwitchedTo
    <3>4. CASE t # n /\ t # current
      BY <1>1, <1>2, <3>1, <3>4 DEF SwitchedTo
    <3> QED
      BY <3>2, <3>3, <3>4
  <2>3. \A t \in live : task[t].active => t = current
    BY DEF OneActiveTask
  <2>4. \A t \in live' : task'[t].active => t = current'
    BY <1>1, <1>3, <2>2, <2>3
  <2>5. task'[n].active
    BY <1>2, <2>2
  <2> QED
    BY <1>1, <2>1, <2>4, <2>5 DEF OneActiveTask, n
<1>9. \A p \in live : n \in Range(children[p]) =>
         L > 1 /\ p = frames[L - 1].node /\ L - 1 \in 1 .. L /\ p \in seen
  <2> SUFFICES ASSUME NEW p \in live, n \in Range(children[p])
               PROVE  L > 1 /\ p = frames[L - 1].node /\ L - 1 \in 1 .. L /\ p \in seen
    OBVIOUS
  <2>1. n # Root /\ parent[n] = p
    BY DEF TreeConsistent
  <2>2. L # 1
    BY <1>1, <1>2, <2>1 DEF WalkFollowsTree, Running, L
  <2>3. L > 1 /\ L - 1 \in 1 .. L /\ L \in 1 .. L /\ L - 1 < L
    BY <1>2, <2>2
  <2>4. parent[frames[L].node] = frames[L - 1].node
    BY <1>1, <1>2, <2>3 DEF WalkFollowsTree, Running
  <2>5. frames[L - 1].node \in seen
    BY <1>1, <1>2, <2>3 DEF UnseenAhead, Running, L
  <2> QED
    BY <1>2, <2>1, <2>3, <2>4, <2>5
<1>10. UnseenAhead'
  <2>1. \A p \in live' \ seen' : Range(children'[p]) \cap seen' = {}
    BY <1>1, <1>9 DEF UnseenAhead
  <2>2. ASSUME NEW k \in 1 .. L, frames[k].node \in live,
               NEW j \in 1 .. Len(children[frames[k].node]), j > Progress(k)
        PROVE  children[frames[k].node][j] \notin seen \cup {n}
    <3> DEFINE s == children[frames[k].node]
    <3>1. frames[k].node \in TaskId /\ DOMAIN s = 1 .. Len(s)
      BY <1>2
    <3>2. s[j] \notin seen
      BY <1>1, <1>2, <2>2, <3>1 DEF UnseenAhead, Running
    <3>3. s[j] # n
      <4> SUFFICES ASSUME s[j] = n PROVE FALSE
        OBVIOUS
      <4>1. n \in Range(s)
        BY <3>1 DEF Range
      <4>2. L > 1 /\ L - 1 \in 1 .. L /\ frames[k].node = frames[L - 1].node
        BY <1>9, <2>2, <4>1
      <4>3. \A a, b \in 1 .. L : a < b => frames[a].node < frames[b].node
        BY <1>1, <1>2 DEF WalkDescends, Running
      <4>4. frames[k].node \in Nat /\ frames[L - 1].node \in Nat
        BY <1>2, <4>2, SchedulerAssumption DEF TaskId
      <4>5. k = L - 1
        BY <1>2, <4>2, <4>3, <4>4
      <4>6. frames[k].i + 1 \in 1 .. Len(s) /\ s[frames[k].i + 1] = n
        BY <1>1, <1>2, <3>1, <4>2, <4>5 DEF WalkDescends, Running, L, n
      <4>7. j > frames[k].i + 1 /\ frames[k].i \in Nat
        BY <1>2, <2>2, <4>2, <4>5 DEF Progress, L
      <4>8. s[frames[k].i + 1] < s[j]
        BY <2>2, <3>1, <4>6, <4>7 DEF TreeConsistent
      <4>9. n \in Nat
        BY <1>2, SchedulerAssumption DEF TaskId
      <4> QED
        BY <4>6, <4>8, <4>9
    <3> QED
      BY <3>2, <3>3
  <2>3. \A k \in 1 .. L : frames[k].node \in seen \cup {n}
    <3> SUFFICES ASSUME NEW k \in 1 .. L PROVE frames[k].node \in seen \cup {n}
      OBVIOUS
    <3>1. CASE k = L
      BY <1>2, <3>1
    <3>2. CASE k < L
      BY <1>1, <1>2, <3>2 DEF UnseenAhead, Running, L
    <3> QED
      BY <1>2, <3>1, <3>2
  <2>4. \A k \in 1 .. L : Progress(k)' = Progress(k)
    BY <1>1 DEF Progress
  <2> QED
    BY <1>1, <1>2, <2>1, <2>2, <2>3, <2>4 DEF UnseenAhead
<1>11. OneSliceARound'
  BY <1>1 DEF OneSliceARound
<1> QED
  BY <1>4, <1>5, <1>6, <1>7, <1>8, <1>10, <1>11

(* The call for a child: the next one of the innermost node's list.           *)
LEMMA ShapeDescend == IInv /\ Descend => Shape'
<1> SUFFICES ASSUME IInv, Descend PROVE Shape'
  OBVIOUS
<1> USE DEF IInv, Shape
<1> DEFINE n == Top.node
           L == Len(frames)
           c == children[n][Top.i + 1]
           r == [node |-> c, i |-> 0]
<1>1. /\ UNCHANGED <<tasks_number, live, parent, children, task, current, seen>>
      /\ phase = "scan" /\ phase' = "enter"
      /\ n \in live /\ Top.i < Len(children[n])
      /\ frames' = Append(frames, r)
  BY DEF Descend, MoreChildren, treeVars
<1>2. /\ L \in Nat /\ L >= 1 /\ DOMAIN frames = 1 .. L
      /\ n \in TaskId /\ n = frames[L].node /\ Top.i = frames[L].i /\ Top.i \in Nat
      /\ \A k \in 1 .. L : frames[k].node \in TaskId /\ frames[k].i \in Nat
      /\ \A t \in TaskId : /\ DOMAIN children[t] = 1 .. Len(children[t])
                            /\ Len(children[t]) \in Nat
                            /\ \A j \in 1 .. Len(children[t]) : children[t][j] \in TaskId
  BY <1>1, Elements DEF Top
<1>3. /\ Top.i + 1 \in DOMAIN children[n] /\ c \in TaskId
      /\ c \in Range(children[n])
  BY <1>1, <1>2 DEF Range
<1>4. c \in live \ {Root} /\ parent[c] = n /\ n < c
  BY <1>1, <1>3 DEF TreeConsistent
<1>5. r \in Frame /\ frames \in Seq(Frame) /\ r.node = c /\ r.i = 0
  BY <1>3 DEF Frame, TypeOK
<1>6. c \notin seen
  <2>1. Progress(L) = Top.i
    BY <1>2 DEF Progress, L
  <2>2. \A k \in DOMAIN frames : frames[k].node \in live =>
          \A j \in DOMAIN children[frames[k].node] :
            j > Progress(k) => children[frames[k].node][j] \notin seen
    BY <1>1 DEF UnseenAhead, Running
  <2>3. L \in DOMAIN frames /\ Top.i + 1 > Progress(L)
    BY <1>2, <2>1
  <2> HIDE DEF n, L
  <2> QED
    BY <1>1, <1>2, <1>3, <2>2, <2>3
<1> HIDE DEF n, L, c, r
<1>7. /\ Len(frames') = L + 1 /\ DOMAIN frames' = 1 .. L + 1
      /\ \A k \in 1 .. L : frames'[k] = frames[k]
      /\ frames'[L + 1] = r
  BY <1>1, <1>5, AppendProperties, LenProperties DEF L
<1>8. Top' = r /\ Len(frames') > 1 /\ Len(frames') - 1 = L /\ frames'[L] = frames[L]
  BY <1>2, <1>7 DEF Top
<1>9. Created' /\ TreeConsistent'
  BY <1>1 DEF Created, TreeConsistent
<1>10. OneActiveTask' /\ OneSliceARound'
  BY <1>1, <1>5, <1>6, <1>8 DEF OneActiveTask, OneSliceARound
<1>11. WalkFollowsTree'
  <2>1. ASSUME NEW k \in 1 .. L + 1
        PROVE  /\ k = 1 => frames'[k].node = Root
               /\ k > 1 => frames'[k].node # Root /\ parent[frames'[k].node] = frames'[k - 1].node
               /\ frames'[k].node \in live
    <3>1. CASE k = L + 1
      <4>1. k > 1 /\ k - 1 = L
        BY <1>2, <3>1
      <4> QED
        BY <1>2, <1>4, <1>5, <1>7, <1>8, <3>1, <4>1
    <3>2. CASE k # L + 1
      <4>1. k \in 1 .. L /\ frames'[k] = frames[k]
        BY <1>2, <1>7, <3>2
      <4>2. k > 1 => k - 1 \in 1 .. L /\ frames'[k - 1] = frames[k - 1]
        BY <1>2, <1>7, <4>1
      <4>3. /\ k = 1 => frames[k].node = Root
            /\ k > 1 => frames[k].node # Root /\ parent[frames[k].node] = frames[k - 1].node
            /\ k < L => frames[k].node \in live
        BY <1>1, <1>2, <4>1 DEF WalkFollowsTree, Running, L
      <4>4. frames[k].node \in live
        BY <1>1, <1>2, <4>1, <4>3
      <4> QED
        BY <4>1, <4>2, <4>3, <4>4
    <3> QED
      BY <3>1, <3>2
  <2> QED
    BY <1>1, <1>7, <2>1 DEF WalkFollowsTree
<1>12. WalkDescends'
  <2>1. ASSUME NEW k \in 1 .. L + 1, NEW l \in 1 .. L + 1, k < l
        PROVE  frames'[k].node < frames'[l].node
    <3>1. \A a, b \in 1 .. L : a < b => frames[a].node < frames[b].node
      BY <1>1, <1>2 DEF WalkDescends, Running
    <3>2. k \in 1 .. L /\ frames'[k] = frames[k]
      BY <1>2, <1>7, <2>1
    <3>3. CASE l \in 1 .. L
      BY <1>7, <2>1, <3>1, <3>2, <3>3
    <3>4. CASE l = L + 1
      <4>1. frames'[l].node = c /\ n < c
        BY <1>4, <1>5, <1>7, <3>4
      <4>2. k = L \/ frames[k].node < n
        BY <1>2, <3>1, <3>2
      <4>3. frames[k].node \in Nat /\ n \in Nat /\ c \in Nat
        BY <1>2, <1>3, <3>2, SchedulerAssumption DEF TaskId
      <4> QED
        BY <1>2, <3>2, <4>1, <4>2, <4>3
    <3> QED
      BY <1>2, <3>3, <3>4
  <2>2. /\ frames'[L].i + 1 \in DOMAIN children'[frames'[L].node]
        /\ children'[frames'[L].node][frames'[L].i + 1] = Top'.node
    BY <1>1, <1>2, <1>3, <1>5, <1>8 DEF c
  <2> QED
    BY <1>1, <1>7, <1>8, <2>1, <2>2 DEF WalkDescends
<1>13. UnseenAhead'
  <2>1. ASSUME NEW k \in 1 .. L + 1, frames'[k].node \in live,
               NEW j \in 1 .. Len(children[frames'[k].node]), j > Progress(k)'
        PROVE  children[frames'[k].node][j] \notin seen
    <3>1. CASE k = L + 1
      <4>1. frames'[k].node = c /\ c \in live \ seen /\ j \in DOMAIN children[c]
        BY <1>2, <1>3, <1>4, <1>5, <1>6, <1>7, <2>1, <3>1
      <4>2. children[c][j] \in Range(children[c])
        BY <4>1 DEF Range
      <4> QED
        BY <4>1, <4>2 DEF UnseenAhead
    <3>2. CASE k # L + 1
      <4>1. k \in 1 .. L /\ frames'[k] = frames[k]
        BY <1>2, <1>7, <3>2
      <4>2. j > frames[k].i + 1 /\ j \in Nat /\ frames[k].i \in Nat
        BY <1>2, <1>7, <2>1, <4>1 DEF Progress
      <4>3. j > Progress(k)
        BY <4>2 DEF Progress
      <4>4. j \in DOMAIN children[frames[k].node]
        BY <1>2, <2>1, <4>1
      <4> QED
        BY <1>1, <1>2, <2>1, <4>1, <4>3, <4>4 DEF UnseenAhead, Running
    <3> QED
      BY <3>1, <3>2
  <2>2. \A k \in 1 .. L : frames'[k].node \in seen
    BY <1>1, <1>2, <1>7 DEF UnseenAhead, Running
  <2>3. ASSUME NEW k \in 1 .. L + 1, frames'[k].node \in live
        PROVE  DOMAIN children'[frames'[k].node] = 1 .. Len(children[frames'[k].node])
               /\ children'[frames'[k].node] = children[frames'[k].node]
    BY <1>1, <1>2, <2>3 DEF TypeOK
  <2>4. \A p \in live' \ seen' : Range(children'[p]) \cap seen' = {}
    BY <1>1 DEF UnseenAhead
  <2>5. \A k \in 1 .. L + 1 : k < Len(frames') => k \in 1 .. L
    BY <1>2, <1>7
  <2>6. live' = live /\ seen' = seen /\ phase' = "enter"
    BY <1>1
  <2>7. ASSUME NEW k \in DOMAIN frames'
        PROVE  /\ frames'[k].node \in live' =>
                    \A j \in DOMAIN children'[frames'[k].node] :
                      j > Progress(k)' => children'[frames'[k].node][j] \notin seen'
               /\ k < Len(frames') \/ phase' # "enter" => frames'[k].node \in seen'
    <3>1. k \in 1 .. L + 1
      BY <1>7
    <3>2. k < Len(frames') => frames'[k].node \in seen
      BY <2>2, <2>5, <3>1
    <3> QED
      BY <2>1, <2>3, <2>6, <3>1, <3>2, Zenon
  <2> QED
    BY <2>4, <2>7, Zenon DEF UnseenAhead
<1> QED
  BY <1>9, <1>10, <1>11, <1>12, <1>13

(* The innermost call returns, and its caller's loop index moves on.          *)
LEMMA ShapeAscend == IInv /\ Ascend => Shape'
<1> SUFFICES ASSUME IInv, Ascend PROVE Shape'
  OBVIOUS
<1> USE DEF IInv, Shape
<1> DEFINE L == Len(frames)
<1>1. /\ UNCHANGED <<tasks_number, live, parent, children, task, current, seen>>
      /\ phase = "scan" /\ phase' \in {"scan", "idle"}
  BY DEF Ascend, treeVars
<1>2. Created' /\ TreeConsistent'
  BY <1>1 DEF Created, TreeConsistent
<1>3. OneActiveTask' /\ OneSliceARound'
  BY <1>1 DEF OneActiveTask, OneSliceARound
<1>4. \A p \in live' \ seen' : Range(children'[p]) \cap seen' = {}
  BY <1>1 DEF UnseenAhead
<1>5. CASE L = 1
  <2>1. frames' = <<>> /\ phase' = "idle"
    BY <1>5 DEF Ascend
  <2>2. DOMAIN frames' = {}
    BY <2>1
  <2> QED
    BY <1>1, <1>2, <1>3, <1>4, <2>1, <2>2 DEF WalkFollowsTree, WalkDescends, UnseenAhead
<1>6. CASE L # 1
  <2>1. frames' = CallerNextIndex /\ phase' = "scan"
    BY <1>6 DEF Ascend
  <2>2. frames \in Seq(Frame) /\ frames # <<>>
    BY <1>1 DEF TypeOK
  <2>3. /\ frames' \in Seq(Frame) /\ Len(frames') = L - 1
        /\ L \in Nat /\ L > 1
        /\ \A k \in 1 .. L - 1 :
             /\ frames'[k].node = frames[k].node
             /\ frames'[k].i = IF k = L - 1 THEN frames[k].i + 1 ELSE frames[k].i
    BY <1>6, <2>1, <2>2, CallerProperties
  <2>4. DOMAIN frames' = 1 .. L - 1 /\ DOMAIN frames = 1 .. L
    BY <2>2, <2>3, LenProperties
  <2>5. \A k \in 1 .. L : frames[k].i \in Nat /\ frames[k].node \in TaskId
    BY <2>4, Elements
  <2> HIDE DEF L
  <2>6. \A k \in 1 .. L - 1 : k \in 1 .. L /\ k < L /\ (k > 1 => k - 1 \in 1 .. L - 1)
    BY <2>3
  <2>7. \A k \in 1 .. L - 1 :
          /\ k = 1 => frames[k].node = Root
          /\ k > 1 => frames[k].node # Root /\ parent[frames[k].node] = frames[k - 1].node
          /\ frames[k].node \in live
          /\ frames[k].node \in seen
    BY <1>1, <2>3, <2>4, <2>6 DEF WalkFollowsTree, UnseenAhead, Running, L
  <2>8. WalkFollowsTree'
    <3> SUFFICES ASSUME NEW k \in 1 .. L - 1
                 PROVE  /\ k = 1 => frames'[k].node = Root
                        /\ k > 1 => /\ frames'[k].node # Root
                                    /\ parent[frames'[k].node] = frames'[k - 1].node
                        /\ frames'[k].node \in live
      BY <1>1, <2>4 DEF WalkFollowsTree
    <3>1. k > 1 => k - 1 \in 1 .. L - 1
      BY <2>6
    <3> QED
      BY <2>3, <2>7, <3>1
  <2>9. WalkDescends'
    <3>1. \A k, l \in 1 .. L : k < l => frames[k].node < frames[l].node
      BY <1>1, <2>4 DEF WalkDescends, Running
    <3>2. \A k, l \in 1 .. L - 1 : k < l => frames'[k].node < frames'[l].node
      BY <2>3, <2>6, <3>1
    <3> QED
      BY <2>1, <2>4, <3>2 DEF WalkDescends
  <2>10. UnseenAhead'
    <3>1. ASSUME NEW k \in 1 .. L - 1 PROVE Progress(k)' = Progress(k)
      <4>1. k \in 1 .. L /\ k < L /\ (k < L - 1 \/ k = L - 1)
        BY <2>3
      <4> QED
        BY <2>3, <2>5, <4>1 DEF Progress, L
    <3>2. \A k \in 1 .. L : frames[k].node \in live =>
            \A j \in DOMAIN children[frames[k].node] :
              j > Progress(k) => children[frames[k].node][j] \notin seen
      BY <1>1, <2>4 DEF UnseenAhead, Running
    <3>3. \A k \in 1 .. L - 1 : frames'[k].node \in live' =>
            \A j \in DOMAIN children'[frames'[k].node] :
              j > Progress(k)' => children'[frames'[k].node][j] \notin seen'
      BY <1>1, <2>3, <2>6, <3>1, <3>2
    <3>4. \A k \in 1 .. L - 1 : frames'[k].node \in seen'
      BY <1>1, <2>3, <2>7
    <3> QED
      BY <1>4, <2>4, <3>3, <3>4 DEF UnseenAhead
  <2> QED
    BY <1>2, <1>3, <2>8, <2>9, <2>10
<1> QED
  BY <1>5, <1>6

(* A new task, at the end of the list of the running one.                     *)
LEMMA ShapeAsyncCall == IInv /\ AsyncCall => Shape'
<1> SUFFICES ASSUME IInv, AsyncCall PROVE Shape'
  OBVIOUS
<1> USE DEF IInv, Shape
<1> DEFINE c == current
           id == tasks_number + 1
           s == children[c]
           L == Len(frames)
<1>1. /\ UNCHANGED <<current, frames, seen>>
      /\ tasks_number' = id /\ live' = live \cup {id}
      /\ children' = [children EXCEPT ![c] = Append(s, id)]
      /\ parent' = [parent EXCEPT ![id] = c]
      /\ phase = "slice" /\ phase' \in {"slice", "scan"}
  BY DEF AsyncCall, AddChild, EndInstruction
<1>2. PICK a, h \in Address :
        task' = [task EXCEPT ![id] = [ip |-> a, active |-> FALSE, message_handler_address |-> h]]
  BY DEF AsyncCall
<1>3. /\ tasks_number \in Nat /\ id \in TaskId /\ Root \in TaskId /\ TaskId \subseteq Nat
      /\ live \cup seen \subseteq 0 .. tasks_number
  <2>1. tasks_number \in 0 .. MAX_TASKS /\ tasks_number # MAX_TASKS /\ MAX_TASKS \in Nat
    BY SchedulerAssumption DEF TypeOK, AsyncCall, LimitReached
  <2>2. tasks_number \in Nat /\ id \in TaskId
    BY <2>1 DEF TaskId
  <2>3. Root \in TaskId /\ TaskId \subseteq Nat
    BY <2>1 DEF TaskId, Root
  <2> QED
    BY <2>2, <2>3 DEF Created
<1>4. id \notin live /\ id \notin seen /\ id # Root /\ \A t \in live \cup seen : t < id
  BY <1>3 DEF Root
<1>5. /\ L \in Nat /\ L >= 1 /\ DOMAIN frames = 1 .. L
      /\ c = frames[L].node /\ L \in 1 .. L
      /\ \A k \in 1 .. L : frames[k].node \in TaskId /\ frames[k].i \in Nat
      /\ \A t \in TaskId : /\ DOMAIN children[t] = 1 .. Len(children[t])
                            /\ Len(children[t]) \in Nat
                            /\ \A j \in 1 .. Len(children[t]) : children[t][j] \in TaskId
  BY <1>1, Elements DEF Top, OneActiveTask
<1>6. \A k \in 1 .. L : frames[k].node \in live /\ frames[k].node # id /\ frames[k].node \in seen
  BY <1>1, <1>4, <1>5 DEF WalkFollowsTree, UnseenAhead, Running
<1>7. c \in live /\ c \in TaskId /\ c # id /\ c < id /\ s \in Seq(TaskId)
  BY <1>3, <1>4, <1>5, <1>6 DEF TypeOK
<1> HIDE DEF c, id, s, L
<1>8. /\ Len(Append(s, id)) = Len(s) + 1
      /\ DOMAIN Append(s, id) = 1 .. Len(s) + 1
      /\ \A j \in 1 .. Len(s) : Append(s, id)[j] = s[j]
      /\ Append(s, id)[Len(s) + 1] = id
      /\ DOMAIN s = 1 .. Len(s) /\ Len(s) \in Nat
  BY <1>3, <1>7, AppendProperties, LenProperties
<1>9. /\ children'[c] = Append(s, id)
      /\ \A t \in TaskId : t # c => children'[t] = children[t]
      /\ parent'[id] = c
      /\ \A t \in TaskId : t # id => parent'[t] = parent[t]
      /\ task'[id].active = FALSE
      /\ \A t \in TaskId : t # id => task'[t] = task[t]
  BY <1>1, <1>2, <1>3, <1>7 DEF TypeOK
<1>10. Range(children'[c]) = Range(children[c]) \cup {id}
  <2>1. \A j \in 1 .. Len(s) + 1 : j = Len(s) + 1 \/ j \in 1 .. Len(s)
    BY <1>8
  <2>2. \A j \in 1 .. Len(s) : j \in 1 .. Len(s) + 1
    BY <1>8
  <2>3. Len(s) + 1 \in 1 .. Len(s) + 1
    BY <1>8
  <2> QED
    BY <1>8, <1>9, <2>1, <2>2, <2>3 DEF Range, s
<1>11. children[id] = <<>> /\ Range(children[id]) = {}
  <2>1. children[id] = <<>>
    BY <1>3 DEF Created, id
  <2> QED
    BY <2>1 DEF Range
<1>12. Created'
  <2>1. live' \cup seen' \subseteq 0 .. id
    BY <1>1, <1>3 DEF id
  <2>2. ASSUME NEW t \in TaskId, t > id PROVE children'[t] = <<>>
    <3>1. t > tasks_number /\ t # c
      BY <1>3, <1>7, <2>2 DEF id
    <3> QED
      BY <1>9, <3>1 DEF Created
  <2> QED
    BY <1>1, <2>1, <2>2 DEF Created
<1>13. live \subseteq TaskId
  BY DEF TypeOK
<1>14. TreeConsistent'
  <2>1. Root \in live'
    BY <1>1 DEF TreeConsistent
  <2>2. \A t \in live' \ {Root} : parent'[t] \in live' /\ parent'[t] < t
    BY <1>1, <1>7, <1>9, <1>13 DEF TreeConsistent
  <2>3. ASSUME NEW p \in live'
        PROVE  Range(children'[p]) = {t \in live' \ {Root} : parent'[t] = p}
    <3>1. CASE p = id
      <4>1. Range(children'[p]) = {}
        BY <1>3, <1>7, <1>9, <1>11, <3>1
      <4>2. \A t \in live' \ {Root} : parent'[t] # id
        <5> SUFFICES ASSUME NEW t \in live' \ {Root} PROVE parent'[t] # id
          OBVIOUS
        <5>1. CASE t = id
          BY <1>7, <1>9, <5>1
        <5>2. CASE t # id
          <6>1. t \in live \ {Root} /\ parent'[t] = parent[t] /\ parent[t] \in live
            BY <1>1, <1>9, <1>13, <5>2 DEF TreeConsistent
          <6> QED
            BY <1>4, <6>1
        <5> QED
          BY <5>1, <5>2
      <4> QED
        BY <3>1, <4>1, <4>2
    <3>2. CASE p # id
      <4>1. p \in live /\ p \in TaskId
        BY <1>1, <1>13, <3>2
      <4>2. Range(children[p]) = {t \in live \ {Root} : parent[t] = p}
        BY <4>1 DEF TreeConsistent
      <4>3. \A t \in live : parent'[t] = parent[t] /\ t # id
        BY <1>4, <1>9, <1>13
      <4>4. CASE p = c
        BY <1>1, <1>4, <1>9, <1>10, <4>2, <4>3, <4>4
      <4>5. CASE p # c
        BY <1>1, <1>4, <1>9, <4>1, <4>2, <4>3, <4>5
      <4> QED
        BY <4>4, <4>5
    <3> QED
      BY <3>1, <3>2
  <2>4. ASSUME NEW p \in live', NEW i \in DOMAIN children'[p], NEW j \in DOMAIN children'[p], i < j
        PROVE  children'[p][i] < children'[p][j]
    <3>1. CASE p = c
      <4>1. i \in 1 .. Len(s) + 1 /\ j \in 1 .. Len(s) + 1
        BY <1>8, <1>9, <2>4, <3>1
      <4>2. i \in 1 .. Len(s) /\ i \in DOMAIN children[c]
        BY <1>8, <2>4, <4>1 DEF s
      <4>3. CASE j = Len(s) + 1
        <5>1. s[i] \in Range(children[c])
          BY <4>2 DEF Range, s
        <5>2. s[i] \in live
          BY <1>7, <5>1 DEF TreeConsistent
        <5> QED
          BY <1>4, <1>8, <1>9, <3>1, <4>2, <4>3, <5>2
      <4>4. CASE j # Len(s) + 1
        <5>1. j \in 1 .. Len(s) /\ j \in DOMAIN children[c]
          BY <1>8, <4>1, <4>4 DEF s
        <5>2. s[i] < s[j]
          BY <1>7, <2>4, <4>2, <5>1 DEF TreeConsistent, s
        <5> QED
          BY <1>8, <1>9, <3>1, <4>2, <5>1, <5>2
      <4> QED
        BY <4>3, <4>4
    <3>2. CASE p # c
      <4>1. p \in TaskId /\ children'[p] = children[p]
        BY <1>1, <1>3, <1>9, <1>13, <3>2
      <4>2. p # id
        BY <1>11, <2>4, <4>1
      <4> QED
        BY <1>1, <2>4, <4>1, <4>2 DEF TreeConsistent
    <3> QED
      BY <3>1, <3>2
  <2> QED
    BY <2>1, <2>2, <2>3, <2>4 DEF TreeConsistent
<1>15. WalkFollowsTree'
  <2>1. \A k \in 1 .. L : parent'[frames[k].node] = parent[frames[k].node]
    BY <1>5, <1>6, <1>9
  <2>2. \A k \in 1 .. L : frames[k].node \in live'
    BY <1>1, <1>6
  <2>3. \A k \in 1 .. L :
          /\ k = 1 => frames[k].node = Root
          /\ k > 1 => frames[k].node # Root /\ parent[frames[k].node] = frames[k - 1].node
    BY <1>1, <1>5 DEF WalkFollowsTree, Running
  <2> QED
    BY <1>1, <1>5, <2>1, <2>2, <2>3 DEF WalkFollowsTree
<1>16. WalkDescends'
  BY <1>1 DEF WalkDescends, Running
<1>17. OneActiveTask'
  <2>1. \A t \in live : task[t].active => t = current
    BY DEF OneActiveTask
  <2>2. \A t \in live' : task'[t].active => t = current'
    BY <1>1, <1>9, <1>13, <2>1
  <2>3. current = Top.node /\ task[c].active /\ task'[c] = task[c]
    BY <1>1, <1>7, <1>9 DEF OneActiveTask, c
  <2> QED
    BY <1>1, <2>2, <2>3 DEF OneActiveTask, Top, c
<1>18. OneSliceARound'
  BY <1>1 DEF OneSliceARound
<1>19. UnseenAhead'
  <2>1. ASSUME NEW p \in live' \ seen' PROVE Range(children'[p]) \cap seen' = {}
    <3>1. p # c
      BY <1>1, <1>5, <1>6
    <3>2. children'[p] = children[p]
      BY <1>1, <1>3, <1>9, <1>13, <3>1
    <3> QED
      BY <1>1, <1>11, <3>2 DEF UnseenAhead
  <2>2. ASSUME NEW k \in 1 .. L, NEW j \in DOMAIN children'[frames[k].node], j > Progress(k)
        PROVE  children'[frames[k].node][j] \notin seen
    <3> DEFINE n == frames[k].node
    <3>1. n \in live /\ n \in TaskId
      BY <1>5, <1>6
    <3>2. \A i \in DOMAIN children[n] : i > Progress(k) => children[n][i] \notin seen
      BY <1>1, <1>5, <3>1 DEF UnseenAhead, Running
    <3>3. CASE n # c
      BY <1>9, <2>2, <3>1, <3>2, <3>3
    <3>4. CASE n = c
      <4>1. j \in 1 .. Len(s) + 1
        BY <1>8, <1>9, <2>2, <3>4
      <4>2. CASE j = Len(s) + 1
        BY <1>4, <1>8, <1>9, <3>4, <4>2
      <4>3. CASE j # Len(s) + 1
        <5>1. j \in 1 .. Len(s)
          BY <1>8, <4>1, <4>3
        <5> QED
          BY <1>8, <1>9, <2>2, <3>2, <3>4, <5>1 DEF s
      <4> QED
        BY <4>2, <4>3
    <3> QED
      BY <3>3, <3>4
  <2>3. \A k \in 1 .. L : Progress(k)' = Progress(k)
    BY <1>1 DEF Progress
  <2> QED
    <3>1. /\ frames' = frames /\ seen' = seen /\ DOMAIN frames = 1 .. L
          /\ \A k \in 1 .. L : frames[k].node \in seen
      BY <1>1, <1>5, <1>6
    <3>2. ASSUME NEW k \in DOMAIN frames'
          PROVE  /\ frames'[k].node \in live' =>
                      \A j \in DOMAIN children'[frames'[k].node] :
                        j > Progress(k)' => children'[frames'[k].node][j] \notin seen'
                 /\ k < Len(frames') \/ phase' # "enter" => frames'[k].node \in seen'
      BY <2>2, <2>3, <3>1, Zenon
    <3> QED
      BY <2>1, <3>2, Zenon DEF UnseenAhead
<1> QED
  BY <1>12, <1>14, <1>15, <1>16, <1>17, <1>18, <1>19

(* What task_tree_free frees: the node, nothing older than it, with a node     *)
(* all its children, and a node other than the first only with its parent.     *)
LEMMA SubtreeProperties ==
  ASSUME TypeOK, TreeConsistent, NEW c \in live \ {Root}
  PROVE  /\ c \in Subtree(c) /\ Subtree(c) \subseteq live
         /\ \A m \in Subtree(c) : m >= c
         /\ \A m \in live \ {Root} : parent[m] \in Subtree(c) => m \in Subtree(c)
         /\ \A m \in Subtree(c) : m # c => parent[m] \in Subtree(c)
<1> DEFINE D == Subtree(c)
<1>1. c \in D /\ D \subseteq live
  BY DEF Subtree
<1>2. live \subseteq Nat
  BY SchedulerAssumption DEF TypeOK, TaskId
<1>3. \A q \in live : \A t \in Range(children[q]) : t \in live \ {Root} /\ parent[t] = q /\ q < t
  BY DEF TreeConsistent
<1>4. \A m \in D : m >= c
  <2> DEFINE S == {m \in live : m >= c}
  <2>1. S \in SUBSET live /\ c \in S
    BY <1>2
  <2>2. ClosedUnderChildren(S)
    <3> SUFFICES ASSUME NEW q \in S, NEW t \in Range(children[q]) PROVE t \in S
      BY DEF ClosedUnderChildren
    <3>1. t \in live /\ q < t
      BY <1>3
    <3> QED
      BY <1>2, <3>1
  <2> QED
    BY <2>1, <2>2 DEF Subtree
<1>5. \A m \in live \ {Root} : parent[m] \in D => m \in D
  <2> SUFFICES ASSUME NEW m \in live \ {Root}, parent[m] \in D,
                      NEW S \in SUBSET live, c \in S, ClosedUnderChildren(S)
               PROVE  m \in S
    BY DEF Subtree
  <2>1. parent[m] \in S
    BY DEF Subtree
  <2>2. m \in Range(children[parent[m]])
    BY DEF TreeConsistent
  <2> QED
    BY <2>1, <2>2 DEF ClosedUnderChildren
<1>6. \A m \in D : m # c => parent[m] \in D
  <2> SUFFICES ASSUME NEW m \in D, m # c, parent[m] \notin D PROVE FALSE
    OBVIOUS
  <2> DEFINE S == D \ {m}
  <2>1. S \in SUBSET live /\ c \in S
    BY <1>1
  <2>2. ClosedUnderChildren(S)
    <3> SUFFICES ASSUME NEW q \in S, NEW t \in Range(children[q]) PROVE t \in S
      BY DEF ClosedUnderChildren
    <3>1. t \in live \ {Root} /\ parent[t] = q
      BY <1>1, <1>3
    <3>2. t \in D
      BY <1>5, <3>1
    <3> QED
      BY <3>1, <3>2
  <2>3. m \in S
    BY <2>1, <2>2 DEF Subtree
  <2> QED
    BY <2>3
<1> QED
  BY <1>1, <1>4, <1>5, <1>6

(* The running task ends under the loops of its ancestors.                    *)
LEMMA ShapeAsyncReturn == IInv /\ AsyncReturn => Shape'
<1> SUFFICES ASSUME IInv, AsyncReturn PROVE Shape'
  OBVIOUS
<1> USE DEF IInv, Shape
<1> DEFINE c == current
           p == parent[c]
           s == children[p]
           D == Subtree(c)
           L == Len(frames)
<1>1. /\ UNCHANGED <<tasks_number, parent, task, current, frames, seen>>
      /\ live' = live \ D
      /\ phase = "slice" /\ phase' = "scan"
      /\ c # Root /\ RemoveChild(c)
  BY DEF AsyncReturn, RemoveChild
<1>2. /\ L \in Nat /\ L >= 1 /\ DOMAIN frames = 1 .. L
      /\ c = frames[L].node /\ L \in 1 .. L
      /\ \A k \in 1 .. L : frames[k].node \in TaskId /\ frames[k].i \in Nat
      /\ \A t \in TaskId : /\ DOMAIN children[t] = 1 .. Len(children[t])
                            /\ Len(children[t]) \in Nat
                            /\ \A j \in 1 .. Len(children[t]) : children[t][j] \in TaskId
  BY <1>1, Elements DEF Top, OneActiveTask
<1>3. TaskId \subseteq Nat /\ live \subseteq TaskId /\ children \in [TaskId -> Seq(TaskId)]
  BY SchedulerAssumption DEF TypeOK, TaskId
<1>4. \A k \in 1 .. L : frames[k].node \in live /\ frames[k].node \in seen
  BY <1>1, <1>2 DEF WalkFollowsTree, UnseenAhead, Running
<1>5. c \in live \ {Root} /\ c \in TaskId
  BY <1>1, <1>2, <1>4
<1>6. p \in live /\ p \in TaskId /\ p < c
  BY <1>3, <1>5 DEF TreeConsistent
<1>7. /\ c \in D /\ D \subseteq live
      /\ \A m \in D : m >= c
      /\ \A m \in live \ {Root} : parent[m] \in D => m \in D
      /\ \A m \in D : m # c => parent[m] \in D
  BY <1>5, SubtreeProperties
<1> HIDE DEF c, p, s, D, L
<1> DEFINE m == Len(s)
<1>8. PICK i \in 1 .. m :
        /\ s[i] = c
        /\ Len(children'[p]) = m - 1
        /\ \A j \in 1 .. m - 1 :
             children'[p][j] = IF j < i THEN s[j] ELSE s[j + 1]
  BY <1>1, <1>3, <1>5, <1>6, RemovedChild DEF p, s
<1>9. children' \in [TaskId -> Seq(TaskId)] /\ \A t \in TaskId : t # p => children'[t] = children[t]
  BY <1>1, <1>3, <1>5, <1>6, RemovedChild DEF p
<1>10. DOMAIN s = 1 .. m /\ m \in Nat /\ \A a, b \in 1 .. m : a < b => s[a] < s[b]
  BY <1>2, <1>6 DEF TreeConsistent, s
<1> HIDE DEF m
<1>11. DOMAIN children'[p] = 1 .. m - 1
  <2>1. children'[p] \in Seq(TaskId)
    BY <1>6, <1>9
  <2> QED
    BY <1>8, <2>1, LenProperties
<1>12. \A j \in 1 .. m - 1 : j \in 1 .. m /\ j + 1 \in 1 .. m
  BY <1>10
(* New positions in the parent's list, and the old ones they come from.       *)
<1> DEFINE old(j) == IF j < i THEN j ELSE j + 1
<1>13. \A j \in 1 .. m - 1 : /\ old(j) \in 1 .. m /\ old(j) >= j /\ old(j) # i
                                  /\ children'[p][j] = s[old(j)]
  BY <1>8, <1>10, <1>12
<1>14. \A a, b \in 1 .. m - 1 : a < b => old(a) < old(b)
  BY <1>8, <1>10
<1>15. \A b \in 1 .. m : b # i => \E j \in 1 .. m - 1 : old(j) = b
  <2> SUFFICES ASSUME NEW b \in 1 .. m, b # i
               PROVE  \E j \in 1 .. m - 1 : old(j) = b
    OBVIOUS
  <2>1. CASE b < i
    <3>1. b \in 1 .. m - 1 /\ old(b) = b
      BY <1>8, <1>10, <2>1
    <3> QED
      BY <3>1
  <2>2. CASE ~(b < i)
    <3>1. b - 1 \in 1 .. m - 1 /\ ~(b - 1 < i) /\ (b - 1) + 1 = b
      BY <1>8, <1>10, <2>2
    <3>2. old(b - 1) = b
      BY <3>1
    <3> QED
      BY <3>1, <3>2
  <2> QED
    BY <2>1, <2>2
<1> HIDE DEF old
<1>16. Range(children'[p]) = Range(s) \ {c}
  <2>1. \A x \in Range(children'[p]) : x \in Range(s) \ {c}
    <3> SUFFICES ASSUME NEW j \in 1 .. m - 1
                 PROVE  children'[p][j] \in Range(s) /\ children'[p][j] # c
      BY <1>11 DEF Range
    <3>1. children'[p][j] = s[old(j)] /\ old(j) \in 1 .. m /\ old(j) # i
      BY <1>13
    <3>2. s[old(j)] # s[i]
      <4>1. s[old(j)] \in Nat /\ s[i] \in Nat
        <5>1. \A b \in 1 .. m : s[b] \in TaskId
          BY <1>2, <1>6 DEF s, m
        <5> QED
          BY <1>3, <1>8, <3>1, <5>1
      <4>2. old(j) < i \/ i < old(j)
        BY <1>8, <1>10, <3>1
      <4> QED
        BY <1>8, <1>10, <3>1, <4>1, <4>2
    <3> QED
      BY <1>8, <1>10, <3>1, <3>2 DEF Range
  <2>2. \A x \in Range(s) \ {c} : x \in Range(children'[p])
    <3> SUFFICES ASSUME NEW b \in 1 .. m, s[b] # c PROVE s[b] \in Range(children'[p])
      BY <1>10 DEF Range
    <3>1. PICK j \in 1 .. m - 1 : old(j) = b
      BY <1>8, <1>15
    <3>2. children'[p][j] = s[b]
      BY <1>13, <3>1
    <3> QED
      BY <1>11, <3>2 DEF Range
  <2> QED
    BY <2>1, <2>2
<1>17. Created'
  <2>1. \A t \in TaskId : t > tasks_number => t # p
    <3>1. tasks_number \in Nat /\ p \in 0 .. tasks_number
      BY <1>6 DEF TypeOK, Created
    <3> QED
      BY <1>3, <3>1
  <2> QED
    BY <1>1, <1>7, <1>9, <2>1 DEF Created
<1>18. TreeConsistent'
  <2>1. Root \in live'
    <3>1. Root \in live /\ Root < c
      BY <1>1, <1>3, <1>5 DEF TreeConsistent, Root
    <3>2. Root \notin D
      BY <1>3, <1>5, <1>7, <3>1 DEF Root
    <3> QED
      BY <1>1, <3>1, <3>2
  <2>2. \A t \in live' \ {Root} : parent'[t] \in live' /\ parent'[t] < t
    BY <1>1, <1>7 DEF TreeConsistent
  <2>3. ASSUME NEW q \in live'
        PROVE  Range(children'[q]) = {t \in live' \ {Root} : parent'[t] = q}
    <3>1. q \in live /\ q \notin D /\ q \in TaskId
      BY <1>1, <1>3
    <3>2. Range(children[q]) = {t \in live \ {Root} : parent[t] = q}
      BY <3>1 DEF TreeConsistent
    <3>3. \A t \in live \ {Root} : parent[t] = q /\ t \in D => t = c
      BY <1>7, <3>1
    <3>4. CASE q = p
      BY <1>1, <1>7, <1>16, <3>2, <3>3, <3>4 DEF s
    <3>5. CASE q # p
      BY <1>1, <1>7, <1>9, <3>1, <3>2, <3>3, <3>5 DEF p
    <3> QED
      BY <3>4, <3>5
  <2>4. ASSUME NEW q \in live', NEW a \in DOMAIN children'[q], NEW b \in DOMAIN children'[q], a < b
        PROVE  children'[q][a] < children'[q][b]
    <3>1. q \in live /\ q \in TaskId
      BY <1>1, <1>3
    <3>2. CASE q = p
      BY <1>10, <1>11, <1>13, <1>14, <2>4, <3>2
    <3>3. CASE q # p
      BY <1>9, <2>4, <3>1, <3>3 DEF TreeConsistent
    <3> QED
      BY <3>2, <3>3
  <2> QED
    BY <2>1, <2>2, <2>3, <2>4 DEF TreeConsistent
<1>19. WalkFollowsTree'
  <2>1. ASSUME NEW k \in 1 .. L, k < L PROVE frames[k].node \in live'
    <3>1. frames[k].node < c
      BY <1>1, <1>2, <2>1 DEF WalkDescends, Running
    <3> DEFINE n == frames[k].node
    <3>2. n \in Nat /\ c \in Nat
      BY <1>2, <1>3, <1>5
    <3> HIDE DEF n
    <3>3. n \notin D
      BY <1>7, <3>1, <3>2 DEF n
    <3> QED
      BY <1>1, <1>4, <3>3 DEF n
  <2>2. \A k \in 1 .. L :
          /\ k = 1 => frames[k].node = Root
          /\ k > 1 => frames[k].node # Root /\ parent[frames[k].node] = frames[k - 1].node
    BY <1>1, <1>2 DEF WalkFollowsTree, Running
  <2> QED
    BY <1>1, <1>2, <2>1, <2>2 DEF WalkFollowsTree, L
<1>20. WalkDescends'
  BY <1>1 DEF WalkDescends, Running
<1>21. OneActiveTask'
  BY <1>1 DEF OneActiveTask
<1>22. OneSliceARound'
  BY <1>1 DEF OneSliceARound
<1>23. UnseenAhead'
  <2>1. ASSUME NEW q \in live' \ seen' PROVE Range(children'[q]) \cap seen' = {}
    <3>1. q \in live \ seen /\ q \in TaskId
      BY <1>1, <1>3
    <3>2. Range(children[q]) \cap seen = {}
      BY <3>1 DEF UnseenAhead
    <3> QED
      BY <1>1, <1>9, <1>16, <3>1, <3>2 DEF s
  <2>2. ASSUME NEW k \in 1 .. L, frames[k].node \in live',
               NEW j \in DOMAIN children'[frames[k].node], j > Progress(k)
        PROVE  children'[frames[k].node][j] \notin seen
    <3> DEFINE n == frames[k].node
    <3>1. n \in TaskId /\ \A b \in DOMAIN children[n] : b > Progress(k) => children[n][b] \notin seen
      BY <1>1, <1>2, <1>4 DEF UnseenAhead, Running
    <3>2. CASE n # p
      BY <1>9, <2>2, <3>1, <3>2
    <3>3. CASE n = p
      <4>1. j \in 1 .. m - 1
        BY <1>11, <2>2, <3>3
      <4>2. children'[n][j] = s[old(j)] /\ old(j) \in DOMAIN children[n] /\ old(j) >= j
        BY <1>10, <1>13, <3>3, <4>1 DEF s
      <4>3. old(j) > Progress(k)
        <5>1. Progress(k) \in Nat /\ j \in Nat /\ old(j) \in Nat
          BY <1>2, <1>10, <4>1, <4>2, <1>13 DEF Progress
        <5> QED
          BY <2>2, <4>2, <5>1
      <4> QED
        BY <3>1, <3>3, <4>2, <4>3 DEF s
    <3> QED
      BY <3>2, <3>3
  <2>3. \A k \in 1 .. L : Progress(k)' = Progress(k)
    BY <1>1 DEF Progress
  <2> QED
    BY <1>1, <1>2, <1>4, <2>1, <2>2, <2>3 DEF UnseenAhead
<1> QED
  BY <1>17, <1>18, <1>19, <1>20, <1>21, <1>22, <1>23

LEMMA InvariantStep == IInv /\ [Next]_vars => IInv'
<1> SUFFICES ASSUME IInv, [Next]_vars PROVE IInv'
  OBVIOUS
<1>1. TypeOK'
  BY TypeStep DEF IInv
<1>2. Shape'
  <2>1. CASE StartRound
    BY <2>1, ShapeStartRound
  <2>2. CASE RunCycle
    BY <2>2, ShapeRunCycle
  <2>3. CASE Descend
    BY <2>3, ShapeDescend
  <2>4. CASE Ascend
    BY <2>4, ShapeAscend
  <2>5. CASE ReadFreedChildren
    BY <2>5, ShapeStopped DEF ReadFreedChildren, treeVars, Running
  <2>6. CASE Execute
    BY <2>6, ShapeSlice DEF Execute, EndInstruction, treeVars
  <2>7. CASE AsyncCall
    BY <2>7, ShapeAsyncCall
  <2>8. CASE AsyncCallRefused
    BY <2>8, ShapeSlice DEF AsyncCallRefused, EndInstruction, treeVars
  <2>9. CASE AsyncReturn
    BY <2>9, ShapeAsyncReturn
  <2>10. CASE AsyncReturnOfMain
    BY <2>10, ShapeStopped DEF AsyncReturnOfMain, treeVars, Running
  <2>11. CASE Halt
    BY <2>11, ShapeStopped DEF Halt, Exit
  <2>12. CASE Fail
    BY <2>12, ShapeStopped DEF Fail, Exit
  <2>13. CASE UNCHANGED vars
    <3>1. UNCHANGED <<tasks_number, live, parent, children, task, current, frames, phase, seen>>
      BY <2>13 DEF vars
    <3>2. Top' = Top
      BY <3>1 DEF Top
    <3> QED
      BY <3>1, <3>2 DEF IInv, Shape, Created, TreeConsistent, WalkFollowsTree, WalkDescends,
         OneActiveTask, UnseenAhead, OneSliceARound, Progress
  <2>14. CASE Gone
    BY <2>13, <2>14 DEF Gone
  <2> QED
    BY <2>1, <2>2, <2>3, <2>4, <2>5, <2>6, <2>7, <2>8, <2>9, <2>10, <2>11, <2>12,
       <2>13, <2>14 DEF Next
<1> QED
  BY <1>1, <1>2 DEF IInv, Shape

LEMMA Invariant == Spec => []IInv
<1>1. Init => IInv
  BY TypeInit, ShapeInit DEF IInv, Shape
<1> QED
  BY <1>1, InvariantStep, PTL DEF Spec

(* The links of the task tree always agree, whatever tasks create and end.   *)
THEOREM TreeStaysConsistent == Spec => []TreeConsistent
<1>1. IInv => TreeConsistent
  BY DEF IInv
<1> QED
  BY <1>1, Invariant, PTL

(* The recursive traversal always stands on a path of allocated nodes, of    *)
(* which only the innermost can have been freed, by its own task.            *)
THEOREM WalkStaysOnTree == Spec => []WalkFollowsTree
<1>1. IInv => WalkFollowsTree
  BY DEF IInv
<1> QED
  BY <1>1, Invariant, PTL

(* One task is active at a time, and it is the one being executed.           *)
THEOREM OneTaskIsActive == Spec => []OneActiveTask
<1>1. IInv => OneActiveTask
  BY DEF IInv
<1> QED
  BY <1>1, Invariant, PTL

(* In one traversal no task is given two slices.                             *)
THEOREM NoSecondSlice == Spec => []OneSliceARound
<1>1. IInv => OneSliceARound
  BY DEF IInv
<1> QED
  BY <1>1, Invariant, PTL

-----------------------------------------------------------------------------
(* Skipped subtrees: every one is the work of an ASYNC_RETURN of the round.  *)

Walking == {"enter", "slice", "scan"}

(* The walk is on its way to t: a call for t's parent has t ahead of it.     *)
Ahead(t) ==
  \E k \in DOMAIN frames :
    /\ frames[k].node = parent[t]
    /\ \E j \in DOMAIN children[parent[t]] :
         j > Progress(k) /\ children[parent[t]][j] = t

(* What the walk has passed over: the task had no slice, its parent had one, *)
(* and the walk is neither on its way there nor there.                       *)
Missed ==
  {t \in live \ seen : /\ t # Root /\ parent[t] \in seen
                       /\ ~Ahead(t)
                       /\ ~(phase = "enter" /\ t = Top.node)}

Counted ==
  phase \in Walking =>
    /\ phase \in {"enter", "slice"} => Top.i = 0
    /\ Cardinality(Missed) <= returns

LEMMA MissedFinite == TypeOK => IsFiniteSet(Missed) /\ Cardinality(Missed) \in Nat
<1> SUFFICES ASSUME TypeOK PROVE IsFiniteSet(Missed) /\ Cardinality(Missed) \in Nat
  OBVIOUS
<1>1. IsFiniteSet(TaskId)
  BY SchedulerAssumption, FS_Interval DEF TaskId
<1>2. Missed \subseteq TaskId
  BY DEF Missed, TypeOK
<1> QED
  BY <1>1, <1>2, FS_Subset, FS_CardinalityType

(* A step at which nothing more is missed. *)
LEMMA NoMoreMissed ==
  ASSUME TypeOK, Cardinality(Missed) <= returns, returns' = returns,
         \A t \in Missed' : t \in Missed
  PROVE  Cardinality(Missed') <= returns'
<1>1. Cardinality(Missed') <= Cardinality(Missed) /\ IsFiniteSet(Missed')
  BY MissedFinite, FS_Subset
<1>2. Cardinality(Missed') \in Nat /\ Cardinality(Missed) \in Nat /\ returns \in Nat
  BY <1>1, MissedFinite, FS_CardinalityType DEF TypeOK
<1> QED
  BY <1>1, <1>2

LEMMA CountedRunCycle == IInv /\ Counted /\ RunCycle => Counted'
<1> SUFFICES ASSUME IInv, Counted, RunCycle PROVE Counted'
  OBVIOUS
<1> DEFINE n == Top.node
           L == Len(frames)
<1>1. /\ UNCHANGED <<live, parent, children, frames, returns>>
      /\ phase = "enter" /\ phase' = "slice" /\ seen' = seen \cup {n}
  BY DEF RunCycle, treeVars
<1>2. Top.i = 0 /\ Cardinality(Missed) <= returns
  BY <1>1 DEF Counted, Walking
<1>3. /\ L \in 1 .. L /\ DOMAIN frames = 1 .. L /\ n \in TaskId
      /\ \A t \in TaskId : DOMAIN children[t] = 1 .. Len(children[t])
  BY <1>1, Elements DEF IInv
<1>4. Progress(L) = 0 /\ \A k \in DOMAIN frames : Progress(k)' = Progress(k)
  BY <1>1, <1>2 DEF Progress, Top
<1>5. ASSUME NEW t \in Missed'
      PROVE  t \in Missed
  <2>1. /\ t \in live /\ t \notin seen /\ t # n /\ t # Root
        /\ parent[t] = n \/ parent[t] \in seen
        /\ ~Ahead(t)'
    BY <1>1, <1>5 DEF Missed
  <2>2. ~Ahead(t)
    BY <1>1, <1>4, <2>1 DEF Ahead
  <2>3. parent[t] # n
    <3> SUFFICES ASSUME parent[t] = n PROVE Ahead(t)
      BY <2>2
    <3>1. n \in live /\ t \in Range(children[n])
      BY <2>1 DEF IInv, TreeConsistent
    <3>2. PICK j \in DOMAIN children[n] : children[n][j] = t
      BY <3>1 DEF Range
    <3>3. j > 0
      BY <1>3, <3>2
    <3> QED
      BY <1>3, <1>4, <3>2, <3>3 DEF Ahead, Top
  <2> QED
    BY <2>1, <2>2, <2>3 DEF Missed
<1>6. Cardinality(Missed') <= returns'
  BY <1>1, <1>2, <1>5, NoMoreMissed DEF IInv
<1>7. Top'.i = 0
  BY <1>1, <1>2 DEF Top
<1> QED
  BY <1>6, <1>7 DEF Counted

LEMMA CountedDescend == IInv /\ Counted /\ Descend => Counted'
<1> SUFFICES ASSUME IInv, Counted, Descend PROVE Counted'
  OBVIOUS
<1> DEFINE n == Top.node
           L == Len(frames)
           c == children[n][Top.i + 1]
           r == [node |-> c, i |-> 0]
<1>1. /\ UNCHANGED <<live, parent, children, seen, returns>>
      /\ phase = "scan" /\ phase' = "enter" /\ MoreChildren
      /\ frames' = Append(frames, r)
  BY DEF Descend, treeVars
<1>2. Cardinality(Missed) <= returns
  BY <1>1 DEF Counted, Walking
<1>3. /\ L \in Nat \ {0} /\ L \in 1 .. L /\ DOMAIN frames = 1 .. L
      /\ n \in TaskId /\ Top.i \in Nat
      /\ \A t \in TaskId : DOMAIN children[t] = 1 .. Len(children[t])
                           /\ \A j \in 1 .. Len(children[t]) : children[t][j] \in TaskId
      /\ \A k \in 1 .. L : frames[k].i \in Nat
      /\ Len(children[n]) \in Nat
  BY <1>1, Elements DEF IInv
<1>4. c \in TaskId
  <2>1. Top.i + 1 \in 1 .. Len(children[n])
    BY <1>1, <1>3 DEF MoreChildren
  <2> QED
    BY <1>3, <2>1
<1>5. /\ Len(frames') = L + 1 /\ DOMAIN frames' = 1 .. L + 1
      /\ \A k \in 1 .. L : frames'[k] = frames[k]
      /\ frames'[L + 1] = r
  <2>1. frames \in Seq(Frame) /\ r \in Frame
    BY <1>4 DEF IInv, TypeOK, Frame
  <2> HIDE DEF r
  <2>2. Append(frames, r) \in Seq(Frame) /\ Len(Append(frames, r)) = L + 1
    BY <2>1, AppendProperties
  <2> QED
    BY <1>1, <2>1, <2>2, AppendProperties, LenProperties
<1>6. Top'.node = c /\ Top'.i = 0
  BY <1>5 DEF Top
<1> HIDE DEF L, c, r
<1>7. ASSUME NEW k \in 1 .. L
      PROVE  /\ k = L => Progress(k) = Top.i /\ Progress(k)' = Top.i + 1 /\ frames[k].node = n
             /\ k # L => Progress(k)' = Progress(k)
  <2>1. CASE k = L
    <3>1. k < L + 1 /\ frames'[k].i = Top.i /\ Len(frames') = L + 1
      BY <1>3, <1>5, <2>1 DEF Top, L
    <3>2. Progress(k)' = Top.i + 1
      BY <3>1 DEF Progress
    <3> QED
      BY <1>3, <2>1, <3>2 DEF Progress, Top, L
  <2>2. CASE k # L
    <3>1. k < L /\ k < L + 1 /\ frames'[k] = frames[k] /\ Len(frames') = L + 1
      BY <1>3, <1>5, <2>2
    <3> QED
      BY <2>2, <3>1 DEF Progress, L
  <2> QED
    BY <2>1, <2>2
<1>8. ASSUME NEW t \in Missed'
      PROVE  t \in Missed
  <2>1. /\ t \in live /\ t \notin seen /\ t # Root /\ parent[t] \in seen
        /\ ~Ahead(t)' /\ t # c
    BY <1>1, <1>6, <1>8 DEF Missed
  <2>2. ~Ahead(t)
    <3> SUFFICES ASSUME Ahead(t) PROVE Ahead(t)'
      BY <2>1
    <3>1. PICK k \in DOMAIN frames :
            /\ frames[k].node = parent[t]
            /\ \E j \in DOMAIN children[parent[t]] :
                 j > Progress(k) /\ children[parent[t]][j] = t
      BY DEF Ahead
    <3>2. PICK j \in DOMAIN children[parent[t]] :
            j > Progress(k) /\ children[parent[t]][j] = t
      BY <3>1
    <3>3. k \in DOMAIN frames' /\ frames'[k].node = parent'[t] /\ k \in 1 .. L
      BY <1>1, <1>3, <1>5, <3>1
    <3>4. j > Progress(k)'
      <4>1. CASE k # L
        BY <1>7, <3>2, <3>3, <4>1
      <4>2. CASE k = L
        <5>4. Progress(k) = Top.i /\ Progress(k)' = Top.i + 1 /\ frames[k].node = n
          BY <1>7, <3>3, <4>2
        <5>1. parent[t] = n /\ j > Top.i /\ j \in 1 .. Len(children[n])
          BY <1>3, <3>1, <3>2, <5>4
        <5>2. j # Top.i + 1
          BY <2>1, <3>2, <5>1 DEF c
        <5>3. j > Top.i + 1
          BY <1>3, <5>1, <5>2
        <5> QED
          BY <5>3, <5>4
      <4> QED
        BY <4>1, <4>2
    <3> QED
      BY <1>1, <3>2, <3>3, <3>4 DEF Ahead
  <2> QED
    BY <1>1, <2>1, <2>2 DEF Missed
<1>9. Cardinality(Missed') <= returns'
  BY <1>1, <1>2, <1>8, NoMoreMissed DEF IInv
<1> QED
  BY <1>6, <1>9 DEF Counted

LEMMA CountedAscend == IInv /\ Counted /\ Ascend => Counted'
<1> SUFFICES ASSUME IInv, Counted, Ascend, Len(frames) # 1 PROVE Counted'
  BY DEF Ascend, Counted, Walking
<1> DEFINE n == Top.node
           L == Len(frames)
<1>1. /\ UNCHANGED <<live, parent, children, seen, returns>>
      /\ phase = "scan" /\ phase' = "scan" /\ ~MoreChildren
      /\ frames' = CallerNextIndex
  BY DEF Ascend, treeVars
<1>2. Cardinality(Missed) <= returns
  BY <1>1 DEF Counted, Walking
<1>3. /\ L \in Nat \ {0} /\ L \in 1 .. L /\ DOMAIN frames = 1 .. L
      /\ n \in TaskId /\ Top.i \in Nat /\ Len(children[n]) \in Nat
      /\ DOMAIN children[n] = 1 .. Len(children[n])
  BY <1>1, Elements DEF IInv
<1>4. /\ frames' \in Seq(Frame) /\ Len(frames') = L - 1 /\ L > 1
      /\ \A k \in 1 .. L - 1 :
           /\ frames'[k].node = frames[k].node
           /\ frames'[k].i = IF k = L - 1 THEN frames[k].i + 1 ELSE frames[k].i
  <2>1. frames \in Seq(Frame) /\ frames # <<>>
    BY <1>1 DEF IInv, TypeOK
  <2> QED
    BY <1>1, <2>1, CallerProperties
<1>5. DOMAIN frames' = 1 .. L - 1
  BY <1>4, LenProperties
<1> HIDE DEF L
<1>6. /\ \A k \in 1 .. L - 1 : Progress(k)' = Progress(k)
      /\ Progress(L) = Top.i /\ frames[L].node = n
  <2>1. Progress(L) = Top.i /\ frames[L].node = n
    BY <1>3 DEF Progress, Top, L
  <2>2. ASSUME NEW k \in 1 .. L - 1
        PROVE  Progress(k)' = Progress(k)
    <3>1. k < L /\ Progress(k) = frames[k].i + 1
      BY <1>3 DEF Progress, L
    <3>2. Progress(k)' = IF k < L - 1 THEN frames'[k].i + 1 ELSE frames'[k].i
      BY <1>4 DEF Progress
    <3>3. CASE k = L - 1
      BY <1>3, <1>4, <3>1, <3>2, <3>3
    <3>4. CASE k # L - 1
      <4>1. k < L - 1
        BY <1>3, <3>4
      <4> QED
        BY <1>4, <3>1, <3>2, <3>4, <4>1
    <3> QED
      BY <3>3, <3>4
  <2> QED
    BY <2>1, <2>2
<1>7. ASSUME NEW t \in Missed'
      PROVE  t \in Missed
  <2>1. /\ t \in live /\ t \notin seen /\ t # Root /\ parent[t] \in seen
        /\ ~Ahead(t)'
    BY <1>1, <1>7 DEF Missed
  <2>2. ~Ahead(t)
    <3> SUFFICES ASSUME Ahead(t) PROVE Ahead(t)'
      BY <2>1
    <3>1. PICK k \in DOMAIN frames :
            /\ frames[k].node = parent[t]
            /\ \E j \in DOMAIN children[parent[t]] :
                 j > Progress(k) /\ children[parent[t]][j] = t
      BY DEF Ahead
    <3>2. PICK j \in DOMAIN children[parent[t]] :
            j > Progress(k) /\ children[parent[t]][j] = t
      BY <3>1
    <3>3. k # L
      <4> SUFFICES ASSUME k = L PROVE FALSE
        OBVIOUS
      <4>1. parent[t] = n /\ j > Top.i /\ j \in 1 .. Len(children[n])
        BY <1>3, <1>6, <3>1, <3>2
      <4>2. Top.i < Len(children[Top.node])
        BY <1>3, <4>1
      <4> QED
        BY <1>1, <4>2 DEF MoreChildren
    <3>4. k \in 1 .. L - 1
      BY <1>3, <3>3
    <3>5. k \in DOMAIN frames' /\ frames'[k].node = parent'[t] /\ j > Progress(k)'
      BY <1>1, <1>4, <1>5, <1>6, <3>1, <3>2, <3>4
    <3> QED
      BY <1>1, <3>2, <3>5 DEF Ahead
  <2> QED
    BY <1>1, <2>1, <2>2 DEF Missed
<1>8. Cardinality(Missed') <= returns'
  BY <1>1, <1>2, <1>7, NoMoreMissed DEF IInv
<1> QED
  BY <1>1, <1>8 DEF Counted

LEMMA CountedSlice ==
  ASSUME IInv, Counted, phase = "slice", phase' \in {"slice", "scan"},
         UNCHANGED <<live, parent, children, frames, seen, returns>>
  PROVE  Counted'
<1>1. Top.i = 0 /\ Cardinality(Missed) <= returns
  BY DEF Counted, Walking
<1>2. \A t : Ahead(t)' <=> Ahead(t)
  BY DEF Ahead, Progress
<1>3. \A t \in Missed' : t \in Missed
  BY <1>2 DEF Missed
<1>4. Cardinality(Missed') <= returns'
  BY <1>1, <1>3, NoMoreMissed DEF IInv
<1>5. Top'.i = 0
  BY <1>1 DEF Top
<1> QED
  BY <1>4, <1>5 DEF Counted

LEMMA CountedAsyncCall == IInv /\ Counted /\ AsyncCall => Counted'
<1> SUFFICES ASSUME IInv, Counted, AsyncCall PROVE Counted'
  OBVIOUS
<1> DEFINE id == tasks_number + 1
           L == Len(frames)
           s == children[current]
<1>1. /\ UNCHANGED <<frames, seen, returns>>
      /\ phase = "slice" /\ phase' \in {"slice", "scan"}
      /\ live' = live \cup {id}
      /\ parent' = [parent EXCEPT ![current] = @, ![id] = current]
      /\ children' = [children EXCEPT ![current] = Append(s, id)]
  BY DEF AsyncCall, AddChild, EndInstruction, IInv, TypeOK
<1>2. Top.i = 0 /\ Cardinality(Missed) <= returns
  BY <1>1 DEF Counted, Walking
<1>3. /\ L \in 1 .. L /\ DOMAIN frames = 1 .. L
      /\ \A t \in TaskId : DOMAIN children[t] = 1 .. Len(children[t])
  BY <1>1, Elements DEF IInv
<1>4. Top.node = current /\ current \in TaskId /\ id \in TaskId
  <2>1. OneActiveTask /\ TypeOK
    BY DEF IInv
  <2>2. Top.node = current /\ current \in TaskId
    BY <1>1, <2>1 DEF OneActiveTask, TypeOK
  <2>3. tasks_number \in 0 .. MAX_TASKS /\ tasks_number # MAX_TASKS
    BY <2>1 DEF AsyncCall, LimitReached, TypeOK
  <2>4. id \in TaskId
    BY <2>3, SchedulerAssumption DEF TaskId
  <2> QED
    BY <2>2, <2>4
<1>5. id \notin live /\ id \notin seen
  BY DEF IInv, Created, TypeOK
<1>6. s \in Seq(TaskId)
  BY <1>4 DEF IInv, TypeOK
<1>7. /\ Len(s) \in Nat /\ children' \in [TaskId -> Seq(TaskId)]
      /\ DOMAIN children'[current] = 1 .. Len(s) + 1
      /\ children'[current][Len(s) + 1] = id
      /\ \A j \in 1 .. Len(s) : children'[current][j] = s[j]
      /\ \A t \in TaskId : t # current => children'[t] = children[t]
  <2>1. /\ Append(s, id) \in Seq(TaskId) /\ Len(Append(s, id)) = Len(s) + 1
        /\ Append(s, id)[Len(s) + 1] = id
        /\ \A j \in 1 .. Len(s) : Append(s, id)[j] = s[j]
        /\ Len(s) \in Nat
    BY <1>4, <1>6, AppendProperties, LenProperties
  <2>2. DOMAIN Append(s, id) = 1 .. Len(s) + 1
    BY <2>1, LenProperties
  <2>3. children \in [TaskId -> Seq(TaskId)]
    BY DEF IInv, TypeOK
  <2> HIDE DEF s, id
  <2> QED
    BY <1>1, <1>4, <2>1, <2>2, <2>3
<1> HIDE DEF s, id
<1>8. ASSUME NEW t \in Missed'
      PROVE  t \in Missed
  <2>1. /\ t \in live' /\ t \notin seen /\ t # Root /\ parent'[t] \in seen
        /\ ~Ahead(t)'
    BY <1>1, <1>8 DEF Missed
  <2>2. t # id
    <3> SUFFICES ASSUME t = id PROVE Ahead(t)'
      BY <2>1
    <3>1. parent'[t] = current
      BY <1>1, <1>4 DEF IInv, TypeOK
    <3>4. PICK l \in 1 .. L : l = L
      BY <1>3
    <3>2. frames'[l].node = current /\ l \in DOMAIN frames' /\ Progress(l)' = 0
      BY <1>1, <1>2, <1>3, <1>4, <3>4 DEF Progress, Top
    <3>3. /\ Len(s) + 1 \in DOMAIN children'[current] /\ Len(s) + 1 > 0
          /\ children'[current][Len(s) + 1] = t
      BY <1>7
    <3> QED
      BY <3>1, <3>2, <3>3 DEF Ahead
  <2>3. t \in live /\ parent'[t] = parent[t] /\ parent[t] \in TaskId
    <3>1. t \in live
      BY <1>1, <2>1, <2>2
    <3>2. parent[t] \in live /\ live \subseteq TaskId
      BY <2>1, <3>1 DEF IInv, TreeConsistent, TypeOK
    <3>3. parent \in [TaskId -> TaskId \cup {NULL}]
      BY DEF IInv, TypeOK
    <3> QED
      BY <1>1, <1>4, <2>2, <3>1, <3>2, <3>3
  <2>4. ~Ahead(t)
    <3> SUFFICES ASSUME Ahead(t) PROVE Ahead(t)'
      BY <2>1
    <3>1. PICK k \in DOMAIN frames :
            /\ frames[k].node = parent[t]
            /\ \E j \in DOMAIN children[parent[t]] :
                 j > Progress(k) /\ children[parent[t]][j] = t
      BY DEF Ahead
    <3>2. PICK j \in DOMAIN children[parent[t]] :
            j > Progress(k) /\ children[parent[t]][j] = t
      BY <3>1
    <3>3. j \in DOMAIN children'[parent[t]] /\ children'[parent[t]][j] = t
      <4>1. CASE parent[t] = current
        <5>1. DOMAIN children[current] = 1 .. Len(s) /\ children[current] = s
          BY <1>3, <1>4 DEF s
        <5>2. j \in 1 .. Len(s) /\ s[j] = t
          BY <3>2, <4>1, <5>1
        <5>3. j \in 1 .. Len(s) + 1
          BY <1>7, <5>2
        <5> QED
          BY <1>7, <4>1, <5>2, <5>3
      <4>2. CASE parent[t] # current
        BY <1>7, <2>3, <3>2, <4>2
      <4> QED
        BY <4>1, <4>2
    <3>4. Progress(k)' = Progress(k)
      BY <1>1 DEF Progress
    <3> QED
      BY <1>1, <2>3, <3>1, <3>2, <3>3, <3>4 DEF Ahead
  <2> QED
    BY <1>1, <2>1, <2>3, <2>4 DEF Missed
<1>9. Cardinality(Missed') <= returns'
  BY <1>1, <1>2, <1>8, NoMoreMissed DEF IInv
<1>10. Top'.i = 0
  BY <1>1, <1>2 DEF Top
<1> QED
  BY <1>9, <1>10 DEF Counted

(* A task ends: its siblings move down one place, under the loop index of    *)
(* their parent's call.                                                      *)
LEMMA CountedAsyncReturn == IInv /\ Counted /\ AsyncReturn => Counted'
<1> SUFFICES ASSUME IInv, Counted, AsyncReturn PROVE Counted'
  OBVIOUS
<1> DEFINE c == current
           p == parent[c]
           s == children[p]
           D == Missed' \ Missed
<1>1. /\ UNCHANGED <<parent, frames, seen>>
      /\ phase = "slice" /\ phase' = "scan" /\ returns' = returns + 1
      /\ live' = live \ Subtree(c) /\ RemoveChild(c) /\ c # Root
  BY DEF AsyncReturn, RemoveChild
<1>2. Cardinality(Missed) <= returns
  BY <1>1 DEF Counted, Walking
<1>3. /\ DOMAIN frames = 1 .. Len(frames) /\ Len(frames) \in 1 .. Len(frames)
      /\ \A k \in 1 .. Len(frames) : frames[k].i \in Nat
      /\ \A t \in TaskId : /\ DOMAIN children[t] = 1 .. Len(children[t])
                           /\ Len(children[t]) \in Nat
  BY <1>1, Elements DEF IInv
<1>4. c \in live \ {Root}
  BY <1>1, <1>3 DEF IInv, OneActiveTask, WalkFollowsTree, Running, Top
<1>5. p \in TaskId /\ c \in TaskId /\ live \subseteq TaskId
  BY <1>4 DEF IInv, TreeConsistent, TypeOK
<1>6. c \in Subtree(c) /\ Subtree(c) \subseteq live
  BY <1>4, SubtreeProperties DEF IInv
<1>7. /\ children' \in [TaskId -> Seq(TaskId)]
      /\ \A t \in TaskId : t # p => children'[t] = children[t]
      /\ \E i \in 1 .. Len(s) :
           /\ s[i] = c
           /\ Len(children'[p]) = Len(s) - 1
           /\ \A j \in 1 .. Len(s) - 1 :
                children'[p][j] = IF j < i THEN s[j] ELSE s[j + 1]
  BY <1>1, <1>5, RemovedChild DEF IInv, TypeOK
<1>8. PICK i \in 1 .. Len(s) :
        /\ s[i] = c
        /\ Len(children'[p]) = Len(s) - 1
        /\ \A j \in 1 .. Len(s) - 1 : children'[p][j] = IF j < i THEN s[j] ELSE s[j + 1]
  BY <1>7
<1>9. DOMAIN children'[p] = 1 .. Len(s) - 1
  <2>1. children'[p] \in Seq(TaskId)
    BY <1>5, <1>7
  <2> QED
    BY <1>8, <2>1, LenProperties
<1>10. \A k \in DOMAIN frames : Progress(k)' = Progress(k) /\ Progress(k) \in Nat
  BY <1>1, <1>3 DEF Progress
<1> DEFINE Next1(t) == \E k \in DOMAIN frames :
                         /\ frames[k].node = p
                         /\ Progress(k) + 1 \in 1 .. Len(s) /\ s[Progress(k) + 1] = t
<1>11. ASSUME NEW t \in D
       PROVE  Next1(t)
  <2>1. /\ t \in live /\ t \in live' /\ t \notin seen /\ t # Root /\ parent[t] \in seen
        /\ ~Ahead(t)' /\ t \notin Missed
    BY <1>1, <1>11 DEF Missed
  <2>2. Ahead(t)
    BY <1>1, <2>1 DEF Missed
  <2>3. PICK k \in DOMAIN frames :
          /\ frames[k].node = parent[t]
          /\ \E j \in DOMAIN children[parent[t]] :
               j > Progress(k) /\ children[parent[t]][j] = t
    BY <2>2 DEF Ahead
  <2>4. PICK j \in DOMAIN children[parent[t]] :
          j > Progress(k) /\ children[parent[t]][j] = t
    BY <2>3
  <2>5. ~ \E l \in DOMAIN children'[parent[t]] :
            l > Progress(k) /\ children'[parent[t]][l] = t
    BY <1>1, <1>10, <2>1, <2>3 DEF Ahead
  <2>6. parent[t] = p
    <3>1. parent[t] \in TaskId
      BY <1>5, <2>1 DEF IInv, TreeConsistent
    <3> QED
      BY <1>7, <2>4, <2>5, <3>1
  <2>7. t # c
    BY <1>1, <1>6, <2>1
  <2>8. j \in 1 .. Len(s) /\ s[j] = t /\ j > Progress(k) /\ Progress(k) \in Nat
    BY <1>3, <1>5, <1>10, <2>4, <2>6
  <2> HIDE DEF s, p, c
  <2>9. ~(j < i)
    <3> SUFFICES ASSUME j < i PROVE FALSE
      OBVIOUS
    <3>1. j \in 1 .. Len(s) - 1
      BY <2>8
    <3>2. children'[p][j] = t
      BY <1>8, <2>8, <3>1
    <3> QED
      BY <1>9, <2>5, <2>6, <2>8, <3>1, <3>2
  <2>10. j # i /\ j - 1 \in 1 .. Len(s) - 1 /\ ~(j - 1 < i) /\ j - 1 + 1 = j
    BY <1>8, <2>7, <2>8, <2>9
  <2>11. children'[p][j - 1] = t
    BY <1>8, <2>8, <2>10
  <2>12. ~(j - 1 > Progress(k))
    BY <1>9, <2>5, <2>6, <2>10, <2>11
  <2>13. Progress(k) + 1 = j
    BY <2>8, <2>10, <2>12
  <2> QED
    BY <2>3, <2>6, <2>8, <2>13
<1>12. \A k, l \in DOMAIN frames : frames[k].node = p /\ frames[l].node = p => k = l
  <2>1. \A k, l \in DOMAIN frames : k < l => frames[k].node < frames[l].node
    BY <1>1 DEF IInv, WalkDescends, Running
  <2>2. p \in Nat
    BY <1>5, SchedulerAssumption DEF TaskId
  <2> HIDE DEF p
  <2> QED
    BY <1>3, <2>1, <2>2
<1>13. ASSUME NEW t \in D, NEW u \in D
       PROVE  t = u
  <2> HIDE DEF D, p, s
  <2>1. PICK k \in DOMAIN frames : frames[k].node = p /\ s[Progress(k) + 1] = t
    BY <1>11
  <2>2. PICK l \in DOMAIN frames : frames[l].node = p /\ s[Progress(l) + 1] = u
    BY <1>11
  <2> QED
    BY <1>12, <2>1, <2>2
<1>14. IsFiniteSet(Missed) /\ Cardinality(Missed) \in Nat /\ returns \in Nat
  BY MissedFinite DEF IInv, TypeOK
<1>15. Cardinality(Missed') <= returns'
  <2>1. PICK x : Missed' \subseteq Missed \cup {x}
    <3>1. CASE D = {}
      BY <3>1
    <3>2. CASE D # {}
      BY <1>13, <3>2
    <3> QED
      BY <3>1, <3>2
  <2>2. /\ IsFiniteSet(Missed \cup {x})
        /\ Cardinality(Missed \cup {x}) = IF x \in Missed THEN Cardinality(Missed)
                                          ELSE Cardinality(Missed) + 1
    BY <1>14, FS_AddElement
  <2>3. Cardinality(Missed') <= Cardinality(Missed \cup {x}) /\ IsFiniteSet(Missed')
    BY <2>1, <2>2, FS_Subset
  <2>4. Cardinality(Missed') \in Nat
    BY <2>3, FS_CardinalityType
  <2> QED
    BY <1>1, <1>2, <1>14, <2>2, <2>3, <2>4
<1> QED
  BY <1>1, <1>15 DEF Counted

LEMMA CountedStep == IInv /\ Counted /\ [Next]_vars => Counted'
<1> SUFFICES ASSUME IInv, Counted, [Next]_vars PROVE Counted'
  OBVIOUS
<1>1. CASE StartRound
  <2>1. /\ seen' = {} /\ returns' = 0 /\ frames' = <<[node |-> Root, i |-> 0]>>
    BY <1>1 DEF StartRound
  <2>2. Missed' = {} /\ Top'.i = 0
    BY <2>1 DEF Missed, Top
  <2> QED
    BY <2>1, <2>2, FS_EmptySet DEF Counted
<1>2. CASE Execute \/ AsyncCallRefused
  BY <1>2, CountedSlice DEF Execute, AsyncCallRefused, EndInstruction, treeVars
<1>3. CASE ReadFreedChildren \/ AsyncReturnOfMain \/ Halt \/ Fail
  BY <1>3 DEF ReadFreedChildren, AsyncReturnOfMain, Halt, Fail, Exit, Counted, Walking
<1>4. CASE UNCHANGED vars
  BY <1>4 DEF vars, Counted, Missed, Ahead, Progress, Top
<1> QED
  BY <1>1, <1>2, <1>3, <1>4, CountedRunCycle, CountedDescend, CountedAscend,
     CountedAsyncCall, CountedAsyncReturn DEF Next, Gone

LEMMA CountedInvariant == Spec => []Counted
<1>1. Init => Counted
  BY DEF Init, Counted, Walking
<1> QED
  BY <1>1, CountedStep, Invariant, PTL DEF Spec

(* At the end of a traversal everything that was passed over has been missed. *)
LEMMA PassedOver ==
  ASSUME IInv, phase = "scan", Len(frames) = 1, ~MoreChildren
  PROVE  Root \in seen /\ {t \in live \ seen : parent[t] \in seen} \subseteq Missed
<1>1. DOMAIN frames = 1 .. 1 /\ Top = frames[1] /\ Top.node \in TaskId /\ Top.i \in Nat
      /\ Len(children[Top.node]) \in Nat
      /\ DOMAIN children[Top.node] = 1 .. Len(children[Top.node])
  BY Elements DEF IInv, Top
<1>2. Top.node = Root /\ Root \in seen
  BY <1>1 DEF IInv, WalkFollowsTree, UnseenAhead, Running
<1>3. ASSUME NEW t, Ahead(t)
      PROVE  FALSE
  <2>1. PICK k \in DOMAIN frames :
          /\ frames[k].node = parent[t]
          /\ \E j \in DOMAIN children[parent[t]] :
               j > Progress(k) /\ children[parent[t]][j] = t
    BY <1>3 DEF Ahead
  <2>2. k = 1 /\ parent[t] = Top.node /\ Progress(k) = Top.i
    BY <1>1, <2>1 DEF Progress
  <2>3. PICK j \in 1 .. Len(children[Top.node]) : j > Top.i
    BY <1>1, <2>1, <2>2
  <2> QED
    BY <1>1, <2>3 DEF MoreChildren
<1> QED
  BY <1>2, <1>3 DEF Missed

(* A traversal in which no task ended has given every task its slice. *)
LEMMA AllSeen ==
  ASSUME IInv, Counted, phase = "scan", Len(frames) = 1, ~MoreChildren, returns = 0
  PROVE  live \subseteq seen
<1> SUFFICES ASSUME live \ seen # {} PROVE FALSE
  OBVIOUS
<1>1. live \ seen \subseteq Nat
  BY SchedulerAssumption DEF IInv, TypeOK, TaskId
<1>2. PICK t \in live \ seen : \A u \in 0 .. t - 1 : u \notin live \ seen
  BY <1>1, LeastElement
<1>3. Missed = {}
  <2>1. Cardinality(Missed) <= 0
    BY DEF Counted, Walking
  <2>2. IsFiniteSet(Missed) /\ Cardinality(Missed) \in Nat
    BY MissedFinite DEF IInv
  <2> QED
    BY <2>1, <2>2, FS_EmptySet
<1>4. t # Root /\ parent[t] \notin seen
  BY <1>3, PassedOver
<1>5. parent[t] \in live /\ parent[t] < t
  BY <1>4 DEF IInv, TreeConsistent
<1>6. parent[t] \in Nat /\ t \in Nat
  BY <1>1, <1>4, <1>5
<1> QED
  BY <1>2, <1>4, <1>5, <1>6

(* In a traversal no more subtrees are passed over than tasks ended.         *)
THEOREM SkipsAreBounded == Spec => SkipsBoundedByReturns
<1>1. IInv /\ Counted /\ [Next]_vars =>
        [RoundEnds =>
           Cardinality({t \in live \ seen : parent[t] \in seen}) <= returns]_vars
  <2> SUFFICES ASSUME IInv, Counted, Next, RoundEnds
               PROVE  Cardinality({t \in live \ seen : parent[t] \in seen}) <= returns
    OBVIOUS
  <2> DEFINE S == {t \in live \ seen : parent[t] \in seen}
  <2>1. phase = "scan" /\ phase' = "idle"
    BY DEF RoundEnds
  <2>2. Ascend /\ Len(frames) = 1
    BY <2>1 DEF Next, StartRound, RunCycle, Descend, Ascend, ReadFreedChildren, Execute,
       AsyncCall, AsyncCallRefused, AsyncReturn, AsyncReturnOfMain, Halt, Fail, Exit, Gone,
       vars
  <2>3. S \subseteq Missed
    BY <2>1, <2>2, PassedOver DEF Ascend
  <2>4. Cardinality(Missed) <= returns /\ returns \in Nat
    BY <2>1 DEF Counted, Walking, IInv, TypeOK
  <2>5. IsFiniteSet(Missed) /\ Cardinality(Missed) \in Nat
    BY MissedFinite DEF IInv
  <2> HIDE DEF S
  <2>6. Cardinality(S) <= Cardinality(Missed) /\ Cardinality(S) \in Nat
    BY <2>3, <2>5, FS_Subset, FS_CardinalityType
  <2>7. Cardinality(S) <= returns
    BY <2>4, <2>5, <2>6
  <2> QED
    BY <2>7 DEF S
<1> QED
  BY <1>1, Invariant, CountedInvariant, PTL DEF Spec, SkipsBoundedByReturns

-----------------------------------------------------------------------------
(* Programs whose tasks end after the tasks they started.                     *)

(* A task that has just ended left no children.                               *)
EndedChildless ==
  /\ NeverUndefined
  /\ phase = "scan" /\ Top.node \notin live => children[Top.node] = <<>>

LEMMA EndedChildlessStep ==
  ASSUME ~OrphanReturns, Root \notin Returners,
         IInv, EndedChildless, [Next]_vars
  PROVE  EndedChildless'
<1> USE DEF NeverUndefined, Running
<1>1. IInv'
  BY InvariantStep
<1>2. ASSUME phase' = "scan", phase = "slice", UNCHANGED frames, live \subseteq live'
      PROVE  EndedChildless'
  <2>1. Len(frames) \in 1 .. Len(frames) /\ DOMAIN frames = 1 .. Len(frames)
    BY <1>2, Elements DEF IInv
  <2>2. Top.node \in live /\ Top' = Top
    BY <1>2, <2>1 DEF IInv, WalkFollowsTree, Top
  <2> QED
    BY <1>2, <2>2 DEF EndedChildless
<1>3. CASE StartRound \/ RunCycle \/ Descend
  BY <1>3 DEF StartRound, RunCycle, Descend, EndedChildless
<1>4. CASE Ascend
  <2>1. CASE Len(frames) = 1
    BY <1>4, <2>1 DEF Ascend, EndedChildless
  <2>2. CASE Len(frames) # 1
    <3>1. phase = "scan" /\ phase' = "scan" /\ live' = live /\ frames' = CallerNextIndex
      BY <1>4, <2>2 DEF Ascend, treeVars
    <3>2. frames \in Seq(Frame) /\ frames # <<>>
      BY <3>1 DEF IInv, TypeOK
    <3>3. /\ Len(frames') = Len(frames) - 1
          /\ Len(frames) \in Nat /\ Len(frames) > 1
          /\ \A k \in 1 .. Len(frames) - 1 : frames'[k].node = frames[k].node
      BY <2>2, <3>1, <3>2, CallerProperties
    <3>4. /\ Len(frames) - 1 \in 1 .. Len(frames) - 1
          /\ Len(frames) - 1 \in 1 .. Len(frames) /\ Len(frames) - 1 < Len(frames)
      BY <3>3
    <3>5. DOMAIN frames = 1 .. Len(frames)
      BY <3>2, LenProperties
    <3>6. frames[Len(frames) - 1].node \in live
      BY <3>1, <3>4, <3>5 DEF IInv, WalkFollowsTree
    <3>7. Top'.node \in live'
      BY <3>1, <3>3, <3>4, <3>6 DEF Top
    <3> QED
      BY <3>1, <3>7 DEF EndedChildless
  <2> QED
    BY <2>1, <2>2
<1>5. CASE ReadFreedChildren
  <2>1. Len(<<>>) = 0 /\ Top.i \in Nat
    BY <1>5, Elements, EmptySeq DEF ReadFreedChildren, IInv
  <2>2. children[Top.node] = <<>>
    BY <1>5 DEF ReadFreedChildren, EndedChildless
  <2> QED
    BY <1>5, <2>1, <2>2 DEF ReadFreedChildren, MoreChildren
<1>6. CASE Execute \/ AsyncCall \/ AsyncCallRefused
  <2>1. phase = "slice" /\ UNCHANGED frames /\ live \subseteq live' /\ phase' \in {"slice", "scan"}
    BY <1>6 DEF Execute, AsyncCall, AsyncCallRefused, EndInstruction, treeVars
  <2> QED
    BY <1>2, <2>1 DEF EndedChildless
<1>7. CASE AsyncReturn
  <2>1. /\ phase = "slice" /\ phase' = "scan" /\ children[current] = <<>> /\ Top' = Top
        /\ current # Root /\ RemoveChild(current)
    BY <1>7 DEF AsyncReturn, Top
  <2>2. Len(frames) \in 1 .. Len(frames) /\ DOMAIN frames = 1 .. Len(frames)
    BY <2>1, Elements DEF IInv
  <2>3. Top.node = current /\ current \in live \ {Root} /\ live \subseteq TaskId
    BY <2>1, <2>2 DEF IInv, OneActiveTask, WalkFollowsTree, Top, TypeOK
  <2>4. parent[current] \in live /\ parent[current] < current
    BY <2>3 DEF IInv, TreeConsistent
  <2>5. parent[current] \in TaskId /\ parent[current] # current
    <3>1. parent[current] \in TaskId /\ current \in TaskId
      BY <2>3, <2>4
    <3>2. TaskId \subseteq Nat
      BY SchedulerAssumption DEF TaskId
    <3> QED
      BY <2>4, <3>1, <3>2
  <2>6. children'[current] = children[current]
    BY <2>1, <2>3, <2>5, RemovedChild DEF IInv, TypeOK
  <2> QED
    BY <2>1, <2>3, <2>6 DEF EndedChildless
<1>8. CASE AsyncReturnOfMain
  BY <1>8 DEF AsyncReturnOfMain
<1>9. CASE Halt \/ Fail
  BY <1>9 DEF Halt, Fail, Exit, EndedChildless
<1>10. CASE UNCHANGED vars
  BY <1>10 DEF vars, EndedChildless, Top
<1> QED
  BY <1>3, <1>4, <1>5, <1>6, <1>7, <1>8, <1>9, <1>10 DEF Next, Gone

(* In these programs no child list is ever read out of freed memory.         *)
THEOREM DisciplinedProgramsStayDefined ==
  ASSUME ~OrphanReturns, Root \notin Returners
  PROVE  Spec => []NeverUndefined
<1>1. Init => EndedChildless
  BY DEF Init, EndedChildless, NeverUndefined
<1>2. IInv /\ EndedChildless /\ [Next]_vars => EndedChildless'
  BY EndedChildlessStep
<1>3. EndedChildless => NeverUndefined
  BY DEF EndedChildless
<1> QED
  BY <1>1, <1>2, <1>3, Invariant, PTL DEF Spec

-----------------------------------------------------------------------------
(* Refinement: every step is a step of ConcurrentTasks, or none.             *)

LEMMA PromiseStep ==
  ASSUME ~OrphanReturns, Root \notin Returners,
         IInv, EndedChildless, [Next]_vars
  PROVE  [Promise!Next]_Promise!vars
<1> USE DEF Promise!vars
<1>0. live \subseteq TaskId /\ current \in TaskId /\ ip \in Address
  BY DEF IInv, TypeOK
<1>1. ASSUME UNCHANGED <<live, task, current, ip>>
      PROVE  UNCHANGED Promise!vars
  BY <1>1 DEF TaskPC
<1>2. phase = "slice" => current \in live
  <2> SUFFICES ASSUME phase = "slice" PROVE current \in live
    OBVIOUS
  <2>1. Len(frames) \in 1 .. Len(frames) /\ DOMAIN frames = 1 .. Len(frames)
    BY Elements DEF IInv
  <2> QED
    BY <2>1 DEF IInv, OneActiveTask, WalkFollowsTree, Running, Top
<1>3. CASE StartRound \/ Descend \/ Ascend \/ ReadFreedChildren \/ AsyncReturnOfMain \/ Gone
           \/ UNCHANGED vars
  <2>1. UNCHANGED <<live, task, current, ip>>
    BY <1>3 DEF StartRound, Descend, Ascend, ReadFreedChildren, AsyncReturnOfMain, Gone,
       treeVars, vars
  <2> QED
    BY <1>1, <2>1
<1>4. CASE RunCycle
  <2> DEFINE n == Top.node
  <2>1. /\ phase = "enter" /\ task' = SwitchedTo(n) /\ current' = n /\ live' = live
    BY <1>4 DEF RunCycle, treeVars
  <2>2. Len(frames) \in 1 .. Len(frames) /\ DOMAIN frames = 1 .. Len(frames)
    BY <2>1, Elements DEF IInv
  <2>3. n \in live
    BY <2>1, <2>2 DEF IInv, WalkFollowsTree, Running, Top
  <2>4. ip' \in Address
    BY TypeStep DEF IInv, TypeOK
  <2>5. \A t \in TaskId : t # n => task'[t].ip = IF t = current THEN ip ELSE task[t].ip
    <3> SUFFICES ASSUME NEW t \in TaskId, t # n
                 PROVE  task'[t].ip = IF t = current THEN ip ELSE task[t].ip
      OBVIOUS
    <3>1. task \in [TaskId -> [ip : Address, active : BOOLEAN, message_handler_address : Address]]
      BY DEF IInv, TypeOK
    <3> HIDE DEF n
    <3> QED
      BY <1>0, <2>1, <3>1 DEF SwitchedTo
  <2> HIDE DEF n
  <2>6. TaskPC' = [TaskPC EXCEPT ![n] = ip']
    BY <1>0, <2>1, <2>3, <2>5 DEF TaskPC
  <2> QED
    BY <1>0, <2>1, <2>3, <2>4, <2>6 DEF Promise!Next, Promise!Step
<1>5. CASE Execute \/ AsyncCallRefused
  <2>1. phase = "slice" /\ UNCHANGED <<live, task, current>>
    BY <1>5 DEF Execute, AsyncCallRefused, treeVars
  <2>2. ip' \in Address
    BY TypeStep DEF IInv, TypeOK
  <2>3. TaskPC' = [TaskPC EXCEPT ![current] = ip']
    BY <1>0, <1>2, <2>1 DEF TaskPC
  <2> QED
    BY <1>0, <1>2, <2>1, <2>2, <2>3 DEF Promise!Next, Promise!Step
<1>6. CASE AsyncCall
  <2> DEFINE id == tasks_number + 1
  <2>1. /\ phase = "slice" /\ UNCHANGED current /\ live' = live \cup {id} /\ ~LimitReached
    BY <1>6 DEF AsyncCall
  <2>2. PICK a, h \in Address :
          task' = [task EXCEPT ![id] = [ip |-> a, active |-> FALSE, message_handler_address |-> h]]
    BY <1>6 DEF AsyncCall
  <2>3. ip' \in Address
    BY TypeStep DEF IInv, TypeOK
  <2>4. tasks_number \in 0 .. MAX_TASKS /\ tasks_number # MAX_TASKS /\ MAX_TASKS \in Nat
    BY <2>1, SchedulerAssumption DEF IInv, TypeOK, LimitReached
  <2>5. id \in TaskId
    BY <2>4 DEF TaskId
  <2>6. id \notin live
    BY <2>4 DEF IInv, Created
  <2> HIDE DEF id
  <2>7. id # current
    BY <1>2, <2>1, <2>6
  <2>8. TaskPC' = [TaskPC EXCEPT ![current] = ip', ![id] = a]
    <3>1. task'[id].ip = a /\ \A t \in TaskId : t # id => task'[t] = task[t]
      BY <2>2, <2>5 DEF IInv, TypeOK
    <3> QED
      BY <1>0, <1>2, <2>1, <2>5, <2>6, <2>7, <3>1 DEF TaskPC
  <2>9. Promise!Spawn(current, id)
    <3>1. \E x, y \in Address : TaskPC' = [TaskPC EXCEPT ![current] = x, ![id] = y]
      BY <2>2, <2>3, <2>8
    <3> QED
      BY <1>2, <2>1, <2>6, <3>1 DEF Promise!Spawn
  <2> QED
    BY <1>0, <2>5, <2>9 DEF Promise!Next
<1>7. CASE AsyncReturn
  <2>1. /\ phase = "slice" /\ current # Root /\ children[current] = <<>>
        /\ UNCHANGED <<task, current>> /\ live' = live \ Subtree(current)
    BY <1>7 DEF AsyncReturn, RemoveChild
  <2>2. Subtree(current) = {current}
    <3>1. Range(children[current]) = {}
      BY <2>1 DEF Range
    <3>2. ClosedUnderChildren({current})
      BY <3>1 DEF ClosedUnderChildren
    <3>3. {current} \in SUBSET live
      BY <1>2, <2>1
    <3> QED
      BY <1>2, <2>1, <3>2, <3>3 DEF Subtree
  <2>3. TaskPC' = [TaskPC EXCEPT ![current] = 0]
    BY <1>0, <1>2, <2>1, <2>2 DEF TaskPC
  <2>4. Promise!Finish(current)
    BY <1>2, <2>1, <2>2, <2>3 DEF Promise!Finish
  <2> QED
    BY <1>0, <2>4 DEF Promise!Next
<1>8. CASE Halt \/ Fail
  <2>1. live' = {}
    BY <1>8 DEF Halt, Fail, Exit
  <2> QED
    BY <2>1 DEF TaskPC, Promise!Next, Promise!Exit
<1> QED
  BY <1>3, <1>4, <1>5, <1>6, <1>7, <1>8 DEF Next

(* In these programs every task runs on a program counter of its own: the    *)
(* scheduler, with all its switching, implements ConcurrentTasks.            *)
THEOREM DisciplinedTasksAreIndependent ==
  ASSUME ~OrphanReturns, Root \notin Returners
  PROVE  Spec => IndependentTasks
<1>1. Init => Promise!Init
  BY DEF Init, Promise!Init, TaskPC
<1>2. Init => EndedChildless
  BY DEF Init, EndedChildless, NeverUndefined
<1>3. IInv /\ EndedChildless /\ [Next]_vars => EndedChildless'
  BY EndedChildlessStep
<1>4. IInv /\ EndedChildless /\ [Next]_vars => [Promise!Next]_Promise!vars
  BY PromiseStep
<1> QED
  BY <1>1, <1>2, <1>3, <1>4, Invariant, PTL DEF Spec, IndependentTasks, Promise!Spec

-----------------------------------------------------------------------------
(* The scheduler in the machine. *)

LEMMA SchedulerStep == [MachineNext]_allVars => [Next]_vars
<1> SUFFICES ASSUME MachineNext \/ UNCHANGED allVars PROVE [Next]_vars
  OBVIOUS
<1>1. CASE Poll \/ ProcessInbox \/ MachineGone \/ UNCHANGED allVars
  BY <1>1, Zenon DEF Poll, ProcessInbox, MachineGone, allVars
<1>2. CASE StartSlice
  BY <1>2, Zenon DEF StartSlice, Next
<1>3. CASE Send
  BY <1>3, Zenon DEF Send, Both, Next
<1>4. CASE Spawn
  BY <1>4, Zenon DEF Spawn, Both, Next
<1>5. CASE Finish
  BY <1>5, Zenon DEF Finish, Both, Next
<1>6. CASE Alone \/ Return \/ Quit
  BY <1>6, Zenon DEF Alone, Return, Quit, Next
<1> QED
  BY <1>1, <1>2, <1>3, <1>4, <1>5, <1>6 DEF MachineNext

(* With messages and inboxes the tasks are scheduled as they are without:    *)
(* whatever is polled, delivered and processed between the instructions, the *)
(* task tree and the walk on it only make the steps of Scheduler             *)
(* (cpu_run_cycle, task_tree_traverse_dfs).                                  *)
THEOREM MachineIsAScheduler == MachineSpec => Spec
<1>1. MachineInit => Init
  BY DEF MachineInit
<1> QED
  BY <1>1, SchedulerStep, PTL DEF MachineSpec, Spec

LEMMA MachineInvariant == MachineSpec => [](IInv /\ Counted)
BY MachineIsAScheduler, Invariant, CountedInvariant, PTL

-----------------------------------------------------------------------------
(* The inboxes in the machine. *)

LEMMA MailAssumption == MP!MessagingAssumption
BY SchedulerAssumption, VirtualMachineAssumption
   DEF MP!MessagingAssumption, MP!TaskId, TaskId, MP!Root, Root, MP!IsFiniteSet, IsFiniteSet

LEMMA SameTypes == M!TypeOK <=> MP!TypeOK
BY DEF M!TypeOK, MP!TypeOK, M!Pointer, MP!Pointer, M!TaskId, MP!TaskId

LEMMA SameSearch == ASSUME NEW d PROVE M!InboxOf(d) = MP!InboxOf(d)
BY Zenon DEF M!InboxOf, MP!InboxOf, M!SearchEnds, MP!SearchEnds, M!PointersFrom, MP!PointersFrom,
             M!Cardinality, MP!Cardinality

LEMMA SameDeliver ==
  ASSUME NEW m, NEW n, NEW d, M!DeliverLocal(m, n, d)
  PROVE  MP!DeliverLocal(m, n, d)
BY SameSearch, Zenon
   DEF M!DeliverLocal, MP!DeliverLocal, M!Stop, MP!Stop, M!Enqueued, MP!Enqueued,
       M!HasRoom, MP!HasRoom, M!vars, MP!vars, M!heap, MP!heap

LEMMA SameSend ==
  ASSUME NEW d \in TaskId, M!SendMessage(d) \/ M!ReceiveMessage(d)
  PROVE  MP!Next
<1>1. MP!SendMessage(d) \/ MP!ReceiveMessage(d)
  BY SameDeliver, Zenon
     DEF M!SendMessage, MP!SendMessage, M!ReceiveMessage, MP!ReceiveMessage, M!Running, MP!Running
<1> QED
  BY <1>1 DEF MP!Next, MP!TaskId, TaskId

LEMMA SameProcess ==
  ASSUME NEW t \in TaskId, M!ProcessMessage(t)
  PROVE  MP!Next
<1>1. MP!ProcessMessage(t)
  BY Zenon DEF M!ProcessMessage, MP!ProcessMessage, M!Running, MP!Running, M!Tasks, MP!Tasks,
               M!TaskId, MP!TaskId, M!Stop, MP!Stop, M!heap, MP!heap,
               M!PointsBeyond, MP!PointsBeyond
<1> QED
  BY <1>1 DEF MP!Next, MP!TaskId, TaskId

LEMMA SameCreate ==
  ASSUME M!CreateInbox
  PROVE  MP!Next
<1>1. MP!CreateInbox
  BY Zenon DEF M!CreateInbox, MP!CreateInbox, M!Running, MP!Running, M!SearchEnds, MP!SearchEnds,
               M!PointersFrom, MP!PointersFrom, M!Cardinality, MP!Cardinality,
               M!Created, MP!Created, M!EmptyQueue, MP!EmptyQueue, M!Stop, MP!Stop, M!heap, MP!heap
<1> QED
  BY <1>1 DEF MP!Next

LEMMA SameFree ==
  ASSUME NEW S, M!FreeInboxes(S), S \cap (Returners \ {Root}) # {}
  PROVE  MP!Next
<1>1. MP!FreeInboxes(S)
  BY Zenon DEF M!FreeInboxes, MP!FreeInboxes, M!Running, MP!Running, M!Tasks, MP!Tasks,
               M!TaskId, MP!TaskId, M!Root, MP!Root, M!MessagesFrom, MP!MessagesFrom,
               M!EndsInNull, MP!EndsInNull, M!ListFrom, MP!ListFrom,
               M!PointersFrom, MP!PointersFrom, M!Cardinality, MP!Cardinality,
               M!Stop, MP!Stop, M!heap, MP!heap, M!PointsBeyond, MP!PointsBeyond
<1>2. S \in SUBSET MP!Tasks
  BY <1>1 DEF MP!FreeInboxes
<1> QED
  BY <1>1, <1>2, Zenon DEF MP!Next
LEMMA MailStep ==
  ASSUME M!TypeOK, IInv, IInv', [MachineNext]_allVars
  PROVE  M!TypeOK'
<1>0. tasks_number' \in 0 .. MAX_TASKS
  BY DEF IInv, TypeOK
<1>1. MP!Next => M!TypeOK'
  <2>1. MP!TypeOK /\ [MP!Next]_MP!vars => MP!TypeOK'
    BY MP!TypeStep, MailAssumption
  <2>2. M!TypeOK' <=> MP!TypeOK'
    BY SameTypes, PTL
  <2> QED
    BY <2>1, <2>2, SameTypes
<1>2. UNCHANGED mailVars => M!TypeOK'
  BY <1>0 DEF mailVars, M!TypeOK
<1>3. CASE Poll
  BY <1>1, <1>2, <1>3, SameSend DEF Poll
<1>4. CASE ProcessInbox
  <2>1. Top.node \in TaskId
    BY <1>4, Elements DEF ProcessInbox, IInv, TypeOK, Top
  <2> QED
    BY <1>1, <1>4, <2>1, SameProcess DEF ProcessInbox
<1>5. CASE StartSlice
  BY <1>2, <1>5 DEF StartSlice
<1>6. CASE Send
  BY <1>1, <1>6, SameSend DEF Send, Both
<1>7. CASE Spawn
  BY <1>1, <1>7, SameCreate DEF Spawn, Both
<1>8. CASE Finish
  <2>1. current \in EndingTasks /\ M!FreeInboxes(EndingTasks) /\ current \in Returners \ {Root}
    <3>1. current \in live \ {Root}
      <4>1. phase = "slice" /\ current \in Returners \ {Root}
        BY <1>8 DEF Finish
      <4>2. TypeOK /\ OneActiveTask /\ WalkFollowsTree
        BY Zenon DEF IInv
      <4>3. DOMAIN frames = 1 .. Len(frames) /\ Len(frames) \in Nat /\ Len(frames) >= 1
        BY <4>1, <4>2, Elements
      <4>4. Len(frames) \in DOMAIN frames
        BY <4>3
      <4>5. frames[Len(frames)].node \in live
        BY <4>1, <4>2, <4>4 DEF WalkFollowsTree, Running
      <4>6. current = frames[Len(frames)].node
        BY <4>1, <4>2 DEF OneActiveTask, Top
      <4> QED
        BY <4>1, <4>5, <4>6, Zenon
    <3> QED
      BY <1>8, <3>1, SubtreeProperties DEF Finish, Both, EndingTasks, IInv
  <2> QED
    BY <1>1, <2>1, SameFree
<1>9. CASE Quit
  <2>1. Root \in M!TaskId /\ NULL \notin Queue
    BY SchedulerAssumption, VirtualMachineAssumption DEF Root, M!TaskId
  <2>2. /\ inbox' \in [M!TaskId -> Queue \cup {NULL}]
        /\ inboxes' \subseteq Queue /\ messages' \subseteq Message /\ refused' \subseteq Message
    BY <1>9 DEF Quit, M!TaskId, TaskId
  <2>3. queue' \in [Queue -> [next : Queue \cup {NULL}, task_id : M!TaskId,
                          head : M!Pointer, tail : M!Pointer,
                          count : 0 .. TASK_MESSAGE_QUEUE_SIZE]]
    <3>1. 0 \in 0 .. TASK_MESSAGE_QUEUE_SIZE
      BY VirtualMachineAssumption
    <3>2. queue' = [q \in Queue |-> M!EmptyQueue(Root)]
      BY <1>9 DEF Quit
    <3>3. M!EmptyQueue(Root) \in [next : Queue \cup {NULL}, task_id : M!TaskId,
                          head : M!Pointer, tail : M!Pointer,
                          count : 0 .. TASK_MESSAGE_QUEUE_SIZE]
      BY <2>1, <3>1 DEF M!EmptyQueue, M!Pointer
    <3> QED
      BY <3>2, <3>3
  <2>4. message' \in [Message -> [next : M!Pointer, task_dst : M!TaskId]]
    BY <1>9, <2>1 DEF Quit, M!Pointer
  <2>5. UNCHANGED <<message_queues, status, astray>>
    BY <1>9 DEF Quit
  <2> QED
    BY <1>0, <2>2, <2>3, <2>4, <2>5 DEF M!TypeOK
<1>10. CASE Alone \/ Return \/ MachineGone \/ UNCHANGED allVars
  BY <1>2, <1>10, Zenon DEF Alone, Return, MachineGone, allVars, mailVars
<1> QED
  BY <1>3, <1>4, <1>5, <1>6, <1>7, <1>8, <1>9, <1>10 DEF MachineNext

-----------------------------------------------------------------------------
(* One inbox for every task. *)

Paired ==
  /\ M!Tasks = live
  /\ inboxes = {inbox[t] : t \in live}
  /\ \A s, t \in live : inbox[s] = inbox[t] => s = t

(* What each part has to itself while the machine works. *)
LEMMA DeliverKeepsInboxes ==
  ASSUME NEW d, M!SendMessage(d) \/ M!ReceiveMessage(d)
  PROVE  UNCHANGED <<inbox, inboxes>>
BY DEF M!SendMessage, M!ReceiveMessage, M!DeliverLocal, M!Stop, M!heap, M!vars

LEMMA ProcessKeepsInboxes ==
  ASSUME NEW t, M!ProcessMessage(t)
  PROVE  UNCHANGED <<inbox, inboxes>>
BY DEF M!ProcessMessage, M!Stop, M!heap

(* Steps after which the machine still works began where it did. *)
LEMMA StillWorking ==
  ASSUME [MachineNext]_allVars, Working'
  PROVE  Working
<1>1. CASE UNCHANGED allVars \/ MachineGone
  BY <1>1 DEF Working, MachineGone, allVars, vars, mailVars, M!Running, Running
<1>2. CASE Poll \/ ProcessInbox \/ StartSlice
  BY <1>2 DEF Working, Poll, ProcessInbox, StartSlice, Running, M!ProcessMessage
<1>3. CASE Send \/ Spawn \/ Finish
  BY <1>3 DEF Working, Send, Spawn, Finish, Running, Both, M!SendMessage, M!CreateInbox, M!FreeInboxes
<1>4. CASE Alone
  BY <1>4 DEF Working, Alone, Running, StartRound, Descend, ReadFreedChildren, Execute,
              AsyncCallRefused, AsyncReturnOfMain
<1>5. CASE Return \/ Quit
  BY <1>5 DEF Working, Return, Quit, Running, Ascend, Fail, Halt
<1> QED
  BY <1>1, <1>2, <1>3, <1>4, <1>5 DEF MachineNext

LEMMA SpawnDetails ==
  ASSUME Spawn, Working'
  PROVE  /\ AsyncCall
         /\ \E q \in Queue \ inboxes : \E last :
              /\ inbox' = [inbox EXCEPT ![tasks_number + 1] = q]
              /\ inboxes' = inboxes \cup {q}
              /\ queue' = [p \in Queue |->
                             IF p \in last
                             THEN [M!Created(q, tasks_number + 1)[p] EXCEPT !.next = q]
                             ELSE M!Created(q, tasks_number + 1)[p]]
<1>1. status' = "running"
  BY DEF Working, M!Running
<1>2. AsyncCall /\ M!CreateInbox
  BY <1>1 DEF Spawn, Both
<1>3. ~M!Stop("hung") /\ ~M!Stop("undefined")
  BY <1>1 DEF M!Stop
<1> QED
  BY <1>2, <1>3, Zenon DEF M!CreateInbox

LEMMA FinishDetails ==
  ASSUME Finish, Working'
  PROVE  /\ AsyncReturn
         /\ EndingTasks \subseteq M!Tasks \ {Root}
         /\ inbox' = [t \in TaskId |-> IF t \in EndingTasks THEN NULL ELSE inbox[t]]
         /\ inboxes' = inboxes \ {inbox[t] : t \in EndingTasks}
         /\ UNCHANGED queue
<1>1. status' = "running"
  BY DEF Working, M!Running
<1>2. AsyncReturn /\ M!FreeInboxes(EndingTasks)
  BY <1>1 DEF Finish, Both
<1>3. ~M!Stop("undefined")
  BY <1>1 DEF M!Stop
<1> QED
  BY <1>2, <1>3, Zenon DEF M!FreeInboxes, M!Root, Root, M!TaskId, TaskId

LEMMA PairedStep ==
  ASSUME M!TypeOK, IInv, Working => Paired, [MachineNext]_allVars, Working'
  PROVE  Paired'
<1>0. Working /\ Paired
  BY StillWorking
<1>1. CASE UNCHANGED <<live, inbox, inboxes>>
  BY <1>0, <1>1 DEF Paired, M!Tasks
<1>2. CASE Poll
  BY <1>1, <1>2, DeliverKeepsInboxes DEF Poll, vars, mailVars
<1>3. CASE ProcessInbox
  BY <1>1, <1>3, ProcessKeepsInboxes DEF ProcessInbox, vars
<1>4. CASE StartSlice
  BY <1>1, <1>4 DEF StartSlice, RunCycle, treeVars, mailVars
<1>5. CASE Send
  BY <1>1, <1>5, DeliverKeepsInboxes DEF Send, Both, Execute, treeVars, vars
<1>6. CASE Spawn
  <2> DEFINE id == tasks_number + 1
  <2>1. PICK q \in Queue \ inboxes :
          /\ inbox' = [inbox EXCEPT ![id] = q]
          /\ inboxes' = inboxes \cup {q}
    BY <1>6, SpawnDetails
  <2>2. live' = live \cup {id} /\ id \in TaskId /\ id \notin live
    <3>1. AsyncCall
      BY <1>6, SpawnDetails
    <3> QED
      BY <3>1, SchedulerAssumption DEF AsyncCall, LimitReached, IInv, TypeOK, Created, TaskId
  <2>3. inbox \in [TaskId -> Queue \cup {NULL}] /\ NULL \notin Queue
    BY VirtualMachineAssumption DEF M!TypeOK, M!TaskId, TaskId
  <2>4. live \subseteq TaskId
    BY DEF IInv, TypeOK
  <2> HIDE DEF id
  <2>5. inbox'[id] = q /\ \A t \in live : inbox'[t] = inbox[t]
    BY <2>1, <2>2, <2>3, <2>4
  <2>6. M!Tasks' = live'
    BY <1>0, <2>1, <2>2, <2>3 DEF Paired, M!Tasks, M!TaskId, TaskId
  <2>7. inboxes' = {inbox'[t] : t \in live'}
    BY <1>0, <2>1, <2>2, <2>5 DEF Paired
  <2>8. \A s, t \in live' : inbox'[s] = inbox'[t] => s = t
    BY <1>0, <2>1, <2>2, <2>5 DEF Paired
  <2> QED
    BY <2>6, <2>7, <2>8 DEF Paired
<1>7. CASE Finish
  <2> DEFINE D == EndingTasks
  <2>1. /\ D \subseteq live
        /\ inbox' = [t \in TaskId |-> IF t \in D THEN NULL ELSE inbox[t]]
        /\ inboxes' = inboxes \ {inbox[t] : t \in D}
    BY <1>0, <1>7, FinishDetails DEF Paired
  <2>2. live' = live \ D
    BY <1>7, FinishDetails DEF AsyncReturn, RemoveChild, EndingTasks
  <2>3. live \subseteq TaskId
    BY DEF IInv, TypeOK
  <2> HIDE DEF D
  <2>4. M!Tasks' = live'
    BY <1>0, <2>1, <2>2, <2>3 DEF Paired, M!Tasks, M!TaskId, TaskId
  <2>5. \A t \in live' : inbox'[t] = inbox[t]
    BY <2>1, <2>2, <2>3
  <2>6. inboxes' = {inbox'[t] : t \in live'}
    BY <1>0, <2>1, <2>2, <2>5 DEF Paired
  <2>7. \A s, t \in live' : inbox'[s] = inbox'[t] => s = t
    BY <1>0, <2>2, <2>5 DEF Paired
  <2> QED
    BY <2>4, <2>6, <2>7 DEF Paired
<1>8. CASE Alone
  BY <1>1, <1>8 DEF Alone, mailVars, StartRound, Descend, ReadFreedChildren, Execute,
                    AsyncCallRefused, AsyncReturnOfMain, treeVars
<1>9. CASE Return
  BY <1>1, <1>9 DEF Return, Ascend, treeVars, mailVars
<1>10. CASE Quit
  BY <1>10 DEF Quit, Working, Fail, Halt, Exit, Running
<1>11. CASE MachineGone \/ UNCHANGED allVars
  BY <1>1, <1>11 DEF MachineGone, allVars, vars, mailVars
<1> QED
  BY <1>2, <1>3, <1>4, <1>5, <1>6, <1>7, <1>8, <1>9, <1>10, <1>11 DEF MachineNext

LEMMA MailInit ==
  MachineInit => M!TypeOK /\ Paired
<1> SUFFICES ASSUME MachineInit PROVE M!TypeOK /\ Paired
  OBVIOUS
<1>1. M!TypeOK
  <2>1. MP!Init
    BY DEF MachineInit, M!Init, MP!Init, M!TaskId, MP!TaskId, M!Root, MP!Root, M!EmptyQueue, MP!EmptyQueue
  <2> QED
    BY <2>1, MP!TypeInit, MailAssumption, SameTypes
<1>2. Root \in TaskId /\ NULL \notin Queue
  BY SchedulerAssumption, VirtualMachineAssumption DEF Root, TaskId
<1>3. /\ live = {Root} /\ inboxes = {message_queues} /\ message_queues \in Queue
      /\ inbox = [t \in TaskId |-> IF t = Root THEN message_queues ELSE NULL]
  BY DEF MachineInit, Init, M!Init, M!TaskId, TaskId, M!Root, Root
<1>4. Paired
  BY <1>2, <1>3 DEF Paired, M!Tasks, M!TaskId, TaskId
<1> QED
  BY <1>1, <1>4

LEMMA MailInvariant == MachineSpec => [](M!TypeOK /\ (Working => Paired))
<1>1. MachineInit => M!TypeOK /\ (Working => Paired)
  BY MailInit
<1>2. /\ M!TypeOK /\ (Working => Paired)
      /\ IInv /\ IInv' /\ [MachineNext]_allVars
      => M!TypeOK' /\ (Working => Paired)'
  BY MailStep, PairedStep
<1>3. MachineSpec => []IInv
  BY MachineInvariant, PTL
<1> QED
  BY <1>1, <1>2, <1>3, PTL DEF MachineSpec

(* The inboxes that exist are at any time those of the tasks that exist, one *)
(* each, whatever tasks are created and end and whatever malloc hands out    *)
(* (cpu_create_task, task_free).                                             *)
THEOREM EveryTaskHasAnInbox == MachineSpec => []OneInboxPerTask
<1>1. (Working => Paired) => OneInboxPerTask
  BY DEF Paired, OneInboxPerTask
<1> QED
  BY <1>1, MailInvariant, PTL

-----------------------------------------------------------------------------
(* How long messages wait. *)

Ended == tasks_number - Cardinality(live \ {Root})
ReturnsNow == IF phase \in Walking THEN returns ELSE 0

(* Only inboxes with messages have waited, none of them that of a task which *)
(* had its turn in this round.  Every round an inbox waits for, beyond one,  *)
(* is paid for by the end of a task: a subtree is passed over only if a task *)
(* ended in the round, and what ended in this round pays for its own end.    *)
Patient ==
  /\ waits \in [TaskId -> Nat]
  /\ \A t \in TaskId \ live : waits[t] = 0
  /\ \A t \in live : queue[inbox[t]].count = 0 => waits[t] = 0
  /\ phase \in Walking => \A t \in seen \cap live : waits[t] = 0
  /\ \A t \in live : waits[t] + ReturnsNow <= 1 + Ended

LEMMA Population ==
  IInv => /\ IsFiniteSet(live \ {Root})
          /\ Cardinality(live \ {Root}) \in Nat
          /\ Cardinality(live \ {Root}) <= tasks_number
          /\ tasks_number \in Nat /\ returns \in Nat
<1> SUFFICES ASSUME IInv
             PROVE  /\ IsFiniteSet(live \ {Root})
                    /\ Cardinality(live \ {Root}) \in Nat
                    /\ Cardinality(live \ {Root}) <= tasks_number
                    /\ tasks_number \in Nat /\ returns \in Nat
  OBVIOUS
<1>1. tasks_number \in Nat /\ returns \in Nat
  BY SchedulerAssumption DEF IInv, TypeOK
<1>2. live \ {Root} \subseteq 1 .. tasks_number
  BY <1>1 DEF IInv, Created, Root
<1>3. IsFiniteSet(1 .. tasks_number) /\ Cardinality(1 .. tasks_number) = tasks_number
  BY <1>1, FS_Interval
<1>4. /\ IsFiniteSet(live \ {Root})
      /\ Cardinality(live \ {Root}) <= Cardinality(1 .. tasks_number)
  BY <1>2, <1>3, FS_Subset
<1> QED
  BY <1>1, <1>3, <1>4, FS_CardinalityType

(* Messages are accepted and taken one at a time. *)
LEMMA CountsKept ==
  ASSUME M!TypeOK, NEW d, M!SendMessage(d) \/ M!ReceiveMessage(d), status' = "running"
  PROVE  \A q \in Queue : queue'[q].count = 0 => queue[q].count = 0
<1>1. queue \in [Queue -> [next : Queue \cup {NULL}, task_id : M!TaskId,
                           head : M!Pointer, tail : M!Pointer,
                           count : 0 .. TASK_MESSAGE_QUEUE_SIZE]]
  BY DEF M!TypeOK
<1>2. CASE queue' = queue
  BY <1>2
<1>3. ASSUME NEW q \in inboxes, NEW m, NEW n, M!Enqueued(q, m, n)
      PROVE  \A p \in Queue : queue'[p].count = 0 => queue[p].count = 0
  <2>1. q \in Queue
    BY DEF M!TypeOK
  <2>2. queue'[q].count = queue[q].count + 1 /\ \A p \in Queue \ {q} : queue'[p] = queue[p]
    BY <1>1, <1>3, <2>1 DEF M!Enqueued
  <2>3. queue[q].count \in Nat
    BY <1>1, <2>1, VirtualMachineAssumption
  <2> QED
    BY <2>2, <2>3
<1>4. ~M!Stop("hung") /\ ~M!Stop("undefined")
  BY DEF M!Stop
<1>5. PICK m, n : M!DeliverLocal(m, n, d)
  BY DEF M!SendMessage, M!ReceiveMessage
<1>6. queue' = queue \/ \E q \in inboxes : M!Enqueued(q, m, n)
  BY <1>4, <1>5, Zenon DEF M!DeliverLocal, M!vars
<1> QED
  BY <1>2, <1>3, <1>6

LEMMA CountTaken ==
  ASSUME M!TypeOK, NEW t \in M!Tasks, M!ProcessMessage(t), status' = "running"
  PROVE  /\ inbox[t] \in Queue
         /\ queue[inbox[t]].count \in Nat
         /\ queue'[inbox[t]].count = queue[inbox[t]].count - 1
         /\ \A q \in Queue \ {inbox[t]} : queue'[q] = queue[q]
<1>1. queue \in [Queue -> [next : Queue \cup {NULL}, task_id : M!TaskId,
                           head : M!Pointer, tail : M!Pointer,
                           count : 0 .. TASK_MESSAGE_QUEUE_SIZE]]
  BY DEF M!TypeOK
<1>2. inbox[t] \in Queue
  BY DEF M!TypeOK, M!Tasks
<1>3. ~M!Stop("undefined")
  BY DEF M!Stop
<1>4. queue' = [queue EXCEPT ![inbox[t]].head = message[queue[inbox[t]].head].next,
                             ![inbox[t]].count = queue[inbox[t]].count - 1]
  BY <1>3 DEF M!ProcessMessage
<1> QED
  BY <1>1, <1>2, <1>4, VirtualMachineAssumption

(* Steps that neither create nor end a task nor begin or end anyone's turn.  *)
LEMMA PatientQuiet ==
  ASSUME M!TypeOK, Paired, Patient,
         UNCHANGED <<tasks_number, live, inbox, waits, seen, returns>>,
         phase \in Walking <=> phase' \in Walking,
         \A q \in Queue : queue'[q].count = 0 => queue[q].count = 0
  PROVE  Patient'
<1>1. \A t \in live : inbox[t] \in Queue
  BY DEF Paired, M!TypeOK, M!Tasks
<1>2. ReturnsNow' = ReturnsNow /\ Ended' = Ended
  BY DEF ReturnsNow, Ended
<1>3. \A t \in live' : queue'[inbox'[t]].count = 0 => waits'[t] = 0
  BY <1>1 DEF Patient
<1>4. phase' \in Walking => \A t \in seen' \cap live' : waits'[t] = 0
  BY DEF Patient
<1>5. \A t \in live' : waits'[t] + ReturnsNow' <= 1 + Ended'
  BY <1>2 DEF Patient
<1>6. waits' \in [TaskId -> Nat] /\ \A t \in TaskId \ live' : waits'[t] = 0
  BY DEF Patient
<1> QED
  BY <1>3, <1>4, <1>5, <1>6 DEF Patient

LEMMA PatientStartRound ==
  ASSUME IInv, Patient, StartRound, UNCHANGED <<mailVars, turnVars>>
  PROVE  Patient'
<1>1. /\ UNCHANGED <<tasks_number, live, inbox, queue, waits>>
      /\ phase = "idle" /\ phase' = "enter" /\ seen' = {} /\ returns' = 0
  BY DEF StartRound, treeVars, mailVars, turnVars
<1>2. ReturnsNow' = 0 /\ ReturnsNow = 0 /\ Ended' = Ended
  BY <1>1 DEF ReturnsNow, Ended, Walking
<1>3. \A t \in live' : waits'[t] + ReturnsNow' <= 1 + Ended'
  BY <1>1, <1>2 DEF Patient
<1> QED
  BY <1>1, <1>3 DEF Patient

LEMMA PatientProcess ==
  ASSUME M!TypeOK, IInv, Paired, Patient, ProcessInbox, Working'
  PROVE  Patient'
<1> DEFINE n == Top.node
<1>1. /\ UNCHANGED <<tasks_number, live, seen, returns, phase>>
      /\ phase = "enter" /\ M!ProcessMessage(n)
      /\ waits' = [waits EXCEPT ![n] = IF queue[inbox[n]].count = 1 THEN 0 ELSE @]
  BY DEF ProcessInbox, vars
<1>2. n \in live /\ live \subseteq TaskId
  BY <1>1, Elements DEF IInv, WalkFollowsTree, Top, TypeOK, Running
<1>3. /\ UNCHANGED inbox
      /\ inbox[n] \in Queue
      /\ queue[inbox[n]].count \in Nat
      /\ queue'[inbox[n]].count = queue[inbox[n]].count - 1
      /\ \A q \in Queue \ {inbox[n]} : queue'[q] = queue[q]
  <2>1. status' = "running" /\ n \in M!Tasks
    BY <1>2 DEF Working, M!Running, Paired
  <2> QED
    BY <1>1, <2>1, CountTaken, ProcessKeepsInboxes
<1> HIDE DEF n
<1>4. /\ waits \in [TaskId -> Nat]
      /\ waits' \in [TaskId -> Nat]
      /\ \A t \in TaskId : waits'[t] = waits[t] \/ waits'[t] = 0
      /\ queue[inbox[n]].count = 1 => waits'[n] = 0
  BY <1>1, <1>2 DEF Patient
<1>5. ReturnsNow' = ReturnsNow /\ Ended' = Ended
  BY <1>1 DEF ReturnsNow, Ended
<1>6. \A t \in live' : queue'[inbox'[t]].count = 0 => waits'[t] = 0
  <2> SUFFICES ASSUME NEW t \in live, queue'[inbox[t]].count = 0 PROVE waits'[t] = 0
    BY <1>1, <1>3
  <2>1. CASE t = n
    BY <1>3, <1>4, <2>1
  <2>2. CASE t # n
    <3>1. inbox[t] \in Queue \ {inbox[n]}
      BY <1>2, <2>2 DEF Paired, M!TypeOK, M!Tasks
    <3>2. waits[t] = 0
      BY <1>3, <3>1 DEF Patient
    <3> QED
      BY <1>2, <1>4, <3>2
  <2> QED
    BY <2>1, <2>2
<1>7. \A t \in live' : waits'[t] + ReturnsNow' <= 1 + Ended'
  <2> SUFFICES ASSUME NEW t \in live PROVE waits'[t] + ReturnsNow <= 1 + Ended
    BY <1>1, <1>5
  <2>1. waits[t] + ReturnsNow <= 1 + Ended /\ waits[t] \in Nat
    BY <1>2 DEF Patient
  <2>2. waits'[t] = waits[t] \/ waits'[t] = 0
    BY <1>2, <1>4
  <2>3. ReturnsNow \in Nat /\ Ended \in Int
    BY Population DEF ReturnsNow, Ended
  <2> QED
    BY <2>1, <2>2, <2>3
<1>8. \A t \in TaskId \ live' : waits'[t] = 0
  BY <1>1, <1>4 DEF Patient
<1>9. phase' \in Walking => \A t \in seen' \cap live' : waits'[t] = 0
  BY <1>1, <1>2, <1>4 DEF Patient, Walking
<1> QED
  BY <1>4, <1>6, <1>7, <1>8, <1>9 DEF Patient

LEMMA PatientStartSlice ==
  ASSUME IInv, Patient, StartSlice
  PROVE  Patient'
<1> DEFINE n == Top.node
<1>1. /\ UNCHANGED <<tasks_number, live, returns, inbox, queue, waits>>
      /\ phase = "enter" /\ phase' = "slice" /\ seen' = seen \cup {n}
      /\ queue[inbox[n]].count = 0
  BY DEF StartSlice, RunCycle, mailVars, treeVars, InboxEmpty
<1>2. n \in live
  BY <1>1, Elements DEF IInv, WalkFollowsTree, Top, TypeOK, Running
<1> HIDE DEF n
<1>3. waits[n] = 0
  BY <1>1, <1>2 DEF Patient
<1>4. ReturnsNow' = ReturnsNow /\ Ended' = Ended
  BY <1>1 DEF ReturnsNow, Ended, Walking
<1>5. \A t \in seen' \cap live' : waits'[t] = 0
  BY <1>1, <1>3 DEF Patient, Walking
<1>6. \A t \in live' : waits'[t] + ReturnsNow' <= 1 + Ended'
  BY <1>1, <1>4 DEF Patient
<1> QED
  BY <1>1, <1>5, <1>6 DEF Patient

LEMMA PatientSpawn ==
  ASSUME M!TypeOK, IInv, Paired, Patient, Spawn, Working'
  PROVE  Patient'
<1> DEFINE id == tasks_number + 1
           L == live \ {Root}
<1>1. PICK q \in Queue \ inboxes : \E last :
        /\ inbox' = [inbox EXCEPT ![id] = q]
        /\ queue' = [p \in Queue |->
                       IF p \in last THEN [M!Created(q, id)[p] EXCEPT !.next = q]
                       ELSE M!Created(q, id)[p]]
  BY SpawnDetails
<1>2. /\ tasks_number' = id /\ live' = live \cup {id} /\ phase = "slice" /\ phase' \in {"slice", "scan"}
      /\ UNCHANGED <<seen, returns, waits>> /\ id \in TaskId
  <2>1. AsyncCall
    BY SpawnDetails
  <2> QED
    BY <2>1, SchedulerAssumption
       DEF AsyncCall, LimitReached, IInv, TypeOK, TaskId, EndInstruction, Spawn
<1>3. tasks_number \in Nat /\ live \subseteq TaskId
  BY Population DEF IInv, TypeOK
<1>4. id \notin live /\ id \notin seen /\ id # Root /\ Root \in live /\ Root \in TaskId
  <2>1. live \cup seen \subseteq 0 .. tasks_number
    BY DEF IInv, Created
  <2>2. Root \in live
    BY <1>2 DEF IInv, TreeConsistent
  <2> QED
    BY <1>3, <2>1, <2>2 DEF Root
<1>5. /\ inbox'[id] = q
      /\ \A t \in live : inbox'[t] = inbox[t] /\ inbox[t] \in Queue /\ inbox[t] # q
  <2>1. inbox \in [TaskId -> Queue \cup {NULL}]
    BY DEF M!TypeOK, M!TaskId, TaskId
  <2>2. \A t \in live : inbox[t] \in Queue /\ inbox[t] # q
    BY DEF Paired, M!TypeOK, M!Tasks
  <2> HIDE DEF id
  <2> QED
    BY <1>1, <1>2, <1>3, <1>4, <2>1, <2>2
<1>6. \A p \in Queue : p # q => queue'[p].count = queue[p].count
  <2>1. queue \in [Queue -> [next : Queue \cup {NULL}, task_id : M!TaskId,
                             head : M!Pointer, tail : M!Pointer,
                             count : 0 .. TASK_MESSAGE_QUEUE_SIZE]]
    BY DEF M!TypeOK
  <2> SUFFICES ASSUME NEW p \in Queue, p # q PROVE queue'[p].count = queue[p].count
    OBVIOUS
  <2>2. M!Created(q, id)[p] = queue[p]
    BY <2>1 DEF M!Created
  <2>3. queue'[p] = queue[p] \/ queue'[p] = [queue[p] EXCEPT !.next = q]
    BY <1>1, <2>2
  <2> QED
    BY <2>1, <2>3
<1>7. Ended' = Ended
  <2>1. live' \ {Root} = L \cup {id}
    BY <1>2, <1>4
  <2>2. Cardinality(L \cup {id}) = Cardinality(L) + 1
    BY <1>4, Population, FS_AddElement
  <2>3. Cardinality(L) \in Nat
    BY Population
  <2> HIDE DEF L
  <2>4. Cardinality(live' \ {Root}) = Cardinality(L) + 1
    BY <2>1, <2>2
  <2> QED
    BY <1>2, <1>3, <2>3, <2>4 DEF Ended, L
<1>8. ReturnsNow' = ReturnsNow /\ ReturnsNow \in Nat /\ Ended \in Int
  BY <1>2, Population DEF ReturnsNow, Walking, Ended
<1>9. waits[id] = 0 /\ waits' = waits /\ waits \in [TaskId -> Nat]
  BY <1>2, <1>4 DEF Patient
<1>10. ReturnsNow <= 1 + Ended
  <2>1. waits[Root] + ReturnsNow <= 1 + Ended /\ waits[Root] \in Nat
    BY <1>4 DEF Patient
  <2> QED
    BY <1>8, <2>1
<1> HIDE DEF id, L
<1>11. \A t \in TaskId \ live' : waits'[t] = 0
  BY <1>2, <1>9 DEF Patient
<1>12. \A t \in live' : queue'[inbox'[t]].count = 0 => waits'[t] = 0
  BY <1>2, <1>5, <1>6, <1>9 DEF Patient
<1>13. \A t \in seen' \cap live' : waits'[t] = 0
  BY <1>2, <1>4, <1>9 DEF Patient, Walking
<1>14. \A t \in live' : waits'[t] + ReturnsNow' <= 1 + Ended'
  <2>1. \A t \in live : waits[t] + ReturnsNow <= 1 + Ended
    BY DEF Patient
  <2>2. waits[id] + ReturnsNow <= 1 + Ended
    BY <1>8, <1>9, <1>10
  <2> QED
    BY <1>2, <1>7, <1>8, <1>9, <2>1, <2>2
<1> QED
  BY <1>9, <1>11, <1>12, <1>13, <1>14 DEF Patient

LEMMA PatientFinish ==
  ASSUME M!TypeOK, IInv, Paired, Patient, Finish, Working'
  PROVE  Patient'
<1> DEFINE D == EndingTasks
           L == live \ {Root}
           L2 == live' \ {Root}
<1>1. /\ D \subseteq live
      /\ inbox' = [t \in TaskId |-> IF t \in D THEN NULL ELSE inbox[t]]
      /\ queue' = queue
  BY FinishDetails DEF Paired
<1>2. /\ live' = live \ D /\ phase = "slice" /\ phase' = "scan"
      /\ UNCHANGED <<tasks_number, seen>> /\ returns' = returns + 1
      /\ waits' = [t \in TaskId |-> IF t \in D THEN 0 ELSE waits[t]]
  <2>1. AsyncReturn
    BY FinishDetails
  <2> QED
    BY <2>1 DEF AsyncReturn, RemoveChild, EndingTasks, Finish
<1>3. current \in L /\ current \in D
  <2>1. current \in live \ {Root}
    BY <1>2, Elements DEF Finish, IInv, WalkFollowsTree, OneActiveTask, Running, Top, TypeOK
  <2> QED
    BY <2>1, SubtreeProperties DEF EndingTasks, IInv
<1>4. live \subseteq TaskId /\ waits \in [TaskId -> Nat]
  BY DEF IInv, TypeOK, Patient
<1>5. /\ \A t \in live' : t \in live /\ inbox'[t] = inbox[t] /\ waits'[t] = waits[t]
      /\ waits' \in [TaskId -> Nat]
      /\ \A t \in TaskId \ live' : waits'[t] = 0
  <2> HIDE DEF D
  <2> QED
    BY <1>1, <1>2, <1>4 DEF Patient
<1>6. /\ Cardinality(L2) \in Nat /\ Cardinality(L) \in Nat
      /\ Cardinality(L2) <= Cardinality(L) - 1
      /\ tasks_number \in Nat /\ returns \in Nat
  <2>1. IsFiniteSet(L) /\ Cardinality(L) \in Nat /\ tasks_number \in Nat /\ returns \in Nat
    BY Population
  <2>2. IsFiniteSet(L \ {current}) /\ Cardinality(L \ {current}) = Cardinality(L) - 1
    BY <1>3, <2>1, FS_RemoveElement
  <2>3. L2 \subseteq L \ {current}
    BY <1>2, <1>3
  <2>4. IsFiniteSet(L2) /\ Cardinality(L2) <= Cardinality(L \ {current})
    BY <2>2, <2>3, FS_Subset
  <2>5. Cardinality(L2) \in Nat
    BY <2>4, FS_CardinalityType
  <2> HIDE DEF L, L2
  <2> QED
    BY <2>1, <2>2, <2>4, <2>5
<1>7. Ended' >= Ended + 1 /\ Ended \in Int /\ Ended' \in Int
  <2> HIDE DEF L, L2
  <2> QED
    BY <1>2, <1>6 DEF Ended, L, L2
<1>8. ReturnsNow' = ReturnsNow + 1 /\ ReturnsNow \in Nat
  BY <1>2, <1>6 DEF ReturnsNow, Walking
<1> HIDE DEF D, L, L2
<1>9. \A t \in live' : waits'[t] + ReturnsNow' <= 1 + Ended'
  <2> SUFFICES ASSUME NEW t \in live' PROVE waits'[t] + ReturnsNow' <= 1 + Ended'
    OBVIOUS
  <2>1. waits[t] + ReturnsNow <= 1 + Ended /\ waits[t] \in Nat /\ waits'[t] = waits[t]
    BY <1>4, <1>5 DEF Patient
  <2> QED
    BY <1>7, <1>8, <2>1
<1>10. \A t \in live' : queue'[inbox'[t]].count = 0 => waits'[t] = 0
  BY <1>1, <1>5 DEF Patient
<1>11. \A t \in seen' \cap live' : waits'[t] = 0
  BY <1>2, <1>5 DEF Patient, Walking
<1> QED
  BY <1>5, <1>9, <1>10, <1>11 DEF Patient

LEMMA PatientReturn ==
  ASSUME M!TypeOK, IInv, Counted, Paired, Patient, Return
  PROVE  Patient'
<1>1. /\ UNCHANGED <<tasks_number, live, seen, returns, inbox, queue>>
      /\ phase = "scan" /\ phase' \in {"scan", "idle"} /\ ~MoreChildren
      /\ phase' = "idle" => Len(frames) = 1
  BY DEF Return, Ascend, mailVars, treeVars
<1>2. Ended' = Ended /\ ReturnsNow = returns /\ returns \in Nat /\ Ended \in Int
      /\ live \subseteq TaskId /\ waits \in [TaskId -> Nat]
  BY <1>1, Population DEF Ended, ReturnsNow, Walking, IInv, TypeOK, Patient
<1>3. CASE waits' = waits /\ phase' = "scan"
  BY <1>1, <1>3 DEF Patient, Walking, ReturnsNow, Ended
<1>4. CASE phase' = "idle"
  <2> DEFINE longer(t) == t \in live /\ M!Mail[t] # <<>> /\ waits[t] < WaitsCounted
  <2>1. waits' = [t \in TaskId |-> IF longer(t) THEN waits[t] + 1 ELSE waits[t]]
    BY <1>4 DEF Return
  <2>2. ReturnsNow' = 0
    BY <1>4 DEF ReturnsNow, Walking
  <2>3. returns = 0 => live \subseteq seen
    BY <1>1, <1>4, AllSeen
  <2>4. \A t \in seen \cap live : waits[t] = 0
    BY <1>1 DEF Patient, Walking
  <2>5. ASSUME NEW t \in live, queue[inbox[t]].count = 0
        PROVE  ~longer(t)
    <3>1. M!Mail[t] = <<>>
      BY <1>2, <2>5 DEF M!Mail, M!TaskId, TaskId
    <3> QED
      BY <3>1
  <2>6. \A t \in TaskId : waits'[t] = IF longer(t) THEN waits[t] + 1 ELSE waits[t]
    BY <2>1
  <2> HIDE DEF longer
  <2>7. waits' \in [TaskId -> Nat]
    BY <1>2, <2>1
  <2>8. \A t \in TaskId \ live' : waits'[t] = 0
    BY <1>1, <2>6 DEF Patient, longer
  <2>9. \A t \in live' : queue'[inbox'[t]].count = 0 => waits'[t] = 0
    BY <1>1, <1>2, <2>5, <2>6 DEF Patient
  <2>10. \A t \in live' : waits'[t] + ReturnsNow' <= 1 + Ended'
    <3> SUFFICES ASSUME NEW t \in live PROVE waits'[t] <= 1 + Ended /\ waits'[t] \in Nat
      BY <1>1, <1>2, <2>2
    <3>1. waits[t] + returns <= 1 + Ended /\ waits[t] \in Nat
      BY <1>2 DEF Patient
    <3>2. waits'[t] \in {waits[t], waits[t] + 1}
      BY <1>2, <2>6
    <3>3. CASE t \in seen
      <4>1. waits[t] = 0 /\ Ended >= 0
        BY <2>4, <3>3, Population DEF Ended
      <4> QED
        BY <1>2, <3>2, <4>1
    <3>4. CASE t \notin seen
      <4>1. returns # 0
        BY <2>3, <3>4
      <4> QED
        BY <1>2, <3>1, <3>2, <4>1
    <3> QED
      BY <3>3, <3>4
  <2> QED
    BY <1>4, <2>7, <2>8, <2>9, <2>10 DEF Patient, Walking
<1>5. phase' = "idle" \/ (waits' = waits /\ phase' = "scan")
  <2>1. phase' # "idle" => waits' = waits
    BY <1>2 DEF Return
  <2> QED
    BY <1>1, <2>1
<1> QED
  BY <1>3, <1>4, <1>5

LEMMA PatientStep ==
  ASSUME M!TypeOK, IInv, Counted, Working => Paired, Working => Patient,
         [MachineNext]_allVars, Working'
  PROVE  Patient'
<1>0. Working /\ Paired /\ Patient
  BY StillWorking
<1>1. status' = "running" /\ phase' \in Running
  BY DEF Working, M!Running
<1>2. CASE Poll
  <2>1. /\ UNCHANGED <<tasks_number, live, waits, seen, returns, phase>>
        /\ UNCHANGED mailVars \/ \E d \in TaskId : M!ReceiveMessage(d)
    BY <1>2 DEF Poll, vars
  <2>2. UNCHANGED inbox /\ \A q \in Queue : queue'[q].count = 0 => queue[q].count = 0
    BY <1>1, <2>1, DeliverKeepsInboxes, CountsKept DEF mailVars
  <2> QED
    BY <1>0, <2>1, <2>2, PatientQuiet
<1>3. CASE ProcessInbox
  BY <1>0, <1>3, PatientProcess
<1>4. CASE StartSlice
  BY <1>0, <1>4, PatientStartSlice
<1>5. CASE Send
  <2>1. PICK d \in TaskId : Execute /\ M!SendMessage(d)
    BY <1>1, <1>5 DEF Send, Both
  <2>2. /\ UNCHANGED <<tasks_number, live, waits, seen, returns>>
        /\ phase = "slice" /\ phase' \in {"slice", "scan"}
    BY <1>5, <2>1 DEF Send, Execute, EndInstruction, treeVars
  <2>3. UNCHANGED inbox /\ \A q \in Queue : queue'[q].count = 0 => queue[q].count = 0
    BY <1>1, <2>1, DeliverKeepsInboxes, CountsKept
  <2> QED
    BY <1>0, <2>2, <2>3, PatientQuiet DEF Walking
<1>6. CASE Spawn
  BY <1>0, <1>6, PatientSpawn
<1>7. CASE Finish
  BY <1>0, <1>7, PatientFinish
<1>8. CASE Alone
  <2>1. CASE StartRound
    BY <1>0, <1>8, <2>1, PatientStartRound DEF Alone
  <2>2. CASE Descend \/ ReadFreedChildren \/ Execute \/ AsyncCallRefused \/ AsyncReturnOfMain
    <3>1. UNCHANGED <<tasks_number, live, waits, seen, returns, inbox, queue>>
      BY <1>8, <2>2 DEF Alone, Descend, ReadFreedChildren, Execute, AsyncCallRefused,
                        AsyncReturnOfMain, treeVars, mailVars, turnVars
    <3>2. phase \in Walking /\ phase' \in Walking
      BY <1>1, <2>2 DEF Descend, ReadFreedChildren, Execute, AsyncCallRefused,
                        AsyncReturnOfMain, EndInstruction, Running, Walking
    <3> QED
      BY <1>0, <3>1, <3>2, PatientQuiet
  <2> QED
    BY <1>8, <2>1, <2>2 DEF Alone
<1>9. CASE Return
  BY <1>0, <1>9, PatientReturn
<1>10. CASE Quit
  BY <1>1, <1>10 DEF Quit, Fail, Halt, Exit, Running
<1>11. CASE MachineGone \/ UNCHANGED allVars
  BY <1>0, <1>11, PatientQuiet DEF MachineGone, allVars, vars, mailVars, turnVars
<1> QED
  BY <1>2, <1>3, <1>4, <1>5, <1>6, <1>7, <1>8, <1>9, <1>10, <1>11 DEF MachineNext

LEMMA PatientInit == MachineInit => Patient
<1> SUFFICES ASSUME MachineInit PROVE Patient
  OBVIOUS
<1>1. /\ waits = [t \in TaskId |-> 0] /\ phase = "idle" /\ live = {Root} /\ tasks_number = 0
  BY DEF MachineInit, Init
<1>2. Root \in TaskId
  BY SchedulerAssumption DEF Root, TaskId
<1>3. Cardinality(live \ {Root}) = 0
  <2>1. live \ {Root} = {}
    BY <1>1
  <2> QED
    BY <2>1, FS_EmptySet
<1>4. Ended = 0 /\ ReturnsNow = 0
  BY <1>1, <1>3 DEF Ended, ReturnsNow, Walking
<1> QED
  BY <1>1, <1>2, <1>4 DEF Patient, Walking

(* No inbox with messages is left at the end of more rounds than one, and    *)
(* one for every task that has ended, whatever tasks are created, end or     *)
(* send (cpu_process_context_inbox under task_tree_traverse_dfs).            *)
THEOREM MessagesAreNotKeptWaiting == MachineSpec => []WaitIsBounded
<1>1. MachineInit => (Working => Patient)
  BY PatientInit
<1>2. /\ M!TypeOK /\ (Working => Paired) /\ (Working => Patient)
      /\ IInv /\ Counted /\ [MachineNext]_allVars
      => (Working => Patient)'
  BY PatientStep
<1>3. MachineSpec => [](Working => Patient)
  BY <1>1, <1>2, MachineInvariant, MailInvariant, PTL DEF MachineSpec
<1>4. IInv /\ (Working => Patient) => WaitIsBounded
  <2> SUFFICES ASSUME IInv, Patient, NEW t \in live
               PROVE  waits[t] <= 1 + tasks_number - Cardinality(live \ {Root})
    BY DEF WaitIsBounded
  <2>1. waits[t] \in Nat /\ waits[t] + ReturnsNow <= 1 + Ended
    BY DEF Patient, IInv, TypeOK
  <2>2. ReturnsNow \in Nat /\ tasks_number \in Nat /\ Cardinality(live \ {Root}) \in Nat
    BY Population DEF ReturnsNow
  <2> DEFINE c == Cardinality(live \ {Root})
  <2> HIDE DEF c
  <2>3. waits[t] <= 1 + (tasks_number - c) /\ c \in Nat
    BY <2>1, <2>2 DEF Ended, c
  <2>4. waits[t] <= 1 + tasks_number - c
    BY <2>1, <2>2, <2>3
  <2> QED
    BY <2>4 DEF c
<1> QED
  BY <1>3, <1>4, MachineInvariant, PTL


=============================================================================
