-------------------------- MODULE TaskQueueProofs --------------------------
(***************************************************************************)
(* For every initial capacity, every bound on the memory and every set of  *)
(* tasks, the ring buffer of em_task_queue.c is a first-in first-out       *)
(* queue.                                                                  *)
(***************************************************************************)
EXTENDS TaskQueue, SequenceTheorems, TLAPS

(* The indices stay in the buffer and queued slots hold tasks.  Both are  *)
(* inductive together: QueuedSlotsWritten is what keeps a dequeued task   *)
(* from being uninitialized memory.                                       *)
RingInv == TypeOK /\ QueuedSlotsWritten

(* Advancing an index that is inside the buffer wraps it at the end. *)
LEMMA Wraps ==
    ASSUME NEW c \in Nat \ {0}, NEW i \in 0 .. c - 1
    PROVE  (i + 1) % c = IF i + 1 = c THEN 0 ELSE i + 1
  <1>1. CASE i + 1 = c
    BY <1>1, SMT
  <1>2. CASE i + 1 # c
    BY <1>2, SMT
  <1> QED BY <1>1, <1>2

(* The queued tasks form a sequence of tasks of the computed length. *)
LEMMA ContentsType ==
    ASSUME RingInv
    PROVE  /\ QueuedTasks \in 0 .. capacity - 1
           /\ Contents \in Seq(Task)
           /\ Len(Contents) = QueuedTasks
           /\ \A i \in 1 .. QueuedTasks : /\ SlotOf(i) \in 0 .. capacity - 1
                                          /\ Contents[i] = tasks[SlotOf(i)]
  <1>1. QueuedTasks \in 0 .. capacity - 1
    BY DEF RingInv, TypeOK, QueuedTasks
  <1>2. \A i \in 1 .. QueuedTasks : SlotOf(i) \in 0 .. capacity - 1
    BY <1>1 DEF RingInv, TypeOK, QueuedTasks, SlotOf
  <1>3. \A i \in 1 .. QueuedTasks : tasks[SlotOf(i)] \in Task
    BY DEF RingInv, QueuedSlotsWritten
  <1>4. Contents \in [1 .. QueuedTasks -> Task]
    BY <1>3 DEF Contents
  <1>5. Contents \in Seq(Task) /\ Len(Contents) = QueuedTasks
    BY <1>1, <1>4
  <1> QED BY <1>1, <1>2, <1>5 DEF Contents

(* Storing a task in a free slot appends it to the contents. *)
LEMMA EnqueueStep ==
    ASSUME RingInv, NEW t \in Task, Enqueue(t)
    PROVE  RingInv' /\ Fifo!Accept(t)
  <1> USE DEF RingInv, TypeOK
  <1>1. tail' = IF tail + 1 = capacity THEN 0 ELSE tail + 1
    BY Wraps DEF Enqueue
  <1>2. QueuedTasks' = QueuedTasks + 1 /\ QueuedTasks + 1 <= capacity - 1
    BY <1>1 DEF Enqueue, IsFull, QueuedTasks
  <1>3. TypeOK'
    BY <1>1 DEF Enqueue
  <1>4. \A i \in 1 .. QueuedTasks : SlotOf(i)' = SlotOf(i) /\ SlotOf(i) # tail /\ SlotOf(i) \in 0 .. capacity - 1
    BY ContentsType DEF Enqueue, SlotOf, QueuedTasks
  <1>5. \A i \in Nat : i = QueuedTasks + 1 => SlotOf(i)' = tail
    BY DEF Enqueue, SlotOf, QueuedTasks
  <1>6. \A i \in 1 .. QueuedTasks' :
            tasks'[SlotOf(i)'] = IF i = QueuedTasks + 1 THEN t ELSE tasks[SlotOf(i)]
    BY <1>2, <1>4, <1>5, ContentsType DEF Enqueue
  <1>7. QueuedSlotsWritten'
    BY <1>2, <1>6, ContentsType DEF QueuedSlotsWritten
  <1>8. Contents' = Append(Contents, t)
    <2>1. Contents' \in [1 .. QueuedTasks' -> Task]
      BY <1>7 DEF Contents, QueuedSlotsWritten
    <2>2. Contents' \in Seq(Task) /\ Len(Contents') = Len(Contents) + 1
      BY <2>1, <1>2, ContentsType
    <2>3. \A i \in 1 .. Len(Contents) + 1 : Contents'[i] = Append(Contents, t)[i]
      <3>1. \A i \in 1 .. QueuedTasks' : Contents'[i] = tasks'[SlotOf(i)']
        BY DEF Contents
      <3> QED BY <3>1, <1>2, <1>6, ContentsType, AppendProperties
    <2>4. Append(Contents, t) \in Seq(Task) /\ Len(Append(Contents, t)) = Len(Contents) + 1
      BY ContentsType, AppendProperties
    <2> QED BY <2>2, <2>3, <2>4, SeqEqual
  <1> QED BY <1>3, <1>7, <1>8 DEF Enqueue, Fifo!Accept

(* Doubling the buffer before storing the task also just appends it. *)
LEMMA GrowStep ==
    ASSUME RingInv, NEW t \in Task, GrowAndEnqueue(t)
    PROVE  RingInv' /\ Fifo!Accept(t)
  <1> USE DEF RingInv, TypeOK
  <1>1. QueuedTasks \in 0 .. capacity - 1
    BY ContentsType
  <1>2. tail' = IF QueuedTasks + 1 = 2 * capacity THEN 0 ELSE QueuedTasks + 1
    BY <1>1, Wraps DEF GrowAndEnqueue
  <1>3. tail' = QueuedTasks + 1
    BY <1>1, <1>2
  <1>4. QueuedTasks' = QueuedTasks + 1
    BY <1>1, <1>3 DEF GrowAndEnqueue, QueuedTasks
  <1>5. \A i \in 0 .. QueuedTasks - 1 : GrownBuffer[i] = tasks[SlotOf(i + 1)]
    BY <1>1 DEF GrownBuffer, SlotOf, QueuedTasks
  <1>6. \A i \in 1 .. QueuedTasks + 1 : SlotOf(i)' = i - 1
    BY <1>1 DEF GrowAndEnqueue, SlotOf
  <1>7. GrownBuffer \in [0 .. 2 * capacity - 1 -> Task \cup {Uninitialized}]
    <2>1. \A i \in 0 .. 2 * capacity - 1 :
              i < QueuedTasks => tasks[SlotOf(i + 1)] \in Task
      BY <1>1 DEF QueuedSlotsWritten
    <2>2. \A i \in 0 .. 2 * capacity - 1 : GrownBuffer[i] \in Task \cup {Uninitialized}
      <3>1. \A i \in 0 .. 2 * capacity - 1 :
                i >= QueuedTasks => GrownBuffer[i] = Uninitialized
        BY DEF GrownBuffer
      <3>2. \A i \in 0 .. 2 * capacity - 1 :
                i < QueuedTasks => GrownBuffer[i] \in Task
        BY <1>1, <1>5, <2>1
      <3> QED BY <1>1, <3>1, <3>2
    <2> QED BY <2>2 DEF GrownBuffer
  <1>8. TypeOK'
    BY <1>1, <1>3, <1>7 DEF GrowAndEnqueue
  <1>9. \A i \in 1 .. QueuedTasks' :
            tasks'[SlotOf(i)'] = IF i = QueuedTasks + 1 THEN t ELSE tasks[SlotOf(i)]
    BY <1>1, <1>4, <1>5, <1>6, <1>7 DEF GrowAndEnqueue
  <1>10. QueuedSlotsWritten'
    BY <1>1, <1>4, <1>9, ContentsType DEF QueuedSlotsWritten
  <1>11. Contents' = Append(Contents, t)
    <2>1. Contents' \in [1 .. QueuedTasks' -> Task]
      BY <1>10 DEF Contents, QueuedSlotsWritten
    <2>2. Contents' \in Seq(Task) /\ Len(Contents') = Len(Contents) + 1
      BY <2>1, <1>1, <1>4, ContentsType
    <2>3. \A i \in 1 .. Len(Contents) + 1 : Contents'[i] = Append(Contents, t)[i]
      <3>1. \A i \in 1 .. QueuedTasks' : Contents'[i] = tasks'[SlotOf(i)']
        BY DEF Contents
      <3> QED BY <3>1, <1>1, <1>4, <1>9, ContentsType, AppendProperties
    <2>4. Append(Contents, t) \in Seq(Task) /\ Len(Append(Contents, t)) = Len(Contents) + 1
      BY ContentsType, AppendProperties
    <2> QED BY <2>2, <2>3, <2>4, SeqEqual
  <1> QED BY <1>8, <1>10, <1>11 DEF GrowAndEnqueue, Fifo!Accept

(* Advancing the head takes the oldest task. *)
LEMMA DequeueStep ==
    ASSUME RingInv, Dequeue
    PROVE  RingInv' /\ Fifo!Take
  <1> USE DEF RingInv, TypeOK
  <1>1. head' = IF head + 1 = capacity THEN 0 ELSE head + 1
    BY Wraps DEF Dequeue
  <1>2. QueuedTasks \in 1 .. capacity - 1 /\ QueuedTasks' = QueuedTasks - 1
    BY <1>1 DEF Dequeue, IsEmpty, QueuedTasks
  <1>3. SlotOf(1) = head
    BY DEF SlotOf
  <1>4. \A i \in 1 .. QueuedTasks' : SlotOf(i)' = SlotOf(i + 1)
    BY <1>1, <1>2 DEF Dequeue, SlotOf, QueuedTasks
  <1>5. tasks[head] = Head(Contents) /\ tasks[head] \in Task /\ Contents # <<>>
    BY <1>2, <1>3, ContentsType
  <1>6. TypeOK'
    BY <1>1, <1>5 DEF Dequeue
  <1>7. \A i \in 1 .. QueuedTasks' : tasks'[SlotOf(i)'] = Contents[i + 1]
    BY <1>2, <1>4, ContentsType DEF Dequeue
  <1>8. QueuedSlotsWritten'
    <2>1. \A i \in 1 .. QueuedTasks' : i + 1 \in 1 .. QueuedTasks
      BY <1>2
    <2>2. \A i \in 1 .. QueuedTasks : Contents[i] \in Task
      BY ContentsType
    <2> QED BY <2>1, <2>2, <1>7 DEF QueuedSlotsWritten
  <1>9. Contents' = Tail(Contents)
    <2>1. Contents' \in [1 .. QueuedTasks' -> Task]
      BY <1>8 DEF Contents, QueuedSlotsWritten
    <2>2. Contents' \in Seq(Task) /\ Len(Contents') = Len(Contents) - 1
      BY <2>1, <1>2, ContentsType
    <2>3. Tail(Contents) \in Seq(Task) /\ Len(Tail(Contents)) = Len(Contents) - 1
      BY <1>5, ContentsType, HeadTailProperties
    <2>4. \A i \in 1 .. Len(Contents) - 1 : Contents'[i] = Tail(Contents)[i]
      <3>1. \A i \in 1 .. QueuedTasks' : Contents'[i] = tasks'[SlotOf(i)']
        BY DEF Contents
      <3>2. \A i \in 1 .. Len(Contents) - 1 : Tail(Contents)[i] = Contents[i + 1]
        BY <1>5, <2>3, ContentsType, HeadTailProperties
      <3>3. Len(Contents) - 1 = QueuedTasks'
        BY <1>2, ContentsType
      <3> QED BY <3>1, <3>2, <3>3, <1>7
    <2> QED BY <2>2, <2>3, <2>4, SeqEqual
  <1> QED BY <1>5, <1>6, <1>8, <1>9 DEF Dequeue, Fifo!Take

(* A refused task and a stuttering step leave the contents alone. *)
LEMMA SameRing ==
    ASSUME UNCHANGED <<tasks, capacity, head, tail>>
    PROVE  Contents' = Contents /\ (QueuedSlotsWritten <=> QueuedSlotsWritten')
  BY DEF Contents, QueuedTasks, SlotOf, QueuedSlotsWritten

(* The ring buffer starts empty, inside its indices. *)
LEMMA InitRing ==
    ASSUME Init
    PROVE  RingInv /\ Fifo!Init
  <1>1. TypeOK
    BY CapacityAssumption DEF Init, TypeOK
  <1>2. QueuedTasks = 0
    BY DEF Init, QueuedTasks
  <1>3. QueuedSlotsWritten
    BY <1>2 DEF QueuedSlotsWritten
  <1>4. RingInv
    BY <1>1, <1>3 DEF RingInv
  <1>5. Contents \in Seq(Task) /\ Len(Contents) = 0
    BY <1>2, <1>4, ContentsType
  <1>6. Contents = <<>>
    BY <1>5
  <1> QED BY <1>4, <1>6 DEF Init, Fifo!Init

(* Every step keeps the invariant and is a step of the abstract queue. *)
LEMMA StepRing ==
    ASSUME RingInv, [Next]_vars
    PROVE  RingInv' /\ [Fifo!Next]_(Fifo!fifoVars)
  <1>1. ASSUME NEW t \in Task, Enqueue(t) PROVE RingInv' /\ Fifo!Next
    BY <1>1, EnqueueStep DEF Fifo!Next
  <1>2. ASSUME NEW t \in Task, GrowAndEnqueue(t) PROVE RingInv' /\ Fifo!Next
    BY <1>2, GrowStep DEF Fifo!Next
  <1>3. CASE EnqueueFails
    <2>1. UNCHANGED <<tasks, capacity, head, tail>> /\ returned' = "refused"
      BY <1>3 DEF EnqueueFails
    <2>2. TypeOK'
      BY <2>1 DEF RingInv, TypeOK
    <2> QED BY <2>1, <2>2, SameRing DEF RingInv, Fifo!Next, Fifo!Refuse
  <1>4. CASE Dequeue
    BY <1>4, DequeueStep DEF Fifo!Next
  <1>5. CASE UNCHANGED vars
    <2>1. UNCHANGED <<tasks, capacity, head, tail, returned>>
      BY <1>5 DEF vars
    <2>2. TypeOK'
      BY <2>1 DEF RingInv, TypeOK
    <2> QED BY <2>1, <2>2, SameRing DEF RingInv, Fifo!fifoVars
  <1> QED BY <1>1, <1>2, <1>3, <1>4, <1>5 DEF Next

(* No wrap and no doubling makes em_task_queue_dequeue return memory that *)
(* em_task_queue_enqueue never wrote.                                     *)
THEOREM NoUninitializedTask == Spec => []QueuedSlotsWritten
  <1>1. Init => RingInv
    BY InitRing
  <1>2. RingInv /\ [Next]_vars => RingInv'
    BY StepRing
  <1>3. RingInv => QueuedSlotsWritten
    BY DEF RingInv
  <1> QED BY <1>1, <1>2, <1>3, PTL DEF Spec

(* em_task_queue.c's ring buffer implements a first-in first-out queue.   *)
THEOREM RingIsFifo == Spec => IsFifo
  <1>1. Init => RingInv /\ Fifo!Init
    BY InitRing
  <1>2. RingInv /\ [Next]_vars => RingInv' /\ [Fifo!Next]_(Fifo!fifoVars)
    BY StepRing
  <1> QED BY <1>1, <1>2, PTL DEF Spec, IsFifo, Fifo!Spec
=============================================================================
