----------------------------- MODULE TaskQueue -----------------------------
(***************************************************************************)
(* The ring buffer of em_task_queue.c: `capacity` slots of which the ones  *)
(* from `head` up to, not including, `tail` hold tasks, wrapping at the    *)
(* end of the buffer, and which doubles when it is full.  Every operation  *)
(* runs under the queue's mutex, so each is one step; the notification     *)
(* flag and the threads around the queue are the subject of Proxying.      *)
(***************************************************************************)
EXTENDS Integers, Sequences

CONSTANTS Task,             \* the tasks
          Uninitialized,    \* the content of a slot malloc'ed, never written
          InitialCapacity,  \* EM_TASK_QUEUE_INITIAL_CAPACITY (128)
          MaxCapacity       \* bound: malloc refuses a larger buffer

ASSUME CapacityAssumption == InitialCapacity \in Nat \ {0} /\ MaxCapacity \in Nat

VARIABLES tasks, capacity, head, tail,
          returned          \* what the last operation returned

vars == <<tasks, capacity, head, tail, returned>>

TypeOK ==
    /\ capacity \in Nat \ {0}
    /\ head \in 0 .. capacity - 1
    /\ tail \in 0 .. capacity - 1
    /\ tasks \in [0 .. capacity - 1 -> Task \cup {Uninitialized}]
    /\ returned \in Task \cup {Uninitialized, "nothing", "accepted", "refused"}

Init ==
    /\ capacity = InitialCapacity
    /\ tasks = [i \in 0 .. InitialCapacity - 1 |-> Uninitialized]
    /\ head = 0
    /\ tail = 0
    /\ returned = "nothing"

IsEmpty == head = tail

IsFull == head = (tail + 1) % capacity

(* The number of queued tasks, as em_task_queue_grow computes it. *)
QueuedTasks == IF head <= tail THEN tail - head ELSE (capacity - head) + tail

(* Mutant of GrownBuffer: only the chunk from head on is copied. *)
GrownFirstChunk ==
    [i \in 0 .. 2 * capacity - 1 |->
        IF i < QueuedTasks /\ head + i < capacity THEN tasks[head + i] ELSE Uninitialized]

(* Mutant of GrownBuffer: the buffer is copied as it lies in memory. *)
GrownAsStored ==
    [i \in 0 .. 2 * capacity - 1 |-> IF i < capacity THEN tasks[i] ELSE Uninitialized]

(* The buffer em_task_queue_grow copies the tasks into: the chunk from    *)
(* head on first, then, if the queue wraps, the chunk at the start of the *)
(* old buffer.                                                            *)
GrownBuffer ==
    [i \in 0 .. 2 * capacity - 1 |->
        IF i >= QueuedTasks THEN Uninitialized
        ELSE IF head <= tail \/ i < capacity - head THEN tasks[head + i]
        ELSE tasks[i - (capacity - head)]]

(* em_task_queue_enqueue when a slot is free. *)
Enqueue(t) ==
    /\ ~IsFull
    /\ tasks' = [tasks EXCEPT ![tail] = t]
    /\ tail' = (tail + 1) % capacity
    /\ returned' = "accepted"
    /\ UNCHANGED <<capacity, head>>

(* em_task_queue_enqueue on a full queue that can grow. *)
GrowAndEnqueue(t) ==
    /\ IsFull
    /\ 2 * capacity <= MaxCapacity
    /\ capacity' = 2 * capacity
    /\ tasks' = [GrownBuffer EXCEPT ![QueuedTasks] = t]
    /\ head' = 0
    /\ tail' = (QueuedTasks + 1) % (2 * capacity)
    /\ returned' = "accepted"

(* em_task_queue_enqueue on a full queue when malloc returns NULL. *)
EnqueueFails ==
    /\ IsFull
    /\ returned' = "refused"
    /\ UNCHANGED <<tasks, capacity, head, tail>>

(* em_task_queue_dequeue; its callers test for an empty queue first. *)
Dequeue ==
    /\ ~IsEmpty
    /\ returned' = tasks[head]
    /\ head' = (head + 1) % capacity
    /\ UNCHANGED <<tasks, capacity, tail>>

Next == \/ \E t \in Task : Enqueue(t) \/ GrowAndEnqueue(t)
        \/ EnqueueFails
        \/ Dequeue

Spec == Init /\ [][Next]_vars

(***************************************************************************)
(* The queue as its users see it, and the refinement.                      *)
(***************************************************************************)

(* The slot of the i-th queued task. *)
SlotOf(i) == IF head + i - 1 < capacity THEN head + i - 1 ELSE head + i - 1 - capacity

(* The queued tasks, oldest first. *)
Contents == [i \in 1 .. QueuedTasks |-> tasks[SlotOf(i)]]

Fifo == INSTANCE TaskFifo WITH queue <- Contents

(* The ring buffer implements a first-in first-out queue: wrapping and    *)
(* doubling (em_task_queue_grow's one or two memcpy calls) lose, repeat   *)
(* and reorder nothing, and a task is refused only without an effect.     *)
IsFifo == Fifo!Spec

(* No queued slot is uninitialized memory, whatever wraps and grows have  *)
(* come before.                                                           *)
QueuedSlotsWritten == \A i \in 1 .. QueuedTasks : tasks[SlotOf(i)] \in Task
=============================================================================
