------------------------------ MODULE TaskFifo ------------------------------
(***************************************************************************)
(* What a task queue promises its users: an unbounded first-in first-out   *)
(* queue of tasks.  A sender is told whether its task was accepted, and a  *)
(* refused task leaves no trace; the executing thread always takes the     *)
(* oldest accepted task.                                                   *)
(***************************************************************************)
EXTENDS Sequences

CONSTANT Task           \* the tasks (function, cancel handler, argument)

VARIABLES queue,        \* the accepted tasks, oldest first
          returned      \* what the last operation returned to its caller

fifoVars == <<queue, returned>>

Init == queue = <<>> /\ returned = "nothing"

(* A task is accepted at the end of the queue. *)
Accept(t) == queue' = Append(queue, t) /\ returned' = "accepted"

(* A task is refused; the queue is as before. *)
Refuse == queue' = queue /\ returned' = "refused"

(* The oldest task leaves the queue. *)
Take == queue # <<>> /\ queue' = Tail(queue) /\ returned' = Head(queue)

Next == (\E t \in Task : Accept(t)) \/ Refuse \/ Take

Spec == Init /\ [][Next]_fifoVars
=============================================================================
