----------------------------- MODULE RemoteCall -----------------------------
(***************************************************************************)
(* What the proxying API (emscripten/proxying.h) promises of a call that   *)
(* one thread sends to another: its function runs at most once, its caller *)
(* hears at most one answer, hears success only after the function has     *)
(* run, and once it has its answer nothing more happens to the call.       *)
(***************************************************************************)
EXTENDS Naturals

CONSTANT Calls          \* the calls a program makes

VARIABLES status,       \* how far each call is
          runs          \* how often the function of each call was entered

callVars == <<status, runs>>

Init == /\ status = [c \in Calls |-> "unused"]
        /\ runs = [c \in Calls |-> 0]

Becomes(c, s) == status' = [status EXCEPT ![c] = s] /\ UNCHANGED runs

(* A thread makes the call. *)
Issue(c) == status[c] = "unused" /\ Becomes(c, "issued")

(* The target thread enters the function. *)
Run(c) == /\ status[c] = "issued"
          /\ status' = [status EXCEPT ![c] = "running"]
          /\ runs' = [runs EXCEPT ![c] = @ + 1]

(* The caller learns that the function has finished. *)
Complete(c) == status[c] = "running" /\ Becomes(c, "completed")

(* The caller learns that the call was refused or canceled; a refusal may *)
(* come before anything has been set up.                                  *)
Fail(c) == status[c] \in {"unused", "issued", "running"} /\ Becomes(c, "failed")

(* Nobody is left to be told, or nobody asked to be. *)
Drop(c) == status[c] \in {"issued", "running"} /\ Becomes(c, "dropped")

Next == \E c \in Calls : Issue(c) \/ Run(c) \/ Complete(c) \/ Fail(c) \/ Drop(c)

Spec == Init /\ [][Next]_callVars
=============================================================================
