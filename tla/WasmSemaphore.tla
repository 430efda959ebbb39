--------------------------- MODULE WasmSemaphore ---------------------------
(***************************************************************************)
(* The counting semaphore of emscripten_thread_primitives.c over           *)
(* atomic.wait and atomic.notify, and emscripten_semaphore_async_acquire   *)
(* of libwasm_worker.js.                                                   *)
(***************************************************************************)
EXTENDS Integers, FiniteSets, FiniteSetsExt

CONSTANTS Workers,      \* threads that may sleep
          Loops,        \* threads that acquire asynchronously
          Sizes,        \* the numbers of instances asked for
          Total,        \* what emscripten_semaphore_init sets
          MaxRequests   \* bound: the requests each thread makes

Threads == Workers \cup Loops

(* What the constants are assumed to be. *)
WasmSemaphoreAssumption ==
    /\ Workers \cap Loops = {}
    /\ IsFiniteSet(Threads)
    /\ Total \in Nat /\ MaxRequests \in Nat
    /\ Sizes \subseteq 1 .. Total

VARIABLES sem,        \* the semaphore's word
          sleepers,   \* the threads waiting on it, each once for sleeping ...
          orphans,    \* ... and for a waitAsync whose promise nobody looks at
          pc, mode, num, val,
          requests

vars == <<sem, sleepers, orphans, pc, mode, num, val, requests>>

Modes == {"try", "inf", "timed", "async"}

TypeOK ==
    /\ sem \in 0 .. Total
    /\ sleepers \in SUBSET Threads /\ orphans \in SUBSET Loops
    /\ pc \in [Threads -> {"idle", "load", "test", "cas", "asleep", "held", "notify", "thrown"}]
    /\ mode \in [Threads -> Modes]
    /\ num \in [Threads -> 0 .. Total]
    /\ val \in [Threads -> 0 .. Total]
    /\ requests \in [Threads -> 0 .. MaxRequests]

Init ==
    /\ sem = Total
    /\ sleepers = {} /\ orphans = {}
    /\ pc = [t \in Threads |-> "idle"]
    /\ mode = [t \in Threads |-> "try"]
    /\ num = [t \in Threads |-> 0]
    /\ val = [t \in Threads |-> 0]
    /\ requests = [t \in Threads |-> 0]

At(t, place) == pc[t] = place
Go(t, place) == pc' = [pc EXCEPT ![t] = place]

(* try_acquire guesses that exactly num instances are free; the waiting    *)
(* forms load the word first.                                              *)
Request(t, m, n) ==
    /\ At(t, "idle")
    /\ requests[t] < MaxRequests
    /\ m \in {"try"} \cup (IF t \in Workers THEN {"inf", "timed"} ELSE {"async"})
    /\ requests' = [requests EXCEPT ![t] = @ + 1]
    /\ mode' = [mode EXCEPT ![t] = m]
    /\ num' = [num EXCEPT ![t] = n]
    /\ val' = [val EXCEPT ![t] = n]
    /\ Go(t, IF m \in {"try", "async"} THEN "cas" ELSE "load")
    /\ UNCHANGED <<sem, sleepers, orphans>>

Load(t) ==
    /\ At(t, "load")
    /\ val' = [val EXCEPT ![t] = sem]
    /\ Go(t, "test")
    /\ UNCHANGED <<sem, sleepers, orphans, mode, num, requests>>

Enough(t) == val[t] >= num[t]

(* The loop around atomic.wait, and the retry of try_acquire. *)
Test(t) ==
    /\ At(t, "test")
    /\ mode[t] # "async"
    /\ \/ /\ Enough(t)
          /\ Go(t, "cas")
          /\ UNCHANGED sleepers
       \/ /\ ~Enough(t)
          /\ mode[t] \in {"try", "timed"}         \* -1 is returned
          /\ Go(t, "idle")
          /\ UNCHANGED sleepers
       \/ /\ ~Enough(t)
          /\ mode[t] # "try"
          /\ IF sem = val[t]
                THEN sleepers' = sleepers \cup {t} /\ Go(t, "asleep")
                ELSE Go(t, "load") /\ UNCHANGED sleepers
    /\ UNCHANGED <<sem, orphans, mode, num, val, requests>>

(* Mutant of Cas: the new value is stored whatever the word holds by now. *)
CasStores(t) ==
    /\ At(t, "cas")
    /\ mode[t] \in {"inf", "timed"}
    /\ sem' = val[t] - num[t]
    /\ Go(t, "held")
    /\ UNCHANGED <<sleepers, orphans, mode, num, val, requests>>

(* The compare-and-exchange of val by val - num. *)
Cas(t) ==
    /\ At(t, "cas")
    /\ mode[t] # "async"
    /\ IF sem = val[t]
          THEN sem' = sem - num[t] /\ Go(t, "held") /\ UNCHANGED val
          ELSE val' = [val EXCEPT ![t] = sem] /\ Go(t, "test") /\ UNCHANGED sem
    /\ UNCHANGED <<sleepers, orphans, mode, num, requests>>

Woken(t) ==
    /\ At(t, "asleep")
    /\ t \notin sleepers
    /\ Go(t, "load")
    /\ UNCHANGED <<sem, sleepers, orphans, mode, num, val, requests>>

TimesOut(t) ==
    /\ At(t, "asleep")
    /\ t \in sleepers
    /\ mode[t] = "timed"
    /\ sleepers' = sleepers \ {t}
    /\ Go(t, "load")
    /\ UNCHANGED <<sem, orphans, mode, num, val, requests>>

(* tryAcquireSemaphore.  When the word is not exactly num, waitAsync is    *)
(* called with the value found, and then the loop's condition names `wait` *)
(* outside the block that declares it: a ReferenceError is thrown.  The    *)
(* waiter that waitAsync may have registered stays behind.                 *)
AsyncCas(t) ==
    /\ At(t, "cas")
    /\ mode[t] = "async"
    /\ IF sem = val[t]
          THEN sem' = sem - num[t] /\ Go(t, "held") /\ UNCHANGED val
          ELSE val' = [val EXCEPT ![t] = sem] /\ Go(t, "test") /\ UNCHANGED sem
    /\ UNCHANGED <<sleepers, orphans, mode, num, requests>>

AsyncWait(t) ==
    /\ At(t, "test")
    /\ mode[t] = "async"
    /\ orphans' = IF sem = val[t] THEN orphans \cup {t} ELSE orphans
    /\ Go(t, "thrown")
    /\ UNCHANGED <<sem, sleepers, mode, num, val, requests>>

(* emscripten_semaphore_release: the instances are put back, then as many  *)
(* waiters are notified.                                                   *)
ReleaseAdd(t) ==
    /\ At(t, "held")
    /\ sem' = sem + num[t]
    /\ Go(t, "notify")
    /\ UNCHANGED <<sleepers, orphans, mode, num, val, requests>>

(* Mutant of Notified: waiters are notified only if there were no instances. *)
NotifiedIfEmpty(t) == IF sem > num[t] THEN 0 ELSE num[t]

Notified(t) == num[t]

(* The waiters notified are any of those waiting. *)
ReleaseNotify(t) ==
    /\ At(t, "notify")
    /\ \E woken \in SUBSET sleepers, lost \in SUBSET orphans :
          /\ Cardinality(woken) + Cardinality(lost)
                = Min({Notified(t), Cardinality(sleepers) + Cardinality(orphans)})
          /\ sleepers' = sleepers \ woken
          /\ orphans' = orphans \ lost
    /\ Go(t, "idle")
    /\ UNCHANGED <<sem, mode, num, val, requests>>

Step(t) ==
    \/ Load(t) \/ Test(t) \/ Cas(t) \/ Woken(t)
    \/ AsyncCas(t) \/ AsyncWait(t) \/ ReleaseNotify(t)

Next ==
    \E t \in Threads :
        \/ \E m \in Modes, n \in Sizes : Request(t, m, n)
        \/ Step(t) \/ TimesOut(t) \/ ReleaseAdd(t)

Spec == Init /\ [][Next]_vars

-----------------------------------------------------------------------------
(* The instances the threads have acquired, numbered for each thread. *)
Acquired == {x \in Threads \X (1 .. Total) : pc[x[1]] = "held" /\ x[2] <= num[x[1]]}

(* No instance is made or lost, whatever stale value of the count a        *)
(* compare-and-exchange starts from: what the word counts and what the     *)
(* threads have acquired is what the semaphore was initialized with.       *)
InstancesConserved == sem + Cardinality(Acquired) = Total

(* While there are instances enough for a sleeping thread, somebody is     *)
(* about to notify or awake and about to look at the count.  Checked for   *)
(* requests of one size; with several sizes the thread that is woken may   *)
(* be one that asks for too many, and the others sleep on.                 *)
NoStrandedAcquirer ==
    (\E t \in sleepers : sem >= num[t]) =>
        \E t \in Threads : \/ pc[t] \in {"notify", "load", "test", "cas"}
                           \/ pc[t] = "asleep" /\ t \notin sleepers
=============================================================================
