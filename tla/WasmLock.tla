------------------------------ MODULE WasmLock ------------------------------
(***************************************************************************)
(* The lock and the condition variable of emscripten_thread_primitives.c,  *)
(* and the asynchronous forms of libwasm_worker.js, over atomic.wait and   *)
(* atomic.notify.  A thread is either a worker, which sleeps, or an event  *)
(* loop, which asks for the lock and is called back.                       *)
(***************************************************************************)
EXTENDS Integers, FiniteSets

CONSTANTS Workers,      \* threads that may sleep
          Loops,        \* threads that use the asynchronous operations
          MaxRequests,  \* bound: the requests for the lock each thread makes
          MaxSignals    \* bound: the signals sent (the counter has 32 bits)

Threads == Workers \cup Loops

(* What the constants are assumed to be. *)
WasmLockAssumption ==
    /\ Workers \cap Loops = {}
    /\ IsFiniteSet(Threads)
    /\ MaxRequests \in Nat /\ MaxSignals \in Nat

Lock == "lock"
Condvar == "condvar"

VARIABLES word,       \* the memory words of the lock and the condition variable
          sleepers,   \* the threads waiting on each of them
          pc,         \* where each thread is
          mode,       \* how each thread asks for the lock
          then,       \* where each thread goes on after the call it is in
          seen,       \* the condition variable's value each thread has loaded
          left,       \* its value when the thread released the lock to wait
          broadcast,  \* its value after the last signal to all (not in the code)
          requests

vars == <<word, sleepers, pc, mode, then, seen, left, broadcast, requests>>

Modes == {"try", "inf", "timed", "spin", "timedspin", "async", "asyncnow"}

Places == {"idle", "cas", "wait", "asleep", "held", "store", "notify",
           "cvwait", "cvasleep", "signalone", "signalall"}

Signalling == {"signalone", "signalall"}

TypeOK ==
    /\ word \in [{Lock, Condvar} -> Nat]
    /\ word[Lock] \in 0 .. 1
    /\ sleepers \in [{Lock, Condvar} -> SUBSET Threads]
    /\ pc \in [Threads -> Places]
    /\ mode \in [Threads -> Modes]
    /\ then \in [Threads -> {"idle", "held", "cvwait"}]
    /\ seen \in [Threads -> Nat] /\ left \in [Threads -> Nat]
    /\ broadcast \in Nat
    /\ requests \in [Threads -> 0 .. MaxRequests]

Init ==
    /\ word = [a \in {Lock, Condvar} |-> 0]
    /\ sleepers = [a \in {Lock, Condvar} |-> {}]
    /\ pc = [t \in Threads |-> "idle"]
    /\ mode = [t \in Threads |-> "try"]
    /\ then = [t \in Threads |-> "idle"]
    /\ seen = [t \in Threads |-> 0] /\ left = [t \in Threads |-> 0]
    /\ broadcast = 0
    /\ requests = [t \in Threads |-> 0]

At(t, place) == pc[t] = place
Go(t, place) == pc' = [pc EXCEPT ![t] = place]

(* atomic.notify: at most n of the sleepers are woken. *)
Notify(a, n) ==
    \E woken \in SUBSET sleepers[a] :
        /\ Cardinality(woken) = IF Cardinality(sleepers[a]) < n
                                   THEN Cardinality(sleepers[a]) ELSE n
        /\ sleepers' = [sleepers EXCEPT ![a] = @ \ woken]

Leave(t, a) == sleepers' = [sleepers EXCEPT ![a] = @ \ {t}]

-----------------------------------------------------------------------------
(* emscripten_lock_*acquire.  A mode says how: try once, wait, wait with a *)
(* time limit, spin, spin with a time limit, or ask asynchronously with a  *)
(* time limit that is positive or, "asyncnow", zero.                       *)

Request(t, m) ==
    /\ At(t, "idle")
    /\ requests[t] < MaxRequests
    /\ m \in {"try", "spin", "timedspin"} \cup
             (IF t \in Workers THEN {"inf", "timed"} ELSE {"async", "asyncnow"})
    /\ requests' = [requests EXCEPT ![t] = @ + 1]
    /\ mode' = [mode EXCEPT ![t] = m]
    /\ then' = [then EXCEPT ![t] = "idle"]
    /\ Go(t, "cas")
    /\ UNCHANGED <<word, sleepers, seen, left, broadcast>>

(* The compare-and-exchange of 0 by 1. *)
Cas(t) ==
    /\ At(t, "cas")
    /\ IF word[Lock] = 0
          THEN word' = [word EXCEPT ![Lock] = 1] /\ Go(t, "held")
          ELSE /\ Go(t, CASE mode[t] = "try" -> "idle"
                          [] mode[t] \in {"spin", "timedspin"} -> "cas"
                          [] OTHER -> "wait")
               /\ UNCHANGED word
    /\ UNCHANGED <<sleepers, mode, then, seen, left, broadcast, requests>>

(* The time limit of a wait or of a spin is over: false is returned.  The  *)
(* callback of an asynchronous request is called with ATOMICS_WAIT_TIMED_- *)
(* OUT only when waitAsync returns that at once, for a limit of zero.      *)
GiveUp(t) ==
    /\ \/ At(t, "wait") /\ mode[t] = "timed"
       \/ At(t, "wait") /\ mode[t] = "asyncnow" /\ word[Lock] = 1
       \/ At(t, "cas") /\ mode[t] = "timedspin"
    /\ Go(t, "idle")
    /\ UNCHANGED <<word, sleepers, mode, then, seen, left, broadcast, requests>>

(* atomic.wait, or Atomics.waitAsync. *)
Wait(t) ==
    /\ At(t, "wait")
    /\ \/ /\ word[Lock] = 1
          /\ mode[t] # "asyncnow"
          /\ sleepers' = [sleepers EXCEPT ![Lock] = @ \cup {t}]
          /\ Go(t, "asleep")
       \/ /\ word[Lock] # 1
          /\ Go(t, "cas")
          /\ UNCHANGED sleepers
    /\ UNCHANGED <<word, mode, then, seen, left, broadcast, requests>>

(* The wait ends, notified or out of time; either way the lock is tried    *)
(* again, by tryAcquireLock too.                                           *)
Woken(t) ==
    /\ At(t, "asleep")
    /\ t \notin sleepers[Lock]
    /\ Go(t, "cas")
    /\ UNCHANGED <<word, sleepers, mode, then, seen, left, broadcast, requests>>

TimesOut(t) ==
    /\ At(t, "asleep")
    /\ t \in sleepers[Lock]
    /\ mode[t] \in {"timed", "async"}
    /\ Leave(t, Lock)
    /\ Go(t, "cas")
    /\ UNCHANGED <<word, mode, then, seen, left, broadcast, requests>>

-----------------------------------------------------------------------------
(* emscripten_lock_release, also as the second step of a condition wait. *)

Release(t) ==
    /\ At(t, "held")
    /\ then' = [then EXCEPT ![t] = "idle"]
    /\ Go(t, "store")
    /\ UNCHANGED <<word, sleepers, mode, seen, left, broadcast, requests>>

ReleaseStore(t) ==
    /\ At(t, "store")
    /\ word' = [word EXCEPT ![Lock] = 0]
    /\ left' = [left EXCEPT ![t] = word[Condvar]]
    /\ Go(t, "notify")
    /\ UNCHANGED <<sleepers, mode, then, seen, broadcast, requests>>

ReleaseNotify(t) ==
    /\ At(t, "notify")
    /\ Notify(Lock, 1)
    /\ Go(t, then[t])
    /\ UNCHANGED <<word, mode, then, seen, left, broadcast, requests>>

-----------------------------------------------------------------------------
(* The condition variable. *)

(* emscripten_condvar_waitinf, _wait and _wait_async start by loading the  *)
(* counter while the lock is held.                                         *)
CondWait(t, m) ==
    /\ At(t, "held")
    /\ m \in (IF t \in Workers THEN {"inf", "timed"} ELSE {"async"})
    /\ mode' = [mode EXCEPT ![t] = m]
    /\ seen' = [seen EXCEPT ![t] = word[Condvar]]
    /\ then' = [then EXCEPT ![t] = "cvwait"]
    /\ Go(t, "store")
    /\ UNCHANGED <<word, sleepers, left, broadcast, requests>>

(* After the wait a worker takes the lock again, and returns false without *)
(* it when a time limit is over.  An event loop is called back, and has no *)
(* lock.                                                                   *)
AfterCondWait(t) == IF t \in Workers THEN "cas" ELSE "idle"

(* Mutant of CondSleep: the counter is compared with its own value. *)
CondSleepAnyway(t) ==
    /\ At(t, "cvwait")
    /\ sleepers' = [sleepers EXCEPT ![Condvar] = @ \cup {t}]
    /\ Go(t, "cvasleep")
    /\ UNCHANGED <<word, mode, then, seen, left, broadcast, requests>>

CondSleep(t) ==
    /\ At(t, "cvwait")
    /\ IF word[Condvar] = seen[t]
          THEN sleepers' = [sleepers EXCEPT ![Condvar] = @ \cup {t}] /\ Go(t, "cvasleep")
          ELSE Go(t, AfterCondWait(t)) /\ UNCHANGED sleepers
    /\ UNCHANGED <<word, mode, then, seen, left, broadcast, requests>>

CondWoken(t) ==
    /\ At(t, "cvasleep")
    /\ t \notin sleepers[Condvar]
    /\ Go(t, AfterCondWait(t))
    /\ UNCHANGED <<word, sleepers, mode, then, seen, left, broadcast, requests>>

(* Mutant of AfterCondTimeout: the wait returns as if it had the lock. *)
AfterCondTimeoutHeld == "held"

AfterCondTimeout == "idle"

CondTimesOut(t) ==
    /\ At(t, "cvasleep")
    /\ t \in sleepers[Condvar]
    /\ mode[t] # "inf"
    /\ Leave(t, Condvar)
    /\ Go(t, AfterCondTimeout)
    /\ UNCHANGED <<word, mode, then, seen, left, broadcast, requests>>

(* emscripten_condvar_signal, with or without the lock: the counter first, *)
(* then the sleepers.                                                      *)
Signal(t, all) ==
    /\ At(t, "idle") \/ At(t, "held")
    /\ word[Condvar] < MaxSignals
    /\ word' = [word EXCEPT ![Condvar] = @ + 1]
    /\ broadcast' = IF all THEN word[Condvar] + 1 ELSE broadcast
    /\ then' = [then EXCEPT ![t] = pc[t]]
    /\ Go(t, IF all THEN "signalall" ELSE "signalone")
    /\ UNCHANGED <<sleepers, mode, seen, left, requests>>

SignalNotify(t) ==
    /\ pc[t] \in Signalling
    /\ Notify(Condvar, IF At(t, "signalall") THEN Cardinality(Threads) ELSE 1)
    /\ Go(t, then[t])
    /\ UNCHANGED <<word, mode, then, seen, left, broadcast, requests>>

-----------------------------------------------------------------------------
(* The steps of a call that has begun. *)
Step(t) ==
    \/ Cas(t) \/ Wait(t) \/ Woken(t)
    \/ ReleaseStore(t) \/ ReleaseNotify(t)
    \/ CondSleep(t) \/ CondWoken(t) \/ SignalNotify(t)

(* The passing of time. *)
Time(t) == GiveUp(t) \/ TimesOut(t) \/ CondTimesOut(t)

(* What the program chooses to do. *)
Program(t) ==
    \/ \E m \in Modes : Request(t, m) \/ CondWait(t, m)
    \/ Release(t)
    \/ \E all \in BOOLEAN : Signal(t, all)

Next == \E t \in Threads : Step(t) \/ Time(t) \/ Program(t)

Spec == Init /\ [][Next]_vars

-----------------------------------------------------------------------------
(* The threads that hold the lock: in the critical section, still inside   *)
(* a signal sent from it, or not yet through emscripten_lock_release.      *)
Holders ==
    {t \in Threads : \/ pc[t] \in {"held", "store"}
                     \/ pc[t] \in Signalling /\ then[t] = "held"}

(* The lock word tells the truth: it is 1 exactly when one thread holds    *)
(* the lock, through condition waits that end with or without the lock.    *)
LockWordIsTruthful == word[Lock] = Cardinality(Holders)

(* No release is lost: when the lock is free while threads sleep on it,    *)
(* a release has not notified yet or a thread that is awake is about to    *)
(* try the lock, and will notify in its turn.                              *)
NoStrandedSleeper ==
    word[Lock] = 0 /\ sleepers[Lock] # {} =>
        \E t \in Threads : \/ pc[t] \in {"notify", "cas", "wait"}
                           \/ pc[t] = "asleep" /\ t \notin sleepers[Lock]

(* A signal to all waiters reaches every thread that had released the lock *)
(* to wait: none of them sleeps on, however the signal falls between the   *)
(* release and the sleep.                                                  *)
BroadcastReachesWaiters ==
    \A t \in sleepers[Condvar] :
        left[t] < broadcast => \E u \in Threads : pc[u] = "signalall"
=============================================================================
