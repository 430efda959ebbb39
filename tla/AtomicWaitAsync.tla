-------------------------- MODULE AtomicWaitAsync --------------------------
(***************************************************************************)
(* emscripten_atomic_wait_async and its cancellation, in libatomic.js: the *)
(* table liveAtomicWaitAsyncs of the waits that have not been answered,    *)
(* the tokens the program names them by, and the runtime's keep-alive      *)
(* count.  The waits of one thread; notifications come from any.           *)
(***************************************************************************)
EXTENDS Integers, FiniteSets

CONSTANTS Addresses,  \* the addresses waited on
          MaxWaits    \* bound: the waits registered

(* What the constants are assumed to be. *)
AtomicWaitAsyncAssumption == MaxWaits \in Nat

Waits == 0 .. MaxWaits - 1

VARIABLES counter,    \* liveAtomicWaitAsyncCounter: the number of the next wait
          live,       \* liveAtomicWaitAsyncs: from a number to its address
          pending,    \* the waits the browser has not been notified of yet
          resolved,   \* the waits whose promise is resolved, its callback not run
          address,    \* the address of each wait made
          called,     \* how often the program's callback was called for each
          canceled,   \* the waits the program was told are canceled
          keepalive   \* runtimeKeepaliveCounter, this module's share

vars == <<counter, live, pending, resolved, address, called, canceled, keepalive>>

TypeOK ==
    /\ counter \in 0 .. MaxWaits
    /\ live \subseteq Waits /\ pending \subseteq Waits /\ resolved \subseteq Waits
    /\ address \in [Waits -> Addresses]
    /\ called \in [Waits -> Nat]
    /\ canceled \subseteq Waits
    /\ keepalive \in Nat

Init ==
    /\ counter = 0
    /\ live = {} /\ pending = {} /\ resolved = {} /\ canceled = {}
    /\ address \in [Waits -> Addresses]
    /\ called = [n \in Waits |-> 0]
    /\ keepalive = 0

(* emscripten_atomic_wait_async when waitAsync registers the wait. *)
WaitAsync ==
    /\ counter < MaxWaits
    /\ counter' = counter + 1
    /\ live' = live \cup {counter}
    /\ pending' = pending \cup {counter}
    /\ keepalive' = keepalive + 1
    /\ UNCHANGED <<resolved, address, called, canceled>>

(* The token returned for a wait, and the number a token is looked up as:  *)
(* only the wait with the number 0 is found by its token.                  *)
Token(n) == -n
Lookup(token) == token

(* Atomics.notify resolves the promises of waiters; a time limit, one. *)
Resolve(ns) ==
    /\ pending' = pending \ ns
    /\ resolved' = resolved \cup ns

AllAt(a) == {n \in pending : address[n] = a}

Notify(a) ==
    /\ \E ns \in (SUBSET AllAt(a)) \ {{}} : Resolve(ns)
    /\ UNCHANGED <<counter, live, address, called, canceled, keepalive>>

(* Mutant of Answers: the callback is called for canceled waits too. *)
AnswersAll(n) == TRUE

Answers(n) == n \in live

(* The promise's reaction runs in the event loop. *)
Answer(n) ==
    /\ n \in resolved
    /\ resolved' = resolved \ {n}
    /\ IF Answers(n)
          THEN /\ called' = [called EXCEPT ![n] = @ + 1]
               /\ live' = live \ {n}
               /\ keepalive' = keepalive - 1
          ELSE UNCHANGED <<called, live, keepalive>>
    /\ UNCHANGED <<counter, pending, address, canceled>>

(* emscripten_atomic_cancel_wait_async of the wait n: every waiter at the  *)
(* address is notified.  A token that is not found is answered with        *)
(* INVALID_PARAM and changes nothing.                                      *)
Cancel(n) ==
    /\ n < counter
    /\ Lookup(Token(n)) \in live
    /\ Resolve(AllAt(address[n]))
    /\ live' = live \ {n}
    /\ canceled' = canceled \cup {n}
    /\ keepalive' = keepalive - 1
    /\ UNCHANGED <<counter, address, called>>

(* emscripten_atomic_cancel_all_wait_asyncs, and with the waits of one     *)
(* address ..._at_address.  Neither gives the keep-alive count back.       *)
CancelAll ==
    /\ live # {}
    /\ Resolve({n \in pending : \E k \in live : address[k] = address[n]})
    /\ live' = {}
    /\ canceled' = canceled \cup live
    /\ UNCHANGED <<counter, address, called, keepalive>>

CancelAllAt(a) ==
    /\ \E n \in live : address[n] = a
    /\ Resolve(AllAt(a))
    /\ live' = {n \in live : address[n] # a}
    /\ canceled' = canceled \cup {n \in live : address[n] = a}
    /\ UNCHANGED <<counter, address, called, keepalive>>

Next ==
    \/ WaitAsync
    \/ \E a \in Addresses : Notify(a) \/ CancelAllAt(a)
    \/ \E n \in Waits : Answer(n) \/ Cancel(n)
    \/ CancelAll

Spec == Init /\ [][Next]_vars

-----------------------------------------------------------------------------
(* A wait is answered once at most, and not at all after the program was   *)
(* told that it is canceled, although canceling a wait resolves its        *)
(* promise and those of all waits at the same address.                     *)
CanceledWaitIsSilent ==
    \A n \in Waits : called[n] <= IF n \in canceled THEN 0 ELSE 1

(* The runtime is kept alive for every wait that may still call back. *)
KeptAliveForWaits == keepalive >= Cardinality(live)
=============================================================================
