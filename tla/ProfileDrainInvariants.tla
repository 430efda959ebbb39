----------------------- MODULE ProfileDrainInvariants -----------------------
(***************************************************************************)
(* The inductive invariant of ProfileDrain from which its safety           *)
(* properties follow, as a conjunction of named parts.                     *)
(***************************************************************************)
EXTENDS ProfileDrain

(* Which call a thread executes follows from where it is. *)
CallMatchesPC ==
    \A t \in Threads :
        /\ call[t] = "create"  <=> pc[t] \in {"acquire", "install"}
        /\ call[t] = "destroy" <=> pc[t] = "destroy"
        /\ call[t] \in FileCall  <=> pc[t] \in OpPC
        /\ call[t] \in DrainCall <=> pc[t] \in DrainPC
        /\ pc[t] = "begin" => call[t] = "scoped"
        /\ pc[t] \in {"opWait", "finalize"} => call[t] = "terminal"
        /\ pc[t] # "close" => todo[t] = {}

(* The two flags under operationMutex admit one drain at a time. *)
OneDrain ==
    \A t \in Threads :
        /\ call[t] = "scoped"   => scopedInProgress
        /\ call[t] = "terminal" => terminalState = "Draining"
        /\ \A u \in Threads :
               call[t] \in DrainCall /\ call[u] \in DrainCall => t = u

(* The reservation admits one leased backend, which is Unleased until its  *)
(* factory has the Web Lock.                                               *)
OneLeaseOwner ==
    /\ lease # "Unleased" => ownerReserved
    /\ installed => lease # "Unleased"
    /\ \A t \in Threads :
        /\ call[t] = "create" => ownerReserved
        /\ pc[t] = "acquire" => lease = "Unleased"
        /\ pc[t] = "install" => lease # "Unleased"
        /\ \A u \in Threads :
               call[t] = "create" /\ call[u] = "create" => t = u

(* A thread holds its WasmFS operation, its backend token and its internal *)
(* operation exactly while it is inside them.                              *)
TokensMatchPC ==
    \A t \in Threads :
        /\ t \in activeOperations <=> call[t] \in FileCall \cup {"create"}
        /\ t \in external <=> pc[t] \in {"token", "inside", "leave", "untoken"}
        /\ t \in internal => pc[t] \in {"inside", "leave"}
        /\ t \in external => lease \in {"Active", "Sealing"}

(* The steps of a drain after the wait of beginDrain. *)
OwnsSeal(t) ==
    \/ pc[t] \in SealedPC
    \/ call[t] = "scoped" /\ pc[t] \in {"libc", "detach", "close"}

(* A sealed lease belongs to exactly one drain, at a known place. *)
SealMatchesDrain ==
    /\ lease # "Sealing" => drainOwner = NoThread
    /\ drainOwner # NoThread => external = {}
    /\ lease = "Sealing" =>
           \E t \in Threads : OwnsSeal(t) \/ pc[t] = "quiesce"
    /\ lease = "Released" => \E t \in Threads : pc[t] = "retire"
    /\ \A t \in Threads :
        /\ OwnsSeal(t) => lease = "Sealing" /\ drainOwner = t
        /\ pc[t] = "quiesce" => lease = "Sealing" /\ drainOwner = NoThread
        /\ pc[t] = "retire" => lease = "Released"
        /\ pc[t] \in {"join", "poll"} => lease = "Retiring"

(* Whose the Web Lock is follows from the lease and from how far the       *)
(* release transaction is.                                                 *)
LockMatchesTxn ==
    /\ lease = "Unleased" => txn = "none" /\ lock # "Self"
    /\ lease = "Active"   => txn = "none" /\ lock = "Self"
    /\ lease = "Sealing" /\ txn \in {"none", "requested"} => lock = "Self"
    /\ txn \in {"released", "done", "witness"} => lock # "Self"
    /\ txn = "requested" => \E t \in Threads : pc[t] = "txn"
    /\ lease \in {"Released", "Retiring", "Retired"} => lock # "Self"
    /\ worker = "cleanup" => lease \in {"Retiring", "Retired"}
    /\ \A t \in Threads :
        /\ pc[t] = "txn" => ~result[t].error
        /\ OwnsSeal(t) /\ pc[t] # "txn" => txn = "none"
        /\ pc[t] = "quiesce" => txn = "none"

(* A drain that has detached the descriptors: nobody else is inside. *)
PastDetach(t) ==
    \/ pc[t] \in {"close", "finalize"} \cup SealedPC
    \/ pc[t] = "quiesce" /\ call[t] = "terminal"

(* An operation that will install or close f's handle. *)
Busy(f) ==
    \E u \in Threads :
        /\ target[u] = f
        /\ \/ call[u] = "close" /\ pc[u] \in {"token", "inside"}
           \/ call[u] = "open" /\ pc[u] = "leave"

(* An open handle is reachable: from the table, from the operation that    *)
(* opens or closes it, or from the drain that detached it.                 *)
HandlesReachable ==
    \A f \in Files : kind[f] = "Access" =>
        /\ lease \in {"Active", "Sealing"}
        /\ \/ f \in table
           \/ Busy(f)
           \/ \E t \in Threads : f \in todo[t]

(* Bytes that were not flushed are in an open handle, or the drain that    *)
(* failed to flush them knows, or the lease is retained for good.          *)
DirtyAccounted ==
    \A f \in dirty :
        \/ lease = "Failed"
        \/ kind[f] = "Access"
        \/ /\ lease \in {"Active", "Sealing"}
           /\ \E t \in Threads : PastDetach(t) /\ result[t].error

(* What a drain has established so far, unless it has recorded an error. *)
DrainProgress ==
    \A t \in Threads :
        /\ PastDetach(t) => table = {}
        /\ call[t] = "terminal" /\ pc[t] # "opWait" => activeOperations = {}
        /\ (pc[t] = "detach" \/ PastDetach(t)) /\ ~result[t].error
               => \A f \in Files : buffered[f] # "early"
        /\ pc[t] \in {"finish", "txn"} /\ ~result[t].error => handles = {}

(* Descriptors exist, and are closed, only while the lease can be used. *)
TableNeedsLease ==
    /\ table # {} => lease \in {"Active", "Sealing"}
    /\ \A t \in Threads : todo[t] # {} => lease \in {"Active", "Sealing"}

HandoffInv ==
    /\ TypeOK
    /\ CallMatchesPC
    /\ OneDrain
    /\ OneLeaseOwner
    /\ TokensMatchPC
    /\ SealMatchesDrain
    /\ LockMatchesTxn
    /\ HandlesReachable
    /\ DirtyAccounted
    /\ DrainProgress
    /\ TableNeedsLease
    /\ StorageGuardedByLock

-----------------------------------------------------------------------------
(* The end of the protocol: the Worker, its gate, and what callers hear.   *)
(* RetirementInv is inductive together with HandoffInv.                    *)

(* The Worker runs as long as the lease may need it, and is cancelled for  *)
(* the retirement only, with its interval cleared and its realm fenced.    *)
WorkerMatchesLease ==
    /\ lease \in {"Active", "Sealing", "Released"} => worker = "running"
    /\ \A t \in Threads : pc[t] = "acquire" => worker = "running"
    /\ worker \in {"cancelled", "exited", "cleanup", "terminated"} =>
           lease \in {"Retiring", "Retired"} /\ fenced /\ ~heartbeat
    /\ worker # "pooled"
    /\ acknowledged => worker = "terminated"
    /\ lease = "Retired" => acknowledged

(* A finished transaction has stopped the heartbeat and seen no handle. *)
HeartbeatMatchesTxn ==
    /\ txn = "done" => ~heartbeat
    /\ txn # "witness"
    /\ stopClaimed =>
           ~heartbeat /\ lease \in {"Released", "Retiring", "Retired"}

(* Behind the closed gate no destructor is left. *)
PastGate == lease \in {"Released", "Retiring", "Retired", "Failed"}

GateMatchesDrain ==
    /\ destructors # {} => installed
    /\ PastGate => gateClosed /\ destructors = {}
    /\ \A t \in Threads :
        /\ pc[t] = "destroy" => t \in destructors
        /\ pc[t] = "gateWait" => gateClosed
        /\ pc[t] \in {"fence", "preflight", "finish", "txn"}
               => gateClosed /\ destructors = {}

(* A terminal drain detaches everything before it goes on. *)
TerminalPastDetach(t) ==
    call[t] = "terminal" /\ pc[t] \notin {"opWait", "libc", "detach"}

(* How far a drain has come, and what it has put in its record. *)
ResultAccounted(t) ==
    LET r == result[t]
    IN  /\ r.released => lease \in {"Released", "Retiring", "Retired"}
        /\ r.retired => lease = "Retired"
        /\ call[t] \in DrainCall => r.status = "running" /\ r.drain = call[t]
        /\ call[t] = "scoped"
              /\ (OwnsSeal(t) \/ pc[t] \in {"retire", "join", "poll"})
               => r.sealed
        /\ call[t] = "scoped" /\ pc[t] \in {"retire", "join", "poll"}
               => r.released
        /\ TerminalPastDetach(t) => table = {}
        /\ call[t] = "scoped" /\ pc[t] = "end" /\ ~r.error
               => r.sealed /\ r.released /\ r.retired
        /\ call[t] = "terminal" /\ pc[t] = "end" /\ ~r.error
               => lease \in {"Unleased", "Retired"}
        /\ r.status = "ok" /\ r.drain = "scoped"
               => r.sealed /\ r.released /\ r.retired
        /\ r.status = "ok" /\ r.drain = "terminal"
               => terminalState = "Drained"

ResultMatchesDrain == \A t \in Threads : ResultAccounted(t)

(* After a successful terminal drain nothing is left, and nothing begins. *)
DrainedForGood ==
    terminalState = "Drained" =>
        /\ lease \in {"Unleased", "Retired"}
        /\ table = {}
        /\ activeOperations = {}

RetirementInv ==
    /\ WorkerMatchesLease
    /\ HeartbeatMatchesTxn
    /\ GateMatchesDrain
    /\ ResultMatchesDrain
    /\ DrainedForGood
=============================================================================
