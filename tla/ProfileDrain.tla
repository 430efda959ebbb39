---------------------------- MODULE ProfileDrain ----------------------------
(***************************************************************************)
(* The leased-OPFS profile protocol of WasmFS: application pthreads run    *)
(* public operations on one OPFS backend that owns a cooperative Web Lock, *)
(* while any of them may call wasmfs_drain_opfs_profile_backend (the       *)
(* scoped drain) or wasmfs_terminal_drain.  Both drains fence out new      *)
(* work, flush and close what is open, release the lock in a transaction   *)
(* run by the backend's dedicated Worker, and retire that Worker.          *)
(*                                                                         *)
(* Processes: the application threads, the dedicated OPFS Worker, the      *)
(* browser main thread, and a rival document that wants the same lock.     *)
(* Counters that hold at most one unit per thread are modelled by the set  *)
(* of the threads that contribute the unit.                                *)
(***************************************************************************)
EXTENDS FiniteSets, Naturals

CONSTANTS Threads,     \* application pthreads
          Files,       \* files of the leased backend
          NoThread,    \* the null value of the TLS pointer drainState
          NoFile       \* an operation without a target file

ASSUME ThreadsAssumption == NoThread \notin Threads
ASSUME FilesAssumption == NoFile \notin Files

VARIABLES
    \* class WasmFS
    terminalState,     \* TerminalState
    scopedInProgress,  \* scopedProfileDrainInProgress
    activeOperations,  \* threads counted by WasmFS::activeOperations
    ownerReserved,     \* terminalLeaseOwnerReserved
    installed,         \* the leased backend is in backendTable
    table,             \* files with a descriptor in the FileTable
    \* class ProfileLeaseState and class TerminalCloseState
    lease,             \* State
    external,          \* threads holding an external token
    internal,          \* threads inside a tracked InternalOperation
    drainOwner,        \* the thread whose drainState points here
    gateClosed,        \* destructorProxyingClosed
    destructors,       \* threads counted by destructorProxyOperations
    closeFailed,       \* TerminalCloseState::firstError # 0
    \* class OpenState, one per file, and libc's FILE buffers
    kind,              \* OpenState::Kind
    buffered,          \* bytes in a FILE buffer: none, or when they got there
    dirty,             \* files whose handle has bytes that were not flushed
    \* class ProxyWorker, PThread (browser main) and the Worker's JS realm
    worker,            \* the dedicated pthread and its browser Worker
    fenced,            \* retirementFenced / worker.retireOnExit
    acknowledged,      \* cleanupAcknowledged of the retirement ticket
    stopClaimed,       \* ProxyWorker::heartbeatStopped
    heartbeat,         \* the JS interval that executes the queue is running
    staleHeartbeat,    \* an interval outlived the queue it executes
    handles,           \* live SyncAccessHandle slots of the JS allocator
    txn,               \* progress of the release-and-retire transaction
    lock,              \* who holds the profile's Web Lock
    \* the application threads
    pc,                \* where each thread is
    call,              \* the operation or drain it is executing
    target,            \* the file that operation is about
    todo,              \* the drain's closees not yet closed
    result             \* the drain result record of each thread

fsVars     == <<terminalState, scopedInProgress, activeOperations,
                ownerReserved, installed>>
leaseVars  == <<lease, external, internal, drainOwner>>
gateVars   == <<gateClosed, destructors>>
fileVars   == <<table, kind, buffered, dirty, handles, closeFailed>>
workerVars == <<worker, fenced, acknowledged, stopClaimed, heartbeat,
                staleHeartbeat, txn>>
callVars   == <<pc, call, target, todo, result>>
vars == <<fsVars, leaseVars, gateVars, fileVars, workerVars, lock, callVars>>

-----------------------------------------------------------------------------
(* Types *)

TerminalState == {"Running", "Draining", "Drained", "Failed"}
LeaseState    == {"Unleased", "Active", "Sealing", "Released", "Retiring",
                  "Retired", "Failed"}
Kind          == {"None", "Access", "FailedAccessClose"}
Buffer        == {"none", "early", "late"}
WorkerState   == {"absent", "running", "abandoned", "cancelled", "exited",
                  "cleanup", "terminated", "pooled"}
Txn           == {"none", "requested", "released", "done", "witness",
                  "rejected", "interrupted"}
FileCall      == {"open", "write", "sync", "close"}
DrainCall     == {"scoped", "terminal"}
Call          == FileCall \cup DrainCall \cup {"none", "create", "destroy"}

OpPC    == {"admitted", "token", "inside", "leave", "untoken", "release"}
DrainPC == {"begin", "opWait", "quiesce", "libc", "detach", "close",
            "finalize", "gate", "gateWait", "fence", "preflight", "finish",
            "txn", "retire", "join", "poll", "end"}
PC      == OpPC \cup DrainPC \cup {"idle", "acquire", "install", "destroy"}

(* The fields of the two drain results that a caller decides on.  `status` *)
(* is "running" until the call returns zero ("ok") or an error.  Only a    *)
(* scoped drain reports backend_sealed, lease_released and backend_retired.*)
Result == [status  : {"none", "running", "ok", "error"},
           drain   : DrainCall \cup {"none"},
           error   : BOOLEAN,
           sealed  : BOOLEAN,
           released: BOOLEAN,
           retired : BOOLEAN]

NoResult == [status |-> "none", drain |-> "none", error |-> FALSE,
             sealed |-> FALSE, released |-> FALSE, retired |-> FALSE]

(* A drain zeroes its result record on entry. *)
FreshResult(kindOfDrain) ==
    [NoResult EXCEPT !.status = "running", !.drain = kindOfDrain]

TypeOK ==
    /\ terminalState \in TerminalState
    /\ scopedInProgress \in BOOLEAN
    /\ activeOperations \subseteq Threads
    /\ ownerReserved \in BOOLEAN
    /\ installed \in BOOLEAN
    /\ table \subseteq Files
    /\ lease \in LeaseState
    /\ external \subseteq Threads
    /\ internal \subseteq Threads
    /\ drainOwner \in Threads \cup {NoThread}
    /\ gateClosed \in BOOLEAN
    /\ destructors \subseteq Threads
    /\ closeFailed \in BOOLEAN
    /\ kind \in [Files -> Kind]
    /\ buffered \in [Files -> Buffer]
    /\ dirty \subseteq Files
    /\ worker \in WorkerState
    /\ fenced \in BOOLEAN
    /\ acknowledged \in BOOLEAN
    /\ stopClaimed \in BOOLEAN
    /\ heartbeat \in BOOLEAN
    /\ staleHeartbeat \in BOOLEAN
    /\ handles \subseteq Files
    /\ txn \in Txn
    /\ lock \in {"Free", "Self", "Rival"}
    /\ pc \in [Threads -> PC]
    /\ call \in [Threads -> Call]
    /\ target \in [Threads -> Files \cup {NoFile}]
    /\ todo \in [Threads -> SUBSET Files]
    /\ result \in [Threads -> Result]
    /\ \A t \in Threads : /\ pc[t] = "idle" <=> call[t] = "none"
                          /\ target[t] # NoFile <=> call[t] \in FileCall

Init ==
    /\ terminalState = "Running"
    /\ scopedInProgress = FALSE
    /\ activeOperations = {}
    /\ ownerReserved = FALSE
    /\ installed = FALSE
    /\ table = {}
    /\ lease = "Unleased"
    /\ external = {}
    /\ internal = {}
    /\ drainOwner = NoThread
    /\ gateClosed = FALSE
    /\ destructors = {}
    /\ closeFailed = FALSE
    /\ kind = [f \in Files |-> "None"]
    /\ buffered = [f \in Files |-> "none"]
    /\ dirty = {}
    /\ worker = "absent"
    /\ fenced = FALSE
    /\ acknowledged = FALSE
    /\ stopClaimed = FALSE
    /\ heartbeat = FALSE
    /\ staleHeartbeat = FALSE
    /\ handles = {}
    /\ txn = "none"
    /\ lock = "Free"
    /\ pc = [t \in Threads |-> "idle"]
    /\ call = [t \in Threads |-> "none"]
    /\ target = [t \in Threads |-> NoFile]
    /\ todo = [t \in Threads |-> {}]
    /\ result = [t \in Threads |-> NoResult]

-----------------------------------------------------------------------------
(* Helpers: the tests that admit, count and wait *)

Goto(t, label) == pc' = [pc EXCEPT ![t] = label]

(* A thread starts a call when it is idle, and is idle again when it ends. *)
Enter(t, label, c, f) ==
    /\ pc[t] = "idle"
    /\ Goto(t, label)
    /\ call' = [call EXCEPT ![t] = c]
    /\ target' = [target EXCEPT ![t] = f]

Return(t) ==
    /\ Goto(t, "idle")
    /\ call' = [call EXCEPT ![t] = "none"]
    /\ target' = [target EXCEPT ![t] = NoFile]

(* WasmFS::Operation: only a Running instance admits a new operation. *)
AdmitsOperation == terminalState = "Running"

(* Mutant of AdmitsExternal: a seal does not refuse new tokens. *)
AdmitsWhileSealing == lease \in {"Active", "Sealing"}

(* ProfileLeaseState::acquireExternalOperation.  Unleased admits without a *)
(* token, but a leased backend is installed only when it is Active.        *)
AdmitsExternal == lease = "Active"

(* Mutant of AdmitsInternal: only the drain passes while Sealing. *)
AdmitsOnlyTheDrain(t) ==
    lease \in {"Unleased", "Active"} \/ (lease = "Sealing" /\ drainOwner = t)

(* ProfileLeaseState::InternalOperation.  The thread that owns the drain   *)
(* and a thread whose token predates the seal pass while Sealing.          *)
AdmitsInternal(t) ==
    \/ lease \in {"Unleased", "Active"}
    \/ lease = "Sealing" /\ (drainOwner = t \/ t \in external)

(* Mutant of Quiescent: the wait forgets the external tokens. *)
QuiescentInside == internal = {}

(* ProfileLeaseState::beginDrain waits for activeOperations == 0: external *)
(* tokens and tracked internal operations share that counter.              *)
Quiescent == external = {} /\ internal = {}

(* Mutant of DestructorsDrained: the gate closes without waiting. *)
DestructorsIgnored == TRUE

(* ProfileLeaseState::closeDestructorProxying waits for this. *)
DestructorsDrained == destructors = {}

HasLiveLease == lease \in {"Active", "Sealing", "Failed"}

(* Mutant of HasIncompleteScopedDrain: a stuck retirement is forgotten. *)
HasFailedScopedDrain == lease = "Failed"

HasIncompleteScopedDrain == lease \in {"Failed", "Retiring"}

(* Mutant of MayDrain: a scoped drain does not exclude a terminal one. *)
MayDrainUnlessTerminal == terminalState = "Running"

(* What both kinds of drain test under operationMutex before they start. *)
MayDrain == terminalState = "Running" /\ ~scopedInProgress

(* std::thread::joinable() of the ProxyWorker. *)
Joinable == worker \in {"running", "cancelled", "exited"}

(* ProxyWorker::abandonScopedProfileWorker: detach and leak the queue. *)
Abandon == worker' = IF Joinable THEN "abandoned" ELSE worker

(* Mutant of Record: the last step decides. *)
RecordLast(t, failed) == [result EXCEPT ![t].error = failed]

(* recordDrainError and its scoped twin keep the first error only. *)
Record(t, failed) == [result EXCEPT ![t].error = @ \/ failed]

-----------------------------------------------------------------------------
(* wasmfs_create_opfs_backend_with_profile_lease *)

(* Operation, reservation, and a ProxyWorker whose heartbeat runs before   *)
(* the constructor returns.  A taken reservation is EBUSY: no change.      *)
CreateReserve(t) ==
    /\ AdmitsOperation
    /\ ~ownerReserved
    /\ Enter(t, "acquire", "create", NoFile)
    /\ activeOperations' = activeOperations \cup {t}
    /\ ownerReserved' = TRUE
    /\ worker' = "running"
    /\ heartbeat' = TRUE
    /\ UNCHANGED <<terminalState, scopedInProgress, installed, leaseVars,
                   gateVars, fileVars, fenced, acknowledged, stopClaimed,
                   staleHeartbeat, txn, lock, todo, result>>

(* The Worker asks for the Web Lock with ifAvailable. *)
AcquireLease(t) ==
    /\ pc[t] = "acquire"
    /\ lock = "Free"
    /\ lock' = "Self"
    /\ lease' = "Active"
    /\ Goto(t, "install")
    /\ UNCHANGED <<fsVars, external, internal, drainOwner, gateVars, fileVars,
                   workerVars, call, target, todo, result>>

(* EBUSY, ENOSYS or EIO: the reservation is cancelled and the backend is   *)
(* destroyed.  ~ProxyWorker cancels and joins the pthread, the unfenced    *)
(* Worker returns to the pool, and the queue is freed; nothing stops the   *)
(* interval that _wasmfs_thread_utils_heartbeat started in that Worker.    *)
AcquireFails(t) ==
    /\ pc[t] = "acquire"
    /\ ownerReserved' = FALSE
    /\ worker' = "absent"
    /\ heartbeat' = FALSE
    /\ staleHeartbeat' = (staleHeartbeat \/ heartbeat)
    /\ activeOperations' = activeOperations \ {t}
    /\ Return(t)
    /\ UNCHANGED <<terminalState, scopedInProgress, installed, leaseVars,
                   gateVars, fileVars, fenced, acknowledged, stopClaimed, txn,
                   lock, todo, result>>

(* WasmFS::addBackend is nested in the factory's own operation. *)
AddBackend(t) ==
    /\ pc[t] = "install"
    /\ installed' = TRUE
    /\ activeOperations' = activeOperations \ {t}
    /\ Return(t)
    /\ UNCHANGED <<terminalState, scopedInProgress, ownerReserved, leaseVars,
                   gateVars, fileVars, workerVars, lock, todo, result>>

-----------------------------------------------------------------------------
(* A public operation on a file of the leased backend *)

(* Which files a call may name.  A descriptor call looks its open file up  *)
(* before it is admitted to the backend, so the file may be detached or    *)
(* closed by the time it gets there.  One open-file state per file at a    *)
(* time: openCount is not part of this module.                             *)
MayTarget(c, f) ==
    IF c = "open"
    THEN /\ f \notin table
         /\ kind[f] # "Access"
         /\ \A u \in Threads : ~(call[u] = "open" /\ target[u] = f)
    ELSE f \in table

OperationBegin(t, c, f) ==
    /\ installed
    /\ AdmitsOperation
    /\ MayTarget(c, f)
    /\ Enter(t, "admitted", c, f)
    /\ activeOperations' = activeOperations \cup {t}
    /\ UNCHANGED <<terminalState, scopedInProgress, ownerReserved, installed,
                   leaseVars, gateVars, fileVars, workerVars, lock, todo,
                   result>>

(* Operation::admitBackend.  fd_close admits and clears its table slot     *)
(* under the table lock; an empty slot is EBADF before any admission.      *)
AdmitBackend(t) ==
    /\ pc[t] = "admitted"
    /\ AdmitsExternal
    /\ call[t] = "close" => target[t] \in table
    /\ external' = external \cup {t}
    /\ table' = IF call[t] = "close" THEN table \ {target[t]} ELSE table
    /\ Goto(t, "token")
    /\ UNCHANGED <<fsVars, lease, internal, drainOwner, gateVars, kind,
                   buffered, dirty, handles, closeFailed, workerVars, lock,
                   call, target, todo, result>>

RefuseBackend(t) ==
    /\ pc[t] = "admitted"
    /\ \/ ~AdmitsExternal
       \/ call[t] = "close" /\ target[t] \notin table
    /\ Goto(t, "release")
    /\ UNCHANGED <<fsVars, leaseVars, gateVars, fileVars, workerVars, lock,
                   call, target, todo, result>>

(* File::Handle holds the file's mutex around the virtual call. *)
FileLocked(f) ==
    \E u \in Threads : pc[u] \in {"inside", "leave"} /\ target[u] = f

(* InternalOperation's constructor: counted only while Active.  A refusal  *)
(* (AdmittedIsNeverRefused: there is none) would skip the file.            *)
EnterFile(t) ==
    /\ pc[t] = "token"
    /\ ~FileLocked(target[t])
    /\ Goto(t, IF AdmitsInternal(t) THEN "inside" ELSE "untoken")
    /\ internal' = IF lease = "Active" THEN internal \cup {t} ELSE internal
    /\ UNCHANGED <<fsVars, lease, external, drainOwner, gateVars, fileVars,
                   workerVars, lock, call, target, todo, result>>

(* OPFSFile::open for writing: a poisoned wrapper is EIO, an AccessHandle  *)
(* may be refused by the browser.                                          *)
OpenFile(t) ==
    /\ pc[t] = "inside" /\ call[t] = "open"
    /\ LET f == target[t]
       IN  \/ /\ kind[f] = "None"
              /\ kind' = [kind EXCEPT ![f] = "Access"]
              /\ handles' = handles \cup {f}
           \/ UNCHANGED <<kind, handles>>
    /\ Goto(t, "leave")
    /\ UNCHANGED <<fsVars, leaseVars, gateVars, table, buffered, dirty,
                   closeFailed, workerVars, lock, call, target, todo, result>>

(* OPFSFile::write and flush act on the AccessHandle or report an error. *)
WriteFile(t) ==
    /\ pc[t] = "inside" /\ call[t] = "write"
    /\ \/ kind[target[t]] = "Access" /\ dirty' = dirty \cup {target[t]}
       \/ UNCHANGED dirty
    /\ Goto(t, "leave")
    /\ UNCHANGED <<fsVars, leaseVars, gateVars, table, kind, buffered, handles,
                   closeFailed, workerVars, lock, call, target, todo, result>>

SyncFile(t) ==
    /\ pc[t] = "inside" /\ call[t] = "sync"
    /\ \/ kind[target[t]] = "Access" /\ dirty' = dirty \ {target[t]}
       \/ UNCHANGED dirty
    /\ Goto(t, "leave")
    /\ UNCHANGED <<fsVars, leaseVars, gateVars, table, kind, buffered, handles,
                   closeFailed, workerVars, lock, call, target, todo, result>>

(* OPFSFile::close: a rejected close keeps the JS slot, poisons the        *)
(* wrapper and latches the failure at backend scope.                       *)
CloseHandle(f, ok) ==
    /\ kind' = [kind EXCEPT ![f] = IF ok THEN "None" ELSE "FailedAccessClose"]
    /\ handles' = IF ok THEN handles \ {f} ELSE handles
    /\ closeFailed' = (closeFailed \/ ~ok)

(* An application that closes without fsync gives up its claim on the      *)
(* unflushed bytes.                                                        *)
CloseFile(t) ==
    /\ pc[t] = "inside" /\ call[t] = "close"
    /\ \E ok \in BOOLEAN : CloseHandle(target[t], ok)
    /\ dirty' = dirty \ {target[t]}
    /\ Goto(t, "leave")
    /\ UNCHANGED <<fsVars, leaseVars, gateVars, table, buffered, workerVars,
                   lock, call, target, todo, result>>

(* A full descriptor table (installOpenFile) or a failed truncation        *)
(* (abandonOpenFile) closes the new handle before anybody can name it.     *)
AbandonOpenFile(t) ==
    /\ pc[t] = "leave" /\ call[t] = "open"
    /\ kind[target[t]] = "Access"
    /\ \E ok \in BOOLEAN : CloseHandle(target[t], ok)
    /\ dirty' = dirty \ {target[t]}
    /\ UNCHANGED <<fsVars, leaseVars, gateVars, table, buffered, workerVars,
                   lock, callVars>>

(* InternalOperation's destructor, then installOpenFile for a new handle. *)
LeaveFile(t) ==
    /\ pc[t] = "leave"
    /\ internal' = internal \ {t}
    /\ table' = IF call[t] = "open" /\ kind[target[t]] = "Access"
                THEN table \cup {target[t]} ELSE table
    /\ Goto(t, "untoken")
    /\ UNCHANGED <<fsVars, lease, external, drainOwner, gateVars, kind,
                   buffered, dirty, handles, closeFailed, workerVars, lock,
                   call, target, todo, result>>

(* Mutant of ReleaseToken: an Active-only release, as its acquisition is. *)
ReleaseTokenIfActive(t) ==
    /\ pc[t] = "untoken"
    /\ external' = IF lease = "Active" THEN external \ {t} ELSE external
    /\ Goto(t, "release")
    /\ UNCHANGED <<fsVars, lease, internal, drainOwner, gateVars, fileVars,
                   workerVars, lock, call, target, todo, result>>

(* Operation's destructor: first the backend tokens, under the lease mutex *)
ReleaseToken(t) ==
    /\ pc[t] = "untoken"
    /\ external' = external \ {t}
    /\ Goto(t, "release")
    /\ UNCHANGED <<fsVars, lease, internal, drainOwner, gateVars, fileVars,
                   workerVars, lock, call, target, todo, result>>

(* and then the WasmFS operation, under operationMutex. *)
OperationEnd(t) ==
    /\ pc[t] = "release"
    /\ activeOperations' = activeOperations \ {t}
    /\ Return(t)
    /\ UNCHANGED <<terminalState, scopedInProgress, ownerReserved, installed,
                   leaseVars, gateVars, fileVars, workerVars, lock, todo,
                   result>>

(* fwrite into a FILE buffer is no WasmFS operation.  Bytes that are there *)
(* when a drain is entered are "early"; later ones nobody promises to save.*)
BufferedWrite(t, f) ==
    /\ pc[t] = "idle"
    /\ f \in table
    /\ buffered' = [buffered EXCEPT ![f] =
           IF @ = "early" \/ (lease = "Active" /\ MayDrain)
           THEN "early" ELSE "late"]
    /\ UNCHANGED <<fsVars, leaseVars, gateVars, table, kind, dirty, handles,
                   closeFailed, workerVars, lock, callVars>>

(* ~OPFSFile and ~OPFSDirectory free their JS handle through the Worker,   *)
(* on whatever thread drops the last reference, unless the gate is closed. *)
DestructorBegin(t) ==
    /\ installed
    /\ ~gateClosed
    /\ Enter(t, "destroy", "destroy", NoFile)
    /\ destructors' = destructors \cup {t}
    /\ UNCHANGED <<fsVars, leaseVars, gateClosed, fileVars, workerVars, lock,
                   todo, result>>

(* Mutant of DestructorEnd: a destructor that finds the gate closed does   *)
(* not count itself out.                                                   *)
DestructorEndIfOpen(t) ==
    /\ pc[t] = "destroy"
    /\ destructors' = IF gateClosed THEN destructors ELSE destructors \ {t}
    /\ Return(t)
    /\ UNCHANGED <<fsVars, leaseVars, gateClosed, fileVars, workerVars, lock,
                   todo, result>>

DestructorEnd(t) ==
    /\ pc[t] = "destroy"
    /\ destructors' = destructors \ {t}
    /\ Return(t)
    /\ UNCHANGED <<fsVars, leaseVars, gateClosed, fileVars, workerVars, lock,
                   todo, result>>

-----------------------------------------------------------------------------
(* Entering a drain *)

(* WasmFS::drainOPFSProfileBackend up to beginScopedOPFSProfileDrain. *)
ScopedBegin(t) ==
    /\ installed
    /\ MayDrain
    /\ Enter(t, "begin", "scoped", NoFile)
    /\ scopedInProgress' = TRUE
    /\ result' = [result EXCEPT ![t] = FreshResult("scoped")]
    /\ UNCHANGED <<terminalState, activeOperations, ownerReserved, installed,
                   leaseVars, gateVars, fileVars, workerVars, lock, todo>>

(* EBUSY while another drain runs, ESHUTDOWN after a terminal drain. *)
ScopedRefused(t) ==
    /\ pc[t] = "idle"
    /\ installed
    /\ ~MayDrain
    /\ result' = [result EXCEPT ![t] =
           [FreshResult("scoped") EXCEPT !.status = "error", !.error = TRUE]]
    /\ UNCHANGED <<fsVars, leaseVars, gateVars, fileVars, workerVars, lock, pc,
                   call, target, todo>>

(* WasmFS::terminalDrain up to the wait for activeOperations == 0. *)
TerminalBegin(t) ==
    /\ MayDrain
    /\ Enter(t, "opWait", "terminal", NoFile)
    /\ terminalState' = "Draining"
    /\ result' = [result EXCEPT ![t] = FreshResult("terminal")]
    /\ UNCHANGED <<scopedInProgress, activeOperations, ownerReserved,
                   installed, leaseVars, gateVars, fileVars, workerVars, lock,
                   todo>>

(* The refusal is the return value; the result record stays zero. *)
TerminalRefused(t) ==
    /\ pc[t] = "idle"
    /\ ~MayDrain
    /\ result' = [result EXCEPT ![t] =
           [FreshResult("terminal") EXCEPT !.status = "error"]]
    /\ UNCHANGED <<fsVars, leaseVars, gateVars, fileVars, workerVars, lock, pc,
                   call, target, todo>>

OperationsDrained(t) ==
    /\ pc[t] = "opWait"
    /\ activeOperations = {}
    /\ Goto(t, "libc")
    /\ UNCHANGED <<fsVars, leaseVars, gateVars, fileVars, workerVars, lock,
                   call, target, todo, result>>

-----------------------------------------------------------------------------
(* Sealing: ProfileLeaseState::beginDrain *)

(* A scoped drain seals first; a terminal drain seals in the finalizer of  *)
(* the lease owner, after every descriptor is closed.                      *)
Seal(t) ==
    /\ pc[t] = "begin" \/ (pc[t] = "finalize" /\ ~HasIncompleteScopedDrain)
    /\ lease = "Active"
    /\ lease' = "Sealing"
    /\ Goto(t, "quiesce")
    /\ UNCHANGED <<fsVars, external, internal, drainOwner, gateVars, fileVars,
                   workerVars, lock, call, target, todo, result>>

(* A scoped drain of a backend that was sealed before is ESHUTDOWN. *)
SealRefused(t) ==
    /\ pc[t] = "begin"
    /\ lease # "Active"
    /\ result' = Record(t, TRUE)
    /\ Goto(t, "end")
    /\ UNCHANGED <<fsVars, leaseVars, gateVars, fileVars, workerVars, lock,
                   call, target, todo>>

(* OPFSBackend::terminalDrainFinished when there is no lease to hand off:  *)
(* an incomplete scoped drain is reported, anything else is success.       *)
NothingToFinalize(t) ==
    /\ pc[t] = "finalize"
    /\ HasIncompleteScopedDrain \/ ~HasLiveLease
    /\ result' = Record(t, HasIncompleteScopedDrain)
    /\ Goto(t, "end")
    /\ UNCHANGED <<fsVars, leaseVars, gateVars, fileVars, workerVars, lock,
                   call, target, todo>>

(* The wait inside beginDrain ends, drainState names this thread, and a    *)
(* close that failed before the drain is recorded.                         *)
Quiesce(t) ==
    /\ pc[t] = "quiesce"
    /\ Quiescent
    /\ drainOwner' = t
    /\ result' = [result EXCEPT ![t].sealed = (call[t] = "scoped"),
                                ![t].error = @ \/ closeFailed]
    /\ Goto(t, IF call[t] = "scoped" THEN "libc" ELSE "gate")
    /\ UNCHANGED <<fsVars, lease, external, internal, gateVars, fileVars,
                   workerVars, lock, call, target, todo>>

-----------------------------------------------------------------------------
(* Flushing, detaching and closing *)

(* fflush(NULL) under the stdio bypass: every non-empty FILE buffer goes   *)
(* through fd_write to a descriptor that must still be in the table.       *)
Flushable(t) ==
    {f \in table : buffered[f] # "none" /\ AdmitsInternal(t)
                                        /\ kind[f] = "Access"}

LibcFlush(t) ==
    /\ pc[t] = "libc"
    /\ \E S \in SUBSET Flushable(t), otherStreamFails \in BOOLEAN :
          /\ buffered' = [f \in Files |->
                            IF f \in S THEN "none" ELSE buffered[f]]
          /\ dirty' = dirty \cup S
          /\ result' = Record(t, \/ otherStreamFails
                                 \/ \E f \in Files : buffered'[f] # "none")
    /\ Goto(t, "detach")
    /\ UNCHANGED <<fsVars, leaseVars, gateVars, table, kind, handles,
                   closeFailed, workerVars, lock, call, target, todo>>

(* FileTable::detachBackend and detachAll, under the table lock. *)
DetachFiles(t) ==
    /\ pc[t] = "detach"
    /\ todo' = [todo EXCEPT ![t] = table]
    /\ table' = {}
    /\ Goto(t, "close")
    /\ UNCHANGED <<fsVars, leaseVars, gateVars, kind, buffered, dirty, handles,
                   closeFailed, workerVars, lock, call, target, result>>

(* Flush, then close in any case; both are InternalOperations. *)
CloseDetached(t, f) ==
    /\ pc[t] = "close"
    /\ f \in todo[t]
    /\ todo' = [todo EXCEPT ![t] = @ \ {f}]
    /\ IF AdmitsInternal(t)
       THEN \E flushed, closed \in BOOLEAN :
               /\ dirty' = IF flushed THEN dirty \ {f} ELSE dirty
               /\ CloseHandle(f, closed)
               /\ result' = Record(t, ~flushed \/ ~closed)
       ELSE /\ result' = Record(t, TRUE)
            /\ UNCHANGED <<dirty, kind, handles, closeFailed>>
    /\ UNCHANGED <<fsVars, leaseVars, gateVars, table, buffered, workerVars,
                   lock, pc, call, target>>

CloseesDone(t) ==
    /\ pc[t] = "close"
    /\ todo[t] = {}
    /\ Goto(t, IF call[t] = "scoped" THEN "gate" ELSE "finalize")
    /\ UNCHANGED <<fsVars, leaseVars, gateVars, fileVars, workerVars, lock,
                   call, target, todo, result>>

-----------------------------------------------------------------------------
(* OPFSBackend::prepareOPFSProfileRetirement *)

CloseGate(t) ==
    /\ pc[t] = "gate"
    /\ gateClosed' = TRUE
    /\ Goto(t, "gateWait")
    /\ UNCHANGED <<fsVars, leaseVars, destructors, fileVars, workerVars, lock,
                   call, target, todo, result>>

GateDrained(t) ==
    /\ pc[t] = "gateWait"
    /\ DestructorsDrained
    /\ Goto(t, "fence")
    /\ UNCHANGED <<fsVars, leaseVars, gateVars, fileVars, workerVars, lock,
                   call, target, todo, result>>

(* ProxyWorker::fenceForRetirement asks browser main, which may refuse.    *)
(* The preflight runs only when everything before it succeeded.            *)
FenceForRetirement(t) ==
    /\ pc[t] = "fence"
    /\ \E ok \in BOOLEAN :
          /\ fenced' = (fenced \/ ok)
          /\ result' = Record(t, ~ok)
          /\ Goto(t, IF ok /\ ~result[t].error THEN "preflight" ELSE "finish")
    /\ UNCHANGED <<fsVars, leaseVars, gateVars, fileVars, worker, acknowledged,
                   stopClaimed, heartbeat, staleHeartbeat, txn, lock, call,
                   target, todo>>

(* _wasmfs_opfs_prepare_profile_retirement in the Worker; an interrupted   *)
(* proxy call is EIO.                                                      *)
Preflight(t) ==
    /\ pc[t] = "preflight"
    /\ \E interrupted \in BOOLEAN :
          result' = Record(t, interrupted \/ lock # "Self" \/ handles # {})
    /\ Goto(t, "finish")
    /\ UNCHANGED <<fsVars, leaseVars, gateVars, fileVars, workerVars, lock,
                   call, target, todo>>

-----------------------------------------------------------------------------
(* OPFSBackend::finishOPFSProfileDrain.  The lease is still Sealing here   *)
(* (DrainHoldsSeal), so its ESHUTDOWN returns are not taken.               *)

(* finishDrain(false): keep the lease, abandon the Worker. *)
FinishFailed(t) ==
    /\ pc[t] = "finish"
    /\ result[t].error
    /\ lease' = "Failed"
    /\ drainOwner' = NoThread
    /\ Abandon
    /\ Goto(t, "end")
    /\ UNCHANGED <<fsVars, external, internal, gateVars, fileVars, fenced,
                   acknowledged, stopClaimed, heartbeat, staleHeartbeat, txn,
                   lock, call, target, todo, result>>

(* finishScopedDrain proxies the transaction and waits for it. *)
FinishRequest(t) ==
    /\ pc[t] = "finish"
    /\ ~result[t].error
    /\ txn' = "requested"
    /\ Goto(t, "txn")
    /\ UNCHANGED <<fsVars, leaseVars, gateVars, fileVars, worker, fenced,
                   acknowledged, stopClaimed, heartbeat, staleHeartbeat, lock,
                   call, target, todo, result>>

(* The Worker resolves the lock request and awaits it.  From here on the   *)
(* lock is free for anybody.                                               *)
ReleaseLock ==
    /\ txn = "requested"
    /\ lock = "Self"
    /\ lock' = "Free"
    /\ txn' = "released"
    /\ UNCHANGED <<fsVars, leaseVars, gateVars, fileVars, worker, fenced,
                   acknowledged, stopClaimed, heartbeat, staleHeartbeat,
                   callVars>>

(* The release function is missing or the awaited request rejects: nothing *)
(* is released, nothing is reset.                                          *)
ReleaseRejected ==
    /\ txn = "requested"
    /\ txn' = "rejected"
    /\ UNCHANGED <<fsVars, leaseVars, gateVars, fileVars, worker, fenced,
                   acknowledged, stopClaimed, heartbeat, staleHeartbeat, lock,
                   callVars>>

(* Mutant of HeartbeatAfterReset: the stop is not part of the transaction. *)
HeartbeatKept == heartbeat

(* The stop is the right operand of `err || stop()`: it is skipped when a  *)
(* live handle was seen.                                                   *)
HeartbeatAfterReset == heartbeat /\ handles # {}

(* Reset the allocators and stop the heartbeat. *)
ResetContext ==
    /\ txn = "released"
    /\ txn' = IF handles = {} THEN "done" ELSE "witness"
    /\ heartbeat' = HeartbeatAfterReset
    /\ handles' = {}
    /\ UNCHANGED <<fsVars, leaseVars, gateVars, table, kind, buffered, dirty,
                   closeFailed, worker, fenced, acknowledged, stopClaimed,
                   staleHeartbeat, lock, callVars>>

(* The proxied callback never finishes its context. *)
InterruptTransaction ==
    /\ txn \in {"requested", "released"}
    /\ txn' = "interrupted"
    /\ UNCHANGED <<fsVars, leaseVars, gateVars, fileVars, worker, fenced,
                   acknowledged, stopClaimed, heartbeat, staleHeartbeat, lock,
                   callVars>>

(* Only a finished transaction acknowledges the release. *)
ReleaseAcknowledged(t) ==
    /\ pc[t] = "txn"
    /\ txn \in {"done", "witness"}
    /\ lease' = "Released"
    /\ drainOwner' = NoThread
    /\ stopClaimed' = TRUE
    /\ result' = [result EXCEPT ![t].released = (call[t] = "scoped"),
                                ![t].error = @ \/ txn = "witness"]
    /\ Goto(t, "retire")
    /\ UNCHANGED <<fsVars, external, internal, gateVars, fileVars, worker,
                   fenced, acknowledged, heartbeat, staleHeartbeat, txn, lock,
                   call, target, todo>>

ReleaseUnacknowledged(t) ==
    /\ pc[t] = "txn"
    /\ txn \in {"rejected", "interrupted"}
    /\ lease' = "Failed"
    /\ drainOwner' = NoThread
    /\ Abandon
    /\ result' = Record(t, TRUE)
    /\ Goto(t, "end")
    /\ UNCHANGED <<fsVars, external, internal, gateVars, fileVars, fenced,
                   acknowledged, stopClaimed, heartbeat, staleHeartbeat, txn,
                   lock, call, target, todo>>

-----------------------------------------------------------------------------
(* OPFSBackend::retireOPFSProfileBackend and ProxyWorker::retire *)

MayRetire == fenced /\ stopClaimed /\ Joinable

CancelWorker(t) ==
    /\ pc[t] = "retire"
    /\ MayRetire
    /\ lease' = "Retiring"
    /\ worker' = "cancelled"
    /\ Goto(t, "join")
    /\ UNCHANGED <<fsVars, external, internal, drainOwner, gateVars, fileVars,
                   fenced, acknowledged, stopClaimed, heartbeat,
                   staleHeartbeat, txn, lock, call, target, todo, result>>

(* pthread_cancel fails: detach and keep the queue.  The same error path   *)
(* serves the ESHUTDOWN of a Worker that may not be retired.               *)
CancelFails(t) ==
    /\ pc[t] = "retire"
    /\ lease' = "Retiring"
    /\ worker' = IF MayRetire THEN "abandoned" ELSE worker
    /\ result' = Record(t, TRUE)
    /\ Goto(t, "end")
    /\ UNCHANGED <<fsVars, external, internal, drainOwner, gateVars, fileVars,
                   fenced, acknowledged, stopClaimed, heartbeat,
                   staleHeartbeat, txn, lock, call, target, todo>>

(* The cancelled pthread reaches _emscripten_thread_exit. *)
WorkerExit ==
    /\ worker = "cancelled"
    /\ worker' = "exited"
    /\ UNCHANGED <<fsVars, leaseVars, gateVars, fileVars, fenced, acknowledged,
                   stopClaimed, heartbeat, staleHeartbeat, txn, lock, callVars>>

(* pthread_join returns and posts cleanupThread to browser main. *)
JoinWorker(t) ==
    /\ pc[t] = "join"
    /\ worker = "exited"
    /\ worker' = "cleanup"
    /\ Goto(t, "poll")
    /\ UNCHANGED <<fsVars, leaseVars, gateVars, fileVars, fenced, acknowledged,
                   stopClaimed, heartbeat, staleHeartbeat, txn, lock, call,
                   target, todo, result>>

(* PThread.returnWorkerToPool on browser main.  Terminating a Worker ends  *)
(* its JS realm, and with it any lock it still holds.                      *)
CleanupThread ==
    /\ worker = "cleanup"
    /\ worker' = IF fenced THEN "terminated" ELSE "pooled"
    /\ acknowledged' = fenced
    /\ lock' = IF fenced /\ lock = "Self" THEN "Free" ELSE lock
    /\ UNCHANGED <<fsVars, leaseVars, gateVars, fileVars, fenced, stopClaimed,
                   heartbeat, staleHeartbeat, txn, callVars>>

(* waitForRetirementCleanup sees the acknowledgement, or gives up after    *)
(* its bounded number of polls.                                            *)
CleanupSeen(t) ==
    /\ pc[t] = "poll"
    /\ acknowledged
    /\ lease' = IF result[t].error THEN "Retiring" ELSE "Retired"
    /\ result' = [result EXCEPT ![t].retired = /\ call[t] = "scoped"
                                               /\ ~result[t].error]
    /\ Goto(t, "end")
    /\ UNCHANGED <<fsVars, external, internal, drainOwner, gateVars, fileVars,
                   workerVars, lock, call, target, todo>>

CleanupTimeout(t) ==
    /\ pc[t] = "poll"
    /\ ~acknowledged
    /\ result' = Record(t, TRUE)
    /\ Goto(t, "end")
    /\ UNCHANGED <<fsVars, leaseVars, gateVars, fileVars, workerVars, lock,
                   call, target, todo>>

-----------------------------------------------------------------------------
(* Leaving a drain *)

Finished(t) ==
    [result EXCEPT ![t].status = IF result[t].error THEN "error" ELSE "ok"]

(* endScopedOPFSProfileDrain *)
ScopedEnd(t) ==
    /\ pc[t] = "end" /\ call[t] = "scoped"
    /\ scopedInProgress' = FALSE
    /\ result' = Finished(t)
    /\ Return(t)
    /\ UNCHANGED <<terminalState, activeOperations, ownerReserved, installed,
                   leaseVars, gateVars, fileVars, workerVars, lock, todo>>

TerminalEnd(t) ==
    /\ pc[t] = "end" /\ call[t] = "terminal"
    /\ terminalState' = IF result[t].error THEN "Failed" ELSE "Drained"
    /\ result' = Finished(t)
    /\ Return(t)
    /\ UNCHANGED <<scopedInProgress, activeOperations, ownerReserved,
                   installed, leaseVars, gateVars, fileVars, workerVars, lock,
                   todo>>

-----------------------------------------------------------------------------
(* A rival document opens the same profile, and may close it again *)

RivalAcquires ==
    /\ lock = "Free"
    /\ lock' = "Rival"
    /\ UNCHANGED <<fsVars, leaseVars, gateVars, fileVars, workerVars, callVars>>

RivalReleases ==
    /\ lock = "Rival"
    /\ lock' = "Free"
    /\ UNCHANGED <<fsVars, leaseVars, gateVars, fileVars, workerVars, callVars>>

-----------------------------------------------------------------------------

(* What the application decides to do next. *)
Start(t) ==
    \/ CreateReserve(t)
    \/ \E c \in FileCall, f \in Files : OperationBegin(t, c, f)
    \/ \E f \in Files : BufferedWrite(t, f)
    \/ DestructorBegin(t)
    \/ ScopedBegin(t) \/ ScopedRefused(t)
    \/ TerminalBegin(t) \/ TerminalRefused(t)

(* How a call that was started goes on. *)
Factory(t) == AcquireLease(t) \/ AcquireFails(t) \/ AddBackend(t)

Operation(t) ==
    \/ AdmitBackend(t) \/ RefuseBackend(t) \/ EnterFile(t)
    \/ OpenFile(t) \/ WriteFile(t) \/ SyncFile(t) \/ CloseFile(t)
    \/ AbandonOpenFile(t) \/ LeaveFile(t) \/ ReleaseToken(t) \/ OperationEnd(t)
    \/ DestructorEnd(t)

Drain(t) ==
    \/ OperationsDrained(t) \/ Seal(t) \/ SealRefused(t)
    \/ NothingToFinalize(t) \/ Quiesce(t)
    \/ LibcFlush(t) \/ DetachFiles(t) \/ CloseesDone(t)
    \/ \E f \in Files : CloseDetached(t, f)
    \/ CloseGate(t) \/ GateDrained(t) \/ FenceForRetirement(t) \/ Preflight(t)
    \/ FinishFailed(t) \/ FinishRequest(t)
    \/ ReleaseAcknowledged(t) \/ ReleaseUnacknowledged(t)
    \/ CancelWorker(t) \/ CancelFails(t) \/ JoinWorker(t)
    \/ CleanupSeen(t) \/ CleanupTimeout(t)
    \/ ScopedEnd(t) \/ TerminalEnd(t)

Continue(t) == Factory(t) \/ Operation(t) \/ Drain(t)

OPFSWorker  == ReleaseLock \/ ReleaseRejected \/ ResetContext \/ WorkerExit
Environment == InterruptTransaction \/ RivalAcquires \/ RivalReleases

Next ==
    \/ \E t \in Threads : Start(t) \/ Continue(t)
    \/ OPFSWorker
    \/ CleanupThread
    \/ Environment

Spec == Init /\ [][Next]_vars

(* A pthread that is not blocked runs; the Worker's queue is executed by   *)
(* its event loop or, at the latest, by the heartbeat; the browser main    *)
(* thread handles its messages.  Nothing obliges the application to start  *)
(* a call, the rival to act, or a transaction to be interrupted.           *)
Fairness ==
    /\ \A t \in Threads : WF_vars(Continue(t))
    /\ WF_vars(OPFSWorker)
    /\ WF_vars(CleanupThread)

FairSpec == Spec /\ Fairness

-----------------------------------------------------------------------------
(* Properties *)

(* A drain past beginDrain's wait and before its transaction returns. *)
SealedPC == {"gate", "gateWait", "fence", "preflight", "finish", "txn"}

(* Some state of this document still depends on the profile's storage. *)
Claims ==
    \/ handles # {}
    \/ dirty # {}
    \/ \E f \in Files : buffered[f] = "early"

(* The lock guards the storage.  While a thread is in a file operation,    *)
(* while a handle is live, or while bytes that the program handed over     *)
(* before a drain are not durable, the Web Lock is ours: no drain, however *)
(* it interleaves with operations admitted before its seal, lets a rival   *)
(* in earlier (ProfileLeaseState::beginDrain, the preflight and the        *)
(* release transaction together).                                          *)
StorageGuardedByLock ==
    /\ \A t \in Threads : pc[t] \in {"inside", "leave"} => lock = "Self"
    /\ Claims => lock = "Self"

(* Sealing never splits an operation: a thread that got its backend token  *)
(* before the seal is not refused by the file it then calls, and the drain *)
(* itself is not refused by the files it has to flush and close            *)
(* (InternalOperation's two exceptions while Sealing).                     *)
AdmittedIsNeverRefused ==
    \A t \in Threads :
        /\ pc[t] = "token" => AdmitsInternal(t)
        /\ pc[t] = "libc" /\ table # {} => AdmitsInternal(t)
        /\ pc[t] = "close" /\ todo[t] # {} => AdmitsInternal(t)

(* Whoever proxies work to the dedicated Worker, a wrapper's destructor    *)
(* included, finds its queue and its pthread: the queue is released and    *)
(* the pthread detached or joined only when nobody can use them            *)
(* (closeDestructorProxying before abandonScopedProfileWorker and retire). *)
ProxyTargetAlive ==
    \A t \in Threads :
        pc[t] \in {"acquire", "inside", "destroy", "preflight", "txn"}
            => worker = "running"

(* The pthread is cancelled only after its JS interval was really cleared, *)
(* and a realm that held a profile never reaches PThread.unusedWorkers:    *)
(* markHeartbeatStopped repeats a claim of the transaction, and the fence  *)
(* is set before anything can be cancelled.                                *)
WorkerQuarantined ==
    /\ stopClaimed => ~heartbeat
    /\ worker \in {"cancelled", "exited", "cleanup", "terminated"}
           => ~heartbeat /\ fenced
    /\ worker # "pooled"

(* What a caller may conclude from a result record: `released` means the   *)
(* lock is no longer ours, even if the call reports an error; `retired` or *)
(* a zero result of a scoped drain mean the complete handoff; a zero       *)
(* result of a terminal drain means that no lease and no descriptor is     *)
(* left, even if an earlier scoped drain failed half way.                  *)
HandoffComplete ==
    /\ lease = "Retired"
    /\ lock # "Self"
    /\ worker = "terminated"
    /\ acknowledged

ResultTruthful ==
    \A t \in Threads : LET r == result[t] IN
        /\ r.released => lock # "Self" /\ ~Claims
        /\ r.retired => HandoffComplete
        /\ r.status = "ok" /\ r.drain = "scoped"
               => r.sealed /\ r.released /\ r.retired
        /\ r.status = "ok" /\ r.drain = "terminal"
               => /\ lease \in {"Unleased", "Retired"}
                  /\ table = {}

(* At most one drain is under way, and from the end of its wait until its  *)
(* transaction returns the lease is Sealing and owned by its thread: no    *)
(* finishing step of one drain can land on a state left by another         *)
(* (scopedProfileDrainInProgress against TerminalState::Draining).         *)
DrainHoldsSeal ==
    \A t \in Threads :
        /\ pc[t] \in SealedPC => lease = "Sealing" /\ drainOwner = t
        /\ pc[t] = "quiesce" => lease = "Sealing" /\ drainOwner = NoThread
        /\ \A u \in Threads \ {t} :
               ~(pc[t] \in DrainPC /\ pc[u] \in DrainPC)

(* What no step may do to a backend that was sealed. *)
StaysSealed ==
    lease \notin {"Unleased", "Active"} =>
        /\ lease' \notin {"Unleased", "Active"}
        /\ lease \in {"Failed", "Retired"} => lease' = lease
        /\ external' \subseteq external
        /\ Quiescent => table' \subseteq table /\ handles' \subseteq handles

(* A sealed backend stays unavailable, whether its drain succeeds or fails:*)
(* no thread gets a token again, Failed and Retired are final, and once    *)
(* the threads with a token are gone no descriptor and no handle appears   *)
(* (acquireExternalOperation and beginDrain admit in Active only).         *)
SealedForGood == [][StaysSealed]_vars

(* Every drain returns: nobody it waits for (operations admitted before,   *)
(* destructors, the transaction, the cancelled pthread, the clean-up       *)
(* message) can be waiting for the drain.                                  *)
DrainReturns ==
    \A t \in Threads : pc[t] \in DrainPC ~> pc[t] = "idle"

(* A seal is resolved: the profile is handed off or reported as retained.  *)
SealResolved ==
    lease = "Sealing" ~> lease \in {"Failed", "Retiring", "Retired"}

-----------------------------------------------------------------------------
(* The abstract handoff this protocol implements *)

phase ==
    CASE lease = "Unleased" -> "Unclaimed"
      [] lease = "Active"   -> "Open"
      [] lease = "Sealing"  -> "Sealed"
      [] lease = "Failed"   -> "Retained"
      [] OTHER              -> "HandedOff"

Handoff == INSTANCE ProfileHandoff
           WITH owner <- lock, admitted <- external, claims <- Claims

(* Every behaviour of the two drains is a behaviour of the handoff the     *)
(* header wasmfs_opfs_profile_drain.h promises.                            *)
ImplementsHandoff == Handoff!Spec

-----------------------------------------------------------------------------
(* Assertions of the code that its behaviours break *)

(* emscripten_proxy_execute_queue asserts that it runs on a thread that    *)
(* hosts a pthread, on an allocated queue; the heartbeat interval calls it *)
(* every 50 ms.                                                            *)
HeartbeatHasItsThread == ~staleHeartbeat

(* OPFSFile::write asserts that a file which is not poisoned has an        *)
(* AccessHandle.                                                           *)
WriteHasAccessHandle ==
    \A t \in Threads :
        pc[t] = "inside" /\ call[t] = "write" => kind[target[t]] # "None"
=============================================================================
