------------------------- MODULE ProfileDrainSafety -------------------------
(***************************************************************************)
(* Machine-checked proofs about ProfileDrain, for any set of threads and   *)
(* any set of files.  It is well typed; HandoffInv and, on top of it,      *)
(* RetirementInv are inductive: one lemma per conjunct, with one step per  *)
(* group of actions, and the safety properties that follow from them.      *)
(***************************************************************************)
EXTENDS ProfileDrainInvariants, TLAPS

USE DEF fsVars, leaseVars, gateVars, fileVars, workerVars, callVars

-----------------------------------------------------------------------------
(* Type correctness *)

(* Recording an error leaves a table of result records. *)
LEMMA RecordType ==
  ASSUME result \in [Threads -> Result],
         NEW t \in Threads, NEW failed \in BOOLEAN
  PROVE  Record(t, failed) \in [Threads -> Result]
  BY DEF Record, Result

(* A drain that starts, or is refused, writes a well-formed record. *)
LEMMA FreshType ==
  ASSUME NEW d \in DrainCall, NEW failed \in BOOLEAN
  PROVE  /\ FreshResult(d) \in Result
         /\ [FreshResult(d) EXCEPT !.status = "error"] \in Result
         /\ [FreshResult(d) EXCEPT !.status = "error", !.error = TRUE]
                \in Result
  BY DEF FreshResult, NoResult, Result, DrainCall

(* The updates of the other result fields keep the record's shape. *)
LEMMA FieldTypes ==
  ASSUME result \in [Threads -> Result],
         NEW t \in Threads, NEW b \in BOOLEAN, NEW failed \in BOOLEAN
  PROVE  /\ [result EXCEPT ![t].sealed = b, ![t].error = @ \/ failed]
                \in [Threads -> Result]
         /\ [result EXCEPT ![t].released = b, ![t].error = @ \/ failed]
                \in [Threads -> Result]
         /\ [result EXCEPT ![t].retired = b] \in [Threads -> Result]
         /\ Finished(t) \in [Threads -> Result]
  BY DEF Result, Finished

(* The factory of a leased backend preserves the types. *)
LEMMA FactoryTypes ==
  ASSUME TypeOK, NEW t \in Threads, CreateReserve(t) \/ Factory(t)
  PROVE  TypeOK'
<1>. USE DEF TypeOK, Goto, Enter, Return, PC, Call, FileCall, DrainCall,
             WorkerState, LeaseState
<1>1. CASE CreateReserve(t)
  BY <1>1 DEF CreateReserve
<1>2. CASE AcquireLease(t)
  BY <1>2 DEF AcquireLease
<1>3. CASE AcquireFails(t)
  <2>1. staleHeartbeat' \in BOOLEAN /\ heartbeat' \in BOOLEAN
    BY <1>3 DEF AcquireFails
  <2>2. /\ pc[t] = "acquire" /\ Return(t)
        /\ ownerReserved' \in BOOLEAN /\ worker' = "absent"
        /\ activeOperations' = activeOperations \ {t}
        /\ UNCHANGED <<terminalState, scopedInProgress, installed, leaseVars,
                       gateVars, fileVars, fenced, acknowledged, stopClaimed,
                       txn, lock, todo, result>>
    BY <1>3 DEF AcquireFails
  <2>. QED
    BY <2>1, <2>2
<1>4. CASE AddBackend(t)
  BY <1>4 DEF AddBackend
<1>. QED
  BY <1>1, <1>2, <1>3, <1>4 DEF Factory

(* Public operations and destructors preserve the types. *)
LEMMA OperationTypes ==
  ASSUME TypeOK, NEW t \in Threads,
         \/ \E c \in FileCall, f \in Files : OperationBegin(t, c, f)
         \/ \E f \in Files : BufferedWrite(t, f)
         \/ DestructorBegin(t)
         \/ Operation(t)
  PROVE  TypeOK'
<1>. USE FilesAssumption DEF TypeOK, Goto, Enter, Return, PC, OpPC, Call,
             FileCall, DrainCall
<1>1. ASSUME NEW c \in FileCall, NEW f \in Files, OperationBegin(t, c, f)
      PROVE  TypeOK'
  BY <1>1 DEF OperationBegin
<1>2. ASSUME NEW f \in Files, BufferedWrite(t, f)
      PROVE  TypeOK'
  BY <1>2 DEF BufferedWrite, Buffer
<1>3. CASE DestructorBegin(t)
  BY <1>3 DEF DestructorBegin
<1>4. CASE AdmitBackend(t)
  BY <1>4 DEF AdmitBackend
<1>5. CASE RefuseBackend(t)
  BY <1>5 DEF RefuseBackend
<1>6. CASE EnterFile(t)
  BY <1>6 DEF EnterFile
<1>7. CASE OpenFile(t)
  BY <1>7 DEF OpenFile, Kind
<1>8. CASE WriteFile(t)
  BY <1>8 DEF WriteFile
<1>9. CASE SyncFile(t)
  BY <1>9 DEF SyncFile
<1>10. CASE CloseFile(t)
  BY <1>10 DEF CloseFile, CloseHandle, Kind
<1>11. CASE AbandonOpenFile(t)
  BY <1>11 DEF AbandonOpenFile, CloseHandle, Kind
<1>12. CASE LeaveFile(t)
  BY <1>12 DEF LeaveFile
<1>13. CASE ReleaseToken(t)
  BY <1>13 DEF ReleaseToken
<1>14. CASE OperationEnd(t)
  BY <1>14 DEF OperationEnd
<1>15. CASE DestructorEnd(t)
  BY <1>15 DEF DestructorEnd
<1>. QED
  BY <1>1, <1>2, <1>3, <1>4, <1>5, <1>6, <1>7, <1>8, <1>9, <1>10, <1>11,
     <1>12, <1>13, <1>14, <1>15 DEF Operation

(* Entering a drain, or being refused one, preserves the types. *)
LEMMA DrainEntryTypes ==
  ASSUME TypeOK, NEW t \in Threads,
         \/ ScopedBegin(t) \/ ScopedRefused(t)
         \/ TerminalBegin(t) \/ TerminalRefused(t)
  PROVE  TypeOK'
<1>1. result' \in [Threads -> Result]
  BY FreshType DEF TypeOK, ScopedBegin, ScopedRefused, TerminalBegin,
                   TerminalRefused, DrainCall
<1>. USE DEF TypeOK, Goto, Enter, PC, DrainPC, Call, FileCall, DrainCall,
             TerminalState
<1>2. CASE ScopedBegin(t)
  BY <1>1, <1>2 DEF ScopedBegin
<1>3. CASE ScopedRefused(t)
  BY <1>1, <1>3 DEF ScopedRefused
<1>4. CASE TerminalBegin(t)
  BY <1>1, <1>4 DEF TerminalBegin
<1>5. CASE TerminalRefused(t)
  BY <1>1, <1>5 DEF TerminalRefused
<1>. QED
  BY <1>2, <1>3, <1>4, <1>5

(* Every step of a drain preserves the types. *)
LEMMA DrainTypes ==
  ASSUME TypeOK, NEW t \in Threads, Drain(t)
  PROVE  TypeOK'
<1>. USE DEF TypeOK, Goto, Return, PC, DrainPC, Call, FileCall, DrainCall,
             LeaseState
<1>1. CASE OperationsDrained(t)
  BY <1>1 DEF OperationsDrained
<1>2. CASE Seal(t)
  BY <1>2 DEF Seal
<1>3. CASE SealRefused(t)
  <2>1. result' \in [Threads -> Result]
    BY <1>3, RecordType DEF SealRefused
  <2>. QED
    BY <1>3, <2>1 DEF SealRefused, Record
<1>4. CASE NothingToFinalize(t)
  <2>1. result' \in [Threads -> Result]
    <3>1. HasIncompleteScopedDrain \in BOOLEAN
      BY DEF HasIncompleteScopedDrain
    <3>. QED
      BY <1>4, <3>1, RecordType DEF NothingToFinalize
  <2>. QED
    BY <1>4, <2>1 DEF NothingToFinalize, Record
<1>5. CASE Quiesce(t)
  <2>1. result' \in [Threads -> Result]
    BY <1>5, FieldTypes DEF Quiesce
  <2>. QED
    BY <1>5, <2>1 DEF Quiesce
<1>6. CASE LibcFlush(t)
  <2>1. PICK S \in SUBSET Flushable(t), otherStreamFails \in BOOLEAN :
           /\ buffered' = [f \in Files |->
                             IF f \in S THEN "none" ELSE buffered[f]]
           /\ dirty' = dirty \cup S
           /\ result' = Record(t, \/ otherStreamFails
                                  \/ \E f \in Files : buffered'[f] # "none")
    BY <1>6 DEF LibcFlush
  <2>2. result' \in [Threads -> Result]
    BY <2>1, RecordType
  <2>3. dirty' \subseteq Files /\ buffered' \in [Files -> Buffer]
    BY <2>1 DEF Flushable, Buffer
  <2>4. /\ pc[t] = "libc" /\ Goto(t, "detach")
        /\ UNCHANGED <<fsVars, leaseVars, gateVars, table, kind, handles,
                       closeFailed, workerVars, lock, call, target, todo>>
    BY <1>6 DEF LibcFlush
  <2>. QED
    BY <2>2, <2>3, <2>4
<1>7. CASE DetachFiles(t)
  BY <1>7 DEF DetachFiles
<1>8. CASE CloseesDone(t)
  BY <1>8 DEF CloseesDone
<1>9. ASSUME NEW f \in Files, CloseDetached(t, f)
      PROVE  TypeOK'
  <2>1. result' \in [Threads -> Result]
    BY <1>9, RecordType DEF CloseDetached
  <2>. QED
    <3>1. /\ dirty' \subseteq Files /\ handles' \subseteq Files
          /\ kind' \in [Files -> Kind] /\ closeFailed' \in BOOLEAN
      BY <1>9 DEF CloseDetached, CloseHandle, Kind
    <3>2. /\ todo' = [todo EXCEPT ![t] = @ \ {f}]
          /\ UNCHANGED <<fsVars, leaseVars, gateVars, table, buffered,
                         workerVars, lock, pc, call, target>>
      BY <1>9 DEF CloseDetached
    <3>. QED
      BY <2>1, <3>1, <3>2
<1>10. CASE CloseGate(t)
  BY <1>10 DEF CloseGate
<1>11. CASE GateDrained(t)
  BY <1>11 DEF GateDrained
<1>12. CASE FenceForRetirement(t)
  <2>1. PICK ok \in BOOLEAN :
           /\ fenced' = (fenced \/ ok)
           /\ result' = Record(t, ~ok)
           /\ Goto(t, IF ok /\ ~result[t].error THEN "preflight"
                                                ELSE "finish")
    BY <1>12 DEF FenceForRetirement
  <2>2. result' \in [Threads -> Result]
    BY <2>1, RecordType
  <2>3. fenced' \in BOOLEAN
    BY <2>1
  <2>4. /\ pc[t] = "fence"
        /\ UNCHANGED <<fsVars, leaseVars, gateVars, fileVars, worker,
                       acknowledged, stopClaimed, heartbeat, staleHeartbeat,
                       txn, lock, call, target, todo>>
    BY <1>12 DEF FenceForRetirement
  <2>5. pc' = [pc EXCEPT ![t] = "preflight"] \/ pc' = [pc EXCEPT ![t] = "finish"]
    BY <2>1
  <2>. QED
    BY <2>2, <2>3, <2>4, <2>5
<1>13. CASE Preflight(t)
  <2>1. result' \in [Threads -> Result]
    BY <1>13, RecordType DEF Preflight
  <2>. QED
    BY <1>13, <2>1 DEF Preflight
<1>14. CASE FinishFailed(t)
  BY <1>14 DEF FinishFailed, Abandon, WorkerState
<1>15. CASE FinishRequest(t)
  BY <1>15 DEF FinishRequest, Txn
<1>16. CASE ReleaseAcknowledged(t)
  <2>1. result' \in [Threads -> Result]
    BY <1>16, FieldTypes DEF ReleaseAcknowledged
  <2>. QED
    BY <1>16, <2>1 DEF ReleaseAcknowledged
<1>17. CASE ReleaseUnacknowledged(t)
  <2>1. result' \in [Threads -> Result]
    BY <1>17, RecordType DEF ReleaseUnacknowledged
  <2>. QED
    BY <1>17, <2>1 DEF ReleaseUnacknowledged, Record, Abandon, WorkerState
<1>18. CASE CancelWorker(t)
  BY <1>18 DEF CancelWorker, WorkerState
<1>19. CASE CancelFails(t)
  <2>1. result' \in [Threads -> Result]
    BY <1>19, RecordType DEF CancelFails
  <2>. QED
    BY <1>19, <2>1 DEF CancelFails, Record, WorkerState
<1>20. CASE JoinWorker(t)
  BY <1>20 DEF JoinWorker, WorkerState
<1>21. CASE CleanupSeen(t)
  <2>1. result' \in [Threads -> Result]
    BY <1>21, FieldTypes DEF CleanupSeen
  <2>. QED
    BY <1>21, <2>1 DEF CleanupSeen
<1>22. CASE CleanupTimeout(t)
  <2>1. result' \in [Threads -> Result]
    BY <1>22, RecordType DEF CleanupTimeout
  <2>. QED
    BY <1>22, <2>1 DEF CleanupTimeout, Record
<1>23. CASE ScopedEnd(t)
  <2>1. result' \in [Threads -> Result]
    BY <1>23, FieldTypes DEF ScopedEnd
  <2>. QED
    <3>1. /\ pc[t] = "end" /\ Return(t)
          /\ scopedInProgress' \in BOOLEAN
          /\ UNCHANGED <<terminalState, activeOperations, ownerReserved,
                         installed, leaseVars, gateVars, fileVars, workerVars,
                         lock, todo>>
      BY <1>23 DEF ScopedEnd
    <3>. QED
      BY <2>1, <3>1
<1>24. CASE TerminalEnd(t)
  <2>1. result' \in [Threads -> Result]
    BY <1>24, FieldTypes DEF TerminalEnd
  <2>. QED
    BY <1>24, <2>1 DEF TerminalEnd, Finished, TerminalState
<1>. QED
  BY <1>1, <1>2, <1>3, <1>4, <1>5, <1>6, <1>7, <1>8, <1>9, <1>10, <1>11,
     <1>12, <1>13, <1>14, <1>15, <1>16, <1>17, <1>18, <1>19, <1>20, <1>21,
     <1>22, <1>23, <1>24 DEF Drain

(* The Worker, browser main, the rival and the interruption preserve the   *)
(* types.                                                                  *)
LEMMA EnvironmentTypes ==
  ASSUME TypeOK, OPFSWorker \/ CleanupThread \/ Environment
  PROVE  TypeOK'
<1>. USE DEF TypeOK, Txn, WorkerState
<1>1. CASE ReleaseLock
  BY <1>1 DEF ReleaseLock
<1>2. CASE ReleaseRejected
  BY <1>2 DEF ReleaseRejected
<1>3. CASE ResetContext
  <2>1. heartbeat' \in BOOLEAN
    BY <1>3 DEF ResetContext, HeartbeatAfterReset
  <2>2. /\ txn' \in Txn /\ handles' = {}
        /\ UNCHANGED <<fsVars, leaseVars, gateVars, table, kind, buffered,
                       dirty, closeFailed, worker, fenced, acknowledged,
                       stopClaimed, staleHeartbeat, lock, callVars>>
    BY <1>3 DEF ResetContext
  <2>. QED
    BY <2>1, <2>2
<1>4. CASE WorkerExit
  BY <1>4 DEF WorkerExit
<1>5. CASE CleanupThread
  BY <1>5 DEF CleanupThread
<1>6. CASE InterruptTransaction
  BY <1>6 DEF InterruptTransaction
<1>7. CASE RivalAcquires \/ RivalReleases
  BY <1>7 DEF RivalAcquires, RivalReleases
<1>. QED
  BY <1>1, <1>2, <1>3, <1>4, <1>5, <1>6, <1>7 DEF OPFSWorker, Environment

(* The initial states are well typed. *)
LEMMA InitTypes == Init => TypeOK
<1>. SUFFICES ASSUME Init PROVE TypeOK
  OBVIOUS
<1>1. /\ scopedInProgress \in BOOLEAN /\ ownerReserved \in BOOLEAN
      /\ installed \in BOOLEAN /\ gateClosed \in BOOLEAN
      /\ closeFailed \in BOOLEAN /\ fenced \in BOOLEAN
      /\ acknowledged \in BOOLEAN /\ stopClaimed \in BOOLEAN
      /\ heartbeat \in BOOLEAN /\ staleHeartbeat \in BOOLEAN
  BY DEF Init
<1>2. result \in [Threads -> Result]
  BY DEF Init, NoResult, Result
<1>3. /\ kind \in [Files -> Kind] /\ buffered \in [Files -> Buffer]
      /\ pc \in [Threads -> PC] /\ call \in [Threads -> Call]
      /\ target \in [Threads -> Files \cup {NoFile}]
      /\ todo \in [Threads -> SUBSET Files]
      /\ \A t \in Threads : /\ pc[t] = "idle" <=> call[t] = "none"
                            /\ target[t] # NoFile <=> call[t] \in FileCall
  BY DEF Init, Kind, Buffer, PC, Call, FileCall
<1>4. /\ terminalState \in TerminalState /\ lease \in LeaseState
      /\ worker \in WorkerState /\ txn \in Txn
      /\ lock \in {"Free", "Self", "Rival"}
      /\ drainOwner \in Threads \cup {NoThread}
      /\ activeOperations \subseteq Threads /\ external \subseteq Threads
      /\ internal \subseteq Threads /\ destructors \subseteq Threads
      /\ table \subseteq Files /\ dirty \subseteq Files
      /\ handles \subseteq Files
  BY DEF Init, TerminalState, LeaseState, WorkerState, Txn
<1>. QED
  BY <1>1, <1>2, <1>3, <1>4 DEF TypeOK

(* Every step preserves the types. *)
LEMMA StepTypes == TypeOK /\ [Next]_vars => TypeOK'
<1>. SUFFICES ASSUME TypeOK, [Next]_vars PROVE TypeOK'
  OBVIOUS
<1>1. ASSUME NEW t \in Threads, Start(t) \/ Continue(t) PROVE TypeOK'
  BY <1>1, FactoryTypes, OperationTypes, DrainEntryTypes, DrainTypes
     DEF Start, Continue
<1>2. CASE OPFSWorker \/ CleanupThread \/ Environment
  BY <1>2, EnvironmentTypes
<1>3. CASE UNCHANGED vars
  BY <1>3 DEF vars, TypeOK
<1>. QED
  BY <1>1, <1>2, <1>3 DEF Next

(* Every reachable state of the protocol is well typed: a thread is idle   *)
(* exactly when it executes no call, and names a file exactly when its     *)
(* call is about one (WasmFS::Operation's TLS root and its destructor).    *)
THEOREM TypeCorrect == Spec => []TypeOK
<1>. QED
  BY InitTypes, StepTypes, PTL DEF Spec

-----------------------------------------------------------------------------
(* The handoff and the retirement *)

(* Recording keeps an error and does not touch the other records. *)
LEMMA RecordKeeps ==
  ASSUME result \in [Threads -> Result], NEW t \in Threads,
         NEW failed \in BOOLEAN
  PROVE  /\ result[t].error \/ failed => Record(t, failed)[t].error
         /\ \A u \in Threads \ {t} : Record(t, failed)[u] = result[u]
BY DEF Record, Result

(* The first error survives the end of beginDrain's wait. *)
LEMMA QuiesceEffect ==
  ASSUME result \in [Threads -> Result], NEW t \in Threads, Quiesce(t)
  PROVE  /\ result[t].error \/ closeFailed => result'[t].error
         /\ \A u \in Threads \ {t} : result'[u] = result[u]
<1>1. result' = [result EXCEPT ![t].sealed = (call[t] = "scoped"),
                               ![t].error = @ \/ closeFailed]
  BY DEF Quiesce
<1>2. ASSUME NEW b \in BOOLEAN, NEW g \in BOOLEAN
      PROVE LET r == [result EXCEPT ![t].sealed = b, ![t].error = @ \/ g]
            IN /\ result[t].error \/ g => r[t].error
               /\ \A u \in Threads \ {t} : r[u] = result[u]
  BY DEF Result
<1>. QED
  BY <1>1, <1>2

(* A preflight that finds a live handle records it. *)
LEMMA PreflightEffect ==
  ASSUME result \in [Threads -> Result], NEW t \in Threads, Preflight(t)
  PROVE  /\ result[t].error \/ handles # {} => result'[t].error
         /\ \A u \in Threads \ {t} : result'[u] = result[u]
<1>1. PICK interrupted \in BOOLEAN :
          result' = Record(t, interrupted \/ lock # "Self" \/ handles # {})
  BY DEF Preflight
<1>. QED
  BY <1>1, RecordKeeps

(* A refused fence, or an earlier error, skips the preflight. *)
LEMMA FenceEffect ==
  ASSUME result \in [Threads -> Result], NEW t \in Threads,
         FenceForRetirement(t)
  PROVE  /\ result[t].error => result'[t].error
         /\ \A u \in Threads \ {t} : result'[u] = result[u]
         /\ \/ Goto(t, "preflight")
            \/ Goto(t, "finish") /\ result'[t].error
<1>1. PICK ok \in BOOLEAN :
           /\ result' = Record(t, ~ok)
           /\ Goto(t, IF ok /\ ~result[t].error THEN "preflight"
                                                ELSE "finish")
  BY DEF FenceForRetirement
<1>2. /\ result[t].error \/ ~ok => result'[t].error
      /\ \A u \in Threads \ {t} : result'[u] = result[u]
  BY <1>1, RecordKeeps
<1>. QED
  BY <1>1, <1>2

(* A flush that leaves a buffer non-empty records it. *)
LEMMA LibcFlushEffect ==
  ASSUME result \in [Threads -> Result], NEW t \in Threads, LibcFlush(t)
  PROVE  /\ result[t].error => result'[t].error
         /\ (\E f \in Files : buffered'[f] # "none") => result'[t].error
         /\ \A u \in Threads \ {t} : result'[u] = result[u]
         /\ \E S \in SUBSET Flushable(t) :
              /\ buffered' = [f \in Files |->
                                IF f \in S THEN "none" ELSE buffered[f]]
              /\ dirty' = dirty \cup S
<1>1. PICK S \in SUBSET Flushable(t), otherStreamFails \in BOOLEAN :
           /\ buffered' = [f \in Files |->
                             IF f \in S THEN "none" ELSE buffered[f]]
           /\ dirty' = dirty \cup S
           /\ result' = Record(t, \/ otherStreamFails
                                  \/ \E f \in Files : buffered'[f] # "none")
  BY DEF LibcFlush
<1>. QED
  BY <1>1, RecordKeeps

(* A close only gives up handles, and records bytes it did not flush. *)
LEMMA CloseDetachedEffect ==
  ASSUME result \in [Threads -> Result], kind \in [Files -> Kind],
         NEW t \in Threads, NEW f \in Files,
         CloseDetached(t, f)
  PROVE  /\ result[t].error => result'[t].error
         /\ \A u \in Threads \ {t} : result'[u] = result[u]
         /\ handles' \subseteq handles
         /\ dirty' \subseteq dirty
         /\ \A g \in Files \ {f} : kind'[g] = kind[g]
         /\ f \in dirty' => kind'[f] = kind[f] \/ result'[t].error
<1>1. CASE AdmitsInternal(t)
  <2>1. PICK flushed \in BOOLEAN, closed \in BOOLEAN :
               /\ dirty' = IF flushed THEN dirty \ {f} ELSE dirty
               /\ CloseHandle(f, closed)
               /\ result' = Record(t, ~flushed \/ ~closed)
    BY <1>1 DEF CloseDetached
  <2>2. /\ result[t].error \/ ~flushed => result'[t].error
        /\ \A u \in Threads \ {t} : result'[u] = result[u]
    BY <2>1, RecordKeeps
  <2>3. /\ handles' \subseteq handles
        /\ \A g \in Files \ {f} : kind'[g] = kind[g]
    BY <2>1 DEF CloseHandle
  <2>. QED
    BY <2>1, <2>2, <2>3
<1>2. CASE ~AdmitsInternal(t)
  <2>1. result' = Record(t, TRUE) /\ UNCHANGED <<dirty, kind, handles>>
    BY <1>2 DEF CloseDetached
  <2>. QED
    BY <2>1, RecordKeeps
<1>. QED
  BY <1>1, <1>2
(* One thread at most is at a step of a drain. *)
LEMMA DrainIsUnique ==
  ASSUME CallMatchesPC, OneDrain,
         NEW t \in Threads, NEW u \in Threads,
         pc[t] \in DrainPC, pc[u] \in DrainPC
  PROVE  t = u
BY DEF CallMatchesPC, OneDrain

(* A thread with a token works under the lock: the drain that sealed the   *)
(* lease is still waiting for it, so the transaction has not begun.        *)
LEMMA TokenMeansLock ==
  ASSUME TokensMatchPC, SealMatchesDrain, LockMatchesTxn, external # {},
         external \subseteq Threads
  PROVE  lock = "Self" /\ txn = "none"
<1>1. lease \in {"Active", "Sealing"}
  BY DEF TokensMatchPC
<1>2. CASE lease = "Sealing"
  <2>1. drainOwner = NoThread
    BY DEF SealMatchesDrain
  <2>2. PICK t \in Threads : OwnsSeal(t) \/ pc[t] = "quiesce"
    BY <1>2 DEF SealMatchesDrain
  <2>3. pc[t] = "quiesce"
    BY <2>1, <2>2, ThreadsAssumption DEF SealMatchesDrain
  <2>. QED
    BY <1>2, <2>3 DEF LockMatchesTxn
<1>. QED
  BY <1>1, <1>2 DEF LockMatchesTxn

(* While the lease can be used, a drain that flushes or closes files is    *)
(* admitted to them and has not begun its transaction.                     *)
LEMMA DrainAdmitted ==
  ASSUME CallMatchesPC, OneDrain, SealMatchesDrain, LockMatchesTxn,
         NEW t \in Threads, pc[t] \in {"libc", "close"},
         lease \in {"Active", "Sealing"}
  PROVE  AdmitsInternal(t) /\ lock = "Self"
<1>1. CASE lease = "Sealing"
  <2>1. PICK u \in Threads : OwnsSeal(u) \/ pc[u] = "quiesce"
    BY <1>1 DEF SealMatchesDrain
  <2>2. pc[u] \in DrainPC /\ pc[t] \in DrainPC
    BY <2>1 DEF OwnsSeal, SealedPC, DrainPC
  <2>3. u = t
    BY <2>2, DrainIsUnique
  <2>4. OwnsSeal(t)
    BY <2>1, <2>3
  <2>5. drainOwner = t /\ txn = "none"
    BY <2>4 DEF SealMatchesDrain, LockMatchesTxn
  <2>. QED
    BY <1>1, <2>5 DEF AdmitsInternal, LockMatchesTxn
<1>. QED
  BY <1>1 DEF AdmitsInternal, LockMatchesTxn

(* When a sealed drain has closed its files, no handle is open and nobody  *)
(* can open one.                                                           *)
LEMMA SealedMeansClosed ==
  ASSUME CallMatchesPC, OneDrain, TokensMatchPC, SealMatchesDrain,
         HandlesReachable, DrainProgress,
         NEW t \in Threads, pc[t] \in SealedPC
  PROVE  /\ external = {} /\ table = {}
         /\ \A u \in Threads : todo[u] = {}
         /\ \A f \in Files : kind[f] # "Access"
<1>1. external = {} /\ table = {}
  BY ThreadsAssumption DEF SealMatchesDrain, OwnsSeal, DrainProgress, PastDetach
<1>2. ASSUME NEW u \in Threads PROVE todo[u] = {}
  <2>1. CASE pc[u] = "close"
    <3>1. pc[u] \in DrainPC /\ pc[t] \in DrainPC
      BY <2>1 DEF SealedPC, DrainPC
    <3>2. u = t
      BY <3>1, DrainIsUnique
    <3>. QED
      BY <2>1, <3>2 DEF SealedPC
  <2>. QED
    BY <2>1 DEF CallMatchesPC
<1>3. ASSUME NEW f \in Files PROVE ~Busy(f)
  BY <1>1 DEF Busy, TokensMatchPC
<1>. QED
  BY <1>1, <1>2, <1>3 DEF HandlesReachable

(* A drain that got to its transaction leaves nothing behind. *)
LEMMA TransactionIsClean ==
  ASSUME CallMatchesPC, OneDrain, TokensMatchPC, SealMatchesDrain,
         LockMatchesTxn, HandlesReachable, DirtyAccounted, DrainProgress,
         dirty \subseteq Files, NEW t \in Threads, pc[t] = "txn"
  PROVE  ~Claims /\ dirty = {}
<1>1. ~result[t].error /\ pc[t] \in SealedPC /\ PastDetach(t)
  BY DEF LockMatchesTxn, SealedPC, PastDetach
<1>2. handles = {} /\ \A f \in Files : buffered[f] # "early"
  BY <1>1 DEF DrainProgress
<1>3. ASSUME NEW f \in dirty PROVE FALSE
  <2>1. lease = "Sealing" /\ kind[f] # "Access"
    BY <1>1, SealedMeansClosed DEF SealMatchesDrain, OwnsSeal
  <2>2. PICK u \in Threads : PastDetach(u) /\ result[u].error
    BY <2>1 DEF DirtyAccounted
  <2>3. pc[u] \in DrainPC /\ pc[t] \in DrainPC
    BY <2>2 DEF PastDetach, SealedPC, DrainPC
  <2>. QED
    BY <1>1, <2>2, <2>3, DrainIsUnique
<1>. QED
  BY <1>2, <1>3 DEF Claims

(* Every step keeps calls and program counters in line. *)
LEMMA CallMatchesPCStep ==
  ASSUME pc \in [Threads -> PC], call \in [Threads -> Call], todo \in
         [Threads -> SUBSET Files], CallMatchesPC, [Next]_vars
  PROVE  CallMatchesPC'
<1>. USE DEF CallMatchesPC, FileCall, DrainCall, OpPC, DrainPC, Goto, Enter,
             Return
<1>1. ASSUME NEW t \in Threads,
             \/ CreateReserve(t) \/ AcquireLease(t) \/ AcquireFails(t)
             \/ AddBackend(t) \/ DestructorBegin(t) \/ DestructorEnd(t)
             \/ RefuseBackend(t) \/ OperationEnd(t) \/ AdmitBackend(t)
             \/ EnterFile(t) \/ ReleaseToken(t)
      PROVE  CallMatchesPC'
  BY <1>1 DEF CreateReserve, AcquireLease, AcquireFails, AddBackend,
         DestructorBegin, DestructorEnd, RefuseBackend, OperationEnd,
         AdmitBackend, EnterFile, ReleaseToken
<1>2. ASSUME NEW t \in Threads,
             \/ OpenFile(t) \/ WriteFile(t) \/ SyncFile(t) \/ CloseFile(t)
             \/ AbandonOpenFile(t) \/ LeaveFile(t) \/ ScopedBegin(t)
             \/ ScopedRefused(t) \/ TerminalBegin(t) \/ TerminalRefused(t)
      PROVE  CallMatchesPC'
  BY <1>2 DEF OpenFile, WriteFile, SyncFile, CloseFile, AbandonOpenFile,
         LeaveFile, ScopedBegin, ScopedRefused, TerminalBegin,
         TerminalRefused, CloseHandle
<1>3. ASSUME NEW t \in Threads,
             \/ OperationsDrained(t) \/ Seal(t) \/ SealRefused(t)
             \/ NothingToFinalize(t) \/ Quiesce(t) \/ LibcFlush(t)
             \/ DetachFiles(t) \/ CloseesDone(t) \/ CloseGate(t)
             \/ GateDrained(t) \/ FenceForRetirement(t) \/ Preflight(t)
      PROVE  CallMatchesPC'
  BY <1>3 DEF OperationsDrained, Seal, SealRefused, NothingToFinalize,
         Quiesce, LibcFlush, DetachFiles, CloseesDone, CloseGate,
         GateDrained, FenceForRetirement, Preflight, Record
<1>4. ASSUME NEW t \in Threads,
             \/ FinishFailed(t) \/ FinishRequest(t)
             \/ ReleaseAcknowledged(t) \/ ReleaseUnacknowledged(t)
             \/ CancelWorker(t) \/ CancelFails(t) \/ JoinWorker(t)
             \/ CleanupSeen(t) \/ CleanupTimeout(t) \/ ScopedEnd(t)
             \/ TerminalEnd(t)
      PROVE  CallMatchesPC'
  BY <1>4 DEF FinishFailed, FinishRequest, ReleaseAcknowledged,
         ReleaseUnacknowledged, CancelWorker, CancelFails, JoinWorker,
         CleanupSeen, CleanupTimeout, ScopedEnd, TerminalEnd, Record,
         Finished, Abandon
<1>5. ASSUME NEW t \in Threads, NEW c \in FileCall, NEW f \in Files,
             OperationBegin(t, c, f)
      PROVE  CallMatchesPC'
  BY <1>5 DEF OperationBegin
<1>6. ASSUME NEW t \in Threads, NEW f \in Files, BufferedWrite(t, f)
      PROVE  CallMatchesPC'
  BY <1>6 DEF BufferedWrite
<1>7. ASSUME NEW t \in Threads, NEW f \in Files, CloseDetached(t, f)
      PROVE  CallMatchesPC'
  BY <1>7 DEF CloseDetached, Record, CloseHandle
<1>8. ASSUME ReleaseLock \/ ReleaseRejected \/ ResetContext \/ WorkerExit \/
             CleanupThread \/ InterruptTransaction \/
             RivalAcquires \/ RivalReleases
      PROVE  CallMatchesPC'
  BY <1>8 DEF ReleaseLock, ReleaseRejected, ResetContext, WorkerExit,
         CleanupThread, InterruptTransaction, RivalAcquires, RivalReleases
<1>9. CASE UNCHANGED vars
  BY <1>9 DEF vars
<1>. QED
  BY <1>1, <1>2, <1>3, <1>4, <1>5, <1>6, <1>7, <1>8, <1>9 DEF Next, Start,
     Continue, Factory, Operation, Drain, OPFSWorker, Environment

(* The two flags under operationMutex keep drains apart. *)
LEMMA OneDrainStep ==
  ASSUME pc \in [Threads -> PC], call \in [Threads -> Call],
         CallMatchesPC, OneDrain, [Next]_vars
  PROVE  OneDrain'
<1>. USE DEF OneDrain, FileCall, DrainCall, MayDrain, Goto, Enter, Return
<1>1. ASSUME NEW t \in Threads,
             \/ CreateReserve(t) \/ AcquireLease(t) \/ AcquireFails(t)
             \/ AddBackend(t) \/ DestructorBegin(t) \/ DestructorEnd(t)
             \/ RefuseBackend(t) \/ OperationEnd(t) \/ AdmitBackend(t)
             \/ EnterFile(t) \/ ReleaseToken(t)
      PROVE  OneDrain'
  BY <1>1 DEF CreateReserve, AcquireLease, AcquireFails, AddBackend,
         DestructorBegin, DestructorEnd, RefuseBackend, OperationEnd,
         AdmitBackend, EnterFile, ReleaseToken
<1>2. ASSUME NEW t \in Threads,
             \/ OpenFile(t) \/ WriteFile(t) \/ SyncFile(t) \/ CloseFile(t)
             \/ AbandonOpenFile(t) \/ LeaveFile(t) \/ ScopedBegin(t)
             \/ ScopedRefused(t) \/ TerminalBegin(t) \/ TerminalRefused(t)
      PROVE  OneDrain'
  BY <1>2 DEF OpenFile, WriteFile, SyncFile, CloseFile, AbandonOpenFile,
         LeaveFile, ScopedBegin, ScopedRefused, TerminalBegin,
         TerminalRefused, CloseHandle
<1>3. ASSUME NEW t \in Threads,
             \/ OperationsDrained(t) \/ Seal(t) \/ SealRefused(t)
             \/ NothingToFinalize(t) \/ Quiesce(t) \/ LibcFlush(t)
             \/ DetachFiles(t) \/ CloseesDone(t) \/ CloseGate(t)
             \/ GateDrained(t) \/ FenceForRetirement(t) \/ Preflight(t)
      PROVE  OneDrain'
  BY <1>3 DEF OperationsDrained, Seal, SealRefused, NothingToFinalize,
         Quiesce, LibcFlush, DetachFiles, CloseesDone, CloseGate,
         GateDrained, FenceForRetirement, Preflight, Record
<1>4. ASSUME NEW t \in Threads,
             \/ FinishFailed(t) \/ FinishRequest(t)
             \/ ReleaseAcknowledged(t) \/ ReleaseUnacknowledged(t)
             \/ CancelWorker(t) \/ CancelFails(t) \/ JoinWorker(t)
             \/ CleanupSeen(t) \/ CleanupTimeout(t)
      PROVE  OneDrain'
  BY <1>4 DEF FinishFailed, FinishRequest, ReleaseAcknowledged,
         ReleaseUnacknowledged, CancelWorker, CancelFails, JoinWorker,
         CleanupSeen, CleanupTimeout, Record, Abandon
<1>5. ASSUME NEW t \in Threads,
             \/ ScopedEnd(t) \/ TerminalEnd(t)
      PROVE  OneDrain'
  BY <1>5 DEF ScopedEnd, TerminalEnd, Finished, CallMatchesPC, DrainPC
<1>6. ASSUME NEW t \in Threads, NEW c \in FileCall, NEW f \in Files,
             OperationBegin(t, c, f)
      PROVE  OneDrain'
  BY <1>6 DEF OperationBegin
<1>7. ASSUME NEW t \in Threads, NEW f \in Files, BufferedWrite(t, f)
      PROVE  OneDrain'
  BY <1>7 DEF BufferedWrite
<1>8. ASSUME NEW t \in Threads, NEW f \in Files, CloseDetached(t, f)
      PROVE  OneDrain'
  BY <1>8 DEF CloseDetached, Record, CloseHandle
<1>9. ASSUME ReleaseLock \/ ReleaseRejected \/ ResetContext \/ WorkerExit \/
             CleanupThread \/ InterruptTransaction \/
             RivalAcquires \/ RivalReleases
      PROVE  OneDrain'
  BY <1>9 DEF ReleaseLock, ReleaseRejected, ResetContext, WorkerExit,
         CleanupThread, InterruptTransaction, RivalAcquires, RivalReleases
<1>10. CASE UNCHANGED vars
  BY <1>10 DEF vars
<1>. QED
  BY <1>1, <1>2, <1>3, <1>4, <1>5, <1>6, <1>7, <1>8, <1>9, <1>10 DEF Next,
     Start, Continue, Factory, Operation, Drain, OPFSWorker, Environment

(* The reservation keeps leased backends apart. *)
LEMMA OneLeaseOwnerStep ==
  ASSUME pc \in [Threads -> PC], call \in [Threads -> Call],
         CallMatchesPC, SealMatchesDrain, OneLeaseOwner, [Next]_vars
  PROVE  OneLeaseOwner'
<1>. USE DEF OneLeaseOwner, CallMatchesPC, FileCall, DrainCall, OpPC,
             DrainPC, Goto, Enter, Return
<1>1. ASSUME NEW t \in Threads,
             \/ CreateReserve(t) \/ AcquireLease(t) \/ AcquireFails(t)
             \/ AddBackend(t) \/ DestructorBegin(t) \/ DestructorEnd(t)
             \/ RefuseBackend(t) \/ OperationEnd(t) \/ AdmitBackend(t)
             \/ EnterFile(t) \/ ReleaseToken(t)
      PROVE  OneLeaseOwner'
  BY <1>1 DEF CreateReserve, AcquireLease, AcquireFails, AddBackend,
         DestructorBegin, DestructorEnd, RefuseBackend, OperationEnd,
         AdmitBackend, EnterFile, ReleaseToken
<1>2. ASSUME NEW t \in Threads,
             \/ OpenFile(t) \/ WriteFile(t) \/ SyncFile(t) \/ CloseFile(t)
             \/ AbandonOpenFile(t) \/ LeaveFile(t) \/ ScopedBegin(t)
             \/ ScopedRefused(t) \/ TerminalBegin(t) \/ TerminalRefused(t)
      PROVE  OneLeaseOwner'
  BY <1>2 DEF OpenFile, WriteFile, SyncFile, CloseFile, AbandonOpenFile,
         LeaveFile, ScopedBegin, ScopedRefused, TerminalBegin,
         TerminalRefused, CloseHandle
<1>3. ASSUME NEW t \in Threads,
             \/ OperationsDrained(t) \/ Seal(t) \/ SealRefused(t)
             \/ NothingToFinalize(t) \/ Quiesce(t) \/ LibcFlush(t)
             \/ DetachFiles(t) \/ CloseesDone(t) \/ CloseGate(t)
             \/ GateDrained(t) \/ FenceForRetirement(t) \/ Preflight(t)
      PROVE  OneLeaseOwner'
  BY <1>3 DEF OperationsDrained, Seal, SealRefused, NothingToFinalize,
         Quiesce, LibcFlush, DetachFiles, CloseesDone, CloseGate,
         GateDrained, FenceForRetirement, Preflight, Record
<1>4. ASSUME NEW t \in Threads,
             \/ FinishRequest(t) \/ JoinWorker(t) \/ CleanupTimeout(t)
             \/ ScopedEnd(t) \/ TerminalEnd(t)
      PROVE  OneLeaseOwner'
  BY <1>4 DEF FinishRequest, JoinWorker, CleanupTimeout, ScopedEnd,
         TerminalEnd, Record, Finished
<1>5. ASSUME NEW t \in Threads,
             \/ FinishFailed(t) \/ ReleaseAcknowledged(t)
             \/ ReleaseUnacknowledged(t) \/ CancelWorker(t)
             \/ CancelFails(t) \/ CleanupSeen(t)
      PROVE  OneLeaseOwner'
  BY <1>5 DEF FinishFailed, ReleaseAcknowledged, ReleaseUnacknowledged,
         CancelWorker, CancelFails, CleanupSeen, Record, Abandon,
         SealMatchesDrain, OwnsSeal, SealedPC
<1>6. ASSUME NEW t \in Threads, NEW c \in FileCall, NEW f \in Files,
             OperationBegin(t, c, f)
      PROVE  OneLeaseOwner'
  BY <1>6 DEF OperationBegin
<1>7. ASSUME NEW t \in Threads, NEW f \in Files, BufferedWrite(t, f)
      PROVE  OneLeaseOwner'
  BY <1>7 DEF BufferedWrite
<1>8. ASSUME NEW t \in Threads, NEW f \in Files, CloseDetached(t, f)
      PROVE  OneLeaseOwner'
  BY <1>8 DEF CloseDetached, Record, CloseHandle
<1>9. ASSUME ReleaseLock \/ ReleaseRejected \/ ResetContext \/ WorkerExit \/
             CleanupThread \/ InterruptTransaction \/
             RivalAcquires \/ RivalReleases
      PROVE  OneLeaseOwner'
  BY <1>9 DEF ReleaseLock, ReleaseRejected, ResetContext, WorkerExit,
         CleanupThread, InterruptTransaction, RivalAcquires, RivalReleases
<1>10. CASE UNCHANGED vars
  BY <1>10 DEF vars
<1>. QED
  BY <1>1, <1>2, <1>3, <1>4, <1>5, <1>6, <1>7, <1>8, <1>9, <1>10 DEF Next,
     Start, Continue, Factory, Operation, Drain, OPFSWorker, Environment

(* Tokens are held exactly between admission and release. *)
LEMMA TokensMatchPCStep ==
  ASSUME pc \in [Threads -> PC], call \in [Threads -> Call],
         activeOperations \subseteq Threads, external \subseteq Threads,
         internal \subseteq Threads, CallMatchesPC, OneLeaseOwner,
         SealMatchesDrain, TokensMatchPC, [Next]_vars
  PROVE  TokensMatchPC'
<1>. USE DEF TokensMatchPC, CallMatchesPC, FileCall, DrainCall, OpPC,
             DrainPC, Goto, Enter, Return
<1>1. ASSUME NEW t \in Threads,
             \/ CreateReserve(t) \/ AddBackend(t) \/ DestructorBegin(t)
             \/ DestructorEnd(t) \/ RefuseBackend(t) \/ OperationEnd(t)
             \/ ReleaseToken(t)
      PROVE  TokensMatchPC'
  BY <1>1 DEF CreateReserve, AddBackend, DestructorBegin, DestructorEnd,
         RefuseBackend, OperationEnd, ReleaseToken
<1>2. ASSUME NEW t \in Threads,
             \/ OpenFile(t) \/ WriteFile(t) \/ SyncFile(t) \/ CloseFile(t)
             \/ AbandonOpenFile(t) \/ LeaveFile(t) \/ ScopedBegin(t)
             \/ ScopedRefused(t) \/ TerminalBegin(t) \/ TerminalRefused(t)
      PROVE  TokensMatchPC'
  BY <1>2 DEF OpenFile, WriteFile, SyncFile, CloseFile, AbandonOpenFile,
         LeaveFile, ScopedBegin, ScopedRefused, TerminalBegin,
         TerminalRefused, CloseHandle
<1>3. ASSUME NEW t \in Threads,
             \/ OperationsDrained(t) \/ Seal(t) \/ SealRefused(t)
             \/ NothingToFinalize(t) \/ Quiesce(t) \/ LibcFlush(t)
             \/ DetachFiles(t) \/ CloseesDone(t) \/ CloseGate(t)
             \/ GateDrained(t) \/ FenceForRetirement(t) \/ Preflight(t)
      PROVE  TokensMatchPC'
  BY <1>3 DEF OperationsDrained, Seal, SealRefused, NothingToFinalize,
         Quiesce, LibcFlush, DetachFiles, CloseesDone, CloseGate,
         GateDrained, FenceForRetirement, Preflight, Record
<1>4. ASSUME NEW t \in Threads,
             \/ FinishRequest(t) \/ JoinWorker(t) \/ CleanupTimeout(t)
             \/ ScopedEnd(t) \/ TerminalEnd(t)
      PROVE  TokensMatchPC'
  BY <1>4 DEF FinishRequest, JoinWorker, CleanupTimeout, ScopedEnd,
         TerminalEnd, Record, Finished
<1>5. ASSUME NEW t \in Threads,
             \/ AcquireLease(t) \/ AcquireFails(t)
      PROVE  TokensMatchPC'
  BY <1>5 DEF AcquireLease, AcquireFails, OneLeaseOwner
<1>6. ASSUME NEW t \in Threads, AdmitBackend(t)
      PROVE  TokensMatchPC'
  BY <1>6 DEF AdmitBackend, AdmitsExternal
<1>7. ASSUME NEW t \in Threads, EnterFile(t)
      PROVE  TokensMatchPC'
  BY <1>7 DEF EnterFile, AdmitsInternal
<1>8. ASSUME NEW t \in Threads,
             \/ FinishFailed(t) \/ ReleaseAcknowledged(t)
             \/ ReleaseUnacknowledged(t) \/ CancelWorker(t)
             \/ CancelFails(t) \/ CleanupSeen(t)
      PROVE  TokensMatchPC'
  BY <1>8, ThreadsAssumption DEF FinishFailed, ReleaseAcknowledged,
         ReleaseUnacknowledged, CancelWorker, CancelFails, CleanupSeen,
         Record, Abandon, SealMatchesDrain, OwnsSeal, SealedPC
<1>9. ASSUME NEW t \in Threads, NEW c \in FileCall, NEW f \in Files,
             OperationBegin(t, c, f)
      PROVE  TokensMatchPC'
  BY <1>9 DEF OperationBegin
<1>10. ASSUME NEW t \in Threads, NEW f \in Files, BufferedWrite(t, f)
      PROVE  TokensMatchPC'
  BY <1>10 DEF BufferedWrite
<1>11. ASSUME NEW t \in Threads, NEW f \in Files, CloseDetached(t, f)
      PROVE  TokensMatchPC'
  BY <1>11 DEF CloseDetached, Record, CloseHandle
<1>12. ASSUME ReleaseLock \/ ReleaseRejected \/ ResetContext \/ WorkerExit \/
             CleanupThread \/ InterruptTransaction \/
             RivalAcquires \/ RivalReleases
      PROVE  TokensMatchPC'
  BY <1>12 DEF ReleaseLock, ReleaseRejected, ResetContext, WorkerExit,
         CleanupThread, InterruptTransaction, RivalAcquires, RivalReleases
<1>13. CASE UNCHANGED vars
  BY <1>13 DEF vars
<1>. QED
  BY <1>1, <1>2, <1>3, <1>4, <1>5, <1>6, <1>7, <1>8, <1>9, <1>10, <1>11,
     <1>12, <1>13 DEF Next, Start, Continue, Factory, Operation, Drain,
     OPFSWorker, Environment

(* A seal belongs to one drain until its transaction returns. *)
LEMMA SealMatchesDrainStep ==
  ASSUME pc \in [Threads -> PC], call \in [Threads -> Call], drainOwner
         \in Threads \cup {NoThread}, CallMatchesPC, OneDrain,
         OneLeaseOwner, SealMatchesDrain, [Next]_vars
  PROVE  SealMatchesDrain'
<1>. USE DEF SealMatchesDrain, OwnsSeal, SealedPC, CallMatchesPC, FileCall,
             DrainCall, OpPC, DrainPC, Goto, Enter, Return
<1>1. ASSUME NEW t \in Threads,
             \/ CreateReserve(t) \/ AcquireFails(t) \/ AddBackend(t)
             \/ DestructorBegin(t) \/ DestructorEnd(t) \/ RefuseBackend(t)
             \/ OperationEnd(t) \/ EnterFile(t) \/ ReleaseToken(t)
      PROVE  SealMatchesDrain'
  BY <1>1 DEF CreateReserve, AcquireFails, AddBackend, DestructorBegin,
         DestructorEnd, RefuseBackend, OperationEnd, EnterFile,
         ReleaseToken
<1>2. ASSUME NEW t \in Threads,
             \/ OpenFile(t) \/ WriteFile(t) \/ SyncFile(t) \/ CloseFile(t)
             \/ AbandonOpenFile(t) \/ LeaveFile(t) \/ ScopedBegin(t)
             \/ ScopedRefused(t) \/ TerminalBegin(t) \/ TerminalRefused(t)
      PROVE  SealMatchesDrain'
  BY <1>2 DEF OpenFile, WriteFile, SyncFile, CloseFile, AbandonOpenFile,
         LeaveFile, ScopedBegin, ScopedRefused, TerminalBegin,
         TerminalRefused, CloseHandle
<1>3. ASSUME NEW t \in Threads,
             \/ OperationsDrained(t) \/ SealRefused(t)
             \/ NothingToFinalize(t) \/ LibcFlush(t) \/ DetachFiles(t)
             \/ CloseesDone(t) \/ CloseGate(t) \/ GateDrained(t)
             \/ FenceForRetirement(t) \/ Preflight(t)
      PROVE  SealMatchesDrain'
  BY <1>3 DEF OperationsDrained, SealRefused, NothingToFinalize, LibcFlush,
         DetachFiles, CloseesDone, CloseGate, GateDrained,
         FenceForRetirement, Preflight, Record
<1>4. ASSUME NEW t \in Threads,
             \/ FinishRequest(t) \/ JoinWorker(t) \/ CleanupTimeout(t)
             \/ ScopedEnd(t) \/ TerminalEnd(t)
      PROVE  SealMatchesDrain'
  BY <1>4 DEF FinishRequest, JoinWorker, CleanupTimeout, ScopedEnd,
         TerminalEnd, Record, Finished
<1>5. ASSUME NEW t \in Threads, AcquireLease(t)
      PROVE  SealMatchesDrain'
  BY <1>5 DEF AcquireLease, OneLeaseOwner
<1>6. ASSUME NEW t \in Threads, AdmitBackend(t)
      PROVE  SealMatchesDrain'
  BY <1>6 DEF AdmitBackend, AdmitsExternal
<1>7. ASSUME NEW t \in Threads, Seal(t)
      PROVE  SealMatchesDrain'
  BY <1>7 DEF Seal, OneDrain
<1>8. ASSUME NEW t \in Threads, Quiesce(t)
      PROVE  SealMatchesDrain'
  BY <1>8, ThreadsAssumption DEF Quiesce, OneDrain, Quiescent
<1>9. ASSUME NEW t \in Threads,
             \/ FinishFailed(t) \/ ReleaseAcknowledged(t)
             \/ ReleaseUnacknowledged(t) \/ CancelWorker(t)
             \/ CancelFails(t) \/ CleanupSeen(t)
      PROVE  SealMatchesDrain'
  BY <1>9, ThreadsAssumption DEF FinishFailed, ReleaseAcknowledged,
         ReleaseUnacknowledged, CancelWorker, CancelFails, CleanupSeen,
         Record, Abandon, OneDrain
<1>10. ASSUME NEW t \in Threads, NEW c \in FileCall, NEW f \in Files,
             OperationBegin(t, c, f)
      PROVE  SealMatchesDrain'
  BY <1>10 DEF OperationBegin
<1>11. ASSUME NEW t \in Threads, NEW f \in Files, BufferedWrite(t, f)
      PROVE  SealMatchesDrain'
  BY <1>11 DEF BufferedWrite
<1>12. ASSUME NEW t \in Threads, NEW f \in Files, CloseDetached(t, f)
      PROVE  SealMatchesDrain'
  BY <1>12 DEF CloseDetached, Record, CloseHandle
<1>13. ASSUME ReleaseLock \/ ReleaseRejected \/ ResetContext \/ WorkerExit \/
             CleanupThread \/ InterruptTransaction \/
             RivalAcquires \/ RivalReleases
      PROVE  SealMatchesDrain'
  BY <1>13 DEF ReleaseLock, ReleaseRejected, ResetContext, WorkerExit,
         CleanupThread, InterruptTransaction, RivalAcquires, RivalReleases
<1>14. CASE UNCHANGED vars
  BY <1>14 DEF vars
<1>. QED
  BY <1>1, <1>2, <1>3, <1>4, <1>5, <1>6, <1>7, <1>8, <1>9, <1>10, <1>11,
     <1>12, <1>13, <1>14 DEF Next, Start, Continue, Factory, Operation,
     Drain, OPFSWorker, Environment

(* The lock follows the transaction. *)
LEMMA LockMatchesTxnStep ==
  ASSUME pc \in [Threads -> PC], call \in [Threads -> Call], result \in
         [Threads -> Result], lease \in LeaseState, txn \in Txn,
         CallMatchesPC, OneDrain, OneLeaseOwner, SealMatchesDrain,
         LockMatchesTxn, [Next]_vars
  PROVE  LockMatchesTxn'
<1>. USE DEF LockMatchesTxn, SealMatchesDrain, OwnsSeal, SealedPC, Goto,
             Enter, Return
<1>1. ASSUME NEW t \in Threads,
             \/ CreateReserve(t) \/ AcquireFails(t) \/ AddBackend(t)
             \/ DestructorBegin(t) \/ DestructorEnd(t) \/ RefuseBackend(t)
             \/ OperationEnd(t) \/ AdmitBackend(t) \/ EnterFile(t)
             \/ ReleaseToken(t)
      PROVE  LockMatchesTxn'
  BY <1>1 DEF CreateReserve, AcquireFails, AddBackend, DestructorBegin,
         DestructorEnd, RefuseBackend, OperationEnd, AdmitBackend,
         EnterFile, ReleaseToken
<1>2. ASSUME NEW t \in Threads,
             \/ OpenFile(t) \/ WriteFile(t) \/ SyncFile(t) \/ CloseFile(t)
             \/ AbandonOpenFile(t) \/ LeaveFile(t) \/ ScopedBegin(t)
             \/ ScopedRefused(t) \/ TerminalBegin(t) \/ TerminalRefused(t)
      PROVE  LockMatchesTxn'
  BY <1>2 DEF OpenFile, WriteFile, SyncFile, CloseFile, AbandonOpenFile,
         LeaveFile, ScopedBegin, ScopedRefused, TerminalBegin,
         TerminalRefused, CloseHandle
<1>3. ASSUME NEW t \in Threads,
             \/ Seal(t) \/ SealRefused(t) \/ Quiesce(t) \/ LibcFlush(t)
             \/ DetachFiles(t) \/ CloseesDone(t) \/ CloseGate(t)
             \/ GateDrained(t) \/ FenceForRetirement(t) \/ Preflight(t)
      PROVE  LockMatchesTxn'
  BY <1>3 DEF Seal, SealRefused, Quiesce, LibcFlush, DetachFiles,
         CloseesDone, CloseGate, GateDrained, FenceForRetirement,
         Preflight, Record
<1>4. ASSUME NEW t \in Threads,
             \/ FinishFailed(t) \/ ReleaseAcknowledged(t)
             \/ ReleaseUnacknowledged(t) \/ CancelWorker(t)
             \/ CancelFails(t) \/ JoinWorker(t) \/ CleanupSeen(t)
             \/ CleanupTimeout(t) \/ ScopedEnd(t) \/ TerminalEnd(t)
      PROVE  LockMatchesTxn'
  BY <1>4 DEF FinishFailed, ReleaseAcknowledged, ReleaseUnacknowledged,
         CancelWorker, CancelFails, JoinWorker, CleanupSeen,
         CleanupTimeout, ScopedEnd, TerminalEnd, Record, Finished, Abandon
<1>5. ASSUME NEW t \in Threads, AcquireLease(t)
      PROVE  LockMatchesTxn'
  BY <1>5 DEF AcquireLease, OneLeaseOwner
<1>6. ASSUME NEW t \in Threads, OperationsDrained(t)
      PROVE  LockMatchesTxn'
  BY <1>6 DEF OperationsDrained, CallMatchesPC, FileCall, DrainCall, OpPC,
         DrainPC
<1>7. ASSUME NEW t \in Threads, NothingToFinalize(t)
      PROVE  LockMatchesTxn'
  BY <1>7 DEF NothingToFinalize, Record, HasIncompleteScopedDrain
<1>8. ASSUME NEW t \in Threads, FinishRequest(t)
      PROVE  LockMatchesTxn'
  BY <1>8 DEF FinishRequest, OneDrain, CallMatchesPC, FileCall, DrainCall,
         OpPC, DrainPC
<1>9. ASSUME NEW t \in Threads, NEW c \in FileCall, NEW f \in Files,
             OperationBegin(t, c, f)
      PROVE  LockMatchesTxn'
  BY <1>9 DEF OperationBegin
<1>10. ASSUME NEW t \in Threads, NEW f \in Files, BufferedWrite(t, f)
      PROVE  LockMatchesTxn'
  BY <1>10 DEF BufferedWrite
<1>11. ASSUME NEW t \in Threads, NEW f \in Files, CloseDetached(t, f)
      PROVE  LockMatchesTxn'
  BY <1>11 DEF CloseDetached, Record, CloseHandle
<1>12. ASSUME ReleaseLock \/ ReleaseRejected \/ ResetContext \/ WorkerExit \/
             CleanupThread \/ InterruptTransaction \/
             RivalAcquires \/ RivalReleases
      PROVE  LockMatchesTxn'
  BY <1>12 DEF ReleaseLock, ReleaseRejected, ResetContext, WorkerExit,
         CleanupThread, InterruptTransaction, RivalAcquires, RivalReleases
<1>13. CASE UNCHANGED vars
  BY <1>13 DEF vars
<1>. QED
  BY <1>1, <1>2, <1>3, <1>4, <1>5, <1>6, <1>7, <1>8, <1>9, <1>10, <1>11,
     <1>12, <1>13 DEF Next, Start, Continue, Factory, Operation, Drain,
     OPFSWorker, Environment

(* Descriptors need a lease that can be used. *)
LEMMA TableNeedsLeaseStep ==
  ASSUME pc \in [Threads -> PC], todo \in [Threads -> SUBSET Files], table
         \subseteq Files, CallMatchesPC, OneDrain, TokensMatchPC,
         SealMatchesDrain, HandlesReachable, DrainProgress,
         TableNeedsLease, [Next]_vars
  PROVE  TableNeedsLease'
<1>. USE DEF TableNeedsLease, Goto, Enter, Return
<1>1. ASSUME NEW t \in Threads,
             \/ CreateReserve(t) \/ AcquireLease(t) \/ AcquireFails(t)
             \/ AddBackend(t) \/ DestructorBegin(t) \/ DestructorEnd(t)
             \/ RefuseBackend(t) \/ OperationEnd(t) \/ AdmitBackend(t)
             \/ EnterFile(t) \/ ReleaseToken(t)
      PROVE  TableNeedsLease'
  BY <1>1 DEF CreateReserve, AcquireLease, AcquireFails, AddBackend,
         DestructorBegin, DestructorEnd, RefuseBackend, OperationEnd,
         AdmitBackend, EnterFile, ReleaseToken
<1>2. ASSUME NEW t \in Threads,
             \/ OpenFile(t) \/ WriteFile(t) \/ SyncFile(t) \/ CloseFile(t)
             \/ AbandonOpenFile(t) \/ ScopedBegin(t) \/ ScopedRefused(t)
             \/ TerminalBegin(t) \/ TerminalRefused(t)
      PROVE  TableNeedsLease'
  BY <1>2 DEF OpenFile, WriteFile, SyncFile, CloseFile, AbandonOpenFile,
         ScopedBegin, ScopedRefused, TerminalBegin, TerminalRefused,
         CloseHandle
<1>3. ASSUME NEW t \in Threads,
             \/ OperationsDrained(t) \/ Seal(t) \/ SealRefused(t)
             \/ NothingToFinalize(t) \/ Quiesce(t) \/ LibcFlush(t)
             \/ DetachFiles(t) \/ CloseesDone(t) \/ CloseGate(t)
             \/ GateDrained(t) \/ FenceForRetirement(t) \/ Preflight(t)
      PROVE  TableNeedsLease'
  BY <1>3 DEF OperationsDrained, Seal, SealRefused, NothingToFinalize,
         Quiesce, LibcFlush, DetachFiles, CloseesDone, CloseGate,
         GateDrained, FenceForRetirement, Preflight, Record
<1>4. ASSUME NEW t \in Threads,
             \/ FinishRequest(t) \/ JoinWorker(t) \/ CleanupTimeout(t)
             \/ ScopedEnd(t) \/ TerminalEnd(t)
      PROVE  TableNeedsLease'
  BY <1>4 DEF FinishRequest, JoinWorker, CleanupTimeout, ScopedEnd,
         TerminalEnd, Record, Finished
<1>5. ASSUME NEW t \in Threads, LeaveFile(t)
      PROVE  TableNeedsLease'
  BY <1>5 DEF LeaveFile, TokensMatchPC
<1>6. ASSUME NEW t \in Threads,
             \/ FinishFailed(t) \/ ReleaseAcknowledged(t)
             \/ ReleaseUnacknowledged(t)
      PROVE  TableNeedsLease'
  BY <1>6, SealedMeansClosed DEF FinishFailed, ReleaseAcknowledged,
         ReleaseUnacknowledged, Record, Abandon, SealedPC
<1>7. ASSUME NEW t \in Threads,
             \/ CancelWorker(t) \/ CancelFails(t) \/ CleanupSeen(t)
      PROVE  TableNeedsLease'
  BY <1>7 DEF CancelWorker, CancelFails, CleanupSeen, Record,
         SealMatchesDrain
<1>8. ASSUME NEW t \in Threads, NEW c \in FileCall, NEW f \in Files,
             OperationBegin(t, c, f)
      PROVE  TableNeedsLease'
  BY <1>8 DEF OperationBegin
<1>9. ASSUME NEW t \in Threads, NEW f \in Files, BufferedWrite(t, f)
      PROVE  TableNeedsLease'
  BY <1>9 DEF BufferedWrite
<1>10. ASSUME NEW t \in Threads, NEW f \in Files, CloseDetached(t, f)
      PROVE  TableNeedsLease'
  BY <1>10 DEF CloseDetached, Record, CloseHandle
<1>11. ASSUME ReleaseLock \/ ReleaseRejected \/ ResetContext \/ WorkerExit \/
             CleanupThread \/ InterruptTransaction \/
             RivalAcquires \/ RivalReleases
      PROVE  TableNeedsLease'
  BY <1>11 DEF ReleaseLock, ReleaseRejected, ResetContext, WorkerExit,
         CleanupThread, InterruptTransaction, RivalAcquires, RivalReleases
<1>12. CASE UNCHANGED vars
  BY <1>12 DEF vars
<1>. QED
  BY <1>1, <1>2, <1>3, <1>4, <1>5, <1>6, <1>7, <1>8, <1>9, <1>10, <1>11,
     <1>12 DEF Next, Start, Continue, Factory, Operation, Drain,
     OPFSWorker, Environment

(* A drain keeps what it has established, or records an error. *)
LEMMA DrainProgressStep ==
  ASSUME pc \in [Threads -> PC], call \in [Threads -> Call], result \in
         [Threads -> Result], buffered \in [Files -> Buffer], kind \in
         [Files -> Kind], activeOperations \subseteq Threads, handles
         \subseteq Files, CallMatchesPC, OneDrain, TokensMatchPC,
         SealMatchesDrain, DrainProgress, [Next]_vars
  PROVE  DrainProgress'
<1>. USE DEF DrainProgress, PastDetach, SealedPC, Goto, Enter, Return
<1>1. ASSUME NEW t \in Threads,
             \/ AcquireLease(t) \/ AcquireFails(t) \/ AddBackend(t)
             \/ DestructorBegin(t) \/ DestructorEnd(t) \/ RefuseBackend(t)
             \/ OperationEnd(t) \/ AdmitBackend(t) \/ EnterFile(t)
             \/ ReleaseToken(t)
      PROVE  DrainProgress'
  BY <1>1 DEF AcquireLease, AcquireFails, AddBackend, DestructorBegin,
         DestructorEnd, RefuseBackend, OperationEnd, AdmitBackend,
         EnterFile, ReleaseToken
<1>2. ASSUME NEW t \in Threads,
             \/ WriteFile(t) \/ SyncFile(t) \/ CloseFile(t)
             \/ AbandonOpenFile(t) \/ ScopedBegin(t) \/ ScopedRefused(t)
             \/ TerminalBegin(t) \/ TerminalRefused(t)
      PROVE  DrainProgress'
  BY <1>2 DEF WriteFile, SyncFile, CloseFile, AbandonOpenFile, ScopedBegin,
         ScopedRefused, TerminalBegin, TerminalRefused, CloseHandle
<1>3. ASSUME NEW t \in Threads,
             \/ SealRefused(t) \/ DetachFiles(t) \/ CloseGate(t)
             \/ GateDrained(t)
      PROVE  DrainProgress'
  BY <1>3 DEF SealRefused, DetachFiles, CloseGate, GateDrained, Record
<1>4. ASSUME NEW t \in Threads,
             \/ FinishFailed(t) \/ FinishRequest(t)
             \/ ReleaseAcknowledged(t) \/ ReleaseUnacknowledged(t)
             \/ CancelWorker(t) \/ CancelFails(t) \/ JoinWorker(t)
             \/ CleanupSeen(t) \/ CleanupTimeout(t) \/ ScopedEnd(t)
             \/ TerminalEnd(t)
      PROVE  DrainProgress'
  BY <1>4 DEF FinishFailed, FinishRequest, ReleaseAcknowledged,
         ReleaseUnacknowledged, CancelWorker, CancelFails, JoinWorker,
         CleanupSeen, CleanupTimeout, ScopedEnd, TerminalEnd, Record,
         Finished, Abandon
<1>5. ASSUME NEW t \in Threads, CreateReserve(t)
      PROVE  DrainProgress'
  BY <1>5 DEF CreateReserve, OneDrain, AdmitsOperation
<1>6. ASSUME NEW t \in Threads,
             \/ OpenFile(t) \/ LeaveFile(t)
      PROVE  DrainProgress'
  BY <1>6, ThreadsAssumption DEF OpenFile, LeaveFile, TokensMatchPC,
         SealMatchesDrain, OwnsSeal, CallMatchesPC, FileCall, DrainCall,
         OpPC, DrainPC
<1>7. ASSUME NEW t \in Threads,
             \/ OperationsDrained(t) \/ Seal(t) \/ CloseesDone(t)
      PROVE  DrainProgress'
  BY <1>7 DEF OperationsDrained, Seal, CloseesDone, CallMatchesPC,
         FileCall, DrainCall, OpPC, DrainPC
<1>8. ASSUME NEW t \in Threads, NothingToFinalize(t)
      PROVE  DrainProgress'
  BY <1>8 DEF NothingToFinalize, Record, HasIncompleteScopedDrain
<1>9. ASSUME NEW t \in Threads, Quiesce(t)
      PROVE  DrainProgress'
  <2>1. /\ pc[t] = "quiesce"
        /\ Goto(t, IF call[t] = "scoped" THEN "libc" ELSE "gate")
        /\ UNCHANGED <<fsVars, lease, fileVars, call>>
    BY <1>9 DEF Quiesce
  <2>. QED
    BY <2>1, <1>9, QuiesceEffect DEF CallMatchesPC, DrainCall, DrainPC
<1>10. ASSUME NEW t \in Threads, LibcFlush(t)
      PROVE  DrainProgress'
  <2>1. /\ pc[t] = "libc" /\ Goto(t, "detach")
        /\ UNCHANGED <<fsVars, lease, table, kind, handles, lock, call>>
    BY <1>10 DEF LibcFlush
  <2>. QED
    BY <2>1, <1>10, LibcFlushEffect
<1>11. ASSUME NEW t \in Threads, FenceForRetirement(t)
      PROVE  DrainProgress'
  <2>1. /\ pc[t] = "fence"
        /\ UNCHANGED <<fsVars, lease, fileVars, call>>
    BY <1>11 DEF FenceForRetirement
  <2>. QED
    BY <2>1, <1>11, FenceEffect
<1>12. ASSUME NEW t \in Threads, Preflight(t)
      PROVE  DrainProgress'
  <2>1. /\ pc[t] = "preflight" /\ Goto(t, "finish")
        /\ UNCHANGED <<fsVars, lease, fileVars, call>>
    BY <1>12 DEF Preflight
  <2>. QED
    BY <2>1, <1>12, PreflightEffect
<1>13. ASSUME NEW t \in Threads, NEW c \in FileCall, NEW f \in Files,
             OperationBegin(t, c, f)
      PROVE  DrainProgress'
  BY <1>13 DEF OperationBegin, OneDrain, AdmitsOperation, FileCall,
         DrainCall, OpPC, DrainPC
<1>14. ASSUME NEW t \in Threads, NEW f \in Files, BufferedWrite(t, f)
      PROVE  DrainProgress'
  BY <1>14 DEF BufferedWrite, OneDrain, MayDrain, CallMatchesPC, FileCall,
         DrainCall, OpPC, DrainPC
<1>15. ASSUME NEW t \in Threads, NEW f \in Files, CloseDetached(t, f)
      PROVE  DrainProgress'
  <2>1. /\ pc[t] = "close" /\ f \in todo[t]
        /\ UNCHANGED <<fsVars, lease, table, buffered, pc, call>>
    BY <1>15 DEF CloseDetached
  <2>. QED
    BY <2>1, <1>15, CloseDetachedEffect
<1>16. ASSUME ReleaseLock \/ ReleaseRejected \/ ResetContext \/ WorkerExit \/
             CleanupThread \/ InterruptTransaction \/
             RivalAcquires \/ RivalReleases
      PROVE  DrainProgress'
  BY <1>16 DEF ReleaseLock, ReleaseRejected, ResetContext, WorkerExit,
         CleanupThread, InterruptTransaction, RivalAcquires, RivalReleases
<1>17. CASE UNCHANGED vars
  BY <1>17 DEF vars
<1>. QED
  BY <1>1, <1>2, <1>3, <1>4, <1>5, <1>6, <1>7, <1>8, <1>9, <1>10, <1>11,
     <1>12, <1>13, <1>14, <1>15, <1>16, <1>17 DEF Next, Start, Continue,
     Factory, Operation, Drain, OPFSWorker, Environment

(* No handle is lost. *)
LEMMA HandlesReachableStep ==
  ASSUME pc \in [Threads -> PC], call \in [Threads -> Call], todo \in
         [Threads -> SUBSET Files], target \in [Threads -> Files \cup
         {NoFile}], kind \in [Files -> Kind], table \subseteq Files,
         CallMatchesPC, OneDrain, TokensMatchPC, SealMatchesDrain,
         LockMatchesTxn, HandlesReachable, DrainProgress, TableNeedsLease,
         [Next]_vars
  PROVE  HandlesReachable'
<1>. USE DEF HandlesReachable, Busy, Goto, Enter, Return
<1>1. ASSUME NEW t \in Threads,
             \/ CreateReserve(t) \/ AcquireLease(t) \/ AcquireFails(t)
             \/ AddBackend(t) \/ DestructorBegin(t) \/ DestructorEnd(t)
             \/ RefuseBackend(t) \/ OperationEnd(t) \/ ReleaseToken(t)
      PROVE  HandlesReachable'
  BY <1>1 DEF CreateReserve, AcquireLease, AcquireFails, AddBackend,
         DestructorBegin, DestructorEnd, RefuseBackend, OperationEnd,
         ReleaseToken
<1>2. ASSUME NEW t \in Threads,
             \/ WriteFile(t) \/ SyncFile(t) \/ ScopedBegin(t)
             \/ ScopedRefused(t) \/ TerminalBegin(t) \/ TerminalRefused(t)
      PROVE  HandlesReachable'
  BY <1>2 DEF WriteFile, SyncFile, ScopedBegin, ScopedRefused,
         TerminalBegin, TerminalRefused
<1>3. ASSUME NEW t \in Threads,
             \/ OperationsDrained(t) \/ Seal(t) \/ SealRefused(t)
             \/ NothingToFinalize(t) \/ Quiesce(t) \/ LibcFlush(t)
             \/ CloseesDone(t) \/ CloseGate(t) \/ GateDrained(t)
             \/ FenceForRetirement(t) \/ Preflight(t)
      PROVE  HandlesReachable'
  BY <1>3 DEF OperationsDrained, Seal, SealRefused, NothingToFinalize,
         Quiesce, LibcFlush, CloseesDone, CloseGate, GateDrained,
         FenceForRetirement, Preflight, Record
<1>4. ASSUME NEW t \in Threads,
             \/ FinishRequest(t) \/ JoinWorker(t) \/ CleanupTimeout(t)
             \/ ScopedEnd(t) \/ TerminalEnd(t)
      PROVE  HandlesReachable'
  BY <1>4 DEF FinishRequest, JoinWorker, CleanupTimeout, ScopedEnd,
         TerminalEnd, Record, Finished
<1>5. ASSUME NEW t \in Threads, AdmitBackend(t)
      PROVE  HandlesReachable'
  BY <1>5 DEF AdmitBackend, TokensMatchPC, AdmitsExternal
<1>6. ASSUME NEW t \in Threads, EnterFile(t)
      PROVE  HandlesReachable'
  BY <1>6 DEF EnterFile, TokensMatchPC, AdmitsInternal
<1>7. ASSUME NEW t \in Threads,
             \/ OpenFile(t) \/ CloseFile(t) \/ AbandonOpenFile(t)
             \/ LeaveFile(t)
      PROVE  HandlesReachable'
  BY <1>7 DEF OpenFile, CloseFile, AbandonOpenFile, LeaveFile, CloseHandle,
         TokensMatchPC
<1>8. ASSUME NEW t \in Threads, DetachFiles(t)
      PROVE  HandlesReachable'
  BY <1>8 DEF DetachFiles, CallMatchesPC
<1>9. ASSUME NEW t \in Threads,
             \/ FinishFailed(t) \/ ReleaseAcknowledged(t)
             \/ ReleaseUnacknowledged(t)
      PROVE  HandlesReachable'
  BY <1>9, SealedMeansClosed DEF FinishFailed, ReleaseAcknowledged,
         ReleaseUnacknowledged, Record, Abandon, SealedPC
<1>10. ASSUME NEW t \in Threads,
             \/ CancelWorker(t) \/ CancelFails(t) \/ CleanupSeen(t)
      PROVE  HandlesReachable'
  BY <1>10 DEF CancelWorker, CancelFails, CleanupSeen, Record,
         SealMatchesDrain
<1>11. ASSUME NEW t \in Threads, NEW c \in FileCall, NEW f \in Files,
             OperationBegin(t, c, f)
      PROVE  HandlesReachable'
  BY <1>11 DEF OperationBegin
<1>12. ASSUME NEW t \in Threads, NEW f \in Files, BufferedWrite(t, f)
      PROVE  HandlesReachable'
  BY <1>12 DEF BufferedWrite
<1>13. ASSUME NEW t \in Threads, NEW f \in Files, CloseDetached(t, f)
      PROVE  HandlesReachable'
  BY <1>13, DrainAdmitted DEF CloseDetached, Record, CloseHandle,
         TableNeedsLease
<1>14. ASSUME ReleaseLock \/ ReleaseRejected \/ ResetContext \/ WorkerExit \/
             CleanupThread \/ InterruptTransaction \/
             RivalAcquires \/ RivalReleases
      PROVE  HandlesReachable'
  BY <1>14 DEF ReleaseLock, ReleaseRejected, ResetContext, WorkerExit,
         CleanupThread, InterruptTransaction, RivalAcquires, RivalReleases
<1>15. CASE UNCHANGED vars
  BY <1>15 DEF vars
<1>. QED
  BY <1>1, <1>2, <1>3, <1>4, <1>5, <1>6, <1>7, <1>8, <1>9, <1>10, <1>11,
     <1>12, <1>13, <1>14, <1>15 DEF Next, Start, Continue, Factory,
     Operation, Drain, OPFSWorker, Environment

(* Unflushed bytes are in an open handle or on record. *)
LEMMA DirtyAccountedStep ==
  ASSUME pc \in [Threads -> PC], call \in [Threads -> Call], result \in
         [Threads -> Result], target \in [Threads -> Files \cup {NoFile}],
         kind \in [Files -> Kind], dirty \subseteq Files, CallMatchesPC,
         OneDrain, OneLeaseOwner, TokensMatchPC, SealMatchesDrain,
         LockMatchesTxn, HandlesReachable, DirtyAccounted, DrainProgress,
         TableNeedsLease, [Next]_vars
  PROVE  DirtyAccounted'
<1>. USE DEF DirtyAccounted, PastDetach, SealedPC, Goto, Enter, Return
<1>1. ASSUME NEW t \in Threads,
             \/ CreateReserve(t) \/ AcquireFails(t) \/ AddBackend(t)
             \/ DestructorBegin(t) \/ DestructorEnd(t) \/ RefuseBackend(t)
             \/ OperationEnd(t) \/ AdmitBackend(t) \/ EnterFile(t)
             \/ ReleaseToken(t)
      PROVE  DirtyAccounted'
  BY <1>1 DEF CreateReserve, AcquireFails, AddBackend, DestructorBegin,
         DestructorEnd, RefuseBackend, OperationEnd, AdmitBackend,
         EnterFile, ReleaseToken
<1>2. ASSUME NEW t \in Threads,
             \/ OpenFile(t) \/ WriteFile(t) \/ SyncFile(t) \/ CloseFile(t)
             \/ AbandonOpenFile(t) \/ LeaveFile(t) \/ ScopedBegin(t)
             \/ ScopedRefused(t) \/ TerminalBegin(t) \/ TerminalRefused(t)
      PROVE  DirtyAccounted'
  BY <1>2 DEF OpenFile, WriteFile, SyncFile, CloseFile, AbandonOpenFile,
         LeaveFile, ScopedBegin, ScopedRefused, TerminalBegin,
         TerminalRefused, CloseHandle
<1>3. ASSUME NEW t \in Threads,
             \/ OperationsDrained(t) \/ SealRefused(t) \/ DetachFiles(t)
             \/ CloseGate(t) \/ GateDrained(t)
      PROVE  DirtyAccounted'
  BY <1>3 DEF OperationsDrained, SealRefused, DetachFiles, CloseGate,
         GateDrained, Record
<1>4. ASSUME NEW t \in Threads,
             \/ FinishFailed(t) \/ FinishRequest(t)
             \/ ReleaseUnacknowledged(t) \/ JoinWorker(t)
             \/ CleanupTimeout(t) \/ ScopedEnd(t) \/ TerminalEnd(t)
      PROVE  DirtyAccounted'
  BY <1>4 DEF FinishFailed, FinishRequest, ReleaseUnacknowledged,
         JoinWorker, CleanupTimeout, ScopedEnd, TerminalEnd, Record,
         Finished, Abandon
<1>5. ASSUME NEW t \in Threads, AcquireLease(t)
      PROVE  DirtyAccounted'
  BY <1>5 DEF AcquireLease, OneLeaseOwner
<1>6. ASSUME NEW t \in Threads,
             \/ Seal(t) \/ CloseesDone(t)
      PROVE  DirtyAccounted'
  BY <1>6 DEF Seal, CloseesDone, CallMatchesPC
<1>7. ASSUME NEW t \in Threads, NothingToFinalize(t)
      PROVE  DirtyAccounted'
  BY <1>7 DEF NothingToFinalize, Record, HasIncompleteScopedDrain,
         HasLiveLease
<1>8. ASSUME NEW t \in Threads, Quiesce(t)
      PROVE  DirtyAccounted'
  <2>1. /\ pc[t] = "quiesce"
        /\ Goto(t, IF call[t] = "scoped" THEN "libc" ELSE "gate")
        /\ UNCHANGED <<fsVars, lease, fileVars, call>>
    BY <1>8 DEF Quiesce
  <2>. QED
    BY <2>1, <1>8, QuiesceEffect
<1>9. ASSUME NEW t \in Threads, LibcFlush(t)
      PROVE  DirtyAccounted'
  BY <1>9 DEF LibcFlush, Record, Flushable
<1>10. ASSUME NEW t \in Threads, FenceForRetirement(t)
      PROVE  DirtyAccounted'
  <2>1. /\ pc[t] = "fence"
        /\ UNCHANGED <<fsVars, lease, fileVars, call>>
    BY <1>10 DEF FenceForRetirement
  <2>. QED
    BY <2>1, <1>10, FenceEffect
<1>11. ASSUME NEW t \in Threads, Preflight(t)
      PROVE  DirtyAccounted'
  <2>1. /\ pc[t] = "preflight" /\ Goto(t, "finish")
        /\ UNCHANGED <<fsVars, lease, fileVars, call>>
    BY <1>11 DEF Preflight
  <2>. QED
    BY <2>1, <1>11, PreflightEffect
<1>12. ASSUME NEW t \in Threads, ReleaseAcknowledged(t)
      PROVE  DirtyAccounted'
  BY <1>12, TransactionIsClean DEF ReleaseAcknowledged
<1>13. ASSUME NEW t \in Threads,
             \/ CancelWorker(t) \/ CancelFails(t) \/ CleanupSeen(t)
      PROVE  DirtyAccounted'
  BY <1>13 DEF CancelWorker, CancelFails, CleanupSeen, Record,
         SealMatchesDrain
<1>14. ASSUME NEW t \in Threads, NEW c \in FileCall, NEW f \in Files,
             OperationBegin(t, c, f)
      PROVE  DirtyAccounted'
  BY <1>14 DEF OperationBegin
<1>15. ASSUME NEW t \in Threads, NEW f \in Files, BufferedWrite(t, f)
      PROVE  DirtyAccounted'
  BY <1>15 DEF BufferedWrite
<1>16. ASSUME NEW t \in Threads, NEW f \in Files, CloseDetached(t, f)
      PROVE  DirtyAccounted'
  <2>1. /\ pc[t] = "close" /\ f \in todo[t]
        /\ UNCHANGED <<fsVars, lease, table, buffered, pc, call>>
    BY <1>16 DEF CloseDetached
  <2>. QED
    BY <2>1, <1>16, CloseDetachedEffect DEF TableNeedsLease
<1>17. ASSUME ReleaseLock \/ ReleaseRejected \/ ResetContext \/ WorkerExit \/
             CleanupThread \/ InterruptTransaction \/
             RivalAcquires \/ RivalReleases
      PROVE  DirtyAccounted'
  BY <1>17 DEF ReleaseLock, ReleaseRejected, ResetContext, WorkerExit,
         CleanupThread, InterruptTransaction, RivalAcquires, RivalReleases
<1>18. CASE UNCHANGED vars
  BY <1>18 DEF vars
<1>. QED
  BY <1>1, <1>2, <1>3, <1>4, <1>5, <1>6, <1>7, <1>8, <1>9, <1>10, <1>11,
     <1>12, <1>13, <1>14, <1>15, <1>16, <1>17, <1>18 DEF Next, Start,
     Continue, Factory, Operation, Drain, OPFSWorker, Environment

(* Nothing depends on the storage without the lock. *)
LEMMA StorageGuardedByLockStep ==
  ASSUME pc \in [Threads -> PC], call \in [Threads -> Call], buffered \in
         [Files -> Buffer], result \in [Threads -> Result], table
         \subseteq Files, handles \subseteq Files, dirty \subseteq Files,
         external \subseteq Threads, CallMatchesPC, OneDrain,
         TokensMatchPC, SealMatchesDrain, LockMatchesTxn,
         HandlesReachable, DirtyAccounted, DrainProgress, TableNeedsLease,
         StorageGuardedByLock, [Next]_vars
  PROVE  StorageGuardedByLock'
<1>. USE DEF StorageGuardedByLock, Claims, Goto, Enter, Return
<1>1. ASSUME NEW t \in Threads,
             \/ CreateReserve(t) \/ AcquireLease(t) \/ AcquireFails(t)
             \/ AddBackend(t) \/ DestructorBegin(t) \/ DestructorEnd(t)
             \/ RefuseBackend(t) \/ OperationEnd(t) \/ AdmitBackend(t)
             \/ ReleaseToken(t)
      PROVE  StorageGuardedByLock'
  BY <1>1 DEF CreateReserve, AcquireLease, AcquireFails, AddBackend,
         DestructorBegin, DestructorEnd, RefuseBackend, OperationEnd,
         AdmitBackend, ReleaseToken
<1>2. ASSUME NEW t \in Threads,
             \/ OpenFile(t) \/ WriteFile(t) \/ SyncFile(t) \/ CloseFile(t)
             \/ AbandonOpenFile(t) \/ LeaveFile(t) \/ ScopedBegin(t)
             \/ ScopedRefused(t) \/ TerminalBegin(t) \/ TerminalRefused(t)
      PROVE  StorageGuardedByLock'
  BY <1>2 DEF OpenFile, WriteFile, SyncFile, CloseFile, AbandonOpenFile,
         LeaveFile, ScopedBegin, ScopedRefused, TerminalBegin,
         TerminalRefused, CloseHandle
<1>3. ASSUME NEW t \in Threads,
             \/ OperationsDrained(t) \/ Seal(t) \/ SealRefused(t)
             \/ NothingToFinalize(t) \/ Quiesce(t) \/ DetachFiles(t)
             \/ CloseesDone(t) \/ CloseGate(t) \/ GateDrained(t)
             \/ FenceForRetirement(t) \/ Preflight(t)
      PROVE  StorageGuardedByLock'
  BY <1>3 DEF OperationsDrained, Seal, SealRefused, NothingToFinalize,
         Quiesce, DetachFiles, CloseesDone, CloseGate, GateDrained,
         FenceForRetirement, Preflight, Record
<1>4. ASSUME NEW t \in Threads,
             \/ FinishFailed(t) \/ FinishRequest(t)
             \/ ReleaseAcknowledged(t) \/ ReleaseUnacknowledged(t)
             \/ CancelWorker(t) \/ CancelFails(t) \/ JoinWorker(t)
             \/ CleanupSeen(t) \/ CleanupTimeout(t) \/ ScopedEnd(t)
             \/ TerminalEnd(t)
      PROVE  StorageGuardedByLock'
  BY <1>4 DEF FinishFailed, FinishRequest, ReleaseAcknowledged,
         ReleaseUnacknowledged, CancelWorker, CancelFails, JoinWorker,
         CleanupSeen, CleanupTimeout, ScopedEnd, TerminalEnd, Record,
         Finished, Abandon
<1>5. ASSUME NEW t \in Threads, EnterFile(t)
      PROVE  StorageGuardedByLock'
  BY <1>5, TokenMeansLock DEF EnterFile, TokensMatchPC
<1>6. ASSUME NEW t \in Threads, LibcFlush(t)
      PROVE  StorageGuardedByLock'
  <2>1. PICK S \in SUBSET Flushable(t) :
              /\ buffered' = [f \in Files |->
                                IF f \in S THEN "none" ELSE buffered[f]]
              /\ dirty' = dirty \cup S
    BY <1>6, LibcFlushEffect
  <2>2. /\ pc[t] = "libc" /\ Goto(t, "detach")
        /\ UNCHANGED <<handles, lock>>
    BY <1>6 DEF LibcFlush
  <2>3. S # {} => lock = "Self"
    BY <2>1, <2>2, DrainAdmitted DEF Flushable, HandlesReachable
  <2>4. Claims' => Claims \/ S # {}
    BY <2>1, <2>2
  <2>. QED
    BY <2>2, <2>3, <2>4
<1>7. ASSUME NEW t \in Threads, NEW c \in FileCall, NEW f \in Files,
             OperationBegin(t, c, f)
      PROVE  StorageGuardedByLock'
  BY <1>7 DEF OperationBegin
<1>8. ASSUME NEW t \in Threads, NEW f \in Files, BufferedWrite(t, f)
      PROVE  StorageGuardedByLock'
  BY <1>8 DEF BufferedWrite, LockMatchesTxn
<1>9. ASSUME NEW t \in Threads, NEW f \in Files, CloseDetached(t, f)
      PROVE  StorageGuardedByLock'
  BY <1>9 DEF CloseDetached, Record, CloseHandle
<1>10. ASSUME ReleaseRejected \/ ResetContext \/ WorkerExit \/
             InterruptTransaction \/ RivalAcquires \/
             RivalReleases
      PROVE  StorageGuardedByLock'
  BY <1>10 DEF ReleaseRejected, ResetContext, WorkerExit,
         InterruptTransaction, RivalAcquires, RivalReleases
<1>11. ASSUME ReleaseLock PROVE StorageGuardedByLock'
  <2>1. PICK t \in Threads : pc[t] = "txn"
    BY <1>11 DEF ReleaseLock, LockMatchesTxn
  <2>2. ~Claims /\ external = {}
    BY <2>1, TransactionIsClean, SealedMeansClosed DEF SealedPC
  <2>3. ~Claims'
    BY <1>11, <2>2 DEF ReleaseLock
  <2>. QED
    BY <1>11, <2>2, <2>3 DEF ReleaseLock, TokensMatchPC
<1>12. ASSUME CleanupThread PROVE StorageGuardedByLock'
  BY <1>12 DEF CleanupThread, LockMatchesTxn
<1>13. CASE UNCHANGED vars
  BY <1>13 DEF vars
<1>. QED
  BY <1>1, <1>2, <1>3, <1>4, <1>5, <1>6, <1>7, <1>8, <1>9, <1>10, <1>11,
     <1>12, <1>13 DEF Next, Start, Continue, Factory, Operation, Drain,
     OPFSWorker, Environment

-----------------------------------------------------------------------------
(* The initial states satisfy the invariant. *)
LEMMA HandoffInit == Init => HandoffInv
<1>. SUFFICES ASSUME Init PROVE HandoffInv
  OBVIOUS
<1>1. TypeOK
  BY InitTypes
<1>2. CallMatchesPC /\ OneDrain /\ OneLeaseOwner /\ TokensMatchPC
  BY DEF Init, CallMatchesPC, OneDrain, OneLeaseOwner, TokensMatchPC,
         FileCall, DrainCall, OpPC, DrainPC
<1>3. SealMatchesDrain /\ LockMatchesTxn
  BY DEF Init, SealMatchesDrain, LockMatchesTxn, OwnsSeal, SealedPC
<1>4. HandlesReachable /\ DirtyAccounted /\ TableNeedsLease
  BY DEF Init, HandlesReachable, DirtyAccounted, TableNeedsLease
<1>5. DrainProgress /\ StorageGuardedByLock
  BY DEF Init, DrainProgress, PastDetach, SealedPC, StorageGuardedByLock,
         Claims
<1>. QED
  BY <1>1, <1>2, <1>3, <1>4, <1>5 DEF HandoffInv

(* Every step preserves the invariant. *)
LEMMA HandoffStep == HandoffInv /\ [Next]_vars => HandoffInv'
<1>. SUFFICES ASSUME HandoffInv, [Next]_vars PROVE HandoffInv'
  OBVIOUS
<1>. USE DEF HandoffInv
<1>1. TypeOK'
  BY StepTypes
<1>2. /\ activeOperations \subseteq Threads
      /\ table \subseteq Files
      /\ lease \in LeaseState
      /\ external \subseteq Threads
      /\ internal \subseteq Threads
      /\ drainOwner \in Threads \cup {NoThread}
      /\ kind \in [Files -> Kind]
      /\ buffered \in [Files -> Buffer]
      /\ dirty \subseteq Files
      /\ handles \subseteq Files
      /\ txn \in Txn
      /\ pc \in [Threads -> PC]
      /\ call \in [Threads -> Call]
      /\ target \in [Threads -> Files \cup {NoFile}]
      /\ todo \in [Threads -> SUBSET Files]
      /\ result \in [Threads -> Result]
  BY DEF TypeOK
<1>3. CallMatchesPC' /\ OneDrain' /\ OneLeaseOwner' /\ TokensMatchPC'
  BY <1>2, CallMatchesPCStep, OneDrainStep, OneLeaseOwnerStep,
     TokensMatchPCStep
<1>4. SealMatchesDrain' /\ LockMatchesTxn' /\ TableNeedsLease'
  BY <1>2, SealMatchesDrainStep, LockMatchesTxnStep, TableNeedsLeaseStep
<1>5. DrainProgress' /\ HandlesReachable' /\ DirtyAccounted'
  BY <1>2, DrainProgressStep, HandlesReachableStep, DirtyAccountedStep
<1>6. StorageGuardedByLock'
  BY <1>2, StorageGuardedByLockStep
<1>. QED
  BY <1>1, <1>3, <1>4, <1>5, <1>6

-----------------------------------------------------------------------------
(* The invariant holds in every reachable state, for any number of threads *)
(* and files: calls, tokens, seal, lock, descriptors, handles and          *)
(* unflushed bytes stay accounted for through every interleaving of        *)
(* operations and drains.                                                  *)
THEOREM HandoffInvariant == Spec => []HandoffInv
<1>. QED
  BY HandoffInit, HandoffStep, PTL DEF Spec

(* The Web Lock guards the storage (ProfileLeaseState::beginDrain, the     *)
(* preflight and the release transaction together): no thread is in a file *)
(* operation, no handle is live and no bytes are pending without the lock. *)
THEOREM StorageIsGuarded == Spec => []StorageGuardedByLock
<1>1. HandoffInv => StorageGuardedByLock
  BY DEF HandoffInv
<1>. QED
  BY <1>1, HandoffInvariant, PTL

(* At most one drain is under way, and the lease is Sealing and owned by   *)
(* its thread from the end of beginDrain's wait until its transaction      *)
(* returns.                                                                *)
THEOREM SealIsExclusive == Spec => []DrainHoldsSeal
<1>1. HandoffInv => DrainHoldsSeal
  <2>. SUFFICES ASSUME HandoffInv, NEW t \in Threads
                PROVE  /\ pc[t] \in SealedPC
                              => lease = "Sealing" /\ drainOwner = t
                       /\ pc[t] = "quiesce"
                              => lease = "Sealing" /\ drainOwner = NoThread
                       /\ \A u \in Threads \ {t} :
                              ~(pc[t] \in DrainPC /\ pc[u] \in DrainPC)
    BY DEF DrainHoldsSeal
  <2>1. /\ pc[t] \in SealedPC => lease = "Sealing" /\ drainOwner = t
        /\ pc[t] = "quiesce" => lease = "Sealing" /\ drainOwner = NoThread
    BY DEF HandoffInv, SealMatchesDrain, OwnsSeal
  <2>2. \A u \in Threads \ {t} : ~(pc[t] \in DrainPC /\ pc[u] \in DrainPC)
    BY DrainIsUnique DEF HandoffInv
  <2>. QED
    BY <2>1, <2>2
<1>. QED
  BY <1>1, HandoffInvariant, PTL

(* InternalOperation's two exceptions while Sealing are enough: neither an *)
(* operation admitted before the seal nor the drain itself is refused by a *)
(* file.                                                                   *)
THEOREM AdmissionIsHonoured == Spec => []AdmittedIsNeverRefused
<1>1. HandoffInv => AdmittedIsNeverRefused
  <2>. SUFFICES ASSUME HandoffInv, NEW t \in Threads
                PROVE  /\ pc[t] = "token" => AdmitsInternal(t)
                       /\ pc[t] = "libc" /\ table # {} => AdmitsInternal(t)
                       /\ pc[t] = "close" /\ todo[t] # {} => AdmitsInternal(t)
    BY DEF AdmittedIsNeverRefused
  <2>1. pc[t] = "token" => AdmitsInternal(t)
    BY DEF HandoffInv, TokensMatchPC, AdmitsInternal
  <2>2. /\ pc[t] = "libc" /\ table # {} => AdmitsInternal(t)
        /\ pc[t] = "close" /\ todo[t] # {} => AdmitsInternal(t)
    BY DrainAdmitted DEF HandoffInv, TableNeedsLease
  <2>. QED
    BY <2>1, <2>2
<1>. QED
  BY <1>1, HandoffInvariant, PTL

-----------------------------------------------------------------------------
(* The end of the protocol.  RetirementInv is inductive under HandoffInv:  *)
(* again one lemma per conjunct.                                           *)

(* The Worker runs until the retirement, or the failure, of its lease. *)
LEMMA WorkerMatchesLeaseStep ==
  ASSUME pc \in [Threads -> PC], call \in [Threads -> Call],
         lease \in LeaseState, worker \in WorkerState, fenced \in BOOLEAN,
         acknowledged \in BOOLEAN, heartbeat \in BOOLEAN, CallMatchesPC,
         OneLeaseOwner, SealMatchesDrain, WorkerMatchesLease,
         HeartbeatMatchesTxn, [Next]_vars
  PROVE  WorkerMatchesLease'
<1>. USE DEF WorkerMatchesLease, Goto, Enter, Return, Record, Finished
<1>1. ASSUME NEW t \in Threads,
             \/ CreateReserve(t) \/ AcquireLease(t) \/ AcquireFails(t)
             \/ AddBackend(t)
      PROVE  WorkerMatchesLease'
  BY <1>1 DEF CreateReserve, AcquireLease, AcquireFails, AddBackend,
         OneLeaseOwner, CallMatchesPC
<1>2. ASSUME NEW t \in Threads,
             \/ DestructorBegin(t) \/ DestructorEnd(t) \/ RefuseBackend(t)
             \/ OperationEnd(t) \/ AdmitBackend(t) \/ EnterFile(t)
             \/ ReleaseToken(t)
      PROVE  WorkerMatchesLease'
  BY <1>2 DEF DestructorBegin, DestructorEnd, RefuseBackend, OperationEnd,
         AdmitBackend, EnterFile, ReleaseToken
<1>3. ASSUME NEW t \in Threads,
             \/ OpenFile(t) \/ WriteFile(t) \/ SyncFile(t) \/ CloseFile(t)
             \/ AbandonOpenFile(t) \/ LeaveFile(t) \/ ScopedBegin(t)
             \/ ScopedRefused(t) \/ TerminalBegin(t) \/ TerminalRefused(t)
      PROVE  WorkerMatchesLease'
  BY <1>3 DEF OpenFile, WriteFile, SyncFile, CloseFile, AbandonOpenFile,
         LeaveFile, ScopedBegin, ScopedRefused, TerminalBegin,
         TerminalRefused, CloseHandle
<1>4. ASSUME NEW t \in Threads,
             \/ OperationsDrained(t) \/ Seal(t) \/ SealRefused(t)
             \/ NothingToFinalize(t) \/ Quiesce(t) \/ LibcFlush(t)
             \/ DetachFiles(t) \/ CloseesDone(t) \/ CloseGate(t)
             \/ GateDrained(t) \/ FenceForRetirement(t) \/ Preflight(t)
             \/ FinishRequest(t)
      PROVE  WorkerMatchesLease'
  BY <1>4 DEF OperationsDrained, Seal, SealRefused, NothingToFinalize,
         Quiesce, LibcFlush, DetachFiles, CloseesDone, CloseGate,
         GateDrained, FenceForRetirement, Preflight, FinishRequest
<1>5. ASSUME NEW t \in Threads,
             \/ FinishFailed(t) \/ ReleaseAcknowledged(t)
             \/ ReleaseUnacknowledged(t)
      PROVE  WorkerMatchesLease'
  <2>1. lease = "Sealing" /\ worker = "running"
    BY <1>5 DEF FinishFailed, ReleaseAcknowledged, ReleaseUnacknowledged,
           SealMatchesDrain, OwnsSeal, SealedPC
  <2>2. /\ ~acknowledged
        /\ \A u \in Threads : pc[u] # "acquire"
    BY <2>1 DEF OneLeaseOwner
  <2>3. CASE ReleaseAcknowledged(t)
    BY <2>1, <2>2, <2>3 DEF ReleaseAcknowledged
  <2>4. CASE FinishFailed(t) \/ ReleaseUnacknowledged(t)
    <3>1. /\ lease' = "Failed" /\ worker' = "abandoned"
          /\ UNCHANGED <<acknowledged, fenced, heartbeat>>
          /\ pc' = [pc EXCEPT ![t] = "end"]
      BY <2>1, <2>4 DEF FinishFailed, ReleaseUnacknowledged, Abandon,
         Joinable
    <3>. QED
      BY <2>2, <3>1
  <2>. QED
    BY <1>5, <2>3, <2>4
<1>6. ASSUME NEW t \in Threads,
             \/ CancelWorker(t) \/ CancelFails(t) \/ JoinWorker(t)
             \/ CleanupSeen(t) \/ CleanupTimeout(t) \/ ScopedEnd(t)
             \/ TerminalEnd(t)
      PROVE  WorkerMatchesLease'
  BY <1>6 DEF CancelWorker, CancelFails, JoinWorker, CleanupSeen,
         CleanupTimeout, ScopedEnd, TerminalEnd, MayRetire,
         HeartbeatMatchesTxn, SealMatchesDrain, OneLeaseOwner
<1>7. ASSUME NEW t \in Threads, NEW c \in FileCall, NEW f \in Files,
             OperationBegin(t, c, f)
      PROVE  WorkerMatchesLease'
  BY <1>7 DEF OperationBegin
<1>8. ASSUME NEW t \in Threads, NEW f \in Files,
             BufferedWrite(t, f) \/ CloseDetached(t, f)
      PROVE  WorkerMatchesLease'
  BY <1>8 DEF BufferedWrite, CloseDetached, CloseHandle
<1>9. ASSUME ReleaseLock \/ ReleaseRejected \/ ResetContext \/ WorkerExit \/
             CleanupThread \/ InterruptTransaction \/
             RivalAcquires \/ RivalReleases
      PROVE  WorkerMatchesLease'
  BY <1>9 DEF ReleaseLock, ReleaseRejected, ResetContext, WorkerExit,
         CleanupThread, InterruptTransaction, RivalAcquires, RivalReleases,
         HeartbeatAfterReset
<1>10. CASE UNCHANGED vars
  BY <1>10 DEF vars
<1>. QED
  BY <1>1, <1>2, <1>3, <1>4, <1>5, <1>6, <1>7, <1>8, <1>9, <1>10 DEF Next,
     Start, Continue, Factory, Operation, Drain, OPFSWorker, Environment

(* The heartbeat is cleared before the release is acknowledged, and no     *)
(* transaction that released the lock finds a handle to witness.           *)
LEMMA HeartbeatMatchesTxnStep ==
  ASSUME pc \in [Threads -> PC], call \in [Threads -> Call],
         lease \in LeaseState, txn \in Txn, stopClaimed \in BOOLEAN,
         heartbeat \in BOOLEAN, CallMatchesPC, OneLeaseOwner,
         SealMatchesDrain, LockMatchesTxn, StorageGuardedByLock,
         HeartbeatMatchesTxn, [Next]_vars
  PROVE  HeartbeatMatchesTxn'
<1>. USE DEF HeartbeatMatchesTxn, Goto, Enter, Return, Record, Finished
<1>1. ASSUME NEW t \in Threads,
             \/ CreateReserve(t) \/ AcquireLease(t) \/ AcquireFails(t)
             \/ AddBackend(t)
      PROVE  HeartbeatMatchesTxn'
  BY <1>1 DEF CreateReserve, AcquireLease, AcquireFails, AddBackend,
         OneLeaseOwner, LockMatchesTxn
<1>2. ASSUME NEW t \in Threads,
             \/ DestructorBegin(t) \/ DestructorEnd(t) \/ RefuseBackend(t)
             \/ OperationEnd(t) \/ AdmitBackend(t) \/ EnterFile(t)
             \/ ReleaseToken(t)
      PROVE  HeartbeatMatchesTxn'
  BY <1>2 DEF DestructorBegin, DestructorEnd, RefuseBackend, OperationEnd,
         AdmitBackend, EnterFile, ReleaseToken
<1>3. ASSUME NEW t \in Threads,
             \/ OpenFile(t) \/ WriteFile(t) \/ SyncFile(t) \/ CloseFile(t)
             \/ AbandonOpenFile(t) \/ LeaveFile(t) \/ ScopedBegin(t)
             \/ ScopedRefused(t) \/ TerminalBegin(t) \/ TerminalRefused(t)
      PROVE  HeartbeatMatchesTxn'
  BY <1>3 DEF OpenFile, WriteFile, SyncFile, CloseFile, AbandonOpenFile,
         LeaveFile, ScopedBegin, ScopedRefused, TerminalBegin,
         TerminalRefused, CloseHandle
<1>4. ASSUME NEW t \in Threads,
             \/ OperationsDrained(t) \/ Seal(t) \/ SealRefused(t)
             \/ NothingToFinalize(t) \/ Quiesce(t) \/ LibcFlush(t)
             \/ DetachFiles(t) \/ CloseesDone(t) \/ CloseGate(t)
             \/ GateDrained(t) \/ FenceForRetirement(t) \/ Preflight(t)
             \/ FinishRequest(t)
      PROVE  HeartbeatMatchesTxn'
  BY <1>4 DEF OperationsDrained, Seal, SealRefused, NothingToFinalize,
         Quiesce, LibcFlush, DetachFiles, CloseesDone, CloseGate,
         GateDrained, FenceForRetirement, Preflight, FinishRequest
<1>5. ASSUME NEW t \in Threads,
             \/ FinishFailed(t) \/ ReleaseAcknowledged(t)
             \/ ReleaseUnacknowledged(t)
      PROVE  HeartbeatMatchesTxn'
  BY <1>5 DEF FinishFailed, ReleaseAcknowledged, ReleaseUnacknowledged,
         SealMatchesDrain, OwnsSeal, SealedPC
<1>6. ASSUME NEW t \in Threads,
             \/ CancelWorker(t) \/ CancelFails(t) \/ JoinWorker(t)
             \/ CleanupSeen(t) \/ CleanupTimeout(t) \/ ScopedEnd(t)
             \/ TerminalEnd(t)
      PROVE  HeartbeatMatchesTxn'
  BY <1>6 DEF CancelWorker, CancelFails, JoinWorker, CleanupSeen,
         CleanupTimeout, ScopedEnd, TerminalEnd
<1>7. ASSUME NEW t \in Threads, NEW c \in FileCall, NEW f \in Files,
             OperationBegin(t, c, f)
      PROVE  HeartbeatMatchesTxn'
  BY <1>7 DEF OperationBegin
<1>8. ASSUME NEW t \in Threads, NEW f \in Files,
             BufferedWrite(t, f) \/ CloseDetached(t, f)
      PROVE  HeartbeatMatchesTxn'
  BY <1>8 DEF BufferedWrite, CloseDetached, CloseHandle
<1>9. CASE ResetContext
  <2>1. lock # "Self"
    BY <1>9 DEF ResetContext, LockMatchesTxn
  <2>2. handles = {}
    BY <2>1 DEF StorageGuardedByLock, Claims
  <2>. QED
    BY <1>9, <2>2 DEF ResetContext, HeartbeatAfterReset
<1>10. ASSUME ReleaseLock \/ ReleaseRejected \/ WorkerExit \/
             CleanupThread \/ InterruptTransaction \/
             RivalAcquires \/ RivalReleases
      PROVE  HeartbeatMatchesTxn'
  BY <1>10 DEF ReleaseLock, ReleaseRejected, WorkerExit, CleanupThread,
         InterruptTransaction, RivalAcquires, RivalReleases
<1>11. CASE UNCHANGED vars
  BY <1>11 DEF vars
<1>. QED
  BY <1>1, <1>2, <1>3, <1>4, <1>5, <1>6, <1>7, <1>8, <1>9, <1>10, <1>11
     DEF Next, Start, Continue, Factory, Operation, Drain, OPFSWorker,
     Environment

(* The gate closes for good, and nothing passes it before the destructors. *)
LEMMA GateMatchesDrainStep ==
  ASSUME pc \in [Threads -> PC], call \in [Threads -> Call],
         lease \in LeaseState, result \in [Threads -> Result],
         gateClosed \in BOOLEAN, installed \in BOOLEAN, SealMatchesDrain,
         GateMatchesDrain, [Next]_vars
  PROVE  GateMatchesDrain'
<1>. USE DEF GateMatchesDrain, PastGate, Goto, Enter, Return
<1>1. ASSUME NEW t \in Threads,
             \/ CreateReserve(t) \/ AcquireLease(t) \/ AcquireFails(t)
             \/ AddBackend(t) \/ DestructorBegin(t) \/ DestructorEnd(t)
             \/ RefuseBackend(t) \/ OperationEnd(t) \/ AdmitBackend(t)
             \/ EnterFile(t) \/ ReleaseToken(t)
      PROVE  GateMatchesDrain'
  BY <1>1 DEF CreateReserve, AcquireLease, AcquireFails, AddBackend,
         DestructorBegin, DestructorEnd, RefuseBackend, OperationEnd,
         AdmitBackend, EnterFile, ReleaseToken
<1>2. ASSUME NEW t \in Threads,
             \/ OpenFile(t) \/ WriteFile(t) \/ SyncFile(t) \/ CloseFile(t)
             \/ AbandonOpenFile(t) \/ LeaveFile(t) \/ ScopedBegin(t)
             \/ ScopedRefused(t) \/ TerminalBegin(t) \/ TerminalRefused(t)
      PROVE  GateMatchesDrain'
  BY <1>2 DEF OpenFile, WriteFile, SyncFile, CloseFile, AbandonOpenFile,
         LeaveFile, ScopedBegin, ScopedRefused, TerminalBegin,
         TerminalRefused, CloseHandle
<1>3. ASSUME NEW t \in Threads,
             \/ OperationsDrained(t) \/ Seal(t) \/ SealRefused(t)
             \/ NothingToFinalize(t) \/ Quiesce(t) \/ LibcFlush(t)
             \/ DetachFiles(t) \/ CloseesDone(t) \/ CloseGate(t)
             \/ GateDrained(t) \/ Preflight(t) \/ FinishRequest(t)
      PROVE  GateMatchesDrain'
  BY <1>3 DEF OperationsDrained, Seal, SealRefused, NothingToFinalize,
         Quiesce, LibcFlush, DetachFiles, CloseesDone, CloseGate,
         GateDrained, DestructorsDrained, Preflight, FinishRequest, Record
<1>4. ASSUME NEW t \in Threads, FenceForRetirement(t)
      PROVE  GateMatchesDrain'
  BY <1>4 DEF FenceForRetirement, Record
<1>5. ASSUME NEW t \in Threads,
             \/ FinishFailed(t) \/ ReleaseAcknowledged(t)
             \/ ReleaseUnacknowledged(t) \/ CancelWorker(t)
             \/ CancelFails(t) \/ JoinWorker(t) \/ CleanupSeen(t)
             \/ CleanupTimeout(t) \/ ScopedEnd(t) \/ TerminalEnd(t)
      PROVE  GateMatchesDrain'
  BY <1>5 DEF FinishFailed, ReleaseAcknowledged, ReleaseUnacknowledged,
         CancelWorker, CancelFails, JoinWorker, CleanupSeen,
         CleanupTimeout, ScopedEnd, TerminalEnd, Record, Finished, Abandon,
         SealMatchesDrain
<1>6. ASSUME NEW t \in Threads, NEW c \in FileCall, NEW f \in Files,
             OperationBegin(t, c, f)
      PROVE  GateMatchesDrain'
  BY <1>6 DEF OperationBegin
<1>7. ASSUME NEW t \in Threads, NEW f \in Files,
             BufferedWrite(t, f) \/ CloseDetached(t, f)
      PROVE  GateMatchesDrain'
  BY <1>7 DEF BufferedWrite, CloseDetached, CloseHandle, Record
<1>8. ASSUME ReleaseLock \/ ReleaseRejected \/ ResetContext \/ WorkerExit \/
             CleanupThread \/ InterruptTransaction \/
             RivalAcquires \/ RivalReleases
      PROVE  GateMatchesDrain'
  BY <1>8 DEF ReleaseLock, ReleaseRejected, ResetContext, WorkerExit,
         CleanupThread, InterruptTransaction, RivalAcquires, RivalReleases
<1>9. CASE UNCHANGED vars
  BY <1>9 DEF vars
<1>. QED
  BY <1>1, <1>2, <1>3, <1>4, <1>5, <1>6, <1>7, <1>8, <1>9 DEF Next, Start,
     Continue, Factory, Operation, Drain, OPFSWorker, Environment

(* What no step undoes: a release, a retirement, a terminal drain, and the *)
(* quiet it establishes by waiting for the admitted operations.            *)
Forward ==
    /\ lease \in {"Released", "Retiring", "Retired"}
           => lease' \in {"Released", "Retiring", "Retired"}
    /\ lease = "Retired" => lease' = "Retired"
    /\ terminalState = "Drained" => terminalState' = "Drained"
    /\ terminalState # "Running"
           => activeOperations' \subseteq activeOperations
    /\ activeOperations = {} =>
           /\ lease = "Unleased" => lease' = "Unleased"
           /\ table' \subseteq table

LEMMA StepsGoForward ==
  ASSUME pc \in [Threads -> PC], call \in [Threads -> Call],
         lease \in LeaseState, result \in [Threads -> Result],
         CallMatchesPC, OneDrain, OneLeaseOwner, TokensMatchPC,
         SealMatchesDrain, [Next]_vars
  PROVE  Forward
<1>. USE DEF Forward
<1>1. ASSUME NEW t \in Threads, CreateReserve(t)
      PROVE  Forward
  BY <1>1 DEF CreateReserve, AdmitsOperation, Enter, Goto
<1>2. ASSUME NEW t \in Threads, AcquireLease(t)
      PROVE  Forward
  <2>1. t \in activeOperations
    BY <1>2 DEF AcquireLease, CallMatchesPC, TokensMatchPC
  <2>. QED
    BY <1>2, <2>1 DEF AcquireLease, OneLeaseOwner
<1>3. ASSUME NEW t \in Threads,
             \/ AcquireFails(t) \/ AddBackend(t)
             \/ DestructorBegin(t) \/ DestructorEnd(t)
             \/ RefuseBackend(t) \/ OperationEnd(t) \/ AdmitBackend(t)
             \/ EnterFile(t) \/ ReleaseToken(t)
      PROVE  Forward
  BY <1>3 DEF AcquireFails, AddBackend, DestructorBegin, DestructorEnd,
         RefuseBackend, OperationEnd, AdmitBackend, EnterFile, ReleaseToken
<1>4. ASSUME NEW t \in Threads, LeaveFile(t)
      PROVE  Forward
  <2>1. t \in activeOperations
    BY <1>4 DEF LeaveFile, CallMatchesPC, TokensMatchPC, OpPC
  <2>. QED
    BY <1>4, <2>1 DEF LeaveFile
<1>5. ASSUME NEW t \in Threads,
             \/ OpenFile(t) \/ WriteFile(t) \/ SyncFile(t) \/ CloseFile(t)
             \/ AbandonOpenFile(t) \/ ScopedBegin(t)
             \/ ScopedRefused(t) \/ TerminalBegin(t) \/ TerminalRefused(t)
      PROVE  Forward
  BY <1>5 DEF OpenFile, WriteFile, SyncFile, CloseFile, AbandonOpenFile,
         ScopedBegin, ScopedRefused, TerminalBegin, TerminalRefused,
         CloseHandle, MayDrain
<1>6. ASSUME NEW t \in Threads,
             \/ OperationsDrained(t) \/ Seal(t) \/ SealRefused(t)
             \/ NothingToFinalize(t) \/ Quiesce(t) \/ LibcFlush(t)
             \/ DetachFiles(t) \/ CloseesDone(t) \/ CloseGate(t)
             \/ GateDrained(t) \/ FenceForRetirement(t) \/ Preflight(t)
             \/ FinishRequest(t)
      PROVE  Forward
  BY <1>6 DEF OperationsDrained, Seal, SealRefused, NothingToFinalize,
         Quiesce, LibcFlush, DetachFiles, CloseesDone, CloseGate,
         GateDrained, FenceForRetirement, Preflight, FinishRequest, Record
<1>7. ASSUME NEW t \in Threads,
             \/ FinishFailed(t) \/ ReleaseAcknowledged(t)
             \/ ReleaseUnacknowledged(t) \/ CancelWorker(t)
             \/ CancelFails(t) \/ JoinWorker(t) \/ CleanupSeen(t)
             \/ CleanupTimeout(t) \/ ScopedEnd(t)
      PROVE  Forward
  BY <1>7 DEF FinishFailed, ReleaseAcknowledged, ReleaseUnacknowledged,
         CancelWorker, CancelFails, JoinWorker, CleanupSeen,
         CleanupTimeout, ScopedEnd, Record, Finished, SealMatchesDrain,
         OwnsSeal, SealedPC
<1>8. ASSUME NEW t \in Threads, TerminalEnd(t)
      PROVE  Forward
  BY <1>8 DEF TerminalEnd, Finished, OneDrain
<1>9. ASSUME NEW t \in Threads, NEW c \in FileCall, NEW f \in Files,
             OperationBegin(t, c, f)
      PROVE  Forward
  BY <1>9 DEF OperationBegin, AdmitsOperation
<1>10. ASSUME NEW t \in Threads, NEW f \in Files,
             BufferedWrite(t, f) \/ CloseDetached(t, f)
      PROVE  Forward
  BY <1>10 DEF BufferedWrite, CloseDetached, CloseHandle, Record
<1>11. ASSUME ReleaseLock \/ ReleaseRejected \/ ResetContext \/ WorkerExit \/
             CleanupThread \/ InterruptTransaction \/
             RivalAcquires \/ RivalReleases
      PROVE  Forward
  BY <1>11 DEF ReleaseLock, ReleaseRejected, ResetContext, WorkerExit,
         CleanupThread, InterruptTransaction, RivalAcquires, RivalReleases
<1>12. CASE UNCHANGED vars
  BY <1>12 DEF vars
<1>. QED
  BY <1>1, <1>2, <1>3, <1>4, <1>5, <1>6, <1>7, <1>8, <1>9, <1>10, <1>11,
     <1>12 DEF Next, Start, Continue, Factory, Operation, Drain,
     OPFSWorker, Environment

(* Recording keeps every other field. *)
LEMMA RecordFields ==
  ASSUME result \in [Threads -> Result], NEW t \in Threads,
         NEW failed \in BOOLEAN
  PROVE  LET r == Record(t, failed)[t]
         IN  /\ r.status = result[t].status
             /\ r.drain = result[t].drain
             /\ r.sealed = result[t].sealed
             /\ r.released = result[t].released
             /\ r.retired = result[t].retired
             /\ r.error <=> result[t].error \/ failed
BY DEF Record, Result

(* A thread's record stays accounted for while it does not take a step. *)
LEMMA ResultFrame ==
  ASSUME NEW u \in Threads, DrainProgress, ResultAccounted(u), Forward,
         pc'[u] = pc[u], call'[u] = call[u], result'[u] = result[u]
  PROVE  ResultAccounted(u)'
<1>1. TerminalPastDetach(u) => activeOperations = {}
  BY DEF TerminalPastDetach, DrainProgress
<1>2. /\ TerminalPastDetach(u)' <=> TerminalPastDetach(u)
      /\ OwnsSeal(u)' <=> OwnsSeal(u)
  BY DEF TerminalPastDetach, OwnsSeal
<1>3. TerminalPastDetach(u)' => table' = {}
  BY <1>1, <1>2 DEF Forward, ResultAccounted
<1>4. pc[u] = "end" /\ call[u] = "terminal" => TerminalPastDetach(u)
  BY DEF TerminalPastDetach
<1>. QED
  BY <1>1, <1>2, <1>3, <1>4 DEF ResultAccounted, Forward

(* So does the record of a thread that is not in a drain. *)
LEMMA ResultIdle ==
  ASSUME NEW u \in Threads, ResultAccounted(u), Forward,
         call'[u] \notin DrainCall, result'[u] = result[u]
  PROVE  ResultAccounted(u)'
<1>1. call'[u] # "scoped" /\ call'[u] # "terminal"
  BY DEF DrainCall
<1>. QED
  BY <1>1 DEF ResultAccounted, Forward, TerminalPastDetach

(* What a drain puts in its record is true of the lease, step by step. *)
LEMMA ResultMatchesDrainStep ==
  ASSUME pc \in [Threads -> PC], call \in [Threads -> Call],
         lease \in LeaseState, result \in [Threads -> Result],
         terminalState \in TerminalState, CallMatchesPC, OneDrain,
         TokensMatchPC, SealMatchesDrain, DrainProgress,
         ResultMatchesDrain, Forward, [Next]_vars
  PROVE  ResultMatchesDrain'
<1>. SUFFICES ASSUME NEW u \in Threads
              PROVE  ResultAccounted(u)'
  BY DEF ResultMatchesDrain
<1>. ResultAccounted(u)
  BY DEF ResultMatchesDrain
<1>1. ASSUME NEW t \in Threads,
             \/ CreateReserve(t) \/ AcquireLease(t) \/ AcquireFails(t)
             \/ AddBackend(t) \/ DestructorBegin(t) \/ DestructorEnd(t)
             \/ RefuseBackend(t) \/ OperationEnd(t) \/ AdmitBackend(t)
             \/ EnterFile(t) \/ ReleaseToken(t)
      PROVE  ResultAccounted(u)'
  <2>1. /\ result'[u] = result[u]
        /\ u # t => pc'[u] = pc[u] /\ call'[u] = call[u]
        /\ call'[t] \notin DrainCall
    BY <1>1 DEF CreateReserve, AcquireLease, AcquireFails, AddBackend,
       DestructorBegin, DestructorEnd, RefuseBackend, OperationEnd,
       AdmitBackend, EnterFile, ReleaseToken, Goto, Enter, Return,
       CallMatchesPC, DrainCall, FileCall, OpPC, DrainPC
  <2>. QED
    BY <2>1, ResultFrame, ResultIdle
<1>2. ASSUME NEW t \in Threads,
             \/ OpenFile(t) \/ WriteFile(t) \/ SyncFile(t) \/ CloseFile(t)
             \/ AbandonOpenFile(t) \/ LeaveFile(t)
      PROVE  ResultAccounted(u)'
  <2>1. /\ result'[u] = result[u]
        /\ u # t => pc'[u] = pc[u] /\ call'[u] = call[u]
        /\ call'[t] \notin DrainCall
    BY <1>2 DEF OpenFile, WriteFile, SyncFile, CloseFile, AbandonOpenFile,
       LeaveFile, CloseHandle, Goto, CallMatchesPC, DrainCall, FileCall,
       OpPC, DrainPC
  <2>. QED
    BY <2>1, ResultFrame, ResultIdle
<1>3. ASSUME NEW t \in Threads, NEW c \in FileCall, NEW f \in Files,
             OperationBegin(t, c, f)
      PROVE  ResultAccounted(u)'
  <2>1. /\ result'[u] = result[u]
        /\ u # t => pc'[u] = pc[u] /\ call'[u] = call[u]
        /\ call'[t] \notin DrainCall
    BY <1>3 DEF OperationBegin, Enter, Goto, DrainCall, FileCall
  <2>. QED
    BY <2>1, ResultFrame, ResultIdle
<1>4. ASSUME \/ ReleaseLock \/ ReleaseRejected \/ ResetContext
             \/ WorkerExit \/ CleanupThread \/ InterruptTransaction
             \/ RivalAcquires \/ RivalReleases \/ UNCHANGED vars
             \/ \E t \in Threads, f \in Files : BufferedWrite(t, f)
      PROVE  ResultAccounted(u)'
  <2>1. pc'[u] = pc[u] /\ call'[u] = call[u] /\ result'[u] = result[u]
    BY <1>4 DEF ReleaseLock, ReleaseRejected, ResetContext, WorkerExit,
       CleanupThread, InterruptTransaction, RivalAcquires, RivalReleases,
       BufferedWrite, vars
  <2>. QED
    BY <2>1, ResultFrame
<1>5. ASSUME NEW t \in Threads, u # t, Drain(t) \/ Start(t)
      PROVE  ResultAccounted(u)'
  <2>1. /\ result'[u] = result[u]
        /\ pc'[u] = pc[u] /\ call'[u] = call[u]
    <3>1. ASSUME \/ ScopedBegin(t) \/ ScopedRefused(t) \/ TerminalBegin(t)
                 \/ TerminalRefused(t) \/ OperationsDrained(t) \/ Seal(t)
                 \/ SealRefused(t) \/ NothingToFinalize(t) \/ CloseesDone(t)
                 \/ DetachFiles(t) \/ CloseGate(t) \/ GateDrained(t)
                 \/ FinishFailed(t) \/ FinishRequest(t)
                 \/ ReleaseUnacknowledged(t) \/ CancelWorker(t)
                 \/ CancelFails(t) \/ JoinWorker(t) \/ CleanupTimeout(t)
                 \/ ScopedEnd(t) \/ TerminalEnd(t)
          PROVE  /\ result'[u] = result[u]
                 /\ pc'[u] = pc[u] /\ call'[u] = call[u]
      BY <1>5, <3>1 DEF ScopedBegin, ScopedRefused, TerminalBegin,
         TerminalRefused, OperationsDrained, Seal, SealRefused,
         NothingToFinalize, CloseesDone, DetachFiles, CloseGate,
         GateDrained, FinishFailed, FinishRequest, ReleaseUnacknowledged,
         CancelWorker, CancelFails, JoinWorker, CleanupTimeout, ScopedEnd,
         TerminalEnd, Record, Finished, Goto, Enter, Return
    <3>2. ASSUME \/ CreateReserve(t) \/ DestructorBegin(t)
                 \/ \E f \in Files : BufferedWrite(t, f)
                 \/ \E c \in FileCall, f \in Files : OperationBegin(t, c, f)
          PROVE  /\ result'[u] = result[u]
                 /\ pc'[u] = pc[u] /\ call'[u] = call[u]
      BY <1>5, <3>2 DEF CreateReserve, DestructorBegin, BufferedWrite,
         OperationBegin, Goto, Enter
    <3>3. ASSUME \/ Quiesce(t) \/ LibcFlush(t) \/ FenceForRetirement(t)
                 \/ Preflight(t) \/ ReleaseAcknowledged(t) \/ CleanupSeen(t)
                 \/ \E f \in Files : CloseDetached(t, f)
          PROVE  /\ result'[u] = result[u]
                 /\ pc'[u] = pc[u] /\ call'[u] = call[u]
      BY <1>5, <3>3 DEF Quiesce, LibcFlush, FenceForRetirement, Preflight,
         ReleaseAcknowledged, CleanupSeen, CloseDetached, Record, Goto
    <3>. QED
      BY <1>5, <3>1, <3>2, <3>3 DEF Drain, Start
  <2>. QED
    BY <2>1, ResultFrame
<1>6. CASE \/ ScopedBegin(u) \/ ScopedRefused(u)
           \/ TerminalBegin(u) \/ TerminalRefused(u)
  <2>1. /\ ~result'[u].released /\ ~result'[u].retired
        /\ \/ /\ result'[u].status = "running"
              /\ result'[u].drain = call'[u]
              /\ pc'[u] = IF call'[u] = "scoped" THEN "begin" ELSE "opWait"
           \/ /\ result'[u].status = "error" /\ pc'[u] = "idle"
              /\ call'[u] \notin DrainCall
    <3>1. CASE ScopedBegin(u)
      BY <3>1 DEF ScopedBegin, FreshResult, NoResult, Enter, Goto
    <3>2. CASE TerminalBegin(u)
      BY <3>2 DEF TerminalBegin, FreshResult, NoResult, Enter, Goto
    <3>3. CASE ScopedRefused(u)
      BY <3>3 DEF ScopedRefused, FreshResult, NoResult, CallMatchesPC,
         DrainPC
    <3>4. CASE TerminalRefused(u)
      BY <3>4 DEF TerminalRefused, FreshResult, NoResult, CallMatchesPC,
         DrainPC
    <3>. QED
      BY <1>6, <3>1, <3>2, <3>3, <3>4
  <2>. QED
    BY <2>1 DEF ResultAccounted, OwnsSeal, SealedPC, TerminalPastDetach,
       DrainCall
<1>7. CASE OperationsDrained(u) \/ Seal(u) \/ CloseesDone(u) \/ DetachFiles(u)
  BY <1>7 DEF OperationsDrained, Seal, CloseesDone, DetachFiles,
     ResultAccounted, OwnsSeal, SealedPC, TerminalPastDetach, Goto,
     CallMatchesPC, DrainCall, DrainPC
<1>8. CASE CloseGate(u) \/ GateDrained(u) \/ FinishRequest(u)
  BY <1>8 DEF CloseGate, GateDrained, FinishRequest,
     ResultAccounted, OwnsSeal, SealedPC, TerminalPastDetach, Goto
<1>9. CASE CancelWorker(u) \/ JoinWorker(u)
  BY <1>9 DEF CancelWorker, JoinWorker, SealMatchesDrain,
     ResultAccounted, OwnsSeal, SealedPC, TerminalPastDetach, Goto
<1>10. CASE \/ SealRefused(u) \/ FinishFailed(u) \/ CancelFails(u)
            \/ ReleaseUnacknowledged(u) \/ CleanupTimeout(u)
  <2>1. /\ result'[u].error
        /\ pc'[u] = "end" /\ call'[u] = call[u] /\ table' = table
        /\ result'[u].status = result[u].status
        /\ result'[u].drain = result[u].drain
        /\ result'[u].sealed = result[u].sealed
        /\ result'[u].released = result[u].released
        /\ result'[u].retired = result[u].retired
    BY <1>10, RecordFields DEF SealRefused, FinishFailed, CancelFails,
       ReleaseUnacknowledged, CleanupTimeout, Goto
  <2>2. TerminalPastDetach(u)' => table' = {}
    BY <1>10, <2>1 DEF SealRefused, FinishFailed, CancelFails,
       ReleaseUnacknowledged, CleanupTimeout, TerminalPastDetach,
       ResultAccounted, CallMatchesPC
  <2>. QED
    BY <2>1, <2>2 DEF ResultAccounted, OwnsSeal, SealedPC, Forward
<1>11. CASE NothingToFinalize(u)
  <2>1. call[u] = "terminal" /\ pc[u] = "finalize"
    BY <1>11 DEF NothingToFinalize, CallMatchesPC
  <2>2. lease # "Released"
    <3>. SUFFICES ASSUME lease = "Released" PROVE FALSE
      OBVIOUS
    <3>1. PICK v \in Threads : pc[v] = "retire"
      BY DEF SealMatchesDrain
    <3>2. pc[v] \in DrainPC /\ pc[u] \in DrainPC
      BY <2>1, <3>1 DEF DrainPC
    <3>. QED
      BY <2>1, <3>1, <3>2, DrainIsUnique
  <2>3. HasIncompleteScopedDrain \in BOOLEAN
    BY DEF HasIncompleteScopedDrain
  <2>4. /\ result' = Record(u, HasIncompleteScopedDrain)
        /\ pc'[u] = "end" /\ call'[u] = call[u]
        /\ lease' = lease /\ table' = table
    BY <1>11 DEF NothingToFinalize, Goto
  <2>5. ~result'[u].error => lease' \in {"Unleased", "Retired"}
    BY <1>11, <2>2, <2>3, <2>4, RecordFields DEF NothingToFinalize,
       HasIncompleteScopedDrain, HasLiveLease, LeaseState
  <2>6. /\ result'[u].status = result[u].status
        /\ result'[u].drain = result[u].drain
        /\ result'[u].sealed = result[u].sealed
        /\ result'[u].released = result[u].released
        /\ result'[u].retired = result[u].retired
    BY <2>3, <2>4, RecordFields
  <2>. QED
    BY <2>1, <2>4, <2>5, <2>6 DEF ResultAccounted, OwnsSeal, SealedPC,
       TerminalPastDetach, Forward
<1>12. ASSUME NEW failed \in BOOLEAN, result' = Record(u, failed),
              UNCHANGED <<call, lease, table>>, pc[u] # "end", pc'[u] # "end",
              OwnsSeal(u)' => OwnsSeal(u),
              pc'[u] \notin {"retire", "join", "poll"},
              TerminalPastDetach(u)' => TerminalPastDetach(u)
       PROVE  ResultAccounted(u)'
  BY <1>12, RecordFields DEF ResultAccounted, Forward
<1>13. CASE LibcFlush(u) \/ FenceForRetirement(u) \/ Preflight(u)
            \/ \E f \in Files : CloseDetached(u, f)
  <2>1. CASE LibcFlush(u)
    <3>1. PICK otherStreamFails \in BOOLEAN :
              result' = Record(u, \/ otherStreamFails
                                  \/ \E f \in Files : buffered'[f] # "none")
      BY <2>1 DEF LibcFlush
    <3>. QED
      BY <1>12, <2>1, <3>1 DEF LibcFlush, Goto, OwnsSeal, SealedPC,
         TerminalPastDetach
  <2>2. CASE FenceForRetirement(u)
    <3>1. PICK ok \in BOOLEAN :
            /\ result' = Record(u, ~ok)
            /\ Goto(u, IF ok /\ ~result[u].error THEN "preflight"
                                                 ELSE "finish")
      BY <2>2 DEF FenceForRetirement
    <3>. QED
      BY <1>12, <2>2, <3>1 DEF FenceForRetirement, Goto, OwnsSeal, SealedPC,
         TerminalPastDetach
  <2>3. CASE Preflight(u)
    <3>1. PICK interrupted \in BOOLEAN :
            result' = Record(u, interrupted \/ lock # "Self" \/ handles # {})
      BY <2>3 DEF Preflight
    <3>. QED
      BY <1>12, <2>3, <3>1 DEF Preflight, Goto, OwnsSeal, SealedPC,
         TerminalPastDetach
  <2>4. ASSUME NEW f \in Files, CloseDetached(u, f)
        PROVE  ResultAccounted(u)'
    <3>1. PICK failed \in BOOLEAN : result' = Record(u, failed)
      BY <2>4 DEF CloseDetached
    <3>. QED
      BY <1>12, <2>4, <3>1 DEF CloseDetached, OwnsSeal, SealedPC,
         TerminalPastDetach
  <2>. QED
    BY <1>13, <2>1, <2>2, <2>3, <2>4
<1>14. CASE Quiesce(u)
  <2>1. /\ result'[u].sealed <=> call[u] = "scoped"
        /\ result'[u].status = result[u].status
        /\ result'[u].drain = result[u].drain
        /\ result'[u].released = result[u].released
        /\ result'[u].retired = result[u].retired
    <3>1. result' = [result EXCEPT ![u].sealed = (call[u] = "scoped"),
                                   ![u].error = @ \/ closeFailed]
      BY <1>14 DEF Quiesce
    <3>2. ASSUME NEW b \in BOOLEAN, NEW g \in BOOLEAN
          PROVE  LET r == [result EXCEPT ![u].sealed = b,
                                         ![u].error = @ \/ g][u]
                 IN  /\ r.sealed <=> b
                     /\ r.status = result[u].status
                     /\ r.drain = result[u].drain
                     /\ r.released = result[u].released
                     /\ r.retired = result[u].retired
      BY DEF Result
    <3>. QED
      BY <3>1, <3>2
  <2>2. result[u].status = "running"
    BY <1>14 DEF Quiesce, ResultAccounted, CallMatchesPC, DrainPC
  <2>. QED
    BY <1>14, <2>1, <2>2 DEF Quiesce, Goto, ResultAccounted, OwnsSeal,
       SealedPC, TerminalPastDetach, Forward
<1>15. CASE ReleaseAcknowledged(u)
  <2>1. /\ result'[u].released <=> call[u] = "scoped"
        /\ result'[u].status = result[u].status
        /\ result'[u].drain = result[u].drain
        /\ result'[u].sealed = result[u].sealed
        /\ result'[u].retired = result[u].retired
    <3>1. result' = [result EXCEPT ![u].released = (call[u] = "scoped"),
                                   ![u].error = @ \/ txn = "witness"]
      BY <1>15 DEF ReleaseAcknowledged
    <3>2. ASSUME NEW b \in BOOLEAN, NEW g \in BOOLEAN
          PROVE  LET r == [result EXCEPT ![u].released = b,
                                         ![u].error = @ \/ g][u]
                 IN  /\ r.released <=> b
                     /\ r.status = result[u].status
                     /\ r.drain = result[u].drain
                     /\ r.sealed = result[u].sealed
                     /\ r.retired = result[u].retired
      BY DEF Result
    <3>. QED
      BY <3>1, <3>2
  <2>. QED
    BY <1>15, <2>1 DEF ReleaseAcknowledged, Goto, ResultAccounted, OwnsSeal,
       SealedPC, TerminalPastDetach, Forward
<1>16. CASE CleanupSeen(u)
  <2>1. /\ result'[u].retired <=> call[u] = "scoped" /\ ~result[u].error
        /\ result'[u].status = result[u].status
        /\ result'[u].drain = result[u].drain
        /\ result'[u].sealed = result[u].sealed
        /\ result'[u].released = result[u].released
        /\ result'[u].error = result[u].error
    BY <1>16 DEF CleanupSeen, Result
  <2>2. result[u].status = "running"
    BY <1>16 DEF CleanupSeen, ResultAccounted, CallMatchesPC, DrainPC
  <2>. QED
    BY <1>16, <2>1, <2>2 DEF CleanupSeen, Goto, ResultAccounted, OwnsSeal,
       SealedPC, TerminalPastDetach, Forward
<1>17. CASE ScopedEnd(u) \/ TerminalEnd(u)
  <2>1. /\ result'[u].status = IF result[u].error THEN "error" ELSE "ok"
        /\ result'[u].drain = result[u].drain
        /\ result'[u].sealed = result[u].sealed
        /\ result'[u].released = result[u].released
        /\ result'[u].retired = result[u].retired
        /\ call'[u] = "none" /\ pc'[u] = "idle" /\ UNCHANGED lease
    BY <1>17 DEF ScopedEnd, TerminalEnd, Finished, Return, Goto, Result
  <2>2. result[u].drain = call[u] /\ pc[u] = "end"
    BY <1>17 DEF ScopedEnd, TerminalEnd, ResultAccounted, DrainCall
  <2>3. CASE ScopedEnd(u)
    BY <2>1, <2>2, <2>3 DEF ScopedEnd, ResultAccounted, DrainCall,
       TerminalPastDetach
  <2>4. CASE TerminalEnd(u)
    BY <2>1, <2>2, <2>4 DEF TerminalEnd, ResultAccounted, DrainCall,
       TerminalPastDetach
  <2>. QED
    BY <1>17, <2>3, <2>4
<1>. QED
  BY <1>1, <1>2, <1>3, <1>4, <1>5, <1>6, <1>7, <1>8, <1>9, <1>10, <1>11,
     <1>13, <1>14, <1>15, <1>16, <1>17 DEF Next, Start, Continue, Factory,
     Operation, Drain, OPFSWorker, Environment

(* Nothing is left, and nothing begins, after a successful terminal drain. *)
LEMMA DrainedForGoodStep ==
  ASSUME DrainProgress, ResultMatchesDrain, DrainedForGood, Forward,
         call \in [Threads -> Call], pc \in [Threads -> PC],
         [Next]_vars
  PROVE  DrainedForGood'
<1>1. CASE terminalState = "Drained"
  BY <1>1 DEF DrainedForGood, Forward
<1>2. ASSUME NEW t \in Threads, TerminalEnd(t), terminalState' = "Drained"
      PROVE  DrainedForGood'
  <2>1. ~result[t].error /\ TerminalPastDetach(t)
    BY <1>2 DEF TerminalEnd, TerminalPastDetach
  <2>2. /\ lease \in {"Unleased", "Retired"}
        /\ table = {} /\ activeOperations = {}
    BY <1>2, <2>1 DEF TerminalEnd, ResultMatchesDrain, ResultAccounted,
       DrainProgress
  <2>. QED
    BY <1>2, <2>2 DEF TerminalEnd, DrainedForGood
<1>3. \/ terminalState' = terminalState \/ terminalState' # "Drained"
      \/ \E t \in Threads : TerminalEnd(t)
  <2>1. ASSUME NEW t \in Threads, Start(t)
        PROVE  terminalState' = terminalState \/ terminalState' # "Drained"
    BY <2>1 DEF Start, CreateReserve, OperationBegin, BufferedWrite,
       DestructorBegin, ScopedBegin, ScopedRefused, TerminalBegin,
       TerminalRefused
  <2>2. ASSUME NEW t \in Threads, Factory(t) \/ Operation(t)
        PROVE  terminalState' = terminalState
    BY <2>2 DEF Factory, Operation, AcquireLease, AcquireFails, AddBackend,
       AdmitBackend, RefuseBackend, EnterFile, OpenFile, WriteFile,
       SyncFile, CloseFile, AbandonOpenFile, LeaveFile, ReleaseToken,
       OperationEnd, DestructorEnd
  <2>3. ASSUME NEW t \in Threads, Drain(t)
        PROVE  terminalState' = terminalState \/ TerminalEnd(t)
    BY <2>3 DEF Drain, OperationsDrained, Seal, SealRefused,
       NothingToFinalize, Quiesce, LibcFlush, DetachFiles, CloseesDone,
       CloseDetached, CloseGate, GateDrained, FenceForRetirement, Preflight,
       FinishFailed, FinishRequest, ReleaseAcknowledged,
       ReleaseUnacknowledged, CancelWorker, CancelFails, JoinWorker,
       CleanupSeen, CleanupTimeout, ScopedEnd, Record
  <2>4. CASE OPFSWorker \/ CleanupThread \/ Environment \/ UNCHANGED vars
    BY <2>4 DEF OPFSWorker, Environment, ReleaseLock, ReleaseRejected,
       ResetContext, WorkerExit, CleanupThread, InterruptTransaction,
       RivalAcquires, RivalReleases, vars
  <2>. QED
    BY <2>1, <2>2, <2>3, <2>4 DEF Next, Continue
<1>4. CASE terminalState' # "Drained"
  BY <1>4 DEF DrainedForGood
<1>. QED
  BY <1>1, <1>2, <1>3, <1>4

LEMMA RetirementInit == Init => RetirementInv
<1>. SUFFICES ASSUME Init PROVE RetirementInv
  OBVIOUS
<1>1. WorkerMatchesLease /\ HeartbeatMatchesTxn
  BY DEF Init, WorkerMatchesLease, HeartbeatMatchesTxn
<1>2. GateMatchesDrain /\ DrainedForGood
  BY DEF Init, GateMatchesDrain, PastGate, DrainedForGood
<1>3. ResultMatchesDrain
  BY DEF Init, ResultMatchesDrain, ResultAccounted, NoResult, DrainCall,
     TerminalPastDetach
<1>. QED
  BY <1>1, <1>2, <1>3 DEF RetirementInv

LEMMA RetirementStep ==
  HandoffInv /\ RetirementInv /\ [Next]_vars => RetirementInv'
<1>. SUFFICES ASSUME HandoffInv, RetirementInv, [Next]_vars
              PROVE  RetirementInv'
  OBVIOUS
<1>. USE DEF HandoffInv, RetirementInv
<1>1. /\ terminalState \in TerminalState
      /\ installed \in BOOLEAN
      /\ lease \in LeaseState
      /\ gateClosed \in BOOLEAN
      /\ worker \in WorkerState
      /\ fenced \in BOOLEAN
      /\ acknowledged \in BOOLEAN
      /\ stopClaimed \in BOOLEAN
      /\ heartbeat \in BOOLEAN
      /\ txn \in Txn
      /\ pc \in [Threads -> PC]
      /\ call \in [Threads -> Call]
      /\ result \in [Threads -> Result]
  BY DEF TypeOK
<1>2. Forward
  BY <1>1, StepsGoForward
<1>3. WorkerMatchesLease' /\ HeartbeatMatchesTxn' /\ GateMatchesDrain'
  BY <1>1, WorkerMatchesLeaseStep, HeartbeatMatchesTxnStep,
     GateMatchesDrainStep
<1>4. ResultMatchesDrain' /\ DrainedForGood'
  BY <1>1, <1>2, ResultMatchesDrainStep, DrainedForGoodStep
<1>. QED
  BY <1>3, <1>4

(* The end of the protocol is accounted for in every reachable state: the  *)
(* dedicated Worker, its heartbeat, the destructor gate, the result        *)
(* records and the terminal state.                                         *)
THEOREM RetirementInvariant == Spec => [](HandoffInv /\ RetirementInv)
<1>. QED
  BY HandoffInit, HandoffStep, RetirementInit, RetirementStep, PTL DEF Spec

(* Whoever proxies work to the dedicated Worker finds it running           *)
(* (closeDestructorProxying, then abandonScopedProfileWorker or retire).   *)
THEOREM WorkerOutlivesItsUsers == Spec => []ProxyTargetAlive
<1>1. HandoffInv /\ RetirementInv => ProxyTargetAlive
  <2>. SUFFICES ASSUME HandoffInv, RetirementInv, NEW t \in Threads,
                       pc[t] \in {"acquire", "inside", "destroy",
                                  "preflight", "txn"}
                PROVE  worker = "running"
    BY DEF ProxyTargetAlive
  <2>. USE DEF HandoffInv, RetirementInv, WorkerMatchesLease
  <2>1. CASE pc[t] = "acquire"
    BY <2>1
  <2>2. CASE pc[t] = "inside"
    BY <2>2 DEF TokensMatchPC
  <2>3. CASE pc[t] = "destroy"
    <3>1. installed /\ destructors # {}
      BY <2>3 DEF GateMatchesDrain
    <3>2. lease \in {"Active", "Sealing"}
      BY <3>1 DEF GateMatchesDrain, PastGate, OneLeaseOwner, TypeOK,
         LeaseState
    <3>. QED
      BY <3>2
  <2>4. CASE pc[t] \in {"preflight", "txn"}
    BY <2>4 DEF SealMatchesDrain, OwnsSeal, SealedPC
  <2>. QED
    BY <2>1, <2>2, <2>3, <2>4
<1>. QED
  BY <1>1, RetirementInvariant, PTL

(* The pthread is cancelled only behind a cleared interval and a fence,    *)
(* and its realm never gets to the pool (markHeartbeatStopped,             *)
(* fenceForRetirement, PThread.returnWorkerToPool).                        *)
THEOREM RealmIsQuarantined == Spec => []WorkerQuarantined
<1>1. RetirementInv => WorkerQuarantined
  BY DEF RetirementInv, WorkerMatchesLease, HeartbeatMatchesTxn,
     WorkerQuarantined
<1>. QED
  BY <1>1, RetirementInvariant, PTL

(* What a caller concludes from its result record is so, however the two   *)
(* drains, their failures and later calls interleave.                      *)
THEOREM ResultsAreTrue == Spec => []ResultTruthful
<1>1. HandoffInv /\ RetirementInv => ResultTruthful
  <2>. SUFFICES ASSUME HandoffInv, RetirementInv, NEW t \in Threads
                PROVE  LET r == result[t] IN
                       /\ r.released => lock # "Self" /\ ~Claims
                       /\ r.retired => HandoffComplete
                       /\ r.status = "ok" /\ r.drain = "scoped"
                              => r.sealed /\ r.released /\ r.retired
                       /\ r.status = "ok" /\ r.drain = "terminal"
                              => /\ lease \in {"Unleased", "Retired"}
                                 /\ table = {}
    BY DEF ResultTruthful
  <2>. USE DEF HandoffInv, RetirementInv
  <2>1. ResultAccounted(t)
    BY DEF ResultMatchesDrain
  <2>2. lease \in {"Released", "Retiring", "Retired"}
            => lock # "Self" /\ ~Claims
    BY DEF LockMatchesTxn, StorageGuardedByLock
  <2>3. lease = "Retired" => HandoffComplete
    BY <2>2 DEF WorkerMatchesLease, HandoffComplete
  <2>. QED
    BY <2>1, <2>2, <2>3 DEF ResultAccounted, DrainedForGood
<1>. QED
  BY <1>1, RetirementInvariant, PTL
=============================================================================
