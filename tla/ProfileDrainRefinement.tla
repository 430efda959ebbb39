----------------------- MODULE ProfileDrainRefinement -----------------------
(***************************************************************************)
(* What no step of ProfileDrain does to a sealed backend, and the proof    *)
(* that ProfileDrain implements ProfileHandoff.                            *)
(***************************************************************************)
EXTENDS ProfileDrainSafety

USE DEF fsVars, leaseVars, gateVars, fileVars, workerVars, callVars

(* No step reopens a sealed backend. *)
LEMMA SealKept ==
  ASSUME OneLeaseOwner, TokensMatchPC, SealMatchesDrain, [Next]_vars
  PROVE  StaysSealed \/ UNCHANGED vars
<1>. USE DEF StaysSealed, Goto, Enter, Return
<1>1. ASSUME NEW t \in Threads,
             \/ CreateReserve(t) \/ AcquireFails(t) \/ AddBackend(t)
             \/ DestructorBegin(t) \/ DestructorEnd(t) \/ RefuseBackend(t)
             \/ OperationEnd(t) \/ EnterFile(t) \/ ReleaseToken(t)
      PROVE  StaysSealed \/ UNCHANGED vars
  BY <1>1 DEF CreateReserve, AcquireFails, AddBackend, DestructorBegin,
         DestructorEnd, RefuseBackend, OperationEnd, EnterFile,
         ReleaseToken
<1>2. ASSUME NEW t \in Threads,
             \/ WriteFile(t) \/ SyncFile(t) \/ CloseFile(t)
             \/ AbandonOpenFile(t) \/ ScopedBegin(t) \/ ScopedRefused(t)
             \/ TerminalBegin(t) \/ TerminalRefused(t)
      PROVE  StaysSealed \/ UNCHANGED vars
  BY <1>2 DEF WriteFile, SyncFile, CloseFile, AbandonOpenFile, ScopedBegin,
         ScopedRefused, TerminalBegin, TerminalRefused, CloseHandle
<1>3. ASSUME NEW t \in Threads,
             \/ OperationsDrained(t) \/ Seal(t) \/ SealRefused(t)
             \/ NothingToFinalize(t) \/ Quiesce(t) \/ LibcFlush(t)
             \/ DetachFiles(t) \/ CloseesDone(t) \/ CloseGate(t)
             \/ GateDrained(t) \/ FenceForRetirement(t) \/ Preflight(t)
      PROVE  StaysSealed \/ UNCHANGED vars
  BY <1>3 DEF OperationsDrained, Seal, SealRefused, NothingToFinalize,
         Quiesce, LibcFlush, DetachFiles, CloseesDone, CloseGate,
         GateDrained, FenceForRetirement, Preflight, Record
<1>4. ASSUME NEW t \in Threads,
             \/ FinishRequest(t) \/ JoinWorker(t) \/ CleanupTimeout(t)
             \/ ScopedEnd(t) \/ TerminalEnd(t)
      PROVE  StaysSealed \/ UNCHANGED vars
  BY <1>4 DEF FinishRequest, JoinWorker, CleanupTimeout, ScopedEnd,
         TerminalEnd, Record, Finished
<1>5. ASSUME NEW t \in Threads, AcquireLease(t)
      PROVE  StaysSealed \/ UNCHANGED vars
  BY <1>5 DEF AcquireLease, OneLeaseOwner
<1>6. ASSUME NEW t \in Threads, AdmitBackend(t)
      PROVE  StaysSealed \/ UNCHANGED vars
  BY <1>6 DEF AdmitBackend, AdmitsExternal
<1>7. ASSUME NEW t \in Threads,
             \/ OpenFile(t) \/ LeaveFile(t)
      PROVE  StaysSealed \/ UNCHANGED vars
  BY <1>7 DEF OpenFile, LeaveFile, Quiescent, TokensMatchPC
<1>8. ASSUME NEW t \in Threads,
             \/ FinishFailed(t) \/ ReleaseAcknowledged(t)
             \/ ReleaseUnacknowledged(t) \/ CancelWorker(t)
             \/ CancelFails(t) \/ CleanupSeen(t)
      PROVE  StaysSealed \/ UNCHANGED vars
  BY <1>8 DEF FinishFailed, ReleaseAcknowledged, ReleaseUnacknowledged,
         CancelWorker, CancelFails, CleanupSeen, Record, Abandon,
         SealMatchesDrain, OwnsSeal, SealedPC
<1>9. ASSUME NEW t \in Threads, NEW c \in FileCall, NEW f \in Files,
             OperationBegin(t, c, f)
      PROVE  StaysSealed \/ UNCHANGED vars
  BY <1>9 DEF OperationBegin
<1>10. ASSUME NEW t \in Threads, NEW f \in Files, BufferedWrite(t, f)
      PROVE  StaysSealed \/ UNCHANGED vars
  BY <1>10 DEF BufferedWrite
<1>11. ASSUME NEW t \in Threads, NEW f \in Files, CloseDetached(t, f)
      PROVE  StaysSealed \/ UNCHANGED vars
  BY <1>11 DEF CloseDetached, Record, CloseHandle
<1>12. ASSUME ReleaseLock \/ ReleaseRejected \/ ResetContext \/ WorkerExit \/
             CleanupThread \/ InterruptTransaction \/
             RivalAcquires \/ RivalReleases
      PROVE  StaysSealed \/ UNCHANGED vars
  BY <1>12 DEF ReleaseLock, ReleaseRejected, ResetContext, WorkerExit,
         CleanupThread, InterruptTransaction, RivalAcquires, RivalReleases
<1>13. CASE UNCHANGED vars
  BY <1>13 DEF vars
<1>. QED
  BY <1>1, <1>2, <1>3, <1>4, <1>5, <1>6, <1>7, <1>8, <1>9, <1>10, <1>11,
     <1>12, <1>13 DEF Next, Start, Continue, Factory, Operation, Drain,
     OPFSWorker, Environment

-----------------------------------------------------------------------------
(* The abstract phase of each state of the lease. *)
LEMMA PhaseOfLease ==
  /\ lease = "Unleased" => phase = "Unclaimed"
  /\ lease = "Active" => phase = "Open"
  /\ lease = "Sealing" => phase = "Sealed"
  /\ lease = "Failed" => phase = "Retained"
  /\ lease \in {"Released", "Retiring", "Retired"} => phase = "HandedOff"
  /\ lease' = "Active" => phase' = "Open"
  /\ lease' = "Sealing" => phase' = "Sealed"
  /\ lease' = "Failed" => phase' = "Retained"
  /\ lease' \in {"Released", "Retiring", "Retired"} => phase' = "HandedOff"
BY DEF phase

(* The phase changes with the lease only. *)
LEMMA PhaseKept == ASSUME lease' = lease PROVE phase' = phase
BY DEF phase

(* Claims change with handles, unflushed files and buffers only. *)
LEMMA ClaimsKept ==
  ASSUME UNCHANGED <<handles, dirty, buffered>>
  PROVE  Claims' = Claims
BY DEF Claims

(* A step that touches none of this is a stuttering step of the handoff. *)
LEMMA HandoffStutter ==
  ASSUME UNCHANGED <<lock, lease, external, handles, dirty, buffered>>
  PROVE  [Handoff!Next]_(Handoff!vars)
BY PhaseKept, ClaimsKept DEF Handoff!vars

(* Storage is used while the lock is ours and the lease allows it. *)
LEMMA HandoffUse ==
  ASSUME UNCHANGED <<lock, lease, external>>, lock = "Self",
         lease \in {"Active", "Sealing"}
  PROVE  [Handoff!Next]_(Handoff!vars)
<1>1. Claims' \in BOOLEAN
  BY DEF Claims
<1>2. phase' = phase /\ phase \in {"Open", "Sealed"}
  BY PhaseKept, PhaseOfLease
<1>. QED
  BY <1>1, <1>2 DEF Handoff!Next, Handoff!Use

(* Every step is a step of the abstract handoff, or changes nothing of it. *)
LEMMA StepImplementsHandoff ==
  ASSUME HandoffInv, [Next]_vars
  PROVE  [Handoff!Next]_(Handoff!vars)
<1>. /\ CallMatchesPC /\ OneDrain /\ OneLeaseOwner /\ TokensMatchPC
     /\ SealMatchesDrain /\ LockMatchesTxn /\ HandlesReachable
     /\ DirtyAccounted /\ DrainProgress /\ TableNeedsLease
     /\ StorageGuardedByLock
  BY DEF HandoffInv
<1>. /\ result \in [Threads -> Result]
     /\ buffered \in [Files -> Buffer]
     /\ table \subseteq Files /\ dirty \subseteq Files
     /\ external \subseteq Threads
  BY DEF HandoffInv, TypeOK
<1>1. ASSUME NEW t \in Threads,
             \/ CreateReserve(t) \/ AcquireFails(t) \/ AddBackend(t)
             \/ RefuseBackend(t) \/ EnterFile(t) \/ LeaveFile(t)
             \/ OperationEnd(t) \/ DestructorBegin(t) \/ DestructorEnd(t)
      PROVE  [Handoff!Next]_(Handoff!vars)
  <2>1. UNCHANGED <<lock, lease, external, handles, dirty, buffered>>
    BY <1>1 DEF CreateReserve, AcquireFails, AddBackend, RefuseBackend,
           EnterFile, LeaveFile, OperationEnd, DestructorBegin,
           DestructorEnd, Goto, Enter, Return
  <2>. QED
    BY <2>1, HandoffStutter
<1>2. ASSUME NEW t \in Threads,
             \/ ScopedBegin(t) \/ ScopedRefused(t) \/ TerminalBegin(t)
             \/ TerminalRefused(t) \/ OperationsDrained(t)
             \/ SealRefused(t) \/ NothingToFinalize(t) \/ Quiesce(t)
             \/ DetachFiles(t) \/ CloseesDone(t)
      PROVE  [Handoff!Next]_(Handoff!vars)
  <2>1. UNCHANGED <<lock, lease, external, handles, dirty, buffered>>
    BY <1>2 DEF ScopedBegin, ScopedRefused, TerminalBegin, TerminalRefused,
           OperationsDrained, SealRefused, NothingToFinalize, Quiesce,
           DetachFiles, CloseesDone, Record, HasIncompleteScopedDrain,
           Goto, Enter, Return
  <2>. QED
    BY <2>1, HandoffStutter
<1>3. ASSUME NEW t \in Threads,
             \/ CloseGate(t) \/ GateDrained(t) \/ FenceForRetirement(t)
             \/ Preflight(t) \/ FinishRequest(t) \/ JoinWorker(t)
             \/ CleanupTimeout(t) \/ ScopedEnd(t) \/ TerminalEnd(t)
      PROVE  [Handoff!Next]_(Handoff!vars)
  <2>1. UNCHANGED <<lock, lease, external, handles, dirty, buffered>>
    BY <1>3 DEF CloseGate, GateDrained, FenceForRetirement, Preflight,
           FinishRequest, JoinWorker, CleanupTimeout, ScopedEnd,
           TerminalEnd, Record, Finished, Goto, Enter, Return
  <2>. QED
    BY <2>1, HandoffStutter
<1>4. ASSUME NEW t \in Threads, NEW c \in FileCall, NEW f \in Files,
             OperationBegin(t, c, f)
      PROVE  [Handoff!Next]_(Handoff!vars)
  BY <1>4, HandoffStutter DEF OperationBegin
<1>5. ASSUME ReleaseRejected \/ WorkerExit \/ InterruptTransaction
      PROVE  [Handoff!Next]_(Handoff!vars)
  <2>1. UNCHANGED <<lock, lease, external, handles, dirty, buffered>>
    BY <1>5 DEF ReleaseRejected, WorkerExit, InterruptTransaction, Goto,
           Enter, Return
  <2>. QED
    BY <2>1, HandoffStutter
<1>6. ASSUME NEW t \in Threads, AcquireLease(t)
      PROVE  [Handoff!Next]_(Handoff!vars)
  <2>1. lease = "Unleased"
    BY <1>6 DEF AcquireLease, OneLeaseOwner
  <2>2. /\ lock = "Free" /\ lock' = "Self" /\ lease' = "Active"
        /\ UNCHANGED <<external, handles, dirty, buffered>>
    BY <1>6 DEF AcquireLease
  <2>3. phase = "Unclaimed" /\ phase' = "Open"
    BY <2>1, <2>2, PhaseOfLease
  <2>4. Claims' = Claims
    BY <2>2, ClaimsKept
  <2>. QED
    BY <2>1, <2>2, <2>3, <2>4 DEF Handoff!Next, Handoff!Claim
<1>7. ASSUME NEW t \in Threads, AdmitBackend(t)
      PROVE  [Handoff!Next]_(Handoff!vars)
  <2>1. lease = "Active"
    BY <1>7 DEF AdmitBackend, AdmitsExternal
  <2>2. /\ external' = external \cup {t}
        /\ UNCHANGED <<lock, lease, handles, dirty, buffered>>
    BY <1>7 DEF AdmitBackend
  <2>3. phase = "Open" /\ phase' = "Open"
    BY <2>1, <2>2, PhaseOfLease
  <2>4. Claims' = Claims
    BY <2>2, ClaimsKept
  <2>. QED
    BY <2>1, <2>2, <2>3, <2>4 DEF Handoff!Next, Handoff!Admit
<1>8. ASSUME NEW t \in Threads, ReleaseToken(t)
      PROVE  [Handoff!Next]_(Handoff!vars)
  <2>1. t \in external
    BY <1>8 DEF ReleaseToken, TokensMatchPC
  <2>2. /\ external' = external \ {t}
        /\ UNCHANGED <<lock, lease, handles, dirty, buffered>>
    BY <1>8 DEF ReleaseToken
  <2>3. phase' = phase /\ Claims' = Claims
    BY <2>2, PhaseKept, ClaimsKept
  <2>. QED
    BY <2>1, <2>2, <2>3 DEF Handoff!Next, Handoff!Leave
<1>9. ASSUME NEW t \in Threads, Seal(t)
      PROVE  [Handoff!Next]_(Handoff!vars)
  <2>1. lease = "Active"
    BY <1>9 DEF Seal
  <2>2. /\ lease' = "Sealing"
        /\ UNCHANGED <<lock, external, handles, dirty, buffered>>
    BY <1>9 DEF Seal
  <2>3. phase = "Open" /\ phase' = "Sealed"
    BY <2>1, <2>2, PhaseOfLease
  <2>4. Claims' = Claims
    BY <2>2, ClaimsKept
  <2>. QED
    BY <2>1, <2>2, <2>3, <2>4 DEF Handoff!Next, Handoff!Seal
<1>10. ASSUME NEW t \in Threads, FinishFailed(t)
      PROVE  [Handoff!Next]_(Handoff!vars)
  <2>1. lease = "Sealing" /\ external = {}
    BY <1>10, ThreadsAssumption DEF FinishFailed, SealMatchesDrain, OwnsSeal,
           SealedPC
  <2>2. /\ lease' = "Failed"
        /\ UNCHANGED <<lock, external, handles, dirty, buffered>>
    BY <1>10 DEF FinishFailed
  <2>3. phase = "Sealed" /\ phase' = "Retained"
    BY <2>1, <2>2, PhaseOfLease
  <2>4. Claims' = Claims
    BY <2>2, ClaimsKept
  <2>. QED
    BY <2>1, <2>2, <2>3, <2>4 DEF Handoff!Next, Handoff!Retain
<1>11. ASSUME NEW t \in Threads, ReleaseUnacknowledged(t)
      PROVE  [Handoff!Next]_(Handoff!vars)
  <2>1. lease = "Sealing" /\ external = {}
    BY <1>11, ThreadsAssumption DEF ReleaseUnacknowledged, SealMatchesDrain,
           OwnsSeal, SealedPC
  <2>2. /\ lease' = "Failed"
        /\ UNCHANGED <<lock, external, handles, dirty, buffered>>
    BY <1>11 DEF ReleaseUnacknowledged
  <2>3. phase = "Sealed" /\ phase' = "Retained"
    BY <2>1, <2>2, PhaseOfLease
  <2>4. Claims' = Claims
    BY <2>2, ClaimsKept
  <2>. QED
    BY <2>1, <2>2, <2>3, <2>4 DEF Handoff!Next, Handoff!Retain
<1>12. ASSUME NEW t \in Threads, ReleaseAcknowledged(t)
      PROVE  [Handoff!Next]_(Handoff!vars)
  <2>1. lease = "Sealing" /\ lock # "Self"
    BY <1>12 DEF ReleaseAcknowledged, SealMatchesDrain, OwnsSeal, SealedPC,
           LockMatchesTxn
  <2>2. /\ lease' = "Released"
        /\ UNCHANGED <<lock, external, handles, dirty, buffered>>
    BY <1>12 DEF ReleaseAcknowledged
  <2>3. phase = "Sealed" /\ phase' = "HandedOff"
    BY <2>1, <2>2, PhaseOfLease
  <2>4. Claims' = Claims
    BY <2>2, ClaimsKept
  <2>. QED
    BY <2>1, <2>2, <2>3, <2>4 DEF Handoff!Next, Handoff!HandOff
<1>13. ASSUME NEW t \in Threads,
             \/ CancelWorker(t) \/ CancelFails(t) \/ CleanupSeen(t)
      PROVE  [Handoff!Next]_(Handoff!vars)
  <2>1. /\ lease \in {"Released", "Retiring"}
        /\ lease' \in {"Retiring", "Retired"}
    BY <1>13 DEF CancelWorker, CancelFails, CleanupSeen, SealMatchesDrain, Record
  <2>2. UNCHANGED <<lock, external, handles, dirty, buffered>>
    BY <1>13 DEF CancelWorker, CancelFails, CleanupSeen, Record
  <2>3. phase' = phase /\ Claims' = Claims
    BY <2>1, <2>2, PhaseOfLease, ClaimsKept
  <2>. QED
    BY <2>2, <2>3 DEF Handoff!vars
<1>14. ASSUME NEW t \in Threads,
             \/ OpenFile(t) \/ WriteFile(t) \/ SyncFile(t) \/ CloseFile(t)
             \/ AbandonOpenFile(t)
      PROVE  [Handoff!Next]_(Handoff!vars)
  <2>1. t \in external /\ pc[t] \in {"inside", "leave"}
    BY <1>14 DEF OpenFile, WriteFile, SyncFile, CloseFile, AbandonOpenFile,
           TokensMatchPC
  <2>2. lock = "Self" /\ lease \in {"Active", "Sealing"}
    BY <2>1 DEF TokensMatchPC, StorageGuardedByLock
  <2>3. UNCHANGED <<lock, lease, external>>
    BY <1>14 DEF OpenFile, WriteFile, SyncFile, CloseFile, AbandonOpenFile
  <2>. QED
    BY <2>2, <2>3, HandoffUse
<1>15. ASSUME NEW t \in Threads, NEW f \in Files, CloseDetached(t, f)
      PROVE  [Handoff!Next]_(Handoff!vars)
  <2>1. /\ pc[t] = "close" /\ todo[t] # {}
        /\ UNCHANGED <<lock, lease, external>>
    BY <1>15 DEF CloseDetached
  <2>2. lock = "Self" /\ lease \in {"Active", "Sealing"}
    BY <2>1, DrainAdmitted DEF TableNeedsLease
  <2>. QED
    BY <2>1, <2>2, HandoffUse
<1>16. ASSUME NEW t \in Threads, LibcFlush(t)
      PROVE  [Handoff!Next]_(Handoff!vars)
  <2>1. PICK S \in SUBSET Flushable(t) :
              /\ buffered' = [f \in Files |->
                                IF f \in S THEN "none" ELSE buffered[f]]
              /\ dirty' = dirty \cup S
    BY <1>16, LibcFlushEffect
  <2>2. pc[t] = "libc" /\ UNCHANGED <<handles, lock, lease, external>>
    BY <1>16 DEF LibcFlush
  <2>3. CASE S = {}
    <3>1. buffered' = buffered /\ dirty' = dirty
      BY <2>1, <2>3
    <3>. QED
      BY <2>2, <3>1, HandoffStutter
  <2>4. CASE S # {}
    <3>1. lock = "Self" /\ lease \in {"Active", "Sealing"}
      BY <2>1, <2>2, <2>4, DrainAdmitted DEF Flushable, HandlesReachable
    <3>. QED
      BY <2>2, <3>1, HandoffUse
  <2>. QED
    BY <2>3, <2>4
<1>17. ASSUME NEW t \in Threads, NEW f \in Files, BufferedWrite(t, f)
      PROVE  [Handoff!Next]_(Handoff!vars)
  <2>1. UNCHANGED <<handles, dirty, lock, lease, external>>
    BY <1>17 DEF BufferedWrite
  <2>2. CASE lease = "Active"
    BY <2>1, <2>2, HandoffUse DEF LockMatchesTxn
  <2>3. CASE lease # "Active"
    <3>1. \A g \in Files : buffered'[g] = "early" <=> buffered[g] = "early"
      BY <1>17, <2>3 DEF BufferedWrite
    <3>2. Claims' <=> Claims
      BY <2>1, <3>1 DEF Claims
    <3>3. Claims' = Claims
      BY <3>2
    <3>. QED
      BY <2>1, <3>3, PhaseKept DEF Handoff!vars
  <2>. QED
    BY <2>2, <2>3
<1>18. ASSUME ReleaseLock
      PROVE  [Handoff!Next]_(Handoff!vars)
  <2>1. PICK t \in Threads : pc[t] = "txn"
    BY <1>18 DEF ReleaseLock, LockMatchesTxn
  <2>2. ~Claims /\ external = {}
    BY <2>1, TransactionIsClean, SealedMeansClosed DEF SealedPC
  <2>3. lease = "Sealing"
    BY <2>1 DEF SealedPC, SealMatchesDrain, OwnsSeal
  <2>4. /\ lock = "Self" /\ lock' = "Free"
        /\ UNCHANGED <<lease, external, handles, dirty, buffered>>
    BY <1>18 DEF ReleaseLock
  <2>5. phase = "Sealed" /\ phase' = phase /\ Claims' = Claims
    BY <2>3, <2>4, PhaseOfLease, PhaseKept, ClaimsKept
  <2>. QED
    BY <2>2, <2>4, <2>5 DEF Handoff!Next, Handoff!GiveUp
<1>19. ASSUME ResetContext
      PROVE  [Handoff!Next]_(Handoff!vars)
  <2>1. lock # "Self"
    BY <1>19 DEF ResetContext, LockMatchesTxn
  <2>2. handles = {}
    BY <2>1 DEF StorageGuardedByLock, Claims
  <2>3. UNCHANGED <<lock, lease, external, handles, dirty, buffered>>
    BY <1>19, <2>2 DEF ResetContext
  <2>. QED
    BY <2>3, HandoffStutter
<1>20. ASSUME CleanupThread
      PROVE  [Handoff!Next]_(Handoff!vars)
  <2>1. UNCHANGED <<lock, lease, external, handles, dirty, buffered>>
    BY <1>20 DEF CleanupThread, LockMatchesTxn
  <2>. QED
    BY <2>1, HandoffStutter
<1>21. ASSUME RivalAcquires \/ RivalReleases
      PROVE  [Handoff!Next]_(Handoff!vars)
  <2>1. /\ \/ lock = "Free" /\ lock' = "Rival"
           \/ lock = "Rival" /\ lock' = "Free"
        /\ UNCHANGED <<lease, external, handles, dirty, buffered>>
    BY <1>21 DEF RivalAcquires, RivalReleases
  <2>2. phase' = phase /\ Claims' = Claims
    BY <2>1, PhaseKept, ClaimsKept
  <2>. QED
    BY <2>1, <2>2 DEF Handoff!Next, Handoff!Rival
<1>22. CASE UNCHANGED vars
  BY <1>22, HandoffStutter DEF vars
<1>. QED
  BY <1>1, <1>2, <1>3, <1>4, <1>5, <1>6, <1>7, <1>8, <1>9, <1>10, <1>11,
     <1>12, <1>13, <1>14, <1>15, <1>16, <1>17, <1>18, <1>19, <1>20, <1>21,
     <1>22 DEF Next, Start, Continue, Factory, Operation, Drain,
     OPFSWorker, Environment

-----------------------------------------------------------------------------
(* A sealed backend stays unavailable whatever is called afterwards        *)
(* (acquireExternalOperation and beginDrain admit in Active only).         *)
THEOREM SealIsFinal == Spec => SealedForGood
<1>1. HandoffInv /\ [Next]_vars => [StaysSealed]_vars
  BY SealKept DEF HandoffInv
<1>. QED
  BY <1>1, HandoffInvariant, PTL DEF Spec, SealedForGood

(* The two drains, with every operation, failure and rival around them,    *)
(* implement the handoff that wasmfs_opfs_profile_drain.h promises.        *)
THEOREM HandoffImplemented == Spec => ImplementsHandoff
<1>1. Init => Handoff!Init
  BY DEF Init, Handoff!Init, phase, Claims
<1>2. HandoffInv /\ [Next]_vars => [Handoff!Next]_(Handoff!vars)
  BY StepImplementsHandoff
<1>. QED
  BY <1>1, <1>2, HandoffInvariant, PTL DEF Spec, ImplementsHandoff, Handoff!Spec
=============================================================================
