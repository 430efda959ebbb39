-------------------------- MODULE MCThreadLibrary --------------------------
(***************************************************************************)
(* The parts of the thread library that share no state with each other,    *)
(* checked in one run.  In a behaviour one of them, the subject, takes     *)
(* steps; the others' variables keep one value.  Variables of the same     *)
(* name in several modules are one variable here.                          *)
(***************************************************************************)
EXTENDS TaskQueue, TLC

CONSTANTS LockWorkers, LockLoops, LockRequests, MaxSignals,    \* WasmLock
          SemWorkers, SemTotal, SemRequests,         \* WasmSemaphore, one size
          SizesWorkers, SizesLoops, Sizes,           \* ... and several
          SizesTotal, SizesRequests,
          Addresses, MaxWaits,                       \* AtomicWaitAsync
          Main, Pthreads, None, MaxSections,         \* MuslLock
          MaxFailures

VARIABLES subject,
          word, sleepers, pc, mode, requests, val,   \* of more than one
          then, seen, left, broadcast,               \* WasmLock
          sem, orphans, num,                         \* WasmSemaphore
          counter, live, pending, resolved, address, \* AtomicWaitAsync
          called, canceled, keepalive,
          needLocks, count, tlLock, new, sections,   \* MuslLock
          failures, overlapped

Lock == INSTANCE WasmLock WITH
    Workers <- LockWorkers, Loops <- LockLoops, MaxRequests <- LockRequests
Semaphore == INSTANCE WasmSemaphore WITH
    Workers <- SemWorkers, Loops <- {}, Sizes <- {1}, Total <- SemTotal,
    MaxRequests <- SemRequests
SizesSem == INSTANCE WasmSemaphore WITH
    Workers <- SizesWorkers, Loops <- SizesLoops, Total <- SizesTotal,
    MaxRequests <- SizesRequests
WaitAsync == INSTANCE AtomicWaitAsync
Musl == INSTANCE MuslLock

ASSUME LibraryAssumption ==
    /\ LockWorkers \subseteq SemWorkers /\ LockWorkers \subseteq SizesWorkers
    /\ Lock!WasmLockAssumption
    /\ Semaphore!WasmSemaphoreAssumption /\ SizesSem!WasmSemaphoreAssumption
    /\ WaitAsync!AtomicWaitAsyncAssumption
    /\ Musl!MuslLockAssumption

lockOnly == <<then, seen, left, broadcast>>
semOnly == <<sem, orphans, num>>
asyncVars == <<counter, live, pending, resolved, address, called, canceled, keepalive>>
muslOnly == <<needLocks, count, tlLock, new, sections, failures, overlapped>>

lockVars == <<word, sleepers, pc, mode, requests, lockOnly>>
semVars == <<sleepers, pc, mode, requests, val, semOnly>>
muslVars == <<word, sleepers, pc, val, muslOnly>>
libraryVars == <<subject, vars, lockVars, semVars, asyncVars, muslVars>>

NoLock == then = 0 /\ seen = 0 /\ left = 0 /\ broadcast = 0
NoSem == sem = 0 /\ orphans = 0 /\ num = 0
NoAsync ==
    /\ counter = 0 /\ live = 0 /\ pending = 0 /\ resolved = 0 /\ address = 0
    /\ called = 0 /\ canceled = 0 /\ keepalive = 0
NoMusl ==
    /\ needLocks = 0 /\ count = 0 /\ tlLock = 0 /\ new = 0 /\ sections = 0
    /\ failures = 0 /\ overlapped = 0
NoShared == word = 0 /\ sleepers = 0 /\ pc = 0 /\ mode = 0 /\ requests = 0 /\ val = 0

LibraryInit ==
    /\ Init
    /\ \/ subject = "queue" /\ NoShared /\ NoLock /\ NoSem /\ NoAsync /\ NoMusl
       \/ subject = "lock" /\ Lock!Init /\ val = 0 /\ NoSem /\ NoAsync /\ NoMusl
       \/ subject = "semaphore" /\ Semaphore!Init /\ word = 0 /\ NoLock /\ NoAsync /\ NoMusl
       \/ subject = "sizes" /\ SizesSem!Init /\ word = 0 /\ NoLock /\ NoAsync /\ NoMusl
       \/ subject = "async" /\ WaitAsync!Init /\ NoShared /\ NoLock /\ NoSem /\ NoMusl
       \/ /\ subject = "musl" /\ Musl!Init
          /\ mode = 0 /\ requests = 0 /\ NoLock /\ NoSem /\ NoAsync

QueueNext ==
    /\ subject = "queue" /\ Next
    /\ UNCHANGED <<subject, lockVars, semVars, asyncVars, muslVars>>
LockNext ==
    /\ subject = "lock" /\ Lock!Next
    /\ UNCHANGED <<subject, vars, val, semOnly, asyncVars, muslOnly>>
SemaphoreNext ==
    /\ subject = "semaphore" /\ Semaphore!Next
    /\ UNCHANGED <<subject, vars, word, lockOnly, asyncVars, muslOnly>>
SizesNext ==
    /\ subject = "sizes" /\ SizesSem!Next
    /\ UNCHANGED <<subject, vars, word, lockOnly, asyncVars, muslOnly>>
AsyncNext ==
    /\ subject = "async" /\ WaitAsync!Next
    /\ UNCHANGED <<subject, vars, lockVars, semVars, muslVars>>
MuslNext ==
    /\ subject = "musl" /\ Musl!Next
    /\ UNCHANGED <<subject, vars, mode, requests, lockOnly, semOnly, asyncVars>>

LibraryNext ==
    QueueNext \/ LockNext \/ SemaphoreNext \/ SizesNext \/ AsyncNext \/ MuslNext

LibrarySpec == LibraryInit /\ [][LibraryNext]_libraryVars

(* The workers are interchangeable, wherever they appear, and the pthreads. *)
Symmetry == Permutations(LockWorkers) \cup Permutations(Pthreads)

-----------------------------------------------------------------------------
(* emscripten_lock lets one thread in: its word is 1 exactly when a thread *)
(* holds it, through condition waits that end with or without it.          *)
LocksExclude == subject = "lock" => Lock!LockWordIsTruthful

(* musl's __lock excludes as threads come and go, because need_locks is    *)
(* set while a second one runs: creations may fail and exits may compete,  *)
(* in any order with creations.  RESTRICTION: only until a creator's       *)
(* update of libc.threads_minus_1, which it makes outside of the thread    *)
(* list lock (pthread_create.c:235 and :249), has overlapped the update of *)
(* another thread.  After that the code breaks it: MuslLockRace.cfg.       *)
LibcLockExcludes ==
    subject = "musl" =>
        (~overlapped => Musl!MutualExclusion /\ Musl!NeedLocksWhileThreaded)

(* No wake-up is lost: nobody sleeps for a free lock (the one notification *)
(* of emscripten_lock_release), nor for instances that are there           *)
(* (emscripten_semaphore_release, with requests of one size and no         *)
(* asynchronous acquirer), nor for libc's lock (the futex wake of musl's   *)
(* __unlock), which has the restriction above.                             *)
NoStrandedSleeper ==
    /\ subject = "lock" => Lock!NoStrandedSleeper
    /\ subject = "semaphore" => Semaphore!NoStrandedAcquirer
    /\ subject = "musl" => (~overlapped => Musl!NoSleeperForgotten)

(* emscripten_condvar_signal to all reaches every thread that has released *)
(* its lock to wait.                                                       *)
BroadcastReachesWaiters == subject = "lock" => Lock!BroadcastReachesWaiters

(* emscripten_semaphore makes and loses no instances, for requests of one  *)
(* size and of several.                                                    *)
InstancesConserved ==
    /\ subject = "semaphore" => Semaphore!InstancesConserved
    /\ subject = "sizes" => SizesSem!InstancesConserved

(* emscripten_atomic_wait_async answers once, a canceled wait never, and   *)
(* keeps the runtime alive at least until then.                            *)
CanceledWaitIsSilent ==
    subject = "async" => WaitAsync!CanceledWaitIsSilent /\ WaitAsync!KeptAliveForWaits
=============================================================================
