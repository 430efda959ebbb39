# Verification of WasmFS handles and leases, and of the pthread runtime

This directory holds TLA+ models of REmscripten, checked with TLC and proved
with TLAPS.  The modelled parts:

* the *OPFS profile lease*, which this fork adds to Emscripten, with its scoped
  and terminal drains and the retirement of the dedicated Worker;
* the *descriptor table* of WasmFS and the shared browser handles of OPFS files;
* the *proxying stack*, by which pthreads make calls to each other: proxying
  queues, task queues, mailboxes and the event loop's notifications;
* the *main thread's waits*, which spin and run the system queue meanwhile;
* the *life of threads*: creation, exit, join, detach, the pool of Workers;
* the *thread library*: Wasm Workers' locks, condition variables and semaphores,
  asynchronous waits, and libc's own lock.

## The system

REmscripten is an Emscripten tree: a compiler driver, system libraries compiled
to WebAssembly, and JavaScript libraries linked into the program.

| Part | State it keeps | Operations | Hard behaviour |
|---|---|---|---|
| `WasmFS` (`wasmfs.cpp`) | `terminalState`, `activeOperations`, `scopedProfileDrainInProgress`, the reservation of the lease owner, the backend table | `Operation`, `admitBackend`, `addBackend`, `terminalDrain`, `drainOPFSProfileBackend` | two kinds of drain, concurrent with any operation |
| `ProfileLeaseState`, `OPFSBackend` (`opfs_backend.cpp`) | the lease state, external tokens, internal operations, the draining thread, the destructor gate | acquire, `beginDrain`, `finishDrain`, `finishScopedDrain`, retirement | a seal set while threads are inside |
| `OPFSFile`, `OpenState` | handle kind, open count, lazy file id | open, read, write, flush, close, move | a close that fails poisons the wrapper |
| `FileTable`, system calls | descriptors, aliases, record locks | open, close, dup, `detachBackend`, `detachAll` | descriptor looked up before it is used |
| `ProxyWorker` (`thread_utils.h`) | queue, pthread, fence, heartbeat flag | constructor, proxy call, fence, abandon, retire, destructor | cancel, join and clean-up across three threads |
| OPFS JavaScript (`libwasmfs_opfs.js`) | the lock request, handle allocators | acquire, prepare, release and retire | an interrupted asynchronous transaction |
| `PThread` (`libpthread.js`) | running and unused Workers, retirement tickets | spawn, clean up, return to the pool, retire | messages that arrive late |
| pthread runtime (`system/lib/pthread`) | task queues, mailboxes, proxying contexts, futex words | enqueue, execute, notify, wait, wake, exit, join | lost wake-ups, freed queues, shut-down |
| files, directories, paths, other backends | the tree, per-file mutexes | POSIX calls | lock order |
| main-thread waits (`emscripten_futex_wait.c`, musl mutexes) | mutex words, waiter counts, `_emscripten_main_thread_futex`, `system_queue_in_use` | lock, timed lock, unlock, wait, wake, yield, execute the system queue | functions that run on top of a wait, and lock in turn |
| thread life cycle (`pthread_create.c`, `pthread_join.c`, `libpthread.js`) | `detach_state`, thread list, blocks, Workers, messages | create, exit, join, detach, cancel, clean up | memory freed by whoever comes last |
| thread primitives (`emscripten_thread_primitives.c`, `libwasm_worker.js`, `libatomic.js`, `__lock.c`) | lock words, counters, live waits, `need_locks` | acquire, release, wait, signal, cancel | one notification for many sleepers |
| dynamic linking, allocators, browser APIs, compiler driver | - | - | see "What is not modelled" |

How the parts interact.  An application pthread enters WasmFS through
`Operation` (counted under `operationMutex`), asks the backend for a token
(`acquireExternalOperation`, under the lease mutex), locks the file and calls it
(`InternalOperation`), and the file proxies to the dedicated Worker, whose JS
realm owns the `SyncAccessHandle`s and the Web Lock.  A drain closes the doors in
the opposite order: it seals the lease, waits for the tokens, flushes libc's
buffers, detaches and closes descriptors, closes the gate for destructors, has
browser main fence the Worker so that it is not pooled, checks that nothing is
live, releases the lock in one transaction of the Worker, and cancels, joins and
cleans up that Worker.  Every one of these steps may fail, and the drain must
report what it reached.

What makes it correct: no use of the storage without the lock; no admitted work
refused; one drain at a time; a seal that is final; a Worker that outlives its
users and is never pooled; result records that are true; drains that return.

Every proxied call above goes through the proxying stack.  The caller puts a
task in the task queue that the proxying queue keeps for the target
(`em_task_queue_send`), the task queue announces itself by a message in the
target's mailbox (`emscripten_thread_mailbox_send`), and the mailbox by an event
for the target's event loop (`Atomics.notify` or `postMessage`).  A flag at each
of the last two levels keeps a second announcement from being sent while one is
on its way.  The target may exit at any point; it then closes its mailbox, waits
for senders that hold it, and cancels what is left.  What makes the stack
correct: no announcement is lost; a mailbox or a queue is not freed under anyone
who still uses it; a context is settled exactly once; a call runs at most once
and its caller hears the truth, or at least hears something.

A descriptor names an `OpenFileState`, which several descriptors may share; each
open state owns one open of its file, and all opens of an OPFS file share one
browser handle, a Blob for readers and an AccessHandle as soon as somebody
writes.  What makes it correct: every open has one owner at any time, aliases,
full tables, failed truncations and drains included; the browser holds exactly
the handle the file's state says.

The main browser thread may not sleep.  Its waits spin and run the system
proxying queue, so arbitrary proxied functions run on top of a wait, with the
locks held below them.  What makes it correct: it never waits for a lock it
holds; a wake-up reaches somebody who will take the lock; calls return.

A thread's block is freed once, after everybody has stopped using it, and its
Worker is pooled after that.  A lock or semaphore in shared memory has one word
and a list of sleepers; no order of releases, timeouts and newcomers may leave a
sleeper behind.

## Modules

| Module | Contents |
|---|---|
| `ProfileHandoff` | the abstract specification: owner, phase, admitted threads, claims on the storage |
| `ProfileDrain` | the protocol: state, one action per atomic step of the code, properties, the refinement mapping |
| `ProfileDrainInvariants` | the inductive invariants `HandoffInv` and `RetirementInv` as named parts |
| `MCProfileDrain` | the instance for TLC: symmetry of threads and files |
| `ProfileDrainSafety` | type correctness; both are inductive; six safety theorems |
| `ProfileDrainRefinement` | a seal is final; `ProfileDrain` implements `ProfileHandoff` |
| `TaskFifo` | the abstract specification of a task queue: a sequence |
| `TaskQueue` | the ring buffer of `em_task_queue.c`: indices, wrap, growth |
| `TaskQueueProofs` | the ring buffer implements `TaskFifo` |
| `RemoteCall` | the abstract specification of a call: what `emscripten/proxying.h` promises |
| `Proxying` | calls, task queues, mailboxes, contexts, exit, struct reuse; implements `RemoteCall` |
| `MCProxying` | the instance for TLC: symmetry of clients and of queues |
| `ProxyingProofs` | six theorems about `Proxying`, the refinement of `RemoteCall` among them |
| `FileTable` | descriptors, open file states, open counts and handles of OPFS files, record locks, both drains |
| `FileTableProofs` | five theorems about `FileTable`, from the inductive invariant `FileTableInv` |
| `MainThreadWait` | musl's mutex, the main thread's futex wait, the system queue run inside it |
| `MainThreadProofs` | four theorems about `MainThreadWait`, with its inductive invariants |
| `ThreadLifecycle` | blocks, `detach_state`, Workers and their messages |
| `ThreadLifecycleProofs` | two theorems about `ThreadLifecycle`, from the inductive invariant `LifecycleInv` |
| `WasmLock` | `emscripten_lock_*` and `emscripten_condvar_*`, also asynchronous |
| `WasmSemaphore` | `emscripten_semaphore_*`, also asynchronous |
| `AtomicWaitAsync` | `emscripten_atomic_wait_async` and its cancellation |
| `MuslLock` | `__lock`, `__unlock`, `need_locks` and `threads_minus_1` |
| `MCThreadLibrary` | `TaskQueue`, the two locks, the semaphore and the asynchronous waits in one instance: a behaviour picks one of them and runs it |
| `ThreadLibraryProofs` | six theorems about the locks, semaphores and asynchronous waits, from the inductive invariant `LibraryInv` |

### How `ProfileDrain` corresponds to the code

A step is what the code does under one mutex, or one proxied call: the atomicity
is that of the critical sections, so everything the code does between two locks
can interleave.  `pc[t]` names where a thread is:

* `acquire`, `install`: `wasmfs_create_opfs_backend_with_profile_lease`;
* `admitted`, `token`, `inside`, `leave`, `untoken`, `release`: one public
  operation, from `Operation`'s constructor through `admitBackend`, the file's
  mutex, the virtual call, and the two destructors;
* `begin`, `opWait`, `quiesce`, `libc`, `detach`, `close`, `finalize`, `gate`,
  `gateWait`, `fence`, `preflight`, `finish`, `txn`, `retire`, `join`, `poll`,
  `end`: a drain.  The scoped drain seals first (`begin`, `quiesce`, `libc`,
  ...); the terminal drain waits for operations, flushes and closes everything,
  and seals in the finalizer of the lease owner (`opWait`, `libc`, `detach`,
  `close`, `finalize`, `quiesce`, `gate`, ...);
* `destroy`: a wrapper's destructor that proxies to the Worker.

The Worker (`ReleaseLock`, `ReleaseRejected`, `ResetContext`, `WorkerExit`),
browser main (`CleanupThread`) and the environment (`InterruptTransaction`,
`RivalAcquires`, `RivalReleases`) are separate actions.

Abstractions:

* a counter with at most one unit per thread is the set of those threads; the
  counter of `ProfileLeaseState` is `external` and `internal` together;
* one leased backend: the code reserves only one, and the drain hooks of an
  ordinary backend do nothing;
* bytes are a set of dirty files and a FILE buffer that is empty, has bytes from
  before the drain (`early`), or bytes that arrived after it (`late`), which the
  drain's header does not promise to save;
* an application that closes a file without `fsync` gives up its unflushed
  bytes, and so does an open that is abandoned;
* one open-file state per file: `openCount`, aliases and read-only Blobs are in
  `FileTable`, moves are left out;
* the file mutex is a test (`FileLocked`) and not a queue;
* a drain is called on a pthread outside any operation; the code's `EDEADLK` and
  `EAGAIN` returns for other callers change nothing;
* the code handles a refused fence, a failed cancel, a rejected release, an
  interrupted transaction and a clean-up that is too late.  Each of them is a
  nondeterministic outcome.  An interruption may come before or after the
  browser released the lock; a rejection leaves the lock with its owner;
* `AcquireFails` is one step, cancellation and join of its Worker included; a
  heartbeat interval that survives its queue is remembered in `staleHeartbeat`;
* `fflush(NULL)` is one step: nothing can be admitted in between, and a late
  write does not matter to the properties;
* fault-injection builds (the `..._TEST` macros) are left out.

Some code is unreachable in the model, and the properties say why: an
`InternalOperation` never refuses an admitted thread (`AdmittedIsNeverRefused`),
the lease is still Sealing when the drain finishes (`DrainHoldsSeal`), and
`witness`, the transaction that finds a live handle, needs a preflight that
missed it.  The actions keep these branches.

### How `TaskQueue` corresponds to the code

`tasks`, `head`, `tail` and `capacity` are the fields of `em_task_queue`; a slot
that was never written holds `Uninitialized`.  Every action runs under the
queue's mutex.  Growing copies the queued tasks to the front of a buffer of
twice the size, in the two chunks of the code, and is one action with the
enqueue it precedes; a failed allocation leaves the queue alone.  The first
allocation has `InitialCapacity` slots (128 in the code), and `MaxCapacity`
stands for the memory there is.

### How `Proxying` corresponds to the code

What runs under a mutex, and each atomic instruction, is one step; everything in
between interleaves.  In `Proxying` a task queue is a sequence, which `TaskQueue`
justifies.

* `send[t]` is the `em_task_queue_send` a thread is in, with its next step:
  `lookup` (`get_or_add_tasks_for_thread`), `ref`, `enqueue`, `exchange` (the
  queue's flag), `post` (the mailbox message), `exchangeMailbox` (the mailbox's
  flag), `notify` (the event), `unref`.  `SendSucceeds` and `SendFails` are what
  the entry points do with its result.
* `pc[t]` is where a thread's event loop is: `check`, `mail` and `mailCas` are
  `checkMailbox` and `_emscripten_check_mailbox`; `receive`, `drain`, `run`,
  `finish` and `cas` are `receive_notification` and `em_task_queue_execute`;
  `waiting` is a synchronous caller; `exit`, `closing`, `cancelMail`,
  `cancelTasks` and `dtors` are `_emscripten_thread_exit` with the mailbox's
  shut-down and the destructor `cancel_active_ctxs`.
* `life[t][q]` is a task queue's life: in use, on the zombie list, freed.

Abstractions:

* of a call only its kind, its threads and its outcome are kept; `promise` calls
  are `callback` calls, as they are in the code;
* a caller's stack-allocated context (`sync`) and a heap-allocated one
  (`callback`) are both `ctx[c]`; `freed` means that nobody may touch it;
* a message relayed through the main thread is a count of events on their way to
  the Worker; their order does not matter, because they carry nothing;
* a reused pthread struct runs on the same Worker, which keeps its outstanding
  `waitAsync`, or on another;
* calls go from clients to servers, so callers do not wait for each other;
* `DestroyQueue` is called once no entry point is executing on the queue and its
  contexts are settled (asynchronous calls may still be queued), as the code's
  callers must; `ExecuteQueue` is called from user code at the event loop;
* a failed allocation while posting to the mailbox aborts the program and is left
  out; so is the argument marshalling of `_emscripten_run_js_on_main_thread`; the
  execution of the system queue inside blocking calls is in `MainThreadWait`.

### How `FileTable` corresponds to the code

`entries`, `states` and `files` are the table, the `OpenFileState`s and the
`OPFSFile`s with their `OpenState`; `access` and `blob` count what the browser
holds.  A step is what happens under the table's or a file's lock: an open is
admission, `CreateState` (the physical open), `Truncate`, `Install`, and
`CloseFile` when there is no free slot or the truncation failed; `close` and
`dup3` clear the slot and close the file in a later step.  A thread that was
admitted to the leased backend holds a token, and the profile's drain waits for
it; the terminal drain waits for every call.  Both detach in slot order and
close one file at a time, while (in a profile's drain) calls on the other
backend go on.

An open state is an address of `OpenStates`: `std::make_shared` takes any that
is not in use, and the last slot that lets go of it frees it.  A drain that
detaches the whole table leaves every slot empty, and each file is to be closed
once, by the first slot of its open state (`closees`).  A refused or failing call that
changes nothing is no step.  A standard stream and an end of a pipe are
`Special`: their open and close do nothing.  `late` is history: it marks a
record lock that an `fcntl` applied after the last descriptor had been closed.
Record locks are a set of files, without ranges.  Offsets, directories, poll
and the calls that only look a descriptor up are left out.

### How `MainThreadWait` corresponds to the code

A thread is a stack of frames, one per function it is in: `lock` and `unlock`
(musl's normal mutex: try, spin and read, count in, set the sign bit, wait,
count out), `proxy` and `send` (`do_proxy`, `em_task_queue_send`), `execute` and
`run` (`emscripten_proxy_execute_queue`, `em_task_queue_execute`), and a section
that stands for `malloc` or for code of the program.  A worker's wait is
`atomic.wait`; Main's is `MainRegister`, `MainYield`, which pushes an execution
of the system queue, `MainCheck`, and, with a time limit, `MainTimeout`.  A wake
goes to Main first if the address is in the register.  `Growers` are the threads
that may find their target's task queue full and call `malloc` under its mutex.

### How `ThreadLifecycle` corresponds to the code

A pthread is its block.  `Create` allocates and lists it, and `Spawn` (on the
main thread), `ProxySpawn` (synchronously) or `PostSpawn` (as a message, for
OffscreenCanvases) finds it a Worker, or fails.  `Exit`, `ExitUnlist`, `ExitCas`, `ExitPublish`
and `ExitWake` are `_emscripten_thread_exit`; the last wakes an address after the
block may be gone.  `Join...` is `__pthread_timedjoin_np`, which has the block
cleaned up by a message to the main thread (`HandleCleanup`).  Freeing zeroes the
block, and `DT_EXITED` is zero.  Programs follow POSIX: one caller joins or
detaches a thread.  `strict` is a build option, so a variable that never changes.

### How the thread library corresponds to the code

In `WasmLock` and `WasmSemaphore` each atomic instruction is a step, a sleeper is
a member of a set, and `atomic.notify` takes any one (or all) of them out.
`mode` is which of the acquiring functions a thread called, so that all of them
meet on one word.  The counter of the condition variable is unbounded in the
model: it wraps after 2^32 signals.  In `AtomicWaitAsync` a wait goes from
`pending` (the browser's list) to `resolved` (a promise whose callback has not
run) to `called`.  In `MuslLock` the word is the pair of what its sign bit and
its low bits say, with arithmetic modulo 2^32; a `threads_minus_1` update is a
read and a write.  Threads create and exit at any time, as in the code; creators
do not hold the thread list lock for their updates (`pthread_create.c:235` and
`:249`), exiting threads do.  `overlapped` is a history variable: no guard reads
it, and it becomes true when a creator's update overlaps another thread's.  From
then on an update may be lost, and the properties of libc's lock claim nothing
(observation 6).  `MaxFailures` bounds the creations that fail.
`InstancesConserved` counts: the semaphore's word and
the instances acquired and not released add up to what it was initialised with.

## Runs

| Run | Module, bounds | Checks | Result |
|---|---|---|---|
| `profile_drain` | `MCProfileDrain`, 3 threads, 1 file | `AdmittedIsNeverRefused`, `ProxyTargetAlive`, `WorkerQuarantined`, `DrainHoldsSeal`, `StorageGuardedByLock`, `ResultTruthful`, `SealedForGood`, `ImplementsHandoff` | holds, 576 240 states |
| `profile_liveness` | `MCProfileDrain`, 2 threads, 1 file, no symmetry | `DrainReturns`, `SealResolved` under `FairSpec` | holds, 88 988 states |
| `profile_write_race` | `MCProfileDrain`, 2 threads, 1 file | `WriteHasAccessHandle` | violated (finding 1) |
| `file_table` | `FileTable`, 2 threads, 3 descriptors (1 of them a standard stream), 3 addresses, a leased and an ordinary file | `OpenCountExact`, `HandleMatchesKind`, `WritableHasAccess`, `LocksHaveDescriptor`, `DrainedIsClosed` | holds, 1 411 398 states |
| `thread_library` | `MCThreadLibrary`: a ring buffer from 2 to 8 slots; a lock with 2 workers and 1 event loop; a semaphore with 3 workers and one size, or 2 workers, 1 event loop and sizes 1 and 2; 3 asynchronous waits; libc's lock with 3 threads, 2 sections each and 1 failed creation | `QueuedSlotsWritten`, `IsFifo`, `LocksExclude`, `LibcLockExcludes`, `NoStrandedSleeper`, `BroadcastReachesWaiters`, `InstancesConserved`, `CanceledWaitIsSilent` | holds, 1 499 258 states |
| `proxying_calls` | `MCProxying`, 2 clients, 2 queues, 1 server that may exit and whose struct is reused once, 2 calls | `MailboxOpenWhileHeld`, `WorkIsAnnounced`, `QueueOutlivesNotification` | holds, 870 931 states |
| `proxying_faults` | `MCProxying`, 1 client, 1 server, 2 calls of all kinds, failing allocations, exit in a task, no `waitAsync` | `TypeOK`, `ContextHasOneHolder`, `KeepsPromise` | holds, 376 602 states |
| `proxying_liveness` | `MCProxying`, 1 client, 1 server, 2 calls, both may exit | `SyncCallReturns`, `ContextIsFreed` under `FairSpec` | holds, 131 571 states |
| `main_thread` | `MainThreadWait`, Main and 1 worker, 1 and 2 calls, 1 call from inside a proxied function, a timed user mutex, the worker may find a queue full | `NoSelfDeadlock`, `RegisterIsSingle`, `TasksDoNotNest`, `NoStrandedWaiter`, `EveryCallReturns` under `FairSpec`, deadlock | holds, 93 984 states |
| `main_thread_grow` | `MainThreadWait`, the same with Main finding a queue full | `NoSelfDeadlock` | violated (finding 2) |
| `thread_lifecycle` | `ThreadLifecycle`, 3 blocks, 3 Workers, 2 pooled, strict and open pool, posted creations, timed joins | `CleanedUpOnce`, `BlocksInUseAreLive` | holds, 620 000 states |
| `thread_lifecycle_liveness` | `ThreadLifecycle`, 2 blocks, 2 pooled Workers, cancellation | `JoinReturns`, `DetachedIsFreed` under `FairSpec` | holds, 51 000 states |

Why these bounds.  Three threads let a drain, an operation and a destructor
overlap, or two drains and an operation; a fourth repeats one of these roles.
Nothing else is bounded: the
lease is used at most once in a program's life, so the state space is finite
without counters.  Threads and files are interchangeable, so symmetry is sound
in the safety runs; the liveness run does without.  The theorems below remove
the bounds for everything they cover.

In the proxying runs two calls are enough for one to be queued while another is
sent, executed, answered or cancelled, which is where the two flags meet; a
second client lets two sends overlap at every step.  One reused struct is enough
for a new thread to meet what an old one left; a second queue makes the runtime
look through its zombies while the first one is one of them.  A ring buffer of two slots grows
twice on the way to eight, with every head, and then fails to grow.

Three descriptors hold an open state and its alias with one more to replace, or
none to spare; two threads put every pair of calls, and a call and a drain, side
by side.  The table's run has no other bound that bites: every open state has a slot, so
three addresses are enough for three slots, and counts are bounded by slots and
threads.  With one worker `main_thread` has each
pair of a wait and a wake, and waits of Main nested two deep; the call inside a
proxied function is the third level.  A wake-up can only be lost to somebody else
who waits, in `main_thread` that is Main; with a second worker,
`MainThreadWorkers.cfg` checks `NoStrandedWaiter` beside the runs (629 045 states), and
its theorem covers any number.  Three blocks let a thread create or join
another while a third reuses memory.  The primitives need two contenders and a
third party that takes or signals in between.  Symmetry permutes threads,
workers, queues, blocks and Workers that the specification treats alike, in runs
without liveness properties only.

Deadlock is checked in the profile runs and in the two runs of the main thread.
The others do not check it: a program may have made its last call.  In the
profile runs the application may always call a drain that
is refused, so this says little; `DrainReturns` is the property about waiting.

Fairness.  `FairSpec` has weak fairness for every thread that is inside a call
(a pthread that is not blocked runs), for the Worker (its event loop, or the
50 ms heartbeat, executes its queue) and for `CleanupThread` (browser main
handles its messages).  Nothing obliges the application to start calls, the
rival to take the lock, or a transaction to be interrupted.  The file mutex is
not fair, so liveness is stated for drains: their waits are for conditions that,
once doors are closed, only move one way.

`FairSpec` of `Proxying` has weak fairness for each thread's own steps (a thread
that is not blocked runs, and an event loop takes the events that arrived) and
for `FinishLater` (a function that keeps its context finishes it one day; the
header obliges it to).  Nobody is obliged to make calls or to exit.

`FairSpec` of `MainThreadWait` has weak fairness for each thread inside a call:
Workers run in parallel and Main spins.  Time need not pass.  `FairSpec` of
`ThreadLifecycle` has weak fairness for threads, Workers and the main thread's
event loop, and strong fairness for a thread's end: whatever a thread's function
does, it returns, although joins and creations may occupy it again and again.

## Properties and the hazards behind them

* `StorageGuardedByLock`: while a thread is in a file operation, a handle is
  live, or bytes handed over before a drain are not durable, the lock is ours.
* `AdmittedIsNeverRefused`: a token from before the seal, and the drain itself,
  pass `InternalOperation` while Sealing.
* `DrainHoldsSeal`: one drain, and it owns the seal until its transaction ends.
* `SealedForGood`: no step gives a sealed backend a token, descriptor or handle.
* `ProxyTargetAlive`: who proxies to the Worker finds it running, destructors
  included.
* `WorkerQuarantined`: the interval is cleared before the pthread is cancelled,
  and a realm that held a profile is never pooled.
* `ResultTruthful`: what a caller may conclude from a result record.
* `ImplementsHandoff`: refinement of `ProfileHandoff`.
* `DrainReturns`, `SealResolved`: drains end, seals are resolved.
* `IsFifo`: refinement of `TaskFifo`; `QueuedSlotsWritten`: no wrap and no
  growth puts a slot that was never written between head and tail.
* `WorkIsAnnounced`: whatever is in a task queue or a mailbox, somebody is bound
  to look at it, through both flags and the event.
* `MailboxOpenWhileHeld`: a mailbox is destroyed after its last sender let go.
* `QueueOutlivesNotification`: a destroyed queue is freed when nothing refers to
  it.
* `ContextHasOneHolder`: a pending context has one owner, a settled one none.
* `KeepsPromise`: refinement of `RemoteCall`.
* `SyncCallReturns`, `ContextIsFreed`: callers hear, and memory is returned.
* `OpenCountExact`: `openCount` is the number of open states, calls and drains
  that owe the file a close.  A full table or a failed truncation loses none.
* `HandleMatchesKind`: the browser holds the handle and the file id that the
  file's kind says, and no other.
* `WritableHasAccess`: a file with a writable descriptor has an AccessHandle,
  whoever else opened or closed it.
* `LocksHaveDescriptor`: closing any descriptor of a file drops its record locks.
* `DrainedIsClosed`: a drain leaves no alias, no open and no call that could
  open one of its files again.
* `NoSelfDeadlock`: no thread waits for a mutex held further down its own stack.
* `RegisterIsSingle`: the assertions on `_emscripten_main_thread_futex`.
* `TasksDoNotNest`: a task queue is not executed inside its own execution.
* `NoStrandedWaiter`: when a mutex is free, a waiter will look at it.
* `EveryCallReturns`: locks, sends and executions end, nested ones too.
* `CleanedUpOnce`, `BlocksInUseAreLive`: one clean-up per thread, and nobody
  (runner, list walker, joiner) uses a freed block.
* `JoinReturns`, `DetachedIsFreed`: joiners are woken, detached threads freed.
* `LocksExclude`: mutual exclusion of `emscripten_lock`, also through condition waits.
* `LibcLockExcludes`: mutual exclusion of libc's lock, and `need_locks` is set while
  a second thread runs.  Restricted: it claims nothing once a creator's update of
  `threads_minus_1` has overlapped another thread's, since the code then breaks it.
* `NoStrandedSleeper`: no lost wake-up, for `emscripten_lock`, for the semaphore with
  requests of one size and no asynchronous acquirers (observation 10 is why), and,
  with the same restriction, for libc's lock.
* `BroadcastReachesWaiters` for condition variables; `InstancesConserved` for
  semaphores of any sizes.
* `CanceledWaitIsSilent`: a wait is answered once, a canceled one never, and the
  runtime stays alive at least for the waits to be answered (that all keep-alives
  are given back is not claimed: observation 8).

Each has a mutant, next to the definition it replaces, that breaks it.

## Proofs

The profile theorems hold for any sets `Threads` and `Files`; the only assumptions are
that the null values are no members (`ThreadsAssumption`, `FilesAssumption`).

* `TypeCorrect`: `Spec => []TypeOK`, one lemma per group of actions.
* `HandoffInvariant`: `Spec => []HandoffInv`.  None of the safety properties is
  inductive alone.  `StorageGuardedByLock` needs to know, when the Worker
  releases the lock, that the drain that asked for it has closed everything and
  recorded no error; hence the chain of parts:
  `CallMatchesPC` (a place determines the call), `OneDrain` (the two flags),
  `OneLeaseOwner` (the reservation), `TokensMatchPC` (who holds what, where),
  `SealMatchesDrain` (a sealed lease has one drain at a known place, and no
  token once it has an owner), `LockMatchesTxn` (the lock follows the
  transaction), `HandlesReachable` (an open handle can be found by whoever must
  close it), `DirtyAccounted` (unflushed bytes are in an open handle or in the
  drain's error), `DrainProgress` (what a drain without error has established),
  `TableNeedsLease`.  One lemma per part shows that every step preserves it.
  Four lemmas carry the argument: `TokenMeansLock`, `DrainAdmitted`,
  `SealedMeansClosed`, `TransactionIsClean`.
* `StorageIsGuarded`, `SealIsExclusive`, `AdmissionIsHonoured`: the three
  properties above, from `HandoffInv`.
* `RetirementInvariant`: `Spec => [](HandoffInv /\ RetirementInv)`, for what comes
  after the seal.  `WorkerMatchesLease` (the Worker runs as long as the lease is
  live, and is cancelled only in a retirement), `HeartbeatMatchesTxn` (a finished
  transaction has cleared the interval and found no handle), `GateMatchesDrain`
  (behind the closed gate no destructor is left), `ResultMatchesDrain` (what a
  drain has written into its record, at each of its places), `DrainedForGood`.
  `StepsGoForward` states what no step undoes: a release, a retirement, a terminal
  drain, and the quiet that waiting for the admitted operations established.
  A record is compared with that, step by step.
* `WorkerOutlivesItsUsers` (`ProxyTargetAlive`), `RealmIsQuarantined`
  (`WorkerQuarantined`) and `ResultsAreTrue` (`ResultTruthful`) follow.  The branch
  of the transaction that finds a live handle is never taken: `HeartbeatMatchesTxn`
  shows it is only a defence.
* `SealIsFinal`: `Spec => SealedForGood`.
* `HandoffImplemented`: `Spec => ImplementsHandoff`, with `phase` and `Claims` as
  the refinement mapping; every action is a step of `ProfileHandoff` or leaves
  its variables alone.

* `RingIsFifo`: `Spec => IsFifo` for `TaskQueue`, for every set of tasks,
  positive initial capacity and memory bound (`CapacityAssumption`).  The invariant is `TypeOK` (the
  indices are below the capacity) with `QueuedSlotsWritten`; what the abstract
  queue holds is read off the buffer between head and tail, and each operation
  is shown to append, to take the head, or to leave that sequence alone, growth
  included.  `NoUninitializedTask` is the invariant's second half.

The thread library's theorems hold for any finite sets of workers, event loops,
waits and pthreads (fewer than 2^31 threads for libc's lock, which counts them in its
word), any semaphore total and any set of positive request sizes
(`LibraryAssumption` and the assumptions of the instantiated modules).  `LibraryInv`
has one part per primitive, since a behaviour of `MCThreadLibrary` runs one.

* `LocksAreExclusive`: `LocksExclude`.  For the Wasm Workers lock `LockOwned` says
  that the word is 1 exactly while one thread is between its compare-and-exchange
  and its release, `LockReturns` where a thread goes on after a release or a signal
  (a condition variable's waiter gives the lock up and takes it again),
  `LockSleepers` who may be asleep on which word.
* `LibcLockIsExclusive`: `LibcLockExcludes`, with its restriction.  `MuslWord` says
  that the count in the word is the number of threads in
  `__lock` and in the section, and that a thread in the section without the lock
  is the main thread, alone; this needs `MuslLibc`, which relates
  `need_locks` and `threads_minus_1` to the pthreads that exist, also in the
  middle of an update.  Both hold while `overlapped` is false: one thread at most is
  then between its read of the count and its store to the flag, because the step that
  would make it two sets `overlapped`, and two exits exclude each other by the thread
  list lock.  After an overlap only the types are left.
* `NoWakeupIsLost`: `NoStrandedSleeper`.  For the lock (`LockWakes`): when the word
  is 0 and somebody sleeps, a thread is awake that will try again or notify.  For
  the semaphore with requests of one size (`SemWakeInv`) it is a count: while
  somebody sleeps, each free instance has a thread on its way to take it or to
  notify.  For libc's lock it is a part of `MuslWord`, so it has the restriction.
* `BroadcastIsComplete`: `BroadcastReachesWaiters`; what a waiter has read of the
  counter is no newer than its value when the waiter released the lock
  (`CondvarRead`).
* `SemaphoreConserves`: `InstancesConserved`, for requests of one size and of several.
* `AsyncWaitsAnswerOnce`: `CanceledWaitIsSilent`, from `AsyncUnanswered` (a wait
  that is live or canceled has not been answered) and the count of keep-alives.

The table's theorems hold for any finite sets of threads and open states, any
sets of files, any `FdMax > 0` and any number of standard streams up to it
(`FileTableAssumption`).  `FileTableInv` is the conjunction of `TypeOK`, the four
properties, and

* `TableInv`: `uses` is the number of slots that name the open state, and an open
  state without a slot is gone.  Without it the last close of an alias is not
  known to be the last;
* `CallInv`: a call past its beginning has a file, and on a leased file it holds
  its token until its end.  Without it a drain that waited for tokens knows
  nothing of calls;
* `DrainInv`: one drain, of a scope that is sealed, with nothing to close outside
  its closing phase;
* `ScopesClear`: from its detaching on, a scope has no descriptor and no call; a
  drained one has no open either.

The counting is in a few lemmas: `SetEntryFacts` and `AddNewFacts` (what a slot
that changes does to `uses` and to the open states of a file), `ClosedOnce` (a
bijection between the slots that close a file after a detaching and the open
states that are gone), `OwnersOfOne` (a file whose count is 1 has no owner
but the one that closes it).  The theorems are `OpensAreCounted`
(`OpenCountExact`), `HandlesAreAccounted` (`HandleMatchesKind`),
`WritersHaveAccess` (`WritableHasAccess`), `LocksFollowDescriptors`
(`LocksHaveDescriptor`) and `DrainsCloseEverything` (`DrainedIsClosed`).

The thread life cycle's theorems hold for any finite set of blocks and Workers, any
size of the pool and any bound on creations, strict and open pool
(`LifecycleAssumption`).  `LifecycleInv` is the conjunction of `TypeOK` and

* `WorkersInv`: `PThread.pthreads` and `pthread_ptr` agree, a pooled Worker has no
  thread, and a Worker is sent only the thread it has, before that runs;
* `StatesInv`: what `detach_state` and the thread list say.  A block in use says
  `DT_EXITED` only after its thread has left the Worker, although a freed block says
  so as well;
* `FreeInv`: a block that is not in use is known to no creator, joiner, message, list
  or Worker.  `BlocksInUseAreLive` follows from it;
* `MakersInv`: one creator, and nobody else knows the thread until it is spawned;
* `ClaimsInv`: one party at most is to give the thread up: a joiner, whoever may still
  join or detach it, or the thread itself;
* `MailInv`: at most one message is about a thread, and a clean-up is asked for when the
  thread has ended and nobody joins it any more.  `CleanedUpOnce` follows from it.

Four lemmas describe the operations several actions share: `PostedOnce` and
`TakenOnce` (what a message that is posted or taken does to the set of messages),
`Spawned` and `Freed` (a block that gets its Worker, and one that is given back).  The
theorems are `ThreadsAreCleanedUpOnce` and `UsedBlocksAreLive`.

The main thread's theorems hold for any finite set of workers, any sets of user
mutexes and timed mutexes, any bounds on calls and so any depth of nesting
(`ThreadsAssumption`, `LocksAssumption`).  A step is first reduced to its kind: the
topmost frame goes on, calls, returns, locks, unlocks or gives up (`GoesOn`,
`CallsOn`, `ReturnsOn`, `Locking`, `UnlockSwap`, `GivingUp`), with what each kind says
of mutexes, flags and counts (`StepKind`, `MainStepKind`).  Every part of the
invariant is then proved for the kinds and not for the forty actions.  `BaseInv` is

* `ShapeInv`: which frames there are and which may be called by which (`Under`);
* `WordInv`, `OwnsInv`: a lock word is 0 exactly when nobody owns the mutex, and its
  owner has exactly one frame that holds it (`Holds`, `HoldsOnce`);
* `UseInv`: while `do_proxy` of Main has the registry locked, `system_queue_in_use` is
  set, and above that frame Main neither runs the queue nor proxies;
* `RunInv`: one frame runs tasks, and `processing` is set once it has started.

`FutexInv` says that the register is empty or holds what the topmost frame of Main
spins on.  `MainDoesNotBlockItself` (`NoSelfDeadlock`), `RegisterHoldsOneWait`
(`RegisterIsSingle`) and `TasksRunOneAtATime` (`TasksDoNotNest`) follow
(`BlockingInvariant`).  For `SleepersAreWoken` (`NoStrandedWaiter`) three more parts are
needed: `SleepInv` (a sleeper is in `atomic.wait` on that mutex), `CountInv`
(`_m_waiters` is the number of frames between its increment and its decrement, a
bijection argument on the frames), and `ReadInv` (an unlock that has read no waiters,
while somebody sleeps, still finds the sign bit in the word).  Two theorems have a
hypothesis, and each is where the code fails: `Main \notin Growers` (finding 2) and `TimedLocks = {}`
(observation 3); `MainThreadGrow.cfg` and `MainThreadTimeout.cfg` show that the properties
fail without them.  With one worker a timed mutex is harmless, as `main_thread` shows.

The proxying theorems hold for any finite sets of clients and servers, any sets of
queues and kinds, with or without `waitAsync`, failing allocations and exits, and for
any bounds on calls and reused structs (`ProxyingAssumption`; the threads are finite
because the count of senders is a cardinality).  The invariant has a part for each
thing the three layers entrust to each other, and one lemma per action for each part:

* `Shape`: which local variables of a thread are in use at which step, and that every
  reference is to a call that was made;
* `RefInv`: `mailbox_refcount` is the number of senders between `ref` and `unref`, plus
  one until the thread closes its mailbox; it is 0 from the moment the thread goes on.
  `TypeCorrect` (the count never falls below zero) and `MailboxStaysOpen`
  (`MailboxOpenWhileHeld`) follow;
* `NoteInv`: a task queue's flag is `pending` exactly while its one message is in the
  mailbox, in the hands of the sender that set the flag, or just taken out; queued work
  is marked, about to be marked, or being executed for a notification.  `MailInv` says
  the same of the mailbox's flag and the event.  `NoWakeUpLost` (`WorkIsAnnounced`)
  follows, under the hypothesis `MayExitInTask = FALSE`: observation 5 is how a function
  that exits its thread leaves work behind which nobody announces;
* `HolderInv`: a call is in at most one place (one position of one task queue, one list
  of active contexts, one running answer, one send that has not handed it over), and a
  context is pending exactly while it has one.  `ContextsHaveOneHolder`
  (`ContextHasOneHolder`) follows by counting `Holders`;
* `LifeInv`: what a destroyed queue may still have.  A queue on the zombie list is not
  freed while it is marked, by `NoteInv` it is marked while a message refers to it, and
  a destroyed queue is executed only for a notification.
  `QueuesOutliveNotifications` (`QueueOutlivesNotification`) follows;
* `DataInv`: what a task, an active context or a waiting caller says of its call: one
  that carries the function has not run, one that carries the answer has, and neither
  has been answered.  It rests on `HolderInv`, because a step on one place would
  otherwise contradict what another place says of the same call.

`PromiseIsKept` is `Spec => KeepsPromise`, the implementation of `RemoteCall` by all
three layers, with `Status` as the refinement mapping.  A step changes the data of one
call at most (`OneChange`), and what it changes there is one of a few kinds
(`Change`); each kind is `Progress` of that call, which is a step of `RemoteCall`.

Only model-checked: the liveness properties (the prover has no rule for fairness).

## Findings

1. `writeAtOffset` (`syscalls.cpp:428`) looks the open file up before it locks
   it; a concurrent `__wasi_fd_close` closes the file in between, and
   `OPFSFile::write` meets a file without a handle, against the assertion at
   `opfs_backend.cpp:814` (`profile_write_race`).
2. `em_task_queue_send` (`em_task_queue.c:237`) holds the task queue's mutex when
   it grows the queue, and `do_proxy` has cleared `system_queue_in_use` by then.
   If `malloc`'s lock is taken, the main thread yields, runs the system queue and
   locks the same mutex again, which the comment at `proxying.c:121` says the
   flag prevents (`main_thread_grow`).

### Further observations

Four configurations are kept beside the runs and show a violation each:

3. `MainThreadTimeout.cfg` (`MainThreadWait`): `futex_wait_main_browser_thread`
   (`emscripten_futex_wait.c:59`) gives up when its time is over, even if a wake has
   just cleared its address.  That wake was one of `pthread_mutex_unlock`, which stops
   at the main thread, and with two workers it leaves the other one asleep on a free
   mutex (`NoStrandedWaiter`), where `threading_primitives.h:194` says that the given
   number of waiters is woken.
4. `ProfileHeartbeat.cfg` (`MCProfileDrain`): `~ProxyWorker`
   (`thread_utils.h:151`) cancels and joins its pthread and frees
   the queue, but nothing stops the interval that executes that queue.  A leased
   factory whose acquisition fails gets there: the Worker is pooled with the
   interval running, against the assertions of `emscripten_proxy_execute_queue`
   (`proxying.c:112`).
5. `ProxyingExit.cfg` (`MCProxying`): `_emscripten_thread_mailbox_shutdown`
   (`thread_mailbox.c:61`) cancels the task
   queues that have a message in the mailbox.  One that is being executed has
   none any more.  If a function executed from it calls `pthread_exit`, the calls
   queued behind it are neither run nor cancelled, and their synchronous callers
   wait for good, where `emscripten/proxying.h:61` says that a call returns false
   when the target exits.

6. `MuslLockRace.cfg` (`MuslLock`): `threads_minus_1` is incremented outside of the
   thread list lock (`pthread_create.c:235`).  When a creation and an exit
   update it at once, the increment is lost, the exit finds the count at zero and
   clears `need_locks` while the new thread runs, where the comment at line 232
   says "we want libc.need_locks to be set from the moment it starts"
   (`NeedLocksWhileThreaded`, without the restriction of `LibcLockExcludes`).

The others were met while modelling; the models follow the code, and the runs'
bounds or the assumptions named here keep away from them:

7. An asynchronous lock request starts over, with its full time limit, when the
   time is over (`libwasm_worker.js:309`), and is not told of it;
   an asynchronous semaphore request names `wait` outside of its block
   (`libwasm_worker.js:333`), which throws unless it acquires at once.
8. `emscripten_atomic_wait_async` returns the negated number of the wait and the
   cancellation looks it up as it is (`libatomic.js:102`): only the first wait
   can be canceled by its token.  The functions that cancel all waits do not give
   the runtime's keep-alive back.
9. A thread that is detached while it is being joined, against POSIX, is cleaned
   up twice (`pthread_join.c:48`), although the comment at line 29 names the case.
   A failed creation leaks its block.  The main thread waits for good when it
   joins a thread whose Worker has yet to load or whose creation was posted.
10. A semaphore asked for different numbers of instances may leave a small
    request asleep behind a large one that was woken in its place.
11. `fcntl(F_SETLK)` that races the close of its descriptor leaves a record lock
    on a file nobody has open (`syscalls.cpp:2303`).

## What is not modelled

The compiler driver (a sequential build tool), allocators (pointer structures
under one lock), the JavaScript bindings to browser APIs (pure I/O), other
WasmFS backends (adapters without protocol state), the file tree and paths, and
all vendored code.  Most of the tree is headers, vendored libraries and tests:
a model of them would say nothing of this program.  `PROJECT.json` lists each
part with its reason.

The file tree is the most interesting of these.  Its hazard is the order of
locks: an open with `O_CREAT` takes the parent's lock and then the table's, a
close the table's and then a file's, and `rename` and `unlinkat` lock
directories.  Dynamic linking across threads comes after it.

## Plan

1. *Done*: `ProfileHandoff`, `ProfileDrain`, the inductive invariant, the
   refinement proof.
2. *Done*: `TaskQueue`, proved to implement a FIFO queue, and `Proxying`
   (mailboxes, notification flags, contexts).
3. *Done*: `FileTable`, `MainThreadWait`, `ThreadLifecycle`, `WasmLock`,
   `WasmSemaphore`, `AtomicWaitAsync`, `MuslLock`.
4. Proofs.  *Done*: the profile protocol, the thread library, `FileTable`,
   `ThreadLifecycle`, `MainThreadWait`, `Proxying`.
5. The locks of the file tree: not begun.
