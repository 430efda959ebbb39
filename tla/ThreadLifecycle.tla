-------------------------- MODULE ThreadLifecycle --------------------------
(***************************************************************************)
(* From pthread_create to the reuse of a thread's memory: pthread_create.c,*)
(* musl's pthread_join.c and pthread_detach.c, and the Worker pool of      *)
(* libpthread.js.  A thread's block is allocated by its creator, named in  *)
(* a `run` message to a Worker, given up by whoever joins the thread (or   *)
(* by the thread itself when it is detached) with a `cleanupThread`        *)
(* message, and freed by the main thread, which then pools the Worker.     *)
(*                                                                         *)
(* A pthread is named by the address of its block.  Programs are assumed   *)
(* to follow POSIX: every joinable thread is joined or detached by one     *)
(* caller, and only cancelled before that.                                 *)
(* What happens under __tl_lock is one step.                               *)
(***************************************************************************)
EXTENDS Integers, Sequences, FiniteSets, TLC

CONSTANTS Main,
          Blocks,            \* the addresses of thread blocks
          WebWorkers,        \* the Workers there may be
          None,
          PoolSize,          \* PTHREAD_POOL_SIZE
          Builds,            \* the values of `strict`
          Canvases,          \* threads may be created with OffscreenCanvases
          Cancels,           \* threads may be cancelled
          TimedJoins,        \* joins may have a time limit
          MaxCreates         \* bound: the calls of pthread_create

Threads == Blocks \cup {Main}

ASSUME LifecycleAssumption ==
    /\ Main \notin Blocks /\ None \notin Threads \cup WebWorkers
    /\ PoolSize \in 0 .. Cardinality(WebWorkers) /\ Builds \subseteq BOOLEAN
    /\ MaxCreates \in Nat

VARIABLES block,      \* each block: free, used, or lost by a failed creation
          detach,     \* detach_state; all zero, "exited", in a freed block
          cancel,     \* the cancel flag
          sleepers,   \* the threads in a futex wait on each detach_state
          listed      \* the threads in the thread list

VARIABLES pc,         \* where each thread is; "none" before and after it runs
          arg,        \* the thread its call is about
          val,        \* the detach_state it has read
          masked      \* the threads with cancellation disabled

VARIABLES hosts,      \* PThread.pthreads: the Worker of each thread
          ptr,        \* worker.pthread_ptr
          unused,     \* PThread.unusedWorkers
          loaded,     \* the Workers that have loaded the module
          inbox,      \* the `run` messages on their way to each Worker
          outbox,     \* each Worker's messages on their way to the main thread
          wakes       \* the address a Worker that has left its thread is to wake

VARIABLES strict,     \* PTHREAD_POOL_SIZE_STRICT == 2, fixed when linking
          owed,       \* the threads somebody may still join or detach
          creates

blockVars == <<block, detach, cancel, sleepers, listed>>
threadVars == <<pc, arg, val, masked>>
poolVars == <<strict, hosts, ptr, unused, loaded, inbox, outbox, wakes>>
programVars == <<owed, creates>>
vars == <<blockVars, threadVars, poolVars, programVars>>

DetachStates == {"exited", "exiting", "joinable", "detached"}
Places == {"none", "run", "spawn", "spawning", "undo", "join", "wait", "asleep",
           "exit", "cas", "publish"}

TypeOK ==
    /\ block \in [Blocks -> {"free", "used", "lost"}]
    /\ detach \in [Blocks -> DetachStates]
    /\ cancel \in [Blocks -> BOOLEAN]
    /\ sleepers \in [Blocks -> SUBSET Threads]
    /\ listed \subseteq Blocks
    /\ pc \in [Threads -> Places]
    /\ arg \in [Threads -> Blocks \cup {None}]
    /\ val \in [Threads -> DetachStates]
    /\ masked \subseteq Threads
    /\ hosts \in [Blocks -> WebWorkers \cup {None}]
    /\ ptr \in [WebWorkers -> Blocks \cup {None}]
    /\ unused \subseteq WebWorkers /\ loaded \subseteq WebWorkers
    /\ inbox \in [WebWorkers -> Seq(Blocks)]
    /\ outbox \in [WebWorkers -> Seq([cmd : {"cleanupThread", "spawnThread"}, thread : Blocks])]
    /\ wakes \in [WebWorkers -> Blocks \cup {None}]
    /\ strict \in Builds
    /\ owed \subseteq Blocks
    /\ creates \in 0 .. MaxCreates

Init ==
    /\ block = [b \in Blocks |-> "free"]
    /\ detach = [b \in Blocks |-> "exited"]
    /\ cancel = [b \in Blocks |-> FALSE]
    /\ sleepers = [b \in Blocks |-> {}]
    /\ listed = {}
    /\ pc = [t \in Threads |-> IF t = Main THEN "run" ELSE "none"]
    /\ arg = [t \in Threads |-> None]
    /\ val = [t \in Threads |-> "exited"]
    /\ masked = {}
    /\ hosts = [b \in Blocks |-> None]
    /\ ptr = [w \in WebWorkers |-> None]
    /\ unused \in {ws \in SUBSET WebWorkers : Cardinality(ws) = PoolSize}
    /\ loaded = unused
    /\ inbox = [w \in WebWorkers |-> <<>>]
    /\ outbox = [w \in WebWorkers |-> <<>>]
    /\ wakes = [w \in WebWorkers |-> None]
    /\ strict \in Builds
    /\ owed = {} /\ creates = 0

At(t, place) == pc[t] = place
Go(t, place) == pc' = [pc EXCEPT ![t] = place]
GoAbout(t, place, b) == Go(t, place) /\ arg' = [arg EXCEPT ![t] = b]

(* postMessage from the Worker that runs thread t. *)
Post(t, cmd, b) ==
    outbox' = [outbox EXCEPT ![hosts[t]] = Append(@, [cmd |-> cmd, thread |-> b])]

-----------------------------------------------------------------------------
(* pthread_create. *)

(* The block is allocated, initialised and put in the thread list, and the *)
(* creator's pthread_t is set.                                             *)
Create(t, b, state) ==
    /\ At(t, "run")
    /\ creates < MaxCreates
    /\ block[b] = "free"
    /\ state \in {"joinable", "detached"}
    /\ creates' = creates + 1
    /\ block' = [block EXCEPT ![b] = "used"]
    /\ detach' = [detach EXCEPT ![b] = state]
    /\ cancel' = [cancel EXCEPT ![b] = FALSE]
    /\ listed' = listed \cup {b}
    /\ GoAbout(t, "spawn", b)
    /\ UNCHANGED <<sleepers, val, masked, poolVars, owed>>

(* getNewWorker: a pooled Worker, a new one, or none. *)
Allocatable == IF strict THEN {} ELSE {w \in WebWorkers : ptr[w] = None /\ w \notin loaded}
NewWorkers == IF unused # {} THEN unused ELSE Allocatable

(* spawnThread, on the main thread. *)
Spawn(b, w) ==
    /\ unused' = unused \ {w}
    /\ hosts' = [hosts EXCEPT ![b] = w]
    /\ ptr' = [ptr EXCEPT ![w] = b]
    /\ inbox' = [inbox EXCEPT ![w] = Append(@, b)]

(* pthread_create returns 0: the new thread may be joined, if it is        *)
(* joinable, by one of the threads.                                        *)
Created(t) ==
    /\ GoAbout(t, "run", None)
    /\ owed' = IF detach[arg[t]] = "detached" THEN owed ELSE owed \cup {arg[t]}

(* The main thread spawns for itself, or for a pthread that waits for the  *)
(* proxied call; that it does in its event loop and while it waits in a    *)
(* join, which runs the system queue.                                      *)
SpawnerReady(t) ==
    \/ t = Main /\ At(t, "spawn")
    \/ t # Main /\ At(t, "spawning") /\ pc[Main] \in {"run", "asleep"}

SpawnThread(t, w) ==
    /\ SpawnerReady(t)
    /\ w \in NewWorkers
    /\ Spawn(arg[t], w)
    /\ Created(t)
    /\ UNCHANGED <<blockVars, val, masked, strict, loaded, outbox, wakes, creates>>

SpawnFails(t) ==
    /\ SpawnerReady(t)
    /\ NewWorkers = {} /\ strict
    /\ Go(t, "undo")
    /\ UNCHANGED <<blockVars, arg, val, masked, poolVars, programVars>>

(* The failed creation leaves the thread list, and leaves its block. *)
CreateFails(t) ==
    /\ At(t, "undo")
    /\ listed' = listed \ {arg[t]}
    /\ block' = [block EXCEPT ![arg[t]] = "lost"]
    /\ GoAbout(t, "run", None)
    /\ UNCHANGED <<detach, cancel, sleepers, val, masked, poolVars, programVars>>

(* pthreadCreateProxied. *)
ProxySpawn(t) ==
    /\ t # Main
    /\ At(t, "spawn")
    /\ Go(t, "spawning")
    /\ UNCHANGED <<blockVars, arg, val, masked, poolVars, programVars>>

(* With canvases to transfer, the creation is a message, and its success   *)
(* is assumed.                                                             *)
PostSpawn(t) ==
    /\ t # Main
    /\ Canvases
    /\ At(t, "spawn")
    /\ Post(t, "spawnThread", arg[t])
    /\ Created(t)
    /\ UNCHANGED <<blockVars, val, masked, strict, hosts, ptr, unused, loaded, inbox,
                   wakes, creates>>

-----------------------------------------------------------------------------
(* The Workers. *)

(* A new Worker loads the module, for which the main thread must be in its *)
(* event loop.                                                             *)
Load(w) ==
    /\ At(Main, "run")
    /\ w \notin loaded /\ ptr[w] # None
    /\ loaded' = loaded \cup {w}
    /\ UNCHANGED <<blockVars, threadVars, strict, hosts, ptr, unused, inbox, outbox,
                   wakes, programVars>>

(* A Worker's event loop runs the thread it is sent, once what it ran      *)
(* before has returned.                                                    *)
Start(w) ==
    /\ w \in loaded
    /\ inbox[w] # <<>>
    /\ wakes[w] = None
    /\ LET b == Head(inbox[w]) IN
          /\ GoAbout(b, "run", None)
          /\ masked' = masked \ {b}
    /\ inbox' = [inbox EXCEPT ![w] = Tail(@)]
    /\ UNCHANGED <<blockVars, val, hosts, ptr, unused, strict, loaded, outbox, wakes, programVars>>

-----------------------------------------------------------------------------
(* The end of a thread: _emscripten_thread_exit. *)

Exit(b) ==
    /\ At(b, "run")
    /\ Go(b, "exit")
    /\ masked' = masked \cup {b}
    /\ UNCHANGED <<blockVars, arg, val, poolVars, programVars>>

ExitUnlist(b) ==
    /\ At(b, "exit")
    /\ listed' = listed \ {b}
    /\ Go(b, "cas")
    /\ UNCHANGED <<block, detach, cancel, sleepers, arg, val, masked, poolVars, programVars>>

(* Mutant of ExitCas: a detached thread is not cleaned up. *)
ExitCasLeaks(b) ==
    /\ At(b, "cas")
    /\ detach' = [detach EXCEPT ![b] = IF @ = "joinable" THEN "exiting" ELSE @]
    /\ Go(b, IF detach[b] = "joinable" THEN "publish" ELSE "none")
    /\ UNCHANGED <<block, cancel, sleepers, listed, arg, val, masked, poolVars, programVars>>

(* The compare-and-exchange that a pthread_detach competes with.  The      *)
(* thread of a detached block has it cleaned up and is gone.               *)
ExitCas(b) ==
    /\ At(b, "cas")
    /\ IF detach[b] = "joinable"
          THEN /\ detach' = [detach EXCEPT ![b] = "exiting"]
               /\ Go(b, "publish")
               /\ UNCHANGED outbox
          ELSE /\ Post(b, "cleanupThread", b)
               /\ Go(b, "none")
               /\ UNCHANGED detach
    /\ UNCHANGED <<block, cancel, sleepers, listed, arg, val, masked,
                   hosts, ptr, unused, strict, loaded, inbox, wakes, programVars>>

(* Mutant of ExitPublish: every thread has itself cleaned up. *)
ExitPublishCleansUp(b) ==
    /\ At(b, "publish")
    /\ detach' = [detach EXCEPT ![b] = "exited"]
    /\ wakes' = [wakes EXCEPT ![hosts[b]] = b]
    /\ Post(b, "cleanupThread", b)
    /\ Go(b, "none")
    /\ UNCHANGED <<block, cancel, sleepers, listed, arg, val, masked,
                   hosts, ptr, unused, strict, loaded, inbox, programVars>>

(* From here the joiner may free the block; only its address is used. *)
ExitPublish(b) ==
    /\ At(b, "publish")
    /\ detach' = [detach EXCEPT ![b] = "exited"]
    /\ wakes' = [wakes EXCEPT ![hosts[b]] = b]
    /\ Go(b, "none")
    /\ UNCHANGED <<block, cancel, sleepers, listed, arg, val, masked,
                   hosts, ptr, unused, strict, loaded, inbox, outbox, programVars>>

(* Mutant of ExitWake: no joiner is woken. *)
ExitWakeNobody(w) ==
    /\ wakes[w] # None
    /\ wakes' = [wakes EXCEPT ![w] = None]
    /\ UNCHANGED <<blockVars, threadVars, strict, hosts, ptr, unused, loaded, inbox,
                   outbox, programVars>>

ExitWake(w) ==
    /\ wakes[w] # None
    /\ LET b == wakes[w] IN
          \/ sleepers[b] = {} /\ UNCHANGED sleepers
          \/ \E t \in sleepers[b] : sleepers' = [sleepers EXCEPT ![b] = @ \ {t}]
    /\ wakes' = [wakes EXCEPT ![w] = None]
    /\ UNCHANGED <<block, detach, cancel, listed, threadVars,
                   hosts, ptr, unused, strict, loaded, inbox, outbox, programVars>>

-----------------------------------------------------------------------------
(* cleanupThread and returnWorkerToPool, on the main thread.  Without a    *)
(* Worker for the thread they throw.                                       *)
Cleaned(b) ==
    IF hosts[b] = None
       THEN UNCHANGED <<block, detach, hosts, ptr, unused>>
       ELSE /\ hosts' = [hosts EXCEPT ![b] = None]
            /\ ptr' = [ptr EXCEPT ![hosts[b]] = None]
            /\ unused' = unused \cup {hosts[b]}
            /\ block' = [block EXCEPT ![b] = "free"]
            /\ detach' = [detach EXCEPT ![b] = "exited"]

(* The main thread's event loop handles a message. *)
HandleCleanup(w) ==
    /\ At(Main, "run")
    /\ outbox[w] # <<>>
    /\ Head(outbox[w]).cmd = "cleanupThread"
    /\ Cleaned(Head(outbox[w]).thread)
    /\ outbox' = [outbox EXCEPT ![w] = Tail(@)]
    /\ UNCHANGED <<cancel, sleepers, listed, threadVars, strict, loaded, inbox, wakes, programVars>>

HandleSpawn(w) ==
    /\ At(Main, "run")
    /\ outbox[w] # <<>>
    /\ Head(outbox[w]).cmd = "spawnThread"
    /\ \/ \E n \in NewWorkers : Spawn(Head(outbox[w]).thread, n)
       \/ NewWorkers = {} /\ strict /\ UNCHANGED <<unused, hosts, ptr, inbox>>
    /\ outbox' = [outbox EXCEPT ![w] = Tail(@)]
    /\ UNCHANGED <<blockVars, threadVars, strict, loaded, wakes, programVars>>

-----------------------------------------------------------------------------
(* pthread_join, _timedjoin_np and _tryjoin_np. *)

(* The program does not let threads join each other in a circle: b, and    *)
(* whoever b waits for in a join, and so on, is not t.                     *)
Circular(t, b) ==
    LET waitedFor[n \in 0 .. Cardinality(Blocks)] ==
            IF n = 0 THEN b
            ELSE IF waitedFor[n-1] # None /\ pc[waitedFor[n-1]] \in {"join", "wait", "asleep"}
                 THEN arg[waitedFor[n-1]] ELSE None
    IN  \E n \in DOMAIN waitedFor : waitedFor[n] = t

(* A detached thread may try to join itself, and is refused below. *)
Join(t, b) ==
    /\ At(t, "run")
    /\ \/ b \in owed /\ ~Circular(t, b)
       \/ b = t /\ detach[b] = "detached"
    /\ owed' = owed \ {b}
    /\ GoAbout(t, "join", b)
    /\ UNCHANGED <<blockVars, val, masked, poolVars, creates>>

(* Mutant of Finished: any state below DT_JOINABLE will do. *)
FinishedOrFinishing(b) == detach[b] \in {"exited", "exiting"}

Finished(b) == detach[b] = "exited"

(* The loop's condition: an exited thread is cleaned up, by the main       *)
(* thread at once.  A detached one is refused.                             *)
JoinRead(t) ==
    /\ At(t, "join")
    /\ ~Finished(arg[t]) /\ detach[arg[t]] # "detached"
    /\ val' = [val EXCEPT ![t] = detach[arg[t]]]
    /\ Go(t, "wait")
    /\ UNCHANGED <<blockVars, arg, masked, poolVars, programVars>>

JoinExited(t) ==
    /\ At(t, "join")
    /\ Finished(arg[t])
    /\ IF t = Main
          THEN Cleaned(arg[t]) /\ UNCHANGED outbox
          ELSE Post(t, "cleanupThread", arg[t]) /\ UNCHANGED <<block, detach, hosts, ptr, unused>>
    /\ GoAbout(t, "run", None)
    /\ masked' = masked \ {t}
    /\ UNCHANGED <<cancel, sleepers, listed, val, strict, loaded, inbox, wakes, programVars>>

JoinDetached(t) ==
    /\ At(t, "join")
    /\ detach[arg[t]] = "detached"
    /\ GoAbout(t, "run", None)
    /\ masked' = masked \ {t}
    /\ UNCHANGED <<blockVars, val, poolVars, programVars>>

(* The futex wait. *)
JoinWait(t) ==
    /\ At(t, "wait")
    /\ IF detach[arg[t]] = val[t]
          THEN sleepers' = [sleepers EXCEPT ![arg[t]] = @ \cup {t}] /\ Go(t, "asleep")
          ELSE Go(t, "join") /\ UNCHANGED sleepers
    /\ UNCHANGED <<block, detach, cancel, listed, arg, val, masked, poolVars, programVars>>

(* The wait ends when it is notified.  The main thread, and a thread that  *)
(* can be cancelled, also look at the word from time to time.              *)
JoinWoken(t) ==
    /\ At(t, "asleep")
    /\ \/ t \notin sleepers[arg[t]]
       \/ detach[arg[t]] # val[t] /\ t \notin masked
    /\ sleepers' = [sleepers EXCEPT ![arg[t]] = @ \ {t}]
    /\ Go(t, "join")
    /\ UNCHANGED <<block, detach, cancel, listed, arg, val, masked, poolVars, programVars>>

(* ETIMEDOUT: the thread can be joined again. *)
JoinTimesOut(t) ==
    /\ TimedJoins
    /\ At(t, "asleep")
    /\ t \notin masked
    /\ sleepers' = [sleepers EXCEPT ![arg[t]] = @ \ {t}]
    /\ owed' = owed \cup {arg[t]}
    /\ GoAbout(t, "run", None)
    /\ UNCHANGED <<block, detach, cancel, listed, val, masked, poolVars, creates>>

(* pthread_detach: a thread that is about to exit is joined instead, with  *)
(* cancellation disabled.                                                  *)
Detach(t, b) ==
    /\ At(t, "run")
    /\ b \in owed
    /\ owed' = owed \ {b}
    /\ IF detach[b] = "joinable"
          THEN detach' = [detach EXCEPT ![b] = "detached"] /\ UNCHANGED <<pc, arg, masked>>
          ELSE GoAbout(t, "join", b) /\ masked' = masked \cup {t} /\ UNCHANGED detach
    /\ UNCHANGED <<block, cancel, sleepers, listed, val, poolVars, creates>>

(* pthread_cancel, and what a cancelled thread does at its next            *)
(* cancellation point: in a join, the thread it waited for stays joinable. *)
Cancel(t, b) ==
    /\ Cancels
    /\ At(t, "run")
    /\ b \in owed
    /\ cancel' = [cancel EXCEPT ![b] = TRUE]
    /\ UNCHANGED <<block, detach, sleepers, listed, threadVars, poolVars, programVars>>

Cancelled(b) ==
    /\ cancel[b] /\ b \notin masked
    /\ \/ At(b, "run")
       \/ At(b, "asleep") /\ b \in sleepers[arg[b]]
    /\ IF At(b, "run")
          THEN UNCHANGED <<sleepers, owed>>
          ELSE /\ sleepers' = [sleepers EXCEPT ![arg[b]] = @ \ {b}]
               /\ owed' = owed \cup {arg[b]}
    /\ masked' = masked \cup {b}
    /\ GoAbout(b, "exit", None)
    /\ UNCHANGED <<block, detach, cancel, listed, val, poolVars, creates>>

-----------------------------------------------------------------------------
ThreadStep(t) ==
    \/ \E w \in WebWorkers : SpawnThread(t, w)
    \/ SpawnFails(t) \/ CreateFails(t) \/ ProxySpawn(t)
    \/ JoinRead(t) \/ JoinExited(t) \/ JoinDetached(t) \/ JoinWait(t) \/ JoinWoken(t)

ExitStep(b) == Exit(b) \/ ExitUnlist(b) \/ ExitCas(b) \/ ExitPublish(b)

WorkerStep(w) ==
    Load(w) \/ Start(w) \/ ExitWake(w) \/ HandleCleanup(w) \/ HandleSpawn(w)

Next ==
    \/ \E t \in Threads :
          \/ ThreadStep(t) \/ PostSpawn(t) \/ JoinTimesOut(t)
          \/ \E b \in Blocks :
                \/ \E state \in DetachStates : Create(t, b, state)
                \/ Join(t, b) \/ Detach(t, b) \/ Cancel(t, b)
    \/ \E b \in Blocks : ExitStep(b) \/ Cancelled(b)
    \/ \E w \in WebWorkers : WorkerStep(w)

Spec == Init /\ [][Next]_vars

(* Threads go on, Workers run, and the main thread's event loop handles    *)
(* messages.  A thread ends, whatever it does before, unless it is in a    *)
(* call for good.  Nobody has to be created, joined or cancelled.          *)
FairSpec ==
    /\ Spec
    /\ \A t \in Threads : WF_vars(ThreadStep(t))
    /\ \A b \in Blocks : SF_vars(ExitStep(b))
    /\ \A w \in WebWorkers : WF_vars(WorkerStep(w))

-----------------------------------------------------------------------------
CleanupsOf(b) ==
    {m \in WebWorkers \X (1 .. MaxCreates + 1) :
        /\ m[2] \in DOMAIN outbox[m[1]]
        /\ outbox[m[1]][m[2]] = [cmd |-> "cleanupThread", thread |-> b]}

(* A thread is cleaned up once, by its joiner or by itself: when the main  *)
(* thread does it, the thread has a Worker (the assertion of cleanupThread)*)
(* and no second clean-up is on its way to hit the block's next user.      *)
CleanedUpOnce ==
    /\ \A b \in Blocks : Cardinality(CleanupsOf(b)) <= IF hosts[b] = None THEN 0 ELSE 1
    /\ At(Main, "join") /\ Finished(arg[Main]) =>
          hosts[arg[Main]] # None /\ CleanupsOf(arg[Main]) = {}

(* Nobody uses a freed block.  The block of a thread that runs, or is      *)
(* about to, belongs to it, and its Worker is not in the pool; who walks   *)
(* the thread list finds no freed block, and a joiner looks at none, since *)
(* nothing frees a block before its thread has published DT_EXITED or      *)
(* asked for its clean-up.                                                 *)
BlocksInUseAreLive ==
    /\ \A b \in Blocks :
          pc[b] # "none" \/ (\E w \in WebWorkers : \E i \in DOMAIN inbox[w] : inbox[w][i] = b) =>
              /\ block[b] = "used"
              /\ hosts[b] # None /\ hosts[b] \notin unused /\ ptr[hosts[b]] = b
    /\ \A b \in listed : block[b] = "used"
    /\ \A t \in Threads : pc[t] \in {"join", "wait", "asleep"} => block[arg[t]] = "used"

(* A join returns once the thread has ended, also when it began as the     *)
(* detaching of a thread that was exiting.                                 *)
JoinReturns == \A t \in Threads : At(t, "asleep") ~> ~At(t, "asleep")

(* The block of a detached thread is freed and its Worker pooled. *)
DetachedIsFreed == \A b \in Blocks : detach[b] = "detached" ~> block[b] = "free"

Symmetry == Permutations(Blocks) \cup Permutations(WebWorkers)
=============================================================================
