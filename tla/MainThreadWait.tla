--------------------------- MODULE MainThreadWait ---------------------------
(***************************************************************************)
(* How the main browser thread blocks.  It cannot sleep, so                *)
(* emscripten_futex_wait.c lets it spin: it registers the address it waits *)
(* for in _emscripten_main_thread_futex, and between two looks at it runs  *)
(* the system proxying queue (_emscripten_yield), whose functions take     *)
(* locks themselves and so come back here on top of the first wait.        *)
(* emscripten_futex_wake.c wakes the main thread first, by clearing the    *)
(* register.  On top of both: musl's normal mutex, the two mutexes of the  *)
(* system queue and the allocator's lock.                                  *)
(*                                                                         *)
(* Every thread has a stack of frames, one per active function, and a step *)
(* is one step of its topmost frame.  A lock is named by what it protects; *)
(* the mutex of a thread's task queue by the thread.                       *)
(***************************************************************************)
EXTENDS Integers, Sequences, FiniteSets

CONSTANTS Main,          \* the main browser thread
          Workers,       \* the other threads, which can sleep
          None,
          MaxMainCalls, MaxWorkerCalls,   \* bound: the calls a thread makes
          MaxTaskCalls,  \* bound: the calls the functions run by Main make
          UserLocks,     \* mutexes of the program itself
          TimedLocks,    \* the ones Main uses pthread_mutex_timedlock on
          Growers        \* the threads that may find a task queue full

Threads == Workers \cup {Main}

MaxCalls(t) == IF t = Main THEN MaxMainCalls ELSE MaxWorkerCalls

ASSUME ThreadsAssumption ==
    /\ Main \notin Workers /\ None \notin Threads
    /\ Growers \subseteq Threads /\ IsFiniteSet(Workers)
    /\ MaxTaskCalls \in Nat

ASSUME LocksAssumption ==
    /\ TimedLocks \subseteq UserLocks
    /\ {"registry", "allocator", None} \cap (Threads \cup UserLocks) = {}
    /\ None \notin {"registry", "allocator"} /\ Threads \cap UserLocks = {}

Locks == {"registry", "allocator"} \cup Threads \cup UserLocks

VARIABLES word,        \* _m_lock of each mutex: see Word
          waiters,     \* _m_waiters
          owner,       \* who holds the mutex (not in the code)
          asleep,      \* the workers in atomic.wait on its address
          futex,       \* _emscripten_main_thread_futex
          stack,       \* the frames of each thread, topmost first
          inUse,       \* system_queue_in_use of Main
          registered,  \* threads with a task queue in the system queue
          queued,      \* the number of tasks queued for each thread
          processing,  \* `processing` of Main's task queue
          calls, taskCalls

mutexVars == <<word, waiters, owner, asleep>>
queueVars == <<inUse, registered, queued, processing>>
boundVars == <<calls, taskCalls>>
vars == <<mutexVars, futex, stack, queueVars, boundVars>>

(* A normal mutex holds 0, EBUSY, or EBUSY with the sign bit set. *)
Unlocked == 0
Locked == 1
Contended == 2

(* A frame: the function, where it is, the lock or thread it is about, and *)
(* the value it last read.                                                 *)
Frame(op, pc, m) == [op |-> op, pc |-> pc, m |-> m, v |-> 0]

LockFrame(m) == Frame("lock", "try", m)
UnlockFrame(m) == Frame("unlock", "waiters", m)
Section(m) == Frame("section", "enter", m)
TimedSection(m) == Frame("timedsection", "enter", m)
Proxy(target) == Frame("proxy", "enter", target)
Execute == Frame("execute", "enter", None)
RunTasks == Frame("run", "enter", Main)

Busy(t) == stack[t] # <<>>
Top(t) == Head(stack[t])
At(t, op, pc) == Busy(t) /\ Top(t).op = op /\ Top(t).pc = pc

(* The frames of t once its topmost one has gone on to pc, having read v. *)
Moved(t, pc, v) == <<[Top(t) EXCEPT !.pc = pc, !.v = v]>> \o Tail(stack[t])

Goto(t, pc, v) == stack' = [stack EXCEPT ![t] = Moved(t, pc, v)]
Call(t, frame, pc) == stack' = [stack EXCEPT ![t] = <<frame>> \o Moved(t, pc, 0)]
TailCall(t, frame) == stack' = [stack EXCEPT ![t] = <<frame>> \o Tail(@)]
Return(t) == stack' = [stack EXCEPT ![t] = Tail(@)]

FrameType ==
    [op : {"lock", "unlock", "section", "timedsection", "proxy", "execute", "run"},
     pc : {"try", "read", "inc", "mark", "wait", "asleep", "spin", "check", "dec",
           "waiters", "swap", "wake", "enter", "leave", "add", "added", "send",
           "enqueue", "enqueued", "find", "found", "done", "next", "call", "again", "end"},
     m  : Locks \cup {None},
     v  : 0 .. 3]

TypeOK ==
    /\ word \in [Locks -> {Unlocked, Locked, Contended}]
    /\ waiters \in [Locks -> Nat]
    /\ owner \in [Locks -> Threads \cup {None}]
    /\ asleep \in [Locks -> SUBSET Workers]
    /\ futex \in Locks \cup {None}
    /\ stack \in [Threads -> Seq(FrameType)]
    /\ inUse \in BOOLEAN /\ processing \in BOOLEAN
    /\ registered \in SUBSET Threads
    /\ queued \in [Threads -> Nat]
    /\ calls \in [Threads -> Nat] /\ taskCalls \in 0 .. MaxTaskCalls

Init ==
    /\ word = [m \in Locks |-> Unlocked]
    /\ waiters = [m \in Locks |-> 0]
    /\ owner = [m \in Locks |-> None]
    /\ asleep = [m \in Locks |-> {}]
    /\ futex = None
    /\ stack = [t \in Threads |-> <<>>]
    /\ inUse = FALSE /\ processing = FALSE
    /\ registered = {}
    /\ queued = [t \in Threads |-> 0]
    /\ calls = [t \in Threads |-> 0] /\ taskCalls = 0

-----------------------------------------------------------------------------
(* pthread_mutex_lock and _timedlock.  TimedOut is what the frame of a     *)
(* timed lock holds in v once the time is over.                            *)

TimedOut == 3
Reached(t) == Top(t).m

LockTry(t) ==
    /\ At(t, "lock", "try")
    /\ IF word[Reached(t)] = Unlocked
          THEN /\ word' = [word EXCEPT ![Reached(t)] = Locked]
               /\ owner' = [owner EXCEPT ![Reached(t)] = t]
               /\ Return(t)
          ELSE Goto(t, "read", 0) /\ UNCHANGED <<word, owner>>
    /\ UNCHANGED <<waiters, asleep, futex, queueVars, boundVars>>

LockRead(t) ==
    /\ At(t, "lock", "read")
    /\ Goto(t, IF word[Reached(t)] = Unlocked THEN "try" ELSE "inc", word[Reached(t)])
    /\ UNCHANGED <<mutexVars, futex, queueVars, boundVars>>

LockInc(t) ==
    /\ At(t, "lock", "inc")
    /\ waiters' = [waiters EXCEPT ![Reached(t)] = @ + 1]
    /\ Goto(t, "mark", Top(t).v)
    /\ UNCHANGED <<word, owner, asleep, futex, queueVars, boundVars>>

LockMark(t) ==
    /\ At(t, "lock", "mark")
    /\ word' = [word EXCEPT ![Reached(t)] = IF @ = Top(t).v THEN Contended ELSE @]
    /\ Goto(t, "wait", 0)
    /\ UNCHANGED <<waiters, owner, asleep, futex, queueVars, boundVars>>

(* atomic.wait: sleep if the word still is the expected one.  Mutexes are  *)
(* waited for with cancellation disabled, so a worker's wait has no slices.*)
WorkerWait(t) ==
    /\ t # Main
    /\ At(t, "lock", "wait")
    /\ IF word[Reached(t)] = Contended
          THEN asleep' = [asleep EXCEPT ![Reached(t)] = @ \cup {t}] /\ Goto(t, "asleep", 0)
          ELSE Goto(t, "dec", 0) /\ UNCHANGED asleep
    /\ UNCHANGED <<word, waiters, owner, futex, queueVars, boundVars>>

WorkerWoken(t) ==
    /\ At(t, "lock", "asleep")
    /\ t \notin asleep[Reached(t)]
    /\ Goto(t, "dec", 0)
    /\ UNCHANGED <<mutexVars, futex, queueVars, boundVars>>

LockDec(t) ==
    /\ At(t, "lock", "dec")
    /\ waiters' = [waiters EXCEPT ![Reached(t)] = @ - 1]
    /\ IF Top(t).v = TimedOut
          THEN stack' = [stack EXCEPT ![t] = Tail(Tail(@))]   \* back to the program
          ELSE Goto(t, "try", 0)
    /\ UNCHANGED <<word, owner, asleep, futex, queueVars, boundVars>>

-----------------------------------------------------------------------------
(* futex_wait_main_browser_thread. *)

MainRegister ==
    /\ At(Main, "lock", "wait")
    /\ futex' = IF futex = None THEN Reached(Main) ELSE futex
    /\ Goto(Main, "spin", 0)
    /\ UNCHANGED <<mutexVars, queueVars, boundVars>>

(* Mutant of MainYield: the wait stays registered while it yields. *)
MainYieldRegistered ==
    /\ At(Main, "lock", "spin")
    /\ futex = Reached(Main)
    /\ Call(Main, Execute, "check")
    /\ UNCHANGED <<mutexVars, futex, queueVars, boundVars>>

(* Nobody has cleared the register: clear it and yield. *)
MainYield ==
    /\ At(Main, "lock", "spin")
    /\ futex = Reached(Main)
    /\ futex' = None
    /\ Call(Main, Execute, "check")
    /\ UNCHANGED <<mutexVars, queueVars, boundVars>>

MainWoken ==
    /\ At(Main, "lock", "spin")
    /\ futex # Reached(Main)
    /\ Goto(Main, "dec", 0)
    /\ UNCHANGED <<mutexVars, futex, queueVars, boundVars>>

(* Mutant of MainCheck: the register alone tells whether the wait is over. *)
MainCheckNothing ==
    /\ At(Main, "lock", "check")
    /\ futex' = IF futex = None THEN Reached(Main) ELSE futex
    /\ Goto(Main, "spin", 0)
    /\ UNCHANGED <<mutexVars, queueVars, boundVars>>

(* The mutex may have been released while no address was registered. *)
MainCheck ==
    /\ At(Main, "lock", "check")
    /\ IF word[Reached(Main)] = Contended
          THEN /\ futex' = IF futex = None THEN Reached(Main) ELSE futex
               /\ Goto(Main, "spin", 0)
          ELSE Goto(Main, "dec", 0) /\ UNCHANGED futex
    /\ UNCHANGED <<mutexVars, queueVars, boundVars>>

(* The time of a timed lock is over, whether or not somebody has just      *)
(* cleared the register.                                                   *)
MainTimeout ==
    /\ At(Main, "lock", "spin")
    /\ stack[Main][2].op = "timedsection"
    /\ futex' = IF futex = Reached(Main) THEN None ELSE futex
    /\ Goto(Main, "dec", TimedOut)
    /\ UNCHANGED <<mutexVars, queueVars, boundVars>>

-----------------------------------------------------------------------------
(* pthread_mutex_unlock, with emscripten_futex_wake(m, 1). *)

UnlockWaiters(t) ==
    /\ At(t, "unlock", "waiters")
    /\ Goto(t, "swap", IF waiters[Reached(t)] > 0 THEN 1 ELSE 0)
    /\ UNCHANGED <<mutexVars, futex, queueVars, boundVars>>

(* Mutant of MustWake: only the number of waiters read before counts. *)
MustWakeCounted(t) == Top(t).v = 1

MustWake(t) == Top(t).v = 1 \/ word[Reached(t)] = Contended

UnlockSwap(t) ==
    /\ At(t, "unlock", "swap")
    /\ word' = [word EXCEPT ![Reached(t)] = Unlocked]
    /\ owner' = [owner EXCEPT ![Reached(t)] = None]
    /\ IF MustWake(t) THEN Goto(t, "wake", 0) ELSE Return(t)
    /\ UNCHANGED <<waiters, asleep, futex, queueVars, boundVars>>

(* The main thread is woken before any worker.  atomic.notify wakes one of *)
(* the sleepers.                                                           *)
UnlockWake(t) ==
    /\ At(t, "unlock", "wake")
    /\ \/ /\ futex = Reached(t)
          /\ futex' = None
          /\ UNCHANGED asleep
       \/ /\ futex # Reached(t)
          /\ asleep[Reached(t)] = {}
          /\ UNCHANGED <<futex, asleep>>
       \/ /\ futex # Reached(t)
          /\ \E w \in asleep[Reached(t)] : asleep' = [asleep EXCEPT ![Reached(t)] = @ \ {w}]
          /\ UNCHANGED futex
    /\ Return(t)
    /\ UNCHANGED <<word, waiters, owner, queueVars, boundVars>>

-----------------------------------------------------------------------------
(* The functions that use the mutexes. *)

(* malloc, or a critical section of the program. *)
SectionEnter(t) ==
    /\ At(t, "section", "enter") \/ At(t, "timedsection", "enter")
    /\ Call(t, LockFrame(Reached(t)), "leave")
    /\ UNCHANGED <<mutexVars, futex, queueVars, boundVars>>

SectionLeave(t) ==
    /\ At(t, "section", "leave") \/ At(t, "timedsection", "leave")
    /\ TailCall(t, UnlockFrame(Reached(t)))
    /\ UNCHANGED <<mutexVars, futex, queueVars, boundVars>>

(* do_proxy: the target's task queue is found or made under the registry's *)
(* mutex, and the task is added under the task queue's own.                *)
ProxyEnter(t) ==
    /\ At(t, "proxy", "enter")
    /\ Call(t, LockFrame("registry"), "add")
    /\ UNCHANGED <<mutexVars, futex, queueVars, boundVars>>

(* Mutant of MarkedInUse: do_proxy does not set system_queue_in_use. *)
MarkedInUseNever(t) == inUse

MarkedInUse(t) == IF t = Main THEN TRUE ELSE inUse

ProxyAdd(t) ==
    /\ At(t, "proxy", "add")
    /\ inUse' = MarkedInUse(t)
    /\ registered' = registered \cup {Reached(t)}
    /\ IF Reached(t) \in registered
          THEN Goto(t, "added", 0)
          ELSE Call(t, Section("allocator"), "added")
    /\ UNCHANGED <<mutexVars, futex, queued, processing, boundVars>>

ProxyAdded(t) ==
    /\ At(t, "proxy", "added")
    /\ inUse' = IF t = Main THEN FALSE ELSE inUse
    /\ Call(t, UnlockFrame("registry"), "send")
    /\ UNCHANGED <<mutexVars, futex, registered, queued, processing, boundVars>>

ProxySend(t) ==
    /\ At(t, "proxy", "send")
    /\ Call(t, LockFrame(Reached(t)), "enqueue")
    /\ UNCHANGED <<mutexVars, futex, queueVars, boundVars>>

(* em_task_queue_enqueue; a full task queue is grown under its mutex. *)
ProxyGrow(t) ==
    /\ At(t, "proxy", "enqueue")
    /\ t \in Growers
    /\ Call(t, Section("allocator"), "enqueued")
    /\ UNCHANGED <<mutexVars, futex, queueVars, boundVars>>

ProxyEnqueue(t) ==
    /\ At(t, "proxy", "enqueue") \/ At(t, "proxy", "enqueued")
    /\ queued' = [queued EXCEPT ![Reached(t)] = @ + 1]
    /\ TailCall(t, UnlockFrame(Reached(t)))
    /\ UNCHANGED <<mutexVars, futex, inUse, registered, processing, boundVars>>

MayExecute == ~inUse

(* emscripten_proxy_execute_queue of the system queue on Main. *)
ExecuteEnter ==
    /\ At(Main, "execute", "enter")
    /\ IF MayExecute
          THEN inUse' = TRUE /\ Call(Main, LockFrame("registry"), "find")
          ELSE Return(Main) /\ UNCHANGED inUse
    /\ UNCHANGED <<mutexVars, futex, registered, queued, processing, boundVars>>

ExecuteFind ==
    /\ At(Main, "execute", "find")
    /\ Call(Main, UnlockFrame("registry"), "found")
    /\ UNCHANGED <<mutexVars, futex, queueVars, boundVars>>

(* Mutant of MayRun: a task queue is run though it is being run. *)
MayRunAgain == Main \in registered

MayRun == Main \in registered /\ ~processing

ExecuteFound ==
    /\ At(Main, "execute", "found")
    /\ IF MayRun THEN Call(Main, RunTasks, "done") ELSE Goto(Main, "done", 0)
    /\ UNCHANGED <<mutexVars, futex, queueVars, boundVars>>

ExecuteDone ==
    /\ At(Main, "execute", "done")
    /\ inUse' = FALSE
    /\ Return(Main)
    /\ UNCHANGED <<mutexVars, futex, registered, queued, processing, boundVars>>

(* em_task_queue_execute on Main's task queue. *)
RunEnter ==
    /\ At(Main, "run", "enter")
    /\ processing' = TRUE
    /\ Call(Main, LockFrame(Main), "next")
    /\ UNCHANGED <<mutexVars, futex, inUse, registered, queued, boundVars>>

RunNext ==
    /\ At(Main, "run", "next")
    /\ queued' = [queued EXCEPT ![Main] = IF @ = 0 THEN 0 ELSE @ - 1]
    /\ Call(Main, UnlockFrame(Main), IF queued[Main] = 0 THEN "end" ELSE "call")
    /\ UNCHANGED <<mutexVars, futex, inUse, registered, processing, boundVars>>

(* The function itself may take a lock or proxy work of its own, but does  *)
(* not wait for other threads.                                             *)
RunCall ==
    /\ At(Main, "run", "call")
    /\ \/ Goto(Main, "again", 0) /\ UNCHANGED taskCalls
       \/ /\ taskCalls < MaxTaskCalls
          /\ taskCalls' = taskCalls + 1
          /\ \E frame \in {Section("allocator")} \cup {Proxy(t) : t \in Threads} :
                Call(Main, frame, "again")
    /\ UNCHANGED <<mutexVars, futex, queueVars, calls>>

RunAgain ==
    /\ At(Main, "run", "again")
    /\ Call(Main, LockFrame(Main), "next")
    /\ UNCHANGED <<mutexVars, futex, queueVars, boundVars>>

RunEnd ==
    /\ At(Main, "run", "end")
    /\ processing' = FALSE
    /\ Return(Main)
    /\ UNCHANGED <<mutexVars, futex, inUse, registered, queued, boundVars>>

-----------------------------------------------------------------------------
(* What the program calls. *)

Begin(t, frame) ==
    /\ ~Busy(t)
    /\ calls[t] < MaxCalls(t)
    /\ calls' = [calls EXCEPT ![t] = @ + 1]
    /\ stack' = [stack EXCEPT ![t] = <<frame>>]
    /\ UNCHANGED <<mutexVars, futex, queueVars, taskCalls>>

BeginSection(t) == \E m \in {"allocator"} \cup UserLocks : Begin(t, Section(m))

BeginTimed == \E m \in TimedLocks : Begin(Main, TimedSection(m))

BeginProxy(t) == \E target \in (IF t = Main THEN Threads ELSE {Main}) : Begin(t, Proxy(target))

BeginExecute == Begin(Main, Execute)

(* The event loop of Main delivers the notification of its task queue. *)
Notified ==
    /\ ~Busy(Main)
    /\ queued[Main] > 0
    /\ stack' = [stack EXCEPT ![Main] = <<RunTasks>>]
    /\ UNCHANGED <<mutexVars, futex, queueVars, boundVars>>

(* The step a thread inside a function takes. *)
Step(t) ==
    \/ LockTry(t) \/ LockRead(t) \/ LockInc(t) \/ LockMark(t) \/ LockDec(t)
    \/ WorkerWait(t) \/ WorkerWoken(t)
    \/ UnlockWaiters(t) \/ UnlockSwap(t) \/ UnlockWake(t)
    \/ SectionEnter(t) \/ SectionLeave(t)
    \/ ProxyEnter(t) \/ ProxyAdd(t) \/ ProxyAdded(t) \/ ProxySend(t)
    \/ ProxyGrow(t) \/ ProxyEnqueue(t)

MainStep ==
    \/ MainRegister \/ MainYield \/ MainWoken \/ MainCheck
    \/ ExecuteEnter \/ ExecuteFind \/ ExecuteFound \/ ExecuteDone
    \/ RunEnter \/ RunNext \/ RunCall \/ RunAgain \/ RunEnd

(* Every call has returned and no more are made. *)
Rest ==
    /\ \A t \in Threads : ~Busy(t)
    /\ UNCHANGED vars

Next ==
    \/ \E t \in Threads : Step(t) \/ BeginSection(t) \/ BeginProxy(t)
    \/ MainStep \/ MainTimeout
    \/ BeginTimed \/ BeginExecute \/ Notified
    \/ Rest

Spec == Init /\ [][Next]_vars

(* Every thread that is inside a function goes on with it: the browser     *)
(* runs Workers in parallel and the main thread spins.  No thread has to   *)
(* make a call, and no time has to pass.                                   *)
FairSpec ==
    /\ Spec
    /\ \A t \in Workers : WF_vars(Step(t))
    /\ WF_vars(Step(Main) \/ MainStep)

-----------------------------------------------------------------------------
(* No thread waits for a mutex it holds itself further down its stack: the *)
(* guards of emscripten_proxy_execute_queue and do_proxy on                *)
(* system_queue_in_use keep a system function that runs the system queue   *)
(* from locking it again.                                                  *)
NoSelfDeadlock ==
    \A t \in Threads : Busy(t) /\ Top(t).op = "lock" => owner[Reached(t)] # t

(* The assertions of emscripten_futex_wait.c and emscripten_futex_wake.c:  *)
(* nested waits never find another wait registered, and the main thread    *)
(* never finds its own wait to wake.                                       *)
RegisterIsSingle ==
    /\ At(Main, "lock", "wait") => futex = None
    /\ At(Main, "lock", "check") => futex = None
    /\ At(Main, "lock", "spin") => futex \in {None, Reached(Main)}
    /\ At(Main, "unlock", "wake") => futex = None

(* However deep the system queue is entered again, one frame at most takes *)
(* tasks from Main's task queue, so tasks are run in order and none is     *)
(* started inside another.                                                 *)
TasksDoNotNest ==
    Cardinality({i \in DOMAIN stack[Main] : stack[Main][i].op = "run"}) <= 1

(* Wake-ups are not lost: while a worker sleeps on a free mutex, somebody  *)
(* is about to wake a sleeper, or is awake in pthread_mutex_lock and will  *)
(* wake one when it unlocks.                                               *)
Attends(t, m) ==
    \E i \in DOMAIN stack[t] :
        /\ stack[t][i].m = m
        /\ \/ stack[t][i].op = "lock" /\ stack[t][i].v # TimedOut /\ t \notin asleep[m]
           \/ stack[t][i].op = "unlock" /\ stack[t][i].pc = "wake"

NoStrandedWaiter ==
    \A m \in Locks :
        asleep[m] # {} /\ word[m] = Unlocked => \E t \in Threads : Attends(t, m)

(* Every call returns: nobody waits for good for a mutex, however waits of *)
(* the main thread nest.                                                   *)
EveryCallReturns == \A t \in Threads : Busy(t) ~> ~Busy(t)
=============================================================================
