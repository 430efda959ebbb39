------------------------------ MODULE Proxying ------------------------------
(***************************************************************************)
(* Calls between pthreads: proxying.c on top of em_task_queue.c on top of  *)
(* thread_mailbox.c, and the event loop of libpthread.js that drives them. *)
(*                                                                         *)
(* A call is a task in the task queue its proxying queue keeps for the     *)
(* target thread.  A task queue with work announces itself by a message in *)
(* the target's mailbox, and a mailbox with messages by an event for the   *)
(* target's event loop; each of the two has a notification flag that keeps *)
(* a second announcement from being sent while one is on its way.  A       *)
(* thread that exits closes its mailbox, waits until no sender holds it,   *)
(* and cancels what is left.                                               *)
(*                                                                         *)
(* What runs under a mutex, and an atomic instruction, is one step.  The   *)
(* ring buffer inside a queue is the subject of TaskQueue; here a queue is *)
(* a sequence.                                                             *)
(***************************************************************************)
EXTENDS Integers, Sequences, FiniteSets

CONSTANTS Clients,       \* threads that make calls
          Servers,       \* threads that calls are made to
          Queues,        \* the proxying queues
          Kinds,         \* the entry points in use, a subset of CallKinds
          MortalThreads, \* threads that may exit
          MaxCalls,      \* bound: calls made in a behaviour
          MaxReuse,      \* bound: pthread structs reused in a behaviour
          HasWaitAsync,  \* the environment implements Atomics.waitAsync
          MallocMayFail, \* an allocation may return NULL
          MayExitInTask, \* a proxied function may call pthread_exit
          None           \* no queue, task or send

Threads == Clients \cup Servers

Calls == 1 .. MaxCalls

(* proxy_async; proxy_sync; proxy_callback and proxy_promise; and         *)
(* proxy_callback_with_ctx with a NULL cancel handler.                    *)
CallKinds == {"async", "sync", "callback", "callback_no_cancel"}

CallRecords == [kind : CallKinds, caller : Threads, target : Threads, queue : Queues]

(* A task with its cancel handler: func is cancelled by cancel_ctx (or    *)
(* not at all if the call is asynchronous), the other two by free_ctx.    *)
Tasks == [fn : {"func", "callback", "cancel"}, call : Calls]

SendSteps == {"lookup", "ref", "enqueue", "exchange", "post", "exchangeMailbox",
              "notify", "unref"}

Sends == [at : SendSteps, queue : Queues, to : Threads, task : Tasks, ok : BOOLEAN]

ASSUME ProxyingAssumption ==
    /\ Kinds \subseteq CallKinds
    /\ MortalThreads \subseteq Threads
    /\ MaxCalls \in Nat /\ MaxReuse \in Nat
    /\ {HasWaitAsync, MallocMayFail, MayExitInTask} \subseteq BOOLEAN
    /\ IsFiniteSet(Clients) /\ IsFiniteSet(Servers)
    /\ None \notin Queues \cup Tasks \cup Sends \cup CallRecords

VARIABLES
    \* struct pthread: the mailbox and how its thread is told of messages
    mailbox,       \* the proxying queues whose task queue has announced work
    mailboxNote,   \* mailbox->notification
    mailboxFreed,  \* em_task_queue_destroy has been called on the mailbox
    refcount,      \* mailbox_refcount
    waitingAsync,  \* waiting_async
    waits,         \* Atomics.waitAsync promises outstanding in the Worker
    wakes,         \* checkMailbox events on their way to the Worker
    \* em_task_queue: for each thread and each proxying queue
    tasks, note, processing,
    life,          \* absent, live, zombie or freed
    queueOpen,     \* em_proxying_queue_destroy has not been called
    \* em_proxying_ctx and the caller's side of a call
    call,          \* kind, caller, target and queue, or None before it is made
    ctx,           \* none, pending, done, canceled or freed
    active,        \* the active_ctxs list of each thread
    result,        \* what the proxy function returned: nothing, true, false
    heard,         \* which of callback and cancel ran on the caller
    runs,          \* how often the function was entered
    \* the threads
    pc, cur, job,
    fromMail,      \* the queue is being executed for a notification
    send,          \* the em_task_queue_send in progress, or None
    reused         \* pthread structs reused so far

mailVars == <<mailbox, mailboxNote, mailboxFreed, refcount, waitingAsync, waits, wakes>>
queueVars == <<tasks, note, processing, life, queueOpen>>
callVars == <<call, ctx, active, result, heard, runs>>
threadVars == <<pc, cur, job, fromMail, send, reused>>
vars == <<mailVars, queueVars, callVars, threadVars>>

Notification == {"none", "received", "pending"}

PCs == {"starting", "loop", "check", "mail", "receive", "drain", "run", "finish",
        "cas", "mailCas", "waiting", "exit", "closing", "cancelMail", "cancelTasks",
        "dtors", "dead"}

TypeOK ==
    /\ mailbox \in [Threads -> Seq(Queues)]
    /\ mailboxNote \in [Threads -> Notification]
    /\ mailboxFreed \in [Threads -> BOOLEAN]
    /\ refcount \in [Threads -> Nat]
    /\ waitingAsync \in [Threads -> BOOLEAN]
    /\ waits \in [Threads -> Nat]
    /\ wakes \in [Threads -> Nat]
    /\ tasks \in [Threads -> [Queues -> Seq(Tasks)]]
    /\ note \in [Threads -> [Queues -> Notification]]
    /\ processing \in [Threads -> [Queues -> BOOLEAN]]
    /\ life \in [Threads -> [Queues -> {"absent", "live", "zombie", "freed"}]]
    /\ queueOpen \in [Queues -> BOOLEAN]
    /\ call \in [Calls -> CallRecords \cup {None}]
    /\ ctx \in [Calls -> {"none", "pending", "done", "canceled", "freed"}]
    /\ active \in [Threads -> Seq(Calls)]
    /\ result \in [Calls -> {"nothing", "true", "false"}]
    /\ heard \in [Calls -> {"nothing", "callback", "cancel"}]
    /\ runs \in [Calls -> Nat]
    /\ pc \in [Threads -> PCs]
    /\ cur \in [Threads -> Queues \cup {None}]
    /\ job \in [Threads -> Tasks \cup {None}]
    /\ fromMail \in [Threads -> BOOLEAN]
    /\ send \in [Threads -> Sends \cup {None}]
    /\ reused \in Nat

(* All threads exist and are about to await their first notification.     *)
Init ==
    /\ mailbox = [t \in Threads |-> <<>>]
    /\ mailboxNote = [t \in Threads |-> "none"]
    /\ mailboxFreed = [t \in Threads |-> FALSE]
    /\ refcount = [t \in Threads |-> 1]
    /\ waitingAsync = [t \in Threads |-> FALSE]
    /\ waits = [t \in Threads |-> 0]
    /\ wakes = [t \in Threads |-> 0]
    /\ tasks = [t \in Threads |-> [q \in Queues |-> <<>>]]
    /\ note = [t \in Threads |-> [q \in Queues |-> "none"]]
    /\ processing = [t \in Threads |-> [q \in Queues |-> FALSE]]
    /\ life = [t \in Threads |-> [q \in Queues |-> "absent"]]
    /\ queueOpen = [q \in Queues |-> TRUE]
    /\ call = [c \in Calls |-> None]
    /\ ctx = [c \in Calls |-> "none"]
    /\ active = [t \in Threads |-> <<>>]
    /\ result = [c \in Calls |-> "nothing"]
    /\ heard = [c \in Calls |-> "nothing"]
    /\ runs = [c \in Calls |-> 0]
    /\ pc = [t \in Threads |-> "starting"]
    /\ cur = [t \in Threads |-> None]
    /\ job = [t \in Threads |-> None]
    /\ fromMail = [t \in Threads |-> FALSE]
    /\ send = [t \in Threads |-> None]
    /\ reused = 0

(***************************************************************************)
(* Sending: do_proxy and em_task_queue_send.                               *)
(***************************************************************************)

SendOf(q, to, fn, c) ==
    [at |-> "lookup", queue |-> q, to |-> to, task |-> [fn |-> fn, call |-> c], ok |-> TRUE]

AtSend(t, step) == send[t] # None /\ send[t].at = step

GoSend(t, step) == send' = [send EXCEPT ![t].at = step]

(* Mutant of SendFails: only the entry points free the context. *)
SendFailsAnswerKept(t) ==
    LET c == send[t].task.call
        mine == send[t].task.fn = "func" IN
    /\ send' = [send EXCEPT ![t] = None]
    /\ ctx' = IF mine /\ call[c].kind # "async" THEN [ctx EXCEPT ![c] = "freed"] ELSE ctx
    /\ result' = IF mine THEN [result EXCEPT ![c] = "false"] ELSE result
    /\ UNCHANGED <<pc, job>>

(* The send failed.  Whoever started it frees the context: the entry      *)
(* points also return false, while emscripten_proxy_finish and cancel_ctx *)
(* have nobody to tell.                                                   *)
SendFails(t) ==
    LET c == send[t].task.call IN
    /\ send' = [send EXCEPT ![t] = None]
    /\ ctx' = IF call[c].kind = "async" THEN ctx ELSE [ctx EXCEPT ![c] = "freed"]
    /\ result' = IF send[t].task.fn = "func" THEN [result EXCEPT ![c] = "false"] ELSE result
    /\ UNCHANGED <<pc, job>>

(* The send succeeded.  A synchronous caller now waits for its context;   *)
(* the other entry points return true.                                    *)
SendSucceeds(t) ==
    LET c == send[t].task.call
        waiter == send[t].task.fn = "func" /\ call[c].kind = "sync" IN
    /\ send' = [send EXCEPT ![t] = None]
    /\ pc' = IF waiter THEN [pc EXCEPT ![t] = "waiting"] ELSE pc
    /\ job' = IF waiter THEN [job EXCEPT ![t] = send[t].task] ELSE job
    /\ result' = IF send[t].task.fn = "func" /\ ~waiter
                 THEN [result EXCEPT ![c] = "true"] ELSE result
    /\ UNCHANGED ctx

(* Mutant of Culled: the notification flag is not looked at. *)
CulledAll == [t \in Threads |-> [q \in Queues |->
                 IF life[t][q] = "zombie" THEN "freed" ELSE life[t][q]]]

(* cull_zombies, run by every em_task_queue_create: free the destroyed    *)
(* queues that no notification refers to.  It gives up if another thread  *)
(* holds the list.                                                        *)
Culled == [t \in Threads |-> [q \in Queues |->
              IF life[t][q] = "zombie" /\ note[t][q] = "none" THEN "freed" ELSE life[t][q]]]

(* A thread calls one of the entry points: the context is initialised.    *)
Issue(t, s, q, k, c) ==
    /\ pc[t] = "loop" /\ send[t] = None
    /\ queueOpen[q]
    /\ k = "sync" => s # t
    /\ call[c] = None /\ \A d \in Calls : d < c => call[d] # None
    /\ call' = [call EXCEPT ![c] = [kind |-> k, caller |-> t, target |-> s, queue |-> q]]
    /\ ctx' = [ctx EXCEPT ![c] = IF k = "async" THEN "none" ELSE "pending"]
    /\ send' = [send EXCEPT ![t] = SendOf(q, s, "func", c)]
    /\ UNCHANGED <<mailVars, queueVars, active, result, heard, runs,
                   pc, cur, job, fromMail, reused>>

(* The same when malloc returns no context for a callback or a promise.   *)
IssueFails(t, s, q, k, c) ==
    /\ MallocMayFail
    /\ pc[t] = "loop" /\ send[t] = None
    /\ queueOpen[q]
    /\ k \in {"callback", "callback_no_cancel"}
    /\ call[c] = None /\ \A d \in Calls : d < c => call[d] # None
    /\ call' = [call EXCEPT ![c] = [kind |-> k, caller |-> t, target |-> s, queue |-> q]]
    /\ result' = [result EXCEPT ![c] = "false"]
    /\ UNCHANGED <<mailVars, queueVars, ctx, active, heard, runs, threadVars>>

(* get_or_add_tasks_for_thread under the proxying queue's mutex. *)
Lookup(t) ==
    /\ AtSend(t, "lookup")
    /\ LET q == send[t].queue
           to == send[t].to IN
       IF life[to][q] # "absent" THEN UNCHANGED life
       ELSE \E l \in {life, Culled} : life' = [l EXCEPT ![to][q] = "live"]
    /\ GoSend(t, "ref")
    /\ UNCHANGED <<mailVars, tasks, note, processing, queueOpen, callVars,
                   pc, cur, job, fromMail, reused>>

(* The same when realloc or em_task_queue_create returns NULL. *)
LookupFails(t) ==
    /\ MallocMayFail
    /\ AtSend(t, "lookup")
    /\ life[send[t].to][send[t].queue] = "absent"
    /\ \E l \in {life, Culled} : life' = l
    /\ SendFails(t)
    /\ UNCHANGED <<mailVars, tasks, note, processing, queueOpen, call, active, heard, runs,
                   cur, fromMail, reused>>

(* emscripten_thread_mailbox_ref on a mailbox that is not closed. *)
Ref(t) ==
    /\ AtSend(t, "ref")
    /\ refcount[send[t].to] # 0
    /\ refcount' = [refcount EXCEPT ![send[t].to] = @ + 1]
    /\ GoSend(t, "enqueue")
    /\ UNCHANGED <<mailbox, mailboxNote, mailboxFreed, waitingAsync, waits, wakes,
                   queueVars, callVars, pc, cur, job, fromMail, reused>>

(* The mailbox is already closed. *)
RefRefused(t) ==
    /\ AtSend(t, "ref")
    /\ refcount[send[t].to] = 0
    /\ SendFails(t)
    /\ UNCHANGED <<mailVars, queueVars, call, active, heard, runs, cur, fromMail, reused>>

Enqueue(t) ==
    /\ AtSend(t, "enqueue")
    /\ tasks' = [tasks EXCEPT ![send[t].to][send[t].queue] = Append(@, send[t].task)]
    /\ GoSend(t, "exchange")
    /\ UNCHANGED <<mailVars, note, processing, life, queueOpen, callVars,
                   pc, cur, job, fromMail, reused>>

(* Mutant of EnqueueFails: the mailbox is released here and at the end. *)
EnqueueFailsTwice(t) ==
    /\ MallocMayFail
    /\ AtSend(t, "enqueue")
    /\ refcount' = [refcount EXCEPT ![send[t].to] = @ - 1]
    /\ send' = [send EXCEPT ![t].at = "unref", ![t].ok = FALSE]
    /\ UNCHANGED <<mailbox, mailboxNote, mailboxFreed, waitingAsync, waits, wakes,
                   queueVars, callVars, pc, cur, job, fromMail, reused>>

(* em_task_queue_grow could not allocate: release the mailbox and fail. *)
EnqueueFails(t) ==
    /\ MallocMayFail
    /\ AtSend(t, "enqueue")
    /\ send' = [send EXCEPT ![t].at = "unref", ![t].ok = FALSE]
    /\ UNCHANGED <<mailVars, queueVars, callVars, pc, cur, job, fromMail, reused>>

(* Mark the task queue; a notification that is pending already serves. *)
Exchange(t) ==
    /\ AtSend(t, "exchange")
    /\ LET q == send[t].queue
           to == send[t].to IN
       /\ note' = [note EXCEPT ![to][q] = "pending"]
       /\ GoSend(t, IF note[to][q] = "pending" THEN "unref" ELSE "post")
    /\ UNCHANGED <<mailVars, tasks, processing, life, queueOpen, callVars,
                   pc, cur, job, fromMail, reused>>

(* emscripten_thread_mailbox_send: the message, then the mailbox's flag.  *)
Post(t) ==
    /\ AtSend(t, "post")
    /\ mailbox' = [mailbox EXCEPT ![send[t].to] = Append(@, send[t].queue)]
    /\ GoSend(t, "exchangeMailbox")
    /\ UNCHANGED <<mailboxNote, mailboxFreed, refcount, waitingAsync, waits, wakes,
                   queueVars, callVars, pc, cur, job, fromMail, reused>>

ExchangeMailbox(t) ==
    /\ AtSend(t, "exchangeMailbox")
    /\ mailboxNote' = [mailboxNote EXCEPT ![send[t].to] = "pending"]
    /\ GoSend(t, IF mailboxNote[send[t].to] = "pending" THEN "unref" ELSE "notify")
    /\ UNCHANGED <<mailbox, mailboxFreed, refcount, waitingAsync, waits, wakes,
                   queueVars, callVars, pc, cur, job, fromMail, reused>>

(* Atomics.notify resolves every waitAsync promise on the pthread struct; *)
(* without one, a checkMailbox message is posted.                         *)
Notify(t) ==
    /\ AtSend(t, "notify")
    /\ LET to == send[t].to IN
       IF waitingAsync[to]
       THEN /\ wakes' = [wakes EXCEPT ![to] = @ + waits[to]]
            /\ waits' = [waits EXCEPT ![to] = 0]
       ELSE /\ wakes' = [wakes EXCEPT ![to] = @ + 1]
            /\ UNCHANGED waits
    /\ GoSend(t, "unref")
    /\ UNCHANGED <<mailbox, mailboxNote, mailboxFreed, refcount, waitingAsync,
                   queueVars, callVars, pc, cur, job, fromMail, reused>>

(* emscripten_thread_mailbox_unref, and the send returns. *)
Unref(t) ==
    /\ AtSend(t, "unref")
    /\ refcount' = [refcount EXCEPT ![send[t].to] = @ - 1]
    /\ IF send[t].ok THEN SendSucceeds(t) ELSE SendFails(t)
    /\ UNCHANGED <<mailbox, mailboxNote, mailboxFreed, waitingAsync, waits, wakes,
                   queueVars, call, active, heard, runs, cur, fromMail, reused>>

SendStep(t) ==
    \/ Lookup(t) \/ LookupFails(t) \/ Ref(t) \/ RefRefused(t) \/ Enqueue(t)
    \/ EnqueueFails(t) \/ Exchange(t) \/ Post(t) \/ ExchangeMailbox(t)
    \/ Notify(t) \/ Unref(t)

(* Mutant of SyncReturns: a canceled call counts as completed. *)
SyncReturnsTrue(t) ==
    /\ pc[t] = "waiting"
    /\ ctx[job[t].call] # "pending"
    /\ result' = [result EXCEPT ![job[t].call] = "true"]
    /\ ctx' = [ctx EXCEPT ![job[t].call] = "freed"]
    /\ pc' = [pc EXCEPT ![t] = "loop"]
    /\ job' = [job EXCEPT ![t] = None]
    /\ UNCHANGED <<mailVars, queueVars, call, active, heard, runs, cur, fromMail, send, reused>>

(* The wait loop of emscripten_proxy_sync_with_ctx ends; the context, on  *)
(* the caller's stack, goes out of scope.                                 *)
SyncReturns(t) ==
    /\ pc[t] = "waiting"
    /\ LET c == job[t].call IN
       /\ ctx[c] # "pending"
       /\ result' = [result EXCEPT ![c] = IF ctx[c] = "done" THEN "true" ELSE "false"]
       /\ ctx' = [ctx EXCEPT ![c] = "freed"]
    /\ pc' = [pc EXCEPT ![t] = "loop"]
    /\ job' = [job EXCEPT ![t] = None]
    /\ UNCHANGED <<mailVars, queueVars, call, active, heard, runs, cur, fromMail, send, reused>>

(***************************************************************************)
(* Receiving: the event loop, the mailbox and the task queues.             *)
(***************************************************************************)

(* _emscripten_thread_mailbox_await: wait for the next notification. *)
Await(t) ==
    /\ waits' = [waits EXCEPT ![t] = IF HasWaitAsync THEN @ + 1 ELSE @]
    /\ waitingAsync' = [waitingAsync EXCEPT ![t] = HasWaitAsync]

(* The Worker runs the thread: it awaits notifications, then user code.   *)
Start(t) ==
    /\ pc[t] = "starting"
    /\ Await(t)
    /\ pc' = [pc EXCEPT ![t] = "loop"]
    /\ UNCHANGED <<mailbox, mailboxNote, mailboxFreed, refcount, wakes, queueVars, callVars,
                   cur, job, fromMail, send, reused>>

(* Mutant of CheckMailbox: the thread does not await again. *)
CheckMailboxOnce(t) ==
    /\ pc[t] = "loop" /\ send[t] = None
    /\ wakes[t] > 0
    /\ wakes' = [wakes EXCEPT ![t] = @ - 1]
    /\ pc' = [pc EXCEPT ![t] = "check"]
    /\ UNCHANGED <<mailbox, mailboxNote, mailboxFreed, refcount, waitingAsync, waits,
                   queueVars, callVars, cur, job, fromMail, send, reused>>

(* checkMailbox on a live thread awaits again before it looks.            *)
CheckMailbox(t) ==
    /\ pc[t] = "loop" /\ send[t] = None
    /\ wakes[t] > 0
    /\ wakes' = [wakes EXCEPT ![t] = @ - 1]
    /\ Await(t)
    /\ pc' = [pc EXCEPT ![t] = "check"]
    /\ UNCHANGED <<mailbox, mailboxNote, mailboxFreed, refcount, queueVars, callVars,
                   cur, job, fromMail, send, reused>>

(* checkMailbox in a Worker whose thread has exited does nothing.         *)
LateWake(t) ==
    /\ pc[t] = "dead"
    /\ wakes[t] > 0
    /\ wakes' = [wakes EXCEPT ![t] = @ - 1]
    /\ UNCHANGED <<mailbox, mailboxNote, mailboxFreed, refcount, waitingAsync, waits,
                   queueVars, callVars, threadVars>>

(* _emscripten_check_mailbox marks the notification received. *)
MailReceived(t) ==
    /\ pc[t] = "check"
    /\ mailboxNote' = [mailboxNote EXCEPT ![t] = "received"]
    /\ pc' = [pc EXCEPT ![t] = "mail"]
    /\ UNCHANGED <<mailbox, mailboxFreed, refcount, waitingAsync, waits, wakes,
                   queueVars, callVars, cur, job, fromMail, send, reused>>

(* em_task_queue_execute on the mailbox: the next message, or the end.    *)
NextMail(t) ==
    /\ pc[t] = "mail"
    /\ IF mailbox[t] = <<>>
       THEN /\ pc' = [pc EXCEPT ![t] = "mailCas"]
            /\ UNCHANGED <<mailbox, cur>>
       ELSE /\ pc' = [pc EXCEPT ![t] = "receive"]
            /\ cur' = [cur EXCEPT ![t] = Head(mailbox[t])]
            /\ mailbox' = [mailbox EXCEPT ![t] = Tail(@)]
    /\ UNCHANGED <<mailboxNote, mailboxFreed, refcount, waitingAsync, waits, wakes,
                   queueVars, callVars, job, fromMail, send, reused>>

(* receive_notification marks the task queue and starts to execute it.    *)
ReceiveNotification(t) ==
    /\ pc[t] = "receive"
    /\ note' = [note EXCEPT ![t][cur[t]] = "received"]
    /\ processing' = [processing EXCEPT ![t][cur[t]] = TRUE]
    /\ fromMail' = [fromMail EXCEPT ![t] = TRUE]
    /\ pc' = [pc EXCEPT ![t] = "drain"]
    /\ UNCHANGED <<mailVars, tasks, life, queueOpen, callVars, cur, job, send, reused>>

(* emscripten_proxy_execute_queue, called by user code.  Without work, or *)
(* while the queue is being processed, it has no effect.                  *)
ExecuteQueue(t, q) ==
    /\ pc[t] = "loop" /\ send[t] = None
    /\ queueOpen[q] /\ life[t][q] = "live"
    /\ ~processing[t][q] /\ tasks[t][q] # <<>>
    /\ processing' = [processing EXCEPT ![t][q] = TRUE]
    /\ cur' = [cur EXCEPT ![t] = q]
    /\ fromMail' = [fromMail EXCEPT ![t] = FALSE]
    /\ pc' = [pc EXCEPT ![t] = "drain"]
    /\ UNCHANGED <<mailVars, tasks, note, life, queueOpen, callVars, job, send, reused>>

(* em_task_queue_execute: the next task, or the end of the loop.          *)
NextTask(t) ==
    /\ pc[t] = "drain" /\ send[t] = None
    /\ LET q == cur[t] IN
       IF tasks[t][q] = <<>>
       THEN /\ processing' = [processing EXCEPT ![t][q] = FALSE]
            /\ pc' = [pc EXCEPT ![t] = IF fromMail[t] THEN "cas" ELSE "loop"]
            /\ cur' = [cur EXCEPT ![t] = IF fromMail[t] THEN q ELSE None]
            /\ UNCHANGED <<tasks, job>>
       ELSE /\ job' = [job EXCEPT ![t] = Head(tasks[t][q])]
            /\ tasks' = [tasks EXCEPT ![t][q] = Tail(@)]
            /\ pc' = [pc EXCEPT ![t] = "run"]
            /\ UNCHANGED <<processing, cur>>
    /\ UNCHANGED <<mailVars, note, life, queueOpen, callVars, fromMail, send, reused>>

(* The thread runs the function of a call, with its context in the list   *)
(* of active ones (call_with_ctx).  The function may finish the context,  *)
(* keep it for later, or, if it may, call pthread_exit, which gives up    *)
(* the execution of the queue.                                            *)
RunFunction(t, next) ==
    /\ pc[t] = "run" /\ job[t].fn = "func"
    /\ LET c == job[t].call
           hasCtx == call[c].kind # "async" IN
       /\ next = "finish" => hasCtx
       /\ next = "exit" => MayExitInTask /\ t \in MortalThreads
       /\ runs' = [runs EXCEPT ![c] = @ + 1]
       /\ active' = IF hasCtx THEN [active EXCEPT ![t] = Append(@, c)] ELSE active
    /\ pc' = [pc EXCEPT ![t] = next]
    /\ job' = IF next = "finish" THEN job ELSE [job EXCEPT ![t] = None]
    /\ cur' = IF next = "exit" THEN [cur EXCEPT ![t] = None] ELSE cur
    /\ fromMail' = IF next = "exit" THEN [fromMail EXCEPT ![t] = FALSE] ELSE fromMail
    /\ UNCHANGED <<mailVars, queueVars, call, ctx, result, heard, send, reused>>

(* remove_active_ctx: c, which is in the list, is unlinked from it. *)
Without(list, c) ==
    LET i == CHOOSE j \in 1 .. Len(list) : list[j] = c IN
    [j \in 1 .. Len(list) - 1 |-> list[IF j < i THEN j ELSE j + 1]]

(* Mutant of FinishContext: the context stays in the list. *)
FinishKeepsActive(t, c) ==
    /\ \/ /\ call[c].kind = "sync"
          /\ ctx' = [ctx EXCEPT ![c] = "done"]
          /\ UNCHANGED send
       \/ /\ call[c].kind # "sync"
          /\ send' = [send EXCEPT ![t] = SendOf(call[c].queue, call[c].caller, "callback", c)]
          /\ UNCHANGED ctx
    /\ UNCHANGED <<mailVars, queueVars, call, active, result, heard, runs, cur, fromMail, reused>>

(* emscripten_proxy_finish: wake the synchronous caller, or send the      *)
(* callback back.                                                         *)
FinishContext(t, c) ==
    /\ active' = [active EXCEPT ![t] = Without(@, c)]
    /\ \/ /\ call[c].kind = "sync"
          /\ ctx' = [ctx EXCEPT ![c] = "done"]
          /\ UNCHANGED send
       \/ /\ call[c].kind # "sync"
          /\ send' = [send EXCEPT ![t] = SendOf(call[c].queue, call[c].caller, "callback", c)]
          /\ UNCHANGED ctx
    /\ UNCHANGED <<mailVars, queueVars, call, result, heard, runs, cur, fromMail, reused>>

FinishInTask(t) ==
    /\ pc[t] = "finish"
    /\ FinishContext(t, job[t].call)
    /\ pc' = [pc EXCEPT ![t] = "drain"]
    /\ job' = [job EXCEPT ![t] = None]

FinishLater(t, c) ==
    /\ pc[t] = "loop" /\ send[t] = None
    /\ \E i \in 1 .. Len(active[t]) : active[t][i] = c
    /\ FinishContext(t, c)
    /\ UNCHANGED <<pc, job>>

(* call_callback_then_free_ctx and call_cancel_then_free_ctx. *)
RunAnswer(t) ==
    /\ pc[t] = "run" /\ job[t].fn # "func"
    /\ heard' = [heard EXCEPT ![job[t].call] = job[t].fn]
    /\ ctx' = [ctx EXCEPT ![job[t].call] = "freed"]
    /\ pc' = [pc EXCEPT ![t] = "drain"]
    /\ job' = [job EXCEPT ![t] = None]
    /\ UNCHANGED <<mailVars, queueVars, call, active, result, runs, cur, fromMail, send, reused>>

(* Mutant of Cleared: a plain store instead of the compare-exchange. *)
ClearedAlways(n) == "none"

(* A flag that no sender has set again in the meantime is cleared. *)
Cleared(n) == IF n = "received" THEN "none" ELSE n

(* The end of receive_notification. *)
QueueDone(t) ==
    /\ pc[t] = "cas"
    /\ note' = [note EXCEPT ![t][cur[t]] = Cleared(@)]
    /\ cur' = [cur EXCEPT ![t] = None]
    /\ fromMail' = [fromMail EXCEPT ![t] = FALSE]
    /\ pc' = [pc EXCEPT ![t] = "mail"]
    /\ UNCHANGED <<mailVars, tasks, processing, life, queueOpen, callVars, job, send, reused>>

(* The end of _emscripten_check_mailbox. *)
MailDone(t) ==
    /\ pc[t] = "mailCas"
    /\ mailboxNote' = [mailboxNote EXCEPT ![t] = Cleared(@)]
    /\ pc' = [pc EXCEPT ![t] = "loop"]
    /\ UNCHANGED <<mailbox, mailboxFreed, refcount, waitingAsync, waits, wakes,
                   queueVars, callVars, cur, job, fromMail, send, reused>>

ReceiveStep(t) ==
    \/ Start(t) \/ CheckMailbox(t) \/ LateWake(t) \/ MailReceived(t) \/ NextMail(t)
    \/ ReceiveNotification(t) \/ NextTask(t) \/ FinishInTask(t) \/ RunAnswer(t)
    \/ QueueDone(t) \/ MailDone(t)
    \/ \E next \in {"drain", "finish"} : RunFunction(t, next)

(***************************************************************************)
(* Exiting: _emscripten_thread_exit.                                       *)
(***************************************************************************)

(* The thread returns, exits or is canceled outside of a proxied call.    *)
Exit(t) ==
    /\ t \in MortalThreads
    /\ pc[t] = "loop" /\ send[t] = None
    /\ pc' = [pc EXCEPT ![t] = "exit"]
    /\ UNCHANGED <<mailVars, queueVars, callVars, cur, job, fromMail, send, reused>>

(* A proxied function calls pthread_exit. *)
ExitInTask(t) == RunFunction(t, "exit")

(* _emscripten_thread_mailbox_shutdown gives up the thread's own hold ... *)
CloseMailbox(t) ==
    /\ pc[t] = "exit"
    /\ refcount' = [refcount EXCEPT ![t] = @ - 1]
    /\ pc' = [pc EXCEPT ![t] = "closing"]
    /\ UNCHANGED <<mailbox, mailboxNote, mailboxFreed, waitingAsync, waits, wakes,
                   queueVars, callVars, cur, job, fromMail, send, reused>>

(* Mutant of MailboxClosed: the thread does not wait for the senders. *)
MailboxClosedAtOnce(t) ==
    /\ pc[t] = "closing"
    /\ pc' = [pc EXCEPT ![t] = "cancelMail"]
    /\ UNCHANGED <<mailVars, queueVars, callVars, cur, job, fromMail, send, reused>>

(* ... and waits on the futex until the last sender has gone. *)
MailboxClosed(t) ==
    /\ pc[t] = "closing"
    /\ refcount[t] = 0
    /\ pc' = [pc EXCEPT ![t] = "cancelMail"]
    /\ UNCHANGED <<mailVars, queueVars, callVars, cur, job, fromMail, send, reused>>

(* em_task_queue_cancel on the mailbox, then em_task_queue_destroy. *)
CancelMail(t) ==
    /\ pc[t] = "cancelMail"
    /\ IF mailbox[t] = <<>>
       THEN /\ mailboxNote' = [mailboxNote EXCEPT ![t] = "none"]
            /\ mailboxFreed' = [mailboxFreed EXCEPT ![t] = TRUE]
            /\ pc' = [pc EXCEPT ![t] = "dtors"]
            /\ UNCHANGED <<mailbox, cur>>
       ELSE /\ cur' = [cur EXCEPT ![t] = Head(mailbox[t])]
            /\ mailbox' = [mailbox EXCEPT ![t] = Tail(@)]
            /\ pc' = [pc EXCEPT ![t] = "cancelTasks"]
            /\ UNCHANGED <<mailboxNote, mailboxFreed>>
    /\ UNCHANGED <<refcount, waitingAsync, waits, wakes, queueVars, callVars,
                   job, fromMail, send, reused>>

(* cancel_ctx: wake the synchronous caller, send the cancel handler back, *)
(* or, without one, free the context.                                     *)
CancelCtx(t, c) ==
    \/ /\ call[c].kind = "sync"
       /\ ctx' = [ctx EXCEPT ![c] = "canceled"]
       /\ UNCHANGED send
    \/ /\ call[c].kind = "callback"
       /\ send' = [send EXCEPT ![t] = SendOf(call[c].queue, call[c].caller, "cancel", c)]
       /\ UNCHANGED ctx
    \/ /\ call[c].kind = "callback_no_cancel"
       /\ ctx' = [ctx EXCEPT ![c] = "freed"]
       /\ UNCHANGED send

(* The cancel handler of a task, if it has one. *)
CancelTask(t, task) ==
    \/ task.fn = "func" /\ call[task.call].kind = "async" /\ UNCHANGED <<ctx, send>>
    \/ task.fn = "func" /\ CancelCtx(t, task.call)
    \/ task.fn # "func" /\ ctx' = [ctx EXCEPT ![task.call] = "freed"] /\ UNCHANGED send

(* cancel_notification: em_task_queue_cancel on the announced task queue. *)
CancelTasks(t) ==
    /\ pc[t] = "cancelTasks" /\ send[t] = None
    /\ LET q == cur[t] IN
       IF tasks[t][q] = <<>>
       THEN /\ note' = [note EXCEPT ![t][q] = "none"]
            /\ pc' = [pc EXCEPT ![t] = "cancelMail"]
            /\ cur' = [cur EXCEPT ![t] = None]
            /\ UNCHANGED <<tasks, ctx, send>>
       ELSE /\ CancelTask(t, Head(tasks[t][q]))
            /\ tasks' = [tasks EXCEPT ![t][q] = Tail(@)]
            /\ UNCHANGED <<note, pc, cur>>
    /\ UNCHANGED <<mailVars, processing, life, queueOpen, call, active, result, heard, runs,
                   job, fromMail, reused>>

(* The thread-specific destructor cancel_active_ctxs; then the thread is  *)
(* gone.                                                                  *)
CancelActive(t) ==
    /\ pc[t] = "dtors" /\ send[t] = None
    /\ IF active[t] = <<>>
       THEN /\ pc' = [pc EXCEPT ![t] = "dead"]
            /\ UNCHANGED <<active, ctx, send>>
       ELSE /\ CancelCtx(t, Head(active[t]))
            /\ active' = [active EXCEPT ![t] = Tail(@)]
            /\ UNCHANGED pc
    /\ UNCHANGED <<mailVars, queueVars, call, result, heard, runs, cur, job, fromMail, reused>>

ExitStep(t) ==
    CloseMailbox(t) \/ MailboxClosed(t) \/ CancelMail(t) \/ CancelTasks(t) \/ CancelActive(t)

(* pthread_create reuses the memory of an exited thread's struct; the     *)
(* task queues that proxying queues keep for that address stay.  The      *)
(* Worker may be the same, with the events it still has, or another one.  *)
Reuse(t, sameWorker) ==
    /\ reused < MaxReuse
    /\ pc[t] = "dead"
    /\ mailboxFreed' = [mailboxFreed EXCEPT ![t] = FALSE]
    /\ refcount' = [refcount EXCEPT ![t] = 1]
    /\ waitingAsync' = [waitingAsync EXCEPT ![t] = FALSE]
    /\ wakes' = IF sameWorker THEN wakes ELSE [wakes EXCEPT ![t] = 0]
    /\ waits' = IF sameWorker THEN waits ELSE [waits EXCEPT ![t] = 0]
    /\ \E l \in {life, Culled} : life' = l
    /\ pc' = [pc EXCEPT ![t] = "starting"]
    /\ reused' = reused + 1
    /\ UNCHANGED <<mailbox, mailboxNote, tasks, note, processing, queueOpen, callVars,
                   cur, job, fromMail, send>>

(* em_proxying_queue_destroy, by a program that no longer uses the queue: *)
(* no entry point is executing on it and every context has been settled.  *)
(* Asynchronous calls may still be queued.                                *)
DestroyQueue(q) ==
    /\ queueOpen[q]
    /\ \A c \in Calls : call[c] # None /\ call[c].queue = q =>
           IF call[c].kind = "async" THEN result[c] # "nothing" ELSE ctx[c] \in {"none", "freed"}
    /\ \A t \in Threads : send[t] # None => send[t].queue # q
    /\ \A t \in Threads : pc[t] \in {"drain", "run", "finish"} /\ cur[t] = q => fromMail[t]
    /\ queueOpen' = [queueOpen EXCEPT ![q] = FALSE]
    /\ life' = [t \in Threads |-> [life[t] EXCEPT ![q] =
                   IF @ # "live" THEN @ ELSE IF note[t][q] = "none" THEN "freed" ELSE "zombie"]]
    /\ UNCHANGED <<mailVars, tasks, note, processing, callVars, threadVars>>

(***************************************************************************)
(* The specification.                                                      *)
(***************************************************************************)

(* What a thread does once it has been set in motion. *)
ThreadStep(t) == SendStep(t) \/ SyncReturns(t) \/ ReceiveStep(t) \/ ExitStep(t)

(* What the program decides. *)
UserStep ==
    \/ \E t \in Clients, s \in Servers, q \in Queues, k \in Kinds, c \in Calls :
           Issue(t, s, q, k, c) \/ IssueFails(t, s, q, k, c)
    \/ \E t \in Threads, q \in Queues : ExecuteQueue(t, q)
    \/ \E t \in Threads, c \in Calls : FinishLater(t, c)
    \/ \E t \in Threads : Exit(t) \/ ExitInTask(t)
    \/ \E t \in Threads, sameWorker \in BOOLEAN : Reuse(t, sameWorker)
    \/ \E q \in Queues : DestroyQueue(q)

Next == (\E t \in Threads : ThreadStep(t)) \/ UserStep

Spec == Init /\ [][Next]_vars

(* A thread keeps running, and a function that keeps its context for      *)
(* later finishes it unless its thread exits.                             *)
Fairness ==
    \A t \in Threads : /\ WF_vars(ThreadStep(t))
                       /\ WF_vars(\E c \in Calls : FinishLater(t, c))

FairSpec == Spec /\ Fairness

(***************************************************************************)
(* Properties.                                                             *)
(***************************************************************************)

Executing(t, q) == cur[t] = q /\ pc[t] \in {"drain", "run", "finish"}

(* No wake-up is lost, in spite of the two flags that suppress            *)
(* notifications (em_task_queue_send, emscripten_thread_mailbox_send):    *)
(* queued work is being executed or canceled, or is marked; a marked      *)
(* queue has its message in the mailbox or on the way; a mailbox with     *)
(* messages is being read, or is marked; a marked mailbox has its event   *)
(* on the way to the event loop.  An exited thread leaves no work behind. *)
WorkIsAnnounced ==
    \A t \in Threads :
       /\ \A q \in Queues :
             /\ tasks[t][q] # <<>> =>
                  \/ note[t][q] = "pending" \/ Executing(t, q)
                  \/ cur[t] = q /\ pc[t] \in {"receive", "cancelTasks"}
                  \/ \E s \in Threads : AtSend(s, "exchange") /\ send[s].to = t /\ send[s].queue = q
             /\ note[t][q] = "pending" =>
                  \/ \E i \in 1 .. Len(mailbox[t]) : mailbox[t][i] = q
                  \/ cur[t] = q /\ pc[t] \in {"receive", "cancelTasks"}
                  \/ \E s \in Threads : AtSend(s, "post") /\ send[s].to = t /\ send[s].queue = q
       /\ mailbox[t] # <<>> =>
             \/ mailboxNote[t] = "pending"
             \/ pc[t] \in {"check", "mail", "receive", "drain", "run", "finish", "cas",
                           "exit", "closing", "cancelMail", "cancelTasks"}
             \/ \E s \in Threads : AtSend(s, "exchangeMailbox") /\ send[s].to = t
       /\ mailboxNote[t] = "pending" =>
             \/ wakes[t] > 0 \/ pc[t] = "check"
             \/ pc[t] \in {"exit", "closing", "cancelMail", "cancelTasks"}
             \/ \E s \in Threads : AtSend(s, "notify") /\ send[s].to = t

(* The reference count keeps a mailbox open for every sender that got a   *)
(* reference: _emscripten_thread_mailbox_shutdown destroys it only after  *)
(* the last of them has let go, and nobody gets a reference after that.   *)
MailboxOpenWhileHeld ==
    \A s \in Threads :
       send[s] # None /\ send[s].at \notin {"lookup", "ref"} => ~mailboxFreed[send[s].to]

(* The places from which the context of call c will still be used. *)
Holders(c) ==
    (UNION {{<<"queue", t, q, i>> : i \in {j \in 1 .. Len(tasks[t][q]) : tasks[t][q][j].call = c}}
              : t \in Threads, q \in Queues})
    \cup (UNION {{<<"active", t, i>> : i \in {j \in 1 .. Len(active[t]) : active[t][j] = c}}
                   : t \in Threads})
    \cup {<<"job", t>> : t \in {u \in Threads : pc[u] = "run" /\ job[u].call = c}}
    \cup {<<"send", t>> : t \in {u \in Threads :
              /\ send[u] # None /\ send[u].task.call = c
              /\ send[u].at \in {"lookup", "ref", "enqueue"} \/ ~send[u].ok}}

(* A context has exactly one owner until it is settled and none after     *)
(* that: emscripten_proxy_finish, cancel_ctx and the free_ctx of every    *)
(* error path never touch a context its caller has left or that was freed *)
(* already, and never forget one its caller still waits for.              *)
ContextHasOneHolder ==
    \A c \in Calls : call[c] # None /\ call[c].kind # "async" =>
       Cardinality(Holders(c)) = IF ctx[c] = "pending" THEN 1 ELSE 0

(* A destroyed task queue is freed only when no message in a mailbox      *)
(* refers to it and its thread is not executing it, and with it no task   *)
(* is lost (the zombie list and the notification flag).                   *)
QueueOutlivesNotification ==
    \A t \in Threads, q \in Queues : life[t][q] = "freed" =>
       /\ tasks[t][q] = <<>>
       /\ cur[t] # q
       /\ \A i \in 1 .. Len(mailbox[t]) : mailbox[t][i] # q

(* How far a call is, as its caller sees it. *)
Status(c) ==
    CASE call[c] = None -> "unused"
      [] call[c] # None /\ (result[c] = "false" \/ heard[c] = "cancel") -> "failed"
      [] call[c] # None /\ result[c] # "false"
           /\ (heard[c] = "callback" \/ (call[c].kind = "sync" /\ result[c] = "true")) -> "completed"
      [] call[c] # None /\ result[c] # "false" /\ heard[c] = "nothing" /\ ctx[c] = "freed"
           /\ call[c].kind # "sync" -> "dropped"
      [] OTHER -> IF runs[c] = 0 THEN "issued" ELSE "running"

Promise == INSTANCE RemoteCall WITH status <- [c \in Calls |-> Status(c)]

(* The three layers together keep the promise of emscripten/proxying.h.   *)
KeepsPromise == Promise!Spec

(* "Returns true if the task was successfully completed and false         *)
(* otherwise, including if the target thread is canceled or exits before  *)
(* the work is completed" (proxying.h): a synchronous call returns.       *)
SyncCallReturns ==
    \A c \in Calls : (call[c] # None /\ call[c].kind = "sync") ~> result[c] # "nothing"

(* The context of a call with a callback is freed in the end, whatever    *)
(* becomes of the two threads.                                            *)
ContextIsFreed ==
    \A c \in Calls : (ctx[c] = "pending") ~> (ctx[c] = "freed")
=============================================================================
