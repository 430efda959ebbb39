---------------------------- MODULE ProxyingProofs ----------------------------
(***************************************************************************)
(* What Proxying guarantees for any sets of threads, queues and calls.     *)
(*                                                                         *)
(* The parts of the invariant come first, then the lemmas about sends,     *)
(* lists and queues that the actions share, then one part after another:   *)
(* reference counts, notifications, holders of a context, lifetimes of     *)
(* task queues, and what is known of a call.  Every part is proved for     *)
(* each action in turn.  The refinement of RemoteCall is at the end.       *)
(***************************************************************************)
EXTENDS Proxying, FiniteSetTheorems, TLAPS

(***************************************************************************)
(* The inductive invariant.                                                *)
(***************************************************************************)

(* The steps at which a thread is executing or canceling a queue. *)
Busy == {"receive", "drain", "run", "finish", "cas", "cancelTasks"}

(* A thread that has given up its own hold on its mailbox, and one that   *)
(* has waited for its senders.                                            *)
Closed == {"closing", "cancelMail", "cancelTasks", "dtors", "dead"}
Shut == {"cancelMail", "cancelTasks", "dtors", "dead"}

InActive(t, c) == \E i \in 1 .. Len(active[t]) : active[t][i] = c

(* Which of a thread's local variables are in use at which step. *)
Control(t) ==
    /\ cur[t] # None <=> pc[t] \in Busy
    /\ job[t] # None <=> pc[t] \in {"run", "finish", "waiting"}
    /\ fromMail[t] = TRUE => pc[t] \in {"drain", "run", "finish", "cas"}
    /\ pc[t] = "cas" => fromMail[t] = TRUE
    /\ send[t] # None => pc[t] \in {"loop", "drain", "cancelTasks", "dtors"}
    /\ send[t] # None => (send[t].ok = TRUE \/ send[t].at = "unref")
    /\ send[t] # None /\ send[t].task.fn = "func" => pc[t] = "loop"

(* Whatever refers to a call refers to one that was made. *)
LocalRefs(t) ==
    /\ send[t] # None => call[send[t].task.call] # None
    /\ job[t] # None => call[job[t].call] # None
    /\ \A i \in 1 .. Len(active[t]) :
          call[active[t][i]] # None /\ call[active[t][i]].kind # "async"
    /\ pc[t] = "finish" => InActive(t, job[t].call)

QueueRefs(t) ==
    \A q \in Queues : \A i \in 1 .. Len(tasks[t][q]) : call[tasks[t][q][i].call] # None

Shape == \A t \in Threads : Control(t) /\ LocalRefs(t) /\ QueueRefs(t)

(* The sends that hold a reference on the mailbox of t. *)
Senders(t) == {s \in Threads : send[s] # None /\ send[s].to = t
                                 /\ send[s].at \notin {"lookup", "ref"}}

(* The reference count counts them, and the thread itself until it closes *)
(* the mailbox.                                                           *)
References(t) ==
    /\ refcount[t] = Cardinality(Senders(t)) + (IF pc[t] \in Closed THEN 0 ELSE 1)
    /\ pc[t] \in Shut => refcount[t] = 0
    /\ mailboxFreed[t] = TRUE => pc[t] \in {"dtors", "dead"}

RefInv == \A t \in Threads : References(t)

Distinct(t, q) ==
    \A i, j \in 1 .. Len(mailbox[t]) : mailbox[t][i] = q /\ mailbox[t][j] = q => i = j

InMail(t, q) == \E i \in 1 .. Len(mailbox[t]) : mailbox[t][i] = q

Sending(s, step, t, q) == AtSend(s, step) /\ send[s].to = t /\ send[s].queue = q

Opened(t, q) == cur[t] = q /\ pc[t] \in {"receive", "cancelTasks"}

(* The queue is being executed for a notification. *)
Received(t, q) == cur[t] = q /\ fromMail[t] = TRUE

(* A message that has not been received is in one place, and the queue it *)
(* is about is marked.                                                    *)
OneMessage(t, q) ==
    /\ Distinct(t, q)
    /\ InMail(t, q) => note[t][q] = "pending" /\ ~Opened(t, q)
    /\ Opened(t, q) => note[t][q] = "pending"
    /\ \A s \in Threads : Sending(s, "post", t, q) =>
          /\ note[t][q] = "pending" /\ ~InMail(t, q) /\ ~Opened(t, q)
          /\ \A r \in Threads : Sending(r, "post", t, q) => r = s
    /\ Received(t, q) => note[t][q] # "none"

(* A marked queue has its message; queued work is executed, is marked or  *)
(* will be, unless its function exited its thread.                        *)
Announced(t, q) ==
    /\ note[t][q] = "pending" =>
          InMail(t, q) \/ Opened(t, q) \/ \E s \in Threads : Sending(s, "post", t, q)
    /\ tasks[t][q] # <<>> =>
          \/ note[t][q] = "pending"
          \/ Received(t, q) /\ pc[t] # "cas"
          \/ \E s \in Threads : Sending(s, "exchange", t, q)
          \/ MayExitInTask = TRUE /\ note[t][q] = "received" /\ ~Received(t, q)

(* The same for the mailbox and the event loop. *)
MailAnnounced(t) ==
    /\ mailbox[t] # <<>> =>
          \/ mailboxNote[t] = "pending"
          \/ pc[t] \in {"check", "mail", "receive", "cas", "exit", "closing", "cancelMail",
                        "cancelTasks"}
          \/ fromMail[t] = TRUE
          \/ \E s \in Threads : AtSend(s, "exchangeMailbox") /\ send[s].to = t
    /\ mailboxNote[t] = "pending" =>
          \/ wakes[t] > 0
          \/ pc[t] \in {"check", "exit", "closing", "cancelMail", "cancelTasks"}
          \/ \E s \in Threads : AtSend(s, "notify") /\ send[s].to = t
    /\ waitingAsync[t] = TRUE /\ pc[t] # "dead" => waits[t] > 0 \/ wakes[t] > 0
    /\ pc[t] \in {"dtors", "dead"} => mailbox[t] = <<>> /\ mailboxNote[t] = "none"

NoteInv == \A t \in Threads, q \in Queues : OneMessage(t, q) /\ Announced(t, q)
MailInv == \A t \in Threads : MailAnnounced(t)

(* The places from which call c will still be run, finished or freed. *)
InQueue(t, q, c) == \E i \in 1 .. Len(tasks[t][q]) : tasks[t][q][i].call = c
InJob(t, c) == pc[t] = "run" /\ job[t].call = c
InSend(t, c) == /\ send[t] # None /\ send[t].task.call = c
                /\ send[t].at \in {"lookup", "ref", "enqueue"} \/ send[t].ok = FALSE

Idle(c) == \A t \in Threads : ~InActive(t, c) /\ ~InJob(t, c) /\ ~InSend(t, c)
Unqueued(c) == \A t \in Threads, q \in Queues : ~InQueue(t, q, c)

OnlyQueue(c, u, r) ==
    /\ \A t \in Threads, q \in Queues : InQueue(t, q, c) <=> (t = u /\ q = r)
    /\ Idle(c)
OnlyActive(c, u) ==
    /\ \A t \in Threads : /\ InActive(t, c) <=> t = u
                          /\ ~InJob(t, c) /\ ~InSend(t, c)
    /\ Unqueued(c)
OnlyJob(c, u) ==
    /\ \A t \in Threads : /\ InJob(t, c) <=> t = u
                          /\ ~InActive(t, c) /\ ~InSend(t, c)
    /\ Unqueued(c)
OnlySend(c, u) ==
    /\ \A t \in Threads : /\ InSend(t, c) <=> t = u
                          /\ ~InActive(t, c) /\ ~InJob(t, c)
    /\ Unqueued(c)
Nowhere(c) == Idle(c) /\ Unqueued(c)

(* A call is in at most one of them; a call with a context is in one      *)
(* exactly while the context is pending.                                  *)
OnePlace(c) ==
    \/ Nowhere(c)
    \/ \E u \in Threads, r \in Queues : OnlyQueue(c, u, r)
    \/ \E u \in Threads : OnlyActive(c, u)
    \/ \E u \in Threads : OnlyJob(c, u)
    \/ \E u \in Threads : OnlySend(c, u)

ContextOf(c) ==
    /\ call[c] = None => ctx[c] = "none"
    /\ call[c] # None /\ call[c].kind # "async" => (ctx[c] = "pending" <=> ~Nowhere(c))

(* And it is at most once in a list. *)
OnceQueued(t, q) ==
    \A i, j \in 1 .. Len(tasks[t][q]) : tasks[t][q][i].call = tasks[t][q][j].call => i = j
OnceActive(t) ==
    \A i, j \in 1 .. Len(active[t]) : active[t][i] = active[t][j] => i = j

HolderInv ==
    /\ \A c \in Calls : OnePlace(c) /\ ContextOf(c)
    /\ \A t \in Threads : OnceActive(t) /\ \A q \in Queues : OnceQueued(t, q)

(* A task that will be run or canceled, and what is known of its call. *)
Carried(x) ==
    \E t \in Threads :
       \/ \E q \in Queues : \E i \in 1 .. Len(tasks[t][q]) : tasks[t][q][i] = x
       \/ InJob(t, x.call) /\ job[t] = x
       \/ InSend(t, x.call) /\ send[t].task = x

Unanswered(c) == heard[c] = "nothing" /\ result[c] # "false"

TaskInv(x) ==
    /\ x.fn = "func" => runs[x.call] = 0
    /\ x.fn = "callback" => runs[x.call] > 0
    /\ x.fn # "func" => call[x.call].kind \in {"callback", "callback_no_cancel"}
    /\ Unanswered(x.call)

ActiveInv(c) == runs[c] > 0 /\ Unanswered(c)

(* The caller of a call that has not returned yet is in the middle of it. *)
Calling(t, c) ==
    /\ call[c].caller = t /\ result[c] = "nothing"
    /\ call[c].kind = "sync" => ctx[c] # "freed"

CallerInv(t) ==
    /\ send[t] # None /\ send[t].task.fn = "func" => Calling(t, send[t].task.call)
    /\ pc[t] = "waiting" => Calling(t, job[t].call) /\ call[job[t].call].kind = "sync"

CallData(c) ==
    /\ call[c] = None => /\ ctx[c] = "none" /\ result[c] = "nothing"
                         /\ heard[c] = "nothing" /\ runs[c] = 0
    /\ call[c] # None /\ call[c].kind = "async" => ctx[c] = "none"
    /\ heard[c] # "nothing" => ctx[c] = "freed" /\ call[c].kind # "sync"
    /\ ctx[c] \in {"done", "canceled"} => call[c].kind = "sync"
    /\ ctx[c] = "done" => runs[c] > 0
    /\ call[c] # None /\ call[c].kind = "sync" /\ ctx[c] # "freed" => result[c] = "nothing"

DataInv ==
    /\ \A c \in Calls : CallData(c)
    /\ \A x \in Tasks : Carried(x) => TaskInv(x)
    /\ \A t \in Threads, c \in Calls : InActive(t, c) => ActiveInv(c)
    /\ \A t \in Threads : CallerInv(t)

(* A queue is not destroyed while a send on it is in progress or a context *)
(* made with it is in use.                                                 *)
SendOpen(t) == send[t] # None => queueOpen[send[t].queue] = TRUE
CallOpen(c) == call[c] # None /\ call[c].kind # "async" /\ ctx[c] \in {"pending", "done", "canceled"}
                  => queueOpen[call[c].queue] = TRUE

(* A destroyed queue is freed once it has neither work nor a notification. *)
LifeOf(t, q) ==
    /\ life[t][q] \in {"zombie", "freed"} => queueOpen[q] = FALSE
    /\ life[t][q] = "live" => queueOpen[q] = TRUE
    /\ life[t][q] = "freed" => note[t][q] = "none" /\ tasks[t][q] = <<>>
    /\ cur[t] = q /\ pc[t] \in {"drain", "run", "finish"} /\ queueOpen[q] = FALSE
          => fromMail[t] = TRUE

LifeInv ==
    /\ \A t \in Threads : SendOpen(t) /\ \A q \in Queues : LifeOf(t, q)
    /\ \A c \in Calls : CallOpen(c)

USE DEF mailVars, queueVars, callVars, threadVars

(***************************************************************************)
(* Sequences.                                                              *)
(***************************************************************************)

LEMMA AppendIs ==
    ASSUME NEW S, NEW list \in Seq(S), NEW e \in S
    PROVE  /\ Append(list, e) \in Seq(S)
           /\ Append(list, e) # <<>>
           /\ Len(Append(list, e)) = Len(list) + 1
           /\ \A i \in 1 .. Len(list) : Append(list, e)[i] = list[i]
           /\ Append(list, e)[Len(list) + 1] = e
  OBVIOUS

LEMMA TailIs ==
    ASSUME NEW S, NEW list \in Seq(S), list # <<>>
    PROVE  /\ Head(list) \in S
           /\ Head(list) = list[1]
           /\ 1 \in 1 .. Len(list)
           /\ Tail(list) \in Seq(S)
           /\ Len(Tail(list)) = Len(list) - 1
           /\ \A i \in 1 .. Len(Tail(list)) : i + 1 \in 1 .. Len(list) /\ Tail(list)[i] = list[i + 1]
  OBVIOUS

LEMMA EmptyIs ==
    ASSUME NEW S, NEW list \in Seq(S)
    PROVE  /\ Len(list) \in Nat
           /\ list = <<>> <=> Len(list) = 0
           /\ \A i \in 1 .. Len(list) : list[i] \in S
  OBVIOUS

(* remove_active_ctx unlinks one element and keeps the order of the rest. *)
LEMMA WithoutIs ==
    ASSUME NEW S, NEW list \in Seq(S), NEW c, \E i \in 1 .. Len(list) : list[i] = c
    PROVE  \E k \in 1 .. Len(list) :
              /\ list[k] = c
              /\ Without(list, c) \in Seq(S)
              /\ Len(Without(list, c)) = Len(list) - 1
              /\ \A i \in 1 .. Len(list) - 1 :
                    Without(list, c)[i] = list[IF i < k THEN i ELSE i + 1]
<1> DEFINE k == CHOOSE j \in 1 .. Len(list) : list[j] = c
           n == Len(list) - 1
           f == [j \in 1 .. n |-> list[IF j < k THEN j ELSE j + 1]]
<1>1. k \in 1 .. Len(list) /\ list[k] = c
  OBVIOUS
<1>2. Without(list, c) = f
  BY DEF Without
<1> HIDE DEF k
<1>3. n \in Nat /\ \A i \in 1 .. n : f[i] = list[IF i < k THEN i ELSE i + 1]
                                        /\ f[i] \in S
  BY <1>1, EmptyIs
<1>4. f \in Seq(S) /\ Len(f) = n
  BY <1>3
<1> QED
  BY <1>1, <1>2, <1>3, <1>4

(***************************************************************************)
(* Types.                                                                  *)
(***************************************************************************)

LEMMA NoneIsNothing ==
    /\ None \notin Queues /\ None \notin Tasks /\ None \notin Sends /\ None \notin CallRecords
    /\ IsFiniteSet(Threads)
  BY ProxyingAssumption, FS_Union DEF Threads

(* The steps of a send: the record changes its step and nothing else. *)
LEMMA GoSendIs ==
    ASSUME TypeOK, NEW t \in Threads, NEW step \in SendSteps, send[t] # None, GoSend(t, step)
    PROVE  /\ send' \in [Threads -> Sends \cup {None}]
           /\ send[t] \in Sends
           /\ send'[t] # None /\ send'[t] \in Sends
           /\ send'[t].at = step
           /\ send'[t].to = send[t].to /\ send'[t].queue = send[t].queue
           /\ send'[t].task = send[t].task /\ send'[t].ok = send[t].ok
           /\ \A s \in Threads : s # t => send'[s] = send[s]
  BY NoneIsNothing DEF TypeOK, GoSend, Sends

LEMMA EnqueueFailsIs ==
    ASSUME TypeOK, NEW t \in Threads, EnqueueFails(t)
    PROVE  /\ send[t] # None /\ send[t].at = "enqueue"
           /\ send'[t] # None /\ send'[t] \in Sends
           /\ send'[t].at = "unref" /\ send'[t].ok = FALSE
           /\ send'[t].to = send[t].to /\ send'[t].queue = send[t].queue
           /\ send'[t].task = send[t].task
           /\ \A s \in Threads : s # t => send'[s] = send[s]
<1>1. send[t] # None /\ send[t].at = "enqueue" /\ send \in [Threads -> Sends \cup {None}]
  BY DEF EnqueueFails, AtSend, TypeOK
<1>2. send[t] \in Sends
  BY <1>1
<1> DEFINE r == [send[t] EXCEPT !.at = "unref", !.ok = FALSE]
<1>3. send' = [send EXCEPT ![t] = r]
  BY <1>1 DEF EnqueueFails
<1>4. /\ r \in Sends /\ r.at = "unref" /\ r.ok = FALSE /\ r.to = send[t].to
      /\ r.queue = send[t].queue /\ r.task = send[t].task
  BY <1>2 DEF Sends, SendSteps
<1> HIDE DEF r
<1> QED
  BY <1>1, <1>3, <1>4, NoneIsNothing

LEMMA SendIs ==
    ASSUME TypeOK, NEW t \in Threads, send[t] # None
    PROVE  /\ send[t] \in Sends /\ send[t].to \in Threads /\ send[t].queue \in Queues
           /\ send[t].task \in Tasks /\ send[t].task.call \in Calls
           /\ send[t].task.fn \in {"func", "callback", "cancel"}
           /\ send[t].ok \in BOOLEAN /\ send[t].at \in SendSteps
  BY DEF TypeOK, Sends, Tasks

LEMMA CallIs ==
    ASSUME TypeOK, NEW c \in Calls, call[c] # None
    PROVE  /\ call[c] \in CallRecords /\ call[c].kind \in CallKinds
           /\ call[c].caller \in Threads /\ call[c].target \in Threads /\ call[c].queue \in Queues
  BY DEF TypeOK, CallRecords

LEMMA CulledType ==
    ASSUME TypeOK
    PROVE  /\ Culled \in [Threads -> [Queues -> {"absent", "live", "zombie", "freed"}]]
           /\ life \in [Threads -> [Queues -> {"absent", "live", "zombie", "freed"}]]
  BY DEF TypeOK, Culled

LEMMA TypeInit == Init => TypeOK
  BY ProxyingAssumption DEF Init, TypeOK, PCs, Notification, CallRecords, Sends, Tasks

LEMMA TypeIssue ==
    ASSUME TypeOK, NEW t \in Clients, NEW s \in Servers, NEW q \in Queues, NEW k \in Kinds,
           NEW c \in Calls, Issue(t, s, q, k, c) \/ IssueFails(t, s, q, k, c)
    PROVE  TypeOK'
<1>1. t \in Threads /\ s \in Threads /\ k \in CallKinds
  BY ProxyingAssumption DEF Threads
<1>2. [kind |-> k, caller |-> t, target |-> s, queue |-> q] \in CallRecords
  BY <1>1 DEF CallRecords
<1>3. SendOf(q, s, "func", c) \in Sends
  BY <1>1 DEF SendOf, Sends, SendSteps, Tasks
<1>4. CASE Issue(t, s, q, k, c)
  BY <1>1, <1>2, <1>3, <1>4 DEF Issue, TypeOK
<1>5. CASE IssueFails(t, s, q, k, c)
  BY <1>1, <1>2, <1>5 DEF IssueFails, TypeOK
<1> QED
  BY <1>4, <1>5

(* The end of a send changes what its caller sees. *)
LEMMA SendFailsType ==
    ASSUME TypeOK, NEW t \in Threads, send[t] # None, SendFails(t)
    PROVE  /\ send' \in [Threads -> Sends \cup {None}]
           /\ ctx' \in [Calls -> {"none", "pending", "done", "canceled", "freed"}]
           /\ result' \in [Calls -> {"nothing", "true", "false"}]
           /\ pc' = pc /\ job' = job
  BY SendIs DEF SendFails, TypeOK

LEMMA SendSucceedsType ==
    ASSUME TypeOK, NEW t \in Threads, send[t] # None, SendSucceeds(t)
    PROVE  /\ send' \in [Threads -> Sends \cup {None}]
           /\ ctx' = ctx
           /\ result' \in [Calls -> {"nothing", "true", "false"}]
           /\ pc' \in [Threads -> PCs]
           /\ job' \in [Threads -> Tasks \cup {None}]
  BY SendIs DEF SendSucceeds, TypeOK, PCs

(* The reference count is positive where a sender lets go. *)
LEMMA TypeSend ==
    ASSUME TypeOK, NEW t \in Threads, SendStep(t),
           AtSend(t, "unref") => refcount[send[t].to] > 0
    PROVE  TypeOK'
<1>0. send[t] # None
  BY DEF SendStep, Lookup, LookupFails, Ref, RefRefused, Enqueue, EnqueueFails, Exchange, Post,
         ExchangeMailbox, Notify, Unref, AtSend
<1>i. /\ send[t] \in Sends /\ send[t].to \in Threads /\ send[t].queue \in Queues
      /\ send[t].task \in Tasks
  BY <1>0, SendIs
<1> USE <1>0, <1>i
<1>s. \A step \in SendSteps : GoSend(t, step) => send' \in [Threads -> Sends \cup {None}]
  BY GoSendIs
<1>1. CASE Lookup(t)
  <2>1. "ref" \in SendSteps /\ GoSend(t, "ref")
    BY <1>1 DEF Lookup, SendSteps
  <2>2. life' \in [Threads -> [Queues -> {"absent", "live", "zombie", "freed"}]]
    <3>1. PICK l \in {life, Culled} :
             life' \in {life, [l EXCEPT ![send[t].to][send[t].queue] = "live"]}
      BY <1>1 DEF Lookup
    <3>2. l \in [Threads -> [Queues -> {"absent", "live", "zombie", "freed"}]]
      BY CulledType
    <3>3. \A a \in Threads, b \in Queues :
             [l EXCEPT ![a][b] = "live"]
                \in [Threads -> [Queues -> {"absent", "live", "zombie", "freed"}]]
      BY <3>2
    <3>4. [l EXCEPT ![send[t].to][send[t].queue] = "live"]
             \in [Threads -> [Queues -> {"absent", "live", "zombie", "freed"}]]
      BY <3>3
    <3> QED
      BY <3>1, <3>4, CulledType
  <2> QED
    BY <1>1, <1>s, <2>1, <2>2 DEF Lookup, TypeOK
<1>2. CASE LookupFails(t)
  <2>1. life' \in [Threads -> [Queues -> {"absent", "live", "zombie", "freed"}]]
    BY <1>2, CulledType DEF LookupFails
  <2> QED
    BY <1>2, <2>1, SendFailsType DEF LookupFails, TypeOK
<1>3. CASE Ref(t)
  <2>1. "enqueue" \in SendSteps /\ GoSend(t, "enqueue")
    BY <1>3 DEF Ref, SendSteps
  <2>2. refcount' \in [Threads -> Nat]
    BY <1>3 DEF Ref, TypeOK
  <2> QED
    BY <1>3, <1>s, <2>1, <2>2 DEF Ref, TypeOK
<1>4. CASE RefRefused(t)
  BY <1>4, SendFailsType DEF RefRefused, TypeOK
<1>5. CASE Enqueue(t)
  <2>1. tasks' \in [Threads -> [Queues -> Seq(Tasks)]]
    BY <1>5 DEF Enqueue, TypeOK
  <2> QED
    BY <1>5, <1>s, <2>1 DEF Enqueue, TypeOK, SendSteps
<1>6. CASE EnqueueFails(t)
  <2>1. send' \in [Threads -> Sends \cup {None}]
    BY <1>6 DEF EnqueueFails, TypeOK, Sends, SendSteps
  <2> QED
    BY <1>6, <2>1 DEF EnqueueFails, TypeOK
<1>7. CASE Exchange(t)
  BY <1>7, <1>s DEF Exchange, TypeOK, SendSteps, Notification
<1>8. CASE Post(t)
  <2>1. mailbox' \in [Threads -> Seq(Queues)]
    BY <1>8 DEF Post, TypeOK
  <2> QED
    BY <1>8, <1>s, <2>1 DEF Post, TypeOK, SendSteps
<1>9. CASE ExchangeMailbox(t)
  BY <1>9, <1>s DEF ExchangeMailbox, TypeOK, SendSteps, Notification
<1>10. CASE Notify(t)
  <2>1. "unref" \in SendSteps /\ GoSend(t, "unref")
    BY <1>10 DEF Notify, SendSteps
  <2>2. waits' \in [Threads -> Nat] /\ wakes' \in [Threads -> Nat]
    <3>1. waits \in [Threads -> Nat] /\ wakes \in [Threads -> Nat]
      BY DEF TypeOK
    <3>2. /\ \A n \in Nat : [waits EXCEPT ![send[t].to] = n] \in [Threads -> Nat]
                           /\ [wakes EXCEPT ![send[t].to] = n] \in [Threads -> Nat]
          /\ wakes[send[t].to] + waits[send[t].to] \in Nat /\ wakes[send[t].to] + 1 \in Nat
          /\ 0 \in Nat
      BY <3>1
    <3> QED
      BY <1>10, <3>1, <3>2 DEF Notify
  <2> QED
    BY <1>10, <1>s, <2>1, <2>2 DEF Notify, TypeOK
<1>11. CASE Unref(t)
  <2>1. refcount' \in [Threads -> Nat]
    BY <1>11 DEF Unref, TypeOK
  <2>2. CASE SendSucceeds(t)
    BY <1>11, <2>1, <2>2, SendSucceedsType DEF Unref, TypeOK
  <2>3. CASE SendFails(t)
    BY <1>11, <2>1, <2>3, SendFailsType DEF Unref, TypeOK
  <2> QED
    BY <1>11, <2>2, <2>3 DEF Unref
<1> QED
  BY <1>1, <1>2, <1>3, <1>4, <1>5, <1>6, <1>7, <1>8, <1>9, <1>10, <1>11 DEF SendStep

LEMMA TypeReceive ==
    ASSUME TypeOK, Shape, NEW t \in Threads,
           ReceiveStep(t) \/ SyncReturns(t) \/ ExitInTask(t)
             \/ (\E q \in Queues : ExecuteQueue(t, q)) \/ (\E c \in Calls : FinishLater(t, c))
    PROVE  TypeOK'
<1>0. Control(t) /\ LocalRefs(t)
  BY DEF Shape
<1>1. CASE Start(t) \/ CheckMailbox(t)
  <2>1. waits \in [Threads -> Nat] /\ wakes \in [Threads -> Nat]
        /\ waitingAsync \in [Threads -> BOOLEAN] /\ pc \in [Threads -> PCs]
    BY DEF TypeOK
  <2>2. HasWaitAsync \in BOOLEAN
    BY ProxyingAssumption
  <2>3. waits' \in [Threads -> Nat] /\ waitingAsync' \in [Threads -> BOOLEAN]
    BY <1>1, <2>1, <2>2 DEF Start, CheckMailbox, Await
  <2>4. wakes' \in [Threads -> Nat] /\ pc' \in [Threads -> PCs]
    BY <1>1, <2>1 DEF Start, CheckMailbox, PCs
  <2> QED
    BY <1>1, <2>3, <2>4 DEF Start, CheckMailbox, TypeOK
<1>2. CASE LateWake(t)
  BY <1>2 DEF LateWake, TypeOK
<1>3. CASE MailReceived(t) \/ MailDone(t)
  <2>1. mailboxNote \in [Threads -> Notification] /\ pc \in [Threads -> PCs]
    BY DEF TypeOK
  <2>2. mailboxNote' \in [Threads -> Notification] /\ pc' \in [Threads -> PCs]
    BY <1>3, <2>1 DEF MailReceived, MailDone, Cleared, PCs, Notification
  <2> QED
    BY <1>3, <2>2 DEF MailReceived, MailDone, TypeOK
<1>4. CASE NextMail(t)
  <2>1. mailbox \in [Threads -> Seq(Queues)] /\ cur \in [Threads -> Queues \cup {None}]
        /\ pc \in [Threads -> PCs]
    BY DEF TypeOK
  <2>2. mailbox[t] # <<>> => Head(mailbox[t]) \in Queues /\ Tail(mailbox[t]) \in Seq(Queues)
    BY <2>1, TailIs
  <2>3. mailbox' \in [Threads -> Seq(Queues)] /\ cur' \in [Threads -> Queues \cup {None}]
    BY <1>4, <2>1, <2>2 DEF NextMail
  <2>4. pc' \in [Threads -> PCs]
    BY <1>4, <2>1 DEF NextMail, PCs
  <2> QED
    BY <1>4, <2>3, <2>4 DEF NextMail, TypeOK
<1>5. CASE ReceiveNotification(t)
  BY <1>0, <1>5 DEF ReceiveNotification, TypeOK, PCs, Notification, Control, LocalRefs, Busy
<1>6. CASE NextTask(t)
  <2>1. cur[t] \in Queues
    BY <1>0, <1>6 DEF NextTask, TypeOK, Control, LocalRefs, Busy
  <2>2. /\ tasks \in [Threads -> [Queues -> Seq(Tasks)]] /\ job \in [Threads -> Tasks \cup {None}]
        /\ cur \in [Threads -> Queues \cup {None}] /\ pc \in [Threads -> PCs]
        /\ processing \in [Threads -> [Queues -> BOOLEAN]]
    BY DEF TypeOK
  <2>3. CASE tasks[t][cur[t]] = <<>>
    <3>1. /\ processing' = [processing EXCEPT ![t][cur[t]] = FALSE]
          /\ tasks' = tasks /\ job' = job
          /\ pc' \in [Threads -> PCs] /\ cur' \in [Threads -> Queues \cup {None}]
      BY <1>6, <2>1, <2>2, <2>3 DEF NextTask, PCs
    <3>2. processing' \in [Threads -> [Queues -> BOOLEAN]]
      BY <2>1, <2>2, <3>1
    <3> QED
      BY <1>6, <3>1, <3>2 DEF NextTask, TypeOK
  <2>4. CASE tasks[t][cur[t]] # <<>>
    <3>1. Head(tasks[t][cur[t]]) \in Tasks /\ Tail(tasks[t][cur[t]]) \in Seq(Tasks)
      BY <2>1, <2>2, <2>4, TailIs
    <3>2. /\ tasks' = [tasks EXCEPT ![t][cur[t]] = Tail(@)]
          /\ processing' = processing /\ cur' = cur
          /\ pc' \in [Threads -> PCs] /\ job' \in [Threads -> Tasks \cup {None}]
      BY <1>6, <2>1, <2>2, <2>4, <3>1 DEF NextTask, PCs
    <3>3. tasks' \in [Threads -> [Queues -> Seq(Tasks)]]
      BY <2>1, <2>2, <3>1, <3>2
    <3> QED
      BY <1>6, <3>2, <3>3 DEF NextTask, TypeOK
  <2> QED
    BY <2>3, <2>4
<1>7. CASE \E next \in {"drain", "finish", "exit"} : RunFunction(t, next)
  <2>1. PICK next \in {"drain", "finish", "exit"} : RunFunction(t, next)
    BY <1>7
  <2>2. job[t] \in Tasks /\ job[t].call \in Calls
    BY <1>0, <2>1 DEF RunFunction, TypeOK, Control, LocalRefs, Tasks
  <2>3. active' \in [Threads -> Seq(Calls)] /\ runs' \in [Calls -> Nat]
    BY <2>1, <2>2 DEF RunFunction, TypeOK
  <2>4. job' \in [Threads -> Tasks \cup {None}] /\ cur' \in [Threads -> Queues \cup {None}]
        /\ fromMail' \in [Threads -> BOOLEAN] /\ pc' \in [Threads -> PCs]
    BY <2>1 DEF RunFunction, TypeOK, PCs
  <2> QED
    BY <2>1, <2>3, <2>4 DEF RunFunction, TypeOK
<1>8. ASSUME NEW c \in Calls, FinishContext(t, c),
             call[c] # None, \E i \in 1 .. Len(active[t]) : active[t][i] = c,
             pc' \in [Threads -> PCs], job' \in [Threads -> Tasks \cup {None}]
      PROVE  TypeOK'
  <2>1. Without(active[t], c) \in Seq(Calls)
    <3>1. active[t] \in Seq(Calls)
      BY DEF TypeOK
    <3> QED
      BY <1>8, <3>1, WithoutIs
  <2>2. active' \in [Threads -> Seq(Calls)]
    BY <1>8, <2>1 DEF FinishContext, TypeOK
  <2>3. ctx' \in [Calls -> {"none", "pending", "done", "canceled", "freed"}]
    BY <1>8 DEF FinishContext, TypeOK
  <2>4. SendOf(call[c].queue, call[c].caller, "callback", c) \in Sends
    BY <1>8, CallIs DEF SendOf, Sends, SendSteps, Tasks
  <2>5. send' \in [Threads -> Sends \cup {None}]
    BY <1>8, <2>4 DEF FinishContext, TypeOK
  <2> QED
    BY <1>8, <2>2, <2>3, <2>5 DEF FinishContext, TypeOK
<1>9. CASE FinishInTask(t)
  <2>1. job[t] # None /\ job[t] \in Tasks
    BY <1>0, <1>9 DEF FinishInTask, Control, LocalRefs, TypeOK
  <2>2. job[t].call \in Calls
    BY <2>1 DEF Tasks
  <2>3. call[job[t].call] # None /\ \E i \in 1 .. Len(active[t]) : active[t][i] = job[t].call
    BY <1>9, <2>1, <1>0 DEF FinishInTask, InActive, Control, LocalRefs
  <2>4. pc' \in [Threads -> PCs] /\ job' \in [Threads -> Tasks \cup {None}]
    BY <1>9 DEF FinishInTask, TypeOK, PCs
  <2> QED
    BY <1>8, <1>9, <2>2, <2>3, <2>4 DEF FinishInTask
<1>10. CASE \E c \in Calls : FinishLater(t, c)
  <2>1. PICK c \in Calls : FinishLater(t, c)
    BY <1>10
  <2>2. call[c] # None
    BY <1>0, <2>1 DEF FinishLater, Control, LocalRefs
  <2>3. pc' \in [Threads -> PCs] /\ job' \in [Threads -> Tasks \cup {None}]
    BY <2>1 DEF FinishLater, TypeOK
  <2> QED
    BY <1>8, <2>1, <2>2, <2>3 DEF FinishLater
<1>11. CASE RunAnswer(t)
  <2>1. job[t] \in Tasks
    BY <1>0, <1>11 DEF RunAnswer, Control, LocalRefs, TypeOK
  <2>2. job[t].call \in Calls /\ job[t].fn \in {"callback", "cancel"}
    BY <2>1, <1>11 DEF Tasks, RunAnswer
  <2>3. /\ heard \in [Calls -> {"nothing", "callback", "cancel"}]
        /\ ctx \in [Calls -> {"none", "pending", "done", "canceled", "freed"}]
        /\ pc \in [Threads -> PCs] /\ job \in [Threads -> Tasks \cup {None}]
    BY DEF TypeOK
  <2>4. /\ heard' \in [Calls -> {"nothing", "callback", "cancel"}]
        /\ ctx' \in [Calls -> {"none", "pending", "done", "canceled", "freed"}]
        /\ pc' \in [Threads -> PCs] /\ job' \in [Threads -> Tasks \cup {None}]
    BY <1>11, <2>2, <2>3 DEF RunAnswer, PCs
  <2> QED
    BY <1>11, <2>4 DEF RunAnswer, TypeOK
<1>12. CASE QueueDone(t)
  <2>1. cur[t] \in Queues
    BY <1>0, <1>12 DEF QueueDone, TypeOK, Control, LocalRefs, Busy
  <2>2. /\ note \in [Threads -> [Queues -> Notification]] /\ cur \in [Threads -> Queues \cup {None}]
        /\ fromMail \in [Threads -> BOOLEAN] /\ pc \in [Threads -> PCs]
    BY DEF TypeOK
  <2>3. note' \in [Threads -> [Queues -> Notification]]
    BY <1>12, <2>1, <2>2 DEF QueueDone, Notification, Cleared
  <2>4. cur' \in [Threads -> Queues \cup {None}] /\ fromMail' \in [Threads -> BOOLEAN]
        /\ pc' \in [Threads -> PCs]
    BY <1>12, <2>2 DEF QueueDone, PCs
  <2> QED
    BY <1>12, <2>3, <2>4 DEF QueueDone, TypeOK
<1>13. CASE SyncReturns(t)
  <2>1. job[t] \in Tasks
    BY <1>0, <1>13 DEF SyncReturns, Control, LocalRefs, TypeOK
  <2>2. job[t].call \in Calls
    BY <2>1 DEF Tasks
  <2>3. /\ result \in [Calls -> {"nothing", "true", "false"}]
        /\ ctx \in [Calls -> {"none", "pending", "done", "canceled", "freed"}]
        /\ pc \in [Threads -> PCs] /\ job \in [Threads -> Tasks \cup {None}]
    BY DEF TypeOK
  <2>4. /\ result' \in [Calls -> {"nothing", "true", "false"}]
        /\ ctx' \in [Calls -> {"none", "pending", "done", "canceled", "freed"}]
        /\ pc' \in [Threads -> PCs] /\ job' \in [Threads -> Tasks \cup {None}]
    BY <1>13, <2>2, <2>3 DEF SyncReturns, PCs
  <2> QED
    BY <1>13, <2>4 DEF SyncReturns, TypeOK
<1>14. CASE \E q \in Queues : ExecuteQueue(t, q)
  <2>1. PICK q \in Queues : ExecuteQueue(t, q)
    BY <1>14
  <2>2. /\ processing \in [Threads -> [Queues -> BOOLEAN]] /\ cur \in [Threads -> Queues \cup {None}]
        /\ fromMail \in [Threads -> BOOLEAN] /\ pc \in [Threads -> PCs]
    BY DEF TypeOK
  <2>3. /\ processing' \in [Threads -> [Queues -> BOOLEAN]]
        /\ cur' \in [Threads -> Queues \cup {None}]
        /\ fromMail' \in [Threads -> BOOLEAN] /\ pc' \in [Threads -> PCs]
    BY <2>1, <2>2 DEF ExecuteQueue, PCs
  <2> QED
    BY <2>1, <2>3 DEF ExecuteQueue, TypeOK
<1> QED
  BY <1>1, <1>2, <1>3, <1>4, <1>5, <1>6, <1>7, <1>9, <1>10, <1>11, <1>12, <1>13, <1>14
     DEF ReceiveStep, ExitInTask

LEMMA TypeExit ==
    ASSUME TypeOK, Shape, NEW t \in Threads,
           ExitStep(t) \/ Exit(t) \/ (\E same \in BOOLEAN : Reuse(t, same)),
           pc[t] = "exit" => refcount[t] > 0
    PROVE  TypeOK'
<1>0. Control(t) /\ LocalRefs(t)
  BY DEF Shape
<1>1. CASE CloseMailbox(t)
  <2>1. refcount' \in [Threads -> Nat] /\ pc' \in [Threads -> PCs]
    BY <1>1 DEF CloseMailbox, TypeOK, PCs
  <2> QED
    BY <1>1, <2>1 DEF CloseMailbox, TypeOK
<1>2. CASE MailboxClosed(t)
  BY <1>2 DEF MailboxClosed, TypeOK, PCs
<1>3. CASE CancelMail(t)
  <2>1. /\ mailbox \in [Threads -> Seq(Queues)] /\ cur \in [Threads -> Queues \cup {None}]
        /\ mailboxNote \in [Threads -> Notification] /\ mailboxFreed \in [Threads -> BOOLEAN]
        /\ pc \in [Threads -> PCs]
    BY DEF TypeOK
  <2>2. mailbox[t] # <<>> => Head(mailbox[t]) \in Queues /\ Tail(mailbox[t]) \in Seq(Queues)
    BY <2>1, TailIs
  <2>3. mailbox' \in [Threads -> Seq(Queues)] /\ cur' \in [Threads -> Queues \cup {None}]
    BY <1>3, <2>1, <2>2 DEF CancelMail
  <2>4. mailboxNote' \in [Threads -> Notification] /\ mailboxFreed' \in [Threads -> BOOLEAN]
        /\ pc' \in [Threads -> PCs]
    BY <1>3, <2>1 DEF CancelMail, PCs, Notification
  <2> QED
    BY <1>3, <2>3, <2>4 DEF CancelMail, TypeOK
<1>c. ASSUME NEW c \in Calls, CancelCtx(t, c), call[c] # None
      PROVE  /\ ctx' \in [Calls -> {"none", "pending", "done", "canceled", "freed"}]
             /\ send' \in [Threads -> Sends \cup {None}]
  <2>1. SendOf(call[c].queue, call[c].caller, "cancel", c) \in Sends
    BY <1>c, CallIs DEF SendOf, Sends, SendSteps, Tasks
  <2>2. /\ ctx \in [Calls -> {"none", "pending", "done", "canceled", "freed"}]
        /\ send \in [Threads -> Sends \cup {None}]
    BY DEF TypeOK
  <2> QED
    BY <1>c, <2>1, <2>2 DEF CancelCtx
<1>4. CASE CancelTasks(t)
  <2>1. cur[t] \in Queues
    BY <1>0, <1>4 DEF CancelTasks, TypeOK, Control, LocalRefs, Busy
  <2>2. /\ tasks \in [Threads -> [Queues -> Seq(Tasks)]] /\ cur \in [Threads -> Queues \cup {None}]
        /\ note \in [Threads -> [Queues -> Notification]] /\ pc \in [Threads -> PCs]
        /\ ctx \in [Calls -> {"none", "pending", "done", "canceled", "freed"}]
        /\ send \in [Threads -> Sends \cup {None}]
    BY DEF TypeOK
  <2>3. CASE tasks[t][cur[t]] = <<>>
    <3>1. /\ note' = [note EXCEPT ![t][cur[t]] = "none"] /\ cur' \in [Threads -> Queues \cup {None}]
          /\ pc' \in [Threads -> PCs] /\ UNCHANGED <<tasks, ctx, send>>
      BY <1>4, <2>2, <2>3 DEF CancelTasks, PCs
    <3>2. note' \in [Threads -> [Queues -> Notification]]
      BY <2>1, <2>2, <3>1 DEF Notification
    <3> QED
      BY <1>4, <3>1, <3>2 DEF CancelTasks, TypeOK
  <2>4. CASE tasks[t][cur[t]] # <<>>
    <3> DEFINE head == Head(tasks[t][cur[t]])
    <3>0. tasks[t][cur[t]] \in Seq(Tasks)
      BY <2>1, <2>2
    <3>1. /\ head \in Tasks /\ Tail(tasks[t][cur[t]]) \in Seq(Tasks)
          /\ head = tasks[t][cur[t]][1] /\ 1 \in 1 .. Len(tasks[t][cur[t]])
      BY <3>0, <2>4, TailIs
    <3>5. call[head.call] # None
      BY <2>1, <3>1 DEF Shape, QueueRefs
    <3>2. /\ tasks' = [tasks EXCEPT ![t][cur[t]] = Tail(@)] /\ UNCHANGED <<note, pc, cur>>
          /\ CancelTask(t, head)
      BY <1>4, <2>4 DEF CancelTasks
    <3> HIDE DEF head
    <3>3. tasks' \in [Threads -> [Queues -> Seq(Tasks)]]
      BY <2>1, <2>2, <3>1, <3>2
    <3>4. /\ ctx' \in [Calls -> {"none", "pending", "done", "canceled", "freed"}]
          /\ send' \in [Threads -> Sends \cup {None}]
      <4>1. head.call \in Calls
        BY <3>1 DEF Tasks
      <4>2. CASE CancelCtx(t, head.call)
        BY <1>c, <3>5, <4>1, <4>2
      <4>3. CASE ~CancelCtx(t, head.call)
        BY <2>2, <3>2, <4>1, <4>3 DEF CancelTask
      <4> QED
        BY <4>2, <4>3
    <3> QED
      BY <1>4, <3>2, <3>3, <3>4 DEF CancelTasks, TypeOK
  <2> QED
    BY <2>3, <2>4
<1>5. CASE CancelActive(t)
  <2>1. active \in [Threads -> Seq(Calls)] /\ pc \in [Threads -> PCs]
    BY DEF TypeOK
  <2>2. CASE active[t] = <<>>
    BY <1>5, <2>2 DEF CancelActive, TypeOK, PCs
  <2>3. CASE active[t] # <<>>
    <3>1. /\ Head(active[t]) \in Calls /\ Tail(active[t]) \in Seq(Calls)
          /\ call[Head(active[t])] # None
      BY <1>0, <2>1, <2>3, TailIs DEF Control, LocalRefs
    <3>2. CancelCtx(t, Head(active[t])) /\ active' = [active EXCEPT ![t] = Tail(@)] /\ pc' = pc
      BY <1>5, <2>3 DEF CancelActive
    <3>3. active' \in [Threads -> Seq(Calls)]
      BY <2>1, <3>1, <3>2
    <3> QED
      BY <1>5, <1>c, <3>1, <3>2, <3>3 DEF CancelActive, TypeOK
  <2> QED
    BY <2>2, <2>3
<1>6. CASE Exit(t)
  BY <1>6 DEF Exit, TypeOK, PCs
<1>7. CASE \E same \in BOOLEAN : Reuse(t, same)
  <2>1. life' \in [Threads -> [Queues -> {"absent", "live", "zombie", "freed"}]]
    BY <1>7, CulledType DEF Reuse
  <2>2. /\ mailboxFreed \in [Threads -> BOOLEAN] /\ refcount \in [Threads -> Nat]
        /\ waitingAsync \in [Threads -> BOOLEAN] /\ waits \in [Threads -> Nat]
        /\ wakes \in [Threads -> Nat] /\ pc \in [Threads -> PCs] /\ reused \in Nat
    BY DEF TypeOK
  <2>3. /\ mailboxFreed' \in [Threads -> BOOLEAN] /\ refcount' \in [Threads -> Nat]
        /\ waitingAsync' \in [Threads -> BOOLEAN] /\ waits' \in [Threads -> Nat]
        /\ wakes' \in [Threads -> Nat] /\ pc' \in [Threads -> PCs] /\ reused' \in Nat
    BY <1>7, <2>2 DEF Reuse, PCs
  <2> QED
    BY <1>7, <2>1, <2>3 DEF Reuse, TypeOK
<1> QED
  BY <1>1, <1>2, <1>3, <1>4, <1>5, <1>6, <1>7 DEF ExitStep

LEMMA TypeDestroy ==
    ASSUME TypeOK, NEW q \in Queues, DestroyQueue(q)
    PROVE  TypeOK'
<1>1. queueOpen' \in [Queues -> BOOLEAN]
  BY DEF DestroyQueue, TypeOK
<1>2. life' \in [Threads -> [Queues -> {"absent", "live", "zombie", "freed"}]]
  BY CulledType DEF DestroyQueue
<1> QED
  BY <1>1, <1>2 DEF DestroyQueue, TypeOK

(***************************************************************************)
(* What a step of one thread leaves alone.                                 *)
(***************************************************************************)

(* Every step but the destruction of a queue is the step of one thread. *)
Acts(t) ==
    \/ ThreadStep(t) \/ ExitInTask(t) \/ Exit(t)
    \/ \E s \in Servers, q \in Queues, k \in Kinds, c \in Calls :
          t \in Clients /\ (Issue(t, s, q, k, c) \/ IssueFails(t, s, q, k, c))
    \/ \E q \in Queues : ExecuteQueue(t, q)
    \/ \E c \in Calls : FinishLater(t, c)
    \/ \E same \in BOOLEAN : Reuse(t, same)

LEMMA NextIs == Next => (\E t \in Threads : Acts(t)) \/ (\E q \in Queues : DestroyQueue(q))
  BY DEF Next, UserStep, Acts, Threads

SameLocals(u) ==
    /\ pc'[u] = pc[u] /\ cur'[u] = cur[u] /\ job'[u] = job[u] /\ fromMail'[u] = fromMail[u]
    /\ send'[u] = send[u] /\ active'[u] = active[u]

(* The send that a thread is in the middle of is its own; its control,    *)
(* and the list of its active contexts, are too.                          *)
LEMMA OnlyActor ==
    ASSUME TypeOK, NEW t \in Threads, Acts(t), NEW u \in Threads, u # t
    PROVE  SameLocals(u)
<1>t. /\ pc \in [Threads -> PCs] /\ cur \in [Threads -> Queues \cup {None}]
      /\ job \in [Threads -> Tasks \cup {None}] /\ fromMail \in [Threads -> BOOLEAN]
      /\ send \in [Threads -> Sends \cup {None}] /\ active \in [Threads -> Seq(Calls)]
  BY DEF TypeOK
<1> USE <1>t DEF SameLocals
<1>1. CASE SendStep(t)
  BY <1>1 DEF SendStep, Lookup, LookupFails, Ref, RefRefused, Enqueue, EnqueueFails, Exchange, Post,
         ExchangeMailbox, Notify, Unref, SendFails, SendSucceeds, GoSend
<1>2. CASE SyncReturns(t)
  BY <1>2 DEF SyncReturns
<1>3. CASE Start(t) \/ CheckMailbox(t) \/ LateWake(t) \/ MailReceived(t) \/ NextMail(t)
           \/ ReceiveNotification(t) \/ RunAnswer(t) \/ QueueDone(t) \/ MailDone(t)
  BY <1>3 DEF Start, CheckMailbox, LateWake, MailReceived, NextMail, ReceiveNotification, RunAnswer,
         QueueDone, MailDone
<1>4. CASE NextTask(t)
  BY <1>4 DEF NextTask
<1>5. CASE \E next \in {"drain", "finish", "exit"} : RunFunction(t, next)
  BY <1>5 DEF RunFunction
<1>6. CASE FinishInTask(t) \/ \E c \in Calls : FinishLater(t, c)
  BY <1>6 DEF FinishInTask, FinishLater, FinishContext
<1>7. CASE ExitStep(t)
  <2>1. CASE CloseMailbox(t) \/ MailboxClosed(t) \/ CancelMail(t)
    BY <2>1 DEF CloseMailbox, MailboxClosed, CancelMail
  <2>2. CASE CancelTasks(t)
    BY <2>2 DEF CancelTasks, CancelTask, CancelCtx
  <2>3. CASE CancelActive(t)
    BY <2>3 DEF CancelActive, CancelCtx
  <2> QED
    BY <1>7, <2>1, <2>2, <2>3 DEF ExitStep
<1>8. CASE Exit(t) \/ \E same \in BOOLEAN : Reuse(t, same)
  BY <1>8 DEF Exit, Reuse
<1>9. CASE \E s \in Servers, q \in Queues, k \in Kinds, c \in Calls :
              t \in Clients /\ (Issue(t, s, q, k, c) \/ IssueFails(t, s, q, k, c))
  BY <1>9 DEF Issue, IssueFails
<1>10. CASE \E q \in Queues : ExecuteQueue(t, q)
  BY <1>10 DEF ExecuteQueue
<1> QED
  BY <1>1, <1>2, <1>3, <1>4, <1>5, <1>6, <1>7, <1>8, <1>9, <1>10
     DEF Acts, ThreadStep, ReceiveStep, ExitInTask

(* A call that was made stays what it is. *)
LEMMA CallsKept ==
    ASSUME TypeOK, NEW t \in Threads, Acts(t), NEW c \in Calls, call[c] # None
    PROVE  call'[c] = call[c]
<1>1. CASE \E s \in Servers, q \in Queues, k \in Kinds, d \in Calls :
              t \in Clients /\ (Issue(t, s, q, k, d) \/ IssueFails(t, s, q, k, d))
  BY <1>1 DEF Issue, IssueFails, TypeOK
<1>2. CASE ~ \E s \in Servers, q \in Queues, k \in Kinds, d \in Calls :
              t \in Clients /\ (Issue(t, s, q, k, d) \/ IssueFails(t, s, q, k, d))
  <2>1. call' = call
    BY <1>2 DEF Acts, ThreadStep, SendStep, Lookup, LookupFails, Ref, RefRefused, Enqueue, EnqueueFails,
         Exchange, Post, ExchangeMailbox, Notify, Unref, SyncReturns, ReceiveStep, Start, CheckMailbox,
         LateWake, MailReceived, NextMail, ReceiveNotification, NextTask, RunFunction, FinishInTask,
         FinishLater, FinishContext, RunAnswer, QueueDone, MailDone, Exit, ExitInTask, ExitStep,
         CloseMailbox, MailboxClosed, CancelMail, CancelTasks, CancelActive, ExecuteQueue, Reuse
  <2> QED
    BY <2>1
<1> QED
  BY <1>1, <1>2

(* A thread takes tasks off its own queues; a sender adds one to another. *)
LEMMA TasksKept ==
    ASSUME TypeOK, Shape, NEW t \in Threads, Acts(t), NEW u \in Threads, NEW q \in Queues
    PROVE  \/ tasks'[u][q] = tasks[u][q]
           \/ u = t /\ q = cur[t] /\ pc[t] \in {"drain", "cancelTasks"} /\ tasks[u][q] # <<>>
                /\ tasks'[u][q] = Tail(tasks[u][q])
           \/ AtSend(t, "enqueue") /\ u = send[t].to /\ q = send[t].queue
                /\ tasks'[u][q] = Append(tasks[u][q], send[t].task)
<1>1. CASE Enqueue(t)
  BY <1>1, SendIs DEF Enqueue, AtSend, TypeOK
<1>2. CASE NextTask(t) \/ CancelTasks(t)
  <2>1. cur[t] \in Queues
    BY <1>2 DEF NextTask, CancelTasks, Shape, Control, LocalRefs, Busy, TypeOK
  <2>2. tasks \in [Threads -> [Queues -> Seq(Tasks)]]
    BY DEF TypeOK
  <2>3. \/ tasks' = tasks
        \/ /\ pc[t] \in {"drain", "cancelTasks"} /\ tasks[t][cur[t]] # <<>>
           /\ tasks' = [tasks EXCEPT ![t][cur[t]] = Tail(tasks[t][cur[t]])]
    BY <1>2, <2>1, <2>2 DEF NextTask, CancelTasks
  <2> QED
    BY <2>1, <2>2, <2>3
<1>3. CASE ~Enqueue(t) /\ ~NextTask(t) /\ ~CancelTasks(t)
  <2>1. CASE SendStep(t)
    BY <1>3, <2>1 DEF SendStep, Lookup, LookupFails, Ref, RefRefused, EnqueueFails,
         Exchange, Post, ExchangeMailbox, Notify, Unref
  <2>2. CASE ReceiveStep(t) \/ ExitInTask(t)
    BY <1>3, <2>2 DEF ReceiveStep, Start, CheckMailbox, ExitInTask,
         LateWake, MailReceived, NextMail, ReceiveNotification, RunFunction, FinishInTask,
         FinishContext, RunAnswer, QueueDone, MailDone
  <2>3. CASE ExitStep(t)
    BY <1>3, <2>3 DEF ExitStep, CloseMailbox, MailboxClosed, CancelMail, CancelActive
  <2>4. CASE SyncReturns(t) \/ Exit(t) \/ (\E k \in Queues : ExecuteQueue(t, k))
             \/ (\E c \in Calls : FinishLater(t, c)) \/ (\E same \in BOOLEAN : Reuse(t, same))
    BY <2>4 DEF SyncReturns, Exit, ExecuteQueue, FinishLater, FinishContext, Reuse
  <2>5. CASE \E s \in Servers, k \in Queues, kind \in Kinds, c \in Calls :
                t \in Clients /\ (Issue(t, s, k, kind, c) \/ IssueFails(t, s, k, kind, c))
    BY <2>5 DEF Issue, IssueFails
  <2> QED
    BY <2>1, <2>2, <2>3, <2>4, <2>5 DEF Acts, ThreadStep
<1> QED
  BY <1>1, <1>2, <1>3

(***************************************************************************)
(* The local variables of a thread.                                        *)
(***************************************************************************)

LEMMA ShapeInit == Init => Shape
  BY NoneIsNothing DEF Init, Shape, Control, LocalRefs, QueueRefs, Busy

LEMMA QueueRefsKept ==
    ASSUME TypeOK, Shape, NEW t \in Threads, Acts(t), NEW u \in Threads
    PROVE  QueueRefs(u)'
<1> SUFFICES ASSUME NEW q \in Queues, NEW i \in 1 .. Len(tasks'[u][q])
             PROVE  call'[tasks'[u][q][i].call] # None
  BY DEF QueueRefs
<1>0. tasks[u][q] \in Seq(Tasks) /\ Len(tasks[u][q]) \in Nat
  BY DEF TypeOK
<1>1. \A j \in 1 .. Len(tasks[u][q]) :
         tasks[u][q][j].call \in Calls /\ call[tasks[u][q][j].call] # None
  <2>1. \A j \in 1 .. Len(tasks[u][q]) : tasks[u][q][j] \in Tasks
    BY <1>0, EmptyIs
  <2> QED
    BY <2>1 DEF Shape, QueueRefs, Tasks
<1>2. \A j \in 1 .. Len(tasks[u][q]) : call'[tasks[u][q][j].call] # None
  BY <1>1, CallsKept
<1>3. CASE tasks'[u][q] = tasks[u][q]
  BY <1>2, <1>3
<1>4. CASE tasks[u][q] # <<>> /\ tasks'[u][q] = Tail(tasks[u][q])
  BY <1>0, <1>2, <1>4, TailIs
<1>5. CASE AtSend(t, "enqueue") /\ tasks'[u][q] = Append(tasks[u][q], send[t].task)
  <2>1. send[t].task \in Tasks /\ send[t].task.call \in Calls /\ call[send[t].task.call] # None
    BY <1>5, SendIs DEF AtSend, Shape, Control, LocalRefs
  <2>2. call'[send[t].task.call] # None
    BY <2>1, CallsKept
  <2> QED
    BY <1>0, <1>2, <1>5, <2>1, <2>2
<1> QED
  BY <1>3, <1>4, <1>5, TasksKept

(* The other threads. *)
LEMMA ShapeOthers ==
    ASSUME TypeOK, Shape, NEW t \in Threads, Acts(t), NEW u \in Threads, u # t
    PROVE  (Control(u) /\ LocalRefs(u))'
<1>1. SameLocals(u) /\ Control(u) /\ LocalRefs(u)
  BY OnlyActor DEF Shape
<1>2. /\ send[u] # None => send[u].task.call \in Calls
      /\ job[u] # None => job[u].call \in Calls
      /\ active[u] \in Seq(Calls)
      /\ \A i \in 1 .. Len(active[u]) : active[u][i] \in Calls
  <2>1. send[u] # None => send[u].task.call \in Calls
    BY SendIs
  <2>2. job[u] # None => job[u].call \in Calls
    BY DEF TypeOK, Tasks
  <2>3. active[u] \in Seq(Calls)
    BY DEF TypeOK
  <2> QED
    BY <2>1, <2>2, <2>3, EmptyIs
<1>3. \A c \in Calls : call[c] # None => call'[c] = call[c]
  BY CallsKept
<1> QED
  BY <1>1, <1>2, <1>3 DEF Control, LocalRefs, SameLocals, InActive

(* The thread that takes the step: a step of a send. *)
LEMMA ControlSend ==
    ASSUME TypeOK, Shape, NEW t \in Threads, SendStep(t)
    PROVE  /\ Control(t)'
           /\ send'[t] # None => send'[t].task = send[t].task
           /\ job'[t] \in {job[t], send[t].task}
           /\ pc'[t] # "finish" /\ active' = active
<1>1. Control(t)
  BY DEF Shape, Control, LocalRefs, Control
<1>2. send[t] # None /\ send[t].task # None
  BY SendIs, NoneIsNothing DEF SendStep, Lookup, LookupFails, Ref, RefRefused, Enqueue, EnqueueFails, Exchange, Post,
         ExchangeMailbox, Notify, Unref, AtSend
<1>t. /\ pc \in [Threads -> PCs] /\ cur \in [Threads -> Queues \cup {None}]
      /\ job \in [Threads -> Tasks \cup {None}] /\ fromMail \in [Threads -> BOOLEAN]
      /\ send \in [Threads -> Sends \cup {None}]
  BY DEF TypeOK
<1>3. ASSUME SendFails(t), UNCHANGED <<active, cur, fromMail>>
      PROVE  /\ Control(t)' /\ send'[t] = None /\ job'[t] = job[t]
             /\ pc'[t] # "finish" /\ active' = active
  BY <1>1, <1>2, <1>3, <1>t DEF SendFails, Control
<1>4. ASSUME SendSucceeds(t), UNCHANGED <<active, cur, fromMail>>
      PROVE  /\ Control(t)' /\ send'[t] = None /\ job'[t] \in {job[t], send[t].task}
             /\ pc'[t] # "finish" /\ active' = active
  BY <1>1, <1>2, <1>4, <1>t DEF SendSucceeds, Control, Busy
<1>5. ASSUME NEW step \in SendSteps, GoSend(t, step), send[t].ok = TRUE,
             UNCHANGED <<pc, job, active, cur, fromMail>>
      PROVE  /\ Control(t)' /\ send'[t] # None /\ send'[t].task = send[t].task
             /\ job'[t] = job[t] /\ pc'[t] # "finish" /\ active' = active
  BY <1>1, <1>2, <1>5, <1>t, GoSendIs DEF Control
<1>6. AtSend(t, "unref") \/ send[t].ok = TRUE
  BY <1>1, <1>2 DEF Control, AtSend
<1>7. CASE EnqueueFails(t)
  BY <1>1, <1>2, <1>7, <1>t DEF EnqueueFails, Control, Sends
<1>8. CASE LookupFails(t) \/ RefRefused(t) \/ Unref(t)
  BY <1>3, <1>4, <1>8 DEF LookupFails, RefRefused, Unref
<1>9. CASE Lookup(t)
  BY <1>5, <1>6, <1>9 DEF Lookup, AtSend, SendSteps
<1>10. CASE Ref(t)
  BY <1>5, <1>6, <1>10 DEF Ref, AtSend, SendSteps
<1>11. CASE Enqueue(t)
  BY <1>5, <1>6, <1>11 DEF Enqueue, AtSend, SendSteps
<1>12. CASE Exchange(t)
  BY <1>5, <1>6, <1>12 DEF Exchange, AtSend, SendSteps
<1>13. CASE Post(t)
  BY <1>5, <1>6, <1>13 DEF Post, AtSend, SendSteps
<1>14. CASE ExchangeMailbox(t)
  BY <1>5, <1>6, <1>14 DEF ExchangeMailbox, AtSend, SendSteps
<1>15. CASE Notify(t)
  BY <1>5, <1>6, <1>15 DEF Notify, AtSend, SendSteps
<1> QED
  BY <1>7, <1>8, <1>9, <1>10, <1>11, <1>12, <1>13, <1>14, <1>15 DEF SendStep

(* What the thread refers to, before and after a step that leaves the     *)
(* list of its active contexts alone.                                     *)
LEMMA RefsKept ==
    ASSUME TypeOK, Shape, NEW t \in Threads, Acts(t), active'[t] = active[t],
           send'[t] # None => \E c \in Calls : send'[t].task.call = c /\ call'[c] # None,
           job'[t] # None => \E c \in Calls : job'[t].call = c /\ call'[c] # None,
           pc'[t] = "finish" => InActive(t, job'[t].call)
    PROVE  LocalRefs(t)'
<1>1. active[t] \in Seq(Calls) /\ \A i \in 1 .. Len(active[t]) : active[t][i] \in Calls
  <2>1. active[t] \in Seq(Calls)
    BY DEF TypeOK
  <2> QED
    BY <2>1, EmptyIs
<1>2. \A i \in 1 .. Len(active[t]) : call'[active[t][i]] = call[active[t][i]]
                                      /\ call[active[t][i]] # None /\ call[active[t][i]].kind # "async"
  BY <1>1, CallsKept DEF Shape, LocalRefs
<1> QED
  BY <1>2 DEF LocalRefs, InActive

LEMMA MadeKept ==
    ASSUME TypeOK, Shape, NEW t \in Threads, Acts(t)
    PROVE  /\ send[t] # None => /\ send[t].task.call \in Calls /\ call[send[t].task.call] # None
                                /\ call'[send[t].task.call] # None
           /\ job[t] # None => /\ job[t].call \in Calls /\ call[job[t].call] # None
                               /\ call'[job[t].call] # None
  BY SendIs, CallsKept DEF Shape, LocalRefs, TypeOK, Tasks

LEMMA ShapeSend ==
    ASSUME TypeOK, Shape, NEW t \in Threads, SendStep(t)
    PROVE  (Control(t) /\ LocalRefs(t))'
<1>1. Acts(t)
  BY DEF Acts, ThreadStep
<1>2. send[t] # None
  BY DEF SendStep, Lookup, LookupFails, Ref, RefRefused, Enqueue, EnqueueFails, Exchange, Post,
         ExchangeMailbox, Notify, Unref, AtSend
<1> QED
  BY <1>1, <1>2, ControlSend, RefsKept, MadeKept

LEMMA ShapeIssue ==
    ASSUME TypeOK, Shape, NEW t \in Threads, t \in Clients, NEW s \in Servers, NEW q \in Queues,
           NEW k \in Kinds, NEW c \in Calls, Issue(t, s, q, k, c) \/ IssueFails(t, s, q, k, c)
    PROVE  (Control(t) /\ LocalRefs(t))'
<1>1. Acts(t)
  BY DEF Acts
<1>t. /\ pc \in [Threads -> PCs] /\ send \in [Threads -> Sends \cup {None}]
      /\ call \in [Calls -> CallRecords \cup {None}]
  BY DEF TypeOK
<1>2. call'[c] # None
  <2>1. [kind |-> k, caller |-> t, target |-> s, queue |-> q] \in CallRecords
    BY ProxyingAssumption DEF CallRecords, Threads
  <2> QED
    BY <1>t, <2>1, NoneIsNothing DEF Issue, IssueFails
<1>3. /\ UNCHANGED <<pc, cur, job, fromMail, active>> /\ pc[t] = "loop"
      /\ send'[t] \in {None, SendOf(q, s, "func", c)}
  BY <1>t DEF Issue, IssueFails
<1>4. Control(t)'
  <2>1. SendOf(q, s, "func", c).ok = TRUE
    BY DEF SendOf
  <2> QED
    BY <1>3, <2>1 DEF Shape, Control, Busy
<1>5. SendOf(q, s, "func", c).task.call = c
  BY DEF SendOf
<1>6. job'[t] = None
  BY <1>3 DEF Shape, Control
<1>7. send'[t] # None => send'[t].task.call = c
  BY <1>3, <1>5
<1> QED
  BY <1>1, <1>2, <1>3, <1>4, <1>6, <1>7, RefsKept

LEMMA ShapeReceive ==
    ASSUME TypeOK, Shape, NEW t \in Threads,
           Start(t) \/ CheckMailbox(t) \/ LateWake(t) \/ MailReceived(t) \/ NextMail(t)
             \/ ReceiveNotification(t) \/ NextTask(t) \/ RunAnswer(t) \/ QueueDone(t) \/ MailDone(t)
             \/ SyncReturns(t) \/ (\E q \in Queues : ExecuteQueue(t, q)) \/ Exit(t)
             \/ CloseMailbox(t) \/ MailboxClosed(t) \/ CancelMail(t)
             \/ (\E same \in BOOLEAN : Reuse(t, same))
    PROVE  (Control(t) /\ LocalRefs(t))'
<1>1. Acts(t)
  BY DEF Acts, ThreadStep, ReceiveStep, ExitStep
<1>t. /\ pc \in [Threads -> PCs] /\ cur \in [Threads -> Queues \cup {None}]
      /\ job \in [Threads -> Tasks \cup {None}] /\ fromMail \in [Threads -> BOOLEAN]
      /\ send \in [Threads -> Sends \cup {None}] /\ mailbox \in [Threads -> Seq(Queues)]
      /\ tasks \in [Threads -> [Queues -> Seq(Tasks)]]
  BY DEF TypeOK
<1>s. Control(t) /\ LocalRefs(t) /\ QueueRefs(t)
  BY DEF Shape
<1>a. active' = active /\ send' = send
  BY DEF Start, CheckMailbox, LateWake, MailReceived, NextMail, ReceiveNotification, NextTask, RunAnswer,
         QueueDone, MailDone, SyncReturns, ExecuteQueue, Exit, CloseMailbox, MailboxClosed, CancelMail,
         Reuse
<1>n. None \notin Queues /\ None \notin Tasks
  BY NoneIsNothing
<1>j. ASSUME job'[t] \in {None, job[t]}, pc'[t] # "finish"
      PROVE  LocalRefs(t)'
  BY <1>1, <1>a, <1>j, RefsKept, MadeKept
<1>2. CASE Start(t) \/ CheckMailbox(t) \/ LateWake(t) \/ MailReceived(t) \/ MailDone(t) \/ Exit(t)
           \/ CloseMailbox(t) \/ MailboxClosed(t) \/ (\E same \in BOOLEAN : Reuse(t, same))
  <2>1. UNCHANGED <<cur, job, fromMail>> /\ pc'[t] \in PCs
    BY <1>2, <1>t DEF Start, CheckMailbox, LateWake, MailReceived, MailDone, Exit, CloseMailbox,
       MailboxClosed, Reuse, PCs
  <2>2. \/ /\ pc[t] \in {"starting", "loop", "check", "mailCas", "exit", "closing", "dead"}
           /\ pc'[t] \in {"starting", "loop", "check", "mail", "exit", "closing", "cancelMail"}
           /\ send[t] # None => pc[t] = pc'[t]
        \/ pc' = pc
    BY <1>2, <1>t, <1>s DEF Start, CheckMailbox, LateWake, MailReceived, MailDone, Exit, CloseMailbox,
       MailboxClosed, Reuse, Control
  <2>3. pc'[t] # "finish"
    BY <1>2, <1>t DEF Start, CheckMailbox, LateWake, MailReceived, MailDone, Exit, CloseMailbox,
       MailboxClosed, Reuse
  <2>4. Control(t)'
    BY <2>1, <2>2, <1>s, <1>a DEF Control, Busy
  <2> QED
    BY <1>j, <2>1, <2>3, <2>4
<1>3. CASE NextMail(t) \/ CancelMail(t)
  <2>1. mailbox[t] # <<>> => Head(mailbox[t]) # None
    BY <1>t, <1>n, TailIs
  <2>2. /\ UNCHANGED <<job, fromMail>> /\ pc'[t] # "finish"
        /\ pc[t] \in {"mail", "cancelMail"}
        /\ \/ pc'[t] \in {"mailCas", "dtors"} /\ cur' = cur
           \/ pc'[t] \in {"receive", "cancelTasks"} /\ cur'[t] # None
    BY <1>3, <1>t, <2>1 DEF NextMail, CancelMail
  <2> QED
    BY <1>j, <1>s, <1>a, <2>2 DEF Control, Busy
<1>4. CASE ReceiveNotification(t) \/ QueueDone(t)
  <2>1. /\ UNCHANGED job /\ pc'[t] # "finish"
        /\ \/ pc[t] = "receive" /\ pc'[t] = "drain" /\ cur' = cur /\ fromMail'[t] = TRUE
           \/ pc[t] = "cas" /\ pc'[t] = "mail" /\ cur'[t] = None /\ fromMail'[t] = FALSE
    BY <1>4, <1>t DEF ReceiveNotification, QueueDone
  <2> QED
    BY <1>j, <1>s, <1>a, <2>1 DEF Control, Busy
<1>5. CASE RunAnswer(t) \/ SyncReturns(t)
  <2>1. /\ job'[t] = None /\ pc'[t] # "finish" /\ UNCHANGED <<cur, fromMail>>
        /\ \/ pc[t] = "run" /\ pc'[t] = "drain"
           \/ pc[t] = "waiting" /\ pc'[t] = "loop"
    BY <1>5, <1>t DEF RunAnswer, SyncReturns
  <2> QED
    BY <1>j, <1>s, <1>a, <2>1 DEF Control, Busy
<1>6. CASE \E q \in Queues : ExecuteQueue(t, q)
  <2>1. /\ job'[t] = job[t] /\ pc'[t] # "finish" /\ cur'[t] # None
        /\ pc[t] = "loop" /\ pc'[t] = "drain" /\ fromMail'[t] = FALSE /\ send[t] = None
    BY <1>6, <1>t, <1>n DEF ExecuteQueue
  <2> QED
    BY <1>j, <1>s, <1>a, <2>1 DEF Control, Busy
<1>7. CASE NextTask(t)
  <2>q. cur[t] \in Queues /\ cur[t] # None
    BY <1>7, <1>s, <1>t DEF NextTask, Control, Busy
  <2>1. CASE tasks[t][cur[t]] = <<>>
    <3>1. /\ job' = job /\ fromMail' = fromMail /\ send[t] = None /\ pc[t] = "drain"
          /\ pc'[t] = IF fromMail[t] THEN "cas" ELSE "loop"
          /\ cur'[t] = IF fromMail[t] THEN cur[t] ELSE None
      BY <1>7, <1>t, <2>1 DEF NextTask
    <3>2. fromMail[t] \in BOOLEAN
      BY <1>t
    <3> QED
      BY <1>j, <1>s, <1>a, <2>q, <3>1, <3>2 DEF Control, Busy
  <2>2. CASE tasks[t][cur[t]] # <<>>
    <3> DEFINE head == Head(tasks[t][cur[t]])
    <3>1. /\ head \in Tasks /\ head = tasks[t][cur[t]][1] /\ 1 \in 1 .. Len(tasks[t][cur[t]])
      BY <1>t, <2>q, <2>2, TailIs
    <3>2. call[head.call] # None
      BY <1>s, <2>q, <3>1 DEF QueueRefs
    <3>3. /\ job'[t] = head /\ fromMail' = fromMail /\ cur' = cur /\ send[t] = None /\ pc[t] = "drain"
          /\ pc'[t] = "run"
      BY <1>7, <1>t, <2>2 DEF NextTask
    <3> HIDE DEF head
    <3>4. head # None /\ head.call \in Calls
      BY <1>n, <3>1 DEF Tasks
    <3>5. Control(t)'
      BY <1>s, <1>a, <3>3, <3>4 DEF Control, Busy
    <3>6. call'[head.call] # None
      BY <1>1, <3>2, <3>4, CallsKept
    <3> QED
      BY <1>1, <1>a, <1>s, <3>3, <3>4, <3>5, <3>6, RefsKept
  <2> QED
    BY <2>1, <2>2
<1> QED
  BY <1>2, <1>3, <1>4, <1>5, <1>6, <1>7

LEMMA ShapeRun ==
    ASSUME TypeOK, Shape, NEW t \in Threads, NEW next \in {"drain", "finish", "exit"},
           RunFunction(t, next)
    PROVE  (Control(t) /\ LocalRefs(t))'
<1>1. Acts(t)
  BY DEF Acts, ThreadStep, ReceiveStep, ExitInTask
<1>t. /\ pc \in [Threads -> PCs] /\ cur \in [Threads -> Queues \cup {None}]
      /\ job \in [Threads -> Tasks \cup {None}] /\ fromMail \in [Threads -> BOOLEAN]
      /\ active \in [Threads -> Seq(Calls)]
  BY DEF TypeOK
<1>s. Control(t) /\ LocalRefs(t)
  BY DEF Shape
<1> DEFINE c == job[t].call
<1>2. job[t] # None /\ c \in Calls /\ call[c] # None /\ call'[c] = call[c] /\ call' = call
  BY <1>1, <1>s, MadeKept DEF RunFunction, Control
<1>3. /\ pc[t] = "run" /\ pc'[t] = next /\ send' = send
      /\ job'[t] = IF next = "finish" THEN job[t] ELSE None
      /\ cur'[t] = IF next = "exit" THEN None ELSE cur[t]
      /\ fromMail'[t] = IF next = "exit" THEN FALSE ELSE fromMail[t]
      /\ active'[t] \in {active[t], Append(active[t], c)}
      /\ call[c].kind = "async" => active'[t] = active[t]
      /\ next = "finish" => call[c].kind # "async" /\ active'[t] = Append(active[t], c)
  BY <1>t DEF RunFunction
<1>4. Control(t)'
  BY <1>2, <1>3, <1>s DEF Control, Busy
<1>5. active[t] \in Seq(Calls)
  BY <1>t
<1>6. \A i \in 1 .. Len(active'[t]) :
         call[active'[t][i]] # None /\ call[active'[t][i]].kind # "async"
  <2>1. CASE active'[t] = active[t]
    BY <1>s, <2>1 DEF LocalRefs
  <2>2. CASE active'[t] = Append(active[t], c) /\ call[c].kind # "async"
    BY <1>s, <1>2, <1>5, <2>2, AppendIs DEF LocalRefs
  <2> QED
    BY <1>3, <2>1, <2>2
<1>7. next = "finish" => InActive(t, c)'
  <2>1. Len(active[t]) + 1 \in 1 .. Len(Append(active[t], c))
        /\ Append(active[t], c)[Len(active[t]) + 1] = c
    BY <1>2, <1>5, AppendIs
  <2> QED
    BY <1>2, <1>3, <2>1 DEF InActive
<1>8. LocalRefs(t)'
  BY <1>s, <1>2, <1>3, <1>6, <1>7 DEF LocalRefs, Control, InActive
<1> QED
  BY <1>4, <1>8

LEMMA ShapeFinish ==
    ASSUME TypeOK, Shape, NEW t \in Threads, NEW c \in Calls,
           FinishLater(t, c) \/ (FinishInTask(t) /\ c = job[t].call)
    PROVE  (Control(t) /\ LocalRefs(t))'
<1>1. Acts(t)
  BY DEF Acts, ThreadStep, ReceiveStep
<1>t. /\ pc \in [Threads -> PCs] /\ job \in [Threads -> Tasks \cup {None}]
      /\ send \in [Threads -> Sends \cup {None}]
      /\ active \in [Threads -> Seq(Calls)]
  BY DEF TypeOK
<1>s. Control(t) /\ LocalRefs(t)
  BY DEF Shape
<1>2. InActive(t, c) /\ call[c] # None
  BY <1>s DEF FinishLater, FinishInTask, InActive, LocalRefs
<1>3. active[t] \in Seq(Calls)
  BY <1>t
<1>4. PICK k \in 1 .. Len(active[t]) :
         /\ active[t][k] = c
         /\ Without(active[t], c) \in Seq(Calls)
         /\ Len(Without(active[t], c)) = Len(active[t]) - 1
         /\ \A i \in 1 .. Len(active[t]) - 1 :
               Without(active[t], c)[i] = active[t][IF i < k THEN i ELSE i + 1]
  BY <1>2, <1>3, WithoutIs DEF InActive
<1>5. active'[t] = Without(active[t], c) /\ call' = call /\ UNCHANGED <<cur, fromMail>>
  BY <1>t DEF FinishLater, FinishInTask, FinishContext
<1>6. \A i \in 1 .. Len(active'[t]) :
         call[active'[t][i]] # None /\ call[active'[t][i]].kind # "async"
  <2>1. Len(active[t]) \in Nat
    BY <1>3, EmptyIs
  <2>2. \A i \in 1 .. Len(active[t]) - 1 : (IF i < k THEN i ELSE i + 1) \in 1 .. Len(active[t])
    BY <2>1
  <2>3. \A i \in 1 .. Len(active[t]) - 1 :
           \E j \in 1 .. Len(active[t]) : Without(active[t], c)[i] = active[t][j]
    BY <1>4, <2>2
  <2> QED
    BY <1>s, <1>4, <1>5, <2>3 DEF LocalRefs
<1>7. /\ job'[t] = None /\ pc[t] \in {"loop", "finish"}
      /\ pc'[t] = IF pc[t] = "finish" THEN "drain" ELSE "loop"
  BY <1>t, <1>s DEF FinishLater, FinishInTask, Control
<1>8. send'[t] \in {send[t], SendOf(call[c].queue, call[c].caller, "callback", c)}
  BY <1>t DEF FinishLater, FinishInTask, FinishContext
<1>9. LET r == SendOf(call[c].queue, call[c].caller, "callback", c) IN
      r.ok = TRUE /\ r.task.fn # "func" /\ r.task.call = c
  BY DEF SendOf
<1>10. Control(t)'
  BY <1>s, <1>5, <1>7, <1>8, <1>9 DEF Control, Busy
<1>11. LocalRefs(t)'
  BY <1>s, <1>2, <1>5, <1>6, <1>7, <1>8, <1>9 DEF LocalRefs
<1> QED
  BY <1>10, <1>11

(* Cancelation sends at most the cancel handler. *)
LEMMA CancelSends ==
    ASSUME TypeOK, NEW t \in Threads, NEW c \in Calls, CancelCtx(t, c)
    PROVE  /\ send'[t] = send[t]
              \/ /\ send'[t].ok = TRUE /\ send'[t].task.fn = "cancel" /\ send'[t].task.call = c
           /\ \A u \in Threads : u # t => send'[u] = send[u]
<1>1. send \in [Threads -> Sends \cup {None}]
  BY DEF TypeOK
<1> QED
  BY <1>1 DEF CancelCtx, SendOf

LEMMA ShapeCancel ==
    ASSUME TypeOK, Shape, NEW t \in Threads, CancelTasks(t) \/ CancelActive(t)
    PROVE  (Control(t) /\ LocalRefs(t))'
<1>1. Acts(t)
  BY DEF Acts, ThreadStep, ExitStep
<1>t. /\ pc \in [Threads -> PCs] /\ cur \in [Threads -> Queues \cup {None}]
      /\ active \in [Threads -> Seq(Calls)]
      /\ send \in [Threads -> Sends \cup {None}]
      /\ tasks \in [Threads -> [Queues -> Seq(Tasks)]]
  BY DEF TypeOK
<1>s. Control(t) /\ LocalRefs(t) /\ QueueRefs(t)
  BY DEF Shape
<1>2. call' = call /\ UNCHANGED <<job, fromMail>> /\ send[t] = None
      /\ pc[t] \in {"cancelTasks", "dtors"} /\ pc'[t] \in {"cancelTasks", "dtors", "cancelMail", "dead"}
  BY <1>t DEF CancelTasks, CancelActive
<1>j. job[t] = None /\ fromMail[t] # TRUE
  BY <1>s, <1>2 DEF Control
<1>3. CASE CancelTasks(t)
  <2>q. cur[t] \in Queues /\ cur[t] # None
    BY <1>3, <1>s, <1>t DEF CancelTasks, Control, Busy
  <2>a. active' = active
    BY <1>3 DEF CancelTasks
  <2>1. CASE tasks[t][cur[t]] = <<>>
    <3>1. send' = send /\ cur'[t] = None /\ pc'[t] = "cancelMail"
      BY <1>3, <1>t, <2>1 DEF CancelTasks
    <3> QED
      BY <1>s, <1>1, <1>2, <1>j, <2>a, <3>1, RefsKept DEF Control, Busy
  <2>2. CASE tasks[t][cur[t]] # <<>>
    <3> DEFINE head == Head(tasks[t][cur[t]])
    <3>1. /\ head \in Tasks /\ head = tasks[t][cur[t]][1] /\ 1 \in 1 .. Len(tasks[t][cur[t]])
      BY <1>t, <2>q, <2>2, TailIs
    <3>2. call[head.call] # None
      BY <1>s, <2>q, <3>1 DEF QueueRefs
    <3>3. CancelTask(t, head) /\ UNCHANGED <<pc, cur>> /\ pc[t] = "cancelTasks"
      BY <1>3, <2>2 DEF CancelTasks
    <3> HIDE DEF head
    <3>4. head.call \in Calls
      BY <3>1 DEF Tasks
    <3>5. \/ send'[t] = send[t]
          \/ send'[t].ok = TRUE /\ send'[t].task.fn = "cancel" /\ send'[t].task.call = head.call
      BY <3>3, <3>4, CancelSends DEF CancelTask
    <3>6. Control(t)'
      BY <1>s, <1>2, <1>j, <3>3, <3>5 DEF Control, Busy
    <3>7. LocalRefs(t)'
      BY <1>1, <1>2, <1>j, <2>a, <3>2, <3>3, <3>4, <3>5, RefsKept
    <3> QED
      BY <3>6, <3>7
  <2> QED
    BY <2>1, <2>2
<1>4. CASE CancelActive(t)
  <2>1. CASE active[t] = <<>>
    <3>1. active' = active /\ send' = send /\ cur' = cur /\ pc'[t] = "dead" /\ pc[t] = "dtors"
      BY <1>4, <1>t, <2>1 DEF CancelActive
    <3> QED
      BY <1>s, <1>1, <1>2, <1>j, <3>1, RefsKept DEF Control, Busy
  <2>2. CASE active[t] # <<>>
    <3>1. /\ Head(active[t]) \in Calls /\ Head(active[t]) = active[t][1] /\ 1 \in 1 .. Len(active[t])
          /\ Len(Tail(active[t])) = Len(active[t]) - 1
          /\ \A i \in 1 .. Len(Tail(active[t])) :
                i + 1 \in 1 .. Len(active[t]) /\ Tail(active[t])[i] = active[t][i + 1]
      BY <1>t, <2>2, TailIs
    <3>2. CancelCtx(t, Head(active[t])) /\ active'[t] = Tail(active[t]) /\ pc' = pc /\ cur' = cur
          /\ pc[t] = "dtors"
      BY <1>4, <1>t, <2>2 DEF CancelActive
    <3>3. \/ send'[t] = send[t]
          \/ /\ send'[t].ok = TRUE /\ send'[t].task.fn = "cancel"
             /\ send'[t].task.call = Head(active[t])
      BY <3>1, <3>2, CancelSends
    <3>4. Control(t)'
      BY <1>s, <1>2, <1>j, <3>2, <3>3 DEF Control, Busy
    <3>5. call[Head(active[t])] # None
      BY <1>s, <3>1 DEF LocalRefs
    <3>6. \A i \in 1 .. Len(active'[t]) :
             call[active'[t][i]] # None /\ call[active'[t][i]].kind # "async"
      BY <1>s, <3>1, <3>2 DEF LocalRefs
    <3>7. LocalRefs(t)'
      BY <1>2, <1>j, <3>2, <3>3, <3>5, <3>6 DEF LocalRefs
    <3> QED
      BY <3>4, <3>7
  <2> QED
    BY <2>1, <2>2
<1> QED
  BY <1>3, <1>4

LEMMA ShapeStep == TypeOK /\ Shape /\ [Next]_vars => Shape'
<1> SUFFICES ASSUME TypeOK, Shape, [Next]_vars PROVE Shape'
  OBVIOUS
<1>1. CASE UNCHANGED vars
  BY <1>1 DEF Shape, Control, LocalRefs, QueueRefs, InActive, vars
<1>2. ASSUME NEW q \in Queues, DestroyQueue(q)
      PROVE  Shape'
  BY <1>2 DEF Shape, Control, LocalRefs, QueueRefs, InActive, DestroyQueue
<1>3. ASSUME NEW t \in Threads, Acts(t)
      PROVE  Shape'
  <2>1. (Control(t) /\ LocalRefs(t))'
    <3>1. CASE SendStep(t)
      BY <3>1, ShapeSend
    <3>2. CASE \E s \in Servers, q \in Queues, k \in Kinds, c \in Calls :
                  t \in Clients /\ (Issue(t, s, q, k, c) \/ IssueFails(t, s, q, k, c))
      BY <3>2, ShapeIssue
    <3>3. CASE \E next \in {"drain", "finish", "exit"} : RunFunction(t, next)
      BY <3>3, ShapeRun
    <3>4. CASE FinishInTask(t)
      <4>1. job[t].call \in Calls
        BY <3>4 DEF FinishInTask, Shape, Control, TypeOK, Tasks
      <4> QED
        BY <3>4, <4>1, ShapeFinish
    <3>5. CASE \E c \in Calls : FinishLater(t, c)
      BY <3>5, ShapeFinish
    <3>6. CASE CancelTasks(t) \/ CancelActive(t)
      BY <3>6, ShapeCancel
    <3> QED
      BY <1>3, <3>1, <3>2, <3>3, <3>4, <3>5, <3>6, ShapeReceive
         DEF Acts, ThreadStep, ReceiveStep, ExitStep, ExitInTask
  <2>2. \A u \in Threads : u # t => (Control(u) /\ LocalRefs(u))'
    BY <1>3, ShapeOthers
  <2>3. \A u \in Threads : QueueRefs(u)'
    BY <1>3, QueueRefsKept
  <2> QED
    BY <2>1, <2>2, <2>3 DEF Shape
<1> QED
  BY <1>1, <1>2, <1>3, NextIs

(***************************************************************************)
(* The reference count of a mailbox.                                       *)
(***************************************************************************)

LEMMA SendersFinite ==
    ASSUME NEW t \in Threads
    PROVE  IsFiniteSet(Senders(t)) /\ Cardinality(Senders(t)) \in Nat
<1>1. Senders(t) \subseteq Threads
  BY DEF Senders
<1> QED
  BY <1>1, NoneIsNothing, FS_Subset, FS_CardinalityType

LEMMA RefInit == Init => RefInv
<1> SUFFICES ASSUME Init, NEW t \in Threads PROVE References(t)
  BY DEF RefInv
<1>1. Senders(t) = {}
  BY DEF Init, Senders
<1> QED
  BY <1>1, FS_EmptySet DEF Init, References, Closed, Shut

(* A send holds the mailbox from its second step on. *)
HoldsMail(s, t) == send[s] # None /\ send[s].to = t /\ send[s].at \notin {"lookup", "ref"}

(* A step of one thread s that neither takes nor gives up a reference     *)
(* keeps the count.                                                       *)
LEMMA SendersSame ==
    ASSUME NEW t \in Threads, \A s \in Threads : HoldsMail(s, t)' <=> HoldsMail(s, t)
    PROVE  Senders(t)' = Senders(t)
  BY DEF Senders, HoldsMail

LEMMA SendersAdd ==
    ASSUME NEW t \in Threads, NEW r \in Threads, ~HoldsMail(r, t), HoldsMail(r, t)',
           \A s \in Threads : s # r => (HoldsMail(s, t)' <=> HoldsMail(s, t))
    PROVE  Cardinality(Senders(t)') = Cardinality(Senders(t)) + 1
<1>1. Senders(t)' = Senders(t) \cup {r} /\ r \notin Senders(t)
  BY DEF Senders, HoldsMail
<1> QED
  BY <1>1, SendersFinite, FS_AddElement

LEMMA SendersRemove ==
    ASSUME NEW t \in Threads, NEW r \in Threads, HoldsMail(r, t), ~HoldsMail(r, t)',
           \A s \in Threads : s # r => (HoldsMail(s, t)' <=> HoldsMail(s, t))
    PROVE  Cardinality(Senders(t)') = Cardinality(Senders(t)) - 1
<1>1. Senders(t)' = Senders(t) \ {r} /\ r \in Senders(t)
  BY DEF Senders, HoldsMail
<1> QED
  BY <1>1, SendersFinite, FS_RemoveElement

(* A reference that is held is counted. *)
LEMMA HeldIsCounted ==
    ASSUME TypeOK, RefInv, NEW t \in Threads, NEW s \in Threads, HoldsMail(s, t)
    PROVE  refcount[t] > 0
<1>1. s \in Senders(t)
  BY DEF Senders, HoldsMail
<1>2. Cardinality(Senders(t)) # 0
  BY <1>1, SendersFinite, FS_EmptySet
<1>3. refcount[t] = Cardinality(Senders(t)) + (IF pc[t] \in Closed THEN 0 ELSE 1)
  BY DEF RefInv, References
<1> QED
  BY <1>2, <1>3, SendersFinite

(* The steps that leave every count alone. *)
LEMMA RefSame ==
    ASSUME TypeOK, RefInv, NEW t \in Threads, refcount'[t] = refcount[t],
           \A s \in Threads : HoldsMail(s, t)' <=> HoldsMail(s, t),
           pc'[t] \in Closed <=> pc[t] \in Closed,
           pc'[t] \in Shut => refcount[t] = 0,
           mailboxFreed'[t] = TRUE => pc'[t] \in {"dtors", "dead"}
    PROVE  References(t)'
  BY SendersSame DEF RefInv, References

LEMMA RefSend ==
    ASSUME TypeOK, Shape, RefInv, NEW t \in Threads, SendStep(t), NEW u \in Threads
    PROVE  References(u)'
<1>a. Acts(t)
  BY DEF Acts, ThreadStep
<1>0. send[t] # None
  BY DEF SendStep, Lookup, LookupFails, Ref, RefRefused, Enqueue, EnqueueFails, Exchange, Post,
         ExchangeMailbox, Notify, Unref, AtSend
<1>t. /\ pc \in [Threads -> PCs] /\ refcount \in [Threads -> Nat]
      /\ send \in [Threads -> Sends \cup {None}]
  BY DEF TypeOK
<1>i. send[t].to \in Threads
  BY <1>0, SendIs
<1>o. \A s \in Threads : s # t => send'[s] = send[s]
  BY <1>a, OnlyActor DEF SameLocals
<1>h. \A s \in Threads : s # t => (HoldsMail(s, u)' <=> HoldsMail(s, u))
  BY <1>o DEF HoldsMail
<1>m. mailboxFreed' = mailboxFreed
  BY DEF SendStep, Lookup, LookupFails, Ref, RefRefused, Enqueue, EnqueueFails, Exchange, Post,
         ExchangeMailbox, Notify, Unref
<1>p. pc'[u] = pc[u] \/ (pc[u] = "loop" /\ pc'[u] = "waiting")
  <2>1. CASE Unref(t)
    <3>1. send[t].task.fn = "func" => pc[t] = "loop"
      BY <1>0 DEF Shape, Control
    <3> QED
      BY <1>t, <2>1, <3>1 DEF Unref, SendFails, SendSucceeds
  <2>2. CASE ~Unref(t)
    BY <2>2 DEF SendStep, Lookup, LookupFails, Ref, RefRefused, Enqueue, EnqueueFails, Exchange, Post,
         ExchangeMailbox, Notify, SendFails
  <2> QED
    BY <2>1, <2>2
<1>r. References(u)
  BY DEF RefInv
<1>q. ASSUME refcount' = refcount, HoldsMail(t, u)' <=> HoldsMail(t, u)
      PROVE  References(u)'
  BY <1>q, <1>h, <1>m, <1>p, <1>r, RefSame DEF References, Closed, Shut
<1>g. ASSUME NEW step \in SendSteps, GoSend(t, step),
             step \in {"lookup", "ref"} <=> send[t].at \in {"lookup", "ref"}
      PROVE  HoldsMail(t, u)' <=> HoldsMail(t, u)
  BY <1>0, <1>g, GoSendIs DEF HoldsMail
<1>1. CASE Lookup(t)
  BY <1>1, <1>q, <1>g DEF Lookup, AtSend, SendSteps
<1>2. CASE LookupFails(t) \/ RefRefused(t)
  <2>1. ~HoldsMail(t, u) /\ ~HoldsMail(t, u)' /\ refcount' = refcount
    BY <1>2, <1>t DEF LookupFails, RefRefused, SendFails, AtSend, HoldsMail
  <2> QED
    BY <1>q, <2>1
<1>3. CASE Ref(t)
  <2>1. GoSend(t, "enqueue") /\ "enqueue" \in SendSteps
    BY <1>3 DEF Ref, SendSteps
  <2>2. CASE send[t].to = u
    <3>1. ~HoldsMail(t, u) /\ HoldsMail(t, u)'
      BY <1>0, <1>3, <2>1, <2>2, GoSendIs DEF HoldsMail, Ref, AtSend
    <3>2. refcount'[u] = refcount[u] + 1 /\ refcount[u] # 0
      BY <1>3, <1>t, <2>2 DEF Ref
    <3>3. pc[u] \notin Shut
      BY <1>r, <3>2 DEF References
    <3>4. Cardinality(Senders(u)') = Cardinality(Senders(u)) + 1
      BY <1>h, <3>1, SendersAdd
    <3> QED
      BY <1>m, <1>p, <1>r, <1>t, <3>2, <3>3, <3>4, SendersFinite DEF References, Closed, Shut
  <2>3. CASE send[t].to # u
    <3>1. ~HoldsMail(t, u) /\ ~HoldsMail(t, u)'
      BY <1>0, <2>1, <2>3, GoSendIs DEF HoldsMail
    <3>2. refcount'[u] = refcount[u]
      BY <1>3, <1>t, <2>3 DEF Ref
    <3> QED
      BY <1>h, <1>m, <1>p, <1>r, <3>1, <3>2, RefSame DEF References, Closed, Shut
  <2> QED
    BY <2>2, <2>3
<1>4. CASE Enqueue(t)
  BY <1>4, <1>q, <1>g DEF Enqueue, AtSend, SendSteps
<1>5. CASE EnqueueFails(t)
  <2>1. HoldsMail(t, u)' <=> HoldsMail(t, u)
    BY <1>5, EnqueueFailsIs DEF HoldsMail
  <2> QED
    BY <1>5, <1>q, <2>1 DEF EnqueueFails
<1>6. CASE Exchange(t)
  BY <1>6, <1>q, <1>g DEF Exchange, AtSend, SendSteps
<1>7. CASE Post(t)
  BY <1>7, <1>q, <1>g DEF Post, AtSend, SendSteps
<1>8. CASE ExchangeMailbox(t)
  BY <1>8, <1>q, <1>g DEF ExchangeMailbox, AtSend, SendSteps
<1>9. CASE Notify(t)
  BY <1>9, <1>q, <1>g DEF Notify, AtSend, SendSteps
<1>10. CASE Unref(t)
  <2>1. send'[t] = None
    BY <1>10, <1>t DEF Unref, SendFails, SendSucceeds
  <2>2. CASE send[t].to = u
    <3>1. HoldsMail(t, u) /\ ~HoldsMail(t, u)'
      BY <1>0, <1>10, <2>1, <2>2 DEF HoldsMail, Unref, AtSend
    <3>2. refcount'[u] = refcount[u] - 1
      BY <1>10, <1>t, <2>2 DEF Unref
    <3>3. refcount[u] > 0
      BY <3>1, HeldIsCounted
    <3>4. pc[u] \notin Shut
      BY <1>r, <3>3 DEF References
    <3>5. Cardinality(Senders(u)') = Cardinality(Senders(u)) - 1
      BY <1>h, <3>1, SendersRemove
    <3> QED
      BY <1>m, <1>p, <1>r, <1>t, <3>2, <3>4, <3>5, SendersFinite DEF References, Closed, Shut
  <2>3. CASE send[t].to # u
    <3>1. ~HoldsMail(t, u) /\ ~HoldsMail(t, u)'
      BY <2>1, <2>3 DEF HoldsMail
    <3>2. refcount'[u] = refcount[u]
      BY <1>10, <1>t, <2>3 DEF Unref
    <3> QED
      BY <1>h, <1>m, <1>p, <1>r, <3>1, <3>2, RefSame DEF References, Closed, Shut
  <2> QED
    BY <2>2, <2>3
<1> QED
  BY <1>1, <1>2, <1>3, <1>4, <1>5, <1>6, <1>7, <1>8, <1>9, <1>10 DEF SendStep

(* The other steps begin a send or leave it alone. *)
LEMMA NewSend ==
    ASSUME TypeOK, Shape, NEW t \in Threads, Acts(t), ~SendStep(t)
    PROVE  \/ send'[t] = send[t]
           \/ /\ send[t] = None
              /\ \E q \in Queues, to \in Threads, fn \in {"func", "callback", "cancel"}, c \in Calls :
                    send'[t] = SendOf(q, to, fn, c)
<1>t. /\ send \in [Threads -> Sends \cup {None}] /\ tasks \in [Threads -> [Queues -> Seq(Tasks)]]
      /\ active \in [Threads -> Seq(Calls)]
  BY DEF TypeOK
<1>1. CASE \E s \in Servers, q \in Queues, k \in Kinds, c \in Calls :
              t \in Clients /\ (Issue(t, s, q, k, c) \/ IssueFails(t, s, q, k, c))
  BY <1>1, <1>t DEF Issue, IssueFails, Threads
<1>2. ASSUME NEW c \in Calls, call[c] # None, FinishContext(t, c), send[t] = None
      PROVE  \/ send'[t] = send[t]
             \/ \E q \in Queues, to \in Threads, fn \in {"func", "callback", "cancel"}, d \in Calls :
                   send'[t] = SendOf(q, to, fn, d)
  <2>1. call[c].queue \in Queues /\ call[c].caller \in Threads
    BY <1>2, CallIs
  <2> QED
    BY <1>2, <1>t, <2>1 DEF FinishContext
<1>3. CASE FinishInTask(t)
  <2>1. send[t] = None /\ job[t] # None /\ job[t].call \in Calls /\ call[job[t].call] # None
    BY <1>3, MadeKept DEF FinishInTask, Shape, Control
  <2> QED
    BY <1>2, <1>3, <2>1 DEF FinishInTask
<1>4. CASE \E c \in Calls : FinishLater(t, c)
  <2>1. PICK c \in Calls : FinishLater(t, c)
    BY <1>4
  <2>2. call[c] # None /\ send[t] = None
    BY <2>1 DEF FinishLater, Shape, LocalRefs
  <2> QED
    BY <1>2, <2>1, <2>2 DEF FinishLater
<1>5. ASSUME NEW c \in Calls, call[c] # None, CancelCtx(t, c), send[t] = None
      PROVE  \/ send'[t] = send[t]
             \/ \E q \in Queues, to \in Threads, fn \in {"func", "callback", "cancel"}, d \in Calls :
                   send'[t] = SendOf(q, to, fn, d)
  <2>1. call[c].queue \in Queues /\ call[c].caller \in Threads
    BY <1>5, CallIs
  <2> QED
    BY <1>5, <1>t, <2>1 DEF CancelCtx
<1>6. CASE CancelTasks(t)
  <2>1. send[t] = None
    BY <1>6 DEF CancelTasks
  <2>2. CASE tasks[t][cur[t]] = <<>>
    BY <1>6, <2>2 DEF CancelTasks
  <2>3. CASE tasks[t][cur[t]] # <<>>
    <3>1. cur[t] \in Queues
      BY <1>6 DEF CancelTasks, Shape, Control, Busy, TypeOK
    <3>2. PICK task : task = Head(tasks[t][cur[t]])
      OBVIOUS
    <3>3. task \in Tasks /\ task = tasks[t][cur[t]][1] /\ 1 \in 1 .. Len(tasks[t][cur[t]])
      BY <1>t, <2>3, <3>1, <3>2, TailIs
    <3>4. call[task.call] # None /\ task.call \in Calls
      BY <3>1, <3>3 DEF Shape, QueueRefs, Tasks
    <3>5. CancelTask(t, task)
      BY <1>6, <2>3, <3>2 DEF CancelTasks
    <3> QED
      BY <1>5, <2>1, <3>4, <3>5 DEF CancelTask
  <2> QED
    BY <2>2, <2>3
<1>7. CASE CancelActive(t)
  <2>1. send[t] = None
    BY <1>7 DEF CancelActive
  <2>2. CASE active[t] = <<>>
    BY <1>7, <2>2 DEF CancelActive
  <2>3. CASE active[t] # <<>>
    <3>1. PICK c : c = Head(active[t])
      OBVIOUS
    <3>2. c \in Calls /\ c = active[t][1] /\ 1 \in 1 .. Len(active[t])
      BY <1>t, <2>3, <3>1, TailIs
    <3>3. call[c] # None /\ CancelCtx(t, c)
      BY <1>7, <2>3, <3>1, <3>2 DEF CancelActive, Shape, LocalRefs
    <3> QED
      BY <1>5, <2>1, <3>2, <3>3
  <2> QED
    BY <2>2, <2>3
<1>8. CASE SyncReturns(t) \/ (\E q \in Queues : ExecuteQueue(t, q)) \/ Exit(t) \/ CloseMailbox(t)
           \/ MailboxClosed(t) \/ CancelMail(t) \/ (\E same \in BOOLEAN : Reuse(t, same))
  BY <1>8 DEF SyncReturns, ExecuteQueue, Exit, CloseMailbox, MailboxClosed, CancelMail, Reuse
<1>9. CASE \E next \in {"drain", "finish", "exit"} : RunFunction(t, next)
  BY <1>9 DEF RunFunction
<1>10. CASE Start(t) \/ CheckMailbox(t) \/ LateWake(t) \/ MailReceived(t) \/ NextMail(t)
            \/ ReceiveNotification(t) \/ NextTask(t) \/ RunAnswer(t) \/ QueueDone(t) \/ MailDone(t)
  BY <1>10 DEF Start, CheckMailbox, LateWake, MailReceived, NextMail, ReceiveNotification, NextTask,
     RunAnswer, QueueDone, MailDone
<1> QED
  BY <1>1, <1>3, <1>4, <1>6, <1>7, <1>8, <1>9, <1>10
     DEF Acts, ThreadStep, ExitStep, ReceiveStep, ExitInTask

LEMMA RefStep ==
    ASSUME TypeOK, Shape, RefInv, NEW t \in Threads, Acts(t), ~SendStep(t), NEW u \in Threads
    PROVE  References(u)'
<1>t. /\ pc \in [Threads -> PCs] /\ refcount \in [Threads -> Nat]
      /\ mailboxFreed \in [Threads -> BOOLEAN] /\ send \in [Threads -> Sends \cup {None}]
  BY DEF TypeOK
<1>r. References(u)
  BY DEF RefInv
<1>o. u # t => pc'[u] = pc[u]
  BY OnlyActor DEF SameLocals
<1>h. \A s \in Threads : HoldsMail(s, u)' <=> HoldsMail(s, u)
  <2>1. \A s \in Threads : s # t => send'[s] = send[s]
    BY OnlyActor DEF SameLocals
  <2>2. HoldsMail(t, u)' <=> HoldsMail(t, u)
    <3>1. \A q, to, fn, c : SendOf(q, to, fn, c).at = "lookup"
      BY DEF SendOf
    <3>2. send'[t] = send[t] \/ (send[t] = None /\ send'[t].at = "lookup")
      BY <3>1, NewSend
    <3> QED
      BY <3>2 DEF HoldsMail
  <2> QED
    BY <2>1, <2>2 DEF HoldsMail
<1>q. ASSUME refcount' = refcount, mailboxFreed' = mailboxFreed,
             u = t => (pc'[t] \in Closed <=> pc[t] \in Closed) /\ (pc'[t] \in Shut => pc[t] \in Shut)
                      /\ (pc[t] \in {"dtors", "dead"} => pc'[t] \in {"dtors", "dead"})
      PROVE  References(u)'
  BY <1>q, <1>h, <1>o, <1>r, RefSame DEF References
<1>1. CASE \E s \in Servers, q \in Queues, k \in Kinds, c \in Calls :
              t \in Clients /\ (Issue(t, s, q, k, c) \/ IssueFails(t, s, q, k, c))
  BY <1>1, <1>q DEF Issue, IssueFails
<1>2. CASE FinishInTask(t) \/ (\E c \in Calls : FinishLater(t, c))
  <2>1. UNCHANGED <<refcount, mailboxFreed>> /\ pc[t] \in {"loop", "finish"}
        /\ pc'[t] \in {"loop", "drain"}
    BY <1>2, <1>t DEF FinishInTask, FinishLater, FinishContext
  <2> QED
    BY <1>q, <2>1 DEF Closed, Shut
<1>3. CASE ReceiveStep(t) \/ ExitInTask(t)
  <2>1. UNCHANGED <<refcount, mailboxFreed>>
    BY <1>3 DEF ReceiveStep, ExitInTask, Start, CheckMailbox, LateWake, MailReceived, FinishInTask,
       FinishContext, NextMail, ReceiveNotification, NextTask, RunFunction, RunAnswer, QueueDone, MailDone
  <2>2. pc'[t] = pc[t] \/ (pc[t] \notin Closed /\ pc'[t] \notin Closed)
    <3>1. CASE FinishInTask(t) \/ NextMail(t) \/ NextTask(t)
      BY <3>1, <1>t DEF FinishInTask, NextMail, NextTask, Closed
    <3>2. CASE ~(FinishInTask(t) \/ NextMail(t) \/ NextTask(t))
      BY <3>2, <1>3, <1>t DEF ReceiveStep, ExitInTask, Start, CheckMailbox, LateWake, MailReceived,
         ReceiveNotification, RunFunction, RunAnswer, QueueDone, MailDone, Closed
    <3> QED
      BY <3>1, <3>2
  <2> QED
    BY <1>q, <2>1, <2>2 DEF Closed, Shut
<1>4. CASE SyncReturns(t) \/ (\E q \in Queues : ExecuteQueue(t, q)) \/ Exit(t)
  <2>1. UNCHANGED <<refcount, mailboxFreed>> /\ pc[t] \notin Closed /\ pc'[t] \notin Closed
    BY <1>4, <1>t DEF SyncReturns, ExecuteQueue, Exit, Closed
  <2> QED
    BY <1>q, <2>1 DEF Closed, Shut
<1>5. CASE CancelTasks(t) \/ CancelActive(t)
  <2>1. UNCHANGED <<refcount, mailboxFreed>>
        /\ \/ pc[t] = "cancelTasks" /\ pc'[t] \in {"cancelTasks", "cancelMail"}
           \/ pc[t] = "dtors" /\ pc'[t] \in {"dtors", "dead"}
    BY <1>5, <1>t DEF CancelTasks, CancelActive
  <2> QED
    BY <1>q, <2>1 DEF Closed, Shut
<1>6. CASE CloseMailbox(t)
  <2>1. UNCHANGED mailboxFreed /\ pc[t] = "exit" /\ pc'[t] = "closing"
        /\ refcount'[t] = refcount[t] - 1 /\ (u # t => refcount'[u] = refcount[u])
    BY <1>6, <1>t DEF CloseMailbox
  <2>2. CASE u = t
    <3>1. Senders(t)' = Senders(t)
      BY <1>h, <2>2, SendersSame
    <3> QED
      BY <1>r, <1>t, <2>1, <2>2, <3>1, SendersFinite DEF References, Closed, Shut
  <2>3. CASE u # t
    BY <1>h, <1>o, <1>r, <2>1, <2>3, RefSame DEF References
  <2> QED
    BY <2>2, <2>3
<1>7. CASE MailboxClosed(t)
  <2>1. UNCHANGED <<refcount, mailboxFreed>> /\ pc[t] = "closing" /\ pc'[t] = "cancelMail"
        /\ refcount[t] = 0
    BY <1>7, <1>t DEF MailboxClosed
  <2> QED
    BY <1>h, <1>o, <1>r, <2>1, RefSame DEF References, Closed, Shut
<1>8. CASE CancelMail(t)
  <2>1. /\ UNCHANGED refcount /\ pc[t] = "cancelMail"
        /\ \/ pc'[t] = "dtors" /\ (u # t => mailboxFreed'[u] = mailboxFreed[u])
           \/ pc'[t] = "cancelTasks" /\ mailboxFreed' = mailboxFreed
    BY <1>8, <1>t DEF CancelMail
  <2> QED
    BY <1>h, <1>o, <1>r, <2>1, RefSame DEF References, Closed, Shut
<1>9. CASE \E same \in BOOLEAN : Reuse(t, same)
  <2>1. /\ pc[t] = "dead" /\ pc'[t] = "starting" /\ refcount'[t] = 1 /\ mailboxFreed'[t] = FALSE
        /\ u # t => refcount'[u] = refcount[u] /\ mailboxFreed'[u] = mailboxFreed[u]
    BY <1>9, <1>t DEF Reuse
  <2>2. CASE u = t
    <3>1. Senders(t)' = Senders(t)
      BY <1>h, <2>2, SendersSame
    <3>2. refcount[t] = 0
      BY <1>r, <2>1, <2>2 DEF References, Shut
    <3> QED
      BY <1>r, <2>1, <2>2, <3>1, <3>2, SendersFinite DEF References, Closed, Shut
  <2>3. CASE u # t
    BY <1>h, <1>o, <1>r, <2>1, <2>3, RefSame DEF References
  <2> QED
    BY <2>2, <2>3
<1> QED
  BY <1>1, <1>2, <1>3, <1>4, <1>5, <1>6, <1>7, <1>8, <1>9 DEF Acts, ThreadStep, ExitStep

LEMMA RefNext == TypeOK /\ Shape /\ RefInv /\ [Next]_vars => RefInv'
<1> SUFFICES ASSUME TypeOK, Shape, RefInv, [Next]_vars PROVE RefInv'
  OBVIOUS
<1>1. CASE UNCHANGED vars
  BY <1>1 DEF RefInv, References, Senders, vars
<1>2. ASSUME NEW q \in Queues, DestroyQueue(q)
      PROVE  RefInv'
  BY <1>2 DEF RefInv, References, Senders, DestroyQueue
<1>3. ASSUME NEW t \in Threads, Acts(t)
      PROVE  RefInv'
  BY <1>3, RefSend, RefStep DEF RefInv
<1> QED
  BY <1>1, <1>2, <1>3, NextIs

LEMMA TypeStep == TypeOK /\ Shape /\ RefInv /\ [Next]_vars => TypeOK'
<1> SUFFICES ASSUME TypeOK, Shape, RefInv, [Next]_vars PROVE TypeOK'
  OBVIOUS
<1>1. CASE UNCHANGED vars
  BY <1>1 DEF TypeOK, vars
<1>2. CASE \E q \in Queues : DestroyQueue(q)
  BY <1>2, TypeDestroy
<1>3. ASSUME NEW t \in Threads, Acts(t)
      PROVE  TypeOK'
  <2>1. CASE SendStep(t)
    <3>1. AtSend(t, "unref") => refcount[send[t].to] > 0
      <4>1. ASSUME AtSend(t, "unref") PROVE HoldsMail(t, send[t].to) /\ send[t].to \in Threads
        BY <4>1, SendIs DEF AtSend, HoldsMail
      <4> QED
        BY <4>1, HeldIsCounted
    <3> QED
      BY <2>1, <3>1, TypeSend
  <2>2. CASE ExitStep(t) \/ Exit(t) \/ (\E same \in BOOLEAN : Reuse(t, same))
    <3>1. pc[t] = "exit" => refcount[t] > 0
      BY SendersFinite DEF RefInv, References, Closed
    <3> QED
      BY <2>2, <3>1, TypeExit
  <2>3. CASE \E s \in Servers, q \in Queues, k \in Kinds, c \in Calls :
                t \in Clients /\ (Issue(t, s, q, k, c) \/ IssueFails(t, s, q, k, c))
    BY <2>3, TypeIssue
  <2> QED
    BY <1>3, <2>1, <2>2, <2>3, TypeReceive DEF Acts, ThreadStep
<1> QED
  BY <1>1, <1>2, <1>3, NextIs

(***************************************************************************)
(* Theorems of the reference count.                                        *)
(***************************************************************************)

CountInv == TypeOK /\ Shape /\ RefInv

LEMMA CountInvariant == Spec => []CountInv
<1>1. Init => CountInv
  BY TypeInit, ShapeInit, RefInit DEF CountInv
<1>2. CountInv /\ [Next]_vars => CountInv'
  BY TypeStep, ShapeStep, RefNext DEF CountInv
<1> QED
  BY <1>1, <1>2, PTL DEF Spec

(* Every variable keeps its type; above all, mailbox_refcount never goes  *)
(* below zero, whichever sends fail.                                      *)
THEOREM TypeCorrect == Spec => []TypeOK
<1>1. CountInv => TypeOK
  BY DEF CountInv
<1> QED
  BY <1>1, CountInvariant, PTL

(* A mailbox that a send still holds has not been destroyed               *)
(* (_emscripten_thread_mailbox_shutdown against _ref and _unref).         *)
THEOREM MailboxStaysOpen == Spec => []MailboxOpenWhileHeld
<1>1. CountInv => MailboxOpenWhileHeld
  <2> SUFFICES ASSUME CountInv, NEW s \in Threads, send[s] # None,
                      send[s].at \notin {"lookup", "ref"}, mailboxFreed[send[s].to]
               PROVE  FALSE
    BY DEF MailboxOpenWhileHeld
  <2>1. send[s].to \in Threads /\ HoldsMail(s, send[s].to)
    BY SendIs DEF CountInv, HoldsMail
  <2>2. refcount[send[s].to] > 0
    BY <2>1, HeldIsCounted DEF CountInv
  <2>3. refcount[send[s].to] = 0
    BY <2>1 DEF CountInv, RefInv, References, Shut
  <2> QED
    BY <2>2, <2>3
<1> QED
  BY <1>1, CountInvariant, PTL

(***************************************************************************)
(* Notifications: the flag of a queue, its message, its work.              *)
(***************************************************************************)

LEMMA NoteInit == Init => NoteInv
  BY NoneIsNothing DEF Init, NoteInv, OneMessage, Announced, Distinct, InMail, Opened, Sending, AtSend,
     Received

(* The message at the head leaves the mailbox, and only it. *)
LEMMA MailTail ==
    ASSUME TypeOK, NEW t \in Threads, mailbox[t] # <<>>, mailbox'[t] = Tail(mailbox[t]),
           NEW q \in Queues, Distinct(t, q)
    PROVE  /\ Distinct(t, q)'
           /\ InMail(t, q)' <=> (InMail(t, q) /\ q # Head(mailbox[t]))
           /\ Head(mailbox[t]) \in Queues /\ InMail(t, Head(mailbox[t]))
<1>1. mailbox[t] \in Seq(Queues)
  BY DEF TypeOK
<1>2. PICK list : list = mailbox[t]
  OBVIOUS
<1>3. /\ list \in Seq(Queues) /\ list # <<>> /\ Len(list) \in Nat
      /\ Head(list) \in Queues /\ Head(list) = list[1] /\ 1 \in 1 .. Len(list)
      /\ Len(Tail(list)) = Len(list) - 1
      /\ \A i \in 1 .. Len(Tail(list)) : i + 1 \in 1 .. Len(list) /\ Tail(list)[i] = list[i + 1]
  BY <1>1, <1>2, TailIs, EmptyIs
<1>4. \A i, j \in 1 .. Len(list) : list[i] = q /\ list[j] = q => i = j
  BY <1>2 DEF Distinct
<1>5. \A i, j \in 1 .. Len(Tail(list)) : Tail(list)[i] = q /\ Tail(list)[j] = q => i = j
  <2> SUFFICES ASSUME NEW i \in 1 .. Len(Tail(list)), NEW j \in 1 .. Len(Tail(list)),
                      Tail(list)[i] = q, Tail(list)[j] = q
               PROVE  i = j
    OBVIOUS
  <2>1. i + 1 = j + 1
    BY <1>3, <1>4
  <2> QED
    BY <2>1
<1>6. (\E i \in 1 .. Len(Tail(list)) : Tail(list)[i] = q)
         <=> ((\E i \in 1 .. Len(list) : list[i] = q) /\ q # list[1])
  <2>1. ASSUME NEW i \in 1 .. Len(Tail(list)), Tail(list)[i] = q
        PROVE  (\E j \in 1 .. Len(list) : list[j] = q) /\ q # list[1]
    <3>1. i + 1 \in 1 .. Len(list) /\ list[i + 1] = q /\ i + 1 # 1
      BY <1>3, <2>1
    <3> QED
      BY <1>3, <1>4, <3>1
  <2>2. ASSUME NEW i \in 1 .. Len(list), list[i] = q, q # list[1]
        PROVE  \E j \in 1 .. Len(Tail(list)) : Tail(list)[j] = q
    <3>1. i - 1 \in 1 .. Len(Tail(list)) /\ (i - 1) + 1 = i
      BY <1>3, <2>2
    <3>2. Tail(list)[i - 1] = list[(i - 1) + 1]
      BY <1>3, <3>1
    <3> QED
      BY <2>2, <3>1, <3>2
  <2> QED
    BY <2>1, <2>2
<1> QED
  BY <1>2, <1>3, <1>5, <1>6 DEF Distinct, InMail

LEMMA MailAppend ==
    ASSUME TypeOK, NEW t \in Threads, NEW k \in Queues, mailbox'[t] = Append(mailbox[t], k),
           NEW q \in Queues, Distinct(t, q)
    PROVE  /\ q # k \/ ~InMail(t, q) => Distinct(t, q)'
           /\ InMail(t, q)' <=> (InMail(t, q) \/ q = k)
<1>1. mailbox[t] \in Seq(Queues)
  BY DEF TypeOK
<1>2. PICK list : list = mailbox[t]
  OBVIOUS
<1>3. /\ list \in Seq(Queues) /\ Len(list) \in Nat
      /\ Len(Append(list, k)) = Len(list) + 1
      /\ \A i \in 1 .. Len(list) : Append(list, k)[i] = list[i]
      /\ Append(list, k)[Len(list) + 1] = k
  BY <1>1, <1>2, AppendIs, EmptyIs
<1>4. \A i \in 1 .. Len(Append(list, k)) : i \in 1 .. Len(list) \/ i = Len(list) + 1
  BY <1>3
<1>5. \A i \in 1 .. Len(list) : i \in 1 .. Len(Append(list, k))
  BY <1>3
<1>6. Len(list) + 1 \in 1 .. Len(Append(list, k))
  BY <1>3
<1>7. mailbox'[t] = Append(list, k)
  BY <1>2
<1>8. InMail(t, q)' <=> (InMail(t, q) \/ q = k)
  <2>1. InMail(t, q)' <=> \E i \in 1 .. Len(Append(list, k)) : Append(list, k)[i] = q
    BY <1>7 DEF InMail
  <2>2. InMail(t, q) <=> \E i \in 1 .. Len(list) : list[i] = q
    BY <1>2 DEF InMail
  <2> QED
    BY <1>3, <1>4, <1>5, <1>6, <2>1, <2>2
<1>9. ASSUME q # k \/ ~InMail(t, q) PROVE Distinct(t, q)'
  <2>1. Distinct(t, q)' <=> \A i, j \in 1 .. Len(Append(list, k)) :
           Append(list, k)[i] = q /\ Append(list, k)[j] = q => i = j
    BY <1>7 DEF Distinct
  <2>2. \A i, j \in 1 .. Len(list) : list[i] = q /\ list[j] = q => i = j
    BY <1>2 DEF Distinct
  <2>3. q # k \/ \A i \in 1 .. Len(list) : list[i] # q
    BY <1>2, <1>9 DEF InMail
  <2> QED
    BY <1>3, <1>4, <2>1, <2>2, <2>3
<1> QED
  BY <1>8, <1>9

(* A step that changes nothing about the queue q of thread u. *)
LEMMA NoteFrame ==
    ASSUME NEW u \in Threads, NEW q \in Queues, OneMessage(u, q), Announced(u, q),
           mailbox'[u] = mailbox[u], note'[u][q] = note[u][q],
           tasks'[u][q] = tasks[u][q] \/ tasks'[u][q] = <<>>
             \/ (tasks[u][q] # <<>> /\ tasks'[u][q] # <<>>),
           Opened(u, q)' <=> Opened(u, q), Received(u, q)' <=> Received(u, q),
           Received(u, q) /\ pc'[u] = "cas" => pc[u] = "cas",
           \A s \in Threads : /\ Sending(s, "post", u, q)' <=> Sending(s, "post", u, q)
                              /\ Sending(s, "exchange", u, q)' <=> Sending(s, "exchange", u, q)
    PROVE  OneMessage(u, q)' /\ Announced(u, q)'
<1>1. (InMail(u, q)' <=> InMail(u, q)) /\ (Distinct(u, q)' <=> Distinct(u, q))
  BY DEF InMail, Distinct
<1>2. OneMessage(u, q)'
  BY <1>1 DEF OneMessage
<1>3. Announced(u, q)'
  BY <1>1 DEF Announced
<1> QED
  BY <1>2, <1>3

(* Sends of the other threads, and the steps that are not one of a send.  *)
LEMMA SendingKept ==
    ASSUME TypeOK, Shape, NEW t \in Threads, Acts(t), NEW s \in Threads, s # t \/ ~SendStep(t),
           NEW step, step \notin {"lookup"}, NEW u
    PROVE  /\ AtSend(s, step)' <=> AtSend(s, step)
           /\ (AtSend(s, step) /\ send[s].to = u)' <=> (AtSend(s, step) /\ send[s].to = u)
           /\ \A q : Sending(s, step, u, q)' <=> Sending(s, step, u, q)
<1>1. send'[s] = send[s] \/ (send[s] = None /\ send'[s].at = "lookup")
  <2>1. CASE s # t
    BY <2>1, OnlyActor DEF SameLocals
  <2>2. CASE s = t
    <3>1. \A q, to, fn, c : SendOf(q, to, fn, c).at = "lookup"
      BY DEF SendOf
    <3> QED
      BY <2>2, <3>1, NewSend
  <2> QED
    BY <2>1, <2>2
<1> QED
  BY <1>1 DEF AtSend, Sending

(* The steps of a send that say nothing of a queue. *)
LEMMA NoteSendFrame ==
    ASSUME TypeOK, Shape, NoteInv, NEW t \in Threads, SendStep(t), UNCHANGED <<mailbox, note, tasks>>,
           send'[t] = None \/ (send'[t] # None /\ send'[t].at \notin {"post", "exchange"}),
           ~AtSend(t, "post"), ~AtSend(t, "exchange"),
           NEW u \in Threads, NEW q \in Queues
    PROVE  OneMessage(u, q)' /\ Announced(u, q)'
<1>1. Acts(t)
  BY DEF Acts, ThreadStep
<1>2. \A s \in Threads : /\ Sending(s, "post", u, q)' <=> Sending(s, "post", u, q)
                         /\ Sending(s, "exchange", u, q)' <=> Sending(s, "exchange", u, q)
  <2> SUFFICES ASSUME NEW s \in Threads
               PROVE  /\ Sending(s, "post", u, q)' <=> Sending(s, "post", u, q)
                      /\ Sending(s, "exchange", u, q)' <=> Sending(s, "exchange", u, q)
    OBVIOUS
  <2>1. CASE s = t
    BY <2>1 DEF Sending, AtSend
  <2>2. CASE s # t
    BY <1>1, <2>2, SendingKept
  <2> QED
    BY <2>1, <2>2
<1>3. UNCHANGED <<cur, fromMail>>
  BY DEF SendStep, Lookup, LookupFails, Ref, RefRefused, Enqueue, EnqueueFails, Exchange, Post,
         ExchangeMailbox, Notify, Unref
<1>4. pc'[u] = pc[u] \/ cur[u] \notin Queues
  <2>1. CASE u # t
    BY <1>1, <2>1, OnlyActor DEF SameLocals
  <2>2. CASE u = t /\ pc'[t] # pc[t]
    <3>1. Unref(t) /\ pc[t] = "loop"
      <4>1. Unref(t)
        BY <2>2 DEF SendStep, Lookup, LookupFails, Ref, RefRefused, Enqueue, EnqueueFails, Exchange, Post,
           ExchangeMailbox, Notify, SendFails
      <4>2. send[t] # None /\ send[t].task.fn = "func"
        BY <2>2, <4>1 DEF Unref, AtSend, SendFails, SendSucceeds
      <4> QED
        BY <4>1, <4>2 DEF Shape, Control
    <3>2. cur[t] = None
      BY <3>1 DEF Shape, Control, Busy
    <3> QED
      BY <2>2, <3>2, NoneIsNothing
  <2> QED
    BY <2>1, <2>2
<1>5. OneMessage(u, q) /\ Announced(u, q)
  BY DEF NoteInv
<1>6. Opened(u, q)' <=> Opened(u, q)
  BY <1>3, <1>4 DEF Opened
<1>7. /\ Received(u, q)' <=> Received(u, q)
      /\ Received(u, q) /\ pc'[u] = "cas" => pc[u] = "cas"
  BY <1>3, <1>4 DEF Received
<1> QED
  BY <1>2, <1>5, <1>6, <1>7, NoteFrame

LEMMA NoteSend ==
    ASSUME TypeOK, Shape, NoteInv, NEW t \in Threads, SendStep(t), NEW u \in Threads, NEW q \in Queues
    PROVE  OneMessage(u, q)' /\ Announced(u, q)'
<1>0. send[t] # None
  BY DEF SendStep, Lookup, LookupFails, Ref, RefRefused, Enqueue, EnqueueFails, Exchange, Post,
         ExchangeMailbox, Notify, Unref, AtSend
<1>1. Acts(t)
  BY DEF Acts, ThreadStep
<1>t. /\ mailbox \in [Threads -> Seq(Queues)] /\ note \in [Threads -> [Queues -> Notification]]
      /\ tasks \in [Threads -> [Queues -> Seq(Tasks)]] /\ send \in [Threads -> Sends \cup {None}]
  BY DEF TypeOK
<1>i. /\ send[t].to \in Threads /\ send[t].queue \in Queues /\ send[t].task \in Tasks
      /\ send[t] \in Sends
  BY <1>0, SendIs
<1>v. OneMessage(u, q) /\ Announced(u, q)
  BY DEF NoteInv
<1>o. \A s \in Threads : s # t =>
         /\ Sending(s, "post", u, q)' <=> Sending(s, "post", u, q)
         /\ Sending(s, "exchange", u, q)' <=> Sending(s, "exchange", u, q)
  BY <1>1, SendingKept
<1>2. CASE Lookup(t)
  <2>1. UNCHANGED <<mailbox, note, tasks>> /\ AtSend(t, "lookup") /\ GoSend(t, "ref") /\ "ref" \in SendSteps
    BY <1>2 DEF Lookup, SendSteps
  <2> QED
    BY <1>0, <2>1, GoSendIs, NoteSendFrame DEF AtSend
<1>3. CASE LookupFails(t) \/ RefRefused(t) \/ Unref(t)
  <2>1. /\ UNCHANGED <<mailbox, note, tasks>> /\ send[t].at \in {"lookup", "ref", "unref"}
        /\ send'[t] = None
    BY <1>3, <1>t DEF LookupFails, RefRefused, Unref, SendFails, SendSucceeds, AtSend
  <2> QED
    BY <2>1, NoteSendFrame DEF AtSend
<1>4. CASE Ref(t)
  <2>1. UNCHANGED <<mailbox, note, tasks>> /\ AtSend(t, "ref") /\ GoSend(t, "enqueue")
        /\ "enqueue" \in SendSteps
    BY <1>4 DEF Ref, SendSteps
  <2> QED
    BY <1>0, <2>1, GoSendIs, NoteSendFrame DEF AtSend
<1>5. CASE EnqueueFails(t)
  <2>1. UNCHANGED <<mailbox, note, tasks>>
    BY <1>5 DEF EnqueueFails
  <2> QED
    BY <1>5, <2>1, EnqueueFailsIs, NoteSendFrame DEF AtSend
<1>6. CASE ExchangeMailbox(t)
  <2>1. /\ UNCHANGED <<mailbox, note, tasks>> /\ AtSend(t, "exchangeMailbox")
        /\ \E step \in {"unref", "notify"} : GoSend(t, step) /\ step \in SendSteps
    BY <1>6 DEF ExchangeMailbox, SendSteps
  <2>2. send'[t] # None /\ send'[t].at \in {"unref", "notify"}
    BY <1>0, <2>1, GoSendIs
  <2> QED
    BY <2>1, <2>2, NoteSendFrame DEF AtSend
<1>7. CASE Notify(t)
  <2>1. UNCHANGED <<mailbox, note, tasks>> /\ AtSend(t, "notify") /\ GoSend(t, "unref")
        /\ "unref" \in SendSteps
    BY <1>7 DEF Notify, SendSteps
  <2> QED
    BY <1>0, <2>1, GoSendIs, NoteSendFrame DEF AtSend
<1>c. ASSUME UNCHANGED <<pc, cur, fromMail>>
      PROVE  /\ Opened(u, q)' <=> Opened(u, q)
             /\ Received(u, q)' <=> Received(u, q)
  BY <1>c DEF Opened, Received
<1>8. CASE Enqueue(t)
  <2>1. UNCHANGED <<mailbox, note, pc, cur, fromMail>> /\ AtSend(t, "enqueue") /\ GoSend(t, "exchange")
        /\ "exchange" \in SendSteps
    BY <1>8 DEF Enqueue, SendSteps
  <2>2. /\ send'[t] # None /\ send'[t].at = "exchange" /\ send'[t].to = send[t].to
        /\ send'[t].queue = send[t].queue
    BY <1>0, <2>1, GoSendIs
  <2>3. Sending(t, "post", u, q)' <=> Sending(t, "post", u, q)
    BY <2>1, <2>2 DEF Sending, AtSend
  <2>4. CASE send[t].to = u /\ send[t].queue = q
    <3>1. Sending(t, "exchange", u, q)'
      BY <2>2, <2>4 DEF Sending, AtSend
    <3>2. OneMessage(u, q)'
      BY <1>c, <1>o, <1>v, <2>1, <2>3 DEF OneMessage, InMail, Distinct
    <3>3. Announced(u, q)'
      BY <1>c, <1>o, <1>v, <2>1, <2>3, <3>1 DEF Announced, InMail
    <3> QED
      BY <3>2, <3>3
  <2>5. CASE ~(send[t].to = u /\ send[t].queue = q)
    <3>1. tasks'[u][q] = tasks[u][q]
      BY <1>8, <1>t, <1>i, <2>5 DEF Enqueue
    <3>2. Sending(t, "exchange", u, q)' <=> Sending(t, "exchange", u, q)
      BY <2>2, <2>5 DEF Sending, AtSend
    <3> QED
      BY <1>c, <1>o, <1>v, <2>1, <2>3, <3>1, <3>2, NoteFrame
  <2> QED
    BY <2>4, <2>5
<1>9. CASE Exchange(t)
  <2>1. /\ UNCHANGED <<mailbox, tasks, pc, cur, fromMail>> /\ AtSend(t, "exchange")
        /\ \E step \in {"unref", "post"} :
              /\ GoSend(t, step) /\ step \in SendSteps
              /\ step = "unref" <=> note[send[t].to][send[t].queue] = "pending"
        /\ note'[send[t].to][send[t].queue] = "pending"
        /\ ~(send[t].to = u /\ send[t].queue = q) => note'[u][q] = note[u][q]
    BY <1>9, <1>t, <1>i DEF Exchange, SendSteps
  <2>2. /\ send'[t] # None /\ send'[t].at \in {"unref", "post"} /\ send'[t].to = send[t].to
        /\ send'[t].queue = send[t].queue
        /\ send'[t].at = "unref" <=> note[send[t].to][send[t].queue] = "pending"
    BY <1>0, <2>1, GoSendIs
  <2>3. CASE send[t].to = u /\ send[t].queue = q
    <3>1. Sending(t, "post", u, q)' <=> note[u][q] # "pending"
      BY <2>2, <2>3 DEF Sending, AtSend
    <3>2. ~Sending(t, "post", u, q)
      BY <2>1 DEF Sending, AtSend
    <3>3. OneMessage(u, q)'
      <4>1. CASE note[u][q] = "pending"
        BY <1>c, <1>o, <1>v, <2>1, <2>3, <3>1, <3>2, <4>1 DEF OneMessage, InMail, Distinct
      <4>2. CASE note[u][q] # "pending"
        <5>1. ~InMail(u, q) /\ ~Opened(u, q) /\ \A s \in Threads : ~Sending(s, "post", u, q)
          BY <1>v, <4>2 DEF OneMessage
        <5> QED
          BY <1>c, <1>o, <1>v, <2>1, <2>3, <3>1, <5>1 DEF OneMessage, InMail, Distinct
      <4> QED
        BY <4>1, <4>2
    <3>4. Announced(u, q)'
      BY <1>c, <1>o, <1>v, <2>1, <2>3, <3>1, <3>2 DEF Announced, InMail
    <3> QED
      BY <3>3, <3>4
  <2>4. CASE ~(send[t].to = u /\ send[t].queue = q)
    <3>1. /\ ~Sending(t, "post", u, q)' /\ ~Sending(t, "post", u, q)
          /\ ~Sending(t, "exchange", u, q)' /\ ~Sending(t, "exchange", u, q)
      BY <2>2, <2>4 DEF Sending, AtSend
    <3> QED
      BY <1>c, <1>o, <1>v, <2>1, <2>4, <3>1, NoteFrame
  <2> QED
    BY <2>3, <2>4
<1>10. CASE Post(t)
  <2>1. /\ UNCHANGED <<note, tasks, pc, cur, fromMail>> /\ AtSend(t, "post")
        /\ GoSend(t, "exchangeMailbox") /\ "exchangeMailbox" \in SendSteps
        /\ mailbox'[send[t].to] = Append(mailbox[send[t].to], send[t].queue)
        /\ send[t].to # u => mailbox'[u] = mailbox[u]
    BY <1>10, <1>t, <1>i DEF Post, SendSteps
  <2>2. /\ send'[t] # None /\ send'[t].at = "exchangeMailbox" /\ send'[t].to = send[t].to
        /\ send'[t].queue = send[t].queue
    BY <1>0, <2>1, GoSendIs
  <2>3. /\ ~Sending(t, "post", u, q)' /\ ~Sending(t, "exchange", u, q)'
        /\ ~Sending(t, "exchange", u, q)
        /\ Sending(t, "post", u, q) <=> (send[t].to = u /\ send[t].queue = q)
    BY <1>0, <2>1, <2>2 DEF Sending, AtSend
  <2>4. CASE send[t].to = u
    <3>1. Distinct(u, q)
      BY <1>v DEF OneMessage
    <3>2. /\ q # send[t].queue \/ ~InMail(u, q) => Distinct(u, q)'
          /\ InMail(u, q)' <=> (InMail(u, q) \/ q = send[t].queue)
      BY <1>i, <2>1, <2>4, <3>1, MailAppend
    <3>3. OneMessage(u, q)'
      BY <1>c, <1>o, <1>v, <2>1, <2>3, <2>4, <3>2 DEF OneMessage
    <3>4. Announced(u, q)'
      BY <1>c, <1>o, <1>v, <2>1, <2>3, <2>4, <3>2 DEF Announced
    <3> QED
      BY <3>3, <3>4
  <2>5. CASE send[t].to # u
    BY <1>c, <1>o, <1>v, <2>1, <2>3, <2>5, NoteFrame
  <2> QED
    BY <2>4, <2>5
<1> QED
  BY <1>2, <1>3, <1>4, <1>5, <1>6, <1>7, <1>8, <1>9, <1>10 DEF SendStep

(* The steps of the receiving thread that say nothing of its queues. *)
LEMMA NoteIdle ==
    ASSUME TypeOK, Shape, NoteInv, NEW t \in Threads, Acts(t), ~SendStep(t),
           UNCHANGED <<mailbox, note, tasks>>,
           cur'[t] = cur[t] /\ fromMail'[t] = fromMail[t],
           \/ pc'[t] = pc[t] \/ cur[t] = None
           \/ pc[t] \in {"drain", "run", "finish"} /\ pc'[t] \in {"drain", "run", "finish"},
           NEW u \in Threads, NEW q \in Queues
    PROVE  OneMessage(u, q)' /\ Announced(u, q)'
<1>1. \A s \in Threads : /\ Sending(s, "post", u, q)' <=> Sending(s, "post", u, q)
                         /\ Sending(s, "exchange", u, q)' <=> Sending(s, "exchange", u, q)
  BY SendingKept
<1>2. OneMessage(u, q) /\ Announced(u, q)
  BY DEF NoteInv
<1>3. CASE u # t
  <2>1. SameLocals(u)
    BY <1>3, OnlyActor
  <2> QED
    BY <1>1, <1>2, <2>1, NoteFrame DEF SameLocals, Opened, Received
<1>4. CASE u = t /\ cur[t] = None
  <2>1. ~Opened(u, q) /\ ~Opened(u, q)' /\ ~Received(u, q) /\ ~Received(u, q)'
    BY <1>4, NoneIsNothing DEF Opened, Received
  <2> QED
    BY <1>1, <1>2, <2>1, NoteFrame
<1>5. CASE u = t /\ cur[t] # None
  <2>1. (Opened(u, q)' <=> Opened(u, q)) /\ (Received(u, q)' <=> Received(u, q))
    BY <1>5 DEF Opened, Received
  <2>2. Received(u, q) /\ pc'[u] = "cas" => pc[u] = "cas"
    BY <1>5
  <2> QED
    BY <1>1, <1>2, <2>1, <2>2, NoteFrame
<1> QED
  BY <1>3, <1>4, <1>5

(* The thread t turns to the message at the head of its mailbox. *)
LEMMA NoteOpen ==
    ASSUME TypeOK, Shape, NoteInv, NEW t \in Threads, Acts(t), ~SendStep(t),
           UNCHANGED <<note, tasks>>, mailbox[t] # <<>>,
           mailbox' = [mailbox EXCEPT ![t] = Tail(@)],
           cur[t] = None, cur'[t] = Head(mailbox[t]), fromMail[t] # TRUE, fromMail'[t] # TRUE,
           pc'[t] \in {"receive", "cancelTasks"},
           NEW u \in Threads, NEW q \in Queues
    PROVE  OneMessage(u, q)' /\ Announced(u, q)'
<1>1. \A s \in Threads : /\ Sending(s, "post", u, q)' <=> Sending(s, "post", u, q)
                         /\ Sending(s, "exchange", u, q)' <=> Sending(s, "exchange", u, q)
  BY SendingKept
<1>2. OneMessage(u, q) /\ Announced(u, q) /\ Distinct(u, q)
  BY DEF NoteInv, OneMessage
<1>t. mailbox \in [Threads -> Seq(Queues)]
  BY DEF TypeOK
<1>3. CASE u # t
  <2>1. SameLocals(u) /\ mailbox'[u] = mailbox[u]
    BY <1>3, <1>t, OnlyActor
  <2> QED
    BY <1>1, <1>2, <2>1, NoteFrame DEF SameLocals, Opened, Received
<1>4. CASE u = t
  <2>1. mailbox'[t] = Tail(mailbox[t])
    BY <1>t
  <2>2. /\ Distinct(t, q)'
        /\ InMail(t, q)' <=> (InMail(t, q) /\ q # Head(mailbox[t]))
        /\ Head(mailbox[t]) \in Queues
        /\ InMail(t, Head(mailbox[t]))
    BY <1>2, <1>4, <2>1, MailTail
  <2>3. /\ ~Opened(t, q) /\ ~Received(t, q) /\ ~Received(t, q)'
        /\ Opened(t, q)' <=> q = Head(mailbox[t])
    BY NoneIsNothing DEF Opened, Received
  <2>4. OneMessage(t, q)'
    <3>1. q = Head(mailbox[t]) => InMail(t, q)
      BY <2>2
    <3> QED
      BY <1>1, <1>2, <1>4, <2>2, <2>3, <3>1 DEF OneMessage
  <2>5. Announced(t, q)'
    BY <1>1, <1>2, <1>4, <2>2, <2>3 DEF Announced
  <2> QED
    BY <1>4, <2>4, <2>5
<1> QED
  BY <1>3, <1>4

LEMMA NoteReceive ==
    ASSUME TypeOK, Shape, NoteInv, NEW t \in Threads, Acts(t), ~SendStep(t),
           NEW u \in Threads, NEW q \in Queues
    PROVE  OneMessage(u, q)' /\ Announced(u, q)'
<1>t. /\ mailbox \in [Threads -> Seq(Queues)] /\ note \in [Threads -> [Queues -> Notification]]
      /\ tasks \in [Threads -> [Queues -> Seq(Tasks)]] /\ pc \in [Threads -> PCs]
      /\ cur \in [Threads -> Queues \cup {None}] /\ fromMail \in [Threads -> BOOLEAN]
  BY DEF TypeOK
<1>s. Control(t)
  BY DEF Shape
<1>n. None \notin Queues
  BY NoneIsNothing
<1>v. OneMessage(u, q) /\ Announced(u, q)
  BY DEF NoteInv
<1>w. \A s \in Threads : /\ Sending(s, "post", u, q)' <=> Sending(s, "post", u, q)
                         /\ Sending(s, "exchange", u, q)' <=> Sending(s, "exchange", u, q)
  BY SendingKept
<1>o. u # t => (Opened(u, q)' <=> Opened(u, q)) /\ (Received(u, q)' <=> Received(u, q))
                 /\ pc'[u] = pc[u]
  BY OnlyActor DEF SameLocals, Opened, Received
<1>1. CASE \E s \in Servers, k \in Queues, kind \in Kinds, c \in Calls :
              t \in Clients /\ (Issue(t, s, k, kind, c) \/ IssueFails(t, s, k, kind, c))
  <2>1. UNCHANGED <<mailbox, note, tasks, cur, fromMail, pc>>
    BY <1>1 DEF Issue, IssueFails
  <2> QED
    BY <2>1, NoteIdle
<1>2. CASE Start(t) \/ CheckMailbox(t) \/ LateWake(t) \/ MailReceived(t) \/ MailDone(t) \/ Exit(t)
           \/ CloseMailbox(t) \/ MailboxClosed(t) \/ (\E same \in BOOLEAN : Reuse(t, same))
           \/ SyncReturns(t) \/ (\E c \in Calls : FinishLater(t, c)) \/ CancelActive(t)
  <2>1. /\ UNCHANGED <<mailbox, note, tasks, cur, fromMail>>
        /\ pc[t] \in {"starting", "loop", "dead", "check", "mailCas", "exit", "closing", "waiting", "dtors"}
    BY <1>2 DEF Start, CheckMailbox, LateWake, MailReceived, MailDone, Exit, CloseMailbox, MailboxClosed,
       Reuse, SyncReturns, FinishLater, FinishContext, CancelActive
  <2>2. cur[t] = None
    BY <2>1, <1>s DEF Control, Busy
  <2> QED
    BY <2>1, <2>2, NoteIdle
<1>3. CASE FinishInTask(t) \/ RunAnswer(t)
  <2>1. /\ UNCHANGED <<mailbox, note, tasks, cur, fromMail>>
        /\ pc[t] \in {"run", "finish"} /\ pc'[t] = "drain"
    BY <1>3, <1>t DEF FinishInTask, FinishContext, RunAnswer
  <2> QED
    BY <2>1, NoteIdle
<1>4. CASE NextMail(t) \/ CancelMail(t)
  <2>1. UNCHANGED <<note, tasks, fromMail>> /\ pc[t] \in {"mail", "cancelMail"}
    BY <1>4 DEF NextMail, CancelMail
  <2>2. cur[t] = None /\ fromMail[t] # TRUE
    BY <2>1, <1>s DEF Control, Busy
  <2>3. CASE mailbox[t] = <<>>
    <3>1. UNCHANGED <<mailbox, cur>>
      BY <1>4, <2>3 DEF NextMail, CancelMail
    <3> QED
      BY <2>1, <2>2, <3>1, NoteIdle
  <2>4. CASE mailbox[t] # <<>>
    <3>1. /\ cur'[t] = Head(mailbox[t]) /\ mailbox' = [mailbox EXCEPT ![t] = Tail(@)]
          /\ pc'[t] \in {"receive", "cancelTasks"}
      BY <1>4, <1>t, <2>4 DEF NextMail, CancelMail
    <3> QED
      BY <2>1, <2>2, <2>4, <3>1, NoteOpen
  <2> QED
    BY <2>3, <2>4
<1>5. CASE ReceiveNotification(t)
  <2>0. cur[t] \in Queues
    BY <1>5, <1>s, <1>t DEF ReceiveNotification, Control, Busy
  <2>1. /\ UNCHANGED <<mailbox, tasks, cur>> /\ pc[t] = "receive" /\ pc'[t] = "drain"
        /\ fromMail'[t] = TRUE
        /\ note'[t][cur[t]] = "received"
        /\ u # t \/ q # cur[t] => note'[u][q] = note[u][q]
    BY <1>5, <1>t, <2>0 DEF ReceiveNotification
  <2>2. CASE u = t /\ q = cur[t]
    <3>1. Opened(u, q) /\ ~Opened(u, q)' /\ Received(u, q)'
      BY <2>1, <2>2 DEF Opened, Received
    <3>2. ~InMail(u, q) /\ \A s \in Threads : ~Sending(s, "post", u, q)
      BY <1>v, <3>1 DEF OneMessage
    <3>3. OneMessage(u, q)'
      BY <1>v, <1>w, <2>1, <2>2, <3>1, <3>2 DEF OneMessage, InMail, Distinct
    <3>4. Announced(u, q)'
      BY <2>1, <2>2, <3>1 DEF Announced
    <3> QED
      BY <3>3, <3>4
  <2>3. CASE u # t \/ q # cur[t]
    <3>1. /\ Opened(u, q)' <=> Opened(u, q)
          /\ Received(u, q)' <=> Received(u, q)
          /\ Received(u, q) /\ pc'[u] = "cas" => pc[u] = "cas"
      BY <1>o, <2>1, <2>3 DEF Opened, Received
    <3> QED
      BY <1>v, <1>w, <2>1, <2>3, <3>1, NoteFrame
  <2> QED
    BY <2>2, <2>3
<1>6. CASE \E k \in Queues : ExecuteQueue(t, k)
  <2>1. /\ UNCHANGED <<mailbox, note, tasks>> /\ pc[t] = "loop" /\ pc'[t] = "drain"
        /\ fromMail'[t] = FALSE
    BY <1>6, <1>t DEF ExecuteQueue
  <2>2. cur[t] = None
    BY <2>1, <1>s DEF Control, Busy
  <2>3. /\ Opened(u, q)' <=> Opened(u, q)
        /\ Received(u, q)' <=> Received(u, q)
        /\ Received(u, q) /\ pc'[u] = "cas" => pc[u] = "cas"
    BY <1>n, <1>o, <2>1, <2>2 DEF Opened, Received
  <2> QED
    BY <1>v, <1>w, <2>1, <2>3, NoteFrame
<1>7. CASE NextTask(t)
  <2>0. cur[t] \in Queues
    BY <1>7, <1>s, <1>t DEF NextTask, Control, Busy
  <2>1. UNCHANGED <<mailbox, note, fromMail>> /\ pc[t] = "drain"
    BY <1>7 DEF NextTask
  <2>2. CASE tasks[t][cur[t]] # <<>>
    <3>1. /\ cur' = cur /\ pc'[t] = "run"
          /\ u # t \/ q # cur[t] => tasks'[u][q] = tasks[u][q]
      BY <1>7, <1>t, <2>0, <2>2 DEF NextTask
    <3>2. /\ tasks'[u][q] = tasks[u][q] \/ tasks'[u][q] = <<>>
               \/ (tasks[u][q] # <<>> /\ tasks'[u][q] # <<>>)
      BY <2>2, <3>1
    <3>3. /\ Opened(u, q)' <=> Opened(u, q)
          /\ Received(u, q)' <=> Received(u, q)
          /\ Received(u, q) /\ pc'[u] = "cas" => pc[u] = "cas"
      BY <1>o, <2>1, <3>1 DEF Opened, Received
    <3> QED
      BY <1>v, <1>w, <2>1, <3>2, <3>3, NoteFrame
  <2>3. CASE tasks[t][cur[t]] = <<>> /\ fromMail[t] = TRUE
    <3>1. tasks' = tasks /\ cur' = cur /\ pc'[t] = "cas"
      BY <1>7, <1>t, <2>0, <2>3 DEF NextTask
    <3>2. /\ Opened(u, q)' <=> Opened(u, q)
          /\ Received(u, q)' <=> Received(u, q)
      BY <1>o, <2>1, <3>1 DEF Opened, Received
    <3>3. OneMessage(u, q)'
      BY <1>v, <1>w, <2>1, <3>2 DEF OneMessage, InMail, Distinct
    <3>4. Announced(u, q)'
      <4>1. CASE u = t /\ q = cur[t]
        BY <1>v, <1>w, <2>1, <2>3, <3>1, <3>2, <4>1 DEF Announced, InMail
      <4>2. CASE u # t \/ q # cur[t]
        <5>1. Received(u, q) /\ pc'[u] = "cas" => pc[u] = "cas"
          BY <1>o, <4>2 DEF Received
        <5> QED
          BY <1>v, <1>w, <2>1, <3>1, <3>2, <5>1, NoteFrame
      <4> QED
        BY <4>1, <4>2
    <3> QED
      BY <3>3, <3>4
  <2>4. CASE tasks[t][cur[t]] = <<>> /\ fromMail[t] = FALSE
    <3>1. tasks' = tasks /\ cur'[t] = None /\ pc'[t] = "loop"
      BY <1>7, <1>t, <2>0, <2>4 DEF NextTask
    <3>2. /\ Opened(u, q)' <=> Opened(u, q)
          /\ Received(u, q)' <=> Received(u, q)
          /\ Received(u, q) /\ pc'[u] = "cas" => pc[u] = "cas"
      BY <1>o, <1>n, <2>1, <2>4, <3>1 DEF Opened, Received
    <3> QED
      BY <1>v, <1>w, <2>1, <3>1, <3>2, NoteFrame
  <2> QED
    BY <1>t, <2>2, <2>3, <2>4
<1>8. CASE \E next \in {"drain", "finish", "exit"} : RunFunction(t, next)
  <2>1. CASE \E next \in {"drain", "finish"} : RunFunction(t, next)
    <3>1. /\ UNCHANGED <<mailbox, note, tasks, cur, fromMail>> /\ pc[t] = "run"
          /\ pc'[t] \in {"drain", "finish"}
      BY <2>1, <1>t DEF RunFunction
    <3> QED
      BY <3>1, NoteIdle
  <2>2. CASE RunFunction(t, "exit")
    <3>1. /\ UNCHANGED <<mailbox, note, tasks>> /\ pc[t] = "run" /\ pc'[t] = "exit" /\ cur'[t] = None
          /\ fromMail'[t] = FALSE /\ MayExitInTask = TRUE
      BY <2>2, <1>t, ProxyingAssumption DEF RunFunction
    <3>2. CASE u = t /\ Received(u, q)
      <4>1. ~Opened(u, q) /\ ~Opened(u, q)' /\ ~Received(u, q)'
        BY <1>n, <3>1, <3>2 DEF Opened, Received
      <4>2. note[u][q] \in {"received", "pending"}
        BY <1>v, <1>t, <3>2 DEF OneMessage, Notification
      <4>3. OneMessage(u, q)'
        BY <1>v, <1>w, <3>1, <4>1 DEF OneMessage, InMail, Distinct
      <4>4. Announced(u, q)'
        BY <1>v, <1>w, <3>1, <4>1, <4>2 DEF Announced, InMail
      <4> QED
        BY <4>3, <4>4
    <3>3. CASE ~(u = t /\ Received(u, q))
      <4>1. /\ Opened(u, q)' <=> Opened(u, q)
            /\ Received(u, q)' <=> Received(u, q)
            /\ Received(u, q) /\ pc'[u] = "cas" => pc[u] = "cas"
        BY <1>n, <1>o, <3>1, <3>3 DEF Opened, Received
      <4> QED
        BY <1>v, <1>w, <3>1, <4>1, NoteFrame
    <3> QED
      BY <3>2, <3>3
  <2> QED
    BY <1>8, <2>1, <2>2
<1>9. CASE QueueDone(t)
  <2>0. cur[t] \in Queues /\ fromMail[t] = TRUE
    BY <1>9, <1>s, <1>t DEF QueueDone, Control, Busy
  <2>1. /\ UNCHANGED <<mailbox, tasks>> /\ pc[t] = "cas" /\ pc'[t] = "mail" /\ cur'[t] = None
        /\ fromMail'[t] = FALSE
        /\ note'[t][cur[t]] = Cleared(note[t][cur[t]])
        /\ u # t \/ q # cur[t] => note'[u][q] = note[u][q]
    BY <1>9, <1>t, <2>0 DEF QueueDone
  <2>2. CASE u = t /\ q = cur[t]
    <3>1. ~Opened(u, q) /\ ~Opened(u, q)' /\ Received(u, q) /\ ~Received(u, q)'
      BY <1>n, <2>0, <2>1, <2>2 DEF Opened, Received
    <3>2. note'[u][q] = "pending" <=> note[u][q] = "pending"
      BY <2>1, <2>2 DEF Cleared
    <3>3. OneMessage(u, q)'
      BY <1>v, <1>w, <2>1, <3>1, <3>2 DEF OneMessage, InMail, Distinct
    <3>4. Announced(u, q)'
      BY <1>v, <1>w, <2>1, <2>2, <3>1, <3>2 DEF Announced, InMail
    <3> QED
      BY <3>3, <3>4
  <2>3. CASE u # t \/ q # cur[t]
    <3>1. /\ Opened(u, q)' <=> Opened(u, q)
          /\ Received(u, q)' <=> Received(u, q)
          /\ Received(u, q) /\ pc'[u] = "cas" => pc[u] = "cas"
      BY <1>n, <1>o, <2>1, <2>3 DEF Opened, Received
    <3> QED
      BY <1>v, <1>w, <2>1, <2>3, <3>1, NoteFrame
  <2> QED
    BY <2>2, <2>3
<1>10. CASE CancelTasks(t)
  <2>0. cur[t] \in Queues /\ fromMail[t] # TRUE /\ pc[t] = "cancelTasks"
    BY <1>10, <1>s, <1>t DEF CancelTasks, Control, Busy
  <2>1. UNCHANGED <<mailbox, fromMail>>
    BY <1>10 DEF CancelTasks
  <2>2. CASE tasks[t][cur[t]] # <<>>
    <3>1. /\ UNCHANGED <<note, cur, pc>>
          /\ u # t \/ q # cur[t] => tasks'[u][q] = tasks[u][q]
      BY <1>10, <1>t, <2>0, <2>2 DEF CancelTasks
    <3>2. /\ tasks'[u][q] = tasks[u][q] \/ tasks'[u][q] = <<>>
               \/ (tasks[u][q] # <<>> /\ tasks'[u][q] # <<>>)
      BY <2>2, <3>1
    <3>3. /\ Opened(u, q)' <=> Opened(u, q)
          /\ Received(u, q)' <=> Received(u, q)
          /\ Received(u, q) /\ pc'[u] = "cas" => pc[u] = "cas"
      BY <2>1, <3>1 DEF Opened, Received
    <3> QED
      BY <1>v, <1>w, <2>1, <3>1, <3>2, <3>3, NoteFrame
  <2>3. CASE tasks[t][cur[t]] = <<>>
    <3>1. /\ tasks' = tasks /\ cur'[t] = None /\ pc'[t] = "cancelMail"
          /\ note'[t][cur[t]] = "none"
          /\ u # t \/ q # cur[t] => note'[u][q] = note[u][q]
      BY <1>10, <1>t, <2>0, <2>3 DEF CancelTasks
    <3>2. CASE u = t /\ q = cur[t]
      <4>1. Opened(u, q) /\ ~Opened(u, q)' /\ ~Received(u, q)'
        BY <1>n, <2>0, <2>1, <3>1, <3>2 DEF Opened, Received
      <4>2. ~InMail(u, q) /\ \A s \in Threads : ~Sending(s, "post", u, q)
        BY <1>v, <4>1 DEF OneMessage
      <4>3. OneMessage(u, q)'
        BY <1>v, <1>w, <2>1, <4>1, <4>2 DEF OneMessage, InMail, Distinct
      <4>4. Announced(u, q)'
        BY <2>3, <3>1, <3>2 DEF Announced
      <4> QED
        BY <4>3, <4>4
    <3>3. CASE u # t \/ q # cur[t]
      <4>1. /\ Opened(u, q)' <=> Opened(u, q)
            /\ Received(u, q)' <=> Received(u, q)
            /\ Received(u, q) /\ pc'[u] = "cas" => pc[u] = "cas"
        BY <1>n, <1>o, <2>0, <2>1, <3>1, <3>3 DEF Opened, Received
      <4> QED
        BY <1>v, <1>w, <2>1, <3>1, <3>3, <4>1, NoteFrame
    <3> QED
      BY <3>2, <3>3
  <2> QED
    BY <2>2, <2>3
<1> QED
  BY <1>1, <1>2, <1>3, <1>4, <1>5, <1>6, <1>7, <1>8, <1>9, <1>10
     DEF Acts, ThreadStep, ExitStep, ReceiveStep, ExitInTask

LEMMA NoteStep == TypeOK /\ Shape /\ NoteInv /\ [Next]_vars => NoteInv'
<1> SUFFICES ASSUME TypeOK, Shape, NoteInv, [Next]_vars PROVE NoteInv'
  OBVIOUS
<1>1. CASE UNCHANGED vars
  BY <1>1 DEF NoteInv, OneMessage, Announced, Distinct, InMail, Opened, Sending, AtSend, Received, vars
<1>2. ASSUME NEW q \in Queues, DestroyQueue(q)
      PROVE  NoteInv'
  BY <1>2 DEF NoteInv, OneMessage, Announced, Distinct, InMail, Opened, Sending, AtSend, Received,
     DestroyQueue
<1>3. ASSUME NEW t \in Threads, Acts(t)
      PROVE  NoteInv'
  BY <1>3, NoteSend, NoteReceive DEF NoteInv
<1> QED
  BY <1>1, <1>2, <1>3, NextIs

(***************************************************************************)
(* Notifications: the mailbox and the event loop.                          *)
(***************************************************************************)

LEMMA MailInit == Init => MailInv
  BY DEF Init, MailInv, MailAnnounced

Reading(u) ==
    \/ pc[u] \in {"check", "mail", "receive", "cas", "exit", "closing", "cancelMail", "cancelTasks"}
    \/ fromMail[u] = TRUE

Woken(u) == pc[u] \in {"check", "exit", "closing", "cancelMail", "cancelTasks"}

Promising(s, step, u) == AtSend(s, step) /\ send[s].to = u

LEMMA MailFrame ==
    ASSUME NEW u \in Threads, MailAnnounced(u),
           mailbox'[u] = mailbox[u], mailboxNote'[u] = mailboxNote[u], wakes'[u] = wakes[u],
           waits'[u] = waits[u], waitingAsync'[u] = waitingAsync[u],
           mailbox[u] # <<>> /\ Reading(u) => Reading(u)',
           Woken(u) => Woken(u)',
           pc[u] = "dead" => pc'[u] = "dead",
           pc'[u] \in {"dtors", "dead"} => pc[u] \in {"dtors", "dead"},
           \A s \in Threads : /\ Promising(s, "exchangeMailbox", u) => Promising(s, "exchangeMailbox", u)'
                              /\ Promising(s, "notify", u) => Promising(s, "notify", u)'
    PROVE  MailAnnounced(u)'
  BY DEF MailAnnounced, Reading, Woken, Promising

LEMMA PromisingKept ==
    ASSUME TypeOK, Shape, NEW t \in Threads, Acts(t), NEW s \in Threads, s # t \/ ~SendStep(t), NEW u
    PROVE  /\ Promising(s, "exchangeMailbox", u)' <=> Promising(s, "exchangeMailbox", u)
           /\ Promising(s, "notify", u)' <=> Promising(s, "notify", u)
  BY SendingKept DEF Promising

(* The steps of a send up to its message, and its end. *)
LEMMA MailSend ==
    ASSUME TypeOK, Shape, RefInv, MailInv, NEW t \in Threads, SendStep(t), NEW u \in Threads
    PROVE  MailAnnounced(u)'
<1>0. send[t] # None
  BY DEF SendStep, Lookup, LookupFails, Ref, RefRefused, Enqueue, EnqueueFails, Exchange, Post,
         ExchangeMailbox, Notify, Unref, AtSend
<1>1. Acts(t)
  BY DEF Acts, ThreadStep
<1>t. /\ mailbox \in [Threads -> Seq(Queues)] /\ mailboxNote \in [Threads -> Notification]
      /\ wakes \in [Threads -> Nat] /\ waits \in [Threads -> Nat]
      /\ waitingAsync \in [Threads -> BOOLEAN] /\ send \in [Threads -> Sends \cup {None}]
  BY DEF TypeOK
<1>i. send[t].to \in Threads /\ send[t].queue \in Queues
  BY <1>0, SendIs
<1>v. MailAnnounced(u)
  BY DEF MailInv
<1>o. \A s \in Threads : s # t =>
         /\ Promising(s, "exchangeMailbox", u)' <=> Promising(s, "exchangeMailbox", u)
         /\ Promising(s, "notify", u)' <=> Promising(s, "notify", u)
  BY <1>1, PromisingKept
<1>2. CASE ~Post(t) /\ ~ExchangeMailbox(t) /\ ~Notify(t)
  <2>1. UNCHANGED <<mailbox, mailboxNote, wakes, waits, waitingAsync, fromMail>>
    BY <1>2 DEF SendStep, Lookup, LookupFails, Ref, RefRefused, Enqueue, EnqueueFails, Exchange, Unref
  <2>2. ~Promising(t, "exchangeMailbox", u) /\ ~Promising(t, "notify", u)
    BY <1>2 DEF SendStep, Lookup, LookupFails, Ref, RefRefused, Enqueue, EnqueueFails, Exchange, Unref,
       AtSend, Promising
  <2>3. pc'[u] = pc[u] \/ (pc[u] = "loop" /\ pc'[u] = "waiting")
    <3>1. CASE Unref(t)
      <4>1. send[t].task.fn = "func" => pc[t] = "loop"
        BY <1>0 DEF Shape, Control
      <4> QED
        BY <3>1, <4>1 DEF Unref, SendFails, SendSucceeds, TypeOK
    <3>2. CASE ~Unref(t)
      BY <1>2, <3>2 DEF SendStep, Lookup, LookupFails, Ref, RefRefused, Enqueue, EnqueueFails, Exchange,
         SendFails
    <3> QED
      BY <3>1, <3>2
  <2>4. (Reading(u)' <=> Reading(u)) /\ (Woken(u)' <=> Woken(u))
    BY <2>1, <2>3 DEF Reading, Woken
  <2> QED
    BY <1>o, <1>v, <2>1, <2>2, <2>3, <2>4, MailFrame
<1>3. ASSUME UNCHANGED <<pc, fromMail>>
      PROVE  (Reading(u)' <=> Reading(u)) /\ (Woken(u)' <=> Woken(u))
  BY <1>3 DEF Reading, Woken
<1>4. ASSUME send[t].to = u, send[t].at \notin {"lookup", "ref"}
      PROVE  pc[u] \notin {"dtors", "dead"}
  <2>1. refcount[u] > 0
    BY <1>0, <1>4, HeldIsCounted DEF HoldsMail
  <2> QED
    BY <2>1 DEF RefInv, References, Shut
<1>5. CASE Post(t)
  <2>1. /\ UNCHANGED <<mailboxNote, wakes, waits, waitingAsync, pc, fromMail>> /\ AtSend(t, "post")
        /\ GoSend(t, "exchangeMailbox") /\ "exchangeMailbox" \in SendSteps
        /\ send[t].to # u => mailbox'[u] = mailbox[u]
    BY <1>5, <1>t, <1>i DEF Post, SendSteps
  <2>2. send'[t] # None /\ send'[t].at = "exchangeMailbox" /\ send'[t].to = send[t].to
    BY <1>0, <2>1, GoSendIs
  <2>3. ~Promising(t, "exchangeMailbox", u) /\ ~Promising(t, "notify", u)
    BY <2>1 DEF Promising, AtSend
  <2>4. CASE send[t].to = u
    <3>1. Promising(t, "exchangeMailbox", u)' /\ pc[u] \notin {"dtors", "dead"}
      BY <1>4, <2>1, <2>2, <2>4 DEF Promising, AtSend
    <3> QED
      BY <1>o, <1>v, <2>1, <2>3, <3>1 DEF MailAnnounced, Promising
  <2>5. CASE send[t].to # u
    BY <1>3, <1>o, <1>v, <2>1, <2>3, <2>5, MailFrame
  <2> QED
    BY <2>4, <2>5
<1>6. CASE ExchangeMailbox(t)
  <2>1. /\ UNCHANGED <<mailbox, wakes, waits, waitingAsync, pc, fromMail>>
        /\ AtSend(t, "exchangeMailbox")
        /\ \E step \in {"unref", "notify"} :
              /\ GoSend(t, step) /\ step \in SendSteps
              /\ step = "unref" <=> mailboxNote[send[t].to] = "pending"
        /\ mailboxNote'[send[t].to] = "pending"
        /\ send[t].to # u => mailboxNote'[u] = mailboxNote[u]
    BY <1>6, <1>t, <1>i DEF ExchangeMailbox, SendSteps
  <2>2. /\ send'[t] # None /\ send'[t].at \in {"unref", "notify"} /\ send'[t].to = send[t].to
        /\ send'[t].at = "unref" <=> mailboxNote[send[t].to] = "pending"
    BY <1>0, <2>1, GoSendIs
  <2>3. ~Promising(t, "notify", u)
    BY <2>1 DEF Promising, AtSend
  <2>4. CASE send[t].to = u
    <3>1. pc[u] \notin {"dtors", "dead"}
      BY <1>4, <2>1, <2>4 DEF AtSend
    <3>2. mailboxNote[u] = "pending" \/ Promising(t, "notify", u)'
      BY <2>2, <2>4 DEF Promising, AtSend
    <3> QED
      BY <1>o, <1>v, <2>1, <2>3, <2>4, <3>1, <3>2 DEF MailAnnounced, Promising
  <2>5. CASE send[t].to # u
    <3>1. ~Promising(t, "exchangeMailbox", u)
      BY <2>5 DEF Promising
    <3> QED
      BY <1>3, <1>o, <1>v, <2>1, <2>3, <2>5, <3>1, MailFrame
  <2> QED
    BY <2>4, <2>5
<1>7. CASE Notify(t)
  <2>1. /\ UNCHANGED <<mailbox, mailboxNote, waitingAsync, pc, fromMail>>
        /\ AtSend(t, "notify")
        /\ send[t].to # u => wakes'[u] = wakes[u] /\ waits'[u] = waits[u]
        /\ waitingAsync[send[t].to] = TRUE
              => wakes'[send[t].to] = wakes[send[t].to] + waits[send[t].to]
        /\ waitingAsync[send[t].to] = FALSE => wakes'[send[t].to] = wakes[send[t].to] + 1
    BY <1>7, <1>t, <1>i DEF Notify
  <2>2. ~Promising(t, "exchangeMailbox", u)
    BY <2>1 DEF Promising, AtSend
  <2>3. CASE send[t].to = u
    <3>1. pc[u] \notin {"dtors", "dead"}
      BY <1>4, <2>1, <2>3 DEF AtSend
    <3>2. wakes'[u] > 0
      <4>1. wakes[u] \in Nat /\ waits[u] \in Nat /\ waitingAsync[u] \in BOOLEAN
        BY <1>t
      <4>2. waitingAsync[u] = TRUE => waits[u] > 0 \/ wakes[u] > 0
        BY <1>v, <3>1 DEF MailAnnounced
      <4> QED
        BY <2>1, <2>3, <4>1, <4>2
    <3> QED
      BY <1>o, <1>v, <2>1, <2>2, <3>1, <3>2 DEF MailAnnounced, Promising
  <2>4. CASE send[t].to # u
    <3>1. ~Promising(t, "notify", u)
      BY <2>4 DEF Promising
    <3> QED
      BY <1>3, <1>o, <1>v, <2>1, <2>2, <2>4, <3>1, MailFrame
  <2> QED
    BY <2>3, <2>4
<1> QED
  BY <1>2, <1>5, <1>6, <1>7

LEMMA MailReceive ==
    ASSUME TypeOK, Shape, MailInv, NEW t \in Threads, Acts(t), ~SendStep(t), NEW u \in Threads
    PROVE  MailAnnounced(u)'
<1>t. /\ mailbox \in [Threads -> Seq(Queues)] /\ mailboxNote \in [Threads -> Notification]
      /\ wakes \in [Threads -> Nat] /\ waits \in [Threads -> Nat]
      /\ waitingAsync \in [Threads -> BOOLEAN] /\ pc \in [Threads -> PCs]
      /\ fromMail \in [Threads -> BOOLEAN]
  BY DEF TypeOK
<1>s. Control(t)
  BY DEF Shape
<1>v. MailAnnounced(u)
  BY DEF MailInv
<1>w. \A s \in Threads : /\ Promising(s, "exchangeMailbox", u)' <=> Promising(s, "exchangeMailbox", u)
                         /\ Promising(s, "notify", u)' <=> Promising(s, "notify", u)
  BY PromisingKept
<1>a. HasWaitAsync \in BOOLEAN
  BY ProxyingAssumption
<1>1. CASE u # t
  <2>1. pc'[u] = pc[u] /\ fromMail'[u] = fromMail[u]
    BY <1>1, OnlyActor DEF SameLocals
  <2>2. /\ mailbox'[u] = mailbox[u] /\ mailboxNote'[u] = mailboxNote[u] /\ wakes'[u] = wakes[u]
        /\ waits'[u] = waits[u] /\ waitingAsync'[u] = waitingAsync[u]
    <3>1. CASE ReceiveStep(t) \/ ExitInTask(t)
      <4>1. CASE Start(t) \/ CheckMailbox(t) \/ LateWake(t) \/ MailReceived(t) \/ NextMail(t) \/ MailDone(t)
        BY <1>1, <1>t, <4>1 DEF Start, CheckMailbox, Await, LateWake, MailReceived, NextMail, MailDone
      <4>2. CASE ReceiveNotification(t) \/ NextTask(t) \/ FinishInTask(t) \/ RunAnswer(t) \/ QueueDone(t)
                 \/ (\E next \in {"drain", "finish", "exit"} : RunFunction(t, next))
        BY <4>2 DEF ReceiveNotification, NextTask, FinishInTask, FinishContext, RunAnswer, QueueDone,
           RunFunction
      <4> QED
        BY <3>1, <4>1, <4>2 DEF ReceiveStep, ExitInTask
    <3>2. CASE ExitStep(t) \/ Exit(t) \/ (\E same \in BOOLEAN : Reuse(t, same))
      BY <1>1, <1>t, <3>2 DEF ExitStep, CloseMailbox, MailboxClosed, CancelMail, CancelTasks, CancelActive,
         Exit, Reuse
    <3>3. CASE SyncReturns(t) \/ (\E q \in Queues : ExecuteQueue(t, q)) \/ (\E c \in Calls : FinishLater(t, c))
      BY <3>3 DEF SyncReturns, ExecuteQueue, FinishLater, FinishContext
    <3>4. CASE \E s \in Servers, q \in Queues, k \in Kinds, c \in Calls :
                  t \in Clients /\ (Issue(t, s, q, k, c) \/ IssueFails(t, s, q, k, c))
      BY <3>4 DEF Issue, IssueFails
    <3> QED
      BY <3>1, <3>2, <3>3, <3>4 DEF Acts, ThreadStep
  <2> QED
    BY <1>v, <1>w, <2>1, <2>2, MailFrame DEF Reading, Woken
<1>f. ASSUME UNCHANGED <<mailbox, mailboxNote, wakes, waits, waitingAsync>>, u = t,
             mailbox[t] # <<>> /\ Reading(t) => Reading(t)',
             Woken(t) => Woken(t)',
             pc[t] = "dead" => pc'[t] = "dead",
             pc'[t] \in {"dtors", "dead"} => pc[t] \in {"dtors", "dead"}
      PROVE  MailAnnounced(u)'
  BY <1>f, <1>v, <1>w, MailFrame
<1>2. CASE u = t /\ \E s \in Servers, q \in Queues, k \in Kinds, c \in Calls :
                       t \in Clients /\ (Issue(t, s, q, k, c) \/ IssueFails(t, s, q, k, c))
  <2>1. UNCHANGED <<mailbox, mailboxNote, wakes, waits, waitingAsync, pc, fromMail>>
    BY <1>2 DEF Issue, IssueFails
  <2> QED
    BY <1>2, <1>f, <2>1 DEF Reading, Woken
<1>3. CASE u = t /\ (Start(t) \/ CheckMailbox(t))
  <2>1. /\ UNCHANGED <<mailbox, mailboxNote, fromMail>> /\ pc[t] \in {"starting", "loop"}
        /\ waitingAsync'[t] = HasWaitAsync
        /\ waits'[t] = IF HasWaitAsync THEN waits[t] + 1 ELSE waits[t]
        /\ \/ pc'[t] = "loop" /\ wakes' = wakes
           \/ pc'[t] = "check"
    BY <1>3, <1>t DEF Start, CheckMailbox, Await
  <2>2. waitingAsync'[t] = TRUE => waits'[t] > 0
    BY <1>a, <1>t, <2>1
  <2>3. fromMail[t] # TRUE
    BY <1>s, <2>1 DEF Control
  <2> QED
    BY <1>3, <1>v, <1>w, <2>1, <2>2, <2>3 DEF MailAnnounced, Promising
<1>4. CASE u = t /\ LateWake(t)
  <2>1. UNCHANGED <<mailbox, mailboxNote, pc, fromMail, send>> /\ pc[t] = "dead"
    BY <1>4 DEF LateWake
  <2> QED
    BY <1>4, <1>v, <2>1 DEF MailAnnounced
<1>5. CASE u = t /\ MailReceived(t)
  <2>1. UNCHANGED <<mailbox, wakes, waits, waitingAsync>> /\ pc[t] = "check" /\ pc'[t] = "mail"
        /\ mailboxNote'[t] = "received"
    BY <1>5, <1>t DEF MailReceived
  <2> QED
    BY <1>5, <1>v, <2>1 DEF MailAnnounced
<1>6. CASE u = t /\ MailDone(t)
  <2>1. /\ UNCHANGED <<mailbox, wakes, waits, waitingAsync, fromMail>> /\ pc[t] = "mailCas"
        /\ pc'[t] = "loop" /\ mailboxNote'[t] = Cleared(mailboxNote[t])
    BY <1>6, <1>t DEF MailDone
  <2>2. mailboxNote'[t] = "pending" <=> mailboxNote[t] = "pending"
    BY <2>1 DEF Cleared
  <2>3. fromMail[t] # TRUE
    BY <1>s, <2>1 DEF Control
  <2> QED
    BY <1>6, <1>v, <1>w, <2>1, <2>2, <2>3 DEF MailAnnounced, Promising
<1>7. CASE u = t /\ NextMail(t)
  <2>1. UNCHANGED <<mailboxNote, wakes, waits, waitingAsync, fromMail>> /\ pc[t] = "mail"
    BY <1>7 DEF NextMail
  <2>2. CASE mailbox[t] = <<>>
    <3>1. mailbox' = mailbox /\ pc'[t] = "mailCas"
      BY <1>7, <1>t, <2>2 DEF NextMail
    <3> QED
      BY <1>7, <1>f, <2>1, <2>2, <3>1 DEF Woken
  <2>3. CASE mailbox[t] # <<>>
    <3>1. pc'[t] = "receive"
      BY <1>7, <1>t, <2>3 DEF NextMail
    <3> QED
      BY <1>7, <1>v, <1>w, <2>1, <3>1 DEF MailAnnounced, Promising
  <2> QED
    BY <2>2, <2>3
<1>8. CASE u = t /\ (ReceiveNotification(t) \/ QueueDone(t) \/ Exit(t) \/ CloseMailbox(t) \/ MailboxClosed(t)
                      \/ SyncReturns(t))
  <2>1. /\ UNCHANGED <<mailbox, mailboxNote, wakes, waits, waitingAsync>>
        /\ \/ pc[t] = "receive" /\ fromMail'[t] = TRUE /\ pc'[t] = "drain"
           \/ pc[t] = "cas" /\ pc'[t] = "mail"
           \/ pc[t] = "loop" /\ pc'[t] = "exit"
           \/ pc[t] = "exit" /\ pc'[t] = "closing"
           \/ pc[t] = "closing" /\ pc'[t] = "cancelMail"
           \/ pc[t] = "waiting" /\ pc'[t] = "loop"
    BY <1>8, <1>t DEF ReceiveNotification, QueueDone, Exit, CloseMailbox, MailboxClosed, SyncReturns
  <2>2. pc[t] = "waiting" => fromMail[t] # TRUE
    BY <1>s DEF Control
  <2> QED
    BY <1>8, <1>f, <2>1, <2>2 DEF Reading, Woken
<1>9. CASE u = t /\ (NextTask(t) \/ FinishInTask(t) \/ RunAnswer(t)
                      \/ (\E next \in {"drain", "finish", "exit"} : RunFunction(t, next)))
  <2>1. /\ UNCHANGED <<mailbox, mailboxNote, wakes, waits, waitingAsync>>
        /\ pc[t] \in {"drain", "run", "finish"}
        /\ \/ pc'[t] \in {"drain", "run", "finish"} /\ fromMail' = fromMail
           \/ pc'[t] = "cas"
           \/ pc'[t] = "loop" /\ fromMail[t] = FALSE /\ fromMail' = fromMail
           \/ pc'[t] = "exit"
    <3>1. CASE NextTask(t)
      BY <1>t, <3>1 DEF NextTask
    <3>2. CASE FinishInTask(t) \/ RunAnswer(t)
      BY <1>t, <3>2 DEF FinishInTask, FinishContext, RunAnswer
    <3>3. CASE \E next \in {"drain", "finish", "exit"} : RunFunction(t, next)
      BY <1>t, <3>3 DEF RunFunction
    <3> QED
      BY <1>9, <3>1, <3>2, <3>3
  <2> QED
    BY <1>9, <1>f, <2>1 DEF Reading, Woken
<1>10. CASE u = t /\ ((\E q \in Queues : ExecuteQueue(t, q)) \/ (\E c \in Calls : FinishLater(t, c)))
  <2>1. /\ UNCHANGED <<mailbox, mailboxNote, wakes, waits, waitingAsync>>
        /\ pc[t] = "loop" /\ pc'[t] \in {"loop", "drain"}
    BY <1>10, <1>t DEF ExecuteQueue, FinishLater, FinishContext
  <2>2. fromMail[t] # TRUE
    BY <1>s, <2>1 DEF Control
  <2> QED
    BY <1>10, <1>f, <2>1, <2>2 DEF Reading, Woken
<1>11. CASE u = t /\ CancelMail(t)
  <2>1. UNCHANGED <<wakes, waits, waitingAsync>> /\ pc[t] = "cancelMail"
    BY <1>11 DEF CancelMail
  <2>2. CASE mailbox[t] = <<>>
    <3>1. mailbox' = mailbox /\ pc'[t] = "dtors" /\ mailboxNote'[t] = "none"
      BY <1>11, <1>t, <2>2 DEF CancelMail
    <3> QED
      BY <1>11, <1>v, <2>1, <2>2, <3>1 DEF MailAnnounced
  <2>3. CASE mailbox[t] # <<>>
    <3>1. pc'[t] = "cancelTasks"
      BY <1>11, <1>t, <2>3 DEF CancelMail
    <3> QED
      BY <1>11, <1>v, <2>1, <3>1 DEF MailAnnounced
  <2> QED
    BY <2>2, <2>3
<1>12. CASE u = t /\ (CancelTasks(t) \/ CancelActive(t))
  <2>1. /\ UNCHANGED <<mailbox, mailboxNote, wakes, waits, waitingAsync, fromMail>>
        /\ \/ pc[t] = "cancelTasks" /\ pc'[t] \in {"cancelTasks", "cancelMail"}
           \/ pc[t] = "dtors" /\ pc'[t] \in {"dtors", "dead"}
    BY <1>12, <1>t DEF CancelTasks, CancelActive
  <2> QED
    BY <1>12, <1>f, <2>1 DEF Reading, Woken
<1>13. CASE u = t /\ \E same \in BOOLEAN : Reuse(t, same)
  <2>1. UNCHANGED <<mailbox, mailboxNote>> /\ pc[t] = "dead" /\ pc'[t] = "starting"
        /\ waitingAsync'[t] = FALSE
    BY <1>13, <1>t DEF Reuse
  <2> QED
    BY <1>13, <1>v, <2>1 DEF MailAnnounced
<1> QED
  BY <1>1, <1>2, <1>3, <1>4, <1>5, <1>6, <1>7, <1>8, <1>9, <1>10, <1>11, <1>12, <1>13
     DEF Acts, ThreadStep, ExitStep, ReceiveStep, ExitInTask

LEMMA MailStep == TypeOK /\ Shape /\ RefInv /\ MailInv /\ [Next]_vars => MailInv'
<1> SUFFICES ASSUME TypeOK, Shape, RefInv, MailInv, [Next]_vars PROVE MailInv'
  OBVIOUS
<1>1. CASE UNCHANGED vars
  BY <1>1 DEF MailInv, MailAnnounced, AtSend, vars
<1>2. ASSUME NEW q \in Queues, DestroyQueue(q)
      PROVE  MailInv'
  BY <1>2 DEF MailInv, MailAnnounced, AtSend, DestroyQueue
<1>3. ASSUME NEW t \in Threads, Acts(t)
      PROVE  MailInv'
  BY <1>3, MailSend, MailReceive DEF MailInv
<1> QED
  BY <1>1, <1>2, <1>3, NextIs

(***************************************************************************)
(* Theorems of the notifications.                                          *)
(***************************************************************************)

NoticeInv == CountInv /\ NoteInv /\ MailInv

LEMMA NoticeInvariant == Spec => []NoticeInv
<1>1. Init => NoticeInv
  BY TypeInit, ShapeInit, RefInit, NoteInit, MailInit DEF NoticeInv, CountInv
<1>2. NoticeInv /\ [Next]_vars => NoticeInv'
  BY TypeStep, ShapeStep, RefNext, NoteStep, MailStep DEF NoticeInv, CountInv
<1> QED
  BY <1>1, <1>2, PTL DEF Spec

(* If no proxied function exits its thread, no wake-up is lost: neither a *)
(* queue with work nor a mailbox with messages is left without its        *)
(* notification, whatever the two flags suppress.                         *)
THEOREM NoWakeUpLost ==
    ASSUME MayExitInTask = FALSE
    PROVE  Spec => []WorkIsAnnounced
<1>1. NoticeInv => WorkIsAnnounced
  <2> SUFFICES ASSUME NoticeInv, NEW t \in Threads
               PROVE  /\ \A q \in Queues :
                            /\ tasks[t][q] # <<>> =>
                                 \/ note[t][q] = "pending" \/ Executing(t, q)
                                 \/ cur[t] = q /\ pc[t] \in {"receive", "cancelTasks"}
                                 \/ \E s \in Threads : AtSend(s, "exchange") /\ send[s].to = t
                                                         /\ send[s].queue = q
                            /\ note[t][q] = "pending" =>
                                 \/ \E i \in 1 .. Len(mailbox[t]) : mailbox[t][i] = q
                                 \/ cur[t] = q /\ pc[t] \in {"receive", "cancelTasks"}
                                 \/ \E s \in Threads : AtSend(s, "post") /\ send[s].to = t
                                                         /\ send[s].queue = q
                      /\ mailbox[t] # <<>> =>
                           \/ mailboxNote[t] = "pending"
                           \/ pc[t] \in {"check", "mail", "receive", "drain", "run", "finish", "cas",
                                         "exit", "closing", "cancelMail", "cancelTasks"}
                           \/ \E s \in Threads : AtSend(s, "exchangeMailbox") /\ send[s].to = t
                      /\ mailboxNote[t] = "pending" =>
                           \/ wakes[t] > 0 \/ pc[t] = "check"
                           \/ pc[t] \in {"exit", "closing", "cancelMail", "cancelTasks"}
                           \/ \E s \in Threads : AtSend(s, "notify") /\ send[s].to = t
    BY DEF WorkIsAnnounced
  <2>1. Control(t) /\ MailAnnounced(t) /\ \A q \in Queues : Announced(t, q)
    BY DEF NoticeInv, CountInv, Shape, MailInv, NoteInv
  <2>2. ASSUME NEW q \in Queues
        PROVE  /\ tasks[t][q] # <<>> =>
                    \/ note[t][q] = "pending" \/ Executing(t, q)
                    \/ cur[t] = q /\ pc[t] \in {"receive", "cancelTasks"}
                    \/ \E s \in Threads : AtSend(s, "exchange") /\ send[s].to = t
                                            /\ send[s].queue = q
               /\ note[t][q] = "pending" =>
                    \/ \E i \in 1 .. Len(mailbox[t]) : mailbox[t][i] = q
                    \/ cur[t] = q /\ pc[t] \in {"receive", "cancelTasks"}
                    \/ \E s \in Threads : AtSend(s, "post") /\ send[s].to = t
                                            /\ send[s].queue = q
    BY <2>1, <2>2 DEF Announced, Control, Received, Executing, Opened, InMail, Sending
  <2>3. fromMail[t] = TRUE => pc[t] \in {"drain", "run", "finish", "cas"}
    BY <2>1 DEF Control
  <2> QED
    BY <2>1, <2>2, <2>3 DEF MailAnnounced
<1> QED
  BY <1>1, NoticeInvariant, PTL

(***************************************************************************)
(* Every call in at most one place.                                        *)
(***************************************************************************)

LEMMA TailHas ==
    ASSUME NEW list \in Seq(Calls), list # <<>>,
           \A i, j \in 1 .. Len(list) : list[i] = list[j] => i = j
    PROVE  /\ \A i, j \in 1 .. Len(Tail(list)) : Tail(list)[i] = Tail(list)[j] => i = j
           /\ \A d : (\E i \in 1 .. Len(Tail(list)) : Tail(list)[i] = d)
                        <=> (\E i \in 1 .. Len(list) : list[i] = d) /\ d # Head(list)
<1>1. /\ Head(list) = list[1] /\ 1 \in 1 .. Len(list)
      /\ Len(Tail(list)) = Len(list) - 1 /\ Len(list) \in Nat
      /\ \A i \in 1 .. Len(Tail(list)) : i + 1 \in 1 .. Len(list) /\ Tail(list)[i] = list[i + 1]
  BY TailIs, EmptyIs
<1>2. \A i \in 1 .. Len(list) : i # 1 => i - 1 \in 1 .. Len(Tail(list)) /\ (i - 1) + 1 = i
  BY <1>1
<1> QED
  BY <1>1, <1>2

LEMMA TailQueued ==
    ASSUME NEW list \in Seq(Tasks), list # <<>>,
           \A i, j \in 1 .. Len(list) : list[i].call = list[j].call => i = j
    PROVE  /\ \A i, j \in 1 .. Len(Tail(list)) : Tail(list)[i].call = Tail(list)[j].call => i = j
           /\ \A d : (\E i \in 1 .. Len(Tail(list)) : Tail(list)[i].call = d)
                        <=> (\E i \in 1 .. Len(list) : list[i].call = d) /\ d # Head(list).call
<1>1. /\ Head(list) = list[1] /\ 1 \in 1 .. Len(list)
      /\ Len(Tail(list)) = Len(list) - 1 /\ Len(list) \in Nat
      /\ \A i \in 1 .. Len(Tail(list)) : i + 1 \in 1 .. Len(list) /\ Tail(list)[i] = list[i + 1]
  BY TailIs, EmptyIs
<1>2. \A i \in 1 .. Len(list) : i # 1 => i - 1 \in 1 .. Len(Tail(list)) /\ (i - 1) + 1 = i
  BY <1>1
<1> QED
  BY <1>1, <1>2

LEMMA AppendHas ==
    ASSUME NEW list \in Seq(Calls), NEW e \in Calls,
           \A i, j \in 1 .. Len(list) : list[i] = list[j] => i = j,
           ~ \E i \in 1 .. Len(list) : list[i] = e
    PROVE  /\ \A i, j \in 1 .. Len(Append(list, e)) :
                 Append(list, e)[i] = Append(list, e)[j] => i = j
           /\ \A d : (\E i \in 1 .. Len(Append(list, e)) : Append(list, e)[i] = d)
                        <=> (\E i \in 1 .. Len(list) : list[i] = d) \/ d = e
<1>1. /\ Len(Append(list, e)) = Len(list) + 1 /\ Len(list) \in Nat
      /\ \A i \in 1 .. Len(list) : Append(list, e)[i] = list[i]
      /\ Append(list, e)[Len(list) + 1] = e
  BY AppendIs, EmptyIs
<1>2. \A i \in 1 .. Len(Append(list, e)) : i \in 1 .. Len(list) \/ i = Len(list) + 1
  BY <1>1
<1>3. \A i \in 1 .. Len(list) + 1 : i \in 1 .. Len(Append(list, e))
  BY <1>1
<1>4. 1 .. Len(list) \subseteq 1 .. Len(list) + 1 /\ Len(list) + 1 \in 1 .. Len(list) + 1
  BY <1>1
<1> QED
  BY <1>1, <1>2, <1>3, <1>4

LEMMA AppendQueued ==
    ASSUME NEW list \in Seq(Tasks), NEW e \in Tasks,
           \A i, j \in 1 .. Len(list) : list[i].call = list[j].call => i = j,
           ~ \E i \in 1 .. Len(list) : list[i].call = e.call
    PROVE  /\ \A i, j \in 1 .. Len(Append(list, e)) :
                 Append(list, e)[i].call = Append(list, e)[j].call => i = j
           /\ \A d : (\E i \in 1 .. Len(Append(list, e)) : Append(list, e)[i].call = d)
                        <=> (\E i \in 1 .. Len(list) : list[i].call = d) \/ d = e.call
<1>1. /\ Len(Append(list, e)) = Len(list) + 1 /\ Len(list) \in Nat
      /\ \A i \in 1 .. Len(list) : Append(list, e)[i] = list[i]
      /\ Append(list, e)[Len(list) + 1] = e
  BY AppendIs, EmptyIs
<1>2. \A i \in 1 .. Len(Append(list, e)) : i \in 1 .. Len(list) \/ i = Len(list) + 1
  BY <1>1
<1>3. \A i \in 1 .. Len(list) + 1 : i \in 1 .. Len(Append(list, e))
  BY <1>1
<1>4. 1 .. Len(list) \subseteq 1 .. Len(list) + 1 /\ Len(list) + 1 \in 1 .. Len(list) + 1
  BY <1>1
<1> QED
  BY <1>1, <1>2, <1>3, <1>4

LEMMA WithoutHas ==
    ASSUME NEW list \in Seq(Calls), NEW c, \E i \in 1 .. Len(list) : list[i] = c,
           \A i, j \in 1 .. Len(list) : list[i] = list[j] => i = j
    PROVE  /\ \A i, j \in 1 .. Len(Without(list, c)) :
                 Without(list, c)[i] = Without(list, c)[j] => i = j
           /\ \A d : (\E i \in 1 .. Len(Without(list, c)) : Without(list, c)[i] = d)
                        <=> (\E i \in 1 .. Len(list) : list[i] = d) /\ d # c
<1>1. PICK k \in 1 .. Len(list) :
         /\ list[k] = c
         /\ Len(Without(list, c)) = Len(list) - 1
         /\ \A i \in 1 .. Len(list) - 1 : Without(list, c)[i] = list[IF i < k THEN i ELSE i + 1]
  BY WithoutIs
<1>2. Len(list) \in Nat
  BY EmptyIs
<1> DEFINE w == Without(list, c)
           at(i) == IF i < k THEN i ELSE i + 1
<1>3. \A i \in 1 .. Len(w) : w[i] = list[at(i)] /\ at(i) \in 1 .. Len(list) /\ at(i) # k
  BY <1>1, <1>2
<1>4. \A i, j \in 1 .. Len(w) : at(i) = at(j) => i = j
  BY <1>1, <1>2
<1>5. \A i \in 1 .. Len(list) : i # k => \E j \in 1 .. Len(w) : at(j) = i
  <2> TAKE i \in 1 .. Len(list)
  <2> HAVE i # k
  <2>1. CASE i < k
    <3>1. i \in 1 .. Len(w) /\ at(i) = i
      BY <1>1, <1>2, <2>1
    <3> QED
      BY <3>1
  <2>2. CASE i > k
    <3>1. i - 1 \in 1 .. Len(w) /\ at(i - 1) = i
      BY <1>1, <1>2, <2>2
    <3> QED
      BY <3>1
  <2> QED
    BY <1>1, <1>2, <2>1, <2>2
<1> HIDE DEF w, at
<1>6. \A i, j \in 1 .. Len(w) : w[i] = w[j] => i = j
  BY <1>3, <1>4
<1>7. ASSUME NEW d
      PROVE  (\E i \in 1 .. Len(w) : w[i] = d) <=> (\E i \in 1 .. Len(list) : list[i] = d) /\ d # c
  <2>1. ASSUME NEW i \in 1 .. Len(w), w[i] = d
        PROVE  (\E j \in 1 .. Len(list) : list[j] = d) /\ d # c
    <3>1. list[at(i)] = d /\ at(i) \in 1 .. Len(list) /\ at(i) # k
      BY <1>3, <2>1
    <3> QED
      BY <1>1, <3>1
  <2>2. ASSUME NEW i \in 1 .. Len(list), list[i] = d, d # c
        PROVE  \E j \in 1 .. Len(w) : w[j] = d
    <3>1. PICK j \in 1 .. Len(w) : at(j) = i
      BY <1>1, <1>5, <2>2
    <3>2. w[j] = list[i]
      BY <1>3, <3>1
    <3> QED
      BY <2>2, <3>2
  <2> QED
    BY <2>1, <2>2
<1> QED
  BY <1>6, <1>7 DEF w

(* A step that moves nothing of call d. *)
Still(d) ==
    \A u \in Threads :
       /\ InActive(u, d)' <=> InActive(u, d)
       /\ InJob(u, d)' <=> InJob(u, d)
       /\ InSend(u, d)' <=> InSend(u, d)
       /\ \A q \in Queues : InQueue(u, q, d)' <=> InQueue(u, q, d)

LEMMA StillOnePlace ==
    ASSUME NEW d \in Calls, Still(d), OnePlace(d)
    PROVE  OnePlace(d)' /\ (Nowhere(d)' <=> Nowhere(d))
<1>1. Nowhere(d)' <=> Nowhere(d)
  BY DEF Still, Nowhere, Idle, Unqueued
<1>2. \A u \in Threads, r \in Queues : OnlyQueue(d, u, r) => OnlyQueue(d, u, r)'
  BY DEF Still, OnlyQueue, Idle
<1>3. \A u \in Threads : /\ OnlyActive(d, u) => OnlyActive(d, u)'
                         /\ OnlyJob(d, u) => OnlyJob(d, u)'
                         /\ OnlySend(d, u) => OnlySend(d, u)'
  BY DEF Still, OnlyActive, OnlyJob, OnlySend, Unqueued
<1> QED
  BY <1>1, <1>2, <1>3 DEF OnePlace

(* Where a call is found, it is nowhere else. *)
LEMMA FoundOnly ==
    ASSUME NEW c \in Calls, OnePlace(c), NEW t \in Threads
    PROVE  /\ \A q \in Queues : InQueue(t, q, c) => OnlyQueue(c, t, q)
           /\ InActive(t, c) => OnlyActive(c, t)
           /\ InJob(t, c) => OnlyJob(c, t)
           /\ InSend(t, c) => OnlySend(c, t)
  BY DEF OnePlace, OnlyQueue, OnlyActive, OnlyJob, OnlySend, Nowhere, Idle, Unqueued

(* What remains to be shown of a step that moves call c. *)
LEMMA HolderBy ==
    ASSUME HolderInv, NEW c,
           \A d \in Calls : d # c => Still(d) /\ ctx'[d] = ctx[d] /\ call'[d] = call[d],
           c \in Calls => OnePlace(c)' /\ ContextOf(c)',
           \A u \in Threads : OnceActive(u)' /\ \A q \in Queues : OnceQueued(u, q)'
    PROVE  HolderInv'
<1>1. ASSUME NEW d \in Calls, d # c
      PROVE  OnePlace(d)' /\ ContextOf(d)'
  <2>1. OnePlace(d) /\ ContextOf(d) /\ Still(d) /\ ctx'[d] = ctx[d] /\ call'[d] = call[d]
    BY <1>1 DEF HolderInv
  <2>2. OnePlace(d)' /\ (Nowhere(d)' <=> Nowhere(d))
    BY <2>1, StillOnePlace
  <2> QED
    BY <2>1, <2>2 DEF ContextOf
<1> QED
  BY <1>1 DEF HolderInv

(* A call that nothing holds any more, except perhaps the send that        *)
(* reports its end.                                                        *)
LEMMA LeftOrSent ==
    ASSUME NEW c \in Calls, NEW t \in Threads, Unqueued(c)',
           \A u \in Threads : ~InActive(u, c)' /\ ~InJob(u, c)',
           \A u \in Threads : InSend(u, c)' => u = t,
           call'[c] # None /\ call'[c].kind # "async" => (ctx'[c] = "pending" <=> InSend(t, c)'),
           call'[c] # None
    PROVE  OnePlace(c)' /\ ContextOf(c)'
<1>1. CASE InSend(t, c)'
  <2>1. OnlySend(c, t)' /\ ~Nowhere(c)'
    BY <1>1 DEF OnlySend, Nowhere, Idle
  <2> QED
    BY <1>1, <2>1 DEF OnePlace, ContextOf
<1>2. CASE ~InSend(t, c)'
  <2>1. Nowhere(c)'
    BY <1>2 DEF Nowhere, Idle
  <2> QED
    BY <1>2, <2>1 DEF OnePlace, ContextOf
<1> QED
  BY <1>1, <1>2

(* What a step of thread t leaves where it was. *)
LEMMA OthersStill ==
    ASSUME TypeOK, NEW t \in Threads, Acts(t), NEW u \in Threads, u # t
    PROVE  /\ active'[u] = active[u]
           /\ \A d : /\ InActive(u, d)' <=> InActive(u, d)
                     /\ InJob(u, d)' <=> InJob(u, d)
                     /\ InSend(u, d)' <=> InSend(u, d)
  BY OnlyActor DEF SameLocals, InActive, InJob, InSend

(* A step that takes nothing from its queues and adds nothing to any. *)
LEMMA QueuesStill ==
    ASSUME tasks' = tasks
    PROVE  \A u \in Threads, q \in Queues :
              /\ OnceQueued(u, q)' <=> OnceQueued(u, q)
              /\ \A d : InQueue(u, q, d)' <=> InQueue(u, q, d)
  BY DEF OnceQueued, InQueue

(* The first task is taken off a queue. *)
LEMMA QueueTail ==
    ASSUME TypeOK, NEW t \in Threads, NEW r \in Queues, tasks[t][r] # <<>>,
           tasks' = [tasks EXCEPT ![t][r] = Tail(@)], OnceQueued(t, r)
    PROVE  /\ Head(tasks[t][r]) \in Tasks /\ Head(tasks[t][r]).call \in Calls
           /\ InQueue(t, r, Head(tasks[t][r]).call)
           /\ OnceQueued(t, r)'
           /\ \A u \in Threads, q \in Queues : u # t \/ q # r => tasks'[u][q] = tasks[u][q]
           /\ \A d : InQueue(t, r, d)' <=> InQueue(t, r, d) /\ d # Head(tasks[t][r]).call
<1>1. tasks \in [Threads -> [Queues -> Seq(Tasks)]] /\ tasks[t][r] \in Seq(Tasks)
  BY DEF TypeOK
<1>2. /\ tasks'[t][r] = Tail(tasks[t][r])
      /\ \A u \in Threads, q \in Queues : u # t \/ q # r => tasks'[u][q] = tasks[u][q]
  BY <1>1
<1>3. /\ Head(tasks[t][r]) \in Tasks /\ Head(tasks[t][r]) = tasks[t][r][1]
      /\ 1 \in 1 .. Len(tasks[t][r])
  BY <1>1, TailIs
<1>4. Head(tasks[t][r]).call \in Calls
  BY <1>3 DEF Tasks
<1>5. \A i, j \in 1 .. Len(tasks[t][r]) : tasks[t][r][i].call = tasks[t][r][j].call => i = j
  BY DEF OnceQueued
<1> DEFINE list == tasks[t][r]
<1>6. /\ \A i, j \in 1 .. Len(Tail(list)) : Tail(list)[i].call = Tail(list)[j].call => i = j
      /\ \A d : (\E i \in 1 .. Len(Tail(list)) : Tail(list)[i].call = d)
                   <=> (\E i \in 1 .. Len(list) : list[i].call = d) /\ d # Head(list).call
  BY <1>1, <1>5, TailQueued
<1>7. OnceQueued(t, r)'
  BY <1>2, <1>6 DEF OnceQueued
<1>8. ASSUME NEW d
      PROVE  InQueue(t, r, d)' <=> InQueue(t, r, d) /\ d # Head(tasks[t][r]).call
  <2>1. InQueue(t, r, d)' <=> \E i \in 1 .. Len(Tail(list)) : Tail(list)[i].call = d
    BY <1>2 DEF InQueue
  <2>2. InQueue(t, r, d) <=> \E i \in 1 .. Len(list) : list[i].call = d
    BY DEF InQueue
  <2> HIDE DEF list
  <2> QED
    BY <1>6, <2>1, <2>2 DEF list
<1>9. InQueue(t, r, Head(tasks[t][r]).call)
  BY <1>3 DEF InQueue
<1> QED
  BY <1>2, <1>3, <1>4, <1>7, <1>8, <1>9

LEMMA QueueAppend ==
    ASSUME TypeOK, NEW to \in Threads, NEW r \in Queues, NEW task \in Tasks,
           tasks' = [tasks EXCEPT ![to][r] = Append(@, task)], OnceQueued(to, r),
           ~InQueue(to, r, task.call)
    PROVE  /\ OnceQueued(to, r)'
           /\ \A u \in Threads, q \in Queues : u # to \/ q # r => tasks'[u][q] = tasks[u][q]
           /\ \A d : InQueue(to, r, d)' <=> InQueue(to, r, d) \/ d = task.call
<1>1. tasks \in [Threads -> [Queues -> Seq(Tasks)]] /\ tasks[to][r] \in Seq(Tasks)
  BY DEF TypeOK
<1>2. /\ tasks'[to][r] = Append(tasks[to][r], task)
      /\ \A u \in Threads, q \in Queues : u # to \/ q # r => tasks'[u][q] = tasks[u][q]
  BY <1>1
<1> DEFINE list == tasks[to][r]
<1>3. /\ \A i, j \in 1 .. Len(list) : list[i].call = list[j].call => i = j
      /\ ~ \E i \in 1 .. Len(list) : list[i].call = task.call
  BY DEF OnceQueued, InQueue
<1>4. /\ \A i, j \in 1 .. Len(Append(list, task)) :
            Append(list, task)[i].call = Append(list, task)[j].call => i = j
      /\ \A d : (\E i \in 1 .. Len(Append(list, task)) : Append(list, task)[i].call = d)
                   <=> (\E i \in 1 .. Len(list) : list[i].call = d) \/ d = task.call
  BY <1>1, <1>3, AppendQueued
<1>5. OnceQueued(to, r)'
  BY <1>2, <1>4 DEF OnceQueued
<1>6. \A d : InQueue(to, r, d)' <=> InQueue(to, r, d) \/ d = task.call
  BY <1>2, <1>4 DEF InQueue
<1> QED
  BY <1>2, <1>5, <1>6

(* The same for one list of active contexts. *)
LEMMA ActiveTail ==
    ASSUME TypeOK, NEW t \in Threads, active[t] # <<>>, active' = [active EXCEPT ![t] = Tail(@)],
           OnceActive(t)
    PROVE  /\ Head(active[t]) \in Calls /\ InActive(t, Head(active[t]))
           /\ OnceActive(t)'
           /\ \A d : InActive(t, d)' <=> InActive(t, d) /\ d # Head(active[t])
<1>1. active \in [Threads -> Seq(Calls)] /\ active[t] \in Seq(Calls)
  BY DEF TypeOK
<1>2. active'[t] = Tail(active[t])
  BY <1>1
<1>3. Head(active[t]) \in Calls /\ Head(active[t]) = active[t][1] /\ 1 \in 1 .. Len(active[t])
  BY <1>1, TailIs
<1> DEFINE list == active[t]
<1>4. \A i, j \in 1 .. Len(list) : list[i] = list[j] => i = j
  BY DEF OnceActive
<1>5. /\ \A i, j \in 1 .. Len(Tail(list)) : Tail(list)[i] = Tail(list)[j] => i = j
      /\ \A d : (\E i \in 1 .. Len(Tail(list)) : Tail(list)[i] = d)
                   <=> (\E i \in 1 .. Len(list) : list[i] = d) /\ d # Head(list)
  BY <1>1, <1>4, TailHas
<1>6. OnceActive(t)'
  BY <1>2, <1>5 DEF OnceActive
<1>7. ASSUME NEW d
      PROVE  InActive(t, d)' <=> InActive(t, d) /\ d # Head(active[t])
  <2>1. InActive(t, d)' <=> \E i \in 1 .. Len(Tail(list)) : Tail(list)[i] = d
    BY <1>2 DEF InActive
  <2>2. InActive(t, d) <=> \E i \in 1 .. Len(list) : list[i] = d
    BY DEF InActive
  <2> HIDE DEF list
  <2> QED
    BY <1>5, <2>1, <2>2 DEF list
<1>8. InActive(t, Head(active[t]))
  BY <1>3 DEF InActive
<1> QED
  BY <1>3, <1>6, <1>7, <1>8

LEMMA ActiveAppend ==
    ASSUME TypeOK, NEW t \in Threads, NEW c \in Calls, active' = [active EXCEPT ![t] = Append(@, c)],
           OnceActive(t), ~InActive(t, c)
    PROVE  /\ OnceActive(t)'
           /\ \A d : InActive(t, d)' <=> InActive(t, d) \/ d = c
<1>1. active \in [Threads -> Seq(Calls)] /\ active[t] \in Seq(Calls)
  BY DEF TypeOK
<1>2. active'[t] = Append(active[t], c)
  BY <1>1
<1> DEFINE list == active[t]
<1>4. /\ \A i, j \in 1 .. Len(list) : list[i] = list[j] => i = j
      /\ ~ \E i \in 1 .. Len(list) : list[i] = c
  BY DEF OnceActive, InActive
<1>5. /\ \A i, j \in 1 .. Len(Append(list, c)) :
            Append(list, c)[i] = Append(list, c)[j] => i = j
      /\ \A d : (\E i \in 1 .. Len(Append(list, c)) : Append(list, c)[i] = d)
                   <=> (\E i \in 1 .. Len(list) : list[i] = d) \/ d = c
  BY <1>1, <1>4, AppendHas
<1>6. OnceActive(t)'
  BY <1>2, <1>5 DEF OnceActive
<1>7. ASSUME NEW d
      PROVE  InActive(t, d)' <=> InActive(t, d) \/ d = c
  <2>1. InActive(t, d)' <=> \E i \in 1 .. Len(Append(list, c)) : Append(list, c)[i] = d
    BY <1>2 DEF InActive
  <2>2. InActive(t, d) <=> \E i \in 1 .. Len(list) : list[i] = d
    BY DEF InActive
  <2> HIDE DEF list
  <2> QED
    BY <1>5, <2>1, <2>2 DEF list
<1> QED
  BY <1>6, <1>7

LEMMA ActiveWithout ==
    ASSUME TypeOK, NEW t \in Threads, NEW c \in Calls, active' = [active EXCEPT ![t] = Without(@, c)],
           OnceActive(t), InActive(t, c)
    PROVE  /\ OnceActive(t)'
           /\ \A d : InActive(t, d)' <=> InActive(t, d) /\ d # c
<1>1. active \in [Threads -> Seq(Calls)] /\ active[t] \in Seq(Calls)
  BY DEF TypeOK
<1>2. active'[t] = Without(active[t], c)
  BY <1>1
<1> DEFINE list == active[t]
<1>4. /\ \A i, j \in 1 .. Len(list) : list[i] = list[j] => i = j
      /\ \E i \in 1 .. Len(list) : list[i] = c
  BY DEF OnceActive, InActive
<1>5. /\ \A i, j \in 1 .. Len(Without(list, c)) :
            Without(list, c)[i] = Without(list, c)[j] => i = j
      /\ \A d : (\E i \in 1 .. Len(Without(list, c)) : Without(list, c)[i] = d)
                   <=> (\E i \in 1 .. Len(list) : list[i] = d) /\ d # c
  BY <1>1, <1>4, WithoutHas
<1>6. OnceActive(t)'
  BY <1>2, <1>5 DEF OnceActive
<1>7. ASSUME NEW d
      PROVE  InActive(t, d)' <=> InActive(t, d) /\ d # c
  <2>1. InActive(t, d)' <=> \E i \in 1 .. Len(Without(list, c)) : Without(list, c)[i] = d
    BY <1>2 DEF InActive
  <2>2. InActive(t, d) <=> \E i \in 1 .. Len(list) : list[i] = d
    BY DEF InActive
  <2> HIDE DEF list
  <2> QED
    BY <1>5, <2>1, <2>2 DEF list
<1> QED
  BY <1>6, <1>7

LEMMA HolderQuiet ==
    ASSUME TypeOK, HolderInv, NEW t \in Threads, Acts(t),
           tasks' = tasks, ctx' = ctx, call' = call, active'[t] = active[t],
           \A d : (InJob(t, d)' <=> InJob(t, d)) /\ (InSend(t, d)' <=> InSend(t, d))
    PROVE  HolderInv'
<1>1. \A u \in Threads : active'[u] = active[u]
  BY OthersStill
<1>2. \A u \in Threads : OnceActive(u)' <=> OnceActive(u)
  BY <1>1 DEF OnceActive
<1>3. \A u \in Threads, d \in Calls : InActive(u, d)' <=> InActive(u, d)
  BY <1>1 DEF InActive
<1>4. \A u \in Threads, d \in Calls : /\ InJob(u, d)' <=> InJob(u, d)
                                      /\ InSend(u, d)' <=> InSend(u, d)
  BY OthersStill
<1>5. \A d \in Calls : Still(d)
  BY <1>3, <1>4, QueuesStill DEF Still
<1>6. \A u \in Threads : OnceActive(u)' /\ \A q \in Queues : OnceQueued(u, q)'
  BY <1>2, QueuesStill DEF HolderInv
<1>7. \A d \in Calls : ctx'[d] = ctx[d] /\ call'[d] = call[d]
  OBVIOUS
<1>8. \E c : c \notin Calls
  <2>1. -1 \notin Calls
    BY ProxyingAssumption DEF Calls
  <2> QED
    BY <2>1
<1> QED
  BY <1>5, <1>6, <1>7, <1>8, HolderBy

(* The steps that only pass notifications on. *)
LEMMA HolderNotices ==
    ASSUME TypeOK, HolderInv, Shape, NEW t \in Threads, Acts(t),
           \/ Start(t) \/ CheckMailbox(t) \/ LateWake(t) \/ MailReceived(t) \/ NextMail(t)
           \/ ReceiveNotification(t) \/ QueueDone(t) \/ MailDone(t)
           \/ CloseMailbox(t) \/ MailboxClosed(t) \/ CancelMail(t) \/ Exit(t)
           \/ (\E q \in Queues : ExecuteQueue(t, q)) \/ (\E same \in BOOLEAN : Reuse(t, same))
    PROVE  HolderInv'
<1>t. pc \in [Threads -> PCs]
  BY DEF TypeOK
<1>1. /\ tasks' = tasks /\ ctx' = ctx /\ call' = call /\ active' = active
      /\ job' = job /\ send' = send
  BY DEF Start, CheckMailbox, LateWake, MailReceived, NextMail, ReceiveNotification, QueueDone, MailDone,
         CloseMailbox, MailboxClosed, CancelMail, Exit, ExecuteQueue, Reuse
<1>2. pc[t] # "run" /\ pc'[t] # "run"
  BY <1>t DEF Start, CheckMailbox, LateWake, MailReceived, NextMail, ReceiveNotification, QueueDone, MailDone,
         CloseMailbox, MailboxClosed, CancelMail, Exit, ExecuteQueue, Reuse
<1>3. \A d : (InJob(t, d)' <=> InJob(t, d)) /\ (InSend(t, d)' <=> InSend(t, d))
  BY <1>1, <1>2 DEF InJob, InSend
<1> QED
  BY <1>1, <1>3, HolderQuiet

(* The steps of a send before and after its task is in the queue. *)
LEMMA HolderSending ==
    ASSUME TypeOK, HolderInv, Shape, NEW t \in Threads, Acts(t),
           \/ Lookup(t) \/ Ref(t) \/ EnqueueFails(t) \/ Exchange(t) \/ Post(t)
           \/ ExchangeMailbox(t) \/ Notify(t)
    PROVE  HolderInv'
<1>1. /\ tasks' = tasks /\ ctx' = ctx /\ call' = call /\ active' = active
      /\ job' = job /\ pc' = pc /\ send[t] # None
  BY DEF Lookup, Ref, EnqueueFails, Exchange, Post, ExchangeMailbox, Notify, AtSend
<1>2. Control(t)
  BY DEF Shape
<1>3. \A d : InSend(t, d)' <=> InSend(t, d)
  <2>1. CASE Lookup(t) \/ Ref(t)
    <3>1. PICK step \in {"ref", "enqueue"} : GoSend(t, step)
      BY <2>1 DEF Lookup, Ref
    <3>2. send[t].at \in {"lookup", "ref"}
      BY <2>1 DEF Lookup, Ref, AtSend
    <3>3. /\ send'[t] # None /\ send'[t].at = step /\ send'[t].task = send[t].task
          /\ send'[t].ok = send[t].ok
      BY <1>1, <3>1, GoSendIs DEF SendSteps
    <3> QED
      BY <1>1, <3>2, <3>3 DEF InSend
  <2>2. CASE EnqueueFails(t)
    BY <2>2, EnqueueFailsIs DEF InSend
  <2>3. CASE Exchange(t) \/ Post(t) \/ ExchangeMailbox(t) \/ Notify(t)
    <3>1. PICK step \in {"unref", "post", "exchangeMailbox", "notify"} : GoSend(t, step)
      BY <2>3 DEF Exchange, Post, ExchangeMailbox, Notify
    <3>2. send[t].at \in {"exchange", "post", "exchangeMailbox", "notify"}
      BY <2>3 DEF Exchange, Post, ExchangeMailbox, Notify, AtSend
    <3>3. /\ send'[t] # None /\ send'[t].at = step /\ send'[t].task = send[t].task
          /\ send'[t].ok = send[t].ok
      BY <1>1, <3>1, GoSendIs DEF SendSteps
    <3>4. send[t].ok = TRUE
      BY <1>1, <1>2, <3>2 DEF Control
    <3> QED
      BY <1>1, <3>1, <3>2, <3>3, <3>4 DEF InSend
  <2> QED
    BY <2>1, <2>2, <2>3
<1>4. \A d : InJob(t, d)' <=> InJob(t, d)
  BY <1>1 DEF InJob
<1> QED
  BY <1>1, <1>3, <1>4, HolderQuiet

(* A call is made. *)
LEMMA HolderIssue ==
    ASSUME TypeOK, HolderInv, Shape, NEW t \in Clients, NEW s \in Servers, NEW q \in Queues,
           NEW k \in Kinds, NEW c \in Calls, Acts(t),
           Issue(t, s, q, k, c) \/ IssueFails(t, s, q, k, c)
    PROVE  HolderInv'
<1>0. t \in Threads /\ s \in Threads
  BY DEF Threads
<1> USE <1>0
<1>t. /\ call \in [Calls -> CallRecords \cup {None}] /\ send \in [Threads -> Sends \cup {None}]
      /\ ctx \in [Calls -> {"none", "pending", "done", "canceled", "freed"}]
  BY DEF TypeOK
<1>1. /\ tasks' = tasks /\ active' = active /\ job' = job /\ pc' = pc
      /\ call[c] = None /\ send[t] = None
      /\ \A d \in Calls : d # c => call'[d] = call[d] /\ ctx'[d] = ctx[d]
  BY <1>t DEF Issue, IssueFails
<1>2. \A u \in Threads : Control(u) /\ LocalRefs(u) /\ QueueRefs(u)
  BY DEF Shape
<1>3. Nowhere(c)
  <2>1. \A u \in Threads, r \in Queues : ~InQueue(u, r, c)
    BY <1>1, <1>2 DEF InQueue, QueueRefs
  <2>2. \A u \in Threads : ~InActive(u, c)
    BY <1>1, <1>2 DEF InActive, LocalRefs
  <2>3. \A u \in Threads : ~InJob(u, c) /\ ~InSend(u, c)
    BY <1>1, <1>2 DEF InJob, InSend, LocalRefs, Control
  <2> QED
    BY <2>1, <2>2, <2>3 DEF Nowhere, Idle, Unqueued
<1>4. \A u \in Threads : \A d : /\ InActive(u, d)' <=> InActive(u, d)
                                /\ InJob(u, d)' <=> InJob(u, d)
  BY <1>1 DEF InActive, InJob
<1>5. \A u \in Threads : OnceActive(u)' /\ \A r \in Queues : OnceQueued(u, r)'
  BY <1>1, QueuesStill DEF HolderInv, OnceActive
<1>6. \A d : InSend(t, d)' <=> d = c /\ Issue(t, s, q, k, c)
  <2>1. CASE Issue(t, s, q, k, c)
    <3>1. send'[t] = SendOf(q, s, "func", c)
      BY <1>t, <2>1 DEF Issue
    <3>2. send'[t] # None /\ send'[t].task.call = c /\ send'[t].at = "lookup"
      <4>1. SendOf(q, s, "func", c).task.call = c /\ SendOf(q, s, "func", c).at = "lookup"
        BY DEF SendOf
      <4>2. SendOf(q, s, "func", c) \in Sends
        BY DEF SendOf, Sends, SendSteps, Tasks
      <4> QED
        BY <3>1, <4>1, <4>2, NoneIsNothing
    <3> QED
      BY <2>1, <3>2 DEF InSend
  <2>2. CASE ~Issue(t, s, q, k, c)
    <3>1. send' = send
      BY <2>2 DEF IssueFails
    <3> QED
      BY <1>1, <2>2, <3>1 DEF InSend
  <2> QED
    BY <2>1, <2>2
<1>7. \A u \in Threads : \A d : u # t => (InSend(u, d)' <=> InSend(u, d))
  BY OthersStill
<1>8. \A d \in Calls : d # c => Still(d)
  <2>1. \A d : ~InSend(t, d)
    BY <1>1 DEF InSend
  <2> QED
    BY <1>1, <1>4, <1>6, <1>7, <2>1, QueuesStill DEF Still
<1>9. OnePlace(c)' /\ ContextOf(c)'
  <2>1. Unqueued(c)' /\ \A u \in Threads : ~InActive(u, c)' /\ ~InJob(u, c)'
    BY <1>1, <1>3, <1>4, QueuesStill DEF Nowhere, Idle, Unqueued
  <2>2. \A u \in Threads : InSend(u, c)' => u = t
    BY <1>3, <1>7 DEF Nowhere, Idle
  <2>3. call'[c] # None /\ (call'[c].kind # "async" => (ctx'[c] = "pending" <=> InSend(t, c)'))
    <3>1. call'[c] = [kind |-> k, caller |-> t, target |-> s, queue |-> q]
      BY <1>t DEF Issue, IssueFails
    <3>2. call'[c] \in CallRecords
      BY <3>1, ProxyingAssumption DEF CallRecords
    <3>3. call'[c] # None /\ call'[c].kind = k
      BY <3>1, <3>2, NoneIsNothing
    <3>4. Issue(t, s, q, k, c) /\ k # "async" => ctx'[c] = "pending"
      BY <1>t DEF Issue
    <3>5. ~Issue(t, s, q, k, c) => ctx'[c] = "none"
      BY <1>1 DEF IssueFails, HolderInv, ContextOf
    <3> QED
      BY <1>6, <3>3, <3>4, <3>5
  <2> QED
    BY <2>1, <2>2, <2>3, LeftOrSent
<1> QED
  BY <1>1, <1>5, <1>8, <1>9, HolderBy

(* The task is in the queue. *)
LEMMA HolderEnqueue ==
    ASSUME TypeOK, HolderInv, Shape, NEW t \in Threads, Acts(t), Enqueue(t)
    PROVE  HolderInv'
<1>0. send[t] # None
  BY DEF Enqueue, AtSend
<1>p. PICK to \in Threads, r \in Queues, task \in Tasks, c \in Calls :
         /\ to = send[t].to /\ r = send[t].queue /\ task = send[t].task /\ c = task.call
  BY <1>0, SendIs
<1>1. /\ send[t].at = "enqueue" /\ GoSend(t, "exchange")
      /\ tasks' = [tasks EXCEPT ![to][r] = Append(@, task)]
      /\ active' = active /\ job' = job /\ pc' = pc /\ ctx' = ctx /\ call' = call
  BY <1>p DEF Enqueue, AtSend
<1>3. /\ send'[t] # None /\ send'[t].at = "exchange" /\ send'[t].task = task
      /\ send'[t].ok = send[t].ok
  BY <1>0, <1>1, <1>p, GoSendIs DEF SendSteps
<1>4. send[t].ok = TRUE
  BY <1>0, <1>1 DEF Shape, Control
<1>5. \A d : ~InSend(t, d)' /\ (InSend(t, d) <=> d = c)
  BY <1>0, <1>p, <1>1, <1>3, <1>4 DEF InSend
<1>6. OnePlace(c) /\ ContextOf(c) /\ OnceQueued(to, r)
  BY DEF HolderInv
<1>7. OnlySend(c, t)
  BY <1>5, <1>6, FoundOnly
<1>8. /\ OnceQueued(to, r)'
      /\ \A u \in Threads, q \in Queues : u # to \/ q # r => tasks'[u][q] = tasks[u][q]
      /\ \A d : InQueue(to, r, d)' <=> InQueue(to, r, d) \/ d = c
  <2>1. ~InQueue(to, r, task.call)
    BY <1>p, <1>7 DEF OnlySend, Unqueued
  <2> QED
    BY <1>1, <1>p, <1>6, <2>1, QueueAppend
<1>9. \A u \in Threads, q \in Queues : u # to \/ q # r =>
         /\ OnceQueued(u, q)' <=> OnceQueued(u, q)
         /\ \A d : InQueue(u, q, d)' <=> InQueue(u, q, d)
  BY <1>8 DEF OnceQueued, InQueue
<1>10. \A u \in Threads : \A d : /\ InActive(u, d)' <=> InActive(u, d)
                                 /\ InJob(u, d)' <=> InJob(u, d)
  BY <1>1 DEF InActive, InJob
<1>11. \A u \in Threads : \A d : u # t => (InSend(u, d)' <=> InSend(u, d))
  BY OthersStill
<1>12. \A d \in Calls : d # c => Still(d)
  BY <1>5, <1>8, <1>9, <1>10, <1>11 DEF Still
<1>13. OnePlace(c)' /\ ContextOf(c)'
  <2>1. OnlyQueue(c, to, r)'
    <3>1. \A u \in Threads : ~InActive(u, c)' /\ ~InJob(u, c)' /\ ~InSend(u, c)'
      BY <1>5, <1>7, <1>10, <1>11 DEF OnlySend
    <3>2. \A u \in Threads, q \in Queues : InQueue(u, q, c)' <=> u = to /\ q = r
      BY <1>7, <1>8, <1>9 DEF OnlySend, Unqueued
    <3> QED
      BY <3>1, <3>2 DEF OnlyQueue, Idle
  <2>2. ~Nowhere(c) /\ ~Nowhere(c)'
    BY <1>7, <2>1 DEF OnlySend, OnlyQueue, Nowhere, Idle, Unqueued
  <2> QED
    BY <1>1, <1>6, <2>1, <2>2 DEF OnePlace, ContextOf
<1>14. \A u \in Threads : OnceActive(u)' /\ \A q \in Queues : OnceQueued(u, q)'
  BY <1>1, <1>8, <1>9 DEF HolderInv, OnceActive
<1> QED
  BY <1>1, <1>12, <1>13, <1>14, HolderBy

(* What SendFails and SendSucceeds do. *)
LEMMA FailureIs ==
    ASSUME TypeOK, NEW t \in Threads, send[t] # None, SendFails(t)
    PROVE  /\ send'[t] = None /\ pc' = pc /\ job' = job
           /\ ctx'[send[t].task.call] =
                 IF call[send[t].task.call].kind = "async" THEN ctx[send[t].task.call] ELSE "freed"
           /\ \A d \in Calls : d # send[t].task.call => ctx'[d] = ctx[d] /\ result'[d] = result[d]
           /\ result'[send[t].task.call] = IF send[t].task.fn = "func" THEN "false"
                                           ELSE result[send[t].task.call]
<1>1. send[t].task.call \in Calls
  BY SendIs
<1> DEFINE c == send[t].task.call
<1>2. /\ send \in [Threads -> Sends \cup {None}]
      /\ ctx \in [Calls -> {"none", "pending", "done", "canceled", "freed"}]
      /\ result \in [Calls -> {"nothing", "true", "false"}]
  BY DEF TypeOK
<1>3. /\ send' = [send EXCEPT ![t] = None]
      /\ ctx' = IF call[c].kind = "async" THEN ctx ELSE [ctx EXCEPT ![c] = "freed"]
      /\ result' = IF send[t].task.fn = "func" THEN [result EXCEPT ![c] = "false"] ELSE result
      /\ pc' = pc /\ job' = job
  BY DEF SendFails
<1>4. c \in Calls
  BY <1>1
<1> HIDE DEF c
<1>5. send'[t] = None
  BY <1>2, <1>3
<1>6. /\ ctx'[c] = IF call[c].kind = "async" THEN ctx[c] ELSE "freed"
      /\ \A d \in Calls : d # c => ctx'[d] = ctx[d]
  BY <1>2, <1>3, <1>4
<1>7. /\ result'[c] = IF send[t].task.fn = "func" THEN "false" ELSE result[c]
      /\ \A d \in Calls : d # c => result'[d] = result[d]
  BY <1>2, <1>3, <1>4
<1> QED
  BY <1>3, <1>5, <1>6, <1>7 DEF c

LEMMA HolderSendFails ==
    ASSUME TypeOK, HolderInv, Shape, NEW t \in Threads, Acts(t),
           LookupFails(t) \/ RefRefused(t) \/ (Unref(t) /\ send[t].ok # TRUE)
    PROVE  HolderInv'
<1>0. send[t] # None /\ (send[t].at \in {"lookup", "ref"} \/ send[t].ok = FALSE)
  <2>1. send[t] # None /\ (send[t].at \in {"lookup", "ref"} \/ send[t].ok # TRUE)
    BY DEF LookupFails, RefRefused, Unref, AtSend
  <2> QED
    BY <2>1, SendIs
<1>1. tasks' = tasks /\ active' = active /\ call' = call /\ SendFails(t)
  BY <1>0 DEF LookupFails, RefRefused, Unref
<1>2. PICK c \in Calls : c = send[t].task.call /\ call[c] # None
  BY <1>0, SendIs DEF Shape, LocalRefs
<1>3. /\ send'[t] = None /\ pc' = pc /\ job' = job
      /\ ctx'[c] = IF call[c].kind = "async" THEN ctx[c] ELSE "freed"
      /\ \A d \in Calls : d # c => ctx'[d] = ctx[d]
  BY <1>0, <1>1, <1>2, FailureIs
<1>5. \A d : ~InSend(t, d)' /\ (InSend(t, d) <=> d = c)
  BY <1>0, <1>2, <1>3 DEF InSend
<1>7. OnlySend(c, t)
  BY <1>2, <1>5, FoundOnly DEF HolderInv
<1>10. \A u \in Threads : \A d : /\ InActive(u, d)' <=> InActive(u, d)
                                 /\ InJob(u, d)' <=> InJob(u, d)
  BY <1>1, <1>3 DEF InActive, InJob
<1>11. \A u \in Threads : \A d : u # t => (InSend(u, d)' <=> InSend(u, d))
  BY OthersStill
<1>12. \A d \in Calls : d # c => Still(d)
  BY <1>1, <1>5, <1>10, <1>11, QueuesStill DEF Still
<1>13. OnePlace(c)' /\ ContextOf(c)'
  <2>1. Unqueued(c)' /\ \A u \in Threads : ~InActive(u, c)' /\ ~InJob(u, c)' /\ ~InSend(u, c)'
    BY <1>1, <1>5, <1>7, <1>10, <1>11, QueuesStill DEF OnlySend, Unqueued
  <2> QED
    BY <1>1, <1>2, <1>3, <2>1, LeftOrSent
<1>14. \A u \in Threads : OnceActive(u)' /\ \A q \in Queues : OnceQueued(u, q)'
  BY <1>1, QueuesStill DEF HolderInv, OnceActive
<1> QED
  BY <1>1, <1>3, <1>12, <1>13, <1>14, HolderBy

LEMMA HolderSendSucceeds ==
    ASSUME TypeOK, HolderInv, Shape, NEW t \in Threads, Acts(t), Unref(t), send[t].ok = TRUE
    PROVE  HolderInv'
<1>1. /\ send[t] # None /\ send[t].at = "unref"
      /\ tasks' = tasks /\ active' = active /\ call' = call /\ SendSucceeds(t)
  BY DEF Unref, AtSend
<1>2. pc[t] # "run" /\ pc'[t] # "run" /\ send'[t] = None /\ ctx' = ctx
  <2>1. pc \in [Threads -> PCs] /\ send \in [Threads -> Sends \cup {None}]
    BY DEF TypeOK
  <2>2. pc[t] # "run"
    BY <1>1 DEF Shape, Control
  <2> QED
    BY <1>1, <2>1, <2>2 DEF SendSucceeds
<1>3. \A d : (InJob(t, d)' <=> InJob(t, d)) /\ (InSend(t, d)' <=> InSend(t, d))
  <2>1. \A d : ~InSend(t, d) /\ ~InSend(t, d)'
    BY <1>1, <1>2 DEF InSend
  <2> QED
    BY <1>2, <2>1 DEF InJob
<1> QED
  BY <1>1, <1>2, <1>3, HolderQuiet

LEMMA HolderSyncReturns ==
    ASSUME TypeOK, HolderInv, Shape, NEW t \in Threads, Acts(t), SyncReturns(t)
    PROVE  HolderInv'
<1>0. pc[t] = "waiting"
  BY DEF SyncReturns
<1>2. PICK c \in Calls : c = job[t].call /\ call[c] # None
  <2>1. job[t] # None /\ job[t] \in Tasks
    BY <1>0 DEF Shape, Control, TypeOK
  <2> QED
    BY <2>1 DEF Shape, LocalRefs, Tasks
<1>1. /\ pc[t] = "waiting" /\ ctx[c] # "pending" /\ ctx' = [ctx EXCEPT ![c] = "freed"]
      /\ pc' = [pc EXCEPT ![t] = "loop"]
      /\ tasks' = tasks /\ active' = active /\ call' = call /\ send' = send
  BY <1>2 DEF SyncReturns
<1>3. /\ ctx'[c] = "freed" /\ \A d \in Calls : d # c => ctx'[d] = ctx[d]
      /\ pc'[t] = "loop"
  BY <1>1, <1>2 DEF TypeOK
<1>4. \A u \in Threads : \A d : /\ InActive(u, d)' <=> InActive(u, d)
                                /\ InJob(u, d)' <=> InJob(u, d)
                                /\ InSend(u, d)' <=> InSend(u, d)
  <2>1. \A d : ~InJob(t, d) /\ ~InJob(t, d)'
    BY <1>1, <1>3 DEF InJob
  <2>2. \A u \in Threads : \A d : u # t => (InJob(u, d)' <=> InJob(u, d))
    BY OthersStill
  <2> QED
    BY <1>1, <2>1, <2>2 DEF InActive, InSend
<1>5. \A d \in Calls : Still(d)
  BY <1>1, <1>4, QueuesStill DEF Still
<1>6. OnePlace(c)' /\ ContextOf(c)'
  <2>1. OnePlace(c) /\ ContextOf(c) /\ Still(c)
    BY <1>2, <1>5 DEF HolderInv
  <2>2. OnePlace(c)' /\ (Nowhere(c)' <=> Nowhere(c))
    BY <1>2, <2>1, StillOnePlace
  <2> QED
    BY <1>1, <1>2, <1>3, <2>1, <2>2 DEF ContextOf
<1>7. \A u \in Threads : OnceActive(u)' /\ \A q \in Queues : OnceQueued(u, q)'
  BY <1>1, QueuesStill DEF HolderInv, OnceActive
<1> QED
  BY <1>1, <1>3, <1>5, <1>6, <1>7, HolderBy

(* A task is taken to be run. *)
LEMMA HolderNextTask ==
    ASSUME TypeOK, HolderInv, Shape, NEW t \in Threads, Acts(t), NextTask(t)
    PROVE  HolderInv'
<1>t. pc \in [Threads -> PCs] /\ job \in [Threads -> Tasks \cup {None}]
  BY DEF TypeOK
<1>0. pc[t] = "drain" /\ send' = send /\ ctx' = ctx /\ call' = call /\ active' = active
  BY DEF NextTask
<1>1. PICK r \in Queues : r = cur[t]
  BY <1>0 DEF Shape, Control, Busy, TypeOK
<1>2. CASE tasks[t][r] = <<>>
  <2>1. tasks' = tasks /\ job' = job /\ pc'[t] # "run"
    BY <1>t, <1>1, <1>2 DEF NextTask
  <2>2. \A d : (InJob(t, d)' <=> InJob(t, d)) /\ (InSend(t, d)' <=> InSend(t, d))
    BY <1>0, <2>1 DEF InJob, InSend
  <2> QED
    BY <1>0, <2>1, <2>2, HolderQuiet
<1>3. CASE tasks[t][r] # <<>>
  <2>1. PICK task : task = Head(tasks[t][r])
    OBVIOUS
  <2>2. /\ job' = [job EXCEPT ![t] = task] /\ pc' = [pc EXCEPT ![t] = "run"]
        /\ tasks' = [tasks EXCEPT ![t][r] = Tail(@)]
    BY <1>1, <1>3, <2>1 DEF NextTask
  <2>3. OnceQueued(t, r)
    BY DEF HolderInv
  <2>4. PICK c \in Calls : c = task.call /\ InQueue(t, r, c)
    BY <1>3, <2>1, <2>2, <2>3, QueueTail
  <2>5. /\ OnceQueued(t, r)'
        /\ \A u \in Threads, q \in Queues : u # t \/ q # r => tasks'[u][q] = tasks[u][q]
        /\ \A d : InQueue(t, r, d)' <=> InQueue(t, r, d) /\ d # c
    BY <1>3, <2>1, <2>2, <2>3, <2>4, QueueTail
  <2>6. \A u \in Threads, q \in Queues : u # t \/ q # r =>
           /\ OnceQueued(u, q)' <=> OnceQueued(u, q)
           /\ \A d : InQueue(u, q, d)' <=> InQueue(u, q, d)
    BY <2>5 DEF OnceQueued, InQueue
  <2>7. OnlyQueue(c, t, r) /\ OnePlace(c) /\ ContextOf(c)
    BY <2>4, FoundOnly DEF HolderInv
  <2>8. \A d : ~InJob(t, d) /\ (InJob(t, d)' <=> d = c)
    BY <1>t, <1>0, <2>2, <2>4 DEF InJob
  <2>9. \A u \in Threads : \A d : /\ InActive(u, d)' <=> InActive(u, d)
                                  /\ InSend(u, d)' <=> InSend(u, d)
                                  /\ u # t => (InJob(u, d)' <=> InJob(u, d))
    BY <1>0, OthersStill DEF InActive, InSend
  <2>10. \A d \in Calls : d # c => Still(d)
    BY <2>5, <2>6, <2>8, <2>9 DEF Still
  <2>11. OnePlace(c)' /\ ContextOf(c)'
    <3>1. Unqueued(c)'
      BY <2>5, <2>6, <2>7 DEF OnlyQueue, Unqueued
    <3>2. OnlyJob(c, t)'
      BY <2>7, <2>8, <2>9, <3>1 DEF OnlyQueue, Idle, OnlyJob
    <3>3. ~Nowhere(c) /\ ~Nowhere(c)'
      BY <2>4, <2>8 DEF Nowhere, Idle, Unqueued
    <3> QED
      BY <1>0, <2>7, <3>2, <3>3 DEF OnePlace, ContextOf
  <2>12. \A u \in Threads : OnceActive(u)' /\ \A q \in Queues : OnceQueued(u, q)'
    BY <1>0, <2>5, <2>6 DEF HolderInv, OnceActive
  <2> QED
    BY <1>0, <2>10, <2>11, <2>12, HolderBy
<1> QED
  BY <1>2, <1>3

(* The function of a call is entered. *)
LEMMA HolderRun ==
    ASSUME TypeOK, HolderInv, Shape, NEW t \in Threads, Acts(t),
           NEW next \in {"drain", "finish", "exit"}, RunFunction(t, next)
    PROVE  HolderInv'
<1>t. /\ pc \in [Threads -> PCs] /\ job \in [Threads -> Tasks \cup {None}]
      /\ active \in [Threads -> Seq(Calls)]
  BY DEF TypeOK
<1>0. /\ pc[t] = "run" /\ pc'[t] # "run"
      /\ tasks' = tasks /\ send' = send /\ ctx' = ctx /\ call' = call
  BY <1>t DEF RunFunction
<1>1. PICK c \in Calls : c = job[t].call /\ call[c] # None
  <2>1. job[t] # None /\ job[t] \in Tasks
    BY <1>t, <1>0 DEF Shape, Control
  <2> QED
    BY <2>1 DEF Shape, LocalRefs, Tasks
<1>2. \A d : ~InJob(t, d)' /\ (InJob(t, d) <=> d = c)
  BY <1>0, <1>1 DEF InJob
<1>3. OnlyJob(c, t) /\ ContextOf(c) /\ OnceActive(t)
  BY <1>2, FoundOnly DEF HolderInv
<1>4. \A u \in Threads : \A d : /\ u # t => (InActive(u, d)' <=> InActive(u, d))
                                /\ InSend(u, d)' <=> InSend(u, d)
                                /\ u # t => (InJob(u, d)' <=> InJob(u, d))
  BY <1>0, OthersStill DEF InSend
<1>5. active' = IF call[c].kind # "async" THEN [active EXCEPT ![t] = Append(@, c)] ELSE active
  BY <1>1 DEF RunFunction
<1>6. /\ OnceActive(t)'
      /\ \A d : InActive(t, d)' <=> InActive(t, d) \/ (d = c /\ call[c].kind # "async")
  <2>1. CASE call[c].kind # "async"
    <3>1. ~InActive(t, c)
      BY <1>3 DEF OnlyJob
    <3> QED
      BY <1>3, <1>5, <2>1, <3>1, ActiveAppend
  <2>2. CASE call[c].kind = "async"
    BY <1>3, <1>5, <2>2 DEF OnceActive, InActive
  <2> QED
    BY <2>1, <2>2
<1>7. \A d \in Calls : d # c => Still(d)
  BY <1>0, <1>2, <1>4, <1>6, QueuesStill DEF Still
<1>8. OnePlace(c)' /\ ContextOf(c)'
  <2>1. Unqueued(c)' /\ \A u \in Threads : ~InJob(u, c)' /\ ~InSend(u, c)'
    BY <1>0, <1>2, <1>3, <1>4, QueuesStill DEF OnlyJob, Unqueued
  <2>2. CASE call[c].kind # "async"
    <3>1. OnlyActive(c, t)'
      BY <1>3, <1>4, <1>6, <2>1, <2>2 DEF OnlyJob, OnlyActive
    <3>2. ~Nowhere(c) /\ ~Nowhere(c)'
      BY <1>2, <1>6, <2>2 DEF Nowhere, Idle
    <3> QED
      BY <1>0, <1>3, <3>1, <3>2 DEF OnePlace, ContextOf
  <2>3. CASE call[c].kind = "async"
    <3>1. Nowhere(c)'
      BY <1>3, <1>4, <1>6, <2>1, <2>3 DEF OnlyJob, Nowhere, Idle
    <3> QED
      BY <1>0, <1>1, <2>3, <3>1 DEF OnePlace, ContextOf
  <2> QED
    BY <2>2, <2>3
<1>9. \A u \in Threads : OnceActive(u)' /\ \A q \in Queues : OnceQueued(u, q)'
  <2>1. \A u \in Threads : u # t => (OnceActive(u)' <=> OnceActive(u))
    BY OthersStill DEF OnceActive
  <2> QED
    BY <1>0, <1>6, <2>1, QueuesStill DEF HolderInv
<1> QED
  BY <1>0, <1>7, <1>8, <1>9, HolderBy

(* An answer is delivered, and the context freed. *)
LEMMA HolderAnswer ==
    ASSUME TypeOK, HolderInv, Shape, NEW t \in Threads, Acts(t), RunAnswer(t)
    PROVE  HolderInv'
<1>t. /\ pc \in [Threads -> PCs] /\ job \in [Threads -> Tasks \cup {None}]
      /\ ctx \in [Calls -> {"none", "pending", "done", "canceled", "freed"}]
  BY DEF TypeOK
<1>0. /\ pc[t] = "run" /\ pc'[t] # "run"
      /\ tasks' = tasks /\ send' = send /\ active' = active /\ call' = call
  BY <1>t DEF RunAnswer
<1>1. PICK c \in Calls : c = job[t].call /\ call[c] # None
  <2>1. job[t] # None /\ job[t] \in Tasks
    BY <1>t, <1>0 DEF Shape, Control
  <2> QED
    BY <2>1 DEF Shape, LocalRefs, Tasks
<1>2. \A d : ~InJob(t, d)' /\ (InJob(t, d) <=> d = c)
  BY <1>0, <1>1 DEF InJob
<1>3. OnlyJob(c, t)
  BY <1>2, FoundOnly DEF HolderInv
<1>4. \A u \in Threads : \A d : /\ InActive(u, d)' <=> InActive(u, d)
                                /\ InSend(u, d)' <=> InSend(u, d)
                                /\ u # t => (InJob(u, d)' <=> InJob(u, d))
  BY <1>0, OthersStill DEF InSend, InActive
<1>5. ctx'[c] = "freed" /\ \A d \in Calls : d # c => ctx'[d] = ctx[d]
  BY <1>t, <1>1 DEF RunAnswer
<1>7. \A d \in Calls : d # c => Still(d)
  BY <1>0, <1>2, <1>4, QueuesStill DEF Still
<1>8. OnePlace(c)' /\ ContextOf(c)'
  <2>1. Unqueued(c)' /\ \A u \in Threads : ~InActive(u, c)' /\ ~InJob(u, c)' /\ ~InSend(u, c)'
    BY <1>0, <1>2, <1>3, <1>4, QueuesStill DEF OnlyJob, Unqueued
  <2> QED
    BY <1>0, <1>1, <1>5, <2>1, LeftOrSent
<1>9. \A u \in Threads : OnceActive(u)' /\ \A q \in Queues : OnceQueued(u, q)'
  BY <1>0, QueuesStill DEF HolderInv, OnceActive
<1> QED
  BY <1>0, <1>5, <1>7, <1>8, <1>9, HolderBy

(* A new send of thread t is about one call. *)
LEMMA AnswerSent ==
    ASSUME TypeOK, NEW t \in Threads, NEW c \in Calls, call[c] # None,
           NEW fn \in {"callback", "cancel"},
           send' = [send EXCEPT ![t] = SendOf(call[c].queue, call[c].caller, fn, c)]
    PROVE  /\ send'[t] = SendOf(call[c].queue, call[c].caller, fn, c)
           /\ send'[t] # None /\ send'[t] \in Sends
           /\ send'[t].queue = call[c].queue /\ send'[t].task.call = c /\ send'[t].task.fn = fn
           /\ send'[t].at = "lookup"
           /\ \A d : InSend(t, d)' <=> d = c
<1>1. call[c].queue \in Queues /\ call[c].caller \in Threads
  BY CallIs
<1>2. send'[t] = SendOf(call[c].queue, call[c].caller, fn, c)
  BY DEF TypeOK
<1>3. SendOf(call[c].queue, call[c].caller, fn, c) \in Sends
  BY <1>1 DEF SendOf, Sends, SendSteps, Tasks
<1>4. send'[t] # None
  BY <1>2, <1>3, NoneIsNothing
<1>5. /\ send'[t].queue = call[c].queue /\ send'[t].task.call = c /\ send'[t].task.fn = fn
      /\ send'[t].at = "lookup"
  BY <1>2 DEF SendOf
<1> QED
  BY <1>2, <1>3, <1>4, <1>5 DEF InSend

(* emscripten_proxy_finish and cancel_ctx settle the context, or send its  *)
(* end to the caller.                                                      *)
LEMMA FinishIs ==
    ASSUME TypeOK, NEW t \in Threads, NEW c \in Calls, call[c] # None, call[c].kind # "async",
           send[t] = None, ctx[c] = "pending", FinishContext(t, c)
    PROVE  /\ \A d \in Calls : d # c => ctx'[d] = ctx[d]
           /\ \A d : InSend(t, d)' => d = c
           /\ ctx'[c] = "pending" <=> InSend(t, c)'
           /\ tasks' = tasks /\ call' = call /\ active' = [active EXCEPT ![t] = Without(@, c)]
<1>t. ctx \in [Calls -> {"none", "pending", "done", "canceled", "freed"}]
  BY DEF TypeOK
<1>1. CASE call[c].kind = "sync"
  <2>1. ctx' = [ctx EXCEPT ![c] = "done"] /\ send' = send
    BY <1>1 DEF FinishContext
  <2>2. \A d : ~InSend(t, d)'
    BY <2>1 DEF InSend
  <2> QED
    BY <1>t, <2>1, <2>2 DEF FinishContext
<1>2. CASE call[c].kind # "sync"
  <2>1. ctx' = ctx /\ send' = [send EXCEPT ![t] = SendOf(call[c].queue, call[c].caller, "callback", c)]
    BY <1>2 DEF FinishContext
  <2>2. \A d : InSend(t, d)' <=> d = c
    BY <2>1, AnswerSent
  <2> QED
    BY <2>1, <2>2 DEF FinishContext
<1> QED
  BY <1>1, <1>2

LEMMA CancelIs ==
    ASSUME TypeOK, NEW t \in Threads, NEW c \in Calls, call[c] # None,
           send[t] = None, ctx[c] = "pending", CancelCtx(t, c)
    PROVE  /\ \A d \in Calls : d # c => ctx'[d] = ctx[d]
           /\ \A d : InSend(t, d)' => d = c
           /\ ctx'[c] = "pending" <=> InSend(t, c)'
           /\ call[c].kind # "async"
<1>t. ctx \in [Calls -> {"none", "pending", "done", "canceled", "freed"}]
  BY DEF TypeOK
<1>1. CASE call[c].kind # "callback"
  <2>1. PICK s \in {"canceled", "freed"} : ctx' = [ctx EXCEPT ![c] = s] /\ send' = send
    BY <1>1 DEF CancelCtx
  <2>2. \A d : ~InSend(t, d)'
    BY <2>1 DEF InSend
  <2>3. ctx'[c] = s /\ s # "pending" /\ \A d \in Calls : d # c => ctx'[d] = ctx[d]
    BY <1>t, <2>1
  <2> QED
    BY <1>1, <2>2, <2>3 DEF CancelCtx
<1>2. CASE call[c].kind = "callback"
  <2>1. ctx' = ctx /\ send' = [send EXCEPT ![t] = SendOf(call[c].queue, call[c].caller, "cancel", c)]
    BY <1>2 DEF CancelCtx
  <2>2. \A d : InSend(t, d)' <=> d = c
    BY <2>1, AnswerSent
  <2> QED
    BY <1>2, <2>1, <2>2
<1> QED
  BY <1>1, <1>2

(* A context leaves the list of active ones. *)
LEMMA HolderLeavesActive ==
    ASSUME TypeOK, HolderInv, NEW t \in Threads, Acts(t), NEW c \in Calls, call[c] # None,
           InActive(t, c), send[t] = None, tasks' = tasks, call' = call,
           OnceActive(t)', \A d : InActive(t, d)' <=> InActive(t, d) /\ d # c,
           \A d : InJob(t, d)' <=> InJob(t, d),
           \A d \in Calls : d # c => ctx'[d] = ctx[d],
           \A d : InSend(t, d)' => d = c,
           ctx'[c] = "pending" <=> InSend(t, c)'
    PROVE  HolderInv'
<1>1. OnlyActive(c, t)
  BY FoundOnly DEF HolderInv
<1>2. \A u \in Threads : u # t =>
         /\ OnceActive(u)' <=> OnceActive(u)
         /\ \A d : /\ InActive(u, d)' <=> InActive(u, d)
                   /\ InSend(u, d)' <=> InSend(u, d)
                   /\ InJob(u, d)' <=> InJob(u, d)
  BY OthersStill DEF OnceActive
<1>3. \A d : ~InSend(t, d)
  BY DEF InSend
<1>4. \A d \in Calls : d # c => Still(d)
  BY <1>2, <1>3, QueuesStill DEF Still
<1>5. OnePlace(c)' /\ ContextOf(c)'
  <2>1. Unqueued(c)' /\ \A u \in Threads : ~InActive(u, c)' /\ ~InJob(u, c)'
    BY <1>1, <1>2, QueuesStill DEF OnlyActive, Unqueued
  <2>2. \A u \in Threads : InSend(u, c)' => u = t
    BY <1>1, <1>2 DEF OnlyActive
  <2> QED
    BY <2>1, <2>2, LeftOrSent
<1>6. \A u \in Threads : OnceActive(u)' /\ \A q \in Queues : OnceQueued(u, q)'
  BY <1>2, QueuesStill DEF HolderInv
<1> QED
  BY <1>4, <1>5, <1>6, HolderBy

LEMMA HolderFinish ==
    ASSUME TypeOK, HolderInv, Shape, NEW t \in Threads, Acts(t),
           FinishInTask(t) \/ \E c \in Calls : FinishLater(t, c)
    PROVE  HolderInv'
<1>t. pc \in [Threads -> PCs] /\ job \in [Threads -> Tasks \cup {None}]
  BY DEF TypeOK
<1>0. Control(t) /\ LocalRefs(t)
  BY DEF Shape
<1>1. PICK c \in Calls : FinishContext(t, c) /\ InActive(t, c) /\ send[t] = None
  <2>1. CASE FinishInTask(t)
    <3>1. pc[t] = "finish" /\ FinishContext(t, job[t].call)
      BY <2>1 DEF FinishInTask
    <3>2. job[t] # None /\ send[t] = None /\ InActive(t, job[t].call)
      BY <1>0, <3>1 DEF Control, LocalRefs
    <3>3. job[t].call \in Calls
      BY <1>t, <3>2 DEF Tasks
    <3> QED
      BY <3>1, <3>2, <3>3
  <2>2. CASE \E c \in Calls : FinishLater(t, c)
    BY <2>2 DEF FinishLater, InActive
  <2> QED
    BY <2>1, <2>2
<1>2. pc[t] # "run" /\ pc'[t] # "run"
  BY <1>t DEF FinishInTask, FinishLater
<1>3. call[c] # None /\ call[c].kind # "async"
  BY <1>0, <1>1 DEF LocalRefs, InActive
<1>4. ctx[c] = "pending"
  <2>1. ~Nowhere(c)
    BY <1>1 DEF Nowhere, Idle
  <2> QED
    BY <1>3, <2>1 DEF HolderInv, ContextOf
<1>5. /\ \A d \in Calls : d # c => ctx'[d] = ctx[d]
      /\ \A d : InSend(t, d)' => d = c
      /\ ctx'[c] = "pending" <=> InSend(t, c)'
      /\ tasks' = tasks /\ call' = call /\ active' = [active EXCEPT ![t] = Without(@, c)]
  BY <1>1, <1>3, <1>4, FinishIs
<1>6. OnceActive(t)' /\ \A d : InActive(t, d)' <=> InActive(t, d) /\ d # c
  BY <1>1, <1>5, ActiveWithout DEF HolderInv
<1>7. \A d : InJob(t, d)' <=> InJob(t, d)
  BY <1>2 DEF InJob
<1> QED
  BY <1>1, <1>3, <1>5, <1>6, <1>7, HolderLeavesActive

LEMMA HolderCancelActive ==
    ASSUME TypeOK, HolderInv, Shape, NEW t \in Threads, Acts(t), CancelActive(t)
    PROVE  HolderInv'
<1>t. pc \in [Threads -> PCs]
  BY DEF TypeOK
<1>0. /\ pc[t] = "dtors" /\ pc'[t] # "run" /\ send[t] = None
      /\ tasks' = tasks /\ call' = call /\ job' = job
  BY <1>t DEF CancelActive
<1>7. \A d : InJob(t, d)' <=> InJob(t, d)
  BY <1>0 DEF InJob
<1>1. CASE active[t] = <<>>
  <2>1. ctx' = ctx /\ active' = active /\ send' = send
    BY <1>1 DEF CancelActive
  <2>2. \A d : InSend(t, d)' <=> InSend(t, d)
    BY <2>1 DEF InSend
  <2> QED
    BY <1>0, <1>7, <2>1, <2>2, HolderQuiet
<1>2. CASE active[t] # <<>>
  <2>1. active' = [active EXCEPT ![t] = Tail(@)] /\ CancelCtx(t, Head(active[t]))
    BY <1>2 DEF CancelActive
  <2>2. PICK c \in Calls : c = Head(active[t]) /\ InActive(t, c)
    BY <1>2, <2>1, ActiveTail DEF HolderInv
  <2>3. OnceActive(t)' /\ \A d : InActive(t, d)' <=> InActive(t, d) /\ d # c
    BY <1>2, <2>1, <2>2, ActiveTail DEF HolderInv
  <2>4. call[c] # None /\ call[c].kind # "async"
    BY <2>2 DEF Shape, LocalRefs, InActive
  <2>5. ctx[c] = "pending"
    <3>1. ~Nowhere(c)
      BY <2>2 DEF Nowhere, Idle
    <3> QED
      BY <2>4, <3>1 DEF HolderInv, ContextOf
  <2>6. /\ \A d \in Calls : d # c => ctx'[d] = ctx[d]
        /\ \A d : InSend(t, d)' => d = c
        /\ ctx'[c] = "pending" <=> InSend(t, c)'
    BY <1>0, <2>1, <2>2, <2>4, <2>5, CancelIs
  <2> QED
    BY <1>0, <1>7, <2>2, <2>3, <2>4, <2>6, HolderLeavesActive
<1> QED
  BY <1>1, <1>2

(* What the cancel handler of a queued task does. *)
LEMMA CancelTaskIs ==
    ASSUME TypeOK, NEW t \in Threads, NEW task \in Tasks, NEW c \in Calls, c = task.call,
           call[c] # None, send[t] = None,
           call[c].kind # "async" => ctx[c] = "pending", CancelTask(t, task)
    PROVE  /\ \A d \in Calls : d # c => ctx'[d] = ctx[d]
           /\ \A d : InSend(t, d)' => d = c
           /\ call[c].kind # "async" => (ctx'[c] = "pending" <=> InSend(t, c)')
<1>t. ctx \in [Calls -> {"none", "pending", "done", "canceled", "freed"}]
  BY DEF TypeOK
<1>1. CASE CancelCtx(t, c)
  <2>1. call[c].kind # "async"
    BY <1>1 DEF CancelCtx
  <2> QED
    BY <1>1, <2>1, CancelIs
<1>2. CASE call[c].kind = "async" /\ ctx' = ctx /\ send' = send
  BY <1>2 DEF InSend
<1>3. CASE ctx' = [ctx EXCEPT ![c] = "freed"] /\ send' = send
  BY <1>t, <1>3 DEF InSend
<1> QED
  BY <1>1, <1>2, <1>3 DEF CancelTask

LEMMA HolderCancelTasks ==
    ASSUME TypeOK, HolderInv, Shape, NEW t \in Threads, Acts(t), CancelTasks(t)
    PROVE  HolderInv'
<1>t. pc \in [Threads -> PCs]
  BY DEF TypeOK
<1>0. /\ pc[t] = "cancelTasks" /\ pc'[t] # "run" /\ send[t] = None
      /\ active' = active /\ call' = call /\ job' = job
  BY <1>t DEF CancelTasks
<1>7. \A d : InJob(t, d)' <=> InJob(t, d)
  BY <1>0 DEF InJob
<1>r. PICK r \in Queues : r = cur[t]
  BY <1>0 DEF Shape, Control, Busy, TypeOK
<1>1. CASE tasks[t][r] = <<>>
  <2>1. ctx' = ctx /\ tasks' = tasks /\ send' = send
    BY <1>1, <1>r DEF CancelTasks
  <2>2. \A d : InSend(t, d)' <=> InSend(t, d)
    BY <2>1 DEF InSend
  <2> QED
    BY <1>0, <1>7, <2>1, <2>2, HolderQuiet
<1>2. CASE tasks[t][r] # <<>>
  <2>1. PICK task : task = Head(tasks[t][r])
    OBVIOUS
  <2>2. CancelTask(t, task) /\ tasks' = [tasks EXCEPT ![t][r] = Tail(@)]
    BY <1>r, <1>2, <2>1 DEF CancelTasks
  <2>3. OnceQueued(t, r)
    BY DEF HolderInv
  <2>4. PICK c \in Calls : c = task.call /\ InQueue(t, r, c) /\ task \in Tasks
    BY <1>2, <2>1, <2>2, <2>3, QueueTail
  <2>5. /\ OnceQueued(t, r)'
        /\ \A u \in Threads, q \in Queues : u # t \/ q # r => tasks'[u][q] = tasks[u][q]
        /\ \A d : InQueue(t, r, d)' <=> InQueue(t, r, d) /\ d # c
    BY <1>2, <2>1, <2>2, <2>3, <2>4, QueueTail
  <2>6. \A u \in Threads, q \in Queues : u # t \/ q # r =>
           /\ OnceQueued(u, q)' <=> OnceQueued(u, q)
           /\ \A d : InQueue(u, q, d)' <=> InQueue(u, q, d)
    BY <2>5 DEF OnceQueued, InQueue
  <2>7. OnlyQueue(c, t, r) /\ OnePlace(c) /\ ContextOf(c) /\ ~Nowhere(c)
    BY <2>4, FoundOnly DEF HolderInv, Nowhere, Unqueued
  <2>8. call[c] # None
    BY <2>4 DEF Shape, QueueRefs, InQueue
  <2>9. /\ \A d \in Calls : d # c => ctx'[d] = ctx[d]
        /\ \A d : InSend(t, d)' => d = c
        /\ call[c].kind # "async" => (ctx'[c] = "pending" <=> InSend(t, c)')
    BY <1>0, <2>2, <2>4, <2>7, <2>8, CancelTaskIs DEF ContextOf
  <2>10. \A u \in Threads : \A d : /\ InActive(u, d)' <=> InActive(u, d)
                                   /\ InJob(u, d)' <=> InJob(u, d)
                                   /\ u # t => (InSend(u, d)' <=> InSend(u, d))
    BY <1>0, <1>7, OthersStill DEF InActive
  <2>11. \A d : ~InSend(t, d)
    BY <1>0 DEF InSend
  <2>12. \A d \in Calls : d # c => Still(d)
    BY <2>5, <2>6, <2>9, <2>10, <2>11 DEF Still
  <2>13. OnePlace(c)' /\ ContextOf(c)'
    <3>1. Unqueued(c)'
      BY <2>5, <2>6, <2>7 DEF OnlyQueue, Unqueued
    <3>2. \A u \in Threads : ~InActive(u, c)' /\ ~InJob(u, c)' /\ (InSend(u, c)' => u = t)
      BY <2>7, <2>10 DEF OnlyQueue, Idle
    <3> QED
      BY <1>0, <2>8, <2>9, <3>1, <3>2, LeftOrSent
  <2>14. \A u \in Threads : OnceActive(u)' /\ \A q \in Queues : OnceQueued(u, q)'
    BY <1>0, <2>5, <2>6 DEF HolderInv, OnceActive
  <2> QED
    BY <1>0, <2>9, <2>12, <2>13, <2>14, HolderBy
<1> QED
  BY <1>1, <1>2

LEMMA HolderInit == Init => HolderInv
<1> SUFFICES ASSUME Init PROVE HolderInv
  OBVIOUS
<1>1. \A u \in Threads, q \in Queues : tasks[u][q] = <<>>
  BY DEF Init
<1>2. \A u \in Threads : active[u] = <<>> /\ pc[u] = "starting" /\ send[u] = None
  BY DEF Init
<1>3. \A d : Nowhere(d)
  BY <1>1, <1>2 DEF Nowhere, Idle, Unqueued, InQueue, InActive, InJob, InSend
<1>4. \A d \in Calls : ctx[d] = "none" /\ call[d] = None
  BY DEF Init
<1> QED
  BY <1>1, <1>2, <1>3, <1>4 DEF HolderInv, OnePlace, ContextOf, OnceActive, OnceQueued

LEMMA HolderFrame ==
    ASSUME HolderInv, UNCHANGED <<tasks, active, pc, job, send, ctx, call>>
    PROVE  HolderInv'
<1>1. \A u \in Threads : \A d : /\ InActive(u, d)' <=> InActive(u, d)
                                /\ InJob(u, d)' <=> InJob(u, d)
                                /\ InSend(u, d)' <=> InSend(u, d)
  BY DEF InActive, InJob, InSend
<1>2. \A d \in Calls : Still(d)
  BY <1>1, QueuesStill DEF Still
<1>3. \A u \in Threads : OnceActive(u)' /\ \A q \in Queues : OnceQueued(u, q)'
  BY QueuesStill DEF HolderInv, OnceActive
<1>4. \E c : c \notin Calls
  <2>1. -1 \notin Calls
    BY ProxyingAssumption DEF Calls
  <2> QED
    BY <2>1
<1> QED
  BY <1>2, <1>3, <1>4, HolderBy

LEMMA HolderNext == TypeOK /\ Shape /\ HolderInv /\ [Next]_vars => HolderInv'
<1> SUFFICES ASSUME TypeOK, Shape, HolderInv, [Next]_vars PROVE HolderInv'
  OBVIOUS
<1>1. CASE UNCHANGED vars
  BY <1>1, HolderFrame DEF vars
<1>2. ASSUME NEW q \in Queues, DestroyQueue(q) PROVE HolderInv'
  BY <1>2, HolderFrame DEF DestroyQueue
<1>3. ASSUME NEW t \in Threads, Acts(t) PROVE HolderInv'
  <2>1. CASE SendStep(t)
    <3>1. CASE Unref(t)
      BY <1>3, <3>1, HolderSendFails, HolderSendSucceeds
    <3> QED
      BY <1>3, <2>1, <3>1, HolderSending, HolderEnqueue, HolderSendFails DEF SendStep
  <2>2. CASE SyncReturns(t)
    BY <1>3, <2>2, HolderSyncReturns
  <2>3. CASE ReceiveStep(t)
    BY <1>3, <2>3, HolderNotices, HolderNextTask, HolderFinish, HolderAnswer, HolderRun DEF ReceiveStep
  <2>4. CASE ExitStep(t)
    BY <1>3, <2>4, HolderNotices, HolderCancelTasks, HolderCancelActive DEF ExitStep
  <2>5. CASE ExitInTask(t)
    BY <1>3, <2>5, HolderRun DEF ExitInTask
  <2>6. CASE Exit(t) \/ (\E q \in Queues : ExecuteQueue(t, q)) \/ \E same \in BOOLEAN : Reuse(t, same)
    BY <1>3, <2>6, HolderNotices
  <2>7. CASE \E c \in Calls : FinishLater(t, c)
    BY <1>3, <2>7, HolderFinish
  <2>8. CASE \E s \in Servers, q \in Queues, k \in Kinds, c \in Calls :
                t \in Clients /\ (Issue(t, s, q, k, c) \/ IssueFails(t, s, q, k, c))
    BY <1>3, <2>8, HolderIssue
  <2> QED
    BY <1>3, <2>1, <2>2, <2>3, <2>4, <2>5, <2>6, <2>7, <2>8 DEF Acts, ThreadStep
<1> QED
  BY <1>1, <1>2, <1>3, NextIs

(***************************************************************************)
(* The theorem of the contexts.                                            *)
(***************************************************************************)

HoldInv == CountInv /\ HolderInv

LEMMA HoldInvariant == Spec => []HoldInv
<1>1. Init => HoldInv
  BY TypeInit, ShapeInit, RefInit, HolderInit DEF HoldInv, CountInv
<1>2. HoldInv /\ [Next]_vars => HoldInv'
  BY TypeStep, ShapeStep, RefNext, HolderNext DEF HoldInv, CountInv
<1> QED
  BY <1>1, <1>2, PTL DEF Spec

LEMMA HoldersAre ==
    ASSUME TypeOK, NEW c \in Calls
    PROVE  \A x : x \in Holders(c) <=>
              \/ \E t \in Threads, q \in Queues : \E i \in 1 .. Len(tasks[t][q]) :
                    tasks[t][q][i].call = c /\ x = <<"queue", t, q, i>>
              \/ \E t \in Threads : \E i \in 1 .. Len(active[t]) :
                    active[t][i] = c /\ x = <<"active", t, i>>
              \/ \E t \in Threads : InJob(t, c) /\ x = <<"job", t>>
              \/ \E t \in Threads : InSend(t, c) /\ x = <<"send", t>>
<1> DEFINE A == UNION {{<<"queue", t, q, i>> : i \in {j \in 1 .. Len(tasks[t][q]) :
                            tasks[t][q][j].call = c}} : t \in Threads, q \in Queues}
           B == UNION {{<<"active", t, i>> : i \in {j \in 1 .. Len(active[t]) : active[t][j] = c}}
                   : t \in Threads}
           C == {<<"job", t>> : t \in {u \in Threads : pc[u] = "run" /\ job[u].call = c}}
           D == {<<"send", t>> : t \in {u \in Threads :
                   /\ send[u] # None /\ send[u].task.call = c
                   /\ send[u].at \in {"lookup", "ref", "enqueue"} \/ ~send[u].ok}}
<1>1. Holders(c) = A \cup B \cup C \cup D
  BY DEF Holders, A, B, C, D
<1>2. \A x : x \in A <=> \E t \in Threads, q \in Queues : \E i \in 1 .. Len(tasks[t][q]) :
                            tasks[t][q][i].call = c /\ x = <<"queue", t, q, i>>
  <2> DEFINE part(t, q) == {<<"queue", t, q, i>> : i \in {j \in 1 .. Len(tasks[t][q]) :
                              tasks[t][q][j].call = c}}
  <2>1. A = UNION {part(t, q) : t \in Threads, q \in Queues}
    BY DEF A, part
  <2>2. \A t, q, x : x \in part(t, q) <=> \E i \in 1 .. Len(tasks[t][q]) :
                       tasks[t][q][i].call = c /\ x = <<"queue", t, q, i>>
    OBVIOUS
  <2> HIDE DEF part, A
  <2>3. \A x : x \in UNION {part(t, q) : t \in Threads, q \in Queues}
              <=> \E t \in Threads, q \in Queues : x \in part(t, q)
    OBVIOUS
  <2> QED
    BY <2>1, <2>2, <2>3
<1>3. \A x : x \in B <=> \E t \in Threads : \E i \in 1 .. Len(active[t]) :
                            active[t][i] = c /\ x = <<"active", t, i>>
  OBVIOUS
<1>4. \A x : x \in C <=> \E t \in Threads : InJob(t, c) /\ x = <<"job", t>>
  BY DEF InJob
<1>5. \A t \in Threads : send[t] # None => (~send[t].ok <=> send[t].ok = FALSE)
  BY SendIs
<1>6. \A x : x \in D <=> \E t \in Threads : InSend(t, c) /\ x = <<"send", t>>
  BY <1>5 DEF InSend
<1> HIDE DEF A, B, C, D
<1> QED
  BY <1>1, <1>2, <1>3, <1>4, <1>6

(* emscripten_proxy_finish, cancel_ctx and the free_ctx of every error     *)
(* path: the context of a call has one owner while its caller waits for it *)
(* or for its answer, and none once it is settled.                         *)
THEOREM ContextsHaveOneHolder == Spec => []ContextHasOneHolder
<1>1. HoldInv => ContextHasOneHolder
  <2> SUFFICES ASSUME HoldInv, NEW c \in Calls, call[c] # None, call[c].kind # "async"
               PROVE  Cardinality(Holders(c)) = IF ctx[c] = "pending" THEN 1 ELSE 0
    BY DEF ContextHasOneHolder
  <2>1. TypeOK /\ OnePlace(c) /\ ContextOf(c)
    BY DEF HoldInv, CountInv, HolderInv
  <2>2. ctx[c] = "pending" <=> ~Nowhere(c)
    BY <2>1 DEF ContextOf
  <2>3. CASE Nowhere(c)
    <3>1. Holders(c) = {}
      BY <2>1, <2>3, HoldersAre DEF Nowhere, Idle, Unqueued, InQueue, InActive
    <3> QED
      BY <2>2, <2>3, <3>1, FS_EmptySet
  <2>5. CASE \E u \in Threads, r \in Queues : OnlyQueue(c, u, r)
    <3>1. PICK u \in Threads, r \in Queues : OnlyQueue(c, u, r)
      BY <2>5
    <3>2. PICK i \in 1 .. Len(tasks[u][r]) : tasks[u][r][i].call = c
      BY <3>1 DEF OnlyQueue, InQueue
    <3>3. \A t \in Threads, q \in Queues : \A j \in 1 .. Len(tasks[t][q]) :
             tasks[t][q][j].call = c => t = u /\ q = r /\ j = i
      <4>1. OnceQueued(u, r)
        BY DEF HoldInv, HolderInv
      <4> QED
        BY <3>1, <3>2, <4>1 DEF OnlyQueue, InQueue, OnceQueued
    <3>4. \A x : x \in Holders(c) <=> x = <<"queue", u, r, i>>
      BY <2>1, <3>1, <3>2, <3>3, HoldersAre DEF OnlyQueue, Idle, InActive
    <3>5. ~Nowhere(c)
      BY <3>1 DEF OnlyQueue, Nowhere, Unqueued
    <3>6. Holders(c) = {<<"queue", u, r, i>>}
      BY <3>4
    <3> QED
      BY <2>2, <3>5, <3>6, FS_Singleton
  <2>6. CASE \E u \in Threads : OnlyActive(c, u)
    <3>1. PICK u \in Threads : OnlyActive(c, u)
      BY <2>6
    <3>2. PICK i \in 1 .. Len(active[u]) : active[u][i] = c
      BY <3>1 DEF OnlyActive, InActive
    <3>3. \A t \in Threads : \A j \in 1 .. Len(active[t]) : active[t][j] = c => t = u /\ j = i
      <4>1. OnceActive(u)
        BY DEF HoldInv, HolderInv
      <4> QED
        BY <3>1, <3>2, <4>1 DEF OnlyActive, InActive, OnceActive
    <3>4. \A x : x \in Holders(c) <=> x = <<"active", u, i>>
      BY <2>1, <3>1, <3>2, <3>3, HoldersAre DEF OnlyActive, Unqueued, InQueue
    <3>5. ~Nowhere(c)
      BY <3>1 DEF OnlyActive, Nowhere, Idle
    <3>6. Holders(c) = {<<"active", u, i>>}
      BY <3>4
    <3> QED
      BY <2>2, <3>5, <3>6, FS_Singleton
  <2>7. CASE \E u \in Threads : OnlyJob(c, u)
    <3>1. PICK u \in Threads : OnlyJob(c, u)
      BY <2>7
    <3>4. \A x : x \in Holders(c) <=> x = <<"job", u>>
      BY <2>1, <3>1, HoldersAre DEF OnlyJob, Unqueued, InQueue, InActive
    <3>5. ~Nowhere(c)
      BY <3>1 DEF OnlyJob, Nowhere, Idle
    <3>6. Holders(c) = {<<"job", u>>}
      BY <3>4
    <3> QED
      BY <2>2, <3>5, <3>6, FS_Singleton
  <2>8. CASE \E u \in Threads : OnlySend(c, u)
    <3>1. PICK u \in Threads : OnlySend(c, u)
      BY <2>8
    <3>4. \A x : x \in Holders(c) <=> x = <<"send", u>>
      BY <2>1, <3>1, HoldersAre DEF OnlySend, Unqueued, InQueue, InActive
    <3>5. ~Nowhere(c)
      BY <3>1 DEF OnlySend, Nowhere, Idle
    <3>6. Holders(c) = {<<"send", u>>}
      BY <3>4
    <3> QED
      BY <2>2, <3>5, <3>6, FS_Singleton
  <2> QED
    BY <2>1, <2>3, <2>5, <2>6, <2>7, <2>8 DEF OnePlace
<1> QED
  BY <1>1, HoldInvariant, PTL

(***************************************************************************)
(* The contexts that a step settles.                                       *)
(***************************************************************************)

LEMMA PendingHeld ==
    ASSUME HolderInv, NEW c \in Calls, call[c] # None, call[c].kind # "async", ~Nowhere(c)
    PROVE  ctx[c] = "pending"
  BY DEF HolderInv, ContextOf

LEMMA FinishOf ==
    ASSUME TypeOK, HolderInv, Shape, NEW t \in Threads,
           FinishInTask(t) \/ \E c \in Calls : FinishLater(t, c)
    PROVE  \E c \in Calls :
              /\ FinishContext(t, c) /\ InActive(t, c) /\ send[t] = None
              /\ call[c] # None /\ call[c].kind # "async" /\ ctx[c] = "pending"
              /\ FinishInTask(t) => c = job[t].call
<1>0. Control(t) /\ LocalRefs(t)
  BY DEF Shape
<1>1. PICK c \in Calls : /\ FinishContext(t, c) /\ InActive(t, c) /\ send[t] = None
                         /\ FinishInTask(t) => c = job[t].call
  <2>1. CASE FinishInTask(t)
    <3>1. pc[t] = "finish" /\ FinishContext(t, job[t].call)
      BY <2>1 DEF FinishInTask
    <3>2. job[t] # None /\ send[t] = None /\ InActive(t, job[t].call)
      BY <1>0, <3>1 DEF Control, LocalRefs
    <3>3. job[t].call \in Calls
      BY <3>2, MadeKept DEF TypeOK, Tasks
    <3> QED
      BY <3>1, <3>2, <3>3
  <2>2. CASE ~FinishInTask(t)
    BY <2>2 DEF FinishLater, InActive
  <2> QED
    BY <2>1, <2>2
<1>2. call[c] # None /\ call[c].kind # "async"
  BY <1>0, <1>1 DEF LocalRefs, InActive
<1>3. ~Nowhere(c)
  BY <1>1 DEF Nowhere, Idle
<1> QED
  BY <1>1, <1>2, <1>3, PendingHeld

LEMMA CancelActiveOf ==
    ASSUME TypeOK, HolderInv, Shape, NEW t \in Threads, CancelActive(t), active[t] # <<>>
    PROVE  \E c \in Calls :
              /\ CancelCtx(t, c) /\ InActive(t, c) /\ send[t] = None
              /\ call[c] # None /\ call[c].kind # "async" /\ ctx[c] = "pending"
<1>1. CancelCtx(t, Head(active[t])) /\ send[t] = None /\ active' = [active EXCEPT ![t] = Tail(@)]
  BY DEF CancelActive
<1>2. PICK c \in Calls : c = Head(active[t]) /\ InActive(t, c)
  BY <1>1, ActiveTail DEF HolderInv
<1>3. call[c] # None /\ call[c].kind # "async" /\ ~Nowhere(c)
  BY <1>2 DEF Shape, LocalRefs, InActive, Nowhere, Idle
<1> QED
  BY <1>1, <1>2, <1>3, PendingHeld

LEMMA CancelTasksOf ==
    ASSUME TypeOK, HolderInv, Shape, NEW t \in Threads, CancelTasks(t)
    PROVE  /\ cur[t] \in Queues
           /\ tasks[t][cur[t]] # <<>> =>
                \E task \in Tasks, c \in Calls :
                   /\ c = task.call /\ InQueue(t, cur[t], c) /\ send[t] = None
                   /\ \E i \in 1 .. Len(tasks[t][cur[t]]) : tasks[t][cur[t]][i] = task
                   /\ CancelTask(t, task) /\ tasks' = [tasks EXCEPT ![t][cur[t]] = Tail(@)]
                   /\ call[c] # None /\ (call[c].kind # "async" => ctx[c] = "pending")
<1>1. PICK r \in Queues : r = cur[t]
  BY DEF CancelTasks, Shape, Control, Busy, TypeOK
<1>2. ASSUME tasks[t][r] # <<>>
      PROVE  \E task \in Tasks, c \in Calls :
                   /\ c = task.call /\ InQueue(t, r, c) /\ send[t] = None
                   /\ \E i \in 1 .. Len(tasks[t][r]) : tasks[t][r][i] = task
                   /\ CancelTask(t, task) /\ tasks' = [tasks EXCEPT ![t][r] = Tail(@)]
                   /\ call[c] # None /\ (call[c].kind # "async" => ctx[c] = "pending")
  <2>1. PICK task : task = Head(tasks[t][r])
    OBVIOUS
  <2>2. CancelTask(t, task) /\ tasks' = [tasks EXCEPT ![t][r] = Tail(@)] /\ send[t] = None
    BY <1>1, <1>2, <2>1 DEF CancelTasks
  <2>3. OnceQueued(t, r)
    BY DEF HolderInv
  <2>4. PICK c \in Calls : c = task.call /\ InQueue(t, r, c) /\ task \in Tasks
    BY <1>2, <2>1, <2>2, <2>3, QueueTail
  <2>5. call[c] # None /\ ~Nowhere(c)
    BY <2>4 DEF Shape, QueueRefs, InQueue, Nowhere, Unqueued
  <2>6. \E i \in 1 .. Len(tasks[t][r]) : tasks[t][r][i] = task
    <3>1. tasks[t][r] \in Seq(Tasks)
      BY DEF TypeOK
    <3> QED
      BY <1>2, <2>1, <3>1, TailIs
  <2> QED
    BY <2>2, <2>4, <2>5, <2>6, PendingHeld
<1> QED
  BY <1>1, <1>2

(* Only making a call sets up its context, only an end takes it away, and  *)
(* what is settled is settled.                                             *)
LEMMA CtxNext ==
    ASSUME TypeOK, HolderInv, Shape, NEW t \in Threads, Acts(t), NEW d \in Calls
    PROVE  \/ ctx'[d] = ctx[d]
           \/ ctx'[d] = "freed"
           \/ ctx'[d] \in {"done", "canceled"} /\ ctx[d] = "pending"
           \/ \E s \in Servers, q \in Queues, k \in Kinds : t \in Clients /\ Issue(t, s, q, k, d)
<1>t. ctx \in [Calls -> {"none", "pending", "done", "canceled", "freed"}]
  BY DEF TypeOK
<1>1. CASE SendStep(t)
  <2>1. CASE ctx' = ctx
    BY <2>1
  <2>2. CASE SendFails(t) /\ send[t] # None
    BY <1>t, <2>2, FailureIs, SendIs
  <2> QED
    BY <1>1, <2>1, <2>2 DEF SendStep, Lookup, LookupFails, Ref, RefRefused, Enqueue, EnqueueFails,
       Exchange, Post, ExchangeMailbox, Notify, Unref, SendSucceeds, AtSend
<1>2. CASE SyncReturns(t) \/ RunAnswer(t)
  <2>1. PICK c : ctx' = [ctx EXCEPT ![c] = "freed"]
    BY <1>2 DEF SyncReturns, RunAnswer
  <2> QED
    BY <1>t, <2>1
<1>3. CASE FinishInTask(t) \/ \E c \in Calls : FinishLater(t, c)
  <2>1. PICK c \in Calls : FinishContext(t, c) /\ ctx[c] = "pending"
    BY <1>3, FinishOf
  <2> QED
    BY <1>t, <2>1 DEF FinishContext
<1>c. ASSUME NEW c \in Calls, CancelCtx(t, c), ctx[c] = "pending"
      PROVE  \/ ctx'[d] = ctx[d] \/ ctx'[d] = "freed"
             \/ ctx'[d] \in {"done", "canceled"} /\ ctx[d] = "pending"
  BY <1>t, <1>c DEF CancelCtx
<1>4. CASE CancelActive(t)
  <2>1. CASE active[t] = <<>>
    BY <1>4, <2>1 DEF CancelActive
  <2>2. CASE active[t] # <<>>
    BY <1>4, <1>c, <2>2, CancelActiveOf
  <2> QED
    BY <2>1, <2>2
<1>5. CASE CancelTasks(t)
  <2>1. CASE tasks[t][cur[t]] = <<>>
    BY <1>5, <2>1 DEF CancelTasks
  <2>2. CASE tasks[t][cur[t]] # <<>>
    <3>1. PICK task \in Tasks, c \in Calls :
             c = task.call /\ CancelTask(t, task) /\ (call[c].kind # "async" => ctx[c] = "pending")
      BY <1>5, <2>2, CancelTasksOf
    <3>2. CASE CancelCtx(t, c)
      <4>1. call[c].kind # "async"
        BY <3>2 DEF CancelCtx
      <4> QED
        BY <1>c, <3>1, <3>2, <4>1
    <3>3. CASE ctx' = ctx \/ ctx' = [ctx EXCEPT ![c] = "freed"]
      BY <1>t, <3>3
    <3> QED
      BY <3>1, <3>2, <3>3 DEF CancelTask
  <2> QED
    BY <2>1, <2>2
<1>6. CASE \E s \in Servers, q \in Queues, k \in Kinds, c \in Calls :
              t \in Clients /\ (Issue(t, s, q, k, c) \/ IssueFails(t, s, q, k, c))
  <2>1. PICK s \in Servers, q \in Queues, k \in Kinds, c \in Calls :
           t \in Clients /\ (Issue(t, s, q, k, c) \/ IssueFails(t, s, q, k, c))
    BY <1>6
  <2>2. CASE c = d /\ Issue(t, s, q, k, c)
    BY <2>1, <2>2
  <2>3. CASE c # d \/ IssueFails(t, s, q, k, c)
    BY <1>t, <2>1, <2>3 DEF Issue, IssueFails
  <2> QED
    BY <2>1, <2>2, <2>3
<1>7. CASE ctx' = ctx
  BY <1>7
<1> QED
  <2>1. CASE ReceiveStep(t) /\ ~FinishInTask(t) /\ ~RunAnswer(t)
    BY <1>7, <2>1 DEF ReceiveStep, Start, CheckMailbox, LateWake, MailReceived, NextMail,
       ReceiveNotification, NextTask, RunFunction, QueueDone, MailDone
  <2>2. CASE ExitStep(t) /\ ~CancelTasks(t) /\ ~CancelActive(t)
    BY <1>7, <2>2 DEF ExitStep, CloseMailbox, MailboxClosed, CancelMail
  <2>3. CASE ExitInTask(t) \/ Exit(t) \/ (\E q \in Queues : ExecuteQueue(t, q))
               \/ (\E same \in BOOLEAN : Reuse(t, same))
    BY <1>7, <2>3 DEF ExitInTask, RunFunction, Exit, ExecuteQueue, Reuse
  <2> QED
    BY <1>1, <1>2, <1>3, <1>4, <1>5, <1>6, <2>1, <2>2, <2>3 DEF Acts, ThreadStep

(***************************************************************************)
(* Queues that are destroyed.                                              *)
(***************************************************************************)

LEMMA LifeInit == Init => LifeInv
<1> SUFFICES ASSUME Init PROVE LifeInv
  OBVIOUS
<1>1. \A t \in Threads : send[t] = None /\ cur[t] = None /\ pc[t] = "starting"
                           /\ \A q \in Queues : life[t][q] = "absent"
  BY DEF Init
<1>2. \A c \in Calls : call[c] = None
  BY DEF Init
<1> QED
  BY <1>1, <1>2 DEF LifeInv, SendOpen, CallOpen, LifeOf

LEMMA OpenKept ==
    ASSUME NEW t \in Threads, Acts(t)
    PROVE  queueOpen' = queueOpen
<1>1. CASE SendStep(t)
  BY <1>1 DEF SendStep, Lookup, LookupFails, Ref, RefRefused, Enqueue, EnqueueFails, Exchange, Post,
     ExchangeMailbox, Notify, Unref
<1>2. CASE SyncReturns(t) \/ ReceiveStep(t) \/ ExitStep(t)
  BY <1>2 DEF SyncReturns, ReceiveStep, Start, CheckMailbox, LateWake, MailReceived, NextMail,
     ReceiveNotification, NextTask, RunFunction, FinishInTask, FinishContext, RunAnswer, QueueDone,
     MailDone, ExitStep, CloseMailbox, MailboxClosed, CancelMail, CancelTasks, CancelActive
<1> QED
  BY <1>1, <1>2 DEF Acts, ThreadStep, ExitInTask, RunFunction, Exit, Issue, IssueFails, ExecuteQueue,
     FinishLater, FinishContext, Reuse

(* A send stays on its queue, and is only begun on a queue that is open. *)
LEMMA SendOpenNext ==
    ASSUME TypeOK, Shape, HolderInv, LifeInv, NEW t \in Threads, Acts(t), send'[t] # None
    PROVE  queueOpen[send'[t].queue] = TRUE
<1>t. send \in [Threads -> Sends \cup {None}]
  BY DEF TypeOK
<1>o. SendOpen(t)
  BY DEF LifeInv
<1>1. CASE SendStep(t)
  <2>0. send[t] # None
    BY <1>1 DEF SendStep, Lookup, LookupFails, Ref, RefRefused, Enqueue, EnqueueFails, Exchange, Post,
       ExchangeMailbox, Notify, Unref, AtSend
  <2>1. CASE EnqueueFails(t)
    BY <1>o, <2>0, <2>1, EnqueueFailsIs DEF SendOpen
  <2>2. CASE \E step \in SendSteps : GoSend(t, step)
    BY <1>o, <2>0, <2>2, GoSendIs DEF SendOpen
  <2>3. CASE SendFails(t) \/ SendSucceeds(t)
    BY <1>t, <2>3 DEF SendFails, SendSucceeds
  <2> QED
    BY <1>1, <2>1, <2>2, <2>3 DEF SendStep, Lookup, LookupFails, Ref, RefRefused, Enqueue, Exchange, Post,
       ExchangeMailbox, Notify, Unref, SendSteps
<1>2. CASE send'[t] = send[t]
  BY <1>o, <1>2 DEF SendOpen
<1>3. ASSUME NEW c \in Calls, call[c] # None, call[c].kind # "async", ctx[c] = "pending",
             NEW fn \in {"callback", "cancel"},
             send' = [send EXCEPT ![t] = SendOf(call[c].queue, call[c].caller, fn, c)]
      PROVE  queueOpen[send'[t].queue] = TRUE
  <2>1. CallOpen(c)
    BY DEF LifeInv
  <2>2. send'[t].queue = call[c].queue
    BY <1>3, AnswerSent
  <2> QED
    BY <1>3, <2>1, <2>2 DEF CallOpen
<1>4. CASE FinishInTask(t) \/ \E c \in Calls : FinishLater(t, c)
  <2>1. PICK c \in Calls : /\ FinishContext(t, c) /\ call[c] # None /\ call[c].kind # "async"
                           /\ ctx[c] = "pending"
    BY <1>4, FinishOf
  <2>2. send' = send \/ send' = [send EXCEPT ![t] = SendOf(call[c].queue, call[c].caller, "callback", c)]
    BY <2>1 DEF FinishContext
  <2> QED
    BY <1>2, <1>3, <2>1, <2>2
<1>c. ASSUME NEW c \in Calls, CancelCtx(t, c), call[c] # None, call[c].kind # "async", ctx[c] = "pending"
      PROVE  queueOpen[send'[t].queue] = TRUE
  <2>2. send' = send \/ send' = [send EXCEPT ![t] = SendOf(call[c].queue, call[c].caller, "cancel", c)]
    BY <1>c DEF CancelCtx
  <2> QED
    BY <1>2, <1>3, <1>c, <2>2
<1>5. CASE CancelActive(t)
  <2>1. CASE active[t] = <<>>
    BY <1>2, <1>5, <2>1 DEF CancelActive
  <2>2. CASE active[t] # <<>>
    BY <1>5, <1>c, <2>2, CancelActiveOf
  <2> QED
    BY <2>1, <2>2
<1>6. CASE CancelTasks(t)
  <2>1. CASE tasks[t][cur[t]] = <<>>
    BY <1>2, <1>6, <2>1 DEF CancelTasks
  <2>2. CASE tasks[t][cur[t]] # <<>>
    <3>1. PICK task \in Tasks, c \in Calls :
             /\ c = task.call /\ CancelTask(t, task) /\ call[c] # None
             /\ call[c].kind # "async" => ctx[c] = "pending"
      BY <1>6, <2>2, CancelTasksOf
    <3>2. CASE CancelCtx(t, c)
      <4>1. call[c].kind # "async"
        BY <3>2 DEF CancelCtx
      <4> QED
        BY <1>c, <3>1, <3>2, <4>1
    <3>3. CASE send' = send
      BY <1>2, <3>3
    <3> QED
      BY <3>1, <3>2, <3>3 DEF CancelTask
  <2> QED
    BY <2>1, <2>2
<1>7. CASE \E s \in Servers, q \in Queues, k \in Kinds, c \in Calls :
              t \in Clients /\ (Issue(t, s, q, k, c) \/ IssueFails(t, s, q, k, c))
  <2>1. PICK s \in Servers, q \in Queues, k \in Kinds, c \in Calls :
           t \in Clients /\ (Issue(t, s, q, k, c) \/ IssueFails(t, s, q, k, c))
    BY <1>7
  <2>2. CASE Issue(t, s, q, k, c)
    <3>1. send'[t] = SendOf(q, s, "func", c) /\ queueOpen[q] = TRUE
      BY <1>t, <2>2 DEF Issue, TypeOK
    <3> QED
      BY <3>1 DEF SendOf
  <2>3. CASE IssueFails(t, s, q, k, c)
    BY <1>2, <2>3 DEF IssueFails
  <2> QED
    BY <2>1, <2>2, <2>3
<1>8. CASE SyncReturns(t) \/ (ReceiveStep(t) /\ ~FinishInTask(t))
  BY <1>2, <1>8 DEF SyncReturns, ReceiveStep, Start, CheckMailbox, LateWake, MailReceived, NextMail,
     ReceiveNotification, NextTask, RunFunction, RunAnswer, QueueDone, MailDone
<1>9. CASE ExitStep(t) /\ ~CancelTasks(t) /\ ~CancelActive(t)
  BY <1>2, <1>9 DEF ExitStep, CloseMailbox, MailboxClosed, CancelMail
<1>10. CASE ExitInTask(t) \/ Exit(t) \/ (\E q \in Queues : ExecuteQueue(t, q))
               \/ (\E same \in BOOLEAN : Reuse(t, same))
  BY <1>2, <1>10 DEF ExitInTask, RunFunction, Exit, ExecuteQueue, Reuse
<1> QED
  BY <1>1, <1>4, <1>5, <1>6, <1>7, <1>8, <1>9, <1>10 DEF Acts, ThreadStep

LEMMA CallOpenNext ==
    ASSUME TypeOK, Shape, HolderInv, LifeInv, NEW t \in Threads, Acts(t), NEW c \in Calls
    PROVE  CallOpen(c)'
<1>o. queueOpen' = queueOpen
  BY OpenKept
<1>1. CASE \E s \in Servers, q \in Queues, k \in Kinds : t \in Clients /\ Issue(t, s, q, k, c)
  <2>1. PICK s \in Servers, q \in Queues, k \in Kinds : t \in Clients /\ Issue(t, s, q, k, c)
    BY <1>1
  <2>2. call'[c].queue = q /\ queueOpen[q] = TRUE
    BY <2>1 DEF Issue, TypeOK
  <2> QED
    BY <1>o, <2>2 DEF CallOpen
<1>2. CASE ~ \E s \in Servers, q \in Queues, k \in Kinds : t \in Clients /\ Issue(t, s, q, k, c)
  <2>1. ctx'[c] = ctx[c] \/ ctx'[c] = "freed" \/ (ctx'[c] \in {"done", "canceled"} /\ ctx[c] = "pending")
    BY <1>2, CtxNext
  <2>2. CASE call[c] = None
    BY <2>1, <2>2 DEF HolderInv, ContextOf, CallOpen
  <2>3. CASE call[c] # None
    <3>1. call'[c] = call[c]
      BY <2>3, CallsKept
    <3> QED
      BY <1>o, <2>1, <3>1 DEF LifeInv, CallOpen
  <2> QED
    BY <2>2, <2>3
<1> QED
  BY <1>1, <1>2

(* A queue is created by a send, and culled when no notification refers to *)
(* it.                                                                     *)
LEMMA LifeNextIs ==
    ASSUME TypeOK, NEW t \in Threads, Acts(t), NEW u \in Threads, NEW q \in Queues
    PROVE  \/ life'[u][q] = life[u][q]
           \/ life[u][q] = "zombie" /\ note[u][q] = "none" /\ life'[u][q] = "freed"
           \/ life'[u][q] = "live" /\ send[t] # None /\ q = send[t].queue
<1>c. ASSUME NEW l \in {life, Culled}
      PROVE  l[u][q] = life[u][q] \/ (life[u][q] = "zombie" /\ note[u][q] = "none" /\ l[u][q] = "freed")
  BY <1>c DEF Culled
<1>1. CASE Lookup(t)
  <2>0. send[t] # None /\ send[t].to \in Threads /\ send[t].queue \in Queues
    BY <1>1, SendIs DEF Lookup, AtSend
  <2>1. CASE life' = life
    BY <2>1
  <2>2. CASE life' # life
    <3>1. PICK l \in {life, Culled} : life' = [l EXCEPT ![send[t].to][send[t].queue] = "live"]
      BY <1>1, <2>2 DEF Lookup
    <3>2. l \in [Threads -> [Queues -> {"absent", "live", "zombie", "freed"}]]
      BY CulledType
    <3>3. CASE u = send[t].to /\ q = send[t].queue
      BY <2>0, <3>1, <3>2, <3>3
    <3>4. CASE ~(u = send[t].to /\ q = send[t].queue)
      <4>1. life'[u][q] = l[u][q]
        BY <2>0, <3>1, <3>2, <3>4
      <4> QED
        BY <1>c, <4>1
    <3> QED
      BY <3>3, <3>4
  <2> QED
    BY <2>1, <2>2
<1>2. CASE LookupFails(t) \/ (\E same \in BOOLEAN : Reuse(t, same))
  <2>1. PICK l \in {life, Culled} : life' = l
    BY <1>2 DEF LookupFails, Reuse
  <2> QED
    BY <1>c, <2>1
<1>3. CASE life' = life
  BY <1>3
<1> QED
  <2>1. CASE SendStep(t) /\ ~Lookup(t) /\ ~LookupFails(t)
    BY <1>3, <2>1 DEF SendStep, Ref, RefRefused, Enqueue, EnqueueFails, Exchange, Post,
       ExchangeMailbox, Notify, Unref
  <2>2. CASE SyncReturns(t) \/ ReceiveStep(t) \/ ExitStep(t)
    BY <1>3, <2>2 DEF SyncReturns, ReceiveStep, Start, CheckMailbox, LateWake, MailReceived, NextMail,
       ReceiveNotification, NextTask, RunFunction, FinishInTask, FinishContext, RunAnswer, QueueDone,
       MailDone, ExitStep, CloseMailbox, MailboxClosed, CancelMail, CancelTasks, CancelActive
  <2>3. CASE ExitInTask(t) \/ Exit(t) \/ (\E r \in Queues : ExecuteQueue(t, r))
               \/ (\E c \in Calls : FinishLater(t, c))
               \/ (\E s \in Servers, r \in Queues, k \in Kinds, c \in Calls :
                     t \in Clients /\ (Issue(t, s, r, k, c) \/ IssueFails(t, s, r, k, c)))
    BY <1>3, <2>3 DEF ExitInTask, RunFunction, Exit, Issue, IssueFails, ExecuteQueue,
       FinishLater, FinishContext
  <2> QED
    BY <1>1, <1>2, <2>1, <2>2, <2>3 DEF Acts, ThreadStep

(* A notification is set by a send and received by its thread. *)
LEMMA NoteNextIs ==
    ASSUME TypeOK, Shape, NEW t \in Threads, Acts(t), NEW u \in Threads, NEW q \in Queues
    PROVE  \/ note'[u][q] = note[u][q]
           \/ note'[u][q] = "none"
           \/ send[t] # None /\ q = send[t].queue
           \/ Opened(u, q)
<1>t. note \in [Threads -> [Queues -> Notification]]
  BY DEF TypeOK
<1>1. CASE Exchange(t)
  <2>0. send[t] # None /\ send[t].to \in Threads /\ send[t].queue \in Queues
    BY <1>1, SendIs DEF Exchange, AtSend
  <2>1. note' = [note EXCEPT ![send[t].to][send[t].queue] = "pending"]
    BY <1>1 DEF Exchange
  <2> QED
    BY <1>t, <2>0, <2>1
<1>2. CASE ReceiveNotification(t) \/ QueueDone(t) \/ CancelTasks(t)
  <2>1. cur[t] \in Queues
    BY <1>2 DEF ReceiveNotification, QueueDone, CancelTasks, Shape, Control, Busy, TypeOK
  <2>2. CASE ReceiveNotification(t)
    <3>1. note' = [note EXCEPT ![t][cur[t]] = "received"] /\ Opened(t, cur[t])
      BY <2>2 DEF ReceiveNotification, Opened
    <3> QED
      BY <1>t, <2>1, <3>1
  <2>3. CASE QueueDone(t)
    <3>1. note' = [note EXCEPT ![t][cur[t]] = Cleared(note[t][cur[t]])]
      BY <1>t, <2>1, <2>3 DEF QueueDone
    <3>2. \A n : Cleared(n) = n \/ Cleared(n) = "none"
      BY DEF Cleared
    <3> QED
      BY <1>t, <2>1, <3>1, <3>2
  <2>4. CASE CancelTasks(t)
    <3>1. note' = note \/ note' = [note EXCEPT ![t][cur[t]] = "none"]
      BY <2>4 DEF CancelTasks
    <3> QED
      BY <1>t, <2>1, <3>1
  <2> QED
    BY <1>2, <2>2, <2>3, <2>4
<1>3. CASE note' = note
  BY <1>3
<1> QED
  <2>1. CASE SendStep(t) /\ ~Exchange(t)
    BY <1>3, <2>1 DEF SendStep, Lookup, LookupFails, Ref, RefRefused, Enqueue, EnqueueFails, Post,
       ExchangeMailbox, Notify, Unref
  <2>2. CASE SyncReturns(t) \/ (ReceiveStep(t) /\ ~ReceiveNotification(t) /\ ~QueueDone(t))
               \/ (ExitStep(t) /\ ~CancelTasks(t))
    BY <1>3, <2>2 DEF SyncReturns, ReceiveStep, Start, CheckMailbox, LateWake, MailReceived, NextMail,
       NextTask, RunFunction, FinishInTask, FinishContext, RunAnswer,
       MailDone, ExitStep, CloseMailbox, MailboxClosed, CancelMail, CancelActive
  <2>3. CASE ExitInTask(t) \/ Exit(t) \/ (\E r \in Queues : ExecuteQueue(t, r))
               \/ (\E c \in Calls : FinishLater(t, c))
               \/ (\E s \in Servers, r \in Queues, k \in Kinds, c \in Calls :
                     t \in Clients /\ (Issue(t, s, r, k, c) \/ IssueFails(t, s, r, k, c)))
               \/ (\E same \in BOOLEAN : Reuse(t, same))
    BY <1>3, <2>3 DEF ExitInTask, RunFunction, Exit, Issue, IssueFails, ExecuteQueue,
       FinishLater, FinishContext, Reuse
  <2> QED
    BY <1>1, <1>2, <2>1, <2>2, <2>3 DEF Acts, ThreadStep

(* A queue is executed for a notification or because it is open. *)
LEMMA ExecutingNext ==
    ASSUME TypeOK, Shape, NEW t \in Threads, Acts(t), NEW q \in Queues,
           cur'[t] = q, pc'[t] \in {"drain", "run", "finish"}
    PROVE  \/ cur[t] = q /\ pc[t] \in {"drain", "run", "finish"} /\ fromMail'[t] = fromMail[t]
           \/ fromMail'[t] = TRUE
           \/ queueOpen[q] = TRUE
<1>t. /\ pc \in [Threads -> PCs] /\ cur \in [Threads -> Queues \cup {None}]
      /\ fromMail \in [Threads -> BOOLEAN] /\ queueOpen \in [Queues -> BOOLEAN]
  BY DEF TypeOK
<1>1. CASE SendStep(t)
  <2>1. cur' = cur /\ fromMail' = fromMail /\ (pc' = pc \/ pc' = [pc EXCEPT ![t] = "waiting"])
    BY <1>1 DEF SendStep, Lookup, LookupFails, Ref, RefRefused, Enqueue, EnqueueFails, Exchange, Post,
       ExchangeMailbox, Notify, Unref, SendFails, SendSucceeds
  <2> QED
    BY <1>t, <2>1
<1>2. CASE NextTask(t) \/ FinishInTask(t) \/ RunAnswer(t)
           \/ \E next \in {"drain", "finish", "exit"} : RunFunction(t, next)
  <2>1. pc[t] \in {"drain", "run", "finish"}
    BY <1>2 DEF NextTask, FinishInTask, RunAnswer, RunFunction
  <2>2. CASE \E next \in {"drain", "finish", "exit"} : RunFunction(t, next)
    BY <1>t, <2>1, <2>2 DEF RunFunction
  <2>3. CASE FinishInTask(t) \/ RunAnswer(t)
    BY <1>t, <2>1, <2>3 DEF FinishInTask, FinishContext, RunAnswer
  <2>4. CASE NextTask(t)
    BY <1>t, <2>1, <2>4 DEF NextTask
  <2> QED
    BY <1>2, <2>2, <2>3, <2>4
<1>3. CASE ReceiveNotification(t)
  BY <1>t, <1>3 DEF ReceiveNotification
<1>4. CASE \E r \in Queues : ExecuteQueue(t, r)
  BY <1>t, <1>4 DEF ExecuteQueue
<1>5. CASE \/ Start(t) \/ CheckMailbox(t) \/ LateWake(t) \/ MailReceived(t) \/ NextMail(t)
           \/ QueueDone(t) \/ MailDone(t) \/ SyncReturns(t) \/ Exit(t)
           \/ (\E same \in BOOLEAN : Reuse(t, same)) \/ (\E c \in Calls : FinishLater(t, c))
           \/ (\E s \in Servers, r \in Queues, k \in Kinds, c \in Calls :
                     t \in Clients /\ (Issue(t, s, r, k, c) \/ IssueFails(t, s, r, k, c)))
  <2>1. pc'[t] \notin {"drain", "run", "finish"}
    BY <1>t, <1>5 DEF Start, CheckMailbox, LateWake, MailReceived, NextMail, QueueDone, MailDone,
       SyncReturns, Exit, Reuse, FinishLater, Issue, IssueFails
  <2> QED
    BY <2>1
<1>6. CASE ExitStep(t)
  <2>1. pc'[t] \notin {"drain", "run", "finish"}
    BY <1>t, <1>6 DEF ExitStep, CloseMailbox, MailboxClosed, CancelMail, CancelTasks, CancelActive
  <2> QED
    BY <2>1
<1> QED
  BY <1>1, <1>2, <1>3, <1>4, <1>5, <1>6 DEF Acts, ThreadStep, ReceiveStep, ExitInTask

(* A destroyed queue without a notification has no work. *)
LEMMA UnmarkedIsEmpty ==
    ASSUME TypeOK, NoteInv, NEW t \in Threads, NEW q \in Queues, note[t][q] = "none",
           \A s \in Threads : send[s] # None => send[s].queue # q
    PROVE  tasks[t][q] = <<>>
<1>1. Announced(t, q) /\ OneMessage(t, q)
  BY DEF NoteInv
<1>2. \A s \in Threads : ~Sending(s, "exchange", t, q)
  BY DEF Sending, AtSend
<1> QED
  BY <1>1, <1>2 DEF Announced, OneMessage

LEMMA LifeActs ==
    ASSUME TypeOK, Shape, NoteInv, HolderInv, LifeInv, NEW t \in Threads, Acts(t),
           NEW u \in Threads, NEW q \in Queues
    PROVE  LifeOf(u, q)'
<1>o. queueOpen' = queueOpen /\ queueOpen[q] \in BOOLEAN
  BY OpenKept DEF TypeOK
<1>l. LifeOf(u, q) /\ SendOpen(t) /\ \A s \in Threads : SendOpen(s)
  BY DEF LifeInv
<1>s. queueOpen[q] = FALSE => \A s \in Threads : send[s] # None => send[s].queue # q
  BY <1>l DEF SendOpen
<1>n. \/ life'[u][q] = life[u][q]
      \/ life[u][q] = "zombie" /\ note[u][q] = "none" /\ life'[u][q] = "freed"
      \/ life'[u][q] = "live" /\ send[t] # None /\ q = send[t].queue
  BY LifeNextIs
<1>1. /\ life'[u][q] \in {"zombie", "freed"} => queueOpen'[q] = FALSE
      /\ life'[u][q] = "live" => queueOpen'[q] = TRUE
  BY <1>o, <1>l, <1>n, <1>s DEF LifeOf, SendOpen
<1>2. ASSUME life'[u][q] = "freed"
      PROVE  note'[u][q] = "none" /\ tasks'[u][q] = <<>>
  <2>1. queueOpen[q] = FALSE
    BY <1>1, <1>2, <1>o
  <2>2. note[u][q] = "none"
    BY <1>2, <1>l, <1>n DEF LifeOf
  <2>3. tasks[u][q] = <<>>
    BY <1>s, <2>1, <2>2, UnmarkedIsEmpty
  <2>4. ~Opened(u, q)
    BY <2>2 DEF NoteInv, OneMessage
  <2>5. note'[u][q] = "none"
    BY <1>s, <2>1, <2>2, <2>4, NoteNextIs
  <2>6. tasks'[u][q] = tasks[u][q]
    <3>1. ~(AtSend(t, "enqueue") /\ q = send[t].queue)
      BY <1>s, <2>1 DEF AtSend
    <3> QED
      BY <2>3, <3>1, TasksKept
  <2> QED
    BY <2>3, <2>5, <2>6
<1>3. ASSUME cur'[u] = q, pc'[u] \in {"drain", "run", "finish"}, queueOpen'[q] = FALSE
      PROVE  fromMail'[u] = TRUE
  <2>1. CASE u # t
    BY <1>3, <1>o, <1>l, <2>1, OnlyActor DEF SameLocals, LifeOf
  <2>2. CASE u = t
    BY <1>3, <1>o, <1>l, <2>2, ExecutingNext DEF LifeOf
  <2> QED
    BY <2>1, <2>2
<1> QED
  BY <1>1, <1>2, <1>3 DEF LifeOf

LEMMA LifeDestroy ==
    ASSUME TypeOK, Shape, NoteInv, HolderInv, LifeInv, NEW q \in Queues, DestroyQueue(q)
    PROVE  LifeInv'
<1>t. /\ queueOpen \in [Queues -> BOOLEAN]
      /\ life \in [Threads -> [Queues -> {"absent", "live", "zombie", "freed"}]]
      /\ fromMail \in [Threads -> BOOLEAN]
  BY DEF TypeOK
<1>1. /\ queueOpen'[q] = FALSE /\ \A r \in Queues : r # q => queueOpen'[r] = queueOpen[r]
      /\ UNCHANGED <<tasks, note, call, ctx, send, cur, pc, fromMail>>
  BY <1>t DEF DestroyQueue
<1>2. \A t \in Threads : send[t] # None => send[t].queue # q
  BY DEF DestroyQueue
<1>3. ASSUME NEW t \in Threads PROVE SendOpen(t)'
  <2>1. SendOpen(t)
    BY DEF LifeInv
  <2>2. send[t] # None => send[t].queue \in Queues
    BY SendIs
  <2> QED
    BY <1>1, <1>2, <2>1, <2>2 DEF SendOpen
<1>4. ASSUME NEW c \in Calls PROVE CallOpen(c)'
  <2>1. CallOpen(c)
    BY DEF LifeInv
  <2>2. call[c] # None => call[c].queue \in Queues
    BY CallIs
  <2>3. call[c] # None /\ call[c].queue = q /\ call[c].kind # "async" => ctx[c] \in {"none", "freed"}
    BY DEF DestroyQueue
  <2> QED
    BY <1>1, <2>1, <2>2, <2>3 DEF CallOpen
<1>5. ASSUME NEW t \in Threads, NEW r \in Queues PROVE LifeOf(t, r)'
  <2>1. LifeOf(t, r)
    BY DEF LifeInv
  <2>2. CASE r # q
    <3>1. life'[t][r] = life[t][r]
      BY <1>t, <2>2 DEF DestroyQueue
    <3> QED
      BY <1>1, <2>1, <2>2, <3>1 DEF LifeOf
  <2>3. CASE r = q
    <3>1. life'[t][q] = IF life[t][q] # "live" THEN life[t][q]
                        ELSE IF note[t][q] = "none" THEN "freed" ELSE "zombie"
      BY <1>t DEF DestroyQueue
    <3>2. life'[t][q] # "live"
      BY <3>1
    <3>3. life'[t][q] = "freed" => note[t][q] = "none" /\ tasks[t][q] = <<>>
      <4>1. note[t][q] = "none" => tasks[t][q] = <<>>
        BY <1>2, UnmarkedIsEmpty
      <4> QED
        BY <2>1, <2>3, <3>1, <4>1 DEF LifeOf
    <3>4. cur[t] = q /\ pc[t] \in {"drain", "run", "finish"} => fromMail[t] = TRUE
      BY <1>t DEF DestroyQueue
    <3> QED
      BY <1>1, <2>3, <3>2, <3>3, <3>4 DEF LifeOf
  <2> QED
    BY <2>2, <2>3
<1> QED
  BY <1>3, <1>4, <1>5 DEF LifeInv

LEMMA LifeStep == TypeOK /\ Shape /\ NoteInv /\ HolderInv /\ LifeInv /\ [Next]_vars => LifeInv'
<1> SUFFICES ASSUME TypeOK, Shape, NoteInv, HolderInv, LifeInv, [Next]_vars PROVE LifeInv'
  OBVIOUS
<1>1. CASE UNCHANGED vars
  BY <1>1 DEF LifeInv, SendOpen, CallOpen, LifeOf, vars
<1>2. ASSUME NEW q \in Queues, DestroyQueue(q) PROVE LifeInv'
  BY <1>2, LifeDestroy
<1>3. ASSUME NEW t \in Threads, Acts(t) PROVE LifeInv'
  <2>1. ASSUME NEW u \in Threads PROVE SendOpen(u)'
    <3>0. queueOpen' = queueOpen
      BY <1>3, OpenKept
    <3>1. CASE u = t
      BY <1>3, <3>0, <3>1, SendOpenNext DEF SendOpen
    <3>2. CASE u # t
      <4>1. send'[u] = send[u] /\ SendOpen(u)
        BY <1>3, <3>2, OnlyActor DEF SameLocals, LifeInv
      <4> QED
        BY <3>0, <4>1 DEF SendOpen
    <3> QED
      BY <3>1, <3>2
  <2>2. \A c \in Calls : CallOpen(c)'
    BY <1>3, CallOpenNext
  <2>3. \A u \in Threads, q \in Queues : LifeOf(u, q)'
    BY <1>3, LifeActs
  <2> QED
    BY <2>1, <2>2, <2>3 DEF LifeInv
<1> QED
  BY <1>1, <1>2, <1>3, NextIs

QueueInv == NoticeInv /\ HolderInv /\ LifeInv

LEMMA QueueInvariant == Spec => []QueueInv
<1>1. Init => QueueInv
  BY TypeInit, ShapeInit, RefInit, NoteInit, MailInit, HolderInit, LifeInit
     DEF QueueInv, NoticeInv, CountInv
<1>2. QueueInv /\ [Next]_vars => QueueInv'
  BY TypeStep, ShapeStep, RefNext, NoteStep, MailStep, HolderNext, LifeStep
     DEF QueueInv, NoticeInv, CountInv
<1> QED
  BY <1>1, <1>2, PTL DEF Spec

(* The zombie list and the notification flag: a destroyed task queue is    *)
(* freed only when no message in a mailbox refers to it and its thread is  *)
(* not executing it, and no task is lost with it.                          *)
THEOREM QueuesOutliveNotifications == Spec => []QueueOutlivesNotification
<1>1. QueueInv => QueueOutlivesNotification
  <2> SUFFICES ASSUME QueueInv, NEW t \in Threads, NEW q \in Queues, life[t][q] = "freed"
               PROVE  /\ tasks[t][q] = <<>>
                      /\ cur[t] # q
                      /\ \A i \in 1 .. Len(mailbox[t]) : mailbox[t][i] # q
    BY DEF QueueOutlivesNotification
  <2>1. Control(t) /\ OneMessage(t, q) /\ LifeOf(t, q)
    BY DEF QueueInv, NoticeInv, CountInv, Shape, NoteInv, LifeInv
  <2>2. note[t][q] = "none" /\ tasks[t][q] = <<>> /\ queueOpen[q] = FALSE
    BY <2>1 DEF LifeOf
  <2>3. ~InMail(t, q) /\ ~Opened(t, q) /\ ~Received(t, q)
    BY <2>1, <2>2 DEF OneMessage
  <2>4. cur[t] # q
    <3> SUFFICES ASSUME cur[t] = q PROVE FALSE
      OBVIOUS
    <3>1. pc[t] \in Busy
      BY <2>1, NoneIsNothing DEF Control
    <3> QED
      BY <2>1, <2>2, <2>3, <3>1 DEF Control, Busy, Opened, Received, LifeOf
  <2> QED
    BY <2>2, <2>3, <2>4 DEF InMail
<1> QED
  BY <1>1, QueueInvariant, PTL

(***************************************************************************)
(* What a step does to a call.                                             *)
(***************************************************************************)

SameData(d) == /\ call'[d] = call[d] /\ ctx'[d] = ctx[d] /\ result'[d] = result[d]
               /\ heard'[d] = heard[d] /\ runs'[d] = runs[d]

Issued(t, d) ==
    /\ call[d] = None /\ call'[d] # None /\ call'[d].caller = t
    /\ ctx'[d] = (IF call'[d].kind = "async" THEN "none" ELSE "pending")
    /\ result'[d] = result[d] /\ heard'[d] = heard[d] /\ runs'[d] = runs[d]

Refused(d) ==
    /\ call[d] = None /\ call'[d] # None /\ call'[d].kind \in {"callback", "callback_no_cancel"}
    /\ ctx'[d] = ctx[d] /\ result'[d] = "false" /\ heard'[d] = heard[d] /\ runs'[d] = runs[d]

SendFailed(t, d) ==
    /\ InSend(t, d) /\ send'[t] = None /\ Nowhere(d)'
    /\ ctx'[d] = IF call[d].kind = "async" THEN ctx[d] ELSE "freed"
    /\ result'[d] = IF send[t].task.fn = "func" THEN "false" ELSE result[d]
    /\ call'[d] = call[d] /\ heard'[d] = heard[d] /\ runs'[d] = runs[d]

Accepted(t, d) ==
    /\ send[t] # None /\ send[t].task.call = d /\ send[t].task.fn = "func" /\ send'[t] = None
    /\ call[d].kind # "sync" /\ result'[d] = "true"
    /\ call'[d] = call[d] /\ ctx'[d] = ctx[d] /\ heard'[d] = heard[d] /\ runs'[d] = runs[d]

Returned(t, d) ==
    /\ pc[t] = "waiting" /\ pc'[t] # "waiting" /\ job[t].call = d /\ ctx[d] # "pending"
    /\ ctx'[d] = "freed" /\ result'[d] = IF ctx[d] = "done" THEN "true" ELSE "false"
    /\ call'[d] = call[d] /\ heard'[d] = heard[d] /\ runs'[d] = runs[d]

Entered(t, d) ==
    /\ InJob(t, d) /\ job[t].fn = "func" /\ runs'[d] = runs[d] + 1
    /\ Unqueued(d)' /\ \A u \in Threads : ~InJob(u, d)' /\ ~InSend(u, d)'
    /\ call'[d] = call[d] /\ ctx'[d] = ctx[d] /\ result'[d] = result[d] /\ heard'[d] = heard[d]

Answered(t, d) ==
    /\ InJob(t, d) /\ job[t].fn # "func" /\ heard'[d] = job[t].fn /\ ctx'[d] = "freed"
    /\ call'[d] = call[d] /\ result'[d] = result[d] /\ runs'[d] = runs[d]

(* A context is settled by its target: done, canceled, or freed when it has *)
(* nobody to tell.                                                          *)
Settled(t, d) ==
    /\ ~Nowhere(d) /\ ctx[d] = "pending"
    /\ \/ call[d].kind = "sync" /\ ctx'[d] = "done" /\ InActive(t, d)
       \/ call[d].kind = "sync" /\ ctx'[d] = "canceled"
       \/ call[d].kind \in {"callback", "callback_no_cancel"} /\ ctx'[d] = "freed"
    /\ call'[d] = call[d] /\ result'[d] = result[d] /\ heard'[d] = heard[d] /\ runs'[d] = runs[d]

Change(t, d) ==
    \/ Issued(t, d) \/ Refused(d) \/ SendFailed(t, d) \/ Accepted(t, d) \/ Returned(t, d)
    \/ Entered(t, d) \/ Answered(t, d) \/ Settled(t, d)

OneChange(t) ==
    \/ \A d \in Calls : SameData(d)
    \/ \E c \in Calls : Change(t, c) /\ \A d \in Calls : d # c => SameData(d)

LEMMA DataTypes ==
    ASSUME TypeOK
    PROVE  /\ call \in [Calls -> CallRecords \cup {None}]
           /\ ctx \in [Calls -> {"none", "pending", "done", "canceled", "freed"}]
           /\ result \in [Calls -> {"nothing", "true", "false"}]
           /\ heard \in [Calls -> {"nothing", "callback", "cancel"}]
           /\ runs \in [Calls -> Nat]
           /\ send \in [Threads -> Sends \cup {None}] /\ job \in [Threads -> Tasks \cup {None}]
           /\ pc \in [Threads -> PCs]
  BY DEF TypeOK

LEMMA DataIssue ==
    ASSUME TypeOK, NEW t \in Clients, NEW s \in Servers, NEW q \in Queues,
           NEW k \in Kinds, NEW c \in Calls, Issue(t, s, q, k, c) \/ IssueFails(t, s, q, k, c)
    PROVE  OneChange(t)
<1>t. /\ call \in [Calls -> CallRecords \cup {None}]
      /\ ctx \in [Calls -> {"none", "pending", "done", "canceled", "freed"}]
      /\ result \in [Calls -> {"nothing", "true", "false"}]
  BY DataTypes
<1>1. /\ call'[c] = [kind |-> k, caller |-> t, target |-> s, queue |-> q]
      /\ call[c] = None /\ heard' = heard /\ runs' = runs
      /\ \A d \in Calls : d # c => SameData(d)
  BY <1>t DEF Issue, IssueFails, SameData
<1>2. [kind |-> k, caller |-> t, target |-> s, queue |-> q] \in CallRecords
  BY ProxyingAssumption DEF CallRecords, Threads
<1>3. call'[c] # None /\ call'[c].caller = t /\ call'[c].kind = k
  BY <1>1, <1>2, NoneIsNothing
<1>4. CASE Issue(t, s, q, k, c)
  <2>1. ctx'[c] = (IF k = "async" THEN "none" ELSE "pending") /\ result' = result
    BY <1>t, <1>4 DEF Issue
  <2>2. Issued(t, c)
    BY <1>1, <1>3, <2>1 DEF Issued
  <2> QED
    BY <1>1, <2>2 DEF OneChange, Change
<1>5. CASE IssueFails(t, s, q, k, c)
  <2>1. ctx' = ctx /\ result'[c] = "false" /\ k \in {"callback", "callback_no_cancel"}
    BY <1>t, <1>5 DEF IssueFails
  <2>2. Refused(c)
    BY <1>1, <1>3, <2>1 DEF Refused
  <2> QED
    BY <1>1, <2>2 DEF OneChange, Change
<1> QED
  BY <1>4, <1>5

LEMMA DataSendFails ==
    ASSUME TypeOK, HolderInv, Shape, NEW t \in Threads, Acts(t),
           LookupFails(t) \/ RefRefused(t) \/ (Unref(t) /\ send[t].ok # TRUE)
    PROVE  OneChange(t)
<1>0. send[t] # None /\ (send[t].at \in {"lookup", "ref"} \/ send[t].ok = FALSE)
  <2>1. send[t] # None /\ (send[t].at \in {"lookup", "ref"} \/ send[t].ok # TRUE)
    BY DEF LookupFails, RefRefused, Unref, AtSend
  <2> QED
    BY <2>1, SendIs
<1>1. tasks' = tasks /\ active' = active /\ call' = call /\ heard' = heard /\ runs' = runs /\ SendFails(t)
  BY <1>0 DEF LookupFails, RefRefused, Unref
<1>2. PICK c \in Calls : c = send[t].task.call /\ call[c] # None
  BY <1>0, SendIs DEF Shape, LocalRefs
<1>3. /\ send'[t] = None /\ pc' = pc /\ job' = job
      /\ ctx'[c] = IF call[c].kind = "async" THEN ctx[c] ELSE "freed"
      /\ result'[c] = IF send[t].task.fn = "func" THEN "false" ELSE result[c]
      /\ \A d \in Calls : d # c => ctx'[d] = ctx[d] /\ result'[d] = result[d]
  BY <1>0, <1>1, <1>2, FailureIs
<1>4. InSend(t, c) /\ ~InSend(t, c)'
  BY <1>0, <1>2, <1>3 DEF InSend
<1>5. OnlySend(c, t)
  BY <1>2, <1>4, FoundOnly DEF HolderInv
<1>6. \A u \in Threads : /\ InActive(u, c)' <=> InActive(u, c)
                         /\ InJob(u, c)' <=> InJob(u, c)
                         /\ u # t => (InSend(u, c)' <=> InSend(u, c))
  BY <1>1, <1>3, OthersStill DEF InActive, InJob
<1>7. Nowhere(c)'
  BY <1>1, <1>4, <1>5, <1>6, QueuesStill DEF OnlySend, Nowhere, Idle, Unqueued
<1>8. SendFailed(t, c)
  BY <1>1, <1>3, <1>4, <1>7 DEF SendFailed
<1>9. \A d \in Calls : d # c => SameData(d)
  BY <1>1, <1>3 DEF SameData
<1> QED
  BY <1>8, <1>9 DEF OneChange, Change

LEMMA DataSend ==
    ASSUME TypeOK, HolderInv, Shape, NEW t \in Threads, Acts(t), SendStep(t)
    PROVE  OneChange(t)
<1>1. CASE LookupFails(t) \/ RefRefused(t) \/ (Unref(t) /\ send[t].ok # TRUE)
  BY <1>1, DataSendFails
<1>2. CASE Unref(t) /\ send[t].ok = TRUE
  <2>0. /\ call' = call /\ heard' = heard /\ runs' = runs /\ ctx' = ctx /\ send[t] # None
        /\ SendSucceeds(t)
    BY <1>2 DEF Unref, SendSucceeds, AtSend
  <2>1. PICK c \in Calls : c = send[t].task.call
    BY <2>0, SendIs
  <2>2. CASE send[t].task.fn = "func" /\ call[c].kind # "sync"
    <3>1. send'[t] = None /\ result'[c] = "true" /\ \A d \in Calls : d # c => result'[d] = result[d]
      BY <2>0, <2>1, <2>2, DataTypes DEF SendSucceeds
    <3>2. Accepted(t, c)
      BY <2>0, <2>1, <2>2, <3>1 DEF Accepted
    <3>3. \A d \in Calls : d # c => SameData(d)
      BY <2>0, <3>1 DEF SameData
    <3> QED
      BY <3>2, <3>3 DEF OneChange, Change
  <2>3. CASE ~(send[t].task.fn = "func" /\ call[c].kind # "sync")
    <3>1. result' = result
      BY <2>0, <2>1, <2>3 DEF SendSucceeds
    <3> QED
      BY <2>0, <3>1 DEF OneChange, SameData
  <2> QED
    BY <2>2, <2>3
<1>3. CASE UNCHANGED callVars
  BY <1>3 DEF OneChange, SameData
<1> QED
  BY <1>1, <1>2, <1>3 DEF SendStep, Lookup, Ref, Enqueue, EnqueueFails, Exchange, Post,
     ExchangeMailbox, Notify

LEMMA DataRun ==
    ASSUME TypeOK, HolderInv, Shape, NEW t \in Threads, Acts(t),
           NEW next \in {"drain", "finish", "exit"}, RunFunction(t, next)
    PROVE  OneChange(t)
<1>t. runs \in [Calls -> Nat] /\ pc \in [Threads -> PCs]
  BY DataTypes
<1>0. /\ pc[t] = "run" /\ pc'[t] # "run" /\ job[t].fn = "func"
      /\ tasks' = tasks /\ send' = send /\ ctx' = ctx /\ call' = call /\ result' = result /\ heard' = heard
  BY <1>t DEF RunFunction
<1>1. PICK c \in Calls : c = job[t].call
  BY <1>0, MadeKept DEF Shape, Control
<1>2. \A d : ~InJob(t, d)' /\ (InJob(t, d) <=> d = c)
  BY <1>0, <1>1 DEF InJob
<1>3. OnlyJob(c, t)
  BY <1>2, FoundOnly DEF HolderInv
<1>4. \A u \in Threads : \A d : /\ InSend(u, d)' <=> InSend(u, d)
                                /\ u # t => (InJob(u, d)' <=> InJob(u, d))
  BY <1>0, OthersStill DEF InSend
<1>5. runs'[c] = runs[c] + 1 /\ \A d \in Calls : d # c => runs'[d] = runs[d]
  BY <1>t, <1>1 DEF RunFunction
<1>6. Unqueued(c)' /\ \A u \in Threads : ~InJob(u, c)' /\ ~InSend(u, c)'
  BY <1>0, <1>2, <1>3, <1>4, QueuesStill DEF OnlyJob, Unqueued
<1>7. Entered(t, c)
  BY <1>0, <1>2, <1>5, <1>6 DEF Entered
<1>8. \A d \in Calls : d # c => SameData(d)
  BY <1>0, <1>5 DEF SameData
<1> QED
  BY <1>7, <1>8 DEF OneChange, Change

LEMMA DataAnswer ==
    ASSUME TypeOK, Shape, NEW t \in Threads, RunAnswer(t) \/ SyncReturns(t)
    PROVE  OneChange(t)
<1>t. /\ ctx \in [Calls -> {"none", "pending", "done", "canceled", "freed"}]
      /\ result \in [Calls -> {"nothing", "true", "false"}]
      /\ heard \in [Calls -> {"nothing", "callback", "cancel"}]
      /\ pc \in [Threads -> PCs]
  BY DataTypes
<1>1. pc[t] \in {"run", "waiting"} /\ call' = call /\ runs' = runs
  BY DEF RunAnswer, SyncReturns
<1>2. PICK c \in Calls : c = job[t].call
  <2>1. job[t] # None
    BY <1>1 DEF Shape, Control
  <2> QED
    BY <2>1, DataTypes DEF Tasks
<1>3. CASE RunAnswer(t)
  <2>1. /\ pc[t] = "run" /\ job[t].fn # "func" /\ result' = result
        /\ heard'[c] = job[t].fn /\ ctx'[c] = "freed"
        /\ \A d \in Calls : d # c => heard'[d] = heard[d] /\ ctx'[d] = ctx[d]
    BY <1>t, <1>2, <1>3 DEF RunAnswer
  <2>2. Answered(t, c)
    BY <1>1, <1>2, <2>1 DEF Answered, InJob
  <2>3. \A d \in Calls : d # c => SameData(d)
    BY <1>1, <2>1 DEF SameData
  <2> QED
    BY <2>2, <2>3 DEF OneChange, Change
<1>4. CASE SyncReturns(t)
  <2>1. /\ pc[t] = "waiting" /\ pc'[t] # "waiting" /\ ctx[c] # "pending" /\ heard' = heard
        /\ result'[c] = (IF ctx[c] = "done" THEN "true" ELSE "false") /\ ctx'[c] = "freed"
        /\ \A d \in Calls : d # c => result'[d] = result[d] /\ ctx'[d] = ctx[d]
    BY <1>t, <1>2, <1>4 DEF SyncReturns
  <2>2. Returned(t, c)
    BY <1>1, <1>2, <2>1 DEF Returned
  <2>3. \A d \in Calls : d # c => SameData(d)
    BY <1>1, <2>1 DEF SameData
  <2> QED
    BY <2>2, <2>3 DEF OneChange, Change
<1> QED
  BY <1>3, <1>4


LEMMA DataFinish ==
    ASSUME TypeOK, HolderInv, Shape, NEW t \in Threads,
           FinishInTask(t) \/ \E c \in Calls : FinishLater(t, c)
    PROVE  OneChange(t)
<1>1. PICK c \in Calls : /\ FinishContext(t, c) /\ InActive(t, c)
                         /\ call[c] # None /\ call[c].kind # "async" /\ ctx[c] = "pending"
  BY FinishOf
<1>2. call' = call /\ result' = result /\ heard' = heard /\ runs' = runs
  BY <1>1 DEF FinishContext
<1>3. CASE call[c].kind = "sync" /\ ctx' = [ctx EXCEPT ![c] = "done"]
  <2>1. ctx'[c] = "done" /\ \A d \in Calls : d # c => ctx'[d] = ctx[d]
    BY <1>3, DataTypes
  <2>2. ~Nowhere(c)
    BY <1>1 DEF Nowhere, Idle
  <2>3. Settled(t, c)
    BY <1>1, <1>2, <1>3, <2>1, <2>2 DEF Settled
  <2>4. \A d \in Calls : d # c => SameData(d)
    BY <1>2, <2>1 DEF SameData
  <2> QED
    BY <2>3, <2>4 DEF OneChange, Change
<1>4. CASE ctx' = ctx
  BY <1>2, <1>4 DEF OneChange, SameData
<1> QED
  BY <1>1, <1>3, <1>4 DEF FinishContext

LEMMA DataCancelCtx ==
    ASSUME TypeOK, NEW t \in Threads, NEW c \in Calls, CancelCtx(t, c), ~Nowhere(c), ctx[c] = "pending",
           call' = call, result' = result, heard' = heard, runs' = runs
    PROVE  OneChange(t)
<1>1. CASE ctx' = ctx
  BY <1>1 DEF OneChange, SameData
<1>2. CASE \/ call[c].kind = "sync" /\ ctx' = [ctx EXCEPT ![c] = "canceled"]
           \/ call[c].kind = "callback_no_cancel" /\ ctx' = [ctx EXCEPT ![c] = "freed"]
  <2>1. /\ \/ call[c].kind = "sync" /\ ctx'[c] = "canceled"
           \/ call[c].kind = "callback_no_cancel" /\ ctx'[c] = "freed"
        /\ \A d \in Calls : d # c => ctx'[d] = ctx[d]
    BY <1>2, DataTypes
  <2>2. Settled(t, c)
    BY <2>1 DEF Settled
  <2>3. \A d \in Calls : d # c => SameData(d)
    BY <2>1 DEF SameData
  <2> QED
    BY <2>2, <2>3 DEF OneChange, Change
<1> QED
  BY <1>1, <1>2 DEF CancelCtx

LEMMA DataCancel ==
    ASSUME TypeOK, HolderInv, Shape, DataInv, NEW t \in Threads, CancelActive(t) \/ CancelTasks(t)
    PROVE  OneChange(t)
<1>0. call' = call /\ result' = result /\ heard' = heard /\ runs' = runs
  BY DEF CancelActive, CancelTasks
<1>1. CASE CancelActive(t) /\ active[t] # <<>>
  <2>1. PICK c \in Calls : CancelCtx(t, c) /\ InActive(t, c) /\ ctx[c] = "pending"
    BY <1>1, CancelActiveOf
  <2>2. ~Nowhere(c)
    BY <2>1 DEF Nowhere, Idle
  <2> QED
    BY <1>0, <2>1, <2>2, DataCancelCtx
<1>2. CASE CancelTasks(t) /\ tasks[t][cur[t]] # <<>>
  <2>0. PICK r \in Queues : r = cur[t]
    BY <1>2, CancelTasksOf
  <2>1. PICK task \in Tasks, c \in Calls :
           /\ c = task.call /\ InQueue(t, r, c) /\ CancelTask(t, task)
           /\ \E i \in 1 .. Len(tasks[t][r]) : tasks[t][r][i] = task
           /\ call[c] # None /\ (call[c].kind # "async" => ctx[c] = "pending")
    BY <1>2, <2>0, CancelTasksOf
  <2>2. ~Nowhere(c)
    BY <2>1 DEF Nowhere, Unqueued
  <2>3. Carried(task)
    BY <2>1 DEF Carried
  <2>4. TaskInv(task)
    BY <2>3 DEF DataInv
  <2>5. CASE call[c].kind = "async" /\ ctx' = ctx
    BY <1>0, <2>5 DEF OneChange, SameData
  <2>6. CASE CancelCtx(t, c)
    <3>1. call[c].kind # "async"
      BY <2>6 DEF CancelCtx
    <3> QED
      BY <1>0, <2>1, <2>2, <2>6, <3>1, DataCancelCtx
  <2>7. CASE task.fn # "func" /\ ctx' = [ctx EXCEPT ![c] = "freed"]
    <3>1. call[c].kind \in {"callback", "callback_no_cancel"}
      BY <2>1, <2>4, <2>7 DEF TaskInv
    <3>2. ctx'[c] = "freed" /\ \A d \in Calls : d # c => ctx'[d] = ctx[d]
      BY <2>7, DataTypes
    <3>3. Settled(t, c)
      BY <1>0, <2>1, <2>2, <3>1, <3>2 DEF Settled
    <3>4. \A d \in Calls : d # c => SameData(d)
      BY <1>0, <3>2 DEF SameData
    <3> QED
      BY <3>3, <3>4 DEF OneChange, Change
  <2> QED
    BY <2>1, <2>5, <2>6, <2>7 DEF CancelTask
<1>3. CASE \/ CancelActive(t) /\ active[t] = <<>>
           \/ CancelTasks(t) /\ tasks[t][cur[t]] = <<>>
  <2>1. ctx' = ctx
    BY <1>3 DEF CancelActive, CancelTasks
  <2> QED
    BY <1>0, <2>1 DEF OneChange, SameData
<1> QED
  BY <1>1, <1>2, <1>3

LEMMA DataQuiet ==
    ASSUME NEW t \in Threads,
           \/ Start(t) \/ CheckMailbox(t) \/ LateWake(t) \/ MailReceived(t) \/ NextMail(t)
           \/ ReceiveNotification(t) \/ NextTask(t) \/ QueueDone(t) \/ MailDone(t)
           \/ CloseMailbox(t) \/ MailboxClosed(t) \/ CancelMail(t) \/ Exit(t)
           \/ (\E q \in Queues : ExecuteQueue(t, q)) \/ (\E same \in BOOLEAN : Reuse(t, same))
    PROVE  OneChange(t) /\ UNCHANGED callVars
<1>1. UNCHANGED callVars
  BY DEF Start, CheckMailbox, LateWake, MailReceived, NextMail, ReceiveNotification, NextTask,
     QueueDone, MailDone, CloseMailbox, MailboxClosed, CancelMail, Exit, ExecuteQueue, Reuse
<1> QED
  BY <1>1 DEF OneChange, SameData, callVars

(* A step of a thread changes the data of at most one call, in one of the *)
(* ways above.                                                            *)
LEMMA StepData ==
    ASSUME TypeOK, HolderInv, Shape, DataInv, NEW t \in Threads, Acts(t)
    PROVE  OneChange(t)
<1>1. CASE SendStep(t)
  BY <1>1, DataSend
<1>2. CASE SyncReturns(t) \/ RunAnswer(t)
  BY <1>2, DataAnswer
<1>3. CASE FinishInTask(t) \/ \E c \in Calls : FinishLater(t, c)
  BY <1>3, DataFinish
<1>4. CASE ExitInTask(t) \/ \E next \in {"drain", "finish"} : RunFunction(t, next)
  BY <1>4, DataRun DEF ExitInTask
<1>5. CASE CancelActive(t) \/ CancelTasks(t)
  BY <1>5, DataCancel
<1>6. CASE \E s \in Servers, q \in Queues, k \in Kinds, c \in Calls :
              t \in Clients /\ (Issue(t, s, q, k, c) \/ IssueFails(t, s, q, k, c))
  BY <1>6, DataIssue
<1>7. CASE \/ Start(t) \/ CheckMailbox(t) \/ LateWake(t) \/ MailReceived(t) \/ NextMail(t)
           \/ ReceiveNotification(t) \/ NextTask(t) \/ QueueDone(t) \/ MailDone(t)
           \/ CloseMailbox(t) \/ MailboxClosed(t) \/ CancelMail(t) \/ Exit(t)
           \/ (\E q \in Queues : ExecuteQueue(t, q)) \/ (\E same \in BOOLEAN : Reuse(t, same))
  BY <1>7, DataQuiet
<1> QED
  BY <1>1, <1>2, <1>3, <1>4, <1>5, <1>6, <1>7 DEF Acts, ThreadStep, ReceiveStep, ExitStep


(***************************************************************************)
(* Where tasks come from.                                                  *)
(***************************************************************************)

(* The task of a call that is being made, and the answer to one.           *)
NewTask(t, x) ==
    \E c \in Calls :
       /\ x.call = c
       /\ \/ x.fn = "func" /\ call[c] = None /\ call'[c] # None
          \/ x.fn = "callback" /\ InActive(t, c) /\ call[c].kind \in {"callback", "callback_no_cancel"}
          \/ x.fn = "cancel" /\ ~Nowhere(c) /\ call[c].kind = "callback"

SameSend(t) == /\ send[t] # None /\ send'[t].task = send[t].task
               /\ \A d : InSend(t, d)' => InSend(t, d)

LEMMA SendNext ==
    ASSUME TypeOK, Shape, HolderInv, NEW t \in Threads, Acts(t), send'[t] # None
    PROVE  SameSend(t) \/ (NewTask(t, send'[t].task) /\ send'[t].at = "lookup")
<1>t. send \in [Threads -> Sends \cup {None}]
  BY DEF TypeOK
<1>1. CASE SendStep(t)
  <2>0. send[t] # None
    BY <1>1 DEF SendStep, Lookup, LookupFails, Ref, RefRefused, Enqueue, EnqueueFails, Exchange, Post,
       ExchangeMailbox, Notify, Unref, AtSend
  <2>1. CASE EnqueueFails(t)
    BY <1>t, <2>0, <2>1, EnqueueFailsIs DEF SameSend, InSend
  <2>2. CASE \E step \in SendSteps :
                GoSend(t, step) /\ (step \in {"lookup", "ref", "enqueue"} => send[t].at \in {"lookup", "ref"})
    <3>1. PICK step \in SendSteps :
             GoSend(t, step) /\ (step \in {"lookup", "ref", "enqueue"} => send[t].at \in {"lookup", "ref"})
      BY <2>2
    <3>2. send'[t].task = send[t].task /\ send'[t].ok = send[t].ok /\ send'[t].at = step
      BY <2>0, <3>1, GoSendIs
    <3> QED
      BY <2>0, <3>1, <3>2 DEF SameSend, InSend
  <2>3. CASE SendFails(t) \/ SendSucceeds(t)
    BY <1>t, <2>3 DEF SendFails, SendSucceeds
  <2> QED
    BY <1>1, <2>1, <2>2, <2>3 DEF SendStep, Lookup, LookupFails, Ref, RefRefused, Enqueue, Exchange, Post,
       ExchangeMailbox, Notify, Unref, SendSteps, AtSend
<1>2. CASE send'[t] = send[t]
  BY <1>2 DEF SameSend, InSend
<1>3. ASSUME NEW c \in Calls, call[c] # None, NEW fn \in {"callback", "cancel"},
             send' = [send EXCEPT ![t] = SendOf(call[c].queue, call[c].caller, fn, c)],
             \/ fn = "callback" /\ InActive(t, c) /\ call[c].kind \in {"callback", "callback_no_cancel"}
             \/ fn = "cancel" /\ ~Nowhere(c) /\ call[c].kind = "callback"
      PROVE  NewTask(t, send'[t].task) /\ send'[t].at = "lookup"
  <2>1. send'[t].task.call = c /\ send'[t].task.fn = fn /\ send'[t].at = "lookup"
    BY <1>3, AnswerSent
  <2> QED
    BY <1>3, <2>1 DEF NewTask
<1>4. CASE FinishInTask(t) \/ \E c \in Calls : FinishLater(t, c)
  <2>1. PICK c \in Calls : FinishContext(t, c) /\ InActive(t, c) /\ call[c] # None /\ call[c].kind # "async"
    BY <1>4, FinishOf
  <2>2. CASE send' = send
    BY <1>2, <2>2
  <2>3. CASE /\ call[c].kind # "sync"
             /\ send' = [send EXCEPT ![t] = SendOf(call[c].queue, call[c].caller, "callback", c)]
    <3>1. call[c].kind \in {"callback", "callback_no_cancel"}
      BY <2>1, <2>3, CallIs DEF CallKinds
    <3> QED
      BY <1>3, <2>1, <2>3, <3>1
  <2> QED
    BY <2>1, <2>2, <2>3 DEF FinishContext
<1>c. ASSUME NEW c \in Calls, CancelCtx(t, c), call[c] # None, ~Nowhere(c)
      PROVE  SameSend(t) \/ (NewTask(t, send'[t].task) /\ send'[t].at = "lookup")
  <2>1. CASE send' = send
    BY <1>2, <2>1
  <2>2. CASE /\ call[c].kind = "callback"
             /\ send' = [send EXCEPT ![t] = SendOf(call[c].queue, call[c].caller, "cancel", c)]
    BY <1>3, <1>c, <2>2
  <2> QED
    BY <1>c, <2>1, <2>2 DEF CancelCtx
<1>5. CASE CancelActive(t)
  <2>1. CASE active[t] = <<>>
    BY <1>2, <1>5, <2>1 DEF CancelActive
  <2>2. CASE active[t] # <<>>
    <3>1. PICK c \in Calls : CancelCtx(t, c) /\ InActive(t, c) /\ call[c] # None
      BY <1>5, <2>2, CancelActiveOf
    <3>2. ~Nowhere(c)
      BY <3>1 DEF Nowhere, Idle
    <3> QED
      BY <1>c, <3>1, <3>2
  <2> QED
    BY <2>1, <2>2
<1>6. CASE CancelTasks(t)
  <2>1. CASE tasks[t][cur[t]] = <<>>
    BY <1>2, <1>6, <2>1 DEF CancelTasks
  <2>2. CASE tasks[t][cur[t]] # <<>>
    <3>0. PICK r \in Queues : r = cur[t]
      BY <1>6, CancelTasksOf
    <3>1. PICK task \in Tasks, c \in Calls :
             c = task.call /\ InQueue(t, r, c) /\ CancelTask(t, task) /\ call[c] # None
      BY <1>6, <2>2, <3>0, CancelTasksOf
    <3>2. ~Nowhere(c)
      BY <3>1 DEF Nowhere, Unqueued
    <3>3. CASE CancelCtx(t, c)
      BY <1>c, <3>1, <3>2, <3>3
    <3>4. CASE send' = send
      BY <1>2, <3>4
    <3> QED
      BY <3>1, <3>3, <3>4 DEF CancelTask
  <2> QED
    BY <2>1, <2>2
<1>7. CASE \E s \in Servers, q \in Queues, k \in Kinds, c \in Calls :
              t \in Clients /\ (Issue(t, s, q, k, c) \/ IssueFails(t, s, q, k, c))
  <2>1. PICK s \in Servers, q \in Queues, k \in Kinds, c \in Calls :
           t \in Clients /\ (Issue(t, s, q, k, c) \/ IssueFails(t, s, q, k, c))
    BY <1>7
  <2>2. CASE Issue(t, s, q, k, c)
    <3>1. /\ send'[t] = SendOf(q, s, "func", c) /\ call[c] = None
          /\ call'[c] = [kind |-> k, caller |-> t, target |-> s, queue |-> q]
      BY <1>t, <2>2, DataTypes DEF Issue
    <3>2. call'[c] \in CallRecords
      BY <3>1, ProxyingAssumption DEF CallRecords, Threads
    <3>3. send'[t].task.fn = "func" /\ send'[t].task.call = c /\ send'[t].at = "lookup"
      BY <3>1 DEF SendOf
    <3> QED
      BY <3>1, <3>2, <3>3, NoneIsNothing DEF NewTask
  <2>3. CASE IssueFails(t, s, q, k, c)
    BY <1>2, <2>3 DEF IssueFails
  <2> QED
    BY <2>1, <2>2, <2>3
<1>8. CASE SyncReturns(t) \/ (ReceiveStep(t) /\ ~FinishInTask(t))
  BY <1>2, <1>8 DEF SyncReturns, ReceiveStep, Start, CheckMailbox, LateWake, MailReceived, NextMail,
     ReceiveNotification, NextTask, RunFunction, RunAnswer, QueueDone, MailDone
<1>9. CASE ExitStep(t) /\ ~CancelTasks(t) /\ ~CancelActive(t)
  BY <1>2, <1>9 DEF ExitStep, CloseMailbox, MailboxClosed, CancelMail
<1>10. CASE ExitInTask(t) \/ Exit(t) \/ (\E q \in Queues : ExecuteQueue(t, q))
               \/ (\E same \in BOOLEAN : Reuse(t, same))
  BY <1>2, <1>10 DEF ExitInTask, RunFunction, Exit, ExecuteQueue, Reuse
<1> QED
  BY <1>1, <1>4, <1>5, <1>6, <1>7, <1>8, <1>9, <1>10 DEF Acts, ThreadStep

(* A thread takes its next task from a queue, and waits for the call it    *)
(* has just sent.                                                          *)
LEMMA JobNext ==
    ASSUME TypeOK, Shape, NEW t \in Threads, Acts(t), pc'[t] = "run"
    PROVE  \/ pc[t] = "run" /\ job'[t] = job[t]
           \/ \E q \in Queues : \E i \in 1 .. Len(tasks[t][q]) : tasks[t][q][i] = job'[t]
<1>t. pc \in [Threads -> PCs] /\ job \in [Threads -> Tasks \cup {None}]
      /\ tasks \in [Threads -> [Queues -> Seq(Tasks)]] /\ cur \in [Threads -> Queues \cup {None}]
  BY DEF TypeOK
<1>1. CASE NextTask(t)
  <2>1. PICK r \in Queues : r = cur[t]
    BY <1>1 DEF NextTask, Shape, Control, Busy, TypeOK
  <2>2. tasks[t][r] # <<>> /\ job'[t] = Head(tasks[t][r])
    BY <1>t, <1>1, <2>1 DEF NextTask
  <2>3. Head(tasks[t][r]) = tasks[t][r][1] /\ 1 \in 1 .. Len(tasks[t][r])
    BY <1>t, <2>2, TailIs
  <2> QED
    BY <2>2, <2>3
<1>2. CASE SendStep(t)
  <2>1. (pc' = pc /\ job' = job) \/ pc' = [pc EXCEPT ![t] = "waiting"]
    BY <1>2 DEF SendStep, Lookup, LookupFails, Ref, RefRefused, Enqueue, EnqueueFails, Exchange, Post,
       ExchangeMailbox, Notify, Unref, SendFails, SendSucceeds
  <2> QED
    BY <1>t, <2>1
<1>3. CASE FinishInTask(t) \/ RunAnswer(t) \/ \E next \in {"drain", "finish", "exit"} : RunFunction(t, next)
  BY <1>t, <1>3 DEF FinishInTask, RunAnswer, RunFunction
<1>4. CASE \/ Start(t) \/ CheckMailbox(t) \/ MailReceived(t) \/ NextMail(t) \/ ReceiveNotification(t)
           \/ QueueDone(t) \/ MailDone(t) \/ SyncReturns(t) \/ Exit(t)
           \/ (\E q \in Queues : ExecuteQueue(t, q)) \/ (\E same \in BOOLEAN : Reuse(t, same))
  BY <1>t, <1>4 DEF Start, CheckMailbox, MailReceived, NextMail, ReceiveNotification, QueueDone,
     MailDone, SyncReturns, Exit, ExecuteQueue, Reuse
<1>5. CASE \/ LateWake(t) \/ (\E c \in Calls : FinishLater(t, c))
           \/ (\E s \in Servers, r \in Queues, k \in Kinds, c \in Calls :
                     t \in Clients /\ (Issue(t, s, r, k, c) \/ IssueFails(t, s, r, k, c)))
  BY <1>t, <1>5 DEF LateWake, FinishLater, Issue, IssueFails
<1>6. CASE ExitStep(t)
  BY <1>t, <1>6 DEF ExitStep, CloseMailbox, MailboxClosed, CancelMail, CancelTasks, CancelActive
<1> QED
  BY <1>1, <1>2, <1>3, <1>4, <1>5, <1>6 DEF Acts, ThreadStep, ReceiveStep, ExitInTask


LEMMA WaitNext ==
    ASSUME TypeOK, Shape, NEW t \in Threads, Acts(t), pc'[t] = "waiting"
    PROVE  \/ pc[t] = "waiting" /\ job'[t] = job[t]
           \/ /\ send[t] # None /\ send[t].task.fn = "func" /\ job'[t] = send[t].task
              /\ call[send[t].task.call].kind = "sync" /\ send'[t] = None /\ UNCHANGED callVars
<1>t. pc \in [Threads -> PCs] /\ job \in [Threads -> Tasks \cup {None}]
  BY DEF TypeOK
<1>1. CASE Unref(t) /\ send[t].ok = TRUE
  <2>1. SendSucceeds(t) /\ send[t] # None
    BY <1>1 DEF Unref, AtSend
  <2>2. CASE send[t].task.fn = "func" /\ call[send[t].task.call].kind = "sync"
    <3>1. job'[t] = send[t].task /\ send'[t] = None /\ result' = result /\ ctx' = ctx
      BY <1>t, <2>1, <2>2, DataTypes DEF SendSucceeds
    <3> QED
      BY <1>1, <2>1, <2>2, <3>1 DEF Unref, callVars
  <2>3. CASE ~(send[t].task.fn = "func" /\ call[send[t].task.call].kind = "sync")
    BY <2>1, <2>3 DEF SendSucceeds
  <2> QED
    BY <2>2, <2>3
<1>2. CASE SendStep(t) /\ ~(Unref(t) /\ send[t].ok = TRUE)
  <2>1. AtSend(t, "unref") => send[t].ok \in BOOLEAN
    BY SendIs DEF AtSend
  <2>2. pc' = pc /\ job' = job
    BY <1>2, <2>1 DEF SendStep, Lookup, LookupFails, Ref, RefRefused, Enqueue, EnqueueFails, Exchange, Post,
       ExchangeMailbox, Notify, Unref, SendFails
  <2> QED
    BY <1>t, <2>2
<1>3. CASE FinishInTask(t) \/ RunAnswer(t) \/ NextTask(t)
            \/ \E next \in {"drain", "finish", "exit"} : RunFunction(t, next)
  BY <1>t, <1>3 DEF FinishInTask, RunAnswer, RunFunction, NextTask
<1>4. CASE \/ Start(t) \/ CheckMailbox(t) \/ MailReceived(t) \/ NextMail(t) \/ ReceiveNotification(t)
           \/ QueueDone(t) \/ MailDone(t) \/ SyncReturns(t) \/ Exit(t)
           \/ (\E q \in Queues : ExecuteQueue(t, q)) \/ (\E same \in BOOLEAN : Reuse(t, same))
  BY <1>t, <1>4 DEF Start, CheckMailbox, MailReceived, NextMail, ReceiveNotification, QueueDone,
     MailDone, SyncReturns, Exit, ExecuteQueue, Reuse
<1>5. CASE \/ LateWake(t) \/ (\E c \in Calls : FinishLater(t, c))
           \/ (\E s \in Servers, r \in Queues, k \in Kinds, c \in Calls :
                     t \in Clients /\ (Issue(t, s, r, k, c) \/ IssueFails(t, s, r, k, c)))
  BY <1>t, <1>5 DEF LateWake, FinishLater, Issue, IssueFails
<1>6. CASE ExitStep(t)
  BY <1>t, <1>6 DEF ExitStep, CloseMailbox, MailboxClosed, CancelMail, CancelTasks, CancelActive
<1> QED
  BY <1>1, <1>2, <1>3, <1>4, <1>5, <1>6 DEF Acts, ThreadStep, ReceiveStep, ExitInTask

LEMMA CarriedNext ==
    ASSUME TypeOK, Shape, HolderInv, NEW t \in Threads, Acts(t), NEW x \in Tasks, Carried(x)'
    PROVE  Carried(x) \/ NewTask(t, x)
<1>1. ASSUME NEW u \in Threads, NEW q \in Queues, \E i \in 1 .. Len(tasks'[u][q]) : tasks'[u][q][i] = x
      PROVE  Carried(x)
  <2>t. tasks[u][q] \in Seq(Tasks)
    BY DEF TypeOK
  <2>1. CASE tasks'[u][q] = tasks[u][q]
    BY <1>1, <2>1 DEF Carried
  <2>2. CASE tasks[u][q] # <<>> /\ tasks'[u][q] = Tail(tasks[u][q])
    <3>1. \E i \in 1 .. Len(tasks[u][q]) : tasks[u][q][i] = x
      BY <1>1, <2>t, <2>2, TailIs
    <3> QED
      BY <3>1 DEF Carried
  <2>3. CASE AtSend(t, "enqueue") /\ tasks'[u][q] = Append(tasks[u][q], send[t].task)
    <3>1. send[t] # None /\ send[t].at = "enqueue" /\ send[t].task \in Tasks
      BY <2>3, SendIs DEF AtSend
    <3>2. (\E i \in 1 .. Len(tasks[u][q]) : tasks[u][q][i] = x) \/ send[t].task = x
      BY <1>1, <2>t, <2>3, <3>1, AppendIs
    <3>3. CASE send[t].task = x
      <4>1. InSend(t, x.call)
        BY <3>1, <3>3 DEF InSend
      <4> QED
        BY <3>3, <4>1 DEF Carried
    <3> QED
      BY <3>2, <3>3 DEF Carried
  <2> QED
    BY <2>1, <2>2, <2>3, TasksKept
<1>2. ASSUME NEW u \in Threads, InJob(u, x.call)', job'[u] = x
      PROVE  Carried(x)
  <2>1. CASE u # t
    <3>1. pc'[u] = pc[u] /\ job'[u] = job[u]
      BY <2>1, OnlyActor DEF SameLocals
    <3>2. InJob(u, x.call)
      BY <1>2, <3>1 DEF InJob
    <3> QED
      BY <1>2, <3>1, <3>2 DEF Carried
  <2>2. CASE u = t
    <3>1. pc'[t] = "run"
      BY <1>2, <2>2 DEF InJob
    <3>2. CASE pc[t] = "run" /\ job'[t] = job[t]
      <4>1. InJob(t, x.call)
        BY <1>2, <2>2, <3>2 DEF InJob
      <4> QED
        BY <1>2, <2>2, <3>2, <4>1 DEF Carried
    <3>3. CASE \E q \in Queues : \E i \in 1 .. Len(tasks[t][q]) : tasks[t][q][i] = job'[t]
      BY <1>2, <2>2, <3>3 DEF Carried
    <3> QED
      BY <3>1, <3>2, <3>3, JobNext
  <2> QED
    BY <2>1, <2>2
<1>3. ASSUME NEW u \in Threads, InSend(u, x.call)', send'[u].task = x
      PROVE  Carried(x) \/ NewTask(t, x)
  <2>1. CASE u # t
    <3>1. send'[u] = send[u]
      BY <2>1, OnlyActor DEF SameLocals
    <3>2. InSend(u, x.call)
      BY <1>3, <3>1 DEF InSend
    <3> QED
      BY <1>3, <3>1, <3>2 DEF Carried
  <2>2. CASE u = t
    <3>1. send'[t] # None
      BY <1>3, <2>2 DEF InSend
    <3>2. CASE SameSend(t)
      <4>1. InSend(t, x.call) /\ send[t].task = x
        BY <1>3, <2>2, <3>2 DEF SameSend
      <4> QED
        BY <4>1 DEF Carried
    <3> QED
      BY <1>3, <2>2, <3>1, <3>2, SendNext
  <2> QED
    BY <2>1, <2>2
<1> QED
  BY <1>1, <1>2, <1>3 DEF Carried

LEMMA ActiveNext ==
    ASSUME TypeOK, Shape, HolderInv, NEW t \in Threads, Acts(t), NEW u \in Threads, NEW c \in Calls,
           InActive(u, c)', ~InActive(u, c)
    PROVE  u = t /\ InJob(t, c) /\ \E next \in {"drain", "finish", "exit"} : RunFunction(t, next)
<1>t. active \in [Threads -> Seq(Calls)] /\ tasks \in [Threads -> [Queues -> Seq(Tasks)]]
  BY DEF TypeOK
<1>u. CASE u # t
  BY <1>u, OthersStill
<1>0. CASE active'[u] = active[u]
  BY <1>0 DEF InActive
<1>1. CASE u = t /\ active'[t] # active[t]
  <2>1. CASE \E next \in {"drain", "finish", "exit"} : RunFunction(t, next)
    <3>1. PICK next \in {"drain", "finish", "exit"} : RunFunction(t, next)
      BY <2>1
    <3>2. PICK e \in Calls : e = job[t].call
      <4>1. pc[t] = "run"
        BY <3>1 DEF RunFunction
      <4> QED
        BY <4>1, MadeKept DEF Shape, Control
    <3>3. active' = [active EXCEPT ![t] = Append(@, e)] /\ pc[t] = "run"
      BY <1>1, <3>1, <3>2 DEF RunFunction
    <3>4. active'[t] = Append(active[t], e) /\ active[t] \in Seq(Calls)
      BY <1>t, <3>3
    <3>5. c = e
      BY <1>1, <3>4, AppendIs DEF InActive
    <3> QED
      BY <1>1, <2>1, <3>2, <3>3, <3>5 DEF InJob
  <2>2. CASE FinishInTask(t) \/ \E d \in Calls : FinishLater(t, d)
    <3>1. PICK d \in Calls : FinishContext(t, d) /\ InActive(t, d)
      BY <2>2, FinishOf
    <3>2. active' = [active EXCEPT ![t] = Without(@, d)]
      BY <3>1 DEF FinishContext
    <3> QED
      BY <1>1, <3>1, <3>2, ActiveWithout DEF HolderInv
  <2>3. CASE CancelActive(t)
    <3>1. active[t] # <<>> /\ active' = [active EXCEPT ![t] = Tail(@)]
      BY <1>1, <2>3 DEF CancelActive
    <3> QED
      BY <1>1, <3>1, ActiveTail DEF HolderInv
  <2>4. CASE SendStep(t) \/ SyncReturns(t) \/ (\E q \in Queues : ExecuteQueue(t, q)) \/ Exit(t)
               \/ (\E same \in BOOLEAN : Reuse(t, same))
    BY <1>1, <2>4 DEF SendStep, Lookup, LookupFails, Ref, RefRefused, Enqueue, EnqueueFails, Exchange, Post,
       ExchangeMailbox, Notify, Unref, SyncReturns, ExecuteQueue, Exit, Reuse, callVars
  <2>5. CASE CloseMailbox(t) \/ MailboxClosed(t) \/ CancelMail(t) \/ CancelTasks(t)
    BY <1>1, <2>5 DEF CloseMailbox, MailboxClosed, CancelMail, CancelTasks, callVars
  <2>6. CASE Start(t) \/ CheckMailbox(t) \/ LateWake(t) \/ MailReceived(t) \/ NextMail(t)
               \/ ReceiveNotification(t) \/ NextTask(t) \/ RunAnswer(t) \/ QueueDone(t) \/ MailDone(t)
    BY <1>1, <2>6 DEF Start, CheckMailbox, LateWake, MailReceived, NextMail, ReceiveNotification, NextTask,
       RunAnswer, QueueDone, MailDone, callVars
  <2>7. CASE \E s \in Servers, q \in Queues, k \in Kinds, d \in Calls :
                t \in Clients /\ (Issue(t, s, q, k, d) \/ IssueFails(t, s, q, k, d))
    BY <1>1, <2>7 DEF Issue, IssueFails
  <2> QED
    BY <2>1, <2>2, <2>3, <2>4, <2>5, <2>6, <2>7 DEF Acts, ThreadStep, ReceiveStep, ExitStep, ExitInTask
<1> QED
  BY <1>u, <1>0, <1>1

(* A call that is held has been made and has no answer yet.                *)
LEMMA HeldUnanswered ==
    ASSUME TypeOK, Shape, DataInv, NEW c \in Calls, ~Nowhere(c)
    PROVE  Unanswered(c) /\ call[c] # None
<1>1. CASE \E t \in Threads : InActive(t, c)
  BY <1>1 DEF DataInv, ActiveInv, Shape, LocalRefs, InActive
<1>2. CASE \E t \in Threads, q \in Queues : InQueue(t, q, c)
  <2>1. PICK t \in Threads, q \in Queues : InQueue(t, q, c)
    BY <1>2
  <2>2. PICK i \in 1 .. Len(tasks[t][q]) : tasks[t][q][i].call = c
    BY <2>1 DEF InQueue
  <2>3. PICK x \in Tasks : x = tasks[t][q][i]
    BY EmptyIs DEF TypeOK
  <2>4. Carried(x) /\ x.call = c
    BY <2>2, <2>3 DEF Carried
  <2>5. call[c] # None
    BY <2>2 DEF Shape, QueueRefs
  <2> QED
    BY <2>4, <2>5 DEF DataInv, TaskInv
<1>3. CASE \E t \in Threads : InJob(t, c)
  <2>1. PICK t \in Threads : InJob(t, c)
    BY <1>3
  <2>2. pc[t] = "run" /\ job[t].call = c
    BY <2>1 DEF InJob
  <2>3. job[t] # None
    BY <2>2 DEF Shape, Control
  <2>4. PICK x \in Tasks : x = job[t]
    BY <2>3 DEF TypeOK
  <2>5. Carried(x) /\ x.call = c /\ call[c] # None
    BY <2>1, <2>2, <2>3, <2>4 DEF Carried, Shape, LocalRefs
  <2> QED
    BY <2>5 DEF DataInv, TaskInv
<1>4. CASE \E t \in Threads : InSend(t, c)
  <2>1. PICK t \in Threads : InSend(t, c)
    BY <1>4
  <2>2. send[t] # None /\ send[t].task.call = c
    BY <2>1 DEF InSend
  <2>4. PICK x \in Tasks : x = send[t].task
    BY <2>2, SendIs
  <2>5. Carried(x) /\ x.call = c /\ call[c] # None
    BY <2>1, <2>2, <2>4 DEF Carried, Shape, LocalRefs
  <2> QED
    BY <2>5 DEF DataInv, TaskInv
<1> QED
  BY <1>1, <1>2, <1>3, <1>4 DEF Nowhere, Idle, Unqueued


LEMMA JobTask ==
    ASSUME TypeOK, Shape, DataInv, NEW t \in Threads, NEW c \in Calls, InJob(t, c)
    PROVE  job[t] \in Tasks /\ job[t].call = c /\ TaskInv(job[t])
<1>1. pc[t] = "run" /\ job[t].call = c
  BY DEF InJob
<1>2. job[t] # None
  BY <1>1 DEF Shape, Control
<1>3. PICK x \in Tasks : x = job[t]
  BY <1>2 DEF TypeOK
<1>4. Carried(x)
  BY <1>1, <1>3 DEF Carried
<1> QED
  BY <1>1, <1>3, <1>4 DEF DataInv

LEMMA SendTask ==
    ASSUME TypeOK, Shape, DataInv, NEW t \in Threads, NEW c \in Calls, InSend(t, c)
    PROVE  send[t] # None /\ send[t].task \in Tasks /\ send[t].task.call = c /\ TaskInv(send[t].task)
<1>1. send[t] # None /\ send[t].task.call = c
  BY DEF InSend
<1>2. PICK x \in Tasks : x = send[t].task
  BY <1>1, SendIs
<1>3. Carried(x)
  BY <1>1, <1>2 DEF Carried
<1> QED
  BY <1>1, <1>2, <1>3 DEF DataInv

(* While a call is held nobody hears of it.                                *)
LEMMA HeldStays ==
    ASSUME TypeOK, Shape, HolderInv, HolderInv', DataInv, NEW t \in Threads, Acts(t), NEW c \in Calls,
           ~Nowhere(c), ~Nowhere(c)'
    PROVE  /\ call'[c] = call[c] /\ Unanswered(c)'
           /\ runs'[c] = runs[c] \/ Entered(t, c)
           /\ runs[c] > 0 => runs'[c] > 0
<1>t. runs[c] \in Nat
  BY DataTypes
<1>1. SameData(c) \/ Change(t, c)
  BY StepData DEF OneChange
<1>2. Unanswered(c) /\ call[c] # None
  BY HeldUnanswered
<1>3. call'[c] = call[c]
  BY <1>2, CallsKept
<1>4. call[c].kind # "async" => ctx'[c] = "pending"
  <2>1. ContextOf(c)'
    BY DEF HolderInv
  <2> QED
    BY <1>2, <1>3, <2>1 DEF ContextOf
<1>5. CASE SameData(c) \/ Accepted(t, c) \/ Entered(t, c) \/ Settled(t, c)
  <2>1. runs'[c] = runs[c] \/ (Entered(t, c) /\ runs'[c] = runs[c] + 1)
    BY <1>5 DEF SameData, Accepted, Entered, Settled
  <2>2. heard'[c] = heard[c] /\ result'[c] \in {result[c], "true"}
    BY <1>5 DEF SameData, Accepted, Entered, Settled
  <2> QED
    BY <1>t, <1>2, <1>3, <2>1, <2>2 DEF Unanswered
<1>6. CASE Issued(t, c) \/ Refused(c)
  BY <1>2, <1>6 DEF Issued, Refused
<1>7. CASE SendFailed(t, c)
  BY <1>7 DEF SendFailed
<1>8. CASE Returned(t, c)
  <2>1. call[c].kind = "sync" /\ ctx'[c] = "freed"
    BY <1>8 DEF Returned, DataInv, CallerInv
  <2> QED
    BY <1>4, <2>1
<1>9. CASE Answered(t, c)
  <2>1. InJob(t, c) /\ job[t].fn # "func" /\ ctx'[c] = "freed"
    BY <1>9 DEF Answered
  <2>2. call[c].kind # "async"
    BY <2>1, JobTask DEF TaskInv
  <2> QED
    BY <1>4, <2>1, <2>2
<1> QED
  BY <1>1, <1>5, <1>6, <1>7, <1>8, <1>9 DEF Change

LEMMA NewCall ==
    ASSUME TypeOK, Shape, HolderInv, HolderInv', DataInv, NEW t \in Threads, Acts(t), NEW c \in Calls,
           call[c] = None, call'[c] # None, ~Nowhere(c)'
    PROVE  Issued(t, c)
<1>1. SameData(c) \/ Change(t, c)
  BY StepData DEF OneChange
<1>2. Issued(t, c) \/ Refused(c)
  BY <1>1 DEF SameData, Change, SendFailed, Accepted, Returned, Entered, Answered, Settled
<1>3. ~Refused(c)
  <2>1. CallData(c) /\ ContextOf(c)'
    BY DEF DataInv, HolderInv
  <2>2. ctx[c] = "none"
    BY <2>1 DEF CallData
  <2>3. Refused(c) => ctx'[c] = "none" /\ call'[c].kind # "async"
    BY <2>2 DEF Refused
  <2> QED
    BY <2>1, <2>3 DEF ContextOf
<1> QED
  BY <1>2, <1>3

LEMMA TaskNext ==
    ASSUME TypeOK, Shape, HolderInv, HolderInv', DataInv, NEW t \in Threads, Acts(t), NEW x \in Tasks,
           Carried(x)'
    PROVE  TaskInv(x)'
<1>1. PICK c \in Calls : c = x.call
  BY DEF Tasks
<1>2. ~Nowhere(c)'
  BY <1>1 DEF Carried, Nowhere, Idle, Unqueued, InQueue
<1>3. ~Entered(t, c)
  BY <1>1 DEF Carried, Entered, Unqueued, InQueue
<1>4. CASE Carried(x)
  <2>1. ~Nowhere(c) /\ TaskInv(x)
    BY <1>1, <1>4 DEF Carried, Nowhere, Idle, Unqueued, InQueue, DataInv
  <2>2. call'[c] = call[c] /\ Unanswered(c)' /\ runs'[c] = runs[c]
    BY <1>2, <1>3, <2>1, HeldStays
  <2> QED
    BY <1>1, <2>1, <2>2 DEF TaskInv
<1>5. CASE NewTask(t, x)
  <2>1. CASE x.fn = "func"
    <3>1. call[c] = None /\ call'[c] # None
      BY <1>1, <1>5, <2>1 DEF NewTask
    <3>2. Issued(t, c) /\ CallData(c)
      BY <1>2, <3>1, NewCall DEF DataInv
    <3> QED
      BY <1>1, <2>1, <3>1, <3>2 DEF Issued, CallData, TaskInv, Unanswered
  <2>2. CASE x.fn = "callback"
    <3>1. InActive(t, c) /\ call[c].kind \in {"callback", "callback_no_cancel"}
      BY <1>1, <1>5, <2>2 DEF NewTask
    <3>2. ~Nowhere(c) /\ runs[c] > 0
      BY <3>1 DEF Nowhere, Idle, DataInv, ActiveInv
    <3>3. call'[c] = call[c] /\ Unanswered(c)' /\ runs'[c] > 0
      BY <1>2, <3>2, HeldStays
    <3> QED
      BY <1>1, <2>2, <3>1, <3>3 DEF TaskInv
  <2>3. CASE x.fn = "cancel"
    <3>1. ~Nowhere(c) /\ call[c].kind = "callback"
      BY <1>1, <1>5, <2>3 DEF NewTask
    <3>2. call'[c] = call[c] /\ Unanswered(c)'
      BY <1>2, <3>1, HeldStays
    <3> QED
      BY <1>1, <2>3, <3>1, <3>2 DEF TaskInv
  <2> QED
    BY <1>5, <2>1, <2>2, <2>3 DEF NewTask
<1> QED
  BY <1>4, <1>5, CarriedNext

LEMMA ActiveDataNext ==
    ASSUME TypeOK, Shape, HolderInv, HolderInv', DataInv, NEW t \in Threads, Acts(t), NEW u \in Threads,
           NEW c \in Calls, InActive(u, c)'
    PROVE  ActiveInv(c)'
<1>1. ~Nowhere(c)'
  BY DEF Nowhere, Idle
<1>2. CASE InActive(u, c)
  <2>1. ~Nowhere(c) /\ runs[c] > 0
    BY <1>2 DEF Nowhere, Idle, DataInv, ActiveInv
  <2> QED
    BY <1>1, <2>1, HeldStays DEF ActiveInv
<1>3. CASE ~InActive(u, c)
  <2>1. InJob(t, c) /\ \E next \in {"drain", "finish", "exit"} : RunFunction(t, next)
    BY <1>3, ActiveNext
  <2>2. ~Nowhere(c) /\ job[t].call = c
    BY <2>1 DEF Nowhere, Idle, InJob
  <2>3. runs'[c] > 0
    BY <2>1, <2>2, DataTypes DEF RunFunction
  <2>4. Unanswered(c)'
    BY <1>1, <2>2, HeldStays
  <2> QED
    BY <2>3, <2>4 DEF ActiveInv
<1> QED
  BY <1>2, <1>3

(* The call of one thread that is in the middle of it.                     *)
InCall(u, c) ==
    \/ send[u] # None /\ send[u].task.fn = "func" /\ send[u].task.call = c
    \/ pc[u] = "waiting" /\ job[u].call = c

LEMMA CallingStays ==
    ASSUME TypeOK, Shape, HolderInv, Shape', HolderInv', DataInv, NEW t \in Threads, Acts(t),
           NEW u \in Threads, NEW c \in Calls, InCall(u, c), InCall(u, c)', call[c] # None
    PROVE  Calling(u, c)' /\ call'[c] = call[c]
<1>0. CallerInv(u) /\ CallerInv(t) /\ Control(u) /\ Control(t) /\ Control(u)'
  BY DEF DataInv, Shape
<1>1. Calling(u, c)
  BY <1>0 DEF CallerInv, InCall
<1>2. call'[c] = call[c]
  BY CallsKept
<1>3. SameData(c) \/ Change(t, c)
  BY StepData DEF OneChange
<1>4. CASE SameData(c) \/ Entered(t, c)
  BY <1>1, <1>2, <1>4 DEF SameData, Entered, Calling
<1>5. CASE Issued(t, c) \/ Refused(c)
  BY <1>5 DEF Issued, Refused
<1>6. CASE SendFailed(t, c)
  <2>1. InSend(t, c) /\ send'[t] = None /\ ctx'[c] \in {ctx[c], "freed"}
        /\ result'[c] = IF send[t].task.fn = "func" THEN "false" ELSE result[c]
    BY <1>6 DEF SendFailed
  <2>2. send[t] # None /\ TaskInv(send[t].task) /\ send[t].task.call = c
    BY <2>1, SendTask
  <2>3. CASE send[t].task.fn = "func"
    <3>1. u = t
      BY <1>0, <1>1, <2>2, <2>3 DEF CallerInv, Calling
    <3>2. result'[c] # result[c] /\ pc[t] # "waiting"
      BY <1>0, <1>1, <2>1, <2>2, <2>3 DEF Calling, Control
    <3>3. pc'[t] # "waiting"
      BY <3>2, WaitNext DEF callVars
    <3> QED
      BY <2>1, <3>1, <3>3 DEF InCall
  <2>4. CASE send[t].task.fn # "func"
    BY <1>1, <1>2, <2>1, <2>2, <2>4 DEF TaskInv, Calling
  <2> QED
    BY <2>3, <2>4
<1>7. CASE Accepted(t, c)
  <2>1. /\ u = t /\ call[c].kind # "sync" /\ send'[t] = None
        /\ send[t] # None /\ send[t].task.call = c
    BY <1>0, <1>1, <1>7 DEF Accepted, CallerInv, Calling
  <2>2. pc'[t] # "waiting"
    BY <1>0, <2>1, WaitNext DEF Control
  <2> QED
    BY <2>1, <2>2 DEF InCall
<1>8. CASE Returned(t, c)
  <2>1. u = t /\ pc[t] = "waiting" /\ pc'[t] # "waiting"
    BY <1>0, <1>1, <1>8 DEF Returned, CallerInv, Calling
  <2>2. send'[t] # None /\ send'[t].task.fn = "func" /\ send'[t].task.call = c
    BY <2>1 DEF InCall
  <2>3. NewTask(t, send'[t].task)
    BY <1>0, <2>1, <2>2, SendNext DEF SameSend, Control
  <2> QED
    BY <2>2, <2>3 DEF NewTask
<1>9. CASE Answered(t, c)
  <2>1. InJob(t, c) /\ job[t].fn # "func" /\ result'[c] = result[c]
    BY <1>9 DEF Answered
  <2>2. call[c].kind # "sync"
    BY <2>1, JobTask DEF TaskInv
  <2> QED
    BY <1>1, <1>2, <2>1, <2>2 DEF Calling
<1>10. CASE Settled(t, c)
  BY <1>1, <1>2, <1>10 DEF Settled, Calling
<1> QED
  BY <1>2, <1>3, <1>4, <1>5, <1>6, <1>7, <1>8, <1>9, <1>10 DEF Change


LEMMA CallerNext ==
    ASSUME TypeOK, Shape, HolderInv, Shape', HolderInv', DataInv, NEW t \in Threads, Acts(t),
           NEW u \in Threads
    PROVE  CallerInv(u)'
<1>0. /\ send[u] # None => send[u].task.call \in Calls /\ call[send[u].task.call] # None
      /\ job[u] # None => job[u].call \in Calls /\ call[job[u].call] # None
      /\ pc[u] = "waiting" => job[u] # None
      /\ CallerInv(u)
  <2>1. Control(u) /\ LocalRefs(u) /\ CallerInv(u)
    BY DEF Shape, DataInv
  <2>2. send[u] # None => send[u].task.call \in Calls
    BY SendIs
  <2>3. job[u] # None => job[u].call \in Calls
    BY DEF TypeOK, Tasks
  <2> QED
    BY <2>1, <2>2, <2>3 DEF Control, LocalRefs
<1>1. ASSUME send'[u] # None, send'[u].task.fn = "func" 
      PROVE  \E c \in Calls : c = send'[u].task.call /\ Calling(u, c)'
  <2>1. CASE send[u] # None /\ send'[u].task = send[u].task
    <3>1. PICK c \in Calls : c = send[u].task.call
      BY <1>0, <2>1
    <3>2. InCall(u, c) /\ InCall(u, c)' /\ call[c] # None
      BY <1>0, <1>1, <2>1, <3>1 DEF InCall
    <3>3. Calling(u, c)'
      BY <3>2, CallingStays
    <3> QED
      BY <2>1, <3>1, <3>3
  <2>2. CASE u = t /\ NewTask(t, send'[t].task) /\ send'[t].at = "lookup"
    <3>1. PICK c \in Calls : c = send'[t].task.call /\ call[c] = None /\ call'[c] # None
      BY <1>1, <2>2 DEF NewTask
    <3>2. ~Nowhere(c)'
      BY <1>1, <2>2, <3>1 DEF Nowhere, Idle, InSend
    <3>3. Issued(t, c) /\ CallData(c)
      BY <3>1, <3>2, NewCall DEF DataInv
    <3>4. Calling(t, c)'
      BY <3>1, <3>3 DEF Issued, CallData, Calling
    <3> QED
      BY <2>2, <3>1, <3>4
  <2>3. CASE u # t
    BY <1>1, <2>1, <2>3, OnlyActor DEF SameLocals
  <2> QED
    BY <1>1, <2>1, <2>2, <2>3, SendNext DEF SameSend
<1>2. ASSUME pc'[u] = "waiting"
      PROVE  \E c \in Calls : c = job'[u].call /\ Calling(u, c)' /\ call'[c].kind = "sync"
  <2>1. CASE pc[u] = "waiting" /\ job'[u] = job[u]
    <3>1. PICK c \in Calls : c = job[u].call /\ call[c] # None
      BY <1>0, <2>1
    <3>2. InCall(u, c) /\ InCall(u, c)' /\ call[c].kind = "sync"
      BY <1>0, <1>2, <2>1, <3>1 DEF InCall, CallerInv
    <3>3. Calling(u, c)' /\ call'[c] = call[c]
      BY <3>1, <3>2, CallingStays
    <3> QED
      BY <2>1, <3>1, <3>2, <3>3
  <2>2. CASE /\ u = t /\ send[t] # None /\ send[t].task.fn = "func" /\ job'[t] = send[t].task
             /\ call[send[t].task.call].kind = "sync" /\ UNCHANGED callVars
    <3>1. PICK c \in Calls : c = send[t].task.call
      BY <1>0, <2>2
    <3>2. Calling(t, c) /\ call'[c] = call[c] /\ ctx'[c] = ctx[c] /\ result'[c] = result[c]
      BY <1>0, <2>2, <3>1 DEF CallerInv, callVars
    <3>3. Calling(t, c)'
      BY <3>2 DEF Calling
    <3> QED
      BY <2>2, <3>1, <3>2, <3>3
  <2>3. CASE u # t
    BY <1>2, <2>1, <2>3, OnlyActor DEF SameLocals
  <2> QED
    BY <1>2, <2>1, <2>2, <2>3, WaitNext
<1> QED
  BY <1>1, <1>2 DEF CallerInv, Calling

LEMMA CallDataNext ==
    ASSUME TypeOK, Shape, HolderInv, DataInv, NEW t \in Threads, Acts(t), NEW c \in Calls
    PROVE  CallData(c)'
<1>0. CallData(c) /\ CallerInv(t)
  BY DEF DataInv
<1>t. runs[c] \in Nat
  BY DataTypes
<1>h. ~Nowhere(c) => Unanswered(c) /\ call[c] # None
  BY HeldUnanswered
<1>1. CASE SameData(c)
  BY <1>0, <1>1 DEF SameData, CallData
<1>2. CASE Issued(t, c)
  BY <1>0, <1>2 DEF Issued, CallData
<1>3. CASE Refused(c)
  BY <1>0, <1>3 DEF Refused, CallData
<1>4. CASE SendFailed(t, c)
  <2>1. ~Nowhere(c)
    BY <1>4 DEF SendFailed, Nowhere, Idle
  <2> QED
    BY <1>0, <1>4, <1>h, <2>1 DEF SendFailed, CallData, Unanswered
<1>5. CASE Accepted(t, c)
  <2>1. call[c] # None
    BY <1>5 DEF Accepted, Shape, LocalRefs
  <2> QED
    BY <1>0, <1>5, <2>1 DEF Accepted, CallData
<1>6. CASE Returned(t, c)
  <2>1. call[c] # None /\ call[c].kind = "sync"
    BY <1>0, <1>6 DEF Returned, CallerInv, Shape, LocalRefs, Control
  <2> QED
    BY <1>0, <1>6, <2>1 DEF Returned, CallData
<1>7. CASE Entered(t, c)
  <2>1. ~Nowhere(c)
    BY <1>7 DEF Entered, Nowhere, Idle
  <2> QED
    BY <1>0, <1>t, <1>7, <1>h, <2>1 DEF Entered, CallData
<1>8. CASE Answered(t, c)
  <2>1. InJob(t, c) /\ ~Nowhere(c) /\ job[t].fn # "func" /\ call'[c] = call[c]
    BY <1>8 DEF Answered, Nowhere, Idle
  <2>2. call[c].kind \in {"callback", "callback_no_cancel"}
    BY <2>1, JobTask DEF TaskInv
  <2> QED
    BY <1>0, <1>8, <1>h, <2>1, <2>2 DEF Answered, CallData
<1>9. CASE Settled(t, c)
  <2>1. ~Nowhere(c) /\ ctx[c] = "pending"
    BY <1>9 DEF Settled
  <2>2. InActive(t, c) => runs[c] > 0
    BY DEF DataInv, ActiveInv
  <2>3. heard[c] = "nothing" /\ call[c] # None
    BY <1>h, <2>1 DEF Unanswered
  <2> QED
    BY <1>0, <1>9, <2>1, <2>2, <2>3 DEF Settled, CallData
<1> QED
  BY <1>1, <1>2, <1>3, <1>4, <1>5, <1>6, <1>7, <1>8, <1>9, StepData DEF OneChange, Change

LEMMA DataInit == Init => DataInv
<1> SUFFICES ASSUME Init PROVE DataInv
  OBVIOUS
<1>1. \A u \in Threads : /\ active[u] = <<>> /\ pc[u] = "starting" /\ send[u] = None
                         /\ \A q \in Queues : tasks[u][q] = <<>>
  BY DEF Init
<1>2. \A c \in Calls : /\ ctx[c] = "none" /\ call[c] = None /\ result[c] = "nothing"
                       /\ heard[c] = "nothing" /\ runs[c] = 0
  BY DEF Init
<1>3. \A x : ~Carried(x)
  BY <1>1 DEF Carried, InJob, InSend
<1>4. \A u \in Threads, c \in Calls : ~InActive(u, c)
  BY <1>1 DEF InActive
<1>5. \A u \in Threads : CallerInv(u)
  BY <1>1 DEF CallerInv
<1>6. \A c \in Calls : CallData(c)
  BY <1>2 DEF CallData
<1> QED
  BY <1>3, <1>4, <1>5, <1>6 DEF DataInv

LEMMA DataFrame ==
    ASSUME DataInv, UNCHANGED <<tasks, active, pc, job, send, callVars>>
    PROVE  DataInv'
<1>0. call' = call /\ ctx' = ctx /\ result' = result /\ heard' = heard /\ runs' = runs
  BY DEF callVars
<1>1. \A x \in Tasks : (Carried(x)' <=> Carried(x)) /\ (TaskInv(x)' <=> TaskInv(x))
  BY <1>0 DEF Carried, InJob, InSend, TaskInv, Unanswered
<1>2. \A u \in Threads, c \in Calls : (InActive(u, c)' <=> InActive(u, c)) /\ (ActiveInv(c)' <=> ActiveInv(c))
  BY <1>0 DEF InActive, ActiveInv, Unanswered
<1>3. \A u \in Threads : CallerInv(u)' <=> CallerInv(u)
  BY <1>0 DEF CallerInv, Calling
<1>4. \A c \in Calls : CallData(c)' <=> CallData(c)
  BY <1>0 DEF CallData
<1> QED
  BY <1>1, <1>2, <1>3, <1>4 DEF DataInv

LEMMA DataStep ==
    TypeOK /\ Shape /\ Shape' /\ HolderInv /\ HolderInv' /\ DataInv /\ [Next]_vars => DataInv'
<1> SUFFICES ASSUME TypeOK, Shape, Shape', HolderInv, HolderInv', DataInv, [Next]_vars
             PROVE  DataInv'
  OBVIOUS
<1>1. CASE UNCHANGED vars
  <2>1. UNCHANGED <<tasks, active, pc, job, send, callVars>>
    BY <1>1 DEF vars, callVars, queueVars, threadVars
  <2> QED
    BY <2>1, DataFrame
<1>2. ASSUME NEW q \in Queues, DestroyQueue(q) PROVE DataInv'
  <2>1. UNCHANGED <<tasks, active, pc, job, send, callVars>>
    BY <1>2 DEF DestroyQueue, callVars, threadVars
  <2> QED
    BY <2>1, DataFrame
<1>3. ASSUME NEW t \in Threads, Acts(t) PROVE DataInv'
  <2>1. \A c \in Calls : CallData(c)'
    BY <1>3, CallDataNext
  <2>2. \A x \in Tasks : Carried(x)' => TaskInv(x)'
    BY <1>3, TaskNext
  <2>3. \A u \in Threads, c \in Calls : InActive(u, c)' => ActiveInv(c)'
    BY <1>3, ActiveDataNext
  <2>4. \A u \in Threads : CallerInv(u)'
    BY <1>3, CallerNext
  <2> QED
    BY <2>1, <2>2, <2>3, <2>4 DEF DataInv
<1> QED
  BY <1>1, <1>2, <1>3, NextIs


(***************************************************************************)
(* The promise is kept.                                                    *)
(***************************************************************************)

(* A call that was made and whose caller has no answer yet.                *)
Underway(c) ==
    /\ call[c] # None /\ result[c] # "false" /\ heard[c] = "nothing"
    /\ IF call[c].kind = "sync" THEN result[c] # "true" ELSE ctx[c] # "freed"

StatusFacts(c) ==
    /\ call[c] = None => Status(c) = "unused"
    /\ call[c] # None /\ result[c] = "false" /\ heard[c] = "nothing" => Status(c) = "failed"
    /\ call[c] # None /\ heard[c] = "cancel" /\ call[c].kind # "sync" => Status(c) = "failed"
    /\ call[c] # None /\ result[c] # "false" /\ heard[c] = "callback" => Status(c) = "completed"
    /\ call[c] # None /\ result[c] = "true" /\ heard[c] = "nothing" /\ call[c].kind = "sync"
          => Status(c) = "completed"
    /\ call[c] # None /\ result[c] # "false" /\ heard[c] = "nothing" /\ ctx[c] = "freed"
          /\ call[c].kind # "sync" => Status(c) = "dropped"
    /\ Underway(c) => Status(c) = IF runs[c] = 0 THEN "issued" ELSE "running"

LEMMA StatusIs == ASSUME NEW c \in Calls PROVE StatusFacts(c) /\ StatusFacts(c)'
<1>2. StatusFacts(c)
  BY DEF StatusFacts, Status, Underway
<1>3. StatusFacts(c)'
  BY DEF StatusFacts, Status, Underway
<1> QED
  BY <1>2, <1>3

LEMMA HeldUnderway ==
    ASSUME TypeOK, Shape, HolderInv, DataInv, NEW c \in Calls, ~Nowhere(c)
    PROVE  Underway(c) /\ Unanswered(c) /\ call[c] # None
<1>1. Unanswered(c) /\ call[c] # None
  BY HeldUnanswered
<1>2. ContextOf(c) /\ CallData(c)
  BY DEF HolderInv, DataInv
<1>3. call[c].kind # "async" => ctx[c] = "pending"
  BY <1>1, <1>2 DEF ContextOf
<1> QED
  BY <1>1, <1>2, <1>3 DEF Underway, Unanswered, CallData

(* How the state of a call may change, as its caller sees it.              *)
Progress(c) ==
    \/ /\ runs'[c] = runs[c]
       /\ \/ Status(c)' = Status(c)
          \/ Status(c) = "unused" /\ Status(c)' \in {"issued", "failed"}
          \/ Status(c) = "running" /\ Status(c)' = "completed"
          \/ Status(c) \in {"issued", "running"} /\ Status(c)' \in {"failed", "dropped"}
    \/ runs'[c] = runs[c] + 1 /\ Status(c) = "issued" /\ Status(c)' = "running"

LEMMA SettledProgress ==
    ASSUME TypeOK, Shape, HolderInv, DataInv, NEW t \in Threads, NEW c \in Calls,
           SendFailed(t, c) \/ Answered(t, c) \/ Settled(t, c) \/ Entered(t, c)
    PROVE  Progress(c)
<1>t. runs[c] \in Nat
  BY DataTypes
<1>s. StatusFacts(c) /\ StatusFacts(c)'
  BY StatusIs
<1>0. ~Nowhere(c)
  BY DEF SendFailed, Answered, Settled, Entered, Nowhere, Idle
<1>1. Underway(c) /\ Unanswered(c) /\ call[c] # None
  BY <1>0, HeldUnderway
<1>2. Status(c) = IF runs[c] = 0 THEN "issued" ELSE "running"
  BY <1>1, <1>s DEF StatusFacts
<1>3. CASE SendFailed(t, c)
  <2>1. /\ InSend(t, c) /\ call'[c] = call[c] /\ heard'[c] = heard[c] /\ runs'[c] = runs[c]
        /\ ctx'[c] = IF call[c].kind = "async" THEN ctx[c] ELSE "freed"
        /\ result'[c] = IF send[t].task.fn = "func" THEN "false" ELSE result[c]
    BY <1>3 DEF SendFailed
  <2>2. TaskInv(send[t].task) /\ send[t].task.call = c
    BY <2>1, SendTask
  <2>3. CASE send[t].task.fn = "func"
    <3>1. Status(c)' = "failed"
      BY <1>1, <1>s, <2>1, <2>3 DEF StatusFacts, Unanswered
    <3> QED
      BY <1>2, <2>1, <3>1 DEF Progress
  <2>4. CASE send[t].task.fn # "func"
    <3>1. call[c].kind \in {"callback", "callback_no_cancel"}
      BY <2>2, <2>4 DEF TaskInv
    <3>2. Status(c)' = "dropped"
      BY <1>1, <1>s, <2>1, <2>4, <3>1 DEF StatusFacts, Unanswered
    <3> QED
      BY <1>2, <2>1, <3>2 DEF Progress
  <2> QED
    BY <2>3, <2>4
<1>4. CASE Answered(t, c)
  <2>1. /\ InJob(t, c) /\ job[t].fn # "func" /\ heard'[c] = job[t].fn
        /\ call'[c] = call[c] /\ result'[c] = result[c] /\ runs'[c] = runs[c]
    BY <1>4 DEF Answered
  <2>2. job[t] \in Tasks /\ TaskInv(job[t]) /\ job[t].call = c
    BY <2>1, JobTask
  <2>3. call[c].kind # "sync" /\ job[t].fn \in {"callback", "cancel"}
    BY <2>1, <2>2 DEF TaskInv, Tasks
  <2>4. CASE job[t].fn = "callback"
    <3>1. Status(c)' = "completed"
      BY <1>1, <1>s, <2>1, <2>4 DEF StatusFacts, Unanswered
    <3>2. runs[c] > 0
      BY <2>2, <2>4 DEF TaskInv
    <3> QED
      BY <1>t, <1>2, <2>1, <3>1, <3>2 DEF Progress
  <2>5. CASE job[t].fn = "cancel"
    <3>1. Status(c)' = "failed"
      BY <1>1, <1>s, <2>1, <2>3, <2>5 DEF StatusFacts
    <3> QED
      BY <1>2, <2>1, <3>1 DEF Progress
  <2> QED
    BY <2>3, <2>4, <2>5
<1>5. CASE Settled(t, c)
  <2>1. /\ call'[c] = call[c] /\ result'[c] = result[c] /\ heard'[c] = heard[c] /\ runs'[c] = runs[c]
        /\ call[c].kind = "sync" \/ (call[c].kind # "sync" /\ ctx'[c] = "freed")
    BY <1>5 DEF Settled
  <2>2. CASE call[c].kind = "sync"
    <3>1. Underway(c)'
      BY <1>1, <2>1, <2>2 DEF Underway
    <3>2. Status(c)' = Status(c)
      BY <1>2, <1>s, <2>1, <3>1 DEF StatusFacts
    <3> QED
      BY <2>1, <3>2 DEF Progress
  <2>3. CASE call[c].kind # "sync" /\ ctx'[c] = "freed"
    <3>1. Status(c)' = "dropped"
      BY <1>1, <1>s, <2>1, <2>3 DEF StatusFacts, Unanswered
    <3> QED
      BY <1>2, <2>1, <3>1 DEF Progress
  <2> QED
    BY <2>1, <2>2, <2>3
<1>6. CASE Entered(t, c)
  <2>1. /\ InJob(t, c) /\ job[t].fn = "func" /\ runs'[c] = runs[c] + 1
        /\ call'[c] = call[c] /\ ctx'[c] = ctx[c] /\ result'[c] = result[c] /\ heard'[c] = heard[c]
    BY <1>6 DEF Entered
  <2>2. runs[c] = 0
    BY <2>1, JobTask DEF TaskInv
  <2>3. Underway(c)'
    BY <1>1, <2>1 DEF Underway
  <2>4. Status(c)' = "running"
    BY <1>s, <2>1, <2>2, <2>3 DEF StatusFacts
  <2> QED
    BY <1>2, <2>1, <2>2, <2>4 DEF Progress
<1> QED
  BY <1>3, <1>4, <1>5, <1>6

LEMMA CallProgress ==
    ASSUME TypeOK, Shape, HolderInv, DataInv, NEW t \in Threads, NEW c \in Calls, Change(t, c)
    PROVE  Progress(c)
<1>t. runs[c] \in Nat /\ ctx[c] \in {"none", "pending", "done", "canceled", "freed"}
  BY DataTypes
<1>s. StatusFacts(c) /\ StatusFacts(c)'
  BY StatusIs
<1>0. CallData(c) /\ CallerInv(t)
  BY DEF DataInv
<1>1. CASE Issued(t, c)
  <2>1. call[c] = None /\ result[c] = "nothing" /\ heard[c] = "nothing" /\ runs[c] = 0
    BY <1>0, <1>1 DEF Issued, CallData
  <2>2. Underway(c)' /\ runs'[c] = runs[c]
    BY <1>1, <2>1 DEF Issued, Underway
  <2>3. Status(c) = "unused" /\ Status(c)' = "issued"
    BY <1>s, <2>1, <2>2 DEF StatusFacts
  <2> QED
    BY <2>2, <2>3 DEF Progress
<1>2. CASE Refused(c)
  <2>1. call[c] = None /\ heard[c] = "nothing"
    BY <1>0, <1>2 DEF Refused, CallData
  <2>2. Status(c) = "unused" /\ Status(c)' = "failed" /\ runs'[c] = runs[c]
    BY <1>2, <1>s, <2>1 DEF StatusFacts, Refused
  <2> QED
    BY <2>2 DEF Progress
<1>3. CASE SendFailed(t, c) \/ Answered(t, c) \/ Settled(t, c) \/ Entered(t, c)
  BY <1>3, SettledProgress
<1>4. CASE Accepted(t, c)
  <2>1. /\ call[c] # None /\ result[c] = "nothing" /\ result'[c] = "true" /\ call[c].kind # "sync"
        /\ call'[c] = call[c] /\ ctx'[c] = ctx[c] /\ heard'[c] = heard[c] /\ runs'[c] = runs[c]
    BY <1>0, <1>4 DEF Accepted, CallerInv, Calling, Shape, LocalRefs
  <2>2. CASE heard[c] = "nothing" /\ ctx[c] # "freed"
    <3>1. Underway(c) /\ Underway(c)'
      BY <2>1, <2>2 DEF Underway
    <3> QED
      BY <1>s, <2>1, <3>1 DEF StatusFacts, Progress
  <2>3. CASE heard[c] # "nothing" \/ ctx[c] = "freed"
    <3>1. heard[c] \in {"nothing", "callback", "cancel"}
      BY DataTypes
    <3>2. Status(c)' = Status(c)
      BY <1>s, <2>1, <2>3, <3>1 DEF StatusFacts
    <3> QED
      BY <2>1, <3>2 DEF Progress
  <2> QED
    BY <2>2, <2>3
<1>5. CASE Returned(t, c)
  <2>1. /\ call[c] # None /\ result[c] = "nothing" /\ call[c].kind = "sync" /\ ctx[c] # "freed"
        /\ call'[c] = call[c] /\ heard'[c] = heard[c] /\ runs'[c] = runs[c]
        /\ result'[c] = IF ctx[c] = "done" THEN "true" ELSE "false"
    BY <1>0, <1>5 DEF Returned, CallerInv, Calling, Shape, LocalRefs, Control
  <2>2. heard[c] = "nothing" /\ (ctx[c] = "done" => runs[c] > 0)
    BY <1>0, <2>1 DEF CallData
  <2>3. Underway(c)
    BY <2>1, <2>2 DEF Underway
  <2>4. Status(c) = IF runs[c] = 0 THEN "issued" ELSE "running"
    BY <1>s, <2>3 DEF StatusFacts
  <2>5. Status(c)' = IF ctx[c] = "done" THEN "completed" ELSE "failed"
    BY <1>s, <2>1, <2>2 DEF StatusFacts
  <2> QED
    BY <1>t, <2>1, <2>2, <2>4, <2>5 DEF Progress
<1> QED
  BY <1>1, <1>2, <1>3, <1>4, <1>5 DEF Change

LEMMA PromiseInit == Init => Promise!Init
<1> SUFFICES ASSUME Init PROVE Promise!Init
  OBVIOUS
<1>1. \A c \in Calls : Status(c) = "unused"
  BY StatusIs DEF Init, StatusFacts
<1>2. runs = [c \in Calls |-> 0]
  BY DEF Init
<1> QED
  BY <1>1, <1>2 DEF Promise!Init

(* A step changes the state of one call, in one of the ways RemoteCall    *)
(* allows, or of none.                                                    *)
LEMMA PromiseChange ==
    ASSUME TypeOK, TypeOK', NEW c \in Calls, Progress(c),
           \A d \in Calls : d # c => Status(d)' = Status(d) /\ runs'[d] = runs[d]
    PROVE  Promise!Next \/ UNCHANGED Promise!callVars
<1> DEFINE st == [d \in Calls |-> Status(d)]
<1>t. runs \in [Calls -> Nat] /\ runs' \in [Calls -> Nat]
  BY DEF TypeOK
<1>1. st[c] = Status(c) /\ st'[c] = Status(c)'
  OBVIOUS
<1>2. CASE Status(c)' = Status(c) /\ runs'[c] = runs[c]
  <2>1. runs' = runs
    BY <1>t, <1>2
  <2>2. st' = st
    BY <1>2
  <2> QED
    BY <2>1, <2>2 DEF Promise!callVars
<1>3. CASE runs'[c] = runs[c]
  <2>1. runs' = runs
    BY <1>t, <1>3
  <2>2. ASSUME NEW s, Status(c)' = s PROVE st' = [st EXCEPT ![c] = s]
    BY <2>2
  <2>3. ASSUME NEW s, Status(c)' = s PROVE Promise!Becomes(c, s)
    BY <2>1, <2>2, <2>3 DEF Promise!Becomes
  <2>4. CASE Status(c)' = Status(c)
    BY <1>2, <1>3, <2>4
  <2>5. CASE Status(c) = "unused" /\ Status(c)' = "issued"
    BY <1>1, <2>3, <2>5 DEF Promise!Next, Promise!Issue
  <2>6. CASE Status(c) \in {"unused", "issued", "running"} /\ Status(c)' = "failed"
    BY <1>1, <2>3, <2>6 DEF Promise!Next, Promise!Fail
  <2>7. CASE Status(c) = "running" /\ Status(c)' = "completed"
    BY <1>1, <2>3, <2>7 DEF Promise!Next, Promise!Complete
  <2>8. CASE Status(c) \in {"issued", "running"} /\ Status(c)' = "dropped"
    BY <1>1, <2>3, <2>8 DEF Promise!Next, Promise!Drop
  <2> QED
    BY <1>3, <1>t, <2>4, <2>5, <2>6, <2>7, <2>8 DEF Progress
<1>4. CASE runs'[c] = runs[c] + 1 /\ Status(c) = "issued" /\ Status(c)' = "running"
  <2>1. runs' = [runs EXCEPT ![c] = @ + 1]
    BY <1>t, <1>4
  <2>2. st' = [st EXCEPT ![c] = "running"]
    BY <1>4
  <2>3. Promise!Run(c)
    BY <1>1, <1>4, <2>1, <2>2 DEF Promise!Run
  <2> QED
    BY <2>3 DEF Promise!Next
<1> QED
  BY <1>3, <1>4 DEF Progress

LEMMA SameStatus ==
    ASSUME NEW c \in Calls, SameData(c)
    PROVE  Status(c)' = Status(c) /\ runs'[c] = runs[c]
  BY DEF SameData, Status

LEMMA PromiseStep ==
    TypeOK /\ TypeOK' /\ Shape /\ HolderInv /\ DataInv /\ [Next]_vars => [Promise!Next]_(Promise!callVars)
<1> SUFFICES ASSUME TypeOK, TypeOK', Shape, HolderInv, DataInv, [Next]_vars
             PROVE  Promise!Next \/ UNCHANGED Promise!callVars
  OBVIOUS
<1>1. CASE \A d \in Calls : SameData(d)
  <2>1. \A d \in Calls : Status(d)' = Status(d)
    BY <1>1, SameStatus
  <2>2. runs' = runs
    BY <1>1 DEF SameData, TypeOK
  <2> QED
    BY <2>1, <2>2 DEF Promise!callVars
<1>2. ASSUME NEW t \in Threads, Acts(t)
      PROVE  Promise!Next \/ UNCHANGED Promise!callVars
  <2>1. OneChange(t)
    BY <1>2, StepData
  <2>2. CASE \E c \in Calls : Change(t, c) /\ \A d \in Calls : d # c => SameData(d)
    <3>1. PICK c \in Calls : Change(t, c) /\ \A d \in Calls : d # c => SameData(d)
      BY <2>2
    <3>2. Progress(c)
      BY <3>1, CallProgress
    <3>3. \A d \in Calls : d # c => Status(d)' = Status(d) /\ runs'[d] = runs[d]
      BY <3>1, SameStatus
    <3> QED
      BY <3>2, <3>3, PromiseChange
  <2> QED
    BY <1>1, <2>1, <2>2 DEF OneChange
<1>3. CASE UNCHANGED vars \/ \E q \in Queues : DestroyQueue(q)
  BY <1>1, <1>3 DEF vars, callVars, DestroyQueue, SameData
<1> QED
  BY <1>2, <1>3, NextIs

(* The inductive invariant of the promise.                                 *)
CallInv == HoldInv /\ DataInv

LEMMA CallInvariant == Spec => []CallInv
<1>1. Init => CallInv
  BY TypeInit, ShapeInit, RefInit, HolderInit, DataInit DEF CallInv, HoldInv, CountInv
<1>2. CallInv /\ [Next]_vars => CallInv'
  BY TypeStep, ShapeStep, RefNext, HolderNext, DataStep DEF CallInv, HoldInv, CountInv
<1> QED
  BY <1>1, <1>2, PTL DEF Spec

(* emscripten/proxying.h, through the mailboxes, the task queues and the   *)
(* event loops: the function of a call runs at most once, its caller hears *)
(* one answer, hears success only after the function has run, and after    *)
(* that nothing happens to the call.                                       *)
THEOREM PromiseIsKept == Spec => KeepsPromise
<1>1. CallInv /\ CallInv' /\ [Next]_vars => [Promise!Next]_(Promise!callVars)
  BY PromiseStep DEF CallInv, HoldInv, CountInv
<1> QED
  BY <1>1, PromiseInit, CallInvariant, PTL DEF Spec, KeepsPromise, Promise!Spec
=============================================================================
