------------------------ MODULE ThreadLifecycleProofs ------------------------
(***************************************************************************)
(* For every number of threads, Workers and creations, in both kinds of    *)
(* build: a thread is cleaned up once, and nobody uses a freed block.      *)
(***************************************************************************)
EXTENDS ThreadLifecycle, FiniteSetTheorems, TLAPS

-----------------------------------------------------------------------------
(* The parts of the inductive invariant.                                   *)

Making == {"spawn", "spawning", "undo"}
Joining == {"join", "wait", "asleep"}

Makes(t, b) == pc[t] \in Making /\ arg[t] = b
Joins(t, b) == pc[t] \in Joining /\ arg[t] = b

Message(cmd, b) == [cmd |-> cmd, thread |-> b]

Sent(box, m) == \E w \in WebWorkers : \E i \in DOMAIN box[w] : box[w][i] = m

(* No two messages are about one thread. *)
SentOnce(box) ==
    \A v, w \in WebWorkers : \A i \in DOMAIN box[v], j \in DOMAIN box[w] :
        box[v][i].thread = box[w][j].thread => v = w /\ i = j

Cleaning(b) == Sent(outbox, Message("cleanupThread", b))
Posted(b) == Sent(outbox, Message("spawnThread", b))

(* The thread has run, and has left its Worker. *)
Ended(b) == hosts[b] # None /\ pc[b] = "none" /\ inbox[hosts[b]] = <<>>

(* PThread.pthreads and pthread_ptr agree; a Worker is pooled without a    *)
(* thread, and sent the one it has, before it runs.                        *)
WorkersInv ==
    /\ \A b \in Blocks : hosts[b] # None => ptr[hosts[b]] = b
    /\ \A w \in WebWorkers : ptr[w] # None => hosts[ptr[w]] = w
    /\ \A w \in unused : ptr[w] = None
    /\ \A w \in WebWorkers :
          inbox[w] # <<>> => ptr[w] # None /\ inbox[w] = <<ptr[w]>> /\ pc[ptr[w]] = "none"
    /\ \A b \in Blocks : pc[b] # "none" => hosts[b] # None

(* What detach_state and the thread list say of a thread. *)
StatesInv ==
    /\ \A b \in Blocks : block[b] = "used" /\ detach[b] = "exited" => Ended(b)
    /\ \A b \in Blocks : detach[b] = "exiting" <=> pc[b] = "publish"
    /\ \A b \in Blocks : Ended(b) \/ pc[b] \in {"cas", "publish"} => b \notin listed

(* A block that is not in use is not known to anybody. *)
FreeInv ==
    \A b \in Blocks : block[b] # "used" =>
        /\ hosts[b] = None /\ b \notin listed \cup owed
        /\ ~Cleaning(b) /\ ~Posted(b)
        /\ \A t \in Threads : ~Makes(t, b) /\ ~Joins(t, b)

(* A call that is about a thread names it. *)
ArgsInv == \A t \in Threads : pc[t] \in Making \cup Joining => arg[t] # None

(* A block has one creator, until its Worker is found or asked for. *)
MakersInv ==
    /\ \A t, u \in Threads : \A b \in Blocks : Makes(t, b) /\ Makes(u, b) => t = u
    /\ \A t, u \in Threads : \A b \in Blocks : Makes(t, b) =>
          hosts[b] = None /\ b \notin owed /\ ~Cleaning(b) /\ ~Posted(b) /\ ~Joins(u, b)

(* At most one party is to give the thread up: somebody who may still join *)
(* or detach it, its one joiner, a message, or the thread itself when it   *)
(* is detached (which may fail to join itself).                            *)
ClaimsInv ==
    /\ \A t, u \in Threads : \A b \in Blocks : Joins(t, b) /\ Joins(u, b) => t = u
    /\ \A t \in Threads : \A b \in owed : ~Joins(t, b)
    /\ \A b \in owed : detach[b] # "detached"
    /\ \A t \in Threads : \A b \in Blocks :
          Joins(t, b) /\ detach[b] = "detached" => t = b /\ pc[t] = "join"

MailInv ==
    /\ SentOnce(outbox)
    /\ \A b \in Blocks : Posted(b) => hosts[b] = None
    /\ \A b \in Blocks : Cleaning(b) => Ended(b) /\ b \notin owed
    /\ \A b \in Blocks : Cleaning(b) => \A t \in Threads : ~Joins(t, b)

LifecycleInv ==
    /\ TypeOK /\ ArgsInv /\ WorkersInv /\ StatesInv
    /\ FreeInv /\ MakersInv /\ ClaimsInv /\ MailInv

-----------------------------------------------------------------------------
(* The messages to the main thread.                                        *)

Messages == [cmd : {"cleanupThread", "spawnThread"}, thread : Blocks]
Boxes == [WebWorkers -> Seq(Messages)]

(* A message is posted: it is the only one about its thread. *)
LEMMA PostedOnce ==
    ASSUME NEW box \in Boxes, NEW h \in WebWorkers, NEW m \in Messages, SentOnce(box),
           \A n \in Messages : Sent(box, n) => n.thread # m.thread
    PROVE  LET after == [box EXCEPT ![h] = Append(@, m)] IN
           /\ after \in Boxes
           /\ SentOnce(after)
           /\ \A n \in Messages : Sent(after, n) <=> Sent(box, n) \/ n = m
  <1> DEFINE after == [box EXCEPT ![h] = Append(@, m)]
  <1>1. /\ after \in Boxes
        /\ \A w \in WebWorkers \ {h} : after[w] = box[w]
        /\ after[h] = Append(box[h], m)
    BY DEF Boxes
  <1>2. /\ Len(box[h]) \in Nat /\ DOMAIN box[h] = 1 .. Len(box[h])
        /\ DOMAIN after[h] = 1 .. Len(box[h]) + 1
        /\ \A i \in DOMAIN box[h] : after[h][i] = box[h][i]
        /\ after[h][Len(box[h]) + 1] = m
    BY <1>1 DEF Boxes
  <1>3. \A w \in WebWorkers : \A i \in DOMAIN box[w] :
            i \in DOMAIN after[w] /\ after[w][i] = box[w][i] /\ box[w][i] \in Messages
    BY <1>1, <1>2 DEF Boxes
  <1>4. \A w \in WebWorkers : \A i \in DOMAIN after[w] :
            \/ i \in DOMAIN box[w] /\ after[w][i] = box[w][i]
            \/ w = h /\ i = Len(box[h]) + 1 /\ after[w][i] = m
    BY <1>1, <1>2
  <1>5. \A w \in WebWorkers : \A i \in DOMAIN box[w] : box[w][i].thread # m.thread
    BY <1>3 DEF Sent
  <1> HIDE DEF after
  <1>6. SentOnce(after)
    BY <1>3, <1>4, <1>5 DEF SentOnce
  <1>7. \A n \in Messages : Sent(after, n) <=> Sent(box, n) \/ n = m
    BY <1>2, <1>3, <1>4 DEF Sent
  <1> QED BY <1>1, <1>6, <1>7 DEF after

(* A message is taken: there is none about its thread any more. *)
LEMMA TakenOnce ==
    ASSUME NEW box \in Boxes, NEW h \in WebWorkers, box[h] # <<>>, SentOnce(box)
    PROVE  LET after == [box EXCEPT ![h] = Tail(@)]
               m == Head(box[h])
           IN
           /\ after \in Boxes
           /\ SentOnce(after)
           /\ m \in Messages /\ Sent(box, m)
           /\ \A n \in Messages : Sent(after, n) <=> Sent(box, n) /\ n # m
           /\ \A n \in Messages : Sent(after, n) => n.thread # m.thread
  <1> DEFINE after == [box EXCEPT ![h] = Tail(@)]
             m == Head(box[h])
             back(w, i) == IF w = h THEN i + 1 ELSE i
  <1>1. /\ after \in Boxes
        /\ \A w \in WebWorkers \ {h} : after[w] = box[w]
        /\ after[h] = Tail(box[h])
    BY DEF Boxes
  <1>2. /\ Len(box[h]) \in Nat /\ DOMAIN box[h] = 1 .. Len(box[h])
        /\ m = box[h][1] /\ 1 \in DOMAIN box[h] /\ m \in Messages
        /\ DOMAIN after[h] = 1 .. Len(box[h]) - 1
        /\ \A i \in DOMAIN after[h] : after[h][i] = box[h][i + 1]
    BY <1>1 DEF Boxes
  <1>a. \A w \in WebWorkers : /\ DOMAIN box[w] = 1 .. Len(box[w]) /\ Len(box[w]) \in Nat
                              /\ DOMAIN after[w] = 1 .. Len(after[w]) /\ Len(after[w]) \in Nat
                              /\ \A i \in DOMAIN box[w] : box[w][i] \in Messages
    BY <1>1 DEF Boxes
  <1>3. \A w \in WebWorkers : \A i \in DOMAIN after[w] :
            /\ i \in Nat /\ back(w, i) \in DOMAIN box[w] /\ after[w][i] = box[w][back(w, i)]
            /\ ~(w = h /\ back(w, i) = 1)
    BY <1>1, <1>2, <1>a
  <1>4. \A w \in WebWorkers : \A i \in DOMAIN box[w] :
            ~(w = h /\ i = 1) => \E j \in DOMAIN after[w] : after[w][j] = box[w][i]
    <2> TAKE w \in WebWorkers
    <2> TAKE i \in DOMAIN box[w]
    <2> HAVE ~(w = h /\ i = 1)
    <2>1. CASE w # h
      BY <2>1, <1>1
    <2>2. CASE w = h
      <3>1. i - 1 \in DOMAIN after[h] /\ (i - 1) + 1 = i
        BY <2>2, <1>2
      <3> QED BY <3>1, <2>2, <1>2
    <2> QED BY <2>1, <2>2
  <1>5. \A w \in WebWorkers : \A i \in DOMAIN box[w] :
            box[w][i].thread = m.thread => w = h /\ i = 1
    BY <1>2 DEF SentOnce
  <1>6. \A v, w \in WebWorkers : \A i \in DOMAIN after[v], j \in DOMAIN after[w] :
            v = w /\ back(v, i) = back(w, j) => i = j
    BY <1>3
  <1> HIDE DEF after, m, back
  <1>7. SentOnce(after)
    <2> SUFFICES ASSUME NEW v \in WebWorkers, NEW w \in WebWorkers,
                        NEW i \in DOMAIN after[v], NEW j \in DOMAIN after[w],
                        after[v][i].thread = after[w][j].thread
                 PROVE  v = w /\ i = j
      BY DEF SentOnce
    <2>1. v = w /\ back(v, i) = back(w, j)
      BY <1>3 DEF SentOnce
    <2> QED BY <2>1, <1>6
  <1>8. \A w \in WebWorkers : \A i \in DOMAIN after[w] : after[w][i].thread # m.thread
    BY <1>3, <1>5
  <1>9. \A n \in Messages : Sent(after, n) => n.thread # m.thread
    BY <1>8 DEF Sent
  <1>10. \A n \in Messages : Sent(after, n) <=> Sent(box, n) /\ n # m
    <2> TAKE n \in Messages
    <2>1. ASSUME Sent(after, n) PROVE Sent(box, n) /\ n # m
      BY <2>1, <1>3, <1>9 DEF Sent
    <2>2. ASSUME Sent(box, n), n # m PROVE Sent(after, n)
      BY <2>2, <1>2, <1>4 DEF Sent
    <2> QED BY <2>1, <2>2
  <1>11. Sent(box, m)
    BY <1>2 DEF Sent
  <1> QED BY <1>1, <1>2, <1>7, <1>9, <1>10, <1>11 DEF after, m

-----------------------------------------------------------------------------
(* The steps without a message: Makes and Joins say who moves where.       *)

LEMMA CreateStep ==
    ASSUME LifecycleInv, NEW t \in Threads, NEW b \in Blocks, NEW state \in DetachStates, Create(t, b, state)
    PROVE  LifecycleInv'
  <1> USE LifecycleAssumption DEF LifecycleInv, Threads, At, Go, GoAbout, blockVars,
     threadVars, poolVars, programVars, Create
  <1>a. DOMAIN pc = Threads /\ DOMAIN arg = Threads
    BY DEF TypeOK, ArgsInv, Making, Joining
  <1>b. \A u \in Threads, c \in Blocks : Joins(u, c)' <=> u # t /\ Joins(u, c)
    BY <1>a DEF Joins, Joining
  <1>c. \A u \in Threads, c \in Blocks :
            Makes(u, c)' <=> (u = t /\ c = b) \/ (u # t /\ Makes(u, c))
    BY <1>a DEF Makes, Making
  <1>d. /\ hosts[b] = None /\ b \notin owed /\ ~Cleaning(b) /\ ~Posted(b)
        /\ \A u \in Threads : ~Makes(u, b) /\ ~Joins(u, b)
    BY DEF FreeInv
  <1>1. TypeOK'
    BY <1>a DEF TypeOK, DetachStates, Places
  <1>2. ArgsInv'
    BY <1>a, <1>b, <1>c DEF ArgsInv, TypeOK, Making, Joining
  <1>3. WorkersInv'
    BY <1>a, <1>b, <1>c DEF WorkersInv, TypeOK, Places
  <1>4. StatesInv'
    BY <1>a, <1>b, <1>c DEF StatesInv, TypeOK, WorkersInv, FreeInv, Ended
  <1>5. FreeInv'
    BY <1>a, <1>b, <1>c DEF FreeInv, TypeOK, MakersInv, ClaimsInv, Cleaning, Posted
  <1>6. MakersInv'
    BY <1>b, <1>c, <1>d DEF MakersInv, Cleaning, Posted
  <1>7. ClaimsInv'
    BY <1>a, <1>b, <1>c DEF ClaimsInv, TypeOK, FreeInv, MakersInv
  <1>8. MailInv'
    BY <1>a, <1>b, <1>c DEF MailInv, TypeOK, WorkersInv, FreeInv, MakersInv, StatesInv,
       ClaimsInv, Ended, Cleaning, Posted
  <1> QED BY <1>1, <1>2, <1>3, <1>4, <1>5, <1>6, <1>7, <1>8

LEMMA SpawnFailsStep ==
    ASSUME LifecycleInv, NEW t \in Threads, SpawnFails(t)
    PROVE  LifecycleInv'
  <1> USE LifecycleAssumption DEF LifecycleInv, Threads, At, Go, GoAbout, blockVars,
     threadVars, poolVars, programVars, SpawnFails, SpawnerReady
  <1>a. DOMAIN pc = Threads /\ DOMAIN arg = Threads /\ arg[t] \in Blocks
    BY DEF TypeOK, ArgsInv, Making, Joining
  <1>b. \A u \in Threads, c \in Blocks : Joins(u, c)' <=> Joins(u, c)
    BY <1>a DEF Joins, Joining
  <1>c. \A u \in Threads, c \in Blocks : Makes(u, c)' <=> Makes(u, c)
    BY <1>a DEF Makes, Making
  <1>1. TypeOK'
    BY <1>a DEF TypeOK, DetachStates, Places
  <1>2. ArgsInv'
    BY <1>a, <1>b, <1>c DEF ArgsInv, TypeOK, Making, Joining
  <1>3. WorkersInv'
    BY <1>a, <1>b, <1>c DEF WorkersInv, TypeOK, Places
  <1>4. StatesInv'
    BY <1>a, <1>b, <1>c DEF StatesInv, TypeOK, WorkersInv, FreeInv, Ended
  <1>5. FreeInv'
    BY <1>a, <1>b, <1>c DEF FreeInv, TypeOK, MakersInv, ClaimsInv, Cleaning, Posted
  <1>6. MakersInv'
    BY <1>a, <1>b, <1>c DEF MakersInv, TypeOK, FreeInv, ClaimsInv, Cleaning, Posted
  <1>7. ClaimsInv'
    BY <1>a, <1>b, <1>c DEF ClaimsInv, TypeOK, FreeInv, MakersInv
  <1>8. MailInv'
    BY <1>a, <1>b, <1>c DEF MailInv, TypeOK, WorkersInv, FreeInv, MakersInv, StatesInv,
       ClaimsInv, Ended, Cleaning, Posted
  <1> QED BY <1>1, <1>2, <1>3, <1>4, <1>5, <1>6, <1>7, <1>8

LEMMA CreateFailsStep ==
    ASSUME LifecycleInv, NEW t \in Threads, CreateFails(t)
    PROVE  LifecycleInv'
  <1> USE LifecycleAssumption DEF LifecycleInv, Threads, At, Go, GoAbout, blockVars,
     threadVars, poolVars, programVars, CreateFails
  <1>a. DOMAIN pc = Threads /\ DOMAIN arg = Threads /\ arg[t] \in Blocks
    BY DEF TypeOK, ArgsInv, Making, Joining
  <1>b. \A u \in Threads, c \in Blocks : Joins(u, c)' <=> Joins(u, c)
    BY <1>a DEF Joins, Joining
  <1>c. \A u \in Threads, c \in Blocks : Makes(u, c)' <=> u # t /\ Makes(u, c)
    BY <1>a DEF Makes, Making
  <1>d. Makes(t, arg[t])
    BY <1>a DEF Makes, Making
  <1>1. TypeOK'
    BY <1>a DEF TypeOK, DetachStates, Places
  <1>2. ArgsInv'
    BY <1>a, <1>b, <1>c DEF ArgsInv, TypeOK, Making, Joining
  <1>3. WorkersInv'
    BY <1>a, <1>b, <1>c DEF WorkersInv, TypeOK, Places
  <1>4. StatesInv'
    BY <1>a, <1>b, <1>c DEF StatesInv, TypeOK, WorkersInv, FreeInv, Ended
  <1>5. FreeInv'
    <2> SUFFICES ASSUME NEW c \in Blocks, block'[c] # "used"
                 PROVE  /\ hosts'[c] = None /\ c \notin listed' \cup owed'
                        /\ ~Cleaning(c)' /\ ~Posted(c)'
                        /\ \A u \in Threads : ~Makes(u, c)' /\ ~Joins(u, c)'
      BY DEF FreeInv
    <2>1. ~Cleaning(c)' /\ ~Posted(c)' <=> ~Cleaning(c) /\ ~Posted(c)
      BY DEF Cleaning, Posted
    <2>2. CASE c = arg[t]
      BY <1>b, <1>c, <1>d, <2>1, <2>2 DEF MakersInv
    <2>3. CASE c # arg[t]
      BY <1>a, <1>b, <1>c, <2>1, <2>3 DEF FreeInv, TypeOK
    <2> QED BY <2>2, <2>3
  <1>6. MakersInv'
    BY <1>a, <1>b, <1>c DEF MakersInv, TypeOK, FreeInv, ClaimsInv, Cleaning, Posted
  <1>7. ClaimsInv'
    BY <1>a, <1>b, <1>c DEF ClaimsInv, TypeOK, FreeInv, MakersInv
  <1>8. MailInv'
    BY <1>a, <1>b, <1>c DEF MailInv, TypeOK, WorkersInv, FreeInv, MakersInv, StatesInv,
       ClaimsInv, Ended, Cleaning, Posted
  <1> QED BY <1>1, <1>2, <1>3, <1>4, <1>5, <1>6, <1>7, <1>8

LEMMA ProxySpawnStep ==
    ASSUME LifecycleInv, NEW t \in Threads, ProxySpawn(t)
    PROVE  LifecycleInv'
  <1> USE LifecycleAssumption DEF LifecycleInv, Threads, At, Go, GoAbout, blockVars,
     threadVars, poolVars, programVars, ProxySpawn
  <1>1. TypeOK'
    BY DEF TypeOK, DetachStates, Places
  <1>2. ArgsInv'
    BY DEF ArgsInv, TypeOK, Making, Joining
  <1>3. WorkersInv'
    BY DEF WorkersInv, TypeOK, Places
  <1>4. StatesInv'
    BY DEF StatesInv, TypeOK, WorkersInv, FreeInv, Ended
  <1>5. FreeInv'
    BY DEF FreeInv, TypeOK, MakersInv, Makes, Joins, Making, Joining, ClaimsInv, Cleaning,
       Posted
  <1>6. MakersInv'
    BY DEF MakersInv, TypeOK, FreeInv, ClaimsInv, Makes, Joins, Making, Joining, Cleaning,
       Posted
  <1>7. ClaimsInv'
    BY DEF ClaimsInv, TypeOK, FreeInv, MakersInv, Makes, Joins, Making, Joining
  <1>8. MailInv'
    BY DEF MailInv, TypeOK, WorkersInv, FreeInv, MakersInv, StatesInv, ClaimsInv, Ended,
       Joins, Joining, Makes, Making, Cleaning, Posted
  <1> QED BY <1>1, <1>2, <1>3, <1>4, <1>5, <1>6, <1>7, <1>8

LEMMA LoadStep ==
    ASSUME LifecycleInv, NEW w \in WebWorkers, Load(w)
    PROVE  LifecycleInv'
  <1> USE LifecycleAssumption DEF LifecycleInv, Threads, At, Go, GoAbout, blockVars,
     threadVars, poolVars, programVars, Load
  <1>1. TypeOK'
    BY DEF TypeOK, DetachStates, Places
  <1>2. ArgsInv'
    BY DEF ArgsInv, TypeOK, Making, Joining
  <1>3. WorkersInv'
    BY DEF WorkersInv, TypeOK, Places
  <1>4. StatesInv'
    BY DEF StatesInv, TypeOK, WorkersInv, FreeInv, Ended
  <1>5. FreeInv'
    BY DEF FreeInv, TypeOK, MakersInv, Makes, Joins, Making, Joining, ClaimsInv, Cleaning,
       Posted
  <1>6. MakersInv'
    BY DEF MakersInv, TypeOK, FreeInv, ClaimsInv, Makes, Joins, Making, Joining, Cleaning,
       Posted
  <1>7. ClaimsInv'
    BY DEF ClaimsInv, TypeOK, FreeInv, MakersInv, Makes, Joins, Making, Joining
  <1>8. MailInv'
    BY DEF MailInv, TypeOK, WorkersInv, FreeInv, MakersInv, StatesInv, ClaimsInv, Ended,
       Joins, Joining, Makes, Making, Cleaning, Posted
  <1> QED BY <1>1, <1>2, <1>3, <1>4, <1>5, <1>6, <1>7, <1>8

LEMMA ExitBegin ==
    ASSUME LifecycleInv, NEW b \in Blocks, Exit(b)
    PROVE  LifecycleInv'
  <1> USE LifecycleAssumption DEF LifecycleInv, Threads, At, Go, GoAbout, blockVars,
     threadVars, poolVars, programVars, Exit
  <1>1. TypeOK'
    BY DEF TypeOK, DetachStates, Places
  <1>2. ArgsInv'
    BY DEF ArgsInv, TypeOK, Making, Joining
  <1>3. WorkersInv'
    BY DEF WorkersInv, TypeOK, Places
  <1>4. StatesInv'
    BY DEF StatesInv, TypeOK, WorkersInv, FreeInv, Ended
  <1>5. FreeInv'
    BY DEF FreeInv, TypeOK, MakersInv, Makes, Joins, Making, Joining, ClaimsInv, Cleaning,
       Posted
  <1>6. MakersInv'
    BY DEF MakersInv, TypeOK, FreeInv, ClaimsInv, Makes, Joins, Making, Joining, Cleaning,
       Posted
  <1>7. ClaimsInv'
    BY DEF ClaimsInv, TypeOK, FreeInv, MakersInv, Makes, Joins, Making, Joining
  <1>8. MailInv'
    BY DEF MailInv, TypeOK, WorkersInv, FreeInv, MakersInv, StatesInv, ClaimsInv, Ended,
       Joins, Joining, Makes, Making, Cleaning, Posted
  <1> QED BY <1>1, <1>2, <1>3, <1>4, <1>5, <1>6, <1>7, <1>8

LEMMA ExitUnlistStep ==
    ASSUME LifecycleInv, NEW b \in Blocks, ExitUnlist(b)
    PROVE  LifecycleInv'
  <1> USE LifecycleAssumption DEF LifecycleInv, Threads, At, Go, GoAbout, blockVars,
     threadVars, poolVars, programVars, ExitUnlist
  <1>1. TypeOK'
    BY DEF TypeOK, DetachStates, Places
  <1>2. ArgsInv'
    BY DEF ArgsInv, TypeOK, Making, Joining
  <1>3. WorkersInv'
    BY DEF WorkersInv, TypeOK, Places
  <1>4. StatesInv'
    BY DEF StatesInv, TypeOK, WorkersInv, FreeInv, Ended
  <1>5. FreeInv'
    BY DEF FreeInv, TypeOK, MakersInv, Makes, Joins, Making, Joining, ClaimsInv, Cleaning,
       Posted
  <1>6. MakersInv'
    BY DEF MakersInv, TypeOK, FreeInv, ClaimsInv, Makes, Joins, Making, Joining, Cleaning,
       Posted
  <1>7. ClaimsInv'
    BY DEF ClaimsInv, TypeOK, FreeInv, MakersInv, Makes, Joins, Making, Joining
  <1>8. MailInv'
    BY DEF MailInv, TypeOK, WorkersInv, FreeInv, MakersInv, StatesInv, ClaimsInv, Ended,
       Joins, Joining, Makes, Making, Cleaning, Posted
  <1> QED BY <1>1, <1>2, <1>3, <1>4, <1>5, <1>6, <1>7, <1>8

LEMMA ExitPublishStep ==
    ASSUME LifecycleInv, NEW b \in Blocks, ExitPublish(b)
    PROVE  LifecycleInv'
  <1> USE LifecycleAssumption DEF LifecycleInv, Threads, At, Go, GoAbout, blockVars,
     threadVars, poolVars, programVars, ExitPublish
  <1>a. hosts[b] \in WebWorkers /\ inbox[hosts[b]] = <<>>
    BY DEF TypeOK, WorkersInv
  <1>b. \A u \in Threads, c \in Blocks : Joins(u, c)' <=> Joins(u, c)
    BY <1>a DEF Joins, Joining
  <1>c. \A u \in Threads, c \in Blocks : Makes(u, c)' <=> Makes(u, c)
    BY <1>a DEF Makes, Making
  <1>1. TypeOK'
    BY <1>a DEF TypeOK, DetachStates, Places
  <1>2. ArgsInv'
    BY <1>a, <1>b, <1>c DEF ArgsInv, TypeOK, Making, Joining
  <1>3. WorkersInv'
    BY <1>a, <1>b, <1>c DEF WorkersInv, TypeOK, Places
  <1>4. StatesInv'
    BY <1>a, <1>b, <1>c DEF StatesInv, TypeOK, WorkersInv, FreeInv, Ended
  <1>5. FreeInv'
    BY <1>a, <1>b, <1>c DEF FreeInv, TypeOK, MakersInv, ClaimsInv, Cleaning, Posted
  <1>6. MakersInv'
    BY <1>a, <1>b, <1>c DEF MakersInv, TypeOK, FreeInv, ClaimsInv, Cleaning, Posted
  <1>7. ClaimsInv'
    BY <1>a, <1>b, <1>c DEF ClaimsInv, TypeOK, FreeInv, MakersInv
  <1>8. MailInv'
    BY <1>a, <1>b, <1>c DEF MailInv, TypeOK, WorkersInv, FreeInv, MakersInv, StatesInv,
       ClaimsInv, Ended, Cleaning, Posted
  <1> QED BY <1>1, <1>2, <1>3, <1>4, <1>5, <1>6, <1>7, <1>8

LEMMA ExitWakeStep ==
    ASSUME LifecycleInv, NEW w \in WebWorkers, ExitWake(w)
    PROVE  LifecycleInv'
  <1> USE LifecycleAssumption DEF LifecycleInv, Threads, At, Go, GoAbout, blockVars,
     threadVars, poolVars, programVars, ExitWake
  <1>1. TypeOK'
    <2>1. sleepers' \in [Blocks -> SUBSET Threads]
      <3>1. wakes[w] \in Blocks
        BY DEF TypeOK
      <3>2. sleepers' = sleepers \/ \E t : sleepers' = [sleepers EXCEPT ![wakes[w]] = @ \ {t}]
        OBVIOUS
      <3>3. sleepers \in [Blocks -> SUBSET Threads]
        BY DEF TypeOK
      <3> QED BY <3>1, <3>2, <3>3
    <2> QED BY <2>1 DEF TypeOK, DetachStates, Places
  <1>2. ArgsInv'
    BY DEF ArgsInv, TypeOK, Making, Joining
  <1>3. WorkersInv'
    BY DEF WorkersInv, TypeOK, Places
  <1>4. StatesInv'
    BY DEF StatesInv, TypeOK, WorkersInv, FreeInv, Ended
  <1>5. FreeInv'
    BY DEF FreeInv, TypeOK, MakersInv, Makes, Joins, Making, Joining, ClaimsInv, Cleaning,
       Posted
  <1>6. MakersInv'
    BY DEF MakersInv, TypeOK, FreeInv, ClaimsInv, Makes, Joins, Making, Joining, Cleaning,
       Posted
  <1>7. ClaimsInv'
    BY DEF ClaimsInv, TypeOK, FreeInv, MakersInv, Makes, Joins, Making, Joining
  <1>8. MailInv'
    BY DEF MailInv, TypeOK, WorkersInv, FreeInv, MakersInv, StatesInv, ClaimsInv, Ended,
       Joins, Joining, Makes, Making, Cleaning, Posted
  <1> QED BY <1>1, <1>2, <1>3, <1>4, <1>5, <1>6, <1>7, <1>8

LEMMA JoinBegin ==
    ASSUME LifecycleInv, NEW t \in Threads, NEW b \in Blocks, Join(t, b)
    PROVE  LifecycleInv'
  <1> USE LifecycleAssumption DEF LifecycleInv, Threads, At, Go, GoAbout, blockVars,
     threadVars, poolVars, programVars, Join
  <1>a. DOMAIN pc = Threads /\ DOMAIN arg = Threads
    BY DEF TypeOK
  <1>b. \A u \in Threads, c \in Blocks :
            Joins(u, c)' <=> (u = t /\ c = b) \/ (u # t /\ Joins(u, c))
    BY <1>a DEF Joins, Joining
  <1>c. \A u \in Threads, c \in Blocks : Makes(u, c)' <=> Makes(u, c)
    BY <1>a DEF Makes, Making
  <1>d. /\ block[b] = "used" /\ ~Cleaning(b) /\ b \notin owed'
        /\ \A u \in Threads : ~Makes(u, b) /\ (u # t => ~Joins(u, b))
    <2>1. CASE b \in owed
      BY <1>a, <2>1 DEF FreeInv, MailInv, MakersInv, ClaimsInv, TypeOK
    <2>2. CASE b = t /\ detach[b] = "detached"
      <3>1. hosts[b] # None /\ ~Ended(b)
        BY <2>2 DEF WorkersInv, Ended
      <3> QED BY <2>2, <3>1 DEF FreeInv, MailInv, MakersInv, ClaimsInv, TypeOK
    <2> QED BY <2>1, <2>2
  <1>e. \A c \in Blocks : (Cleaning(c)' <=> Cleaning(c)) /\ (Posted(c)' <=> Posted(c))
    BY DEF Cleaning, Posted
  <1>1. TypeOK'
    BY <1>a DEF TypeOK, DetachStates, Places
  <1>2. ArgsInv'
    BY <1>a, <1>b, <1>c DEF ArgsInv, TypeOK, Making, Joining
  <1>3. WorkersInv'
    BY <1>a, <1>b, <1>c DEF WorkersInv, TypeOK, Places
  <1>4. StatesInv'
    BY <1>a, <1>b, <1>c DEF StatesInv, TypeOK, WorkersInv, FreeInv, Ended
  <1>5. FreeInv'
    BY <1>b, <1>c, <1>d, <1>e DEF FreeInv
  <1>6. MakersInv'
    BY <1>b, <1>c, <1>d, <1>e DEF MakersInv
  <1>7. ClaimsInv'
    <2>1. \A u, v \in Threads : \A c \in Blocks : Joins(u, c)' /\ Joins(v, c)' => u = v
      BY <1>b, <1>d DEF ClaimsInv
    <2>2. \A u \in Threads : \A c \in owed' : ~Joins(u, c)'
      BY <1>b, <1>d DEF ClaimsInv, TypeOK
    <2>3. \A u \in Threads : \A c \in Blocks :
              Joins(u, c)' /\ detach'[c] = "detached" => u = c /\ pc'[u] = "join"
      BY <1>a, <1>b DEF ClaimsInv
    <2> QED BY <2>1, <2>2, <2>3 DEF ClaimsInv
  <1>8. MailInv'
    BY <1>a, <1>b, <1>c DEF MailInv, TypeOK, WorkersInv, FreeInv, MakersInv, StatesInv,
       ClaimsInv, Ended, Cleaning, Posted
  <1> QED BY <1>1, <1>2, <1>3, <1>4, <1>5, <1>6, <1>7, <1>8

LEMMA JoinReadStep ==
    ASSUME LifecycleInv, NEW t \in Threads, JoinRead(t)
    PROVE  LifecycleInv'
  <1> USE LifecycleAssumption DEF LifecycleInv, Threads, At, Go, GoAbout, blockVars,
     threadVars, poolVars, programVars, JoinRead, Finished
  <1>a. DOMAIN pc = Threads /\ DOMAIN arg = Threads /\ arg[t] \in Blocks
    BY DEF TypeOK, ArgsInv, Making, Joining
  <1>b. \A u \in Threads, c \in Blocks : Joins(u, c)' <=> Joins(u, c)
    BY <1>a DEF Joins, Joining
  <1>c. \A u \in Threads, c \in Blocks : Makes(u, c)' <=> Makes(u, c)
    BY <1>a DEF Makes, Making
  <1>d. \A c \in Blocks : Joins(t, c) => c = arg[t]
    BY DEF Joins
  <1>1. TypeOK'
    BY <1>a DEF TypeOK, DetachStates, Places
  <1>2. ArgsInv'
    BY <1>a, <1>b, <1>c DEF ArgsInv, TypeOK, Making, Joining
  <1>3. WorkersInv'
    BY <1>a, <1>b, <1>c DEF WorkersInv, TypeOK, Places
  <1>4. StatesInv'
    BY <1>a, <1>b, <1>c DEF StatesInv, TypeOK, WorkersInv, FreeInv, Ended
  <1>5. FreeInv'
    BY <1>a, <1>b, <1>c DEF FreeInv, TypeOK, MakersInv, ClaimsInv, Cleaning, Posted
  <1>6. MakersInv'
    BY <1>a, <1>b, <1>c DEF MakersInv, TypeOK, FreeInv, ClaimsInv, Cleaning, Posted
  <1>7. ClaimsInv'
    <2>1. \A u, v \in Threads : \A c \in Blocks : Joins(u, c)' /\ Joins(v, c)' => u = v
      BY <1>b DEF ClaimsInv
    <2>2. \A u \in Threads : \A c \in owed' : ~Joins(u, c)'
      BY <1>b DEF ClaimsInv, TypeOK
    <2>3. \A c \in owed' : detach'[c] # "detached"
      BY <1>b DEF ClaimsInv
    <2>4. \A u \in Threads : \A c \in Blocks :
              Joins(u, c)' /\ detach'[c] = "detached" => u = c /\ pc'[u] = "join"
      <3> TAKE u \in Threads
      <3> TAKE c \in Blocks
      <3> HAVE Joins(u, c)' /\ detach'[c] = "detached"
      <3>1. u # t /\ Joins(u, c) /\ detach[c] = "detached"
        BY <1>b, <1>d
      <3>2. u = c /\ pc[u] = "join"
        BY <3>1 DEF ClaimsInv
      <3> QED BY <1>a, <3>1, <3>2
    <2> QED BY <2>1, <2>2, <2>3, <2>4 DEF ClaimsInv
  <1>8. MailInv'
    BY <1>a, <1>b, <1>c DEF MailInv, TypeOK, WorkersInv, FreeInv, MakersInv, StatesInv,
       ClaimsInv, Ended, Cleaning, Posted
  <1> QED BY <1>1, <1>2, <1>3, <1>4, <1>5, <1>6, <1>7, <1>8

LEMMA JoinDetachedStep ==
    ASSUME LifecycleInv, NEW t \in Threads, JoinDetached(t)
    PROVE  LifecycleInv'
  <1> USE LifecycleAssumption DEF LifecycleInv, Threads, At, Go, GoAbout, blockVars,
     threadVars, poolVars, programVars, JoinDetached
  <1>a. DOMAIN pc = Threads /\ DOMAIN arg = Threads /\ arg[t] \in Blocks
    BY DEF TypeOK, ArgsInv, Making, Joining
  <1>b. \A u \in Threads, c \in Blocks : Joins(u, c)' <=> u # t /\ Joins(u, c)
    BY <1>a DEF Joins, Joining
  <1>c. \A u \in Threads, c \in Blocks : Makes(u, c)' <=> Makes(u, c)
    BY <1>a DEF Makes, Making
  <1>1. TypeOK'
    BY <1>a DEF TypeOK, DetachStates, Places
  <1>2. ArgsInv'
    BY <1>a, <1>b, <1>c DEF ArgsInv, TypeOK, Making, Joining
  <1>3. WorkersInv'
    BY <1>a, <1>b, <1>c DEF WorkersInv, TypeOK, Places
  <1>4. StatesInv'
    BY <1>a, <1>b, <1>c DEF StatesInv, TypeOK, WorkersInv, FreeInv, Ended
  <1>5. FreeInv'
    BY <1>a, <1>b, <1>c DEF FreeInv, TypeOK, MakersInv, ClaimsInv, Cleaning, Posted
  <1>6. MakersInv'
    BY <1>a, <1>b, <1>c DEF MakersInv, TypeOK, FreeInv, ClaimsInv, Cleaning, Posted
  <1>7. ClaimsInv'
    BY <1>a, <1>b, <1>c DEF ClaimsInv, TypeOK, FreeInv, MakersInv
  <1>8. MailInv'
    BY <1>a, <1>b, <1>c DEF MailInv, TypeOK, WorkersInv, FreeInv, MakersInv, StatesInv,
       ClaimsInv, Ended, Cleaning, Posted
  <1> QED BY <1>1, <1>2, <1>3, <1>4, <1>5, <1>6, <1>7, <1>8

LEMMA JoinWaitStep ==
    ASSUME LifecycleInv, NEW t \in Threads, JoinWait(t)
    PROVE  LifecycleInv'
  <1> USE LifecycleAssumption DEF LifecycleInv, Threads, At, Go, GoAbout, blockVars,
     threadVars, poolVars, programVars, JoinWait
  <1>a. DOMAIN pc = Threads /\ DOMAIN arg = Threads /\ arg[t] \in Blocks
    BY DEF TypeOK, ArgsInv, Making, Joining
  <1>b. \A u \in Threads, c \in Blocks : Joins(u, c)' <=> Joins(u, c)
    BY <1>a DEF Joins, Joining
  <1>c. \A u \in Threads, c \in Blocks : Makes(u, c)' <=> Makes(u, c)
    BY <1>a DEF Makes, Making
  <1>1. TypeOK'
    <2>1. sleepers' \in [Blocks -> SUBSET Threads]
      <3>1. sleepers \in [Blocks -> SUBSET Threads]
        BY DEF TypeOK
      <3> QED BY <1>a, <3>1
    <2> QED BY <1>a, <2>1 DEF TypeOK, DetachStates, Places
  <1>2. ArgsInv'
    BY <1>a, <1>b, <1>c DEF ArgsInv, TypeOK, Making, Joining
  <1>3. WorkersInv'
    BY <1>a, <1>b, <1>c DEF WorkersInv, TypeOK, Places
  <1>4. StatesInv'
    BY <1>a, <1>b, <1>c DEF StatesInv, TypeOK, WorkersInv, FreeInv, Ended
  <1>5. FreeInv'
    BY <1>a, <1>b, <1>c DEF FreeInv, TypeOK, MakersInv, ClaimsInv, Cleaning, Posted
  <1>6. MakersInv'
    BY <1>a, <1>b, <1>c DEF MakersInv, TypeOK, FreeInv, ClaimsInv, Cleaning, Posted
  <1>7. ClaimsInv'
    BY <1>a, <1>b, <1>c DEF ClaimsInv, TypeOK, FreeInv, MakersInv
  <1>8. MailInv'
    BY <1>a, <1>b, <1>c DEF MailInv, TypeOK, WorkersInv, FreeInv, MakersInv, StatesInv,
       ClaimsInv, Ended, Cleaning, Posted
  <1> QED BY <1>1, <1>2, <1>3, <1>4, <1>5, <1>6, <1>7, <1>8

LEMMA JoinWokenStep ==
    ASSUME LifecycleInv, NEW t \in Threads, JoinWoken(t)
    PROVE  LifecycleInv'
  <1> USE LifecycleAssumption DEF LifecycleInv, Threads, At, Go, GoAbout, blockVars,
     threadVars, poolVars, programVars, JoinWoken
  <1>a. DOMAIN pc = Threads /\ DOMAIN arg = Threads /\ arg[t] \in Blocks
    BY DEF TypeOK, ArgsInv, Making, Joining
  <1>b. \A u \in Threads, c \in Blocks : Joins(u, c)' <=> Joins(u, c)
    BY <1>a DEF Joins, Joining
  <1>c. \A u \in Threads, c \in Blocks : Makes(u, c)' <=> Makes(u, c)
    BY <1>a DEF Makes, Making
  <1>1. TypeOK'
    <2>1. sleepers' \in [Blocks -> SUBSET Threads]
      BY <1>a DEF TypeOK
    <2> QED BY <1>a, <2>1 DEF TypeOK, DetachStates, Places
  <1>2. ArgsInv'
    BY <1>a, <1>b, <1>c DEF ArgsInv, TypeOK, Making, Joining
  <1>3. WorkersInv'
    BY <1>a, <1>b, <1>c DEF WorkersInv, TypeOK, Places
  <1>4. StatesInv'
    BY <1>a, <1>b, <1>c DEF StatesInv, TypeOK, WorkersInv, FreeInv, Ended
  <1>5. FreeInv'
    BY <1>a, <1>b, <1>c DEF FreeInv, TypeOK, MakersInv, ClaimsInv, Cleaning, Posted
  <1>6. MakersInv'
    BY <1>a, <1>b, <1>c DEF MakersInv, TypeOK, FreeInv, ClaimsInv, Cleaning, Posted
  <1>7. ClaimsInv'
    BY <1>a, <1>b, <1>c DEF ClaimsInv, TypeOK, FreeInv, MakersInv
  <1>8. MailInv'
    BY <1>a, <1>b, <1>c DEF MailInv, TypeOK, WorkersInv, FreeInv, MakersInv, StatesInv,
       ClaimsInv, Ended, Cleaning, Posted
  <1> QED BY <1>1, <1>2, <1>3, <1>4, <1>5, <1>6, <1>7, <1>8

LEMMA JoinTimesOutStep ==
    ASSUME LifecycleInv, NEW t \in Threads, JoinTimesOut(t)
    PROVE  LifecycleInv'
  <1> USE LifecycleAssumption DEF LifecycleInv, Threads, At, Go, GoAbout, blockVars,
     threadVars, poolVars, programVars, JoinTimesOut
  <1>a. DOMAIN pc = Threads /\ DOMAIN arg = Threads /\ arg[t] \in Blocks
    BY DEF TypeOK, ArgsInv, Making, Joining
  <1>b. \A u \in Threads, c \in Blocks : Joins(u, c)' <=> u # t /\ Joins(u, c)
    BY <1>a DEF Joins, Joining
  <1>c. \A u \in Threads, c \in Blocks : Makes(u, c)' <=> Makes(u, c)
    BY <1>a DEF Makes, Making
  <1>d. Joins(t, arg[t])
    BY <1>a DEF Joins, Joining
  <1>e. block[arg[t]] = "used" /\ ~Cleaning(arg[t]) /\ detach[arg[t]] # "detached"
    BY <1>a, <1>d DEF FreeInv, MailInv, ClaimsInv
  <1>f. \A u \in Threads : ~Makes(u, arg[t]) /\ (u # t => ~Joins(u, arg[t]))
    BY <1>a, <1>d DEF MakersInv, ClaimsInv
  <1>g. \A c \in Blocks : (Cleaning(c)' <=> Cleaning(c)) /\ (Posted(c)' <=> Posted(c))
    BY DEF Cleaning, Posted
  <1>1. TypeOK'
    <2>1. sleepers' \in [Blocks -> SUBSET Threads]
      BY <1>a DEF TypeOK
    <2>2. pc' \in [Threads -> Places] /\ arg' \in [Threads -> Blocks \cup {None}]
      BY <1>a DEF TypeOK, Places
    <2>3. owed' \subseteq Blocks
      BY <1>a DEF TypeOK
    <2> QED BY <2>1, <2>2, <2>3 DEF TypeOK
  <1>2. ArgsInv'
    BY <1>a, <1>b, <1>c DEF ArgsInv, TypeOK, Making, Joining
  <1>3. WorkersInv'
    BY <1>a, <1>b, <1>c DEF WorkersInv, TypeOK, Places
  <1>4. StatesInv'
    BY <1>a, <1>b, <1>c DEF StatesInv, TypeOK, WorkersInv, FreeInv, Ended
  <1>5. FreeInv'
    BY <1>a, <1>b, <1>c, <1>e, <1>g DEF FreeInv
  <1>6. MakersInv'
    BY <1>a, <1>b, <1>c, <1>f, <1>g DEF MakersInv
  <1>7. ClaimsInv'
    <2>1. \A u, v \in Threads : \A c \in Blocks : Joins(u, c)' /\ Joins(v, c)' => u = v
      BY <1>b DEF ClaimsInv
    <2>2. \A u \in Threads : \A c \in owed' : ~Joins(u, c)'
      BY <1>a, <1>b, <1>e, <1>f DEF ClaimsInv, TypeOK
    <2>3. \A c \in owed' : detach'[c] # "detached"
      BY <1>a, <1>e DEF ClaimsInv
    <2>4. \A u \in Threads : \A c \in Blocks :
              Joins(u, c)' /\ detach'[c] = "detached" => u = c /\ pc'[u] = "join"
      <3> TAKE u \in Threads
      <3> TAKE c \in Blocks
      <3> HAVE Joins(u, c)' /\ detach'[c] = "detached"
      <3>1. u # t /\ Joins(u, c) /\ detach[c] = "detached"
        BY <1>b
      <3>2. u = c /\ pc[u] = "join"
        BY <3>1 DEF ClaimsInv
      <3> QED BY <1>a, <3>1, <3>2
    <2> QED BY <2>1, <2>2, <2>3, <2>4 DEF ClaimsInv
  <1>8. MailInv'
    BY <1>a, <1>b, <1>e, <1>g DEF MailInv, Ended
  <1> QED BY <1>1, <1>2, <1>3, <1>4, <1>5, <1>6, <1>7, <1>8

LEMMA DetachStep ==
    ASSUME LifecycleInv, NEW t \in Threads, NEW b \in Blocks, Detach(t, b)
    PROVE  LifecycleInv'
  <1> USE LifecycleAssumption DEF LifecycleInv, Threads, At, Go, GoAbout, blockVars,
     threadVars, poolVars, programVars, Detach
  <1>a. DOMAIN pc = Threads /\ DOMAIN arg = Threads
    BY DEF TypeOK
  <1>b. \A u \in Threads, c \in Blocks :
            Joins(u, c)' <=> (u = t /\ c = b /\ detach[b] # "joinable") \/ (u # t /\ Joins(u, c))
    BY <1>a DEF Joins, Joining, StatesInv, ClaimsInv
  <1>c. \A u \in Threads, c \in Blocks : Makes(u, c)' <=> Makes(u, c)
    BY <1>a DEF Makes, Making
  <1>1. TypeOK'
    <2>1. CASE detach[b] = "joinable"
      <3>1. detach \in [Blocks -> DetachStates]
        BY DEF TypeOK
      <3>2. detach' \in [Blocks -> DetachStates]
        BY <2>1, <3>1 DEF DetachStates
      <3> QED BY <2>1, <3>2 DEF TypeOK
    <2>2. CASE detach[b] # "joinable"
      <3>1. pc \in [Threads -> Places] /\ arg \in [Threads -> Blocks \cup {None}]
        BY DEF TypeOK
      <3>2. pc' \in [Threads -> Places]
        BY <2>2, <3>1 DEF Places
      <3>3. arg' \in [Threads -> Blocks \cup {None}]
        BY <2>2, <3>1
      <3>4. masked' = masked \cup {t} /\ detach' = detach
        BY <2>2
      <3> QED BY <3>2, <3>3, <3>4 DEF TypeOK
    <2> QED BY <2>1, <2>2
  <1>2. ArgsInv'
    BY <1>a, <1>b, <1>c DEF ArgsInv, TypeOK, Making, Joining
  <1>3. WorkersInv'
    BY <1>a, <1>b, <1>c DEF WorkersInv, TypeOK, Places
  <1>4. StatesInv'
    BY <1>a, <1>b, <1>c DEF StatesInv, TypeOK, WorkersInv, FreeInv, Ended
  <1>5. FreeInv'
    BY <1>a, <1>b, <1>c DEF FreeInv, TypeOK, MakersInv, ClaimsInv, Cleaning, Posted
  <1>6. MakersInv'
    BY <1>a, <1>b, <1>c DEF MakersInv, TypeOK, FreeInv, ClaimsInv, Cleaning, Posted
  <1>7. ClaimsInv'
    BY <1>a, <1>b, <1>c DEF ClaimsInv, TypeOK, FreeInv, MakersInv
  <1>8. MailInv'
    BY <1>a, <1>b, <1>c DEF MailInv, TypeOK, WorkersInv, FreeInv, MakersInv, StatesInv,
       ClaimsInv, Ended, Cleaning, Posted
  <1> QED BY <1>1, <1>2, <1>3, <1>4, <1>5, <1>6, <1>7, <1>8

LEMMA CancelStep ==
    ASSUME LifecycleInv, NEW t \in Threads, NEW b \in Blocks, Cancel(t, b)
    PROVE  LifecycleInv'
  <1>1. cancel \in [Blocks -> BOOLEAN] => cancel' \in [Blocks -> BOOLEAN]
    BY DEF Cancel
  <1>2. /\ UNCHANGED <<block, detach, sleepers, listed, pc, arg, val, masked>>
        /\ UNCHANGED <<strict, hosts, ptr, unused, loaded, inbox, outbox, wakes, owed, creates>>
    BY DEF Cancel, threadVars, poolVars, programVars
  <1>3. TypeOK' /\ ArgsInv' /\ WorkersInv'
    BY <1>1, <1>2 DEF LifecycleInv, TypeOK, ArgsInv, WorkersInv
  <1>4. \A u \in Threads, c \in Blocks :
          (Joins(u, c)' <=> Joins(u, c)) /\ (Makes(u, c)' <=> Makes(u, c))
    BY <1>2 DEF Joins, Makes, Joining, Making
  <1>5. \A c \in Blocks :
          /\ Cleaning(c)' <=> Cleaning(c)
          /\ Posted(c)' <=> Posted(c)
          /\ Ended(c)' <=> Ended(c)
    BY <1>2 DEF Cleaning, Posted, Ended
  <1>6. StatesInv' /\ MailInv'
    BY <1>2, <1>4, <1>5 DEF LifecycleInv, StatesInv, MailInv
  <1>7. FreeInv' /\ MakersInv'
    BY <1>2, <1>4, <1>5 DEF LifecycleInv, FreeInv, MakersInv
  <1>8. ClaimsInv'
    BY <1>2, <1>4 DEF LifecycleInv, ClaimsInv, TypeOK
  <1> QED BY <1>3, <1>6, <1>7, <1>8 DEF LifecycleInv

LEMMA CancelledStep ==
    ASSUME LifecycleInv, NEW b \in Blocks, Cancelled(b)
    PROVE  LifecycleInv'
  <1> USE LifecycleAssumption DEF LifecycleInv, Threads, At, Go, GoAbout, blockVars,
     threadVars, poolVars, programVars, Cancelled
  <1>a. /\ DOMAIN pc = Threads /\ DOMAIN arg = Threads /\ b \in Threads
        /\ At(b, "asleep") => arg[b] \in Blocks
    BY DEF TypeOK, ArgsInv, Making, Joining
  <1>b. \A u \in Threads, c \in Blocks : Joins(u, c)' <=> u # b /\ Joins(u, c)
    BY <1>a DEF Joins, Joining
  <1>c. \A u \in Threads, c \in Blocks : Makes(u, c)' <=> Makes(u, c)
    BY <1>a DEF Makes, Making
  <1>d. At(b, "asleep") => Joins(b, arg[b])
    BY <1>a DEF Joins, Joining
  <1>e. At(b, "asleep") =>
            block[arg[b]] = "used" /\ ~Cleaning(arg[b]) /\ detach[arg[b]] # "detached"
    BY <1>a, <1>d DEF FreeInv, MailInv, ClaimsInv
  <1>f. At(b, "asleep") =>
            \A u \in Threads : ~Makes(u, arg[b]) /\ (u # b => ~Joins(u, arg[b]))
    BY <1>a, <1>d DEF MakersInv, ClaimsInv
  <1>g. \A c \in Blocks : (Cleaning(c)' <=> Cleaning(c)) /\ (Posted(c)' <=> Posted(c))
    BY DEF Cleaning, Posted
  <1>h. \/ At(b, "run") /\ owed' = owed
        \/ At(b, "asleep") /\ owed' = owed \cup {arg[b]}
    OBVIOUS
  <1>1. TypeOK'
    <2>1. sleepers' \in [Blocks -> SUBSET Threads]
      <3>1. sleepers \in [Blocks -> SUBSET Threads]
        BY DEF TypeOK
      <3> QED BY <1>a, <3>1
    <2>2. owed' \subseteq Blocks
      BY <1>a, <1>h DEF TypeOK
    <2> QED BY <1>a, <2>1, <2>2 DEF TypeOK, DetachStates, Places
  <1>2. ArgsInv'
    BY <1>a, <1>b, <1>c DEF ArgsInv, TypeOK, Making, Joining
  <1>3. WorkersInv'
    BY <1>a, <1>b, <1>c DEF WorkersInv, TypeOK, Places
  <1>4. StatesInv'
    BY <1>a, <1>b, <1>c DEF StatesInv, TypeOK, WorkersInv, FreeInv, Ended
  <1>5. FreeInv'
    BY <1>a, <1>b, <1>c, <1>e, <1>g, <1>h DEF FreeInv
  <1>6. MakersInv'
    BY <1>a, <1>b, <1>c, <1>f, <1>g, <1>h DEF MakersInv
  <1>7. ClaimsInv'
    <2>1. \A u, v \in Threads : \A c \in Blocks : Joins(u, c)' /\ Joins(v, c)' => u = v
      BY <1>b DEF ClaimsInv
    <2>2. \A u \in Threads : \A c \in owed' : ~Joins(u, c)'
      BY <1>a, <1>b, <1>e, <1>f, <1>h DEF ClaimsInv, TypeOK
    <2>3. \A c \in owed' : detach'[c] # "detached"
      BY <1>a, <1>e, <1>h DEF ClaimsInv
    <2>4. \A u \in Threads : \A c \in Blocks :
              Joins(u, c)' /\ detach'[c] = "detached" => u = c /\ pc'[u] = "join"
      <3> TAKE u \in Threads
      <3> TAKE c \in Blocks
      <3> HAVE Joins(u, c)' /\ detach'[c] = "detached"
      <3>1. u # b /\ Joins(u, c) /\ detach[c] = "detached"
        BY <1>b
      <3>2. u = c /\ pc[u] = "join"
        BY <3>1 DEF ClaimsInv
      <3> QED BY <1>a, <3>1, <3>2
    <2> QED BY <2>1, <2>2, <2>3, <2>4 DEF ClaimsInv
  <1>8. MailInv'
    BY <1>a, <1>b, <1>e, <1>g, <1>h DEF MailInv, Ended
  <1> QED BY <1>1, <1>2, <1>3, <1>4, <1>5, <1>6, <1>7, <1>8

-----------------------------------------------------------------------------
(* A thread gets a Worker, and gives it back.                              *)

LEMMA Spawned ==
    ASSUME LifecycleInv, NEW b \in Blocks, NEW w \in NewWorkers, hosts[b] = None, Spawn(b, w),
           \A c \in Blocks : pc'[c] = "none" <=> pc[c] = "none"
    PROVE  /\ hosts' \in [Blocks -> WebWorkers \cup {None}]
           /\ ptr' \in [WebWorkers -> Blocks \cup {None}]
           /\ unused' \subseteq WebWorkers /\ inbox' \in [WebWorkers -> Seq(Blocks)]
           /\ WorkersInv'
           /\ hosts'[b] # None /\ \A c \in Blocks \ {b} : hosts'[c] = hosts[c]
           /\ \A c \in Blocks : Ended(c)' <=> Ended(c)
  <1> USE LifecycleAssumption DEF LifecycleInv, Spawn
  <1>1. /\ hosts \in [Blocks -> WebWorkers \cup {None}] /\ ptr \in [WebWorkers -> Blocks \cup {None}]
        /\ unused \subseteq WebWorkers /\ inbox \in [WebWorkers -> Seq(Blocks)]
    BY DEF TypeOK
  <1>2. w \in WebWorkers /\ ptr[w] = None /\ inbox[w] = <<>> /\ None \notin WebWorkers \cup Blocks
    BY <1>1 DEF NewWorkers, Allocatable, WorkersInv, Threads
  <1>3. \A c \in Blocks : hosts[c] # w
    BY <1>2 DEF WorkersInv, Threads
  <1>4. Append(<<>>, b) = <<b>> /\ <<b>> \in Seq(Blocks) /\ <<b>> # <<>>
    OBVIOUS
  <1>5. /\ hosts'[b] = w /\ ptr'[w] = b /\ inbox'[w] = <<b>>
        /\ \A c \in Blocks \ {b} : hosts'[c] = hosts[c]
        /\ \A v \in WebWorkers \ {w} : ptr'[v] = ptr[v] /\ inbox'[v] = inbox[v]
    BY <1>1, <1>2, <1>4
  <1>6. /\ hosts' \in [Blocks -> WebWorkers \cup {None}]
        /\ ptr' \in [WebWorkers -> Blocks \cup {None}]
        /\ unused' \subseteq WebWorkers
    BY <1>1, <1>2
  <1>7. inbox' \in [WebWorkers -> Seq(Blocks)]
    BY <1>1, <1>2, <1>4
  <1>8. pc[b] = "none" /\ pc'[b] = "none"
    BY DEF WorkersInv
  <1>9. WorkersInv'
    <2>1. \A c \in Blocks : hosts'[c] # None => ptr'[hosts'[c]] = c
      BY <1>1, <1>3, <1>5 DEF WorkersInv
    <2>2. \A v \in WebWorkers : ptr'[v] # None => hosts'[ptr'[v]] = v
      BY <1>1, <1>2, <1>5 DEF WorkersInv
    <2>3. \A v \in unused' : ptr'[v] = None
      BY <1>1, <1>5 DEF WorkersInv
    <2>4. \A v \in WebWorkers : inbox'[v] # <<>> =>
              ptr'[v] # None /\ inbox'[v] = <<ptr'[v]>> /\ pc'[ptr'[v]] = "none"
      BY <1>1, <1>2, <1>5, <1>8 DEF WorkersInv
    <2>5. \A c \in Blocks : pc'[c] # "none" => hosts'[c] # None
      BY <1>5, <1>8 DEF WorkersInv
    <2> QED BY <2>1, <2>2, <2>3, <2>4, <2>5 DEF WorkersInv
  <1>10. \A c \in Blocks : Ended(c)' <=> Ended(c)
    <2>1. ~Ended(b)' /\ ~Ended(b)
      BY <1>2, <1>4, <1>5 DEF Ended
    <2>2. \A c \in Blocks \ {b} : Ended(c)' <=> Ended(c)
      BY <1>1, <1>3, <1>5 DEF Ended
    <2> QED BY <2>1, <2>2
  <1> QED BY <1>2, <1>5, <1>6, <1>7, <1>9, <1>10

LEMMA Freed ==
    ASSUME LifecycleInv, NEW b \in Blocks, Ended(b), b \notin owed, Cleaned(b),
           inbox' = inbox, listed' = listed, owed' = owed,
           \A c \in Blocks : pc'[c] = pc[c],
           \A u \in Threads, c \in Blocks : Makes(u, c)' <=> Makes(u, c),
           \A u \in Threads, c \in Blocks : Joins(u, c)' <=> Joins(u, c) /\ c # b,
           \A u \in Threads, c \in Blocks : Joins(u, c)' => pc'[u] = pc[u],
           \A c \in Blocks : Cleaning(c)' <=> Cleaning(c) /\ c # b,
           \A c \in Blocks : Posted(c)' <=> Posted(c),
           SentOnce(outbox')
    PROVE  /\ block' \in [Blocks -> {"free", "used", "lost"}]
           /\ detach' \in [Blocks -> DetachStates]
           /\ hosts' \in [Blocks -> WebWorkers \cup {None}]
           /\ ptr' \in [WebWorkers -> Blocks \cup {None}] /\ unused' \subseteq WebWorkers
           /\ WorkersInv' /\ StatesInv' /\ FreeInv' /\ MakersInv' /\ ClaimsInv' /\ MailInv'
  <1> USE LifecycleAssumption DEF LifecycleInv
  <1>1. /\ hosts \in [Blocks -> WebWorkers \cup {None}] /\ ptr \in [WebWorkers -> Blocks \cup {None}]
        /\ unused \subseteq WebWorkers /\ block \in [Blocks -> {"free", "used", "lost"}]
        /\ detach \in [Blocks -> DetachStates]
        /\ None \notin WebWorkers \cup Blocks
    BY DEF TypeOK, Threads
  <1> DEFINE w == hosts[b]
  <1>2. /\ w \in WebWorkers /\ ptr[w] = b /\ inbox[w] = <<>> /\ pc[b] = "none"
        /\ b \notin listed /\ block[b] = "used"
    BY <1>1 DEF Ended, WorkersInv, StatesInv, FreeInv
  <1>3. /\ hosts' = [hosts EXCEPT ![b] = None] /\ ptr' = [ptr EXCEPT ![w] = None]
        /\ unused' = unused \cup {w}
        /\ block' = [block EXCEPT ![b] = "free"] /\ detach' = [detach EXCEPT ![b] = "exited"]
    BY <1>1, <1>2 DEF Cleaned
  <1> HIDE DEF w
  <1>4. /\ hosts'[b] = None /\ ptr'[w] = None /\ block'[b] = "free" /\ detach'[b] = "exited"
        /\ \A c \in Blocks \ {b} :
              hosts'[c] = hosts[c] /\ block'[c] = block[c] /\ detach'[c] = detach[c]
        /\ \A v \in WebWorkers \ {w} : ptr'[v] = ptr[v]
    BY <1>1, <1>2, <1>3
  <1>5. \A c \in Blocks \ {b} : hosts[c] # w
    BY <1>1, <1>2 DEF WorkersInv
  <1>6. /\ block' \in [Blocks -> {"free", "used", "lost"}]
        /\ hosts' \in [Blocks -> WebWorkers \cup {None}]
        /\ ptr' \in [WebWorkers -> Blocks \cup {None}] /\ unused' \subseteq WebWorkers
    BY <1>1, <1>2, <1>3
  <1>7. detach' \in [Blocks -> DetachStates]
    BY <1>1, <1>3 DEF DetachStates
  <1>8. WorkersInv'
    BY <1>1, <1>2, <1>3, <1>4, <1>5 DEF WorkersInv
  <1>9. \A c \in Blocks : Ended(c)' <=> Ended(c) /\ c # b
    BY <1>1, <1>4 DEF Ended
  <1>10. StatesInv'
    BY <1>2, <1>4, <1>9 DEF StatesInv
  <1>11. FreeInv'
    <2>1. \A u \in Threads : ~Makes(u, b)
      BY <1>2 DEF MakersInv, Ended
    <2>2. ~Posted(b)
      BY DEF MailInv, Ended
    <2> QED BY <1>2, <1>4, <2>1, <2>2 DEF FreeInv
  <1>12. MakersInv'
    BY <1>4 DEF MakersInv
  <1>13. ClaimsInv'
    <2>1. \A c \in owed' : detach'[c] # "detached"
      BY <1>4 DEF ClaimsInv, TypeOK
    <2>2. \A u \in Threads : \A c \in owed' : ~Joins(u, c)'
      BY DEF ClaimsInv, TypeOK
    <2> QED BY <1>4, <2>1, <2>2 DEF ClaimsInv
  <1>14. MailInv'
    BY <1>4, <1>9 DEF MailInv
  <1> QED BY <1>6, <1>7, <1>8, <1>10, <1>11, <1>12, <1>13, <1>14

(* Messages about threads, posted and handled.                             *)

LEMMA MailPosted ==
    ASSUME LifecycleInv, NEW t \in Blocks, hosts[t] # None, NEW b \in Blocks,
           NEW cmd \in {"cleanupThread", "spawnThread"}, ~Cleaning(b), ~Posted(b), Post(t, cmd, b)
    PROVE  /\ outbox' \in Boxes /\ SentOnce(outbox')
           /\ \A c \in Blocks : Cleaning(c)' <=> Cleaning(c) \/ (cmd = "cleanupThread" /\ c = b)
           /\ \A c \in Blocks : Posted(c)' <=> Posted(c) \/ (cmd = "spawnThread" /\ c = b)
  <1> DEFINE m == Message(cmd, b)
  <1>1. outbox \in Boxes /\ SentOnce(outbox)
    BY DEF LifecycleInv, TypeOK, MailInv, Boxes, Messages
  <1>2. hosts[t] \in WebWorkers
    BY DEF LifecycleInv, TypeOK
  <1>3. m \in Messages /\ m.thread = b /\ m.cmd = cmd
    BY DEF Messages, Message
  <1>4. \A n \in Messages : n.thread = b =>
            n = Message("cleanupThread", b) \/ n = Message("spawnThread", b)
    BY DEF Messages, Message
  <1>5. \A n \in Messages : Sent(outbox, n) => n.thread # m.thread
    BY <1>3, <1>4 DEF Cleaning, Posted
  <1>6. outbox' = [outbox EXCEPT ![hosts[t]] = Append(@, m)]
    BY DEF Post, Message
  <1> HIDE DEF m
  <1>7. /\ outbox' \in Boxes /\ SentOnce(outbox')
        /\ \A n \in Messages : Sent(outbox', n) <=> Sent(outbox, n) \/ n = m
    BY <1>1, <1>2, <1>3, <1>5, <1>6, PostedOnce
  <1>8. \A c \in Blocks : /\ Message("cleanupThread", c) \in Messages
                          /\ Message("spawnThread", c) \in Messages
                          /\ Message("cleanupThread", c) = m <=> cmd = "cleanupThread" /\ c = b
                          /\ Message("spawnThread", c) = m <=> cmd = "spawnThread" /\ c = b
    BY DEF Messages, Message, m
  <1>9. \A c \in Blocks : /\ Cleaning(c)' <=> Sent(outbox', Message("cleanupThread", c))
                          /\ Posted(c)' <=> Sent(outbox', Message("spawnThread", c))
    BY DEF Cleaning, Posted, Message
  <1>10. \A c \in Blocks : Cleaning(c)' <=> Cleaning(c) \/ (cmd = "cleanupThread" /\ c = b)
    BY <1>7, <1>8, <1>9 DEF Cleaning
  <1>11. \A c \in Blocks : Posted(c)' <=> Posted(c) \/ (cmd = "spawnThread" /\ c = b)
    BY <1>7, <1>8, <1>9 DEF Posted
  <1> QED BY <1>7, <1>10, <1>11

LEMMA MailTaken ==
    ASSUME LifecycleInv, NEW w \in WebWorkers, outbox[w] # <<>>,
           outbox' = [outbox EXCEPT ![w] = Tail(@)]
    PROVE  LET m == Head(outbox[w]) IN
           /\ outbox' \in Boxes /\ SentOnce(outbox') /\ m.thread \in Blocks
           /\ m.cmd = "cleanupThread" =>
                 /\ Cleaning(m.thread)
                 /\ \A c \in Blocks : Cleaning(c)' <=> Cleaning(c) /\ c # m.thread
                 /\ \A c \in Blocks : Posted(c)' <=> Posted(c)
           /\ m.cmd = "spawnThread" =>
                 /\ Posted(m.thread)
                 /\ \A c \in Blocks : Posted(c)' <=> Posted(c) /\ c # m.thread
                 /\ \A c \in Blocks : Cleaning(c)' <=> Cleaning(c)
  <1> DEFINE m == Head(outbox[w])
  <1>1. outbox \in Boxes /\ SentOnce(outbox)
    BY DEF LifecycleInv, TypeOK, MailInv, Boxes, Messages
  <1>2. /\ outbox' \in Boxes /\ SentOnce(outbox') /\ m \in Messages /\ Sent(outbox, m)
        /\ \A n \in Messages : Sent(outbox', n) <=> Sent(outbox, n) /\ n # m
    BY <1>1, TakenOnce
  <1> HIDE DEF m
  <1>3. m.thread \in Blocks /\ m = Message(m.cmd, m.thread)
    BY <1>2 DEF Messages, Message
  <1>4. \A c \in Blocks :
            /\ Message("cleanupThread", c) \in Messages
            /\ Message("spawnThread", c) \in Messages
            /\ m.cmd = "cleanupThread" => (Message("cleanupThread", c) = m <=> c = m.thread)
            /\ m.cmd = "spawnThread" => (Message("spawnThread", c) = m <=> c = m.thread)
            /\ m.cmd = "cleanupThread" => Message("spawnThread", c) # m
            /\ m.cmd = "spawnThread" => Message("cleanupThread", c) # m
    BY <1>2 DEF Messages, Message
  <1>5. \A c \in Blocks : /\ Cleaning(c)' <=> Sent(outbox', Message("cleanupThread", c))
                          /\ Posted(c)' <=> Sent(outbox', Message("spawnThread", c))
    BY DEF Cleaning, Posted, Message
  <1>6. ASSUME m.cmd = "cleanupThread"
        PROVE  /\ Cleaning(m.thread)
               /\ \A c \in Blocks : Cleaning(c)' <=> Cleaning(c) /\ c # m.thread
               /\ \A c \in Blocks : Posted(c)' <=> Posted(c)
    BY <1>2, <1>3, <1>4, <1>5, <1>6 DEF Cleaning, Posted
  <1>7. ASSUME m.cmd = "spawnThread"
        PROVE  /\ Posted(m.thread)
               /\ \A c \in Blocks : Posted(c)' <=> Posted(c) /\ c # m.thread
               /\ \A c \in Blocks : Cleaning(c)' <=> Cleaning(c)
    BY <1>2, <1>3, <1>4, <1>5, <1>7 DEF Cleaning, Posted
  <1> QED BY <1>2, <1>3, <1>6, <1>7 DEF m

LEMMA InboxOf ==
    ASSUME LifecycleInv, NEW b \in Blocks, pc[b] # "none"
    PROVE  hosts[b] \in WebWorkers /\ inbox[hosts[b]] = <<>>
  BY DEF LifecycleInv, TypeOK, WorkersInv

-----------------------------------------------------------------------------
(* The steps that move Workers and messages.                               *)

LEMMA SpawnThreadStep ==
    ASSUME LifecycleInv, NEW t \in Threads, NEW w \in WebWorkers, SpawnThread(t, w)
    PROVE  LifecycleInv'
  <1> USE LifecycleAssumption DEF LifecycleInv
  <1> DEFINE b == arg[t]
  <1>1. DOMAIN pc = Threads /\ DOMAIN arg = Threads /\ b \in Blocks /\ Makes(t, b)
    BY DEF TypeOK, ArgsInv, Making, SpawnThread, SpawnerReady, At, Makes
  <1>2. /\ w \in NewWorkers /\ Spawn(b, w) /\ pc' = [pc EXCEPT ![t] = "run"]
        /\ arg' = [arg EXCEPT ![t] = None]
        /\ owed' = IF detach[b] = "detached" THEN owed ELSE owed \cup {b}
        /\ UNCHANGED <<block, detach, cancel, sleepers, listed, val, masked>>
        /\ UNCHANGED <<strict, loaded, outbox, wakes, creates>>
    BY DEF SpawnThread, Created, Go, GoAbout, blockVars
  <1> HIDE DEF b
  <1>3. /\ hosts[b] = None /\ b \notin owed /\ ~Cleaning(b) /\ ~Posted(b)
        /\ \A u \in Threads : ~Joins(u, b) /\ (Makes(u, b) => u = t)
    BY <1>1 DEF MakersInv
  <1>4. block[b] = "used"
    BY <1>1 DEF FreeInv
  <1>5. pc[t] \in Making
    BY <1>1 DEF Makes
  <1>6. \A c \in Blocks : pc'[c] = "none" <=> pc[c] = "none"
    BY <1>1, <1>2, <1>5 DEF Threads, Making
  <1>7. /\ hosts' \in [Blocks -> WebWorkers \cup {None}]
        /\ ptr' \in [WebWorkers -> Blocks \cup {None}]
        /\ unused' \subseteq WebWorkers /\ inbox' \in [WebWorkers -> Seq(Blocks)]
        /\ WorkersInv'
        /\ hosts'[b] # None /\ \A c \in Blocks \ {b} : hosts'[c] = hosts[c]
        /\ \A c \in Blocks : Ended(c)' <=> Ended(c)
    BY <1>1, <1>2, <1>3, <1>6, Spawned
  <1>8. \A u \in Threads, c \in Blocks : Makes(u, c)' <=> Makes(u, c) /\ c # b
    BY <1>1, <1>2, <1>3 DEF Makes, Making
  <1>9. \A u \in Threads, c \in Blocks : Joins(u, c)' <=> Joins(u, c)
    BY <1>1, <1>2, <1>5 DEF Joins, Joining, Making
  <1>10. \A c \in Blocks : (Cleaning(c)' <=> Cleaning(c)) /\ (Posted(c)' <=> Posted(c))
    BY <1>2 DEF Cleaning, Posted
  <1>11. TypeOK'
    <2>1. pc \in [Threads -> Places] /\ arg \in [Threads -> Blocks \cup {None}]
      BY DEF TypeOK
    <2>2. pc' \in [Threads -> Places] /\ arg' \in [Threads -> Blocks \cup {None}]
      BY <1>2, <2>1 DEF Places
    <2>3. owed' \subseteq Blocks
      BY <1>1, <1>2 DEF TypeOK
    <2> QED BY <1>2, <1>7, <2>2, <2>3 DEF TypeOK
  <1>12. ArgsInv'
    BY <1>1, <1>2 DEF ArgsInv, Making, Joining
  <1>13. StatesInv'
    BY <1>1, <1>2, <1>5, <1>7 DEF StatesInv, Threads, Making
  <1>14. FreeInv'
    BY <1>2, <1>4, <1>7, <1>8, <1>9, <1>10 DEF FreeInv
  <1>15. MakersInv'
    BY <1>2, <1>7, <1>8, <1>9, <1>10 DEF MakersInv
  <1>16. ClaimsInv'
    <2>1. \A u \in Threads : \A c \in owed' : ~Joins(u, c)'
      <3>1. \A c \in owed' : c \in Blocks /\ (c \in owed \/ c = b)
        BY <1>1, <1>2 DEF TypeOK
      <3> QED BY <3>1, <1>3, <1>9 DEF ClaimsInv
    <2>2. \A c \in owed' : detach'[c] # "detached"
      BY <1>2 DEF ClaimsInv
    <2>3. \A u \in Threads, c \in Blocks : Joins(u, c) => pc'[u] = pc[u]
      BY <1>1, <1>2, <1>5 DEF Joins, Joining, Making
    <2> QED BY <1>2, <1>9, <2>1, <2>2, <2>3 DEF ClaimsInv
  <1>17. MailInv'
    BY <1>2, <1>3, <1>7, <1>9, <1>10 DEF MailInv
  <1> QED BY <1>7, <1>11, <1>12, <1>13, <1>14, <1>15, <1>16, <1>17

LEMMA PostSpawnStep ==
    ASSUME LifecycleInv, NEW t \in Threads, PostSpawn(t)
    PROVE  LifecycleInv'
  <1> USE LifecycleAssumption DEF LifecycleInv
  <1> DEFINE b == arg[t]
  <1>1. DOMAIN pc = Threads /\ DOMAIN arg = Threads /\ b \in Blocks /\ Makes(t, b) /\ t \in Blocks
    BY DEF TypeOK, ArgsInv, Making, PostSpawn, At, Makes, Threads
  <1>2. /\ Post(t, "spawnThread", b) /\ pc' = [pc EXCEPT ![t] = "run"]
        /\ arg' = [arg EXCEPT ![t] = None]
        /\ owed' = IF detach[b] = "detached" THEN owed ELSE owed \cup {b}
        /\ UNCHANGED <<block, detach, cancel, sleepers, listed, val, masked>>
        /\ UNCHANGED <<strict, hosts, ptr, unused, loaded, inbox, wakes, creates>>
    BY DEF PostSpawn, Created, Go, GoAbout, blockVars
  <1> HIDE DEF b
  <1>3. /\ hosts[b] = None /\ b \notin owed /\ ~Cleaning(b) /\ ~Posted(b)
        /\ \A u \in Threads : ~Joins(u, b) /\ (Makes(u, b) => u = t)
    BY <1>1 DEF MakersInv
  <1>4. block[b] = "used"
    BY <1>1 DEF FreeInv
  <1>5. pc[t] \in Making /\ hosts[t] # None
    BY <1>1 DEF Makes, Making, WorkersInv
  <1>6. \A c \in Blocks : pc'[c] = "none" <=> pc[c] = "none"
    BY <1>1, <1>2, <1>5 DEF Threads, Making
  <1>7. /\ outbox' \in Boxes /\ SentOnce(outbox')
        /\ \A c \in Blocks : Cleaning(c)' <=> Cleaning(c)
        /\ \A c \in Blocks : Posted(c)' <=> Posted(c) \/ c = b
    BY <1>1, <1>2, <1>3, <1>5, MailPosted
  <1>8. \A u \in Threads, c \in Blocks : Makes(u, c)' <=> Makes(u, c) /\ c # b
    BY <1>1, <1>2, <1>3 DEF Makes, Making
  <1>9. \A u \in Threads, c \in Blocks : Joins(u, c)' <=> Joins(u, c)
    BY <1>1, <1>2, <1>5 DEF Joins, Joining, Making
  <1>10. \A c \in Blocks : Ended(c)' <=> Ended(c)
    BY <1>2, <1>6 DEF Ended
  <1>11. TypeOK'
    <2>1. pc \in [Threads -> Places] /\ arg \in [Threads -> Blocks \cup {None}]
      BY DEF TypeOK
    <2>2. pc' \in [Threads -> Places] /\ arg' \in [Threads -> Blocks \cup {None}]
      BY <1>2, <2>1 DEF Places
    <2>3. owed' \subseteq Blocks
      BY <1>1, <1>2 DEF TypeOK
    <2> QED BY <1>2, <1>7, <2>2, <2>3 DEF TypeOK, Boxes, Messages
  <1>12. ArgsInv'
    BY <1>1, <1>2 DEF ArgsInv, Making, Joining
  <1>a. WorkersInv'
    <2>1. \A w \in WebWorkers : ptr[w] # None => ptr[w] \in Blocks
      BY DEF TypeOK
    <2> QED BY <1>2, <1>6, <2>1 DEF WorkersInv
  <1>13. StatesInv'
    BY <1>1, <1>2, <1>5, <1>10 DEF StatesInv, Threads, Making
  <1>14. FreeInv'
    BY <1>2, <1>4, <1>7, <1>8, <1>9 DEF FreeInv
  <1>15. MakersInv'
    BY <1>2, <1>7, <1>8, <1>9 DEF MakersInv
  <1>16. ClaimsInv'
    <2>1. \A u \in Threads : \A c \in owed' : ~Joins(u, c)'
      <3>1. \A c \in owed' : c \in Blocks /\ (c \in owed \/ c = b)
        BY <1>1, <1>2 DEF TypeOK
      <3> QED BY <3>1, <1>3, <1>9 DEF ClaimsInv
    <2>2. \A c \in owed' : detach'[c] # "detached"
      BY <1>2 DEF ClaimsInv
    <2>3. \A u \in Threads, c \in Blocks : Joins(u, c) => pc'[u] = pc[u]
      BY <1>1, <1>2, <1>5 DEF Joins, Joining, Making
    <2> QED BY <1>2, <1>9, <2>1, <2>2, <2>3 DEF ClaimsInv
  <1>17. MailInv'
    BY <1>2, <1>3, <1>7, <1>9, <1>10 DEF MailInv
  <1> QED BY <1>a, <1>11, <1>12, <1>13, <1>14, <1>15, <1>16, <1>17

LEMMA StartStep ==
    ASSUME LifecycleInv, NEW w \in WebWorkers, Start(w)
    PROVE  LifecycleInv'
  <1> USE LifecycleAssumption DEF LifecycleInv
  <1>b. PICK b \in Blocks : b = ptr[w]
    BY DEF TypeOK, WorkersInv, Start
  <1>1. /\ inbox \in [WebWorkers -> Seq(Blocks)] /\ hosts \in [Blocks -> WebWorkers \cup {None}]
        /\ pc \in [Threads -> Places] /\ arg \in [Threads -> Blocks \cup {None}]
    BY DEF TypeOK
  <1>2. /\ b \in Blocks /\ inbox[w] = <<b>> /\ pc[b] = "none" /\ hosts[b] = w
    BY <1>b DEF TypeOK, WorkersInv, Start
  <1>3. Head(<<b>>) = b /\ Tail(<<b>>) = <<>> /\ <<>> \in Seq(Blocks) /\ <<b>> # <<>>
    OBVIOUS
  <1>4. /\ pc' = [pc EXCEPT ![b] = "run"] /\ arg' = [arg EXCEPT ![b] = None]
        /\ masked' = masked \ {b} /\ inbox' = [inbox EXCEPT ![w] = <<>>]
        /\ UNCHANGED <<block, detach, cancel, sleepers, listed, val>>
        /\ UNCHANGED <<hosts, ptr, unused, strict, loaded, outbox, wakes, owed, creates>>
    BY <1>2, <1>3 DEF Start, Go, GoAbout, blockVars, programVars
  <1>5. /\ pc'[b] = "run" /\ \A t \in Threads \ {b} : pc'[t] = pc[t] /\ arg'[t] = arg[t]
        /\ inbox'[w] = <<>> /\ \A v \in WebWorkers \ {w} : inbox'[v] = inbox[v]
        /\ Blocks \subseteq Threads
    BY <1>1, <1>2, <1>4 DEF Threads
  <1>6. \A u \in Threads, c \in Blocks :
            (Makes(u, c)' <=> Makes(u, c)) /\ (Joins(u, c)' <=> Joins(u, c))
    BY <1>2, <1>5 DEF Makes, Joins, Making, Joining
  <1>7. \A c \in Blocks : (Cleaning(c)' <=> Cleaning(c)) /\ (Posted(c)' <=> Posted(c))
    BY <1>4 DEF Cleaning, Posted
  <1>8. \A c \in Blocks : Ended(c)' <=> Ended(c)
    <2>1. ~Ended(b)' /\ ~Ended(b)
      BY <1>2, <1>3, <1>5 DEF Ended
    <2>2. \A c \in Blocks \ {b} : hosts[c] # w
      BY <1>2 DEF WorkersInv
    <2>3. \A c \in Blocks \ {b} : Ended(c)' <=> Ended(c)
      BY <1>1, <1>4, <1>5, <2>2 DEF Ended
    <2> QED BY <2>1, <2>3
  <1>9. TypeOK'
    <2>1. pc' \in [Threads -> Places] /\ arg' \in [Threads -> Blocks \cup {None}]
      BY <1>1, <1>4 DEF Places
    <2>2. inbox' \in [WebWorkers -> Seq(Blocks)]
      BY <1>1, <1>3, <1>4
    <2> QED BY <1>4, <2>1, <2>2 DEF TypeOK
  <1>10. ArgsInv'
    BY <1>5 DEF ArgsInv, Making, Joining
  <1>11. WorkersInv'
    <2>1. \A v \in WebWorkers : inbox'[v] # <<>> => v # w /\ ptr[v] \in Blocks /\ ptr[v] # b
      BY <1>b, <1>2, <1>5 DEF WorkersInv, TypeOK
    <2> QED BY <1>2, <1>4, <1>5, <2>1 DEF WorkersInv, Threads
  <1>12. StatesInv'
    BY <1>2, <1>4, <1>5, <1>8 DEF StatesInv
  <1>13. FreeInv'
    BY <1>4, <1>6, <1>7 DEF FreeInv
  <1>14. MakersInv'
    BY <1>4, <1>6, <1>7 DEF MakersInv
  <1>15. ClaimsInv'
    <2>1. \A u \in Threads, c \in Blocks : Joins(u, c) => pc'[u] = pc[u]
      BY <1>2, <1>5 DEF Joins, Joining
    <2>2. \A c \in owed : c \in Blocks
      BY DEF TypeOK
    <2> QED BY <1>4, <1>6, <2>1, <2>2 DEF ClaimsInv
  <1>16. MailInv'
    BY <1>4, <1>6, <1>7, <1>8 DEF MailInv
  <1> QED BY <1>9, <1>10, <1>11, <1>12, <1>13, <1>14, <1>15, <1>16

LEMMA ExitCasStep ==
    ASSUME LifecycleInv, NEW b \in Blocks, ExitCas(b)
    PROVE  LifecycleInv'
  <1> USE LifecycleAssumption DEF LifecycleInv
  <1>1. /\ pc \in [Threads -> Places] /\ detach \in [Blocks -> DetachStates] /\ b \in Threads
        /\ pc[b] = "cas" /\ hosts[b] \in WebWorkers /\ inbox[hosts[b]] = <<>> /\ block[b] = "used"
        /\ detach[b] \in {"joinable", "detached"}
        /\ UNCHANGED <<block, cancel, sleepers, listed, arg, val, masked, owed, creates>>
        /\ UNCHANGED <<hosts, ptr, unused, strict, loaded, inbox, wakes>>
    <2>1. pc[b] = "cas"
      BY DEF ExitCas, At
    <2>2. /\ pc \in [Threads -> Places] /\ detach \in [Blocks -> DetachStates] /\ b \in Threads
          /\ hosts[b] \in WebWorkers /\ inbox[hosts[b]] = <<>>
      BY <2>1, InboxOf DEF TypeOK, Threads
    <2>3. block[b] = "used" /\ detach[b] # "exiting" /\ detach[b] # "exited"
      BY <2>1, <2>2 DEF StatesInv, FreeInv, Ended, Threads
    <2>4. detach[b] \in {"joinable", "detached"}
      BY <2>2, <2>3 DEF DetachStates
    <2>5. /\ UNCHANGED <<block, cancel, sleepers, listed, arg, val, masked, owed, creates>>
          /\ UNCHANGED <<hosts, ptr, unused, strict, loaded, inbox, wakes>>
      BY DEF ExitCas, programVars
    <2> QED BY <2>1, <2>2, <2>3, <2>4, <2>5
  <1>2. \A u \in Threads, c \in Blocks :
            pc'[b] \in {"publish", "none"} /\ pc' = [pc EXCEPT ![b] = pc'[b]] =>
            (Makes(u, c)' <=> Makes(u, c)) /\ (Joins(u, c)' <=> Joins(u, c))
    BY <1>1 DEF Makes, Joins, Making, Joining
  <1>3. CASE detach[b] = "joinable"
    <2>1. /\ detach' = [detach EXCEPT ![b] = "exiting"] /\ pc' = [pc EXCEPT ![b] = "publish"]
          /\ outbox' = outbox
      BY <1>3 DEF ExitCas, Go
    <2>2. /\ pc'[b] = "publish" /\ \A t \in Threads \ {b} : pc'[t] = pc[t]
          /\ detach'[b] = "exiting" /\ \A c \in Blocks \ {b} : detach'[c] = detach[c]
          /\ Blocks \subseteq Threads
      BY <1>1, <2>1 DEF Threads
    <2>3. \A u \in Threads, c \in Blocks :
              (Makes(u, c)' <=> Makes(u, c)) /\ (Joins(u, c)' <=> Joins(u, c))
      BY <1>2, <2>1, <2>2
    <2>4. \A c \in Blocks : /\ (Cleaning(c)' <=> Cleaning(c)) /\ (Posted(c)' <=> Posted(c))
                            /\ (Ended(c)' <=> Ended(c))
      BY <1>1, <2>1, <2>2 DEF Cleaning, Posted, Ended
    <2>5. pc' \in [Threads -> Places] /\ detach' \in [Blocks -> DetachStates]
      BY <1>1, <2>1 DEF Places, DetachStates
    <2>6. TypeOK'
      BY <1>1, <2>1, <2>5 DEF TypeOK
    <2>7. ArgsInv'
      BY <1>1, <2>2 DEF ArgsInv, Making, Joining
    <2>8. WorkersInv'
      <3>1. \A v \in WebWorkers : inbox[v] # <<>> => ptr[v] \in Blocks /\ ptr[v] # b
        BY <1>1 DEF WorkersInv, TypeOK
      <3> QED BY <1>1, <2>2, <3>1 DEF WorkersInv
    <2>9. StatesInv'
      BY <1>1, <2>2, <2>4 DEF StatesInv
    <2>10. FreeInv' /\ MakersInv'
      BY <1>1, <2>3, <2>4 DEF FreeInv, MakersInv
    <2>11. ClaimsInv'
      <3>1. \A u \in Threads, c \in Blocks : Joins(u, c) => pc'[u] = pc[u]
        BY <1>1, <2>2 DEF Joins, Joining
      <3>2. \A c \in Blocks : detach'[c] = "detached" => detach[c] = "detached"
        BY <2>2
      <3>3. \A c \in owed : c \in Blocks
        BY DEF TypeOK
      <3> QED BY <1>1, <2>3, <3>1, <3>2, <3>3 DEF ClaimsInv
    <2>12. MailInv'
      BY <1>1, <2>1, <2>3, <2>4 DEF MailInv
    <2> QED BY <2>6, <2>7, <2>8, <2>9, <2>10, <2>11, <2>12
  <1>4. CASE detach[b] # "joinable"
    <2>1. detach' = detach /\ pc' = [pc EXCEPT ![b] = "none"] /\ Post(b, "cleanupThread", b)
      BY <1>4 DEF ExitCas, Go
    <2>2. /\ pc'[b] = "none" /\ \A t \in Threads \ {b} : pc'[t] = pc[t]
          /\ Blocks \subseteq Threads /\ None \notin Blocks
      BY <1>1, <2>1 DEF Threads
    <2>3. \A u \in Threads, c \in Blocks :
              (Makes(u, c)' <=> Makes(u, c)) /\ (Joins(u, c)' <=> Joins(u, c))
      BY <1>2, <2>1, <2>2
    <2>4. hosts[b] # None /\ ~Cleaning(b) /\ ~Posted(b) /\ b \notin owed
      BY <1>1, <1>4 DEF MailInv, Ended, ClaimsInv
    <2>5. \A u \in Threads : ~Joins(u, b)
      <3> TAKE u \in Threads
      <3>1. Joins(u, b) => u = b
        BY <1>1, <1>4 DEF ClaimsInv
      <3>2. ~Joins(b, b)
        BY <1>1 DEF Joins, Joining
      <3> QED BY <3>1, <3>2
    <2>6. /\ outbox' \in Boxes /\ SentOnce(outbox')
          /\ \A c \in Blocks : Cleaning(c)' <=> Cleaning(c) \/ c = b
          /\ \A c \in Blocks : Posted(c)' <=> Posted(c)
      BY <2>1, <2>4, MailPosted
    <2>7. \A c \in Blocks : Ended(c)' <=> Ended(c) \/ c = b
      BY <1>1, <2>2, <2>4 DEF Ended
    <2>8. TypeOK'
      <3>1. pc' \in [Threads -> Places]
        BY <1>1, <2>1 DEF Places
      <3> QED BY <1>1, <2>1, <2>6, <3>1 DEF TypeOK, Boxes, Messages
    <2>9. ArgsInv'
      BY <1>1, <2>2 DEF ArgsInv, Making, Joining
    <2>10. WorkersInv'
      <3>1. \A v \in WebWorkers : inbox[v] # <<>> => ptr[v] \in Blocks /\ ptr[v] # b
        BY <1>1 DEF WorkersInv, TypeOK
      <3> QED BY <1>1, <2>2, <3>1 DEF WorkersInv
    <2>11. StatesInv'
      BY <1>1, <2>1, <2>2, <2>7 DEF StatesInv
    <2>12. FreeInv'
      BY <1>1, <2>3, <2>6 DEF FreeInv
    <2>13. MakersInv'
      BY <1>1, <2>3, <2>4, <2>6 DEF MakersInv
    <2>14. ClaimsInv'
      <3>1. \A u \in Threads, c \in Blocks : Joins(u, c) => pc'[u] = pc[u]
        BY <1>1, <2>2 DEF Joins, Joining
      <3>2. \A c \in owed : c \in Blocks
        BY DEF TypeOK
      <3> QED BY <1>1, <2>1, <2>3, <3>1, <3>2 DEF ClaimsInv
    <2>15. MailInv'
      BY <1>1, <2>3, <2>4, <2>5, <2>6, <2>7 DEF MailInv
    <2> QED BY <2>8, <2>9, <2>10, <2>11, <2>12, <2>13, <2>14, <2>15
  <1> QED BY <1>3, <1>4

LEMMA HandleCleanupStep ==
    ASSUME LifecycleInv, NEW w \in WebWorkers, HandleCleanup(w)
    PROVE  LifecycleInv'
  <1> USE LifecycleAssumption DEF LifecycleInv
  <1>1. PICK b \in Blocks : b = Head(outbox[w]).thread
    BY MailTaken DEF HandleCleanup
  <1>2. /\ Cleaned(b) /\ outbox' = [outbox EXCEPT ![w] = Tail(@)] /\ outbox[w] # <<>>
        /\ Head(outbox[w]).cmd = "cleanupThread"
        /\ UNCHANGED <<cancel, sleepers, listed, pc, arg, val, masked>>
        /\ UNCHANGED <<strict, loaded, inbox, wakes, owed, creates>>
    BY <1>1 DEF HandleCleanup, threadVars, programVars
  <1>3. /\ outbox' \in Boxes /\ SentOnce(outbox') /\ Cleaning(b)
        /\ \A c \in Blocks : Cleaning(c)' <=> Cleaning(c) /\ c # b
        /\ \A c \in Blocks : Posted(c)' <=> Posted(c)
    BY <1>1, <1>2, MailTaken
  <1>4. Ended(b) /\ b \notin owed /\ \A u \in Threads : ~Joins(u, b)
    BY <1>3 DEF MailInv
  <1>5. \A u \in Threads, c \in Blocks : Makes(u, c)' <=> Makes(u, c)
    BY <1>2 DEF Makes, Making
  <1>6. \A u \in Threads, c \in Blocks : Joins(u, c)' <=> Joins(u, c) /\ c # b
    <2>1. \A u \in Threads, c \in Blocks : Joins(u, c)' <=> Joins(u, c)
      BY <1>2 DEF Joins, Joining
    <2> QED BY <1>4, <2>1
  <1>7. /\ \A c \in Blocks : pc'[c] = pc[c]
        /\ \A u \in Threads, c \in Blocks : Joins(u, c)' => pc'[u] = pc[u]
    BY <1>2
  <1>8. /\ block' \in [Blocks -> {"free", "used", "lost"}]
        /\ detach' \in [Blocks -> DetachStates]
        /\ hosts' \in [Blocks -> WebWorkers \cup {None}]
        /\ ptr' \in [WebWorkers -> Blocks \cup {None}] /\ unused' \subseteq WebWorkers
        /\ WorkersInv' /\ StatesInv' /\ FreeInv' /\ MakersInv' /\ ClaimsInv' /\ MailInv'
    BY <1>2, <1>3, <1>4, <1>5, <1>6, <1>7, Freed
  <1>9. TypeOK'
    BY <1>2, <1>3, <1>8 DEF TypeOK, Boxes, Messages
  <1>10. ArgsInv'
    BY <1>2 DEF ArgsInv, Making, Joining
  <1> QED BY <1>8, <1>9, <1>10

LEMMA HandleSpawnStep ==
    ASSUME LifecycleInv, NEW w \in WebWorkers, HandleSpawn(w)
    PROVE  LifecycleInv'
  <1> USE LifecycleAssumption DEF LifecycleInv
  <1>1. PICK b \in Blocks : b = Head(outbox[w]).thread
    BY MailTaken DEF HandleSpawn
  <1>2. /\ outbox' = [outbox EXCEPT ![w] = Tail(@)] /\ outbox[w] # <<>>
        /\ Head(outbox[w]).cmd = "spawnThread"
        /\ (\E n \in NewWorkers : Spawn(b, n)) \/ UNCHANGED <<unused, hosts, ptr, inbox>>
        /\ UNCHANGED <<block, detach, cancel, sleepers, listed, pc, arg, val, masked>>
        /\ UNCHANGED <<strict, loaded, wakes, owed, creates>>
    BY <1>1 DEF HandleSpawn, blockVars, threadVars, programVars
  <1>3. /\ outbox' \in Boxes /\ SentOnce(outbox') /\ Posted(b)
        /\ \A c \in Blocks : Posted(c)' <=> Posted(c) /\ c # b
        /\ \A c \in Blocks : Cleaning(c)' <=> Cleaning(c)
    BY <1>1, <1>2, MailTaken
  <1>4. hosts[b] = None /\ block[b] = "used" /\ \A u \in Threads : ~Makes(u, b)
    BY <1>3 DEF MailInv, FreeInv, MakersInv
  <1>5. /\ hosts' \in [Blocks -> WebWorkers \cup {None}]
        /\ ptr' \in [WebWorkers -> Blocks \cup {None}]
        /\ unused' \subseteq WebWorkers /\ inbox' \in [WebWorkers -> Seq(Blocks)]
        /\ WorkersInv'
        /\ \A c \in Blocks \ {b} : hosts'[c] = hosts[c]
        /\ \A c \in Blocks : Ended(c)' <=> Ended(c)
    <2>1. CASE \E n \in NewWorkers : Spawn(b, n)
      BY <1>2, <1>4, <2>1, Spawned
    <2>2. CASE UNCHANGED <<unused, hosts, ptr, inbox>>
      BY <1>2, <2>2 DEF TypeOK, WorkersInv, Ended
    <2> QED BY <1>2, <2>1, <2>2
  <1>6. \A u \in Threads, c \in Blocks :
            (Makes(u, c)' <=> Makes(u, c)) /\ (Joins(u, c)' <=> Joins(u, c))
    BY <1>2 DEF Makes, Joins, Making, Joining
  <1>7. TypeOK'
    BY <1>2, <1>3, <1>5 DEF TypeOK, Boxes, Messages
  <1>8. ArgsInv' /\ StatesInv'
    BY <1>2, <1>5 DEF ArgsInv, StatesInv, Making, Joining
  <1>9. FreeInv'
    BY <1>2, <1>3, <1>4, <1>5, <1>6 DEF FreeInv
  <1>10. MakersInv'
    BY <1>2, <1>3, <1>4, <1>5, <1>6 DEF MakersInv
  <1>11. ClaimsInv'
    <2>1. \A c \in owed : c \in Blocks
      BY DEF TypeOK
    <2> QED BY <1>2, <1>6, <2>1 DEF ClaimsInv
  <1>12. MailInv'
    BY <1>2, <1>3, <1>5, <1>6 DEF MailInv
  <1> QED BY <1>5, <1>7, <1>8, <1>9, <1>10, <1>11, <1>12

(* Who joins an exited thread is the one who has it cleaned up. *)
LEMMA JoinedEnded ==
    ASSUME LifecycleInv, NEW t \in Threads, At(t, "join"), Finished(arg[t])
    PROVE  /\ arg[t] \in Blocks /\ Joins(t, arg[t]) /\ Ended(arg[t])
           /\ arg[t] \notin owed /\ ~Cleaning(arg[t]) /\ ~Posted(arg[t])
           /\ \A u \in Threads : Joins(u, arg[t]) => u = t
  <1>1. arg[t] \in Blocks /\ Joins(t, arg[t])
    BY DEF LifecycleInv, TypeOK, ArgsInv, At, Joins, Joining
  <1>2. arg[t] \notin owed /\ ~Cleaning(arg[t]) /\ block[arg[t]] = "used"
    BY <1>1 DEF LifecycleInv, ClaimsInv, MailInv, FreeInv
  <1>3. Ended(arg[t])
    BY <1>1, <1>2 DEF LifecycleInv, StatesInv, Finished
  <1>4. ~Posted(arg[t])
    BY <1>1, <1>3 DEF LifecycleInv, MailInv, Ended
  <1> QED BY <1>1, <1>2, <1>3, <1>4 DEF LifecycleInv, ClaimsInv

LEMMA JoinExitedStep ==
    ASSUME LifecycleInv, NEW t \in Threads, JoinExited(t)
    PROVE  LifecycleInv'
  <1> USE LifecycleAssumption DEF LifecycleInv
  <1>1. PICK b \in Blocks : b = arg[t]
    BY JoinedEnded DEF JoinExited
  <1>2. /\ Joins(t, b) /\ Ended(b) /\ b \notin owed /\ ~Cleaning(b) /\ ~Posted(b)
        /\ \A u \in Threads : Joins(u, b) => u = t
    BY <1>1, JoinedEnded DEF JoinExited
  <1>3. /\ pc[t] = "join" /\ pc' = [pc EXCEPT ![t] = "run"] /\ arg' = [arg EXCEPT ![t] = None]
        /\ masked' = masked \ {t}
        /\ UNCHANGED <<cancel, sleepers, listed, val, strict, loaded, inbox, wakes, owed, creates>>
    BY DEF JoinExited, At, Go, GoAbout, programVars
  <1>4. pc \in [Threads -> Places] /\ arg \in [Threads -> Blocks \cup {None}]
    BY DEF TypeOK
  <1>5. pc' \in [Threads -> Places] /\ arg' \in [Threads -> Blocks \cup {None}]
    BY <1>3, <1>4 DEF Places
  <1>6. pc'[t] = "run" /\ \A u \in Threads \ {t} : pc'[u] = pc[u] /\ arg'[u] = arg[u]
    BY <1>3, <1>4
  <1>7. \A u \in Threads, c \in Blocks : Makes(u, c)' <=> Makes(u, c)
    BY <1>3, <1>6 DEF Makes, Making
  <1>8. \A u \in Threads, c \in Blocks : Joins(u, c)' <=> Joins(u, c) /\ c # b
    <2>1. \A c \in Blocks : ~Joins(t, c)' /\ (Joins(t, c) => c = b)
      BY <1>1, <1>6 DEF Joins, Joining
    <2>2. \A u \in Threads \ {t}, c \in Blocks : Joins(u, c)' <=> Joins(u, c)
      BY <1>6 DEF Joins, Joining
    <2> QED BY <1>2, <2>1, <2>2
  <1>9. \A u \in Threads, c \in Blocks : Joins(u, c)' => pc'[u] = pc[u]
    <2>1. \A c \in Blocks : ~Joins(t, c)'
      BY <1>6 DEF Joins, Joining
    <2> QED BY <1>6, <2>1
  <1>10. ArgsInv'
    BY <1>6 DEF ArgsInv, Making, Joining
  <1>11. CASE t = Main
    <2>1. Cleaned(b) /\ outbox' = outbox
      BY <1>1, <1>11 DEF JoinExited
    <2>2. \A c \in Blocks : pc'[c] = pc[c]
      BY <1>6, <1>11 DEF Threads
    <2>3. /\ \A c \in Blocks : Cleaning(c)' <=> Cleaning(c) /\ c # b
          /\ \A c \in Blocks : Posted(c)' <=> Posted(c)
          /\ SentOnce(outbox')
      <3>1. /\ \A c \in Blocks : Cleaning(c)' <=> Cleaning(c)
            /\ \A c \in Blocks : Posted(c)' <=> Posted(c)
        BY <2>1 DEF Cleaning, Posted
      <3> QED BY <1>2, <2>1, <3>1 DEF MailInv
    <2>4. /\ block' \in [Blocks -> {"free", "used", "lost"}]
          /\ detach' \in [Blocks -> DetachStates]
          /\ hosts' \in [Blocks -> WebWorkers \cup {None}]
          /\ ptr' \in [WebWorkers -> Blocks \cup {None}] /\ unused' \subseteq WebWorkers
          /\ WorkersInv' /\ StatesInv' /\ FreeInv' /\ MakersInv' /\ ClaimsInv' /\ MailInv'
      BY <1>2, <1>3, <1>7, <1>8, <1>9, <2>1, <2>2, <2>3, Freed
    <2>5. TypeOK'
      BY <1>3, <1>5, <2>1, <2>4 DEF TypeOK
    <2> QED BY <1>10, <2>4, <2>5
  <1>12. CASE t # Main
    <2>1. /\ Post(t, "cleanupThread", b) /\ t \in Blocks
          /\ UNCHANGED <<block, detach, hosts, ptr, unused>>
      BY <1>1, <1>12 DEF JoinExited, Threads
    <2>2. hosts[t] # None /\ block[b] = "used" /\ hosts[b] # None
      BY <1>2, <1>3, <2>1 DEF WorkersInv, FreeInv, Ended
    <2>3. /\ outbox' \in Boxes /\ SentOnce(outbox')
          /\ \A c \in Blocks : Cleaning(c)' <=> Cleaning(c) \/ c = b
          /\ \A c \in Blocks : Posted(c)' <=> Posted(c)
      BY <1>2, <2>1, <2>2, MailPosted
    <2>4. \A c \in Blocks : pc'[c] = "none" <=> pc[c] = "none"
      BY <1>3, <1>6 DEF Threads
    <2>5. \A c \in Blocks : Ended(c)' <=> Ended(c)
      BY <1>3, <2>1, <2>4 DEF Ended
    <2>6. TypeOK'
      BY <1>3, <1>5, <2>1, <2>3 DEF TypeOK, Boxes, Messages
    <2>7. WorkersInv'
      <3>1. \A w \in WebWorkers : ptr[w] # None => ptr[w] \in Blocks
        BY DEF TypeOK
      <3> QED BY <1>3, <2>1, <2>4, <3>1 DEF WorkersInv
    <2>8. StatesInv'
      <3>1. \A c \in Blocks : /\ pc'[c] = "publish" <=> pc[c] = "publish"
                              /\ pc'[c] = "cas" <=> pc[c] = "cas"
        BY <1>3, <1>6 DEF Threads
      <3> QED BY <1>3, <2>1, <2>5, <3>1 DEF StatesInv
    <2>9. FreeInv'
      BY <1>3, <1>7, <1>8, <2>1, <2>2, <2>3 DEF FreeInv
    <2>10. MakersInv'
      BY <1>3, <1>7, <1>8, <2>1, <2>2, <2>3 DEF MakersInv
    <2>11. ClaimsInv'
      <3>1. \A c \in owed : c \in Blocks
        BY DEF TypeOK
      <3> QED BY <1>3, <1>8, <1>9, <2>1, <3>1 DEF ClaimsInv
    <2>12. MailInv'
      BY <1>2, <1>3, <1>8, <2>1, <2>2, <2>3, <2>5 DEF MailInv
    <2> QED BY <1>10, <2>6, <2>7, <2>8, <2>9, <2>10, <2>11, <2>12
  <1> QED BY <1>11, <1>12

-----------------------------------------------------------------------------
(* The invariant.                                                          *)

LEMMA LifecycleInitial ==
    ASSUME Init
    PROVE  LifecycleInv
  <1> USE LifecycleAssumption DEF Init, Threads
  <1>1. TypeOK
    <2>1. unused \in SUBSET WebWorkers
      OBVIOUS
    <2>2. <<>> \in Seq(Blocks) /\ <<>> \in Seq(Messages)
      OBVIOUS
    <2> QED BY <2>1, <2>2 DEF TypeOK, DetachStates, Places, Messages
  <1>2. ArgsInv /\ WorkersInv
    BY DEF ArgsInv, WorkersInv, Making, Joining
  <1>3. /\ \A b \in Blocks : block[b] = "free" /\ hosts[b] = None /\ pc[b] = "none"
        /\ \A t \in Threads, b \in Blocks : ~Makes(t, b) /\ ~Joins(t, b)
        /\ owed = {} /\ listed = {} /\ \A b \in Blocks : detach[b] = "exited" /\ ~Ended(b)
    BY DEF Makes, Joins, Making, Joining, Ended
  <1>4. SentOnce(outbox) /\ \A b \in Blocks : ~Cleaning(b) /\ ~Posted(b)
    BY DEF SentOnce, Cleaning, Posted, Sent
  <1>5. StatesInv /\ FreeInv /\ MakersInv /\ ClaimsInv /\ MailInv
    BY <1>3, <1>4 DEF StatesInv, FreeInv, MakersInv, ClaimsInv, MailInv
  <1> QED BY <1>1, <1>2, <1>5 DEF LifecycleInv

LEMMA Unchanged ==
    ASSUME LifecycleInv, UNCHANGED vars
    PROVE  LifecycleInv'
  <1>1. /\ UNCHANGED <<block, detach, cancel, sleepers, listed, pc, arg, val, masked>>
        /\ UNCHANGED <<strict, hosts, ptr, unused, loaded, inbox, outbox, wakes, owed, creates>>
    BY DEF vars, blockVars, threadVars, poolVars, programVars
  <1>2. TypeOK' /\ ArgsInv' /\ WorkersInv'
    BY <1>1 DEF LifecycleInv, TypeOK, ArgsInv, WorkersInv
  <1>3. \A u \in Threads, c \in Blocks :
            (Makes(u, c)' <=> Makes(u, c)) /\ (Joins(u, c)' <=> Joins(u, c))
    BY <1>1 DEF Makes, Joins, Making, Joining
  <1>4. \A c \in Blocks : /\ (Cleaning(c)' <=> Cleaning(c)) /\ (Posted(c)' <=> Posted(c))
                          /\ (Ended(c)' <=> Ended(c))
    BY <1>1 DEF Cleaning, Posted, Ended
  <1>5. StatesInv' /\ MailInv' /\ FreeInv' /\ MakersInv'
    BY <1>1, <1>3, <1>4 DEF LifecycleInv, StatesInv, MailInv, FreeInv, MakersInv
  <1>6. ClaimsInv'
    BY <1>1, <1>3 DEF LifecycleInv, ClaimsInv, TypeOK
  <1> QED BY <1>2, <1>5, <1>6 DEF LifecycleInv

LEMMA LifecycleStep ==
    ASSUME LifecycleInv, Next
    PROVE  LifecycleInv'
  <1>1. ASSUME NEW t \in Threads, ThreadStep(t) \/ PostSpawn(t) \/ JoinTimesOut(t)
        PROVE  LifecycleInv'
    BY <1>1, SpawnThreadStep, SpawnFailsStep, CreateFailsStep, ProxySpawnStep, JoinReadStep,
       JoinExitedStep, JoinDetachedStep, JoinWaitStep, JoinWokenStep, PostSpawnStep,
       JoinTimesOutStep
    DEF ThreadStep
  <1>2. ASSUME NEW t \in Threads, NEW b \in Blocks,
               \/ \E state \in DetachStates : Create(t, b, state)
               \/ Join(t, b) \/ Detach(t, b) \/ Cancel(t, b)
        PROVE  LifecycleInv'
    BY <1>2, CreateStep, JoinBegin, DetachStep, CancelStep
  <1>3. ASSUME NEW b \in Blocks, ExitStep(b) \/ Cancelled(b)
        PROVE  LifecycleInv'
    BY <1>3, ExitBegin, ExitUnlistStep, ExitCasStep, ExitPublishStep, CancelledStep DEF
       ExitStep
  <1>4. ASSUME NEW w \in WebWorkers, WorkerStep(w)
        PROVE  LifecycleInv'
    BY <1>4, LoadStep, StartStep, ExitWakeStep, HandleCleanupStep, HandleSpawnStep DEF
       WorkerStep
  <1> QED BY <1>1, <1>2, <1>3, <1>4 DEF Next

(* The invariant holds in every reachable state. *)
THEOREM LifecycleInvariant == Spec => []LifecycleInv
  <1>1. Init => LifecycleInv
    BY LifecycleInitial
  <1>2. LifecycleInv /\ [Next]_vars => LifecycleInv'
    BY LifecycleStep, Unchanged
  <1> QED BY <1>1, <1>2, PTL DEF Spec

-----------------------------------------------------------------------------
(* The properties.                                                         *)

LEMMA NoCleanup ==
    ASSUME LifecycleInv, NEW b \in Blocks, ~Cleaning(b)
    PROVE  CleanupsOf(b) = {}
  BY DEF CleanupsOf, Cleaning, Sent, Message

LEMMA OneCleanup ==
    ASSUME LifecycleInv, NEW b \in Blocks
    PROVE  Cardinality(CleanupsOf(b)) <= 1
  <1>1. ASSUME NEW m \in CleanupsOf(b), NEW n \in CleanupsOf(b)
        PROVE  m = n
    <2>1. /\ m[1] \in WebWorkers /\ m[2] \in DOMAIN outbox[m[1]]
          /\ n[1] \in WebWorkers /\ n[2] \in DOMAIN outbox[n[1]]
          /\ outbox[m[1]][m[2]].thread = outbox[n[1]][n[2]].thread
      BY DEF CleanupsOf
    <2>2. m[1] = n[1] /\ m[2] = n[2]
      BY <2>1 DEF LifecycleInv, MailInv, SentOnce
    <2> QED BY <2>2 DEF CleanupsOf
  <1>2. CASE CleanupsOf(b) = {}
    BY <1>2, FS_EmptySet
  <1>3. CASE CleanupsOf(b) # {}
    <2>1. PICK m : m \in CleanupsOf(b)
      BY <1>3
    <2>2. CleanupsOf(b) = {m}
      BY <1>1, <2>1
    <2> QED BY <2>2, FS_Singleton
  <1> QED BY <1>2, <1>3

(* For every number of threads and Workers, pthread_join, pthread_detach   *)
(* and the end of a thread have its block freed and its Worker pooled once.*)
THEOREM ThreadsAreCleanedUpOnce == Spec => []CleanedUpOnce
  <1>1. ASSUME LifecycleInv, NEW b \in Blocks
        PROVE  Cardinality(CleanupsOf(b)) <= IF hosts[b] = None THEN 0 ELSE 1
    <2>1. CASE hosts[b] = None
      <3>1. ~Cleaning(b)
        BY <1>1, <2>1 DEF LifecycleInv, MailInv, Ended
      <3> QED BY <1>1, <2>1, <3>1, NoCleanup, FS_EmptySet
    <2>2. CASE hosts[b] # None
      BY <1>1, <2>2, OneCleanup
    <2> QED BY <2>1, <2>2
  <1>2. ASSUME LifecycleInv, At(Main, "join"), Finished(arg[Main])
        PROVE  hosts[arg[Main]] # None /\ CleanupsOf(arg[Main]) = {}
    <2>1. Main \in Threads
      BY DEF Threads
    <2> QED BY <1>2, <2>1, JoinedEnded, NoCleanup DEF Ended
  <1>3. LifecycleInv => CleanedUpOnce
    BY <1>1, <1>2 DEF CleanedUpOnce
  <1> QED BY <1>3, LifecycleInvariant, PTL

(* For every number of threads and Workers, nothing frees the block of a   *)
(* thread that runs or is about to, that is in the thread list, or that    *)
(* somebody joins.                                                         *)
THEOREM UsedBlocksAreLive == Spec => []BlocksInUseAreLive
  <1>1. ASSUME LifecycleInv, NEW b \in Blocks,
               pc[b] # "none" \/ \E w \in WebWorkers : \E i \in DOMAIN inbox[w] : inbox[w][i] = b
        PROVE  /\ block[b] = "used"
               /\ hosts[b] # None /\ hosts[b] \notin unused /\ ptr[hosts[b]] = b
    <2>1. hosts[b] # None
      <3>1. CASE pc[b] # "none"
        BY <1>1, <3>1 DEF LifecycleInv, WorkersInv
      <3>2. ASSUME NEW w \in WebWorkers, NEW i \in DOMAIN inbox[w], inbox[w][i] = b
            PROVE  hosts[b] # None
        <4>1. inbox[w] # <<>>
          BY <3>2
        <4>2. ptr[w] # None /\ inbox[w] = <<ptr[w]>>
          BY <1>1, <4>1 DEF LifecycleInv, WorkersInv
        <4>3. ptr[w] = b
          BY <3>2, <4>2
        <4> QED BY <1>1, <4>2, <4>3, LifecycleAssumption DEF LifecycleInv, WorkersInv, Threads
      <3> QED BY <1>1, <3>1, <3>2
    <2>2. block[b] = "used"
      BY <1>1, <2>1 DEF LifecycleInv, FreeInv
    <2>3. hosts[b] \notin unused /\ ptr[hosts[b]] = b
      BY <1>1, <2>1, LifecycleAssumption DEF LifecycleInv, WorkersInv, Threads
    <2> QED BY <2>1, <2>2, <2>3
  <1>2. ASSUME LifecycleInv, NEW b \in listed
        PROVE  block[b] = "used"
    BY <1>2 DEF LifecycleInv, TypeOK, FreeInv
  <1>3. ASSUME LifecycleInv, NEW t \in Threads, pc[t] \in {"join", "wait", "asleep"}
        PROVE  block[arg[t]] = "used"
    <2>1. arg[t] \in Blocks /\ Joins(t, arg[t])
      BY <1>3 DEF LifecycleInv, TypeOK, ArgsInv, Joins, Joining
    <2> QED BY <1>3, <2>1 DEF LifecycleInv, FreeInv
  <1>4. LifecycleInv => BlocksInUseAreLive
    BY <1>1, <1>2, <1>3 DEF BlocksInUseAreLive
  <1> QED BY <1>4, LifecycleInvariant, PTL

=============================================================================
