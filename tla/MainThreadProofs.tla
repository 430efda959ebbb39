-------------------------- MODULE MainThreadProofs --------------------------
(***************************************************************************)
(* The safety properties of MainThreadWait, for any number of workers and  *)
(* mutexes and any depth of nested calls.                                  *)
(***************************************************************************)
EXTENDS MainThreadWait, FiniteSetTheorems, TLAPS

-----------------------------------------------------------------------------
(* The shape of a stack: which frames there are, and which one calls which.*)

(* A frame of thread t.  Only Main executes the system queue, looks at the *)
(* register and locks with a time limit; only a worker sleeps.             *)
Formed(t, f) ==
    \/ /\ f.op = "lock" /\ f.m \in Locks
       /\ f.pc \in {"try", "read", "inc", "mark", "wait", "asleep", "spin", "check", "dec"}
       /\ f.pc \in {"spin", "check"} => t = Main
       /\ f.pc = "asleep" => t # Main
       /\ f.v = TimedOut => f.pc = "dec"
       /\ f.pc \in {"inc", "mark"} => f.v # Unlocked
    \/ f.op = "unlock" /\ f.m \in Locks /\ f.pc \in {"waiters", "swap", "wake"}
    \/ f.op = "section" /\ f.m \in {"allocator"} \cup UserLocks /\ f.pc \in {"enter", "leave"}
    \/ t = Main /\ f.op = "timedsection" /\ f.m \in TimedLocks /\ f.pc \in {"enter", "leave"}
    \/ /\ f.op = "proxy" /\ f.m \in Threads
       /\ f.pc \in {"enter", "add", "added", "send", "enqueue", "enqueued"}
       /\ f.pc = "enqueued" => t \in Growers
    \/ t = Main /\ f.op = "execute" /\ f.pc \in {"enter", "find", "found", "done"}
    \/ t = Main /\ f.op = "run" /\ f.m = Main /\ f.pc \in {"enter", "next", "call", "again", "end"}

(* g called malloc, and waits for it. *)
Allocates(g) ==
    \/ g.op = "proxy" /\ g.pc \in {"added", "enqueued"}
    \/ g.op = "run" /\ g.pc = "again"

(* Frame f may be on top of g. *)
Under(f, g) ==
    \/ /\ f.op = "lock"
       /\ f.v = TimedOut => g.op = "timedsection"
       /\ \/ g.op \in {"section", "timedsection"} /\ g.pc = "leave" /\ f.m = g.m
          \/ g.op = "proxy" /\ g.pc = "add" /\ f.m = "registry"
          \/ g.op = "proxy" /\ g.pc = "enqueue" /\ f.m = g.m
          \/ g.op = "execute" /\ g.pc = "find" /\ f.m = "registry"
          \/ g.op = "run" /\ g.pc = "next" /\ f.m = Main
    \/ /\ f.op = "unlock"
       /\ \/ g.op = "proxy" /\ g.pc = "send" /\ f.m = "registry"
          \/ g.op = "execute" /\ g.pc = "found" /\ f.m = "registry"
          \/ g.op = "run" /\ g.pc \in {"call", "end"} /\ f.m = Main
          \/ Allocates(g) /\ f.m = "allocator"
          \/ g.op = "run" /\ g.pc = "again" /\ f.m \in Threads
    \/ f.op = "section" /\ f.m = "allocator" /\ Allocates(g)
    \/ f.op = "proxy" /\ g.op = "run" /\ g.pc = "again"
    \/ f.op = "execute" /\ g.op = "lock" /\ g.pc = "check"
    \/ f.op = "run" /\ g.op = "execute" /\ g.pc = "done"

Shape(t, s) ==
    /\ \A i \in 1 .. Len(s) : Formed(t, s[i])
    /\ \A i \in 1 .. Len(s) : i < Len(s) => Under(s[i], s[i + 1])
    /\ s # <<>> => s[Len(s)].op # "lock"

-----------------------------------------------------------------------------
(* What a step does to a stack.                                            *)

LEMMA Replaced ==
    ASSUME NEW s \in Seq(FrameType), s # <<>>, NEW f \in FrameType
    PROVE  LET n == <<f>> \o Tail(s)
           IN  /\ n \in Seq(FrameType) /\ n # <<>> /\ Len(n) = Len(s) /\ Len(s) \in Nat \ {0}
               /\ n[1] = f /\ \A i \in 2 .. Len(s) : n[i] = s[i]
               /\ Tail(n) = Tail(s)
  <1> DEFINE n == <<f>> \o Tail(s)
  <1>1. /\ Tail(s) \in Seq(FrameType) /\ Len(Tail(s)) = Len(s) - 1 /\ Len(s) \in Nat \ {0}
        /\ \A i \in 1 .. Len(s) - 1 : Tail(s)[i] = s[i + 1]
    OBVIOUS
  <1>2. /\ n \in Seq(FrameType) /\ Len(n) = Len(s) /\ n[1] = f
        /\ \A i \in 2 .. Len(s) : n[i] = Tail(s)[i - 1]
    BY <1>1
  <1>3. \A i \in 2 .. Len(s) : n[i] = s[i]
    BY <1>1, <1>2
  <1>4. n # <<>>
    BY <1>1, <1>2
  <1>5. Tail(n) = Tail(s)
    <2>1. Tail(n) \in Seq(FrameType) /\ Len(Tail(n)) = Len(Tail(s))
      BY <1>1, <1>2, <1>4
    <2>2. \A i \in 1 .. Len(Tail(s)) : Tail(n)[i] = Tail(s)[i]
      BY <1>1, <1>2, <1>3, <1>4
    <2> QED BY <1>1, <2>1, <2>2
  <1> QED BY <1>1, <1>2, <1>3, <1>4, <1>5

LEMMA Pushed ==
    ASSUME NEW s \in Seq(FrameType), NEW f \in FrameType
    PROVE  LET n == <<f>> \o s
           IN  /\ n \in Seq(FrameType) /\ n # <<>> /\ Len(n) = Len(s) + 1 /\ Len(s) \in Nat
               /\ n[1] = f /\ \A i \in 1 .. Len(s) : n[i + 1] = s[i]
  <1>1. Len(s) \in Nat /\ \A i \in 1 .. Len(s) : s[i] \in FrameType
    OBVIOUS
  <1>2. /\ <<f>> \o s \in Seq(FrameType) /\ Len(<<f>> \o s) = Len(s) + 1
        /\ (<<f>> \o s)[1] = f /\ \A i \in 1 .. Len(s) : (<<f>> \o s)[i + 1] = s[i]
    BY <1>1
  <1> QED BY <1>1, <1>2

LEMMA Popped ==
    ASSUME NEW s \in Seq(FrameType), s # <<>>
    PROVE  /\ Tail(s) \in Seq(FrameType) /\ Len(Tail(s)) = Len(s) - 1 /\ Len(s) \in Nat \ {0}
           /\ \A i \in 1 .. Len(s) - 1 : Tail(s)[i] = s[i + 1]
           /\ Tail(s) = <<>> <=> Len(s) = 1
  <1>1. /\ Tail(s) \in Seq(FrameType) /\ Len(Tail(s)) = Len(s) - 1 /\ Len(s) \in Nat \ {0}
        /\ \A i \in 1 .. Len(s) - 1 : Tail(s)[i] = s[i + 1]
    OBVIOUS
  <1>2. Tail(s) = <<>> <=> Len(Tail(s)) = 0
    BY <1>1
  <1> QED BY <1>1, <1>2

-----------------------------------------------------------------------------
(* The inductive invariant.                                                *)

(* A frame that keeps mutex m locked while the functions it called run.    *)
Kept(f, m) ==
    /\ f.op = "proxy"
    /\ \/ f.pc = "added" /\ m = "registry"
       \/ f.pc = "enqueued" /\ m = f.m

(* A topmost frame whose thread has mutex m locked for it. *)
Holding(f, m) ==
    \/ Kept(f, m)
    \/ f.op \in {"section", "timedsection"} /\ f.pc = "leave" /\ m = f.m
    \/ f.op = "unlock" /\ f.pc \in {"waiters", "swap"} /\ m = f.m
    \/ f.op = "proxy" /\ f.pc = "add" /\ m = "registry"
    \/ f.op = "proxy" /\ f.pc = "enqueue" /\ m = f.m
    \/ f.op = "execute" /\ f.pc = "find" /\ m = "registry"
    \/ f.op = "run" /\ f.pc = "next" /\ m = Main

HoldsAt(s, i, m) == IF i = 1 THEN Holding(s[i], m) ELSE Kept(s[i], m)

(* The mutexes a stack holds: each by one frame. *)
Holds(s, m) == \E i \in 1 .. Len(s) : HoldsAt(s, i, m)
HoldsOnce(s, m) ==
    \A i, j \in 1 .. Len(s) : HoldsAt(s, i, m) /\ HoldsAt(s, j, m) => i = j

OwnsInv ==
    \A t \in Threads, m \in Locks :
        (Holds(stack[t], m) <=> owner[m] = t) /\ HoldsOnce(stack[t], m)

WordInv ==
    /\ word \in [Locks -> {Unlocked, Locked, Contended}]
    /\ owner \in [Locks -> Threads \cup {None}]
    /\ \A m \in Locks : word[m] = Unlocked <=> owner[m] = None

StackType == stack \in [Threads -> Seq(FrameType)]

ShapeInv == StackType /\ \A t \in Threads : Shape(t, stack[t])

(* While do_proxy of Main has the registry locked, Main is marked as using *)
(* the system queue, and does nothing with it above that frame.            *)
Marks(f) == f.op = "proxy" /\ f.pc = "added"
Quiet(f) == f.op \in {"lock", "unlock", "section"} \/ (f.op = "execute" /\ f.pc = "enter")

UseStack(s, u) ==
    \A i \in 1 .. Len(s) : Marks(s[i]) => u = TRUE /\ \A j \in 1 .. i - 1 : Quiet(s[j])

UseInv == inUse \in BOOLEAN /\ UseStack(stack[Main], inUse)

(* One frame at most runs tasks, and has set `processing` once it started. *)
Runs(f) == f.op = "run"

RunStack(s, p) ==
    /\ \A i, j \in 1 .. Len(s) : Runs(s[i]) /\ Runs(s[j]) => i = j
    /\ \A i \in 1 .. Len(s) : Runs(s[i]) => IF s[i].pc = "enter" THEN i = 1 ELSE p = TRUE

RunInv == processing \in BOOLEAN /\ RunStack(stack[Main], processing)

(* The main thread registers the wait at the top of its stack. *)
FutexInv ==
    futex # None => At(Main, "lock", "spin") /\ futex = Reached(Main)

SleepInv ==
    /\ asleep \in [Locks -> SUBSET Workers]
    /\ \A m \in Locks, t \in Threads :
          t \in asleep[m] => At(t, "lock", "asleep") /\ Reached(t) = m

(* A frame between a_inc and a_dec of the waiters of m. *)
Counts(f, m) ==
    f.op = "lock" /\ f.m = m /\ f.pc \in {"mark", "wait", "asleep", "spin", "check", "dec"}

(* The frames counted in _m_waiters of m, by their distance from the first *)
(* call of their thread.                                                   *)
CountAt(s, k, m) == k \in 1 .. Len(s) /\ Counts(s[Len(s) + 1 - k], m)

Counted(m) == {c \in Threads \X Nat : CountAt(stack[c[1]], c[2], m)}

CountInv ==
    /\ waiters \in [Locks -> Nat]
    /\ \A m \in Locks : IsFiniteSet(Counted(m)) /\ Cardinality(Counted(m)) = waiters[m]

(* An unlock that has read no waiters finds the sleepers in the word.      *)
ReadInv ==
    \A t \in Threads :
        At(t, "unlock", "swap") /\ Top(t).v # 1 /\ asleep[Reached(t)] # {}
            => word[Reached(t)] = Contended

-----------------------------------------------------------------------------
(* The four ways a step changes the stack of its thread.                   *)

Replaces(s, n, f) ==
    /\ s # <<>> /\ n # <<>> /\ Len(n) = Len(s) /\ Len(s) \in Nat \ {0}
    /\ n[1] = f /\ \A i \in 2 .. Len(s) : n[i] = s[i]

Pushes(s, n, g, f) ==
    /\ s # <<>> /\ n # <<>> /\ Len(n) = Len(s) + 1 /\ Len(s) \in Nat \ {0}
    /\ n[1] = g /\ n[2] = f /\ \A i \in 2 .. Len(s) : n[i + 1] = s[i]

Pops(s, n) ==
    /\ s # <<>> /\ Len(n) = Len(s) - 1 /\ Len(s) \in Nat \ {0}
    /\ \A i \in 1 .. Len(s) - 1 : n[i] = s[i + 1]
    /\ n = <<>> <=> Len(s) = 1

(* Only t does something. *)
Alone(t) ==
    /\ stack' \in [Threads -> Seq(FrameType)]
    /\ \A u \in Threads \ {t} : stack'[u] = stack[u]

(* f is e gone on to pc with v. *)
Later(e, f, pc, v) == f.op = e.op /\ f.m = e.m /\ f.pc = pc /\ f.v = v

Pcs == {"try", "read", "inc", "mark", "wait", "asleep", "spin", "check", "dec",
        "waiters", "swap", "wake", "enter", "leave", "add", "added", "send",
        "enqueue", "enqueued", "find", "found", "done", "next", "call", "again", "end"}

LEMMA Topmost ==
    ASSUME StackType, NEW t \in Threads, Busy(t)
    PROVE  /\ Top(t) \in FrameType /\ Top(t) = stack[t][1] /\ stack[t] \in Seq(FrameType)
           /\ Len(stack[t]) \in Nat \ {0}
  <1>1. stack[t] \in Seq(FrameType) /\ stack[t] # <<>>
    BY DEF StackType, Busy
  <1>2. \A s \in Seq(FrameType) : s # <<>> => Head(s) \in FrameType /\ Head(s) = s[1] /\ Len(s) \in Nat \ {0}
    OBVIOUS
  <1> QED BY <1>1, <1>2 DEF Top

LEMMA LaterFrame ==
    ASSUME NEW e \in FrameType, NEW pc \in Pcs, NEW v \in 0 .. 3
    PROVE  [e EXCEPT !.pc = pc, !.v = v] \in FrameType /\ Later(e, [e EXCEPT !.pc = pc, !.v = v], pc, v)
BY DEF FrameType, Later, Pcs

Is(g, op, pc, m) == g.op = op /\ g.pc = pc /\ g.m = m /\ g.v = 0

LEMMA NewFrames ==
    ASSUME NEW m \in Locks, NEW t \in Threads
    PROVE  /\ LockFrame(m) \in FrameType /\ Is(LockFrame(m), "lock", "try", m)
           /\ UnlockFrame(m) \in FrameType /\ Is(UnlockFrame(m), "unlock", "waiters", m)
           /\ Section(m) \in FrameType /\ Is(Section(m), "section", "enter", m)
           /\ TimedSection(m) \in FrameType /\ Is(TimedSection(m), "timedsection", "enter", m)
           /\ Proxy(t) \in FrameType /\ Is(Proxy(t), "proxy", "enter", t)
           /\ Execute \in FrameType /\ Is(Execute, "execute", "enter", None)
           /\ RunTasks \in FrameType /\ Is(RunTasks, "run", "enter", Main)
  <1>1. Main \in Locks /\ t \in Locks
    BY DEF Locks, Threads
  <1> QED
    BY <1>1 DEF FrameType, Is, LockFrame, UnlockFrame, Section, TimedSection, Proxy, Execute, RunTasks, Frame

LEMMA Went ==
    ASSUME StackType, NEW t \in Threads, Busy(t), NEW pc \in Pcs, NEW v \in 0 .. 3, Goto(t, pc, v)
    PROVE  \E f \in FrameType : /\ Later(Top(t), f, pc, v) /\ Replaces(stack[t], stack'[t], f)
                                /\ Alone(t)
  <1> DEFINE f == [Top(t) EXCEPT !.pc = pc, !.v = v]
  <1>1. stack[t] \in Seq(FrameType) /\ stack[t] # <<>> /\ Top(t) \in FrameType
    BY Topmost DEF Busy
  <1>2. f \in FrameType /\ Later(Top(t), f, pc, v)
    BY <1>1, LaterFrame
  <1>3. stack' = [stack EXCEPT ![t] = <<f>> \o Tail(stack[t])]
    BY DEF Goto, Moved
  <1> HIDE DEF f
  <1>4. <<f>> \o Tail(stack[t]) \in Seq(FrameType) /\ Replaces(stack[t], <<f>> \o Tail(stack[t]), f)
    BY <1>1, <1>2, Replaced DEF Replaces
  <1>5. stack'[t] = <<f>> \o Tail(stack[t]) /\ Alone(t)
    BY <1>3, <1>4 DEF StackType, Alone
  <1> QED BY <1>2, <1>4, <1>5

LEMMA Tailed ==
    ASSUME StackType, NEW t \in Threads, Busy(t), NEW f \in FrameType, TailCall(t, f)
    PROVE  Replaces(stack[t], stack'[t], f) /\ Alone(t)
  <1>1. stack[t] \in Seq(FrameType) /\ stack[t] # <<>>
    BY Topmost DEF Busy
  <1>2. stack' = [stack EXCEPT ![t] = <<f>> \o Tail(stack[t])]
    BY DEF TailCall
  <1>3. <<f>> \o Tail(stack[t]) \in Seq(FrameType) /\ Replaces(stack[t], <<f>> \o Tail(stack[t]), f)
    BY <1>1, Replaced DEF Replaces
  <1> QED BY <1>2, <1>3 DEF StackType, Alone

LEMMA Called ==
    ASSUME StackType, NEW t \in Threads, Busy(t), NEW g \in FrameType, NEW pc \in Pcs, Call(t, g, pc)
    PROVE  \E f \in FrameType : /\ Later(Top(t), f, pc, 0) /\ Pushes(stack[t], stack'[t], g, f)
                                /\ Alone(t)
  <1> DEFINE f == [Top(t) EXCEPT !.pc = pc, !.v = 0]
             s == stack[t]
             n == <<f>> \o Tail(s)
  <1>1. s \in Seq(FrameType) /\ s # <<>> /\ Top(t) \in FrameType
    BY Topmost DEF Busy
  <1>0. 0 \in 0 .. 3
    OBVIOUS
  <1>2. f \in FrameType /\ Later(Top(t), f, pc, 0)
    BY <1>0, <1>1, LaterFrame
  <1>3. stack' = [stack EXCEPT ![t] = <<g>> \o n]
    BY DEF Call, Moved
  <1> HIDE DEF f
  <1>4. /\ n \in Seq(FrameType) /\ n # <<>> /\ Len(n) = Len(s) /\ Len(s) \in Nat \ {0}
        /\ n[1] = f /\ \A i \in 2 .. Len(s) : n[i] = s[i]
    BY <1>1, <1>2, Replaced
  <1> HIDE DEF n
  <1>5. /\ <<g>> \o n \in Seq(FrameType) /\ <<g>> \o n # <<>> /\ Len(<<g>> \o n) = Len(n) + 1
        /\ (<<g>> \o n)[1] = g /\ \A i \in 1 .. Len(n) : (<<g>> \o n)[i + 1] = n[i]
    BY <1>4, Pushed
  <1>6. PICK k : k = <<g>> \o n
    OBVIOUS
  <1>7. k[2] = f
    <2>1. 1 \in 1 .. Len(n) /\ 1 + 1 = 2
      BY <1>4
    <2> QED BY <1>4, <1>5, <1>6, <2>1
  <1>8. Pushes(s, k, g, f)
    BY <1>1, <1>4, <1>5, <1>6, <1>7 DEF Pushes
  <1>9. stack'[t] = k /\ Alone(t)
    BY <1>3, <1>5, <1>6 DEF StackType, Alone
  <1> QED BY <1>2, <1>8, <1>9

LEMMA Returned ==
    ASSUME StackType, NEW t \in Threads, Busy(t), Return(t)
    PROVE  Pops(stack[t], stack'[t]) /\ Alone(t)
  <1>1. stack[t] \in Seq(FrameType) /\ stack[t] # <<>>
    BY Topmost DEF Busy
  <1>2. stack' = [stack EXCEPT ![t] = Tail(stack[t])]
    BY DEF Return
  <1>3. Tail(stack[t]) \in Seq(FrameType) /\ Pops(stack[t], Tail(stack[t]))
    BY <1>1, Popped DEF Pops
  <1> QED BY <1>2, <1>3 DEF StackType, Alone

-----------------------------------------------------------------------------
(* Each part of the invariant that is about one stack, s, and how the ways *)
(* of changing a stack keep it.                                            *)

(* Shape. *)
Fits(t, s, f) ==
    /\ Formed(t, f)
    /\ Len(s) > 1 => Under(f, s[2])
    /\ f.op = "lock" => s[1].op = "lock"

LEMMA ShapeReplaces ==
    ASSUME NEW t, NEW s \in Seq(FrameType), Shape(t, s), NEW n, NEW f,
           Replaces(s, n, f), Fits(t, s, f)
    PROVE  Shape(t, n)
  <1>1. /\ n # <<>> /\ Len(n) = Len(s) /\ Len(s) \in Nat \ {0}
        /\ n[1] = f /\ \A i \in 2 .. Len(s) : n[i] = s[i]
    BY DEF Replaces
  <1>2. \A i \in 1 .. Len(n) : Formed(t, n[i])
    <2> TAKE i \in 1 .. Len(n)
    <2>1. CASE i = 1
      BY <1>1, <2>1 DEF Fits
    <2>2. CASE i # 1
      BY <1>1, <2>2 DEF Shape
    <2> QED BY <2>1, <2>2
  <1>3. \A i \in 1 .. Len(n) : i < Len(n) => Under(n[i], n[i + 1])
    <2> SUFFICES ASSUME NEW i \in 1 .. Len(n), i < Len(n) PROVE Under(n[i], n[i + 1])
      OBVIOUS
    <2>1. n[i + 1] = s[i + 1] /\ s[i + 1] \in FrameType /\ Under(s[i], s[i + 1])
      BY <1>1 DEF Shape
    <2>2. CASE i = 1
      BY <1>1, <2>1, <2>2 DEF Fits
    <2>3. CASE i # 1
      BY <1>1, <2>1, <2>3
    <2> QED BY <2>2, <2>3
  <1>4. n[Len(n)].op # "lock"
    <2>1. CASE Len(s) = 1
      BY <1>1, <2>1 DEF Shape, Fits, Replaces
    <2>2. CASE Len(s) # 1
      BY <1>1, <2>2 DEF Shape, Replaces
    <2> QED BY <2>1, <2>2
  <1> QED BY <1>2, <1>3, <1>4 DEF Shape

(* What Pushes tells of the frames from the second on. *)
LEMMA PushesIndex ==
    ASSUME NEW s \in Seq(FrameType), NEW n, NEW g, NEW f, Pushes(s, n, g, f)
    PROVE  /\ n # <<>> /\ Len(n) = Len(s) + 1 /\ Len(s) \in Nat \ {0}
           /\ n[1] = g /\ n[2] = f
           /\ \A i \in 1 .. Len(n) : i = 1 \/ i = 2 \/ (i - 1 \in 2 .. Len(s) /\ n[i] = s[i - 1])
  <1>1. /\ n # <<>> /\ Len(n) = Len(s) + 1 /\ Len(s) \in Nat \ {0}
        /\ n[1] = g /\ n[2] = f /\ \A i \in 2 .. Len(s) : n[i + 1] = s[i]
    BY DEF Pushes
  <1>2. ASSUME NEW i \in 1 .. Len(n), i # 1, i # 2
        PROVE  i - 1 \in 2 .. Len(s) /\ n[i] = s[i - 1]
    <2>1. i - 1 \in 2 .. Len(s) /\ (i - 1) + 1 = i
      BY <1>1, <1>2
    <2> QED BY <1>1, <2>1
  <1> QED BY <1>1, <1>2

LEMMA ShapePushes ==
    ASSUME NEW t, NEW s \in Seq(FrameType), Shape(t, s), NEW n, NEW g, NEW f,
           Pushes(s, n, g, f), Fits(t, s, f), Formed(t, g), Under(g, f)
    PROVE  Shape(t, n)
  <1>1. /\ n # <<>> /\ Len(n) = Len(s) + 1 /\ Len(s) \in Nat \ {0}
        /\ n[1] = g /\ n[2] = f
        /\ \A i \in 1 .. Len(n) : i = 1 \/ i = 2 \/ (i - 1 \in 2 .. Len(s) /\ n[i] = s[i - 1])
    BY PushesIndex
  <1>2. \A i \in 1 .. Len(n) : Formed(t, n[i])
    <2> TAKE i \in 1 .. Len(n)
    <2>1. CASE i = 1 \/ i = 2
      BY <1>1, <2>1 DEF Fits
    <2>2. CASE i - 1 \in 2 .. Len(s) /\ n[i] = s[i - 1]
      BY <1>1, <2>2 DEF Shape
    <2> QED BY <1>1, <2>1, <2>2
  <1>3. \A i \in 1 .. Len(n) : i < Len(n) => Under(n[i], n[i + 1])
    <2> SUFFICES ASSUME NEW i \in 1 .. Len(n), i < Len(n) PROVE Under(n[i], n[i + 1])
      OBVIOUS
    <2>1. CASE i = 1
      BY <1>1, <2>1
    <2>2. CASE i # 1
      <3>1. i + 1 \in 1 .. Len(n) /\ i + 1 # 1 /\ i + 1 # 2 /\ (i + 1) - 1 = i
        BY <1>1, <2>2
      <3>2. n[i + 1] = s[i] /\ i \in 2 .. Len(s)
        BY <1>1, <3>1
      <3>3. CASE i = 2
        <4>1. Under(s[1], s[2]) /\ s[2] \in FrameType
          BY <1>1, <3>2, <3>3 DEF Shape
        <4> QED BY <1>1, <3>2, <3>3, <4>1 DEF Fits
      <3>4. CASE i # 2
        <4>1. n[i] = s[i - 1] /\ i - 1 \in 1 .. Len(s) /\ i - 1 < Len(s) /\ (i - 1) + 1 = i
          BY <1>1, <2>2, <3>2, <3>4
        <4>2. Under(s[i - 1], s[(i - 1) + 1])
          BY <4>1 DEF Shape
        <4> QED BY <3>2, <4>1, <4>2
      <3> QED BY <3>3, <3>4
    <2> QED BY <2>1, <2>2
  <1>4. n[Len(n)].op # "lock"
    <2>1. s # <<>>
      BY DEF Pushes
    <2>2. CASE Len(s) = 1
      BY <1>1, <2>1, <2>2 DEF Shape, Fits
    <2>3. CASE Len(s) # 1
      <3>0. Len(n) = Len(s) + 1 /\ Len(s) \in Nat \ {0}
        BY <1>1
      <3>1. \A a, b : b \in Nat \ {0} /\ b # 1 /\ a = b + 1
                         => a \in 1 .. a /\ a # 1 /\ a # 2 /\ a - 1 = b
        OBVIOUS
      <3>2. Len(n) \in 1 .. Len(n) /\ Len(n) # 1 /\ Len(n) # 2 /\ Len(n) - 1 = Len(s)
        BY <2>3, <3>0, <3>1
      <3> QED BY <1>1, <2>1, <3>2 DEF Shape
    <2> QED BY <2>2, <2>3
  <1> QED BY <1>2, <1>3, <1>4 DEF Shape

LEMMA ShapePops ==
    ASSUME NEW t, NEW s \in Seq(FrameType), Shape(t, s), NEW n, Pops(s, n)
    PROVE  Shape(t, n)
  <1>1. /\ Len(n) = Len(s) - 1 /\ Len(s) \in Nat \ {0} /\ s # <<>>
        /\ \A i \in 1 .. Len(s) - 1 : n[i] = s[i + 1]
        /\ n = <<>> <=> Len(s) = 1
    BY DEF Pops
  <1>2. \A i \in 1 .. Len(n) : Formed(t, n[i])
    BY <1>1 DEF Shape
  <1>3. \A i \in 1 .. Len(n) : i < Len(n) => Under(n[i], n[i + 1])
    <2> SUFFICES ASSUME NEW i \in 1 .. Len(n), i < Len(n) PROVE Under(n[i], n[i + 1])
      OBVIOUS
    <2>1. n[i] = s[i + 1] /\ n[i + 1] = s[i + 2] /\ i + 1 \in 1 .. Len(s) /\ i + 1 < Len(s)
      BY <1>1
    <2> QED BY <2>1 DEF Shape
  <1>4. n # <<>> => n[Len(n)].op # "lock"
    <2> SUFFICES ASSUME n # <<>> PROVE n[Len(n)].op # "lock"
      OBVIOUS
    <2>1. n[Len(n)] = s[Len(s)]
      BY <1>1
    <2> QED BY <1>1, <2>1 DEF Shape
  <1> QED BY <1>2, <1>3, <1>4 DEF Shape

(* The mutexes held. *)
LEMMA KeptIsHeld == ASSUME NEW f, NEW m, Kept(f, m) PROVE Holding(f, m)
BY DEF Holding

LEMMA HoldsReplaces ==
    ASSUME NEW s, NEW n, NEW f, NEW m, Replaces(s, n, f), HoldsOnce(s, m),
           Holding(f, m) <=> Holding(s[1], m)
    PROVE  (Holds(n, m) <=> Holds(s, m)) /\ HoldsOnce(n, m)
  <1>1. Len(n) = Len(s) /\ Len(s) \in Nat
    BY DEF Replaces
  <1>2. \A i \in 1 .. Len(s) : HoldsAt(n, i, m) <=> HoldsAt(s, i, m)
    <2> TAKE i \in 1 .. Len(s)
    <2>1. CASE i = 1
      BY <2>1 DEF HoldsAt, Replaces
    <2>2. CASE i # 1
      BY <2>2 DEF HoldsAt, Replaces
    <2> QED BY <2>1, <2>2
  <1> QED BY <1>1, <1>2 DEF Holds, HoldsOnce

LEMMA HoldsPushes ==
    ASSUME NEW s \in Seq(FrameType), NEW n, NEW g, NEW f, NEW m, Pushes(s, n, g, f),
           HoldsOnce(s, m),
           Holding(s[1], m) <=> Holding(g, m) \/ Kept(f, m), ~(Holding(g, m) /\ Kept(f, m))
    PROVE  (Holds(n, m) <=> Holds(s, m)) /\ HoldsOnce(n, m)
  <1>1. /\ Len(n) = Len(s) + 1 /\ Len(s) \in Nat \ {0} /\ n[1] = g /\ n[2] = f
        /\ \A i \in 1 .. Len(n) : i = 1 \/ i = 2 \/ (i - 1 \in 2 .. Len(s) /\ n[i] = s[i - 1])
    BY PushesIndex
  <1>2. ASSUME NEW i \in 1 .. Len(n), HoldsAt(n, i, m)
        PROVE  IF i = 1 \/ i = 2 THEN HoldsAt(s, 1, m)
                                 ELSE i - 1 \in 2 .. Len(s) /\ HoldsAt(s, i - 1, m)
    BY <1>1, <1>2 DEF HoldsAt
  <1>3. ASSUME NEW i \in 1 .. Len(s), HoldsAt(s, i, m)
        PROVE  Holds(n, m)
    <2>1. CASE i = 1
      <3>1. 1 \in 1 .. Len(n) /\ 2 \in 1 .. Len(n)
        BY <1>1
      <3>2. HoldsAt(n, 1, m) \/ HoldsAt(n, 2, m)
        BY <1>1, <1>3, <2>1 DEF HoldsAt
      <3> QED BY <3>1, <3>2 DEF Holds
    <2>2. CASE i # 1
      <3>1. i + 1 \in 1 .. Len(n) /\ i + 1 # 1 /\ n[i + 1] = s[i]
        BY <1>1, <2>2 DEF Pushes
      <3>2. HoldsAt(n, i + 1, m)
        BY <1>3, <2>2, <3>1 DEF HoldsAt
      <3> QED BY <3>1, <3>2 DEF Holds
    <2> QED BY <2>1, <2>2
  <1>4. Holds(n, m) => Holds(s, m)
    <2>1. 1 \in 1 .. Len(s) /\ \A i \in 2 .. Len(s) : i \in 1 .. Len(s)
      BY <1>1
    <2> QED BY <1>2, <2>1 DEF Holds
  <1>5. ASSUME NEW i \in 1 .. Len(n), NEW j \in 1 .. Len(n), HoldsAt(n, i, m), HoldsAt(n, j, m)
        PROVE  i = j
    <2>1. 1 \in 1 .. Len(s) /\ \A k \in 2 .. Len(s) : k \in 1 .. Len(s)
      BY <1>1
    <2>2. CASE i = 1 \/ i = 2
      <3>1. HoldsAt(s, 1, m)
        BY <1>2, <1>5, <2>2
      <3>2. j = 1 \/ j = 2
        <4> SUFFICES ASSUME ~(j = 1 \/ j = 2) PROVE FALSE
          OBVIOUS
        <4>1. j - 1 \in 2 .. Len(s) /\ HoldsAt(s, j - 1, m)
          BY <1>2, <1>5
        <4> QED BY <2>1, <3>1, <4>1 DEF HoldsOnce
      <3> QED BY <1>1, <1>5, <2>2, <3>2 DEF HoldsAt
    <2>3. CASE ~(i = 1 \/ i = 2)
      <3>1. i - 1 \in 2 .. Len(s) /\ HoldsAt(s, i - 1, m)
        BY <1>2, <1>5, <2>3
      <3>2. ~(j = 1 \/ j = 2)
        <4> SUFFICES ASSUME j = 1 \/ j = 2 PROVE FALSE
          OBVIOUS
        <4>1. HoldsAt(s, 1, m)
          BY <1>2, <1>5
        <4> QED BY <2>1, <3>1, <4>1 DEF HoldsOnce
      <3>3. j - 1 \in 2 .. Len(s) /\ HoldsAt(s, j - 1, m)
        BY <1>2, <1>5, <3>2
      <3>4. i - 1 = j - 1
        BY <2>1, <3>1, <3>3 DEF HoldsOnce
      <3> QED BY <3>4
    <2> QED BY <2>2, <2>3
  <1>6. Holds(s, m) => Holds(n, m)
    BY <1>3 DEF Holds
  <1> QED BY <1>4, <1>5, <1>6 DEF HoldsOnce

LEMMA HoldsPops ==
    ASSUME NEW s, NEW n, NEW m, Pops(s, n), HoldsOnce(s, m), ~Holding(s[1], m),
           Len(s) > 1 => (Holding(s[2], m) <=> Kept(s[2], m))
    PROVE  (Holds(n, m) <=> Holds(s, m)) /\ HoldsOnce(n, m)
  <1>1. Len(n) = Len(s) - 1 /\ Len(s) \in Nat \ {0}
        /\ \A i \in 1 .. Len(s) - 1 : n[i] = s[i + 1]
    BY DEF Pops
  <1>2. \A i \in 1 .. Len(n) : i + 1 \in 1 .. Len(s) /\ (HoldsAt(n, i, m) <=> HoldsAt(s, i + 1, m))
    <2> TAKE i \in 1 .. Len(n)
    <2>1. n[i] = s[i + 1] /\ i + 1 \in 1 .. Len(s) /\ i + 1 # 1
      BY <1>1
    <2>2. CASE i = 1
      BY <1>1, <2>1, <2>2 DEF HoldsAt
    <2>3. CASE i # 1
      BY <2>1, <2>3 DEF HoldsAt
    <2> QED BY <2>1, <2>2, <2>3
  <1>3. ASSUME NEW i \in 1 .. Len(s), HoldsAt(s, i, m) PROVE Holds(n, m)
    <2>1. i # 1
      BY <1>3 DEF HoldsAt
    <2>2. i - 1 \in 1 .. Len(n) /\ (i - 1) + 1 = i
      BY <1>1, <2>1
    <2>3. HoldsAt(n, i - 1, m)
      BY <1>2, <1>3, <2>2
    <2> QED BY <2>2, <2>3 DEF Holds
  <1>4. Holds(s, m) => Holds(n, m)
    BY <1>3 DEF Holds
  <1>5. Holds(n, m) => Holds(s, m)
    BY <1>2 DEF Holds
  <1>6. HoldsOnce(n, m)
    <2> SUFFICES ASSUME NEW i \in 1 .. Len(n), NEW j \in 1 .. Len(n),
                        HoldsAt(n, i, m), HoldsAt(n, j, m)
                 PROVE  i = j
      BY DEF HoldsOnce
    <2>1. i + 1 = j + 1
      BY <1>2 DEF HoldsOnce
    <2> QED BY <2>1
  <1> QED BY <1>4, <1>5, <1>6

(* The topmost frame lets m go and stays, or returns. *)
LEMMA LetsGo ==
    ASSUME NEW s, NEW n, NEW f, NEW m, Replaces(s, n, f), HoldsOnce(s, m), Holding(s[1], m),
           ~Holding(f, m)
    PROVE  ~Holds(n, m) /\ HoldsOnce(n, m)
  <1>1. Len(n) = Len(s) /\ Len(s) \in Nat \ {0} /\ n[1] = f /\ \A i \in 2 .. Len(s) : n[i] = s[i]
    BY DEF Replaces
  <1>2. ASSUME NEW i \in 1 .. Len(n), HoldsAt(n, i, m) PROVE FALSE
    <2>1. i # 1
      BY <1>1, <1>2 DEF HoldsAt
    <2>2. HoldsAt(s, i, m) /\ i \in 1 .. Len(s)
      BY <1>1, <1>2, <2>1 DEF HoldsAt
    <2>3. HoldsAt(s, 1, m) /\ 1 \in 1 .. Len(s)
      BY <1>1 DEF HoldsAt
    <2> QED BY <2>1, <2>2, <2>3 DEF HoldsOnce
  <1> QED BY <1>2 DEF Holds, HoldsOnce

LEMMA LetsGoPops ==
    ASSUME NEW s, NEW n, NEW m, Pops(s, n), HoldsOnce(s, m), Holding(s[1], m),
           Len(s) > 1 => (Holding(s[2], m) <=> Kept(s[2], m))
    PROVE  ~Holds(n, m) /\ HoldsOnce(n, m)
  <1>1. Len(n) = Len(s) - 1 /\ Len(s) \in Nat \ {0}
        /\ \A i \in 1 .. Len(s) - 1 : n[i] = s[i + 1]
    BY DEF Pops
  <1>2. ASSUME NEW i \in 1 .. Len(n), HoldsAt(n, i, m) PROVE FALSE
    <2>1. n[i] = s[i + 1] /\ i + 1 \in 1 .. Len(s) /\ i + 1 # 1
      BY <1>1
    <2>2. HoldsAt(s, i + 1, m)
      <3>1. CASE i = 1
        BY <1>1, <1>2, <2>1, <3>1 DEF HoldsAt
      <3>2. CASE i # 1
        BY <1>2, <2>1, <3>2 DEF HoldsAt
      <3> QED BY <3>1, <3>2
    <2>3. HoldsAt(s, 1, m) /\ 1 \in 1 .. Len(s)
      BY <1>1 DEF HoldsAt
    <2> QED BY <2>1, <2>2, <2>3 DEF HoldsOnce
  <1> QED BY <1>2 DEF Holds, HoldsOnce

(* A lock returns to the frame that called it. *)
LEMMA Obtains ==
    ASSUME NEW s, NEW n, NEW m, Pops(s, n), ~Holds(s, m), Len(s) > 1, Holding(s[2], m)
    PROVE  Holds(n, m) /\ HoldsOnce(n, m)
  <1>1. Len(n) = Len(s) - 1 /\ Len(s) \in Nat \ {0}
        /\ \A i \in 1 .. Len(s) - 1 : n[i] = s[i + 1]
    BY DEF Pops
  <1>2. 1 \in 1 .. Len(n) /\ HoldsAt(n, 1, m)
    BY <1>1 DEF HoldsAt
  <1>3. ASSUME NEW i \in 1 .. Len(n), HoldsAt(n, i, m) PROVE i = 1
    <2> SUFFICES ASSUME i # 1 PROVE FALSE
      OBVIOUS
    <2>1. n[i] = s[i + 1] /\ i + 1 \in 1 .. Len(s) /\ i + 1 # 1
      BY <1>1
    <2>2. HoldsAt(s, i + 1, m)
      BY <1>3, <2>1 DEF HoldsAt
    <2> QED BY <2>1, <2>2 DEF Holds
  <1> QED BY <1>2, <1>3 DEF Holds, HoldsOnce

(* Task queues are run by one frame. *)
LEMMA RunReplaces ==
    ASSUME NEW s, NEW n, NEW f, NEW p, NEW q, Replaces(s, n, f), RunStack(s, p), p = TRUE => q = TRUE,
           Runs(f) => Runs(s[1]) /\ f.pc # "enter" /\ q = TRUE
    PROVE  RunStack(n, q)
  <1>1. /\ Len(n) = Len(s) /\ Len(s) \in Nat \ {0} /\ n[1] = f
        /\ \A i \in 2 .. Len(s) : n[i] = s[i]
    BY DEF Replaces
  <1>2. \A i \in 1 .. Len(s) : Runs(n[i]) => Runs(s[i])
    BY <1>1
  <1>3. \A i \in 1 .. Len(s) : Runs(n[i]) => IF n[i].pc = "enter" THEN i = 1 ELSE q = TRUE
    <2> TAKE i \in 1 .. Len(s)
    <2>1. CASE i = 1
      BY <1>1, <2>1
    <2>2. CASE i # 1
      BY <1>1, <2>2 DEF RunStack
    <2> QED BY <2>1, <2>2
  <1> QED BY <1>1, <1>2, <1>3 DEF RunStack

LEMMA RunPops ==
    ASSUME NEW s, NEW n, NEW p, NEW q, Pops(s, n), RunStack(s, p), (p = TRUE => q = TRUE) \/ Runs(s[1])
    PROVE  RunStack(n, q)
  <1>1. Len(n) = Len(s) - 1 /\ Len(s) \in Nat \ {0}
        /\ \A i \in 1 .. Len(s) - 1 : n[i] = s[i + 1]
    BY DEF Pops
  <1>2. \A i \in 1 .. Len(n) : n[i] = s[i + 1] /\ i + 1 \in 1 .. Len(s) /\ i + 1 # 1
    BY <1>1
  <1>3. \A i \in 1 .. Len(n) : Runs(n[i]) => n[i].pc # "enter" /\ q = TRUE
    <2> SUFFICES ASSUME NEW i \in 1 .. Len(n), Runs(n[i]) PROVE n[i].pc # "enter" /\ q = TRUE
      OBVIOUS
    <2>1. n[i].pc # "enter" /\ p = TRUE
      BY <1>2 DEF RunStack
    <2>2. ~Runs(s[1])
      <3>1. 1 \in 1 .. Len(s)
        BY <1>1
      <3> QED BY <1>2, <3>1 DEF RunStack
    <2> QED BY <2>1, <2>2
  <1>4. ASSUME NEW i \in 1 .. Len(n), NEW j \in 1 .. Len(n), Runs(n[i]), Runs(n[j]) PROVE i = j
    <2>1. i + 1 = j + 1
      BY <1>2, <1>4 DEF RunStack
    <2> QED BY <2>1
  <1> QED BY <1>3, <1>4 DEF RunStack

LEMMA RunPushes ==
    ASSUME NEW s \in Seq(FrameType), NEW n, NEW g, NEW f, NEW p, NEW q, Pushes(s, n, g, f),
           RunStack(s, p), p = TRUE => q = TRUE,
           Runs(f) => Runs(s[1]) /\ f.pc # "enter" /\ q = TRUE /\ ~Runs(g),
           Runs(g) => g.pc = "enter" /\ p # TRUE /\ ~Runs(s[1])
    PROVE  RunStack(n, q)
  <1>1. /\ Len(n) = Len(s) + 1 /\ Len(s) \in Nat \ {0} /\ n[1] = g /\ n[2] = f
        /\ \A i \in 1 .. Len(n) : i = 1 \/ i = 2 \/ (i - 1 \in 2 .. Len(s) /\ n[i] = s[i - 1])
    BY PushesIndex
  <1>2. \A i \in 2 .. Len(s) : i \in 1 .. Len(s) /\ i # 1
    BY <1>1
  <1>3. ASSUME NEW i \in 1 .. Len(n), Runs(n[i]), i # 1
        PROVE  i - 1 \in 1 .. Len(s) /\ Runs(s[i - 1]) /\ n[i].pc # "enter" /\ q = TRUE /\ ~Runs(g)
    <2>1. CASE i = 2
      <3>1. i - 1 = 1 /\ 1 \in 1 .. Len(s)
        BY <1>1, <2>1
      <3> QED BY <1>1, <1>3, <2>1, <3>1
    <2>2. CASE i # 2
      <3>1. i - 1 \in 2 .. Len(s) /\ n[i] = s[i - 1]
        BY <1>1, <1>3, <2>2
      <3>2. n[i].pc # "enter" /\ p = TRUE
        BY <1>2, <1>3, <3>1 DEF RunStack
      <3> QED BY <1>2, <1>3, <3>1, <3>2
    <2> QED BY <2>1, <2>2
  <1>4. ASSUME NEW i \in 1 .. Len(n), NEW j \in 1 .. Len(n), Runs(n[i]), Runs(n[j]) PROVE i = j
    <2>1. CASE i = 1 \/ j = 1
      BY <1>1, <1>3, <1>4, <2>1
    <2>2. CASE i # 1 /\ j # 1
      <3>1. i - 1 = j - 1
        BY <1>3, <1>4, <2>2 DEF RunStack
      <3> QED BY <3>1
    <2> QED BY <2>1, <2>2
  <1>5. \A i \in 1 .. Len(n) : Runs(n[i]) => IF n[i].pc = "enter" THEN i = 1 ELSE q = TRUE
    BY <1>1, <1>3
  <1> QED BY <1>4, <1>5 DEF RunStack

(* While do_proxy has the registry locked, the stack above it is quiet. *)
LEMMA UseReplaces ==
    ASSUME NEW s, NEW n, NEW f, NEW u, NEW v, Replaces(s, n, f), UseStack(s, u),
           Quiet(s[1]) /\ u = TRUE => Quiet(f) /\ v = TRUE, Marks(f) => v = TRUE
    PROVE  UseStack(n, v)
  <1>1. /\ Len(n) = Len(s) /\ Len(s) \in Nat \ {0} /\ n[1] = f
        /\ \A i \in 2 .. Len(s) : n[i] = s[i]
    BY DEF Replaces
  <1> SUFFICES ASSUME NEW i \in 1 .. Len(s), Marks(n[i])
               PROVE  v = TRUE /\ \A j \in 1 .. i - 1 : Quiet(n[j])
    BY <1>1 DEF UseStack
  <1>2. CASE i = 1
    BY <1>1, <1>2
  <1>3. CASE i # 1
    <2>1. u = TRUE /\ \A j \in 1 .. i - 1 : Quiet(s[j])
      BY <1>1, <1>3 DEF UseStack
    <2>2. 1 \in 1 .. i - 1 /\ \A j \in 1 .. i - 1 : j = 1 \/ j \in 2 .. Len(s)
      BY <1>1, <1>3
    <2> QED BY <1>1, <2>1, <2>2
  <1> QED BY <1>2, <1>3

LEMMA UsePops ==
    ASSUME NEW s, NEW n, NEW u, NEW v, Pops(s, n), UseStack(s, u), Quiet(s[1]) /\ u = TRUE => v = TRUE
    PROVE  UseStack(n, v)
  <1>1. Len(n) = Len(s) - 1 /\ Len(s) \in Nat \ {0}
        /\ \A i \in 1 .. Len(s) - 1 : n[i] = s[i + 1]
    BY DEF Pops
  <1> SUFFICES ASSUME NEW i \in 1 .. Len(n), Marks(n[i])
               PROVE  v = TRUE /\ \A j \in 1 .. i - 1 : Quiet(n[j])
    BY DEF UseStack
  <1>2. i + 1 \in 1 .. Len(s) /\ n[i] = s[i + 1] /\ (i + 1) - 1 = i /\ 1 \in 1 .. i
    BY <1>1
  <1>3. u = TRUE /\ \A j \in 1 .. i : Quiet(s[j])
    BY <1>2 DEF UseStack
  <1>4. \A j \in 1 .. i - 1 : n[j] = s[j + 1] /\ j + 1 \in 1 .. i
    BY <1>1
  <1> QED BY <1>2, <1>3, <1>4

LEMMA UsePushes ==
    ASSUME NEW s \in Seq(FrameType), NEW n, NEW g, NEW f, NEW u, NEW v, Pushes(s, n, g, f),
           UseStack(s, u), Quiet(s[1]) /\ u = TRUE => Quiet(f) /\ Quiet(g) /\ v = TRUE,
           Marks(f) => v = TRUE /\ Quiet(g), Marks(g) => v = TRUE
    PROVE  UseStack(n, v)
  <1>1. /\ Len(n) = Len(s) + 1 /\ Len(s) \in Nat \ {0} /\ n[1] = g /\ n[2] = f
        /\ \A i \in 1 .. Len(n) : i = 1 \/ i = 2 \/ (i - 1 \in 2 .. Len(s) /\ n[i] = s[i - 1])
    BY PushesIndex
  <1> SUFFICES ASSUME NEW i \in 1 .. Len(n), Marks(n[i])
               PROVE  v = TRUE /\ \A j \in 1 .. i - 1 : Quiet(n[j])
    BY DEF UseStack
  <1>2. CASE i = 1
    BY <1>1, <1>2
  <1>3. CASE i = 2
    BY <1>1, <1>3
  <1>4. CASE i # 1 /\ i # 2
    <2>1. i - 1 \in 2 .. Len(s) /\ n[i] = s[i - 1]
      BY <1>1, <1>4
    <2>2. u = TRUE /\ \A j \in 1 .. (i - 1) - 1 : Quiet(s[j])
      BY <1>1, <2>1 DEF UseStack
    <2>3. 1 \in 1 .. (i - 1) - 1
      BY <1>1, <2>1
    <2>4. Quiet(f) /\ Quiet(g) /\ v = TRUE
      BY <2>2, <2>3
    <2>5. \A j \in 1 .. i - 1 : j = 1 \/ j = 2 \/ (j - 1 \in 1 .. (i - 1) - 1 /\ n[j] = s[j - 1])
      <3> TAKE j \in 1 .. i - 1
      <3>1. j \in 1 .. Len(n)
        BY <1>1
      <3>2. j = 1 \/ j = 2 \/ n[j] = s[j - 1]
        BY <1>1, <3>1
      <3>3. j = 1 \/ j - 1 \in 1 .. (i - 1) - 1
        BY <1>1, <2>1
      <3> QED BY <3>2, <3>3
    <2> QED BY <1>1, <2>2, <2>4, <2>5
  <1> QED BY <1>2, <1>3, <1>4

-----------------------------------------------------------------------------
(* What the steps of a thread inside a function have in common: its        *)
(* topmost frame e goes on as f, calls g, or returns; a mutex is locked,   *)
(* or unlocked, or given up.                                               *)

HoldsSame(e, f) == \A m \in Locks : Holding(f, m) <=> Holding(e, m)

HoldsCall(e, g, f) ==
    \A m \in Locks :
        /\ Holding(e, m) <=> Holding(g, m) \/ Kept(f, m)
        /\ ~(Holding(g, m) /\ Kept(f, m))

NoMutex(e) == \A m \in Locks : ~Holding(e, m)

(* No mutex changes hands. *)
OwnersKept ==
    /\ owner' = owner
    /\ word' \in [Locks -> {Unlocked, Locked, Contended}]
    /\ \A m \in Locks : word'[m] = Unlocked <=> word[m] = Unlocked
    /\ \A m \in Locks : word[m] = Contended => word'[m] = Contended

UsesKept(t, e) ==
    IF t = Main THEN Quiet(e) /\ inUse = TRUE => inUse' = TRUE ELSE inUse' = inUse

RunsKept(t) == IF t = Main THEN processing = TRUE => processing' = TRUE ELSE processing' = processing

FlagsType == inUse' \in BOOLEAN /\ processing' \in BOOLEAN

UsesGo(t, e, f) == t = Main => (Marks(f) => inUse' = TRUE) /\ (Quiet(e) /\ inUse = TRUE => Quiet(f))
RunsGo(t, e, f) == t = Main => (Runs(f) => Runs(e) /\ f.pc # "enter" /\ processing' = TRUE)

(* The number of waiters, the frames counted in it, and those that will    *)
(* see to the sleepers of a mutex.                                         *)
CountsSame(e, f) == \A m \in Locks : Counts(f, m) <=> Counts(e, m)
CountsGo(t, e, f) == LockInc(t) \/ LockDec(t) \/ (waiters' = waiters /\ CountsSame(e, f))

Stays(t, e, f) ==
    /\ e.op = "lock" => f.op = "lock" /\ f.m = e.m
    /\ ~(e.op = "unlock" /\ e.pc = "wake")
    /\ f.op = "unlock" /\ f.pc = "swap" => UnlockWaiters(t)

GoesOn(t) ==
    \E f \in FrameType :
        /\ Replaces(stack[t], stack'[t], f) /\ Alone(t) /\ Fits(t, stack[t], f)
        /\ HoldsSame(Top(t), f) /\ OwnersKept
        /\ CountsGo(t, Top(t), f) /\ Stays(t, Top(t), f)
        /\ UsesGo(t, Top(t), f) /\ UsesKept(t, Top(t))
        /\ RunsGo(t, Top(t), f) /\ RunsKept(t) /\ FlagsType

UsesCall(t, e, g, f) ==
    t = Main => /\ Quiet(e) /\ inUse = TRUE => Quiet(g)
                /\ Marks(f) => Quiet(g)
                /\ ~Marks(g)
RunsCall(t, e, g, f) ==
    t = Main /\ Runs(g) => g.pc = "enter" /\ processing # TRUE /\ ~Runs(e) /\ ~Runs(f)

CallsOn(t) ==
    \E f, g \in FrameType :
        /\ Pushes(stack[t], stack'[t], g, f) /\ Alone(t) /\ Fits(t, stack[t], f)
        /\ Formed(t, g) /\ Under(g, f)
        /\ HoldsCall(Top(t), g, f) /\ OwnersKept
        /\ waiters' = waiters /\ CountsSame(Top(t), f) /\ (\A m \in Locks : ~Counts(g, m))
        /\ Stays(t, Top(t), f) /\ g.pc # "swap"
        /\ UsesGo(t, Top(t), f) /\ UsesCall(t, Top(t), g, f) /\ UsesKept(t, Top(t))
        /\ RunsGo(t, Top(t), f) /\ RunsCall(t, Top(t), g, f) /\ RunsKept(t) /\ FlagsType

ReturnsOn(t) ==
    /\ Pops(stack[t], stack'[t]) /\ Alone(t)
    /\ Top(t).op # "lock" /\ NoMutex(Top(t)) /\ OwnersKept
    /\ waiters' = waiters /\ (Top(t).op = "unlock" => UnlockWake(t))
    /\ UsesKept(t, Top(t)) /\ (RunsKept(t) \/ (t = Main /\ Runs(Top(t)))) /\ FlagsType

Locking(t) == LockTry(t) /\ word[Reached(t)] = Unlocked
GivingUp(t) == LockDec(t) /\ Top(t).v = TimedOut

(* The invariant so far. *)
BaseInv == ShapeInv /\ WordInv /\ OwnsInv /\ UseInv /\ RunInv

LEMMA TopFrame ==
    ASSUME ShapeInv, NEW t \in Threads, Busy(t)
    PROVE  /\ Top(t) \in FrameType /\ Top(t) = stack[t][1] /\ Formed(t, Top(t))
           /\ stack[t] \in Seq(FrameType) /\ Len(stack[t]) \in Nat \ {0}
           /\ Len(stack[t]) > 1 => stack[t][2] \in FrameType /\ Under(Top(t), stack[t][2])
           /\ Top(t).op = "lock" => Len(stack[t]) > 1
           /\ Top(t).m \in Locks \cup {None} /\ Top(t).v \in 0 .. 3
  <1>1. /\ Top(t) \in FrameType /\ Top(t) = stack[t][1] /\ stack[t] \in Seq(FrameType)
        /\ Len(stack[t]) \in Nat \ {0} /\ stack[t] # <<>>
    BY Topmost DEF ShapeInv, Busy
  <1>2. Shape(t, stack[t])
    BY DEF ShapeInv
  <1>3. 1 \in 1 .. Len(stack[t])
    BY <1>1
  <1>4. Len(stack[t]) > 1 => stack[t][2] \in FrameType
    BY <1>1
  <1>5. Len(stack[t]) > 1 => Under(stack[t][1], stack[t][1 + 1])
    BY <1>1, <1>2, <1>3 DEF Shape
  <1>6. Formed(t, stack[t][1]) /\ (stack[t][Len(stack[t])].op # "lock")
    BY <1>1, <1>2, <1>3 DEF Shape
  <1>7. Top(t).op = "lock" => Len(stack[t]) > 1
    BY <1>1, <1>6
  <1>8. Top(t).m \in Locks \cup {None} /\ Top(t).v \in 0 .. 3
    BY <1>1 DEF FrameType
  <1> QED BY <1>1, <1>4, <1>5, <1>6, <1>7, <1>8

(* Where a function may go on to, what it may call, and what may replace   *)
(* it: the control flow.                                                   *)
GotoRow(t, e, pc, v) ==
    \/ /\ e.op = "lock"
       /\ pc \in {"try", "read", "inc", "mark", "wait", "asleep", "spin", "check", "dec"}
       /\ pc \in {"spin", "check"} => t = Main
       /\ pc = "asleep" => t # Main
       /\ v = TimedOut => pc = "dec" /\ stack[t][2].op = "timedsection"
       /\ pc \in {"inc", "mark"} => v # Unlocked
    \/ e.op = "unlock" /\ e.pc = "waiters" /\ pc = "swap"
    \/ e.op = "proxy" /\ e.pc = "add" /\ pc = "added"
    \/ e.op = "execute" /\ e.pc = "found" /\ pc = "done"
    \/ e.op = "run" /\ e.pc = "call" /\ pc = "again"

TailRow(e, f) ==
    /\ \/ e.op \in {"section", "timedsection"} /\ e.pc = "leave"
       \/ e.op = "proxy" /\ e.pc \in {"enqueue", "enqueued"}
    /\ f = UnlockFrame(e.m)

SectionCalls(e, g, pc) ==
    /\ e.op \in {"section", "timedsection"} /\ e.pc = "enter"
    /\ Is(g, "lock", "try", e.m) /\ pc = "leave"

LockCalls(t, e, g, pc) ==
    t = Main /\ e.op = "lock" /\ Is(g, "execute", "enter", None) /\ pc = "check"

ProxyCalls(t, e, g, pc) ==
    /\ e.op = "proxy"
    /\ \/ e.pc = "enter" /\ Is(g, "lock", "try", "registry") /\ pc = "add"
       \/ e.pc = "add" /\ Is(g, "section", "enter", "allocator") /\ pc = "added"
       \/ e.pc = "added" /\ Is(g, "unlock", "waiters", "registry") /\ pc = "send"
       \/ e.pc = "send" /\ Is(g, "lock", "try", e.m) /\ pc = "enqueue"
       \/ e.pc = "enqueue" /\ t \in Growers /\ Is(g, "section", "enter", "allocator") /\ pc = "enqueued"

MayStart(e) == (e.pc = "enter" => inUse # TRUE) /\ (e.pc = "found" => processing # TRUE)

ExecuteCalls(t, e, g, pc) ==
    /\ t = Main /\ e.op = "execute" /\ MayStart(e)
    /\ \/ e.pc = "enter" /\ Is(g, "lock", "try", "registry") /\ pc = "find"
       \/ e.pc = "find" /\ Is(g, "unlock", "waiters", "registry") /\ pc = "found"
       \/ e.pc = "found" /\ Is(g, "run", "enter", Main) /\ pc = "done"

RunCalls(t, e, g, pc) ==
    /\ t = Main /\ e.op = "run"
    /\ \/ e.pc \in {"enter", "again"} /\ Is(g, "lock", "try", Main) /\ pc = "next"
       \/ e.pc = "next" /\ Is(g, "unlock", "waiters", Main) /\ pc \in {"call", "end"}
       \/ e.pc = "call" /\ Is(g, "section", "enter", "allocator") /\ pc = "again"
       \/ e.pc = "call" /\ g.m \in Threads /\ Is(g, "proxy", "enter", g.m) /\ pc = "again"

CallRow(t, e, g, pc) ==
    \/ SectionCalls(e, g, pc) \/ LockCalls(t, e, g, pc) \/ ProxyCalls(t, e, g, pc)
    \/ ExecuteCalls(t, e, g, pc) \/ RunCalls(t, e, g, pc)

(* What the row of a step says of the queue's flags. *)
MarksSet(t, pc) == t = Main /\ pc = "added" => inUse' = TRUE
StartsSet(t, e) == t = Main /\ Runs(e) => processing' = TRUE

(* And of the waiters. *)
CountedPcs == {"mark", "wait", "asleep", "spin", "check", "dec"}
CountsKept(t, e, pc) ==
    \/ LockInc(t) \/ LockDec(t)
    \/ waiters' = waiters /\ (e.op = "lock" => (e.pc \in CountedPcs <=> pc \in CountedPcs))
ReadsOnce(t, pc) == pc = "swap" => UnlockWaiters(t)

LEMMA LocksNamed ==
    /\ "registry" \in Locks /\ "allocator" \in Locks /\ Main \in Threads /\ Main \in Locks
    /\ \A m \in Threads \cup UserLocks : m # "registry" /\ m # "allocator" /\ m \in Locks
    /\ "registry" # "allocator" /\ None \notin Locks /\ TimedLocks \subseteq UserLocks
    /\ UserLocks \subseteq Locks /\ Threads \subseteq Locks
BY ThreadsAssumption, LocksAssumption DEF Locks, Threads

LEMMA GotoKind ==
    ASSUME BaseInv, NEW t \in Threads, Busy(t), NEW pc \in Pcs, NEW v \in 0 .. 3, Goto(t, pc, v),
           GotoRow(t, Top(t), pc, v), OwnersKept, UsesKept(t, Top(t)), RunsKept(t), FlagsType,
           MarksSet(t, pc), StartsSet(t, Top(t)), CountsKept(t, Top(t), pc), ReadsOnce(t, pc)
    PROVE  GoesOn(t)
  <1>1. StackType
    BY DEF BaseInv, ShapeInv
  <1>2. PICK e : e = Top(t)
    OBVIOUS
  <1>3. /\ e \in FrameType /\ e = stack[t][1] /\ Formed(t, e)
        /\ Len(stack[t]) > 1 => stack[t][2] \in FrameType /\ Under(e, stack[t][2])
        /\ e.op = "lock" => Len(stack[t]) > 1
    BY <1>2, TopFrame DEF BaseInv
  <1>4. PICK f \in FrameType : Later(e, f, pc, v) /\ Replaces(stack[t], stack'[t], f) /\ Alone(t)
    BY <1>1, <1>2, Went
  <1>5. GotoRow(t, e, pc, v)
    BY <1>2
  <1>6. Fits(t, stack[t], f)
    BY <1>3, <1>4, <1>5 DEF GotoRow, Fits, Formed, Under, Later, TimedOut, Allocates
  <1>7. HoldsSame(e, f)
    BY <1>3, <1>4, <1>5 DEF GotoRow, HoldsSame, Holding, Kept, Later
  <1>8. UsesGo(t, e, f) /\ RunsGo(t, e, f)
    BY <1>2, <1>3, <1>4, <1>5 DEF GotoRow, UsesGo, RunsGo, Quiet, Marks, Runs, Later, MarksSet, StartsSet
  <1>9. CountsGo(t, e, f)
    <2>1. e.op = f.op /\ e.m = f.m /\ f.pc = pc
      BY <1>4 DEF Later
    <2>2. LockInc(t) \/ LockDec(t)
          \/ (waiters' = waiters /\ (e.op = "lock" => (e.pc \in CountedPcs <=> pc \in CountedPcs)))
      BY <1>2 DEF CountsKept
    <2> QED BY <2>1, <2>2 DEF CountsGo, CountsSame, Counts, CountedPcs
  <1>10. Stays(t, e, f)
    BY <1>4, <1>5 DEF Stays, GotoRow, Later, ReadsOnce
  <1> QED BY <1>2, <1>4, <1>6, <1>7, <1>8, <1>9, <1>10 DEF GoesOn

LEMMA TailKind ==
    ASSUME BaseInv, NEW t \in Threads, Busy(t), NEW f, TailCall(t, f),
           TailRow(Top(t), f), OwnersKept, UsesKept(t, Top(t)), RunsKept(t), FlagsType,
           waiters' = waiters
    PROVE  GoesOn(t)
  <1>1. StackType
    BY DEF BaseInv, ShapeInv
  <1>2. PICK e : e = Top(t)
    OBVIOUS
  <1>3. /\ e \in FrameType /\ e = stack[t][1] /\ Formed(t, e)
        /\ Len(stack[t]) > 1 => stack[t][2] \in FrameType /\ Under(e, stack[t][2])
    BY <1>2, TopFrame DEF BaseInv
  <1>4. TailRow(e, f)
    BY <1>2
  <1>5. e.m \in Locks
    BY <1>3, <1>4, LocksNamed DEF TailRow, Formed
  <1>6. f \in FrameType
    BY <1>4, <1>5, NewFrames DEF TailRow
  <1>7. Replaces(stack[t], stack'[t], f) /\ Alone(t)
    BY <1>1, <1>6, Tailed
  <1>8. f.op = "unlock" /\ f.pc = "waiters" /\ f.m = e.m
    BY <1>4 DEF TailRow, UnlockFrame, Frame
  <1>9. Fits(t, stack[t], f)
    BY <1>3, <1>4, <1>5, <1>8 DEF TailRow, Fits, Formed, Under, Allocates
  <1>10. HoldsSame(e, f)
    BY <1>3, <1>4, <1>8 DEF TailRow, HoldsSame, Holding, Kept
  <1>11. UsesGo(t, e, f) /\ RunsGo(t, e, f)
    BY <1>2, <1>8 DEF UsesGo, RunsGo, Quiet, Marks, Runs
  <1>12. CountsGo(t, e, f) /\ Stays(t, e, f)
    BY <1>4, <1>8 DEF CountsGo, CountsSame, Counts, Stays, TailRow
  <1> QED BY <1>2, <1>6, <1>7, <1>9, <1>10, <1>11, <1>12 DEF GoesOn

LEMMA CallKind ==
    ASSUME BaseInv, NEW t \in Threads, Busy(t), NEW g \in FrameType, NEW pc \in Pcs, Call(t, g, pc),
           CallRow(t, Top(t), g, pc), OwnersKept, UsesKept(t, Top(t)), RunsKept(t), FlagsType,
           MarksSet(t, pc), StartsSet(t, Top(t)), waiters' = waiters,
           Top(t).op = "lock" => Top(t).pc = "spin"
    PROVE  CallsOn(t)
  <1>1. StackType
    BY DEF BaseInv, ShapeInv
  <1>2. PICK e : e = Top(t)
    OBVIOUS
  <1>3. /\ e \in FrameType /\ e = stack[t][1] /\ Formed(t, e)
        /\ Len(stack[t]) > 1 => stack[t][2] \in FrameType /\ Under(e, stack[t][2])
        /\ e.op = "lock" => Len(stack[t]) > 1
    BY <1>2, TopFrame DEF BaseInv
  <1>4. CallRow(t, e, g, pc)
    BY <1>2
  <1>5. Formed(t, g)
    <2>1. CASE SectionCalls(e, g, pc)
      BY <1>3, LocksNamed, <2>1 DEF SectionCalls, Is, Formed, TimedOut
    <2>2. CASE LockCalls(t, e, g, pc)
      BY <1>3, LocksNamed, <2>2 DEF LockCalls, Is, Formed, TimedOut
    <2>3. CASE ProxyCalls(t, e, g, pc)
      BY <1>3, LocksNamed, <2>3 DEF ProxyCalls, Is, Formed, TimedOut
    <2>4. CASE ExecuteCalls(t, e, g, pc)
      BY <1>3, LocksNamed, <2>4 DEF ExecuteCalls, Is, Formed, TimedOut
    <2>5. CASE RunCalls(t, e, g, pc)
      BY <1>3, LocksNamed, <2>5 DEF RunCalls, Is, Formed, TimedOut
    <2> QED BY <1>4, <2>1, <2>2, <2>3, <2>4, <2>5 DEF CallRow
  <1>6. PICK f \in FrameType : Later(e, f, pc, 0) /\ Pushes(stack[t], stack'[t], g, f) /\ Alone(t)
    BY <1>1, <1>2, Called
  <1>7. Formed(t, f)
    <2>1. CASE SectionCalls(e, g, pc)
      BY <1>3, <1>6, <2>1 DEF SectionCalls, Later, Is, Formed, TimedOut
    <2>2. CASE LockCalls(t, e, g, pc)
      BY <1>3, <1>6, <2>2 DEF LockCalls, Later, Is, Formed, TimedOut
    <2>3. CASE ProxyCalls(t, e, g, pc)
      BY <1>3, <1>6, <2>3 DEF ProxyCalls, Later, Is, Formed, TimedOut
    <2>4. CASE ExecuteCalls(t, e, g, pc)
      BY <1>3, <1>6, <2>4 DEF ExecuteCalls, Later, Is, Formed, TimedOut
    <2>5. CASE RunCalls(t, e, g, pc)
      BY <1>3, <1>6, <2>5 DEF RunCalls, Later, Is, Formed, TimedOut
    <2> QED BY <1>4, <2>1, <2>2, <2>3, <2>4, <2>5 DEF CallRow
  <1>8. Fits(t, stack[t], f)
    <2>1. f.op = e.op /\ f.m = e.m /\ f.v = 0 /\ e.op # "unlock"
      BY <1>4, <1>6
      DEF CallRow, SectionCalls, LockCalls, ProxyCalls, ExecuteCalls, RunCalls, Later
    <2>2. \A x : Under(e, x) => Under(f, x)
      BY <2>1 DEF Under, TimedOut
    <2> QED BY <1>3, <1>7, <2>1, <2>2 DEF Fits
  <1>9. Under(g, f)
    <2>1. CASE SectionCalls(e, g, pc)
      BY <1>3, <1>6, LocksNamed, <2>1 DEF SectionCalls, Later, Is, Formed, Under, Allocates, TimedOut
    <2>2. CASE LockCalls(t, e, g, pc)
      BY <1>3, <1>6, LocksNamed, <2>2 DEF LockCalls, Later, Is, Formed, Under, Allocates, TimedOut
    <2>3. CASE ProxyCalls(t, e, g, pc)
      BY <1>3, <1>6, LocksNamed, <2>3 DEF ProxyCalls, Later, Is, Formed, Under, Allocates, TimedOut
    <2>4. CASE ExecuteCalls(t, e, g, pc)
      BY <1>3, <1>6, LocksNamed, <2>4 DEF ExecuteCalls, Later, Is, Formed, Under, Allocates, TimedOut
    <2>5. CASE RunCalls(t, e, g, pc)
      BY <1>3, <1>6, LocksNamed, <2>5 DEF RunCalls, Later, Is, Formed, Under, Allocates, TimedOut
    <2> QED BY <1>4, <2>1, <2>2, <2>3, <2>4, <2>5 DEF CallRow
  <1>10. HoldsCall(e, g, f)
    <2>1. CASE SectionCalls(e, g, pc)
      BY <1>3, <1>6, LocksNamed, <2>1 DEF SectionCalls, Later, Is, Formed, HoldsCall, Holding, Kept
    <2>2. CASE LockCalls(t, e, g, pc)
      BY <1>3, <1>6, LocksNamed, <2>2 DEF LockCalls, Later, Is, Formed, HoldsCall, Holding, Kept
    <2>3. CASE ProxyCalls(t, e, g, pc)
      BY <1>3, <1>6, LocksNamed, <2>3 DEF ProxyCalls, Later, Is, Formed, HoldsCall, Holding, Kept
    <2>4. CASE ExecuteCalls(t, e, g, pc)
      BY <1>3, <1>6, LocksNamed, <2>4 DEF ExecuteCalls, Later, Is, Formed, HoldsCall, Holding, Kept
    <2>5. CASE RunCalls(t, e, g, pc)
      BY <1>3, <1>6, LocksNamed, <2>5 DEF RunCalls, Later, Is, Formed, HoldsCall, Holding, Kept
    <2> QED BY <1>4, <2>1, <2>2, <2>3, <2>4, <2>5 DEF CallRow
  <1>11. UsesGo(t, e, f) /\ RunsGo(t, e, f)
    <2>1. CASE SectionCalls(e, g, pc)
      BY <1>2, <1>3, <1>6, <2>1 DEF SectionCalls, Later, Is, UsesGo, RunsGo, Quiet, Marks, Runs, MarksSet, StartsSet
    <2>2. CASE LockCalls(t, e, g, pc)
      BY <1>2, <1>3, <1>6, <2>2 DEF LockCalls, Later, Is, UsesGo, RunsGo, Quiet, Marks, Runs, MarksSet, StartsSet
    <2>3. CASE ProxyCalls(t, e, g, pc)
      BY <1>2, <1>3, <1>6, <2>3 DEF ProxyCalls, Later, Is, UsesGo, RunsGo, Quiet, Marks, Runs, MarksSet, StartsSet
    <2>4. CASE ExecuteCalls(t, e, g, pc)
      BY <1>2, <1>3, <1>6, <2>4 DEF ExecuteCalls, MayStart, Later, Is, UsesGo, RunsGo, Quiet, Marks, Runs, MarksSet, StartsSet
    <2>5. CASE RunCalls(t, e, g, pc)
      BY <1>2, <1>3, <1>6, <2>5 DEF RunCalls, Later, Is, UsesGo, RunsGo, Quiet, Marks, Runs, MarksSet, StartsSet
    <2> QED BY <1>4, <2>1, <2>2, <2>3, <2>4, <2>5 DEF CallRow
  <1>12. UsesCall(t, e, g, f) /\ RunsCall(t, e, g, f)
    <2>1. CASE SectionCalls(e, g, pc)
      BY <1>3, <1>6, <2>1 DEF SectionCalls, Later, Is, UsesCall, RunsCall, Quiet, Marks, Runs
    <2>2. CASE LockCalls(t, e, g, pc)
      BY <1>3, <1>6, <2>2 DEF LockCalls, Later, Is, UsesCall, RunsCall, Quiet, Marks, Runs
    <2>3. CASE ProxyCalls(t, e, g, pc)
      BY <1>3, <1>6, <2>3 DEF ProxyCalls, Later, Is, UsesCall, RunsCall, Quiet, Marks, Runs
    <2>4. CASE ExecuteCalls(t, e, g, pc)
      BY <1>3, <1>6, <2>4 DEF ExecuteCalls, MayStart, Later, Is, UsesCall, RunsCall, Quiet, Marks, Runs
    <2>5. CASE RunCalls(t, e, g, pc)
      BY <1>3, <1>6, <2>5 DEF RunCalls, Later, Is, UsesCall, RunsCall, Quiet, Marks, Runs
    <2> QED BY <1>4, <2>1, <2>2, <2>3, <2>4, <2>5 DEF CallRow
  <1>13. /\ CountsSame(e, f) /\ Stays(t, e, f)
         /\ (\A m \in Locks : ~Counts(g, m)) /\ g.pc # "swap"
    <2>1. f.op = e.op /\ f.m = e.m /\ f.pc = pc /\ e.op # "unlock" /\ g.pc \notin CountedPcs /\ g.pc # "swap"
          /\ (e.op = "lock" => pc = "check")
      BY <1>4, <1>6
      DEF CallRow, SectionCalls, LockCalls, ProxyCalls, ExecuteCalls, RunCalls, Later, Is, CountedPcs
    <2>2. e.op = "lock" => e.pc = "spin"
      BY <1>2
    <2> QED BY <2>1, <2>2 DEF CountsSame, Counts, Stays, CountedPcs
  <1> QED BY <1>2, <1>5, <1>6, <1>8, <1>9, <1>10, <1>11, <1>12, <1>13 DEF CallsOn

LEMMA Processing ==
    ASSUME BaseInv, Busy(Main), Runs(Top(Main)), Top(Main).pc # "enter"
    PROVE  processing = TRUE
  <1>1. Top(Main) = stack[Main][1] /\ Len(stack[Main]) \in Nat \ {0}
    BY TopFrame, LocksNamed DEF BaseInv
  <1>2. 1 \in 1 .. Len(stack[Main])
    BY <1>1
  <1> QED BY <1>1, <1>2 DEF BaseInv, RunInv, RunStack

LEMMA Unchanged ==
    ASSUME BaseInv, NEW t \in Threads
    PROVE  /\ UNCHANGED mutexVars => OwnersKept
           /\ UNCHANGED queueVars => UsesKept(t, Top(t)) /\ RunsKept(t) /\ FlagsType
  <1>1. UNCHANGED mutexVars => OwnersKept
    BY DEF OwnersKept, mutexVars, BaseInv, WordInv
  <1>2. UNCHANGED queueVars => UsesKept(t, Top(t)) /\ RunsKept(t) /\ FlagsType
    BY DEF queueVars, UsesKept, RunsKept, FlagsType, BaseInv, UseInv, RunInv
  <1> QED BY <1>1, <1>2

LEMMA ReturnKind ==
    ASSUME BaseInv, NEW t \in Threads, Busy(t), Return(t), Top(t).op # "lock", NoMutex(Top(t)),
           OwnersKept, UsesKept(t, Top(t)), RunsKept(t) \/ (t = Main /\ Runs(Top(t))), FlagsType,
           waiters' = waiters, Top(t).op = "unlock" => UnlockWake(t)
    PROVE  ReturnsOn(t)
BY Returned DEF ReturnsOn, BaseInv, ShapeInv

Kind(t) ==
    \/ GoesOn(t) \/ CallsOn(t) \/ ReturnsOn(t)
    \/ Locking(t) \/ UnlockSwap(t) \/ GivingUp(t)

LEMMA KindLockTryBusy ==
    ASSUME BaseInv, NEW t \in Threads, LockTry(t), word[Reached(t)] # Unlocked
    PROVE  Kind(t)
  <1>1. t \in Threads /\ Busy(t) /\ Top(t).op = "lock" /\ Top(t).pc = "try"
    BY LocksNamed DEF LockTry, At
  <1>2. PICK e : e = Top(t)
    OBVIOUS
  <1>3. /\ e \in FrameType /\ e = stack[t][1] /\ Formed(t, e)
        /\ Len(stack[t]) > 1 => stack[t][2] \in FrameType /\ Under(e, stack[t][2])
        /\ e.op = "lock" => Len(stack[t]) > 1
    BY <1>1, <1>2, TopFrame DEF BaseInv
  <1>4. e.op = "lock" /\ e.pc = "try"
    BY <1>1, <1>2
  <1>5. PICK pc \in {"read"}, v \in {0} : Goto(t, pc, v)
    BY DEF LockTry
  <1>6. GotoRow(t, e, pc, v)
    BY <1>3, <1>4, <1>5 DEF GotoRow, Formed, TimedOut, Unlocked
  <1>7. OwnersKept
    BY DEF LockTry, OwnersKept, BaseInv, WordInv, mutexVars
  <1>8. UsesKept(t, Top(t)) /\ RunsKept(t) /\ FlagsType
    BY <1>1, Unchanged DEF LockTry
  <1>9. MarksSet(t, pc) /\ StartsSet(t, e)
    BY <1>1, <1>2, <1>3, <1>4, <1>5 DEF MarksSet, StartsSet, Runs
  <1>10. pc \in Pcs /\ v \in 0 .. 3
    BY <1>5 DEF Pcs
  <1>11. CountsKept(t, e, pc) /\ ReadsOnce(t, pc)
    BY <1>4, <1>5 DEF LockTry, mutexVars, CountsKept, ReadsOnce, CountedPcs
  <1>12. GoesOn(t)
    BY <1>1, <1>2, <1>5, <1>6, <1>7, <1>8, <1>9, <1>10, <1>11, GotoKind
  <1> QED BY <1>12 DEF Kind

LEMMA KindLockRead ==
    ASSUME BaseInv, NEW t \in Threads, LockRead(t)
    PROVE  Kind(t)
  <1>1. t \in Threads /\ Busy(t) /\ Top(t).op = "lock" /\ Top(t).pc = "read"
    BY LocksNamed DEF LockRead, At
  <1>2. PICK e : e = Top(t)
    OBVIOUS
  <1>3. /\ e \in FrameType /\ e = stack[t][1] /\ Formed(t, e)
        /\ Len(stack[t]) > 1 => stack[t][2] \in FrameType /\ Under(e, stack[t][2])
        /\ e.op = "lock" => Len(stack[t]) > 1
    BY <1>1, <1>2, TopFrame DEF BaseInv
  <1>4. e.op = "lock" /\ e.pc = "read"
    BY <1>1, <1>2
  <1>5. PICK pc \in {"try", "inc"}, v \in 0 .. 2 : Goto(t, pc, v) /\ (pc = "inc" => v # Unlocked)
    BY <1>2, <1>3, <1>4 DEF LockRead, BaseInv, WordInv, Formed, Unlocked, Locked, Contended, Reached
  <1>6. GotoRow(t, e, pc, v)
    BY <1>3, <1>4, <1>5 DEF GotoRow, Formed, TimedOut, Unlocked
  <1>7. OwnersKept
    BY <1>1, Unchanged DEF LockRead
  <1>8. UsesKept(t, Top(t)) /\ RunsKept(t) /\ FlagsType
    BY <1>1, Unchanged DEF LockRead
  <1>9. MarksSet(t, pc) /\ StartsSet(t, e)
    BY <1>1, <1>2, <1>3, <1>4, <1>5 DEF MarksSet, StartsSet, Runs
  <1>10. pc \in Pcs /\ v \in 0 .. 3
    BY <1>5 DEF Pcs
  <1>11. CountsKept(t, e, pc) /\ ReadsOnce(t, pc)
    BY <1>4, <1>5 DEF LockRead, mutexVars, CountsKept, ReadsOnce, CountedPcs
  <1>12. GoesOn(t)
    BY <1>1, <1>2, <1>5, <1>6, <1>7, <1>8, <1>9, <1>10, <1>11, GotoKind
  <1> QED BY <1>12 DEF Kind

LEMMA KindLockInc ==
    ASSUME BaseInv, NEW t \in Threads, LockInc(t)
    PROVE  Kind(t)
  <1>1. t \in Threads /\ Busy(t) /\ Top(t).op = "lock" /\ Top(t).pc = "inc"
    BY LocksNamed DEF LockInc, At
  <1>2. PICK e : e = Top(t)
    OBVIOUS
  <1>3. /\ e \in FrameType /\ e = stack[t][1] /\ Formed(t, e)
        /\ Len(stack[t]) > 1 => stack[t][2] \in FrameType /\ Under(e, stack[t][2])
        /\ e.op = "lock" => Len(stack[t]) > 1
    BY <1>1, <1>2, TopFrame DEF BaseInv
  <1>4. e.op = "lock" /\ e.pc = "inc"
    BY <1>1, <1>2
  <1>5. PICK pc \in {"mark"}, v \in 1 .. 2 : Goto(t, pc, v)
    BY <1>2, <1>3, <1>4 DEF LockInc, FrameType, Formed, TimedOut, Unlocked
  <1>6. GotoRow(t, e, pc, v)
    BY <1>3, <1>4, <1>5 DEF GotoRow, Formed, TimedOut, Unlocked
  <1>7. OwnersKept
    BY DEF LockInc, OwnersKept, BaseInv, WordInv, mutexVars
  <1>8. UsesKept(t, Top(t)) /\ RunsKept(t) /\ FlagsType
    BY <1>1, Unchanged DEF LockInc
  <1>9. MarksSet(t, pc) /\ StartsSet(t, e)
    BY <1>1, <1>2, <1>3, <1>4, <1>5 DEF MarksSet, StartsSet, Runs
  <1>10. pc \in Pcs /\ v \in 0 .. 3
    BY <1>5 DEF Pcs
  <1>11. CountsKept(t, e, pc) /\ ReadsOnce(t, pc)
    BY <1>4, <1>5 DEF LockInc, mutexVars, CountsKept, ReadsOnce, CountedPcs
  <1>12. GoesOn(t)
    BY <1>1, <1>2, <1>5, <1>6, <1>7, <1>8, <1>9, <1>10, <1>11, GotoKind
  <1> QED BY <1>12 DEF Kind

LEMMA KindLockMark ==
    ASSUME BaseInv, NEW t \in Threads, LockMark(t)
    PROVE  Kind(t)
  <1>1. t \in Threads /\ Busy(t) /\ Top(t).op = "lock" /\ Top(t).pc = "mark"
    BY LocksNamed DEF LockMark, At
  <1>2. PICK e : e = Top(t)
    OBVIOUS
  <1>3. /\ e \in FrameType /\ e = stack[t][1] /\ Formed(t, e)
        /\ Len(stack[t]) > 1 => stack[t][2] \in FrameType /\ Under(e, stack[t][2])
        /\ e.op = "lock" => Len(stack[t]) > 1
    BY <1>1, <1>2, TopFrame DEF BaseInv
  <1>4. e.op = "lock" /\ e.pc = "mark"
    BY <1>1, <1>2
  <1>5. PICK pc \in {"wait"}, v \in {0} : Goto(t, pc, v)
    BY <1>2, <1>3, <1>4 DEF LockMark
  <1>6. GotoRow(t, e, pc, v)
    BY <1>3, <1>4, <1>5 DEF GotoRow, Formed, TimedOut, Unlocked
  <1>7. OwnersKept
    <2>1. e.m \in Locks /\ e.v # Unlocked
      BY <1>3, <1>4 DEF Formed
    <2> QED BY <1>2, <2>1 DEF LockMark, Reached, OwnersKept, BaseInv, WordInv, Unlocked, Contended, Locked
  <1>8. UsesKept(t, Top(t)) /\ RunsKept(t) /\ FlagsType
    BY <1>1, Unchanged DEF LockMark
  <1>9. MarksSet(t, pc) /\ StartsSet(t, e)
    BY <1>1, <1>2, <1>3, <1>4, <1>5 DEF MarksSet, StartsSet, Runs
  <1>10. pc \in Pcs /\ v \in 0 .. 3
    BY <1>5 DEF Pcs
  <1>11. CountsKept(t, e, pc) /\ ReadsOnce(t, pc)
    BY <1>4, <1>5 DEF LockMark, mutexVars, CountsKept, ReadsOnce, CountedPcs
  <1>12. GoesOn(t)
    BY <1>1, <1>2, <1>5, <1>6, <1>7, <1>8, <1>9, <1>10, <1>11, GotoKind
  <1> QED BY <1>12 DEF Kind

LEMMA KindWorkerWait ==
    ASSUME BaseInv, NEW t \in Threads, WorkerWait(t)
    PROVE  Kind(t)
  <1>1. t \in Threads /\ Busy(t) /\ Top(t).op = "lock" /\ Top(t).pc = "wait"
    BY LocksNamed DEF WorkerWait, At
  <1>2. PICK e : e = Top(t)
    OBVIOUS
  <1>3. /\ e \in FrameType /\ e = stack[t][1] /\ Formed(t, e)
        /\ Len(stack[t]) > 1 => stack[t][2] \in FrameType /\ Under(e, stack[t][2])
        /\ e.op = "lock" => Len(stack[t]) > 1
    BY <1>1, <1>2, TopFrame DEF BaseInv
  <1>4. e.op = "lock" /\ e.pc = "wait"
    BY <1>1, <1>2
  <1>5. PICK pc \in {"asleep", "dec"}, v \in {0} : Goto(t, pc, v)
    BY <1>2, <1>3, <1>4 DEF WorkerWait
  <1>6. GotoRow(t, e, pc, v)
    BY <1>3, <1>4, <1>5 DEF GotoRow, Formed, TimedOut, Unlocked, WorkerWait
  <1>7. OwnersKept
    BY DEF WorkerWait, OwnersKept, BaseInv, WordInv, mutexVars
  <1>8. UsesKept(t, Top(t)) /\ RunsKept(t) /\ FlagsType
    BY <1>1, Unchanged DEF WorkerWait
  <1>9. MarksSet(t, pc) /\ StartsSet(t, e)
    BY <1>1, <1>2, <1>3, <1>4, <1>5 DEF MarksSet, StartsSet, Runs
  <1>10. pc \in Pcs /\ v \in 0 .. 3
    BY <1>5 DEF Pcs
  <1>11. CountsKept(t, e, pc) /\ ReadsOnce(t, pc)
    BY <1>4, <1>5 DEF WorkerWait, mutexVars, CountsKept, ReadsOnce, CountedPcs
  <1>12. GoesOn(t)
    BY <1>1, <1>2, <1>5, <1>6, <1>7, <1>8, <1>9, <1>10, <1>11, GotoKind
  <1> QED BY <1>12 DEF Kind

LEMMA KindWorkerWoken ==
    ASSUME BaseInv, NEW t \in Threads, WorkerWoken(t)
    PROVE  Kind(t)
  <1>1. t \in Threads /\ Busy(t) /\ Top(t).op = "lock" /\ Top(t).pc = "asleep"
    BY LocksNamed DEF WorkerWoken, At
  <1>2. PICK e : e = Top(t)
    OBVIOUS
  <1>3. /\ e \in FrameType /\ e = stack[t][1] /\ Formed(t, e)
        /\ Len(stack[t]) > 1 => stack[t][2] \in FrameType /\ Under(e, stack[t][2])
        /\ e.op = "lock" => Len(stack[t]) > 1
    BY <1>1, <1>2, TopFrame DEF BaseInv
  <1>4. e.op = "lock" /\ e.pc = "asleep"
    BY <1>1, <1>2
  <1>5. PICK pc \in {"dec"}, v \in {0} : Goto(t, pc, v)
    BY <1>2, <1>3, <1>4 DEF WorkerWoken
  <1>6. GotoRow(t, e, pc, v)
    BY <1>3, <1>4, <1>5 DEF GotoRow, Formed, TimedOut, Unlocked
  <1>7. OwnersKept
    BY <1>1, Unchanged DEF WorkerWoken
  <1>8. UsesKept(t, Top(t)) /\ RunsKept(t) /\ FlagsType
    BY <1>1, Unchanged DEF WorkerWoken
  <1>9. MarksSet(t, pc) /\ StartsSet(t, e)
    BY <1>1, <1>2, <1>3, <1>4, <1>5 DEF MarksSet, StartsSet, Runs
  <1>10. pc \in Pcs /\ v \in 0 .. 3
    BY <1>5 DEF Pcs
  <1>11. CountsKept(t, e, pc) /\ ReadsOnce(t, pc)
    BY <1>4, <1>5 DEF WorkerWoken, mutexVars, CountsKept, ReadsOnce, CountedPcs
  <1>12. GoesOn(t)
    BY <1>1, <1>2, <1>5, <1>6, <1>7, <1>8, <1>9, <1>10, <1>11, GotoKind
  <1> QED BY <1>12 DEF Kind

LEMMA KindLockDecAgain ==
    ASSUME BaseInv, NEW t \in Threads, LockDec(t), Top(t).v # TimedOut
    PROVE  Kind(t)
  <1>1. t \in Threads /\ Busy(t) /\ Top(t).op = "lock" /\ Top(t).pc = "dec"
    BY LocksNamed DEF LockDec, At
  <1>2. PICK e : e = Top(t)
    OBVIOUS
  <1>3. /\ e \in FrameType /\ e = stack[t][1] /\ Formed(t, e)
        /\ Len(stack[t]) > 1 => stack[t][2] \in FrameType /\ Under(e, stack[t][2])
        /\ e.op = "lock" => Len(stack[t]) > 1
    BY <1>1, <1>2, TopFrame DEF BaseInv
  <1>4. e.op = "lock" /\ e.pc = "dec"
    BY <1>1, <1>2
  <1>5. PICK pc \in {"try"}, v \in {0} : Goto(t, pc, v)
    BY <1>2, <1>3, <1>4 DEF LockDec
  <1>6. GotoRow(t, e, pc, v)
    BY <1>3, <1>4, <1>5 DEF GotoRow, Formed, TimedOut, Unlocked
  <1>7. OwnersKept
    BY DEF LockDec, OwnersKept, BaseInv, WordInv, mutexVars
  <1>8. UsesKept(t, Top(t)) /\ RunsKept(t) /\ FlagsType
    BY <1>1, Unchanged DEF LockDec
  <1>9. MarksSet(t, pc) /\ StartsSet(t, e)
    BY <1>1, <1>2, <1>3, <1>4, <1>5 DEF MarksSet, StartsSet, Runs
  <1>10. pc \in Pcs /\ v \in 0 .. 3
    BY <1>5 DEF Pcs
  <1>11. CountsKept(t, e, pc) /\ ReadsOnce(t, pc)
    BY <1>4, <1>5 DEF LockDec, mutexVars, CountsKept, ReadsOnce, CountedPcs
  <1>12. GoesOn(t)
    BY <1>1, <1>2, <1>5, <1>6, <1>7, <1>8, <1>9, <1>10, <1>11, GotoKind
  <1> QED BY <1>12 DEF Kind

LEMMA KindMainRegister ==
    ASSUME BaseInv, MainRegister
    PROVE  Kind(Main)
  <1>1. Main \in Threads /\ Busy(Main) /\ Top(Main).op = "lock" /\ Top(Main).pc = "wait"
    BY LocksNamed DEF MainRegister, At
  <1>2. PICK e : e = Top(Main)
    OBVIOUS
  <1>3. /\ e \in FrameType /\ e = stack[Main][1] /\ Formed(Main, e)
        /\ Len(stack[Main]) > 1 => stack[Main][2] \in FrameType /\ Under(e, stack[Main][2])
        /\ e.op = "lock" => Len(stack[Main]) > 1
    BY <1>1, <1>2, TopFrame DEF BaseInv
  <1>4. e.op = "lock" /\ e.pc = "wait"
    BY <1>1, <1>2
  <1>5. PICK pc \in {"spin"}, v \in {0} : Goto(Main, pc, v)
    BY <1>2, <1>3, <1>4 DEF MainRegister
  <1>6. GotoRow(Main, e, pc, v)
    BY <1>3, <1>4, <1>5 DEF GotoRow, Formed, TimedOut, Unlocked
  <1>7. OwnersKept
    BY <1>1, Unchanged DEF MainRegister
  <1>8. UsesKept(Main, Top(Main)) /\ RunsKept(Main) /\ FlagsType
    BY <1>1, Unchanged DEF MainRegister
  <1>9. MarksSet(Main, pc) /\ StartsSet(Main, e)
    BY <1>1, <1>2, <1>3, <1>4, <1>5 DEF MarksSet, StartsSet, Runs
  <1>10. pc \in Pcs /\ v \in 0 .. 3
    BY <1>5 DEF Pcs
  <1>11. CountsKept(Main, e, pc) /\ ReadsOnce(Main, pc)
    BY <1>4, <1>5 DEF MainRegister, mutexVars, CountsKept, ReadsOnce, CountedPcs
  <1>12. GoesOn(Main)
    BY <1>1, <1>2, <1>5, <1>6, <1>7, <1>8, <1>9, <1>10, <1>11, GotoKind
  <1> QED BY <1>12 DEF Kind

LEMMA KindMainWoken ==
    ASSUME BaseInv, MainWoken
    PROVE  Kind(Main)
  <1>1. Main \in Threads /\ Busy(Main) /\ Top(Main).op = "lock" /\ Top(Main).pc = "spin"
    BY LocksNamed DEF MainWoken, At
  <1>2. PICK e : e = Top(Main)
    OBVIOUS
  <1>3. /\ e \in FrameType /\ e = stack[Main][1] /\ Formed(Main, e)
        /\ Len(stack[Main]) > 1 => stack[Main][2] \in FrameType /\ Under(e, stack[Main][2])
        /\ e.op = "lock" => Len(stack[Main]) > 1
    BY <1>1, <1>2, TopFrame DEF BaseInv
  <1>4. e.op = "lock" /\ e.pc = "spin"
    BY <1>1, <1>2
  <1>5. PICK pc \in {"dec"}, v \in {0} : Goto(Main, pc, v)
    BY <1>2, <1>3, <1>4 DEF MainWoken
  <1>6. GotoRow(Main, e, pc, v)
    BY <1>3, <1>4, <1>5 DEF GotoRow, Formed, TimedOut, Unlocked
  <1>7. OwnersKept
    BY <1>1, Unchanged DEF MainWoken
  <1>8. UsesKept(Main, Top(Main)) /\ RunsKept(Main) /\ FlagsType
    BY <1>1, Unchanged DEF MainWoken
  <1>9. MarksSet(Main, pc) /\ StartsSet(Main, e)
    BY <1>1, <1>2, <1>3, <1>4, <1>5 DEF MarksSet, StartsSet, Runs
  <1>10. pc \in Pcs /\ v \in 0 .. 3
    BY <1>5 DEF Pcs
  <1>11. CountsKept(Main, e, pc) /\ ReadsOnce(Main, pc)
    BY <1>4, <1>5 DEF MainWoken, mutexVars, CountsKept, ReadsOnce, CountedPcs
  <1>12. GoesOn(Main)
    BY <1>1, <1>2, <1>5, <1>6, <1>7, <1>8, <1>9, <1>10, <1>11, GotoKind
  <1> QED BY <1>12 DEF Kind

LEMMA KindMainCheck ==
    ASSUME BaseInv, MainCheck
    PROVE  Kind(Main)
  <1>1. Main \in Threads /\ Busy(Main) /\ Top(Main).op = "lock" /\ Top(Main).pc = "check"
    BY LocksNamed DEF MainCheck, At
  <1>2. PICK e : e = Top(Main)
    OBVIOUS
  <1>3. /\ e \in FrameType /\ e = stack[Main][1] /\ Formed(Main, e)
        /\ Len(stack[Main]) > 1 => stack[Main][2] \in FrameType /\ Under(e, stack[Main][2])
        /\ e.op = "lock" => Len(stack[Main]) > 1
    BY <1>1, <1>2, TopFrame DEF BaseInv
  <1>4. e.op = "lock" /\ e.pc = "check"
    BY <1>1, <1>2
  <1>5. PICK pc \in {"spin", "dec"}, v \in {0} : Goto(Main, pc, v)
    BY <1>2, <1>3, <1>4 DEF MainCheck
  <1>6. GotoRow(Main, e, pc, v)
    BY <1>3, <1>4, <1>5 DEF GotoRow, Formed, TimedOut, Unlocked
  <1>7. OwnersKept
    BY <1>1, Unchanged DEF MainCheck
  <1>8. UsesKept(Main, Top(Main)) /\ RunsKept(Main) /\ FlagsType
    BY <1>1, Unchanged DEF MainCheck
  <1>9. MarksSet(Main, pc) /\ StartsSet(Main, e)
    BY <1>1, <1>2, <1>3, <1>4, <1>5 DEF MarksSet, StartsSet, Runs
  <1>10. pc \in Pcs /\ v \in 0 .. 3
    BY <1>5 DEF Pcs
  <1>11. CountsKept(Main, e, pc) /\ ReadsOnce(Main, pc)
    BY <1>4, <1>5 DEF MainCheck, mutexVars, CountsKept, ReadsOnce, CountedPcs
  <1>12. GoesOn(Main)
    BY <1>1, <1>2, <1>5, <1>6, <1>7, <1>8, <1>9, <1>10, <1>11, GotoKind
  <1> QED BY <1>12 DEF Kind

LEMMA KindMainTimeout ==
    ASSUME BaseInv, MainTimeout
    PROVE  Kind(Main)
  <1>1. Main \in Threads /\ Busy(Main) /\ Top(Main).op = "lock" /\ Top(Main).pc = "spin"
    BY LocksNamed DEF MainTimeout, At
  <1>2. PICK e : e = Top(Main)
    OBVIOUS
  <1>3. /\ e \in FrameType /\ e = stack[Main][1] /\ Formed(Main, e)
        /\ Len(stack[Main]) > 1 => stack[Main][2] \in FrameType /\ Under(e, stack[Main][2])
        /\ e.op = "lock" => Len(stack[Main]) > 1
    BY <1>1, <1>2, TopFrame DEF BaseInv
  <1>4. e.op = "lock" /\ e.pc = "spin"
    BY <1>1, <1>2
  <1>5. PICK pc \in {"dec"}, v \in {3} : Goto(Main, pc, v)
    BY <1>2, <1>3, <1>4 DEF MainTimeout, TimedOut
  <1>6. GotoRow(Main, e, pc, v)
    BY <1>3, <1>4, <1>5 DEF GotoRow, Formed, TimedOut, Unlocked, MainTimeout
  <1>7. OwnersKept
    BY <1>1, Unchanged DEF MainTimeout
  <1>8. UsesKept(Main, Top(Main)) /\ RunsKept(Main) /\ FlagsType
    BY <1>1, Unchanged DEF MainTimeout
  <1>9. MarksSet(Main, pc) /\ StartsSet(Main, e)
    BY <1>1, <1>2, <1>3, <1>4, <1>5 DEF MarksSet, StartsSet, Runs
  <1>10. pc \in Pcs /\ v \in 0 .. 3
    BY <1>5 DEF Pcs
  <1>11. CountsKept(Main, e, pc) /\ ReadsOnce(Main, pc)
    BY <1>4, <1>5 DEF MainTimeout, mutexVars, CountsKept, ReadsOnce, CountedPcs
  <1>12. GoesOn(Main)
    BY <1>1, <1>2, <1>5, <1>6, <1>7, <1>8, <1>9, <1>10, <1>11, GotoKind
  <1> QED BY <1>12 DEF Kind

LEMMA KindUnlockWaiters ==
    ASSUME BaseInv, NEW t \in Threads, UnlockWaiters(t)
    PROVE  Kind(t)
  <1>1. t \in Threads /\ Busy(t) /\ Top(t).op = "unlock" /\ Top(t).pc = "waiters"
    BY LocksNamed DEF UnlockWaiters, At
  <1>2. PICK e : e = Top(t)
    OBVIOUS
  <1>3. /\ e \in FrameType /\ e = stack[t][1] /\ Formed(t, e)
        /\ Len(stack[t]) > 1 => stack[t][2] \in FrameType /\ Under(e, stack[t][2])
        /\ e.op = "lock" => Len(stack[t]) > 1
    BY <1>1, <1>2, TopFrame DEF BaseInv
  <1>4. e.op = "unlock" /\ e.pc = "waiters"
    BY <1>1, <1>2
  <1>5. PICK pc \in {"swap"}, v \in {0, 1} : Goto(t, pc, v)
    BY <1>2, <1>3, <1>4 DEF UnlockWaiters
  <1>6. GotoRow(t, e, pc, v)
    BY <1>3, <1>4, <1>5 DEF GotoRow, Formed, TimedOut, Unlocked
  <1>7. OwnersKept
    BY <1>1, Unchanged DEF UnlockWaiters
  <1>8. UsesKept(t, Top(t)) /\ RunsKept(t) /\ FlagsType
    BY <1>1, Unchanged DEF UnlockWaiters
  <1>9. MarksSet(t, pc) /\ StartsSet(t, e)
    BY <1>1, <1>2, <1>3, <1>4, <1>5 DEF MarksSet, StartsSet, Runs
  <1>10. pc \in Pcs /\ v \in 0 .. 3
    BY <1>5 DEF Pcs
  <1>11. CountsKept(t, e, pc) /\ ReadsOnce(t, pc)
    BY <1>4, <1>5 DEF UnlockWaiters, mutexVars, CountsKept, ReadsOnce, CountedPcs
  <1>12. GoesOn(t)
    BY <1>1, <1>2, <1>5, <1>6, <1>7, <1>8, <1>9, <1>10, <1>11, GotoKind
  <1> QED BY <1>12 DEF Kind

LEMMA KindUnlockWake ==
    ASSUME BaseInv, NEW t \in Threads, UnlockWake(t)
    PROVE  Kind(t)
  <1>1. t \in Threads /\ Busy(t) /\ Top(t).op = "unlock" /\ Top(t).pc = "wake"
    BY LocksNamed DEF UnlockWake, At
  <1>2. PICK e : e = Top(t)
    OBVIOUS
  <1>3. /\ e \in FrameType /\ e = stack[t][1] /\ Formed(t, e)
        /\ Len(stack[t]) > 1 => stack[t][2] \in FrameType /\ Under(e, stack[t][2])
        /\ e.op = "lock" => Len(stack[t]) > 1
    BY <1>1, <1>2, TopFrame DEF BaseInv
  <1>4. e.op = "unlock" /\ e.pc = "wake"
    BY <1>1, <1>2
  <1>5. Return(t)
    BY DEF UnlockWake
  <1>6. NoMutex(e) /\ e.op # "lock"
    BY <1>4 DEF NoMutex, Holding, Kept
  <1>7. OwnersKept
    BY DEF UnlockWake, OwnersKept, BaseInv, WordInv, mutexVars
  <1>8. UsesKept(t, Top(t)) /\ (RunsKept(t) \/ (t = Main /\ Runs(Top(t)))) /\ FlagsType
    BY <1>1, Unchanged DEF UnlockWake
  <1>9. waiters' = waiters
    BY DEF UnlockWake, mutexVars
  <1>10. Top(t).op = "unlock" => UnlockWake(t)
    BY <1>2, <1>4
  <1>11. ReturnsOn(t)
    BY <1>1, <1>2, <1>5, <1>6, <1>7, <1>8, <1>9, <1>10, ReturnKind
  <1> QED BY <1>11 DEF Kind

LEMMA KindSectionEnter ==
    ASSUME BaseInv, NEW t \in Threads, SectionEnter(t)
    PROVE  Kind(t)
  <1>1. t \in Threads /\ Busy(t) /\ Top(t).op \in {"section", "timedsection"} /\ Top(t).pc = "enter"
    BY LocksNamed DEF SectionEnter, At
  <1>2. PICK e : e = Top(t)
    OBVIOUS
  <1>3. /\ e \in FrameType /\ e = stack[t][1] /\ Formed(t, e)
        /\ Len(stack[t]) > 1 => stack[t][2] \in FrameType /\ Under(e, stack[t][2])
        /\ e.op = "lock" => Len(stack[t]) > 1
    BY <1>1, <1>2, TopFrame DEF BaseInv
  <1>4. e.op \in {"section", "timedsection"} /\ e.pc = "enter"
    BY <1>1, <1>2
  <1>5. PICK g \in FrameType, pc \in {"leave"} : Call(t, g, pc) /\ Is(g, "lock", "try", e.m)
    BY <1>2, <1>3, <1>4, NewFrames, LocksNamed DEF SectionEnter, Reached, Formed
  <1>6. CallRow(t, e, g, pc)
    BY <1>1, <1>3, <1>4, <1>5 DEF CallRow, SectionCalls
  <1>7. OwnersKept
    BY <1>1, Unchanged DEF SectionEnter
  <1>8. UsesKept(t, Top(t)) /\ RunsKept(t) /\ FlagsType
    BY <1>1, Unchanged DEF SectionEnter
  <1>9. MarksSet(t, pc) /\ StartsSet(t, e)
    BY <1>1, <1>2, <1>3, <1>4, <1>5 DEF MarksSet, StartsSet, Runs
  <1>10. pc \in Pcs
    BY <1>5 DEF Pcs
  <1>11. waiters' = waiters /\ (e.op = "lock" => e.pc = "spin")
    BY <1>4 DEF SectionEnter, mutexVars
  <1>12. CallsOn(t)
    BY <1>1, <1>2, <1>5, <1>6, <1>7, <1>8, <1>9, <1>10, <1>11, CallKind
  <1> QED BY <1>12 DEF Kind

LEMMA KindSectionLeave ==
    ASSUME BaseInv, NEW t \in Threads, SectionLeave(t)
    PROVE  Kind(t)
  <1>1. t \in Threads /\ Busy(t) /\ Top(t).op \in {"section", "timedsection"} /\ Top(t).pc = "leave"
    BY LocksNamed DEF SectionLeave, At
  <1>2. PICK e : e = Top(t)
    OBVIOUS
  <1>3. /\ e \in FrameType /\ e = stack[t][1] /\ Formed(t, e)
        /\ Len(stack[t]) > 1 => stack[t][2] \in FrameType /\ Under(e, stack[t][2])
        /\ e.op = "lock" => Len(stack[t]) > 1
    BY <1>1, <1>2, TopFrame DEF BaseInv
  <1>4. e.op \in {"section", "timedsection"} /\ e.pc = "leave"
    BY <1>1, <1>2
  <1>5. TailCall(t, UnlockFrame(e.m))
    BY <1>2 DEF SectionLeave, Reached
  <1>6. TailRow(e, UnlockFrame(e.m))
    BY <1>4 DEF TailRow
  <1>7. OwnersKept
    BY <1>1, Unchanged DEF SectionLeave
  <1>8. UsesKept(t, Top(t)) /\ RunsKept(t) /\ FlagsType
    BY <1>1, Unchanged DEF SectionLeave
  <1>9. waiters' = waiters
    BY DEF SectionLeave, mutexVars
  <1>10. GoesOn(t)
    BY <1>1, <1>2, <1>5, <1>6, <1>7, <1>8, <1>9, TailKind
  <1> QED BY <1>10 DEF Kind

LEMMA KindProxyEnter ==
    ASSUME BaseInv, NEW t \in Threads, ProxyEnter(t)
    PROVE  Kind(t)
  <1>1. t \in Threads /\ Busy(t) /\ Top(t).op = "proxy" /\ Top(t).pc = "enter"
    BY LocksNamed DEF ProxyEnter, At
  <1>2. PICK e : e = Top(t)
    OBVIOUS
  <1>3. /\ e \in FrameType /\ e = stack[t][1] /\ Formed(t, e)
        /\ Len(stack[t]) > 1 => stack[t][2] \in FrameType /\ Under(e, stack[t][2])
        /\ e.op = "lock" => Len(stack[t]) > 1
    BY <1>1, <1>2, TopFrame DEF BaseInv
  <1>4. e.op = "proxy" /\ e.pc = "enter"
    BY <1>1, <1>2
  <1>5. PICK g \in FrameType, pc \in {"add"} : Call(t, g, pc) /\ Is(g, "lock", "try", "registry")
    BY <1>2, <1>3, <1>4, NewFrames, LocksNamed DEF ProxyEnter, Reached, Formed
  <1>6. CallRow(t, e, g, pc)
    BY <1>1, <1>3, <1>4, <1>5 DEF CallRow, ProxyCalls
  <1>7. OwnersKept
    BY <1>1, Unchanged DEF ProxyEnter
  <1>8. UsesKept(t, Top(t)) /\ RunsKept(t) /\ FlagsType
    BY <1>1, Unchanged DEF ProxyEnter
  <1>9. MarksSet(t, pc) /\ StartsSet(t, e)
    BY <1>1, <1>2, <1>3, <1>4, <1>5 DEF MarksSet, StartsSet, Runs
  <1>10. pc \in Pcs
    BY <1>5 DEF Pcs
  <1>11. waiters' = waiters /\ (e.op = "lock" => e.pc = "spin")
    BY <1>4 DEF ProxyEnter, mutexVars
  <1>12. CallsOn(t)
    BY <1>1, <1>2, <1>5, <1>6, <1>7, <1>8, <1>9, <1>10, <1>11, CallKind
  <1> QED BY <1>12 DEF Kind

LEMMA KindProxyAddFound ==
    ASSUME BaseInv, NEW t \in Threads, ProxyAdd(t), Reached(t) \in registered
    PROVE  Kind(t)
  <1>1. t \in Threads /\ Busy(t) /\ Top(t).op = "proxy" /\ Top(t).pc = "add"
    BY LocksNamed DEF ProxyAdd, At
  <1>2. PICK e : e = Top(t)
    OBVIOUS
  <1>3. /\ e \in FrameType /\ e = stack[t][1] /\ Formed(t, e)
        /\ Len(stack[t]) > 1 => stack[t][2] \in FrameType /\ Under(e, stack[t][2])
        /\ e.op = "lock" => Len(stack[t]) > 1
    BY <1>1, <1>2, TopFrame DEF BaseInv
  <1>4. e.op = "proxy" /\ e.pc = "add"
    BY <1>1, <1>2
  <1>5. PICK pc \in {"added"}, v \in {0} : Goto(t, pc, v)
    BY <1>2, <1>3, <1>4 DEF ProxyAdd
  <1>6. GotoRow(t, e, pc, v)
    BY <1>3, <1>4, <1>5 DEF GotoRow, Formed, TimedOut, Unlocked
  <1>7. OwnersKept
    BY <1>1, Unchanged DEF ProxyAdd
  <1>8. UsesKept(t, Top(t)) /\ RunsKept(t) /\ FlagsType
    BY <1>1, <1>2, <1>3, <1>4 DEF ProxyAdd, UsesKept, RunsKept, FlagsType, Runs, Quiet, BaseInv, UseInv, RunInv, MarkedInUse
  <1>9. MarksSet(t, pc) /\ StartsSet(t, e)
    BY <1>1, <1>2, <1>3, <1>4, <1>5 DEF MarksSet, StartsSet, Runs, ProxyAdd, MarkedInUse
  <1>10. pc \in Pcs /\ v \in 0 .. 3
    BY <1>5 DEF Pcs
  <1>11. CountsKept(t, e, pc) /\ ReadsOnce(t, pc)
    BY <1>4, <1>5 DEF ProxyAdd, mutexVars, CountsKept, ReadsOnce, CountedPcs
  <1>12. GoesOn(t)
    BY <1>1, <1>2, <1>5, <1>6, <1>7, <1>8, <1>9, <1>10, <1>11, GotoKind
  <1> QED BY <1>12 DEF Kind

LEMMA KindProxyAddNew ==
    ASSUME BaseInv, NEW t \in Threads, ProxyAdd(t), Reached(t) \notin registered
    PROVE  Kind(t)
  <1>1. t \in Threads /\ Busy(t) /\ Top(t).op = "proxy" /\ Top(t).pc = "add"
    BY LocksNamed DEF ProxyAdd, At
  <1>2. PICK e : e = Top(t)
    OBVIOUS
  <1>3. /\ e \in FrameType /\ e = stack[t][1] /\ Formed(t, e)
        /\ Len(stack[t]) > 1 => stack[t][2] \in FrameType /\ Under(e, stack[t][2])
        /\ e.op = "lock" => Len(stack[t]) > 1
    BY <1>1, <1>2, TopFrame DEF BaseInv
  <1>4. e.op = "proxy" /\ e.pc = "add"
    BY <1>1, <1>2
  <1>5. PICK g \in FrameType, pc \in {"added"} : Call(t, g, pc) /\ Is(g, "section", "enter", "allocator")
    BY <1>2, <1>3, <1>4, NewFrames, LocksNamed DEF ProxyAdd, Reached, Formed
  <1>6. CallRow(t, e, g, pc)
    BY <1>1, <1>3, <1>4, <1>5 DEF CallRow, ProxyCalls
  <1>7. OwnersKept
    BY <1>1, Unchanged DEF ProxyAdd
  <1>8. UsesKept(t, Top(t)) /\ RunsKept(t) /\ FlagsType
    BY <1>1, <1>2, <1>3, <1>4 DEF ProxyAdd, UsesKept, RunsKept, FlagsType, Runs, Quiet, BaseInv, UseInv, RunInv, MarkedInUse
  <1>9. MarksSet(t, pc) /\ StartsSet(t, e)
    BY <1>1, <1>2, <1>3, <1>4, <1>5 DEF MarksSet, StartsSet, Runs, ProxyAdd, MarkedInUse
  <1>10. pc \in Pcs
    BY <1>5 DEF Pcs
  <1>11. waiters' = waiters /\ (e.op = "lock" => e.pc = "spin")
    BY <1>4 DEF ProxyAdd, mutexVars
  <1>12. CallsOn(t)
    BY <1>1, <1>2, <1>5, <1>6, <1>7, <1>8, <1>9, <1>10, <1>11, CallKind
  <1> QED BY <1>12 DEF Kind

LEMMA KindProxyAdded ==
    ASSUME BaseInv, NEW t \in Threads, ProxyAdded(t)
    PROVE  Kind(t)
  <1>1. t \in Threads /\ Busy(t) /\ Top(t).op = "proxy" /\ Top(t).pc = "added"
    BY LocksNamed DEF ProxyAdded, At
  <1>2. PICK e : e = Top(t)
    OBVIOUS
  <1>3. /\ e \in FrameType /\ e = stack[t][1] /\ Formed(t, e)
        /\ Len(stack[t]) > 1 => stack[t][2] \in FrameType /\ Under(e, stack[t][2])
        /\ e.op = "lock" => Len(stack[t]) > 1
    BY <1>1, <1>2, TopFrame DEF BaseInv
  <1>4. e.op = "proxy" /\ e.pc = "added"
    BY <1>1, <1>2
  <1>5. PICK g \in FrameType, pc \in {"send"} : Call(t, g, pc) /\ Is(g, "unlock", "waiters", "registry")
    BY <1>2, <1>3, <1>4, NewFrames, LocksNamed DEF ProxyAdded, Reached, Formed
  <1>6. CallRow(t, e, g, pc)
    BY <1>1, <1>3, <1>4, <1>5 DEF CallRow, ProxyCalls
  <1>7. OwnersKept
    BY <1>1, Unchanged DEF ProxyAdded
  <1>8. UsesKept(t, Top(t)) /\ RunsKept(t) /\ FlagsType
    BY <1>1, <1>2, <1>3, <1>4 DEF ProxyAdded, UsesKept, RunsKept, FlagsType, Runs, Quiet, BaseInv, UseInv, RunInv
  <1>9. MarksSet(t, pc) /\ StartsSet(t, e)
    BY <1>1, <1>2, <1>3, <1>4, <1>5 DEF MarksSet, StartsSet, Runs
  <1>10. pc \in Pcs
    BY <1>5 DEF Pcs
  <1>11. waiters' = waiters /\ (e.op = "lock" => e.pc = "spin")
    BY <1>4 DEF ProxyAdded, mutexVars
  <1>12. CallsOn(t)
    BY <1>1, <1>2, <1>5, <1>6, <1>7, <1>8, <1>9, <1>10, <1>11, CallKind
  <1> QED BY <1>12 DEF Kind

LEMMA KindProxySend ==
    ASSUME BaseInv, NEW t \in Threads, ProxySend(t)
    PROVE  Kind(t)
  <1>1. t \in Threads /\ Busy(t) /\ Top(t).op = "proxy" /\ Top(t).pc = "send"
    BY LocksNamed DEF ProxySend, At
  <1>2. PICK e : e = Top(t)
    OBVIOUS
  <1>3. /\ e \in FrameType /\ e = stack[t][1] /\ Formed(t, e)
        /\ Len(stack[t]) > 1 => stack[t][2] \in FrameType /\ Under(e, stack[t][2])
        /\ e.op = "lock" => Len(stack[t]) > 1
    BY <1>1, <1>2, TopFrame DEF BaseInv
  <1>4. e.op = "proxy" /\ e.pc = "send"
    BY <1>1, <1>2
  <1>5. PICK g \in FrameType, pc \in {"enqueue"} : Call(t, g, pc) /\ Is(g, "lock", "try", e.m)
    BY <1>2, <1>3, <1>4, NewFrames, LocksNamed DEF ProxySend, Reached, Formed
  <1>6. CallRow(t, e, g, pc)
    BY <1>1, <1>3, <1>4, <1>5 DEF CallRow, ProxyCalls
  <1>7. OwnersKept
    BY <1>1, Unchanged DEF ProxySend
  <1>8. UsesKept(t, Top(t)) /\ RunsKept(t) /\ FlagsType
    BY <1>1, Unchanged DEF ProxySend
  <1>9. MarksSet(t, pc) /\ StartsSet(t, e)
    BY <1>1, <1>2, <1>3, <1>4, <1>5 DEF MarksSet, StartsSet, Runs
  <1>10. pc \in Pcs
    BY <1>5 DEF Pcs
  <1>11. waiters' = waiters /\ (e.op = "lock" => e.pc = "spin")
    BY <1>4 DEF ProxySend, mutexVars
  <1>12. CallsOn(t)
    BY <1>1, <1>2, <1>5, <1>6, <1>7, <1>8, <1>9, <1>10, <1>11, CallKind
  <1> QED BY <1>12 DEF Kind

LEMMA KindProxyGrow ==
    ASSUME BaseInv, NEW t \in Threads, ProxyGrow(t)
    PROVE  Kind(t)
  <1>1. t \in Threads /\ Busy(t) /\ Top(t).op = "proxy" /\ Top(t).pc = "enqueue"
    BY LocksNamed DEF ProxyGrow, At
  <1>2. PICK e : e = Top(t)
    OBVIOUS
  <1>3. /\ e \in FrameType /\ e = stack[t][1] /\ Formed(t, e)
        /\ Len(stack[t]) > 1 => stack[t][2] \in FrameType /\ Under(e, stack[t][2])
        /\ e.op = "lock" => Len(stack[t]) > 1
    BY <1>1, <1>2, TopFrame DEF BaseInv
  <1>4. e.op = "proxy" /\ e.pc = "enqueue"
    BY <1>1, <1>2
  <1>5. PICK g \in FrameType, pc \in {"enqueued"} : Call(t, g, pc) /\ Is(g, "section", "enter", "allocator")
    BY <1>2, <1>3, <1>4, NewFrames, LocksNamed DEF ProxyGrow, Reached, Formed
  <1>6. CallRow(t, e, g, pc)
    BY <1>1, <1>3, <1>4, <1>5 DEF CallRow, ProxyCalls, ProxyGrow
  <1>7. OwnersKept
    BY <1>1, Unchanged DEF ProxyGrow
  <1>8. UsesKept(t, Top(t)) /\ RunsKept(t) /\ FlagsType
    BY <1>1, Unchanged DEF ProxyGrow
  <1>9. MarksSet(t, pc) /\ StartsSet(t, e)
    BY <1>1, <1>2, <1>3, <1>4, <1>5 DEF MarksSet, StartsSet, Runs
  <1>10. pc \in Pcs
    BY <1>5 DEF Pcs
  <1>11. waiters' = waiters /\ (e.op = "lock" => e.pc = "spin")
    BY <1>4 DEF ProxyGrow, mutexVars
  <1>12. CallsOn(t)
    BY <1>1, <1>2, <1>5, <1>6, <1>7, <1>8, <1>9, <1>10, <1>11, CallKind
  <1> QED BY <1>12 DEF Kind

LEMMA KindProxyEnqueue ==
    ASSUME BaseInv, NEW t \in Threads, ProxyEnqueue(t)
    PROVE  Kind(t)
  <1>1. t \in Threads /\ Busy(t) /\ Top(t).op = "proxy" /\ Top(t).pc \in {"enqueue", "enqueued"}
    BY LocksNamed DEF ProxyEnqueue, At
  <1>2. PICK e : e = Top(t)
    OBVIOUS
  <1>3. /\ e \in FrameType /\ e = stack[t][1] /\ Formed(t, e)
        /\ Len(stack[t]) > 1 => stack[t][2] \in FrameType /\ Under(e, stack[t][2])
        /\ e.op = "lock" => Len(stack[t]) > 1
    BY <1>1, <1>2, TopFrame DEF BaseInv
  <1>4. e.op = "proxy" /\ e.pc \in {"enqueue", "enqueued"}
    BY <1>1, <1>2
  <1>5. TailCall(t, UnlockFrame(e.m))
    BY <1>2 DEF ProxyEnqueue, Reached
  <1>6. TailRow(e, UnlockFrame(e.m))
    BY <1>4 DEF TailRow
  <1>7. OwnersKept
    BY <1>1, Unchanged DEF ProxyEnqueue
  <1>8. UsesKept(t, Top(t)) /\ RunsKept(t) /\ FlagsType
    BY <1>1, <1>2, <1>3, <1>4 DEF ProxyEnqueue, UsesKept, RunsKept, FlagsType, Runs, Quiet, BaseInv, UseInv, RunInv
  <1>9. waiters' = waiters
    BY DEF ProxyEnqueue, mutexVars
  <1>10. GoesOn(t)
    BY <1>1, <1>2, <1>5, <1>6, <1>7, <1>8, <1>9, TailKind
  <1> QED BY <1>10 DEF Kind

LEMMA KindMainYield ==
    ASSUME BaseInv, MainYield
    PROVE  Kind(Main)
  <1>1. Main \in Threads /\ Busy(Main) /\ Top(Main).op = "lock" /\ Top(Main).pc = "spin"
    BY LocksNamed DEF MainYield, At
  <1>2. PICK e : e = Top(Main)
    OBVIOUS
  <1>3. /\ e \in FrameType /\ e = stack[Main][1] /\ Formed(Main, e)
        /\ Len(stack[Main]) > 1 => stack[Main][2] \in FrameType /\ Under(e, stack[Main][2])
        /\ e.op = "lock" => Len(stack[Main]) > 1
    BY <1>1, <1>2, TopFrame DEF BaseInv
  <1>4. e.op = "lock" /\ e.pc = "spin"
    BY <1>1, <1>2
  <1>5. PICK g \in FrameType, pc \in {"check"} : Call(Main, g, pc) /\ Is(g, "execute", "enter", None)
    BY <1>2, <1>3, <1>4, NewFrames, LocksNamed DEF MainYield, Reached, Formed
  <1>6. CallRow(Main, e, g, pc)
    BY <1>1, <1>3, <1>4, <1>5 DEF CallRow, LockCalls
  <1>7. OwnersKept
    BY <1>1, Unchanged DEF MainYield
  <1>8. UsesKept(Main, Top(Main)) /\ RunsKept(Main) /\ FlagsType
    BY <1>1, Unchanged DEF MainYield
  <1>9. MarksSet(Main, pc) /\ StartsSet(Main, e)
    BY <1>1, <1>2, <1>3, <1>4, <1>5 DEF MarksSet, StartsSet, Runs
  <1>10. pc \in Pcs
    BY <1>5 DEF Pcs
  <1>11. waiters' = waiters /\ (e.op = "lock" => e.pc = "spin")
    BY <1>4 DEF MainYield, mutexVars
  <1>12. CallsOn(Main)
    BY <1>1, <1>2, <1>5, <1>6, <1>7, <1>8, <1>9, <1>10, <1>11, CallKind
  <1> QED BY <1>12 DEF Kind

LEMMA KindExecuteEnterStarts ==
    ASSUME BaseInv, ExecuteEnter, MayExecute
    PROVE  Kind(Main)
  <1>1. Main \in Threads /\ Busy(Main) /\ Top(Main).op = "execute" /\ Top(Main).pc = "enter"
    BY LocksNamed DEF ExecuteEnter, At
  <1>2. PICK e : e = Top(Main)
    OBVIOUS
  <1>3. /\ e \in FrameType /\ e = stack[Main][1] /\ Formed(Main, e)
        /\ Len(stack[Main]) > 1 => stack[Main][2] \in FrameType /\ Under(e, stack[Main][2])
        /\ e.op = "lock" => Len(stack[Main]) > 1
    BY <1>1, <1>2, TopFrame DEF BaseInv
  <1>4. e.op = "execute" /\ e.pc = "enter"
    BY <1>1, <1>2
  <1>5. PICK g \in FrameType, pc \in {"find"} : Call(Main, g, pc) /\ Is(g, "lock", "try", "registry")
    BY <1>2, <1>3, <1>4, NewFrames, LocksNamed DEF ExecuteEnter, Reached, Formed
  <1>6. CallRow(Main, e, g, pc)
    BY <1>1, <1>3, <1>4, <1>5 DEF CallRow, ExecuteCalls, MayStart, MayExecute
  <1>7. OwnersKept
    BY <1>1, Unchanged DEF ExecuteEnter
  <1>8. UsesKept(Main, Top(Main)) /\ RunsKept(Main) /\ FlagsType
    BY <1>1, <1>2, <1>3, <1>4 DEF ExecuteEnter, UsesKept, RunsKept, FlagsType, Runs, Quiet, BaseInv, UseInv, RunInv
  <1>9. MarksSet(Main, pc) /\ StartsSet(Main, e)
    BY <1>1, <1>2, <1>3, <1>4, <1>5 DEF MarksSet, StartsSet, Runs
  <1>10. pc \in Pcs
    BY <1>5 DEF Pcs
  <1>11. waiters' = waiters /\ (e.op = "lock" => e.pc = "spin")
    BY <1>4 DEF ExecuteEnter, mutexVars
  <1>12. CallsOn(Main)
    BY <1>1, <1>2, <1>5, <1>6, <1>7, <1>8, <1>9, <1>10, <1>11, CallKind
  <1> QED BY <1>12 DEF Kind

LEMMA KindExecuteEnterRefused ==
    ASSUME BaseInv, ExecuteEnter, ~MayExecute
    PROVE  Kind(Main)
  <1>1. Main \in Threads /\ Busy(Main) /\ Top(Main).op = "execute" /\ Top(Main).pc = "enter"
    BY LocksNamed DEF ExecuteEnter, At
  <1>2. PICK e : e = Top(Main)
    OBVIOUS
  <1>3. /\ e \in FrameType /\ e = stack[Main][1] /\ Formed(Main, e)
        /\ Len(stack[Main]) > 1 => stack[Main][2] \in FrameType /\ Under(e, stack[Main][2])
        /\ e.op = "lock" => Len(stack[Main]) > 1
    BY <1>1, <1>2, TopFrame DEF BaseInv
  <1>4. e.op = "execute" /\ e.pc = "enter"
    BY <1>1, <1>2
  <1>5. Return(Main)
    BY DEF ExecuteEnter
  <1>6. NoMutex(e) /\ e.op # "lock"
    BY <1>4 DEF NoMutex, Holding, Kept
  <1>7. OwnersKept
    BY <1>1, Unchanged DEF ExecuteEnter
  <1>8. UsesKept(Main, Top(Main)) /\ (RunsKept(Main) \/ (Main = Main /\ Runs(Top(Main)))) /\ FlagsType
    BY <1>1, <1>2, <1>3, <1>4 DEF ExecuteEnter, UsesKept, RunsKept, FlagsType, Runs, Quiet, BaseInv, UseInv, RunInv
  <1>9. waiters' = waiters
    BY DEF ExecuteEnter, mutexVars
  <1>10. Top(Main).op = "unlock" => UnlockWake(Main)
    BY <1>2, <1>4
  <1>11. ReturnsOn(Main)
    BY <1>1, <1>2, <1>5, <1>6, <1>7, <1>8, <1>9, <1>10, ReturnKind
  <1> QED BY <1>11 DEF Kind

LEMMA KindExecuteFind ==
    ASSUME BaseInv, ExecuteFind
    PROVE  Kind(Main)
  <1>1. Main \in Threads /\ Busy(Main) /\ Top(Main).op = "execute" /\ Top(Main).pc = "find"
    BY LocksNamed DEF ExecuteFind, At
  <1>2. PICK e : e = Top(Main)
    OBVIOUS
  <1>3. /\ e \in FrameType /\ e = stack[Main][1] /\ Formed(Main, e)
        /\ Len(stack[Main]) > 1 => stack[Main][2] \in FrameType /\ Under(e, stack[Main][2])
        /\ e.op = "lock" => Len(stack[Main]) > 1
    BY <1>1, <1>2, TopFrame DEF BaseInv
  <1>4. e.op = "execute" /\ e.pc = "find"
    BY <1>1, <1>2
  <1>5. PICK g \in FrameType, pc \in {"found"} : Call(Main, g, pc) /\ Is(g, "unlock", "waiters", "registry")
    BY <1>2, <1>3, <1>4, NewFrames, LocksNamed DEF ExecuteFind, Reached, Formed
  <1>6. CallRow(Main, e, g, pc)
    BY <1>1, <1>3, <1>4, <1>5 DEF CallRow, ExecuteCalls, MayStart
  <1>7. OwnersKept
    BY <1>1, Unchanged DEF ExecuteFind
  <1>8. UsesKept(Main, Top(Main)) /\ RunsKept(Main) /\ FlagsType
    BY <1>1, Unchanged DEF ExecuteFind
  <1>9. MarksSet(Main, pc) /\ StartsSet(Main, e)
    BY <1>1, <1>2, <1>3, <1>4, <1>5 DEF MarksSet, StartsSet, Runs
  <1>10. pc \in Pcs
    BY <1>5 DEF Pcs
  <1>11. waiters' = waiters /\ (e.op = "lock" => e.pc = "spin")
    BY <1>4 DEF ExecuteFind, mutexVars
  <1>12. CallsOn(Main)
    BY <1>1, <1>2, <1>5, <1>6, <1>7, <1>8, <1>9, <1>10, <1>11, CallKind
  <1> QED BY <1>12 DEF Kind

LEMMA KindExecuteFoundRuns ==
    ASSUME BaseInv, ExecuteFound, MayRun
    PROVE  Kind(Main)
  <1>1. Main \in Threads /\ Busy(Main) /\ Top(Main).op = "execute" /\ Top(Main).pc = "found"
    BY LocksNamed DEF ExecuteFound, At
  <1>2. PICK e : e = Top(Main)
    OBVIOUS
  <1>3. /\ e \in FrameType /\ e = stack[Main][1] /\ Formed(Main, e)
        /\ Len(stack[Main]) > 1 => stack[Main][2] \in FrameType /\ Under(e, stack[Main][2])
        /\ e.op = "lock" => Len(stack[Main]) > 1
    BY <1>1, <1>2, TopFrame DEF BaseInv
  <1>4. e.op = "execute" /\ e.pc = "found"
    BY <1>1, <1>2
  <1>5. PICK g \in FrameType, pc \in {"done"} : Call(Main, g, pc) /\ Is(g, "run", "enter", Main)
    BY <1>2, <1>3, <1>4, NewFrames, LocksNamed DEF ExecuteFound, Reached, Formed
  <1>6. CallRow(Main, e, g, pc)
    BY <1>1, <1>3, <1>4, <1>5 DEF CallRow, ExecuteCalls, MayStart, MayRun
  <1>7. OwnersKept
    BY <1>1, Unchanged DEF ExecuteFound
  <1>8. UsesKept(Main, Top(Main)) /\ RunsKept(Main) /\ FlagsType
    BY <1>1, Unchanged DEF ExecuteFound
  <1>9. MarksSet(Main, pc) /\ StartsSet(Main, e)
    BY <1>1, <1>2, <1>3, <1>4, <1>5 DEF MarksSet, StartsSet, Runs
  <1>10. pc \in Pcs
    BY <1>5 DEF Pcs
  <1>11. waiters' = waiters /\ (e.op = "lock" => e.pc = "spin")
    BY <1>4 DEF ExecuteFound, mutexVars
  <1>12. CallsOn(Main)
    BY <1>1, <1>2, <1>5, <1>6, <1>7, <1>8, <1>9, <1>10, <1>11, CallKind
  <1> QED BY <1>12 DEF Kind

LEMMA KindExecuteFoundNothing ==
    ASSUME BaseInv, ExecuteFound, ~MayRun
    PROVE  Kind(Main)
  <1>1. Main \in Threads /\ Busy(Main) /\ Top(Main).op = "execute" /\ Top(Main).pc = "found"
    BY LocksNamed DEF ExecuteFound, At
  <1>2. PICK e : e = Top(Main)
    OBVIOUS
  <1>3. /\ e \in FrameType /\ e = stack[Main][1] /\ Formed(Main, e)
        /\ Len(stack[Main]) > 1 => stack[Main][2] \in FrameType /\ Under(e, stack[Main][2])
        /\ e.op = "lock" => Len(stack[Main]) > 1
    BY <1>1, <1>2, TopFrame DEF BaseInv
  <1>4. e.op = "execute" /\ e.pc = "found"
    BY <1>1, <1>2
  <1>5. PICK pc \in {"done"}, v \in {0} : Goto(Main, pc, v)
    BY <1>2, <1>3, <1>4 DEF ExecuteFound
  <1>6. GotoRow(Main, e, pc, v)
    BY <1>3, <1>4, <1>5 DEF GotoRow, Formed, TimedOut, Unlocked
  <1>7. OwnersKept
    BY <1>1, Unchanged DEF ExecuteFound
  <1>8. UsesKept(Main, Top(Main)) /\ RunsKept(Main) /\ FlagsType
    BY <1>1, Unchanged DEF ExecuteFound
  <1>9. MarksSet(Main, pc) /\ StartsSet(Main, e)
    BY <1>1, <1>2, <1>3, <1>4, <1>5 DEF MarksSet, StartsSet, Runs
  <1>10. pc \in Pcs /\ v \in 0 .. 3
    BY <1>5 DEF Pcs
  <1>11. CountsKept(Main, e, pc) /\ ReadsOnce(Main, pc)
    BY <1>4, <1>5 DEF ExecuteFound, mutexVars, CountsKept, ReadsOnce, CountedPcs
  <1>12. GoesOn(Main)
    BY <1>1, <1>2, <1>5, <1>6, <1>7, <1>8, <1>9, <1>10, <1>11, GotoKind
  <1> QED BY <1>12 DEF Kind

LEMMA KindExecuteDone ==
    ASSUME BaseInv, ExecuteDone
    PROVE  Kind(Main)
  <1>1. Main \in Threads /\ Busy(Main) /\ Top(Main).op = "execute" /\ Top(Main).pc = "done"
    BY LocksNamed DEF ExecuteDone, At
  <1>2. PICK e : e = Top(Main)
    OBVIOUS
  <1>3. /\ e \in FrameType /\ e = stack[Main][1] /\ Formed(Main, e)
        /\ Len(stack[Main]) > 1 => stack[Main][2] \in FrameType /\ Under(e, stack[Main][2])
        /\ e.op = "lock" => Len(stack[Main]) > 1
    BY <1>1, <1>2, TopFrame DEF BaseInv
  <1>4. e.op = "execute" /\ e.pc = "done"
    BY <1>1, <1>2
  <1>5. Return(Main)
    BY DEF ExecuteDone
  <1>6. NoMutex(e) /\ e.op # "lock"
    BY <1>4 DEF NoMutex, Holding, Kept
  <1>7. OwnersKept
    BY <1>1, Unchanged DEF ExecuteDone
  <1>8. UsesKept(Main, Top(Main)) /\ (RunsKept(Main) \/ (Main = Main /\ Runs(Top(Main)))) /\ FlagsType
    BY <1>1, <1>2, <1>3, <1>4 DEF ExecuteDone, UsesKept, RunsKept, FlagsType, Runs, Quiet, BaseInv, UseInv, RunInv
  <1>9. waiters' = waiters
    BY DEF ExecuteDone, mutexVars
  <1>10. Top(Main).op = "unlock" => UnlockWake(Main)
    BY <1>2, <1>4
  <1>11. ReturnsOn(Main)
    BY <1>1, <1>2, <1>5, <1>6, <1>7, <1>8, <1>9, <1>10, ReturnKind
  <1> QED BY <1>11 DEF Kind

LEMMA KindRunEnter ==
    ASSUME BaseInv, RunEnter
    PROVE  Kind(Main)
  <1>1. Main \in Threads /\ Busy(Main) /\ Top(Main).op = "run" /\ Top(Main).pc = "enter"
    BY LocksNamed DEF RunEnter, At
  <1>2. PICK e : e = Top(Main)
    OBVIOUS
  <1>3. /\ e \in FrameType /\ e = stack[Main][1] /\ Formed(Main, e)
        /\ Len(stack[Main]) > 1 => stack[Main][2] \in FrameType /\ Under(e, stack[Main][2])
        /\ e.op = "lock" => Len(stack[Main]) > 1
    BY <1>1, <1>2, TopFrame DEF BaseInv
  <1>4. e.op = "run" /\ e.pc = "enter"
    BY <1>1, <1>2
  <1>5. PICK g \in FrameType, pc \in {"next"} : Call(Main, g, pc) /\ Is(g, "lock", "try", Main)
    BY <1>2, <1>3, <1>4, NewFrames, LocksNamed DEF RunEnter, Reached, Formed
  <1>6. CallRow(Main, e, g, pc)
    BY <1>1, <1>3, <1>4, <1>5 DEF CallRow, RunCalls
  <1>7. OwnersKept
    BY <1>1, Unchanged DEF RunEnter
  <1>8. UsesKept(Main, Top(Main)) /\ RunsKept(Main) /\ FlagsType
    BY <1>1, <1>2, <1>3, <1>4 DEF RunEnter, UsesKept, RunsKept, FlagsType, Runs, Quiet, BaseInv, UseInv, RunInv
  <1>9. MarksSet(Main, pc) /\ StartsSet(Main, e)
    BY <1>1, <1>2, <1>3, <1>4, <1>5 DEF MarksSet, StartsSet, Runs, RunEnter
  <1>10. pc \in Pcs
    BY <1>5 DEF Pcs
  <1>11. waiters' = waiters /\ (e.op = "lock" => e.pc = "spin")
    BY <1>4 DEF RunEnter, mutexVars
  <1>12. CallsOn(Main)
    BY <1>1, <1>2, <1>5, <1>6, <1>7, <1>8, <1>9, <1>10, <1>11, CallKind
  <1> QED BY <1>12 DEF Kind

LEMMA KindRunNext ==
    ASSUME BaseInv, RunNext
    PROVE  Kind(Main)
  <1>1. Main \in Threads /\ Busy(Main) /\ Top(Main).op = "run" /\ Top(Main).pc = "next"
    BY LocksNamed DEF RunNext, At
  <1>2. PICK e : e = Top(Main)
    OBVIOUS
  <1>3. /\ e \in FrameType /\ e = stack[Main][1] /\ Formed(Main, e)
        /\ Len(stack[Main]) > 1 => stack[Main][2] \in FrameType /\ Under(e, stack[Main][2])
        /\ e.op = "lock" => Len(stack[Main]) > 1
    BY <1>1, <1>2, TopFrame DEF BaseInv
  <1>4. e.op = "run" /\ e.pc = "next"
    BY <1>1, <1>2
  <1>5. PICK g \in FrameType, pc \in {"call", "end"} : Call(Main, g, pc) /\ Is(g, "unlock", "waiters", Main)
    BY <1>2, <1>3, <1>4, NewFrames, LocksNamed DEF RunNext, Reached, Formed
  <1>6. CallRow(Main, e, g, pc)
    BY <1>1, <1>3, <1>4, <1>5 DEF CallRow, RunCalls
  <1>7. OwnersKept
    BY <1>1, Unchanged DEF RunNext
  <1>8. UsesKept(Main, Top(Main)) /\ RunsKept(Main) /\ FlagsType
    BY <1>1, <1>2, <1>3, <1>4 DEF RunNext, UsesKept, RunsKept, FlagsType, Runs, Quiet, BaseInv, UseInv, RunInv
  <1>9. MarksSet(Main, pc) /\ StartsSet(Main, e)
    <2>1. processing = TRUE
      BY <1>1, <1>2, <1>4, Processing DEF Runs
    <2>2. processing' = processing
      BY DEF RunNext, queueVars
    <2> QED BY <1>5, <2>1, <2>2 DEF MarksSet, StartsSet
  <1>10. pc \in Pcs
    BY <1>5 DEF Pcs
  <1>11. waiters' = waiters /\ (e.op = "lock" => e.pc = "spin")
    BY <1>4 DEF RunNext, mutexVars
  <1>12. CallsOn(Main)
    BY <1>1, <1>2, <1>5, <1>6, <1>7, <1>8, <1>9, <1>10, <1>11, CallKind
  <1> QED BY <1>12 DEF Kind

LEMMA KindRunCallNothing ==
    ASSUME BaseInv, RunCall, Goto(Main, "again", 0)
    PROVE  Kind(Main)
  <1>1. Main \in Threads /\ Busy(Main) /\ Top(Main).op = "run" /\ Top(Main).pc = "call"
    BY LocksNamed DEF RunCall, At
  <1>2. PICK e : e = Top(Main)
    OBVIOUS
  <1>3. /\ e \in FrameType /\ e = stack[Main][1] /\ Formed(Main, e)
        /\ Len(stack[Main]) > 1 => stack[Main][2] \in FrameType /\ Under(e, stack[Main][2])
        /\ e.op = "lock" => Len(stack[Main]) > 1
    BY <1>1, <1>2, TopFrame DEF BaseInv
  <1>4. e.op = "run" /\ e.pc = "call"
    BY <1>1, <1>2
  <1>5. PICK pc \in {"again"}, v \in {0} : Goto(Main, pc, v)
    BY <1>2, <1>3, <1>4 DEF RunCall
  <1>6. GotoRow(Main, e, pc, v)
    BY <1>3, <1>4, <1>5 DEF GotoRow, Formed, TimedOut, Unlocked
  <1>7. OwnersKept
    BY <1>1, Unchanged DEF RunCall
  <1>8. UsesKept(Main, Top(Main)) /\ RunsKept(Main) /\ FlagsType
    BY <1>1, Unchanged DEF RunCall
  <1>9. MarksSet(Main, pc) /\ StartsSet(Main, e)
    <2>1. processing = TRUE
      BY <1>1, <1>2, <1>4, Processing DEF Runs
    <2>2. processing' = processing
      BY DEF RunCall, queueVars
    <2> QED BY <1>5, <2>1, <2>2 DEF MarksSet, StartsSet
  <1>10. pc \in Pcs /\ v \in 0 .. 3
    BY <1>5 DEF Pcs
  <1>11. CountsKept(Main, e, pc) /\ ReadsOnce(Main, pc)
    BY <1>4, <1>5 DEF RunCall, mutexVars, CountsKept, ReadsOnce, CountedPcs
  <1>12. GoesOn(Main)
    BY <1>1, <1>2, <1>5, <1>6, <1>7, <1>8, <1>9, <1>10, <1>11, GotoKind
  <1> QED BY <1>12 DEF Kind

LEMMA KindRunCallMore ==
    ASSUME BaseInv, RunCall, ~Goto(Main, "again", 0)
    PROVE  Kind(Main)
  <1>1. Main \in Threads /\ Busy(Main) /\ Top(Main).op = "run" /\ Top(Main).pc = "call"
    BY LocksNamed DEF RunCall, At
  <1>2. PICK e : e = Top(Main)
    OBVIOUS
  <1>3. /\ e \in FrameType /\ e = stack[Main][1] /\ Formed(Main, e)
        /\ Len(stack[Main]) > 1 => stack[Main][2] \in FrameType /\ Under(e, stack[Main][2])
        /\ e.op = "lock" => Len(stack[Main]) > 1
    BY <1>1, <1>2, TopFrame DEF BaseInv
  <1>4. e.op = "run" /\ e.pc = "call"
    BY <1>1, <1>2
  <1>5. PICK g \in FrameType, pc \in {"again"} : Call(Main, g, pc) /\ (Is(g, "section", "enter", "allocator") \/ (g.m \in Threads /\ Is(g, "proxy", "enter", g.m)))
    BY <1>2, <1>3, <1>4, NewFrames, LocksNamed DEF RunCall, Reached, Formed, Is
  <1>6. CallRow(Main, e, g, pc)
    BY <1>1, <1>3, <1>4, <1>5 DEF CallRow, RunCalls
  <1>7. OwnersKept
    BY <1>1, Unchanged DEF RunCall
  <1>8. UsesKept(Main, Top(Main)) /\ RunsKept(Main) /\ FlagsType
    BY <1>1, Unchanged DEF RunCall
  <1>9. MarksSet(Main, pc) /\ StartsSet(Main, e)
    <2>1. processing = TRUE
      BY <1>1, <1>2, <1>4, Processing DEF Runs
    <2>2. processing' = processing
      BY DEF RunCall, queueVars
    <2> QED BY <1>5, <2>1, <2>2 DEF MarksSet, StartsSet
  <1>10. pc \in Pcs
    BY <1>5 DEF Pcs
  <1>11. waiters' = waiters /\ (e.op = "lock" => e.pc = "spin")
    BY <1>4 DEF RunCall, mutexVars
  <1>12. CallsOn(Main)
    BY <1>1, <1>2, <1>5, <1>6, <1>7, <1>8, <1>9, <1>10, <1>11, CallKind
  <1> QED BY <1>12 DEF Kind

LEMMA KindRunAgain ==
    ASSUME BaseInv, RunAgain
    PROVE  Kind(Main)
  <1>1. Main \in Threads /\ Busy(Main) /\ Top(Main).op = "run" /\ Top(Main).pc = "again"
    BY LocksNamed DEF RunAgain, At
  <1>2. PICK e : e = Top(Main)
    OBVIOUS
  <1>3. /\ e \in FrameType /\ e = stack[Main][1] /\ Formed(Main, e)
        /\ Len(stack[Main]) > 1 => stack[Main][2] \in FrameType /\ Under(e, stack[Main][2])
        /\ e.op = "lock" => Len(stack[Main]) > 1
    BY <1>1, <1>2, TopFrame DEF BaseInv
  <1>4. e.op = "run" /\ e.pc = "again"
    BY <1>1, <1>2
  <1>5. PICK g \in FrameType, pc \in {"next"} : Call(Main, g, pc) /\ Is(g, "lock", "try", Main)
    BY <1>2, <1>3, <1>4, NewFrames, LocksNamed DEF RunAgain, Reached, Formed
  <1>6. CallRow(Main, e, g, pc)
    BY <1>1, <1>3, <1>4, <1>5 DEF CallRow, RunCalls
  <1>7. OwnersKept
    BY <1>1, Unchanged DEF RunAgain
  <1>8. UsesKept(Main, Top(Main)) /\ RunsKept(Main) /\ FlagsType
    BY <1>1, Unchanged DEF RunAgain
  <1>9. MarksSet(Main, pc) /\ StartsSet(Main, e)
    <2>1. processing = TRUE
      BY <1>1, <1>2, <1>4, Processing DEF Runs
    <2>2. processing' = processing
      BY DEF RunAgain, queueVars
    <2> QED BY <1>5, <2>1, <2>2 DEF MarksSet, StartsSet
  <1>10. pc \in Pcs
    BY <1>5 DEF Pcs
  <1>11. waiters' = waiters /\ (e.op = "lock" => e.pc = "spin")
    BY <1>4 DEF RunAgain, mutexVars
  <1>12. CallsOn(Main)
    BY <1>1, <1>2, <1>5, <1>6, <1>7, <1>8, <1>9, <1>10, <1>11, CallKind
  <1> QED BY <1>12 DEF Kind

LEMMA KindRunEnd ==
    ASSUME BaseInv, RunEnd
    PROVE  Kind(Main)
  <1>1. Main \in Threads /\ Busy(Main) /\ Top(Main).op = "run" /\ Top(Main).pc = "end"
    BY LocksNamed DEF RunEnd, At
  <1>2. PICK e : e = Top(Main)
    OBVIOUS
  <1>3. /\ e \in FrameType /\ e = stack[Main][1] /\ Formed(Main, e)
        /\ Len(stack[Main]) > 1 => stack[Main][2] \in FrameType /\ Under(e, stack[Main][2])
        /\ e.op = "lock" => Len(stack[Main]) > 1
    BY <1>1, <1>2, TopFrame DEF BaseInv
  <1>4. e.op = "run" /\ e.pc = "end"
    BY <1>1, <1>2
  <1>5. Return(Main)
    BY DEF RunEnd
  <1>6. NoMutex(e) /\ e.op # "lock"
    BY <1>4 DEF NoMutex, Holding, Kept
  <1>7. OwnersKept
    BY <1>1, Unchanged DEF RunEnd
  <1>8. UsesKept(Main, Top(Main)) /\ (RunsKept(Main) \/ (Main = Main /\ Runs(Top(Main)))) /\ FlagsType
    BY <1>1, <1>2, <1>3, <1>4 DEF RunEnd, UsesKept, RunsKept, FlagsType, Runs, Quiet, BaseInv, UseInv, RunInv
  <1>9. waiters' = waiters
    BY DEF RunEnd, mutexVars
  <1>10. Top(Main).op = "unlock" => UnlockWake(Main)
    BY <1>2, <1>4
  <1>11. ReturnsOn(Main)
    BY <1>1, <1>2, <1>5, <1>6, <1>7, <1>8, <1>9, <1>10, ReturnKind
  <1> QED BY <1>11 DEF Kind

LEMMA StepKind ==
    ASSUME BaseInv, NEW t \in Threads, Step(t)
    PROVE  Kind(t)
  <1>1. CASE LockTry(t)
    BY <1>1, KindLockTryBusy DEF Kind, Locking
  <1>2. CASE LockRead(t)
    BY <1>2, KindLockRead
  <1>3. CASE LockInc(t)
    BY <1>3, KindLockInc
  <1>4. CASE LockMark(t)
    BY <1>4, KindLockMark
  <1>5. CASE LockDec(t)
    BY <1>5, KindLockDecAgain DEF Kind, GivingUp
  <1>6. CASE WorkerWait(t)
    BY <1>6, KindWorkerWait
  <1>7. CASE WorkerWoken(t)
    BY <1>7, KindWorkerWoken
  <1>8. CASE UnlockWaiters(t)
    BY <1>8, KindUnlockWaiters
  <1>9. CASE UnlockSwap(t)
    BY <1>9 DEF Kind
  <1>10. CASE UnlockWake(t)
    BY <1>10, KindUnlockWake
  <1>11. CASE SectionEnter(t)
    BY <1>11, KindSectionEnter
  <1>12. CASE SectionLeave(t)
    BY <1>12, KindSectionLeave
  <1>13. CASE ProxyEnter(t)
    BY <1>13, KindProxyEnter
  <1>14. CASE ProxyAdd(t)
    BY <1>14, KindProxyAddFound, KindProxyAddNew
  <1>15. CASE ProxyAdded(t)
    BY <1>15, KindProxyAdded
  <1>16. CASE ProxySend(t)
    BY <1>16, KindProxySend
  <1>17. CASE ProxyGrow(t)
    BY <1>17, KindProxyGrow
  <1>18. CASE ProxyEnqueue(t)
    BY <1>18, KindProxyEnqueue
  <1> QED BY <1>1, <1>2, <1>3, <1>4, <1>5, <1>6, <1>7, <1>8, <1>9, <1>10, <1>11, <1>12, <1>13, <1>14, <1>15, <1>16, <1>17, <1>18 DEF Step

LEMMA MainStepKind ==
    ASSUME BaseInv, MainStep \/ MainTimeout
    PROVE  Kind(Main)
  <1>1. CASE MainRegister
    BY <1>1, KindMainRegister
  <1>2. CASE MainYield
    BY <1>2, KindMainYield
  <1>3. CASE MainWoken
    BY <1>3, KindMainWoken
  <1>4. CASE MainCheck
    BY <1>4, KindMainCheck
  <1>5. CASE ExecuteEnter
    BY <1>5, KindExecuteEnterStarts, KindExecuteEnterRefused
  <1>6. CASE ExecuteFind
    BY <1>6, KindExecuteFind
  <1>7. CASE ExecuteFound
    BY <1>7, KindExecuteFoundRuns, KindExecuteFoundNothing
  <1>8. CASE ExecuteDone
    BY <1>8, KindExecuteDone
  <1>9. CASE RunEnter
    BY <1>9, KindRunEnter
  <1>10. CASE RunNext
    BY <1>10, KindRunNext
  <1>11. CASE RunCall
    BY <1>11, KindRunCallNothing, KindRunCallMore
  <1>12. CASE RunAgain
    BY <1>12, KindRunAgain
  <1>13. CASE RunEnd
    BY <1>13, KindRunEnd
  <1>14. CASE MainTimeout
    BY <1>14, KindMainTimeout
  <1> QED BY <1>1, <1>2, <1>3, <1>4, <1>5, <1>6, <1>7, <1>8, <1>9, <1>10, <1>11, <1>12, <1>13, <1>14 DEF MainStep

-----------------------------------------------------------------------------
(* The steps that lock, unlock and give up a mutex. *)

LEMMA LockingStack ==
    ASSUME BaseInv, NEW t \in Threads, Locking(t)
    PROVE  /\ Pops(stack[t], stack'[t]) /\ Alone(t)
           /\ Top(t).op = "lock" /\ Reached(t) \in Locks /\ Top(t).v # TimedOut
           /\ Top(t) = stack[t][1] /\ stack[t] \in Seq(FrameType)
           /\ Len(stack[t]) > 1 /\ Under(Top(t), stack[t][2])
           /\ word' = [word EXCEPT ![Reached(t)] = Locked]
           /\ owner' = [owner EXCEPT ![Reached(t)] = t] /\ owner[Reached(t)] = None
  <1>1. Busy(t) /\ At(t, "lock", "try") /\ word[Reached(t)] = Unlocked
    BY DEF Locking, LockTry, At
  <1>2. /\ Top(t) \in FrameType /\ Top(t) = stack[t][1] /\ Formed(t, Top(t))
        /\ stack[t] \in Seq(FrameType) /\ Len(stack[t]) > 1 /\ Under(Top(t), stack[t][2])
    BY <1>1, TopFrame DEF BaseInv, At
  <1>3. Reached(t) \in Locks /\ Top(t).v # TimedOut
    BY <1>1, <1>2 DEF Formed, At, Reached
  <1>4. Pops(stack[t], stack'[t]) /\ Alone(t)
    BY <1>1, Returned DEF Locking, LockTry, BaseInv, ShapeInv
  <1>5. owner[Reached(t)] = None
    BY <1>1, <1>3 DEF BaseInv, WordInv
  <1> QED BY <1>1, <1>2, <1>3, <1>4, <1>5 DEF At, Locking, LockTry

LEMMA UnlockingStack ==
    ASSUME BaseInv, NEW t \in Threads, UnlockSwap(t)
    PROVE  /\ \/ Pops(stack[t], stack'[t]) /\ ~MustWake(t)
              \/ \E f \in FrameType : /\ Later(Top(t), f, "wake", 0) /\ Fits(t, stack[t], f)
                                      /\ Replaces(stack[t], stack'[t], f)
           /\ Alone(t)
           /\ Top(t).op = "unlock" /\ Top(t).pc = "swap" /\ Reached(t) \in Locks
           /\ Top(t) = stack[t][1] /\ stack[t] \in Seq(FrameType)
           /\ Len(stack[t]) > 1 => Under(Top(t), stack[t][2])
           /\ word' = [word EXCEPT ![Reached(t)] = Unlocked]
           /\ owner' = [owner EXCEPT ![Reached(t)] = None]
           /\ owner[Reached(t)] = t /\ word[Reached(t)] # Unlocked
  <1>1. Busy(t) /\ At(t, "unlock", "swap")
    BY DEF UnlockSwap, At
  <1>2. /\ Top(t) \in FrameType /\ Top(t) = stack[t][1] /\ Formed(t, Top(t))
        /\ stack[t] \in Seq(FrameType) /\ Len(stack[t]) \in Nat \ {0}
        /\ Len(stack[t]) > 1 => stack[t][2] \in FrameType /\ Under(Top(t), stack[t][2])
    BY <1>1, TopFrame DEF BaseInv, At
  <1>3. Top(t).op = "unlock" /\ Top(t).pc = "swap" /\ Reached(t) \in Locks
    BY <1>1, <1>2 DEF Formed, At, Reached
  <1>4. ASSUME Return(t) PROVE Pops(stack[t], stack'[t]) /\ Alone(t)
    BY <1>1, <1>4, Returned DEF BaseInv, ShapeInv
  <1>5. ASSUME Goto(t, "wake", 0)
        PROVE  /\ \E f \in FrameType : /\ Later(Top(t), f, "wake", 0) /\ Fits(t, stack[t], f)
                                        /\ Replaces(stack[t], stack'[t], f)
               /\ Alone(t)
    <2>1. "wake" \in Pcs /\ 0 \in 0 .. 3
      BY DEF Pcs
    <2>2. PICK f \in FrameType : /\ Later(Top(t), f, "wake", 0) /\ Replaces(stack[t], stack'[t], f)
                                 /\ Alone(t)
      BY <1>1, <1>5, <2>1, Went DEF BaseInv, ShapeInv
    <2>3. Fits(t, stack[t], f)
      <3>1. PICK e : e = Top(t)
        OBVIOUS
      <3>2. f.op = "unlock" /\ f.m = e.m /\ f.pc = "wake" /\ e.op = "unlock" /\ e.m \in Locks
        BY <1>3, <2>2, <3>1 DEF Later, Reached
      <3>3. \A x : Under(e, x) => Under(f, x)
        BY <3>2 DEF Under
      <3>4. Formed(t, f)
        BY <3>2 DEF Formed
      <3> QED BY <1>2, <3>1, <3>2, <3>3, <3>4 DEF Fits
    <2> QED BY <2>2, <2>3
  <1>6. HoldsAt(stack[t], 1, Reached(t)) /\ 1 \in 1 .. Len(stack[t])
    BY <1>2, <1>3 DEF HoldsAt, Holding, Reached
  <1>7. owner[Reached(t)] = t
    BY <1>3, <1>6 DEF Holds, BaseInv, OwnsInv
  <1>8. word[Reached(t)] # Unlocked
    BY <1>3, <1>7, ThreadsAssumption DEF BaseInv, WordInv
  <1>9. /\ word' = [word EXCEPT ![Reached(t)] = Unlocked]
        /\ owner' = [owner EXCEPT ![Reached(t)] = None]
        /\ Goto(t, "wake", 0) \/ (Return(t) /\ ~MustWake(t))
    BY DEF UnlockSwap
  <1> QED BY <1>2, <1>3, <1>4, <1>5, <1>7, <1>8, <1>9

LEMMA GivingUpStack ==
    ASSUME BaseInv, NEW t \in Threads, GivingUp(t)
    PROVE  /\ stack'[t] = <<>> /\ Alone(t) /\ UNCHANGED <<word, owner, queueVars, futex, asleep>>
           /\ stack[t] \in Seq(FrameType) /\ Len(stack[t]) = 2 /\ TimedLocks # {} /\ t = Main
           /\ stack[t][1] = Top(t) /\ Top(t).op = "lock" /\ Top(t).pc = "dec"
           /\ stack[t][2].op = "timedsection"
           /\ waiters' = [waiters EXCEPT ![Reached(t)] = @ - 1] /\ Reached(t) \in Locks
  <1>1. Busy(t) /\ At(t, "lock", "dec") /\ Top(t).v = TimedOut
    BY DEF GivingUp, LockDec, At
  <1>2. /\ Top(t) \in FrameType /\ Top(t) = stack[t][1] /\ Formed(t, Top(t))
        /\ stack[t] \in Seq(FrameType) /\ Len(stack[t]) \in Nat /\ Len(stack[t]) > 1
        /\ Under(Top(t), stack[t][2])
    BY <1>1, TopFrame DEF BaseInv, At
  <1>3. stack[t][2].op = "timedsection" /\ Reached(t) \in Locks
    BY <1>1, <1>2 DEF Under, Formed, At, Reached
  <1>4. 2 \in 1 .. Len(stack[t]) /\ (Len(stack[t]) # 2 => 2 < Len(stack[t]))
    <2>1. \A k \in Nat : k > 1 => 2 \in 1 .. k /\ (k # 2 => 2 < k)
      OBVIOUS
    <2> QED BY <1>2, <2>1
  <1>5. Formed(t, stack[t][2]) /\ (2 < Len(stack[t]) => Under(stack[t][2], stack[t][2 + 1]))
    BY <1>4 DEF BaseInv, ShapeInv, Shape
  <1>6. TimedLocks # {} /\ t = Main
    BY <1>3, <1>5 DEF Formed
  <1>7. Len(stack[t]) = 2
    BY <1>3, <1>4, <1>5 DEF Under
  <1>8. /\ Tail(Tail(stack[t])) = <<>> /\ Tail(Tail(stack[t])) \in Seq(FrameType)
    <2>1. Tail(stack[t]) \in Seq(FrameType) /\ Len(Tail(stack[t])) = 1 /\ Tail(stack[t]) # <<>>
      BY <1>2, <1>7, Popped
    <2>2. Tail(Tail(stack[t])) \in Seq(FrameType) /\ (Tail(Tail(stack[t])) = <<>> <=> Len(Tail(stack[t])) = 1)
      BY <2>1, Popped
    <2> QED BY <2>1, <2>2
  <1>9. stack' = [stack EXCEPT ![t] = Tail(Tail(stack[t]))]
    BY <1>1 DEF GivingUp, LockDec
  <1>10. stack'[t] = <<>> /\ Alone(t)
    BY <1>8, <1>9 DEF Alone, BaseInv, ShapeInv, StackType
  <1> QED
    BY <1>1, <1>2, <1>3, <1>6, <1>7, <1>10 DEF GivingUp, LockDec, At

(* What a function may be called by tells what its caller holds. *)
LEMMA CallerHolds ==
    ASSUME NEW e, NEW x, Under(e, x), NEW m
    PROVE  /\ e.op # "lock" => (Holding(x, m) <=> Kept(x, m))
           /\ e.op = "lock" /\ e.v # TimedOut => ~Kept(x, m) /\ (Holding(x, m) <=> m = e.m)
BY DEF Under, Holding, Kept, Allocates

-----------------------------------------------------------------------------
(* A step of a thread inside a function keeps the invariant.               *)

LEMMA ShapeStep ==
    ASSUME BaseInv, NEW t \in Threads, Kind(t)
    PROVE  ShapeInv' /\ Alone(t)
  <1>1. Shape(t, stack[t]) /\ stack[t] \in Seq(FrameType)
    BY DEF BaseInv, ShapeInv, StackType
  <1>2. Alone(t) /\ Shape(t, stack'[t])
    <2>1. CASE GoesOn(t)
      BY <1>1, <2>1, ShapeReplaces DEF GoesOn
    <2>2. CASE CallsOn(t)
      BY <1>1, <2>2, ShapePushes DEF CallsOn
    <2>3. CASE ReturnsOn(t)
      BY <1>1, <2>3, ShapePops DEF ReturnsOn
    <2>4. CASE Locking(t)
      BY <1>1, <2>4, LockingStack, ShapePops
    <2>5. CASE UnlockSwap(t)
      <3>1. Alone(t) /\ (\/ Pops(stack[t], stack'[t])
                         \/ \E f \in FrameType : Fits(t, stack[t], f) /\ Replaces(stack[t], stack'[t], f))
        BY <2>5, UnlockingStack
      <3> QED BY <1>1, <3>1, ShapePops, ShapeReplaces
    <2>6. CASE GivingUp(t)
      <3>1. Alone(t) /\ stack'[t] = <<>>
        BY <2>6, GivingUpStack
      <3> QED BY <3>1 DEF Shape
    <2> QED BY <2>1, <2>2, <2>3, <2>4, <2>5, <2>6 DEF Kind
  <1>3. \A u \in Threads : Shape(u, stack'[u])
    <2> TAKE u \in Threads
    <2>1. CASE u = t
      BY <1>2, <2>1
    <2>2. CASE u # t
      BY <1>2, <2>2 DEF Alone, BaseInv, ShapeInv
    <2> QED BY <2>1, <2>2
  <1> QED BY <1>2, <1>3 DEF ShapeInv, StackType, Alone

(* Who owns what, when no mutex changes hands. *)
LEMMA OwnersKeptStep ==
    ASSUME BaseInv, NEW t \in Threads, Alone(t), OwnersKept,
           \A m \in Locks : (Holds(stack'[t], m) <=> Holds(stack[t], m)) /\ HoldsOnce(stack'[t], m)
    PROVE  OwnsInv' /\ WordInv'
  <1>1. \A u \in Threads, m \in Locks :
           (Holds(stack'[u], m) <=> owner[m] = u) /\ HoldsOnce(stack'[u], m)
    <2> TAKE u \in Threads, m \in Locks
    <2>1. CASE u = t
      BY <2>1 DEF BaseInv, OwnsInv
    <2>2. CASE u # t
      BY <2>2 DEF BaseInv, OwnsInv, Alone
    <2> QED BY <2>1, <2>2
  <1>2. OwnsInv'
    BY <1>1 DEF OwnsInv, OwnersKept
  <1>3. WordInv'
    BY DEF OwnersKept, BaseInv, WordInv
  <1> QED BY <1>2, <1>3

LEMMA OwnsStep ==
    ASSUME BaseInv, NEW t \in Threads, Kind(t)
    PROVE  OwnsInv' /\ WordInv'
  <1>1. /\ stack[t] \in Seq(FrameType) /\ Alone(t)
        /\ \A m \in Locks : HoldsOnce(stack[t], m) /\ (Holds(stack[t], m) <=> owner[m] = t)
    BY ShapeStep DEF BaseInv, ShapeInv, StackType, OwnsInv
  <1>0. \A s : Pops(s, stack'[t]) \/ (\E f : Replaces(s, stack'[t], f)) \/ (\E f, g : Pushes(s, stack'[t], g, f)) => s # <<>>
    BY DEF Pops, Replaces, Pushes
  <1>2. CASE GoesOn(t)
    <2>1. PICK f \in FrameType : Replaces(stack[t], stack'[t], f) /\ HoldsSame(Top(t), f) /\ OwnersKept
      BY <1>2 DEF GoesOn
    <2>2. Top(t) = stack[t][1]
      BY <1>0, <2>1, TopFrame DEF Busy, BaseInv
    <2>3. \A m \in Locks : (Holds(stack'[t], m) <=> Holds(stack[t], m)) /\ HoldsOnce(stack'[t], m)
      BY <1>1, <2>1, <2>2, HoldsReplaces DEF HoldsSame
    <2> QED BY <1>1, <2>1, <2>3, OwnersKeptStep
  <1>3. CASE CallsOn(t)
    <2>1. PICK f \in FrameType, g \in FrameType :
             Pushes(stack[t], stack'[t], g, f) /\ HoldsCall(Top(t), g, f) /\ OwnersKept
      BY <1>3 DEF CallsOn
    <2>2. Top(t) = stack[t][1]
      BY <1>0, <2>1, TopFrame DEF Busy, BaseInv
    <2>3. \A m \in Locks : (Holds(stack'[t], m) <=> Holds(stack[t], m)) /\ HoldsOnce(stack'[t], m)
      BY <1>1, <2>1, <2>2, HoldsPushes DEF HoldsCall
    <2> QED BY <1>1, <2>1, <2>3, OwnersKeptStep
  <1>4. CASE ReturnsOn(t)
    <2>1. Pops(stack[t], stack'[t]) /\ Top(t).op # "lock" /\ NoMutex(Top(t)) /\ OwnersKept
      BY <1>4 DEF ReturnsOn
    <2>2. Top(t) = stack[t][1] /\ (Len(stack[t]) > 1 => Under(Top(t), stack[t][2]))
      BY <1>0, <2>1, TopFrame DEF Busy, BaseInv
    <2>3. \A m \in Locks : (Holds(stack'[t], m) <=> Holds(stack[t], m)) /\ HoldsOnce(stack'[t], m)
      BY <1>1, <2>1, <2>2, HoldsPops, CallerHolds DEF NoMutex
    <2> QED BY <1>1, <2>1, <2>3, OwnersKeptStep
  <1>5. CASE Locking(t)
    <2>1. PICK m : m = Reached(t)
      OBVIOUS
    <2>2. /\ Pops(stack[t], stack'[t])
          /\ Top(t).op = "lock" /\ m \in Locks /\ Top(t).v # TimedOut
          /\ Top(t) = stack[t][1] /\ Len(stack[t]) > 1 /\ Under(Top(t), stack[t][2])
          /\ word' = [word EXCEPT ![m] = Locked] /\ owner' = [owner EXCEPT ![m] = t]
          /\ owner[m] = None /\ Top(t).m = m
      BY <1>5, <2>1, LockingStack DEF Reached
    <2>3. \A k \in Locks : /\ ~Kept(stack[t][2], k) /\ (Holding(stack[t][2], k) <=> k = m)
                           /\ ~Holding(stack[t][1], k)
      BY <2>2, CallerHolds DEF Holding, Kept
    <2>4. None \notin Threads
      BY ThreadsAssumption
    <2>5. Holds(stack'[t], m) /\ HoldsOnce(stack'[t], m)
      BY <1>1, <2>2, <2>3, <2>4, Obtains
    <2>6. ASSUME NEW k \in Locks, k # m
          PROVE  (Holds(stack'[t], k) <=> Holds(stack[t], k)) /\ HoldsOnce(stack'[t], k)
      BY <1>1, <2>2, <2>3, <2>6, HoldsPops
    <2>7. \A u \in Threads, k \in Locks :
             (Holds(stack'[u], k) <=> owner'[k] = u) /\ HoldsOnce(stack'[u], k)
      <3> TAKE u \in Threads, k \in Locks
      <3>0. owner \in [Locks -> Threads \cup {None}]
        BY DEF BaseInv, WordInv
      <3>1. CASE u = t /\ k = m
        BY <2>2, <2>5, <3>0, <3>1
      <3>2. CASE u = t /\ k # m
        BY <1>1, <2>2, <2>6, <3>0, <3>2
      <3>3. CASE u # t
        <4>1. (Holds(stack'[u], k) <=> owner[k] = u) /\ HoldsOnce(stack'[u], k)
          BY <1>1, <3>3 DEF BaseInv, OwnsInv, Alone
        <4>2. owner'[k] = u <=> owner[k] = u
          BY <2>2, <2>4, <3>0, <3>3
        <4> QED BY <4>1, <4>2
      <3> QED BY <3>1, <3>2, <3>3
    <2>8. WordInv'
      BY <2>2, <2>4 DEF BaseInv, WordInv, Locked, Unlocked, Contended
    <2> QED BY <2>7, <2>8 DEF OwnsInv
  <1>6. CASE UnlockSwap(t)
    <2>1. PICK m : m = Reached(t)
      OBVIOUS
    <2>2. /\ Top(t).op = "unlock" /\ Top(t).pc = "swap" /\ m \in Locks
          /\ Top(t) = stack[t][1] /\ (Len(stack[t]) > 1 => Under(Top(t), stack[t][2]))
          /\ word' = [word EXCEPT ![m] = Unlocked] /\ owner' = [owner EXCEPT ![m] = None]
          /\ owner[m] = t /\ Top(t).m = m
      BY <1>6, <2>1, UnlockingStack DEF Reached
    <2>3. \/ Pops(stack[t], stack'[t])
          \/ \E f \in FrameType : Later(Top(t), f, "wake", 0) /\ Replaces(stack[t], stack'[t], f)
      BY <1>6, UnlockingStack
    <2>4. None \notin Threads
      BY ThreadsAssumption
    <2>5. \A k \in Locks : Holding(stack[t][1], k) <=> k = m
      BY <2>2 DEF Holding, Kept
    <2>6. ~Holds(stack'[t], m) /\ HoldsOnce(stack'[t], m)
      <3>1. CASE Pops(stack[t], stack'[t])
        BY <1>1, <2>2, <2>5, <3>1, LetsGoPops, CallerHolds
      <3>2. CASE \E f \in FrameType : Later(Top(t), f, "wake", 0) /\ Replaces(stack[t], stack'[t], f)
        <4>1. PICK f \in FrameType : Later(Top(t), f, "wake", 0) /\ Replaces(stack[t], stack'[t], f)
          BY <3>2
        <4>2. ~Holding(f, m)
          BY <2>2, <4>1 DEF Later, Holding, Kept
        <4> QED BY <1>1, <2>2, <2>5, <4>1, <4>2, LetsGo
      <3> QED BY <2>3, <3>1, <3>2
    <2>7. ASSUME NEW k \in Locks, k # m
          PROVE  (Holds(stack'[t], k) <=> Holds(stack[t], k)) /\ HoldsOnce(stack'[t], k)
      <3>1. CASE Pops(stack[t], stack'[t])
        BY <1>1, <2>2, <2>5, <2>7, <3>1, HoldsPops, CallerHolds
      <3>2. CASE \E f \in FrameType : Later(Top(t), f, "wake", 0) /\ Replaces(stack[t], stack'[t], f)
        <4>1. PICK f \in FrameType : Later(Top(t), f, "wake", 0) /\ Replaces(stack[t], stack'[t], f)
          BY <3>2
        <4>2. ~Holding(f, k)
          BY <2>2, <4>1 DEF Later, Holding, Kept
        <4> QED BY <1>1, <2>5, <2>7, <4>1, <4>2, HoldsReplaces
      <3> QED BY <2>3, <3>1, <3>2
    <2>8. \A u \in Threads, k \in Locks :
             (Holds(stack'[u], k) <=> owner'[k] = u) /\ HoldsOnce(stack'[u], k)
      <3> TAKE u \in Threads, k \in Locks
      <3>0. owner \in [Locks -> Threads \cup {None}]
        BY DEF BaseInv, WordInv
      <3>1. CASE u = t /\ k = m
        BY <2>2, <2>4, <2>6, <3>0, <3>1
      <3>2. CASE u = t /\ k # m
        BY <1>1, <2>2, <2>7, <3>0, <3>2
      <3>3. CASE u # t
        <4>1. (Holds(stack'[u], k) <=> owner[k] = u) /\ HoldsOnce(stack'[u], k)
          BY <1>1, <3>3 DEF BaseInv, OwnsInv, Alone
        <4>2. owner'[k] = u <=> owner[k] = u
          BY <2>2, <2>4, <3>0, <3>3
        <4> QED BY <4>1, <4>2
      <3> QED BY <3>1, <3>2, <3>3
    <2>9. WordInv'
      BY <2>2, <2>4 DEF BaseInv, WordInv, Locked, Unlocked, Contended
    <2> QED BY <2>8, <2>9 DEF OwnsInv
  <1>7. CASE GivingUp(t)
    <2>1. /\ stack'[t] = <<>> /\ UNCHANGED <<word, owner>> /\ Len(stack[t]) = 2
          /\ stack[t][1].op = "lock" /\ stack[t][2].op = "timedsection"
      BY <1>7, GivingUpStack
    <2>2. \A m \in Locks : ~Holds(stack[t], m)
      <3> SUFFICES ASSUME NEW m \in Locks, NEW i \in 1 .. 2, HoldsAt(stack[t], i, m) PROVE FALSE
        BY <2>1 DEF Holds
      <3> QED BY <2>1 DEF HoldsAt, Holding, Kept
    <2>3. \A m \in Locks : ~Holds(stack'[t], m) /\ HoldsOnce(stack'[t], m)
      BY <2>1 DEF Holds, HoldsOnce
    <2>4. OwnersKept
      BY <2>1 DEF OwnersKept, BaseInv, WordInv
    <2> QED BY <1>1, <2>2, <2>3, <2>4, OwnersKeptStep
  <1> QED BY <1>2, <1>3, <1>4, <1>5, <1>6, <1>7 DEF Kind

LEMMA FlagsStep ==
    ASSUME BaseInv, NEW t \in Threads, Kind(t)
    PROVE  UseInv' /\ RunInv'
  <1>1. /\ stack[t] \in Seq(FrameType) /\ Alone(t)
        /\ UseStack(stack[Main], inUse) /\ RunStack(stack[Main], processing)
        /\ inUse \in BOOLEAN /\ processing \in BOOLEAN
    BY ShapeStep DEF BaseInv, ShapeInv, StackType, UseInv, RunInv
  <1>0. \A s : Pops(s, stack'[t]) \/ (\E f : Replaces(s, stack'[t], f)) \/ (\E f, g : Pushes(s, stack'[t], g, f)) => s # <<>>
    BY DEF Pops, Replaces, Pushes
  <1>2. Locking(t) \/ UnlockSwap(t) \/ GivingUp(t) => UNCHANGED <<inUse, processing>>
    BY DEF Locking, LockTry, UnlockSwap, GivingUp, LockDec, queueVars
  <1>3. inUse' \in BOOLEAN /\ processing' \in BOOLEAN
    BY <1>1, <1>2 DEF Kind, GoesOn, CallsOn, ReturnsOn, FlagsType
  <1>4. CASE t # Main
    <2>1. stack'[Main] = stack[Main]
      BY <1>1, <1>4, LocksNamed DEF Alone
    <2>2. inUse' = inUse /\ processing' = processing
      BY <1>2, <1>4 DEF Kind, GoesOn, CallsOn, ReturnsOn, UsesKept, RunsKept
    <2> QED BY <1>1, <1>3, <2>1, <2>2 DEF UseInv, RunInv
  <1>5. CASE t = Main
    <2>1. CASE GoesOn(t)
      <3>1. PICK f \in FrameType :
               /\ Replaces(stack[t], stack'[t], f)
               /\ UsesGo(t, Top(t), f) /\ UsesKept(t, Top(t)) /\ RunsGo(t, Top(t), f) /\ RunsKept(t)
        BY <2>1 DEF GoesOn
      <3>2. Top(t) = stack[t][1]
        BY <1>0, <3>1, TopFrame DEF Busy, BaseInv
      <3>3. UseStack(stack'[Main], inUse')
        BY <1>1, <1>5, <3>1, <3>2, UseReplaces DEF UsesGo, UsesKept
      <3>4. RunStack(stack'[Main], processing')
        BY <1>1, <1>5, <3>1, <3>2, RunReplaces DEF RunsGo, RunsKept
      <3> QED BY <1>3, <3>3, <3>4 DEF UseInv, RunInv
    <2>2. CASE CallsOn(t)
      <3>1. PICK f \in FrameType, g \in FrameType :
               /\ Pushes(stack[t], stack'[t], g, f)
               /\ UsesGo(t, Top(t), f) /\ UsesCall(t, Top(t), g, f) /\ UsesKept(t, Top(t))
               /\ RunsGo(t, Top(t), f) /\ RunsCall(t, Top(t), g, f) /\ RunsKept(t)
        BY <2>2 DEF CallsOn
      <3>2. Top(t) = stack[t][1]
        BY <1>0, <3>1, TopFrame DEF Busy, BaseInv
      <3>3. UseStack(stack'[Main], inUse')
        BY <1>1, <1>5, <3>1, <3>2, UsePushes DEF UsesGo, UsesCall, UsesKept
      <3>4. RunStack(stack'[Main], processing')
        <4>1. /\ Runs(f) => Runs(stack[t][1]) /\ f.pc # "enter" /\ processing' = TRUE
              /\ Runs(g) => g.pc = "enter" /\ processing # TRUE /\ ~Runs(stack[t][1]) /\ ~Runs(f)
              /\ processing = TRUE => processing' = TRUE
          BY <1>5, <3>1, <3>2 DEF RunsGo, RunsCall, RunsKept
        <4> QED BY <1>1, <1>5, <3>1, <4>1, RunPushes
      <3> QED BY <1>3, <3>3, <3>4 DEF UseInv, RunInv
    <2>3. CASE ReturnsOn(t)
      <3>1. /\ Pops(stack[t], stack'[t]) /\ UsesKept(t, Top(t))
            /\ RunsKept(t) \/ (t = Main /\ Runs(Top(t)))
        BY <2>3 DEF ReturnsOn
      <3>2. Top(t) = stack[t][1]
        BY <1>0, <3>1, TopFrame DEF Busy, BaseInv
      <3>3. UseStack(stack'[Main], inUse')
        BY <1>1, <1>5, <3>1, <3>2, UsePops DEF UsesKept
      <3>4. RunStack(stack'[Main], processing')
        BY <1>1, <1>5, <3>1, <3>2, RunPops DEF RunsKept
      <3> QED BY <1>3, <3>3, <3>4 DEF UseInv, RunInv
    <2>4. CASE Locking(t) \/ UnlockSwap(t) \/ GivingUp(t)
      <3>1. UNCHANGED <<inUse, processing>>
        BY <1>2, <2>4
      <3>2. \/ Pops(stack[t], stack'[t])
            \/ /\ Top(t) = stack[t][1] /\ Top(t).op = "unlock"
               /\ \E f \in FrameType : Later(Top(t), f, "wake", 0) /\ Replaces(stack[t], stack'[t], f)
            \/ stack'[t] = <<>>
        BY <2>4, LockingStack, UnlockingStack, GivingUpStack
      <3>3. CASE Pops(stack[t], stack'[t])
        <4>1. UseStack(stack'[Main], inUse')
          BY <1>1, <1>5, <3>1, <3>3, UsePops
        <4>2. RunStack(stack'[Main], processing')
          BY <1>1, <1>5, <3>1, <3>3, RunPops
        <4> QED BY <1>3, <4>1, <4>2 DEF UseInv, RunInv
      <3>4. CASE /\ Top(t) = stack[t][1] /\ Top(t).op = "unlock"
                 /\ \E f \in FrameType : Later(Top(t), f, "wake", 0) /\ Replaces(stack[t], stack'[t], f)
        <4>1. PICK f \in FrameType : Later(Top(t), f, "wake", 0) /\ Replaces(stack[t], stack'[t], f)
          BY <3>4
        <4>2. Quiet(f) /\ ~Marks(f) /\ ~Runs(f)
          BY <3>4, <4>1 DEF Later, Quiet, Marks, Runs
        <4>3. UseStack(stack'[Main], inUse')
          BY <1>1, <1>5, <3>1, <4>1, <4>2, UseReplaces
        <4>4. RunStack(stack'[Main], processing')
          BY <1>1, <1>5, <3>1, <4>1, <4>2, RunReplaces
        <4> QED BY <1>3, <4>3, <4>4 DEF UseInv, RunInv
      <3>5. CASE stack'[t] = <<>>
        BY <1>3, <1>5, <3>5 DEF UseInv, RunInv, UseStack, RunStack
      <3> QED BY <3>2, <3>3, <3>4, <3>5
    <2> QED BY <2>1, <2>2, <2>3, <2>4 DEF Kind
  <1> QED BY <1>4, <1>5

(* A thread makes a call. *)
Starts(t, f) ==
    /\ stack[t] = <<>> /\ stack' = [stack EXCEPT ![t] = <<f>>]
    /\ UNCHANGED <<mutexVars, futex, queueVars>>

LEMMA StartStep ==
    ASSUME BaseInv, NEW t \in Threads, NEW f \in FrameType, Starts(t, f), Formed(t, f), f.pc = "enter"
    PROVE  BaseInv' /\ Alone(t) /\ stack'[t] = <<f>>
  <1>1. Alone(t) /\ stack'[t] = <<f>>
    BY DEF Starts, Alone, BaseInv, ShapeInv, StackType
  <1>2. PICK s : s = stack'[t]
    OBVIOUS
  <1>3. Len(s) = 1 /\ s[1] = f /\ s # <<>>
    BY <1>1, <1>2
  <1>4. f.op \notin {"lock", "unlock"} /\ ~Marks(f)
    BY DEF Formed, Marks
  <1>5. \A m : ~Holding(f, m)
    BY <1>4 DEF Formed, Holding, Kept
  <1>6. Shape(t, s)
    BY <1>3, <1>4 DEF Shape
  <1>7. ShapeInv'
    <2>1. \A u \in Threads : Shape(u, stack'[u])
      BY <1>1, <1>2, <1>6 DEF Alone, BaseInv, ShapeInv
    <2> QED BY <1>1, <2>1 DEF ShapeInv, StackType, Alone
  <1>8. UNCHANGED mutexVars /\ UNCHANGED queueVars
    BY DEF Starts
  <1>9. OwnsInv' /\ WordInv'
    <2>1. OwnersKept
      BY <1>8, Unchanged
    <2>2. \A m \in Locks : ~Holds(s, m) /\ HoldsOnce(s, m)
      BY <1>3, <1>5 DEF Holds, HoldsOnce, HoldsAt
    <2>3. \A m \in Locks : ~Holds(stack[t], m)
      BY DEF Starts, Holds
    <2> QED BY <1>1, <1>2, <2>1, <2>2, <2>3, OwnersKeptStep
  <1>10. UseInv' /\ RunInv'
    <2>1. UNCHANGED <<inUse, processing>> /\ inUse \in BOOLEAN /\ processing \in BOOLEAN
      BY <1>8 DEF queueVars, BaseInv, UseInv, RunInv
    <2>2. CASE t = Main
      BY <1>2, <1>3, <1>4, <2>1, <2>2, ThreadsAssumption DEF UseInv, UseStack, RunInv, RunStack, Runs
    <2>3. CASE t # Main
      BY <1>1, <2>1, <2>3, LocksNamed DEF Alone, BaseInv, UseInv, RunInv
    <2> QED BY <2>2, <2>3
  <1> QED BY <1>1, <1>7, <1>9, <1>10 DEF BaseInv

LEMMA StillStep ==
    ASSUME BaseInv, UNCHANGED vars
    PROVE  BaseInv'
BY DEF vars, mutexVars, queueVars, BaseInv, ShapeInv, StackType, WordInv, OwnsInv, UseInv, RunInv

(* The calls a program makes, and the notification of Main's task queue. *)
Starting ==
    \/ \E t \in Threads : BeginSection(t) \/ BeginProxy(t)
    \/ BeginTimed \/ BeginExecute \/ Notified

LEMMA StartingStep ==
    ASSUME BaseInv, Starting
    PROVE  \E t \in Threads, f \in FrameType : Starts(t, f) /\ Formed(t, f) /\ f.pc = "enter"
  <1>1. ASSUME NEW t \in Threads, BeginSection(t)
        PROVE  \E f \in FrameType : Starts(t, f) /\ Formed(t, f) /\ f.pc = "enter"
    <2>1. PICK m \in {"allocator"} \cup UserLocks : Begin(t, Section(m))
      BY <1>1 DEF BeginSection
    <2>2. Section(m) \in FrameType /\ Is(Section(m), "section", "enter", m)
      BY NewFrames, LocksNamed
    <2> QED BY <2>1, <2>2 DEF Begin, Starts, Busy, Formed, Is
  <1>2. ASSUME NEW t \in Threads, BeginProxy(t)
        PROVE  \E f \in FrameType : Starts(t, f) /\ Formed(t, f) /\ f.pc = "enter"
    <2>1. PICK u \in Threads : Begin(t, Proxy(u))
      BY <1>2, LocksNamed DEF BeginProxy
    <2>2. Proxy(u) \in FrameType /\ Is(Proxy(u), "proxy", "enter", u)
      BY NewFrames, LocksNamed
    <2> QED BY <2>1, <2>2 DEF Begin, Starts, Busy, Formed, Is
  <1>3. ASSUME BeginTimed
        PROVE  \E f \in FrameType : Starts(Main, f) /\ Formed(Main, f) /\ f.pc = "enter"
    <2>1. PICK m \in TimedLocks : Begin(Main, TimedSection(m))
      BY <1>3 DEF BeginTimed
    <2>2. TimedSection(m) \in FrameType /\ Is(TimedSection(m), "timedsection", "enter", m)
      BY NewFrames, LocksNamed
    <2> QED BY <2>1, <2>2 DEF Begin, Starts, Busy, Formed, Is
  <1>4. ASSUME BeginExecute
        PROVE  \E f \in FrameType : Starts(Main, f) /\ Formed(Main, f) /\ f.pc = "enter"
    <2>1. Execute \in FrameType /\ Is(Execute, "execute", "enter", None)
      BY NewFrames, LocksNamed
    <2> QED BY <1>4, <2>1 DEF BeginExecute, Begin, Starts, Busy, Formed, Is
  <1>5. ASSUME Notified
        PROVE  \E f \in FrameType : Starts(Main, f) /\ Formed(Main, f) /\ f.pc = "enter"
    <2>1. RunTasks \in FrameType /\ Is(RunTasks, "run", "enter", Main)
      BY NewFrames, LocksNamed
    <2> QED BY <1>5, <2>1 DEF Notified, Starts, Busy, Formed, Is
  <1> QED BY <1>1, <1>2, <1>3, <1>4, <1>5, LocksNamed DEF Starting

LEMMA BaseStep ==
    ASSUME BaseInv, [Next]_vars
    PROVE  BaseInv'
  <1>1. ASSUME NEW t \in Threads, Kind(t) PROVE BaseInv'
    BY <1>1, ShapeStep, OwnsStep, FlagsStep DEF BaseInv
  <1>2. CASE \E t \in Threads : Step(t)
    BY <1>1, <1>2, StepKind
  <1>3. CASE MainStep \/ MainTimeout
    BY <1>1, <1>3, MainStepKind, LocksNamed
  <1>4. CASE Starting
    BY <1>4, StartingStep, StartStep
  <1>5. CASE UNCHANGED vars
    BY <1>5, StillStep
  <1> QED BY <1>2, <1>3, <1>4, <1>5 DEF Next, Rest, Starting

LEMMA BaseInit == Init => BaseInv
  <1> SUFFICES ASSUME Init PROVE BaseInv
    OBVIOUS
  <1>1. stack = [t \in Threads |-> <<>>] /\ owner = [m \in Locks |-> None]
    BY DEF Init
  <1>2. \A t \in Threads : stack[t] = <<>> /\ Len(stack[t]) = 0
    BY <1>1
  <1>3. ShapeInv
    BY <1>1, <1>2 DEF ShapeInv, StackType, Shape
  <1>4. WordInv
    BY DEF Init, WordInv, Unlocked, Locked, Contended
  <1>5. OwnsInv
    BY <1>1, <1>2, ThreadsAssumption DEF OwnsInv, Holds, HoldsOnce
  <1>6. UseInv /\ RunInv
    <2>1. inUse \in BOOLEAN /\ processing \in BOOLEAN
      BY DEF Init
    <2>2. Len(stack[Main]) = 0
      BY <1>2, LocksNamed
    <2> QED BY <2>1, <2>2 DEF UseInv, UseStack, RunInv, RunStack
  <1> QED BY <1>3, <1>4, <1>5, <1>6 DEF BaseInv

-----------------------------------------------------------------------------
(* The register. *)

LEMMA StepFutex ==
    ASSUME NEW t \in Threads, Step(t)
    PROVE  ~At(t, "lock", "spin") /\ futex' \in {futex, None}
  <1>1. CASE LockTry(t) \/ LockRead(t) \/ LockInc(t) \/ LockMark(t) \/ LockDec(t)
    BY <1>1 DEF LockTry, LockRead, LockInc, LockMark, LockDec, At
  <1>2. CASE WorkerWait(t) \/ WorkerWoken(t)
    BY <1>2 DEF WorkerWait, WorkerWoken, At
  <1>3. CASE UnlockWaiters(t) \/ UnlockSwap(t) \/ UnlockWake(t)
    BY <1>3 DEF UnlockWaiters, UnlockSwap, UnlockWake, At
  <1>4. CASE SectionEnter(t) \/ SectionLeave(t)
    BY <1>4 DEF SectionEnter, SectionLeave, At
  <1>5. CASE ProxyEnter(t) \/ ProxyAdd(t) \/ ProxyAdded(t) \/ ProxySend(t)
    BY <1>5 DEF ProxyEnter, ProxyAdd, ProxyAdded, ProxySend, At
  <1>6. CASE ProxyGrow(t) \/ ProxyEnqueue(t)
    BY <1>6 DEF ProxyGrow, ProxyEnqueue, At
  <1> QED BY <1>1, <1>2, <1>3, <1>4, <1>5, <1>6 DEF Step

(* A frame of Main that goes on to look at the register. *)
LEMMA Spinning ==
    ASSUME BaseInv, At(Main, "lock", "wait") \/ At(Main, "lock", "check"), Goto(Main, "spin", 0)
    PROVE  At(Main, "lock", "spin")' /\ Reached(Main)' = Reached(Main)
  <1>1. Busy(Main) /\ Top(Main).op = "lock" /\ "spin" \in Pcs /\ 0 \in 0 .. 3 /\ StackType
    BY DEF At, Pcs, BaseInv, ShapeInv
  <1>2. PICK f \in FrameType : Later(Top(Main), f, "spin", 0) /\ Replaces(stack[Main], stack'[Main], f)
                               /\ Alone(Main)
    BY <1>1, LocksNamed, Went
  <1>3. stack'[Main] # <<>> /\ stack'[Main] \in Seq(FrameType) /\ stack'[Main][1] = f
    BY <1>2, LocksNamed DEF Replaces, Alone
  <1>4. Head(stack'[Main]) = f
    BY <1>3
  <1> QED BY <1>1, <1>2, <1>3, <1>4 DEF At, Busy, Top, Later, Reached

LEMMA FutexStep ==
    ASSUME BaseInv, FutexInv, [Next]_vars
    PROVE  FutexInv'
  <1>1. ASSUME NEW t \in Threads, Step(t) PROVE FutexInv'
    <2>1. ~At(t, "lock", "spin") /\ futex' \in {futex, None}
      BY <1>1, StepFutex
    <2>2. CASE t = Main
      BY <2>1, <2>2 DEF FutexInv
    <2>3. CASE t # Main
      <3>1. stack'[Main] = stack[Main]
        BY <1>1, <2>3, StepKind, ShapeStep, LocksNamed DEF Alone
      <3> QED BY <2>1, <3>1 DEF FutexInv, At, Busy, Top, Reached
    <2> QED BY <2>2, <2>3
  <1>2. CASE MainRegister
    BY <1>2, Spinning DEF MainRegister, FutexInv, At
  <1>3. CASE MainCheck
    <2>1. CASE Goto(Main, "spin", 0)
      BY <1>3, <2>1, Spinning DEF MainCheck, FutexInv, At
    <2>2. CASE futex' = futex
      BY <1>3, <2>2 DEF MainCheck, FutexInv, At
    <2> QED BY <1>3, <2>1, <2>2 DEF MainCheck
  <1>4. CASE MainYield \/ MainWoken \/ MainTimeout
    BY <1>4 DEF MainYield, MainWoken, MainTimeout, FutexInv
  <1>5. CASE ExecuteEnter \/ ExecuteFind \/ ExecuteFound \/ ExecuteDone
    <2>1. futex' = futex /\ ~At(Main, "lock", "spin")
      BY <1>5 DEF ExecuteEnter, ExecuteFind, ExecuteFound, ExecuteDone, At
    <2> QED BY <2>1 DEF FutexInv
  <1>6. CASE RunEnter \/ RunNext \/ RunCall \/ RunAgain \/ RunEnd
    <2>1. futex' = futex /\ ~At(Main, "lock", "spin")
      BY <1>6 DEF RunEnter, RunNext, RunCall, RunAgain, RunEnd, At
    <2> QED BY <2>1 DEF FutexInv
  <1>7. CASE Starting
    <2>1. PICK t \in Threads, f \in FrameType : Starts(t, f) /\ Formed(t, f) /\ f.pc = "enter"
      BY <1>7, StartingStep
    <2>2. futex' = futex /\ Alone(t)
      BY <2>1, StartStep DEF Starts
    <2>3. CASE t = Main
      BY <2>1, <2>2, <2>3 DEF FutexInv, Starts, At, Busy
    <2>4. CASE t # Main
      <3>1. stack'[Main] = stack[Main]
        BY <2>2, <2>4, LocksNamed DEF Alone
      <3> QED BY <2>2, <3>1 DEF FutexInv, At, Busy, Top, Reached
    <2> QED BY <2>3, <2>4
  <1>8. CASE UNCHANGED vars
    BY <1>8 DEF vars, FutexInv, At, Busy, Top, Reached
  <1> QED BY <1>1, <1>2, <1>3, <1>4, <1>5, <1>6, <1>7, <1>8 DEF Next, MainStep, Rest, Starting

-----------------------------------------------------------------------------
(* What the invariant shows. *)

LEMMA SelfDeadlock ==
    ASSUME BaseInv, Main \notin Growers
    PROVE  NoSelfDeadlock
  <1> SUFFICES ASSUME NEW t \in Threads, Busy(t), Top(t).op = "lock", owner[Reached(t)] = t
               PROVE  FALSE
    BY DEF NoSelfDeadlock
  <1>1. PICK s : s = stack[t]
    OBVIOUS
  <1>2. PICK m : m = Reached(t)
    OBVIOUS
  <1>3. /\ s \in Seq(FrameType) /\ s[1].op = "lock" /\ s[1].m = m /\ Formed(t, s[1])
        /\ Len(s) > 1 /\ Under(s[1], s[2])
    BY <1>1, <1>2, TopFrame DEF BaseInv, Reached
  <1>4. m \in Locks
    BY <1>3 DEF Formed
  <1>5. PICK i \in 1 .. Len(s) : HoldsAt(s, i, m)
    BY <1>1, <1>2, <1>4 DEF BaseInv, OwnsInv, Holds
  <1>6. i # 1 /\ Kept(s[i], m)
    BY <1>3, <1>5 DEF HoldsAt, Holding, Kept
  <1>7. i # 2
    <2>1. ~Kept(s[2], m)
      BY <1>3 DEF Under, Kept
    <2> QED BY <1>6, <2>1
  <1>8. 2 \in 1 .. i - 1 /\ 2 \in 1 .. Len(s) /\ 3 \in 1 .. Len(s) /\ 2 < Len(s) /\ 2 + 1 = 3
    BY <1>3, <1>6, <1>7
  <1>9. Under(s[2], s[3]) /\ Formed(t, s[2]) /\ Formed(t, s[3]) /\ Formed(t, s[i])
    BY <1>1, <1>8 DEF BaseInv, ShapeInv, Shape
  <1>10. CASE s[2].op \in {"section", "timedsection"}
    <2>1. m = "allocator"
      BY <1>3, <1>9, <1>10 DEF Under
    <2> QED BY <1>6, <1>9, <2>1, LocksNamed DEF Kept, Formed
  <1>11. CASE s[2].op \in {"proxy", "execute", "run"}
    <2>1. t = Main
      BY <1>9, <1>11 DEF Under, Formed
    <2>2. Marks(s[i])
      BY <1>6, <1>9, <2>1 DEF Kept, Formed, Marks
    <2>3. Quiet(s[2])
      BY <1>1, <1>8, <2>1, <2>2 DEF BaseInv, UseInv, UseStack
    <2> QED BY <1>3, <1>11, <2>3 DEF Quiet, Under
  <1> QED BY <1>3, <1>10, <1>11 DEF Under

(* Every state of every behaviour satisfies the invariant that tells which *)
(* functions may be on a thread's stack and which mutexes they hold, what  *)
(* the flags of the system queue mean, and who is in the register.         *)
THEOREM BlockingInvariant == Spec => [](BaseInv /\ FutexInv)
  <1>1. Init => BaseInv /\ FutexInv
    BY BaseInit DEF Init, FutexInv
  <1>2. BaseInv /\ FutexInv /\ [Next]_vars => (BaseInv /\ FutexInv)'
    BY BaseStep, FutexStep
  <1> QED BY <1>1, <1>2, PTL DEF Spec

(* NoSelfDeadlock of every thread: whatever mutexes the program has and    *)
(* however the waits of the main thread nest, no thread locks a mutex it   *)
(* holds, as long as the main thread does not find a task queue full (the  *)
(* case in which em_task_queue_enqueue allocates with the queue's mutex    *)
(* locked, and the main thread does lock it again).                        *)
THEOREM MainDoesNotBlockItself ==
    ASSUME Main \notin Growers
    PROVE  Spec => []NoSelfDeadlock
  <1>1. BaseInv => NoSelfDeadlock
    BY SelfDeadlock
  <1> QED BY <1>1, BlockingInvariant, PTL

(* RegisterIsSingle, the assertions of emscripten_futex_wait.c and _wake.c *)
(* on _emscripten_main_thread_futex.                                       *)
THEOREM RegisterHoldsOneWait == Spec => []RegisterIsSingle
  <1>1. FutexInv => RegisterIsSingle
    BY DEF FutexInv, RegisterIsSingle, At
  <1> QED BY <1>1, BlockingInvariant, PTL

(* TasksDoNotNest: `processing` of em_task_queue_execute keeps a task from *)
(* being started inside another, at any depth of the stack.                *)
THEOREM TasksRunOneAtATime == Spec => []TasksDoNotNest
  <1>1. BaseInv => TasksDoNotNest
    <2> SUFFICES ASSUME BaseInv
                 PROVE  Cardinality({i \in DOMAIN stack[Main] : stack[Main][i].op = "run"}) <= 1
      BY DEF TasksDoNotNest
    <2> DEFINE R == {i \in DOMAIN stack[Main] : stack[Main][i].op = "run"}
    <2>1. \A i, j \in R : i = j
      <3>1. DOMAIN stack[Main] = 1 .. Len(stack[Main])
        BY LocksNamed DEF BaseInv, ShapeInv, StackType
      <3> QED BY <3>1 DEF BaseInv, RunInv, RunStack, Runs
    <2>2. R = {} \/ \E x : R = {x}
      <3> SUFFICES ASSUME NEW x \in R PROVE R = {x}
        OBVIOUS
      <3> QED BY <2>1
    <2>3. Cardinality(R) = 0 \/ Cardinality(R) = 1
      BY <2>2, FS_EmptySet, FS_Singleton
    <2> QED BY <2>3
  <1> QED BY <1>1, BlockingInvariant, PTL

-----------------------------------------------------------------------------
(* The sleepers. *)

LEMMA StepAsleep ==
    ASSUME NEW t \in Threads, Step(t)
    PROVE  \/ asleep' = asleep /\ (At(t, "lock", "asleep") => t \notin asleep[Reached(t)])
           \/ WorkerWait(t) \/ UnlockWake(t)
  <1>1. CASE LockTry(t) \/ LockRead(t) \/ LockInc(t) \/ LockMark(t) \/ LockDec(t)
    BY <1>1 DEF LockTry, LockRead, LockInc, LockMark, LockDec, At, mutexVars
  <1>2. CASE WorkerWait(t) \/ WorkerWoken(t)
    BY <1>2 DEF WorkerWoken, At, mutexVars
  <1>3. CASE UnlockWaiters(t) \/ UnlockSwap(t) \/ UnlockWake(t)
    BY <1>3 DEF UnlockWaiters, UnlockSwap, At, mutexVars
  <1>4. CASE SectionEnter(t) \/ SectionLeave(t)
    BY <1>4 DEF SectionEnter, SectionLeave, At, mutexVars
  <1>5. CASE ProxyEnter(t) \/ ProxyAdd(t) \/ ProxyAdded(t) \/ ProxySend(t)
    BY <1>5 DEF ProxyEnter, ProxyAdd, ProxyAdded, ProxySend, At, mutexVars
  <1>6. CASE ProxyGrow(t) \/ ProxyEnqueue(t)
    BY <1>6 DEF ProxyGrow, ProxyEnqueue, At, mutexVars
  <1> QED BY <1>1, <1>2, <1>3, <1>4, <1>5, <1>6 DEF Step

LEMMA MainAsleep == ASSUME MainStep \/ MainTimeout PROVE asleep' = asleep
  <1>1. CASE MainRegister \/ MainYield \/ MainWoken \/ MainCheck \/ MainTimeout
    BY <1>1 DEF MainRegister, MainYield, MainWoken, MainCheck, MainTimeout, mutexVars
  <1>2. CASE ExecuteEnter \/ ExecuteFind \/ ExecuteFound \/ ExecuteDone
    BY <1>2 DEF ExecuteEnter, ExecuteFind, ExecuteFound, ExecuteDone, mutexVars
  <1>3. CASE RunEnter \/ RunNext \/ RunCall \/ RunAgain \/ RunEnd
    BY <1>3 DEF RunEnter, RunNext, RunCall, RunAgain, RunEnd, mutexVars
  <1> QED BY <1>1, <1>2, <1>3 DEF MainStep

(* Nobody falls asleep, and the thread that does something is awake. *)
LEMMA FewerAsleep ==
    ASSUME SleepInv, NEW t \in Threads, Alone(t), asleep' \in [Locks -> SUBSET Workers],
           \A m \in Locks : asleep'[m] \subseteq asleep[m] /\ t \notin asleep[m]
    PROVE  SleepInv'
  <1> SUFFICES ASSUME NEW m \in Locks, NEW u \in Threads, u \in asleep'[m]
               PROVE  At(u, "lock", "asleep")' /\ Reached(u)' = m
    BY DEF SleepInv
  <1>1. u # t /\ u \in asleep[m]
    OBVIOUS
  <1>2. stack'[u] = stack[u]
    BY <1>1 DEF Alone
  <1>3. At(u, "lock", "asleep") /\ Reached(u) = m
    BY <1>1 DEF SleepInv
  <1> QED BY <1>2, <1>3 DEF At, Busy, Top, Reached

LEMMA Awake ==
    ASSUME SleepInv, NEW t \in Threads,
           ~At(t, "lock", "asleep") \/ t \notin asleep[Reached(t)]
    PROVE  \A m \in Locks : t \notin asleep[m]
BY DEF SleepInv

(* The thread that goes to sleep. *)
LEMMA FallsAsleep ==
    ASSUME BaseInv, NEW t \in Threads, WorkerWait(t)
    PROVE  /\ Reached(t) \in Locks /\ t \in Workers
           /\ \/ asleep' = asleep
              \/ /\ word[Reached(t)] = Contended
                 /\ asleep' = [asleep EXCEPT ![Reached(t)] = @ \cup {t}]
                 /\ At(t, "lock", "asleep")' /\ Reached(t)' = Reached(t)
  <1>1. At(t, "lock", "wait") /\ Busy(t) /\ Top(t).op = "lock" /\ Top(t).pc = "wait" /\ StackType
        /\ t # Main
    BY DEF WorkerWait, At, BaseInv, ShapeInv
  <1>2. Reached(t) \in Locks /\ t \in Workers
    BY <1>1, TopFrame DEF BaseInv, Formed, Reached, Threads
  <1>3. ASSUME Goto(t, "asleep", 0) PROVE At(t, "lock", "asleep")' /\ Reached(t)' = Reached(t)
    <2>1. "asleep" \in Pcs /\ 0 \in 0 .. 3
      BY DEF Pcs
    <2>2. PICK f \in FrameType : Later(Top(t), f, "asleep", 0) /\ Replaces(stack[t], stack'[t], f)
                                 /\ Alone(t)
      BY <1>1, <1>3, <2>1, Went
    <2>3. stack'[t] # <<>> /\ stack'[t] \in Seq(FrameType) /\ stack'[t][1] = f
      BY <2>2 DEF Replaces, Alone
    <2>4. Head(stack'[t]) = f
      BY <2>3
    <2> QED BY <1>1, <2>2, <2>3, <2>4 DEF At, Busy, Top, Later, Reached
  <1> QED BY <1>2, <1>3 DEF WorkerWait

LEMMA SleepStep ==
    ASSUME BaseInv, SleepInv, [Next]_vars
    PROVE  SleepInv'
  <1>1. ASSUME NEW t \in Threads, Step(t) PROVE SleepInv'
    <2>0. Alone(t)
      BY <1>1, StepKind, ShapeStep
    <2>1. CASE asleep' = asleep /\ (At(t, "lock", "asleep") => t \notin asleep[Reached(t)])
      BY <2>0, <2>1, Awake, FewerAsleep DEF SleepInv
    <2>2. CASE WorkerWait(t)
      <3>1. Reached(t) \in Locks /\ t \in Workers
            /\ (\/ asleep' = asleep
                \/ /\ asleep' = [asleep EXCEPT ![Reached(t)] = @ \cup {t}]
                   /\ At(t, "lock", "asleep")' /\ Reached(t)' = Reached(t))
        BY <2>2, FallsAsleep
      <3>2. \A m \in Locks : t \notin asleep[m]
        BY <2>2, Awake DEF WorkerWait, At
      <3>3. CASE asleep' = asleep
        BY <2>0, <3>2, <3>3, FewerAsleep DEF SleepInv
      <3>4. CASE /\ asleep' = [asleep EXCEPT ![Reached(t)] = @ \cup {t}]
                 /\ At(t, "lock", "asleep")' /\ Reached(t)' = Reached(t)
        <4>1. PICK k : k = Reached(t)
          OBVIOUS
        <4>2. /\ asleep' = [asleep EXCEPT ![k] = @ \cup {t}] /\ k \in Locks
              /\ At(t, "lock", "asleep")' /\ Reached(t)' = k
          BY <3>1, <3>4, <4>1
        <4>3. asleep \in [Locks -> SUBSET Workers]
          BY DEF SleepInv
        <4>4. asleep' \in [Locks -> SUBSET Workers]
          BY <3>1, <4>2, <4>3
        <4>5. ASSUME NEW m \in Locks, NEW u \in Threads, u \in asleep'[m]
              PROVE  At(u, "lock", "asleep")' /\ Reached(u)' = m
          <5>1. CASE u = t
            <6>1. m = k
              BY <3>2, <4>2, <4>3, <4>5, <5>1
            <6> QED BY <4>2, <5>1, <6>1
          <5>2. CASE u # t
            <6>1. u \in asleep[m]
              BY <4>2, <4>3, <4>5, <5>2
            <6>2. At(u, "lock", "asleep") /\ Reached(u) = m /\ stack'[u] = stack[u]
              BY <2>0, <5>2, <6>1 DEF SleepInv, Alone
            <6> QED BY <6>2 DEF At, Busy, Top, Reached
          <5> QED BY <5>1, <5>2
        <4> QED BY <4>4, <4>5 DEF SleepInv
      <3> QED BY <3>1, <3>3, <3>4
    <2>3. CASE UnlockWake(t)
      <3>1. \A m \in Locks : t \notin asleep[m]
        BY <2>3, Awake DEF UnlockWake, At
      <3>2. asleep' \in [Locks -> SUBSET Workers] /\ \A m \in Locks : asleep'[m] \subseteq asleep[m]
        BY <2>3 DEF UnlockWake, SleepInv
      <3> QED BY <2>0, <3>1, <3>2, FewerAsleep
    <2> QED BY <1>1, <2>1, <2>2, <2>3, StepAsleep
  <1>2. CASE MainStep \/ MainTimeout
    <2>1. asleep' = asleep /\ Alone(Main) /\ Main \notin Workers
      BY <1>2, MainAsleep, MainStepKind, ShapeStep, LocksNamed, ThreadsAssumption
    <2>2. \A m \in Locks : Main \notin asleep[m]
      BY <2>1 DEF SleepInv
    <2> QED BY <2>1, <2>2, FewerAsleep, LocksNamed DEF SleepInv
  <1>3. CASE Starting
    <2>1. PICK t \in Threads, f \in FrameType : Starts(t, f) /\ Formed(t, f) /\ f.pc = "enter"
      BY <1>3, StartingStep
    <2>2. Alone(t) /\ asleep' = asleep /\ ~At(t, "lock", "asleep")
      BY <2>1, StartStep DEF Starts, mutexVars, At, Busy
    <2> QED BY <2>2, Awake, FewerAsleep DEF SleepInv
  <1>4. CASE UNCHANGED vars
    BY <1>4 DEF vars, mutexVars, SleepInv, At, Busy, Top, Reached
  <1> QED BY <1>1, <1>2, <1>3, <1>4 DEF Next, Rest, Starting

-----------------------------------------------------------------------------
(* The number of waiters. *)

LEMMA CountReplaces ==
    ASSUME NEW s \in Seq(FrameType), NEW n, NEW f, NEW m, Replaces(s, n, f)
    PROVE  /\ \A k \in Nat : k # Len(s) => (CountAt(n, k, m) <=> CountAt(s, k, m))
           /\ CountAt(n, Len(s), m) <=> Counts(f, m)
           /\ CountAt(s, Len(s), m) <=> Counts(s[1], m)
  <1>1. /\ Len(n) = Len(s) /\ Len(s) \in Nat \ {0} /\ n[1] = f
        /\ \A i \in 2 .. Len(s) : n[i] = s[i]
    BY DEF Replaces
  <1>2. Len(s) + 1 - Len(s) = 1 /\ Len(s) \in 1 .. Len(s)
    BY <1>1
  <1>3. \A k \in 1 .. Len(s) : k # Len(s) => Len(s) + 1 - k \in 2 .. Len(s)
    BY <1>1
  <1> QED BY <1>1, <1>2, <1>3 DEF CountAt

LEMMA CountPushes ==
    ASSUME NEW s \in Seq(FrameType), NEW n, NEW g, NEW f, NEW m, Pushes(s, n, g, f), ~Counts(g, m)
    PROVE  /\ \A k \in Nat : k # Len(s) => (CountAt(n, k, m) <=> CountAt(s, k, m))
           /\ CountAt(n, Len(s), m) <=> Counts(f, m)
           /\ CountAt(s, Len(s), m) <=> Counts(s[1], m)
  <1>1. /\ Len(n) = Len(s) + 1 /\ Len(s) \in Nat \ {0} /\ n[1] = g /\ n[2] = f
        /\ \A i \in 2 .. Len(s) : n[i + 1] = s[i]
    BY DEF Pushes
  <1>2. /\ Len(s) + 1 - Len(s) = 1 /\ Len(s) \in 1 .. Len(s) /\ Len(s) \in 1 .. Len(n)
        /\ Len(n) + 1 - Len(s) = 2
    BY <1>1
  <1>3. \A k \in 1 .. Len(s) : k # Len(s) =>
           /\ Len(s) + 1 - k \in 2 .. Len(s) /\ k \in 1 .. Len(n)
           /\ Len(n) + 1 - k = (Len(s) + 1 - k) + 1
    BY <1>1
  <1>4. \A k \in 1 .. Len(n) : k \in 1 .. Len(s) \/ (k = Len(n) /\ Len(n) + 1 - k = 1)
    BY <1>1
  <1>5. \A k \in 1 .. Len(s) : k # Len(s) => (CountAt(n, k, m) <=> CountAt(s, k, m))
    BY <1>1, <1>3 DEF CountAt
  <1>6. \A k \in Nat : k \notin 1 .. Len(s) => ~CountAt(n, k, m) /\ ~CountAt(s, k, m)
    BY <1>1, <1>4 DEF CountAt
  <1>7. CountAt(n, Len(s), m) <=> Counts(f, m)
    BY <1>1, <1>2 DEF CountAt
  <1>8. CountAt(s, Len(s), m) <=> Counts(s[1], m)
    BY <1>2 DEF CountAt
  <1> QED BY <1>5, <1>6, <1>7, <1>8

LEMMA CountPops ==
    ASSUME NEW s \in Seq(FrameType), NEW n, NEW m, Pops(s, n)
    PROVE  /\ \A k \in Nat : k # Len(s) => (CountAt(n, k, m) <=> CountAt(s, k, m))
           /\ ~CountAt(n, Len(s), m)
           /\ CountAt(s, Len(s), m) <=> Counts(s[1], m)
  <1>1. /\ Len(n) = Len(s) - 1 /\ Len(s) \in Nat \ {0}
        /\ \A i \in 1 .. Len(s) - 1 : n[i] = s[i + 1]
    BY DEF Pops
  <1>2. Len(s) + 1 - Len(s) = 1 /\ Len(s) \in 1 .. Len(s) /\ Len(s) \notin 1 .. Len(n)
    BY <1>1
  <1>3. \A k \in 1 .. Len(n) :
           /\ k \in 1 .. Len(s) /\ Len(n) + 1 - k \in 1 .. Len(s) - 1
           /\ Len(s) + 1 - k = (Len(n) + 1 - k) + 1
    BY <1>1
  <1>4. \A k \in 1 .. Len(s) : k # Len(s) => k \in 1 .. Len(n)
    BY <1>1
  <1>5. \A k \in 1 .. Len(n) : CountAt(n, k, m) <=> CountAt(s, k, m)
    BY <1>1, <1>3 DEF CountAt
  <1> QED BY <1>2, <1>4, <1>5 DEF CountAt

(* t's topmost frame tells whether t is counted once more, once less, or   *)
(* as before.                                                              *)
LEMMA CountedStep ==
    ASSUME NEW t \in Threads, Alone(t), NEW m, NEW len \in Nat,
           \A k \in Nat : k # len => (CountAt(stack'[t], k, m) <=> CountAt(stack[t], k, m))
    PROVE  Counted(m)' = IF CountAt(stack'[t], len, m)
                            THEN Counted(m) \cup {<<t, len>>} ELSE Counted(m) \ {<<t, len>>}
  <1>1. \A c \in Threads \X Nat :
           c # <<t, len>> => (CountAt(stack'[c[1]], c[2], m) <=> CountAt(stack[c[1]], c[2], m))
    <2> SUFFICES ASSUME NEW u \in Threads, NEW k \in Nat, <<u, k>> # <<t, len>>
                 PROVE  CountAt(stack'[u], k, m) <=> CountAt(stack[u], k, m)
      OBVIOUS
    <2>1. CASE u = t
      BY <2>1
    <2>2. CASE u # t
      BY <2>2 DEF Alone
    <2> QED BY <2>1, <2>2
  <1>2. <<t, len>> \in Threads \X Nat /\ <<t, len>>[1] = t /\ <<t, len>>[2] = len
    OBVIOUS
  <1>3. Counted(m)' = {c \in Threads \X Nat : CountAt(stack'[c[1]], c[2], m)}
    BY DEF Counted
  <1>4. CASE CountAt(stack'[t], len, m)
    BY <1>1, <1>2, <1>3, <1>4 DEF Counted
  <1>5. CASE ~CountAt(stack'[t], len, m)
    BY <1>1, <1>2, <1>3, <1>5 DEF Counted
  <1> QED BY <1>4, <1>5

LEMMA CountedSame ==
    ASSUME NEW t \in Threads, Alone(t), NEW m, NEW len \in Nat,
           \A k \in Nat : k # len => (CountAt(stack'[t], k, m) <=> CountAt(stack[t], k, m)),
           CountAt(stack'[t], len, m) <=> CountAt(stack[t], len, m)
    PROVE  Counted(m)' = Counted(m)
  <1>1. \A c \in Threads \X Nat : CountAt(stack'[c[1]], c[2], m) <=> CountAt(stack[c[1]], c[2], m)
    <2> SUFFICES ASSUME NEW u \in Threads, NEW k \in Nat
                 PROVE  CountAt(stack'[u], k, m) <=> CountAt(stack[u], k, m)
      OBVIOUS
    <2>1. CASE u = t
      BY <2>1
    <2>2. CASE u # t
      BY <2>2 DEF Alone
    <2> QED BY <2>1, <2>2
  <1>2. Counted(m)' = {c \in Threads \X Nat : CountAt(stack'[c[1]], c[2], m)}
    BY DEF Counted
  <1> QED BY <1>1, <1>2 DEF Counted

LEMMA CountKeptStep ==
    ASSUME CountInv, waiters' = waiters, \A m \in Locks : Counted(m)' = Counted(m)
    PROVE  CountInv'
BY DEF CountInv

LEMMA CountIncStep ==
    ASSUME BaseInv, CountInv, NEW t \in Threads, LockInc(t)
    PROVE  CountInv'
  <1>1. Busy(t) /\ Top(t).op = "lock" /\ Top(t).pc = "inc" /\ StackType
    BY DEF LockInc, At, BaseInv, ShapeInv
  <1>2. PICK e : e = Top(t)
    OBVIOUS
  <1>3. PICK l : l = e.m
    OBVIOUS
  <1>4. /\ Formed(t, e) /\ e = stack[t][1] /\ stack[t] \in Seq(FrameType) /\ Len(stack[t]) \in Nat
        /\ e.op = "lock" /\ e.pc = "inc" /\ e.v \in 0 .. 3
    BY <1>1, <1>2, TopFrame DEF BaseInv
  <1>5. l \in Locks /\ waiters' = [waiters EXCEPT ![l] = @ + 1]
    BY <1>2, <1>3, <1>4 DEF Formed, LockInc, Reached
  <1>6. PICK f \in FrameType : Later(e, f, "mark", e.v) /\ Replaces(stack[t], stack'[t], f) /\ Alone(t)
    <2>1. "mark" \in Pcs /\ Goto(t, "mark", e.v)
      BY <1>2 DEF Pcs, LockInc
    <2> QED BY <1>1, <1>2, <1>4, <2>1, Went
  <1>7. \A m \in Locks : ~Counts(e, m) /\ (Counts(f, m) <=> m = l)
    BY <1>3, <1>4, <1>6 DEF Counts, Later
  <1>8. PICK len \in Nat : len = Len(stack[t])
    BY <1>4
  <1>9. \A m \in Locks :
           /\ \A k \in Nat : k # len => (CountAt(stack'[t], k, m) <=> CountAt(stack[t], k, m))
           /\ CountAt(stack'[t], len, m) <=> m = l
           /\ ~CountAt(stack[t], len, m)
    BY <1>4, <1>6, <1>7, <1>8, CountReplaces
  <1>10. \A m \in Locks : m # l => Counted(m)' = Counted(m)
    BY <1>6, <1>9, CountedSame
  <1>11. Counted(l)' = Counted(l) \cup {<<t, len>>}
    BY <1>5, <1>6, <1>9, CountedStep
  <1>12. <<t, len>> \notin Counted(l)
    BY <1>5, <1>9 DEF Counted
  <1>13. IsFiniteSet(Counted(l)') /\ Cardinality(Counted(l)') = waiters[l] + 1
    BY <1>5, <1>11, <1>12, FS_AddElement DEF CountInv
  <1>14. waiters \in [Locks -> Nat]
    BY DEF CountInv
  <1>15. waiters' \in [Locks -> Nat]
    BY <1>5, <1>14
  <1>16. ASSUME NEW m \in Locks
         PROVE  IsFiniteSet(Counted(m)') /\ Cardinality(Counted(m)') = waiters'[m]
    <2>1. CASE m = l
      BY <1>5, <1>13, <1>14, <2>1
    <2>2. CASE m # l
      <3>1. Counted(m)' = Counted(m) /\ waiters'[m] = waiters[m]
        BY <1>5, <1>10, <1>14, <2>2
      <3> QED BY <3>1 DEF CountInv
    <2> QED BY <2>1, <2>2
  <1> QED BY <1>15, <1>16 DEF CountInv

LEMMA CountDecStep ==
    ASSUME BaseInv, CountInv, NEW t \in Threads, LockDec(t)
    PROVE  CountInv'
  <1>1. Busy(t) /\ Top(t).op = "lock" /\ Top(t).pc = "dec" /\ StackType
    BY DEF LockDec, At, BaseInv, ShapeInv
  <1>2. PICK e : e = Top(t)
    OBVIOUS
  <1>3. PICK l : l = e.m
    OBVIOUS
  <1>4. /\ Formed(t, e) /\ e = stack[t][1] /\ stack[t] \in Seq(FrameType) /\ Len(stack[t]) \in Nat
        /\ e.op = "lock" /\ e.pc = "dec" /\ Len(stack[t]) > 1
    BY <1>1, <1>2, TopFrame DEF BaseInv
  <1>5. l \in Locks /\ waiters' = [waiters EXCEPT ![l] = @ - 1]
    BY <1>2, <1>3, <1>4 DEF Formed, LockDec, Reached
  <1>7. \A m \in Locks : Counts(e, m) <=> m = l
    BY <1>3, <1>4 DEF Counts
  <1>8. PICK len \in Nat : len = Len(stack[t])
    BY <1>4
  <1>9. /\ Alone(t)
        /\ \A m \in Locks :
           /\ \A k \in Nat : k # len => (CountAt(stack'[t], k, m) <=> CountAt(stack[t], k, m))
           /\ ~CountAt(stack'[t], len, m)
           /\ CountAt(stack[t], len, m) <=> m = l
    <2>1. CASE e.v # TimedOut
      <3>1. PICK f \in FrameType : Later(e, f, "try", 0) /\ Replaces(stack[t], stack'[t], f) /\ Alone(t)
        <4>1. "try" \in Pcs /\ 0 \in 0 .. 3 /\ Goto(t, "try", 0)
          BY <1>2, <2>1 DEF Pcs, LockDec
        <4> QED BY <1>1, <1>2, <4>1, Went
      <3>2. \A m \in Locks : ~Counts(f, m)
        BY <3>1 DEF Counts, Later
      <3> QED BY <1>4, <1>7, <1>8, <3>1, <3>2, CountReplaces
    <2>2. CASE e.v = TimedOut
      <3>1. /\ stack'[t] = <<>> /\ Alone(t) /\ Len(stack[t]) = 2 /\ stack[t][2].op = "timedsection"
        BY <1>2, <2>2, GivingUpStack DEF GivingUp
      <3>2. \A m \in Locks, k \in Nat : ~CountAt(stack'[t], k, m)
        BY <3>1 DEF CountAt
      <3>3. \A k \in Nat : k \in 1 .. 2 <=> k = 1 \/ k = 2
        OBVIOUS
      <3>4. \A m \in Locks : ~CountAt(stack[t], 1, m) /\ (CountAt(stack[t], 2, m) <=> m = l)
        BY <1>4, <1>7, <3>1, <3>3 DEF CountAt, Counts
      <3>5. \A m \in Locks, k \in Nat : k # 2 => ~CountAt(stack[t], k, m)
        BY <3>1, <3>3, <3>4 DEF CountAt
      <3> QED BY <1>8, <3>1, <3>2, <3>4, <3>5
    <2> QED BY <2>1, <2>2
  <1>10. \A m \in Locks : m # l => Counted(m)' = Counted(m)
    BY <1>9, CountedSame
  <1>11. Counted(l)' = Counted(l) \ {<<t, len>>}
    BY <1>5, <1>9, CountedStep
  <1>12. <<t, len>> \in Counted(l)
    BY <1>5, <1>9 DEF Counted
  <1>13. waiters \in [Locks -> Nat] /\ IsFiniteSet(Counted(l)) /\ Cardinality(Counted(l)) = waiters[l]
    BY <1>5 DEF CountInv
  <1>14. IsFiniteSet(Counted(l)') /\ Cardinality(Counted(l)') = waiters[l] - 1
    BY <1>11, <1>12, <1>13, FS_RemoveElement
  <1>15. waiters' \in [Locks -> Nat]
    <2>1. waiters[l] - 1 \in Nat
      BY <1>14, FS_CardinalityType
    <2> QED BY <1>5, <1>13, <2>1
  <1>16. ASSUME NEW m \in Locks
         PROVE  IsFiniteSet(Counted(m)') /\ Cardinality(Counted(m)') = waiters'[m]
    <2>1. CASE m = l
      BY <1>5, <1>13, <1>14, <2>1
    <2>2. CASE m # l
      <3>1. Counted(m)' = Counted(m) /\ waiters'[m] = waiters[m]
        BY <1>5, <1>10, <1>13, <2>2
      <3> QED BY <3>1 DEF CountInv
    <2> QED BY <2>1, <2>2
  <1> QED BY <1>15, <1>16 DEF CountInv

LEMMA CountKindStep ==
    ASSUME BaseInv, CountInv, NEW t \in Threads, Kind(t)
    PROVE  CountInv'
  <1>1. stack[t] \in Seq(FrameType) /\ Alone(t) /\ Len(stack[t]) \in Nat
    BY ShapeStep DEF BaseInv, ShapeInv, StackType
  <1>0. \A s : Pops(s, stack'[t]) \/ (\E f : Replaces(s, stack'[t], f)) \/ (\E f, g : Pushes(s, stack'[t], g, f)) => s # <<>>
    BY DEF Pops, Replaces, Pushes
  <1>2. CASE LockInc(t) \/ LockDec(t)
    BY <1>2, CountIncStep, CountDecStep
  <1>3. CASE GoesOn(t) /\ ~LockInc(t) /\ ~LockDec(t)
    <2>1. PICK f \in FrameType : /\ Replaces(stack[t], stack'[t], f)
                                 /\ waiters' = waiters /\ CountsSame(Top(t), f)
      BY <1>3 DEF GoesOn, CountsGo
    <2>2. Top(t) = stack[t][1]
      BY <1>0, <2>1, TopFrame DEF Busy, BaseInv
    <2>3. \A m \in Locks : Counted(m)' = Counted(m)
      BY <1>1, <2>1, <2>2, CountReplaces, CountedSame DEF CountsSame
    <2> QED BY <2>1, <2>3, CountKeptStep
  <1>4. CASE CallsOn(t)
    <2>1. PICK f \in FrameType, g \in FrameType :
             /\ Pushes(stack[t], stack'[t], g, f)
             /\ waiters' = waiters /\ CountsSame(Top(t), f) /\ \A m \in Locks : ~Counts(g, m)
      BY <1>4 DEF CallsOn
    <2>2. Top(t) = stack[t][1]
      BY <1>0, <2>1, TopFrame DEF Busy, BaseInv
    <2>3. \A m \in Locks : Counted(m)' = Counted(m)
      BY <1>1, <2>1, <2>2, CountPushes, CountedSame DEF CountsSame
    <2> QED BY <2>1, <2>3, CountKeptStep
  <1>5. ASSUME Pops(stack[t], stack'[t]), waiters' = waiters, \A m \in Locks : ~Counts(stack[t][1], m)
        PROVE  CountInv'
    <2>1. \A m \in Locks : Counted(m)' = Counted(m)
      BY <1>1, <1>5, CountPops, CountedSame
    <2> QED BY <1>5, <2>1, CountKeptStep
  <1>6. CASE ReturnsOn(t)
    <2>1. Pops(stack[t], stack'[t]) /\ waiters' = waiters /\ Top(t).op # "lock"
      BY <1>6 DEF ReturnsOn
    <2>2. Top(t) = stack[t][1]
      BY <1>0, <2>1, TopFrame DEF Busy, BaseInv
    <2> QED BY <1>5, <2>1, <2>2 DEF Counts
  <1>7. CASE Locking(t)
    <2>1. Pops(stack[t], stack'[t]) /\ Top(t) = stack[t][1]
      BY <1>7, LockingStack
    <2>2. Top(t).pc = "try" /\ waiters' = waiters
      BY <1>7 DEF Locking, LockTry, At
    <2> QED BY <1>5, <2>1, <2>2 DEF Counts
  <1>8. CASE UnlockSwap(t)
    <2>1. /\ Top(t) = stack[t][1] /\ Top(t).op = "unlock"
          /\ \/ Pops(stack[t], stack'[t])
             \/ \E f \in FrameType : Later(Top(t), f, "wake", 0) /\ Replaces(stack[t], stack'[t], f)
      BY <1>8, UnlockingStack
    <2>2. waiters' = waiters
      BY <1>8 DEF UnlockSwap
    <2>3. CASE Pops(stack[t], stack'[t])
      BY <1>5, <2>1, <2>2, <2>3 DEF Counts
    <2>4. CASE \E f \in FrameType : Later(Top(t), f, "wake", 0) /\ Replaces(stack[t], stack'[t], f)
      <3>1. PICK f \in FrameType : Later(Top(t), f, "wake", 0) /\ Replaces(stack[t], stack'[t], f)
        BY <2>4
      <3>2. \A m \in Locks : ~Counts(f, m) /\ ~Counts(stack[t][1], m)
        BY <2>1, <3>1 DEF Counts, Later
      <3>3. \A m \in Locks : Counted(m)' = Counted(m)
        BY <1>1, <3>1, <3>2, CountReplaces, CountedSame
      <3> QED BY <2>2, <3>3, CountKeptStep
    <2> QED BY <2>1, <2>3, <2>4
  <1> QED BY <1>2, <1>3, <1>4, <1>6, <1>7, <1>8 DEF Kind, GivingUp

LEMMA CountStep ==
    ASSUME BaseInv, CountInv, [Next]_vars
    PROVE  CountInv'
  <1>1. CASE \E t \in Threads : Step(t)
    BY <1>1, StepKind, CountKindStep
  <1>2. CASE MainStep \/ MainTimeout
    BY <1>2, MainStepKind, CountKindStep, LocksNamed
  <1>3. CASE Starting
    <2>1. PICK t \in Threads, f \in FrameType : Starts(t, f) /\ Formed(t, f) /\ f.pc = "enter"
      BY <1>3, StartingStep
    <2>2. Alone(t) /\ waiters' = waiters /\ stack[t] = <<>> /\ stack'[t] = <<f>>
      BY <2>1, StartStep DEF Starts, mutexVars
    <2>3. \A m, k : ~CountAt(stack[t], k, m)
      BY <2>2 DEF CountAt
    <2>4. \A m, k : ~CountAt(stack'[t], k, m)
      <3>1. Len(<<f>>) = 1 /\ <<f>>[1] = f /\ \A k : k \in 1 .. 1 => 1 + 1 - k = 1
        OBVIOUS
      <3>2. \A m : ~Counts(f, m)
        BY <2>1 DEF Counts
      <3> QED BY <2>2, <3>1, <3>2 DEF CountAt
    <2>5. \A m \in Locks : Counted(m)' = Counted(m)
      <3>1. 0 \in Nat
        OBVIOUS
      <3> QED BY <2>2, <2>3, <2>4, <3>1, CountedSame
    <2> QED BY <2>2, <2>5, CountKeptStep
  <1>4. CASE UNCHANGED vars
    <2>1. waiters' = waiters /\ \A m \in Locks : Counted(m)' = Counted(m)
      BY <1>4 DEF vars, mutexVars, Counted
    <2> QED BY <2>1, CountKeptStep
  <1> QED BY <1>1, <1>2, <1>3, <1>4 DEF Next, Rest, Starting

-----------------------------------------------------------------------------
(* Unlocking without waking. *)

SleepersInv == SleepInv /\ CountInv

LEMMA NoWaitersNoSleepers ==
    ASSUME BaseInv, SleepersInv, NEW m \in Locks, waiters[m] = 0
    PROVE  asleep[m] = {}
  <1> SUFFICES ASSUME NEW u \in asleep[m] PROVE FALSE
    OBVIOUS
  <1>1. u \in Threads /\ At(u, "lock", "asleep") /\ Reached(u) = m
    BY DEF SleepersInv, SleepInv, Threads
  <1>2. stack[u] \in Seq(FrameType) /\ Len(stack[u]) \in Nat \ {0} /\ Top(u) = stack[u][1]
    BY <1>1, TopFrame DEF At, BaseInv
  <1>3. Len(stack[u]) + 1 - Len(stack[u]) = 1 /\ Len(stack[u]) \in 1 .. Len(stack[u])
    BY <1>2
  <1>4. Counts(stack[u][1], m)
    BY <1>1, <1>2 DEF Counts, At, Reached
  <1>5. <<u, Len(stack[u])>> \in Counted(m)
    BY <1>1, <1>2, <1>3, <1>4 DEF Counted, CountAt
  <1>6. IsFiniteSet(Counted(m)) /\ Cardinality(Counted(m)) = 0
    BY DEF SleepersInv, CountInv
  <1>7. Counted(m) = {}
    BY <1>6, FS_EmptySet
  <1> QED BY <1>5, <1>7

(* Who is about to unlock m, having read the number of waiters. *)
LEMMA SwapOwns ==
    ASSUME BaseInv, NEW u \in Threads, At(u, "unlock", "swap")
    PROVE  Reached(u) \in Locks /\ owner[Reached(u)] = u /\ word[Reached(u)] # Unlocked
  <1>1. /\ Top(u) = stack[u][1] /\ Formed(u, Top(u)) /\ Len(stack[u]) \in Nat \ {0}
        /\ Top(u).op = "unlock" /\ Top(u).pc = "swap"
    BY TopFrame DEF At, BaseInv
  <1>2. Reached(u) \in Locks /\ 1 \in 1 .. Len(stack[u])
    BY <1>1 DEF Formed, Reached
  <1>3. HoldsAt(stack[u], 1, Reached(u))
    BY <1>1 DEF HoldsAt, Holding, Reached
  <1>4. owner[Reached(u)] = u
    BY <1>2, <1>3 DEF BaseInv, OwnsInv, Holds
  <1> QED BY <1>2, <1>4, ThreadsAssumption DEF BaseInv, WordInv

(* A mutex that has been marked stays so until its owner unlocks it. *)
LEMMA MarkStays ==
    ASSUME BaseInv, NEW t \in Threads, Kind(t), NEW m \in Locks, NEW u \in Threads \ {t},
           owner[m] = u, word[m] = Contended
    PROVE  word'[m] = Contended
  <1>1. CASE OwnersKept
    BY <1>1 DEF OwnersKept
  <1>2. CASE Locking(t)
    <2>1. Reached(t) # m
      BY <1>2, LockingStack, ThreadsAssumption
    <2> QED BY <1>2, <2>1, LockingStack DEF BaseInv, WordInv
  <1>3. CASE UnlockSwap(t)
    <2>1. Reached(t) # m
      BY <1>3, UnlockingStack
    <2> QED BY <1>3, <2>1, UnlockingStack DEF BaseInv, WordInv
  <1>4. CASE GivingUp(t)
    BY <1>4, GivingUpStack
  <1> QED BY <1>1, <1>2, <1>3, <1>4 DEF Kind, GoesOn, CallsOn, ReturnsOn

(* Nobody but UnlockWaiters brings a thread to the exchange. *)
LEMMA ReachesSwap ==
    ASSUME BaseInv, NEW t \in Threads, Kind(t), At(t, "unlock", "swap")'
    PROVE  UnlockWaiters(t)
  <1>1. /\ stack'[t] # <<>> /\ stack'[t] \in Seq(FrameType)
        /\ Head(stack'[t]).op = "unlock" /\ Head(stack'[t]).pc = "swap"
    BY ShapeStep DEF At, Busy, Top, ShapeInv, StackType
  <1>2. PICK n : n = stack'[t]
    OBVIOUS
  <1>3. n[1].op = "unlock" /\ n[1].pc = "swap" /\ Len(n) \in Nat \ {0} /\ n # <<>>
    <2>1. \A s \in Seq(FrameType) : s # <<>> => Head(s) = s[1] /\ Len(s) \in Nat \ {0}
      OBVIOUS
    <2> QED BY <1>1, <1>2, <2>1
  <1>4. ASSUME Pops(stack[t], n) PROVE FALSE
    <2>1. /\ Len(n) = Len(stack[t]) - 1 /\ Len(stack[t]) \in Nat
          /\ \A i \in 1 .. Len(stack[t]) - 1 : n[i] = stack[t][i + 1]
          /\ stack[t] # <<>>
      BY <1>4 DEF Pops
    <2>2. n[1] = stack[t][2] /\ Len(stack[t]) > 1
      BY <1>3, <2>1
    <2>3. Under(Top(t), stack[t][2])
      BY <2>1, <2>2, TopFrame DEF Busy, BaseInv
    <2> QED BY <1>3, <2>2, <2>3 DEF Under, Allocates
  <1>5. CASE GoesOn(t)
    <2>1. PICK f \in FrameType : Replaces(stack[t], n, f) /\ Stays(t, Top(t), f)
      BY <1>2, <1>5 DEF GoesOn
    <2> QED BY <1>3, <2>1 DEF Replaces, Stays
  <1>6. CASE CallsOn(t)
    <2>1. PICK f \in FrameType, g \in FrameType : Pushes(stack[t], n, g, f) /\ g.pc # "swap"
      BY <1>2, <1>6 DEF CallsOn
    <2> QED BY <1>3, <2>1 DEF Pushes
  <1>7. CASE ReturnsOn(t)
    BY <1>2, <1>4, <1>7 DEF ReturnsOn
  <1>8. CASE Locking(t)
    BY <1>2, <1>4, <1>8, LockingStack
  <1>9. CASE UnlockSwap(t)
    <2>1. \/ Pops(stack[t], n)
          \/ \E f \in FrameType : Later(Top(t), f, "wake", 0) /\ Replaces(stack[t], n, f)
      BY <1>2, <1>9, UnlockingStack
    <2> QED BY <1>3, <1>4, <2>1 DEF Later, Replaces
  <1>10. CASE GivingUp(t)
    BY <1>2, <1>3, <1>10, GivingUpStack
  <1> QED BY <1>5, <1>6, <1>7, <1>8, <1>9, <1>10 DEF Kind

LEMMA ReadsWaiters ==
    ASSUME BaseInv, NEW t \in Threads, UnlockWaiters(t)
    PROVE  /\ Reached(t)' = Reached(t) /\ Reached(t) \in Locks /\ asleep' = asleep
           /\ SleepersInv /\ Top(t)'.v # 1 => waiters[Reached(t)] = 0
  <1>1. Busy(t) /\ Top(t).op = "unlock" /\ StackType /\ Reached(t) \in Locks
    BY TopFrame DEF UnlockWaiters, At, BaseInv, ShapeInv, Formed, Reached
  <1>2. PICK v \in {0, 1} : Goto(t, "swap", v) /\ v = IF waiters[Reached(t)] > 0 THEN 1 ELSE 0
    BY DEF UnlockWaiters
  <1>3. PICK f \in FrameType : Later(Top(t), f, "swap", v) /\ Replaces(stack[t], stack'[t], f) /\ Alone(t)
    <2>1. "swap" \in Pcs /\ v \in 0 .. 3
      BY DEF Pcs
    <2> QED BY <1>1, <1>2, <2>1, Went
  <1>4. stack'[t] # <<>> /\ stack'[t] \in Seq(FrameType) /\ stack'[t][1] = f
    BY <1>3 DEF Replaces, Alone
  <1>5. Top(t)' = f
    BY <1>4 DEF Top
  <1>6. Reached(t)' = Reached(t) /\ Top(t)'.v = v
    BY <1>3, <1>5 DEF Reached, Later
  <1>7. SleepersInv /\ v # 1 => waiters[Reached(t)] = 0
    BY <1>1, <1>2 DEF SleepersInv, CountInv
  <1> QED BY <1>1, <1>6, <1>7 DEF UnlockWaiters, mutexVars

LEMMA ReadStep ==
    ASSUME BaseInv, SleepersInv, ReadInv, [Next]_vars
    PROVE  ReadInv'
  <1> SUFFICES ASSUME NEW u \in Threads, At(u, "unlock", "swap")', Top(u)'.v # 1,
                      asleep'[Reached(u)'] # {}
               PROVE  word'[Reached(u)'] = Contended
    BY DEF ReadInv
  <1>1. ASSUME NEW t \in Threads, Kind(t), Step(t) \/ (t = Main /\ (MainStep \/ MainTimeout)), t # u
        PROVE  word'[Reached(u)'] = Contended
    <2>1. stack'[u] = stack[u]
      BY <1>1, ShapeStep DEF Alone
    <2>2. PICK m : m = Reached(u)
      OBVIOUS
    <2>3. At(u, "unlock", "swap") /\ Top(u).v # 1 /\ Reached(u)' = m
      BY <2>1, <2>2 DEF At, Busy, Top, Reached
    <2>4. m \in Locks /\ owner[m] = u
      BY <2>2, <2>3, SwapOwns
    <2>5. word[m] = Contended
      <3>1. CASE asleep[m] # {}
        BY <2>2, <2>3, <3>1 DEF ReadInv
      <3>2. CASE asleep[m] = {}
        <4>1. asleep'[m] # {}
          BY <2>3
        <4>2. WorkerWait(t)
          <5>1. asleep' # asleep
            BY <3>2, <4>1
          <5>2. ~UnlockWake(t)
            BY <2>4, <3>2, <4>1 DEF UnlockWake, SleepersInv, SleepInv
          <5>3. Step(t)
            BY <1>1, <5>1, MainAsleep
          <5> QED BY <5>1, <5>2, <5>3, StepAsleep
        <4>3. Reached(t) = m /\ word[Reached(t)] = Contended
          BY <2>4, <3>2, <4>1, <4>2, FallsAsleep DEF SleepersInv, SleepInv
        <4> QED BY <4>3
      <3> QED BY <3>1, <3>2
    <2>6. word'[m] = Contended
      BY <1>1, <2>4, <2>5, MarkStays
    <2> QED BY <2>3, <2>6
  <1>2. ASSUME Kind(u) PROVE FALSE
    <2>1. UnlockWaiters(u)
      BY <1>2, ReachesSwap
    <2>2. waiters[Reached(u)] = 0 /\ Reached(u)' = Reached(u) /\ asleep' = asleep /\ Reached(u) \in Locks
      BY <2>1, ReadsWaiters
    <2> QED BY <2>2, NoWaitersNoSleepers
  <1>3. CASE \E t \in Threads : Step(t)
    BY <1>1, <1>2, <1>3, StepKind
  <1>4. CASE MainStep \/ MainTimeout
    BY <1>1, <1>2, <1>4, MainStepKind, LocksNamed
  <1>5. ASSUME stack'[u] = stack[u], UNCHANGED mutexVars PROVE word'[Reached(u)'] = Contended
    BY <1>5 DEF ReadInv, At, Busy, Top, Reached, mutexVars
  <1>6. CASE Starting
    <2>1. PICK t \in Threads, f \in FrameType : Starts(t, f) /\ Formed(t, f) /\ f.pc = "enter"
      BY <1>6, StartingStep
    <2>2. Alone(t) /\ stack'[t] = <<f>> /\ UNCHANGED mutexVars
      BY <2>1, StartStep DEF Starts
    <2>3. CASE t = u
      <3>1. Head(<<f>>) = f
        OBVIOUS
      <3> QED BY <2>1, <2>2, <2>3, <3>1 DEF At, Top
    <2>4. CASE t # u
      BY <1>5, <2>2, <2>4 DEF Alone
    <2> QED BY <2>3, <2>4
  <1>7. CASE UNCHANGED vars
    BY <1>5, <1>7 DEF vars
  <1> QED BY <1>3, <1>4, <1>6, <1>7 DEF Next, Rest, Starting

-----------------------------------------------------------------------------
(* Sleepers and those that will wake them. *)

(* A frame that will see to the sleepers of m. *)
Sees(f, m) == f.m = m /\ (f.op = "lock" \/ (f.op = "unlock" /\ f.pc = "wake"))

SeesAt(s, m) == \E i \in 1 .. Len(s) : Sees(s[i], m)

(* Without timed locks, nobody gives up. *)
LEMMA NobodyGivesUp ==
    ASSUME TimedLocks = {}, NEW t \in Threads, NEW s \in Seq(FrameType), Shape(t, s),
           NEW i \in 1 .. Len(s), s[i].op = "lock"
    PROVE  s[i].v # TimedOut
  <1> SUFFICES ASSUME s[i].v = TimedOut PROVE FALSE
    OBVIOUS
  <1>1. i # Len(s) /\ Len(s) \in Nat
    BY DEF Shape
  <1>2. i < Len(s) /\ i + 1 \in 1 .. Len(s)
    BY <1>1
  <1>3. Under(s[i], s[i + 1]) /\ Formed(t, s[i + 1])
    BY <1>2 DEF Shape
  <1>4. s[i + 1].op = "timedsection"
    BY <1>3 DEF Under
  <1> QED BY <1>3, <1>4 DEF Formed

(* Whoever sees to the sleepers of m attends to it, unless it is asleep.   *)
LEMMA SeerAttends ==
    ASSUME ShapeInv', TimedLocks = {}, NEW t \in Threads, NEW m \in Locks,
           SeesAt(stack'[t], m), t \notin asleep'[m]
    PROVE  Attends(t, m)'
  <1>1. PICK i \in 1 .. Len(stack'[t]) : Sees(stack'[t][i], m)
    BY DEF SeesAt
  <1>2. stack'[t] \in Seq(FrameType) /\ Shape(t, stack'[t])
    BY DEF ShapeInv, StackType
  <1>3. i \in DOMAIN stack'[t]
    BY <1>2
  <1>4. stack'[t][i].op = "lock" => stack'[t][i].v # TimedOut
    BY <1>2, NobodyGivesUp
  <1> QED BY <1>1, <1>3, <1>4 DEF Sees, Attends

(* Who unlocks does nothing above that. *)
LEMMA AttendantAwake ==
    ASSUME BaseInv, SleepInv, NEW t \in Threads, NEW m \in Locks, Attends(t, m)
    PROVE  t \notin asleep[m]
  <1> SUFFICES ASSUME t \in asleep[m] PROVE FALSE
    OBVIOUS
  <1>1. stack[t] \in Seq(FrameType) /\ Shape(t, stack[t])
    BY DEF BaseInv, ShapeInv, StackType
  <1>2. PICK s : s = stack[t]
    OBVIOUS
  <1>3. Busy(t) /\ Top(t).op = "lock"
    BY DEF SleepInv, At
  <1>4. s[1].op = "lock"
    BY <1>2, <1>3, TopFrame DEF BaseInv
  <1>5. PICK i \in 1 .. Len(s) : s[i].op = "unlock"
    BY <1>1, <1>2 DEF Attends
  <1>6. i - 1 \in 1 .. Len(s) /\ i - 1 < Len(s) /\ i - 1 + 1 = i
    BY <1>1, <1>2, <1>4, <1>5
  <1>7. Under(s[i - 1], s[i])
    BY <1>1, <1>2, <1>6 DEF Shape
  <1> QED BY <1>5, <1>7 DEF Under, Allocates

LEMMA AttendantSees ==
    ASSUME BaseInv, NEW t \in Threads, NEW m \in Locks, Attends(t, m)
    PROVE  SeesAt(stack[t], m)
  <1>1. DOMAIN stack[t] = 1 .. Len(stack[t])
    BY DEF BaseInv, ShapeInv, StackType
  <1> QED BY <1>1 DEF Attends, SeesAt, Sees

LEMMA SeesReplaces ==
    ASSUME NEW s, NEW n, NEW f, NEW m, Replaces(s, n, f), SeesAt(s, m), Sees(s[1], m) => Sees(f, m)
    PROVE  SeesAt(n, m)
  <1>1. /\ Len(n) = Len(s) /\ Len(s) \in Nat \ {0} /\ n[1] = f
        /\ \A i \in 2 .. Len(s) : n[i] = s[i]
    BY DEF Replaces
  <1>2. PICK i \in 1 .. Len(s) : Sees(s[i], m)
    BY DEF SeesAt
  <1>3. CASE i = 1
    BY <1>1, <1>2, <1>3 DEF SeesAt
  <1>4. CASE i # 1
    <2>1. n[i] = s[i] /\ i \in 1 .. Len(n)
      BY <1>1, <1>4
    <2> QED BY <1>2, <2>1 DEF SeesAt
  <1> QED BY <1>3, <1>4

LEMMA SeesPushes ==
    ASSUME NEW s, NEW n, NEW g, NEW f, NEW m, Pushes(s, n, g, f), SeesAt(s, m), Sees(s[1], m) => Sees(f, m)
    PROVE  SeesAt(n, m)
  <1>1. /\ Len(n) = Len(s) + 1 /\ Len(s) \in Nat \ {0} /\ n[2] = f
        /\ \A i \in 2 .. Len(s) : n[i + 1] = s[i]
    BY DEF Pushes
  <1>2. PICK i \in 1 .. Len(s) : Sees(s[i], m)
    BY DEF SeesAt
  <1>3. CASE i = 1
    <2>1. 2 \in 1 .. Len(n)
      BY <1>1
    <2> QED BY <1>1, <1>2, <1>3, <2>1 DEF SeesAt
  <1>4. CASE i # 1
    <2>1. n[i + 1] = s[i] /\ i + 1 \in 1 .. Len(n)
      BY <1>1, <1>4
    <2> QED BY <1>2, <2>1 DEF SeesAt
  <1> QED BY <1>3, <1>4

LEMMA SeesPops ==
    ASSUME NEW s, NEW n, NEW m, Pops(s, n), SeesAt(s, m), ~Sees(s[1], m)
    PROVE  SeesAt(n, m)
  <1>1. /\ Len(n) = Len(s) - 1 /\ Len(s) \in Nat \ {0}
        /\ \A i \in 1 .. Len(s) - 1 : n[i] = s[i + 1]
    BY DEF Pops
  <1>2. PICK i \in 1 .. Len(s) : Sees(s[i], m)
    BY DEF SeesAt
  <1>3. i - 1 \in 1 .. Len(s) - 1 /\ i # 1
    BY <1>1, <1>2
  <1>4. n[i - 1] = s[i] /\ i - 1 \in 1 .. Len(n)
    BY <1>1, <1>3
  <1> QED BY <1>2, <1>4 DEF SeesAt

(* A thread stops seeing to m when it locks it, or when it has woken one.  *)
LEMMA KeepsSeeing ==
    ASSUME BaseInv, TimedLocks = {}, NEW t \in Threads, Kind(t), NEW m \in Locks, SeesAt(stack[t], m)
    PROVE  \/ SeesAt(stack'[t], m)
           \/ Locking(t) /\ Reached(t) = m
           \/ UnlockWake(t) /\ Reached(t) = m
  <1>0. \A s : Pops(s, stack'[t]) \/ (\E f : Replaces(s, stack'[t], f)) \/ (\E f, g : Pushes(s, stack'[t], g, f)) => s # <<>>
    BY DEF Pops, Replaces, Pushes
  <1>1. CASE GoesOn(t)
    <2>1. PICK f \in FrameType : Replaces(stack[t], stack'[t], f) /\ Stays(t, Top(t), f)
      BY <1>1 DEF GoesOn
    <2>2. Top(t) = stack[t][1]
      BY <1>0, <2>1, TopFrame DEF Busy, BaseInv
    <2> QED BY <2>1, <2>2, SeesReplaces DEF Stays, Sees
  <1>2. CASE CallsOn(t)
    <2>1. PICK f \in FrameType, g \in FrameType : Pushes(stack[t], stack'[t], g, f) /\ Stays(t, Top(t), f)
      BY <1>2 DEF CallsOn
    <2>2. Top(t) = stack[t][1]
      BY <1>0, <2>1, TopFrame DEF Busy, BaseInv
    <2> QED BY <2>1, <2>2, SeesPushes DEF Stays, Sees
  <1>3. CASE ReturnsOn(t)
    <2>1. Pops(stack[t], stack'[t]) /\ Top(t).op # "lock" /\ (Top(t).op = "unlock" => UnlockWake(t))
      BY <1>3 DEF ReturnsOn
    <2>2. Top(t) = stack[t][1]
      BY <1>0, <2>1, TopFrame DEF Busy, BaseInv
    <2> QED BY <2>1, <2>2, SeesPops DEF Sees, Reached
  <1>4. CASE Locking(t)
    <2>1. Pops(stack[t], stack'[t]) /\ Top(t) = stack[t][1]
      BY <1>4, LockingStack
    <2> QED BY <1>4, <2>1, SeesPops DEF Sees, Reached
  <1>5. CASE UnlockSwap(t)
    <2>1. /\ Top(t) = stack[t][1] /\ Top(t).op = "unlock" /\ Top(t).pc = "swap"
          /\ \/ Pops(stack[t], stack'[t])
             \/ \E f \in FrameType : Later(Top(t), f, "wake", 0) /\ Replaces(stack[t], stack'[t], f)
      BY <1>5, UnlockingStack
    <2>2. ~Sees(stack[t][1], m)
      BY <2>1 DEF Sees
    <2> QED BY <2>1, <2>2, SeesPops, SeesReplaces
  <1>6. CASE GivingUp(t)
    BY <1>6, GivingUpStack
  <1> QED BY <1>1, <1>2, <1>3, <1>4, <1>5, <1>6 DEF Kind

(* All that is known when no lock has a time limit. *)
WaitInv == BaseInv /\ FutexInv /\ SleepersInv /\ ReadInv

LEMMA WaitStep ==
    ASSUME WaitInv, [Next]_vars
    PROVE  WaitInv'
BY BaseStep, FutexStep, SleepStep, CountStep, ReadStep DEF WaitInv, SleepersInv

LEMMA TopSees ==
    ASSUME BaseInv, NEW u \in Threads, Busy(u), Top(u).op = "lock"
    PROVE  SeesAt(stack[u], Reached(u))
  <1>1. Top(u) = stack[u][1] /\ Len(stack[u]) \in Nat \ {0}
    BY TopFrame DEF BaseInv
  <1>2. 1 \in 1 .. Len(stack[u])
    BY <1>1
  <1> QED BY <1>1, <1>2 DEF SeesAt, Sees, Reached

(* Whoever unlocks m with sleepers will wake one. *)
LEMMA UnlockerSees ==
    ASSUME WaitInv, NEW t \in Threads, UnlockSwap(t), asleep[Reached(t)] # {}
    PROVE  SeesAt(stack'[t], Reached(t))
  <1>1. /\ \/ Pops(stack[t], stack'[t]) /\ ~MustWake(t)
           \/ \E f \in FrameType : Later(Top(t), f, "wake", 0) /\ Replaces(stack[t], stack'[t], f)
        /\ Top(t).op = "unlock"
    BY UnlockingStack DEF WaitInv
  <1>2. ~MustWake(t) => FALSE
    <2> SUFFICES ASSUME ~MustWake(t) PROVE FALSE
      OBVIOUS
    <2>1. Top(t).v # 1 /\ word[Reached(t)] # Contended /\ At(t, "unlock", "swap")
      BY DEF MustWake, UnlockSwap
    <2> QED BY <2>1 DEF WaitInv, ReadInv
  <1>3. PICK f \in FrameType : Later(Top(t), f, "wake", 0) /\ Replaces(stack[t], stack'[t], f)
    BY <1>1, <1>2
  <1>4. Sees(f, Reached(t))
    BY <1>1, <1>3 DEF Later, Sees, Reached
  <1>5. 1 \in 1 .. Len(stack'[t]) /\ stack'[t][1] = f
    BY <1>3 DEF Replaces
  <1> QED BY <1>4, <1>5 DEF SeesAt


(* While the sleepers of m have somebody to see to them, the step of a     *)
(* thread leaves them somebody.                                            *)
LEMMA StrandKind ==
    ASSUME WaitInv, TimedLocks = {}, NoStrandedWaiter, NEW t \in Threads, Kind(t),
           Step(t) \/ (t = Main /\ (MainStep \/ MainTimeout)),
           NEW m \in Locks, asleep'[m] # {}, word'[m] = Unlocked
    PROVE  \E u \in Threads : SeesAt(stack'[u], m) /\ u \notin asleep'[m]
  <1>0. Alone(t) /\ BaseInv /\ SleepInv /\ WordInv
    BY ShapeStep DEF WaitInv, SleepersInv, BaseInv
  <1>1. CASE UnlockSwap(t) /\ Reached(t) = m
    <2>1. asleep' = asleep /\ t \notin asleep[m]
      BY <1>0, <1>1, Awake DEF UnlockSwap, At
    <2>2. SeesAt(stack'[t], m)
      BY <1>1, <2>1, UnlockerSees
    <2> QED BY <2>1, <2>2
  <1>2. CASE UnlockWake(t) /\ Reached(t) = m
    <2>1. CASE futex = m
      <3>1. At(Main, "lock", "spin") /\ Reached(Main) = m /\ Main \in Threads
        BY <2>1, LocksNamed DEF WaitInv, FutexInv
      <3>2. Main # t
        BY <1>2, <3>1 DEF UnlockWake, At
      <3>3. stack'[Main] = stack[Main]
        BY <1>0, <3>1, <3>2 DEF Alone
      <3>4. SeesAt(stack[Main], m)
        BY <1>0, <3>1, TopSees DEF At
      <3>5. asleep' = asleep
        BY <1>2, <2>1 DEF UnlockWake
      <3>6. Main \notin asleep[m]
        BY <1>0, ThreadsAssumption DEF SleepInv
      <3> QED BY <3>1, <3>3, <3>4, <3>5, <3>6
    <2>2. CASE futex # m
      <3>1. PICK w \in asleep[m] : asleep' = [asleep EXCEPT ![m] = @ \ {w}]
        BY <1>2, <2>2 DEF UnlockWake
      <3>2. w \in Threads /\ At(w, "lock", "asleep") /\ Reached(w) = m
        BY <1>0 DEF SleepInv, Threads
      <3>3. w # t
        BY <1>2, <3>2 DEF UnlockWake, At
      <3>4. stack'[w] = stack[w]
        BY <1>0, <3>2, <3>3 DEF Alone
      <3>5. SeesAt(stack[w], m)
        BY <1>0, <3>2, TopSees DEF At
      <3>6. w \notin asleep'[m]
        BY <1>0, <3>1 DEF SleepInv
      <3> QED BY <3>2, <3>4, <3>5, <3>6
    <2> QED BY <2>1, <2>2
  <1>3. ASSUME ~(UnlockSwap(t) /\ Reached(t) = m), ~(UnlockWake(t) /\ Reached(t) = m)
        PROVE  \E u \in Threads : SeesAt(stack'[u], m) /\ u \notin asleep'[m]
    <2>1. ~(Locking(t) /\ Reached(t) = m)
      <3>1. ASSUME Locking(t), Reached(t) = m PROVE FALSE
        BY <1>0, <3>1, LockingStack DEF WordInv, Locked, Unlocked
      <3> QED BY <3>1
    <2>2. word[m] = Unlocked
      <3>1. CASE OwnersKept
        BY <3>1 DEF OwnersKept
      <3>2. CASE Locking(t)
        BY <1>0, <2>1, <3>2, LockingStack DEF WordInv
      <3>3. CASE UnlockSwap(t)
        BY <1>0, <1>3, <3>3, UnlockingStack DEF WordInv
      <3>4. CASE GivingUp(t)
        BY <1>0, <3>4, GivingUpStack
      <3> QED BY <3>1, <3>2, <3>3, <3>4 DEF Kind, GoesOn, CallsOn, ReturnsOn
    <2>3. asleep'[m] = asleep[m]
      <3>1. CASE asleep' = asleep
        BY <3>1
      <3>2. CASE WorkerWait(t)
        <4>1. word[Reached(t)] = Contended => Reached(t) # m
          BY <2>2 DEF Unlocked, Contended
        <4> QED BY <1>0, <3>2, <4>1, FallsAsleep DEF SleepInv
      <3>3. CASE UnlockWake(t)
        BY <1>0, <1>3, <3>3 DEF UnlockWake, SleepInv
      <3> QED BY <3>1, <3>2, <3>3, StepAsleep, MainAsleep
    <2>4. PICK u \in Threads : Attends(u, m)
      BY <2>2, <2>3 DEF NoStrandedWaiter
    <2>5. SeesAt(stack[u], m) /\ u \notin asleep'[m]
      BY <1>0, <2>3, <2>4, AttendantSees, AttendantAwake
    <2>6. CASE u = t
      BY <1>0, <1>3, <2>1, <2>5, <2>6, KeepsSeeing
    <2>7. CASE u # t
      BY <1>0, <2>5, <2>7 DEF Alone
    <2> QED BY <2>6, <2>7
  <1> QED BY <1>1, <1>2, <1>3

LEMMA StrandStep ==
    ASSUME WaitInv, TimedLocks = {}, NoStrandedWaiter, [Next]_vars
    PROVE  NoStrandedWaiter'
  <1> SUFFICES ASSUME NEW m \in Locks, asleep'[m] # {}, word'[m] = Unlocked
               PROVE  \E u \in Threads : Attends(u, m)'
    BY DEF NoStrandedWaiter
  <1>0. BaseInv /\ SleepInv /\ ShapeInv'
    BY WaitStep DEF WaitInv, SleepersInv, BaseInv
  <1>1. ASSUME NEW u \in Threads, SeesAt(stack'[u], m), u \notin asleep'[m]
        PROVE  Attends(u, m)'
    BY <1>0, <1>1, SeerAttends
  <1>2. CASE \E t \in Threads : Step(t)
    <2>1. PICK t \in Threads : Step(t)
      BY <1>2
    <2>2. Kind(t)
      BY <1>0, <2>1, StepKind
    <2>3. PICK u \in Threads : SeesAt(stack'[u], m) /\ u \notin asleep'[m]
      BY <2>1, <2>2, StrandKind
    <2> QED BY <1>1, <2>3
  <1>3. CASE MainStep \/ MainTimeout
    <2>1. Kind(Main) /\ Main \in Threads
      BY <1>0, <1>3, MainStepKind, LocksNamed
    <2>2. PICK u \in Threads : SeesAt(stack'[u], m) /\ u \notin asleep'[m]
      BY <1>3, <2>1, StrandKind
    <2> QED BY <1>1, <2>2
  <1>4. CASE Starting
    <2>1. PICK t \in Threads, f \in FrameType : Starts(t, f) /\ Formed(t, f) /\ f.pc = "enter"
      BY <1>0, <1>4, StartingStep
    <2>2. Alone(t) /\ UNCHANGED mutexVars /\ stack[t] = <<>>
      BY <1>0, <2>1, StartStep DEF Starts, Busy
    <2>3. PICK u \in Threads : Attends(u, m)
      BY <2>2 DEF mutexVars, NoStrandedWaiter
    <2>4. u # t
      BY <2>2, <2>3 DEF Attends
    <2>5. stack'[u] = stack[u]
      BY <2>2, <2>4 DEF Alone
    <2> QED BY <2>2, <2>3, <2>5 DEF Attends, mutexVars
  <1>5. CASE UNCHANGED vars
    <2>1. stack' = stack /\ asleep' = asleep /\ word' = word
      BY <1>5 DEF vars, mutexVars
    <2>2. PICK u \in Threads : Attends(u, m)
      BY <2>1 DEF NoStrandedWaiter
    <2> QED BY <2>1, <2>2 DEF Attends
  <1> QED BY <1>2, <1>3, <1>4, <1>5 DEF Next, Rest, Starting

LEMMA WaitInit == Init => WaitInv /\ NoStrandedWaiter
  <1> SUFFICES ASSUME Init PROVE WaitInv /\ NoStrandedWaiter
    OBVIOUS
  <1>1. BaseInv /\ FutexInv
    BY BaseInit DEF Init, FutexInv
  <1>2. \A t \in Threads : stack[t] = <<>>
    BY DEF Init
  <1>3. \A m \in Locks : asleep[m] = {}
    BY DEF Init
  <1>4. SleepInv /\ NoStrandedWaiter
    BY <1>3 DEF Init, SleepInv, NoStrandedWaiter
  <1>5. ReadInv
    BY <1>2 DEF ReadInv, At, Busy
  <1>6. \A m \in Locks : Counted(m) = {}
    BY <1>2 DEF Counted, CountAt
  <1>7. CountInv
    BY <1>6, FS_EmptySet DEF CountInv, Init
  <1> QED BY <1>1, <1>4, <1>5, <1>7 DEF WaitInv, SleepersInv

(* NoStrandedWaiter: when the mutex is free and workers sleep on it, some  *)
(* thread is about to call emscripten_futex_wake for it, or is awake in    *)
(* pthread_mutex_lock.  It holds for any number of workers, as long as the *)
(* main thread does not use pthread_mutex_timedlock: when its time is over,*)
(* it leaves without passing on a wake-up it was given.                    *)
THEOREM SleepersAreWoken ==
    ASSUME TimedLocks = {}
    PROVE  Spec => []NoStrandedWaiter
  <1>1. WaitInv /\ NoStrandedWaiter /\ [Next]_vars => (WaitInv /\ NoStrandedWaiter)'
    BY WaitStep, StrandStep
  <1> QED BY <1>1, WaitInit, PTL DEF Spec
=============================================================================
