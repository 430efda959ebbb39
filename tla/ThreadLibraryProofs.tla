------------------------ MODULE ThreadLibraryProofs ------------------------
(***************************************************************************)
(* For every number of threads: the lock, the condition variable and the   *)
(* semaphore of emscripten_thread_primitives.c, the asynchronous waits of  *)
(* libatomic.js and musl's internal lock keep the invariants that the run  *)
(* of MCThreadLibrary checks for a few threads.                            *)
(***************************************************************************)
EXTENDS MCThreadLibrary, FiniteSetTheorems, TLAPS

(* The instances' operators on finite sets are the standard ones. *)
LEMMA LockFinite ==
    /\ \A S : Lock!IsFiniteSet(S) <=> IsFiniteSet(S)
    /\ \A S : Lock!Cardinality(S) = Cardinality(S)
  BY DEF Lock!IsFiniteSet, IsFiniteSet, Lock!Cardinality, Cardinality

-----------------------------------------------------------------------------
(* emscripten_lock and emscripten_condvar.                                 *)

LockHolds(t) ==
    \/ pc[t] \in {"held", "store"}
    \/ pc[t] \in Lock!Signalling /\ then[t] = "held"

(* One thread at most holds the lock, and the word is 1 while one does. *)
LockOwned ==
    /\ word["lock"] \in {0, 1}
    /\ \A t \in Lock!Threads : LockHolds(t) => word["lock"] = 1
    /\ \A t, u \in Lock!Threads : LockHolds(t) /\ LockHolds(u) => t = u
    /\ word["lock"] = 1 => \E t \in Lock!Threads : LockHolds(t)

(* Where a thread goes on after a release or a signal. *)
LockReturns ==
    \A t \in Lock!Threads :
        /\ pc[t] \in {"store", "notify"} => then[t] \in {"idle", "cvwait"}
        /\ pc[t] = "cvwait" => then[t] = "cvwait"
        /\ pc[t] \in Lock!Signalling => then[t] \in {"idle", "held"}

SleepingMode(t) == mode[t] \in {"inf", "timed", "async"}

InCondWait(t) ==
    \/ pc[t] \in {"cvwait", "cvasleep"}
    \/ pc[t] \in {"store", "notify"} /\ then[t] = "cvwait"

(* Who is in a wait on one of the two words, and how they got there. *)
LockSleepers ==
    /\ \A t \in sleepers["lock"] : pc[t] = "asleep"
    /\ \A t \in sleepers["condvar"] : pc[t] = "cvasleep"
    /\ \A t \in Lock!Threads : Lock!At(t, "asleep") => SleepingMode(t)
    /\ \A t \in Lock!Threads : Lock!At(t, "wait") => SleepingMode(t) \/ mode[t] = "asyncnow"
    /\ \A t \in Lock!Threads : InCondWait(t) => SleepingMode(t)

LockInv == Lock!TypeOK /\ LockOwned /\ LockReturns /\ LockSleepers

LEMMA LockInitial ==
    ASSUME Lock!Init
    PROVE  LockInv
  BY LibraryAssumption
  DEF Lock!Init, LockInv, Lock!TypeOK, LockOwned, LockReturns, LockSleepers, LockHolds,
      SleepingMode, InCondWait, Lock!At,
      Lock!WasmLockAssumption, Lock!Lock, Lock!Condvar, Lock!Places, Lock!Modes,
      Lock!Signalling

LEMMA LockStep ==
    ASSUME LockInv, Lock!Next
    PROVE  LockInv'
  <1> PICK t \in Lock!Threads : Lock!Step(t) \/ Lock!Time(t) \/ Lock!Program(t)
    BY DEF Lock!Next
  <1> USE DEF LockInv, Lock!TypeOK, LockOwned, LockReturns, LockSleepers, LockHolds,
      SleepingMode, InCondWait, Lock!Lock, Lock!Condvar, Lock!Places, Lock!Modes, Lock!Signalling, Lock!At, Lock!Go
  <1>1. CASE Lock!Cas(t)
    <2>1. CASE word["lock"] = 0
      BY <1>1, <2>1 DEF Lock!Cas
    <2>2. CASE word["lock"] = 1
      BY <1>1, <2>2 DEF Lock!Cas
    <2> QED BY <2>1, <2>2
  <1>2. CASE Lock!Wait(t)
    <2>1. Lock!TypeOK' /\ LockReturns' /\ LockSleepers'
      BY <1>2 DEF Lock!Wait
    <2>2. LockOwned'
      BY <1>2 DEF Lock!Wait
    <2> QED BY <2>1, <2>2
  <1>3. CASE Lock!Woken(t)
    BY <1>3 DEF Lock!Woken
  <1>4. CASE Lock!ReleaseStore(t)
    <2>1. LockHolds(t) /\ \A u \in Lock!Threads : u # t => ~LockHolds(u)
      BY <1>4 DEF Lock!ReleaseStore
    <2>2. \A u \in Lock!Threads : ~LockHolds(u)'
      BY <1>4, <2>1 DEF Lock!ReleaseStore
    <2>3. LockOwned'
      BY <1>4, <2>2 DEF Lock!ReleaseStore
    <2>4. Lock!TypeOK' /\ LockReturns' /\ LockSleepers'
      BY <1>4 DEF Lock!ReleaseStore
    <2> QED BY <2>3, <2>4
  <1>5. CASE Lock!ReleaseNotify(t)
    <2>1. PICK woken \in SUBSET sleepers["lock"] :
              sleepers' = [sleepers EXCEPT !["lock"] = @ \ woken]
      BY <1>5 DEF Lock!ReleaseNotify, Lock!Notify
    <2>2. Lock!TypeOK' /\ LockReturns' /\ LockSleepers'
      BY <1>5, <2>1 DEF Lock!ReleaseNotify
    <2>3. LockOwned'
      BY <1>5 DEF Lock!ReleaseNotify
    <2> QED BY <2>2, <2>3
  <1>6. CASE Lock!CondSleep(t)
    BY <1>6 DEF Lock!CondSleep, Lock!AfterCondWait
  <1>7. CASE Lock!CondWoken(t)
    BY <1>7 DEF Lock!CondWoken, Lock!AfterCondWait
  <1>8. CASE Lock!SignalNotify(t)
    BY <1>8 DEF Lock!SignalNotify, Lock!Notify
  <1>9. CASE Lock!GiveUp(t)
    BY <1>9 DEF Lock!GiveUp
  <1>10. CASE Lock!TimesOut(t)
    BY <1>10 DEF Lock!TimesOut, Lock!Leave
  <1>11. CASE Lock!CondTimesOut(t)
    BY <1>11 DEF Lock!CondTimesOut, Lock!Leave, Lock!AfterCondTimeout
  <1>12. CASE \E m \in Lock!Modes : Lock!Request(t, m)
    BY <1>12, LibraryAssumption DEF Lock!Request, Lock!WasmLockAssumption
  <1>13. CASE \E m \in Lock!Modes : Lock!CondWait(t, m)
    BY <1>13 DEF Lock!CondWait
  <1>14. CASE Lock!Release(t)
    BY <1>14 DEF Lock!Release
  <1>15. CASE \E all \in BOOLEAN : Lock!Signal(t, all)
    BY <1>15 DEF Lock!Signal
  <1> QED BY <1>1, <1>2, <1>3, <1>4, <1>5, <1>6, <1>7, <1>8, <1>9, <1>10, <1>11, <1>12,
             <1>13, <1>14, <1>15 DEF Lock!Step, Lock!Time, Lock!Program

(* atomic.notify of one waiter wakes one if there is one, and atomic.notify *)
(* of as many as there are threads wakes all.                               *)
LEMMA NotifyWakes ==
    ASSUME LockInv, NEW a \in {"lock", "condvar"}, NEW n \in Nat \ {0}, Lock!Notify(a, n)
    PROVE  /\ sleepers' \in [{"lock", "condvar"} -> SUBSET Lock!Threads]
           /\ \A b \in {"lock", "condvar"} : sleepers'[b] \subseteq sleepers[b]
           /\ \A b \in {"lock", "condvar"} : b # a => sleepers'[b] = sleepers[b]
           /\ sleepers[a] # {} => \E u \in sleepers[a] : u \notin sleepers'[a]
           /\ n >= Cardinality(Lock!Threads) => sleepers'[a] = {}
  <1>1. PICK woken \in SUBSET sleepers[a] :
            /\ Cardinality(woken) = IF Cardinality(sleepers[a]) < n
                                       THEN Cardinality(sleepers[a]) ELSE n
            /\ sleepers' = [sleepers EXCEPT ![a] = @ \ woken]
    BY LockFinite DEF Lock!Notify
  <1>2. sleepers \in [{"lock", "condvar"} -> SUBSET Lock!Threads]
    BY DEF LockInv, Lock!TypeOK, Lock!Lock, Lock!Condvar
  <1>3. IsFiniteSet(Lock!Threads)
    BY LibraryAssumption, LockFinite DEF Lock!WasmLockAssumption
  <1>4. /\ IsFiniteSet(sleepers[a]) /\ Cardinality(sleepers[a]) \in Nat
        /\ Cardinality(sleepers[a]) <= Cardinality(Lock!Threads)
        /\ Cardinality(Lock!Threads) \in Nat
    BY <1>2, <1>3, FS_Subset, FS_CardinalityType
  <1>5. IsFiniteSet(woken) /\ Cardinality(woken) \in Nat
    BY <1>4, FS_Subset, FS_CardinalityType
  <1>6. ASSUME sleepers[a] # {} PROVE \E u \in sleepers[a] : u \notin sleepers'[a]
    <2>1. Cardinality(sleepers[a]) # 0
      BY <1>4, <1>6, FS_EmptySet
    <2>2. Cardinality(woken) # 0
      BY <1>1, <1>4, <2>1
    <2>3. PICK u \in woken : TRUE
      BY <1>5, <2>2, FS_EmptySet
    <2> QED BY <1>1, <1>2, <2>3
  <1>7. ASSUME n >= Cardinality(Lock!Threads) PROVE sleepers'[a] = {}
    <2>1. Cardinality(woken) = Cardinality(sleepers[a])
      BY <1>1, <1>4, <1>7
    <2>2. woken = sleepers[a]
      BY <1>4, <2>1, FS_Subset
    <2> QED BY <1>1, <1>2, <2>2
  <1> QED BY <1>1, <1>2, <1>6, <1>7

(* A thread that will take or release the lock, and cannot give up first. *)
LockAwake(t) ==
    \/ pc[t] = "notify"
    \/ pc[t] = "cas" /\ mode[t] # "timedspin"
    \/ pc[t] = "asleep" /\ t \notin sleepers["lock"]

(* NoStrandedSleeper, without the threads that may give up. *)
LockWakes ==
    word["lock"] = 0 /\ sleepers["lock"] # {} => \E t \in Lock!Threads : LockAwake(t)

LEMMA LockWakesStep ==
    ASSUME LockInv, LockWakes, Lock!Next
    PROVE  LockWakes'
  <1> PICK t \in Lock!Threads : Lock!Step(t) \/ Lock!Time(t) \/ Lock!Program(t)
    BY DEF Lock!Next
  <1> USE DEF LockInv, Lock!TypeOK, LockOwned, LockReturns, LockSleepers, LockWakes, LockAwake,
      SleepingMode, InCondWait, Lock!Lock, Lock!Condvar, Lock!Places, Lock!Modes,
      Lock!Signalling, Lock!At, Lock!Go
  <1>1. CASE Lock!Cas(t)
    BY <1>1 DEF Lock!Cas
  <1>2. CASE Lock!Wait(t)
    BY <1>2 DEF Lock!Wait
  <1>3. CASE Lock!Woken(t)
    BY <1>3 DEF Lock!Woken
  <1>4. CASE Lock!ReleaseStore(t)
    BY <1>4 DEF Lock!ReleaseStore
  <1>5. CASE Lock!ReleaseNotify(t)
    <2>1. Lock!Notify("lock", 1)
      BY <1>5 DEF Lock!ReleaseNotify
    <2>2. CASE sleepers["lock"] = {}
      BY <1>5, <2>1, <2>2, NotifyWakes DEF Lock!ReleaseNotify
    <2>3. CASE sleepers["lock"] # {}
      <3>1. PICK u \in sleepers["lock"] : u \notin sleepers'["lock"]
        BY <2>1, <2>3, NotifyWakes
      <3>2. u # t /\ pc'[u] = "asleep" /\ u \in Lock!Threads
        BY <1>5, <3>1 DEF Lock!ReleaseNotify
      <3> QED BY <3>1, <3>2
    <2> QED BY <2>2, <2>3
  <1>6. CASE Lock!CondSleep(t)
    BY <1>6 DEF Lock!CondSleep, Lock!AfterCondWait
  <1>7. CASE Lock!CondWoken(t)
    BY <1>7 DEF Lock!CondWoken, Lock!AfterCondWait
  <1>8. CASE Lock!SignalNotify(t)
    BY <1>8 DEF Lock!SignalNotify, Lock!Notify
  <1>9. CASE Lock!GiveUp(t)
    BY <1>9 DEF Lock!GiveUp
  <1>10. CASE Lock!TimesOut(t)
    BY <1>10 DEF Lock!TimesOut, Lock!Leave
  <1>11. CASE Lock!CondTimesOut(t)
    BY <1>11 DEF Lock!CondTimesOut, Lock!Leave, Lock!AfterCondTimeout
  <1>12. CASE \E m \in Lock!Modes : Lock!Request(t, m)
    BY <1>12, LibraryAssumption DEF Lock!Request, Lock!WasmLockAssumption
  <1>13. CASE \E m \in Lock!Modes : Lock!CondWait(t, m)
    BY <1>13 DEF Lock!CondWait
  <1>14. CASE Lock!Release(t)
    BY <1>14 DEF Lock!Release
  <1>15. CASE \E all \in BOOLEAN : Lock!Signal(t, all)
    BY <1>15 DEF Lock!Signal
  <1> QED BY <1>1, <1>2, <1>3, <1>4, <1>5, <1>6, <1>7, <1>8, <1>9, <1>10, <1>11, <1>12,
             <1>13, <1>14, <1>15 DEF Lock!Step, Lock!Time, Lock!Program

(* What a thread in a condition wait has read of the counter is no newer   *)
(* than what it was when the thread released the lock.                     *)
CondvarRead ==
    /\ broadcast <= word["condvar"]
    /\ \A t \in Lock!Threads : seen[t] <= word["condvar"] /\ left[t] <= word["condvar"]
    /\ \A t \in Lock!Threads :
          pc[t] = "cvwait" \/ (pc[t] = "notify" /\ then[t] = "cvwait") => seen[t] <= left[t]

CondvarInv == CondvarRead /\ Lock!BroadcastReachesWaiters

LEMMA CondvarStep ==
    ASSUME LockInv, CondvarInv, Lock!Next
    PROVE  CondvarInv'
  <1> PICK t \in Lock!Threads : Lock!Step(t) \/ Lock!Time(t) \/ Lock!Program(t)
    BY DEF Lock!Next
  <1> USE DEF LockInv, Lock!TypeOK, LockReturns, LockSleepers, CondvarInv, CondvarRead,
      Lock!BroadcastReachesWaiters, Lock!Lock, Lock!Condvar, Lock!Places,
      Lock!Signalling, Lock!At, Lock!Go
  <1>1. CASE Lock!Cas(t)
    BY <1>1 DEF Lock!Cas
  <1>2. CASE Lock!Wait(t)
    BY <1>2 DEF Lock!Wait
  <1>3. CASE Lock!Woken(t)
    BY <1>3 DEF Lock!Woken
  <1>4. CASE Lock!ReleaseStore(t)
    BY <1>4 DEF Lock!ReleaseStore
  <1>5. CASE Lock!ReleaseNotify(t)
    BY <1>5, NotifyWakes DEF Lock!ReleaseNotify
  <1>6. CASE Lock!CondSleep(t)
    BY <1>6 DEF Lock!CondSleep, Lock!AfterCondWait
  <1>7. CASE Lock!CondWoken(t)
    BY <1>7 DEF Lock!CondWoken, Lock!AfterCondWait
  <1>8. CASE Lock!SignalNotify(t)
    <2>1. CASE pc[t] = "signalall"
      <3>1. Cardinality(Lock!Threads) \in Nat \ {0}
        <4>1. IsFiniteSet(Lock!Threads)
          BY LibraryAssumption, LockFinite DEF Lock!WasmLockAssumption
        <4> QED BY <4>1, FS_EmptySet, FS_CardinalityType
      <3>2. Lock!Notify("condvar", Cardinality(Lock!Threads))
        BY <1>8, <2>1, LockFinite DEF Lock!SignalNotify
      <3>3. sleepers'["condvar"] = {}
        BY <3>1, <3>2, NotifyWakes
      <3>4. CondvarRead'
        BY <1>8 DEF Lock!SignalNotify
      <3> QED BY <3>3, <3>4
    <2>2. CASE pc[t] = "signalone"
      <3>1. Lock!Notify("condvar", 1)
        BY <1>8, <2>2 DEF Lock!SignalNotify
      <3>2. sleepers'["condvar"] \subseteq sleepers["condvar"]
        BY <3>1, NotifyWakes
      <3> QED BY <1>8, <2>2, <3>2 DEF Lock!SignalNotify
    <2> QED BY <1>8, <2>1, <2>2 DEF Lock!SignalNotify
  <1>9. CASE Lock!GiveUp(t)
    BY <1>9 DEF Lock!GiveUp
  <1>10. CASE Lock!TimesOut(t)
    BY <1>10 DEF Lock!TimesOut, Lock!Leave
  <1>11. CASE Lock!CondTimesOut(t)
    BY <1>11 DEF Lock!CondTimesOut, Lock!Leave, Lock!AfterCondTimeout
  <1>12. CASE \E m \in Lock!Modes : Lock!Request(t, m)
    BY <1>12, LibraryAssumption DEF Lock!Request, Lock!WasmLockAssumption
  <1>13. CASE \E m \in Lock!Modes : Lock!CondWait(t, m)
    BY <1>13 DEF Lock!CondWait
  <1>14. CASE Lock!Release(t)
    BY <1>14 DEF Lock!Release
  <1>15. CASE \E all \in BOOLEAN : Lock!Signal(t, all)
    BY <1>15 DEF Lock!Signal
  <1> QED BY <1>1, <1>2, <1>3, <1>4, <1>5, <1>6, <1>7, <1>8, <1>9, <1>10, <1>11, <1>12,
             <1>13, <1>14, <1>15 DEF Lock!Step, Lock!Time, Lock!Program

-----------------------------------------------------------------------------
(* emscripten_semaphore.                                                   *)

(* The instances held by the threads of H when thread t asked for n[t]. *)
Instances(T, total, H, n) == {x \in T \X (1 .. total) : x[1] \in H /\ x[2] <= n[x[1]]}

LEMMA InstancesFinite ==
    ASSUME NEW T, IsFiniteSet(T), NEW total \in Nat, NEW H, NEW n
    PROVE  /\ IsFiniteSet(Instances(T, total, H, n))
           /\ Cardinality(Instances(T, total, H, n)) \in Nat
  <1>1. IsFiniteSet(1 .. total)
    BY FS_Interval
  <1>2. IsFiniteSet(T \X (1 .. total))
    BY <1>1, FS_Product
  <1> QED BY <1>2, FS_Subset, FS_CardinalityType DEF Instances

(* A thread that acquires adds what it asked for. *)
LEMMA InstancesGrow ==
    ASSUME NEW T, IsFiniteSet(T), NEW total \in Nat, NEW H \in SUBSET T,
           NEW n \in [T -> 0 .. total], NEW t \in T, t \notin H
    PROVE  Cardinality(Instances(T, total, H \cup {t}, n))
             = Cardinality(Instances(T, total, H, n)) + n[t]
  <1> DEFINE own == {t} \X (1 .. n[t])
             old == Instances(T, total, H, n)
  <1>1. IsFiniteSet(own) /\ Cardinality(own) = n[t]
    <2>1. n[t] \in Nat
      OBVIOUS
    <2>2. IsFiniteSet(1 .. n[t]) /\ Cardinality(1 .. n[t]) = n[t]
      BY <2>1, FS_Interval
    <2>3. IsFiniteSet({t}) /\ Cardinality({t}) = 1
      BY FS_Singleton
    <2>4. IsFiniteSet(own) /\ Cardinality(own) = Cardinality({t}) * Cardinality(1 .. n[t])
      BY <2>2, <2>3, FS_Product
    <2> QED BY <2>1, <2>2, <2>3, <2>4
  <1>2. Instances(T, total, H \cup {t}, n) = old \cup own
    BY DEF Instances
  <1>3. old \cap own = {}
    BY DEF Instances
  <1>4. IsFiniteSet(old) /\ Cardinality(old) \in Nat
    BY InstancesFinite
  <1>5. Cardinality(old \cup own) = Cardinality(old) + Cardinality(own) - Cardinality(old \cap own)
    BY <1>1, <1>4, FS_Union
  <1>6. Cardinality(old \cap own) = 0
    BY <1>3, FS_EmptySet
  <1>7. n[t] \in Nat
    OBVIOUS
  <1> HIDE DEF old, own
  <1>8. Cardinality(old \cup own) = Cardinality(old) + n[t]
    BY <1>1, <1>4, <1>5, <1>6, <1>7
  <1> QED BY <1>2, <1>8 DEF old

(* A compare-and-exchange that succeeds takes no more than there is,       *)
(* because it starts from a count that was large enough.                   *)
SemReady ==
    \A t \in Semaphore!Threads :
        /\ pc[t] = "cas" => val[t] >= num[t]
        /\ mode[t] = "async" => t \in {}

SemInv == Semaphore!TypeOK /\ SemReady /\ Semaphore!InstancesConserved

SemHeld == {t \in Semaphore!Threads : pc[t] = "held"}

LEMMA SemFinite ==
    /\ IsFiniteSet(Semaphore!Threads) /\ SemTotal \in Nat
    /\ \A S : Semaphore!Cardinality(S) = Cardinality(S)
  <1>1. \A S : Semaphore!IsFiniteSet(S) <=> IsFiniteSet(S)
    BY DEF Semaphore!IsFiniteSet, IsFiniteSet
  <1>2. \A S : Semaphore!Cardinality(S) = Cardinality(S)
    BY DEF Semaphore!Cardinality, Cardinality
  <1> QED BY <1>1, <1>2, LibraryAssumption DEF Semaphore!WasmSemaphoreAssumption

LEMMA SemConserved ==
    Semaphore!InstancesConserved <=>
        sem + Cardinality(Instances(Semaphore!Threads, SemTotal, SemHeld, num)) = SemTotal
  <1>1. Semaphore!Acquired = Instances(Semaphore!Threads, SemTotal, SemHeld, num)
    BY DEF Semaphore!Acquired, Instances, SemHeld
  <1> QED BY <1>1, SemFinite DEF Semaphore!InstancesConserved

LEMMA SemInitial ==
    ASSUME Semaphore!Init
    PROVE  SemInv
  <1>1. Semaphore!TypeOK /\ \A t \in Semaphore!Threads : pc[t] = "idle" /\ mode[t] = "try"
    BY SemFinite, LibraryAssumption
    DEF Semaphore!Init, Semaphore!TypeOK, Semaphore!Modes, Semaphore!WasmSemaphoreAssumption
  <1>2. Instances(Semaphore!Threads, SemTotal, SemHeld, num) = {}
    BY DEF Semaphore!Init, Instances, SemHeld
  <1> QED BY <1>1, <1>2, SemFinite, SemConserved, FS_EmptySet DEF Semaphore!Init, SemInv, SemReady

(* The threads that hold instances, and what they asked for, stay. *)
LEMMA SemSame ==
    ASSUME SemInv, SemHeld' = SemHeld, sem' = sem,
           \A t \in SemHeld : num'[t] = num[t]
    PROVE  Semaphore!InstancesConserved'
  <1>1. Instances(Semaphore!Threads, SemTotal, SemHeld, num)'
          = Instances(Semaphore!Threads, SemTotal, SemHeld, num)
    BY DEF Instances, SemHeld
  <1>2. sem + Cardinality(Instances(Semaphore!Threads, SemTotal, SemHeld, num)) = SemTotal
    BY SemConserved DEF SemInv
  <1>3. (sem + Cardinality(Instances(Semaphore!Threads, SemTotal, SemHeld, num)) = SemTotal)'
    BY <1>1, <1>2
  <1> QED BY <1>3, SemConserved, PTL

LEMMA SemStep ==
    ASSUME SemInv, Semaphore!Next
    PROVE  SemInv'
  <1> DEFINE Count == Cardinality(Instances(Semaphore!Threads, SemTotal, SemHeld, num))
  <1>a. /\ SemTotal \in Nat /\ sem \in 0 .. SemTotal /\ Count \in Nat /\ sem + Count = SemTotal
        /\ IsFiniteSet(Semaphore!Threads) /\ num \in [Semaphore!Threads -> 0 .. SemTotal]
    BY SemFinite, SemConserved, InstancesFinite DEF SemInv, Semaphore!TypeOK
  <1>b. Semaphore!InstancesConserved' <=> (sem + Count = SemTotal)'
    BY SemConserved, PTL
  <1> PICK t \in Semaphore!Threads :
        \/ \E m \in Semaphore!Modes, n \in {1} : Semaphore!Request(t, m, n)
        \/ Semaphore!Step(t) \/ Semaphore!TimesOut(t) \/ Semaphore!ReleaseAdd(t)
    BY DEF Semaphore!Next
  <1> HIDE DEF Count
  <1>c. Semaphore!TypeOK /\ SemReady
    BY DEF SemInv
  <1> USE DEF Semaphore!At, Semaphore!Go
  <1>1. CASE \E m \in Semaphore!Modes, n \in {1} : Semaphore!Request(t, m, n)
    <2>1. Semaphore!TypeOK' /\ SemReady'
      BY <1>1, <1>a, <1>c, LibraryAssumption DEF Semaphore!TypeOK, SemReady, Semaphore!Modes, Semaphore!Request, Semaphore!WasmSemaphoreAssumption, Semaphore!Threads
    <2>2. SemHeld' = SemHeld /\ sem' = sem /\ \A u \in SemHeld : num'[u] = num[u]
      BY <1>1, <1>c DEF Semaphore!TypeOK, Semaphore!Request, SemHeld, Semaphore!TypeOK
    <2> QED BY <2>1, <2>2, SemSame DEF SemInv
  <1>2. CASE Semaphore!Load(t) \/ Semaphore!Test(t) \/ Semaphore!Woken(t) \/ Semaphore!TimesOut(t) \/ Semaphore!AsyncWait(t)
             \/ Semaphore!ReleaseNotify(t)
    <2>1. Semaphore!TypeOK' /\ SemReady'
      <3>1. CASE Semaphore!Load(t) \/ Semaphore!Woken(t) \/ Semaphore!TimesOut(t)
        BY <1>c, <3>1 DEF Semaphore!TypeOK, SemReady, Semaphore!Modes, Semaphore!Load, Semaphore!Woken, Semaphore!TimesOut
      <3>2. CASE Semaphore!Test(t)
        BY <1>c, <3>2 DEF Semaphore!TypeOK, SemReady, Semaphore!Modes, Semaphore!Test, Semaphore!Enough
      <3>3. CASE Semaphore!AsyncWait(t)
        BY <1>c, <3>3 DEF Semaphore!TypeOK, SemReady, Semaphore!Modes, Semaphore!AsyncWait
      <3>4. CASE Semaphore!ReleaseNotify(t)
        BY <1>c, <3>4 DEF Semaphore!TypeOK, SemReady, Semaphore!Modes, Semaphore!ReleaseNotify
      <3> QED BY <1>2, <3>1, <3>2, <3>3, <3>4
    <2>2. SemHeld' = SemHeld /\ sem' = sem /\ num' = num
      BY <1>2, <1>c DEF Semaphore!TypeOK, Semaphore!Load, Semaphore!Test, Semaphore!Woken, Semaphore!TimesOut, Semaphore!AsyncWait,
                  Semaphore!ReleaseNotify, SemHeld, Semaphore!TypeOK
    <2> QED BY <2>1, <2>2, SemSame DEF SemInv
  <1>3. CASE Semaphore!Cas(t) \/ Semaphore!AsyncCas(t)
    <2>1. CASE sem = val[t]
      <3>0. /\ sem' = sem - num[t] /\ pc' = [pc EXCEPT ![t] = "held"]
            /\ UNCHANGED <<sleepers, orphans, mode, num, val, requests>>
        BY <1>3, <2>1 DEF Semaphore!Cas, Semaphore!AsyncCas
      <3>1. Semaphore!TypeOK' /\ SemReady' /\ sem' = sem - num[t] /\ num' = num
        <4>1. pc[t] = "cas" /\ num[t] <= sem
          BY <1>3, <1>a, <1>c, <2>1 DEF Semaphore!Cas, Semaphore!AsyncCas, SemReady, Semaphore!TypeOK
        <4>2. sem' \in 0 .. SemTotal
          BY <1>a, <3>0, <4>1
        <4>3. Semaphore!TypeOK'
          BY <1>c, <3>0, <4>2 DEF Semaphore!TypeOK
        <4>4. SemReady'
          BY <1>c, <3>0 DEF Semaphore!TypeOK, SemReady
        <4> QED BY <3>0, <4>3, <4>4
      <3>2. SemHeld' = SemHeld \cup {t} /\ t \notin SemHeld
        BY <1>3, <1>c, <2>1 DEF Semaphore!Cas, Semaphore!AsyncCas, SemHeld, Semaphore!TypeOK
      <3>3. Count' = Count + num[t]
        BY <1>a, <3>1, <3>2, InstancesGrow DEF Count, SemHeld, Semaphore!TypeOK
      <3>4. sem' + Count' = SemTotal
        BY <1>a, <3>1, <3>3
      <3> QED BY <3>1, <3>4, <1>b DEF SemInv
    <2>2. CASE sem # val[t]
      <3>0. /\ val' = [val EXCEPT ![t] = sem] /\ pc' = [pc EXCEPT ![t] = "test"]
            /\ UNCHANGED <<sem, sleepers, orphans, mode, num, requests>>
        BY <1>3, <2>2 DEF Semaphore!Cas, Semaphore!AsyncCas
      <3>1. Semaphore!TypeOK' /\ SemReady'
        <4>3. Semaphore!TypeOK'
          BY <1>c, <3>0 DEF Semaphore!TypeOK
        <4>4. SemReady'
          BY <1>c, <3>0 DEF Semaphore!TypeOK, SemReady
        <4> QED BY <3>0, <4>3, <4>4
      <3>2. SemHeld' = SemHeld /\ sem' = sem /\ num' = num
        BY <1>3, <1>c, <2>2 DEF Semaphore!Cas, Semaphore!AsyncCas, SemHeld, Semaphore!TypeOK
      <3> QED BY <3>1, <3>2, SemSame DEF SemInv
    <2> QED BY <2>1, <2>2
  <1>4. CASE Semaphore!ReleaseAdd(t)
    <2>1. SemHeld = SemHeld' \cup {t} /\ t \notin SemHeld' /\ SemHeld' \subseteq Semaphore!Threads
      BY <1>4, <1>c DEF Semaphore!TypeOK, Semaphore!ReleaseAdd, SemHeld, Semaphore!TypeOK
    <2>2. num' = num /\ sem' = sem + num[t]
      BY <1>4, <1>c DEF Semaphore!TypeOK, Semaphore!ReleaseAdd
    <2>3. Count = Count' + num[t] /\ Count' \in Nat
      BY <1>a, <2>1, <2>2, InstancesGrow, InstancesFinite DEF Count
    <2>4. sem' + Count' = SemTotal
      BY <1>a, <2>2, <2>3
    <2>5. Semaphore!TypeOK' /\ SemReady'
      BY <1>4, <1>a, <1>c, <2>3, <2>4 DEF Semaphore!TypeOK, SemReady, Semaphore!Modes, Semaphore!ReleaseAdd
    <2> QED BY <2>4, <2>5, <1>b DEF SemInv
  <1> QED BY <1>1, <1>2, <1>3, <1>4 DEF Semaphore!Step

(* A compare-and-exchange that succeeds takes no more than there is,       *)
(* because it starts from a count that was large enough.                   *)
SizesSemReady ==
    \A t \in SizesSem!Threads :
        /\ pc[t] = "cas" => val[t] >= num[t]
        /\ mode[t] = "async" => t \in SizesLoops

SizesSemInv == SizesSem!TypeOK /\ SizesSemReady /\ SizesSem!InstancesConserved

SizesSemHeld == {t \in SizesSem!Threads : pc[t] = "held"}

LEMMA SizesSemFinite ==
    /\ IsFiniteSet(SizesSem!Threads) /\ SizesTotal \in Nat
    /\ \A S : SizesSem!Cardinality(S) = Cardinality(S)
  <1>1. \A S : SizesSem!IsFiniteSet(S) <=> IsFiniteSet(S)
    BY DEF SizesSem!IsFiniteSet, IsFiniteSet
  <1>2. \A S : SizesSem!Cardinality(S) = Cardinality(S)
    BY DEF SizesSem!Cardinality, Cardinality
  <1> QED BY <1>1, <1>2, LibraryAssumption DEF SizesSem!WasmSemaphoreAssumption

LEMMA SizesSemConserved ==
    SizesSem!InstancesConserved <=>
        sem + Cardinality(Instances(SizesSem!Threads, SizesTotal, SizesSemHeld, num)) = SizesTotal
  <1>1. SizesSem!Acquired = Instances(SizesSem!Threads, SizesTotal, SizesSemHeld, num)
    BY DEF SizesSem!Acquired, Instances, SizesSemHeld
  <1> QED BY <1>1, SizesSemFinite DEF SizesSem!InstancesConserved

LEMMA SizesSemInitial ==
    ASSUME SizesSem!Init
    PROVE  SizesSemInv
  <1>1. SizesSem!TypeOK /\ \A t \in SizesSem!Threads : pc[t] = "idle" /\ mode[t] = "try"
    BY SizesSemFinite, LibraryAssumption
    DEF SizesSem!Init, SizesSem!TypeOK, SizesSem!Modes, SizesSem!WasmSemaphoreAssumption
  <1>2. Instances(SizesSem!Threads, SizesTotal, SizesSemHeld, num) = {}
    BY DEF SizesSem!Init, Instances, SizesSemHeld
  <1> QED BY <1>1, <1>2, SizesSemFinite, SizesSemConserved, FS_EmptySet DEF SizesSem!Init, SizesSemInv, SizesSemReady

(* The threads that hold instances, and what they asked for, stay. *)
LEMMA SizesSemSame ==
    ASSUME SizesSemInv, SizesSemHeld' = SizesSemHeld, sem' = sem,
           \A t \in SizesSemHeld : num'[t] = num[t]
    PROVE  SizesSem!InstancesConserved'
  <1>1. Instances(SizesSem!Threads, SizesTotal, SizesSemHeld, num)'
          = Instances(SizesSem!Threads, SizesTotal, SizesSemHeld, num)
    BY DEF Instances, SizesSemHeld
  <1>2. sem + Cardinality(Instances(SizesSem!Threads, SizesTotal, SizesSemHeld, num)) = SizesTotal
    BY SizesSemConserved DEF SizesSemInv
  <1>3. (sem + Cardinality(Instances(SizesSem!Threads, SizesTotal, SizesSemHeld, num)) = SizesTotal)'
    BY <1>1, <1>2
  <1> QED BY <1>3, SizesSemConserved, PTL

LEMMA SizesSemStep ==
    ASSUME SizesSemInv, SizesSem!Next
    PROVE  SizesSemInv'
  <1> DEFINE Count == Cardinality(Instances(SizesSem!Threads, SizesTotal, SizesSemHeld, num))
  <1>a. /\ SizesTotal \in Nat /\ sem \in 0 .. SizesTotal /\ Count \in Nat /\ sem + Count = SizesTotal
        /\ IsFiniteSet(SizesSem!Threads) /\ num \in [SizesSem!Threads -> 0 .. SizesTotal]
    BY SizesSemFinite, SizesSemConserved, InstancesFinite DEF SizesSemInv, SizesSem!TypeOK
  <1>b. SizesSem!InstancesConserved' <=> (sem + Count = SizesTotal)'
    BY SizesSemConserved, PTL
  <1> PICK t \in SizesSem!Threads :
        \/ \E m \in SizesSem!Modes, n \in Sizes : SizesSem!Request(t, m, n)
        \/ SizesSem!Step(t) \/ SizesSem!TimesOut(t) \/ SizesSem!ReleaseAdd(t)
    BY DEF SizesSem!Next
  <1> HIDE DEF Count
  <1>c. SizesSem!TypeOK /\ SizesSemReady
    BY DEF SizesSemInv
  <1> USE DEF SizesSem!At, SizesSem!Go
  <1>1. CASE \E m \in SizesSem!Modes, n \in Sizes : SizesSem!Request(t, m, n)
    <2>1. SizesSem!TypeOK' /\ SizesSemReady'
      BY <1>1, <1>a, <1>c, LibraryAssumption DEF SizesSem!TypeOK, SizesSemReady, SizesSem!Modes, SizesSem!Request, SizesSem!WasmSemaphoreAssumption, SizesSem!Threads
    <2>2. SizesSemHeld' = SizesSemHeld /\ sem' = sem /\ \A u \in SizesSemHeld : num'[u] = num[u]
      BY <1>1, <1>c DEF SizesSem!TypeOK, SizesSem!Request, SizesSemHeld, SizesSem!TypeOK
    <2> QED BY <2>1, <2>2, SizesSemSame DEF SizesSemInv
  <1>2. CASE SizesSem!Load(t) \/ SizesSem!Test(t) \/ SizesSem!Woken(t) \/ SizesSem!TimesOut(t) \/ SizesSem!AsyncWait(t)
             \/ SizesSem!ReleaseNotify(t)
    <2>1. SizesSem!TypeOK' /\ SizesSemReady'
      <3>1. CASE SizesSem!Load(t) \/ SizesSem!Woken(t) \/ SizesSem!TimesOut(t)
        BY <1>c, <3>1 DEF SizesSem!TypeOK, SizesSemReady, SizesSem!Modes, SizesSem!Load, SizesSem!Woken, SizesSem!TimesOut
      <3>2. CASE SizesSem!Test(t)
        BY <1>c, <3>2 DEF SizesSem!TypeOK, SizesSemReady, SizesSem!Modes, SizesSem!Test, SizesSem!Enough
      <3>3. CASE SizesSem!AsyncWait(t)
        BY <1>c, <3>3 DEF SizesSem!TypeOK, SizesSemReady, SizesSem!Modes, SizesSem!AsyncWait
      <3>4. CASE SizesSem!ReleaseNotify(t)
        BY <1>c, <3>4 DEF SizesSem!TypeOK, SizesSemReady, SizesSem!Modes, SizesSem!ReleaseNotify
      <3> QED BY <1>2, <3>1, <3>2, <3>3, <3>4
    <2>2. SizesSemHeld' = SizesSemHeld /\ sem' = sem /\ num' = num
      BY <1>2, <1>c DEF SizesSem!TypeOK, SizesSem!Load, SizesSem!Test, SizesSem!Woken, SizesSem!TimesOut, SizesSem!AsyncWait,
                  SizesSem!ReleaseNotify, SizesSemHeld, SizesSem!TypeOK
    <2> QED BY <2>1, <2>2, SizesSemSame DEF SizesSemInv
  <1>3. CASE SizesSem!Cas(t) \/ SizesSem!AsyncCas(t)
    <2>1. CASE sem = val[t]
      <3>0. /\ sem' = sem - num[t] /\ pc' = [pc EXCEPT ![t] = "held"]
            /\ UNCHANGED <<sleepers, orphans, mode, num, val, requests>>
        BY <1>3, <2>1 DEF SizesSem!Cas, SizesSem!AsyncCas
      <3>1. SizesSem!TypeOK' /\ SizesSemReady' /\ sem' = sem - num[t] /\ num' = num
        <4>1. pc[t] = "cas" /\ num[t] <= sem
          BY <1>3, <1>a, <1>c, <2>1 DEF SizesSem!Cas, SizesSem!AsyncCas, SizesSemReady, SizesSem!TypeOK
        <4>2. sem' \in 0 .. SizesTotal
          BY <1>a, <3>0, <4>1
        <4>3. SizesSem!TypeOK'
          BY <1>c, <3>0, <4>2 DEF SizesSem!TypeOK
        <4>4. SizesSemReady'
          BY <1>c, <3>0 DEF SizesSem!TypeOK, SizesSemReady
        <4> QED BY <3>0, <4>3, <4>4
      <3>2. SizesSemHeld' = SizesSemHeld \cup {t} /\ t \notin SizesSemHeld
        BY <1>3, <1>c, <2>1 DEF SizesSem!Cas, SizesSem!AsyncCas, SizesSemHeld, SizesSem!TypeOK
      <3>3. Count' = Count + num[t]
        BY <1>a, <3>1, <3>2, InstancesGrow DEF Count, SizesSemHeld, SizesSem!TypeOK
      <3>4. sem' + Count' = SizesTotal
        BY <1>a, <3>1, <3>3
      <3> QED BY <3>1, <3>4, <1>b DEF SizesSemInv
    <2>2. CASE sem # val[t]
      <3>0. /\ val' = [val EXCEPT ![t] = sem] /\ pc' = [pc EXCEPT ![t] = "test"]
            /\ UNCHANGED <<sem, sleepers, orphans, mode, num, requests>>
        BY <1>3, <2>2 DEF SizesSem!Cas, SizesSem!AsyncCas
      <3>1. SizesSem!TypeOK' /\ SizesSemReady'
        <4>3. SizesSem!TypeOK'
          BY <1>c, <3>0 DEF SizesSem!TypeOK
        <4>4. SizesSemReady'
          BY <1>c, <3>0 DEF SizesSem!TypeOK, SizesSemReady
        <4> QED BY <3>0, <4>3, <4>4
      <3>2. SizesSemHeld' = SizesSemHeld /\ sem' = sem /\ num' = num
        BY <1>3, <1>c, <2>2 DEF SizesSem!Cas, SizesSem!AsyncCas, SizesSemHeld, SizesSem!TypeOK
      <3> QED BY <3>1, <3>2, SizesSemSame DEF SizesSemInv
    <2> QED BY <2>1, <2>2
  <1>4. CASE SizesSem!ReleaseAdd(t)
    <2>1. SizesSemHeld = SizesSemHeld' \cup {t} /\ t \notin SizesSemHeld' /\ SizesSemHeld' \subseteq SizesSem!Threads
      BY <1>4, <1>c DEF SizesSem!TypeOK, SizesSem!ReleaseAdd, SizesSemHeld, SizesSem!TypeOK
    <2>2. num' = num /\ sem' = sem + num[t]
      BY <1>4, <1>c DEF SizesSem!TypeOK, SizesSem!ReleaseAdd
    <2>3. Count = Count' + num[t] /\ Count' \in Nat
      BY <1>a, <2>1, <2>2, InstancesGrow, InstancesFinite DEF Count
    <2>4. sem' + Count' = SizesTotal
      BY <1>a, <2>2, <2>3
    <2>5. SizesSem!TypeOK' /\ SizesSemReady'
      BY <1>4, <1>a, <1>c, <2>3, <2>4 DEF SizesSem!TypeOK, SizesSemReady, SizesSem!Modes, SizesSem!ReleaseAdd
    <2> QED BY <2>4, <2>5, <1>b DEF SizesSemInv
  <1> QED BY <1>1, <1>2, <1>3, <1>4 DEF SizesSem!Step

(* With requests of one size: the threads that will look at the count or   *)
(* wake another one that does.                                             *)
SemServing ==
    {t \in Semaphore!Threads :
        \/ pc[t] \in {"notify", "load"}
        \/ pc[t] \in {"test", "cas"} /\ val[t] >= num[t]
        \/ pc[t] = "asleep" /\ t \notin sleepers}

(* NoStrandedAcquirer needs a count: there is one such thread for each     *)
(* instance that is free while somebody sleeps.                            *)
SemServed == sleepers # {} => sem <= Cardinality(SemServing)

SemSleepers ==
    /\ \A t \in sleepers : pc[t] = "asleep"
    /\ \A t \in Semaphore!Threads : pc[t] # "idle" => num[t] = 1

SemWakeInv == SemServed /\ SemSleepers

LEMMA SemServingFinite ==
    ASSUME SemInv
    PROVE  /\ IsFiniteSet(SemServing) /\ Cardinality(SemServing) \in Nat
           /\ IsFiniteSet(sleepers) /\ Cardinality(sleepers) \in Nat
           /\ sem \in Nat /\ sleepers \subseteq Semaphore!Threads /\ orphans = {}
           /\ pc \in [Semaphore!Threads -> {"idle", "load", "test", "cas", "asleep", "held",
                                            "notify", "thrown"}]
           /\ val \in [Semaphore!Threads -> Nat] /\ num \in [Semaphore!Threads -> Nat]
           /\ \A t \in Semaphore!Threads : mode[t] # "async"
           /\ \A t \in Semaphore!Threads : pc[t] = "cas" => val[t] >= num[t]
  <1>1. /\ sem \in 0 .. SemTotal /\ sleepers \in SUBSET Semaphore!Threads
        /\ orphans \in SUBSET {}
        /\ val \in [Semaphore!Threads -> 0 .. SemTotal] /\ num \in [Semaphore!Threads -> 0 .. SemTotal]
        /\ pc \in [Semaphore!Threads -> {"idle", "load", "test", "cas", "asleep", "held",
                                         "notify", "thrown"}]
    BY DEF SemInv, Semaphore!TypeOK
  <1>2. SemServing \in SUBSET Semaphore!Threads
    BY DEF SemServing
  <1>3. IsFiniteSet(SemServing) /\ Cardinality(SemServing) \in Nat
    BY <1>2, SemFinite, FS_Subset, FS_CardinalityType
  <1>4. IsFiniteSet(sleepers) /\ Cardinality(sleepers) \in Nat
    BY <1>1, SemFinite, FS_Subset, FS_CardinalityType
  <1> QED BY <1>1, <1>3, <1>4, SemFinite DEF SemInv, SemReady

LEMMA SemWakeStep ==
    ASSUME SemInv, SemInv', SemWakeInv, Semaphore!Next
    PROVE  SemWakeInv'
  <1> PICK t \in Semaphore!Threads :
        \/ \E m \in Semaphore!Modes, n \in {1} : Semaphore!Request(t, m, n)
        \/ Semaphore!Step(t) \/ Semaphore!TimesOut(t) \/ Semaphore!ReleaseAdd(t)
    BY DEF Semaphore!Next
  <1> DEFINE Size == Cardinality(SemServing)
  <1>0. (Cardinality(SemServing) \in Nat)' /\ (sem \in Nat)'
    BY SemServingFinite, PTL
  <1>a. /\ IsFiniteSet(SemServing) /\ Size \in Nat /\ Size' \in Nat
        /\ IsFiniteSet(sleepers) /\ Cardinality(sleepers) \in Nat
        /\ sem \in Nat /\ sem' \in Nat /\ sleepers \subseteq Semaphore!Threads /\ orphans = {}
        /\ pc \in [Semaphore!Threads -> {"idle", "load", "test", "cas", "asleep", "held",
                                         "notify", "thrown"}]
        /\ val \in [Semaphore!Threads -> Nat] /\ num \in [Semaphore!Threads -> Nat]
        /\ \A u \in Semaphore!Threads : mode[u] # "async"
        /\ \A u \in Semaphore!Threads : pc[u] = "cas" => val[u] >= num[u]
    BY <1>0, SemServingFinite
  <1>b. ASSUME SemServing' = SemServing
        PROVE  Size' = Size
    BY <1>b
  <1>c. ASSUME SemServing' = SemServing \cup {t}
        PROVE  /\ Size' >= Size
               /\ t \notin SemServing => Size' = Size + 1
    <2>1. Cardinality(SemServing \cup {t})
            = IF t \in SemServing THEN Cardinality(SemServing) ELSE Cardinality(SemServing) + 1
      BY <1>a, FS_AddElement
    <2> QED BY <1>a, <1>c, <2>1
  <1>d. ASSUME sem' = 0
        PROVE  SemServed'
    BY <1>a, <1>d DEF SemServed
  <1> HIDE DEF Size
  <1> USE DEF SemServed, Semaphore!At, Semaphore!Go
  <1>1. CASE \E m \in Semaphore!Modes, n \in {1} : Semaphore!Request(t, m, n)
    <2>1. SemServing' = SemServing \cup {t} /\ sem' = sem /\ sleepers' = sleepers
      BY <1>1, <1>a DEF Semaphore!Request, SemServing
    <2>2. SemSleepers'
      BY <1>1, <1>a DEF Semaphore!Request, SemSleepers, SemWakeInv
    <2> QED BY <1>a, <1>c, <2>1, <2>2 DEF SemWakeInv, Size
  <1>2. CASE Semaphore!Load(t)
    <2>1. SemSleepers' /\ sem' = sem /\ sleepers' = sleepers
      BY <1>2, <1>a DEF Semaphore!Load, SemSleepers, SemWakeInv
    <2>2. CASE sem = 0
      BY <1>d, <2>1, <2>2 DEF SemWakeInv
    <2>3. CASE sem # 0
      <3>1. num[t] = 1
        BY <1>2 DEF SemSleepers, SemWakeInv, Semaphore!Load
      <3>2. SemServing' = SemServing
        BY <1>2, <1>a, <2>3, <3>1 DEF Semaphore!Load, SemServing
      <3> QED BY <1>a, <1>b, <2>1, <3>2 DEF SemWakeInv, Size
    <2> QED BY <2>2, <2>3
  <1>3. CASE Semaphore!Test(t)
    <2>0. /\ SemSleepers' /\ sem' = sem
      BY <1>3, <1>a DEF Semaphore!Test, SemSleepers, SemWakeInv
    <2>1. CASE sleepers' = sleepers
      <3>1. SemServing' = SemServing \/ SemServing' = SemServing \cup {t}
        BY <1>3, <1>a, <2>1 DEF Semaphore!Test, Semaphore!Enough, SemServing
      <3> QED BY <1>a, <1>b, <1>c, <2>0, <2>1, <3>1 DEF SemWakeInv, Size
    <2>2. CASE sleepers' # sleepers
      <3>1. num[t] = 1 /\ ~(val[t] >= num[t]) /\ sem = val[t]
        BY <1>3, <2>2 DEF SemSleepers, SemWakeInv, Semaphore!Test, Semaphore!Enough
      <3>2. sem' = 0
        BY <1>a, <2>0, <3>1
      <3> QED BY <1>d, <2>0, <3>2 DEF SemWakeInv
    <2> QED BY <2>1, <2>2
  <1>4. CASE Semaphore!Cas(t)
    <2>0. SemSleepers' /\ sleepers' = sleepers /\ num[t] = 1 /\ t \in SemServing
      BY <1>4, <1>a DEF Semaphore!Cas, SemSleepers, SemWakeInv, SemServing
    <2>1. CASE sem = val[t]
      <3>1. sem' = sem - 1 /\ SemServing' = SemServing \ {t}
        BY <1>4, <1>a, <2>0, <2>1 DEF Semaphore!Cas, SemServing
      <3>2. Size' = Size - 1
        BY <1>a, <2>0, <3>1, FS_RemoveElement DEF Size
      <3> QED BY <1>a, <2>0, <3>1, <3>2 DEF SemWakeInv, Size
    <2>2. CASE sem # val[t]
      <3>1. CASE sem = 0
        <4>1. sem' = 0
          BY <1>4, <2>2, <3>1 DEF Semaphore!Cas
        <4> QED BY <1>d, <2>0, <4>1 DEF SemWakeInv
      <3>2. CASE sem # 0
        <4>1. SemServing' = SemServing /\ sem' = sem
          BY <1>4, <1>a, <2>0, <2>2, <3>2 DEF Semaphore!Cas, SemServing
        <4> QED BY <1>a, <1>b, <2>0, <4>1 DEF SemWakeInv, Size
      <3> QED BY <3>1, <3>2
    <2> QED BY <2>1, <2>2
  <1>5. CASE Semaphore!Woken(t)
    <2>1. SemServing' = SemServing /\ sem' = sem /\ sleepers' = sleepers
      BY <1>5, <1>a DEF Semaphore!Woken, SemServing
    <2>2. SemSleepers'
      BY <1>5, <1>a DEF Semaphore!Woken, SemSleepers, SemWakeInv
    <2> QED BY <1>a, <1>b, <2>1, <2>2 DEF SemWakeInv, Size
  <1>6. CASE Semaphore!TimesOut(t)
    <2>1. SemServing' = SemServing \cup {t} /\ sem' = sem /\ sleepers # {}
      BY <1>6, <1>a DEF Semaphore!TimesOut, SemServing
    <2>2. SemSleepers'
      BY <1>6, <1>a DEF Semaphore!TimesOut, SemSleepers, SemWakeInv
    <2> QED BY <1>a, <1>c, <2>1, <2>2 DEF SemWakeInv, Size
  <1>7. CASE Semaphore!ReleaseAdd(t)
    <2>1. /\ SemServing' = SemServing \cup {t} /\ t \notin SemServing
          /\ sem' = sem + 1 /\ sleepers' = sleepers
      BY <1>7, <1>a DEF Semaphore!ReleaseAdd, SemServing, SemSleepers, SemWakeInv
    <2>2. SemSleepers'
      BY <1>7, <1>a DEF Semaphore!ReleaseAdd, SemSleepers, SemWakeInv
    <2> QED BY <1>a, <1>c, <2>1, <2>2 DEF SemWakeInv, Size
  <1>8. CASE Semaphore!ReleaseNotify(t)
    <2>1. SemSleepers' /\ sem' = sem
      BY <1>8, <1>a DEF Semaphore!ReleaseNotify, SemSleepers, SemWakeInv
    <2>2. PICK woken \in SUBSET sleepers, lost \in SUBSET orphans :
              /\ Cardinality(woken) + Cardinality(lost)
                    = Semaphore!Min({num[t], Cardinality(sleepers) + Cardinality(orphans)})
              /\ sleepers' = sleepers \ woken
      BY <1>8, SemFinite DEF Semaphore!ReleaseNotify, Semaphore!Notified
    <2>3. CASE sleepers' = {}
      BY <2>1, <2>3 DEF SemWakeInv
    <2>4. CASE sleepers' # {}
      <3>1. num[t] = 1 /\ lost = {} /\ Cardinality(lost) = 0 /\ Cardinality(orphans) = 0
        BY <1>8, <1>a, FS_EmptySet DEF Semaphore!ReleaseNotify, SemSleepers, SemWakeInv
      <3>2. Cardinality(sleepers) >= 1
        BY <1>a, <2>2, <2>4, FS_EmptySet
      <3>3. IsFiniteSet(woken) /\ Cardinality(woken) \in Nat
        BY <1>a, FS_Subset, FS_CardinalityType
      <3>4. Semaphore!Min({1, Cardinality(sleepers) + 0}) = 1
        BY <1>a, <3>2 DEF Semaphore!Min
      <3>5. Cardinality(woken) = 1
        BY <2>2, <3>1, <3>3, <3>4
      <3>6. PICK u : woken = {u}
        BY <3>3, <3>5, FS_Singleton
      <3>7. u \in sleepers /\ u # t /\ u \notin SemServing
        BY <1>8, <1>a, <3>6 DEF Semaphore!ReleaseNotify, SemSleepers, SemWakeInv, SemServing
      <3>8. SemServing' = (SemServing \ {t}) \cup {u} /\ t \in SemServing
        BY <1>8, <1>a, <2>2, <3>6, <3>7
        DEF Semaphore!ReleaseNotify, SemServing, SemSleepers, SemWakeInv
      <3>9. IsFiniteSet(SemServing \ {t}) /\ Cardinality(SemServing \ {t}) = Size - 1
        BY <1>a, <3>8, FS_RemoveElement DEF Size
      <3>10. Size' = Size
        <4>1. u \notin SemServing \ {t}
          BY <3>7
        <4>2. Cardinality((SemServing \ {t}) \cup {u}) = Cardinality(SemServing \ {t}) + 1
          BY <3>9, <4>1, FS_AddElement
        <4> QED BY <1>a, <3>8, <3>9, <4>2 DEF Size
      <3> QED BY <1>a, <2>1, <2>2, <2>4, <3>10 DEF SemWakeInv, Size
    <2> QED BY <2>3, <2>4
  <1>9. ~Semaphore!AsyncCas(t) /\ ~Semaphore!AsyncWait(t)
    BY <1>a DEF Semaphore!AsyncCas, Semaphore!AsyncWait
  <1> QED BY <1>1, <1>2, <1>3, <1>4, <1>5, <1>6, <1>7, <1>8, <1>9 DEF Semaphore!Step

-----------------------------------------------------------------------------
(* emscripten_atomic_wait_async.                                           *)

LEMMA AsyncFinite ==
    /\ MaxWaits \in Nat
    /\ \A S : S \subseteq WaitAsync!Waits => IsFiniteSet(S) /\ Cardinality(S) \in Nat
    /\ \A S : WaitAsync!Cardinality(S) = Cardinality(S)
  <1>1. MaxWaits \in Nat
    BY LibraryAssumption DEF WaitAsync!AtomicWaitAsyncAssumption
  <1>2. \A S : WaitAsync!Cardinality(S) = Cardinality(S)
    BY DEF WaitAsync!Cardinality, Cardinality
  <1>3. IsFiniteSet(WaitAsync!Waits)
    BY <1>1, FS_Interval DEF WaitAsync!Waits
  <1>4. \A S : S \subseteq WaitAsync!Waits => IsFiniteSet(S) /\ Cardinality(S) \in Nat
    BY <1>3, FS_Subset, FS_CardinalityType
  <1> QED BY <1>1, <1>2, <1>4

(* A wait that is live or canceled has not been answered, and one that has *)
(* not been made is neither.                                               *)
AsyncUnanswered ==
    /\ live \cap canceled = {}
    /\ \A n \in live \cup canceled : called[n] = 0 /\ n < counter
    /\ \A n \in WaitAsync!Waits : n >= counter => called[n] = 0
    /\ \A n \in WaitAsync!Waits : called[n] <= 1

AsyncInv ==
    WaitAsync!TypeOK /\ AsyncUnanswered /\ WaitAsync!KeptAliveForWaits

LEMMA AsyncInitial ==
    ASSUME WaitAsync!Init
    PROVE  AsyncInv
  <1>1. WaitAsync!TypeOK /\ AsyncUnanswered
    BY AsyncFinite DEF WaitAsync!Init, WaitAsync!TypeOK, AsyncUnanswered
  <1> QED BY <1>1, AsyncFinite, FS_EmptySet DEF WaitAsync!Init, WaitAsync!KeptAliveForWaits, AsyncInv

LEMMA AsyncStep ==
    ASSUME AsyncInv, WaitAsync!Next
    PROVE  AsyncInv'
  <1> DEFINE Size == Cardinality(live)
  <1>a. /\ IsFiniteSet(live) /\ Size \in Nat /\ keepalive >= Size
        /\ MaxWaits \in Nat /\ keepalive \in Nat /\ live \subseteq WaitAsync!Waits
    BY AsyncFinite DEF AsyncInv, WaitAsync!TypeOK, WaitAsync!KeptAliveForWaits
  <1>b. WaitAsync!KeptAliveForWaits' <=> keepalive' >= Size'
    BY AsyncFinite DEF WaitAsync!KeptAliveForWaits
  <1>c. ASSUME live' \subseteq live
        PROVE  Size' \in Nat /\ Size' <= Size
    BY <1>a, <1>c, FS_Subset, FS_CardinalityType
  <1>d. ASSUME NEW n \in live, live' = live \ {n}
        PROVE  Size' = Size - 1
    BY <1>a, <1>d, FS_RemoveElement
  <1> HIDE DEF Size
  <1>e. WaitAsync!TypeOK /\ AsyncUnanswered
    BY DEF AsyncInv
  <1>1. CASE WaitAsync!WaitAsync
    <2>1. WaitAsync!TypeOK' /\ AsyncUnanswered'
      BY <1>1, <1>a, <1>e
      DEF WaitAsync!WaitAsync, WaitAsync!TypeOK, WaitAsync!Waits, AsyncUnanswered
    <2>2. counter \notin live
      BY <1>e DEF AsyncUnanswered, WaitAsync!TypeOK
    <2>3. Size' = Size + 1
      BY <1>1, <1>a, <2>2, FS_AddElement DEF WaitAsync!WaitAsync, Size
    <2>4. keepalive' = keepalive + 1
      BY <1>1 DEF WaitAsync!WaitAsync
    <2>5. keepalive' >= Size'
      BY <1>a, <2>3, <2>4
    <2> QED BY <1>b, <2>1, <2>5 DEF AsyncInv
  <1>2. CASE \E a \in Addresses : WaitAsync!Notify(a)
    <2>1. WaitAsync!TypeOK' /\ AsyncUnanswered'
      BY <1>2, <1>e
      DEF WaitAsync!Notify, WaitAsync!Resolve, WaitAsync!AllAt, WaitAsync!TypeOK, AsyncUnanswered
    <2>2. keepalive' = keepalive /\ live' = live
      BY <1>2 DEF WaitAsync!Notify
    <2> QED BY <1>a, <1>b, <2>1, <2>2 DEF AsyncInv, Size
  <1>3. CASE (\E a \in Addresses : WaitAsync!CancelAllAt(a)) \/ WaitAsync!CancelAll
    <2>1. WaitAsync!TypeOK' /\ AsyncUnanswered'
      BY <1>3, <1>e
      DEF WaitAsync!CancelAllAt, WaitAsync!CancelAll, WaitAsync!Resolve, WaitAsync!AllAt,
          WaitAsync!TypeOK, AsyncUnanswered
    <2>2. keepalive' = keepalive /\ live' \subseteq live
      BY <1>3 DEF WaitAsync!CancelAllAt, WaitAsync!CancelAll
    <2> QED BY <1>a, <1>b, <1>c, <2>1, <2>2 DEF AsyncInv
  <1>4. ASSUME NEW n \in WaitAsync!Waits, WaitAsync!Answer(n)
        PROVE  AsyncInv'
    <2>1. CASE n \in live
      <3>1. live' = live \ {n} /\ keepalive' = keepalive - 1
        BY <1>4, <2>1 DEF WaitAsync!Answer, WaitAsync!Answers
      <3>2. Size' = Size - 1 /\ Size' \in Nat
        BY <1>c, <1>d, <2>1, <3>1
      <3>3. keepalive' >= Size' /\ keepalive' \in Nat
        BY <1>a, <3>1, <3>2
      <3>4. called' = [called EXCEPT ![n] = 1]
        BY <1>4, <1>e, <2>1
        DEF WaitAsync!Answer, WaitAsync!Answers, WaitAsync!TypeOK, AsyncUnanswered
      <3>5. WaitAsync!TypeOK'
        BY <1>4, <1>e, <2>1, <3>3, <3>4
        DEF WaitAsync!Answer, WaitAsync!Answers, WaitAsync!TypeOK
      <3>6. /\ canceled' = canceled /\ counter' = counter /\ n \notin canceled /\ n < counter
            /\ counter \in Nat /\ n \in Nat /\ called \in [WaitAsync!Waits -> Nat]
            /\ WaitAsync!Waits \subseteq Nat /\ canceled \subseteq WaitAsync!Waits
        BY <1>4, <1>a, <1>e, <2>1
        DEF WaitAsync!Answer, WaitAsync!TypeOK, WaitAsync!Waits, AsyncUnanswered
      <3>7. AsyncUnanswered'
        BY <1>a, <1>e, <3>1, <3>4, <3>6 DEF AsyncUnanswered
      <3> QED BY <1>b, <3>3, <3>5, <3>7 DEF AsyncInv
    <2>2. CASE n \notin live
      <3>1. live' = live /\ keepalive' = keepalive
        BY <1>4, <2>2 DEF WaitAsync!Answer, WaitAsync!Answers
      <3>2. WaitAsync!TypeOK' /\ AsyncUnanswered'
        BY <1>4, <1>e, <2>2
        DEF WaitAsync!Answer, WaitAsync!Answers, WaitAsync!TypeOK, AsyncUnanswered
      <3> QED BY <1>a, <1>b, <3>1, <3>2 DEF AsyncInv, Size
    <2> QED BY <2>1, <2>2
  <1>5. ASSUME NEW n \in WaitAsync!Waits, WaitAsync!Cancel(n)
        PROVE  AsyncInv'
    <2>1. n \in live
      <3>1. -n \in live /\ n \in Nat
        BY <1>5, <1>a DEF WaitAsync!Cancel, WaitAsync!Lookup, WaitAsync!Token, WaitAsync!Waits
      <3>2. -n \in Nat
        BY <3>1, <1>a DEF WaitAsync!Waits
      <3> QED BY <3>1, <3>2
    <2>2. live' = live \ {n} /\ keepalive' = keepalive - 1
      BY <1>5 DEF WaitAsync!Cancel
    <2>3. Size' = Size - 1 /\ Size' \in Nat
      BY <1>c, <1>d, <2>1, <2>2
    <2>4. keepalive' >= Size' /\ keepalive' \in Nat
      BY <1>a, <2>2, <2>3
    <2>5. WaitAsync!TypeOK' /\ AsyncUnanswered'
      BY <1>5, <1>e, <2>1, <2>4
      DEF WaitAsync!Cancel, WaitAsync!Resolve, WaitAsync!AllAt, WaitAsync!TypeOK, AsyncUnanswered
    <2> QED BY <1>b, <2>4, <2>5 DEF AsyncInv
  <1> QED BY <1>1, <1>2, <1>3, <1>4, <1>5 DEF WaitAsync!Next

-----------------------------------------------------------------------------
(* musl's __lock and the counter of threads.                               *)

(* The pthreads that libc.threads_minus_1 counts: from its write on, the   *)
(* one being created, and until its write the one that exits.              *)
MuslCounted ==
    {p \in Pthreads :
        \/ pc[p] \notin {"new", "gone", "exit_flag", "exit_unlock"}
        \/ \E t \in Musl!Threads :
              new[t] = p /\ pc[t] \in {"up_flag", "start", "undo_read", "undo_write"}}

(* One thread at a time updates the count, as no updates have overlapped, *)
(* and it has read what is true.  Creations have threads of their own.    *)
MuslCreates ==
    /\ \A t, u \in Musl!Threads :
          pc[t] \in Musl!Updating /\ pc[u] \in Musl!Updating => t = u
    /\ \A t \in Musl!Threads : tlLock = t <=> pc[t] \in Musl!Exiting
    /\ \A t \in Musl!Threads : new[t] # None <=> pc[t] \in Musl!Counting
    /\ \A t, u \in Musl!Threads : new[t] # None /\ new[t] = new[u] => t = u
    /\ \A t \in Musl!Threads : new[t] # None => pc[new[t]] = "new"
    /\ pc[Main] \notin {"new", "gone"} \cup Musl!Exiting

MuslRead ==
    \A t \in Musl!Threads :
        /\ pc[t] \in {"up_write", "exit_write", "undo_write"} => val[t].n = count
        /\ pc[t] = "up_flag" => count = 1
        /\ pc[t] \in {"exit_flag", "undo_flag"} => val[t].n = count + 1

(* The flag says whether a pthread is counted, except between the write to *)
(* the counter and the write to the flag.                                  *)
MuslFlag ==
    needLocks <=> \/ count > 0 /\ \A t \in Musl!Threads : pc[t] # "up_flag"
                  \/ \E t \in Musl!Threads : pc[t] \in {"exit_flag", "undo_flag"}

MuslCount == count = Cardinality(MuslCounted)

MuslLibc == MuslCreates /\ MuslCount /\ MuslRead /\ MuslFlag

(* The threads the lock's word counts. *)
MuslInside ==
    {t \in Musl!Threads : \/ pc[t] \in {"test", "asleep", "slow"}
                          \/ word.held /\ pc[t] \in Musl!Holding}

(* The lock is held by one thread, or it is free and a thread that is in   *)
(* the section without it is alone.                                        *)
MuslOwned ==
    /\ \A t, u \in Musl!Threads : pc[t] \in Musl!Holding /\ pc[u] \in Musl!Holding => t = u
    /\ word.held => \E t \in Musl!Threads : pc[t] \in Musl!Holding
    /\ ~word.held =>
          \A t \in Musl!Threads : pc[t] \in Musl!Holding =>
              /\ t = Main /\ pc[t] = "section"
              /\ \A p \in Pthreads : pc[p] \in {"new", "gone", "exit_unlock"}

MuslInsideCount == word.n = Cardinality(MuslInside)

MuslSleepers == \A t \in sleepers : pc[t] = "asleep"

(* A word that a thread has read while the lock was held counts its owner. *)
MuslSeen == \A t \in Musl!Threads : val[t].held => val[t].n # 0

MuslWord ==
    /\ MuslOwned /\ MuslInsideCount /\ MuslSleepers /\ MuslSeen
    /\ Musl!NoSleeperForgotten

MuslSound == Musl!TypeOK /\ MuslLibc /\ MuslWord

(* Once updates have overlapped, only the types are left. *)
MuslInv == Musl!TypeOK /\ (~overlapped => MuslLibc /\ MuslWord)

LEMMA MuslFinite ==
    /\ IsFiniteSet(Musl!Threads) /\ Main \in Musl!Threads /\ Pthreads \subseteq Musl!Threads
    /\ Main \notin Pthreads /\ None \notin Musl!Threads
    /\ MaxSections \in Nat /\ MaxFailures \in Nat
    /\ Musl!Threads = Pthreads \cup {Main}
    /\ \A S : Musl!Cardinality(S) = Cardinality(S)
    /\ IsFiniteSet(MuslCounted) /\ Cardinality(MuslCounted) \in Nat
    /\ IsFiniteSet(MuslInside) /\ Cardinality(MuslInside) \in Nat
    /\ Cardinality(Musl!Threads) \in Nat /\ Cardinality(Musl!Threads) <= Musl!MaxCount
  <1>1. \A S : Musl!IsFiniteSet(S) <=> IsFiniteSet(S)
    BY DEF Musl!IsFiniteSet, IsFiniteSet
  <1>2. \A S : Musl!Cardinality(S) = Cardinality(S)
    BY DEF Musl!Cardinality, Cardinality
  <1>3. IsFiniteSet(Pthreads) /\ Main \notin Pthreads /\ None \notin Musl!Threads
        /\ MaxSections \in Nat /\ MaxFailures \in Nat
        /\ Cardinality(Musl!Threads) <= Musl!MaxCount
    BY <1>1, <1>2, LibraryAssumption DEF Musl!MuslLockAssumption
  <1>4. IsFiniteSet(Musl!Threads) /\ Cardinality(Musl!Threads) \in Nat
    BY <1>3, FS_AddElement, FS_CardinalityType DEF Musl!Threads
  <1>5. MuslCounted \in SUBSET Pthreads /\ MuslInside \in SUBSET Musl!Threads
    BY DEF MuslCounted, MuslInside
  <1>6. IsFiniteSet(MuslCounted) /\ Cardinality(MuslCounted) \in Nat
    BY <1>3, <1>5, FS_Subset, FS_CardinalityType
  <1>7. IsFiniteSet(MuslInside) /\ Cardinality(MuslInside) \in Nat
    BY <1>4, <1>5, FS_Subset, FS_CardinalityType
  <1> QED BY <1>2, <1>3, <1>4, <1>6, <1>7 DEF Musl!Threads

(* All threads fit in the word. *)
LEMMA MuslRoom ==
    ASSUME NEW t \in Musl!Threads \ MuslInside
    PROVE  Cardinality(MuslInside) < Musl!MaxCount
  <1>1. MuslInside \cup {t} \in SUBSET Musl!Threads
    BY DEF MuslInside
  <1>2. Cardinality(MuslInside \cup {t}) <= Cardinality(Musl!Threads)
    BY <1>1, MuslFinite, FS_Subset
  <1>3. Cardinality(MuslInside \cup {t}) = Cardinality(MuslInside) + 1
    BY MuslFinite, FS_AddElement
  <1>4. Musl!MaxCount \in Nat
    BY DEF Musl!MaxCount
  <1> QED BY <1>2, <1>3, <1>4, MuslFinite

(* The words are words again after each of the operations on them. *)
LEMMA MuslWords ==
    ASSUME NEW w \in [held : BOOLEAN, n : Nat]
    PROVE  /\ Musl!PlusOne(w) \in [held : BOOLEAN, n : Nat]
           /\ Musl!Locked(w) \in [held : BOOLEAN, n : Nat]
           /\ Musl!Unlocked(w) \in [held : BOOLEAN, n : Nat]
           /\ w = Musl!Word(w.held, w.n)
           /\ w.n < Musl!MaxCount => Musl!PlusOne(w) = Musl!Word(w.held, w.n + 1)
           /\ Musl!Locked(w) = Musl!Word(~w.held, w.n)
           /\ w.n # 0 => Musl!Unlocked(w) = Musl!Word(~w.held, w.n - 1)
  <1>1. w.n \in Nat /\ w.held \in BOOLEAN /\ w = [held |-> w.held, n |-> w.n]
    OBVIOUS
  <1>2. Musl!MaxCount \in Nat
    BY DEF Musl!MaxCount
  <1>3. \A n \in Nat, b \in BOOLEAN : Musl!Word(b, n) \in [held : BOOLEAN, n : Nat]
    BY DEF Musl!Word
  <1>4. w.n # 0 => w.n - 1 \in Nat
    <2>1. \A n \in Nat : n # 0 => n - 1 \in Nat
      OBVIOUS
    <2> QED BY <1>1, <2>1
  <1>5. w.n + 1 \in Nat /\ 0 \in Nat /\ (~w.held) \in BOOLEAN
    BY <1>1
  <1>6. Musl!PlusOne(w) \in [held : BOOLEAN, n : Nat]
    BY <1>1, <1>3, <1>5 DEF Musl!PlusOne
  <1>7. Musl!Unlocked(w) \in [held : BOOLEAN, n : Nat]
    BY <1>1, <1>2, <1>3, <1>4, <1>5 DEF Musl!Unlocked
  <1>8. Musl!Locked(w) \in [held : BOOLEAN, n : Nat]
    BY <1>1, <1>3, <1>5 DEF Musl!Locked
  <1>9. w.n < Musl!MaxCount => Musl!PlusOne(w) = Musl!Word(w.held, w.n + 1)
    BY <1>1, <1>2 DEF Musl!PlusOne
  <1> QED BY <1>1, <1>6, <1>7, <1>8, <1>9 DEF Musl!Word, Musl!Locked, Musl!Unlocked

LEMMA MuslInitial ==
    ASSUME Musl!Init
    PROVE  MuslInv
  <1> USE DEF Musl!Init, Musl!Free, Musl!Word, Musl!Counting, Musl!Exiting, Musl!Locking,
      Musl!Holding
  <1>a. Musl!Free \in [held : BOOLEAN, n : Nat] /\ Musl!Free \in [held : BOOLEAN, n : Int]
    OBVIOUS
  <1>b. val \in [Musl!Threads -> [held : BOOLEAN, n : Int]] /\ word \in [held : BOOLEAN, n : Nat]
    BY <1>a
  <1>1. Musl!TypeOK
    <2>1. pc \in [Musl!Threads -> {"new", "run", "gone"} \cup Musl!Counting
                                    \cup Musl!Exiting \cup Musl!Locking \cup Musl!Holding
                                    \cup {"wake"}]
      OBVIOUS
    <2>2. /\ new \in [Musl!Threads -> Pthreads \cup {None}]
          /\ sections \in [Musl!Threads -> 0 .. MaxSections]
      BY MuslFinite
    <2>3. /\ count \in Int /\ tlLock \in Musl!Threads \cup {None}
          /\ sleepers \subseteq Musl!Threads
      OBVIOUS
    <2>4. needLocks \in BOOLEAN /\ overlapped \in BOOLEAN
      OBVIOUS
    <2>5. failures \in 0 .. MaxFailures
      BY MuslFinite
    <2> QED BY <1>b, <2>1, <2>2, <2>3, <2>4, <2>5 DEF Musl!TypeOK
  <1>2. MuslSeen
    BY DEF MuslSeen
  <1>3. MuslCreates /\ MuslRead /\ MuslSleepers /\ MuslOwned /\ Musl!NoSleeperForgotten
    BY MuslFinite
    DEF MuslCreates, MuslRead, Musl!Updating, MuslSleepers, MuslOwned, Musl!NoSleeperForgotten
  <1>4. MuslCounted = {} /\ MuslInside = {}
    BY MuslFinite DEF MuslCounted, MuslInside
  <1>5. MuslCount /\ MuslInsideCount
    BY <1>4, FS_EmptySet DEF MuslCount, MuslInsideCount
  <1>6. MuslFlag
    BY MuslFinite DEF MuslFlag
  <1> QED BY <1>1, <1>2, <1>3, <1>5, <1>6 DEF MuslInv, MuslLibc, MuslWord

(* While a creation is about to set the flag, only its own thread runs. *)
LEMMA MuslFirstCreation ==
    ASSUME Musl!TypeOK, MuslLibc, NEW u \in Musl!Threads, pc[u] = "up_flag",
           NEW p \in Pthreads, pc[p] \notin {"new", "gone", "exit_flag", "exit_unlock"}
    PROVE  FALSE
  <1>1. Cardinality(MuslCounted) = 1
    BY DEF MuslLibc, MuslCount, MuslRead
  <1>2. new[u] \in Pthreads /\ pc[new[u]] = "new"
    BY DEF Musl!TypeOK, MuslLibc, MuslCreates, Musl!Counting
  <1>3. p \in MuslCounted /\ new[u] \in MuslCounted /\ p # new[u]
    BY <1>2 DEF MuslCounted
  <1> QED BY <1>1, <1>3, MuslFinite, FS_Singleton

(* A thread that finds the flag clear is the main thread, and no other one *)
(* runs.                                                                   *)
LEMMA MuslAlone ==
    ASSUME Musl!TypeOK, MuslLibc, ~needLocks,
           NEW t \in Musl!Threads, pc[t] = "run"
    PROVE  t = Main /\ \A p \in Pthreads : pc[p] \in {"new", "gone", "exit_unlock"}
  <1>1. ASSUME NEW u \in Musl!Threads, pc[u] = "up_flag"
        PROVE  FALSE
    <2>1. u = Main
      BY <1>1, MuslFinite, MuslFirstCreation
    <2> QED BY <1>1, <2>1, MuslFinite, MuslFirstCreation
  <1>2. count = 0 /\ \A p \in Musl!Threads : pc[p] # "exit_flag"
    BY <1>1, MuslFinite DEF MuslLibc, MuslFlag, MuslCount
  <1>3. MuslCounted = {}
    BY <1>2, MuslFinite, FS_EmptySet DEF MuslLibc, MuslCount
  <1> QED BY <1>2, <1>3, MuslFinite DEF MuslCounted

LEMMA MuslFlagSet ==
    ASSUME Musl!TypeOK, MuslLibc
    PROVE  Musl!NeedLocksWhileThreaded
  <1> SUFFICES ASSUME NEW p \in Pthreads, pc[p] \notin {"new", "gone"} \cup Musl!Exiting
               PROVE  needLocks
    BY DEF Musl!NeedLocksWhileThreaded
  <1>1. p \in MuslCounted /\ \A u \in Musl!Threads : pc[u] # "up_flag"
    BY MuslFirstCreation DEF MuslCounted, Musl!Exiting
  <1>2. count > 0
    BY <1>1, MuslFinite, FS_EmptySet DEF MuslLibc, MuslCount
  <1> QED BY <1>1, <1>2 DEF MuslLibc, MuslFlag

LEMMA MuslTypeStep ==
    ASSUME Musl!TypeOK, Musl!Next
    PROVE  Musl!TypeOK'
  <1> PICK t \in Musl!Threads :
        \/ Musl!Step(t) \/ Musl!LockBegins(t) \/ Musl!ExitBegins(t)
        \/ \E p \in Pthreads : Musl!CreateBegins(t, p)
    BY DEF Musl!Next
  <1> DEFINE Words == [held : BOOLEAN, n : Int]
             Naturals == [held : BOOLEAN, n : Nat]
  <1>a. /\ Musl!TypeOK /\ count \in Int /\ val[t] \in Words /\ val[t].n \in Int
        /\ val \in [Musl!Threads -> Words]
    BY DEF Musl!TypeOK
  <1>b. word \in Naturals /\ Musl!PlusOne(word) \in Naturals /\ Musl!Unlocked(word) \in Naturals
    BY MuslWords DEF Musl!TypeOK
  <1>c. Naturals \subseteq Words
    OBVIOUS
  <1>d. Musl!Word(FALSE, count) \in Words
    BY <1>a DEF Musl!Word
  <1>e. ASSUME NEW v \in Words, val' = [val EXCEPT ![t] = v]
        PROVE  val' \in [Musl!Threads -> Words]
    BY <1>a, <1>e
  <1>f. ASSUME NEW place,
               place \in {"section", "spin", "test"},
               NEW expected, NEW set, Musl!CasOr(t, expected, set, place),
               word = expected => set \in Naturals
        PROVE  /\ word' \in Naturals /\ val' \in [Musl!Threads -> Words]
               /\ pc' = [pc EXCEPT ![t] = "section"] \/ pc' = [pc EXCEPT ![t] = place]
    <2>1. CASE word = expected
      BY <1>a, <1>f, <2>1 DEF Musl!CasOr, Musl!Go
    <2>2. CASE word # expected
      <3>1. UNCHANGED word /\ val' = [val EXCEPT ![t] = word] /\ pc' = [pc EXCEPT ![t] = place]
        BY <1>f, <2>2 DEF Musl!CasOr, Musl!Go, Musl!Read
      <3>2. word \in Words
        BY <1>b, <1>c
      <3> QED BY <1>b, <1>e, <3>1, <3>2
    <2> QED BY <2>1, <2>2
  <1>g. ASSUME UNCHANGED overlapped \/ Musl!Overlaps(t)
        PROVE  overlapped' \in BOOLEAN
    BY <1>a, <1>g DEF Musl!Overlaps, Musl!TypeOK
  <1> USE DEF Musl!TypeOK, Musl!Counting, Musl!Exiting, Musl!Locking, Musl!Holding,
      Musl!At, Musl!Go, Musl!libcVars, Musl!lockVars, Musl!historyVars
  <1>1. CASE Musl!UpRead(t) \/ Musl!DownRead(t)
    <2>1. val' \in [Musl!Threads -> Words]
      BY <1>1, <1>d, <1>e DEF Musl!UpRead, Musl!DownRead, Musl!Read
    <2>2. overlapped' \in BOOLEAN
      BY <1>1, <1>g DEF Musl!UpRead, Musl!DownRead
    <2> QED BY <1>1, <1>a, <2>1, <2>2 DEF Musl!UpRead, Musl!DownRead
  <1>2. CASE Musl!UpWrite(t) \/ Musl!UpFlag(t) \/ Musl!DownWrite(t)
    <2>1. count' \in Int
      BY <1>2, <1>a DEF Musl!UpWrite, Musl!UpFlag, Musl!DownWrite
    <2> QED BY <1>2, <1>a, <2>1 DEF Musl!UpWrite, Musl!UpFlag, Musl!DownWrite
  <1>3. CASE Musl!Start(t) \/ Musl!DownFlag(t) \/ Musl!UndoUnlist(t) \/ Musl!ExitEnds(t)
    BY <1>3, <1>a DEF Musl!Start, Musl!DownFlag, Musl!UndoUnlist, Musl!ExitEnds
  <1>4. CASE Musl!StartFails(t)
    <2>1. failures' \in 0 .. MaxFailures
      BY <1>4, <1>a, MuslFinite DEF Musl!StartFails
    <2> QED BY <1>4, <1>a, <2>1 DEF Musl!StartFails
  <1>5. CASE Musl!LockFast(t) \/ Musl!LockSpin(t) \/ Musl!LockSlow(t)
    <2>1. [held |-> TRUE, n |-> 1] \in Naturals
      OBVIOUS
    <2>2. ASSUME word = Musl!Released(val[t])
          PROVE  /\ Musl!Locked(Musl!Released(val[t])) \in Naturals
                 /\ Musl!Locked(Musl!PlusOne(Musl!Released(val[t]))) \in Naturals
      BY <1>b, <2>2, MuslWords
    <2>3. /\ word' \in Naturals /\ val' \in [Musl!Threads -> Words]
          /\ \E place \in {"section", "spin", "test"} : pc' = [pc EXCEPT ![t] = place]
      <3>1. CASE Musl!LockFast(t)
        <4>1. Musl!CasOr(t, Musl!Free, Musl!Word(TRUE, 1), "spin")
          BY <3>1 DEF Musl!LockFast
        <4> QED BY <1>f, <2>1, <4>1 DEF Musl!Word
      <3>2. CASE Musl!LockSpin(t)
        <4>1. Musl!CasOr(t, Musl!Released(val[t]),
                         Musl!Locked(Musl!PlusOne(Musl!Released(val[t]))), "spin")
          BY <3>2 DEF Musl!LockSpin
        <4> QED BY <1>f, <2>2, <4>1
      <3>3. CASE Musl!LockSlow(t)
        <4>1. Musl!CasOr(t, Musl!Released(val[t]), Musl!Locked(Musl!Released(val[t])), "test")
          BY <3>3 DEF Musl!LockSlow
        <4> QED BY <1>f, <2>2, <4>1
      <3> QED BY <1>5, <3>1, <3>2, <3>3
    <2>4. UNCHANGED <<needLocks, count, tlLock, sleepers, new, failures, sections, overlapped>>
      BY <1>5 DEF Musl!LockFast, Musl!LockSpin, Musl!LockSlow
    <2> QED BY <1>a, <2>3, <2>4
  <1>6. CASE Musl!LockAdd(t)
    <2>1. word' \in Naturals /\ word' \in Words
      BY <1>6, <1>b, <1>c DEF Musl!LockAdd
    <2>2. val' \in [Musl!Threads -> Words]
      BY <1>6, <1>e, <2>1 DEF Musl!LockAdd, Musl!Read
    <2> QED BY <1>6, <1>a, <2>1, <2>2 DEF Musl!LockAdd
  <1>7. CASE Musl!LockTest(t) \/ Musl!LockWoken(t) \/ Musl!UnlockTest(t) \/ Musl!UnlockWake(t)
    BY <1>7, <1>a DEF Musl!LockTest, Musl!LockWoken, Musl!UnlockTest, Musl!UnlockWake
  <1>8. CASE Musl!UnlockSub(t)
    <2>1. word' \in Naturals
      BY <1>8, <1>b DEF Musl!UnlockSub
    <2> QED BY <1>8, <1>a, <2>1 DEF Musl!UnlockSub
  <1>9. CASE Musl!LockBegins(t)
    BY <1>9, <1>a, MuslFinite DEF Musl!LockBegins
  <1>10. CASE Musl!ExitBegins(t)
    BY <1>10, <1>a DEF Musl!ExitBegins
  <1>11. CASE \E p \in Pthreads : Musl!CreateBegins(t, p)
    BY <1>11, <1>a DEF Musl!CreateBegins
  <1> QED BY <1>1, <1>2, <1>3, <1>4, <1>5, <1>6, <1>7, <1>8, <1>9, <1>10, <1>11
      DEF Musl!Step

(* No step makes overlapping updates undone. *)
LEMMA MuslHistory ==
    ASSUME Musl!TypeOK, Musl!Next, ~overlapped'
    PROVE  ~overlapped
  <1> PICK t \in Musl!Threads :
        \/ Musl!Step(t) \/ Musl!LockBegins(t) \/ Musl!ExitBegins(t)
        \/ \E p \in Pthreads : Musl!CreateBegins(t, p)
    BY DEF Musl!Next
  <1>1. UNCHANGED overlapped \/ Musl!Overlaps(t)
    BY DEF Musl!Step, Musl!UpRead, Musl!UpWrite, Musl!UpFlag, Musl!Start, Musl!StartFails,
       Musl!DownRead, Musl!DownWrite, Musl!DownFlag, Musl!UndoUnlist, Musl!ExitEnds,
       Musl!LockFast, Musl!LockSpin, Musl!LockAdd, Musl!LockTest, Musl!LockWoken,
       Musl!LockSlow, Musl!UnlockTest, Musl!UnlockSub, Musl!UnlockWake, Musl!LockBegins,
       Musl!ExitBegins, Musl!CreateBegins, Musl!historyVars
  <1> QED BY <1>1 DEF Musl!Overlaps

(* The steps inside the lock do not matter to the count and the flag. *)
LEMMA MuslLockSteps ==
    ASSUME MuslSound, NEW t \in Musl!Threads, NEW place \in {"run", "wake"} \cup Musl!Locking \cup Musl!Holding,
           pc[t] \in {"run", "wake"} \cup Musl!Locking \cup Musl!Holding,
           pc' = [pc EXCEPT ![t] = place], UNCHANGED <<needLocks, count, tlLock, new>>,
           \A u \in Musl!Threads : u # t => val'[u] = val[u]
    PROVE  MuslLibc'
  <1> USE DEF Musl!Counting, Musl!Exiting, Musl!Locking, Musl!Holding
  <1>a. /\ pc \in [Musl!Threads -> {"new", "run", "gone"} \cup Musl!Counting \cup Musl!Exiting
                             \cup Musl!Locking \cup Musl!Holding \cup {"wake"}]
        /\ new \in [Musl!Threads -> Pthreads \cup {None}]
        /\ MuslCreates /\ MuslCount /\ MuslRead /\ MuslFlag
    BY DEF MuslSound, MuslLibc, Musl!TypeOK
  <1>1. MuslCreates'
    BY <1>a, MuslFinite DEF MuslCreates, Musl!Updating
  <1>2. MuslCounted' = MuslCounted
    BY <1>a, MuslFinite DEF MuslCounted
  <1>3. MuslRead'
    BY <1>a, MuslFinite DEF MuslRead
  <1>4. MuslFlag'
    BY <1>a, MuslFinite DEF MuslFlag
  <1> QED BY <1>a, <1>1, <1>2, <1>3, <1>4 DEF MuslLibc, MuslCount

LEMMA MuslLibcStep ==
    ASSUME MuslSound, Musl!Next, ~overlapped'
    PROVE  MuslLibc'
  <1> PICK t \in Musl!Threads :
        \/ Musl!Step(t) \/ Musl!LockBegins(t) \/ Musl!ExitBegins(t)
        \/ \E p \in Pthreads : Musl!CreateBegins(t, p)
    BY DEF Musl!Next
  <1> USE DEF Musl!At, Musl!Go, Musl!Read, Musl!Counting, Musl!Exiting, Musl!libcVars,
      Musl!lockVars
  <1>a. /\ pc \in [Musl!Threads -> {"new", "run", "gone"} \cup Musl!Counting \cup Musl!Exiting
                             \cup Musl!Locking \cup Musl!Holding \cup {"wake"}]
        /\ new \in [Musl!Threads -> Pthreads \cup {None}]
        /\ val \in [Musl!Threads -> [held : BOOLEAN, n : Int]]
        /\ tlLock \in Musl!Threads \cup {None}
        /\ MuslCreates /\ MuslCount /\ MuslRead /\ MuslFlag
        /\ count \in Nat
    BY MuslFinite DEF MuslSound, MuslLibc, Musl!TypeOK, MuslCount
  <1>b. ASSUME MuslCounted' = MuslCounted, count' = count
        PROVE  MuslCount'
    BY <1>a, <1>b DEF MuslCount
  (* Who creates has a thread of its own for it. *)
  <1>c. ASSUME new[t] # None
        PROVE  /\ new[t] \in Pthreads /\ new[t] # t /\ pc[new[t]] = "new"
               /\ \A u \in Musl!Threads : u # t => new[u] # new[t]
               /\ new[new[t]] = None
    BY <1>a, <1>c, MuslFinite DEF MuslCreates
  (* Who updates the count is alone in that. *)
  <1>d. ASSUME pc[t] \in Musl!Updating
        PROVE  \A u \in Musl!Threads : u # t => pc[u] \notin Musl!Updating
    BY <1>a, <1>d DEF MuslCreates
  <1>1. CASE Musl!UpRead(t)
    <2>1. \A u \in Musl!Threads : u # t => pc[u] \notin Musl!Updating
      BY <1>1 DEF Musl!UpRead, Musl!Overlaps
    <2>2. MuslCreates' /\ MuslCounted' = MuslCounted
      BY <1>1, <1>a, <2>1, MuslFinite DEF Musl!UpRead, MuslCreates, Musl!Updating, MuslCounted
    <2>3. val'[t].n = count
      BY <1>1, <1>a DEF Musl!UpRead, Musl!Word
    <2>4. MuslRead' /\ MuslFlag'
      BY <1>1, <1>a, <2>3, MuslFinite DEF Musl!UpRead, MuslRead, MuslFlag
    <2> QED BY <1>1, <1>b, <2>2, <2>4 DEF Musl!UpRead, MuslLibc
  <1>2. CASE Musl!UpWrite(t)
    <2>1. MuslCreates'
      BY <1>2, <1>a, MuslFinite DEF Musl!UpWrite, MuslCreates, Musl!Updating
    <2>2. count' = count + 1 /\ (pc'[t] = "up_flag" <=> count = 0)
      BY <1>2, <1>a DEF Musl!UpWrite, MuslRead
    <2>3. \A u \in Musl!Threads : u # t => pc[u] \notin Musl!Updating
      BY <1>2, <1>d DEF Musl!UpWrite, Musl!Updating
    <2>4. /\ new[t] \in Pthreads /\ pc[new[t]] = "new" /\ pc[t] = "up_write"
          /\ \A u \in Musl!Threads : u # t => new[u] # new[t]
      BY <1>2, <1>a, <1>c DEF Musl!UpWrite, MuslCreates
    <2>5. /\ pc' = [pc EXCEPT ![t] = "up_flag"] \/ pc' = [pc EXCEPT ![t] = "start"]
          /\ UNCHANGED new
      BY <1>2 DEF Musl!UpWrite
    <2>6. MuslCounted' = MuslCounted \cup {new[t]} /\ new[t] \notin MuslCounted
      BY <1>a, <2>4, <2>5, MuslFinite DEF MuslCounted
    <2>7. MuslCount'
      BY <1>a, <2>2, <2>6, MuslFinite, FS_AddElement DEF MuslCount
    <2>8. MuslRead'
      BY <1>2, <1>a, <2>2, <2>3 DEF Musl!UpWrite, MuslRead, Musl!Updating
    <2>9. MuslFlag'
      BY <1>2, <1>a, <2>2, <2>3 DEF Musl!UpWrite, MuslFlag, Musl!Updating
    <2> QED BY <2>1, <2>7, <2>8, <2>9 DEF MuslLibc
  <1>3. CASE Musl!UpFlag(t)
    <2>1. MuslCreates' /\ MuslCounted' = MuslCounted
      BY <1>3, <1>a, MuslFinite DEF Musl!UpFlag, MuslCreates, Musl!Updating, MuslCounted
    <2>2. \A u \in Musl!Threads : u # t => pc[u] \notin Musl!Updating
      BY <1>3, <1>d DEF Musl!UpFlag, Musl!Updating
    <2>3. MuslRead'
      BY <1>3, <1>a DEF Musl!UpFlag, MuslRead
    <2>4. MuslFlag'
      BY <1>3, <1>a, <2>2 DEF Musl!UpFlag, MuslFlag, MuslRead, Musl!Updating
    <2> QED BY <1>3, <1>b, <2>1, <2>3, <2>4 DEF Musl!UpFlag, MuslLibc
  <1>4. CASE Musl!Start(t)
    <2>1. /\ new[t] \in Pthreads /\ new[t] # t /\ pc[new[t]] = "new" /\ new[new[t]] = None
          /\ \A u \in Musl!Threads : u # t => new[u] # new[t]
      BY <1>4, <1>a, <1>c DEF Musl!Start, MuslCreates
    <2>2. /\ pc[t] = "start" /\ pc' = [pc EXCEPT ![t] = "run", ![new[t]] = "run"]
          /\ new' = [new EXCEPT ![t] = None] /\ UNCHANGED <<needLocks, count, tlLock, val>>
      BY <1>4 DEF Musl!Start
    <2>3. /\ pc'[t] = "run" /\ pc'[new[t]] = "run" /\ new'[t] = None /\ new'[new[t]] = None
          /\ \A u \in Musl!Threads \ {t, new[t]} : pc'[u] = pc[u] /\ new'[u] = new[u]
      BY <1>a, <2>1, <2>2, MuslFinite
    <2>4. MuslCreates'
      <3>1. \A u \in Musl!Threads : pc'[u] \in Musl!Updating => pc[u] \in Musl!Updating
        BY <2>3 DEF Musl!Updating
      <3>2. \A u \in Musl!Threads : pc'[u] \in Musl!Exiting <=> pc[u] \in Musl!Exiting
        BY <2>1, <2>2, <2>3
      <3>3. \A u \in Musl!Threads : new'[u] # None => u # t /\ u # new[t] /\ new'[u] = new[u]
        BY <2>3
      <3>4. \A u \in Musl!Threads : new'[u] # None <=> pc'[u] \in Musl!Counting
        BY <1>a, <2>1, <2>3 DEF MuslCreates
      <3>5. \A u \in Musl!Threads : new'[u] # None => pc'[new'[u]] = "new"
        <4> SUFFICES ASSUME NEW u \in Musl!Threads, new'[u] # None
                     PROVE  pc'[new'[u]] = "new"
          OBVIOUS
        <4>1. u # t /\ new'[u] = new[u] /\ pc[new[u]] = "new" /\ new[u] # new[t]
              /\ new[u] \in Musl!Threads
          BY <1>a, <2>1, <3>3, MuslFinite DEF MuslCreates
        <4>2. new[u] # t
          BY <2>2, <4>1
        <4> QED BY <2>3, <4>1, <4>2
      <3>6. \A u, v \in Musl!Threads : new'[u] # None /\ new'[u] = new'[v] => u = v
        BY <1>a, <3>3 DEF MuslCreates
      <3>7. pc'[Main] \notin {"new", "gone"} \cup Musl!Exiting
        BY <1>a, <2>3, <3>2, MuslFinite DEF MuslCreates
      <3> QED BY <1>a, <2>2, <3>1, <3>2, <3>4, <3>5, <3>6, <3>7 DEF MuslCreates
    <2>5. MuslCounted' = MuslCounted
      <3>1. \A p \in Pthreads : p # new[t] =>
              ((\E u \in Musl!Threads : new'[u] = p
                    /\ pc'[u] \in {"up_flag", "start", "undo_read", "undo_write"})
               <=> (\E u \in Musl!Threads : new[u] = p
                    /\ pc[u] \in {"up_flag", "start", "undo_read", "undo_write"}))
        <4> TAKE p \in Pthreads
        <4> HAVE p # new[t]
        <4>1. \A u \in Musl!Threads : new'[u] = p <=> new[u] = p
          BY <2>1, <2>3, MuslFinite
        <4>2. \A u \in Musl!Threads : new[u] = p => u # t /\ u # new[t] /\ pc'[u] = pc[u]
          BY <2>1, <2>3, MuslFinite
        <4> QED BY <4>1, <4>2
      <3>2. new[t] \in MuslCounted /\ new[t] \in MuslCounted'
        BY <2>1, <2>2, <2>3 DEF MuslCounted
      <3>3. \A p \in Pthreads : p # new[t] => (p \in MuslCounted <=> p \in MuslCounted')
        <4> TAKE p \in Pthreads
        <4> HAVE p # new[t]
        <4>1. p = t \/ pc'[p] = pc[p]
          BY <2>3, MuslFinite
        <4>2. pc'[p] \notin {"new", "gone", "exit_flag", "exit_unlock"}
              <=> pc[p] \notin {"new", "gone", "exit_flag", "exit_unlock"}
          BY <2>2, <2>3, <4>1
        <4> QED BY <3>1, <4>2 DEF MuslCounted
      <3> QED BY <3>2, <3>3 DEF MuslCounted
    <2>6. MuslRead' /\ MuslFlag'
      BY <1>a, <2>1, <2>2, <2>3, MuslFinite DEF MuslRead, MuslFlag
    <2> QED BY <1>b, <2>2, <2>4, <2>5, <2>6 DEF MuslLibc
  <1>5. CASE Musl!StartFails(t)
    <2>1. MuslCreates' /\ MuslCounted' = MuslCounted
      BY <1>5, <1>a, MuslFinite DEF Musl!StartFails, MuslCreates, Musl!Updating, MuslCounted
    <2>2. MuslRead' /\ MuslFlag'
      BY <1>5, <1>a, MuslFinite DEF Musl!StartFails, MuslRead, MuslFlag
    <2> QED BY <1>5, <1>b, <2>1, <2>2 DEF Musl!StartFails, MuslLibc
  <1>6. CASE Musl!DownRead(t)
    <2>1. \A u \in Musl!Threads : u # t => pc[u] \notin Musl!Updating
      <3>1. CASE pc[t] = "undo_read"
        BY <1>6, <3>1 DEF Musl!DownRead, Musl!Overlaps
      <3>2. CASE pc[t] = "exit_read"
        <4>1. \A u \in Musl!Threads : u # t => pc[u] \notin Musl!Exiting
          BY <1>a, <3>2 DEF MuslCreates
        <4>2. \A u \in Musl!Threads : u # t /\ pc[u] \in Musl!Updating => pc[u] \in Musl!Counting
          BY <4>1 DEF Musl!Updating
        <4> QED BY <1>6, <3>2, <4>2 DEF Musl!DownRead, Musl!Overlaps
      <3> QED BY <1>6, <3>1, <3>2 DEF Musl!DownRead
    <2>2. MuslCreates' /\ MuslCounted' = MuslCounted
      BY <1>6, <1>a, <2>1, MuslFinite DEF Musl!DownRead, MuslCreates, Musl!Updating, MuslCounted
    <2>3. val'[t].n = count
      BY <1>6, <1>a DEF Musl!DownRead, Musl!Word
    <2>4. MuslRead' /\ MuslFlag'
      BY <1>6, <1>a, <2>3, MuslFinite DEF Musl!DownRead, MuslRead, MuslFlag
    <2> QED BY <1>6, <1>b, <2>2, <2>4 DEF Musl!DownRead, MuslLibc
  <1>7. CASE Musl!DownWrite(t)
    <2>1. MuslCreates'
      BY <1>7, <1>a, MuslFinite DEF Musl!DownWrite, MuslCreates, Musl!Updating
    <2>2. count' = count - 1 /\ val'[t].n = count
      BY <1>7, <1>a DEF Musl!DownWrite, MuslRead
    <2>3. \A u \in Musl!Threads : u # t => pc[u] \notin Musl!Updating
      BY <1>7, <1>d DEF Musl!DownWrite, Musl!Updating
    <2>4. \E p \in MuslCounted : MuslCounted' = MuslCounted \ {p}
      <3>1. CASE pc[t] = "exit_write"
        <4>1. t \in Pthreads /\ new[t] = None
          BY <1>a, <3>1, MuslFinite DEF MuslCreates
        <4>2. \A u \in Musl!Threads : new[u] # t
          BY <1>a, <3>1, MuslFinite DEF MuslCreates
        <4>3. t \in MuslCounted /\ MuslCounted' = MuslCounted \ {t}
          BY <1>7, <1>a, <3>1, <4>1, <4>2, MuslFinite DEF Musl!DownWrite, MuslCounted
        <4> QED BY <4>3
      <3>2. CASE pc[t] = "undo_write"
        <4>1. /\ new[t] \in Pthreads /\ pc[new[t]] = "new" /\ new[t] # t
              /\ \A u \in Musl!Threads : u # t => new[u] # new[t]
          BY <1>a, <1>c, <3>2 DEF MuslCreates
        <4>2. pc' = [pc EXCEPT ![t] = "undo_flag"] /\ UNCHANGED new
          BY <1>7, <3>2 DEF Musl!DownWrite
        <4>3. new[t] \in MuslCounted /\ MuslCounted' = MuslCounted \ {new[t]}
          BY <1>a, <3>2, <4>1, <4>2, MuslFinite DEF MuslCounted
        <4> QED BY <4>3
      <3> QED BY <1>7, <3>1, <3>2 DEF Musl!DownWrite
    <2>5. MuslCount' /\ count > 0
      <3>1. PICK p \in MuslCounted : MuslCounted' = MuslCounted \ {p}
        BY <2>4
      <3>2. Cardinality(MuslCounted \ {p}) = Cardinality(MuslCounted) - 1
        BY <3>1, MuslFinite, FS_RemoveElement
      <3>3. Cardinality(MuslCounted) # 0
        BY <3>1, MuslFinite, FS_EmptySet
      <3> QED BY <1>a, <2>2, <3>1, <3>2, <3>3 DEF MuslCount
    <2>6. MuslRead'
      BY <1>7, <1>a, <2>2, <2>3 DEF Musl!DownWrite, MuslRead, Musl!Updating
    <2>7. MuslFlag'
      BY <1>7, <1>a, <2>2, <2>3, <2>5 DEF Musl!DownWrite, MuslFlag, Musl!Updating
    <2> QED BY <2>1, <2>5, <2>6, <2>7 DEF MuslLibc
  <1>8. CASE Musl!DownFlag(t)
    <2>1. \A u \in Musl!Threads : u # t => pc[u] \notin Musl!Updating
      BY <1>8, <1>d DEF Musl!DownFlag, Musl!Updating
    <2>2. MuslCreates'
      BY <1>8, <1>a, MuslFinite DEF Musl!DownFlag, MuslCreates, Musl!Updating
    <2>3. MuslCounted' = MuslCounted
      <3>1. CASE pc[t] = "exit_flag"
        BY <1>8, <1>a, <3>1, MuslFinite DEF Musl!DownFlag, MuslCounted
      <3>2. CASE pc[t] = "undo_flag"
        BY <1>8, <1>a, <3>2, MuslFinite DEF Musl!DownFlag, MuslCounted
      <3> QED BY <1>8, <3>1, <3>2 DEF Musl!DownFlag
    <2>4. val[t].n = count + 1 /\ needLocks
      BY <1>8, <1>a DEF Musl!DownFlag, MuslRead, MuslFlag
    <2>5. MuslRead'
      BY <1>8, <1>a DEF Musl!DownFlag, MuslRead
    <2>6. MuslFlag'
      BY <1>8, <1>a, <2>1, <2>4
      DEF Musl!DownFlag, Musl!LastLeft, MuslFlag, Musl!Updating
    <2> QED BY <1>8, <1>b, <2>2, <2>3, <2>5, <2>6 DEF Musl!DownFlag, MuslLibc
  <1>9. CASE Musl!ExitEnds(t)
    <2>1. MuslCreates'
      BY <1>9, <1>a, MuslFinite DEF Musl!ExitEnds, MuslCreates, Musl!Updating
    <2>2. MuslCounted' = MuslCounted
      BY <1>9, <1>a, MuslFinite DEF Musl!ExitEnds, MuslCounted
    <2>3. MuslRead' /\ MuslFlag'
      BY <1>9, <1>a, MuslFinite DEF Musl!ExitEnds, MuslRead, MuslFlag
    <2> QED BY <1>9, <1>b, <2>1, <2>2, <2>3 DEF Musl!ExitEnds, MuslLibc
  <1>10. CASE Musl!ExitBegins(t)
    <2>1. MuslCreates'
      BY <1>10, <1>a, MuslFinite DEF Musl!ExitBegins, MuslCreates, Musl!Updating
    <2>2. MuslCounted' = MuslCounted
      BY <1>10, <1>a, MuslFinite DEF Musl!ExitBegins, MuslCounted
    <2>3. MuslRead' /\ MuslFlag'
      BY <1>10, <1>a, MuslFinite DEF Musl!ExitBegins, MuslRead, MuslFlag
    <2> QED BY <1>10, <1>b, <2>1, <2>2, <2>3 DEF Musl!ExitBegins, MuslLibc
  <1>11. CASE \E p \in Pthreads : Musl!CreateBegins(t, p)
    <2>1. PICK p \in Pthreads : Musl!CreateBegins(t, p)
      BY <1>11
    <2>2. MuslCreates'
      BY <2>1, <1>a, MuslFinite DEF Musl!CreateBegins, MuslCreates, Musl!Updating
    <2>3. MuslCounted' = MuslCounted
      BY <2>1, <1>a, MuslFinite DEF Musl!CreateBegins, MuslCreates, MuslCounted
    <2>4. MuslRead' /\ MuslFlag'
      BY <2>1, <1>a, MuslFinite DEF Musl!CreateBegins, MuslRead, MuslFlag
    <2> QED BY <2>1, <1>b, <2>2, <2>3, <2>4 DEF Musl!CreateBegins, MuslLibc
  <1>12. CASE Musl!UndoUnlist(t)
    <2>1. MuslCreates'
      BY <1>12, <1>a, MuslFinite DEF Musl!UndoUnlist, MuslCreates, Musl!Updating
    <2>2. MuslCounted' = MuslCounted
      BY <1>12, <1>a, MuslFinite DEF Musl!UndoUnlist, MuslCreates, MuslCounted
    <2>3. MuslRead' /\ MuslFlag'
      BY <1>12, <1>a, MuslFinite DEF Musl!UndoUnlist, MuslRead, MuslFlag
    <2> QED BY <1>12, <1>b, <2>1, <2>2, <2>3 DEF Musl!UndoUnlist, MuslLibc
  <1>13. CASE \/ Musl!LockBegins(t) \/ Musl!LockFast(t) \/ Musl!LockSpin(t) \/ Musl!LockAdd(t)
              \/ Musl!LockTest(t) \/ Musl!LockWoken(t) \/ Musl!LockSlow(t)
              \/ Musl!UnlockTest(t) \/ Musl!UnlockSub(t) \/ Musl!UnlockWake(t)
    <2>1. /\ pc[t] \in {"run", "wake"} \cup Musl!Locking \cup Musl!Holding
          /\ \E place \in {"run", "wake"} \cup Musl!Locking \cup Musl!Holding :
                pc' = [pc EXCEPT ![t] = place]
      BY <1>13
      DEF Musl!LockBegins, Musl!LockFast, Musl!LockSpin, Musl!LockAdd, Musl!LockTest,
          Musl!LockWoken, Musl!LockSlow, Musl!UnlockTest, Musl!UnlockSub, Musl!UnlockWake,
          Musl!CasOr, Musl!Locking, Musl!Holding
    <2>2. /\ UNCHANGED <<needLocks, count, tlLock, new>>
          /\ \A u \in Musl!Threads : u # t => val'[u] = val[u]
      BY <1>13, <1>a
      DEF Musl!LockBegins, Musl!LockFast, Musl!LockSpin, Musl!LockAdd, Musl!LockTest,
          Musl!LockWoken, Musl!LockSlow, Musl!UnlockTest, Musl!UnlockSub, Musl!UnlockWake,
          Musl!CasOr
    <2> QED BY <2>1, <2>2, MuslLockSteps
  <1> QED BY <1>1, <1>2, <1>3, <1>4, <1>5, <1>6, <1>7, <1>8, <1>9, <1>10, <1>11, <1>12, <1>13
      DEF Musl!Step

LEMMA MuslSeenStep ==
    ASSUME MuslSound, Musl!Next
    PROVE  MuslSeen'
  <1> PICK t \in Musl!Threads :
        \/ Musl!Step(t) \/ Musl!LockBegins(t) \/ Musl!ExitBegins(t)
        \/ \E p \in Pthreads : Musl!CreateBegins(t, p)
    BY DEF Musl!Next
  <1>a. /\ val \in [Musl!Threads -> [held : BOOLEAN, n : Int]] /\ MuslSeen
        /\ word \in [held : BOOLEAN, n : Nat]
    BY DEF MuslSound, MuslWord, Musl!TypeOK
  <1>b. word.held => word.n # 0
    <2> SUFFICES ASSUME word.held
                 PROVE  word.n # 0
      OBVIOUS
    <2>1. PICK u \in Musl!Threads : pc[u] \in Musl!Holding
      BY DEF MuslSound, MuslWord, MuslOwned
    <2>2. u \in MuslInside
      BY <2>1 DEF MuslInside
    <2> QED BY <2>2, MuslFinite, FS_EmptySet DEF MuslSound, MuslWord, MuslInsideCount
  <1>c. ASSUME NEW w, val' = [val EXCEPT ![t] = w], w.held => w.n # 0
        PROVE  MuslSeen'
    BY <1>a, <1>c DEF MuslSeen
  <1>1. CASE Musl!UpRead(t) \/ Musl!DownRead(t)
    BY <1>1, <1>c DEF Musl!UpRead, Musl!DownRead, Musl!Read, Musl!Word
  <1>2. CASE Musl!LockAdd(t)
    <2>1. pc[t] = "spin" /\ word' = Musl!PlusOne(word) /\ val' = [val EXCEPT ![t] = word']
      BY <1>2 DEF Musl!LockAdd, Musl!At, Musl!Read
    <2>2. word.n < Musl!MaxCount
      BY <2>1, MuslRoom DEF MuslSound, MuslWord, MuslInsideCount, MuslInside, Musl!Holding
    <2>3. word' = Musl!Word(word.held, word.n + 1)
      BY <1>a, <2>1, <2>2, MuslWords
    <2>4. word'.n # 0
      BY <1>a, <2>3 DEF Musl!Word
    <2> QED BY <1>c, <2>1, <2>4
  <1>3. CASE Musl!LockFast(t) \/ Musl!LockSpin(t) \/ Musl!LockSlow(t)
    <2>1. UNCHANGED val \/ val' = [val EXCEPT ![t] = word]
      BY <1>3 DEF Musl!LockFast, Musl!LockSpin, Musl!LockSlow, Musl!CasOr, Musl!Read
    <2> QED BY <1>a, <1>b, <1>c, <2>1 DEF MuslSeen
  <1>4. CASE UNCHANGED val
    BY <1>a, <1>4 DEF MuslSeen
  <1> QED BY <1>1, <1>2, <1>3, <1>4
      DEF Musl!Step, Musl!UpWrite, Musl!UpFlag, Musl!Start, Musl!StartFails, Musl!DownWrite,
          Musl!DownFlag, Musl!UndoUnlist, Musl!ExitEnds, Musl!LockTest, Musl!LockWoken,
          Musl!UnlockTest, Musl!UnlockSub, Musl!UnlockWake, Musl!LockBegins, Musl!ExitBegins,
          Musl!CreateBegins, Musl!lockVars

LEMMA MuslWordStep ==
    ASSUME MuslSound, Musl!Next
    PROVE  MuslWord'
  <1> PICK t \in Musl!Threads :
        \/ Musl!Step(t) \/ Musl!LockBegins(t) \/ Musl!ExitBegins(t)
        \/ \E p \in Pthreads : Musl!CreateBegins(t, p)
    BY DEF Musl!Next
  <1> USE DEF Musl!At, Musl!Go, Musl!Read, Musl!Counting, Musl!Exiting, Musl!Locking,
      Musl!Holding, Musl!libcVars, Musl!lockVars
  <1>a. /\ pc \in [Musl!Threads -> {"new", "run", "gone"} \cup Musl!Counting \cup Musl!Exiting
                             \cup Musl!Locking \cup Musl!Holding \cup {"wake"}]
        /\ sleepers \subseteq Musl!Threads
        /\ MuslCreates /\ MuslOwned /\ MuslSleepers /\ Musl!NoSleeperForgotten
    BY DEF MuslSound, MuslLibc, MuslWord, Musl!TypeOK
  <1>b. /\ word.n \in Nat /\ word.n = Cardinality(MuslInside) /\ word.held \in BOOLEAN
        /\ word = Musl!Word(word.held, word.n) /\ word \in [held : BOOLEAN, n : Nat]
    BY MuslWords DEF MuslSound, MuslWord, MuslInsideCount, Musl!TypeOK
  <1>c. ASSUME word' = word, MuslInside' = MuslInside
        PROVE  MuslInsideCount'
    BY <1>b, <1>c DEF MuslInsideCount
  <1>d. ASSUME word'.n = word.n, MuslInside' = MuslInside
        PROVE  MuslInsideCount'
    BY <1>b, <1>d DEF MuslInsideCount
  <1>e. ASSUME t \notin MuslInside, MuslInside' = MuslInside \cup {t}, word'.n = word.n + 1
        PROVE  MuslInsideCount'
    <2>1. Cardinality(MuslInside \cup {t}) = Cardinality(MuslInside) + 1
      BY <1>e, MuslFinite, FS_AddElement
    <2> QED BY <1>b, <1>e, <2>1 DEF MuslInsideCount
  (* The word is what the thread made of an earlier one: it is free. *)
  <1>f. ASSUME word = Musl!Released(val[t])
        PROVE  ~word.held
    <2>1. val[t] \in [held : BOOLEAN, n : Int] /\ (val[t].held => val[t].n # 0)
      BY DEF MuslSound, MuslWord, MuslSeen, Musl!TypeOK
    <2>2. CASE val[t].held
      BY <1>f, <2>1, <2>2 DEF Musl!Released, Musl!Unlocked, Musl!Word
    <2>3. CASE ~val[t].held
      BY <1>f, <2>3 DEF Musl!Released
    <2> QED BY <2>1, <2>2, <2>3
  (* A lock that is free is taken: by a thread that is not the main thread  *)
  (* alone in the section.                                                  *)
  <1>g. ASSUME pc[t] \in {"fast", "spin", "slow"}, ~word.held, word'.held,
               pc' = [pc EXCEPT ![t] = "section"]
        PROVE  MuslOwned' /\ MuslInside' = MuslInside \cup {t}
    <2>1. \A u \in Musl!Threads : pc[u] \notin Musl!Holding
      BY <1>a, <1>g, MuslFinite DEF MuslOwned
    <2>2. MuslOwned'
      BY <1>a, <1>g, <2>1, MuslFinite DEF MuslOwned
    <2> QED BY <1>a, <1>g, <2>1, <2>2 DEF MuslInside
  <1>h. MuslSeen'
    BY MuslSeenStep
  <1>1. CASE \/ Musl!UpRead(t) \/ Musl!UpWrite(t) \/ Musl!UpFlag(t) \/ Musl!StartFails(t)
             \/ Musl!DownRead(t) \/ Musl!DownWrite(t) \/ Musl!DownFlag(t) \/ Musl!UndoUnlist(t)
             \/ Musl!ExitEnds(t) \/ Musl!ExitBegins(t) \/ \E p \in Pthreads : Musl!CreateBegins(t, p)
    <2>1. /\ \E place \in {"run", "gone"} \cup Musl!Counting \cup Musl!Exiting :
                /\ pc' = [pc EXCEPT ![t] = place]
                /\ pc[t] = "exit_unlock" => place = "gone"
          /\ pc[t] \in {"run"} \cup Musl!Counting \cup Musl!Exiting
          /\ UNCHANGED <<word, sleepers>>
      BY <1>1
      DEF Musl!UpRead, Musl!UpWrite, Musl!UpFlag, Musl!StartFails, Musl!DownRead,
          Musl!DownWrite, Musl!DownFlag, Musl!UndoUnlist, Musl!ExitEnds, Musl!ExitBegins,
          Musl!CreateBegins
    <2>2. MuslInside' = MuslInside
      BY <1>a, <2>1 DEF MuslInside
    <2>3. MuslOwned'
      BY <1>a, <2>1, MuslFinite DEF MuslOwned
    <2>4. MuslSleepers' /\ Musl!NoSleeperForgotten'
      BY <1>a, <2>1 DEF MuslSleepers, Musl!NoSleeperForgotten
    <2> QED BY <1>c, <2>1, <2>2, <2>3, <2>4, <1>h DEF MuslWord
  <1>2. CASE Musl!Start(t)
    <2>1. /\ new[t] \in Pthreads /\ new[t] # t /\ pc[new[t]] = "new" /\ pc[t] = "start"
          /\ pc' = [pc EXCEPT ![t] = "run", ![new[t]] = "run"] /\ UNCHANGED <<word, sleepers>>
      BY <1>2, <1>a, MuslFinite DEF Musl!Start, MuslCreates, MuslSound, Musl!TypeOK
    <2>2. MuslInside' = MuslInside
      BY <1>a, <2>1, MuslFinite DEF MuslInside
    <2>3. MuslOwned'
      BY <1>a, <2>1, MuslFinite DEF MuslOwned
    <2>4. MuslSleepers' /\ Musl!NoSleeperForgotten'
      BY <1>a, <2>1, MuslFinite DEF MuslSleepers, Musl!NoSleeperForgotten
    <2> QED BY <1>c, <2>1, <2>2, <2>3, <2>4, <1>h DEF MuslWord
  <1>3. CASE Musl!LockBegins(t)
    <2>1. pc[t] = "run" /\ UNCHANGED <<word, sleepers>>
      BY <1>3 DEF Musl!LockBegins
    <2>2. CASE needLocks
      <3>1. pc' = [pc EXCEPT ![t] = "fast"]
        BY <1>3, <2>2 DEF Musl!LockBegins
      <3>2. MuslInside' = MuslInside /\ MuslOwned'
        BY <1>a, <2>1, <3>1, MuslFinite DEF MuslInside, MuslOwned
      <3>3. MuslSleepers' /\ Musl!NoSleeperForgotten'
        BY <1>a, <2>1, <3>1 DEF MuslSleepers, Musl!NoSleeperForgotten
      <3> QED BY <1>c, <2>1, <3>2, <3>3, <1>h DEF MuslWord
    <2>3. CASE ~needLocks
      <3>1. pc' = [pc EXCEPT ![t] = "section"]
        BY <1>3, <2>3 DEF Musl!LockBegins
      <3>2. t = Main /\ \A p \in Pthreads : pc[p] \in {"new", "gone", "exit_unlock"}
        BY <2>1, <2>3, MuslAlone DEF MuslSound
      <3>3. ~word.held
        BY <1>a, <2>1, <3>2, MuslFinite DEF MuslOwned
      <3>4. MuslInside' = MuslInside /\ MuslOwned'
        BY <1>a, <2>1, <3>1, <3>2, <3>3, MuslFinite DEF MuslInside, MuslOwned
      <3>5. MuslSleepers' /\ Musl!NoSleeperForgotten'
        BY <1>a, <2>1, <3>1 DEF MuslSleepers, Musl!NoSleeperForgotten
      <3> QED BY <1>c, <2>1, <3>4, <3>5, <1>h DEF MuslWord
    <2> QED BY <2>2, <2>3
  <1>4. CASE Musl!LockFast(t)
    <2>1. pc[t] = "fast" /\ UNCHANGED sleepers
      BY <1>4 DEF Musl!LockFast
    <2>2. CASE word = Musl!Free
      <3>1. /\ word' = [held |-> TRUE, n |-> 1] /\ ~word.held /\ word.n = 0
            /\ pc' = [pc EXCEPT ![t] = "section"]
        BY <1>4, <2>2 DEF Musl!LockFast, Musl!CasOr, Musl!Free, Musl!Word
      <3>2. t \notin MuslInside
        BY <2>1, <3>1 DEF MuslInside
      <3>3. MuslOwned' /\ MuslInsideCount'
        BY <1>e, <1>g, <2>1, <3>1, <3>2
      <3>4. MuslSleepers' /\ Musl!NoSleeperForgotten'
        BY <1>a, <2>1, <3>1 DEF MuslSleepers, Musl!NoSleeperForgotten
      <3> QED BY <3>3, <3>4, <1>h DEF MuslWord
    <2>3. CASE word # Musl!Free
      <3>1. word' = word /\ pc' = [pc EXCEPT ![t] = "spin"]
        BY <1>4, <2>3 DEF Musl!LockFast, Musl!CasOr
      <3>2. MuslInside' = MuslInside /\ MuslOwned'
        BY <1>a, <2>1, <3>1, MuslFinite DEF MuslInside, MuslOwned
      <3>3. MuslSleepers' /\ Musl!NoSleeperForgotten'
        BY <1>a, <2>1, <3>1 DEF MuslSleepers, Musl!NoSleeperForgotten
      <3> QED BY <1>c, <3>1, <3>2, <3>3, <1>h DEF MuslWord
    <2> QED BY <2>2, <2>3
  <1>5. CASE Musl!LockSpin(t)
    <2>1. pc[t] = "spin" /\ UNCHANGED sleepers
      BY <1>5 DEF Musl!LockSpin
    <2>2. CASE word = Musl!Released(val[t])
      <3>1. /\ word' = Musl!Locked(Musl!PlusOne(word)) /\ pc' = [pc EXCEPT ![t] = "section"]
            /\ ~word.held
        BY <1>5, <1>f, <2>2 DEF Musl!LockSpin, Musl!CasOr
      <3>2. t \notin MuslInside
        BY <2>1 DEF MuslInside
      <3>3. Musl!PlusOne(word) = Musl!Word(word.held, word.n + 1)
        BY <1>b, <3>2, MuslRoom, MuslWords
      <3>4. word'.held /\ word'.n = word.n + 1
        <4>1. Musl!PlusOne(word).held = word.held /\ Musl!PlusOne(word).n = word.n + 1
          BY <3>3 DEF Musl!Word
        <4>2. /\ word'.held = (~Musl!PlusOne(word).held)
              /\ word'.n = Musl!PlusOne(word).n
          BY <3>1 DEF Musl!Locked, Musl!Word
        <4>3. ~Musl!PlusOne(word).held
          BY <3>1, <4>1
        <4> QED BY <4>1, <4>2, <4>3
      <3>5. MuslOwned' /\ MuslInsideCount'
        BY <1>e, <1>g, <2>1, <3>1, <3>2, <3>4
      <3>6. MuslSleepers' /\ Musl!NoSleeperForgotten'
        BY <1>a, <2>1, <3>1, <3>4 DEF MuslSleepers, Musl!NoSleeperForgotten
      <3> QED BY <3>5, <3>6, <1>h DEF MuslWord
    <2>3. CASE word # Musl!Released(val[t])
      <3>1. word' = word /\ pc' = [pc EXCEPT ![t] = "spin"]
        BY <1>5, <2>3 DEF Musl!LockSpin, Musl!CasOr
      <3>2. MuslInside' = MuslInside /\ MuslOwned'
        BY <1>a, <2>1, <3>1, MuslFinite DEF MuslInside, MuslOwned
      <3>3. MuslSleepers' /\ Musl!NoSleeperForgotten'
        BY <1>a, <2>1, <3>1 DEF MuslSleepers, Musl!NoSleeperForgotten
      <3> QED BY <1>c, <3>1, <3>2, <3>3, <1>h DEF MuslWord
    <2> QED BY <2>2, <2>3
  <1>6. CASE Musl!LockAdd(t)
    <2>1. /\ pc[t] = "spin" /\ UNCHANGED sleepers /\ pc' = [pc EXCEPT ![t] = "test"]
          /\ word'.n = word.n + 1 /\ word'.held = word.held
      <3>1. /\ pc[t] = "spin" /\ UNCHANGED sleepers /\ pc' = [pc EXCEPT ![t] = "test"]
            /\ word' = Musl!PlusOne(word)
        BY <1>6 DEF Musl!LockAdd
      <3>2. t \notin MuslInside
        BY <3>1 DEF MuslInside
      <3>3. word' = Musl!Word(word.held, word.n + 1)
        BY <1>b, <3>1, <3>2, MuslRoom, MuslWords
      <3> QED BY <3>1, <3>3 DEF Musl!Word
    <2>2. t \notin MuslInside /\ MuslInside' = MuslInside \cup {t}
      BY <1>a, <2>1 DEF MuslInside
    <2>3. MuslOwned'
      BY <1>a, <2>1, MuslFinite DEF MuslOwned
    <2>4. MuslSleepers' /\ Musl!NoSleeperForgotten'
      BY <1>a, <2>1 DEF MuslSleepers, Musl!NoSleeperForgotten
    <2> QED BY <1>e, <2>1, <2>2, <2>3, <2>4, <1>h DEF MuslWord
  <1>7. CASE Musl!LockTest(t)
    <2>1. pc[t] = "test" /\ UNCHANGED word
      BY <1>7 DEF Musl!LockTest
    <2>2. \/ word.held /\ sleepers' = sleepers \cup {t} /\ pc' = [pc EXCEPT ![t] = "asleep"]
          \/ sleepers' = sleepers /\ pc' = [pc EXCEPT ![t] = "slow"]
      BY <1>7 DEF Musl!LockTest
    <2>3. MuslInside' = MuslInside /\ MuslOwned'
      BY <1>a, <2>1, <2>2, MuslFinite DEF MuslInside, MuslOwned
    <2>4. MuslSleepers' /\ Musl!NoSleeperForgotten'
      BY <1>a, <2>1, <2>2 DEF MuslSleepers, Musl!NoSleeperForgotten
    <2> QED BY <1>c, <2>1, <2>3, <2>4, <1>h DEF MuslWord
  <1>8. CASE Musl!LockWoken(t)
    <2>1. /\ pc[t] = "asleep" /\ t \notin sleepers /\ UNCHANGED <<word, sleepers>>
          /\ pc' = [pc EXCEPT ![t] = "slow"]
      BY <1>8 DEF Musl!LockWoken
    <2>2. MuslInside' = MuslInside /\ MuslOwned'
      BY <1>a, <2>1, MuslFinite DEF MuslInside, MuslOwned
    <2>3. MuslSleepers' /\ Musl!NoSleeperForgotten'
      BY <1>a, <2>1 DEF MuslSleepers, Musl!NoSleeperForgotten
    <2> QED BY <1>c, <2>1, <2>2, <2>3, <1>h DEF MuslWord
  <1>9. CASE Musl!LockSlow(t)
    <2>1. pc[t] = "slow" /\ UNCHANGED sleepers
      BY <1>9 DEF Musl!LockSlow
    <2>2. CASE word = Musl!Released(val[t])
      <3>1. /\ word' = Musl!Locked(word) /\ pc' = [pc EXCEPT ![t] = "section"]
            /\ ~word.held
        BY <1>9, <1>f, <2>2 DEF Musl!LockSlow, Musl!CasOr
      <3>2. t \in MuslInside /\ word'.held /\ word'.n = word.n
        BY <2>1, <3>1 DEF MuslInside, Musl!Locked, Musl!Word
      <3>3. MuslOwned' /\ MuslInside' = MuslInside
        BY <1>g, <2>1, <3>1, <3>2
      <3>4. MuslSleepers' /\ Musl!NoSleeperForgotten'
        BY <1>a, <2>1, <3>1, <3>2 DEF MuslSleepers, Musl!NoSleeperForgotten
      <3> QED BY <1>d, <3>2, <3>3, <3>4, <1>h DEF MuslWord
    <2>3. CASE word # Musl!Released(val[t])
      <3>1. word' = word /\ pc' = [pc EXCEPT ![t] = "test"]
        BY <1>9, <2>3 DEF Musl!LockSlow, Musl!CasOr
      <3>2. MuslInside' = MuslInside /\ MuslOwned'
        BY <1>a, <2>1, <3>1, MuslFinite DEF MuslInside, MuslOwned
      <3>3. MuslSleepers' /\ Musl!NoSleeperForgotten'
        BY <1>a, <2>1, <3>1 DEF MuslSleepers, Musl!NoSleeperForgotten
      <3> QED BY <1>c, <3>1, <3>2, <3>3, <1>h DEF MuslWord
    <2> QED BY <2>2, <2>3
  <1>10. CASE Musl!UnlockTest(t)
    <2>1. /\ pc[t] = "section" /\ UNCHANGED <<word, sleepers>>
          /\ pc' = [pc EXCEPT ![t] = IF word.held THEN "sub" ELSE "run"]
      BY <1>10 DEF Musl!UnlockTest
    <2>2. MuslInside' = MuslInside
      BY <1>a, <2>1 DEF MuslInside
    <2>3. MuslOwned'
      BY <1>a, <2>1, MuslFinite DEF MuslOwned
    <2>4. MuslSleepers' /\ Musl!NoSleeperForgotten'
      BY <1>a, <2>1 DEF MuslSleepers, Musl!NoSleeperForgotten
    <2> QED BY <1>c, <2>1, <2>2, <2>3, <2>4, <1>h DEF MuslWord
  <1>11. CASE Musl!UnlockSub(t)
    <2>1. pc[t] = "sub" /\ UNCHANGED sleepers /\ word.held /\ t \in MuslInside
      BY <1>11, <1>a DEF Musl!UnlockSub, MuslOwned, MuslInside
    <2>2. ~word'.held /\ word'.n = word.n - 1
      <3>1. word.n # 0
        BY <1>b, <2>1, MuslFinite, FS_EmptySet
      <3>2. word' = Musl!Word(FALSE, word.n - 1)
        BY <1>11, <1>b, <2>1, <3>1, MuslWords DEF Musl!UnlockSub
      <3> QED BY <3>2 DEF Musl!Word
    <2>3. pc' = [pc EXCEPT ![t] = IF word.n # 1 THEN "wake" ELSE "run"]
      <3>1. word = [held |-> TRUE, n |-> word.n]
        BY <1>b, <2>1 DEF Musl!Word
      <3>2. word # [held |-> TRUE, n |-> 1] <=> word.n # 1
        BY <3>1
      <3> QED BY <1>11, <3>2 DEF Musl!UnlockSub, Musl!OthersInside, Musl!Word
    <2>4. \A u \in Musl!Threads : u # t => pc[u] \notin Musl!Holding
      BY <1>a, <2>1 DEF MuslOwned
    <2>5. MuslInside' = MuslInside \ {t}
      BY <1>a, <2>1, <2>2, <2>3, <2>4 DEF MuslInside
    <2>6. MuslInsideCount'
      <3>1. Cardinality(MuslInside \ {t}) = Cardinality(MuslInside) - 1
        BY <2>1, MuslFinite, FS_RemoveElement
      <3> QED BY <1>b, <2>2, <2>5, <3>1 DEF MuslInsideCount
    <2>7. MuslOwned'
      BY <1>a, <2>2, <2>3, <2>4 DEF MuslOwned
    <2>8. MuslSleepers'
      BY <1>a, <2>1, <2>3 DEF MuslSleepers
    <2>9. ASSUME NEW u \in sleepers
          PROVE  word.n # 1
      <3>1. u \in MuslInside /\ u # t
        BY <1>a, <2>1, <2>9 DEF MuslSleepers, MuslInside
      <3> QED BY <1>b, <2>1, <3>1, MuslFinite, FS_Singleton
    <2>10. Musl!NoSleeperForgotten'
      BY <1>a, <2>1, <2>3, <2>9 DEF Musl!NoSleeperForgotten
    <2> QED BY <2>6, <2>7, <2>8, <2>10, <1>h DEF MuslWord
  <1>12. CASE Musl!UnlockWake(t)
    <2>1. /\ pc[t] = "wake" /\ UNCHANGED word /\ pc' = [pc EXCEPT ![t] = "run"]
          /\ \/ sleepers = {} /\ sleepers' = {}
             \/ \E u \in sleepers : sleepers' = sleepers \ {u}
      BY <1>12 DEF Musl!UnlockWake
    <2>2. MuslInside' = MuslInside
      BY <1>a, <2>1 DEF MuslInside
    <2>3. MuslOwned'
      BY <1>a, <2>1, MuslFinite DEF MuslOwned
    <2>4. MuslSleepers' /\ Musl!NoSleeperForgotten'
      BY <1>a, <2>1 DEF MuslSleepers, Musl!NoSleeperForgotten
    <2> QED BY <1>c, <2>1, <2>2, <2>3, <2>4, <1>h DEF MuslWord
  <1> QED BY <1>1, <1>2, <1>3, <1>4, <1>5, <1>6, <1>7, <1>8, <1>9, <1>10, <1>11, <1>12
      DEF Musl!Step

LEMMA MuslStep ==
    ASSUME MuslInv, Musl!Next
    PROVE  MuslInv'
  <1>1. Musl!TypeOK'
    BY MuslTypeStep DEF MuslInv
  <1>2. ASSUME ~overlapped'
        PROVE  MuslLibc' /\ MuslWord'
    <2>1. MuslSound
      BY <1>2, MuslHistory DEF MuslInv, MuslSound
    <2> QED BY <1>2, <2>1, MuslLibcStep, MuslWordStep
  <1> QED BY <1>1, <1>2 DEF MuslInv

-----------------------------------------------------------------------------
(* The library: each part keeps its invariant while it is the subject.     *)

LibraryInv ==
    /\ subject = "lock" => LockInv /\ LockWakes /\ CondvarInv
    /\ subject = "semaphore" => SemInv /\ SemWakeInv
    /\ subject = "sizes" => SizesSemInv
    /\ subject = "async" => AsyncInv
    /\ subject = "musl" => MuslInv

LEMMA LibraryInitial ==
    ASSUME LibraryInit
    PROVE  LibraryInv
  <1>1. ASSUME subject = "lock" PROVE LockInv /\ LockWakes /\ CondvarInv
    <2>1. Lock!Init
      BY <1>1 DEF LibraryInit
    <2>2. LockWakes /\ CondvarInv
      BY <2>1
      DEF Lock!Init, LockWakes, CondvarInv, CondvarRead, Lock!BroadcastReachesWaiters,
          Lock!Lock, Lock!Condvar
    <2> QED BY <2>1, <2>2, LockInitial
  <1>2. ASSUME subject = "semaphore" PROVE SemInv /\ SemWakeInv
    <2>1. Semaphore!Init
      BY <1>2 DEF LibraryInit
    <2>2. SemWakeInv
      BY <2>1 DEF Semaphore!Init, SemWakeInv, SemServed, SemSleepers
    <2> QED BY <2>1, <2>2, SemInitial
  <1>3. ASSUME subject = "sizes" PROVE SizesSemInv
    <2>1. SizesSem!Init
      BY <1>3 DEF LibraryInit
    <2> QED BY <2>1, SizesSemInitial
  <1>4. ASSUME subject = "async" PROVE AsyncInv
    <2>1. WaitAsync!Init
      BY <1>4 DEF LibraryInit
    <2> QED BY <2>1, AsyncInitial
  <1>5. ASSUME subject = "musl" PROVE MuslInv
    <2>1. Musl!Init
      BY <1>5 DEF LibraryInit
    <2> QED BY <2>1, MuslInitial
  <1> QED BY <1>1, <1>2, <1>3, <1>4, <1>5 DEF LibraryInv

LEMMA LibraryStutters ==
    ASSUME LibraryInv, UNCHANGED libraryVars
    PROVE  LibraryInv'
  <1>1. /\ UNCHANGED <<subject, word, sleepers, pc, mode, requests, val>>
        /\ UNCHANGED <<then, seen, left, broadcast>>
        /\ UNCHANGED <<sem, orphans, num>>
        /\ UNCHANGED <<counter, live, pending, resolved, address, called, canceled, keepalive>>
        /\ UNCHANGED <<needLocks, count, tlLock, new, sections, failures, overlapped>>
    BY DEF libraryVars, lockVars, lockOnly, semVars, semOnly, asyncVars, muslVars, muslOnly
  <1>2. LockInv' = LockInv
    BY <1>1
    DEF LockInv, Lock!TypeOK, LockOwned, LockReturns, LockSleepers, LockHolds, SleepingMode,
        InCondWait, Lock!At
  <1>3. LockWakes' = LockWakes /\ CondvarInv' = CondvarInv
    BY <1>1 DEF LockWakes, LockAwake, CondvarInv, CondvarRead, Lock!BroadcastReachesWaiters, Lock!Condvar
  <1>4. SemInv' = SemInv
    BY <1>1 DEF SemInv, Semaphore!TypeOK, SemReady, Semaphore!InstancesConserved, Semaphore!Acquired
  <1>5. SemWakeInv' = SemWakeInv
    BY <1>1 DEF SemWakeInv, SemServed, SemServing, SemSleepers
  <1>6. SizesSemInv' = SizesSemInv
    BY <1>1 DEF SizesSemInv, SizesSem!TypeOK, SizesSemReady, SizesSem!InstancesConserved, SizesSem!Acquired
  <1>7. AsyncInv' = AsyncInv
    BY <1>1 DEF AsyncInv, WaitAsync!TypeOK, AsyncUnanswered, WaitAsync!KeptAliveForWaits
  <1>8. MuslInv' = MuslInv
    <2>1. Musl!TypeOK' = Musl!TypeOK
      BY <1>1 DEF Musl!TypeOK
    <2>2. MuslCounted' = MuslCounted /\ MuslInside' = MuslInside
      BY <1>1 DEF MuslCounted, MuslInside
    <2>3. MuslLibc' = MuslLibc
      BY <1>1, <2>2 DEF MuslLibc, MuslCreates, MuslCount, MuslRead, MuslFlag
    <2>4. MuslWord' = MuslWord
      BY <1>1, <2>2
      DEF MuslWord, MuslOwned, MuslInsideCount, MuslSleepers, MuslSeen,
          Musl!NoSleeperForgotten
    <2> QED BY <1>1, <2>1, <2>3, <2>4 DEF MuslInv
  <1> QED BY <1>1, <1>2, <1>3, <1>4, <1>5, <1>6, <1>7, <1>8 DEF LibraryInv

LEMMA LibraryStep ==
    ASSUME LibraryInv, [LibraryNext]_libraryVars
    PROVE  LibraryInv'
  <1>1. CASE QueueNext
    BY <1>1 DEF QueueNext, LibraryInv
  <1>2. CASE LockNext
    <2>1. subject = "lock" /\ subject' = "lock" /\ Lock!Next
      BY <1>2 DEF LockNext
    <2>2. LockInv /\ LockWakes /\ CondvarInv
      BY <2>1 DEF LibraryInv
    <2>3. LockInv' /\ LockWakes' /\ CondvarInv'
      BY <2>1, <2>2, LockStep, LockWakesStep, CondvarStep
    <2> QED BY <2>1, <2>3 DEF LibraryInv
  <1>3. CASE SemaphoreNext
    <2>1. subject = "semaphore" /\ subject' = "semaphore" /\ Semaphore!Next
      BY <1>3 DEF SemaphoreNext
    <2>2. SemInv /\ SemWakeInv
      BY <2>1 DEF LibraryInv
    <2>3. SemInv'
      BY <2>1, <2>2, SemStep
    <2>4. SemWakeInv'
      BY <2>1, <2>2, <2>3, SemWakeStep
    <2> QED BY <2>1, <2>3, <2>4 DEF LibraryInv
  <1>4. CASE SizesNext
    <2>1. subject = "sizes" /\ subject' = "sizes" /\ SizesSem!Next
      BY <1>4 DEF SizesNext
    <2>2. SizesSemInv'
      BY <2>1, SizesSemStep DEF LibraryInv
    <2> QED BY <2>1, <2>2 DEF LibraryInv
  <1>5. CASE AsyncNext
    <2>1. subject = "async" /\ subject' = "async" /\ WaitAsync!Next
      BY <1>5 DEF AsyncNext
    <2>2. AsyncInv'
      BY <2>1, AsyncStep DEF LibraryInv
    <2> QED BY <2>1, <2>2 DEF LibraryInv
  <1>6. CASE MuslNext
    <2>1. subject = "musl" /\ subject' = "musl" /\ Musl!Next
      BY <1>6 DEF MuslNext
    <2>2. MuslInv'
      BY <2>1, MuslStep DEF LibraryInv
    <2> QED BY <2>1, <2>2 DEF LibraryInv
  <1>7. CASE UNCHANGED libraryVars
    BY <1>7, LibraryStutters
  <1> QED BY <1>1, <1>2, <1>3, <1>4, <1>5, <1>6, <1>7 DEF LibraryNext

LEMMA LibraryInvariant == LibrarySpec => []LibraryInv
  <1>1. LibraryInit => LibraryInv
    BY LibraryInitial
  <1>2. LibraryInv /\ [LibraryNext]_libraryVars => LibraryInv'
    BY LibraryStep
  <1> QED BY <1>1, <1>2, PTL DEF LibrarySpec

(* What each invariant says of the property that a run checks. *)
LEMMA LockTruth ==
    ASSUME LockInv
    PROVE  Lock!LockWordIsTruthful
  <1>1. Lock!Holders = {t \in Lock!Threads : LockHolds(t)}
    BY DEF Lock!Holders, LockHolds
  <1>2. CASE word["lock"] = 0
    <2>1. Lock!Holders = {}
      BY <1>1, <1>2 DEF LockInv, LockOwned
    <2> QED BY <1>2, <2>1, LockFinite, FS_EmptySet DEF Lock!LockWordIsTruthful, Lock!Lock
  <1>3. CASE word["lock"] = 1
    <2>1. PICK t \in Lock!Threads : LockHolds(t)
      BY <1>3 DEF LockInv, LockOwned
    <2>2. Lock!Holders = {t}
      BY <1>1, <2>1 DEF LockInv, LockOwned
    <2> QED BY <1>3, <2>2, LockFinite, FS_Singleton DEF Lock!LockWordIsTruthful, Lock!Lock
  <1> QED BY <1>2, <1>3 DEF LockInv, LockOwned

LEMMA MuslExcludes ==
    ASSUME MuslWord
    PROVE  Musl!MutualExclusion
  <1> DEFINE H == {t \in Musl!Threads : pc[t] \in Musl!Holding}
  <1>1. H = {} \/ \E t : H = {t}
    BY DEF MuslWord, MuslOwned
  <1>2. Cardinality(H) = 0 \/ Cardinality(H) = 1
    BY <1>1, FS_EmptySet, FS_Singleton
  <1> QED BY <1>2, MuslFinite DEF Musl!MutualExclusion

LEMMA SemNobodyStranded ==
    ASSUME SemInv, SemWakeInv
    PROVE  Semaphore!NoStrandedAcquirer
  <1> SUFFICES ASSUME NEW t \in sleepers, sem >= num[t]
               PROVE  SemServing # {}
    BY DEF Semaphore!NoStrandedAcquirer, SemServing
  <1>1. t \in Semaphore!Threads /\ pc[t] = "asleep" /\ num[t] = 1
    BY SemServingFinite DEF SemWakeInv, SemSleepers
  <1>2. sem \in Nat /\ sem >= 1 /\ sem <= Cardinality(SemServing)
    BY <1>1, SemServingFinite DEF SemWakeInv, SemServed
  <1> QED BY <1>2, FS_EmptySet

-----------------------------------------------------------------------------
(* For every number of threads one thread at most holds emscripten_lock,   *)
(* and its word is 1 exactly then.                                         *)
THEOREM LocksAreExclusive == LibrarySpec => []LocksExclude
  <1>1. LibraryInv => LocksExclude
    BY LockTruth DEF LibraryInv, LocksExclude
  <1> QED BY <1>1, LibraryInvariant, PTL

(* For every number of threads below 2^31, and with creations and exits in *)
(* any order, one thread at most is between musl's __lock and __unlock and *)
(* the flag is set whenever a pthread runs - until a creator's update of   *)
(* threads_minus_1 has overlapped the update of another thread.  The code  *)
(* does not exclude that; nothing is claimed of what follows it.           *)
THEOREM LibcLockIsExclusive == LibrarySpec => []LibcLockExcludes
  <1>1. MuslInv /\ ~overlapped => Musl!MutualExclusion /\ Musl!NeedLocksWhileThreaded
    BY MuslExcludes, MuslFlagSet DEF MuslInv
  <1>2. LibraryInv => LibcLockExcludes
    BY <1>1 DEF LibraryInv, LibcLockExcludes
  <1> QED BY <1>2, LibraryInvariant, PTL

(* For every number of threads and of instances, emscripten_lock_release   *)
(* and, with requests of one size, emscripten_semaphore_release lose no    *)
(* wake-up; nor does musl's __unlock until the overlap above.              *)
THEOREM NoWakeupIsLost == LibrarySpec => []NoStrandedSleeper
  <1>1. LockWakes => Lock!NoStrandedSleeper
    BY DEF LockWakes, LockAwake, Lock!NoStrandedSleeper, Lock!Lock
  <1>2. MuslInv /\ ~overlapped => Musl!NoSleeperForgotten
    BY DEF MuslInv, MuslWord
  <1>3. LibraryInv => NoStrandedSleeper
    BY <1>1, <1>2, SemNobodyStranded DEF LibraryInv, NoStrandedSleeper
  <1> QED BY <1>3, LibraryInvariant, PTL

(* For every number of threads, emscripten_condvar_signal to all leaves    *)
(* nobody asleep who had released the lock before it.                      *)
THEOREM BroadcastIsComplete == LibrarySpec => []BroadcastReachesWaiters
  <1>1. LibraryInv => BroadcastReachesWaiters
    BY DEF LibraryInv, CondvarInv, BroadcastReachesWaiters
  <1> QED BY <1>1, LibraryInvariant, PTL

(* For every number of threads and all sizes of requests, the instances of *)
(* emscripten_semaphore are conserved.                                     *)
THEOREM SemaphoreConserves == LibrarySpec => []InstancesConserved
  <1>1. LibraryInv => InstancesConserved
    BY DEF LibraryInv, SemInv, SizesSemInv, InstancesConserved
  <1> QED BY <1>1, LibraryInvariant, PTL

(* For every number of waits and addresses, emscripten_atomic_wait_async   *)
(* answers once, a canceled wait never, and keeps the runtime alive.       *)
THEOREM AsyncWaitsAnswerOnce == LibrarySpec => []CanceledWaitIsSilent
  <1>1. AsyncInv => WaitAsync!CanceledWaitIsSilent /\ WaitAsync!KeptAliveForWaits
    <2>1. AsyncInv => WaitAsync!CanceledWaitIsSilent
      BY AsyncFinite DEF AsyncInv, AsyncUnanswered, WaitAsync!CanceledWaitIsSilent, WaitAsync!TypeOK
    <2> QED BY <2>1 DEF AsyncInv
  <1>2. LibraryInv => CanceledWaitIsSilent
    BY <1>1 DEF LibraryInv, CanceledWaitIsSilent
  <1> QED BY <1>2, LibraryInvariant, PTL
=============================================================================
