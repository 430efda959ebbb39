------------------------------ MODULE MuslLock ------------------------------
(***************************************************************************)
(* libc's internal lock, musl's __lock.c, together with the flag that says *)
(* whether it is needed at all: libc.need_locks, which pthread_create.c    *)
(* sets when the second thread is created and clears when the last but one *)
(* has exited, by counting threads in libc.threads_minus_1.  The counter   *)
(* is a plain int: each update of it is a read and a write.  Exiting       *)
(* threads update it under the thread list lock, creators do not.          *)
(*                                                                         *)
(* The lock's word is INT_MIN while the lock is held plus the number of    *)
(* threads inside; here a record of the sign and of the other 31 bits.     *)
(***************************************************************************)
EXTENDS Integers, FiniteSets

CONSTANTS Main, Pthreads, None,
          MaxSections,   \* bound: the critical sections of each thread
          MaxFailures    \* bound: the creations that fail

Threads == Pthreads \cup {Main}

MaxCount == 2147483647   \* INT_MAX

(* What the constants are assumed to be.  All threads fit in the word. *)
MuslLockAssumption ==
    /\ Main \notin Pthreads /\ None \notin Threads
    /\ IsFiniteSet(Pthreads) /\ Cardinality(Threads) <= MaxCount
    /\ MaxSections \in Nat /\ MaxFailures \in Nat

VARIABLES needLocks,  \* libc.need_locks
          count,      \* libc.threads_minus_1
          tlLock,     \* who holds __thread_list_lock
          word,       \* the lock
          sleepers,   \* the threads in a futex wait on it
          pc,         \* where each thread is
          val,        \* the count, or the value of the lock, that it has read
          new,        \* the thread it is creating
          failures, sections

(* History: a creator and another thread have updated the count at once. *)
VARIABLE overlapped

vars == <<needLocks, count, tlLock, word, sleepers, pc, val, new, failures, sections,
          overlapped>>
lockVars == <<word, sleepers>>
libcVars == <<needLocks, count, tlLock>>
historyVars == <<failures, overlapped>>

Word(held, n) == [held |-> held, n |-> n]
Free == Word(FALSE, 0)

(* The word plus 1, plus INT_MIN, and minus INT_MIN + 1, modulo 2^32. *)
PlusOne(w) == IF w.n = MaxCount THEN Word(~w.held, 0) ELSE Word(w.held, w.n + 1)
Locked(w) == Word(~w.held, w.n)
Unlocked(w) == IF w.n = 0 THEN Word(w.held, MaxCount) ELSE Word(~w.held, w.n - 1)

(* What the release of the lock leaves, if it is held. *)
Released(w) == IF w.held THEN Unlocked(w) ELSE w

(* Where a thread is outside of the lock ... *)
Counting == {"up_read", "up_write", "up_flag", "start", "undo_read", "undo_write",
             "undo_flag", "undo_unlist"}
Exiting == {"exit_read", "exit_write", "exit_flag", "exit_unlock"}
(* ... and inside. *)
Locking == {"fast", "spin", "test", "asleep", "slow"}
Holding == {"section", "sub"}

TypeOK ==
    /\ needLocks \in BOOLEAN /\ count \in Int
    /\ tlLock \in Threads \cup {None}
    /\ word \in [held : BOOLEAN, n : Nat]
    /\ sleepers \subseteq Threads
    /\ pc \in [Threads -> {"new", "run", "gone"} \cup Counting \cup Exiting
                             \cup Locking \cup Holding \cup {"wake"}]
    /\ val \in [Threads -> [held : BOOLEAN, n : Int]]
    /\ new \in [Threads -> Pthreads \cup {None}]
    /\ failures \in 0 .. MaxFailures /\ overlapped \in BOOLEAN
    /\ sections \in [Threads -> 0 .. MaxSections]

Init ==
    /\ needLocks = FALSE /\ count = 0 /\ tlLock = None
    /\ word = Free /\ sleepers = {}
    /\ pc = [t \in Threads |-> IF t = Main THEN "run" ELSE "new"]
    /\ val = [t \in Threads |-> Free]
    /\ new = [t \in Threads |-> None]
    /\ sections = [t \in Threads |-> 0]
    /\ failures = 0 /\ overlapped = FALSE

At(t, place) == pc[t] = place
Go(t, place) == pc' = [pc EXCEPT ![t] = place]
Read(t, v) == val' = [val EXCEPT ![t] = v]

-----------------------------------------------------------------------------
(* The counter.  Each of the three updates is a read, a write and the      *)
(* store to need_locks that depends on the value.                          *)

(* Between the read of an update and its store to need_locks. *)
Updating == {"up_write", "up_flag", "undo_write", "undo_flag", "exit_write", "exit_flag"}

(* The history of a thread that reads the count. *)
Overlaps(t) ==
    overlapped' = (overlapped \/ \E u \in Threads \ {t} :
                      pc[u] \in Updating /\ (At(t, "exit_read") => pc[u] \in Counting))

CreateBegins(t, p) ==
    /\ At(t, "run") /\ At(p, "new")
    /\ \A u \in Threads : new[u] # p
    /\ tlLock = None          \* the thread list is extended in between
    /\ new' = [new EXCEPT ![t] = p]
    /\ Go(t, "up_read")
    /\ UNCHANGED <<libcVars, lockVars, val, sections, historyVars>>

UpRead(t) ==
    /\ At(t, "up_read")
    /\ Read(t, Word(FALSE, count)) /\ Go(t, "up_write")
    /\ Overlaps(t)
    /\ UNCHANGED <<libcVars, lockVars, new, failures, sections>>

UpWrite(t) ==
    /\ At(t, "up_write")
    /\ count' = val[t].n + 1
    /\ Go(t, IF val[t].n = 0 THEN "up_flag" ELSE "start")
    /\ UNCHANGED <<needLocks, tlLock, lockVars, val, new, sections, historyVars>>

UpFlag(t) ==
    /\ At(t, "up_flag")
    /\ needLocks' = TRUE
    /\ Go(t, "start")
    /\ UNCHANGED <<count, tlLock, lockVars, val, new, sections, historyVars>>

Start(t) ==
    /\ At(t, "start")
    /\ pc' = [pc EXCEPT ![t] = "run", ![new[t]] = "run"]
    /\ new' = [new EXCEPT ![t] = None]
    /\ UNCHANGED <<libcVars, lockVars, val, sections, historyVars>>

StartFails(t) ==
    /\ At(t, "start")
    /\ failures < MaxFailures
    /\ failures' = failures + 1
    /\ Go(t, "undo_read")
    /\ UNCHANGED <<libcVars, lockVars, val, new, sections, overlapped>>

ExitBegins(p) ==
    /\ p # Main
    /\ At(p, "run")
    /\ tlLock = None
    /\ tlLock' = p
    /\ Go(p, "exit_read")
    /\ UNCHANGED <<needLocks, count, lockVars, val, new, sections, historyVars>>

DownRead(t) ==
    /\ At(t, "exit_read") \/ At(t, "undo_read")
    /\ Read(t, Word(FALSE, count))
    /\ Go(t, IF At(t, "exit_read") THEN "exit_write" ELSE "undo_write")
    /\ Overlaps(t)
    /\ UNCHANGED <<libcVars, lockVars, new, failures, sections>>

DownWrite(t) ==
    /\ At(t, "exit_write") \/ At(t, "undo_write")
    /\ count' = val[t].n - 1
    /\ Go(t, IF At(t, "exit_write") THEN "exit_flag" ELSE "undo_flag")
    /\ UNCHANGED <<needLocks, tlLock, lockVars, val, new, sections, historyVars>>

(* Mutant of LastLeft: a creation that fails clears the flag it may have   *)
(* set.                                                                    *)
LastLeftOrUndone(t) == val[t].n = 1 \/ At(t, "undo_flag")

LastLeft(t) == val[t].n = 1

DownFlag(t) ==
    /\ At(t, "exit_flag") \/ At(t, "undo_flag")
    /\ needLocks' = IF LastLeft(t) THEN FALSE ELSE needLocks
    /\ Go(t, IF At(t, "exit_flag") THEN "exit_unlock" ELSE "undo_unlist")
    /\ UNCHANGED <<count, tlLock, lockVars, val, new, sections, historyVars>>

(* A failed creation takes its thread off the list again. *)
UndoUnlist(t) ==
    /\ At(t, "undo_unlist")
    /\ tlLock = None
    /\ new' = [new EXCEPT ![t] = None]
    /\ Go(t, "run")
    /\ UNCHANGED <<libcVars, lockVars, val, sections, historyVars>>

ExitEnds(t) ==
    /\ At(t, "exit_unlock")
    /\ tlLock' = None
    /\ Go(t, "gone")
    /\ UNCHANGED <<needLocks, count, lockVars, val, new, sections, historyVars>>

-----------------------------------------------------------------------------
(* __lock. *)

LockBegins(t) ==
    /\ At(t, "run")
    /\ sections[t] < MaxSections
    /\ sections' = [sections EXCEPT ![t] = @ + 1]
    /\ Go(t, IF needLocks THEN "fast" ELSE "section")
    /\ UNCHANGED <<libcVars, lockVars, val, new, historyVars>>

(* a_cas(l, expected, set): the lock is taken or the word is read. *)
CasOr(t, expected, set, place) ==
    IF word = expected
       THEN word' = set /\ Go(t, "section") /\ UNCHANGED val
       ELSE Read(t, word) /\ Go(t, place) /\ UNCHANGED word

LockFast(t) ==
    /\ At(t, "fast")
    /\ CasOr(t, Free, Word(TRUE, 1), "spin")
    /\ UNCHANGED <<libcVars, sleepers, new, sections, historyVars>>

(* Some iterations of the first loop (ten at most), ... *)
LockSpin(t) ==
    /\ At(t, "spin")
    /\ CasOr(t, Released(val[t]), Locked(PlusOne(Released(val[t]))), "spin")
    /\ UNCHANGED <<libcVars, sleepers, new, sections, historyVars>>

(* ... and then the thread counts itself in. *)
LockAdd(t) ==
    /\ At(t, "spin")
    /\ word' = PlusOne(word)
    /\ Read(t, word')
    /\ Go(t, "test")
    /\ UNCHANGED <<libcVars, sleepers, new, sections, historyVars>>

LockTest(t) ==
    /\ At(t, "test")
    /\ \/ val[t].held /\ word = val[t] /\ sleepers' = sleepers \cup {t} /\ Go(t, "asleep")
       \/ ~(val[t].held /\ word = val[t]) /\ Go(t, "slow") /\ UNCHANGED sleepers
    /\ UNCHANGED <<libcVars, word, val, new, sections, historyVars>>

LockWoken(t) ==
    /\ At(t, "asleep")
    /\ t \notin sleepers
    /\ Go(t, "slow")
    /\ UNCHANGED <<libcVars, lockVars, val, new, sections, historyVars>>

LockSlow(t) ==
    /\ At(t, "slow")
    /\ CasOr(t, Released(val[t]), Locked(Released(val[t])), "test")
    /\ UNCHANGED <<libcVars, sleepers, new, sections, historyVars>>

-----------------------------------------------------------------------------
(* __unlock: whether the lock was taken is told from the word. *)

UnlockTest(t) ==
    /\ At(t, "section")
    /\ Go(t, IF word.held THEN "sub" ELSE "run")
    /\ UNCHANGED <<libcVars, lockVars, val, new, sections, historyVars>>

OthersInside == word # Word(TRUE, 1)

UnlockSub(t) ==
    /\ At(t, "sub")
    /\ word' = Unlocked(word)
    /\ Go(t, IF OthersInside THEN "wake" ELSE "run")
    /\ UNCHANGED <<libcVars, sleepers, val, new, sections, historyVars>>

UnlockWake(t) ==
    /\ At(t, "wake")
    /\ \/ sleepers = {} /\ UNCHANGED sleepers
       \/ \E u \in sleepers : sleepers' = sleepers \ {u}
    /\ Go(t, "run")
    /\ UNCHANGED <<libcVars, word, val, new, sections, historyVars>>

Step(t) ==
    \/ UpRead(t) \/ UpWrite(t) \/ UpFlag(t) \/ Start(t) \/ StartFails(t)
    \/ DownRead(t) \/ DownWrite(t) \/ DownFlag(t) \/ UndoUnlist(t) \/ ExitEnds(t)
    \/ LockFast(t) \/ LockSpin(t) \/ LockAdd(t) \/ LockTest(t) \/ LockWoken(t) \/ LockSlow(t)
    \/ UnlockTest(t) \/ UnlockSub(t) \/ UnlockWake(t)

Next ==
    \E t \in Threads :
        \/ Step(t) \/ LockBegins(t) \/ ExitBegins(t)
        \/ \E p \in Pthreads : CreateBegins(t, p)

Spec == Init /\ [][Next]_vars

-----------------------------------------------------------------------------
(* One thread at a time is between __lock and __unlock, through the        *)
(* transitions to several threads and back, when __lock does nothing for a *)
(* single thread.  This and the next two hold until updates of the count   *)
(* have overlapped.                                                        *)
MutualExclusion ==
    Cardinality({t \in Threads : pc[t] \in Holding}) <= 1

(* While threads sleep on a lock that is free, one is about to be woken,   *)
(* or one that is awake and counted in is about to take the lock and will  *)
(* wake another when it lets go.                                           *)
NoSleeperForgotten ==
    ~word.held /\ sleepers # {} =>
        \E t \in Threads : \/ pc[t] \in {"wake", "test", "slow"}
                           \/ pc[t] = "asleep" /\ t \notin sleepers

(* pthread_create.c: "we want libc.need_locks to be set from the moment it *)
(* starts".  While a second thread runs, __lock is not skipped.            *)
NeedLocksWhileThreaded ==
    \A p \in Pthreads : pc[p] \notin {"new", "gone"} \cup Exiting => needLocks
=============================================================================
