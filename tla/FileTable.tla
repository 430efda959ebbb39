----------------------------- MODULE FileTable -----------------------------
(***************************************************************************)
(* The descriptor table of WasmFS (file_table.cpp), the system calls that  *)
(* change it (syscalls.cpp), and the open state of the OPFS files behind   *)
(* it (OpenState and OPFSFile of opfs_backend.cpp).  Descriptors alias     *)
(* open file states, several open states share a file, and a file keeps    *)
(* one browser handle for all of them.                                     *)
(*                                                                         *)
(* A step is what a thread does under one lock: the table's or a file's.   *)
(* No call holds both, but for the record locks that setEntry clears.      *)
(***************************************************************************)
EXTENDS Integers, FiniteSets, TLC

CONSTANTS Threads,
          Leased,        \* the files of a leased OPFS profile backend
          Others,        \* the files of an OPFS backend without a lease
          Special,       \* a standard stream or an end of a pipe
          OpenStates,    \* the addresses of open file states
          None,
          FdMax,         \* WASMFS_FD_MAX
          StdStreams     \* the descriptors that exist at the start

Files == Leased \cup Others
Slots == 0 .. FdMax - 1
Scopes == {"profile", "terminal"}

ASSUME FileTableAssumption ==
    /\ IsFiniteSet(Threads) /\ Leased \cap Others = {}
    /\ Special \notin Files /\ None \notin Files \cup {Special} \cup OpenStates
    /\ IsFiniteSet(OpenStates)
    /\ FdMax \in Nat \ {0} /\ StdStreams \in 0 .. FdMax

VARIABLES entries,   \* the open file state in each slot
          states,    \* each OpenFileState: its file, access mode and uses
          files,     \* each OPFSFile: kind, openCount, fileID and the handles
                     \* the browser holds for it
          locks,     \* the files with record locks
          late,      \* of these, the ones locked through a descriptor that
                     \* was closed in the meantime
          call,      \* what each thread's system call is doing
          sealed,    \* the drains that have begun
          drained,   \* the drains that have ended
          drain      \* the drain under way

vars == <<entries, states, files, locks, late, call, sealed, drained, drain>>

NoState == [file |-> None, writes |-> FALSE, uses |-> 0]
Idle == [at |-> "idle", file |-> None, writes |-> FALSE,
         trunc |-> FALSE, token |-> FALSE]
NoDrain == [scope |-> None, phase |-> "none", closees |-> [fd \in Slots |-> None]]
Closed == [kind |-> "None", count |-> 0, id |-> FALSE, access |-> 0, blob |-> 0]

(* Nothing is open, used or held a negative number of times, and a file    *)
(* never has two browser handles of one kind.                              *)
TypeOK ==
    /\ entries \in [Slots -> OpenStates \cup {None}]
    /\ states \in [OpenStates -> [file : Files \cup {Special, None}, writes : BOOLEAN, uses : Nat]]
    /\ files \in [Files -> [kind : {"None", "Access", "Blob", "FailedAccessClose"},
                            count : Nat, id : BOOLEAN, access : 0 .. 1, blob : 0 .. 1]]
    /\ locks \subseteq Leased /\ late \subseteq locks
    /\ call \in [Threads -> [at : {"idle", "open", "truncate", "install", "close", "lock"},
                             file : Files \cup {None}, writes : BOOLEAN,
                             trunc : BOOLEAN, token : BOOLEAN]]
    /\ sealed \subseteq Scopes /\ drained \subseteq sealed
    /\ drain \in [scope : Scopes \cup {None}, phase : {"none", "sealed", "closing"},
                  closees : [Slots -> Files \cup {None}]]

Init ==
    /\ entries \in [Slots -> OpenStates \cup {None}]
    /\ \A fd \in Slots : entries[fd] = None <=> fd >= StdStreams
    /\ \A fd, other \in Slots : entries[fd] = entries[other] /\ entries[fd] # None => fd = other
    /\ states = [s \in OpenStates |->
                    IF \E fd \in Slots : entries[fd] = s
                    THEN [file |-> Special, writes |-> FALSE, uses |-> 1] ELSE NoState]
    /\ files = [f \in Files |-> Closed]
    /\ locks = {} /\ late = {}
    /\ call = [t \in Threads |-> Idle]
    /\ sealed = {} /\ drained = {} /\ drain = NoDrain

-----------------------------------------------------------------------------
(* OPFSFile::open and OPFSFile::close, each under the file's lock.         *)

NeedsHandle(r, w) == r.kind = "None"

(* Mutant of NeedsUpgrade: an open file is shared whatever its kind. *)
NeedsUpgradeNever(r, w) == FALSE

NeedsUpgrade(r, w) == r.kind = "Blob" /\ w

(* With a file ID, an AccessHandle to write or a Blob to read. *)
WithHandle(r, w) ==
    IF w THEN [r EXCEPT !.kind = "Access", !.id = TRUE, !.access = @ + 1]
    ELSE [r EXCEPT !.kind = "Blob", !.id = TRUE, !.blob = @ + 1]

(* Mutant of Upgraded: the Blob is not closed. *)
UpgradedOnly(r) == [r EXCEPT !.kind = "Access", !.access = @ + 1]

(* With an AccessHandle for its Blob. *)
Upgraded(r) == [r EXCEPT !.kind = "Access", !.access = @ + 1, !.blob = @ - 1]

(* File r after a successful open. *)
Opened(r, w) ==
    LET open == IF NeedsHandle(r, w) THEN WithHandle(r, w)
                ELSE IF NeedsUpgrade(r, w) THEN Upgraded(r) ELSE r
    IN [open EXCEPT !.count = @ + 1]

(* The browser may refuse a handle; a file ID acquired for it is released. *)
MayFailToOpen(r, w) ==
    r.kind = "FailedAccessClose" \/ NeedsHandle(r, w) \/ NeedsUpgrade(r, w)

(* The states file r may be in after a close.  Only the last one gives the *)
(* handle back, and a rejected close of an AccessHandle poisons the file,  *)
(* with the browser's handle and the file ID still in place.               *)
CloseOutcomes(r) ==
    LET left == [r EXCEPT !.count = @ - 1]
    IN IF left.count # 0 THEN {left}
       ELSE IF r.kind = "Access"
       THEN {[left EXCEPT !.kind = "None", !.id = FALSE, !.access = @ - 1],
             [left EXCEPT !.kind = "FailedAccessClose"]}
       ELSE {[left EXCEPT !.kind = "None", !.id = FALSE, !.blob = @ - 1]}

-----------------------------------------------------------------------------
(* The table, under its lock.  The operators take and return a record of   *)
(* what the lock protects and of the file left to close.                   *)

Table == [entries |-> entries, states |-> states, locks |-> locks, closee |-> None]

FileAt(fd) == states[entries[fd]].file
FreeSlots(tab, from) == {fd \in Slots : fd >= from /\ tab.entries[fd] = None}
Lowest(fds) == CHOOSE fd \in fds : \A other \in fds : fd <= other

(* An open state is added to a slot, or taken from one; the last slot of   *)
(* it that goes destroys it.                                               *)
AddUse(sts, s) == IF s = None THEN sts ELSE [sts EXCEPT ![s].uses = @ + 1]
DropUse(sts, s) ==
    IF s = None THEN sts
    ELSE IF sts[s].uses = 1 THEN [sts EXCEPT ![s] = NoState]
    ELSE [sts EXCEPT ![s].uses = @ - 1]

(* Mutant of SetEntry: the record locks stay. *)
SetEntryKeepsLocks(tab, fd, s) ==
    LET old == tab.entries[fd]
        used == AddUse(tab.states, s)
    IN [entries |-> [tab.entries EXCEPT ![fd] = s],
        states |-> DropUse(used, old),
        locks |-> tab.locks,
        closee |-> IF old # None /\ used[old].uses = 1 /\ used[old].file \in Files
                   THEN used[old].file ELSE None]

(* FileTable::Handle::setEntry: slot fd is given open state s, or None.    *)
(* Closing any descriptor of a file clears its record locks; the last one  *)
(* of an open state hands the file to the caller to be closed.             *)
SetEntry(tab, fd, s) ==
    LET old == tab.entries[fd]
        used == AddUse(tab.states, s)
    IN [entries |-> [tab.entries EXCEPT ![fd] = s],
        states |-> DropUse(used, old),
        locks |-> IF old = None THEN tab.locks ELSE tab.locks \ {used[old].file},
        closee |-> IF old # None /\ used[old].uses = 1 /\ used[old].file \in Files
                   THEN used[old].file ELSE None]

InScope(scope, f) == scope = "terminal" \/ f \in Leased

(* Mutant of Detaches: the first alias of each open state only. *)
DetachesFirstAlias(scope) ==
    {fd \in Slots : /\ entries[fd] # None /\ InScope(scope, FileAt(fd))
                    /\ \A lower \in Slots : lower < fd => entries[lower] # entries[fd]}

(* The descriptors that FileTable::Handle::detachAll and detachBackend set *)
(* to null: all of the drain's files, aliases included.                    *)
Detaches(scope) == {fd \in Slots : entries[fd] # None /\ InScope(scope, FileAt(fd))}

(* What is left of open state s when the slots in fds are cleared. *)
LeftOf(s, fds) ==
    LET uses == states[s].uses - Cardinality({fd \in fds : entries[fd] = s})
    IN IF uses = 0 THEN NoState ELSE [states[s] EXCEPT !.uses = uses]

(* setEntry(fd, nullptr) for each slot of fds in order: where the last     *)
(* alias of an open state goes, its file is left to close.                 *)
Detached(fds) ==
    [entries |-> [fd \in Slots |-> IF fd \in fds THEN None ELSE entries[fd]],
     states |-> [s \in OpenStates |-> LeftOf(s, fds)],
     locks |-> locks \ {FileAt(fd) : fd \in fds},
     closees |-> [fd \in Slots |->
                    IF /\ fd \in fds /\ FileAt(fd) \in Files /\ LeftOf(entries[fd], fds) = NoState
                       /\ \A later \in fds : later > fd => entries[later] # entries[fd]
                    THEN FileAt(fd) ELSE None]]

(* std::make_shared of an OpenFileState takes memory that is not in use.   *)
Unused(tab) == {s \in OpenStates : tab.states[s].uses = 0}

(* FileTable::Handle::addEntry and setEntry of a new open state, at s.     *)
AddNew(tab, s, fd, f, w) ==
    SetEntry([tab EXCEPT !.states[s] = [file |-> f, writes |-> w, uses |-> 0]], fd, s)

(* The table becomes tab. *)
Commit(tab) ==
    entries' = tab.entries /\ states' = tab.states /\ locks' = tab.locks

-----------------------------------------------------------------------------
(* System calls.  A refused or failing call that changes nothing is no     *)
(* step.                                                                   *)

(* WASMFS_GUARD and Operation::admitBackend. *)
Enters(t) == call[t] = Idle /\ "terminal" \notin sealed
Admits(f) == f \in Leased => "profile" \notin sealed

Return(t) == [call EXCEPT ![t] = Idle]

(* A file that setEntry hands over is closed after the table's lock. *)
ThenClose(t, closee, token) ==
    IF closee = None THEN Return(t)
    ELSE [call EXCEPT ![t] = [Idle EXCEPT !.at = "close", !.file = closee, !.token = token]]

(* open: the leaf's backend is admitted for the rest of the call. *)
Open(t, f, w, trunc) ==
    /\ Enters(t) /\ Admits(f)
    /\ call' = [call EXCEPT ![t] = [Idle EXCEPT !.at = "open", !.file = f, !.writes = w,
                                                !.trunc = trunc, !.token = f \in Leased]]
    /\ UNCHANGED <<entries, states, files, locks, late, sealed, drained, drain>>

(* OpenFileState::create: the file is opened before it has a descriptor. *)
CreateState(t) ==
    LET c == call[t] IN
    /\ c.at = "open"
    /\ \/ /\ files[c.file].kind # "FailedAccessClose"
          /\ files' = [files EXCEPT ![c.file] = Opened(@, c.writes)]
          /\ call' = [call EXCEPT ![t].at = IF c.trunc THEN "truncate" ELSE "install",
                                  ![t].trunc = FALSE]
       \/ /\ MayFailToOpen(files[c.file], c.writes)
          /\ call' = Return(t)
          /\ UNCHANGED files
    /\ UNCHANGED <<entries, states, locks, late, sealed, drained, drain>>

(* O_TRUNC.  A Blob cannot be truncated, which only a reader is forgiven;  *)
(* a file without write permission is refused to readers too.              *)
Truncate(t) ==
    LET c == call[t] IN
    /\ c.at = "truncate"
    /\ \/ /\ c.writes => files[c.file].kind = "Access"
          /\ call' = [call EXCEPT ![t].at = "install"]
       \/ call' = ThenClose(t, c.file, c.token)
    /\ UNCHANGED <<entries, states, files, locks, late, sealed, drained, drain>>

(* Mutant of InstallFails: the state is dropped with its file still open. *)
InstallForgets(t) == Return(t)

(* installOpenFile without a free slot: the file is closed again. *)
InstallFails(t) == ThenClose(t, call[t].file, call[t].token)

(* installOpenFile: the lowest free slot. *)
Install(t) ==
    LET c == call[t]
        free == FreeSlots(Table, 0)
    IN /\ c.at = "install"
       /\ IF free = {} THEN call' = InstallFails(t) /\ UNCHANGED <<entries, states, locks>>
          ELSE /\ \E s \in Unused(Table) :
                     Commit(AddNew(Table, s, Lowest(free), c.file, c.writes))
               /\ call' = Return(t)
       /\ UNCHANGED <<files, late, sealed, drained, drain>>

(* __wasi_fd_close. *)
Close(t, fd) ==
    LET tab == SetEntry(Table, fd, None)
    IN /\ Enters(t) /\ entries[fd] # None /\ Admits(FileAt(fd))
       /\ Commit(tab)
       /\ call' = ThenClose(t, tab.closee, FileAt(fd) \in Leased)
       /\ late' = late \cap tab.locks
       /\ UNCHANGED <<files, sealed, drained, drain>>

(* The close of a file that a call no longer has a descriptor for. *)
CloseFile(t) ==
    /\ call[t].at = "close"
    /\ \E r \in CloseOutcomes(files[call[t].file]) : files' = [files EXCEPT ![call[t].file] = r]
    /\ call' = Return(t)
    /\ UNCHANGED <<entries, states, locks, late, sealed, drained, drain>>

(* dup, and fcntl(F_DUPFD) which looks no lower than `from`. *)
Dup(t, fd, from) ==
    LET free == FreeSlots(Table, from)
    IN /\ Enters(t) /\ entries[fd] # None /\ Admits(FileAt(fd)) /\ free # {}
       /\ Commit(SetEntry(Table, Lowest(free), entries[fd]))
       /\ UNCHANGED <<files, late, call, sealed, drained, drain>>

(* dup3: the replaced descriptor's file may have to be closed. *)
Dup3(t, fd, new) ==
    LET tab == SetEntry(Table, new, entries[fd])
        touched == {FileAt(at) : at \in {i \in {fd, new} : entries[i] # None}}
    IN /\ Enters(t) /\ fd # new /\ entries[fd] # None
       /\ \A f \in touched : Admits(f)
       /\ Commit(tab)
       /\ call' = ThenClose(t, tab.closee, touched \cap Leased # {})
       /\ late' = late \cap tab.locks
       /\ UNCHANGED <<files, sealed, drained, drain>>

(* pipe2: both ends or neither. *)
Pipe2(t) ==
    LET free == FreeSlots(Table, 0)
        half(s) == AddNew(Table, s, Lowest(free), Special, FALSE)
    IN /\ Enters(t) /\ Cardinality(free) >= 2
       /\ \E s \in Unused(Table) : \E r \in Unused(half(s)) :
             Commit(AddNew(half(s), r, Lowest(FreeSlots(half(s), 0)), Special, FALSE))
       /\ UNCHANGED <<files, late, call, sealed, drained, drain>>

(* fcntl(F_SETLK) looks the descriptor up and lets go of the table... *)
FcntlLock(t, fd) ==
    /\ Enters(t) /\ entries[fd] # None /\ FileAt(fd) \in Leased
    /\ call' = [call EXCEPT ![t] = [Idle EXCEPT !.at = "lock", !.file = FileAt(fd)]]
    /\ UNCHANGED <<entries, states, files, locks, late, sealed, drained, drain>>

(* ... and then, in handleRecordLock, locks or unlocks the file, if the    *)
(* backend still admits the call.                                          *)
ApplyRecordLock(t) ==
    LET f == call[t].file
        open == \E fd \in Slots : entries[fd] # None /\ FileAt(fd) = f
    IN /\ call[t].at = "lock"
       /\ call' = Return(t)
       /\ \/ Admits(f) /\ locks' = locks \cup {f} /\ late' = IF open THEN late ELSE late \cup {f}
          \/ Admits(f) /\ locks' = locks \ {f} /\ late' = late \ {f}
          \/ ~Admits(f) /\ UNCHANGED <<locks, late>>
       /\ UNCHANGED <<entries, states, files, sealed, drained, drain>>

-----------------------------------------------------------------------------
(* The drains.  The caller is a thread of its own.                         *)

(* The scoped drain seals the profile's backend, the terminal one all of   *)
(* WasmFS; one drain at a time, and none after the terminal one.           *)
Seal(scope) ==
    /\ drain = NoDrain /\ "terminal" \notin sealed /\ scope \notin sealed
    /\ sealed' = sealed \cup {scope}
    /\ drain' = [NoDrain EXCEPT !.scope = scope, !.phase = "sealed"]
    /\ UNCHANGED <<entries, states, files, locks, late, call, drained>>

(* The operations admitted before the seal have ended. *)
Quiet(scope) ==
    \A t \in Threads : IF scope = "terminal" THEN call[t] = Idle ELSE ~call[t].token

Detach ==
    LET tab == Detached(Detaches(drain.scope))
    IN /\ drain.phase = "sealed" /\ Quiet(drain.scope)
       /\ Commit(tab)
       /\ late' = late \cap tab.locks
       /\ drain' = [drain EXCEPT !.phase = "closing", !.closees = tab.closees]
       /\ UNCHANGED <<files, call, sealed, drained>>

(* The files are closed in the order in which they were detached. *)
DrainClose ==
    LET left == {fd \in Slots : drain.closees[fd] # None}
        file == drain.closees[Lowest(left)]
    IN /\ drain.phase = "closing" /\ left # {}
       /\ \E r \in CloseOutcomes(files[file]) : files' = [files EXCEPT ![file] = r]
       /\ drain' = [drain EXCEPT !.closees[Lowest(left)] = None]
       /\ UNCHANGED <<entries, states, locks, late, call, sealed, drained>>

DrainEnd ==
    /\ drain.phase = "closing" /\ \A fd \in Slots : drain.closees[fd] = None
    /\ drained' = drained \cup {drain.scope}
    /\ drain' = NoDrain
    /\ UNCHANGED <<entries, states, files, locks, late, call, sealed>>

-----------------------------------------------------------------------------
Syscall(t) ==
    \/ \E f \in Files, w, trunc \in BOOLEAN : Open(t, f, w, trunc)
    \/ \E fd \in Slots : Close(t, fd) \/ FcntlLock(t, fd)
    \/ \E fd, other \in Slots : Dup(t, fd, other) \/ Dup3(t, fd, other)
    \/ Pipe2(t)

Continue(t) ==
    CreateState(t) \/ Truncate(t) \/ Install(t) \/ CloseFile(t) \/ ApplyRecordLock(t)

Drain == (\E scope \in Scopes : Seal(scope)) \/ Detach \/ DrainClose \/ DrainEnd

Next == (\E t \in Threads : Syscall(t) \/ Continue(t)) \/ Drain

Spec == Init /\ [][Next]_vars

-----------------------------------------------------------------------------
(* Every open of a file has one owner: an open state with a descriptor, a  *)
(* call that has opened it and is yet to install it, or a call or a drain  *)
(* that is yet to close it.  Aliases share one open, and a full table, a   *)
(* failed truncation or a drain loses none (openCount of opfs_backend.cpp, *)
(* installOpenFile, abandonOpenFile, detachBackend).                       *)
OpenCountExact ==
    \A f \in Files :
        files[f].count = Cardinality({s \in OpenStates : states[s].file = f})
                       + Cardinality({t \in Threads :
                            call[t].file = f /\ call[t].at \in {"truncate", "install", "close"}})
                       + Cardinality({fd \in Slots : drain.closees[fd] = f})

(* The browser holds the handle the file's kind says and no other, and a   *)
(* file ID only with it: nothing leaks over opens, upgrades and closes by  *)
(* several threads, and an idle file keeps nothing (releaseFileIDIfIdle).  *)
HandleMatchesKind ==
    \A f \in Files : LET r == files[f] IN
        /\ r.access = (IF r.kind \in {"Access", "FailedAccessClose"} THEN 1 ELSE 0)
        /\ r.blob = (IF r.kind = "Blob" THEN 1 ELSE 0)
        /\ r.id <=> r.kind # "None"
        /\ r.count = 0 <=> r.kind \in {"None", "FailedAccessClose"}

(* A file with a writable descriptor has an AccessHandle, whoever opened   *)
(* and closed it before and since: what OPFSFile::write asserts.           *)
WritableHasAccess ==
    /\ \A s \in OpenStates : states[s].writes /\ states[s].file \in Files
                        => files[states[s].file].kind = "Access"
    /\ \A t \in Threads : call[t].writes /\ call[t].at \in {"truncate", "install"}
                        => files[call[t].file].kind = "Access"

(* A record lock is held only on a file some descriptor refers to (setEntry*)
(* clears it), but for a fcntl(F_SETLK) that a close of its own descriptor *)
(* overtook.                                                               *)
LocksHaveDescriptor ==
    \A f \in locks \ late : \E fd \in Slots : entries[fd] # None /\ FileAt(fd) = f

(* After a drain no descriptor refers to one of its files, no open of them *)
(* is left, and no call can open one again, while files and descriptors    *)
(* outside a profile's drain go on as before (drainOPFSProfileBackend).    *)
DrainedIsClosed ==
    \A scope \in drained :
        /\ \A fd \in Slots : entries[fd] # None => ~InScope(scope, FileAt(fd))
        /\ \A f \in Files : InScope(scope, f) => files[f].count = 0
        /\ \A t \in Threads : call[t].at \notin {"idle", "lock"} => ~InScope(scope, call[t].file)

Symmetry == Permutations(Threads) \cup Permutations(OpenStates)
====
