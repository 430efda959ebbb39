------------------------- MODULE FileTableProofs -------------------------
(***************************************************************************)
(* For every number of threads, files, descriptors and open states: the    *)
(* opens of an OPFS file are counted, its browser handles are accounted    *)
(* for, a writable descriptor has an AccessHandle, record locks go with    *)
(* their descriptors, and nothing is left open after a drain.              *)
(***************************************************************************)
EXTENDS FileTable, FiniteSetTheorems, WellFoundedInduction, TLAPS

-----------------------------------------------------------------------------
(* The parts of the inductive invariant.                                   *)

Tables ==
    [entries : [Slots -> OpenStates \cup {None}],
     states : [OpenStates -> [file : Files \cup {Special, None}, writes : BOOLEAN, uses : Nat]],
     locks : SUBSET Leased, closee : Files \cup {None}]

SlotsOf(tab, s) == {fd \in Slots : tab.entries[fd] = s}
StatesOf(tab, f) == {s \in OpenStates : tab.states[s].file = f}

(* `uses` counts the slots, and an open state without a slot is gone. *)
UsesExact(tab) == \A s \in OpenStates : tab.states[s].uses = Cardinality(SlotsOf(tab, s))
OthersFormed(tab, new) ==
    \A s \in OpenStates \ {new} : IF tab.states[s].uses = 0 THEN tab.states[s] = NoState
                                  ELSE tab.states[s].file # None
TableInv(tab) == UsesExact(tab) /\ OthersFormed(tab, None)

(* A call past its beginning has a file, and with a file of the leased     *)
(* backend it holds a token from its admission to its end.                 *)
CallFormed(c) ==
    /\ c.at = "idle" => c = Idle
    /\ c.at # "idle" => c.file \in Files
    /\ c.at = "lock" => c.file \in Leased
    /\ c.at \notin {"idle", "lock"} /\ c.file \in Leased => c.token

CallInv == \A t \in Threads : CallFormed(call[t])

(* One drain at a time, of a scope that is sealed. *)
DrainInv ==
    /\ drain.phase = "none" <=> drain = NoDrain
    /\ drain.phase # "none" => drain.scope \in sealed
    /\ drain.phase # "closing" => \A fd \in Slots : drain.closees[fd] = None

(* From its detaching on, a scope has no descriptor and no call. *)
ScopeClear(scope) ==
    /\ \A fd \in Slots : entries[fd] # None => ~InScope(scope, FileAt(fd))
    /\ \A t \in Threads : call[t].at \notin {"idle", "lock"} => ~InScope(scope, call[t].file)

Shut(scope) == scope \in drained \/ (drain.phase = "closing" /\ scope = drain.scope)

ScopesClear ==
    /\ \A scope \in Scopes : Shut(scope) => ScopeClear(scope)
    /\ \A scope \in drained : \A f \in Files : InScope(scope, f) => files[f].count = 0

FileTableInv ==
    /\ TypeOK /\ TableInv(Table) /\ CallInv /\ DrainInv /\ ScopesClear
    /\ OpenCountExact /\ HandleMatchesKind /\ WritableHasAccess /\ LocksHaveDescriptor

-----------------------------------------------------------------------------
(* The constants, and sets of slots.                                       *)

LEMMA Constants ==
    /\ IsFiniteSet(Threads) /\ IsFiniteSet(OpenStates) /\ IsFiniteSet(Slots)
    /\ Slots \subseteq Nat /\ FdMax \in Nat
    /\ None \notin Files /\ None \notin OpenStates /\ None # Special /\ Special \notin Files
    /\ Leased \subseteq Files /\ Leased \subseteq Files
  <1>1. IsFiniteSet(Slots)
    BY FileTableAssumption, FS_Interval DEF Slots
  <1> QED BY <1>1, FileTableAssumption DEF Slots, Files

LEMMA FiniteSubsets ==
    /\ \A S : S \subseteq Threads => IsFiniteSet(S) /\ Cardinality(S) \in Nat
    /\ \A S : S \subseteq OpenStates => IsFiniteSet(S) /\ Cardinality(S) \in Nat
    /\ \A S : S \subseteq Slots => IsFiniteSet(S) /\ Cardinality(S) \in Nat
  BY Constants, FS_Subset, FS_CardinalityType

Below == {ss \in Nat \X Nat : ss[1] < ss[2]}

LEMMA LeastExists ==
    ASSUME NEW S \in SUBSET Nat, S # {}
    PROVE  \E x \in S : \A y \in S : x <= y
  <1>1. IsWellFoundedOn(Below, Nat)
    BY NatLessThanWellFounded, Zenon DEF OpToRel, Below
  <1>2. PICK x \in S : \A y \in S : <<y, x>> \notin Below
    BY <1>1, WFMin
  <1>3. ASSUME NEW y \in S PROVE x <= y
    <2>1. x \in Nat /\ y \in Nat /\ <<y, x>> \notin Below
      BY <1>2
    <2>2. <<y, x>> \in Nat \X Nat /\ <<y, x>>[1] = y /\ <<y, x>>[2] = x
      BY <2>1
    <2>3. ~(y < x)
      BY <2>1, <2>2 DEF Below
    <2> QED BY <2>1, <2>3
  <1> QED BY <1>3

LEMMA LowestIn ==
    ASSUME NEW fds \in SUBSET Slots, fds # {}
    PROVE  Lowest(fds) \in fds
  BY Constants, LeastExists DEF Lowest

LEMMA HighestIn ==
    ASSUME NEW fds \in SUBSET Slots, fds # {}
    PROVE  \E fd \in fds : \A other \in fds : other <= fd
  <1> DEFINE T == {n \in Nat : \E fd \in fds : n = FdMax - fd}
  <1>0. \A fd \in fds : FdMax - fd \in Nat
    BY FileTableAssumption DEF Slots
  <1>1. T \in SUBSET Nat /\ T # {} /\ \A fd \in fds : FdMax - fd \in T
    BY <1>0
  <1>2. PICK x \in T : \A y \in T : x <= y
    BY <1>1, LeastExists
  <1>3. PICK fd \in fds : x = FdMax - fd
    BY <1>2
  <1>4. ASSUME NEW other \in fds PROVE other <= fd
    <2>1. other \in Nat /\ fd \in Nat /\ FdMax \in Nat
      BY Constants
    <2>2. FdMax - fd <= FdMax - other
      BY <1>1, <1>2, <1>3
    <2> QED BY <2>1, <2>2
  <1> QED BY <1>4

-----------------------------------------------------------------------------
(* A file's open state, over opens and closes.                             *)

FileRecords ==
    [kind : {"None", "Access", "Blob", "FailedAccessClose"}, count : Nat, id : BOOLEAN,
     access : 0 .. 1, blob : 0 .. 1]

HandleOf(r) ==
    /\ r.access = (IF r.kind \in {"Access", "FailedAccessClose"} THEN 1 ELSE 0)
    /\ r.blob = (IF r.kind = "Blob" THEN 1 ELSE 0)
    /\ r.id <=> r.kind # "None"
    /\ r.count = 0 <=> r.kind \in {"None", "FailedAccessClose"}

LEMMA FieldChanges ==
    ASSUME NEW r \in FileRecords
    PROVE  /\ \A k \in {"None", "Access", "Blob", "FailedAccessClose"} :
                 [r EXCEPT !.kind = k] \in FileRecords
           /\ [r EXCEPT !.id = TRUE] \in FileRecords
           /\ [r EXCEPT !.access = 1] \in FileRecords
           /\ [r EXCEPT !.blob = 0] \in FileRecords /\ [r EXCEPT !.blob = 1] \in FileRecords
  <1>1. \A k \in {"None", "Access", "Blob", "FailedAccessClose"} : [r EXCEPT !.kind = k] \in FileRecords
    BY DEF FileRecords
  <1>2. [r EXCEPT !.id = TRUE] \in FileRecords
    BY DEF FileRecords
  <1>3. [r EXCEPT !.access = 1] \in FileRecords
    BY DEF FileRecords
  <1>4. [r EXCEPT !.blob = 0] \in FileRecords
    BY DEF FileRecords
  <1>5. [r EXCEPT !.blob = 1] \in FileRecords
    BY DEF FileRecords
  <1> QED BY <1>1, <1>2, <1>3, <1>4, <1>5

LEMMA OpenedFile ==
    ASSUME NEW r \in FileRecords, HandleOf(r), r.kind # "FailedAccessClose", NEW w \in BOOLEAN
    PROVE  /\ Opened(r, w) \in FileRecords /\ HandleOf(Opened(r, w))
           /\ Opened(r, w).count = r.count + 1
           /\ w \/ r.kind = "Access" => Opened(r, w).kind = "Access"
  <1> DEFINE open == IF NeedsHandle(r, w) THEN WithHandle(r, w)
                     ELSE IF NeedsUpgrade(r, w) THEN Upgraded(r) ELSE r
  <1>0. Opened(r, w) = [open EXCEPT !.count = @ + 1]
    BY DEF Opened
  <1> USE DEF NeedsHandle, NeedsUpgrade, WithHandle, Upgraded
  <1>a. /\ r.kind \in {"None", "Access", "Blob"} /\ r.count \in Nat /\ r.access \in 0 .. 1
        /\ r.blob \in 0 .. 1
        /\ r.kind # "None" => r.id = TRUE
        /\ r.access = (IF r.kind = "Access" THEN 1 ELSE 0)
        /\ r.blob = (IF r.kind = "Blob" THEN 1 ELSE 0)
    BY DEF FileRecords, HandleOf
  <1>b. /\ r.kind = "None" /\ w => open = [r EXCEPT !.kind = "Access", !.id = TRUE, !.access = @ + 1]
        /\ r.kind = "None" /\ ~w => open = [r EXCEPT !.kind = "Blob", !.id = TRUE, !.blob = @ + 1]
        /\ r.kind = "Blob" /\ w => open = [r EXCEPT !.kind = "Access", !.access = @ + 1, !.blob = @ - 1]
        /\ (r.kind = "Blob" /\ ~w) \/ r.kind = "Access" => open = r
    OBVIOUS
  <1> HIDE DEF open
  <1>c. /\ open \in FileRecords /\ open.count = r.count /\ open.id = TRUE
        /\ open.kind \in {"Access", "Blob"}
        /\ w \/ r.kind = "Access" => open.kind = "Access"
        /\ open.access = (IF open.kind = "Access" THEN 1 ELSE 0)
        /\ open.blob = (IF open.kind = "Blob" THEN 1 ELSE 0)
    <2>1. CASE r.kind = "None" /\ w
      <3>1. open = [r EXCEPT !.kind = "Access", !.id = TRUE, !.access = @ + 1]
        BY <1>b, <2>1
      <3>a. open = [r EXCEPT !.kind = "Access", !.id = TRUE, !.access = 1]
        <4>1. r.access = 0 /\ r.blob = 0
          BY <1>a, <2>1
        <4> QED BY <3>1, <4>1
      <3>2. open.kind = "Access" /\ open.access = 1 /\ open.blob = 0 /\ open.count = r.count /\ open.id = TRUE
        BY <1>a, <2>1, <3>1 DEF FileRecords
      <3>3. open \in FileRecords
        <4> DEFINE r1 == [r EXCEPT !.kind = "Access"]
                   r2 == [r1 EXCEPT !.id = TRUE]
        <4>1. open = [r2 EXCEPT !.access = 1]
          BY <3>a
        <4>2. r1 \in FileRecords
          BY FieldChanges
        <4> HIDE DEF r1
        <4>3. r2 \in FileRecords
          BY <4>2, FieldChanges
        <4> HIDE DEF r2
        <4> QED BY <4>1, <4>3, FieldChanges
      <3> QED BY <2>1, <3>2, <3>3
    <2>2. CASE r.kind = "None" /\ ~w
      <3>1. open = [r EXCEPT !.kind = "Blob", !.id = TRUE, !.blob = @ + 1]
        BY <1>b, <2>2
      <3>a. open = [r EXCEPT !.kind = "Blob", !.id = TRUE, !.blob = 1]
        <4>1. r.access = 0 /\ r.blob = 0
          BY <1>a, <2>2
        <4> QED BY <3>1, <4>1
      <3>2. open.kind = "Blob" /\ open.access = 0 /\ open.blob = 1 /\ open.count = r.count /\ open.id = TRUE
        BY <1>a, <2>2, <3>1 DEF FileRecords
      <3>3. open \in FileRecords
        <4> DEFINE r1 == [r EXCEPT !.kind = "Blob"]
                   r2 == [r1 EXCEPT !.id = TRUE]
        <4>1. open = [r2 EXCEPT !.blob = 1]
          BY <3>a
        <4>2. r1 \in FileRecords
          BY FieldChanges
        <4> HIDE DEF r1
        <4>3. r2 \in FileRecords
          BY <4>2, FieldChanges
        <4> HIDE DEF r2
        <4> QED BY <4>1, <4>3, FieldChanges
      <3> QED BY <2>2, <3>2, <3>3
    <2>3. CASE r.kind = "Blob" /\ w
      <3>1. open = [r EXCEPT !.kind = "Access", !.access = @ + 1, !.blob = @ - 1]
        BY <1>b, <2>3
      <3>a. open = [r EXCEPT !.kind = "Access", !.access = 1, !.blob = 0]
        <4>1. r.access = 0 /\ r.blob = 1
          BY <1>a, <2>3
        <4> QED BY <3>1, <4>1
      <3>2. open.kind = "Access" /\ open.access = 1 /\ open.blob = 0 /\ open.count = r.count /\ open.id = TRUE
        BY <1>a, <2>3, <3>1 DEF FileRecords
      <3>3. open \in FileRecords
        <4> DEFINE r1 == [r EXCEPT !.kind = "Access"]
                   r2 == [r1 EXCEPT !.access = 1]
        <4>1. open = [r2 EXCEPT !.blob = 0]
          BY <3>a
        <4>2. r1 \in FileRecords
          BY FieldChanges
        <4> HIDE DEF r1
        <4>3. r2 \in FileRecords
          BY <4>2, FieldChanges
        <4> HIDE DEF r2
        <4> QED BY <4>1, <4>3, FieldChanges
      <3> QED BY <2>3, <3>2, <3>3
    <2>4. CASE (r.kind = "Blob" /\ ~w) \/ r.kind = "Access"
      <3>1. open = r
        BY <1>b, <2>4
      <3> QED BY <1>a, <2>4, <3>1
    <2> QED BY <1>a, <2>1, <2>2, <2>3, <2>4
  <1>1. /\ Opened(r, w) \in FileRecords /\ Opened(r, w).count = r.count + 1
        /\ Opened(r, w).kind = open.kind /\ Opened(r, w).id = TRUE
        /\ Opened(r, w).access = open.access /\ Opened(r, w).blob = open.blob
    BY <1>0, <1>a, <1>c DEF FileRecords
  <1> QED BY <1>1, <1>a, <1>c DEF HandleOf

LEMMA ClosedFile ==
    ASSUME NEW r \in FileRecords, HandleOf(r), r.count # 0, NEW o \in CloseOutcomes(r)
    PROVE  /\ o \in FileRecords /\ HandleOf(o)
           /\ o.count = r.count - 1
           /\ r.count # 1 => o.kind = r.kind
  <1> DEFINE left == [r EXCEPT !.count = @ - 1]
  <1>a. /\ r.kind \in {"Access", "Blob"} /\ r.count \in Nat /\ r.count # 0 /\ r.id = TRUE
        /\ r.access = (IF r.kind = "Access" THEN 1 ELSE 0)
        /\ r.blob = (IF r.kind = "Blob" THEN 1 ELSE 0)
    BY DEF FileRecords, HandleOf
  <1>b. /\ left \in FileRecords /\ left.kind = r.kind /\ left.count = r.count - 1
        /\ left.id = TRUE /\ left.access = r.access /\ left.blob = r.blob
    BY <1>a DEF FileRecords
  <1>c. left.count # 0 => o = left
    BY DEF CloseOutcomes
  <1>d. left.count = 0 /\ r.kind = "Access" =>
            \/ o = [left EXCEPT !.kind = "None", !.id = FALSE, !.access = @ - 1]
            \/ o = [left EXCEPT !.kind = "FailedAccessClose"]
    BY DEF CloseOutcomes
  <1>e. left.count = 0 /\ r.kind = "Blob" =>
            o = [left EXCEPT !.kind = "None", !.id = FALSE, !.blob = @ - 1]
    BY DEF CloseOutcomes
  <1> HIDE DEF left
  <1>1. CASE r.count # 1
    <2>1. left.count # 0
      BY <1>1, <1>a, <1>b
    <2>2. o = left
      BY <1>c, <2>1
    <2> QED BY <1>1, <1>a, <1>b, <2>2 DEF HandleOf
  <1>2. CASE r.count = 1 /\ r.kind = "Access"
    <2>1. left.count = 0
      BY <1>2, <1>b
    <2>2. \/ o = [left EXCEPT !.kind = "None", !.id = FALSE, !.access = @ - 1]
          \/ o = [left EXCEPT !.kind = "FailedAccessClose"]
      BY <1>2, <1>d, <2>1
    <2>3. /\ o \in FileRecords /\ o.count = 0 /\ o.blob = 0
          /\ \/ o.kind = "None" /\ o.id = FALSE /\ o.access = 0
             \/ o.kind = "FailedAccessClose" /\ o.id = TRUE /\ o.access = 1
      <3>1. CASE o = [left EXCEPT !.kind = "None", !.id = FALSE, !.access = @ - 1]
        BY <1>2, <1>a, <1>b, <2>1, <3>1 DEF FileRecords
      <3>2. CASE o = [left EXCEPT !.kind = "FailedAccessClose"]
        BY <1>2, <1>a, <1>b, <2>1, <3>2 DEF FileRecords
      <3> QED BY <2>2, <3>1, <3>2
    <2> QED BY <1>2, <2>3 DEF HandleOf
  <1>3. CASE r.count = 1 /\ r.kind = "Blob"
    <2>1. left.count = 0
      BY <1>3, <1>b
    <2>2. o = [left EXCEPT !.kind = "None", !.id = FALSE, !.blob = @ - 1]
      BY <1>3, <1>e, <2>1
    <2>3. /\ o \in FileRecords /\ o.count = 0 /\ o.blob = 0 /\ o.access = 0
          /\ o.kind = "None" /\ o.id = FALSE
      BY <1>3, <1>a, <1>b, <2>1, <2>2 DEF FileRecords
    <2> QED BY <1>3, <2>3 DEF HandleOf
  <1> QED BY <1>1, <1>2, <1>3, <1>a

-----------------------------------------------------------------------------
(* The table: one setEntry, and a new open state.                          *)

States == [file : Files \cup {Special, None}, writes : BOOLEAN, uses : Nat]

LEMMA TableFields ==
    ASSUME NEW tab \in Tables
    PROVE  /\ tab.entries \in [Slots -> OpenStates \cup {None}]
           /\ tab.states \in [OpenStates -> States]
           /\ tab.locks \in SUBSET Leased /\ tab.closee \in Files \cup {None}
  BY DEF Tables, States

LEMMA StateFields ==
    ASSUME NEW r \in States
    PROVE  r.file \in Files \cup {Special, None} /\ r.writes \in BOOLEAN /\ r.uses \in Nat
  BY DEF States

LEMMA NoStateFields ==
    NoState \in States /\ NoState.file = None /\ NoState.writes = FALSE /\ NoState.uses = 0
  BY DEF States, NoState

LEMMA OneMore ==
    ASSUME NEW S, NEW T, NEW x, IsFiniteSet(S), x \notin S, T = S \cup {x}
    PROVE  Cardinality(T) = Cardinality(S) + 1
  BY FS_AddElement

(* A slot that is taken refers to an open state that has a file. *)
LEMMA TakenSlot ==
    ASSUME NEW tab \in Tables, UsesExact(tab), OthersFormed(tab, None),
           NEW fd \in Slots, tab.entries[fd] # None
    PROVE  /\ tab.entries[fd] \in OpenStates
           /\ tab.states[tab.entries[fd]].uses # 0
           /\ tab.states[tab.entries[fd]].file \in Files \cup {Special}
  <1> DEFINE s == tab.entries[fd]
  <1>1. s \in OpenStates
    BY TableFields
  <1>2. fd \in SlotsOf(tab, s) /\ SlotsOf(tab, s) \subseteq Slots
    BY DEF SlotsOf
  <1>3. IsFiniteSet(SlotsOf(tab, s))
    BY <1>2, FiniteSubsets
  <1>4. Cardinality(SlotsOf(tab, s)) # 0
    BY <1>2, <1>3, FS_EmptySet
  <1>5. tab.states[s].uses # 0
    BY <1>1, <1>4 DEF UsesExact
  <1>6. tab.states[s].file # None
    BY <1>1, <1>5, Constants DEF OthersFormed
  <1>7. tab.states[s] \in States
    BY <1>1, TableFields
  <1> QED BY <1>1, <1>5, <1>6, <1>7, StateFields

LEMMA AddUseFacts ==
    ASSUME NEW sts \in [OpenStates -> States], NEW s \in OpenStates \cup {None}
    PROVE  /\ AddUse(sts, s) \in [OpenStates -> States]
           /\ \A r \in OpenStates :
                 /\ AddUse(sts, s)[r].file = sts[r].file
                 /\ AddUse(sts, s)[r].writes = sts[r].writes
                 /\ AddUse(sts, s)[r].uses = IF r = s THEN sts[r].uses + 1 ELSE sts[r].uses
                 /\ r # s => AddUse(sts, s)[r] = sts[r]
  <1>1. CASE s = None
    BY <1>1, Constants DEF AddUse
  <1>2. CASE s # None
    <2>1. s \in OpenStates /\ sts[s] \in States
      BY <1>2
    <2> DEFINE more == [sts[s] EXCEPT !.uses = @ + 1]
    <2>2. /\ more \in States /\ more.file = sts[s].file /\ more.writes = sts[s].writes
          /\ more.uses = sts[s].uses + 1
      BY <2>1 DEF States
    <2>3. AddUse(sts, s) = [sts EXCEPT ![s] = more]
      BY <1>2 DEF AddUse
    <2> HIDE DEF more
    <2> QED BY <2>1, <2>2, <2>3
  <1> QED BY <1>1, <1>2

LEMMA DropUseFacts ==
    ASSUME NEW sts \in [OpenStates -> States], NEW s \in OpenStates, sts[s].uses # 0
    PROVE  /\ DropUse(sts, s) \in [OpenStates -> States]
           /\ \A r \in OpenStates \ {s} : DropUse(sts, s)[r] = sts[r]
           /\ sts[s].uses = 1 => DropUse(sts, s)[s] = NoState
           /\ sts[s].uses # 1 => /\ DropUse(sts, s)[s].file = sts[s].file
                                 /\ DropUse(sts, s)[s].writes = sts[s].writes
           /\ DropUse(sts, s)[s].uses = sts[s].uses - 1
  <1>0. sts[s] \in States /\ sts[s].uses \in Nat /\ s # None
    BY StateFields, Constants
  <1>1. CASE sts[s].uses = 1
    <2>1. DropUse(sts, s) = [sts EXCEPT ![s] = NoState]
      BY <1>0, <1>1 DEF DropUse
    <2> QED BY <1>0, <1>1, <2>1, NoStateFields
  <1>2. CASE sts[s].uses # 1
    <2> DEFINE less == [sts[s] EXCEPT !.uses = @ - 1]
    <2>1. /\ less \in States /\ less.file = sts[s].file /\ less.writes = sts[s].writes
          /\ less.uses = sts[s].uses - 1
      BY <1>0 DEF States
    <2>2. DropUse(sts, s) = [sts EXCEPT ![s] = less]
      BY <1>0, <1>2 DEF DropUse
    <2> HIDE DEF less
    <2> QED BY <1>0, <1>2, <2>1, <2>2
  <1> QED BY <1>1, <1>2

(* The slots of each open state after one slot changes hands. *)
LEMMA SlotsChange ==
    ASSUME NEW tab \in Tables, NEW new \in Tables, NEW fd \in Slots,
           NEW s \in OpenStates \cup {None},
           new.entries = [tab.entries EXCEPT ![fd] = s]
    PROVE  \A r \in OpenStates :
              Cardinality(SlotsOf(new, r)) =
                 Cardinality(SlotsOf(tab, r)) + (IF r = s THEN 1 ELSE 0)
                                              - (IF r = tab.entries[fd] THEN 1 ELSE 0)
  <1> SUFFICES ASSUME NEW r \in OpenStates
               PROVE  Cardinality(SlotsOf(new, r)) =
                         Cardinality(SlotsOf(tab, r)) + (IF r = s THEN 1 ELSE 0)
                                                      - (IF r = tab.entries[fd] THEN 1 ELSE 0)
    OBVIOUS
  <1>0. tab.entries \in [Slots -> OpenStates \cup {None}]
    BY TableFields
  <1>1. /\ SlotsOf(tab, r) \subseteq Slots /\ IsFiniteSet(SlotsOf(tab, r))
        /\ Cardinality(SlotsOf(tab, r)) \in Nat
    BY FiniteSubsets DEF SlotsOf
  <1>2. CASE r = s /\ r # tab.entries[fd]
    <2>1. SlotsOf(new, r) = SlotsOf(tab, r) \cup {fd} /\ fd \notin SlotsOf(tab, r)
      BY <1>0, <1>2 DEF SlotsOf
    <2>2. Cardinality(SlotsOf(new, r)) = Cardinality(SlotsOf(tab, r)) + 1
      BY <1>1, <2>1, FS_AddElement
    <2> QED BY <1>1, <1>2, <2>2
  <1>3. CASE r # s /\ r = tab.entries[fd]
    <2>1. SlotsOf(new, r) = SlotsOf(tab, r) \ {fd} /\ fd \in SlotsOf(tab, r)
      BY <1>0, <1>3 DEF SlotsOf
    <2>2. Cardinality(SlotsOf(new, r)) = Cardinality(SlotsOf(tab, r)) - 1
      BY <1>1, <2>1, FS_RemoveElement
    <2> QED BY <1>1, <1>3, <2>2
  <1>4. CASE (r = s) = (r = tab.entries[fd])
    <2>1. SlotsOf(new, r) = SlotsOf(tab, r)
      BY <1>0, <1>4 DEF SlotsOf
    <2> QED BY <1>1, <1>4, <2>1
  <1> QED BY <1>2, <1>3, <1>4

(* What setEntry does to the table: the table's invariant is kept, and one *)
(* open state at most goes, whose file is left to close.                   *)
EntrySet(tab, fd, s, new) ==
    /\ new \in Tables
    /\ new.entries = [tab.entries EXCEPT ![fd] = s]
    /\ UsesExact(new) /\ OthersFormed(new, None)
    /\ \A r \in OpenStates :
          \/ new.states[r] = NoState
          \/ /\ new.states[r].file = tab.states[r].file
             /\ new.states[r].writes = tab.states[r].writes
    /\ new.locks = IF tab.entries[fd] = None THEN tab.locks
                   ELSE tab.locks \ {tab.states[tab.entries[fd]].file}
    /\ new.closee # None =>
          tab.entries[fd] # None /\ new.closee = tab.states[tab.entries[fd]].file
    /\ \A f \in Files : Cardinality(StatesOf(tab, f)) =
          Cardinality(StatesOf(new, f)) + (IF new.closee = f THEN 1 ELSE 0)

LEMMA SetEntryFacts ==
    ASSUME NEW tab \in Tables, NEW fd \in Slots, NEW s \in OpenStates \cup {None},
           NEW new, new = SetEntry(tab, fd, s),
           UsesExact(tab), OthersFormed(tab, s),
           s # None => tab.states[s].file # None
    PROVE  EntrySet(tab, fd, s, new)
  <1> DEFINE old == tab.entries[fd]
             used == AddUse(tab.states, s)
             sts == DropUse(used, old)
             goes == old # None /\ used[old].uses = 1
  <1>1. /\ new.entries = [tab.entries EXCEPT ![fd] = s] /\ new.states = sts
        /\ new.locks = IF old = None THEN tab.locks ELSE tab.locks \ {used[old].file}
        /\ new.closee = IF goes /\ used[old].file \in Files THEN used[old].file ELSE None
        /\ new = [entries |-> new.entries, states |-> new.states,
                  locks |-> new.locks, closee |-> new.closee]
    BY DEF SetEntry
  <1>2. /\ tab.entries \in [Slots -> OpenStates \cup {None}] /\ tab.states \in [OpenStates -> States]
        /\ tab.locks \in SUBSET Leased /\ old \in OpenStates \cup {None} /\ None \notin OpenStates
    BY TableFields, Constants
  <1>3. /\ used \in [OpenStates -> States]
        /\ \A r \in OpenStates :
              /\ used[r].file = tab.states[r].file /\ used[r].writes = tab.states[r].writes
              /\ used[r].uses = IF r = s THEN tab.states[r].uses + 1 ELSE tab.states[r].uses
              /\ r # s => used[r] = tab.states[r]
    BY <1>2, AddUseFacts
  <1>4. \A r \in OpenStates : tab.states[r].uses \in Nat /\ tab.states[r] \in States
    BY <1>2, StateFields
  <1>5. ASSUME old # None PROVE tab.states[old].uses # 0 /\ used[old].uses # 0
    <2>1. old \in OpenStates /\ fd \in SlotsOf(tab, old) /\ SlotsOf(tab, old) \subseteq Slots
      BY <1>2, <1>5 DEF SlotsOf
    <2>2. IsFiniteSet(SlotsOf(tab, old))
      BY <2>1, FiniteSubsets
    <2>3. Cardinality(SlotsOf(tab, old)) # 0
      BY <2>1, <2>2, FS_EmptySet
    <2>4. tab.states[old].uses # 0
      BY <2>1, <2>3 DEF UsesExact
    <2> QED BY <1>3, <1>4, <2>1, <2>4
  <1> HIDE DEF used
  <1>6. /\ sts \in [OpenStates -> States]
        /\ \A r \in OpenStates : r # old => sts[r] = used[r]
        /\ goes => sts[old] = NoState
        /\ old # None /\ ~goes => sts[old].file = used[old].file /\ sts[old].writes = used[old].writes
        /\ old # None => sts[old].uses = used[old].uses - 1
    <2>1. CASE old = None
      BY <1>2, <1>3, <2>1 DEF DropUse
    <2>2. CASE old # None
      <3>1. old \in OpenStates /\ used[old].uses # 0
        BY <1>2, <1>5, <2>2
      <3> HIDE DEF old
      <3> QED BY <1>3, <3>1, DropUseFacts
    <2> QED BY <2>1, <2>2
  <1> HIDE DEF sts
  <1>7. goes => old \in OpenStates /\ old # s
    <2> SUFFICES ASSUME goes PROVE old \in OpenStates /\ old # s
      OBVIOUS
    <2>1. old \in OpenStates /\ tab.states[old].uses # 0 /\ tab.states[old].uses \in Nat /\ used[old].uses = 1
      BY <1>2, <1>4, <1>5
    <2> QED BY <1>3, <2>1
  <1>8. new \in Tables
    <2>1. new.entries \in [Slots -> OpenStates \cup {None}] /\ new.states \in [OpenStates -> States]
      BY <1>1, <1>2, <1>6
    <2>2. new.locks \in SUBSET Leased /\ new.closee \in Files \cup {None}
      BY <1>1, <1>2
    <2> QED BY <1>1, <2>1, <2>2 DEF Tables, States
  <1>9. UsesExact(new)
    <2> SUFFICES ASSUME NEW r \in OpenStates
                 PROVE  sts[r].uses = Cardinality(SlotsOf(new, r))
      BY <1>1 DEF UsesExact
    <2>1. Cardinality(SlotsOf(new, r)) = Cardinality(SlotsOf(tab, r)) + (IF r = s THEN 1 ELSE 0)
                                              - (IF r = old THEN 1 ELSE 0)
      BY <1>1, <1>8, SlotsChange
    <2>2. tab.states[r].uses = Cardinality(SlotsOf(tab, r)) /\ tab.states[r].uses \in Nat
      BY <1>4 DEF UsesExact
    <2>3. used[r].uses = IF r = s THEN tab.states[r].uses + 1 ELSE tab.states[r].uses
      BY <1>3
    <2>4. sts[r].uses = IF r = old THEN used[r].uses - 1 ELSE used[r].uses
      BY <1>2, <1>6
    <2> HIDE DEF old
    <2> QED BY <2>1, <2>2, <2>3, <2>4
  <1>10. OthersFormed(new, None)
    <2> SUFFICES ASSUME NEW r \in OpenStates
                 PROVE  IF sts[r].uses = 0 THEN sts[r] = NoState ELSE sts[r].file # None
      BY <1>1 DEF OthersFormed
    <2>0. tab.states[r].uses \in Nat /\ used[r].uses \in Nat
      BY <1>3, <1>4, StateFields
    <2>1. CASE r # old /\ r # s
      <3>1. sts[r] = tab.states[r] /\ r \in OpenStates \ {s}
        BY <1>3, <1>6, <2>1
      <3> QED BY <3>1 DEF OthersFormed
    <2>2. CASE r # old /\ r = s
      <3>1. sts[r].uses = tab.states[r].uses + 1 /\ sts[r].file = tab.states[r].file
        BY <1>3, <1>6, <2>2
      <3>2. tab.states[r].file # None
        BY <1>2, <2>2
      <3> QED BY <2>0, <3>1, <3>2
    <2>3. CASE r = old /\ goes
      BY <1>6, <2>3, NoStateFields
    <2>4. CASE r = old /\ ~goes
      <3>1. used[r].uses # 1 /\ used[r].uses # 0 /\ old # None
        BY <1>2, <1>5, <2>4
      <3>2. sts[r].uses = used[r].uses - 1 /\ sts[r].file = tab.states[r].file
        BY <1>3, <1>6, <2>4, <3>1
      <3>3. tab.states[r].file # None
        <4>1. CASE r = s
          BY <1>2, <4>1
        <4>2. CASE r # s
          <5>1. r \in OpenStates \ {s} /\ tab.states[r].uses # 0
            BY <1>5, <2>4, <3>1, <4>2
          <5> QED BY <5>1 DEF OthersFormed
        <4> QED BY <4>1, <4>2
      <3> QED BY <2>0, <3>1, <3>2, <3>3
    <2> QED BY <2>1, <2>2, <2>3, <2>4
  <1>11. \A r \in OpenStates :
            \/ r = old /\ goes /\ new.states[r] = NoState
            \/ /\ ~(r = old /\ goes)
               /\ new.states[r].file = tab.states[r].file
               /\ new.states[r].writes = tab.states[r].writes
    BY <1>1, <1>2, <1>3, <1>6
  <1>12. new.locks = IF old = None THEN tab.locks ELSE tab.locks \ {tab.states[old].file}
    BY <1>1, <1>2, <1>3
  <1>13. new.closee = IF goes /\ tab.states[old].file \in Files THEN tab.states[old].file ELSE None
    BY <1>1, <1>2, <1>3
  <1> HIDE DEF goes, old
  <1>14. ASSUME NEW f \in Files
         PROVE  Cardinality(StatesOf(tab, f)) =
                   Cardinality(StatesOf(new, f)) + (IF new.closee = f THEN 1 ELSE 0)
    <2>0. /\ IsFiniteSet(StatesOf(tab, f)) /\ Cardinality(StatesOf(tab, f)) \in Nat
          /\ Cardinality(StatesOf(new, f)) \in Nat
      BY FiniteSubsets DEF StatesOf
    <2>1. CASE new.closee = f
      <3>1. goes /\ old \in OpenStates /\ tab.states[old].file = f
        BY <1>7, <1>13, <2>1, Constants
      <3>2. old \in StatesOf(tab, f)
        BY <3>1 DEF StatesOf
      <3>3. StatesOf(new, f) = StatesOf(tab, f) \ {old}
        BY <1>11, <3>1, NoStateFields, Constants DEF StatesOf
      <3>4. Cardinality(StatesOf(new, f)) = Cardinality(StatesOf(tab, f)) - 1
        BY <2>0, <3>2, <3>3, FS_RemoveElement
      <3> QED BY <2>0, <2>1, <3>4
    <2>2. CASE new.closee # f
      <3>1. ~(goes /\ tab.states[old].file = f)
        BY <1>13, <2>2
      <3>2. StatesOf(new, f) = StatesOf(tab, f)
        BY <1>11, <3>1, NoStateFields, Constants DEF StatesOf
      <3> QED BY <2>0, <2>2, <3>2
    <2> QED BY <2>1, <2>2
  <1>15. new.closee # None => old # None /\ new.closee = tab.states[old].file
    BY <1>13 DEF goes
  <1> QED BY <1>1, <1>8, <1>9, <1>10, <1>11, <1>12, <1>14, <1>15 DEF old, EntrySet

(* A new open state in a free slot. *)
NewAdded(tab, s, fd, fresh, new) ==
    /\ new \in Tables /\ s \in OpenStates
    /\ new.entries = [tab.entries EXCEPT ![fd] = s]
    /\ UsesExact(new) /\ OthersFormed(new, None)
    /\ new.states[s].file = fresh.file /\ new.states[s].writes = fresh.writes
    /\ \A r \in OpenStates \ {s} :
          \/ new.states[r] = NoState
          \/ /\ new.states[r].file = tab.states[r].file
             /\ new.states[r].writes = tab.states[r].writes
    /\ new.locks = tab.locks
    /\ \A g \in Files : Cardinality(StatesOf(new, g)) =
          Cardinality(StatesOf(tab, g)) + (IF g = fresh.file THEN 1 ELSE 0)

LEMMA AddNewFacts ==
    ASSUME NEW tab \in Tables, UsesExact(tab), OthersFormed(tab, None),
           NEW s \in Unused(tab), NEW fd \in Slots, tab.entries[fd] = None,
           NEW fresh \in States, fresh.file \in Files \cup {Special}, fresh.uses = 0,
           NEW new, new = SetEntry([tab EXCEPT !.states[s] = fresh], fd, s)
    PROVE  NewAdded(tab, s, fd, fresh, new)
  <1> DEFINE f == fresh.file
             mid == [tab EXCEPT !.states[s] = fresh]
  <1>1. s \in OpenStates /\ tab.states[s].uses = 0
    BY DEF Unused
  <1>2. tab.states \in [OpenStates -> States] /\ tab.entries \in [Slots -> OpenStates \cup {None}]
    BY TableFields
  <1>3. tab.states[s] = NoState
    BY <1>1, Constants DEF OthersFormed
  <1>4. fresh.file = f /\ f \in Files \cup {Special}
    OBVIOUS
  <1>5. /\ mid \in Tables /\ mid.entries = tab.entries /\ mid.locks = tab.locks
        /\ mid.states = [tab.states EXCEPT ![s] = fresh]
    BY <1>1, <1>4 DEF Tables, States
  <1>6. new = SetEntry(mid, fd, s)
    OBVIOUS
  <1> HIDE DEF f, mid
  <1>7. \A r \in OpenStates \ {s} : mid.states[r] = tab.states[r]
    BY <1>2, <1>5
  <1>8. mid.states[s] = fresh
    BY <1>1, <1>2, <1>5
  <1>9. UsesExact(mid)
    <2> SUFFICES ASSUME NEW r \in OpenStates
                 PROVE  mid.states[r].uses = Cardinality(SlotsOf(mid, r))
      BY DEF UsesExact
    <2>1. SlotsOf(mid, r) = SlotsOf(tab, r)
      BY <1>5 DEF SlotsOf
    <2>2. mid.states[r].uses = tab.states[r].uses
      BY <1>1, <1>4, <1>7, <1>8
    <2> QED BY <2>1, <2>2 DEF UsesExact
  <1>10. OthersFormed(mid, s)
    BY <1>1, <1>7, Constants DEF OthersFormed
  <1>11. mid.states[s].file # None
    BY <1>4, <1>8, Constants
  <1>12. /\ new \in Tables /\ new.entries = [mid.entries EXCEPT ![fd] = s]
         /\ UsesExact(new) /\ OthersFormed(new, None)
         /\ \A r \in OpenStates :
               \/ new.states[r] = NoState
               \/ /\ new.states[r].file = mid.states[r].file
                  /\ new.states[r].writes = mid.states[r].writes
         /\ new.locks = tab.locks /\ new.closee = None
         /\ \A g \in Files : Cardinality(StatesOf(mid, g)) =
               Cardinality(StatesOf(new, g)) + (IF new.closee = g THEN 1 ELSE 0)
    <2>1. s \in OpenStates \cup {None} /\ mid.entries[fd] = None
      BY <1>1, <1>5
    <2>2. EntrySet(mid, fd, s, new)
      BY <1>5, <1>6, <1>9, <1>10, <1>11, <2>1, SetEntryFacts
    <2>3. new.locks = tab.locks /\ new.closee = None
      BY <1>5, <2>1, <2>2 DEF EntrySet
    <2> QED BY <2>2, <2>3 DEF EntrySet
  <1>13. new.states[s].file # None
    <2>1. new.entries[fd] = s /\ new.entries[fd] # None
      BY <1>1, <1>2, <1>5, <1>12, Constants
    <2>2. new.states[s].file \in Files \cup {Special}
      BY <1>12, <2>1, TakenSlot
    <2> QED BY <2>2, Constants
  <1>14. new.states[s].file = f /\ new.states[s].writes = fresh.writes
    BY <1>1, <1>4, <1>8, <1>12, <1>13, NoStateFields
  <1>15. ASSUME NEW g \in Files
         PROVE  Cardinality(StatesOf(new, g)) = Cardinality(StatesOf(tab, g)) + (IF g = f THEN 1 ELSE 0)
    <2>0. /\ IsFiniteSet(StatesOf(tab, g)) /\ Cardinality(StatesOf(tab, g)) \in Nat
          /\ Cardinality(StatesOf(new, g)) \in Nat
      BY FiniteSubsets DEF StatesOf
    <2>1. Cardinality(StatesOf(mid, g)) = Cardinality(StatesOf(new, g))
      <3>1. new.closee # g
        BY <1>12, Constants
      <3> QED BY <1>12, <2>0, <3>1
    <2>2. s \notin StatesOf(tab, g)
      BY <1>3, NoStateFields, Constants DEF StatesOf
    <2>3. CASE g = f
      <3>1. StatesOf(mid, g) = StatesOf(tab, g) \cup {s}
        BY <1>1, <1>4, <1>7, <1>8, <2>3 DEF StatesOf
      <3>2. Cardinality(StatesOf(mid, g)) = Cardinality(StatesOf(tab, g)) + 1
        BY <2>0, <2>2, <3>1, OneMore
      <3> QED BY <2>1, <2>3, <3>2
    <2>4. CASE g # f
      <3>1. StatesOf(mid, g) = StatesOf(tab, g)
        BY <1>1, <1>4, <1>7, <1>8, <2>2, <2>4 DEF StatesOf
      <3> QED BY <2>0, <2>1, <2>4, <3>1
    <2> QED BY <2>3, <2>4
  <1> QED BY <1>1, <1>5, <1>7, <1>12, <1>14, <1>15 DEF NewAdded, f

-----------------------------------------------------------------------------
(* What a drain detaches.                                                  *)

TableTypes ==
    /\ entries \in [Slots -> OpenStates \cup {None}] /\ states \in [OpenStates -> States]
    /\ locks \in SUBSET Leased

LEMMA TableIsTyped ==
    ASSUME TableTypes
    PROVE  /\ Table \in Tables /\ Table.entries = entries /\ Table.states = states
           /\ Table.locks = locks /\ Table.closee = None
  BY DEF Table, Tables, TableTypes, States

LEMMA ScopeOfNone ==
    ASSUME NEW scope \in Scopes, ~InScope(scope, None)
    PROVE  scope = "profile"
  BY DEF InScope, Scopes

LEMMA DetachedSlots ==
    ASSUME TableTypes, TableInv(Table), NEW scope \in Scopes, NEW s \in OpenStates
    PROVE  /\ {fd \in Detaches(scope) : entries[fd] = s} =
                 IF InScope(scope, states[s].file) THEN SlotsOf(Table, s) ELSE {}
           /\ states[s].uses = Cardinality(SlotsOf(Table, s))
           /\ SlotsOf(Table, s) = {} <=> states[s].uses = 0
           /\ SlotsOf(Table, s) = {} <=> states[s].file = None
           /\ states[s].uses = 0 => states[s] = NoState
  <1>0. /\ Table \in Tables /\ Table.entries = entries /\ Table.states = states
    BY TableIsTyped
  <1>1. {fd \in Detaches(scope) : entries[fd] = s} =
                 IF InScope(scope, states[s].file) THEN SlotsOf(Table, s) ELSE {}
    BY <1>0, Constants DEF SlotsOf, Detaches, FileAt
  <1>2. states[s].uses = Cardinality(SlotsOf(Table, s))
    BY <1>0 DEF TableInv, UsesExact
  <1>3. IsFiniteSet(SlotsOf(Table, s))
    BY FiniteSubsets DEF SlotsOf
  <1>4. SlotsOf(Table, s) = {} <=> states[s].uses = 0
    BY <1>2, <1>3, FS_EmptySet
  <1>5. IF states[s].uses = 0 THEN states[s] = NoState ELSE states[s].file # None
    BY <1>0, Constants DEF TableInv, OthersFormed
  <1> QED BY <1>1, <1>2, <1>4, <1>5, NoStateFields

LEMMA LeftOfFacts ==
    ASSUME TableTypes, TableInv(Table), NEW scope \in Scopes, NEW s \in OpenStates
    PROVE  LeftOf(s, Detaches(scope)) =
              IF InScope(scope, states[s].file) THEN NoState ELSE states[s]
  <1> DEFINE gone == {fd \in Detaches(scope) : entries[fd] = s}
             uses == states[s].uses - Cardinality(gone)
  <1>1. LeftOf(s, Detaches(scope)) = IF uses = 0 THEN NoState ELSE [states[s] EXCEPT !.uses = uses]
    BY DEF LeftOf
  <1>2. states[s] \in States /\ states[s].uses \in Nat
    BY StateFields DEF TableTypes
  <1>3. CASE InScope(scope, states[s].file)
    <2>1. Cardinality(gone) = states[s].uses
      BY <1>3, DetachedSlots
    <2> QED BY <1>1, <1>2, <1>3, <2>1
  <1>4. CASE ~InScope(scope, states[s].file)
    <2>1. gone = {}
      BY <1>4, DetachedSlots
    <2>2. Cardinality(gone) = 0
      BY <2>1, FS_EmptySet
    <2>3. uses = states[s].uses
      BY <1>2, <2>2
    <2>4. [states[s] EXCEPT !.uses = uses] = states[s]
      BY <1>2, <2>3 DEF States
    <2>5. states[s].uses = 0 => states[s] = NoState
      BY DetachedSlots
    <2> HIDE DEF uses
    <2> QED BY <1>1, <1>4, <2>3, <2>4, <2>5
  <1> QED BY <1>3, <1>4

(* The files left to close are the open states that go, one each. *)
LEMMA ClosedOnce ==
    ASSUME TableTypes, TableInv(Table), NEW scope \in Scopes, NEW f \in Files, InScope(scope, f)
    PROVE  Cardinality({fd \in Slots : Detached(Detaches(scope)).closees[fd] = f})
              = Cardinality(StatesOf(Table, f))
  <1> DEFINE fds == Detaches(scope)
             last(fd) == \A later \in fds : later > fd => entries[later] # entries[fd]
             S == {fd \in Slots : Detached(fds).closees[fd] = f}
             T == StatesOf(Table, f)
             map == [fd \in S |-> entries[fd]]
  <1>0. /\ Table \in Tables /\ Table.entries = entries /\ Table.states = states
        /\ entries \in [Slots -> OpenStates \cup {None}] /\ None \notin OpenStates /\ None \notin Files
    BY TableIsTyped, Constants DEF TableTypes
  <1>1. S = {fd \in fds : FileAt(fd) = f /\ last(fd)}
    <2>1. \A fd \in fds : /\ fd \in Slots /\ entries[fd] \in OpenStates
                          /\ InScope(scope, FileAt(fd))
      BY <1>0 DEF Detaches
    <2>2. \A fd \in fds : LeftOf(entries[fd], fds) = NoState
      BY <2>1, LeftOfFacts DEF FileAt
    <2>3. \A fd \in Slots : Detached(fds).closees[fd] =
              IF /\ fd \in fds /\ FileAt(fd) \in Files /\ LeftOf(entries[fd], fds) = NoState /\ last(fd)
              THEN FileAt(fd) ELSE None
      BY DEF Detached
    <2> HIDE DEF fds, last
    <2> QED BY <1>0, <2>1, <2>2, <2>3
  <1>2. map \in [S -> T]
    <2> SUFFICES ASSUME NEW fd \in S PROVE entries[fd] \in T
      OBVIOUS
    <2>1. fd \in Slots /\ entries[fd] \in OpenStates /\ FileAt(fd) = f
      BY <1>0, <1>1 DEF Detaches
    <2> QED BY <1>0, <2>1 DEF StatesOf, FileAt
  <1>3. ASSUME NEW a \in S, NEW b \in S, map[a] = map[b] PROVE a = b
    <2>1. /\ a \in fds /\ b \in fds /\ last(a) /\ last(b) /\ entries[a] = entries[b]
          /\ a \in Slots /\ b \in Slots
      BY <1>1, <1>3
    <2>2. ~(a > b) /\ ~(b > a)
      BY <2>1
    <2> QED BY <2>1, <2>2, Constants
  <1>4. ASSUME NEW s \in T PROVE \E fd \in S : map[fd] = s
    <2>1. s \in OpenStates /\ states[s].file = f
      BY <1>0 DEF StatesOf
    <2>2. SlotsOf(Table, s) # {} /\ SlotsOf(Table, s) \in SUBSET Slots
      <3>1. SlotsOf(Table, s) = {} <=> states[s].file = None
        BY <2>1, DetachedSlots
      <3>2. SlotsOf(Table, s) \in SUBSET Slots
        BY DEF SlotsOf
      <3> QED BY <1>0, <2>1, <3>1, <3>2
    <2>3. PICK fd \in SlotsOf(Table, s) : \A other \in SlotsOf(Table, s) : other <= fd
      BY <2>2, HighestIn
    <2>4. fd \in Slots /\ entries[fd] = s
      BY <1>0 DEF SlotsOf
    <2>5. fd \in fds /\ FileAt(fd) = f
      BY <1>0, <2>1, <2>4 DEF Detaches, FileAt
    <2>6. ASSUME NEW later \in fds, later > fd PROVE entries[later] # entries[fd]
      <3>1. later \in Slots
        BY DEF Detaches
      <3>2. entries[later] = s => later \in SlotsOf(Table, s)
        BY <1>0, <3>1 DEF SlotsOf
      <3>3. later \in SlotsOf(Table, s) => later <= fd
        BY <2>3
      <3>4. later \in Nat /\ fd \in Nat
        BY <3>1, <2>4, Constants
      <3> QED BY <2>4, <2>6, <3>2, <3>3, <3>4
    <2>7. fd \in S
      BY <1>1, <2>5, <2>6
    <2> QED BY <2>4, <2>7
  <1> HIDE DEF S, T, map
  <1>5. ExistsBijection(S, T)
    BY <1>2, <1>3, <1>4 DEF ExistsBijection, Bijection, Injection, Surjection, IsInjective
  <1>6. IsFiniteSet(S)
    BY FiniteSubsets DEF S
  <1>7. Cardinality(T) = Cardinality(S)
    BY <1>5, <1>6, FS_Bijection
  <1> QED BY <1>7 DEF S, T

-----------------------------------------------------------------------------
(* The file behind each slot, over the changes of the table.               *)

SlotFile(tab, fd) ==
    IF tab.entries[fd] = None THEN None ELSE tab.states[tab.entries[fd]].file

LEMMA EntrySetSlots ==
    ASSUME NEW tab \in Tables, NEW fd \in Slots, NEW s \in OpenStates \cup {None}, NEW new,
           EntrySet(tab, fd, s, new)
    PROVE  /\ SlotFile(new, fd) = IF s = None THEN None ELSE tab.states[s].file
           /\ \A x \in Slots \ {fd} : SlotFile(new, x) = SlotFile(tab, x)
  <1>1. /\ new \in Tables /\ new.entries = [tab.entries EXCEPT ![fd] = s]
        /\ UsesExact(new) /\ OthersFormed(new, None)
        /\ \A r \in OpenStates :
              \/ new.states[r] = NoState
              \/ /\ new.states[r].file = tab.states[r].file
                 /\ new.states[r].writes = tab.states[r].writes
    BY DEF EntrySet
  <1>2. tab.entries \in [Slots -> OpenStates \cup {None}]
    BY TableFields
  <1>3. ASSUME NEW x \in Slots, new.entries[x] # None
        PROVE  new.states[new.entries[x]].file = tab.states[new.entries[x]].file
    <2>1. new.entries[x] \in OpenStates /\ new.states[new.entries[x]].file \in Files \cup {Special}
      BY <1>1, <1>3, TakenSlot
    <2> QED BY <1>1, <2>1, NoStateFields, Constants
  <1> QED BY <1>1, <1>2, <1>3 DEF SlotFile

LEMMA NewAddedSlots ==
    ASSUME NEW tab \in Tables, UsesExact(tab), OthersFormed(tab, None),
           NEW s \in Unused(tab), NEW fd \in Slots, NEW fresh, NEW new,
           NewAdded(tab, s, fd, fresh, new)
    PROVE  /\ SlotFile(new, fd) = fresh.file
           /\ \A x \in Slots \ {fd} : SlotFile(new, x) = SlotFile(tab, x)
  <1>1. /\ new \in Tables /\ new.entries = [tab.entries EXCEPT ![fd] = s] /\ s \in OpenStates
        /\ UsesExact(new) /\ OthersFormed(new, None)
        /\ new.states[s].file = fresh.file
        /\ \A r \in OpenStates \ {s} :
              \/ new.states[r] = NoState
              \/ /\ new.states[r].file = tab.states[r].file
                 /\ new.states[r].writes = tab.states[r].writes
    BY DEF NewAdded
  <1>2. tab.entries \in [Slots -> OpenStates \cup {None}] /\ None \notin OpenStates
    BY TableFields, Constants
  <1>3. SlotFile(new, fd) = fresh.file
    BY <1>1, <1>2 DEF SlotFile
  <1>4. ASSUME NEW x \in Slots \ {fd} PROVE SlotFile(new, x) = SlotFile(tab, x)
    <2>1. new.entries[x] = tab.entries[x]
      BY <1>1, <1>2
    <2>2. CASE tab.entries[x] = None
      BY <2>1, <2>2 DEF SlotFile
    <2>3. CASE tab.entries[x] # None
      <3>1. tab.entries[x] \in OpenStates /\ tab.states[tab.entries[x]].uses # 0
        BY <2>3, TakenSlot
      <3>2. tab.entries[x] # s
        BY <3>1 DEF Unused
      <3>3. new.states[new.entries[x]].file \in Files \cup {Special}
        BY <1>1, <2>1, <2>3, TakenSlot
      <3> QED BY <1>1, <2>1, <2>3, <3>1, <3>2, <3>3, NoStateFields, Constants DEF SlotFile
    <2> QED BY <2>2, <2>3
  <1> QED BY <1>3, <1>4

-----------------------------------------------------------------------------
(* Calls, and the opens they answer for.                                   *)

Calls == [at : {"idle", "open", "truncate", "install", "close", "lock"},
          file : Files \cup {None}, writes : BOOLEAN, trunc : BOOLEAN, token : BOOLEAN]

Holds(c, f) == c.file = f /\ c.at \in {"truncate", "install", "close"}
Busy(c) == c.at \notin {"idle", "lock"}
CallsOf(cs, f) == {t \in Threads : Holds(cs[t], f)}
ClosesOf(d, f) == {fd \in Slots : d.closees[fd] = f}

LEMMA CallsChange ==
    ASSUME NEW cs, NEW new, cs \in [Threads -> Calls], NEW t \in Threads, NEW c \in Calls,
           new = [cs EXCEPT ![t] = c], NEW f \in Files
    PROVE  /\ Cardinality(CallsOf(new, f)) \in Nat /\ Cardinality(CallsOf(cs, f)) \in Nat
           /\ Cardinality(CallsOf(new, f)) =
                 Cardinality(CallsOf(cs, f)) + (IF Holds(c, f) THEN 1 ELSE 0)
                                             - (IF Holds(cs[t], f) THEN 1 ELSE 0)
  <1>1. /\ IsFiniteSet(CallsOf(cs, f)) /\ Cardinality(CallsOf(cs, f)) \in Nat
        /\ Cardinality(CallsOf(new, f)) \in Nat
    BY FiniteSubsets DEF CallsOf
  <1>2. CASE Holds(c, f) /\ ~Holds(cs[t], f)
    <2>1. CallsOf(new, f) = CallsOf(cs, f) \cup {t} /\ t \notin CallsOf(cs, f)
      BY <1>2 DEF CallsOf
    <2>2. Cardinality(CallsOf(new, f)) = Cardinality(CallsOf(cs, f)) + 1
      BY <1>1, <2>1, FS_AddElement
    <2> QED BY <1>1, <1>2, <2>2
  <1>3. CASE ~Holds(c, f) /\ Holds(cs[t], f)
    <2>1. CallsOf(new, f) = CallsOf(cs, f) \ {t} /\ t \in CallsOf(cs, f)
      BY <1>3 DEF CallsOf
    <2>2. Cardinality(CallsOf(new, f)) = Cardinality(CallsOf(cs, f)) - 1
      BY <1>1, <2>1, FS_RemoveElement
    <2> QED BY <1>1, <1>3, <2>2
  <1>4. CASE Holds(c, f) <=> Holds(cs[t], f)
    <2>1. CallsOf(new, f) = CallsOf(cs, f)
      BY <1>4 DEF CallsOf
    <2> QED BY <1>1, <1>4, <2>1
  <1> QED BY <1>2, <1>3, <1>4

LEMMA IdleFields ==
    /\ Idle \in Calls /\ Idle.at = "idle" /\ Idle.file = None /\ CallFormed(Idle)
    /\ Idle.token = FALSE /\ Idle.writes = FALSE /\ \A f : ~Holds(Idle, f)
    /\ ~Busy(Idle)
  BY DEF Idle, Calls, CallFormed, Holds, Busy

(* The invariant in terms of the lemmas' operators. *)
LEMMA InvFacts ==
    ASSUME FileTableInv
    PROVE  /\ TableTypes /\ Table \in Tables /\ UsesExact(Table) /\ OthersFormed(Table, None)
           /\ Table.entries = entries /\ Table.states = states /\ Table.locks = locks
           /\ files \in [Files -> FileRecords] /\ call \in [Threads -> Calls]
           /\ late \subseteq locks /\ sealed \subseteq Scopes /\ drained \subseteq sealed
           /\ drain \in [scope : Scopes \cup {None}, phase : {"none", "sealed", "closing"},
                         closees : [Slots -> Files \cup {None}]]
           /\ \A t \in Threads : call[t] \in Calls /\ CallFormed(call[t])
           /\ \A f \in Files : files[f] \in FileRecords /\ HandleOf(files[f])
           /\ \A f \in Files : files[f].count = Cardinality(StatesOf(Table, f))
                 + Cardinality(CallsOf(call, f)) + Cardinality(ClosesOf(drain, f))
           /\ \A f \in Files : /\ Cardinality(StatesOf(Table, f)) \in Nat
                               /\ Cardinality(CallsOf(call, f)) \in Nat
                               /\ Cardinality(ClosesOf(drain, f)) \in Nat
  <1>1. TypeOK /\ TableInv(Table) /\ CallInv /\ OpenCountExact /\ HandleMatchesKind
    BY DEF FileTableInv
  <1>2. TableTypes
    BY <1>1 DEF TypeOK, TableTypes, States
  <1>3. /\ Table \in Tables /\ UsesExact(Table) /\ OthersFormed(Table, None)
        /\ Table.entries = entries /\ Table.states = states /\ Table.locks = locks
    BY <1>1, <1>2, TableIsTyped DEF TableInv
  <1>4. /\ files \in [Files -> FileRecords] /\ call \in [Threads -> Calls]
        /\ late \subseteq locks /\ sealed \subseteq Scopes /\ drained \subseteq sealed
        /\ drain \in [scope : Scopes \cup {None}, phase : {"none", "sealed", "closing"},
                         closees : [Slots -> Files \cup {None}]]
    BY <1>1 DEF TypeOK, FileRecords, Calls
  <1>5. \A t \in Threads : call[t] \in Calls /\ CallFormed(call[t])
    BY <1>1, <1>4 DEF CallInv
  <1>6. \A f \in Files : files[f] \in FileRecords /\ HandleOf(files[f])
    BY <1>1, <1>4 DEF HandleMatchesKind, HandleOf
  <1>7. ASSUME NEW f \in Files
        PROVE  files[f].count = Cardinality(StatesOf(Table, f))
                 + Cardinality(CallsOf(call, f)) + Cardinality(ClosesOf(drain, f))
    <2>1. {s \in OpenStates : states[s].file = f} = StatesOf(Table, f)
      BY <1>3 DEF StatesOf
    <2>2. {t \in Threads : call[t].file = f /\ call[t].at \in {"truncate", "install", "close"}}
            = CallsOf(call, f)
      BY DEF CallsOf, Holds
    <2>3. {fd \in Slots : drain.closees[fd] = f} = ClosesOf(drain, f)
      BY DEF ClosesOf
    <2> QED BY <1>1, <2>1, <2>2, <2>3 DEF OpenCountExact
  <1>8. \A f \in Files : /\ Cardinality(StatesOf(Table, f)) \in Nat
                         /\ Cardinality(CallsOf(call, f)) \in Nat
                         /\ Cardinality(ClosesOf(drain, f)) \in Nat
    BY FiniteSubsets DEF StatesOf, CallsOf, ClosesOf
  <1> QED BY <1>2, <1>3, <1>4, <1>5, <1>6, <1>7, <1>8

-----------------------------------------------------------------------------
LEMMA CallsCount ==
    ASSUME call \in [Threads -> Calls], NEW t \in Threads, NEW c \in Calls,
           call' = [call EXCEPT ![t] = c], NEW f \in Files
    PROVE  /\ Cardinality(CallsOf(call', f)) \in Nat
           /\ Cardinality(CallsOf(call', f)) =
                 Cardinality(CallsOf(call, f)) + (IF Holds(c, f) THEN 1 ELSE 0)
                                               - (IF Holds(call[t], f) THEN 1 ELSE 0)
  BY CallsChange

(* A step of a thread: what its call becomes, what it does to the table    *)
(* and to the files.  The conjuncts of the invariant that take more than   *)
(* one of these are put together here.                                     *)
LEMMA CallStep ==
    ASSUME FileTableInv, NEW t \in Threads, NEW c \in Calls, CallFormed(c),
           call' = [call EXCEPT ![t] = c], UNCHANGED <<sealed, drained, drain>>,
           NEW new \in Tables, UsesExact(new), OthersFormed(new, None), Commit(new),
           files' \in [Files -> FileRecords], \A f \in Files : HandleOf(files'[f]),
           late' \subseteq new.locks,
           \A f \in Files :
              files'[f].count + Cardinality(StatesOf(Table, f)) + (IF Holds(call[t], f) THEN 1 ELSE 0)
                 = files[f].count + Cardinality(StatesOf(new, f)) + (IF Holds(c, f) THEN 1 ELSE 0),
           \A f \in Files : files'[f] # files[f] => Busy(call[t]) /\ call[t].file = f,
           \A scope \in Scopes : Shut(scope) =>
              /\ Busy(c) => ~InScope(scope, c.file)
              /\ \A fd \in Slots : SlotFile(new, fd) # None => ~InScope(scope, SlotFile(new, fd)),
           \A s \in OpenStates : new.states[s].writes /\ new.states[s].file \in Files
                                    => files'[new.states[s].file].kind = "Access",
           \A u \in Threads : call'[u].writes /\ call'[u].at \in {"truncate", "install"}
                                    => files'[call'[u].file].kind = "Access",
           \A f \in new.locks \ late' : \E fd \in Slots : SlotFile(new, fd) = f
    PROVE  FileTableInv'
  <1>1. entries' = new.entries /\ states' = new.states /\ locks' = new.locks
    BY DEF Commit
  <1>2. /\ new.entries \in [Slots -> OpenStates \cup {None}] /\ new.states \in [OpenStates -> States]
        /\ new.locks \in SUBSET Leased
    BY TableFields
  <1>3. /\ call \in [Threads -> Calls] /\ sealed \subseteq Scopes /\ drained \subseteq sealed
        /\ drain \in [scope : Scopes \cup {None}, phase : {"none", "sealed", "closing"},
                      closees : [Slots -> Files \cup {None}]]
        /\ DrainInv /\ ScopesClear /\ CallInv
    BY InvFacts DEF FileTableInv
  <1>4. call' \in [Threads -> Calls]
    BY <1>3
  <1>5. TypeOK'
    BY <1>1, <1>2, <1>3, <1>4 DEF TypeOK, States, Calls, FileRecords
  <1>6. TableInv(Table)'
    <2>1. Table' = [entries |-> entries', states |-> states', locks |-> locks', closee |-> None]
      BY DEF Table
    <2>2. Table'.entries = new.entries /\ Table'.states = new.states
      BY <1>1, <2>1
    <2>3. UsesExact(Table')
      BY <2>2 DEF UsesExact, SlotsOf
    <2>4. OthersFormed(Table', None)
      BY <2>2 DEF OthersFormed
    <2> QED BY <2>3, <2>4 DEF TableInv
  <1>7. CallInv'
    BY <1>3 DEF CallInv
  <1>8. DrainInv'
    BY <1>3 DEF DrainInv
  <1>9. \A fd \in Slots : entries'[fd] # None => FileAt(fd)' = SlotFile(new, fd) /\ SlotFile(new, fd) # None
    <2> SUFFICES ASSUME NEW fd \in Slots, entries'[fd] # None
                 PROVE  FileAt(fd)' = SlotFile(new, fd) /\ SlotFile(new, fd) # None
      OBVIOUS
    <2>1. new.states[new.entries[fd]].file \in Files \cup {Special}
      BY <1>1, TakenSlot
    <2> QED BY <1>1, <2>1, Constants DEF FileAt, SlotFile
  <1>10. ScopesClear'
    <2>1. \A scope : Shut(scope)' <=> Shut(scope)
      BY DEF Shut
    <2>2. ASSUME NEW scope \in Scopes, Shut(scope) PROVE ScopeClear(scope)'
      <3>1. ScopeClear(scope)
        BY <1>3, <2>2 DEF ScopesClear
      <3>2. \A fd \in Slots : entries'[fd] # None => ~InScope(scope, FileAt(fd)')
        BY <1>9, <2>2
      <3>3. \A u \in Threads : call'[u].at \notin {"idle", "lock"} => ~InScope(scope, call'[u].file)
        BY <1>3, <2>2, <3>1 DEF ScopeClear, Busy
      <3> QED BY <3>2, <3>3 DEF ScopeClear, InScope
    <2>3. ASSUME NEW scope \in drained, NEW f \in Files, InScope(scope, f) PROVE files'[f].count = 0
      <3>1. scope \in Scopes /\ Shut(scope) /\ files[f].count = 0
        BY <1>3, <2>3 DEF Shut, ScopesClear
      <3>2. ScopeClear(scope)
        BY <1>3, <3>1 DEF ScopesClear
      <3>3. ~(Busy(call[t]) /\ call[t].file = f)
        BY <2>3, <3>2 DEF ScopeClear, Busy
      <3> QED BY <3>1, <3>3
    <2> QED BY <2>1, <2>2, <2>3 DEF ScopesClear, InScope
  <1>11. OpenCountExact'
    <2> SUFFICES ASSUME NEW f \in Files
                 PROVE  files'[f].count = Cardinality(StatesOf(new, f))
                           + Cardinality(CallsOf(call', f)) + Cardinality(ClosesOf(drain, f))
      <3>1. \A f \in Files : {s \in OpenStates : states'[s].file = f} = StatesOf(new, f)
        BY <1>1 DEF StatesOf
      <3>2. \A f \in Files : {u \in Threads : call'[u].file = f /\ call'[u].at \in {"truncate", "install", "close"}}
              = CallsOf(call', f)
        BY DEF CallsOf, Holds
      <3>3. \A f \in Files : {fd \in Slots : drain'.closees[fd] = f} = ClosesOf(drain, f)
        BY DEF ClosesOf
      <3> QED BY <3>1, <3>2, <3>3 DEF OpenCountExact
    <2> DEFINE a == Cardinality(StatesOf(Table, f))
               b == Cardinality(CallsOf(call, f))
               d == Cardinality(ClosesOf(drain, f))
               a1 == Cardinality(StatesOf(new, f))
               b1 == Cardinality(CallsOf(call', f))
               h == IF Holds(call[t], f) THEN 1 ELSE 0
               h1 == IF Holds(c, f) THEN 1 ELSE 0
    <2>1. files[f].count = a + b + d /\ a \in Nat /\ b \in Nat /\ d \in Nat
      BY InvFacts
    <2>2. b1 \in Nat /\ b1 = b + h1 - h
      BY <1>3, CallsCount
    <2>3. files'[f].count + a + h = files[f].count + a1 + h1
      OBVIOUS
    <2>4. a1 \in Nat
      BY FiniteSubsets DEF StatesOf
    <2>5. files'[f].count \in Nat
      BY DEF FileRecords
    <2>6. h \in Nat /\ h1 \in Nat
      OBVIOUS
    <2> HIDE DEF a, b, d, a1, b1, h, h1
    <2>7. files'[f].count = a1 + b1 + d
      BY <2>1, <2>2, <2>3, <2>4, <2>5, <2>6
    <2> QED BY <2>7 DEF a1, b1, d
  <1>12. HandleMatchesKind'
    BY DEF HandleMatchesKind, HandleOf
  <1>13. WritableHasAccess'
    BY <1>1 DEF WritableHasAccess
  <1>14. LocksHaveDescriptor'
    <2> SUFFICES ASSUME NEW f \in locks' \ late'
                 PROVE  \E fd \in Slots : entries'[fd] # None /\ FileAt(fd)' = f
      BY DEF LocksHaveDescriptor
    <2>1. PICK fd \in Slots : SlotFile(new, fd) = f
      BY <1>1
    <2>2. f # None
      BY <1>1, <1>2, Constants
    <2>3. entries'[fd] # None
      BY <1>1, <2>1, <2>2 DEF SlotFile
    <2> QED BY <1>9, <2>1, <2>3
  <1> QED BY <1>5, <1>6, <1>7, <1>8, <1>10, <1>11, <1>12, <1>13, <1>14 DEF FileTableInv

(* The invariant's facts about slots, and about the scopes of past drains. *)
LEMMA SlotFacts ==
    ASSUME FileTableInv
    PROVE  /\ \A fd \in Slots : entries[fd] # None =>
                 /\ entries[fd] \in OpenStates /\ FileAt(fd) = states[entries[fd]].file
                 /\ FileAt(fd) = SlotFile(Table, fd) /\ FileAt(fd) \in Files \cup {Special}
           /\ \A fd \in Slots : SlotFile(Table, fd) # None => entries[fd] # None
           /\ \A f \in locks \ late : \E fd \in Slots : SlotFile(Table, fd) = f
           /\ \A scope \in Scopes : Shut(scope) =>
                 \A fd \in Slots : SlotFile(Table, fd) # None => ~InScope(scope, SlotFile(Table, fd))
  <1>1. /\ Table \in Tables /\ UsesExact(Table) /\ OthersFormed(Table, None)
        /\ Table.entries = entries /\ Table.states = states
    BY InvFacts
  <1>2. \A fd \in Slots : entries[fd] # None =>
                 /\ entries[fd] \in OpenStates /\ FileAt(fd) = states[entries[fd]].file
                 /\ FileAt(fd) = SlotFile(Table, fd) /\ FileAt(fd) \in Files \cup {Special}
    BY <1>1, TakenSlot DEF FileAt, SlotFile
  <1>3. \A fd \in Slots : SlotFile(Table, fd) # None => entries[fd] # None
    BY <1>1 DEF SlotFile
  <1>4. \A f \in locks \ late : \E fd \in Slots : SlotFile(Table, fd) = f
    BY <1>2 DEF FileTableInv, LocksHaveDescriptor
  <1>5. \A scope \in Scopes : Shut(scope) =>
           \A fd \in Slots : SlotFile(Table, fd) # None => ~InScope(scope, SlotFile(Table, fd))
    BY <1>2, <1>3 DEF FileTableInv, ScopesClear, ScopeClear
  <1> QED BY <1>2, <1>3, <1>4, <1>5

LEMMA AdmittedIsOpen ==
    ASSUME FileTableInv, "terminal" \notin sealed, NEW f, Admits(f), NEW scope \in Scopes, Shut(scope)
    PROVE  ~InScope(scope, f)
  <1>1. scope \in sealed
    <2>1. drained \subseteq sealed /\ (drain.phase # "none" => drain.scope \in sealed)
      BY InvFacts DEF FileTableInv, DrainInv
    <2> QED BY <2>1 DEF Shut
  <1> QED BY <1>1 DEF Admits, InScope, Scopes

LEMMA BusyIsOpen ==
    ASSUME FileTableInv, NEW t \in Threads, Busy(call[t]), NEW scope \in Scopes, Shut(scope)
    PROVE  ~InScope(scope, call[t].file)
  BY DEF FileTableInv, ScopesClear, ScopeClear, Busy

LEMMA WriteFacts ==
    ASSUME FileTableInv
    PROVE  /\ \A s \in OpenStates : states[s].writes /\ states[s].file \in Files
                                       => files[states[s].file].kind = "Access"
           /\ \A t \in Threads : call[t].writes /\ call[t].at \in {"truncate", "install"}
                                       => files[call[t].file].kind = "Access"
  BY DEF FileTableInv, WritableHasAccess

(* A step that changes nothing but the thread's call. *)
LEMMA OnlyCallStep ==
    ASSUME FileTableInv, NEW t \in Threads, NEW c \in Calls, CallFormed(c),
           call' = [call EXCEPT ![t] = c],
           UNCHANGED <<entries, states, files, locks, late, sealed, drained, drain>>,
           \A f \in Files : Holds(c, f) <=> Holds(call[t], f),
           \A scope \in Scopes : Shut(scope) /\ Busy(c) => ~InScope(scope, c.file),
           c.writes /\ c.at \in {"truncate", "install"} => files[c.file].kind = "Access"
    PROVE  FileTableInv'
  <1>1. /\ Table \in Tables /\ UsesExact(Table) /\ OthersFormed(Table, None)
        /\ Table.entries = entries /\ Table.states = states /\ Table.locks = locks
        /\ files \in [Files -> FileRecords] /\ call \in [Threads -> Calls] /\ late \subseteq locks
        /\ \A f \in Files : HandleOf(files[f])
    BY InvFacts
  <1>2. Commit(Table)
    BY <1>1 DEF Commit
  <1>3. \A f \in Files : files'[f].count = files[f].count /\ files[f].count \in Nat
                         /\ Cardinality(StatesOf(Table, f)) \in Nat
    BY InvFacts DEF FileRecords
  <1>4. \A f \in Files :
           files'[f].count + Cardinality(StatesOf(Table, f)) + (IF Holds(call[t], f) THEN 1 ELSE 0)
              = files[f].count + Cardinality(StatesOf(Table, f)) + (IF Holds(c, f) THEN 1 ELSE 0)
    BY <1>3
  <1>5. \A s \in OpenStates : Table.states[s].writes /\ Table.states[s].file \in Files
                                    => files'[Table.states[s].file].kind = "Access"
    BY <1>1, WriteFacts
  <1>6. \A u \in Threads : call'[u].writes /\ call'[u].at \in {"truncate", "install"}
                                    => files'[call'[u].file].kind = "Access"
    BY <1>1, WriteFacts
  <1>7. \A f \in Table.locks \ late' : \E fd \in Slots : SlotFile(Table, fd) = f
    BY <1>1, SlotFacts
  <1>8. \A scope \in Scopes : Shut(scope) =>
           /\ Busy(c) => ~InScope(scope, c.file)
           /\ \A fd \in Slots : SlotFile(Table, fd) # None => ~InScope(scope, SlotFile(Table, fd))
    BY SlotFacts
  <1>9. /\ late' \subseteq Table.locks /\ files' \in [Files -> FileRecords]
        /\ \A f \in Files : HandleOf(files'[f])
        /\ \A f \in Files : files'[f] # files[f] => Busy(call[t]) /\ call[t].file = f
    BY <1>1
  <1> QED BY <1>1, <1>2, <1>4, <1>5, <1>6, <1>7, <1>8, <1>9, CallStep

LEMMA OpenStep ==
    ASSUME FileTableInv, NEW t \in Threads, NEW f \in Files, NEW w \in BOOLEAN, NEW trunc \in BOOLEAN,
           Open(t, f, w, trunc)
    PROVE  FileTableInv'
  <1> DEFINE leased == f \in Leased
             c == [Idle EXCEPT !.at = "open", !.file = f, !.writes = w,
                               !.trunc = trunc, !.token = leased]
  <1>1. /\ call[t] = Idle /\ "terminal" \notin sealed /\ Admits(f) /\ call' = [call EXCEPT ![t] = c]
        /\ UNCHANGED <<entries, states, files, locks, late, sealed, drained, drain>>
    BY DEF Open, Enters
  <1>2. c.at = "open" /\ c.file = f /\ (f \in Leased => c.token) /\ c \in Calls
    <2>1. leased \in BOOLEAN
      OBVIOUS
    <2> HIDE DEF leased
    <2>2. c.at = "open" /\ c.file = f /\ c.token = leased /\ c \in Calls
      BY <2>1 DEF Calls, Idle
    <2> HIDE DEF c
    <2> QED BY <2>2 DEF leased
  <1> HIDE DEF c
  <1>3. CallFormed(c)
    BY <1>2 DEF CallFormed
  <1>4. \A g \in Files : Holds(c, g) <=> Holds(call[t], g)
    BY <1>1, <1>2, IdleFields DEF Holds
  <1>5. \A scope \in Scopes : Shut(scope) /\ Busy(c) => ~InScope(scope, c.file)
    BY <1>1, <1>2, AdmittedIsOpen
  <1>6. c.writes /\ c.at \in {"truncate", "install"} => files[c.file].kind = "Access"
    BY <1>2
  <1> QED BY <1>1, <1>2, <1>3, <1>4, <1>5, <1>6, OnlyCallStep

LEMMA FcntlLockStep ==
    ASSUME FileTableInv, NEW t \in Threads, NEW fd \in Slots, FcntlLock(t, fd)
    PROVE  FileTableInv'
  <1> DEFINE c == [Idle EXCEPT !.at = "lock", !.file = FileAt(fd)]
  <1>1. /\ call[t] = Idle /\ FileAt(fd) \in Leased /\ call' = [call EXCEPT ![t] = c]
        /\ UNCHANGED <<entries, states, files, locks, late, sealed, drained, drain>>
    BY DEF FcntlLock, Enters
  <1>2. c.at = "lock" /\ c.file = FileAt(fd) /\ c \in Calls
    BY <1>1, Constants DEF Calls, Idle
  <1> HIDE DEF c
  <1>3. CallFormed(c)
    BY <1>1, <1>2, Constants DEF CallFormed
  <1>4. \A g \in Files : Holds(c, g) <=> Holds(call[t], g)
    BY <1>1, <1>2, IdleFields DEF Holds
  <1>5. \A scope \in Scopes : Shut(scope) /\ Busy(c) => ~InScope(scope, c.file)
    BY <1>2 DEF Busy
  <1>6. c.writes /\ c.at \in {"truncate", "install"} => files[c.file].kind = "Access"
    BY <1>2
  <1> QED BY <1>1, <1>2, <1>3, <1>4, <1>5, <1>6, OnlyCallStep

(* The call that has a file left to close. *)
CloseCall(closee, token) ==
    IF closee = None THEN Idle
    ELSE [Idle EXCEPT !.at = "close", !.file = closee, !.token = token]

IsCloseCall(c, closee) ==
    IF closee = None THEN c = Idle
    ELSE /\ c \in Calls /\ c.at = "close" /\ c.file = closee
         /\ closee \in Leased => c.token

LEMMA CloseCallFacts ==
    ASSUME NEW closee \in Files \cup {None}, NEW c, IsCloseCall(c, closee)
    PROVE  /\ c \in Calls /\ CallFormed(c) /\ c.at \in {"idle", "close"}
           /\ \A f \in Files : Holds(c, f) <=> closee = f
           /\ Busy(c) => closee # None /\ c.file = closee
  <1>1. CASE closee = None
    <2>1. c = Idle
      BY <1>1 DEF IsCloseCall
    <2> QED BY <1>1, <2>1, IdleFields, Constants
  <1>2. CASE closee # None
    <2>1. c \in Calls /\ c.at = "close" /\ c.file = closee /\ (closee \in Leased => c.token)
      BY <1>2 DEF IsCloseCall
    <2>2. CallFormed(c)
      BY <1>2, <2>1 DEF CallFormed
    <2>3. \A f \in Files : Holds(c, f) <=> closee = f
      BY <2>1 DEF Holds
    <2> QED BY <1>2, <2>1, <2>2, <2>3
  <1> QED BY <1>1, <1>2

LEMMA ReturnStep ==
    ASSUME FileTableInv, NEW t \in Threads, call' = Return(t), call[t].at \in {"idle", "open", "lock"},
           UNCHANGED <<entries, states, files, locks, late, sealed, drained, drain>>
    PROVE  FileTableInv'
  <1>1. call' = [call EXCEPT ![t] = Idle]
    BY DEF Return
  <1>2. \A f \in Files : Holds(Idle, f) <=> Holds(call[t], f)
    BY IdleFields DEF Holds
  <1>3. ~Busy(Idle) /\ ~(Idle.writes /\ Idle.at \in {"truncate", "install"})
    BY IdleFields
  <1> QED BY <1>1, <1>2, <1>3, IdleFields, OnlyCallStep

(* From holding an open to closing it. *)
LEMMA AbandonStep ==
    ASSUME FileTableInv, NEW t \in Threads, call[t].at \in {"truncate", "install"},
           call' = ThenClose(t, call[t].file, call[t].token),
           UNCHANGED <<entries, states, files, locks, late, sealed, drained, drain>>
    PROVE  FileTableInv'
  <1>1. call[t] \in Calls /\ CallFormed(call[t])
    BY InvFacts
  <1>2. /\ call[t].file \in Files /\ call[t].token \in BOOLEAN
        /\ call[t].file \in Leased => call[t].token = TRUE
    BY <1>1 DEF CallFormed, Calls
  <1> DEFINE c == CloseCall(call[t].file, call[t].token)
  <1>3. /\ call' = [call EXCEPT ![t] = c] /\ c \in Calls /\ CallFormed(c) /\ c.at \in {"idle", "close"}
        /\ \A f \in Files : Holds(c, f) <=> call[t].file = f
        /\ Busy(c) => c.file = call[t].file
    <2>1. call' = [call EXCEPT ![t] = c]
      BY DEF ThenClose, CloseCall, Return
    <2>2. IsCloseCall(c, call[t].file)
      <3>1. call[t].file # None
        BY <1>2, Constants
      <3>2. c = [Idle EXCEPT !.at = "close", !.file = call[t].file, !.token = call[t].token]
        BY <3>1 DEF CloseCall
      <3> HIDE DEF c
      <3>3. c \in Calls /\ c.at = "close" /\ c.file = call[t].file /\ c.token = call[t].token
        BY <1>2, <3>2 DEF Idle, Calls
      <3> QED BY <1>2, <3>1, <3>3 DEF IsCloseCall
    <2> HIDE DEF c
    <2>3. /\ c \in Calls /\ CallFormed(c) /\ c.at \in {"idle", "close"}
          /\ \A f \in Files : Holds(c, f) <=> call[t].file = f
          /\ Busy(c) => call[t].file # None /\ c.file = call[t].file
      BY <1>2, <2>2, CloseCallFacts
    <2> QED BY <2>1, <2>3
  <1> HIDE DEF c
  <1>4. \A f \in Files : Holds(c, f) <=> Holds(call[t], f)
    BY <1>3 DEF Holds
  <1>5. \A scope \in Scopes : Shut(scope) /\ Busy(c) => ~InScope(scope, c.file)
    <2>1. Busy(call[t])
      BY DEF Busy
    <2> QED BY <1>3, <2>1, BusyIsOpen
  <1> QED BY <1>3, <1>4, <1>5, OnlyCallStep

LEMMA TruncateStep ==
    ASSUME FileTableInv, NEW t \in Threads, Truncate(t)
    PROVE  FileTableInv'
  <1>1. /\ call[t].at = "truncate"
        /\ UNCHANGED <<entries, states, files, locks, late, sealed, drained, drain>>
    BY DEF Truncate
  <1>2. call[t] \in Calls /\ CallFormed(call[t])
    BY InvFacts
  <1>3. CASE call' = [call EXCEPT ![t].at = "install"]
    <2> DEFINE c == [call[t] EXCEPT !.at = "install"]
    <2>1. call' = [call EXCEPT ![t] = c]
      BY <1>3
    <2>2. /\ c \in Calls /\ c.at = "install" /\ c.file = call[t].file /\ c.token = call[t].token
          /\ c.writes = call[t].writes
      BY <1>2 DEF Calls
    <2> HIDE DEF c
    <2>3. CallFormed(c)
      BY <1>1, <1>2, <2>2 DEF CallFormed
    <2>4. \A f \in Files : Holds(c, f) <=> Holds(call[t], f)
      BY <1>1, <2>2 DEF Holds
    <2>5. \A scope \in Scopes : Shut(scope) /\ Busy(c) => ~InScope(scope, c.file)
      <3>1. Busy(call[t])
        BY <1>1 DEF Busy
      <3> QED BY <2>2, <3>1, BusyIsOpen
    <2>6. c.writes /\ c.at \in {"truncate", "install"} => files[c.file].kind = "Access"
      BY <1>1, <2>2, WriteFacts
    <2> QED BY <1>1, <2>1, <2>2, <2>3, <2>4, <2>5, <2>6, OnlyCallStep
  <1>4. CASE call' = ThenClose(t, call[t].file, call[t].token)
    BY <1>1, <1>4, AbandonStep
  <1> QED BY <1>3, <1>4 DEF Truncate

LEMMA CreateStateStep ==
    ASSUME FileTableInv, NEW t \in Threads, CreateState(t)
    PROVE  FileTableInv'
  <1> DEFINE f == call[t].file
             w == call[t].writes
             r == files[f]
             at == IF call[t].trunc THEN "truncate" ELSE "install"
             c == [call[t] EXCEPT !.at = at, !.trunc = FALSE]
  <1>1. call[t].at = "open" /\ UNCHANGED <<entries, states, locks, late, sealed, drained, drain>>
    BY DEF CreateState
  <1>2. call[t] \in Calls /\ CallFormed(call[t])
    BY InvFacts
  <1>3. CASE call' = Return(t) /\ UNCHANGED files
    BY <1>1, <1>3, ReturnStep
  <1>4. CASE /\ r.kind # "FailedAccessClose" /\ files' = [files EXCEPT ![f] = Opened(@, w)]
             /\ call' = [call EXCEPT ![t].at = at, ![t].trunc = FALSE]
    <2>1. f \in Files /\ w \in BOOLEAN /\ r \in FileRecords /\ HandleOf(r) /\ Busy(call[t])
      BY <1>1, <1>2, InvFacts DEF CallFormed, Calls, Busy
    <2>2. /\ Opened(r, w) \in FileRecords /\ HandleOf(Opened(r, w))
          /\ Opened(r, w).count = r.count + 1
          /\ w \/ r.kind = "Access" => Opened(r, w).kind = "Access"
      BY <1>4, <2>1, OpenedFile
    <2>3. at \in {"truncate", "install"}
      OBVIOUS
    <2>4. call' = [call EXCEPT ![t] = c]
      <3> HIDE DEF at
      <3>1. call \in [Threads -> Calls]
        BY InvFacts
      <3> QED BY <1>4, <3>1
    <2>5. /\ c \in Calls /\ c.at = at /\ c.file = f /\ c.token = call[t].token /\ c.writes = w
      <3> HIDE DEF at
      <3> QED BY <1>2, <2>3 DEF Calls
    <2>6. files' = [files EXCEPT ![f] = Opened(r, w)] /\ files \in [Files -> FileRecords]
      BY <1>4, InvFacts
    <2> HIDE DEF c, at
    <2>7. CallFormed(c)
      BY <1>1, <1>2, <2>3, <2>5 DEF CallFormed
    <2>8. \A g \in Files : (Holds(c, g) <=> g = f) /\ ~Holds(call[t], g)
      BY <1>1, <2>3, <2>5 DEF Holds
    <2>9. /\ Table \in Tables /\ UsesExact(Table) /\ OthersFormed(Table, None)
          /\ Table.entries = entries /\ Table.states = states /\ Table.locks = locks
          /\ late \subseteq locks /\ \A g \in Files : HandleOf(files[g])
      BY InvFacts
    <2>10. Commit(Table) /\ late' \subseteq Table.locks
      BY <1>1, <2>9 DEF Commit
    <2>11. /\ files' \in [Files -> FileRecords] /\ \A g \in Files : HandleOf(files'[g])
           /\ \A g \in Files : files'[g] # files[g] => Busy(call[t]) /\ call[t].file = g
      BY <2>1, <2>2, <2>6, <2>9
    <2>12. ASSUME NEW g \in Files
           PROVE  files'[g].count + Cardinality(StatesOf(Table, g)) + (IF Holds(call[t], g) THEN 1 ELSE 0)
                    = files[g].count + Cardinality(StatesOf(Table, g)) + (IF Holds(c, g) THEN 1 ELSE 0)
      <3>1. files[g].count \in Nat /\ Cardinality(StatesOf(Table, g)) \in Nat
        BY InvFacts DEF FileRecords
      <3>2. files'[g].count = IF g = f THEN files[g].count + 1 ELSE files[g].count
        BY <2>2, <2>6
      <3> HIDE DEF f
      <3> QED BY <2>8, <3>1, <3>2
    <2>13. \A scope \in Scopes : Shut(scope) =>
              /\ Busy(c) => ~InScope(scope, c.file)
              /\ \A fd \in Slots : SlotFile(Table, fd) # None => ~InScope(scope, SlotFile(Table, fd))
      BY <2>1, <2>5, BusyIsOpen, SlotFacts
    <2>14. \A g \in Files : files[g].kind = "Access" => files'[g].kind = "Access"
      BY <2>2, <2>6
    <2>15. \A s \in OpenStates : Table.states[s].writes /\ Table.states[s].file \in Files
                                    => files'[Table.states[s].file].kind = "Access"
      BY <2>9, <2>14, WriteFacts
    <2>16. ASSUME NEW u \in Threads, call'[u].writes, call'[u].at \in {"truncate", "install"}
           PROVE  files'[call'[u].file].kind = "Access"
      <3>0. call \in [Threads -> Calls] /\ call[u] \in Calls /\ CallFormed(call[u])
        BY InvFacts
      <3>1. CASE u = t
        <4>1. call'[u] = c
          BY <2>4, <3>0, <3>1
        <4>2. w
          BY <2>5, <2>16, <4>1
        <4> QED BY <2>1, <2>2, <2>5, <2>6, <4>1, <4>2
      <3>2. CASE u # t
        <4>1. call'[u] = call[u]
          BY <2>4, <3>0, <3>2
        <4>2. call[u].file \in Files
          BY <2>16, <3>0, <4>1 DEF CallFormed
        <4> QED BY <2>14, <2>16, <4>1, <4>2, WriteFacts
      <3> QED BY <3>1, <3>2
    <2>17. \A g \in Table.locks \ late' : \E fd \in Slots : SlotFile(Table, fd) = g
      BY <1>1, <2>9, SlotFacts
    <2> QED BY <1>1, <2>4, <2>5, <2>7, <2>9, <2>10, <2>11, <2>12, <2>13, <2>15, <2>16, <2>17, CallStep
  <1> QED BY <1>3, <1>4 DEF CreateState

LEMMA ApplyRecordLockStep ==
    ASSUME FileTableInv, NEW t \in Threads, ApplyRecordLock(t)
    PROVE  FileTableInv'
  <1> DEFINE f == call[t].file
             open == \E fd \in Slots : entries[fd] # None /\ FileAt(fd) = f
             new == [Table EXCEPT !.locks = locks']
  <1>1. /\ call[t].at = "lock" /\ call' = [call EXCEPT ![t] = Idle]
        /\ \/ locks' = locks \cup {f} /\ late' = IF open THEN late ELSE late \cup {f}
           \/ locks' = locks \ {f} /\ late' = late \ {f}
           \/ UNCHANGED <<locks, late>>
        /\ UNCHANGED <<entries, states, files, sealed, drained, drain>>
    BY DEF ApplyRecordLock, Return
  <1>2. /\ Table \in Tables /\ UsesExact(Table) /\ OthersFormed(Table, None)
        /\ Table.entries = entries /\ Table.states = states /\ Table.locks = locks
        /\ files \in [Files -> FileRecords] /\ late \subseteq locks /\ CallFormed(call[t])
        /\ call \in [Threads -> Calls]
        /\ \A g \in Files : HandleOf(files[g])
    BY InvFacts
  <1>3. f \in Leased
    BY <1>1, <1>2 DEF CallFormed
  <1>4. locks' \subseteq Leased /\ late' \subseteq locks'
    <2>1. locks \subseteq Leased
      BY <1>2, TableFields
    <2> HIDE DEF f, open
    <2> QED BY <1>1, <1>2, <1>3, <2>1
  <1>5. /\ new \in Tables /\ new.entries = entries /\ new.states = states /\ new.locks = locks'
    <2>1. Table = [entries |-> entries, states |-> states, locks |-> locks, closee |-> None]
      BY DEF Table
    <2> QED BY <1>2, <1>4, <2>1 DEF Tables
  <1> HIDE DEF new
  <1>6. /\ UsesExact(new) /\ OthersFormed(new, None)
    BY <1>2, <1>5 DEF UsesExact, OthersFormed, SlotsOf
  <1>7. Commit(new)
    BY <1>1, <1>5 DEF Commit
  <1>8. \A fd \in Slots : SlotFile(new, fd) = SlotFile(Table, fd)
    BY <1>2, <1>5 DEF SlotFile
  <1>9. \A g \in Files : StatesOf(new, g) = StatesOf(Table, g)
    BY <1>2, <1>5 DEF StatesOf
  <1>10. \A g \in Files : ~Holds(Idle, g) /\ ~Holds(call[t], g)
    BY <1>1, IdleFields DEF Holds
  <1>11. ASSUME NEW g \in Files
         PROVE  files'[g].count + Cardinality(StatesOf(Table, g)) + (IF Holds(call[t], g) THEN 1 ELSE 0)
                  = files[g].count + Cardinality(StatesOf(new, g)) + (IF Holds(Idle, g) THEN 1 ELSE 0)
    <2>1. files'[g].count = files[g].count
      BY <1>1
    <2> QED BY <1>9, <1>10, <2>1
  <1>12. \A scope \in Scopes : Shut(scope) =>
            /\ Busy(Idle) => ~InScope(scope, Idle.file)
            /\ \A fd \in Slots : SlotFile(new, fd) # None => ~InScope(scope, SlotFile(new, fd))
    BY <1>8, SlotFacts, IdleFields
  <1>13. ASSUME NEW g \in new.locks \ late' PROVE \E fd \in Slots : SlotFile(new, fd) = g
    <2>1. CASE g \in locks \ late
      BY <1>8, <2>1, SlotFacts
    <2>2. CASE g = f /\ open
      <3>1. PICK fd \in Slots : entries[fd] # None /\ FileAt(fd) = f
        BY <2>2
      <3> QED BY <1>8, <2>2, <3>1, SlotFacts
    <2>3. g \in locks \ late \/ (g = f /\ open)
      <3> HIDE DEF f, open
      <3> QED BY <1>1, <1>5
    <2> QED BY <2>1, <2>2, <2>3
  <1>14. \A s \in OpenStates : new.states[s].writes /\ new.states[s].file \in Files
                                    => files'[new.states[s].file].kind = "Access"
    BY <1>1, <1>5, WriteFacts
  <1>15. \A u \in Threads : call'[u].writes /\ call'[u].at \in {"truncate", "install"}
                                    => files'[call'[u].file].kind = "Access"
    BY <1>1, <1>2, WriteFacts, IdleFields
  <1>16. /\ late' \subseteq new.locks /\ files' \in [Files -> FileRecords]
         /\ \A g \in Files : HandleOf(files'[g])
         /\ \A g \in Files : files'[g] # files[g] => Busy(call[t]) /\ call[t].file = g
    BY <1>1, <1>2, <1>4, <1>5
  <1> QED BY <1>1, <1>5, <1>6, <1>7, <1>11, <1>12, <1>13, <1>14, <1>15, <1>16, IdleFields, CallStep

-----------------------------------------------------------------------------
(* The close of a file.  Its count is that of its owners, so the close of  *)
(* the last one leaves no other owner behind.                              *)

LEMMA OwnersOfOne ==
    ASSUME FileTableInv, NEW f \in Files, files[f].count = 1
    PROVE  /\ CallsOf(call, f) # {} => /\ StatesOf(Table, f) = {} /\ ClosesOf(drain, f) = {}
                                       /\ \A t, u \in CallsOf(call, f) : t = u
           /\ ClosesOf(drain, f) # {} => StatesOf(Table, f) = {} /\ CallsOf(call, f) = {}
  <1> DEFINE a == Cardinality(StatesOf(Table, f))
             b == Cardinality(CallsOf(call, f))
             d == Cardinality(ClosesOf(drain, f))
  <1>1. a + b + d = 1 /\ a \in Nat /\ b \in Nat /\ d \in Nat
    BY InvFacts
  <1>2. IsFiniteSet(StatesOf(Table, f)) /\ IsFiniteSet(CallsOf(call, f)) /\ IsFiniteSet(ClosesOf(drain, f))
    BY FiniteSubsets DEF StatesOf, CallsOf, ClosesOf
  <1>3. /\ a = 0 <=> StatesOf(Table, f) = {}
        /\ b = 0 <=> CallsOf(call, f) = {}
        /\ d = 0 <=> ClosesOf(drain, f) = {}
    BY <1>2, FS_EmptySet
  <1>4. b = 1 => \A t, u \in CallsOf(call, f) : t = u
    <2> SUFFICES ASSUME b = 1, NEW t \in CallsOf(call, f), NEW u \in CallsOf(call, f) PROVE t = u
      OBVIOUS
    <2>1. \E x : CallsOf(call, f) = {x}
      BY <1>2, FS_Singleton
    <2> QED BY <2>1
  <1> HIDE DEF a, b, d
  <1>5. b # 0 => b = 1 /\ a = 0 /\ d = 0
    BY <1>1
  <1>6. d # 0 => a = 0 /\ b = 0
    BY <1>1
  <1> QED BY <1>3, <1>4, <1>5, <1>6

LEMMA OwnedIsCounted ==
    ASSUME FileTableInv, NEW f \in Files,
           CallsOf(call, f) # {} \/ ClosesOf(drain, f) # {}
    PROVE  files[f].count # 0 /\ files[f].count \in Nat
  <1> DEFINE a == Cardinality(StatesOf(Table, f))
             b == Cardinality(CallsOf(call, f))
             d == Cardinality(ClosesOf(drain, f))
  <1>1. files[f].count = a + b + d /\ a \in Nat /\ b \in Nat /\ d \in Nat
    BY InvFacts
  <1>2. IsFiniteSet(CallsOf(call, f)) /\ IsFiniteSet(ClosesOf(drain, f))
    BY FiniteSubsets DEF CallsOf, ClosesOf
  <1>3. /\ b = 0 <=> CallsOf(call, f) = {}
        /\ d = 0 <=> ClosesOf(drain, f) = {}
    BY <1>2, FS_EmptySet
  <1> HIDE DEF a, b, d
  <1> QED BY <1>1, <1>3

LEMMA CloseFileStep ==
    ASSUME FileTableInv, NEW t \in Threads, CloseFile(t)
    PROVE  FileTableInv'
  <1> DEFINE f == call[t].file
  <1>1. /\ call[t].at = "close" /\ call' = [call EXCEPT ![t] = Idle]
        /\ UNCHANGED <<entries, states, locks, late, sealed, drained, drain>>
        /\ \E r \in CloseOutcomes(files[f]) : files' = [files EXCEPT ![f] = r]
    BY DEF CloseFile, Return
  <1>2. PICK r \in CloseOutcomes(files[f]) : files' = [files EXCEPT ![f] = r]
    BY <1>1
  <1>3. /\ Table \in Tables /\ UsesExact(Table) /\ OthersFormed(Table, None)
        /\ Table.entries = entries /\ Table.states = states /\ Table.locks = locks
        /\ files \in [Files -> FileRecords] /\ late \subseteq locks
        /\ call \in [Threads -> Calls] /\ CallFormed(call[t])
        /\ \A g \in Files : HandleOf(files[g])
    BY InvFacts
  <1>4. f \in Files /\ Busy(call[t]) /\ Holds(call[t], f)
    BY <1>1, <1>3 DEF CallFormed, Busy, Holds
  <1>5. t \in CallsOf(call, f)
    BY <1>4 DEF CallsOf
  <1>6. files[f] \in FileRecords /\ files[f].count # 0 /\ files[f].count \in Nat /\ HandleOf(files[f])
    BY <1>3, <1>4, <1>5, OwnedIsCounted
  <1>7. /\ r \in FileRecords /\ HandleOf(r) /\ r.count = files[f].count - 1
        /\ files[f].count # 1 => r.kind = files[f].kind
    BY <1>6, ClosedFile
  <1> HIDE DEF f
  <1>8. /\ files' \in [Files -> FileRecords] /\ \A g \in Files : HandleOf(files'[g])
        /\ \A g \in Files : files'[g] # files[g] => Busy(call[t]) /\ call[t].file = g
    BY <1>2, <1>3, <1>4, <1>7 DEF f
  <1>9. \A g \in Files : ~Holds(Idle, g) /\ (Holds(call[t], g) <=> g = f)
    BY <1>1, IdleFields DEF Holds, f
  <1>10. ASSUME NEW g \in Files
         PROVE  files'[g].count + Cardinality(StatesOf(Table, g)) + (IF Holds(call[t], g) THEN 1 ELSE 0)
                  = files[g].count + Cardinality(StatesOf(Table, g)) + (IF Holds(Idle, g) THEN 1 ELSE 0)
    <2>1. files[g].count \in Nat /\ Cardinality(StatesOf(Table, g)) \in Nat
      BY InvFacts DEF FileRecords
    <2>2. files'[g].count = IF g = f THEN files[g].count - 1 ELSE files[g].count
      BY <1>2, <1>3, <1>4, <1>7
    <2> QED BY <1>9, <2>1, <2>2
  <1>11. \A scope \in Scopes : Shut(scope) =>
            /\ Busy(Idle) => ~InScope(scope, Idle.file)
            /\ \A fd \in Slots : SlotFile(Table, fd) # None => ~InScope(scope, SlotFile(Table, fd))
    BY SlotFacts, IdleFields
  <1>12. \A g \in Files : g # f \/ files[f].count # 1 => files'[g].kind = files[g].kind
    BY <1>2, <1>3, <1>4, <1>7
  <1>13. ASSUME files[f].count = 1
         PROVE  StatesOf(Table, f) = {} /\ \A u \in CallsOf(call, f) : u = t
    BY <1>4, <1>5, <1>13, OwnersOfOne
  <1>14. ASSUME NEW s \in OpenStates, Table.states[s].writes, Table.states[s].file \in Files
         PROVE  files'[Table.states[s].file].kind = "Access"
    <2>1. files[Table.states[s].file].kind = "Access"
      BY <1>3, <1>14, WriteFacts
    <2>2. Table.states[s].file = f => files[f].count # 1
      BY <1>13 DEF StatesOf
    <2> QED BY <1>12, <1>14, <2>1, <2>2
  <1>15. ASSUME NEW u \in Threads, call'[u].writes, call'[u].at \in {"truncate", "install"}
         PROVE  files'[call'[u].file].kind = "Access"
    <2>1. u # t /\ call'[u] = call[u]
      BY <1>1, <1>3, <1>15, IdleFields
    <2>2. CallFormed(call[u])
      BY InvFacts
    <2>3. call[u].file \in Files /\ files[call[u].file].kind = "Access"
      BY <1>15, <2>1, <2>2, WriteFacts DEF CallFormed
    <2>4. call[u].file = f => files[f].count # 1
      BY <1>13, <1>15, <2>1 DEF CallsOf, Holds
    <2> QED BY <1>12, <2>1, <2>3, <2>4
  <1>16. \A g \in Table.locks \ late' : \E fd \in Slots : SlotFile(Table, fd) = g
    BY <1>1, <1>3, SlotFacts
  <1>17. Commit(Table) /\ late' \subseteq Table.locks
    BY <1>1, <1>3 DEF Commit
  <1> QED BY <1>1, <1>3, <1>8, <1>10, <1>11, <1>14, <1>15, <1>16, <1>17, IdleFields, CallStep

-----------------------------------------------------------------------------
(* The calls that set a descriptor to an open state that has another, or   *)
(* to null.                                                                *)
LEMMA EntryStep ==
    ASSUME FileTableInv, NEW t \in Threads, NEW fd \in Slots, NEW s \in OpenStates \cup {None},
           NEW new, new = SetEntry(Table, fd, s), Commit(new),
           s # None => states[s].file # None /\ Admits(states[s].file),
           entries[fd] # None => Admits(FileAt(fd)), "terminal" \notin sealed,
           NEW c, call' = [call EXCEPT ![t] = c], call[t] = Idle, IsCloseCall(c, new.closee),
           late' = late \cap new.locks, UNCHANGED <<files, sealed, drained, drain>>
    PROVE  FileTableInv'
  <1>1. /\ Table \in Tables /\ UsesExact(Table) /\ OthersFormed(Table, None)
        /\ Table.entries = entries /\ Table.states = states /\ Table.locks = locks
        /\ files \in [Files -> FileRecords] /\ late \subseteq locks
        /\ call \in [Threads -> Calls] /\ \A g \in Files : HandleOf(files[g])
    BY InvFacts
  <1>2. EntrySet(Table, fd, s, new)
    <2>1. OthersFormed(Table, s)
      BY <1>1, Constants DEF OthersFormed
    <2>2. s # None => Table.states[s].file # None
      BY <1>1
    <2> QED BY <1>1, <2>1, <2>2, SetEntryFacts
  <1>3. /\ new \in Tables /\ UsesExact(new) /\ OthersFormed(new, None)
        /\ \A r \in OpenStates :
              \/ new.states[r] = NoState
              \/ /\ new.states[r].file = states[r].file
                 /\ new.states[r].writes = states[r].writes
        /\ new.locks = IF entries[fd] = None THEN locks ELSE locks \ {states[entries[fd]].file}
        /\ new.closee # None => entries[fd] # None /\ new.closee = states[entries[fd]].file
        /\ \A f \in Files : Cardinality(StatesOf(Table, f)) =
              Cardinality(StatesOf(new, f)) + (IF new.closee = f THEN 1 ELSE 0)
    BY <1>1, <1>2 DEF EntrySet
  <1>4. new.closee \in Files \cup {None}
    BY <1>3, TableFields
  <1>5. /\ c \in Calls /\ CallFormed(c) /\ c.at \in {"idle", "close"}
        /\ \A f \in Files : Holds(c, f) <=> new.closee = f
        /\ Busy(c) => new.closee # None /\ c.file = new.closee
    BY <1>4, CloseCallFacts
  <1>6. /\ SlotFile(new, fd) = IF s = None THEN None ELSE states[s].file
        /\ \A x \in Slots \ {fd} : SlotFile(new, x) = SlotFile(Table, x)
    BY <1>1, <1>2, EntrySetSlots
  <1>7. ASSUME NEW f \in Files
        PROVE  files'[f].count + Cardinality(StatesOf(Table, f)) + (IF Holds(call[t], f) THEN 1 ELSE 0)
                 = files[f].count + Cardinality(StatesOf(new, f)) + (IF Holds(c, f) THEN 1 ELSE 0)
    <2>1. files'[f].count = files[f].count /\ files[f].count \in Nat
      BY <1>1 DEF FileRecords
    <2>2. Cardinality(StatesOf(new, f)) \in Nat
      BY FiniteSubsets DEF StatesOf
    <2>3. ~Holds(call[t], f)
      BY IdleFields
    <2>4. Cardinality(StatesOf(Table, f)) =
              Cardinality(StatesOf(new, f)) + (IF Holds(c, f) THEN 1 ELSE 0)
      BY <1>3, <1>5
    <2> QED BY <2>1, <2>2, <2>3, <2>4
  <1>8. ASSUME NEW scope \in Scopes, Shut(scope)
        PROVE  /\ Busy(c) => ~InScope(scope, c.file)
               /\ \A x \in Slots : SlotFile(new, x) # None => ~InScope(scope, SlotFile(new, x))
    <2>1. Busy(c) => entries[fd] # None /\ c.file = FileAt(fd)
      BY <1>3, <1>5 DEF FileAt
    <2>2. Busy(c) => ~InScope(scope, c.file)
      BY <1>8, <2>1, AdmittedIsOpen
    <2>3. s # None => ~InScope(scope, states[s].file)
      BY <1>8, AdmittedIsOpen
    <2> QED BY <1>6, <1>8, <2>2, <2>3, SlotFacts
  <1>9. \A r \in OpenStates : new.states[r].writes /\ new.states[r].file \in Files
                                    => files'[new.states[r].file].kind = "Access"
    BY <1>3, WriteFacts, NoStateFields
  <1>10. \A u \in Threads : call'[u].writes /\ call'[u].at \in {"truncate", "install"}
                                    => files'[call'[u].file].kind = "Access"
    BY <1>1, <1>5, WriteFacts
  <1>11. ASSUME NEW f \in new.locks \ late' PROVE \E x \in Slots : SlotFile(new, x) = f
    <2>1. f \in locks \ late
      BY <1>3, <1>11
    <2>2. PICK x \in Slots : SlotFile(Table, x) = f
      BY <2>1, SlotFacts
    <2>3. f # None /\ entries[x] # None /\ FileAt(x) = f
      <3>1. f \in Leased
        BY <1>1, <2>1, TableFields
      <3> QED BY <2>2, <3>1, SlotFacts, Constants
    <2>4. x # fd
      BY <1>3, <1>11, <2>3 DEF FileAt
    <2> QED BY <1>6, <2>2, <2>4
  <1>12. /\ late' \subseteq new.locks /\ files' \in [Files -> FileRecords]
         /\ \A g \in Files : HandleOf(files'[g])
         /\ \A g \in Files : files'[g] # files[g] => Busy(call[t]) /\ call[t].file = g
    BY <1>1
  <1>13. /\ new \in Tables /\ UsesExact(new) /\ OthersFormed(new, None) /\ c \in Calls /\ CallFormed(c)
    BY <1>3, <1>5
  <1> QED BY <1>7, <1>8, <1>9, <1>10, <1>11, <1>12, <1>13, CallStep


LEMMA CloseStep ==
    ASSUME FileTableInv, NEW t \in Threads, NEW fd \in Slots, Close(t, fd)
    PROVE  FileTableInv'
  <1> DEFINE new == SetEntry(Table, fd, None)
             leased == FileAt(fd) \in Leased
             c == IF new.closee = None THEN Idle
                  ELSE [Idle EXCEPT !.at = "close", !.file = new.closee, !.token = leased]
  <1>1. /\ call[t] = Idle /\ "terminal" \notin sealed /\ entries[fd] # None /\ Admits(FileAt(fd))
        /\ Commit(new) /\ late' = late \cap new.locks /\ UNCHANGED <<files, sealed, drained, drain>>
        /\ call' = [call EXCEPT ![t] = c]
    BY DEF Close, Enters, ThenClose, Return
  <1>2. leased \in BOOLEAN
    OBVIOUS
  <1>3. EntrySet(Table, fd, None, new)
    BY InvFacts, SetEntryFacts
  <1>4. new.closee \in Files \cup {None} /\ (new.closee # None => new.closee = FileAt(fd))
    BY <1>3, InvFacts, TableFields DEF EntrySet, FileAt
  <1>5. IsCloseCall(c, new.closee)
    <2> HIDE DEF new
    <2>1. CASE new.closee = None
      BY <2>1 DEF IsCloseCall
    <2>2. CASE new.closee # None
      <3> HIDE DEF leased
      <3>1. c = [Idle EXCEPT !.at = "close", !.file = new.closee, !.token = leased]
        BY <2>2
      <3> HIDE DEF c
      <3>2. c \in Calls /\ c.at = "close" /\ c.file = new.closee /\ c.token = leased
        BY <1>2, <1>4, <2>2, <3>1 DEF Idle, Calls
      <3>3. new.closee \in Leased => c.token
        BY <1>4, <2>2, <3>2 DEF leased
      <3> QED BY <2>2, <3>2, <3>3 DEF IsCloseCall
    <2> QED BY <2>1, <2>2
  <1> HIDE DEF c
  <1> QED BY <1>1, <1>5, EntryStep

LEMMA FreeSlot ==
    ASSUME FileTableInv, NEW from, FreeSlots(Table, from) # {}
    PROVE  Lowest(FreeSlots(Table, from)) \in Slots /\ entries[Lowest(FreeSlots(Table, from))] = None
  <1>1. FreeSlots(Table, from) \in SUBSET Slots
    BY DEF FreeSlots
  <1>2. Lowest(FreeSlots(Table, from)) \in FreeSlots(Table, from)
    BY <1>1, LowestIn
  <1> QED BY <1>2, InvFacts DEF FreeSlots

LEMMA DupStep ==
    ASSUME FileTableInv, NEW t \in Threads, NEW fd \in Slots, NEW from \in Slots, Dup(t, fd, from)
    PROVE  FileTableInv'
  <1> DEFINE x == Lowest(FreeSlots(Table, from))
             s == entries[fd]
             new == SetEntry(Table, x, s)
  <1>1. /\ call[t] = Idle /\ "terminal" \notin sealed /\ s # None /\ Admits(FileAt(fd))
        /\ FreeSlots(Table, from) # {} /\ Commit(new)
        /\ UNCHANGED <<files, late, call, sealed, drained, drain>>
    BY DEF Dup, Enters
  <1>2. x \in Slots /\ entries[x] = None
    BY <1>1, FreeSlot
  <1>3. s \in OpenStates /\ FileAt(fd) = states[s].file /\ states[s].file # None
    BY <1>1, SlotFacts, Constants
  <1>4. EntrySet(Table, x, s, new)
    <2>1. OthersFormed(Table, s) /\ Table.states[s].file # None
      BY <1>3, InvFacts, Constants DEF OthersFormed
    <2> HIDE DEF x, s
    <2> QED BY <1>2, <1>3, <2>1, InvFacts, SetEntryFacts
  <1> HIDE DEF x
  <1>5. new.closee = None /\ new.locks = locks
    BY <1>2, <1>4, InvFacts DEF EntrySet
  <1>6. IsCloseCall(Idle, new.closee)
    BY <1>5 DEF IsCloseCall
  <1>7. call' = [call EXCEPT ![t] = Idle] /\ late' = late \cap new.locks
    BY <1>1, <1>5, InvFacts
  <1>8. s # None => states[s].file # None /\ Admits(states[s].file)
    BY <1>1, <1>3
  <1>9. s \in OpenStates \cup {None}
    BY <1>3
  <1> HIDE DEF s
  <1> QED BY <1>1, <1>2, <1>6, <1>7, <1>8, <1>9, EntryStep

LEMMA Dup3Step ==
    ASSUME FileTableInv, NEW t \in Threads, NEW fd \in Slots, NEW at \in Slots, Dup3(t, fd, at)
    PROVE  FileTableInv'
  <1> DEFINE s == entries[fd]
             new == SetEntry(Table, at, s)
             touched == {FileAt(x) : x \in {i \in {fd, at} : entries[i] # None}}
             leased == touched \cap Leased # {}
             c == IF new.closee = None THEN Idle
                  ELSE [Idle EXCEPT !.at = "close", !.file = new.closee, !.token = leased]
  <1>1. /\ call[t] = Idle /\ "terminal" \notin sealed /\ s # None
        /\ \A f \in touched : Admits(f)
        /\ Commit(new) /\ late' = late \cap new.locks /\ UNCHANGED <<files, sealed, drained, drain>>
        /\ call' = [call EXCEPT ![t] = c]
    BY DEF Dup3, Enters, ThenClose, Return
  <1>2. leased \in BOOLEAN
    OBVIOUS
  <1>3. s \in OpenStates /\ FileAt(fd) = states[s].file /\ states[s].file # None
    BY <1>1, SlotFacts, Constants
  <1>4. EntrySet(Table, at, s, new)
    <2>1. OthersFormed(Table, s) /\ Table.states[s].file # None
      BY <1>3, InvFacts, Constants DEF OthersFormed
    <2> HIDE DEF s
    <2> QED BY <1>3, <2>1, InvFacts, SetEntryFacts
  <1>5. /\ new.closee \in Files \cup {None}
        /\ new.closee # None => entries[at] # None /\ new.closee = FileAt(at)
    BY <1>4, InvFacts, TableFields DEF EntrySet, FileAt
  <1>6. FileAt(fd) \in touched /\ (entries[at] # None => FileAt(at) \in touched)
    BY <1>1
  <1>7. IsCloseCall(c, new.closee)
    <2> HIDE DEF new, touched
    <2>1. CASE new.closee = None
      BY <2>1 DEF IsCloseCall
    <2>2. CASE new.closee # None
      <3> HIDE DEF leased
      <3>1. c = [Idle EXCEPT !.at = "close", !.file = new.closee, !.token = leased]
        BY <2>2
      <3> HIDE DEF c
      <3>2. c \in Calls /\ c.at = "close" /\ c.file = new.closee /\ c.token = leased
        BY <1>2, <1>5, <2>2, <3>1 DEF Idle, Calls
      <3>3. new.closee \in Leased => c.token
        BY <1>5, <1>6, <2>2, <3>2 DEF leased
      <3> QED BY <2>2, <3>2, <3>3 DEF IsCloseCall
    <2> QED BY <2>1, <2>2
  <1> HIDE DEF c, touched
  <1>8. s # None => states[s].file # None /\ Admits(states[s].file)
    BY <1>1, <1>3, <1>6
  <1>9. s \in OpenStates \cup {None} /\ (entries[at] # None => Admits(FileAt(at)))
    BY <1>1, <1>3, <1>6
  <1> HIDE DEF s
  <1> QED BY <1>1, <1>7, <1>8, <1>9, EntryStep

-----------------------------------------------------------------------------
(* The calls that give a new open state a descriptor.                      *)

LEMMA InstallStep ==
    ASSUME FileTableInv, NEW t \in Threads, Install(t)
    PROVE  FileTableInv'
  <1> DEFINE f == call[t].file
             w == call[t].writes
             fd == Lowest(FreeSlots(Table, 0))
             fresh == [file |-> f, writes |-> w, uses |-> 0]
  <1>1. /\ call[t].at = "install" /\ UNCHANGED <<files, late, sealed, drained, drain>>
    BY DEF Install
  <1>2. CASE FreeSlots(Table, 0) = {}
    <2>1. call' = ThenClose(t, call[t].file, call[t].token) /\ UNCHANGED <<entries, states, locks>>
      BY <1>2 DEF Install, InstallFails
    <2> QED BY <1>1, <2>1, AbandonStep
  <1>3. CASE FreeSlots(Table, 0) # {}
    <2>1. /\ call' = [call EXCEPT ![t] = Idle]
          /\ \E s \in Unused(Table) : Commit(SetEntry([Table EXCEPT !.states[s] = fresh], fd, s))
      BY <1>3 DEF Install, Return, AddNew
    <2>2. PICK s \in Unused(Table) : Commit(SetEntry([Table EXCEPT !.states[s] = fresh], fd, s))
      BY <2>1
    <2> DEFINE new == SetEntry([Table EXCEPT !.states[s] = fresh], fd, s)
    <2>3. /\ Table \in Tables /\ UsesExact(Table) /\ OthersFormed(Table, None)
          /\ Table.entries = entries /\ Table.states = states /\ Table.locks = locks
          /\ files \in [Files -> FileRecords] /\ late \subseteq locks
          /\ call \in [Threads -> Calls] /\ CallFormed(call[t]) /\ call[t] \in Calls
          /\ \A g \in Files : HandleOf(files[g])
      BY InvFacts
    <2>4. f \in Files /\ w \in BOOLEAN /\ Busy(call[t])
      BY <1>1, <2>3 DEF CallFormed, Calls, Busy
    <2>5. fresh \in States /\ fresh.file = f /\ fresh.writes = w /\ fresh.uses = 0
      BY <2>4 DEF States
    <2>6. fd \in Slots /\ entries[fd] = None
      BY <1>3, FreeSlot
    <2> HIDE DEF fd, fresh
    <2>7. NewAdded(Table, s, fd, fresh, new)
      BY <2>3, <2>4, <2>5, <2>6, AddNewFacts
    <2>8. Commit(new)
      BY <2>2
    <2> HIDE DEF new
    <2>9. /\ new \in Tables /\ UsesExact(new) /\ OthersFormed(new, None)
          /\ new.states[s].file = f /\ new.states[s].writes = w
          /\ \A r \in OpenStates \ {s} :
                \/ new.states[r] = NoState
                \/ /\ new.states[r].file = states[r].file
                   /\ new.states[r].writes = states[r].writes
          /\ new.locks = locks
      BY <2>3, <2>5, <2>7 DEF NewAdded
    <2>10. \A g \in Files : Cardinality(StatesOf(new, g)) =
              Cardinality(StatesOf(Table, g)) + (IF g = f THEN 1 ELSE 0)
      BY <2>5, <2>7 DEF NewAdded
    <2>11. /\ SlotFile(new, fd) = f
           /\ \A x \in Slots \ {fd} : SlotFile(new, x) = SlotFile(Table, x)
      BY <2>3, <2>5, <2>6, <2>7, NewAddedSlots
    <2> HIDE DEF f, w
    <2>12. \A g \in Files : ~Holds(Idle, g) /\ (Holds(call[t], g) <=> g = f)
      BY <1>1, IdleFields DEF Holds, f
    <2>13. ASSUME NEW g \in Files
           PROVE  files'[g].count + Cardinality(StatesOf(Table, g)) + (IF Holds(call[t], g) THEN 1 ELSE 0)
                    = files[g].count + Cardinality(StatesOf(new, g)) + (IF Holds(Idle, g) THEN 1 ELSE 0)
      <3>1. files'[g].count = files[g].count /\ files[g].count \in Nat
            /\ Cardinality(StatesOf(Table, g)) \in Nat
        BY <1>1, InvFacts DEF FileRecords
      <3> QED BY <2>10, <2>12, <3>1
    <2>14. ASSUME NEW scope \in Scopes, Shut(scope)
           PROVE  /\ Busy(Idle) => ~InScope(scope, Idle.file)
                  /\ \A x \in Slots : SlotFile(new, x) # None => ~InScope(scope, SlotFile(new, x))
      <3>1. ~InScope(scope, f)
        BY <2>4, <2>14, BusyIsOpen DEF f
      <3> QED BY <2>11, <2>14, <3>1, SlotFacts, IdleFields
    <2>15. ASSUME NEW r \in OpenStates, new.states[r].writes, new.states[r].file \in Files
           PROVE  files'[new.states[r].file].kind = "Access"
      <3>1. CASE r = s
        <4>1. w
          BY <2>9, <2>15, <3>1
        <4> QED BY <1>1, <2>9, <3>1, <4>1, WriteFacts DEF f, w
      <3>2. CASE r # s
        BY <1>1, <2>9, <2>15, <3>2, WriteFacts, NoStateFields
      <3> QED BY <3>1, <3>2
    <2>16. \A u \in Threads : call'[u].writes /\ call'[u].at \in {"truncate", "install"}
                                    => files'[call'[u].file].kind = "Access"
      BY <1>1, <2>1, <2>3, WriteFacts, IdleFields
    <2>17. ASSUME NEW g \in new.locks \ late' PROVE \E x \in Slots : SlotFile(new, x) = g
      <3>1. g \in locks \ late
        BY <1>1, <2>9, <2>17
      <3>2. PICK x \in Slots : SlotFile(Table, x) = g
        BY <3>1, SlotFacts
      <3>3. g # None
        BY <2>3, <3>1, TableFields, Constants
      <3>4. x # fd
        BY <2>6, <3>2, <3>3, SlotFacts
      <3> QED BY <2>11, <3>2, <3>4
    <2>18. /\ late' \subseteq new.locks /\ files' \in [Files -> FileRecords]
           /\ \A g \in Files : HandleOf(files'[g])
           /\ \A g \in Files : files'[g] # files[g] => Busy(call[t]) /\ call[t].file = g
      BY <1>1, <2>3, <2>9
    <2>19. new \in Tables /\ UsesExact(new) /\ OthersFormed(new, None)
      BY <2>9
    <2> QED BY <1>1, <2>1, <2>8, <2>13, <2>14, <2>15, <2>16, <2>17, <2>18, <2>19, IdleFields, CallStep
  <1> QED BY <1>2, <1>3

LEMMA Pipe2Step ==
    ASSUME FileTableInv, NEW t \in Threads, Pipe2(t)
    PROVE  FileTableInv'
  <1> DEFINE fresh == [file |-> Special, writes |-> FALSE, uses |-> 0]
             free == FreeSlots(Table, 0)
             fd == Lowest(free)
             half(s) == SetEntry([Table EXCEPT !.states[s] = fresh], fd, s)
             fd2(s) == Lowest(FreeSlots(half(s), 0))
             whole(s, r) == SetEntry([half(s) EXCEPT !.states[r] = fresh], fd2(s), r)
  <1>1. /\ call[t] = Idle /\ "terminal" \notin sealed /\ Cardinality(free) >= 2
        /\ UNCHANGED <<files, late, call, sealed, drained, drain>>
        /\ \E s \in Unused(Table) : \E r \in Unused(half(s)) : Commit(whole(s, r))
    BY DEF Pipe2, Enters, AddNew
  <1>2. PICK s \in Unused(Table) : \E r \in Unused(half(s)) : Commit(whole(s, r))
    BY <1>1
  <1> DEFINE mid == half(s)
             at == Lowest(FreeSlots(mid, 0))
  <1>3. PICK r \in Unused(mid) : Commit(SetEntry([mid EXCEPT !.states[r] = fresh], at, r))
    BY <1>2
  <1> DEFINE new == SetEntry([mid EXCEPT !.states[r] = fresh], at, r)
  <1>4. Commit(new)
    BY <1>3
  <1>5. /\ Table \in Tables /\ UsesExact(Table) /\ OthersFormed(Table, None)
        /\ Table.entries = entries /\ Table.states = states /\ Table.locks = locks
        /\ files \in [Files -> FileRecords] /\ late \subseteq locks
        /\ call \in [Threads -> Calls] /\ \A g \in Files : HandleOf(files[g])
    BY InvFacts
  <1>6. fresh \in States /\ fresh.file = Special /\ fresh.writes = FALSE /\ fresh.uses = 0
    BY DEF States
  <1>7. free \subseteq Slots /\ IsFiniteSet(free) /\ Cardinality(free) \in Nat
        /\ \A x \in free : entries[x] = None
    BY <1>5, FiniteSubsets DEF FreeSlots
  <1>8. fd \in free /\ fd \in Slots /\ entries[fd] = None
    <2>1. free # {}
      <3>1. free = {} => Cardinality(free) = 0
        BY FS_EmptySet
      <3> HIDE DEF free
      <3> QED BY <1>1, <1>7, <3>1
    <2> QED BY <1>7, <2>1, LowestIn
  <1>9. PICK x \in free : x # fd
    <2>1. free = {fd} => Cardinality(free) = 1
      BY FS_Singleton
    <2> HIDE DEF free, fd
    <2>2. free # {fd}
      BY <1>1, <1>7, <2>1
    <2> QED BY <1>8, <2>2
  <1> HIDE DEF fresh, fd
  <1>10. NewAdded(Table, s, fd, fresh, mid)
    BY <1>5, <1>6, <1>8, AddNewFacts
  <1> HIDE DEF mid
  <1>11. /\ mid \in Tables /\ UsesExact(mid) /\ OthersFormed(mid, None)
         /\ mid.entries = [entries EXCEPT ![fd] = s] /\ mid.locks = locks /\ s \in OpenStates
         /\ mid.states[s].file = Special
         /\ \A q \in OpenStates \ {s} :
               \/ mid.states[q] = NoState
               \/ /\ mid.states[q].file = states[q].file
                  /\ mid.states[q].writes = states[q].writes
    BY <1>5, <1>6, <1>10 DEF NewAdded
  <1>12. \A g \in Files : Cardinality(StatesOf(mid, g)) = Cardinality(StatesOf(Table, g))
    <2>1. \A g \in Files : Cardinality(StatesOf(mid, g)) =
              Cardinality(StatesOf(Table, g)) + (IF g = Special THEN 1 ELSE 0)
      BY <1>6, <1>10 DEF NewAdded
    <2>2. \A g \in Files : g # Special /\ Cardinality(StatesOf(Table, g)) \in Nat
      BY InvFacts, Constants
    <2> QED BY <2>1, <2>2
  <1>13. at \in Slots /\ mid.entries[at] = None
    <2>1. entries \in [Slots -> OpenStates \cup {None}]
      BY <1>5, TableFields
    <2>2. x \in Slots /\ mid.entries[x] = None
      BY <1>7, <1>9, <1>11, <2>1
    <2>3. x \in Nat
      BY <2>2, Constants
    <2>4. x \in FreeSlots(mid, 0)
      BY <2>2, <2>3 DEF FreeSlots
    <2>5. FreeSlots(mid, 0) \in SUBSET Slots
      BY DEF FreeSlots
    <2>6. at \in FreeSlots(mid, 0)
      BY <2>4, <2>5, LowestIn
    <2> HIDE DEF at
    <2> QED BY <2>6 DEF FreeSlots
  <1> HIDE DEF at
  <1>14. NewAdded(mid, r, at, fresh, new)
    BY <1>6, <1>11, <1>13, AddNewFacts
  <1> HIDE DEF new
  <1>15. /\ new \in Tables /\ UsesExact(new) /\ OthersFormed(new, None) /\ new.locks = locks
         /\ new.states[r].file = Special
         /\ \A q \in OpenStates \ {r} :
               \/ new.states[q] = NoState
               \/ /\ new.states[q].file = mid.states[q].file
                  /\ new.states[q].writes = mid.states[q].writes
    BY <1>6, <1>11, <1>14 DEF NewAdded
  <1>16. \A g \in Files : Cardinality(StatesOf(new, g)) = Cardinality(StatesOf(Table, g))
    <2>1. \A g \in Files : Cardinality(StatesOf(new, g)) =
              Cardinality(StatesOf(mid, g)) + (IF g = Special THEN 1 ELSE 0)
      BY <1>6, <1>14 DEF NewAdded
    <2>2. \A g \in Files : g # Special /\ Cardinality(StatesOf(Table, g)) \in Nat
      BY InvFacts, Constants
    <2> QED BY <1>12, <2>1, <2>2
  <1>17. /\ SlotFile(mid, fd) = Special
         /\ \A y \in Slots \ {fd} : SlotFile(mid, y) = SlotFile(Table, y)
    BY <1>5, <1>6, <1>8, <1>10, NewAddedSlots
  <1>18. /\ SlotFile(new, at) = Special
         /\ \A y \in Slots \ {at} : SlotFile(new, y) = SlotFile(mid, y)
    BY <1>6, <1>11, <1>13, <1>14, NewAddedSlots
  <1>19. \A y \in Slots : SlotFile(new, y) = Special \/ SlotFile(new, y) = SlotFile(Table, y)
    BY <1>17, <1>18
  <1>20. \A y \in Slots : SlotFile(Table, y) # None => SlotFile(new, y) = SlotFile(Table, y)
    <2> SUFFICES ASSUME NEW y \in Slots, SlotFile(Table, y) # None
                 PROVE  SlotFile(new, y) = SlotFile(Table, y)
      OBVIOUS
    <2>1. y # fd
      BY <1>8, SlotFacts
    <2>2. SlotFile(mid, y) = SlotFile(Table, y)
      BY <1>17, <2>1
    <2>3. y # at
      BY <1>13, <2>2 DEF SlotFile
    <2> QED BY <1>18, <2>2, <2>3
  <1>21. ASSUME NEW scope \in Scopes, Shut(scope)
         PROVE  /\ Busy(Idle) => ~InScope(scope, Idle.file)
                /\ \A y \in Slots : SlotFile(new, y) # None => ~InScope(scope, SlotFile(new, y))
    <2>1. Admits(Special)
      BY Constants DEF Admits
    <2>2. ~InScope(scope, Special)
      BY <1>1, <1>21, <2>1, AdmittedIsOpen
    <2> QED BY <1>19, <1>21, <2>2, SlotFacts, IdleFields
  <1>22. ASSUME NEW q \in OpenStates, new.states[q].writes, new.states[q].file \in Files
         PROVE  files'[new.states[q].file].kind = "Access"
    <2>1. q # r /\ new.states[q].file = mid.states[q].file /\ new.states[q].writes = mid.states[q].writes
      BY <1>15, <1>22, NoStateFields, Constants
    <2>2. q # s /\ mid.states[q].file = states[q].file /\ mid.states[q].writes = states[q].writes
      BY <1>11, <1>22, <2>1, NoStateFields, Constants
    <2> QED BY <1>1, <1>22, <2>1, <2>2, WriteFacts
  <1>23. \A u \in Threads : call'[u].writes /\ call'[u].at \in {"truncate", "install"}
                                    => files'[call'[u].file].kind = "Access"
    BY <1>1, WriteFacts
  <1>24. ASSUME NEW g \in new.locks \ late' PROVE \E y \in Slots : SlotFile(new, y) = g
    <2>1. g \in locks \ late
      BY <1>1, <1>15, <1>24
    <2>2. PICK y \in Slots : SlotFile(Table, y) = g
      BY <2>1, SlotFacts
    <2>3. g # None
      BY <1>5, <2>1, TableFields, Constants
    <2> QED BY <1>20, <2>2, <2>3
  <1>25. ASSUME NEW g \in Files
         PROVE  files'[g].count + Cardinality(StatesOf(Table, g)) + (IF Holds(call[t], g) THEN 1 ELSE 0)
                  = files[g].count + Cardinality(StatesOf(new, g)) + (IF Holds(Idle, g) THEN 1 ELSE 0)
    BY <1>1, <1>16
  <1>26. /\ late' \subseteq new.locks /\ files' \in [Files -> FileRecords]
         /\ \A g \in Files : HandleOf(files'[g])
         /\ \A g \in Files : files'[g] # files[g] => Busy(call[t]) /\ call[t].file = g
         /\ new \in Tables /\ UsesExact(new) /\ OthersFormed(new, None)
         /\ call' = [call EXCEPT ![t] = Idle] /\ UNCHANGED <<sealed, drained, drain>>
    BY <1>1, <1>5, <1>15
  <1> QED BY <1>4, <1>21, <1>22, <1>23, <1>24, <1>25, <1>26, IdleFields, CallStep

-----------------------------------------------------------------------------
(* The drains.                                                             *)

LEMMA DrainFacts ==
    ASSUME FileTableInv
    PROVE  /\ drain.scope \in Scopes \cup {None} /\ drain.closees \in [Slots -> Files \cup {None}]
           /\ drain.phase \in {"none", "sealed", "closing"}
           /\ drain.phase = "none" <=> drain = NoDrain
           /\ drain.phase # "none" => drain.scope \in sealed /\ drain.scope \in Scopes
           /\ drain.phase # "closing" => \A f \in Files : ClosesOf(drain, f) = {}
  <1>1. /\ drain \in [scope : Scopes \cup {None}, phase : {"none", "sealed", "closing"},
                      closees : [Slots -> Files \cup {None}]]
        /\ sealed \subseteq Scopes
    BY InvFacts
  <1>2. DrainInv
    BY DEF FileTableInv
  <1> QED BY <1>1, <1>2, Constants DEF DrainInv, ClosesOf

LEMMA NoDrainFields ==
    NoDrain.scope = None /\ NoDrain.phase = "none" /\ NoDrain.closees = [fd \in Slots |-> None]
  BY DEF NoDrain

LEMMA SealStep ==
    ASSUME FileTableInv, NEW scope \in Scopes, Seal(scope)
    PROVE  FileTableInv'
  <1>1. /\ drain = NoDrain /\ sealed' = sealed \cup {scope}
        /\ drain' = [NoDrain EXCEPT !.scope = scope, !.phase = "sealed"]
        /\ UNCHANGED <<entries, states, files, locks, late, call, drained>>
    BY DEF Seal
  <1>2. /\ drain'.scope = scope /\ drain'.phase = "sealed" /\ drain'.closees = drain.closees
        /\ drain' = [scope |-> scope, phase |-> "sealed", closees |-> drain.closees]
        /\ drain.phase = "none"
    BY <1>1 DEF NoDrain
  <1>3. TypeOK'
    BY <1>1, <1>2, DrainFacts DEF FileTableInv, TypeOK
  <1>4. TableInv(Table)'
    BY <1>1 DEF FileTableInv, TableInv, Table, UsesExact, OthersFormed, SlotsOf
  <1>5. CallInv'
    BY <1>1 DEF FileTableInv, CallInv
  <1>6. DrainInv'
    BY <1>1, <1>2, NoDrainFields DEF FileTableInv, DrainInv
  <1>7. ScopesClear'
    <2>1. \A sc : Shut(sc)' => Shut(sc)
      BY <1>1, <1>2 DEF Shut
    <2>2. \A sc : ScopeClear(sc)' <=> ScopeClear(sc)
      BY <1>1 DEF ScopeClear, FileAt, InScope
    <2> QED BY <1>1, <2>1, <2>2 DEF FileTableInv, ScopesClear, InScope
  <1>8. OpenCountExact'
    BY <1>1, <1>2 DEF FileTableInv, OpenCountExact
  <1>9. HandleMatchesKind' /\ WritableHasAccess' /\ LocksHaveDescriptor'
    BY <1>1 DEF FileTableInv, HandleMatchesKind, WritableHasAccess, LocksHaveDescriptor, FileAt
  <1> QED BY <1>3, <1>4, <1>5, <1>6, <1>7, <1>8, <1>9 DEF FileTableInv

(* A file that no descriptor refers to has no open state. *)
LEMMA NoSlotNoState ==
    ASSUME FileTableInv, NEW f \in Files,
           \A fd \in Slots : entries[fd] # None => FileAt(fd) # f
    PROVE  StatesOf(Table, f) = {}
  <1> SUFFICES ASSUME NEW s \in StatesOf(Table, f) PROVE FALSE
    OBVIOUS
  <1>1. s \in OpenStates /\ states[s].file = f /\ s # None /\ f # None
    BY InvFacts, Constants DEF StatesOf
  <1>2. TableTypes /\ TableInv(Table) /\ "terminal" \in Scopes
    BY InvFacts DEF TableInv, Scopes
  <1>3. SlotsOf(Table, s) = {} <=> states[s].file = None
    BY <1>1, <1>2, DetachedSlots
  <1>4. PICK fd \in Slots : entries[fd] = s
    BY <1>1, <1>3, InvFacts DEF SlotsOf
  <1> QED BY <1>1, <1>4, SlotFacts

LEMMA DrainEndStep ==
    ASSUME FileTableInv, DrainEnd
    PROVE  FileTableInv'
  <1>1. /\ drain.phase = "closing" /\ \A fd \in Slots : drain.closees[fd] = None
        /\ drained' = drained \cup {drain.scope} /\ drain' = NoDrain
        /\ UNCHANGED <<entries, states, files, locks, late, call, sealed>>
    BY DEF DrainEnd
  <1>2. drain.scope \in Scopes /\ drain.scope \in sealed /\ Shut(drain.scope)
    BY <1>1, DrainFacts DEF Shut
  <1>3. \A fd \in Slots : drain'.closees[fd] = drain.closees[fd]
    BY <1>1, NoDrainFields
  <1>4. TypeOK'
    BY <1>1, <1>2 DEF FileTableInv, TypeOK, NoDrain
  <1>5. TableInv(Table)'
    BY <1>1 DEF FileTableInv, TableInv, Table, UsesExact, OthersFormed, SlotsOf
  <1>6. CallInv'
    BY <1>1 DEF FileTableInv, CallInv
  <1>7. DrainInv'
    BY <1>1, NoDrainFields DEF DrainInv
  <1>8. ASSUME NEW f \in Files, InScope(drain.scope, f) PROVE files[f].count = 0
    <2>1. ScopeClear(drain.scope)
      BY <1>2 DEF FileTableInv, ScopesClear
    <2>2. StatesOf(Table, f) = {}
      BY <1>8, <2>1, NoSlotNoState DEF ScopeClear
    <2>3. CallsOf(call, f) = {}
      BY <1>8, <2>1 DEF CallsOf, Holds, ScopeClear
    <2>4. ClosesOf(drain, f) = {}
      BY <1>1, Constants DEF ClosesOf
    <2>5. /\ Cardinality(StatesOf(Table, f)) = 0 /\ Cardinality(CallsOf(call, f)) = 0
          /\ Cardinality(ClosesOf(drain, f)) = 0
      BY <2>2, <2>3, <2>4, FS_EmptySet
    <2> QED BY <2>5, InvFacts
  <1>9. ScopesClear'
    <2>1. \A sc : Shut(sc)' => Shut(sc)
      BY <1>1, NoDrainFields DEF Shut
    <2>2. \A sc : ScopeClear(sc)' <=> ScopeClear(sc)
      BY <1>1 DEF ScopeClear, FileAt, InScope
    <2>3. \A sc \in drained' : \A f \in Files : InScope(sc, f) => files'[f].count = 0
      BY <1>1, <1>8 DEF FileTableInv, ScopesClear
    <2> QED BY <2>1, <2>2, <2>3 DEF FileTableInv, ScopesClear, InScope
  <1>10. OpenCountExact'
    BY <1>1, <1>3 DEF FileTableInv, OpenCountExact
  <1>11. HandleMatchesKind' /\ WritableHasAccess' /\ LocksHaveDescriptor'
    BY <1>1 DEF FileTableInv, HandleMatchesKind, WritableHasAccess, LocksHaveDescriptor, FileAt
  <1> QED BY <1>4, <1>5, <1>6, <1>7, <1>9, <1>10, <1>11 DEF FileTableInv

LEMMA DrainCloseStep ==
    ASSUME FileTableInv, DrainClose
    PROVE  FileTableInv'
  <1> DEFINE left == {x \in Slots : drain.closees[x] # None}
             fd == Lowest(left)
             f == drain.closees[fd]
  <1>1. /\ drain.phase = "closing" /\ left # {}
        /\ drain' = [drain EXCEPT !.closees[fd] = None]
        /\ UNCHANGED <<entries, states, locks, late, call, sealed, drained>>
        /\ \E r \in CloseOutcomes(files[f]) : files' = [files EXCEPT ![f] = r]
    BY DEF DrainClose
  <1>2. PICK r \in CloseOutcomes(files[f]) : files' = [files EXCEPT ![f] = r]
    BY <1>1
  <1>3. fd \in left
    BY <1>1, LowestIn
  <1>4. fd \in Slots /\ f \in Files /\ fd \in ClosesOf(drain, f)
    BY <1>3, DrainFacts DEF ClosesOf
  <1> HIDE DEF fd
  <1>5. /\ files \in [Files -> FileRecords] /\ call \in [Threads -> Calls]
        /\ files[f] \in FileRecords /\ HandleOf(files[f])
        /\ files[f].count # 0 /\ files[f].count \in Nat
        /\ Table.states = states
    BY <1>4, InvFacts, OwnedIsCounted
  <1>6. /\ r \in FileRecords /\ HandleOf(r) /\ r.count = files[f].count - 1
        /\ files[f].count # 1 => r.kind = files[f].kind
    BY <1>5, ClosedFile
  <1>7. /\ drain'.scope = drain.scope /\ drain'.phase = "closing"
        /\ drain'.closees = [drain.closees EXCEPT ![fd] = None]
        /\ drain' = [scope |-> drain.scope, phase |-> "closing",
                     closees |-> [drain.closees EXCEPT ![fd] = None]]
    <2>1. drain \in [scope : Scopes \cup {None}, phase : {"none", "sealed", "closing"},
                     closees : [Slots -> Files \cup {None}]]
      BY InvFacts
    <2> QED BY <1>1, <2>1
  <1>8. drain.scope \in Scopes /\ drain.scope \in sealed /\ drain.closees \in [Slots -> Files \cup {None}]
    BY <1>1, DrainFacts
  <1> HIDE DEF f
  <1>9. TypeOK'
    <2>1. files' \in [Files -> FileRecords]
      BY <1>2, <1>4, <1>5, <1>6
    <2>2. drain' \in [scope : Scopes \cup {None}, phase : {"none", "sealed", "closing"},
                      closees : [Slots -> Files \cup {None}]]
      BY <1>4, <1>7, <1>8
    <2> QED BY <1>1, <2>1, <2>2 DEF FileTableInv, TypeOK, FileRecords
  <1>10. TableInv(Table)'
    BY <1>1 DEF FileTableInv, TableInv, Table, UsesExact, OthersFormed, SlotsOf
  <1>11. CallInv'
    BY <1>1 DEF FileTableInv, CallInv
  <1>12. DrainInv'
    BY <1>1, <1>7, <1>8, NoDrainFields DEF DrainInv
  <1>13. ScopesClear'
    <2>1. \A sc : Shut(sc)' <=> Shut(sc)
      BY <1>1, <1>7 DEF Shut
    <2>2. \A sc : ScopeClear(sc)' <=> ScopeClear(sc)
      BY <1>1 DEF ScopeClear, FileAt, InScope
    <2>3. ASSUME NEW sc \in drained, NEW g \in Files, InScope(sc, g) PROVE files'[g].count = 0
      <3>1. files[g].count = 0
        BY <2>3 DEF FileTableInv, ScopesClear
      <3>2. g # f
        BY <1>5, <3>1
      <3> QED BY <1>2, <1>4, <1>5, <3>1, <3>2
    <2> QED BY <1>1, <2>1, <2>2, <2>3 DEF FileTableInv, ScopesClear, InScope
  <1>14. ASSUME NEW g \in Files
         PROVE  files'[g].count = Cardinality(StatesOf(Table, g))
                    + Cardinality(CallsOf(call, g)) + Cardinality(ClosesOf(drain', g))
    <2>1. /\ files[g].count = Cardinality(StatesOf(Table, g))
                 + Cardinality(CallsOf(call, g)) + Cardinality(ClosesOf(drain, g))
          /\ Cardinality(StatesOf(Table, g)) \in Nat /\ Cardinality(CallsOf(call, g)) \in Nat
          /\ Cardinality(ClosesOf(drain, g)) \in Nat
      BY InvFacts
    <2>2. CASE g = f
      <3>1. ClosesOf(drain', g) = ClosesOf(drain, g) \ {fd}
        BY <1>4, <1>7, <1>8, <2>2, Constants DEF ClosesOf
      <3>2. IsFiniteSet(ClosesOf(drain, g)) /\ fd \in ClosesOf(drain, g)
        BY <1>4, <2>2, FiniteSubsets DEF ClosesOf
      <3>3. Cardinality(ClosesOf(drain', g)) = Cardinality(ClosesOf(drain, g)) - 1
        BY <3>1, <3>2, FS_RemoveElement
      <3>4. files'[g].count = files[g].count - 1
        BY <1>2, <1>4, <1>5, <1>6, <2>2
      <3> QED BY <2>1, <3>3, <3>4
    <2>3. CASE g # f
      <3>1. ClosesOf(drain', g) = ClosesOf(drain, g)
        BY <1>4, <1>7, <1>8, <2>3, Constants DEF ClosesOf, f
      <3>2. files'[g] = files[g]
        BY <1>2, <1>5, <2>3
      <3> QED BY <2>1, <3>1, <3>2
    <2> QED BY <2>2, <2>3
  <1>15. OpenCountExact'
    <2> SUFFICES ASSUME NEW g \in Files
                 PROVE  files'[g].count = Cardinality({s \in OpenStates : states'[s].file = g})
                           + Cardinality({t \in Threads :
                                call'[t].file = g /\ call'[t].at \in {"truncate", "install", "close"}})
                           + Cardinality({x \in Slots : drain'.closees[x] = g})
      BY DEF OpenCountExact
    <2>1. {s \in OpenStates : states'[s].file = g} = StatesOf(Table, g)
      BY <1>1, <1>5 DEF StatesOf
    <2>2. {t \in Threads : call'[t].file = g /\ call'[t].at \in {"truncate", "install", "close"}}
            = CallsOf(call, g)
      BY <1>1 DEF CallsOf, Holds
    <2>3. {x \in Slots : drain'.closees[x] = g} = ClosesOf(drain', g)
      BY DEF ClosesOf
    <2> QED BY <1>14, <2>1, <2>2, <2>3
  <1>16. HandleMatchesKind'
    <2>1. \A g \in Files : HandleOf(files'[g])
      BY <1>2, <1>4, <1>5, <1>6, InvFacts
    <2> QED BY <2>1 DEF HandleMatchesKind, HandleOf
  <1>17. WritableHasAccess'
    <2>1. \A g \in Files : g # f \/ files[f].count # 1 => files'[g].kind = files[g].kind
      BY <1>2, <1>4, <1>5, <1>6
    <2>2. ASSUME files[f].count = 1 PROVE StatesOf(Table, f) = {} /\ CallsOf(call, f) = {}
      BY <1>4, <2>2, OwnersOfOne
    <2>3. ASSUME NEW s \in OpenStates, states[s].writes, states[s].file \in Files
          PROVE  files'[states[s].file].kind = "Access"
      <3>1. states[s].file = f => files[f].count # 1
        BY <1>5, <2>2 DEF StatesOf
      <3> QED BY <2>1, <2>3, <3>1, WriteFacts
    <2>4. ASSUME NEW t \in Threads, call[t].writes, call[t].at \in {"truncate", "install"}
          PROVE  files'[call[t].file].kind = "Access"
      <3>1. CallFormed(call[t])
        BY InvFacts
      <3>2. call[t].file \in Files
        BY <2>4, <3>1 DEF CallFormed
      <3>3. call[t].file = f => files[f].count # 1
        BY <2>2, <2>4 DEF CallsOf, Holds
      <3> QED BY <2>1, <2>4, <3>2, <3>3, WriteFacts
    <2> QED BY <1>1, <2>3, <2>4 DEF WritableHasAccess
  <1>18. LocksHaveDescriptor'
    BY <1>1 DEF FileTableInv, LocksHaveDescriptor, FileAt
  <1> QED BY <1>9, <1>10, <1>11, <1>12, <1>13, <1>15, <1>16, <1>17, <1>18 DEF FileTableInv

LEMMA DetachStep ==
    ASSUME FileTableInv, Detach
    PROVE  FileTableInv'
  <1> DEFINE scope == drain.scope
             fds == Detaches(scope)
             new == Detached(fds)
  <1>1. /\ drain.phase = "sealed" /\ Quiet(scope)
        /\ entries' = new.entries /\ states' = new.states /\ locks' = new.locks
        /\ late' = late \cap new.locks
        /\ drain' = [drain EXCEPT !.phase = "closing", !.closees = new.closees]
        /\ UNCHANGED <<files, call, sealed, drained>>
    BY DEF Detach, Commit
  <1>2. /\ scope \in Scopes /\ scope \in sealed
        /\ drain.closees \in [Slots -> Files \cup {None}]
        /\ \A f \in Files : ClosesOf(drain, f) = {}
    BY <1>1, DrainFacts
  <1>3. /\ TableTypes /\ TableInv(Table) /\ Table.entries = entries /\ Table.states = states
        /\ entries \in [Slots -> OpenStates \cup {None}] /\ states \in [OpenStates -> States]
        /\ locks \in SUBSET Leased /\ late \subseteq locks
        /\ call \in [Threads -> Calls] /\ \A t \in Threads : CallFormed(call[t])
    BY InvFacts DEF TableTypes, TableInv
  <1>4. /\ new.entries = [fd \in Slots |-> IF fd \in fds THEN None ELSE entries[fd]]
        /\ new.states = [s \in OpenStates |-> LeftOf(s, fds)]
        /\ new.locks = locks \ {FileAt(fd) : fd \in fds}
        /\ new.closees = [fd \in Slots |->
              IF /\ fd \in fds /\ FileAt(fd) \in Files /\ LeftOf(entries[fd], fds) = NoState
                 /\ \A later \in fds : later > fd => entries[later] # entries[fd]
              THEN FileAt(fd) ELSE None]
    BY DEF Detached
  <1>5. \A s \in OpenStates : LeftOf(s, fds) = IF InScope(scope, states[s].file) THEN NoState ELSE states[s]
    BY <1>2, <1>3, LeftOfFacts
  <1>6. \A fd \in Slots : fd \in fds <=> entries[fd] # None /\ InScope(scope, FileAt(fd))
    BY DEF Detaches
  <1>7. fds \subseteq Slots
    BY DEF Detaches
  <1>8. \A f \in Files : InScope(scope, f) =>
           Cardinality(ClosesOf(new, f)) = Cardinality(StatesOf(Table, f))
    BY <1>2, <1>3, ClosedOnce DEF ClosesOf
  <1> HIDE DEF fds, new
  <1>9. new.closees \in [Slots -> Files \cup {None}]
    BY <1>4
  <1>10. /\ drain'.scope = scope /\ drain'.phase = "closing" /\ drain'.closees = new.closees
         /\ drain' \in [scope : Scopes \cup {None}, phase : {"none", "sealed", "closing"},
                        closees : [Slots -> Files \cup {None}]]
    <2>1. drain \in [scope : Scopes \cup {None}, phase : {"none", "sealed", "closing"},
                     closees : [Slots -> Files \cup {None}]]
      BY InvFacts
    <2> QED BY <1>1, <1>9, <2>1
  <1>11. /\ \A s \in OpenStates : states'[s] = IF InScope(scope, states[s].file) THEN NoState ELSE states[s]
         /\ \A fd \in Slots : entries'[fd] = IF fd \in fds THEN None ELSE entries[fd]
         /\ entries' \in [Slots -> OpenStates \cup {None}] /\ states' \in [OpenStates -> States]
    BY <1>1, <1>3, <1>4, <1>5, NoStateFields
  <1>12. ASSUME NEW fd \in Slots, entries'[fd] # None
         PROVE  /\ entries[fd] # None /\ entries'[fd] = entries[fd] /\ FileAt(fd)' = FileAt(fd)
                /\ ~InScope(scope, FileAt(fd))
    <2>1. fd \notin fds /\ entries'[fd] = entries[fd] /\ entries[fd] # None
      BY <1>11, <1>12
    <2>2. ~InScope(scope, FileAt(fd)) /\ entries[fd] \in OpenStates
      BY <1>3, <1>6, <2>1
    <2>3. states'[entries[fd]] = states[entries[fd]]
      BY <1>11, <2>2 DEF FileAt
    <2> QED BY <2>1, <2>2, <2>3 DEF FileAt
  <1>13. TypeOK'
    <2>1. locks' \subseteq Leased /\ late' \subseteq locks'
      BY <1>1, <1>3, <1>4
    <2> QED BY <1>1, <1>10, <1>11, <2>1 DEF FileTableInv, TypeOK, States
  <1>14. TableInv(Table)'
    <2>1. Table' = [entries |-> entries', states |-> states', locks |-> locks', closee |-> None]
      BY DEF Table
    <2>2. Table'.entries = entries' /\ Table'.states = states'
      BY <2>1
    <2>3. ASSUME NEW s \in OpenStates PROVE states'[s].uses = Cardinality(SlotsOf(Table', s))
      <3>0. /\ states[s].uses = Cardinality(SlotsOf(Table, s))
            /\ states[s].uses = 0 <=> SlotsOf(Table, s) = {}
            /\ s # None
        BY <1>2, <1>3, DetachedSlots, Constants
      <3>1. CASE InScope(scope, states[s].file)
        <4>1. SlotsOf(Table', s) = {}
          BY <1>12, <2>2, <3>0, <3>1 DEF SlotsOf, FileAt
        <4> QED BY <1>11, <3>1, <4>1, NoStateFields, FS_EmptySet
      <3>2. CASE ~InScope(scope, states[s].file)
        <4>1. SlotsOf(Table', s) = SlotsOf(Table, s)
          BY <1>3, <1>6, <1>11, <2>2, <3>0, <3>2 DEF SlotsOf, FileAt
        <4> QED BY <1>11, <3>0, <3>2, <4>1
      <3> QED BY <3>1, <3>2
    <2>4. UsesExact(Table')
      BY <2>2, <2>3 DEF UsesExact
    <2>5. ASSUME NEW s \in OpenStates
          PROVE  IF states'[s].uses = 0 THEN states'[s] = NoState ELSE states'[s].file # None
      <3>1. IF states[s].uses = 0 THEN states[s] = NoState ELSE states[s].file # None
        BY <1>3, Constants DEF TableInv, OthersFormed
      <3> QED BY <1>11, <3>1, NoStateFields
    <2>6. OthersFormed(Table', None)
      BY <2>2, <2>5 DEF OthersFormed
    <2> QED BY <2>4, <2>6 DEF TableInv
  <1>15. CallInv'
    BY <1>1 DEF FileTableInv, CallInv
  <1>16. DrainInv'
    BY <1>1, <1>2, <1>10, NoDrainFields DEF DrainInv
  <1>17. ASSUME NEW t \in Threads, Busy(call[t]) PROVE ~InScope(scope, call[t].file)
    <2>1. IF scope = "terminal" THEN call[t] = Idle ELSE ~call[t].token
      BY <1>1 DEF Quiet
    <2>2. CASE scope = "terminal"
      BY <1>17, <2>1, <2>2, IdleFields
    <2>3. CASE scope # "terminal"
      <3>1. call[t].file \in Leased => call[t].token
        BY <1>3, <1>17 DEF CallFormed, Busy
      <3> QED BY <2>1, <2>3, <3>1 DEF InScope
    <2> QED BY <2>2, <2>3
  <1>18. ScopesClear'
    <2>1. ASSUME NEW sc \in Scopes, Shut(sc)' PROVE ScopeClear(sc)'
      <3>1. CASE sc \in drained
        <4>1. ScopeClear(sc)
          BY <3>1 DEF FileTableInv, ScopesClear, Shut
        <4>2. \A fd \in Slots : entries'[fd] # None => ~InScope(sc, FileAt(fd)')
          BY <1>12, <4>1 DEF ScopeClear
        <4>3. \A t \in Threads : call'[t].at \notin {"idle", "lock"} => ~InScope(sc, call'[t].file)
          BY <1>1, <4>1 DEF ScopeClear
        <4> QED BY <4>2, <4>3 DEF ScopeClear, InScope
      <3>2. CASE sc = scope
        <4>1. \A fd \in Slots : entries'[fd] # None => ~InScope(sc, FileAt(fd)')
          BY <1>12, <3>2
        <4>2. \A t \in Threads : call'[t].at \notin {"idle", "lock"} => ~InScope(sc, call'[t].file)
          BY <1>1, <1>17, <3>2 DEF Busy
        <4> QED BY <4>1, <4>2 DEF ScopeClear, InScope
      <3> QED BY <1>1, <1>10, <2>1, <3>1, <3>2 DEF Shut
    <2> QED BY <1>1, <2>1 DEF FileTableInv, ScopesClear, InScope
  <1>19. OpenCountExact'
    <2> SUFFICES ASSUME NEW f \in Files
                 PROVE  files'[f].count = Cardinality({s \in OpenStates : states'[s].file = f})
                           + Cardinality({t \in Threads :
                                call'[t].file = f /\ call'[t].at \in {"truncate", "install", "close"}})
                           + Cardinality({x \in Slots : drain'.closees[x] = f})
      BY DEF OpenCountExact
    <2> DEFINE S == {s \in OpenStates : states'[s].file = f}
    <2>1. {t \in Threads : call'[t].file = f /\ call'[t].at \in {"truncate", "install", "close"}}
            = CallsOf(call, f)
      BY <1>1 DEF CallsOf, Holds
    <2>2. {x \in Slots : drain'.closees[x] = f} = ClosesOf(new, f)
      BY <1>10 DEF ClosesOf
    <2>3. /\ files[f].count = Cardinality(StatesOf(Table, f))
                 + Cardinality(CallsOf(call, f)) + Cardinality(ClosesOf(drain, f))
          /\ Cardinality(StatesOf(Table, f)) \in Nat /\ Cardinality(CallsOf(call, f)) \in Nat
      BY InvFacts
    <2>4. Cardinality(ClosesOf(drain, f)) = 0
      BY <1>2, FS_EmptySet
    <2>5. Cardinality(S) + Cardinality(ClosesOf(new, f)) = Cardinality(StatesOf(Table, f))
      <3>1. CASE InScope(scope, f)
        <4>1. S = {}
          BY <1>11, <3>1, NoStateFields, Constants
        <4>2. Cardinality(S) = 0
          BY <4>1, FS_EmptySet
        <4> QED BY <1>8, <2>3, <3>1, <4>2
      <3>2. CASE ~InScope(scope, f)
        <4>1. S = StatesOf(Table, f)
          BY <1>3, <1>11, <3>2, NoStateFields, Constants DEF StatesOf
        <4>2. ClosesOf(new, f) = {}
          <5> SUFFICES ASSUME NEW x \in Slots, new.closees[x] = f PROVE FALSE
            BY DEF ClosesOf
          <5>1. x \in fds /\ FileAt(x) = f
            BY <1>4, Constants
          <5> QED BY <1>6, <3>2, <5>1
        <4>3. Cardinality(ClosesOf(new, f)) = 0
          BY <4>2, FS_EmptySet
        <4> HIDE DEF S
        <4> QED BY <2>3, <4>1, <4>3
      <3> QED BY <3>1, <3>2
    <2>6. Cardinality(S) \in Nat /\ Cardinality(ClosesOf(new, f)) \in Nat
      BY FiniteSubsets DEF ClosesOf
    <2>7. files'[f].count = files[f].count
      BY <1>1
    <2> HIDE DEF S
    <2>8. files'[f].count = Cardinality(S) + Cardinality(CallsOf(call, f)) + Cardinality(ClosesOf(new, f))
      BY <2>3, <2>4, <2>5, <2>6, <2>7
    <2> QED BY <2>1, <2>2, <2>8 DEF S
  <1>20. HandleMatchesKind'
    BY <1>1 DEF FileTableInv, HandleMatchesKind
  <1>21. WritableHasAccess'
    <2>1. \A s \in OpenStates : states'[s].writes /\ states'[s].file \in Files
                                   => files'[states'[s].file].kind = "Access"
      BY <1>1, <1>11, WriteFacts, NoStateFields
    <2>2. \A t \in Threads : call'[t].writes /\ call'[t].at \in {"truncate", "install"}
                                   => files'[call'[t].file].kind = "Access"
      BY <1>1, WriteFacts
    <2> QED BY <2>1, <2>2 DEF WritableHasAccess
  <1>22. LocksHaveDescriptor'
    <2> SUFFICES ASSUME NEW f \in locks' \ late'
                 PROVE  \E fd \in Slots : entries'[fd] # None /\ FileAt(fd)' = f
      BY DEF LocksHaveDescriptor
    <2>1. f \in locks \ late /\ f \notin {FileAt(fd) : fd \in fds}
      BY <1>1, <1>4
    <2>2. PICK fd \in Slots : entries[fd] # None /\ FileAt(fd) = f
      BY <2>1 DEF FileTableInv, LocksHaveDescriptor
    <2>3. fd \notin fds
      BY <2>1, <2>2
    <2>4. entries'[fd] # None
      BY <1>11, <2>2, <2>3
    <2> QED BY <1>12, <2>2, <2>4
  <1> QED BY <1>13, <1>14, <1>15, <1>16, <1>18, <1>19, <1>20, <1>21, <1>22 DEF FileTableInv

-----------------------------------------------------------------------------
LEMMA InitInv == Init => FileTableInv
  <1> SUFFICES ASSUME Init PROVE FileTableInv
    OBVIOUS
  <1>1. /\ entries \in [Slots -> OpenStates \cup {None}]
        /\ \A fd, other \in Slots : entries[fd] = entries[other] /\ entries[fd] # None => fd = other
        /\ states = [s \in OpenStates |->
                        IF \E fd \in Slots : entries[fd] = s
                        THEN [file |-> Special, writes |-> FALSE, uses |-> 1] ELSE NoState]
        /\ files = [f \in Files |-> Closed] /\ locks = {} /\ late = {}
        /\ call = [t \in Threads |-> Idle] /\ sealed = {} /\ drained = {} /\ drain = NoDrain
    BY DEF Init
  <1> DEFINE std == [file |-> Special, writes |-> FALSE, uses |-> 1]
  <1>2. std \in States /\ std.file = Special /\ std.writes = FALSE /\ std.uses = 1
    BY DEF States
  <1>3. \A s \in OpenStates : states[s] = IF \E fd \in Slots : entries[fd] = s THEN std ELSE NoState
    BY <1>1
  <1> HIDE DEF std
  <1>4. \A s \in OpenStates : states[s] = std \/ states[s] = NoState
    BY <1>3
  <1>5. \A s \in OpenStates : states[s].file \notin Files
    BY <1>2, <1>4, NoStateFields, Constants
  <1>6. TypeOK
    <2>1. states \in [OpenStates -> States]
      BY <1>1, <1>2, NoStateFields DEF std
    <2>2. files \in [Files -> FileRecords] /\ call \in [Threads -> Calls]
      BY <1>1, IdleFields DEF Closed, FileRecords
    <2>3. drain \in [scope : Scopes \cup {None}, phase : {"none", "sealed", "closing"},
                     closees : [Slots -> Files \cup {None}]]
      BY <1>1 DEF NoDrain
    <2> QED BY <1>1, <2>1, <2>2, <2>3 DEF TypeOK, States, FileRecords, Calls
  <1>7. TableInv(Table)
    <2>1. Table.entries = entries /\ Table.states = states
      BY DEF Table
    <2>2. ASSUME NEW s \in OpenStates PROVE states[s].uses = Cardinality(SlotsOf(Table, s))
      <3>1. CASE \E fd \in Slots : entries[fd] = s
        <4>1. PICK fd \in Slots : entries[fd] = s
          BY <3>1
        <4>2. SlotsOf(Table, s) = {fd}
          BY <1>1, <2>1, <4>1, Constants DEF SlotsOf
        <4>3. Cardinality({fd}) = 1
          BY FS_Singleton
        <4> QED BY <1>2, <1>3, <3>1, <4>2, <4>3
      <3>2. CASE ~ \E fd \in Slots : entries[fd] = s
        <4>1. SlotsOf(Table, s) = {}
          BY <2>1, <3>2 DEF SlotsOf
        <4> QED BY <1>3, <3>2, <4>1, NoStateFields, FS_EmptySet
      <3> QED BY <3>1, <3>2
    <2>3. \A s \in OpenStates : IF states[s].uses = 0 THEN states[s] = NoState ELSE states[s].file # None
      BY <1>2, <1>4, NoStateFields, Constants
    <2> QED BY <2>1, <2>2, <2>3 DEF TableInv, UsesExact, OthersFormed
  <1>8. CallInv
    BY <1>1, IdleFields DEF CallInv
  <1>9. DrainInv
    BY <1>1, NoDrainFields DEF DrainInv
  <1>10. ScopesClear
    BY <1>1, NoDrainFields DEF ScopesClear, Shut
  <1>11. \A f \in Files : files[f] = Closed
    BY <1>1
  <1>12. OpenCountExact
    <2> SUFFICES ASSUME NEW f \in Files
                 PROVE  files[f].count = Cardinality({s \in OpenStates : states[s].file = f})
                           + Cardinality({t \in Threads :
                                call[t].file = f /\ call[t].at \in {"truncate", "install", "close"}})
                           + Cardinality({x \in Slots : drain.closees[x] = f})
      BY DEF OpenCountExact
    <2> DEFINE S == {s \in OpenStates : states[s].file = f}
               T == {t \in Threads : call[t].file = f /\ call[t].at \in {"truncate", "install", "close"}}
               X == {x \in Slots : drain.closees[x] = f}
    <2>1. S = {}
      BY <1>5
    <2>2. T = {}
      BY <1>1, IdleFields
    <2>3. X = {}
      BY <1>1, NoDrainFields, Constants
    <2>4. files[f].count = 0
      BY <1>11 DEF Closed
    <2>5. Cardinality(S) = 0 /\ Cardinality(T) = 0 /\ Cardinality(X) = 0
      BY <2>1, <2>2, <2>3, FS_EmptySet
    <2>6. files[f].count = Cardinality(S) + Cardinality(T) + Cardinality(X)
      <3> HIDE DEF S, T, X
      <3> QED BY <2>4, <2>5
    <2> QED BY <2>6
  <1>13. HandleMatchesKind
    BY <1>11 DEF HandleMatchesKind, Closed
  <1>14. WritableHasAccess
    BY <1>1, <1>5, IdleFields DEF WritableHasAccess
  <1>15. LocksHaveDescriptor
    BY <1>1 DEF LocksHaveDescriptor
  <1> QED BY <1>6, <1>7, <1>8, <1>9, <1>10, <1>12, <1>13, <1>14, <1>15 DEF FileTableInv

LEMMA StutterInv ==
    ASSUME FileTableInv, UNCHANGED vars
    PROVE  FileTableInv'
  <1>1. UNCHANGED <<entries, states, files, locks, late, call, sealed, drained, drain>>
    BY DEF vars
  <1>2. TypeOK' /\ CallInv' /\ DrainInv' /\ HandleMatchesKind' /\ OpenCountExact'
    BY <1>1 DEF FileTableInv, TypeOK, CallInv, DrainInv, HandleMatchesKind, OpenCountExact
  <1>3. TableInv(Table)'
    BY <1>1 DEF FileTableInv, TableInv, Table, UsesExact, OthersFormed, SlotsOf
  <1>4. ScopesClear'
    <2>1. \A sc : (Shut(sc)' <=> Shut(sc)) /\ (ScopeClear(sc)' <=> ScopeClear(sc))
      BY <1>1 DEF Shut, ScopeClear, FileAt, InScope
    <2> QED BY <1>1, <2>1 DEF FileTableInv, ScopesClear, InScope
  <1>5. WritableHasAccess' /\ LocksHaveDescriptor'
    BY <1>1 DEF FileTableInv, WritableHasAccess, LocksHaveDescriptor, FileAt
  <1> QED BY <1>2, <1>3, <1>4, <1>5 DEF FileTableInv

LEMMA NextInv == FileTableInv /\ [Next]_vars => FileTableInv'
  <1> SUFFICES ASSUME FileTableInv, [Next]_vars PROVE FileTableInv'
    OBVIOUS
  <1>1. ASSUME NEW t \in Threads, Syscall(t) PROVE FileTableInv'
    <2>1. CASE \E f \in Files, w, trunc \in BOOLEAN : Open(t, f, w, trunc)
      BY <2>1, OpenStep
    <2>2. ASSUME NEW fd \in Slots, Close(t, fd) PROVE FileTableInv'
      BY <2>2, CloseStep
    <2>3. ASSUME NEW fd \in Slots, FcntlLock(t, fd) PROVE FileTableInv'
      BY <2>3, FcntlLockStep
    <2>4. ASSUME NEW fd \in Slots, NEW other \in Slots, Dup(t, fd, other) PROVE FileTableInv'
      BY <2>4, DupStep
    <2>5. ASSUME NEW fd \in Slots, NEW other \in Slots, Dup3(t, fd, other) PROVE FileTableInv'
      BY <2>5, Dup3Step
    <2>6. CASE Pipe2(t)
      BY <2>6, Pipe2Step
    <2> QED BY <1>1, <2>1, <2>2, <2>3, <2>4, <2>5, <2>6 DEF Syscall
  <1>2. ASSUME NEW t \in Threads, Continue(t) PROVE FileTableInv'
    BY <1>2, CreateStateStep, TruncateStep, InstallStep, CloseFileStep, ApplyRecordLockStep DEF Continue
  <1>3. CASE Drain
    BY <1>3, SealStep, DetachStep, DrainCloseStep, DrainEndStep DEF Drain
  <1>4. CASE UNCHANGED vars
    BY <1>4, StutterInv
  <1> QED BY <1>1, <1>2, <1>3, <1>4 DEF Next

LEMMA InvHolds == Spec => []FileTableInv
  BY InitInv, NextInv, PTL DEF Spec

LEMMA InvParts ==
    FileTableInv => OpenCountExact /\ HandleMatchesKind /\ WritableHasAccess /\ LocksHaveDescriptor
  BY DEF FileTableInv

LEMMA InvDrained == FileTableInv => DrainedIsClosed
  <1> SUFFICES ASSUME FileTableInv, NEW scope \in drained
               PROVE  /\ \A fd \in Slots : entries[fd] # None => ~InScope(scope, FileAt(fd))
                      /\ \A f \in Files : InScope(scope, f) => files[f].count = 0
                      /\ \A t \in Threads : call[t].at \notin {"idle", "lock"}
                                               => ~InScope(scope, call[t].file)
    BY DEF DrainedIsClosed
  <1>1. scope \in Scopes /\ Shut(scope)
    BY InvFacts DEF Shut
  <1> QED BY <1>1 DEF FileTableInv, ScopesClear, ScopeClear

(* The opens of an OPFS file are counted exactly, whatever system calls    *)
(* and drains interleave: openCount of opfs_backend.cpp is the number of   *)
(* open states, unfinished calls and detached files that answer for it.    *)
THEOREM OpensAreCounted == Spec => []OpenCountExact
  BY InvHolds, InvParts, PTL

(* The browser holds the one handle that the file's kind says, and none    *)
(* for a file nobody has open but a rejected close (OPFSFile::open and     *)
(* close).                                                                 *)
THEOREM HandlesAreAccounted == Spec => []HandleMatchesKind
  BY InvHolds, InvParts, PTL

(* A writable descriptor always finds the AccessHandle that                *)
(* OPFSFile::write asserts: no close by another owner takes it away.       *)
THEOREM WritersHaveAccess == Spec => []WritableHasAccess
  BY InvHolds, InvParts, PTL

(* A record lock goes with the descriptors of its file (setEntry), but for *)
(* the fcntl that a close overtook.                                        *)
THEOREM LocksFollowDescriptors == Spec => []LocksHaveDescriptor
  BY InvHolds, InvParts, PTL

(* Nothing of a drained backend is open, or can be opened again, after the *)
(* drain (drainOPFSProfileBackend and the terminal drain).                 *)
THEOREM DrainsCloseEverything == Spec => []DrainedIsClosed
  BY InvHolds, InvDrained, PTL
=============================================================================
