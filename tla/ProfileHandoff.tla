--------------------------- MODULE ProfileHandoff ---------------------------
(***************************************************************************)
(* What a leased OPFS profile promises to the documents that compete for   *)
(* it: one owner at a time, no use of the storage by a thread that was not *)
(* admitted while the profile was open, and no claim on the storage        *)
(* (a live handle, unflushed or unwritten bytes) that outlives the lock.   *)
(* A drain either hands the profile off or retains it for good.            *)
(***************************************************************************)
CONSTANT Threads

VARIABLES owner,      \* who holds the profile's lock
          phase,      \* how far this document is with the profile
          admitted,   \* threads that may use the storage
          claims      \* something of ours still depends on the storage

vars == <<owner, phase, admitted, claims>>

Init ==
    /\ owner = "Free"
    /\ phase = "Unclaimed"
    /\ admitted = {}
    /\ claims = FALSE

Claim ==
    /\ phase = "Unclaimed" /\ owner = "Free"
    /\ owner' = "Self"
    /\ phase' = "Open"
    /\ UNCHANGED <<admitted, claims>>

Admit(t) ==
    /\ phase = "Open"
    /\ admitted' = admitted \cup {t}
    /\ UNCHANGED <<owner, phase, claims>>

Leave(t) ==
    /\ t \in admitted
    /\ admitted' = admitted \ {t}
    /\ UNCHANGED <<owner, phase, claims>>

(* Reading, writing, flushing and closing, while the lock is ours. *)
Use ==
    /\ phase \in {"Open", "Sealed"} /\ owner = "Self"
    /\ claims' \in BOOLEAN
    /\ UNCHANGED <<owner, phase, admitted>>

(* From here on nobody new is admitted. *)
Seal ==
    /\ phase = "Open"
    /\ phase' = "Sealed"
    /\ UNCHANGED <<owner, admitted, claims>>

(* The lock is given up only when nothing depends on it any more. *)
GiveUp ==
    /\ phase = "Sealed" /\ owner = "Self"
    /\ admitted = {} /\ ~claims
    /\ owner' = "Free"
    /\ UNCHANGED <<phase, admitted, claims>>

(* Only a lock that was given up is reported as handed off. *)
HandOff ==
    /\ phase = "Sealed" /\ owner # "Self"
    /\ phase' = "HandedOff"
    /\ UNCHANGED <<owner, admitted, claims>>

Retain ==
    /\ phase = "Sealed" /\ admitted = {}
    /\ phase' = "Retained"
    /\ UNCHANGED <<owner, admitted, claims>>

Rival ==
    /\ \/ owner = "Free" /\ owner' = "Rival"
       \/ owner = "Rival" /\ owner' = "Free"
    /\ UNCHANGED <<phase, admitted, claims>>

Next ==
    \/ Claim \/ Use \/ Seal \/ GiveUp \/ HandOff \/ Retain \/ Rival
    \/ \E t \in Threads : Admit(t) \/ Leave(t)

Spec == Init /\ [][Next]_vars
=============================================================================
