---------------------------- MODULE OperationLock ----------------------------
(***************************************************************************)
(* What the callers of agentic/keyed_lock.rs rely on for one key: one      *)
(* party holds the lock at a time, and a party that keeps asking for a     *)
(* lock that keeps being released gets it.  It is the operation lock of    *)
(* DialogScheduler, whose outcome handler needs that strong fairness;      *)
(* KeyedLock implements it.                                                *)
(***************************************************************************)
CONSTANTS
  Party, NoParty,
  Patient           \* parties that are served if they keep waiting

VARIABLES
  wanting,  \* parties that asked for the lock and still wait
  holder    \* the party that holds it, or NoParty

vars == <<wanting, holder>>

Init == wanting = {} /\ holder = NoParty

Ask(p) ==
  /\ p \notin wanting /\ holder # p
  /\ wanting' = wanting \cup {p}
  /\ UNCHANGED holder

Acquire(p) ==
  /\ p \in wanting /\ holder = NoParty
  /\ wanting' = wanting \ {p}
  /\ holder' = p

(* The future that waits for the lock is dropped.                           *)
GiveUp(p) ==
  /\ p \in wanting
  /\ wanting' = wanting \ {p}
  /\ UNCHANGED holder

Release(p) ==
  /\ holder = p
  /\ holder' = NoParty
  /\ UNCHANGED wanting

Next == \E p \in Party : Ask(p) \/ Acquire(p) \/ GiveUp(p) \/ Release(p)

Spec == Init /\ [][Next]_vars

FairSpec == Spec /\ \A p \in Patient : SF_vars(Acquire(p))
=============================================================================
