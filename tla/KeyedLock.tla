------------------------------ MODULE KeyedLock ------------------------------
(***************************************************************************)
(* One key of the keyed lock registry (agentic/keyed_lock.rs).  The lock   *)
(* of a key is allocated when it is first asked for; the registry keeps a  *)
(* weak reference to it, the parties that use it strong ones, and it dies  *)
(* with the last of them.  A later generation of the lock may be allocated *)
(* at the address of an earlier one that nothing refers to any more.       *)
(*                                                                         *)
(* Each section under the registry's own mutex is one action.              *)
(***************************************************************************)
EXTENDS Naturals, Sequences, FiniteSets

CONSTANTS
  Party,              \* tasks that lock the key
  NoParty,
  Address,            \* where a generation of the lock may be allocated
  NoAddress,
  Impatient           \* parties whose future may be dropped while it waits

ASSUME KeyedLockConstants ==
  /\ NoParty \notin Party
  /\ NoAddress \notin Address
  /\ Impatient \subseteq Party

VARIABLES
  registry,  \* address of the weak reference the registry has for the key
  pc,        \* pc[p]: how far party p has got
  at,        \* at[p]: generation that p refers to
  owner,     \* owner[g]: party the permit of the tokio mutex was given to
  queue      \* queue[g]: parties that wait for the permit, first come first

vars == <<registry, pc, at, owner, queue>>

Steps == {"idle", "asked", "waiting", "holding", "unlocked", "released"}

(* Type of the state. *)
TypeOK ==
  /\ registry \in Address \cup {NoAddress}
  /\ pc \in [Party -> Steps]
  /\ at \in [Party -> Address \cup {NoAddress}]
  /\ owner \in [Address -> Party \cup {NoParty}]
  /\ queue \in [Address -> Seq(Party)]

Init ==
  /\ registry = NoAddress
  /\ pc = [p \in Party |-> "idle"]
  /\ at = [p \in Party |-> NoAddress]
  /\ owner = [g \in Address |-> NoParty]
  /\ queue = [g \in Address |-> <<>>]

-----------------------------------------------------------------------------
(* Mutant: a lock that only waiters refer to counts as dead. *)
AliveIfHeld(g) == \E p \in Party : at[p] = g /\ pc[p] = "holding"

(* Weak::upgrade succeeds: some party has a strong reference to g.          *)
Alive(g) ==
  \E p \in Party : at[p] = g /\ pc[p] \in {"asked", "waiting", "holding",
                                           "unlocked"}

(* The memory of a generation is not reused while a reference to it, weak   *)
(* or strong, is left.                                                      *)
Unreferenced(g) == registry # g /\ \A p \in Party : at[p] # g

(* Mutant: the weak entry is never tried, every call allocates. *)
LockAfresh(p) ==
  /\ pc[p] = "idle"
  /\ \E g \in Address :
       /\ Unreferenced(g)
       /\ at' = [at EXCEPT ![p] = g]
       /\ registry' = g
       /\ owner' = [owner EXCEPT ![g] = NoParty]
       /\ queue' = [queue EXCEPT ![g] = <<>>]
  /\ pc' = [pc EXCEPT ![p] = "asked"]

(* KeyedAsyncLock::lock up to the await: the current generation, or a new   *)
(* one if there is none or it is dead.                                      *)
Lock(p) ==
  /\ pc[p] = "idle"
  /\ \/ /\ registry # NoAddress /\ Alive(registry)
        /\ at' = [at EXCEPT ![p] = registry]
        /\ UNCHANGED <<registry, owner, queue>>
     \/ /\ ~(registry # NoAddress /\ Alive(registry))
        /\ \E g \in Address :
             /\ Unreferenced(g)
             /\ at' = [at EXCEPT ![p] = g]
             /\ registry' = g
             /\ owner' = [owner EXCEPT ![g] = NoParty]
             /\ queue' = [queue EXCEPT ![g] = <<>>]
  /\ pc' = [pc EXCEPT ![p] = "asked"]

(* Mutant: the lock is tried again and again without queueing for it. *)
PollOnce(p) ==
  /\ pc[p] = "asked" /\ owner[at[p]] = NoParty
  /\ owner' = [owner EXCEPT ![at[p]] = p]
  /\ pc' = [pc EXCEPT ![p] = "holding"]
  /\ UNCHANGED <<registry, at, queue>>

(* The first poll of lock_owned: the permit, or a place in the queue.       *)
Poll(p) ==
  LET g == at[p] IN
  /\ pc[p] = "asked"
  /\ IF owner[g] = NoParty
     THEN /\ owner' = [owner EXCEPT ![g] = p]
          /\ pc' = [pc EXCEPT ![p] = "holding"]
          /\ UNCHANGED queue
     ELSE /\ queue' = [queue EXCEPT ![g] = Append(@, p)]
          /\ pc' = [pc EXCEPT ![p] = "waiting"]
          /\ UNCHANGED owner
  /\ UNCHANGED <<registry, at>>

(* A waiting party that was given the permit is woken up.                   *)
Wake(p) ==
  /\ pc[p] = "waiting" /\ owner[at[p]] = p
  /\ pc' = [pc EXCEPT ![p] = "holding"]
  /\ UNCHANGED <<registry, at, owner, queue>>

(* The permit of g goes to the first of the queue q.                        *)
Pass(g, q) ==
  IF q = <<>>
  THEN /\ owner' = [owner EXCEPT ![g] = NoParty]
       /\ queue' = [queue EXCEPT ![g] = <<>>]
  ELSE /\ owner' = [owner EXCEPT ![g] = Head(q)]
       /\ queue' = [queue EXCEPT ![g] = Tail(q)]

(* The future is dropped: the permit it was given, or its place in the      *)
(* queue if it has one yet (the executor may put the first poll off), and   *)
(* its strong reference go.  There is no guard yet, so the registry is not  *)
(* looked at.                                                               *)
Abandon(p) ==
  LET g == at[p]
      Without(i) == SubSeq(queue[g], 1, i - 1)
                      \o SubSeq(queue[g], i + 1, Len(queue[g]))
  IN
  /\ p \in Impatient
  /\ \/ pc[p] = "asked" /\ UNCHANGED <<owner, queue>>
     \/ pc[p] = "waiting" /\ owner[g] = p /\ Pass(g, queue[g])
     \/ /\ pc[p] = "waiting"
        /\ \E i \in 1..Len(queue[g]) :
             /\ queue[g][i] = p
             /\ queue' = [queue EXCEPT ![g] = Without(i)]
        /\ UNCHANGED owner
  /\ pc' = [pc EXCEPT ![p] = "idle"]
  /\ at' = [at EXCEPT ![p] = NoAddress]
  /\ UNCHANGED registry

(* KeyedAsyncLockGuard::drop drops the tokio guard first: it gives up the   *)
(* permit, then its strong reference.                                       *)
Unlock(p) ==
  /\ pc[p] = "holding"
  /\ Pass(at[p], queue[at[p]])
  /\ pc' = [pc EXCEPT ![p] = "unlocked"]
  /\ UNCHANGED <<registry, at>>

DropReference(p) ==
  /\ pc[p] = "unlocked"
  /\ pc' = [pc EXCEPT ![p] = "released"]
  /\ UNCHANGED <<registry, at, owner, queue>>

(* Mutant: the entry is removed without trying to upgrade it. *)
ReclaimUnchecked(p) ==
  /\ pc[p] = "released"
  /\ registry' = IF registry = at[p] THEN NoAddress ELSE registry
  /\ pc' = [pc EXCEPT ![p] = "idle"]
  /\ at' = [at EXCEPT ![p] = NoAddress]
  /\ UNCHANGED <<owner, queue>>

(* Mutant: the tokio guard is dropped after the registry was looked at, so  *)
(* that the entry always looks alive.                                       *)
ReclaimNothing(p) ==
  /\ pc[p] = "released"
  /\ pc' = [pc EXCEPT ![p] = "idle"]
  /\ at' = [at EXCEPT ![p] = NoAddress]
  /\ UNCHANGED <<registry, owner, queue>>

(* The rest of the drop: the entry of this generation goes if it is dead.   *)
Reclaim(p) ==
  /\ pc[p] = "released"
  /\ registry' = IF registry = at[p] /\ ~Alive(at[p]) THEN NoAddress
                                                      ELSE registry
  /\ pc' = [pc EXCEPT ![p] = "idle"]
  /\ at' = [at EXCEPT ![p] = NoAddress]
  /\ UNCHANGED <<owner, queue>>

-----------------------------------------------------------------------------
Next ==
  \E p \in Party :
    \/ Lock(p) \/ Poll(p) \/ Wake(p) \/ Abandon(p)
    \/ Unlock(p) \/ DropReference(p) \/ Reclaim(p)

Spec == Init /\ [][Next]_vars

(* A task that awaits the lock is polled, and polled again when it was      *)
(* woken.  That a holder releases is not assumed.                           *)
FairSpec == Spec /\ \A p \in Party : WF_vars(Poll(p)) /\ WF_vars(Wake(p))

-----------------------------------------------------------------------------
(* Properties *)

Wanting == {p \in Party : pc[p] \in {"asked", "waiting"}}
Holding == {p \in Party : pc[p] = "holding"}

(* One party at a time, across the generations of the lock: the operations  *)
(* of a session are serialized although its lock comes and goes.            *)
MutualExclusion == \A p, q \in Holding : p = q

(* "two live generations cannot overlap" (keyed_lock.rs:18): every strong   *)
(* reference is to the generation the registry knows.                       *)
OneGeneration == \A g \in Address : Alive(g) => g = registry

(* The registry has an entry that no party will remove. *)
Leaked == registry # NoAddress /\ \A p \in Party : at[p] # registry

(* "dead keys are reclaimed" (keyed_lock.rs:36) as soon as they are dead,   *)
(* unless the last reference is that of a wait that is dropped: only then   *)
(* is an entry left to the next call for the key.                           *)
OnlyDroppedWaitsLeak ==
  [][~Leaked /\ Leaked' => \E p \in Party :
        pc[p] \in {"asked", "waiting"} /\ at'[p] = NoAddress]_vars

(* The abstract lock.  A party that was given the permit but not yet woken  *)
(* is still waiting.                                                        *)
Holder == IF Holding = {} THEN NoParty ELSE CHOOSE p \in Party : p \in Holding

Abstract == INSTANCE OperationLock
  WITH wanting <- Wanting, holder <- Holder, Patient <- Party \ Impatient

(* Every caller sees one lock, whatever generations come and go and         *)
(* whatever waits are dropped; and who does not give up is not passed over  *)
(* for ever, with only the fairness of the executor (KeyedAsyncLock::lock): *)
(* the strong fairness that DialogScheduler assumes of its operation lock.  *)
ImplementsOperationLock == Abstract!FairSpec
=============================================================================
