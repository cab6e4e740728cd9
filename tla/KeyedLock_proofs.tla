-------------------------- MODULE KeyedLock_proofs --------------------------
(***************************************************************************)
(* Proofs about KeyedLock for any parties and addresses, whether or not    *)
(* waits are dropped: the type invariant, one live generation, mutual      *)
(* exclusion, and that the registry implements the safety part of          *)
(* OperationLock.                                                          *)
(***************************************************************************)
EXTENDS KeyedLock, SequenceTheorems, TLAPS

Strong == {"asked", "waiting", "holding", "unlocked"}

(* A strong reference is to the generation the registry knows.              *)
ReferencesAreCurrent ==
  \A p \in Party : pc[p] \in Strong => /\ at[p] # NoAddress
                                       /\ at[p] = registry

(* A party that has its guard owns the permit of its generation.            *)
HoldersOwn == \A p \in Party : pc[p] = "holding" => owner[at[p]] = p

(* A guard that is being dropped still keeps its generation apart.          *)
ReleasedHaveAddress == \A p \in Party : pc[p] = "released" => at[p] \in Address

(* The inductive invariant: MutualExclusion is not inductive, it needs to   *)
(* know that all the guards are for one generation and own its permit.      *)
IInv == TypeOK /\ ReferencesAreCurrent /\ HoldersOwn /\ ReleasedHaveAddress

-----------------------------------------------------------------------------
(* What a step needs to know of the parties and of the queues *)

(* Two parties with strong references refer to the same generation.         *)
LEMMA OneReferent ==
  ASSUME IInv, NEW p \in Party, pc[p] \in Strong
  PROVE  /\ at[p] \in Address /\ registry = at[p]
         /\ \A q \in Party : pc[q] \in Strong => at[q] = at[p]
         /\ \A q \in Party : pc[q] = "holding" => owner[at[p]] = q
BY DEF IInv, TypeOK, ReferencesAreCurrent, HoldersOwn, Strong

(* If the entry is missing or dead, nobody has a strong reference.          *)
LEMMA DeadEntry ==
  ASSUME IInv, ~(registry # NoAddress /\ Alive(registry))
  PROVE  \A q \in Party : pc[q] \notin Strong
BY DEF IInv, ReferencesAreCurrent, Alive, Strong

(* Taking an element out of a queue leaves a queue.                         *)
LEMMA WithoutIsQueue ==
  ASSUME NEW q \in Seq(Party), NEW i \in 1..Len(q)
  PROVE  SubSeq(q, 1, i - 1) \o SubSeq(q, i + 1, Len(q)) \in Seq(Party)
<1>1. Len(q) \in Nat /\ \A j \in 1..Len(q) : q[j] \in Party
  BY ElementOfSeq
<1>2. SubSeq(q, 1, i - 1) \in Seq(Party)
  BY <1>1, SubSeqProperties
<1>3. SubSeq(q, i + 1, Len(q)) \in Seq(Party)
  BY <1>1, SubSeqProperties
<1> QED
  BY <1>2, <1>3, ConcatProperties

(* Passing the permit on keeps owners and queues of their types, and        *)
(* touches one generation.                                                  *)
LEMMA PassKeepsTypes ==
  ASSUME IInv, NEW g \in Address, Pass(g, queue[g])
  PROVE  /\ owner' \in [Address -> Party \cup {NoParty}]
         /\ queue' \in [Address -> Seq(Party)]
         /\ \A h \in Address : h # g => owner'[h] = owner[h]
<1>1. /\ queue[g] \in Seq(Party)
      /\ owner \in [Address -> Party \cup {NoParty}]
      /\ queue \in [Address -> Seq(Party)]
  BY DEF IInv, TypeOK
<1>2. CASE queue[g] = <<>>
  BY <1>1, <1>2 DEF Pass
<1>3. CASE queue[g] # <<>>
  <2>1. Head(queue[g]) \in Party /\ Tail(queue[g]) \in Seq(Party)
    BY <1>1, <1>3, HeadTailProperties
  <2>2. /\ owner' = [owner EXCEPT ![g] = Head(queue[g])]
        /\ queue' = [queue EXCEPT ![g] = Tail(queue[g])]
    BY <1>3 DEF Pass
  <2> QED
    BY <1>1, <2>1, <2>2
<1> QED
  BY <1>2, <1>3

-----------------------------------------------------------------------------
(* The invariant is inductive *)

(* The invariant holds initially.                                           *)
LEMMA InitIInv == Init => IInv
<1> SUFFICES ASSUME Init PROVE IInv
  OBVIOUS
<1>1. \A p \in Party : pc[p] = "idle"
  BY DEF Init
<1>2. <<>> \in Seq(Party)
  BY EmptySeq
<1>3. TypeOK
  BY <1>2 DEF Init, TypeOK, Steps
<1> QED
  BY <1>1, <1>3 DEF IInv, ReferencesAreCurrent, HoldersOwn,
                    ReleasedHaveAddress, Strong

(* A call finds the generation that is alive, or makes one when nobody has  *)
(* a reference to the last.                                                 *)
LEMMA LockStep ==
  ASSUME IInv, NEW p \in Party, Lock(p)
  PROVE  IInv'
<1> USE DEF IInv, TypeOK, Steps
<1>1. pc[p] = "idle" /\ pc' = [pc EXCEPT ![p] = "asked"]
  BY DEF Lock
<1>2. CASE /\ registry # NoAddress /\ Alive(registry)
           /\ at' = [at EXCEPT ![p] = registry]
           /\ UNCHANGED <<registry, owner, queue>>
  BY <1>1, <1>2 DEF ReferencesAreCurrent, HoldersOwn, ReleasedHaveAddress,
                    Strong
<1>3. CASE /\ ~(registry # NoAddress /\ Alive(registry))
           /\ \E g \in Address :
                /\ Unreferenced(g)
                /\ at' = [at EXCEPT ![p] = g]
                /\ registry' = g
                /\ owner' = [owner EXCEPT ![g] = NoParty]
                /\ queue' = [queue EXCEPT ![g] = <<>>]
  <2>1. PICK g \in Address :
          /\ at' = [at EXCEPT ![p] = g]
          /\ registry' = g
          /\ owner' = [owner EXCEPT ![g] = NoParty]
          /\ queue' = [queue EXCEPT ![g] = <<>>]
    BY <1>3
  <2>2. \A q \in Party : pc[q] \notin Strong
    BY <1>3, DeadEntry
  <2>3. TypeOK'
    BY <1>1, <2>1, EmptySeq
  <2>4. ReferencesAreCurrent'
    BY <1>1, <2>1, <2>2, KeyedLockConstants DEF ReferencesAreCurrent
  <2>5. HoldersOwn'
    BY <1>1, <2>1, <2>2 DEF HoldersOwn, Strong
  <2>6. ReleasedHaveAddress'
    BY <1>1, <2>1 DEF ReleasedHaveAddress
  <2> QED
    BY <2>3, <2>4, <2>5, <2>6
<1> QED
  BY <1>2, <1>3 DEF Lock

(* A free permit has no holder, so that taking it makes the only one.       *)
LEMMA PollStep ==
  ASSUME IInv, NEW p \in Party, Poll(p)
  PROVE  IInv'
<1> USE DEF IInv, TypeOK, Steps
<1> DEFINE g == at[p]
<1>1. /\ pc[p] = "asked" /\ UNCHANGED <<registry, at>>
      /\ g \in Address
      /\ \A q \in Party : pc[q] = "holding" => owner[g] = q
  BY OneReferent DEF Poll, Strong
<1>2. CASE /\ owner[g] = NoParty
           /\ owner' = [owner EXCEPT ![g] = p]
           /\ pc' = [pc EXCEPT ![p] = "holding"]
           /\ UNCHANGED queue
  <2>1. \A q \in Party : pc[q] # "holding"
    BY <1>1, <1>2, KeyedLockConstants
  <2>2. HoldersOwn'
    BY <1>1, <1>2, <2>1 DEF HoldersOwn
  <2> QED
    BY <1>1, <1>2, <2>2 DEF ReferencesAreCurrent, ReleasedHaveAddress, Strong
<1>3. CASE /\ queue' = [queue EXCEPT ![g] = Append(queue[g], p)]
           /\ pc' = [pc EXCEPT ![p] = "waiting"]
           /\ UNCHANGED owner
  <2>1. Append(queue[g], p) \in Seq(Party)
    BY <1>1, AppendProperties
  <2> QED
    BY <1>1, <1>3, <2>1 DEF ReferencesAreCurrent, HoldersOwn,
                            ReleasedHaveAddress, Strong
<1> QED
  BY <1>2, <1>3 DEF Poll

(* A woken party owns the permit already.                                   *)
LEMMA WakeStep ==
  ASSUME IInv, NEW p \in Party, Wake(p)
  PROVE  IInv'
BY DEF Wake, IInv, TypeOK, Steps, ReferencesAreCurrent, HoldersOwn,
       ReleasedHaveAddress, Strong

(* A party that gives the permit of the generation away, or its place in    *)
(* the queue, leaves the permit of whoever holds it.                        *)
LEMMA AbandonStep ==
  ASSUME IInv, NEW p \in Party, Abandon(p)
  PROVE  IInv'
<1> DEFINE g == at[p]
<1>1. /\ pc[p] \in {"asked", "waiting"}
      /\ pc' = [pc EXCEPT ![p] = "idle"]
      /\ at' = [at EXCEPT ![p] = NoAddress]
      /\ UNCHANGED registry
  BY DEF Abandon
<1>2. /\ g \in Address
      /\ \A q \in Party : pc[q] = "holding" => at[q] = g /\ owner[g] = q
  BY <1>1, OneReferent DEF Strong
<1>3. /\ owner' \in [Address -> Party \cup {NoParty}]
      /\ queue' \in [Address -> Seq(Party)]
      /\ \A q \in Party : pc[q] = "holding" => owner'[g] = q
  <2>1. CASE UNCHANGED <<owner, queue>>
    BY <1>2, <2>1 DEF IInv, TypeOK
  <2>2. CASE pc[p] = "waiting" /\ owner[g] = p /\ Pass(g, queue[g])
    <3>1. \A q \in Party : pc[q] # "holding"
      BY <1>2, <2>2
    <3> QED
      BY <1>2, <2>2, <3>1, PassKeepsTypes
  <2>3. CASE /\ \E i \in 1..Len(queue[g]) :
                  queue' = [queue EXCEPT ![g] =
                              SubSeq(queue[g], 1, i - 1)
                                \o SubSeq(queue[g], i + 1, Len(queue[g]))]
             /\ UNCHANGED owner
    <3>1. queue[g] \in Seq(Party)
      BY <1>2 DEF IInv, TypeOK
    <3>2. queue' \in [Address -> Seq(Party)]
      BY <2>3, <3>1, WithoutIsQueue DEF IInv, TypeOK
    <3> QED
      BY <1>2, <2>3, <3>2 DEF IInv, TypeOK
  <2> QED
    BY <1>1, <2>1, <2>2, <2>3 DEF Abandon
<1>4. TypeOK'
  BY <1>1, <1>3 DEF IInv, TypeOK, Steps
<1>5. ReferencesAreCurrent' /\ ReleasedHaveAddress'
  BY <1>1 DEF IInv, TypeOK, ReferencesAreCurrent, ReleasedHaveAddress, Strong
<1>6. HoldersOwn'
  BY <1>1, <1>2, <1>3 DEF IInv, TypeOK, HoldersOwn
<1> QED
  BY <1>4, <1>5, <1>6 DEF IInv

(* The party that unlocks was the only holder.                              *)
LEMMA UnlockStep ==
  ASSUME IInv, NEW p \in Party, Unlock(p)
  PROVE  IInv'
<1> DEFINE g == at[p]
<1>1. /\ pc[p] = "holding" /\ Pass(g, queue[g])
      /\ pc' = [pc EXCEPT ![p] = "unlocked"]
      /\ UNCHANGED <<registry, at>>
  BY DEF Unlock
<1>2. g \in Address /\ \A q \in Party : pc[q] = "holding" => q = p
  BY <1>1, OneReferent DEF Strong
<1>3. TypeOK'
  BY <1>1, <1>2, PassKeepsTypes DEF IInv, TypeOK, Steps
<1>4. ReferencesAreCurrent' /\ ReleasedHaveAddress' /\ HoldersOwn'
  BY <1>1, <1>2 DEF IInv, TypeOK, ReferencesAreCurrent,
                    ReleasedHaveAddress, HoldersOwn, Strong
<1> QED
  BY <1>3, <1>4 DEF IInv

(* The strong reference of a guard goes, its weak one stays.                *)
LEMMA DropReferenceStep ==
  ASSUME IInv, NEW p \in Party, DropReference(p)
  PROVE  IInv'
<1>1. at[p] \in Address
  BY OneReferent DEF DropReference, Strong
<1> QED
  BY <1>1 DEF DropReference, IInv, TypeOK, Steps, ReferencesAreCurrent,
              HoldersOwn, ReleasedHaveAddress, Strong

(* An entry is removed only if nobody has a strong reference to it.         *)
LEMMA ReclaimStep ==
  ASSUME IInv, NEW p \in Party, Reclaim(p)
  PROVE  IInv'
<1> USE DEF IInv, TypeOK, Steps
<1>1. /\ pc[p] = "released"
      /\ pc' = [pc EXCEPT ![p] = "idle"]
      /\ at' = [at EXCEPT ![p] = NoAddress]
      /\ UNCHANGED <<owner, queue>>
  BY DEF Reclaim
<1>2. CASE registry' = registry
  BY <1>1, <1>2 DEF ReferencesAreCurrent, HoldersOwn, ReleasedHaveAddress,
                    Strong
<1>3. CASE registry' = NoAddress /\ registry = at[p] /\ ~Alive(at[p])
  <2>1. \A q \in Party : pc[q] \notin Strong
    BY <1>3, DeadEntry
  <2> QED
    BY <1>1, <1>3, <2>1 DEF ReferencesAreCurrent, HoldersOwn,
                            ReleasedHaveAddress, Strong
<1> QED
  BY <1>2, <1>3 DEF Reclaim

(* Every step keeps the invariant.                                          *)
LEMMA NextIInv == IInv /\ [Next]_vars => IInv'
<1> SUFFICES ASSUME IInv, [Next]_vars PROVE IInv'
  OBVIOUS
<1>1. ASSUME NEW p \in Party, Lock(p) PROVE IInv'
  BY <1>1, LockStep
<1>2. ASSUME NEW p \in Party, Poll(p) PROVE IInv'
  BY <1>2, PollStep
<1>3. ASSUME NEW p \in Party, Wake(p) PROVE IInv'
  BY <1>3, WakeStep
<1>4. ASSUME NEW p \in Party, Abandon(p) PROVE IInv'
  BY <1>4, AbandonStep
<1>5. ASSUME NEW p \in Party, Unlock(p) PROVE IInv'
  BY <1>5, UnlockStep
<1>6. ASSUME NEW p \in Party, DropReference(p) PROVE IInv'
  BY <1>6, DropReferenceStep
<1>7. ASSUME NEW p \in Party, Reclaim(p) PROVE IInv'
  BY <1>7, ReclaimStep
<1>8. CASE UNCHANGED vars
  BY <1>8 DEF vars, IInv, TypeOK, ReferencesAreCurrent, HoldersOwn,
              ReleasedHaveAddress
<1> QED
  BY <1>1, <1>2, <1>3, <1>4, <1>5, <1>6, <1>7, <1>8 DEF Next

(* The invariant holds in every reachable state.                            *)
LEMMA AlwaysIInv == Spec => []IInv
BY InitIInv, NextIInv, PTL DEF Spec

-----------------------------------------------------------------------------
(* Theorems *)

(* The variables keep their types, for any parties and addresses            *)
(* (the registry of keyed_lock.rs and the guards handed out).               *)
THEOREM TypeCorrect == Spec => []TypeOK
BY AlwaysIInv, PTL DEF IInv

(* Every strong reference is to the generation in the registry: two live    *)
(* generations of a lock never overlap (KeyedAsyncLockGuard::drop and       *)
(* KeyedAsyncLock::lock).                                                   *)
THEOREM GenerationsDoNotOverlap == Spec => []OneGeneration
<1>1. IInv => OneGeneration
  BY DEF IInv, ReferencesAreCurrent, OneGeneration, Alive, Strong
<1> QED
  BY <1>1, AlwaysIInv, PTL

(* At most one party has the guard of the key (KeyedAsyncLock::lock).       *)
THEOREM LockExcludes == Spec => []MutualExclusion
<1>1. IInv => MutualExclusion
  BY OneReferent DEF MutualExclusion, Holding, Strong
<1> QED
  BY <1>1, AlwaysIInv, PTL

(* Dead keys are reclaimed as soon as they are dead (KeyedAsyncLockGuard::  *)
(* drop), whatever the calls that come in between: an entry that no party   *)
(* will remove is left only by a wait that is dropped before its guard.     *)
THEOREM OnlyDroppedWaitsLeakEntries == Spec => OnlyDroppedWaitsLeak
<1>1. ASSUME IInv, Next, ~Leaked, Leaked'
      PROVE  \E p \in Party :
               pc[p] \in {"asked", "waiting"} /\ at'[p] = NoAddress
  <2> USE DEF IInv, TypeOK
  <2> PICK p \in Party : \/ Lock(p) \/ Poll(p) \/ Wake(p) \/ Abandon(p)
                        \/ Unlock(p) \/ DropReference(p) \/ Reclaim(p)
    BY <1>1 DEF Next
  <2>1. ~Lock(p)
    BY <1>1 DEF Lock, Leaked
  <2>2. ~(Poll(p) \/ Wake(p) \/ Unlock(p) \/ DropReference(p))
    BY <1>1 DEF Poll, Wake, Unlock, DropReference, Leaked
  <2>3. CASE Reclaim(p)
    <3>1. at' = [at EXCEPT ![p] = NoAddress] /\ pc[p] = "released"
      BY <2>3 DEF Reclaim
    <3>2. CASE registry = at[p] /\ ~Alive(at[p])
      BY <1>1, <2>3, <3>2 DEF Reclaim, Leaked
    <3>3. CASE registry = at[p] /\ Alive(at[p])
      <4>1. PICK q \in Party : at[q] = registry /\ q # p
        BY <3>1, <3>3 DEF Alive
      <4>2. registry' = registry /\ at'[q] = registry
        BY <1>1, <2>3, <3>1, <3>3, <4>1 DEF Reclaim
      <4> QED BY <1>1, <4>2 DEF Leaked
    <3>4. CASE registry # at[p]
      <4>1. registry' = registry /\ \A q \in Party : q # p => at'[q] = at[q]
        BY <1>1, <2>3, <3>1, <3>4 DEF Reclaim
      <4> QED BY <1>1, <3>4, <4>1 DEF Leaked
    <3> QED BY <3>2, <3>3, <3>4
  <2>4. CASE Abandon(p)
    BY <1>1, <2>4 DEF Abandon
  <2> QED BY <2>1, <2>2, <2>3, <2>4
<1>2. IInv /\ [Next]_vars
        => [~Leaked /\ Leaked' => \E p \in Party :
              pc[p] \in {"asked", "waiting"} /\ at'[p] = NoAddress]_vars
  BY <1>1
<1> QED
  BY <1>2, AlwaysIInv, PTL DEF Spec, OnlyDroppedWaitsLeak

-----------------------------------------------------------------------------
(* The registry implements the abstract lock *)

(* Holder is the party that holds, and depends on Holding only.             *)
LEMMA HolderIsHolding ==
  ASSUME IInv
  PROVE  /\ Holding = {} => Holder = NoParty
         /\ \A p \in Party : pc[p] = "holding" => Holder = p
         /\ \A p \in Party : pc[p] # "holding" => Holder # p
BY OneReferent, KeyedLockConstants DEF Holder, Holding, Strong

(* The holder after a step, from the parties that hold then.                *)
LEMMA HolderAfter ==
  /\ Holding' = Holding => Holder' = Holder
  /\ Holding' = {} => Holder' = NoParty
  /\ \A p \in Party : Holding' = {p} => Holder' = p
<1>1. Holding' = Holding => Holder' = Holder
  BY DEF Holder
<1>2. Holding' = {} => Holder' = NoParty
  BY DEF Holder
<1>3. ASSUME NEW p \in Party, Holding' = {p} PROVE Holder' = p
  <2>1. Holder' = CHOOSE q \in Party : q \in Holding'
    BY <1>3 DEF Holder
  <2>2. \E q \in Party : q \in Holding'
    BY <1>3
  <2>3. Holder' \in Holding'
    BY <2>1, <2>2, Zenon
  <2> QED
    BY <1>3, <2>3
<1> QED
  BY <1>1, <1>2, <1>3

(* The first poll that finds the permit, and the wake-up, acquire.          *)
LEMMA AcquireSimulates ==
  ASSUME IInv, NEW p \in Party, pc[p] \in {"asked", "waiting"},
         owner[at[p]] \in {NoParty, p}, pc' = [pc EXCEPT ![p] = "holding"]
  PROVE  Abstract!Acquire(p)
<1>1. Holding = {}
  BY OneReferent, KeyedLockConstants DEF Holding, Strong
<1>2. p \in Wanting /\ Holder = NoParty
  BY <1>1, HolderIsHolding DEF Wanting
<1>3. Wanting' = Wanting \ {p} /\ Holding' = {p}
  BY <1>1 DEF IInv, TypeOK, Wanting, Holding
<1> QED
  BY <1>2, <1>3, HolderAfter DEF Abstract!Acquire

(* Every step of the registry is a step of the abstract lock, or none.      *)
LEMMA StepSimulates ==
  ASSUME IInv, [Next]_vars
  PROVE  [Abstract!Next]_(Abstract!vars)
<1> USE DEF Abstract!Next, Abstract!vars
<1>1. ASSUME NEW p \in Party, Lock(p) PROVE Abstract!Ask(p)
  <2>1. pc[p] = "idle" /\ pc' = [pc EXCEPT ![p] = "asked"]
    BY <1>1 DEF Lock
  <2>2. p \notin Wanting /\ p \notin Holding /\ Holder # p
    BY <2>1, HolderIsHolding DEF Wanting, Holding
  <2>3. Wanting' = Wanting \cup {p} /\ Holding' = Holding
    BY <2>1, <2>2 DEF IInv, TypeOK, Wanting, Holding
  <2> QED
    BY <2>2, <2>3, HolderAfter DEF Abstract!Ask
<1>2. ASSUME NEW p \in Party, Poll(p)
      PROVE  Abstract!Acquire(p) \/ UNCHANGED Abstract!vars
  <2>1. CASE owner[at[p]] = NoParty
    BY <1>2, <2>1, AcquireSimulates DEF Poll
  <2>2. CASE pc' = [pc EXCEPT ![p] = "waiting"]
    <3>1. p \in Wanting /\ p \notin Holding
      BY <1>2 DEF Poll, Wanting, Holding
    <3>2. Wanting' = Wanting /\ Holding' = Holding
      BY <2>2, <3>1 DEF IInv, TypeOK, Wanting, Holding
    <3> QED
      BY <3>2, HolderAfter
  <2> QED
    BY <1>2, <2>1, <2>2 DEF Poll
<1>3. ASSUME NEW p \in Party, Wake(p) PROVE Abstract!Acquire(p)
  BY <1>3, AcquireSimulates DEF Wake
<1>4. ASSUME NEW p \in Party, Abandon(p) PROVE Abstract!GiveUp(p)
  <2>1. pc[p] \in {"asked", "waiting"} /\ pc' = [pc EXCEPT ![p] = "idle"]
    BY <1>4 DEF Abandon
  <2>2. p \in Wanting /\ p \notin Holding
    BY <2>1 DEF Wanting, Holding
  <2>3. Wanting' = Wanting \ {p} /\ Holding' = Holding
    BY <2>1, <2>2 DEF IInv, TypeOK, Wanting, Holding
  <2> QED
    BY <2>2, <2>3, HolderAfter DEF Abstract!GiveUp
<1>5. ASSUME NEW p \in Party, Unlock(p) PROVE Abstract!Release(p)
  <2>1. pc[p] = "holding" /\ pc' = [pc EXCEPT ![p] = "unlocked"]
    BY <1>5 DEF Unlock
  <2>2. Holder = p /\ Holding = {p} /\ p \notin Wanting
    BY <2>1, HolderIsHolding, OneReferent DEF Holding, Wanting, Strong
  <2>3. Wanting' = Wanting /\ Holding' = {}
    BY <2>1, <2>2 DEF IInv, TypeOK, Wanting, Holding
  <2> QED
    BY <2>2, <2>3, HolderAfter DEF Abstract!Release
<1>6. ASSUME NEW p \in Party, DropReference(p) \/ Reclaim(p)
      PROVE  UNCHANGED Abstract!vars
  <2>1. /\ pc[p] \in {"unlocked", "released"}
        /\ \E s \in {"idle", "released"} : pc' = [pc EXCEPT ![p] = s]
    BY <1>6 DEF DropReference, Reclaim
  <2>2. Wanting' = Wanting /\ Holding' = Holding
    BY <2>1 DEF IInv, TypeOK, Wanting, Holding
  <2> QED
    BY <2>2, HolderAfter
<1>7. CASE UNCHANGED vars
  BY <1>7, HolderAfter DEF vars, Wanting, Holding
<1> QED
  BY <1>1, <1>2, <1>3, <1>4, <1>5, <1>6, <1>7 DEF Next

(* The registry behaves as one lock towards its callers, for any number of  *)
(* them and whatever waits are dropped (KeyedAsyncLock::lock).              *)
THEOREM BehavesAsOneLock == Spec => Abstract!Spec
<1>1. Init => Abstract!Init
  <2>1. SUFFICES ASSUME Init PROVE Abstract!Init
    OBVIOUS
  <2>2. Wanting = {} /\ Holding = {}
    BY <2>1 DEF Init, Wanting, Holding
  <2> QED
    BY <2>2 DEF Abstract!Init, Holder
<1>2. IInv /\ [Next]_vars => [Abstract!Next]_(Abstract!vars)
  BY StepSimulates
<1> QED
  BY <1>1, <1>2, AlwaysIInv, PTL DEF Spec, Abstract!Spec
=============================================================================
