----------------------- MODULE TurnSettlement_proofs -----------------------
(***************************************************************************)
(* Proofs about TurnSettlement for every set of keys, entries, owners and  *)
(* waiters: type correctness, that a settled turn has no registration left *)
(* while no turn ever has two generations at work, that every remembered   *)
(* entry is evicted in its turn, and that a wait that looks a turn up in   *)
(* two maps, one after the other, does not miss it in between.             *)
(***************************************************************************)
EXTENDS TurnSettlement, FiniteSetTheorems, SequenceTheorems, TLAPS

(* Every owner's entry belongs to a key and is the live one of that key.    *)
OwnersAreLive ==
  \A h \in Holder : held[h] # NoEntry =>
    keyOf[held[h]] \in Key /\ active[keyOf[held[h]]] = held[h]

(* The live entry of a key was allocated for that key.                      *)
ActiveIsAllocated ==
  \A k \in Key : active[k] # NoEntry => keyOf[active[k]] = k

(* The counter is exact. *)
CountIsExact == \A e \in Entry : regs[e] = Cardinality(Live(e))

(* Only a settled entry is in the second half of a Drop, and in one only.   *)
DroppersSettle ==
  \A h \in Holder : pc[h] # "idle" =>
    /\ held[h] # NoEntry
    /\ settled[held[h]]
    /\ \A g \in Holder : pc[g] # "idle" /\ held[g] = held[h] => g = h

(* A settled entry was accepted, is allocated, has a zero count, and stays  *)
(* live only while its Drop runs.                                           *)
SettledIsOver ==
  \A e \in Entry : settled[e] =>
    /\ accepted[e] /\ keyOf[e] # NoKey /\ regs[e] = 0
    /\ \A k \in Key : active[k] = e =>
         \E h \in Holder : held[h] = e /\ pc[h] # "idle"

(* A wait in progress is about a key. *)
WaitsHaveKeys == \A w \in Waiter : wpc[w] # "idle" => wkey[w] \in Key

(* The part of the invariant the waiters have no influence on. *)
Registrations == /\ OwnersAreLive /\ ActiveIsAllocated /\ CountIsExact
                 /\ DroppersSettle /\ SettledIsOver

(* The inductive invariant. *)
IInv == TypeOK /\ WaitsHaveKeys /\ Registrations

-----------------------------------------------------------------------------
(* The sets the counter counts *)

(* Live(e) is finite: Cardinality is meaningful and natural.                *)
LEMMA LiveIsFinite ==
  \A e \in Entry : IsFiniteSet(Live(e)) /\ Cardinality(Live(e)) \in Nat
<1>1. \A e \in Entry : Live(e) \in SUBSET Holder
  BY DEF Live
<1>2. \A e \in Entry : IsFiniteSet(Live(e))
  BY <1>1, FS_Subset, SettlementConstants
<1> QED
  BY <1>2, FS_CardinalityType

(* An owner of a live registration is the only one iff the counter is one.  *)
LEMMA LastOwner ==
  ASSUME IInv, NEW h \in Holder, held[h] # NoEntry, pc[h] = "idle"
  PROVE  /\ held[h] \in Entry
         /\ h \in Live(held[h])
         /\ regs[held[h]] \in Nat \ {0}
         /\ regs[held[h]] = 1 => Live(held[h]) = {h}
         /\ ~settled[held[h]]
<1> DEFINE e == held[h]
<1>1. e \in Entry /\ h \in Live(e)
  BY DEF IInv, TypeOK, Live
<1>2. regs[e] = Cardinality(Live(e)) /\ IsFiniteSet(Live(e)) /\ regs[e] \in Nat
  BY <1>1, LiveIsFinite DEF IInv, Registrations, CountIsExact
<1>3. regs[e] # 0
  BY <1>1, <1>2, FS_EmptySet
<1>4. ASSUME regs[e] = 1 PROVE Live(e) = {h}
  <2> DEFINE L == Live(e)
  <2>1. IsFiniteSet(L) /\ Cardinality(L) = 1 /\ h \in L
    BY <1>1, <1>2, <1>4
  <2> HIDE DEF L
  <2>2. \E x : L = {x}
    BY <2>1, FS_Singleton
  <2>3. L = {h}
    BY <2>1, <2>2
  <2> QED
    BY <2>3 DEF L
<1>5. ~settled[e]
  BY <1>1, <1>3 DEF IInv, Registrations, SettledIsOver
<1> QED
  BY <1>1, <1>2, <1>3, <1>4, <1>5

-----------------------------------------------------------------------------
(* Registrations is preserved, operation by operation *)

(* A fresh entry disturbs nothing that exists. *)
LEMMA AllocateStep ==
  ASSUME IInv, NEW h \in Holder, NEW k \in Key, NEW b \in BOOLEAN,
         held[h] = NoEntry, ~Locked(k), active[k] = NoEntry,
         Allocate(h, k, b), pc' = pc
  PROVE  Registrations'
<1> USE SettlementConstants DEF IInv, Registrations, TypeOK
<1>1. PICK e \in Entry :
        /\ keyOf[e] = NoKey
        /\ keyOf' = [keyOf EXCEPT ![e] = k]
        /\ accepted' = [accepted EXCEPT ![e] = b]
        /\ regs' = [regs EXCEPT ![e] = 1]
        /\ active' = [active EXCEPT ![k] = e]
        /\ held' = [held EXCEPT ![h] = e]
        /\ settled' = settled
  BY DEF Allocate
<1>2. /\ \A g \in Holder : held[g] # e
      /\ \A j \in Key : active[j] # e
      /\ ~settled[e]
  BY <1>1, SMTT(30) DEF OwnersAreLive, ActiveIsAllocated, SettledIsOver
<1>3. pc[h] = "idle"
  BY DEF DroppersSettle
<1>4. \A g \in Holder : held[g] # NoEntry => keyOf[held[g]] # k
  BY DEF OwnersAreLive
<1>5. OwnersAreLive'
  BY <1>1, <1>2, <1>4 DEF OwnersAreLive
<1>6. ActiveIsAllocated'
  BY <1>1, <1>2 DEF ActiveIsAllocated
<1>7. CountIsExact'
  <2> SUFFICES ASSUME NEW f \in Entry
               PROVE  regs'[f] = Cardinality(Live(f)')
    BY DEF CountIsExact
  <2>1. CASE f = e
    <3>1. Live(f)' = {h}
      BY <2>1, <1>1, <1>2, <1>3 DEF Live
    <3> QED
      BY <3>1, <2>1, <1>1, FS_Singleton
  <2>2. CASE f # e
    <3>1. Live(f)' = Live(f)
      BY <2>2, <1>1 DEF Live
    <3> QED
      BY <3>1, <2>2, <1>1 DEF CountIsExact
  <2> QED
    BY <2>1, <2>2
<1>8. DroppersSettle'
  BY <1>1, <1>3 DEF DroppersSettle
<1>9. SettledIsOver'
  <2> SUFFICES ASSUME NEW f \in Entry, settled[f]
               PROVE  /\ accepted'[f] /\ keyOf'[f] # NoKey /\ regs'[f] = 0
                      /\ \A j \in Key : active'[j] = f =>
                           \E g \in Holder : held'[g] = f /\ pc'[g] # "idle"
    BY <1>1 DEF SettledIsOver
  <2>1. f # e
    BY <1>2
  <2>2. accepted'[f] /\ keyOf'[f] # NoKey /\ regs'[f] = 0
    BY <2>1, <1>1 DEF SettledIsOver
  <2>3. ASSUME NEW j \in Key, active'[j] = f
        PROVE  \E g \in Holder : held'[g] = f /\ pc'[g] # "idle"
    <3>1. active[j] = f
      BY <2>1, <2>3, <1>1
    <3>2. PICK g \in Holder : held[g] = f /\ pc[g] # "idle"
      BY <3>1 DEF SettledIsOver
    <3> QED
      BY <3>2, <1>1, <1>3
  <2> QED
    BY <2>2, <2>3
<1> QED
  BY <1>5, <1>6, <1>7, <1>8, <1>9

(* Another registration of an entry that is live and not settled.           *)
LEMMA AddStep ==
  ASSUME IInv, NEW h \in Holder, NEW e \in Entry, held[h] = NoEntry,
         keyOf[e] \in Key, active[keyOf[e]] = e, ~settled[e],
         AddRegistration(h, e),
         accepted' = accepted \/ accepted' = [accepted EXCEPT ![e] = TRUE],
         UNCHANGED <<active, keyOf, settled, pc>>
  PROVE  Registrations'
<1> USE SettlementConstants DEF IInv, Registrations, TypeOK
<1>1. /\ regs' = [regs EXCEPT ![e] = @ + 1]
      /\ held' = [held EXCEPT ![h] = e]
  BY DEF AddRegistration
<1>2. pc[h] = "idle"
  BY DEF DroppersSettle
<1>3. OwnersAreLive' /\ ActiveIsAllocated'
  BY <1>1 DEF OwnersAreLive, ActiveIsAllocated
<1>4. CountIsExact'
  <2> SUFFICES ASSUME NEW f \in Entry
               PROVE  regs'[f] = Cardinality(Live(f)')
    BY DEF CountIsExact
  <2>1. CASE f = e
    <3>1. Live(f)' = Live(f) \cup {h} /\ h \notin Live(f)
      BY <2>1, <1>1, <1>2 DEF Live
    <3>2. Cardinality(Live(f)') = Cardinality(Live(f)) + 1
      BY <3>1, FS_AddElement, LiveIsFinite, ZenonT(60)
    <3> QED
      BY <3>2, <2>1, <1>1 DEF CountIsExact
  <2>2. CASE f # e
    <3>1. Live(f)' = Live(f)
      BY <2>2, <1>1 DEF Live
    <3> QED
      BY <3>1, <2>2, <1>1 DEF CountIsExact
  <2> QED
    BY <2>1, <2>2
<1>5. DroppersSettle'
  BY <1>1, <1>2 DEF DroppersSettle
<1>6. SettledIsOver'
  BY <1>1, <1>2 DEF SettledIsOver
<1> QED
  BY <1>3, <1>4, <1>5, <1>6

(* A Drop that leaves other registrations. *)
LEMMA DropSharedStep ==
  ASSUME IInv, NEW h \in Holder, DropShared(h)
  PROVE  Registrations'
<1> USE SettlementConstants DEF IInv, Registrations, TypeOK
<1> DEFINE e == held[h]
<1>1. /\ e \in Entry /\ e # NoEntry /\ pc[h] = "idle" /\ pc' = pc
      /\ active[keyOf[e]] = e /\ keyOf[e] \in Key
      /\ regs[e] # 1
      /\ regs' = [regs EXCEPT ![e] = @ - 1]
      /\ held' = [held EXCEPT ![h] = NoEntry]
      /\ UNCHANGED <<active, keyOf, settled, accepted>>
  BY DEF DropShared, CanDrop, OwnersAreLive, tracker
<1>2. h \in Live(e) /\ regs[e] \in Nat \ {0} /\ ~settled[e]
  BY <1>1, LastOwner
<1>3. OwnersAreLive' /\ ActiveIsAllocated'
  BY <1>1 DEF OwnersAreLive, ActiveIsAllocated
<1>4. CountIsExact'
  <2> SUFFICES ASSUME NEW f \in Entry
               PROVE  regs'[f] = Cardinality(Live(f)')
    BY DEF CountIsExact
  <2>1. CASE f = e
    <3>1. Live(f)' = Live(f) \ {h} /\ h \in Live(f)
      BY <2>1, <1>1, <1>2 DEF Live
    <3>2. Cardinality(Live(f)') = Cardinality(Live(f)) - 1
      BY <3>1, FS_RemoveElement, LiveIsFinite
    <3> QED
      BY <3>2, <2>1, <1>1 DEF CountIsExact
  <2>2. CASE f # e
    <3>1. Live(f)' = Live(f)
      BY <2>2, <1>1 DEF Live
    <3> QED
      BY <3>1, <2>2, <1>1 DEF CountIsExact
  <2> QED
    BY <2>1, <2>2
<1>5. DroppersSettle'
  BY <1>1 DEF DroppersSettle
<1>6. SettledIsOver'
  BY <1>1, <1>2 DEF SettledIsOver
<1> QED
  BY <1>3, <1>4, <1>5, <1>6

(* The last Drop of a turn that was never accepted. *)
LEMMA DropRejectedStep ==
  ASSUME IInv, NEW h \in Holder, DropRejected(h)
  PROVE  Registrations'
<1> USE SettlementConstants DEF IInv, Registrations, TypeOK
<1> DEFINE e == held[h]
           k == keyOf[e]
<1>1. /\ e \in Entry /\ e # NoEntry /\ pc[h] = "idle" /\ pc' = pc
      /\ ~Locked(k) /\ active[k] = e /\ k \in Key
      /\ regs[e] = 1
      /\ regs' = [regs EXCEPT ![e] = 0]
      /\ active' = [active EXCEPT ![k] = NoEntry]
      /\ held' = [held EXCEPT ![h] = NoEntry]
      /\ UNCHANGED <<keyOf, settled, accepted>>
  BY DEF DropRejected, CanDrop, OwnersAreLive
<1>2. Live(e) = {h} /\ ~settled[e]
  BY <1>1, LastOwner
<1>3. \A g \in Holder : held[g] = e => g = h
  BY <1>1, <1>2 DEF Live, Locked
<1>4. \A g \in Holder : g # h /\ held[g] # NoEntry => keyOf[held[g]] # k
  BY <1>1, <1>3 DEF OwnersAreLive
<1>5. OwnersAreLive'
  BY <1>1, <1>4 DEF OwnersAreLive
<1>6. ActiveIsAllocated'
  BY <1>1 DEF ActiveIsAllocated
<1>7. CountIsExact'
  <2> SUFFICES ASSUME NEW f \in Entry
               PROVE  regs'[f] = Cardinality(Live(f)')
    BY DEF CountIsExact
  <2>1. CASE f = e
    <3>1. Live(f)' = {}
      BY <2>1, <1>1, <1>3 DEF Live
    <3> QED
      BY <3>1, <2>1, <1>1, FS_EmptySet
  <2>2. CASE f # e
    <3>1. Live(f)' = Live(f)
      BY <2>2, <1>1 DEF Live
    <3> QED
      BY <3>1, <2>2, <1>1 DEF CountIsExact
  <2> QED
    BY <2>1, <2>2
<1>8. DroppersSettle'
  BY <1>1 DEF DroppersSettle
<1>9. SettledIsOver'
  BY <1>1, <1>2 DEF SettledIsOver
<1> QED
  BY <1>5, <1>6, <1>7, <1>8, <1>9

(* The last Drop of an accepted turn. *)
LEMMA DropSettleStep ==
  ASSUME IInv, NEW h \in Holder, DropSettle(h)
  PROVE  Registrations'
<1> USE SettlementConstants DEF IInv, Registrations, TypeOK
<1> DEFINE e == held[h]
           k == keyOf[e]
<1>1. /\ e \in Entry /\ e # NoEntry /\ pc[h] = "idle"
      /\ ~Locked(k) /\ active[k] = e /\ k \in Key
      /\ regs[e] = 1 /\ accepted[e]
      /\ regs' = [regs EXCEPT ![e] = 0]
      /\ settled' = [settled EXCEPT ![e] = TRUE]
      /\ pc' = [pc EXCEPT ![h] = "push"]
      /\ UNCHANGED <<active, keyOf, accepted, held>>
  BY DEF DropSettle, CanDrop, OwnersAreLive
<1>2. Live(e) = {h} /\ ~settled[e]
  BY <1>1, LastOwner
<1>3. \A g \in Holder : held[g] = e => g = h
  BY <1>1, <1>2 DEF Live, Locked
<1>4. OwnersAreLive' /\ ActiveIsAllocated'
  BY <1>1 DEF OwnersAreLive, ActiveIsAllocated
<1>5. CountIsExact'
  <2> SUFFICES ASSUME NEW f \in Entry
               PROVE  regs'[f] = Cardinality(Live(f)')
    BY DEF CountIsExact
  <2>1. CASE f = e
    <3>1. Live(f)' = {}
      BY <2>1, <1>1, <1>3 DEF Live
    <3> QED
      BY <3>1, <2>1, <1>1, FS_EmptySet
  <2>2. CASE f # e
    <3>1. Live(f)' = Live(f)
      BY <2>2, <1>1 DEF Live
    <3> QED
      BY <3>1, <2>2, <1>1 DEF CountIsExact
  <2> QED
    BY <2>1, <2>2
<1>6. DroppersSettle'
  BY <1>1, <1>3 DEF DroppersSettle
<1>7. SettledIsOver'
  BY <1>1 DEF SettledIsOver
<1> QED
  BY <1>4, <1>5, <1>6, <1>7

(* The steps between the settlement and the end of a Drop. *)
LEMMA DropMiddleStep ==
  ASSUME IInv, NEW h \in Holder,
         DropPush(h) \/ DropEvict(h) \/ DropEvictRemove(h) \/ DropUnlock(h)
  PROVE  Registrations'
<1> USE DEF IInv, Registrations, TypeOK
<1>1. /\ pc[h] # "idle"
      /\ pc' = pc \/ \E s \in {"evict", "evictRemove", "remove"} :
                       pc' = [pc EXCEPT ![h] = s]
      /\ UNCHANGED <<active, entries, held>>
  BY DEF DropPush, DropEvict, DropEvictRemove, DropUnlock, entries, holders
<1>2. \A g \in Holder : pc'[g] = "idle" <=> pc[g] = "idle"
  BY <1>1
<1>3. \A e \in Entry : Live(e)' = Live(e)
  BY <1>1, <1>2 DEF Live
<1>4. OwnersAreLive' /\ ActiveIsAllocated'
  BY <1>1 DEF OwnersAreLive, ActiveIsAllocated, entries
<1>5. CountIsExact'
  BY <1>1, <1>3 DEF CountIsExact, entries
<1>6. DroppersSettle' /\ SettledIsOver'
  BY <1>1, <1>2 DEF DroppersSettle, SettledIsOver, entries
<1> QED
  BY <1>4, <1>5, <1>6

(* The end of a Drop: the only registration of the live entry goes.         *)
LEMMA DropEndStep ==
  ASSUME IInv, NEW h \in Holder, DropEnd(h)
  PROVE  Registrations'
<1> USE SettlementConstants DEF IInv, Registrations, TypeOK
<1> DEFINE e == held[h]
           k == keyOf[e]
<1>1. /\ e \in Entry /\ pc[h] # "idle" /\ settled[e] /\ regs[e] = 0
      /\ active[k] = e /\ k \in Key
      /\ active' = [active EXCEPT ![k] = NoEntry]
      /\ held' = [held EXCEPT ![h] = NoEntry]
      /\ pc' = [pc EXCEPT ![h] = "idle"]
      /\ UNCHANGED entries
  BY DEF DropEnd, DroppersSettle, SettledIsOver, OwnersAreLive
<1>2. Live(e) = {}
  BY <1>1, LiveIsFinite, FS_EmptySet DEF CountIsExact
<1>3. \A g \in Holder : held[g] = e => g = h
  BY <1>1, <1>2 DEF Live, DroppersSettle
<1>4. \A g \in Holder : g # h /\ held[g] # NoEntry => keyOf[held[g]] # k
  BY <1>1, <1>3 DEF OwnersAreLive
<1>5. OwnersAreLive'
  BY <1>1, <1>4 DEF OwnersAreLive, entries
<1>6. ActiveIsAllocated'
  BY <1>1 DEF ActiveIsAllocated, entries
<1>7. CountIsExact'
  <2>1. \A f \in Entry : Live(f)' = Live(f)
    BY <1>1, <1>2 DEF Live
  <2> QED
    BY <2>1, <1>1 DEF CountIsExact, entries
<1>8. DroppersSettle'
  BY <1>1, <1>3 DEF DroppersSettle, entries
<1>9. SettledIsOver'
  <2> SUFFICES ASSUME NEW f \in Entry, settled[f], NEW j \in Key,
                      active'[j] = f
               PROVE  \E g \in Holder : held'[g] = f /\ pc'[g] # "idle"
    BY <1>1 DEF SettledIsOver, entries
  <2>1. active[j] = f /\ j # k
    BY <1>1
  <2>2. PICK g \in Holder : held[g] = f /\ pc[g] # "idle"
    BY <2>1 DEF SettledIsOver
  <2>3. g # h
    BY <2>1, <2>2, <1>1 DEF ActiveIsAllocated
  <2> QED
    BY <2>2, <2>3, <1>1
<1> QED
  BY <1>5, <1>6, <1>7, <1>8, <1>9

(* Steps that touch neither entries nor owners. *)
LEMMA FrameStep ==
  ASSUME IInv, UNCHANGED <<tracker, entries, holders>>
  PROVE  Registrations'
<1>1. UNCHANGED <<active, keyOf, settled, accepted, regs, held, pc>>
  BY DEF tracker, entries, holders
<1>2. \A e \in Entry : Live(e)' = Live(e)
  BY <1>1 DEF Live
<1> QED
  BY <1>1, <1>2 DEF IInv, Registrations, OwnersAreLive, ActiveIsAllocated,
     CountIsExact, DroppersSettle, SettledIsOver

-----------------------------------------------------------------------------
(* Types *)

(* Every step keeps the state well typed and every wait attached to a key.  *)
LEMMA TypeStep ==
  ASSUME IInv, Next
  PROVE  TypeOK' /\ WaitsHaveKeys'
<1> USE SettlementConstants
<1> USE DEF IInv, TypeOK, WaitsHaveKeys, Answers, tracker, entries, holders,
            waiters
<1> DEFINE Typed == /\ active' \in [Key -> Entry \cup {NoEntry}]
                    /\ completed' \in [Key -> Entry \cup {NoEntry}]
                    /\ order' \in Seq(Entry)
                    /\ orderLock' \in Holder \cup {NoHolder}
                    /\ popped' \in Entry \cup {NoEntry}
                    /\ keyOf' \in [Entry -> Key \cup {NoKey}]
                    /\ settled' \in [Entry -> BOOLEAN]
                    /\ accepted' \in [Entry -> BOOLEAN]
                    /\ regs' \in [Entry -> Nat]
                    /\ made' \in [Entry -> Nat]
                    /\ held' \in [Holder -> Entry \cup {NoEntry}]
                    /\ pc' \in [Holder -> {"idle", "push", "evict",
                                           "evictRemove", "remove"}]
                    /\ wpc' \in [Waiter -> {"idle", "missed", "waiting"}]
                    /\ wkey' \in [Waiter -> Key \cup {NoKey}]
                    /\ wentry' \in [Waiter -> Entry \cup {NoEntry}]
                    /\ result' \in [Waiter -> Answers]
                    /\ WaitsHaveKeys'
<1>1. ASSUME NEW h \in Holder, NEW k \in Key, TryRegisterPending(h, k)
      PROVE  Typed
  BY <1>1 DEF TryRegisterPending, Allocate
<1>2. ASSUME NEW h \in Holder, NEW k \in Key, RegisterAccepted(h, k)
      PROVE  Typed
  <2> DEFINE e == active[k]
  <2>0. UNCHANGED <<order, orderLock, popped, pc, waiters>>
    BY <1>2 DEF RegisterAccepted
  <2>1. CASE e = NoEntry
    <3>1. /\ completed' = [completed EXCEPT ![k] = NoEntry]
          /\ Allocate(h, k, TRUE)
      BY <1>2, <2>1 DEF RegisterAccepted
    <3> QED
      BY <2>0, <3>1 DEF Allocate
  <2>2. CASE e # NoEntry
    <3>1. /\ e \in Entry
          /\ AddRegistration(h, e)
          /\ accepted' = [accepted EXCEPT ![e] = TRUE]
          /\ UNCHANGED <<active, completed, keyOf, settled>>
      BY <1>2, <2>2 DEF RegisterAccepted
    <3> HIDE DEF e
    <3> QED
      <4>1. /\ regs' = [regs EXCEPT ![e] = @ + 1]
            /\ made' = [made EXCEPT ![e] = @ + 1]
            /\ held' = [held EXCEPT ![h] = e]
        BY <3>1 DEF AddRegistration
      <4>2. regs' \in [Entry -> Nat] /\ made' \in [Entry -> Nat]
        BY <3>1, <4>1
      <4>3. held' \in [Holder -> Entry \cup {NoEntry}]
        BY <3>1, <4>1
      <4> QED BY <2>0, <3>1, <4>2, <4>3
  <2> QED
    BY <2>1, <2>2
<1>3. ASSUME NEW h \in Holder, NEW g \in Holder, Clone(h, g)
      PROVE  Typed
  BY <1>3, SMTT(30) DEF Clone, AddRegistration
<1>4. ASSUME NEW h \in Holder, Accept(h)
      PROVE  Typed
  BY <1>4 DEF Accept
<1>5. ASSUME NEW h \in Holder, Drop(h)
      PROVE  Typed
  <2>1. CASE DropShared(h)
    <3>1. regs[held[h]] \in Nat \ {0}
      BY <2>1, LastOwner DEF DropShared, CanDrop
    <3>2. regs' \in [Entry -> Nat]
      BY <2>1, <3>1 DEF DropShared, CanDrop
    <3> QED
      BY <2>1, <3>2 DEF DropShared, CanDrop
  <2>2. CASE DropRejected(h)
    BY <2>2 DEF DropRejected, CanDrop
  <2>3. CASE DropSettle(h)
    <3>1. held[h] \in Entry /\ keyOf[held[h]] \in Key
      BY <2>3 DEF DropSettle, CanDrop, Registrations, OwnersAreLive
    <3> QED
      BY <2>3, <3>1 DEF DropSettle
  <2>4. CASE DropPush(h)
    <3>1. held[h] \in Entry
      BY <2>4 DEF DropPush, Registrations, DroppersSettle
    <3> QED
      BY <2>4, <3>1 DEF DropPush
  <2>5. CASE DropEvict(h)
    <3>1. order # <<>>
      BY <2>5 DEF DropEvict
    <3>2. Head(order) \in Entry /\ Tail(order) \in Seq(Entry)
      BY <3>1
    <3> QED
      BY <2>5, <3>2 DEF DropEvict
  <2>6. CASE DropEvictRemove(h)
    BY <2>6 DEF DropEvictRemove
  <2>7. CASE DropUnlock(h)
    BY <2>7 DEF DropUnlock
  <2>8. CASE DropEnd(h)
    BY <2>8 DEF DropEnd
  <2> QED
    BY <1>5, <2>1, <2>2, <2>3, <2>4, <2>5, <2>6, <2>7, <2>8 DEF Drop
<1>6. ASSUME NEW w \in Waiter, NEW k \in Key, WaitCall(w, k)
      PROVE  Typed
  BY <1>6 DEF WaitCall
<1>7. ASSUME NEW w \in Waiter,
             WaitLookup(w) \/ WaitSettled(w) \/ WaitClosed(w) \/ WaitTimeout(w)
      PROVE  Typed
  <2>1. PICK answer \in Answers : Answer(w, answer)
    BY <1>7 DEF WaitLookup, WaitSettled, WaitClosed, WaitTimeout, Answers
  <2>2. /\ result' = [result EXCEPT ![w] = answer]
        /\ wpc' = [wpc EXCEPT ![w] = "idle"]
        /\ UNCHANGED <<tracker, entries, holders, wkey, wentry>>
    BY <2>1 DEF Answer
  <2> QED BY <2>2 DEF Answers
<1>8. Step /\ TrackGeneration
  BY DEF Next
<1>9. Typed
  <2> HIDE DEF Typed
  <2> QED
    BY <1>1, <1>2, <1>3, <1>4, <1>5, <1>6, <1>7, <1>8 DEF Step
<1>10. KnownGen' \in [Key -> Entry \cup {NoEntry}]
  BY <1>9 DEF KnownGen
<1>11. wgen' \in [Waiter -> Entry \cup {NoEntry}]
  <2> SUFFICES ASSUME NEW w \in Waiter
               PROVE  wgen'[w] \in Entry \cup {NoEntry}
    BY <1>8 DEF TrackGeneration
  <2>1. CASE wpc[w] = "idle" /\ wpc'[w] = "idle"
    BY <1>8, <2>1 DEF TrackGeneration
  <2>2. CASE wpc[w] = "idle" /\ wpc'[w] # "idle"
    BY <1>8, <1>9, <1>10, <2>2 DEF TrackGeneration
  <2>3. CASE wpc[w] # "idle"
    BY <1>8, <2>3 DEF TrackGeneration
  <2> QED
    BY <2>1, <2>2, <2>3
<1> QED
  BY <1>9, <1>11

-----------------------------------------------------------------------------
(* The invariant *)

(* The inductive invariant holds initially. *)
LEMMA InitInv == Init => IInv
<1> SUFFICES ASSUME Init PROVE IInv
  OBVIOUS
<1> USE SettlementConstants DEF Init
<1>1. TypeOK /\ WaitsHaveKeys
  BY DEF TypeOK, WaitsHaveKeys, Answers
<1>2. OwnersAreLive /\ ActiveIsAllocated /\ DroppersSettle /\ SettledIsOver
  BY DEF OwnersAreLive, ActiveIsAllocated, DroppersSettle, SettledIsOver
<1>3. CountIsExact
  <2>1. \A e \in Entry : Live(e) = {}
    BY DEF Live
  <2> QED
    BY <2>1, FS_EmptySet DEF CountIsExact
<1> QED
  BY <1>1, <1>2, <1>3 DEF IInv, Registrations

(* Every step preserves the inductive invariant. *)
LEMMA NextInv == IInv /\ [Next]_vars => IInv'
<1> SUFFICES ASSUME IInv, [Next]_vars PROVE IInv'
  OBVIOUS
<1>1. CASE UNCHANGED vars
  <2>1. Registrations'
    BY <1>1, FrameStep DEF vars
  <2>2. TypeOK' /\ WaitsHaveKeys'
    BY <1>1 DEF IInv, TypeOK, WaitsHaveKeys, vars, tracker, entries, holders,
       waiters
  <2> QED
    BY <2>1, <2>2 DEF IInv
<1>2. CASE Next
  <2>1. TypeOK' /\ WaitsHaveKeys'
    BY <1>2, TypeStep
  <2>2. ASSUME NEW h \in Holder, NEW k \in Key, TryRegisterPending(h, k)
        PROVE  Registrations'
    BY <2>2, AllocateStep DEF TryRegisterPending
  <2>3. ASSUME NEW h \in Holder, NEW k \in Key, RegisterAccepted(h, k)
        PROVE  Registrations'
    <3>1. CASE active[k] = NoEntry
      BY <2>3, <3>1, AllocateStep DEF RegisterAccepted
    <3>2. CASE active[k] # NoEntry
      <4> DEFINE e == active[k]
      <4>1. e \in Entry /\ keyOf[e] = k
        BY <3>2 DEF IInv, TypeOK, Registrations, ActiveIsAllocated
      <4>2. ~settled[e]
        BY <4>1, <2>3 DEF IInv, Registrations, SettledIsOver, RegisterAccepted,
           Locked
      <4> QED
        BY <4>1, <4>2, <3>2, <2>3, AddStep DEF RegisterAccepted
    <3> QED
      BY <3>1, <3>2
  <2>4. ASSUME NEW h \in Holder, NEW g \in Holder, Clone(h, g)
        PROVE  Registrations'
    <3> DEFINE e == held[g]
    <3>1. e \in Entry /\ ~settled[e]
      BY <2>4, LastOwner DEF Clone, Live
    <3>2. keyOf[e] \in Key /\ active[keyOf[e]] = e
      BY <2>4 DEF Clone, IInv, Registrations, OwnersAreLive
    <3> QED
      BY <2>4, <3>1, <3>2, AddStep DEF Clone, tracker
  <2>5. ASSUME NEW h \in Holder, Accept(h)
        PROVE  Registrations'
    <3>1. \A e \in Entry : Live(e)' = Live(e)
      BY <2>5 DEF Accept, Live, holders
    <3> QED
      BY <2>5, <3>1 DEF IInv, TypeOK, Registrations, Accept, tracker, holders,
         OwnersAreLive, ActiveIsAllocated, CountIsExact, DroppersSettle,
         SettledIsOver
  <2>6. ASSUME NEW h \in Holder, Drop(h)
        PROVE  Registrations'
    BY <2>6, DropSharedStep, DropRejectedStep, DropSettleStep, DropMiddleStep,
       DropEndStep DEF Drop
  <2>7. ASSUME NEW w \in Waiter, NEW k \in Key, WaitCall(w, k)
        PROVE  Registrations'
    BY <2>7, FrameStep DEF WaitCall
  <2>8. ASSUME NEW w \in Waiter,
               WaitLookup(w) \/ WaitSettled(w) \/ WaitClosed(w)
                 \/ WaitTimeout(w)
        PROVE  Registrations'
    BY <2>8, FrameStep
       DEF WaitLookup, WaitSettled, WaitClosed, WaitTimeout, Answer
  <2>9. Registrations'
    BY <1>2, <2>2, <2>3, <2>4, <2>5, <2>6, <2>7, <2>8 DEF Next, Step
  <2> QED
    BY <2>1, <2>9 DEF IInv
<1> QED
  BY <1>1, <1>2

(* The invariant of the tracker. *)
THEOREM Invariance == Spec => []IInv
  BY InitInv, NextInv, PTL DEF Spec

(* The state is always well typed: in particular no registration counter    *)
(* ever underflows (the debug_assert of Drop).                              *)
THEOREM TypeCorrect == Spec => []TypeOK
<1>1. IInv => TypeOK
  BY DEF IInv
<1> QED
  BY Invariance, <1>1, PTL

(* A turn is published as settled only when it was accepted and every       *)
(* registration of it, clones included, has been dropped.                   *)
THEOREM SettlementIsSafe == Spec => []SettledMeansReleased
<1>1. IInv => SettledMeansReleased
  <2> SUFFICES ASSUME IInv, NEW e \in Entry, settled[e]
               PROVE  accepted[e] /\ Live(e) = {} /\ regs[e] = 0
    BY DEF SettledMeansReleased
  <2>1. accepted[e] /\ regs[e] = 0 /\ Cardinality(Live(e)) = 0
    BY DEF IInv, Registrations, SettledIsOver, CountIsExact
  <2> QED
    BY <2>1, LiveIsFinite, FS_EmptySet
<1> QED
  BY Invariance, <1>1, PTL

(* No turn ever has two generations at work: the ptr_eq test of Drop always *)
(* succeeds, so no Drop is lost.                                            *)
THEOREM GenerationsDoNotOverlap == Spec => []OneLiveGeneration
<1>1. IInv => OneLiveGeneration
  BY DEF IInv, Registrations, OwnersAreLive, OneLiveGeneration
<1> QED
  BY Invariance, <1>1, PTL

-----------------------------------------------------------------------------
(* A remembered entry was allocated for the key it is remembered under.     *)
RememberedIsAllocated ==
  \A k \in Key : completed[k] # NoEntry => keyOf[completed[k]] = k

(* Whoever evicts owns completed_order, and only its loop has an entry in   *)
(* hand.                                                                    *)
EvictionIsExclusive ==
  /\ \A h \in Holder : pc[h] \in {"evict", "evictRemove"} => orderLock = h
  /\ popped # NoEntry => orderLock \in Holder /\ pc[orderLock] = "evictRemove"

(* The inductive invariant behind CompletedIsEvictable.                     *)
Memory == RememberedIsAllocated /\ EvictionIsExclusive /\ CompletedIsEvictable

-----------------------------------------------------------------------------
(* Remembered entries *)

(* Allocation takes a key's entry from nobody.                              *)
LEMMA AllocateMemory ==
  ASSUME IInv, Memory, NEW h \in Holder, NEW k \in Key, NEW b,
         held[h] = NoEntry, Allocate(h, k, b), pc' = pc,
         \/ completed' = completed
         \/ completed' = [completed EXCEPT ![k] = NoEntry],
         UNCHANGED <<order, orderLock, popped>>
  PROVE  Memory'
<1> USE SettlementConstants DEF IInv, TypeOK
<1>1. PICK e \in Entry : /\ keyOf[e] = NoKey
                         /\ keyOf' = [keyOf EXCEPT ![e] = k]
                         /\ held' = [held EXCEPT ![h] = e]
  BY DEF Allocate
<1>2. pc[h] = "idle"
  BY DEF Registrations, DroppersSettle
<1>3. RememberedIsAllocated'
  BY <1>1 DEF Memory, RememberedIsAllocated
<1>4. EvictionIsExclusive'
  BY DEF Memory, EvictionIsExclusive
<1>5. \A f : Queued(f) => Queued(f)'
  BY <1>1, <1>2 DEF Queued
<1> QED BY <1>3, <1>4, <1>5 DEF Memory, CompletedIsEvictable

(* Steps that touch neither map of settled entries nor their eviction.      *)
LEMMA MemoryQuietly ==
  ASSUME IInv, Memory,
         UNCHANGED <<completed, order, orderLock, popped, keyOf, pc>>,
         \A h \in Holder : pc[h] # "idle" => held'[h] = held[h]
  PROVE  Memory'
<1>1. \A f : Queued(f) => Queued(f)'
  BY DEF Queued
<1>2. RememberedIsAllocated' /\ EvictionIsExclusive'
  BY DEF Memory, RememberedIsAllocated, EvictionIsExclusive
<1> QED BY <1>1, <1>2 DEF Memory, CompletedIsEvictable

(* The steps of the last Drop of an accepted turn.                          *)
LEMMA DropMemory ==
  ASSUME IInv, Memory, NEW h \in Holder, Drop(h)
  PROVE  Memory'
<1> USE SettlementConstants DEF IInv, TypeOK
<1>1. CASE DropShared(h) \/ DropRejected(h)
  <2>1. /\ UNCHANGED <<completed, order, orderLock, popped, keyOf, pc>>
        /\ pc[h] = "idle" /\ held' = [held EXCEPT ![h] = NoEntry]
    BY <1>1 DEF DropShared, DropRejected, CanDrop, tracker
  <2> QED BY <2>1, MemoryQuietly
<1>2. CASE DropSettle(h)
  <2> PICK e \in Entry : e = held[h]
    BY <1>2 DEF DropSettle, CanDrop
  <2>1. /\ pc[h] = "idle" /\ pc' = [pc EXCEPT ![h] = "push"]
        /\ completed' = [completed EXCEPT ![keyOf[e]] = e]
        /\ UNCHANGED <<order, orderLock, popped, keyOf, held>>
    BY <1>2 DEF DropSettle, CanDrop
  <2>2. RememberedIsAllocated'
    BY <2>1 DEF Memory, RememberedIsAllocated
  <2>3. EvictionIsExclusive'
    BY <2>1 DEF Memory, EvictionIsExclusive
  <2>4. Queued(e)' /\ \A f : Queued(f) => Queued(f)'
    BY <2>1 DEF Queued
  <2> QED BY <2>1, <2>2, <2>3, <2>4 DEF Memory, CompletedIsEvictable
<1>3. CASE DropPush(h)
  <2> PICK e \in Entry : e = held[h]
    BY <1>3 DEF DropPush, Registrations, DroppersSettle
  <2>1. /\ pc[h] = "push" /\ pc' = [pc EXCEPT ![h] = "evict"]
        /\ orderLock = NoHolder /\ orderLock' = h
        /\ order' = Append(order, e)
        /\ UNCHANGED <<completed, popped, keyOf, held>>
    BY <1>3 DEF DropPush, entries
  <2>2. /\ Len(order) \in Nat /\ Len(order') = Len(order) + 1
        /\ order'[Len(order) + 1] = e
        /\ \A i \in 1..Len(order) : order'[i] = order[i]
    BY <2>1, AppendProperties
  <2>3. Queued(e)' /\ \A f : Queued(f) => Queued(f)'
    <3>1. Len(order) + 1 \in 1..Len(order')
          /\ \A i \in 1..Len(order) : i \in 1..Len(order')
      BY <2>2
    <3>2. \A g \in Holder : pc[g] = "push" => held[g] = e \/ pc'[g] = "push"
      BY <2>1
    <3> QED BY <2>1, <2>2, <3>1, <3>2 DEF Queued
  <2>4. RememberedIsAllocated' /\ EvictionIsExclusive'
    BY <2>1 DEF Memory, RememberedIsAllocated, EvictionIsExclusive
  <2> QED BY <2>1, <2>3, <2>4 DEF Memory, CompletedIsEvictable
<1>4. CASE DropEvict(h)
  <2>1. /\ pc[h] = "evict" /\ Len(order) > Capacity /\ order' = Tail(order)
        /\ UNCHANGED <<completed, orderLock, keyOf, held>>
    BY <1>4 DEF DropEvict, entries
  <2>2. orderLock = h /\ popped = NoEntry
    BY <2>1 DEF Memory, EvictionIsExclusive
  <2>3. /\ order # <<>> /\ Head(order) = order[1] /\ Head(order) \in Entry
        /\ \A i \in 1..Len(order) :
             i = 1 \/ (i - 1 \in 1..Len(order') /\ order'[i - 1] = order[i])
    <3>1. order # <<>> /\ Len(order) \in Nat \ {0}
      BY <2>1
    <3>2. /\ Len(order') = Len(order) - 1 /\ Head(order) = order[1]
          /\ \A i \in 1..Len(order') : order'[i] = order[i + 1]
      BY <2>1, <3>1, HeadTailProperties
    <3>3. ASSUME NEW i \in 1..Len(order), i # 1
          PROVE  i - 1 \in 1..Len(order') /\ order'[i - 1] = order[i]
      <4>1. i - 1 \in 1..Len(order') /\ (i - 1) + 1 = i
        BY <3>1, <3>2, <3>3
      <4> QED BY <3>2, <4>1
    <3> QED BY <3>1, <3>2, <3>3, HeadTailProperties
  <2>4. PICK e \in Entry : e = Head(order)
    BY <2>3
  <2>5. \/ completed[keyOf[e]] = e /\ popped' = e
           /\ pc' = [pc EXCEPT ![h] = "evictRemove"]
        \/ completed[keyOf[e]] # e /\ UNCHANGED <<popped, pc>>
    BY <1>4, <2>4 DEF DropEvict
  <2>6. \A f : Queued(f) => Queued(f)' \/ f = e
    <3>1. \A f : (\E i \in 1..Len(order) : order[i] = f)
            => (\E i \in 1..Len(order') : order'[i] = f) \/ f = e
      BY <2>3, <2>4
    <3>2. \A g \in Holder : pc[g] = "push" => pc'[g] = "push"
      BY <2>1, <2>5
    <3> QED BY <2>1, <3>1, <3>2 DEF Queued
  <2>7. RememberedIsAllocated' /\ EvictionIsExclusive'
    BY <2>1, <2>2, <2>5 DEF Memory, RememberedIsAllocated, EvictionIsExclusive
  <2>8. ASSUME NEW k \in Key, NEW f \in Entry, completed[k] = f
        PROVE  Queued(f)' \/ popped' = f
    <3>1. Queued(f) /\ keyOf[f] = k
      BY <2>2, <2>8, SettlementConstants
         DEF Memory, CompletedIsEvictable, RememberedIsAllocated
    <3>2. CASE f = e
      BY <2>5, <2>8, <3>1, <3>2
    <3>3. CASE f # e
      BY <2>6, <3>1, <3>3
    <3> QED BY <3>2, <3>3
  <2> QED BY <2>1, <2>7, <2>8 DEF Memory, CompletedIsEvictable
<1>5. CASE DropEvictRemove(h)
  <2>1. /\ pc[h] = "evictRemove" /\ pc' = [pc EXCEPT ![h] = "evict"]
        /\ completed' = [completed EXCEPT ![keyOf[popped]] = NoEntry]
        /\ popped' = NoEntry
        /\ UNCHANGED <<order, orderLock, keyOf, held>>
    BY <1>5 DEF DropEvictRemove, entries
  <2>2. \A f : Queued(f) => Queued(f)'
    BY <2>1 DEF Queued
  <2>3. RememberedIsAllocated' /\ EvictionIsExclusive'
    BY <2>1 DEF Memory, RememberedIsAllocated, EvictionIsExclusive
  <2>4. \A k \in Key : completed'[k] # NoEntry =>
          completed'[k] = completed[k] /\ completed[k] # popped
    BY <2>1 DEF Memory, RememberedIsAllocated
  <2> QED BY <2>2, <2>3, <2>4 DEF Memory, CompletedIsEvictable
<1>6. CASE DropUnlock(h) \/ DropEnd(h)
  <2>1. /\ pc[h] \in {"evict", "remove"}
        /\ \/ pc[h] = "evict" /\ orderLock' = NoHolder
           \/ pc[h] = "remove" /\ orderLock' = orderLock
        /\ pc' = [pc EXCEPT ![h] = pc'[h]] /\ pc'[h] \in {"remove", "idle"}
        /\ \A g \in Holder : g # h => held'[g] = held[g]
        /\ UNCHANGED <<completed, order, popped, keyOf>>
    BY <1>6 DEF DropUnlock, DropEnd, entries
  <2>2. \A f : Queued(f) => Queued(f)'
    BY <2>1 DEF Queued
  <2>3. EvictionIsExclusive'
    BY <2>1 DEF Memory, EvictionIsExclusive
  <2>4. RememberedIsAllocated'
    BY <2>1 DEF Memory, RememberedIsAllocated
  <2> QED BY <2>1, <2>2, <2>3, <2>4 DEF Memory, CompletedIsEvictable
<1> QED BY <1>1, <1>2, <1>3, <1>4, <1>5, <1>6 DEF Drop

(* Every step keeps what is remembered evictable.                           *)
LEMMA MemoryStep ==
  ASSUME IInv, Memory, [Next]_vars
  PROVE  Memory'
<1> USE DEF IInv, TypeOK
<1>1. ASSUME NEW h \in Holder, NEW k \in Key,
             TryRegisterPending(h, k) \/ RegisterAccepted(h, k)
      PROVE  Memory'
  <2>1. CASE active[k] = NoEntry
    BY <1>1, <2>1, AllocateMemory DEF TryRegisterPending, RegisterAccepted
  <2>2. CASE active[k] # NoEntry
    <3>1. /\ held[h] = NoEntry /\ AddRegistration(h, active[k])
          /\ UNCHANGED <<completed, order, orderLock, popped, keyOf, pc>>
      BY <1>1, <2>2 DEF TryRegisterPending, RegisterAccepted
    <3>2. pc[h] = "idle"
      BY <3>1 DEF Registrations, DroppersSettle
    <3> QED BY <3>1, <3>2, MemoryQuietly DEF AddRegistration
  <2> QED BY <2>1, <2>2
<1>2. ASSUME NEW h \in Holder, NEW g \in Holder, Clone(h, g)
      PROVE  Memory'
  <2>1. pc[h] = "idle"
    BY <1>2 DEF Clone, Registrations, DroppersSettle
  <2> QED BY <1>2, <2>1, MemoryQuietly DEF Clone, AddRegistration, tracker
<1>3. CASE (\E h \in Holder : Accept(h)) \/ UNCHANGED vars
  BY <1>3, MemoryQuietly DEF Accept, vars, tracker, entries, holders
<1>4. CASE \E w \in Waiter :
             \/ \E k \in Key : WaitCall(w, k)
             \/ WaitLookup(w) \/ WaitSettled(w) \/ WaitClosed(w)
             \/ WaitTimeout(w)
  BY <1>4, MemoryQuietly
     DEF WaitCall, WaitLookup, WaitSettled, WaitClosed, WaitTimeout, Answer,
         tracker, entries, holders
<1> QED BY <1>1, <1>2, <1>3, <1>4, DropMemory DEF Next, Step

(* It holds in every reachable state. *)
LEMMA MemoryIsKept == Spec => [](IInv /\ Memory)
<1>1. Init => Memory
  BY SettlementConstants
     DEF Init, Memory, RememberedIsAllocated, EvictionIsExclusive,
         CompletedIsEvictable
<1> QED BY <1>1, Invariance, MemoryStep, PTL DEF Spec

(* The completed map does not leak (remember_completed): an entry that is   *)
(* remembered is in completed_order, about to be pushed there by its Drop,  *)
(* or in the hands of the one Drop that evicts; the removal by key, after   *)
(* the test on the entry, is of that entry or of a slot already emptied.    *)
THEOREM RememberedEntriesAreEvictable == Spec => []CompletedIsEvictable
<1>1. Memory => CompletedIsEvictable
  BY DEF Memory
<1> QED BY <1>1, MemoryIsKept, PTL

-----------------------------------------------------------------------------
(* Waits that span a settlement *)

(* While one generation is known for all of a call of w, the second lookup  *)
(* finds it among the settled ones, or the call has subscribed to it.       *)
WaitIsTracked(w) ==
  /\ wpc[w] # "idle" /\ wgen[w] # NoEntry =>
       /\ KnownGen[wkey[w]] = wgen[w]
       /\ wpc[w] = "missed" => active[wkey[w]] # wgen[w]
       /\ wpc[w] = "waiting" => wentry[w] = wgen[w]
  /\ result[w] = "Unknown" => wgen[w] = NoEntry

WaitsAreTracked == \A w \in Waiter : WaitIsTracked(w)

(* A key gets a live entry only by allocation.                              *)
LEMMA LiveEntriesAreFresh ==
  ASSUME IInv, [Next]_vars, NEW k \in Key
  PROVE  active'[k] \in {active[k], NoEntry} \/ keyOf[active'[k]] = NoKey
<1> USE DEF IInv, TypeOK
<1>1. ASSUME NEW h \in Holder, NEW j \in Key,
             TryRegisterPending(h, j) \/ RegisterAccepted(h, j)
      PROVE  active'[k] \in {active[k], NoEntry} \/ keyOf[active'[k]] = NoKey
  BY <1>1 DEF TryRegisterPending, RegisterAccepted, Allocate
<1>2. CASE \E h \in Holder : Drop(h)
  BY <1>2
     DEF Drop, DropShared, DropRejected, DropSettle, DropPush, DropEvict,
         DropEvictRemove, DropUnlock, DropEnd, tracker
<1>3. CASE \/ \E h, g \in Holder : Clone(h, g) \/ Accept(h)
           \/ \E w \in Waiter :
                \/ \E j \in Key : WaitCall(w, j)
                \/ WaitLookup(w) \/ WaitSettled(w) \/ WaitClosed(w)
                \/ WaitTimeout(w)
           \/ UNCHANGED vars
  BY <1>3
     DEF Clone, Accept, WaitCall, WaitLookup, WaitSettled, WaitClosed,
         WaitTimeout, Answer, tracker, vars
<1> QED BY <1>1, <1>2, <1>3 DEF Next, Step

(* A step that is not of w leaves its call tracked.                         *)
LEMMA TrackedByOthers ==
  ASSUME IInv, RememberedIsAllocated, NEW w \in Waiter, WaitIsTracked(w),
         Next, wpc'[w] = wpc[w], wkey'[w] = wkey[w],
         wentry'[w] = wentry[w], result'[w] = result[w]
  PROVE  WaitIsTracked(w)'
<1>1. TrackGeneration
  BY DEF Next
<1>2. CASE wpc[w] = "idle"
  BY <1>1, <1>2 DEF TrackGeneration, WaitIsTracked
<1>3. CASE wpc[w] # "idle" /\ wgen'[w] = NoEntry
  BY <1>3 DEF WaitIsTracked
<1>4. CASE wpc[w] # "idle" /\ wgen'[w] # NoEntry
  <2>1. wgen'[w] = wgen[w] /\ KnownGen'[wkey[w]] = wgen[w]
    BY <1>1, <1>4 DEF TrackGeneration
  <2> PICK k \in Key : k = wkey[w]
    BY <1>4 DEF IInv, WaitsHaveKeys
  <2>2. KnownGen[k] = wgen[w]
    BY <1>4, <2>1 DEF WaitIsTracked
  <2>3. active[k] # wgen[w] => active'[k] # wgen[w]
    <3> SUFFICES ASSUME active[k] # wgen[w], active'[k] = wgen[w]
                 PROVE  FALSE
      OBVIOUS
    <3>1. completed[k] = wgen[w] /\ wgen[w] # NoEntry
      BY <1>4, <2>1, <2>2 DEF KnownGen
    <3>2. keyOf[wgen[w]] = NoKey
      BY <3>1, LiveEntriesAreFresh
    <3> QED BY <3>1, <3>2, SettlementConstants DEF RememberedIsAllocated
  <2>4. result[w] # "Unknown"
    BY <1>4, <2>1 DEF WaitIsTracked
  <2> QED BY <1>4, <2>1, <2>3, <2>4 DEF WaitIsTracked
<1> QED BY <1>2, <1>3, <1>4

(* A wait that is answered Unknown was not for one known generation.        *)
LEMMA TrackedByAnswer ==
  ASSUME IInv, NEW w \in Waiter, WaitIsTracked(w), TrackGeneration,
         WaitLookup(w) \/ WaitSettled(w) \/ WaitClosed(w) \/ WaitTimeout(w)
  PROVE  WaitIsTracked(w)'
<1> USE DEF IInv, TypeOK
<1>1. PICK answer \in Answers :
        /\ wpc[w] # "idle" /\ wpc'[w] = "idle" /\ result'[w] = answer
        /\ UNCHANGED <<tracker, entries>>
        /\ Answer(w, answer)
        /\ answer = "Unknown" =>
             \/ wpc[w] = "missed" /\ completed[wkey[w]] = NoEntry
             \/ WaitClosed(w)
  BY DEF WaitLookup, WaitSettled, WaitClosed, WaitTimeout, Answer, Answers
<1> PICK k \in Key : k = wkey[w]
  BY <1>1 DEF WaitsHaveKeys
<1>2. KnownGen' = KnownGen
  BY <1>1 DEF KnownGen, tracker, entries
<1>3. wgen'[w] = IF KnownGen[k] = wgen[w] THEN wgen[w] ELSE NoEntry
  BY <1>1, <1>2 DEF TrackGeneration
<1>4. ASSUME answer = "Unknown", wgen[w] # NoEntry
      PROVE  FALSE
  <2>1. KnownGen[k] = wgen[w]
    BY <1>1, <1>4 DEF WaitIsTracked
  <2>2. CASE wpc[w] = "missed" /\ completed[k] = NoEntry
    BY <1>4, <2>1, <2>2 DEF WaitIsTracked, KnownGen
  <2>3. CASE WaitClosed(w)
    <3>1. wentry[w] = wgen[w] /\ active[k] # wentry[w]
          /\ completed[k] # wentry[w]
      BY <1>4, <2>3 DEF WaitClosed, WaitIsTracked
    <3> QED BY <1>4, <2>1, <3>1 DEF KnownGen
  <2> QED BY <1>1, <1>4, <2>2, <2>3
<1> QED BY <1>1, <1>3, <1>4 DEF WaitIsTracked

(* Every step keeps the waits tracked.                                      *)
LEMMA TrackedStep ==
  ASSUME IInv, Memory, WaitsAreTracked, [Next]_vars
  PROVE  WaitsAreTracked'
<1> SUFFICES ASSUME NEW w \in Waiter
             PROVE  WaitIsTracked(w)'
  BY DEF WaitsAreTracked
<1>0. WaitIsTracked(w) /\ RememberedIsAllocated
  BY DEF WaitsAreTracked, Memory
<1>1. CASE UNCHANGED vars
  BY <1>0, <1>1
     DEF WaitIsTracked, KnownGen, vars, tracker, entries, waiters
<1>2. CASE Next
  <2>1. ASSUME NEW k \in Key, WaitCall(w, k)
        PROVE  WaitIsTracked(w)'
    <3>1. /\ wpc[w] = "idle" /\ wkey'[w] = k /\ wentry'[w] = active[k]
          /\ wpc'[w] = IF active[k] # NoEntry THEN "waiting" ELSE "missed"
          /\ result'[w] = "none" /\ active' = active
      BY <2>1 DEF WaitCall, IInv, TypeOK, tracker
    <3>2. wgen'[w] = KnownGen'[k]
      BY <1>2, <3>1 DEF Next, TrackGeneration
    <3>3. KnownGen'[k] = IF active[k] = NoEntry THEN completed'[k]
                         ELSE IF accepted'[active[k]] THEN active[k]
                              ELSE NoEntry
      BY <3>1 DEF KnownGen
    <3> QED BY <3>1, <3>2, <3>3 DEF WaitIsTracked
  <2>2. CASE WaitLookup(w) \/ WaitSettled(w) \/ WaitClosed(w) \/ WaitTimeout(w)
    BY <1>0, <1>2, <2>2, TrackedByAnswer DEF Next
  <2>3. ASSUME ~ \E k \in Key : WaitCall(w, k),
               ~(WaitLookup(w) \/ WaitSettled(w) \/ WaitClosed(w)
                   \/ WaitTimeout(w))
        PROVE  WaitIsTracked(w)'
    <3>1. /\ wpc'[w] = wpc[w] /\ wkey'[w] = wkey[w]
          /\ wentry'[w] = wentry[w] /\ result'[w] = result[w]
      <4>1. CASE \E u \in Waiter :
                   \/ \E k \in Key : WaitCall(u, k)
                   \/ WaitLookup(u) \/ WaitSettled(u) \/ WaitClosed(u)
                   \/ WaitTimeout(u)
        <5> PICK u \in Waiter :
              \/ \E k \in Key : WaitCall(u, k)
              \/ WaitLookup(u) \/ WaitSettled(u) \/ WaitClosed(u)
              \/ WaitTimeout(u)
          BY <4>1
        <5>1. u # w
          BY <2>3
        <5> QED
          BY <5>1
             DEF WaitCall, WaitLookup, WaitSettled, WaitClosed, WaitTimeout,
                 Answer, IInv, TypeOK
      <4>2. CASE \/ \E h \in Holder, k \in Key :
                      TryRegisterPending(h, k) \/ RegisterAccepted(h, k)
                 \/ \E h, g \in Holder : Clone(h, g) \/ Accept(h)
                 \/ \E h \in Holder : Drop(h)
        BY <4>2
           DEF TryRegisterPending, RegisterAccepted, Clone, Accept, Drop,
               DropShared, DropRejected, DropSettle, DropPush, DropEvict,
               DropEvictRemove, DropUnlock, DropEnd, waiters
      <4> QED BY <1>2, <4>1, <4>2 DEF Next, Step
    <3> QED BY <1>0, <1>2, <3>1, TrackedByOthers
  <2> QED BY <2>1, <2>2, <2>3
<1> QED BY <1>1, <1>2

(* wait answers Unknown only of a turn that was not known by one accepted   *)
(* generation for all of the call (wait, the lookups in active and          *)
(* completed): the entry is remembered before it leaves `active', so a      *)
(* settlement between the two lookups is not missed, and an eviction or a   *)
(* new generation in between is what makes the answer true.                 *)
THEOREM UnknownAnswersAreTrue == Spec => []UnknownIsJustified
<1>1. Init => WaitsAreTracked
  BY DEF Init, WaitsAreTracked, WaitIsTracked
<1>2. WaitsAreTracked => UnknownIsJustified
  BY DEF WaitsAreTracked, WaitIsTracked, UnknownIsJustified
<1> QED BY <1>1, <1>2, MemoryIsKept, TrackedStep, PTL DEF Spec
===============================================================================
