--------------------------- MODULE TurnSettlement ---------------------------
(***************************************************************************)
(* The turn settlement tracker of the dialog coordinator                   *)
(* (agentic/coordination/turn_settlement.rs).                              *)
(*                                                                         *)
(* A turn is settled when everything that works for it has dropped its     *)
(* registration.  Registrations are reference counted on an entry, one     *)
(* entry per generation of a turn; the last drop publishes `settled' to    *)
(* the waiters, moves the entry from the `active' map to the bounded       *)
(* `completed' map and forgets the oldest completed entries.  Waiters look *)
(* a turn up in the two maps in two separate steps.                        *)
(*                                                                         *)
(* The two maps are concurrent maps without a common lock: an operation    *)
(* that keeps an `active' map slot locked is the only atomicity the code   *)
(* has, so dropping, evicting and waiting are several steps each.          *)
(***************************************************************************)
EXTENDS Naturals, Sequences, FiniteSets

CONSTANTS
  Key,               \* the (session, turn) pairs turns are known by
  Entry,             \* allocations of TurnSettlementEntry (generations)
  Holder,            \* owners of a TurnSettlementRegistration
  Waiter,            \* callers of wait
  NoEntry, NoKey, NoHolder,
  Capacity,          \* COMPLETED_TURN_CAPACITY
  MaxRegistrations   \* bound: registrations made on one entry

ASSUME SettlementConstants ==
  /\ NoEntry \notin Entry
  /\ NoKey \notin Key
  /\ NoHolder \notin Holder
  /\ IsFiniteSet(Holder)
  /\ Capacity \in Nat \ {0}
  /\ MaxRegistrations \in Nat \ {0}

VARIABLES
  active,      \* active[k]: the live entry of turn k, or NoEntry
  completed,   \* completed[k]: the remembered settled entry of k, or NoEntry
  order,       \* completed_order: settled entries, oldest first
  orderLock,   \* the holder that owns the completed_order mutex
  popped,      \* entry popped by that holder and found to be still completed
  keyOf,       \* keyOf[e]: the key e was allocated for, NoKey before that
  settled,     \* settled[e]: the value of e's watch channel
  accepted,    \* accepted[e]
  regs,        \* regs[e]: the registrations counter
  made,        \* made[e]: registrations ever made on e (for the bound)
  held,        \* held[h]: the entry h's registration refers to
  pc,          \* pc[h]: where h is in Drop, "idle" outside
  wpc, wkey, wentry, \* progress, argument and subscription of each wait
  result,      \* result[w]: the last answer w got
  wgen         \* history: the generation w's key has had for all of its call

tracker == <<active, completed, order, orderLock, popped>>
entries == <<keyOf, settled, accepted, regs, made>>
holders == <<held, pc>>
waiters == <<wpc, wkey, wentry, result>>
vars == <<tracker, entries, holders, waiters, wgen>>

Answers == {"none", "Settled", "TimedOut", "Unknown"}

(* Type of the state. *)
TypeOK ==
  /\ active \in [Key -> Entry \cup {NoEntry}]
  /\ completed \in [Key -> Entry \cup {NoEntry}]
  /\ order \in Seq(Entry)
  /\ orderLock \in Holder \cup {NoHolder}
  /\ popped \in Entry \cup {NoEntry}
  /\ keyOf \in [Entry -> Key \cup {NoKey}]
  /\ settled \in [Entry -> BOOLEAN]
  /\ accepted \in [Entry -> BOOLEAN]
  /\ regs \in [Entry -> Nat]
  /\ made \in [Entry -> Nat]
  /\ held \in [Holder -> Entry \cup {NoEntry}]
  /\ pc \in [Holder -> {"idle", "push", "evict", "evictRemove", "remove"}]
  /\ wpc \in [Waiter -> {"idle", "missed", "waiting"}]
  /\ wkey \in [Waiter -> Key \cup {NoKey}]
  /\ wentry \in [Waiter -> Entry \cup {NoEntry}]
  /\ result \in [Waiter -> Answers]
  /\ wgen \in [Waiter -> Entry \cup {NoEntry}]

Init ==
  /\ active = [k \in Key |-> NoEntry]
  /\ completed = [k \in Key |-> NoEntry]
  /\ order = <<>>
  /\ orderLock = NoHolder
  /\ popped = NoEntry
  /\ keyOf = [e \in Entry |-> NoKey]
  /\ settled = [e \in Entry |-> FALSE]
  /\ accepted = [e \in Entry |-> FALSE]
  /\ regs = [e \in Entry |-> 0]
  /\ made = [e \in Entry |-> 0]
  /\ held = [h \in Holder |-> NoEntry]
  /\ pc = [h \in Holder |-> "idle"]
  /\ wpc = [w \in Waiter |-> "idle"]
  /\ wkey = [w \in Waiter |-> NoKey]
  /\ wentry = [w \in Waiter |-> NoEntry]
  /\ result = [w \in Waiter |-> "none"]
  /\ wgen = [w \in Waiter |-> NoEntry]

-----------------------------------------------------------------------------
(* Helpers *)

(* A Drop in progress keeps its slot of `active' locked.                    *)
Locked(k) == \E h \in Holder : pc[h] # "idle" /\ keyOf[held[h]] = k

(* Registrations that may still be used: the owner is not dropping them.    *)
Live(e) == {h \in Holder : held[h] = e /\ pc[h] = "idle"}

(* Mutant: the counter of a new entry starts at zero. *)
AllocateUncounted(h, k, isAccepted) ==
  \E e \in Entry :
    /\ keyOf[e] = NoKey
    /\ keyOf' = [keyOf EXCEPT ![e] = k]
    /\ accepted' = [accepted EXCEPT ![e] = isAccepted]
    /\ active' = [active EXCEPT ![k] = e]
    /\ held' = [held EXCEPT ![h] = e]
    /\ UNCHANGED <<settled, regs, made>>

(* A new entry for k with one registration, owned by h.                     *)
Allocate(h, k, isAccepted) ==
  \E e \in Entry :
    /\ keyOf[e] = NoKey
    /\ keyOf' = [keyOf EXCEPT ![e] = k]
    /\ accepted' = [accepted EXCEPT ![e] = isAccepted]
    /\ regs' = [regs EXCEPT ![e] = 1]
    /\ made' = [made EXCEPT ![e] = 1]
    /\ active' = [active EXCEPT ![k] = e]
    /\ held' = [held EXCEPT ![h] = e]
    /\ UNCHANGED settled

(* One more registration of the existing entry e, owned by h.               *)
AddRegistration(h, e) ==
  /\ made[e] < MaxRegistrations
  /\ regs' = [regs EXCEPT ![e] = @ + 1]
  /\ made' = [made EXCEPT ![e] = @ + 1]
  /\ held' = [held EXCEPT ![h] = e]

-----------------------------------------------------------------------------
(* Registrations *)

(* try_register_pending: only a turn that is neither live nor remembered    *)
(* gets a (not yet accepted) registration; otherwise it returns None.       *)
TryRegisterPending(h, k) ==
  /\ held[h] = NoEntry
  /\ ~Locked(k)
  /\ active[k] = NoEntry
  /\ completed[k] = NoEntry
  /\ Allocate(h, k, FALSE)
  /\ UNCHANGED <<completed, order, orderLock, popped, pc, waiters>>

(* Mutant: register_accepted always starts a new generation. *)
RegisterAcceptedAnew(h, k) ==
  /\ held[h] = NoEntry
  /\ ~Locked(k)
  /\ completed' = [completed EXCEPT ![k] = NoEntry]
  /\ Allocate(h, k, TRUE)
  /\ UNCHANGED <<order, orderLock, popped, pc, waiters>>

(* register_accepted joins the live entry, or starts a new generation and   *)
(* forgets the remembered one.                                              *)
RegisterAccepted(h, k) ==
  /\ held[h] = NoEntry
  /\ ~Locked(k)
  /\ \/ /\ active[k] # NoEntry
        /\ AddRegistration(h, active[k])
        /\ accepted' = [accepted EXCEPT ![active[k]] = TRUE]
        /\ UNCHANGED <<active, completed, keyOf, settled>>
     \/ /\ active[k] = NoEntry
        /\ completed' = [completed EXCEPT ![k] = NoEntry]
        /\ Allocate(h, k, TRUE)
  /\ UNCHANGED <<order, orderLock, popped, pc, waiters>>

(* Mutant: Clone does not count. *)
CloneUncounted(h, from) ==
  /\ held[h] = NoEntry
  /\ from \in Live(held[from]) /\ held[from] # NoEntry
  /\ held' = [held EXCEPT ![h] = held[from]]
  /\ UNCHANGED <<tracker, entries, pc, waiters>>

(* Clone: takes no lock, it relies on the registration it clones.           *)
Clone(h, from) ==
  /\ held[h] = NoEntry
  /\ from \in Live(held[from]) /\ held[from] # NoEntry
  /\ AddRegistration(h, held[from])
  /\ UNCHANGED <<tracker, keyOf, settled, accepted, pc, waiters>>

(* accept on a pending registration. *)
Accept(h) ==
  /\ held[h] # NoEntry /\ pc[h] = "idle"
  /\ ~accepted[held[h]]
  /\ accepted' = [accepted EXCEPT ![held[h]] = TRUE]
  /\ UNCHANGED <<tracker, keyOf, settled, regs, made, holders, waiters>>

-----------------------------------------------------------------------------
(* Drop of a registration *)

(* h starts to drop a registration of e and gets the slot of `active'.      *)
CanDrop(h, e) ==
  held[h] = e /\ e # NoEntry /\ pc[h] = "idle" /\ ~Locked(keyOf[e])

(* Another registration keeps the entry alive; and an entry that is no      *)
(* longer the live one of its key is left alone, its count included.        *)
DropShared(h) ==
  LET e == held[h] IN
  /\ CanDrop(h, e)
  /\ active[keyOf[e]] # e \/ regs[e] # 1
  /\ regs' = IF active[keyOf[e]] = e THEN [regs EXCEPT ![e] = @ - 1] ELSE regs
  /\ held' = [held EXCEPT ![h] = NoEntry]
  /\ UNCHANGED <<tracker, keyOf, settled, accepted, made, pc, waiters>>

(* The last registration of a turn that was never accepted.                 *)
DropRejected(h) ==
  LET e == held[h] IN
  /\ CanDrop(h, e)
  /\ active[keyOf[e]] = e
  /\ regs[e] = 1 /\ ~accepted[e]
  /\ regs' = [regs EXCEPT ![e] = 0]
  /\ active' = [active EXCEPT ![keyOf[e]] = NoEntry]
  /\ held' = [held EXCEPT ![h] = NoEntry]
  /\ UNCHANGED <<completed, order, orderLock, popped, keyOf, settled,
                 accepted, made, pc, waiters>>

(* Mutant: the last Drop does not publish to the waiters. *)
DropSettleUnpublished(h) ==
  LET e == held[h] IN
  /\ CanDrop(h, e)
  /\ active[keyOf[e]] = e /\ regs[e] = 1 /\ accepted[e]
  /\ regs' = [regs EXCEPT ![e] = 0]
  /\ completed' = [completed EXCEPT ![keyOf[e]] = e]
  /\ pc' = [pc EXCEPT ![h] = "push"]
  /\ UNCHANGED <<active, order, orderLock, popped, keyOf, settled, accepted,
                 made, held, waiters>>

(* The last registration of an accepted turn: publish and remember.  The    *)
(* slot of `active' stays locked until DropEnd.                             *)
DropSettle(h) ==
  LET e == held[h] IN
  /\ CanDrop(h, e)
  /\ active[keyOf[e]] = e
  /\ regs[e] = 1 /\ accepted[e]
  /\ regs' = [regs EXCEPT ![e] = 0]
  /\ settled' = [settled EXCEPT ![e] = TRUE]
  /\ completed' = [completed EXCEPT ![keyOf[e]] = e]
  /\ pc' = [pc EXCEPT ![h] = "push"]
  /\ UNCHANGED <<active, order, orderLock, popped, keyOf, accepted, made,
                 held, waiters>>

(* remember_completed: lock completed_order and push.                       *)
DropPush(h) ==
  /\ pc[h] = "push" /\ orderLock = NoHolder
  /\ orderLock' = h
  /\ order' = Append(order, held[h])
  /\ pc' = [pc EXCEPT ![h] = "evict"]
  /\ UNCHANGED <<active, completed, popped, entries, held, waiters>>

(* Mutant: the oldest entry is popped but not removed from `completed'. *)
DropEvictKeeps(h) ==
  /\ pc[h] = "evict" /\ Len(order) > Capacity
  /\ order' = Tail(order)
  /\ UNCHANGED <<active, completed, orderLock, popped, entries, holders,
                 waiters>>

(* One round of the eviction loop up to the ptr_eq test on `completed'.     *)
DropEvict(h) ==
  /\ pc[h] = "evict" /\ Len(order) > Capacity
  /\ order' = Tail(order)
  /\ IF completed[keyOf[Head(order)]] = Head(order)
     THEN /\ popped' = Head(order)
          /\ pc' = [pc EXCEPT ![h] = "evictRemove"]
     ELSE UNCHANGED <<popped, pc>>
  /\ UNCHANGED <<active, completed, orderLock, entries, held, waiters>>

(* The removal from `completed': by key, whatever the slot now holds.       *)
DropEvictRemove(h) ==
  /\ pc[h] = "evictRemove"
  /\ completed' = [completed EXCEPT ![keyOf[popped]] = NoEntry]
  /\ popped' = NoEntry
  /\ pc' = [pc EXCEPT ![h] = "evict"]
  /\ UNCHANGED <<active, order, orderLock, entries, held, waiters>>

(* The loop is over: the mutex is released. *)
DropUnlock(h) ==
  /\ pc[h] = "evict" /\ Len(order) <= Capacity
  /\ orderLock' = NoHolder
  /\ pc' = [pc EXCEPT ![h] = "remove"]
  /\ UNCHANGED <<active, completed, order, popped, entries, held, waiters>>

(* occupied.remove(), and the slot of `active' is unlocked.                 *)
DropEnd(h) ==
  /\ pc[h] = "remove"
  /\ active' = [active EXCEPT ![keyOf[held[h]]] = NoEntry]
  /\ held' = [held EXCEPT ![h] = NoEntry]
  /\ pc' = [pc EXCEPT ![h] = "idle"]
  /\ UNCHANGED <<completed, order, orderLock, popped, entries, waiters>>

Drop(h) ==
  \/ DropShared(h) \/ DropRejected(h) \/ DropSettle(h)
  \/ DropPush(h) \/ DropEvict(h) \/ DropEvictRemove(h) \/ DropUnlock(h)
  \/ DropEnd(h)

-----------------------------------------------------------------------------
(* wait *)

(* Mutant: wait does not look in `active'. *)
WaitCallCompletedOnly(w, k) ==
  /\ wpc[w] = "idle" /\ ~Locked(k)
  /\ wkey' = [wkey EXCEPT ![w] = k]
  /\ wpc' = [wpc EXCEPT ![w] = "missed"]
  /\ result' = [result EXCEPT ![w] = "none"]
  /\ UNCHANGED <<tracker, entries, holders, wentry>>

(* The lookup in `active': subscribe to the live entry, or go on to the     *)
(* second lookup.                                                           *)
WaitCall(w, k) ==
  /\ wpc[w] = "idle" /\ ~Locked(k)
  /\ wkey' = [wkey EXCEPT ![w] = k]
  /\ wentry' = [wentry EXCEPT ![w] = active[k]]
  /\ wpc' = [wpc EXCEPT ![w] = IF active[k] # NoEntry THEN "waiting"
                                                      ELSE "missed"]
  /\ result' = [result EXCEPT ![w] = "none"]
  /\ UNCHANGED <<tracker, entries, holders>>

Answer(w, answer) ==
  /\ result' = [result EXCEPT ![w] = answer]
  /\ wpc' = [wpc EXCEPT ![w] = "idle"]
  /\ UNCHANGED <<tracker, entries, holders, wkey, wentry>>

(* The lookup in `completed', with no lock kept since the first one.        *)
WaitLookup(w) ==
  /\ wpc[w] = "missed"
  /\ Answer(w, IF completed[wkey[w]] # NoEntry THEN "Settled" ELSE "Unknown")

(* The channel carries true. *)
WaitSettled(w) ==
  /\ wpc[w] = "waiting" /\ settled[wentry[w]]
  /\ Answer(w, "Settled")

(* Nothing owns the entry any more, its sender is closed without true.      *)
WaitClosed(w) ==
  LET e == wentry[w] IN
  /\ wpc[w] = "waiting" /\ ~settled[e]
  /\ \A h \in Holder : held[h] # e
  /\ \A k \in Key : active[k] # e /\ completed[k] # e
  /\ \A i \in 1..Len(order) : order[i] # e
  /\ Answer(w, "Unknown")

(* max_wait elapsed; a settlement that is already there wins.               *)
WaitTimeout(w) ==
  /\ wpc[w] = "waiting" /\ ~settled[wentry[w]]
  /\ Answer(w, "TimedOut")

-----------------------------------------------------------------------------
(* The generation by which each turn is known now: live and accepted, or    *)
(* remembered.                                                              *)
KnownGen ==
  [k \in Key |-> IF active[k] = NoEntry THEN completed[k]
                 ELSE IF accepted[active[k]] THEN active[k] ELSE NoEntry]

(* wgen[w] is the generation of w's key if that has been one and the same   *)
(* since the call of w began.                                               *)
TrackGeneration ==
  wgen' = [w \in Waiter |->
             CASE wpc[w] = "idle" /\ wpc'[w] = "idle" -> wgen[w]
               [] wpc[w] = "idle" /\ wpc'[w] # "idle" -> KnownGen'[wkey'[w]]
               [] wpc[w] # "idle" -> IF KnownGen'[wkey[w]] = wgen[w]
                                     THEN wgen[w] ELSE NoEntry]

Step ==
  \/ \E h \in Holder, k \in Key : TryRegisterPending(h, k)
  \/ \E h \in Holder, k \in Key : RegisterAccepted(h, k)
  \/ \E h, from \in Holder : Clone(h, from)
  \/ \E h \in Holder : Accept(h)
  \/ \E h \in Holder : Drop(h)
  \/ \E w \in Waiter, k \in Key : WaitCall(w, k)
  \/ \E w \in Waiter : WaitLookup(w)
  \/ \E w \in Waiter : WaitSettled(w)
  \/ \E w \in Waiter : WaitClosed(w)
  \/ \E w \in Waiter : WaitTimeout(w)

Next == Step /\ TrackGeneration

Spec == Init /\ [][Next]_vars

(* Owners of a registration let go of it in the end (it lives in a task or  *)
(* a guard), a Drop that began goes on, a waiter that can go on does.  The  *)
(* timeout is not assumed to fire.                                          *)
Fairness ==
  /\ \A h \in Holder : WF_vars(Drop(h) /\ TrackGeneration)
  /\ \A w \in Waiter :
       WF_vars((WaitLookup(w) \/ WaitSettled(w) \/ WaitClosed(w))
               /\ TrackGeneration)

FairSpec == Spec /\ Fairness

-----------------------------------------------------------------------------
(* Properties *)

(* A turn is reported settled only when nothing works for it any more: its  *)
(* entry was accepted and every registration, clones included, was dropped  *)
(* (cloned_registration_covers_queued_and_active_lifetimes).                *)
SettledMeansReleased ==
  \A e \in Entry : settled[e] => accepted[e] /\ Live(e) = {} /\ regs[e] = 0

(* A turn never has two settlement generations at work: every registration  *)
(* in use refers to the live entry of its key, so the ptr_eq test in Drop   *)
(* always succeeds and no count is lost.                                    *)
OneLiveGeneration ==
  \A h \in Holder : held[h] # NoEntry => active[keyOf[held[h]]] = held[h]

(* Remembered entries, and entries a Drop is about to queue as remembered.  *)
Queued(e) == \/ \E i \in 1..Len(order) : order[i] = e
             \/ \E h \in Holder : held[h] = e /\ pc[h] = "push"

(* The completed map does not leak: every remembered entry is still queued  *)
(* for eviction, about to be queued by its Drop, or being evicted.          *)
CompletedIsEvictable ==
  \A k \in Key : LET e == completed[k] IN
    e # NoEntry => Queued(e) \/ popped = e

(* wait answers Unknown only when the turn has not been known by one        *)
(* accepted generation for all of the call: a hand-over from `active' to    *)
(* `completed' during the call is never mistaken for an unknown turn.       *)
UnknownIsJustified ==
  \A w \in Waiter : result[w] = "Unknown" => wgen[w] = NoEntry

(* Every wait is answered even if its timeout never fires, because the last *)
(* Drop publishes the settlement or closes the channel.                     *)
WaitersAnswered ==
  \A w \in Waiter : wpc[w] # "idle" ~> wpc[w] = "idle"
=============================================================================
