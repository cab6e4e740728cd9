--------------------- MODULE DialogSchedulerActive_proofs ---------------------
(***************************************************************************)
(* Theorems about the entry of active_turns: the session processes the     *)
(* turn the entry names, so that a turn with a reply route is never left   *)
(* for recovery; the entry and the tombstones of maintenance always have   *)
(* an outcome to come; injections end with their turn; the hold of an      *)
(* interrupted turn is given up only with its recovery fact; and a queue   *)
(* is never left without someone to dispatch it.                           *)
(***************************************************************************)
EXTENDS DialogScheduler_proofs

-----------------------------------------------------------------------------
(* The outcome channel *)

Outcome == [turn : Turn, status : Status]

(* How often the channel s has an outcome of turn t. *)
Carries(s, t) == \E i \in 1..Len(s) : s[i].turn = t

CarriesOne(s, t) ==
  \A i, j \in 1..Len(s) : s[i].turn = t /\ s[j].turn = t => i = j

CarriesTwo(s, t) ==
  \E i, j \in 1..Len(s) : i # j /\ s[i].turn = t /\ s[j].turn = t

(* Sending one more outcome, of turn t.                                     *)
LEMMA SentOutcome ==
  ASSUME NEW s \in Seq(Outcome), NEW o \in Outcome, NEW u
  PROVE  LET r == Append(s, o) IN
         /\ Carries(r, u) <=> Carries(s, u) \/ o.turn = u
         /\ CarriesOne(s, u) /\ (o.turn = u => ~Carries(s, u))
              => CarriesOne(r, u)
         /\ CarriesTwo(s, u) \/ (Carries(s, u) /\ o.turn = u)
              => CarriesTwo(r, u)
<1> DEFINE r == Append(s, o)
<1>1. /\ Len(s) \in Nat /\ Len(r) = Len(s) + 1 /\ r[Len(s) + 1] = o
      /\ \A i \in 1..Len(s) : r[i] = s[i]
  BY AppendProperties
<1> HIDE DEF r
<1>2. \A i \in 1..Len(r) : i \in 1..Len(s) \/ i = Len(s) + 1
  BY <1>1
<1>3. \A i \in 1..Len(s) : i \in 1..Len(r) /\ i # Len(s) + 1
  BY <1>1
<1>4. Len(s) + 1 \in 1..Len(r)
  BY <1>1
<1>5. Carries(r, u) <=> Carries(s, u) \/ o.turn = u
  BY <1>1, <1>2, <1>3, <1>4 DEF Carries
<1>6. CarriesOne(s, u) /\ (o.turn = u => ~Carries(s, u)) => CarriesOne(r, u)
  BY <1>1, <1>2 DEF Carries, CarriesOne
<1>7. CarriesTwo(s, u) \/ (Carries(s, u) /\ o.turn = u) => CarriesTwo(r, u)
  BY <1>1, <1>3, <1>4 DEF Carries, CarriesTwo
<1> QED BY <1>5, <1>6, <1>7 DEF r

(* Taking the first outcome.                                                *)
LEMMA TakenOutcome ==
  ASSUME NEW s \in Seq(Outcome), s # <<>>, NEW u
  PROVE  /\ Carries(Tail(s), u) => Carries(s, u)
         /\ Carries(s, u) => Carries(Tail(s), u) \/ Head(s).turn = u
         /\ CarriesOne(s, u) => CarriesOne(Tail(s), u)
         /\ CarriesOne(s, u) /\ Head(s).turn = u => ~Carries(Tail(s), u)
         /\ CarriesTwo(s, u) => Carries(Tail(s), u)
         /\ CarriesTwo(s, u) /\ Head(s).turn # u => CarriesTwo(Tail(s), u)
<1> DEFINE r == Tail(s)
<1>1. /\ Len(s) \in Nat \ {0} /\ Len(r) = Len(s) - 1 /\ Head(s) = s[1]
      /\ \A i \in 1..Len(r) : r[i] = s[i + 1]
  BY HeadTailProperties, EmptySeq
<1> HIDE DEF r
<1>2. \A i \in 1..Len(r) : i + 1 \in 1..Len(s) /\ i + 1 # 1
  BY <1>1
<1>3. \A i \in 1..Len(s) :
        i = 1 \/ (i - 1 \in 1..Len(r) /\ r[i - 1] = s[i])
  <2> SUFFICES ASSUME NEW i \in 1..Len(s), i # 1
               PROVE  i - 1 \in 1..Len(r) /\ r[i - 1] = s[i]
    OBVIOUS
  <2>1. i - 1 \in 1..Len(r) /\ (i - 1) + 1 = i
    BY <1>1
  <2> QED BY <2>1, <1>1
<1>4. 1 \in 1..Len(s)
  BY <1>1
<1>5. Carries(r, u) => Carries(s, u)
  BY <1>1, <1>2 DEF Carries
<1>6. Carries(s, u) => Carries(r, u) \/ Head(s).turn = u
  BY <1>1, <1>3 DEF Carries
<1>7. CarriesOne(s, u) => CarriesOne(r, u)
  BY <1>1, <1>2, SMTT(30) DEF CarriesOne
<1>8. CarriesOne(s, u) /\ Head(s).turn = u => ~Carries(r, u)
  BY <1>1, <1>2, <1>4 DEF CarriesOne, Carries
<1>9. CarriesTwo(s, u) => Carries(r, u)
  BY <1>3 DEF CarriesTwo, Carries
<1>10. CarriesTwo(s, u) /\ Head(s).turn # u => CarriesTwo(r, u)
  <2> SUFFICES ASSUME CarriesTwo(s, u), Head(s).turn # u
               PROVE  CarriesTwo(r, u)
    OBVIOUS
  <2> PICK i, j \in 1..Len(s) : i # j /\ s[i].turn = u /\ s[j].turn = u
    BY DEF CarriesTwo
  <2>1. i # 1 /\ j # 1
    BY <1>1
  <2>2. i - 1 # j - 1
    OBVIOUS
  <2> QED BY <2>1, <2>2, <1>3 DEF CarriesTwo
<1> QED BY <1>5, <1>6, <1>7, <1>8, <1>9, <1>10 DEF r

-----------------------------------------------------------------------------
(* The steps that may start a turn *)

(* ph is phase but for turns that have not started, which are accepted,     *)
(* rejected or dropped.                                                     *)
Submitting(ph) ==
  /\ ph \in PhaseType
  /\ \A u \in Turn :
       \/ ph[u] = phase[u]
       \/ /\ phase[u] \in {"new", "waiting"}
          /\ ph[u] \in {"waiting", "rejected", "dropped"}

(* d is durable but for a recovery fact that was given up, of a turn that   *)
(* is not both processed and active and whose injections are drained.       *)
Abandoning(d) ==
  /\ d \in DurableType
  /\ \A u \in Turn :
       \/ d[u] = durable[u]
       \/ /\ durable[u] = "Interrupted" /\ d[u] = "Cancelled"
          /\ ~(IsProcessing(u) /\ active = u)
          /\ u \notin buffered'

(* From ph and d at most one turn starts, which has not started before.     *)
Begins(ph, d) ==
  \/ NoStart(ph, d)
  \/ /\ state # "Processing"
     /\ \E u \in Turn : phase[u] \in {"new", "waiting"} /\ Start(u, ph, d)

(* A cancellation that waits for its turn has taken the session from it.    *)
CancelledIsNotProcessed == lock.op = "cancel" => ~IsProcessing(lock.turn)

(* Giving up the recovery fact of a turn whose injections are drained.      *)
LEMMA AbandonIsAbandoning ==
  ASSUME durable \in DurableType, NEW t,
         ~(IsProcessing(t) /\ active = t), t \notin buffered'
  PROVE  Abandoning(Abandon(durable, t))
<1>1. Abandon(durable, t) \in DurableType
  BY AbandonType
<1> QED BY <1>1 DEF Abandoning, Abandon

(* Dispatch begins with the head of the queue.                              *)
LEMMA TryStartNextBegins ==
  ASSUME NEW q \in Seq(Turn), NEW ph, NEW d, TryStartNext(q, ph, d),
         \A u \in Elements(q) : phase[u] \in {"new", "waiting"}
  PROVE  Begins(ph, d)
<1>1. CASE NoStart(ph, d)
  BY <1>1 DEF Begins
<1>2. CASE state # "Processing" /\ q # <<>> /\ Start(Head(q), ph, d)
  <2>1. Head(q) \in Turn /\ Head(q) \in Elements(q)
    BY <1>2, HeadTailProperties, TailIsWithoutFirst DEF Elements
  <2> QED BY <1>2, <2>1 DEF Begins
<1> QED BY <1>1, <1>2 DEF TryStartNext

(* What the steps that may start a turn have in common.                     *)
LEMMA StartingBegins ==
  ASSUME TypeOK, QueueIsTidy, CancelledIsNotProcessed, Starting
  PROVE  /\ \E ph, d : Submitting(ph) /\ Abandoning(d) /\ Begins(ph, d)
         /\ buffered' \subseteq buffered
         /\ lock' = Free
         /\ UNCHANGED <<admission, report, token, resumes, outcomes, retired>>
         /\ UNCHANGED <<intent, reply>>
         /\ handler.stage = "reply" => handler' = handler
<1>1. /\ phase \in PhaseType /\ durable \in DurableType /\ queue \in Seq(Turn)
      /\ \A u \in Elements(queue) : phase[u] \in {"new", "waiting"}
      /\ latest \in Turn \cup {NoTurn}
  <2>1. phase \in PhaseType /\ durable \in DurableType /\ queue \in Seq(Turn)
    BY DEF TypeOK, PhaseType, DurableType
  <2>2. \A u \in Elements(queue) : u \in Turn
    BY <2>1, ElementOfSeq DEF Elements
  <2> QED BY <2>1, <2>2 DEF QueueIsTidy, Tidy, TypeOK
<1>2. Submitting(phase) /\ Abandoning(durable)
  BY <1>1 DEF Submitting, Abandoning
<1>3. ASSUME NEW t, ~(IsProcessing(t) /\ active = t), AbandonAndDispatch(t)
      PROVE  /\ \E ph, d : Submitting(ph) /\ Abandoning(d) /\ Begins(ph, d)
             /\ buffered' \subseteq buffered
  <2>1. buffered' = buffered \ {t}
    BY <1>3 DEF AbandonAndDispatch, DrainInjections
  <2>2. Abandoning(Abandon(durable, t))
    BY <1>1, <1>3, <2>1, AbandonIsAbandoning
  <2>3. Begins(phase, Abandon(durable, t))
    BY <1>1, <1>3, TryStartNextBegins DEF AbandonAndDispatch
  <2> QED BY <1>2, <2>1, <2>2, <2>3
<1>4. CASE DispatchNext
  <2>1. Begins(phase, durable)
    BY <1>1, <1>4, TryStartNextBegins DEF DispatchNext
  <2> QED BY <1>2, <1>4, <2>1 DEF DispatchNext, marks
<1>5. CASE \E t \in Turn : CancelInterrupted(t)
  BY <1>3, <1>5 DEF CancelInterrupted
<1>6. CASE CancelEnd
  <2>1. CASE durable[lock.turn] = "Interrupted"
    BY <1>3, <1>6, <2>1 DEF CancelEnd, CancelledIsNotProcessed
  <2>2. CASE durable[lock.turn] # "Interrupted"
    <3>1. Begins(phase, durable) /\ buffered' = buffered
      BY <1>6, <2>2 DEF CancelEnd, Begins, NoStart
    <3> QED BY <1>2, <1>6, <3>1 DEF CancelEnd
  <2> QED BY <1>6, <2>1, <2>2 DEF CancelEnd
<1>7. CASE \E t \in Turn : Submit(t)
  <2> PICK t \in Turn : Submit(t)
    BY <1>7
  <2>1. phase[t] = "new"
    BY DEF Submit
  <2> DEFINE d == IF ReleasesHold(t) THEN Abandon(durable, latest) ELSE durable
  <2>2. ASSUME ReleasesHold(t), latest \notin buffered'
        PROVE  Abandoning(Abandon(durable, latest))
    BY <1>1, <2>2, AbandonIsAbandoning DEF ReleasesHold, IsProcessing
  <2>3. ASSUME DrainInjections(Superseded(t))
        PROVE  Abandoning(d) /\ buffered' \subseteq buffered
    <3>1. buffered' = buffered \ Superseded(t)
      BY <2>3 DEF DrainInjections
    <3>2. ReleasesHold(t) => latest \notin buffered'
      BY <3>1 DEF Superseded
    <3> QED BY <1>2, <2>2, <3>1, <3>2
  <2> HIDE DEF d
  <2>4. Submitting(Accepted(phase, t)) /\ Accepted(phase, t) \in PhaseType
    BY <1>1, <2>1 DEF Accepted, Submitting, PhaseType, Phase
  <2>5. \E ph, e : Submitting(ph) /\ Abandoning(e) /\ Begins(ph, e)
                   /\ buffered' \subseteq buffered
    <3>1. CASE SubmitStart(t)
      <4> DEFINE ph == Dropping(phase, InQueue)
      <4>1. Submitting(ph) /\ Submitting([ph EXCEPT ![t] = "rejected"])
        BY <1>1, <2>1
           DEF Dropping, Submitting, PhaseType, Phase, InQueue, Elements
      <4>2. state # "Processing"
        BY <3>1 DEF SubmitStart, StateFact
      <4> HIDE DEF ph
      <4>3. CASE /\ NoStart([ph EXCEPT ![t] = "rejected"], durable)
                 /\ UNCHANGED buffered
        BY <1>2, <4>1, <4>3 DEF Begins
      <4>4. ASSUME NEW abandoned, abandoned \in {{}, Superseded(t)},
                   Start(t, ph, IF abandoned = {} THEN durable
                                ELSE Abandon(durable, latest)),
                   DrainInjections(abandoned)
            PROVE  \E e : Abandoning(e) /\ Begins(ph, e)
                          /\ buffered' \subseteq buffered
        <5>1. buffered' = buffered \ abandoned
          BY <4>4 DEF DrainInjections
        <5>2. CASE abandoned = {}
          BY <1>2, <2>1, <4>2, <4>4, <5>1, <5>2 DEF Begins
        <5>3. CASE abandoned # {}
          <6>1. ReleasesHold(t) /\ latest \notin buffered'
            BY <4>4, <5>1, <5>3 DEF Superseded
          <6>2. Begins(ph, Abandon(durable, latest))
            BY <2>1, <4>2, <4>4, <5>3 DEF Begins
          <6> QED BY <2>2, <5>1, <6>1, <6>2
        <5> QED BY <5>2, <5>3
      <4> QED BY <3>1, <4>1, <4>3, <4>4 DEF SubmitStart, ph
    <3>2. CASE SubmitThenStartNext(t)
      <4>1. /\ Enqueue(queue, t) \in Seq(Turn)
            /\ Elements(Enqueue(queue, t)) = Elements(queue) \cup {t}
        <5>1. t \notin Elements(queue) /\ Ordered(queue) /\ Distinct(queue)
          BY <2>1 DEF QueueIsTidy, Tidy
        <5> QED BY <1>1, <5>1, EnqueueFacts, EnqueueKeeps
      <4>2. Begins(Accepted(phase, t), d)
        BY <1>1, <2>1, <3>2, <4>1, TryStartNextBegins
           DEF SubmitThenStartNext, d
      <4> QED BY <2>3, <2>4, <3>2, <4>2 DEF SubmitThenStartNext
    <3>3. CASE SubmitQueued(t)
      BY <2>3, <2>4, <3>3 DEF SubmitQueued, Begins, d
    <3>4. CASE SubmitRejected(t)
      <4>1. Submitting([phase EXCEPT ![t] = "rejected"])
        BY <1>1, <2>1 DEF Submitting, PhaseType, Phase
      <4> QED BY <1>2, <3>4, <4>1 DEF SubmitRejected, Begins
    <3> QED BY <3>1, <3>2, <3>3, <3>4 DEF Submit
  <2> QED BY <2>5 DEF Submit
<1> QED BY <1>4, <1>5, <1>6, <1>7 DEF Starting

(* A cancellation takes the session from its turn and keeps the lock.       *)
LEMMA CancelledStep ==
  ASSUME TypeOK, CancelledIsNotProcessed, [Next]_vars
  PROVE  CancelledIsNotProcessed'
<1>1. CASE Starting
  BY <1>1, StartingSteps DEF CancelledIsNotProcessed, Free
<1>2. CASE Controlling
  <2>1. CASE \/ \E t \in Turn :
                  \/ CancelQueued(t) \/ Interrupt(t) \/ RecoverBegin(t)
                  \/ Steer(t)
             \/ \E byRequester \in BOOLEAN : CancelSession(byRequester)
             \/ CancelSessionEnd \/ MaintenanceBegin \/ MaintenanceReady
             \/ MaintenanceTimeout \/ PermitRelease \/ InterruptEnd
             \/ RecoverRun \/ RecoverRefused \/ TakeOutcome
    <3>1. lock'.op # "cancel"
      BY <2>1
         DEF CancelQueued, Interrupt, RecoverBegin, Steer, CancelSession,
             CancelSessionEnd, MaintenanceBegin, MaintenanceReady,
             MaintenanceTimeout, PermitRelease, InterruptEnd, RecoverRun,
             RecoverRefused, TakeOutcome, Free
    <3> QED BY <3>1 DEF CancelledIsNotProcessed
  <2>2. CASE \E t \in Turn : CancelActive(t)
    BY <2>2 DEF CancelActive, StopTurn, CancelledIsNotProcessed, IsProcessing
  <2>3. CASE (\E t \in Turn : RoundBoundary(t)) \/ ForwardReply \/ RecoverUndo
    BY <2>3
       DEF RoundBoundary, ForwardReply, RecoverUndo, session,
           CancelledIsNotProcessed, IsProcessing
  <2> QED BY <1>2, <2>1, <2>2, <2>3 DEF Controlling
<1>3. CASE \E t \in Turn : Winding(t) \/ Panic(t)
  BY <1>3, TaskSteps DEF CancelledIsNotProcessed, IsProcessing
<1>4. CASE UNCHANGED vars
  BY <1>4 DEF vars, session, CancelledIsNotProcessed, IsProcessing
<1> QED BY <1>1, <1>2, <1>3, <1>4, NextSteps

(* It holds in every reachable state. *)
LEMMA CancelledTurns == Spec => []CancelledIsNotProcessed
<1>1. Init => CancelledIsNotProcessed
  BY DEF Init, Free, CancelledIsNotProcessed
<1>2. TypeOK /\ CancelledIsNotProcessed /\ [Next]_vars
        => CancelledIsNotProcessed'
  BY CancelledStep
<1> QED BY <1>1, <1>2, TypeCorrect, PTL DEF Spec

-----------------------------------------------------------------------------
(* The session processes the turn that is active *)

(* The lives of a turn whose task still has its outcome to send.            *)
Open == {"running", "persisted", "settled"}

(* A recovery of t has the entry of active_turns, or is about to drop it.   *)
Recovering(t) == admission = t \/ lock = [op |-> "recover", turn |-> t]

(* If an outcome of t is on its way, a tombstone waits for it.              *)
Expired(t) == Carries(outcomes, t) => t \in retired

(* Up to the first recovery of t: its outcomes are told apart by being      *)
(* expired, and the entry is kept for the last turn that started until its  *)
(* outcome is taken.                                                        *)
EntryIsKeptFor(t) ==
  /\ phase[t] \in {"new", "waiting"}
       => resumes[t] = 0 /\ ~Carries(outcomes, t) /\ ~Recovering(t)
  /\ phase[t] \in Open /\ resumes[t] = 0 => ~Carries(outcomes, t)
  /\ resumes[t] = 0 \/ (resumes[t] = 1 /\ phase[t] \in Open)
       => CarriesOne(outcomes, t)
  /\ latest = t /\ resumes[t] < 2 /\ phase[t] \in Open
       => active = t /\ Expired(t) /\ ~Recovering(t)
  /\ latest = t /\ resumes[t] = 0 /\ (active # t \/ Recovering(t))
       => Expired(t)

(* The inductive invariant behind ProcessingIsActive.                       *)
EntryIsKept ==
  /\ lock.op = "recover" => active = lock.turn /\ admission = NoTurn
  /\ state = "Processing" => current = latest
  /\ \A t \in Turn : EntryIsKeptFor(t)

(* Steps that neither start a turn nor touch its outcomes keep its entry.   *)
LEMMA KeptQuietly ==
  ASSUME NEW t \in Turn, EntryIsKeptFor(t),
         UNCHANGED <<latest, resumes, outcomes>>,
         phase'[t] \in {"new", "waiting"} => phase[t] \in {"new", "waiting"},
         phase'[t] \in Open => phase[t] \in Open,
         active = t => active' = t,
         t \in retired => t \in retired',
         Recovering(t)' => Recovering(t)
  PROVE  EntryIsKeptFor(t)'
BY DEF EntryIsKeptFor, Expired

(* A starting step gives the entry to the turn that starts.                 *)
LEMMA KeptByStarting ==
  ASSUME TypeOK, QueueIsTidy, CancelledIsNotProcessed, EntryIsKept, Starting
  PROVE  EntryIsKept'
<1>1. PICK ph, d : Submitting(ph) /\ Abandoning(d) /\ Begins(ph, d)
  BY StartingBegins
<1>2. /\ lock' = Free /\ lock'.op # "recover"
      /\ UNCHANGED <<admission, resumes, outcomes, retired>>
  BY StartingBegins DEF Free
<1>3. \A t : Recovering(t)' => Recovering(t)
  BY <1>2 DEF Recovering
<1>4. \A t \in Turn :
        /\ ph[t] \in {"new", "waiting"} => phase[t] \in {"new", "waiting"}
        /\ ph[t] \in Open => phase[t] \in Open
  BY <1>1 DEF Submitting, Open
<1>5. CASE NoStart(ph, d)
  <2>1. UNCHANGED <<latest, active, state, current>> /\ phase' = ph
    BY <1>5 DEF NoStart, session
  <2>2. \A t \in Turn : EntryIsKeptFor(t)'
    BY <1>2, <1>3, <1>4, <2>1, KeptQuietly DEF EntryIsKept
  <2> QED BY <1>2, <2>1, <2>2 DEF EntryIsKept
<1>6. ASSUME NEW u \in Turn, phase[u] \in {"new", "waiting"}, Start(u, ph, d)
      PROVE  EntryIsKept'
  <2>1. /\ state' = "Processing" /\ current' = u /\ latest' = u
        /\ active' = u /\ phase' = [ph EXCEPT ![u] = "running"]
    BY <1>6 DEF Start
  <2>2. /\ phase'[u] = "running"
        /\ \A t \in Turn : t # u => phase'[t] = ph[t]
    BY <1>1, <2>1 DEF Submitting, PhaseType
  <2>3. /\ resumes[u] = 0 /\ ~Carries(outcomes, u) /\ ~Recovering(u)
        /\ CarriesOne(outcomes, u)
    BY <1>6 DEF EntryIsKept, EntryIsKeptFor
  <2>4. EntryIsKeptFor(u)'
    BY <1>2, <1>3, <2>1, <2>2, <2>3 DEF EntryIsKeptFor, Expired
  <2>5. ASSUME NEW t \in Turn, t # u
        PROVE  EntryIsKeptFor(t)'
    <3>1. EntryIsKeptFor(t)
      BY DEF EntryIsKept
    <3>2. phase'[t] = ph[t] /\ latest' # t
      BY <2>1, <2>2, <2>5
    <3> QED BY <1>2, <1>3, <1>4, <3>1, <3>2 DEF EntryIsKeptFor
  <2> QED BY <1>2, <2>1, <2>4, <2>5 DEF EntryIsKept
<1> QED BY <1>1, <1>5, <1>6 DEF Begins

(* Handling an outcome spares the entry of a turn whose own is expired.     *)
LEMMA KeptByTakeOutcome ==
  ASSUME TypeOK, EntryIsKept, TakeOutcome
  PROVE  EntryIsKept'
<1> DEFINE h == Head(outcomes).turn
<1>1. /\ outcomes \in Seq(Outcome) /\ outcomes # <<>>
      /\ outcomes' = Tail(outcomes) /\ lock = Free
      /\ UNCHANGED <<lock, session, admission, resumes>>
      /\ retired' = retired \ {h}
      /\ active' = IF h \in retired \/ active \notin {NoTurn, h}
                   THEN active ELSE NoTurn
      /\ phase' = phase \/ phase' = Dropping(phase, InQueue)
  BY DEF TakeOutcome, TakeTombstone, TypeOK, Outcome
<1> HIDE DEF h
<1>2. \A t \in Turn :
        /\ phase'[t] \in {"new", "waiting"} => phase[t] \in {"new", "waiting"}
        /\ phase'[t] \in Open => phase[t] \in Open
  BY <1>1 DEF Dropping, Open
<1>3. \A t : Recovering(t)' => Recovering(t)
  BY <1>1 DEF Recovering
<1>4. ASSUME NEW t \in Turn
      PROVE  EntryIsKeptFor(t)'
  <2>1. EntryIsKeptFor(t)
    BY DEF EntryIsKept
  <2>2. /\ Carries(outcomes', t) => Carries(outcomes, t)
        /\ CarriesOne(outcomes, t) => CarriesOne(outcomes', t)
        /\ CarriesOne(outcomes, t) /\ h = t => ~Carries(outcomes', t)
        /\ h = t => Carries(outcomes, t)
    <3>1. Carries(outcomes, Head(outcomes).turn)
      <4>1. 1 \in 1..Len(outcomes) /\ Head(outcomes) = outcomes[1]
        BY <1>1, EmptySeq
      <4> QED BY <4>1 DEF Carries
    <3> QED BY <1>1, <3>1, TakenOutcome DEF h
  <2>3. /\ phase'[t] \in {"new", "waiting"}
             => resumes'[t] = 0 /\ ~Carries(outcomes', t) /\ ~Recovering(t)'
        /\ phase'[t] \in Open /\ resumes'[t] = 0 => ~Carries(outcomes', t)
        /\ resumes'[t] = 0 \/ (resumes'[t] = 1 /\ phase'[t] \in Open)
             => CarriesOne(outcomes', t)
    BY <1>1, <1>2, <1>3, <2>1, <2>2 DEF EntryIsKeptFor
  <2>4. ASSUME latest = t, resumes[t] < 2, phase'[t] \in Open
        PROVE  active' = t /\ Expired(t)' /\ ~Recovering(t)'
    <3>1. active = t /\ Expired(t) /\ ~Recovering(t) /\ CarriesOne(outcomes, t)
      <4>1. resumes[t] = 0 \/ resumes[t] = 1
        BY <2>4 DEF TypeOK
      <4> QED BY <1>2, <2>1, <2>4, <4>1 DEF EntryIsKeptFor
    <3>2. active' = t
      BY <1>1, <2>2, <3>1, SchedulerConstants DEF Expired
    <3>3. Expired(t)'
      BY <1>1, <2>2, <3>1 DEF Expired
    <3> QED BY <1>3, <3>1, <3>2, <3>3
  <2>5. ASSUME latest = t, resumes[t] = 0, active' # t \/ Recovering(t)'
        PROVE  Expired(t)'
    <3>1. CarriesOne(outcomes, t)
      BY <2>1, <2>5 DEF EntryIsKeptFor
    <3>2. CASE h = t
      BY <2>2, <3>1, <3>2 DEF Expired
    <3>3. CASE h # t
      <4>1. active # t \/ Recovering(t)
        BY <1>1, <1>3, <2>5, <3>3
      <4>2. Expired(t)
        BY <2>1, <2>5, <4>1 DEF EntryIsKeptFor
      <4> QED BY <1>1, <2>2, <3>3, <4>2 DEF Expired
    <3> QED BY <3>2, <3>3
  <2>6. latest' = latest /\ resumes' = resumes
    BY <1>1 DEF session
  <2> QED BY <2>3, <2>4, <2>5, <2>6 DEF EntryIsKeptFor
<1>5. lock'.op # "recover" /\ UNCHANGED <<state, current, latest>>
  BY <1>1 DEF session, Free
<1> QED BY <1>4, <1>5 DEF EntryIsKept

(* The other steps that hand the entry or an outcome on.                    *)
LEMMA KeptByRecovery ==
  ASSUME TypeOK, QueueIsTidy, ProcessingIsLive, EntryIsKept,
         \/ \E t \in Turn : RecoverBegin(t)
         \/ RecoverRun \/ RecoverRefused \/ RecoverUndo \/ MaintenanceReady
  PROVE  EntryIsKept'
<1>1. CASE \E t \in Turn : RecoverBegin(t)
  <2> PICK u \in Turn : RecoverBegin(u)
    BY <1>1
  <2>1. /\ active = NoTurn /\ active' = u /\ durable[u] # "none"
        /\ admission = NoTurn /\ lock' = [op |-> "recover", turn |-> u]
        /\ UNCHANGED <<session, admission, phase, resumes, outcomes, retired>>
    BY DEF RecoverBegin, tasks, marks
  <2>2. lock'.turn = u
    BY <2>1
  <2>3. \A t \in Turn : Recovering(t)' => t = u
    BY <2>1, <2>2, SchedulerConstants DEF Recovering
  <2>4. phase[u] \notin {"new", "waiting"}
    BY <2>1 DEF QueueIsTidy, Tidy
  <2>5. ASSUME NEW t \in Turn
        PROVE  EntryIsKeptFor(t)'
    <3>1. EntryIsKeptFor(t) /\ active # t
      BY <2>1, SchedulerConstants DEF EntryIsKept
    <3>2. CASE t = u
      BY <2>1, <2>4, <3>1, <3>2 DEF EntryIsKeptFor, Expired, session
    <3>3. CASE t # u
      BY <2>1, <2>3, <3>1, <3>3 DEF EntryIsKeptFor, Expired, session
    <3> QED BY <3>2, <3>3
  <2> QED BY <2>1, <2>2, <2>5 DEF EntryIsKept, session
<1>2. CASE RecoverRun
  <2> PICK u \in Turn : u = lock.turn
    BY <1>2 DEF RecoverRun, ProcessingIsLive
  <2>1. /\ lock.op = "recover" /\ latest = u
        /\ phase[u] \notin Executing /\ durable[u] = "Interrupted"
        /\ lock' = Free
        /\ state' = "Processing" /\ current' = u
        /\ phase' = [phase EXCEPT ![u] = "running"]
        /\ resumes' = [resumes EXCEPT ![u] = resumes[u] + 1]
        /\ UNCHANGED <<latest, active, admission, outcomes, retired>>
    BY <1>2 DEF RecoverRun, Recoverable, Drained, marks
  <2>2. /\ active = u /\ admission = NoTurn
        /\ lock = [op |-> "recover", turn |-> u]
    BY <2>1 DEF EntryIsKept, TypeOK
  <2>3. \A t \in Turn : ~Recovering(t)'
    BY <2>1, <2>2, SchedulerConstants DEF Recovering, Free
  <2>4. phase[u] \notin {"new", "waiting"} /\ Recovering(u)
    BY <2>1, <2>2 DEF QueueIsTidy, Tidy, Recovering
  <2>5. /\ phase'[u] = "running" /\ resumes'[u] = resumes[u] + 1
        /\ resumes[u] \in Nat
        /\ \A t \in Turn \ {u} : /\ phase'[t] = phase[t]
                                 /\ resumes'[t] = resumes[t]
    BY <2>1 DEF TypeOK
  <2>6. EntryIsKeptFor(u)'
    <3>1. EntryIsKeptFor(u)
      BY <2>1 DEF EntryIsKept
    <3>2. resumes'[u] # 0 /\ (resumes'[u] < 2 => resumes[u] = 0)
          /\ (resumes'[u] = 1 => resumes[u] = 0)
      BY <2>5
    <3>3. resumes'[u] < 2 => CarriesOne(outcomes, u) /\ Expired(u)
      BY <2>1, <2>4, <3>1, <3>2 DEF EntryIsKeptFor
    <3>4. /\ resumes'[u] = 1 => CarriesOne(outcomes', u)
          /\ resumes'[u] < 2 => Expired(u)'
      BY <2>1, <2>5, <3>3 DEF Expired
    <3>5. active' = u /\ ~Recovering(u)'
      BY <2>1, <2>2, <2>3
    <3> QED BY <2>5, <3>2, <3>4, <3>5 DEF EntryIsKeptFor
  <2>7. ASSUME NEW t \in Turn, t # u
        PROVE  EntryIsKeptFor(t)'
    BY <2>1, <2>3, <2>5, <2>7 DEF EntryIsKept, EntryIsKeptFor
  <2>8. lock'.op # "recover" /\ current' = latest'
    BY <2>1 DEF Free
  <2> QED BY <2>6, <2>7, <2>8 DEF EntryIsKept
<1>3. CASE RecoverRefused
  <2>1. /\ lock' = Free /\ admission' = lock.turn /\ lock.op = "recover"
        /\ UNCHANGED <<session, active, phase, resumes, outcomes, retired>>
    BY <1>3 DEF RecoverRefused, tasks, marks
  <2>2. \A t \in Turn : Recovering(t)' => Recovering(t)
    BY <2>1 DEF Recovering, Free, TypeOK
  <2>3. \A t \in Turn : EntryIsKeptFor(t)'
    BY <2>1, <2>2, KeptQuietly DEF EntryIsKept, session
  <2> QED BY <2>1, <2>3 DEF EntryIsKept, session, Free
<1>4. CASE RecoverUndo
  <2>1. /\ active' = (IF active = admission THEN NoTurn ELSE active)
        /\ admission' = NoTurn /\ admission # NoTurn
        /\ UNCHANGED <<lock, session, phase, resumes, outcomes, retired>>
    BY <1>4 DEF RecoverUndo, tasks, marks
  <2>2. lock.op # "recover"
    BY <2>1 DEF EntryIsKept
  <2>3. \A t \in Turn : ~Recovering(t)'
    BY <2>1, <2>2, SchedulerConstants DEF Recovering
  <2>4. ASSUME NEW t \in Turn
        PROVE  EntryIsKeptFor(t)'
    <3>1. EntryIsKeptFor(t)
      BY DEF EntryIsKept
    <3>2. active = t /\ active' # t => Recovering(t)
      BY <2>1 DEF Recovering
    <3> QED BY <2>1, <2>3, <3>1, <3>2 DEF EntryIsKeptFor, Expired, session
  <2> QED BY <2>1, <2>2, <2>4 DEF EntryIsKept, session
<1>5. CASE MaintenanceReady
  <2>1. /\ Drained /\ lock'.op # "recover" /\ active' = NoTurn
        /\ retired' = retired \cup ({active} \ {NoTurn})
        /\ lock.op = "maintenance" /\ lock'.op = "permit"
        /\ UNCHANGED <<session, admission, phase, resumes, outcomes>>
    BY <1>5 DEF MaintenanceReady, RetireActive, tasks
  <2>2. \A t \in Turn : Recovering(t)' => Recovering(t)
    BY <2>1 DEF Recovering
  <2>3. ASSUME NEW t \in Turn
        PROVE  EntryIsKeptFor(t)'
    <3>1. EntryIsKeptFor(t) /\ phase[t] \notin Open
      BY <2>1 DEF EntryIsKept, Drained, Open, Executing
    <3>2. active = t => t \in retired'
      BY <2>1, SchedulerConstants
    <3> QED BY <2>1, <2>2, <3>1, <3>2 DEF EntryIsKeptFor, Expired, session
  <2> QED BY <2>1, <2>3 DEF EntryIsKept, session
<1> QED BY <1>1, <1>2, <1>3, <1>4, <1>5

(* What the steps of a task do to it and to the outcome channel.            *)
LEMMA WindingLives ==
  ASSUME TypeOK, EndedTurnsHaveAReport, NEW t \in Turn, Winding(t) \/ Panic(t)
  PROVE  /\ phase[t] \in Executing
         /\ \A u \in Turn : u # t => phase'[u] = phase[u]
         /\ UNCHANGED <<lock, latest, queue, active, admission, resumes>>
         /\ UNCHANGED <<handler, marks>>
         /\ \/ /\ phase[t] = "settled" /\ phase'[t] = "tail"
               /\ \E status \in Status :
                    /\ outcomes' = Append(outcomes,
                                          [turn |-> t, status |-> status])
                    /\ report[t] \in {status, "Interrupting"}
                    /\ report[t] = "Interrupting" => status = "Interrupted"
            \/ /\ outcomes' = outcomes
               /\ \/ phase[t] \in Open /\ phase'[t] \in Open
                  \/ phase[t] = "tail" /\ phase'[t] = "done"
                  \/ Panic(t) /\ phase'[t] = "done"
<1>1. CASE EndExecution(t)
  BY <1>1 DEF EndExecution, TypeOK, Executing, Open, session, tasks
<1>2. CASE SettleState(t)
  BY <1>2 DEF SettleState, TypeOK, Executing, Open, session, tasks
<1>3. CASE Report(t)
  <2>1. /\ phase[t] = "settled" /\ report[t] # "Interrupting"
        /\ SendOutcome(t, report[t]) /\ report[t] # "none"
        /\ UNCHANGED <<lock, latest, queue, active, admission, resumes>>
        /\ UNCHANGED <<handler, marks>>
    BY <1>3 DEF Report, EndedTurnsHaveAReport, session
  <2>2. report[t] \in Status
    BY <2>1 DEF TypeOK
  <2> QED BY <2>1, <2>2 DEF SendOutcome, TypeOK, Executing
<1>4. CASE CommitInterruption(t)
  <2>1. /\ phase[t] = "settled" /\ report[t] = "Interrupting"
        /\ SendOutcome(t, "Interrupted")
        /\ UNCHANGED <<lock, latest, queue, active, admission, resumes>>
        /\ UNCHANGED <<handler, marks>>
    BY <1>4 DEF CommitInterruption, session
  <2> QED BY <2>1 DEF SendOutcome, TypeOK, Executing, Status
<1>5. CASE LoseInterruption(t)
  BY <1>5 DEF LoseInterruption, TypeOK, Executing, Open, session, tasks
<1>6. CASE Exit(t) \/ Panic(t)
  BY <1>6 DEF Exit, Panic, DropGuard, TypeOK, Executing
<1> QED BY <1>1, <1>2, <1>3, <1>4, <1>5, <1>6 DEF Winding

(* A task keeps the entry of its turn until it has sent its outcome.        *)
LEMMA KeptByTask ==
  ASSUME TypeOK, EndedTurnsHaveAReport, EntryIsKept,
         NEW t \in Turn, Winding(t) \/ Panic(t)
  PROVE  EntryIsKept'
<1>1. /\ phase[t] \in Executing
      /\ \A u \in Turn : u # t => phase'[u] = phase[u]
      /\ UNCHANGED <<lock, latest, active, admission, resumes, retired>>
  BY WindingLives DEF marks
<1>2. \A u : Recovering(u)' <=> Recovering(u)
  BY <1>1 DEF Recovering
<1>3. \A u \in Turn : EntryIsKeptFor(u)'
  <2>1. CASE outcomes' = outcomes
    <3>1. /\ phase'[t] \notin {"new", "waiting"}
          /\ phase'[t] \in Open => phase[t] \in Open
      BY <2>1, WindingLives DEF Open
    <3> QED BY <1>1, <1>2, <2>1, <3>1, KeptQuietly DEF EntryIsKept
  <2>2. CASE outcomes' # outcomes
    <3>1. PICK o \in Outcome : o.turn = t /\ outcomes' = Append(outcomes, o)
      BY <2>2, WindingLives DEF Outcome
    <3>2. phase[t] = "settled" /\ phase'[t] = "tail"
      BY <2>2, WindingLives
    <3>3. outcomes \in Seq(Outcome)
      BY DEF TypeOK, Outcome
    <3>4. \A u \in Turn : EntryIsKeptFor(u)
      BY DEF EntryIsKept
    <3>5. EntryIsKeptFor(t)'
      <4>1. resumes[t] = 0 => ~Carries(outcomes, t) /\ CarriesOne(outcomes, t)
        BY <3>2, <3>4 DEF EntryIsKeptFor, Open
      <4>2. resumes[t] = 0 => CarriesOne(outcomes', t)
        BY <3>1, <3>3, <4>1, SentOutcome
      <4>3. latest = t /\ resumes[t] = 0 => active = t /\ ~Recovering(t)
        BY <3>2, <3>4 DEF EntryIsKeptFor, Open
      <4>4. phase'[t] \notin Open \cup {"new", "waiting"}
        BY <3>2 DEF Open
      <4> QED BY <1>1, <1>2, <4>2, <4>3, <4>4 DEF EntryIsKeptFor
    <3>6. ASSUME NEW u \in Turn, u # t
          PROVE  EntryIsKeptFor(u)'
      <4>1. /\ Carries(outcomes', u) <=> Carries(outcomes, u)
            /\ CarriesOne(outcomes, u) => CarriesOne(outcomes', u)
        BY <3>1, <3>3, <3>6, SentOutcome
      <4> QED BY <1>1, <1>2, <3>4, <3>6, <4>1 DEF EntryIsKeptFor, Expired
    <3> QED BY <3>5, <3>6
  <2> QED BY <2>1, <2>2
<1>4. UNCHANGED <<state, current>> \/ state' # "Processing"
  BY TaskSteps
<1> QED BY <1>1, <1>3, <1>4 DEF EntryIsKept

(* The invariant is inductive, given a tidy queue.                          *)
LEMMA KeptStep ==
  ASSUME TypeOK, EndedTurnsHaveAReport, QueueIsTidy, ProcessingIsLive,
         CancelledIsNotProcessed, EntryIsKept, [Next]_vars
  PROVE  EntryIsKept'
<1>1. CASE \/ \E t \in Turn :
                \/ CancelQueued(t) \/ CancelActive(t) \/ Interrupt(t)
                \/ Steer(t) \/ RoundBoundary(t)
           \/ \E byRequester \in BOOLEAN : CancelSession(byRequester)
           \/ CancelSessionEnd \/ MaintenanceBegin \/ MaintenanceTimeout
           \/ PermitRelease \/ InterruptEnd \/ ForwardReply
  <2>1. UNCHANGED <<latest, active, admission, resumes, outcomes, retired>>
    BY <1>1
       DEF CancelQueued, CancelActive, CancelSession, StopTurn, Interrupt,
           Steer, RoundBoundary, CancelSessionEnd, MaintenanceBegin,
           MaintenanceTimeout, PermitRelease, InterruptEnd, ForwardReply,
           session, tasks, marks
  <2>2. lock'.op = "recover" => lock' = lock
    BY <1>1
       DEF CancelQueued, CancelActive, CancelSession, Interrupt, Steer,
           RoundBoundary, CancelSessionEnd, MaintenanceBegin,
           MaintenanceTimeout, PermitRelease, InterruptEnd, ForwardReply, Free
  <2>3. UNCHANGED <<state, current>> \/ state' # "Processing"
    BY <1>1
       DEF CancelQueued, CancelActive, CancelSession, StopTurn, IsProcessing,
           Interrupt, Steer, RoundBoundary, CancelSessionEnd,
           MaintenanceBegin, MaintenanceTimeout, PermitRelease, InterruptEnd,
           ForwardReply, session
  <2>4. /\ phase \in PhaseType
        /\ \/ phase' = phase
           \/ phase' = Dropping(phase, InQueue)
           \/ \E t \in Turn : phase' = [phase EXCEPT ![t] = "dropped"]
    BY <1>1
       DEF CancelQueued, CancelActive, CancelSession, Interrupt, Steer,
           RoundBoundary, CancelSessionEnd, MaintenanceBegin,
           MaintenanceTimeout, PermitRelease, InterruptEnd, ForwardReply,
           tasks, TypeOK, PhaseType
  <2>5. \A t \in Turn : phase'[t] = phase[t] \/ phase'[t] = "dropped"
    BY <2>4 DEF Dropping, PhaseType
  <2>6. \A t \in Turn : Recovering(t)' => Recovering(t)
    BY <2>1, <2>2 DEF Recovering
  <2>7. \A t \in Turn : EntryIsKeptFor(t)'
    BY <2>1, <2>5, <2>6, KeptQuietly DEF EntryIsKept, Open
  <2> QED BY <2>1, <2>2, <2>3, <2>7 DEF EntryIsKept
<1>2. CASE UNCHANGED vars
  <2>1. UNCHANGED <<lock, state, current, latest, active, admission, phase,
                    resumes, outcomes, retired>>
    BY <1>2 DEF vars, session, tasks, marks
  <2>2. \A t \in Turn : EntryIsKeptFor(t)'
    BY <2>1, KeptQuietly DEF EntryIsKept, Recovering
  <2> QED BY <2>1, <2>2 DEF EntryIsKept
<1>3. CASE \E t \in Turn : Winding(t) \/ Panic(t)
  BY <1>3, KeptByTask
<1> QED
  BY <1>1, <1>2, <1>3, NextSteps, KeptByStarting, KeptByTakeOutcome,
     KeptByRecovery DEF Controlling

(* It holds in every reachable state. *)
LEMMA EntriesAreKept == Spec => [](ProcessingIsLive /\ EntryIsKept)
<1>1. Init => ProcessingIsLive /\ EntryIsKept
  <2>1. Init => \A t \in Turn : EntryIsKeptFor(t)
    BY SchedulerConstants
       DEF Init, Free, EntryIsKeptFor, Recovering, Carries, CarriesOne, Open
  <2> QED BY <2>1 DEF Init, Free, ProcessingIsLive, EntryIsKept
<1>2. TypeOK /\ QueueIsTidy /\ ProcessingIsLive /\ [Next]_vars
        => ProcessingIsLive'
  BY LiveStep
<1>3. TypeOK /\ EndedTurnsHaveAReport /\ QueueIsTidy
        /\ CancelledIsNotProcessed /\ ProcessingIsLive /\ EntryIsKept
        /\ [Next]_vars => EntryIsKept'
  BY KeptStep
<1> QED
  BY <1>1, <1>2, <1>3, TypeCorrect, TidyQueues, CancelledTurns, PTL DEF Spec

(* The session processes the turn the entry of active_turns names           *)
(* (start_turn, take_for_outcome, RecoveryActiveTurnAdmission,              *)
(* retire_active_turn_for_maintenance), up to its first recovery, whatever  *)
(* fails: a late outcome, a refused recovery or a maintenance in between    *)
(* does not take the entry from a turn that executes.                       *)
THEOREM ProcessedTurnIsActive == Spec => []ProcessingIsActive
<1>1. TypeOK /\ ProcessingIsLive /\ EntryIsKept => ProcessingIsActive
  <2> SUFFICES ASSUME TypeOK, ProcessingIsLive, EntryIsKept,
                      state = "Processing", resumes[current] < 2
               PROVE  active = current
    BY DEF ProcessingIsActive
  <2>1. current \in Turn /\ phase[current] \in Open /\ latest = current
    BY DEF ProcessingIsLive, EntryIsKept, Open
  <2> QED BY <2>1 DEF EntryIsKept, EntryIsKeptFor
<1> QED BY <1>1, EntriesAreKept, TypeCorrect, PTL

-----------------------------------------------------------------------------
(* Requests do not wait for recovery *)

(* A turn with a reply route is not told to interrupt, reports no           *)
(* interruption, and was never recovered.                                   *)
IsNotInterrupted(t) ==
  /\ durable[t] # "Interrupted"
  /\ resumes[t] = 0
  /\ intent[t] = "none"
  /\ report[t] \notin {"Interrupted", "Interrupting"}

RequestsRunThrough == \A t \in RequestTurn : IsNotInterrupted(t)

(* Without an intent and a recovery the terminal write is no interruption.  *)
LEMMA PlainEnd ==
  ASSUME TypeOK, NEW t \in Turn, IsNotInterrupted(t), EndExecution(t)
  PROVE  IsNotInterrupted(t)'
<1>1. ContractChange(t) = {} /\ StopResult(t) \subseteq Cancellation(t)
  BY DEF ContractChange, StopResult, IsNotInterrupted
<1>2. \A result \in Completion(t) \cup Failure(t) \cup Cancellation(t) :
        /\ result[1] # "Interrupted"
        /\ result[2] \notin {"Interrupted", "Interrupting"}
  BY DEF Completion, Failure, Cancellation, Fallback, IfPersistFails,
         IsNotInterrupted
<1>3. PICK result \in Completion(t) \cup Failure(t) \cup Cancellation(t) :
        /\ durable' = [durable EXCEPT ![t] = result[1]]
        /\ report' = [report EXCEPT ![t] = result[2]]
  BY <1>1 DEF EndExecution
<1>4. durable'[t] = result[1] /\ report'[t] = result[2]
  BY <1>3 DEF TypeOK
<1>5. UNCHANGED <<resumes, intent>>
  BY DEF EndExecution
<1> QED BY <1>2, <1>4, <1>5 DEF IsNotInterrupted

(* The reply route of the processed turn keeps it from being interrupted.   *)
LEMMA RequestStep ==
  ASSUME TypeOK, QueueIsTidy, CancelledIsNotProcessed, ProcessingIsActive,
         RequestsRunThrough, [Next]_vars
  PROVE  RequestsRunThrough'
<1> SUFFICES ASSUME NEW t \in RequestTurn
             PROVE  IsNotInterrupted(t)'
  BY DEF RequestsRunThrough
<1>0. IsNotInterrupted(t) /\ t \in Turn
  BY SchedulerConstants DEF RequestsRunThrough
<1>1. CASE Starting
  <2>1. PICK ph, d : Submitting(ph) /\ Abandoning(d) /\ Begins(ph, d)
    BY <1>1, StartingBegins
  <2>2. UNCHANGED <<report, resumes, intent>>
    BY <1>1, StartingBegins
  <2>3. d \in DurableType /\ d[t] # "Interrupted"
    BY <1>0, <2>1 DEF Abandoning, IsNotInterrupted
  <2>4. \/ durable' = d
        \/ \E u \in Turn : durable' = [d EXCEPT ![u] = "InProgress"]
    BY <2>1 DEF Begins, NoStart, Start
  <2>5. durable'[t] # "Interrupted"
    BY <1>0, <2>3, <2>4 DEF DurableType
  <2> QED BY <1>0, <2>2, <2>5 DEF IsNotInterrupted
<1>2. CASE Controlling
  <2>1. CASE \E u \in Turn : Interrupt(u)
    <3> PICK u \in Turn : Interrupt(u)
      BY <2>1
    <3>1. u # t
      BY <1>0 DEF Interrupt, IsProcessing, ProcessingIsActive, IsNotInterrupted
    <3> QED BY <1>0, <3>1 DEF Interrupt, IsNotInterrupted, TypeOK
  <2>2. CASE InterruptEnd
    <3>1. intent'[t] = intent[t] \/ intent'[t] = "none"
      BY <1>0, <2>2 DEF InterruptEnd, IsNotInterrupted, TypeOK
    <3> QED BY <1>0, <2>2, <3>1 DEF InterruptEnd, IsNotInterrupted
  <2>3. CASE RecoverRun
    <3>1. lock.turn # t
      BY <1>0, <2>3 DEF RecoverRun, Recoverable, IsNotInterrupted
    <3> QED BY <1>0, <2>3, <3>1 DEF RecoverRun, IsNotInterrupted, TypeOK
  <2>4. CASE \/ \E u \in Turn : CancelActive(u)
             \/ \E byRequester \in BOOLEAN : CancelSession(byRequester)
             \/ MaintenanceBegin
    <3>1. /\ UNCHANGED <<report, durable, resumes>>
          /\ \/ UNCHANGED intent
             \/ \E u : intent' = [intent EXCEPT ![u] = "none"]
      BY <2>4 DEF CancelActive, CancelSession, MaintenanceBegin, StopTurn
    <3> QED BY <1>0, <3>1 DEF IsNotInterrupted, TypeOK
  <2>5. CASE \/ \E u \in Turn :
                  \/ CancelQueued(u) \/ RecoverBegin(u) \/ Steer(u)
                  \/ RoundBoundary(u)
             \/ CancelSessionEnd \/ MaintenanceReady \/ MaintenanceTimeout
             \/ PermitRelease \/ RecoverRefused \/ RecoverUndo
             \/ TakeOutcome \/ ForwardReply
    <3>1. UNCHANGED <<report, durable, resumes, intent>>
      BY <2>5
         DEF CancelQueued, RecoverBegin, Steer, RoundBoundary,
             CancelSessionEnd, MaintenanceReady, MaintenanceTimeout,
             PermitRelease, RecoverRefused, RecoverUndo, TakeOutcome,
             ForwardReply, tasks
    <3> QED BY <1>0, <3>1 DEF IsNotInterrupted
  <2> QED BY <1>2, <2>1, <2>2, <2>3, <2>4, <2>5 DEF Controlling
<1>3. CASE \E u \in Turn : Winding(u) \/ Panic(u)
  <2> PICK u \in Turn : Winding(u) \/ Panic(u)
    BY <1>3
  <2>1. CASE EndExecution(u)
    <3>1. CASE u = t
      BY <1>0, <2>1, <3>1, PlainEnd
    <3>2. CASE u # t
      BY <1>0, <2>1, <3>2 DEF EndExecution, IsNotInterrupted, TypeOK
    <3> QED BY <3>1, <3>2
  <2>2. CASE SettleState(u) \/ Exit(u) \/ Panic(u)
    BY <1>0, <2>2 DEF SettleState, Exit, Panic, DropGuard, IsNotInterrupted
  <2>3. CASE Report(u)
    BY <1>0, <2>3 DEF Report, SendOutcome, IsNotInterrupted, TypeOK
  <2>4. CASE CommitInterruption(u) \/ LoseInterruption(u)
    <3>1. u # t
      BY <1>0, <2>4
         DEF CommitInterruption, LoseInterruption, IsNotInterrupted
    <3> QED
      BY <1>0, <2>4, <3>1
         DEF CommitInterruption, LoseInterruption, SendOutcome,
             IsNotInterrupted, TypeOK
  <2> QED BY <2>1, <2>2, <2>3, <2>4 DEF Winding
<1>4. CASE UNCHANGED vars
  BY <1>0, <1>4 DEF vars, tasks, IsNotInterrupted
<1> QED BY <1>1, <1>2, <1>3, <1>4, NextSteps

(* A turn that must answer a requester never waits for recovery             *)
(* (interrupt_turn, matches_agent_session_request): it is refused by what   *)
(* the entry of active_turns says, so that this rests on the entry being    *)
(* that of the turn in question.                                            *)
THEOREM RequestsAreSettled == Spec => []RequestsAreNotRecoverable
<1>1. Init => RequestsRunThrough
  BY SchedulerConstants DEF Init, RequestsRunThrough, IsNotInterrupted
<1>2. TypeOK /\ QueueIsTidy /\ CancelledIsNotProcessed /\ ProcessingIsActive
        /\ RequestsRunThrough /\ [Next]_vars => RequestsRunThrough'
  BY RequestStep
<1>3. RequestsRunThrough => RequestsAreNotRecoverable
  BY DEF RequestsRunThrough, IsNotInterrupted, RequestsAreNotRecoverable
<1> QED
  BY <1>1, <1>2, <1>3, TypeCorrect, TidyQueues, CancelledTurns,
     ProcessedTurnIsActive, PTL DEF Spec

-----------------------------------------------------------------------------
(* The entry and the tombstones have an outcome to come *)

(* An outcome of t is still to be sent: its task runs or is being resumed.  *)
Unsent(t) == phase[t] \in Open \/ lock = [op |-> "recover", turn |-> t]

(* The entry of t stands for one outcome and its tombstone for another.     *)
OutcomesAreOwedFor(t) ==
  /\ phase[t] \in {"new", "waiting"} => ~Carries(outcomes, t)
  /\ t \in retired => Carries(outcomes, t)
  /\ active = t => Unsent(t) \/ Carries(outcomes, t)
  /\ active = t /\ t \in retired => Unsent(t) \/ CarriesTwo(outcomes, t)

(* The inductive invariant; a recovery that has begun goes through.         *)
OutcomesAreOwed ==
  /\ admission = NoTurn
  /\ lock.op = "recover" => Recoverable(lock.turn)
  /\ \A t \in Turn : OutcomesAreOwedFor(t)

(* Steps that touch neither the channel nor the entry owe what was owed.    *)
LEMMA OwedQuietly ==
  ASSUME NEW t \in Turn, OutcomesAreOwedFor(t), UNCHANGED outcomes,
         phase'[t] \in {"new", "waiting"} => phase[t] \in {"new", "waiting"},
         Unsent(t) => Unsent(t)',
         active' = t => active = t,
         t \in retired' => t \in retired
  PROVE  OutcomesAreOwedFor(t)'
BY DEF OutcomesAreOwedFor

(* The turn that starts owes its outcome.                                   *)
LEMMA OwedByStarting ==
  ASSUME TypeOK, QueueIsTidy, CancelledIsNotProcessed, OutcomesAreOwed,
         Starting
  PROVE  OutcomesAreOwed'
<1>1. PICK ph, d : Submitting(ph) /\ Abandoning(d) /\ Begins(ph, d)
  BY StartingBegins
<1>2. /\ lock' = Free /\ lock'.op # "recover"
      /\ UNCHANGED <<admission, outcomes, retired>>
  BY StartingBegins DEF Free
<1>3. lock.op # "recover"
  BY StartingSteps DEF Free
<1>4. \A t \in Turn :
        /\ ph[t] \in {"new", "waiting"} => phase[t] \in {"new", "waiting"}
        /\ Unsent(t) => phase[t] \in Open /\ ph[t] \in Open
  BY <1>1, <1>3 DEF Submitting, Open, Unsent
<1>5. CASE NoStart(ph, d)
  <2>1. UNCHANGED active /\ phase' = ph
    BY <1>5 DEF NoStart
  <2>2. \A t \in Turn : OutcomesAreOwedFor(t)'
    BY <1>2, <1>4, <2>1, OwedQuietly DEF OutcomesAreOwed, Unsent
  <2> QED BY <1>2, <2>2 DEF OutcomesAreOwed
<1>6. ASSUME NEW u \in Turn, phase[u] \in {"new", "waiting"}, Start(u, ph, d)
      PROVE  OutcomesAreOwed'
  <2>1. active' = u /\ phase' = [ph EXCEPT ![u] = "running"]
    BY <1>6 DEF Start
  <2>2. /\ phase'[u] = "running"
        /\ \A t \in Turn : t # u => phase'[t] = ph[t]
    BY <1>1, <2>1 DEF Submitting, PhaseType
  <2>3. OutcomesAreOwedFor(u)'
    BY <1>2, <1>6, <2>2
       DEF OutcomesAreOwed, OutcomesAreOwedFor, Unsent, Open
  <2>4. ASSUME NEW t \in Turn, t # u
        PROVE  OutcomesAreOwedFor(t)'
    BY <1>2, <1>4, <2>1, <2>2, <2>4, OwedQuietly DEF OutcomesAreOwed, Unsent
  <2> QED BY <1>2, <2>3, <2>4 DEF OutcomesAreOwed
<1> QED BY <1>1, <1>5, <1>6 DEF Begins

(* An outcome settles its tombstone, else its entry.                        *)
LEMMA OwedByTakeOutcome ==
  ASSUME TypeOK, QueueIsTidy, OutcomesAreOwed, TakeOutcome
  PROVE  OutcomesAreOwed'
<1>1. PICK h \in Turn : h = Head(outcomes).turn
  <2>1. outcomes \in Seq(Outcome) /\ outcomes # <<>>
    BY DEF TakeOutcome, TypeOK, Outcome
  <2>2. Head(outcomes) \in Outcome
    BY <2>1, HeadTailProperties
  <2> QED BY <2>2 DEF Outcome
<1>2. /\ outcomes \in Seq(Outcome) /\ outcomes # <<>>
      /\ outcomes' = Tail(outcomes) /\ lock = Free
      /\ UNCHANGED <<lock, session, admission>>
      /\ retired' = retired \ {h}
      /\ active' = IF h \in retired \/ active \notin {NoTurn, h}
                   THEN active ELSE NoTurn
      /\ phase' = phase \/ phase' = Dropping(phase, InQueue)
  BY <1>1 DEF TakeOutcome, TakeTombstone, TypeOK, Outcome
<1>3. \A t \in Turn :
        /\ phase'[t] \in {"new", "waiting"} => phase[t] \in {"new", "waiting"}
        /\ phase[t] \in Open => phase'[t] \in Open
  BY <1>2 DEF Dropping, Open, QueueIsTidy, Tidy, InQueue, Elements
<1>4. ASSUME NEW t \in Turn
      PROVE  OutcomesAreOwedFor(t)'
  <2>1. OutcomesAreOwedFor(t)
    BY DEF OutcomesAreOwed
  <2>2. /\ Carries(outcomes', t) => Carries(outcomes, t)
        /\ Carries(outcomes, t) => Carries(outcomes', t) \/ h = t
        /\ CarriesTwo(outcomes, t) => Carries(outcomes', t)
        /\ CarriesTwo(outcomes, t) /\ h # t => CarriesTwo(outcomes', t)
    BY <1>1, <1>2, TakenOutcome
  <2>3. Unsent(t) => Unsent(t)'
    BY <1>2, <1>3 DEF Unsent
  <2>4. active' = t => active = t /\ (h = t => t \in retired)
    BY <1>2, SchedulerConstants
  <2> QED BY <1>2, <1>3, <2>1, <2>2, <2>3, <2>4 DEF OutcomesAreOwedFor
<1>5. lock'.op # "recover"
  BY <1>2 DEF Free
<1> QED BY <1>2, <1>4, <1>5 DEF OutcomesAreOwed

(* What recovery and maintenance do to the entry.                           *)
LEMMA OwedByRecovery ==
  ASSUME ~RecoveryMayFail, TypeOK, QueueIsTidy, ProcessingIsLive,
         OutcomesAreOwed,
         \/ \E t \in Turn : RecoverBegin(t)
         \/ RecoverRun \/ RecoverRefused \/ RecoverUndo \/ MaintenanceReady
  PROVE  OutcomesAreOwed'
<1>1. CASE \E t \in Turn : RecoverBegin(t)
  <2> PICK u \in Turn : RecoverBegin(u)
    BY <1>1
  <2>1. /\ active' = u /\ lock = Free /\ lock' = [op |-> "recover", turn |-> u]
        /\ Recoverable(u) /\ active = NoTurn
        /\ UNCHANGED <<session, admission, phase, durable, outcomes, retired>>
    BY DEF RecoverBegin, tasks, marks
  <2>2. Recoverable(u)' /\ lock'.turn = u
    BY <2>1 DEF Recoverable, Drained, session
  <2>3. ASSUME NEW t \in Turn
        PROVE  OutcomesAreOwedFor(t)'
    <3>1. CASE t = u
      BY <2>1, <3>1 DEF OutcomesAreOwed, OutcomesAreOwedFor, Unsent
    <3>2. CASE t # u
      BY <2>1, <3>2, OwedQuietly DEF OutcomesAreOwed, Unsent, Free
    <3> QED BY <3>1, <3>2
  <2> QED BY <2>1, <2>2, <2>3 DEF OutcomesAreOwed, Recoverable, Drained, session
<1>2. CASE RecoverRun
  <2> PICK u \in Turn : u = lock.turn
    BY <1>2 DEF RecoverRun, ProcessingIsLive
  <2>1. /\ lock' = Free /\ phase' = [phase EXCEPT ![u] = "running"]
        /\ UNCHANGED <<active, admission, outcomes, retired>>
    BY <1>2 DEF RecoverRun, marks
  <2>2. /\ phase'[u] = "running" /\ lock'.op # "recover"
        /\ \A t \in Turn \ {u} : phase'[t] = phase[t]
    BY <2>1 DEF TypeOK, Free
  <2>3. ASSUME NEW t \in Turn
        PROVE  OutcomesAreOwedFor(t)'
    <3>1. phase'[t] \in {"new", "waiting"} => phase[t] \in {"new", "waiting"}
      BY <2>2
    <3>2. Unsent(t) => Unsent(t)'
      BY <2>2 DEF Unsent, Open
    <3> QED BY <2>1, <3>1, <3>2, OwedQuietly DEF OutcomesAreOwed
  <2> QED BY <2>1, <2>2, <2>3 DEF OutcomesAreOwed
<1>3. CASE RecoverRefused \/ RecoverUndo
  BY <1>3 DEF RecoverRefused, RecoverUndo, OutcomesAreOwed
<1>4. CASE MaintenanceReady
  <2>1. /\ Drained /\ active' = NoTurn
        /\ retired' = retired \cup ({active} \ {NoTurn})
        /\ lock.op = "maintenance" /\ lock'.op = "permit"
        /\ UNCHANGED <<admission, phase, outcomes>>
    BY <1>4 DEF MaintenanceReady, RetireActive, tasks
  <2>2. ASSUME NEW t \in Turn
        PROVE  OutcomesAreOwedFor(t)'
    <3>1. OutcomesAreOwedFor(t) /\ ~Unsent(t)
      BY <2>1 DEF OutcomesAreOwed, Unsent, Drained, Open, Executing
    <3>2. t \in retired' => t \in retired \/ active = t
      BY <2>1
    <3> QED
      BY <2>1, <3>1, <3>2, SchedulerConstants DEF OutcomesAreOwedFor
  <2> QED BY <2>1, <2>2 DEF OutcomesAreOwed
<1> QED BY <1>1, <1>2, <1>3, <1>4

(* A task sends the outcome it owes.                                        *)
LEMMA OwedByTask ==
  ASSUME ~TaskMayPanic, TypeOK, EndedTurnsHaveAReport, ProcessingIsLive,
         OutcomesAreOwed, NEW t \in Turn, Winding(t) \/ Panic(t)
  PROVE  OutcomesAreOwed'
<1>1. /\ phase[t] \in Executing /\ ~Panic(t)
      /\ \A u \in Turn : u # t => phase'[u] = phase[u]
      /\ UNCHANGED <<lock, active, admission, retired>>
  BY WindingLives DEF marks, Panic
<1>2. lock.op # "recover"
  BY <1>1 DEF OutcomesAreOwed, Recoverable, Drained
<1>3. \A u \in Turn : OutcomesAreOwedFor(u)'
  <2>1. CASE outcomes' = outcomes
    <3>0. \A o \in Outcome : Append(outcomes, o) # outcomes
      <4>1. outcomes \in Seq(Outcome)
        BY DEF TypeOK, Outcome
      <4> QED BY <4>1, AppendProperties
    <3>1. /\ phase'[t] \notin {"new", "waiting"}
          /\ phase[t] \in Open => phase'[t] \in Open
      BY <1>1, <2>1, <3>0, WindingLives DEF Open, Outcome
    <3>2. \A u \in Turn : Unsent(u) => Unsent(u)'
      BY <1>1, <3>1 DEF Unsent
    <3> QED BY <1>1, <2>1, <3>1, <3>2, OwedQuietly DEF OutcomesAreOwed
  <2>2. CASE outcomes' # outcomes
    <3>1. PICK o \in Outcome : o.turn = t /\ outcomes' = Append(outcomes, o)
      BY <2>2, WindingLives DEF Outcome
    <3>2. phase'[t] = "tail"
      BY <2>2, WindingLives
    <3>3. outcomes \in Seq(Outcome)
      BY DEF TypeOK, Outcome
    <3>4. OutcomesAreOwedFor(t)'
      <4>1. /\ Carries(outcomes', t)
            /\ Carries(outcomes, t) => CarriesTwo(outcomes', t)
        BY <3>1, <3>3, SentOutcome
      <4>2. t \in retired => Carries(outcomes, t)
        BY DEF OutcomesAreOwed, OutcomesAreOwedFor
      <4> QED BY <1>1, <3>2, <4>1, <4>2 DEF OutcomesAreOwedFor
    <3>5. ASSUME NEW u \in Turn, u # t
          PROVE  OutcomesAreOwedFor(u)'
      <4>1. /\ Carries(outcomes', u) <=> Carries(outcomes, u)
            /\ CarriesTwo(outcomes, u) => CarriesTwo(outcomes', u)
        BY <3>1, <3>3, <3>5, SentOutcome
      <4>2. Unsent(u)' <=> Unsent(u)
        BY <1>1, <3>5 DEF Unsent
      <4> QED
        BY <1>1, <3>5, <4>1, <4>2 DEF OutcomesAreOwed, OutcomesAreOwedFor
    <3> QED BY <3>4, <3>5
  <2> QED BY <2>1, <2>2
<1> QED BY <1>1, <1>2, <1>3 DEF OutcomesAreOwed

(* The invariant is inductive while no task unwinds and recovery, once      *)
(* admitted, is not refused.                                                *)
LEMMA OwedStep ==
  ASSUME ~TaskMayPanic, ~RecoveryMayFail, TypeOK, EndedTurnsHaveAReport,
         QueueIsTidy, ProcessingIsLive, CancelledIsNotProcessed,
         OutcomesAreOwed, [Next]_vars
  PROVE  OutcomesAreOwed'
<1>1. CASE \/ \E t \in Turn :
                \/ CancelQueued(t) \/ CancelActive(t) \/ Interrupt(t)
                \/ Steer(t)
           \/ \E byRequester \in BOOLEAN : CancelSession(byRequester)
           \/ CancelSessionEnd \/ MaintenanceBegin \/ MaintenanceTimeout
           \/ PermitRelease \/ InterruptEnd
  <2>1. UNCHANGED <<active, admission, outcomes, retired>>
    BY <1>1
       DEF CancelQueued, CancelActive, CancelSession, StopTurn, Interrupt,
           Steer, CancelSessionEnd, MaintenanceBegin, MaintenanceTimeout,
           PermitRelease, InterruptEnd, tasks, marks
  <2>2. lock.op # "recover" /\ lock'.op # "recover"
    BY <1>1
       DEF CancelQueued, CancelActive, CancelSession, Interrupt, Steer,
           CancelSessionEnd, MaintenanceBegin, MaintenanceTimeout,
           PermitRelease, InterruptEnd, Free
  <2>3. /\ phase \in PhaseType
        /\ \/ phase' = phase
           \/ phase' = Dropping(phase, InQueue)
           \/ \E t \in InQueue : phase' = [phase EXCEPT ![t] = "dropped"]
    BY <1>1
       DEF CancelQueued, CancelActive, CancelSession, Interrupt, Steer,
           CancelSessionEnd, MaintenanceBegin, MaintenanceTimeout,
           PermitRelease, InterruptEnd, tasks, TypeOK, PhaseType
  <2>4. \A t \in Turn :
          \/ phase'[t] = phase[t]
          \/ phase'[t] = "dropped" /\ phase[t] = "waiting"
    BY <2>3
       DEF Dropping, PhaseType, QueueIsTidy, Tidy, InQueue, Elements
  <2>5. \A t \in Turn : Unsent(t) => Unsent(t)'
    BY <2>2, <2>4 DEF Unsent, Open
  <2>6. \A t \in Turn : OutcomesAreOwedFor(t)'
    BY <2>1, <2>4, <2>5, OwedQuietly DEF OutcomesAreOwed
  <2> QED BY <2>1, <2>2, <2>6 DEF OutcomesAreOwed
<1>2. CASE (\E t \in Turn : RoundBoundary(t)) \/ ForwardReply \/ UNCHANGED vars
  <2>1. UNCHANGED <<lock, active, admission, outcomes, retired, session, phase,
                    durable>>
    BY <1>2 DEF RoundBoundary, ForwardReply, vars, tasks, marks
  <2>2. \A t \in Turn : OutcomesAreOwedFor(t)'
    BY <2>1, OwedQuietly DEF OutcomesAreOwed, Unsent
  <2> QED
    BY <2>1, <2>2 DEF OutcomesAreOwed, Recoverable, Drained, session
<1>3. CASE \E t \in Turn : Winding(t) \/ Panic(t)
  BY <1>3, OwedByTask
<1> QED
  BY <1>1, <1>2, <1>3, NextSteps, OwedByStarting, OwedByTakeOutcome,
     OwedByRecovery DEF Controlling

(* Without panics and refused recoveries it holds in every state.           *)
LEMMA OwedOutcomes ==
  ASSUME ~TaskMayPanic, ~RecoveryMayFail
  PROVE  Spec => []OutcomesAreOwed
<1>1. Init => OutcomesAreOwed
  BY SchedulerConstants
     DEF Init, Free, OutcomesAreOwed, OutcomesAreOwedFor, Carries
<1>2. TypeOK /\ EndedTurnsHaveAReport /\ QueueIsTidy /\ ProcessingIsLive
        /\ CancelledIsNotProcessed /\ OutcomesAreOwed /\ [Next]_vars
        => OutcomesAreOwed'
  BY OwedStep
<1> QED
  BY <1>1, <1>2, TypeCorrect, TidyQueues, EntriesAreKept, CancelledTurns,
     PTL DEF Spec

(* The entry of active_turns is always going to be retired                  *)
(* (run_outcome_handler, take_for_outcome): whatever is submitted,          *)
(* cancelled, recovered or maintained in between, its turn executes, its    *)
(* outcome is in the channel, or its recovery is being decided.  Not when a *)
(* task unwinds without an outcome, nor when maintenance retires the entry  *)
(* of a refused recovery: that tombstone takes the outcome of another.      *)
THEOREM ActiveEntryIsRetired ==
  ASSUME ~TaskMayPanic, ~RecoveryMayFail
  PROVE  Spec => []ActiveWillRetire
<1>1. TypeOK /\ OutcomesAreOwed => ActiveWillRetire
  BY DEF TypeOK, OutcomesAreOwed, OutcomesAreOwedFor, ActiveWillRetire,
         Unsent, Open, Executing, Carries, Reported
<1> QED BY <1>1, OwedOutcomes, TypeCorrect, PTL

(* A tombstone of maintenance is for an outcome on its way                  *)
(* (retired_maintenance_outcomes): it is consumed by it, under the same     *)
(* two provisos.                                                            *)
THEOREM TombstonesAreTaken ==
  ASSUME ~TaskMayPanic, ~RecoveryMayFail
  PROVE  Spec => []TombstonesAreConsumed
<1>1. TypeOK /\ OutcomesAreOwed => TombstonesAreConsumed
  BY DEF TypeOK, OutcomesAreOwed, OutcomesAreOwedFor, TombstonesAreConsumed,
         Carries, Reported
<1> QED BY <1>1, OwedOutcomes, TypeCorrect, PTL

-----------------------------------------------------------------------------
(* The hold of an interrupted turn *)

(* A session in Error is not held, and the turn that failed stays ended.    *)
ErrorIsNotHeld ==
  /\ \A t \in Turn : report[t] = "Failed" => durable[t] # "Interrupted"
  /\ \A t \in Turn : state = "Error" /\ latest = t
                       => durable[t] # "Interrupted" /\ phase[t] # "running"

(* While terminal writes succeed, a turn that reports a failure has not     *)
(* been persisted as interrupted.                                           *)
LEMMA UnheldByTask ==
  ASSUME ~PersistMayFail, TypeOK, EntryIsKept, ErrorIsNotHeld,
         NEW t \in Turn, Winding(t) \/ Panic(t)
  PROVE  ErrorIsNotHeld'
<1>0. \A results : IfPersistFails(results) = {}
  BY DEF IfPersistFails
<1>1. CASE EndExecution(t)
  <2>1. PICK result \in {<<"Completed", "Completed">>, <<"Failed", "Failed">>,
                         <<"Cancelled", "Cancelled">>,
                         <<"Interrupted", "Interrupted">>,
                         <<"Interrupted", "Interrupting">>} :
          /\ durable' = [durable EXCEPT ![t] = result[1]]
          /\ report' = [report EXCEPT ![t] = result[2]]
    BY <1>0, <1>1, ZenonT(30)
       DEF EndExecution, Completion, Failure, Cancellation, ContractChange,
           StopResult, Interruption, Fallback
  <2>2. /\ phase[t] = "running" /\ phase' = [phase EXCEPT ![t] = "persisted"]
        /\ UNCHANGED <<state, latest>>
    BY <1>1 DEF EndExecution, session
  <2>3. /\ durable'[t] = result[1] /\ report'[t] = result[2]
        /\ phase'[t] = "persisted"
        /\ \A u \in Turn : u # t => /\ durable'[u] = durable[u]
                                    /\ report'[u] = report[u]
                                    /\ phase'[u] = phase[u]
    BY <2>1, <2>2 DEF TypeOK
  <2> QED BY <2>2, <2>3 DEF ErrorIsNotHeld
<1>2. CASE SettleState(t)
  <2>1. /\ phase[t] = "persisted" /\ phase' = [phase EXCEPT ![t] = "settled"]
        /\ UNCHANGED <<latest, report, durable>>
        /\ IF IsProcessing(t)
           THEN state' = IF report[t] = "Failed" THEN "Error" ELSE "Idle"
           ELSE UNCHANGED state
    BY <1>2 DEF SettleState
  <2>2. IsProcessing(t) => latest = t
    BY DEF IsProcessing, EntryIsKept
  <2> QED BY <2>1, <2>2 DEF ErrorIsNotHeld, TypeOK
<1>3. CASE Report(t) \/ CommitInterruption(t)
  <2>1. /\ UNCHANGED <<state, latest, durable>>
        /\ \E status : SendOutcome(t, status)
    BY <1>3 DEF Report, CommitInterruption, session
  <2> QED BY <2>1 DEF SendOutcome, ErrorIsNotHeld, TypeOK
<1>4. CASE LoseInterruption(t)
  <2>1. /\ durable' = [durable EXCEPT ![t] = "Cancelled"]
        /\ report' = [report EXCEPT ![t] = "Cancelled"]
        /\ phase' = [phase EXCEPT ![t] = "persisted"]
        /\ UNCHANGED <<state, latest>>
    <3>1. PICK result \in {<<"Cancelled", "Cancelled">>}
                          \cup IfPersistFails(Interruption(t, "Interrupted")) :
            /\ durable' = [durable EXCEPT ![t] = result[1]]
            /\ report' = [report EXCEPT ![t] = result[2]]
      BY <1>4 DEF LoseInterruption
    <3>2. IfPersistFails(Interruption(t, "Interrupted")) = {}
      BY <1>0
    <3>3. result = <<"Cancelled", "Cancelled">>
      BY <3>1, <3>2
    <3> QED BY <3>1, <3>3, <1>4 DEF LoseInterruption, session
  <2> QED BY <2>1 DEF ErrorIsNotHeld, TypeOK
<1>5. CASE Exit(t) \/ Panic(t)
  BY <1>5 DEF Exit, Panic, DropGuard, ErrorIsNotHeld, TypeOK
<1> QED BY <1>1, <1>2, <1>3, <1>4, <1>5 DEF Winding

(* The invariant is inductive while terminal writes succeed.                *)
LEMMA UnheldStep ==
  ASSUME ~PersistMayFail, TypeOK, QueueIsTidy, ProcessingIsLive,
         CancelledIsNotProcessed, EntryIsKept, ErrorIsNotHeld, [Next]_vars
  PROVE  ErrorIsNotHeld'
<1>1. CASE Starting
  <2>1. PICK ph, d : Submitting(ph) /\ Abandoning(d) /\ Begins(ph, d)
    BY <1>1, StartingBegins
  <2>2. report' = report
    BY <1>1, StartingBegins
  <2>3. \A t \in Turn : /\ d[t] = "Interrupted" => durable[t] = "Interrupted"
                        /\ ph[t] = "running" => phase[t] = "running"
    BY <2>1 DEF Abandoning, Submitting
  <2>4. CASE NoStart(ph, d)
    BY <2>2, <2>3, <2>4 DEF NoStart, session, ErrorIsNotHeld
  <2>5. CASE \E u \in Turn : Start(u, ph, d)
    <3> PICK u \in Turn : Start(u, ph, d)
      BY <2>5
    <3>1. state' = "Processing" /\ durable' = [d EXCEPT ![u] = "InProgress"]
      BY DEF Start
    <3>2. \A t \in Turn : durable'[t] = d[t] \/ durable'[t] = "InProgress"
      BY <2>1, <3>1 DEF Abandoning, DurableType
    <3> QED BY <2>2, <2>3, <3>1, <3>2 DEF ErrorIsNotHeld
  <2> QED BY <2>1, <2>4, <2>5 DEF Begins
<1>2. CASE Controlling
  <2>1. CASE RecoverRun
    <3>1. /\ state' = "Processing" /\ report' = report
          /\ durable' = [durable EXCEPT ![lock.turn] = "InProgress"]
      BY <2>1 DEF RecoverRun
    <3>2. \A t \in Turn :
            durable'[t] = durable[t] \/ durable'[t] = "InProgress"
      BY <3>1 DEF TypeOK
    <3> QED BY <3>1, <3>2 DEF ErrorIsNotHeld
  <2>2. CASE ~RecoverRun
    <3>1. report' = report /\ Undisturbed(phase')
      BY <1>2, <2>2, ControllingSteps
    <3>2. UNCHANGED <<latest, durable>>
      BY <1>2, <2>2
         DEF Controlling, CancelQueued, CancelActive, CancelSession, StopTurn,
             CancelSessionEnd, MaintenanceBegin, MaintenanceReady,
             MaintenanceTimeout, PermitRelease, Interrupt, InterruptEnd,
             RecoverBegin, RecoverRefused, RecoverUndo, Steer, RoundBoundary,
             TakeOutcome, ForwardReply, session, tasks
    <3>3. state' = "Error" => state = "Error"
      BY <1>2, <2>2
         DEF Controlling, CancelQueued, CancelActive, CancelSession, StopTurn,
             CancelSessionEnd, MaintenanceBegin, MaintenanceReady,
             MaintenanceTimeout, PermitRelease, Interrupt, InterruptEnd,
             RecoverBegin, RecoverRefused, RecoverUndo, Steer, RoundBoundary,
             TakeOutcome, ForwardReply, session
    <3> QED
      BY <3>1, <3>2, <3>3 DEF ErrorIsNotHeld, Undisturbed, Executing
  <2> QED BY <2>1, <2>2
<1>3. CASE \E t \in Turn : Winding(t) \/ Panic(t)
  BY <1>3, UnheldByTask
<1>4. CASE UNCHANGED vars
  BY <1>4 DEF vars, session, tasks, ErrorIsNotHeld
<1> QED BY <1>1, <1>2, <1>3, <1>4, NextSteps

(* Dispatch starts a turn under a hold only by giving it up.                *)
LEMMA DispatchUnderHold ==
  ASSUME TypeOK, QueueIsTidy, Holds(durable), latest' # latest,
         NEW q \in Seq(Turn), NEW ph, NEW d \in DurableType,
         TryStartNext(q, ph, d),
         \A u \in Elements(q) : phase[u] \in {"new", "waiting"},
         d = durable \/ \E t : d = Abandon(durable, t)
  PROVE  durable'[latest] = "Cancelled"
<1>1. q # <<>> /\ ~Holds(d) /\ Start(Head(q), ph, d)
  BY DEF TryStartNext, NoStart, session
<1>2. latest \in Turn /\ durable[latest] = "Interrupted"
  BY DEF Holds, TypeOK
<1>3. d[latest] = "Cancelled"
  BY <1>1, <1>2 DEF Holds, Abandon
<1>4. Head(q) # latest
  <2>1. Head(q) \in Elements(q) /\ Head(q) \in Turn
    BY <1>1, HeadTailProperties, TailIsWithoutFirst DEF Elements
  <2> QED BY <1>2, <2>1 DEF QueueIsTidy, Tidy
<1>5. durable' = [d EXCEPT ![Head(q)] = "InProgress"]
  BY <1>1 DEF Start
<1> QED BY <1>2, <1>3, <1>4, <1>5 DEF DurableType

(* So does submission, and so do the cancellations.                         *)
LEMMA HoldIsGivenUp ==
  ASSUME ~PersistMayFail, TypeOK, QueueIsTidy, ErrorIsNotHeld, Starting,
         Holds(durable), latest' # latest
  PROVE  durable'[latest] = "Cancelled"
<1>1. /\ durable \in DurableType /\ queue \in Seq(Turn)
      /\ \A u \in Elements(queue) : u \in Turn /\ phase[u] = "waiting"
      /\ \A t : Abandon(durable, t) \in DurableType
  <2>1. durable \in DurableType /\ queue \in Seq(Turn)
    BY DEF TypeOK, DurableType
  <2>2. \A u \in Elements(queue) : u \in Turn
    BY <2>1, ElementOfSeq DEF Elements
  <2> QED BY <2>1, <2>2, AbandonType DEF QueueIsTidy, Tidy
<1>2. latest \in Turn /\ durable[latest] = "Interrupted" /\ state # "Error"
  BY DEF Holds, TypeOK, ErrorIsNotHeld
<1>3. CASE DispatchNext
  BY <1>1, <1>3, DispatchUnderHold DEF DispatchNext
<1>4. ASSUME NEW t, AbandonAndDispatch(t)
      PROVE  durable'[latest] = "Cancelled"
  BY <1>1, <1>4, DispatchUnderHold DEF AbandonAndDispatch
<1>5. CASE CancelEnd \/ \E t \in Turn : CancelInterrupted(t)
  BY <1>4, <1>5 DEF CancelEnd, CancelInterrupted, session
<1>6. CASE \E t \in Turn : Submit(t)
  <2> PICK t \in Turn : Submit(t)
    BY <1>6
  <2>1. phase[t] = "new" /\ durable[t] = "none"
    BY DEF Submit, QueueIsTidy, Tidy
  <2>2. CASE SubmitStart(t)
    <3>1. ReleasesHold(t) /\ Superseded(t) = {latest}
      BY <1>2, <2>2 DEF SubmitStart, StateFact, Superseded
    <3>2. \E ph : Start(t, ph, Abandon(durable, latest))
      BY <2>2, <3>1 DEF SubmitStart, NoStart, session
    <3>3. durable' = [Abandon(durable, latest) EXCEPT ![t] = "InProgress"]
      BY <3>2 DEF Start
    <3> QED BY <1>1, <1>2, <2>1, <3>3 DEF Abandon, DurableType
  <2>3. CASE SubmitThenStartNext(t)
    <3>1. /\ Enqueue(queue, t) \in Seq(Turn)
          /\ Elements(Enqueue(queue, t)) = Elements(queue) \cup {t}
      <4>1. t \notin Elements(queue) /\ Ordered(queue) /\ Distinct(queue)
        BY <2>1 DEF QueueIsTidy, Tidy
      <4> QED BY <1>1, <4>1, EnqueueFacts, EnqueueKeeps
    <3> QED
      BY <1>1, <2>1, <2>3, <3>1, DispatchUnderHold DEF SubmitThenStartNext
  <2>4. CASE SubmitQueued(t) \/ SubmitRejected(t)
    BY <2>4 DEF SubmitQueued, SubmitRejected, NoStart, session
  <2> QED BY <2>2, <2>3, <2>4 DEF Submit
<1> QED BY <1>3, <1>5, <1>6 DEF Starting

(* While the latest turn waits for recovery no other turn starts, unless    *)
(* its recovery fact is given up in the same step                           *)
(* (latest_dialog_turn_holds_dispatch, abandon_interrupted_dialog_turn),    *)
(* whatever else fails.  If the fact cannot be written, submission starts   *)
(* the turn all the same: hence the proviso.                                *)
THEOREM HoldIsKept ==
  ASSUME ~PersistMayFail
  PROVE  Spec => InterruptedWorkIsHeld
<1>1. Init => ErrorIsNotHeld
  BY DEF Init, ErrorIsNotHeld
<1>2. TypeOK /\ QueueIsTidy /\ ProcessingIsLive /\ CancelledIsNotProcessed
        /\ EntryIsKept /\ ErrorIsNotHeld /\ [Next]_vars => ErrorIsNotHeld'
  BY UnheldStep
<1>3. TypeOK /\ QueueIsTidy /\ ErrorIsNotHeld /\ [Next]_vars
        => [Holds(durable) /\ latest' # latest
              => durable'[latest] = "Cancelled"]_vars
  <2> SUFFICES ASSUME TypeOK, QueueIsTidy, ErrorIsNotHeld, Next,
                      Holds(durable), latest' # latest
               PROVE  durable'[latest] = "Cancelled"
    OBVIOUS
  <2>1. CASE Starting
    BY <2>1, HoldIsGivenUp
  <2>2. CASE Controlling
    BY <2>2
       DEF Controlling, CancelQueued, CancelActive, CancelSession, StopTurn,
           CancelSessionEnd, MaintenanceBegin, MaintenanceReady,
           MaintenanceTimeout, PermitRelease, Interrupt, InterruptEnd,
           RecoverBegin, RecoverRun, RecoverRefused, RecoverUndo, Steer,
           RoundBoundary, TakeOutcome, ForwardReply, session
  <2>3. CASE \E t \in Turn : Winding(t) \/ Panic(t)
    BY <2>3
       DEF Winding, Panic, EndExecution, SettleState, Report, Exit,
           CommitInterruption, LoseInterruption, DropGuard, session
  <2> QED BY <2>1, <2>2, <2>3, NextSteps
<1> QED
  BY <1>1, <1>2, <1>3, TypeCorrect, TidyQueues, EntriesAreKept,
     CancelledTurns, PTL DEF Spec, InterruptedWorkIsHeld

-----------------------------------------------------------------------------
(* Injections end with their turn *)

(* The statuses and reports of an interrupted turn.                         *)
Interrupting == {"Interrupted", "Interrupting"}

(* The session processes t and knows it as active: t can be steered.        *)
Steerable(t) == IsProcessing(t) /\ active = t

(* The last outcome of t in the channel s is an interruption.               *)
EndsInterrupted(s, t) ==
  \E i \in 1..Len(s) : /\ s[i].turn = t /\ s[i].status = "Interrupted"
                       /\ \A j \in 1..Len(s) : j > i => s[j].turn # t

(* The outcome handler is about to drain the injections of t.               *)
Discarding(t) ==
  handler.stage = "reply" /\ handler.turn = t
  /\ handler.status # "Interrupted"

(* Whoever reports an interruption of t has made it recoverable, so that    *)
(* its injections wait for the recovery or for the last outcome of t.       *)
InjectionIsDueFor(t) ==
  /\ phase[t] \notin {"persisted", "settled"} => report[t] = "none"
  /\ report[t] \in Interrupting /\ (t \in buffered \/ Steerable(t))
       => durable[t] = "Interrupted"
  /\ t \in buffered =>
       \/ phase[t] \in Open \/ Carries(outcomes, t) \/ Discarding(t)
       \/ durable[t] = "Interrupted"
  /\ t \in buffered /\ EndsInterrupted(outcomes, t)
       => phase[t] \in Open \/ durable[t] = "Interrupted"

InjectionsAreDue == \A t \in Turn : InjectionIsDueFor(t)

(* Sending an outcome decides the last one of its turn, and of no other.    *)
LEMMA EndOfSent ==
  ASSUME NEW s \in Seq(Outcome), NEW o \in Outcome, NEW u,
         EndsInterrupted(Append(s, o), u)
  PROVE  IF o.turn = u THEN o.status = "Interrupted" ELSE EndsInterrupted(s, u)
<1> DEFINE r == Append(s, o)
<1>1. /\ Len(s) \in Nat /\ Len(r) = Len(s) + 1 /\ r[Len(s) + 1] = o
      /\ \A i \in 1..Len(s) : r[i] = s[i]
  BY AppendProperties
<1> PICK i \in 1..Len(r) :
      /\ r[i].turn = u /\ r[i].status = "Interrupted"
      /\ \A j \in 1..Len(r) : j > i => r[j].turn # u
  BY DEF EndsInterrupted
<1> HIDE DEF r
<1>2. CASE i = Len(s) + 1
  BY <1>1, <1>2
<1>3. CASE i \in 1..Len(s)
  <2>1. Len(s) + 1 \in 1..Len(r) /\ Len(s) + 1 > i
    BY <1>1, <1>3
  <2>2. o.turn # u
    BY <1>1, <2>1
  <2>3. \A j \in 1..Len(s) : j \in 1..Len(r) /\ r[j] = s[j]
    BY <1>1
  <2> QED BY <1>3, <2>2, <2>3 DEF EndsInterrupted
<1> QED BY <1>1, <1>2, <1>3

(* Taking an outcome: the last outcome of a turn stays the last.            *)
LEMMA EndOfTaken ==
  ASSUME NEW s \in Seq(Outcome), s # <<>>, NEW u
  PROVE  /\ EndsInterrupted(Tail(s), u) => EndsInterrupted(s, u)
         /\ Head(s) = [turn |-> u, status |-> "Interrupted"]
            /\ ~Carries(Tail(s), u) => EndsInterrupted(s, u)
<1> DEFINE r == Tail(s)
<1>1. /\ Len(s) \in Nat \ {0} /\ Len(r) = Len(s) - 1 /\ Head(s) = s[1]
      /\ \A i \in 1..Len(r) : r[i] = s[i + 1]
  BY HeadTailProperties, EmptySeq
<1> HIDE DEF r
<1>2. \A j \in 1..Len(s) :
        j > 1 => j - 1 \in 1..Len(r) /\ r[j - 1] = s[j]
  <2> SUFFICES ASSUME NEW j \in 1..Len(s), j > 1
               PROVE  j - 1 \in 1..Len(r) /\ r[j - 1] = s[j]
    OBVIOUS
  <2>1. j - 1 \in 1..Len(r) /\ (j - 1) + 1 = j
    BY <1>1
  <2> QED BY <2>1, <1>1
<1>3. EndsInterrupted(r, u) => EndsInterrupted(s, u)
  <2> SUFFICES ASSUME EndsInterrupted(r, u)
               PROVE  EndsInterrupted(s, u)
    OBVIOUS
  <2> PICK i \in 1..Len(r) :
        /\ r[i].turn = u /\ r[i].status = "Interrupted"
        /\ \A j \in 1..Len(r) : j > i => r[j].turn # u
    BY DEF EndsInterrupted
  <2>1. i + 1 \in 1..Len(s) /\ s[i + 1] = r[i]
    BY <1>1
  <2>2. ASSUME NEW j \in 1..Len(s), j > i + 1
        PROVE  s[j].turn # u
    <3>1. j > 1 /\ j - 1 > i
      BY <2>2
    <3> QED BY <1>2, <3>1
  <2> QED BY <2>1, <2>2 DEF EndsInterrupted
<1>4. Head(s) = [turn |-> u, status |-> "Interrupted"] /\ ~Carries(r, u)
        => EndsInterrupted(s, u)
  <2>1. 1 \in 1..Len(s)
    BY <1>1
  <2> QED BY <1>1, <1>2, <2>1 DEF EndsInterrupted, Carries
<1> QED BY <1>3, <1>4 DEF r

(* Steps that leave the report of t and give up its recovery only with its  *)
(* injections.                                                              *)
LEMMA DueQuietly ==
  ASSUME NEW t \in Turn, InjectionIsDueFor(t), report'[t] = report[t],
         phase'[t] = phase[t] \/ {phase[t], phase'[t]} \cap Open = {},
         Carries(outcomes, t) => Carries(outcomes, t)',
         EndsInterrupted(outcomes, t)' => EndsInterrupted(outcomes, t),
         Steerable(t)' => Steerable(t),
         t \in buffered' => t \in buffered /\ (Discarding(t) => Discarding(t)'),
         durable[t] = "Interrupted" =>
           \/ durable'[t] = "Interrupted"
           \/ t \notin buffered' /\ ~Steerable(t)'
  PROVE  InjectionIsDueFor(t)'
BY DEF InjectionIsDueFor, Open

(* A turn that starts has reported nothing.                                 *)
LEMMA DueByStarting ==
  ASSUME TypeOK, QueueIsTidy, CancelledIsNotProcessed, InjectionsAreDue,
         Starting
  PROVE  InjectionsAreDue'
<1>1. PICK ph, d : Submitting(ph) /\ Abandoning(d) /\ Begins(ph, d)
  BY StartingBegins
<1>2. /\ buffered' \subseteq buffered /\ UNCHANGED <<report, outcomes>>
      /\ handler.stage = "reply" => handler' = handler
  BY StartingBegins
<1>3. \A t \in Turn :
        /\ ph[t] = phase[t] \/ {phase[t], ph[t]} \cap Open = {}
        /\ durable[t] = "Interrupted" =>
             \/ d[t] = "Interrupted"
             \/ t \notin buffered' /\ ~Steerable(t)
        /\ Discarding(t) => Discarding(t)'
  BY <1>1, <1>2 DEF Submitting, Abandoning, Open, Steerable, Discarding
<1>4. CASE NoStart(ph, d)
  <2>1. /\ phase' = ph /\ durable' = d
        /\ \A t \in Turn : Steerable(t)' <=> Steerable(t)
    BY <1>4 DEF NoStart, session, Steerable, IsProcessing
  <2> QED BY <1>2, <1>3, <2>1, DueQuietly DEF InjectionsAreDue
<1>5. ASSUME NEW u \in Turn, phase[u] \in {"new", "waiting"}, Start(u, ph, d)
      PROVE  InjectionsAreDue'
  <2>1. /\ phase'[u] = "running" /\ current' = u
        /\ \A t \in Turn \ {u} : phase'[t] = ph[t] /\ durable'[t] = d[t]
    BY <1>1, <1>5
       DEF Start, Submitting, Abandoning, PhaseType, DurableType
  <2>2. InjectionIsDueFor(u)'
    BY <1>2, <1>5, <2>1
       DEF InjectionsAreDue, InjectionIsDueFor, Interrupting, Open
  <2>3. ASSUME NEW t \in Turn, t # u
        PROVE  InjectionIsDueFor(t)'
    <3>1. ~Steerable(t)'
      BY <2>1, <2>3 DEF Steerable, IsProcessing
    <3> QED BY <1>2, <1>3, <2>1, <2>3, <3>1, DueQuietly DEF InjectionsAreDue
  <2> QED BY <2>2, <2>3 DEF InjectionsAreDue
<1> QED BY <1>1, <1>4, <1>5 DEF Begins

(* An outcome that is ignored takes the injections along; else the handler  *)
(* drains them, unless the turn waits for recovery.                         *)
LEMMA DueByTakeOutcome ==
  ASSUME TypeOK, QueueIsTidy, InjectionsAreDue, TakeOutcome
  PROVE  InjectionsAreDue'
<1>1. outcomes \in Seq(Outcome) /\ outcomes # <<>>
  BY DEF TakeOutcome, TypeOK, Outcome
<1>2. PICK o \in Outcome : o = Head(outcomes)
  BY <1>1, HeadTailProperties
<1>3. /\ outcomes' = Tail(outcomes)
      /\ UNCHANGED <<session, report, durable>>
      /\ active' = active \/ active' = NoTurn
      /\ phase' = phase \/ phase' = Dropping(phase, InQueue)
      /\ buffered' \subseteq buffered
      /\ ~ \E t : Discarding(t)
      /\ \/ o.turn \notin buffered'
         \/ handler'.stage = "reply" /\ handler'.turn = o.turn
            /\ handler'.status = o.status
  BY <1>2, SMTT(30)
     DEF TakeOutcome, TypeOK, DrainInjections, Discarding, NoHandler
<1> SUFFICES ASSUME NEW t \in Turn
             PROVE  InjectionIsDueFor(t)'
  BY DEF InjectionsAreDue
<1>4. phase'[t] = phase[t] \/ {phase[t], phase'[t]} \cap Open = {}
  BY <1>3 DEF Dropping, Open, QueueIsTidy, Tidy, InQueue, Elements
<1>5. /\ Carries(outcomes, t) => Carries(outcomes', t) \/ o.turn = t
      /\ EndsInterrupted(outcomes', t) => EndsInterrupted(outcomes, t)
      /\ o = [turn |-> t, status |-> "Interrupted"] /\ ~Carries(outcomes', t)
           => EndsInterrupted(outcomes, t)
  BY <1>1, <1>2, <1>3, TakenOutcome, EndOfTaken
<1>6. Steerable(t)' => Steerable(t)
  BY <1>3, SchedulerConstants DEF Steerable, IsProcessing, session
<1>7. o.turn = t /\ o.status = "Interrupted"
        => o = [turn |-> t, status |-> "Interrupted"]
  BY DEF Outcome
<1>8. InjectionIsDueFor(t)
  BY DEF InjectionsAreDue
<1>9. ASSUME t \in buffered'
      PROVE  \/ phase'[t] \in Open \/ Carries(outcomes', t) \/ Discarding(t)'
             \/ durable'[t] = "Interrupted"
  BY <1>3, <1>4, <1>5, <1>7, <1>8, <1>9
     DEF InjectionIsDueFor, Discarding, Open
<1> QED BY <1>3, <1>4, <1>5, <1>6, <1>8, <1>9 DEF InjectionIsDueFor, Open

(* A terminal write that is reported as an interruption left the recovery   *)
(* fact.                                                                    *)
LEMMA InterruptionIsWritten ==
  ASSUME NEW t \in Turn,
         NEW result \in Completion(t) \cup Failure(t) \cup ContractChange(t)
                        \cup StopResult(t)
                        \cup {<<"Cancelled", "Cancelled">>}
                        \cup IfPersistFails(Interruption(t, "Interrupted"))
  PROVE  result[2] \in Interrupting => result[1] = "Interrupted"
<1>1. \A r \in PlainCancellation(t) : r[2] \notin Interrupting
  BY DEF PlainCancellation, IfPersistFails, Interrupting
<1>2. \A outcome : \A r \in Interruption(t, outcome) :
        r[2] \in Interrupting => r[1] = "Interrupted"
  BY <1>1 DEF Interruption, IfPersistFails
<1>3. \A outcome : outcome \notin Interrupting =>
        \A r \in Fallback(t, outcome) :
          r[2] \in Interrupting => r[1] = "Interrupted"
  BY <1>2 DEF Fallback, IfPersistFails
<1>4. \A r \in Completion(t) \cup Failure(t) \cup Cancellation(t) :
        r[2] \in Interrupting => r[1] = "Interrupted"
  BY <1>3 DEF Completion, Failure, Cancellation, Interrupting
<1>5. \A r \in ContractChange(t) \cup StopResult(t)
               \cup IfPersistFails(Interruption(t, "Interrupted")) :
        r[2] \in Interrupting => r[1] = "Interrupted"
  BY <1>2, <1>4 DEF ContractChange, StopResult, IfPersistFails
<1>6. result = <<"Cancelled", "Cancelled">> => result[2] \notin Interrupting
  BY DEF Interrupting
<1> QED BY <1>4, <1>5, <1>6

(* A task reports an interruption after the write that makes it recoverable.*)
LEMMA DueByTask ==
  ASSUME ~TaskMayPanic, TypeOK, EndedTurnsHaveAReport, InjectionsAreDue,
         NEW t \in Turn, Winding(t) \/ Panic(t)
  PROVE  InjectionsAreDue'
<1>1. /\ ~Panic(t)
      /\ \A u \in Turn : u # t => phase'[u] = phase[u]
      /\ UNCHANGED <<active, handler, buffered>>
  BY WindingLives DEF marks, Panic
<1>2. \A u \in Turn : Steerable(u)' => Steerable(u)
  BY <1>1, TaskSteps DEF Steerable, IsProcessing
<1>3. outcomes \in Seq(Outcome)
  BY DEF TypeOK, Outcome
<1>4. \/ outcomes' = outcomes
      \/ \E o \in Outcome : /\ o.turn = t /\ outcomes' = Append(outcomes, o)
                            /\ report[t] \in {o.status, "Interrupting"}
                            /\ phase'[t] = "tail"
  BY WindingLives DEF Outcome
<1>5. ASSUME NEW u \in Turn, u # t
      PROVE  InjectionIsDueFor(u)'
  <2>1. report'[u] = report[u] /\ durable'[u] = durable[u]
    BY <1>1, <1>5
       DEF Winding, EndExecution, SettleState, Report, CommitInterruption,
           LoseInterruption, SendOutcome, Exit, DropGuard, TypeOK
  <2>2. /\ Carries(outcomes, u) => Carries(outcomes, u)'
        /\ EndsInterrupted(outcomes, u)' => EndsInterrupted(outcomes, u)
    <3>1. CASE outcomes' = outcomes
      BY <3>1 DEF Carries, EndsInterrupted
    <3>2. CASE outcomes' # outcomes
      <4>1. PICK o \in Outcome : o.turn = t /\ outcomes' = Append(outcomes, o)
        BY <1>4, <3>2
      <4>2. /\ Carries(outcomes, u) => Carries(outcomes', u)
            /\ EndsInterrupted(outcomes', u) => EndsInterrupted(outcomes, u)
        BY <1>3, <1>5, <4>1, SentOutcome, EndOfSent
      <4> QED BY <4>2 DEF Carries, EndsInterrupted
    <3> QED BY <3>1, <3>2
  <2>3. Discarding(u) => Discarding(u)'
    BY <1>1 DEF Discarding
  <2> QED
    BY <1>1, <1>2, <1>5, <2>1, <2>2, <2>3, DueQuietly DEF InjectionsAreDue
<1>6. InjectionIsDueFor(t)'
  <2>1. InjectionIsDueFor(t)
    BY DEF InjectionsAreDue
  <2>2. CASE EndExecution(t) \/ LoseInterruption(t)
    <3>1. PICK result \in Completion(t) \cup Failure(t) \cup ContractChange(t)
                          \cup StopResult(t)
                          \cup {<<"Cancelled", "Cancelled">>}
                          \cup IfPersistFails(Interruption(t, "Interrupted")) :
            /\ durable' = [durable EXCEPT ![t] = result[1]]
            /\ report' = [report EXCEPT ![t] = result[2]]
      BY <2>2 DEF EndExecution, LoseInterruption
    <3>2. durable'[t] = result[1] /\ report'[t] = result[2]
          /\ phase'[t] = "persisted"
      BY <2>2, <3>1 DEF EndExecution, LoseInterruption, TypeOK
    <3>3. result[2] \in Interrupting => result[1] = "Interrupted"
      BY InterruptionIsWritten
    <3> QED BY <3>2, <3>3 DEF InjectionIsDueFor, Open
  <2>3. CASE SettleState(t)
    <3>1. phase'[t] = "settled" /\ UNCHANGED <<report, durable>>
      BY <2>3 DEF SettleState, TypeOK
    <3> QED BY <1>1, <1>2, <2>1, <3>1 DEF InjectionIsDueFor, Open
  <2>4. CASE Report(t) \/ CommitInterruption(t)
    <3>1. /\ report'[t] = "none" /\ phase'[t] = "tail" /\ UNCHANGED durable
          /\ \E o : outcomes' = Append(outcomes, o)
      BY <2>4 DEF Report, CommitInterruption, SendOutcome, TypeOK
    <3>2. outcomes' # outcomes
      <4>1. \A o \in Outcome : Append(outcomes, o) # outcomes
        BY <1>3, AppendProperties
      <4>2. PICK status \in Status :
              outcomes' = Append(outcomes, [turn |-> t, status |-> status])
        <5>1. report[t] # "Interrupting" => report[t] \in Status \cup {"none"}
          BY DEF TypeOK
        <5> QED
          BY <2>4, <5>1
             DEF Report, CommitInterruption, SendOutcome, Status,
                 EndedTurnsHaveAReport
      <4> QED BY <4>1, <4>2 DEF Outcome
    <3>3. PICK o \in Outcome :
            /\ o.turn = t /\ outcomes' = Append(outcomes, o)
            /\ report[t] \in {o.status, "Interrupting"}
      BY <1>4, <3>2
    <3>4. /\ Carries(outcomes', t)
          /\ EndsInterrupted(outcomes', t) => o.status = "Interrupted"
      BY <1>3, <3>3, SentOutcome, EndOfSent
    <3> QED
      BY <1>1, <2>1, <3>1, <3>3, <3>4 DEF InjectionIsDueFor, Interrupting
  <2>5. CASE Exit(t)
    <3>1. /\ phase[t] = "tail" /\ phase'[t] = "done"
          /\ UNCHANGED <<report, durable, outcomes>>
      BY <2>5 DEF Exit, DropGuard, TypeOK
    <3>2. Discarding(t) => Discarding(t)'
      BY <1>1 DEF Discarding
    <3> QED BY <1>1, <1>2, <2>1, <3>1, <3>2, DueQuietly DEF Open
  <2> QED BY <1>1, <2>2, <2>3, <2>4, <2>5 DEF Winding
<1> QED BY <1>5, <1>6 DEF InjectionsAreDue

(* A turn is reopened after its task; a turn is steered while it is open.   *)
LEMMA DueByOpening ==
  ASSUME TypeOK, ProcessingIsLive, InjectionsAreDue,
         RecoverRun \/ \E t \in Turn : Steer(t)
  PROVE  InjectionsAreDue'
<1>1. CASE RecoverRun
  <2> PICK u \in Turn : u = lock.turn
    BY <1>1 DEF RecoverRun, ProcessingIsLive
  <2>1. /\ phase'[u] = "running" /\ current' = u
        /\ phase[u] \notin Executing
        /\ \A t \in Turn \ {u} : /\ phase'[t] = phase[t]
                                 /\ durable'[t] = durable[t]
        /\ UNCHANGED <<report, outcomes, handler, buffered>>
    BY <1>1 DEF RecoverRun, Recoverable, Drained, TypeOK, marks
  <2>2. InjectionIsDueFor(u)'
    BY <2>1
       DEF InjectionsAreDue, InjectionIsDueFor, Interrupting, Open, Executing
  <2>3. ASSUME NEW t \in Turn, t # u
        PROVE  InjectionIsDueFor(t)'
    <3>1. ~Steerable(t)' /\ (Discarding(t) => Discarding(t)')
      BY <2>1, <2>3 DEF Steerable, IsProcessing, Discarding
    <3> QED BY <2>1, <2>3, <3>1, DueQuietly DEF InjectionsAreDue
  <2> QED BY <2>2, <2>3 DEF InjectionsAreDue
<1>2. ASSUME NEW u \in Turn, Steer(u)
      PROVE  InjectionsAreDue'
  <2>1. /\ Steerable(u) /\ buffered' = buffered \cup {u}
        /\ phase[u] \in {"running", "persisted"}
        /\ UNCHANGED <<state, current, active, phase, report, durable,
                       outcomes, handler>>
    BY <1>2 DEF Steer, Steerable, IsProcessing, ProcessingIsLive, session, tasks
  <2>2. ASSUME NEW t \in Turn
        PROVE  InjectionIsDueFor(t)'
    <3>1. (Steerable(t)' <=> Steerable(t)) /\ (Discarding(t)' <=> Discarding(t))
      BY <2>1 DEF Steerable, IsProcessing, Discarding
    <3>2. CASE t = u
      BY <2>1, <3>1, <3>2 DEF InjectionsAreDue, InjectionIsDueFor, Open
    <3>3. CASE t # u
      BY <2>1, <3>1, <3>3, DueQuietly DEF InjectionsAreDue
    <3> QED BY <3>2, <3>3
  <2> QED BY <2>2 DEF InjectionsAreDue
<1> QED BY <1>1, <1>2

(* The invariant is inductive while no task unwinds and recovery, once      *)
(* admitted, is not refused.                                                *)
LEMMA DueStep ==
  ASSUME ~TaskMayPanic, ~RecoveryMayFail, TypeOK, EndedTurnsHaveAReport,
         QueueIsTidy, ProcessingIsLive, CancelledIsNotProcessed,
         InjectionsAreDue, [Next]_vars
  PROVE  InjectionsAreDue'
<1>1. CASE \/ \E t \in Turn :
                \/ CancelQueued(t) \/ CancelActive(t) \/ Interrupt(t)
                \/ RecoverBegin(t) \/ RoundBoundary(t)
           \/ \E byRequester \in BOOLEAN : CancelSession(byRequester)
           \/ CancelSessionEnd \/ MaintenanceBegin \/ MaintenanceReady
           \/ MaintenanceTimeout \/ PermitRelease \/ InterruptEnd
           \/ RecoverRefused \/ RecoverUndo \/ ForwardReply
           \/ UNCHANGED vars
  <2>1. UNCHANGED <<report, durable, outcomes>>
    BY <1>1
       DEF CancelQueued, CancelActive, CancelSession, StopTurn, Interrupt,
           RecoverBegin, RoundBoundary, CancelSessionEnd, MaintenanceBegin,
           MaintenanceReady, MaintenanceTimeout, PermitRelease, InterruptEnd,
           RecoverRefused, RecoverUndo, ForwardReply, tasks, vars
  <2>2. /\ phase \in PhaseType
        /\ \/ phase' = phase
           \/ phase' = Dropping(phase, InQueue)
           \/ \E t \in InQueue : phase' = [phase EXCEPT ![t] = "dropped"]
    BY <1>1
       DEF CancelQueued, CancelActive, CancelSession, Interrupt,
           RecoverBegin, RoundBoundary, CancelSessionEnd, MaintenanceBegin,
           MaintenanceReady, MaintenanceTimeout, PermitRelease, InterruptEnd,
           RecoverRefused, RecoverUndo, ForwardReply, tasks, vars, TypeOK,
           PhaseType
  <2>3. \A t \in Turn :
          phase'[t] = phase[t] \/ {phase[t], phase'[t]} \cap Open = {}
    BY <2>2
       DEF Dropping, PhaseType, QueueIsTidy, Tidy, InQueue, Elements, Open
  <2>4. \A t \in Turn : Steerable(t)' => Steerable(t)
    <3>1. CASE \E u \in Turn : RecoverBegin(u)
      <4>1. state' # "Processing"
        BY <3>1 DEF RecoverBegin, Recoverable, session
      <4> QED BY <4>1 DEF Steerable, IsProcessing
    <3>2. CASE ~ \E u \in Turn : RecoverBegin(u)
      <4>1. UNCHANGED <<state, current>> \/ state' # "Processing"
        BY <1>1, <3>2
           DEF CancelQueued, CancelActive, CancelSession, StopTurn,
               IsProcessing, Interrupt, RoundBoundary, CancelSessionEnd,
               MaintenanceBegin, MaintenanceReady, MaintenanceTimeout,
               PermitRelease, InterruptEnd, RecoverRefused, RecoverUndo,
               ForwardReply, session, vars
      <4>2. active' = active \/ active' = NoTurn
        BY <1>1, <3>2
           DEF CancelQueued, CancelActive, CancelSession, StopTurn, Interrupt,
               RoundBoundary, CancelSessionEnd, MaintenanceBegin,
               MaintenanceReady, RetireActive, MaintenanceTimeout,
               PermitRelease, InterruptEnd, RecoverRefused, RecoverUndo,
               ForwardReply, vars
      <4> QED BY <4>1, <4>2, SchedulerConstants DEF Steerable, IsProcessing
    <3> QED BY <3>1, <3>2
  <2>5. /\ buffered' \subseteq buffered
        /\ \A t : Discarding(t) => Discarding(t)' \/ t \notin buffered'
    <3>1. CASE ForwardReply
      BY <3>1 DEF ForwardReply, DrainInjections, Discarding
    <3>2. CASE ~ForwardReply
      BY <1>1, <3>2
         DEF CancelQueued, CancelActive, CancelSession, StopTurn, Interrupt,
             RecoverBegin, RoundBoundary, CancelSessionEnd, MaintenanceBegin,
             MaintenanceReady, RetireActive, DrainInjections,
             MaintenanceTimeout, PermitRelease, InterruptEnd, RecoverRefused,
             RecoverUndo, marks, vars, Discarding
    <3> QED BY <3>1, <3>2
  <2> QED BY <2>1, <2>3, <2>4, <2>5, DueQuietly DEF InjectionsAreDue
<1>2. CASE \E t \in Turn : Winding(t) \/ Panic(t)
  BY <1>2, DueByTask
<1> QED
  BY <1>1, <1>2, NextSteps, DueByStarting, DueByTakeOutcome, DueByOpening
     DEF Controlling

(* No steering or background injection outlives its turn (drain_for_turn,   *)
(* buffer_steering): it waits for a turn that executes, whose outcome is on *)
(* its way or being handled, or that may be recovered.  Under the provisos  *)
(* of the two theorems before: a task that unwinds sends no outcome, and a  *)
(* recovery that is refused makes an abandoned turn active once more.       *)
THEOREM InjectionsEndWithTheirTurn ==
  ASSUME ~TaskMayPanic, ~RecoveryMayFail
  PROVE  Spec => []NoOrphanInjection
<1>1. Init => InjectionsAreDue
  BY DEF Init, InjectionsAreDue, InjectionIsDueFor, Interrupting
<1>2. TypeOK /\ EndedTurnsHaveAReport /\ QueueIsTidy /\ ProcessingIsLive
        /\ CancelledIsNotProcessed /\ InjectionsAreDue /\ [Next]_vars
        => InjectionsAreDue'
  BY DueStep
<1>3. TypeOK /\ InjectionsAreDue => NoOrphanInjection
  BY DEF TypeOK, InjectionsAreDue, InjectionIsDueFor, NoOrphanInjection,
         Open, Executing, Carries, Reported, Discarding
<1> QED
  BY <1>1, <1>2, <1>3, TypeCorrect, TidyQueues, EntriesAreKept,
     CancelledTurns, PTL DEF Spec

-----------------------------------------------------------------------------
(* The queue is not stranded *)

(* The channel has an outcome that no tombstone will take. *)
Wakes(s, marked) ==
  \E i \in 1..Len(s) :
    s[i].turn \in marked => \E j \in 1..Len(s) : j < i /\ s[j].turn = s[i].turn

(* What is queued will be looked at: by an outcome that retires the active  *)
(* entry, by the dispatch that follows it, or after the outcome of the      *)
(* latest turn, which is still to be sent.                                  *)
Driven ==
  \/ Wakes(outcomes, retired)
  \/ handler.stage # "idle" /\ Dispatches(handler.status)
  \/ latest # NoTurn /\ phase[latest] \in Open

(* Nobody else has to look at the queue.                                    *)
Attended(q, d) ==
  q = <<>> \/ state # "Idle" \/ active # NoTurn \/ Holds(d)

(* The inductive invariant behind NoStrandedQueue.                          *)
QueueIsDriven == Attended(queue, durable) \/ Driven

(* An outcome that is not marked, or is not the only one, wakes.            *)
LEMMA SentWakes ==
  ASSUME NEW s \in Seq(Outcome), NEW o \in Outcome, NEW marked
  PROVE  /\ Wakes(s, marked) => Wakes(Append(s, o), marked)
         /\ (o.turn \in marked => Carries(s, o.turn))
              => Wakes(Append(s, o), marked)
<1> DEFINE r == Append(s, o)
<1>1. /\ Len(s) \in Nat /\ Len(r) = Len(s) + 1 /\ r[Len(s) + 1] = o
      /\ \A i \in 1..Len(s) : r[i] = s[i]
  BY AppendProperties
<1> HIDE DEF r
<1>2. \A i \in 1..Len(s) : i \in 1..Len(r) /\ i < Len(s) + 1
  BY <1>1
<1>3. Len(s) + 1 \in 1..Len(r)
  BY <1>1
<1>4. Wakes(s, marked) => Wakes(r, marked)
  BY <1>1, <1>2 DEF Wakes
<1>5. (o.turn \in marked => Carries(s, o.turn)) => Wakes(r, marked)
  BY <1>1, <1>2, <1>3 DEF Wakes, Carries
<1> QED BY <1>4, <1>5 DEF r

(* The outcome that a tombstone takes is not the one that wakes.            *)
LEMMA TakenWakes ==
  ASSUME NEW s \in Seq(Outcome), s # <<>>, NEW marked, Wakes(s, marked),
         Head(s).turn \in marked
  PROVE  Wakes(Tail(s), marked \ {Head(s).turn})
<1> DEFINE r == Tail(s)
<1>1. /\ Len(s) \in Nat \ {0} /\ Len(r) = Len(s) - 1 /\ Head(s) = s[1]
      /\ \A i \in 1..Len(r) : r[i] = s[i + 1]
  BY HeadTailProperties, EmptySeq
<1> HIDE DEF r
<1>2. \A i \in 1..Len(s) :
        i = 1 \/ (i - 1 \in 1..Len(r) /\ r[i - 1] = s[i])
  <2> SUFFICES ASSUME NEW i \in 1..Len(s), i # 1
               PROVE  i - 1 \in 1..Len(r) /\ r[i - 1] = s[i]
    OBVIOUS
  <2>1. i - 1 \in 1..Len(r) /\ (i - 1) + 1 = i
    BY <1>1
  <2> QED BY <2>1, <1>1
<1>3. PICK i \in 1..Len(s) :
        s[i].turn \in marked =>
          \E j \in 1..Len(s) : j < i /\ s[j].turn = s[i].turn
  BY DEF Wakes
<1>4. i # 1 /\ i - 1 \in 1..Len(r) /\ r[i - 1] = s[i]
  <2>1. i # 1
    BY <1>1, <1>3
  <2> QED BY <2>1, <1>2
<1>5. ASSUME s[i].turn \in marked, s[i].turn # Head(s).turn
      PROVE  \E j \in 1..Len(r) : j < i - 1 /\ r[j].turn = s[i].turn
  <2>1. PICK j \in 1..Len(s) : j < i /\ s[j].turn = s[i].turn
    BY <1>3, <1>5
  <2>2. j # 1
    BY <1>1, <1>5, <2>1
  <2>3. j - 1 \in 1..Len(r) /\ r[j - 1] = s[j] /\ j - 1 < i - 1
    BY <1>2, <2>1, <2>2
  <2> QED BY <2>1, <2>3
<1> QED BY <1>4, <1>5 DEF Wakes, r

(* Steps that take nobody's attention from the queue.                       *)
LEMMA DrivenQuietly ==
  ASSUME QueueIsDriven, UNCHANGED <<state, latest, active, outcomes, retired>>,
         queue = <<>> => queue' = <<>>,
         Holds(durable) => Holds(durable)',
         handler.stage # "idle" /\ Dispatches(handler.status)
           => handler'.stage # "idle" /\ Dispatches(handler.status)',
         latest # NoTurn /\ phase[latest] \in Open => phase'[latest] \in Open
  PROVE  QueueIsDriven'
<1>1. CASE Attended(queue, durable)
  BY <1>1 DEF QueueIsDriven, Attended
<1>2. CASE Driven
  BY <1>2 DEF QueueIsDriven, Driven, Wakes
<1> QED BY <1>1, <1>2 DEF QueueIsDriven

(* Dispatch leaves nothing to do, if it does not fail.                      *)
LEMMA DispatchAttends ==
  ASSUME ~StartMayFail, NEW q, NEW ph, NEW d, TryStartNext(q, ph, d)
  PROVE  QueueIsDriven'
<1>1. CASE queue' = q /\ NoStart(ph, d)
  <2>1. state = "Processing" \/ Holds(d) \/ q = <<>>
    BY <1>1 DEF TryStartNext, NoStart, Start, session
  <2>2. UNCHANGED <<state, latest>> /\ durable' = d
    BY <1>1 DEF NoStart, session
  <2> QED
    BY <1>1, <2>1, <2>2 DEF QueueIsDriven, Attended, Holds
<1>2. CASE \E u : Start(u, ph, d)
  BY <1>2 DEF Start, QueueIsDriven, Attended
<1> QED BY <1>1, <1>2 DEF TryStartNext

(* Submission queues behind someone; cancellation dispatches.               *)
LEMMA DrivenByStarting ==
  ASSUME ~StartMayFail, TypeOK, QueueIsDriven, Starting
  PROVE  QueueIsDriven'
<1>1. CASE DispatchNext \/ \E t \in Turn : CancelInterrupted(t)
  BY <1>1, DispatchAttends
     DEF DispatchNext, CancelInterrupted, AbandonAndDispatch
<1>2. CASE CancelEnd
  <2>1. CASE durable[lock.turn] = "Interrupted"
    BY <1>2, <2>1, DispatchAttends DEF CancelEnd, AbandonAndDispatch
  <2>2. CASE durable[lock.turn] # "Interrupted"
    BY <1>2, <2>2, DrivenQuietly DEF CancelEnd, session, Holds
  <2> QED BY <2>1, <2>2
<1>3. ASSUME NEW t \in Turn, Submit(t)
      PROVE  QueueIsDriven'
  <2>1. /\ phase[t] = "new"
        /\ UNCHANGED <<outcomes, handler, retired>>
    BY <1>3 DEF Submit
  <2>2. CASE SubmitStart(t)
    BY <2>2 DEF SubmitStart, Start, QueueIsDriven, Attended
  <2>3. CASE SubmitThenStartNext(t)
    BY <2>3, DispatchAttends DEF SubmitThenStartNext
  <2>4. CASE SubmitQueued(t)
    <3>1. UNCHANGED <<state, latest, active>>
      BY <2>4 DEF SubmitQueued, NoStart, session
    <3>2. CASE active # NoTurn \/ state = "Processing"
      BY <3>1, <3>2 DEF QueueIsDriven, Attended
    <3>3. CASE active = NoTurn /\ state # "Processing"
      <4>1. Holds(durable) /\ ~ReleasesHold(t)
        BY <2>4, <3>3 DEF SubmitQueued, StateFact
      <4>2. durable' = durable
        BY <2>4, <4>1 DEF SubmitQueued, NoStart
      <4> QED BY <3>1, <4>1, <4>2 DEF QueueIsDriven, Attended, Holds
    <3> QED BY <3>2, <3>3
  <2>5. CASE SubmitRejected(t)
    <3>1. /\ UNCHANGED <<state, latest, active, queue, durable>>
          /\ phase' = [phase EXCEPT ![t] = "rejected"]
      BY <2>5 DEF SubmitRejected, NoStart, session
    <3>2. latest # NoTurn /\ phase[latest] \in Open => phase'[latest] \in Open
      BY <2>1, <3>1 DEF TypeOK, Open
    <3> QED BY <2>1, <3>1, <3>2, DrivenQuietly DEF Holds, Dispatches
  <2> QED BY <1>3, <2>2, <2>3, <2>4, <2>5 DEF Submit
<1> QED BY <1>1, <1>2, <1>3 DEF Starting

(* An outcome that is ignored was not going to wake the handler; one that   *)
(* is not wakes it, or clears the queue.                                    *)
LEMMA DrivenByTakeOutcome ==
  ASSUME TypeOK, QueueIsTidy, QueueIsDriven, TakeOutcome
  PROVE  QueueIsDriven'
<1>1. PICK h \in Turn : h = Head(outcomes).turn
  <2>1. outcomes \in Seq(Outcome) /\ outcomes # <<>>
    BY DEF TakeOutcome, TypeOK, Outcome
  <2>2. Head(outcomes) \in Outcome
    BY <2>1, HeadTailProperties
  <2> QED BY <2>2 DEF Outcome
<1>2. /\ outcomes \in Seq(Outcome) /\ outcomes # <<>>
      /\ outcomes' = Tail(outcomes) /\ handler = NoHandler
      /\ UNCHANGED <<state, latest, durable>>
      /\ retired' = retired \ {h}
  BY <1>1 DEF TakeOutcome, TakeTombstone, TypeOK, Outcome, session
<1>3. CASE active \notin {NoTurn, h}
  <2>1. active' = active
    BY <1>1, <1>3 DEF TakeOutcome
  <2> QED BY <1>3, <2>1 DEF QueueIsDriven, Attended
<1>4. CASE active \in {NoTurn, h} /\ h \notin retired
  <2>1. handler'.stage = "reply" /\ handler'.status = Head(outcomes).status
    BY <1>1, <1>4 DEF TakeOutcome
  <2>2. Head(outcomes).status = "Failed" => queue' = <<>>
    BY <1>1, <1>4 DEF TakeOutcome
  <2> QED
    BY <2>1, <2>2 DEF QueueIsDriven, Attended, Driven, Dispatches
<1>5. CASE active \in {NoTurn, h} /\ h \in retired
  <2>1. UNCHANGED <<queue, phase, active, handler>>
    BY <1>1, <1>5 DEF TakeOutcome
  <2>2. Wakes(outcomes, retired) => Wakes(outcomes, retired)'
    BY <1>1, <1>2, <1>5, TakenWakes
  <2>3. CASE Attended(queue, durable)
    BY <1>2, <2>1, <2>3 DEF QueueIsDriven, Attended, Holds
  <2>4. CASE Driven
    BY <1>2, <2>1, <2>2, <2>4 DEF QueueIsDriven, Driven, Dispatches
  <2> QED BY <2>3, <2>4 DEF QueueIsDriven
<1> QED BY <1>3, <1>4, <1>5

(* The turn that gives up the session has its outcome still to send.        *)
LEMMA DrivenByTask ==
  ASSUME ~TaskMayPanic, TypeOK, EndedTurnsHaveAReport, ProcessingIsLive,
         EntryIsKept, OutcomesAreOwed, QueueIsDriven,
         NEW t \in Turn, Winding(t) \/ Panic(t)
  PROVE  QueueIsDriven'
<1>1. /\ ~Panic(t) /\ \A u \in Turn : u # t => phase'[u] = phase[u]
      /\ UNCHANGED <<latest, queue, active, handler, retired>>
      /\ latest \in Turn \cup {NoTurn}
  BY WindingLives DEF Panic, marks, TypeOK
<1>2. CASE outcomes' # outcomes
  <2>1. PICK o \in Outcome : o.turn = t /\ outcomes' = Append(outcomes, o)
    BY <1>2, WindingLives DEF Outcome
  <2>2. outcomes \in Seq(Outcome) /\ (t \in retired => Carries(outcomes, t))
    BY DEF TypeOK, Outcome, OutcomesAreOwed, OutcomesAreOwedFor
  <2>3. Wakes(outcomes', retired)
    BY <2>1, <2>2, SentWakes
  <2> QED BY <1>1, <2>3 DEF QueueIsDriven, Driven
<1>3. CASE outcomes' = outcomes
  <2>1. \A o \in Outcome : Append(outcomes, o) # outcomes
    <3>1. outcomes \in Seq(Outcome)
      BY DEF TypeOK, Outcome
    <3> QED BY <3>1, AppendProperties
  <2>2. \/ phase[t] \in Open /\ phase'[t] \in Open
        \/ phase[t] = "tail" /\ phase'[t] = "done" /\ ~IsProcessing(t)
    BY <1>1, <1>3, <2>1, WindingLives
       DEF Outcome, IsProcessing, ProcessingIsLive
  <2>3. CASE phase'[t] \in Open /\ latest = t
    BY <1>1, <2>3, SchedulerConstants DEF QueueIsDriven, Driven
  <2>4. CASE ~(phase'[t] \in Open /\ latest = t)
    <3>1. ~IsProcessing(t)
      BY <2>2, <2>4 DEF IsProcessing, EntryIsKept, Open
    <3>2. state' = state
      BY <1>1, <1>3, <2>1, <3>1
         DEF Winding, EndExecution, SettleState, Report, CommitInterruption,
             LoseInterruption, Exit, DropGuard, session
    <3>3. latest # NoTurn => durable'[latest] = durable[latest]
      <4>1. CASE latest = t
        <5>1. phase[t] = "tail" /\ phase'[t] = "done"
          BY <2>2, <2>4, <4>1
        <5> QED
          BY <1>1, <5>1
             DEF Winding, EndExecution, SettleState, Report,
                 CommitInterruption, LoseInterruption, Exit, DropGuard
      <4>2. CASE latest # t
        BY <1>1, <4>2
           DEF Winding, EndExecution, SettleState, Report,
               CommitInterruption, LoseInterruption, Exit, DropGuard, TypeOK
      <4> QED BY <4>1, <4>2
    <3>4. latest # NoTurn /\ phase[latest] \in Open => phase'[latest] \in Open
      BY <1>1, <2>2 DEF Open
    <3> QED
      BY <1>1, <1>3, <3>2, <3>3, <3>4, DrivenQuietly DEF Holds, Dispatches
  <2> QED BY <2>3, <2>4
<1> QED BY <1>2, <1>3

(* The other steps of operations and of the outcome handler.                *)
LEMMA DrivenByControlling ==
  ASSUME ~RecoveryMayFail, TypeOK, QueueIsTidy, ProcessingIsLive,
         MaintenanceIsPrepared, EntryIsKept, OutcomesAreOwed, QueueIsDriven,
         Controlling
  PROVE  QueueIsDriven'
<1> USE DEF QueueIsDriven, Attended
<1>1. CASE TakeOutcome
  BY <1>1, DrivenByTakeOutcome
<1>2. CASE \/ \E t \in Turn : CancelActive(t) \/ RecoverBegin(t)
           \/ RecoverRun \/ MaintenanceBegin \/ MaintenanceReady \/ RecoverUndo
  <2>1. CASE \E t \in Turn : CancelActive(t) \/ RecoverBegin(t)
    BY <2>1, SchedulerConstants DEF CancelActive, StopTurn, RecoverBegin
  <2>2. CASE RecoverRun \/ MaintenanceBegin
    BY <2>2 DEF RecoverRun, MaintenanceBegin
  <2>3. CASE MaintenanceReady \/ RecoverUndo
    BY <2>3
       DEF MaintenanceReady, MaintenanceIsPrepared, RecoverUndo,
           OutcomesAreOwed
  <2> QED BY <1>2, <2>1, <2>2, <2>3
<1>3. CASE \E byRequester \in BOOLEAN : CancelSession(byRequester)
  <2>1. /\ latest \in Turn /\ phase[latest] \in Open
        /\ UNCHANGED <<latest, phase>>
    BY <1>3 DEF CancelSession, StopTurn, ProcessingIsLive, EntryIsKept, Open
  <2> QED BY <2>1, SchedulerConstants DEF Driven
<1>4. CASE \/ \E t \in Turn : Interrupt(t) \/ Steer(t) \/ RoundBoundary(t)
           \/ CancelSessionEnd \/ MaintenanceTimeout \/ PermitRelease
           \/ InterruptEnd \/ RecoverRefused
  <2>1. UNCHANGED <<state, latest, queue, active, phase, durable, outcomes,
                    handler, retired>>
    BY <1>4
       DEF Interrupt, Steer, RoundBoundary, CancelSessionEnd,
           MaintenanceTimeout, PermitRelease, InterruptEnd, RecoverRefused,
           session, tasks, marks
  <2> QED BY <2>1, DrivenQuietly DEF Holds, Dispatches
<1>5. CASE \E t \in Turn : CancelQueued(t)
  <2> PICK t \in Turn : CancelQueued(t)
    BY <1>5
  <2>1. /\ t \in InQueue /\ phase' = [phase EXCEPT ![t] = "dropped"]
        /\ UNCHANGED <<state, latest, active, durable, outcomes, handler,
                       retired>>
    BY DEF CancelQueued, session, marks
  <2>2. queue # <<>> /\ phase[t] = "waiting"
    BY <2>1 DEF InQueue, QueueIsTidy, Tidy, Elements
  <2>3. latest # NoTurn /\ phase[latest] \in Open => phase'[latest] \in Open
    BY <2>1, <2>2 DEF TypeOK, Open
  <2> QED BY <2>1, <2>2, <2>3, DrivenQuietly DEF Holds, Dispatches
<1>6. CASE ForwardReply
  <2>1. /\ UNCHANGED <<state, latest, queue, active, phase, durable, outcomes,
                       retired>>
        /\ Dispatches(handler.status)
             => handler' = [handler EXCEPT !.stage = "dispatch"]
    BY <1>6 DEF ForwardReply, session, tasks
  <2>2. Dispatches(handler.status)
          => handler'.stage # "idle" /\ Dispatches(handler.status)'
    BY <2>1 DEF TypeOK, Dispatches
  <2> QED BY <2>1, <2>2, DrivenQuietly DEF Holds
<1> QED BY <1>1, <1>2, <1>3, <1>4, <1>5, <1>6 DEF Controlling

(* A queue is never left without someone to dispatch it                     *)
(* (dispatch_next_if_idle): an idle session with queued turns and nothing   *)
(* active or held has an outcome in the channel, the dispatch of one under  *)
(* way, or an outcome of its latest turn still to come.  Not when a turn    *)
(* fails to start, or a recovery is refused, as nobody tries again, nor     *)
(* when a task unwinds without an outcome.                                  *)
THEOREM QueueIsNotStranded ==
  ASSUME ~StartMayFail, ~TaskMayPanic, ~RecoveryMayFail
  PROVE  Spec => []NoStrandedQueue
<1>1. Init => QueueIsDriven
  BY DEF Init, QueueIsDriven, Attended
<1>2. TypeOK /\ EndedTurnsHaveAReport /\ QueueIsTidy /\ ProcessingIsLive
        /\ MaintenanceIsPrepared /\ EntryIsKept /\ OutcomesAreOwed
        /\ QueueIsDriven /\ [Next]_vars => QueueIsDriven'
  <2>1. UNCHANGED vars /\ QueueIsDriven => QueueIsDriven'
    BY DrivenQuietly DEF vars, session, tasks, marks, Holds, Dispatches
  <2> QED
    BY <2>1, DrivenByStarting, DrivenByControlling, DrivenByTask, NextSteps
<1>3. Init => MaintenanceIsPrepared
  BY DEF Init, Free, MaintenanceIsPrepared
<1>4. TypeOK /\ MaintenanceIsPrepared /\ [Next]_vars => MaintenanceIsPrepared'
  BY MaintenanceStep
<1>5. QueueIsDriven => NoStrandedQueue
  <2>1. Wakes(outcomes, retired) => outcomes # <<>>
    BY EmptySeq DEF Wakes
  <2> QED
    BY <2>1
       DEF QueueIsDriven, Attended, Driven, NoStrandedQueue, Open, Executing
<1> QED
  BY <1>1, <1>2, <1>3, <1>4, <1>5, TypeCorrect, TidyQueues, EntriesAreKept,
     OwedOutcomes, PTL DEF Spec

===============================================================================
