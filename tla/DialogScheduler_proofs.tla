----------------------- MODULE DialogScheduler_proofs -----------------------
(***************************************************************************)
(* Theorems about DialogScheduler, for any turns, priorities, queue limit  *)
(* and failures: type correctness, exclusive execution, the exclusion of   *)
(* destructive maintenance, the contents and the order of the queue, and   *)
(* that a session in Processing has a task.  The steps are grouped once,   *)
(* in Starting, Controlling and the steps of a task, and what each group   *)
(* leaves alone is a lemma that every invariance proof uses.               *)
(***************************************************************************)
EXTENDS DialogScheduler, SequenceTheorems, WellFoundedInduction, TLAPS

-----------------------------------------------------------------------------
(* The queue *)

(* A non-empty set of positions has a least one.                            *)
LEMMA LeastPosition ==
  ASSUME NEW P \in SUBSET Nat, P # {}
  PROVE  \E i \in P : \A j \in P : i <= j
<1> DEFINE R == OpToRel(<, Nat)
<1>1. IsWellFoundedOn(R, Nat)
  BY NatLessThanWellFounded
<1>2. \E i \in P : \A j \in P : ~ (<<j, i>> \in R)
  <2> HIDE DEF R
  <2> QED BY <1>1, WFMin
<1>3. ASSUME NEW i \in P, NEW j \in P, ~ (<<j, i>> \in R)
      PROVE  i <= j
  BY <1>3 DEF OpToRel
<1> QED BY <1>2, <1>3

(* q with t inserted at position at, and q without its element there.       *)
Inserted(q, t, at) ==
  SubSeq(q, 1, at - 1) \o <<t>> \o SubSeq(q, at, Len(q))

Without(q, at) == SubSeq(q, 1, at - 1) \o SubSeq(q, at + 1, Len(q))

(* Inserting one element: type, length and contents.                        *)
LEMMA InsertAt ==
  ASSUME NEW S, NEW q \in Seq(S), NEW t \in S, NEW at \in 1..Len(q)+1
  PROVE  /\ Inserted(q, t, at) \in Seq(S)
         /\ Len(Inserted(q, t, at)) = Len(q) + 1
         /\ \A i \in 1..at-1 : Inserted(q, t, at)[i] = q[i]
         /\ Inserted(q, t, at)[at] = t
         /\ \A i \in at+1..Len(q)+1 : Inserted(q, t, at)[i] = q[i-1]
<1> DEFINE a == SubSeq(q, 1, at - 1)
           b == SubSeq(q, at, Len(q))
<1>1. /\ a \in Seq(S) /\ Len(a) = at - 1
      /\ \A i \in 1..at-1 : a[i] = q[i]
  BY SubSeqProperties
<1>2. /\ b \in Seq(S) /\ Len(b) = Len(q) - at + 1
      /\ \A i \in 1..Len(q)-at+1 : b[i] = q[at + i - 1]
  BY SubSeqProperties
<1>3. <<t>> \in Seq(S) /\ Len(<<t>>) = 1 /\ <<t>>[1] = t
  OBVIOUS
<1> HIDE DEF a, b
<1>4. /\ a \o <<t>> \in Seq(S) /\ Len(a \o <<t>>) = at
      /\ \A i \in 1..at-1 : (a \o <<t>>)[i] = q[i]
      /\ (a \o <<t>>)[at] = t
  BY <1>1, <1>3, ConcatProperties
<1> DEFINE c == a \o <<t>>
<1>5. /\ c \in Seq(S) /\ Len(c) = at
  BY <1>4
<1>6. /\ \A i \in 1..at-1 : c[i] = q[i]
      /\ c[at] = t
  BY <1>4
<1> HIDE DEF c
<1>7. /\ c \o b \in Seq(S) /\ Len(c \o b) = Len(c) + Len(b)
      /\ \A i \in 1..Len(c) + Len(b) :
           (c \o b)[i] = IF i <= Len(c) THEN c[i] ELSE b[i - Len(c)]
  BY <1>2, <1>5, ConcatProperties
<1>8. Len(c \o b) = Len(q) + 1
  BY <1>2, <1>5, <1>7
<1>9. \A i \in 1..at-1 : (c \o b)[i] = q[i]
  BY <1>2, <1>5, <1>6, <1>7
<1>10. (c \o b)[at] = t
  BY <1>2, <1>5, <1>6, <1>7
<1>11. ASSUME NEW i \in at+1..Len(q)+1
       PROVE  (c \o b)[i] = q[i-1]
  <2>1. i - at \in 1..Len(q)-at+1 /\ at + (i - at) - 1 = i - 1
    OBVIOUS
  <2>2. b[i - at] = q[i - 1]
    BY <2>1, <1>2
  <2>3. (c \o b)[i] = b[i - at]
    BY <1>2, <1>5, <1>7
  <2> QED BY <2>2, <2>3
<1>12. Inserted(q, t, at) = c \o b
  BY DEF a, b, c, Inserted
<1> QED BY <1>7, <1>8, <1>9, <1>10, <1>11, <1>12

(* Removing one element: type, length and contents.                         *)
LEMMA RemoveAt ==
  ASSUME NEW S, NEW q \in Seq(S), NEW at \in 1..Len(q)
  PROVE  /\ Without(q, at) \in Seq(S)
         /\ Len(Without(q, at)) = Len(q) - 1
         /\ \A i \in 1..at-1 : Without(q, at)[i] = q[i]
         /\ \A i \in at..Len(q)-1 : Without(q, at)[i] = q[i+1]
<1> DEFINE a == SubSeq(q, 1, at - 1)
           b == SubSeq(q, at + 1, Len(q))
<1>1. /\ a \in Seq(S) /\ Len(a) = at - 1
      /\ \A i \in 1..at-1 : a[i] = q[i]
  BY SubSeqProperties
<1>2. /\ b \in Seq(S) /\ Len(b) = Len(q) - at
      /\ \A i \in 1..Len(q)-at : b[i] = q[at + 1 + i - 1]
  BY SubSeqProperties
<1> HIDE DEF a, b
<1>3. /\ a \o b \in Seq(S) /\ Len(a \o b) = Len(a) + Len(b)
      /\ \A i \in 1..Len(a) + Len(b) :
           (a \o b)[i] = IF i <= Len(a) THEN a[i] ELSE b[i - Len(a)]
  BY <1>1, <1>2, ConcatProperties
<1>4. Len(a \o b) = Len(q) - 1
  BY <1>1, <1>2, <1>3
<1>5. \A i \in 1..at-1 : (a \o b)[i] = q[i]
  BY <1>1, <1>2, <1>3
<1>6. ASSUME NEW i \in at..Len(q)-1
      PROVE  (a \o b)[i] = q[i+1]
  <2>1. i - (at - 1) \in 1..Len(q)-at /\ at + 1 + (i - (at - 1)) - 1 = i + 1
    OBVIOUS
  <2>2. b[i - (at - 1)] = q[i + 1]
    BY <2>1, <1>2
  <2>3. (a \o b)[i] = b[i - (at - 1)]
    BY <1>1, <1>2, <1>3
  <2> QED BY <2>2, <2>3
<1>7. Without(q, at) = a \o b
  BY DEF a, b, Without
<1> QED BY <1>3, <1>4, <1>5, <1>6, <1>7

(* A turn is enqueued before the first entry of lower priority: where that  *)
(* is, and what the queue then is.                                          *)
LEMMA EnqueueFacts ==
  ASSUME NEW q \in Seq(Turn), NEW t \in Turn
  PROVE  /\ Enqueue(q, t) \in Seq(Turn)
         /\ \E at \in 1..Len(q)+1 :
              /\ Enqueue(q, t) = Inserted(q, t, at)
              /\ \A i \in 1..at-1 : Priority[q[i]] >= Priority[t]
              /\ at <= Len(q) => Priority[q[at]] < Priority[t]
<1> DEFINE lower == {i \in 1..Len(q) : Priority[q[i]] < Priority[t]}
           at == IF lower = {} THEN Len(q) + 1
                 ELSE CHOOSE i \in lower : \A j \in lower : i <= j
<1>1. /\ \A i \in 1..Len(q) : Priority[q[i]] \in Nat
      /\ Priority[t] \in Nat
  BY ElementOfSeq, SchedulerConstants
<1>2. lower \in SUBSET Nat /\ lower \subseteq 1..Len(q)
  OBVIOUS
<1>3. lower # {} => at \in lower /\ \A j \in lower : at <= j
  <2> HIDE DEF lower
  <2> QED BY <1>2, LeastPosition
<1>4. at \in 1..Len(q)+1
  <2>1. lower # {} => at \in 1..Len(q)
    BY <1>2, <1>3
  <2>2. lower = {} => at = Len(q) + 1
    OBVIOUS
  <2> HIDE DEF at, lower
  <2> QED BY <2>1, <2>2
<1>5. ASSUME NEW i \in 1..at-1
      PROVE  Priority[q[i]] >= Priority[t]
  <2>1. i \in 1..Len(q) /\ i < at
    BY <1>4
  <2>2. i \notin lower
    <3> HIDE DEF lower, at
    <3> QED BY <2>1, <1>3, <1>4
  <2> QED BY <2>1, <2>2, <1>1
<1>6. at <= Len(q) => Priority[q[at]] < Priority[t]
  <2>1. at <= Len(q) => lower # {}
    BY <1>4
  <2> QED BY <1>3, <2>1
<1>7. Enqueue(q, t) = Inserted(q, t, at)
  BY DEF Enqueue, Inserted
<1> HIDE DEF at
<1>8. Enqueue(q, t) \in Seq(Turn)
  BY <1>4, <1>7, InsertAt
<1> QED BY <1>4, <1>5, <1>6, <1>7, <1>8

(* Removing a turn that is in the queue.                                    *)
LEMMA RemoveFacts ==
  ASSUME NEW q \in Seq(Turn), NEW t \in {q[i] : i \in 1..Len(q)}
  PROVE  /\ Remove(q, t) \in Seq(Turn)
         /\ \E at \in 1..Len(q) :
              /\ q[at] = t
              /\ Remove(q, t) = Without(q, at)
<1> DEFINE at == CHOOSE i \in 1..Len(q) : q[i] = t
<1>1. at \in 1..Len(q) /\ q[at] = t
  OBVIOUS
<1>2. Remove(q, t) = Without(q, at)
  BY DEF Remove, Without
<1> HIDE DEF at
<1> QED BY <1>1, <1>2, RemoveAt

-----------------------------------------------------------------------------
(* Type correctness *)

(* A task past its terminal write has an outcome to report.  Type           *)
(* correctness needs it: what Report sends is the report of the task.       *)
EndedTurnsHaveAReport ==
  \A t \in Turn : phase[t] \in {"persisted", "settled"} => report[t] # "none"

(* Types of phase and durable functions. *)
PhaseType == [Turn -> Phase]
DurableType == [Turn -> Status \cup {"none", "InProgress"}]

(* What dispatch and start leave: the types of the variables they assign.   *)
StartedTypes ==
  /\ state' \in {"Idle", "Processing", "Error"}
  /\ current' \in Turn \cup {NoTurn}
  /\ latest' \in Turn \cup {NoTurn}
  /\ active' \in Turn \cup {NoTurn}
  /\ phase' \in PhaseType
  /\ durable' \in DurableType

(* Starting a turn keeps the types.                                         *)
LEMMA StartTypes ==
  ASSUME TypeOK, NEW t \in Turn, NEW ph \in PhaseType, NEW d \in DurableType,
         Start(t, ph, d)
  PROVE  StartedTypes
BY DEF Start, StartedTypes, PhaseType, DurableType, Phase, Executing

(* So does a step that starts none.                                         *)
LEMMA NoStartTypes ==
  ASSUME TypeOK, NEW ph \in PhaseType, NEW d \in DurableType, NoStart(ph, d)
  PROVE  StartedTypes
BY DEF NoStart, StartedTypes, TypeOK, session

(* And the dispatch of a queue, which takes at most its head.               *)
LEMMA TryStartNextTypes ==
  ASSUME TypeOK, NEW q \in Seq(Turn), NEW ph \in PhaseType,
         NEW d \in DurableType, TryStartNext(q, ph, d)
  PROVE  StartedTypes /\ queue' \in Seq(Turn)
<1>1. CASE queue' = q /\ NoStart(ph, d)
  BY <1>1, NoStartTypes
<1>2. CASE q # <<>> /\ queue' = Tail(q) /\ Start(Head(q), ph, d)
  <2>1. Head(q) \in Turn /\ Tail(q) \in Seq(Turn)
    BY <1>2, HeadTailProperties
  <2> QED BY <1>2, <2>1, StartTypes
<1> QED BY <1>1, <1>2 DEF TryStartNext

(* Giving up a recovery fact leaves a persisted status.                     *)
LEMMA AbandonType ==
  ASSUME NEW d \in DurableType, NEW t
  PROVE  Abandon(d, t) \in DurableType
BY DEF Abandon, DurableType, Status

(* Clearing the queue leaves a life for every turn.                         *)
LEMMA DroppingType ==
  ASSUME NEW ph \in PhaseType, NEW s
  PROVE  Dropping(ph, s) \in PhaseType
BY DEF Dropping, PhaseType, Phase

(* So do accepting and rejecting a turn.                                    *)
LEMMA AcceptedType ==
  ASSUME NEW ph \in PhaseType, NEW t
  PROVE  /\ Accepted(ph, t) \in PhaseType
         /\ [ph EXCEPT ![t] = "rejected"] \in PhaseType
BY DEF Accepted, PhaseType, Phase

(* The initial state is typed.                                              *)
LEMMA InitType == Init => TypeOK
BY EmptySeq DEF Init, TypeOK, Free, LockOps, NoHandler, Phase, Executing, Status

(* Submission, with its four outcomes, keeps the types.                     *)
LEMMA SubmitType ==
  ASSUME TypeOK, NEW t \in Turn, Submit(t)
  PROVE  TypeOK'
<1>1. phase \in PhaseType /\ durable \in DurableType /\ queue \in Seq(Turn)
  BY DEF TypeOK, PhaseType, DurableType
<1>2. Abandon(durable, latest) \in DurableType
  BY <1>1, AbandonType
<1>3. Enqueue(queue, t) \in Seq(Turn)
  BY <1>1, EnqueueFacts
<1>4. /\ Accepted(phase, t) \in PhaseType
      /\ [phase EXCEPT ![t] = "rejected"] \in PhaseType
  BY <1>1, AcceptedType
<1>5. Superseded(t) \subseteq {latest}
  BY DEF Superseded
<1>6. StartedTypes /\ queue' \in Seq(Turn) /\ buffered' \subseteq buffered
  <2>1. CASE SubmitStart(t)
    <3>1. Dropping(phase, InQueue) \in PhaseType
      BY <1>1, DroppingType
    <3>2. [Dropping(phase, InQueue) EXCEPT ![t] = "rejected"] \in PhaseType
      BY <3>1, AcceptedType
    <3>3. queue' \in Seq(Turn)
      BY <2>1, EmptySeq DEF SubmitStart
    <3>4. ASSUME NEW abandoned,
                 Start(t, Dropping(phase, InQueue),
                       IF abandoned = {} THEN durable
                       ELSE Abandon(durable, latest))
          PROVE  StartedTypes
      BY <1>1, <1>2, <3>1, <3>4, StartTypes
    <3>5. ASSUME NoStart([Dropping(phase, InQueue) EXCEPT ![t] = "rejected"],
                         durable)
          PROVE  StartedTypes
      BY <1>1, <3>2, <3>5, NoStartTypes
    <3>6. buffered' \subseteq buffered
      BY <2>1 DEF SubmitStart, DrainInjections
    <3>7. StartedTypes
      BY <2>1, <3>4, <3>5 DEF SubmitStart
    <3> QED BY <3>3, <3>6, <3>7
  <2>2. CASE SubmitThenStartNext(t)
    BY <2>2, <1>1, <1>2, <1>3, <1>4, TryStartNextTypes
       DEF SubmitThenStartNext, DrainInjections
  <2>3. CASE SubmitQueued(t)
    BY <2>3, <1>1, <1>2, <1>3, <1>4, NoStartTypes
       DEF SubmitQueued, DrainInjections
  <2>4. CASE SubmitRejected(t)
    BY <2>4, <1>1, <1>4, NoStartTypes DEF SubmitRejected
  <2> QED BY <2>1, <2>2, <2>3, <2>4 DEF Submit
<1> QED
  BY <1>6 DEF Submit, TypeOK, StartedTypes, PhaseType, DurableType

(* Whatever the terminal write leaves, an outcome is to be reported.        *)
LEMMA EndExecutionType ==
  ASSUME TypeOK, EndedTurnsHaveAReport, NEW t \in Turn, EndExecution(t)
  PROVE  TypeOK' /\ EndedTurnsHaveAReport'
<1>1. durable[t] \in Status \cup {"none", "InProgress"}
  BY DEF TypeOK
<1> DEFINE results == (IF t \in buffered THEN {} ELSE Completion(t))
                      \cup Failure(t) \cup ContractChange(t) \cup StopResult(t)
<1>2. \A result \in results :
        /\ result[1] \in Status \cup {"none", "InProgress"}
        /\ result[2] \in Status \cup {"Interrupting"}
  <2>1. \A result \in Completion(t) \cup Cancellation(t) \cup Failure(t) :
          /\ result[1] \in Status \cup {"none", "InProgress"}
          /\ result[2] \in Status
    BY <1>1 DEF Completion, Cancellation, Failure, Fallback, Interruption,
                PlainCancellation, IfPersistFails, Status
  <2>2. \A result \in ContractChange(t) :
          /\ result[1] \in Status \cup {"none", "InProgress"}
          /\ result[2] \in Status
    BY <1>1 DEF ContractChange, Interruption, PlainCancellation,
                IfPersistFails, Status
  <2>3. \A result \in Interruption(t, "Interrupting") :
          /\ result[1] \in Status \cup {"none", "InProgress"}
          /\ result[2] \in Status \cup {"Interrupting"}
    BY <1>1 DEF Interruption, PlainCancellation, IfPersistFails, Status
  <2> QED BY <2>1, <2>2, <2>3 DEF StopResult
<1>3. PICK result \in results :
        /\ durable' = [durable EXCEPT ![t] = result[1]]
        /\ report' = [report EXCEPT ![t] = result[2]]
  BY DEF EndExecution
<1>4. /\ result[1] \in Status \cup {"none", "InProgress"}
      /\ result[2] \in Status \cup {"Interrupting"}
  BY <1>2
<1> QED
  <2>1. TypeOK'
    BY <1>3, <1>4, SMTT(30)
       DEF EndExecution, TypeOK, Phase, Executing, session, marks
  <2>2. result[2] # "none"
    BY <1>4 DEF Status
  <2> QED
    BY <1>3, <2>1, <2>2 DEF EndExecution, EndedTurnsHaveAReport, TypeOK

(* Also when the interruption was taken back.                               *)
LEMMA LoseInterruptionType ==
  ASSUME TypeOK, EndedTurnsHaveAReport, NEW t \in Turn, LoseInterruption(t)
  PROVE  TypeOK' /\ EndedTurnsHaveAReport'
<1>1. durable[t] \in Status \cup {"none", "InProgress"}
  BY DEF TypeOK
<1>2. \A result \in {<<"Cancelled", "Cancelled">>}
                    \cup IfPersistFails(Interruption(t, "Interrupted")) :
        result[1] \in Status \cup {"none", "InProgress"} /\ result[2] \in Status
  BY <1>1 DEF Interruption, PlainCancellation, IfPersistFails, Status
<1>3. PICK result \in {<<"Cancelled", "Cancelled">>}
                       \cup IfPersistFails(Interruption(t, "Interrupted")) :
        /\ durable' = [durable EXCEPT ![t] = result[1]]
        /\ report' = [report EXCEPT ![t] = result[2]]
  BY DEF LoseInterruption
<1>4. result[1] \in Status \cup {"none", "InProgress"} /\ result[2] \in Status
  BY <1>2
<1> QED
  <2>1. TypeOK'
    BY <1>3, <1>4
       DEF LoseInterruption, TypeOK, Phase, Executing, session, marks
  <2> QED
    <3>1. result[2] # "none"
      BY <1>4 DEF Status
    <3>2. \A u \in Turn :
            /\ u = t => report'[u] = result[2]
            /\ u # t => report'[u] = report[u] /\ phase'[u] = phase[u]
      BY <1>3 DEF LoseInterruption, TypeOK
    <3>3. ASSUME NEW u \in Turn, phase'[u] \in {"persisted", "settled"}
          PROVE  report'[u] # "none"
      <4>1. CASE u = t
        BY <3>1, <3>2, <4>1
      <4>2. CASE u # t
        BY <3>2, <3>3, <4>2 DEF EndedTurnsHaveAReport
      <4> QED BY <4>1, <4>2
    <3>4. EndedTurnsHaveAReport'
      BY <3>3 DEF EndedTurnsHaveAReport
    <3> QED BY <2>1, <3>4

(* The drop of the execution guard keeps the types.                         *)
LEMMA DropGuardType ==
  ASSUME TypeOK, NEW t \in Turn, DropGuard(t)
  PROVE  TypeOK'
BY DEF DropGuard, TypeOK, Phase, marks

(* An outcome that names its status extends the channel.                    *)
LEMMA SendOutcomeTypes ==
  ASSUME TypeOK, NEW t \in Turn, NEW status \in Status, SendOutcome(t, status)
  PROVE  /\ outcomes' \in Seq([turn : Turn, status : Status])
         /\ report' \in [Turn -> Status \cup {"none", "Interrupting"}]
         /\ phase' \in [Turn -> Phase]
<1>1. [turn |-> t, status |-> status] \in [turn : Turn, status : Status]
  OBVIOUS
<1>2. outcomes' \in Seq([turn : Turn, status : Status])
  BY <1>1 DEF SendOutcome, TypeOK
<1> QED BY <1>2 DEF SendOutcome, TypeOK, Phase, Executing

(* Reporting keeps the types if there is something to report.               *)
LEMMA ReportTypes ==
  ASSUME TypeOK, NEW t \in Turn,
         (Report(t) /\ report[t] # "none") \/ CommitInterruption(t)
  PROVE  TypeOK'
<1>1. report[t] \in Status \cup {"none", "Interrupting"}
  BY DEF TypeOK
<1> DEFINE Sent ==
             /\ outcomes' \in Seq([turn : Turn, status : Status])
             /\ report' \in [Turn -> Status \cup {"none", "Interrupting"}]
             /\ phase' \in [Turn -> Phase]
<1>2. CASE Report(t) /\ report[t] # "none"
  <2>1. report[t] \in Status /\ SendOutcome(t, report[t])
    BY <1>1, <1>2 DEF Report
  <2>2. Sent
    BY <2>1, SendOutcomeTypes
  <2>3. UNCHANGED <<lock, state, current, latest, queue, active, admission,
                    token, intent, durable, resumes, handler, buffered,
                    suppressed, retired, reply>>
    BY <1>2 DEF Report, session, marks
  <2> QED BY <2>2, <2>3 DEF TypeOK
<1>3. CASE CommitInterruption(t)
  <2>1. "Interrupted" \in Status /\ SendOutcome(t, "Interrupted")
    BY <1>3 DEF Status, CommitInterruption
  <2>2. Sent
    BY <2>1, SendOutcomeTypes
  <2>3. intent' \in [Turn -> {"none", "pending", "committed", "revoked"}]
    BY <1>3 DEF CommitInterruption, TypeOK
  <2>4. UNCHANGED <<lock, state, current, latest, queue, active, admission,
                    token, durable, resumes, handler, buffered, suppressed,
                    retired, reply>>
    BY <1>3 DEF CommitInterruption, session, marks
  <2> QED BY <2>2, <2>3, <2>4 DEF TypeOK
<1> QED BY <1>2, <1>3

(* The first stage of the outcome handler keeps the types.                  *)
LEMMA TakeOutcomeType ==
  ASSUME TypeOK, TakeOutcome
  PROVE  TypeOK'
<1> DEFINE o == Head(outcomes)
           t == o.turn
<1>1. /\ o \in [turn : Turn, status : Status]
      /\ outcomes' \in Seq([turn : Turn, status : Status])
  BY HeadTailProperties DEF TakeOutcome, TypeOK
<1>2. o.turn \in Turn /\ o.status \in Status
  BY <1>1
<1>3. retired' \subseteq Turn
  BY DEF TakeOutcome, TakeTombstone, TypeOK
<1>4. reply' \in [Turn -> {"none", "forwarded", "skipped", "retired"}]
  BY <1>2 DEF TakeOutcome, TypeOK
<1>5. /\ active' \in Turn \cup {NoTurn}
      /\ buffered' \subseteq Turn /\ suppressed' \subseteq Turn
  BY DEF TakeOutcome, DrainInjections, TypeOK
<1>6. handler' \in [stage : {"idle", "reply", "dispatch"},
                    turn : Turn \cup {NoTurn}, status : Status \cup {"none"},
                    matched : BOOLEAN]
  <2> HIDE DEF o
  <2>1. [stage |-> "reply", turn |-> t, status |-> o.status,
         matched |-> active = t]
          \in [stage : {"idle", "reply", "dispatch"},
              turn : Turn \cup {NoTurn}, status : Status \cup {"none"},
              matched : BOOLEAN]
    BY <1>2
  <2> QED BY <2>1 DEF TakeOutcome, TypeOK, o
<1>7. queue' \in Seq(Turn) /\ phase' \in [Turn -> Phase]
  <2>1. <<>> \in Seq(Turn)
    BY EmptySeq
  <2>2. Dropping(phase, InQueue) \in [Turn -> Phase]
    BY DroppingType DEF TypeOK, PhaseType
  <2> QED BY <2>1, <2>2 DEF TakeOutcome, TypeOK
<1> QED
  BY <1>1, <1>3, <1>4, <1>5, <1>7, <1>6 DEF TakeOutcome, TypeOK, session

(* So do its reply and its dispatch.                                        *)
LEMMA HandlerType ==
  ASSUME TypeOK, ForwardReply \/ DispatchNext
  PROVE  TypeOK'
<1>1. CASE ForwardReply
  <2>1. handler.turn \in Turn \cup {NoTurn}
    BY DEF TypeOK
  <2>2. reply' \in [Turn -> {"none", "forwarded", "skipped", "retired"}]
    BY <1>1 DEF ForwardReply, TypeOK
  <2>3. handler' \in [stage : {"idle", "reply", "dispatch"},
                      turn : Turn \cup {NoTurn}, status : Status \cup {"none"},
                      matched : BOOLEAN]
    BY <1>1 DEF ForwardReply, TypeOK, NoHandler
  <2>4. buffered' \subseteq Turn /\ suppressed' \subseteq Turn
    BY <1>1 DEF ForwardReply, DrainInjections, TypeOK
  <2> QED
    BY <1>1, <2>2, <2>3, <2>4 DEF ForwardReply, TypeOK, session, tasks
<1>2. CASE DispatchNext
  <2>1. StartedTypes /\ queue' \in Seq(Turn)
    BY <1>2, TryStartNextTypes DEF DispatchNext, TypeOK, PhaseType, DurableType
  <2> QED
    BY <1>2, <2>1
       DEF DispatchNext, TypeOK, StartedTypes, PhaseType, DurableType,
           NoHandler, marks
<1> QED BY <1>1, <1>2

(* The cancellation operations keep the types.                              *)
LEMMA CancellationType ==
  ASSUME TypeOK,
         \/ \E t \in Turn :
              CancelQueued(t) \/ CancelInterrupted(t) \/ CancelActive(t)
         \/ \E byRequester \in BOOLEAN : CancelSession(byRequester)
         \/ CancelEnd \/ CancelSessionEnd
  PROVE  TypeOK'
<1>1. /\ phase \in PhaseType /\ durable \in DurableType
      /\ queue \in Seq(Turn)
      /\ Free \in [op : LockOps, turn : Turn \cup {NoTurn}]
  BY DEF TypeOK, PhaseType, DurableType, Free, LockOps
<1>2. ASSUME NEW t \in Turn, CancelQueued(t)
      PROVE  TypeOK'
  <2>1. queue' \in Seq(Turn)
    BY <1>1, <1>2, RemoveFacts DEF CancelQueued, InQueue
  <2> QED BY <1>2, <2>1 DEF CancelQueued, TypeOK, Phase, session, marks
<1>3. ASSUME NEW u, AbandonAndDispatch(u)
      PROVE  StartedTypes /\ queue' \in Seq(Turn) /\ buffered' \subseteq Turn
  <2>1. TryStartNext(queue, phase, Abandon(durable, u))
    BY <1>3 DEF AbandonAndDispatch
  <2>2. Abandon(durable, u) \in DurableType
    BY <1>1, AbandonType
  <2>3. buffered' \subseteq Turn
    BY <1>3 DEF AbandonAndDispatch, DrainInjections, TypeOK
  <2> QED BY <1>1, <2>1, <2>2, <2>3, TryStartNextTypes
<1>4. ASSUME NEW t \in Turn, CancelInterrupted(t)
      PROVE  TypeOK'
  <2>1. StartedTypes /\ queue' \in Seq(Turn) /\ buffered' \subseteq Turn
    BY <1>3, <1>4 DEF CancelInterrupted
  <2> QED
    BY <1>4, <2>1
       DEF CancelInterrupted, TypeOK, StartedTypes, PhaseType, DurableType
<1>5. ASSUME NEW t \in Turn, CancelActive(t)
      PROVE  TypeOK'
  BY <1>5 DEF CancelActive, StopTurn, TypeOK, LockOps
<1>6. CASE CancelEnd
  <2>1. CASE durable[lock.turn] = "Interrupted"
    <3>1. StartedTypes /\ queue' \in Seq(Turn) /\ buffered' \subseteq Turn
      BY <1>3, <1>6, <2>1 DEF CancelEnd
    <3> QED
      BY <1>1, <1>6, <3>1
         DEF CancelEnd, TypeOK, StartedTypes, PhaseType, DurableType
  <2>2. CASE durable[lock.turn] # "Interrupted"
    BY <1>1, <1>6, <2>2 DEF CancelEnd, TypeOK, session
  <2> QED BY <2>1, <2>2
<1>7. ASSUME NEW byRequester \in BOOLEAN, CancelSession(byRequester)
      PROVE  TypeOK'
  <2>1. /\ intent' \in [Turn -> {"none", "pending", "committed", "revoked"}]
        /\ token' \subseteq Turn
    BY <1>7 DEF CancelSession, StopTurn, InPhase, TypeOK
  <2>2. /\ state' \in {"Idle", "Processing", "Error"}
        /\ current' \in Turn \cup {NoTurn}
    BY <1>7 DEF CancelSession, StopTurn, TypeOK
  <2>3. suppressed' \subseteq Turn
    BY <1>7, SchedulerConstants DEF CancelSession, TypeOK
  <2>4. lock' \in [op : LockOps, turn : Turn \cup {NoTurn}]
    BY <1>7 DEF CancelSession, TypeOK, LockOps
  <2>5. UNCHANGED <<queue, phase, latest, active, admission, report, durable,
                    resumes, outcomes, handler, buffered, retired, reply>>
    BY <1>7 DEF CancelSession, StopTurn
  <2> QED BY <2>1, <2>2, <2>3, <2>4, <2>5 DEF TypeOK
<1>8. CASE CancelSessionEnd
  BY <1>1, <1>8 DEF CancelSessionEnd, TypeOK, session, tasks
<1> QED BY <1>2, <1>4, <1>5, <1>6, <1>7, <1>8

(* Destructive maintenance keeps the types.                                 *)
LEMMA MaintenanceType ==
  ASSUME TypeOK,
         MaintenanceBegin \/ MaintenanceReady \/ MaintenanceTimeout
           \/ PermitRelease
  PROVE  TypeOK'
<1>1. Free \in [op : LockOps, turn : Turn \cup {NoTurn}]
  BY DEF Free, LockOps
<1>2. CASE MaintenanceBegin
  <2>1. queue' \in Seq(Turn)
    BY <1>2, EmptySeq DEF MaintenanceBegin
  <2>2. phase' \in [Turn -> Phase]
    BY <1>2, DroppingType DEF MaintenanceBegin, PhaseType, TypeOK
  <2>3. lock' \in [op : LockOps, turn : Turn \cup {NoTurn}]
    BY <1>2 DEF MaintenanceBegin, TypeOK, LockOps
  <2> QED
    <3>1. /\ intent' \in [Turn -> {"none", "pending", "committed", "revoked"}]
          /\ token' \subseteq Turn
      BY <1>2 DEF MaintenanceBegin, StopTurn, InPhase, TypeOK
    <3>2. /\ state' \in {"Idle", "Processing", "Error"}
          /\ current' \in Turn \cup {NoTurn}
      BY <1>2 DEF MaintenanceBegin, StopTurn, TypeOK, session
    <3>3. UNCHANGED <<latest, active, admission, report, durable, resumes,
                      outcomes, handler, buffered, suppressed, retired, reply>>
      BY <1>2 DEF MaintenanceBegin, StopTurn, session
    <3> QED BY <2>1, <2>2, <2>3, <3>1, <3>2, <3>3 DEF TypeOK
<1>3. CASE MaintenanceReady
  BY <1>3
     DEF MaintenanceReady, RetireActive, DrainInjections, TypeOK, LockOps,
         session, tasks
<1>4. CASE MaintenanceTimeout \/ PermitRelease
  BY <1>1, <1>4
     DEF MaintenanceTimeout, PermitRelease, TypeOK, session, tasks, marks
<1> QED BY <1>2, <1>3, <1>4

(* Interruption, recovery and steering keep the types.                      *)
LEMMA RecoveryType ==
  ASSUME TypeOK,
         \/ \E t \in Turn :
              Interrupt(t) \/ RecoverBegin(t) \/ Steer(t) \/ RoundBoundary(t)
         \/ InterruptEnd \/ RecoverRun \/ RecoverRefused \/ RecoverUndo
  PROVE  TypeOK'
<1>1. Free \in [op : LockOps, turn : Turn \cup {NoTurn}]
  BY DEF Free, LockOps
<1>2. lock.turn \in Turn \cup {NoTurn}
  BY DEF TypeOK
<1>3. ASSUME NEW t \in Turn, Interrupt(t)
      PROVE  TypeOK'
  BY <1>3 DEF Interrupt, TypeOK, LockOps, session, marks
<1>4. CASE InterruptEnd
  <2>1. intent' \in [Turn -> {"none", "pending", "committed", "revoked"}]
    BY <1>4 DEF InterruptEnd, TypeOK
  <2> QED BY <1>1, <1>4, <2>1 DEF InterruptEnd, TypeOK, session, marks
<1>5. ASSUME NEW t \in Turn, RecoverBegin(t)
      PROVE  TypeOK'
  BY <1>5 DEF RecoverBegin, TypeOK, LockOps, session, tasks, marks
<1>6. CASE RecoverRun
  <2>1. phase' \in [Turn -> Phase] /\ durable' \in DurableType
    BY <1>6 DEF RecoverRun, TypeOK, Phase, Executing, DurableType
  <2>2. resumes' \in [Turn -> Nat]
    <3>1. resumes' = [resumes EXCEPT ![lock.turn] = @ + 1]
      BY <1>6 DEF RecoverRun
    <3>2. \A u \in Turn : resumes[u] \in Nat /\ resumes[u] + 1 \in Nat
      BY DEF TypeOK
    <3> QED BY <3>1, <3>2 DEF TypeOK
  <2>3. token' \subseteq Turn
    BY <1>6 DEF RecoverRun, TypeOK
  <2>4. lock' = Free /\ state' = "Processing" /\ current' = lock.turn
    BY <1>6 DEF RecoverRun
  <2>5. UNCHANGED <<latest, queue, active, admission, report, intent,
                    outcomes, handler, buffered, suppressed, retired, reply>>
    BY <1>6 DEF RecoverRun, marks
  <2> QED
    <3>1. /\ lock' \in [op : LockOps, turn : Turn \cup {NoTurn}]
          /\ state' \in {"Idle", "Processing", "Error"}
          /\ current' \in Turn \cup {NoTurn}
      BY <1>1, <1>2, <2>4
    <3> QED BY <2>1, <2>2, <2>3, <2>5, <3>1 DEF TypeOK, DurableType
<1>7. CASE RecoverRefused
  BY <1>1, <1>2, <1>7
     DEF RecoverRefused, TypeOK, session, tasks, marks
<1>8. CASE RecoverUndo
  BY <1>8 DEF RecoverUndo, TypeOK, session, tasks, marks
<1>9. ASSUME NEW t \in Turn, Steer(t) \/ RoundBoundary(t)
      PROVE  TypeOK'
  BY <1>9 DEF Steer, RoundBoundary, TypeOK, session, tasks
<1> QED BY <1>3, <1>4, <1>5, <1>6, <1>7, <1>8, <1>9

(* Settling the session keeps the types.                                    *)
LEMMA SettleStateType ==
  ASSUME TypeOK, NEW t \in Turn, SettleState(t)
  PROVE  TypeOK'
BY DEF SettleState, TypeOK, Phase, Executing, marks

(* What a step that may start a turn does to the turns' lives: ph is phase  *)
(* but for turns that do not execute or are taken from the queue, and at    *)
(* most one turn starts from it.                                            *)
Undisturbed(ph) ==
  /\ \A u \in Turn : ph[u] \in Executing => ph[u] = phase[u]
  /\ \A u \in Turn : phase[u] \in Executing /\ u \notin InQueue
                       => ph[u] = phase[u]

Tame(ph) == ph \in PhaseType /\ Undisturbed(ph)

MayStart(ph) ==
  \/ UNCHANGED <<state, current>> /\ phase' = ph
  \/ /\ state # "Processing" /\ state' = "Processing"
     /\ \E u \in Turn : current' = u /\ phase' = [ph EXCEPT ![u] = "running"]

Starting ==
  \/ \E t \in Turn : Submit(t) \/ CancelInterrupted(t)
  \/ DispatchNext \/ CancelEnd

(* Dispatch starts at most one turn, and only if none is processed.         *)
LEMMA TryStartNextMayStart ==
  ASSUME NEW q \in Seq(Turn), NEW ph, NEW d, TryStartNext(q, ph, d)
  PROVE  MayStart(ph)
<1>1. CASE NoStart(ph, d)
  BY <1>1 DEF NoStart, MayStart, session
<1>2. CASE /\ state # "Processing" /\ q # <<>>
           /\ Start(Head(q), ph, d)
  <2>1. Head(q) \in Turn
    BY <1>2, HeadTailProperties
  <2> QED BY <1>2, <2>1 DEF Start, MayStart
<1> QED BY <1>1, <1>2 DEF TryStartNext

(* What all the steps that may start a turn have in common.                 *)
LEMMA StartingSteps ==
  ASSUME TypeOK, Starting
  PROVE  /\ \E ph : Tame(ph) /\ MayStart(ph)
         /\ lock = Free \/ lock.op = "cancel"
         /\ lock' = Free
         /\ UNCHANGED <<report, token>>
<1>1. /\ phase \in PhaseType /\ queue \in Seq(Turn)
      /\ \A t \in Turn : Enqueue(queue, t) \in Seq(Turn)
  BY EnqueueFacts DEF TypeOK, PhaseType
<1>2. Tame(phase)
  BY <1>1 DEF Tame, Undisturbed
<1>3. CASE \E t \in Turn : Submit(t)
  <2> PICK t \in Turn : Submit(t)
    BY <1>3
  <2>0. phase[t] = "new"
    BY DEF Submit
  <2>1. Tame(Accepted(phase, t)) /\ Tame([phase EXCEPT ![t] = "rejected"])
    BY <1>1, <2>0 DEF Accepted, Tame, Undisturbed, PhaseType, Phase, Executing
  <2>2. Tame(Dropping(phase, InQueue))
    BY <1>1 DEF Dropping, Tame, Undisturbed, PhaseType, Phase, Executing
  <2>3. Tame([Dropping(phase, InQueue) EXCEPT ![t] = "rejected"])
    BY <1>1, <2>0 DEF Dropping, Tame, Undisturbed, PhaseType, Phase, Executing
  <2>4. \E ph : Tame(ph) /\ MayStart(ph)
    <3>1. CASE SubmitStart(t)
      <4>1. state # "Processing"
        BY <3>1 DEF SubmitStart, StateFact
      <4>2. ASSUME NEW d, Start(t, Dropping(phase, InQueue), d)
            PROVE  MayStart(Dropping(phase, InQueue))
        BY <4>1, <4>2 DEF Start, MayStart
      <4>3. ASSUME NoStart([Dropping(phase, InQueue) EXCEPT ![t] = "rejected"],
                           durable)
            PROVE  MayStart([Dropping(phase, InQueue) EXCEPT ![t] = "rejected"])
        BY <4>3 DEF NoStart, MayStart, session
      <4> QED BY <3>1, <4>2, <4>3, <2>2, <2>3 DEF SubmitStart
    <3>2. CASE SubmitThenStartNext(t)
      BY <3>2, <1>1, <2>1, TryStartNextMayStart DEF SubmitThenStartNext
    <3>3. CASE SubmitQueued(t)
      BY <3>3, <2>1 DEF SubmitQueued, NoStart, MayStart, session
    <3>4. CASE SubmitRejected(t)
      BY <3>4, <2>1 DEF SubmitRejected, NoStart, MayStart, session
    <3> QED BY <3>1, <3>2, <3>3, <3>4 DEF Submit
  <2> QED BY <2>4 DEF Submit
<1>4. CASE DispatchNext
  BY <1>1, <1>2, <1>4, TryStartNextMayStart DEF DispatchNext
<1>5. ASSUME NEW u, AbandonAndDispatch(u)
      PROVE  MayStart(phase)
  BY <1>1, <1>5, TryStartNextMayStart DEF AbandonAndDispatch
<1>6. CASE \E t \in Turn : CancelInterrupted(t)
  BY <1>2, <1>5, <1>6 DEF CancelInterrupted
<1>7. CASE CancelEnd
  <2>1. MayStart(phase)
    BY <1>5, <1>7 DEF CancelEnd, MayStart, session
  <2> QED BY <1>2, <1>7, <2>1 DEF CancelEnd
<1> QED BY <1>3, <1>4, <1>6, <1>7 DEF Starting

(* The other steps that are not steps of a task, and what they leave alone. *)
Controlling ==
  \/ \E t \in Turn :
       \/ CancelQueued(t) \/ CancelActive(t) \/ Interrupt(t)
       \/ RecoverBegin(t) \/ Steer(t) \/ RoundBoundary(t)
  \/ \E byRequester \in BOOLEAN : CancelSession(byRequester)
  \/ CancelSessionEnd
  \/ MaintenanceBegin \/ MaintenanceReady \/ MaintenanceTimeout
  \/ PermitRelease
  \/ InterruptEnd \/ RecoverRun \/ RecoverRefused \/ RecoverUndo
  \/ TakeOutcome \/ ForwardReply

(* What the other steps do to reports and to executing turns.               *)
LEMMA ControllingSteps ==
  ASSUME TypeOK, Controlling
  PROVE  /\ report' = report
         /\ RecoverRun \/ Undisturbed(phase')
<1>1. CASE \/ \E t \in Turn :
                \/ CancelActive(t) \/ Interrupt(t) \/ RecoverBegin(t)
                \/ Steer(t) \/ RoundBoundary(t)
           \/ \E byRequester \in BOOLEAN : CancelSession(byRequester)
           \/ CancelSessionEnd \/ MaintenanceReady \/ MaintenanceTimeout
           \/ PermitRelease \/ InterruptEnd \/ RecoverRefused \/ RecoverUndo
           \/ ForwardReply
  BY <1>1
     DEF CancelActive, CancelSession, CancelSessionEnd, StopTurn,
         MaintenanceReady, MaintenanceTimeout, PermitRelease, Interrupt,
         InterruptEnd, RecoverBegin, RecoverRefused, RecoverUndo, Steer,
         RoundBoundary, ForwardReply, tasks, Undisturbed
<1>2. CASE \E t \in Turn : CancelQueued(t)
  BY <1>2 DEF CancelQueued, TypeOK, Executing, Undisturbed
<1>3. CASE MaintenanceBegin
  BY <1>3 DEF MaintenanceBegin, StopTurn, Dropping, Executing, Undisturbed
<1>4. CASE TakeOutcome
  BY <1>4 DEF TakeOutcome, Dropping, Executing, Undisturbed
<1>5. CASE RecoverRun
  BY <1>5 DEF RecoverRun
<1> QED BY <1>1, <1>2, <1>3, <1>4, <1>5 DEF Controlling

(* The next-state relation, by kind of step.                                *)
LEMMA NextSteps ==
  Next <=> \/ Starting \/ Controlling
           \/ \E t \in Turn : Winding(t) \/ Panic(t)
BY DEF Next, Task, LockedEnd, Starting, Controlling

(* The type invariant and its strengthening are inductive.                  *)
LEMMA TypeStep ==
  ASSUME TypeOK, EndedTurnsHaveAReport, [Next]_vars
  PROVE  TypeOK' /\ EndedTurnsHaveAReport'
<1>1. CASE Starting
  <2>1. PICK ph : Tame(ph) /\ MayStart(ph)
    BY <1>1, StartingSteps
  <2>2. \A u \in Turn : phase'[u] \in {"persisted", "settled"}
                          => phase'[u] = phase[u]
    BY <2>1 DEF Tame, Undisturbed, MayStart, PhaseType, Executing
  <2>3. TypeOK'
    BY <1>1, SubmitType, HandlerType, CancellationType DEF Starting
  <2> QED
    BY <1>1, <2>2, <2>3, StartingSteps DEF EndedTurnsHaveAReport
<1>2. CASE Controlling
  <2>1. report' = report
    BY <1>2, ControllingSteps
  <2>2. \A u \in Turn : phase'[u] \in {"persisted", "settled"}
                          => phase'[u] = phase[u]
    <3>1. CASE RecoverRun
      BY <3>1 DEF RecoverRun, TypeOK
    <3>2. CASE ~RecoverRun
      BY <1>2, <3>2, ControllingSteps DEF Executing, Undisturbed
    <3> QED BY <3>1, <3>2
  <2>3. TypeOK'
    BY <1>2, CancellationType, MaintenanceType, RecoveryType, HandlerType,
       TakeOutcomeType DEF Controlling
  <2> QED BY <2>1, <2>2, <2>3 DEF EndedTurnsHaveAReport
<1>3. CASE \E t \in Turn : Winding(t) \/ Panic(t)
  <2> PICK t \in Turn : Winding(t) \/ Panic(t)
    BY <1>3
  <2>1. CASE EndExecution(t)
    BY <2>1, EndExecutionType
  <2>2. CASE SettleState(t)
    <3>1. EndedTurnsHaveAReport'
      BY <2>2 DEF SettleState, EndedTurnsHaveAReport, TypeOK
    <3> QED BY <2>2, <3>1, SettleStateType
  <2>3. CASE Report(t) \/ CommitInterruption(t)
    <3>1. phase[t] = "settled"
      BY <2>3 DEF Report, CommitInterruption
    <3>2. report[t] # "none"
      BY <3>1 DEF EndedTurnsHaveAReport
    <3>3. \E status : SendOutcome(t, status)
      BY <2>3 DEF Report, CommitInterruption
    <3>4. EndedTurnsHaveAReport'
      BY <3>3 DEF SendOutcome, EndedTurnsHaveAReport, TypeOK
    <3> QED BY <2>3, <3>2, <3>4, ReportTypes
  <2>4. CASE LoseInterruption(t)
    BY <2>4, LoseInterruptionType
  <2>5. CASE Exit(t) \/ Panic(t)
    <3>1. EndedTurnsHaveAReport'
      BY <2>5 DEF Exit, Panic, DropGuard, EndedTurnsHaveAReport, TypeOK
    <3> QED BY <2>5, <3>1, DropGuardType DEF Exit, Panic
  <2> QED BY <2>1, <2>2, <2>3, <2>4, <2>5 DEF Winding
<1>4. CASE UNCHANGED vars
  BY <1>4 DEF vars, session, tasks, marks, TypeOK, EndedTurnsHaveAReport
<1> QED BY <1>1, <1>2, <1>3, <1>4, NextSteps

(* Every variable of the session keeps its type, and a task that made its   *)
(* terminal write always has an outcome to send: the scheduler is never     *)
(* sent an outcome without a status (scheduler.rs, handle_turn_outcome).    *)
THEOREM TypeCorrect == Spec => [](TypeOK /\ EndedTurnsHaveAReport)
<1>1. Init => TypeOK /\ EndedTurnsHaveAReport
  BY InitType DEF Init, EndedTurnsHaveAReport
<1>2. TypeOK /\ EndedTurnsHaveAReport /\ [Next]_vars
        => (TypeOK /\ EndedTurnsHaveAReport)'
  BY TypeStep
<1> QED BY <1>1, <1>2, PTL DEF Spec

-----------------------------------------------------------------------------
(* Exclusive execution *)

(* A step of a task disturbs only its own turn, without the lock.           *)
LEMMA TaskSteps ==
  ASSUME TypeOK, NEW t \in Turn, Winding(t) \/ Panic(t)
  PROVE  /\ \A u \in Turn : phase'[u] \in Executing => phase[u] \in Executing
         /\ \A u \in Turn : phase'[u] = "running"
                              => phase[u] = "running" /\ u # t
         /\ UNCHANGED <<lock, queue, active>>
         /\ token \ {t} \subseteq token'
         /\ \/ UNCHANGED <<state, current>>
            \/ current = t /\ state' \in {"Idle", "Error"}
<1>1. CASE EndExecution(t)
  BY <1>1 DEF EndExecution, TypeOK, Executing, session
<1>2. CASE SettleState(t)
  BY <1>2 DEF SettleState, IsProcessing, TypeOK, Executing
<1>3. CASE Report(t) \/ CommitInterruption(t)
  <2>1. /\ phase[t] = "settled"
        /\ \E status : SendOutcome(t, status)
        /\ UNCHANGED <<lock, queue, active, token, state, current>>
    BY <1>3 DEF Report, CommitInterruption, session
  <2> QED BY <2>1 DEF SendOutcome, TypeOK, Executing
<1>4. CASE LoseInterruption(t)
  BY <1>4 DEF LoseInterruption, TypeOK, Executing, session
<1>5. CASE Exit(t) \/ Panic(t)
  <2>1. DropGuard(t) /\ phase[t] \in Executing
    BY <1>5 DEF Exit, Panic, Executing
  <2> QED BY <2>1 DEF DropGuard, IsProcessing, TypeOK, Executing
<1> QED BY <1>1, <1>2, <1>3, <1>4, <1>5 DEF Winding

(* A step that takes the session from a turn signals its token, unless the  *)
(* turn has left execution; a step that starts one finds it not processing. *)
LEMMA ExclusiveStep ==
  ASSUME TypeOK, ExclusiveExecution, [Next]_vars
  PROVE  ExclusiveExecution'
<1>1. CASE Starting
  <2>1. PICK ph : Tame(ph) /\ MayStart(ph)
    BY <1>1, StartingSteps
  <2>2. token' = token
    BY <1>1, StartingSteps
  <2>3. CASE UNCHANGED <<state, current>> /\ phase' = ph
    BY <2>1, <2>2, <2>3
       DEF Tame, Undisturbed, Executing, ExclusiveExecution, IsProcessing
  <2>4. CASE /\ state # "Processing" /\ state' = "Processing"
             /\ \E u \in Turn : /\ current' = u
                                /\ phase' = [ph EXCEPT ![u] = "running"]
    <3> PICK u \in Turn : current' = u /\ phase' = [ph EXCEPT ![u] = "running"]
      BY <2>4
    <3>1. \A v \in Turn : phase[v] = "running" => v \in token
      BY <2>4 DEF ExclusiveExecution, IsProcessing
    <3>2. \A v \in Turn \ {u} : phase'[v] = "running" => phase[v] = "running"
      BY <2>1 DEF Tame, Undisturbed, PhaseType, Executing
    <3> QED BY <2>2, <2>4, <3>1, <3>2 DEF ExclusiveExecution, IsProcessing
  <2> QED BY <2>1, <2>3, <2>4 DEF MayStart
<1>2. CASE Controlling
  <2>1. CASE RecoverRun
    <3>1. \A v \in Turn : phase[v] # "running"
      BY <2>1 DEF RecoverRun, Recoverable, Drained, Executing
    <3>2. \A v \in Turn : phase'[v] = "running" => v = lock.turn
      BY <2>1, <3>1 DEF RecoverRun, TypeOK
    <3> QED
      BY <2>1, <3>2 DEF RecoverRun, ExclusiveExecution, IsProcessing
  <2>2. CASE ~RecoverRun
    <3>1. \A u \in Turn : phase'[u] = "running" => phase[u] = "running"
      BY <1>2, <2>2, ControllingSteps DEF Executing, Undisturbed
    <3>2. ASSUME NEW t, StopTurn(t)
          PROVE  ExclusiveExecution'
      BY <3>1, <3>2
         DEF StopTurn, InPhase, ExclusiveExecution, IsProcessing
    <3>3. token \subseteq token' \/ \E t : StopTurn(t)
      BY <1>2, <2>2
         DEF Controlling, CancelQueued, CancelActive, CancelSession,
             CancelSessionEnd, MaintenanceBegin, MaintenanceReady,
             MaintenanceTimeout, PermitRelease, Interrupt, InterruptEnd,
             RecoverBegin, RecoverRefused, RecoverUndo, Steer, RoundBoundary,
             TakeOutcome, ForwardReply, tasks
    <3>4. UNCHANGED <<state, current>> \/ \E t : StopTurn(t)
      BY <1>2, <2>2
         DEF Controlling, CancelQueued, CancelActive, CancelSession,
             CancelSessionEnd, MaintenanceBegin, MaintenanceReady,
             MaintenanceTimeout, PermitRelease, Interrupt, InterruptEnd,
             RecoverBegin, RecoverRefused, RecoverUndo, Steer, RoundBoundary,
             TakeOutcome, ForwardReply, session
    <3> QED
      BY <3>1, <3>2, <3>3, <3>4 DEF ExclusiveExecution, IsProcessing
  <2> QED BY <2>1, <2>2
<1>3. CASE \E t \in Turn : Winding(t) \/ Panic(t)
  <2> PICK t \in Turn : Winding(t) \/ Panic(t)
    BY <1>3
  <2> QED BY TaskSteps DEF ExclusiveExecution, IsProcessing
<1>4. CASE UNCHANGED vars
  BY <1>4 DEF vars, session, tasks, ExclusiveExecution, IsProcessing
<1> QED BY <1>1, <1>2, <1>3, <1>4, NextSteps

(* At most one turn that was not told to stop executes, and it is the one   *)
(* the session processes (start_turn, cancel_dialog_turn, the recovery of   *)
(* interrupted turns): for any number of turns, and whatever fails.         *)
THEOREM TurnsExecuteExclusively == Spec => []ExclusiveExecution
<1>1. Init => ExclusiveExecution
  BY DEF Init, ExclusiveExecution
<1>2. TypeOK /\ ExclusiveExecution /\ [Next]_vars => ExclusiveExecution'
  BY ExclusiveStep
<1> QED BY <1>1, <1>2, TypeCorrect, PTL DEF Spec

-----------------------------------------------------------------------------
(* Destructive maintenance *)

(* From its first step on, maintenance finds the session without queue and  *)
(* not processing; its permit finds it drained with nothing active.         *)
MaintenanceIsPrepared ==
  /\ lock.op \in {"maintenance", "permit"}
       => queue = <<>> /\ state # "Processing"
  /\ lock.op = "permit" => Drained /\ active = NoTurn

(* The maintenance invariant is inductive.                                  *)
LEMMA MaintenanceStep ==
  ASSUME TypeOK, MaintenanceIsPrepared, [Next]_vars
  PROVE  MaintenanceIsPrepared'
<1>1. CASE Starting
  <2>1. lock'.op = "free"
    BY <1>1, StartingSteps DEF Free
  <2> QED BY <2>1 DEF MaintenanceIsPrepared
<1>2. CASE Controlling
  <2>1. CASE \/ \E t \in Turn :
                  \/ CancelQueued(t) \/ CancelActive(t) \/ Interrupt(t)
                  \/ RecoverBegin(t) \/ Steer(t)
             \/ \E byRequester \in BOOLEAN : CancelSession(byRequester)
             \/ CancelSessionEnd \/ MaintenanceTimeout \/ PermitRelease
             \/ InterruptEnd \/ RecoverRun \/ RecoverRefused \/ TakeOutcome
    <3>1. lock'.op \notin {"maintenance", "permit"}
      BY <2>1
         DEF CancelQueued, CancelActive, Interrupt, RecoverBegin, Steer,
             CancelSession, CancelSessionEnd, MaintenanceTimeout,
             PermitRelease, InterruptEnd, RecoverRun, RecoverRefused,
             TakeOutcome, Free
    <3> QED BY <3>1 DEF MaintenanceIsPrepared
  <2>2. CASE MaintenanceBegin
    <3>1. state' # "Processing"
      BY <2>2 DEF MaintenanceBegin, StopTurn, IsProcessing, session
    <3> QED BY <2>2, <3>1 DEF MaintenanceBegin, MaintenanceIsPrepared
  <2>3. CASE MaintenanceReady
    BY <2>3
       DEF MaintenanceReady, RetireActive, MaintenanceIsPrepared, Drained,
           session, tasks
  <2>4. CASE RecoverUndo
    BY <2>4
       DEF RecoverUndo, MaintenanceIsPrepared, Drained, session, tasks
  <2>5. CASE (\E t \in Turn : RoundBoundary(t)) \/ ForwardReply
    BY <2>5
       DEF RoundBoundary, ForwardReply, MaintenanceIsPrepared, Drained,
           session, tasks
  <2> QED BY <1>2, <2>1, <2>2, <2>3, <2>4, <2>5 DEF Controlling
<1>3. CASE \E t \in Turn : Winding(t) \/ Panic(t)
  BY <1>3, TaskSteps DEF MaintenanceIsPrepared, Drained
<1>4. CASE UNCHANGED vars
  BY <1>4 DEF vars, session, tasks, MaintenanceIsPrepared, Drained
<1> QED BY <1>1, <1>2, <1>3, <1>4, NextSteps

(* While the permit of begin_session_maintenance is held the session is     *)
(* quiescent: no turn executes, none is queued, active or processing, and   *)
(* nothing the tasks or the outcome handler do without the lock changes it. *)
THEOREM MaintenanceIsExclusive == Spec => []MaintenanceIsQuiescent
<1>1. Init => MaintenanceIsPrepared
  BY DEF Init, Free, MaintenanceIsPrepared
<1>2. TypeOK /\ MaintenanceIsPrepared /\ [Next]_vars => MaintenanceIsPrepared'
  BY MaintenanceStep
<1>3. MaintenanceIsPrepared => MaintenanceIsQuiescent
  BY DEF MaintenanceIsPrepared, MaintenanceIsQuiescent
<1> QED BY <1>1, <1>2, <1>3, TypeCorrect, PTL DEF Spec

-----------------------------------------------------------------------------
(* The queue: order, bound, and the turns in it *)

Elements(q) == {q[i] : i \in 1..Len(q)}

Distinct(q) == \A i, j \in 1..Len(q) : q[i] = q[j] => i = j

(* Sorted by priority, and within the limit. *)
Ordered(q) ==
  \A i, j \in 1..Len(q) : i < j => Priority[q[i]] >= Priority[q[j]]

(* Enqueuing a turn keeps the order and adds that turn.                     *)
LEMMA EnqueueKeeps ==
  ASSUME NEW q \in Seq(Turn), NEW t \in Turn
  PROVE  /\ Len(Enqueue(q, t)) = Len(q) + 1
         /\ Elements(Enqueue(q, t)) = Elements(q) \cup {t}
         /\ Ordered(q) => Ordered(Enqueue(q, t))
         /\ Distinct(q) /\ t \notin Elements(q) => Distinct(Enqueue(q, t))
<1> DEFINE r == Enqueue(q, t)
<1>1. PICK at \in 1..Len(q)+1 :
        /\ r = Inserted(q, t, at)
        /\ \A i \in 1..at-1 : Priority[q[i]] >= Priority[t]
        /\ at <= Len(q) => Priority[q[at]] < Priority[t]
  BY EnqueueFacts
<1> HIDE DEF r
<1>2. /\ Len(r) = Len(q) + 1
      /\ \A i \in 1..at-1 : r[i] = q[i]
      /\ r[at] = t
      /\ \A i \in at+1..Len(q)+1 : r[i] = q[i-1]
  <2>1. /\ Len(Inserted(q, t, at)) = Len(q) + 1
        /\ \A i \in 1..at-1 : Inserted(q, t, at)[i] = q[i]
        /\ Inserted(q, t, at)[at] = t
        /\ \A i \in at+1..Len(q)+1 : Inserted(q, t, at)[i] = q[i-1]
    BY InsertAt
  <2> QED BY <1>1, <2>1, Zenon
<1>3. /\ \A i \in 1..Len(q) : Priority[q[i]] \in Nat
      /\ Priority[t] \in Nat
  BY ElementOfSeq, SchedulerConstants
<1>4. Elements(r) = Elements(q) \cup {t}
  <2>1. ASSUME NEW u \in Elements(q)
        PROVE  u \in Elements(r)
    <3> PICK k \in 1..Len(q) : u = q[k]
      BY DEF Elements
    <3>1. CASE k < at
      <4>1. k \in 1..at-1 /\ k \in 1..Len(r)
        BY <3>1, <1>2
      <4> QED BY <4>1, <1>2 DEF Elements
    <3>2. CASE k >= at
      <4>1. k + 1 \in at+1..Len(q)+1 /\ k + 1 \in 1..Len(r) /\ (k + 1) - 1 = k
        BY <3>2, <1>2
      <4>2. r[k + 1] = q[k]
        BY <4>1, <1>2
      <4> QED BY <4>1, <4>2 DEF Elements
    <3> QED BY <3>1, <3>2
  <2>2. t \in Elements(r)
    BY <1>2 DEF Elements
  <2>3. ASSUME NEW u \in Elements(r)
        PROVE  u \in Elements(q) \cup {t}
    <3> PICK k \in 1..Len(r) : u = r[k]
      BY DEF Elements
    <3>1. CASE k < at
      <4>1. k \in 1..at-1 /\ k \in 1..Len(q)
        BY <3>1
      <4> QED BY <4>1, <1>2 DEF Elements
    <3>2. CASE k > at
      <4>1. k \in at+1..Len(q)+1 /\ k - 1 \in 1..Len(q)
        BY <3>2, <1>2
      <4> QED BY <4>1, <1>2 DEF Elements
    <3>3. CASE k = at
      BY <3>3, <1>2
    <3> QED BY <3>1, <3>2, <3>3, <1>2
  <2> QED BY <2>1, <2>2, <2>3
<1>5. ASSUME Ordered(q)
      PROVE  Ordered(r)
  <2>1. ASSUME NEW j \in at..Len(q)
        PROVE  Priority[q[j]] <= Priority[t]
    <3>1. at <= Len(q) /\ at \in 1..Len(q) /\ j \in 1..Len(q)
      OBVIOUS
    <3>2. Priority[q[at]] < Priority[t]
      BY <1>1, <3>1
    <3>3. Priority[q[j]] <= Priority[q[at]]
      BY <1>3, <1>5, <3>1 DEF Ordered
    <3> QED BY <1>3, <3>1, <3>2, <3>3
  <2>2. ASSUME NEW i \in 1..Len(r), NEW j \in 1..Len(r), i < j
        PROVE  Priority[r[i]] >= Priority[r[j]]
    <3>1. CASE j < at
      <4>1. /\ i \in 1..at-1 /\ j \in 1..at-1
            /\ i \in 1..Len(q) /\ j \in 1..Len(q)
        BY <2>2, <3>1
      <4> QED BY <2>2, <4>1, <1>2, <1>5 DEF Ordered
    <3>2. CASE j = at
      <4>1. i \in 1..at-1
        BY <2>2, <3>2
      <4> QED BY <3>2, <4>1, <1>1, <1>2
    <3>3. CASE j > at
      <4>1. /\ j \in at+1..Len(q)+1 /\ j - 1 \in at..Len(q)
            /\ j - 1 \in 1..Len(q)
        BY <3>3, <1>2
      <4>2. r[j] = q[j-1]
        BY <4>1, <1>2
      <4>3. CASE i < at
        <5>1. i \in 1..at-1 /\ i \in 1..Len(q) /\ i < j - 1
          BY <4>1, <4>3
        <5> QED BY <4>1, <4>2, <5>1, <1>2, <1>5 DEF Ordered
      <4>4. CASE i = at
        BY <4>1, <4>2, <4>4, <2>1, <1>2, <1>3
      <4>5. CASE i > at
        <5>1. /\ i \in at+1..Len(q)+1 /\ i - 1 \in 1..Len(q)
              /\ i - 1 < j - 1
          BY <2>2, <4>5, <1>2
        <5> QED BY <4>1, <4>2, <5>1, <1>2, <1>5 DEF Ordered
      <4> QED BY <4>3, <4>4, <4>5
    <3> QED BY <3>1, <3>2, <3>3, <1>2
  <2> QED BY <2>2 DEF Ordered
<1>6. ASSUME Distinct(q), t \notin Elements(q)
      PROVE  Distinct(r)
  <2> DEFINE back(i) == IF i < at THEN i ELSE i - 1
  <2>1. \A i \in 1..Len(r) : i # at => /\ back(i) \in 1..Len(q)
                                       /\ r[i] = q[back(i)]
    <3> SUFFICES ASSUME NEW i \in 1..Len(r), i # at
                 PROVE  back(i) \in 1..Len(q) /\ r[i] = q[back(i)]
      OBVIOUS
    <3>1. CASE i < at
      BY <3>1, <1>2
    <3>2. CASE i > at
      <4>1. i \in at+1..Len(q)+1 /\ i - 1 \in 1..Len(q)
        BY <3>2, <1>2
      <4> QED BY <3>2, <4>1, <1>2
    <3> QED BY <3>1, <3>2, <1>2
  <2>2. \A i, j \in 1..Len(r) :
          i # at /\ j # at /\ back(i) = back(j) => i = j
    BY <1>2
  <2> HIDE DEF back
  <2>3. \A i \in 1..Len(r) : i # at => r[i] # t
    BY <2>1, <1>6 DEF Elements
  <2>4. ASSUME NEW i \in 1..Len(r), NEW j \in 1..Len(r), r[i] = r[j]
        PROVE  i = j
    <3>1. CASE i # at /\ j # at
      BY <2>1, <2>2, <2>4, <3>1, <1>6 DEF Distinct
    <3>2. CASE i = at \/ j = at
      BY <2>3, <2>4, <3>2, <1>2
    <3> QED BY <3>1, <3>2
  <2> QED BY <2>4 DEF Distinct
<1> QED BY <1>2, <1>4, <1>5, <1>6 DEF r

(* Removing a turn keeps the order and the other turns.                     *)
LEMMA RemoveKeeps ==
  ASSUME NEW q \in Seq(Turn), NEW at \in 1..Len(q)
  PROVE  /\ Len(Without(q, at)) = Len(q) - 1
         /\ Ordered(q) => Ordered(Without(q, at))
         /\ Distinct(q) => /\ Distinct(Without(q, at))
                           /\ Elements(Without(q, at)) = Elements(q) \ {q[at]}
<1> DEFINE r == Without(q, at)
           from(i) == IF i < at THEN i ELSE i + 1
<1>1. /\ Len(r) = Len(q) - 1
      /\ \A i \in 1..at-1 : r[i] = q[i]
      /\ \A i \in at..Len(q)-1 : r[i] = q[i+1]
  BY RemoveAt
<1> HIDE DEF r
<1>2. ASSUME NEW i \in 1..Len(r)
      PROVE  /\ from(i) \in 1..Len(q) /\ from(i) # at
             /\ r[i] = q[from(i)]
  <2>1. CASE i < at
    BY <2>1, <1>1
  <2>2. CASE i >= at
    <3>1. i \in at..Len(q)-1
      BY <2>2, <1>1
    <3> QED BY <2>2, <3>1, <1>1
  <2> QED BY <2>1, <2>2
<1>3. \A i, j \in 1..Len(r) : i < j <=> from(i) < from(j)
  BY <1>1
<1>4. \A i, j \in 1..Len(r) : from(i) = from(j) => i = j
  BY <1>1
<1>5. ASSUME NEW k \in 1..Len(q), k # at
      PROVE  \E i \in 1..Len(r) : from(i) = k
  <2>1. CASE k < at
    <3>1. k \in 1..Len(r) /\ from(k) = k
      BY <2>1, <1>1
    <3> QED BY <3>1
  <2>2. CASE k > at
    <3>1. k - 1 \in 1..Len(r) /\ from(k - 1) = k
      BY <2>2, <1>1
    <3> QED BY <3>1
  <2> QED BY <1>5, <2>1, <2>2
<1> HIDE DEF from
<1>6. Ordered(q) => Ordered(r)
  BY <1>2, <1>3 DEF Ordered
<1>7. Distinct(q) => Distinct(r)
  BY <1>2, <1>4 DEF Distinct
<1>8. Distinct(q) => Elements(r) = Elements(q) \ {q[at]}
  <2> SUFFICES ASSUME Distinct(q)
               PROVE  Elements(r) = Elements(q) \ {q[at]}
    OBVIOUS
  <2>1. \A u \in Elements(r) : u \in Elements(q) /\ u # q[at]
    BY <1>2 DEF Elements, Distinct
  <2>2. ASSUME NEW u \in Elements(q), u # q[at]
        PROVE  u \in Elements(r)
    <3>1. PICK k \in 1..Len(q) : u = q[k] /\ k # at
      BY <2>2 DEF Elements
    <3>2. PICK i \in 1..Len(r) : from(i) = k
      BY <1>5, <3>1
    <3>3. u = r[i]
      BY <1>2, <3>1, <3>2
    <3> QED BY <3>3 DEF Elements
  <2> QED BY <2>1, <2>2
<1> QED BY <1>1, <1>6, <1>7, <1>8 DEF r

(* Dispatch takes the first element of the queue.                           *)
LEMMA TailIsWithoutFirst ==
  ASSUME NEW q \in Seq(Turn), q # <<>>
  PROVE  /\ Tail(q) = Without(q, 1) /\ 1 \in 1..Len(q)
         /\ Head(q) = q[1] /\ Head(q) \in Turn
<1>1. Len(q) \in Nat \ {0}
  BY EmptySeq
<1>2. SubSeq(q, 1, 1 - 1) = <<>>
  BY SubSeqEmpty
<1>3. Tail(q) = SubSeq(q, 2, Len(q)) /\ SubSeq(q, 2, Len(q)) \in Seq(Turn)
  BY TailIsSubSeq, HeadTailProperties
<1>4. Without(q, 1) = SubSeq(q, 2, Len(q))
  BY <1>2, <1>3, ConcatEmptySeq DEF Without
<1> QED BY <1>1, <1>3, <1>4, HeadTailProperties

(* A queue q that agrees with the lives ph and the persisted statuses d of  *)
(* the turns.  That a turn is not persisted before it has started is what   *)
(* keeps recovery from starting a queued turn a second time.                *)
Tidy(q, ph, d) ==
  /\ Len(q) <= MaxQueueDepth /\ Ordered(q) /\ Distinct(q)
  /\ \A u \in Turn : ph[u] = "waiting" <=> u \in Elements(q)
  /\ \A u \in Turn : ph[u] \in {"new", "waiting"} => d[u] = "none"

QueueIsTidy == Tidy(queue, phase, durable)

(* An empty queue is tidy if no turn waits.                                 *)
LEMMA EmptyIsTidy ==
  ASSUME NEW ph, NEW d, \A u \in Turn : ph[u] # "waiting",
         \A u \in Turn : ph[u] = "new" => d[u] = "none"
  PROVE  Tidy(<<>>, ph, d)
BY SchedulerConstants, EmptySeq DEF Tidy, Ordered, Distinct, Elements

(* Starting the head leaves the tail tidy.                                  *)
LEMMA StartIsTidy ==
  ASSUME NEW q \in Seq(Turn), q # <<>>, NEW ph \in PhaseType,
         NEW d \in DurableType, Tidy(q, ph, d), Start(Head(q), ph, d)
  PROVE  Tidy(Tail(q), phase', durable')
<1> DEFINE t == Head(q)
<1>1. /\ Tail(q) = Without(q, 1) /\ 1 \in 1..Len(q)
      /\ t = q[1] /\ t \in Turn
  BY TailIsWithoutFirst
<1>2. /\ Len(Tail(q)) = Len(q) - 1 /\ Ordered(Tail(q)) /\ Distinct(Tail(q))
      /\ Elements(Tail(q)) = Elements(q) \ {t}
  <2>1. Ordered(q) /\ Distinct(q)
    BY DEF Tidy
  <2>2. /\ Len(Without(q, 1)) = Len(q) - 1
        /\ Ordered(Without(q, 1)) /\ Distinct(Without(q, 1))
        /\ Elements(Without(q, 1)) = Elements(q) \ {q[1]}
    BY <1>1, <2>1, RemoveKeeps
  <2> QED BY <1>1, <2>2
<1>3. Len(Tail(q)) <= MaxQueueDepth
  BY <1>1, <1>2, SchedulerConstants DEF Tidy
<1>4. /\ phase' = [ph EXCEPT ![t] = "running"]
      /\ durable' = [d EXCEPT ![t] = "InProgress"]
  BY DEF Start
<1> HIDE DEF t
<1>5. \A u \in Turn : /\ u = t => phase'[u] = "running"
                      /\ u # t => phase'[u] = ph[u] /\ durable'[u] = d[u]
  BY <1>1, <1>4 DEF PhaseType, DurableType
<1> QED BY <1>1, <1>2, <1>3, <1>5 DEF Tidy

(* Dispatch leaves the queue tidy, also when the start fails.               *)
LEMMA TryStartNextIsTidy ==
  ASSUME NEW q \in Seq(Turn), NEW ph \in PhaseType, NEW d \in DurableType,
         Tidy(q, ph, d), TryStartNext(q, ph, d)
  PROVE  QueueIsTidy'
<1>1. CASE queue' = q /\ NoStart(ph, d)
  BY <1>1 DEF NoStart, QueueIsTidy
<1>2. CASE q # <<>> /\ queue' = Tail(q) /\ Start(Head(q), ph, d)
  BY <1>2, StartIsTidy DEF QueueIsTidy
<1> QED BY <1>1, <1>2 DEF TryStartNext

(* Only turns that were started have a recovery fact to give up.            *)
LEMMA AbandonIsTidy ==
  ASSUME NEW q, NEW ph, NEW d \in DurableType, NEW t, Tidy(q, ph, d)
  PROVE  Tidy(q, ph, Abandon(d, t))
BY DEF Tidy, Abandon

(* Accepting a new turn while there is room.                                *)
LEMMA EnqueueIsTidy ==
  ASSUME NEW q \in Seq(Turn), NEW ph \in PhaseType, NEW d \in DurableType,
         Tidy(q, ph, d), NEW t \in Turn, ph[t] = "new",
         Len(q) < MaxQueueDepth
  PROVE  Tidy(Enqueue(q, t), Accepted(ph, t), d)
<1>1. t \notin Elements(q)
  BY DEF Tidy
<1>2. /\ Len(Enqueue(q, t)) = Len(q) + 1
      /\ Elements(Enqueue(q, t)) = Elements(q) \cup {t}
      /\ Ordered(Enqueue(q, t)) /\ Distinct(Enqueue(q, t))
  BY <1>1, EnqueueKeeps DEF Tidy
<1>3. Len(Enqueue(q, t)) <= MaxQueueDepth
  BY <1>2, SchedulerConstants
<1>4. \A u \in Turn : /\ u = t => Accepted(ph, t)[u] = "waiting"
                      /\ u # t => Accepted(ph, t)[u] = ph[u]
  BY DEF Accepted, PhaseType
<1> QED BY <1>2, <1>3, <1>4 DEF Tidy

(* The steps that may start a turn leave the queue tidy.                    *)
LEMMA StartingIsTidy ==
  ASSUME TypeOK, QueueIsTidy, Starting
  PROVE  QueueIsTidy'
<1>1. /\ phase \in PhaseType /\ durable \in DurableType /\ queue \in Seq(Turn)
      /\ \A t : Abandon(durable, t) \in DurableType
  BY AbandonType DEF TypeOK, PhaseType, DurableType
<1>2. ASSUME NEW t, AbandonAndDispatch(t)
      PROVE  QueueIsTidy'
  <2>1. Tidy(queue, phase, Abandon(durable, t))
    BY <1>1, AbandonIsTidy DEF QueueIsTidy
  <2> QED BY <1>1, <1>2, <2>1, TryStartNextIsTidy DEF AbandonAndDispatch
<1>3. CASE DispatchNext
  BY <1>1, <1>3, TryStartNextIsTidy DEF DispatchNext, QueueIsTidy
<1>4. CASE CancelEnd \/ \E t \in Turn : CancelInterrupted(t)
  BY <1>2, <1>4 DEF CancelEnd, CancelInterrupted, QueueIsTidy
<1>5. CASE \E t \in Turn : Submit(t)
  <2> PICK t \in Turn : Submit(t)
    BY <1>5
  <2> DEFINE d == IF ReleasesHold(t) THEN Abandon(durable, latest) ELSE durable
  <2>1. phase[t] = "new"
    BY DEF Submit
  <2>2. d \in DurableType /\ Tidy(queue, phase, d)
    BY <1>1, AbandonIsTidy DEF QueueIsTidy
  <2> HIDE DEF d
  <2>3. Len(queue) < MaxQueueDepth =>
          /\ Enqueue(queue, t) \in Seq(Turn)
          /\ Accepted(phase, t) \in PhaseType
          /\ Tidy(Enqueue(queue, t), Accepted(phase, t), d)
    BY <1>1, <2>1, <2>2, EnqueueIsTidy, EnqueueFacts, AcceptedType
  <2>4. CASE SubmitStart(t)
    <3> DEFINE ph == Dropping(phase, InQueue)
    <3>1. /\ ph \in PhaseType
          /\ \A u \in Turn : /\ ph[u] # "waiting"
                             /\ ph[u] = "new" => phase[u] = "new"
      BY <1>1, DroppingType
         DEF Dropping, InQueue, QueueIsTidy, Tidy, Elements
    <3>2. queue' = <<>>
      BY <2>4 DEF SubmitStart
    <3>3. /\ \A u \in Turn : phase'[u] # "waiting"
          /\ \A u \in Turn : phase'[u] = "new" => u # t /\ phase[u] = "new"
      <4> HIDE DEF ph
      <4>1. \E life \in {"running", "rejected"} :
              phase' = [ph EXCEPT ![t] = life]
        BY <2>4 DEF SubmitStart, Start, NoStart, ph
      <4> QED BY <3>1, <4>1 DEF PhaseType
    <3>4. \A u \in Turn \ {t} : durable'[u] = durable[u]
                                \/ durable'[u] = Abandon(durable, latest)[u]
      BY <1>1, <2>4 DEF SubmitStart, Start, NoStart, DurableType
    <3>5. \A u \in Turn : phase[u] = "new" =>
            durable[u] = "none" /\ Abandon(durable, latest)[u] = "none"
      BY DEF QueueIsTidy, Tidy, Abandon
    <3> QED BY <3>2, <3>3, <3>4, <3>5, EmptyIsTidy DEF QueueIsTidy
  <2>5. CASE SubmitThenStartNext(t)
    BY <2>2, <2>3, <2>5, TryStartNextIsTidy DEF SubmitThenStartNext, d
  <2>6. CASE SubmitQueued(t)
    BY <2>3, <2>6 DEF SubmitQueued, NoStart, QueueIsTidy, d
  <2>7. CASE SubmitRejected(t)
    <3>1. /\ queue' = queue /\ durable' = durable
          /\ phase' = [phase EXCEPT ![t] = "rejected"]
      BY <2>7 DEF SubmitRejected, NoStart
    <3> QED BY <1>1, <2>1, <3>1 DEF QueueIsTidy, Tidy, PhaseType
  <2> QED BY <2>4, <2>5, <2>6, <2>7 DEF Submit
<1> QED BY <1>3, <1>4, <1>5 DEF Starting

(* So do the other operations: recovery never starts a queued turn.         *)
LEMMA ControllingIsTidy ==
  ASSUME TypeOK, QueueIsTidy, Controlling
  PROVE  QueueIsTidy'
<1>1. phase \in PhaseType /\ queue \in Seq(Turn)
  BY DEF TypeOK, PhaseType
<1>2. CASE UNCHANGED <<queue, phase, durable>>
  BY <1>2 DEF QueueIsTidy
<1>3. ASSUME queue' = <<>>, phase' = Dropping(phase, InQueue),
             durable' = durable
      PROVE  QueueIsTidy'
  <2>1. \A u \in Turn : phase'[u] # "waiting"
    BY <1>3 DEF Dropping, InQueue, QueueIsTidy, Tidy, Elements
  <2>2. \A u \in Turn : phase'[u] = "new" => durable'[u] = "none"
    BY <1>3 DEF Dropping, QueueIsTidy, Tidy
  <2> QED BY <1>3, <2>1, <2>2, EmptyIsTidy DEF QueueIsTidy
<1>4. CASE \E t \in Turn : CancelQueued(t)
  <2> PICK t \in Turn : CancelQueued(t)
    BY <1>4
  <2>1. PICK at \in 1..Len(queue) :
          queue[at] = t /\ Remove(queue, t) = Without(queue, at)
    BY <1>1, RemoveFacts DEF CancelQueued, InQueue
  <2>2. queue' = Without(queue, at)
    BY <2>1 DEF CancelQueued
  <2>3. /\ Len(queue') = Len(queue) - 1
        /\ Ordered(queue') /\ Distinct(queue')
        /\ Elements(queue') = Elements(queue) \ {t}
    BY <1>1, <2>1, <2>2, RemoveKeeps DEF QueueIsTidy, Tidy
  <2>4. Len(queue') <= MaxQueueDepth
    BY <1>1, <2>3, SchedulerConstants DEF QueueIsTidy, Tidy
  <2>5. /\ durable' = durable
        /\ \A u \in Turn : /\ u = t => phase'[u] = "dropped"
                           /\ u # t => phase'[u] = phase[u]
    BY <1>1 DEF CancelQueued, PhaseType
  <2> QED BY <2>3, <2>4, <2>5 DEF QueueIsTidy, Tidy
<1>5. CASE MaintenanceBegin
  BY <1>3, <1>5 DEF MaintenanceBegin, StopTurn
<1>6. CASE TakeOutcome
  <2>1. CASE queue' = <<>> /\ phase' = Dropping(phase, InQueue)
    BY <1>3, <1>6, <2>1 DEF TakeOutcome
  <2>2. CASE UNCHANGED <<queue, phase>>
    BY <1>2, <1>6, <2>2 DEF TakeOutcome
  <2> QED BY <1>6, <2>1, <2>2 DEF TakeOutcome
<1>7. CASE RecoverRun
  <2> DEFINE t == lock.turn
  <2>1. /\ phase' = [phase EXCEPT ![t] = "running"]
        /\ durable' = [durable EXCEPT ![t] = "InProgress"]
        /\ durable[t] = "Interrupted" /\ queue' = queue
    BY <1>7 DEF RecoverRun, Recoverable
  <2> HIDE DEF t
  <2>2. t \in Turn => phase[t] \notin {"new", "waiting"}
    BY <2>1 DEF QueueIsTidy, Tidy
  <2>3. \A u \in Turn : /\ u = t => phase'[u] = "running"
                        /\ u # t => /\ phase'[u] = phase[u]
                                    /\ durable'[u] = durable[u]
    BY <1>1, <2>1 DEF PhaseType, TypeOK
  <2> QED BY <2>1, <2>2, <2>3 DEF QueueIsTidy, Tidy
<1>8. CASE \/ \E t \in Turn :
                \/ CancelActive(t) \/ Interrupt(t) \/ RecoverBegin(t)
                \/ Steer(t) \/ RoundBoundary(t)
           \/ \E byRequester \in BOOLEAN : CancelSession(byRequester)
           \/ CancelSessionEnd \/ MaintenanceReady \/ MaintenanceTimeout
           \/ PermitRelease \/ InterruptEnd \/ RecoverRefused \/ RecoverUndo
           \/ ForwardReply
  <2>1. UNCHANGED <<queue, phase, durable>>
    BY <1>8
       DEF CancelActive, CancelSession, CancelSessionEnd, StopTurn,
           MaintenanceReady, MaintenanceTimeout, PermitRelease, Interrupt,
           InterruptEnd, RecoverBegin, RecoverRefused, RecoverUndo, Steer,
           RoundBoundary, ForwardReply, tasks
  <2> QED BY <1>2, <2>1
<1> QED BY <1>4, <1>5, <1>6, <1>7, <1>8 DEF Controlling

(* And the tasks, which do not touch the queue.                             *)
LEMMA TaskIsTidy ==
  ASSUME TypeOK, QueueIsTidy, NEW t \in Turn, Winding(t) \/ Panic(t)
  PROVE  QueueIsTidy'
<1>1. /\ phase[t] \in Executing /\ queue' = queue
      /\ \E life \in Executing \cup {"done"} :
           phase' = [phase EXCEPT ![t] = life]
      /\ \E status : durable' = [durable EXCEPT ![t] = status]
  <2>1. durable = [durable EXCEPT ![t] = durable[t]]
    BY DEF TypeOK
  <2>2. CASE EndExecution(t)
    BY <2>2 DEF EndExecution, Executing
  <2>3. CASE SettleState(t)
    BY <2>1, <2>3 DEF SettleState, Executing
  <2>4. CASE Report(t) \/ CommitInterruption(t)
    <3>1. /\ phase[t] = "settled" /\ UNCHANGED <<queue, durable>>
          /\ \E status : SendOutcome(t, status)
      BY <2>4 DEF Report, CommitInterruption
    <3> QED BY <2>1, <3>1 DEF SendOutcome, Executing
  <2>5. CASE LoseInterruption(t)
    BY <2>5 DEF LoseInterruption, Executing
  <2>6. CASE Exit(t) \/ Panic(t)
    BY <2>1, <2>6 DEF Exit, Panic, DropGuard, Executing
  <2> QED BY <2>2, <2>3, <2>4, <2>5, <2>6 DEF Winding
<1>2. /\ phase[t] \notin {"new", "waiting"}
      /\ phase'[t] \notin {"new", "waiting"}
      /\ \A u \in Turn : u # t => /\ phase'[u] = phase[u]
                                  /\ durable'[u] = durable[u]
  BY <1>1 DEF TypeOK, Executing
<1> QED BY <1>1, <1>2 DEF QueueIsTidy, Tidy

(* Tidiness is inductive, given the types.                                  *)
LEMMA TidyStep ==
  ASSUME TypeOK, QueueIsTidy, [Next]_vars
  PROVE  QueueIsTidy'
<1>1. CASE UNCHANGED vars
  BY <1>1 DEF vars, tasks, QueueIsTidy
<1> QED BY <1>1, NextSteps, StartingIsTidy, ControllingIsTidy, TaskIsTidy

(* The queue is tidy in every reachable state.                              *)
LEMMA TidyQueues == Spec => []QueueIsTidy
<1>1. Init => QueueIsTidy
  BY EmptyIsTidy DEF Init, QueueIsTidy
<1>2. TypeOK /\ QueueIsTidy /\ [Next]_vars => QueueIsTidy'
  BY TidyStep
<1> QED BY <1>1, <1>2, TypeCorrect, PTL DEF Spec

(* No accepted turn disappears silently (clear_queue, finish_removed_       *)
(* queued_turn, requeue_front): a turn that was accepted and neither        *)
(* started nor was reported cancelled is in the queue, exactly once.        *)
THEOREM AcceptedTurnsAreKept == Spec => []NoAcceptedTurnDisappears
<1>1. QueueIsTidy => NoAcceptedTurnDisappears
  BY DEF QueueIsTidy, Tidy, NoAcceptedTurnDisappears, InQueue, Elements,
         Distinct
<1> QED BY <1>1, TidyQueues, PTL

(* The queue is sorted by priority and never grows beyond its limit, across *)
(* every insertion, removal and failed start (DialogTurnQueue).             *)
THEOREM QueueStaysOrdered == Spec => []QueueIsOrdered
<1>1. QueueIsTidy => QueueIsOrdered
  BY DEF QueueIsTidy, Tidy, QueueIsOrdered, Ordered
<1> QED BY <1>1, TidyQueues, PTL

-----------------------------------------------------------------------------
(* The session is not stuck in Processing *)

(* The turn a session processes executes and has not settled the session;   *)
(* recovery is always of a turn.                                            *)
ProcessingIsLive ==
  /\ state = "Processing" =>
       current \in Turn /\ phase[current] \in {"running", "persisted"}
  /\ lock.op = "recover" => lock.turn \in Turn

(* The processing invariant is inductive, given a tidy queue.               *)
LEMMA LiveStep ==
  ASSUME TypeOK, QueueIsTidy, ProcessingIsLive, [Next]_vars
  PROVE  ProcessingIsLive'
<1>0. state = "Processing" =>
        /\ current \in Turn /\ phase[current] \in Executing
        /\ current \notin InQueue
  BY DEF ProcessingIsLive, QueueIsTidy, Tidy, InQueue, Elements, Executing
<1>1. CASE Starting
  <2>1. PICK ph : Tame(ph) /\ MayStart(ph)
    BY <1>1, StartingSteps
  <2>2. lock'.op = "free"
    BY <1>1, StartingSteps DEF Free
  <2>3. CASE UNCHANGED <<state, current>> /\ phase' = ph
    BY <1>0, <2>1, <2>2, <2>3 DEF Tame, Undisturbed, ProcessingIsLive
  <2>4. CASE \E u \in Turn : /\ current' = u
                             /\ phase' = [ph EXCEPT ![u] = "running"]
    BY <2>1, <2>2, <2>4 DEF Tame, PhaseType, ProcessingIsLive
  <2> QED BY <2>1, <2>3, <2>4 DEF MayStart
<1>2. CASE Controlling
  <2>1. CASE RecoverRun
    <3>1. /\ current' = lock.turn /\ lock.turn \in Turn /\ lock' = Free
          /\ phase' = [phase EXCEPT ![lock.turn] = "running"]
      BY <2>1 DEF RecoverRun, ProcessingIsLive
    <3> QED BY <3>1 DEF ProcessingIsLive, Free, TypeOK
  <2>2. CASE ~RecoverRun
    <3>1. Undisturbed(phase')
      BY <1>2, <2>2, ControllingSteps
    <3>2. UNCHANGED <<state, current>> \/ state' # "Processing"
      BY <1>2, <2>2
         DEF Controlling, CancelQueued, CancelActive, CancelSession, StopTurn,
             IsProcessing, CancelSessionEnd, MaintenanceBegin,
             MaintenanceReady, MaintenanceTimeout, PermitRelease, Interrupt,
             InterruptEnd, RecoverBegin, RecoverRefused, RecoverUndo, Steer,
             RoundBoundary, TakeOutcome, ForwardReply, session
    <3>3. lock'.op = "recover" =>
            lock' = lock \/ \E t \in Turn : lock'.turn = t
      BY <1>2, <2>2
         DEF Controlling, CancelQueued, CancelActive, CancelSession,
             CancelSessionEnd, MaintenanceBegin, MaintenanceReady,
             MaintenanceTimeout, PermitRelease, Interrupt, InterruptEnd,
             RecoverBegin, RecoverRefused, RecoverUndo, Steer, RoundBoundary,
             TakeOutcome, ForwardReply, Free
    <3> QED
      BY <1>0, <3>1, <3>2, <3>3 DEF ProcessingIsLive, Undisturbed
  <2> QED BY <2>1, <2>2
<1>3. CASE \E t \in Turn : Winding(t) \/ Panic(t)
  <2> PICK t \in Turn : Winding(t) \/ Panic(t)
    BY <1>3
  <2>1. lock' = lock
    BY TaskSteps
  <2>2. state' = "Processing" =>
          /\ UNCHANGED <<state, current>>
          /\ phase'[current] \in {"running", "persisted"}
    <3>1. CASE EndExecution(t)
      BY <3>1 DEF EndExecution, ProcessingIsLive, TypeOK, session
    <3>2. CASE SettleState(t)
      BY <3>2 DEF SettleState, IsProcessing, ProcessingIsLive, TypeOK
    <3>3. CASE Report(t) \/ CommitInterruption(t)
      <4>1. /\ phase[t] = "settled" /\ UNCHANGED <<state, current>>
            /\ \E status : SendOutcome(t, status)
        BY <3>3 DEF Report, CommitInterruption, session
      <4> QED BY <4>1 DEF SendOutcome, ProcessingIsLive, TypeOK
    <3>4. CASE LoseInterruption(t)
      BY <3>4 DEF LoseInterruption, ProcessingIsLive, TypeOK, session
    <3>5. CASE Exit(t) \/ Panic(t)
      BY <3>5
         DEF Exit, Panic, DropGuard, IsProcessing, ProcessingIsLive, TypeOK
    <3> QED BY <3>1, <3>2, <3>3, <3>4, <3>5 DEF Winding
  <2> QED BY <2>1, <2>2 DEF ProcessingIsLive
<1>4. CASE UNCHANGED vars
  BY <1>4 DEF vars, session, tasks, ProcessingIsLive
<1> QED BY <1>1, <1>2, <1>3, <1>4, NextSteps

(* A session in Processing has a task that will take it out of it: neither  *)
(* a panic, nor a lost terminal write, nor a cancellation leaves it stuck   *)
(* (SessionExecutionGuard, update_session_state_for_turn_if_processing).    *)
THEOREM ProcessingHasATask == Spec => []ProcessingIsExecuted
<1>1. Init => ProcessingIsLive
  BY DEF Init, Free, ProcessingIsLive
<1>2. TypeOK /\ QueueIsTidy /\ ProcessingIsLive /\ [Next]_vars
        => ProcessingIsLive'
  BY LiveStep
<1>3. ProcessingIsLive => ProcessingIsExecuted
  BY DEF ProcessingIsLive, ProcessingIsExecuted
<1> QED BY <1>1, <1>2, <1>3, TypeCorrect, TidyQueues, PTL DEF Spec
=============================================================================
