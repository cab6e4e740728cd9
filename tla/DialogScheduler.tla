-------------------------- MODULE DialogScheduler --------------------------
(***************************************************************************)
(* One session of the dialog scheduler: submission, the priority queue,    *)
(* dispatch, cancellation, interruption and recovery, destructive          *)
(* maintenance, the spawned task of each turn, and the outcome handler     *)
(* (agentic/coordination/scheduler.rs and coordinator.rs, with the queue   *)
(* and the active-turn store of agent-runtime/src/scheduler.rs).           *)
(*                                                                         *)
(* Scheduler operations hold the per-session operation lock.  One that     *)
(* waits for nothing but the lock is one action; one that waits for the    *)
(* turn's task to drain is a begin action that takes the lock and an end   *)
(* action that releases it.  The tasks of the turns and the reply stage of *)
(* the outcome handler run without the lock.                               *)
(***************************************************************************)
EXTENDS Naturals, Sequences, FiniteSets

CONSTANTS
  Turn,            \* turns ever submitted to the session, by id
  NoTurn,
  AgentTurn,       \* turns of source AgentSession or ScheduledJob
  RequestTurn,     \* agent-session requests: they carry a reply route
  Priority,        \* Priority[t]: queue priority, higher is served first
  MaxQueueDepth,   \* DEFAULT_MAX_DIALOG_QUEUE_DEPTH
  MaxResumes,      \* bound: recoveries of one turn
  StartMayFail,    \* the coordinator may refuse to start a turn
  PersistMayFail,  \* writing a terminal turn state may fail
  RecoveryMayFail, \* recovery may be refused after its admission
  DrainMayTimeOut, \* a task may outlive the bounded wait for it
  TaskMayPanic     \* a turn's task may unwind without reporting

ASSUME SchedulerConstants ==
  /\ NoTurn \notin Turn
  /\ AgentTurn \subseteq Turn
  /\ RequestTurn \subseteq AgentTurn
  /\ Priority \in [Turn -> Nat]
  /\ MaxQueueDepth \in Nat \ {0}
  /\ MaxResumes \in Nat
  /\ {StartMayFail, PersistMayFail, RecoveryMayFail, DrainMayTimeOut,
      TaskMayPanic} \subseteq BOOLEAN

VARIABLES
  lock,       \* [op, turn]: holder of the session's operation lock
  state,      \* SessionState without its payload
  current,    \* current_turn_id of SessionState::Processing, else NoTurn
  queue,      \* the session's DialogTurnQueue
  active,     \* the session's entry of active_turns, or NoTurn
  admission,  \* turn of a RecoveryActiveTurnAdmission about to be dropped
  phase,      \* phase[t]: life of a turn and of the task that executes it
  report,     \* report[t]: outcome its task is about to send
  token,      \* turns whose cancellation token is signalled
  intent,     \* intent[t]: interrupted_turn_intents entry
  durable,    \* durable[t]: persisted status of the turn
  latest,     \* last element of the session's dialog_turn_ids
  resumes,    \* resumes[t]: how often t was recovered
  outcomes,   \* the outcome channel, for this session
  handler,    \* the outcome being handled after the lock was released
  buffered,   \* turns with an ExactTurn injection in the round buffer
  suppressed, \* suppressed_cancelled_replies
  retired,    \* retired_maintenance_outcomes
  reply       \* history: reply[t]: what became of t's agent-session reply

session == <<state, current, latest>>
tasks == <<phase, report, token, intent, durable, resumes>>
marks == <<buffered, suppressed, retired, reply>>
vars == <<lock, session, queue, active, admission, tasks, outcomes, handler,
          marks>>

Executing == {"running", "persisted", "settled", "tail"}
Phase == {"new", "waiting", "dropped", "rejected", "done"} \cup Executing
Status == {"Completed", "Cancelled", "Interrupted", "Failed"}
LockOps == {"free", "cancel", "cancelSession", "maintenance", "permit",
            "interrupt", "recover"}
NoHandler == [stage |-> "idle", turn |-> NoTurn, status |-> "none",
              matched |-> FALSE]
Free == [op |-> "free", turn |-> NoTurn]

(* Type of the state. *)
TypeOK ==
  /\ lock \in [op : LockOps, turn : Turn \cup {NoTurn}]
  /\ state \in {"Idle", "Processing", "Error"}
  /\ current \in Turn \cup {NoTurn}
  /\ queue \in Seq(Turn)
  /\ active \in Turn \cup {NoTurn}
  /\ admission \in Turn \cup {NoTurn}
  /\ phase \in [Turn -> Phase]
  /\ report \in [Turn -> Status \cup {"none", "Interrupting"}]
  /\ token \subseteq Turn
  /\ intent \in [Turn -> {"none", "pending", "committed", "revoked"}]
  /\ durable \in [Turn -> Status \cup {"none", "InProgress"}]
  /\ latest \in Turn \cup {NoTurn}
  /\ resumes \in [Turn -> Nat]
  /\ outcomes \in Seq([turn : Turn, status : Status])
  /\ handler \in [stage : {"idle", "reply", "dispatch"},
                  turn : Turn \cup {NoTurn}, status : Status \cup {"none"},
                  matched : BOOLEAN]
  /\ buffered \subseteq Turn
  /\ suppressed \subseteq Turn
  /\ retired \subseteq Turn
  /\ reply \in [Turn -> {"none", "forwarded", "skipped", "retired"}]

(* A session that has just been created or restored, with no turn yet.      *)
Init ==
  /\ lock = Free
  /\ state = "Idle" /\ current = NoTurn /\ latest = NoTurn
  /\ queue = <<>> /\ active = NoTurn /\ admission = NoTurn
  /\ phase = [t \in Turn |-> "new"]
  /\ report = [t \in Turn |-> "none"]
  /\ token = {}
  /\ intent = [t \in Turn |-> "none"]
  /\ durable = [t \in Turn |-> "none"]
  /\ resumes = [t \in Turn |-> 0]
  /\ outcomes = <<>> /\ handler = NoHandler
  /\ buffered = {} /\ suppressed = {} /\ retired = {}
  /\ reply = [t \in Turn |-> "none"]

-----------------------------------------------------------------------------
(* State predicates the code computes *)

(* latest_dialog_turn_holds_dispatch, for the persisted statuses d.         *)
Holds(d) == latest # NoTurn /\ d[latest] = "Interrupted"

(* The active_turns_per_session counter is zero.                            *)
Drained == \A t \in Turn : phase[t] \notin Executing

(* Turns in the queue. *)
InQueue == {queue[i] : i \in 1..Len(queue)}

InPhase(p) == {t \in Turn : phase[t] = p}

(* SessionState::Processing of turn t. *)
IsProcessing(t) == state = "Processing" /\ current = t

-----------------------------------------------------------------------------
(* The queue *)

(* Mutant: priorities are ignored. *)
EnqueueLast(q, t) == Append(q, t)

(* DialogTurnQueue::enqueue: before the first entry of lower priority.      *)
Enqueue(q, t) ==
  LET lower == {i \in 1..Len(q) : Priority[q[i]] < Priority[t]}
      at == IF lower = {} THEN Len(q) + 1
            ELSE CHOOSE i \in lower : \A j \in lower : i <= j
  IN SubSeq(q, 1, at - 1) \o <<t>> \o SubSeq(q, at, Len(q))

(* remove_first_matching on the turn id, for a turn that is in the queue.   *)
Remove(q, t) ==
  LET at == CHOOSE i \in 1..Len(q) : q[i] = t
  IN SubSeq(q, 1, at - 1) \o SubSeq(q, at + 1, Len(q))

(* Mutant: the queue is cleared without an event for its turns. *)
DroppingSilently(ph, s) == ph

(* clear_queue and finish_removed_queued_turn: each turn of s leaves the    *)
(* queue with a DialogTurnCancelled event.                                  *)
Dropping(ph, s) == [t \in Turn |-> IF t \in s THEN "dropped" ELSE ph[t]]

-----------------------------------------------------------------------------
(* Parts of actions *)

(* start_turn: the coordinator opens turn t, the session processes it, a    *)
(* task is spawned and active_turns gets its entry, whatever was there.     *)
Start(t, ph, d) ==
  /\ state' = "Processing" /\ current' = t /\ latest' = t
  /\ active' = t
  /\ phase' = [ph EXCEPT ![t] = "running"]
  /\ durable' = [d EXCEPT ![t] = "InProgress"]

NoStart(ph, d) ==
  /\ UNCHANGED <<session, active>>
  /\ phase' = ph
  /\ durable' = d

(* Mutant: dispatch does not look at the hold. *)
TryStartNextUnheld(q, ph, d) ==
  IF state = "Processing" \/ q = <<>>
  THEN queue' = q /\ NoStart(ph, d)
  ELSE queue' = Tail(q) /\ Start(Head(q), ph, d)

(* try_start_next_queued_locked on the queue q: nothing while the session   *)
(* is processing or its latest turn holds dispatch.  A turn that fails to   *)
(* start goes back to the front, where it came from.                        *)
TryStartNext(q, ph, d) ==
  IF state = "Processing" \/ Holds(d) \/ q = <<>>
  THEN queue' = q /\ NoStart(ph, d)
  ELSE \/ queue' = Tail(q) /\ Start(Head(q), ph, d)
       \/ StartMayFail /\ queue' = q /\ NoStart(ph, d)

(* abandon_interrupted_dialog_turn for turn t: its recovery fact becomes a  *)
(* plain cancellation.                                                      *)
Abandon(d, t) ==
  [u \in Turn |-> IF u = t /\ d[u] = "Interrupted" THEN "Cancelled" ELSE d[u]]

(* Mutant: injections stay. *)
DrainNothing(s) == UNCHANGED buffered

(* The injections of the turns in s leave the buffer unread.                *)
DrainInjections(s) == buffered' = buffered \ s

(* Turn t is accepted into the queue.                                       *)
Accepted(ph, t) == [ph EXCEPT ![t] = "waiting"]

-----------------------------------------------------------------------------
(* submit_queued_turn_locked *)

(* A user's prompt submitted to an idle session releases the hold.          *)
ReleasesHold(t) == state = "Idle" /\ Holds(durable) /\ t \notin AgentTurn

(* The session-state fact the submit decision is made on.                   *)
StateFact(t) ==
  IF active # NoTurn \/ (state = "Idle" /\ Holds(durable) /\ ~ReleasesHold(t))
  THEN "Processing" ELSE state

(* abandon_superseded_interrupted_turn, when t releases the hold.           *)
Superseded(t) == IF ReleasesHold(t) THEN {latest} ELSE {}

(* StartImmediately and ClearQueueAndStartImmediately.  The recovery fact   *)
(* of a superseded turn is retired after the start; its failure is only     *)
(* logged.                                                                  *)
SubmitStart(t) ==
  /\ StateFact(t) = "Error" \/ (StateFact(t) = "Idle" /\ queue = <<>>)
  /\ queue' = <<>>
  /\ LET ph == Dropping(phase, InQueue) IN
     \/ \E abandoned \in IF PersistMayFail THEN {{}, Superseded(t)}
                                           ELSE {Superseded(t)} :
          /\ Start(t, ph, IF abandoned = {} THEN durable
                          ELSE Abandon(durable, latest))
          /\ DrainInjections(abandoned)
     \/ /\ StartMayFail
        /\ NoStart([ph EXCEPT ![t] = "rejected"], durable)
        /\ UNCHANGED buffered

(* EnqueueThenStartNext. *)
SubmitThenStartNext(t) ==
  /\ StateFact(t) = "Idle" /\ queue # <<>>
  /\ Len(queue) < MaxQueueDepth
  /\ DrainInjections(Superseded(t))
  /\ TryStartNext(Enqueue(queue, t), Accepted(phase, t),
                  IF ReleasesHold(t) THEN Abandon(durable, latest)
                                     ELSE durable)

(* EnqueueForActiveTurn. *)
SubmitQueued(t) ==
  /\ StateFact(t) = "Processing"
  /\ Len(queue) < MaxQueueDepth
  /\ DrainInjections(Superseded(t))
  /\ queue' = Enqueue(queue, t)
  /\ NoStart(Accepted(phase, t),
             IF ReleasesHold(t) THEN Abandon(durable, latest) ELSE durable)

(* The queue is full, or the superseded turn could not be abandoned and the *)
(* turn is taken out of the queue again.                                    *)
SubmitRejected(t) ==
  /\ StateFact(t) = "Processing" \/ (StateFact(t) = "Idle" /\ queue # <<>>)
  /\ Len(queue) >= MaxQueueDepth \/ (PersistMayFail /\ ReleasesHold(t))
  /\ NoStart([phase EXCEPT ![t] = "rejected"], durable)
  /\ UNCHANGED <<queue, buffered>>

Submit(t) ==
  /\ lock = Free /\ phase[t] = "new"
  /\ \/ SubmitStart(t) \/ SubmitThenStartNext(t) \/ SubmitQueued(t)
     \/ SubmitRejected(t)
  /\ UNCHANGED <<lock, admission, report, token, intent, resumes, outcomes,
                 handler, suppressed, retired, reply>>

-----------------------------------------------------------------------------
(* The task of a turn *)

(* A round boundary: the injections of the turn join its history.           *)
RoundBoundary(t) ==
  /\ phase[t] = "running" /\ t \in buffered
  /\ buffered' = buffered \ {t}
  /\ UNCHANGED <<lock, session, queue, active, admission, tasks, outcomes,
                 handler, suppressed, retired, reply>>

(* What the terminal writes of a task may leave: the persisted status and   *)
(* the outcome to report, with the fallbacks for a failed write.            *)
IfPersistFails(results) == IF PersistMayFail THEN results ELSE {}

PlainCancellation(t) ==
  {<<"Cancelled", "Cancelled">>} \cup IfPersistFails({<<durable[t], "Failed">>})

Interruption(t, outcome) ==
  {<<"Interrupted", outcome>>} \cup IfPersistFails(PlainCancellation(t))

(* A recovered turn keeps its recovery fact when its write fails.           *)
Fallback(t, outcome) ==
  IfPersistFails(IF resumes[t] > 0 THEN Interruption(t, "Interrupted")
                                   ELSE {<<durable[t], outcome>>})

Completion(t) == {<<"Completed", "Completed">>} \cup Fallback(t, "Completed")
Cancellation(t) == {<<"Cancelled", "Cancelled">>} \cup Fallback(t, "Failed")
Failure(t) == {<<"Failed", "Failed">>} \cup Fallback(t, "Failed")

(* A recovered turn whose model contract changed, or whose recovery event   *)
(* was not delivered, is interrupted again.                                 *)
ContractChange(t) ==
  IF resumes[t] > 0 THEN Interruption(t, "Interrupted") ELSE {}

StopResult(t) ==
  IF t \notin token THEN {}
  ELSE IF intent[t] = "pending" THEN Interruption(t, "Interrupting")
                                ELSE Cancellation(t)

(* The execution ends and the terminal write is made.  A turn ends normally *)
(* only at a boundary with no pending injection.                            *)
EndExecution(t) ==
  /\ phase[t] = "running"
  /\ \E result \in (IF t \in buffered THEN {} ELSE Completion(t))
                   \cup Failure(t) \cup ContractChange(t) \cup StopResult(t) :
       /\ durable' = [durable EXCEPT ![t] = result[1]]
       /\ report' = [report EXCEPT ![t] = result[2]]
  /\ phase' = [phase EXCEPT ![t] = "persisted"]
  /\ token' = token \ {t}
  /\ UNCHANGED <<lock, session, queue, active, admission, intent, resumes,
                 outcomes, handler, marks>>

(* update_session_state_for_turn_if_processing. *)
SettleState(t) ==
  /\ phase[t] = "persisted"
  /\ IF IsProcessing(t)
     THEN /\ state' = IF report[t] = "Failed" THEN "Error" ELSE "Idle"
          /\ current' = NoTurn
     ELSE UNCHANGED <<state, current>>
  /\ phase' = [phase EXCEPT ![t] = "settled"]
  /\ UNCHANGED <<lock, latest, queue, active, admission, report, token,
                 intent, durable, resumes, outcomes, handler, marks>>

(* The outcome is sent to the scheduler. *)
SendOutcome(t, status) ==
  /\ outcomes' = Append(outcomes, [turn |-> t, status |-> status])
  /\ report' = [report EXCEPT ![t] = "none"]
  /\ phase' = [phase EXCEPT ![t] = "tail"]

Report(t) ==
  /\ phase[t] = "settled" /\ report[t] # "Interrupting"
  /\ SendOutcome(t, report[t])
  /\ UNCHANGED <<lock, session, queue, active, admission, token, intent,
                 durable, resumes, handler, marks>>

(* commit_interrupted_turn_intent succeeds. *)
CommitInterruption(t) ==
  /\ phase[t] = "settled" /\ report[t] = "Interrupting"
  /\ intent[t] \in {"pending", "committed"}
  /\ intent' = [intent EXCEPT ![t] = "committed"]
  /\ SendOutcome(t, "Interrupted")
  /\ UNCHANGED <<lock, session, queue, active, admission, token, durable,
                 resumes, handler, marks>>

(* A hard cancellation or a timeout took the intent back: the turn is       *)
(* persisted again, as cancelled.                                           *)
LoseInterruption(t) ==
  /\ phase[t] = "settled" /\ report[t] = "Interrupting"
  /\ intent[t] \in {"none", "revoked"}
  /\ intent' = [intent EXCEPT ![t] = "none"]
  /\ \E result \in {<<"Cancelled", "Cancelled">>}
                   \cup IfPersistFails(Interruption(t, "Interrupted")) :
       /\ durable' = [durable EXCEPT ![t] = result[1]]
       /\ report' = [report EXCEPT ![t] = result[2]]
  /\ phase' = [phase EXCEPT ![t] = "persisted"]
  /\ UNCHANGED <<lock, session, queue, active, admission, token, resumes,
                 outcomes, handler, marks>>

(* Mutant: the drop only counts. *)
DropGuardCounts(t) ==
  /\ phase' = [phase EXCEPT ![t] = "done"]
  /\ UNCHANGED <<lock, session, queue, active, admission, report, token,
                 intent, durable, resumes, outcomes, handler, marks>>

(* The drop of SessionExecutionGuard: the counter, and a session still      *)
(* processing t is reset.                                                   *)
DropGuard(t) ==
  /\ IF IsProcessing(t) THEN state' = "Idle" /\ current' = NoTurn
                        ELSE UNCHANGED <<state, current>>
  /\ phase' = [phase EXCEPT ![t] = "done"]
  /\ UNCHANGED <<lock, latest, queue, active, admission, report, token,
                 intent, durable, resumes, outcomes, handler, marks>>

Exit(t) == phase[t] = "tail" /\ DropGuard(t)

Panic(t) == TaskMayPanic /\ phase[t] = "running" /\ DropGuard(t)

-----------------------------------------------------------------------------
(* The outcome handler *)

(* Mutant: the tombstone is looked at but not taken. *)
PeekTombstone(t) == retired

(* DialogReplySuppressionSet::take on retired_maintenance_outcomes.         *)
TakeTombstone(t) == retired \ {t}

(* Under the lock: the outcome retires the active entry of its turn.        *)
TakeOutcome ==
  /\ lock = Free /\ handler = NoHandler /\ outcomes # <<>>
  /\ outcomes' = Tail(outcomes)
  /\ LET t == Head(outcomes).turn
         status == Head(outcomes).status
         ignored == t \in retired \/ active \notin {NoTurn, t}
         clears == ~ignored /\ status = "Failed"
     IN
     /\ retired' = TakeTombstone(t)
     /\ reply' = IF t \in retired THEN [reply EXCEPT ![t] = "retired"]
                                  ELSE reply
     /\ IF ignored
        THEN /\ DrainInjections({t})
             /\ suppressed' = suppressed \ {t}
             /\ UNCHANGED <<active, handler>>
        ELSE /\ active' = NoTurn
             /\ handler' = [stage |-> "reply", turn |-> t, status |-> status,
                            matched |-> active = t]
             /\ UNCHANGED <<buffered, suppressed>>
     /\ IF clears
        THEN queue' = <<>> /\ phase' = Dropping(phase, InQueue)
        ELSE UNCHANGED <<queue, phase>>
  /\ UNCHANGED <<lock, session, admission, report, token, intent, durable,
                 resumes>>

(* Mutant: an interruption never dispatches. *)
DispatchesUnlessHeld(status) == status \notin {"Failed", "Interrupted"}

(* TurnOutcomeQueueAction: a failure has cleared the queue; an interruption *)
(* holds it, unless the hold was released meanwhile (DispatchNext looks).   *)
Dispatches(status) == status # "Failed"

(* Without the lock: injections, suppression, the reply to the requester.   *)
(* The goal verification that may follow submits like any other source.     *)
ForwardReply ==
  /\ handler.stage = "reply"
  /\ LET t == handler.turn
         skip == \/ handler.status = "Interrupted"
                 \/ handler.status = "Cancelled" /\ t \in suppressed
     IN
     /\ DrainInjections(IF handler.status = "Interrupted" THEN {} ELSE {t})
     /\ suppressed' = suppressed \ {t}
     /\ reply' = IF handler.matched /\ t \in RequestTurn
                 THEN [reply EXCEPT ![t] = IF skip THEN "skipped"
                                                   ELSE "forwarded"]
                 ELSE reply
     /\ handler' = IF Dispatches(handler.status)
                   THEN [handler EXCEPT !.stage = "dispatch"] ELSE NoHandler
  /\ UNCHANGED <<lock, session, queue, active, admission, tasks, outcomes,
                 retired>>

(* dispatch_next_if_idle: the lock is taken again.                          *)
DispatchNext ==
  /\ lock = Free /\ handler.stage = "dispatch"
  /\ TryStartNext(queue, phase, durable)
  /\ handler' = NoHandler
  /\ UNCHANGED <<lock, admission, report, token, intent, resumes, outcomes,
                 marks>>

-----------------------------------------------------------------------------
(* Cancellation *)

(* A queued turn is removed. *)
CancelQueued(t) ==
  /\ lock = Free /\ t \in InQueue
  /\ queue' = Remove(queue, t)
  /\ phase' = [phase EXCEPT ![t] = "dropped"]
  /\ UNCHANGED <<lock, session, active, admission, report, token, intent,
                 durable, resumes, outcomes, handler, marks>>

(* Mutant: the queue that was held is not dispatched. *)
AbandonOnly(t) ==
  /\ DrainInjections({t})
  /\ queue' = queue /\ NoStart(phase, Abandon(durable, t))

(* A turn that waits for recovery is abandoned, and the hold with it.       *)
AbandonAndDispatch(t) ==
  /\ DrainInjections({t})
  /\ TryStartNext(queue, phase, Abandon(durable, t))

CancelInterrupted(t) ==
  /\ lock = Free /\ t \notin InQueue /\ active # t
  /\ durable[t] = "Interrupted"
  /\ AbandonAndDispatch(t)
  /\ UNCHANGED <<lock, admission, report, token, intent, resumes, outcomes,
                 handler, suppressed, retired, reply>>

(* Mutant: an error on the way returns before the token is signalled. *)
StopTurnUnsignalled(t) ==
  /\ intent' = [intent EXCEPT ![t] = "none"]
  /\ IF IsProcessing(t) THEN state' = "Idle" /\ current' = NoTurn
                        ELSE UNCHANGED <<state, current>>
  /\ UNCHANGED <<latest, active, admission, report, token, durable, resumes,
                 outcomes, handler, buffered, retired, reply>>

(* The coordinator's hard cancellation of t: the interrupt intent goes, the *)
(* session leaves Processing at once, the token is signalled.               *)
StopTurn(t) ==
  /\ intent' = [intent EXCEPT ![t] = "none"]
  /\ IF IsProcessing(t) THEN state' = "Idle" /\ current' = NoTurn
                        ELSE UNCHANGED <<state, current>>
  /\ token' = token \cup ({t} \cap InPhase("running"))
  /\ UNCHANGED <<latest, active, admission, report, durable, resumes,
                 outcomes, handler, buffered, retired, reply>>

CancelActive(t) ==
  /\ lock = Free /\ t \notin InQueue /\ active = t
  /\ StopTurn(t)
  /\ lock' = [op |-> "cancel", turn |-> t]
  /\ UNCHANGED <<queue, phase, suppressed>>

(* The bounded wait for the task is over; a recovery fact it committed in   *)
(* the meantime is abandoned.                                               *)
WaitOver == Drained \/ DrainMayTimeOut

CancelEnd ==
  /\ lock.op = "cancel" /\ WaitOver
  /\ lock' = Free
  /\ IF durable[lock.turn] = "Interrupted"
     THEN AbandonAndDispatch(lock.turn)
     ELSE UNCHANGED <<queue, session, active, phase, durable, buffered>>
  /\ UNCHANGED <<admission, report, token, intent, resumes, outcomes, handler,
                 suppressed, retired, reply>>

(* cancel_active_turn_for_session: whatever is processing.  The requester   *)
(* of the turn itself does not want its cancelled reply.                    *)
CancelSession(byRequester) ==
  /\ lock = Free /\ state = "Processing"
  /\ StopTurn(current)
  /\ suppressed' = IF byRequester /\ active \in RequestTurn
                   THEN suppressed \cup {active} ELSE suppressed
  /\ lock' = [op |-> "cancelSession", turn |-> current]
  /\ UNCHANGED <<queue, phase>>

(* The tail is waited for briefly, the execution until the deadline: a turn *)
(* that still executes then is an error, and the suppression is taken back. *)
CancelSessionEnd ==
  /\ lock.op = "cancelSession" /\ WaitOver
  /\ lock' = Free
  /\ suppressed' = IF phase[lock.turn] = "running"
                   THEN suppressed \ {lock.turn} ELSE suppressed
  /\ UNCHANGED <<session, queue, active, admission, tasks, outcomes, handler,
                 buffered, retired, reply>>

-----------------------------------------------------------------------------
(* begin_session_maintenance *)

(* The queue is cleared and the processing turn is cancelled.               *)
MaintenanceBegin ==
  /\ lock = Free
  /\ queue' = <<>> /\ phase' = Dropping(phase, InQueue)
  /\ lock' = [op |-> "maintenance", turn |-> current]
  /\ UNCHANGED suppressed
  /\ IF state = "Processing" THEN StopTurn(current)
     ELSE UNCHANGED <<session, active, admission, report, token, intent,
                      durable, resumes, outcomes, handler, buffered, retired,
                      reply>>

(* Mutant: something is marked even if nothing was active. *)
RetireAlways ==
  /\ active' = NoTurn
  /\ retired' = retired \cup {active}
  /\ suppressed' = suppressed \ {active}
  /\ DrainInjections({active})

(* Mutant: the active entry is read but not removed. *)
RetireKeeping ==
  LET gone == {active} \ {NoTurn} IN
  /\ UNCHANGED active
  /\ retired' = retired \cup gone
  /\ suppressed' = suppressed \ gone
  /\ DrainInjections(gone)

(* retire_active_turn_for_maintenance: the entry of active_turns goes, and  *)
(* a tombstone is left for the outcome that is still on its way.            *)
RetireActive ==
  LET gone == {active} \ {NoTurn} IN
  /\ active' = NoTurn
  /\ retired' = retired \cup gone
  /\ suppressed' = suppressed \ gone
  /\ DrainInjections(gone)

(* Mutant: the result of the wait is not looked at. *)
MaintenanceReadyUndrained ==
  /\ lock.op = "maintenance"
  /\ lock' = [op |-> "permit", turn |-> NoTurn]
  /\ RetireActive
  /\ UNCHANGED <<session, queue, admission, tasks, outcomes, handler, reply>>

(* Everything drained: the active entry is retired, the permit keeps the    *)
(* lock.                                                                    *)
MaintenanceReady ==
  /\ lock.op = "maintenance" /\ Drained
  /\ lock' = [op |-> "permit", turn |-> NoTurn]
  /\ RetireActive
  /\ UNCHANGED <<session, queue, admission, tasks, outcomes, handler, reply>>

(* The wait timed out: maintenance is refused, the cancellations stay.      *)
MaintenanceTimeout ==
  /\ lock.op = "maintenance" /\ ~Drained /\ DrainMayTimeOut
  /\ lock' = Free
  /\ UNCHANGED <<session, queue, active, admission, tasks, outcomes, handler,
                 marks>>

PermitRelease ==
  /\ lock.op = "permit"
  /\ lock' = Free
  /\ UNCHANGED <<session, queue, active, admission, tasks, outcomes, handler,
                 marks>>

-----------------------------------------------------------------------------
(* Interruption and recovery *)

(* Mutant: the reply route is not looked at. *)
InterruptAny(t) ==
  /\ lock = Free /\ IsProcessing(t)
  /\ intent' = [intent EXCEPT ![t] = "pending"]
  /\ token' = token \cup ({t} \cap InPhase("running"))
  /\ lock' = [op |-> "interrupt", turn |-> t]
  /\ UNCHANGED <<session, queue, active, admission, phase, report, durable,
                 resumes, outcomes, handler, marks>>

(* interrupt_turn: refused for agent-session requests, and unless the turn  *)
(* is being processed.                                                      *)
Interrupt(t) ==
  /\ lock = Free /\ IsProcessing(t)
  /\ ~(active = t /\ t \in RequestTurn)
  /\ intent' = [intent EXCEPT ![t] = "pending"]
  /\ token' = token \cup ({t} \cap InPhase("running"))
  /\ lock' = [op |-> "interrupt", turn |-> t]
  /\ UNCHANGED <<session, queue, active, admission, phase, report, durable,
                 resumes, outcomes, handler, marks>>

(* Drained, or committed before the deadline: the intent entry goes.        *)
(* Otherwise it is revoked, unless its entry is gone already.               *)
InterruptEnd ==
  /\ lock.op = "interrupt" /\ WaitOver
  /\ lock' = Free
  /\ LET t == lock.turn IN
     intent' = [intent EXCEPT ![t] =
                  IF ~Drained /\ @ \in {"pending", "revoked"} THEN "revoked"
                                                              ELSE "none"]
  /\ UNCHANGED <<session, queue, active, admission, phase, report, token,
                 durable, resumes, outcomes, handler, marks>>

(* What the coordinator and reopen_interrupted_dialog_turn ask of a turn.   *)
Recoverable(t) ==
  state = "Idle" /\ Drained /\ latest = t /\ durable[t] = "Interrupted"

(* recover_interrupted_turn: admission inserts the active entry first.      *)
RecoverBegin(t) ==
  /\ lock = Free /\ active = NoTurn /\ admission = NoTurn
  /\ durable[t] # "none" /\ resumes[t] < MaxResumes
  /\ RecoveryMayFail \/ Recoverable(t)
  /\ active' = t
  /\ lock' = [op |-> "recover", turn |-> t]
  /\ UNCHANGED <<session, queue, admission, tasks, outcomes, handler, marks>>

(* The turn is reopened with a new generation and a new task.               *)
RecoverRun ==
  LET t == lock.turn IN
  /\ lock.op = "recover" /\ Recoverable(t)
  /\ lock' = Free
  /\ state' = "Processing" /\ current' = t
  /\ phase' = [phase EXCEPT ![t] = "running"]
  /\ durable' = [durable EXCEPT ![t] = "InProgress"]
  /\ token' = token \ {t}
  /\ resumes' = [resumes EXCEPT ![t] = @ + 1]
  /\ UNCHANGED <<latest, queue, active, admission, report, intent, outcomes,
                 handler, marks>>

(* Recovery is refused.  The operation guard is dropped by hand, before the *)
(* admission goes out of scope.                                             *)
RecoverRefused ==
  /\ lock.op = "recover"
  /\ RecoveryMayFail \/ ~Recoverable(lock.turn)
  /\ lock' = Free
  /\ admission' = lock.turn
  /\ UNCHANGED <<session, queue, active, tasks, outcomes, handler, marks>>

(* Mutant: the drop removes whatever is active. *)
RecoverUndoAny ==
  /\ admission # NoTurn
  /\ active' = NoTurn
  /\ admission' = NoTurn
  /\ UNCHANGED <<lock, session, queue, tasks, outcomes, handler, marks>>

(* RecoveryActiveTurnAdmission::drop, without the lock.                     *)
RecoverUndo ==
  /\ admission # NoTurn
  /\ active' = IF active = admission THEN NoTurn ELSE active
  /\ admission' = NoTurn
  /\ UNCHANGED <<lock, session, queue, tasks, outcomes, handler, marks>>

-----------------------------------------------------------------------------
(* buffer_steering: for the processing turn, which must be the active one.  *)
Steer(t) ==
  /\ lock = Free /\ IsProcessing(t) /\ active = t
  /\ buffered' = buffered \cup {t}
  /\ UNCHANGED <<lock, session, queue, active, admission, tasks, outcomes,
                 handler, suppressed, retired, reply>>

-----------------------------------------------------------------------------
Winding(t) ==
  \/ EndExecution(t) \/ SettleState(t) \/ Report(t)
  \/ CommitInterruption(t) \/ LoseInterruption(t) \/ Exit(t)

Task(t) == RoundBoundary(t) \/ Winding(t)

LockedEnd ==
  \/ CancelEnd \/ CancelSessionEnd \/ MaintenanceReady \/ MaintenanceTimeout
  \/ PermitRelease \/ InterruptEnd \/ RecoverRun \/ RecoverRefused

Next ==
  \/ \E t \in Turn : Submit(t)
  \/ \E t \in Turn : Task(t)
  \/ \E t \in Turn : Panic(t)
  \/ TakeOutcome \/ ForwardReply \/ DispatchNext
  \/ \E t \in Turn : CancelQueued(t)
  \/ \E t \in Turn : CancelInterrupted(t)
  \/ \E t \in Turn : CancelActive(t)
  \/ \E byRequester \in BOOLEAN : CancelSession(byRequester)
  \/ MaintenanceBegin
  \/ \E t \in Turn : Interrupt(t)
  \/ \E t \in Turn : RecoverBegin(t)
  \/ LockedEnd
  \/ RecoverUndo
  \/ \E t \in Turn : Steer(t)

Spec == Init /\ [][Next]_vars

(* A turn's execution ends and its tail runs; an operation that holds the   *)
(* lock ends (its waits are bounded); the admission is dropped; the handler *)
(* takes the lock when it is its turn: tokio's mutex is a fair queue, hence *)
(* strong fairness where others may take the lock in between.               *)
Fairness ==
  /\ \A t \in Turn : WF_vars(Winding(t))
  /\ WF_vars(LockedEnd)
  /\ WF_vars(RecoverUndo)
  /\ WF_vars(ForwardReply)
  /\ SF_vars(TakeOutcome)
  /\ SF_vars(DispatchNext)

FairSpec == Spec /\ Fairness

-----------------------------------------------------------------------------
(* Properties *)

(* The outcome of t is in the channel. *)
Reported(t) == \E i \in 1..Len(outcomes) : outcomes[i].turn = t

(* A turn that executes and was not told to stop is the one the session     *)
(* processes: at most one such turn executes at a time, and no operation    *)
(* takes the session from under it.                                         *)
ExclusiveExecution ==
  \A t \in Turn : phase[t] = "running" /\ t \notin token => IsProcessing(t)

(* The session is never left processing a turn whose task is past its       *)
(* terminal write, or gone: it cannot be stuck in Processing.               *)
ProcessingIsExecuted ==
  state = "Processing" => phase[current] \in {"running", "persisted"}

(* The turn the session processes is the one active_turns knows: routing,   *)
(* suppression and steering decide on the same turn as cancellation.  Not   *)
(* of a turn recovered twice: retired_maintenance_outcomes is a set, so two *)
(* generations that maintenance retired before the first of their outcomes  *)
(* was handled share one tombstone, and the second outcome takes the entry. *)
ProcessingIsActive ==
  state = "Processing" /\ resumes[current] < 2 => active = current

(* "no accepted turn disappears silently" (scheduler.rs:1643): an accepted  *)
(* turn that did not start and was not reported cancelled is in the queue,  *)
(* once, and the queue holds nothing else.                                  *)
NoAcceptedTurnDisappears ==
  /\ \A t \in Turn : phase[t] = "waiting" <=> t \in InQueue
  /\ \A i, j \in 1..Len(queue) : queue[i] = queue[j] => i = j

(* The queue stays sorted by priority across insertions, removals, and the  *)
(* requeueing of a turn that failed to start, and within its limit.         *)
QueueIsOrdered ==
  /\ Len(queue) <= MaxQueueDepth
  /\ \A i, j \in 1..Len(queue) :
       i < j => Priority[queue[i]] >= Priority[queue[j]]

(* The entry of active_turns is always going to be retired: its turn        *)
(* executes, or its outcome is on the way, or its admission is being undone *)
(* or decided.  (It is what keeps submissions queued.)                      *)
ActiveWillRetire ==
  active # NoTurn =>
    \/ phase[active] \in Executing \ {"tail"}
    \/ Reported(active)
    \/ admission = active
    \/ lock = [op |-> "recover", turn |-> active]

(* An idle session with queued turns, nothing active and no hold is being   *)
(* dispatched: an outcome or the dispatch of one is under way, or the       *)
(* latest turn has its outcome still to send.                               *)
NoStrandedQueue ==
  queue # <<>> /\ state = "Idle" /\ active = NoTurn /\ ~Holds(durable)
    => \/ outcomes # <<>>
       \/ handler.stage # "idle" /\ Dispatches(handler.status)
       \/ latest # NoTurn /\ phase[latest] \in Executing \ {"tail"}

(* Destructive maintenance is exclusive: while its permit is held nothing   *)
(* executes, is queued, or is active, and the session is not processing.    *)
MaintenanceIsQuiescent ==
  lock.op = "permit" =>
    Drained /\ queue = <<>> /\ active = NoTurn /\ state # "Processing"

(* A tombstone left by maintenance is for an outcome that is on the way, so *)
(* it is consumed and cannot hit a later generation of the turn.            *)
TombstonesAreConsumed == \A t \in retired : Reported(t)

(* No steering or background injection outlives its turn: it waits for a    *)
(* turn that executes, is being retired, or may be recovered.               *)
NoOrphanInjection ==
  \A t \in buffered :
    \/ phase[t] \in Executing
    \/ Reported(t)
    \/ handler.stage = "reply" /\ handler.turn = t
    \/ durable[t] = "Interrupted"

(* A turn that must answer a requester never waits for recovery ("recovered *)
(* without the route required to settle its requester", scheduler.rs:3050). *)
RequestsAreNotRecoverable ==
  \A t \in RequestTurn : durable[t] # "Interrupted"

(* While the latest turn waits for recovery, no other turn starts unless    *)
(* the recovery fact is given up: "holding queued messages until recovery   *)
(* or a new user turn" (scheduler.rs:2481).                                 *)
InterruptedWorkIsHeld ==
  [][Holds(durable) /\ latest' # latest => durable'[latest] = "Cancelled"]_vars

(* A turn whose reply the requester waits for and that completed or failed  *)
(* is answered: "When the target session finishes, its result is            *)
(* automatically sent back to you" (session_message_tool.rs:313).           *)
RequestsAreAnswered ==
  \A t \in RequestTurn :
    /\ phase[t] = "done" /\ durable[t] \in {"Completed", "Failed"}
    /\ ~Reported(t) /\ handler.turn # t
    => reply[t] # "none"

(* Buffered steering of a turn that completes is consumed: it "will be      *)
(* consumed at the next model-round boundary" (agent_api.rs:853).           *)
SteeringIsConsumed ==
  [][\A t \in buffered \ buffered' :
       phase[t] = "running" \/ durable[t] # "Completed"]_vars

(* A queued turn leaves the queue in the end, or waits behind a turn that   *)
(* may be recovered: "queued ... and dispatched after the current turn      *)
(* completes" (scheduler.rs:883).                                           *)
QueuedTurnsMove ==
  \A t \in Turn : phase[t] = "waiting" ~> phase[t] # "waiting" \/ Holds(durable)

(* A turn that was started ends, and the session gets rid of it.            *)
ActiveTurnsRetire == \A t \in Turn : active = t ~> active # t
=============================================================================
