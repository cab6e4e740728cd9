------------------------- MODULE BackgroundOutcomes -------------------------
(***************************************************************************)
(* Background subagent tasks of one parent session, from the start of a    *)
(* task to the turn that is told its outcome (coordination's               *)
(* background_outcomes.rs, with the rows of coordination_store.rs and the  *)
(* task controls of coordinator.rs).                                       *)
(*                                                                         *)
(* Rows are on disk and every statement on them is atomic; outcomes with   *)
(* their text (live results), controls and waits belong to a process of    *)
(* the host, which may crash.  Turns of the parent start tasks and wait,   *)
(* one wait at a time: AgentWait does not run concurrently within a turn,  *)
(* but a turn may overlap the next one.                                    *)
(***************************************************************************)
EXTENDS Naturals, FiniteSets, Sequences

CONSTANTS
  Tasks,        \* task_pk: rows are numbered from 1 on, once and for all
  Turns,        \* turns of the parent are numbered 1..Turns
  Ends,         \* how the turn of a subagent may end
  MaxRestarts,  \* bound of the model: restarts of the host
  MaxFailures   \* bound of the model: failures to record an outcome

ASSUME BackgroundConstants ==
  /\ {Tasks, Turns, MaxRestarts, MaxFailures} \subseteq Nat
  /\ Ends \subseteq {"completed", "failed", "cancelled"}

VARIABLES
  process,     \* execution_owner_token: which process of the host this is
  row,         \* row[t]: its record in background_tasks, or NoRow
  live,        \* live_results: live[t] is a status, or "none"
  task,        \* how far the start and the watcher of t are
  result,      \* what the watcher has received
  child,       \* the persisted turn of the subagent
  control,     \* background_subagent_tasks; the flag suppress_delivery
  batch,       \* batch[t]: what the canceller has to do with t
  wait,        \* wait[p]: the wait_for of turn p
  told,        \* told[t][p]: the reports of t that turn p got, in order
  discarded,   \* turns of the parent that were rolled back
  unrecorded,  \* tasks of which a write failed (history variable)
  cut          \* claims of waits that a crash cut off (history variable)

store == <<row, live>>
watch == <<task, result, child, control, batch, unrecorded>>
history == <<told, discarded, cut>>
parent == <<wait, history>>
vars == <<process, store, watch, parent>>

Task == 1..Tasks
Turn == 1..Turns
NoTurn == 0
Process == 1..(MaxRestarts + 1)
Terminal == {"completed", "failed", "cancelled", "interrupted"}

NoRow == [status |-> "none", owner |-> 0, by |-> NoTurn,
          delivered |-> NoTurn]
Row == [status : Terminal \cup {"running"}, owner : Process, by : Turn,
        delivered : Turn \cup {NoTurn}]

(* A wait has chosen tasks, has seen some of them end and others pending,   *)
(* and its Notified may have fired.                                         *)
Idle == [pc |-> "idle", any |-> FALSE, selected |-> {}, found |-> {},
         pending |-> FALSE, heard |-> FALSE, debounce |-> FALSE,
         due |-> "no"]

(* Type of the state. *)
TypeOK ==
  /\ process \in Process
  /\ row \in [Task -> Row \cup {NoRow}]
  /\ live \in [Task -> Terminal \cup {"none"}]
  /\ task \in [Task -> {"none", "starting", "running", "completing",
                        "inserting", "done", "dead"}]
  /\ result \in [Task -> Terminal \cup {"none"}]
  /\ child \in [Task -> {"none", "inProgress", "completed", "failed",
                         "cancelled"}]
  /\ control \in [Task -> {"down", "up", "suppressed"}]
  /\ batch \in [Task -> {"no", "update", "notify"}]
  /\ wait \in [Turn ->
       [pc : {"idle", "decide", "sleep", "return"}, any : BOOLEAN,
        selected : SUBSET Task,
        found : SUBSET [task : Task, status : Terminal],
        pending : BOOLEAN, heard : BOOLEAN, debounce : BOOLEAN,
        due : {"no", "debounce", "deadline"}]]
  /\ told \in [Task -> [Turn -> Seq(Terminal)]]
  /\ discarded \subseteq Turn /\ unrecorded \subseteq Task
  /\ cut \subseteq Task \X Turn

Init ==
  /\ process = 1
  /\ row = [t \in Task |-> NoRow] /\ live = [t \in Task |-> "none"]
  /\ task = [t \in Task |-> "none"] /\ result = [t \in Task |-> "none"]
  /\ child = [t \in Task |-> "none"]
  /\ control = [t \in Task |-> "down"] /\ batch = [t \in Task |-> "no"]
  /\ wait = [p \in Turn |-> Idle]
  /\ told = [t \in Task |-> [p \in Turn |-> <<>>]]
  /\ discarded = {} /\ unrecorded = {} /\ cut = {}

-----------------------------------------------------------------------------
(* The rows *)

Ended(t) == row[t].status \in Terminal
Undelivered(t) == row[t] # NoRow /\ row[t].delivered = NoTurn
Running(t) == row[t].status = "running"

(* Mutant: a row that has ended is changed again. *)
RecordedAlways(t, status) == [row EXCEPT ![t].status = status]

(* update_task_status: the first status that is recorded stays.             *)
Recorded(t, status) ==
  IF Running(t) THEN [row EXCEPT ![t].status = status] ELSE row

(* An outcome is not recorded, as the statement failed.                     *)
WriteFails(t) ==
  /\ Cardinality(unrecorded) < MaxFailures
  /\ unrecorded' = unrecorded \cup {t}

(* The waits, woken if they have made a Notified: notify_waiters.           *)
Notified(waits) ==
  [p \in Turn |-> [waits[p] EXCEPT !.heard = @ \/ waits[p].pc \in
                                             {"decide", "sleep"}]]
NotifyWaiters == wait' = Notified(wait)

-----------------------------------------------------------------------------
(* Tasks *)

(* start_background registers the row of a task of turn p.                  *)
Register(p, t) ==
  /\ task[t] = "none" /\ \A u \in 1..(t - 1) : task[u] # "none"
  /\ p \notin discarded
  /\ row' = [row EXCEPT ![t] = [status |-> "running", owner |-> process,
                                by |-> p, delivered |-> NoTurn]]
  /\ task' = [task EXCEPT ![t] = "starting"]
  /\ NotifyWaiters
  /\ UNCHANGED <<process, live, result, child, control, batch, unrecorded,
                 history>>

(* The start is cancelled, or its submission is refused: discard.           *)
Discard(t) ==
  /\ task[t] = "starting"
  /\ row' = [row EXCEPT ![t] = NoRow]
  /\ live' = [live EXCEPT ![t] = "none"]
  /\ task' = [task EXCEPT ![t] = "done"]
  /\ NotifyWaiters
  /\ UNCHANGED <<process, result, child, control, batch, unrecorded,
                 history>>

(* The subagent is submitted, its control put up and its watcher spawned.   *)
Launch(t) ==
  /\ task[t] = "starting"
  /\ task' = [task EXCEPT ![t] = "running"]
  /\ child' = [child EXCEPT ![t] = "inProgress"]
  /\ control' = [control EXCEPT ![t] = "up"]
  /\ UNCHANGED <<process, store, result, batch, unrecorded, parent>>

(* The turn of the subagent ends, and is persisted.                         *)
ChildEnds(t) ==
  /\ child[t] = "inProgress" /\ task[t] # "dead"
  /\ \E s \in Ends : child' = [child EXCEPT ![t] = s]
  /\ UNCHANGED <<process, store, task, result, control, batch, unrecorded,
                 parent>>

(* The watcher is done: its control and its flag go.                        *)
Leave(t) ==
  /\ task' = [task EXCEPT ![t] = "done"]
  /\ result' = [result EXCEPT ![t] = "none"]
  /\ control' = [control EXCEPT ![t] = "down"]

(* The watcher has the subagent's result, or its parent turn was cancelled  *)
(* and the grace period is over.  A suppressed task is left to whoever      *)
(* cancels it.                                                              *)
Receive(t) ==
  /\ task[t] = "running"
  /\ IF control[t] = "suppressed" THEN Leave(t)
     ELSE /\ task' = [task EXCEPT ![t] = "completing"]
          /\ result' = [result EXCEPT ![t] =
               IF child[t] = "inProgress" THEN "cancelled" ELSE child[t]]
          /\ UNCHANGED control
  /\ UNCHANGED <<process, store, child, batch, unrecorded, parent>>

(* Mutant: the live result is put up although the row was not changed. *)
CompleteAnyway(t) ==
  /\ task[t] = "completing"
  /\ row' = Recorded(t, result[t])
  /\ task' = [task EXCEPT ![t] = "inserting"]
  /\ UNCHANGED <<process, live, result, child, control, batch, unrecorded,
                 parent>>

(* complete: the statement on the row, whose failure is only logged.        *)
Complete(t) ==
  /\ task[t] = "completing"
  /\ \/ /\ row' = Recorded(t, result[t])
        /\ IF Running(t)
           THEN /\ task' = [task EXCEPT ![t] = "inserting"]
                /\ UNCHANGED <<result, control>>
           ELSE Leave(t)
        /\ UNCHANGED unrecorded
     \/ /\ WriteFails(t) /\ Leave(t)
        /\ UNCHANGED row
  /\ UNCHANGED <<process, live, child, batch, parent>>

(* complete: the live result and the wake-up.                               *)
Insert(t) ==
  /\ task[t] = "inserting"
  /\ live' = [live EXCEPT ![t] = result[t]]
  /\ Leave(t)
  /\ NotifyWaiters
  /\ UNCHANGED <<process, row, child, batch, unrecorded, history>>

-----------------------------------------------------------------------------
(* Cancellation *)

(* Mutant: a subagent that has ended is not recorded as cancelled. *)
ClaimControlsLive(claimed) ==
  /\ control' = [t \in Task |-> IF t \in claimed THEN "suppressed"
                                ELSE control[t]]
  /\ batch' = [t \in Task |->
                 IF t \in claimed /\ child[t] = "inProgress" THEN "update"
                 ELSE "no"]

(* claim_background_subagent_controls, and the cancellation of the          *)
(* subagents: those of one subagent session or of the parent.               *)
ClaimControls(claimed) ==
  /\ control' = [t \in Task |-> IF t \in claimed THEN "suppressed"
                                ELSE control[t]]
  /\ batch' = [t \in Task |-> IF t \in claimed THEN "update" ELSE "no"]

Cancel ==
  /\ batch = [t \in Task |-> "no"]
  /\ \E claimed \in SUBSET {t \in Task : control[t] = "up"} :
       claimed # {} /\ ClaimControls(claimed)
  /\ UNCHANGED <<process, store, task, result, child, unrecorded, parent>>

(* cancel: the statement on a row, and the live result, which says the same.*)
CancelUpdate(t) ==
  /\ batch[t] = "update"
  /\ batch' = [batch EXCEPT ![t] = "notify"]
  /\ \/ /\ row' = Recorded(t, "cancelled")
        /\ live' = [live EXCEPT ![t] = IF Running(t) THEN "cancelled" ELSE @]
        /\ UNCHANGED unrecorded
     \/ WriteFails(t) /\ UNCHANGED store
  /\ UNCHANGED <<process, task, result, child, control, parent>>

(* cancel: one wake-up for all the rows.                                    *)
CancelNotify ==
  /\ \E t \in Task : batch[t] = "notify"
  /\ \A t \in Task : batch[t] \in {"no", "notify"}
  /\ batch' = [t \in Task |-> "no"]
  /\ NotifyWaiters
  /\ UNCHANGED <<process, store, task, result, child, control, unrecorded,
                 history>>

-----------------------------------------------------------------------------
(* Deletion and rollback *)

(* delete_session_references of the session of a subagent.  Nothing looks   *)
(* for a live result without its row, so that both may go at once.          *)
DeleteChild(t) ==
  /\ row[t] # NoRow
  /\ row' = [row EXCEPT ![t] = NoRow]
  /\ live' = [live EXCEPT ![t] = "none"]
  /\ NotifyWaiters
  /\ UNCHANGED <<process, watch, history>>

(* Mutant: deliveries to the discarded turns stay. *)
RolledBackKeeping(turns) ==
  [t \in Task |-> IF row[t].by \in turns THEN NoRow ELSE row[t]]

(* rollback_parent_turns, its transaction: the tasks the turns started go,  *)
(* and what was delivered to them is undelivered.                           *)
RolledBack(turns) ==
  [t \in Task |-> IF row[t].by \in turns THEN NoRow
                  ELSE IF row[t].delivered \in turns
                  THEN [row[t] EXCEPT !.delivered = NoTurn] ELSE row[t]]

(* The parent is rolled back before turn p, when p and later turns are over *)
(* (the session is drained); their part of the conversation goes.           *)
Rollback(p) ==
  LET turns == {q \in Turn \ discarded : q >= p} IN
  /\ turns # {} /\ \A q \in turns : wait[q] = Idle
  /\ row' = RolledBack(turns)
  /\ live' = [t \in Task |-> IF row'[t] = NoRow THEN "none" ELSE live[t]]
  /\ told' = [t \in Task |-> [q \in Turn |->
                IF q \in turns THEN <<>> ELSE told[t][q]]]
  /\ discarded' = discarded \cup turns
  /\ NotifyWaiters
  /\ UNCHANGED <<process, watch, cut>>

-----------------------------------------------------------------------------
(* Waits *)

(* Mutant: the tasks of this process are taken for stale, too. *)
StaleAny(t) == Running(t)

(* stale_running_tasks *)
Stale(t) == Running(t) /\ row[t].owner # process

(* Mutant: delivered rows are claimed, too. *)
ClaimableAgain(t) == Ended(t)

(* The rows that claim_terminal_tasks takes.                                *)
Claimable(t) == Ended(t) /\ Undelivered(t)

Waits(p, pc) == wait[p].pc = pc
Over(p) == [wait EXCEPT ![p] = Idle]

(* reconcile_stale_running_tasks, with which every wait begins: one row,    *)
(* from the persisted turn.                                                 *)
Reconcile(p, t) ==
  /\ wait[p] = Idle /\ p \notin discarded /\ Stale(t)
  /\ row' = Recorded(t, IF child[t] \in Terminal THEN child[t]
                        ELSE "interrupted")
  /\ UNCHANGED <<process, live, watch, parent>>

(* collect_available: the outcome of a task is its live result, or else     *)
(* what the row says.                                                       *)
Outcome(t) == [task |-> t,
               status |-> IF live[t] # "none" THEN live[t] ELSE row[t].status]
Available(tasks) ==
  {Outcome(t) : t \in {x \in tasks : Ended(x) /\ Undelivered(x)}}
Pending(tasks) == \E t \in tasks : Undelivered(t) /\ Running(t)

(* The head of the loop: a Notified is made, and then the rows are read.    *)
Looks(w, due, debounce) ==
  [w EXCEPT !.pc = "decide", !.heard = FALSE, !.due = due,
            !.debounce = debounce, !.found = Available(w.selected),
            !.pending = Pending(w.selected)]

(* wait_for, with the end of the reconciliation and wait_candidates: the    *)
(* wait is for any or for all (of one it is the same) of some undelivered   *)
(* tasks; without any there is no wait.                                     *)
WaitFor(p) ==
  /\ wait[p] = Idle /\ p \notin discarded /\ \A t \in Task : ~Stale(t)
  /\ \E selected \in SUBSET {t \in Task : Undelivered(t)}, any \in BOOLEAN :
       /\ selected # {} /\ (any => Cardinality(selected) > 1)
       /\ wait' = [Notified(wait) EXCEPT ![p] =
                     Looks([Idle EXCEPT !.any = any, !.selected = selected],
                           "no", FALSE)]
  /\ UNCHANGED <<process, store, watch, history>>

(* Mutant: the Notified is made only when the wait goes to sleep. *)
SleepDeaf(p) ==
  wait' = [wait EXCEPT ![p] =
    [@ EXCEPT !.pc = "sleep", !.found = {}, !.pending = FALSE,
              !.heard = FALSE,
              !.debounce = wait[p].debounce
                              \/ (wait[p].any /\ wait[p].found # {})]]

(* The wait sleeps until it is woken or its time is over: its deadline, or  *)
(* five seconds if it waits for any task and has one.                       *)
Sleep(p) ==
  wait' = [wait EXCEPT ![p] =
    [@ EXCEPT !.pc = "sleep", !.found = {}, !.pending = FALSE,
              !.debounce = wait[p].debounce
                              \/ (wait[p].any /\ wait[p].found # {})]]

(* claim_result, with the statement of claim_terminal_tasks: if nothing is  *)
(* left to claim the wait goes on.                                          *)
Claim(p) ==
  LET w == wait[p]
      claimed == {o \in w.found : Claimable(o.task)}
  IN
  IF claimed = {}
  THEN /\ wait' = [wait EXCEPT ![p] =
                     Looks(w, IF w.due = "debounce" THEN "no" ELSE w.due,
                           FALSE)]
       /\ UNCHANGED row
  ELSE /\ wait' = [wait EXCEPT ![p] = [Idle EXCEPT !.pc = "return",
                                                   !.found = claimed]]
       /\ row' = [t \in Task |-> IF \E o \in claimed : o.task = t
                                 THEN [row[t] EXCEPT !.delivered = p]
                                 ELSE row[t]]

(* What is available is claimed if nothing is pending or the time is over.  *)
Decide(p) ==
  /\ Waits(p, "decide")
  /\ LET w == wait[p] IN
     IF w.found # {} /\ (~w.pending \/ w.due # "no") THEN Claim(p)
     ELSE /\ IF w.due # "no" THEN wait' = Over(p) ELSE Sleep(p)
          /\ UNCHANGED row
  /\ UNCHANGED <<process, live, watch, history>>

(* The wait is awake again.                                                 *)
Awake(p, due) ==
  /\ Waits(p, "sleep")
  /\ wait' = [wait EXCEPT ![p] = Looks(@, due, @.debounce)]
  /\ UNCHANGED <<process, store, watch, history>>

Wake(p) == wait[p].heard /\ Awake(p, "no")
DebounceOver(p) == wait[p].debounce /\ Awake(p, "debounce")
DeadlineOver(p) == ~wait[p].debounce /\ Awake(p, "deadline")

(* The result of AgentWait becomes part of the parent's conversation.       *)
Return(p) ==
  /\ Waits(p, "return")
  /\ told' = [t \in Task |->
       IF \E o \in wait[p].found : o.task = t
       THEN LET o == CHOOSE x \in wait[p].found : x.task = t
            IN [told[t] EXCEPT ![p] = Append(@, o.status)]
       ELSE told[t]]
  /\ wait' = Over(p)
  /\ UNCHANGED <<process, store, watch, discarded, cut>>

(* The turn is cancelled while the wait sleeps, or a read or write fails.   *)
WaitFails(p) ==
  /\ \/ Waits(p, "sleep")
     \/ MaxFailures > 0 /\ Waits(p, "decide")
  /\ wait' = Over(p)
  /\ UNCHANGED <<process, store, watch, history>>

(* The process crashes, and another one starts on the same rows.            *)
Crash ==
  /\ process <= MaxRestarts
  /\ process' = process + 1
  /\ live' = [t \in Task |-> "none"]
  /\ task' = [t \in Task |-> IF task[t] = "none" THEN "none" ELSE "dead"]
  /\ result' = [t \in Task |-> "none"]
  /\ control' = [t \in Task |-> "down"] /\ batch' = [t \in Task |-> "no"]
  /\ cut' = cut \cup {c \in Task \X Turn : Waits(c[2], "return")
                        /\ \E o \in wait[c[2]].found : o.task = c[1]}
  /\ wait' = [p \in Turn |-> Idle]
  /\ UNCHANGED <<row, child, told, discarded, unrecorded>>

-----------------------------------------------------------------------------
WaitStep(p) ==
  Decide(p) \/ Wake(p) \/ DebounceOver(p) \/ Return(p)

TaskStep(t) == Receive(t) \/ Complete(t) \/ Insert(t) \/ CancelUpdate(t)

Next ==
  \/ \E t \in Task : Discard(t) \/ Launch(t) \/ ChildEnds(t) \/ TaskStep(t)
                     \/ DeleteChild(t)
  \/ \E p \in Turn : \/ \E t \in Task : Register(p, t)
                                        \/ Reconcile(p, t)
                     \/ Rollback(p) \/ WaitFor(p) \/ WaitStep(p)
                     \/ DeadlineOver(p) \/ WaitFails(p)
  \/ Cancel \/ CancelNotify \/ Crash

Spec == Init /\ [][Next]_vars

(* Spawned watchers, the canceller and the tasks of the waits are scheduled *)
(* and the debounce timer fires; no deadline and no crash is counted on.    *)
FairSpec ==
  /\ Spec
  /\ \A t \in Task : WF_vars(TaskStep(t))
  /\ \A p \in Turn : WF_vars(WaitStep(p))
  /\ WF_vars(CancelNotify)

-----------------------------------------------------------------------------
(* Properties *)

(* "a consumed outcome should not be delivered twice" (a test's message,    *)
(* coordinator.rs:17846): however waits of overlapping turns interleave and *)
(* whatever is rolled back, the parent has at most one report of a task.    *)
DeliveredOnce ==
  \A t \in Task : \A p, q \in Turn :
    told[t][p] # <<>> /\ told[t][q] # <<>> => p = q /\ Len(told[t][p]) = 1

(* A row says that a turn was told only if it was, or is about to be, or a  *)
(* crash came between claim_terminal_tasks and the return of the wait; so   *)
(* that what a rollback takes out of the conversation can be waited for     *)
(* again (rollback_parent_turns).                                           *)
DeliveredIsTold ==
  \A t \in Task : \A p \in Turn : row[t].delivered = p =>
    \/ told[t][p] # <<>>
    \/ Waits(p, "return") /\ \E o \in wait[p].found : o.task = t
    \/ <<t, p>> \in cut

(* What the parent was told is what the row says, although the status is    *)
(* taken from the live result of the watcher or of the canceller, whichever *)
(* came first (update_task_status, outcome_from_record).                    *)
ReportedIsRecorded ==
  \A t \in Task : \A p \in Turn : \A i \in 1..Len(told[t][p]) :
    row[t] # NoRow => told[t][p][i] = row[t].status

(* A row is true of the subagent: its outcome is that of the subagent's own *)
(* turn, and only a task whose process died before its turn ended was       *)
(* interrupted (reconcile_stale_running_tasks).                             *)
OutcomeIsTheChilds ==
  \A t \in Task :
    /\ row[t].status \in {"completed", "failed"} => child[t] = row[t].status
    /\ row[t].status = "interrupted" =>
         task[t] = "dead" /\ child[t] \in {"none", "inProgress"}

(* A task of this process that nobody watches any more has an outcome, or   *)
(* the canceller that suppressed it will record one; unless a write failed, *)
(* which nothing repairs before the process ends.                           *)
NoTaskIsForgotten ==
  \A t \in Task :
    task[t] = "done" /\ Running(t) =>
      batch[t] = "update" \/ t \in unrecorded

(* A wait whose tasks have ended, and are not delivered elsewhere, is       *)
(* answered although its deadline never comes: no wake-up is lost between   *)
(* collect_available and the sleep.                                         *)
Due(p) ==
  /\ wait[p] # Idle
  /\ LET open == {t \in wait[p].selected : Undelivered(t)} IN
     /\ \E t \in open : Ended(t)
     /\ wait[p].any \/ \A t \in open : Ended(t)
WaitsAreAnswered == \A p \in Turn : []<>~Due(p)
=============================================================================
