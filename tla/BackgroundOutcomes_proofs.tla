--------------------- MODULE BackgroundOutcomes_proofs ---------------------
(***************************************************************************)
(* Proofs about BackgroundOutcomes, for any numbers of tasks, turns,       *)
(* crashes and failed writes: its type invariant, and that an outcome is   *)
(* told once.                                                              *)
(***************************************************************************)
EXTENDS BackgroundOutcomes, TLAPS

WaitState ==
  [pc : {"idle", "decide", "sleep", "return"}, any : BOOLEAN,
   selected : SUBSET Task,
   found : SUBSET [task : Task, status : Terminal],
   pending : BOOLEAN, heard : BOOLEAN, debounce : BOOLEAN,
   due : {"no", "debounce", "deadline"}]

-----------------------------------------------------------------------------
(* The operators on rows and waits *)

(* Waking the waits changes nothing but what they heard (notify_waiters).   *)
LEMMA NotifiedOnlyHears ==
  ASSUME NEW waits \in [Turn -> WaitState]
  PROVE  /\ Notified(waits) \in [Turn -> WaitState]
         /\ \A p \in Turn : /\ Notified(waits)[p].pc = waits[p].pc
                            /\ Notified(waits)[p].found = waits[p].found
  BY ZenonT(30) DEF Notified, WaitState

(* A status that is recorded changes neither owner nor delivery             *)
(* (update_task_status).                                                    *)
LEMMA RecordedOnlyStatus ==
  ASSUME NEW t \in Task, NEW status \in Terminal,
         row \in [Task -> Row \cup {NoRow}]
  PROVE  /\ Recorded(t, status) \in [Task -> Row \cup {NoRow}]
         /\ \A u \in Task :
              /\ Recorded(t, status)[u].delivered = row[u].delivered
              /\ Recorded(t, status)[u] = NoRow <=> row[u] = NoRow
  BY DEF Recorded, Running, Row, NoRow, Terminal

(* What a wait finds are tasks with the status they ended with              *)
(* (collect_available).                                                     *)
LEMMA AvailableIsFound ==
  ASSUME TypeOK, NEW tasks \in SUBSET Task
  PROVE  /\ Available(tasks) \in SUBSET [task : Task, status : Terminal]
         /\ Pending(tasks) \in BOOLEAN
<1>1. ASSUME NEW t \in tasks, Ended(t)
      PROVE  Outcome(t) \in [task : Task, status : Terminal]
  BY <1>1 DEF Outcome, Ended, TypeOK
<1> QED
  BY <1>1 DEF Available, Pending

(* A wait that looks at the rows has the type of a wait.                    *)
LEMMA LooksIsWait ==
  ASSUME TypeOK, NEW w \in WaitState, NEW debounce \in BOOLEAN,
         NEW due \in {"no", "debounce", "deadline"}
  PROVE  /\ Looks(w, due, debounce) \in WaitState
         /\ Looks(w, due, debounce).pc = "decide"
<1>1. w.selected \in SUBSET Task
  BY DEF WaitState
<1>2. /\ Available(w.selected) \in SUBSET [task : Task, status : Terminal]
      /\ Pending(w.selected) \in BOOLEAN
  BY <1>1, AvailableIsFound
<1> QED
  BY <1>2 DEF Looks, WaitState

(* So has one that is not called.                                           *)
LEMMA IdleIsWait == Idle \in WaitState /\ Idle.pc = "idle"
  BY DEF Idle, WaitState

-----------------------------------------------------------------------------
(* Types *)

(* The watcher records what it received, so that the type of rows needs     *)
(* that it received something.                                              *)
ResultsAreReceived ==
  \A t \in Task : /\ task[t] = "running" => child[t] # "none"
                  /\ task[t] \in {"completing", "inserting"} =>
                       result[t] # "none"

Types == TypeOK /\ ResultsAreReceived

(* The types hold initially.                                                *)
LEMMA InitTypes == Init => Types
<1> SUFFICES ASSUME Init PROVE Types
  OBVIOUS
<1>1. wait \in [Turn -> WaitState]
  BY IdleIsWait DEF Init
<1>2. told \in [Task -> [Turn -> Seq(Terminal)]]
  BY DEF Init
<1>3. process \in Process
  BY BackgroundConstants DEF Init, Process
<1> QED
  BY <1>1, <1>2, <1>3 DEF Init, TypeOK, WaitState, Types, ResultsAreReceived

(* A step of a task, or of who deletes it *)
TaskMoves(t) ==
  \/ Discard(t) \/ Launch(t) \/ ChildEnds(t) \/ TaskStep(t)
  \/ DeleteChild(t)

(* A step of a wait *)
WaitMoves(p) ==
  \/ WaitFor(p) \/ WaitStep(p) \/ DeadlineOver(p) \/ WaitFails(p)

(* The steps of a task and of its canceller keep the types.                 *)
LEMMA TaskMovesTypes ==
  ASSUME Types, NEW t \in Task, TaskMoves(t)
  PROVE  Types'
<1> USE DEF Types, ResultsAreReceived
<1>0. wait \in [Turn -> WaitState] /\ Notified(wait) \in [Turn -> WaitState]
  BY NotifiedOnlyHears DEF TypeOK, WaitState
<1>1. CASE Discard(t)
  BY <1>0, <1>1 DEF TypeOK, WaitState, Discard, NotifyWaiters, history
<1>2. CASE Launch(t)
  BY <1>2 DEF TypeOK, Launch, store, parent, history
<1>3. CASE ChildEnds(t)
  BY <1>3, BackgroundConstants DEF TypeOK, ChildEnds, store, parent, history
<1>4. CASE Receive(t)
  <2>1. PICK r \in Terminal \cup {"none"}, to \in {"done", "completing"},
             c \in {"down", control[t]} :
          /\ task' = [task EXCEPT ![t] = to]
          /\ result' = [result EXCEPT ![t] = r]
          /\ control' = [control EXCEPT ![t] = c]
          /\ to = "completing" => r # "none"
    <3>1. CASE control[t] = "suppressed"
      BY <1>4, <3>1 DEF Receive, Leave
    <3>2. CASE control[t] # "suppressed"
      <4>1. control' = [control EXCEPT ![t] = control[t]]
        BY <1>4, <3>2 DEF Receive, TypeOK
      <4>2. (IF child[t] = "inProgress" THEN "cancelled" ELSE child[t])
              \in Terminal
        BY <1>4 DEF Receive, TypeOK, Terminal
      <4> QED
        BY <1>4, <3>2, <4>1, <4>2 DEF Receive, Terminal
    <3> QED
      BY <3>1, <3>2
  <2>2. UNCHANGED <<process, row, live, child, batch, unrecorded, wait, told,
                    discarded, cut>>
    BY <1>4 DEF Receive, store, parent, history
  <2>3. /\ task' \in [Task -> {"none", "starting", "running", "completing",
                               "inserting", "done", "dead"}]
        /\ result' \in [Task -> Terminal \cup {"none"}]
        /\ control' \in [Task -> {"down", "up", "suppressed"}]
        /\ ResultsAreReceived'
    BY <2>1, <2>2, ZenonT(30) DEF TypeOK
  <2> QED
    BY <2>2, <2>3 DEF TypeOK
<1>5. CASE Complete(t)
  <2>1. result[t] \in Terminal
    BY <1>5 DEF TypeOK, Complete
  <2>2. row' \in [Task -> Row \cup {NoRow}]
    BY <1>5, <2>1, RecordedOnlyStatus DEF TypeOK, Complete
  <2>3. unrecorded' \subseteq Task
    BY <1>5 DEF TypeOK, Complete, WriteFails
  <2>4. /\ task' \in [Task -> {"none", "starting", "running", "completing",
                               "inserting", "done", "dead"}]
        /\ result' \in [Task -> Terminal \cup {"none"}]
        /\ control' \in [Task -> {"down", "up", "suppressed"}]
        /\ ResultsAreReceived'
    <3>1. CASE Leave(t)
      BY <1>5, <3>1 DEF TypeOK, Complete, Leave
    <3>2. CASE /\ task' = [task EXCEPT ![t] = "inserting"]
               /\ UNCHANGED <<result, control>>
      BY <1>5, <3>2 DEF TypeOK, Complete
    <3> QED
      BY <1>5, <3>1, <3>2 DEF Complete
  <2>5. UNCHANGED <<process, live, child, batch, wait, told, discarded, cut>>
    BY <1>5 DEF Complete, parent, history
  <2> QED
    BY <2>2, <2>3, <2>4, <2>5 DEF TypeOK
<1>6. CASE Insert(t)
  BY <1>0, <1>6 DEF TypeOK, WaitState, Insert, Leave, NotifyWaiters, history
<1>7. CASE CancelUpdate(t)
  <2>1. row' \in [Task -> Row \cup {NoRow}]
    BY <1>7, RecordedOnlyStatus DEF TypeOK, CancelUpdate, store, Terminal
  <2>2. live' \in [Task -> Terminal \cup {"none"}]
    BY <1>7, ZenonT(30) DEF TypeOK, CancelUpdate, store, Terminal
  <2>3. unrecorded' \subseteq Task
    BY <1>7 DEF TypeOK, CancelUpdate, WriteFails
  <2> QED
    BY <1>7, <2>1, <2>2, <2>3 DEF TypeOK, CancelUpdate, parent, history
<1>8. CASE DeleteChild(t)
  BY <1>0, <1>8
     DEF TypeOK, WaitState, DeleteChild, NotifyWaiters, watch, history
<1> QED
  BY <1>1, <1>2, <1>3, <1>4, <1>5, <1>6, <1>7, <1>8
     DEF TaskMoves, TaskStep

(* An outcome that was found and could be claimed is reported.              *)
LEMMA WaitMovesTypes ==
  ASSUME Types, NEW p \in Turn, WaitMoves(p)
  PROVE  Types'
<1> USE DEF Types
<1>0. wait \in [Turn -> WaitState] /\ Notified(wait) \in [Turn -> WaitState]
  BY NotifiedOnlyHears DEF TypeOK, WaitState
<1>1. (wait' \in [Turn -> WaitState] /\ UNCHANGED <<process, row, live, watch,
                                                   history>>) => Types'
  BY DEF TypeOK, ResultsAreReceived, WaitState, watch, history
<1>2. Over(p) \in [Turn -> WaitState]
  BY <1>0, IdleIsWait DEF Over
<1>3. CASE WaitFor(p)
  <2>1. PICK selected \in SUBSET Task, any \in BOOLEAN :
          wait' = [Notified(wait) EXCEPT ![p] =
                     Looks([Idle EXCEPT !.any = any, !.selected = selected],
                           "no", FALSE)]
    BY <1>3 DEF WaitFor
  <2>2. [Idle EXCEPT !.any = any, !.selected = selected] \in WaitState
    BY DEF Idle, WaitState
  <2>3. Looks([Idle EXCEPT !.any = any, !.selected = selected], "no", FALSE)
          \in WaitState
    BY <2>2, LooksIsWait
  <2> QED
    BY <1>0, <1>1, <1>3, <2>1, <2>3 DEF WaitFor, store
<1>4. ASSUME NEW due \in {"no", "debounce", "deadline"}, Awake(p, due)
      PROVE  Types'
  <2>1. Looks(wait[p], due, wait[p].debounce) \in WaitState
    BY <1>0, LooksIsWait DEF WaitState
  <2> QED
    BY <1>0, <1>1, <1>4, <2>1 DEF Awake, store
<1>5. CASE WaitFails(p)
  BY <1>1, <1>2, <1>5 DEF WaitFails, store
<1>6. CASE Return(p)
  <2>1. told' \in [Task -> [Turn -> Seq(Terminal)]]
    <3>1. ASSUME NEW t \in Task, \E o \in wait[p].found : o.task = t
          PROVE  (CHOOSE x \in wait[p].found : x.task = t).status \in Terminal
      BY <1>0, <3>1 DEF WaitState
    <3> DEFINE o(t) == CHOOSE x \in wait[p].found : x.task = t
    <3>2. ASSUME NEW t \in Task, \E x \in wait[p].found : x.task = t
          PROVE  [told[t] EXCEPT ![p] = Append(@, o(t).status)]
                   \in [Turn -> Seq(Terminal)]
      BY <3>1, <3>2 DEF TypeOK
    <3> HIDE DEF o
    <3> QED
      BY <1>6, <3>2 DEF Return, TypeOK, o
  <2> QED
    BY <1>0, <1>2, <1>6, <2>1
       DEF Return, TypeOK, ResultsAreReceived, WaitState, store, watch
<1>7. CASE Decide(p)
  <2> DEFINE w == wait[p]
             claimed == {o \in w.found : Claimable(o.task)}
  <2>1. w \in WaitState
    BY <1>0
  <2>2. CASE w.found # {} /\ (~w.pending \/ w.due # "no") /\ claimed # {}
    <3>1. [Idle EXCEPT !.pc = "return", !.found = claimed] \in WaitState
      BY <2>1 DEF Idle, WaitState
    <3>2. wait' \in [Turn -> WaitState]
      BY <1>0, <1>7, <2>2, <3>1 DEF Decide, Claim
    <3>3. row' \in [Task -> Row \cup {NoRow}]
      <4>1. ASSUME NEW t \in Task, \E o \in claimed : o.task = t
            PROVE  [row[t] EXCEPT !.delivered = p] \in Row
        <5>1. Ended(t)
          BY <4>1 DEF Claimable
        <5>2. row[t] \in Row
          BY <5>1 DEF Ended, TypeOK, NoRow, Terminal
        <5> QED
          BY <5>2 DEF Row
      <4>2. row' = [t \in Task |-> IF \E o \in claimed : o.task = t
                                  THEN [row[t] EXCEPT !.delivered = p]
                                  ELSE row[t]]
        BY <1>7, <2>2 DEF Decide, Claim
      <4> HIDE DEF claimed
      <4> QED
        BY <4>1, <4>2 DEF TypeOK
    <3>4. UNCHANGED <<process, live, watch, history>>
      BY <1>7 DEF Decide
    <3> QED
      BY <3>2, <3>3, <3>4
         DEF TypeOK, ResultsAreReceived, WaitState, watch, history
  <2>3. CASE w.found # {} /\ (~w.pending \/ w.due # "no") /\ claimed = {}
    <3>1. PICK due \in {"no", "debounce", "deadline"} :
            wait' = [wait EXCEPT ![p] = Looks(w, due, FALSE)]
      BY <1>7, <2>1, <2>3 DEF Decide, Claim, WaitState
    <3>2. Looks(w, due, FALSE) \in WaitState
      BY <2>1, LooksIsWait
    <3> QED
      BY <1>0, <1>1, <1>7, <2>3, <3>1, <3>2 DEF Decide, Claim
  <2>4. CASE ~(w.found # {} /\ (~w.pending \/ w.due # "no"))
    <3>1. wait' = Over(p) \/ Sleep(p)
      BY <1>7, <2>4 DEF Decide
    <3>2. Sleep(p) => wait' \in [Turn -> WaitState]
      <4> SUFFICES ASSUME Sleep(p) PROVE wait' \in [Turn -> WaitState]
        OBVIOUS
      <4>1. PICK b \in BOOLEAN :
              wait' = [wait EXCEPT ![p] =
                        [@ EXCEPT !.pc = "sleep", !.found = {},
                                  !.pending = FALSE, !.debounce = b]]
        BY Zenon DEF Sleep
      <4>2. [w EXCEPT !.pc = "sleep", !.found = {}, !.pending = FALSE,
                      !.debounce = b] \in WaitState
        BY <2>1 DEF WaitState
      <4> QED
        BY <1>0, <4>1, <4>2
    <3> QED
      BY <1>1, <1>2, <1>7, <2>4, <3>1, <3>2 DEF Decide
  <2> QED
    BY <2>2, <2>3, <2>4
<1> QED
  BY <1>3, <1>4, <1>5, <1>6, <1>7
     DEF WaitMoves, WaitStep, Wake, DebounceOver, DeadlineOver

(* What rollback_parent_turns leaves of the rows. *)
LEMMA RolledBackRows ==
  ASSUME row \in [Task -> Row \cup {NoRow}], NEW turns \in SUBSET Turn
  PROVE  /\ RolledBack(turns) \in [Task -> Row \cup {NoRow}]
         /\ \A t \in Task :
              /\ row[t] = NoRow => RolledBack(turns)[t] = NoRow
              /\ RolledBack(turns)[t] # NoRow =>
                   RolledBack(turns)[t].delivered =
                     IF row[t].delivered \in turns THEN NoTurn
                     ELSE row[t].delivered
<1> SUFFICES ASSUME NEW t \in Task
    PROVE  LET r == RolledBack(turns)[t] IN
           /\ r \in Row \cup {NoRow}
           /\ row[t] = NoRow => r = NoRow
           /\ r # NoRow => r.delivered = IF row[t].delivered \in turns
                                        THEN NoTurn ELSE row[t].delivered
  BY DEF RolledBack
<1>1. CASE row[t] = NoRow
  <2>1. NoTurn \notin turns
    BY DEF Turn, NoTurn
  <2> QED
    BY <1>1, <2>1 DEF RolledBack, NoRow
<1>2. CASE row[t] \in Row
  <2>1. CASE row[t].by \in turns
    BY <2>1 DEF RolledBack
  <2>2. CASE row[t].by \notin turns /\ row[t].delivered \in turns
    <3>1. RolledBack(turns)[t] = [row[t] EXCEPT !.delivered = NoTurn]
      BY <2>2 DEF RolledBack
    <3> QED
      BY <1>2, <2>2, <3>1 DEF Row, NoRow, Terminal
  <2>3. CASE row[t].by \notin turns /\ row[t].delivered \notin turns
    BY <1>2, <2>3 DEF RolledBack
  <2> QED
    BY <2>1, <2>2, <2>3
<1> QED
  BY <1>1, <1>2

(* Every step keeps the types.                                              *)
LEMMA StepTypes == Types /\ [Next]_vars => Types'
<1> SUFFICES ASSUME Types, [Next]_vars PROVE Types'
  OBVIOUS
<1>0. wait \in [Turn -> WaitState] /\ Notified(wait) \in [Turn -> WaitState]
  BY NotifiedOnlyHears DEF Types, TypeOK, WaitState
<1>1. ASSUME NEW t \in Task, TaskMoves(t) PROVE Types'
  BY <1>1, TaskMovesTypes
<1>2. ASSUME NEW p \in Turn, WaitMoves(p) PROVE Types'
  BY <1>2, WaitMovesTypes
<1>3. ASSUME NEW p \in Turn, NEW t \in Task, Register(p, t) PROVE Types'
  <2>1. [status |-> "running", owner |-> process, by |-> p,
         delivered |-> NoTurn] \in Row
    BY DEF Types, TypeOK, Row
  <2> QED
    BY <1>0, <1>3, <2>1 DEF Types, TypeOK, ResultsAreReceived, WaitState,
                            Register, NotifyWaiters, history
<1>4. ASSUME NEW p \in Turn, NEW t \in Task, Reconcile(p, t) PROVE Types'
  <2>1. (IF child[t] \in Terminal THEN child[t] ELSE "interrupted")
          \in Terminal
    BY DEF Terminal
  <2>2. row' \in [Task -> Row \cup {NoRow}]
    BY <1>4, <2>1, RecordedOnlyStatus DEF Reconcile, Types, TypeOK
  <2> QED
    BY <1>4, <2>2 DEF Types, TypeOK, ResultsAreReceived, Reconcile, watch,
                      parent, history
<1>5. ASSUME NEW p \in Turn, Rollback(p) PROVE Types'
  <2> DEFINE turns == {q \in Turn \ discarded : q >= p}
  <2>1. row' \in [Task -> Row \cup {NoRow}]
    BY <1>5, RolledBackRows DEF Rollback, Types, TypeOK
  <2>2. live' \in [Task -> Terminal \cup {"none"}]
    BY <1>5 DEF Rollback, Types, TypeOK
  <2>3. told' \in [Task -> [Turn -> Seq(Terminal)]]
    BY <1>5 DEF Rollback, Types, TypeOK
  <2>4. discarded' \subseteq Turn
    BY <1>5 DEF Rollback, Types, TypeOK
  <2>5. wait' \in [Turn -> WaitState]
    BY <1>0, <1>5 DEF Rollback, NotifyWaiters
  <2>6. UNCHANGED <<process, watch, cut>>
    BY <1>5 DEF Rollback
  <2> QED
    BY <2>1, <2>2, <2>3, <2>4, <2>5, <2>6
       DEF Types, TypeOK, ResultsAreReceived, WaitState, watch
<1>6. CASE Crash
  <2>1. process' \in Process
    BY <1>6, BackgroundConstants DEF Crash, Types, TypeOK, Process
  <2>2. wait' \in [Turn -> WaitState]
    BY <1>6, IdleIsWait DEF Crash
  <2>3. cut' \subseteq Task \X Turn
    BY <1>6 DEF Crash, Types, TypeOK
  <2>4. /\ task' \in [Task -> {"none", "dead"}]
        /\ live' = [t \in Task |-> "none"] /\ result' = [t \in Task |-> "none"]
        /\ control' = [t \in Task |-> "down"] /\ batch' = [t \in Task |-> "no"]
        /\ UNCHANGED <<row, child, told, discarded, unrecorded>>
    BY <1>6 DEF Crash
  <2> QED
    BY <2>1, <2>2, <2>3, <2>4 DEF Types, TypeOK, ResultsAreReceived, WaitState
<1>7. CASE Cancel
  BY <1>7 DEF Types, TypeOK, ResultsAreReceived, Cancel, ClaimControls, store,
              parent, history
<1>8. CASE CancelNotify
  BY <1>0, <1>8 DEF Types, TypeOK, ResultsAreReceived, WaitState,
                    CancelNotify, NotifyWaiters, store, history
<1>9. CASE UNCHANGED vars
  BY <1>9 DEF vars, store, watch, history, parent, Types, TypeOK,
              ResultsAreReceived
<1> QED
  BY <1>1, <1>2, <1>3, <1>4, <1>5, <1>6, <1>7, <1>8, <1>9
     DEF Next, TaskMoves, WaitMoves

(* The type invariant, for any numbers of tasks, turns, crashes and         *)
(* failures: what the waits report are statuses that tasks end with.        *)
THEOREM TypeCorrect == Spec => []TypeOK
<1>1. Types => TypeOK
  BY DEF Types
<1> QED
  BY <1>1, InitTypes, StepTypes, PTL DEF Spec

-----------------------------------------------------------------------------
(* An outcome is told once *)

Told(t, p) == told[t][p] # <<>>
Returning(t, p) == Waits(p, "return") /\ \E o \in wait[p].found : o.task = t
Holds(t, p) == Told(t, p) \/ Returning(t, p)

(* At most one turn was told of a task or is about to be, and the row, if   *)
(* it is still there, says which.  DeliveredOnce alone is not inductive: a  *)
(* claim must be known to be the only one.                                  *)
OneHolder ==
  /\ \A t \in Task : task[t] = "none" => row[t] = NoRow
  /\ \A t \in Task, p \in Turn : Holds(t, p) =>
       /\ \A q \in Turn : Holds(t, q) => q = p
       /\ task[t] # "none"
       /\ row[t] # NoRow => row[t].delivered = p
       /\ Returning(t, p) => ~Told(t, p)
  /\ \A t \in Task, p \in Turn : Len(told[t][p]) <= 1

(* A step that neither claims, nor tells, nor undoes a delivery.            *)
Quiet ==
  /\ \A t \in Task :
       /\ task'[t] = "none" => task[t] = "none"
       /\ row[t] = NoRow => row'[t] = NoRow
       /\ row'[t] # NoRow => row'[t].delivered = row[t].delivered
  /\ \A p \in Turn : wait'[p].pc = "return" =>
       /\ wait[p].pc = "return"
       /\ wait'[p].found = wait[p].found
  /\ told' = told

(* Steps that tell nobody anything keep one holder of an outcome.           *)
LEMMA QuietStep == OneHolder /\ Quiet => OneHolder'
<1> SUFFICES ASSUME OneHolder, Quiet PROVE OneHolder'
  OBVIOUS
<1>1. ASSUME NEW t \in Task, NEW p \in Turn
      PROVE  /\ Told(t, p)' <=> Told(t, p)
             /\ Returning(t, p)' => Returning(t, p)
  BY DEF Quiet, Told, Returning, Waits
<1>2. ASSUME NEW t \in Task, NEW p \in Turn, Holds(t, p)'
      PROVE  /\ \A q \in Turn : Holds(t, q)' => q = p
             /\ (task[t] # "none")'
             /\ (row[t] # NoRow => row[t].delivered = p)'
             /\ (Returning(t, p) => ~Told(t, p))'
  <2>1. \A q \in Turn : Holds(t, q)' => Holds(t, q)
    BY <1>1 DEF Holds
  <2> QED
    BY <1>1, <1>2, <2>1 DEF OneHolder, Quiet
<1> QED
  BY <1>2 DEF OneHolder, Quiet

(* The steps of a task tell nobody anything.                                *)
LEMMA TaskMovesQuiet ==
  ASSUME Types, NEW t \in Task, TaskMoves(t)
  PROVE  Quiet
<1> USE DEF Types, TypeOK
<1>0. \A p \in Turn : /\ Notified(wait)[p].pc = wait[p].pc
                      /\ Notified(wait)[p].found = wait[p].found
  BY NotifiedOnlyHears DEF WaitState
<1>1. CASE Discard(t)
  BY <1>0, <1>1 DEF Quiet, Discard, NotifyWaiters, history
<1>2. CASE Launch(t)
  BY <1>2 DEF Quiet, Launch, store, parent, history
<1>3. CASE ChildEnds(t)
  BY <1>3 DEF Quiet, ChildEnds, store, parent, history
<1>4. CASE Receive(t)
  BY <1>4 DEF Quiet, Receive, Leave, store, parent, history
<1>5. CASE Complete(t)
  <2>1. result[t] \in Terminal
    BY <1>5 DEF Complete, ResultsAreReceived
  <2>2. \A u \in Task : /\ row'[u] = NoRow <=> row[u] = NoRow
                        /\ row'[u].delivered = row[u].delivered
    <3>1. row' = Recorded(t, result[t]) \/ row' = row
      BY <1>5 DEF Complete
    <3>2. \A u \in Task :
            /\ Recorded(t, result[t])[u].delivered = row[u].delivered
            /\ Recorded(t, result[t])[u] = NoRow <=> row[u] = NoRow
      BY <2>1, RecordedOnlyStatus
    <3> QED
      BY <3>1, <3>2
  <2>3. \A u \in Task : task'[u] = "none" => task[u] = "none"
    BY <1>5 DEF Complete, Leave
  <2>4. UNCHANGED <<wait, told>>
    BY <1>5 DEF Complete, parent, history
  <2> QED
    BY <2>2, <2>3, <2>4 DEF Quiet
<1>6. CASE Insert(t)
  BY <1>0, <1>6 DEF Quiet, Insert, Leave, NotifyWaiters, history
<1>7. CASE CancelUpdate(t)
  <2>1. \A u \in Task : /\ row'[u] = NoRow <=> row[u] = NoRow
                        /\ row'[u].delivered = row[u].delivered
    <3>1. row' = Recorded(t, "cancelled") \/ row' = row
      BY <1>7 DEF CancelUpdate, store
    <3>2. \A u \in Task :
            /\ Recorded(t, "cancelled")[u].delivered = row[u].delivered
            /\ Recorded(t, "cancelled")[u] = NoRow <=> row[u] = NoRow
      BY RecordedOnlyStatus DEF Terminal
    <3> QED
      BY <3>1, <3>2
  <2> QED
    BY <1>7, <2>1 DEF Quiet, CancelUpdate, parent, history
<1>8. CASE DeleteChild(t)
  BY <1>0, <1>8 DEF Quiet, DeleteChild, NotifyWaiters, watch, history
<1> QED
  BY <1>1, <1>2, <1>3, <1>4, <1>5, <1>6, <1>7, <1>8 DEF TaskMoves, TaskStep

(* A claim: claim_terminal_tasks takes rows that nobody has, for turn p.    *)
Claims(p, claimed) ==
  /\ \A o \in claimed : Claimable(o.task)
  /\ Waits(p, "decide")
  /\ wait' = [wait EXCEPT ![p] = [Idle EXCEPT !.pc = "return",
                                              !.found = claimed]]
  /\ row' = [t \in Task |-> IF \E o \in claimed : o.task = t
                            THEN [row[t] EXCEPT !.delivered = p]
                            ELSE row[t]]
  /\ UNCHANGED <<task, told>>

(* Of the steps of a wait, only a claim and the return are not quiet.       *)
LEMMA WaitMovesQuiet ==
  ASSUME Types, NEW p \in Turn, WaitMoves(p), ~Return(p)
  PROVE  Quiet \/ \E claimed \in SUBSET wait[p].found : Claims(p, claimed)
<1> USE DEF Types
<1>0. /\ wait \in [Turn -> WaitState]
      /\ Notified(wait) \in [Turn -> WaitState]
      /\ \A q \in Turn : /\ Notified(wait)[q].pc = wait[q].pc
                         /\ Notified(wait)[q].found = wait[q].found
  BY NotifiedOnlyHears DEF TypeOK, WaitState
<1>1. ASSUME NEW w, w.pc # "return", NEW waits \in {wait, Notified(wait)},
             wait' = [waits EXCEPT ![p] = w], UNCHANGED <<row, task, told>>
      PROVE  Quiet
  BY <1>0, <1>1 DEF Quiet
<1>2. Idle.pc = "idle"
  BY IdleIsWait
<1>3. CASE WaitFor(p)
  <2>1. PICK selected \in SUBSET Task, any \in BOOLEAN :
          wait' = [Notified(wait) EXCEPT ![p] =
                     Looks([Idle EXCEPT !.any = any, !.selected = selected],
                           "no", FALSE)]
    BY <1>3 DEF WaitFor
  <2>2. [Idle EXCEPT !.any = any, !.selected = selected] \in WaitState
    BY DEF Idle, WaitState
  <2>3. Looks([Idle EXCEPT !.any = any, !.selected = selected], "no", FALSE)
          .pc = "decide"
    BY <2>2, LooksIsWait
  <2> QED
    BY <1>1, <1>3, <2>1, <2>3 DEF WaitFor, store, watch, history
<1>4. ASSUME NEW due \in {"no", "debounce", "deadline"}, Awake(p, due)
      PROVE  Quiet
  <2>1. Looks(wait[p], due, wait[p].debounce).pc = "decide"
    BY <1>0, LooksIsWait DEF WaitState
  <2>2. /\ wait' = [wait EXCEPT ![p] =
                      Looks(wait[p], due, wait[p].debounce)]
        /\ UNCHANGED <<row, task, told>>
    BY <1>0, <1>4 DEF Awake, store, watch, history
  <2> QED
    BY <1>1, <2>1, <2>2
<1>5. CASE WaitFails(p)
  BY <1>1, <1>2, <1>5 DEF WaitFails, Over, store, watch, history
<1>6. CASE Decide(p)
  <2> DEFINE w == wait[p]
             claimed == {o \in w.found : Claimable(o.task)}
  <2>1. w \in WaitState /\ UNCHANGED <<task, told>>
    BY <1>0, <1>6 DEF Decide, watch, history
  <2>2. CASE w.found # {} /\ (~w.pending \/ w.due # "no") /\ claimed # {}
    <3>1. Claims(p, claimed)
      BY <1>6, <2>1, <2>2 DEF Decide, Claim, Claims
    <3> QED
      BY <3>1
  <2>3. CASE w.found # {} /\ (~w.pending \/ w.due # "no") /\ claimed = {}
    <3>1. PICK due \in {"no", "debounce", "deadline"} :
            wait' = [wait EXCEPT ![p] = Looks(w, due, FALSE)]
      BY <1>6, <2>1, <2>3 DEF Decide, Claim, WaitState
    <3>2. Looks(w, due, FALSE).pc = "decide"
      BY <2>1, LooksIsWait
    <3>3. UNCHANGED row
      BY <1>6, <2>3 DEF Decide, Claim
    <3> QED
      BY <1>1, <2>1, <3>1, <3>2, <3>3
  <2>4. CASE ~(w.found # {} /\ (~w.pending \/ w.due # "no"))
    <3>1. (wait' = Over(p) \/ Sleep(p)) /\ UNCHANGED row
      BY <1>6, <2>4 DEF Decide
    <3>2. wait' = Over(p) => Quiet
      BY <1>1, <1>2, <2>1, <3>1 DEF Over
    <3>3. Sleep(p) => Quiet
      <4> SUFFICES ASSUME Sleep(p) PROVE Quiet
        OBVIOUS
      <4>1. PICK b \in BOOLEAN :
              wait' = [wait EXCEPT ![p] =
                        [@ EXCEPT !.pc = "sleep", !.found = {},
                                  !.pending = FALSE, !.debounce = b]]
        BY Zenon DEF Sleep
      <4>2. [w EXCEPT !.pc = "sleep", !.found = {}, !.pending = FALSE,
                      !.debounce = b].pc = "sleep"
        BY <2>1 DEF WaitState
      <4> QED
        BY <1>0, <1>1, <2>1, <3>1, <4>1, <4>2
    <3> QED
      BY <3>1, <3>2, <3>3
  <2> QED
    BY <2>2, <2>3, <2>4
<1> QED
  BY <1>3, <1>4, <1>5, <1>6
     DEF WaitMoves, WaitStep, Wake, DebounceOver, DeadlineOver

(* A task has a new row, and nobody was told of it (start_background).      *)
LEMMA RegisterKeeps ==
  ASSUME Types, OneHolder, NEW p \in Turn, NEW t \in Task, Register(p, t)
  PROVE  OneHolder'
<1>1. \A q \in Turn : /\ wait'[q].pc = wait[q].pc
                      /\ wait'[q].found = wait[q].found
  BY NotifiedOnlyHears, ZenonT(60)
     DEF Types, TypeOK, WaitState, Register, NotifyWaiters
<1>2. told' = told /\ task[t] = "none"
  BY DEF Register, history
<1>3. \A u \in Task, q \in Turn : /\ Told(u, q)' <=> Told(u, q)
                                  /\ Returning(u, q)' <=> Returning(u, q)
  BY <1>1, <1>2 DEF Told, Returning, Waits
<1>4. \A q \in Turn : ~Holds(t, q)
  BY <1>2 DEF OneHolder
<1>5. /\ \A u \in Task \ {t} : row'[u] = row[u] /\ task'[u] = task[u]
      /\ task'[t] = "starting"
  BY DEF Register, Types, TypeOK
<1>6. ASSUME NEW u \in Task, NEW q \in Turn, Holds(u, q)'
      PROVE  /\ \A r \in Turn : Holds(u, r)' => r = q
             /\ (task[u] # "none")'
             /\ (row[u] # NoRow => row[u].delivered = q)'
             /\ (Returning(u, q) => ~Told(u, q))'
  <2>1. \A r \in Turn : Holds(u, r)' <=> Holds(u, r)
    BY <1>3 DEF Holds
  <2>2. u # t
    BY <1>4, <1>6, <2>1
  <2> QED
    BY <1>3, <1>5, <1>6, <2>1, <2>2 DEF OneHolder
<1> QED
  BY <1>2, <1>5, <1>6 DEF OneHolder

(* Nobody has what claim_terminal_tasks takes: its rows are undelivered.    *)
LEMMA ClaimKeeps ==
  ASSUME Types, OneHolder, NEW p \in Turn,
         NEW claimed \in SUBSET wait[p].found, Claims(p, claimed)
  PROVE  OneHolder'
<1> DEFINE Taken(t) == \E o \in claimed : o.task = t
<1>1. /\ wait'[p].pc = "return" /\ wait'[p].found = claimed
      /\ \A q \in Turn \ {p} : wait'[q] = wait[q]
      /\ wait[p].pc = "decide"
  BY DEF Claims, Idle, Waits, Types, TypeOK
<1>2. /\ told' = told /\ task' = task
      /\ \A t \in Task : row'[t] = IF Taken(t)
                                   THEN [row[t] EXCEPT !.delivered = p]
                                   ELSE row[t]
  BY DEF Claims
<1>3. ASSUME NEW t \in Task, Taken(t)
      PROVE  /\ \A q \in Turn : ~Holds(t, q)
             /\ task[t] # "none"
             /\ row'[t].delivered = p
  <2>1. row[t] # NoRow /\ row[t].delivered = NoTurn
    BY <1>3 DEF Claims, Claimable, Undelivered
  <2>2. NoTurn \notin Turn
    BY DEF NoTurn, Turn
  <2>3. row[t] \in Row
    BY <2>1 DEF Types, TypeOK
  <2> QED
    BY <1>2, <1>3, <2>1, <2>2, <2>3, ZenonT(30) DEF OneHolder, Row
<1>4. ASSUME NEW t \in Task, ~Taken(t)
      PROVE  row'[t] = row[t]
  BY <1>2, <1>4
<1> HIDE DEF Taken
<1>5. ASSUME NEW t \in Task, NEW q \in Turn
      PROVE  /\ Told(t, q)' <=> Told(t, q)
             /\ q # p => (Returning(t, q)' <=> Returning(t, q))
             /\ Returning(t, p)' <=> Taken(t)
             /\ ~Returning(t, p)
  BY <1>1, <1>2 DEF Told, Returning, Waits, Taken
<1>6. ASSUME NEW t \in Task, NEW q \in Turn, Holds(t, q)'
      PROVE  /\ \A r \in Turn : Holds(t, r)' => r = q
             /\ (task[t] # "none")'
             /\ (row[t] # NoRow => row[t].delivered = q)'
             /\ (Returning(t, q) => ~Told(t, q))'
  <2>1. CASE Taken(t)
    <3>1. \A r \in Turn : Holds(t, r)' => r = p
      BY <1>3, <1>5, <2>1 DEF Holds
    <3>2. q = p /\ ~Told(t, p)'
      BY <1>3, <1>5, <1>6, <2>1, <3>1 DEF Holds
    <3> QED
      BY <1>2, <1>3, <2>1, <3>1, <3>2
  <2>2. CASE ~Taken(t)
    <3>1. \A r \in Turn : /\ Holds(t, r)' <=> Holds(t, r)
                          /\ Returning(t, r)' <=> Returning(t, r)
      BY <1>5, <2>2 DEF Holds
    <3> QED
      BY <1>2, <1>4, <1>5, <1>6, <2>2, <3>1 DEF OneHolder
  <2> QED
    BY <2>1, <2>2
<1>7. \A t \in Task : task'[t] = "none" => row'[t] = NoRow
  BY <1>2, <1>3, <1>4 DEF OneHolder
<1> QED
  BY <1>2, <1>6, <1>7 DEF OneHolder

(* The length of the first report. *)
LEMMA LenOfFirst ==
  ASSUME NEW s
  PROVE  Len(Append(<<>>, s)) = 1
<1>1. <<>> \in Seq({s}) /\ s \in {s} /\ Len(<<>>) = 0
  OBVIOUS
<1>2. Len(Append(<<>>, s)) = Len(<<>>) + 1
  BY <1>1
<1> QED
  BY <1>1, <1>2

(* A claim becomes a report, the first one of the task (AgentWait returns). *)
LEMMA ReturnKeeps ==
  ASSUME Types, OneHolder, NEW p \in Turn, Return(p)
  PROVE  OneHolder'
<1> DEFINE o(t) == CHOOSE x \in wait[p].found : x.task = t
<1>1. /\ wait'[p].pc = "idle"
      /\ \A q \in Turn \ {p} : wait'[q] = wait[q]
      /\ Waits(p, "return") /\ UNCHANGED <<row, task>>
  BY IdleIsWait DEF Return, Over, Types, TypeOK, store, watch
<1>2. ASSUME NEW t \in Task, Returning(t, p)
      PROVE  /\ told'[t][p] = Append(<<>>, o(t).status)
             /\ \A q \in Turn \ {p} : told'[t][q] = told[t][q]
  <2>1. told'[t] = [told[t] EXCEPT ![p] = Append(@, o(t).status)]
    BY <1>2 DEF Return, Returning
  <2>2. told[t] \in [Turn -> Seq(Terminal)] /\ told[t][p] = <<>>
    BY <1>2 DEF OneHolder, Holds, Told, Types, TypeOK
  <2> HIDE DEF o
  <2> QED
    BY <2>1, <2>2
<1>3. ASSUME NEW t \in Task, ~Returning(t, p)
      PROVE  told'[t] = told[t]
  BY <1>1, <1>3 DEF Return, Returning
<1> HIDE DEF o
<1>4. ASSUME NEW t \in Task, NEW q \in Turn, Returning(t, q)'
      PROVE  q # p /\ Returning(t, q)
  BY <1>1, <1>4 DEF Returning, Waits
<1>5. ASSUME NEW t \in Task, NEW q \in Turn, q # p
      PROVE  told'[t][q] = told[t][q]
  BY <1>2, <1>3, <1>5
<1>6. ASSUME NEW t \in Task, NEW q \in Turn, Holds(t, q)'
      PROVE  Holds(t, q)
  <2>1. CASE Returning(t, q)'
    BY <1>4, <2>1 DEF Holds
  <2>2. CASE Told(t, q)'
    BY <1>3, <1>5, <2>2 DEF Holds, Told
  <2> QED
    BY <1>6, <2>1, <2>2 DEF Holds
<1>7. ASSUME NEW t \in Task, NEW q \in Turn, Holds(t, q)'
      PROVE  /\ \A r \in Turn : Holds(t, r)' => r = q
             /\ (task[t] # "none")'
             /\ (row[t] # NoRow => row[t].delivered = q)'
             /\ (Returning(t, q) => ~Told(t, q))'
  <2>1. (Returning(t, q) => ~Told(t, q))'
    BY <1>4, <1>5, <1>6, <1>7 DEF OneHolder, Told
  <2> QED
    BY <1>1, <1>6, <1>7, <2>1 DEF OneHolder
<1>8. ASSUME NEW t \in Task, NEW q \in Turn
      PROVE  Len(told'[t][q]) <= 1
  <2>1. CASE q = p /\ Returning(t, p)
    <3>1. Len(Append(<<>>, o(t).status)) = 1
      BY LenOfFirst
    <3>2. Len(told'[t][q]) = 1
      BY <1>2, <2>1, <3>1, Zenon
    <3> QED
      BY <3>2
  <2>2. CASE ~(q = p /\ Returning(t, p))
    BY <1>3, <1>5, <2>2 DEF OneHolder
  <2> QED
    BY <2>1, <2>2
<1> QED
  BY <1>1, <1>7, <1>8 DEF OneHolder

(* Only who is rolled back loses what was told (rollback_parent_turns).     *)
LEMMA RollbackKeeps ==
  ASSUME Types, OneHolder, NEW p \in Turn, Rollback(p)
  PROVE  OneHolder'
<1> DEFINE turns == {q \in Turn \ discarded : q >= p}
<1>1. \A q \in Turn : /\ wait'[q].pc = wait[q].pc
                      /\ wait'[q].found = wait[q].found
  BY NotifiedOnlyHears DEF Types, TypeOK, WaitState, Rollback, NotifyWaiters
<1>2. /\ \A q \in turns : wait[q].pc = "idle"
      /\ task' = task
      /\ \A t \in Task, q \in Turn :
           told'[t][q] = IF q \in turns THEN <<>> ELSE told[t][q]
  BY IdleIsWait DEF Rollback, watch
<1>3. \A t \in Task : /\ row[t] = NoRow => row'[t] = NoRow
                      /\ row'[t] # NoRow =>
                           row'[t].delivered =
                             IF row[t].delivered \in turns THEN NoTurn
                             ELSE row[t].delivered
  BY RolledBackRows, ZenonT(60) DEF Rollback, Types, TypeOK
<1> HIDE DEF turns
<1>4. ASSUME NEW t \in Task, NEW q \in Turn
      PROVE  /\ Told(t, q)' <=> (q \notin turns /\ Told(t, q))
             /\ Returning(t, q)' <=> Returning(t, q)
             /\ Returning(t, q) => q \notin turns
  BY <1>1, <1>2 DEF Told, Returning, Waits
<1>5. ASSUME NEW t \in Task, NEW q \in Turn, Holds(t, q)'
      PROVE  /\ \A r \in Turn : Holds(t, r)' => r = q
             /\ (task[t] # "none")'
             /\ (row[t] # NoRow => row[t].delivered = q)'
             /\ (Returning(t, q) => ~Told(t, q))'
  <2>1. \A r \in Turn : Holds(t, r)' => Holds(t, r) /\ r \notin turns
    BY <1>4 DEF Holds
  <2> QED
    BY <1>2, <1>3, <1>4, <1>5, <2>1 DEF OneHolder
<1>6. \A t \in Task, q \in Turn : Len(told'[t][q]) <= 1
  BY <1>2 DEF OneHolder
<1> QED
  BY <1>2, <1>3, <1>5, <1>6 DEF OneHolder

(* Every step keeps one holder of an outcome.                               *)
LEMMA StepOneHolder == Types /\ OneHolder /\ [Next]_vars => OneHolder'
<1> SUFFICES ASSUME Types, OneHolder, [Next]_vars PROVE OneHolder'
  OBVIOUS
<1>0. Quiet => OneHolder'
  BY QuietStep
<1>1. ASSUME NEW t \in Task, TaskMoves(t) PROVE OneHolder'
  BY <1>0, <1>1, TaskMovesQuiet
<1>2. ASSUME NEW p \in Turn, WaitMoves(p) PROVE OneHolder'
  BY <1>0, <1>2, WaitMovesQuiet, ClaimKeeps, ReturnKeeps
<1>3. ASSUME NEW p \in Turn, NEW t \in Task, Register(p, t) PROVE OneHolder'
  BY <1>3, RegisterKeeps
<1>4. ASSUME NEW p \in Turn, NEW t \in Task, Reconcile(p, t) PROVE OneHolder'
  <2>1. (IF child[t] \in Terminal THEN child[t] ELSE "interrupted")
          \in Terminal
    BY DEF Terminal
  <2>2. \A u \in Task : /\ row'[u] = NoRow <=> row[u] = NoRow
                        /\ row'[u].delivered = row[u].delivered
    <3>1. row \in [Task -> Row \cup {NoRow}]
      BY DEF Types, TypeOK
    <3>2. PICK status \in Terminal : row' = Recorded(t, status)
      BY <1>4, <2>1 DEF Reconcile
    <3> QED
      BY <3>1, <3>2, RecordedOnlyStatus
  <2> QED
    BY <1>0, <1>4, <2>2 DEF Quiet, Reconcile, watch, parent, history
<1>5. ASSUME NEW p \in Turn, Rollback(p) PROVE OneHolder'
  BY <1>5, RollbackKeeps
<1>6. CASE Crash
  BY <1>0, <1>6, IdleIsWait DEF Quiet, Crash
<1>7. CASE Cancel
  BY <1>0, <1>7 DEF Quiet, Cancel, store, parent, history
<1>8. CASE CancelNotify
  <2>1. \A q \in Turn : /\ wait'[q].pc = wait[q].pc
                        /\ wait'[q].found = wait[q].found
    <3>1. wait \in [Turn -> WaitState]
      BY DEF Types, TypeOK, WaitState
    <3>2. wait' = Notified(wait)
      BY <1>8 DEF CancelNotify, NotifyWaiters
    <3> QED
      BY <3>1, <3>2, NotifiedOnlyHears
  <2> QED
    BY <1>0, <1>8, <2>1 DEF Quiet, CancelNotify, store, history
<1>9. CASE UNCHANGED vars
  BY <1>0, <1>9 DEF Quiet, vars, store, watch, parent, history
<1> QED
  BY <1>1, <1>2, <1>3, <1>4, <1>5, <1>6, <1>7, <1>8, <1>9
     DEF Next, TaskMoves, WaitMoves

(* There is no holder initially.                                            *)
LEMMA InitOneHolder == Init => OneHolder
  BY IdleIsWait DEF Init, OneHolder, Holds, Told, Returning, Waits

(* With one holder nobody is told twice.                                    *)
LEMMA OneHolderIsEnough == Types /\ OneHolder => DeliveredOnce
<1> SUFFICES ASSUME Types, OneHolder, NEW t \in Task, NEW p \in Turn,
                    NEW q \in Turn, Told(t, p), Told(t, q)
             PROVE  p = q /\ Len(told[t][p]) = 1
  BY DEF DeliveredOnce, Told
<1>1. told[t][p] \in Seq(Terminal) /\ told[t][p] # <<>>
  BY DEF Types, TypeOK, Told
<1>2. Len(told[t][p]) \in Nat /\ Len(told[t][p]) # 0
  BY <1>1
<1>3. Len(told[t][p]) <= 1 /\ p = q
  BY DEF OneHolder, Holds
<1>4. \A n \in Nat : n # 0 /\ n <= 1 => n = 1
  OBVIOUS
<1> QED
  BY <1>2, <1>3, <1>4, Zenon

(* "A consumed outcome should not be delivered twice" (coordinator.rs       *)
(* test): the claim of claim_terminal_tasks, its release by                 *)
(* rollback_parent_turns and crashes leave the parent with at most one      *)
(* report of a task, for any numbers of tasks, turns and crashes.           *)
THEOREM OutcomesAreToldOnce == Spec => []DeliveredOnce
<1> QED
  BY InitTypes, StepTypes, InitOneHolder, StepOneHolder, OneHolderIsEnough,
     PTL DEF Spec
=============================================================================
