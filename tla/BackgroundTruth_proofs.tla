----------------------- MODULE BackgroundTruth_proofs -----------------------
(***************************************************************************)
(* More proofs about BackgroundOutcomes: that what a row says was told,    *)
(* what was told is what the row says, and what the row says is true.      *)
(***************************************************************************)
EXTENDS BackgroundOutcomes_proofs

-----------------------------------------------------------------------------
(* What steps do to rows *)

(* A statement of update_task_status on the row of t changes the status of  *)
(* that row, if it is running, and nothing else.                            *)
LEMMA RecordedRow ==
  ASSUME NEW t \in Task, NEW status \in Terminal, NEW u \in Task,
         row \in [Task -> Row \cup {NoRow}]
  PROVE  /\ u # t \/ ~Running(t) => Recorded(t, status)[u] = row[u]
         /\ u = t /\ Running(t) => Recorded(t, status)[u].status = status
         /\ Recorded(t, status)[u].owner = row[u].owner
         /\ Recorded(t, status)[u] = NoRow <=> row[u] = NoRow
  BY DEF Recorded, Running, Row, NoRow, Terminal

(* A rollback changes only the delivery of the rows it leaves.              *)
LEMMA RolledBackRow ==
  ASSUME row \in [Task -> Row \cup {NoRow}], NEW turns \in SUBSET Turn,
         NEW t \in Task, RolledBack(turns)[t] # NoRow
  PROVE  /\ row[t] # NoRow
         /\ RolledBack(turns)[t].status = row[t].status
         /\ RolledBack(turns)[t].owner = row[t].owner
<1>1. row[t] \in Row
  BY RolledBackRows
<1>2. CASE row[t].delivered \in turns
  <2>1. RolledBack(turns)[t] = [row[t] EXCEPT !.delivered = NoTurn]
    BY <1>2 DEF RolledBack
  <2> QED
    BY <1>1, <2>1 DEF Row, NoRow, Terminal
<1>3. CASE row[t].delivered \notin turns
  <2>1. RolledBack(turns)[t] = row[t]
    BY <1>3 DEF RolledBack
  <2> QED
    BY <1>1, <2>1
<1> QED
  BY <1>2, <1>3

(* The steps of a wait leave tasks and live results alone, and of the rows  *)
(* they change the delivery.                                                *)
LEMMA WaitMovesRows ==
  ASSUME Types, NEW p \in Turn, WaitMoves(p)
  PROVE  /\ UNCHANGED <<process, live, watch>>
         /\ \A u \in Task :
              \/ row'[u] = row[u]
              \/ row[u] \in Row /\ row'[u] = [row[u] EXCEPT !.delivered = p]
<1>1. UNCHANGED <<process, live, watch>>
  BY DEF WaitMoves, WaitStep, WaitFor, Decide, Wake, DebounceOver,
         DeadlineOver, Awake, Return, WaitFails, store
<1>2. CASE UNCHANGED row
  BY <1>1, <1>2
<1>3. CASE ~UNCHANGED row
  <2>1. Decide(p)
    BY <1>3 DEF WaitMoves, WaitStep, WaitFor, Wake, DebounceOver,
                DeadlineOver, Awake, Return, WaitFails, store
  <2>2. Claim(p)
    BY <1>3, <2>1 DEF Decide
  <2>3. PICK claimed \in SUBSET wait[p].found :
          /\ \A o \in claimed : Claimable(o.task)
          /\ row' = [t \in Task |-> IF \E o \in claimed : o.task = t
                                    THEN [row[t] EXCEPT !.delivered = p]
                                    ELSE row[t]]
    BY <1>3, <2>2 DEF Claim
  <2>4. ASSUME NEW u \in Task
        PROVE  \/ row'[u] = row[u]
               \/ row[u] \in Row /\ row'[u] = [row[u] EXCEPT !.delivered = p]
    <3>1. CASE ~\E o \in claimed : o.task = u
      BY <2>3, <3>1
    <3>2. CASE \E o \in claimed : o.task = u
      <4>1. Ended(u)
        BY <2>3, <3>2 DEF Claimable
      <4>2. row[u] \in Row
        BY <4>1 DEF Ended, Types, TypeOK, NoRow, Terminal
      <4> QED
        BY <2>3, <3>2, <4>2
    <3> QED
      BY <3>1, <3>2
  <2> QED
    BY <1>1, <2>4
<1> QED
  BY <1>2, <1>3

(* A task that was started stays started, a row that went does not come     *)
(* back, and the first status that a task ends with stays                   *)
(* (update_task_status: WHERE status = 'running').                          *)
LEMMA RowsAreFinal ==
  ASSUME Types, [Next]_vars, NEW u \in Task, task[u] # "none"
  PROVE  /\ task'[u] # "none"
         /\ row'[u] # NoRow => /\ row[u] # NoRow
                               /\ row'[u].owner = row[u].owner
                               /\ Ended(u) => row'[u].status = row[u].status
<1>0. row \in [Task -> Row \cup {NoRow}]
  BY DEF Types, TypeOK
<1>r. ASSUME NEW t \in Task, NEW status \in Terminal,
             row' = Recorded(t, status)
      PROVE  row'[u] # NoRow => /\ row[u] # NoRow
                                /\ row'[u].owner = row[u].owner
                                /\ Ended(u) => row'[u].status = row[u].status
  <2>1. Ended(u) => u # t \/ ~Running(t)
    BY DEF Ended, Running, Terminal
  <2> QED
    BY <1>0, <1>r, <2>1, RecordedRow
<1>1. ASSUME NEW t \in Task, TaskMoves(t)
      PROVE  /\ task'[u] # "none"
             /\ row'[u] # NoRow =>
                  /\ row[u] # NoRow /\ row'[u].owner = row[u].owner
                  /\ Ended(u) => row'[u].status = row[u].status
  <2>1. task'[u] # "none"
    BY <1>1
       DEF Types, TypeOK, TaskMoves, TaskStep, Discard, Launch, ChildEnds,
           Receive, Complete, Insert, CancelUpdate, DeleteChild, Leave, watch
  <2>2. CASE UNCHANGED row
    BY <2>1, <2>2
  <2>3. CASE row' = [row EXCEPT ![t] = NoRow]
    BY <1>0, <2>1, <2>3
  <2>5. Complete(t) => row' = Recorded(t, result[t]) \/ row' = row
    BY DEF Complete
  <2>6. Complete(t) => result[t] \in Terminal
    BY DEF Complete, Types, TypeOK, ResultsAreReceived
  <2>7. CancelUpdate(t) => row' = Recorded(t, "cancelled") \/ row' = row
    BY DEF CancelUpdate, store
  <2>8. "cancelled" \in Terminal
    BY DEF Terminal
  <2>9. \/ Complete(t) \/ CancelUpdate(t) \/ UNCHANGED row
        \/ row' = [row EXCEPT ![t] = NoRow]
    BY <1>1 DEF TaskMoves, TaskStep, Discard, Launch, ChildEnds, Receive,
                Insert, DeleteChild, store
  <2> QED
    BY <1>r, <2>1, <2>2, <2>3, <2>5, <2>6, <2>7, <2>8, <2>9
<1>2. ASSUME NEW p \in Turn, WaitMoves(p)
      PROVE  /\ task'[u] # "none"
             /\ row'[u] # NoRow =>
                  /\ row[u] # NoRow /\ row'[u].owner = row[u].owner
                  /\ Ended(u) => row'[u].status = row[u].status
  <2>1. task' = task
    BY <1>2, WaitMovesRows DEF watch
  <2>2. \/ row'[u] = row[u]
        \/ row[u] \in Row /\ row'[u] = [row[u] EXCEPT !.delivered = p]
    BY <1>2, WaitMovesRows, Zenon
  <2>3. row[u] \in Row => row[u] # NoRow
    BY DEF Row, NoRow, Terminal
  <2> QED
    BY <2>1, <2>2, <2>3 DEF Row
<1>3. ASSUME NEW p \in Turn, NEW t \in Task, Register(p, t)
      PROVE  task'[u] # "none" /\ row'[u] = row[u]
  BY <1>3 DEF Register, Types, TypeOK
<1>4. ASSUME NEW p \in Turn, NEW t \in Task, Reconcile(p, t)
      PROVE  /\ task'[u] # "none"
             /\ row'[u] # NoRow =>
                  /\ row[u] # NoRow /\ row'[u].owner = row[u].owner
                  /\ Ended(u) => row'[u].status = row[u].status
  <2>1. PICK status \in Terminal : row' = Recorded(t, status)
    BY <1>4 DEF Reconcile, Terminal
  <2>2. task' = task
    BY <1>4 DEF Reconcile, watch
  <2> QED
    BY <1>r, <2>1, <2>2
<1>5. ASSUME NEW p \in Turn, Rollback(p)
      PROVE  /\ task'[u] # "none"
             /\ row'[u] # NoRow =>
                  /\ row[u] # NoRow /\ row'[u].owner = row[u].owner
                  /\ row'[u].status = row[u].status
  <2>1. PICK turns \in SUBSET Turn : row' = RolledBack(turns)
    BY <1>5 DEF Rollback
  <2> QED
    BY <1>0, <1>5, <2>1, RolledBackRow DEF Rollback, watch
<1>6. CASE Crash \/ Cancel \/ CancelNotify \/ UNCHANGED vars
  BY <1>6 DEF Crash, Cancel, CancelNotify, vars, store, watch
<1> QED
  BY <1>1, <1>2, <1>3, <1>4, <1>5, <1>6 DEF Next, TaskMoves, WaitMoves

-----------------------------------------------------------------------------
(* Who is recorded as told was told *)

(* A claim of a wait stays until the wait returns or the host crashes.      *)
LEMMA ClaimsAreKept ==
  ASSUME Types, [Next]_vars, ~Crash, NEW q \in Turn, Waits(q, "return"),
         ~Return(q)
  PROVE  wait'[q].pc = "return" /\ wait'[q].found = wait[q].found
<1>0. /\ wait \in [Turn -> WaitState]
      /\ Notified(wait) \in [Turn -> WaitState]
      /\ Notified(wait)[q].pc = wait[q].pc
      /\ Notified(wait)[q].found = wait[q].found
  BY NotifiedOnlyHears, ZenonT(30) DEF Types, TypeOK, WaitState
<1>1. CASE wait' = wait \/ wait' = Notified(wait)
  BY <1>0, <1>1 DEF Waits
<1>2. ASSUME NEW p \in Turn, WaitMoves(p)
      PROVE  wait'[q].pc = "return" /\ wait'[q].found = wait[q].found
  <2>1. CASE p = q
    <3>1. ~WaitFor(q)
      BY IdleIsWait DEF WaitFor, Waits
    <3>2. /\ ~Decide(q) /\ ~Wake(q) /\ ~DebounceOver(q) /\ ~DeadlineOver(q)
          /\ ~WaitFails(q)
      BY DEF Decide, Wake, DebounceOver, DeadlineOver, Awake, WaitFails,
             Waits
    <3> QED
      BY <1>2, <2>1, <3>1, <3>2 DEF WaitMoves, WaitStep
  <2>2. CASE p # q
    <3>1. wait'[q] = wait[q] \/ wait'[q] = Notified(wait)[q]
      <4>1. CASE WaitFor(p)
        BY <1>0, <2>2, <4>1 DEF WaitFor
      <4>2. CASE WaitFails(p) \/ Return(p)
        BY <1>0, <2>2, <4>2 DEF WaitFails, Return, Over
      <4>3. CASE Wake(p) \/ DebounceOver(p) \/ DeadlineOver(p)
        BY <1>0, <2>2, <4>3 DEF Wake, DebounceOver, DeadlineOver, Awake
      <4>4. CASE Decide(p)
        BY <1>0, <2>2, <4>4, Zenon DEF Decide, Claim, Over, Sleep
      <4> QED
        BY <1>2, <4>1, <4>2, <4>3, <4>4 DEF WaitMoves, WaitStep
    <3> QED
      BY <1>0, <3>1 DEF Waits
  <2> QED
    BY <2>1, <2>2
<1>3. ASSUME NEW t \in Task, TaskMoves(t)
      PROVE  wait' = wait \/ wait' = Notified(wait)
  BY <1>3 DEF TaskMoves, TaskStep, Discard, Launch, ChildEnds, Receive,
              Complete, Insert, CancelUpdate, DeleteChild, NotifyWaiters,
              parent
<1>4. ASSUME NEW p \in Turn, NEW t \in Task, Register(p, t)
      PROVE  wait' = Notified(wait)
  BY <1>4 DEF Register, NotifyWaiters
<1>5. ASSUME NEW p \in Turn, NEW t \in Task, Reconcile(p, t)
      PROVE  wait' = wait
  BY <1>5 DEF Reconcile, parent
<1>6. ASSUME NEW p \in Turn, Rollback(p)
      PROVE  wait' = Notified(wait)
  BY <1>6 DEF Rollback, NotifyWaiters
<1>7. CASE Cancel \/ CancelNotify \/ UNCHANGED vars
  BY <1>1, <1>7 DEF Cancel, CancelNotify, NotifyWaiters, vars, parent
<1> QED
  BY <1>1, <1>2, <1>3, <1>4, <1>5, <1>6, <1>7
     DEF Next, TaskMoves, WaitMoves

(* A sequence that was appended to is not empty.                            *)
LEMMA AppendIsNotEmpty ==
  ASSUME NEW S, NEW seq \in Seq(S), NEW s
  PROVE  Append(seq, s) # <<>>
<1>1. seq \in Seq(S \cup {s}) /\ s \in S \cup {s}
  OBVIOUS
<1>2. Len(Append(seq, s)) = Len(seq) + 1 /\ Len(seq) \in Nat
  BY <1>1
<1> QED
  BY <1>2

(* What a turn was told stays told until the turn is rolled back, and cuts  *)
(* are remembered.                                                          *)
LEMMA ToldIsKept ==
  ASSUME Types, [Next]_vars, NEW t \in Task, NEW p \in Turn,
         \A q \in Turn : ~Rollback(q)
  PROVE  /\ Told(t, p) => Told(t, p)'
         /\ cut \subseteq cut'
<1>1. CASE UNCHANGED <<told, cut>>
  BY <1>1 DEF Told
<1>2. ASSUME NEW q \in Turn, Return(q)
      PROVE  (Told(t, p) => Told(t, p)') /\ cut \subseteq cut'
  <2> DEFINE s == (CHOOSE x \in wait[q].found : x.task = t).status
  <2>1. told'[t] = told[t] \/ told'[t] = [told[t] EXCEPT ![q] = Append(@, s)]
    BY <1>2 DEF Return
  <2> HIDE DEF s
  <2>2. told[t] \in [Turn -> Seq(Terminal)]
    BY DEF Types, TypeOK
  <2>3. told'[t][p] = told[t][p] \/ told'[t][p] = Append(told[t][p], s)
    BY <2>1, <2>2
  <2>4. Append(told[t][p], s) # <<>>
    BY <2>2, AppendIsNotEmpty
  <2> QED
    BY <1>2, <2>3, <2>4 DEF Return, Told
<1>3. CASE Crash
  BY <1>3 DEF Crash, Told
<1>4. ASSUME NEW u \in Task, TaskMoves(u) PROVE UNCHANGED <<told, cut>>
  BY <1>4 DEF TaskMoves, TaskStep, Discard, Launch, ChildEnds, Receive,
              Complete, Insert, CancelUpdate, DeleteChild, parent, history
<1>5. ASSUME NEW q \in Turn, WaitMoves(q), ~Return(q)
      PROVE  UNCHANGED <<told, cut>>
  BY <1>5 DEF WaitMoves, WaitStep, WaitFor, Decide, Wake, DebounceOver,
              DeadlineOver, Awake, WaitFails, history
<1>6. ASSUME NEW q \in Turn, NEW u \in Task,
             Register(q, u) \/ Reconcile(q, u)
      PROVE  UNCHANGED <<told, cut>>
  BY <1>6 DEF Register, Reconcile, parent, history
<1>7. CASE Cancel \/ CancelNotify \/ UNCHANGED vars
  BY <1>1, <1>7 DEF Cancel, CancelNotify, vars, parent, history
<1> QED
  BY <1>1, <1>2, <1>3, <1>4, <1>5, <1>6, <1>7
     DEF Next, TaskMoves, WaitMoves

(* A delivery is recorded by a claim only.                                  *)
LEMMA DeliveredByClaim ==
  ASSUME Types, [Next]_vars, NEW t \in Task, NEW p \in Turn,
         row'[t].delivered = p
  PROVE  row[t].delivered = p \/ Returning(t, p)'
<1>0. NoTurn \notin Turn /\ NoRow.delivered = NoTurn
  BY DEF NoTurn, Turn, NoRow
<1>t. row \in [Task -> Row \cup {NoRow}]
  BY DEF Types, TypeOK
<1>1. Quiet => row[t].delivered = p
  BY <1>0 DEF Quiet
<1>2. ASSUME NEW u \in Task, TaskMoves(u)
      PROVE  row[t].delivered = p
  BY <1>1, <1>2, TaskMovesQuiet
<1>3. ASSUME NEW q \in Turn, WaitMoves(q)
      PROVE  row[t].delivered = p \/ Returning(t, p)'
  <2>1. CASE Return(q)
    BY <2>1 DEF Return, store
  <2>2. ASSUME NEW claimed \in SUBSET wait[q].found, Claims(q, claimed)
        PROVE  row[t].delivered = p \/ Returning(t, p)'
    <3>1. CASE ~\E o \in claimed : o.task = t
      BY <2>2, <3>1 DEF Claims
    <3>2. CASE \E o \in claimed : o.task = t
      <4>1. Ended(t)
        BY <2>2, <3>2 DEF Claims, Claimable
      <4>2. row[t] \in Row
        BY <4>1 DEF Ended, Types, TypeOK, NoRow, Terminal
      <4>3. row'[t].delivered = q
        BY <2>2, <3>2, <4>2 DEF Claims, Row
      <4>4. wait'[q].pc = "return" /\ wait'[q].found = claimed
        BY <2>2 DEF Claims, Idle, Types, TypeOK
      <4> QED
        BY <3>2, <4>3, <4>4 DEF Returning, Waits
    <3> QED
      BY <3>1, <3>2
  <2> QED
    BY <1>1, <1>3, <2>1, <2>2, WaitMovesQuiet
<1>4. ASSUME NEW q \in Turn, NEW u \in Task, Register(q, u)
      PROVE  row[t].delivered = p
  <2>1. row' = [row EXCEPT ![u] = [status |-> "running", owner |-> process,
                                   by |-> q, delivered |-> NoTurn]]
    BY <1>4 DEF Register
  <2> QED
    BY <1>0, <2>1 DEF Types, TypeOK
<1>5. ASSUME NEW q \in Turn, NEW u \in Task, Reconcile(q, u)
      PROVE  row[t].delivered = p
  <2>1. PICK status \in Terminal : row' = Recorded(u, status)
    BY <1>5 DEF Reconcile, Terminal
  <2> QED
    BY <1>t, <2>1, RecordedOnlyStatus
<1>6. ASSUME NEW q \in Turn, Rollback(q)
      PROVE  row[t].delivered = p
  <2>1. PICK turns \in SUBSET Turn : row' = RolledBack(turns)
    BY <1>6 DEF Rollback
  <2> QED
    BY <1>t, <1>0, <2>1, RolledBackRows
<1>7. CASE Crash \/ Cancel \/ CancelNotify \/ UNCHANGED vars
  BY <1>7 DEF Crash, Cancel, CancelNotify, vars, store
<1> QED
  BY <1>2, <1>3, <1>4, <1>5, <1>6, <1>7 DEF Next, TaskMoves, WaitMoves

(* Every step keeps delivered rows told.                                    *)
LEMMA StepIsTold == Types /\ DeliveredIsTold /\ [Next]_vars => DeliveredIsTold'
<1> SUFFICES ASSUME Types, DeliveredIsTold, [Next]_vars,
                    NEW t \in Task, NEW p \in Turn, row'[t].delivered = p
             PROVE  (Told(t, p) \/ Returning(t, p) \/ <<t, p>> \in cut)'
  BY DEF DeliveredIsTold, Told, Returning
<1>1. CASE Returning(t, p)'
  BY <1>1
<1>2. CASE row[t].delivered = p
  <2>1. Told(t, p) \/ Returning(t, p) \/ <<t, p>> \in cut
    BY <1>2 DEF DeliveredIsTold, Told, Returning
  <2>2. ASSUME NEW q \in Turn, Rollback(q)
        PROVE  (Told(t, p) \/ Returning(t, p) \/ <<t, p>> \in cut)'
    <3> DEFINE turns == {x \in Turn \ discarded : x >= q}
    <3>1. p \notin turns
      <4>1. row' = RolledBack(turns) /\ row \in [Task -> Row \cup {NoRow}]
        BY <2>2 DEF Rollback, Types, TypeOK
      <4>2. row'[t] # NoRow /\ p # NoTurn
        BY DEF NoRow, NoTurn, Turn
      <4> HIDE DEF turns
      <4>3. turns \in SUBSET Turn
        BY DEF turns
      <4>4. row'[t].delivered = IF row[t].delivered \in turns THEN NoTurn
                                ELSE row[t].delivered
        BY <4>1, <4>2, <4>3, RolledBackRows
      <4> QED
        BY <1>2, <4>2, <4>4
    <3>2. told'[t][p] = told[t][p] /\ cut' = cut
      BY <2>2, <3>1 DEF Rollback
    <3>3. ~Return(p) /\ ~Crash
      <4>1. wait' = Notified(wait)
        BY <2>2 DEF Rollback, NotifyWaiters
      <4>2. discarded' # discarded
        BY <2>2 DEF Rollback
      <4> QED
        BY <4>2 DEF Return, Crash
    <3>4. Returning(t, p) => Returning(t, p)'
      BY <3>3, ClaimsAreKept DEF Returning, Waits
    <3> QED
      BY <2>1, <3>2, <3>4 DEF Told
  <2>3. CASE \A q \in Turn : ~Rollback(q)
    <3>1. (Told(t, p) => Told(t, p)') /\ cut \subseteq cut'
      BY <2>3, ToldIsKept
    <3>2. CASE Returning(t, p) /\ Crash
      <4>1. <<t, p>> \in cut'
        BY <3>2 DEF Crash, Returning
      <4> QED
        BY <4>1
    <3>3. CASE Returning(t, p) /\ Return(p)
      <4> DEFINE s == (CHOOSE x \in wait[p].found : x.task = t).status
      <4>1. told'[t] = [told[t] EXCEPT ![p] = Append(@, s)]
        BY <3>3 DEF Return, Returning
      <4> HIDE DEF s
      <4>2. told[t] \in [Turn -> Seq(Terminal)]
        BY DEF Types, TypeOK
      <4>3. told'[t][p] = Append(told[t][p], s)
        BY <4>1, <4>2
      <4> QED
        BY <4>2, <4>3, AppendIsNotEmpty DEF Told
    <3>4. CASE Returning(t, p) /\ ~Crash /\ ~Return(p)
      BY <3>4, ClaimsAreKept DEF Returning, Waits
    <3> QED
      BY <2>1, <3>1, <3>2, <3>3, <3>4
  <2> QED
    BY <2>2, <2>3
<1> QED
  BY <1>1, <1>2, DeliveredByClaim

(* A turn that a row names was told, or is about to be, or a crash came     *)
(* between claim_terminal_tasks and the return of the wait: a rollback      *)
(* undelivers what it takes out of the conversation                         *)
(* (rollback_parent_turns), and nothing else undoes a report.               *)
THEOREM DeliveriesWereTold == Spec => []DeliveredIsTold
<1>1. Init => DeliveredIsTold
  BY DEF Init, DeliveredIsTold, NoRow, NoTurn, Turn
<1> QED
  BY <1>1, InitTypes, StepTypes, StepIsTold, PTL DEF Spec

-----------------------------------------------------------------------------
(* What was told is what the row says *)

(* The row of t, if there is still one, ended with this status.             *)
Agreed(t, status) ==
  task[t] # "none" /\ (row[t] # NoRow => row[t].status = status)

(* What is known before a task has a row, and when its outcome is put up.   *)
Stages ==
  \A t \in Task :
    /\ task[t] = "none" => row[t] = NoRow
    /\ task[t] \in {"none", "starting"} =>
         child[t] = "none" /\ control[t] = "down"
    /\ row[t] # NoRow /\ row[t].owner # process => task[t] = "dead"
    /\ task[t] = "inserting" => Agreed(t, result[t])

(* Wherever a status is, in memory or in the conversation, it is that of    *)
(* the row.                                                                 *)
OneStatus ==
  /\ \A t \in Task : live[t] # "none" => Agreed(t, live[t])
  /\ \A p \in Turn : \A o \in wait[p].found : Agreed(o.task, o.status)
  /\ \A t \in Task, p \in Turn : \A i \in 1..Len(told[t][p]) :
       Agreed(t, told[t][p][i])

(* Once a status is agreed on, it stays.                                    *)
LEMMA AgreedIsStable ==
  ASSUME Types, [Next]_vars, NEW t \in Task, NEW status \in Terminal,
         Agreed(t, status)
  PROVE  Agreed(t, status)'
<1>1. task[t] # "none" /\ (row[t] # NoRow => Ended(t))
  BY DEF Agreed, Ended
<1> QED
  BY <1>1, RowsAreFinal DEF Agreed

(* A row appears only by start_background, and is then of this process.     *)
LEMMA RowsAreRegistered ==
  ASSUME Types, Stages, [Next]_vars, NEW u \in Task, task[u] = "none"
  PROVE  \/ task'[u] = "none" /\ row'[u] = NoRow
         \/ \E p \in Turn : Register(p, u)
<1>0. row[u] = NoRow /\ row \in [Task -> Row \cup {NoRow}]
  BY DEF Stages, Types, TypeOK
<1>1. Quiet => row'[u] = NoRow
  BY <1>0 DEF Quiet
<1>2. ASSUME NEW t \in Task, TaskMoves(t)
      PROVE  task'[u] = "none" /\ row'[u] = NoRow
  <2>1. t = u => DeleteChild(u) \/ CancelUpdate(u)
    BY <1>2 DEF TaskMoves, TaskStep, Discard, Launch, ChildEnds, Receive,
                Complete, Insert, Stages
  <2>2. ~DeleteChild(u)
    BY <1>0 DEF DeleteChild
  <2>3. t # u \/ CancelUpdate(t) => task'[u] = task[u]
    BY <1>2 DEF TaskMoves, TaskStep, Discard, Launch, ChildEnds, Receive,
                Complete, Insert, CancelUpdate, DeleteChild, Leave, watch,
                Types, TypeOK
  <2> QED
    BY <1>1, <1>2, <2>1, <2>2, <2>3, TaskMovesQuiet
<1>3. ASSUME NEW p \in Turn, WaitMoves(p)
      PROVE  task'[u] = "none" /\ row'[u] = NoRow
  <2>1. NoRow \notin Row
    BY DEF Row, NoRow, Terminal
  <2>2. \/ row'[u] = row[u]
        \/ row[u] \in Row /\ row'[u] = [row[u] EXCEPT !.delivered = p]
    BY <1>3, WaitMovesRows, Zenon
  <2>3. task' = task
    BY <1>3, WaitMovesRows DEF watch
  <2> QED
    BY <1>0, <2>1, <2>2, <2>3
<1>4. ASSUME NEW p \in Turn, NEW t \in Task, Register(p, t), t # u
      PROVE  task'[u] = "none" /\ row'[u] = NoRow
  BY <1>0, <1>4 DEF Register, Types, TypeOK
<1>5. ASSUME NEW p \in Turn, NEW t \in Task, Reconcile(p, t)
      PROVE  task'[u] = "none" /\ row'[u] = NoRow
  <2>1. PICK status \in Terminal : row' = Recorded(t, status)
    BY <1>5 DEF Reconcile, Terminal
  <2>2. task' = task
    BY <1>5 DEF Reconcile, watch
  <2> QED
    BY <1>0, <2>1, <2>2, RecordedRow
<1>6. ASSUME NEW p \in Turn, Rollback(p)
      PROVE  task'[u] = "none" /\ row'[u] = NoRow
  <2>1. PICK turns \in SUBSET Turn : row' = RolledBack(turns)
    BY <1>6 DEF Rollback
  <2>2. task' = task
    BY <1>6 DEF Rollback, watch
  <2> QED
    BY <1>0, <2>1, <2>2, RolledBackRows
<1>7. CASE Crash \/ Cancel \/ CancelNotify \/ UNCHANGED vars
  BY <1>0, <1>7 DEF Crash, Cancel, CancelNotify, vars, store, watch
<1> QED
  BY <1>2, <1>3, <1>4, <1>5, <1>6, <1>7 DEF Next, TaskMoves, WaitMoves

(* The watcher's part of a task, its subagent and its control move by steps *)
(* of their own.                                                            *)
OwnStep(u) ==
  \/ Discard(u) \/ Launch(u) \/ ChildEnds(u) \/ Receive(u) \/ Complete(u)
  \/ Insert(u) \/ \E p \in Turn : Register(p, u)

(* A task changes only by its own steps, a cancellation or a crash.         *)
LEMMA OwnSteps ==
  ASSUME Types, [Next]_vars, ~Crash, ~Cancel, NEW u \in Task, ~OwnStep(u)
  PROVE  /\ task'[u] = task[u] /\ result'[u] = result[u]
         /\ child'[u] = child[u] /\ control'[u] = control[u]
<1>1. ASSUME NEW t \in Task, TaskMoves(t)
      PROVE  /\ task'[u] = task[u] /\ result'[u] = result[u]
             /\ child'[u] = child[u] /\ control'[u] = control[u]
  <2>1. CASE Discard(t) \/ Launch(t) \/ ChildEnds(t)
    BY <2>1 DEF OwnStep, Discard, Launch, ChildEnds, Types, TypeOK
  <2>2. CASE Receive(t)
    BY <2>2 DEF OwnStep, Receive, Leave, Types, TypeOK
  <2>3. CASE Complete(t)
    BY <2>3 DEF OwnStep, Complete, Leave, Types, TypeOK
  <2>4. CASE Insert(t)
    BY <2>4 DEF OwnStep, Insert, Leave, Types, TypeOK
  <2>5. CASE CancelUpdate(t) \/ DeleteChild(t)
    BY <2>5 DEF CancelUpdate, DeleteChild, watch
  <2> QED
    BY <1>1, <2>1, <2>2, <2>3, <2>4, <2>5 DEF TaskMoves, TaskStep
<1>2. ASSUME NEW p \in Turn, WaitMoves(p) PROVE UNCHANGED watch
  BY <1>2, WaitMovesRows
<1>3. ASSUME NEW p \in Turn, NEW t \in Task, Register(p, t)
      PROVE  /\ task'[u] = task[u] /\ result'[u] = result[u]
             /\ child'[u] = child[u] /\ control'[u] = control[u]
  BY <1>3 DEF Register, OwnStep, Types, TypeOK
<1>4. ASSUME NEW p \in Turn, NEW t \in Task, Reconcile(p, t)
      PROVE  UNCHANGED watch
  BY <1>4 DEF Reconcile
<1>5. ASSUME NEW p \in Turn, Rollback(p) PROVE UNCHANGED watch
  BY <1>5 DEF Rollback
<1>6. CASE CancelNotify \/ UNCHANGED vars
  BY <1>6 DEF CancelNotify, vars, watch
<1> QED
  BY <1>1, <1>2, <1>3, <1>4, <1>5, <1>6
     DEF Next, TaskMoves, WaitMoves, watch

(* A process ends only by a crash.                                          *)
LEMMA OnlyCrashEnds ==
  ASSUME Types, [Next]_vars, ~Crash
  PROVE  process' = process
<1>1. ASSUME NEW t \in Task, TaskMoves(t) PROVE process' = process
  BY <1>1 DEF TaskMoves, TaskStep, Discard, Launch, ChildEnds, Receive,
              Complete, Insert, CancelUpdate, DeleteChild
<1>2. ASSUME NEW p \in Turn, WaitMoves(p) PROVE process' = process
  BY <1>2, WaitMovesRows
<1>3. ASSUME NEW p \in Turn, NEW t \in Task,
             Register(p, t) \/ Reconcile(p, t) \/ Rollback(p)
      PROVE  process' = process
  BY <1>3 DEF Register, Reconcile, Rollback
<1>4. ASSUME NEW p \in Turn, Rollback(p) PROVE process' = process
  BY <1>4 DEF Rollback
<1>5. CASE Cancel \/ CancelNotify \/ UNCHANGED vars
  BY <1>5 DEF Cancel, CancelNotify, vars
<1> QED
  BY <1>1, <1>2, <1>3, <1>4, <1>5 DEF Next, TaskMoves, WaitMoves

(* Every step keeps the stages of the tasks.                                *)
LEMMA StepStages == Types /\ Stages /\ [Next]_vars => Stages'
<1> SUFFICES ASSUME Types, Stages, [Next]_vars, NEW u \in Task
             PROVE  /\ task'[u] = "none" => row'[u] = NoRow
                    /\ task'[u] \in {"none", "starting"} =>
                         child'[u] = "none" /\ control'[u] = "down"
                    /\ row'[u] # NoRow /\ row'[u].owner # process' =>
                         task'[u] = "dead"
                    /\ task'[u] = "inserting" => Agreed(u, result[u])'
  BY DEF Stages, Agreed
<1>0. /\ row \in [Task -> Row \cup {NoRow}]
      /\ task[u] # "none" =>
           /\ task'[u] # "none"
           /\ row'[u] # NoRow => /\ row[u] # NoRow
                                 /\ row'[u].owner = row[u].owner
  BY RowsAreFinal DEF Types, TypeOK
<1>1. task'[u] = "none" => row'[u] = NoRow
  <2>1. ASSUME NEW p \in Turn, Register(p, u)
        PROVE  task'[u] = "starting"
    BY <2>1 DEF Register, Types, TypeOK
  <2> QED
    BY <1>0, <2>1, RowsAreRegistered
<1>2. CASE Crash
  BY <1>0, <1>1, <1>2, RowsAreRegistered
     DEF Crash, Types, TypeOK, Stages, Register
<1>3. CASE Cancel
  <2>1. UNCHANGED <<process, row, task, result, child>>
    BY <1>3 DEF Cancel, store
  <2>2. task[u] \in {"none", "starting"} => control'[u] = "down"
    BY <1>3 DEF Cancel, ClaimControls, Stages
  <2> QED
    BY <2>1, <2>2 DEF Stages, Agreed
<1>4. CASE OwnStep(u)
  <2>1. ASSUME NEW p \in Turn, Register(p, u)
        PROVE  /\ task'[u] = "starting" /\ row'[u].owner = process'
               /\ child'[u] = "none" /\ control'[u] = "down"
    BY <1>0, <2>1 DEF Register, Stages, Types, TypeOK
  <2>2. CASE Discard(u)
    BY <1>1, <2>2 DEF Discard, Types, TypeOK
  <2>3. CASE Launch(u)
    BY <1>0, <1>1, <2>3 DEF Launch, Types, TypeOK, store, Stages
  <2>4. CASE ChildEnds(u)
    BY <1>0, <1>1, <2>4 DEF ChildEnds, Types, TypeOK, store, Stages, Agreed
  <2>5. CASE Receive(u)
    <3>1. task'[u] \in {"done", "completing"} /\ UNCHANGED <<process, row>>
      BY <2>5 DEF Receive, Leave, Types, TypeOK, store
    <3>2. task[u] = "running"
      BY <2>5 DEF Receive
    <3> QED
      BY <1>1, <3>1, <3>2 DEF Stages
  <2>6. CASE Complete(u)
    <3>1. task'[u] \in {"done", "inserting"} /\ process' = process
      BY <2>6 DEF Complete, Leave, Types, TypeOK
    <3>2. task[u] = "completing"
      BY <2>6 DEF Complete
    <3>3. task'[u] = "inserting" =>
            /\ Running(u) /\ row' = Recorded(u, result[u])
            /\ result' = result
      BY <2>6 DEF Complete, Leave, Types, TypeOK
    <3>4. result[u] \in Terminal
      BY <2>6 DEF Complete, Types, TypeOK, ResultsAreReceived
    <3>5. task'[u] = "inserting" => row'[u].status = result'[u]
      BY <1>0, <3>3, <3>4, RecordedRow
    <3> QED
      BY <1>0, <1>1, <3>1, <3>2, <3>5 DEF Stages, Agreed
  <2>7. CASE Insert(u)
    <3>1. task'[u] = "done" /\ UNCHANGED <<process, row>>
      BY <2>7 DEF Insert, Leave, Types, TypeOK
    <3>2. task[u] = "inserting"
      BY <2>7 DEF Insert
    <3> QED
      BY <1>1, <3>1, <3>2 DEF Stages
  <2> QED
    BY <1>1, <1>4, <2>1, <2>2, <2>3, <2>4, <2>5, <2>6, <2>7 DEF OwnStep
<1>5. CASE ~Crash /\ ~Cancel /\ ~OwnStep(u)
  <2>1. /\ task'[u] = task[u] /\ result'[u] = result[u]
        /\ child'[u] = child[u] /\ control'[u] = control[u]
    BY <1>5, OwnSteps
  <2>2. process' = process
    BY <1>5, OnlyCrashEnds
  <2>3. task[u] = "inserting" => result[u] \in Terminal
    BY DEF Types, TypeOK, ResultsAreReceived
  <2>4. task[u] = "inserting" => Agreed(u, result[u])'
    BY <2>1, <2>3, AgreedIsStable DEF Stages, Agreed
  <2> QED
    BY <1>0, <1>1, <2>1, <2>2, <2>4 DEF Stages
<1> QED
  BY <1>2, <1>3, <1>4, <1>5

(* What a wait finds, it found before or finds now in the rows.             *)
LEMMA FoundInRows ==
  ASSUME Types, [Next]_vars, NEW q \in Turn
  PROVE  wait'[q].found \subseteq wait[q].found \cup Available(Task)
<1>0. /\ wait \in [Turn -> WaitState]
      /\ Notified(wait) \in [Turn -> WaitState]
      /\ Notified(wait)[q].found = wait[q].found
  BY NotifiedOnlyHears, ZenonT(30) DEF Types, TypeOK, WaitState
<1>1. CASE wait' = wait \/ wait' = Notified(wait)
  BY <1>0, <1>1
<1>2. ASSUME NEW p \in Turn, WaitMoves(p)
      PROVE  wait'[q].found \subseteq wait[q].found \cup Available(Task)
  <2>1. ASSUME NEW w \in WaitState, NEW due, NEW debounce
        PROVE  Looks(w, due, debounce).found \subseteq Available(Task)
    BY <2>1 DEF Looks, Available, WaitState
  <2>2. Idle.found = {}
    BY DEF Idle
  <2>3. CASE WaitFor(p)
    <3>1. PICK selected \in SUBSET Task, any \in BOOLEAN :
            wait' = [Notified(wait) EXCEPT ![p] =
                       Looks([Idle EXCEPT !.any = any,
                                          !.selected = selected],
                             "no", FALSE)]
      BY <2>3 DEF WaitFor
    <3>2. [Idle EXCEPT !.any = any, !.selected = selected] \in WaitState
      BY DEF Idle, WaitState
    <3> QED
      BY <1>0, <2>1, <3>1, <3>2
  <2>4. CASE WaitFails(p) \/ Return(p)
    BY <1>0, <2>2, <2>4 DEF WaitFails, Return, Over
  <2>5. CASE Wake(p) \/ DebounceOver(p) \/ DeadlineOver(p)
    BY <1>0, <2>1, <2>5 DEF Wake, DebounceOver, DeadlineOver, Awake
  <2>6. CASE Decide(p)
    <3> DEFINE claimed == {o \in wait[p].found : Claimable(o.task)}
    <3>1. CASE Claim(p) /\ claimed # {}
      <4>1. wait' = [wait EXCEPT ![p] = [Idle EXCEPT !.pc = "return",
                                                     !.found = claimed]]
        BY <3>1 DEF Claim
      <4>2. [Idle EXCEPT !.pc = "return", !.found = claimed].found = claimed
        BY DEF Idle
      <4> QED
        BY <1>0, <4>1, <4>2
    <3>2. CASE Claim(p) /\ claimed = {}
      <4>1. PICK due : wait' = [wait EXCEPT ![p] =
                                  Looks(wait[p], due, FALSE)]
        BY <3>2 DEF Claim
      <4> QED
        BY <1>0, <2>1, <4>1
    <3>3. CASE wait' = Over(p)
      BY <1>0, <2>2, <3>3 DEF Over
    <3>4. CASE Sleep(p)
      <4>1. PICK b : wait' = [wait EXCEPT ![p] =
                               [@ EXCEPT !.pc = "sleep", !.found = {},
                                         !.pending = FALSE, !.debounce = b]]
        BY <3>4, Zenon DEF Sleep
      <4>2. [wait[p] EXCEPT !.pc = "sleep", !.found = {}, !.pending = FALSE,
                            !.debounce = b].found = {}
        BY <1>0 DEF WaitState
      <4> QED
        BY <1>0, <4>1, <4>2
    <3> QED
      BY <2>6, <3>1, <3>2, <3>3, <3>4 DEF Decide
  <2> QED
    BY <1>2, <2>3, <2>4, <2>5, <2>6 DEF WaitMoves, WaitStep
<1>3. ASSUME NEW t \in Task, TaskMoves(t)
      PROVE  wait' = wait \/ wait' = Notified(wait)
  BY <1>3 DEF TaskMoves, TaskStep, Discard, Launch, ChildEnds, Receive,
              Complete, Insert, CancelUpdate, DeleteChild, NotifyWaiters,
              parent
<1>4. ASSUME NEW p \in Turn, NEW t \in Task, Register(p, t)
      PROVE  wait' = Notified(wait)
  BY <1>4 DEF Register, NotifyWaiters
<1>5. ASSUME NEW p \in Turn, NEW t \in Task, Reconcile(p, t)
      PROVE  wait' = wait
  BY <1>5 DEF Reconcile, parent
<1>6. ASSUME NEW p \in Turn, Rollback(p)
      PROVE  wait' = Notified(wait)
  BY <1>6 DEF Rollback, NotifyWaiters
<1>7. CASE Crash
  BY <1>7 DEF Crash, Idle
<1>8. CASE Cancel \/ CancelNotify \/ UNCHANGED vars
  BY <1>1, <1>8 DEF Cancel, CancelNotify, NotifyWaiters, vars, parent
<1> QED
  BY <1>1, <1>2, <1>3, <1>4, <1>5, <1>6, <1>7, <1>8
     DEF Next, TaskMoves, WaitMoves

(* A live result is put up by the watcher that recorded it, or by the       *)
(* canceller with its statement.                                            *)
LEMMA LiveIsAgreed ==
  ASSUME Types, Stages, OneStatus, [Next]_vars, NEW t \in Task,
         live'[t] # "none"
  PROVE  Agreed(t, live[t])'
<1>1. CASE live'[t] = live[t]
  <2>1. live[t] \in Terminal /\ Agreed(t, live[t])
    BY <1>1 DEF Types, TypeOK, OneStatus
  <2> QED
    BY <1>1, <2>1, AgreedIsStable DEF Agreed
<1>2. CASE Insert(t)
  <2>1. live'[t] = result[t] /\ result[t] \in Terminal
    BY <1>2 DEF Insert, Types, TypeOK, ResultsAreReceived
  <2>2. Agreed(t, result[t])
    BY <1>2 DEF Insert, Stages
  <2> QED
    BY <2>1, <2>2, AgreedIsStable DEF Agreed
<1>3. CASE CancelUpdate(t) /\ live'[t] # live[t]
  <2>1. /\ Running(t) /\ live'[t] = "cancelled" /\ task' = task
        /\ row' = Recorded(t, "cancelled")
    BY <1>3 DEF CancelUpdate, store, Types, TypeOK
  <2>2. task[t] # "none"
    BY <2>1 DEF Stages, Running, NoRow
  <2>3. row'[t].status = "cancelled"
    BY <2>1, RecordedRow DEF Types, TypeOK, Terminal
  <2> QED
    BY <2>1, <2>2, <2>3 DEF Agreed
<1>4. ASSUME NEW u \in Task, TaskMoves(u)
      PROVE  live'[t] = live[t] \/ Insert(t) \/ CancelUpdate(t)
  BY <1>4 DEF TaskMoves, TaskStep, Discard, Launch, ChildEnds, Receive,
              Complete, Insert, CancelUpdate, DeleteChild, store,
              Types, TypeOK
<1>5. ASSUME NEW p \in Turn, WaitMoves(p) PROVE live' = live
  BY <1>5, WaitMovesRows
<1>6. ASSUME NEW p \in Turn, NEW u \in Task,
             Register(p, u) \/ Reconcile(p, u)
      PROVE  live' = live
  BY <1>6 DEF Register, Reconcile
<1>7. ASSUME NEW p \in Turn, Rollback(p) PROVE live'[t] = live[t]
  BY <1>7 DEF Rollback
<1>8. ~Crash
  BY DEF Crash
<1>9. CASE Cancel \/ CancelNotify \/ UNCHANGED vars
  BY <1>1, <1>9 DEF Cancel, CancelNotify, vars, store
<1> QED
  BY <1>1, <1>2, <1>3, <1>4, <1>5, <1>6, <1>7, <1>8, <1>9
     DEF Next, TaskMoves, WaitMoves

(* The elements of a sequence that was appended to.                         *)
LEMMA AppendElements ==
  ASSUME NEW S, NEW seq \in Seq(S), NEW s \in S,
         NEW i \in 1..Len(Append(seq, s))
  PROVE  \/ Append(seq, s)[i] = s
         \/ i \in 1..Len(seq) /\ Append(seq, s)[i] = seq[i]
  OBVIOUS

(* A report is one of those before, or of what the wait found.              *)
LEMMA ToldIsAgreed ==
  ASSUME Types, OneStatus, [Next]_vars, NEW t \in Task, NEW p \in Turn,
         NEW i \in 1..Len(told'[t][p])
  PROVE  Agreed(t, told'[t][p][i]) /\ told'[t][p][i] \in Terminal
<1>0. told[t] \in [Turn -> Seq(Terminal)]
  BY DEF Types, TypeOK
<1>1. CASE told'[t][p] = told[t][p]
  BY <1>0, <1>1 DEF OneStatus
<1>2. ASSUME NEW q \in Turn, Return(q)
      PROVE  Agreed(t, told'[t][p][i]) /\ told'[t][p][i] \in Terminal
  <2> DEFINE o == CHOOSE x \in wait[q].found : x.task = t
  <2>1. CASE /\ \E x \in wait[q].found : x.task = t
             /\ p = q
    <3>1. o \in wait[q].found /\ o.task = t
      BY <2>1
    <3>2. o.status \in Terminal /\ Agreed(t, o.status)
      BY <3>1 DEF Types, TypeOK, OneStatus
    <3>3. told'[t] = [told[t] EXCEPT ![q] = Append(@, o.status)]
      BY <1>2, <2>1 DEF Return
    <3> HIDE DEF o
    <3>4. told'[t][p] = Append(told[t][p], o.status)
      BY <1>0, <2>1, <3>3
    <3>5. \/ told'[t][p][i] = o.status
          \/ i \in 1..Len(told[t][p]) /\ told'[t][p][i] = told[t][p][i]
      <4>1. told[t][p] \in Seq(Terminal)
        BY <1>0
      <4>2. i \in 1..Len(Append(told[t][p], o.status))
        BY <3>4, Zenon
      <4>3. \/ Append(told[t][p], o.status)[i] = o.status
            \/ /\ i \in 1..Len(told[t][p])
               /\ Append(told[t][p], o.status)[i] = told[t][p][i]
        BY <3>2, <4>1, <4>2, AppendElements
      <4>4. told'[t][p][i] = Append(told[t][p], o.status)[i]
        BY <3>4, Zenon
      <4> QED
        BY <4>3, <4>4, Zenon
    <3> QED
      BY <1>0, <3>2, <3>5 DEF OneStatus
  <2>2. CASE ~(/\ \E x \in wait[q].found : x.task = t
               /\ p = q)
    <3> DEFINE s == o.status
    <3>1. told'[t] = told[t] \/ (p # q /\ told'[t] =
                                   [told[t] EXCEPT ![q] = Append(@, s)])
      BY <1>2, <2>2 DEF Return
    <3> HIDE DEF s
    <3> QED
      BY <1>0, <1>1, <3>1
  <2> QED
    BY <2>1, <2>2
<1>3. ASSUME NEW u \in Task, TaskMoves(u) PROVE told' = told
  BY <1>3, TaskMovesQuiet DEF Quiet
<1>4. ASSUME NEW q \in Turn, WaitMoves(q), ~Return(q) PROVE told' = told
  BY <1>4 DEF WaitMoves, WaitStep, WaitFor, Decide, Wake, DebounceOver,
              DeadlineOver, Awake, WaitFails, history
<1>5. ASSUME NEW q \in Turn, NEW u \in Task,
             Register(q, u) \/ Reconcile(q, u)
      PROVE  told' = told
  BY <1>5 DEF Register, Reconcile, parent, history
<1>6. ASSUME NEW q \in Turn, Rollback(q) PROVE told'[t][p] = told[t][p]
  <2>1. told'[t][p] = <<>> \/ told'[t][p] = told[t][p]
    BY <1>6 DEF Rollback
  <2>2. told'[t][p] # <<>>
    OBVIOUS
  <2> QED
    BY <2>1, <2>2
<1>7. CASE Crash \/ Cancel \/ CancelNotify \/ UNCHANGED vars
  BY <1>1, <1>7 DEF Crash, Cancel, CancelNotify, vars, parent, history
<1> QED
  BY <1>1, <1>2, <1>3, <1>4, <1>5, <1>6, <1>7
     DEF Next, TaskMoves, WaitMoves

(* Every step keeps one status per task.                                    *)
LEMMA StepOneStatus ==
  Types /\ Stages /\ OneStatus /\ [Next]_vars => OneStatus'
<1> SUFFICES ASSUME Types, Stages, OneStatus, [Next]_vars PROVE OneStatus'
  OBVIOUS
<1>1. ASSUME NEW t \in Task, live'[t] # "none"
      PROVE  Agreed(t, live[t])'
  BY <1>1, LiveIsAgreed
<1>2. ASSUME NEW p \in Turn, NEW o \in wait'[p].found
      PROVE  Agreed(o.task, o.status)'
  <2>1. o.task \in Task /\ o.status \in Terminal
    BY StepTypes DEF Types, TypeOK
  <2>2. CASE o \in wait[p].found
    BY <2>1, <2>2, AgreedIsStable DEF OneStatus
  <2>3. CASE o \in Available(Task)
    <3>1. PICK t \in Task : o = Outcome(t) /\ Ended(t) /\ Undelivered(t)
      BY <2>3 DEF Available
    <3>2. o.task = t /\ task[t] # "none" /\ row[t] # NoRow
      BY <3>1 DEF Outcome, Undelivered, Stages
    <3>3. Agreed(o.task, o.status)
      BY <3>1, <3>2 DEF Outcome, OneStatus, Agreed
    <3> QED
      BY <2>1, <3>3, AgreedIsStable
  <2> QED
    BY <2>2, <2>3, FoundInRows
<1>3. ASSUME NEW t \in Task, NEW p \in Turn, NEW i \in 1..Len(told'[t][p])
      PROVE  Agreed(t, told[t][p][i])'
  BY ToldIsAgreed, AgreedIsStable DEF Agreed
<1> QED
  BY <1>1, <1>2, <1>3 DEF OneStatus

(* The stages hold initially.                                               *)
LEMMA InitStages == Init => Stages /\ OneStatus
  BY DEF Init, Stages, OneStatus, Idle

(* What the parent was told of a task is what its row says: the status is   *)
(* taken from the live result of the watcher or of the canceller            *)
(* (outcome_from_record), but the first status in the row stays             *)
(* (update_task_status), and all three agree.                               *)
THEOREM ReportsAreRecorded == Spec => []ReportedIsRecorded
<1>1. OneStatus => ReportedIsRecorded
  BY DEF OneStatus, ReportedIsRecorded, Agreed
<1> QED
  BY <1>1, InitTypes, StepTypes, InitStages, StepStages, StepOneStatus,
     PTL DEF Spec

-----------------------------------------------------------------------------
(* What the row says is true *)

(* The watcher has the outcome of the subagent's turn, or cancelled it.     *)
ResultIsTheChilds ==
  \A t \in Task :
    /\ result[t] # "interrupted"
    /\ result[t] \in {"completed", "failed"} => child[t] = result[t]

(* The outcome of a turn is persisted once, and a dead process ends none.   *)
LEMMA ChildStays ==
  ASSUME Types, Stages, [Next]_vars, NEW t \in Task
  PROVE  /\ child[t] \in {"completed", "failed", "cancelled"} =>
              child'[t] = child[t]
         /\ task[t] = "dead" => task'[t] = "dead" /\ child'[t] = child[t]
<1>1. CASE Crash \/ Cancel
  BY <1>1 DEF Crash, Cancel, Types, TypeOK
<1>2. CASE OwnStep(t)
  <2>1. CASE Launch(t)
    BY <2>1 DEF Launch, Stages
  <2>2. CASE ChildEnds(t)
    BY <2>2 DEF ChildEnds
  <2>3. ASSUME NEW p \in Turn, Register(p, t)
        PROVE  task[t] # "dead" /\ child' = child
    BY <2>3 DEF Register
  <2>4. CASE Discard(t) \/ Receive(t) \/ Complete(t) \/ Insert(t)
    BY <2>4 DEF Discard, Receive, Complete, Insert
  <2> QED
    BY <1>2, <2>1, <2>2, <2>3, <2>4 DEF OwnStep
<1> QED
  BY <1>1, <1>2, OwnSteps

(* Every step keeps the live results those of the subagents.                *)
LEMMA StepResult ==
  Types /\ Stages /\ ResultIsTheChilds /\ [Next]_vars => ResultIsTheChilds'
<1> SUFFICES ASSUME Types, Stages, ResultIsTheChilds, [Next]_vars,
                    NEW t \in Task
             PROVE  /\ result'[t] # "interrupted"
                    /\ result'[t] \in {"completed", "failed"} =>
                         child'[t] = result'[t]
  BY DEF ResultIsTheChilds
<1>1. CASE result'[t] = result[t]
  BY <1>1, ChildStays DEF ResultIsTheChilds
<1>2. CASE result'[t] = "none"
  BY <1>2
<1>3. CASE Receive(t)
  BY <1>2, <1>3 DEF Receive, Leave, Types, TypeOK
<1>4. CASE Crash \/ Cancel
  BY <1>1, <1>2, <1>4 DEF Crash, Cancel
<1>5. CASE Complete(t) \/ Insert(t)
  BY <1>1, <1>2, <1>5 DEF Complete, Insert, Leave, Types, TypeOK
<1>6. ASSUME NEW p \in Turn, Register(p, t) PROVE result' = result
  BY <1>6 DEF Register
<1>7. CASE Discard(t) \/ Launch(t) \/ ChildEnds(t)
  BY <1>1, <1>7 DEF Discard, Launch, ChildEnds
<1> QED
  BY <1>1, <1>3, <1>4, <1>5, <1>6, <1>7, OwnSteps DEF OwnStep

(* The statements that change a status, and what they write.                *)
LEMMA StatusByStatement ==
  ASSUME Types, [Next]_vars, NEW t \in Task, row'[t].status # row[t].status
  PROVE  \/ row'[t].status \in {"none", "running", "cancelled"}
         \/ Complete(t) /\ row'[t].status = result[t]
         \/ \E p \in Turn : /\ Reconcile(p, t)
                            /\ row'[t].status =
                                 IF child[t] \in Terminal THEN child[t]
                                 ELSE "interrupted"
<1>0. row \in [Task -> Row \cup {NoRow}] /\ NoRow.status = "none"
  BY DEF Types, TypeOK, NoRow
<1>1. ASSUME NEW u \in Task, TaskMoves(u)
      PROVE  \/ row'[t].status \in {"none", "running", "cancelled"}
             \/ Complete(t) /\ row'[t].status = result[t]
  <2>1. CASE Discard(u) \/ DeleteChild(u)
    BY <1>0, <2>1 DEF Discard, DeleteChild
  <2>2. CASE Launch(u) \/ ChildEnds(u) \/ Receive(u) \/ Insert(u)
    BY <2>2 DEF Launch, ChildEnds, Receive, Insert, store
  <2>3. CASE Complete(u)
    <3>1. row' = Recorded(u, result[u])
      BY <2>3 DEF Complete
    <3>2. result[u] \in Terminal
      BY <2>3 DEF Complete, Types, TypeOK, ResultsAreReceived
    <3> QED
      BY <1>0, <2>3, <3>1, <3>2, RecordedRow
  <2>4. CASE CancelUpdate(u)
    <3>1. row' = Recorded(u, "cancelled")
      BY <2>4 DEF CancelUpdate, store
    <3>2. "cancelled" \in Terminal
      BY DEF Terminal
    <3> QED
      BY <1>0, <3>1, <3>2, RecordedRow
  <2> QED
    BY <1>1, <2>1, <2>2, <2>3, <2>4 DEF TaskMoves, TaskStep
<1>2. ASSUME NEW p \in Turn, WaitMoves(p) PROVE FALSE
  <2>1. \/ row'[t] = row[t]
        \/ row[t] \in Row /\ row'[t] = [row[t] EXCEPT !.delivered = p]
    BY <1>2, WaitMovesRows, Zenon
  <2> QED
    BY <2>1 DEF Row
<1>3. ASSUME NEW p \in Turn, NEW u \in Task, Register(p, u)
      PROVE  row'[t].status = "running"
  BY <1>0, <1>3 DEF Register
<1>4. ASSUME NEW p \in Turn, NEW u \in Task, Reconcile(p, u)
      PROVE  /\ u = t
             /\ row'[t].status = IF child[t] \in Terminal THEN child[t]
                                 ELSE "interrupted"
  <2> DEFINE s == IF child[u] \in Terminal THEN child[u] ELSE "interrupted"
  <2>1. row' = Recorded(u, s) /\ s \in Terminal
    BY <1>4 DEF Reconcile, Terminal
  <2> HIDE DEF s
  <2>2. u = t /\ row'[t].status = s
    BY <1>0, <2>1, RecordedRow
  <2> QED
    BY <2>2 DEF s
<1>5. ASSUME NEW p \in Turn, Rollback(p)
      PROVE  row'[t].status = "none"
  <2>1. PICK turns \in SUBSET Turn : row' = RolledBack(turns)
    BY <1>5 DEF Rollback
  <2> QED
    BY <1>0, <2>1, RolledBackRow
<1>6. CASE Crash \/ Cancel \/ CancelNotify \/ UNCHANGED vars
  BY <1>6 DEF Crash, Cancel, CancelNotify, vars, store
<1> QED
  BY <1>1, <1>2, <1>3, <1>4, <1>5, <1>6 DEF Next, TaskMoves, WaitMoves

(* Every step keeps the recorded outcomes true.                             *)
LEMMA StepOutcome ==
  /\ Types /\ Stages /\ ResultIsTheChilds /\ OutcomeIsTheChilds
  /\ [Next]_vars
  => OutcomeIsTheChilds'
<1> SUFFICES ASSUME Types, Stages, ResultIsTheChilds, OutcomeIsTheChilds,
                    [Next]_vars, NEW t \in Task
             PROVE  /\ row'[t].status \in {"completed", "failed"} =>
                         child'[t] = row'[t].status
                    /\ row'[t].status = "interrupted" =>
                         /\ task'[t] = "dead"
                         /\ child'[t] \in {"none", "inProgress"}
  BY DEF OutcomeIsTheChilds
<1>1. CASE row'[t].status = row[t].status
  BY <1>1, ChildStays DEF OutcomeIsTheChilds
<1>2. CASE row'[t].status \in {"none", "running", "cancelled"}
  BY <1>2
<1>3. CASE Complete(t) /\ row'[t].status = result[t]
  BY <1>3, ChildStays DEF ResultIsTheChilds
<1>4. ASSUME NEW p \in Turn, Reconcile(p, t),
             row'[t].status = IF child[t] \in Terminal THEN child[t]
                              ELSE "interrupted"
      PROVE  /\ row'[t].status \in {"completed", "failed"} =>
                  child'[t] = row'[t].status
             /\ row'[t].status = "interrupted" =>
                  /\ task'[t] = "dead"
                  /\ child'[t] \in {"none", "inProgress"}
  <2>1. task[t] = "dead"
    BY <1>4 DEF Reconcile, Stale, Running, Stages, NoRow
  <2>2. child' = child /\ task' = task
    BY <1>4 DEF Reconcile, watch
  <2> QED
    BY <1>4, <2>1, <2>2 DEF Terminal, Types, TypeOK
<1> QED
  BY <1>1, <1>2, <1>3, <1>4, StatusByStatement

(* A row is true of the subagent: what it says of a turn that ended is how  *)
(* the turn ended, and only a task that died with its process, its turn     *)
(* still open, is interrupted (complete, reconcile_stale_running_tasks).    *)
THEOREM OutcomesAreTrue == Spec => []OutcomeIsTheChilds
<1>1. Init => ResultIsTheChilds /\ OutcomeIsTheChilds
  BY DEF Init, ResultIsTheChilds, OutcomeIsTheChilds, NoRow
<1> QED
  BY <1>1, InitTypes, StepTypes, InitStages, StepStages, StepResult,
     StepOutcome, PTL DEF Spec

-----------------------------------------------------------------------------
(* No task is forgotten *)

(* A suppressed task is recorded, or its canceller is about to.             *)
Suppressed ==
  \A t \in Task :
    control[t] = "suppressed" /\ Running(t) =>
      batch[t] = "update" \/ t \in unrecorded

(* A row that is running was running, or was just registered.               *)
LEMMA RunningRows ==
  ASSUME Types, Stages, [Next]_vars, NEW t \in Task, Running(t)',
         \A p \in Turn : ~Register(p, t)
  PROVE  Running(t) /\ task[t] # "none"
<1>1. row'[t] # NoRow
  BY DEF Running, NoRow
<1>2. task[t] # "none"
  BY <1>1, RowsAreRegistered
<1>3. row[t] # NoRow /\ (Ended(t) => row'[t].status = row[t].status)
  BY <1>1, <1>2, RowsAreFinal
<1>4. row[t] \in Row
  BY <1>3 DEF Types, TypeOK
<1> QED
  BY <1>2, <1>3, <1>4 DEF Running, Ended, Row, Terminal

(* The canceller gives a task up when it has written the row, or has failed *)
(* to; failures are remembered.                                             *)
LEMMA BatchStep ==
  ASSUME Types, [Next]_vars, NEW t \in Task, ~Crash
  PROVE  /\ unrecorded \subseteq unrecorded'
         /\ batch[t] = "update" =>
              batch'[t] = "update" \/ t \in unrecorded' \/ ~Running(t)'
<1>1. CASE Cancel \/ CancelNotify \/ UNCHANGED vars
  BY <1>1 DEF Cancel, CancelNotify, vars, watch
<1>2. ASSUME NEW u \in Task, CancelUpdate(u)
      PROVE  /\ unrecorded \subseteq unrecorded'
             /\ batch[t] = "update" =>
                  batch'[t] = "update" \/ t \in unrecorded' \/ ~Running(t)'
  <2>1. u # t => batch'[t] = batch[t]
    BY <1>2 DEF CancelUpdate, Types, TypeOK
  <2>2. CASE row' = Recorded(u, "cancelled") /\ UNCHANGED unrecorded
    <3>1. "cancelled" \in Terminal /\ "running" \notin Terminal
      BY DEF Terminal
    <3>2. u = t => ~Running(t)'
      <4>1. row \in [Task -> Row \cup {NoRow}]
        BY DEF Types, TypeOK
      <4> QED
        BY <2>2, <3>1, <4>1, RecordedRow DEF Running
    <3> QED
      BY <2>1, <2>2, <3>2
  <2>3. CASE unrecorded' = unrecorded \cup {u}
    BY <2>1, <2>3
  <2> QED
    BY <1>2, <2>2, <2>3 DEF CancelUpdate, WriteFails
<1>3. ASSUME NEW u \in Task, TaskMoves(u), ~CancelUpdate(u)
      PROVE  unrecorded \subseteq unrecorded' /\ batch' = batch
  BY <1>3 DEF TaskMoves, TaskStep, Discard, Launch, ChildEnds, Receive,
              Complete, WriteFails, Insert, DeleteChild, watch
<1>4. ASSUME NEW p \in Turn, WaitMoves(p) PROVE UNCHANGED watch
  BY <1>4, WaitMovesRows
<1>5. ASSUME NEW p \in Turn, NEW u \in Task,
             Register(p, u) \/ Reconcile(p, u)
      PROVE  unrecorded' = unrecorded /\ batch' = batch
  BY <1>5 DEF Register, Reconcile, watch
<1>6. ASSUME NEW p \in Turn, Rollback(p) PROVE UNCHANGED watch
  BY <1>6 DEF Rollback
<1> QED
  BY <1>1, <1>2, <1>3, <1>4, <1>5, <1>6
     DEF Next, TaskMoves, WaitMoves, watch

(* Every step keeps the suppress flags justified.                           *)
LEMMA StepSuppressed ==
  Types /\ Stages /\ Suppressed /\ [Next]_vars => Suppressed'
<1> SUFFICES ASSUME Types, Stages, Suppressed, [Next]_vars, NEW t \in Task,
                    control'[t] = "suppressed", Running(t)'
             PROVE  batch'[t] = "update" \/ t \in unrecorded'
  BY DEF Suppressed
<1>1. ~Crash
  BY DEF Crash
<1>2. CASE Cancel
  <2>1. UNCHANGED <<row, unrecorded>> /\ batch[t] = "no"
    BY <1>2 DEF Cancel, store
  <2>2. PICK claimed \in SUBSET Task : ClaimControls(claimed)
    BY <1>2 DEF Cancel
  <2>3. CASE t \in claimed
    BY <2>2, <2>3 DEF ClaimControls
  <2>4. CASE t \notin claimed
    BY <2>1, <2>2, <2>4 DEF ClaimControls, Suppressed, Running
  <2> QED
    BY <2>3, <2>4
<1>3. CASE control[t] = "suppressed" /\ Running(t)
  BY <1>1, <1>3, BatchStep DEF Suppressed
<1>4. ASSUME NEW p \in Turn, Register(p, t) PROVE FALSE
  BY <1>4 DEF Register, Stages
<1>5. CASE ~Cancel
  <2>1. CASE OwnStep(t)
    <3>1. ASSUME control'[t] # control[t] PROVE FALSE
      BY <1>4, <2>1, <3>1
         DEF OwnStep, Discard, Launch, ChildEnds, Receive, Complete, Insert,
             Leave, Types, TypeOK
    <3> QED
      BY <1>3, <1>4, <3>1, RunningRows
  <2>2. CASE ~OwnStep(t)
    BY <1>1, <1>3, <1>4, <1>5, <2>2, OwnSteps, RunningRows
  <2> QED
    BY <2>1, <2>2
<1> QED
  BY <1>2, <1>5

(* Every step keeps a record of the tasks that have ended.                  *)
LEMMA StepForgotten ==
  Types /\ Stages /\ Suppressed /\ NoTaskIsForgotten /\ [Next]_vars
  => NoTaskIsForgotten'
<1> SUFFICES ASSUME Types, Stages, Suppressed, NoTaskIsForgotten,
                    [Next]_vars, NEW t \in Task, task'[t] = "done",
                    Running(t)'
             PROVE  batch'[t] = "update" \/ t \in unrecorded'
  BY DEF NoTaskIsForgotten
<1>1. ~Crash
  BY DEF Crash
<1>2. ASSUME NEW p \in Turn, Register(p, t) PROVE FALSE
  BY <1>2 DEF Register, Types, TypeOK
<1>3. Running(t) /\ task[t] # "none"
  BY <1>2, RunningRows
<1>4. CASE task[t] = "done"
  BY <1>1, <1>3, <1>4, BatchStep DEF NoTaskIsForgotten
<1>5. CASE Cancel
  BY <1>4, <1>5 DEF Cancel
<1>6. CASE Discard(t)
  BY <1>6 DEF Discard, Types, TypeOK, Running, NoRow
<1>7. CASE Launch(t) \/ ChildEnds(t)
  BY <1>4, <1>7 DEF Launch, ChildEnds, Types, TypeOK
<1>8. CASE Receive(t)
  <2>1. control[t] = "suppressed" /\ UNCHANGED <<batch, unrecorded>>
    BY <1>8 DEF Receive, Types, TypeOK
  <2> QED
    BY <1>3, <2>1 DEF Suppressed
<1>9. CASE Complete(t)
  <2>1. CASE row' = Recorded(t, result[t])
    <3>1. result[t] \in Terminal
      BY <1>9 DEF Complete, Types, TypeOK, ResultsAreReceived
    <3>2. row'[t].status = result[t]
      BY <1>3, <2>1, <3>1, RecordedRow DEF Types, TypeOK
    <3> QED
      BY <3>1, <3>2 DEF Running, Terminal
  <2>2. CASE WriteFails(t)
    BY <2>2 DEF WriteFails
  <2> QED
    BY <1>9, <2>1, <2>2 DEF Complete
<1>10. CASE Insert(t)
  <2>1. result[t] \in Terminal /\ Agreed(t, result[t])
    BY <1>10 DEF Insert, Stages, Types, TypeOK, ResultsAreReceived
  <2> QED
    BY <1>3, <2>1 DEF Agreed, Running, NoRow, Terminal
<1> QED
  BY <1>1, <1>2, <1>4, <1>5, <1>6, <1>7, <1>8, <1>9, <1>10, OwnSteps
     DEF OwnStep

(* A task that nobody watches any more has an outcome, or the canceller     *)
(* that suppressed its watcher (claim_background_subagent_controls) is      *)
(* about to record one, or a write failed.                                  *)
THEOREM TasksAreNotForgotten == Spec => []NoTaskIsForgotten
<1>1. Init => Suppressed /\ NoTaskIsForgotten
  BY DEF Init, Suppressed, NoTaskIsForgotten
<1> QED
  BY <1>1, InitTypes, StepTypes, InitStages, StepStages, StepSuppressed,
     StepForgotten, PTL DEF Spec
=============================================================================
