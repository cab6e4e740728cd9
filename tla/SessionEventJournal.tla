------------------------ MODULE SessionEventJournal ------------------------
(***************************************************************************)
(* The runtime's journal of session events (agent-runtime's                *)
(* session_event_journal.rs) with its log on disk                          *)
(* (service/session_projection_store.rs).                                  *)
(*                                                                         *)
(* The journal numbers the events of a session in the order of delivery,   *)
(* keeps a projection of the current turn and a bounded tail of events,    *)
(* and appends each event to the session's log, which goes when the turn   *)
(* is over.  Clients that missed events read a suffix or the projection.   *)
(***************************************************************************)
EXTENDS Naturals, Sequences, FiniteSets, SequencesExt

CONSTANTS
  Session,
  MaxTurn,      \* turns of a session are numbered 1..MaxTurn
  MaxEvents,    \* bound of the model: events of all the sessions
  MaxRestarts,  \* bound of the model: restarts of the host
  MaxTail,      \* MAX_REPLAYABLE_TAIL_EVENTS
  MaxTerminal,  \* MAX_RETAINED_TERMINAL_SESSION_PROJECTIONS
  LateEvents,   \* sessions whose turns may send events when they are over
  TornAppends   \* a crash may leave an incomplete last line in a log

ASSUME JournalConstants ==
  /\ {MaxTurn, MaxEvents, MaxRestarts} \subseteq Nat
  /\ MaxTail \in Nat \ {0} /\ MaxTerminal \in Nat
  /\ LateEvents \subseteq Session /\ TornAppends \in BOOLEAN

VARIABLES
  stream,    \* stream_id: which process of the host this is
  sequence,  \* events recorded by this process, to order last_touched
  sessions,  \* sessions[s]: its SessionProjection, or NoProjection
  storing,   \* store operations of record after it released its lock
  disk,      \* disk[s]: lines of the session's log; none if it is empty
  history,   \* history[s][p]: the events that process p recorded for s
             \* (history variable)
  deleted    \* sessions that were deleted (history variable)

journal == <<stream, sequence, sessions, storing, disk, history, deleted>>

Turn == 1..MaxTurn
NoTurn == 0
Kind == {"started", "content", "ended"}

(* An AgenticEvent with a turn.  What it says is told by "at": the process  *)
(* that sent it and the how-many-th event of the session it was.            *)
Streams == 1..(MaxRestarts + 1)
Event == [turn : Turn, kind : Kind, at : Streams \X (Nat \ {0})]

NoProjection == [cursor |-> 0, turn |-> NoTurn, events |-> <<>>,
                 tail |-> <<>>, terminal |-> FALSE, touched |-> 0]
Known(s) == sessions[s].touched > 0

Entry == [cursor : Nat, event : Event]
Projection ==
  [cursor : Nat, turn : Turn \cup {NoTurn}, events : Seq(Event),
   tail : Seq(Entry), terminal : BOOLEAN, touched : Nat]
Line == [stream : Streams, cursor : Nat, event : Event]
Torn == [stream |-> 0]
StoreOp == [op : {"append", "discard"}, session : Session, line : Line]

(* Type of the state. *)
JournalTypeOK ==
  /\ stream \in Streams
  /\ sequence \in Nat
  /\ sessions \in [Session -> Projection]
  /\ \A s \in Session : Len(sessions[s].tail) <= MaxTail
  /\ storing \in Seq(StoreOp) /\ Len(storing) <= 1
  /\ disk \in [Session -> Seq(Line \cup {Torn})]
  /\ history \in [Session -> [Streams -> Seq(Event)]]
  /\ deleted \subseteq Session

JournalInit ==
  /\ stream = 1 /\ sequence = 0
  /\ sessions = [s \in Session |-> NoProjection]
  /\ storing = <<>>
  /\ disk = [s \in Session |-> <<>>]
  /\ history = [s \in Session |-> [p \in Streams |-> <<>>]]
  /\ deleted = {}

-----------------------------------------------------------------------------
(* The events a session may send next.  Turns start in order; only when     *)
(* tasks overlap does a turn start before the last one is over, or send     *)
(* anything after the next one started or after its own end.                *)

EventsOf(s) == UNION {ToSet(history[s][p]) : p \in Streams}
Did(s, t, k) == \E e \in EventsOf(s) : e.turn = t /\ e.kind = k
Latest(s) == Cardinality({t \in Turn : Did(s, t, "started")})

MaySend(s, t, k) ==
  LET late == s \in LateEvents IN
  /\ late \/ s \notin deleted
  /\ IF k = "started"
     THEN /\ t = Latest(s) + 1
          /\ late \/ Latest(s) = 0 \/ Did(s, Latest(s), "ended")
     ELSE /\ Did(s, t, "started")
          /\ late \/ (t = Latest(s) /\ ~Did(s, t, "ended"))
          /\ k = "ended" => ~Did(s, t, "ended")

AllEvents == MapThenSumSet(LAMBDA s : Cardinality(EventsOf(s)), Session)
Recorded(s) == history[s][stream]

-----------------------------------------------------------------------------
(* Mutant: a new turn is added to the projection of the last one. *)
ApplyEventMixed(p, e) ==
  [p EXCEPT !.turn = e.turn, !.events = Append(@, e),
            !.terminal = e.kind = "ended"]

(* apply_event: an event of another turn than the projected one starts a    *)
(* projection of its own.  A chunk that is merged into the last one adds    *)
(* its content to it.                                                       *)
ApplyEvent(p, e) ==
  LET fresh == p.turn # e.turn IN
  [p EXCEPT !.turn = e.turn,
            !.events = Append(IF fresh THEN <<>> ELSE @, e),
            !.terminal = CASE e.kind = "started" -> FALSE
                           [] e.kind = "ended" -> TRUE
                           [] OTHER -> @ /\ ~fresh]

(* Mutant: nothing is evicted. *)
PushTailUnbounded(tail, entry) == Append(tail, entry)

(* push_tail *)
PushTail(tail, entry) ==
  LET longer == Append(tail, entry) IN
  IF Len(longer) > MaxTail THEN Tail(longer) ELSE longer

(* Mutant: an oldest entry one further on still counts as contiguous. *)
ReachesLax(p, cursor) ==
  \/ cursor = p.cursor
  \/ cursor < p.cursor /\ p.tail # <<>> /\ p.tail[1].cursor <= cursor + 2

(* tail_since answers: the tail holds every event after the cursor.         *)
Reaches(p, cursor) ==
  \/ cursor = p.cursor
  \/ cursor < p.cursor /\ p.tail # <<>> /\ p.tail[1].cursor <= cursor + 1

(* The i-th of a set of positions. *)
Nth(positions, i) ==
  CHOOSE j \in positions : Cardinality({k \in positions : k <= j}) = i

(* tail_since: its answer, which filters the tail.                          *)
TailSince(p, cursor) ==
  LET missed == {i \in 1..Len(p.tail) : p.tail[i].cursor > cursor}
  IN [i \in 1..Cardinality(missed) |-> p.tail[Nth(missed, i)].event]

(* clear_replay_content *)
ClearReplayContent(p) ==
  [p EXCEPT !.events = <<>>, !.tail = <<>>, !.turn = NoTurn]

(* prune_terminal_projections: of the sessions whose turn is over the       *)
(* newest keep their content, the others only their cursor.                 *)
Prune(all) ==
  LET retained == {s \in Session : all[s].terminal /\ all[s].events # <<>>}
      newer(s) == {r \in retained : all[r].touched > all[s].touched}
  IN [s \in Session |->
        IF s \in retained /\ Cardinality(newer(s)) >= MaxTerminal
        THEN ClearReplayContent(all[s]) ELSE all[s]]

(* record, under its lock.  The host records its events one after the other *)
(* from one delivery loop, so the last store operation is done.             *)
Record(s, t, k) ==
  /\ storing = <<>> /\ AllEvents < MaxEvents
  /\ MaySend(s, t, k)
  /\ LET e == [turn |-> t, kind |-> k,
               at |-> <<stream, Len(Recorded(s)) + 1>>]
         p == ApplyEvent(sessions[s], e)
         q == [p EXCEPT !.cursor = @ + 1, !.touched = sequence + 1,
                        !.tail = PushTail(@, [cursor |-> p.cursor + 1,
                                              event |-> e])]
     IN
     /\ history' = [history EXCEPT ![s][stream] = Append(@, e)]
     /\ sessions' = Prune([sessions EXCEPT ![s] = q])
     /\ storing' = <<[op |-> IF q.terminal THEN "discard" ELSE "append",
                      session |-> s,
                      line |-> [stream |-> stream, cursor |-> q.cursor,
                                event |-> e]]>>
  /\ sequence' = sequence + 1
  /\ UNCHANGED <<stream, disk, deleted>>

(* record of SessionDeleted. *)
Delete(s) ==
  /\ storing = <<>> /\ Known(s)
  /\ sessions' = [sessions EXCEPT ![s] =
                    [ClearReplayContent(@) EXCEPT !.terminal = TRUE]]
  /\ deleted' = deleted \cup {s}
  /\ UNCHANGED <<stream, sequence, storing, disk, history>>

(* FileSessionProjectionStore: append, or discard.                          *)
Store ==
  LET s == Head(storing).session IN
  IF Head(storing).op = "discard" THEN [disk EXCEPT ![s] = <<>>]
  ELSE [disk EXCEPT ![s] = Append(@, Head(storing).line)]

(* The rest of record: the event may be delivered now.                      *)
Stored ==
  /\ storing # <<>>
  /\ disk' = Store
  /\ storing' = <<>>
  /\ UNCHANGED <<stream, sequence, sessions, history, deleted>>

(* The host crashes and starts again: a new process with a new stream.  An  *)
(* append it was in may leave a torn line.                                  *)
Restart ==
  /\ stream <= MaxRestarts
  /\ stream' = stream + 1 /\ sequence' = 0
  /\ sessions' = [s \in Session |-> NoProjection]
  /\ storing' = <<>>
  /\ \/ UNCHANGED disk
     \/ /\ TornAppends /\ storing # <<>> /\ Head(storing).op = "append"
        /\ disk' = [disk EXCEPT ![Head(storing).session] = Append(@, Torn)]
  /\ UNCHANGED <<history, deleted>>

-----------------------------------------------------------------------------
(* The reads of the journal *)

SnapshotRequired == [kind |-> "snapshotRequired"]

(* events_since *)
EventsSince(s, from) ==
  IF from.stream = stream /\ Known(s) /\ Reaches(sessions[s], from.cursor)
  THEN [kind |-> "delta", cursor |-> sessions[s].cursor,
        events |-> TailSince(sessions[s], from.cursor)]
  ELSE SnapshotRequired

(* Mutant: what an older process logged is kept. *)
LoadMixed(lines) ==
  LET logged == {i \in 1..Len(lines) : lines[i] # Torn}
  IN [i \in 1..Cardinality(logged) |-> lines[Nth(logged, i)]]

(* load: up to a torn line, the lines of the last process among them.       *)
Load(lines) ==
  LET readable == {i \in 1..Len(lines) : \A j \in 1..i : lines[j] # Torn}
      logged == {i \in readable :
                   lines[i].stream = lines[Cardinality(readable)].stream}
  IN [i \in 1..Cardinality(logged) |-> lines[Nth(logged, i)]]

(* The projection that logged lines restore; its cursor counts them.        *)
Rebuilt(lines) ==
  LET after[i \in 0..Len(lines)] ==
        IF i = 0 THEN NoProjection
        ELSE [ApplyEvent(after[i - 1], lines[i].event) EXCEPT !.cursor = i]
  IN after[Len(lines)]
Restored(s) == Rebuilt(Load(disk[s]))

(* snapshot: of the projection in memory, else of the log.                  *)
Snapshot(s) ==
  LET logged == Load(disk[s])
      p == IF Known(s) THEN sessions[s] ELSE Restored(s)
  IN [kind |-> "snapshot", turn |-> p.turn, events |-> p.events,
      position |-> [stream |-> IF Known(s) \/ logged = <<>> THEN stream
                               ELSE logged[1].stream,
                    cursor |-> p.cursor]]

-----------------------------------------------------------------------------
(* Properties *)

(* A delta is exactly what was missed: "contiguous with the retained tail   *)
(* or explicitly SnapshotRequired - never a guess"                          *)
(* (session_event_journal.rs:306), whatever was recorded, pruned or deleted *)
(* since.                                                                   *)
DeltaIsMissedSuffix ==
  \A s \in Session : \A c \in 0..(Len(Recorded(s)) + 1) :
    LET d == EventsSince(s, [stream |-> stream, cursor |-> c]) IN
    d.kind = "delta" =>
      /\ c <= Len(Recorded(s))
      /\ d.events = SubSeq(Recorded(s), c + 1, Len(Recorded(s)))
      /\ d.cursor = Len(Recorded(s))

(* The projection of a turn in flight is whole: it has every event since    *)
(* the turn changed last, and none of another turn, whatever sessions are   *)
(* pruned meanwhile ("materialized projection of the currently executing    *)
(* Turn", session_event_journal.rs:61).                                     *)
SnapshotIsWhole ==
  \A s \in Session \ deleted :
    LET r == Recorded(s)
        t == sessions[s].turn
    IN t # NoTurn /\ ~Did(s, t, "ended") =>
         \E first \in 1..Len(r) :
           /\ sessions[s].events = SubSeq(r, first, Len(r))
           /\ \A i \in first..Len(r) : r[i].turn = t
           /\ first > 1 => r[first - 1].turn # t

(* "a restored projection cannot disagree with one built from events as     *)
(* they arrived" (session_event_journal.rs:343): at every moment the log    *)
(* restores the turn in flight as memory has it, and nothing of a turn that *)
(* is over.  The cursor is not among what agrees, and neither a deleted     *)
(* session nor a torn line, behind which nothing is read, is covered.       *)
RestoreAgrees ==
  \A s \in Session :
    /\ sessions[s].events # <<>> /\ storing = <<>> /\ s \notin deleted
    /\ Torn \notin ToSet(disk[s])
    => IF sessions[s].terminal THEN disk[s] = <<>>
       ELSE Restored(s).events = sessions[s].events
=============================================================================
