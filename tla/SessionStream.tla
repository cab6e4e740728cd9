--------------------------- MODULE SessionStream ---------------------------
(***************************************************************************)
(* A client of the session event journal: the SessionStream of one session *)
(* on one surface (web-ui flow_chat/session-stream), and the refresh that  *)
(* feeds it snapshots and backfills (PeerSessionRefreshModule.ts).         *)
(*                                                                         *)
(* Live events reach the client in order, but some may be lost.  A read of *)
(* the journal is a request, an answer the host computes at some moment,   *)
(* and the painting of it; live events that arrive in between are held.    *)
(* What is painted is the list of the events whose content is on screen.   *)
(***************************************************************************)
EXTENDS SessionEventJournal

CONSTANTS
  Watched,    \* the session the client shows
  MaxLost,    \* bound of the model: live events lost on the way
  MaxFailed,  \* bound of the model: reads that fail, or leave a tool behind
  ReadsOutliveHost, \* a read may be answered by the next process of the host
  ToolsMayLag       \* a tool may not show as ended once its end is painted

ASSUME ClientConstants ==
  /\ Watched \in Session /\ {MaxLost, MaxFailed} \subseteq Nat
  /\ {ReadsOutliveHost, ToolsMayLag} \subseteq BOOLEAN

VARIABLES
  transit,    \* live events on the way to the client
  lost,       \* live events that were lost (history variable)
  applied,    \* applied position of the stream, or NoPosition
  gap,        \* gapAt is set
  read,       \* [kind, answer]: the read in flight
  failed,     \* reads that failed, or left a tool behind (history variable)
  held,       \* events held while a read is in flight
  settled,    \* TurnOwnership: turns seen to end
  painted     \* painted[t]: what is on screen of turn t, in order

client == <<transit, lost, applied, gap, read, failed, held, settled,
            painted>>
vars == <<journal, client>>

NoPosition == [stream |-> 0, cursor |-> 0]
Position == [stream : Streams, cursor : Nat]
Message == [position : Position, event : Event]

NoRead == [kind |-> "none", answer |-> <<>>]
Reading == read.kind # "none"

(* Type of the state of the client. *)
TypeOK ==
  /\ JournalTypeOK
  /\ transit \in Seq(Message) /\ held \in Seq(Message)
  /\ lost \subseteq Streams \X Nat
  /\ applied \in Position \cup {NoPosition}
  /\ gap \in BOOLEAN
  /\ read.kind \in {"none", "backfill", "snapshot", "replay"}
  /\ Len(read.answer) <= 1 /\ failed \in 0..MaxFailed
  /\ settled \subseteq Turn
  /\ painted \in [Turn -> Seq(Streams \X Nat)]

Init ==
  /\ JournalInit
  /\ transit = <<>> /\ lost = {}
  /\ applied = NoPosition /\ gap = FALSE
  /\ read = NoRead /\ failed = 0 /\ held = <<>>
  /\ settled = {} /\ painted = [t \in Turn |-> <<>>]

-----------------------------------------------------------------------------
(* Positions *)

(* comparePositions: how a position continues the applied one.              *)
NotAhead(from, to) ==
  from # NoPosition /\ from.stream = to.stream /\ to.cursor <= from.cursor
Unrelated(from, to) == from # NoPosition /\ from.stream # to.stream
AheadWithGap(from, to) ==
  from # NoPosition /\ from.stream = to.stream /\ to.cursor > from.cursor + 1

(* advancePosition *)
Advance(from, to) == IF NotAhead(from, to) THEN from ELSE to

Paint(screen, e) == [screen EXCEPT ![e.turn] = Append(@, e.at)]
PaintAll(screen, events) ==
  LET after[i \in 0..Len(events)] ==
        IF i = 0 THEN screen ELSE Paint(after[i - 1], events[i])
  IN after[Len(events)]

-----------------------------------------------------------------------------
(* Live events *)

(* deliver_event_to_webview: the recorded event sets off to the client with *)
(* its cursor.                                                              *)
Emit ==
  /\ Stored
  /\ transit' = LET line == Head(storing).line IN
                IF Head(storing).session # Watched THEN transit
                ELSE Append(transit,
                       [position |-> [stream |-> line.stream,
                                      cursor |-> line.cursor],
                        event |-> line.event])
  /\ UNCHANGED <<lost, applied, gap, read, failed, held, settled, painted>>

(* The next live event is lost on its way.                                  *)
Lose ==
  /\ transit # <<>> /\ Cardinality(lost) < MaxLost
  /\ lost' = lost \cup {Head(transit).event.at}
  /\ transit' = Tail(transit)
  /\ UNCHANGED <<journal, applied, gap, read, failed, held, settled,
                 painted>>

(* observe: which turns are settled after the event.                        *)
Observe(e, over) == IF e.kind = "ended" THEN over \cup {e.turn} ELSE over

(* admit, with a position: dropped if it is not ahead, or if its turn is    *)
(* over in this stream; else painted, also beyond a gap.                    *)
Admit(m) ==
  LET over == IF Unrelated(applied, m.position) THEN {} ELSE settled
  IN
  IF NotAhead(applied, m.position)
  THEN UNCHANGED <<applied, gap, settled, painted>>
  ELSE /\ gap' = AheadWithGap(applied, m.position)
       /\ IF m.event.turn \in over
          THEN UNCHANGED <<applied, settled, painted>>
          ELSE /\ applied' = Advance(applied, m.position)
               /\ painted' = Paint(painted, m.event)
               /\ settled' = Observe(m.event, over)

(* offer *)
Deliver ==
  /\ transit # <<>>
  /\ transit' = Tail(transit)
  /\ IF Reading
     THEN /\ held' = Append(held, Head(transit))
          /\ UNCHANGED <<applied, gap, settled, painted>>
     ELSE Admit(Head(transit)) /\ UNCHANGED held
  /\ UNCHANGED <<journal, lost, read, failed>>

-----------------------------------------------------------------------------
(* Reads *)

(* Mutant: the events that the read covers are not left out. *)
ReleasedAll(position, screen) ==
  FoldLeft(LAMBDA acc, m : [position |-> Advance(acc.position, m.position),
                            screen |-> Paint(acc.screen, m.event)],
           [position |-> position, screen |-> screen], held)

(* releaseHeld: the held events that are ahead, in order of arrival.  Gaps  *)
(* and ownership are not looked at.                                         *)
Released(position, screen) ==
  LET after[i \in 0..Len(held)] ==
        IF i = 0 THEN [position |-> position, screen |-> screen]
        ELSE LET acc == after[i - 1] IN
             IF NotAhead(acc.position, held[i].position) THEN acc
             ELSE [position |-> Advance(acc.position, held[i].position),
                   screen |-> Paint(acc.screen, held[i].event)]
  IN after[Len(held)]

(* The fence is lifted over a screen and a position, and the rest released. *)
Release(position, screen) ==
  /\ applied' = Released(position, screen).position
  /\ painted' = Released(position, screen).screen
  /\ held' = <<>>

(* settle and abandon, with the screen the caller has painted.              *)
Settle(position, screen) ==
  Release(Advance(applied, position), screen) /\ gap' = FALSE
Abandon == Release(applied, painted)

(* runRefresh begins a read: of the events after the applied position, or   *)
(* of a snapshot, which is "replay"ed in any case if the client's machine   *)
(* is idle.  Refreshes are requested by gaps and by a timer.                *)
BeginRead ==
  /\ ~Reading
  /\ \E kind \in {"backfill", "snapshot", "replay"} :
       /\ kind = "backfill" => applied # NoPosition
       /\ read' = [kind |-> kind, answer |-> <<>>]
  /\ UNCHANGED <<journal, transit, lost, applied, gap, failed, held,
                 settled, painted>>

Inactive == [kind |-> "inactive"]

(* coerceRuntimeEventSnapshot: a snapshot without a turn is taken to be of  *)
(* the last turn on record.  That of a session that is not being processed, *)
(* which the journal knows only in part, is ignored.                        *)
SnapshotAnswers ==
  LET p == sessions[Watched]
      answer == Snapshot(Watched)
      turn == IF answer.turn = NoTurn THEN Latest(Watched) ELSE answer.turn
  IN {IF turn = NoTurn THEN Inactive ELSE [answer EXCEPT !.turn = turn]}
     \cup (IF p.turn # NoTurn /\ ~p.terminal THEN {} ELSE {Inactive})

Answer(a) ==
  /\ Reading /\ read.answer = <<>>
  /\ read' = [read EXCEPT !.answer = <<a>>]
  /\ UNCHANGED <<journal, transit, lost, applied, gap, failed, held,
                 settled, painted>>

(* load_session_event_backfill, at the host.                                *)
ServeBackfill ==
  read.kind = "backfill" /\ Answer(EventsSince(Watched, applied))

(* restore_session_view, at the host.                                       *)
ServeSnapshot ==
  read.kind # "backfill" /\ \E a \in SnapshotAnswers : Answer(a)

(* Mutant: an empty delta is asked for again. *)
FinishBackfillRetrying ==
  /\ read.kind = "backfill" /\ read.answer # <<>>
  /\ LET a == Head(read.answer) IN
     IF a.kind = "delta" /\ a.events # <<>>
     THEN /\ Settle([stream |-> applied.stream, cursor |-> a.cursor],
                    PaintAll(painted, a.events))
          /\ read' = NoRead
     ELSE /\ read' = [read EXCEPT !.answer = <<>>]
          /\ UNCHANGED <<applied, gap, held, painted>>
  /\ UNCHANGED <<journal, transit, lost, failed, settled>>

(* The fence goes over to the read of a snapshot. *)
HandOff ==
  /\ read' = [kind |-> "snapshot", answer |-> <<>>]
  /\ UNCHANGED <<applied, held>>

(* The events of a delta are painted and the fence is lifted, unless a tool *)
(* does not show as ended.  An empty delta does not prove that the screen   *)
(* is right, nor can a host always serve one.                               *)
FinishBackfill ==
  /\ read.kind = "backfill" /\ read.answer # <<>>
  /\ LET a == Head(read.answer) IN
     IF a.kind = "delta" /\ a.events # <<>>
     THEN \/ /\ Settle([stream |-> applied.stream, cursor |-> a.cursor],
                       PaintAll(painted, a.events))
             /\ read' = NoRead /\ UNCHANGED failed
          \/ /\ ToolsMayLag /\ failed < MaxFailed
             /\ painted' = PaintAll(painted, a.events) /\ gap' = TRUE
             /\ HandOff /\ failed' = failed + 1
     ELSE /\ gap' = (gap \/ a.kind = "delta")
          /\ HandOff /\ UNCHANGED <<failed, painted>>
  /\ UNCHANGED <<journal, transit, lost, settled>>

(* Mutant: a snapshot that is ahead need not be replayed. *)
RequiresReplayOnGap(a) ==
  \/ read.kind = "replay" \/ gap \/ applied = NoPosition
  \/ applied.stream # a.position.stream

(* requiresReplay *)
RequiresReplay(a) ==
  \/ read.kind = "replay" \/ gap \/ applied = NoPosition
  \/ applied.stream # a.position.stream
  \/ applied.cursor < a.position.cursor

(* The events of the snapshot's turn, which are all it has of it.           *)
Replayed(a) ==
  [painted EXCEPT ![a.turn] = [i \in 1..Len(a.events) |-> a.events[i].at]]

(* Every event of the snapshot is on screen. *)
CaughtUp(a) == \A e \in ToSet(a.events) : e.at \in ToSet(painted[a.turn])

(* The projection is rebuilt from the snapshot, if it must be; also if a    *)
(* tool that ended is not painted as such (some events show, others do      *)
(* not).  It is behind if that does not show the tool as ended either.      *)
FinishSnapshot ==
  /\ read.kind \in {"snapshot", "replay"} /\ read.answer # <<>>
  /\ LET a == Head(read.answer) IN
     IF a = Inactive THEN Abandon /\ UNCHANGED gap
     ELSE \/ /\ RequiresReplay(a) \/ ~CaughtUp(a)
             /\ Release(Advance(applied, a.position), Replayed(a))
             /\ gap' \in {FALSE, ToolsMayLag}
          \/ Settle(a.position, painted) /\ ~RequiresReplay(a)
  /\ read' = NoRead
  /\ UNCHANGED <<journal, transit, lost, failed, settled>>

(* Mutant: a failed read forgets what it held. *)
GiveUpForgetting ==
  /\ read' = NoRead /\ held' = <<>> /\ gap' = TRUE
  /\ UNCHANGED <<applied, painted>>

(* A read fails: what it held is released, and the refresh goes on with a   *)
(* snapshot, or ends with the projection marked as behind.                  *)
GiveUp ==
  /\ Abandon
  /\ IF read.kind = "backfill"
     THEN read' = [kind |-> "snapshot", answer |-> <<>>] /\ UNCHANGED gap
     ELSE read' = NoRead /\ gap' = TRUE

FailRead ==
  /\ Reading /\ failed < MaxFailed /\ GiveUp
  /\ failed' = failed + 1
  /\ UNCHANGED <<journal, transit, lost, settled>>

(* The host starts again.  The connection to it breaks: live events on the  *)
(* way are lost, and the read in flight fails, if it is not sent again.     *)
HostRestart ==
  /\ Restart
  /\ transit' = <<>>
  /\ lost' = lost \cup {m.event.at : m \in ToSet(transit)}
  /\ \/ Reading /\ GiveUp
     \/ /\ Reading => ReadsOutliveHost
        /\ UNCHANGED <<applied, gap, read, held, painted>>
  /\ UNCHANGED <<failed, settled>>

-----------------------------------------------------------------------------
Next ==
  \/ /\ \/ \E s \in Session, t \in Turn, k \in Kind : Record(s, t, k)
        \/ \E s \in Session : Delete(s)
     /\ UNCHANGED client
  \/ Emit \/ Lose \/ Deliver
  \/ HostRestart
  \/ BeginRead \/ ServeBackfill \/ ServeSnapshot
  \/ FinishBackfill \/ FinishSnapshot \/ FailRead

Spec == Init /\ [][Next]_vars

(* Events are delivered; the window polls; and what a read waits for        *)
(* happens, as reads fail only so often.                                    *)
ReadStep == BeginRead \/ ServeBackfill \/ ServeSnapshot
            \/ FinishBackfill \/ FinishSnapshot
FairSpec == /\ Spec
            /\ WF_vars(Emit) /\ WF_vars(Deliver) /\ WF_vars(ReadStep)

-----------------------------------------------------------------------------
(* Properties *)

Before(a, b) == a[1] < b[1] \/ (a[1] = b[1] /\ a[2] < b[2])

(* Contract 1 of docs/architecture/session-projection.md, "the projection   *)
(* never regresses": no event is painted twice or after a later one,        *)
(* however live events, reads, losses and restarts interleave.              *)
ProjectionIsOrdered ==
  \A t \in Turn : \A i, j \in 1..Len(painted[t]) :
    i < j => Before(painted[t][i], painted[t][j])

(* Events of turn t that are not on screen although earlier and later ones  *)
(* of their stream are.                                                     *)
Holes(t) ==
  {e.at : e \in {x \in EventsOf(Watched) :
    /\ x.turn = t /\ x.at \notin ToSet(painted[t])
    /\ \E a, b \in ToSet(painted[t]) :
         a[1] = x.at[1] /\ b[1] = x.at[1] /\ a[2] < x.at[2] /\ x.at[2] < b[2]}}

(* The events of t came one after the other, and none after its end:        *)
(* otherwise the host's projection was handed to another turn, or begun     *)
(* anew, and what it had of t is gone.                                      *)
InOrder(t) ==
  LET h == EventsOf(Watched) IN
  \A a, b \in h : a.turn = t /\ b.turn = t /\ Before(a.at, b.at) =>
    /\ a.kind # "ended"
    /\ \A c \in h : Before(a.at, c.at) /\ Before(c.at, b.at) => c.turn = t

(* The fence loses nothing: an event that reached the client is painted or  *)
(* covered by a read, so that only what was lost on the way is missing      *)
(* between what shows: of any turn, and also while a read is in flight.     *)
OnlyLostEventsAreMissing ==
  \A t \in Turn : InOrder(t) => Holes(t) \subseteq lost

(* The poll repairs what no later event reveals: the newest event of a turn *)
(* in flight comes on screen although it was lost on its way, unless more   *)
(* happens first (tryIncrementalCatchUp, requiresReplay).                   *)
InFlight == /\ storing = <<>> /\ ~sessions[Watched].terminal
            /\ sessions[Watched].turn # NoTurn
ScreenIsCurrent ==
  InFlight => LET newest == Last(Recorded(Watched))
              IN newest.at \in ToSet(painted[newest.turn])
ScreenCatchesUp == []<>ScreenIsCurrent

(* "A fence that is neither settled nor handed off holds this Session's     *)
(* live events forever" (PeerSessionRefreshModule.ts:275): events that are  *)
(* held are released.                                                       *)
HeldEventsAreReleased == held # <<>> ~> held = <<>>
=============================================================================
