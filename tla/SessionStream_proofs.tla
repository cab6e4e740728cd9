------------------------ MODULE SessionStream_proofs ------------------------
(***************************************************************************)
(* Theorems about the journal of session events and the client that       *)
(* SessionStream composes it with, for any sessions, turns, tails, losses  *)
(* and restarts: their types, that a delta is exactly what the client      *)
(* missed, that the projection of a turn in flight is whole and that the   *)
(* log restores it, and that the screen of the client never regresses.     *)
(***************************************************************************)
EXTENDS SessionStream, SequenceTheorems, FiniteSetTheorems, TLAPS

-----------------------------------------------------------------------------
(* The steps of the journal *)

(* What the client and the way to it do leaves the journal alone.           *)
JournalStep ==
  \/ \E s \in Session, t \in Turn, k \in Kind : Record(s, t, k)
  \/ \E s \in Session : Delete(s)
  \/ Stored \/ Restart

LEMMA NextSteps ==
  ASSUME [Next]_vars
  PROVE  JournalStep \/ UNCHANGED journal
BY DEF Next, vars, JournalStep, Emit, Lose, Deliver, HostRestart, BeginRead,
       ServeBackfill, ServeSnapshot, Answer, FinishBackfill, FinishSnapshot,
       FailRead

(* What the host keeps of a session when it prunes.                         *)
Pruned(p) == IF p.terminal THEN {p, ClearReplayContent(p)} ELSE {p}

LEMMA PruneFacts ==
  ASSUME NEW all, NEW s \in Session
  PROVE  Prune(all)[s] \in Pruned(all[s])
<1> DEFINE retained == {r \in Session : all[r].terminal
                                        /\ all[r].events # <<>>}
           newer(r) == {x \in retained : all[x].touched > all[r].touched}
<1>1. Prune(all)[s] = IF s \in retained /\ Cardinality(newer(s)) >= MaxTerminal
                      THEN ClearReplayContent(all[s]) ELSE all[s]
  BY DEF Prune
<1>2. s \in retained => all[s].terminal
  OBVIOUS
<1> QED BY <1>1, <1>2 DEF Pruned

(* The tail after an event: it is longer by one, or has lost its oldest.    *)
LEMMA PushTailFacts ==
  ASSUME NEW tail \in Seq(Entry), NEW entry \in Entry, Len(tail) <= MaxTail
  PROVE  LET r == PushTail(tail, entry) IN
         /\ r \in Seq(Entry)
         /\ Len(r) \in {Len(tail), Len(tail) + 1} /\ Len(r) \in 1..MaxTail
         /\ r[Len(r)] = entry
         /\ \A i \in 1..(Len(r) - 1) : r[i] = tail[Len(tail) - Len(r) + 1 + i]
<1> DEFINE longer == Append(tail, entry)
<1>1. /\ longer \in Seq(Entry) /\ longer # <<>>
      /\ Len(tail) \in Nat /\ Len(longer) = Len(tail) + 1
      /\ longer[Len(tail) + 1] = entry
      /\ \A i \in 1..Len(tail) : longer[i] = tail[i]
  BY AppendProperties
<1>2. /\ Tail(longer) \in Seq(Entry) /\ Len(Tail(longer)) = Len(longer) - 1
      /\ \A i \in 1..Len(Tail(longer)) : Tail(longer)[i] = longer[i + 1]
  BY <1>1, HeadTailProperties
<1>3. PushTail(tail, entry) = IF Len(tail) + 1 > MaxTail THEN Tail(longer)
                              ELSE longer
  BY <1>1 DEF PushTail
<1> HIDE DEF longer
<1>4. MaxTail \in Nat \ {0}
  BY JournalConstants
<1>5. CASE Len(tail) + 1 > MaxTail
  <2> DEFINE r == Tail(longer)
  <2>1. Len(r) = Len(tail) /\ Len(tail) = MaxTail
    BY <1>1, <1>2, <1>4, <1>5
  <2>2. r[Len(r)] = entry
    BY <1>1, <1>2, <1>4, <2>1
  <2>3. \A i \in 1..(Len(r) - 1) : r[i] = tail[i + 1]
    BY <1>1, <1>2, <2>1
  <2>4. \A i \in 1..(Len(r) - 1) : Len(tail) - Len(r) + 1 + i = i + 1
    BY <1>1, <2>1
  <2> HIDE DEF r
  <2>5. \A i \in 1..(Len(r) - 1) : r[i] = tail[Len(tail) - Len(r) + 1 + i]
    BY <2>3, <2>4
  <2>6. Len(r) \in {Len(tail), Len(tail) + 1} /\ Len(r) \in 1..MaxTail
    BY <1>4, <2>1
  <2>7. r \in Seq(Entry) /\ PushTail(tail, entry) = r
    BY <1>2, <1>3, <1>5 DEF r
  <2> QED BY <2>2, <2>5, <2>6, <2>7
<1>6. CASE ~(Len(tail) + 1 > MaxTail)
  <2>1. \A i \in 1..Len(tail) : Len(tail) - (Len(tail) + 1) + 1 + i = i
    BY <1>1
  <2>2. Len(longer) - 1 = Len(tail) /\ Len(longer) \in 1..MaxTail
    BY <1>1, <1>4, <1>6
  <2> QED BY <1>1, <1>3, <1>6, <2>1, <2>2
<1> QED BY <1>5, <1>6

-----------------------------------------------------------------------------
(* Recording an event *)

(* The projection of a session after the event e.                           *)
Projected(p, e, sequenced) ==
  [ApplyEvent(p, e) EXCEPT
     !.cursor = p.cursor + 1, !.touched = sequenced + 1,
     !.tail = PushTail(p.tail, [cursor |-> p.cursor + 1, event |-> e])]

LEMMA ProjectedFacts ==
  ASSUME NEW p \in Projection, Len(p.tail) <= MaxTail, NEW e \in Event,
         NEW n \in Nat
  PROVE  LET q == Projected(p, e, n) IN
         /\ q \in Projection /\ Len(q.tail) <= MaxTail
         /\ q.cursor = p.cursor + 1 /\ q.turn = e.turn /\ q.touched = n + 1
         /\ q.tail = PushTail(p.tail, [cursor |-> p.cursor + 1, event |-> e])
         /\ q.events = Append(IF p.turn # e.turn THEN <<>> ELSE p.events, e)
         /\ q.terminal = CASE e.kind = "started" -> FALSE
                           [] e.kind = "ended" -> TRUE
                           [] OTHER -> p.terminal /\ p.turn = e.turn
<1> DEFINE entry == [cursor |-> p.cursor + 1, event |-> e]
<1>1. /\ p.cursor \in Nat /\ p.tail \in Seq(Entry) /\ p.events \in Seq(Event)
      /\ p.terminal \in BOOLEAN
  BY DEF Projection
<1>2. entry \in Entry
  BY <1>1 DEF Entry
<1>3. /\ PushTail(p.tail, entry) \in Seq(Entry)
      /\ Len(PushTail(p.tail, entry)) \in 1..MaxTail
  BY <1>1, <1>2, PushTailFacts
<1>4. Len(PushTail(p.tail, entry)) <= MaxTail
  BY <1>3, JournalConstants
<1>5. Append(IF p.turn # e.turn THEN <<>> ELSE p.events, e) \in Seq(Event)
  BY <1>1, EmptySeq, AppendProperties
<1>6. e.turn \in Turn /\ e.kind \in {"started", "content", "ended"}
  BY DEF Event, Kind
<1> DEFINE events == Append(IF p.turn # e.turn THEN <<>> ELSE p.events, e)
           terminal == CASE e.kind = "started" -> FALSE
                         [] e.kind = "ended" -> TRUE
                         [] OTHER -> p.terminal /\ p.turn = e.turn
<1>7. Projected(p, e, n) =
        [cursor |-> p.cursor + 1, turn |-> e.turn, events |-> events,
         tail |-> PushTail(p.tail, entry), terminal |-> terminal,
         touched |-> n + 1]
  <2>1. p = [cursor |-> p.cursor, turn |-> p.turn, events |-> p.events,
             tail |-> p.tail, terminal |-> p.terminal, touched |-> p.touched]
    BY DEF Projection
  <2>2. PICK a, b, c :
          /\ a = events /\ b = terminal /\ c = PushTail(p.tail, entry)
    OBVIOUS
  <2>3. ApplyEvent(p, e) = [p EXCEPT !.turn = e.turn, !.events = a,
                                     !.terminal = b]
    <3>1. b = CASE e.kind = "started" -> FALSE
                [] e.kind = "ended" -> TRUE
                [] OTHER -> p.terminal /\ ~(p.turn # e.turn)
      BY <1>1, <1>6, <2>2
    <3> QED BY <2>2, <3>1 DEF ApplyEvent
  <2>4. Projected(p, e, n) =
          [ApplyEvent(p, e) EXCEPT !.cursor = p.cursor + 1,
                                   !.touched = n + 1, !.tail = c]
    BY <2>2 DEF Projected
  <2>5. Projected(p, e, n) =
          [cursor |-> p.cursor + 1, turn |-> e.turn, events |-> a,
           tail |-> c, terminal |-> b, touched |-> n + 1]
    BY <2>1, <2>3, <2>4, ZenonT(30)
  <2> QED BY <2>2, <2>5
<1>8. terminal \in BOOLEAN
  BY <1>1, <1>6
<1> HIDE DEF events, terminal, entry
<1>9. events \in Seq(Event)
  BY <1>5 DEF events
<1>10. p.cursor + 1 \in Nat /\ n + 1 \in Nat /\ e.turn \in Turn
  BY <1>1, <1>6
<1>11. Projected(p, e, n) \in Projection
  BY <1>3, <1>7, <1>8, <1>9, <1>10 DEF Projection, entry
<1> QED BY <1>4, <1>7, <1>11 DEF events, terminal, entry

(* What recording does: the event joins what this process recorded of its   *)
(* session and the projection; and sessions are pruned.                     *)
LEMMA RecordFacts ==
  ASSUME JournalTypeOK, NEW s \in Session, NEW t \in Turn, NEW k \in Kind,
         Record(s, t, k)
  PROVE  \E e \in Event :
           /\ e.turn = t /\ e.kind = k
           /\ e.at = <<stream, Len(Recorded(s)) + 1>>
           /\ history' = [history EXCEPT ![s][stream] = Append(Recorded(s), e)]
           /\ Recorded(s)' = Append(Recorded(s), e)
           /\ \A u \in Session : u # s => Recorded(u)' = Recorded(u)
           /\ \A u \in Session :
                sessions'[u] \in
                  Pruned(IF u = s THEN Projected(sessions[s], e, sequence)
                                  ELSE sessions[u])
           /\ \E op \in {"append", "discard"}, line \in Line :
                storing' = <<[op |-> op, session |-> s, line |-> line]>>
           /\ LET q == Projected(sessions[s], e, sequence) IN
              storing' = <<[op |-> IF q.terminal THEN "discard" ELSE "append",
                            session |-> s,
                            line |-> [stream |-> stream, cursor |-> q.cursor,
                                      event |-> e]]>>
           /\ DOMAIN sessions' = Session
           /\ UNCHANGED <<stream, disk, deleted>>
           /\ sequence' = sequence + 1
<1> DEFINE e == [turn |-> t, kind |-> k,
                 at |-> <<stream, Len(Recorded(s)) + 1>>]
           q == Projected(sessions[s], e, sequence)
<1>1. /\ stream \in Streams /\ sequence \in Nat
      /\ sessions \in [Session -> Projection]
      /\ Len(sessions[s].tail) <= MaxTail
      /\ history \in [Session -> [Streams -> Seq(Event)]]
  BY DEF JournalTypeOK
<1>2. e \in Event
  BY <1>1 DEF Event, Recorded
<1>3. q \in Projection
  BY <1>1, <1>2, ProjectedFacts
<1>4. /\ history' = [history EXCEPT ![s][stream] = Append(@, e)]
      /\ sessions' = Prune([sessions EXCEPT ![s] = q])
      /\ storing' = <<[op |-> IF q.terminal THEN "discard" ELSE "append",
                       session |-> s,
                       line |-> [stream |-> stream, cursor |-> q.cursor,
                                 event |-> e]]>>
      /\ UNCHANGED <<stream, disk, deleted>>
      /\ sequence' = sequence + 1
  BY DEF Record, Projected, ApplyEvent
<1> HIDE DEF e, q
<1>5. /\ history' = [history EXCEPT ![s][stream] = Append(Recorded(s), e)]
      /\ Recorded(s)' = Append(Recorded(s), e)
      /\ \A u \in Session : u # s => Recorded(u)' = Recorded(u)
  BY <1>1, <1>4 DEF Recorded
<1>6. ASSUME NEW u \in Session
      PROVE  sessions'[u] \in Pruned(IF u = s THEN q ELSE sessions[u])
  <2> DEFINE all == [sessions EXCEPT ![s] = q]
  <2>1. all[u] = IF u = s THEN q ELSE sessions[u]
    BY <1>1
  <2>2. Prune(all)[u] \in Pruned(all[u])
    BY PruneFacts
  <2> QED BY <1>4, <2>1, <2>2
<1>7. DOMAIN sessions' = Session
  BY <1>4 DEF Prune
<1>8. [stream |-> stream, cursor |-> q.cursor, event |-> e] \in Line
  BY <1>1, <1>2, <1>3 DEF Line, Projection
<1>9. e.turn = t /\ e.kind = k /\ e.at = <<stream, Len(Recorded(s)) + 1>>
  BY DEF e
<1> QED BY <1>2, <1>4, <1>5, <1>6, <1>7, <1>8, <1>9 DEF q

-----------------------------------------------------------------------------
(* Types *)

LEMMA ClearedType ==
  ASSUME NEW p \in Projection
  PROVE  /\ ClearReplayContent(p) \in Projection
         /\ ClearReplayContent(p).cursor = p.cursor
         /\ ClearReplayContent(p).tail = <<>>
         /\ ClearReplayContent(p).events = <<>>
         /\ ClearReplayContent(p).turn = NoTurn
         /\ ClearReplayContent(p).terminal = p.terminal
         /\ ClearReplayContent(p).touched = p.touched
BY EmptySeq DEF ClearReplayContent, Projection

LEMMA NoProjectionType == NoProjection \in Projection
BY EmptySeq DEF NoProjection, Projection, NoTurn

LEMMA JournalTypeStep ==
  ASSUME JournalTypeOK, JournalStep
  PROVE  JournalTypeOK'
<1>0. Len(<<>>) = 0 /\ MaxTail \in Nat \ {0} /\ MaxRestarts \in Nat
  BY EmptySeq, JournalConstants
<1>1. ASSUME NEW s \in Session, NEW t \in Turn, NEW k \in Kind,
             Record(s, t, k)
      PROVE  JournalTypeOK'
  <2>1. PICK e \in Event :
          /\ history' = [history EXCEPT ![s][stream] = Append(Recorded(s), e)]
          /\ \A u \in Session :
               sessions'[u] \in
                 Pruned(IF u = s THEN Projected(sessions[s], e, sequence)
                                 ELSE sessions[u])
          /\ \E op \in {"append", "discard"}, line \in Line :
               storing' = <<[op |-> op, session |-> s, line |-> line]>>
          /\ DOMAIN sessions' = Session
          /\ UNCHANGED <<stream, disk, deleted>>
          /\ sequence' = sequence + 1
    BY <1>1, RecordFacts
  <2>2. Projected(sessions[s], e, sequence) \in Projection
        /\ Len(Projected(sessions[s], e, sequence).tail) <= MaxTail
    BY ProjectedFacts DEF JournalTypeOK
  <2>3. ASSUME NEW u \in Session
        PROVE  sessions'[u] \in Projection /\ Len(sessions'[u].tail) <= MaxTail
    <3>1. PICK p \in Projection :
            Len(p.tail) <= MaxTail /\ sessions'[u] \in Pruned(p)
      BY <2>1, <2>2 DEF JournalTypeOK
    <3> QED BY <1>0, <3>1, ClearedType DEF Pruned
  <2>4. sessions' \in [Session -> Projection]
    <3> SUFFICES sessions' = [u \in Session |-> sessions'[u]]
      BY <2>3
    <3> QED BY <1>1 DEF Record, Prune
  <2>5. history' \in [Session -> [Streams -> Seq(Event)]]
    <3>1. Append(Recorded(s), e) \in Seq(Event)
      BY AppendProperties DEF JournalTypeOK, Recorded
    <3> QED BY <2>1, <3>1 DEF JournalTypeOK
  <2>6. storing' \in Seq(StoreOp) /\ Len(storing') <= 1
    <3>1. PICK o \in StoreOp : storing' = <<o>>
      BY <2>1 DEF StoreOp
    <3> QED BY <3>1
  <2> QED BY <2>1, <2>3, <2>4, <2>5, <2>6 DEF JournalTypeOK
<1>2. ASSUME NEW s \in Session, Delete(s)
      PROVE  JournalTypeOK'
  <2>1. PICK p \in Projection :
          /\ p = [ClearReplayContent(sessions[s]) EXCEPT !.terminal = TRUE]
          /\ p.tail = <<>>
    <3>1. PICK q \in Projection :
            q = ClearReplayContent(sessions[s]) /\ q.tail = <<>>
      BY ClearedType DEF JournalTypeOK
    <3>2. /\ [q EXCEPT !.terminal = TRUE] \in Projection
          /\ [q EXCEPT !.terminal = TRUE].tail = q.tail
      BY DEF Projection
    <3> QED BY <3>1, <3>2
  <2>2. sessions' = [sessions EXCEPT ![s] = p]
    BY <1>2, <2>1 DEF Delete
  <2>3. /\ sessions' \in [Session -> Projection]
        /\ \A u \in Session : Len(sessions'[u].tail) <= MaxTail
    BY <1>0, <2>1, <2>2 DEF JournalTypeOK
  <2> QED BY <1>2, <2>3 DEF Delete, JournalTypeOK
<1>3. CASE Stored
  <2>1. PICK o \in StoreOp : o = Head(storing)
    BY <1>3, HeadTailProperties DEF Stored, JournalTypeOK
  <2>2. disk' \in [Session -> Seq(Line \cup {Torn})]
    <3>1. o.session \in Session /\ o.line \in Line
      BY DEF StoreOp
    <3>2. Append(disk[o.session], o.line) \in Seq(Line \cup {Torn})
      BY <3>1, AppendProperties DEF JournalTypeOK
    <3> QED BY <1>3, <2>1, <3>1, <3>2, EmptySeq DEF Stored, Store, JournalTypeOK
  <2> QED BY <1>0, <1>3, <2>2, EmptySeq DEF Stored, JournalTypeOK
<1>4. CASE Restart
  <2>1. stream' \in Streams /\ sequence' \in Nat
    BY <1>0, <1>4 DEF Restart, JournalTypeOK, Streams
  <2>2. /\ sessions' \in [Session -> Projection]
        /\ \A s \in Session : Len(sessions'[s].tail) <= MaxTail
    BY <1>0, <1>4, NoProjectionType DEF Restart, NoProjection
  <2>3. disk' \in [Session -> Seq(Line \cup {Torn})]
    <3>1. CASE UNCHANGED disk
      BY <3>1 DEF JournalTypeOK
    <3>2. CASE /\ storing # <<>>
               /\ disk' = [disk EXCEPT ![Head(storing).session] =
                             Append(@, Torn)]
      <4>1. PICK o \in StoreOp : o = Head(storing)
        BY <3>2, HeadTailProperties DEF JournalTypeOK
      <4>2. o.session \in Session
        BY DEF StoreOp
      <4>3. Append(disk[o.session], Torn) \in Seq(Line \cup {Torn})
        BY <4>2, AppendProperties DEF JournalTypeOK
      <4> QED BY <3>2, <4>1, <4>2, <4>3 DEF JournalTypeOK
    <3> QED BY <1>4, <3>1, <3>2 DEF Restart
  <2> QED
    BY <1>0, <1>4, <2>1, <2>2, <2>3, EmptySeq DEF Restart, JournalTypeOK
<1> QED BY <1>1, <1>2, <1>3, <1>4 DEF JournalStep

(* The journal's part of the type invariant, for any sessions, turns, tails *)
(* and restarts: its tails stay within their bound and it is in at most one *)
(* store operation (SessionEventJournal::record).                           *)
THEOREM JournalTypeCorrect == Spec => []JournalTypeOK
<1>1. Init => JournalTypeOK
  <2> SUFFICES ASSUME Init PROVE JournalTypeOK
    OBVIOUS
  <2>1. Len(<<>>) = 0 /\ MaxTail \in Nat \ {0} /\ MaxRestarts \in Nat
    BY EmptySeq, JournalConstants
  <2>2. stream \in Streams /\ sequence \in Nat
    BY <2>1 DEF Init, JournalInit, Streams
  <2> QED
    BY <2>1, <2>2, NoProjectionType, EmptySeq
       DEF Init, JournalInit, JournalTypeOK, NoProjection
<1>2. JournalTypeOK /\ [Next]_vars => JournalTypeOK'
  BY NextSteps, JournalTypeStep DEF journal, JournalTypeOK
<1> QED BY <1>1, <1>2, PTL DEF Spec

-----------------------------------------------------------------------------
(* A delta is what was missed *)

(* The tail of the projection p is the end of r, numbered as r is.          *)
IsTailOf(p, r) ==
  /\ p.cursor = Len(r)
  /\ Len(p.tail) <= Len(r)
  /\ \A i \in 1..Len(p.tail) :
       /\ p.tail[i].cursor = Len(r) - Len(p.tail) + i
       /\ p.tail[i].event = r[Len(r) - Len(p.tail) + i]

(* The inductive invariant behind DeltaIsMissedSuffix; a process that has   *)
(* not begun has recorded nothing.                                          *)
TailsAreSuffixes ==
  /\ \A s \in Session : IsTailOf(sessions[s], Recorded(s))
  /\ \A s \in Session, p \in Streams : p > stream => history[s][p] = <<>>

(* Without a tail nothing more is asked than the cursor.                    *)
LEMMA EmptyTail ==
  ASSUME NEW p, p.tail = <<>>, NEW r \in Seq(Event), p.cursor = Len(r)
  PROVE  IsTailOf(p, r)
BY EmptySeq DEF IsTailOf

(* Positions in a tail of m entries after one of l, and in what it ends.    *)
LEMMA Positions ==
  ASSUME NEW l \in Nat, NEW m \in {l, l + 1}, NEW n \in Nat, l <= n,
         NEW i \in 1..m
  PROVE  /\ i = m => n + 1 - m + i = n + 1
         /\ i # m => /\ i \in 1..(m - 1)
                     /\ l - m + 1 + i \in 1..l
                     /\ n + 1 - m + i = n - l + (l - m + 1 + i)
                     /\ n + 1 - m + i \in 1..n
<1>1. CASE m = l
  BY <1>1
<1>2. CASE m = l + 1
  BY <1>2
<1> QED BY <1>1, <1>2

(* What was recorded, with one event more.                                  *)
LEMMA Appended ==
  ASSUME NEW r \in Seq(Event), NEW e \in Event
  PROVE  \E s \in Seq(Event), n \in Nat :
           /\ s = Append(r, e) /\ n = Len(r) /\ Len(s) = n + 1
           /\ s[n + 1] = e /\ \A i \in 1..n : s[i] = r[i]
<1>1. PICK s : s = Append(r, e)
  OBVIOUS
<1>2. /\ Append(r, e) \in Seq(Event)
      /\ Len(Append(r, e)) = Len(r) + 1 /\ Append(r, e)[Len(r) + 1] = e
      /\ \A i \in 1..Len(r) : Append(r, e)[i] = r[i]
  BY AppendProperties
<1>3. PICK n \in Nat : n = Len(r)
  BY LenProperties
<1>4. /\ s \in Seq(Event) /\ Len(s) = n + 1 /\ s[n + 1] = e
      /\ \A i \in 1..n : s[i] = r[i]
  BY ONLY <1>1, <1>2, <1>3, Zenon
<1> QED BY <1>1, <1>3, <1>4

(* The tail after an event ends with it.                                    *)
LEMMA LongerTail ==
  ASSUME NEW p \in Projection, Len(p.tail) <= MaxTail, NEW r \in Seq(Event),
         IsTailOf(p, r), NEW e \in Event,
         NEW q, q.cursor = p.cursor + 1,
         q.tail = PushTail(p.tail, [cursor |-> p.cursor + 1, event |-> e])
  PROVE  IsTailOf(q, Append(r, e))
<1>1. PICK tail \in Seq(Entry), n \in Nat, l \in Nat :
        /\ tail = p.tail /\ n = Len(r) /\ n = p.cursor
        /\ l = Len(tail) /\ l <= n /\ l <= MaxTail
  BY LenProperties DEF Projection, IsTailOf
<1>2. PICK entry : entry = [cursor |-> n + 1, event |-> e]
  OBVIOUS
<1>3. entry \in Entry /\ entry.cursor = n + 1 /\ entry.event = e
  BY <1>2 DEF Entry
<1>4. PICK longer \in Seq(Entry), m \in Nat :
        /\ longer = q.tail /\ m = Len(longer) /\ m \in {l, l + 1}
        /\ m \in 1..MaxTail /\ longer[m] = entry
        /\ \A i \in 1..(m - 1) : longer[i] = tail[l - m + 1 + i]
  <2>1. PICK longer : longer = q.tail /\ longer = PushTail(tail, entry)
    BY <1>1, <1>2
  <2>2. Len(tail) <= MaxTail
    BY <1>1
  <2>3. /\ longer \in Seq(Entry)
        /\ Len(longer) \in {Len(tail), Len(tail) + 1}
        /\ Len(longer) \in 1..MaxTail
        /\ longer[Len(longer)] = entry
        /\ \A i \in 1..(Len(longer) - 1) :
             longer[i] = tail[Len(tail) - Len(longer) + 1 + i]
    <3>1. LET x == PushTail(tail, entry) IN
          /\ x \in Seq(Entry)
          /\ Len(x) \in {Len(tail), Len(tail) + 1} /\ Len(x) \in 1..MaxTail
          /\ x[Len(x)] = entry
          /\ \A i \in 1..(Len(x) - 1) :
               x[i] = tail[Len(tail) - Len(x) + 1 + i]
      BY <1>3, <2>2, PushTailFacts, Zenon
    <3> QED BY ONLY <2>1, <3>1, Zenon
  <2>4. PICK m \in Nat : m = Len(longer)
    BY <2>3, LenProperties
  <2> QED BY <1>1, <2>1, <2>3, <2>4
<1>5. PICK s \in Seq(Event) : s = Append(r, e) /\ Len(s) = n + 1
                               /\ s[n + 1] = e
                               /\ \A i \in 1..n : s[i] = r[i]
  <2>1. PICK x \in Seq(Event), k \in Nat :
          /\ x = Append(r, e) /\ k = Len(r) /\ Len(x) = k + 1
          /\ x[k + 1] = e /\ \A i \in 1..k : x[i] = r[i]
    BY Appended
  <2>2. k = n
    BY <1>1, <2>1
  <2> QED BY <2>1, <2>2
<1>6. \A j \in 1..l : /\ tail[j].cursor = n - l + j
                      /\ tail[j].event = r[n - l + j]
  BY <1>1 DEF IsTailOf
<1>7. ASSUME NEW i \in 1..m
      PROVE  /\ longer[i].cursor = n + 1 - m + i
             /\ longer[i].event = s[n + 1 - m + i]
  <2>1. CASE i = m
    BY <1>1, <1>3, <1>4, <1>5, <2>1, Positions
  <2>2. CASE i # m
    <3>1. PICK j : j = l - m + 1 + i
      OBVIOUS
    <3>2. /\ l - m + 1 + i \in 1..l /\ i \in 1..(m - 1)
          /\ n + 1 - m + i = n - l + (l - m + 1 + i)
          /\ n + 1 - m + i \in 1..n
      <4>1. l <= n /\ m \in {l, l + 1}
        BY <1>1, <1>4
      <4> HIDE <3>1
      <4> QED BY <4>1, <2>2, Positions
    <3>3. longer[i] = tail[j] /\ j \in 1..l /\ n + 1 - m + i = n - l + j
      BY <1>4, <3>1, <3>2
    <3> QED BY <1>6, <1>5, <3>2, <3>3
  <2> QED BY <2>1, <2>2
<1>8. q.cursor = n + 1 /\ m <= n + 1
  BY <1>1, <1>4
<1>9. \A i \in 1..Len(q.tail) :
         /\ q.tail[i].cursor = Len(s) - Len(q.tail) + i
         /\ q.tail[i].event = s[Len(s) - Len(q.tail) + i]
  <2>1. Len(q.tail) = m /\ Len(s) = n + 1 /\ q.tail = longer
    BY <1>4, <1>5
  <2>2. \A i \in 1..m : /\ longer[i].cursor = (n + 1) - m + i
                        /\ longer[i].event = s[(n + 1) - m + i]
    BY <1>7
  <2> QED BY ONLY <2>1, <2>2, Zenon
<1>10. q.cursor = Len(s) /\ Len(q.tail) <= Len(s)
  BY <1>4, <1>8, <1>5
<1> QED BY <1>5, <1>9, <1>10 DEF IsTailOf

LEMMA TailsStep ==
  ASSUME JournalTypeOK, TailsAreSuffixes, JournalStep
  PROVE  TailsAreSuffixes'
<1>0. \A s \in Session : /\ sessions[s] \in Projection
                         /\ Len(sessions[s].tail) <= MaxTail
                         /\ Recorded(s) \in Seq(Event)
  BY DEF JournalTypeOK, Recorded
<1>1. ASSUME NEW s \in Session, NEW t \in Turn, NEW k \in Kind,
             Record(s, t, k)
      PROVE  TailsAreSuffixes'
  <2>1. PICK e \in Event :
          /\ history' = [history EXCEPT ![s][stream] = Append(Recorded(s), e)]
          /\ Recorded(s)' = Append(Recorded(s), e)
          /\ \A u \in Session : u # s => Recorded(u)' = Recorded(u)
          /\ \A u \in Session :
               sessions'[u] \in
                 Pruned(IF u = s THEN Projected(sessions[s], e, sequence)
                                 ELSE sessions[u])
          /\ stream' = stream
    BY <1>1, RecordFacts
  <2>2. sequence \in Nat
    BY DEF JournalTypeOK
  <2>3. ASSUME NEW u \in Session
        PROVE  IsTailOf(sessions[u], Recorded(u))'
    <3>1. PICK p \in Projection, r \in Seq(Event) :
            /\ IsTailOf(p, r) /\ r = Recorded(u)' /\ sessions'[u] \in Pruned(p)
      <4>1. CASE u = s
        <5>1. /\ IsTailOf(Projected(sessions[s], e, sequence), Recorded(s)')
              /\ Projected(sessions[s], e, sequence) \in Projection
              /\ Recorded(s)' \in Seq(Event)
          <6>1. PICK q \in Projection :
                  /\ q = Projected(sessions[s], e, sequence)
                  /\ q.cursor = sessions[s].cursor + 1
                  /\ q.tail = PushTail(sessions[s].tail,
                                [cursor |-> sessions[s].cursor + 1,
                                 event |-> e])
            BY <1>0, <2>2, ProjectedFacts
          <6>2. PICK r \in Seq(Event) :
                  r = Recorded(s) /\ IsTailOf(sessions[s], r)
            BY <1>0 DEF TailsAreSuffixes
          <6>3. IsTailOf(q, Append(r, e)) /\ Append(r, e) \in Seq(Event)
            BY <1>0, <6>1, <6>2, LongerTail, AppendProperties
          <6> QED BY <2>1, <6>1, <6>2, <6>3
        <5> QED BY <2>1, <4>1, <5>1
      <4>2. CASE u # s
        BY <1>0, <2>1, <4>2 DEF TailsAreSuffixes
      <4> QED BY <4>1, <4>2
    <3>2. IsTailOf(ClearReplayContent(p), r)
      <4>1. PICK q : /\ q = ClearReplayContent(p)
                     /\ q.tail = <<>> /\ q.cursor = p.cursor
        BY ClearedType
      <4> QED BY <3>1, <4>1, EmptyTail DEF IsTailOf
    <3>3. IsTailOf(sessions'[u], Recorded(u)')
      BY <3>1, <3>2 DEF Pruned
    <3> QED BY <3>3 DEF IsTailOf
  <2>4. \A u \in Session, p \in Streams :
          p > stream => history'[u][p] = history[u][p]
    BY <2>1 DEF JournalTypeOK, Streams
  <2>5. \A u \in Session : IsTailOf(sessions[u], Recorded(u))'
    BY <2>3
  <2>6. \A u \in Session, p \in Streams : p > stream' => history'[u][p] = <<>>
    BY <2>1, <2>4 DEF TailsAreSuffixes
  <2> QED BY ONLY <2>5, <2>6 DEF TailsAreSuffixes
<1>2. ASSUME NEW s \in Session, Delete(s)
      PROVE  TailsAreSuffixes'
  <2>1. UNCHANGED <<stream, history>>
        /\ \A u \in Session : Recorded(u)' = Recorded(u)
    BY <1>2 DEF Delete, Recorded
  <2>2. PICK q \in Projection :
          /\ q = ClearReplayContent(sessions[s]) /\ q.tail = <<>>
          /\ q.cursor = sessions[s].cursor
    BY <1>0, ClearedType
  <2>3. sessions' = [sessions EXCEPT ![s] = [q EXCEPT !.terminal = TRUE]]
    BY <1>2, <2>2 DEF Delete
  <2>4. sessions'[s].tail = <<>> /\ sessions'[s].cursor = sessions[s].cursor
    BY <2>2, <2>3 DEF JournalTypeOK, Projection
  <2>5. \A u \in Session : u # s => sessions'[u] = sessions[u]
    BY <2>3 DEF JournalTypeOK
  <2>6. ASSUME NEW u \in Session
        PROVE  IsTailOf(sessions'[u], Recorded(u))
    <3>1. IsTailOf(sessions[u], Recorded(u))
      BY DEF TailsAreSuffixes
    <3>2. CASE u = s
      <4>1. PICK p : /\ p = sessions'[s] /\ p.tail = <<>>
                     /\ p.cursor = Len(Recorded(s))
        BY <2>4, <3>1, <3>2 DEF IsTailOf
      <4> QED BY <1>0, <3>2, <4>1, EmptyTail
    <3> QED BY <2>5, <3>1, <3>2
  <2>7. \A u \in Session : IsTailOf(sessions[u], Recorded(u))'
    BY <2>1, <2>6 DEF IsTailOf
  <2> QED BY <2>1, <2>7 DEF TailsAreSuffixes
<1>3. CASE Stored
  BY <1>3 DEF Stored, TailsAreSuffixes, IsTailOf, Recorded
<1>4. CASE Restart
  <2>1. /\ stream' = stream + 1 /\ stream \in Nat /\ stream' \in Streams
        /\ history' = history /\ \A s \in Session : sessions'[s] = NoProjection
    BY <1>4, JournalConstants DEF Restart, JournalTypeOK, Streams
  <2>2. ASSUME NEW s \in Session
        PROVE  IsTailOf(sessions[s], Recorded(s))'
    <3>1. Recorded(s)' = <<>>
      BY <2>1 DEF TailsAreSuffixes, Recorded
    <3>2. /\ Len(<<>>) = 0 /\ <<>> \in Seq(Event)
          /\ NoProjection.tail = <<>> /\ NoProjection.cursor = 0
      BY EmptySeq DEF NoProjection
    <3>3. IsTailOf(NoProjection, <<>>)
      BY <3>2, EmptyTail
    <3> QED BY <2>1, <3>1, <3>3 DEF IsTailOf
  <2>3. \A s \in Session, p \in Streams : p > stream' => history'[s][p] = <<>>
    BY <2>1 DEF TailsAreSuffixes, Streams
  <2> QED BY <2>2, <2>3 DEF TailsAreSuffixes
<1> QED BY <1>1, <1>2, <1>3, <1>4 DEF JournalStep

(* The positions k + 1..l, counted from the first.                          *)
LEMMA NthOfInterval ==
  ASSUME NEW k \in Nat, NEW l \in Nat, k <= l, NEW i \in 1..(l - k)
  PROVE  Nth((k + 1)..l, i) = k + i
<1>1. \A j \in (k + 1)..l : Cardinality({x \in (k + 1)..l : x <= j}) = j - k
  <2> TAKE j \in (k + 1)..l
  <2>1. {x \in (k + 1)..l : x <= j} = (k + 1)..j
    OBVIOUS
  <2>2. Cardinality((k + 1)..j) = j - k
    BY FS_Interval
  <2> QED BY <2>1, <2>2
<1>2. k + i \in (k + 1)..l /\ (k + i) - k = i
  OBVIOUS
<1>3. \A j \in (k + 1)..l :
        Cardinality({x \in (k + 1)..l : x <= j}) = i <=> j = k + i
  BY <1>1
<1> QED BY <1>2, <1>3 DEF Nth

(* What tail_since answers of a tail that reaches back to the cursor c.     *)
LEMMA TailSinceIsSuffix ==
  ASSUME NEW p \in Projection, NEW r \in Seq(Event), IsTailOf(p, r),
         NEW c \in Nat, Reaches(p, c)
  PROVE  c <= Len(r) /\ TailSince(p, c) = SubSeq(r, c + 1, Len(r))
<1>1. PICK tail \in Seq(Entry), n \in Nat, l \in Nat :
        /\ tail = p.tail /\ n = Len(r) /\ n = p.cursor
        /\ l = Len(tail) /\ l <= n
  BY LenProperties DEF Projection, IsTailOf
<1>2. \A i \in 1..l : /\ tail[i].cursor = n - l + i
                      /\ tail[i].event = r[n - l + i]
  BY <1>1 DEF IsTailOf
<1>3. c <= n /\ n <= c + l
  <2>1. CASE c = p.cursor
    BY <1>1, <2>1
  <2>2. CASE c < p.cursor /\ tail # <<>> /\ tail[1].cursor <= c + 1
    <3>1. l # 0
      BY <1>1, <2>2, EmptySeq
    <3>2. tail[1].cursor = n - l + 1
      BY <1>2, <3>1
    <3> QED BY <1>1, <2>2, <3>2
  <2> QED BY <1>1, <2>1, <2>2 DEF Reaches
<1>4. PICK k \in Nat : k = c + l - n /\ k <= l /\ l - k = n - c
  BY <1>3
<1>5. {i \in 1..l : tail[i].cursor > c} = (k + 1)..l
  <2>1. \A i \in 1..l : tail[i].cursor > c <=> i >= k + 1
    BY <1>2, <1>4
  <2>2. /\ (k + 1)..l \subseteq 1..l
        /\ \A i \in 1..l : i \in (k + 1)..l <=> i >= k + 1
    OBVIOUS
  <2> QED BY <2>1, <2>2
<1>6. Cardinality((k + 1)..l) = n - c
  <2>1. Cardinality((k + 1)..l) = IF k + 1 > l THEN 0 ELSE l - (k + 1) + 1
    BY FS_Interval
  <2> QED BY <1>4, <2>1
<1>7. TailSince(p, c) =
        [i \in 1..(n - c) |-> tail[Nth((k + 1)..l, i)].event]
  BY <1>1, <1>5, <1>6 DEF TailSince
<1>8. \A i \in 1..(n - c) : tail[Nth((k + 1)..l, i)].event = r[c + i]
  <2> TAKE i \in 1..(n - c)
  <2>1. Nth((k + 1)..l, i) = k + i
    BY <1>4, NthOfInterval
  <2>2. k + i \in 1..l /\ n - l + (k + i) = c + i
    BY <1>3, <1>4
  <2> QED BY <1>2, <2>1, <2>2
<1>9. TailSince(p, c) = [i \in 1..(n - c) |-> r[c + i]]
  BY <1>7, <1>8
<1>10. SubSeq(r, c + 1, n) = [i \in 1..(n - c) |-> r[c + i]]
  <2>1. \A i \in (c + 1)..n : r[i] \in Event
    <3>1. \A i \in (c + 1)..n : i \in 1..Len(r)
      BY <1>1
    <3> QED BY <3>1, ElementOfSeq
  <2>2. /\ SubSeq(r, c + 1, n) \in Seq(Event)
        /\ Len(SubSeq(r, c + 1, n)) = n - c
        /\ \A i \in 1..(n - c) : SubSeq(r, c + 1, n)[i] = r[c + i]
    BY <1>3, <2>1, SubSeqProperties
  <2> QED BY <1>3, <2>2, LenProperties
<1> QED BY <1>1, <1>3, <1>9, <1>10

LEMMA InitialTails ==
  ASSUME Init
  PROVE  TailsAreSuffixes
<1>1. /\ NoProjection.tail = <<>> /\ NoProjection.cursor = 0
      /\ Len(<<>>) = 0 /\ <<>> \in Seq(Event)
  BY EmptySeq DEF NoProjection
<1>2. stream \in Streams
      /\ \A s \in Session : /\ sessions[s] = NoProjection
                            /\ \A p \in Streams : history[s][p] = <<>>
  BY JournalConstants DEF Init, JournalInit, Streams
<1> QED BY <1>1, <1>2, EmptyTail DEF TailsAreSuffixes, Recorded

(* A delta holds exactly the events recorded after the cursor it was asked  *)
(* for, for any bound of the tail and whatever was evicted, pruned or       *)
(* deleted since (SessionEventJournal::events_since and tail_since).        *)
THEOREM DeltasAreWhatWasMissed == Spec => []DeltaIsMissedSuffix
<1>1. Init => TailsAreSuffixes
  BY InitialTails
<1>2. JournalTypeOK /\ TailsAreSuffixes /\ [Next]_vars => TailsAreSuffixes'
  <2> SUFFICES ASSUME JournalTypeOK, TailsAreSuffixes, [Next]_vars
               PROVE  TailsAreSuffixes'
    OBVIOUS
  <2>1. CASE UNCHANGED journal
    BY <2>1 DEF journal, TailsAreSuffixes, IsTailOf, Recorded
  <2> QED BY <2>1, NextSteps, TailsStep
<1>3. JournalTypeOK /\ TailsAreSuffixes => DeltaIsMissedSuffix
  <2> SUFFICES ASSUME JournalTypeOK, TailsAreSuffixes, NEW s \in Session,
                      NEW c \in 0..(Len(Recorded(s)) + 1),
                      EventsSince(s, [stream |-> stream, cursor |-> c]).kind
                        = "delta"
               PROVE  LET d == EventsSince(s, [stream |-> stream,
                                               cursor |-> c]) IN
                      /\ c <= Len(Recorded(s))
                      /\ d.events = SubSeq(Recorded(s), c + 1,
                                           Len(Recorded(s)))
                      /\ d.cursor = Len(Recorded(s))
    BY DEF DeltaIsMissedSuffix
  <2>1. Reaches(sessions[s], c)
        /\ EventsSince(s, [stream |-> stream, cursor |-> c]) =
             [kind |-> "delta", cursor |-> sessions[s].cursor,
              events |-> TailSince(sessions[s], c)]
    BY DEF EventsSince, SnapshotRequired
  <2>2. /\ sessions[s] \in Projection /\ Recorded(s) \in Seq(Event)
        /\ IsTailOf(sessions[s], Recorded(s)) /\ c \in Nat
    BY LenProperties DEF JournalTypeOK, TailsAreSuffixes, Recorded
  <2>3. /\ c <= Len(Recorded(s))
        /\ TailSince(sessions[s], c) =
             SubSeq(Recorded(s), c + 1, Len(Recorded(s)))
    BY <2>1, <2>2, TailSinceIsSuffix
  <2> QED BY <2>1, <2>2, <2>3 DEF IsTailOf
<1> QED BY <1>1, <1>2, <1>3, JournalTypeCorrect, PTL DEF Spec

-----------------------------------------------------------------------------
(* The projection of a turn in flight is whole *)

(* The turns of s that some process saw end.                                *)
Ended(s) == {t \in Turn : Did(s, t, "ended")}

(* These are the events at the end of r since it came to the turn t.        *)
EndsWith(events, r, t) ==
  \E first \in 1..Len(r) :
    /\ events = SubSeq(r, first, Len(r))
    /\ \A i \in first..Len(r) : r[i].turn = t
    /\ first > 1 => r[first - 1].turn # t

(* The projection p follows what was recorded, r, where the turns of over   *)
(* have ended: it knows the turn r came to, unless that is over.            *)
Follows(p, r, over) ==
  /\ p.terminal => r # <<>> /\ r[Len(r)].turn \in over
  /\ p.turn # NoTurn => r # <<>> /\ r[Len(r)].turn = p.turn
  /\ p.turn = NoTurn => r = <<>> \/ p.terminal
  /\ p.turn \notin over \cup {NoTurn} => EndsWith(p.events, r, p.turn)

(* The inductive invariant behind SnapshotIsWhole: a pruned projection      *)
(* forgets the turn only when it is over, so the next event is of another.  *)
ProjectionsFollow ==
  \A s \in Session \ deleted : Follows(sessions[s], Recorded(s), Ended(s))

(* More turns that are over leave less to be whole.                         *)
LEMMA MoreEnded ==
  ASSUME NEW p, NEW r, NEW over, NEW more, over \subseteq more,
         Follows(p, r, over)
  PROVE  Follows(p, r, more)
BY DEF Follows

(* Nothing is asked of the content of a turn that is over.                  *)
LEMMA ClearedFollows ==
  ASSUME NEW p, p.terminal, NEW q, q.terminal, q.turn = NoTurn,
         NEW r, NEW over, Follows(p, r, over)
  PROVE  Follows(q, r, over)
BY DEF Follows

(* A projection is terminal after an event only if the turn ended with it   *)
(* or had ended before.                                                     *)
LEMMA TerminalAfter ==
  ASSUME NEW p \in Projection, Len(p.tail) <= MaxTail, NEW e \in Event,
         NEW n \in Nat, Projected(p, e, n).terminal
  PROVE  e.kind = "ended" \/ (p.terminal /\ p.turn = e.turn)
<1> SUFFICES ASSUME e.kind # "ended"
             PROVE  p.terminal /\ p.turn = e.turn
  OBVIOUS
<1>1. Projected(p, e, n).terminal =
        CASE e.kind = "started" -> FALSE
          [] e.kind = "ended" -> TRUE
          [] OTHER -> p.terminal /\ p.turn = e.turn
  BY ProjectedFacts, Zenon
<1>2. "started" # "ended"
  OBVIOUS
<1> QED BY ONLY <1>1, <1>2, e.kind # "ended", Projected(p, e, n).terminal,
                Zenon

(* The end of a sequence grows with it.                                     *)
LEMMA LongerEnd ==
  ASSUME NEW r \in Seq(Event), NEW e \in Event, NEW events,
         EndsWith(events, r, e.turn)
  PROVE  EndsWith(Append(events, e), Append(r, e), e.turn)
<1>1. PICK first \in 1..Len(r) :
        /\ events = SubSeq(r, first, Len(r))
        /\ \A i \in first..Len(r) : r[i].turn = e.turn
        /\ first > 1 => r[first - 1].turn # e.turn
  BY DEF EndsWith
<1>2. PICK s \in Seq(Event), n \in Nat :
        /\ s = Append(r, e) /\ n = Len(r) /\ Len(s) = n + 1
        /\ s[n + 1] = e /\ \A i \in 1..n : s[i] = r[i]
  BY Appended
<1>3. Append(events, e) = SubSeq(s, first, n + 1)
  <2>1. SubSeq(s, first, n + 1) = SubSeq(s, first, n + 1 - 1) \o <<s[n + 1]>>
    BY <1>2, SubSeqRecursiveSecond
  <2>2. SubSeq(s, first, n) = SubSeq(r, first, n)
    <3>1. \A i \in first..n : i \in 1..n /\ r[i] \in Event /\ s[i] \in Event
      BY <1>2, ElementOfSeq
    <3> QED BY <1>2, <3>1, SubSeqProperties
  <2>3. events \in Seq(Event)
    BY <1>1
  <2> QED BY <1>1, <1>2, <2>1, <2>2, <2>3, AppendIsConcat
<1>4. \A i \in first..(n + 1) : s[i].turn = e.turn
  <2> TAKE i \in first..(n + 1)
  <2>1. CASE i = n + 1
    BY <1>2, <2>1
  <2>2. CASE i # n + 1
    <3>1. i \in first..n /\ i \in 1..n
      BY <1>2, <2>2
    <3> QED BY <1>1, <1>2, <3>1
  <2> QED BY <2>1, <2>2
<1>5. first > 1 => s[first - 1].turn # e.turn
  <2> SUFFICES ASSUME first > 1 PROVE s[first - 1] = r[first - 1]
    BY <1>1
  <2>1. first - 1 \in 1..n
    BY <1>2
  <2> QED BY <1>2, <2>1
<1>6. first \in 1..Len(s) /\ Len(s) = n + 1
  BY <1>2
<1>7. EndsWith(Append(events, e), s, e.turn)
  BY <1>3, <1>4, <1>5, <1>6 DEF EndsWith
<1> QED BY <1>2, <1>7

(* After an event of another turn only that event is of the turn.           *)
LEMMA FreshEnd ==
  ASSUME NEW r \in Seq(Event), NEW e \in Event,
         r # <<>> => r[Len(r)].turn # e.turn
  PROVE  EndsWith(Append(<<>>, e), Append(r, e), e.turn)
<1>1. PICK s \in Seq(Event), n \in Nat :
        /\ s = Append(r, e) /\ n = Len(r) /\ Len(s) = n + 1
        /\ s[n + 1] = e /\ \A i \in 1..n : s[i] = r[i]
  BY Appended
<1>2. SubSeq(s, n + 1, n + 1) = Append(<<>>, e)
  <2>1. /\ SubSeq(s, n + 1, n + 1) \in Seq(Event)
        /\ Len(SubSeq(s, n + 1, n + 1)) = 1
        /\ SubSeq(s, n + 1, n + 1)[1] = e
    BY <1>1, SubSeqProperties
  <2>2. /\ Append(<<>>, e) \in Seq(Event) /\ Len(Append(<<>>, e)) = 1
        /\ Append(<<>>, e)[1] = e
    BY EmptySeq, AppendProperties
  <2>3. ASSUME NEW x \in Seq(Event), NEW y \in Seq(Event),
               Len(x) = 1, Len(y) = 1, x[1] = y[1]
        PROVE  x = y
    BY <2>3, SeqEqual
  <2> QED BY <2>1, <2>2, <2>3
<1>3. n + 1 > 1 => s[n + 1 - 1].turn # e.turn
  BY <1>1, EmptySeq
<1>4. \A i \in (n + 1)..(n + 1) : s[i].turn = e.turn
  BY <1>1
<1> QED BY <1>1, <1>2, <1>3, <1>4 DEF EndsWith

(* The projection follows what is recorded, with one event more.            *)
LEMMA FollowsRecorded ==
  ASSUME NEW p \in Projection, Len(p.tail) <= MaxTail, NEW r \in Seq(Event),
         NEW over, Follows(p, r, over), NEW e \in Event, NEW n \in Nat,
         NEW more, over \subseteq more, e.kind = "ended" => e.turn \in more
  PROVE  Follows(Projected(p, e, n), Append(r, e), more)
<1>1. PICK q : /\ q = Projected(p, e, n) /\ q.turn = e.turn
               /\ q.events = Append(IF p.turn # e.turn THEN <<>>
                                    ELSE p.events, e)
  <2>1. Projected(p, e, n).turn = e.turn
    BY ProjectedFacts, Zenon
  <2>2. Projected(p, e, n).events =
          Append(IF p.turn # e.turn THEN <<>> ELSE p.events, e)
    BY ProjectedFacts, Zenon
  <2>3. PICK q : q = Projected(p, e, n)
    OBVIOUS
  <2> QED BY ONLY <2>1, <2>2, <2>3, Zenon
<1>2. PICK s : /\ s = Append(r, e) /\ s # <<>> /\ s[Len(s)] = e
  <2>1. PICK s \in Seq(Event), k \in Nat :
          /\ s = Append(r, e) /\ Len(s) = k + 1 /\ s[k + 1] = e
    BY Appended
  <2> QED BY <2>1, EmptySeq
<1>3. e.turn \in Turn /\ e.turn # NoTurn
  BY JournalConstants DEF Event, Turn, NoTurn
<1>4. ASSUME q.terminal
      PROVE  e.turn \in more
  <2>1. e.kind = "ended" \/ (p.terminal /\ p.turn = e.turn)
    BY <1>1, <1>4, TerminalAfter
  <2>2. p.terminal /\ p.turn = e.turn => e.turn \in over
    BY <1>3 DEF Follows
  <2> QED BY <2>1, <2>2
<1>5. ASSUME e.turn \notin more
      PROVE  EndsWith(q.events, s, e.turn)
  <2>1. CASE p.turn = e.turn
    <3>1. EndsWith(p.events, r, e.turn)
      BY <1>3, <1>5, <2>1 DEF Follows
    <3>2. q.events = Append(p.events, e)
      BY <1>1, <2>1
    <3> QED BY <1>2, <3>1, <3>2, LongerEnd
  <2>2. CASE p.turn # e.turn
    <3>1. r # <<>> => r[Len(r)].turn # e.turn
      BY <1>5, <2>2 DEF Follows
    <3>2. q.events = Append(<<>>, e)
      BY <1>1, <2>2
    <3> QED BY <1>2, <3>1, <3>2, FreshEnd
  <2> QED BY <2>1, <2>2
<1>6. Follows(q, s, more)
  BY <1>1, <1>2, <1>3, <1>4, <1>5 DEF Follows
<1> QED BY <1>1, <1>2, <1>6

(* Recording an event adds it to the events of its session.                 *)
LEMMA EndedGrows ==
  ASSUME JournalTypeOK, NEW s \in Session, NEW e \in Event,
         history' = [history EXCEPT ![s][stream] = Append(Recorded(s), e)]
  PROVE  /\ \A u \in Session : Ended(u) \subseteq Ended(u)'
         /\ e.kind = "ended" => e.turn \in Ended(s)'
<1>1. /\ stream \in Streams /\ Recorded(s) \in Seq(Event)
      /\ history \in [Session -> [Streams -> Seq(Event)]]
  BY DEF JournalTypeOK, Recorded
<1>2. /\ \A x \in ToSet(Recorded(s)) : x \in ToSet(Append(Recorded(s), e))
      /\ e \in ToSet(Append(Recorded(s), e))
  <2>1. PICK r \in Seq(Event) : r = Recorded(s)
    BY <1>1
  <2>2. PICK x \in Seq(Event), k \in Nat :
          /\ x = Append(r, e) /\ k = Len(r) /\ Len(x) = k + 1
          /\ x[k + 1] = e /\ \A i \in 1..k : x[i] = r[i]
    BY Appended
  <2>3. /\ ToSet(x) = {x[i] : i \in 1..(k + 1)}
        /\ ToSet(r) = {r[i] : i \in 1..k}
    BY <2>2, LenProperties DEF ToSet
  <2>4. k + 1 \in 1..(k + 1) /\ \A i \in 1..k : i \in 1..(k + 1)
    OBVIOUS
  <2> QED BY <2>1, <2>2, <2>3, <2>4
<1>3. ASSUME NEW u \in Session, NEW p \in Streams
      PROVE  \A x \in ToSet(history[u][p]) : x \in ToSet(history'[u][p])
  <2>1. CASE u = s /\ p = stream
    BY <1>1, <1>2, <2>1 DEF Recorded
  <2>2. CASE ~(u = s /\ p = stream)
    BY <1>1, <2>2
  <2> QED BY <2>1, <2>2
<1>4. \A u \in Session : \A x \in EventsOf(u) : x \in EventsOf(u)'
  BY <1>3 DEF EventsOf
<1>5. e \in EventsOf(s)'
  <2>1. history'[s][stream] = Append(Recorded(s), e)
    BY <1>1
  <2> QED BY <1>1, <1>2, <2>1 DEF EventsOf
<1>6. \A u \in Session : Ended(u) \subseteq Ended(u)'
  BY <1>4 DEF Ended, Did
<1>7. e.kind = "ended" => e.turn \in Ended(s)'
  BY <1>5 DEF Ended, Did, Event
<1> QED BY <1>6, <1>7

LEMMA FollowStep ==
  ASSUME JournalTypeOK, TailsAreSuffixes, ProjectionsFollow, JournalStep
  PROVE  ProjectionsFollow'
<1>0. \A s \in Session : /\ sessions[s] \in Projection
                         /\ Len(sessions[s].tail) <= MaxTail
                         /\ Recorded(s) \in Seq(Event)
  BY DEF JournalTypeOK, Recorded
<1>1. ASSUME NEW s \in Session, NEW t \in Turn, NEW k \in Kind,
             Record(s, t, k)
      PROVE  ProjectionsFollow'
  <2>1. PICK e \in Event :
          /\ history' = [history EXCEPT ![s][stream] = Append(Recorded(s), e)]
          /\ Recorded(s)' = Append(Recorded(s), e)
          /\ \A u \in Session : u # s => Recorded(u)' = Recorded(u)
          /\ \A u \in Session :
               sessions'[u] \in
                 Pruned(IF u = s THEN Projected(sessions[s], e, sequence)
                                 ELSE sessions[u])
          /\ deleted' = deleted
    BY <1>1, RecordFacts
  <2>2. /\ \A u \in Session : Ended(u) \subseteq Ended(u)'
        /\ e.kind = "ended" => e.turn \in Ended(s)'
    BY <2>1, EndedGrows
  <2>3. sequence \in Nat
    BY DEF JournalTypeOK
  <2>4. ASSUME NEW u \in Session \ deleted
        PROVE  Follows(sessions'[u], Recorded(u)', Ended(u)')
    <3>1. Follows(sessions[u], Recorded(u), Ended(u))
      BY DEF ProjectionsFollow
    <3>2. PICK p \in Projection :
            /\ Follows(p, Recorded(u)', Ended(u)')
            /\ sessions'[u] \in Pruned(p)
      <4>1. CASE u = s
        <5>1. Projected(sessions[s], e, sequence) \in Projection
          BY <1>0, <2>3, ProjectedFacts, Zenon
        <5>2. Follows(Projected(sessions[s], e, sequence),
                      Append(Recorded(s), e), Ended(s)')
          BY <1>0, <2>2, <2>3, <3>1, <4>1, FollowsRecorded
        <5> QED BY <2>1, <4>1, <5>1, <5>2
      <4>2. CASE u # s
        BY <1>0, <2>1, <2>2, <3>1, <4>2, MoreEnded
      <4> QED BY <4>1, <4>2
    <3>3. CASE sessions'[u] = p
      BY <3>2, <3>3
    <3>4. CASE p.terminal /\ sessions'[u] = ClearReplayContent(p)
      <4>1. PICK q : /\ q = ClearReplayContent(p) /\ q.turn = NoTurn
                     /\ q.terminal = p.terminal
        BY ClearedType
      <4> QED BY <3>2, <3>4, <4>1, ClearedFollows
    <3> QED BY <3>2, <3>3, <3>4 DEF Pruned
  <2> QED BY <2>1, <2>4 DEF ProjectionsFollow
<1>2. ASSUME NEW s \in Session, Delete(s)
      PROVE  ProjectionsFollow'
  <2>1. /\ deleted' = deleted \cup {s} /\ UNCHANGED <<stream, history>>
        /\ \A u \in Session : u # s => sessions'[u] = sessions[u]
    BY <1>2 DEF Delete, JournalTypeOK
  <2>2. \A u \in Session : Recorded(u)' = Recorded(u) /\ Ended(u)' = Ended(u)
    BY <2>1 DEF Recorded, Ended, Did, EventsOf
  <2> QED BY <2>1, <2>2 DEF ProjectionsFollow
<1>3. CASE Stored
  <2>1. UNCHANGED <<stream, sessions, history, deleted>>
    BY <1>3 DEF Stored
  <2>2. \A u \in Session : Recorded(u)' = Recorded(u) /\ Ended(u)' = Ended(u)
    BY <2>1 DEF Recorded, Ended, Did, EventsOf
  <2> QED BY <2>1, <2>2 DEF ProjectionsFollow
<1>4. CASE Restart
  <2>1. /\ stream' = stream + 1 /\ stream \in Nat /\ stream' \in Streams
        /\ history' = history /\ \A s \in Session : sessions'[s] = NoProjection
    BY <1>4, JournalConstants DEF Restart, JournalTypeOK, Streams
  <2>2. \A s \in Session : Recorded(s)' = <<>>
    BY <2>1 DEF TailsAreSuffixes, Recorded
  <2>3. NoProjection.turn = NoTurn /\ NoProjection.terminal = FALSE
    BY DEF NoProjection
  <2>4. \A s \in Session :
          Follows(sessions'[s], Recorded(s)', Ended(s)')
    BY <2>1, <2>2, <2>3 DEF Follows
  <2> QED BY <2>4 DEF ProjectionsFollow
<1> QED BY <1>1, <1>2, <1>3, <1>4 DEF JournalStep

(* The projection of a turn in flight has every event since the turn        *)
(* changed last and none of another turn, for any number of sessions and    *)
(* turns, whatever is pruned and however tasks overlap (apply_event and     *)
(* prune_terminal_projections).                                             *)
THEOREM SnapshotsAreWhole == Spec => []SnapshotIsWhole
<1>1. Init => TailsAreSuffixes /\ ProjectionsFollow
  <2> SUFFICES ASSUME Init PROVE TailsAreSuffixes /\ ProjectionsFollow
    OBVIOUS
  <2>1. TailsAreSuffixes
    BY InitialTails
  <2>2. stream \in Streams
        /\ \A s \in Session : /\ sessions[s] = NoProjection
                              /\ \A p \in Streams : history[s][p] = <<>>
    BY JournalConstants DEF Init, JournalInit, Streams
  <2>3. NoProjection.turn = NoTurn /\ NoProjection.terminal = FALSE
    BY DEF NoProjection
  <2>4. ProjectionsFollow
    BY <2>2, <2>3 DEF ProjectionsFollow, Follows, Recorded
  <2> QED BY <2>1, <2>4
<1>2. /\ JournalTypeOK /\ TailsAreSuffixes /\ ProjectionsFollow /\ [Next]_vars
      => TailsAreSuffixes' /\ ProjectionsFollow'
  <2> SUFFICES ASSUME JournalTypeOK, TailsAreSuffixes, ProjectionsFollow,
                      [Next]_vars
               PROVE  TailsAreSuffixes' /\ ProjectionsFollow'
    OBVIOUS
  <2>1. CASE UNCHANGED journal
    <3>1. UNCHANGED <<stream, sessions, history, deleted>>
      BY <2>1 DEF journal
    <3>2. \A u \in Session : Recorded(u)' = Recorded(u) /\ Ended(u)' = Ended(u)
      BY <3>1 DEF Recorded, Ended, Did, EventsOf
    <3>3. ProjectionsFollow'
      BY <3>1, <3>2 DEF ProjectionsFollow
    <3>4. TailsAreSuffixes'
      BY <3>1, <3>2 DEF TailsAreSuffixes, IsTailOf
    <3> QED BY <3>3, <3>4
  <2> QED BY <2>1, NextSteps, TailsStep, FollowStep
<1>3. JournalTypeOK /\ ProjectionsFollow => SnapshotIsWhole
  <2> SUFFICES ASSUME JournalTypeOK, ProjectionsFollow,
                      NEW s \in Session \ deleted,
                      sessions[s].turn # NoTurn,
                      ~Did(s, sessions[s].turn, "ended")
               PROVE  EndsWith(sessions[s].events, Recorded(s),
                               sessions[s].turn)
    BY DEF SnapshotIsWhole, EndsWith
  <2>1. Follows(sessions[s], Recorded(s), Ended(s))
    BY DEF ProjectionsFollow
  <2>2. sessions[s].turn \notin Ended(s) \cup {NoTurn}
    BY DEF Ended
  <2> QED BY <2>1, <2>2 DEF Follows
<1> QED BY <1>1, <1>2, <1>3, JournalTypeCorrect, PTL DEF Spec

-----------------------------------------------------------------------------
(* Iteration: what is left of held events, deltas and logs, which the code  *)
(* goes through one after the other.                                        *)

(* Induction on a position, for the set of positions that are as they       *)
(* should be.                                                               *)
LEMMA UpTo ==
  ASSUME NEW n \in Nat, NEW S, 0 \in S, \A i \in 1..n : i - 1 \in S => i \in S
  PROVE  0..n \subseteq S
<1> DEFINE T == (0..n) \ S
           R == OpToRel(<, Nat)
<1> SUFFICES ASSUME T # {} PROVE FALSE
  OBVIOUS
<1>1. IsWellFoundedOn(R, Nat)
  BY NatLessThanWellFounded
<1>2. PICK i \in T : \A j \in T : ~ (<<j, i>> \in R)
  <2>1. T \subseteq Nat
    OBVIOUS
  <2> HIDE DEF R, T
  <2> QED BY <1>1, <2>1, WFMin
<1>3. i \in 1..n /\ i - 1 \in 0..n
  OBVIOUS
<1>4. i - 1 \in T
  BY <1>3
<1>5. <<i - 1, i>> \in R
  BY <1>3 DEF OpToRel
<1> QED BY <1>2, <1>4, <1>5

(* The results of the first n steps from base, which stay in A.             *)
Iteration(f, n, A, base, step) ==
  /\ f \in [0..n -> A] /\ f[0] = base
  /\ \A i \in 1..n : f[i] = step[<<i, f[i - 1]>>]

(* A step that stays in A can be taken n times from a member of A.          *)
LEMMA Iterates ==
  ASSUME NEW n \in Nat, NEW A, NEW base \in A,
         NEW step \in [(1..n) \X A -> A]
  PROVE  \E f : Iteration(f, n, A, base, step)
<1> DEFINE Taken(k, f) == Iteration(f, k, A, base, step)
           S == {k \in 0..n : \E f : Taken(k, f)}
<1>1. 0 \in S
  <2>1. PICK f : f = [i \in 0..0 |-> base]
    OBVIOUS
  <2>2. Taken(0, f)
    BY <2>1 DEF Iteration
  <2>3. 0 \in 0..n
    OBVIOUS
  <2> HIDE DEF Taken
  <2> QED BY <2>2, <2>3
<1>2. ASSUME NEW k \in 1..n, k - 1 \in S
      PROVE  k \in S
  <2>1. PICK f : Taken(k - 1, f)
    BY <1>2
  <2>2. PICK x \in A : x = step[<<k, f[k - 1]>>]
    <3>1. f[k - 1] \in A
      BY <2>1 DEF Iteration
    <3>2. <<k, f[k - 1]>> \in (1..n) \X A
      BY <3>1
    <3> QED BY <3>2
  <2>3. PICK g : g = [i \in 0..k |-> IF i = k THEN x ELSE f[i]]
    OBVIOUS
  <2>4. g \in [0..k -> A]
    <3>1. \A i \in 0..k : (IF i = k THEN x ELSE f[i]) \in A
      BY <2>1, <2>2 DEF Iteration
    <3> QED BY <2>3, <3>1
  <2>5. \A i \in 0..(k - 1) : g[i] = f[i]
    BY <2>3
  <2>6. ASSUME NEW i \in 1..k
        PROVE  g[i] = step[<<i, g[i - 1]>>]
    <3>1. g[i - 1] = f[i - 1]
      BY <2>5
    <3>2. CASE i = k
      <4>1. g[k] = x
        BY <2>3
      <4> QED BY <2>2, <3>1, <3>2, <4>1
    <3>3. CASE i # k
      BY <2>1, <2>5, <3>1, <3>3 DEF Iteration
    <3> QED BY <3>2, <3>3
  <2>7. Taken(k, g)
    BY <2>1, <2>4, <2>5, <2>6 DEF Iteration
  <2> QED BY <2>7
<1>3. n \in S
  <2> HIDE DEF S
  <2> QED BY <1>1, <1>2, UpTo
<1> QED BY <1>3

(* One round of releaseHeld.                                                *)
ReleaseStep(acc, m) ==
  IF NotAhead(acc.position, m.position) THEN acc
  ELSE [position |-> Advance(acc.position, m.position),
        screen |-> Paint(acc.screen, m.event)]

(* One round of the rebuilding of a projection.                             *)
RebuildStep(p, line, i) == [ApplyEvent(p, line.event) EXCEPT !.cursor = i]

(* releaseHeld goes through the held events.                                *)
LEMMA ReleasedSteps ==
  ASSUME NEW position, NEW screen, Len(held) \in Nat,
         NEW A, [position |-> position, screen |-> screen] \in A,
         \A i \in 1..Len(held), a \in A : ReleaseStep(a, held[i]) \in A
  PROVE  \E f \in [0..Len(held) -> A] :
           /\ f[0] = [position |-> position, screen |-> screen]
           /\ \A i \in 1..Len(held) : f[i] = ReleaseStep(f[i - 1], held[i])
           /\ Released(position, screen) = f[Len(held)]
<1> DEFINE Is(g) == g = [i \in 0..Len(held) |->
                           IF i = 0
                           THEN [position |-> position, screen |-> screen]
                           ELSE ReleaseStep(g[i - 1], held[i])]
<1>0. PICK n \in Nat, base \in A :
        n = Len(held) /\ base = [position |-> position, screen |-> screen]
  OBVIOUS
<1>1. PICK step : step = [x \in (1..n) \X A |-> ReleaseStep(x[2], held[x[1]])]
  OBVIOUS
<1>2. \A i \in 1..n, a \in A : step[<<i, a>>] = ReleaseStep(a, held[i])
  BY <1>1
<1>3. PICK f : Iteration(f, n, A, base, step)
  <2>1. step \in [(1..n) \X A -> A]
    BY <1>0, <1>1
  <2> HIDE DEF Is
  <2> QED BY <2>1, Iterates
<1>4. \A i \in 1..n : f[i] = ReleaseStep(f[i - 1], held[i])
  <2>1. \A i \in 1..n : i - 1 \in 0..n /\ f[i - 1] \in A
    BY <1>3 DEF Iteration
  <2> QED BY <1>2, <1>3, <2>1 DEF Iteration
<1>5. Is(f)
  BY <1>0, <1>3, <1>4 DEF Iteration
<1>6. PICK g : Is(g) /\ Released(position, screen) = g[n]
  <2>1. Released(position, screen) = (CHOOSE g : Is(g))[Len(held)]
    BY DEF Released, ReleaseStep
  <2> HIDE DEF Is
  <2> QED BY <1>0, <1>5, <2>1
<1>7. /\ g[0] = base
      /\ \A i \in 1..n : g[i] = ReleaseStep(g[i - 1], held[i])
  <2>1. \A i \in 1..n : i \in 0..n /\ i # 0
    OBVIOUS
  <2>2. 0 \in 0..n
    OBVIOUS
  <2> QED BY <1>0, <1>6, <2>1, <2>2
<1>8. \A i \in 0..n : g[i] \in A
  <2> DEFINE S == {i \in 0..n : g[i] \in A}
  <2>1. 0 \in S
    BY <1>7
  <2>2. \A i \in 1..n : i - 1 \in S => i \in S
    BY <1>0, <1>7
  <2>3. 0..n \subseteq S
    <3> HIDE DEF S, Is
    <3> QED BY <2>1, <2>2, UpTo
  <2> QED BY <2>3
<1>9. g \in [0..n -> A]
  <2>1. g = [i \in 0..n |-> g[i]]
    BY <1>0, <1>6
  <2> HIDE DEF Is
  <2> QED BY <1>8, <2>1
<1> HIDE DEF Is
<1> QED BY <1>0, <1>6, <1>7, <1>9

(* The screens on the way from one to the one with all the events.          *)
Painting(f, screen, events, A) ==
  /\ f \in [0..Len(events) -> A] /\ f[0] = screen
  /\ \A i \in 1..Len(events) : f[i] = Paint(f[i - 1], events[i])
  /\ PaintAll(screen, events) = f[Len(events)]

(* A delta is painted event by event.                                       *)
LEMMA PaintAllSteps ==
  ASSUME NEW screen, NEW events, Len(events) \in Nat,
         NEW A, screen \in A,
         \A i \in 1..Len(events), a \in A : Paint(a, events[i]) \in A
  PROVE  \E f : Painting(f, screen, events, A)
<1> DEFINE Is(g) == g = [i \in 0..Len(events) |->
                           IF i = 0
                           THEN screen
                           ELSE Paint(g[i - 1], events[i])]
<1>0. PICK n \in Nat, base \in A : n = Len(events) /\ base = screen
  OBVIOUS
<1>1. PICK step : step = [x \in (1..n) \X A |-> Paint(x[2], events[x[1]])]
  OBVIOUS
<1>2. \A i \in 1..n, a \in A : step[<<i, a>>] = Paint(a, events[i])
  BY <1>1
<1>3. PICK f : Iteration(f, n, A, base, step)
  <2>1. step \in [(1..n) \X A -> A]
    BY <1>0, <1>1
  <2> HIDE DEF Is
  <2> QED BY <2>1, Iterates
<1>4. \A i \in 1..n : f[i] = Paint(f[i - 1], events[i])
  <2>1. \A i \in 1..n : i - 1 \in 0..n /\ f[i - 1] \in A
    BY <1>3 DEF Iteration
  <2> QED BY <1>2, <1>3, <2>1 DEF Iteration
<1>5. Is(f)
  BY <1>0, <1>3, <1>4 DEF Iteration
<1>6. PICK g : Is(g) /\ PaintAll(screen, events) = g[n]
  <2>1. PaintAll(screen, events) = (CHOOSE g : Is(g))[Len(events)]
    BY DEF PaintAll
  <2> HIDE DEF Is
  <2> QED BY <1>0, <1>5, <2>1
<1>7. /\ g[0] = base
      /\ \A i \in 1..n : g[i] = Paint(g[i - 1], events[i])
  <2>1. \A i \in 1..n : i \in 0..n /\ i # 0
    OBVIOUS
  <2>2. 0 \in 0..n
    OBVIOUS
  <2> QED BY <1>0, <1>6, <2>1, <2>2
<1>8. \A i \in 0..n : g[i] \in A
  <2> DEFINE S == {i \in 0..n : g[i] \in A}
  <2>1. 0 \in S
    BY <1>7
  <2>2. \A i \in 1..n : i - 1 \in S => i \in S
    BY <1>0, <1>7
  <2>3. 0..n \subseteq S
    <3> HIDE DEF S, Is
    <3> QED BY <2>1, <2>2, UpTo
  <2> QED BY <2>3
<1>9. g \in [0..n -> A]
  <2>1. g = [i \in 0..n |-> g[i]]
    BY <1>0, <1>6
  <2> HIDE DEF Is
  <2> QED BY <1>8, <2>1
<1> HIDE DEF Is
<1> QED BY <1>0, <1>6, <1>7, <1>9 DEF Painting

(* A projection is rebuilt line by line.                                    *)
LEMMA RebuiltSteps ==
  ASSUME NEW lines, Len(lines) \in Nat,
         NEW A, NoProjection \in A,
         \A i \in 1..Len(lines), a \in A : RebuildStep(a, lines[i], i) \in A
  PROVE  \E f \in [0..Len(lines) -> A] :
           /\ f[0] = NoProjection
           /\ \A i \in 1..Len(lines) : f[i] = RebuildStep(f[i - 1], lines[i], i)
           /\ Rebuilt(lines) = f[Len(lines)]
<1> DEFINE Is(g) == g = [i \in 0..Len(lines) |->
                           IF i = 0
                           THEN NoProjection
                           ELSE RebuildStep(g[i - 1], lines[i], i)]
<1>0. PICK n \in Nat, base \in A : n = Len(lines) /\ base = NoProjection
  OBVIOUS
<1>1. PICK step :
        step = [x \in (1..n) \X A |-> RebuildStep(x[2], lines[x[1]], x[1])]
  OBVIOUS
<1>2. \A i \in 1..n, a \in A : step[<<i, a>>] = RebuildStep(a, lines[i], i)
  BY <1>1
<1>3. PICK f : Iteration(f, n, A, base, step)
  <2>1. step \in [(1..n) \X A -> A]
    BY <1>0, <1>1
  <2> HIDE DEF Is
  <2> QED BY <2>1, Iterates
<1>4. \A i \in 1..n : f[i] = RebuildStep(f[i - 1], lines[i], i)
  <2>1. \A i \in 1..n : i - 1 \in 0..n /\ f[i - 1] \in A
    BY <1>3 DEF Iteration
  <2> QED BY <1>2, <1>3, <2>1 DEF Iteration
<1>5. Is(f)
  BY <1>0, <1>3, <1>4 DEF Iteration
<1>6. PICK g : Is(g) /\ Rebuilt(lines) = g[n]
  <2>1. Rebuilt(lines) = (CHOOSE g : Is(g))[Len(lines)]
    BY DEF Rebuilt, RebuildStep
  <2> HIDE DEF Is
  <2> QED BY <1>0, <1>5, <2>1
<1>7. /\ g[0] = base
      /\ \A i \in 1..n : g[i] = RebuildStep(g[i - 1], lines[i], i)
  <2>1. \A i \in 1..n : i \in 0..n /\ i # 0
    OBVIOUS
  <2>2. 0 \in 0..n
    OBVIOUS
  <2> QED BY <1>0, <1>6, <2>1, <2>2
<1>8. \A i \in 0..n : g[i] \in A
  <2> DEFINE S == {i \in 0..n : g[i] \in A}
  <2>1. 0 \in S
    BY <1>7
  <2>2. \A i \in 1..n : i - 1 \in S => i \in S
    BY <1>0, <1>7
  <2>3. 0..n \subseteq S
    <3> HIDE DEF S, Is
    <3> QED BY <2>1, <2>2, UpTo
  <2> QED BY <2>3
<1>9. g \in [0..n -> A]
  <2>1. g = [i \in 0..n |-> g[i]]
    BY <1>0, <1>6
  <2> HIDE DEF Is
  <2> QED BY <1>8, <2>1
<1> HIDE DEF Is
<1> QED BY <1>0, <1>6, <1>7, <1>9

-----------------------------------------------------------------------------
(* The order of events: in the projections, in what was recorded and in the *)
(* logs every event is after the ones before it.                            *)

NotAfter(a, b) == a[1] < b[1] \/ (a[1] = b[1] /\ a[2] <= b[2])
Newest(s) == <<stream, Len(Recorded(s))>>

EventsInOrder(events) ==
  \A i, j \in 1..Len(events) : i < j => Before(events[i].at, events[j].at)
LinesInOrder(lines) ==
  \A i, j \in 1..Len(lines) :
    i < j /\ lines[i] # Torn /\ lines[j] # Torn
    => Before(lines[i].event.at, lines[j].event.at)

(* A process numbers the events of a session as it records them.            *)
EventsAreNumbered ==
  \A s \in Session : \A i \in 1..Len(Recorded(s)) :
    Recorded(s)[i].at = <<stream, i>>

(* A projection has events of this process, in order.                       *)
ContentIsOrdered ==
  \A s \in Session :
    /\ EventsInOrder(sessions[s].events)
    /\ \A i \in 1..Len(sessions[s].events) :
         LET at == sessions[s].events[i].at IN
         at[1] = stream /\ NotAfter(at, Newest(s))
    /\ ~Known(s) => Recorded(s) = <<>>

(* A log has its lines in order; the line that is being stored is after     *)
(* them.                                                                    *)
LogsAreOrdered ==
  /\ \A s \in Session :
       /\ LinesInOrder(disk[s])
       /\ \A i \in 1..Len(disk[s]) :
            LET l == disk[s][i] IN
            l # Torn => l.event.at[1] = l.stream
                        /\ NotAfter(l.event.at, Newest(s))
  /\ \A i \in 1..Len(storing) :
       LET s == storing[i].session
           line == storing[i].line
       IN /\ line.event.at = Newest(s)
          /\ line.stream = stream /\ line.cursor = Len(Recorded(s))
          /\ \A j \in 1..Len(disk[s]) :
               disk[s][j] # Torn => Before(disk[s][j].event.at, line.event.at)

JournalIsOrdered == EventsAreNumbered /\ ContentIsOrdered /\ LogsAreOrdered

LEMMA EmptyIsInOrder == EventsInOrder(<<>>) /\ LinesInOrder(<<>>)
BY EmptySeq DEF EventsInOrder, LinesInOrder

LEMMA AppendInOrder ==
  ASSUME NEW r \in Seq(Event), NEW e \in Event, EventsInOrder(r),
         \A i \in 1..Len(r) : Before(r[i].at, e.at)
  PROVE  EventsInOrder(Append(r, e))
<1>1. PICK s \in Seq(Event), n \in Nat :
        /\ s = Append(r, e) /\ n = Len(r) /\ Len(s) = n + 1
        /\ s[n + 1] = e /\ \A i \in 1..n : s[i] = r[i]
  BY Appended
<1>2. ASSUME NEW i \in 1..(n + 1), NEW j \in 1..(n + 1), i < j
      PROVE  Before(s[i].at, s[j].at)
  <2>1. i \in 1..n /\ (j \in 1..n \/ j = n + 1)
    BY <1>2
  <2> QED BY <1>1, <1>2, <2>1 DEF EventsInOrder
<1> QED BY <1>1, <1>2 DEF EventsInOrder

LEMMA AppendLine ==
  ASSUME NEW r \in Seq(Line \cup {Torn}), NEW l \in Line \cup {Torn}
  PROVE  \E s \in Seq(Line \cup {Torn}), n \in Nat :
           /\ s = Append(r, l) /\ n = Len(r) /\ Len(s) = n + 1
           /\ s[n + 1] = l /\ \A i \in 1..n : s[i] = r[i]
<1>1. PICK s : s = Append(r, l)
  OBVIOUS
<1>2. /\ Append(r, l) \in Seq(Line \cup {Torn})
      /\ Len(Append(r, l)) = Len(r) + 1 /\ Append(r, l)[Len(r) + 1] = l
      /\ \A i \in 1..Len(r) : Append(r, l)[i] = r[i]
  BY AppendProperties
<1>3. PICK n \in Nat : n = Len(r)
  BY LenProperties
<1>4. /\ s \in Seq(Line \cup {Torn}) /\ Len(s) = n + 1 /\ s[n + 1] = l
      /\ \A i \in 1..n : s[i] = r[i]
  BY ONLY <1>1, <1>2, <1>3, Zenon
<1> QED BY <1>1, <1>3, <1>4

(* Appending an event to what was recorded, and to the projection.          *)
LEMMA RecordKeepsNumbers ==
  ASSUME JournalTypeOK, EventsAreNumbered, NEW s \in Session, NEW e \in Event,
         e.at = <<stream, Len(Recorded(s)) + 1>>, stream' = stream,
         Recorded(s)' = Append(Recorded(s), e),
         \A u \in Session : u # s => Recorded(u)' = Recorded(u)
  PROVE  EventsAreNumbered'
<1>1. PICK r \in Seq(Event) : r = Recorded(s)
  BY DEF JournalTypeOK, Recorded
<1>2. PICK x \in Seq(Event), n \in Nat :
        /\ x = Append(r, e) /\ n = Len(r) /\ Len(x) = n + 1
        /\ x[n + 1] = e /\ \A i \in 1..n : x[i] = r[i]
  BY Appended
<1>3. \A i \in 1..Len(x) : x[i].at = <<stream, i>>
  <2> TAKE i \in 1..Len(x)
  <2>1. CASE i = n + 1
    BY <1>1, <1>2, <2>1
  <2>2. CASE i # n + 1
    <3>1. i \in 1..n
      BY <1>2, <2>2
    <3> QED BY <1>1, <1>2, <3>1 DEF EventsAreNumbered
  <2> QED BY <2>1, <2>2
<1>4. \A u \in Session : \A i \in 1..Len(Recorded(u)') :
        Recorded(u)'[i].at = <<stream, i>>
  BY <1>1, <1>2, <1>3 DEF EventsAreNumbered
<1> QED BY <1>4 DEF EventsAreNumbered

(* What is before an event stays so when more is recorded.                  *)
LEMMA NotAfterNewest ==
  ASSUME NEW a \in Streams \X Nat, NEW p \in Streams, NEW n \in Nat,
         NotAfter(a, <<p, n>>)
  PROVE  /\ NotAfter(a, <<p, n + 1>>) /\ Before(a, <<p, n + 1>>)
         /\ Before(a, <<p + 1, 0>>) /\ NotAfter(a, <<p + 1, 0>>)
         /\ a[1] <= p
BY JournalConstants DEF NotAfter, Before, Streams

LEMMA EventAt ==
  ASSUME NEW e \in Event
  PROVE  /\ e.at \in Streams \X Nat /\ e.at[1] \in Streams
         /\ e.at[2] \in Nat \ {0} /\ e.at = <<e.at[1], e.at[2]>>
         /\ e.turn \in Turn /\ e.turn # NoTurn
BY JournalConstants DEF Event, Turn, NoTurn

LEMMA RecordKeepsContent ==
  ASSUME JournalTypeOK, TailsAreSuffixes, ContentIsOrdered,
         NEW s \in Session, NEW t \in Turn, NEW k \in Kind, Record(s, t, k)
  PROVE  ContentIsOrdered'
<1>1. PICK e \in Event :
        /\ e.at = <<stream, Len(Recorded(s)) + 1>>
        /\ Recorded(s)' = Append(Recorded(s), e)
        /\ \A u \in Session : u # s => Recorded(u)' = Recorded(u)
        /\ \A u \in Session :
             sessions'[u] \in
               Pruned(IF u = s THEN Projected(sessions[s], e, sequence)
                               ELSE sessions[u])
        /\ stream' = stream
  BY RecordFacts
<1>2. PICK r \in Seq(Event), n \in Nat :
        /\ r = Recorded(s) /\ n = Len(r) /\ Len(Append(r, e)) = n + 1
        /\ e.at = <<stream, n + 1>>
  <2>1. PICK r \in Seq(Event) : r = Recorded(s)
    BY DEF JournalTypeOK, Recorded
  <2>2. PICK x \in Seq(Event), n \in Nat :
          x = Append(r, e) /\ n = Len(r) /\ Len(x) = n + 1
    BY Appended
  <2> QED BY <1>1, <2>1, <2>2
<1>3. stream \in Streams /\ sequence \in Nat
      /\ \A u \in Session : /\ sessions[u] \in Projection
                            /\ Len(sessions[u].tail) <= MaxTail
  BY DEF JournalTypeOK
<1>4. ASSUME NEW u \in Session
      PROVE  \E p \in Projection :
               /\ sessions'[u] \in Pruned(p)
               /\ EventsInOrder(p.events)
               /\ \A i \in 1..Len(p.events) :
                    p.events[i].at[1] = stream
                    /\ NotAfter(p.events[i].at, Newest(u)')
               /\ ~(p.touched > 0) => Recorded(u)' = <<>>
  <2>1. CASE u = s
    <3>1. PICK q : /\ q = Projected(sessions[s], e, sequence)
                   /\ q \in Projection /\ q.touched = sequence + 1
                   /\ q.events = Append(IF sessions[s].turn # e.turn THEN <<>>
                                        ELSE sessions[s].events, e)
      <4>1. /\ Projected(sessions[s], e, sequence) \in Projection
            /\ Projected(sessions[s], e, sequence).touched = sequence + 1
            /\ Projected(sessions[s], e, sequence).events =
                 Append(IF sessions[s].turn # e.turn THEN <<>>
                        ELSE sessions[s].events, e)
        BY <1>3, ProjectedFacts, Zenon
      <4> QED BY <4>1
    <3>2. PICK ev \in Seq(Event) :
            /\ q.events = Append(ev, e) /\ EventsInOrder(ev)
            /\ \A i \in 1..Len(ev) : ev[i].at[1] = stream
                                     /\ NotAfter(ev[i].at, <<stream, n>>)
      <4>1. CASE sessions[s].turn # e.turn
        <5>1. q.events = Append(<<>>, e)
          BY <3>1, <4>1
        <5>2. <<>> \in Seq(Event) /\ Len(<<>>) = 0 /\ EventsInOrder(<<>>)
          BY EmptySeq, EmptyIsInOrder
        <5>3. PICK ev \in Seq(Event) : ev = <<>>
          BY <5>2
        <5>4. \A i \in 1..Len(ev) : FALSE
          BY <5>2, <5>3
        <5> QED BY <5>1, <5>2, <5>3, <5>4
      <4>2. CASE sessions[s].turn = e.turn
        <5>1. sessions[s].events \in Seq(Event)
          BY <1>3 DEF Projection
        <5> QED BY <1>2, <3>1, <4>2, <5>1 DEF ContentIsOrdered, Newest
      <4> QED BY <4>1, <4>2
    <3>3. PICK x \in Seq(Event), m \in Nat :
            /\ x = Append(ev, e) /\ m = Len(ev) /\ Len(x) = m + 1
            /\ x[m + 1] = e /\ \A i \in 1..m : x[i] = ev[i]
      BY Appended
    <3>4. \A i \in 1..m : ev[i] \in Event
      BY <3>3, ElementOfSeq
    <3>5. \A i \in 1..m : /\ Before(ev[i].at, e.at)
                          /\ NotAfter(ev[i].at, <<stream, n + 1>>)
      <4> TAKE i \in 1..m
      <4>1. ev[i].at \in Streams \X Nat /\ NotAfter(ev[i].at, <<stream, n>>)
        BY <3>2, <3>3, <3>4, EventAt
      <4>2. /\ NotAfter(ev[i].at, <<stream, n + 1>>)
            /\ Before(ev[i].at, <<stream, n + 1>>)
        BY <1>3, <4>1, NotAfterNewest
      <4> QED BY <1>2, <4>2
    <3>6. EventsInOrder(x)
      BY <3>2, <3>3, <3>5, AppendInOrder
    <3>7. e.at[1] = stream /\ NotAfter(e.at, <<stream, n + 1>>)
      BY <1>2, <1>3 DEF NotAfter, Streams
    <3>8. \A i \in 1..Len(x) : x[i].at[1] = stream
                              /\ NotAfter(x[i].at, <<stream, n + 1>>)
      <4> TAKE i \in 1..Len(x)
      <4>1. i \in 1..m \/ i = m + 1
        BY <3>3
      <4> QED BY <3>2, <3>3, <3>5, <3>7, <4>1
    <3>9. Newest(u)' = <<stream, n + 1>>
      BY <1>1, <1>2, <2>1 DEF Newest
    <3>10. q.touched > 0
      BY <1>3, <3>1
    <3> QED BY <1>1, <2>1, <3>1, <3>2, <3>3, <3>6, <3>8, <3>9, <3>10
  <2>2. CASE u # s
    <3>1. Recorded(u)' = Recorded(u) /\ Newest(u)' = Newest(u)
      BY <1>1, <2>2 DEF Newest
    <3> QED BY <1>1, <1>3, <2>2, <3>1 DEF ContentIsOrdered, Known
  <2> QED BY <2>1, <2>2
<1>5. ASSUME NEW u \in Session
      PROVE  /\ EventsInOrder(sessions'[u].events)
             /\ \A i \in 1..Len(sessions'[u].events) :
                  /\ sessions'[u].events[i].at[1] = stream
                  /\ NotAfter(sessions'[u].events[i].at, Newest(u)')
             /\ ~(sessions'[u].touched > 0) => Recorded(u)' = <<>>
  <2>1. PICK p \in Projection :
          /\ sessions'[u] \in Pruned(p)
          /\ EventsInOrder(p.events)
          /\ \A i \in 1..Len(p.events) :
               p.events[i].at[1] = stream
               /\ NotAfter(p.events[i].at, Newest(u)')
          /\ ~(p.touched > 0) => Recorded(u)' = <<>>
    BY <1>4
  <2>2. PICK q : /\ q = ClearReplayContent(p) /\ q.events = <<>>
                 /\ q.touched = p.touched
    BY ClearedType
  <2> QED BY <2>1, <2>2, EmptySeq, EmptyIsInOrder DEF Pruned
<1> QED BY <1>1, <1>5 DEF ContentIsOrdered, Known

LEMMA RecordKeepsLogs ==
  ASSUME JournalTypeOK, TailsAreSuffixes, LogsAreOrdered,
         NEW s \in Session, NEW t \in Turn, NEW k \in Kind, Record(s, t, k)
  PROVE  LogsAreOrdered'
<1>0. PICK e \in Event :
        /\ e.at = <<stream, Len(Recorded(s)) + 1>>
        /\ Recorded(s)' = Append(Recorded(s), e)
        /\ \A u \in Session : u # s => Recorded(u)' = Recorded(u)
        /\ LET r == Projected(sessions[s], e, sequence) IN
           storing' = <<[op |-> IF r.terminal THEN "discard" ELSE "append",
                         session |-> s,
                         line |-> [stream |-> stream, cursor |-> r.cursor,
                                   event |-> e]]>>
        /\ stream' = stream /\ disk' = disk
  BY RecordFacts
<1>1. PICK q, o :
        /\ q = Projected(sessions[s], e, sequence)
        /\ storing' = <<[op |-> o, session |-> s,
                         line |-> [stream |-> stream, cursor |-> q.cursor,
                                   event |-> e]]>>
  BY <1>0
<1>2. PICK n \in Nat : /\ n = Len(Recorded(s)) /\ Len(Recorded(s)') = n + 1
                      /\ e.at = <<stream, n + 1>>
  <2>1. PICK r \in Seq(Event) : r = Recorded(s)
    BY DEF JournalTypeOK, Recorded
  <2>2. PICK x \in Seq(Event), n \in Nat :
          x = Append(r, e) /\ n = Len(r) /\ Len(x) = n + 1
    BY Appended
  <2> QED BY <1>0, <2>1, <2>2
<1>3. q.cursor = n + 1
  <2>1. sessions[s] \in Projection /\ Len(sessions[s].tail) <= MaxTail
        /\ sequence \in Nat
    BY DEF JournalTypeOK
  <2>2. Projected(sessions[s], e, sequence).cursor = sessions[s].cursor + 1
    BY <2>1, ProjectedFacts, ZenonT(30)
  <2>3. sessions[s].cursor = n
    BY <1>2 DEF TailsAreSuffixes, IsTailOf
  <2> QED BY <1>1, <2>2, <2>3
<1>4. stream \in Streams /\ \A u \in Session : Len(Recorded(u)) \in Nat
  BY LenProperties DEF JournalTypeOK, Recorded
<1>5. ASSUME NEW u \in Session, NEW i \in 1..Len(disk[u]), disk[u][i] # Torn
      PROVE  /\ disk[u][i].event.at[1] = disk[u][i].stream
             /\ NotAfter(disk[u][i].event.at, Newest(u)')
             /\ u = s => Before(disk[u][i].event.at, e.at)
  <2>1. disk[u][i] \in Line
    BY <1>5, ElementOfSeq DEF JournalTypeOK
  <2>2. disk[u][i].event.at \in Streams \X Nat
    BY <2>1, EventAt DEF Line
  <2>3. /\ disk[u][i].event.at[1] = disk[u][i].stream
        /\ NotAfter(disk[u][i].event.at, <<stream, Len(Recorded(u))>>)
    BY <1>5 DEF LogsAreOrdered, Newest
  <2>4. /\ NotAfter(disk[u][i].event.at, <<stream, Len(Recorded(u)) + 1>>)
        /\ Before(disk[u][i].event.at, <<stream, Len(Recorded(u)) + 1>>)
    BY <1>4, <2>2, <2>3, NotAfterNewest
  <2>5. /\ u = s => Newest(u)' = <<stream, Len(Recorded(u)) + 1>>
        /\ u # s => Newest(u)' = <<stream, Len(Recorded(u))>>
    BY <1>0, <1>2 DEF Newest
  <2> QED BY <1>2, <2>3, <2>4, <2>5
<1>6. \A u \in Session :
        /\ LinesInOrder(disk'[u])
        /\ \A i \in 1..Len(disk'[u]) :
             LET l == disk'[u][i] IN
             l # Torn => l.event.at[1] = l.stream
                         /\ NotAfter(l.event.at, Newest(u)')
  BY <1>0, <1>5 DEF LogsAreOrdered
<1>7. PICK op : op = [op |-> o, session |-> s,
                      line |-> [stream |-> stream, cursor |-> q.cursor,
                                event |-> e]]
  OBVIOUS
<1>8. /\ op.session = s /\ op.line.stream = stream
      /\ op.line.cursor = q.cursor /\ op.line.event = e
  BY <1>7
<1>9. Newest(s)' = <<stream, n + 1>>
  BY <1>0, <1>2 DEF Newest
<1>10. \A i \in 1..Len(storing') : storing'[i] = op
  BY <1>1, <1>7
<1>11. \A j \in 1..Len(disk'[s]) :
         disk'[s][j] # Torn => Before(disk'[s][j].event.at, e.at)
  BY <1>0, <1>5
<1>12. ASSUME NEW i \in 1..Len(storing')
       PROVE  /\ storing'[i].session = s
              /\ storing'[i].line.event.at = Newest(s)'
              /\ storing'[i].line.stream = stream'
              /\ storing'[i].line.cursor = Len(Recorded(s)')
              /\ \A j \in 1..Len(disk'[s]) :
                   disk'[s][j] # Torn
                   => Before(disk'[s][j].event.at,
                             storing'[i].line.event.at)
  <2>1. storing'[i] = op
    BY <1>10
  <2>2. e.at = Newest(s)' /\ Len(Recorded(s)') = q.cursor
    BY <1>0, <1>2, <1>3, <1>9
  <2> QED BY <1>0, <1>8, <1>11, <2>1, <2>2
<1>13. (\A i \in 1..Len(storing) :
          LET u == storing[i].session
              line == storing[i].line
          IN /\ line.event.at = Newest(u)
             /\ line.stream = stream /\ line.cursor = Len(Recorded(u))
             /\ \A j \in 1..Len(disk[u]) :
                  disk[u][j] # Torn
                  => Before(disk[u][j].event.at, line.event.at))'
  BY <1>12
<1> QED BY <1>6, <1>13 DEF LogsAreOrdered

LEMMA StoreKeepsLogs ==
  ASSUME JournalTypeOK, LogsAreOrdered, Stored
  PROVE  LogsAreOrdered'
<1>1. PICK o \in StoreOp : /\ o = Head(storing) /\ o = storing[1]
                          /\ 1 \in 1..Len(storing)
  <2>1. storing # <<>> /\ storing \in Seq(StoreOp)
    BY DEF Stored, JournalTypeOK
  <2> QED BY <2>1, HeadTailProperties
<1>2. PICK s \in Session, l \in Line : s = o.session /\ l = o.line
  BY DEF StoreOp
<1>3. /\ l.event.at = Newest(s) /\ l.stream = stream
      /\ \A j \in 1..Len(disk[s]) :
           disk[s][j] # Torn => Before(disk[s][j].event.at, l.event.at)
  BY <1>1, <1>2 DEF LogsAreOrdered
<1>4. /\ storing' = <<>> /\ stream' = stream
      /\ \A u \in Session : Newest(u)' = Newest(u)
      /\ disk' = Store
  BY DEF Stored, Newest, Recorded
<1>5. \A u \in Session :
        /\ u # s => disk'[u] = disk[u]
        /\ u = s => disk'[u] \in {<<>>, Append(disk[s], l)}
  BY <1>1, <1>2, <1>4 DEF Store, JournalTypeOK
<1>6. ASSUME NEW u \in Session
      PROVE  /\ LinesInOrder(disk'[u])
             /\ \A i \in 1..Len(disk'[u]) :
                  LET x == disk'[u][i] IN
                  x # Torn => x.event.at[1] = x.stream
                              /\ NotAfter(x.event.at, Newest(u)')
  <2>1. CASE disk'[u] = disk[u]
    BY <1>4, <2>1 DEF LogsAreOrdered
  <2>2. CASE disk'[u] = <<>>
    <3>1. Len(<<>>) = 0 /\ \A i \in 1..Len(<<>>) : FALSE
      BY EmptySeq
    <3> QED BY <2>2, <3>1, EmptyIsInOrder
  <2>3. CASE u = s /\ disk'[u] = Append(disk[s], l)
    <3>1. PICK r \in Seq(Line \cup {Torn}) : r = disk[s]
      BY DEF JournalTypeOK
    <3>2. PICK x \in Seq(Line \cup {Torn}), n \in Nat :
            /\ x = Append(r, l) /\ n = Len(r) /\ Len(x) = n + 1
            /\ x[n + 1] = l /\ \A i \in 1..n : x[i] = r[i]
      BY AppendLine
    <3>3. l.event.at[1] = l.stream /\ NotAfter(l.event.at, Newest(s))
      <4>1. Len(Recorded(s)) \in Nat
        BY LenProperties DEF JournalTypeOK, Recorded
      <4> QED BY <1>3, <4>1 DEF Newest, NotAfter
    <3>4. /\ LinesInOrder(r)
          /\ \A i \in 1..n : r[i] # Torn =>
               /\ r[i].event.at[1] = r[i].stream
               /\ NotAfter(r[i].event.at, Newest(s))
               /\ Before(r[i].event.at, l.event.at)
      BY <1>3, <3>1, <3>2 DEF LogsAreOrdered
    <3>5. LinesInOrder(x)
      <4>1. ASSUME NEW i \in 1..Len(x), NEW j \in 1..Len(x), i < j,
                   x[i] # Torn, x[j] # Torn
            PROVE  Before(x[i].event.at, x[j].event.at)
        <5>1. i \in 1..n /\ (j \in 1..n \/ j = n + 1)
          BY <3>2, <4>1
        <5> QED BY <3>2, <3>4, <4>1, <5>1 DEF LinesInOrder
      <4> QED BY <4>1 DEF LinesInOrder
    <3>6. \A i \in 1..Len(x) :
            x[i] # Torn => /\ x[i].event.at[1] = x[i].stream
                           /\ NotAfter(x[i].event.at, Newest(s))
      <4> TAKE i \in 1..Len(x)
      <4>1. i \in 1..n \/ i = n + 1
        BY <3>2
      <4> QED BY <3>2, <3>3, <3>4, <4>1
    <3> QED BY <1>4, <2>3, <3>1, <3>2, <3>5, <3>6
  <2> QED BY <1>5, <2>1, <2>2, <2>3
<1>7. \A i \in 1..Len(storing') : FALSE
  BY <1>4, EmptySeq
<1> QED BY <1>6, <1>7 DEF LogsAreOrdered

(* A deleted session keeps its cursor and loses its content.                *)
LEMMA DeleteFacts ==
  ASSUME JournalTypeOK, NEW s \in Session, Delete(s)
  PROVE  /\ \A u \in Session : u # s => sessions'[u] = sessions[u]
         /\ sessions'[s].events = <<>> /\ sessions'[s].terminal
         /\ sessions'[s].touched = sessions[s].touched
         /\ sessions'[s].turn = NoTurn
         /\ sessions'[s].cursor = sessions[s].cursor
<1>1. PICK q \in Projection :
        /\ q = ClearReplayContent(sessions[s]) /\ q.events = <<>>
        /\ q.touched = sessions[s].touched /\ q.turn = NoTurn
        /\ q.cursor = sessions[s].cursor
  BY ClearedType DEF JournalTypeOK
<1>2. sessions' = [sessions EXCEPT ![s] = [q EXCEPT !.terminal = TRUE]]
  BY <1>1 DEF Delete
<1> QED BY <1>1, <1>2 DEF JournalTypeOK, Projection

LEMMA DeleteKeepsOrder ==
  ASSUME JournalTypeOK, JournalIsOrdered, NEW s \in Session, Delete(s)
  PROVE  JournalIsOrdered'
<1>1. /\ UNCHANGED <<stream, history, storing, disk>>
      /\ \A u \in Session : Recorded(u)' = Recorded(u)
                            /\ Newest(u)' = Newest(u)
  BY DEF Delete, Recorded, Newest
<1>2. EventsAreNumbered' /\ LogsAreOrdered'
  <2>1. \A i \in 1..Len(storing) : storing[i].session \in Session
    <3>1. \A i \in 1..Len(storing) : storing[i] \in StoreOp
      BY ElementOfSeq DEF JournalTypeOK
    <3> QED BY <3>1 DEF StoreOp
  <2>2. EventsAreNumbered'
    BY <1>1 DEF JournalIsOrdered, EventsAreNumbered
  <2>3. LogsAreOrdered'
    BY <1>1, <2>1 DEF JournalIsOrdered, LogsAreOrdered
  <2> QED BY <2>2, <2>3
<1>3. ASSUME NEW u \in Session
      PROVE  /\ EventsInOrder(sessions'[u].events)
             /\ \A i \in 1..Len(sessions'[u].events) :
                  /\ sessions'[u].events[i].at[1] = stream'
                  /\ NotAfter(sessions'[u].events[i].at, Newest(u)')
             /\ ~(sessions'[u].touched > 0) => Recorded(u)' = <<>>
  <2>1. CASE u = s
    <3>1. Len(<<>>) = 0 /\ \A i \in 1..Len(<<>>) : FALSE
      BY EmptySeq
    <3>2. ~(sessions'[u].touched > 0) => Recorded(u)' = <<>>
      BY <1>1, <2>1, DeleteFacts
         DEF JournalIsOrdered, ContentIsOrdered, Known
    <3> QED BY <2>1, <3>1, <3>2, DeleteFacts, EmptyIsInOrder
  <2>2. CASE u # s
    <3>1. sessions'[u] = sessions[u]
      BY <2>2, DeleteFacts
    <3> QED BY <1>1, <3>1 DEF JournalIsOrdered, ContentIsOrdered, Known
  <2> QED BY <2>1, <2>2
<1>4. ContentIsOrdered'
  BY <1>3 DEF ContentIsOrdered, Known
<1> QED BY <1>2, <1>4 DEF JournalIsOrdered

LEMMA RestartKeepsOrder ==
  ASSUME JournalTypeOK, TailsAreSuffixes, JournalIsOrdered, Restart
  PROVE  JournalIsOrdered'
<1>1. /\ stream' = stream + 1 /\ stream \in Nat /\ stream' \in Streams
      /\ stream \in Streams /\ history' = history /\ storing' = <<>>
      /\ \A s \in Session : sessions'[s] = NoProjection
  BY JournalConstants DEF Restart, JournalTypeOK, Streams
<1>2. \A s \in Session : Recorded(s)' = <<>>
  BY <1>1 DEF TailsAreSuffixes, Recorded
<1>3. Len(<<>>) = 0 /\ \A i \in 1..Len(<<>>) : FALSE
  BY EmptySeq
<1>4. \A s \in Session : Newest(s)' = <<stream + 1, 0>>
  BY <1>1, <1>2, <1>3 DEF Newest
<1>5. EventsAreNumbered'
  BY <1>2, <1>3 DEF EventsAreNumbered
<1>6. ContentIsOrdered'
  <2>1. NoProjection.events = <<>>
    BY DEF NoProjection
  <2>2. \A s \in Session : EventsInOrder(sessions'[s].events)
                           /\ \A i \in 1..Len(sessions'[s].events) : FALSE
    BY <1>1, <1>3, <2>1, EmptyIsInOrder
  <2> QED BY <1>2, <2>2 DEF ContentIsOrdered
<1>7. ASSUME NEW s \in Session
      PROVE  \/ disk'[s] = disk[s]
             \/ disk'[s] = Append(disk[s], Torn)
  BY DEF Restart, JournalTypeOK
<1>8. ASSUME NEW s \in Session
      PROVE  /\ LinesInOrder(disk'[s])
             /\ \A i \in 1..Len(disk'[s]) :
                  disk'[s][i] # Torn =>
                    /\ disk'[s][i].event.at[1] = disk'[s][i].stream
                    /\ NotAfter(disk'[s][i].event.at, Newest(s)')
  <2>1. PICK r \in Seq(Line \cup {Torn}), n \in Nat : r = disk[s] /\ n = Len(r)
    BY LenProperties DEF JournalTypeOK
  <2>2. \A i \in 1..n : r[i] # Torn =>
                          /\ r[i].event.at[1] = r[i].stream
                          /\ NotAfter(r[i].event.at, <<stream + 1, 0>>)
    <3> SUFFICES ASSUME NEW i \in 1..n, r[i] # Torn
                 PROVE  /\ r[i].event.at[1] = r[i].stream
                        /\ NotAfter(r[i].event.at, <<stream + 1, 0>>)
      OBVIOUS
    <3>1. r[i].event.at \in Streams \X Nat
      <4>1. r[i] \in Line
        BY <2>1, ElementOfSeq
      <4> QED BY <4>1, EventAt DEF Line
    <3>2. NotAfter(r[i].event.at, <<stream, Len(Recorded(s))>>)
          /\ r[i].event.at[1] = r[i].stream
      BY <2>1 DEF JournalIsOrdered, LogsAreOrdered, Newest
    <3>3. Len(Recorded(s)) \in Nat
      BY LenProperties DEF JournalTypeOK, Recorded
    <3> QED BY <1>1, <3>1, <3>2, <3>3, NotAfterNewest
  <2>3. LinesInOrder(r)
    BY <2>1 DEF JournalIsOrdered, LogsAreOrdered
  <2>4. CASE disk'[s] = r
    BY <1>4, <2>1, <2>2, <2>3, <2>4
  <2>5. CASE disk'[s] = Append(r, Torn)
    <3>1. PICK x \in Seq(Line \cup {Torn}) :
            /\ x = Append(r, Torn) /\ Len(x) = n + 1
            /\ x[n + 1] = Torn /\ \A i \in 1..n : x[i] = r[i]
      <4>1. Torn \in Line \cup {Torn}
        OBVIOUS
      <4>2. PICK x \in Seq(Line \cup {Torn}), m \in Nat :
              /\ x = Append(r, Torn) /\ m = Len(r) /\ Len(x) = m + 1
              /\ x[m + 1] = Torn /\ \A i \in 1..m : x[i] = r[i]
        BY <4>1, AppendLine
      <4> QED BY <2>1, <4>2
    <3>2. \A i \in 1..Len(x) : x[i] # Torn => i \in 1..n
      BY <3>1
    <3>3. LinesInOrder(x)
      BY <2>1, <2>3, <3>1, <3>2 DEF LinesInOrder
    <3> QED BY <1>4, <2>2, <2>5, <3>1, <3>2, <3>3
  <2> QED BY <1>7, <2>1, <2>4, <2>5
<1>9. LogsAreOrdered'
  BY <1>1, <1>3, <1>8 DEF LogsAreOrdered
<1> QED BY <1>5, <1>6, <1>9 DEF JournalIsOrdered

LEMMA OrderStep ==
  ASSUME JournalTypeOK, TailsAreSuffixes, JournalIsOrdered, JournalStep
  PROVE  JournalIsOrdered'
<1>1. ASSUME NEW s \in Session, NEW t \in Turn, NEW k \in Kind,
             Record(s, t, k)
      PROVE  JournalIsOrdered'
  <2>1. EventsAreNumbered /\ ContentIsOrdered /\ LogsAreOrdered
    BY DEF JournalIsOrdered
  <2>2. EventsAreNumbered'
    <3>1. PICK e \in Event :
            /\ e.at = <<stream, Len(Recorded(s)) + 1>> /\ stream' = stream
            /\ Recorded(s)' = Append(Recorded(s), e)
            /\ \A u \in Session : u # s => Recorded(u)' = Recorded(u)
      BY <1>1, RecordFacts
    <3> QED BY <2>1, <3>1, RecordKeepsNumbers
  <2>3. ContentIsOrdered'
    BY <1>1, <2>1, RecordKeepsContent
  <2>4. LogsAreOrdered'
    BY <1>1, <2>1, RecordKeepsLogs
  <2> QED BY <2>2, <2>3, <2>4 DEF JournalIsOrdered
<1>2. CASE Stored
  <2>1. LogsAreOrdered'
    BY <1>2, StoreKeepsLogs DEF JournalIsOrdered
  <2>2. /\ UNCHANGED <<stream, history, sessions>>
        /\ \A u \in Session : Recorded(u)' = Recorded(u)
                              /\ Newest(u)' = Newest(u)
    BY <1>2 DEF Stored, Recorded, Newest
  <2>3. EventsAreNumbered' /\ ContentIsOrdered'
    BY <2>2 DEF JournalIsOrdered, EventsAreNumbered, ContentIsOrdered, Known
  <2> QED BY <2>1, <2>3 DEF JournalIsOrdered
<1> QED BY <1>1, <1>2, DeleteKeepsOrder, RestartKeepsOrder DEF JournalStep

-----------------------------------------------------------------------------
(* What the log restores *)

(* A turn starts before anything else of it is recorded, and turns start in *)
(* order; the projection is of a turn that has started.                     *)
TurnsHaveStarted ==
  \A s \in Session :
    /\ \E n \in 0..MaxTurn : \A t \in Turn : Did(s, t, "started") <=> t <= n
    /\ \A t \in Turn : sessions[s].turn = t => Did(s, t, "started")

LEMMA EventsAfter ==
  ASSUME JournalTypeOK, NEW s \in Session, NEW e \in Event,
         history' = [history EXCEPT ![s][stream] = Append(Recorded(s), e)]
  PROVE  /\ EventsOf(s)' = EventsOf(s) \cup {e}
         /\ \A u \in Session : u # s => EventsOf(u)' = EventsOf(u)
<1>1. /\ stream \in Streams /\ Recorded(s) \in Seq(Event)
      /\ history \in [Session -> [Streams -> Seq(Event)]]
  BY DEF JournalTypeOK, Recorded
<1>2. ToSet(Append(Recorded(s), e)) = ToSet(Recorded(s)) \cup {e}
  <2>1. PICK r \in Seq(Event) : r = Recorded(s)
    BY <1>1
  <2>2. PICK x \in Seq(Event), k \in Nat :
          /\ x = Append(r, e) /\ k = Len(r) /\ Len(x) = k + 1
          /\ x[k + 1] = e /\ \A i \in 1..k : x[i] = r[i]
    BY Appended
  <2>3. /\ ToSet(x) = {x[i] : i \in 1..(k + 1)}
        /\ ToSet(r) = {r[i] : i \in 1..k}
    BY <2>2, LenProperties DEF ToSet
  <2>4. /\ k + 1 \in 1..(k + 1) /\ \A i \in 1..k : i \in 1..(k + 1)
        /\ \A i \in 1..(k + 1) : i = k + 1 \/ i \in 1..k
    OBVIOUS
  <2> QED BY <2>1, <2>2, <2>3, <2>4
<1>3. \A u \in Session, p \in Streams :
        history'[u][p] = IF u = s /\ p = stream THEN Append(Recorded(s), e)
                         ELSE history[u][p]
  BY <1>1
<1>4. \A u \in Session : u # s => EventsOf(u)' = EventsOf(u)
  BY <1>3 DEF EventsOf
<1>5. \A p \in Streams :
        ToSet(history'[s][p]) = IF p = stream
                                THEN ToSet(history[s][p]) \cup {e}
                                ELSE ToSet(history[s][p])
  <2> TAKE p \in Streams
  <2>1. CASE p = stream
    BY <1>2, <1>3, <2>1 DEF Recorded
  <2>2. CASE p # stream
    <3>1. history'[s][p] = history[s][p]
      BY <1>3, <2>2
    <3> QED BY <2>2, <3>1
  <2> QED BY <2>1, <2>2
<1>6. EventsOf(s)' = EventsOf(s) \cup {e}
  <2>1. \A x : x \in EventsOf(s)'
              <=> \E p \in Streams : x \in ToSet(history'[s][p])
    BY DEF EventsOf
  <2>2. \A x : x \in EventsOf(s)
              <=> \E p \in Streams : x \in ToSet(history[s][p])
    BY DEF EventsOf
  <2>3. \A x : x \in EventsOf(s)' <=> x \in EventsOf(s) \/ x = e
    BY <1>1, <1>5, <2>1, <2>2
  <2> QED BY <2>3
<1> QED BY <1>4, <1>6

LEMMA DidAfter ==
  ASSUME JournalTypeOK, NEW s \in Session, NEW e \in Event,
         history' = [history EXCEPT ![s][stream] = Append(Recorded(s), e)]
  PROVE  \A u \in Session, t \in Turn, k \in Kind :
           Did(u, t, k)' <=> \/ Did(u, t, k)
                             \/ u = s /\ e.turn = t /\ e.kind = k
BY EventsAfter DEF Did

LEMMA TurnsStartStep ==
  ASSUME JournalTypeOK, TurnsHaveStarted, JournalStep
  PROVE  TurnsHaveStarted'
<1>0. MaxTurn \in Nat /\ NoTurn \notin Turn /\ "started" \in Kind
  BY JournalConstants DEF NoTurn, Turn, Kind
<1>1. ASSUME NEW s \in Session, NEW t \in Turn, NEW k \in Kind,
             Record(s, t, k)
      PROVE  TurnsHaveStarted'
  <2>1. PICK e \in Event :
          /\ e.turn = t /\ e.kind = k
          /\ history' = [history EXCEPT ![s][stream] = Append(Recorded(s), e)]
          /\ \A u \in Session :
               sessions'[u] \in
                 Pruned(IF u = s THEN Projected(sessions[s], e, sequence)
                                 ELSE sessions[u])
    BY <1>1, RecordFacts
  <2>2. \A u \in Session, x \in Turn :
          Did(u, x, "started")' <=> \/ Did(u, x, "started")
                                    \/ u = s /\ x = t /\ k = "started"
    BY <1>0, <2>1, DidAfter
  <2>3. PICK n \in 0..MaxTurn : \A x \in Turn : Did(s, x, "started") <=> x <= n
    BY DEF TurnsHaveStarted
  <2>4. Latest(s) = n
    <3>1. {x \in Turn : Did(s, x, "started")} = 1..n
      BY <1>0, <2>3 DEF Turn
    <3>2. Cardinality(1..n) = n
      BY <1>0, FS_Interval
    <3> QED BY <3>1, <3>2 DEF Latest
  <2>5. IF k = "started" THEN t = n + 1 ELSE Did(s, t, "started")
    BY <1>1, <2>4 DEF Record, MaySend
  <2>6. \E m \in 0..MaxTurn : \A x \in Turn : Did(s, x, "started")' <=> x <= m
    <3>1. CASE k = "started"
      <4>1. \A x \in Turn : Did(s, x, "started")' <=> x <= n + 1
        BY <2>2, <2>3, <2>5, <3>1 DEF Turn
      <4>2. n + 1 \in 0..MaxTurn
        BY <1>0, <2>5, <3>1 DEF Turn
      <4> QED BY <4>1, <4>2
    <3>2. CASE k # "started"
      BY <2>2, <2>3, <3>2
    <3> QED BY <3>1, <3>2
  <2>7. \A u \in Session \ {s} :
          \E m \in 0..MaxTurn : \A x \in Turn : Did(u, x, "started")' <=> x <= m
    BY <2>2 DEF TurnsHaveStarted
  <2>8. sequence \in Nat
        /\ \A u \in Session : /\ sessions[u] \in Projection
                              /\ Len(sessions[u].tail) <= MaxTail
    BY DEF JournalTypeOK
  <2>9. ASSUME NEW u \in Session, NEW x \in Turn, sessions'[u].turn = x
        PROVE  Did(u, x, "started")'
    <3>1. CASE u = s
      <4>1. PICK q \in Projection : q.turn = t /\ sessions'[s] \in Pruned(q)
        <5>1. /\ Projected(sessions[s], e, sequence) \in Projection
              /\ Projected(sessions[s], e, sequence).turn = e.turn
          BY <2>8, ProjectedFacts, Zenon
        <5> QED BY <2>1, <5>1
      <4>2. sessions'[s].turn \in {t, NoTurn}
        BY <4>1, ClearedType DEF Pruned
      <4> QED BY <1>0, <2>2, <2>5, <2>9, <3>1, <4>2
    <3>2. CASE u # s
      <4>1. PICK q \in Projection :
              q = sessions[u] /\ sessions'[u] \in Pruned(q)
        BY <2>1, <2>8, <3>2
      <4>2. sessions'[u].turn \in {sessions[u].turn, NoTurn}
        BY <4>1, ClearedType DEF Pruned
      <4> QED BY <1>0, <2>2, <2>9, <4>2 DEF TurnsHaveStarted
    <3> QED BY <3>1, <3>2
  <2> QED BY <2>6, <2>7, <2>9 DEF TurnsHaveStarted
<1>2. ASSUME NEW s \in Session, Delete(s)
      PROVE  TurnsHaveStarted'
  <2>1. \A u \in Session : \A x \in Turn :
          Did(u, x, "started")' <=> Did(u, x, "started")
    BY <1>2 DEF Delete, Did, EventsOf
  <2>2. \A u \in Session : sessions'[u].turn \in {sessions[u].turn, NoTurn}
    BY <1>2, DeleteFacts
  <2> QED BY <1>0, <2>1, <2>2 DEF TurnsHaveStarted
<1>3. CASE Stored
  BY <1>3 DEF Stored, TurnsHaveStarted, Did, EventsOf
<1>4. CASE Restart
  <2>1. NoProjection.turn = NoTurn
    BY DEF NoProjection
  <2>2. history' = history /\ \A s \in Session : sessions'[s] = NoProjection
    BY <1>4 DEF Restart
  <2> QED BY <1>0, <2>1, <2>2 DEF TurnsHaveStarted, Did, EventsOf
<1> QED BY <1>1, <1>2, <1>3, <1>4 DEF JournalStep

LEMMA RebuildFacts ==
  ASSUME NEW p \in Projection, NEW line \in Line, NEW n \in Nat
  PROVE  /\ RebuildStep(p, line, n) \in Projection
         /\ RebuildStep(p, line, n).turn = line.event.turn
         /\ RebuildStep(p, line, n).events =
              Append(IF p.turn # line.event.turn THEN <<>> ELSE p.events,
                     line.event)
<1>1. PICK e \in Event : e = line.event
  BY DEF Line
<1>2. p.events \in Seq(Event) /\ p.terminal \in BOOLEAN
  BY DEF Projection
<1>3. PICK a, b :
        /\ a = Append(IF p.turn # e.turn THEN <<>> ELSE p.events, e)
        /\ b = CASE e.kind = "started" -> FALSE
                 [] e.kind = "ended" -> TRUE
                 [] OTHER -> p.terminal /\ ~(p.turn # e.turn)
  OBVIOUS
<1>4. a \in Seq(Event) /\ b \in BOOLEAN
  BY <1>2, <1>3, EmptySeq, AppendProperties
<1>5. ApplyEvent(p, e) = [p EXCEPT !.turn = e.turn, !.events = a,
                                   !.terminal = b]
  BY <1>3 DEF ApplyEvent
<1>6. RebuildStep(p, line, n) = [ApplyEvent(p, e) EXCEPT !.cursor = n]
  BY <1>1 DEF RebuildStep
<1>7. p = [cursor |-> p.cursor, turn |-> p.turn, events |-> p.events,
           tail |-> p.tail, terminal |-> p.terminal, touched |-> p.touched]
  BY DEF Projection
<1>8. RebuildStep(p, line, n) =
        [cursor |-> n, turn |-> e.turn, events |-> a,
         tail |-> p.tail, terminal |-> b, touched |-> p.touched]
  <2>1. ApplyEvent(p, e) =
          [cursor |-> p.cursor, turn |-> e.turn, events |-> a,
           tail |-> p.tail, terminal |-> b, touched |-> p.touched]
    BY <1>5, <1>7
  <2> QED BY <1>6, <2>1
<1>9. e.turn \in Turn
  BY DEF Event
<1>10. RebuildStep(p, line, n) \in Projection
  BY <1>4, <1>8, <1>9 DEF Projection
<1> QED BY <1>1, <1>3, <1>8, <1>10

(* With a line more, one round more. *)
LEMMA RebuiltAppend ==
  ASSUME NEW lines \in Seq(Line), NEW l \in Line
  PROVE  /\ Rebuilt(lines) \in Projection
         /\ Rebuilt(Append(lines, l)) =
              RebuildStep(Rebuilt(lines), l, Len(lines) + 1)
<1>1. PICK more \in Seq(Line), n \in Nat :
        /\ more = Append(lines, l) /\ n = Len(lines) /\ Len(more) = n + 1
        /\ more[n + 1] = l /\ \A i \in 1..n : more[i] = lines[i]
  <2>1. PICK more : more = Append(lines, l)
    OBVIOUS
  <2>2. /\ Append(lines, l) \in Seq(Line)
        /\ Len(Append(lines, l)) = Len(lines) + 1
        /\ Append(lines, l)[Len(lines) + 1] = l
        /\ \A i \in 1..Len(lines) : Append(lines, l)[i] = lines[i]
    BY AppendProperties
  <2>3. PICK n \in Nat : n = Len(lines)
    BY LenProperties
  <2>4. /\ more \in Seq(Line) /\ Len(more) = n + 1 /\ more[n + 1] = l
        /\ \A i \in 1..n : more[i] = lines[i]
    BY ONLY <2>1, <2>2, <2>3, Zenon
  <2> QED BY <2>1, <2>3, <2>4
<1>2. /\ \A i \in 1..n, a \in Projection :
           RebuildStep(a, lines[i], i) \in Projection
      /\ \A i \in 1..(n + 1), a \in Projection :
           RebuildStep(a, more[i], i) \in Projection
  <2>1. /\ \A i \in 1..n : lines[i] \in Line /\ i \in Nat
        /\ \A i \in 1..(n + 1) : more[i] \in Line /\ i \in Nat
    BY <1>1, ElementOfSeq
  <2> QED BY <2>1, RebuildFacts
<1>3. PICK f \in [0..n -> Projection] :
        /\ f[0] = NoProjection
        /\ \A i \in 1..n : f[i] = RebuildStep(f[i - 1], lines[i], i)
        /\ Rebuilt(lines) = f[n]
  BY <1>1, <1>2, NoProjectionType, RebuiltSteps
<1>4. PICK g \in [0..(n + 1) -> Projection] :
        /\ g[0] = NoProjection
        /\ \A i \in 1..(n + 1) : g[i] = RebuildStep(g[i - 1], more[i], i)
        /\ Rebuilt(more) = g[n + 1]
  <2>1. /\ Len(more) \in Nat
        /\ \A i \in 1..Len(more), a \in Projection :
             RebuildStep(a, more[i], i) \in Projection
    BY <1>1, <1>2
  <2>2. \E g \in [0..Len(more) -> Projection] :
          /\ g[0] = NoProjection
          /\ \A i \in 1..Len(more) : g[i] = RebuildStep(g[i - 1], more[i], i)
          /\ Rebuilt(more) = g[Len(more)]
    BY <2>1, NoProjectionType, RebuiltSteps
  <2> QED BY <1>1, <2>2
<1>5. g[n] = f[n]
  <2> DEFINE S == {i \in 0..n : g[i] = f[i]}
  <2>1. 0 \in S
    BY <1>3, <1>4
  <2>2. \A i \in 1..n : i - 1 \in S => i \in S
    <3> TAKE i \in 1..n
    <3>1. i \in 1..(n + 1) /\ more[i] = lines[i]
      BY <1>1
    <3> QED BY <1>3, <1>4, <3>1
  <2>3. 0..n \subseteq S
    <3> HIDE DEF S
    <3> QED BY <2>1, <2>2, UpTo
  <2> QED BY <2>3
<1>6. Rebuilt(more) = RebuildStep(f[n], l, n + 1)
  <2>1. n + 1 \in 1..(n + 1) /\ (n + 1) - 1 = n
    OBVIOUS
  <2> QED BY <1>1, <1>4, <1>5, <2>1
<1> QED BY <1>1, <1>3, <1>6

LEMMA RebuiltNothing == Rebuilt(<<>>) = NoProjection
<1>1. Len(<<>>) = 0 /\ \A i \in 1..Len(<<>>) : FALSE
  BY EmptySeq
<1>2. \E f \in [0..Len(<<>>) -> Projection] :
        /\ f[0] = NoProjection
        /\ \A i \in 1..Len(<<>>) : f[i] = RebuildStep(f[i - 1], <<>>[i], i)
        /\ Rebuilt(<<>>) = f[Len(<<>>)]
  BY <1>1, NoProjectionType, RebuiltSteps
<1> QED BY <1>1, <1>2

(* The lines of the process "own" are the last ones, and restore the turn   *)
(* and the events of the projection p.                                      *)
Restores(p, lines, own) ==
  \E k \in 0..Len(lines) :
    /\ \A i \in 1..Len(lines) : lines[i].stream = own <=> i > k
    /\ Rebuilt(SubSeq(lines, k + 1, Len(lines))).turn = p.turn
    /\ Rebuilt(SubSeq(lines, k + 1, Len(lines))).events = p.events

(* The log of s when the store operation in hand is done. *)
Upcoming(s) == IF storing = <<>> THEN disk[s] ELSE Store[s]

(* The inductive invariant behind RestoreAgrees.                            *)
LogsRestore ==
  \A s \in Session \ deleted :
    IF sessions[s].terminal THEN Upcoming(s) = <<>>
    ELSE Torn \notin ToSet(Upcoming(s))
         => Restores(sessions[s], Upcoming(s), stream)

LEMMA Untorn ==
  ASSUME NEW lines \in Seq(Line \cup {Torn}), Torn \notin ToSet(lines)
  PROVE  lines \in Seq(Line)
<1>1. \A i \in 1..Len(lines) : lines[i] \in Line
  <2>1. ToSet(lines) = {lines[i] : i \in 1..Len(lines)}
    BY LenProperties DEF ToSet
  <2> QED BY <2>1, ElementOfSeq
<1> QED BY <1>1, LenProperties

LEMMA RestoresNothing ==
  ASSUME NEW lines \in Seq(Line), NEW own,
         \A i \in 1..Len(lines) : lines[i].stream # own
  PROVE  Restores(NoProjection, lines, own)
<1>1. PICK n \in Nat : n = Len(lines)
  BY LenProperties
<1>2. SubSeq(lines, n + 1, n) = <<>>
  BY <1>1, SubSeqProperties
<1>3. \A i \in 1..n : lines[i].stream = own <=> i > n
  BY <1>1
<1>4. PICK x : x = Rebuilt(SubSeq(lines, n + 1, n)) /\ x = NoProjection
  BY <1>2, RebuiltNothing
<1>5. n \in 0..n
  OBVIOUS
<1> QED BY <1>1, <1>3, <1>4, <1>5 DEF Restores

LEMMA RestoresMore ==
  ASSUME NEW p, NEW q, NEW lines \in Seq(Line), NEW own, NEW l \in Line,
         l.stream = own, Restores(p, lines, own), q.turn = l.event.turn,
         q.events = Append(IF p.turn # l.event.turn THEN <<>> ELSE p.events,
                           l.event)
  PROVE  Restores(q, Append(lines, l), own)
<1>0. PICK n \in Nat : n = Len(lines)
  BY LenProperties
<1>1. PICK k \in 0..n :
        /\ n = Len(lines)
        /\ \A i \in 1..n : lines[i].stream = own <=> i > k
        /\ Rebuilt(SubSeq(lines, k + 1, n)).turn = p.turn
        /\ Rebuilt(SubSeq(lines, k + 1, n)).events = p.events
  BY <1>0 DEF Restores
<1>2. PICK more \in Seq(Line) :
        /\ more = Append(lines, l) /\ Len(more) = n + 1
        /\ more[n + 1] = l /\ \A i \in 1..n : more[i] = lines[i]
  <2>1. PICK more : more = Append(lines, l)
    OBVIOUS
  <2>2. /\ Append(lines, l) \in Seq(Line)
        /\ Len(Append(lines, l)) = Len(lines) + 1
        /\ Append(lines, l)[Len(lines) + 1] = l
        /\ \A i \in 1..Len(lines) : Append(lines, l)[i] = lines[i]
    BY AppendProperties
  <2>3. /\ more \in Seq(Line) /\ Len(more) = n + 1 /\ more[n + 1] = l
        /\ \A i \in 1..n : more[i] = lines[i]
    BY ONLY <2>1, <2>2, <1>1, Zenon
  <2> QED BY <2>1, <2>3
<1>3. PICK old \in Seq(Line) : old = SubSeq(lines, k + 1, n)
  <2>1. \A i \in (k + 1)..n : i \in 1..Len(lines)
    BY <1>1
  <2>2. \A i \in (k + 1)..n : lines[i] \in Line
    BY <2>1, ElementOfSeq
  <2>3. SubSeq(lines, k + 1, n) \in Seq(Line)
    <3>1. k + 1 \in Int /\ n \in Int
      OBVIOUS
    <3> QED BY <2>2, <3>1, SubSeqProperties
  <2> QED BY <2>3
<1>4. SubSeq(more, k + 1, n + 1) = Append(old, l)
  <2>1. SubSeq(more, k + 1, n + 1)
          = SubSeq(more, k + 1, n + 1 - 1) \o <<more[n + 1]>>
    BY <1>2, SubSeqRecursiveSecond
  <2>2. SubSeq(more, k + 1, n) = SubSeq(lines, k + 1, n)
    <3>1. \A i \in (k + 1)..n : i \in 1..n /\ i \in 1..(n + 1)
      OBVIOUS
    <3>2. \A i \in (k + 1)..n : lines[i] \in Line /\ more[i] \in Line
      BY <1>1, <1>2, <3>1, ElementOfSeq
    <3> QED BY <1>2, <3>1, <3>2, SubSeqProperties
  <2> QED BY <1>2, <1>3, <2>1, <2>2, AppendIsConcat, SMTT(30)
<1>5. PICK r \in Projection :
        /\ r = Rebuilt(old) /\ r.turn = p.turn /\ r.events = p.events
        /\ Rebuilt(Append(old, l)) = RebuildStep(r, l, Len(old) + 1)
  <2>1. Rebuilt(old) \in Projection
        /\ Rebuilt(Append(old, l)) = RebuildStep(Rebuilt(old), l, Len(old) + 1)
    BY <1>3, RebuiltAppend
  <2> QED BY <1>1, <1>3, <2>1
<1>6. PICK x : x = RebuildStep(r, l, Len(old) + 1)
               /\ x.turn = q.turn /\ x.events = q.events
  <2>1. Len(old) + 1 \in Nat
    BY <1>3, LenProperties
  <2>2. /\ RebuildStep(r, l, Len(old) + 1).turn = l.event.turn
        /\ RebuildStep(r, l, Len(old) + 1).events =
             Append(IF r.turn # l.event.turn THEN <<>> ELSE r.events, l.event)
    BY <2>1, RebuildFacts
  <2> QED BY <1>5, <2>2
<1>7. \A i \in 1..(n + 1) : more[i].stream = own <=> i > k
  <2> TAKE i \in 1..(n + 1)
  <2>1. i \in 1..n \/ (i = n + 1 /\ i > k)
    BY <1>1
  <2> QED BY <1>1, <1>2, <2>1
<1>8. k \in 0..(n + 1)
  OBVIOUS
<1>9. Restores(q, more, own)
  BY <1>2, <1>4, <1>5, <1>6, <1>7, <1>8, ZenonT(30) DEF Restores
<1> QED BY <1>2, <1>9

(* The turn that starts next has not started. *)
LEMMA NotStartedYet ==
  ASSUME JournalTypeOK, TurnsHaveStarted, NEW s \in Session, NEW t \in Turn,
         Record(s, t, "started")
  PROVE  ~Did(s, t, "started")
<1>0. MaxTurn \in Nat
  BY JournalConstants
<1>1. PICK n \in 0..MaxTurn : \A x \in Turn : Did(s, x, "started") <=> x <= n
  BY DEF TurnsHaveStarted
<1>2. Latest(s) = n
  <2>1. {x \in Turn : Did(s, x, "started")} = 1..n
    BY <1>0, <1>1 DEF Turn
  <2>2. Cardinality(1..n) = n
    BY <1>0, FS_Interval
  <2> QED BY <2>1, <2>2 DEF Latest
<1>3. t = n + 1
  BY <1>2 DEF Record, MaySend
<1> QED BY <1>0, <1>1, <1>3

LEMMA RecordKeepsRestores ==
  ASSUME JournalTypeOK, TailsAreSuffixes, TurnsHaveStarted, LogsRestore,
         NEW s \in Session, NEW t \in Turn, NEW k \in Kind, Record(s, t, k)
  PROVE  LogsRestore'
<1>1. PICK e \in Event :
        /\ e.turn = t /\ e.kind = k
        /\ \A u \in Session :
             sessions'[u] \in
               Pruned(IF u = s THEN Projected(sessions[s], e, sequence)
                               ELSE sessions[u])
        /\ LET q == Projected(sessions[s], e, sequence) IN
           storing' = <<[op |-> IF q.terminal THEN "discard" ELSE "append",
                         session |-> s,
                         line |-> [stream |-> stream, cursor |-> q.cursor,
                                   event |-> e]]>>
        /\ UNCHANGED <<stream, disk, deleted>>
  BY RecordFacts
<1>2. stream \in Streams /\ sequence \in Nat
      /\ \A u \in Session : /\ sessions[u] \in Projection
                            /\ Len(sessions[u].tail) <= MaxTail
                            /\ disk[u] \in Seq(Line \cup {Torn})
  BY DEF JournalTypeOK
<1>3. PICK q \in Projection :
        /\ q = Projected(sessions[s], e, sequence)
        /\ q.turn = e.turn /\ q.cursor = sessions[s].cursor + 1
        /\ q.events = Append(IF sessions[s].turn # e.turn THEN <<>>
                             ELSE sessions[s].events, e)
  <2>1. /\ Projected(sessions[s], e, sequence) \in Projection
        /\ Projected(sessions[s], e, sequence).turn = e.turn
        /\ Projected(sessions[s], e, sequence).cursor = sessions[s].cursor + 1
        /\ Projected(sessions[s], e, sequence).events =
             Append(IF sessions[s].turn # e.turn THEN <<>>
                    ELSE sessions[s].events, e)
    BY <1>2, ProjectedFacts, ZenonT(30)
  <2> QED BY <2>1
<1>4. PICK l \in Line : l = [stream |-> stream, cursor |-> q.cursor,
                             event |-> e]
  BY <1>2 DEF Line, Projection
<1>5. PICK o : /\ o = [op |-> IF q.terminal THEN "discard" ELSE "append",
                       session |-> s, line |-> l]
               /\ storing' = <<o>>
  BY <1>1, <1>3, <1>4
<1>6. /\ o.session = s /\ o.line = l
      /\ o.op = IF q.terminal THEN "discard" ELSE "append"
      /\ Head(storing') = o /\ storing' # <<>>
  BY <1>5
<1>7. \A u \in Session :
        Upcoming(u)' = IF u # s THEN disk[u]
                       ELSE IF q.terminal THEN <<>> ELSE Append(disk[s], l)
  <2>1. disk' = disk /\ disk \in [Session -> Seq(Line \cup {Torn})]
    BY <1>1 DEF JournalTypeOK
  <2>2. Store' = IF q.terminal THEN [disk EXCEPT ![s] = <<>>]
                 ELSE [disk EXCEPT ![s] = Append(@, l)]
    BY <1>6, <2>1 DEF Store
  <2> QED BY <1>6, <2>1, <2>2 DEF Upcoming
<1>8. \A u \in Session : Upcoming(u) = disk[u]
  BY DEF Upcoming, Record
<1>9. ASSUME NEW u \in Session \ deleted
      PROVE  \E p \in Projection :
               /\ sessions'[u] \in Pruned(p)
               /\ IF p.terminal THEN Upcoming(u)' = <<>>
                  ELSE Torn \notin ToSet(Upcoming(u)')
                       => Restores(p, Upcoming(u)', stream)
  <2>1. CASE u # s
    <3>1. sessions'[u] \in Pruned(sessions[u]) /\ sessions[u] \in Projection
      BY <1>1, <1>2, <2>1
    <3> QED BY <1>7, <1>8, <2>1, <3>1 DEF LogsRestore
  <2>2. CASE u = s /\ q.terminal
    <3>1. sessions'[u] \in Pruned(q)
      BY <1>1, <1>3, <2>2
    <3> QED BY <1>7, <2>2, <3>1
  <2>3. CASE u = s /\ ~q.terminal
    <3>1. sessions'[u] \in Pruned(q) /\ Upcoming(u)' = Append(disk[s], l)
      BY <1>1, <1>3, <1>7, <2>3
    <3>2. ASSUME Torn \notin ToSet(Append(disk[s], l))
          PROVE  Restores(q, Append(disk[s], l), stream)
      <4>1. disk[s] \in Seq(Line)
        <5>1. PICK r \in Seq(Line \cup {Torn}) : r = disk[s]
          BY <1>2
        <5>2. PICK x \in Seq(Line \cup {Torn}), n \in Nat :
                /\ x = Append(r, l) /\ n = Len(r) /\ Len(x) = n + 1
                /\ x[n + 1] = l /\ \A i \in 1..n : x[i] = r[i]
          BY AppendLine
        <5>3. \A i \in 1..n : i \in 1..(n + 1) /\ r[i] # Torn
          <6>1. ToSet(x) = {x[i] : i \in 1..(n + 1)}
            BY <5>2, LenProperties DEF ToSet
          <6>2. \A i \in 1..n : i \in 1..(n + 1)
            OBVIOUS
          <6> QED BY <3>2, <5>1, <5>2, <6>1, <6>2
        <5>4. ToSet(r) = {r[i] : i \in 1..n}
          BY <5>2, LenProperties DEF ToSet
        <5> QED BY <5>1, <5>3, <5>4, Untorn
      <4>2. Torn \notin ToSet(disk[s])
        <5>1. PICK r \in Seq(Line) : r = disk[s]
          BY <4>1
        <5>2. ToSet(r) = {r[i] : i \in 1..Len(r)}
          BY LenProperties DEF ToSet
        <5>3. \A i \in 1..Len(r) : r[i] \in Line
          BY ElementOfSeq
        <5>4. Torn \notin Line
          <6>1. Torn.stream \notin Streams
            BY JournalConstants DEF Torn, Streams
          <6> QED BY <6>1 DEF Line
        <5> QED BY <5>1, <5>2, <5>3, <5>4
      <4>3. l.stream = stream /\ l.event = e
        BY <1>4
      <4>4. PICK p : /\ Restores(p, disk[s], stream)
                     /\ q.events = Append(IF p.turn # e.turn THEN <<>>
                                          ELSE p.events, e)
        <5>1. CASE ~sessions[s].terminal
          BY <1>3, <1>8, <2>3, <4>2, <5>1 DEF LogsRestore
        <5>2. CASE sessions[s].terminal
          <6>1. disk[s] = <<>>
            BY <1>8, <2>3, <5>2 DEF LogsRestore
          <6>2. sessions[s].turn # e.turn
            <7>1. CASE k = "started"
              <8>1. ~Did(s, t, "started")
                BY <1>1, <7>1, NotStartedYet
              <8> QED BY <1>1, <8>1 DEF TurnsHaveStarted
            <7>2. CASE k # "started"
              <8>1. q.terminal = CASE e.kind = "started" -> FALSE
                                   [] e.kind = "ended" -> TRUE
                                   [] OTHER -> /\ sessions[s].terminal
                                               /\ sessions[s].turn = e.turn
                BY <1>2, <1>3, ProjectedFacts, Zenon
              <8> QED BY ONLY <1>1, <2>3, <5>2, <7>2, <8>1
            <7> QED BY <7>1, <7>2
          <6>3. Restores(NoProjection, <<>>, stream)
            <7>1. <<>> \in Seq(Line) /\ Len(<<>>) = 0
              BY EmptySeq
            <7>2. \A i \in 1..Len(<<>>) : <<>>[i].stream # stream
              BY <7>1
            <7> QED BY <7>1, <7>2, RestoresNothing
          <6>4. NoProjection.events = <<>>
            BY DEF NoProjection
          <6> QED BY <1>3, <6>1, <6>2, <6>3, <6>4
        <5> QED BY <5>1, <5>2
      <4> QED BY <1>3, <4>1, <4>3, <4>4, RestoresMore
    <3> QED BY <2>3, <3>1, <3>2
  <2> QED BY <2>1, <2>2, <2>3
<1>10. ASSUME NEW u \in Session \ deleted
       PROVE  IF sessions'[u].terminal THEN Upcoming(u)' = <<>>
              ELSE Torn \notin ToSet(Upcoming(u)')
                   => Restores(sessions'[u], Upcoming(u)', stream)
  <2>1. PICK p \in Projection :
          /\ sessions'[u] \in Pruned(p)
          /\ IF p.terminal THEN Upcoming(u)' = <<>>
             ELSE Torn \notin ToSet(Upcoming(u)')
                  => Restores(p, Upcoming(u)', stream)
    BY <1>9
  <2>2. ClearReplayContent(p).terminal = p.terminal
    BY ClearedType
  <2> QED BY <2>1, <2>2 DEF Pruned
<1> QED BY <1>1, <1>10 DEF LogsRestore

LEMMA RestartKeepsRestores ==
  ASSUME JournalTypeOK, JournalIsOrdered, Restart
  PROVE  LogsRestore'
<1>1. /\ stream \in Streams /\ stream' = stream + 1 /\ stream \in Nat
      /\ storing' = <<>> /\ deleted' = deleted
      /\ \A s \in Session : sessions'[s] = NoProjection
  BY JournalConstants DEF Restart, JournalTypeOK, Streams
<1>2. ASSUME NEW s \in Session, Torn \notin ToSet(disk'[s])
      PROVE  Restores(NoProjection, disk'[s], stream')
  <2>1. PICK r \in Seq(Line \cup {Torn}), n \in Nat : r = disk[s] /\ n = Len(r)
    BY LenProperties DEF JournalTypeOK
  <2>2. disk'[s] = r
    <3>1. disk'[s] \in {r, Append(r, Torn)}
      BY <2>1 DEF Restart, JournalTypeOK
    <3>2. Torn \in ToSet(Append(r, Torn))
      <4>1. Torn \in Line \cup {Torn}
        OBVIOUS
      <4>2. PICK x \in Seq(Line \cup {Torn}), m \in Nat :
              /\ x = Append(r, Torn) /\ m = Len(r) /\ Len(x) = m + 1
              /\ x[m + 1] = Torn /\ \A i \in 1..m : x[i] = r[i]
        BY <4>1, AppendLine
      <4>3. ToSet(x) = {x[i] : i \in 1..(m + 1)} /\ m + 1 \in 1..(m + 1)
        BY <4>2, LenProperties DEF ToSet
      <4> QED BY <4>2, <4>3
    <3> QED BY <1>2, <3>1, <3>2
  <2>3. r \in Seq(Line)
    BY <1>2, <2>2, Untorn
  <2>4. ASSUME NEW i \in 1..n
        PROVE  r[i].stream # stream'
    <3>1. r[i] \in Line /\ r[i] # Torn
      <4>1. Torn.stream \notin Streams
        BY JournalConstants DEF Torn, Streams
      <4>2. r[i] \in Line
        BY <2>1, <2>3, ElementOfSeq
      <4> QED BY <4>1, <4>2 DEF Line
    <3>2. r[i].event.at \in Streams \X Nat
      BY <3>1, EventAt DEF Line
    <3>3. /\ r[i].event.at[1] = r[i].stream
          /\ NotAfter(r[i].event.at, <<stream, Len(Recorded(s))>>)
      BY <2>1, <3>1 DEF JournalIsOrdered, LogsAreOrdered, Newest
    <3>4. Len(Recorded(s)) \in Nat
      BY LenProperties DEF JournalTypeOK, Recorded
    <3>5. r[i].event.at[1] <= stream
      BY <1>1, <3>2, <3>3, <3>4, NotAfterNewest
    <3> QED BY <1>1, <3>1, <3>3, <3>5 DEF Line, Streams
  <2> QED BY <2>1, <2>2, <2>3, <2>4, RestoresNothing
<1>3. NoProjection.terminal = FALSE
  BY DEF NoProjection
<1>4. \A s \in Session : Upcoming(s)' = disk'[s]
  BY <1>1 DEF Upcoming
<1> QED BY <1>1, <1>2, <1>3, <1>4 DEF LogsRestore

LEMMA RestoreStep ==
  ASSUME JournalTypeOK, TailsAreSuffixes, JournalIsOrdered, TurnsHaveStarted,
         LogsRestore, JournalStep
  PROVE  LogsRestore'
<1>1. ASSUME NEW s \in Session, Delete(s)
      PROVE  LogsRestore'
  <2>1. /\ deleted' = deleted \cup {s} /\ stream' = stream
        /\ \A u \in Session : u # s => sessions'[u] = sessions[u]
        /\ \A u \in Session : Upcoming(u)' = Upcoming(u)
    BY <1>1, DeleteFacts DEF Delete, Upcoming
  <2> QED BY <2>1 DEF LogsRestore
<1>2. CASE Stored
  <2>1. UNCHANGED <<deleted, stream, sessions>>
        /\ \A u \in Session : Upcoming(u)' = Upcoming(u)
    BY <1>2 DEF Stored, Upcoming
  <2> QED BY <2>1 DEF LogsRestore
<1> QED BY <1>1, <1>2, RecordKeepsRestores, RestartKeepsRestores
        DEF JournalStep

(* Reading a log without torn lines that ends with lines of this process.   *)
LEMMA LoadRestores ==
  ASSUME NEW p, p.events # <<>>, NEW lines \in Seq(Line),
         Restores(p, lines, stream)
  PROVE  Rebuilt(Load(lines)).events = p.events
<1>0. PICK n \in Nat : n = Len(lines)
  BY LenProperties
<1>1. PICK k \in 0..n :
        /\ n = Len(lines)
        /\ \A i \in 1..n : lines[i].stream = stream <=> i > k
        /\ Rebuilt(SubSeq(lines, k + 1, n)).events = p.events
  BY <1>0 DEF Restores
<1>2. k < n
  <2> SUFFICES ASSUME k = n PROVE FALSE
    OBVIOUS
  <2>1. SubSeq(lines, n + 1, n) = <<>>
    BY <1>0, SubSeqProperties
  <2>2. NoProjection.events = <<>>
    BY DEF NoProjection
  <2> QED BY <1>1, <2>1, <2>2, RebuiltNothing
<1>3. \A i \in 1..n : lines[i] # Torn /\ lines[i] \in Line
  <2>1. Torn.stream \notin Streams
    BY JournalConstants DEF Torn, Streams
  <2>2. \A i \in 1..n : lines[i] \in Line
    BY <1>1, ElementOfSeq
  <2> QED BY <2>1, <2>2 DEF Line
<1>4. {i \in 1..n : \A j \in 1..i : lines[j] # Torn} = 1..n
  <2>1. \A i \in 1..n : \A j \in 1..i : j \in 1..n
    OBVIOUS
  <2> QED BY <1>3, <2>1
<1>5. Cardinality(1..n) = n
  BY <1>2, FS_Interval
<1>6. {i \in 1..n : lines[i].stream = lines[n].stream} = (k + 1)..n
  <2>1. n \in 1..n /\ lines[n].stream = stream
    BY <1>1, <1>2
  <2>2. \A i \in 1..n : i > k <=> i \in (k + 1)..n
    OBVIOUS
  <2>3. (k + 1)..n \subseteq 1..n
    OBVIOUS
  <2> QED BY <1>1, <2>1, <2>2, <2>3
<1>7. Cardinality((k + 1)..n) = n - k
  BY <1>2, FS_Interval
<1>8. Load(lines) = [i \in 1..(n - k) |-> lines[Nth((k + 1)..n, i)]]
  BY <1>1, <1>4, <1>5, <1>6, <1>7, ZenonT(30) DEF Load
<1>9. \A i \in 1..(n - k) : Nth((k + 1)..n, i) = k + i
  BY <1>2, NthOfInterval
<1>10. Load(lines) = [i \in 1..(n - k) |-> lines[k + i]]
  BY <1>8, <1>9
<1>11. SubSeq(lines, k + 1, n) = [i \in 1..(n - k) |-> lines[k + i]]
  <2>1. \A i \in (k + 1)..n : lines[i] \in Line
    BY <1>3
  <2>2. /\ SubSeq(lines, k + 1, n) \in Seq(Line)
        /\ Len(SubSeq(lines, k + 1, n)) = n - k
        /\ \A i \in 1..(n - k) : SubSeq(lines, k + 1, n)[i] = lines[k + i]
    BY <1>2, <2>1, SubSeqProperties
  <2> QED BY <1>2, <2>2, LenProperties
<1> QED BY <1>1, <1>10, <1>11

LEMMA InitialOrder ==
  ASSUME Init
  PROVE  JournalIsOrdered /\ TurnsHaveStarted /\ LogsRestore
<1>1. /\ stream = 1 /\ stream \in Streams /\ storing = <<>>
      /\ \A s \in Session : /\ sessions[s] = NoProjection /\ disk[s] = <<>>
                            /\ \A p \in Streams : history[s][p] = <<>>
  BY JournalConstants DEF Init, JournalInit, Streams
<1>2. Len(<<>>) = 0 /\ <<>> \in Seq(Line) /\ \A i \in 1..Len(<<>>) : FALSE
  BY EmptySeq
<1>3. /\ NoProjection.events = <<>> /\ NoProjection.turn = NoTurn
      /\ NoProjection.terminal = FALSE
  BY DEF NoProjection
<1>4. \A s \in Session : Recorded(s) = <<>>
  BY <1>1 DEF Recorded
<1>5. JournalIsOrdered
  <2>1. EventsAreNumbered
    BY <1>2, <1>4 DEF EventsAreNumbered
  <2>2. ContentIsOrdered
    <3>1. \A s \in Session : EventsInOrder(sessions[s].events)
                             /\ \A i \in 1..Len(sessions[s].events) : FALSE
      BY <1>1, <1>2, <1>3, EmptyIsInOrder
    <3> QED BY <1>4, <3>1 DEF ContentIsOrdered
  <2>3. LogsAreOrdered
    BY <1>1, <1>2, EmptyIsInOrder DEF LogsAreOrdered
  <2> QED BY <2>1, <2>2, <2>3 DEF JournalIsOrdered
<1>6. TurnsHaveStarted
  <2>1. 0 \in 0..MaxTurn /\ NoTurn \notin Turn /\ \A t \in Turn : ~(t <= 0)
    BY JournalConstants DEF NoTurn, Turn
  <2>2. \A s \in Session : EventsOf(s) = {}
    <3>1. ToSet(<<>>) = {}
      BY EmptySeq DEF ToSet
    <3> QED BY <1>1, <3>1 DEF EventsOf
  <2>3. \A s \in Session, t \in Turn : ~Did(s, t, "started")
    BY <2>2 DEF Did
  <2> QED BY <1>1, <1>3, <2>1, <2>3 DEF TurnsHaveStarted
<1>7. LogsRestore
  <2>1. Restores(NoProjection, <<>>, stream)
    <3>1. \A i \in 1..Len(<<>>) : <<>>[i].stream # stream
      BY <1>2
    <3> QED BY <1>2, <3>1, RestoresNothing
  <2>2. \A s \in Session : Upcoming(s) = <<>>
    BY <1>1 DEF Upcoming
  <2> QED BY <1>1, <1>3, <2>1, <2>2 DEF LogsRestore
<1> QED BY <1>5, <1>6, <1>7

(* What is true of the journal beside its type.                             *)
JournalIsRight == /\ TailsAreSuffixes /\ JournalIsOrdered
                  /\ TurnsHaveStarted /\ LogsRestore

LEMMA JournalAlways == Spec => [](JournalTypeOK /\ JournalIsRight)
<1>1. Init => JournalIsRight
  BY InitialTails, InitialOrder DEF JournalIsRight
<1>2. JournalTypeOK /\ JournalIsRight /\ [Next]_vars => JournalIsRight'
  <2> SUFFICES ASSUME JournalTypeOK, JournalIsRight, [Next]_vars
               PROVE  JournalIsRight'
    OBVIOUS
  <2>1. CASE UNCHANGED journal
    <3>1. /\ UNCHANGED <<stream, sessions, history, deleted, storing, disk>>
          /\ \A u \in Session :
               Recorded(u)' = Recorded(u) /\ Newest(u)' = Newest(u)
      BY <2>1 DEF journal, Recorded, Newest
    <3>2. TailsAreSuffixes'
      BY <3>1 DEF JournalIsRight, TailsAreSuffixes, IsTailOf
    <3>3. EventsAreNumbered' /\ ContentIsOrdered'
      BY <3>1 DEF JournalIsRight, JournalIsOrdered, EventsAreNumbered,
                  ContentIsOrdered, Known
    <3>4. LogsAreOrdered'
      BY <3>1 DEF JournalIsRight, JournalIsOrdered, LogsAreOrdered, Newest,
                  Recorded
    <3>5. TurnsHaveStarted'
      BY <3>1 DEF JournalIsRight, TurnsHaveStarted, Did, EventsOf
    <3>6. LogsRestore'
      BY <3>1 DEF JournalIsRight, LogsRestore, Upcoming, Store
    <3> QED BY <3>2, <3>3, <3>4, <3>5, <3>6
            DEF JournalIsRight, JournalIsOrdered
  <2>2. CASE JournalStep
    BY <2>2, TailsStep, OrderStep, TurnsStartStep, RestoreStep
       DEF JournalIsRight
  <2> QED BY <2>1, <2>2, NextSteps
<1> QED BY <1>1, <1>2, JournalTypeCorrect, PTL DEF Spec

(* At every moment the log on disk restores the turn in flight as memory    *)
(* has it, and nothing of a turn that is over, whatever is pruned and       *)
(* whenever the host restarts (record, FileSessionProjectionStore).         *)
THEOREM LogsAgreeWithMemory == Spec => []RestoreAgrees
<1>1. JournalTypeOK /\ JournalIsRight => RestoreAgrees
  <2> SUFFICES ASSUME JournalTypeOK, JournalIsRight, NEW s \in Session,
                      sessions[s].events # <<>>, storing = <<>>,
                      s \notin deleted, Torn \notin ToSet(disk[s])
               PROVE  IF sessions[s].terminal THEN disk[s] = <<>>
                      ELSE Restored(s).events = sessions[s].events
    BY DEF RestoreAgrees
  <2>1. Upcoming(s) = disk[s]
    BY DEF Upcoming
  <2>2. IF sessions[s].terminal THEN disk[s] = <<>>
        ELSE Restores(sessions[s], disk[s], stream)
    BY <2>1 DEF JournalIsRight, LogsRestore
  <2>3. disk[s] \in Seq(Line)
    BY Untorn DEF JournalTypeOK
  <2> QED BY <2>2, <2>3, LoadRestores DEF Restored
<1> QED BY <1>1, JournalAlways, PTL

-----------------------------------------------------------------------------
(* The types of the client's state: of what is painted and released, and of *)
(* the answers to its reads.                                                *)

Places == Position \cup {NoPosition}
Screens == [Turn -> Seq(Streams \X (Nat \ {0}))]
Views == [position : Places, screen : Screens]

Delta == [kind : {"delta"}, cursor : Nat, events : Seq(Event)]
Shot == [kind : {"snapshot"}, turn : Turn, events : Seq(Event),
         position : Position]
Answers(kind) == IF kind = "backfill" THEN {SnapshotRequired} \cup Delta
                 ELSE {Inactive} \cup Shot

(* The inductive invariant behind the client's types: answers are of the    *)
(* kind that is read, and only a client with a position asks for a delta.   *)
ReadIsTyped ==
  /\ read = [kind |-> read.kind, answer |-> read.answer]
  /\ read.answer \in Seq(Answers(read.kind))
  /\ read.kind = "backfill" => applied # NoPosition
  /\ painted \in Screens

LEMMA AdvanceType ==
  ASSUME NEW from \in Places, NEW to \in Places
  PROVE  Advance(from, to) \in {from, to} /\ Advance(from, to) \in Places
BY DEF Advance

LEMMA PaintType ==
  ASSUME NEW screen \in Screens, NEW e \in Event
  PROVE  Paint(screen, e) \in Screens
<1>1. e.turn \in Turn /\ e.at \in Streams \X (Nat \ {0})
  BY DEF Event
<1>2. Append(screen[e.turn], e.at) \in Seq(Streams \X (Nat \ {0}))
  BY <1>1, AppendProperties DEF Screens
<1> QED BY <1>1, <1>2 DEF Paint, Screens

LEMMA ReleaseStepType ==
  ASSUME NEW acc \in Views, NEW m \in Message
  PROVE  ReleaseStep(acc, m) \in Views
<1>1. /\ acc.position \in Places /\ acc.screen \in Screens
      /\ m.position \in Places /\ m.event \in Event
  BY DEF Views, Message, Places
<1>2. Paint(acc.screen, m.event) \in Screens
  BY <1>1, PaintType
<1>3. Advance(acc.position, m.position) \in Places
  BY <1>1, AdvanceType
<1> QED BY <1>2, <1>3 DEF ReleaseStep, Views

LEMMA ReleasedType ==
  ASSUME held \in Seq(Message), NEW position \in Places, NEW screen \in Screens
  PROVE  /\ Released(position, screen).position \in Places
         /\ Released(position, screen).screen \in Screens
<1>1. Len(held) \in Nat /\ \A i \in 1..Len(held) : held[i] \in Message
  BY LenProperties, ElementOfSeq
<1>2. [position |-> position, screen |-> screen] \in Views
  BY DEF Views
<1>3. \A i \in 1..Len(held), a \in Views : ReleaseStep(a, held[i]) \in Views
  BY <1>1, ReleaseStepType
<1>4. PICK f \in [0..Len(held) -> Views] :
        /\ f[0] = [position |-> position, screen |-> screen]
        /\ \A i \in 1..Len(held) : f[i] = ReleaseStep(f[i - 1], held[i])
        /\ Released(position, screen) = f[Len(held)]
  BY <1>1, <1>2, <1>3, ReleasedSteps
<1>5. Released(position, screen) \in Views
  BY <1>1, <1>4
<1> QED BY <1>5 DEF Views

LEMMA PaintAllType ==
  ASSUME NEW screen \in Screens, NEW events \in Seq(Event)
  PROVE  PaintAll(screen, events) \in Screens
<1>1. Len(events) \in Nat /\ \A i \in 1..Len(events) : events[i] \in Event
  BY LenProperties, ElementOfSeq
<1>2. \A i \in 1..Len(events), a \in Screens : Paint(a, events[i]) \in Screens
  BY <1>1, PaintType
<1>3. Len(events) \in Nat /\ screen \in Screens
  BY <1>1
<1>4. PICK f : Painting(f, screen, events, Screens)
  BY <1>2, <1>3, PaintAllSteps
<1> QED BY <1>3, <1>4 DEF Painting

(* What is read of a log is a run of its lines, all of one process.         *)
LEMMA LoadIsARun ==
  ASSUME NEW lines \in Seq(Line \cup {Torn}), LinesInOrder(lines),
         \A i \in 1..Len(lines) :
           lines[i] # Torn => lines[i].event.at[1] = lines[i].stream
  PROVE  \E m \in 0..Len(lines) : \E k \in 0..m :
           /\ Load(lines) = [i \in 1..(m - k) |-> lines[k + i]]
           /\ \A i \in 1..(m - k) : /\ lines[k + i] \in Line
                                    /\ lines[k + i] # Torn
                                    /\ lines[k + i].stream = lines[m].stream
<1>0. PICK n \in Nat : n = Len(lines)
  BY LenProperties
<1> DEFINE Whole(i) == \A j \in 1..i : lines[j] # Torn
<1>1. PICK m \in 0..n : {i \in 1..n : Whole(i)} = 1..m
  <2> DEFINE S == {i \in 0..n : Whole(i)}
  <2>1. 0 \in S
    OBVIOUS
  <2>2. CASE \A i \in 1..n : i - 1 \in S => i \in S
    <3>1. 0..n \subseteq S
      <4> HIDE DEF S
      <4> QED BY <2>1, <2>2, UpTo
    <3>2. {i \in 1..n : Whole(i)} = 1..n
      BY <3>1
    <3> QED BY <3>2
  <2>3. CASE \E i \in 1..n : i - 1 \in S /\ i \notin S
    <3>1. PICK i \in 1..n : i - 1 \in S /\ i \notin S
      BY <2>3
    <3>2. Whole(i - 1) /\ lines[i] = Torn
      BY <3>1
    <3>3. \A x \in 1..n : Whole(x) <=> x <= i - 1
      <4> TAKE x \in 1..n
      <4>1. x <= i - 1 => \A j \in 1..x : j \in 1..(i - 1)
        OBVIOUS
      <4>2. ~(x <= i - 1) => i \in 1..x
        OBVIOUS
      <4> QED BY <3>2, <4>1, <4>2
    <3>4. i - 1 \in 0..n
      OBVIOUS
    <3>5. {x \in 1..n : Whole(x)} = 1..(i - 1)
      <4>1. \A x : x \in 1..(i - 1) <=> x \in 1..n /\ x <= i - 1
        OBVIOUS
      <4> HIDE DEF Whole
      <4> QED BY <3>3, <4>1
    <3> HIDE DEF Whole
    <3> QED BY <3>4, <3>5
  <2> QED BY <2>2, <2>3
<1>2. \A i \in 1..m : lines[i] \in Line /\ lines[i] # Torn
  <2> TAKE i \in 1..m
  <2>1. i \in {x \in 1..n : Whole(x)} /\ i \in 1..i
    BY <1>1
  <2>2. lines[i] # Torn /\ i \in 1..n
    BY <2>1
  <2>3. lines[i] \in Line \cup {Torn}
    BY <1>0, <2>2, ElementOfSeq
  <2> QED BY <2>2, <2>3
<1>3. \A i, j \in 1..m : i < j => lines[i].stream <= lines[j].stream
  <2> SUFFICES ASSUME NEW i \in 1..m, NEW j \in 1..m, i < j
               PROVE  lines[i].stream <= lines[j].stream
    OBVIOUS
  <2>1. i \in 1..n /\ j \in 1..n
    OBVIOUS
  <2>2. Before(lines[i].event.at, lines[j].event.at)
    BY <1>0, <1>2, <2>1 DEF LinesInOrder
  <2>3. /\ lines[i].event.at[1] = lines[i].stream
        /\ lines[j].event.at[1] = lines[j].stream
    BY <1>0, <1>2, <2>1
  <2>4. lines[i].stream \in Nat /\ lines[j].stream \in Nat
    BY <1>2 DEF Line, Streams
  <2> QED BY <2>2, <2>3, <2>4 DEF Before
<1> DEFINE own == lines[m].stream
<1>4. PICK k \in 0..m : {i \in 1..m : lines[i].stream = own} = (k + 1)..m
  <2>1. CASE m = 0
    BY <2>1
  <2>2. CASE m # 0
    <3> DEFINE S == {i \in 0..m : \A j \in 1..i : lines[j].stream # own}
    <3>1. 0 \in S /\ m \in 1..m
      BY <2>2
    <3>2. ~(0..m \subseteq S)
      BY <3>1
    <3>3. PICK i \in 1..m : i - 1 \in S /\ i \notin S
      <4> HIDE DEF S
      <4> QED BY <3>1, <3>2, UpTo, SMTT(30)
    <3>4. /\ \A j \in 1..(i - 1) : lines[j].stream # own
          /\ lines[i].stream = own
      BY <3>3
    <3>5. \A x \in 1..m : lines[x].stream = own <=> x > i - 1
      <4> TAKE x \in 1..m
      <4>1. CASE x <= i - 1
        BY <3>4, <4>1
      <4>2. CASE x > i - 1
        <5>1. x = i \/ lines[i].stream <= lines[x].stream
          BY <1>3, <4>2
        <5>2. x = m \/ lines[x].stream <= lines[m].stream
          BY <1>3, <3>1
        <5>3. lines[x].stream \in Nat /\ lines[m].stream \in Nat
          BY <1>2, <3>1 DEF Line, Streams
        <5> QED BY <3>4, <4>2, <5>1, <5>2, <5>3
      <4> QED BY <4>1, <4>2
    <3>6. {x \in 1..m : lines[x].stream = own} = ((i - 1) + 1)..m
          /\ i - 1 \in 0..m
      BY <3>5
    <3> QED BY <3>6
  <2> QED BY <2>1, <2>2
<1>5. Cardinality(1..m) = m /\ Cardinality((k + 1)..m) = m - k
  <2>1. Cardinality((k + 1)..m) = IF k + 1 > m THEN 0 ELSE m - (k + 1) + 1
    BY FS_Interval
  <2>2. Cardinality(1..m) = IF 1 > m THEN 0 ELSE m - 1 + 1
    BY FS_Interval
  <2> QED BY <2>1, <2>2
<1>6. Load(lines) = [i \in 1..(m - k) |-> lines[Nth((k + 1)..m, i)]]
  <2> DEFINE readable == {i \in 1..n : Whole(i)}
             logged == {i \in readable :
                          lines[i].stream = lines[Cardinality(readable)].stream}
  <2>1. Load(lines) = [i \in 1..Cardinality(logged) |-> lines[Nth(logged, i)]]
    BY <1>0 DEF Load
  <2>2. readable = 1..m
    BY <1>1
  <2>3. logged = (k + 1)..m
    <3> HIDE DEF readable
    <3> QED BY <1>4, <1>5, <2>2
  <2> HIDE DEF readable, logged
  <2> QED BY <1>5, <2>1, <2>3
<1>7. \A i \in 1..(m - k) : Nth((k + 1)..m, i) = k + i
  BY NthOfInterval
<1>8. Load(lines) = [i \in 1..(m - k) |-> lines[k + i]]
  BY <1>6, <1>7
<1>9. ASSUME NEW i \in 1..(m - k)
      PROVE  /\ lines[k + i] \in Line /\ lines[k + i] # Torn
             /\ lines[k + i].stream = lines[m].stream
  <2>1. k + i \in (k + 1)..m /\ k + i \in 1..m
    OBVIOUS
  <2> QED BY <1>2, <1>4, <2>1
<1> QED BY <1>0, <1>8, <1>9

(* A projection rebuilt from lines in order has events of theirs, in order. *)
LEMMA RebuiltInOrder ==
  ASSUME NEW lines \in Seq(Line), LinesInOrder(lines)
  PROVE  /\ Rebuilt(lines) \in Projection
         /\ EventsInOrder(Rebuilt(lines).events)
         /\ \A j \in 1..Len(Rebuilt(lines).events) :
              \E i \in 1..Len(lines) :
                Rebuilt(lines).events[j] = lines[i].event
<1>0. PICK n \in Nat : n = Len(lines)
  BY LenProperties
<1>1. \A i \in 1..n : lines[i] \in Line
  BY <1>0, ElementOfSeq
<1>2. \A i \in 1..n : lines[i] # Torn /\ lines[i].event \in Event
  <2>1. Torn.stream \notin Streams
    BY JournalConstants DEF Torn, Streams
  <2> QED BY <1>1, <2>1 DEF Line
<1>3. PICK f \in [0..n -> Projection] :
        /\ f[0] = NoProjection
        /\ \A i \in 1..n : f[i] = RebuildStep(f[i - 1], lines[i], i)
        /\ Rebuilt(lines) = f[n]
  <2>1. \A i \in 1..n, a \in Projection :
          RebuildStep(a, lines[i], i) \in Projection
    BY <1>1, RebuildFacts
  <2> QED BY <1>0, <2>1, NoProjectionType, RebuiltSteps
<1> DEFINE Good(i) == /\ EventsInOrder(f[i].events)
                      /\ \A j \in 1..Len(f[i].events) : \E x \in 1..i :
                           f[i].events[j] = lines[x].event
           S == {i \in 0..n : Good(i)}
<1>4. 0 \in S
  <2>1. NoProjection.events = <<>>
    BY DEF NoProjection
  <2>2. EventsInOrder(<<>>) /\ \A j \in 1..Len(<<>>) : FALSE
    BY EmptySeq, EmptyIsInOrder
  <2> QED BY <1>3, <2>1, <2>2
<1>5. ASSUME NEW i \in 1..n, i - 1 \in S
      PROVE  i \in S
  <2>1. PICK p \in Projection, e \in Event :
          /\ p = f[i - 1] /\ e = lines[i].event
          /\ f[i].events = Append(IF p.turn # e.turn THEN <<>>
                                  ELSE p.events, e)
    <3>1. f[i - 1] \in Projection /\ lines[i] \in Line /\ i \in Nat
      BY <1>1, <1>3
    <3>2. RebuildStep(f[i - 1], lines[i], i).events =
            Append(IF f[i - 1].turn # lines[i].event.turn THEN <<>>
                   ELSE f[i - 1].events, lines[i].event)
      BY <3>1, RebuildFacts
    <3> QED BY <1>2, <1>3, <3>1, <3>2
  <2>2. PICK ev \in Seq(Event) :
          /\ f[i].events = Append(ev, e) /\ EventsInOrder(ev)
          /\ \A j \in 1..Len(ev) : \E x \in 1..(i - 1) :
               ev[j] = lines[x].event
    <3>1. CASE p.turn # e.turn
      <4>1. <<>> \in Seq(Event) /\ EventsInOrder(<<>>)
            /\ \A j \in 1..Len(<<>>) : FALSE
        BY EmptySeq, EmptyIsInOrder
      <4>2. PICK ev \in Seq(Event) : ev = <<>>
        BY <4>1
      <4>3. \A j \in 1..Len(ev) : FALSE
        BY <4>1, <4>2
      <4> QED BY <2>1, <3>1, <4>1, <4>2, <4>3
    <3>2. CASE p.turn = e.turn
      <4>1. p.events \in Seq(Event)
        BY DEF Projection
      <4> QED BY <1>5, <2>1, <3>2, <4>1
    <3> QED BY <3>1, <3>2
  <2>3. PICK more \in Seq(Event), m \in Nat :
          /\ more = Append(ev, e) /\ m = Len(ev) /\ Len(more) = m + 1
          /\ more[m + 1] = e /\ \A j \in 1..m : more[j] = ev[j]
    BY Appended
  <2>4. \A x \in 1..(i - 1) : Before(lines[x].event.at, e.at)
    <3>1. \A x \in 1..(i - 1) : x \in 1..n /\ x < i
      OBVIOUS
    <3> QED BY <1>0, <1>2, <2>1, <3>1 DEF LinesInOrder
  <2>5. EventsInOrder(more)
    BY <2>2, <2>3, <2>4, AppendInOrder
  <2>6. \A j \in 1..Len(more) : \E x \in 1..i : more[j] = lines[x].event
    <3> TAKE j \in 1..Len(more)
    <3>1. CASE j = m + 1
      BY <2>1, <2>3, <3>1
    <3>2. CASE j # m + 1
      <4>1. j \in 1..m
        BY <2>3, <3>2
      <4>2. PICK x \in 1..(i - 1) : ev[j] = lines[x].event
        BY <2>2, <2>3, <4>1
      <4>3. x \in 1..i
        OBVIOUS
      <4> QED BY <2>3, <4>1, <4>2, <4>3
    <3> QED BY <3>1, <3>2
  <2>7. f[i].events = more
    BY <2>2, <2>3
  <2>8. Good(i) /\ i \in 0..n
    BY <2>5, <2>6, <2>7
  <2> QED BY <2>8
<1>6. n \in S
  <2>1. \A i \in 1..n : i - 1 \in S => i \in S
    BY <1>5
  <2>2. 0..n \subseteq S
    <3> HIDE DEF S
    <3> QED BY <1>4, <2>1, UpTo
  <2>3. n \in 0..n
    OBVIOUS
  <2> QED BY <2>2, <2>3
<1> QED BY <1>0, <1>3, <1>6

(* What the log of s restores, whatever is torn in it.                      *)
LEMMA RestoredFacts ==
  ASSUME JournalTypeOK, JournalIsOrdered, NEW s \in Session
  PROVE  /\ Restored(s) \in Projection
         /\ EventsInOrder(Restored(s).events)
         /\ Load(disk[s]) = <<>> => Restored(s) = NoProjection
         /\ Load(disk[s]) # <<>> =>
              /\ Load(disk[s])[1].stream \in Streams
              /\ \A j \in 1..Len(Restored(s).events) :
                   Restored(s).events[j].at[1] = Load(disk[s])[1].stream
              /\ Recorded(s) = <<>> => Load(disk[s])[1].stream < stream
<1>1. PICK lines \in Seq(Line \cup {Torn}) : lines = disk[s]
  BY DEF JournalTypeOK
<1>2. /\ LinesInOrder(lines)
      /\ \A i \in 1..Len(lines) :
           lines[i] # Torn => /\ lines[i].event.at[1] = lines[i].stream
                              /\ NotAfter(lines[i].event.at, Newest(s))
  BY <1>1 DEF JournalIsOrdered, LogsAreOrdered
<1>3. PICK m \in 0..Len(lines) : \E k \in 0..m :
        /\ Load(lines) = [i \in 1..(m - k) |-> lines[k + i]]
        /\ \A i \in 1..(m - k) : /\ lines[k + i] \in Line
                                 /\ lines[k + i] # Torn
                                 /\ lines[k + i].stream = lines[m].stream
  BY <1>2, LoadIsARun
<1>4. PICK k \in 0..m :
        /\ Load(lines) = [i \in 1..(m - k) |-> lines[k + i]]
        /\ \A i \in 1..(m - k) : /\ lines[k + i] \in Line
                                 /\ lines[k + i] # Torn
                                 /\ lines[k + i].stream = lines[m].stream
  BY <1>3
<1>5. PICK n \in Nat, l \in Nat, logged \in Seq(Line) :
        /\ n = Len(lines) /\ l = m - k /\ m <= n
        /\ logged = Load(lines) /\ Len(logged) = l
        /\ \A i \in 1..l : /\ logged[i] = lines[k + i]
                           /\ k + i \in 1..n
  <2>1. PICK n \in Nat, l \in Nat : n = Len(lines) /\ l = m - k /\ m <= n
    BY LenProperties
  <2>2. PICK logged : /\ logged = Load(lines)
                      /\ logged = [i \in 1..l |-> lines[k + i]]
    BY <1>4, <2>1
  <2>3. logged \in Seq(Line) /\ Len(logged) = l
    BY <1>4, <2>1, <2>2
  <2>4. \A i \in 1..l : k + i \in 1..n
    BY <2>1
  <2> QED BY <2>1, <2>2, <2>3, <2>4
<1>6. LinesInOrder(logged)
  <2>1. ASSUME NEW i \in 1..l, NEW j \in 1..l, i < j
        PROVE  Before(logged[i].event.at, logged[j].event.at)
    <3>1. /\ lines[k + i] # Torn /\ lines[k + j] # Torn
          /\ k + i \in 1..Len(lines) /\ k + j \in 1..Len(lines)
          /\ k + i < k + j
      <4>1. i \in 1..(m - k) /\ j \in 1..(m - k)
        BY <1>5
      <4>2. k + i < k + j
        BY <1>5, <2>1
      <4> QED BY <1>4, <1>5, <4>1, <4>2
    <3> QED BY <1>2, <1>5, <3>1 DEF LinesInOrder
  <2> QED BY <1>5, <2>1 DEF LinesInOrder
<1>7. /\ Rebuilt(logged) \in Projection
      /\ EventsInOrder(Rebuilt(logged).events)
      /\ \A j \in 1..Len(Rebuilt(logged).events) : \E i \in 1..Len(logged) :
           Rebuilt(logged).events[j] = logged[i].event
  BY <1>6, RebuiltInOrder
<1>8. Restored(s) = Rebuilt(logged)
  BY <1>1, <1>5 DEF Restored
<1>9. logged = <<>> => Restored(s) = NoProjection
  BY <1>8, RebuiltNothing
<1>10. ASSUME logged # <<>>
       PROVE  /\ logged[1].stream \in Streams
              /\ \A i \in 1..l : logged[i].event.at[1] = logged[1].stream
              /\ Recorded(s) = <<>> => logged[1].stream < stream
  <2>1. 1 \in 1..l
    BY <1>5, <1>10, EmptySeq
  <2>2. \A i \in 1..l : /\ logged[i] \in Line
                        /\ logged[i].stream = lines[m].stream
                        /\ logged[i].event.at[1] = logged[i].stream
                        /\ NotAfter(logged[i].event.at, Newest(s))
    BY <1>2, <1>4, <1>5
  <2>3. logged[1].stream \in Streams /\ logged[1].event.at \in Streams \X Nat
        /\ logged[1].event.at[2] \in Nat \ {0}
    BY <2>1, <2>2, EventAt DEF Line
  <2>4. ASSUME Recorded(s) = <<>>
        PROVE  logged[1].stream < stream
    <3>1. Newest(s) = <<stream, 0>>
      BY <2>4, EmptySeq DEF Newest
    <3> QED BY <2>1, <2>2, <2>3, <3>1 DEF NotAfter
  <2> QED BY <2>1, <2>2, <2>3, <2>4
<1>11. ASSUME logged # <<>>
       PROVE  \A j \in 1..Len(Restored(s).events) :
                Restored(s).events[j].at[1] = logged[1].stream
  <2> TAKE j \in 1..Len(Restored(s).events)
  <2>1. PICK i \in 1..Len(logged) :
          Restored(s).events[j] = logged[i].event
    BY <1>7, <1>8
  <2> QED BY <1>5, <1>10, <1>11, <2>1
<1> QED BY <1>1, <1>5, <1>7, <1>8, <1>9, <1>10, <1>11

-----------------------------------------------------------------------------
(* What the host answers *)

LEMMA DeltaFacts ==
  ASSUME JournalTypeOK, TailsAreSuffixes, EventsAreNumbered,
         applied \in Places,
         NEW a, a = EventsSince(Watched, applied), a.kind = "delta"
  PROVE  /\ a \in Delta /\ applied.stream = stream
         /\ a.cursor = Len(Recorded(Watched))
         /\ a.cursor = applied.cursor + Len(a.events)
         /\ \A i \in 1..Len(a.events) :
              /\ a.events[i].at = <<stream, applied.cursor + i>>
              /\ applied.cursor + i \in 1..a.cursor
              /\ a.events[i] = Recorded(Watched)[applied.cursor + i]
<1>1. /\ applied.stream = stream /\ Reaches(sessions[Watched], applied.cursor)
      /\ a = [kind |-> "delta", cursor |-> sessions[Watched].cursor,
              events |-> TailSince(sessions[Watched], applied.cursor)]
  BY DEF EventsSince, SnapshotRequired
<1>2. PICK p \in Projection, r \in Seq(Event), n \in Nat, c \in Nat :
        /\ p = sessions[Watched] /\ r = Recorded(Watched) /\ n = Len(r)
        /\ c = applied.cursor /\ IsTailOf(p, r)
  BY ClientConstants, LenProperties
     DEF JournalTypeOK, Recorded, Places, Position, NoPosition,
         TailsAreSuffixes
<1>3. c <= n /\ TailSince(p, c) = SubSeq(r, c + 1, n)
  BY <1>1, <1>2, TailSinceIsSuffix
<1>4. /\ SubSeq(r, c + 1, n) \in Seq(Event)
      /\ Len(SubSeq(r, c + 1, n)) = n - c
      /\ \A i \in 1..(n - c) : SubSeq(r, c + 1, n)[i] = r[c + i]
  <2>1. \A i \in (c + 1)..n : i \in 1..Len(r)
    BY <1>2
  <2>2. \A i \in (c + 1)..n : r[i] \in Event
    BY <2>1, ElementOfSeq
  <2> QED BY <1>3, <2>2, SubSeqProperties
<1>5. PICK events \in Seq(Event) :
        /\ events = a.events /\ Len(events) = n - c
        /\ \A i \in 1..(n - c) : events[i] = r[c + i]
  <2>1. PICK events : events = SubSeq(r, c + 1, n)
    OBVIOUS
  <2>2. a.events = TailSince(p, c)
    BY <1>1, <1>2
  <2>3. events = a.events
    BY <1>3, <2>1, <2>2
  <2>4. /\ events \in Seq(Event) /\ Len(events) = n - c
        /\ \A i \in 1..(n - c) : events[i] = r[c + i]
    BY ONLY <1>4, <2>1, Zenon
  <2> QED BY <2>3, <2>4
<1>6. p.cursor = n
  BY <1>2 DEF IsTailOf
<1>7. \A i \in 1..(n - c) :
        events[i].at = <<stream, c + i>> /\ c + i \in 1..n
  <2> TAKE i \in 1..(n - c)
  <2>1. c + i \in 1..n
    BY <1>3
  <2>2. r[c + i].at = <<stream, c + i>>
    BY <1>2, <2>1, ClientConstants DEF EventsAreNumbered
  <2> QED BY <1>5, <2>1, <2>2
<1>8. a \in Delta /\ a.cursor = n
  BY <1>1, <1>2, <1>5, <1>6 DEF Delta
<1>9. n = c + (n - c)
  OBVIOUS
<1> QED BY <1>1, <1>2, <1>5, <1>7, <1>8, <1>9

LEMMA LatestType ==
  ASSUME TurnsHaveStarted, NEW s \in Session
  PROVE  Latest(s) \in 0..MaxTurn
<1>0. MaxTurn \in Nat
  BY JournalConstants
<1>1. PICK n \in 0..MaxTurn : \A x \in Turn : Did(s, x, "started") <=> x <= n
  BY DEF TurnsHaveStarted
<1>2. {x \in Turn : Did(s, x, "started")} = 1..n
  BY <1>0, <1>1 DEF Turn
<1>3. Cardinality(1..n) = n
  BY <1>0, FS_Interval
<1> QED BY <1>2, <1>3 DEF Latest

(* The events of a snapshot are in order and none is after its position,    *)
(* unless it is of an older process: then this one recorded nothing.        *)
LEMMA ShotFacts ==
  ASSUME JournalTypeOK, JournalIsRight, NEW a \in SnapshotAnswers,
         a # Inactive
  PROVE  /\ a \in Shot /\ EventsInOrder(a.events)
         /\ a.position.stream = stream =>
              /\ a.position.cursor <= Len(Recorded(Watched))
              /\ \A i \in 1..Len(a.events) :
                   /\ a.events[i].at[1] = stream
                   /\ a.events[i].at[2] <= a.position.cursor
         /\ a.position.stream # stream =>
              /\ Recorded(Watched) = <<>> /\ a.position.stream < stream
              /\ \A i \in 1..Len(a.events) :
                   a.events[i].at[1] = a.position.stream
<1> DEFINE logged == Load(disk[Watched])
           p == IF Known(Watched) THEN sessions[Watched]
                ELSE Restored(Watched)
           own == IF Known(Watched) \/ logged = <<>> THEN stream
                  ELSE logged[1].stream
           shot == Snapshot(Watched)
<1>1. shot = [kind |-> "snapshot", turn |-> p.turn, events |-> p.events,
              position |-> [stream |-> own, cursor |-> p.cursor]]
  BY DEF Snapshot
<1>2. /\ sessions[Watched] \in Projection /\ Watched \in Session
      /\ stream \in Streams /\ Recorded(Watched) \in Seq(Event)
      /\ Len(Recorded(Watched)) \in Nat
      /\ IsTailOf(sessions[Watched], Recorded(Watched))
  BY ClientConstants, LenProperties
     DEF JournalTypeOK, JournalIsRight, TailsAreSuffixes, Recorded
<1>3. /\ Restored(Watched) \in Projection
      /\ EventsInOrder(Restored(Watched).events)
      /\ logged = <<>> => Restored(Watched) = NoProjection
      /\ logged # <<>> =>
           /\ logged[1].stream \in Streams
           /\ \A j \in 1..Len(Restored(Watched).events) :
                Restored(Watched).events[j].at[1] = logged[1].stream
           /\ Recorded(Watched) = <<>> => logged[1].stream < stream
  BY <1>2, RestoredFacts DEF JournalIsRight
<1>4. /\ p \in Projection /\ EventsInOrder(p.events) /\ own \in Streams
      /\ own = stream =>
           /\ p.cursor <= Len(Recorded(Watched))
           /\ \A i \in 1..Len(p.events) : /\ p.events[i].at[1] = stream
                                          /\ p.events[i].at[2] <= p.cursor
      /\ own # stream =>
           /\ Recorded(Watched) = <<>> /\ own < stream
           /\ \A i \in 1..Len(p.events) : p.events[i].at[1] = own
  <2>1. CASE Known(Watched)
    <3>1. p = sessions[Watched] /\ own = stream
      BY <2>1
    <3>2. sessions[Watched].cursor = Len(Recorded(Watched))
      BY <1>2 DEF IsTailOf
    <3>3. \A i \in 1..Len(sessions[Watched].events) :
            /\ sessions[Watched].events[i].at[1] = stream
            /\ NotAfter(sessions[Watched].events[i].at,
                        <<stream, Len(Recorded(Watched))>>)
      BY <1>2 DEF JournalIsRight, JournalIsOrdered, ContentIsOrdered, Newest
    <3>4. \A i \in 1..Len(sessions[Watched].events) :
            sessions[Watched].events[i].at[2] <= sessions[Watched].cursor
      BY <1>2, <3>2, <3>3 DEF NotAfter, Streams
    <3>5. EventsInOrder(sessions[Watched].events)
      BY <1>2 DEF JournalIsRight, JournalIsOrdered, ContentIsOrdered
    <3> HIDE DEF p, own
    <3> QED BY <1>2, <3>1, <3>2, <3>3, <3>4, <3>5
  <2>2. CASE ~Known(Watched) /\ logged = <<>>
    <3>1. p = NoProjection /\ own = stream /\ p \in Projection
      BY <1>3, <2>2
    <3>2. NoProjection.events = <<>> /\ NoProjection.cursor = 0
      BY DEF NoProjection
    <3>3. EventsInOrder(<<>>) /\ \A i \in 1..Len(<<>>) : FALSE
      BY EmptySeq, EmptyIsInOrder
    <3> HIDE DEF p, own
    <3> QED BY <1>2, <3>1, <3>2, <3>3
  <2>3. CASE ~Known(Watched) /\ logged # <<>>
    <3>1. p = Restored(Watched) /\ own = logged[1].stream
      BY <2>3
    <3>2. Recorded(Watched) = <<>>
      BY <1>2, <2>3 DEF JournalIsRight, JournalIsOrdered, ContentIsOrdered
    <3>3. own < stream
      BY <1>3, <2>3, <3>1, <3>2
    <3>4. own # stream /\ own \in Streams
      BY <1>2, <1>3, <2>3, <3>1, <3>3 DEF Streams
    <3> HIDE DEF p, own, logged
    <3> QED BY <1>3, <2>3, <3>1, <3>2, <3>3, <3>4
  <2> QED BY <2>1, <2>2, <2>3
<1> DEFINE turn == IF shot.turn = NoTurn THEN Latest(Watched) ELSE shot.turn
<1>5. a = [shot EXCEPT !.turn = turn] /\ turn # NoTurn
  BY DEF SnapshotAnswers
<1>6. turn \in Turn
  <2>1. Latest(Watched) \in 0..MaxTurn
    BY <1>2, LatestType DEF JournalIsRight
  <2>2. p.turn \in Turn \cup {NoTurn} /\ shot.turn = p.turn
    <3> HIDE DEF p, shot
    <3> QED BY <1>1, <1>4 DEF Projection
  <2>3. MaxTurn \in Nat
    BY JournalConstants
  <2> HIDE DEF p, shot
  <2> QED BY <1>5, <2>1, <2>2, <2>3 DEF Turn, NoTurn
<1>7. a = [kind |-> "snapshot", turn |-> turn, events |-> p.events,
           position |-> [stream |-> own, cursor |-> p.cursor]]
  <2> HIDE DEF p, own, shot, turn
  <2> QED BY <1>1, <1>5
<1>8. p.events \in Seq(Event) /\ p.cursor \in Nat
  <2> HIDE DEF p
  <2> QED BY <1>4 DEF Projection
<1> HIDE DEF p, own, shot, turn
<1>9. [stream |-> own, cursor |-> p.cursor] \in Position
  BY <1>4, <1>8 DEF Position
<1>10. /\ a \in Shot /\ a.events = p.events
       /\ a.position.stream = own /\ a.position.cursor = p.cursor
  BY <1>6, <1>7, <1>8, <1>9 DEF Shot
<1> QED BY <1>4, <1>10

-----------------------------------------------------------------------------
(* The types of the client *)

ClientIsTyped == TypeOK /\ ReadIsTyped

LEMMA ScreenType ==
  ASSUME NEW screen \in Screens
  PROVE  screen \in [Turn -> Seq(Streams \X Nat)]
<1>1. ASSUME NEW t \in Turn
      PROVE  screen[t] \in Seq(Streams \X Nat)
  <2>1. PICK r \in Seq(Streams \X (Nat \ {0})) : r = screen[t]
    BY DEF Screens
  <2>2. \A i \in 1..Len(r) : r[i] \in Streams \X Nat
    <3>1. \A i \in 1..Len(r) : r[i] \in Streams \X (Nat \ {0})
      BY ElementOfSeq
    <3> QED BY <3>1
  <2> QED BY <2>1, <2>2, LenProperties
<1> QED BY <1>1 DEF Screens

LEMMA AdmitType ==
  ASSUME ClientIsTyped, NEW m \in Message, Admit(m)
  PROVE  /\ applied' \in Places /\ gap' \in BOOLEAN
         /\ settled' \subseteq Turn /\ painted' \in Screens
<1>1. /\ applied \in Places /\ gap \in BOOLEAN /\ settled \subseteq Turn
      /\ painted \in Screens /\ m.position \in Places /\ m.event \in Event
      /\ m.event.turn \in Turn
  BY DEF ClientIsTyped, TypeOK, ReadIsTyped, Places, Message, Event
<1>2. Advance(applied, m.position) \in Places
  BY <1>1, AdvanceType
<1>3. Paint(painted, m.event) \in Screens
  BY <1>1, PaintType
<1>4. \A over \in SUBSET Turn : Observe(m.event, over) \subseteq Turn
  BY <1>1 DEF Observe
<1>5. AheadWithGap(applied, m.position) \in BOOLEAN
  BY DEF AheadWithGap
<1> DEFINE over == IF Unrelated(applied, m.position) THEN {} ELSE settled
<1>6. Observe(m.event, over) \subseteq Turn
  BY <1>1, <1>4
<1>7. \/ UNCHANGED <<applied, gap, settled, painted>>
      \/ /\ gap' = AheadWithGap(applied, m.position)
         /\ \/ UNCHANGED <<applied, settled, painted>>
            \/ /\ applied' = Advance(applied, m.position)
               /\ painted' = Paint(painted, m.event)
               /\ settled' = Observe(m.event, over)
  BY DEF Admit
<1> HIDE DEF over
<1> QED BY <1>1, <1>2, <1>3, <1>5, <1>6, <1>7

LEMMA ReleaseType ==
  ASSUME ClientIsTyped, NEW position \in Places, NEW screen \in Screens,
         Release(position, screen)
  PROVE  /\ applied' \in Places /\ painted' \in Screens
         /\ held' = <<>> /\ held' \in Seq(Message)
<1>1. /\ Released(position, screen).position \in Places
      /\ Released(position, screen).screen \in Screens
  BY ReleasedType DEF ClientIsTyped, TypeOK
<1> QED BY <1>1, EmptySeq DEF Release

LEMMA GiveUpType ==
  ASSUME ClientIsTyped, GiveUp
  PROVE  /\ applied' \in Places /\ painted' \in Screens
         /\ held' = <<>> /\ held' \in Seq(Message) /\ gap' \in BOOLEAN
         /\ read' \in {NoRead, [kind |-> "snapshot", answer |-> <<>>]}
<1>1. applied \in Places /\ painted \in Screens /\ gap \in BOOLEAN
  BY DEF ClientIsTyped, TypeOK, ReadIsTyped, Places
<1>2. Release(applied, painted)
  BY DEF GiveUp, Abandon
<1>3. /\ applied' \in Places /\ painted' \in Screens
      /\ held' = <<>> /\ held' \in Seq(Message)
  BY <1>1, <1>2, ReleaseType
<1>4. /\ gap' \in BOOLEAN
      /\ read' \in {NoRead, [kind |-> "snapshot", answer |-> <<>>]}
  BY <1>1 DEF GiveUp
<1> QED BY <1>3, <1>4

(* A read that was just begun or is over. *)
LEMMA FreshRead ==
  ASSUME NEW kind \in {"none", "backfill", "snapshot", "replay"},
         read' = [kind |-> kind, answer |-> <<>>]
  PROVE  /\ read' = [kind |-> read'.kind, answer |-> read'.answer]
         /\ read'.kind = kind /\ read'.answer = <<>>
         /\ read'.answer \in Seq(Answers(read'.kind)) /\ Len(read'.answer) <= 1
<1>1. <<>> \in Seq(Answers(kind)) /\ Len(<<>>) = 0
  BY EmptySeq
<1> QED BY <1>1

LEMMA AnswerType ==
  ASSUME ClientIsTyped, Reading, NEW a \in Answers(read.kind), Answer(a)
  PROVE  /\ read' = [kind |-> read'.kind, answer |-> read'.answer]
         /\ read'.kind = read.kind /\ read'.answer = <<a>>
         /\ read'.answer \in Seq(Answers(read'.kind)) /\ Len(read'.answer) <= 1
<1>1. read' = [kind |-> read.kind, answer |-> <<a>>]
  BY DEF ClientIsTyped, ReadIsTyped, Answer
<1>2. <<a>> \in Seq(Answers(read.kind)) /\ Len(<<a>>) = 1
  OBVIOUS
<1> QED BY <1>1, <1>2

(* The first answer is one to what was asked. *)
LEMMA AnswerAsked ==
  ASSUME ClientIsTyped, read.answer # <<>>
  PROVE  Head(read.answer) \in Answers(read.kind)
BY HeadTailProperties DEF ClientIsTyped, ReadIsTyped

(* What is left to show after a step, where the journal's type is known.    *)
ClientTypes ==
  /\ transit \in Seq(Message) /\ held \in Seq(Message)
  /\ lost \subseteq Streams \X Nat
  /\ applied \in Places /\ gap \in BOOLEAN
  /\ read.kind \in {"none", "backfill", "snapshot", "replay"}
  /\ Len(read.answer) <= 1 /\ failed \in 0..MaxFailed
  /\ settled \subseteq Turn
  /\ ReadIsTyped

LEMMA ClientTypesSuffice ==
  ASSUME JournalTypeOK, ClientTypes
  PROVE  ClientIsTyped
<1>1. painted \in [Turn -> Seq(Streams \X Nat)]
  BY ScreenType DEF ClientTypes, ReadIsTyped
<1> QED BY <1>1 DEF ClientTypes, ClientIsTyped, TypeOK, Places

LEMMA ClientTypesHold ==
  ASSUME ClientIsTyped
  PROVE  ClientTypes
BY DEF ClientTypes, ClientIsTyped, TypeOK, Places

LEMMA EmitTypes ==
  ASSUME ClientIsTyped, Emit
  PROVE  ClientTypes'
<1>1. UNCHANGED <<lost, applied, gap, read, failed, held, settled, painted>>
  BY DEF Emit
<1>2. PICK o \in StoreOp : o = Head(storing)
  <2>1. storing # <<>> /\ storing \in Seq(StoreOp)
    BY DEF Emit, Stored, ClientIsTyped, TypeOK, JournalTypeOK
  <2> QED BY <2>1, HeadTailProperties
<1>3. PICK m : m = [position |-> [stream |-> o.line.stream,
                                  cursor |-> o.line.cursor],
                    event |-> o.line.event]
  OBVIOUS
<1>4. m \in Message
  BY <1>3 DEF StoreOp, Line, Message, Position
<1>5. transit' \in {transit, Append(transit, m)}
  BY <1>2, <1>3 DEF Emit
<1>6. transit' \in Seq(Message)
  <2>1. transit \in Seq(Message)
    BY DEF ClientIsTyped, TypeOK
  <2>2. Append(transit, m) \in Seq(Message)
    BY <1>4, <2>1, AppendProperties
  <2> QED BY <1>5, <2>1, <2>2
<1> QED BY <1>1, <1>6, ClientTypesHold DEF ClientTypes, ReadIsTyped

LEMMA HeadOfTransit ==
  ASSUME ClientIsTyped, transit # <<>>
  PROVE  Head(transit) \in Message /\ Tail(transit) \in Seq(Message)
BY HeadTailProperties DEF ClientIsTyped, TypeOK

LEMMA LoseTypes ==
  ASSUME ClientIsTyped, Lose
  PROVE  ClientTypes'
<1>1. UNCHANGED <<applied, gap, read, failed, held, settled, painted>>
  BY DEF Lose
<1>2. PICK m \in Message : m = Head(transit) /\ Tail(transit) \in Seq(Message)
  BY HeadOfTransit DEF Lose
<1>3. m.event.at \in Streams \X Nat
  BY EventAt DEF Message
<1>4. lost' \subseteq Streams \X Nat /\ transit' \in Seq(Message)
  BY <1>2, <1>3 DEF Lose, ClientIsTyped, TypeOK
<1> QED BY <1>1, <1>4, ClientTypesHold DEF ClientTypes, ReadIsTyped

LEMMA DeliverTypes ==
  ASSUME ClientIsTyped, Deliver
  PROVE  ClientTypes'
<1>1. UNCHANGED <<lost, read, failed>>
  BY DEF Deliver
<1>2. PICK m \in Message : m = Head(transit) /\ Tail(transit) \in Seq(Message)
  BY HeadOfTransit DEF Deliver
<1>3. transit' \in Seq(Message)
  BY <1>2 DEF Deliver
<1>4. CASE Reading
  <2>1. held' = Append(held, m) /\ UNCHANGED <<applied, gap, settled, painted>>
    BY <1>2, <1>4 DEF Deliver
  <2>2. held' \in Seq(Message)
    BY <2>1, AppendProperties DEF ClientIsTyped, TypeOK
  <2> QED BY <1>1, <1>3, <2>1, <2>2, ClientTypesHold
          DEF ClientTypes, ReadIsTyped
<1>5. CASE ~Reading
  <2>1. Admit(m) /\ UNCHANGED held
    BY <1>2, <1>5 DEF Deliver
  <2>2. /\ applied' \in Places /\ gap' \in BOOLEAN
        /\ settled' \subseteq Turn /\ painted' \in Screens
    BY <2>1, AdmitType
  <2>3. read.kind # "backfill"
    BY <1>5 DEF Reading
  <2> QED BY <1>1, <1>3, <2>1, <2>2, <2>3, ClientTypesHold
          DEF ClientTypes, ReadIsTyped
<1> QED BY <1>4, <1>5

LEMMA BeginReadTypes ==
  ASSUME ClientIsTyped, BeginRead
  PROVE  ClientTypes'
<1>1. UNCHANGED <<transit, lost, applied, gap, failed, held, settled, painted>>
  BY DEF BeginRead
<1>2. PICK kind \in {"none", "backfill", "snapshot", "replay"} :
        /\ kind = "backfill" => applied # NoPosition
        /\ read' = [kind |-> kind, answer |-> <<>>]
  BY DEF BeginRead
<1> QED BY <1>1, <1>2, FreshRead, ClientTypesHold DEF ClientTypes, ReadIsTyped

LEMMA ServeTypes ==
  ASSUME ClientIsTyped, JournalIsRight, ServeBackfill \/ ServeSnapshot
  PROVE  ClientTypes'
<1>1. PICK a \in Answers(read.kind) : Answer(a)
  <2>1. CASE ServeBackfill
    <3>1. PICK a : a = EventsSince(Watched, applied)
      OBVIOUS
    <3>2. a = SnapshotRequired \/ a.kind = "delta"
      BY <3>1 DEF EventsSince
    <3>3. a.kind = "delta" => a \in Delta
      BY <3>1, DeltaFacts DEF ClientIsTyped, TypeOK, Places, JournalIsRight,
                              JournalIsOrdered
    <3> QED BY <2>1, <3>1, <3>2, <3>3 DEF ServeBackfill, Answers
  <2>2. CASE ServeSnapshot
    <3>1. PICK a \in SnapshotAnswers : Answer(a)
      BY <2>2 DEF ServeSnapshot
    <3>2. a = Inactive \/ a \in Shot
      BY ShotFacts DEF ClientIsTyped, TypeOK
    <3> QED BY <2>2, <3>1, <3>2 DEF ServeSnapshot, Answers
  <2> QED BY <2>1, <2>2
<1>2. /\ UNCHANGED <<transit, lost, applied, gap, failed, held, settled,
                     painted>>
      /\ Reading
  BY <1>1 DEF Answer
<1> QED BY <1>1, <1>2, AnswerType, ClientTypesHold DEF ClientTypes, ReadIsTyped

LEMMA FinishBackfillTypes ==
  ASSUME ClientIsTyped, FinishBackfill
  PROVE  ClientTypes'
<1>1. UNCHANGED <<transit, lost, settled>>
  BY DEF FinishBackfill
<1>2. PICK a : a = Head(read.answer) /\ a \in {SnapshotRequired} \cup Delta
  BY AnswerAsked DEF FinishBackfill, Answers
<1>3. CASE a.kind = "delta" /\ a.events # <<>>
  <2>1. a.cursor \in Nat /\ a.events \in Seq(Event)
    BY <1>2, <1>3 DEF SnapshotRequired, Delta
  <2>2. PICK to : to = [stream |-> applied.stream, cursor |-> a.cursor]
    OBVIOUS
  <2>3. to \in Places /\ applied \in Places
    BY <2>1, <2>2 DEF FinishBackfill, ClientIsTyped, ReadIsTyped, TypeOK,
                      Places, Position
  <2>4. PaintAll(painted, a.events) \in Screens
    BY <2>1, PaintAllType DEF ClientIsTyped, ReadIsTyped
  <2>5. Advance(applied, to) \in Places
    BY <2>3, AdvanceType
  <2>6. CASE /\ Release(Advance(applied, to), PaintAll(painted, a.events))
             /\ gap' = FALSE /\ read' = NoRead /\ UNCHANGED failed
    <3>1. /\ applied' \in Places /\ painted' \in Screens
          /\ held' \in Seq(Message)
      BY <2>4, <2>5, <2>6, ReleaseType
    <3>2. /\ read'.kind = "none" /\ Len(read'.answer) <= 1
          /\ read' = [kind |-> read'.kind, answer |-> read'.answer]
          /\ read'.answer \in Seq(Answers(read'.kind))
      BY <2>6, FreshRead DEF NoRead
    <3> QED BY <1>1, <2>6, <3>1, <3>2, ClientTypesHold
            DEF ClientTypes, ReadIsTyped
  <2>7. CASE /\ painted' = PaintAll(painted, a.events) /\ gap' = TRUE
             /\ HandOff /\ failed < MaxFailed /\ failed' = failed + 1
    <3>1. /\ read'.kind = "snapshot" /\ Len(read'.answer) <= 1
          /\ read' = [kind |-> read'.kind, answer |-> read'.answer]
          /\ read'.answer \in Seq(Answers(read'.kind))
      BY <2>7, FreshRead DEF HandOff
    <3>2. failed' \in 0..MaxFailed
      BY <2>7, ClientConstants DEF ClientIsTyped, TypeOK
    <3>3. painted' \in Screens /\ UNCHANGED <<applied, held>>
      BY <2>4, <2>7 DEF HandOff
    <3> QED BY <1>1, <2>7, <3>1, <3>2, <3>3, ClientTypesHold
            DEF ClientTypes, ReadIsTyped
  <2> QED BY <1>2, <1>3, <2>2, <2>6, <2>7 DEF FinishBackfill, Settle
<1>4. CASE ~(a.kind = "delta" /\ a.events # <<>>)
  <2>1. /\ gap' = (gap \/ a.kind = "delta")
        /\ read' = [kind |-> "snapshot", answer |-> <<>>]
        /\ UNCHANGED <<applied, held, painted, failed>>
    BY <1>2, <1>4 DEF FinishBackfill, HandOff
  <2>2. /\ read'.kind = "snapshot" /\ Len(read'.answer) <= 1
        /\ read' = [kind |-> read'.kind, answer |-> read'.answer]
        /\ read'.answer \in Seq(Answers(read'.kind))
    BY <2>1, FreshRead
  <2>3. gap' \in BOOLEAN
    BY <2>1
  <2> QED BY <1>1, <2>1, <2>2, <2>3, ClientTypesHold
          DEF ClientTypes, ReadIsTyped
<1> QED BY <1>3, <1>4

LEMMA ReplayedType ==
  ASSUME painted \in Screens, NEW a \in Shot
  PROVE  Replayed(a) \in Screens
<1>1. PICK events \in Seq(Event), n \in Nat :
        events = a.events /\ n = Len(events) /\ a.turn \in Turn
  BY LenProperties DEF Shot
<1>2. \A i \in 1..n : events[i].at \in Streams \X (Nat \ {0})
  <2>1. \A i \in 1..n : events[i] \in Event
    BY <1>1, ElementOfSeq
  <2> QED BY <2>1 DEF Event
<1>3. [i \in 1..n |-> events[i].at] \in Seq(Streams \X (Nat \ {0}))
  BY <1>2
<1>4. Replayed(a) = [painted EXCEPT ![a.turn] = [i \in 1..n |-> events[i].at]]
  BY <1>1 DEF Replayed
<1> QED BY <1>1, <1>3, <1>4 DEF Screens

LEMMA FinishSnapshotTypes ==
  ASSUME ClientIsTyped, FinishSnapshot
  PROVE  ClientTypes'
<1>1. UNCHANGED <<transit, lost, failed, settled>> /\ read' = NoRead
  BY DEF FinishSnapshot
<1>2. PICK a : a = Head(read.answer) /\ a \in {Inactive} \cup Shot
  BY AnswerAsked DEF FinishSnapshot, Answers
<1>3. applied \in Places /\ painted \in Screens /\ gap \in BOOLEAN
  BY DEF ClientIsTyped, ReadIsTyped, TypeOK, Places
<1>4. PICK position \in Places, screen \in Screens :
        Release(position, screen) /\ gap' \in BOOLEAN
  <2>1. CASE a = Inactive
    BY <1>2, <1>3, <2>1 DEF FinishSnapshot, Abandon
  <2>2. CASE a # Inactive
    <3>1. a \in Shot /\ a.position \in Places
      BY <1>2, <2>2 DEF Shot, Places
    <3>2. Advance(applied, a.position) \in Places
      BY <1>3, <3>1, AdvanceType
    <3>3. Replayed(a) \in Screens
      BY <1>3, <3>1, ReplayedType
    <3>4. /\ \/ Release(Advance(applied, a.position), Replayed(a))
             \/ Release(Advance(applied, a.position), painted)
          /\ gap' \in BOOLEAN
      BY <1>2, <2>2, ClientConstants DEF FinishSnapshot, Settle
    <3> QED BY <1>3, <3>2, <3>3, <3>4
  <2> QED BY <2>1, <2>2
<1>5. applied' \in Places /\ painted' \in Screens /\ held' \in Seq(Message)
  BY <1>4, ReleaseType
<1>6. /\ read'.kind = "none" /\ Len(read'.answer) <= 1
      /\ read' = [kind |-> read'.kind, answer |-> read'.answer]
      /\ read'.answer \in Seq(Answers(read'.kind))
  BY <1>1, FreshRead DEF NoRead
<1> QED BY <1>1, <1>4, <1>5, <1>6, ClientTypesHold DEF ClientTypes, ReadIsTyped

LEMMA FailReadTypes ==
  ASSUME ClientIsTyped, FailRead
  PROVE  ClientTypes'
<1>1. UNCHANGED <<transit, lost, settled>> /\ GiveUp /\ failed' \in 0..MaxFailed
  BY ClientConstants DEF FailRead, ClientIsTyped, TypeOK
<1>2. PICK kind \in {"none", "snapshot"} :
        read' = [kind |-> kind, answer |-> <<>>]
  BY <1>1, GiveUpType DEF NoRead
<1>3. /\ read'.kind = kind /\ Len(read'.answer) <= 1
      /\ read' = [kind |-> read'.kind, answer |-> read'.answer]
      /\ read'.answer \in Seq(Answers(read'.kind))
  BY <1>2, FreshRead
<1> QED BY <1>1, <1>3, GiveUpType, ClientTypesHold DEF ClientTypes, ReadIsTyped

LEMMA HostRestartTypes ==
  ASSUME ClientIsTyped, HostRestart
  PROVE  ClientTypes'
<1>1. UNCHANGED <<failed, settled>> /\ transit' = <<>>
      /\ transit' \in Seq(Message)
  BY EmptySeq DEF HostRestart
<1>2. lost' \subseteq Streams \X Nat
  <2>1. ASSUME NEW m \in ToSet(transit)
        PROVE  m.event.at \in Streams \X Nat
    <3>1. PICK r \in Seq(Message) : r = transit
      BY DEF ClientIsTyped, TypeOK
    <3>2. ToSet(r) = {r[i] : i \in 1..Len(r)}
      BY LenProperties DEF ToSet
    <3>3. m \in Message
      BY <3>1, <3>2, ElementOfSeq
    <3> QED BY <3>3, EventAt DEF Message
  <2> QED BY <2>1 DEF HostRestart, ClientIsTyped, TypeOK
<1>3. CASE GiveUp
  <2>1. PICK kind \in {"none", "snapshot"} :
          read' = [kind |-> kind, answer |-> <<>>]
    BY <1>3, GiveUpType DEF NoRead
  <2>2. /\ read'.kind = kind /\ Len(read'.answer) <= 1
        /\ read' = [kind |-> read'.kind, answer |-> read'.answer]
        /\ read'.answer \in Seq(Answers(read'.kind))
    BY <2>1, FreshRead
  <2> QED BY <1>1, <1>2, <1>3, <2>2, GiveUpType, ClientTypesHold
          DEF ClientTypes, ReadIsTyped
<1>4. CASE UNCHANGED <<applied, gap, read, held, painted>>
  BY <1>1, <1>2, <1>4, ClientTypesHold DEF ClientTypes, ReadIsTyped
<1> QED BY <1>3, <1>4 DEF HostRestart

LEMMA ClientTypeStep ==
  ASSUME ClientIsTyped, JournalIsRight, JournalTypeOK', [Next]_vars
  PROVE  ClientIsTyped'
<1>1. ASSUME UNCHANGED client
      PROVE  ClientTypes'
  BY <1>1, ClientTypesHold DEF client, ClientTypes, ReadIsTyped
<1>2. ClientTypes'
  BY <1>1, EmitTypes, LoseTypes, DeliverTypes, BeginReadTypes, ServeTypes,
     FinishBackfillTypes, FinishSnapshotTypes, FailReadTypes, HostRestartTypes
     DEF Next, vars
<1>3. painted' \in [Turn -> Seq(Streams \X Nat)]
  BY <1>2, ScreenType DEF ClientTypes, ReadIsTyped
<1> QED BY <1>2, <1>3 DEF ClientTypes, ClientIsTyped, TypeOK, Places

LEMMA ClientTypeAlways == Spec => []ClientIsTyped
<1>1. Init /\ JournalTypeOK => ClientIsTyped
  <2> SUFFICES ASSUME Init, JournalTypeOK PROVE ClientIsTyped
    OBVIOUS
  <2>2. painted \in Screens
    BY EmptySeq DEF Init, Screens
  <2>3. read.answer \in Seq(Answers(read.kind)) /\ Len(read.answer) = 0
    BY EmptySeq DEF Init, NoRead
  <2>4. ReadIsTyped
    BY <2>2, <2>3 DEF Init, NoRead, ReadIsTyped
  <2>5. /\ transit \in Seq(Message) /\ held \in Seq(Message)
        /\ failed \in 0..MaxFailed
    BY EmptySeq, ClientConstants DEF Init
  <2>6. ClientTypes
    <3>1. applied \in Places /\ gap \in BOOLEAN /\ lost \subseteq Streams \X Nat
          /\ settled \subseteq Turn
      BY DEF Init, Places
    <3>2. read.kind = "none" /\ Len(read.answer) <= 1
      BY <2>3 DEF Init, NoRead
    <3> QED BY <2>4, <2>5, <3>1, <3>2 DEF ClientTypes
  <2> QED BY <2>6, ClientTypesSuffice
<1>2. /\ ClientIsTyped /\ JournalIsRight /\ JournalTypeOK' /\ [Next]_vars
      => ClientIsTyped'
  BY ClientTypeStep
<1> QED BY <1>1, <1>2, JournalAlways, PTL DEF Spec

(* The types of the journal and of the client: the answer a client waits    *)
(* for is of the kind it asked for, and what is painted, held and released  *)
(* are events, for any sessions, turns and tails.                           *)
THEOREM TypeCorrect == Spec => []TypeOK
<1>1. ClientIsTyped => TypeOK
  BY DEF ClientIsTyped
<1> QED BY <1>1, ClientTypeAlways, PTL

-----------------------------------------------------------------------------
(* The screen is in order *)

(* With n events recorded by the process own: a position that a client may  *)
(* have, and a screen that goes with it, whose events are in order and, if  *)
(* they are of this process, covered by the position.                       *)
PlaceFits(place, own, n) ==
  place.stream <= own /\ (place.stream = own => place.cursor <= n)
ScreenFits(place, screen, own, n) ==
  \A t \in Turn :
    /\ \A i, j \in 1..Len(screen[t]) :
         i < j => Before(screen[t][i], screen[t][j])
    /\ \A i \in 1..Len(screen[t]) :
         /\ NotAfter(screen[t][i], <<own, n>>)
         /\ screen[t][i][1] = own =>
              place.stream = own /\ screen[t][i][2] <= place.cursor
Fits(place, screen, own, n) ==
  PlaceFits(place, own, n) /\ ScreenFits(place, screen, own, n)

(* A live event of the process own, which carries its number.               *)
OnItsWay(m, own, n) ==
  /\ m.position.stream = own /\ m.position.cursor \in 1..n
  /\ m.event.at = <<own, m.position.cursor>>

LEMMA OnScreen ==
  ASSUME NEW screen \in Screens, NEW t \in Turn,
         NEW i \in 1..Len(screen[t])
  PROVE  /\ screen[t][i] \in Streams \X (Nat \ {0})
         /\ screen[t][i][1] \in Streams /\ screen[t][i][2] \in Nat \ {0}
         /\ screen[t][i] \in Streams \X Nat
<1>1. PICK r \in Seq(Streams \X (Nat \ {0})) : r = screen[t]
  BY DEF Screens
<1>2. r[i] \in Streams \X (Nat \ {0})
  BY <1>1, ElementOfSeq
<1> QED BY <1>1, <1>2

LEMMA FitsMore ==
  ASSUME NEW place \in Places, NEW screen \in Screens, NEW own \in Streams,
         NEW n \in Nat, Fits(place, screen, own, n)
  PROVE  Fits(place, screen, own, n + 1)
<1>1. \A t \in Turn : \A i \in 1..Len(screen[t]) :
        NotAfter(screen[t][i], <<own, n + 1>>)
  BY OnScreen, NotAfterNewest DEF Fits, ScreenFits
<1>2. PlaceFits(place, own, n + 1)
  BY DEF Fits, PlaceFits, Places, Position, NoPosition
<1> QED BY <1>1, <1>2 DEF Fits, ScreenFits

LEMMA FitsLater ==
  ASSUME NEW place \in Places, NEW screen \in Screens, NEW own \in Streams,
         NEW n \in Nat, Fits(place, screen, own, n)
  PROVE  Fits(place, screen, own + 1, 0)
<1>1. ASSUME NEW t \in Turn, NEW i \in 1..Len(screen[t])
      PROVE  /\ NotAfter(screen[t][i], <<own + 1, 0>>)
             /\ screen[t][i][1] # own + 1
  <2>1. NotAfter(screen[t][i], <<own, n>>)
    BY DEF Fits, ScreenFits
  <2>2. NotAfter(screen[t][i], <<own + 1, 0>>) /\ screen[t][i][1] <= own
    BY <2>1, OnScreen, NotAfterNewest
  <2>3. screen[t][i][1] \in Nat /\ own \in Nat
    BY OnScreen DEF Streams
  <2> QED BY <2>2, <2>3
<1>2. PlaceFits(place, own + 1, 0)
  <2>1. place.stream <= own /\ place.stream \in Nat /\ own \in Nat
    BY DEF Fits, PlaceFits, Places, Position, NoPosition, Streams
  <2> QED BY <2>1 DEF PlaceFits
<1> QED BY <1>1, <1>2 DEF Fits, ScreenFits

(* The next event of the process, painted.                                  *)
LEMMA PaintFits ==
  ASSUME NEW place \in Places, NEW screen \in Screens, NEW own \in Streams,
         NEW n \in Nat, ScreenFits(place, screen, own, n),
         NEW e \in Event, NEW c \in 1..n, e.at = <<own, c>>,
         NEW to \in Places, to.stream = own, to.cursor = c,
         place.stream = own => place.cursor < c
  PROVE  Fits(to, Paint(screen, e), own, n)
<1>0. /\ own \in Nat /\ c \in Nat /\ place.cursor \in Nat
      /\ e.turn \in Turn /\ e.at \in Streams \X (Nat \ {0})
  BY DEF Places, Position, NoPosition, Streams, Event
<1>1. ASSUME NEW t \in Turn, NEW i \in 1..Len(screen[t])
      PROVE  /\ NotAfter(screen[t][i], <<own, n>>)
             /\ Before(screen[t][i], <<own, c>>)
             /\ screen[t][i][1] = own => screen[t][i][2] <= c
  <2>1. /\ NotAfter(screen[t][i], <<own, n>>)
        /\ screen[t][i][1] = own => /\ place.stream = own
                                    /\ screen[t][i][2] <= place.cursor
    BY DEF ScreenFits
  <2>2. screen[t][i][1] \in Nat /\ screen[t][i][2] \in Nat
    BY OnScreen DEF Streams
  <2>3. screen[t][i][1] < own \/ screen[t][i][1] = own
    BY <2>1 DEF NotAfter
  <2> QED BY <1>0, <2>1, <2>2, <2>3 DEF Before
<1>2. PlaceFits(to, own, n)
  BY <1>0 DEF PlaceFits
<1>3. ASSUME NEW t \in Turn
      PROVE  LET shown == Paint(screen, e)[t] IN
             /\ \A i, j \in 1..Len(shown) : i < j => Before(shown[i], shown[j])
             /\ \A i \in 1..Len(shown) :
                  /\ NotAfter(shown[i], <<own, n>>)
                  /\ shown[i][1] = own => shown[i][2] <= c
  <2>1. PICK r \in Seq(Streams \X (Nat \ {0})) : r = screen[t]
    BY DEF Screens
  <2>2. /\ \A i, j \in 1..Len(r) : i < j => Before(r[i], r[j])
        /\ \A i \in 1..Len(r) : /\ NotAfter(r[i], <<own, n>>)
                                /\ Before(r[i], <<own, c>>)
                                /\ r[i][1] = own => r[i][2] <= c
    BY <1>1, <2>1 DEF ScreenFits
  <2>3. CASE t # e.turn
    <3>1. Paint(screen, e)[t] = r
      BY <1>0, <2>1, <2>3 DEF Paint, Screens
    <3> QED BY <2>2, <3>1
  <2>4. CASE t = e.turn
    <3>1. PICK at \in Streams \X (Nat \ {0}) : at = e.at
      BY <1>0
    <3>2. PICK s \in Seq(Streams \X (Nat \ {0})), m \in Nat :
            /\ s = Append(r, at) /\ m = Len(r) /\ Len(s) = m + 1
            /\ s[m + 1] = at /\ \A i \in 1..m : s[i] = r[i]
      <4>1. PICK s : s = Append(r, at)
        OBVIOUS
      <4>2. /\ Append(r, at) \in Seq(Streams \X (Nat \ {0}))
            /\ Len(Append(r, at)) = Len(r) + 1
            /\ Append(r, at)[Len(r) + 1] = at
            /\ \A i \in 1..Len(r) : Append(r, at)[i] = r[i]
        BY AppendProperties
      <4>3. PICK m \in Nat : m = Len(r)
        BY LenProperties
      <4>4. /\ s \in Seq(Streams \X (Nat \ {0})) /\ Len(s) = m + 1
            /\ s[m + 1] = at /\ \A i \in 1..m : s[i] = r[i]
        BY ONLY <4>1, <4>2, <4>3, Zenon
      <4> QED BY <4>1, <4>3, <4>4
    <3>3. Paint(screen, e)[t] = s
      BY <1>0, <2>1, <2>4, <3>1, <3>2 DEF Paint, Screens
    <3>4. NotAfter(at, <<own, n>>) /\ at[2] = c
      BY <1>0, <3>1 DEF NotAfter
    <3>5. ASSUME NEW i \in 1..(m + 1), NEW j \in 1..(m + 1), i < j
          PROVE  Before(s[i], s[j])
      <4>1. i \in 1..m /\ (j \in 1..m \/ j = m + 1)
        BY <3>5
      <4> QED BY <2>2, <3>1, <3>2, <3>5, <4>1
    <3>6. ASSUME NEW i \in 1..(m + 1)
          PROVE  /\ NotAfter(s[i], <<own, n>>)
                 /\ s[i][1] = own => s[i][2] <= c
      <4>1. CASE i \in 1..m
        BY <2>2, <3>2, <4>1
      <4>2. CASE i = m + 1
        <5>1. s[i] = at
          BY <3>2, <4>2
        <5>2. at[2] <= c
          BY <1>0, <3>4
        <5> QED BY <3>4, <5>1, <5>2
      <4> QED BY <4>1, <4>2
    <3> QED BY <3>2, <3>3, <3>5, <3>6
  <2> QED BY <2>3, <2>4
<1>4. ScreenFits(to, Paint(screen, e), own, n)
  BY <1>3 DEF ScreenFits
<1> QED BY <1>2, <1>4 DEF Fits

(* A live event, when it is released or admitted.                           *)
LEMMA LiveEventFits ==
  ASSUME NEW place \in Places, NEW screen \in Screens, NEW own \in Streams,
         NEW n \in Nat, Fits(place, screen, own, n),
         NEW m \in Message, OnItsWay(m, own, n), ~NotAhead(place, m.position)
  PROVE  Fits(Advance(place, m.position), Paint(screen, m.event), own, n)
<1>1. /\ m.position \in Places /\ m.event \in Event
      /\ Advance(place, m.position) = m.position
  BY DEF Message, Places, Advance
<1>2. place.stream = own => place.cursor < m.position.cursor
  <2> SUFFICES ASSUME place.stream = own
               PROVE  place.cursor < m.position.cursor
    OBVIOUS
  <2>1. place # NoPosition
    BY DEF NoPosition, Streams
  <2>2. ~(m.position.cursor <= place.cursor)
    BY <2>1 DEF NotAhead, OnItsWay
  <2>3. m.position.cursor \in Nat /\ place.cursor \in Nat
    BY DEF Message, Places, Position, NoPosition
  <2> QED BY <2>2, <2>3
<1> QED BY <1>1, <1>2, PaintFits DEF Fits, OnItsWay

LEMMA ReleasedFits ==
  ASSUME held \in Seq(Message), NEW own \in Streams, NEW n \in Nat,
         \A i \in 1..Len(held) : OnItsWay(held[i], own, n),
         NEW place \in Places, NEW screen \in Screens,
         Fits(place, screen, own, n)
  PROVE  Fits(Released(place, screen).position, Released(place, screen).screen,
              own, n)
<1> DEFINE A == {v \in Views : Fits(v.position, v.screen, own, n)}
<1>1. Len(held) \in Nat /\ \A i \in 1..Len(held) : held[i] \in Message
  BY LenProperties, ElementOfSeq
<1>2. [position |-> place, screen |-> screen] \in A
  BY DEF Views
<1>3. ASSUME NEW i \in 1..Len(held), NEW v \in A
      PROVE  ReleaseStep(v, held[i]) \in A
  <2>1. PICK p \in Places, s \in Screens, m \in Message :
          /\ p = v.position /\ s = v.screen /\ m = held[i]
          /\ Fits(p, s, own, n) /\ OnItsWay(m, own, n)
    BY <1>1 DEF Views
  <2>2. ReleaseStep(v, m) \in Views
    BY <2>1, ReleaseStepType
  <2>3. CASE NotAhead(p, m.position)
    BY <2>1, <2>3 DEF ReleaseStep
  <2>4. CASE ~NotAhead(p, m.position)
    <3>1. Fits(Advance(p, m.position), Paint(s, m.event), own, n)
      BY <2>1, <2>4, LiveEventFits
    <3>2. ReleaseStep(v, m) = [position |-> Advance(p, m.position),
                               screen |-> Paint(s, m.event)]
      BY <2>1, <2>4 DEF ReleaseStep
    <3> QED BY <2>1, <2>2, <3>1, <3>2
  <2> QED BY <2>3, <2>4
<1>4. PICK f \in [0..Len(held) -> A] :
        /\ f[0] = [position |-> place, screen |-> screen]
        /\ \A i \in 1..Len(held) : f[i] = ReleaseStep(f[i - 1], held[i])
        /\ Released(place, screen) = f[Len(held)]
  <2> HIDE DEF A
  <2> QED BY <1>1, <1>2, <1>3, ReleasedSteps
<1> QED BY <1>1, <1>4

(* The delta a was asked for at the position "from" and is painted over it. *)
DeltaFits(a, from, own, n) ==
  /\ from.stream = own /\ a.cursor <= n
  /\ a.cursor = from.cursor + Len(a.events)
  /\ \A i \in 1..Len(a.events) : a.events[i].at = <<own, from.cursor + i>>

LEMMA PaintAllFits ==
  ASSUME NEW own \in Streams, NEW n \in Nat, NEW place \in Places,
         NEW screen \in Screens, Fits(place, screen, own, n),
         NEW a \in Delta, DeltaFits(a, place, own, n), a.events # <<>>,
         NEW to, to = [stream |-> place.stream, cursor |-> a.cursor]
  PROVE  /\ Advance(place, to) = to /\ to \in Places
         /\ Fits(to, PaintAll(screen, a.events), own, n)
<1>1. PICK events \in Seq(Event), l \in Nat, c \in Nat :
        /\ events = a.events /\ l = Len(events) /\ c = place.cursor
        /\ l # 0 /\ c + l <= n /\ a.cursor = c + l /\ place.stream = own
        /\ \A i \in 1..l : events[i].at = <<own, c + i>>
  <2>1. PICK events \in Seq(Event) : events = a.events
    BY DEF Delta
  <2>2. Len(events) \in Nat /\ Len(events) # 0
    BY <2>1, LenProperties, EmptySeq
  <2>3. place.cursor \in Nat
    BY DEF Places, Position, NoPosition
  <2> QED BY <2>1, <2>2, <2>3 DEF DeltaFits
<1>2. \A i \in 0..l : [stream |-> own, cursor |-> c + i] \in Places
  BY <1>1 DEF Places, Position
<1>3. to = [stream |-> own, cursor |-> c + l] /\ to \in Places
  <2>1. l \in 0..l
    OBVIOUS
  <2> QED BY <1>1, <1>2, <2>1
<1>4. Advance(place, to) = to
  <2>1. ~(to.cursor <= place.cursor)
    BY <1>1, <1>3
  <2> QED BY <2>1 DEF Advance, NotAhead
<1>5. \A i \in 1..l : events[i] \in Event
  BY <1>1, ElementOfSeq
<1>6. PICK f : Painting(f, screen, events, Screens)
  <2>1. \A i \in 1..Len(events), s \in Screens : Paint(s, events[i]) \in Screens
    BY <1>1, <1>5, PaintType
  <2>2. Len(events) \in Nat /\ screen \in Screens
    BY <1>1
  <2> QED BY <2>1, <2>2, PaintAllSteps
<1> DEFINE S == {i \in 0..l : ScreenFits([stream |-> own, cursor |-> c + i],
                                         f[i], own, n)}
<1>7. 0 \in S
  <2>1. f[0] = screen /\ ScreenFits(place, screen, own, n)
    BY <1>6 DEF Painting, Fits
  <2>2. PICK to0 : to0 = [stream |-> own, cursor |-> c + 0]
    OBVIOUS
  <2>3. to0.stream = place.stream /\ to0.cursor = place.cursor
    BY <1>1, <2>2
  <2>4. ScreenFits(to0, screen, own, n)
    BY <2>1, <2>3 DEF ScreenFits
  <2>5. ScreenFits([stream |-> own, cursor |-> c + 0], f[0], own, n)
    BY <2>1, <2>2, <2>4
  <2>6. 0 \in 0..l
    BY <1>1
  <2> QED BY <2>5, <2>6
<1>8. ASSUME NEW i \in 1..l, i - 1 \in S
      PROVE  i \in S
  <2>1. PICK before \in Places, after \in Places :
          /\ before = [stream |-> own, cursor |-> c + (i - 1)]
          /\ after = [stream |-> own, cursor |-> c + i]
          /\ ScreenFits(before, f[i - 1], own, n)
    <3>1. i \in 0..l /\ i - 1 \in 0..l
      OBVIOUS
    <3> QED BY <1>2, <1>8, <3>1
  <2>2. /\ f[i - 1] \in Screens /\ f[i] = Paint(f[i - 1], events[i])
        /\ events[i] \in Event /\ events[i].at = <<own, c + i>>
        /\ c + i \in 1..n
    <3>1. i - 1 \in 0..l /\ c + i \in 1..n
      BY <1>1, SMTT(30)
    <3> QED BY <1>1, <1>5, <1>6, <3>1 DEF Painting
  <2>3. after.cursor = c + i /\ after.stream = own /\ before.cursor < c + i
    BY <2>1
  <2>4. Fits(after, Paint(f[i - 1], events[i]), own, n)
    BY <2>1, <2>2, <2>3, PaintFits
  <2> QED BY <2>1, <2>2, <2>4 DEF Fits
<1>9. l \in S
  <2>1. \A i \in 1..l : i - 1 \in S => i \in S
    BY <1>8
  <2>2. 0..l \subseteq S
    <3> HIDE DEF S
    <3> QED BY <1>7, <2>1, UpTo
  <2>3. l \in 0..l
    OBVIOUS
  <2> QED BY <2>2, <2>3
<1>10. ScreenFits(to, PaintAll(screen, a.events), own, n)
  BY <1>1, <1>3, <1>6, <1>9 DEF Painting
<1>11. PlaceFits(to, own, n)
  BY <1>1, <1>3 DEF PlaceFits, Streams
<1> QED BY <1>3, <1>4, <1>10, <1>11 DEF Fits

(* A snapshot of this process ends at its position; one of an older process *)
(* goes with a screen of older events only.                                 *)
ShotFits(a, screen, own, n) ==
  /\ EventsInOrder(a.events) /\ a.position.stream <= own
  /\ a.position.stream = own =>
       /\ a.position.cursor <= n
       /\ \A i \in 1..Len(a.events) :
            a.events[i].at[1] = own /\ a.events[i].at[2] <= a.position.cursor
  /\ a.position.stream # own =>
       /\ \A i \in 1..Len(a.events) : a.events[i].at[1] < own
       /\ \A t \in Turn : \A i \in 1..Len(screen[t]) : screen[t][i][1] < own

LEMMA ReplayFits ==
  ASSUME NEW own \in Streams, NEW n \in Nat, NEW place \in Places,
         painted \in Screens, Fits(place, painted, own, n),
         NEW a \in Shot, ShotFits(a, painted, own, n)
  PROVE  /\ Fits(Advance(place, a.position), painted, own, n)
         /\ Fits(Advance(place, a.position), Replayed(a), own, n)
<1>1. PICK to : to = Advance(place, a.position)
  OBVIOUS
<1>2. /\ place.stream \in Nat /\ place.cursor \in Nat /\ own \in Nat
      /\ own # 0 /\ a.position.stream \in Nat /\ a.position.cursor \in Nat
  BY DEF Places, Position, NoPosition, Shot, Streams
<1>3. /\ place.stream = own =>
           to.stream = own \/ a.position.stream # own
      /\ a.position.stream = own =>
           /\ to.stream = own /\ a.position.cursor <= to.cursor
           /\ place.stream = own => place.cursor <= to.cursor
      /\ to \in {place, a.position}
  BY <1>1, <1>2 DEF Advance, NotAhead, NoPosition
<1>4. PlaceFits(to, own, n)
  BY <1>3 DEF Fits, PlaceFits, ShotFits
<1>5. ASSUME NEW t \in Turn, NEW i \in 1..Len(painted[t])
      PROVE  /\ NotAfter(painted[t][i], <<own, n>>)
             /\ painted[t][i][1] = own =>
                  to.stream = own /\ painted[t][i][2] <= to.cursor
  <2>1. /\ NotAfter(painted[t][i], <<own, n>>)
        /\ painted[t][i][1] = own => /\ place.stream = own
                                     /\ painted[t][i][2] <= place.cursor
    BY DEF Fits, ScreenFits
  <2>2. painted[t][i][2] \in Nat /\ painted[t][i][1] \in Nat
    BY OnScreen DEF Streams
  <2>3. a.position.stream # own => painted[t][i][1] < own
    BY DEF ShotFits
  <2>4. to.cursor \in Nat
    BY <1>2, <1>3
  <2> QED BY <1>2, <1>3, <2>1, <2>2, <2>3, <2>4
<1>6. ScreenFits(to, painted, own, n)
  BY <1>5 DEF Fits, ScreenFits
<1>7. PICK events \in Seq(Event), l \in Nat :
        events = a.events /\ l = Len(events) /\ a.turn \in Turn
  BY LenProperties DEF Shot
<1>8. PICK shown : shown = [i \in 1..l |-> events[i].at]
  OBVIOUS
<1>9. /\ Len(shown) = l /\ \A i \in 1..l : shown[i] = events[i].at
  BY <1>8
<1>10. \A t \in Turn :
         Replayed(a)[t] = IF t = a.turn THEN shown ELSE painted[t]
  BY <1>7, <1>8 DEF Replayed, Screens
<1>11. \A i, j \in 1..l : i < j => Before(shown[i], shown[j])
  BY <1>7, <1>9 DEF ShotFits, EventsInOrder
<1>12. ASSUME NEW i \in 1..l
       PROVE  /\ NotAfter(shown[i], <<own, n>>)
              /\ shown[i][1] = own =>
                   to.stream = own /\ shown[i][2] <= to.cursor
  <2>1. events[i] \in Event
    BY <1>7, ElementOfSeq
  <2>2. shown[i][1] \in Nat /\ shown[i][2] \in Nat
    BY <1>9, <2>1, EventAt DEF Streams
  <2>3. to.cursor \in Nat
    BY <1>2, <1>3
  <2>4. CASE a.position.stream = own
    <3>1. shown[i][1] = own /\ shown[i][2] <= a.position.cursor
          /\ a.position.cursor <= n
      BY <1>7, <1>9, <2>4 DEF ShotFits
    <3> QED BY <1>2, <1>3, <2>2, <2>3, <2>4, <3>1 DEF NotAfter
  <2>5. CASE a.position.stream # own
    <3>1. shown[i][1] < own
      BY <1>7, <1>9, <2>5 DEF ShotFits
    <3> QED BY <1>2, <2>2, <3>1 DEF NotAfter
  <2> QED BY <2>4, <2>5
<1>13. ASSUME NEW t \in Turn
       PROVE  LET r == Replayed(a)[t] IN
              /\ \A i, j \in 1..Len(r) : i < j => Before(r[i], r[j])
              /\ \A i \in 1..Len(r) :
                   /\ NotAfter(r[i], <<own, n>>)
                   /\ r[i][1] = own => to.stream = own /\ r[i][2] <= to.cursor
  <2>1. CASE t = a.turn
    <3>1. Replayed(a)[t] = shown
      BY <1>10, <2>1
    <3> QED BY <1>9, <1>11, <1>12, <3>1
  <2>2. CASE t # a.turn
    <3>1. Replayed(a)[t] = painted[t]
      BY <1>10, <2>2
    <3> QED BY <1>6, <3>1 DEF ScreenFits
  <2> QED BY <2>1, <2>2
<1>14. ScreenFits(to, Replayed(a), own, n)
  BY <1>13 DEF ScreenFits
<1> QED BY <1>1, <1>4, <1>6, <1>14 DEF Fits


(* The client, while process own has recorded n events of the session.      *)
WayFits(ms, own, n) == \A i \in 1..Len(ms) : OnItsWay(ms[i], own, n)
AnswersFit(answers, place, screen, own, n) ==
  \A i \in 1..Len(answers) :
    /\ answers[i].kind = "delta" => DeltaFits(answers[i], place, own, n)
    /\ answers[i].kind = "snapshot" => ShotFits(answers[i], screen, own, n)
ClientFits(own, n) ==
  /\ WayFits(transit, own, n) /\ WayFits(held, own, n)
  /\ read.kind = "none" => held = <<>> /\ read.answer = <<>>
  /\ Fits(applied, painted, own, n)
  /\ AnswersFit(read.answer, applied, painted, own, n)
ClientInOrder == ClientFits(stream, Len(Recorded(Watched)))

LEMMA NothingFits ==
  ASSUME NEW place, NEW screen, NEW own, NEW n
  PROVE  WayFits(<<>>, own, n) /\ AnswersFit(<<>>, place, screen, own, n)
<1>1. \A i \in 1..Len(<<>>) : FALSE
  BY EmptySeq
<1> QED BY <1>1 DEF WayFits, AnswersFit

LEMMA WayFitsMore ==
  ASSUME NEW ms \in Seq(Message), NEW own, NEW n \in Nat, WayFits(ms, own, n)
  PROVE  WayFits(ms, own, n + 1)
BY DEF WayFits, OnItsWay

LEMMA AnswersFitMore ==
  ASSUME NEW answers, NEW place, NEW screen, NEW own, NEW n \in Nat,
         \A i \in 1..Len(answers) :
           answers[i] \in {SnapshotRequired, Inactive} \cup Delta \cup Shot,
         AnswersFit(answers, place, screen, own, n)
  PROVE  AnswersFit(answers, place, screen, own, n + 1)
<1> SUFFICES ASSUME NEW i \in 1..Len(answers)
             PROVE  LET a == answers[i] IN
                    /\ a.kind = "delta" => DeltaFits(a, place, own, n + 1)
                    /\ a.kind = "snapshot" => ShotFits(a, screen, own, n + 1)
  BY DEF AnswersFit
<1>1. PICK a \in {SnapshotRequired, Inactive} \cup Delta \cup Shot :
        a = answers[i]
  OBVIOUS
<1>2. /\ a.kind = "delta" => DeltaFits(a, place, own, n)
      /\ a.kind = "snapshot" => ShotFits(a, screen, own, n)
  BY <1>1 DEF AnswersFit
<1>3. /\ a.kind = "delta" => a.cursor \in Nat
      /\ a.kind = "snapshot" => a.position.cursor \in Nat
  BY DEF SnapshotRequired, Inactive, Delta, Shot, Position
<1>4. ASSUME a.kind = "delta"
      PROVE  DeltaFits(a, place, own, n + 1)
  BY <1>2, <1>3, <1>4 DEF DeltaFits
<1>5. ASSUME a.kind = "snapshot"
      PROVE  ShotFits(a, screen, own, n + 1)
  <2>1. a.position.cursor <= n => a.position.cursor <= n + 1
    BY <1>3, <1>5
  <2> QED BY <1>2, <1>5, <2>1 DEF ShotFits
<1> QED BY <1>1, <1>4, <1>5

LEMMA AnswerKinds ==
  ASSUME ClientIsTyped
  PROVE  \A i \in 1..Len(read.answer) :
           /\ read.answer[i] \in Answers(read.kind)
           /\ read.answer[i] \in
                {SnapshotRequired, Inactive} \cup Delta \cup Shot
<1>1. read.answer \in Seq(Answers(read.kind))
  BY DEF ClientIsTyped, ReadIsTyped
<1>2. \A i \in 1..Len(read.answer) : read.answer[i] \in Answers(read.kind)
  BY <1>1, ElementOfSeq
<1> QED BY <1>2 DEF Answers

(* Another event was recorded.                                              *)
LEMMA ClientFitsMore ==
  ASSUME ClientIsTyped, NEW own \in Streams, NEW n \in Nat, ClientFits(own, n)
  PROVE  ClientFits(own, n + 1)
<1>1. /\ transit \in Seq(Message) /\ held \in Seq(Message)
      /\ applied \in Places /\ painted \in Screens
  BY DEF ClientIsTyped, TypeOK, ReadIsTyped, Places
<1>2. WayFits(transit, own, n + 1) /\ WayFits(held, own, n + 1)
  BY <1>1, WayFitsMore DEF ClientFits
<1>3. Fits(applied, painted, own, n + 1)
  BY <1>1, FitsMore DEF ClientFits
<1>4. AnswersFit(read.answer, applied, painted, own, n + 1)
  BY AnswerKinds, AnswersFitMore DEF ClientFits
<1> QED BY <1>2, <1>3, <1>4 DEF ClientFits

LEMMA RestFits ==
  ASSUME NEW ms \in Seq(Message), ms # <<>>, NEW own, NEW n,
         WayFits(ms, own, n)
  PROVE  OnItsWay(Head(ms), own, n) /\ WayFits(Tail(ms), own, n)
<1>1. Len(ms) \in Nat /\ Len(ms) # 0 /\ Head(ms) = ms[1]
  BY LenProperties, EmptySeq
<1>2. OnItsWay(ms[1], own, n)
  BY <1>1 DEF WayFits
<1>3. /\ Len(Tail(ms)) = Len(ms) - 1
      /\ \A i \in 1..Len(Tail(ms)) : Tail(ms)[i] = ms[i + 1]
  BY HeadTailProperties
<1>4. ASSUME NEW i \in 1..Len(Tail(ms))
      PROVE  OnItsWay(Tail(ms)[i], own, n)
  <2>1. i + 1 \in 1..Len(ms)
    BY <1>1, <1>3
  <2> QED BY <1>3, <2>1 DEF WayFits
<1> QED BY <1>1, <1>2, <1>4 DEF WayFits

LEMMA MoreFits ==
  ASSUME NEW ms \in Seq(Message), NEW m \in Message, NEW own, NEW n,
         WayFits(ms, own, n), OnItsWay(m, own, n)
  PROVE  WayFits(Append(ms, m), own, n)
<1>1. Len(ms) \in Nat
  BY LenProperties
<1>2. /\ Len(Append(ms, m)) = Len(ms) + 1
      /\ Append(ms, m)[Len(ms) + 1] = m
      /\ \A i \in 1..Len(ms) : Append(ms, m)[i] = ms[i]
  BY AppendProperties
<1>3. ASSUME NEW i \in 1..Len(Append(ms, m))
      PROVE  OnItsWay(Append(ms, m)[i], own, n)
  <2>1. i \in 1..Len(ms) \/ i = Len(ms) + 1
    BY <1>1, <1>2
  <2> QED BY <1>2, <2>1 DEF WayFits
<1> QED BY <1>3 DEF WayFits

LEMMA EmitKeepsFit ==
  ASSUME ClientIsTyped, JournalIsOrdered, NEW own \in Streams, NEW n \in Nat,
         own = stream, n = Len(Recorded(Watched)), ClientFits(own, n), Emit
  PROVE  ClientFits(own, n)'
<1>1. UNCHANGED <<applied, read, held, painted>>
  BY DEF Emit
<1>2. PICK o \in StoreOp : o = Head(storing) /\ o = storing[1]
  <2>1. storing # <<>> /\ storing \in Seq(StoreOp)
    BY DEF Emit, Stored, ClientIsTyped, TypeOK, JournalTypeOK
  <2> QED BY <2>1, HeadTailProperties
<1>3. o.line.event.at = <<stream, Len(Recorded(o.session))>>
      /\ o.line.stream = stream /\ o.line.cursor = Len(Recorded(o.session))
  <2>1. 1 \in 1..Len(storing)
    <3>1. storing # <<>> /\ storing \in Seq(StoreOp)
      BY DEF Emit, Stored, ClientIsTyped, TypeOK, JournalTypeOK
    <3> QED BY <3>1, LenProperties, EmptySeq
  <2> QED BY <1>2, <2>1 DEF JournalIsOrdered, LogsAreOrdered, Newest
<1>4. PICK m : m = [position |-> [stream |-> o.line.stream,
                                  cursor |-> o.line.cursor],
                    event |-> o.line.event]
  OBVIOUS
<1>5. m \in Message
  BY <1>2, <1>4 DEF StoreOp, Line, Message, Position
<1>6. transit \in Seq(Message) /\ WayFits(transit, own, n)
  BY DEF ClientIsTyped, TypeOK, ClientFits
<1>7. transit' = IF o.session # Watched THEN transit ELSE Append(transit, m)
  BY <1>2, <1>4 DEF Emit
<1>8. WayFits(transit', own, n)
  <2>1. CASE o.session # Watched
    BY <1>6, <1>7, <2>1
  <2>2. CASE o.session = Watched
    <3>1. m.event.at = <<own, n>> /\ m.position.stream = own
          /\ m.position.cursor = n
      BY <1>3, <1>4, <2>2
    <3>2. n # 0
      BY <1>5, <3>1, EventAt DEF Message
    <3>3. OnItsWay(m, own, n)
      BY <3>1, <3>2 DEF OnItsWay
    <3>4. WayFits(Append(transit, m), own, n)
      BY <1>5, <1>6, <3>3, MoreFits
    <3> QED BY <1>7, <2>2, <3>4
  <2> QED BY <2>1, <2>2
<1> QED BY <1>1, <1>8 DEF ClientFits

LEMMA TransitMoves ==
  ASSUME ClientIsTyped, NEW own, NEW n, ClientFits(own, n), transit # <<>>
  PROVE  /\ OnItsWay(Head(transit), own, n) /\ WayFits(Tail(transit), own, n)
         /\ Head(transit) \in Message
<1>1. transit \in Seq(Message) /\ WayFits(transit, own, n)
  BY DEF ClientIsTyped, TypeOK, ClientFits
<1> QED BY <1>1, RestFits, HeadOfTransit

LEMMA LoseKeepsFit ==
  ASSUME ClientIsTyped, NEW own \in Streams, NEW n \in Nat,
         ClientFits(own, n), Lose
  PROVE  ClientFits(own, n)'
<1>1. UNCHANGED <<applied, read, held, painted>> /\ transit' = Tail(transit)
      /\ transit # <<>>
  BY DEF Lose
<1>2. WayFits(transit', own, n)
  BY <1>1, TransitMoves
<1> QED BY <1>1, <1>2 DEF ClientFits

LEMMA DeliverKeepsFit ==
  ASSUME ClientIsTyped, NEW own \in Streams, NEW n \in Nat,
         ClientFits(own, n), Deliver
  PROVE  ClientFits(own, n)'
<1>1. UNCHANGED read /\ transit # <<>>
  BY DEF Deliver
<1>2. WayFits(transit', own, n)
  BY <1>1, TransitMoves DEF Deliver
<1>3. PICK m \in Message : m = Head(transit) /\ OnItsWay(m, own, n)
  BY <1>1, TransitMoves
<1>4. /\ applied \in Places /\ painted \in Screens /\ held \in Seq(Message)
      /\ Fits(applied, painted, own, n) /\ WayFits(held, own, n)
      /\ AnswersFit(read.answer, applied, painted, own, n)
  BY DEF ClientIsTyped, TypeOK, ReadIsTyped, Places, ClientFits
<1>5. CASE Reading
  <2>1. held' = Append(held, m) /\ UNCHANGED <<applied, painted>>
    BY <1>3, <1>5 DEF Deliver
  <2>2. WayFits(Append(held, m), own, n)
    BY <1>3, <1>4, MoreFits
  <2>3. WayFits(held', own, n)
    BY <2>1, <2>2
  <2> QED BY <1>1, <1>2, <1>4, <1>5, <2>1, <2>3 DEF ClientFits, Reading
<1>6. CASE ~Reading
  <2>1. Admit(m) /\ UNCHANGED held
    BY <1>3, <1>6 DEF Deliver
  <2>2. read.answer = <<>> /\ held = <<>>
    BY <1>6 DEF ClientFits, Reading
  <2>3. Fits(applied', painted', own, n)
    <3>1. CASE UNCHANGED <<applied, painted>>
      BY <1>4, <3>1
    <3>2. CASE /\ ~NotAhead(applied, m.position)
               /\ applied' = Advance(applied, m.position)
               /\ painted' = Paint(painted, m.event)
      <4>1. Fits(Advance(applied, m.position), Paint(painted, m.event), own, n)
        BY <1>3, <1>4, <3>2, LiveEventFits
      <4> QED BY <3>2, <4>1
    <3> QED BY <2>1, <3>1, <3>2 DEF Admit
  <2>4. AnswersFit(read.answer, applied', painted', own, n)
    BY <2>2, NothingFits
  <2> QED BY <1>1, <1>2, <1>4, <2>1, <2>2, <2>3, <2>4 DEF ClientFits
<1> QED BY <1>5, <1>6

LEMMA BeginReadKeepsFit ==
  ASSUME ClientIsTyped, NEW own \in Streams, NEW n \in Nat,
         ClientFits(own, n), BeginRead
  PROVE  ClientFits(own, n)'
<1>1. UNCHANGED <<transit, applied, held, painted>> /\ read'.answer = <<>>
      /\ held = <<>>
  BY DEF BeginRead, ClientFits, Reading
<1>2. AnswersFit(read'.answer, applied, painted, own, n)
  BY <1>1, NothingFits
<1> QED BY <1>1, <1>2 DEF ClientFits

LEMMA ServeKeepsFit ==
  ASSUME ClientIsTyped, JournalIsRight, NEW own \in Streams, NEW n \in Nat,
         own = stream, n = Len(Recorded(Watched)), ClientFits(own, n),
         ServeBackfill \/ ServeSnapshot
  PROVE  ClientFits(own, n)'
<1>1. /\ applied \in Places /\ painted \in Screens /\ JournalTypeOK
      /\ Fits(applied, painted, own, n)
  BY DEF ClientIsTyped, TypeOK, ReadIsTyped, Places, ClientFits
<1>2. PICK a : /\ Answer(a)
               /\ a.kind = "delta" => DeltaFits(a, applied, own, n)
               /\ a.kind = "snapshot" => ShotFits(a, painted, own, n)
  <2>1. CASE ServeBackfill
    <3>1. PICK a : a = EventsSince(Watched, applied)
      OBVIOUS
    <3>2. a.kind \in {"snapshotRequired", "delta"}
      BY <3>1 DEF EventsSince, SnapshotRequired
    <3>3. a.kind = "delta" => DeltaFits(a, applied, own, n)
      <4>1. n <= n
        OBVIOUS
      <4> QED BY <1>1, <3>1, <4>1, DeltaFacts
              DEF JournalIsRight, JournalIsOrdered, DeltaFits
    <3> QED BY <2>1, <3>1, <3>2, <3>3 DEF ServeBackfill
  <2>2. CASE ServeSnapshot
    <3>1. PICK a \in SnapshotAnswers : Answer(a)
      BY <2>2 DEF ServeSnapshot
    <3>2. CASE a = Inactive
      <4>1. a.kind = "inactive"
        BY <3>2 DEF Inactive
      <4> QED BY <3>1, <4>1
    <3>3. CASE a # Inactive
      <4>1. /\ a \in Shot /\ EventsInOrder(a.events)
            /\ a.position.stream = own =>
                 /\ a.position.cursor <= n
                 /\ \A i \in 1..Len(a.events) :
                      a.events[i].at[1] = own
                      /\ a.events[i].at[2] <= a.position.cursor
            /\ a.position.stream # own =>
                 /\ n = 0 /\ a.position.stream < own
                 /\ \A i \in 1..Len(a.events) :
                      a.events[i].at[1] = a.position.stream
        BY <1>1, <3>1, <3>3, ShotFacts, EmptySeq
      <4>2. a.position.stream <= own
        <5>1. a.position.stream \in Nat /\ own \in Nat
          BY <4>1 DEF Streams, Shot, Position
        <5> QED BY <4>1, <5>1
      <4>3. ASSUME n = 0, NEW t \in Turn, NEW i \in 1..Len(painted[t])
            PROVE  painted[t][i][1] < own
        <5>1. painted[t][i][1] \in Nat /\ painted[t][i][2] \in Nat \ {0}
          BY <1>1, OnScreen DEF Streams
        <5>2. NotAfter(painted[t][i], <<own, n>>)
          BY <1>1, <4>3 DEF Fits, ScreenFits
        <5> QED BY <4>3, <5>1, <5>2 DEF NotAfter
      <4>4. ShotFits(a, painted, own, n)
        BY <4>1, <4>2, <4>3 DEF ShotFits
      <4>5. a.kind = "snapshot"
        BY <4>1 DEF Shot
      <4> QED BY <3>1, <4>4, <4>5
    <3> QED BY <3>2, <3>3
  <2> QED BY <2>1, <2>2
<1>3. /\ UNCHANGED <<transit, applied, held, painted>>
      /\ read'.kind = read.kind /\ read'.answer = <<a>> /\ Reading
  <2>1. read = [kind |-> read.kind, answer |-> read.answer]
    BY DEF ClientIsTyped, ReadIsTyped
  <2> QED BY <1>2, <2>1 DEF Answer
<1>4. AnswersFit(read'.answer, applied, painted, own, n)
  <2>1. Len(<<a>>) = 1 /\ <<a>>[1] = a
    OBVIOUS
  <2> QED BY <1>2, <1>3, <2>1 DEF AnswersFit
<1> QED BY <1>3, <1>4 DEF ClientFits, Reading

(* Held events are released over what fits.                                 *)
LEMMA ReleaseFits ==
  ASSUME ClientIsTyped, NEW own \in Streams, NEW n \in Nat,
         WayFits(held, own, n), NEW place \in Places, NEW screen \in Screens,
         Fits(place, screen, own, n), Release(place, screen)
  PROVE  Fits(applied', painted', own, n) /\ held' = <<>>
<1>1. held \in Seq(Message)
  BY DEF ClientIsTyped, TypeOK
<1>2. Fits(Released(place, screen).position, Released(place, screen).screen,
           own, n)
  BY <1>1, ReleasedFits DEF WayFits
<1> QED BY <1>2 DEF Release

(* A read is over, or another one is begun.                                 *)
LEMMA FreshReadFits ==
  ASSUME NEW own, NEW n, Fits(applied', painted', own, n),
         WayFits(transit', own, n), held' = <<>>, read'.answer = <<>>
  PROVE  ClientFits(own, n)'
<1>1. /\ WayFits(held', own, n)
      /\ AnswersFit(read'.answer, applied', painted', own, n)
  BY NothingFits
<1> QED BY <1>1 DEF ClientFits

LEMMA FirstAnswer ==
  ASSUME ClientIsTyped, NEW own \in Streams, NEW n \in Nat,
         ClientFits(own, n), read.answer # <<>>
  PROVE  LET a == Head(read.answer) IN
         /\ a \in Answers(read.kind)
         /\ a.kind = "delta" => DeltaFits(a, applied, own, n)
         /\ a.kind = "snapshot" => ShotFits(a, painted, own, n)
<1>1. read.answer \in Seq(Answers(read.kind))
  BY DEF ClientIsTyped, ReadIsTyped
<1>2. 1 \in 1..Len(read.answer) /\ Head(read.answer) = read.answer[1]
  BY <1>1, LenProperties, EmptySeq
<1> QED BY <1>2, AnswerAsked DEF ClientFits, AnswersFit

LEMMA FinishBackfillKeepsFit ==
  ASSUME ClientIsTyped, NEW own \in Streams, NEW n \in Nat,
         ClientFits(own, n), FinishBackfill, ~ToolsMayLag
  PROVE  ClientFits(own, n)'
<1>1. UNCHANGED transit /\ WayFits(transit', own, n)
  BY DEF FinishBackfill, ClientFits
<1>2. PICK a : /\ a = Head(read.answer) /\ a \in {SnapshotRequired} \cup Delta
               /\ a.kind = "delta" => DeltaFits(a, applied, own, n)
  BY FirstAnswer DEF FinishBackfill, Answers
<1>3. /\ applied \in Places /\ painted \in Screens
      /\ Fits(applied, painted, own, n) /\ WayFits(held, own, n)
  BY DEF ClientIsTyped, TypeOK, ReadIsTyped, Places, ClientFits
<1>4. CASE a.kind = "delta" /\ a.events # <<>>
  <2>1. a \in Delta /\ a.events \in Seq(Event)
    BY <1>2, <1>4 DEF SnapshotRequired, Delta
  <2>2. PICK to : to = [stream |-> applied.stream, cursor |-> a.cursor]
    OBVIOUS
  <2>3. PICK screen \in Screens : screen = PaintAll(painted, a.events)
    BY <1>3, <2>1, PaintAllType
  <2>4. /\ Advance(applied, to) = to /\ to \in Places
        /\ Fits(to, screen, own, n)
    BY <1>2, <1>3, <1>4, <2>1, <2>2, <2>3, PaintAllFits
  <2>5. Release(to, screen) /\ read' = NoRead
    BY <1>2, <1>4, <2>2, <2>3, <2>4 DEF FinishBackfill, Settle
  <2>6. Fits(applied', painted', own, n) /\ held' = <<>>
    BY <1>3, <2>4, <2>5, ReleaseFits
  <2> QED BY <1>1, <2>5, <2>6, FreshReadFits DEF NoRead
<1>5. CASE ~(a.kind = "delta" /\ a.events # <<>>)
  <2>1. /\ read' = [kind |-> "snapshot", answer |-> <<>>]
        /\ UNCHANGED <<applied, held, painted>>
    BY <1>2, <1>5 DEF FinishBackfill, HandOff
  <2>2. AnswersFit(read'.answer, applied, painted, own, n)
    BY <2>1, NothingFits
  <2>3. read'.kind # "none"
    BY <2>1
  <2> QED BY <1>1, <1>3, <2>1, <2>2, <2>3 DEF ClientFits
<1> QED BY <1>4, <1>5

LEMMA FinishSnapshotKeepsFit ==
  ASSUME ClientIsTyped, NEW own \in Streams, NEW n \in Nat,
         ClientFits(own, n), FinishSnapshot
  PROVE  ClientFits(own, n)'
<1>1. UNCHANGED transit /\ WayFits(transit', own, n) /\ read' = NoRead
  BY DEF FinishSnapshot, ClientFits
<1>2. PICK a : /\ a = Head(read.answer) /\ a \in {Inactive} \cup Shot
               /\ a.kind = "snapshot" => ShotFits(a, painted, own, n)
  <2>1. read.kind # "backfill" /\ read.answer # <<>>
    BY DEF FinishSnapshot
  <2> QED BY <2>1, FirstAnswer DEF Answers
<1>3. /\ applied \in Places /\ painted \in Screens
      /\ Fits(applied, painted, own, n) /\ WayFits(held, own, n)
  BY DEF ClientIsTyped, TypeOK, ReadIsTyped, Places, ClientFits
<1>4. PICK place \in Places, screen \in Screens :
        Fits(place, screen, own, n) /\ Release(place, screen)
  <2>1. CASE a = Inactive
    <3>1. Release(applied, painted)
      BY <1>2, <2>1 DEF FinishSnapshot, Abandon
    <3> QED BY <1>3, <3>1
  <2>2. CASE a # Inactive
    <3>1. a \in Shot /\ a.kind = "snapshot" /\ a.position \in Places
      BY <1>2, <2>2 DEF Shot, Places
    <3>2. PICK place \in Places : place = Advance(applied, a.position)
      BY <1>3, <3>1, AdvanceType
    <3>3. PICK screen \in Screens : screen = Replayed(a)
      BY <1>3, <3>1, ReplayedType
    <3>4. Fits(place, painted, own, n) /\ Fits(place, screen, own, n)
      BY <1>2, <1>3, <3>1, <3>2, <3>3, ReplayFits
    <3>5. Release(place, screen) \/ Release(place, painted)
      BY <1>2, <2>2, <3>2, <3>3 DEF FinishSnapshot, Settle
    <3> QED BY <1>3, <3>4, <3>5
  <2> QED BY <2>1, <2>2
<1>5. Fits(applied', painted', own, n) /\ held' = <<>>
  BY <1>3, <1>4, ReleaseFits
<1> QED BY <1>1, <1>5, FreshReadFits DEF NoRead

LEMMA GiveUpFits ==
  ASSUME ClientIsTyped, NEW own \in Streams, NEW n \in Nat,
         ClientFits(own, n), GiveUp
  PROVE  /\ Fits(applied', painted', own, n) /\ held' = <<>>
         /\ read'.answer = <<>> /\ applied' \in Places /\ painted' \in Screens
<1>1. /\ applied \in Places /\ painted \in Screens
      /\ Fits(applied, painted, own, n) /\ WayFits(held, own, n)
  BY DEF ClientIsTyped, TypeOK, ReadIsTyped, Places, ClientFits
<1>2. Release(applied, painted)
  BY DEF GiveUp, Abandon
<1>3. Fits(applied', painted', own, n) /\ held' = <<>>
  BY <1>1, <1>2, ReleaseFits
<1> QED BY <1>3, GiveUpType DEF NoRead

LEMMA FailReadKeepsFit ==
  ASSUME ClientIsTyped, NEW own \in Streams, NEW n \in Nat,
         ClientFits(own, n), FailRead
  PROVE  ClientFits(own, n)'
<1>1. UNCHANGED transit /\ WayFits(transit', own, n) /\ GiveUp
  BY DEF FailRead, ClientFits
<1> QED BY <1>1, GiveUpFits, FreshReadFits

LEMMA HostRestartKeepsFit ==
  ASSUME ClientIsTyped, TailsAreSuffixes, NEW own \in Streams, NEW n \in Nat,
         own = stream, ClientFits(own, n), HostRestart, ~ReadsOutliveHost
  PROVE  /\ stream' = own + 1 /\ Len(Recorded(Watched))' = 0
         /\ ClientFits(own + 1, 0)'
<1>1. /\ stream' = own + 1 /\ stream' \in Streams
      /\ history' = history /\ transit' = <<>>
  BY ClientConstants, JournalConstants
     DEF HostRestart, Restart, Streams, ClientIsTyped, TypeOK, JournalTypeOK
<1>2. Len(Recorded(Watched))' = 0
  <2>1. history[Watched][own + 1] = <<>>
    <3>1. own + 1 > stream /\ own + 1 \in Streams
      BY <1>1 DEF Streams
    <3> QED BY <3>1, ClientConstants DEF TailsAreSuffixes
  <2> QED BY <1>1, <2>1, EmptySeq DEF Recorded
<1>3. /\ Fits(applied', painted', own, n)
      /\ applied' \in Places /\ painted' \in Screens
      /\ held' = <<>> /\ read'.answer = <<>>
  <2>1. CASE GiveUp
    BY <2>1, GiveUpFits
  <2>2. CASE ~Reading /\ UNCHANGED <<applied, read, held, painted>>
    <3>1. applied \in Places /\ painted \in Screens
      BY DEF ClientIsTyped, TypeOK, ReadIsTyped, Places
    <3> QED BY <2>2, <3>1 DEF ClientFits, Reading
  <2> QED BY <2>1, <2>2 DEF HostRestart
<1>4. Fits(applied', painted', own + 1, 0)
  BY <1>3, FitsLater
<1>5. WayFits(transit', own + 1, 0)
  BY <1>1, NothingFits
<1> QED BY <1>1, <1>2, <1>3, <1>4, <1>5, FreshReadFits

LEMMA RecordKeepsFit ==
  ASSUME ClientIsTyped, ClientInOrder, UNCHANGED client,
         \/ \E s \in Session, t \in Turn, k \in Kind : Record(s, t, k)
         \/ \E s \in Session : Delete(s)
  PROVE  ClientInOrder'
<1>1. PICK own \in Streams, n \in Nat :
        own = stream /\ n = Len(Recorded(Watched)) /\ ClientFits(own, n)
  <2>1. Recorded(Watched) \in Seq(Event) /\ stream \in Streams
    BY ClientConstants DEF ClientIsTyped, TypeOK, JournalTypeOK, Recorded
  <2> QED BY <2>1, LenProperties DEF ClientInOrder
<1>2. PICK r \in Seq(Event) : r = Recorded(Watched)
  BY ClientConstants DEF ClientIsTyped, TypeOK, JournalTypeOK, Recorded
<1>3. /\ stream' = own
      /\ \/ Recorded(Watched)' = r
         \/ \E e \in Event : Recorded(Watched)' = Append(r, e)
  <2>1. ASSUME NEW s \in Session, NEW t \in Turn, NEW k \in Kind,
               Record(s, t, k)
        PROVE  /\ stream' = own
               /\ \/ Recorded(Watched)' = r
                  \/ \E e \in Event : Recorded(Watched)' = Append(r, e)
    BY <1>1, <1>2, <2>1, RecordFacts, ClientConstants DEF ClientIsTyped, TypeOK
  <2>2. ASSUME NEW s \in Session, Delete(s)
        PROVE  stream' = own /\ Recorded(Watched)' = r
    BY <1>1, <1>2, <2>2 DEF Delete, Recorded
  <2> QED BY <2>1, <2>2
<1>4. PICK more \in {n, n + 1} : Len(Recorded(Watched))' = more
  <2>1. \A e \in Event : Len(Append(r, e)) = n + 1
    BY <1>1, <1>2, AppendProperties
  <2> QED BY <1>1, <1>2, <1>3, <2>1
<1>5. ClientFits(own, more)
  BY <1>1, ClientFitsMore
<1>6. ClientFits(own, more)'
  BY <1>5 DEF client, ClientFits
<1> QED BY <1>3, <1>4, <1>6 DEF ClientInOrder, ClientFits

LEMMA OrderedStep ==
  ASSUME ~ReadsOutliveHost, ~ToolsMayLag,
         ClientIsTyped, JournalIsRight, ClientInOrder, [Next]_vars
  PROVE  ClientInOrder'
<1>1. PICK own \in Streams, n \in Nat :
        own = stream /\ n = Len(Recorded(Watched)) /\ ClientFits(own, n)
  <2>1. Recorded(Watched) \in Seq(Event) /\ stream \in Streams
    BY ClientConstants DEF ClientIsTyped, TypeOK, JournalTypeOK, Recorded
  <2> QED BY <2>1, LenProperties DEF ClientInOrder
<1>2. ASSUME stream' = stream, history' = history, ClientFits(own, n)'
      PROVE  ClientInOrder'
  BY <1>1, <1>2 DEF ClientInOrder, ClientFits, Recorded
<1>3. CASE Emit
  <2>1. ClientFits(own, n)'
    BY <1>1, <1>3, EmitKeepsFit DEF JournalIsRight
  <2> QED BY <1>2, <1>3, <2>1 DEF Emit, Stored
<1>4. CASE Lose
  <2>1. ClientFits(own, n)'
    BY <1>1, <1>4, LoseKeepsFit
  <2> QED BY <1>2, <1>4, <2>1 DEF Lose, journal
<1>5. CASE Deliver
  <2>1. ClientFits(own, n)'
    BY <1>1, <1>5, DeliverKeepsFit
  <2> QED BY <1>2, <1>5, <2>1 DEF Deliver, journal
<1>6. CASE BeginRead
  <2>1. ClientFits(own, n)'
    BY <1>1, <1>6, BeginReadKeepsFit
  <2> QED BY <1>2, <1>6, <2>1 DEF BeginRead, journal
<1>7. CASE ServeBackfill \/ ServeSnapshot
  <2>1. ClientFits(own, n)'
    BY <1>1, <1>7, ServeKeepsFit
  <2> QED BY <1>2, <1>7, <2>1 DEF ServeBackfill, ServeSnapshot, Answer, journal
<1>8. CASE FinishBackfill
  <2>1. ClientFits(own, n)'
    BY <1>1, <1>8, FinishBackfillKeepsFit
  <2> QED BY <1>2, <1>8, <2>1 DEF FinishBackfill, journal
<1>9. CASE FinishSnapshot
  <2>1. ClientFits(own, n)'
    BY <1>1, <1>9, FinishSnapshotKeepsFit
  <2> QED BY <1>2, <1>9, <2>1 DEF FinishSnapshot, journal
<1>10. CASE FailRead
  <2>1. ClientFits(own, n)'
    BY <1>1, <1>10, FailReadKeepsFit
  <2> QED BY <1>2, <1>10, <2>1 DEF FailRead, journal
<1>11. CASE HostRestart
  BY <1>1, <1>11, HostRestartKeepsFit
     DEF JournalIsRight, ClientInOrder, ClientFits
<1>12. CASE UNCHANGED vars
  <2>1. ClientFits(own, n)'
    BY <1>1, <1>12 DEF vars, client, ClientFits
  <2> QED BY <1>2, <1>12, <2>1 DEF vars, journal
<1> QED BY <1>3, <1>4, <1>5, <1>6, <1>7, <1>8, <1>9, <1>10, <1>11, <1>12,
           RecordKeepsFit DEF Next

(* Contract 1 of docs/architecture/session-projection.md, when the read in  *)
(* flight fails with the host it was sent to and a delta that was painted   *)
(* shows: the screen never regresses, however live events, losses,          *)
(* restarts and the release of held events over backfills and snapshots     *)
(* interleave.                                                              *)
THEOREM ScreensAreOrdered ==
  ASSUME ~ReadsOutliveHost, ~ToolsMayLag
  PROVE  Spec => []ProjectionIsOrdered
<1>1. Init /\ ClientIsTyped => ClientInOrder
  <2> SUFFICES ASSUME Init, ClientIsTyped PROVE ClientInOrder
    OBVIOUS
  <2>1. PICK own \in Streams, n \in Nat :
          own = stream /\ n = Len(Recorded(Watched))
    <3>1. Recorded(Watched) \in Seq(Event) /\ stream \in Streams
      BY ClientConstants DEF ClientIsTyped, TypeOK, JournalTypeOK, Recorded
    <3> QED BY <3>1, LenProperties
  <2>2. transit = <<>> /\ held = <<>> /\ read.answer = <<>>
    BY DEF Init, NoRead
  <2>3. /\ WayFits(transit, own, n) /\ WayFits(held, own, n)
        /\ AnswersFit(read.answer, applied, painted, own, n)
    BY <2>2, NothingFits
  <2>4. PlaceFits(applied, own, n)
    BY <2>1 DEF Init, NoPosition, PlaceFits, Streams
  <2>5. ScreenFits(applied, painted, own, n)
    <3>1. \A t \in Turn : painted[t] = <<>>
      BY DEF Init
    <3>2. \A i \in 1..Len(<<>>) : FALSE
      BY EmptySeq
    <3> QED BY <3>1, <3>2 DEF ScreenFits
  <2> QED BY <2>1, <2>2, <2>3, <2>4, <2>5 DEF ClientInOrder, ClientFits, Fits
<1>2. ClientIsTyped /\ JournalIsRight /\ ClientInOrder /\ [Next]_vars
      => ClientInOrder'
  BY OrderedStep
<1>3. ClientInOrder => ProjectionIsOrdered
  BY DEF ClientInOrder, ClientFits, Fits, ScreenFits, ProjectionIsOrdered
<1> QED BY <1>1, <1>2, <1>3, JournalAlways, ClientTypeAlways, PTL DEF Spec
=============================================================================
