--------------------- MODULE SessionStreamFence_proofs ---------------------
(***************************************************************************)
(* What the fence of SessionStream keeps, for any sessions, turns, tails,  *)
(* losses and restarts: between the events of a turn that show, nothing is *)
(* missing but what was lost on the way.  The proof relates the screen,    *)
(* the place of the client, what is held and what is on its way to all     *)
(* that was ever recorded of the session.                                  *)
(***************************************************************************)
EXTENDS SessionStream_proofs

-----------------------------------------------------------------------------
(* What is on screen, as sets, beside what the host recorded: h are the     *)
(* events of the session, of which the process own recorded n.  A client    *)
(* has dealt with those up to c; the others are gone, or pending.           *)

(* The events of t in h came one after the other, and none after its end.   *)
Straight(h, t) ==
  \A a, b \in h : a.turn = t /\ b.turn = t /\ Before(a.at, b.at) =>
    /\ a.kind # "ended"
    /\ \A c \in h : Before(a.at, c.at) /\ Before(c.at, b.at) => c.turn = t

(* Events have numbers of their own, of a process up to own; of own, up to  *)
(* n.                                                                       *)
Numbered(h, own, n) ==
  /\ h \subseteq Event
  /\ \A x, y \in h : x.at = y.at => x = y
  /\ \A x \in h : x.at[1] <= own /\ (x.at[1] = own => x.at[2] <= n)

(* What shows, turn by turn; and the place of a client in the process own.  *)
Shows == [Turn -> SUBSET (Streams \X (Nat \ {0}))]
Shown(screen) == [t \in Turn |-> ToSet(screen[t])]
Reach(place, own) == IF place.stream = own THEN place.cursor ELSE 0

(* Nothing on screen of the turn and process of x is before it, or after    *)
(* it; events up to c include one of another turn that is after x, so that  *)
(* no event of its turn follows them if the turn is in order.               *)
NoneBefore(sh, x) == \A b \in sh[x.turn] : b[1] = x.at[1] => x.at[2] < b[2]
NoneAfter(sh, x) == \A b \in sh[x.turn] : b[1] = x.at[1] => b[2] < x.at[2]
Passed(h, x, c) ==
  \E y \in h : /\ y.turn # x.turn /\ y.at[1] = x.at[1]
               /\ x.at[2] < y.at[2] /\ y.at[2] <= c

(* A snapshot replaced what showed of its turn by a run of events.          *)
Replays(more, sh, turn, p, lo, hi) ==
  \A u \in Turn : more[u] = IF u = turn THEN {<<p, j>> : j \in (lo + 1)..hi}
                            ELSE sh[u]

(* The events that are missing although they came, and are not gone.        *)
Missing(h, gone, sh, x) ==
  /\ x \in h /\ Straight(h, x.turn) /\ x.at \notin gone
  /\ x.at \notin sh[x.turn]

(* Of what this process recorded: what the client has not dealt with is on  *)
(* the way; of what it has, nothing is missing between what shows; and      *)
(* what shows beyond c shows as a whole.  What older processes recorded is  *)
(* not missing between what shows either.                                   *)
Accounted(h, own, c, gone, pend) ==
  \A x \in h : /\ x.at[1] = own /\ x.at[2] > c
               /\ Straight(h, x.turn) /\ x.at \notin gone
               => x.at[2] \in pend
Reached(h, own, c, gone, sh) ==
  \A x \in h : /\ x.at[1] = own /\ x.at[2] <= c /\ Missing(h, gone, sh, x)
               => NoneBefore(sh, x) \/ (NoneAfter(sh, x) /\ Passed(h, x, c))
Ahead(h, own, c, sh) ==
  \A x \in h : /\ x.at[1] = own /\ x.at[2] > c /\ x.at \notin sh[x.turn]
               => \A t \in Turn : \A b \in sh[t] : b[1] = own => b[2] < x.at[2]
Left(h, own, gone, sh) ==
  \A x \in h : x.at[1] < own /\ Missing(h, gone, sh, x)
               => NoneBefore(sh, x) \/ NoneAfter(sh, x)
Bounded(own, n, sh) ==
  \A t \in Turn : \A b \in sh[t] : b[1] <= own /\ (b[1] = own => b[2] <= n)

Covers(h, own, n, c, gone, sh, pend) ==
  /\ Accounted(h, own, c, gone, pend) /\ Reached(h, own, c, gone, sh)
  /\ Ahead(h, own, c, sh) /\ Left(h, own, gone, sh) /\ Bounded(own, n, sh)

(* What a recorded event is numbered with.                                  *)
LEMMA NumberedAt ==
  ASSUME NEW h, NEW own \in Streams, NEW n \in Nat, Numbered(h, own, n),
         NEW x \in h
  PROVE  /\ x \in Event /\ x.turn \in Turn /\ x.at[1] \in Nat
         /\ x.at[2] \in Nat \ {0} /\ x.at[1] <= own
         /\ x.at[1] = own => x.at[2] <= n
         /\ x.at = <<x.at[1], x.at[2]>> /\ own \in Nat
BY EventAt DEF Numbered, Streams

(* What shows is a process and a number of its.                             *)
LEMMA ShownAt ==
  ASSUME NEW sh \in Shows, NEW t \in Turn, NEW b \in sh[t]
  PROVE  b[1] \in Nat /\ b[2] \in Nat \ {0} /\ b = <<b[1], b[2]>>
<1>1. b \in Streams \X (Nat \ {0})
  BY DEF Shows
<1> QED BY <1>1 DEF Streams

(* An event of another turn between two of a turn: it is not in order.      *)
LEMMA NotStraight ==
  ASSUME NEW h, NEW own \in Streams, NEW n \in Nat, Numbered(h, own, n),
         NEW x \in h, NEW y \in h, NEW z \in h, Straight(h, x.turn),
         x.turn = z.turn, y.turn # x.turn,
         x.at[1] = y.at[1], y.at[1] = z.at[1],
         x.at[2] < y.at[2], y.at[2] < z.at[2]
  PROVE  FALSE
<1>1. Before(x.at, y.at) /\ Before(y.at, z.at)
  BY DEF Before
<1>2. Before(x.at, z.at)
  <2>1. x.at[2] \in Nat /\ y.at[2] \in Nat /\ z.at[2] \in Nat
    BY NumberedAt
  <2> QED BY <2>1 DEF Before
<1> QED BY <1>1, <1>2 DEF Straight

(* Less is pending: of what is beyond c, only what is gone.                 *)
LEMMA FewerPending ==
  ASSUME NEW h, NEW own \in Streams, NEW n \in Nat, Numbered(h, own, n),
         NEW c \in Nat, NEW gone, NEW sh, NEW pend, NEW more, NEW left,
         Covers(h, own, n, c, gone, sh, pend), gone \subseteq more,
         \A j \in pend : j > c => j \in left \/ <<own, j>> \in more
  PROVE  Covers(h, own, n, c, more, sh, left)
<1>1. \A x : Missing(h, more, sh, x) => Missing(h, gone, sh, x)
  BY DEF Missing
<1>2. Accounted(h, own, c, more, left)
  <2> SUFFICES ASSUME NEW x \in h, x.at[1] = own, x.at[2] > c,
                      Straight(h, x.turn), x.at \notin more
               PROVE  x.at[2] \in left
    BY DEF Accounted
  <2>1. x.at[2] \in pend
    BY DEF Covers, Accounted
  <2>2. x.at = <<own, x.at[2]>>
    BY NumberedAt
  <2> QED BY <2>1, <2>2
<1>3. Reached(h, own, c, more, sh) /\ Left(h, own, more, sh)
  BY <1>1 DEF Covers, Reached, Left
<1> QED BY <1>2, <1>3 DEF Covers

(* A live event k is painted; nothing before it is pending.                 *)
LEMMA PaintCovers ==
  ASSUME NEW h, NEW own \in Streams, NEW n \in Nat, Numbered(h, own, n),
         NEW c \in Nat, NEW gone, NEW sh \in Shows, NEW pend, NEW left,
         Covers(h, own, n, c, gone, sh, pend),
         NEW k \in 1..n, c < k, NEW e \in h, e.at = <<own, k>>,
         \A j \in pend : j = k \/ (j > k /\ j \in left)
  PROVE  LET more == [sh EXCEPT ![e.turn] = @ \cup {e.at}] IN
         /\ more \in Shows
         /\ Covers(h, own, n, k, gone, more, left)
<1>1. PICK more : more = [sh EXCEPT ![e.turn] = @ \cup {e.at}]
  OBVIOUS
<1>2. /\ e.turn \in Turn /\ e.at \in Streams \X (Nat \ {0})
      /\ e.at[1] = own /\ e.at[2] = k /\ k \in Nat
  BY DEF Numbered, Event
<1>3. /\ more \in Shows
      /\ \A t \in Turn : more[t] = IF t = e.turn THEN sh[t] \cup {e.at}
                                   ELSE sh[t]
  BY <1>1, <1>2 DEF Shows
<1>4. \A x : Missing(h, gone, more, x) => Missing(h, gone, sh, x) /\ x # e
  <2> SUFFICES ASSUME NEW x \in h, x.at \notin more[x.turn]
               PROVE  x.at \notin sh[x.turn] /\ x # e
    BY DEF Missing
  <2>1. x.turn \in Turn
    BY NumberedAt
  <2> QED BY <1>3, <2>1
<1>5. Accounted(h, own, k, gone, left)
  <2> SUFFICES ASSUME NEW x \in h, x.at[1] = own, x.at[2] > k,
                      Straight(h, x.turn), x.at \notin gone
               PROVE  x.at[2] \in left
    BY DEF Accounted
  <2>1. x.at[2] \in Nat
    BY NumberedAt
  <2>2. x.at[2] > c /\ x.at[2] # k
    BY <1>2, <2>1
  <2>3. x.at[2] \in pend
    BY <2>2 DEF Covers, Accounted
  <2> QED BY <2>2, <2>3
<1>6. Reached(h, own, k, gone, more)
  <2> SUFFICES ASSUME NEW x \in h, x.at[1] = own, x.at[2] <= k,
                      Missing(h, gone, more, x)
               PROVE  \/ NoneBefore(more, x)
                      \/ NoneAfter(more, x) /\ Passed(h, x, k)
    BY DEF Reached
  <2>1. Missing(h, gone, sh, x) /\ x # e /\ Straight(h, x.turn)
        /\ x.at \notin gone
    BY <1>4 DEF Missing
  <2>2. x.turn \in Turn /\ x.at[2] \in Nat /\ x.at = <<own, x.at[2]>>
    BY NumberedAt
  <2>3. x.at[2] < k
    <3>1. x.at # e.at
      BY <2>1 DEF Numbered
    <3> QED BY <1>2, <2>2, <3>1
  <2>4. x.at[2] <= c
    <3> SUFFICES ASSUME x.at[2] > c PROVE FALSE
      BY <2>2
    <3>1. x.at[2] \in pend
      BY <2>1 DEF Covers, Accounted
    <3> QED BY <1>2, <2>2, <2>3, <3>1
  <2>5. CASE NoneBefore(sh, x)
    <3>1. \A b \in more[x.turn] : b \in sh[x.turn] \/ b = e.at
      BY <1>3, <2>2
    <3> QED BY <1>2, <2>3, <2>5, <3>1 DEF NoneBefore
  <2>6. CASE NoneAfter(sh, x) /\ Passed(h, x, c)
    <3>1. PICK y \in h : /\ y.turn # x.turn /\ y.at[1] = x.at[1]
                         /\ x.at[2] < y.at[2] /\ y.at[2] <= c
      BY <2>6 DEF Passed
    <3>2. y.at[2] \in Nat /\ y.at[2] < k
      <4>1. y.at[2] \in Nat
        BY NumberedAt
      <4> QED BY <1>2, <3>1, <4>1
    <3>3. e.turn # x.turn
      BY <1>2, <2>1, <3>1, <3>2, NotStraight
    <3>4. more[x.turn] = sh[x.turn]
      BY <1>3, <2>2, <3>3
    <3>5. NoneAfter(more, x)
      BY <2>6, <3>4 DEF NoneAfter
    <3>6. y.at[2] <= k
      BY <1>2, <3>2
    <3>7. Passed(h, x, k)
      BY <3>1, <3>6 DEF Passed
    <3> QED BY <3>5, <3>7
  <2> QED BY <2>1, <2>4, <2>5, <2>6 DEF Covers, Reached
<1>7. Ahead(h, own, k, more)
  <2> SUFFICES ASSUME NEW x \in h, x.at[1] = own, x.at[2] > k,
                      x.at \notin more[x.turn],
                      NEW t \in Turn, NEW b \in more[t], b[1] = own
               PROVE  b[2] < x.at[2]
    BY DEF Ahead
  <2>1. x.turn \in Turn /\ x.at[2] \in Nat
    BY NumberedAt
  <2>2. x.at \notin sh[x.turn] /\ x.at[2] > c
    <3>1. x.at \notin sh[x.turn]
      BY <1>3, <2>1
    <3> QED BY <1>2, <2>1, <3>1
  <2>3. b \in sh[t] \/ b = e.at
    BY <1>3
  <2> QED BY <1>2, <2>1, <2>2, <2>3 DEF Covers, Ahead
<1>8. Left(h, own, gone, more)
  <2> SUFFICES ASSUME NEW x \in h, x.at[1] < own, Missing(h, gone, more, x)
               PROVE  NoneBefore(more, x) \/ NoneAfter(more, x)
    BY DEF Left
  <2>1. NoneBefore(sh, x) \/ NoneAfter(sh, x)
    BY <1>4 DEF Covers, Left
  <2>2. x.turn \in Turn /\ x.at[1] # own
    <3>1. x.at[1] \in Nat /\ own \in Nat /\ x.turn \in Turn
      BY NumberedAt
    <3> QED BY <3>1
  <2>3. \A b \in more[x.turn] : b[1] = x.at[1] => b \in sh[x.turn]
    BY <1>2, <1>3, <2>2
  <2> QED BY <2>1, <2>3 DEF NoneBefore, NoneAfter
<1>9. Bounded(own, n, more)
  <2> SUFFICES ASSUME NEW t \in Turn, NEW b \in more[t]
               PROVE  b[1] <= own /\ (b[1] = own => b[2] <= n)
    BY DEF Bounded
  <2>1. b \in sh[t] \/ b = e.at
    BY <1>3
  <2>2. own <= own
    BY DEF Streams
  <2> QED BY <1>2, <2>1, <2>2 DEF Covers, Bounded
<1> QED BY <1>1, <1>3, <1>5, <1>6, <1>7, <1>8, <1>9 DEF Covers

(* The events after c, up to b, are painted, and stay to be dealt with.     *)
LEMMA BatchCovers ==
  ASSUME NEW h, NEW own \in Streams, NEW n \in Nat, Numbered(h, own, n),
         NEW c \in Nat, NEW gone, NEW sh \in Shows, NEW pend,
         Covers(h, own, n, c, gone, sh, pend),
         NEW b \in Nat, NEW more \in Shows,
         \A t \in Turn : more[t] = sh[t] \cup
           {x.at : x \in {y \in h : /\ y.turn = t /\ y.at[1] = own
                                    /\ c < y.at[2] /\ y.at[2] <= b}}
  PROVE  Covers(h, own, n, c, gone, more, pend)
<1>1. ASSUME NEW t \in Turn, NEW at \in more[t]
      PROVE  \/ at \in sh[t]
             \/ \E y \in h : /\ y.turn = t /\ y.at = at /\ at[1] = own
                             /\ c < at[2] /\ at[2] <= b /\ at[2] <= n
  <2> SUFFICES ASSUME at \notin sh[t]
               PROVE  \E y \in h : /\ y.turn = t /\ y.at = at /\ at[1] = own
                                   /\ c < at[2] /\ at[2] <= b /\ at[2] <= n
    OBVIOUS
  <2>1. PICK y \in h : /\ y.turn = t /\ y.at[1] = own /\ y.at = at
                       /\ c < y.at[2] /\ y.at[2] <= b
    OBVIOUS
  <2> QED BY <2>1, NumberedAt
<1>2. \A x : Missing(h, gone, more, x) => Missing(h, gone, sh, x)
  <2> SUFFICES ASSUME NEW x \in h, x.at \notin more[x.turn]
               PROVE  x.at \notin sh[x.turn]
    BY DEF Missing
  <2>1. x.turn \in Turn
    BY NumberedAt
  <2> QED BY <2>1
<1>3. Reached(h, own, c, gone, more)
  <2> SUFFICES ASSUME NEW x \in h, x.at[1] = own, x.at[2] <= c,
                      Missing(h, gone, more, x)
               PROVE  \/ NoneBefore(more, x)
                      \/ NoneAfter(more, x) /\ Passed(h, x, c)
    BY DEF Reached
  <2>1. x.turn \in Turn /\ x.at[2] \in Nat /\ Straight(h, x.turn)
    BY NumberedAt DEF Missing
  <2>2. CASE NoneBefore(sh, x)
    <3>1. ASSUME NEW at \in more[x.turn], at[1] = x.at[1]
          PROVE  x.at[2] < at[2]
      <4>1. at[2] \in Nat
        BY <2>1, ShownAt
      <4> QED BY <1>1, <2>1, <2>2, <3>1, <4>1 DEF NoneBefore
    <3> QED BY <3>1 DEF NoneBefore
  <2>3. CASE NoneAfter(sh, x) /\ Passed(h, x, c)
    <3>1. PICK y \in h : /\ y.turn # x.turn /\ y.at[1] = x.at[1]
                         /\ x.at[2] < y.at[2] /\ y.at[2] <= c
      BY <2>3 DEF Passed
    <3>2. ASSUME NEW at \in more[x.turn], at \notin sh[x.turn]
          PROVE  FALSE
      <4>1. PICK z \in h : /\ z.turn = x.turn /\ z.at[1] = own
                           /\ c < z.at[2]
        BY <1>1, <2>1, <3>2
      <4>2. y.at[2] \in Nat /\ z.at[2] \in Nat
        BY NumberedAt
      <4>3. y.at[2] < z.at[2]
        BY <3>1, <4>1, <4>2
      <4> QED BY <2>1, <3>1, <4>1, <4>3, NotStraight
    <3> QED BY <2>3, <3>2 DEF NoneAfter
  <2> QED BY <1>2, <2>2, <2>3 DEF Covers, Reached
<1>4. Ahead(h, own, c, more)
  <2> SUFFICES ASSUME NEW x \in h, x.at[1] = own, x.at[2] > c,
                      x.at \notin more[x.turn],
                      NEW t \in Turn, NEW at \in more[t], at[1] = own
               PROVE  at[2] < x.at[2]
    BY DEF Ahead
  <2>1. x.turn \in Turn /\ x.at[2] \in Nat /\ at[2] \in Nat
    BY NumberedAt, ShownAt
  <2>2. x.at[2] > b /\ x.at \notin sh[x.turn]
    BY <2>1
  <2>3. CASE at \in sh[t]
    BY <2>2, <2>3 DEF Covers, Ahead
  <2>4. CASE at \notin sh[t]
    <3>1. at[2] <= b
      BY <1>1, <2>4
    <3> QED BY <2>1, <2>2, <3>1
  <2> QED BY <2>3, <2>4
<1>5. Left(h, own, gone, more)
  <2> SUFFICES ASSUME NEW x \in h, x.at[1] < own, Missing(h, gone, more, x)
               PROVE  NoneBefore(more, x) \/ NoneAfter(more, x)
    BY DEF Left
  <2>1. NoneBefore(sh, x) \/ NoneAfter(sh, x)
    BY <1>2 DEF Covers, Left
  <2>2. x.turn \in Turn /\ x.at[1] # own
    <3>1. x.at[1] \in Nat /\ own \in Nat /\ x.turn \in Turn
      BY NumberedAt
    <3> QED BY <3>1
  <2>3. \A at \in more[x.turn] : at[1] = x.at[1] => at \in sh[x.turn]
    BY <1>1, <2>2
  <2> QED BY <2>1, <2>3 DEF NoneBefore, NoneAfter
<1>6. Bounded(own, n, more)
  <2> SUFFICES ASSUME NEW t \in Turn, NEW at \in more[t]
               PROVE  at[1] <= own /\ (at[1] = own => at[2] <= n)
    BY DEF Bounded
  <2>1. own <= own
    BY DEF Streams
  <2> QED BY <1>1, <2>1 DEF Covers, Bounded
<1> QED BY <1>3, <1>4, <1>5, <1>6 DEF Covers

(* What shows beyond c is dealt with, up to an event that shows.            *)
LEMMA MoveCovers ==
  ASSUME NEW h, NEW own \in Streams, NEW n \in Nat, Numbered(h, own, n),
         NEW c \in Nat, NEW gone, NEW sh \in Shows, NEW pend,
         Covers(h, own, n, c, gone, sh, pend),
         NEW b \in Nat, c <= b, NEW t \in Turn, <<own, b>> \in sh[t]
  PROVE  Covers(h, own, n, b, gone, sh, pend)
<1>1. PICK newest \in sh[t] : newest[1] = own /\ newest[2] = b
  OBVIOUS
<1>2. Accounted(h, own, b, gone, pend)
  <2> SUFFICES ASSUME NEW x \in h, x.at[1] = own, x.at[2] > b,
                      Straight(h, x.turn), x.at \notin gone
               PROVE  x.at[2] \in pend
    BY DEF Accounted
  <2>1. x.at[2] \in Nat
    BY NumberedAt
  <2>2. x.at[2] > c
    BY <2>1
  <2> QED BY <2>2 DEF Covers, Accounted
<1>3. Reached(h, own, b, gone, sh)
  <2> SUFFICES ASSUME NEW x \in h, x.at[1] = own, x.at[2] <= b,
                      Missing(h, gone, sh, x)
               PROVE  \/ NoneBefore(sh, x)
                      \/ NoneAfter(sh, x) /\ Passed(h, x, b)
    BY DEF Reached
  <2>1. x.at[2] \in Nat /\ x.at \notin sh[x.turn]
    BY NumberedAt DEF Missing
  <2>2. CASE x.at[2] > c
    <3>1. newest[2] < x.at[2]
      BY <1>1, <2>1, <2>2 DEF Covers, Ahead
    <3> QED BY <1>1, <2>1, <3>1
  <2>3. CASE x.at[2] <= c
    <3>1. Passed(h, x, c) => Passed(h, x, b)
      <4> SUFFICES ASSUME NEW y \in h, y.at[2] <= c
                   PROVE  y.at[2] <= b
        BY DEF Passed
      <4>1. y.at[2] \in Nat
        BY NumberedAt
      <4> QED BY <4>1
    <3> QED BY <2>3, <3>1 DEF Covers, Reached
  <2> QED BY <2>1, <2>2, <2>3
<1>4. Ahead(h, own, b, sh)
  <2> SUFFICES ASSUME NEW x \in h, x.at[1] = own, x.at[2] > b,
                      x.at \notin sh[x.turn],
                      NEW u \in Turn, NEW at \in sh[u], at[1] = own
               PROVE  at[2] < x.at[2]
    BY DEF Ahead
  <2>1. x.at[2] \in Nat
    BY NumberedAt
  <2>2. x.at[2] > c
    BY <2>1
  <2> QED BY <2>2 DEF Covers, Ahead
<1> QED BY <1>2, <1>3, <1>4 DEF Covers


(* A turn is replayed from a snapshot at q: a run of its events that ends   *)
(* there.  Of the other turns something else came after what is not shown.  *)
LEMMA SnapshotCovers ==
  ASSUME NEW h, NEW own \in Streams, NEW n \in Nat, Numbered(h, own, n),
         NEW c \in Nat, NEW gone, NEW sh \in Shows, NEW pend,
         Covers(h, own, n, c, gone, sh, pend),
         NEW q \in Nat, c <= q, q <= n, NEW turn \in Turn,
         NEW lo \in 0..q, NEW more \in Shows,
         Replays(more, sh, turn, own, lo, q),
         \A u \in Turn : \A b \in sh[u] : b[1] = own => b[2] <= q,
         \A x \in h : /\ x.at[1] = own /\ x.at[2] <= q /\ x.turn # turn
                      /\ Straight(h, x.turn)
                      => Passed(h, x, q)
  PROVE  Covers(h, own, n, q, gone, more, pend)
<1> USE DEF Replays
<1>0. own \in Nat /\ \A b \in more[turn] : /\ b[1] = own /\ b[2] \in Nat
                                           /\ lo < b[2] /\ b[2] <= q
  <2>1. own \in Nat
    BY DEF Streams
  <2>2. more[turn] = {<<own, j>> : j \in (lo + 1)..q}
    OBVIOUS
  <2>3. \A j \in (lo + 1)..q : j \in Nat /\ lo < j /\ j <= q
    OBVIOUS
  <2> QED BY <2>1, <2>2, <2>3
<1>1. Accounted(h, own, q, gone, pend)
  <2> SUFFICES ASSUME NEW x \in h, x.at[1] = own, x.at[2] > q,
                      Straight(h, x.turn), x.at \notin gone
               PROVE  x.at[2] \in pend
    BY DEF Accounted
  <2>1. x.at[2] \in Nat
    BY NumberedAt
  <2>2. x.at[2] > c
    BY <2>1
  <2> QED BY <2>2 DEF Covers, Accounted
<1>2. Reached(h, own, q, gone, more)
  <2> SUFFICES ASSUME NEW x \in h, x.at[1] = own, x.at[2] <= q,
                      Missing(h, gone, more, x)
               PROVE  \/ NoneBefore(more, x)
                      \/ NoneAfter(more, x) /\ Passed(h, x, q)
    BY DEF Reached
  <2>1. /\ x.at[2] \in Nat /\ x.at = <<own, x.at[2]>> /\ x.turn \in Turn
        /\ x.at \notin more[x.turn] /\ Straight(h, x.turn)
        /\ x.at \notin gone
    BY NumberedAt, ZenonT(30) DEF Missing
  <2>2. CASE x.turn = turn
    <3>1. ~(x.at[2] \in (lo + 1)..q)
      BY <2>1, <2>2
    <3>2. x.at[2] <= lo
      BY <2>1, <3>1
    <3>3. \A b \in more[x.turn] : x.at[2] < b[2]
      BY <1>0, <2>1, <2>2, <3>2
    <3> QED BY <3>3 DEF NoneBefore
  <2>3. CASE x.turn # turn
    <3>1. more[x.turn] = sh[x.turn] /\ Missing(h, gone, sh, x)
      BY <2>1, <2>3 DEF Missing
    <3>2. Passed(h, x, q)
      BY <2>1, <2>3
    <3>3. CASE x.at[2] <= c
      BY <3>1, <3>2, <3>3 DEF Covers, Reached, NoneBefore, NoneAfter
    <3>4. CASE x.at[2] > c
      <4>1. \A b \in sh[x.turn] : b[1] = own => b[2] < x.at[2]
        BY <2>1, <3>1, <3>4 DEF Covers, Ahead
      <4> QED BY <3>1, <3>2, <4>1 DEF NoneAfter
    <3> QED BY <2>1, <3>3, <3>4
  <2> QED BY <2>2, <2>3
<1>3. Ahead(h, own, q, more)
  <2> SUFFICES ASSUME NEW x \in h, x.at[1] = own, x.at[2] > q,
                      NEW u \in Turn, NEW b \in more[u], b[1] = own
               PROVE  b[2] < x.at[2]
    BY DEF Ahead
  <2>1. x.at[2] \in Nat /\ b[2] \in Nat
    BY NumberedAt, ShownAt
  <2>2. b[2] <= q
    BY <1>0
  <2> QED BY <2>1, <2>2
<1>4. Left(h, own, gone, more)
  <2> SUFFICES ASSUME NEW x \in h, x.at[1] < own, Missing(h, gone, more, x)
               PROVE  NoneBefore(more, x) \/ NoneAfter(more, x)
    BY DEF Left
  <2>1. x.at[1] # own /\ x.turn \in Turn
    <3>1. x.at[1] \in Nat /\ x.turn \in Turn
      BY NumberedAt
    <3> QED BY <1>0, <3>1
  <2>2. CASE x.turn = turn
    <3>1. \A b \in more[x.turn] : b[1] # x.at[1]
      BY <1>0, <2>1, <2>2
    <3> QED BY <3>1 DEF NoneBefore
  <2>3. CASE x.turn # turn
    <3>1. more[x.turn] = sh[x.turn]
      BY <2>1, <2>3
    <3> QED BY <3>1 DEF Covers, Left, Missing, NoneBefore, NoneAfter
  <2> QED BY <2>2, <2>3
<1>5. Bounded(own, n, more)
  <2> SUFFICES ASSUME NEW u \in Turn, NEW b \in more[u]
               PROVE  b[1] <= own /\ (b[1] = own => b[2] <= n)
    BY DEF Bounded
  <2>1. CASE u = turn
    <3>1. b[1] = own /\ b[2] <= q /\ b[2] \in Nat
      BY <1>0, <2>1
    <3>2. own <= own /\ b[2] <= n
      BY <1>0, <3>1
    <3> QED BY <3>1, <3>2
  <2>2. CASE u # turn
    <3>1. b \in sh[u]
      BY <2>2
    <3> QED BY <3>1 DEF Covers, Bounded
  <2> QED BY <2>1, <2>2
<1> QED BY <1>1, <1>2, <1>3, <1>4, <1>5 DEF Covers

(* A turn is replayed from what an older process logged, while nothing of   *)
(* this one is on screen.                                                   *)
LEMMA OlderCovers ==
  ASSUME NEW h, NEW own \in Streams, NEW n \in Nat, Numbered(h, own, n),
         NEW gone, NEW sh \in Shows, NEW pend,
         Covers(h, own, n, 0, gone, sh, pend),
         NEW p \in Streams, p < own, NEW turn \in Turn,
         NEW lo \in Nat, NEW hi \in Nat, NEW more \in Shows,
         Replays(more, sh, turn, p, lo, hi),
         \A u \in Turn : \A b \in sh[u] : b[1] # own
  PROVE  Covers(h, own, n, 0, gone, more, pend)
<1> USE DEF Replays
<1>0. /\ own \in Nat /\ p \in Nat
      /\ \A b \in more[turn] : /\ b[1] = p /\ b[2] \in Nat
                               /\ lo < b[2] /\ b[2] <= hi
  <2>1. own \in Nat /\ p \in Nat
    BY DEF Streams
  <2>2. more[turn] = {<<p, j>> : j \in (lo + 1)..hi}
    OBVIOUS
  <2>3. \A j \in (lo + 1)..hi : j \in Nat /\ lo < j /\ j <= hi
    OBVIOUS
  <2> QED BY <2>1, <2>2, <2>3
<1>1. Reached(h, own, 0, gone, more)
  <2>1. \A x \in h : ~(x.at[2] <= 0)
    <3> SUFFICES ASSUME NEW x \in h PROVE ~(x.at[2] <= 0)
      OBVIOUS
    <3>1. x.at[2] \in Nat \ {0}
      BY NumberedAt
    <3> QED BY <3>1
  <2> QED BY <2>1 DEF Reached
<1>2. \A u \in Turn : \A b \in more[u] :
        b[1] # own /\ (b[1] = p \/ b \in sh[u])
  <2> SUFFICES ASSUME NEW u \in Turn, NEW b \in more[u]
               PROVE  b[1] # own /\ (b[1] = p \/ b \in sh[u])
    OBVIOUS
  <2>1. CASE u = turn
    <3>1. b[1] = p /\ p # own
      BY <1>0, <2>1
    <3> QED BY <3>1
  <2>2. CASE u # turn
    BY <2>2
  <2> QED BY <2>1, <2>2
<1>3. Ahead(h, own, 0, more)
  BY <1>2 DEF Ahead
<1>4. Left(h, own, gone, more)
  <2> SUFFICES ASSUME NEW x \in h, x.at[1] < own, Missing(h, gone, more, x)
               PROVE  NoneBefore(more, x) \/ NoneAfter(more, x)
    BY DEF Left
  <2>1. /\ x.at[2] \in Nat /\ x.at = <<x.at[1], x.at[2]>> /\ x.turn \in Turn
        /\ x.at \notin more[x.turn]
    BY NumberedAt DEF Missing
  <2>2. CASE x.turn = turn /\ x.at[1] = p
    <3>1. ~(x.at[2] \in (lo + 1)..hi)
      BY <2>1, <2>2
    <3>2. x.at[2] <= lo \/ hi < x.at[2]
      BY <2>1, <3>1
    <3>3. \/ \A b \in more[x.turn] : x.at[2] < b[2]
          \/ \A b \in more[x.turn] : b[2] < x.at[2]
      BY <1>0, <2>1, <2>2, <3>2
    <3> QED BY <3>3 DEF NoneBefore, NoneAfter
  <2>3. CASE x.turn = turn /\ x.at[1] # p
    <3>1. \A b \in more[x.turn] : b[1] # x.at[1]
      BY <1>0, <2>1, <2>3
    <3> QED BY <3>1 DEF NoneBefore
  <2>4. CASE x.turn # turn
    <3>1. more[x.turn] = sh[x.turn]
      BY <2>1, <2>4
    <3> QED BY <3>1 DEF Covers, Left, Missing, NoneBefore, NoneAfter
  <2> QED BY <2>2, <2>3, <2>4
<1>5. Bounded(own, n, more)
  <2> SUFFICES ASSUME NEW u \in Turn, NEW b \in more[u]
               PROVE  b[1] <= own
    BY <1>2 DEF Bounded
  <2>1. p <= own
    BY <1>0
  <2> QED BY <1>2, <2>1 DEF Covers, Bounded
<1> QED BY <1>1, <1>3, <1>4, <1>5 DEF Covers

(* The process ends: what was pending is not to come any more.              *)
LEMMA RestartCovers ==
  ASSUME NEW h, NEW own \in Streams, NEW n \in Nat, Numbered(h, own, n),
         NEW c \in Nat, NEW gone, NEW sh \in Shows, NEW pend, NEW more,
         NEW left, Covers(h, own, n, c, gone, sh, pend), gone \subseteq more
  PROVE  Covers(h, own + 1, 0, 0, more, sh, left)
<1>1. /\ own \in Nat
      /\ \A x \in h : /\ x.at[1] \in Nat /\ x.at[1] # own + 1
                      /\ x.at[1] < own \/ x.at[1] = own
  <2> SUFFICES ASSUME NEW x \in h
               PROVE  /\ x.at[1] \in Nat /\ x.at[1] # own + 1
                      /\ x.at[1] < own \/ x.at[1] = own
    BY DEF Streams
  <2>1. x.at[1] \in Nat /\ own \in Nat /\ x.at[1] <= own
    BY NumberedAt
  <2> QED BY <2>1
<1>2. /\ Accounted(h, own + 1, 0, more, left)
      /\ Reached(h, own + 1, 0, more, sh) /\ Ahead(h, own + 1, 0, sh)
  BY <1>1 DEF Accounted, Reached, Ahead
<1>3. Left(h, own + 1, more, sh)
  <2> SUFFICES ASSUME NEW x \in h, Missing(h, more, sh, x)
               PROVE  NoneBefore(sh, x) \/ NoneAfter(sh, x)
    BY DEF Left
  <2>1. Missing(h, gone, sh, x) /\ x.at \notin sh[x.turn]
    BY DEF Missing
  <2>2. CASE x.at[1] < own
    BY <2>1, <2>2 DEF Covers, Left
  <2>3. CASE x.at[1] = own /\ x.at[2] <= c
    BY <2>1, <2>3 DEF Covers, Reached
  <2>4. CASE x.at[1] = own /\ x.at[2] > c
    <3>1. x.turn \in Turn
      BY NumberedAt
    <3>2. \A b \in sh[x.turn] : b[1] = own => b[2] < x.at[2]
      BY <2>1, <2>4, <3>1 DEF Covers, Ahead
    <3> QED BY <2>4, <3>2 DEF NoneAfter
  <2>5. x.at[2] \in Nat
    BY NumberedAt
  <2> QED BY <1>1, <2>2, <2>3, <2>4, <2>5
<1>4. Bounded(own + 1, 0, sh)
  <2> SUFFICES ASSUME NEW t \in Turn, NEW b \in sh[t]
               PROVE  b[1] <= own + 1 /\ b[1] # own + 1
    BY DEF Bounded
  <2>1. b[1] \in Nat /\ b[1] <= own
    BY ShownAt DEF Covers, Bounded
  <2> QED BY <1>1, <2>1
<1> QED BY <1>2, <1>3, <1>4 DEF Covers

(* Another event is recorded, and sets off.                                 *)
LEMMA RecordCovers ==
  ASSUME NEW h, NEW own \in Streams, NEW n \in Nat, Numbered(h, own, n),
         NEW c \in 0..n, NEW gone, NEW sh \in Shows, NEW pend, NEW left,
         Covers(h, own, n, c, gone, sh, pend),
         NEW e \in Event, e.at = <<own, n + 1>>,
         pend \cup {n + 1} \subseteq left
  PROVE  /\ Numbered(h \cup {e}, own, n + 1)
         /\ \A t : Straight(h \cup {e}, t) => Straight(h, t)
         /\ Covers(h \cup {e}, own, n + 1, c, gone, sh, left)
<1> DEFINE g == h \cup {e}
<1>0. /\ own \in Nat /\ e.at[1] = own /\ e.at[2] = n + 1
      /\ \A x \in h : /\ x.at[2] \in Nat /\ x.at # e.at /\ x.at[1] <= own
                      /\ x.at[1] = own => x.at[2] <= n
  <2> SUFFICES ASSUME NEW x \in h
               PROVE  /\ x.at[2] \in Nat /\ x.at # e.at /\ x.at[1] <= own
                      /\ x.at[1] = own => x.at[2] <= n
    BY DEF Streams
  <2>1. x.at[2] \in Nat /\ x.at[1] <= own /\ (x.at[1] = own => x.at[2] <= n)
    BY NumberedAt
  <2> QED BY <2>1
<1>1. Numbered(g, own, n + 1)
  <2>1. \A x \in g : x.at[1] <= own /\ (x.at[1] = own => x.at[2] <= n + 1)
    BY <1>0
  <2>2. \A x, y \in g : x.at = y.at => x = y
    BY <1>0 DEF Numbered
  <2> QED BY <2>1, <2>2 DEF Numbered
<1>2. \A t : Straight(g, t) => Straight(h, t)
  BY DEF Straight
<1>3. \A x \in h : Missing(g, gone, sh, x) => Missing(h, gone, sh, x)
  BY <1>2 DEF Missing
<1>4. Accounted(g, own, c, gone, left)
  <2> SUFFICES ASSUME NEW x \in g, x.at[1] = own, x.at[2] > c,
                      Straight(g, x.turn), x.at \notin gone
               PROVE  x.at[2] \in left
    BY DEF Accounted
  <2>1. CASE x \in h
    BY <1>2, <2>1 DEF Covers, Accounted
  <2>2. CASE x = e
    BY <1>0, <2>2
  <2> QED BY <2>1, <2>2
<1>5. Reached(g, own, c, gone, sh)
  <2> SUFFICES ASSUME NEW x \in g, x.at[1] = own, x.at[2] <= c,
                      Missing(g, gone, sh, x)
               PROVE  \/ NoneBefore(sh, x)
                      \/ NoneAfter(sh, x) /\ Passed(g, x, c)
    BY DEF Reached
  <2>1. x # e
    BY <1>0
  <2>2. Passed(h, x, c) => Passed(g, x, c)
    BY DEF Passed
  <2> QED BY <1>3, <2>1, <2>2 DEF Covers, Reached
<1>6. Ahead(g, own, c, sh)
  <2> SUFFICES ASSUME NEW x \in g, x.at[1] = own, x.at[2] > c,
                      x.at \notin sh[x.turn],
                      NEW t \in Turn, NEW b \in sh[t], b[1] = own
               PROVE  b[2] < x.at[2]
    BY DEF Ahead
  <2>1. CASE x \in h
    BY <2>1 DEF Covers, Ahead
  <2>2. CASE x = e
    <3>1. b[2] <= n /\ b[2] \in Nat
      BY ShownAt DEF Covers, Bounded
    <3> QED BY <1>0, <2>2, <3>1
  <2> QED BY <2>1, <2>2
<1>7. Left(g, own, gone, sh)
  <2> SUFFICES ASSUME NEW x \in g, x.at[1] < own, Missing(g, gone, sh, x)
               PROVE  NoneBefore(sh, x) \/ NoneAfter(sh, x)
    BY DEF Left
  <2>1. x # e
    BY <1>0
  <2> QED BY <1>3, <2>1 DEF Covers, Left
<1>8. Bounded(own, n + 1, sh)
  <2> SUFFICES ASSUME NEW t \in Turn, NEW b \in sh[t]
               PROVE  b[1] <= own /\ (b[1] = own => b[2] <= n + 1)
    BY DEF Bounded
  <2>1. b[2] \in Nat
    BY ShownAt
  <2> QED BY <2>1 DEF Covers, Bounded
<1> QED BY <1>1, <1>2, <1>4, <1>5, <1>6, <1>7, <1>8 DEF Covers

(* Between what shows of a turn nothing is missing but what is gone.        *)
LEMMA NoHole ==
  ASSUME NEW h, NEW own \in Streams, NEW n \in Nat, Numbered(h, own, n),
         NEW c \in Nat, NEW gone, NEW sh \in Shows, NEW pend,
         Covers(h, own, n, c, gone, sh, pend),
         NEW x \in h, Straight(h, x.turn), x.at \notin sh[x.turn],
         NEW a \in sh[x.turn], NEW b \in sh[x.turn],
         a[1] = x.at[1], b[1] = x.at[1], a[2] < x.at[2], x.at[2] < b[2]
  PROVE  x.at \in gone
<1> SUFFICES ASSUME x.at \notin gone PROVE FALSE
  OBVIOUS
<1>1. Missing(h, gone, sh, x)
  BY DEF Missing
<1>2. /\ x.at[2] \in Nat /\ x.turn \in Turn
      /\ x.at[1] < own \/ x.at[1] = own
  <2>1. /\ x.at[1] \in Nat /\ own \in Nat /\ x.at[1] <= own
        /\ x.at[2] \in Nat /\ x.turn \in Turn
    BY NumberedAt
  <2> QED BY <2>1
<1>3. a[2] \in Nat /\ b[2] \in Nat
  BY <1>2, ShownAt
<1>4. ~NoneBefore(sh, x) /\ ~NoneAfter(sh, x)
  <2>1. ~(x.at[2] < a[2]) /\ ~(b[2] < x.at[2])
    BY <1>2, <1>3
  <2> QED BY <2>1 DEF NoneBefore, NoneAfter
<1>5. CASE x.at[1] = own /\ x.at[2] > c
  <2>1. b[2] < x.at[2]
    BY <1>2, <1>5 DEF Covers, Ahead
  <2> QED BY <1>2, <1>3, <2>1
<1>6. CASE x.at[1] = own /\ x.at[2] <= c
  BY <1>1, <1>4, <1>6 DEF Covers, Reached
<1>7. CASE x.at[1] < own
  BY <1>1, <1>4, <1>7 DEF Covers, Left
<1> QED BY <1>2, <1>5, <1>6, <1>7

-----------------------------------------------------------------------------
(* Runs of events: a projection ends with the newest event of its process,  *)
(* and a log has no gaps within what one process wrote.                     *)

RunsTo(events, p, hi) ==
  /\ Len(events) <= hi
  /\ \A i \in 1..Len(events) : events[i].at = <<p, (hi - Len(events)) + i>>
LogRuns(lines) ==
  \A i, j \in 1..Len(lines) :
    /\ j = i + 1 /\ lines[i] # Torn /\ lines[j] # Torn
    /\ lines[i].stream = lines[j].stream
    => lines[j].event.at[2] = lines[i].event.at[2] + 1
LogEnds(lines, own, k) ==
  \A i \in 1..Len(lines) :
    i = Len(lines) /\ lines[i] # Torn /\ lines[i].stream = own
    => lines[i].event.at[2] = k

(* Every process numbers the events of a session as it records them.        *)
AllAreNumbered ==
  \A s \in Session, p \in Streams : \A i \in 1..Len(history[s][p]) :
    history[s][p][i].at = <<p, i>>

(* A projection is of the turn of the newest event.                         *)
ContentRuns ==
  \A s \in Session :
    /\ RunsTo(sessions[s].events, stream, Len(Recorded(s)))
    /\ sessions[s].turn # NoTurn =>
         /\ Len(Recorded(s)) > 0
         /\ Recorded(s)[Len(Recorded(s))].turn = sessions[s].turn

(* A log ends with the newest event, or with the one before if that is      *)
(* being stored.                                                            *)
Unstored(s) == \E i \in 1..Len(storing) : storing[i].session = s
LogsRun ==
  \A s \in Session :
    /\ LogRuns(disk[s])
    /\ Unstored(s) => LogEnds(disk[s], stream, Len(Recorded(s)) - 1)
    /\ ~Unstored(s) => LogEnds(disk[s], stream, Len(Recorded(s)))

(* A turn that sent an event has started; when a turn starts, every earlier *)
(* one has begun.                                                           *)
TurnsBegin ==
  \A s \in Session :
    /\ \A x \in EventsOf(s) : Did(s, x.turn, "started")
    /\ \A y \in EventsOf(s) : y.kind = "started" =>
         \A t \in Turn : t < y.turn =>
           \E a \in EventsOf(s) : a.turn = t /\ Before(a.at, y.at)

JournalRuns == AllAreNumbered /\ ContentRuns /\ LogsRun /\ TurnsBegin

(* A run goes on with the next event.                                       *)
LEMMA RunAppend ==
  ASSUME NEW events \in Seq(Event), NEW p, NEW hi \in Nat,
         RunsTo(events, p, hi), NEW e \in Event, e.at = <<p, hi + 1>>
  PROVE  RunsTo(Append(events, e), p, hi + 1)
<1>1. PICK x \in Seq(Event), n \in Nat :
        /\ x = Append(events, e) /\ n = Len(events) /\ Len(x) = n + 1
        /\ x[n + 1] = e /\ \A i \in 1..n : x[i] = events[i]
  BY Appended
<1>2. ASSUME NEW i \in 1..(n + 1)
      PROVE  x[i].at = <<p, ((hi + 1) - (n + 1)) + i>>
  <2>1. (hi + 1) - (n + 1) = hi - n
    OBVIOUS
  <2>2. CASE i = n + 1
    <3>1. (hi - n) + i = hi + 1
      BY <2>2
    <3> QED BY <1>1, <2>1, <2>2, <3>1
  <2>3. CASE i # n + 1
    <3>1. i \in 1..n
      BY <2>3
    <3>2. x[i].at = <<p, (hi - n) + i>>
      BY <1>1, <3>1 DEF RunsTo
    <3> QED BY <2>1, <3>2
  <2> QED BY <2>2, <2>3
<1>3. n + 1 <= hi + 1
  BY <1>1 DEF RunsTo
<1> QED BY <1>1, <1>2, <1>3 DEF RunsTo

(* Nothing is a run, and a log without gaps.                                *)
LEMMA NothingRuns ==
  ASSUME NEW p, NEW hi \in Nat
  PROVE  RunsTo(<<>>, p, hi) /\ LogRuns(<<>>) /\ LogEnds(<<>>, p, hi)
<1>1. Len(<<>>) = 0 /\ \A i \in 1..Len(<<>>) : FALSE
  BY EmptySeq
<1> QED BY <1>1 DEF RunsTo, LogRuns, LogEnds

(* The projection of an event more is a run to it.                          *)
LEMMA ProjectedRuns ==
  ASSUME NEW p \in Projection, Len(p.tail) <= MaxTail, NEW e \in Event,
         NEW m \in Nat, NEW own, NEW n \in Nat, RunsTo(p.events, own, n),
         e.at = <<own, n + 1>>
  PROVE  LET q == Projected(p, e, m) IN
         /\ q \in Projection /\ q.turn = e.turn
         /\ RunsTo(q.events, own, n + 1)
<1>1. PICK ev \in Seq(Event) :
        ev = (IF p.turn # e.turn THEN <<>> ELSE p.events)
        /\ RunsTo(ev, own, n)
  <2>1. <<>> \in Seq(Event) /\ p.events \in Seq(Event)
    BY EmptySeq DEF Projection
  <2> QED BY <2>1, NothingRuns
<1>2. RunsTo(Append(ev, e), own, n + 1)
  BY <1>1, RunAppend
<1>3. /\ Projected(p, e, m) \in Projection /\ Projected(p, e, m).turn = e.turn
      /\ Projected(p, e, m).events = Append(ev, e)
  <2>1. Projected(p, e, m) \in Projection
    BY ProjectedFacts, Zenon
  <2>2. Projected(p, e, m).turn = e.turn
    BY ProjectedFacts, Zenon
  <2>3. Projected(p, e, m).events =
          Append(IF p.turn # e.turn THEN <<>> ELSE p.events, e)
    BY ProjectedFacts, Zenon
  <2> QED BY <1>1, <2>1, <2>2, <2>3
<1> QED BY <1>2, <1>3

(* Pruning empties a projection or keeps it.                                *)
LEMMA PrunedRuns ==
  ASSUME NEW q \in Projection, NEW p \in Pruned(q), NEW own, NEW n \in Nat,
         RunsTo(q.events, own, n)
  PROVE  RunsTo(p.events, own, n) /\ p.turn \in {q.turn, NoTurn}
<1>1. CASE p = q
  BY <1>1
<1>2. CASE p = ClearReplayContent(q)
  <2>1. p.events = <<>> /\ p.turn = NoTurn
    BY <1>2, ClearedType
  <2> QED BY <2>1, NothingRuns
<1> QED BY <1>1, <1>2 DEF Pruned

(* Recording an event continues the run of its session.                     *)
LEMMA RecordKeepsRuns ==
  ASSUME JournalTypeOK, JournalIsRight, JournalRuns,
         NEW s \in Session, NEW t \in Turn, NEW k \in Kind, Record(s, t, k)
  PROVE  ContentRuns' /\ LogsRun' /\ AllAreNumbered'
<1>1. PICK e \in Event :
        /\ e.at = <<stream, Len(Recorded(s)) + 1>> /\ e.turn = t
        /\ history' = [history EXCEPT ![s][stream] = Append(Recorded(s), e)]
        /\ Recorded(s)' = Append(Recorded(s), e)
        /\ \A u \in Session : u # s => Recorded(u)' = Recorded(u)
        /\ \A u \in Session :
             sessions'[u] \in
               Pruned(IF u = s THEN Projected(sessions[s], e, sequence)
                               ELSE sessions[u])
        /\ \E op \in {"append", "discard"}, line \in Line :
             storing' = <<[op |-> op, session |-> s, line |-> line]>>
        /\ UNCHANGED <<stream, disk>>
  BY RecordFacts
<1>2. PICK r \in Seq(Event), n \in Nat, x \in Seq(Event) :
        /\ r = Recorded(s) /\ n = Len(r) /\ x = Recorded(s)'
        /\ Len(x) = n + 1 /\ x[n + 1] = e /\ \A i \in 1..n : x[i] = r[i]
  <2>1. PICK r \in Seq(Event) : r = Recorded(s)
    BY DEF JournalTypeOK, Recorded
  <2>2. PICK x \in Seq(Event), n \in Nat :
          /\ x = Append(r, e) /\ n = Len(r) /\ Len(x) = n + 1
          /\ x[n + 1] = e /\ \A i \in 1..n : x[i] = r[i]
    BY Appended
  <2> QED BY <1>1, <2>1, <2>2
<1>3. /\ stream \in Streams /\ sequence \in Nat
      /\ \A u \in Session : /\ sessions[u] \in Projection
                            /\ Len(sessions[u].tail) <= MaxTail
                            /\ Len(Recorded(u)) \in Nat
  BY LenProperties DEF JournalTypeOK, Recorded
<1>4. ASSUME NEW u \in Session
      PROVE  /\ RunsTo(sessions'[u].events, stream, Len(Recorded(u)'))
             /\ sessions'[u].turn # NoTurn =>
                  /\ Len(Recorded(u)') > 0
                  /\ Recorded(u)'[Len(Recorded(u)')].turn = sessions'[u].turn
  <2>1. CASE u = s
    <3>1. PICK q \in Projection :
            /\ sessions'[s] \in Pruned(q) /\ q.turn = e.turn
            /\ RunsTo(q.events, stream, n + 1)
      <4>1. PICK p \in Projection, m \in Nat :
              /\ p = sessions[s] /\ m = sequence
              /\ Len(p.tail) <= MaxTail /\ RunsTo(p.events, stream, n)
        BY <1>2, <1>3 DEF JournalRuns, ContentRuns
      <4>2. e.at = <<stream, n + 1>>
        BY <1>1, <1>2
      <4>3. /\ Projected(p, e, m) \in Projection
            /\ Projected(p, e, m).turn = e.turn
            /\ RunsTo(Projected(p, e, m).events, stream, n + 1)
        BY <4>1, <4>2, ProjectedRuns
      <4> QED BY <1>1, <4>1, <4>3
    <3>2. /\ RunsTo(sessions'[s].events, stream, n + 1)
          /\ sessions'[s].turn \in {e.turn, NoTurn}
      <4>1. n + 1 \in Nat
        OBVIOUS
      <4> QED BY <3>1, <4>1, PrunedRuns
    <3>3. n + 1 > 0
      OBVIOUS
    <3> QED BY <1>2, <2>1, <3>2, <3>3
  <2>2. CASE u # s
    <3>1. /\ RunsTo(sessions'[u].events, stream, Len(Recorded(u)))
          /\ sessions'[u].turn \in {sessions[u].turn, NoTurn}
      <4>1. PICK q \in Projection, m \in Nat :
              /\ q = sessions[u] /\ sessions'[u] \in Pruned(q)
              /\ m = Len(Recorded(u)) /\ RunsTo(q.events, stream, m)
        BY <1>1, <1>3, <2>2 DEF JournalRuns, ContentRuns
      <4> QED BY <4>1, PrunedRuns
    <3> QED BY <1>1, <2>2, <3>1 DEF JournalRuns, ContentRuns
  <2> QED BY <2>1, <2>2
<1>5. ContentRuns'
  BY <1>1, <1>4 DEF ContentRuns
<1>6. storing = <<>> /\ \A u \in Session : Unstored(u)' <=> u = s
  <2>1. PICK op, line :
          storing' = <<[op |-> op, session |-> s, line |-> line]>>
    BY <1>1
  <2>2. PICK o : o = [op |-> op, session |-> s, line |-> line]
    OBVIOUS
  <2>3. Len(storing') = 1 /\ storing'[1] = o /\ o.session = s
    BY <2>1, <2>2
  <2>4. \A i \in 1..Len(storing') : i = 1
    BY <2>3
  <2>5. 1 \in 1..Len(storing')
    BY <2>3
  <2> QED BY <2>3, <2>4, <2>5 DEF Record, Unstored
<1>7. \A u \in Session : ~Unstored(u)
  <2>1. \A i \in 1..Len(<<>>) : FALSE
    BY EmptySeq
  <2> QED BY <1>6, <2>1 DEF Unstored
<1>8. LogsRun'
  <2>1. Len(Recorded(s)') - 1 = Len(Recorded(s))
    BY <1>2
  <2>2. ASSUME NEW u \in Session
        PROVE  /\ LogRuns(disk[u])
               /\ u = s => LogEnds(disk[u], stream, Len(Recorded(u)') - 1)
               /\ u # s => LogEnds(disk[u], stream, Len(Recorded(u)'))
    <3>1. LogRuns(disk[u]) /\ LogEnds(disk[u], stream, Len(Recorded(u)))
      BY <1>7 DEF JournalRuns, LogsRun
    <3> QED BY <1>1, <2>1, <3>1
  <2> QED BY <1>1, <1>6, <2>2 DEF LogsRun
<1>9. AllAreNumbered'
  <2>1. history \in [Session -> [Streams -> Seq(Event)]]
    BY DEF JournalTypeOK
  <2>2. ASSUME NEW u \in Session, NEW p \in Streams
        PROVE  \A i \in 1..Len(history'[u][p]) :
                 history'[u][p][i].at = <<p, i>>
    <3>1. CASE u = s /\ p = stream
      <4>1. history'[u][p] = x
        BY <1>1, <1>2, <1>3, <2>1, <3>1 DEF Recorded
      <4>2. \A i \in 1..n : r[i].at = <<stream, i>>
        BY <1>2, <1>3 DEF JournalRuns, AllAreNumbered, Recorded
      <4>3. \A i \in 1..(n + 1) : i \in 1..n \/ i = n + 1
        OBVIOUS
      <4>4. e.at = <<stream, n + 1>>
        BY <1>1, <1>2
      <4> QED BY <1>2, <3>1, <4>1, <4>2, <4>3, <4>4
    <3>2. CASE ~(u = s /\ p = stream)
      <4>1. history'[u][p] = history[u][p]
        BY <1>1, <1>3, <2>1, <3>2
      <4> QED BY <4>1 DEF JournalRuns, AllAreNumbered
    <3> QED BY <3>1, <3>2
  <2> QED BY <2>2 DEF AllAreNumbered
<1> QED BY <1>5, <1>8, <1>9

(* The events of a session are those its processes numbered.                *)
LEMMA EventsNumbered ==
  ASSUME JournalTypeOK, TailsAreSuffixes, AllAreNumbered, NEW s \in Session
  PROVE  /\ Numbered(EventsOf(s), stream, Len(Recorded(s)))
         /\ \A i \in 1..Len(Recorded(s)) :
              /\ Recorded(s)[i] \in EventsOf(s)
              /\ Recorded(s)[i].at = <<stream, i>>
         /\ \A x \in EventsOf(s) : x.at[1] = stream =>
              x.at[2] \in 1..Len(Recorded(s)) /\ x = Recorded(s)[x.at[2]]
<1>0. stream \in Streams /\ \A p \in Streams : history[s][p] \in Seq(Event)
  BY DEF JournalTypeOK
<1>1. ASSUME NEW x \in EventsOf(s)
      PROVE  \E p \in Streams : \E i \in 1..Len(history[s][p]) :
               x = history[s][p][i] /\ x.at = <<p, i>> /\ p <= stream
  <2>1. PICK p \in Streams : x \in ToSet(history[s][p])
    BY DEF EventsOf
  <2>2. PICK i \in 1..Len(history[s][p]) : x = history[s][p][i]
    BY <2>1 DEF ToSet
  <2>3. x.at = <<p, i>>
    BY <2>2 DEF AllAreNumbered
  <2>4. p <= stream
    <3>1. p > stream => history[s][p] = <<>>
      BY DEF TailsAreSuffixes
    <3>2. \A j \in 1..Len(<<>>) : FALSE
      BY EmptySeq
    <3>3. p \in Nat /\ stream \in Nat
      BY <1>0 DEF Streams
    <3> QED BY <3>1, <3>2, <3>3
  <2> QED BY <2>2, <2>3, <2>4
<1>2. ASSUME NEW x \in EventsOf(s)
      PROVE  /\ x \in Event /\ x.at[1] <= stream
             /\ x.at[1] = stream =>
                  x.at[2] \in 1..Len(Recorded(s)) /\ x = Recorded(s)[x.at[2]]
  <2>1. PICK p \in Streams : \E i \in 1..Len(history[s][p]) :
               x = history[s][p][i] /\ x.at = <<p, i>> /\ p <= stream
    BY <1>1
  <2>2. PICK i \in 1..Len(history[s][p]) :
               x = history[s][p][i] /\ x.at = <<p, i>>
    BY <2>1
  <2>3. x \in Event
    BY <1>0, <2>2, ElementOfSeq
  <2>4. x.at[1] = p /\ x.at[2] = i
    BY <2>2
  <2> QED BY <2>1, <2>2, <2>3, <2>4 DEF Recorded
<1>3. ASSUME NEW x \in EventsOf(s), NEW y \in EventsOf(s), x.at = y.at
      PROVE  x = y
  <2>1. PICK p \in Streams : \E i \in 1..Len(history[s][p]) :
               x = history[s][p][i] /\ x.at = <<p, i>>
    BY <1>1
  <2>2. PICK i \in 1..Len(history[s][p]) :
               x = history[s][p][i] /\ x.at = <<p, i>>
    BY <2>1
  <2>3. PICK q \in Streams : \E i2 \in 1..Len(history[s][q]) :
               y = history[s][q][i2] /\ y.at = <<q, i2>>
    BY <1>1
  <2>4. PICK j \in 1..Len(history[s][q]) :
               y = history[s][q][j] /\ y.at = <<q, j>>
    BY <2>3
  <2>5. p = q /\ i = j
    BY <1>3, <2>2, <2>4
  <2> QED BY <2>2, <2>4, <2>5
<1>4. \A x \in EventsOf(s) : x.at[1] = stream => x.at[2] <= Len(Recorded(s))
  <2>1. Len(Recorded(s)) \in Nat
    BY <1>0, LenProperties DEF Recorded
  <2> QED BY <1>2, <2>1
<1>5. \A i \in 1..Len(Recorded(s)) : /\ Recorded(s)[i] \in EventsOf(s)
                                     /\ Recorded(s)[i].at = <<stream, i>>
  <2> TAKE i \in 1..Len(Recorded(s))
  <2>1. Recorded(s)[i] \in ToSet(history[s][stream])
    BY DEF ToSet, Recorded
  <2>2. Recorded(s)[i].at = <<stream, i>>
    BY <1>0 DEF AllAreNumbered, Recorded
  <2> QED BY <1>0, <2>1, <2>2 DEF EventsOf
<1> QED BY <1>2, <1>3, <1>4, <1>5 DEF Numbered

(* The turns of a session started one after the other.                      *)
LEMMA LatestStarted ==
  ASSUME TurnsHaveStarted, NEW s \in Session
  PROVE  /\ Latest(s) \in 0..MaxTurn
         /\ \A x \in Turn : Did(s, x, "started") <=> x <= Latest(s)
<1>0. MaxTurn \in Nat
  BY JournalConstants
<1>1. PICK n \in 0..MaxTurn : \A x \in Turn : Did(s, x, "started") <=> x <= n
  BY DEF TurnsHaveStarted
<1>2. {x \in Turn : Did(s, x, "started")} = 1..n
  BY <1>0, <1>1 DEF Turn
<1>3. Cardinality(1..n) = n
  BY <1>0, FS_Interval
<1>4. Latest(s) = n
  BY <1>2, <1>3 DEF Latest
<1> QED BY <1>1, <1>4

(* A turn starts after all the earlier ones have.                           *)
LEMMA RecordKeepsBegins ==
  ASSUME JournalTypeOK, JournalIsRight, JournalRuns,
         NEW s \in Session, NEW t \in Turn, NEW k \in Kind, Record(s, t, k)
  PROVE  TurnsBegin'
<1>1. PICK e \in Event :
        /\ e.at = <<stream, Len(Recorded(s)) + 1>> /\ e.turn = t
        /\ e.kind = k
        /\ history' = [history EXCEPT ![s][stream] = Append(Recorded(s), e)]
  BY RecordFacts
<1>2. /\ EventsOf(s)' = EventsOf(s) \cup {e}
      /\ \A u \in Session : u # s => EventsOf(u)' = EventsOf(u)
  BY <1>1, EventsAfter
<1>3. ASSUME k = "started", NEW x \in Turn, x < t
      PROVE  \E a \in EventsOf(s) : a.turn = x /\ Before(a.at, e.at)
  <2>1. /\ t = Latest(s) + 1 /\ Latest(s) \in Nat
        /\ Did(s, x, "started") <=> x <= Latest(s)
    <3>1. Latest(s) \in 0..MaxTurn /\ MaxTurn \in Nat
      BY LatestStarted, JournalConstants DEF JournalIsRight
    <3>2. Did(s, x, "started") <=> x <= Latest(s)
      BY LatestStarted DEF JournalIsRight
    <3> QED BY <1>3, <3>1, <3>2 DEF Record, MaySend
  <2>2. x <= Latest(s)
    BY <1>3, <2>1 DEF Turn
  <2>3. PICK a \in EventsOf(s) : a.turn = x
    BY <2>1, <2>2 DEF Did
  <2>4. PICK own \in Streams, n \in Nat :
          /\ own = stream /\ n = Len(Recorded(s))
          /\ Numbered(EventsOf(s), own, n)
    <3>1. stream \in Streams /\ Len(Recorded(s)) \in Nat
      BY LenProperties DEF JournalTypeOK, Recorded
    <3> QED BY <3>1, EventsNumbered DEF JournalIsRight, JournalRuns
  <2>5. /\ a.at[1] \in Nat /\ a.at[2] \in Nat /\ own \in Nat
        /\ a.at[1] <= own /\ (a.at[1] = own => a.at[2] <= n)
    BY <2>4, NumberedAt
  <2>6. a.at[1] < own \/ (a.at[1] = own /\ a.at[2] < n + 1)
    BY <2>5
  <2>7. e.at[1] = own /\ e.at[2] = n + 1
    BY <1>1, <2>4
  <2>8. Before(a.at, e.at)
    BY <2>6, <2>7 DEF Before
  <2> QED BY <2>3, <2>8
<1>4. ASSUME NEW u \in Session, NEW y \in EventsOf(u)', y.kind = "started",
             NEW x \in Turn, x < y.turn
      PROVE  \E a \in EventsOf(u)' : a.turn = x /\ Before(a.at, y.at)
  <2>1. CASE y \in EventsOf(u)
    <3>1. PICK a \in EventsOf(u) : a.turn = x /\ Before(a.at, y.at)
      BY <1>4, <2>1 DEF JournalRuns, TurnsBegin
    <3> QED BY <1>2, <3>1
  <2>2. CASE u = s /\ y = e
    BY <1>1, <1>2, <1>3, <1>4, <2>2
  <2> QED BY <1>2, <2>1, <2>2
<1>5. ASSUME NEW u \in Session, NEW x \in EventsOf(u)'
      PROVE  Did(u, x.turn, "started")'
  <2>1. CASE x \in EventsOf(u)
    BY <1>2, <2>1 DEF JournalRuns, TurnsBegin, Did
  <2>2. CASE u = s /\ x = e
    <3>1. Did(s, t, "started") \/ k = "started"
      BY DEF Record, MaySend
    <3> QED BY <1>1, <1>2, <2>2, <3>1 DEF Did
  <2> QED BY <1>2, <2>1, <2>2
<1> QED BY <1>4, <1>5 DEF TurnsBegin

(* What is stored continues the log.                                        *)
LEMMA StoreKeepsRuns ==
  ASSUME JournalTypeOK, JournalIsRight, JournalRuns, Stored
  PROVE  LogsRun'
<1>1. PICK o \in StoreOp : /\ o = Head(storing) /\ o = storing[1]
                           /\ Len(storing) = 1
  <2>1. storing # <<>> /\ storing \in Seq(StoreOp) /\ Len(storing) <= 1
    BY DEF Stored, JournalTypeOK
  <2>2. Len(storing) \in Nat /\ Len(storing) # 0
    BY <2>1, LenProperties, EmptySeq
  <2>3. Len(storing) = 1 /\ 1 \in 1..Len(storing)
    <3>1. PICK k \in Nat : k = Len(storing) /\ k # 0 /\ k <= 1
      BY <2>1, <2>2
    <3> QED BY <3>1
  <2>4. storing[1] \in StoreOp
    BY <2>1, <2>3, ElementOfSeq
  <2>5. Head(storing) = storing[1]
    BY <2>1, HeadTailProperties
  <2> QED BY <2>3, <2>4, <2>5
<1>2. PICK s \in Session, l \in Line : s = o.session /\ l = o.line
  BY DEF StoreOp
<1>3. l.event.at = Newest(s) /\ l.stream = stream
  <2>1. 1 \in 1..Len(storing)
    BY <1>1
  <2> QED BY <1>1, <1>2, <2>1
          DEF JournalIsRight, JournalIsOrdered, LogsAreOrdered
<1>4. \A u \in Session : Unstored(u) <=> u = s
  <2>1. 1 \in 1..Len(storing) /\ \A i \in 1..Len(storing) : i = 1
    BY <1>1
  <2> QED BY <1>1, <1>2, <2>1 DEF Unstored
<1>5. /\ storing' = <<>> /\ UNCHANGED <<stream, history>> /\ disk' = Store
      /\ \A u \in Session : Recorded(u)' = Recorded(u)
  BY DEF Stored, Recorded
<1>6. \A u \in Session :
        /\ u # s => disk'[u] = disk[u]
        /\ u = s => disk'[u] \in {<<>>, Append(disk[s], l)}
  BY <1>1, <1>2, <1>5 DEF Store, JournalTypeOK
<1>7. \A u \in Session : ~Unstored(u)'
  <2>1. \A i \in 1..Len(<<>>) : FALSE
    BY EmptySeq
  <2> QED BY <1>5, <2>1 DEF Unstored
<1>8. PICK n \in Nat : n = Len(Recorded(s))
  BY LenProperties DEF JournalTypeOK, Recorded
<1>9. l.event.at[2] = n
  BY <1>3, <1>8 DEF Newest
<1>10. ASSUME NEW u \in Session
       PROVE  /\ LogRuns(disk'[u])
              /\ LogEnds(disk'[u], stream, Len(Recorded(u)))
  <2>1. CASE u # s
    BY <1>4, <1>6, <2>1 DEF JournalRuns, LogsRun
  <2>2. CASE u = s /\ disk'[u] = <<>>
    BY <1>8, <2>2, NothingRuns
  <2>3. CASE u = s /\ disk'[u] = Append(disk[s], l)
    <3>1. PICK r \in Seq(Line \cup {Torn}) :
            r = disk[s] /\ LogRuns(r) /\ LogEnds(r, stream, n - 1)
      BY <1>4, <1>8 DEF JournalTypeOK, JournalRuns, LogsRun
    <3>2. PICK x \in Seq(Line \cup {Torn}), m \in Nat :
            /\ x = Append(r, l) /\ m = Len(r) /\ Len(x) = m + 1
            /\ x[m + 1] = l /\ \A i \in 1..m : x[i] = r[i]
      BY AppendLine
    <3>3. LogRuns(x)
      <4> SUFFICES ASSUME NEW i \in 1..Len(x), NEW j \in 1..Len(x), j = i + 1,
                          x[i] # Torn, x[j] # Torn, x[i].stream = x[j].stream
                   PROVE  x[j].event.at[2] = x[i].event.at[2] + 1
        BY DEF LogRuns
      <4>1. i \in 1..m /\ (j \in 1..m \/ (j = m + 1 /\ i = m))
        BY <3>2
      <4>2. CASE j \in 1..m
        BY <3>1, <3>2, <4>1, <4>2 DEF LogRuns
      <4>3. CASE j = m + 1 /\ i = m
        <5>1. x[i] = r[i] /\ x[j] = l /\ i = Len(r)
          BY <3>2, <4>1, <4>3
        <5>2. r[i].event.at[2] = n - 1
          BY <1>3, <3>1, <3>2, <4>1, <5>1 DEF LogEnds
        <5>3. n = (n - 1) + 1
          OBVIOUS
        <5> QED BY <1>9, <5>1, <5>2, <5>3
      <4> QED BY <4>1, <4>2, <4>3
    <3>4. LogEnds(x, stream, n)
      BY <1>9, <3>2 DEF LogEnds
    <3> QED BY <1>8, <2>3, <3>1, <3>2, <3>3, <3>4
  <2> QED BY <1>6, <2>1, <2>2, <2>3
<1> QED BY <1>5, <1>7, <1>10 DEF LogsRun

(* A deletion clears the projection of its session.                         *)
LEMMA DeleteKeepsRuns ==
  ASSUME JournalTypeOK, JournalRuns, NEW s \in Session, Delete(s)
  PROVE  JournalRuns'
<1>1. /\ UNCHANGED <<stream, history, storing, disk>>
      /\ \A u \in Session : Recorded(u)' = Recorded(u)
                            /\ EventsOf(u)' = EventsOf(u)
                            /\ Unstored(u)' = Unstored(u)
  BY DEF Delete, Recorded, EventsOf, Unstored
<1>2. AllAreNumbered' /\ LogsRun' /\ TurnsBegin'
  BY <1>1 DEF JournalRuns, AllAreNumbered, LogsRun, TurnsBegin, Did
<1>3. ASSUME NEW u \in Session
      PROVE  /\ RunsTo(sessions'[u].events, stream, Len(Recorded(u)))
             /\ sessions'[u].turn # NoTurn =>
                  /\ Len(Recorded(u)) > 0
                  /\ Recorded(u)[Len(Recorded(u))].turn = sessions'[u].turn
  <2>1. CASE u = s
    <3>1. sessions'[u].events = <<>> /\ sessions'[u].turn = NoTurn
      BY <2>1, DeleteFacts
    <3>2. Len(Recorded(u)) \in Nat
      BY LenProperties DEF JournalTypeOK, Recorded
    <3> QED BY <3>1, <3>2, NothingRuns
  <2>2. CASE u # s
    BY <2>2, DeleteFacts DEF JournalRuns, ContentRuns
  <2> QED BY <2>1, <2>2
<1>4. ContentRuns'
  BY <1>1, <1>3 DEF ContentRuns
<1> QED BY <1>2, <1>4 DEF JournalRuns

(* The next process has recorded nothing yet.                               *)
LEMMA RestartKeepsRuns ==
  ASSUME JournalTypeOK, JournalIsRight, JournalRuns, Restart
  PROVE  JournalRuns'
<1>1. /\ stream' = stream + 1 /\ stream \in Nat /\ stream \in Streams
      /\ stream' \in Streams /\ history' = history /\ storing' = <<>>
      /\ \A s \in Session : sessions'[s] = NoProjection
      /\ \A s \in Session : EventsOf(s)' = EventsOf(s)
  BY JournalConstants DEF Restart, JournalTypeOK, Streams, EventsOf
<1>2. \A s \in Session : Recorded(s)' = <<>> /\ Len(<<>>) = 0
  BY <1>1, EmptySeq DEF JournalIsRight, TailsAreSuffixes, Recorded
<1>3. AllAreNumbered' /\ TurnsBegin'
  <2>1. AllAreNumbered'
    BY <1>1 DEF JournalRuns, AllAreNumbered
  <2>2. ASSUME NEW s \in Session
        PROVE  /\ \A x \in EventsOf(s)' : Did(s, x.turn, "started")'
               /\ \A y \in EventsOf(s)' : y.kind = "started" =>
                    \A t \in Turn : t < y.turn =>
                      \E a \in EventsOf(s)' : a.turn = t /\ Before(a.at, y.at)
    BY <1>1 DEF JournalRuns, TurnsBegin, Did
  <2> QED BY <2>1, <2>2 DEF TurnsBegin
<1>4. ContentRuns'
  <2>1. NoProjection.events = <<>> /\ NoProjection.turn = NoTurn
    BY DEF NoProjection
  <2>2. RunsTo(<<>>, stream', 0)
    BY NothingRuns
  <2> QED BY <1>1, <1>2, <2>1, <2>2 DEF ContentRuns
<1>5. ASSUME NEW s \in Session
      PROVE  LogRuns(disk'[s]) /\ LogEnds(disk'[s], stream', 0)
  <2>1. PICK r \in Seq(Line \cup {Torn}), n \in Nat :
          r = disk[s] /\ n = Len(r) /\ LogRuns(r)
    BY LenProperties DEF JournalTypeOK, JournalRuns, LogsRun
  <2>2. \A i \in 1..n : r[i] # Torn => r[i].stream # stream'
    <3> SUFFICES ASSUME NEW i \in 1..n, r[i] # Torn
                 PROVE  r[i].stream # stream'
      OBVIOUS
    <3>1. /\ r[i].event.at[1] = r[i].stream
          /\ NotAfter(r[i].event.at, <<stream, Len(Recorded(s))>>)
      BY <2>1 DEF JournalIsRight, JournalIsOrdered, LogsAreOrdered, Newest
    <3>2. r[i] \in Line
      BY <2>1, ElementOfSeq
    <3>3. r[i].stream \in Nat
      BY <3>2 DEF Line, Streams
    <3> QED BY <1>1, <3>1, <3>3 DEF NotAfter
  <2>3. CASE disk'[s] = r
    <3>1. LogEnds(r, stream', 0)
      BY <2>1, <2>2 DEF LogEnds
    <3> QED BY <2>1, <2>3, <3>1
  <2>4. CASE disk'[s] = Append(r, Torn)
    <3>1. PICK x \in Seq(Line \cup {Torn}), m \in Nat :
            /\ x = Append(r, Torn) /\ m = Len(r) /\ Len(x) = m + 1
            /\ x[m + 1] = Torn /\ \A i \in 1..m : x[i] = r[i]
      <4>1. Torn \in Line \cup {Torn}
        OBVIOUS
      <4> QED BY <4>1, AppendLine
    <3>2. \A i \in 1..Len(x) : x[i] # Torn => i \in 1..m
      BY <3>1
    <3>3. LogRuns(x) /\ LogEnds(x, stream', 0)
      BY <2>1, <2>2, <3>1, <3>2 DEF LogRuns, LogEnds
    <3> QED BY <2>4, <3>1, <3>3
  <2>5. disk'[s] = disk[s] \/ disk'[s] = Append(disk[s], Torn)
    BY DEF Restart, JournalTypeOK
  <2> QED BY <2>1, <2>3, <2>4, <2>5
<1>6. \A s \in Session : ~Unstored(s)'
  <2>1. \A i \in 1..Len(<<>>) : FALSE
    BY EmptySeq
  <2> QED BY <1>1, <2>1 DEF Unstored
<1>7. LogsRun'
  BY <1>2, <1>5, <1>6 DEF LogsRun
<1> QED BY <1>3, <1>4, <1>7 DEF JournalRuns

(* Every step keeps the runs.                                               *)
LEMMA RunsStep ==
  ASSUME JournalTypeOK, JournalIsRight, JournalRuns, [Next]_vars
  PROVE  JournalRuns'
<1>1. ASSUME NEW s \in Session, NEW t \in Turn, NEW k \in Kind,
             Record(s, t, k)
      PROVE  JournalRuns'
  BY <1>1, RecordKeepsRuns, RecordKeepsBegins DEF JournalRuns
<1>2. CASE Stored
  <2>1. /\ UNCHANGED <<stream, history, sessions>>
        /\ \A u \in Session : Recorded(u)' = Recorded(u)
                              /\ EventsOf(u)' = EventsOf(u)
    BY <1>2 DEF Stored, Recorded, EventsOf
  <2>2. AllAreNumbered' /\ ContentRuns' /\ TurnsBegin'
    BY <2>1 DEF JournalRuns, AllAreNumbered, ContentRuns, TurnsBegin, Did
  <2> QED BY <1>2, <2>2, StoreKeepsRuns DEF JournalRuns
<1>3. CASE UNCHANGED journal
  <2>1. /\ UNCHANGED <<stream, history, sessions, storing, disk>>
        /\ \A u \in Session : Recorded(u)' = Recorded(u)
                              /\ EventsOf(u)' = EventsOf(u)
                              /\ Unstored(u)' = Unstored(u)
    BY <1>3 DEF journal, Recorded, EventsOf, Unstored
  <2> QED BY <2>1 DEF JournalRuns, AllAreNumbered, ContentRuns, LogsRun,
                      TurnsBegin, Did
<1> QED BY <1>1, <1>2, <1>3, DeleteKeepsRuns, RestartKeepsRuns, NextSteps
        DEF JournalStep

(* Initially there is nothing.                                              *)
LEMMA InitialRuns ==
  ASSUME JournalInit, JournalTypeOK
  PROVE  JournalRuns
<1>1. /\ storing = <<>> /\ \A s \in Session : /\ sessions[s] = NoProjection
                                              /\ disk[s] = <<>>
      /\ \A s \in Session, p \in Streams : history[s][p] = <<>>
      /\ stream \in Streams
  BY DEF JournalInit, JournalTypeOK
<1>2. Len(<<>>) = 0 /\ \A i \in 1..Len(<<>>) : FALSE
  BY EmptySeq
<1>3. \A s \in Session : Recorded(s) = <<>> /\ EventsOf(s) = {}
                         /\ ~Unstored(s)
  <2>1. ToSet(<<>>) = {}
    BY <1>2 DEF ToSet
  <2> QED BY <1>1, <1>2, <2>1 DEF Recorded, EventsOf, Unstored
<1>4. AllAreNumbered /\ TurnsBegin
  BY <1>1, <1>2, <1>3 DEF AllAreNumbered, TurnsBegin
<1>5. NoProjection.events = <<>> /\ NoProjection.turn = NoTurn
  BY DEF NoProjection
<1>6. RunsTo(<<>>, stream, 0) /\ LogRuns(<<>>) /\ LogEnds(<<>>, stream, 0)
  BY NothingRuns
<1>7. ContentRuns /\ LogsRun
  BY <1>1, <1>2, <1>3, <1>5, <1>6 DEF ContentRuns, LogsRun
<1> QED BY <1>4, <1>7 DEF JournalRuns

(* Projections and logs are runs, always.                                   *)
LEMMA JournalRunsAlways ==
  Spec => [](JournalTypeOK /\ JournalIsRight /\ JournalRuns)
<1>1. Init /\ JournalTypeOK => JournalRuns
  BY InitialRuns DEF Init
<1>2. JournalTypeOK /\ JournalIsRight /\ JournalRuns /\ [Next]_vars
      => JournalRuns'
  BY RunsStep
<1> QED BY <1>1, <1>2, JournalAlways, PTL DEF Spec

(* A projection rebuilt from a run of lines has a run of events.            *)
LEMMA RebuiltRuns ==
  ASSUME NEW lines \in Seq(Line), NEW n \in Nat, n = Len(lines),
         NEW p, NEW base \in Nat,
         \A i \in 1..n : lines[i].event.at = <<p, base + i>>
  PROVE  RunsTo(Rebuilt(lines).events, p, base + n)
<1>1. \A i \in 1..n : lines[i] \in Line /\ lines[i].event \in Event
  <2>1. \A i \in 1..n : lines[i] \in Line
    BY ElementOfSeq
  <2> QED BY <2>1 DEF Line
<1>2. PICK f \in [0..n -> Projection] :
        /\ f[0] = NoProjection
        /\ \A i \in 1..n : f[i] = RebuildStep(f[i - 1], lines[i], i)
        /\ Rebuilt(lines) = f[n]
  <2>1. \A i \in 1..n, a \in Projection :
          RebuildStep(a, lines[i], i) \in Projection
    BY <1>1, RebuildFacts
  <2> QED BY <2>1, NoProjectionType, RebuiltSteps
<1> DEFINE S == {i \in 0..n : RunsTo(f[i].events, p, base + i)}
<1>3. 0 \in S
  <2>1. NoProjection.events = <<>> /\ base + 0 \in Nat
    BY DEF NoProjection
  <2>2. RunsTo(<<>>, p, base + 0)
    BY <2>1, NothingRuns
  <2> QED BY <1>2, <2>1, <2>2
<1>4. ASSUME NEW i \in 1..n, i - 1 \in S
      PROVE  i \in S
  <2>1. PICK q \in Projection, e \in Event :
          /\ q = f[i - 1] /\ e = lines[i].event
          /\ f[i].events = Append(IF q.turn # e.turn THEN <<>>
                                  ELSE q.events, e)
    <3>1. f[i - 1] \in Projection /\ lines[i] \in Line /\ i \in Nat
      <4>1. i - 1 \in 0..n /\ i \in Nat
        OBVIOUS
      <4> QED BY <1>1, <1>2, <4>1
    <3>2. RebuildStep(f[i - 1], lines[i], i).events =
            Append(IF f[i - 1].turn # lines[i].event.turn THEN <<>>
                   ELSE f[i - 1].events, lines[i].event)
      BY <3>1, RebuildFacts
    <3> QED BY <1>1, <1>2, <3>1, <3>2
  <2>2. PICK hi \in Nat : hi = base + (i - 1) /\ hi + 1 = base + i
    OBVIOUS
  <2>3. PICK ev \in Seq(Event) :
          /\ ev = (IF q.turn # e.turn THEN <<>> ELSE q.events)
          /\ RunsTo(ev, p, hi)
    <3>1. <<>> \in Seq(Event) /\ q.events \in Seq(Event)
      BY EmptySeq DEF Projection
    <3>2. RunsTo(q.events, p, hi)
      BY <1>4, <2>1, <2>2
    <3> QED BY <3>1, <3>2, NothingRuns
  <2>4. e.at = <<p, hi + 1>>
    BY <2>1, <2>2
  <2>5. RunsTo(Append(ev, e), p, hi + 1)
    BY <2>3, <2>4, RunAppend
  <2>6. RunsTo(f[i].events, p, base + i)
    BY <2>1, <2>2, <2>3, <2>5
  <2> QED BY <2>6
<1>5. n \in S
  <2>1. \A i \in 1..n : i - 1 \in S => i \in S
    BY <1>4
  <2>2. 0..n \subseteq S
    <3> HIDE DEF S
    <3> QED BY <1>3, <2>1, UpTo
  <2>3. n \in 0..n
    OBVIOUS
  <2> QED BY <2>2, <2>3
<1> QED BY <1>2, <1>5

(* What a log restores is a run of the events of the process that wrote     *)
(* last, whatever is torn in it.                                            *)
LEMMA RestoredRuns ==
  ASSUME JournalTypeOK, JournalIsOrdered, NEW s \in Session,
         LogRuns(disk[s]), Load(disk[s]) # <<>>
  PROVE  \E hi \in Nat :
           RunsTo(Restored(s).events, Load(disk[s])[1].stream, hi)
<1>1. PICK lines \in Seq(Line \cup {Torn}) : lines = disk[s]
  BY DEF JournalTypeOK
<1>2. /\ LinesInOrder(lines)
      /\ \A i \in 1..Len(lines) :
           lines[i] # Torn => lines[i].event.at[1] = lines[i].stream
  BY <1>1 DEF JournalIsOrdered, LogsAreOrdered
<1>3. PICK m \in 0..Len(lines) : \E k \in 0..m :
        /\ Load(lines) = [i \in 1..(m - k) |-> lines[k + i]]
        /\ \A i \in 1..(m - k) : /\ lines[k + i] \in Line
                                 /\ lines[k + i] # Torn
                                 /\ lines[k + i].stream = lines[m].stream
  BY <1>2, LoadIsARun
<1>4. PICK k \in 0..m :
        /\ Load(lines) = [i \in 1..(m - k) |-> lines[k + i]]
        /\ \A i \in 1..(m - k) : /\ lines[k + i] \in Line
                                 /\ lines[k + i] # Torn
                                 /\ lines[k + i].stream = lines[m].stream
  BY <1>3
<1>5. PICK n \in Nat, l \in Nat, logged \in Seq(Line) :
        /\ n = Len(lines) /\ l = m - k /\ m <= n
        /\ logged = Load(lines) /\ Len(logged) = l
        /\ \A i \in 1..l : /\ logged[i] = lines[k + i]
                           /\ k + i \in 1..n
  <2>1. PICK n \in Nat, l \in Nat : n = Len(lines) /\ l = m - k /\ m <= n
    BY LenProperties
  <2>2. PICK logged : /\ logged = Load(lines)
                      /\ logged = [i \in 1..l |-> lines[k + i]]
    BY <1>4, <2>1
  <2>3. logged \in Seq(Line) /\ Len(logged) = l
    <3>1. \A i \in 1..l : lines[k + i] \in Line
      BY <1>4, <2>1
    <3>2. [i \in 1..l |-> lines[k + i]] \in Seq(Line)
      BY <3>1
    <3>3. Len([i \in 1..l |-> lines[k + i]]) = l
      OBVIOUS
    <3> QED BY <2>2, <3>2, <3>3
  <2>4. \A i \in 1..l : k + i \in 1..n
    BY <2>1
  <2> QED BY <2>1, <2>2, <2>3, <2>4
<1>6. 1 \in 1..l
  BY <1>1, <1>5, EmptySeq
<1>7. ASSUME NEW i \in 1..l
      PROVE  /\ logged[i] \in Line /\ logged[i].stream = logged[1].stream
             /\ logged[i].event.at[1] = logged[1].stream
             /\ logged[i].event.at =
                  <<logged[i].event.at[1], logged[i].event.at[2]>>
             /\ logged[i].event.at[2] \in Nat \ {0}
  <2>1. \A j \in 1..l : /\ logged[j] \in Line /\ logged[j] # Torn
                        /\ logged[j].stream = lines[m].stream
                        /\ logged[j].event.at[1] = logged[j].stream
    <3> TAKE j \in 1..l
    <3>1. PICK x \in 1..n : x = k + j /\ logged[j] = lines[x]
      BY <1>5
    <3>2. /\ lines[x] \in Line /\ lines[x] # Torn
          /\ lines[x].stream = lines[m].stream
      BY <1>4, <1>5, <3>1
    <3> QED BY <1>2, <1>5, <3>1, <3>2
  <2>2. logged[i].event \in Event
    BY <2>1 DEF Line
  <2> QED BY <1>6, <2>1, <2>2, EventAt
<1>8. ASSUME NEW i \in 1..l, NEW j \in 1..l, j = i + 1
      PROVE  logged[j].event.at[2] = logged[i].event.at[2] + 1
  <2>1. PICK x \in 1..n, y \in 1..n : /\ x = k + i /\ y = k + j /\ y = x + 1
                                      /\ logged[i] = lines[x]
                                      /\ logged[j] = lines[y]
    <3>1. k + i \in 1..n /\ k + j \in 1..n /\ k + j = (k + i) + 1
      BY <1>5, <1>8
    <3> QED BY <1>5, <3>1
  <2>2. lines[x] # Torn /\ lines[y] # Torn /\ lines[x].stream = lines[y].stream
    <3>1. logged[i] # Torn /\ logged[j] # Torn
      BY <1>4, <1>5
    <3> QED BY <1>7, <2>1, <3>1
  <2>3. LogRuns(lines)
    BY <1>1
  <2>4. x \in 1..Len(lines) /\ y \in 1..Len(lines)
    BY <1>5
  <2>5. lines[y].event.at[2] = lines[x].event.at[2] + 1
    BY ONLY <2>1, <2>2, <2>3, <2>4 DEF LogRuns
  <2> QED BY <2>1, <2>5
<1>0. PICK p : p = logged[1].stream
  OBVIOUS
<1>9. PICK base \in Nat : logged[1].event.at[2] = base + 1
  <2>1. PICK x : x = logged[1].event.at[2]
    OBVIOUS
  <2>2. x \in Nat \ {0}
    BY <1>6, <1>7, <2>1
  <2>3. x - 1 \in Nat /\ x = (x - 1) + 1
    BY <2>2
  <2> QED BY <2>1, <2>3
<1> DEFINE S == {i \in 0..l : i > 0 => logged[i].event.at[2] = base + i}
<1>10. 0 \in S
  OBVIOUS
<1>11. ASSUME NEW i \in 1..l, i - 1 \in S
       PROVE  i \in S
  <2>1. CASE i = 1
    BY <1>9, <2>1
  <2>2. CASE i # 1
    <3>1. i - 1 \in 1..l /\ i = (i - 1) + 1
      BY <2>2
    <3>2. logged[i - 1].event.at[2] = base + (i - 1)
      BY <1>11, <3>1
    <3>3. logged[i].event.at[2] = logged[i - 1].event.at[2] + 1
      BY <1>8, <3>1
    <3> QED BY <3>2, <3>3
  <2> QED BY <2>1, <2>2
<1>12. 0..l \subseteq S
  <2>1. \A i \in 1..l : i - 1 \in S => i \in S
    BY <1>11
  <2> HIDE DEF S
  <2> QED BY <1>10, <2>1, UpTo
<1>13. \A i \in 1..l : logged[i].event.at = <<p, base + i>>
  <2> TAKE i \in 1..l
  <2>1. logged[i].event.at[2] = base + i
    <3>1. i \in 0..l /\ i > 0
      OBVIOUS
    <3> QED BY <1>12, <3>1
  <2> QED BY <1>0, <1>7, <2>1
<1>14. RunsTo(Rebuilt(logged).events, p, base + l)
  BY <1>5, <1>13, RebuiltRuns
<1>15. base + l \in Nat
  OBVIOUS
<1> QED BY <1>0, <1>1, <1>5, <1>14, <1>15 DEF Restored

(* A snapshot is of the newest events of this process: of the turns it is   *)
(* not of, whatever is in order has been passed.  One of an older process   *)
(* is a run of its events.                                                  *)
LEMMA ShotRuns ==
  ASSUME JournalTypeOK, JournalIsRight, JournalRuns,
         NEW own \in Streams, NEW n \in Nat, NEW h,
         own = stream, n = Len(Recorded(Watched)), h = EventsOf(Watched),
         NEW a \in SnapshotAnswers, a # Inactive
  PROVE  /\ a.position.stream = own =>
              /\ a.position.cursor = n /\ RunsTo(a.events, own, n)
              /\ \A x \in h : /\ x.at[1] = own /\ x.turn # a.turn
                              /\ Straight(h, x.turn)
                              => Passed(h, x, n)
         /\ a.position.stream # own =>
              \E hi \in Nat : RunsTo(a.events, a.position.stream, hi)
<1> DEFINE logged == Load(disk[Watched])
           p == IF Known(Watched) THEN sessions[Watched]
                ELSE Restored(Watched)
           from == IF Known(Watched) \/ logged = <<>> THEN stream
                   ELSE logged[1].stream
           shot == Snapshot(Watched)
           turn == IF shot.turn = NoTurn THEN Latest(Watched) ELSE shot.turn
<1>1. shot = [kind |-> "snapshot", turn |-> p.turn, events |-> p.events,
              position |-> [stream |-> from, cursor |-> p.cursor]]
  BY DEF Snapshot
<1>2. a = [shot EXCEPT !.turn = turn] /\ turn # NoTurn
  BY DEF SnapshotAnswers
<1>3. /\ a.events = p.events /\ a.position.stream = from
      /\ a.position.cursor = p.cursor
      /\ a.turn = IF p.turn = NoTurn THEN Latest(Watched) ELSE p.turn
  <2> HIDE DEF p, from
  <2> QED BY <1>1, <1>2
<1>4. /\ Watched \in Session /\ IsTailOf(sessions[Watched], Recorded(Watched))
      /\ Numbered(h, own, n) /\ sessions[Watched] \in Projection
      /\ \A i \in 1..n : /\ Recorded(Watched)[i] \in h
                         /\ Recorded(Watched)[i].at = <<own, i>>
  BY ClientConstants, EventsNumbered
     DEF JournalTypeOK, JournalIsRight, TailsAreSuffixes, JournalRuns
<1>5. CASE Known(Watched)
  <2>1. p = sessions[Watched] /\ from = own
    BY <1>5
  <2>2. sessions[Watched].cursor = n
    BY <1>4 DEF IsTailOf
  <2>3. RunsTo(sessions[Watched].events, own, n)
    BY <1>4 DEF JournalRuns, ContentRuns
  <2>4. ASSUME NEW x \in h, x.at[1] = own, x.turn # a.turn,
               Straight(h, x.turn)
        PROVE  Passed(h, x, n)
    <3>1. x.turn \in Turn /\ x.at[2] \in Nat \ {0} /\ x.at[2] <= n
          /\ x.at = <<own, x.at[2]>>
      <4>1. /\ x.turn \in Turn /\ x.at[2] \in Nat \ {0}
            /\ x.at[1] = own => x.at[2] <= n
            /\ x.at = <<x.at[1], x.at[2]>>
        BY <1>4, NumberedAt
      <4> QED BY <2>4, <4>1
    <3>2. CASE sessions[Watched].turn # NoTurn
      <4>1. n \in 1..n
        BY <3>1
      <4>2. PICK y \in h : y = Recorded(Watched)[n]
        BY <1>4, <4>1
      <4>3. y.turn = a.turn /\ y.at = <<own, n>>
        <5>1. a.turn = sessions[Watched].turn
          <6> HIDE DEF p, from
          <6> QED BY <1>3, <2>1, <3>2
        <5> QED BY <1>4, <3>2, <4>1, <4>2, <5>1 DEF JournalRuns, ContentRuns
      <4>4. y.at[1] = own /\ y.at[2] = n /\ x # y
        BY <2>4, <4>3
      <4>5. x.at[2] # n
        BY <1>4, <3>1, <4>3, <4>4 DEF Numbered
      <4>6. x.at[2] < y.at[2] /\ y.at[2] <= n
        BY <3>1, <4>4, <4>5
      <4> QED BY <2>4, <4>3, <4>4, <4>6 DEF Passed
    <3>3. CASE sessions[Watched].turn = NoTurn
      <4>1. PICK l \in Turn : l = Latest(Watched) /\ a.turn = l
        <5>1. a.turn = Latest(Watched) /\ Latest(Watched) # NoTurn
          <6>1. shot.turn = NoTurn
            <7> HIDE DEF p, from
            <7> QED BY <1>1, <2>1, <3>3
          <6> HIDE DEF p, from, shot
          <6> QED BY <1>2, <1>3, <2>1, <3>3, <6>1
        <5>2. Latest(Watched) \in 0..MaxTurn /\ MaxTurn \in Nat
          BY <1>4, LatestStarted, JournalConstants DEF JournalIsRight
        <5>3. Latest(Watched) \in Turn
          BY <5>1, <5>2 DEF Turn, NoTurn
        <5> QED BY <5>1, <5>3
      <4>2. /\ Did(Watched, x.turn, "started")
            /\ Did(Watched, x.turn, "started") => x.turn <= l
            /\ l <= l => Did(Watched, l, "started")
        <5>1. \A u \in Turn : Did(Watched, u, "started") <=> u <= l
          BY <1>4, <4>1, LatestStarted DEF JournalIsRight
        <5>2. Did(Watched, x.turn, "started")
          BY <1>4 DEF JournalRuns, TurnsBegin
        <5> QED BY <3>1, <5>1, <5>2
      <4>3. l \in Nat /\ x.turn \in Nat
        BY <3>1, <4>1 DEF Turn
      <4>4. PICK y \in h : y.turn = l /\ y.kind = "started"
        BY <4>2, <4>3 DEF Did
      <4>5. x.turn < y.turn
        BY <2>4, <4>1, <4>2, <4>3, <4>4
      <4>6. PICK z \in h : z.turn = x.turn /\ Before(z.at, y.at)
        BY <1>4, <3>1, <4>4, <4>5 DEF JournalRuns, TurnsBegin
      <4>7. /\ y.at[1] \in Nat /\ y.at[2] \in Nat \ {0} /\ own \in Nat
            /\ y.at[1] <= own /\ (y.at[1] = own => y.at[2] <= n)
            /\ y.at = <<y.at[1], y.at[2]>>
            /\ z.at[1] \in Nat /\ z.at[2] \in Nat
        <5>1. own \in Nat
          BY DEF Streams
        <5>2. /\ y.at[1] \in Nat /\ y.at[2] \in Nat \ {0}
              /\ y.at[1] <= own /\ (y.at[1] = own => y.at[2] <= n)
              /\ y.at = <<y.at[1], y.at[2]>>
          BY <1>4, NumberedAt
        <5>3. z.at[1] \in Nat /\ z.at[2] \in Nat
          BY <1>4, NumberedAt
        <5> QED BY <5>1, <5>2, <5>3
      <4>8. CASE Before(y.at, x.at)
        <5>1. Before(z.at, x.at)
          BY <2>4, <3>1, <4>6, <4>7, <4>8 DEF Before
        <5> QED BY <2>4, <4>1, <4>4, <4>6, <4>8, <5>1 DEF Straight
      <4>9. CASE ~Before(y.at, x.at)
        <5>1. x # y /\ (x.at = y.at => x = y)
          BY <1>4, <2>4, <4>1, <4>4 DEF Numbered
        <5>2. y.at[1] = own /\ x.at[2] < y.at[2]
          BY <2>4, <3>1, <4>7, <4>9, <5>1 DEF Before
        <5> QED BY <2>4, <4>1, <4>4, <4>7, <5>2 DEF Passed
      <4> QED BY <4>8, <4>9
    <3> QED BY <3>2, <3>3
  <2> HIDE DEF p, from
  <2> QED BY <1>3, <2>1, <2>2, <2>3, <2>4
<1>6. CASE ~Known(Watched)
  <2>1. p = Restored(Watched) /\ n = 0
    BY <1>4, <1>6, EmptySeq
       DEF JournalIsRight, JournalIsOrdered, ContentIsOrdered
  <2>2. CASE logged = <<>>
    <3>1. p = NoProjection /\ from = own
      BY <1>4, <2>1, <2>2, RestoredFacts DEF JournalIsRight
    <3>2. NoProjection.events = <<>> /\ NoProjection.cursor = 0
      BY DEF NoProjection
    <3>3. RunsTo(<<>>, own, n)
      BY NothingRuns
    <3>4. \A x \in h : x.at[1] # own
      <4>1. \A x \in h : x.at[1] = own =>
              x.at[2] <= n /\ x.at[2] \in Nat \ {0}
        BY <1>4, NumberedAt
      <4> QED BY <2>1, <4>1
    <3> HIDE DEF p, from
    <3> QED BY <1>3, <2>1, <3>1, <3>2, <3>3, <3>4
  <2>3. CASE logged # <<>>
    <3>1. from = logged[1].stream
      BY <1>6, <2>3
    <3>2. from # own
      <4>1. Recorded(Watched) = <<>>
        BY <1>4, <1>6 DEF JournalIsRight, JournalIsOrdered, ContentIsOrdered
      <4>2. logged[1].stream \in Streams /\ logged[1].stream < stream
        BY <1>4, <2>3, <4>1, RestoredFacts DEF JournalIsRight
      <4> QED BY <3>1, <4>2 DEF Streams
    <3>3. \E hi \in Nat : RunsTo(p.events, from, hi)
      <4>1. \E hi \in Nat :
              RunsTo(Restored(Watched).events, logged[1].stream, hi)
        BY <1>4, <2>3, RestoredRuns DEF JournalIsRight, JournalRuns, LogsRun
      <4> HIDE DEF p, from, logged
      <4> QED BY <2>1, <3>1, <4>1
    <3> HIDE DEF p, from
    <3> QED BY <1>3, <3>2, <3>3
  <2> QED BY <2>2, <2>3
<1> QED BY <1>5, <1>6

-----------------------------------------------------------------------------
(* What shows after an event is painted, a delta, or a snapshot.            *)

(* The set of what shows of a turn.                                         *)
LEMMA ShownType ==
  ASSUME NEW screen \in Screens
  PROVE  /\ Shown(screen) \in Shows
         /\ \A t \in Turn : Shown(screen)[t] = ToSet(screen[t])
         /\ \A t \in Turn :
              ToSet(screen[t]) = {screen[t][i] : i \in 1..Len(screen[t])}
<1>1. ASSUME NEW t \in Turn
      PROVE  /\ ToSet(screen[t]) \subseteq Streams \X (Nat \ {0})
             /\ ToSet(screen[t]) = {screen[t][i] : i \in 1..Len(screen[t])}
  <2>1. PICK r \in Seq(Streams \X (Nat \ {0})) : r = screen[t]
    BY DEF Screens
  <2>2. \A i \in 1..Len(r) : r[i] \in Streams \X (Nat \ {0})
    BY ElementOfSeq
  <2>3. ToSet(r) = {r[i] : i \in 1..Len(r)}
    BY LenProperties DEF ToSet
  <2> QED BY <2>1, <2>2, <2>3
<1> QED BY <1>1 DEF Shown, Shows

(* A painted event shows with those of its turn.                            *)
LEMMA ShownPainted ==
  ASSUME NEW screen \in Screens, NEW e \in Event
  PROVE  Shown(Paint(screen, e)) =
           [Shown(screen) EXCEPT ![e.turn] = @ \cup {e.at}]
<1>1. e.turn \in Turn /\ e.at \in Streams \X (Nat \ {0})
  BY DEF Event
<1>2. PICK more \in Screens : more = Paint(screen, e)
  BY PaintType
<1>3. \A t \in Turn : more[t] = IF t = e.turn THEN Append(screen[t], e.at)
                                ELSE screen[t]
  BY <1>1, <1>2 DEF Paint, Screens
<1>4. ToSet(more[e.turn]) = ToSet(screen[e.turn]) \cup {e.at}
  <2>1. PICK r \in Seq(Streams \X (Nat \ {0})), at \in Streams \X (Nat \ {0}) :
          r = screen[e.turn] /\ at = e.at
    BY <1>1 DEF Screens
  <2>2. PICK s : s = Append(r, at)
    OBVIOUS
  <2>0. PICK m \in Nat : m = Len(r)
    BY LenProperties
  <2>3. /\ Len(s) = m + 1 /\ s[m + 1] = at
        /\ \A i \in 1..m : s[i] = r[i]
    <3>1. /\ Len(Append(r, at)) = Len(r) + 1
          /\ Append(r, at)[Len(r) + 1] = at
          /\ \A i \in 1..Len(r) : Append(r, at)[i] = r[i]
      BY AppendProperties
    <3> QED BY ONLY <2>0, <2>2, <3>1, Zenon
  <2>4. 1..(m + 1) = (1..m) \cup {m + 1}
    OBVIOUS
  <2>5. {s[i] : i \in 1..(m + 1)} = {r[i] : i \in 1..m} \cup {at}
    BY <2>3, <2>4
  <2>6. more[e.turn] = s
    BY <1>1, <1>3, <2>1, <2>2
  <2>7. /\ ToSet(more[e.turn]) =
             {more[e.turn][i] : i \in 1..Len(more[e.turn])}
        /\ ToSet(screen[e.turn]) =
             {screen[e.turn][i] : i \in 1..Len(screen[e.turn])}
    BY <1>1, <1>2, ShownType
  <2>8. {more[e.turn][i] : i \in 1..Len(more[e.turn])} =
          {s[i] : i \in 1..(m + 1)}
    BY <2>3, <2>6
  <2>9. {screen[e.turn][i] : i \in 1..Len(screen[e.turn])} =
          {r[i] : i \in 1..m}
    BY <2>0, <2>1
  <2> QED BY <2>1, <2>5, <2>7, <2>8, <2>9
<1>5. \A t \in Turn : ToSet(more[t]) =
        IF t = e.turn THEN ToSet(screen[t]) \cup {e.at} ELSE ToSet(screen[t])
  BY <1>3, <1>4
<1> QED BY <1>1, <1>2, <1>5 DEF Shown

(* Painted events show each with those of its turn.                         *)
LEMMA ShownAllPainted ==
  ASSUME NEW screen \in Screens, NEW events \in Seq(Event), NEW t \in Turn
  PROVE  Shown(PaintAll(screen, events))[t] = Shown(screen)[t] \cup
           {events[i].at : i \in {j \in 1..Len(events) : events[j].turn = t}}
<1>1. PICK n \in Nat : n = Len(events)
  BY LenProperties
<1>2. \A i \in 1..n : events[i] \in Event
  BY <1>1, ElementOfSeq
<1>3. PICK f : Painting(f, screen, events, Screens)
  <2>1. \A i \in 1..Len(events), s \in Screens : Paint(s, events[i]) \in Screens
    BY <1>1, <1>2, PaintType
  <2>2. Len(events) \in Nat /\ screen \in Screens
    BY <1>1
  <2> QED BY <2>1, <2>2, PaintAllSteps
<1> DEFINE More(i) ==
             {events[x].at : x \in {j \in 1..i : events[j].turn = t}}
           S == {i \in 0..n : Shown(f[i])[t] = Shown(screen)[t] \cup More(i)}
<1>4. 0 \in S
  <2>1. More(0) = {} /\ f[0] = screen
    BY <1>3 DEF Painting
  <2> QED BY <2>1
<1>5. ASSUME NEW i \in 1..n, i - 1 \in S
      PROVE  i \in S
  <2>1. PICK s \in Screens, e \in Event :
          s = f[i - 1] /\ e = events[i] /\ f[i] = Paint(s, e)
    <3>1. i - 1 \in 0..n
      OBVIOUS
    <3> QED BY <1>1, <1>2, <1>3, <3>1 DEF Painting
  <2>2. Shown(f[i])[t] = IF t = e.turn THEN Shown(s)[t] \cup {e.at}
                         ELSE Shown(s)[t]
    <3>1. Shown(f[i]) = [Shown(s) EXCEPT ![e.turn] = @ \cup {e.at}]
      BY <2>1, ShownPainted, ZenonT(30)
    <3> QED BY <3>1 DEF Shown
  <2>3. More(i) = IF t = e.turn THEN More(i - 1) \cup {e.at} ELSE More(i - 1)
    <3>1. 1..i = (1..(i - 1)) \cup {i}
      OBVIOUS
    <3> QED BY <2>1, <3>1
  <2>4. Shown(s)[t] = Shown(screen)[t] \cup More(i - 1)
    BY <1>5, <2>1
  <2> HIDE DEF More
  <2> QED BY <2>2, <2>3, <2>4
<1>6. n \in S
  <2>1. \A i \in 1..n : i - 1 \in S => i \in S
    BY <1>5
  <2>2. 0..n \subseteq S
    <3> HIDE DEF S
    <3> QED BY <1>4, <2>1, UpTo
  <2>3. n \in 0..n
    OBVIOUS
  <2> QED BY <2>2, <2>3
<1> QED BY <1>1, <1>3, <1>6 DEF Painting

(* What was recorded after c; and of turn t, up to b.                       *)
Resumes(events, h, own, c) ==
  \A i \in 1..Len(events) : events[i] \in h /\ events[i].at = <<own, c + i>>
Batch(h, t, own, c, b) ==
  {x.at : x \in {y \in h : /\ y.turn = t /\ y.at[1] = own
                           /\ c < y.at[2] /\ y.at[2] <= b}}

(* A delta shows as what was recorded after c.                              *)
LEMMA DeltaShows ==
  ASSUME NEW h, NEW own \in Streams, NEW n \in Nat, Numbered(h, own, n),
         NEW screen \in Screens, NEW events \in Seq(Event),
         NEW c \in Nat, Resumes(events, h, own, c),
         NEW b \in Nat, b = c + Len(events), NEW t \in Turn
  PROVE  Shown(PaintAll(screen, events))[t]
           = Shown(screen)[t] \cup Batch(h, t, own, c, b)
<1>1. PICK l \in Nat : l = Len(events) /\ b = c + l
  BY LenProperties
<1> DEFINE A == {events[i].at : i \in {j \in 1..l : events[j].turn = t}}
           B == {x.at : x \in {y \in h : /\ y.turn = t /\ y.at[1] = own
                                         /\ c < y.at[2] /\ y.at[2] <= b}}
<1>2. \A i \in 1..l : events[i] \in h /\ events[i].at = <<own, c + i>>
  BY <1>1 DEF Resumes
<1>3. A \subseteq B
  <2> SUFFICES ASSUME NEW i \in 1..l, events[i].turn = t
               PROVE  events[i].at \in B
    OBVIOUS
  <2>1. c < c + i /\ c + i <= b
    BY <1>1
  <2>2. events[i].at[1] = own /\ events[i].at[2] = c + i
    BY <1>2
  <2> QED BY <1>2, <2>1, <2>2
<1>4. B \subseteq A
  <2> SUFFICES ASSUME NEW x \in h, x.turn = t, x.at[1] = own,
                      c < x.at[2], x.at[2] <= b
               PROVE  x.at \in A
    OBVIOUS
  <2>1. x.at[2] \in Nat /\ x.at = <<x.at[1], x.at[2]>>
    BY NumberedAt, ZenonT(30)
  <2>2. PICK i \in 1..l : x.at[2] = c + i
    <3>1. x.at[2] - c \in 1..l /\ x.at[2] = c + (x.at[2] - c)
      BY <1>1, <2>1
    <3> QED BY <3>1
  <2>3. events[i] = x
    BY <1>2, <2>1, <2>2 DEF Numbered
  <2> QED BY <2>3
<1>5. Shown(PaintAll(screen, events))[t] = Shown(screen)[t] \cup A
  BY <1>1, ShownAllPainted
<1>6. B = Batch(h, t, own, c, b)
  BY DEF Batch
<1> HIDE DEF A, B
<1> QED BY <1>3, <1>4, <1>5, <1>6

(* A snapshot shows as the run of events that it is.                        *)
LEMMA ReplayShows ==
  ASSUME painted \in Screens, NEW a \in Shot, NEW p, NEW hi \in Nat,
         RunsTo(a.events, p, hi)
  PROVE  \E lo \in 0..hi :
           Replays(Shown(Replayed(a)), Shown(painted), a.turn, p, lo, hi)
<1>1. PICK events \in Seq(Event), l \in Nat :
        events = a.events /\ l = Len(events) /\ a.turn \in Turn
  BY LenProperties DEF Shot
<1>2. PICK lo \in 0..hi : lo = hi - l /\ l = hi - lo
  <2>1. l <= hi
    BY <1>1 DEF RunsTo
  <2>2. hi - l \in 0..hi /\ l = hi - (hi - l)
    BY <2>1
  <2> QED BY <2>2
<1>3. \A i \in 1..l : events[i].at = <<p, lo + i>>
  BY <1>1, <1>2 DEF RunsTo
<1>4. PICK shown : shown = [i \in 1..l |-> events[i].at]
  OBVIOUS
<1>5. \A u \in Turn :
        Replayed(a)[u] = IF u = a.turn THEN shown ELSE painted[u]
  BY <1>1, <1>4 DEF Replayed, Screens
<1>6. Len(shown) = l /\ ToSet(shown) = {shown[i] : i \in 1..l}
  <2>1. DOMAIN shown = 1..l /\ Len(shown) = l
    BY <1>4
  <2> QED BY <2>1 DEF ToSet
<1>7. {shown[i] : i \in 1..l} = {<<p, j>> : j \in (lo + 1)..hi}
  <2>1. \A i \in 1..l : shown[i] = <<p, lo + i>> /\ lo + i \in (lo + 1)..hi
    <3> TAKE i \in 1..l
    <3>1. lo + i \in (lo + 1)..hi
      BY <1>2
    <3> QED BY <1>3, <1>4, <3>1
  <2>2. \A j \in (lo + 1)..hi : j - lo \in 1..l /\ lo + (j - lo) = j
    BY <1>2
  <2>3. \A j \in (lo + 1)..hi : <<p, j>> = shown[j - lo]
    BY <2>1, <2>2
  <2>4. {shown[i] : i \in 1..l} \subseteq {<<p, j>> : j \in (lo + 1)..hi}
    BY <2>1
  <2>5. {<<p, j>> : j \in (lo + 1)..hi} \subseteq {shown[i] : i \in 1..l}
    BY <2>2, <2>3, ZenonT(30)
  <2> QED BY <2>4, <2>5
<1>8. \A u \in Turn : ToSet(Replayed(a)[u]) =
        IF u = a.turn THEN {<<p, j>> : j \in (lo + 1)..hi}
        ELSE ToSet(painted[u])
  BY <1>5, <1>6, <1>7
<1> QED BY <1>2, <1>8 DEF Shown, Replays

-----------------------------------------------------------------------------
(* The fence: what is pending is painted in the order of its cursors.       *)

(* A live event on its way; what a queue of them is of; and how the parts   *)
(* of the way follow each other.                                            *)
Comes(m, h, own, n) == OnItsWay(m, own, n) /\ m.event \in h
Cursors(ms) == {ms[i].position.cursor : i \in 1..Len(ms)}
Precede(S, T) == \A i \in S, j \in T : i < j
Queue(ms, h, own, n) ==
  /\ \A i \in 1..Len(ms) : Comes(ms[i], h, own, n)
  /\ \A i, j \in 1..Len(ms) :
       i < j => ms[i].position.cursor < ms[j].position.cursor

(* The place and the screen of a client that has yet to deal with pend.     *)
Fenced(place, screen, h, own, n, gone, pend) ==
  /\ PlaceFits(place, own, n)
  /\ Covers(h, own, n, Reach(place, own), gone, Shown(screen), pend)

(* Nothing is pending in an empty queue.                                    *)
LEMMA EmptyQueue ==
  ASSUME NEW h, NEW own, NEW n
  PROVE  Queue(<<>>, h, own, n) /\ Cursors(<<>>) = {}
<1>1. \A i \in 1..Len(<<>>) : FALSE
  BY EmptySeq
<1> QED BY <1>1 DEF Queue, Cursors

(* A later message joins the queue.                                         *)
LEMMA LongerQueue ==
  ASSUME NEW ms \in Seq(Message), NEW m \in Message, NEW h, NEW own, NEW n,
         Queue(ms, h, own, n), Comes(m, h, own, n),
         Precede(Cursors(ms), {m.position.cursor})
  PROVE  /\ Queue(Append(ms, m), h, own, n)
         /\ Cursors(Append(ms, m)) = Cursors(ms) \cup {m.position.cursor}
<1>1. PICK s : s = Append(ms, m)
  OBVIOUS
<1>2. PICK l \in Nat : l = Len(ms)
  BY LenProperties
<1>3. Len(s) = l + 1 /\ s[l + 1] = m /\ \A i \in 1..l : s[i] = ms[i]
  <2>1. /\ Len(Append(ms, m)) = Len(ms) + 1
        /\ Append(ms, m)[Len(ms) + 1] = m
        /\ \A i \in 1..Len(ms) : Append(ms, m)[i] = ms[i]
    BY AppendProperties
  <2> QED BY ONLY <1>1, <1>2, <2>1, Zenon
<1>4. \A i \in 1..(l + 1) : i \in 1..l \/ i = l + 1
  OBVIOUS
<1>5. \A i \in 1..Len(s) : Comes(s[i], h, own, n)
  BY <1>2, <1>3, <1>4 DEF Queue
<1>6. \A i \in 1..l : ms[i].position.cursor < m.position.cursor
  BY <1>2 DEF Cursors, Precede
<1>7. ASSUME NEW i \in 1..(l + 1), NEW j \in 1..(l + 1), i < j
      PROVE  s[i].position.cursor < s[j].position.cursor
  <2>1. i \in 1..l /\ (j \in 1..l \/ j = l + 1)
    BY <1>7
  <2> QED BY <1>2, <1>3, <1>6, <1>7, <2>1 DEF Queue
<1>8. {s[i].position.cursor : i \in 1..(l + 1)} =
        {ms[i].position.cursor : i \in 1..l} \cup {m.position.cursor}
  <2>1. 1..(l + 1) = (1..l) \cup {l + 1}
    OBVIOUS
  <2> QED BY <1>3, <2>1
<1> QED BY <1>1, <1>2, <1>3, <1>5, <1>7, <1>8 DEF Queue, Cursors

(* The head of a queue is before the rest.                                  *)
LEMMA ShorterQueue ==
  ASSUME NEW ms \in Seq(Message), ms # <<>>, NEW h, NEW own, NEW n,
         Queue(ms, h, own, n)
  PROVE  /\ Comes(Head(ms), h, own, n) /\ Queue(Tail(ms), h, own, n)
         /\ Cursors(ms) = {Head(ms).position.cursor} \cup Cursors(Tail(ms))
         /\ Precede({Head(ms).position.cursor}, Cursors(Tail(ms)))
<1>1. PICK l \in Nat : l = Len(ms) /\ l # 0
  BY LenProperties, EmptySeq
<1>2. PICK s, m : s = Tail(ms) /\ m = Head(ms)
  OBVIOUS
<1>3. m = ms[1] /\ Len(s) = l - 1 /\ \A i \in 1..(l - 1) : s[i] = ms[i + 1]
  <2>1. /\ Head(ms) = ms[1] /\ Len(Tail(ms)) = Len(ms) - 1
        /\ \A i \in 1..Len(Tail(ms)) : Tail(ms)[i] = ms[i + 1]
    BY HeadTailProperties
  <2> QED BY ONLY <1>1, <1>2, <2>1, Zenon
<1>4. 1 \in 1..l /\ \A i \in 1..(l - 1) : i + 1 \in 1..l /\ 1 < i + 1
  BY <1>1
<1>5. Comes(m, h, own, n) /\ \A i \in 1..(l - 1) : Comes(s[i], h, own, n)
  BY <1>1, <1>3, <1>4 DEF Queue
<1>6. \A i \in 1..(l - 1) : m.position.cursor < s[i].position.cursor
  BY <1>1, <1>3, <1>4 DEF Queue
<1>7. ASSUME NEW i \in 1..(l - 1), NEW j \in 1..(l - 1), i < j
      PROVE  s[i].position.cursor < s[j].position.cursor
  <2>1. i + 1 \in 1..l /\ j + 1 \in 1..l /\ i + 1 < j + 1
    BY <1>7
  <2> QED BY <1>1, <1>3, <2>1 DEF Queue
<1>8. {ms[i].position.cursor : i \in 1..l} =
        {m.position.cursor} \cup {s[i].position.cursor : i \in 1..(l - 1)}
  <2>1. \A i \in 1..l : i = 1 \/ (i - 1 \in 1..(l - 1) /\ i = (i - 1) + 1)
    OBVIOUS
  <2>2. {ms[i].position.cursor : i \in 1..l} \subseteq
          {m.position.cursor} \cup {s[i].position.cursor : i \in 1..(l - 1)}
    <3> SUFFICES ASSUME NEW i \in 1..l
                 PROVE  \/ ms[i].position.cursor = m.position.cursor
                        \/ \E j \in 1..(l - 1) :
                             ms[i].position.cursor = s[j].position.cursor
      OBVIOUS
    <3>1. CASE i = 1
      BY <1>3, <3>1
    <3>2. CASE i # 1
      <4>1. PICK j \in 1..(l - 1) : i = j + 1
        BY <2>1, <3>2
      <4> QED BY <1>3, <4>1
    <3> QED BY <3>1, <3>2
  <2>3. m.position.cursor \in {ms[i].position.cursor : i \in 1..l}
    BY <1>3, <1>4
  <2>4. \A j \in 1..(l - 1) :
          s[j].position.cursor \in {ms[i].position.cursor : i \in 1..l}
    BY <1>3, <1>4
  <2> QED BY <2>2, <2>3, <2>4
<1> QED BY <1>1, <1>2, <1>3, <1>5, <1>6, <1>7, <1>8, ZenonT(30)
        DEF Queue, Cursors, Precede

(* A queue outlasts what is recorded after it.                              *)
LEMMA QueueLasts ==
  ASSUME NEW ms, NEW h, NEW g, h \subseteq g, NEW own, NEW n \in Nat,
         NEW m \in Nat, n <= m, Queue(ms, h, own, n)
  PROVE  Queue(ms, g, own, m)
<1>1. \A c \in 1..n : c \in 1..m
  OBVIOUS
<1> QED BY <1>1 DEF Queue, Comes, OnItsWay

(* A live event, when it is released, or admitted and painted.              *)
LEMMA LiveCovers ==
  ASSUME NEW h, NEW own \in Streams, NEW n \in Nat, Numbered(h, own, n),
         NEW place \in Places, NEW screen \in Screens, NEW gone, NEW left,
         NEW m \in Message, Comes(m, h, own, n),
         Fenced(place, screen, h, own, n, gone,
                {m.position.cursor} \cup left),
         Precede({m.position.cursor}, left)
  PROVE  LET to == IF NotAhead(place, m.position) THEN place
                   ELSE Advance(place, m.position)
             shown == IF NotAhead(place, m.position) THEN screen
                      ELSE Paint(screen, m.event)
         IN /\ Fenced(to, shown, h, own, n, gone, left)
            /\ Reach(place, own) <= Reach(to, own)
<1>1. PICK k \in 1..n : /\ k = m.position.cursor /\ m.position.stream = own
                        /\ m.event.at = <<own, k>> /\ m.event \in h
  BY DEF Comes, OnItsWay
<1>2. PICK c \in Nat : c = Reach(place, own)
  BY DEF Reach, Places, Position, NoPosition
<1>3. NotAhead(place, m.position) <=> place.stream = own /\ k <= c
  <2>1. place.stream = own => place # NoPosition
    BY DEF NoPosition, Streams
  <2> QED BY <1>1, <1>2, <2>1 DEF NotAhead, Reach
<1>4. CASE NotAhead(place, m.position)
  <2>1. \A j \in {k} \cup left : j > c => j \in left
    BY <1>1, <1>2, <1>3, <1>4
  <2>2. Covers(h, own, n, c, gone, Shown(screen), left)
    BY <1>1, <1>2, <2>1, FewerPending DEF Fenced
  <2>3. c <= c
    OBVIOUS
  <2> QED BY <1>2, <1>4, <2>2, <2>3 DEF Fenced
<1>5. CASE ~NotAhead(place, m.position)
  <2>1. c < k
    BY <1>2, <1>3, <1>5 DEF Reach
  <2>2. PICK to \in Places : to = m.position /\ to.stream = own /\ to.cursor = k
    BY <1>1 DEF Message, Places
  <2>3. Advance(place, m.position) = to /\ Reach(to, own) = k
    BY <1>5, <2>2 DEF Advance, Reach
  <2>4. PICK sh \in Shows : sh = Shown(screen)
    BY ShownType
  <2>5. PICK e \in Event : e = m.event
    BY DEF Message
  <2>6. \A j \in {k} \cup left : j = k \/ (j > k /\ j \in left)
    BY <1>1 DEF Precede
  <2>7. Covers(h, own, n, k, gone, [sh EXCEPT ![e.turn] = @ \cup {e.at}], left)
    BY <1>1, <1>2, <2>1, <2>4, <2>5, <2>6, PaintCovers DEF Fenced
  <2>8. Shown(Paint(screen, e)) = [sh EXCEPT ![e.turn] = @ \cup {e.at}]
    BY <2>4, ShownPainted
  <2>9. PlaceFits(to, own, n)
    BY <2>2 DEF PlaceFits, Streams
  <2>10. Fenced(to, Paint(screen, e), h, own, n, gone, left)
    BY <2>3, <2>7, <2>8, <2>9 DEF Fenced
  <2>11. Reach(place, own) <= Reach(to, own)
    BY <1>2, <2>1, <2>3
  <2> QED BY <1>5, <2>3, <2>5, <2>10, <2>11
<1> QED BY <1>4, <1>5


(* The held events are released: the rest is yet to come.                   *)
LEMMA ReleasedCovers ==
  ASSUME held \in Seq(Message),
         NEW h, NEW own \in Streams, NEW n \in Nat, Numbered(h, own, n),
         Queue(held, h, own, n),
         NEW place \in Places, NEW screen \in Screens, NEW gone, NEW rest,
         Fenced(place, screen, h, own, n, gone, Cursors(held) \cup rest),
         Precede(Cursors(held), rest)
  PROVE  LET r == Released(place, screen) IN
         /\ Fenced(r.position, r.screen, h, own, n, gone, rest)
         /\ Reach(place, own) <= Reach(r.position, own)
<1>1. PICK l \in Nat : l = Len(held)
  BY LenProperties
<1>2. \A i \in 1..l : held[i] \in Message
  BY <1>1, ElementOfSeq
<1>3. PICK f \in [0..l -> Views] :
        /\ f[0] = [position |-> place, screen |-> screen]
        /\ \A i \in 1..l : f[i] = ReleaseStep(f[i - 1], held[i])
        /\ Released(place, screen) = f[l]
  <2>1. [position |-> place, screen |-> screen] \in Views
    BY DEF Views
  <2>2. \A i \in 1..l, a \in Views : ReleaseStep(a, held[i]) \in Views
    BY <1>2, ReleaseStepType
  <2> QED BY <1>1, <2>1, <2>2, ReleasedSteps
<1> DEFINE After(i) == {held[j].position.cursor : j \in (i + 1)..l} \cup rest
           S == {i \in 0..l :
                   /\ Fenced(f[i].position, f[i].screen, h, own, n, gone,
                             After(i))
                   /\ Reach(place, own) <= Reach(f[i].position, own)}
<1>4. 0 \in S
  <2>1. After(0) = Cursors(held) \cup rest
    BY <1>1 DEF Cursors
  <2>2. f[0].position = place /\ f[0].screen = screen
    BY <1>3
  <2>3. Reach(place, own) <= Reach(place, own)
    BY DEF Reach, Places, Position, NoPosition
  <2> HIDE DEF After
  <2> QED BY <2>1, <2>2, <2>3
<1>5. ASSUME NEW i \in 1..l, i - 1 \in S
      PROVE  i \in S
  <2>1. PICK from \in Places, view \in Screens, m \in Message :
          /\ from = f[i - 1].position /\ view = f[i - 1].screen
          /\ m = held[i] /\ f[i] = ReleaseStep(f[i - 1], m)
    <3>1. i - 1 \in 0..l
      OBVIOUS
    <3>2. f[i - 1] \in Views
      BY <1>3, <3>1
    <3> QED BY <1>2, <1>3, <3>2 DEF Views
  <2>2. After(i - 1) = {m.position.cursor} \cup After(i)
    <3>1. ((i - 1) + 1)..l = {i} \cup ((i + 1)..l)
      OBVIOUS
    <3> QED BY <2>1, <3>1
  <2>3. Precede({m.position.cursor}, After(i))
    <3>1. \A j \in (i + 1)..l : m.position.cursor < held[j].position.cursor
      <4>1. \A j \in (i + 1)..l : j \in 1..l /\ i < j
        OBVIOUS
      <4> QED BY <1>1, <2>1, <4>1 DEF Queue
    <3>2. \A j \in rest : m.position.cursor < j
      BY <1>1, <2>1 DEF Precede, Cursors
    <3> QED BY <3>1, <3>2 DEF Precede
  <2>4. Comes(m, h, own, n)
    BY <1>1, <2>1 DEF Queue
  <2>5. Fenced(from, view, h, own, n, gone,
               {m.position.cursor} \cup After(i))
        /\ Reach(place, own) <= Reach(from, own)
    BY <1>5, <2>1, <2>2
  <2> HIDE DEF After
  <2>6. PICK left : left = After(i)
    OBVIOUS
  <2>7. PICK to, shown :
          /\ to = IF NotAhead(from, m.position) THEN from
                  ELSE Advance(from, m.position)
          /\ shown = IF NotAhead(from, m.position) THEN view
                     ELSE Paint(view, m.event)
    OBVIOUS
  <2>8. /\ Fenced(to, shown, h, own, n, gone, left)
        /\ Reach(from, own) <= Reach(to, own)
    BY <2>3, <2>4, <2>5, <2>6, <2>7, LiveCovers
  <2>9. f[i].position = to /\ f[i].screen = shown
    BY <2>1, <2>7 DEF ReleaseStep
  <2>10. to \in Places
    BY <2>7, AdvanceType DEF Message, Places
  <2>11. Reach(place, own) <= Reach(to, own)
    <3>1. /\ Reach(place, own) \in Nat /\ Reach(from, own) \in Nat
          /\ Reach(to, own) \in Nat
      BY <2>10 DEF Reach, Places, Position, NoPosition
    <3> QED BY <2>5, <2>8, <3>1
  <2>12. i \in 0..l
    OBVIOUS
  <2> QED BY <2>6, <2>8, <2>9, <2>11, <2>12
<1>6. l \in S
  <2>1. \A i \in 1..l : i - 1 \in S => i \in S
    BY <1>5
  <2>2. 0..l \subseteq S
    <3> HIDE DEF S
    <3> QED BY <1>4, <2>1, UpTo
  <2>3. l \in 0..l
    OBVIOUS
  <2> QED BY <2>2, <2>3
<1>7. After(l) = rest
  OBVIOUS
<1> HIDE DEF After
<1> QED BY <1>3, <1>6, <1>7

-----------------------------------------------------------------------------
(* The client while its reads are answered and live events come.            *)

(* Of every turn that is taken to be over, the end is dealt with.           *)
Over(over, h, own, c) ==
  \A t \in over : \E e \in h :
    /\ e.turn = t /\ e.kind = "ended"
    /\ e.at[1] < own \/ (e.at[1] = own /\ e.at[2] <= c)

(* The answers that the place is waiting for, while sh is shown.            *)
DeltaCovers(a, place, h, own, n) ==
  /\ DeltaFits(a, place, own, n)
  /\ \A i \in 1..Len(a.events) : a.events[i] \in h
ShotCovers(a, place, sh, h, own, n) ==
  /\ a.position.stream <= own
  /\ a.position.stream = own =>
       /\ Reach(place, own) <= a.position.cursor /\ a.position.cursor <= n
       /\ RunsTo(a.events, own, a.position.cursor)
       /\ \A t \in Turn : \A b \in sh[t] :
            b[1] = own => b[2] <= a.position.cursor
       /\ \A x \in h : /\ x.at[1] = own /\ x.at[2] <= a.position.cursor
                       /\ x.turn # a.turn /\ Straight(h, x.turn)
                       => Passed(h, x, a.position.cursor)
  /\ a.position.stream # own =>
       /\ Reach(place, own) = 0
       /\ \A t \in Turn : \A b \in sh[t] : b[1] # own
       /\ \E hi \in Nat : RunsTo(a.events, a.position.stream, hi)
AnswersCover(answers, place, sh, h, own, n) ==
  \A i \in 1..Len(answers) :
    /\ answers[i].kind = "delta" => DeltaCovers(answers[i], place, h, own, n)
    /\ answers[i].kind = "snapshot" =>
         ShotCovers(answers[i], place, sh, h, own, n)

(* The client, while u are the events that have not set off yet.            *)
ClientCovers(h, own, n, u) ==
  /\ Queue(transit, h, own, n) /\ Queue(held, h, own, n)
  /\ Precede(Cursors(held), Cursors(transit) \cup u)
  /\ Precede(Cursors(transit), u)
  /\ read.kind = "none" => held = <<>> /\ read.answer = <<>>
  /\ Fenced(applied, painted, h, own, n, lost,
            Cursors(held) \cup (Cursors(transit) \cup u))
  /\ Over(settled, h, own, Reach(applied, own))
  /\ AnswersCover(read.answer, applied, Shown(painted), h, own, n)

(* What is being stored sets off next: the inductive invariant.             *)
Unsent == IF Unstored(Watched) THEN {Len(Recorded(Watched))} ELSE {}
ClientCovered ==
  ClientCovers(EventsOf(Watched), stream, Len(Recorded(Watched)), Unsent)

(* The place of a client in a process is a number.                          *)
LEMMA ReachType ==
  ASSUME NEW place \in Places, NEW own
  PROVE  Reach(place, own) \in Nat
BY DEF Reach, Places, Position, NoPosition

(* What is over stays so as the client goes on.                             *)
LEMMA OverLasts ==
  ASSUME NEW h, NEW g, h \subseteq g, g \subseteq Event, NEW own,
         NEW c \in Nat, NEW d \in Nat, c <= d, NEW over, Over(over, h, own, c)
  PROVE  Over(over, g, own, d)
<1> SUFFICES ASSUME NEW t \in over
             PROVE  \E e \in g :
                      /\ e.turn = t /\ e.kind = "ended"
                      /\ e.at[1] < own \/ (e.at[1] = own /\ e.at[2] <= d)
  BY DEF Over
<1>1. PICK e \in h :
        /\ e.turn = t /\ e.kind = "ended"
        /\ e.at[1] < own \/ (e.at[1] = own /\ e.at[2] <= c)
  BY DEF Over
<1>2. e \in g /\ e.at[2] \in Nat
  <2>1. e \in Event
    OBVIOUS
  <2> QED BY <2>1 DEF Event
<1>3. e.at[2] <= c => e.at[2] <= d
  BY <1>2
<1> QED BY <1>1, <1>2, <1>3

(* What is over stays so in the next process.                               *)
LEMMA OverLater ==
  ASSUME NEW h, NEW own \in Streams, NEW n \in Nat, Numbered(h, own, n),
         NEW over, NEW c, Over(over, h, own, c)
  PROVE  Over(over, h, own + 1, 0)
<1>1. \A e \in h : e.at[1] < own + 1
  <2> TAKE e \in h
  <2>1. e.at[1] \in Nat /\ own \in Nat /\ e.at[1] <= own
    BY NumberedAt
  <2> QED BY <2>1
<1> QED BY <1>1 DEF Over

(* A turn is over when its end has been dealt with.                         *)
LEMMA OverObserved ==
  ASSUME NEW h, NEW own \in Streams, NEW n \in Nat, Numbered(h, own, n),
         NEW over, NEW c \in Nat, Over(over, h, own, c),
         NEW k \in Nat, c <= k, NEW e \in h, e.at = <<own, k>>
  PROVE  Over(Observe(e, over), h, own, k)
<1>1. Over(over, h, own, k)
  BY OverLasts DEF Numbered
<1>2. e.at[1] = own /\ e.at[2] <= k
  OBVIOUS
<1> QED BY <1>1, <1>2 DEF Over, Observe

(* No answer is asked of nothing.                                           *)
LEMMA NothingCovers ==
  ASSUME NEW place, NEW sh, NEW h, NEW own, NEW n
  PROVE  AnswersCover(<<>>, place, sh, h, own, n)
<1>1. \A i \in 1..Len(<<>>) : FALSE
  BY EmptySeq
<1> QED BY <1>1 DEF AnswersCover

(* An event of a turn that is over is dropped: its turn is not in order.    *)
LEMMA DroppedCovers ==
  ASSUME NEW h, NEW own \in Streams, NEW n \in Nat, Numbered(h, own, n),
         NEW place \in Places, NEW screen \in Screens, NEW gone, NEW left,
         NEW m \in Message, Comes(m, h, own, n), ~NotAhead(place, m.position),
         Fenced(place, screen, h, own, n, gone,
                {m.position.cursor} \cup left),
         NEW over, Over(over, h, own, Reach(place, own)), m.event.turn \in over
  PROVE  Fenced(place, screen, h, own, n, gone, left)
<1>1. PICK k \in 1..n, e \in h :
        /\ k = m.position.cursor /\ m.position.stream = own
        /\ e = m.event /\ e.at = <<own, k>>
  BY DEF Comes, OnItsWay
<1>2. PICK c \in Nat : c = Reach(place, own)
  BY ReachType
<1>3. c < k
  BY <1>1, <1>2 DEF NotAhead, Reach, NoPosition, Streams
<1>4. PICK x \in h :
        /\ x.turn = e.turn /\ x.kind = "ended"
        /\ x.at[1] < own \/ (x.at[1] = own /\ x.at[2] <= c)
  BY <1>1, <1>2 DEF Over
<1>5. Before(x.at, e.at)
  <2>1. x.at[2] \in Nat /\ e.at[1] = own /\ e.at[2] = k
    BY <1>1, NumberedAt, SMTT(30)
  <2> QED BY <1>3, <1>4, <2>1 DEF Before
<1>6. ~Straight(h, e.turn)
  BY <1>4, <1>5 DEF Straight
<1>7. Accounted(h, own, c, gone, left)
  <2> SUFFICES ASSUME NEW y \in h, y.at[1] = own, y.at[2] > c,
                      Straight(h, y.turn), y.at \notin gone
               PROVE  y.at[2] \in left
    BY DEF Accounted
  <2>1. y.at[2] \in {k} \cup left
    BY <1>1, <1>2 DEF Fenced, Covers, Accounted
  <2>2. y.at[2] # k
    <3> SUFFICES ASSUME y.at[2] = k PROVE FALSE
      OBVIOUS
    <3>1. y.at = e.at
      BY <1>1, NumberedAt, ZenonT(30)
    <3> QED BY <1>6, <3>1 DEF Numbered
  <2> QED BY <2>1, <2>2
<1> QED BY <1>2, <1>7 DEF Fenced, Covers

(* Held events are released over a place and a screen that cover what they  *)
(* were before, and the read is over, or another one begins.                *)
LEMMA FreshReadCovers ==
  ASSUME NEW h, NEW own, NEW n, NEW u,
         Fenced(applied', painted', h, own, n, lost',
                Cursors(transit') \cup u),
         Over(settled', h, own, Reach(applied', own)),
         Queue(transit', h, own, n), Precede(Cursors(transit'), u),
         held' = <<>>, read'.answer = <<>>
  PROVE  ClientCovers(h, own, n, u)'
<1>1. Queue(held', h, own, n) /\ Cursors(held') = {}
  BY EmptyQueue
<1>2. AnswersCover(read'.answer, applied', Shown(painted'), h, own, n)
  BY NothingCovers
<1>3. /\ Precede(Cursors(held'), Cursors(transit') \cup u)
      /\ Cursors(held') \cup (Cursors(transit') \cup u)
           = Cursors(transit') \cup u
  BY <1>1 DEF Precede
<1> QED BY <1>1, <1>2, <1>3 DEF ClientCovers

(* The types of the client, one by one.                                     *)
LEMMA ClientParts ==
  ASSUME ClientIsTyped
  PROVE  /\ applied \in Places /\ painted \in Screens
         /\ held \in Seq(Message) /\ transit \in Seq(Message)
BY DEF ClientIsTyped, TypeOK, ReadIsTyped, Places

(* Release deals with all that was held.                                    *)
LEMMA ReleaseCovers ==
  ASSUME ClientIsTyped, NEW h, NEW own \in Streams, NEW n \in Nat,
         Numbered(h, own, n), NEW u, ClientCovers(h, own, n, u),
         NEW place \in Places, NEW screen \in Screens,
         Fenced(place, screen, h, own, n, lost,
                Cursors(held) \cup (Cursors(transit) \cup u)),
         Reach(applied, own) <= Reach(place, own), Release(place, screen)
  PROVE  /\ Fenced(applied', painted', h, own, n, lost,
                   Cursors(transit) \cup u)
         /\ Over(settled, h, own, Reach(applied', own))
         /\ held' = <<>>
<1>1. PICK r : r = Released(place, screen)
  OBVIOUS
<1>2. PICK rest : rest = Cursors(transit) \cup u
  OBVIOUS
<1>3. held \in Seq(Message) /\ applied \in Places
  BY ClientParts
<1>4. /\ Fenced(r.position, r.screen, h, own, n, lost, rest)
      /\ Reach(place, own) <= Reach(r.position, own)
  BY <1>1, <1>2, <1>3, ReleasedCovers DEF ClientCovers
<1>5. applied' = r.position /\ painted' = r.screen /\ held' = <<>>
  BY <1>1 DEF Release
<1>6. PICK c \in Nat, d \in Nat :
        c = Reach(applied, own) /\ d = Reach(r.position, own) /\ c <= d
  <2>1. r.position \in Places
    BY <1>1, <1>3, ReleasedType
  <2>2. /\ Reach(applied, own) \in Nat /\ Reach(r.position, own) \in Nat
        /\ Reach(place, own) \in Nat
    BY <1>3, <2>1, ReachType
  <2> QED BY <1>4, <2>2
<1>7. Over(settled, h, own, d)
  BY <1>6, OverLasts DEF ClientCovers, Numbered
<1> QED BY <1>2, <1>4, <1>5, <1>6, <1>7

(* A lost event is gone, and not pending any more.                          *)
LEMMA LoseKeepsCover ==
  ASSUME ClientIsTyped, NEW h, NEW own \in Streams, NEW n \in Nat,
         Numbered(h, own, n), NEW u, ClientCovers(h, own, n, u), Lose
  PROVE  ClientCovers(h, own, n, u)'
<1>1. /\ UNCHANGED <<applied, read, held, settled, painted>>
      /\ transit # <<>> /\ transit' = Tail(transit)
      /\ lost' = lost \cup {Head(transit).event.at}
  BY DEF Lose
<1>2. PICK m, s, more : m = Head(transit) /\ s = Tail(transit) /\ more = lost'
  OBVIOUS
<1>3. /\ Comes(m, h, own, n) /\ Queue(s, h, own, n)
      /\ Cursors(transit) = {m.position.cursor} \cup Cursors(s)
  BY <1>1, <1>2, ClientParts, ShorterQueue DEF ClientCovers
<1>4. /\ Precede(Cursors(held), Cursors(s) \cup u) /\ Precede(Cursors(s), u)
  BY <1>3 DEF ClientCovers, Precede
<1>5. PICK pend, left :
        /\ pend = Cursors(held) \cup (Cursors(transit) \cup u)
        /\ left = Cursors(held) \cup (Cursors(s) \cup u)
  OBVIOUS
<1>6. PICK c \in Nat : c = Reach(applied, own)
  BY ClientParts, ReachType
<1>7. \A j \in pend : j \in left \/ <<own, j>> \in more
  BY <1>1, <1>2, <1>3, <1>5 DEF Comes, OnItsWay
<1>8. Covers(h, own, n, c, more, Shown(painted), left)
  <2>1. Covers(h, own, n, c, lost, Shown(painted), pend)
    BY <1>5, <1>6 DEF ClientCovers, Fenced
  <2>2. lost \subseteq more
    BY <1>1, <1>2
  <2> QED BY <1>7, <2>1, <2>2, FewerPending
<1>9. Fenced(applied, painted, h, own, n, more, left)
  BY <1>6, <1>8 DEF ClientCovers, Fenced
<1> QED BY <1>1, <1>2, <1>3, <1>4, <1>5, <1>9 DEF ClientCovers

(* An event that is delivered is held, painted, or dropped.                 *)
LEMMA DeliverKeepsCover ==
  ASSUME ClientIsTyped, NEW h, NEW own \in Streams, NEW n \in Nat,
         Numbered(h, own, n), NEW u, ClientCovers(h, own, n, u), Deliver
  PROVE  ClientCovers(h, own, n, u)'
<1>1. /\ UNCHANGED <<lost, read>> /\ transit # <<>> /\ transit' = Tail(transit)
  BY DEF Deliver
<1>2. PICK m \in Message : m = Head(transit)
  BY <1>1, HeadOfTransit
<1>3. PICK s : s = Tail(transit)
  OBVIOUS
<1>4. /\ Comes(m, h, own, n) /\ Queue(s, h, own, n)
      /\ Cursors(transit) = {m.position.cursor} \cup Cursors(s)
      /\ Precede({m.position.cursor}, Cursors(s))
  BY <1>1, <1>2, <1>3, ClientParts, ShorterQueue DEF ClientCovers
<1>5. /\ Precede({m.position.cursor}, Cursors(s) \cup u)
      /\ Precede(Cursors(s), u) /\ Precede(Cursors(held), {m.position.cursor})
      /\ Precede(Cursors(held), Cursors(s) \cup u)
  BY <1>4 DEF ClientCovers, Precede
<1>6. CASE Reading
  <2>1. PICK more : more = Append(held, m)
    OBVIOUS
  <2>2. held' = more /\ UNCHANGED <<applied, settled, painted>>
    BY <1>2, <1>6, <2>1 DEF Deliver
  <2>3. /\ Queue(more, h, own, n)
        /\ Cursors(more) = Cursors(held) \cup {m.position.cursor}
    BY <1>4, <1>5, <2>1, ClientParts, LongerQueue DEF ClientCovers
  <2>4. Precede(Cursors(more), Cursors(s) \cup u)
    BY <1>5, <2>3 DEF Precede
  <2>5. Cursors(held) \cup (Cursors(transit) \cup u)
          = Cursors(more) \cup (Cursors(s) \cup u)
    BY <1>4, <2>3
  <2>6. Fenced(applied, painted, h, own, n, lost,
               Cursors(more) \cup (Cursors(s) \cup u))
    BY <2>5 DEF ClientCovers
  <2> QED BY <1>1, <1>3, <1>4, <1>5, <1>6, <2>2, <2>3, <2>4, <2>6
          DEF ClientCovers, Reading
<1>7. CASE ~Reading
  <2>1. Admit(m) /\ UNCHANGED held
    BY <1>2, <1>7 DEF Deliver
  <2>2. read.answer = <<>> /\ held = <<>> /\ Cursors(held) = {}
    BY <1>7, EmptyQueue DEF ClientCovers, Reading
  <2>3. PICK left : left = Cursors(s) \cup u
    OBVIOUS
  <2>4. PICK place \in Places, screen \in Screens :
          place = applied /\ screen = painted
    BY ClientParts
  <2>5. Fenced(place, screen, h, own, n, lost, {m.position.cursor} \cup left)
    <3>1. Cursors(held) \cup (Cursors(transit) \cup u)
            = {m.position.cursor} \cup left
      BY <1>4, <2>2, <2>3
    <3> QED BY <2>4, <3>1 DEF ClientCovers
  <2>6. PICK c \in Nat : c = Reach(place, own) /\ Over(settled, h, own, c)
    BY <2>4, ReachType DEF ClientCovers
  <2>7. /\ Fenced(applied', painted', h, own, n, lost, left)
        /\ Over(settled', h, own, Reach(applied', own))
    <3>1. PICK to, shown :
            /\ to = IF NotAhead(place, m.position) THEN place
                    ELSE Advance(place, m.position)
            /\ shown = IF NotAhead(place, m.position) THEN screen
                       ELSE Paint(screen, m.event)
      OBVIOUS
    <3>2. /\ Fenced(to, shown, h, own, n, lost, left)
          /\ Reach(place, own) <= Reach(to, own)
      BY <1>4, <1>5, <2>3, <2>5, <3>1, LiveCovers
    <3>3. CASE NotAhead(place, m.position)
      <4>1. UNCHANGED <<applied, settled, painted>>
        BY <2>1, <2>4, <3>3 DEF Admit
      <4> QED BY <2>4, <2>6, <3>1, <3>2, <3>3, <4>1
    <3>4. CASE /\ ~NotAhead(place, m.position)
               /\ m.event.turn \in settled
               /\ UNCHANGED <<applied, settled, painted>>
      <4>1. Fenced(place, screen, h, own, n, lost, left)
        BY <1>4, <2>5, <2>6, <3>4, DroppedCovers
      <4> QED BY <2>4, <2>6, <3>4, <4>1
    <3>5. CASE /\ ~NotAhead(place, m.position)
               /\ applied' = to /\ painted' = shown
               /\ \E over \in {{}, settled} :
                    settled' = Observe(m.event, over)
      <4>1. PICK k \in 1..n : /\ m.position.stream = own
                              /\ m.position.cursor = k
                              /\ m.event.at = <<own, k>> /\ m.event \in h
        BY <1>4 DEF Comes, OnItsWay
      <4>2. Reach(to, own) = k
        BY <3>1, <3>5, <4>1 DEF Advance, Reach
      <4>3. PICK over \in {{}, settled} : settled' = Observe(m.event, over)
        BY <3>5
      <4>4. Over(over, h, own, c)
        BY <2>6 DEF Over
      <4>5. c <= k
        BY <2>6, <3>2, <4>2
      <4>6. Over(Observe(m.event, over), h, own, k)
        BY <4>1, <4>4, <4>5, OverObserved
      <4> QED BY <3>2, <3>5, <4>2, <4>3, <4>6
    <3> QED BY <2>1, <2>4, <3>1, <3>3, <3>4, <3>5 DEF Admit
  <2>8. held' = <<>> /\ read'.answer = <<>>
    BY <1>1, <2>1, <2>2
  <2> QED BY <1>1, <1>3, <1>4, <1>5, <2>3, <2>7, <2>8, FreshReadCovers
<1> QED BY <1>6, <1>7

(* A read begins with nothing held.                                         *)
LEMMA BeginReadKeepsCover ==
  ASSUME ClientIsTyped, NEW h, NEW own \in Streams, NEW n \in Nat,
         NEW u, ClientCovers(h, own, n, u), BeginRead
  PROVE  ClientCovers(h, own, n, u)'
<1>1. /\ UNCHANGED <<transit, lost, applied, held, settled, painted>>
      /\ read'.answer = <<>> /\ held = <<>>
  BY DEF BeginRead, ClientCovers, Reading
<1>2. Cursors(held) = {}
  BY <1>1, EmptyQueue
<1>3. Fenced(applied, painted, h, own, n, lost, Cursors(transit) \cup u)
  <2>1. Cursors(held) \cup (Cursors(transit) \cup u) = Cursors(transit) \cup u
    BY <1>2
  <2> QED BY <2>1 DEF ClientCovers
<1> QED BY <1>1, <1>3, FreshReadCovers DEF ClientCovers

(* The event that is being stored was recorded.                             *)
StoredIsRecorded ==
  \A i \in 1..Len(storing) :
    storing[i].line.event \in EventsOf(storing[i].session)

(* Every step stores only what was recorded.                                *)
LEMMA StoredStep ==
  ASSUME JournalTypeOK, StoredIsRecorded, [Next]_vars
  PROVE  StoredIsRecorded'
<1>1. ASSUME NEW s \in Session, NEW t \in Turn, NEW k \in Kind, Record(s, t, k)
      PROVE  StoredIsRecorded'
  <2>1. PICK e \in Event :
          /\ history' = [history EXCEPT ![s][stream] = Append(Recorded(s), e)]
          /\ LET q == Projected(sessions[s], e, sequence) IN
             storing' = <<[op |-> IF q.terminal THEN "discard" ELSE "append",
                           session |-> s,
                           line |-> [stream |-> stream, cursor |-> q.cursor,
                                     event |-> e]]>>
    BY <1>1, RecordFacts
  <2>2. e \in EventsOf(s)'
    <3>1. EventsOf(s)' = EventsOf(s) \cup {e}
      BY <2>1, EventsAfter
    <3> QED BY <3>1
  <2>3. PICK x : storing' = <<x>> /\ x.session = s /\ x.line.event = e
    BY <2>1
  <2>4. Len(<<x>>) = 1 /\ <<x>>[1] = x
    OBVIOUS
  <2>5. \A i \in 1..1 : i = 1
    OBVIOUS
  <2> QED BY <2>2, <2>3, <2>4, <2>5 DEF StoredIsRecorded
<1>2. ASSUME storing' = <<>>
      PROVE  StoredIsRecorded'
  <2>1. \A i \in 1..Len(<<>>) : FALSE
    BY EmptySeq
  <2> QED BY <1>2, <2>1 DEF StoredIsRecorded
<1>3. ASSUME UNCHANGED <<storing, history>>
      PROVE  StoredIsRecorded'
  BY <1>3 DEF StoredIsRecorded, EventsOf
<1> QED BY <1>1, <1>2, <1>3, NextSteps
        DEF JournalStep, Delete, Stored, Restart, journal

(* What is stored sets off.                                                 *)
LEMMA EmitKeepsCover ==
  ASSUME ClientIsTyped, JournalIsOrdered, StoredIsRecorded,
         NEW h, NEW own \in Streams, NEW n \in Nat, h = EventsOf(Watched),
         own = stream, n = Len(Recorded(Watched)),
         ClientCovers(h, own, n, Unsent), Emit
  PROVE  ClientCovers(h, own, n, {})'
<1>1. UNCHANGED <<lost, applied, read, held, settled, painted>>
  BY DEF Emit
<1>2. storing # <<>> /\ storing \in Seq(StoreOp) /\ Len(storing) <= 1
  BY DEF Emit, Stored, ClientIsTyped, TypeOK, JournalTypeOK
<1>3. PICK l \in Nat : l = Len(storing) /\ l # 0 /\ l <= 1
  BY <1>2, LenProperties, EmptySeq
<1>4. PICK o \in StoreOp : o = Head(storing) /\ o = storing[1]
  BY <1>2, HeadTailProperties
<1>5. 1 \in 1..Len(storing) /\ \A i \in 1..Len(storing) : i = 1
  BY <1>3
<1>6. /\ o.line.event.at = <<stream, Len(Recorded(o.session))>>
      /\ o.line.stream = stream /\ o.line.cursor = Len(Recorded(o.session))
      /\ o.line.event \in EventsOf(o.session)
  BY <1>4, <1>5 DEF JournalIsOrdered, LogsAreOrdered, Newest, StoredIsRecorded
<1>7. Unsent = IF o.session = Watched THEN {n} ELSE {}
  BY <1>4, <1>5 DEF Unsent, Unstored
<1>8. PICK m : m = [position |-> [stream |-> o.line.stream,
                                  cursor |-> o.line.cursor],
                    event |-> o.line.event]
  OBVIOUS
<1>9. m \in Message
  BY <1>4, <1>8 DEF StoreOp, Line, Message, Position
<1>10. transit' = IF o.session # Watched THEN transit ELSE Append(transit, m)
  BY <1>4, <1>8 DEF Emit
<1>11. CASE o.session # Watched
  BY <1>1, <1>7, <1>10, <1>11 DEF ClientCovers
<1>12. CASE o.session = Watched
  <2>1. /\ m.event.at = <<own, n>> /\ m.position.stream = own
        /\ m.position.cursor = n /\ m.event \in h
    BY <1>6, <1>8, <1>12
  <2>2. n # 0
    BY <1>9, <2>1, EventAt DEF Message
  <2>3. Comes(m, h, own, n)
    BY <2>1, <2>2 DEF Comes, OnItsWay
  <2>4. /\ Precede(Cursors(transit), {n})
        /\ Precede(Cursors(held), Cursors(transit) \cup {n})
    BY <1>7, <1>12 DEF ClientCovers
  <2>5. PICK more : more = Append(transit, m)
    OBVIOUS
  <2>6. /\ Queue(more, h, own, n) /\ Cursors(more) = Cursors(transit) \cup {n}
    BY <1>9, <2>1, <2>3, <2>4, <2>5, ClientParts, LongerQueue DEF ClientCovers
  <2>7. transit' = more
    BY <1>10, <1>12, <2>5
  <2>8. Cursors(more) \cup {} = Cursors(transit) \cup {n}
    BY <2>6
  <2>9. Precede(Cursors(more), {})
    BY DEF Precede
  <2> QED BY <1>1, <1>7, <1>12, <2>4, <2>6, <2>7, <2>8, <2>9 DEF ClientCovers
<1> QED BY <1>11, <1>12

(* The host answers a read.                                                 *)
LEMMA ServeKeepsCover ==
  ASSUME ClientIsTyped, JournalIsRight, JournalRuns,
         NEW h, NEW own \in Streams, NEW n \in Nat, h = EventsOf(Watched),
         own = stream, n = Len(Recorded(Watched)), Numbered(h, own, n),
         NEW u, ClientCovers(h, own, n, u), ServeBackfill \/ ServeSnapshot
  PROVE  ClientCovers(h, own, n, u)'
<1>1. /\ applied \in Places /\ painted \in Screens /\ JournalTypeOK
      /\ PlaceFits(applied, own, n) /\ Bounded(own, n, Shown(painted))
  BY DEF ClientIsTyped, TypeOK, ReadIsTyped, Places, ClientCovers, Fenced,
         Covers
<1>2. PICK c \in Nat, sh \in Shows :
        c = Reach(applied, own) /\ sh = Shown(painted)
  BY <1>1, ReachType, ShownType
<1>3. c <= n
  BY <1>1, <1>2 DEF PlaceFits, Reach
<1>4. PICK a : /\ Answer(a)
               /\ a.kind = "delta" => DeltaCovers(a, applied, h, own, n)
               /\ a.kind = "snapshot" =>
                    ShotCovers(a, applied, sh, h, own, n)
  <2>1. CASE ServeBackfill
    <3>1. PICK a : a = EventsSince(Watched, applied)
      OBVIOUS
    <3>2. a.kind \in {"snapshotRequired", "delta"}
      BY <3>1 DEF EventsSince, SnapshotRequired
    <3>3. ASSUME a.kind = "delta" PROVE DeltaCovers(a, applied, h, own, n)
      <4>1. /\ applied.stream = stream /\ a.cursor = n
            /\ a.cursor = applied.cursor + Len(a.events)
            /\ \A i \in 1..Len(a.events) :
                 /\ a.events[i].at = <<stream, applied.cursor + i>>
                 /\ applied.cursor + i \in 1..n
                 /\ a.events[i] = Recorded(Watched)[applied.cursor + i]
        BY <1>1, <3>1, <3>3, DeltaFacts DEF JournalIsRight, JournalIsOrdered
      <4>2. \A i \in 1..n : Recorded(Watched)[i] \in h
        BY <1>1, EventsNumbered, ClientConstants
           DEF JournalIsRight, JournalRuns
      <4>3. n <= n
        OBVIOUS
      <4> QED BY <4>1, <4>2, <4>3 DEF DeltaCovers, DeltaFits
    <3> QED BY <2>1, <3>1, <3>2, <3>3 DEF ServeBackfill
  <2>2. CASE ServeSnapshot
    <3>1. PICK a \in SnapshotAnswers : Answer(a)
      BY <2>2 DEF ServeSnapshot
    <3>2. CASE a = Inactive
      <4>1. a.kind = "inactive"
        BY <3>2 DEF Inactive
      <4> QED BY <3>1, <4>1
    <3>3. CASE a # Inactive
      <4>1. /\ a \in Shot
            /\ a.position.stream # own =>
                 n = 0 /\ a.position.stream < own
        BY <1>1, <3>3, ShotFacts, EmptySeq
      <4>2. a.position.stream <= own
        <5>1. a.position.stream \in Nat /\ own \in Nat
          BY <4>1 DEF Streams, Shot, Position
        <5> QED BY <4>1, <5>1
      <4>3. /\ a.position.stream = own =>
                 /\ a.position.cursor = n /\ RunsTo(a.events, own, n)
                 /\ \A x \in h : /\ x.at[1] = own /\ x.turn # a.turn
                                 /\ Straight(h, x.turn)
                                 => Passed(h, x, n)
            /\ a.position.stream # own =>
                 \E hi \in Nat : RunsTo(a.events, a.position.stream, hi)
        BY <1>1, <3>3, ShotRuns
      <4>4. \A t \in Turn : \A b \in sh[t] : b[1] = own => b[2] <= n
        BY <1>1, <1>2 DEF Bounded
      <4>5. ASSUME n = 0
            PROVE  /\ c = 0
                   /\ \A t \in Turn : \A b \in sh[t] : b[1] # own
        <5>1. \A t \in Turn : \A b \in sh[t] : b[2] \in Nat \ {0}
          BY ShownAt
        <5>2. \A t \in Turn : \A b \in sh[t] : b[1] = own => b[2] <= 0
          BY <4>4, <4>5
        <5>3. \A t \in Turn : \A b \in sh[t] : ~(b[2] <= 0)
          BY <5>1
        <5> QED BY <1>2, <1>3, <4>5, <5>2, <5>3
      <4>6. ShotCovers(a, applied, sh, h, own, n)
        <5>1. n <= n
          OBVIOUS
        <5> QED BY <1>2, <1>3, <4>1, <4>2, <4>3, <4>4, <4>5, <5>1
                DEF ShotCovers
      <4>7. a.kind = "snapshot"
        BY <4>1 DEF Shot
      <4> QED BY <3>1, <4>6, <4>7
    <3> QED BY <3>2, <3>3
  <2> QED BY <2>1, <2>2
<1>5. /\ UNCHANGED <<transit, lost, applied, held, settled, painted>>
      /\ read'.kind = read.kind /\ read'.answer = <<a>> /\ Reading
  <2>1. read = [kind |-> read.kind, answer |-> read.answer]
    BY DEF ClientIsTyped, ReadIsTyped
  <2> QED BY <1>4, <2>1 DEF Answer
<1>6. AnswersCover(read'.answer, applied, sh, h, own, n)
  <2>1. Len(<<a>>) = 1 /\ <<a>>[1] = a
    OBVIOUS
  <2> QED BY <1>4, <1>5, <2>1 DEF AnswersCover
<1> QED BY <1>2, <1>5, <1>6 DEF ClientCovers, Reading

(* The answer that is taken fits the place of the client.                   *)
LEMMA FirstAnswerCovers ==
  ASSUME ClientIsTyped, NEW h, NEW own, NEW n, NEW u,
         ClientCovers(h, own, n, u), read.answer # <<>>
  PROVE  LET a == Head(read.answer) IN
         /\ a \in Answers(read.kind)
         /\ a.kind = "delta" => DeltaCovers(a, applied, h, own, n)
         /\ a.kind = "snapshot" =>
              ShotCovers(a, applied, Shown(painted), h, own, n)
<1>1. read.answer \in Seq(Answers(read.kind))
  BY DEF ClientIsTyped, ReadIsTyped
<1>2. 1 \in 1..Len(read.answer) /\ Head(read.answer) = read.answer[1]
  BY <1>1, LenProperties, EmptySeq
<1> QED BY <1>2, AnswerAsked DEF ClientCovers, AnswersCover

(* A delta is painted, where the place is, and then up to its end.          *)
LEMMA DeltaPainted ==
  ASSUME NEW h, NEW own \in Streams, NEW n \in Nat, Numbered(h, own, n),
         NEW place \in Places, NEW screen \in Screens, NEW gone, NEW pend,
         Fenced(place, screen, h, own, n, gone, pend),
         NEW a \in Delta, DeltaCovers(a, place, h, own, n), a.events # <<>>,
         NEW to, to = [stream |-> place.stream, cursor |-> a.cursor]
  PROVE  /\ to \in Places /\ Advance(place, to) = to
         /\ Reach(place, own) <= Reach(to, own)
         /\ Fenced(place, PaintAll(screen, a.events), h, own, n, gone, pend)
         /\ Fenced(to, PaintAll(screen, a.events), h, own, n, gone, pend)
<1>1. PICK events \in Seq(Event), l \in Nat :
        events = a.events /\ l = Len(events) /\ l # 0
  BY LenProperties, EmptySeq DEF Delta
<1>2. PICK c \in Nat : c = place.cursor /\ c = Reach(place, own)
  BY DEF DeltaCovers, DeltaFits, Reach, Places, Position, NoPosition
<1>3. /\ place.stream = own /\ a.cursor = c + l /\ c + l <= n
      /\ \A i \in 1..l : events[i] \in h /\ events[i].at = <<own, c + i>>
  BY <1>1, <1>2 DEF DeltaCovers, DeltaFits
<1>4. PICK b \in Nat : b = c + l /\ c <= b /\ c < b /\ b <= n
  BY <1>1, <1>3
<1>5. to \in Places /\ to.stream = own /\ to.cursor = b
  BY <1>3, <1>4 DEF Places, Position
<1>6. Advance(place, to) = to /\ Reach(to, own) = b
  BY <1>2, <1>4, <1>5 DEF Advance, NotAhead, Reach
<1>7. PICK after \in Screens : after = PaintAll(screen, events)
  BY PaintAllType
<1>8. PICK sh \in Shows, more \in Shows :
        sh = Shown(screen) /\ more = Shown(after)
  BY ShownType
<1>9. \A t \in Turn : more[t] = sh[t] \cup
        {x.at : x \in {y \in h : /\ y.turn = t /\ y.at[1] = own
                                 /\ c < y.at[2] /\ y.at[2] <= b}}
  <2> TAKE t \in Turn
  <2>1. Shown(PaintAll(screen, events))[t]
          = Shown(screen)[t] \cup Batch(h, t, own, c, b)
    <3>1. Resumes(events, h, own, c)
      BY <1>1, <1>3 DEF Resumes
    <3>2. b = c + Len(events)
      BY <1>1, <1>4
    <3>3. /\ events \in Seq(Event) /\ screen \in Screens /\ t \in Turn
          /\ own \in Streams /\ n \in Nat /\ c \in Nat /\ b \in Nat
          /\ Numbered(h, own, n)
      BY <1>1, <1>2, <1>4
    <3> QED BY ONLY <3>1, <3>2, <3>3, DeltaShows
  <2>2. more[t] = sh[t] \cup Batch(h, t, own, c, b)
    BY <1>4, <1>7, <1>8, <2>1
  <2> QED BY <2>2 DEF Batch
<1>10. Covers(h, own, n, c, gone, more, pend)
  <2>1. Covers(h, own, n, c, gone, sh, pend)
    BY <1>2, <1>8 DEF Fenced
  <2> QED BY <1>9, <2>1, BatchCovers
<1>11. Covers(h, own, n, b, gone, more, pend)
  <2>1. PICK e \in h : e = events[l] /\ e.at = <<own, b>> /\ e.turn \in Turn
    <3>1. l \in 1..l
      BY <1>1
    <3> QED BY <1>3, <1>4, <3>1, NumberedAt
  <2>2. <<own, b>> \in more[e.turn]
    <3>1. e.at[1] = own /\ e.at[2] = b /\ c < b /\ b <= b
      BY <1>4, <2>1
    <3>2. PICK t \in Turn : t = e.turn
      BY <2>1
    <3>3. e \in {y \in h : /\ y.turn = t /\ y.at[1] = own
                          /\ c < y.at[2] /\ y.at[2] <= b}
      BY <2>1, <3>1, <3>2
    <3>4. e.at \in {x.at : x \in {y \in h : /\ y.turn = t /\ y.at[1] = own
                                          /\ c < y.at[2] /\ y.at[2] <= b}}
      BY ONLY <3>3
    <3>5. e.at \in more[t]
      BY <1>9, <3>4
    <3> QED BY ONLY <2>1, <3>2, <3>5
  <2> QED BY <1>4, <1>10, <2>1, <2>2, MoveCovers
<1>12. PlaceFits(to, own, n)
  BY <1>4, <1>5 DEF PlaceFits, Streams
<1>13. /\ Fenced(place, after, h, own, n, gone, pend)
       /\ Fenced(to, after, h, own, n, gone, pend)
  BY <1>2, <1>6, <1>8, <1>10, <1>11, <1>12 DEF Fenced
<1> QED BY <1>1, <1>2, <1>4, <1>5, <1>6, <1>7, <1>13

(* The answer of a backfill: a delta that is painted, or the hand-off.      *)
LEMMA FinishBackfillKeepsCover ==
  ASSUME ClientIsTyped, NEW h, NEW own \in Streams, NEW n \in Nat,
         Numbered(h, own, n), NEW u, ClientCovers(h, own, n, u),
         FinishBackfill
  PROVE  ClientCovers(h, own, n, u)'
<1>1. UNCHANGED <<transit, lost, settled>>
  BY DEF FinishBackfill
<1>2. PICK a : /\ a = Head(read.answer) /\ a \in {SnapshotRequired} \cup Delta
               /\ a.kind = "delta" => DeltaCovers(a, applied, h, own, n)
  BY FirstAnswerCovers DEF FinishBackfill, Answers
<1>3. /\ applied \in Places /\ painted \in Screens
      /\ Fenced(applied, painted, h, own, n, lost,
                Cursors(held) \cup (Cursors(transit) \cup u))
  BY ClientParts DEF ClientCovers
<1>4. PICK pend : pend = Cursors(held) \cup (Cursors(transit) \cup u)
  OBVIOUS
<1>5. CASE a.kind = "delta" /\ a.events # <<>>
  <2>1. a \in Delta /\ a.events \in Seq(Event)
    BY <1>2, <1>5 DEF SnapshotRequired, Delta
  <2>2. PICK to : to = [stream |-> applied.stream, cursor |-> a.cursor]
    OBVIOUS
  <2>3. PICK screen \in Screens : screen = PaintAll(painted, a.events)
    BY <1>3, <2>1, PaintAllType
  <2>4. /\ to \in Places /\ Advance(applied, to) = to
        /\ Reach(applied, own) <= Reach(to, own)
        /\ Fenced(applied, screen, h, own, n, lost, pend)
        /\ Fenced(to, screen, h, own, n, lost, pend)
    <3>1. Fenced(applied, painted, h, own, n, lost, pend)
          /\ DeltaCovers(a, applied, h, own, n)
      BY <1>2, <1>3, <1>4, <1>5
    <3>2. /\ to \in Places /\ Advance(applied, to) = to
          /\ Reach(applied, own) <= Reach(to, own)
          /\ Fenced(applied, PaintAll(painted, a.events), h, own, n, lost, pend)
          /\ Fenced(to, PaintAll(painted, a.events), h, own, n, lost, pend)
      BY <1>3, <1>5, <2>1, <2>2, <3>1, DeltaPainted, SMTT(60)
    <3> QED BY <2>3, <3>2
  <2>5. CASE Release(to, screen) /\ read' = NoRead
    <3>1. /\ Fenced(applied', painted', h, own, n, lost,
                    Cursors(transit) \cup u)
          /\ Over(settled, h, own, Reach(applied', own)) /\ held' = <<>>
      BY <1>4, <2>4, <2>5, ReleaseCovers
    <3> QED BY <1>1, <2>5, <3>1, FreshReadCovers DEF NoRead, ClientCovers
  <2>6. CASE painted' = screen /\ HandOff
    <3>1. /\ UNCHANGED <<applied, held>>
          /\ read' = [kind |-> "snapshot", answer |-> <<>>]
      BY <2>6 DEF HandOff
    <3>2. AnswersCover(<<>>, applied, Shown(screen), h, own, n)
      BY NothingCovers
    <3> QED BY <1>1, <1>4, <2>4, <2>6, <3>1, <3>2 DEF ClientCovers
  <2> QED BY <1>2, <1>5, <2>2, <2>3, <2>4, <2>5, <2>6
          DEF FinishBackfill, Settle
<1>6. CASE ~(a.kind = "delta" /\ a.events # <<>>)
  <2>1. /\ read' = [kind |-> "snapshot", answer |-> <<>>]
        /\ UNCHANGED <<applied, held, painted>>
    BY <1>2, <1>6 DEF FinishBackfill, HandOff
  <2>2. AnswersCover(<<>>, applied, Shown(painted), h, own, n)
    BY NothingCovers
  <2> QED BY <1>1, <2>1, <2>2 DEF ClientCovers
<1> QED BY <1>5, <1>6

(* A snapshot, painted or not: the place goes on to its end.                *)
LEMMA ShotPainted ==
  ASSUME NEW h, NEW own \in Streams, NEW n \in Nat, Numbered(h, own, n),
         NEW place \in Places, painted \in Screens, NEW gone, NEW pend,
         Fenced(place, painted, h, own, n, gone, pend),
         NEW a \in Shot, ShotCovers(a, place, Shown(painted), h, own, n),
         NEW to \in Places, to = Advance(place, a.position)
  PROVE  /\ Reach(place, own) <= Reach(to, own)
         /\ Fenced(to, Replayed(a), h, own, n, gone, pend)
<1>1. PICK p \in Streams, q \in Nat, turn \in Turn :
        p = a.position.stream /\ q = a.position.cursor /\ turn = a.turn
  BY DEF Shot, Position
<1>2. PICK c \in Nat : c = Reach(place, own)
  BY ReachType
<1>3. PICK after \in Screens : after = Replayed(a)
  BY ReplayedType
<1>4. PICK sh \in Shows, more \in Shows :
        sh = Shown(painted) /\ more = Shown(after)
  BY ShownType
<1>5. Covers(h, own, n, c, gone, sh, pend)
  BY <1>2, <1>4 DEF Fenced
<1>6. CASE p = own
  <2>1. /\ c <= q /\ q <= n /\ RunsTo(a.events, own, q)
        /\ \A t \in Turn : \A b \in sh[t] : b[1] = own => b[2] <= q
        /\ \A x \in h : /\ x.at[1] = own /\ x.at[2] <= q /\ x.turn # turn
                        /\ Straight(h, x.turn)
                        => Passed(h, x, q)
    BY <1>1, <1>2, <1>4, <1>6 DEF ShotCovers
  <2>2. PICK lo \in 0..q : Replays(more, sh, turn, own, lo, q)
    BY <1>1, <1>3, <1>4, <2>1, ReplayShows
  <2>3. Covers(h, own, n, q, gone, more, pend)
    BY <1>5, <2>1, <2>2, SnapshotCovers
  <2>4. Reach(to, own) = q /\ PlaceFits(to, own, n)
    <3>1. a.position = to \/ (NotAhead(place, a.position) /\ to = place)
      BY DEF Advance
    <3>2. NotAhead(place, a.position) => place.stream = own /\ place.cursor = q
      <4> SUFFICES ASSUME NotAhead(place, a.position)
                   PROVE  place.stream = own /\ place.cursor = q
        OBVIOUS
      <4>1. place.stream = own /\ q <= place.cursor /\ place.cursor = c
        BY <1>1, <1>2, <1>6 DEF NotAhead, Reach
      <4> QED BY <2>1, <4>1
    <3>3. to.stream = own /\ to.cursor = q
      BY <1>1, <1>6, <3>1, <3>2
    <3> QED BY <2>1, <3>3 DEF Reach, PlaceFits, Streams
  <2> QED BY <1>2, <1>3, <1>4, <2>1, <2>3, <2>4 DEF Fenced
<1>7. CASE p # own
  <2>1. /\ p < own /\ c = 0
        /\ \A t \in Turn : \A b \in sh[t] : b[1] # own
    <3>1. p <= own
      BY <1>1 DEF ShotCovers
    <3>2. p \in Nat /\ own \in Nat
      BY DEF Streams
    <3> QED BY <1>1, <1>2, <1>4, <1>7, <3>1, <3>2 DEF ShotCovers
  <2>2. PICK hi \in Nat : RunsTo(a.events, p, hi)
    BY <1>1, <1>7 DEF ShotCovers
  <2>3. PICK lo \in 0..hi : Replays(more, sh, turn, p, lo, hi)
    BY <1>1, <1>3, <1>4, <2>2, ReplayShows
  <2>4. Covers(h, own, n, 0, gone, more, pend)
    <3>1. lo \in Nat
      OBVIOUS
    <3>2. Covers(h, own, n, 0, gone, sh, pend)
      BY <1>5, <2>1
    <3>3. /\ own \in Streams /\ n \in Nat /\ p \in Streams /\ turn \in Turn
          /\ hi \in Nat /\ sh \in Shows /\ more \in Shows
          /\ Numbered(h, own, n)
      BY <1>1, <1>4, <2>2
    <3> QED BY <2>1, <2>3, <3>1, <3>2, <3>3, OlderCovers
  <2>5. Reach(to, own) = 0 /\ PlaceFits(to, own, n)
    <3>1. to = a.position \/ to = place
      BY DEF Advance
    <3>2. CASE to = a.position
      BY <1>1, <1>7, <2>1, <3>2 DEF Reach, PlaceFits, Streams
    <3>3. CASE to = place
      BY <1>2, <2>1, <3>3 DEF Fenced
    <3> QED BY <3>1, <3>2, <3>3
  <2>6. 0 <= 0
    OBVIOUS
  <2> QED BY <1>2, <1>3, <1>4, <2>1, <2>4, <2>5, <2>6 DEF Fenced
<1> QED BY <1>6, <1>7

(* A snapshot that is no news is not painted.                               *)
LEMMA ShotKnown ==
  ASSUME ClientIsTyped, NEW a \in Shot, ~RequiresReplay(a)
  PROVE  Advance(applied, a.position) = applied
<1>1. /\ applied # NoPosition /\ applied.stream = a.position.stream
      /\ ~(applied.cursor < a.position.cursor)
  BY DEF RequiresReplay
<1>2. applied.cursor \in Nat /\ a.position.cursor \in Nat
  BY ClientParts DEF Places, Position, NoPosition, Shot
<1> QED BY <1>1, <1>2 DEF Advance, NotAhead

(* The answer of a snapshot, and the release of what was held.              *)
LEMMA FinishSnapshotKeepsCover ==
  ASSUME ClientIsTyped, NEW h, NEW own \in Streams, NEW n \in Nat,
         Numbered(h, own, n), NEW u, ClientCovers(h, own, n, u),
         FinishSnapshot
  PROVE  ClientCovers(h, own, n, u)'
<1>1. UNCHANGED <<transit, lost, settled>> /\ read' = NoRead
  BY DEF FinishSnapshot
<1>2. PICK a : /\ a = Head(read.answer) /\ a \in {Inactive} \cup Shot
               /\ a.kind = "snapshot" =>
                    ShotCovers(a, applied, Shown(painted), h, own, n)
  <2>1. read.kind # "backfill" /\ read.answer # <<>>
    BY DEF FinishSnapshot
  <2> QED BY <2>1, FirstAnswerCovers DEF Answers
<1>3. PICK pend : pend = Cursors(held) \cup (Cursors(transit) \cup u)
  OBVIOUS
<1>4. PICK c \in Nat :
        /\ applied \in Places /\ painted \in Screens
        /\ Fenced(applied, painted, h, own, n, lost, pend)
        /\ c = Reach(applied, own) /\ c <= c
  BY <1>3, ClientParts, ReachType DEF ClientCovers
<1>5. PICK place \in Places, screen \in Screens :
        /\ Fenced(place, screen, h, own, n, lost, pend)
        /\ c <= Reach(place, own) /\ Release(place, screen)
  <2>1. CASE a = Inactive
    <3>1. Release(applied, painted)
      BY <1>2, <2>1 DEF FinishSnapshot, Abandon
    <3> QED BY <1>4, <3>1
  <2>2. CASE a # Inactive
    <3>1. /\ a \in Shot /\ a.kind = "snapshot" /\ a.position \in Places
          /\ ShotCovers(a, applied, Shown(painted), h, own, n)
      BY <1>2, <2>2 DEF Shot, Places
    <3>2. CASE Release(Advance(applied, a.position), Replayed(a))
      <4>1. PICK place \in Places : place = Advance(applied, a.position)
        BY <1>4, <3>1, AdvanceType
      <4>2. PICK screen \in Screens : screen = Replayed(a)
        BY <1>4, <3>1, ReplayedType
      <4>3. /\ Reach(applied, own) <= Reach(place, own)
            /\ Fenced(place, Replayed(a), h, own, n, lost, pend)
        BY <1>4, <3>1, <4>1, ShotPainted
      <4> QED BY <1>4, <3>2, <4>1, <4>2, <4>3
    <3>3. CASE Settle(a.position, painted) /\ ~RequiresReplay(a)
      <4>1. Advance(applied, a.position) = applied
        BY <3>1, <3>3, ShotKnown
      <4>2. Release(applied, painted)
        BY <3>3, <4>1 DEF Settle
      <4> QED BY <1>4, <4>2
    <3> QED BY <1>2, <2>2, <3>2, <3>3 DEF FinishSnapshot
  <2> QED BY <2>1, <2>2
<1>6. /\ Fenced(applied', painted', h, own, n, lost, Cursors(transit) \cup u)
      /\ Over(settled, h, own, Reach(applied', own)) /\ held' = <<>>
  BY <1>3, <1>4, <1>5, ReleaseCovers
<1> QED BY <1>1, <1>6, FreshReadCovers DEF NoRead, ClientCovers

(* A read that is given up releases what was held.                          *)
LEMMA GiveUpCovers ==
  ASSUME ClientIsTyped, NEW h, NEW own \in Streams, NEW n \in Nat,
         Numbered(h, own, n), NEW u, ClientCovers(h, own, n, u), GiveUp
  PROVE  /\ Fenced(applied', painted', h, own, n, lost, Cursors(transit) \cup u)
         /\ Over(settled, h, own, Reach(applied', own))
         /\ held' = <<>> /\ read'.answer = <<>>
         /\ applied' \in Places /\ painted' \in Screens
<1>1. Release(applied, painted)
  BY DEF GiveUp, Abandon
<1>2. PICK pend : pend = Cursors(held) \cup (Cursors(transit) \cup u)
  OBVIOUS
<1>3. /\ applied \in Places /\ painted \in Screens
      /\ Fenced(applied, painted, h, own, n, lost, pend)
  BY <1>2, ClientParts DEF ClientCovers
<1>4. Reach(applied, own) <= Reach(applied, own)
  <2>1. Reach(applied, own) \in Nat
    BY <1>3, ReachType
  <2> QED BY <2>1
<1>5. /\ Fenced(applied', painted', h, own, n, lost, Cursors(transit) \cup u)
      /\ Over(settled, h, own, Reach(applied', own)) /\ held' = <<>>
  BY <1>1, <1>2, <1>3, <1>4, ReleaseCovers
<1>6. read'.answer = <<>>
  BY GiveUpType DEF NoRead
<1> QED BY <1>5, <1>6, GiveUpType

(* A read fails, and releases what was held.                                *)
LEMMA FailReadKeepsCover ==
  ASSUME ClientIsTyped, NEW h, NEW own \in Streams, NEW n \in Nat,
         Numbered(h, own, n), NEW u, ClientCovers(h, own, n, u), FailRead
  PROVE  ClientCovers(h, own, n, u)'
<1>1. UNCHANGED <<transit, lost, settled>> /\ GiveUp
  BY DEF FailRead
<1>2. /\ Fenced(applied', painted', h, own, n, lost, Cursors(transit) \cup u)
      /\ Over(settled, h, own, Reach(applied', own))
      /\ held' = <<>> /\ read'.answer = <<>>
  BY <1>1, GiveUpCovers
<1> QED BY <1>1, <1>2, FreshReadCovers DEF ClientCovers

(* A client that kept up with a process has seen nothing of the next.       *)
LEMMA RestartFenced ==
  ASSUME NEW h, NEW own \in Streams, NEW n \in Nat, Numbered(h, own, n),
         NEW place \in Places, NEW screen \in Screens, NEW gone, NEW pend,
         Fenced(place, screen, h, own, n, gone, pend),
         NEW more, gone \subseteq more, NEW left
  PROVE  /\ Reach(place, own + 1) = 0
         /\ Fenced(place, screen, h, own + 1, 0, more, left)
<1>1. /\ place.stream \in Nat /\ place.stream <= own /\ own \in Nat
      /\ place.stream # own + 1 /\ place.stream <= own + 1
  <2>1. place.stream \in Nat /\ own \in Nat /\ place.stream <= own
    BY DEF Places, Position, NoPosition, Streams, Fenced, PlaceFits
  <2> QED BY <2>1
<1>2. Reach(place, own + 1) = 0 /\ PlaceFits(place, own + 1, 0)
  BY <1>1 DEF Reach, PlaceFits
<1>3. PICK sh \in Shows, c \in Nat :
        sh = Shown(screen) /\ c = Reach(place, own)
  BY ShownType, ReachType
<1>4. Covers(h, own + 1, 0, 0, more, sh, left)
  <2>1. Covers(h, own, n, c, gone, sh, pend)
    BY <1>3 DEF Fenced
  <2> QED BY <2>1, RestartCovers
<1> QED BY <1>2, <1>3, <1>4 DEF Fenced

(* The host restarts: the read in flight ends with it, and what was on the  *)
(* way or held is of an older process from now on.                          *)
LEMMA HostRestartKeepsCover ==
  ASSUME ClientIsTyped, TailsAreSuffixes, ~ReadsOutliveHost,
         NEW h, NEW own \in Streams, NEW n \in Nat, own = stream,
         Numbered(h, own, n), NEW u, ClientCovers(h, own, n, u), HostRestart
  PROVE  /\ stream' = own + 1 /\ Len(Recorded(Watched))' = 0
         /\ UNCHANGED history /\ Unsent' = {}
         /\ ClientCovers(h, own + 1, 0, {})'
<1>1. /\ stream' = own + 1 /\ own + 1 \in Streams /\ storing' = <<>>
      /\ history' = history /\ transit' = <<>> /\ settled' = settled
      /\ lost \subseteq lost'
  BY ClientConstants, JournalConstants
     DEF HostRestart, Restart, Streams, ClientIsTyped, TypeOK, JournalTypeOK
<1>2. Len(Recorded(Watched))' = 0
  <2>1. history[Watched][own + 1] = <<>>
    <3>1. own + 1 > stream
      BY <1>1 DEF Streams
    <3> QED BY <1>1, <3>1, ClientConstants DEF TailsAreSuffixes
  <2> QED BY <1>1, <2>1, EmptySeq DEF Recorded
<1>3. Unsent' = {}
  <2>1. \A i \in 1..Len(<<>>) : FALSE
    BY EmptySeq
  <2> QED BY <1>1, <2>1 DEF Unsent, Unstored
<1>4. PICK pend :
        /\ Fenced(applied', painted', h, own, n, lost, pend)
        /\ Over(settled, h, own, Reach(applied', own))
        /\ applied' \in Places /\ painted' \in Screens
        /\ held' = <<>> /\ read'.answer = <<>>
  <2>1. CASE GiveUp
    BY <2>1, GiveUpCovers
  <2>2. CASE ~Reading /\ UNCHANGED <<applied, read, held, painted>>
    BY <2>2, ClientParts DEF ClientCovers, Reading
  <2> QED BY <2>1, <2>2 DEF HostRestart
<1>5. PICK place \in Places, screen \in Screens :
        place = applied' /\ screen = painted'
  BY <1>4
<1>6. PICK more : more = lost'
  OBVIOUS
<1>7. /\ Reach(place, own + 1) = 0
      /\ Fenced(place, screen, h, own + 1, 0, more, {})
  BY <1>1, <1>4, <1>5, <1>6, RestartFenced
<1>8. Over(settled, h, own + 1, 0)
  BY <1>4, OverLater
<1>9. /\ Queue(transit', h, own + 1, 0) /\ Cursors(transit') = {}
  BY <1>1, EmptyQueue
<1>10. Cursors(transit') \cup {} = {} /\ Precede(Cursors(transit'), {})
  BY <1>9 DEF Precede
<1>11. ClientCovers(h, own + 1, 0, {})'
  BY <1>1, <1>4, <1>5, <1>6, <1>7, <1>8, <1>9, <1>10, FreshReadCovers
<1> QED BY <1>1, <1>2, <1>3, <1>11

(* Another event is recorded: the answers to come are as good as before.    *)
LEMMA AnswersCoverMore ==
  ASSUME NEW h, NEW own \in Streams, NEW n \in Nat, Numbered(h, own, n),
         NEW e \in Event, e.at = <<own, n + 1>>, NEW g, g = h \cup {e},
         \A t : Straight(g, t) => Straight(h, t),
         NEW place, NEW sh, NEW answers,
         \A i \in 1..Len(answers) :
           answers[i] \in {SnapshotRequired, Inactive} \cup Delta \cup Shot,
         AnswersCover(answers, place, sh, h, own, n)
  PROVE  AnswersCover(answers, place, sh, g, own, n + 1)
<1> SUFFICES ASSUME NEW i \in 1..Len(answers)
             PROVE  LET a == answers[i] IN
                    /\ a.kind = "delta" => DeltaCovers(a, place, g, own, n + 1)
                    /\ a.kind = "snapshot" =>
                         ShotCovers(a, place, sh, g, own, n + 1)
  BY DEF AnswersCover
<1>1. PICK a \in {SnapshotRequired, Inactive} \cup Delta \cup Shot :
        a = answers[i]
  OBVIOUS
<1>2. /\ a.kind = "delta" => DeltaCovers(a, place, h, own, n)
      /\ a.kind = "snapshot" => ShotCovers(a, place, sh, h, own, n)
  BY <1>1 DEF AnswersCover
<1>3. ASSUME a.kind = "delta"
      PROVE  DeltaCovers(a, place, g, own, n + 1)
  <2>1. a.cursor \in Nat
    BY <1>3 DEF SnapshotRequired, Inactive, Delta, Shot
  <2>2. a.cursor <= n => a.cursor <= n + 1
    BY <2>1
  <2> QED BY <1>2, <1>3, <2>2 DEF DeltaCovers, DeltaFits
<1>4. ASSUME a.kind = "snapshot"
      PROVE  ShotCovers(a, place, sh, g, own, n + 1)
  <2>1. PICK q \in Nat : q = a.position.cursor
    BY <1>4 DEF SnapshotRequired, Inactive, Delta, Shot, Position
  <2>2. ShotCovers(a, place, sh, h, own, n)
    BY <1>2, <1>4
  <2>3. q <= n => q <= n + 1
    OBVIOUS
  <2>4. ASSUME a.position.stream = own, NEW x \in g, x.at[1] = own,
               x.at[2] <= q, x.turn # a.turn, Straight(g, x.turn)
        PROVE  Passed(g, x, q)
    <3>1. x # e
      <4>1. e.at[2] = n + 1 /\ q <= n
        BY <2>1, <2>2, <2>4 DEF ShotCovers
      <4>2. ~(n + 1 <= q)
        BY <4>1
      <4> QED BY <2>4, <4>1, <4>2
    <3>2. Passed(h, x, q)
      BY <2>1, <2>2, <2>4, <3>1 DEF ShotCovers
    <3> QED BY <3>2 DEF Passed
  <2> QED BY <2>1, <2>2, <2>3, <2>4 DEF ShotCovers
<1> QED BY <1>1, <1>3, <1>4

(* An event is recorded: it is ahead of the client, and about to set off.   *)
LEMMA RecordKeepsCover ==
  ASSUME ClientIsTyped, NEW h, NEW own \in Streams, NEW n \in Nat,
         Numbered(h, own, n), ClientCovers(h, own, n, {}),
         NEW e \in Event, e.at = <<own, n + 1>>, NEW g, g = h \cup {e}
  PROVE  ClientCovers(g, own, n + 1, {n + 1})
<1>1. \A ms : Queue(ms, h, own, n) => Queue(ms, g, own, n + 1)
  <2> TAKE ms
  <2>1. n + 1 \in Nat /\ n <= n + 1 /\ h \subseteq g
    OBVIOUS
  <2> QED BY <2>1, QueueLasts
<1>2. \A ms : Queue(ms, h, own, n) => Precede(Cursors(ms), {n + 1})
  <2> SUFFICES ASSUME NEW ms, Queue(ms, h, own, n), NEW i \in 1..Len(ms)
               PROVE  ms[i].position.cursor < n + 1
    BY DEF Precede, Cursors
  <2>1. ms[i].position.cursor \in 1..n
    BY DEF Queue, Comes, OnItsWay
  <2> QED BY <2>1
<1>3. /\ Queue(transit, g, own, n + 1) /\ Queue(held, g, own, n + 1)
      /\ Precede(Cursors(held), Cursors(transit) \cup {n + 1})
      /\ Precede(Cursors(transit), {n + 1})
  BY <1>1, <1>2 DEF ClientCovers, Precede
<1>4. PICK sh \in Shows : sh = Shown(painted)
  BY ClientParts, ShownType
<1>5. PICK c \in 0..n : c = Reach(applied, own) /\ PlaceFits(applied, own, n)
  <2>1. Reach(applied, own) \in Nat /\ PlaceFits(applied, own, n)
    BY ClientParts, ReachType DEF ClientCovers, Fenced
  <2>2. Reach(applied, own) <= n
    BY <2>1 DEF PlaceFits, Reach
  <2> QED BY <2>1, <2>2
<1>6. PICK pend, left :
        /\ pend = Cursors(held) \cup (Cursors(transit) \cup {})
        /\ left = Cursors(held) \cup (Cursors(transit) \cup {n + 1})
  OBVIOUS
<1>7. /\ Numbered(g, own, n + 1) /\ \A t : Straight(g, t) => Straight(h, t)
      /\ Covers(g, own, n + 1, c, lost, sh, left)
  <2>1. Covers(h, own, n, c, lost, sh, pend)
    BY <1>4, <1>5, <1>6 DEF ClientCovers, Fenced
  <2>2. pend \cup {n + 1} \subseteq left
    BY <1>6
  <2> QED BY <1>4, <1>5, <2>1, <2>2, RecordCovers
<1>8. Fenced(applied, painted, g, own, n + 1, lost, left)
  <2>1. PlaceFits(applied, own, n + 1)
    <3>1. applied \in Places
      BY ClientParts
    <3> QED BY <1>5, <3>1 DEF PlaceFits, Places, Position, NoPosition
  <2> QED BY <1>4, <1>5, <1>7, <2>1 DEF Fenced
<1>9. Over(settled, g, own, c)
  <2>1. c \in Nat /\ c <= c /\ h \subseteq g /\ g \subseteq Event
    BY DEF Numbered
  <2>2. Over(settled, h, own, c)
    BY <1>5 DEF ClientCovers
  <2> QED BY <2>1, <2>2, OverLasts
<1>10. AnswersCover(read.answer, applied, sh, g, own, n + 1)
  <2>1. AnswersCover(read.answer, applied, sh, h, own, n)
    BY <1>4 DEF ClientCovers
  <2>2. \A i \in 1..Len(read.answer) : read.answer[i] \in
          {SnapshotRequired, Inactive} \cup Delta \cup Shot
    BY AnswerKinds
  <2> QED BY <1>7, <2>1, <2>2, AnswersCoverMore
<1> QED BY <1>3, <1>4, <1>5, <1>6, <1>8, <1>9, <1>10 DEF ClientCovers

(* ClientCovered, with the parts of the next state named.                   *)
LEMMA CoveredNext ==
  ASSUME NEW h, NEW own, NEW n, NEW u,
         EventsOf(Watched)' = h, stream' = own,
         Len(Recorded(Watched))' = n, Unsent' = u,
         ClientCovers(h, own, n, u)'
  PROVE  ClientCovered'
BY DEF ClientCovered, ClientCovers

(* Every step of the host, the way and the client keeps the fence.          *)
LEMMA CoveredStep ==
  ASSUME ~ReadsOutliveHost, ClientIsTyped, JournalIsRight, JournalRuns,
         StoredIsRecorded, ClientCovered, [Next]_vars
  PROVE  ClientCovered'
<1>1. PICK own \in Streams, n \in Nat :
        own = stream /\ n = Len(Recorded(Watched))
  <2>1. Recorded(Watched) \in Seq(Event) /\ stream \in Streams
    BY ClientConstants DEF ClientIsTyped, TypeOK, JournalTypeOK, Recorded
  <2> QED BY <2>1, LenProperties
<1>2. PICK h, u : h = EventsOf(Watched) /\ u = Unsent
  OBVIOUS
<1>3. Numbered(h, own, n) /\ ClientCovers(h, own, n, u)
  <2>1. Numbered(h, own, n)
    BY <1>1, <1>2, EventsNumbered, ClientConstants
       DEF ClientIsTyped, TypeOK, JournalIsRight, JournalRuns
  <2> QED BY <1>1, <1>2, <2>1 DEF ClientCovered
<1>4. ASSUME UNCHANGED <<stream, history, storing>>,
             ClientCovers(h, own, n, u)'
      PROVE  ClientCovered'
  <2>1. /\ EventsOf(Watched)' = h /\ stream' = own
        /\ Len(Recorded(Watched))' = n /\ Unsent' = u
    BY <1>1, <1>2, <1>4 DEF EventsOf, Recorded, Unsent, Unstored
  <2> QED BY <1>4, <2>1, CoveredNext
<1>5. ASSUME NEW s \in Session, NEW t \in Turn, NEW k \in Kind,
             Record(s, t, k), UNCHANGED client
      PROVE  ClientCovered'
  <2>1. storing = <<>> /\ u = {}
    <3>1. storing = <<>>
      BY <1>5 DEF Record
    <3>2. \A i \in 1..Len(<<>>) : FALSE
      BY EmptySeq
    <3> QED BY <1>2, <3>1, <3>2 DEF Unsent, Unstored
  <2>2. PICK e \in Event :
          /\ e.at = <<stream, Len(Recorded(s)) + 1>>
          /\ history' = [history EXCEPT ![s][stream] = Append(Recorded(s), e)]
          /\ Recorded(s)' = Append(Recorded(s), e)
          /\ \A v \in Session : v # s => Recorded(v)' = Recorded(v)
          /\ \E op \in {"append", "discard"}, line \in Line :
               storing' = <<[op |-> op, session |-> s, line |-> line]>>
          /\ stream' = stream
    BY <1>5, RecordFacts DEF ClientIsTyped, TypeOK
  <2>3. /\ EventsOf(s)' = EventsOf(s) \cup {e}
        /\ \A v \in Session : v # s => EventsOf(v)' = EventsOf(v)
    BY <2>2, EventsAfter DEF ClientIsTyped, TypeOK
  <2>4. PICK o : storing' = <<o>> /\ o.session = s
    BY <2>2
  <2>5. Unstored(Watched)' <=> s = Watched
    <3>1. Len(<<o>>) = 1 /\ <<o>>[1] = o /\ 1 \in 1..1 /\ \A i \in 1..1 : i = 1
      OBVIOUS
    <3> QED BY <2>4, <3>1 DEF Unstored
  <2>6. CASE s = Watched
    <3>1. PICK g : g = h \cup {e}
      OBVIOUS
    <3>2. e.at = <<own, n + 1>>
      BY <1>1, <2>2, <2>6
    <3>3. ClientCovers(g, own, n + 1, {n + 1})
      BY <1>3, <2>1, <3>1, <3>2, RecordKeepsCover
    <3>4. ClientCovers(g, own, n + 1, {n + 1})'
      BY <1>5, <3>3 DEF client, ClientCovers
    <3>5. Len(Recorded(Watched))' = n + 1
      <4>1. PICK r \in Seq(Event) : r = Recorded(Watched)
        BY ClientConstants DEF ClientIsTyped, TypeOK, JournalTypeOK, Recorded
      <4>2. Len(Append(r, e)) = Len(r) + 1
        BY <4>1, AppendProperties
      <4> QED BY <1>1, <2>2, <2>6, <4>1, <4>2
    <3>6. /\ EventsOf(Watched)' = g /\ stream' = own
          /\ Unsent' = {n + 1}
      BY <1>1, <1>2, <2>2, <2>3, <2>5, <2>6, <3>1, <3>5 DEF Unsent
    <3> QED BY <3>4, <3>5, <3>6, CoveredNext
  <2>7. CASE s # Watched
    <3>1. ClientCovers(h, own, n, u)'
      BY <1>3, <1>5 DEF client, ClientCovers
    <3>2. /\ EventsOf(Watched)' = h /\ stream' = own
          /\ Len(Recorded(Watched))' = n /\ Unsent' = u
      BY <1>1, <1>2, <2>1, <2>2, <2>3, <2>5, <2>7, ClientConstants DEF Unsent
    <3> QED BY <3>1, <3>2, CoveredNext
  <2> QED BY <2>6, <2>7
<1>6. ASSUME NEW s \in Session, Delete(s), UNCHANGED client
      PROVE  ClientCovered'
  <2>1. ClientCovers(h, own, n, u)'
    BY <1>3, <1>6 DEF client, ClientCovers
  <2> QED BY <1>4, <1>6, <2>1 DEF Delete
<1>7. CASE Emit
  <2>1. ClientCovers(h, own, n, {})'
    BY <1>1, <1>2, <1>3, <1>7, EmitKeepsCover DEF JournalIsRight
  <2>2. storing' = <<>> /\ UNCHANGED <<stream, history>>
    BY <1>7 DEF Emit, Stored
  <2>3. Unsent' = {}
    <3>1. \A i \in 1..Len(<<>>) : FALSE
      BY EmptySeq
    <3> QED BY <2>2, <3>1 DEF Unsent, Unstored
  <2>4. /\ EventsOf(Watched)' = h /\ stream' = own
        /\ Len(Recorded(Watched))' = n
    BY <1>1, <1>2, <2>2 DEF EventsOf, Recorded
  <2> QED BY <2>1, <2>3, <2>4, CoveredNext
<1>8. CASE Lose
  <2>1. ClientCovers(h, own, n, u)'
    BY <1>3, <1>8, LoseKeepsCover
  <2> QED BY <1>4, <1>8, <2>1 DEF Lose, journal
<1>9. CASE Deliver
  <2>1. ClientCovers(h, own, n, u)'
    BY <1>3, <1>9, DeliverKeepsCover
  <2> QED BY <1>4, <1>9, <2>1 DEF Deliver, journal
<1>10. CASE BeginRead
  <2>1. ClientCovers(h, own, n, u)'
    BY <1>3, <1>10, BeginReadKeepsCover
  <2> QED BY <1>4, <1>10, <2>1 DEF BeginRead, journal
<1>11. CASE ServeBackfill \/ ServeSnapshot
  <2>1. ClientCovers(h, own, n, u)'
    BY <1>1, <1>2, <1>3, <1>11, ServeKeepsCover
  <2> QED BY <1>4, <1>11, <2>1 DEF ServeBackfill, ServeSnapshot, Answer,
                                   journal
<1>12. CASE FinishBackfill
  <2>1. ClientCovers(h, own, n, u)'
    BY <1>3, <1>12, FinishBackfillKeepsCover
  <2> QED BY <1>4, <1>12, <2>1 DEF FinishBackfill, journal
<1>13. CASE FinishSnapshot
  <2>1. ClientCovers(h, own, n, u)'
    BY <1>3, <1>13, FinishSnapshotKeepsCover
  <2> QED BY <1>4, <1>13, <2>1 DEF FinishSnapshot, journal
<1>14. CASE FailRead
  <2>1. ClientCovers(h, own, n, u)'
    BY <1>3, <1>14, FailReadKeepsCover
  <2> QED BY <1>4, <1>14, <2>1 DEF FailRead, journal
<1>15. CASE HostRestart
  <2>1. /\ stream' = own + 1 /\ Len(Recorded(Watched))' = 0
        /\ UNCHANGED history /\ Unsent' = {}
        /\ ClientCovers(h, own + 1, 0, {})'
    BY <1>1, <1>3, <1>15, HostRestartKeepsCover DEF JournalIsRight
  <2>2. EventsOf(Watched)' = h
    BY <1>2, <2>1 DEF EventsOf
  <2> QED BY <2>1, <2>2, CoveredNext
<1>16. CASE UNCHANGED vars
  <2>1. ClientCovers(h, own, n, u)'
    BY <1>3, <1>16 DEF vars, client, ClientCovers
  <2> QED BY <1>4, <1>16, <2>1 DEF vars, journal
<1> QED BY <1>5, <1>6, <1>7, <1>8, <1>9, <1>10, <1>11, <1>12, <1>13, <1>14,
           <1>15, <1>16 DEF Next

(* Initially there is nothing to miss.                                      *)
LEMMA InitialCover ==
  ASSUME Init, ClientIsTyped
  PROVE  StoredIsRecorded /\ ClientCovered
<1>1. \A i \in 1..Len(<<>>) : FALSE
  BY EmptySeq
<1>2. /\ storing = <<>> /\ transit = <<>> /\ held = <<>>
      /\ read.answer = <<>> /\ applied = NoPosition /\ settled = {}
      /\ \A t \in Turn : painted[t] = <<>>
      /\ \A p \in Streams : history[Watched][p] = <<>>
  BY ClientConstants DEF Init, JournalInit, NoRead
<1>3. StoredIsRecorded /\ Unsent = {}
  BY <1>1, <1>2 DEF StoredIsRecorded, Unsent, Unstored
<1>4. ToSet(<<>>) = {}
  <2>1. ToSet(<<>>) = {<<>>[i] : i \in 1..Len(<<>>)}
    BY EmptySeq DEF ToSet
  <2> QED BY <1>1, <2>1
<1>5. PICK own \in Streams, n \in Nat :
        own = stream /\ n = Len(Recorded(Watched))
  <2>1. Recorded(Watched) \in Seq(Event) /\ stream \in Streams
    BY ClientConstants DEF ClientIsTyped, TypeOK, JournalTypeOK, Recorded
  <2> QED BY <2>1, LenProperties
<1>6. EventsOf(Watched) = {}
  BY <1>2, <1>4 DEF EventsOf
<1>7. Fenced(applied, painted, {}, own, n, lost, {})
  <2>1. PICK sh \in Shows : sh = Shown(painted) /\ \A t \in Turn : sh[t] = {}
    <3>1. painted \in Screens
      BY ClientParts
    <3> QED BY <1>2, <1>4, <3>1, ShownType
  <2>2. Reach(applied, own) = 0 /\ PlaceFits(applied, own, n)
    BY <1>2 DEF NoPosition, Reach, PlaceFits, Streams
  <2>3. Covers({}, own, n, 0, lost, sh, {})
    BY <2>1 DEF Covers, Accounted, Reached, Ahead, Left, Bounded
  <2> QED BY <2>1, <2>2, <2>3 DEF Fenced
<1>8. /\ Queue(transit, {}, own, n) /\ Queue(held, {}, own, n)
      /\ Cursors(transit) = {} /\ Cursors(held) = {}
  BY <1>2, EmptyQueue
<1>9. /\ Over(settled, {}, own, Reach(applied, own))
      /\ AnswersCover(read.answer, applied, Shown(painted), {}, own, n)
  BY <1>2, NothingCovers DEF Over
<1>10. ClientCovers({}, own, n, {})
  <2>1. Cursors(held) \cup (Cursors(transit) \cup {}) = {}
    BY <1>8
  <2> QED BY <1>2, <1>7, <1>8, <1>9, <2>1 DEF ClientCovers, Precede
<1> QED BY <1>3, <1>5, <1>6, <1>10 DEF ClientCovered

(* The fence loses nothing, when the read in flight fails with the host it  *)
(* was sent to: of a turn whose events came one after the other, and whose  *)
(* end was the last of them, nothing is missing between what shows but what *)
(* was lost on the way; also while a read is in flight, and however live    *)
(* events, losses, restarts, backfills, snapshots and the release of what   *)
(* was held interleave.                                                     *)
THEOREM OnlyLostEventsAreGone ==
  ASSUME ~ReadsOutliveHost
  PROVE  Spec => []OnlyLostEventsAreMissing
<1>1. Init /\ ClientIsTyped => StoredIsRecorded /\ ClientCovered
  BY InitialCover
<1>2. /\ ClientIsTyped /\ JournalIsRight /\ JournalRuns
      /\ StoredIsRecorded /\ ClientCovered /\ [Next]_vars
      => StoredIsRecorded' /\ ClientCovered'
  BY StoredStep, CoveredStep DEF ClientIsTyped, TypeOK
<1>3. /\ ClientIsTyped /\ JournalIsRight /\ JournalRuns /\ ClientCovered
      => OnlyLostEventsAreMissing
  <2> SUFFICES ASSUME ClientIsTyped, JournalIsRight, JournalRuns,
                      ClientCovered, NEW t \in Turn, InOrder(t),
                      NEW x \in EventsOf(Watched), x.turn = t,
                      x.at \notin ToSet(painted[t]),
                      NEW a \in ToSet(painted[t]), NEW b \in ToSet(painted[t]),
                      a[1] = x.at[1], b[1] = x.at[1],
                      a[2] < x.at[2], x.at[2] < b[2]
               PROVE  x.at \in lost
    BY DEF OnlyLostEventsAreMissing, Holes
  <2>1. PICK own \in Streams, n \in Nat :
          own = stream /\ n = Len(Recorded(Watched))
    <3>1. Recorded(Watched) \in Seq(Event) /\ stream \in Streams
      BY ClientConstants DEF ClientIsTyped, TypeOK, JournalTypeOK, Recorded
    <3> QED BY <3>1, LenProperties
  <2>2. PICK h : h = EventsOf(Watched)
    OBVIOUS
  <2>3. Numbered(h, own, n)
    BY <2>1, <2>2, EventsNumbered, ClientConstants
       DEF ClientIsTyped, TypeOK, JournalIsRight, JournalRuns
  <2>4. PICK c \in Nat, sh \in Shows :
          /\ c = Reach(applied, own) /\ sh = Shown(painted)
          /\ sh[t] = ToSet(painted[t])
    BY ClientParts, ReachType, ShownType
  <2>5. PICK pend : Covers(h, own, n, c, lost, sh, pend)
    BY <2>1, <2>2, <2>4 DEF ClientCovered, ClientCovers, Fenced
  <2>6. Straight(h, t)
    BY <2>2 DEF InOrder, Straight
  <2>7. /\ x \in h /\ Straight(h, x.turn) /\ x.at \notin sh[x.turn]
        /\ a \in sh[x.turn] /\ b \in sh[x.turn]
        /\ a[1] = x.at[1] /\ b[1] = x.at[1]
        /\ a[2] < x.at[2] /\ x.at[2] < b[2]
    BY <2>2, <2>4, <2>6
  <2> QED BY ONLY <2>1, <2>3, <2>4, <2>5, <2>7, NoHole
<1> QED BY <1>1, <1>2, <1>3, JournalRunsAlways, ClientTypeAlways, PTL DEF Spec
=============================================================================
