----------------------------- MODULE XmidiProofs -----------------------------
(***************************************************************************)
(* The XMIDI converter, for tracks of any length, any delays and any       *)
(* durations. Its list is always the stable sort of its events by time     *)
(* (IInv). What the events of the list stand for (HInv) then says what is  *)
(* written: every note has its end behind it, every channel its program    *)
(* before its notes, and the delays and the running status are read back   *)
(* as they were meant.                                                     *)
(***************************************************************************)
EXTENDS XmidiEvents, SequenceTheorems, NatSetLemmas

(* InsertAt, element by element. *)
LEMMA InsertAtElements ==
  ASSUME NEW S, NEW s \in Seq(S), NEW e \in S, NEW k \in 0..Len(s)
  PROVE  LET r == InsertAt(s, k + 1, e)
         IN /\ r \in Seq(S) /\ Len(r) = Len(s) + 1
            /\ \A i \in 1..k : r[i] = s[i]
            /\ r[k + 1] = e
            /\ \A i \in (k + 2)..(Len(s) + 1) : r[i] = s[i - 1]
<1> DEFINE p == SubSeq(s, 1, k)
           q == SubSeq(s, k + 1, Len(s))
           pe == p \o <<e>>
           r == pe \o q
<1>1. p \in Seq(S) /\ Len(p) = k /\ \A i \in 1..k : p[i] = s[i]
  BY SubSeqProperties
<1>2. q \in Seq(S) /\ Len(q) = Len(s) - k /\ \A i \in 1..(Len(s) - k) : q[i] = s[k + i]
  <2>1. CASE k = Len(s)
    BY <2>1, SubSeqProperties
  <2>2. CASE k < Len(s)
    BY <2>2, SubSeqProperties
  <2> QED BY <2>1, <2>2
<1>3. <<e>> \in Seq(S) /\ Len(<<e>>) = 1 /\ <<e>>[1] = e
  OBVIOUS
<1> HIDE DEF p, q
<1>4. pe \in Seq(S) /\ Len(pe) = k + 1 /\ (\A i \in 1..k : pe[i] = s[i]) /\ pe[k + 1] = e
  BY <1>1, <1>3, ConcatProperties
<1> HIDE DEF pe
<1>5. r \in Seq(S) /\ Len(r) = Len(s) + 1
  BY <1>2, <1>4, ConcatProperties
<1>6. \A i \in 1..(k + 1) : r[i] = pe[i]
  BY <1>2, <1>4, ConcatProperties
<1>7. \A i \in (k + 2)..(Len(s) + 1) : r[i] = s[i - 1]
  <2> TAKE i \in (k + 2)..(Len(s) + 1)
  <2>1. r[i] = q[i - (k + 1)]
    BY <1>2, <1>4, ConcatProperties
  <2>2. q[i - (k + 1)] = s[k + (i - (k + 1))]
    BY <1>2
  <2> QED BY <2>1, <2>2
<1>8. InsertAt(s, k + 1, e) = r
  <2>1. (k + 1) - 1 = k
    OBVIOUS
  <2> QED BY <2>1, Zenon DEF InsertAt, r, pe, p, q
<1> HIDE DEF r
<1> QED BY <1>4, <1>5, <1>6, <1>7, <1>8

(* An element in front of the inserted one. *)
LEMMA InsertAtBefore ==
  ASSUME NEW S, NEW s \in Seq(S), NEW e \in S, NEW k \in 0..Len(s), NEW i \in 1..k
  PROVE  InsertAt(s, k + 1, e)[i] = s[i]
<1> DEFINE r == InsertAt(s, k + 1, e)
<1>1. \A n \in 1..k : r[n] = s[n]
  BY InsertAtElements
<1> QED BY <1>1

(* What holds of the list while items are read. *)
Ids(l) == \A k \in 1..Len(l) : l[k].id \in 1..Len(l)

ReadList(l) == l \in Seq(Events) /\ Ordered(l) /\ Ids(l)

(* Times and ids of the events of a list are numbers. *)
LEMMA TimesAndIds ==
  ASSUME NEW l \in Seq(Events)
  PROVE  \A i \in 1..Len(l) : l[i].time \in Nat /\ l[i].id \in Nat
<1> SUFFICES ASSUME NEW i \in 1..Len(l) PROVE l[i].time \in Nat /\ l[i].id \in Nat
  OBVIOUS
<1>1. l[i] \in Events
  BY ElementOfSeq
<1> QED BY <1>1 DEF Events

(* The walk of CreateNewEvent stops between the events that are not later  *)
(* and those that are, whatever cursor it starts from.                     *)
LEMMA PlaceSplits ==
  ASSUME NEW l \in Seq(Events), Ordered(l), l # <<>>, NEW c \in 0..Len(l), NEW t \in Nat,
         l[1].time =< t
  PROVE  LET k == Place(l, c, t)
         IN /\ k \in 1..Len(l)
            /\ \A i \in 1..k : l[i].time =< t
            /\ \A i \in (k + 1)..Len(l) : l[i].time > t
            /\ c # 0 /\ l[c].time =< t => c =< k
<1> DEFINE from == IF c = 0 \/ l[c].time > t THEN 1 ELSE c
           S == {k \in from..Len(l) : k = Len(l) \/ l[k + 1].time > t}
           k == Min(S)
<1>1. Len(l) \in Nat /\ Len(l) > 0 /\ \A i \in 1..Len(l) : l[i].time \in Nat
  BY TimesAndIds
<1>2. from \in 1..Len(l) /\ l[from].time =< t
  BY <1>1
<1>3. c # 0 /\ l[c].time =< t => from = c
  BY <1>1
<1> HIDE DEF from
<1>4. S \subseteq Nat /\ Len(l) \in S
  BY <1>1, <1>2
<1>5. k \in S /\ \A j \in S : k =< j
  BY <1>4, MinOfNats
<1>6. k \in from..Len(l) /\ (k = Len(l) \/ l[k + 1].time > t)
  BY <1>5
<1> HIDE DEF k, S
<1>7. \A i \in 1..k : l[i].time =< t
  <2> TAKE i \in 1..k
  <2>1. CASE i < from
    BY <2>1, <1>1, <1>2 DEF Ordered, Before
  <2>2. CASE i = from
    BY <2>2, <1>2
  <2>3. CASE i > from
    <3>1. i - 1 \in from..Len(l) /\ i - 1 < k
      BY <2>3, <1>1, <1>2, <1>6
    <3>2. i - 1 \notin S
      BY <3>1, <1>2, <1>5, <1>6
    <3>3. ~(l[(i - 1) + 1].time > t)
      BY <3>1, <3>2 DEF S
    <3>4. (i - 1) + 1 = i /\ i \in 1..Len(l)
      BY <1>1, <1>2, <1>6
    <3> QED BY <3>3, <3>4, <1>1
  <2> QED BY <2>1, <2>2, <2>3, <1>2, <1>6
<1>8. \A i \in (k + 1)..Len(l) : l[i].time > t
  <2> TAKE i \in (k + 1)..Len(l)
  <2>1. k + 1 \in 1..Len(l) /\ i \in 1..Len(l) /\ l[k + 1].time > t
    BY <1>1, <1>2, <1>6
  <2>2. CASE i = k + 1
    BY <2>1, <2>2
  <2>3. CASE i > k + 1
    <3>1. k + 1 \in 1..(i - 1)
      BY <1>1, <1>2, <1>6, <2>1, <2>3
    <3>2. Before(l[k + 1], l[i])
      BY <2>1, <3>1 DEF Ordered
    <3>3. l[k + 1].time \in Nat /\ l[i].time \in Nat
      BY <1>1, <2>1
    <3>4. l[k + 1].time =< l[i].time
      BY <3>2, <3>3 DEF Before
    <3> QED BY <2>1, <3>3, <3>4
  <2> QED BY <1>6, <2>1, <2>2, <2>3
<1>9. Place(l, c, t) = k
  BY DEF Place, k, S, from
<1> QED BY <1>2, <1>3, <1>6, <1>7, <1>8, <1>9

(* CreateNewEvent: the list stays ordered, the cursor is on the new event, *)
(* and an event the cursor was on before keeps its place.                  *)
LEMMA CreateKeepsOrder ==
  ASSUME NEW l, ReadList(l), NEW c \in 0..Len(l), NEW e \in Events, e.id = Len(l) + 1,
         l # <<>> => l[1].time =< e.time
  PROVE  LET r == CreateNewEvent(l, c, e)
         IN /\ ReadList(r.list) /\ Len(r.list) = Len(l) + 1
            /\ r.cur \in 1..Len(r.list) /\ r.list[r.cur] = e
            /\ r.list[1].time =< e.time
            /\ c # 0 /\ l[c].time =< e.time => r.list[c] = l[c] /\ r.cur > c
<1>1. CASE l = <<>>
  <2>1. CreateNewEvent(l, c, e) = [list |-> <<e>>, cur |-> 1]
    BY <1>1 DEF CreateNewEvent
  <2>2. <<e>> \in Seq(Events) /\ Len(<<e>>) = 1 /\ <<e>>[1] = e /\ Len(l) = 0
    BY <1>1
  <2>3. e.id = 1 /\ e.time \in Nat
    BY <2>2 DEF Events
  <2>4. Ordered(<<e>>)
    BY <2>2 DEF Ordered
  <2>5. Ids(<<e>>)
    BY <2>2, <2>3 DEF Ids
  <2> QED BY <2>1, <2>2, <2>3, <2>4, <2>5 DEF ReadList
<1>2. CASE l # <<>>
  <2> DEFINE k == Place(l, c, e.time)
             r == InsertAt(l, k + 1, e)
             n == Len(l)
  <2>1. l \in Seq(Events) /\ Ordered(l) /\ Ids(l) /\ n \in Nat /\ n > 0
        /\ e.time \in Nat /\ e.id \in Nat
    BY <1>2 DEF ReadList, Events
  <2>2. \A i \in 1..n : l[i].time \in Nat /\ l[i].id \in Nat
    BY <2>1, TimesAndIds
  <2>3. CreateNewEvent(l, c, e) = [list |-> r, cur |-> k + 1]
    <3>1. ~(e.time < 0 \/ l[1].time > e.time)
      BY <1>2, <2>1, <2>2
    <3> QED BY <3>1, <1>2 DEF CreateNewEvent
  <2>4. /\ k \in 1..n
        /\ \A i \in 1..k : l[i].time =< e.time
        /\ \A i \in (k + 1)..n : l[i].time > e.time
        /\ c # 0 /\ l[c].time =< e.time => c =< k
    BY <1>2, <2>1, PlaceSplits
  <2> HIDE DEF k
  <2>5. /\ r \in Seq(Events) /\ Len(r) = n + 1
        /\ \A i \in 1..k : r[i] = l[i]
        /\ r[k + 1] = e
        /\ \A i \in (k + 2)..(n + 1) : r[i] = l[i - 1]
    <3>1. k \in 0..Len(l)
      BY <2>1, <2>4
    <3>2. l \in Seq(Events) /\ e \in Events
      BY <2>1
    <3> HIDE DEF n
    <3>3. r \in Seq(Events) /\ Len(r) = Len(l) + 1 /\ r[k + 1] = e
      BY <3>1, <3>2, InsertAtElements
    <3>4. \A i \in 1..k : r[i] = l[i]
      <4> SUFFICES ASSUME NEW i \in 1..k PROVE r[i] = l[i]
        OBVIOUS
      <4> QED BY <3>1, <3>2, InsertAtBefore
    <3>5. \A i \in (k + 2)..(Len(l) + 1) : r[i] = l[i - 1]
      BY <3>1, <3>2, InsertAtElements
    <3> QED BY <3>3, <3>4, <3>5 DEF n
  <2> HIDE DEF r, n
  <2>6. Ordered(r)
    <3> SUFFICES ASSUME NEW j \in 1..(n + 1), NEW i \in 1..(j - 1)
                 PROVE  Before(r[i], r[j])
      BY <2>5 DEF Ordered
    <3>1. CASE j =< k
      <4>1. j \in 1..n /\ Before(l[i], l[j])
        BY <3>1, <2>1, <2>4 DEF Ordered, n
      <4>2. i \in 1..k /\ j \in 1..k
        BY <3>1, <2>1, <2>4
      <4> QED BY <4>1, <4>2, <2>5
    <3>2. CASE j = k + 1
      <4>1. i \in 1..k /\ i \in 1..n
        BY <3>2, <2>1, <2>4
      <4>2. l[i].id \in 1..n /\ l[i].time =< e.time
        BY <4>1, <2>1, <2>4 DEF Ids, n
      <4>3. Before(l[i], e)
        BY <4>1, <4>2, <2>1, <2>2 DEF Before, n
      <4> QED BY <3>2, <4>1, <4>3, <2>5
    <3>3. CASE j > k + 1
      <4>1. j - 1 \in (k + 1)..n /\ j \in (k + 2)..(n + 1) /\ j - 1 \in 1..n
        BY <3>3, <2>1, <2>4
      <4>2. r[j] = l[j - 1] /\ l[j - 1].time > e.time
        BY <4>1, <2>4, <2>5
      <4>3. CASE i =< k
        <5>1. i \in 1..((j - 1) - 1)
          BY <4>3, <4>1, <2>4
        <5>2. Before(l[i], l[j - 1])
          BY <5>1, <4>1, <2>1 DEF Ordered, n
        <5> QED BY <4>2, <4>3, <5>2, <2>5
      <4>4. CASE i = k + 1
        BY <4>1, <4>2, <4>4, <2>1, <2>2, <2>5 DEF Before
      <4>5. CASE i > k + 1
        <5>1. i - 1 \in 1..((j - 1) - 1) /\ i \in (k + 2)..(n + 1)
          BY <4>5, <4>1, <2>1, <2>4
        <5>2. Before(l[i - 1], l[j - 1])
          BY <5>1, <4>1, <2>1 DEF Ordered, n
        <5> QED BY <4>2, <5>1, <5>2, <2>5
      <4> QED BY <4>3, <4>4, <4>5, <2>4
    <3> QED BY <3>1, <3>2, <3>3, <2>1, <2>4
  <2>7. Ids(r)
    <3> SUFFICES ASSUME NEW i \in 1..(n + 1) PROVE r[i].id \in 1..(n + 1)
      BY <2>5 DEF Ids
    <3>1. CASE i =< k
      <4>1. i \in 1..n /\ i \in 1..k
        BY <3>1, <2>1, <2>4
      <4>2. l[i].id \in 1..n
        BY <4>1, <2>1 DEF Ids, n
      <4> QED BY <4>1, <4>2, <2>1, <2>5
    <3>2. CASE i = k + 1
      BY <3>2, <2>1, <2>5 DEF n
    <3>3. CASE i > k + 1
      <4>1. i \in (k + 2)..(n + 1) /\ i - 1 \in 1..n
        BY <3>3, <2>1, <2>4
      <4>2. l[i - 1].id \in 1..n
        BY <4>1, <2>1 DEF Ids, n
      <4> QED BY <4>1, <4>2, <2>1, <2>5
    <3> QED BY <3>1, <3>2, <3>3, <2>1, <2>4
  <2>8. r[1].time =< e.time
    BY <2>1, <2>4, <2>5
  <2>9. c # 0 /\ l[c].time =< e.time => r[c] = l[c] /\ k + 1 > c
    BY <2>1, <2>4, <2>5 DEF n
  <2>10. k + 1 \in 1..Len(r)
    BY <2>1, <2>4, <2>5
  <2> QED BY <2>3, <2>5, <2>6, <2>7, <2>8, <2>9, <2>10 DEF ReadList, n
<1> QED BY <1>1, <1>2

(* The first state of a channel and the tempo go before everything. *)
LEMMA PrependKeepsOrder ==
  ASSUME NEW p \in Seq(Events), NEW l \in Seq(Events), Ordered(l),
         \A i \in 1..Len(p) : p[i].time = 0 /\ p[i].id = 0
  PROVE  p \o l \in Seq(Events) /\ Len(p \o l) = Len(p) + Len(l) /\ Ordered(p \o l)
<1> DEFINE r == p \o l
<1>1. /\ r \in Seq(Events) /\ Len(r) = Len(p) + Len(l)
      /\ \A i \in 1..(Len(p) + Len(l)) : r[i] = IF i =< Len(p) THEN p[i] ELSE l[i - Len(p)]
      /\ Len(p) \in Nat /\ Len(l) \in Nat
  BY ConcatProperties
<1>2. \A i \in 1..Len(r) : r[i].time \in Nat
  BY <1>1, TimesAndIds
<1> HIDE DEF r
<1>3. ASSUME NEW j \in 1..Len(r), NEW i \in 1..(j - 1)
      PROVE  Before(r[i], r[j])
  <2>1. CASE i =< Len(p)
    <3>1. r[i] = p[i] /\ i \in 1..Len(p)
      BY <2>1, <1>1
    <3>2. r[i].time = 0 /\ r[i].id = 0 /\ r[j].time \in Nat
      BY <3>1, <1>2
    <3> QED BY <3>2 DEF Before
  <2>2. CASE i > Len(p)
    <3>1. /\ r[i] = l[i - Len(p)] /\ r[j] = l[j - Len(p)]
          /\ j - Len(p) \in 1..Len(l) /\ i - Len(p) \in 1..((j - Len(p)) - 1)
      BY <2>2, <1>1
    <3> QED BY <3>1 DEF Ordered
  <2> QED BY <2>1, <2>2, <1>1
<1>4. Ordered(r)
  BY <1>3 DEF Ordered
<1> QED BY <1>1, <1>4 DEF r

-------------------------------------------------------------------------------
(* The specification *)

IInv ==
  /\ TypeOK
  /\ InOrder
  /\ phase = "reading" => Ids(list)

(* An item read at a time, and what it leaves of the cursor. *)
LEMMA InsertStep ==
  ASSUME IInv, phase = "reading", NEW d \in Delays, Item(d), NEW e \in Events,
         e.id = NewId(list), e.time = now + d
  PROVE  LET r == CreateNewEvent(list, cur, e)
         IN /\ ReadList(r.list) /\ Len(r.list) = Len(list) + 1
            /\ r.cur \in 1..Len(r.list) /\ r.list[r.cur] = e
            /\ r.list[1].time =< e.time
            /\ now' \in Nat /\ now' = e.time /\ items' \in Nat
<1>1. ReadList(list) /\ cur \in 0..Len(list) /\ e.id = Len(list) + 1
  BY DEF IInv, TypeOK, InOrder, ReadList, NewId
<1>2. now \in Nat /\ d \in Nat /\ items \in Nat /\ list \in Seq(Events)
  BY XmidiAssumption DEF IInv, TypeOK
<1>3. list # <<>> => list[1].time =< e.time
  <2> SUFFICES ASSUME list # <<>> PROVE list[1].time =< e.time
    OBVIOUS
  <2>1. cur \in 1..Len(list) /\ list[cur].time =< now
    BY <1>1 DEF IInv, TypeOK
  <2>2. list[1].time \in Nat /\ list[cur].time \in Nat
    BY <1>2, <2>1, TimesAndIds
  <2>3. list[1].time =< list[cur].time
    <3>1. CASE cur = 1
      BY <3>1, <2>2
    <3>2. CASE cur # 1
      <4>1. 1 \in 1..(cur - 1)
        BY <2>1, <3>2
      <4>2. Before(list[1], list[cur])
        BY <1>1, <2>1, <4>1 DEF ReadList, Ordered
      <4> QED BY <2>2, <4>2 DEF Before
    <3> QED BY <3>1, <3>2
  <2> QED BY <1>2, <2>1, <2>2, <2>3
<1>4. now' = now + d /\ items' = items + 1
  BY DEF Item
<1>5. now' \in Nat /\ now' = e.time /\ items' \in Nat
  BY <1>2, <1>4
<1> QED BY <1>1, <1>3, <1>5, CreateKeepsOrder

FsType == [{"patch", "vol", "pan"} -> [Channels -> Events \cup {None}]]

(* What an action that reads an item has to show. *)
LEMMA ReadKeeps ==
  ASSUME ReadList(list'), cur' \in 1..Len(list'),
         phase' = "reading" => list'[cur'].time =< now',
         items' \in Nat, now' \in Nat, chan' \in Nat, fs' \in FsType,
         phase' \in {"reading", "threw", "applying"}
  PROVE  IInv'
<1>1. list' \in Seq(Events) /\ Ordered(list') /\ Ids(list')
  BY DEF ReadList
<1>2. list' # <<>> /\ cur' # 0 /\ cur' \in 0..Len(list')
  <2>1. Len(list') \in Nat
    BY <1>1
  <2>2. Len(list') # 0
    BY <2>1
  <2> QED BY <1>1, <2>1, <2>2
<1>3. TypeOK'
  BY <1>1, <1>2 DEF TypeOK, FsType
<1> QED BY <1>1, <1>3 DEF IInv, InOrder

(* An action that inserts one event and keeps the first states. *)
LEMMA InsertKeeps ==
  ASSUME IInv, NEW d \in Delays, Item(d), NEW e \in Events,
         e.id = NewId(list), e.time = now + d, Insert(d, e),
         fs' \in FsType, phase' \in {"reading", "threw"}
  PROVE  IInv'
<1> DEFINE r == CreateNewEvent(list, cur, e)
<1>1. phase = "reading" /\ chan' = chan /\ chan \in Nat
  BY DEF Item, IInv, TypeOK
<1>2. /\ ReadList(r.list) /\ r.cur \in 1..Len(r.list) /\ r.list[r.cur] = e
      /\ now' \in Nat /\ now' = e.time /\ items' \in Nat
  BY <1>1, InsertStep
<1>3. list' = r.list /\ cur' = r.cur
  BY DEF Insert
<1> HIDE DEF r
<1>4. list'[cur'].time =< now'
  BY <1>2, <1>3
<1> QED BY <1>1, <1>2, <1>3, <1>4, ReadKeeps

(* The delay of an item moves the clock to a natural time. *)
LEMMA ItemTypes ==
  ASSUME IInv, NEW d \in Delays
  PROVE  now + d \in Nat /\ NewId(list) \in Nat /\ fs \in FsType
<1>1. now \in Nat /\ d \in Nat /\ list \in Seq(Events)
  BY XmidiAssumption DEF IInv, TypeOK
<1> QED BY <1>1 DEF NewId, IInv, TypeOK, FsType

(* An event that is not before the one at the cursor leaves that in place. *)
LEMMA CreateKeepsPlace ==
  ASSUME NEW l, ReadList(l), NEW c \in 1..Len(l), NEW e \in Events, e.id = Len(l) + 1,
         l[1].time =< e.time, l[c].time =< e.time
  PROVE  /\ ReadList(CreateNewEvent(l, c, e).list)
         /\ Len(CreateNewEvent(l, c, e).list) = Len(l) + 1
         /\ CreateNewEvent(l, c, e).list[c] = l[c]
<1> DEFINE r == CreateNewEvent(l, c, e)
<1>1. l \in Seq(Events)
  BY DEF ReadList
<1>2. c \in 0..Len(l) /\ c # 0
  BY <1>1
<1>3. /\ ReadList(r.list) /\ Len(r.list) = Len(l) + 1
      /\ c # 0 /\ l[c].time =< e.time => r.list[c] = l[c]
  BY <1>2, CreateKeepsOrder
<1> QED BY <1>2, <1>3

(* Notes: two insertions, and the cursor back on the note on. *)
LEMMA NoteOnKeeps ==
  ASSUME IInv, NEW d \in Delays, NEW ch \in Channels, NEW key \in Keys, NEW v \in Values,
         NEW dur \in Durations, ReadNoteOn(d, ch, key, v, dur)
  PROVE  IInv'
<1> DEFINE t   == now + d
           e   == Event(t, NewId(list), "noteOn", ch, key, v, dur)
           on  == CreateNewEvent(list, cur, e)
           f   == NoteOff(t, NewId(on.list), ch, key, dur)
           off == CreateNewEvent(on.list, on.cur, f)
<1>1. Item(d) /\ list' = off.list /\ cur' = on.cur /\ phase' = phase /\ fs' = fs
  BY DEF ReadNoteOn
<1>2. phase = "reading" /\ chan' = chan /\ chan \in Nat
  BY <1>1 DEF Item, IInv, TypeOK
<1>3. ch \in Nat /\ dur \in Nat /\ t \in Nat /\ NewId(list) \in Nat /\ fs \in FsType
  BY XmidiAssumption, ItemTypes DEF Channels
<1>4. e \in Events /\ e.time = t /\ e.id = NewId(list)
  BY <1>3, SMT DEF Event, Events, Statuses, VoiceStatus
<1> HIDE DEF e
<1>5. /\ ReadList(on.list) /\ on.cur \in 1..Len(on.list) /\ on.list[on.cur] = e
      /\ on.list[1].time =< e.time
      /\ now' \in Nat /\ now' = e.time /\ items' \in Nat
  BY <1>1, <1>2, <1>4, InsertStep
<1> HIDE DEF on
<1>6. on.list \in Seq(Events) /\ NewId(on.list) \in Nat /\ NewId(on.list) = Len(on.list) + 1
  BY <1>5 DEF ReadList, NewId
<1>7. f \in Events /\ f.time = t + dur /\ f.id = NewId(on.list)
  <2>1. t + dur \in Nat
    BY <1>3
  <2> QED BY <2>1, <1>3, <1>6, SMT DEF NoteOff, Event, Events, Statuses, VoiceStatus
<1> HIDE DEF f
<1>8. on.list[1].time =< f.time /\ on.list[on.cur].time =< f.time
      /\ on.cur \in 0..Len(on.list) /\ on.cur # 0
  <2>1. on.list[1].time \in Nat /\ Len(on.list) \in Nat
    <3>1. 1 \in 1..Len(on.list)
      BY <1>5, <1>6
    <3> QED BY <1>6, <3>1, TimesAndIds
  <2> QED BY <2>1, <1>3, <1>4, <1>5, <1>7
<1>9. /\ ReadList(off.list) /\ Len(off.list) = Len(on.list) + 1
      /\ off.list[on.cur] = on.list[on.cur]
  <2> DEFINE l == on.list
             c == on.cur
  <2>1. /\ f.id = Len(l) + 1 /\ f \in Events /\ ReadList(l) /\ c \in 1..Len(l)
        /\ l[1].time =< f.time /\ l[c].time =< f.time
    BY <1>5, <1>6, <1>7, <1>8
  <2> HIDE DEF l, c
  <2>2. /\ ReadList(CreateNewEvent(l, c, f).list)
        /\ Len(CreateNewEvent(l, c, f).list) = Len(l) + 1
        /\ CreateNewEvent(l, c, f).list[c] = l[c]
    BY <2>1, CreateKeepsPlace
  <2> QED BY <2>2 DEF l, c
<1> HIDE DEF off
<1>10. cur' \in 1..Len(list') /\ list'[cur'].time =< now'
  BY <1>1, <1>3, <1>4, <1>5, <1>6, <1>9
<1> HIDE DEF t
<1> QED BY <1>1, <1>2, <1>3, <1>5, <1>9, <1>10, ReadKeeps

(* The first state of a channel is an event. *)
LEMMA FirstStateType ==
  ASSUME fs \in FsType, NEW f \in {"patch", "vol", "pan"}, NEW ch \in Channels, NEW e \in Events
  PROVE  FirstState(f, ch, e) \in FsType
<1>1. [fs EXCEPT ![f][ch] = e] \in FsType
  BY DEF FsType
<1> QED BY <1>1 DEF FirstState

(* The first state of a channel is four events of time and id 0. *)
LEMMA PrologueType ==
  ASSUME fs \in FsType, NEW ch \in Channels, fs.patch[ch] # None
  PROVE  /\ Prologue(ch) \in Seq(Events) /\ Len(Prologue(ch)) = 4
         /\ \A i \in 1..4 : Prologue(ch)[i].time = 0 /\ Prologue(ch)[i].id = 0
<1> DEFINE patch == fs.patch[ch]
           vol == fs.vol[ch]
           pan == fs.pan[ch]
           b2 == IF Near(vol, patch) THEN vol.b ELSE DefaultVol
           b3 == IF Near(pan, patch) THEN pan.b ELSE DefaultPan
           e1 == Event(0, 0, "ctrl", ch, BankCtrl, 0, -1)
           e2 == Event(0, 0, "ctrl", ch, VolCtrl, b2, -1)
           e3 == Event(0, 0, "ctrl", ch, PanCtrl, b3, -1)
           e4 == Event(0, 0, "prog", ch, patch.a, 0, -1)
<1>1. patch \in Events /\ vol \in Events \cup {None} /\ pan \in Events \cup {None} /\ ch \in Nat
  BY XmidiAssumption DEF FsType, Channels
<1> HIDE DEF patch, vol, pan
<1>2. b2 \in Values \cup Nat /\ b3 \in Values \cup Nat /\ patch.a \in Keys \cup Values \cup Nat
  <2>1. \A x \in Events : x.a \in Keys \cup Values \cup Nat /\ x.b \in Values \cup Nat
    BY DEF Events
  <2> QED BY <1>1, <2>1 DEF Near, DefaultVol, DefaultPan
<1> HIDE DEF b2, b3
<1>3. /\ e1 \in Events /\ e1.time = 0 /\ e1.id = 0
      /\ e4 \in Events /\ e4.time = 0 /\ e4.id = 0
  BY <1>1, <1>2, SMT DEF Event, Events, Statuses, VoiceStatus, BankCtrl
<1>4. /\ e2 \in Events /\ e2.time = 0 /\ e2.id = 0
      /\ e3 \in Events /\ e3.time = 0 /\ e3.id = 0
  BY <1>1, <1>2, SMT DEF Event, Events, Statuses, VoiceStatus, VolCtrl, PanCtrl
<1>5. Prologue(ch) = <<e1, e2, e3, e4>>
  BY DEF Prologue, patch, vol, pan, b2, b3
<1> HIDE DEF e1, e2, e3, e4
<1> QED BY <1>3, <1>4, <1>5

(* An empty list is in order. *)
LEMMA InitIInv == Init => IInv
<1> SUFFICES ASSUME Init PROVE IInv
  OBVIOUS
<1>1. list = <<>> /\ Len(list) = 0 /\ list \in Seq(Events) /\ cur = 0
  BY DEF Init
<1>2. Ordered(list) /\ Ids(list)
  BY <1>1 DEF Ordered, Ids
<1>3. fs \in FsType
  BY DEF Init, FsType
<1> QED BY <1>1, <1>2, <1>3 DEF Init, IInv, TypeOK, InOrder, FsType

(* A step that puts the first state of a channel or the tempo in front. *)
LEMMA PrependStep ==
  ASSUME IInv, NEW p \in Seq(Events), Len(p) > 0,
         \A i \in 1..Len(p) : p[i].time = 0 /\ p[i].id = 0,
         Prepend(p), UNCHANGED <<items, now, fs>>, chan' \in Nat,
         phase' \in {"applying", "converted"}
  PROVE  IInv'
<1>1. list \in Seq(Events) /\ Ordered(list) /\ cur \in 0..Len(list) /\ Len(p) \in Nat
  BY DEF IInv, TypeOK, InOrder
<1>2. list' \in Seq(Events) /\ Len(list') = Len(p) + Len(list) /\ Ordered(list')
  BY <1>1, PrependKeepsOrder DEF Prepend
<1>3. cur' \in 0..Len(list')
  BY <1>1, <1>2 DEF Prepend
<1> QED BY <1>2, <1>3 DEF IInv, TypeOK, InOrder

(* Every item, and every step behind the reading, keeps the invariant. *)
LEMMA StepIInv == IInv /\ [Next]_vars => IInv'
<1> SUFFICES ASSUME IInv, [Next]_vars PROVE IInv'
  OBVIOUS
<1>0. \A d \in Delays : now + d \in Nat /\ NewId(list) \in Nat /\ fs \in FsType
  BY ItemTypes
<1>1. CASE UNCHANGED vars
  BY <1>1 DEF vars, IInv, TypeOK, InOrder, Ids
<1>2. ASSUME NEW d \in Delays, ReadTempo(d) PROVE IInv'
  <2>1. now \in Nat /\ d \in Nat /\ now' = now + d /\ items' = items + 1 /\ chan' = chan
    BY <1>2, XmidiAssumption DEF ReadTempo, Item, IInv, TypeOK
  <2>2. cur # 0 => list[cur].time \in Nat
    BY TimesAndIds DEF IInv, TypeOK
  <2>3. cur # 0 /\ phase = "reading" => list[cur].time =< now'
    BY <2>1, <2>2 DEF IInv, TypeOK
  <2> QED BY <1>2, <2>1, <2>3 DEF ReadTempo, IInv, TypeOK, InOrder, Ids
<1>3. ASSUME NEW d \in Delays, ReadEndOfTrack(d) PROVE IInv'
  <2> DEFINE e == Event(now + d, NewId(list), "meta", 0, EndOfTrack, 0, -1)
             r == CreateNewEvent(list, cur, e)
  <2>1. e \in Events /\ e.time = now + d /\ e.id = NewId(list)
    BY <1>0, SMT DEF Event, Events, Statuses, EndOfTrack
  <2>2. Item(d) /\ list' = r.list /\ cur' = 1 /\ phase' = "applying" /\ fs' = fs
    BY <1>3 DEF ReadEndOfTrack
  <2> HIDE DEF e
  <2>3. phase = "reading" /\ chan' \in Nat
    BY <2>2 DEF Item, IInv, TypeOK
  <2>4. ReadList(r.list) /\ r.cur \in 1..Len(r.list) /\ now' \in Nat /\ items' \in Nat
    BY <2>1, <2>2, <2>3, InsertStep
  <2> HIDE DEF r
  <2>5. 1 \in 1..Len(r.list)
    BY <2>4
  <2>6. fs \in FsType
    BY <1>0
  <2> QED BY <2>2, <2>3, <2>4, <2>5, <2>6, ReadKeeps
<1>4. ASSUME NEW d \in Delays, NEW st \in {"sysex", "meta"}, ReadSystem(d, st, 1) PROVE IInv'
  <2> DEFINE e == Event(now + d, NewId(list), st, 0, 1, 0, -1)
  <2>1. e \in Events /\ e.time = now + d /\ e.id = NewId(list)
    BY <1>0, SMT DEF Event, Events, Statuses
  <2>2. Item(d) /\ Insert(d, e) /\ fs' = fs /\ phase' = phase /\ phase = "reading"
    BY <1>4 DEF ReadSystem, Item
  <2> HIDE DEF e
  <2> QED BY <1>0, <2>1, <2>2, InsertKeeps
<1>5. ASSUME NEW d \in Delays, NEW ch \in Channels, NEW key \in Keys, NEW v \in Values,
             ReadNoteOnBad(d, ch, key, v)
      PROVE  IInv'
  <2> DEFINE e == Event(now + d, NewId(list), "noteOn", ch, key, v, 0)
  <2>1. e \in Events /\ e.time = now + d /\ e.id = NewId(list)
    BY <1>0, XmidiAssumption, SMT DEF Event, Events, Statuses, VoiceStatus, Channels
  <2>2. Item(d) /\ Insert(d, e) /\ fs' = fs /\ phase' = "threw"
    BY <1>5 DEF ReadNoteOnBad
  <2> HIDE DEF e
  <2> QED BY <1>0, <2>1, <2>2, InsertKeeps
<1>6. ASSUME NEW d \in Delays, NEW ch \in Channels, NEW key \in Keys, NEW v \in Values,
             NEW dur \in Durations, ReadNoteOn(d, ch, key, v, dur)
      PROVE  IInv'
  BY <1>6, NoteOnKeeps
<1>7. ASSUME NEW d \in Delays, NEW ch \in Channels, NEW key \in Keys, NEW v \in Values,
             NEW st \in {"noteOff", "other"}, ReadVoice(d, st, ch, key, v)
      PROVE  IInv'
  <2> DEFINE e == Event(now + d, NewId(list), st, ch, key, v, -1)
  <2>1. e \in Events /\ e.time = now + d /\ e.id = NewId(list)
    BY <1>0, XmidiAssumption, SMT DEF Event, Events, Statuses, VoiceStatus, Channels
  <2>2. Item(d) /\ Insert(d, e) /\ fs' = fs /\ phase' = phase /\ phase = "reading"
    BY <1>7 DEF ReadVoice, Item
  <2> HIDE DEF e
  <2> QED BY <1>0, <2>1, <2>2, InsertKeeps
<1>8. ASSUME NEW d \in Delays, NEW ch \in Channels, NEW v \in Values, ReadProgChange(d, ch, v)
      PROVE  IInv'
  <2> DEFINE e == Event(now + d, NewId(list), "prog", ch, v, 0, -1)
  <2>1. e \in Events /\ e.time = now + d /\ e.id = NewId(list)
    BY <1>0, XmidiAssumption, SMT DEF Event, Events, Statuses, VoiceStatus, Channels
  <2>2. CASE ch = Drums
    <3>1. ReadTempo(d)
      BY <1>8, <2>2 DEF ReadProgChange, ReadTempo
    <3> QED BY <3>1, <1>2
  <2>3. CASE ch # Drums
    <3>1. Item(d) /\ Insert(d, e) /\ fs' = FirstState("patch", ch, e) /\ phase' = phase
          /\ phase = "reading"
      BY <1>8, <2>3 DEF ReadProgChange, Item
    <3> HIDE DEF e
    <3>2. fs' \in FsType
      BY <1>0, <2>1, <3>1, FirstStateType
    <3> QED BY <2>1, <3>1, <3>2, InsertKeeps
  <2> QED BY <2>2, <2>3
<1>9. ASSUME NEW d \in Delays, NEW ch \in Channels, NEW v \in Values,
             NEW a \in {BankCtrl, VolCtrl, PanCtrl}, ReadController(d, ch, a, v)
      PROVE  IInv'
  <2> DEFINE e == Event(now + d, NewId(list), "ctrl", ch, a, v, -1)
  <2>1. e \in Events /\ e.time = now + d /\ e.id = NewId(list)
    BY <1>0, XmidiAssumption, SMT
       DEF Event, Events, Statuses, VoiceStatus, Channels, BankCtrl, VolCtrl, PanCtrl
  <2>2. Item(d) /\ Insert(d, e) /\ phase' = phase /\ phase = "reading"
        /\ fs' = IF a = VolCtrl THEN FirstState("vol", ch, e)
                 ELSE IF a = PanCtrl THEN FirstState("pan", ch, e) ELSE fs
    BY <1>9 DEF ReadController, Item
  <2> HIDE DEF e
  <2>3. fs' \in FsType
    BY <1>0, <2>1, <2>2, FirstStateType
  <2> QED BY <2>1, <2>2, <2>3, InsertKeeps
<1>10. CASE ReadDelayBad
  BY <1>10 DEF ReadDelayBad, IInv, TypeOK, InOrder
<1>11. CASE DataEnds
  <2>1. list \in Seq(Events) /\ (list # <<>> => Len(list) \in Nat /\ Len(list) # 0)
    BY DEF IInv, TypeOK
  <2> QED BY <1>11, <2>1 DEF DataEnds, IInv, TypeOK, InOrder
<1>12. CASE ApplyChannel
  <2>1. phase = "applying" /\ phase' = phase /\ chan' \in Nat /\ chan \in Channels
        /\ UNCHANGED <<items, now, fs>>
    BY <1>12 DEF ApplyChannel, IInv, TypeOK
  <2>2. CASE fs.patch[chan] # None /\ chan \in mask
    <3>1. Prepend(Prologue(chan))
      BY <1>12, <2>2 DEF ApplyChannel
    <3>2. fs \in FsType
      BY DEF IInv, TypeOK, FsType
    <3>3. /\ Prologue(chan) \in Seq(Events) /\ Len(Prologue(chan)) = 4
          /\ \A i \in 1..4 : Prologue(chan)[i].time = 0 /\ Prologue(chan)[i].id = 0
      BY <2>1, <2>2, <3>2, PrologueType
    <3> DEFINE p == Prologue(chan)
    <3>4. p \in Seq(Events) /\ Len(p) > 0 /\ Prepend(p)
      BY <3>1, <3>3
    <3>5. \A i \in 1..Len(p) : p[i].time = 0 /\ p[i].id = 0
      BY <3>3
    <3>6. phase' \in {"applying", "converted"} /\ chan' \in Nat /\ UNCHANGED <<items, now, fs>>
      BY <2>1
    <3> HIDE DEF p
    <3> QED BY <3>4, <3>5, <3>6, PrependStep
  <2>3. CASE ~(fs.patch[chan] # None /\ chan \in mask)
    BY <1>12, <2>1, <2>3 DEF ApplyChannel, IInv, TypeOK, InOrder
  <2> QED BY <2>2, <2>3
<1>13. CASE ApplyTempo
  <2> DEFINE e == Event(0, 0, "meta", 0, SetTempo, 0, -1)
  <2>1. e \in Events /\ e.time = 0 /\ e.id = 0
    BY SMT DEF Event, Events, Statuses, SetTempo
  <2>2. /\ Prepend(<<e>>) /\ UNCHANGED <<items, now, fs>> /\ phase' = "converted"
        /\ chan' \in Nat
    BY <1>13 DEF ApplyTempo, IInv, TypeOK
  <2> HIDE DEF e
  <2> DEFINE p == <<e>>
  <2>3. p \in Seq(Events) /\ Len(p) > 0 /\ \A i \in 1..Len(p) : p[i].time = 0 /\ p[i].id = 0
    BY <2>1
  <2>4. Prepend(p) /\ phase' \in {"applying", "converted"}
    BY <2>2
  <2> HIDE DEF p
  <2> QED BY <2>2, <2>3, <2>4, PrependStep
<1>14. CASE CreateMidiTrack
  BY <1>14 DEF CreateMidiTrack, IInv, TypeOK, InOrder
<1> QED
  BY <1>1, <1>2, <1>3, <1>4, <1>5, <1>6, <1>7, <1>8, <1>9, <1>10, <1>11, <1>12, <1>13, <1>14
     DEF Next

(* The converter never loses its place in the list, for every track.       *)
THEOREM XmidiTypeCorrect == Spec => []TypeOK
<1>1. IInv => TypeOK
  BY DEF IInv
<1> QED BY <1>1, InitIInv, StepIInv, PTL DEF Spec

(* The list is the stable sort of the events by time. *)
THEOREM XmidiInOrder == Spec => []InOrder
<1>1. IInv => InOrder
  BY DEF IInv
<1> QED BY <1>1, InitIInv, StepIInv, PTL DEF Spec

(* Consequence for the writer: no delay is negative, so that none wraps    *)
(* around as the unsigned number it is written as.                         *)
DelaysFit == \A k \in 2..Len(list) : Delta(list, k) >= 0

(* CreateMidiTrack writes no wrapped delay, for every track. *)
THEOREM XmidiDelaysFit == Spec => []DelaysFit
<1>1. IInv => DelaysFit
  <2> SUFFICES ASSUME IInv, NEW k \in 2..Len(list) PROVE Delta(list, k) >= 0
    BY DEF DelaysFit
  <2>1. list \in Seq(Events) /\ Ordered(list)
    BY DEF IInv, TypeOK, InOrder
  <2>2. k \in 1..Len(list) /\ k - 1 \in 1..(k - 1) /\ k - 1 \in 1..Len(list)
    BY <2>1
  <2>3. Before(list[k - 1], list[k])
    BY <2>1, <2>2 DEF Ordered
  <2>4. list[k - 1].time \in Nat /\ list[k].time \in Nat
    BY <2>1, <2>2, TimesAndIds
  <2> QED BY <2>3, <2>4 DEF Before, Delta
<1> QED BY <1>1, InitIInv, StepIInv, PTL DEF Spec
-------------------------------------------------------------------------------
(* The events of the list and what they stand for. *)

Members(l) == {l[i] : i \in 1..Len(l)}

IsProg(e) == e.st = "prog" /\ e.id # 0

(* Every note was given its end next, but the one whose duration throws. *)
Paired(E) ==
  \A n \in E : IsNote(n) =>
    /\ n.id > 0 /\ n.ch \in mask
    /\ phase # "threw" => \E e \in E : Ends(e, n) /\ e.id = n.id + 1

(* And a note on that is no note is such an end. *)
EndsOfNotes(E) ==
  \A e \in E : e.st = "noteOn" /\ ~IsNote(e) =>
    \E n \in E : IsNote(n) /\ Ends(e, n) /\ e.id = n.id + 1

(* The end of the track is the last event that was read. *)
EndIsLast(E) ==
  \A x \in E : IsEnd(x) => phase # "reading" /\ x.id > 0 /\ \A y \in E : y.id =< x.id

(* The first states are the first program changes. *)
FirstPrograms(E) ==
  /\ \A ch \in Channels : fs.patch[ch] # None =>
       /\ fs.patch[ch] \in E /\ fs.patch[ch].st = "prog" /\ fs.patch[ch].ch = ch
       /\ fs.patch[ch].id # 0 /\ (phase = "reading" => fs.patch[ch].time =< now)
  /\ \A x \in E : IsProg(x) =>
       /\ x.ch \in Channels /\ fs.patch[x.ch] # None
       /\ x = fs.patch[x.ch] \/ fs.patch[x.ch].id < x.id

(* The channels whose first state was applied begin with their program. *)
Prologued(E) ==
  \A ch \in Channels : ch < chan /\ fs.patch[ch] # None /\ ch \in mask =>
    \E x \in E : /\ x.st = "prog" /\ x.ch = ch /\ x.a = fs.patch[ch].a
                 /\ x.time = 0 /\ x.id = 0

HInv ==
  /\ IInv
  /\ Paired(Members(list)) /\ EndsOfNotes(Members(list)) /\ EndIsLast(Members(list))
  /\ FirstPrograms(Members(list)) /\ Prologued(Members(list))
  /\ phase \in {"reading", "threw"} => chan = 0
  /\ phase \in {"converted", "written"} => chan \notin Channels
  /\ out = IF phase = "written" THEN Written(list) ELSE [body |-> <<>>, end |-> 0]

LEMMA ConcatMembers ==
  ASSUME NEW p \in Seq(Events), NEW l \in Seq(Events)
  PROVE  Members(p \o l) = Members(p) \cup Members(l)
<1>1. /\ Len(p \o l) = Len(p) + Len(l) /\ Len(p) \in Nat /\ Len(l) \in Nat
      /\ \A i \in 1..(Len(p) + Len(l)) : (p \o l)[i] = IF i =< Len(p) THEN p[i] ELSE l[i - Len(p)]
  BY ConcatProperties
<1> DEFINE r == p \o l
<1> HIDE DEF r
<1>2. ASSUME NEW i \in 1..Len(p) PROVE i \in 1..Len(r) /\ r[i] = p[i]
  BY <1>1 DEF r
<1>3. ASSUME NEW i \in 1..Len(l) PROVE Len(p) + i \in 1..Len(r) /\ r[Len(p) + i] = l[i]
  <2>1. Len(p) + i \in 1..(Len(p) + Len(l)) /\ ~(Len(p) + i =< Len(p)) /\ (Len(p) + i) - Len(p) = i
    BY <1>1
  <2> QED BY <1>1, <2>1 DEF r
<1>4. ASSUME NEW i \in 1..Len(r) PROVE r[i] \in Members(p) \cup Members(l)
  <2>1. i \in 1..(Len(p) + Len(l))
    BY <1>1 DEF r
  <2>2. CASE i =< Len(p)
    BY <1>1, <2>1, <2>2 DEF Members, r
  <2>3. CASE ~(i =< Len(p))
    <3>1. i - Len(p) \in 1..Len(l) /\ r[i] = l[i - Len(p)]
      BY <1>1, <2>1, <2>3 DEF r
    <3> QED BY <3>1 DEF Members
  <2> QED BY <2>2, <2>3
<1>5. Members(p) \cup Members(l) \subseteq Members(r)
  BY <1>2, <1>3 DEF Members
<1>6. Members(r) \subseteq Members(p) \cup Members(l)
  BY <1>4 DEF Members
<1> QED BY <1>5, <1>6 DEF r

LEMMA InsertAtMembers ==
  ASSUME NEW s \in Seq(Events), NEW e \in Events, NEW k \in 0..Len(s)
  PROVE  Members(InsertAt(s, k + 1, e)) = Members(s) \cup {e}
<1> DEFINE r == InsertAt(s, k + 1, e)
<1>1. /\ r \in Seq(Events) /\ Len(r) = Len(s) + 1 /\ r[k + 1] = e
      /\ \A i \in 1..k : r[i] = s[i]
      /\ \A i \in (k + 2)..(Len(s) + 1) : r[i] = s[i - 1]
  <2>1. r \in Seq(Events) /\ Len(r) = Len(s) + 1 /\ r[k + 1] = e
    BY InsertAtElements
  <2>2. \A i \in 1..k : r[i] = s[i]
    <3> SUFFICES ASSUME NEW i \in 1..k PROVE r[i] = s[i]
      OBVIOUS
    <3> QED BY InsertAtBefore
  <2>3. \A i \in (k + 2)..(Len(s) + 1) : r[i] = s[i - 1]
    BY InsertAtElements
  <2> QED BY <2>1, <2>2, <2>3
<1> HIDE DEF r
<1>2. Len(s) \in Nat /\ k \in Nat /\ k =< Len(s)
  OBVIOUS
<1>3. ASSUME NEW i \in 1..Len(s) PROVE \E j \in 1..Len(r) : r[j] = s[i]
  <2>1. CASE i =< k
    BY <1>1, <1>2, <2>1
  <2>2. CASE ~(i =< k)
    <3>1. i + 1 \in (k + 2)..(Len(s) + 1) /\ i + 1 \in 1..Len(r) /\ (i + 1) - 1 = i
      BY <1>1, <1>2, <2>2
    <3> QED BY <1>1, <3>1
  <2> QED BY <2>1, <2>2
<1>4. ASSUME NEW i \in 1..Len(r) PROVE r[i] \in Members(s) \cup {e}
  <2>1. CASE i =< k
    <3>1. i \in 1..k /\ i \in 1..Len(s)
      BY <1>1, <1>2, <2>1
    <3> QED BY <1>1, <3>1 DEF Members
  <2>2. CASE i = k + 1
    BY <1>1, <2>2
  <2>3. CASE i > k + 1
    <3>1. i \in (k + 2)..(Len(s) + 1) /\ i - 1 \in 1..Len(s)
      BY <1>1, <1>2, <2>3
    <3> QED BY <1>1, <3>1 DEF Members
  <2> QED BY <1>1, <1>2, <2>1, <2>2, <2>3
<1>5. e \in Members(r)
  <2>1. k + 1 \in 1..Len(r)
    BY <1>1, <1>2
  <2> QED BY <1>1, <2>1 DEF Members
<1>6. Members(s) \subseteq Members(r)
  BY <1>3 DEF Members
<1>7. Members(r) \subseteq Members(s) \cup {e}
  BY <1>4 DEF Members
<1> QED BY <1>5, <1>6, <1>7 DEF r

(* CreateNewEvent adds the event and loses none. *)
LEMMA CreateMembers ==
  ASSUME NEW l, ReadList(l), NEW c \in 0..Len(l), NEW e \in Events, e.id = Len(l) + 1,
         l # <<>> => l[1].time =< e.time
  PROVE  Members(CreateNewEvent(l, c, e).list) = Members(l) \cup {e}
<1>1. CASE l = <<>>
  <2>1. CreateNewEvent(l, c, e).list = <<e>> /\ Len(l) = 0 /\ Len(<<e>>) = 1 /\ <<e>>[1] = e
    BY <1>1 DEF CreateNewEvent
  <2> QED BY <2>1 DEF Members
<1>2. CASE l # <<>>
  <2> DEFINE k == Place(l, c, e.time)
  <2>1. l \in Seq(Events) /\ Ordered(l) /\ e.time \in Nat /\ Len(l) \in Nat
    BY DEF ReadList, Events
  <2>2. k \in 1..Len(l)
    BY <1>2, <2>1, PlaceSplits
  <2>3. CreateNewEvent(l, c, e) = [list |-> InsertAt(l, k + 1, e), cur |-> k + 1]
    <3>1. 1 \in 1..Len(l)
      BY <1>2, <2>1
    <3>2. l[1].time \in Nat
      BY <2>1, <3>1, TimesAndIds
    <3>3. ~(e.time < 0 \/ l[1].time > e.time)
      BY <1>2, <2>1, <3>2
    <3> QED BY <1>2, <3>3 DEF CreateNewEvent
  <2> HIDE DEF k
  <2>4. k \in 0..Len(l)
    BY <2>1, <2>2
  <2>5. Members(InsertAt(l, k + 1, e)) = Members(l) \cup {e}
    BY <2>1, <2>4, InsertAtMembers
  <2> QED BY <2>3, <2>5
<1> QED BY <1>1, <1>2

LEMMA EventIsNotNone == \A e \in Events : e # None
<1> SUFFICES ASSUME NEW e \in Events, e = None PROVE FALSE
  OBVIOUS
<1>1. "time" \in DOMAIN e
  BY DEF Events
<1>2. DOMAIN None = {"none"}
  BY DEF None
<1> QED BY <1>1, <1>2

(* The ids of what was read before. *)
LEMMA OldIds ==
  ASSUME IInv, phase = "reading"
  PROVE  /\ list \in Seq(Events) /\ Len(list) \in Nat
         /\ \A x \in Members(list) : x.id \in 1..Len(list) /\ x \in Events
<1>1. list \in Seq(Events) /\ Ids(list)
  BY DEF IInv, TypeOK
<1>2. \A i \in 1..Len(list) : list[i] \in Events
  BY <1>1, ElementOfSeq
<1> QED BY <1>1, <1>2 DEF Ids, Members

(* What the reading of an item that adds the events A has to show. *)
LEMMA ReadKeepsHistory ==
  ASSUME HInv, IInv', phase = "reading", phase' \in {"reading", "threw", "applying"},
         chan' = chan, out' = out, mask \subseteq mask',
         NEW A, Members(list') = Members(list) \cup A,
         \A x \in A : x.id \in Nat /\ x.id > Len(list),
         \A n \in A : IsNote(n) =>
           n.ch \in mask' /\ (phase' # "threw" => \E e \in A : Ends(e, n) /\ e.id = n.id + 1),
         EndsOfNotes(A),
         \A x \in A : IsEnd(x) => phase' # "reading" /\ \A y \in A : y.id =< x.id,
         FirstPrograms(Members(list))'
  PROVE  HInv'
<1> DEFINE E == Members(list)
<1>1. Len(list) \in Nat /\ \A x \in E : x.id \in 1..Len(list)
  BY OldIds DEF HInv
<1>2. Members(list)' = E \cup A
  OBVIOUS
<1>3. Paired(E) /\ EndsOfNotes(E) /\ EndIsLast(E) /\ chan = 0
  BY DEF HInv
<1>4. out = [body |-> <<>>, end |-> 0]
  BY DEF HInv
<1> HIDE DEF E
<1>5. Paired(Members(list))'
  <2> SUFFICES ASSUME NEW n \in E \cup A, IsNote(n)
               PROVE  /\ n.id > 0 /\ n.ch \in mask'
                      /\ phase' # "threw" => \E e \in E \cup A : Ends(e, n) /\ e.id = n.id + 1
    BY <1>2 DEF Paired
  <2>1. CASE n \in E
    <3>1. n.id > 0 /\ n.ch \in mask /\ \E e \in E : Ends(e, n) /\ e.id = n.id + 1
      BY <1>3, <2>1 DEF Paired
    <3> QED BY <3>1
  <2>2. CASE n \in A
    BY <1>1, <2>2
  <2> QED BY <2>1, <2>2
<1>6. EndIsLast(Members(list))'
  <2> SUFFICES ASSUME NEW x \in E \cup A, IsEnd(x)
               PROVE  phase' # "reading" /\ x.id > 0 /\ \A y \in E \cup A : y.id =< x.id
    BY <1>2 DEF EndIsLast
  <2>1. x \in A
    BY <1>3 DEF EndIsLast
  <2>2. x.id \in Nat /\ x.id > Len(list) /\ phase' # "reading" /\ \A y \in A : y.id =< x.id
    BY <2>1
  <2>3. \A y \in E : y.id =< x.id
    BY <1>1, <2>2
  <2> QED BY <1>1, <2>2, <2>3
<1>7. Prologued(Members(list))'
  <2>1. \A ch \in Channels : ~(ch < 0)
    BY XmidiAssumption DEF Channels
  <2> QED BY <1>3, <2>1 DEF Prologued
<1>8. EndsOfNotes(Members(list))'
  BY <1>2, <1>3 DEF EndsOfNotes
<1> QED BY <1>3, <1>4, <1>5, <1>6, <1>7, <1>8 DEF HInv

(* No program change is added. *)
LEMMA SamePrograms ==
  ASSUME HInv, fs'.patch = fs.patch, now \in Nat, now' \in Nat, now =< now',
         phase' = "reading" => phase = "reading",
         NEW A, Members(list') = Members(list) \cup A, \A x \in A : ~IsProg(x)
  PROVE  FirstPrograms(Members(list))'
<1>1. FirstPrograms(Members(list)) /\ fs \in FsType
  BY DEF HInv, IInv, TypeOK, FsType
<1>2. \A ch \in Channels : fs.patch[ch] # None => fs.patch[ch].time \in Nat
  BY <1>1 DEF FsType, Events
<1> QED BY <1>1, <1>2 DEF FirstPrograms

(* A program change is added: the first of its channel is kept. *)
LEMMA NewProgram ==
  ASSUME HInv, phase = "reading", phase' = phase, now \in Nat, now' \in Nat, now =< now',
         NEW ch \in Channels, NEW e \in Events, e.st = "prog", e.ch = ch, e.time = now',
         e.id = Len(list) + 1, fs' = FirstState("patch", ch, e),
         Members(list') = Members(list) \cup {e}
  PROVE  FirstPrograms(Members(list))'
<1>1. FirstPrograms(Members(list)) /\ fs \in FsType
  BY DEF HInv, IInv, TypeOK, FsType
<1>2. Len(list) \in Nat /\ \A x \in Members(list) : x.id \in 1..Len(list)
  BY OldIds DEF HInv
<1>3. PICK old : old = fs.patch[ch]
  OBVIOUS
<1>4. CASE old = None
  <2>1. fs' = [fs EXCEPT !["patch"][ch] = e]
    BY <1>3, <1>4 DEF FirstState
  <2>2. \A c \in Channels : fs'.patch[c] = IF c = ch THEN e ELSE fs.patch[c]
    BY <1>1, <2>1 DEF FsType
  <2>3. \A x \in Members(list) : IsProg(x) => x.ch # ch
    BY <1>1, <1>3, <1>4 DEF FirstPrograms
  <2>4. \A c \in Channels : fs.patch[c] # None => fs.patch[c].time \in Nat
    BY <1>1 DEF FsType, Events
  <2>5. e # None /\ e.id # 0
    BY <1>2, EventIsNotNone
  <2>6. ASSUME NEW c \in Channels, fs'.patch[c] # None
        PROVE  /\ fs'.patch[c] \in Members(list') /\ fs'.patch[c].st = "prog" /\ fs'.patch[c].ch = c
               /\ fs'.patch[c].id # 0 /\ fs'.patch[c].time =< now'
    BY <1>1, <2>2, <2>4, <2>5, <2>6 DEF FirstPrograms
  <2>7. ASSUME NEW x \in Members(list'), IsProg(x)
        PROVE  /\ x.ch \in Channels /\ fs'.patch[x.ch] # None
               /\ x = fs'.patch[x.ch] \/ fs'.patch[x.ch].id < x.id
    BY <1>1, <2>2, <2>3, <2>5, <2>7 DEF FirstPrograms
  <2> QED BY <2>6, <2>7 DEF FirstPrograms
<1>5. CASE old # None
  <2>1. old \in Members(list) /\ old.time =< now /\ old.time \in Nat /\ old.id \in 1..Len(list)
    BY <1>1, <1>2, <1>3, <1>5 DEF FirstPrograms, FsType, Events
  <2>2. ~(old.time > e.time)
    BY <2>1
  <2>3. fs' = fs
    BY <1>3, <1>5, <2>2 DEF FirstState
  <2>4. \A c \in Channels : fs.patch[c] # None => fs.patch[c].time \in Nat
    BY <1>1 DEF FsType, Events
  <2>5. old.id < e.id
    BY <1>2, <2>1
  <2>6. ASSUME NEW c \in Channels, fs'.patch[c] # None
        PROVE  /\ fs'.patch[c] \in Members(list') /\ fs'.patch[c].st = "prog" /\ fs'.patch[c].ch = c
               /\ fs'.patch[c].id # 0 /\ fs'.patch[c].time =< now'
    BY <1>1, <2>3, <2>4, <2>6 DEF FirstPrograms
  <2>7. ASSUME NEW x \in Members(list'), IsProg(x)
        PROVE  /\ x.ch \in Channels /\ fs'.patch[x.ch] # None
               /\ x = fs'.patch[x.ch] \/ fs'.patch[x.ch].id < x.id
    BY <1>1, <1>3, <1>5, <2>3, <2>5, <2>7 DEF FirstPrograms
  <2> QED BY <2>6, <2>7 DEF FirstPrograms
<1> QED BY <1>4, <1>5

(* The head is not later than an event of the next item. *)
LEMMA ReadingHead ==
  ASSUME IInv, phase = "reading", NEW t \in Nat, now =< t
  PROVE  list # <<>> => list[1].time =< t
<1> SUFFICES ASSUME list # <<>> PROVE list[1].time =< t
  OBVIOUS
<1>1. list \in Seq(Events) /\ Ordered(list) /\ now \in Nat
      /\ cur \in 1..Len(list) /\ list[cur].time =< now
  BY DEF IInv, TypeOK, InOrder
<1>2. 1 \in 1..Len(list) /\ list[1].time \in Nat /\ list[cur].time \in Nat
  BY <1>1, TimesAndIds
<1>3. list[1].time =< list[cur].time
  <2>1. CASE cur = 1
    BY <1>2, <2>1
  <2>2. CASE cur # 1
    <3>1. 1 \in 1..(cur - 1)
      BY <1>1, <2>2
    <3>2. Before(list[1], list[cur])
      BY <1>1, <3>1 DEF Ordered
    <3> QED BY <1>2, <3>2 DEF Before
  <2> QED BY <2>1, <2>2
<1> QED BY <1>1, <1>2, <1>3

(* One event is inserted for an item. *)
LEMMA InsertMembers ==
  ASSUME IInv, NEW d \in Delays, Item(d), NEW e \in Events,
         e.id = NewId(list), e.time = now + d, Insert(d, e)
  PROVE  /\ phase = "reading" /\ chan' = chan /\ out' = out
         /\ now \in Nat /\ now' \in Nat /\ now =< now' /\ e.time = now'
         /\ Members(list') = Members(list) \cup {e}
         /\ Len(list) \in Nat /\ e.id = Len(list) + 1
<1>1. phase = "reading" /\ chan' = chan /\ out' = out /\ now' = now + d
  BY DEF Item
<1>2. now \in Nat /\ d \in Nat /\ list \in Seq(Events) /\ cur \in 0..Len(list)
  BY XmidiAssumption DEF IInv, TypeOK
<1>3. ReadList(list) /\ e.id = Len(list) + 1
  BY <1>1 DEF IInv, TypeOK, InOrder, ReadList, NewId
<1>4. list # <<>> => list[1].time =< e.time
  BY <1>1, <1>2, <1>3, ReadingHead
<1>5. Members(CreateNewEvent(list, cur, e).list) = Members(list) \cup {e}
  BY <1>2, <1>3, <1>4, CreateMembers
<1>6. list' = CreateNewEvent(list, cur, e).list
  BY DEF Insert
<1> QED BY <1>1, <1>2, <1>3, <1>5, <1>6

(* An event that is no note, no program and no end of track. *)
LEMMA PlainKeeps ==
  ASSUME HInv, IInv', NEW d \in Delays, Item(d), NEW e \in Events,
         e.id = NewId(list), e.time = now + d, Insert(d, e),
         e.st # "noteOn", ~IsEnd(e), e.st # "prog",
         fs'.patch = fs.patch, mask' = mask, phase' = phase
  PROVE  HInv'
<1>1. /\ phase = "reading" /\ chan' = chan /\ out' = out
      /\ now \in Nat /\ now' \in Nat /\ now =< now'
      /\ Members(list') = Members(list) \cup {e}
      /\ Len(list) \in Nat /\ e.id = Len(list) + 1
  BY InsertMembers DEF HInv
<1> DEFINE A == {e}
<1>2. /\ \A x \in A : ~IsProg(x) /\ ~IsNote(x) /\ ~IsEnd(x) /\ x.id \in Nat /\ x.id > Len(list)
      /\ EndsOfNotes(A)
  BY <1>1 DEF IsProg, IsNote, EndsOfNotes
<1>3. Members(list') = Members(list) \cup A
  BY <1>1
<1> HIDE DEF A
<1>4. FirstPrograms(Members(list))'
  BY <1>1, <1>2, <1>3, SamePrograms
<1> QED BY <1>1, <1>2, <1>3, <1>4, ReadKeepsHistory

LEMMA ProgKeeps ==
  ASSUME HInv, IInv', NEW d \in Delays, Item(d), NEW ch \in Channels, NEW e \in Events,
         e.id = NewId(list), e.time = now + d, Insert(d, e), e.st = "prog", e.ch = ch,
         fs' = FirstState("patch", ch, e), mask' = mask, phase' = phase
  PROVE  HInv'
<1>1. /\ phase = "reading" /\ chan' = chan /\ out' = out
      /\ now \in Nat /\ now' \in Nat /\ now =< now' /\ e.time = now'
      /\ Members(list') = Members(list) \cup {e}
      /\ Len(list) \in Nat /\ e.id = Len(list) + 1
  BY InsertMembers DEF HInv
<1>2. FirstPrograms(Members(list))'
  BY <1>1, NewProgram
<1> DEFINE A == {e}
<1>3. /\ \A x \in A : ~IsNote(x) /\ ~IsEnd(x) /\ x.id \in Nat /\ x.id > Len(list)
      /\ EndsOfNotes(A)
  BY <1>1 DEF IsNote, IsEnd, EndsOfNotes
<1>4. Members(list') = Members(list) \cup A
  BY <1>1
<1> HIDE DEF A
<1> QED BY <1>1, <1>2, <1>3, <1>4, ReadKeepsHistory

(* The note whose duration throws. *)
LEMMA BadNoteKeeps ==
  ASSUME HInv, IInv', NEW d \in Delays, NEW ch \in Channels, NEW key \in Keys, NEW v \in Values,
         ReadNoteOnBad(d, ch, key, v)
  PROVE  HInv'
<1> DEFINE e == Event(now + d, NewId(list), "noteOn", ch, key, v, 0)
<1>1. /\ e \in Events /\ e.time = now + d /\ e.id = NewId(list)
      /\ e.st = "noteOn" /\ e.ch = ch /\ e.dur = 0
  <2>1. now + d \in Nat /\ NewId(list) \in Nat
    BY ItemTypes DEF HInv
  <2> QED BY <2>1, XmidiAssumption, SMT DEF Event, Events, Statuses, VoiceStatus, Channels
<1>2. /\ Item(d) /\ Insert(d, e) /\ fs' = fs /\ phase' = "threw" /\ mask' = mask \cup {ch}
  BY DEF ReadNoteOnBad
<1> HIDE DEF e
<1>3. /\ phase = "reading" /\ chan' = chan /\ out' = out
      /\ now \in Nat /\ now' \in Nat /\ now =< now'
      /\ Members(list') = Members(list) \cup {e}
      /\ Len(list) \in Nat /\ e.id = Len(list) + 1
  BY <1>1, <1>2, InsertMembers DEF HInv
<1> DEFINE A == {e}
<1>4. /\ \A x \in A : /\ ~IsProg(x) /\ ~IsEnd(x) /\ x.ch \in mask'
                      /\ x.id \in Nat /\ x.id > Len(list)
      /\ EndsOfNotes(A)
  BY <1>1, <1>2, <1>3 DEF IsProg, IsEnd, IsNote, EndsOfNotes
<1>5. Members(list') = Members(list) \cup A
  BY <1>3
<1> HIDE DEF A
<1>6. FirstPrograms(Members(list))'
  BY <1>2, <1>3, <1>4, <1>5, SamePrograms
<1> QED BY <1>2, <1>3, <1>4, <1>5, <1>6, ReadKeepsHistory

LEMMA NoteHistory ==
  ASSUME HInv, IInv', NEW d \in Delays, NEW ch \in Channels, NEW key \in Keys, NEW v \in Values,
         NEW dur \in Durations, ReadNoteOn(d, ch, key, v, dur)
  PROVE  HInv'
<1> DEFINE t   == now + d
           e   == Event(t, NewId(list), "noteOn", ch, key, v, dur)
           on  == CreateNewEvent(list, cur, e)
           f   == NoteOff(t, NewId(on.list), ch, key, dur)
           off == CreateNewEvent(on.list, on.cur, f)
<1>1. /\ Item(d) /\ list' = off.list /\ phase' = phase /\ fs' = fs /\ mask' = mask \cup {ch}
  BY DEF ReadNoteOn
<1>2. phase = "reading" /\ chan' = chan /\ out' = out /\ now' = t
  BY <1>1 DEF Item
<1>3. ch \in Nat /\ dur \in Nat /\ t \in Nat /\ NewId(list) \in Nat /\ now \in Nat /\ d \in Nat
  BY XmidiAssumption, ItemTypes DEF Channels, HInv, IInv, TypeOK
<1>4. /\ e \in Events /\ e.time = t /\ e.id = NewId(list)
      /\ e.st = "noteOn" /\ e.ch = ch /\ e.a = key /\ e.dur = dur
  BY <1>3, SMT DEF Event, Events, Statuses, VoiceStatus
<1> HIDE DEF e
<1>5. /\ ReadList(on.list) /\ Len(on.list) = Len(list) + 1
      /\ on.cur \in 1..Len(on.list) /\ on.list[1].time =< e.time
  BY <1>1, <1>2, <1>4, InsertStep DEF HInv
<1>6. ReadList(list) /\ cur \in 0..Len(list) /\ Len(list) \in Nat /\ e.id = Len(list) + 1
  <2>1. list \in Seq(Events) /\ cur \in 0..Len(list)
    BY DEF HInv, IInv, TypeOK
  <2> QED BY <1>2, <1>4, <2>1 DEF HInv, IInv, TypeOK, InOrder, ReadList, NewId
<1>7. Members(on.list) = Members(list) \cup {e}
  <2>1. list # <<>> => list[1].time =< e.time
    BY <1>2, <1>3, <1>4, ReadingHead DEF HInv
  <2> QED BY <1>4, <1>6, <2>1, CreateMembers
<1> HIDE DEF on
<1>8. NewId(on.list) = Len(list) + 2 /\ NewId(on.list) \in Nat
  BY <1>5, <1>6 DEF NewId
<1>9. /\ f \in Events /\ f.time = t + dur /\ f.id = Len(list) + 2 /\ f.st = "noteOn"
      /\ f.ch = ch /\ f.a = key /\ f.b = 0 /\ f.dur = -1
  <2>1. t + dur \in Nat
    BY <1>3
  <2> QED BY <2>1, <1>3, <1>8, SMT DEF NoteOff, Event, Events, Statuses, VoiceStatus
<1> HIDE DEF f
<1>10. Members(off.list) = Members(on.list) \cup {f}
  <2> DEFINE l == on.list
             c == on.cur
  <2>1. Len(l) \in Nat /\ 1 \in 1..Len(l) /\ l \in Seq(Events)
    BY <1>5, <1>6 DEF ReadList
  <2>2. l[1].time \in Nat
    BY <2>1, TimesAndIds
  <2>3. /\ ReadList(l) /\ c \in 0..Len(l) /\ f.id = Len(l) + 1 /\ l[1].time =< f.time
    BY <1>3, <1>4, <1>5, <1>6, <1>9, <2>1, <2>2
  <2> HIDE DEF l, c
  <2>4. Members(CreateNewEvent(l, c, f).list) = Members(l) \cup {f}
    BY <1>9, <2>3, CreateMembers
  <2> QED BY <2>4 DEF l, c
<1> HIDE DEF off
<1> DEFINE A == {e, f}
<1>11. Members(list') = Members(list) \cup A
  BY <1>1, <1>7, <1>10
<1>12. /\ e \in A /\ f \in A /\ Ends(f, e) /\ f.id = e.id + 1 /\ ~IsNote(f) /\ IsNote(e)
       /\ \A x \in A : ~IsProg(x) /\ ~IsEnd(x) /\ x.id \in Nat /\ x.id > Len(list)
  BY <1>3, <1>4, <1>6, <1>9 DEF Ends, IsNote, IsProg, IsEnd
<1>13. /\ \A n \in A : IsNote(n) => n.ch \in mask' /\ \E x \in A : Ends(x, n) /\ x.id = n.id + 1
       /\ EndsOfNotes(A)
  BY <1>1, <1>4, <1>12 DEF EndsOfNotes
<1> HIDE DEF A, t
<1>14. FirstPrograms(Members(list))'
  <2>1. now =< now' /\ now \in Nat /\ now' \in Nat
    BY <1>2, <1>3 DEF t
  <2> QED BY <1>1, <1>2, <1>11, <1>12, <2>1, SamePrograms
<1>15. mask \subseteq mask' /\ phase' \in {"reading", "threw", "applying"}
  BY <1>1, <1>2
<1> QED BY <1>1, <1>2, <1>11, <1>12, <1>13, <1>14, <1>15, ReadKeepsHistory

LEMMA EndHistory ==
  ASSUME HInv, IInv', NEW d \in Delays, ReadEndOfTrack(d)
  PROVE  HInv'
<1> DEFINE e == Event(now + d, NewId(list), "meta", 0, EndOfTrack, 0, -1)
<1>1. e \in Events /\ e.time = now + d /\ e.id = NewId(list) /\ e.st = "meta"
  <2>1. now + d \in Nat /\ NewId(list) \in Nat
    BY ItemTypes DEF HInv
  <2> QED BY <2>1, SMT DEF Event, Events, Statuses, EndOfTrack
<1>2. /\ Item(d) /\ list' = CreateNewEvent(list, cur, e).list /\ fs' = fs /\ phase' = "applying"
      /\ mask' = mask
  BY DEF ReadEndOfTrack
<1> HIDE DEF e
<1>3. phase = "reading" /\ chan' = chan /\ out' = out /\ now' = now + d
  BY <1>2 DEF Item
<1>4. now \in Nat /\ d \in Nat /\ list \in Seq(Events) /\ cur \in 0..Len(list)
  BY XmidiAssumption DEF HInv, IInv, TypeOK
<1>5. ReadList(list) /\ e.id = Len(list) + 1 /\ Len(list) \in Nat
  BY <1>1, <1>3, <1>4 DEF HInv, IInv, TypeOK, InOrder, ReadList, NewId
<1>6. list # <<>> => list[1].time =< e.time
  BY <1>1, <1>3, <1>4, ReadingHead DEF HInv
<1> DEFINE A == {e}
<1>7. Members(list') = Members(list) \cup A
  BY <1>1, <1>2, <1>4, <1>5, <1>6, CreateMembers
<1>8. /\ \A x \in A : ~IsProg(x) /\ ~IsNote(x) /\ x.id \in Nat /\ x.id > Len(list) /\ \A y \in A : y.id =< x.id
      /\ EndsOfNotes(A)
  BY <1>1, <1>5 DEF IsProg, IsNote, EndsOfNotes
<1> HIDE DEF A
<1>9. FirstPrograms(Members(list))'
  <2>1. now =< now' /\ now \in Nat /\ now' \in Nat
    BY <1>3, <1>4
  <2> QED BY <1>2, <1>7, <1>8, <2>1, SamePrograms
<1> QED BY <1>2, <1>3, <1>7, <1>8, <1>9, ReadKeepsHistory

(* The first state of a channel: no notes, no end, and its program last. *)
LEMMA PrologueEvents ==
  ASSUME fs \in FsType, NEW ch \in Channels, fs.patch[ch] # None
  PROVE  /\ Prologue(ch) \in Seq(Events) /\ Len(Prologue(ch)) = 4
         /\ \A i \in 1..4 : /\ Prologue(ch)[i].time = 0 /\ Prologue(ch)[i].id = 0
                            /\ Prologue(ch)[i].st \in {"ctrl", "prog"}
         /\ Prologue(ch)[4].st = "prog" /\ Prologue(ch)[4].ch = ch
         /\ Prologue(ch)[4].a = fs.patch[ch].a
<1> DEFINE patch == fs.patch[ch]
           b2 == IF Near(fs.vol[ch], patch) THEN fs.vol[ch].b ELSE DefaultVol
           b3 == IF Near(fs.pan[ch], patch) THEN fs.pan[ch].b ELSE DefaultPan
           e1 == Event(0, 0, "ctrl", ch, BankCtrl, 0, -1)
           e2 == Event(0, 0, "ctrl", ch, VolCtrl, b2, -1)
           e3 == Event(0, 0, "ctrl", ch, PanCtrl, b3, -1)
           e4 == Event(0, 0, "prog", ch, patch.a, 0, -1)
<1>1. /\ Prologue(ch) \in Seq(Events) /\ Len(Prologue(ch)) = 4
      /\ \A i \in 1..4 : Prologue(ch)[i].time = 0 /\ Prologue(ch)[i].id = 0
  BY PrologueType
<1>2. Prologue(ch) = <<e1, e2, e3, e4>>
  BY DEF Prologue
<1>3. e1.st = "ctrl" /\ e2.st = "ctrl" /\ e3.st = "ctrl" /\ e4.st = "prog" /\ e4.ch = ch /\ e4.a = fs.patch[ch].a
  BY DEF Event
<1> HIDE DEF e1, e2, e3, e4
<1> QED BY <1>1, <1>2, <1>3

(* Events that are put in front. *)
LEMMA PrependHistory ==
  ASSUME HInv, IInv', phase = "applying", phase' \in {"applying", "converted"},
         UNCHANGED <<fs, mask, out>>, NEW p \in Seq(Events), Prepend(p),
         \A x \in Members(p) : x.id = 0 /\ x.st # "noteOn" /\ ~IsEnd(x),
         \A ch \in Channels : ch < chan' => ch < chan \/ ~(fs.patch[ch] # None /\ ch \in mask) \/
           \E x \in Members(p) : /\ x.st = "prog" /\ x.ch = ch /\ x.a = fs.patch[ch].a
                                 /\ x.time = 0 /\ x.id = 0,
         phase' = "converted" => chan' \notin Channels
  PROVE  HInv'
<1>1. Members(list') = Members(list) \cup Members(p)
  <2>1. list \in Seq(Events)
    BY DEF HInv, IInv, TypeOK
  <2>2. Members(p \o list) = Members(p) \cup Members(list)
    BY <2>1, ConcatMembers
  <2>3. list' = p \o list
    BY DEF Prepend
  <2> QED BY <2>2, <2>3
<1>2. /\ Paired(Members(list)) /\ EndIsLast(Members(list)) /\ FirstPrograms(Members(list))
      /\ EndsOfNotes(Members(list)) /\ Prologued(Members(list)) /\ out = [body |-> <<>>, end |-> 0]
  BY DEF HInv
<1> DEFINE E == Members(list)
           P == Members(p)
<1> HIDE DEF E, P
<1>3. Members(list)' = E \cup P /\ \A x \in P : x.id = 0 /\ x.st # "noteOn" /\ ~IsNote(x) /\ ~IsEnd(x)
  BY <1>1 DEF E, P, IsNote
<1>4. EndsOfNotes(E) /\ Paired(E) /\ EndIsLast(E) /\ FirstPrograms(E) /\ Prologued(E)
  BY <1>2 DEF E
<1>5. Paired(Members(list))'
  BY <1>3, <1>4 DEF Paired
<1>6. EndIsLast(Members(list))'
  <2>1. \A x \in E : IsEnd(x) => x.id \in Nat
    <3>1. list \in Seq(Events)
      BY DEF HInv, IInv, TypeOK
    <3> QED BY <3>1, TimesAndIds DEF E, Members
  <2> QED BY <1>3, <1>4, <2>1 DEF EndIsLast
<1>7. FirstPrograms(Members(list))'
  BY <1>3, <1>4 DEF FirstPrograms, IsProg
<1>8. Prologued(Members(list))'
  <2> SUFFICES ASSUME NEW ch \in Channels, ch < chan', fs.patch[ch] # None, ch \in mask
               PROVE  \E x \in E \cup P : /\ x.st = "prog" /\ x.ch = ch /\ x.a = fs.patch[ch].a
                                          /\ x.time = 0 /\ x.id = 0
    BY <1>3 DEF Prologued
  <2>1. CASE ch < chan
    BY <1>4, <2>1 DEF Prologued
  <2>2. CASE ~(ch < chan)
    BY <2>2 DEF P
  <2> QED BY <2>1, <2>2
<1>9. EndsOfNotes(Members(list))'
  BY <1>3, <1>4 DEF EndsOfNotes
<1> QED BY <1>2, <1>5, <1>6, <1>7, <1>8, <1>9 DEF HInv

LEMMA InitHistory == Init => HInv
<1> SUFFICES ASSUME Init PROVE HInv
  OBVIOUS
<1>1. Members(list) = {}
  BY DEF Init, Members
<1>2. \A ch \in Channels : fs.patch[ch] = None /\ ~(ch < chan)
  BY XmidiAssumption DEF Init, Channels
<1>3. Paired({}) /\ EndsOfNotes({}) /\ EndIsLast({}) /\ FirstPrograms({}) /\ Prologued({})
  BY <1>2 DEF Paired, EndsOfNotes, EndIsLast, FirstPrograms, Prologued
<1> QED BY <1>1, <1>3, InitIInv DEF Init, HInv

(* A step that leaves the list, the first states and the notes alone. *)
LEMMA SameListHistory ==
  ASSUME HInv, IInv', list' = list, fs' = fs, mask' = mask, chan' \in Nat,
         \/ phase' = phase
         \/ phase = "reading" /\ phase' \in {"threw", "applying"}
         \/ phase = "converted" /\ phase' = "written",
         phase' = "reading" => phase = "reading" /\ now' \in Nat /\ now \in Nat /\ now =< now',
         phase' \in {"reading", "threw"} => chan' = 0,
         phase' \in {"converted", "written"} => chan' \notin Channels,
         chan' = chan \/ (chan' = chan + 1 /\ ~(fs.patch[chan] # None /\ chan \in mask)),
         chan \in Nat,
         out' = IF phase' = "written" THEN Written(list) ELSE [body |-> <<>>, end |-> 0]
  PROVE  HInv'
<1>1. Members(list)' = Members(list) /\ Members(list') = Members(list)
  BY DEF Members
<1>2. /\ Paired(Members(list)) /\ EndIsLast(Members(list)) /\ FirstPrograms(Members(list))
      /\ EndsOfNotes(Members(list)) /\ Prologued(Members(list)) /\ fs \in FsType
  BY DEF HInv, IInv, TypeOK, FsType
<1> DEFINE E == Members(list)
<1> HIDE DEF E
<1>3. Members(list)' = E
  BY <1>1 DEF E
<1>4. Paired(Members(list))'
  BY <1>2, <1>3 DEF Paired, E
<1>5. EndIsLast(Members(list))'
  BY <1>2, <1>3 DEF EndIsLast, E
<1>6. FirstPrograms(Members(list))'
  <2>1. \A ch \in Channels : fs.patch[ch] # None => fs.patch[ch].time \in Nat
    BY <1>2 DEF FsType, Events
  <2> QED BY <1>2, <1>3, <2>1 DEF FirstPrograms, E
<1>7. Prologued(Members(list))'
  <2>1. \A ch \in Channels : ch < chan' => ch < chan \/ ~(fs.patch[ch] # None /\ ch \in mask)
    BY XmidiAssumption DEF Channels
  <2> QED BY <1>2, <1>3, <2>1 DEF Prologued, E
<1>8. EndsOfNotes(Members(list))'
  BY <1>2, <1>3 DEF E
<1> QED BY <1>4, <1>5, <1>6, <1>7, <1>8 DEF HInv

LEMMA StepHistory == HInv /\ [Next]_vars => HInv'
<1> SUFFICES ASSUME HInv, [Next]_vars PROVE HInv'
  OBVIOUS
<1>0. /\ IInv' /\ \A d \in Delays : now + d \in Nat /\ NewId(list) \in Nat /\ fs \in FsType
      /\ now \in Nat /\ chan \in Nat /\ phase \in {"reading", "threw", "applying", "converted", "written"}
      /\ fs \in FsType
  BY StepIInv, ItemTypes DEF HInv, IInv, TypeOK, FsType
<1>1. CASE UNCHANGED vars
  <2>1. /\ list' = list /\ fs' = fs /\ mask' = mask /\ chan' = chan /\ phase' = phase /\ now' = now
        /\ out' = out
    BY <1>1 DEF vars
  <2>2. /\ phase \in {"reading", "threw"} => chan = 0
        /\ phase \in {"converted", "written"} => chan \notin Channels
        /\ out = IF phase = "written" THEN Written(list) ELSE [body |-> <<>>, end |-> 0]
    BY DEF HInv
  <2> QED BY <1>0, <2>1, <2>2, SameListHistory
<1>2. ASSUME NEW d \in Delays, ReadTempo(d) PROVE HInv'
  <2>1. /\ list' = list /\ fs' = fs /\ mask' = mask /\ chan' = chan /\ phase' = phase /\ now' = now + d
        /\ out' = out /\ phase = "reading" /\ d \in Nat
    BY <1>2, XmidiAssumption DEF ReadTempo, Item
  <2>2. chan = 0 /\ out = [body |-> <<>>, end |-> 0]
    BY <2>1 DEF HInv
  <2>3. now' \in Nat /\ now =< now'
    BY <1>0, <2>1
  <2> QED BY <1>0, <2>1, <2>2, <2>3, SameListHistory
<1>3. ASSUME NEW d \in Delays, ReadEndOfTrack(d) PROVE HInv'
  BY <1>0, <1>3, EndHistory
<1>4. ASSUME NEW d \in Delays, NEW st \in {"sysex", "meta"}, ReadSystem(d, st, 1) PROVE HInv'
  <2> DEFINE e == Event(now + d, NewId(list), st, 0, 1, 0, -1)
  <2>1. /\ e \in Events /\ e.time = now + d /\ e.id = NewId(list)
        /\ e.st # "noteOn" /\ e.st # "prog" /\ e.a = 1
    BY <1>0, SMT DEF Event, Events, Statuses
  <2>2. Item(d) /\ Insert(d, e) /\ fs' = fs /\ phase' = phase /\ mask' = mask
    BY <1>4 DEF ReadSystem
  <2> HIDE DEF e
  <2>3. ~IsNote(e) /\ ~IsEnd(e)
    BY <2>1 DEF IsNote, IsEnd, EndOfTrack
  <2> QED BY <1>0, <2>1, <2>2, <2>3, PlainKeeps
<1>5. ASSUME NEW d \in Delays, NEW ch \in Channels, NEW key \in Keys, NEW v \in Values,
             ReadNoteOnBad(d, ch, key, v)
      PROVE  HInv'
  BY <1>0, <1>5, BadNoteKeeps
<1>6. ASSUME NEW d \in Delays, NEW ch \in Channels, NEW key \in Keys, NEW v \in Values,
             NEW dur \in Durations, ReadNoteOn(d, ch, key, v, dur)
      PROVE  HInv'
  BY <1>0, <1>6, NoteHistory
<1>7. ASSUME NEW d \in Delays, NEW ch \in Channels, NEW key \in Keys, NEW v \in Values,
             NEW st \in {"noteOff", "other"}, ReadVoice(d, st, ch, key, v)
      PROVE  HInv'
  <2> DEFINE e == Event(now + d, NewId(list), st, ch, key, v, -1)
  <2>1. /\ e \in Events /\ e.time = now + d /\ e.id = NewId(list)
        /\ e.st # "noteOn" /\ e.st # "prog" /\ e.st # "meta"
    BY <1>0, XmidiAssumption, SMT DEF Event, Events, Statuses, VoiceStatus, Channels
  <2>2. Item(d) /\ Insert(d, e) /\ fs' = fs /\ phase' = phase /\ mask' = mask
    BY <1>7 DEF ReadVoice
  <2> HIDE DEF e
  <2>3. ~IsNote(e) /\ ~IsEnd(e)
    BY <2>1 DEF IsNote, IsEnd
  <2> QED BY <1>0, <2>1, <2>2, <2>3, PlainKeeps
<1>8. ASSUME NEW d \in Delays, NEW ch \in Channels, NEW v \in Values, ReadProgChange(d, ch, v)
      PROVE  HInv'
  <2> DEFINE e == Event(now + d, NewId(list), "prog", ch, v, 0, -1)
  <2>1. /\ e \in Events /\ e.time = now + d /\ e.id = NewId(list) /\ e.st = "prog" /\ e.ch = ch
    BY <1>0, XmidiAssumption, SMT DEF Event, Events, Statuses, VoiceStatus, Channels
  <2>2. CASE ch = Drums
    <3>1. ReadTempo(d)
      BY <1>8, <2>2 DEF ReadProgChange, ReadTempo
    <3> QED BY <3>1, <1>2
  <2>3. CASE ch # Drums
    <3>1. Item(d) /\ Insert(d, e) /\ fs' = FirstState("patch", ch, e) /\ phase' = phase /\ mask' = mask
      BY <1>8, <2>3 DEF ReadProgChange
    <3> HIDE DEF e
    <3> QED BY <1>0, <2>1, <3>1, ProgKeeps
  <2> QED BY <2>2, <2>3
<1>9. ASSUME NEW d \in Delays, NEW ch \in Channels, NEW v \in Values,
             NEW a \in {BankCtrl, VolCtrl, PanCtrl}, ReadController(d, ch, a, v)
      PROVE  HInv'
  <2> DEFINE e == Event(now + d, NewId(list), "ctrl", ch, a, v, -1)
  <2>1. /\ e \in Events /\ e.time = now + d /\ e.id = NewId(list) /\ e.st = "ctrl"
    BY <1>0, XmidiAssumption, SMT
       DEF Event, Events, Statuses, VoiceStatus, Channels, BankCtrl, VolCtrl, PanCtrl
  <2>2. /\ Item(d) /\ Insert(d, e) /\ phase' = phase /\ mask' = mask
        /\ fs' = IF a = VolCtrl THEN FirstState("vol", ch, e)
                 ELSE IF a = PanCtrl THEN FirstState("pan", ch, e) ELSE fs
    BY <1>9 DEF ReadController
  <2> HIDE DEF e
  <2>3. \A f \in {"vol", "pan"} : FirstState(f, ch, e).patch = fs.patch
    BY <1>0 DEF FirstState, FsType
  <2>4. fs'.patch = fs.patch
    BY <2>2, <2>3
  <2>5. e.st # "noteOn" /\ ~IsEnd(e) /\ e.st # "prog"
    BY <2>1 DEF IsNote, IsEnd
  <2> QED BY <1>0, <2>1, <2>2, <2>4, <2>5, PlainKeeps
<1>10. CASE ReadDelayBad
  <2>1. /\ list' = list /\ fs' = fs /\ mask' = mask /\ chan' = chan /\ phase' = "threw"
        /\ out' = out /\ phase = "reading"
    BY <1>10 DEF ReadDelayBad
  <2>2. chan = 0 /\ out = [body |-> <<>>, end |-> 0]
    BY <2>1 DEF HInv
  <2> QED BY <1>0, <2>1, <2>2, SameListHistory
<1>11. CASE DataEnds
  <2>1. /\ list' = list /\ fs' = fs /\ mask' = mask /\ chan' = chan /\ phase' = "applying"
        /\ out' = out /\ phase = "reading"
    BY <1>11 DEF DataEnds
  <2>2. chan = 0 /\ out = [body |-> <<>>, end |-> 0]
    BY <2>1 DEF HInv
  <2> QED BY <1>0, <2>1, <2>2, SameListHistory
<1>12. CASE ApplyChannel
  <2>1. /\ phase = "applying" /\ phase' = phase /\ chan' = chan + 1 /\ chan \in Channels
        /\ UNCHANGED <<fs, mask, out>>
    BY <1>12 DEF ApplyChannel
  <2>2. CASE fs.patch[chan] # None /\ chan \in mask
    <3> DEFINE p == Prologue(chan)
    <3>1. Prepend(p)
      BY <1>12, <2>2 DEF ApplyChannel
    <3>2. /\ p \in Seq(Events) /\ Len(p) = 4
          /\ \A i \in 1..4 : p[i].time = 0 /\ p[i].id = 0 /\ p[i].st \in {"ctrl", "prog"}
          /\ p[4].st = "prog" /\ p[4].ch = chan /\ p[4].a = fs.patch[chan].a
      BY <1>0, <2>1, <2>2, PrologueEvents
    <3> HIDE DEF p
    <3>3. \A x \in Members(p) : x.id = 0 /\ x.st # "noteOn" /\ ~IsEnd(x)
      BY <3>2 DEF Members, IsEnd
    <3>4. p[4] \in Members(p) /\ p[4].time = 0 /\ p[4].id = 0
      BY <3>2 DEF Members
    <3>5. \A ch \in Channels : ch < chan' => ch < chan \/ ch = chan
      BY <1>0, <2>1, XmidiAssumption DEF Channels
    <3> QED BY <1>0, <2>1, <3>1, <3>2, <3>3, <3>4, <3>5, PrependHistory
  <2>3. CASE ~(fs.patch[chan] # None /\ chan \in mask)
    <3>1. list' = list /\ chan' \in Nat
      BY <1>0, <1>12, <2>1, <2>3 DEF ApplyChannel
    <3>2. out = [body |-> <<>>, end |-> 0]
      BY <2>1 DEF HInv
    <3> QED BY <1>0, <2>1, <2>3, <3>1, <3>2, SameListHistory
  <2> QED BY <2>2, <2>3
<1>13. CASE ApplyTempo
  <2> DEFINE e == Event(0, 0, "meta", 0, SetTempo, 0, -1)
             p == <<e>>
  <2>1. e \in Events /\ e.id = 0 /\ e.st = "meta" /\ e.a = SetTempo
    BY SMT DEF Event, Events, Statuses, SetTempo
  <2>2. /\ Prepend(p) /\ UNCHANGED <<fs, mask, out>> /\ phase' = "converted" /\ phase = "applying"
        /\ chan' = chan /\ chan \notin Channels
    BY <1>13 DEF ApplyTempo
  <2> HIDE DEF e
  <2>3. e.st # "noteOn" /\ ~IsEnd(e)
    BY <2>1 DEF IsEnd, SetTempo, EndOfTrack
  <2>4. p \in Seq(Events) /\ \A x \in Members(p) : x.id = 0 /\ x.st # "noteOn" /\ ~IsEnd(x)
    BY <2>1, <2>3 DEF Members
  <2> HIDE DEF p
  <2> QED BY <1>0, <2>2, <2>4, PrependHistory
<1>14. CASE CreateMidiTrack
  <2>1. /\ list' = list /\ fs' = fs /\ mask' = mask /\ chan' = chan /\ phase' = "written"
        /\ out' = Written(list) /\ phase = "converted"
    BY <1>14 DEF CreateMidiTrack
  <2>2. chan \notin Channels
    BY <2>1 DEF HInv
  <2> QED BY <1>0, <2>1, <2>2, SameListHistory
<1> QED
  BY <1>1, <1>2, <1>3, <1>4, <1>5, <1>6, <1>7, <1>8, <1>9, <1>10, <1>11, <1>12, <1>13, <1>14
     DEF Next

-------------------------------------------------------------------------------
(* What is written. *)

Agree(f, g, n) == \A k \in 0..n : f[k] = g[k]

Follows(f, g, n) == \A k \in 0..n : (\A j \in 0..(k - 1) : f[j] = g[j]) => f[k] = g[k]

(* Values that are determined by those before them. *)
LEMMA SameValues ==
  ASSUME NEW n \in Nat, NEW f, NEW g, Follows(f, g, n)
  PROVE  Agree(f, g, n)
<1> DEFINE S == {k \in 0..n : f[k] # g[k]}
<1>0. \A k \in 0..n : (\A j \in 0..(k - 1) : f[j] = g[j]) => f[k] = g[k]
  BY DEF Follows
<1> SUFFICES ASSUME S # {} PROVE FALSE
  BY DEF Agree
<1>1. S \subseteq Nat
  OBVIOUS
<1>2. PICK m : m = Min(S)
  OBVIOUS
<1>3. m \in S /\ \A k \in S : m =< k
  BY <1>1, <1>2, MinOfNats
<1>4. \A j \in 0..(m - 1) : f[j] = g[j]
  <2> SUFFICES ASSUME NEW j \in 0..(m - 1) PROVE f[j] = g[j]
    OBVIOUS
  <2>1. j \in 0..n /\ ~(m =< j)
    BY <1>3
  <2> QED BY <1>3, <2>1
<1> QED BY <1>0, <1>3, <1>4

(* The body is the list up to the first end of track. *)
LEMMA WrittenBody ==
  ASSUME NEW l \in Seq(Events)
  PROVE  \E n \in 0..Len(l) :
           /\ DOMAIN Written(l).body = 1..n /\ Len(Written(l).body) = n
           /\ \A k \in 1..n : /\ Written(l).body[k].e = l[k]
                              /\ Written(l).body[k].delta = Delta(l, k)
                              /\ Written(l).body[k].omit = OmitsStatus(l, k)
           /\ \A k \in 1..Len(l) : k \notin 1..n => \E j \in (n + 1)..k : IsEnd(l[j])
           /\ Written(l).end >= 0
<1> DEFINE ends == {k \in 1..Len(l) : IsEnd(l[k])}
           n    == IF ends = {} THEN Len(l) ELSE Min(ends) - 1
           last == IF n = 0 THEN 0 ELSE l[n].time
           at(k) == [delta |-> Delta(l, k), omit |-> OmitsStatus(l, k), e |-> l[k]]
           body == [k \in 1..n |-> at(k)]
           end  == IF ends # {} /\ l[Min(ends)].time > last THEN l[Min(ends)].time - last ELSE 0
<1>1. Written(l).body = body /\ Written(l).end = end
  BY DEF Written
<1>2. Len(l) \in Nat /\ \A k \in 1..Len(l) : l[k].time \in Nat
  BY TimesAndIds
<1>3. /\ ends \subseteq 1..Len(l) /\ ends \subseteq Nat
      /\ \A k \in 1..Len(l) : IsEnd(l[k]) <=> k \in ends
  OBVIOUS
<1> HIDE DEF ends
<1>4. PICK m : m = Min(ends)
  OBVIOUS
<1>14. ends # {} => m \in ends /\ m \in 1..Len(l) /\ \A k \in ends : m =< k
  BY <1>3, <1>4, MinOfNats
<1>15. n = IF ends = {} THEN Len(l) ELSE m - 1
  BY <1>4
<1>5. n \in 0..Len(l) /\ (ends # {} => n + 1 = m)
  <2> HIDE DEF n
  <2> QED BY <1>2, <1>14, <1>15
<1>6. \A k \in 1..Len(l) : k \notin 1..n => n + 1 =< k /\ ends # {}
  <2> HIDE DEF n
  <2> QED BY <1>2, <1>5, <1>15
<1>7. end >= 0
  <2>1. last \in Nat
    <3> HIDE DEF n
    <3> QED BY <1>2, <1>5
  <2>2. end = IF ends # {} /\ l[m].time > last THEN l[m].time - last ELSE 0
    BY <1>4
  <2>3. ends # {} => l[m].time \in Nat
    BY <1>2, <1>14
  <2> HIDE DEF last, end
  <2> QED BY <2>1, <2>2, <2>3
<1> HIDE DEF n
<1>8. body \in Seq({at(k) : k \in 1..n}) /\ Len(body) = n /\ DOMAIN body = 1..n
  <2> DEFINE S == {at(k) : k \in 1..n}
  <2>1. \A k \in 1..n : at(k) \in S
    OBVIOUS
  <2> HIDE DEF at, S
  <2>2. body \in [1..n -> S] /\ n \in Nat
    BY <1>5, <2>1
  <2> QED BY <2>2 DEF S
<1>9. \A k \in 1..n : body[k].delta = Delta(l, k) /\ body[k].omit = OmitsStatus(l, k) /\ body[k].e = l[k]
  OBVIOUS
<1>10. ASSUME NEW k \in 1..Len(l), k \notin 1..n
       PROVE  \E j \in (n + 1)..k : IsEnd(l[j])
  <2>1. n + 1 =< k /\ n + 1 \in ends
    BY <1>5, <1>6, <1>10, <1>14
  <2> QED BY <1>3, <1>5, <2>1
<1> HIDE DEF body, end
<1> QED BY <1>1, <1>5, <1>7, <1>8, <1>9, <1>10

(* The sum of the delays. *)
LEMMA ClockIs ==
  ASSUME NEW l \in Seq(Events), NEW n \in 0..Len(l), NEW body, Len(body) = n,
         \A k \in 1..n : body[k].delta = Delta(l, k)
  PROVE  \A k \in 1..n : Clock(body)[k] = l[k].time
<1> DEFINE g == [k \in 0..n |-> IF k = 0 THEN 0 ELSE l[k].time]
           Def(f) == f = [k \in 0..n |-> IF k = 0 THEN 0 ELSE f[k - 1] + body[k].delta]
<1>1. n \in Nat /\ \A k \in 1..n : l[k].time \in Nat
  BY TimesAndIds
<1>2. \A k \in 1..n : body[k].delta = l[k].time - (IF k = 1 THEN 0 ELSE l[k - 1].time)
  BY DEF Delta
<1>3. ASSUME NEW k \in 1..n PROVE g[k] = g[k - 1] + body[k].delta
  <2>1. CASE k = 1
    BY <1>1, <1>2, <2>1
  <2>2. CASE k # 1
    <3>1. k - 1 \in 1..n /\ k - 1 # 0
      BY <1>1, <2>2
    <3>2. g[k] = l[k].time /\ g[k - 1] = l[k - 1].time /\ l[k].time \in Nat /\ l[k - 1].time \in Nat
      BY <1>1, <3>1
    <3> QED BY <1>2, <2>2, <3>2
  <2> QED BY <2>1, <2>2
<1>4. Def(g)
  <2> DEFINE h(k) == IF k = 0 THEN 0 ELSE g[k - 1] + body[k].delta
  <2>1. ASSUME NEW k \in 0..n PROVE g[k] = h(k)
    <3>1. CASE k = 0
      BY <3>1
    <3>2. CASE k # 0
      <4>1. k \in 1..n
        BY <1>1, <3>2
      <4>2. g[k] = g[k - 1] + body[k].delta
        BY <1>3, <4>1
      <4> HIDE DEF g
      <4> QED BY <3>2, <4>2
    <3> QED BY <3>1, <3>2
  <2>2. g = [k \in 0..n |-> g[k]]
    OBVIOUS
  <2> HIDE DEF g, h
  <2>3. g = [k \in 0..n |-> h(k)]
    BY <2>1, <2>2
  <2> QED BY <2>3 DEF h
<1>5. Clock(body) = CHOOSE f : Def(f)
  BY Zenon DEF Clock
<1> HIDE DEF Def
<1>6. Def(Clock(body))
  BY <1>4, <1>5, Zenon
<1>7. PICK c : c = Clock(body)
  OBVIOUS
<1>8. c = [k \in 0..n |-> IF k = 0 THEN 0 ELSE c[k - 1] + body[k].delta]
  BY <1>6, <1>7, Zenon DEF Def
<1>9. \A k \in 0..n : (\A j \in 0..(k - 1) : c[j] = g[j]) => c[k] = g[k]
  <2> SUFFICES ASSUME NEW k \in 0..n, \A j \in 0..(k - 1) : c[j] = g[j] PROVE c[k] = g[k]
    OBVIOUS
  <2>1. CASE k = 0
    BY <1>8, <2>1
  <2>2. CASE k # 0
    <3>1. k \in 1..n /\ k - 1 \in 0..(k - 1)
      BY <1>1, <2>2
    <3>2. c[k] = c[k - 1] + body[k].delta
      BY <1>8, <2>2
    <3>3. g[k] = g[k - 1] + body[k].delta
      BY <1>3, <3>1
    <3>4. c[k - 1] = g[k - 1]
      BY <3>1
    <3> HIDE DEF g
    <3> QED BY <3>2, <3>3, <3>4
  <2> QED BY <2>1, <2>2
<1> HIDE DEF g
<1>10. \A k \in 0..n : c[k] = g[k]
  <2>1. Follows(c, g, n)
    BY <1>9 DEF Follows
  <2> QED BY <1>1, <2>1, SameValues DEF Agree
<1>11. \A k \in 1..n : k \in 0..n /\ g[k] = l[k].time
  BY <1>1 DEF g
<1> QED BY <1>7, <1>10, <1>11

(* The status a reader keeps. *)
LEMMA RunningIs ==
  ASSUME NEW l \in Seq(Events), NEW n \in 0..Len(l), NEW body, Len(body) = n,
         \A k \in 1..n : body[k].e = l[k] /\ body[k].omit = OmitsStatus(l, k)
  PROVE  \A k \in 1..n : body[k].omit => Running(body)[k - 1] = Status(l[k])
<1> DEFINE keeps(k) == IF l[k].st \in VoiceStatus THEN Status(l[k]) ELSE <<>>
           g == [k \in 0..n |-> IF k = 0 THEN <<>> ELSE keeps(k)]
           Def(f) == f = [k \in 0..n |->
             IF k = 0 \/ body[k].e.st \notin VoiceStatus THEN <<>>
             ELSE IF body[k].omit THEN f[k - 1] ELSE Status(body[k].e)]
<1>1. n \in Nat
  OBVIOUS
<1>2. ASSUME NEW k \in 1..n, body[k].omit
      PROVE  k - 1 \in 1..n /\ g[k - 1] = Status(l[k]) /\ l[k].st \in VoiceStatus
  <2>1. k > 1 /\ l[k].st = l[k - 1].st /\ l[k].ch = l[k - 1].ch /\ l[k].st \in VoiceStatus
    BY <1>2 DEF OmitsStatus
  <2>2. k - 1 \in 1..n /\ k - 1 # 0
    BY <1>1, <2>1
  <2> QED BY <2>1, <2>2 DEF Status
<1>3. Def(g)
  <2> DEFINE h(k) == IF k = 0 \/ body[k].e.st \notin VoiceStatus THEN <<>>
                     ELSE IF body[k].omit THEN g[k - 1] ELSE Status(body[k].e)
  <2>1. ASSUME NEW k \in 0..n PROVE g[k] = h(k)
    <3>1. CASE k = 0
      BY <3>1
    <3>2. CASE k # 0
      <4>1. k \in 1..n /\ g[k] = keeps(k) /\ body[k].e = l[k]
        BY <1>1, <3>2
      <4>2. body[k].omit => g[k - 1] = Status(l[k])
        BY <1>2, <4>1
      <4> HIDE DEF g
      <4> QED BY <3>2, <4>1, <4>2
    <3> QED BY <3>1, <3>2
  <2>2. g = [k \in 0..n |-> g[k]]
    OBVIOUS
  <2> HIDE DEF g, h
  <2>3. g = [k \in 0..n |-> h(k)]
    BY <2>1, <2>2
  <2> QED BY <2>3 DEF h
<1>4. Running(body) = CHOOSE f : Def(f)
  BY Zenon DEF Running
<1> HIDE DEF Def
<1>5. Def(Running(body))
  BY <1>3, <1>4, Zenon
<1>6. PICK c : c = Running(body)
  OBVIOUS
<1>7. c = [k \in 0..n |->
             IF k = 0 \/ body[k].e.st \notin VoiceStatus THEN <<>>
             ELSE IF body[k].omit THEN c[k - 1] ELSE Status(body[k].e)]
  BY <1>5, <1>6, Zenon DEF Def
<1>8. \A k \in 0..n : (\A j \in 0..(k - 1) : c[j] = g[j]) => c[k] = g[k]
  <2> SUFFICES ASSUME NEW k \in 0..n, \A j \in 0..(k - 1) : c[j] = g[j] PROVE c[k] = g[k]
    OBVIOUS
  <2>1. CASE k = 0
    BY <1>7, <2>1
  <2>2. CASE k # 0
    <3>1. k \in 1..n /\ k - 1 \in 0..(k - 1)
      BY <1>1, <2>2
    <3>2. c[k] = IF body[k].e.st \notin VoiceStatus THEN <<>>
                 ELSE IF body[k].omit THEN c[k - 1] ELSE Status(body[k].e)
      BY <1>7, <2>2
    <3>3. g[k] = keeps(k) /\ body[k].e = l[k]
      BY <2>2, <3>1
    <3>4. body[k].omit => c[k - 1] = Status(l[k])
      BY <1>2, <3>1
    <3> HIDE DEF g
    <3> QED BY <3>2, <3>3, <3>4
  <2> QED BY <2>1, <2>2
<1> HIDE DEF g
<1>9. \A k \in 0..n : c[k] = g[k]
  <2>1. Follows(c, g, n)
    BY <1>8 DEF Follows
  <2> QED BY <1>1, <2>1, SameValues DEF Agree
<1>10. ASSUME NEW k \in 1..n, body[k].omit PROVE c[k - 1] = Status(l[k])
  <2>1. k - 1 \in 0..n /\ g[k - 1] = Status(l[k])
    BY <1>1, <1>2, <1>10
  <2> QED BY <1>9, <2>1
<1> QED BY <1>6, <1>10

(* The written file of a history. *)
LEMMA BodyOf ==
  ASSUME HInv
  PROVE  /\ list \in Seq(Events) /\ Len(list) \in Nat /\ Ordered(list)
         /\ \A i \in 1..Len(list) : list[i].time \in Nat /\ list[i].id \in Nat
         /\ \E n \in 0..Len(list) :
              /\ DOMAIN out.body = 1..n /\ Len(out.body) = n
              /\ \A k \in 1..n : /\ out.body[k].e = list[k]
                                 /\ out.body[k].delta = Delta(list, k)
                                 /\ out.body[k].omit = OmitsStatus(list, k)
              /\ phase = "written" =>
                   \A k \in 1..Len(list) : k \notin 1..n => \E j \in (n + 1)..k : IsEnd(list[j])
              /\ out.end >= 0
<1>1. list \in Seq(Events) /\ Len(list) \in Nat /\ Ordered(list)
      /\ \A i \in 1..Len(list) : list[i].time \in Nat /\ list[i].id \in Nat
  BY TimesAndIds DEF HInv, IInv, TypeOK, InOrder
<1>2. CASE phase = "written"
  <2>1. out = Written(list)
    BY <1>2 DEF HInv
  <2> QED BY <1>1, <2>1, WrittenBody
<1>3. CASE phase # "written"
  <2>1. out.body = <<>> /\ out.end = 0
    BY <1>3 DEF HInv
  <2>2. DOMAIN out.body = 1..0 /\ Len(out.body) = 0 /\ 0 \in 0..Len(list) /\ out.end >= 0
    BY <1>1, <2>1
  <2> QED BY <1>1, <1>3, <2>2
<1> QED BY <1>2, <1>3

LEMMA HistoryAddsUp == HInv => DeltasAddUp
<1> SUFFICES ASSUME HInv PROVE DeltasAddUp
  OBVIOUS
<1>1. /\ list \in Seq(Events) /\ Len(list) \in Nat /\ Ordered(list)
      /\ \A i \in 1..Len(list) : list[i].time \in Nat
  BY BodyOf
<1>2. PICK n \in 0..Len(list) :
        /\ DOMAIN out.body = 1..n /\ Len(out.body) = n /\ out.end >= 0
        /\ \A k \in 1..n : out.body[k].e = list[k] /\ out.body[k].delta = Delta(list, k)
  BY BodyOf
<1>3. ASSUME NEW k \in 1..n PROVE Delta(list, k) >= 0
  <2>1. CASE k = 1
    BY <1>1, <1>2, <2>1 DEF Delta
  <2>2. CASE k # 1
    <3>1. k \in 1..Len(list) /\ k - 1 \in 1..(k - 1) /\ k - 1 \in 1..Len(list)
      BY <1>1, <2>2
    <3>2. Before(list[k - 1], list[k])
      BY <1>1, <3>1 DEF Ordered
    <3> QED BY <1>1, <2>2, <3>1, <3>2 DEF Before, Delta
  <2> QED BY <2>1, <2>2
<1> DEFINE body == out.body
<1>4. Len(body) = n /\ \A k \in 1..n : body[k].delta = Delta(list, k)
  BY <1>2
<1> HIDE DEF body
<1>5. \A k \in 1..n : Clock(body)[k] = list[k].time
  BY <1>1, <1>4, ClockIs
<1> QED BY <1>2, <1>3, <1>5 DEF DeltasAddUp, body

LEMMA HistoryDecodes == HInv => RunningStatusDecodes
<1> SUFFICES ASSUME HInv PROVE RunningStatusDecodes
  OBVIOUS
<1>1. list \in Seq(Events)
  BY BodyOf
<1>2. PICK n \in 0..Len(list) :
        /\ DOMAIN out.body = 1..n /\ Len(out.body) = n
        /\ \A k \in 1..n : out.body[k].e = list[k] /\ out.body[k].omit = OmitsStatus(list, k)
  BY BodyOf
<1> DEFINE body == out.body
<1>3. Len(body) = n /\ \A k \in 1..n : body[k].e = list[k] /\ body[k].omit = OmitsStatus(list, k)
  BY <1>2
<1> HIDE DEF body
<1>4. \A k \in 1..n : body[k].omit => Running(body)[k - 1] = Status(list[k])
  BY <1>1, <1>3, RunningIs
<1> QED BY <1>2, <1>4 DEF RunningStatusDecodes, body

(* Where the end of a note that ends within its track is written. *)
LEMMA EndWritten ==
  ASSUME HInv, phase = "written", NEW k \in DOMAIN out.body, IsNote(out.body[k].e),
         \A i \in DOMAIN list : IsEnd(list[i]) =>
           out.body[k].e.time + out.body[k].e.dur =< list[i].time
  PROVE  \E m \in DOMAIN out.body : /\ m > k /\ Ends(out.body[m].e, out.body[k].e)
                                    /\ out.body[m].e.id = out.body[k].e.id + 1
<1>1. /\ Len(list) \in Nat /\ Ordered(list) /\ list \in Seq(Events)
      /\ \A i \in 1..Len(list) : list[i].time \in Nat /\ list[i].id \in Nat
  BY BodyOf
<1>2. PICK n \in 0..Len(list) :
        /\ DOMAIN out.body = 1..n /\ \A i \in 1..n : out.body[i].e = list[i]
        /\ \A i \in 1..Len(list) : i \notin 1..n => \E j \in (n + 1)..i : IsEnd(list[j])
  BY BodyOf
<1>3. PICK e : e = list[k]
  OBVIOUS
<1>4. k \in 1..n /\ k \in 1..Len(list) /\ out.body[k].e = e /\ IsNote(e)
  BY <1>1, <1>2, <1>3
<1>5. e \in Members(list)
  BY <1>3, <1>4 DEF Members
<1>6. PICK x \in Members(list) : Ends(x, e) /\ x.id = e.id + 1
  BY <1>4, <1>5 DEF HInv, Paired
<1>7. PICK m \in 1..Len(list) : list[m] = x
  BY <1>6 DEF Members
<1>8. x.time = e.time + e.dur /\ e.dur \in Int /\ e.dur >= 0 /\ e.time \in Nat /\ x.st = "noteOn"
      /\ x.time \in Nat /\ x.id \in Nat /\ e.id \in Nat
  <2>1. e \in Events
    BY <1>1, <1>3, <1>4, ElementOfSeq
  <2> QED BY <1>1, <1>3, <1>4, <1>6, <1>7, <2>1 DEF Ends, IsNote, Events
<1>9. m > k
  <2>1. m # k
    BY <1>3, <1>6, <1>7, <1>8
  <2>0. m \in Int /\ k \in Int
    BY <1>1, <1>4
  <2> SUFFICES ASSUME m < k PROVE FALSE
    BY <2>0, <2>1
  <2>2. m \in 1..(k - 1)
    BY <1>4
  <2>3. Before(x, e)
    BY <1>1, <1>3, <1>4, <1>7, <2>2 DEF Ordered
  <2>4. e.id > 0
    BY <1>4, <1>5 DEF HInv, Paired
  <2> QED BY <1>6, <1>8, <2>3, <2>4 DEF Before
<1>10. m \in 1..n
  <2> SUFFICES ASSUME m \notin 1..n PROVE FALSE
    OBVIOUS
  <2>1. PICK j \in (n + 1)..m : IsEnd(list[j])
    BY <1>2, <1>7
  <2>2. j \in 1..Len(list) /\ j =< m
    BY <1>1, <1>2, <1>7
  <2>3. list[j] \in Members(list)
    BY <2>2 DEF Members
  <2>4. list[j].id > 0 /\ x.id =< list[j].id
    BY <1>6, <2>1, <2>3 DEF HInv, EndIsLast
  <2>5. x.time =< list[j].time
    <3>1. j \in DOMAIN list
      BY <1>1, <2>2
    <3> QED BY <1>4, <1>8, <2>1, <3>1
  <2>6. j # m
    BY <1>7, <1>8, <2>1 DEF IsEnd
  <2>7. j \in 1..(m - 1)
    BY <2>2, <2>6
  <2>8. Before(list[j], x)
    BY <1>1, <1>7, <2>7 DEF Ordered
  <2>9. list[j].time \in Nat /\ list[j].id \in Nat
    BY <1>1, <2>2
  <2> QED BY <1>8, <2>4, <2>5, <2>8, <2>9 DEF Before
<1>11. out.body[m].e = x
  BY <1>2, <1>7, <1>10
<1> QED BY <1>2, <1>4, <1>6, <1>9, <1>10, <1>11

LEMMA HistoryEndsNotes == HInv => NotesEnd
  BY EndWritten DEF NotesEnd, HasEnd

(* Between an undisturbed note and its end the list has no event of its    *)
(* key: what is read earlier has ended, what is read later begins behind.  *)
LEMMA NothingBetween ==
  ASSUME HInv, phase = "written", NEW k \in 1..Len(list), NEW m \in 1..Len(list), NEW j \in (k + 1)..(m - 1),
         NEW n, n = list[k], NEW e, e = list[m], NEW y, y = list[j],
         IsNote(n), Undisturbed(n), Ends(e, n), e.id = n.id + 1
  PROVE  ~OfKey(y, n)
<1> SUFFICES ASSUME OfKey(y, n) PROVE FALSE
  OBVIOUS
<1>1. /\ Len(list) \in Nat /\ Ordered(list) /\ list \in Seq(Events)
      /\ \A i \in 1..Len(list) : list[i].time \in Nat /\ list[i].id \in Nat
  BY BodyOf
<1>2. j \in 1..Len(list) /\ k \in 1..(j - 1) /\ j \in 1..(m - 1) /\ j \in DOMAIN list
  BY <1>1
<1>3. Before(n, y) /\ Before(y, e)
  BY <1>1, <1>2 DEF Ordered
<1>4. n.id > 0 /\ n \in Members(list) /\ y \in Members(list)
  <2>1. n \in Members(list) /\ y \in Members(list)
    BY <1>2 DEF Members
  <2> QED BY <2>1 DEF HInv, Paired
<1>5. /\ n.time \in Nat /\ n.id \in Nat /\ y.time \in Nat /\ y.id \in Nat /\ n.dur \in Int /\ n.dur >= 0
      /\ e.time = n.time + n.dur /\ e.time \in Nat
  <2>1. n \in Events
    BY <1>1, ElementOfSeq
  <2> QED BY <1>1, <1>2, <2>1 DEF Ends, IsNote, Events
<1>6. /\ n.time =< y.time /\ y.time =< e.time
      /\ (y.time = n.time => n.id < y.id)
      /\ (y.time = e.time => y.id =< n.id)
  <2>1. n.time < y.time \/ (n.time = y.time /\ n.id < y.id)
    BY <1>3, <1>4, <1>5 DEF Before
  <2>2. y.time < e.time \/ (y.time = e.time /\ (y.id = 0 \/ y.id < e.id))
    BY <1>3 DEF Before
  <2>3. e.id = n.id + 1
    OBVIOUS
  <2>4. y.time = e.time => y.id =< n.id
    BY <2>2, <2>3, <1>5
  <2>5. n.time =< y.time /\ y.time =< e.time /\ (y.time = n.time => n.id < y.id)
    BY <2>1, <2>2, <1>5
  <2> QED BY <2>4, <2>5
<1>7. ASSUME NEW x \in Members(list), OfKey(x, n), x # n, IsNote(x)
      PROVE  \/ x.id < n.id /\ x.time + x.dur =< n.time
             \/ n.id < x.id /\ e.time =< x.time
  <2>1. PICK i \in 1..Len(list) : x = list[i]
    BY DEF Members
  <2>2. i \in DOMAIN list
    BY <1>1
  <2> QED BY <1>5, <1>7, <2>1, <2>2 DEF Undisturbed
<1>8. CASE y.st = "noteOff"
  <2>1. y.time < n.time \/ n.time + n.dur < y.time
    BY <1>2, <1>8 DEF Undisturbed
  <2> QED BY <1>5, <1>6, <2>1
<1>9. CASE IsNote(y)
  <2>1. y # n
    BY <1>5, <1>6
  <2>2. y.dur \in Int /\ y.dur >= 0
    <3>1. y \in Events
      BY <1>1, <1>2, ElementOfSeq
    <3> QED BY <1>9, <3>1 DEF IsNote, Events
  <2>3. (y.id < n.id /\ y.time + y.dur =< n.time) \/ (n.id < y.id /\ e.time =< y.time)
    BY <1>4, <1>7, <1>9, <2>1
  <2> QED BY <1>5, <1>6, <2>2, <2>3
<1>10. CASE y.st = "noteOn" /\ ~IsNote(y)
  <2>1. PICK x \in Members(list) : IsNote(x) /\ Ends(y, x) /\ y.id = x.id + 1
    BY <1>4, <1>10 DEF HInv, EndsOfNotes
  <2>2. OfKey(x, n) /\ y.time = x.time + x.dur
    BY <2>1 DEF OfKey, Ends, IsNote
  <2>3. x.time \in Nat /\ x.id \in Nat /\ x.dur \in Int /\ x.dur >= 0
    <3>1. PICK i \in 1..Len(list) : x = list[i]
      BY DEF Members
    <3>2. x \in Events
      BY <1>1, <3>1, ElementOfSeq
    <3> QED BY <2>1, <3>2 DEF IsNote, Events
  <2>4. CASE x = n
    BY <1>5, <1>6, <2>1, <2>2, <2>4
  <2>5. CASE x # n
    <3>1. (x.id < n.id /\ x.time + x.dur =< n.time) \/ (n.id < x.id /\ e.time =< x.time)
      BY <1>7, <2>1, <2>2, <2>5
    <3>2. y.id = x.id + 1 /\ y.time = x.time + x.dur /\ x.time =< y.time
      BY <2>1, <2>2, <2>3
    <3>3. ~(x.id < n.id /\ x.time + x.dur =< n.time)
      BY <1>5, <1>6, <2>3, <3>2
    <3>4. ~(n.id < x.id /\ e.time =< x.time)
      BY <1>5, <1>6, <2>3, <3>2
    <3> QED BY <3>1, <3>3, <3>4
  <2> QED BY <2>4, <2>5
<1> QED BY <1>8, <1>9, <1>10 DEF OfKey

LEMMA HistoryHolds == HInv => NotesHeld
<1> SUFFICES ASSUME HInv, phase = "written", NEW k \in DOMAIN out.body,
                    IsNote(out.body[k].e), Undisturbed(out.body[k].e),
                    \A i \in DOMAIN list : IsEnd(list[i]) =>
                      out.body[k].e.time + out.body[k].e.dur =< list[i].time
             PROVE  Sounds(k)
  BY DEF NotesHeld
<1>1. PICK l \in 0..Len(list) : DOMAIN out.body = 1..l /\ \A i \in 1..l : out.body[i].e = list[i]
  BY BodyOf
<1>2. PICK m \in DOMAIN out.body : /\ m > k /\ Ends(out.body[m].e, out.body[k].e)
                                   /\ out.body[m].e.id = out.body[k].e.id + 1
  BY EndWritten
<1>3. /\ Len(list) \in Nat /\ list \in Seq(Events) /\ k \in 1..Len(list) /\ m \in 1..Len(list)
      /\ out.body[k].e = list[k] /\ out.body[m].e = list[m]
  <2>1. Len(list) \in Nat /\ list \in Seq(Events)
    BY BodyOf
  <2> QED BY <1>1, <1>2, <2>1
<1>4. ASSUME NEW j \in (k + 1)..(m - 1) PROVE ~OfKey(out.body[j].e, out.body[k].e)
  <2>1. j \in 1..l
    BY <1>1, <1>2, <1>3
  <2>2. ~OfKey(list[j], list[k])
    BY <1>2, <1>3, NothingBetween
  <2> QED BY <1>1, <1>3, <2>1, <2>2
<1>5. Clock(out.body)[m] - Clock(out.body)[k] = out.body[k].e.dur
  <2>1. Clock(out.body)[m] = list[m].time /\ Clock(out.body)[k] = list[k].time
    BY <1>2, <1>3, HistoryAddsUp DEF DeltasAddUp
  <2>2. list[m].time = list[k].time + list[k].dur
    BY <1>2, <1>3 DEF Ends
  <2>3. list[k].time \in Nat /\ list[k].dur \in Int
    <3>1. list[k] \in Events
      BY <1>3, ElementOfSeq
    <3> QED BY <3>1 DEF Events
  <2> QED BY <1>3, <2>1, <2>2, <2>3
<1> QED BY <1>2, <1>4, <1>5 DEF Sounds

LEMMA HistoryPrograms == HInv => ProgramBeforeNotes
<1> SUFFICES ASSUME HInv, phase = "written", NEW k \in DOMAIN list, NEW m \in DOMAIN list,
                    list[m].st = "prog", list[m].id # 0,
                    \A i \in DOMAIN list :
                      list[i].st = "prog" /\ list[i].ch = list[m].ch /\ list[i].id # 0
                      => list[m].id =< list[i].id,
                    IsNote(list[k]), list[k].ch = list[m].ch
             PROVE  \E i \in 1..(k - 1) :
                      /\ list[i].st = "prog" /\ list[i].ch = list[m].ch
                      /\ list[i].a = list[m].a /\ list[i].time = 0
  BY DEF ProgramBeforeNotes
<1>1. /\ Len(list) \in Nat /\ Ordered(list) /\ list \in Seq(Events) /\ DOMAIN list = 1..Len(list)
      /\ \A i \in 1..Len(list) : list[i].time \in Nat /\ list[i].id \in Nat
  BY BodyOf
<1>2. /\ Paired(Members(list)) /\ FirstPrograms(Members(list)) /\ Prologued(Members(list))
      /\ chan \notin Channels /\ chan \in Nat
  BY DEF HInv, IInv, TypeOK
<1>3. PICK x, e, c : x = list[m] /\ e = list[k] /\ c = x.ch
  OBVIOUS
<1>4. x \in Members(list) /\ e \in Members(list)
  BY <1>1, <1>3 DEF Members
<1>5. PICK p : p = fs.patch[c]
  OBVIOUS
<1>6. /\ c \in Channels /\ p # None /\ (x = p \/ p.id < x.id)
  BY <1>2, <1>3, <1>4, <1>5 DEF FirstPrograms, IsProg
<1>7. p \in Members(list) /\ p.st = "prog" /\ p.ch = c /\ p.id # 0
  BY <1>2, <1>5, <1>6 DEF FirstPrograms
<1>8. PICK j \in 1..Len(list) : list[j] = p
  BY <1>7 DEF Members
<1>9. x = p
  <2>1. x.id =< p.id /\ p.id \in Nat /\ x.id \in Nat
    BY <1>1, <1>3, <1>7, <1>8
  <2> QED BY <1>6, <2>1
<1>10. c \in mask /\ c < chan /\ e.id > 0
  <2>1. e.ch \in mask /\ e.id > 0
    BY <1>2, <1>3, <1>4 DEF Paired
  <2>2. c < chan
    BY <1>2, <1>6, XmidiAssumption DEF Channels
  <2> QED BY <1>3, <2>1, <2>2
<1>11. PICK y \in Members(list) : y.st = "prog" /\ y.ch = c /\ y.a = p.a /\ y.time = 0 /\ y.id = 0
  BY <1>2, <1>5, <1>6, <1>10 DEF Prologued
<1>12. PICK i \in 1..Len(list) : list[i] = y
  BY <1>11 DEF Members
<1>13. i < k
  <2>1. i # k /\ k \in 1..Len(list)
    BY <1>1, <1>3, <1>10, <1>11, <1>12
  <2> SUFFICES ASSUME k < i PROVE FALSE
    BY <2>1
  <2>2. k \in 1..(i - 1)
    BY <2>1
  <2>3. Before(e, y)
    BY <1>1, <1>3, <1>12, <2>2 DEF Ordered
  <2>4. e.time \in Nat /\ e.id \in Nat
    BY <1>1, <1>3
  <2> QED BY <1>10, <1>11, <2>3, <2>4 DEF Before
<1>14. i \in 1..(k - 1)
  BY <1>1, <1>13
<1>15. /\ list[i].st = "prog" /\ list[i].ch = list[m].ch
       /\ list[i].a = list[m].a /\ list[i].time = 0
  BY <1>3, <1>9, <1>11, <1>12
<1> QED BY <1>14, <1>15

(* The delays that are written add up to the times of the XMIDI track, for *)
(* every track: no event is moved by what was inserted before it.          *)
THEOREM XmidiDeltasAddUp == Spec => []DeltasAddUp
<1> QED BY HistoryAddsUp, InitHistory, StepHistory, PTL DEF Spec

(* Every note that ends within its track is ended behind its beginning.    *)
THEOREM XmidiNotesEnd == Spec => []NotesEnd
<1> QED BY HistoryEndsNotes, InitHistory, StepHistory, PTL DEF Spec

(* A note whose key no other note sounds meanwhile is ended by the next    *)
(* event of its key, after its duration, for every track.                  *)
THEOREM XmidiNotesHeld == Spec => []NotesHeld
<1> QED BY HistoryHolds, InitHistory, StepHistory, PTL DEF Spec

(* A channel that changes its program has its first one before its notes.  *)
THEOREM XmidiProgramBeforeNotes == Spec => []ProgramBeforeNotes
<1> QED BY HistoryPrograms, InitHistory, StepHistory, PTL DEF Spec

(* Running status never leaves out a status that a reader does not know.   *)
THEOREM XmidiRunningStatusDecodes == Spec => []RunningStatusDecodes
<1> QED BY HistoryDecodes, InitHistory, StepHistory, PTL DEF Spec
===============================================================================
