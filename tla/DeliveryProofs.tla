---------------------------- MODULE DeliveryProofs ----------------------------
(***************************************************************************)
(* No message is passed over unseen: for any messages, senders and times,    *)
(* any number of sessions and restarts, and any rewrite under the readers.   *)
(***************************************************************************)
EXTENDS Delivery, WellFoundedInduction, TLAPS

Starting == [pc : {"rest", "save", "flush"}, new : SUBSET Msg, shown : SUBSET Msg]
Stopping == [pc : {"rest", "mark", "block"}, pend : SUBSET Msg]
Marker   == [ids : SUBSET Msg, count : 0 .. MaxBlocks]
Read     == [ts : 0 .. MaxClock, ids : SUBSET Msg]
Place    == [pc : {"rest", "look", "type", "mark"}, id : Msg \cup {None}]

BusTypes     == /\ stamp \in [Msg -> 0 .. MaxClock] /\ inbox \in Seq(Msg) /\ IsInjective(inbox)
                /\ acked \subseteq Delivered /\ rewriting \in Delivered \cup {None}
SessionTypes == /\ cursor \in [Sender -> Read] /\ pane \in {"gone", "idle", "busy"}
                /\ start \in Starting /\ start.new \subseteq Delivered /\ start.shown \subseteq Delivered
                /\ stop \in Stopping /\ stop.pend \subseteq Delivered
                /\ marker \in Marker /\ marker.ids \subseteq Delivered
                /\ seen \subseteq Delivered /\ excused \subseteq Delivered
WatchTypes   == /\ watch \in Place /\ (watch.pc # "rest" => watch.id \in Delivered)
                /\ pushed \in Delivered \cup {None} /\ events \in 0 .. MaxEvents

Types == BusTypes /\ SessionTypes /\ WatchTypes

\* The messages of a sender are in the file in the order of their times, but for
\* those that came late.
OrderInv ==
  /\ \A m \in Delivered : stamp[m] \in 1 .. MaxClock
  /\ \A i, j \in 1 .. Len(inbox) :
       i < j /\ From[inbox[i]] = From[inbox[j]] /\ inbox[j] \notin excused
         => stamp[inbox[i]] <= stamp[inbox[j]]

\* A cursor stands on a message of its sender, or at the start.
CursorInv ==
  \A s \in Sender :
    /\ cursor[s].ids \subseteq Delivered
    /\ cursor[s].ts = 0 \/ \E m \in Delivered : From[m] = s /\ stamp[m] = cursor[s].ts

Told == seen \cup excused \cup Telling

\* What the agent was not told of lies behind its cursor, and behind what a
\* starting session is about to move the cursor over.
UnseenInv ==
  \A m \in Delivered \ (acked \cup Told) :
    /\ after_cursor(m)
    /\ m \in start.new \/ \A n \in start.new : From[n] = From[m] => stamp[n] <= stamp[m]

\* What the marker counts was told, or is about to be.
MarkerInv == marker.ids \subseteq seen \cup excused \cup Blocking

\* A session has one hook at work, and none is left when it is gone.
PhaseInv ==
  /\ pane = "gone" => start.pc = "rest"
  /\ pane = "gone" \/ start.pc # "rest" => stop = NoStop

DeliveryInv == Types /\ OrderInv /\ CursorInv /\ UnseenInv /\ MarkerInv /\ PhaseInv

-----------------------------------------------------------------------------
LEMMA SendersAre == /\ \A m \in Msg : From[m] \in Sender
                    /\ MaxClock \in Nat \ {0} /\ MaxBlocks \in Nat \ {0} /\ MaxEvents \in Nat \ {0}
                    /\ None \notin Msg
BY DeliveryAssumption DEF Sender

LEMMA DeliveredAre ==
  ASSUME inbox \in Seq(Msg)
  PROVE  /\ Delivered \subseteq Msg
         /\ Delivered = {inbox[i] : i \in 1 .. Len(inbox)}
         /\ \A m \in Delivered : \E i \in 1 .. Len(inbox) : inbox[i] = m
BY DEF Delivered, ToSet

\* A reader without the lock finds a first part of the file.
LEMMA ViewsArePrefixes ==
  ASSUME inbox \in Seq(Msg), NEW view \in Views
  PROVE  /\ view \in Seq(Msg) /\ Len(view) <= Len(inbox)
         /\ \A i \in 1 .. Len(view) : view[i] = inbox[i]
         /\ ToSet(view) = {inbox[i] : i \in 1 .. Len(view)}
         /\ ToSet(view) \subseteq Delivered
<1>1. PICK k \in 0 .. Len(inbox) : view = SubSeq(inbox, 1, k)
  <2>1. Len(inbox) \in Nat
    OBVIOUS
  <2> QED  BY <2>1 DEF Views
<1>2. Len(inbox) \in Nat /\ \A i \in 1 .. k : inbox[i] \in Msg
  OBVIOUS
<1>3. view \in Seq(Msg) /\ Len(view) = k /\ \A i \in 1 .. k : view[i] = inbox[i]
  BY <1>1, <1>2
<1>4. ToSet(view) = {inbox[i] : i \in 1 .. Len(view)}
  BY <1>3 DEF ToSet
<1> QED  BY <1>2, <1>3, <1>4, DeliveredAre

\* A set of times that is not empty has a newest one.
LEMMA NewestExists ==
  ASSUME NEW S \in SUBSET (0 .. MaxClock), S # {}
  PROVE  \E t \in S : \A u \in S : u <= t
<1> DEFINE T == {MaxClock - t : t \in S}
<1>1. MaxClock \in Nat
  BY SendersAre
<1>2. T \subseteq Nat /\ T # {}
  <2>1. \A t \in S : t \in Nat /\ t <= MaxClock /\ MaxClock - t \in Nat
    BY <1>1
  <2>2. PICK t \in S : TRUE
    OBVIOUS
  <2>3. MaxClock - t \in T
    OBVIOUS
  <2> QED  BY <2>1, <2>3
<1>3. PICK x \in T : \A y \in T : ~ (<<y, x>> \in OpToRel(<, Nat))
  BY <1>2, NatLessThanWellFounded, WFMin
<1>4. \A y \in T : ~ (y < x)
  BY <1>2, <1>3 DEF OpToRel
<1>5. PICK t \in S : x = MaxClock - t
  OBVIOUS
<1>6. ASSUME NEW u \in S PROVE u <= t
  <2>1. MaxClock - u \in T
    OBVIOUS
  <2>2. ~ (MaxClock - u < MaxClock - t)
    BY <1>4, <1>5, <2>1
  <2>3. u \in Nat /\ t \in Nat
    OBVIOUS
  <2> QED  BY <1>1, <2>2, <2>3
<1> QED  BY <1>6

\* The cursor of a sender stays where it is, or moves to the newest message that
\* was unread; it lists what was unread of the time it stands on.
LEMMA AdvanceIs ==
  ASSUME DeliveryInv, NEW s \in Sender, NEW c, c = advance_cursor(start.new)[s]
  PROVE  /\ c \in Read
         /\ \/ /\ c.ts = cursor[s].ts
               /\ c.ids = {m \in start.new : From[m] = s /\ stamp[m] = c.ts} \cup cursor[s].ids
            \/ /\ c.ts > cursor[s].ts
               /\ \E n \in start.new : From[n] = s /\ stamp[n] = c.ts
               /\ c.ids = {m \in start.new : From[m] = s /\ stamp[m] = c.ts}
<1> DEFINE mine == {m \in start.new : From[m] = s}
           old  == cursor[s].ts
           new  == {stamp[m] : m \in {n \in mine : stamp[n] > old}}
           ts   == IF new = {} THEN old ELSE CHOOSE t \in new : \A u \in new : u <= t
           ids  == {m \in mine : stamp[m] = ts} \cup (IF ts = old THEN cursor[s].ids ELSE {})
<1>1. c = [ts |-> ts, ids |-> ids]
  BY DEF advance_cursor
<1>2. start.new \subseteq Msg /\ stamp \in [Msg -> 0 .. MaxClock] /\ cursor[s] \in Read
  BY DeliveredAre DEF DeliveryInv, Types, BusTypes, SessionTypes
<1>3. old \in 0 .. MaxClock /\ cursor[s].ids \subseteq Msg /\ MaxClock \in Nat
  BY <1>2, SendersAre DEF Read
<1>4. new \subseteq 0 .. MaxClock /\ mine \subseteq start.new
  BY <1>2
<1>5. CASE new = {}
  <2>1. ts = old
    BY <1>5
  <2>2. ids = {m \in mine : stamp[m] = ts} \cup cursor[s].ids
    BY <2>1
  <2> HIDE DEF ids, ts
  <2>3. c \in Read
    BY <1>1, <1>2, <1>3, <1>4, <2>1, <2>2 DEF Read
  <2> QED  BY <1>1, <2>1, <2>2, <2>3
<1>6. CASE new # {}
  <2>1. ts \in new
    BY <1>4, <1>6, NewestExists
  <2>2. PICK n \in mine : stamp[n] > old /\ stamp[n] = ts
    BY <2>1
  <2>3. ts > old /\ ts # old
    BY <1>2, <1>3, <1>4, <2>2
  <2>4. ids = {m \in mine : stamp[m] = ts}
    BY <2>3
  <2>5. ts \in 0 .. MaxClock
    BY <1>4, <2>1
  <2> HIDE DEF ids, ts, new
  <2>6. c \in Read
    BY <1>1, <1>2, <1>4, <2>4, <2>5 DEF Read
  <2> QED  BY <1>1, <2>2, <2>3, <2>4, <2>6
<1> QED  BY <1>5, <1>6

-----------------------------------------------------------------------------
\* Where the file and the cursor stay, and the agent is told of more.
LEMMA UnseenStays ==
  ASSUME DeliveryInv, UNCHANGED <<stamp, inbox, cursor>>, acked \subseteq acked',
         excused \subseteq excused', Told \subseteq Told',
         start'.new = start.new \/ start'.new = {}
  PROVE  OrderInv' /\ CursorInv' /\ UnseenInv'
<1> USE DEF DeliveryInv
<1>1. Delivered' = Delivered
  BY DEF Delivered, ToSet
<1>2. OrderInv'
  BY <1>1 DEF OrderInv
<1>3. CursorInv'
  BY <1>1 DEF CursorInv
<1>4. UnseenInv'
  <2> SUFFICES ASSUME NEW m \in Delivered \ (acked' \cup Told')
               PROVE  /\ after_cursor(m)'
                      /\ \/ m \in start'.new
                         \/ \A n \in start'.new : From[n] = From[m] => stamp[n] <= stamp[m]
    BY <1>1 DEF UnseenInv
  <2>1. /\ after_cursor(m)
        /\ m \in start.new \/ \A n \in start.new : From[n] = From[m] => stamp[n] <= stamp[m]
    BY DEF UnseenInv
  <2> QED  BY <2>1 DEF after_cursor
<1> QED  BY <1>2, <1>3, <1>4

\* A step that leaves the session alone.
LEMMA SessionStays ==
  ASSUME DeliveryInv, UNCHANGED <<stamp, inbox, cursor, pane, start, stop, marker, excused>>,
         acked \subseteq acked', seen \subseteq seen'
  PROVE  OrderInv' /\ CursorInv' /\ UnseenInv' /\ MarkerInv' /\ PhaseInv'
<1>1. Told \subseteq Told'
  BY DEF Told, Telling
<1>2. MarkerInv'
  BY DEF DeliveryInv, MarkerInv, Blocking
<1>3. PhaseInv'
  BY DEF DeliveryInv, PhaseInv
<1> QED  BY <1>1, <1>2, <1>3, UnseenStays

LEMMA AckBeginHolds ==
  ASSUME DeliveryInv, NEW m \in Msg, AckBegin(m) PROVE DeliveryInv'
<1> USE DEF DeliveryInv
<1>1. Delivered' = Delivered
  BY DEF AckBegin, Delivered, ToSet
<1>2. events' \in 0 .. MaxEvents
  BY SendersAre DEF AckBegin, Event, Types, WatchTypes
<1>3. Types'
  BY <1>1, <1>2 DEF AckBegin, Types, BusTypes, SessionTypes, WatchTypes, session
<1>4. OrderInv' /\ CursorInv' /\ UnseenInv' /\ MarkerInv' /\ PhaseInv'
  BY SessionStays DEF AckBegin, session
<1> QED  BY <1>3, <1>4

LEMMA AckEndHolds == ASSUME DeliveryInv, AckEnd PROVE DeliveryInv'
<1> USE DEF DeliveryInv
<1>1. Delivered' = Delivered
  BY DEF AckEnd, Delivered, ToSet
<1>2. events' \in 0 .. MaxEvents
  BY SendersAre DEF AckEnd, Event, Types, WatchTypes
<1>3. Types'
  BY <1>1, <1>2 DEF AckEnd, Types, BusTypes, SessionTypes, WatchTypes, session
<1>4. OrderInv' /\ CursorInv' /\ UnseenInv' /\ MarkerInv' /\ PhaseInv'
  BY SessionStays DEF AckEnd, session
<1> QED  BY <1>3, <1>4

\* A new message is not older than those of its sender, thus not than its cursor,
\* or it is late.
LEMMA DeliverHolds ==
  ASSUME DeliveryInv, NEW m \in Msg, NEW t \in 1 .. MaxClock, Deliver(m, t)
  PROVE  DeliveryInv'
<1> USE DEF DeliveryInv
<1>1. /\ m \notin Delivered /\ inbox' = Append(inbox, m) /\ stamp' = [stamp EXCEPT ![m] = t]
      /\ excused' \in {excused, excused \cup {m}}
      /\ m \in excused' \/ \A n \in Delivered : From[n] = From[m] => ~ (stamp[n] > t)
      /\ UNCHANGED <<acked, rewriting, cursor, pane, start, stop, marker, seen, watch, pushed>>
  BY DEF Deliver, session
<1>2. /\ inbox \in Seq(Msg) /\ Len(inbox) \in Nat /\ inbox' \in Seq(Msg)
      /\ Len(inbox') = Len(inbox) + 1 /\ inbox'[Len(inbox) + 1] = m
      /\ \A i \in 1 .. Len(inbox) : inbox'[i] = inbox[i] /\ inbox[i] \in Delivered
  BY <1>1, DeliveredAre DEF Types, BusTypes
<1>3. Delivered' = Delivered \cup {m}
  <2>1. Delivered' = {inbox'[i] : i \in 1 .. Len(inbox')}
    <3>1. DOMAIN inbox' = 1 .. Len(inbox')
      BY <1>2
    <3> QED  BY <3>1 DEF Delivered, ToSet
  <2>2. Delivered = {inbox[i] : i \in 1 .. Len(inbox)}
    BY <1>2, DeliveredAre
  <2> QED  BY <1>2, <2>1, <2>2
<1>4. /\ stamp' \in [Msg -> 0 .. MaxClock] /\ stamp'[m] = t
      /\ \A n \in Delivered : stamp'[n] = stamp[n] /\ stamp[n] \in Nat
  BY <1>1, <1>2, DeliveredAre, SendersAre DEF Types, BusTypes
<1>5. IsInjective(inbox')
  <2>1. DOMAIN inbox' = 1 .. (Len(inbox) + 1) /\ DOMAIN inbox = 1 .. Len(inbox)
    BY <1>2
  <2>2. \A i \in 1 .. Len(inbox) : inbox'[i] # m
    BY <1>1, <1>2
  <2>3. \A i, j \in 1 .. Len(inbox) : inbox[i] = inbox[j] => i = j
    BY <2>1 DEF Types, BusTypes, IsInjective
  <2>4. ASSUME NEW i \in 1 .. (Len(inbox) + 1), NEW j \in 1 .. (Len(inbox) + 1), inbox'[i] = inbox'[j]
        PROVE  i = j
    <3>1. CASE i \in 1 .. Len(inbox) /\ j \in 1 .. Len(inbox)
      BY <1>2, <2>3, <2>4, <3>1
    <3>2. CASE i = Len(inbox) + 1 \/ j = Len(inbox) + 1
      BY <1>2, <2>2, <2>4, <3>2
    <3> QED  BY <1>2, <3>1, <3>2
  <2> QED  BY <2>1, <2>4 DEF IsInjective
<1>6. events' \in 0 .. MaxEvents
  BY SendersAre DEF Deliver, Event, Types, WatchTypes
<1>7. Types'
  BY <1>1, <1>2, <1>3, <1>4, <1>5, <1>6 DEF Types, BusTypes, SessionTypes, WatchTypes
<1>8. m \in excused' \/ \A n \in Delivered : From[n] = From[m] => stamp[n] <= t
  <2>1. t \in Nat
    BY SendersAre
  <2> QED  BY <1>1, <1>4, <2>1
<1>9. OrderInv'
  <2>1. ASSUME NEW i \in 1 .. Len(inbox'), NEW j \in 1 .. Len(inbox'),
               i < j, From[inbox'[i]] = From[inbox'[j]], inbox'[j] \notin excused'
        PROVE  stamp'[inbox'[i]] <= stamp'[inbox'[j]]
    <3>1. i \in 1 .. Len(inbox)
      BY <1>2, <2>1
    <3>2. CASE j \in 1 .. Len(inbox)
      <4>1. inbox'[i] = inbox[i] /\ inbox'[j] = inbox[j] /\ inbox[j] \notin excused
        BY <1>1, <1>2, <2>1, <3>1, <3>2
      <4>2. stamp'[inbox[i]] = stamp[inbox[i]] /\ stamp'[inbox[j]] = stamp[inbox[j]]
        BY <1>2, <1>4, <3>1, <3>2
      <4> QED  BY <2>1, <3>1, <3>2, <4>1, <4>2 DEF OrderInv
    <3>3. CASE j = Len(inbox) + 1
      BY <1>2, <1>4, <1>8, <2>1, <3>1, <3>3
    <3> QED  BY <1>2, <3>2, <3>3
  <2>2. \A n \in Delivered' : stamp'[n] \in 1 .. MaxClock
    BY <1>3, <1>4 DEF OrderInv
  <2> QED  BY <2>1, <2>2 DEF OrderInv
<1>10. CursorInv'
  BY <1>1, <1>3, <1>4 DEF CursorInv
<1>11. Telling' = Telling /\ Blocking' = Blocking /\ start.new \subseteq Delivered
  BY <1>1 DEF Telling, Blocking, Types, SessionTypes
<1>12. UnseenInv'
  <2>1. ASSUME NEW n \in Delivered \ (acked \cup Told')
        PROVE  /\ after_cursor(n)'
               /\ n \in start'.new \/ \A l \in start'.new : From[l] = From[n] => stamp'[l] <= stamp'[n]
    <3>1. stamp'[n] = stamp[n] /\ \A l \in start.new : stamp'[l] = stamp[l]
      BY <1>4, <1>11
    <3>2. n \notin Told
      BY <1>1, <1>11, <2>1 DEF Told
    <3> QED  BY <1>1, <2>1, <3>1, <3>2 DEF UnseenInv, after_cursor
  <2>2. ASSUME m \notin excused'
        PROVE  /\ after_cursor(m)'
               /\ \A l \in start'.new : From[l] = From[m] => stamp'[l] <= stamp'[m]
    <3> DEFINE c == cursor[From[m]]
    <3>1. c.ts \in Nat /\ c.ids \subseteq Delivered /\ t \in Nat /\ From[m] \in Sender /\ t > 0
      BY SendersAre DEF Types, SessionTypes, Read, CursorInv
    <3>2. c.ts <= t
      BY <1>8, <2>2, <3>1 DEF CursorInv
    <3>3. after_cursor(m)'
      BY <1>1, <1>4, <3>1, <3>2 DEF after_cursor
    <3>4. \A l \in start'.new : From[l] = From[m] => stamp'[l] <= stamp'[m]
      BY <1>1, <1>4, <1>8, <1>11, <2>2
    <3> QED  BY <3>3, <3>4
  <2> QED  BY <1>1, <1>3, <2>1, <2>2 DEF UnseenInv, Told
<1>13. MarkerInv' /\ PhaseInv'
  BY <1>1, <1>11 DEF MarkerInv, PhaseInv
<1> QED  BY <1>7, <1>9, <1>10, <1>12, <1>13

-----------------------------------------------------------------------------
\* What a starting session did not find, it can only have missed at the end.
LEMMA SessionStartHolds ==
  ASSUME DeliveryInv, NEW view \in Views, SessionStart(view) PROVE DeliveryInv'
<1> USE DEF DeliveryInv
<1> DEFINE new == {m \in ToSet(view) \ acked : after_cursor(m)}
<1>1. /\ start' = IF new = {} THEN NoStart
                  ELSE [pc |-> "save", new |-> new, shown |-> injected(view, new)]
      /\ pane = "gone" /\ pane' \in {"idle", "busy"}
      /\ UNCHANGED <<stamp, inbox, acked, rewriting, cursor, stop, marker, seen, excused>>
      /\ UNCHANGED <<events, watch, pushed>>
  BY DEF SessionStart, bus, watcher
<1>2. Delivered' = Delivered /\ inbox \in Seq(Msg)
  BY <1>1 DEF Delivered, ToSet, Types, BusTypes
<1>3. /\ ToSet(view) = {inbox[i] : i \in 1 .. Len(view)} /\ ToSet(view) \subseteq Delivered
      /\ view \in Seq(Msg) /\ Len(view) <= Len(inbox) /\ Delivered \subseteq Msg
  BY <1>2, ViewsArePrefixes, DeliveredAre
<1>4. new \subseteq ToSet(view)
  OBVIOUS
<1>5. injected(view, new) \subseteq Delivered
  <2> HIDE DEF new
  <2>1. injected(view, new) \subseteq {view[i] : i \in 1 .. Len(view)}
    BY DEF injected
  <2> QED  BY <1>2, <1>3, <2>1, ViewsArePrefixes
<1>6. Telling = {} /\ stop = NoStop
  BY <1>1 DEF PhaseInv, Telling
<1>7. /\ start' \in Starting /\ start'.new = new /\ start'.shown \subseteq Delivered
      /\ start'.pc \in {"rest", "save"}
  <2>1. CASE new = {}
    BY <1>1, <2>1 DEF NoStart, Starting
  <2>2. CASE new # {}
    <3> HIDE DEF new
    <3> DEFINE shown == injected(view, new)
    <3> HIDE DEF shown
    <3>1. start' = [pc |-> "save", new |-> new, shown |-> shown]
      BY <1>1, <2>2 DEF shown
    <3>2. new \subseteq Msg /\ shown \subseteq Msg /\ shown \subseteq Delivered
      BY <1>3, <1>4, <1>5 DEF shown
    <3> QED  BY <3>1, <3>2 DEF Starting
  <2> QED  BY <2>1, <2>2
<1> HIDE DEF new
<1>8. Types'
  BY <1>1, <1>2, <1>3, <1>4, <1>7 DEF Types, BusTypes, SessionTypes, WatchTypes
<1>9. OrderInv' /\ CursorInv'
  BY <1>1, <1>2 DEF OrderInv, CursorInv
<1>10. Telling' = {}
  BY <1>7 DEF Telling
<1>11. UnseenInv'
  <2> SUFFICES ASSUME NEW m \in Delivered \ (acked \cup Told)
               PROVE  /\ after_cursor(m)
                      /\ m \in new \/ \A n \in new : From[n] = From[m] => stamp[n] <= stamp[m]
    BY <1>1, <1>2, <1>6, <1>7, <1>10 DEF UnseenInv, Told, after_cursor
  <2>1. after_cursor(m) /\ m \notin excused
    BY DEF UnseenInv, Told
  <2>2. CASE m \in ToSet(view)
    BY <2>1, <2>2 DEF new
  <2>3. CASE m \notin ToSet(view)
    <3> SUFFICES ASSUME NEW n \in new, From[n] = From[m] PROVE stamp[n] <= stamp[m]
      BY <2>1
    <3>1. PICK i \in 1 .. Len(inbox) : inbox[i] = m
      BY <1>2, DeliveredAre
    <3>2. PICK j \in 1 .. Len(view) : inbox[j] = n
      BY <1>3, <1>4
    <3>3. Len(view) \in Nat /\ Len(inbox) \in Nat
      BY <1>2, <1>3
    <3>4. i \notin 1 .. Len(view)
      BY <1>3, <2>3, <3>1
    <3>5. j < i /\ j \in 1 .. Len(inbox)
      BY <1>3, <3>3, <3>4
    <3> QED  BY <2>1, <3>1, <3>2, <3>5 DEF OrderInv
  <2> QED  BY <2>2, <2>3
<1>12. MarkerInv'
  BY <1>1 DEF MarkerInv, Blocking
<1>13. PhaseInv'
  BY <1>1, <1>6 DEF PhaseInv
<1> QED  BY <1>8, <1>9, <1>11, <1>12, <1>13

\* Nothing is past a cursor that does not parse.
LEMMA AtStartIs ==
  ASSUME DeliveryInv
  PROVE  /\ AtStart \in [Sender -> Read]
         /\ \A s \in Sender : AtStart[s].ts = 0 /\ AtStart[s].ids = {}
         /\ \A m \in Delivered : From[m] \in Sender /\ stamp[m] > 0
<1>1. NoCursor \in Read /\ NoCursor.ts = 0 /\ NoCursor.ids = {}
  BY SendersAre DEF NoCursor, Read
<1>2. \A m \in Delivered : From[m] \in Sender /\ stamp[m] > 0
  BY DeliveredAre, SendersAre DEF DeliveryInv, Types, BusTypes, OrderInv
<1> QED  BY <1>1, <1>2 DEF AtStart

\* The cursor moves over what was told, or left out by MAX_INJECTED.
LEMMA SaveCursorHolds ==
  ASSUME DeliveryInv, NEW ok \in BOOLEAN, SaveCursor(ok) PROVE DeliveryInv'
<1> USE DEF DeliveryInv
<1>1. /\ start.pc = "save"
      /\ start' = [pc |-> "flush", new |-> {}, shown |-> start.shown]
      /\ cursor' \in {advance_cursor(start.new), cursor, AtStart}
      /\ excused' = excused \cup (start.new \ start.shown)
      /\ UNCHANGED <<stamp, inbox, acked, rewriting, pane, stop, marker, seen, events, watch, pushed>>
  BY DEF SaveCursor, Advanced, bus, watcher
<1>2. Delivered' = Delivered
  BY <1>1 DEF Delivered, ToSet
<1>3. /\ start \in Starting /\ start.new \subseteq Delivered /\ start.shown \subseteq Delivered
      /\ start' \in Starting /\ start'.new = {} /\ start'.shown = start.shown /\ start'.pc = "flush"
  BY <1>1 DEF Types, SessionTypes, Starting
<1>4. Telling = {} /\ Telling' = start.shown
  BY <1>1, <1>3 DEF Telling
<1>5. \A m \in Delivered \ (acked \cup Told') :
        m \in Delivered \ (acked \cup Told) /\ m \notin start.new
  BY <1>1, <1>4 DEF Told
<1>6. OrderInv' /\ MarkerInv' /\ PhaseInv'
  <2>1. OrderInv'
    BY <1>1, <1>2 DEF OrderInv
  <2>2. MarkerInv'
    BY <1>1 DEF MarkerInv, Blocking
  <2>3. PhaseInv'
    BY <1>1 DEF PhaseInv
  <2> QED  BY <2>1, <2>2, <2>3
<1>7. ASSUME cursor' \in [Sender -> Read] PROVE Types'
  BY <1>1, <1>2, <1>3, <1>7 DEF Types, BusTypes, SessionTypes, WatchTypes
<1>8. CASE cursor' = advance_cursor(start.new)
  <2>1. ASSUME NEW s \in Sender
        PROVE  /\ cursor'[s] \in Read
               /\ \/ /\ cursor'[s].ts = cursor[s].ts
                     /\ cursor'[s].ids = {m \in start.new : From[m] = s /\ stamp[m] = cursor'[s].ts}
                                           \cup cursor[s].ids
                  \/ /\ cursor'[s].ts > cursor[s].ts
                     /\ \E n \in start.new : From[n] = s /\ stamp[n] = cursor'[s].ts
                     /\ cursor'[s].ids = {m \in start.new : From[m] = s /\ stamp[m] = cursor'[s].ts}
    <3>1. PICK c : c = advance_cursor(start.new)[s]
      OBVIOUS
    <3>2. cursor'[s] = c
      BY <1>8, <3>1
    <3> QED  BY <3>1, <3>2, AdvanceIs
  <2>2. cursor' \in [Sender -> Read]
    <3>1. cursor' = [s \in Sender |-> cursor'[s]]
      BY <1>8 DEF advance_cursor
    <3> QED  BY <2>1, <3>1
  <2>3. CursorInv'
    <3> SUFFICES ASSUME NEW s \in Sender
                 PROVE  /\ cursor'[s].ids \subseteq Delivered
                        /\ \/ cursor'[s].ts = 0
                           \/ \E m \in Delivered : From[m] = s /\ stamp[m] = cursor'[s].ts
      BY <1>1, <1>2 DEF CursorInv
    <3>1. /\ cursor[s].ids \subseteq Delivered
          /\ cursor[s].ts = 0 \/ \E m \in Delivered : From[m] = s /\ stamp[m] = cursor[s].ts
      BY DEF CursorInv
    <3> QED  BY <1>3, <2>1, <3>1
  <2>4. UnseenInv'
    <3> SUFFICES ASSUME NEW m \in Delivered \ (acked \cup Told') PROVE after_cursor(m)'
      BY <1>1, <1>2, <1>3 DEF UnseenInv
    <3>1. PICK s \in Sender : s = From[m]
      BY DeliveredAre, SendersAre DEF Types, BusTypes
    <3>2. stamp[m] > cursor[s].ts \/ (stamp[m] = cursor[s].ts /\ m \notin cursor[s].ids)
      BY <1>5, <3>1 DEF UnseenInv, after_cursor
    <3>3. m \notin start.new /\ \A n \in start.new : From[n] = s => stamp[n] <= stamp[m]
      BY <1>5, <3>1 DEF UnseenInv
    <3>4. /\ stamp[m] \in Nat /\ cursor[s].ts \in Nat /\ cursor'[s].ts \in Nat
          /\ \A n \in start.new : stamp[n] \in Nat
      <4>1. Delivered \subseteq Msg /\ \A n \in Msg : stamp[n] \in Nat
        BY DeliveredAre, SendersAre DEF Types, BusTypes
      <4>2. cursor[s].ts \in Nat /\ cursor'[s].ts \in Nat
        BY <2>1, SendersAre DEF Types, SessionTypes, Read
      <4> QED  BY <1>3, <4>1, <4>2
    <3>5. stamp[m] > cursor'[s].ts \/ (stamp[m] = cursor'[s].ts /\ m \notin cursor'[s].ids)
      BY <2>1, <3>2, <3>3, <3>4
    <3> QED  BY <1>1, <3>1, <3>5 DEF after_cursor
  <2> QED  BY <1>6, <1>7, <2>2, <2>3, <2>4
<1>9. CASE cursor' = cursor
  <2>1. Types'
    BY <1>7, <1>9 DEF Types, SessionTypes
  <2>2. CursorInv'
    BY <1>1, <1>2, <1>9 DEF CursorInv
  <2>3. UnseenInv'
    BY <1>1, <1>2, <1>3, <1>5, <1>9 DEF UnseenInv, after_cursor
  <2> QED  BY <1>6, <2>1, <2>2, <2>3
<1>10. CASE cursor' = AtStart
  <2>1. Types'
    BY <1>7, <1>10, AtStartIs
  <2>2. CursorInv'
    BY <1>1, <1>2, <1>10, AtStartIs DEF CursorInv
  <2>3. UnseenInv'
    BY <1>1, <1>2, <1>3, <1>10, AtStartIs DEF UnseenInv, after_cursor
  <2> QED  BY <1>6, <2>1, <2>2, <2>3
<1> QED  BY <1>1, <1>8, <1>9, <1>10

LEMMA DigestHolds == ASSUME DeliveryInv, Digest PROVE DeliveryInv'
<1> USE DEF DeliveryInv
<1>1. /\ start.pc = "flush" /\ start' = NoStart /\ seen' = seen \cup start.shown
      /\ pane' \in {"idle", "busy"}
      /\ UNCHANGED <<stamp, inbox, acked, rewriting, cursor, stop, marker, excused>>
      /\ UNCHANGED <<events, watch, pushed>>
  BY DEF Digest, bus, watcher
<1>2. Delivered' = Delivered
  BY <1>1 DEF Delivered, ToSet
<1>3. /\ start' \in Starting /\ start'.new = {} /\ start'.shown = {} /\ start'.pc = "rest"
      /\ start.shown \subseteq Delivered /\ seen' \subseteq Delivered
  BY <1>1 DEF NoStart, Starting, Types, SessionTypes
<1>4. Types'
  BY <1>1, <1>2, <1>3 DEF Types, BusTypes, SessionTypes, WatchTypes
<1>5. Told \subseteq Told'
  BY <1>1 DEF Told, Telling
<1>6. OrderInv' /\ CursorInv' /\ UnseenInv'
  BY <1>1, <1>3, <1>5, UnseenStays
<1>7. MarkerInv' /\ PhaseInv'
  BY <1>1, <1>3 DEF MarkerInv, PhaseInv, Blocking
<1> QED  BY <1>4, <1>6, <1>7

\* A cursor that is torn is as if nothing had been read.
LEMMA SessionEndsHolds ==
  ASSUME DeliveryInv, NEW torn \in BOOLEAN, SessionEnds(torn) PROVE DeliveryInv'
<1> USE DEF DeliveryInv
<1>1. /\ pane' = "gone" /\ start' = NoStart /\ stop' = NoStop
      /\ cursor' \in {cursor, AtStart}
      /\ excused' = excused \cup Telling \cup Blocking
      /\ UNCHANGED <<stamp, inbox, acked, rewriting, marker, seen, events, watch, pushed>>
  BY DEF SessionEnds, bus, watcher
<1>2. Delivered' = Delivered
  BY <1>1 DEF Delivered, ToSet
<1>3. /\ start' \in Starting /\ start'.new = {} /\ start'.shown = {} /\ start'.pc = "rest"
      /\ stop' \in Stopping /\ stop'.pend = {} /\ stop'.pc = "rest"
      /\ Telling \subseteq Delivered /\ Blocking \subseteq Delivered /\ Telling' = {}
  BY <1>1 DEF NoStart, NoStop, Starting, Stopping, Telling, Blocking, Types, SessionTypes
<1>4. ASSUME cursor' \in [Sender -> Read] PROVE Types'
  BY <1>1, <1>2, <1>3, <1>4 DEF Types, BusTypes, SessionTypes, WatchTypes
<1>5. Told \subseteq Told'
  BY <1>1 DEF Told
<1>6. MarkerInv' /\ PhaseInv'
  BY <1>1, <1>3 DEF MarkerInv, PhaseInv
<1>7. CASE cursor' = cursor
  <2>1. Types'
    BY <1>4, <1>7 DEF Types, SessionTypes
  <2>2. OrderInv' /\ CursorInv' /\ UnseenInv'
    BY <1>1, <1>3, <1>5, <1>7, UnseenStays
  <2> QED  BY <1>6, <2>1, <2>2
<1>8. CASE cursor' = AtStart
  <2>1. Types'
    BY <1>4, <1>8, AtStartIs
  <2>2. OrderInv'
    BY <1>1, <1>2 DEF OrderInv
  <2>3. CursorInv'
    BY <1>1, <1>2, <1>8, AtStartIs DEF CursorInv
  <2>4. UnseenInv'
    BY <1>1, <1>2, <1>3, <1>8, AtStartIs DEF UnseenInv, after_cursor
  <2> QED  BY <1>6, <2>1, <2>2, <2>3, <2>4
<1> QED  BY <1>1, <1>7, <1>8

LEMMA PromptHolds == ASSUME DeliveryInv, Prompt PROVE DeliveryInv'
<1> USE DEF DeliveryInv
<1>1. Delivered' = Delivered
  BY DEF Prompt, bus, Delivered, ToSet
<1>2. Types'
  BY <1>1 DEF Prompt, Types, BusTypes, SessionTypes, WatchTypes, bus, watcher
<1>3. OrderInv' /\ CursorInv' /\ UnseenInv'
  BY UnseenStays DEF Prompt, bus, Told, Telling
<1>4. MarkerInv' /\ PhaseInv'
  BY DEF Prompt, MarkerInv, PhaseInv, Blocking
<1> QED  BY <1>2, <1>3, <1>4

LEMMA StopReadHolds ==
  ASSUME DeliveryInv, NEW view \in Views, StopRead(view) PROVE DeliveryInv'
<1> USE DEF DeliveryInv
<1>1. Delivered' = Delivered
  BY DEF StopRead, bus, Delivered, ToSet
<1>2. inbox \in Seq(Msg)
  BY DEF Types, BusTypes
<1>3. ToSet(view) \subseteq Delivered /\ Delivered \subseteq Msg
  BY <1>2, ViewsArePrefixes, DeliveredAre
<1>4. stop' \in Stopping /\ stop'.pend \subseteq Delivered /\ stop'.pc = "mark"
  BY <1>3 DEF StopRead, Stopping
<1>5. Types'
  BY <1>1, <1>4 DEF StopRead, Types, BusTypes, SessionTypes, WatchTypes, bus, watcher
<1>6. OrderInv' /\ CursorInv' /\ UnseenInv'
  BY UnseenStays DEF StopRead, bus, Told, Telling
<1>7. MarkerInv' /\ PhaseInv'
  BY <1>4 DEF StopRead, MarkerInv, PhaseInv, Blocking
<1> QED  BY <1>5, <1>6, <1>7

\* A turn is blocked once more only to tell of what is pending.
LEMMA StopMarkHolds ==
  ASSUME DeliveryInv, NEW ok \in BOOLEAN, StopMark(ok) PROVE DeliveryInv'
<1> USE DEF DeliveryInv
<1> DEFINE pend   == stop.pend
           blocks == pend # {} /\ ~ GivesUp(Counted(pend))
           count  == IF pend = {} THEN NoMarker ELSE [ids |-> pend, count |-> Counted(pend) + 1]
<1>1. /\ stop.pc = "mark"
      /\ stop' = IF blocks THEN [stop EXCEPT !.pc = "block"] ELSE NoStop
      /\ pane' \in {pane, "idle"}
      /\ marker' \in {marker, NoMarker} \/ (marker' = count /\ blocks)
      /\ UNCHANGED <<stamp, inbox, acked, rewriting, cursor, start, seen, excused>>
      /\ UNCHANGED <<events, watch, pushed>>
  BY DEF StopMark, bus, watcher
<1>2. Delivered' = Delivered
  BY <1>1 DEF Delivered, ToSet
<1>3. stop \in Stopping /\ pend \subseteq Delivered /\ pend \subseteq Msg
  BY DEF Types, SessionTypes, Stopping
<1>4. /\ stop' \in Stopping /\ stop'.pend \subseteq Delivered
      /\ blocks => stop'.pc = "block" /\ stop'.pend = pend
  <2>1. CASE blocks
    BY <1>1, <1>3, <2>1 DEF Stopping
  <2>2. CASE ~ blocks
    BY <1>1, <2>2 DEF NoStop, Stopping
  <2> QED  BY <2>1, <2>2
<1>5. NoMarker \in Marker /\ NoMarker.ids = {} /\ marker \in Marker /\ marker.ids \subseteq Delivered
  BY SendersAre DEF NoMarker, Marker, Types, SessionTypes
<1>6. blocks => count \in Marker /\ count.ids = pend
  <2> SUFFICES ASSUME blocks PROVE count \in Marker /\ count.ids = pend
    OBVIOUS
  <2>1. Counted(pend) \in 0 .. MaxBlocks
    BY <1>5, SendersAre DEF Counted, Marker
  <2>2. Counted(pend) + 1 \in 0 .. MaxBlocks
    BY <2>1, SendersAre DEF GivesUp
  <2>3. count = [ids |-> pend, count |-> Counted(pend) + 1]
    OBVIOUS
  <2> HIDE DEF pend, count
  <2> QED  BY <1>3, <2>2, <2>3 DEF Marker
<1> HIDE DEF pend, blocks, count
<1>7. marker' \in Marker /\ marker'.ids \subseteq Delivered
  BY <1>1, <1>3, <1>5, <1>6
<1>8. Types'
  BY <1>1, <1>2, <1>4, <1>7 DEF Types, BusTypes, SessionTypes, WatchTypes
<1>9. OrderInv' /\ CursorInv' /\ UnseenInv'
  BY <1>1, UnseenStays DEF Told, Telling
<1>10. MarkerInv'
  <2>1. marker.ids \subseteq seen \cup excused
    BY <1>1 DEF MarkerInv, Blocking
  <2>2. CASE marker' \in {marker, NoMarker}
    BY <1>1, <1>5, <2>1, <2>2 DEF MarkerInv
  <2>3. CASE marker' = count /\ blocks
    BY <1>4, <1>6, <2>3 DEF MarkerInv, Blocking
  <2> QED  BY <1>1, <2>2, <2>3
<1>11. PhaseInv'
  <2>1. stop # NoStop
    BY <1>1 DEF NoStop
  <2>2. pane # "gone" /\ start.pc = "rest"
    BY <2>1 DEF PhaseInv
  <2> QED  BY <1>1, <2>2 DEF PhaseInv
<1> QED  BY <1>8, <1>9, <1>10, <1>11

LEMMA StopBlockHolds == ASSUME DeliveryInv, StopBlock PROVE DeliveryInv'
<1> USE DEF DeliveryInv
<1>1. /\ stop.pc = "block" /\ stop' = NoStop /\ seen' = seen \cup stop.pend
      /\ UNCHANGED <<stamp, inbox, acked, rewriting, cursor, pane, start, marker, excused>>
      /\ UNCHANGED <<events, watch, pushed>>
  BY DEF StopBlock, bus, watcher
<1>2. Delivered' = Delivered
  BY <1>1 DEF Delivered, ToSet
<1>3. stop' \in Stopping /\ stop'.pend = {} /\ stop'.pc = "rest" /\ seen' \subseteq Delivered
  BY <1>1 DEF NoStop, Stopping, Types, SessionTypes
<1>4. Types'
  BY <1>1, <1>2, <1>3 DEF Types, BusTypes, SessionTypes, WatchTypes
<1>5. OrderInv' /\ CursorInv' /\ UnseenInv'
  BY <1>1, UnseenStays DEF Told, Telling
<1>6. MarkerInv' /\ PhaseInv'
  BY <1>1 DEF MarkerInv, PhaseInv, Blocking
<1> QED  BY <1>4, <1>5, <1>6

-----------------------------------------------------------------------------
\* The watcher only ever has a message of the file in hand.
LEMMA HandleHolds ==
  ASSUME DeliveryInv, NEW view \in Views, Handle(view) PROVE DeliveryInv'
<1> USE DEF DeliveryInv
<1>1. UNCHANGED <<stamp, inbox, acked, rewriting, cursor, pane, start, stop, marker, seen, excused, pushed>>
  BY DEF Handle, bus, session
<1>2. Delivered' = Delivered /\ inbox \in Seq(Msg)
  BY <1>1 DEF Delivered, ToSet, Types, BusTypes
<1>3. events' \in 0 .. MaxEvents
  BY SendersAre DEF Handle, Types, WatchTypes
<1>4. watch' \in Place /\ (watch'.pc # "rest" => watch'.id \in Delivered)
  <2> DEFINE last == IF view = << >> THEN None ELSE Last(view)
  <2>1. watch' = IF last \in {None, pushed} THEN Resting ELSE [pc |-> "look", id |-> last]
    BY DEF Handle
  <2>2. last \in {None} \cup Delivered
    <3>1. CASE view = << >>
      BY <3>1
    <3>2. CASE view # << >>
      <4>1. view \in Seq(Msg) /\ Len(view) <= Len(inbox) /\ \A i \in 1 .. Len(view) : view[i] = inbox[i]
        BY <1>2, ViewsArePrefixes
      <4>2. Len(view) \in 1 .. Len(view) /\ Len(view) \in 1 .. Len(inbox)
        BY <1>2, <3>2, <4>1
      <4>3. last = inbox[Len(view)]
        BY <3>2, <4>1, <4>2 DEF Last
      <4> QED  BY <1>2, <4>2, <4>3, DeliveredAre
    <3> QED  BY <3>1, <3>2
  <2>3. Delivered \subseteq Msg
    BY <1>2, DeliveredAre
  <2> HIDE DEF last
  <2>4. CASE last \in {None, pushed}
    BY <2>1, <2>4 DEF Resting, Place
  <2>5. CASE last \notin {None, pushed}
    BY <2>1, <2>2, <2>3, <2>5 DEF Place
  <2> QED  BY <2>4, <2>5
<1>5. Types'
  BY <1>1, <1>2, <1>3, <1>4 DEF Types, BusTypes, SessionTypes, WatchTypes
<1>6. OrderInv' /\ CursorInv' /\ UnseenInv' /\ MarkerInv' /\ PhaseInv'
  BY <1>1, SessionStays
<1> QED  BY <1>5, <1>6

LEMMA LookHolds ==
  ASSUME DeliveryInv, NEW misread \in BOOLEAN, Look(misread) PROVE DeliveryInv'
<1> USE DEF DeliveryInv
<1>1. Delivered' = Delivered
  BY DEF Look, bus, Delivered, ToSet
<1>2. watch' \in Place /\ (watch'.pc # "rest" => watch'.id \in Delivered)
  <2>1. watch \in Place /\ watch.id \in Delivered
    BY DEF Look, Types, WatchTypes
  <2>2. Resting \in Place /\ Resting.pc = "rest"
    BY DEF Resting, Place
  <2>3. [watch EXCEPT !.pc = "type"] \in Place /\ [watch EXCEPT !.pc = "type"].id = watch.id
    BY <2>1 DEF Place
  <2> QED  BY <2>1, <2>2, <2>3 DEF Look
<1>3. Types'
  BY <1>1, <1>2 DEF Look, Types, BusTypes, SessionTypes, WatchTypes, bus, session
<1>4. OrderInv' /\ CursorInv' /\ UnseenInv' /\ MarkerInv' /\ PhaseInv'
  BY SessionStays DEF Look, bus, session
<1> QED  BY <1>3, <1>4

LEMMA TypeHolds ==
  ASSUME DeliveryInv, NEW sent \in BOOLEAN, NEW ok \in BOOLEAN, Type(sent, ok) PROVE DeliveryInv'
<1> USE DEF DeliveryInv
<1>1. UNCHANGED <<stamp, inbox, acked, rewriting, cursor, start, stop, marker, excused, events, pushed>>
  BY DEF Type, bus
<1>2. Delivered' = Delivered
  BY <1>1 DEF Delivered, ToSet
<1>3. watch \in Place /\ watch.id \in Delivered
  BY DEF Type, Types, WatchTypes
<1>4. watch' \in Place /\ (watch'.pc # "rest" => watch'.id \in Delivered)
  <2>1. Resting \in Place /\ Resting.pc = "rest"
    BY DEF Resting, Place
  <2>2. [watch EXCEPT !.pc = "mark"] \in Place /\ [watch EXCEPT !.pc = "mark"].id = watch.id
    BY <1>3 DEF Place
  <2> QED  BY <1>3, <2>1, <2>2 DEF Type
<1>5. /\ pane' = pane \/ (pane # "gone" /\ pane' = "busy")
      /\ seen \subseteq seen' /\ seen' \subseteq Delivered
  <2>1. seen \subseteq Delivered
    BY DEF Types, SessionTypes
  <2> QED  BY <1>3, <2>1 DEF Type
<1>6. Types'
  BY <1>1, <1>2, <1>4, <1>5 DEF Types, BusTypes, SessionTypes, WatchTypes
<1>7. OrderInv' /\ CursorInv' /\ UnseenInv'
  BY <1>1, <1>5, UnseenStays DEF Told, Telling
<1>8. MarkerInv' /\ PhaseInv'
  BY <1>1, <1>5 DEF MarkerInv, PhaseInv, Blocking
<1> QED  BY <1>6, <1>7, <1>8

LEMMA MarkHolds == ASSUME DeliveryInv, Mark PROVE DeliveryInv'
<1> USE DEF DeliveryInv
<1>1. Delivered' = Delivered
  BY DEF Mark, bus, Delivered, ToSet
<1>2. pushed' \in Delivered
  BY DEF Mark, Marked, Types, WatchTypes
<1>3. watch' \in Place /\ watch'.pc = "rest"
  BY DEF Mark, Resting, Place
<1>4. Types'
  BY <1>1, <1>2, <1>3 DEF Mark, Types, BusTypes, SessionTypes, WatchTypes, bus, session
<1>5. OrderInv' /\ CursorInv' /\ UnseenInv' /\ MarkerInv' /\ PhaseInv'
  BY SessionStays DEF Mark, bus, session
<1> QED  BY <1>4, <1>5

LEMMA WatcherDiesHolds == ASSUME DeliveryInv, WatcherDies PROVE DeliveryInv'
<1> USE DEF DeliveryInv
<1>1. Delivered' = Delivered
  BY DEF WatcherDies, bus, Delivered, ToSet
<1>2. watch' \in Place /\ watch'.pc = "rest" /\ events' \in 0 .. MaxEvents
  BY SendersAre DEF WatcherDies, Resting, Place
<1>3. Types'
  BY <1>1, <1>2 DEF WatcherDies, Types, BusTypes, SessionTypes, WatchTypes, bus, session
<1>4. OrderInv' /\ CursorInv' /\ UnseenInv' /\ MarkerInv' /\ PhaseInv'
  BY SessionStays DEF WatcherDies, bus, session
<1> QED  BY <1>3, <1>4

-----------------------------------------------------------------------------
LEMMA InitHolds == Init => DeliveryInv
<1> SUFFICES ASSUME Init PROVE DeliveryInv
  OBVIOUS
<1>1. inbox = << >> /\ inbox \in Seq(Msg) /\ Delivered = {} /\ IsInjective(inbox)
  BY DEF Init, Delivered, ToSet, IsInjective
<1>2. BusTypes
  BY <1>1, SendersAre DEF Init, BusTypes
<1>3. SessionTypes
  <2>1. cursor \in [Sender -> Read]
    BY SendersAre DEF Init, AtStart, NoCursor, Read
  <2>2. start \in Starting /\ start.new = {} /\ start.shown = {}
    BY DEF Init, NoStart, Starting
  <2>3. stop \in Stopping /\ stop.pend = {}
    BY DEF Init, NoStop, Stopping
  <2>4. marker \in Marker /\ marker.ids = {}
    BY SendersAre DEF Init, NoMarker, Marker
  <2> QED  BY <2>1, <2>2, <2>3, <2>4 DEF Init, SessionTypes
<1>4. WatchTypes
  BY SendersAre DEF Init, WatchTypes, Resting, Place
<1>5. OrderInv /\ CursorInv /\ UnseenInv /\ MarkerInv /\ PhaseInv
  BY <1>1 DEF Init, OrderInv, CursorInv, UnseenInv, MarkerInv, PhaseInv, AtStart, NoCursor, NoMarker,
              NoStart, NoStop
<1> QED  BY <1>2, <1>3, <1>4, <1>5 DEF DeliveryInv, Types

LEMMA NextHolds == DeliveryInv /\ [Next]_vars => DeliveryInv'
<1> SUFFICES ASSUME DeliveryInv, [Next]_vars PROVE DeliveryInv'
  OBVIOUS
<1>1. CASE \E m \in Msg : (\E t \in 1 .. MaxClock : Deliver(m, t)) \/ AckBegin(m)
  BY <1>1, DeliverHolds, AckBeginHolds
<1>2. CASE AckEnd \/ Prompt \/ WatcherDies
  BY <1>2, AckEndHolds, PromptHolds, WatcherDiesHolds
<1>3. CASE (\E torn \in BOOLEAN : SessionEnds(torn)) \/ \E v \in Views : SessionStart(v)
  BY <1>3, SessionEndsHolds, SessionStartHolds
<1>4. CASE Hooks
  BY <1>4, SaveCursorHolds, DigestHolds, StopReadHolds, StopMarkHolds, StopBlockHolds DEF Hooks
<1>5. CASE Watch
  BY <1>5, HandleHolds, LookHolds, TypeHolds, MarkHolds DEF Watch
<1>6. CASE UNCHANGED vars
  <2>1. UNCHANGED <<stamp, inbox, acked, rewriting, cursor, pane, start, stop, marker,
                    events, watch, pushed, seen, excused>>
    BY <1>6 DEF vars
  <2>2. Delivered' = Delivered
    BY <2>1 DEF Delivered, ToSet
  <2>3. Types'
    BY <2>1, <2>2 DEF DeliveryInv, Types, BusTypes, SessionTypes, WatchTypes
  <2>4. OrderInv' /\ CursorInv' /\ UnseenInv' /\ MarkerInv' /\ PhaseInv'
    BY <2>1, SessionStays
  <2> QED  BY <2>3, <2>4 DEF DeliveryInv
<1> QED  BY <1>1, <1>2, <1>3, <1>4, <1>5, <1>6 DEF Next

LEMMA InvHolds == Spec => []DeliveryInv
BY InitHolds, NextHolds, PTL DEF Spec

\* Every variable of the delivery stays in its type.
THEOREM DeliveryTypes == Spec => []DeliveryTypeOK
<1>1. DeliveryInv => DeliveryTypeOK
  <2> SUFFICES ASSUME DeliveryInv PROVE DeliveryTypeOK
    OBVIOUS
  <2> USE DEF DeliveryInv, Types
  <2>1. inbox \in Seq(Msg)
    BY DEF BusTypes
  <2>2. Delivered \subseteq Msg
    BY <2>1, DeliveredAre
  <2>3. marker.count \in 0 .. MaxBlocks
    BY DEF SessionTypes, Marker
  <2>4. watch.pc \in {"rest", "look", "type", "mark"}
    BY DEF WatchTypes, Place
  <2>5. start.pc \in {"rest", "save", "flush"} /\ stop.pc \in {"rest", "mark", "block"}
    BY DEF SessionTypes, Starting, Stopping
  <2>6. \A s \in {acked, start.new, start.shown, stop.pend, marker.ids, seen, excused} :
          s \subseteq Delivered
    BY DEF BusTypes, SessionTypes
  <2> QED  BY <2>2, <2>3, <2>4, <2>5, <2>6 DEF DeliveryTypeOK, BusTypes, SessionTypes, WatchTypes
<1> QED  BY <1>1, InvHolds, PTL

\* The cursor passes no message the agent is not told of, but for three kinds: those
\* beyond MAX_INJECTED at a start, those in an output that was lost with its session
\* after the save, and those in the file after a later one of their sender.  For
\* messages of one second, deaths before the save, saves that fail, and rewrites
\* under the hook (session_start.py, advance_cursor).
THEOREM CursorPassesNothing == Spec => []CursorAccounts
<1>1. DeliveryInv => CursorAccounts
  BY DEF DeliveryInv, UnseenInv, CursorAccounts, Told
<1> QED  BY <1>1, InvHolds, PTL

\* A turn ends with messages pending only if its hook told of them before, the
\* blocks being counted per set of messages (mesh-inbox-drain-stop.py), or a session
\* that died after the count took the block with it.
THEOREM TurnsEndInformed == Spec => TurnEndsInformed
<1>1. DeliveryInv /\ [Next]_vars
        => [pane = "busy" /\ pane' = "idle" => stop.pend \subseteq seen \cup excused]_vars
  <2> SUFFICES ASSUME DeliveryInv, Next, pane = "busy", pane' = "idle"
               PROVE  stop.pend \subseteq seen \cup excused
    OBVIOUS
  <2> USE DEF DeliveryInv
  <2>1. Digest \/ \E ok \in BOOLEAN : StopMark(ok)
    BY DEF Next, Hooks, Watch, Deliver, AckBegin, AckEnd, SessionStart, SaveCursor, SessionEnds,
           Prompt, StopRead, StopBlock, Handle, Look, Type, Mark, WatcherDies, session
  <2>2. CASE stop.pend = {}
    BY <2>2
  <2>3. CASE Digest
    BY <2>3 DEF Digest, PhaseInv, NoStop
  <2>4. CASE stop.pend # {} /\ \E ok \in BOOLEAN : StopMark(ok)
    <3>1. PICK ok \in BOOLEAN : StopMark(ok)
      BY <2>4
    <3>2. stop.pc = "mark" /\ GivesUp(Counted(stop.pend))
      BY <2>4, <3>1 DEF StopMark
    <3>3. Counted(stop.pend) > 0
      BY <3>2, SendersAre DEF GivesUp, Counted, Types, SessionTypes, Marker
    <3>4. marker.ids = stop.pend
      BY <3>3 DEF Counted
    <3> QED  BY <3>2, <3>4 DEF MarkerInv, Blocking
  <2> QED  BY <2>1, <2>2, <2>3, <2>4
<1> QED  BY <1>1, InvHolds, PTL DEF Spec, TurnEndsInformed
=============================================================================
