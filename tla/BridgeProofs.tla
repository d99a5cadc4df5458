----------------------------- MODULE BridgeProofs -----------------------------
(***************************************************************************)
(* What neither direction of the Matrix bridge loses, for any rooms, lines,  *)
(* window, page limit and deadlines, and any failures, purges, deaths and    *)
(* restarts.  The exceptions are those that the two properties name.         *)
(***************************************************************************)
EXTENDS Bridge, SequenceTheorems, TLAPS

Entry     == {"pilot", "agent", "bot"} \X (Lines \cup {0})
Cursor    == [Room -> Nat]
StateFile == [since : Cursor \cup {None}, last : Cursor, offset : Nat]

Marker    == [at : Lines \cup {0}, room : Room \cup {None}, turns : 0 .. HoldSkip - 1,
              alerted : BOOLEAN]
Reading   == [next : Nat, lines : Seq(Lines), cut : Nat]

\* The types of BridgeTypeOK, with the shape of the variables it leaves out.
ServerTypes == room \in [Room -> Seq(Entry)] /\ floor \in [Room -> Nat]
InboxTypes  == /\ written \in 0 .. Len(To)
               /\ box \in Seq(Lines) /\ Len(box) <= written
               /\ \A j \in 1 .. Len(box) : box[j] <= written
StateTypes  == mem \in StateFile /\ disk \in StateFile
LoopTypes   == /\ pc \in {"down", "sync", "rooms", "save", "read", "post"}
               /\ DOMAIN joined \subseteq Room
               /\ \A r \in DOMAIN joined : joined[r] \in [from : Nat, upto : Nat]
               /\ queue \subseteq Room \X Nat
               /\ line \in Reading
OutageTypes == /\ fails \in 0 .. SyncAlertAfter + SyncAlertSeconds /\ alerted \in BOOLEAN
               /\ hold \in Marker
PastTypes   == reported \subseteq Room \X Nat /\ high \in Cursor /\ base \in Cursor

Types == ServerTypes /\ InboxTypes /\ StateTypes /\ LoopTypes /\ OutageTypes /\ PastTypes

\* A cursor is not ahead of what it counts.
Within(s) ==
  /\ s.offset <= written
  /\ \A r \in Room : /\ s.last[r] <= Len(room[r])
                     /\ s.since # None => /\ s.last[r] <= s.since[r]
                                          /\ s.since[r] <= Len(room[r])

WithinInv == /\ Within(mem) /\ Within(disk)
             /\ \A r \in Room : floor[r] <= Len(room[r])

\* What is left of a response begins behind the last event of its room; what is
\* about to be relayed lies between what was relayed and that event.
RoomsInv ==
  /\ pc \in {"rooms", "save"} => mem.since # None
  /\ pc # "rooms" => queue = {} /\ DOMAIN joined = {}
  /\ \A r \in DOMAIN joined : /\ mem.last[r] < joined[r].from
                              /\ joined[r].from <= joined[r].upto
                              /\ joined[r].upto = mem.since[r]
  /\ \A q \in queue : /\ q[2] \in Pilots(q[1])
                      /\ high[q[1]] < q[2] /\ q[2] <= mem.last[q[1]]
  /\ \A p, q \in queue : p[1] = q[1]
  /\ \A r \in Room : high[r] <= mem.last[r]
  /\ \A m \in reported : m[2] < mem.last[m[1]]

\* Event e of r is in the mesh, or somebody was told that it is not, or that failed.
Accounted(r, e) == <<r, e>> \in relayed \cup told \cup unheard

\* What the cursor in memory has passed is accounted for, but for what the
\* response under way has yet to bring.
AccountInv ==
  /\ disk.since = None => mem.since = None \/ pc = "save"
  /\ disk.since # None =>
       /\ mem.since # None
       /\ \A r \in Room : \A e \in Pilots(r) :
            /\ base[r] < e /\ e <= disk.since[r] => Accounted(r, e)
            /\ base[r] < e /\ e <= mem.since[r] =>
                 \/ Accounted(r, e)
                 \/ r \in DOMAIN joined /\ joined[r].from <= e
                 \/ <<r, e>> \in queue

\* Messages that need nothing more, and how far the lines of the inbox are such.
Done   == {i \in Lines : Handled(i)}
Passed == {n \in Nat : \A j \in 1 .. n : j <= Len(box) /\ box[j] \in Done}

\* Nor do the lines before an offset, or before the one that is next of those that
\* were read, which are in the inbox still.
PostInv ==
  /\ ~ shifted => {mem.offset, disk.offset} \subseteq Passed
  /\ pc = "post" => /\ 1 <= line.next /\ line.next <= Len(line.lines) + 1
                    /\ Len(line.lines) <= written
  /\ pc = "post" /\ ~ shifted =>
       /\ Len(line.lines) <= Len(box)
       /\ \A j \in 1 .. Len(line.lines) : line.lines[j] = box[j]
       /\ line.next - 1 \in Passed

BridgeInv == Types /\ WithinInv /\ RoomsInv /\ AccountInv /\ PostInv

-----------------------------------------------------------------------------
\* The lines of the inbox keep their places.
BoxGrown == \A j \in 1 .. Len(box) : j <= Len(box') /\ box'[j] = box[j]

\* What was passed stays so.
PastGrown == /\ dropped \subseteq dropped' /\ old \subseteq old'
             /\ halved \subseteq halved' /\ bad \subseteq bad'

\* Rooms only grow.
Grown == \A r \in Room : /\ Len(room[r]) <= Len(room'[r])
                         /\ \A e \in 1 .. Len(room[r]) : room'[r][e] = room[r][e]

LEMMA LinesAre == /\ Lines = 1 .. Len(To) /\ Len(To) \in Nat
                  /\ \A i \in Lines : To[i] \in Room \cup {None}
BY BridgeAssumption DEF Lines

LEMMA AppendGrows ==
  ASSUME room \in [Room -> Seq(Entry)], NEW r \in Room, NEW x \in Entry,
         room' = [room EXCEPT ![r] = Append(@, x)]
  PROVE  /\ room' \in [Room -> Seq(Entry)] /\ Grown
         /\ Len(room'[r]) = Len(room[r]) + 1
         /\ room'[r][Len(room[r]) + 1] = x
<1>1. room[r] \in Seq(Entry)
  OBVIOUS
<1>2. /\ Append(room[r], x) \in Seq(Entry)
      /\ Len(Append(room[r], x)) = Len(room[r]) + 1
      /\ \A i \in 1 .. Len(room[r]) : Append(room[r], x)[i] = room[r][i]
      /\ Append(room[r], x)[Len(room[r]) + 1] = x
  BY <1>1, AppendProperties
<1> DEFINE longer == Append(room[r], x)
<1>3. room' = [room EXCEPT ![r] = longer]
  OBVIOUS
<1>4. longer \in Seq(Entry) /\ Len(longer) = Len(room[r]) + 1
      /\ (\A i \in 1 .. Len(room[r]) : longer[i] = room[r][i])
      /\ longer[Len(room[r]) + 1] = x
  BY <1>2
<1>5. \A q \in Room : Len(room[q]) \in Nat
  OBVIOUS
<1> HIDE DEF longer
<1>6. room' \in [Room -> Seq(Entry)] /\ room'[r] = longer /\ \A q \in Room \ {r} : room'[q] = room[q]
  BY <1>3, <1>4
<1>7. Grown
  BY <1>4, <1>5, <1>6 DEF Grown
<1> QED  BY <1>4, <1>6, <1>7

LEMMA SameGrows == ASSUME room \in [Room -> Seq(Entry)], room' = room PROVE Grown
<1>1. \A q \in Room : Len(room[q]) \in Nat
  OBVIOUS
<1> QED  BY <1>1 DEF Grown

\* What is in a room stays there.
LEMMA PostedStays ==
  ASSUME ServerTypes, Grown, ServerTypes', NEW r \in Room, NEW id, NEW i, Posted(r, id, i)
  PROVE  Posted(r, id, i)'
<1>1. PICK e \in 1 .. Len(room[r]) : room[r][e] = <<id, i>>
  BY DEF Posted, Events
<1>2. Len(room[r]) \in Nat /\ Len(room'[r]) \in Nat /\ Len(room[r]) <= Len(room'[r])
  BY DEF ServerTypes, Grown
<1>3. e \in 1 .. Len(room'[r]) /\ room'[r][e] = <<id, i>>
  BY <1>1, <1>2 DEF Grown
<1> QED  BY <1>3 DEF Posted, Events

LEMMA PilotsStay ==
  ASSUME ServerTypes, Grown, ServerTypes', NEW r \in Room
  PROVE  /\ Pilots(r) \subseteq Pilots(r)' /\ Pilots(r) \subseteq Nat /\ Pilots(r)' \subseteq Nat
         /\ \A e \in Pilots(r)' : e <= Len(room[r]) => e \in Pilots(r)
<1>1. Len(room[r]) \in Nat /\ Len(room'[r]) \in Nat /\ Len(room[r]) <= Len(room'[r])
  BY DEF ServerTypes, Grown
<1> QED  BY <1>1 DEF Grown, Pilots, Events

\* A line that is handled stays so.
LEMMA HandledStays ==
  ASSUME ServerTypes, Grown, ServerTypes', PastGrown, NEW i \in Lines, Handled(i)
  PROVE  Handled(i)'
BY LinesAre, PostedStays DEF Handled, PastGrown

LEMMA PassedStays ==
  ASSUME ServerTypes, ServerTypes', Grown, PastGrown, BoxGrown, InboxTypes
  PROVE  Done \subseteq Done' /\ Passed \subseteq Passed'
<1>1. Done \subseteq Done'
  BY HandledStays DEF Done
<1>2. ASSUME NEW n \in Passed PROVE n \in Passed'
  <2>1. ASSUME NEW j \in 1 .. n PROVE j <= Len(box') /\ box'[j] \in Done'
    <3>1. j \in 1 .. Len(box) /\ box[j] \in Done
      BY DEF Passed, InboxTypes
    <3> QED  BY <1>1, <3>1 DEF BoxGrown
  <2> QED  BY <2>1 DEF Passed
<1> QED  BY <1>1, <1>2

-----------------------------------------------------------------------------
\* The parts of the invariant where a step does not concern them.
LEMMA WithinStays ==
  ASSUME Types, Types', Grown, WithinInv, UNCHANGED <<floor, mem, disk>>, written <= written'
  PROVE  WithinInv'
<1>1. \A r \in Room : /\ Len(room[r]) \in Nat /\ Len(room'[r]) \in Nat
                      /\ Len(room[r]) <= Len(room'[r])
  BY DEF Types, ServerTypes, Grown
<1>2. written \in Nat /\ written' \in Nat
  BY LinesAre DEF Types, InboxTypes
<1>3. ASSUME NEW s \in StateFile, Within(s) PROVE Within(s)'
  <2>1. s.offset \in Nat /\ s.offset <= written'
    BY <1>2, <1>3 DEF Within, StateFile
  <2>2. ASSUME NEW r \in Room
        PROVE  /\ s.last[r] <= Len(room'[r])
               /\ s.since # None => s.last[r] <= s.since[r] /\ s.since[r] <= Len(room'[r])
    <3>1. s.last[r] \in Nat /\ (s.since # None => s.since[r] \in Nat)
      BY DEF StateFile, Cursor
    <3> QED  BY <1>1, <1>3, <3>1 DEF Within
  <2> QED  BY <2>1, <2>2 DEF Within
<1>4. Within(mem)' /\ Within(disk)'
  BY <1>3 DEF Types, StateTypes, WithinInv, Within
<1>5. \A r \in Room : floor'[r] <= Len(room'[r])
  BY <1>1 DEF WithinInv, Types, ServerTypes
<1> QED  BY <1>4, <1>5 DEF WithinInv

LEMMA RoomsStay ==
  ASSUME Types, Types', Grown, RoomsInv,
         mem'.since = mem.since, mem'.last = mem.last, UNCHANGED <<joined, queue, high, reported>>,
         pc' = "rooms" <=> pc = "rooms", pc' = "save" => pc = "save"
  PROVE  RoomsInv'
<1>1. \A q \in queue : q[1] \in Room /\ q[2] \in Pilots(q[1])'
  BY PilotsStay DEF RoomsInv, Types, LoopTypes
<1> QED  BY <1>1 DEF RoomsInv

LEMMA AccountStays ==
  ASSUME Types, Types', Grown, WithinInv, AccountInv,
         mem'.since = mem.since, UNCHANGED <<disk, joined, queue, base>>,
         pc' = pc \/ (pc # "save"),
         relayed \subseteq relayed', told \subseteq told', unheard \subseteq unheard'
  PROVE  AccountInv'
<1>1. disk'.since = None => mem'.since = None \/ pc' = "save"
  BY DEF AccountInv
<1>2. ASSUME disk.since # None, NEW r \in Room, NEW e \in Pilots(r)'
      PROVE  /\ base'[r] < e /\ e <= disk'.since[r] => Accounted(r, e)'
             /\ base'[r] < e /\ e <= mem'.since[r] =>
                  \/ Accounted(r, e)'
                  \/ r \in DOMAIN joined' /\ joined'[r].from <= e
                  \/ <<r, e>> \in queue'
  <2>1. mem.since # None /\ Len(room[r]) \in Nat /\ e \in Nat
    BY <1>2, PilotsStay DEF AccountInv, Types, ServerTypes
  <2>2. disk.since[r] \in Nat /\ mem.since[r] \in Nat
    BY <1>2, <2>1 DEF Types, StateTypes, StateFile, Cursor
  <2>3. disk.since[r] <= Len(room[r]) /\ mem.since[r] <= Len(room[r])
    BY <1>2, <2>1 DEF WithinInv, Within
  <2>4. e <= disk.since[r] \/ e <= mem.since[r] => e \in Pilots(r)
    BY <2>1, <2>2, <2>3, PilotsStay DEF Types
  <2>5. Accounted(r, e) => Accounted(r, e)'
    BY DEF Accounted
  <2> QED  BY <1>2, <2>4, <2>5 DEF AccountInv
<1> QED  BY <1>1, <1>2 DEF AccountInv

LEMMA PostsStay ==
  ASSUME Types, Types', Grown, BoxGrown, PastGrown, PostInv, written <= written',
         mem'.offset = mem.offset, disk'.offset \in {mem.offset, disk.offset},
         UNCHANGED <<line, shifted>>, pc' = "post" => pc = "post"
  PROVE  PostInv'
<1>1. /\ written \in Nat /\ written' \in Nat /\ Len(box) \in Nat /\ Len(box') \in Nat
      /\ line.next \in Nat /\ Len(line.lines) \in Nat
  BY LinesAre DEF Types, InboxTypes, LoopTypes, Reading
<1>2. Passed \subseteq Passed'
  BY PassedStays DEF Types
<1>3. ~ shifted' => {mem'.offset, disk'.offset} \subseteq Passed'
  BY <1>2 DEF PostInv
<1>4. ASSUME pc' = "post"
      PROVE  /\ 1 <= line'.next /\ line'.next <= Len(line'.lines) + 1
             /\ Len(line'.lines) <= written'
  BY <1>1, <1>4 DEF PostInv
<1>5. ASSUME pc' = "post", ~ shifted'
      PROVE  /\ Len(line'.lines) <= Len(box')
             /\ \A j \in 1 .. Len(line'.lines) : line'.lines[j] = box'[j]
             /\ line'.next - 1 \in Passed'
  <2>1. /\ Len(line.lines) <= Len(box) /\ line.next - 1 \in Passed
        /\ \A j \in 1 .. Len(line.lines) : line.lines[j] = box[j]
    BY <1>5 DEF PostInv
  <2>2. \A j \in 1 .. Len(line.lines) : j \in 1 .. Len(box)
    BY <1>1, <2>1
  <2>3. Len(line.lines) <= Len(box')
    <3>1. CASE Len(line.lines) = 0
      BY <1>1, <3>1
    <3>2. CASE Len(line.lines) # 0
      BY <1>1, <2>2, <3>2 DEF BoxGrown
    <3> QED  BY <3>1, <3>2
  <2>4. \A j \in 1 .. Len(line.lines) : line.lines[j] = box'[j]
    BY <2>1, <2>2 DEF BoxGrown
  <2> QED  BY <1>2, <2>1, <2>3, <2>4
<1> QED  BY <1>3, <1>4, <1>5 DEF PostInv

-----------------------------------------------------------------------------
\* What the actions have in common about the numbers they compare.
LEMMA Numbers ==
  ASSUME BridgeInv
  PROVE  /\ \A r \in Room : /\ Len(room[r]) \in Nat /\ floor[r] \in Nat
                            /\ mem.last[r] \in Nat /\ disk.last[r] \in Nat
                            /\ high[r] \in Nat /\ base[r] \in Nat
                            /\ mem.since # None => mem.since[r] \in Nat
                            /\ disk.since # None => disk.since[r] \in Nat
         /\ written \in Nat /\ mem.offset \in Nat /\ disk.offset \in Nat
         /\ Len(box) \in Nat /\ Len(box) <= written /\ box \in Seq(Lines)
         /\ line.next \in Nat /\ line.lines \in Seq(Lines) /\ Len(line.lines) \in Nat
         /\ HoldSkip \in Nat \ {0} /\ HoldSkip - 1 \in Nat
         /\ Standing \in Cursor /\ Standing # None
         /\ \A r \in Room : Standing[r] = Len(room[r])
<1>1. \A r \in Room : Len(room[r]) \in Nat
  BY DEF BridgeInv, Types, ServerTypes
<1>2. written \in Nat
  BY LinesAre DEF BridgeInv, Types, InboxTypes
<1>3. HoldSkip \in Nat \ {0}
  BY BridgeAssumption
<1>4. Standing \in Cursor
  BY <1>1 DEF Standing, Cursor
<1>5. Standing # None
  BY <1>4, BridgeAssumption DEF Cursor
<1>6. \A r \in Room : Standing[r] = Len(room[r])
  BY DEF Standing
<1>7. \A r \in Room : floor[r] \in Nat /\ high[r] \in Nat /\ base[r] \in Nat
  BY DEF BridgeInv, Types, ServerTypes, Cursor, PastTypes
<1>8. \A s \in {mem, disk} :
        /\ s.offset \in Nat
        /\ \A r \in Room : s.last[r] \in Nat /\ (s.since # None => s.since[r] \in Nat)
  BY DEF BridgeInv, Types, StateTypes, StateFile, Cursor
<1>9. line.next \in Nat /\ line.lines \in Seq(Lines) /\ Len(line.lines) \in Nat
  BY DEF BridgeInv, Types, LoopTypes, Reading
<1>10. Len(box) \in Nat /\ Len(box) <= written /\ box \in Seq(Lines)
  BY DEF BridgeInv, Types, InboxTypes
<1> QED  BY <1>1, <1>2, <1>3, <1>4, <1>5, <1>6, <1>7, <1>8, <1>9, <1>10

LEMMA PilotPostsHolds == ASSUME BridgeInv, NEW r \in Room, PilotPosts(r) PROVE BridgeInv'
<1> USE DEF BridgeInv
<1> DEFINE x == <<"pilot", 0>>
<1>1. x \in Entry
  BY DEF Entry
<1>2. room \in [Room -> Seq(Entry)] /\ room' = [room EXCEPT ![r] = Append(@, x)]
  BY DEF PilotPosts, Types, ServerTypes
<1>3. room' \in [Room -> Seq(Entry)] /\ Grown
  BY <1>1, <1>2, AppendGrows
<1>4. Types'
  BY <1>3 DEF PilotPosts, Types, ServerTypes, InboxTypes, StateTypes, LoopTypes, OutageTypes,
    PastTypes,
              inbox, loop, outage, history, events, replies
<1>5. WithinInv'
  BY <1>3, <1>4, Numbers, WithinStays DEF PilotPosts, inbox
<1>6. RoomsInv'
  BY <1>3, <1>4, RoomsStay DEF PilotPosts, loop, history, events, replies
<1>7. AccountInv'
  BY <1>3, <1>4, AccountStays DEF PilotPosts, loop, history, events, replies
<1>8. BoxGrown /\ PastGrown /\ shifted' = shifted /\ written' = written
  BY DEF PilotPosts, inbox, history, events, replies, BoxGrown, PastGrown
<1>9. PostInv'
  BY <1>3, <1>4, <1>8, Numbers, PostsStay DEF PilotPosts, loop, history, events, replies
<1> QED  BY <1>4, <1>5, <1>6, <1>7, <1>9

LEMMA AgentSendsHolds == ASSUME BridgeInv, NEW how, AgentSends(how) PROVE BridgeInv'
<1> USE DEF BridgeInv
<1> DEFINE i == written + 1
<1>1. /\ i \in Lines /\ i \in 0 .. Len(To) /\ written <= i
  BY Numbers, LinesAre DEF AgentSends
<1>2. /\ written' = i /\ (box' = box \/ box' = Append(box, i))
      /\ UNCHANGED <<room, floor, mem, disk, kept, pc, joined, queue, line, fails, alerted, hold>>
      /\ UNCHANGED <<reported, relayed, told, unheard, high, base, dropped, halved, old, shifted>>
      /\ bad \subseteq bad'
  BY DEF AgentSends, server, loop, outage, history, events, replies
<1>3. box' \in Seq(Lines) /\ Len(box') <= written' /\ BoxGrown
      /\ \A j \in 1 .. Len(box') : box'[j] <= written'
  <2>1. /\ box \in Seq(Lines) /\ Len(box) \in Nat /\ Len(box) <= written /\ written \in Nat
        /\ \A j \in 1 .. Len(box) : box[j] <= written
    BY Numbers DEF Types, InboxTypes
  <2>2. \A j \in 1 .. Len(box) : box[j] \in Nat
    BY <2>1, LinesAre
  <2>3. CASE box' = box
    BY <1>2, <2>1, <2>2, <2>3 DEF BoxGrown
  <2>4. CASE box' = Append(box, i)
    <3>1. /\ Append(box, i) \in Seq(Lines) /\ Len(Append(box, i)) = Len(box) + 1
          /\ \A j \in 1 .. Len(box) : Append(box, i)[j] = box[j]
          /\ Append(box, i)[Len(box) + 1] = i
      BY <1>1, <2>1, AppendProperties
    <3>2. BoxGrown
      BY <2>1, <2>4, <3>1 DEF BoxGrown
    <3>3. \A j \in 1 .. Len(box') : j \in 1 .. Len(box) \/ j = Len(box) + 1
      BY <2>1, <2>4, <3>1
    <3>4. \A j \in 1 .. Len(box') : box'[j] <= written'
      BY <1>2, <2>1, <2>2, <2>4, <3>1, <3>3
    <3> QED  BY <1>2, <2>1, <2>4, <3>1, <3>2, <3>4
  <2> QED  BY <1>2, <2>3, <2>4
<1>4. Types'
  BY <1>1, <1>2, <1>3 DEF Types, ServerTypes, InboxTypes, StateTypes, LoopTypes, OutageTypes,
    PastTypes
<1>5. Grown /\ PastGrown
  BY <1>2, SameGrows DEF Types, ServerTypes, PastGrown
<1>6. WithinInv'
  BY <1>1, <1>2, <1>4, <1>5, WithinStays
<1>7. RoomsInv' /\ AccountInv'
  BY <1>2, <1>4, <1>5, RoomsStay, AccountStays
<1>8. PostInv'
  BY <1>1, <1>2, <1>3, <1>4, <1>5, PostsStay
<1> QED  BY <1>4, <1>6, <1>7, <1>8

\* Once lines have been left out, nothing is promised of those that stay.
LEMMA RewriteHolds == ASSUME BridgeInv, NEW k \in 0 .. Len(box), Rewrite(k) PROVE BridgeInv'
<1> USE DEF BridgeInv
<1>1. /\ shifted' = TRUE
      /\ UNCHANGED <<room, floor, written, mem, disk, kept, pc, joined, queue, line, fails,
          alerted>>
      /\ UNCHANGED <<hold, reported, relayed, told, unheard, high, base>>
  BY DEF Rewrite, server, loop, outage, events
<1>2. PICK at \in [1 .. k -> {j \in 1 .. Len(box) : box[j] \notin bad}] :
        box' = [j \in 1 .. k |-> box[at[j]]]
  BY DEF Rewrite
<1>3. k \in Nat /\ k <= Len(box) /\ Len(box) <= written /\ written \in Nat
  BY Numbers
<1>4. \A j \in 1 .. k : at[j] \in 1 .. Len(box)
  OBVIOUS
<1>5. \A j \in 1 .. Len(box) : box[j] \in Lines /\ box[j] <= written
  BY DEF Types, InboxTypes
<1>6. box' \in Seq(Lines) /\ Len(box') = k /\ \A j \in 1 .. k : box'[j] = box[at[j]]
  BY <1>2, <1>3, <1>4, <1>5, IsASeq
<1>7. InboxTypes'
  BY <1>1, <1>3, <1>4, <1>5, <1>6 DEF Types, InboxTypes
<1>8. Types'
  BY <1>1, <1>7 DEF Types, ServerTypes, StateTypes, LoopTypes, OutageTypes, PastTypes
<1>9. Grown
  BY <1>1, SameGrows DEF Types, ServerTypes
<1>10. WithinInv' /\ RoomsInv' /\ AccountInv'
  BY <1>1, <1>3, <1>8, <1>9, WithinStays, RoomsStay, AccountStays
<1>11. PostInv'
  BY <1>1 DEF PostInv
<1> QED  BY <1>8, <1>10, <1>11

LEMMA PurgeHolds == ASSUME BridgeInv, NEW r \in Room, Purge(r) PROVE BridgeInv'
<1> USE DEF BridgeInv
<1>1. Window \in Nat /\ Len(room[r]) \in Nat /\ floor[r] \in Nat /\ floor[r] + Window < Len(room[r])
  BY Numbers, BridgeAssumption DEF Purge
<1>2. Len(room[r]) - Window \in Nat /\ Len(room[r]) - Window <= Len(room[r])
  BY <1>1
<1>3. floor' \in [Room -> Nat] /\ \A q \in Room : floor'[q] <= Len(room[q])
  BY <1>2 DEF Purge, Types, ServerTypes, WithinInv
<1>4. Types'
  BY <1>3 DEF Purge, Types, ServerTypes, InboxTypes, StateTypes, LoopTypes, OutageTypes, PastTypes,
              inbox, loop, outage, history, events, replies
<1>5. Grown
  BY SameGrows DEF Purge, Types, ServerTypes
<1>6. WithinInv'
  BY <1>3 DEF Purge, WithinInv, Within, inbox
<1>7. RoomsInv'
  BY <1>4, <1>5, RoomsStay DEF Purge, loop, history, events, replies
<1>8. AccountInv'
  BY <1>4, <1>5, AccountStays DEF Purge, loop, history, events, replies
<1>9. BoxGrown /\ PastGrown /\ shifted' = shifted /\ written' = written
  BY DEF Purge, inbox, history, events, replies, BoxGrown, PastGrown
<1>10. PostInv'
  BY <1>4, <1>5, <1>9, Numbers, PostsStay DEF Purge, loop, history, events, replies
<1> QED  BY <1>4, <1>6, <1>7, <1>8, <1>10

\* A new life of the service knows what the state file says.
LEMMA DownHolds ==
  ASSUME BridgeInv, NEW saved \in {disk, Fresh}, Down(saved)
  PROVE  BridgeInv'
<1> USE DEF BridgeInv
<1>1. /\ mem' = saved /\ disk' = saved /\ pc' = "down" /\ joined' = Nowhere /\ queue' = {}
      /\ line' = NoLine /\ fails' = 0 /\ alerted' = FALSE /\ hold' = NoHold /\ reported' = {}
      /\ high' = [q \in Room |-> 0]
      /\ UNCHANGED <<room, floor, written, box, bad, relayed, told, unheard, base>>
      /\ UNCHANGED <<dropped, halved, old, shifted>>
  BY DEF Down, server, inbox, replies
<1>2. NoHold \in Marker /\ NoLine \in Reading /\ [q \in Room |-> 0] \in Cursor
  BY Numbers DEF NoHold, NoLine, Cursor, Marker, Reading
<1>3. 0 \in 0 .. SyncAlertAfter + SyncAlertSeconds
  BY BridgeAssumption
<1>4. Fresh \in StateFile /\ Fresh.offset = 0 /\ Fresh.since = None
      /\ \A r \in Room : Fresh.last[r] = 0
  BY DEF Fresh, StateFile, Cursor
<1>5. saved \in StateFile
  BY <1>4 DEF Types, StateTypes
<1>6. Types'
  BY <1>1, <1>2, <1>3, <1>5
     DEF Types, ServerTypes, InboxTypes, StateTypes, LoopTypes, OutageTypes, PastTypes, Nowhere
<1>7. Within(saved)
  <2>1. Within(Fresh)
    BY <1>4, Numbers DEF Within
  <2> QED  BY <2>1 DEF WithinInv
<1>8. WithinInv'
  BY <1>1, <1>7 DEF WithinInv, Within
<1>9. RoomsInv'
  BY <1>1, <1>5, Numbers DEF RoomsInv, Nowhere, StateFile, Cursor
<1>10. AccountInv'
  <2>1. CASE saved = Fresh
    BY <1>1, <1>4, <2>1 DEF AccountInv
  <2>2. CASE saved = disk
    BY <1>1, <2>2 DEF AccountInv, Accounted, Pilots, Events, Nowhere
  <2> QED  BY <2>1, <2>2
<1>11. PostInv'
  <2>1. ~ shifted => saved.offset \in Passed
    BY <1>4 DEF PostInv, Passed
  <2>2. Grown /\ BoxGrown /\ PastGrown
    BY <1>1, SameGrows DEF Types, ServerTypes, BoxGrown, PastGrown
  <2>3. Passed \subseteq Passed'
    BY <1>6, <2>2, PassedStays DEF Types
  <2> QED  BY <1>1, <2>1, <2>3 DEF PostInv
<1> QED  BY <1>6, <1>8, <1>9, <1>10, <1>11

LEMMA CrashHolds == ASSUME BridgeInv, NEW lost \in BOOLEAN, Crash(lost) PROVE BridgeInv'
<1>1. CASE lost
  BY <1>1, DownHolds DEF Crash
<1>2. CASE ~ lost
  BY <1>2, DownHolds DEF Crash
<1> QED  BY <1>1, <1>2

LEMMA ReadRaisesHolds == ASSUME BridgeInv, ReadRaises PROVE BridgeInv'
BY DownHolds DEF ReadRaises

\* Without a state file the loop starts behind what is in the inbox.
LEMMA StartUpHolds == ASSUME BridgeInv, NEW k \in 0 .. Len(box), StartUp(k) PROVE BridgeInv'
<1> USE DEF BridgeInv
<1> DEFINE new == [mem EXCEPT !.offset = k]
<1>1. /\ pc = "down" /\ pc' = "sync"
      /\ UNCHANGED <<room, floor, written, box, bad, disk, joined, queue, line, fails, alerted>>
      /\ UNCHANGED <<hold, reported, relayed, told, unheard, high, base, dropped, halved, shifted>>
  BY DEF StartUp, server, inbox, outage, events
<1>2. k \in Nat /\ k <= Len(box) /\ k <= written
  BY Numbers
<1>3. \/ mem' = mem /\ old' = old
      \/ mem' = new /\ old' = old \cup {box[j] : j \in 1 .. k}
  BY DEF StartUp
<1>4. /\ new \in StateFile /\ new.offset = k /\ new.since = mem.since /\ new.last = mem.last
  BY <1>2 DEF Types, StateTypes, StateFile
<1> HIDE DEF new
<1>5. Types'
  BY <1>1, <1>3, <1>4
     DEF Types, ServerTypes, InboxTypes, StateTypes, LoopTypes, OutageTypes, PastTypes
<1>6. Grown /\ BoxGrown /\ PastGrown
  BY <1>1, <1>3, SameGrows DEF Types, ServerTypes, BoxGrown, PastGrown
<1>7. mem'.since = mem.since /\ mem'.last = mem.last
  BY <1>3, <1>4
<1>8. WithinInv'
  <2>1. Within(new)
    BY <1>2, <1>4 DEF WithinInv, Within
  <2> QED  BY <1>1, <1>3, <2>1 DEF WithinInv, Within
<1>9. RoomsInv' /\ AccountInv'
  BY <1>1, <1>5, <1>6, <1>7, RoomsStay, AccountStays
<1>10. PostInv'
  <2>1. Done \subseteq Done' /\ Passed \subseteq Passed'
    BY <1>5, <1>6, PassedStays DEF Types
  <2>2. ~ shifted => disk'.offset \in Passed' /\ mem.offset \in Passed'
    BY <1>1, <2>1 DEF PostInv
  <2>3. CASE mem' = mem
    BY <1>1, <2>2, <2>3 DEF PostInv
  <2>4. CASE mem' = new /\ old' = old \cup {box[j] : j \in 1 .. k}
    <3>1. ASSUME NEW j \in 1 .. k PROVE box[j] \in Lines /\ Handled(box[j])'
      <4>1. PICK i : i = box[j]
        OBVIOUS
      <4>2. i \in Lines /\ i \in old'
        BY <1>2, <2>4, <4>1, Numbers
      <4>3. box' = box
        BY <1>1
      <4> QED  BY <4>1, <4>2, <4>3 DEF Handled
    <3>2. \A j \in 1 .. k : j <= Len(box') /\ box'[j] \in Done'
      BY <1>1, <1>2, <3>1, Numbers DEF Done
    <3>3. k \in Passed'
      BY <1>2, <3>2 DEF Passed
    <3> QED  BY <1>1, <1>4, <2>2, <2>4, <3>3 DEF PostInv
  <2> QED  BY <1>3, <2>3, <2>4
<1> QED  BY <1>5, <1>8, <1>9, <1>10

LEMMA SyncFailHolds == ASSUME BridgeInv, SyncFail PROVE BridgeInv'
<1> USE DEF BridgeInv
<1>1. fails' \in 0 .. SyncAlertAfter + SyncAlertSeconds
  <2>1. SyncAlertAfter + SyncAlertSeconds \in Nat
    BY BridgeAssumption
  <2>2. fails \in 0 .. SyncAlertAfter + SyncAlertSeconds
    BY DEF Types, OutageTypes
  <2> QED  BY <2>1, <2>2 DEF SyncFail
<1>2. alerted' \in BOOLEAN
  BY DEF SyncFail
<1>3. Types'
  BY <1>1, <1>2 DEF SyncFail, Types, ServerTypes, InboxTypes, StateTypes, LoopTypes, OutageTypes,
    PastTypes,
              server, inbox, history, events, replies
<1>4. Grown
  BY SameGrows DEF SyncFail, server, inbox, Types, ServerTypes
<1>5. WithinInv'
  BY <1>3, <1>4, Numbers, WithinStays DEF SyncFail, server, inbox
<1>6. RoomsInv'
  BY <1>3, <1>4, RoomsStay DEF SyncFail, history, events, replies
<1>7. AccountInv'
  BY <1>3, <1>4, AccountStays DEF SyncFail, history, events, replies
<1>8. BoxGrown /\ PastGrown /\ shifted' = shifted /\ written' = written
  BY DEF SyncFail, inbox, history, events, replies, BoxGrown, PastGrown
<1>9. PostInv'
  BY <1>3, <1>4, <1>8, Numbers, PostsStay DEF SyncFail, history, events, replies
<1> QED  BY <1>3, <1>5, <1>6, <1>7, <1>9

\* Where nothing was saved, the first cursor leaves nothing behind.
LEMMA SyncFirstHolds == ASSUME BridgeInv, SyncFirst PROVE BridgeInv'
<1> USE DEF BridgeInv
<1> DEFINE new == [mem EXCEPT !.since = Standing, !.last = Standing]
<1>1. /\ new \in StateFile /\ new.since = Standing /\ new.last = Standing
      /\ new.offset = mem.offset
  BY Numbers DEF Types, StateTypes, StateFile
<1>2. mem' = new
  BY DEF SyncFirst
<1> HIDE DEF new
<1>3. 0 \in 0 .. SyncAlertAfter + SyncAlertSeconds
  BY BridgeAssumption
<1>4. Types'
  BY <1>1, <1>2, <1>3 DEF SyncFirst, Types, ServerTypes, InboxTypes, StateTypes, LoopTypes,
    OutageTypes, PastTypes,
              server, inbox, history, events, replies
<1>5. Grown
  BY SameGrows DEF SyncFirst, server, inbox, Types, ServerTypes
<1>6. \A r \in Room : mem.last[r] <= mem'.last[r]
  BY <1>1, <1>2, Numbers DEF WithinInv, Within
<1>7. WithinInv'
  BY <1>1, <1>2, Numbers DEF SyncFirst, WithinInv, Within, server, inbox
<1>8. RoomsInv'
  <2>1. queue' = {} /\ DOMAIN joined' = {} /\ pc' # "rooms" /\ mem'.since # None
    BY <1>1, <1>2, Numbers DEF SyncFirst, RoomsInv
  <2>2. \A r \in Room : high'[r] <= mem'.last[r]
    BY <1>1, <1>2, <1>6, Numbers DEF SyncFirst, RoomsInv, history, events, replies
  <2>3. ASSUME NEW m \in reported' PROVE m[2] < mem'.last[m[1]]
    <3>1. m[1] \in Room /\ m[2] \in Nat /\ m[2] < mem.last[m[1]]
      BY <2>3 DEF SyncFirst, RoomsInv, Types, PastTypes
    <3>2. mem'.last[m[1]] \in Nat /\ mem.last[m[1]] \in Nat
      BY <1>1, <1>2, <3>1, Numbers
    <3> QED  BY <1>6, <3>1, <3>2
  <2> QED  BY <2>1, <2>2, <2>3 DEF RoomsInv
<1>9. AccountInv'
  BY DEF SyncFirst, AccountInv, Accounted, Pilots, Events, server, inbox, history, events, replies
<1>10. BoxGrown /\ PastGrown /\ shifted' = shifted /\ written' = written
  BY DEF SyncFirst, inbox, history, events, replies, BoxGrown, PastGrown
<1>11. PostInv'
  BY <1>1, <1>2, <1>4, <1>5, <1>10, Numbers, PostsStay DEF SyncFirst, history, events, replies
<1> QED  BY <1>4, <1>7, <1>8, <1>9, <1>11

\* The response names every room in which something is new.
LEMMA SyncOkHolds == ASSUME BridgeInv, SyncOk PROVE BridgeInv'
<1> USE DEF BridgeInv
<1> DEFINE new == [mem EXCEPT !.since = Standing]
           some == {q \in Room : mem.since[q] < Len(room[q])}
<1>1. new \in StateFile /\ new.since = Standing /\ new.last = mem.last /\ new.offset = mem.offset
  BY Numbers DEF Types, StateTypes, StateFile
<1>2. mem' = new /\ mem.since # None /\ pc = "sync" /\ pc' = "rooms"
  BY DEF SyncOk
<1>3. /\ DOMAIN joined' = some /\ some \subseteq Room
      /\ \A r \in some : joined'[r] = [from |-> mem.since[r] + 1, upto |-> Len(room[r])]
  BY DEF SyncOk
<1> HIDE DEF new
<1>4. 0 \in 0 .. SyncAlertAfter + SyncAlertSeconds
  BY BridgeAssumption
<1>5. \A r \in some : joined'[r] \in [from : Nat, upto : Nat]
  BY <1>2, <1>3, Numbers
<1>6. Types'
  BY <1>1, <1>2, <1>3, <1>4, <1>5
     DEF SyncOk, Types, ServerTypes, InboxTypes, StateTypes, LoopTypes, OutageTypes, PastTypes,
     server, inbox, history, events, replies
<1>7. Grown
  BY SameGrows DEF SyncOk, server, inbox, Types, ServerTypes
<1>8. WithinInv'
  BY <1>1, <1>2, Numbers DEF SyncOk, WithinInv, Within, server, inbox
<1>9. RoomsInv'
  <2>1. queue' = {} /\ mem'.since # None
    BY <1>1, <1>2, Numbers DEF SyncOk, RoomsInv
  <2>2. ASSUME NEW r \in some
        PROVE  /\ mem'.last[r] < joined'[r].from /\ joined'[r].from <= joined'[r].upto
               /\ joined'[r].upto = mem'.since[r]
    <3>1. mem.last[r] <= mem.since[r] /\ mem.since[r] < Len(room[r])
      BY <1>2 DEF WithinInv, Within
    <3>2. mem.last[r] \in Nat /\ mem.since[r] \in Nat /\ Len(room[r]) \in Nat
      BY <1>2, Numbers
    <3>3. joined'[r].from = mem.since[r] + 1 /\ joined'[r].upto = Len(room[r])
      BY <1>3
    <3>4. mem'.since[r] = Len(room[r]) /\ mem'.last[r] = mem.last[r]
      BY <1>1, <1>2, Numbers
    <3> QED  BY <3>1, <3>2, <3>3, <3>4
  <2> QED  BY <1>1, <1>2, <1>3, <2>1, <2>2 DEF SyncOk, RoomsInv, history, events, replies
<1>10. AccountInv'
  <2>1. disk' = disk /\ room' = room /\ base' = base /\ relayed' = relayed /\ told' = told
      /\ unheard' = unheard
    BY DEF SyncOk, server, inbox, history, events, replies
  <2>2. mem'.since # None
    BY <1>1, <1>2, Numbers
  <2>3. CASE disk.since = None
    BY <1>2, <2>1, <2>3 DEF AccountInv
  <2>4. CASE disk.since # None
    <3> SUFFICES ASSUME NEW r \in Room, NEW e \in Pilots(r)
                 PROVE  /\ base[r] < e /\ e <= disk.since[r] => Accounted(r, e)
                        /\ base[r] < e /\ e <= mem'.since[r] =>
                             \/ Accounted(r, e)
                             \/ r \in DOMAIN joined' /\ joined'[r].from <= e
                             \/ <<r, e>> \in queue'
      BY <2>1, <2>2, <2>4 DEF AccountInv, Accounted, Pilots, Events
    <3>1. queue = {} /\ DOMAIN joined = {}
      BY <1>2 DEF RoomsInv
    <3>2. base[r] < e /\ e <= mem.since[r] => Accounted(r, e)
      BY <2>4, <3>1 DEF AccountInv
    <3>3. e \in Nat /\ e <= Len(room[r]) /\ mem.since[r] \in Nat /\ Len(room[r]) \in Nat
      BY <1>2, Numbers DEF Pilots, Events
    <3>4. ASSUME ~ (e <= mem.since[r]) PROVE r \in DOMAIN joined' /\ joined'[r].from <= e
      BY <1>3, <3>3, <3>4
    <3> QED  BY <2>4, <3>2, <3>4 DEF AccountInv
  <2> QED  BY <2>3, <2>4
<1>11. BoxGrown /\ PastGrown /\ shifted' = shifted /\ written' = written
  BY DEF SyncOk, inbox, history, events, replies, BoxGrown, PastGrown
<1>12. PostInv'
  BY <1>1, <1>2, <1>6, <1>7, <1>11, Numbers, PostsStay DEF SyncOk, history, events, replies
<1> QED  BY <1>6, <1>8, <1>9, <1>10, <1>12

LEMMA RoomsDoneHolds == ASSUME BridgeInv, RoomsDone PROVE BridgeInv'
<1> USE DEF BridgeInv
<1>1. Types'
  BY DEF RoomsDone, Types, ServerTypes, InboxTypes, StateTypes, LoopTypes, OutageTypes, PastTypes,
         server, inbox, outage, history, events, replies
<1>2. Grown
  BY SameGrows DEF RoomsDone, server, inbox, Types, ServerTypes
<1>3. WithinInv'
  BY <1>1, <1>2, Numbers, WithinStays DEF RoomsDone, server, inbox
<1>4. RoomsInv'
  BY DEF RoomsDone, RoomsInv, Pilots, Events, server, inbox, history, events, replies
<1>5. AccountInv'
  BY DEF RoomsDone, AccountInv, Accounted, Pilots, Events, server, inbox, history, events, replies
<1>6. BoxGrown /\ PastGrown /\ shifted' = shifted /\ written' = written
  BY DEF RoomsDone, inbox, history, events, replies, BoxGrown, PastGrown
<1>7. PostInv'
  BY <1>1, <1>2, <1>6, Numbers, PostsStay DEF RoomsDone, history, events, replies
<1> QED  BY <1>1, <1>3, <1>4, <1>5, <1>7

\* A cursor is saved only when nothing before it is left to relay.
LEMMA SaveHolds == ASSUME BridgeInv, Save PROVE BridgeInv'
<1> USE DEF BridgeInv
<1>1. /\ disk' = mem /\ mem' = mem /\ pc = "save" /\ pc' = "read"
      /\ UNCHANGED <<room, floor, written, joined, queue>>
  BY DEF Save, server, inbox
<1>2. mem.since # None
  BY <1>1 DEF RoomsInv
<1>3. base' \in Cursor
  BY <1>2 DEF Save, Types, StateTypes, StateFile, PastTypes
<1>4. Types'
  BY <1>1, <1>3
     DEF Save, Types, ServerTypes, InboxTypes, StateTypes, LoopTypes, OutageTypes, PastTypes, inbox,
         outage
<1>5. Grown
  BY <1>1, SameGrows DEF Types, ServerTypes
<1>6. WithinInv'
  BY <1>1 DEF WithinInv, Within
<1>7. RoomsInv'
  BY <1>1 DEF Save, RoomsInv, Pilots, Events
<1>8. AccountInv'
  <2>1. queue = {} /\ DOMAIN joined = {}
    BY <1>1 DEF RoomsInv
  <2> SUFFICES ASSUME NEW r \in Room, NEW e \in Pilots(r), base'[r] < e, e <= mem.since[r]
               PROVE  Accounted(r, e)
    BY <1>1, <1>2 DEF Save, AccountInv, Accounted, Pilots, Events
  <2>2. e \in Nat /\ mem.since[r] \in Nat
    BY <1>2, Numbers DEF Pilots, Events
  <2>3. disk.since # None /\ base' = base
    BY <2>2 DEF Save
  <2> QED  BY <2>1, <2>3 DEF AccountInv
<1>9. BoxGrown /\ PastGrown /\ shifted' = shifted /\ written' = written
  BY DEF Save, inbox, history, events, replies, BoxGrown, PastGrown
<1>10. PostInv'
  BY <1>1, <1>4, <1>5, <1>9, Numbers, PostsStay DEF Save
<1> QED  BY <1>4, <1>6, <1>7, <1>8, <1>10

-----------------------------------------------------------------------------
\* While the inbox is read, no message of the pilot is on its way.
LEMMA AccountSaved ==
  ASSUME BridgeInv, Types', Grown, pc = "post", mem'.since = mem.since,
         disk' \in {disk, mem'}, UNCHANGED <<joined, queue, base, relayed, told, unheard>>
  PROVE  AccountInv'
<1> USE DEF BridgeInv
<1>1. queue = {} /\ DOMAIN joined = {}
  BY DEF RoomsInv
<1>2. disk.since = None => mem.since = None
  BY DEF AccountInv
<1>3. CASE disk.since = None
  BY <1>2, <1>3 DEF AccountInv
<1>4. CASE disk.since # None
  <2>1. mem.since # None /\ disk'.since # None /\ disk'.since \in {disk.since, mem.since}
    BY <1>4 DEF AccountInv
  <2>2. ASSUME NEW r \in Room, NEW e \in Pilots(r)',
               base[r] < e /\ (e <= disk'.since[r] \/ e <= mem.since[r])
        PROVE  Accounted(r, e)
    <3>1. /\ e \in Nat /\ Len(room[r]) \in Nat /\ disk.since[r] \in Nat /\ mem.since[r] \in Nat
          /\ disk.since[r] <= Len(room[r]) /\ mem.since[r] <= Len(room[r])
      BY <1>4, <2>1, Numbers, PilotsStay DEF WithinInv, Within, Types
    <3>2. e <= disk.since[r] \/ e <= mem.since[r]
      BY <2>1, <2>2
    <3>3. e \in Pilots(r)
      BY <3>1, <3>2, PilotsStay DEF Types
    <3> QED  BY <1>1, <1>4, <2>2, <3>2, <3>3 DEF AccountInv
  <2>3. \A r \in Room : \A e \in Pilots(r) : Accounted(r, e) <=> Accounted(r, e)'
    BY DEF Accounted
  <2>4. \A r \in Room : \A e \in Pilots(r)' : Accounted(r, e) => Accounted(r, e)'
    BY DEF Accounted
  <2> QED  BY <2>1, <2>2, <2>4 DEF AccountInv
<1> QED  BY <1>3, <1>4

LEMMA ReadInboxHolds ==
  ASSUME BridgeInv, NEW k \in 0 .. Len(box), NEW cut \in 0 .. Len(box), NEW glued \in BOOLEAN,
         ReadInbox(k, cut, glued)
  PROVE  BridgeInv'
<1> USE DEF BridgeInv
<1> DEFINE seen == Seen(k, cut, glued)
<1>1. k \in Nat /\ k <= Len(box) /\ k <= written /\ cut \in Nat /\ (glued => 0 < cut /\ cut < k)
  BY Numbers DEF ReadInbox
<1>2. /\ UNCHANGED <<room, floor, written, box, bad, disk, joined, queue, fails, alerted, hold>>
      /\ UNCHANGED <<reported, relayed, told, unheard, high, base, dropped, halved, old>>
      /\ pc = "read" /\ shifted' = (shifted \/ glued)
  BY DEF ReadInbox, server, inbox, outage, events
<1>3. /\ seen \in Seq(Lines) /\ Len(seen) \in Nat /\ Len(seen) <= k
      /\ ~ glued => Len(seen) = k /\ \A j \in 1 .. k : seen[j] = box[j]
  <2> DEFINE n     == IF glued THEN k - 1 ELSE k
             at(j) == IF glued /\ j > cut THEN j + 1 ELSE j
  <2>1. n \in Nat /\ n <= k /\ (~ glued => n = k)
    BY <1>1
  <2>2. \A j \in 1 .. n : at(j) \in 1 .. Len(box)
    BY <1>1, Numbers
  <2>3. \A j \in 1 .. n : box[at(j)] \in Lines
    BY <2>2, Numbers
  <2>4. seen = [j \in 1 .. n |-> box[at(j)]]
    BY DEF Seen
  <2>5. \A j \in 1 .. n : ~ glued => at(j) = j
    OBVIOUS
  <2> HIDE DEF n, at, seen
  <2>6. seen \in Seq(Lines) /\ Len(seen) = n /\ \A j \in 1 .. n : seen[j] = box[at(j)]
    BY <2>1, <2>3, <2>4, IsASeq
  <2> QED  BY <1>1, <2>1, <2>5, <2>6
<1> HIDE DEF seen
<1>4. Grown /\ BoxGrown /\ PastGrown
  BY <1>2, SameGrows DEF Types, ServerTypes, BoxGrown, PastGrown
<1>5. mem.offset \in Nat /\ written \in Nat /\ Len(seen) <= written /\ mem \in StateFile
  <2>1. Len(box) <= written /\ Len(box) \in Nat /\ written \in Nat /\ mem.offset \in Nat
    BY Numbers
  <2> QED  BY <1>1, <1>3, <2>1 DEF Types, StateTypes
<1>6. CASE Len(seen) > mem.offset
  <2>1. /\ line' = [next |-> mem.offset + 1, lines |-> seen, cut |-> cut]
        /\ pc' = "post" /\ mem' = mem
    BY <1>6 DEF ReadInbox, seen
  <2>2. line' \in Reading
    BY <1>1, <1>3, <2>1, Numbers DEF Reading
  <2>3. Types'
    BY <1>2, <2>1, <2>2
       DEF Types, ServerTypes, InboxTypes, StateTypes, LoopTypes, OutageTypes, PastTypes
  <2>4. WithinInv' /\ RoomsInv' /\ AccountInv'
    BY <1>2, <1>4, <2>1, <2>3, Numbers, WithinStays, RoomsStay, AccountStays
  <2>5. ~ shifted => {mem.offset, disk.offset} \subseteq Passed'
    BY <1>4, <2>3, PassedStays DEF PostInv, Types
  <2>6. /\ line'.next = mem.offset + 1 /\ line'.lines = seen /\ 1 <= line'.next
        /\ line'.next <= Len(seen) + 1 /\ line'.next - 1 = mem.offset /\ Len(seen) <= written
    BY <1>3, <1>5, <1>6, <2>1
  <2>7. PostInv'
    BY <1>1, <1>2, <1>3, <2>1, <2>5, <2>6 DEF PostInv
  <2> QED  BY <2>3, <2>4, <2>7
<1>7. CASE ~ (Len(seen) > mem.offset)
  <2> DEFINE new == [mem EXCEPT !.offset = Len(seen)]
  <2>1. mem' = new /\ pc' = "sync" /\ line' = line
    BY <1>7 DEF ReadInbox, seen
  <2>2. /\ new \in StateFile /\ new.offset = Len(seen) /\ Len(seen) <= mem.offset
        /\ new.since = mem.since /\ new.last = mem.last
    BY <1>3, <1>5, <1>7 DEF StateFile
  <2> HIDE DEF new
  <2>3. Types'
    BY <1>2, <2>1, <2>2
       DEF Types, ServerTypes, InboxTypes, StateTypes, LoopTypes, OutageTypes, PastTypes
  <2>4. WithinInv'
    BY <1>2, <1>5, <2>1, <2>2 DEF WithinInv, Within
  <2>5. RoomsInv' /\ AccountInv'
    BY <1>2, <1>4, <2>1, <2>2, <2>3, RoomsStay, AccountStays
  <2>6. ~ shifted => Len(seen) \in Passed /\ disk.offset \in Passed
    BY <1>3, <2>2, Numbers DEF PostInv, Passed
  <2>7. Passed \subseteq Passed'
    BY <1>4, <2>3, PassedStays DEF Types
  <2>8. ~ shifted' => {mem'.offset, disk'.offset} \subseteq Passed'
    BY <1>2, <2>1, <2>2, <2>6, <2>7
  <2>9. PostInv'
    BY <2>1, <2>8 DEF PostInv
  <2> QED  BY <2>3, <2>4, <2>5, <2>9
<1> QED  BY <1>6, <1>7

\* A step past the line that is next, which needs nothing more.
LEMMA PastLine ==
  ASSUME BridgeInv, Types', Grown, PastGrown, UNCHANGED <<box, written, shifted>>,
         pc = "post", pc' = "post", mem' = mem, disk' = disk,
         line' = [line EXCEPT !.next = @ + 1], line.next <= Len(line.lines),
         NEW i, i = line.lines[line.next], Handled(i)'
  PROVE  PostInv'
<1> USE DEF BridgeInv
<1>1. line'.next = line.next + 1 /\ line'.lines = line.lines
  BY DEF Types, LoopTypes, Reading
<1>2. 1 <= line.next /\ Len(line.lines) <= written
  BY DEF PostInv
<1>3. Done \subseteq Done' /\ Passed \subseteq Passed'
  <2>1. BoxGrown
    BY DEF BoxGrown
  <2> QED  BY <2>1, PassedStays DEF Types
<1>4. 1 <= line'.next /\ line'.next <= Len(line'.lines) + 1 /\ Len(line'.lines) <= written'
  BY <1>1, <1>2, Numbers
<1>5. i \in Done'
  <2>1. i \in Lines
    BY <1>2, Numbers
  <2> QED  BY <2>1 DEF Done
<1>6. ASSUME ~ shifted
      PROVE  /\ Len(line.lines) <= Len(box) /\ line.next \in Passed'
             /\ \A j \in 1 .. Len(line.lines) : line.lines[j] = box[j]
  <2>1. /\ Len(line.lines) <= Len(box) /\ line.next - 1 \in Passed'
        /\ \A j \in 1 .. Len(line.lines) : line.lines[j] = box[j]
    BY <1>3, <1>6 DEF PostInv
  <2>2. box'[line.next] \in Done' /\ line.next <= Len(box')
    BY <1>2, <1>5, <2>1, Numbers
  <2>3. \A j \in 1 .. line.next : j \in 1 .. (line.next - 1) \/ j = line.next
    BY <1>2, Numbers
  <2>4. \A j \in 1 .. line.next : j <= Len(box') /\ box'[j] \in Done'
    BY <2>1, <2>2, <2>3 DEF Passed
  <2> QED  BY <2>1, <2>4, Numbers DEF Passed
<1>7. ~ shifted => {mem.offset, disk.offset} \subseteq Passed'
  BY <1>3 DEF PostInv
<1>8. line'.next - 1 = line.next
  BY <1>1, Numbers
<1> QED  BY <1>1, <1>4, <1>6, <1>7, <1>8 DEF PostInv

LEMMA SkipBrokenHolds == ASSUME BridgeInv, SkipBroken PROVE BridgeInv'
<1> USE DEF BridgeInv
<1>1. /\ pc = "post" /\ pc' = "post" /\ line.next <= Len(line.lines)
      /\ line' = [line EXCEPT !.next = @ + 1]
      /\ halved' = halved \cup {line.lines[line.next]}
      /\ UNCHANGED <<room, floor, written, box, bad, mem, disk, joined, queue, fails, alerted,
          hold>>
      /\ UNCHANGED <<reported, relayed, told, unheard, high, base, dropped, old, shifted>>
  BY DEF SkipBroken, server, inbox, outage, events
<1>2. line' \in Reading
  BY <1>1 DEF Types, LoopTypes, Reading
<1>3. Types'
  BY <1>1, <1>2
     DEF Types, ServerTypes, InboxTypes, StateTypes, LoopTypes, OutageTypes, PastTypes
<1>4. Grown /\ PastGrown
  BY <1>1, SameGrows DEF Types, ServerTypes, PastGrown
<1>5. WithinInv' /\ RoomsInv' /\ AccountInv'
  BY <1>1, <1>3, <1>4, Numbers, WithinStays, RoomsStay, AccountStays
<1>6. PICK i : i = line.lines[line.next]
  OBVIOUS
<1>7. Handled(i)'
  BY <1>1, <1>6 DEF Handled
<1>8. PostInv'
  BY <1>1, <1>3, <1>4, <1>6, <1>7, PastLine
<1> QED  BY <1>3, <1>5, <1>8

LEMMA NoRoomHolds == ASSUME BridgeInv, NoRoom PROVE BridgeInv'
<1> USE DEF BridgeInv
<1>1. /\ pc = "post" /\ pc' = "post" /\ line.next <= Len(line.lines)
      /\ To[line.lines[line.next]] = None /\ line' = [line EXCEPT !.next = @ + 1]
      /\ UNCHANGED <<room, floor, written, box, bad, mem, disk, joined, queue, fails, alerted,
          hold>>
      /\ UNCHANGED <<reported, relayed, told, unheard, high, base, dropped, halved, old, shifted>>
  BY DEF NoRoom, Readable, server, inbox, outage, history, events, replies
<1>2. line' \in Reading
  BY <1>1 DEF Types, LoopTypes, Reading
<1>3. Types'
  BY <1>1, <1>2
     DEF Types, ServerTypes, InboxTypes, StateTypes, LoopTypes, OutageTypes, PastTypes
<1>4. Grown /\ PastGrown
  BY <1>1, SameGrows DEF Types, ServerTypes, PastGrown
<1>5. WithinInv' /\ RoomsInv' /\ AccountInv'
  BY <1>1, <1>3, <1>4, Numbers, WithinStays, RoomsStay, AccountStays
<1>6. PICK i : i = line.lines[line.next]
  OBVIOUS
<1>7. Handled(i)'
  BY <1>1, <1>6 DEF Handled
<1>8. PostInv'
  BY <1>1, <1>3, <1>4, <1>6, <1>7, PastLine
<1> QED  BY <1>3, <1>5, <1>8

LEMMA InboxDoneHolds == ASSUME BridgeInv, InboxDone PROVE BridgeInv'
<1> USE DEF BridgeInv
<1> DEFINE new == [mem EXCEPT !.offset = Len(line.lines)]
<1>1. /\ mem' = new /\ disk' = new /\ pc = "post" /\ pc' = "sync" /\ line' = NoLine
      /\ line.next > Len(line.lines)
      /\ UNCHANGED <<room, floor, written, box, bad, joined, queue, fails, alerted, hold, reported>>
      /\ UNCHANGED <<relayed, told, unheard, high, base, dropped, halved, old, shifted>>
  BY DEF InboxDone, server, inbox, outage, history, events, replies
<1>2. /\ new \in StateFile /\ new.offset = Len(line.lines)
      /\ new.since = mem.since /\ new.last = mem.last
  BY Numbers DEF Types, StateTypes, StateFile
<1> HIDE DEF new
<1>3. NoLine \in Reading
  BY DEF NoLine, Reading
<1>4. Types'
  BY <1>1, <1>2, <1>3
     DEF Types, ServerTypes, InboxTypes, StateTypes, LoopTypes, OutageTypes, PastTypes
<1>5. Grown
  BY <1>1, SameGrows DEF Types, ServerTypes
<1>6. /\ Len(line.lines) <= written
      /\ ~ shifted => Len(line.lines) \in Passed
  <2>1. line.next <= Len(line.lines) + 1
    BY <1>1 DEF PostInv
  <2>2. line.next - 1 = Len(line.lines)
    <3>1. line.next \in Nat /\ Len(line.lines) \in Nat /\ line.next > Len(line.lines)
      BY <1>1, Numbers
    <3> QED  BY <2>1, <3>1
  <2> QED  BY <1>1, <2>2 DEF PostInv
<1>7. WithinInv'
  BY <1>1, <1>2, <1>6 DEF WithinInv, Within
<1>8. RoomsInv'
  BY <1>1, <1>2, <1>4, <1>5, RoomsStay
<1>9. AccountInv'
  BY <1>1, <1>2, <1>4, <1>5, AccountSaved
<1>10. Passed \subseteq Passed'
  <2>1. BoxGrown /\ PastGrown
    BY <1>1 DEF BoxGrown, PastGrown
  <2> QED  BY <1>4, <1>5, <2>1, PassedStays DEF Types
<1>11. PostInv'
  BY <1>1, <1>2, <1>6, <1>10 DEF PostInv
<1> QED  BY <1>4, <1>7, <1>8, <1>9, <1>11

\* A post that is known to have worked is in the room, once.
LEMMA PutLands ==
  ASSUME BridgeInv, NEW r \in Room, NEW id \in {"agent", "bot"}, NEW i \in Lines, NEW how,
         Put(r, id, i, how)
  PROVE  /\ room' \in [Room -> Seq(Entry)] /\ Grown
         /\ how = "ok" => Posted(r, id, i)'
<1> DEFINE x == <<id, i>>
<1>1. room \in [Room -> Seq(Entry)] /\ x \in Entry
  BY DEF BridgeInv, Types, ServerTypes, Entry
<1>2. CASE how \in {"ok", "lost"} /\ ~ Posted(r, id, i)
  <2>1. room' = [room EXCEPT ![r] = Append(@, x)]
    BY <1>2 DEF Put
  <2>2. /\ room' \in [Room -> Seq(Entry)] /\ Grown
        /\ Len(room'[r]) = Len(room[r]) + 1 /\ room'[r][Len(room[r]) + 1] = x
    BY <1>1, <2>1, AppendGrows
  <2>3. Len(room[r]) + 1 \in 1 .. Len(room'[r])
    BY <1>1, <2>2
  <2> QED  BY <2>2, <2>3 DEF Posted, Events
<1>3. CASE ~ (how \in {"ok", "lost"} /\ ~ Posted(r, id, i))
  <2>1. room' = room
    BY <1>3 DEF Put
  <2> QED  BY <1>1, <1>3, <2>1, SameGrows DEF Posted, Events
<1> QED  BY <1>2, <1>3

LEMMA PostLineHolds ==
  ASSUME BridgeInv, NEW a \in [id : {"agent", "bot"}, how : Posts], PostLine(a)
  PROVE  BridgeInv'
<1> USE DEF BridgeInv
<1>0. PICK at \in Nat, i \in Lines : at = line.next /\ i = line.lines[at]
  <2>1. line.next \in 1 .. Len(line.lines)
    BY Numbers DEF PostLine, Readable, PostInv
  <2>2. line.lines[line.next] \in Lines
    BY <2>1, Numbers
  <2> QED  BY <2>1, <2>2
<1> DEFINE held == a.how \in {"lost", "down", "refused"} /\ ~ Expired(at, To[i])
<1>1. /\ Put(To[i], a.id, i, a.how) /\ To[i] # None /\ pc = "post" /\ at <= Len(line.lines)
      /\ IF held
         THEN /\ hold' = [at |-> at, room |-> To[i], turns |-> HoldTurns(at, To[i]),
                          alerted |-> HoldTurns(at, To[i]) > 0
                                      /\ (hold.alerted \/ HoldTurns(at, To[i]) >= HoldAlert)]
              /\ mem' = [mem EXCEPT !.offset = HeldAt(at)]
              /\ disk' = mem' /\ kept' = TRUE /\ pc' = "sync" /\ line' = NoLine
              /\ UNCHANGED dropped
         ELSE /\ hold' = NoHold
              /\ line' = [line EXCEPT !.next = @ + 1]
              /\ dropped' = IF a.how = "ok" THEN dropped ELSE dropped \cup {i}
              /\ UNCHANGED <<mem, disk, kept, pc>>
      /\ UNCHANGED <<floor, inbox, joined, queue, outage, reported, events, halved, old, shifted,
                     bounds>>
  BY <1>0 DEF PostLine, Readable
<1> HIDE DEF held
<1>2. 1 <= at /\ at <= written /\ Len(line.lines) <= written /\ at \in Lines
  <2>1. written <= Len(To) /\ Len(To) \in Nat
    BY LinesAre DEF Types, InboxTypes
  <2>2. 1 <= at /\ at <= written /\ Len(line.lines) <= written
    BY <1>0, <1>1, Numbers DEF PostInv
  <2> QED  BY <2>1, <2>2, LinesAre, Numbers
<1>3. To[i] # None /\ To[i] \in Room
  BY <1>1, LinesAre
<1>5. /\ room' \in [Room -> Seq(Entry)] /\ Grown
      /\ a.how = "ok" => Posted(To[i], a.id, i)'
  <2>1. PICK r \in Room : r = To[i]
    BY <1>3
  <2>2. a.id \in {"agent", "bot"} /\ Put(r, a.id, i, a.how)
    BY <1>1, <2>1
  <2>3. /\ room' \in [Room -> Seq(Entry)] /\ Grown
        /\ a.how = "ok" => Posted(r, a.id, i)'
    BY <2>2, PutLands
  <2> QED  BY <2>1, <2>3
<1>6. /\ UNCHANGED <<floor, written, box, bad, joined, queue, fails, alerted, reported, relayed>>
      /\ UNCHANGED <<told, unheard, halved, old, shifted, high, base>>
      /\ dropped \subseteq dropped' /\ PastGrown
  BY <1>1 DEF outage, inbox, events, PastGrown
<1>7. ASSUME held PROVE BridgeInv'
  <2> DEFINE n   == HoldTurns(at, To[i])
             b   == n > 0 /\ (hold.alerted \/ n >= HoldAlert)
             new == [mem EXCEPT !.offset = HeldAt(at)]
  <2>1. /\ hold' = [at |-> at, room |-> To[i], turns |-> n, alerted |-> b]
        /\ mem' = new /\ disk' = new /\ pc' = "sync" /\ line' = NoLine
    BY <1>1, <1>7
  <2>2. n \in 0 .. HoldSkip - 1
    <3>1. hold.turns \in 0 .. HoldSkip - 1 /\ HoldSkip \in Nat \ {0}
      BY Numbers DEF Types, OutageTypes, Marker
    <3> QED  BY <1>7, <3>1 DEF Expired, HoldTurns, held
  <2>3. b \in BOOLEAN
    OBVIOUS
  <2>4. HeldAt(at) \in Nat /\ HeldAt(at) <= written
    BY <1>2, Numbers DEF HeldAt
  <2>5. /\ new \in StateFile /\ new.offset = HeldAt(at)
        /\ new.since = mem.since /\ new.last = mem.last
    BY <2>4 DEF Types, StateTypes, StateFile
  <2> HIDE DEF b, new
  <2>6. hold' \in Marker /\ line' \in Reading
    <3>1. NoLine \in Reading
      BY DEF NoLine, Reading
    <3> HIDE DEF n
    <3> QED  BY <1>2, <1>3, <2>1, <2>2, <2>3, <3>1 DEF Marker
  <2>7. Types'
    BY <1>5, <1>6, <2>1, <2>5, <2>6
       DEF Types, ServerTypes, InboxTypes, StateTypes, LoopTypes, OutageTypes, PastTypes
  <2>9. ASSUME NEW s \in {mem', disk'}
        PROVE  /\ s.offset <= written'
               /\ \A r \in Room : /\ s.last[r] <= Len(room'[r])
                                  /\ s.since # None => /\ s.last[r] <= s.since[r]
                                                       /\ s.since[r] <= Len(room'[r])
    <3>1. s.offset <= written'
      BY <1>6, <2>1, <2>4, <2>5
    <3>2. ASSUME NEW r \in Room
          PROVE  /\ mem.last[r] <= Len(room'[r])
                 /\ mem.since # None => mem.last[r] <= mem.since[r] /\ mem.since[r] <= Len(room'[r])
      <4>1. Len(room[r]) \in Nat /\ Len(room'[r]) \in Nat /\ Len(room[r]) <= Len(room'[r])
        BY <1>5, Numbers DEF Grown
      <4>2. /\ mem.last[r] <= Len(room[r])
            /\ mem.since # None => mem.last[r] <= mem.since[r] /\ mem.since[r] <= Len(room[r])
        BY DEF WithinInv, Within
      <4> QED  BY <4>1, <4>2, Numbers
    <3> QED  BY <2>1, <2>5, <3>1, <3>2
  <2>10. \A r \in Room : floor'[r] <= Len(room'[r])
    <3>1. \A r \in Room : Len(room[r]) \in Nat /\ Len(room'[r]) \in Nat /\ Len(room[r]) <= Len(room'[r])
      BY <1>5, Numbers DEF Grown
    <3> QED  BY <1>6, <3>1, Numbers DEF WithinInv
  <2>11. WithinInv'
    BY <2>9, <2>10 DEF WithinInv, Within
  <2>12. RoomsInv'
    BY <1>1, <1>5, <1>6, <2>1, <2>5, <2>7, RoomsStay
  <2>13. AccountInv'
    BY <1>1, <1>5, <1>6, <2>1, <2>5, <2>7, AccountSaved
  <2>14. ~ shifted => HeldAt(at) \in Passed'
    <3>1. BoxGrown
      BY <1>6 DEF BoxGrown
    <3>2. ~ shifted => HeldAt(at) \in Passed
      BY <1>0, <1>1 DEF PostInv, HeldAt
    <3> QED  BY <1>5, <1>6, <2>7, <3>1, <3>2, PassedStays DEF Types
  <2>15. PostInv'
    BY <1>6, <2>1, <2>5, <2>14 DEF PostInv
  <2> QED  BY <2>7, <2>11, <2>12, <2>13, <2>15
<1>8. ASSUME ~ held PROVE BridgeInv'
  <2>1. /\ hold' = NoHold /\ line' = [line EXCEPT !.next = @ + 1] /\ mem' = mem /\ disk' = disk
        /\ pc' = pc /\ dropped' = IF a.how = "ok" THEN dropped ELSE dropped \cup {i}
    BY <1>1, <1>8
  <2>2. hold' \in Marker
    BY <2>1, Numbers DEF NoHold, Marker
  <2>3. line' \in Reading
    BY <2>1 DEF Types, LoopTypes, Reading
  <2>4. Types'
    BY <1>5, <1>6, <2>1, <2>2, <2>3
       DEF Types, ServerTypes, InboxTypes, StateTypes, LoopTypes, OutageTypes, PastTypes
  <2>5. WithinInv' /\ RoomsInv' /\ AccountInv'
    BY <1>5, <1>6, <2>1, <2>4, Numbers, WithinStays, RoomsStay, AccountStays
  <2>6. Handled(i)'
    <3>1. CASE a.how = "ok"
      BY <1>5, <3>1 DEF Handled
    <3>2. CASE a.how # "ok"
      BY <2>1, <3>2 DEF Handled
    <3> QED  BY <3>1, <3>2
  <2>7. PostInv'
    <3>1. i = line.lines[line.next] /\ line.next <= Len(line.lines)
      BY <1>0, <1>1
    <3> QED  BY <1>1, <1>5, <1>6, <2>1, <2>4, <2>6, <3>1, PastLine
  <2> QED  BY <2>4, <2>5, <2>7
<1> QED  BY <1>7, <1>8

-----------------------------------------------------------------------------
\* Oldest first: what is left of a room lies behind what was relayed.
LEMMA RelayHolds ==
  ASSUME BridgeInv, NEW q \in queue, NEW how \in Relays, NEW notice \in BOOLEAN,
         Relay(q, how, notice)
  PROVE  BridgeInv'
<1> USE DEF BridgeInv
<1> DEFINE x == <<"bot", 0>>
<1>1. /\ pc = "rooms" /\ pc' = pc /\ queue' = queue \ {q} /\ \A p \in queue : q[2] <= p[2]
      /\ high' = [high EXCEPT ![q[1]] = q[2]]
      /\ UNCHANGED <<floor, written, box, bad, mem, disk, joined, line, fails, alerted, hold>>
      /\ UNCHANGED <<reported, dropped, halved, old, shifted, base>>
  BY DEF Relay, inbox, outage, replies
<1>2. q \in Room \X Nat /\ q[1] \in Room /\ q[2] \in Nat
  BY DEF Types, LoopTypes
<1>3. room' \in [Room -> Seq(Entry)] /\ Grown
  <2>1. x \in Entry /\ room \in [Room -> Seq(Entry)]
    BY DEF Entry, Types, ServerTypes
  <2>2. CASE notice
    <3>1. room' = [room EXCEPT ![q[1]] = Append(@, x)]
      BY <2>2 DEF Relay
    <3>2. PICK r \in Room : r = q[1]
      BY <1>2
    <3> QED  BY <2>1, <3>1, <3>2, AppendGrows
  <2>3. CASE ~ notice
    <3>1. room' = room
      BY <2>3 DEF Relay
    <3> QED  BY <2>1, <3>1, SameGrows
  <2> QED  BY <2>2, <2>3
<1>4. high' \in Cursor /\ high'[q[1]] = q[2] /\ \A r \in Room \ {q[1]} : high'[r] = high[r]
  BY <1>1, <1>2 DEF Types, PastTypes, Cursor
<1>5. Types'
  BY <1>1, <1>3, <1>4 DEF Types, ServerTypes, InboxTypes, StateTypes, LoopTypes, OutageTypes,
    PastTypes
<1>6. WithinInv'
  BY <1>1, <1>3, <1>5, Numbers, WithinStays
<1>7. RoomsInv'
  <2>1. ASSUME NEW p \in queue'
        PROVE  p[2] \in Pilots(p[1])' /\ high'[p[1]] < p[2] /\ p[2] <= mem'.last[p[1]]
    <3>1. p \in queue /\ p # q /\ p \in Room \X Nat /\ p[1] = q[1] /\ q[2] <= p[2]
      BY <1>1, <2>1 DEF RoomsInv, Types, LoopTypes
    <3>2. p[2] # q[2]
      BY <1>2, <3>1
    <3>3. p[2] \in Pilots(p[1])'
      BY <1>3, <1>5, <3>1, PilotsStay DEF RoomsInv, Types
    <3> QED  BY <1>1, <1>2, <1>4, <3>1, <3>2, <3>3 DEF RoomsInv
  <2>2. \A r \in Room : high'[r] <= mem'.last[r]
    BY <1>1, <1>2, <1>4 DEF RoomsInv
  <2>3. \A p, t \in queue' : p[1] = t[1]
    BY <1>1 DEF RoomsInv
  <2>4. \A r \in DOMAIN joined' : /\ mem'.last[r] < joined'[r].from
                                  /\ joined'[r].from <= joined'[r].upto
                                  /\ joined'[r].upto = mem'.since[r]
    BY <1>1 DEF RoomsInv
  <2>5. mem'.since # None /\ \A m \in reported' : m[2] < mem'.last[m[1]]
    BY <1>1 DEF RoomsInv
  <2> QED  BY <1>1, <2>1, <2>2, <2>3, <2>4, <2>5 DEF RoomsInv
<1>8. AccountInv'
  <2>1. /\ relayed \subseteq relayed' /\ told \subseteq told' /\ unheard \subseteq unheard'
        /\ q \in relayed' \cup told' \cup unheard'
    BY DEF Relay
  <2>2. ASSUME disk.since # None, NEW r \in Room, NEW e \in Pilots(r)', base[r] < e
        PROVE  /\ e <= disk.since[r] => Accounted(r, e)'
               /\ e <= mem.since[r] =>
                    \/ Accounted(r, e)'
                    \/ r \in DOMAIN joined' /\ joined'[r].from <= e
                    \/ <<r, e>> \in queue'
    <3>1. mem.since # None
      BY <1>1 DEF RoomsInv
    <3>2. /\ e \in Nat /\ Len(room[r]) \in Nat /\ disk.since[r] \in Nat /\ mem.since[r] \in Nat
          /\ disk.since[r] <= Len(room[r]) /\ mem.since[r] <= Len(room[r])
      BY <1>3, <1>5, <2>2, <3>1, Numbers, PilotsStay DEF WithinInv, Within, Types
    <3>3. e <= disk.since[r] \/ e <= mem.since[r] => e \in Pilots(r)
      BY <1>3, <1>5, <3>2, PilotsStay DEF Types
    <3>4. Accounted(r, e) => Accounted(r, e)'
      BY <2>1 DEF Accounted
    <3>5. <<r, e>> \in queue => <<r, e>> \in queue' \/ Accounted(r, e)'
      BY <1>1, <2>1 DEF Accounted
    <3> QED  BY <1>1, <2>2, <3>3, <3>4, <3>5 DEF AccountInv
  <2> QED  BY <1>1, <2>2 DEF AccountInv
<1>9. BoxGrown /\ PastGrown
  BY <1>1 DEF BoxGrown, PastGrown
<1>10. PostInv'
  BY <1>1, <1>3, <1>5, <1>9, Numbers, PostsStay
<1> QED  BY <1>5, <1>6, <1>7, <1>8, <1>10

\* The backfill never goes back to an event that is known.
LEMMA RecoveredBehind ==
  ASSUME BridgeInv, NEW r \in Room, NEW start \in Nat, NEW p \in Nat, mem.last[r] < start
  PROVE  Recovered(r, start, p) \in Int /\ mem.last[r] < Recovered(r, start, p)
<1>1. mem.last[r] \in Nat /\ floor[r] \in Nat /\ MaxPages \in Nat
  BY Numbers, BridgeAssumption
<1>2. CASE mem.last[r] = 0
  BY <1>1, <1>2 DEF Recovered
<1>3. CASE Closed(r, start, p) /\ mem.last[r] # 0
  BY <1>1, <1>3 DEF Recovered
<1>4. CASE ~ Closed(r, start, p) /\ mem.last[r] # 0
  <2>1. Recovered(r, start, p) = PagesFrom(r, start, p)
    BY <1>4 DEF Recovered
  <2>2. CASE ~ RanOut(r, start, p)
    <3>1. start - p > mem.last[r]
      BY <1>1, <1>4, <2>2 DEF RanOut, Closed
    <3> QED  BY <1>1, <2>1, <2>2, <3>1 DEF PagesFrom
  <2>3. CASE RanOut(r, start, p)
    <3>1. mem.last[r] <= floor[r]
      BY <2>3 DEF RanOut
    <3> QED  BY <1>1, <2>1, <2>3, <3>1 DEF PagesFrom
  <2> QED  BY <2>2, <2>3
<1> QED  BY <1>2, <1>3, <1>4

\* What a room does not relay of a response, somebody is told about, or the log.
LEMMA JoinedRoomHolds ==
  ASSUME BridgeInv, NEW r \in Room, NEW p \in 0 .. MaxPages, NEW heard \in BOOLEAN,
         JoinedRoom(r, p, heard)
  PROVE  BridgeInv'
<1> USE DEF BridgeInv
<1> DEFINE from    == joined[r].from
           upto    == joined[r].upto
           last    == mem.last[r]
           limited == upto - from + 1 > Window
           start   == IF limited THEN upto - Window + 1 ELSE from
           first   == IF limited THEN Recovered(r, start, p) ELSE start
           gap     == limited /\ Unclosed(r, start, p) /\ <<r, last>> \notin reported
           lost    == IF gap THEN {<<r, e>> : e \in (last + 1) .. (first - 1)} ELSE {}
           behind  == {<<r, e>> : e \in {x \in Pilots(r) : first <= x /\ x <= upto}}
           new     == [mem EXCEPT !.last[r] = upto]
<1>1. /\ pc = "rooms" /\ pc' = pc /\ queue = {} /\ r \in DOMAIN joined
      /\ queue' = behind /\ mem' = new
      /\ reported' = IF gap THEN reported \cup {<<r, last>>} ELSE reported
      /\ told' = IF heard THEN told \cup lost ELSE told
      /\ unheard' = IF heard THEN unheard ELSE unheard \cup lost
      /\ joined' = [q \in DOMAIN joined \ {r} |-> joined[q]]
      /\ UNCHANGED <<room, floor, written, box, bad, disk, line, fails, alerted, hold, relayed>>
      /\ UNCHANGED <<dropped, halved, old, shifted, high, base>>
  BY DEF JoinedRoom, server, inbox, outage, replies
<1>2. /\ from \in Nat /\ upto \in Nat /\ last \in Nat /\ p \in Nat /\ Window \in Nat \ {0}
      /\ mem.since # None /\ last < from /\ from <= upto /\ upto = mem.since[r]
      /\ upto <= Len(room[r]) /\ high[r] <= last
  <2>1. from \in Nat /\ upto \in Nat
    BY <1>1 DEF Types, LoopTypes
  <2>2. p \in Nat /\ Window \in Nat \ {0}
    BY BridgeAssumption
  <2>3. /\ mem.since # None /\ last < from /\ from <= upto /\ upto = mem.since[r]
        /\ high[r] <= last
    BY <1>1 DEF RoomsInv
  <2>4. upto <= Len(room[r])
    BY <2>3 DEF WithinInv, Within
  <2> QED  BY <2>1, <2>2, <2>3, <2>4, Numbers
<1>3. start \in Nat /\ last < start /\ (limited => from < start)
  <2>1. from \in Nat /\ upto \in Nat /\ last \in Nat /\ Window \in Nat \ {0} /\ last < from
    BY <1>2
  <2>2. CASE limited
    <3> HIDE DEF from, upto, last
    <3> QED  BY <2>1, <2>2
  <2>3. CASE ~ limited
    BY <2>1, <2>3
  <2> QED  BY <2>2, <2>3
<1>4. first \in Int /\ last < first
  <2>1. Recovered(r, start, p) \in Int /\ last < Recovered(r, start, p)
    <3> HIDE DEF start
    <3> QED  BY <1>2, <1>3, RecoveredBehind
  <2> QED  BY <1>3, <2>1
<1>5. <<r, last>> \notin reported
  BY <1>2 DEF RoomsInv
<1>6. first > from => gap
  <2>1. CASE ~ limited
    BY <1>2, <2>1
  <2>2. CASE limited /\ Unclosed(r, start, p)
    BY <1>5, <2>2
  <2>3. CASE limited /\ ~ Unclosed(r, start, p)
    <3>1. first = last + 1
      BY <2>3 DEF Unclosed, Recovered
    <3> QED  BY <1>2, <3>1
  <2> QED  BY <2>1, <2>2, <2>3
<1> HIDE DEF start, first, gap, limited
<1>21. /\ told \subseteq told' /\ unheard \subseteq unheard' /\ lost \subseteq told' \cup unheard'
       /\ (gap => \A e \in (last + 1) .. (first - 1) : <<r, e>> \in lost)
  BY <1>1
<1> HIDE DEF lost
<1>7. /\ new \in StateFile /\ new.since = mem.since /\ new.offset = mem.offset
      /\ new.last[r] = upto /\ \A q \in Room \ {r} : new.last[q] = mem.last[q]
  BY <1>2 DEF Types, StateTypes, StateFile, Cursor
<1> HIDE DEF new
<1>8. /\ DOMAIN joined' = DOMAIN joined \ {r}
      /\ \A q \in DOMAIN joined \ {r} : joined'[q] = joined[q]
  BY <1>1
<1>9. Pilots(r) \subseteq Nat
  BY <1>2, Numbers DEF Pilots, Events
<1>10. \A q \in queue' : /\ q \in Room \X Nat /\ q[1] = r /\ q[2] \in Pilots(r)
                         /\ first <= q[2] /\ q[2] <= upto
  BY <1>1, <1>9
<1>11. reported' \subseteq Room \X Nat
  BY <1>1, <1>2 DEF Types, PastTypes
<1>12. Types'
  <2>1. LoopTypes'
    BY <1>1, <1>8, <1>10 DEF Types, LoopTypes
  <2>2. StateTypes'
    BY <1>1, <1>7 DEF Types, StateTypes
  <2> QED  BY <1>1, <1>11, <2>1, <2>2 DEF Types, ServerTypes, InboxTypes, OutageTypes, PastTypes
<1>13. Grown
  BY <1>1, SameGrows DEF Types, ServerTypes
<1>14. WithinInv'
  <2>1. Within(mem)'
    <3>1. ASSUME NEW q \in Room
          PROVE  mem'.last[q] <= mem.since[q] /\ mem.since[q] <= Len(room[q])
      <4>1. CASE q = r
        BY <1>1, <1>2, <1>7, <4>1
      <4>2. CASE q # r
        BY <1>1, <1>2, <1>7, <4>2 DEF WithinInv, Within
      <4> QED  BY <4>1, <4>2
    <3>2. \A q \in Room : mem'.last[q] <= Len(room[q])
      BY <1>1, <1>2, <1>7, <3>1, Numbers DEF WithinInv, Within
    <3> QED  BY <1>1, <1>7, <3>1, <3>2 DEF WithinInv, Within
  <2>2. Within(disk)' /\ \A q \in Room : floor'[q] <= Len(room'[q])
    BY <1>1 DEF WithinInv, Within
  <2> QED  BY <2>1, <2>2 DEF WithinInv
<1>15. RoomsInv'
  <2>1. \A q \in DOMAIN joined' : /\ mem'.last[q] < joined'[q].from
                                  /\ joined'[q].from <= joined'[q].upto
                                  /\ joined'[q].upto = mem'.since[q]
    BY <1>1, <1>7, <1>8 DEF RoomsInv, Types, LoopTypes
  <2>2. ASSUME NEW q \in queue'
        PROVE  q[2] \in Pilots(q[1])' /\ high'[q[1]] < q[2] /\ q[2] <= mem'.last[q[1]]
    <3>1. q[2] \in Pilots(q[1])'
      BY <1>1, <1>10 DEF Pilots, Events
    <3>2. q[1] = r /\ first <= q[2] /\ q[2] <= upto /\ q[2] \in Nat
      BY <1>10
    <3>3. high[r] \in Nat /\ high[r] < q[2]
      <4>1. high[r] \in Nat /\ last \in Nat /\ high[r] <= last
        BY <1>2, Numbers
      <4> QED  BY <1>4, <3>2, <4>1
    <3>4. high'[q[1]] = high[r] /\ mem'.last[q[1]] = upto
      BY <1>1, <1>7, <3>2
    <3> QED  BY <3>1, <3>2, <3>3, <3>4
  <2>3. ASSUME NEW q \in Room PROVE high'[q] <= mem'.last[q]
    <3>1. CASE q = r
      <4>1. high[r] \in Nat /\ last \in Nat /\ upto \in Nat /\ high[r] <= last /\ last <= upto
        <5>1. last <= upto
          BY <1>2
        <5> QED  BY <1>2, <5>1, Numbers
      <4>2. mem'.last[q] = upto /\ high'[q] = high[r]
        BY <1>1, <1>7, <3>1
      <4> QED  BY <4>1, <4>2
    <3>2. CASE q # r
      BY <1>1, <1>7, <3>2 DEF RoomsInv
    <3> QED  BY <3>1, <3>2
  <2>4. ASSUME NEW m \in reported' PROVE m[2] < mem'.last[m[1]]
    <3>1. m \in Room \X Nat /\ (m \in reported \/ m = <<r, last>>)
      BY <1>1, <1>11
    <3>2. m[2] <= mem.last[m[1]] /\ (m[1] # r => m[2] < mem.last[m[1]])
      <4>1. CASE m \in reported
        <5>1. m[2] < mem.last[m[1]]
          BY <4>1 DEF RoomsInv
        <5> QED  BY <3>1, <5>1, Numbers
      <4>2. CASE m = <<r, last>>
        BY <1>2, <4>2
      <4> QED  BY <3>1, <4>1, <4>2
    <3>3. CASE m[1] = r
      BY <1>1, <1>2, <1>7, <3>1, <3>2, <3>3
    <3>4. CASE m[1] # r
      BY <1>1, <1>7, <3>1, <3>2, <3>4
    <3> QED  BY <3>3, <3>4
  <2>5. \A q, t \in queue' : q[1] = t[1]
    BY <1>10
  <2>6. mem'.since # None
    BY <1>1, <1>2, <1>7
  <2> QED  BY <1>1, <2>1, <2>2, <2>3, <2>4, <2>5, <2>6 DEF RoomsInv
<1>16. AccountInv'
  <2>1. ASSUME disk.since # None, NEW q \in Room, NEW e \in Pilots(q), base[q] < e
        PROVE  /\ e <= disk.since[q] => Accounted(q, e)'
               /\ e <= mem.since[q] =>
                    \/ Accounted(q, e)'
                    \/ q \in DOMAIN joined' /\ joined'[q].from <= e
                    \/ <<q, e>> \in queue'
    <3>1. Accounted(q, e) => Accounted(q, e)'
      BY <1>1, <1>21 DEF Accounted
    <3>2. e <= disk.since[q] => Accounted(q, e)
      BY <2>1 DEF AccountInv
    <3>3. e <= mem.since[q] => Accounted(q, e) \/ (q \in DOMAIN joined /\ joined[q].from <= e)
      BY <1>1, <2>1 DEF AccountInv
    <3>4. ASSUME q = r, e <= mem.since[r], from <= e
          PROVE  Accounted(r, e)' \/ <<r, e>> \in queue'
      <4>1. e \in Nat /\ e \in Pilots(r) /\ e <= upto
        BY <1>2, <1>9, <2>1, <3>4
      <4>2. CASE first <= e
        BY <1>1, <4>1, <4>2
      <4>3. CASE ~ (first <= e)
        <5>1. first > from
          BY <1>2, <1>4, <3>4, <4>1, <4>3
        <5>2. e \in (last + 1) .. (first - 1)
          BY <1>2, <1>4, <3>4, <4>1, <4>3
        <5> QED  BY <1>6, <1>21, <5>1, <5>2 DEF Accounted
      <4> QED  BY <4>2, <4>3
    <3>5. CASE q = r
      BY <3>1, <3>2, <3>3, <3>4, <3>5
    <3>6. CASE q # r
      BY <1>8, <3>1, <3>2, <3>3, <3>6
    <3> QED  BY <3>5, <3>6
  <2>2. mem'.since = mem.since /\ mem.since # None
    BY <1>1, <1>2, <1>7
  <2>3. \A q \in Room : Pilots(q)' = Pilots(q)
    BY <1>1 DEF Pilots, Events
  <2>4. disk.since # None
    BY <1>1, <1>2 DEF AccountInv
  <2> QED  BY <1>1, <2>1, <2>2, <2>3, <2>4 DEF AccountInv
<1>17. BoxGrown /\ PastGrown
  BY <1>1 DEF BoxGrown, PastGrown
<1>18. PostInv'
  BY <1>1, <1>7, <1>12, <1>13, <1>17, Numbers, PostsStay
<1> QED  BY <1>12, <1>14, <1>15, <1>16, <1>18

-----------------------------------------------------------------------------
LEMMA InitHolds == Init => BridgeInv
<1> SUFFICES ASSUME Init PROVE BridgeInv
  OBVIOUS
<1>1. /\ [q \in Room |-> << >>] \in [Room -> Seq(Entry)]
      /\ [q \in Room |-> 0] \in Cursor
      /\ Fresh \in StateFile
  BY DEF Cursor, Fresh, StateFile
<1>2. ServerTypes /\ InboxTypes /\ StateTypes
  BY <1>1, LinesAre DEF Init, ServerTypes, InboxTypes, StateTypes, Cursor
<1>3. LoopTypes
  BY DEF Init, LoopTypes, Nowhere, NoLine, Reading
<1>4. OutageTypes /\ PastTypes
  <2>1. HoldSkip - 1 \in Nat /\ SyncAlertAfter + SyncAlertSeconds \in Nat
    BY BridgeAssumption
  <2>2. NoHold \in Marker
    BY <2>1 DEF NoHold, Marker
  <2>3. 0 \in 0 .. SyncAlertAfter + SyncAlertSeconds
    BY <2>1
  <2>4. OutageTypes
    BY <2>2, <2>3 DEF Init, OutageTypes
  <2>5. PastTypes
    BY <1>1 DEF Init, PastTypes
  <2> QED  BY <2>4, <2>5
<1>5. WithinInv
  BY DEF Init, WithinInv, Within, Fresh
<1>6. RoomsInv
  BY DEF Init, RoomsInv, Nowhere, Fresh
<1>7. AccountInv
  BY DEF Init, AccountInv, Fresh
<1>8. PostInv
  BY DEF Init, PostInv, Passed, Fresh
<1> QED  BY <1>2, <1>3, <1>4, <1>5, <1>6, <1>7, <1>8 DEF BridgeInv, Types

LEMMA NextHolds == BridgeInv /\ [Next]_vars => BridgeInv'
<1> SUFFICES ASSUME BridgeInv, [Next]_vars PROVE BridgeInv'
  OBVIOUS
<1>1. CASE \E r \in Room : PilotPosts(r) \/ Purge(r)
  BY <1>1, PilotPostsHolds, PurgeHolds
<1>2. CASE \E how \in {"whole", "torn", "junk"} : AgentSends(how)
  BY <1>2, AgentSendsHolds
<1>3. CASE (\E k \in 0 .. Len(box) : Rewrite(k)) \/ (\E lost \in BOOLEAN : Crash(lost))
  BY <1>3, RewriteHolds, CrashHolds
<1>4. CASE SyncFail \/ SyncFirst \/ SyncOk
  BY <1>4, SyncFailHolds, SyncFirstHolds, SyncOkHolds
<1>5. CASE \E r \in Room, p \in 0 .. MaxPages, heard \in BOOLEAN : JoinedRoom(r, p, heard)
  BY <1>5, JoinedRoomHolds
<1>6. CASE \E q \in queue, how \in Relays, notice \in BOOLEAN : Relay(q, how, notice)
  BY <1>6, RelayHolds
<1>7. CASE RoomsDone \/ Save \/ NoRoom \/ SkipBroken \/ ReadRaises
  BY <1>7, RoomsDoneHolds, SaveHolds, NoRoomHolds, SkipBrokenHolds, ReadRaisesHolds
<1>8. CASE \/ \E k \in 0 .. Len(box) : StartUp(k)
           \/ \E k, cut \in 0 .. Len(box), glued \in BOOLEAN : ReadInbox(k, cut, glued)
  BY <1>8, StartUpHolds, ReadInboxHolds
<1>9. CASE \E a \in [id : {"agent", "bot"}, how : Posts] : PostLine(a)
  BY <1>9, PostLineHolds
<1>10. CASE InboxDone
  BY <1>10, InboxDoneHolds
<1>11. CASE UNCHANGED vars
  <2>1. /\ UNCHANGED <<room, floor, written, box, bad, mem, disk, pc, joined, queue, line, fails>>
        /\ UNCHANGED <<alerted, hold, reported, relayed, told, unheard, high, base>>
        /\ UNCHANGED <<dropped, halved, old, shifted>>
    BY <1>11 DEF vars
  <2>2. Types'
    BY <2>1 DEF BridgeInv, Types, ServerTypes, InboxTypes, StateTypes, LoopTypes, OutageTypes,
    PastTypes
  <2>3. Grown /\ BoxGrown /\ PastGrown
    BY <2>1, SameGrows DEF BridgeInv, Types, ServerTypes, BoxGrown, PastGrown
  <2> QED  BY <2>1, <2>2, <2>3, Numbers, WithinStays, RoomsStay, AccountStays,
    PostsStay DEF BridgeInv
<1> QED  BY <1>1, <1>2, <1>3, <1>4, <1>5, <1>6, <1>7, <1>8, <1>9, <1>10, <1>11 DEF Next, Step

LEMMA InvHolds == Spec => []BridgeInv
BY InitHolds, NextHolds, PTL DEF Spec

\* Every variable of the bridge stays in its type.
THEOREM BridgeTypes == Spec => []BridgeTypeOK
<1>1. BridgeInv => BridgeTypeOK
  <2> SUFFICES ASSUME BridgeInv PROVE BridgeTypeOK
    OBVIOUS
  <2> USE DEF BridgeInv
  <2>1. ASSUME NEW r \in Room
        PROVE  /\ room[r] \in Seq({"pilot", "agent", "bot"} \X (Lines \cup {0}))
               /\ floor[r] \in 0 .. Len(room[r])
    BY Numbers DEF Types, ServerTypes, Entry, WithinInv
  <2>2. ASSUME NEW s \in {mem, disk}
        PROVE  /\ s.since = None \/ \A r \in Room : s.since[r] \in 0 .. Len(room[r])
               /\ s.offset \in 0 .. written
    BY Numbers DEF WithinInv, Within
  <2>3. \A q \in queue : q[1] \in Room /\ q[2] \in Pilots(q[1])
    BY DEF Types, LoopTypes, RoomsInv
  <2>4. hold.at \in Lines \cup {0} /\ hold.turns \in 0 .. HoldSkip - 1
    BY DEF Types, OutageTypes, Marker
  <2>5. box \in Seq(1 .. written) /\ Len(box) <= written
    <3>1. \A j \in 1 .. Len(box) : box[j] \in 1 .. written
      BY LinesAre, Numbers DEF Types, InboxTypes
    <3> QED  BY <3>1, Numbers, SeqOfRange, IsASeq, ElementOfSeq, LenProperties
  <2> QED  BY <2>1, <2>2, <2>3, <2>4, <2>5 DEF BridgeTypeOK, Types, LoopTypes, OutageTypes
<1> QED  BY <1>1, InvHolds, PTL

\* Once the saved cursor is past a message of the pilot, it is in the mesh, or
\* somebody was told that it is not, or telling that failed as well, which the log
\* says (bridge.py, poll_matrix and _backfill).
THEOREM PilotNeverIgnored == Spec => []NothingVanishes
<1>1. BridgeInv => NothingVanishes
  BY DEF BridgeInv, AccountInv, Accounted, NothingVanishes
<1> QED  BY <1>1, InvHolds, PTL

\* As long as no acknowledgement leaves a line out of the inbox: once the saved
\* offset is past a line, its message is in its room, or was rejected or held too
\* long, or was there before the bridge, or the line does not parse (bridge.py,
\* poll_inbox).
THEOREM RepliesNeverLost == Spec => []PostedOrGivenUp
<1>1. BridgeInv => PostedOrGivenUp
  BY DEF BridgeInv, PostInv, Passed, Done, PostedOrGivenUp
<1> QED  BY <1>1, InvHolds, PTL

\* One life of the service relays the messages of a room in their order and each
\* once, whatever windows and recovered pages overlap (bridge.py, _backfill).
THEOREM RelaysAreOrdered == Spec => RelayedInOrder
<1>1. BridgeInv /\ [Next]_vars =>
        [\A q \in queue \ queue' : q[2] > high[q[1]] \/ pc' = "down"]_vars
  <2> SUFFICES ASSUME BridgeInv, NEW q \in queue \ queue' PROVE q[2] > high[q[1]]
    OBVIOUS
  <2>1. q \in Room \X Nat /\ high[q[1]] < q[2]
    BY DEF BridgeInv, Types, LoopTypes, RoomsInv
  <2> QED  BY <2>1, Numbers
<1> QED  BY <1>1, InvHolds, PTL DEF Spec, RelayedInOrder
=============================================================================
