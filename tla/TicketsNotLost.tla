---------------------------- MODULE TicketsNotLost ----------------------------
(* No ticket is lost, and none becomes unreadable, until a process dies. *)
EXTENDS TicketsOnce

-----------------------------------------------------------------------------
(* No ticket is lost, as long as no process dies.  What could lose one is the *)
(* dispatcher's unlink that ends a promotion or a park: the file it wrote     *)
(* before must still be there, although the API may have moved it meanwhile.  *)

\* t depends on a ticket of an agent the dispatcher does not drive: it is parked
\* whenever it is found armed, and never promoted.
Foreign(t) == \E d \in deps[t] : To[d] \notin ConfigAgents

FromArmed(t) == disp.tk = t /\ disp.src = "armed" /\ disp.pc \in {"check", "park", "fill", "unlink"}
Parking(t)   == disp.tk = t /\ disp.src = "armed" /\ disp.w = "blocked" /\ disp.pc \in {"fill", "unlink"}
Promoting(t) == disp.tk = t /\ disp.src = "blocked" /\ disp.pc \in {"fill", "unlink"}

\* An armed file is a promise that the dependencies are done, and so is a move
\* of the API into armed/.
ReadyAt(t) ==
  /\ Exists(t, "armed") => AllDepsDone(t)
  /\ api.tk = t /\ api.pc = "create" => t \notin known
  /\ api.tk = t /\ api.pc \in {"create", "rename"} /\ api.new = "armed" => AllDepsDone(t)
  /\ api.tk = t /\ api.pc \in {"decide", "rename", "write"} /\ api.dir = "armed" => AllDepsDone(t)

ArmedIsReady == \A t \in Ticket : ReadyAt(t)

\* Hence the API parks no armed ticket.
NoArmedIsParked ==
  api.pc = "rename" /\ api.op # "delete" =>
    api.new \in {"draft", "armed", "blocked"} /\ (api.new = "blocked" => api.dir # "armed")

\* What the dispatcher moves is ready too, so that it parks nothing but Foreign
\* tickets and promotes only others.
MovesAreReady ==
  \A t \in Ticket :
    /\ disp.tk = t /\ disp.pc \in {"fill", "unlink"} =>
         /\ disp.src = "blocked" => disp.w = "armed"
         /\ disp.src = "armed"   => disp.w \in {"blocked", "running"}
         /\ disp.src \notin {"armed", "blocked"} => disp.w \in {"done", "failed"}
         /\ disp.w = "running"   => Started(t)
    /\ FromArmed(t) => AllDepsDone(t)
    /\ Promoting(t) => AllDepsDone(t) /\ ~ Foreign(t)
    /\ (disp.tk = t /\ disp.pc = "park") \/ Parking(t) => Foreign(t)

\* The ticket need not wait anywhere.
Gone(t) == Started(t) \/ t \in deleted

\* What was promoted is armed, or the API has put it into draft/ since, and is
\* not about to park it.
PromotedAt(t) ==
  Promoting(t) /\ ~ Gone(t) =>
    \/ Exists(t, "armed")
    \/ Exists(t, "draft") /\ ~ (api.tk = t /\ api.pc = "rename" /\ api.new = "blocked")

PromotedStays == \A t \in Ticket : PromotedAt(t)

\* The request under way found t behind armed/ or will, or parks it.
PastArmed(t) ==
  /\ api.tk = t
  /\ \/ api.pc \in {"find", "decide", "rename", "write", "fill"} /\ api.dir \notin {"draft", "armed"}
     \/ api.pc = "rename" /\ api.new = "blocked"

\* Whoever looks for t finds it before blocked/.
FoundFirst(t) ==
  /\ api.tk = t /\ api.pc = "find" /\ api.dir # "draft" => Readable(t, "armed")
  /\ api.tk = t /\ api.pc \in {"decide", "rename"} => Readable(t, api.dir)
  /\ api.tk = t /\ api.pc = "fill" => Exists(t, api.dir)
  /\ \/ api.tk = t /\ api.pc \in {"write", "fill", "unlink"}
     \/ Readable(t, "draft") \/ Readable(t, "armed")

\* Only the API arms a Foreign ticket, and while the dispatcher parks one, no
\* request gets at the copy in blocked/.
ParkedAt(t) ==
  Foreign(t) /\ ~ Gone(t) =>
    /\ store[t]["armed"] = "torn" => api.tk = t /\ api.pc = "fill" /\ api.dir = "armed"
    /\ api.tk = t /\ api.pc \in {"decide", "rename"} => store[t][api.dir] # "torn"
    /\ api.tk = t /\ api.pc \in {"decide", "rename", "fill"} /\ api.dir = "draft" => Exists(t, "draft")
    /\ PastArmed(t) => ~ Exists(t, "armed") /\ ~ FromArmed(t)
    /\ FromArmed(t) => FoundFirst(t)
    /\ Parking(t) => Exists(t, "blocked")

ForeignStays == \A t \in Ticket : ParkedAt(t)

StaysInv ==
  /\ ArmedIsReady /\ NoArmedIsParked /\ MovesAreReady
  /\ PromotedStays /\ ForeignStays /\ NoTicketVanishes

LEMMA OutcomesStand ==
  ASSUME Kept, NEW t \in Ticket, NEW d \in {"done", "failed", "cancelled"}, Exists(t, d)
  PROVE  Exists(t, d)'
  <1>1. d \in Outcomes[t]
    BY DEF Outcomes
  <1>2. Outcomes[t] \subseteq Outcomes'[t]
    <2>1. Outcomes \in [Ticket -> SUBSET {"done", "failed", "cancelled"}]
      BY DEF Outcomes
    <2> QED BY <2>1 DEF Kept, Contract!Next, Contract!vars, Contract!Plan, Contract!Start,
                        Contract!End, Outcomes
  <1>3. d \in Outcomes'[t]
    BY <1>1, <1>2
  <1> QED BY <1>3 DEF Outcomes

LEMMA ReadyStands ==
  ASSUME TypeOK, Kept, NEW t \in Ticket, deps'[t] = deps[t], AllDepsDone(t)
  PROVE  AllDepsDone(t)'
  BY OutcomesStand DEF AllDepsDone, TypeOK

LEMMA ForeignStands ==
  ASSUME NEW t \in Ticket, deps'[t] = deps[t]
  PROVE  Foreign(t)' <=> Foreign(t)
  BY DEF Foreign

LEMMA GoneStands ==
  ASSUME Kept, NEW t \in Ticket, Gone(t), deleted \subseteq deleted'
  PROVE  Gone(t)'
  BY StartsStand DEF Gone

\* No file vanishes that is followed by none.
LEMMA Remains ==
  ASSUME IInv, NoTicketVanishes, Kept, deleted \subseteq deleted',
         \A t \in known' : t \notin known => \E e \in STATES : Exists(t, e)',
         \A t \in Ticket, d \in Waiting : Exists(t, d) /\ ~ Gone(t)' =>
            \E e \in STATES : Exists(t, e)'
  PROVE  NoTicketVanishes'
  <1>1. Begun \subseteq STATES /\ STATES = Begun \cup Waiting /\ known \subseteq Ticket
    BY DEF Begun, STATES, Waiting, IInv, TypeOK
  <1>2. SUFFICES ASSUME NEW t \in known, t \notin deleted'
                 PROVE  \E e \in STATES : Exists(t, e)'
    BY DEF NoTicketVanishes
  <1>3. CASE Started(t)
    BY <1>1, <1>3, StartsStand DEF Started
  <1>4. CASE Started(t)'
    BY <1>1, <1>4 DEF Started
  <1>5. CASE ~ Started(t) /\ ~ Started(t)'
    <2>1. PICK d \in STATES : Exists(t, d)
      BY <1>2 DEF NoTicketVanishes
    <2>2. d \in Waiting /\ ~ Gone(t)'
      BY <1>1, <1>2, <1>5, <2>1 DEF Started, Gone
    <2> QED BY <1>1, <2>1, <2>2
  <1> QED BY <1>3, <1>4, <1>5

\* The dispatcher lets go, or holds nothing that waits, or what it begins is
\* accounted for; of what waits, files are at most removed.
LEMMA ReleasesStays ==
  ASSUME IInv, StaysInv, Kept, UNCHANGED <<api, deps, known, deleted>>,
         \/ disp'.pc \notin {"check", "park", "fill", "unlink"}
         \/ disp'.src \notin {"armed", "blocked"} /\ disp'.pc # "park" /\ disp'.w \in {"done", "failed"}
         \/ disp'.src = "blocked" /\ disp'.pc = "check",
         \A t \in Ticket, d \in Waiting :
            store'[t][d] = store[t][d] \/ (d # "draft" /\ store'[t][d] = "none"),
         NoTicketVanishes'
  PROVE  StaysInv'
  <1>1. \A t \in Ticket : ~ FromArmed(t)' /\ ~ Promoting(t)' /\ ~ Parking(t)'
    BY DEF FromArmed, Promoting, Parking
  <1>2. {"draft", "armed", "blocked"} \subseteq Waiting
    BY DEF Waiting, STATES, Begun
  <1>3. ArmedIsReady'
    BY <1>2, ReadyStands DEF StaysInv, ArmedIsReady, ReadyAt, Exists, IInv
  <1>4. MovesAreReady'
    BY <1>1 DEF MovesAreReady
  <1>5. PromotedStays'
    BY <1>1 DEF PromotedStays, PromotedAt
  <1>6. ForeignStays'
    <2> SUFFICES ASSUME NEW t \in Ticket, Foreign(t)', ~ Gone(t)'
                 PROVE  /\ store'[t]["armed"] = "torn" => api.tk = t /\ api.pc = "fill" /\ api.dir = "armed"
                        /\ api.tk = t /\ api.pc \in {"decide", "rename"} => store'[t][api.dir] # "torn"
                        /\ api.tk = t /\ api.pc \in {"decide", "rename", "fill"} /\ api.dir = "draft" => Exists(t, "draft")'
                        /\ PastArmed(t)' => ~ Exists(t, "armed")'
      BY <1>1 DEF ForeignStays, ParkedAt
    <2>1. Foreign(t) /\ ~ Gone(t)
      BY ForeignStands, GoneStands
    <2>2. /\ store[t]["armed"] = "torn" => api.tk = t /\ api.pc = "fill" /\ api.dir = "armed"
          /\ api.tk = t /\ api.pc \in {"decide", "rename"} => store[t][api.dir] # "torn"
          /\ api.tk = t /\ api.pc \in {"decide", "rename", "fill"} /\ api.dir = "draft" => Exists(t, "draft")
          /\ PastArmed(t) => ~ Exists(t, "armed")
      BY <2>1 DEF StaysInv, ForeignStays, ParkedAt
    <2>3. api.tk = t /\ api.pc \in {"decide", "rename"} => api.dir \in Waiting
      BY <2>1 DEF IInv, ApiInv, Gone
    <2> QED BY <1>2, <2>2, <2>3 DEF PastArmed, Exists
  <1> QED BY <1>3, <1>4, <1>5, <1>6 DEF StaysInv, NoArmedIsParked

\* Nothing that waits is touched, and the API and the dispatcher stand still.
LEMMA WaitingSameKeeps ==
  ASSUME IInv, StaysInv, Kept, UNCHANGED <<disp, api, deps, known, deleted>>,
         \A t \in Ticket, d \in Waiting : store'[t][d] = store[t][d]
  PROVE  StaysInv'
  <1>1. {"draft", "armed", "blocked"} \subseteq Waiting /\ Waiting \subseteq STATES
    BY DEF Waiting, STATES, Begun
  <1>2. \A t \in Ticket : /\ FromArmed(t)' <=> FromArmed(t)
                          /\ Promoting(t)' <=> Promoting(t)
                          /\ Parking(t)' <=> Parking(t)
                          /\ PastArmed(t)' <=> PastArmed(t)
                          /\ Foreign(t)' <=> Foreign(t)
                          /\ Gone(t) => Gone(t)'
                          /\ AllDepsDone(t) => AllDepsDone(t)'
                          /\ Started(t) => Started(t)'
                          /\ \A d \in Waiting : Exists(t, d)' <=> Exists(t, d)
    BY ForeignStands, GoneStands, ReadyStands, StartsStand
       DEF FromArmed, Promoting, Parking, PastArmed, Exists, IInv
  <1>3. ArmedIsReady' /\ NoArmedIsParked' /\ MovesAreReady'
    BY <1>1, <1>2 DEF StaysInv, ArmedIsReady, ReadyAt, NoArmedIsParked, MovesAreReady
  <1>4. PromotedStays'
    BY <1>1, <1>2 DEF StaysInv, PromotedStays, PromotedAt
  <1>5. ForeignStays'
    <2> SUFFICES ASSUME NEW t \in Ticket, Foreign(t)', ~ Gone(t)' PROVE ParkedAt(t)'
      BY DEF ForeignStays, ParkedAt
    <2>1. Foreign(t) /\ ~ Gone(t)
      BY <1>2
    <2>2. /\ store[t]["armed"] = "torn" => api.tk = t /\ api.pc = "fill" /\ api.dir = "armed"
          /\ api.tk = t /\ api.pc \in {"decide", "rename"} => store[t][api.dir] # "torn"
          /\ api.tk = t /\ api.pc \in {"decide", "rename", "fill"} /\ api.dir = "draft" => Exists(t, "draft")
          /\ PastArmed(t) => ~ Exists(t, "armed") /\ ~ FromArmed(t)
          /\ FromArmed(t) => FoundFirst(t)
          /\ Parking(t) => Exists(t, "blocked")
      BY <2>1 DEF StaysInv, ForeignStays, ParkedAt
    <2>3. api.tk = t /\ api.pc \in {"decide", "rename", "fill"} => api.dir \in Waiting
      BY <2>1 DEF IInv, ApiInv, Gone
    <2>4. FoundFirst(t)' <=> FoundFirst(t)
      BY <1>1, <2>3 DEF FoundFirst, Readable, Exists
    <2> QED BY <1>1, <1>2, <2>2, <2>3, <2>4 DEF ParkedAt
  <1>6. NoTicketVanishes'
    BY <1>1, <1>2, Remains DEF StaysInv
  <1> QED BY <1>3, <1>4, <1>5, <1>6 DEF StaysInv

LEMMA PutAt ==
  ASSUME TypeOK, NEW t \in Ticket, NEW d \in STATES, NEW c \in Content, store' = Put(t, d, c)
  PROVE  \A u \in Ticket, e \in STATES :
            store'[u][e] = IF u = t /\ e = d THEN c ELSE store[u][e]
  BY PutIsAStore

LEMMA FillAt ==
  ASSUME TypeOK, NEW t \in Ticket, NEW d \in STATES, NEW c \in Content, store' = Fill(t, d, c)
  PROVE  \A u \in Ticket, e \in STATES :
            store'[u][e] = IF u = t /\ e = d /\ store[t][d] # "none" THEN c ELSE store[u][e]
  BY FillIsAStore

LEMMA WritesElsewhere ==
  ASSUME TypeOK, NEW t \in Ticket, NEW d \in STATES, d \notin Waiting, NEW c \in Content,
         store' = Put(t, d, c) \/ store' = Fill(t, d, c)
  PROVE  \A u \in Ticket, e \in Waiting : store'[u][e] = store[u][e]
  <1>1. Waiting \subseteq STATES
    BY DEF Waiting
  <1>2. CASE store' = Put(t, d, c)
    BY <1>1, <1>2, PutIsAStore
  <1>3. CASE store' = Fill(t, d, c)
    BY <1>1, <1>3, FillIsAStore
  <1> QED BY <1>2, <1>3

LEMMA CompleterKeepsStays ==
  ASSUME IInv, StaysInv, NEW a \in Agent, Completer(a) \/ Complete(a)
  PROVE  StaysInv'
  <1>1. /\ TypeOK /\ comp[a] \in CompleterState
        /\ comp[a].pc # "idle" => comp[a].tk \in Ticket
    BY DEF IInv, TypeOK, CompleterInv
  <1>2. /\ comp[a].fin \in STATES \cap Content /\ comp[a].fin \notin Waiting
        /\ "running" \in STATES /\ "torn" \in Content /\ "none" \in Content
        /\ "running" \notin Waiting /\ Waiting \subseteq STATES
    BY <1>1 DEF CompleterState, STATES, Content, Waiting, Begun
  <1>3. UNCHANGED <<disp, api, deps, known, deleted>>
    BY DEF Completer, Complete, CFind, CWrite, CFill, CUnlink, CArchive, history
  <1>4. \A t \in Ticket, d \in Waiting : store'[t][d] = store[t][d]
    <2>1. CASE Complete(a) \/ CArchive(a)
      BY <2>1 DEF Complete, CFind, CArchive
    <2>2. CASE CWrite(a)
      BY <1>1, <1>2, <2>2, WritesElsewhere DEF CWrite, Truncate
    <2>3. CASE CFill(a)
      BY <1>1, <1>2, <2>3, WritesElsewhere DEF CFill
    <2>4. CASE CUnlink(a)
      BY <1>1, <1>2, <2>4, WritesElsewhere DEF CUnlink
    <2> QED BY <2>1, <2>2, <2>3, <2>4 DEF Completer
  <1> QED BY <1>3, <1>4, CompleterKeepsContract, WaitingSameKeeps

LEMMA DispatcherKeepsStays ==
  ASSUME IInv, StaysInv, Dispatcher
  PROVE  StaysInv'
  <1> USE DEF history
  <1>1. /\ TypeOK /\ DispatcherInv /\ ApiInv /\ disp \in DispatcherState /\ known \subseteq Ticket
        /\ disp.src \in {"blocked", "armed", "running", "done", "failed"}
        /\ disp.w \in {"none", "armed", "blocked", "running", "done", "failed"}
        /\ ArmedIsReady /\ NoArmedIsParked /\ MovesAreReady /\ PromotedStays /\ ForeignStays
        /\ NoTicketVanishes
    BY DEF IInv, TypeOK, DispatcherState, StaysInv
  <1>2. disp.pc \notin {"list", "gate", "read"} => disp.tk \in Ticket /\ disp.tk \in known
    BY <1>1 DEF DispatcherInv
  <1>3. Kept /\ UNCHANGED <<api, deps, known, deleted>>
    BY DispatcherKeepsContract DEF Dispatcher, DList, DGateClosed, DGateOpen, DRead, DReadFails,
           DPromote, DStayBlocked, DUnmet, DPark, DStart, DFill, DUnlink, DPush, DMark, DExpire
  <1>4. /\ {"draft", "armed", "blocked"} \subseteq Waiting /\ Waiting \subseteq STATES
        /\ {"running", "done", "failed"} \subseteq STATES \cap Begun
        /\ STATES \subseteq Content /\ "torn" \in Content /\ "none" \in Content
        /\ Waiting \cap {"running", "done", "failed", "none"} = {} /\ "none" \notin STATES
        /\ "armed" \in STATES /\ "blocked" \in STATES /\ "running" \in STATES
    BY DEF STATES, Content, Begun, Waiting
  <1>5. \A S : disp.pc \in {"list", "gate", "read", "check", "push", "fill", "unlink"} =>
           /\ Continue(S).pc \in {"list", "gate", "read"}
           /\ NextPhase(disp.i, disp.src).pc \in {"list", "gate"}
    BY <1>1 DEF Continue, NextPhase, Phase, DispatcherState
  <1>6. ASSUME store' = store PROVE NoTicketVanishes'
    <2>1. \A t \in Ticket, d \in STATES : Exists(t, d)' <=> Exists(t, d)
      BY <1>6 DEF Exists
    <2> QED BY <1>1, <1>3, <2>1, <1>4 DEF NoTicketVanishes
  \* What holds of each ticket whatever the dispatcher does.
  <1>7. \A t \in Ticket : /\ PastArmed(t)' <=> PastArmed(t)
                          /\ Foreign(t)' <=> Foreign(t)
                          /\ Gone(t) => Gone(t)'
                          /\ AllDepsDone(t) => AllDepsDone(t)'
                          /\ Started(t) => Started(t)'
    BY <1>1, <1>3, ForeignStands, GoneStands, ReadyStands, StartsStand DEF PastArmed
  \* Steps that look, and hold nothing afterwards.
  <1>8. CASE \/ DList \/ DGateClosed \/ DGateOpen \/ DStayBlocked \/ DPush
             \/ \E t \in Ticket : DReadFails(t)
    <2>1. store' = store /\ disp'.pc \in {"list", "gate", "read"}
      <3>1. CASE DList
        BY <1>5, <3>1 DEF DList
      <3>2. CASE DGateClosed \/ DGateOpen
        BY <1>1, <1>5, <3>2 DEF DGateClosed, DGateOpen, DispatcherState
      <3>3. CASE DStayBlocked
        BY <1>5, <3>3 DEF DStayBlocked
      <3>4. CASE DPush
        BY <1>5, <3>4 DEF DPush
      <3>5. ASSUME NEW t \in Ticket, DReadFails(t)
            PROVE  store' = store /\ disp'.pc \in {"list", "gate", "read"}
        BY <1>5, <3>5 DEF DReadFails
      <3> QED BY <1>8, <3>1, <3>2, <3>3, <3>4, <3>5
    <2> QED BY <1>3, <1>6, <2>1, ReleasesStays
  <1>9. ASSUME NEW t \in Ticket, DRead(t) PROVE StaysInv'
    <2>1. store' = store /\ disp.pc = "read" /\ Readable(t, disp.src)
      BY <1>9 DEF DRead
    <2>2. CASE disp.src # "armed"
      <3>1. CASE disp.src = "blocked"
        <4>1. disp'.pc = "check" /\ disp'.src = "blocked"
          BY <1>1, <1>9, <3>1 DEF DRead, DispatcherState
        <4> QED BY <1>3, <1>6, <2>1, <4>1, ReleasesStays
      <3>2. CASE disp.src \in {"running", "done", "failed"}
        <4>1. \/ disp' = Continue(disp.todo \ {t})
              \/ \E pc \in {"expire", "notify"} : disp' = [disp EXCEPT !.pc = pc, !.tk = t]
          BY <1>9, <3>2 DEF DRead
        <4>2. \A pc \in {"expire", "notify"} : [disp EXCEPT !.pc = pc, !.tk = t].pc = pc
          BY <1>1 DEF DispatcherState
        <4>3. disp'.pc \notin {"check", "park", "fill", "unlink"}
          <5>1. Continue(disp.todo \ {t}).pc \in {"list", "gate", "read"}
            BY <1>5, <2>1
          <5> QED BY <4>1, <4>2, <5>1
        <4> QED BY <1>3, <1>6, <2>1, <4>3, ReleasesStays
      <3> QED BY <1>1, <2>2, <3>1, <3>2
    <2>3. CASE disp.src = "armed"
      <3>1. disp'.pc = "check" /\ disp'.tk = t /\ disp'.src = "armed"
        BY <1>1, <1>9, <2>3 DEF DRead, DispatcherState
      <3>2. Readable(t, "armed") /\ Exists(t, "armed")
        BY <2>1, <2>3 DEF Readable, Exists
      <3>3. \A u \in Ticket : /\ FromArmed(u)' <=> u = t
                              /\ ~ Promoting(u)' /\ ~ Parking(u)'
        BY <3>1 DEF FromArmed, Promoting, Parking
      <3>4. ArmedIsReady' /\ NoArmedIsParked'
        BY <1>1, <1>3, <1>7, <2>1 DEF ArmedIsReady, ReadyAt, NoArmedIsParked, Exists
      <3>5. MovesAreReady'
        BY <1>1, <1>7, <3>1, <3>2, <3>3 DEF MovesAreReady, ArmedIsReady, ReadyAt
      <3>6. PromotedStays'
        BY <3>3 DEF PromotedStays, PromotedAt
      <3>7. ForeignStays'
        <4> SUFFICES ASSUME NEW u \in Ticket, Foreign(u)', ~ Gone(u)'
                     PROVE  /\ store'[u]["armed"] = "torn" => api.tk = u /\ api.pc = "fill" /\ api.dir = "armed"
                            /\ api.tk = u /\ api.pc \in {"decide", "rename"} => store'[u][api.dir] # "torn"
                            /\ api.tk = u /\ api.pc \in {"decide", "rename", "fill"} /\ api.dir = "draft" => Exists(u, "draft")'
                            /\ PastArmed(u) => ~ Exists(u, "armed")' /\ u # t
                            /\ u = t => FoundFirst(u)'
          BY <1>3, <1>7, <3>3 DEF ForeignStays, ParkedAt
        <4>1. Foreign(u) /\ ~ Gone(u)
          BY <1>7
        <4>2. /\ store[u]["armed"] = "torn" => api.tk = u /\ api.pc = "fill" /\ api.dir = "armed"
              /\ api.tk = u /\ api.pc \in {"decide", "rename"} => store[u][api.dir] # "torn"
              /\ api.tk = u /\ api.pc \in {"decide", "rename", "fill"} /\ api.dir = "draft" => Exists(u, "draft")
              /\ PastArmed(u) => ~ Exists(u, "armed")
          BY <1>1, <4>1 DEF ForeignStays, ParkedAt
        <4>3. PastArmed(u) => u # t
          BY <3>2, <4>2
        <4>4. u = t => FoundFirst(u)'
          BY <1>1, <1>3, <2>1, <3>2, <4>2, <4>3 DEF FoundFirst, Readable, Exists, PastArmed
        <4> QED BY <2>1, <4>2, <4>3, <4>4 DEF Exists
      <3> QED BY <1>6, <2>1, <3>4, <3>5, <3>6, <3>7 DEF StaysInv
    <2> QED BY <2>2, <2>3
  \* What ForeignStays says of a ticket whose waiting files are the same and which
  \* the dispatcher does not hold.
  <1>10. ASSUME NEW u \in Ticket, \A d \in Waiting : store'[u][d] = store[u][d],
                ~ FromArmed(u)'
         PROVE  ParkedAt(u)'
    <2>1. SUFFICES ASSUME Foreign(u)', ~ Gone(u)'
                   PROVE  /\ store'[u]["armed"] = "torn" => api.tk = u /\ api.pc = "fill" /\ api.dir = "armed"
                          /\ api.tk = u /\ api.pc \in {"decide", "rename"} => store'[u][api.dir] # "torn"
                          /\ api.tk = u /\ api.pc \in {"decide", "rename", "fill"} /\ api.dir = "draft" => Exists(u, "draft")'
                          /\ PastArmed(u)' => ~ Exists(u, "armed")'
      BY <1>3, <1>10 DEF Parking, FromArmed, ParkedAt
    <2>2. Foreign(u) /\ ~ Gone(u)
      BY <1>7, <2>1
    <2>3. api.tk = u /\ api.pc \in {"decide", "rename"} => api.dir \in Waiting
      BY <1>1, <2>2 DEF ApiInv, Gone
    <2> QED BY <1>1, <1>4, <1>7, <1>10, <2>2, <2>3 DEF ForeignStays, ParkedAt, Exists
  <1>11. CASE DUnmet
    <2>1. /\ disp.pc = "check" /\ disp.src = "armed" /\ store' = store /\ disp.tk \in Ticket
          /\ disp'.pc = "park" /\ disp'.tk = disp.tk /\ disp'.src = "armed"
      BY <1>1, <1>2, <1>11 DEF DUnmet, DispatcherState
    <2>2. \A u \in Ticket : /\ FromArmed(u)' <=> FromArmed(u)
                            /\ FromArmed(u) <=> u = disp.tk
                            /\ ~ Promoting(u)' /\ ~ Parking(u)'
      BY <2>1 DEF FromArmed, Promoting, Parking
    <2>3. Foreign(disp.tk)
      <3>1. AllDepsDone(disp.tk)
        BY <1>1, <2>1, <2>2 DEF MovesAreReady
      <3> QED BY <1>11, <3>1 DEF DUnmet, AllDepsDone, AllDepsDoneInConfig, Foreign
    <2>4. ArmedIsReady' /\ NoArmedIsParked'
      BY <1>1, <1>3, <1>7, <2>1 DEF ArmedIsReady, ReadyAt, NoArmedIsParked, Exists
    <2>5. MovesAreReady'
      BY <1>1, <1>7, <2>1, <2>2, <2>3 DEF MovesAreReady
    <2>6. PromotedStays'
      BY <2>2 DEF PromotedStays, PromotedAt
    <2>7. ForeignStays'
      <3> SUFFICES ASSUME NEW u \in Ticket, u = disp.tk, Foreign(u)', ~ Gone(u)'
                   PROVE  ParkedAt(u)'
        BY <1>3, <1>10, <2>1, <2>2 DEF ForeignStays, ParkedAt
      <3>1. Foreign(u) /\ ~ Gone(u) /\ FromArmed(u)
        BY <1>7, <2>2
      <3>2. FoundFirst(u) /\ ~ PastArmed(u)
        BY <1>1, <3>1 DEF ForeignStays, ParkedAt
      <3>3. FoundFirst(u)'
        BY <1>3, <2>1, <3>2 DEF FoundFirst, Readable, Exists
      <3> QED BY <1>1, <1>3, <1>7, <2>1, <2>2, <3>1, <3>2, <3>3 DEF ForeignStays, ParkedAt, Exists
    <2> QED BY <1>6, <2>1, <2>4, <2>5, <2>6, <2>7 DEF StaysInv
  <1>12. CASE DPark
    <2>1. /\ disp.pc = "park" /\ disp.src = "armed" /\ disp.tk \in Ticket
          /\ store' = Put(disp.tk, "blocked", "torn")
          /\ disp'.pc = "fill" /\ disp'.tk = disp.tk /\ disp'.src = "armed" /\ disp'.w = "blocked"
      BY <1>1, <1>2, <1>12 DEF DPark, Truncate, DispatcherInv, DispatcherState
    <2>2. \A u \in Ticket : /\ FromArmed(u)' <=> u = disp.tk
                            /\ FromArmed(u) <=> u = disp.tk
                            /\ Parking(u)' <=> u = disp.tk
                            /\ ~ Promoting(u)'
      BY <2>1 DEF FromArmed, Promoting, Parking
    <2>3. \A u \in Ticket, d \in STATES :
            store'[u][d] = IF u = disp.tk /\ d = "blocked" THEN "torn" ELSE store[u][d]
      BY <1>1, <1>4, <2>1, PutAt
    <2>4. ArmedIsReady' /\ NoArmedIsParked'
      BY <1>1, <1>3, <1>4, <1>7, <2>3 DEF ArmedIsReady, ReadyAt, NoArmedIsParked, Exists
    <2>5. MovesAreReady'
      BY <1>1, <1>7, <2>1, <2>2 DEF MovesAreReady
    <2>6. PromotedStays'
      BY <2>2 DEF PromotedStays, PromotedAt
    <2>7. ForeignStays'
      <3>1. ASSUME NEW u \in Ticket, u = disp.tk, Foreign(u)', ~ Gone(u)'
            PROVE  ParkedAt(u)'
        <4>1. Foreign(u) /\ ~ Gone(u) /\ FromArmed(u)
          BY <1>7, <2>2, <3>1
        <4>2. FoundFirst(u) /\ ~ PastArmed(u)
          BY <1>1, <4>1 DEF ForeignStays, ParkedAt
        <4>3. api.tk = u /\ api.pc \in {"decide", "rename", "fill"} => api.dir \in {"draft", "armed"}
          BY <4>2 DEF PastArmed
        <4>4. FoundFirst(u)'
          BY <1>3, <1>4, <2>3, <4>2, <4>3 DEF FoundFirst, Readable, Exists
        <4> QED BY <1>1, <1>3, <1>4, <1>7, <2>3, <3>1, <4>1, <4>2, <4>3, <4>4 DEF ForeignStays, ParkedAt, Exists
      <3>2. ASSUME NEW u \in Ticket, u # disp.tk
            PROVE  (\A d \in Waiting : store'[u][d] = store[u][d]) /\ ~ FromArmed(u)'
        BY <1>4, <2>2, <2>3, <3>2
      <3> QED BY <1>3, <1>10, <3>1, <3>2 DEF ForeignStays, ParkedAt
    <2>8. NoTicketVanishes'
      BY <1>1, <1>3, <1>4, <2>3, Remains DEF Exists
    <2> QED BY <2>4, <2>5, <2>6, <2>7, <2>8 DEF StaysInv
  <1>13. CASE DPromote
    <2>1. /\ disp.tk \in Ticket /\ store' = Put(disp.tk, "armed", "torn")
          /\ disp'.pc = "fill" /\ disp'.tk = disp.tk /\ disp'.src = "blocked" /\ disp'.w = "armed"
      BY <1>1, <1>2, <1>13 DEF DPromote, Truncate, DispatcherState
    <2>2. AllDepsDone(disp.tk) /\ ~ Foreign(disp.tk)
      BY <1>13 DEF DPromote, AllDepsDoneInConfig, AllDepsDone, Foreign
    <2>3. \A u \in Ticket : /\ ~ FromArmed(u)' /\ ~ Parking(u)'
                            /\ Promoting(u)' <=> u = disp.tk
      BY <2>1 DEF FromArmed, Promoting, Parking
    <2>4. \A u \in Ticket, d \in STATES :
            store'[u][d] = IF u = disp.tk /\ d = "armed" THEN "torn" ELSE store[u][d]
      BY <1>1, <1>4, <2>1, PutAt
    <2>5. ArmedIsReady' /\ NoArmedIsParked'
      BY <1>1, <1>3, <1>4, <1>7, <2>2, <2>4 DEF ArmedIsReady, ReadyAt, NoArmedIsParked, Exists
    <2>6. MovesAreReady'
      BY <1>1, <1>7, <2>1, <2>2, <2>3 DEF MovesAreReady
    <2>7. PromotedStays'
      BY <1>4, <2>1, <2>3, <2>4 DEF PromotedStays, PromotedAt, Exists
    <2>8. ForeignStays'
      <3>1. ASSUME NEW u \in Ticket, Foreign(u)'
            PROVE  (\A d \in Waiting : store'[u][d] = store[u][d]) /\ ~ FromArmed(u)'
        BY <1>4, <1>7, <2>2, <2>3, <2>4, <3>1
      <3> QED BY <1>3, <1>10, <3>1 DEF ForeignStays, ParkedAt
    <2>9. NoTicketVanishes'
      BY <1>1, <1>3, <1>4, <2>4, Remains DEF Exists
    <2> QED BY <2>5, <2>6, <2>7, <2>8, <2>9 DEF StaysInv
  <1>14. CASE DStart
    <2>1. /\ disp.pc = "check" /\ disp.src = "armed"
          /\ disp.tk \in Ticket /\ store' = Put(disp.tk, "running", "torn")
          /\ disp'.pc = "fill" /\ disp'.tk = disp.tk /\ disp'.src = "armed" /\ disp'.w = "running"
      BY <1>1, <1>2, <1>14 DEF DStart, Truncate, DispatcherState
    <2>2. \A u \in Ticket : /\ FromArmed(u)' <=> u = disp.tk
                            /\ FromArmed(u) <=> u = disp.tk
                            /\ ~ Promoting(u)' /\ ~ Parking(u)'
      BY <2>1 DEF FromArmed, Promoting, Parking
    <2>3. \A u \in Ticket, d \in STATES :
            store'[u][d] = IF u = disp.tk /\ d = "running" THEN "torn" ELSE store[u][d]
      BY <1>1, <1>4, <2>1, PutAt
    <2>4. Started(disp.tk)'
      BY <1>4, <2>1, <2>3 DEF Started, Exists, Begun
    <2>5. \A u \in Ticket, d \in Waiting : store'[u][d] = store[u][d]
      BY <1>4, <2>3
    <2>6. ArmedIsReady' /\ NoArmedIsParked'
      BY <1>1, <1>3, <1>4, <1>7, <2>5 DEF ArmedIsReady, ReadyAt, NoArmedIsParked, Exists
    <2>7. MovesAreReady'
      BY <1>1, <1>7, <2>1, <2>2, <2>4 DEF MovesAreReady
    <2>8. PromotedStays'
      BY <2>2 DEF PromotedStays, PromotedAt
    <2>9. ForeignStays'
      <3> SUFFICES ASSUME NEW u \in Ticket, Foreign(u)', ~ Gone(u)'
                   PROVE  u # disp.tk
        BY <1>3, <1>10, <2>2, <2>5 DEF ForeignStays, ParkedAt
      <3> QED BY <2>1, <2>4 DEF Gone
    <2>10. NoTicketVanishes'
      BY <1>1, <1>3, <1>4, <2>5, Remains DEF Exists
    <2> QED BY <2>6, <2>7, <2>8, <2>9, <2>10 DEF StaysInv
  <1>15. CASE DMark \/ DExpire
    <2>1. PICK d \in {"done", "failed"} :
            /\ disp.tk \in Ticket /\ store' = Put(disp.tk, d, "torn")
            /\ disp'.pc = "fill" /\ disp'.src = disp.src /\ disp'.w = d
            /\ disp.src \notin {"armed", "blocked"}
      BY <1>1, <1>2, <1>15 DEF DMark, DExpire, Truncate, DispatcherInv, DispatcherState
    <2>2. \A u \in Ticket, e \in Waiting : store'[u][e] = store[u][e]
      BY <1>1, <1>4, <2>1, WritesElsewhere
    <2>3. NoTicketVanishes'
      BY <1>1, <1>3, <1>4, <2>2, Remains DEF Exists
    <2> QED BY <1>3, <2>1, <2>2, <2>3, ReleasesStays
  <1>16. CASE DFill
    <2>1. /\ disp.pc = "fill" /\ disp.tk \in Ticket /\ disp.w # "none"
          /\ store' = Fill(disp.tk, disp.w, disp.w)
      BY <1>1, <1>2, <1>16 DEF DFill, DispatcherInv
    <2>2. disp.w \in STATES /\ disp.w \in Content
      BY <1>1, <1>4, <2>1
    <2>3. \A u \in Ticket, d \in STATES : Exists(u, d)' <=> Exists(u, d)
      BY <1>1, <2>1, <2>2, FillAdds
    <2>4. NoTicketVanishes'
      BY <1>1, <1>3, <1>4, <2>3, Remains
    <2>5. CASE disp.src \notin {"armed", "blocked"}
      <3>1. disp.w \in {"done", "failed"}
        BY <1>1, <2>1, <2>5 DEF MovesAreReady
      <3>2. \A u \in Ticket, d \in Waiting : store'[u][d] = store[u][d]
        BY <1>1, <1>4, <2>1, <2>2, <3>1, WritesElsewhere
      <3>3. \/ disp'.pc \in {"list", "gate", "read"}
            \/ disp'.pc = "unlink" /\ disp'.src = disp.src /\ disp'.w = disp.w
        <4>1. CASE disp.src \in {"done", "failed"}
          BY <1>5, <1>16, <2>1, <4>1 DEF DFill
        <4>2. CASE disp.src \notin {"done", "failed"}
          BY <1>1, <1>16, <4>2 DEF DFill, DispatcherState
        <4> QED BY <4>1, <4>2
      <3> QED BY <1>3, <2>4, <2>5, <3>1, <3>2, <3>3, ReleasesStays
    <2>6. CASE disp.src \in {"armed", "blocked"}
      <3>1. /\ disp'.pc = "unlink" /\ disp'.tk = disp.tk
            /\ disp'.src = disp.src /\ disp'.w = disp.w
        BY <1>1, <1>16, <2>6 DEF DFill, DispatcherState
      <3>2. \A u \in Ticket : /\ FromArmed(u)' <=> FromArmed(u)
                              /\ Parking(u)' <=> Parking(u)
                              /\ Promoting(u)' <=> Promoting(u)
        BY <2>1, <3>1 DEF FromArmed, Promoting, Parking
      <3>3. ArmedIsReady' /\ NoArmedIsParked'
        BY <1>1, <1>3, <1>4, <1>7, <2>3 DEF ArmedIsReady, ReadyAt, NoArmedIsParked
      <3>4. MovesAreReady'
        BY <1>1, <1>7, <2>1, <3>1, <3>2 DEF MovesAreReady
      <3>5. PromotedStays'
        BY <1>1, <1>3, <1>4, <1>7, <2>3, <3>2 DEF PromotedStays, PromotedAt
      <3>6. \A u \in Ticket, d \in STATES :
              store'[u][d] = IF u = disp.tk /\ d = disp.w /\ store[disp.tk][disp.w] # "none"
                             THEN disp.w ELSE store[u][d]
        BY <1>1, <2>1, <2>2, FillAt
      <3>7. ForeignStays'
        <4>1. ASSUME NEW u \in Ticket, ~ FromArmed(u), Foreign(u)'
              PROVE  (\A d \in Waiting : store'[u][d] = store[u][d]) /\ ~ FromArmed(u)'
          <5>1. u # disp.tk
            <6>1. Foreign(u)
              BY <1>7, <4>1
            <6> QED BY <1>1, <2>1, <2>6, <4>1, <6>1 DEF FromArmed, Promoting, MovesAreReady
          <5> QED BY <1>4, <3>2, <3>6, <4>1, <5>1
        <4>2. ASSUME NEW u \in Ticket, FromArmed(u), Foreign(u)', ~ Gone(u)'
              PROVE  ParkedAt(u)'
          <5>1. Foreign(u) /\ ~ Gone(u)
            BY <1>7, <4>2
          <5>2. /\ store[u]["armed"] = "torn" => api.tk = u /\ api.pc = "fill" /\ api.dir = "armed"
                /\ api.tk = u /\ api.pc \in {"decide", "rename"} => store[u][api.dir] # "torn"
                /\ api.tk = u /\ api.pc \in {"decide", "rename", "fill"} /\ api.dir = "draft" => Exists(u, "draft")
                /\ ~ PastArmed(u) /\ FoundFirst(u) /\ (Parking(u) => Exists(u, "blocked"))
            BY <1>1, <4>2, <5>1 DEF ForeignStays, ParkedAt
          <5>3. api.tk = u /\ api.pc \in {"decide", "rename", "fill"} => api.dir \in {"draft", "armed"}
            BY <5>2 DEF PastArmed
          <5>4. \A d \in {"draft", "armed"} : store'[u][d] = store[u][d]
            <6>1. disp.w \notin {"draft", "armed"}
              BY <1>1, <2>1, <4>2 DEF FromArmed, MovesAreReady
            <6> QED BY <1>4, <3>6, <6>1
          <5>5. FoundFirst(u)'
            BY <1>3, <5>2, <5>3, <5>4 DEF FoundFirst, Readable, Exists
          <5> QED BY <1>3, <1>4, <1>7, <2>3, <3>2, <5>2, <5>3, <5>4, <5>5 DEF ParkedAt
        <4> QED BY <1>3, <1>10, <4>1, <4>2 DEF ForeignStays, ParkedAt
      <3> QED BY <2>4, <3>3, <3>4, <3>5, <3>7 DEF StaysInv
    <2> QED BY <2>5, <2>6
  <1>17. CASE DUnlink
    <2>1. /\ disp.pc = "unlink" /\ disp.tk \in Ticket /\ disp.src \in {"blocked", "armed", "running"}
          /\ store' = Put(disp.tk, disp.src, "none")
      BY <1>1, <1>2, <1>17 DEF DUnlink, DispatcherInv
    <2>2. \A u \in Ticket, d \in STATES :
            store'[u][d] = IF u = disp.tk /\ d = disp.src THEN "none" ELSE store[u][d]
      <3>1. disp.src \in STATES
        BY <1>4, <2>1
      <3> QED BY <1>1, <1>4, <2>1, <3>1, PutAt
    <2>3. disp'.pc \in {"list", "gate", "read", "push"}
      <3>1. CASE disp.w = "running"
        BY <1>1, <1>17, <3>1 DEF DUnlink, DispatcherState
      <3>2. CASE disp.w # "running"
        BY <1>5, <1>17, <2>1, <3>2 DEF DUnlink
      <3> QED BY <3>1, <3>2
    <2>4. \A u \in Ticket, d \in Waiting :
            store'[u][d] = store[u][d] \/ (d # "draft" /\ store'[u][d] = "none")
      BY <1>4, <2>1, <2>2
    \* The file that is unlinked was not the last one.
    <2>5. NoTicketVanishes'
      <3> SUFFICES ASSUME NEW u \in Ticket, NEW d \in Waiting, Exists(u, d), ~ Gone(u)'
                   PROVE  \E e \in STATES : Exists(u, e)'
        BY <1>1, <1>3, Remains
      <3>1. CASE u # disp.tk \/ d # disp.src
        BY <1>4, <2>2, <3>1 DEF Exists
      <3>2. CASE u = disp.tk /\ d = disp.src
        <4>1. ~ Gone(u) /\ disp.src \in {"armed", "blocked"}
          BY <1>4, <1>7, <2>1, <3>2
        <4>2. \E e \in {"draft", "armed", "blocked"} : e # disp.src /\ Exists(u, e)
          <5>1. CASE disp.src = "blocked"
            BY <1>1, <2>1, <3>2, <4>1, <5>1 DEF PromotedStays, PromotedAt, Promoting
          <5>2. CASE disp.src = "armed"
            <6>1. disp.w = "blocked"
              BY <1>1, <2>1, <3>2, <4>1, <5>2 DEF MovesAreReady, Gone
            <6>2. Foreign(u) /\ Parking(u)
              BY <1>1, <2>1, <3>2, <5>2, <6>1 DEF MovesAreReady, Parking
            <6> QED BY <1>1, <4>1, <5>2, <6>2 DEF ForeignStays, ParkedAt
          <5> QED BY <4>1, <5>1, <5>2
        <4> QED BY <1>4, <2>2, <3>2, <4>2 DEF Exists
      <3> QED BY <3>1, <3>2
    <2> QED BY <1>3, <2>3, <2>4, <2>5, ReleasesStays
  <1> QED BY <1>8, <1>9, <1>11, <1>12, <1>13, <1>14, <1>15, <1>16, <1>17 DEF Dispatcher

\* What an API step does not touch: the dispatcher, and what is known of tickets.
LEMMA ApiLeaves ==
  ASSUME IInv, StaysInv, Kept, disp' = disp, deleted \subseteq deleted',
         \A u \in known : deps'[u] = deps[u]
  PROVE  /\ \A u \in Ticket : /\ FromArmed(u)' <=> FromArmed(u)
                              /\ Parking(u)' <=> Parking(u)
                              /\ Promoting(u)' <=> Promoting(u)
                              /\ FromArmed(u) \/ Parking(u) \/ Promoting(u) => u \in known
         /\ \A u \in known : /\ Foreign(u)' <=> Foreign(u)
                             /\ Gone(u) => Gone(u)'
                             /\ AllDepsDone(u) => AllDepsDone(u)'
                             /\ Started(u) => Started(u)'
         /\ MovesAreReady'
  <1>1. /\ TypeOK /\ known \subseteq Ticket
        /\ disp.pc \notin {"list", "gate", "read"} => disp.tk \in known
    BY DEF IInv, TypeOK, DispatcherInv
  <1>2. \A u \in Ticket : /\ FromArmed(u)' <=> FromArmed(u)
                          /\ Parking(u)' <=> Parking(u)
                          /\ Promoting(u)' <=> Promoting(u)
                          /\ FromArmed(u) \/ Parking(u) \/ Promoting(u) => u \in known
    BY <1>1 DEF FromArmed, Parking, Promoting
  <1>3. \A u \in known : /\ Foreign(u)' <=> Foreign(u)
                         /\ Gone(u) => Gone(u)'
                         /\ AllDepsDone(u) => AllDepsDone(u)'
                         /\ Started(u) => Started(u)'
    BY <1>1, ForeignStands, GoneStands, ReadyStands, StartsStand
  <1>4. MovesAreReady'
    BY <1>1, <1>2, <1>3 DEF StaysInv, MovesAreReady
  <1> QED BY <1>2, <1>3, <1>4

\* A ticket that neither the request under way nor the next one is about.
LEMMA OthersStay ==
  ASSUME IInv, StaysInv, Kept, disp' = disp, deleted \subseteq deleted',
         NEW t \in Ticket, deps'[t] = deps[t],
         t # api'.tk, t # api.tk \/ api.pc \in {"idle", "create"},
         \A d \in Waiting : store'[t][d] = store[t][d]
  PROVE  ReadyAt(t)' /\ PromotedAt(t)' /\ ParkedAt(t)'
  <1>1. {"draft", "armed", "blocked"} \subseteq Waiting
    BY DEF Waiting, STATES, Begun
  <1>2. /\ FromArmed(t)' <=> FromArmed(t)
        /\ Parking(t)' <=> Parking(t)
        /\ Promoting(t)' <=> Promoting(t)
    BY DEF FromArmed, Parking, Promoting
  <1>3. /\ Foreign(t)' <=> Foreign(t)
        /\ Gone(t) => Gone(t)'
        /\ AllDepsDone(t) => AllDepsDone(t)'
    BY ForeignStands, GoneStands, ReadyStands DEF IInv
  <1>4. ReadyAt(t) /\ PromotedAt(t) /\ ParkedAt(t)
    BY DEF StaysInv, ArmedIsReady, PromotedStays, ForeignStays
  <1>5. ReadyAt(t)'
    BY <1>1, <1>3, <1>4 DEF ReadyAt, Exists
  <1>6. PromotedAt(t)'
    BY <1>1, <1>2, <1>3, <1>4 DEF PromotedAt, Exists
  <1>7. ParkedAt(t)'
    <2> SUFFICES ASSUME Foreign(t)', ~ Gone(t)' PROVE ParkedAt(t)'
      BY DEF ParkedAt
    <2>1. FromArmed(t) => Readable(t, "draft") \/ Readable(t, "armed")
      BY <1>3, <1>4 DEF ParkedAt, FoundFirst
    <2>2. FromArmed(t) => FoundFirst(t)'
      BY <1>1, <2>1 DEF FoundFirst, Readable
    <2>3. ~ PastArmed(t)'
      BY DEF PastArmed
    <2>4. store'[t]["armed"] # "torn"
      BY <1>1, <1>3, <1>4 DEF ParkedAt
    <2> QED BY <1>1, <1>2, <1>3, <1>4, <2>2, <2>3, <2>4 DEF ParkedAt, Exists
  <1> QED BY <1>5, <1>6, <1>7

\* The handler answers, or goes on to remove what nobody needs: what it wrote can
\* be read, and what it removed was to be deleted.
LEMMA AnswersStay ==
  ASSUME IInv, StaysInv, Kept, UNCHANGED <<disp, deps, known>>, deleted \subseteq deleted',
         api'.pc \in {"idle", "scaffold", "unlink", "rmtree", "archive"},
         api.pc \notin {"write", "create"},
         \A u \in Ticket : api.tk = u /\ api.pc = "unlink" => Gone(u)',
         \A u \in Ticket, d \in Waiting : Exists(u, d)' => Exists(u, d),
         \A u \in Ticket, d \in Waiting : ~ Gone(u)' =>
            \/ store'[u][d] = store[u][d] /\ ~ (api.pc = "fill" /\ api.tk = u /\ api.dir = d)
            \/ Exists(u, d) <=> Readable(u, d)',
         \A u \in Ticket, d \in Waiting : ~ Gone(u)' /\ Readable(u, d) => Readable(u, d)',
         \A u \in Ticket, d \in Waiting : ~ Gone(u)' /\ Exists(u, d) => Exists(u, d)',
         NoTicketVanishes'
  PROVE  StaysInv'
  <1>1. {"draft", "armed", "blocked"} \subseteq Waiting
    BY DEF Waiting, STATES, Begun
  <1>2. /\ \A u \in Ticket : /\ FromArmed(u)' <=> FromArmed(u)
                             /\ Parking(u)' <=> Parking(u)
                             /\ Promoting(u)' <=> Promoting(u)
        /\ MovesAreReady'
    BY ApiLeaves
  <1>3. \A u \in Ticket : /\ Foreign(u)' <=> Foreign(u)
                          /\ Gone(u) => Gone(u)'
                          /\ AllDepsDone(u) => AllDepsDone(u)'
    BY ForeignStands, GoneStands, ReadyStands DEF IInv
  <1>4. NoArmedIsParked'
    BY DEF NoArmedIsParked
  <1>5. ASSUME NEW u \in Ticket PROVE ReadyAt(u)' /\ PromotedAt(u)' /\ ParkedAt(u)'
    <2>1. ReadyAt(u) /\ PromotedAt(u) /\ ParkedAt(u)
      BY DEF StaysInv, ArmedIsReady, PromotedStays, ForeignStays
    <2>2. ReadyAt(u)'
      BY <1>1, <1>3, <2>1 DEF ReadyAt
    <2>3. PromotedAt(u)'
      BY <1>1, <1>2, <1>3, <2>1 DEF PromotedAt
    <2>4. ParkedAt(u)'
      <3> SUFFICES ASSUME Foreign(u)', ~ Gone(u)' PROVE ParkedAt(u)'
        BY DEF ParkedAt
      <3>1. Foreign(u) /\ ~ Gone(u)
        BY <1>3
      <3>2. store'[u]["armed"] # "torn"
        BY <1>1, <2>1, <3>1 DEF ParkedAt, Readable, Exists
      <3>3. FromArmed(u) => FoundFirst(u)'
        <4> SUFFICES ASSUME FromArmed(u) PROVE Readable(u, "draft")' \/ Readable(u, "armed")'
          BY DEF FoundFirst
        <4>1. FoundFirst(u) /\ ~ PastArmed(u)
          BY <2>1, <3>1 DEF ParkedAt
        <4>2. CASE api.tk = u /\ api.pc = "fill"
          <5>1. api.dir \in {"draft", "armed"} /\ Exists(u, api.dir)
            BY <4>1, <4>2 DEF FoundFirst, PastArmed
          <5>2. Readable(u, "draft")' \/ Readable(u, "armed")'
            BY <1>1, <4>2, <5>1
          <5> QED BY <5>2
        <4>3. CASE ~ (api.tk = u /\ api.pc = "fill")
          <5>1. Readable(u, "draft") \/ Readable(u, "armed")
            BY <4>1, <4>3 DEF FoundFirst
          <5> QED BY <1>1, <5>1
        <4> QED BY <4>2, <4>3
      <3> QED BY <1>1, <1>2, <2>1, <3>1, <3>2, <3>3 DEF ParkedAt, PastArmed
    <2> QED BY <2>2, <2>3, <2>4
  <1> QED BY <1>2, <1>4, <1>5 DEF StaysInv, ArmedIsReady, PromotedStays, ForeignStays

\* DELETE of a ticket that has started touches no file that waits.
LEMMA DeleteStays ==
  ASSUME IInv, StaysInv, Kept, UNCHANGED <<disp, deps, known, deleted>>,
         NEW t \in Ticket, t = api.tk, t = api'.tk, Started(t), api'.op = "delete",
         api'.pc \in {"write", "fill", "rename", "archive"},
         api'.new = "cancelled", api'.dir \notin Waiting,
         \A u \in Ticket, d \in Waiting : store'[u][d] = store[u][d]
  PROVE  StaysInv'
  <1>1. {"draft", "armed", "blocked"} \subseteq Waiting /\ Waiting \subseteq STATES
    BY DEF Waiting, STATES, Begun
  <1>2. MovesAreReady' /\ NoArmedIsParked'
    BY ApiLeaves DEF NoArmedIsParked
  <1>3. Gone(t)' /\ (AllDepsDone(t) => AllDepsDone(t)')
    BY StartsStand, ReadyStands DEF Gone, IInv
  <1>4. ReadyAt(t)'
    <2>1. ReadyAt(t)
      BY DEF StaysInv, ArmedIsReady
    <2> QED BY <1>1, <1>3, <2>1 DEF ReadyAt, Exists
  <1>5. PromotedAt(t)' /\ ParkedAt(t)'
    BY <1>3 DEF PromotedAt, ParkedAt
  <1>6. \A u \in Ticket \ {t} : ReadyAt(u)' /\ PromotedAt(u)' /\ ParkedAt(u)'
    BY OthersStay
  <1>7. NoTicketVanishes'
    BY <1>1, Remains DEF StaysInv, Exists
  <1> QED BY <1>2, <1>4, <1>5, <1>6, <1>7 DEF StaysInv, ArmedIsReady, PromotedStays, ForeignStays

LEMMA ApiKeepsStays ==
  ASSUME IInv, StaysInv, Api \/ Request
  PROVE  StaysInv'
  <1> USE DEF history
  <1>1. /\ TypeOK /\ StatusFits /\ FilesAreKnown /\ ApiInv /\ api \in ApiState /\ known \subseteq Ticket
        /\ ArmedIsReady /\ NoArmedIsParked /\ MovesAreReady /\ PromotedStays /\ ForeignStays
        /\ NoTicketVanishes
        /\ api.pc \notin {"idle", "create"} => api.tk \in Ticket /\ api.tk \in known
    BY DEF IInv, TypeOK, StaysInv, ApiInv
  <1>2. Kept
    BY ApiKeepsContract
  <1>3. /\ {"draft", "armed", "blocked"} \subseteq Waiting /\ Waiting \subseteq STATES
        /\ STATES \subseteq Content /\ "torn" \in Content /\ "none" \in Content
        /\ Waiting \cap Begun = {} /\ {"none", "torn"} \cap STATES = {}
        /\ {"running", "cancelled"} \subseteq Begun /\ Begun \subseteq STATES
        /\ "draft" \in STATES /\ "armed" \in STATES /\ "blocked" \in STATES
    BY DEF STATES, Content, Begun, Waiting
  <1>4. \A u \in Ticket : ReadyAt(u) /\ PromotedAt(u) /\ ParkedAt(u)
    BY <1>1 DEF ArmedIsReady, PromotedStays, ForeignStays
  <1>5. ASSUME store' = store, known' = known, deleted' = deleted PROVE NoTicketVanishes'
    BY <1>1, <1>5 DEF NoTicketVanishes, Exists
  \* The handler answers without having changed a file.
  <1>6. ASSUME UNCHANGED <<store, deps, known, disp, deleted>>,
               api'.pc \in {"idle", "scaffold", "unlink", "rmtree", "archive"},
               api.pc \notin {"write", "create", "fill", "unlink"}
        PROVE  StaysInv'
    <2>1. NoTicketVanishes'
      BY <1>5, <1>6
    <2>2. \A u \in Ticket, d \in STATES : /\ Exists(u, d)' <=> Exists(u, d)
                                          /\ Readable(u, d)' <=> Readable(u, d)
      BY <1>6 DEF Exists, Readable
    <2> QED BY <1>2, <1>3, <1>6, <2>1, <2>2, AnswersStay
  <1>7. ApiIdle.pc = "idle"
    BY DEF ApiIdle
  <1>8. CASE AScaffold \/ ARenameFails \/ ARmtree \/ AArchive
    BY <1>6, <1>7, <1>8 DEF AScaffold, ARenameFails, ARmtree, AArchive, Done4xx
  <1>9. ASSUME NEW t \in Ticket, NEW D \in SUBSET known, NEW mode \in {"draft", "armed"},
               ACreate(t, D, mode)
        PROVE  StaysInv'
    <2>1. /\ api.pc = "idle" /\ t \notin known /\ UNCHANGED <<store, known, disp, deleted>>
          /\ deps' = [deps EXCEPT ![t] = D]
          /\ api'.pc = "create" /\ api'.tk = t
          /\ api'.new = IF mode = "armed" /\ \E d \in D : ~ Exists(d, "done") THEN "blocked" ELSE mode
      BY <1>9 DEF ACreate, ApiIdle
    <2>2. /\ \A u \in Ticket \ {t} : deps'[u] = deps[u]
          /\ deps'[t] = D
      BY <1>1, <2>1 DEF TypeOK
    <2>3. \A d \in STATES : ~ Exists(t, d) /\ ~ Exists(t, d)'
      BY <1>1, <2>1 DEF FilesAreKnown, Exists
    <2>4. \A u \in Ticket \ {t} : ReadyAt(u)' /\ PromotedAt(u)' /\ ParkedAt(u)'
      BY <1>2, <2>1, <2>2, OthersStay
    <2>5. ReadyAt(t)'
      <3>1. api'.new = "armed" => AllDepsDone(t)'
        BY <2>1, <2>2 DEF AllDepsDone, Exists
      <3> QED BY <1>3, <2>1, <2>3, <3>1 DEF ReadyAt
    <2>6. ~ FromArmed(t) /\ ~ Promoting(t) /\ ~ Parking(t) /\ MovesAreReady'
          /\ ~ FromArmed(t)' /\ ~ Promoting(t)' /\ ~ Parking(t)'
      BY <1>1, <1>2, <2>1, <2>2, ApiLeaves
    <2>7. PromotedAt(t)' /\ ParkedAt(t)'
      BY <1>3, <2>1, <2>3, <2>6 DEF PromotedAt, ParkedAt, PastArmed, Exists
    <2> QED BY <1>5, <2>1, <2>4, <2>5, <2>6, <2>7
            DEF StaysInv, ArmedIsReady, PromotedStays, ForeignStays, NoArmedIsParked
  \* The other requests: deps and known stay, what is left to show of a step is
  \* what it does to the ticket it is about.
  <1>10. ASSUME UNCHANGED <<store, deps, known, disp, deleted>>,
                NEW t \in Ticket, t = api'.tk, api.pc = "idle" \/ api.tk = t, t \in known,
                api'.pc \in {"find", "decide", "rename", "write"},
                api'.pc = "rename" /\ api'.op # "delete" =>
                   api'.new \in {"draft", "armed", "blocked"}
                   /\ (api'.new = "blocked" => api'.dir # "armed"),
                api'.pc = "rename" /\ api'.new = "armed" => AllDepsDone(t),
                api'.pc # "find" /\ api'.dir = "armed" => AllDepsDone(t),
                api'.pc = "rename" /\ api'.new = "blocked" => ~ AllDepsDone(t),
                Foreign(t) /\ ~ Gone(t) =>
                  /\ store[t]["armed"] # "torn"
                  /\ api'.pc \in {"decide", "rename"} => store[t][api'.dir] # "torn"
                  /\ api'.pc \in {"decide", "rename"} /\ api'.dir = "draft" => Exists(t, "draft")
                  /\ PastArmed(t)' => ~ Exists(t, "armed") /\ ~ FromArmed(t)
                  /\ FromArmed(t) =>
                       /\ api'.pc = "find" /\ api'.dir # "draft" => Readable(t, "armed")
                       /\ api'.pc \in {"decide", "rename"} => Readable(t, api'.dir)
                       /\ api'.pc = "write" \/ Readable(t, "draft") \/ Readable(t, "armed")
         PROVE  StaysInv'
    <2>1. \A u \in Ticket, d \in STATES : /\ Exists(u, d)' <=> Exists(u, d)
                                          /\ Readable(u, d)' <=> Readable(u, d)
      BY <1>10 DEF Exists, Readable
    <2>2. \A u \in Ticket \ {t} : ReadyAt(u)' /\ PromotedAt(u)' /\ ParkedAt(u)'
      BY <1>2, <1>10, OthersStay
    <2>3. /\ FromArmed(t)' <=> FromArmed(t)
          /\ Parking(t)' <=> Parking(t)
          /\ Promoting(t)' <=> Promoting(t)
          /\ Foreign(t)' <=> Foreign(t)
          /\ Gone(t) => Gone(t)'
          /\ AllDepsDone(t) => AllDepsDone(t)'
          /\ MovesAreReady'
      BY <1>2, <1>10, ApiLeaves
    <2>4. ReadyAt(t)'
      BY <1>3, <1>4, <1>10, <2>1, <2>3 DEF ReadyAt
    <2>5. PromotedAt(t)'
      <3>1. Promoting(t) => AllDepsDone(t)
        BY <1>1 DEF MovesAreReady
      <3> QED BY <1>3, <1>4, <1>10, <2>1, <2>3, <3>1 DEF PromotedAt
    <2>6. ParkedAt(t)'
      <3> SUFFICES ASSUME Foreign(t)', ~ Gone(t)' PROVE ParkedAt(t)'
        BY DEF ParkedAt
      <3>1. Foreign(t) /\ ~ Gone(t)
        BY <2>3
      <3>2. FromArmed(t) => FoundFirst(t)'
        BY <1>10, <3>1 DEF FoundFirst, Readable
      <3> QED BY <1>3, <1>4, <1>10, <2>1, <2>3, <3>1, <3>2 DEF ParkedAt
    <2>7. NoTicketVanishes' /\ NoArmedIsParked'
      BY <1>5, <1>10 DEF NoArmedIsParked
    <2> QED BY <2>2, <2>3, <2>4, <2>5, <2>6, <2>7
            DEF StaysInv, ArmedIsReady, PromotedStays, ForeignStays
  <1>11. ASSUME NEW op \in Ops, NEW t \in Ticket, ARequest(op, t) PROVE StaysInv'
    <2>1. /\ api.pc = "idle" /\ t \in known /\ UNCHANGED <<store, deps, known, disp, deleted>>
          /\ api'.pc = "find" /\ api'.tk = t /\ api'.dir = "draft"
      BY <1>11 DEF ARequest, ApiIdle
    <2>2. Foreign(t) /\ ~ Gone(t) =>
            /\ store[t]["armed"] # "torn"
            /\ FromArmed(t) => Readable(t, "draft") \/ Readable(t, "armed")
      BY <1>4, <2>1 DEF ParkedAt, FoundFirst
    <2>3. ~ PastArmed(t)'
      BY <2>1 DEF PastArmed
    <2> QED BY <1>10, <2>1, <2>2, <2>3
  <1>12. CASE AFindMisses
    <2>1. /\ api.pc = "find" /\ ~ Readable(api.tk, api.dir) /\ api.dir \in STATES
          /\ UNCHANGED <<store, deps, known, disp, deleted>>
      BY <1>1, <1>12 DEF AFindMisses, ApiInv
    <2>2. CASE Following[api.dir] = "none"
      BY <1>6, <1>7, <1>12, <2>1, <2>2 DEF AFindMisses, Done4xx
    <2>3. CASE Following[api.dir] # "none"
      <3>1. PICK t \in Ticket : t = api.tk /\ t \in known
        BY <1>1, <2>1
      <3>2. /\ api'.pc = "find" /\ api'.tk = t /\ api'.dir = Following[api.dir]
        BY <1>1, <1>12, <2>3, <3>1 DEF AFindMisses, ApiState
      <3>3. /\ api.dir = "draft" => api'.dir = "armed"
            /\ api.dir # "draft" => api'.dir \notin {"draft", "armed"}
        BY <2>1, <3>2 DEF Following, STATES
      <3>4. ASSUME Foreign(t), ~ Gone(t)
            PROVE  /\ store[t]["armed"] # "torn"
                   /\ PastArmed(t)' => ~ Exists(t, "armed") /\ ~ FromArmed(t)
                   /\ FromArmed(t) => Readable(t, "armed")
        <4>1. /\ store[t]["armed"] # "torn"
              /\ PastArmed(t) => ~ Exists(t, "armed") /\ ~ FromArmed(t)
              /\ FromArmed(t) => FoundFirst(t)
          BY <1>4, <2>1, <3>4 DEF ParkedAt
        <4>2. PastArmed(t)' => PastArmed(t) \/ api.dir = "armed"
          BY <2>1, <3>1, <3>2, <3>3 DEF PastArmed
        <4>3. FromArmed(t) => Readable(t, "armed")
          BY <2>1, <3>1, <4>1 DEF FoundFirst
        <4>4. api.dir = "armed" => ~ Exists(t, "armed") /\ ~ FromArmed(t)
          BY <2>1, <3>1, <4>1, <4>3 DEF Readable, Exists
        <4> QED BY <4>1, <4>2, <4>3, <4>4
      <3> QED BY <1>10, <2>1, <3>1, <3>2, <3>4
    <2> QED BY <2>2, <2>3
  <1>13. CASE AFinds
    <2>1. /\ api.pc = "find" /\ Readable(api.tk, api.dir) /\ api.dir \in STATES
          /\ UNCHANGED <<store, deps, known, disp, deleted>>
      BY <1>1, <1>13 DEF AFinds, ApiInv
    <2>2. PICK t \in Ticket : t = api.tk /\ t \in known
      BY <1>1, <2>1
    <2> DEFINE seen == store[api.tk][api.dir]
    <2>3. \/ api' = ApiIdle \/ api' = [api EXCEPT !.pc = "unlink"]
          \/ /\ api.op = "delete" /\ seen = "running"
             /\ api' = [api EXCEPT !.pc = "write", !.new = "cancelled"]
          \/ api.op # "delete" /\ seen \notin Begun
             /\ api' = [api EXCEPT !.pc = "write", !.new = seen]
          \/ api.op # "delete" /\ seen \notin Begun
             /\ api' = [api EXCEPT !.pc = "decide"]
      BY <1>13 DEF AFinds, Done4xx
    <2>4. Exists(t, api.dir) /\ Readable(t, api.dir)
      BY <2>1, <2>2 DEF Readable, Exists
    <2>5. CASE api' = ApiIdle \/ api' = [api EXCEPT !.pc = "unlink"]
      <3>1. api'.pc \in {"idle", "unlink"}
        BY <1>1, <1>7, <2>5 DEF ApiState
      <3> QED BY <1>6, <2>1, <3>1
    <2>6. CASE api.op = "delete" /\ seen = "running"
               /\ api' = [api EXCEPT !.pc = "write", !.new = "cancelled"]
      <3>1. /\ api'.pc = "write" /\ api'.new = "cancelled" /\ api'.tk = t /\ api'.op = "delete"
            /\ api'.dir = api.dir
        BY <1>1, <2>2, <2>6 DEF ApiState
      <3>2. api.dir \in {"running", "cancelled"}
        BY <1>1, <1>3, <2>1, <2>2, <2>6 DEF StatusFits, Fits
      <3>3. Started(t)
        BY <1>3, <2>4, <3>2 DEF Started
      <3> QED BY <1>2, <1>3, <2>1, <2>2, <3>1, <3>2, <3>3, DeleteStays
    <2>7. ASSUME \/ api' = [api EXCEPT !.pc = "write", !.new = seen]
                 \/ api' = [api EXCEPT !.pc = "decide"]
          PROVE  StaysInv'
      <3>1. /\ api'.pc \in {"write", "decide"} /\ api'.tk = t /\ api'.dir = api.dir
        BY <1>1, <2>2, <2>7 DEF ApiState
      <3>2. api.dir = "armed" => AllDepsDone(t)
        BY <1>4, <2>4 DEF ReadyAt
      <3>3. ASSUME Foreign(t), ~ Gone(t)
            PROVE  /\ store[t]["armed"] # "torn"
                   /\ PastArmed(t)' => ~ Exists(t, "armed") /\ ~ FromArmed(t)
                   /\ FromArmed(t) => Readable(t, "draft") \/ Readable(t, "armed")
        <4>1. /\ store[t]["armed"] # "torn"
              /\ PastArmed(t) => ~ Exists(t, "armed") /\ ~ FromArmed(t)
              /\ FromArmed(t) => FoundFirst(t)
          BY <1>4, <2>1, <3>3 DEF ParkedAt
        <4>2. PastArmed(t)' => PastArmed(t)
          BY <2>1, <2>2, <3>1 DEF PastArmed
        <4> QED BY <2>1, <4>1, <4>2 DEF FoundFirst
      <3>4. store[t][api.dir] # "torn"
        BY <2>4 DEF Readable
      <3> QED BY <1>10, <2>1, <2>2, <2>4, <3>1, <3>2, <3>3, <3>4
    <2> QED BY <2>3, <2>5, <2>6, <2>7
  <1>14. CASE ADecide
    <2>1. /\ api.pc = "decide" /\ api.op \in {"draft", "armed"} /\ api.dir \in Waiting
          /\ UNCHANGED <<store, deps, known, disp, deleted>>
      BY <1>1, <1>14 DEF ADecide, ApiInv
    <2>2. PICK t \in Ticket : t = api.tk /\ t \in known
      BY <1>1, <2>1
    <2>3. /\ api'.pc = "rename" /\ api'.tk = t /\ api'.dir = api.dir
          /\ api'.new = IF api.op = "armed" /\ ~ AllDepsDone(t) THEN "blocked" ELSE api.op
      BY <1>1, <1>14, <2>2 DEF ADecide, ApiState
    <2>4. api.dir = "armed" => AllDepsDone(t)
      BY <1>4, <2>1, <2>2 DEF ReadyAt
    <2>5. ASSUME Foreign(t), ~ Gone(t)
          PROVE  /\ store[t]["armed"] # "torn"
                 /\ store[t][api.dir] # "torn"
                 /\ api.dir = "draft" => Exists(t, "draft")
                 /\ PastArmed(t)' => ~ Exists(t, "armed") /\ ~ FromArmed(t)
                 /\ FromArmed(t) => /\ Readable(t, api.dir)
                                    /\ Readable(t, "draft") \/ Readable(t, "armed")
      <3>1. /\ store[t]["armed"] # "torn"
            /\ store[t][api.dir] # "torn"
            /\ api.dir = "draft" => Exists(t, "draft")
            /\ PastArmed(t) => ~ Exists(t, "armed") /\ ~ FromArmed(t)
            /\ FromArmed(t) => FoundFirst(t)
        BY <1>4, <2>1, <2>2, <2>5 DEF ParkedAt
      <3>2. PastArmed(t)' => PastArmed(t) \/ ~ AllDepsDone(t)
        BY <2>1, <2>2, <2>3 DEF PastArmed
      <3>3. ~ AllDepsDone(t) => ~ Exists(t, "armed") /\ ~ FromArmed(t)
        BY <1>1, <1>4 DEF ReadyAt, MovesAreReady
      <3> QED BY <2>1, <2>2, <3>1, <3>2, <3>3 DEF FoundFirst
    <2> QED BY <1>10, <2>1, <2>2, <2>3, <2>4, <2>5
  <1>15. CASE ARename
    <2>1. /\ api.pc = "rename" /\ Exists(api.tk, api.dir) /\ UNCHANGED <<deps, known, disp, deleted>>
          /\ store' = [store EXCEPT ![api.tk] =
                 [@ EXCEPT ![api.dir] = "none", ![api.new] = store[api.tk][api.dir]]]
      BY <1>15 DEF ARename
    <2>2. PICK t \in Ticket : t = api.tk /\ t \in known
      BY <1>1, <2>1
    <2>3. IF api.op = "delete"
          THEN api.dir \in {"running", "cancelled"} /\ api.new = "cancelled" /\ Started(t)
          ELSE api.dir \in Waiting /\ api.new \in {"draft", "armed", "blocked"}
      BY <1>1, <2>1, <2>2 DEF ApiInv, NoArmedIsParked
    <2>4. api.dir \in STATES /\ api.new \in STATES
      BY <1>3, <2>3
    <2>5. \A u \in Ticket, d \in STATES :
            store'[u][d] = IF u # t THEN store[u][d]
                           ELSE IF d = api.new THEN store[t][api.dir]
                           ELSE IF d = api.dir THEN "none" ELSE store[u][d]
      BY <1>1, <2>1, <2>2, <2>4 DEF TypeOK
    <2>6. CASE api.op = "delete"
      <3>1. /\ api'.pc = "archive" /\ api'.tk = t /\ api'.op = "delete"
            /\ api'.new = "cancelled" /\ api'.dir = api.dir
        BY <1>1, <1>15, <2>2, <2>3, <2>6 DEF ARename, ApiState
      <3>2. \A u \in Ticket, d \in Waiting : store'[u][d] = store[u][d]
        BY <1>3, <2>3, <2>5, <2>6
      <3> QED BY <1>2, <1>3, <2>1, <2>2, <2>3, <2>6, <3>1, <3>2, DeleteStays
    <2>7. CASE api.op # "delete"
      <3>1. /\ api'.pc = "write" /\ api'.tk = t /\ api'.dir = api.new
        BY <1>1, <1>15, <2>2, <2>7 DEF ARename, ApiState
      <3>2. \A u \in Ticket \ {t} : ReadyAt(u)' /\ PromotedAt(u)' /\ ParkedAt(u)'
        BY <1>2, <1>3, <2>1, <2>2, <2>5, <3>1, OthersStay
      <3>3. /\ FromArmed(t)' <=> FromArmed(t)
            /\ Parking(t)' <=> Parking(t)
            /\ Promoting(t)' <=> Promoting(t)
            /\ Foreign(t)' <=> Foreign(t)
            /\ Gone(t) => Gone(t)'
            /\ AllDepsDone(t) => AllDepsDone(t)'
            /\ MovesAreReady'
        BY <1>2, <2>1, <2>2, ApiLeaves
      <3>4. \A d \in STATES : Exists(t, d)' <=> d = api.new \/ (d # api.dir /\ Exists(t, d))
        BY <2>1, <2>2, <2>5 DEF Exists
      <3>5. api.new = "armed" => AllDepsDone(t)
        BY <1>4, <2>1, <2>2 DEF ReadyAt
      <3>6. api.new = "blocked" => api.dir # "armed"
        BY <1>1, <2>1, <2>7 DEF NoArmedIsParked
      <3>7. ReadyAt(t)'
        BY <1>3, <1>4, <3>1, <3>3, <3>4, <3>5 DEF ReadyAt
      <3>8. PromotedAt(t)'
        <4> SUFFICES ASSUME Promoting(t), ~ Gone(t) PROVE Exists(t, "armed")' \/ Exists(t, "draft")'
          BY <3>1, <3>3 DEF PromotedAt
        <4>1. \/ Exists(t, "armed")
              \/ Exists(t, "draft") /\ api.new # "blocked"
          BY <1>4, <2>1, <2>2 DEF PromotedAt
        <4> QED BY <1>3, <2>3, <2>7, <3>4, <3>6, <4>1
      <3>9. ParkedAt(t)'
        <4> SUFFICES ASSUME Foreign(t)', ~ Gone(t)' PROVE ParkedAt(t)'
          BY DEF ParkedAt
        <4>1. Foreign(t) /\ ~ Gone(t)
          BY <3>3
        <4>2. /\ store[t]["armed"] # "torn"
              /\ store[t][api.dir] # "torn"
              /\ PastArmed(t) => ~ Exists(t, "armed") /\ ~ FromArmed(t)
              /\ Parking(t) => Exists(t, "blocked")
          BY <1>4, <2>1, <2>2, <4>1 DEF ParkedAt
        <4>3. store'[t]["armed"] # "torn"
          BY <1>3, <2>5, <4>2
        <4>4. PastArmed(t)' => ~ Exists(t, "armed")' /\ ~ FromArmed(t)
          <5>1. PastArmed(t)' => api.new = "blocked" /\ PastArmed(t)
            BY <2>1, <2>2, <2>3, <2>7, <3>1 DEF PastArmed
          <5> QED BY <1>3, <3>4, <4>2, <5>1
        <4>5. Parking(t) => Exists(t, "blocked")'
          <5>1. Parking(t) => api.dir \in {"draft", "armed"}
            BY <2>1, <2>2, <4>2 DEF PastArmed, Parking, FromArmed
          <5> QED BY <1>3, <3>4, <4>2, <5>1
        <4>6. FoundFirst(t)'
          BY <3>1 DEF FoundFirst
        <4> QED BY <3>1, <3>3, <4>3, <4>4, <4>5, <4>6 DEF ParkedAt
      <3>10. NoTicketVanishes'
        <4>1. \A u \in Ticket, d \in Waiting : Exists(u, d) => \E e \in STATES : Exists(u, e)'
          BY <1>3, <2>4, <2>5, <3>4 DEF Exists
        <4> QED BY <1>1, <1>2, <2>1, <4>1, Remains
      <3> QED BY <3>1, <3>2, <3>3, <3>7, <3>8, <3>9, <3>10
              DEF StaysInv, ArmedIsReady, PromotedStays, ForeignStays, NoArmedIsParked
    <2> QED BY <2>6, <2>7
  \* The first half of a write adds its file, and the second half comes next.
  <1>16. ASSUME NEW t \in Ticket, NEW d \in Waiting, store' = Put(t, d, "torn"),
                UNCHANGED <<deps, disp, deleted>>, known \subseteq known', known' = known \cup {t},
                api'.pc = "fill", api'.tk = t, api'.dir = d, t = api.tk,
                api.pc \notin {"decide", "rename", "fill"},
                d = "armed" => AllDepsDone(t),
                Foreign(t) /\ ~ Gone(t) /\ d \notin {"draft", "armed"} =>
                   ~ Exists(t, "armed") /\ ~ FromArmed(t)
         PROVE  StaysInv'
    <2>1. \A u \in Ticket, e \in STATES : store'[u][e] = IF u = t /\ e = d THEN "torn" ELSE store[u][e]
      BY <1>1, <1>3, <1>16, PutAt
    <2>2. \A u \in Ticket, e \in STATES : Exists(u, e)' <=> Exists(u, e) \/ (u = t /\ e = d)
      BY <2>1 DEF Exists
    <2>3. \A u \in Ticket \ {t} : ReadyAt(u)' /\ PromotedAt(u)' /\ ParkedAt(u)'
      BY <1>2, <1>3, <1>16, <2>1, OthersStay
    <2>4. /\ FromArmed(t)' <=> FromArmed(t)
          /\ Parking(t)' <=> Parking(t)
          /\ Promoting(t)' <=> Promoting(t)
          /\ MovesAreReady'
      BY <1>2, <1>16, ApiLeaves
    <2>5. /\ Foreign(t)' <=> Foreign(t)
          /\ Gone(t) => Gone(t)'
          /\ AllDepsDone(t) => AllDepsDone(t)'
      BY <1>1, <1>2, <1>16, ForeignStands, GoneStands, ReadyStands
    <2>6. ReadyAt(t)'
      BY <1>3, <1>4, <1>16, <2>2, <2>5 DEF ReadyAt
    <2>7. PromotedAt(t)'
      BY <1>3, <1>4, <1>16, <2>2, <2>4, <2>5 DEF PromotedAt
    <2>8. ParkedAt(t)'
      <3> SUFFICES ASSUME Foreign(t)', ~ Gone(t)' PROVE ParkedAt(t)'
        BY DEF ParkedAt
      <3>1. Foreign(t) /\ ~ Gone(t)
        BY <2>5
      <3>2. store[t]["armed"] # "torn" /\ (Parking(t) => Exists(t, "blocked"))
        BY <1>4, <1>16, <3>1 DEF ParkedAt
      <3>3. store'[t]["armed"] = "torn" => d = "armed"
        BY <1>3, <2>1, <3>2
      <3>4. PastArmed(t)' => ~ Exists(t, "armed")' /\ ~ FromArmed(t)
        BY <1>3, <1>16, <2>2, <3>1 DEF PastArmed
      <3>5. FoundFirst(t)'
        BY <1>3, <1>16, <2>2 DEF FoundFirst
      <3> QED BY <1>3, <1>16, <2>2, <2>4, <3>2, <3>3, <3>4, <3>5 DEF ParkedAt
    <2>9. NoTicketVanishes'
      <3>1. \A u \in Ticket, e \in Waiting : Exists(u, e) => \E f \in STATES : Exists(u, f)'
        BY <1>3, <2>2
      <3>2. \A u \in known' : u \notin known => \E e \in STATES : Exists(u, e)'
        BY <1>3, <1>16, <2>2
      <3> QED BY <1>1, <1>2, <1>16, <3>1, <3>2, Remains
    <2> QED BY <1>16, <2>3, <2>4, <2>6, <2>7, <2>8, <2>9
            DEF StaysInv, ArmedIsReady, PromotedStays, ForeignStays, NoArmedIsParked
  <1>17. CASE ACreateWrite
    <2>1. PICK t \in Ticket : t = api.tk /\ api.new \in Waiting
      BY <1>1, <1>17 DEF ACreateWrite, ApiInv
    <2>2. /\ api.pc = "create" /\ store' = Put(t, api.new, "torn") /\ known' = known \cup {t}
          /\ UNCHANGED <<deps, disp, deleted>>
          /\ api'.pc = "fill" /\ api'.tk = t /\ api'.dir = api.new
      BY <1>1, <1>17, <2>1 DEF ACreateWrite, Truncate, ApiState
    <2>3. t \notin known /\ (api.new = "armed" => AllDepsDone(t))
      BY <1>4, <2>1, <2>2 DEF ReadyAt
    <2>4. ~ Exists(t, "armed") /\ ~ FromArmed(t)
      BY <1>1, <1>2, <1>3, <2>2, <2>3, ApiLeaves DEF FilesAreKnown
    <2> QED BY <1>16, <2>1, <2>2, <2>3, <2>4
  <1>18. CASE AWrite
    <2>1. PICK t \in Ticket : t = api.tk /\ t \in known
      BY <1>1, <1>18 DEF AWrite
    <2>2. /\ api.pc = "write" /\ store' = Put(t, api.dir, "torn")
          /\ UNCHANGED <<deps, known, disp, deleted>>
          /\ api'.pc = "fill" /\ api'.tk = t /\ api'.dir = api.dir
          /\ api'.op = api.op /\ api'.new = api.new
      BY <1>1, <1>18, <2>1 DEF AWrite, Truncate, ApiState
    <2>3. CASE api.op = "delete"
      <3>1. api.dir \in {"running", "cancelled"} /\ api.new = "cancelled" /\ Started(t)
        BY <1>1, <2>1, <2>2, <2>3 DEF ApiInv
      <3>2. \A u \in Ticket, d \in Waiting : store'[u][d] = store[u][d]
        BY <1>1, <1>3, <2>2, <3>1, WritesElsewhere
      <3> QED BY <1>2, <1>3, <2>1, <2>2, <2>3, <3>1, <3>2, DeleteStays
    <2>4. CASE api.op # "delete"
      <3>1. api.dir \in Waiting
        BY <1>1, <2>2, <2>4 DEF ApiInv
      <3>2. api.dir = "armed" => AllDepsDone(t)
        BY <1>4, <2>1, <2>2 DEF ReadyAt
      <3>3. Foreign(t) /\ ~ Gone(t) /\ api.dir \notin {"draft", "armed"} =>
              ~ Exists(t, "armed") /\ ~ FromArmed(t)
        BY <1>4, <2>1, <2>2 DEF ParkedAt, PastArmed
      <3> QED BY <1>16, <2>1, <2>2, <3>1, <3>2, <3>3
    <2> QED BY <2>3, <2>4
  <1>19. CASE AFill
    <2>1. PICK t \in Ticket : t = api.tk /\ t \in known
      BY <1>1, <1>19 DEF AFill
    <2>2. /\ api.pc = "fill" /\ store' = Fill(t, api.dir, api.new)
          /\ UNCHANGED <<deps, known, disp, deleted>>
      BY <1>19, <2>1 DEF AFill
    <2>3. CASE api.op = "delete"
      <3>1. api.dir \in {"running", "cancelled"} /\ api.new = "cancelled" /\ Started(t)
        BY <1>1, <2>1, <2>2, <2>3 DEF ApiInv
      <3>2. /\ api'.pc = "rename" /\ api'.tk = t /\ api'.op = "delete"
            /\ api'.new = "cancelled" /\ api'.dir = api.dir
        BY <1>1, <1>19, <2>1, <2>3, <3>1 DEF AFill, ApiState
      <3>3. \A u \in Ticket, d \in Waiting : store'[u][d] = store[u][d]
        BY <1>1, <1>3, <2>2, <3>1, WritesElsewhere
      <3> QED BY <1>2, <1>3, <2>1, <2>2, <3>1, <3>2, <3>3, DeleteStays
    <2>4. CASE api.op # "delete"
      <3>1. api.dir \in Waiting /\ api.new \in Waiting
        BY <1>1, <2>2, <2>4 DEF ApiInv
      <3>2. api'.pc \in {"idle", "scaffold"}
        BY <1>1, <1>7, <1>19, <2>4 DEF AFill, ApiState
      <3>3. \A u \in Ticket, d \in STATES :
              store'[u][d] = IF u = t /\ d = api.dir /\ store[t][api.dir] # "none"
                             THEN api.new ELSE store[u][d]
        <4>1. api.dir \in STATES /\ api.new \in Content
          BY <1>3, <3>1
        <4> QED BY <1>1, <2>2, <4>1, FillAt
      <3>4. \A u \in Ticket, d \in Waiting :
              /\ Exists(u, d)' <=> Exists(u, d)
              /\ Readable(u, d) => Readable(u, d)'
              /\ \/ store'[u][d] = store[u][d] /\ ~ (api.tk = u /\ api.dir = d)
                 \/ Exists(u, d) <=> Readable(u, d)'
        BY <1>3, <2>1, <3>1, <3>3 DEF Exists, Readable
      <3>5. NoTicketVanishes'
        BY <1>1, <1>2, <1>3, <2>2, <3>4, Remains
      <3> QED BY <1>2, <2>2, <3>2, <3>4, <3>5, AnswersStay
    <2> QED BY <2>3, <2>4
  <1>20. CASE AUnlink
    <2>1. PICK t \in Ticket : t = api.tk /\ api.dir \in Waiting
      BY <1>1, <1>20 DEF AUnlink, ApiInv
    <2>2. /\ api.pc = "unlink" /\ store' = Put(t, api.dir, "none")
          /\ UNCHANGED <<deps, known, disp>> /\ deleted' = deleted \cup {t} /\ api'.pc = "rmtree"
      BY <1>1, <1>20, <2>1 DEF AUnlink, ApiState
    <2>3. Gone(t)'
      BY <2>2 DEF Gone
    <2>4. \A u \in Ticket, d \in STATES :
            store'[u][d] = IF u = t /\ d = api.dir THEN "none" ELSE store[u][d]
      <3>1. api.dir \in STATES
        BY <1>3, <2>1
      <3> QED BY <1>1, <1>3, <2>2, <3>1, PutAt
    <2>5. \A u \in Ticket, d \in Waiting :
            /\ Exists(u, d)' => Exists(u, d)
            /\ ~ Gone(u)' => store'[u][d] = store[u][d]
      BY <1>3, <2>3, <2>4 DEF Exists
    <2>6. NoTicketVanishes'
      <3>1. \A u \in Ticket, d \in Waiting : Exists(u, d) /\ ~ Gone(u)' =>
               \E e \in STATES : Exists(u, e)'
        BY <1>3, <2>5 DEF Exists
      <3> QED BY <1>1, <1>2, <2>2, <3>1, Remains
    <2>7. \A u \in Ticket : api.tk = u => Gone(u)'
      BY <2>1, <2>3
    <2>8. \A u \in Ticket, d \in Waiting : ~ Gone(u)' =>
            /\ Exists(u, d) => Exists(u, d)'
            /\ Readable(u, d) => Readable(u, d)'
      BY <2>5 DEF Exists, Readable
    <2> QED BY <1>2, <2>2, <2>5, <2>6, <2>7, <2>8, AnswersStay
  <1> QED BY <1>8, <1>9, <1>11, <1>12, <1>13, <1>14, <1>15, <1>17, <1>18, <1>19, <1>20
          DEF Api, Request

LEMMA InitStaysInv == Init => StaysInv
  <1> SUFFICES ASSUME Init PROVE StaysInv
    OBVIOUS
  <1>1. /\ "done" \in STATES /\ "done" # "none" /\ "armed" # "done" /\ "armed" \in STATES
        /\ "torn" # "done" /\ "torn" # "none"
    BY DEF STATES
  <1>2. \A t \in Ticket : store[t]["armed"] = "none"
    BY <1>1 DEF Init
  <1>3. disp.pc = "list" /\ api.pc = "idle"
    BY DEF Init, Phase, ApiIdle
  <1>4. \A t \in Ticket : ReadyAt(t) /\ PromotedAt(t) /\ ParkedAt(t)
    BY <1>1, <1>2, <1>3 DEF ReadyAt, PromotedAt, ParkedAt, Exists, FromArmed, Parking, Promoting, PastArmed
  <1>5. NoTicketVanishes
    BY <1>1, EarlierAssumption DEF Init, NoTicketVanishes, Exists
  <1>6. MovesAreReady /\ NoArmedIsParked
    BY <1>3 DEF MovesAreReady, NoArmedIsParked, FromArmed, Parking, Promoting
  <1> QED BY <1>4, <1>5, <1>6 DEF StaysInv, ArmedIsReady, PromotedStays, ForeignStays

LEMMA StaysInvHolds == Spec => [](crashes = 0 => StaysInv)
  <1>1. Init => (crashes = 0 => StaysInv)
    BY InitStaysInv
  <1>2. IInv /\ (crashes = 0 => StaysInv) /\ [Next]_vars => (crashes = 0 => StaysInv)'
    <2> SUFFICES ASSUME IInv, crashes = 0 => StaysInv, [Next]_vars, crashes' = 0
                 PROVE  StaysInv'
      OBVIOUS
    <2>1. ~ Crash
      BY DEF Crash, IInv, TypeOK
    <2>2. CASE Dispatcher
      <3>1. crashes' = crashes
        BY <2>2 DEF Dispatcher, DList, DGateClosed, DGateOpen, DRead, DReadFails, DPromote,
                    DStayBlocked, DUnmet, DPark, DStart, DFill, DUnlink, DPush, DMark, DExpire, history
      <3> QED BY <2>2, <3>1, DispatcherKeepsStays
    <2>3. CASE Api \/ Request
      <3>1. crashes' = crashes
        BY <2>3 DEF Api, Request, ACreate, ARequest, ACreateWrite, AScaffold, AFindMisses, AFinds,
                    ADecide, ARename, ARenameFails, AWrite, AFill, AUnlink, ARmtree, AArchive, history
      <3> QED BY <2>3, <3>1, ApiKeepsStays
    <2>4. ASSUME NEW a \in Agent, Completer(a) \/ Complete(a) PROVE StaysInv'
      <3>1. crashes' = crashes
        BY <2>4 DEF Completer, Complete, CFind, CWrite, CFill, CUnlink, CArchive, history
      <3> QED BY <2>4, <3>1, CompleterKeepsStays
    <2>5. CASE UNCHANGED vars \/ \E t \in Ticket : GrowOld(t)
      <3>1. UNCHANGED <<store, disp, api, deps, known, deleted, crashes>>
        BY <2>5 DEF vars, history, GrowOld
      <3> QED BY <3>1, SameStoreKeepsContract, WaitingSameKeeps DEF IInv
    <2> QED BY <2>1, <2>2, <2>3, <2>4, <2>5 DEF Next
  <1> QED BY Invariant, <1>1, <1>2, PTL DEF Spec

\* Until a process dies, every ticket that was created and not deleted is in some
\* directory, whatever the dispatcher, the API and the agents move at the same time
\* (each writes the new file before it unlinks the old one, and nobody locks).
THEOREM NothingIsLost == Spec => [](crashes = 0 => NoTicketVanishes)
  <1>1. StaysInv => NoTicketVanishes
    BY DEF StaysInv
  <1> QED BY StaysInvHolds, <1>1, PTL

-----------------------------------------------------------------------------
(* Nor does a ticket become unreadable, until a process dies: a torn file is one *)
(* that somebody is about to write.  The exception is a running file that the    *)
(* dispatcher truncates and a DELETE then renames into cancelled/: the second    *)
(* half of the write goes nowhere.  But that takes a second dispatch, and the    *)
(* first one has left an outcome.                                                *)

HasOutcome(t) == Exists(t, "done") \/ Exists(t, "failed")

ToBeWritten(t, d) ==
  \/ disp.tk = t /\ disp.pc = "fill" /\ disp.w = d
  \/ api.tk = t /\ api.pc \in {"write", "fill"} /\ api.dir = d
  \/ \E a \in Agent : comp[a].tk = t /\ comp[a].pc = "fill" /\ comp[a].fin = d

TornIsWritten ==
  \A t \in Ticket, d \in STATES :
    store[t][d] = "torn" => ToBeWritten(t, d) \/ (d = "cancelled" /\ HasOutcome(t))

\* The dispatcher is handing t out; it may yet hand t out without looking into
\* running/ again.
Starting(t) == disp.tk = t /\ disp.pc = "fill" /\ disp.w = "running"
PastGate(t) ==
  /\ disp.src = "armed" /\ To[t] = Config[disp.i] /\ disp.pc \notin {"gate", "push"}
  /\ ~ (disp.pc \in {"fill", "unlink"} /\ disp.w = "running")

\* DELETE is rewriting t in running/, to rename it from there.
Cancelling(t) ==
  api.tk = t /\ api.op = "delete" /\ api.dir = "running" /\ api.pc \in {"write", "fill", "rename"}

\* A running file that the dispatcher does not know of belongs to a run that is over.
RunsAreKnown ==
  \A t \in Ticket :
    /\ PastGate(t) /\ Exists(t, "running") => HasOutcome(t)
    /\ Starting(t) => store[t]["running"] \in {"none", "torn"} \/ HasOutcome(t)
    /\ Cancelling(t) => HasOutcome(t) \/ (Exists(t, "running") /\ ~ PastGate(t) /\ ~ Starting(t))

WrittenInv == TornIsWritten /\ RunsAreKnown

LEMMA OutcomeStands ==
  ASSUME Kept, NEW t \in Ticket, HasOutcome(t)
  PROVE  HasOutcome(t)'
  BY OutcomesStand DEF HasOutcome

\* A step of the completers or the API sees the dispatcher where it is.
LEMMA DispatcherStands ==
  ASSUME disp' = disp, NEW t \in Ticket
  PROVE  (PastGate(t)' <=> PastGate(t)) /\ (Starting(t)' <=> Starting(t))
  BY DEF PastGate, Starting

LEMMA CompleterKeepsWritten ==
  ASSUME IInv, WrittenInv, NEW a \in Agent, Completer(a) \/ Complete(a)
  PROVE  WrittenInv'
  <1>1. /\ TypeOK /\ CompleterInv /\ comp \in [Agent -> CompleterState] /\ comp[a] \in CompleterState
        /\ comp[a].pc # "idle" => comp[a].tk \in Ticket
        /\ TornIsWritten /\ RunsAreKnown
    BY DEF IInv, TypeOK, CompleterInv, WrittenInv
  <1>2. /\ comp[a].fin \in {"done", "failed"} /\ comp[a].fin \in STATES /\ comp[a].fin \in Content
        /\ comp[a].fin \notin {"torn", "none", "running"}
        /\ "running" \in STATES /\ "torn" \in Content /\ "none" \in Content
    BY <1>1 DEF CompleterState, STATES, Content
  <1>3. Kept /\ UNCHANGED <<disp, api>>
    BY CompleterKeepsContract DEF Completer, Complete, CFind, CWrite, CFill, CUnlink, CArchive
  <1>4. \A t \in Ticket : /\ HasOutcome(t) => HasOutcome(t)'
                          /\ PastGate(t)' <=> PastGate(t)
                          /\ Starting(t)' <=> Starting(t)
                          /\ Cancelling(t)' <=> Cancelling(t)
    BY <1>3, OutcomeStands, DispatcherStands DEF Cancelling
  <1>5. \A b \in Agent \ {a} : comp'[b] = comp[b]
    BY <1>1 DEF Completer, Complete, CFind, CWrite, CFill, CUnlink, CArchive
  \* A ticket is written by a itself, or as before.
  <1>6. ASSUME NEW t \in Ticket, NEW d \in STATES, ToBeWritten(t, d),
               ~ (comp[a].pc = "fill" /\ comp[a].tk = t /\ comp[a].fin = d)
        PROVE  ToBeWritten(t, d)'
    BY <1>3, <1>5, <1>6 DEF ToBeWritten
  <1>7. CASE Complete(a) \/ CArchive(a)
    <2>1. store' = store /\ comp[a].pc # "fill"
      BY <1>7 DEF Complete, CFind, CArchive
    <2>2. TornIsWritten'
      BY <1>1, <1>4, <1>6, <2>1 DEF TornIsWritten
    <2>3. RunsAreKnown'
      BY <1>1, <1>4, <2>1 DEF RunsAreKnown, Exists
    <2> QED BY <2>2, <2>3 DEF WrittenInv
  <1>8. CASE CWrite(a)
    <2>1. PICK t \in Ticket : t = comp[a].tk
      BY <1>1, <1>8 DEF CWrite
    <2>2. /\ comp[a].pc = "write" /\ store' = Put(t, comp[a].fin, "torn")
          /\ comp'[a].pc = "fill" /\ comp'[a].tk = t /\ comp'[a].fin = comp[a].fin
      BY <1>1, <1>8, <2>1 DEF CWrite, Truncate, CompleterState
    <2>3. \A u \in Ticket, d \in STATES :
            store'[u][d] = IF u = t /\ d = comp[a].fin THEN "torn" ELSE store[u][d]
      BY <1>1, <1>2, <2>2, PutAt
    <2>4. ToBeWritten(t, comp[a].fin)'
      <3> DEFINE fin == comp[a].fin
      <3>1. \A d : d = comp'[a].fin => ToBeWritten(t, d)'
        BY <2>2 DEF ToBeWritten
      <3> QED BY <2>2, <3>1 DEF ToBeWritten
    <2>5. TornIsWritten'
      <3> SUFFICES ASSUME NEW u \in Ticket, NEW d \in STATES, store'[u][d] = "torn"
                   PROVE  ToBeWritten(u, d)' \/ (d = "cancelled" /\ HasOutcome(u)')
        BY DEF TornIsWritten
      <3>1. CASE u = t /\ d = comp[a].fin
        BY <2>2, <3>1 DEF ToBeWritten
      <3>2. CASE ~ (u = t /\ d = comp[a].fin)
        BY <1>1, <1>4, <1>6, <2>2, <2>3, <3>2 DEF TornIsWritten
      <3> QED BY <3>1, <3>2
    <2>6. \A u \in Ticket : store'[u]["running"] = store[u]["running"]
      BY <1>2, <2>3
    <2>7. RunsAreKnown'
      BY <1>1, <1>4, <2>6 DEF RunsAreKnown, Exists
    <2> QED BY <2>5, <2>7 DEF WrittenInv
  <1>9. CASE CFill(a)
    <2>1. PICK t \in Ticket : t = comp[a].tk
      BY <1>1, <1>9 DEF CFill
    <2>2. comp[a].pc = "fill" /\ store' = Fill(t, comp[a].fin, comp[a].fin)
      BY <1>9, <2>1 DEF CFill
    <2>3. \A u \in Ticket, d \in STATES :
            store'[u][d] = IF u = t /\ d = comp[a].fin /\ store[t][comp[a].fin] # "none"
                           THEN comp[a].fin ELSE store[u][d]
      BY <1>1, <1>2, <2>2, FillAt
    <2>4. TornIsWritten'
      <3> SUFFICES ASSUME NEW u \in Ticket, NEW d \in STATES, store'[u][d] = "torn"
                   PROVE  ToBeWritten(u, d)' \/ (d = "cancelled" /\ HasOutcome(u)')
        BY DEF TornIsWritten
      <3>1. ~ (u = t /\ d = comp[a].fin) /\ store[u][d] = "torn"
        BY <1>2, <2>3
      <3> QED BY <1>1, <1>4, <1>6, <2>1, <3>1 DEF TornIsWritten
    <2>5. \A u \in Ticket : store'[u]["running"] = store[u]["running"]
      BY <1>2, <2>3
    <2>6. RunsAreKnown'
      BY <1>1, <1>4, <2>5 DEF RunsAreKnown, Exists
    <2> QED BY <2>4, <2>6 DEF WrittenInv
  <1>10. CASE CUnlink(a)
    <2>1. PICK t \in Ticket : t = comp[a].tk
      BY <1>1, <1>10 DEF CUnlink
    <2>2. comp[a].pc = "unlink" /\ store' = Put(t, "running", "none") /\ HasOutcome(t)
      BY <1>1, <1>2, <1>10, <2>1 DEF CUnlink, CompleterInv, HasOutcome
    <2>3. \A u \in Ticket, d \in STATES :
            store'[u][d] = IF u = t /\ d = "running" THEN "none" ELSE store[u][d]
      BY <1>1, <1>2, <2>2, PutAt
    <2>4. TornIsWritten'
      BY <1>1, <1>4, <1>6, <2>2, <2>3 DEF TornIsWritten
    <2>5. \A u \in Ticket : \/ store'[u]["running"] = store[u]["running"]
                            \/ HasOutcome(u)'
      BY <1>2, <1>4, <2>2, <2>3
    <2>6. RunsAreKnown'
      BY <1>1, <1>4, <2>5 DEF RunsAreKnown, Exists
    <2> QED BY <2>4, <2>6 DEF WrittenInv
  <1> QED BY <1>7, <1>8, <1>9, <1>10 DEF Completer

\* A step of the dispatcher that truncates no file but the one it writes next.
LEMMA TornStays ==
  ASSUME TornIsWritten, Kept, UNCHANGED <<api, comp>>,
         \A t \in Ticket, d \in STATES : store'[t][d] = "torn" =>
            \/ store[t][d] = "torn" /\ ~ (disp.pc = "fill" /\ disp.tk = t /\ disp.w = d)
            \/ disp'.pc = "fill" /\ disp'.tk = t /\ disp'.w = d
  PROVE  TornIsWritten'
  <1> SUFFICES ASSUME NEW t \in Ticket, NEW d \in STATES, store'[t][d] = "torn"
               PROVE  ToBeWritten(t, d)' \/ (d = "cancelled" /\ HasOutcome(t)')
    BY DEF TornIsWritten
  <1>1. CASE disp'.pc = "fill" /\ disp'.tk = t /\ disp'.w = d
    BY <1>1 DEF ToBeWritten
  <1>2. CASE store[t][d] = "torn" /\ ~ (disp.pc = "fill" /\ disp.tk = t /\ disp.w = d)
    BY <1>2, OutcomeStands DEF TornIsWritten, ToBeWritten
  <1> QED BY <1>1, <1>2

\* A step of the dispatcher that starts nothing and passes no gate.
LEMMA RunsStayKnown ==
  ASSUME RunsAreKnown, Kept, api' = api,
         \A t \in Ticket : PastGate(t)' => PastGate(t),
         \A t \in Ticket : ~ Starting(t)',
         \A t \in Ticket : Exists(t, "running")' => Exists(t, "running"),
         \A t \in Ticket : Exists(t, "running") => Exists(t, "running")' \/ HasOutcome(t)'
  PROVE  RunsAreKnown'
  <1> SUFFICES ASSUME NEW t \in Ticket
               PROVE  /\ PastGate(t)' /\ Exists(t, "running")' => HasOutcome(t)'
                      /\ Cancelling(t)' => HasOutcome(t)' \/ (Exists(t, "running")' /\ ~ PastGate(t)')
    BY DEF RunsAreKnown
  <1>1. (HasOutcome(t) => HasOutcome(t)') /\ (Cancelling(t)' <=> Cancelling(t))
    BY OutcomeStands DEF Cancelling
  <1> QED BY <1>1 DEF RunsAreKnown

\* Going on to another file or directory passes no gate.
LEMMA GoesOn ==
  ASSUME TypeOK, NEW S,
         disp.pc \notin {"gate", "push"} /\ ~ (disp.pc \in {"fill", "unlink"} /\ disp.w = "running"),
         disp' = Continue(S) \/ disp' = NextPhase(disp.i, disp.src)
  PROVE  /\ disp'.pc \in {"list", "gate", "read"}
         /\ \A t \in Ticket : PastGate(t)' => PastGate(t)
  <1>1. disp \in DispatcherState /\ disp.src \in {"blocked", "armed", "running", "done", "failed"}
    BY DEF TypeOK, DispatcherState
  <1>2. CASE disp' = NextPhase(disp.i, disp.src)
    <2>1. disp'.pc \in {"list", "gate"} /\ (disp'.src = "armed" => disp'.pc = "gate")
      BY <1>1, <1>2 DEF NextPhase, Phase
    <2> QED BY <2>1 DEF PastGate
  <1>3. CASE S # {} /\ disp' = Continue(S)
    <2>1. disp'.pc = "read" /\ disp'.i = disp.i /\ disp'.src = disp.src
      BY <1>1, <1>3 DEF Continue, DispatcherState
    <2> QED BY <2>1 DEF PastGate
  <1> QED BY <1>2, <1>3 DEF Continue

LEMMA DispatcherKeepsWritten ==
  ASSUME IInv, OneInv, StaysInv, WrittenInv, Dispatcher
  PROVE  WrittenInv'
  <1>1. /\ TypeOK /\ DispatcherInv /\ disp \in DispatcherState
        /\ disp.src \in {"blocked", "armed", "running", "done", "failed"}
        /\ disp.w \in {"none", "armed", "blocked", "running", "done", "failed"}
        /\ MovesAreReady /\ OnItsTurn /\ StartsFromArmed
        /\ TornIsWritten /\ RunsAreKnown
    BY DEF IInv, TypeOK, DispatcherState, StaysInv, OneInv, WrittenInv
  <1>2. disp.pc \notin {"list", "gate", "read"} => disp.tk \in Ticket
    BY DEF IInv, TypeOK, DispatcherInv
  <1>3. Kept /\ UNCHANGED <<api, comp>>
    BY DispatcherKeepsContract DEF Dispatcher, DList, DGateClosed, DGateOpen, DRead, DReadFails,
           DPromote, DStayBlocked, DUnmet, DPark, DStart, DFill, DUnlink, DPush, DMark, DExpire
  <1>4. /\ {"armed", "blocked", "running", "done", "failed"} \subseteq STATES
        /\ STATES \subseteq Content /\ "torn" \in Content /\ "none" \in Content
        /\ "torn" \notin STATES /\ "none" \notin STATES
    BY DEF STATES, Content
  <1>5. \A t \in Ticket : HasOutcome(t) => HasOutcome(t)'
    BY <1>3, OutcomeStands
  \* A step that leaves the store alone.
  <1>6. ASSUME store' = store, disp.pc # "fill", disp'.pc # "fill",
               \A t \in Ticket : PastGate(t)' => PastGate(t)
        PROVE  WrittenInv'
    <2>1. TornIsWritten'
      BY <1>1, <1>3, <1>6, TornStays
    <2>2. RunsAreKnown'
      BY <1>1, <1>3, <1>6, RunsStayKnown DEF Starting, Exists
    <2> QED BY <2>1, <2>2 DEF WrittenInv
  \* A write other than that of a running file.
  <1>7. ASSUME NEW t \in Ticket, t = disp.tk, NEW d \in {"armed", "blocked", "done", "failed"},
               store' = Put(t, d, "torn"), disp.pc \in {"check", "park", "notify", "expire"},
               disp' = [disp EXCEPT !.pc = "fill", !.w = d]
        PROVE  WrittenInv'
    <2>1. \A u \in Ticket, e \in STATES :
            store'[u][e] = IF u = t /\ e = d THEN "torn" ELSE store[u][e]
      BY <1>1, <1>4, <1>7, PutAt
    <2>2. /\ disp'.pc = "fill" /\ disp'.tk = t /\ disp'.w = d
          /\ disp'.src = disp.src /\ disp'.i = disp.i
      BY <1>1, <1>7 DEF DispatcherState
    <2>3. TornIsWritten'
      BY <1>1, <1>3, <1>7, <2>1, <2>2, TornStays
    <2>4. \A u \in Ticket : (PastGate(u)' => PastGate(u)) /\ ~ Starting(u)'
      BY <1>7, <2>2 DEF PastGate, Starting
    <2>5. \A u \in Ticket : Exists(u, "running")' <=> Exists(u, "running")
      BY <1>4, <1>7, <2>1 DEF Exists
    <2>6. RunsAreKnown'
      BY <1>1, <1>3, <2>4, <2>5, RunsStayKnown
    <2> QED BY <2>3, <2>6 DEF WrittenInv
  <1>8. CASE \/ DList \/ DStayBlocked \/ \E t \in Ticket : DReadFails(t)
    <2>1. /\ store' = store /\ disp.pc \in {"list", "check", "read"}
          /\ \E S : disp' = Continue(S)
      BY <1>8 DEF DList, DStayBlocked, DReadFails
    <2> QED BY <1>1, <1>6, <2>1, GoesOn
  <1>9. CASE DGateClosed \/ DPush
    <2>1. /\ store' = store /\ disp.pc \in {"gate", "push"}
          /\ disp' = NextPhase(disp.i, disp.src)
      BY <1>9 DEF DGateClosed, DPush
    <2>2. disp'.pc \in {"list", "gate"} /\ (disp'.src = "armed" => disp'.pc = "gate")
      BY <1>1, <2>1 DEF NextPhase, Phase
    <2> QED BY <1>6, <2>1, <2>2 DEF PastGate
  <1>10. CASE DGateOpen
    <2>1. /\ store' = store /\ disp.pc = "gate" /\ disp'.pc = "list"
          /\ disp'.i = disp.i /\ disp'.src = disp.src
          /\ \A t \in Ticket : To[t] = Config[disp.i] => ~ Exists(t, "running")
      BY <1>1, <1>10 DEF DGateOpen, DispatcherState
    <2>2. TornIsWritten'
      BY <1>1, <1>3, <2>1, TornStays
    <2>3. \A t \in Ticket : /\ Exists(t, "running") => ~ PastGate(t)'
                            /\ ~ Starting(t)'
                            /\ Exists(t, "running")' <=> Exists(t, "running")
                            /\ Cancelling(t)' <=> Cancelling(t)
      BY <1>3, <2>1 DEF PastGate, Starting, Exists, Cancelling
    <2>4. RunsAreKnown'
      BY <1>1, <1>5, <2>3 DEF RunsAreKnown
    <2> QED BY <2>2, <2>4 DEF WrittenInv
  <1>11. ASSUME NEW t \in Ticket, DRead(t) PROVE WrittenInv'
    <2>1. store' = store /\ disp.pc = "read"
      BY <1>11 DEF DRead
    <2>2. \/ disp' = Continue(disp.todo \ {t})
          \/ \E pc \in {"check", "expire", "notify"} : disp' = [disp EXCEPT !.pc = pc, !.tk = t]
      BY <1>1, <1>11 DEF DRead
    <2>3. CASE disp' = Continue(disp.todo \ {t})
      BY <1>1, <1>6, <2>1, <2>3, GoesOn
    <2>4. ASSUME NEW pc \in {"check", "expire", "notify"}, disp' = [disp EXCEPT !.pc = pc, !.tk = t]
          PROVE  WrittenInv'
      <3>1. disp'.pc = pc /\ disp'.src = disp.src /\ disp'.i = disp.i
        BY <1>1, <2>4 DEF DispatcherState
      <3> QED BY <1>6, <2>1, <2>4, <3>1 DEF PastGate
    <2> QED BY <2>2, <2>3, <2>4
  <1>12. CASE DUnmet
    <2>1. /\ store' = store /\ disp.pc = "check" /\ disp'.pc = "park"
          /\ disp'.src = disp.src /\ disp'.i = disp.i
      BY <1>1, <1>12 DEF DUnmet, DispatcherState
    <2> QED BY <1>6, <2>1 DEF PastGate
  <1>13. CASE DPromote \/ DPark \/ DExpire
    <2>1. \E d \in {"armed", "blocked", "failed"} :
             /\ store' = Put(disp.tk, d, "torn") /\ disp.pc \in {"check", "park", "expire"}
             /\ disp' = [disp EXCEPT !.pc = "fill", !.w = d]
      BY <1>13 DEF DPromote, DPark, DExpire, Truncate
    <2> QED BY <1>2, <1>7, <2>1
  <1>14. CASE DMark
    <2>1. /\ disp.src \in {"done", "failed"} /\ disp.pc = "notify"
          /\ store' = Put(disp.tk, disp.src, "torn")
          /\ disp' = [disp EXCEPT !.pc = "fill", !.w = disp.src]
      BY <1>1, <1>14 DEF DMark, DispatcherInv, Truncate
    <2> QED BY <1>2, <1>7, <2>1
  <1>15. CASE DStart
    <2>1. PICK t \in Ticket : t = disp.tk
      BY <1>2, <1>15 DEF DStart
    <2>2. /\ disp.pc = "check" /\ disp.src = "armed" /\ store' = Put(t, "running", "torn")
          /\ disp'.pc = "fill" /\ disp'.tk = t /\ disp'.w = "running"
      BY <1>1, <1>15, <2>1 DEF DStart, Truncate, DispatcherState
    <2>3. \A u \in Ticket, e \in STATES :
            store'[u][e] = IF u = t /\ e = "running" THEN "torn" ELSE store[u][e]
      BY <1>1, <1>4, <2>2, PutAt
    <2>4. TornIsWritten'
      BY <1>1, <1>3, <2>2, <2>3, TornStays
    <2>5. PastGate(t)
      BY <1>1, <2>1, <2>2 DEF PastGate, OnItsTurn
    <2>6. \A u \in Ticket : /\ ~ PastGate(u)'
                            /\ Starting(u)' <=> u = t
                            /\ Cancelling(u)' <=> Cancelling(u)
                            /\ u # t => (Exists(u, "running")' <=> Exists(u, "running"))
      BY <1>3, <1>4, <2>2, <2>3 DEF PastGate, Starting, Cancelling, Exists
    <2>7. store'[t]["running"] = "torn"
      BY <1>4, <2>3
    <2>8. Cancelling(t) => HasOutcome(t)
      BY <1>1, <2>5 DEF RunsAreKnown
    <2>9. RunsAreKnown'
      BY <1>1, <1>5, <2>6, <2>7, <2>8 DEF RunsAreKnown
    <2> QED BY <2>4, <2>9 DEF WrittenInv
  <1>16. CASE DFill
    <2>1. PICK t \in Ticket : t = disp.tk
      BY <1>2, <1>16 DEF DFill
    <2>2. /\ disp.pc = "fill" /\ store' = Fill(t, disp.w, disp.w)
          /\ disp.w \in STATES /\ disp.w \in Content /\ disp.w # "torn" /\ disp.w # "none"
      BY <1>1, <1>4, <1>16, <2>1 DEF DFill, DispatcherInv
    <2>3. \A u \in Ticket, e \in STATES :
            store'[u][e] = IF u = t /\ e = disp.w /\ store[t][disp.w] # "none"
                           THEN disp.w ELSE store[u][e]
      BY <1>1, <2>2, FillAt
    <2>4. TornIsWritten'
      <3>1. \A u \in Ticket, e \in STATES : store'[u][e] = "torn" =>
              store[u][e] = "torn" /\ ~ (disp.pc = "fill" /\ disp.tk = u /\ disp.w = e)
        BY <2>1, <2>2, <2>3
      <3> QED BY <1>1, <1>3, <3>1, TornStays
    <2>5. \A u \in Ticket : Exists(u, "running")' <=> Exists(u, "running")
      BY <1>4, <2>2, <2>3 DEF Exists
    <2>6. disp'.pc # "fill" /\ \A u \in Ticket : PastGate(u)' => PastGate(u)
      <3>1. CASE disp.src \in {"done", "failed"}
        <4>1. disp.w # "running" /\ disp' = Continue(disp.todo \ {disp.tk})
          BY <1>1, <1>16, <2>2, <3>1 DEF DFill, StartsFromArmed
        <4> QED BY <1>1, <2>2, <4>1, GoesOn
      <3>2. CASE disp.src \notin {"done", "failed"}
        <4>1. /\ disp'.pc = "unlink" /\ disp'.src = disp.src /\ disp'.i = disp.i
              /\ disp'.w = disp.w
          BY <1>1, <1>16, <3>2 DEF DFill, DispatcherState
        <4> QED BY <2>2, <4>1 DEF PastGate
      <3> QED BY <3>1, <3>2
    <2>7. RunsAreKnown'
      BY <1>1, <1>3, <2>5, <2>6, RunsStayKnown DEF Starting
    <2> QED BY <2>4, <2>7 DEF WrittenInv
  <1>17. CASE DUnlink
    <2>1. PICK t \in Ticket : t = disp.tk
      BY <1>2, <1>17 DEF DUnlink
    <2>2. disp.pc = "unlink" /\ store' = Put(t, disp.src, "none") /\ disp.src \in STATES
      BY <1>1, <1>4, <1>17, <2>1 DEF DUnlink
    <2>3. \A u \in Ticket, e \in STATES :
            store'[u][e] = IF u = t /\ e = disp.src THEN "none" ELSE store[u][e]
      BY <1>1, <1>4, <2>2, PutAt
    <2>4. TornIsWritten'
      BY <1>1, <1>3, <2>2, <2>3, TornStays
    <2>5. disp.src = "running" => HasOutcome(t)
      BY <1>1, <2>1, <2>2 DEF DispatcherInv, HasOutcome
    <2>6. \A u \in Ticket : /\ Exists(u, "running")' => Exists(u, "running")
                            /\ Exists(u, "running") => Exists(u, "running")' \/ HasOutcome(u)'
      BY <1>4, <1>5, <2>3, <2>5 DEF Exists
    <2>7. disp'.pc # "fill" /\ \A u \in Ticket : PastGate(u)' => PastGate(u)
      <3>1. CASE disp.w = "running"
        <4>1. disp'.pc = "push"
          BY <1>1, <1>17, <3>1 DEF DUnlink, DispatcherState
        <4> QED BY <4>1 DEF PastGate
      <3>2. CASE disp.w # "running"
        BY <1>1, <1>17, <2>2, <3>2, GoesOn DEF DUnlink
      <3> QED BY <3>1, <3>2
    <2>8. RunsAreKnown'
      BY <1>1, <1>3, <2>6, <2>7, RunsStayKnown DEF Starting
    <2> QED BY <2>4, <2>8 DEF WrittenInv
  <1> QED
    BY <1>8, <1>9, <1>10, <1>11, <1>12, <1>13, <1>14, <1>15, <1>16, <1>17 DEF Dispatcher

\* A step of the API that truncates no file but the one it writes next.
LEMMA TornStaysWritten ==
  ASSUME TornIsWritten, Kept, UNCHANGED <<disp, comp>>,
         \A t \in Ticket, d \in STATES : store'[t][d] = "torn" =>
            \/ store[t][d] = "torn" /\ ~ (api.tk = t /\ api.pc \in {"write", "fill"} /\ api.dir = d)
            \/ api'.tk = t /\ api'.pc \in {"write", "fill"} /\ api'.dir = d
            \/ d = "cancelled" /\ HasOutcome(t)
  PROVE  TornIsWritten'
  <1> SUFFICES ASSUME NEW t \in Ticket, NEW d \in STATES, store'[t][d] = "torn"
               PROVE  ToBeWritten(t, d)' \/ (d = "cancelled" /\ HasOutcome(t)')
    BY DEF TornIsWritten
  <1>1. HasOutcome(t) => HasOutcome(t)'
    BY OutcomeStands
  <1>2. CASE api'.tk = t /\ api'.pc \in {"write", "fill"} /\ api'.dir = d
    BY <1>2 DEF ToBeWritten
  <1>3. CASE store[t][d] = "torn" /\ ~ (api.tk = t /\ api.pc \in {"write", "fill"} /\ api.dir = d)
    <2>1. CASE d = "cancelled" /\ HasOutcome(t)
      BY <1>1, <2>1
    <2>2. CASE ToBeWritten(t, d)
      BY <1>3, <2>2 DEF ToBeWritten
    <2> QED BY <1>3, <2>1, <2>2 DEF TornIsWritten
  <1> QED BY <1>1, <1>2, <1>3

\* A step of the API that leaves running/ alone.
LEMMA RunsStayWritten ==
  ASSUME RunsAreKnown, Kept, disp' = disp,
         \A t \in Ticket : store'[t]["running"] = store[t]["running"],
         \A t \in Ticket : Cancelling(t)' =>
            \/ Cancelling(t) \/ HasOutcome(t)
            \/ Exists(t, "running") /\ ~ PastGate(t) /\ ~ Starting(t)
  PROVE  RunsAreKnown'
  <1> SUFFICES ASSUME NEW t \in Ticket
               PROVE  /\ PastGate(t)' /\ Exists(t, "running")' => HasOutcome(t)'
                      /\ Starting(t)' => store'[t]["running"] \in {"none", "torn"} \/ HasOutcome(t)'
                      /\ Cancelling(t)' => HasOutcome(t)' \/ (Exists(t, "running")' /\ ~ PastGate(t)' /\ ~ Starting(t)')
    BY DEF RunsAreKnown
  <1>1. /\ HasOutcome(t) => HasOutcome(t)'
        /\ PastGate(t)' <=> PastGate(t)
        /\ Starting(t)' <=> Starting(t)
        /\ Exists(t, "running")' <=> Exists(t, "running")
    BY OutcomeStands, DispatcherStands DEF Exists
  <1> QED BY <1>1 DEF RunsAreKnown

LEMMA ApiKeepsWritten ==
  ASSUME IInv, WrittenInv, Api \/ Request
  PROVE  WrittenInv'
  <1> USE DEF history
  <1>1. /\ TypeOK /\ StatusFits /\ ApiInv /\ CompleterInv /\ DispatcherInv /\ api \in ApiState
        /\ \A a \in Agent : comp[a].fin \in {"done", "failed"}
        /\ disp.w # "cancelled"
        /\ TornIsWritten /\ RunsAreKnown
    BY DEF IInv, TypeOK, WrittenInv, CompleterState, DispatcherState
  <1>2. api.pc # "idle" => api.tk \in Ticket
    BY DEF IInv, TypeOK, ApiInv
  <1>3. Kept /\ UNCHANGED <<disp, comp>>
    BY ApiKeepsContract DEF Api, Request, ACreate, ARequest, ACreateWrite, AScaffold, AFindMisses,
           AFinds, ADecide, ARename, ARenameFails, AWrite, AFill, AUnlink, ARmtree, AArchive
  <1>4. /\ Waiting \subseteq STATES /\ "running" \notin Waiting /\ "cancelled" \notin Waiting
        /\ "running" \in STATES /\ "cancelled" \in STATES
        /\ STATES \subseteq Content /\ "torn" \in Content /\ "none" \in Content
        /\ "torn" \notin STATES /\ "none" \notin STATES
    BY DEF Waiting, STATES, Begun, Content
  <1>5. \A t \in Ticket : /\ HasOutcome(t) => HasOutcome(t)'
                          /\ PastGate(t)' <=> PastGate(t)
                          /\ Starting(t)' <=> Starting(t)
    BY <1>3, OutcomeStands, DispatcherStands
  \* Steps that leave the store alone, and do not begin to cancel a run.
  <1>6. CASE \/ Request \/ AScaffold \/ AFindMisses \/ ADecide \/ ARenameFails \/ ARmtree \/ AArchive
    <2>1. /\ store' = store /\ api.pc \notin {"write", "fill"}
          /\ ~ (api'.pc \in {"write", "fill", "rename"} /\ api'.op = "delete")
      <3>1. CASE Request
        BY <3>1 DEF Request, ACreate, ARequest, ApiIdle
      <3>2. CASE AScaffold \/ ARmtree \/ AArchive
        BY <3>2 DEF AScaffold, ARmtree, AArchive, ApiIdle
      <3>3. CASE ADecide
        BY <1>1, <3>3 DEF ADecide, ApiInv, ApiState
      <3>4. CASE AFindMisses \/ ARenameFails
        BY <1>1, <3>4 DEF AFindMisses, ARenameFails, Done4xx, ApiIdle, ApiState
      <3> QED BY <1>6, <3>1, <3>2, <3>3, <3>4
    <2>2. TornIsWritten'
      BY <1>1, <1>3, <2>1, TornStaysWritten
    <2>3. \A t \in Ticket : ~ Cancelling(t)'
      BY <2>1 DEF Cancelling
    <2>4. RunsAreKnown'
      BY <1>1, <1>3, <2>1, <2>3, RunsStayWritten
    <2> QED BY <2>2, <2>4 DEF WrittenInv
  <1>7. CASE AFinds
    <2>1. store' = store /\ api.pc = "find" /\ Readable(api.tk, api.dir) /\ api.dir \in STATES
      BY <1>1, <1>7 DEF AFinds, ApiInv
    <2>2. TornIsWritten'
      BY <1>1, <1>3, <2>1, TornStaysWritten
    <2>3. ASSUME NEW t \in Ticket, Cancelling(t)'
          PROVE  t = api.tk /\ api.dir = "running"
      <3>1. \/ \E pc \in {"write", "unlink", "decide"}, new \in STATES \cup {"none"} :
                 api' = [api EXCEPT !.pc = pc, !.new = new]
            \/ api' = ApiIdle
        <4>1. api.new \in STATES \cup {"none"} /\ store[api.tk][api.dir] \in STATES
          BY <1>1, <1>2, <1>4, <2>1 DEF ApiState, TypeOK, Readable, Content
        <4>2. \A pc : [api EXCEPT !.pc = pc] = [api EXCEPT !.pc = pc, !.new = api.new]
          BY <1>1 DEF ApiState
        <4>3. \/ \E pc \in {"unlink", "decide"} : api' = [api EXCEPT !.pc = pc]
              \/ \E new \in STATES : api' = [api EXCEPT !.pc = "write", !.new = new]
              \/ api' = ApiIdle
          BY <1>4, <1>7, <4>1 DEF AFinds, Done4xx
        <4> QED BY <4>1, <4>2, <4>3
      <3>2. CASE api' = ApiIdle
        BY <2>3, <3>2 DEF Cancelling, ApiIdle
      <3>3. CASE \E pc \in {"write", "unlink", "decide"}, new \in STATES \cup {"none"} :
                   api' = [api EXCEPT !.pc = pc, !.new = new]
        BY <1>1, <2>3, <3>3 DEF Cancelling, ApiState
      <3> QED BY <3>1, <3>2, <3>3
    \* It has read the file, so that the dispatcher is not writing it.
    <2>4. ASSUME NEW t \in Ticket, Cancelling(t)'
          PROVE  HasOutcome(t) \/ (Exists(t, "running") /\ ~ PastGate(t) /\ ~ Starting(t))
      <3>1. store[t]["running"] \notin {"none", "torn"}
        BY <2>1, <2>3, <2>4 DEF Readable
      <3> QED BY <1>1, <3>1 DEF RunsAreKnown, Exists
    <2>5. RunsAreKnown'
      BY <1>1, <1>3, <2>1, <2>4, RunsStayWritten
    <2> QED BY <2>2, <2>5 DEF WrittenInv
  <1>8. CASE ACreateWrite \/ AWrite
    <2>1. PICK t \in Ticket : t = api.tk
      BY <1>2, <1>8 DEF ACreateWrite, AWrite
    <2>2. PICK d \in STATES :
            /\ d = IF api.pc = "create" THEN api.new ELSE api.dir
            /\ d = "running" => api.op = "delete" /\ api.pc = "write" /\ api.dir = "running"
      BY <1>1, <1>4, <1>8 DEF ACreateWrite, AWrite, ApiInv
    <2>3. /\ store' = Put(t, d, "torn")
          /\ api'.pc = "fill" /\ api'.tk = t /\ api'.dir = d /\ api'.op = api.op
          /\ api.pc \in {"create", "write"}
          /\ api.pc = "create" => d # "running"
          /\ api.pc = "write" => api.dir = d
      BY <1>1, <1>8, <2>1, <2>2 DEF ACreateWrite, AWrite, Truncate, ApiState
    <2>4. \A u \in Ticket, e \in STATES :
            store'[u][e] = IF u = t /\ e = d THEN "torn" ELSE store[u][e]
      BY <1>1, <1>4, <2>3, PutAt
    <2>5. TornIsWritten'
      <3>1. \A u \in Ticket, e \in STATES : store'[u][e] = "torn" =>
              \/ store[u][e] = "torn" /\ ~ (api.tk = u /\ api.pc \in {"write", "fill"} /\ api.dir = e)
              \/ api'.tk = u /\ api'.pc \in {"write", "fill"} /\ api'.dir = e
        <4> SUFFICES ASSUME NEW u \in Ticket, NEW e \in STATES, store'[u][e] = "torn",
                            ~ (u = t /\ e = d)
                     PROVE  /\ store[u][e] = "torn"
                            /\ ~ (api.tk = u /\ api.pc \in {"write", "fill"} /\ api.dir = e)
          BY <2>3
        <4>1. store[u][e] = "torn"
          BY <2>4
        <4>2. api.pc = "create" \/ (api.pc = "write" /\ api.dir = d)
          BY <2>3
        <4> QED BY <2>1, <4>1, <4>2
      <3> QED BY <1>1, <1>3, <3>1, TornStaysWritten
    <2>6. \A u \in Ticket : Cancelling(u)' => Cancelling(u)
      BY <1>1, <2>1, <2>2, <2>3 DEF Cancelling, ApiInv
    <2>7. CASE d # "running"
      <3>1. \A u \in Ticket : store'[u]["running"] = store[u]["running"]
        BY <1>4, <2>4, <2>7
      <3> QED BY <1>1, <1>3, <2>5, <2>6, <3>1, RunsStayWritten DEF WrittenInv
    <2>8. CASE d = "running"
      <3>1. Cancelling(t)
        BY <2>1, <2>2, <2>8 DEF Cancelling
      <3>2. HasOutcome(t) \/ (~ PastGate(t) /\ ~ Starting(t))
        BY <1>1, <3>1 DEF RunsAreKnown
      <3>3. /\ store'[t]["running"] = "torn"
            /\ \A u \in Ticket \ {t} : store'[u]["running"] = store[u]["running"]
        BY <1>4, <2>4, <2>8
      <3>4. RunsAreKnown'
        BY <1>1, <1>5, <2>6, <3>2, <3>3 DEF RunsAreKnown, Exists
      <3> QED BY <2>5, <3>4 DEF WrittenInv
    <2> QED BY <2>7, <2>8
  <1>9. CASE AFill
    <2>1. PICK t \in Ticket, d \in STATES : t = api.tk /\ d = api.dir
      BY <1>1, <1>2, <1>4, <1>9 DEF AFill, ApiInv
    <2>2. /\ api.pc = "fill" /\ store' = Fill(t, d, api.new)
          /\ api.new \in Content /\ api.new \notin {"torn", "none"}
          /\ d = "running" => api.op = "delete"
      BY <1>1, <1>4, <1>9, <2>1 DEF AFill, ApiInv
    <2>3. \A u \in Ticket, e \in STATES :
            store'[u][e] = IF u = t /\ e = d /\ store[t][d] # "none" THEN api.new ELSE store[u][e]
      BY <1>1, <2>2, FillAt
    <2>4. TornIsWritten'
      <3>1. \A u \in Ticket, e \in STATES : store'[u][e] = "torn" =>
              store[u][e] = "torn" /\ ~ (api.tk = u /\ api.pc \in {"write", "fill"} /\ api.dir = e)
        BY <2>1, <2>2, <2>3
      <3> QED BY <1>1, <1>3, <3>1, TornStaysWritten
    <2>5. \A u \in Ticket : Cancelling(u)' => Cancelling(u)
      <3>1. \/ \E pc \in {"scaffold", "rename"} : api' = [api EXCEPT !.pc = pc]
            \/ api' = ApiIdle
        BY <1>9 DEF AFill
      <3>2. CASE api' = ApiIdle
        BY <3>2 DEF Cancelling, ApiIdle
      <3>3. CASE \E pc \in {"scaffold", "rename"} : api' = [api EXCEPT !.pc = pc]
        BY <1>1, <2>2, <3>3 DEF Cancelling, ApiState
      <3> QED BY <3>1, <3>2, <3>3
    <2>6. CASE d # "running"
      <3>1. \A u \in Ticket : store'[u]["running"] = store[u]["running"]
        BY <1>4, <2>3, <2>6
      <3> QED BY <1>1, <1>3, <2>4, <2>5, <3>1, RunsStayWritten DEF WrittenInv
    <2>7. CASE d = "running"
      <3>1. Cancelling(t)
        BY <2>1, <2>2, <2>7 DEF Cancelling
      <3>2. HasOutcome(t) \/ (~ PastGate(t) /\ ~ Starting(t))
        BY <1>1, <3>1 DEF RunsAreKnown
      <3>3. /\ Exists(t, "running")' <=> Exists(t, "running")
            /\ \A u \in Ticket \ {t} : store'[u]["running"] = store[u]["running"]
        BY <1>4, <2>2, <2>3, <2>7 DEF Exists
      <3>4. RunsAreKnown'
        BY <1>1, <1>5, <2>5, <3>2, <3>3 DEF RunsAreKnown, Exists
      <3> QED BY <2>4, <3>4 DEF WrittenInv
    <2> QED BY <2>6, <2>7
  <1>10. CASE AUnlink
    <2>1. PICK t \in Ticket, d \in Waiting : t = api.tk /\ d = api.dir
      BY <1>1, <1>2, <1>10 DEF AUnlink, ApiInv
    <2>2. api.pc = "unlink" /\ store' = Put(t, d, "none") /\ api'.pc = "rmtree"
      BY <1>1, <1>10, <2>1 DEF AUnlink, ApiState
    <2>3. \A u \in Ticket, e \in STATES :
            store'[u][e] = IF u = t /\ e = d THEN "none" ELSE store[u][e]
      BY <1>1, <1>4, <2>1, <2>2, PutAt
    <2>4. TornIsWritten'
      BY <1>1, <1>3, <2>2, <2>3, TornStaysWritten
    <2>5. \A u \in Ticket : ~ Cancelling(u)' /\ store'[u]["running"] = store[u]["running"]
      BY <1>4, <2>1, <2>2, <2>3 DEF Cancelling
    <2>6. RunsAreKnown'
      BY <1>1, <1>3, <2>5, RunsStayWritten
    <2> QED BY <2>4, <2>6 DEF WrittenInv
  <1>11. CASE ARename
    <2>1. PICK t \in Ticket, d \in STATES, n \in STATES :
            /\ t = api.tk /\ d = api.dir /\ n = api.new
            /\ IF api.op = "delete" THEN d \in {"running", "cancelled"} /\ n = "cancelled"
                                    ELSE d \in Waiting /\ n \in Waiting
      BY <1>1, <1>2, <1>4, <1>11 DEF ARename, ApiInv
    <2>2. /\ api.pc = "rename"
          /\ store' = [store EXCEPT ![t] = [@ EXCEPT ![d] = "none", ![n] = store[t][d]]]
          /\ store \in [Ticket -> [STATES -> Content]]
      BY <1>1, <1>11, <2>1 DEF ARename, TypeOK
    <2>3. \A u \in Ticket, e \in STATES :
            store'[u][e] = IF u = t /\ e = n THEN store[t][d]
                           ELSE IF u = t /\ e = d THEN "none" ELSE store[u][e]
      BY <2>1, <2>2
    <2>4. CASE api.op # "delete"
      <3>1. api'.pc = "write" /\ api'.tk = t /\ api'.dir = n /\ api'.op # "delete"
        BY <1>1, <1>11, <2>1, <2>4 DEF ARename, ApiState
      <3>2. TornIsWritten'
        BY <1>1, <1>3, <2>2, <2>3, <3>1, TornStaysWritten
      <3>3. \A u \in Ticket : ~ Cancelling(u)' /\ store'[u]["running"] = store[u]["running"]
        BY <1>4, <2>1, <2>3, <2>4, <3>1 DEF Cancelling
      <3>4. RunsAreKnown'
        BY <1>1, <1>3, <3>3, RunsStayWritten
      <3> QED BY <3>2, <3>4 DEF WrittenInv
    <2>5. CASE api.op = "delete"
      <3>1. api'.pc = "archive"
        BY <1>1, <1>11, <2>5 DEF ARename, ApiState
      \* What it moves into cancelled/ torn is the dispatcher's, or was there.
      <3>2. ASSUME store[t][d] = "torn" PROVE HasOutcome(t)
        <4>1. CASE d = "cancelled"
          BY <1>1, <2>2, <3>2, <4>1 DEF TornIsWritten, ToBeWritten
        <4>2. CASE d = "running"
          <5>1. Cancelling(t)
            BY <2>1, <2>2, <2>5, <4>2 DEF Cancelling
          <5>2. ToBeWritten(t, "running")
            BY <1>1, <3>2, <4>2 DEF TornIsWritten
          <5>3. Starting(t)
            BY <1>1, <2>2, <5>2 DEF ToBeWritten, Starting
          <5> QED BY <1>1, <5>1, <5>3 DEF RunsAreKnown
        <4> QED BY <2>1, <2>5, <4>1, <4>2
      <3>3. TornIsWritten'
        BY <1>1, <1>3, <2>1, <2>2, <2>3, <2>5, <3>2, TornStaysWritten
      <3>4. \A u \in Ticket : /\ ~ Cancelling(u)'
                              /\ \/ store'[u]["running"] = store[u]["running"]
                                 \/ store'[u]["running"] = "none"
        BY <1>4, <2>1, <2>3, <2>5, <3>1 DEF Cancelling
      <3>5. RunsAreKnown'
        BY <1>1, <1>5, <3>4 DEF RunsAreKnown, Exists
      <3> QED BY <3>3, <3>5 DEF WrittenInv
    <2> QED BY <2>4, <2>5
  <1> QED
    BY <1>6, <1>7, <1>8, <1>9, <1>10, <1>11 DEF Api

LEMMA SameStoreKeepsWritten ==
  ASSUME WrittenInv, Kept, UNCHANGED <<store, disp, api, comp>>
  PROVE  WrittenInv'
  <1>1. /\ TornIsWritten /\ RunsAreKnown
        /\ \A t \in Ticket : HasOutcome(t) => HasOutcome(t)'
    BY OutcomeStands DEF WrittenInv
  <1>2. \A t \in Ticket, d \in STATES : ToBeWritten(t, d)' <=> ToBeWritten(t, d)
    BY DEF ToBeWritten
  <1>3. \A t \in Ticket : /\ PastGate(t)' <=> PastGate(t)
                          /\ Starting(t)' <=> Starting(t)
                          /\ Cancelling(t)' <=> Cancelling(t)
                          /\ Exists(t, "running")' <=> Exists(t, "running")
    BY DispatcherStands DEF Cancelling, Exists
  <1>4. TornIsWritten'
    BY <1>1, <1>2 DEF TornIsWritten
  <1>5. RunsAreKnown'
    BY <1>1, <1>3 DEF RunsAreKnown
  <1> QED BY <1>4, <1>5 DEF WrittenInv

LEMMA InitWrittenInv == Init => WrittenInv
  <1> SUFFICES ASSUME Init PROVE WrittenInv
    OBVIOUS
  <1>1. /\ \A t \in Ticket, d \in STATES : store[t][d] # "torn"
        /\ \A t \in Ticket : store[t]["running"] = "none"
    BY DEF Init, STATES
  <1>2. disp.pc = "list" /\ disp.src = "blocked" /\ api.pc = "idle"
    BY DEF Init, Phase, ApiIdle
  <1> QED
    BY <1>1, <1>2 DEF WrittenInv, TornIsWritten, RunsAreKnown, PastGate, Starting, Cancelling, Exists

\* Until a process dies, every ticket that was created and not deleted can be read
\* whenever nobody is at work on it: whoever truncates a file goes on to fill it,
\* and the one write that a rename can strand is of a ticket whose run is over.
THEOREM EveryTicketReadable == Spec => []NoTicketUnreadable
  <1>1. Init => (crashes = 0 => WrittenInv)
    BY InitWrittenInv
  <1>2. /\ IInv /\ OneInv /\ (crashes = 0 => StaysInv) /\ (crashes = 0 => WrittenInv) /\ [Next]_vars
        => (crashes = 0 => WrittenInv)'
    <2> SUFFICES ASSUME IInv, OneInv, crashes = 0 => StaysInv, crashes = 0 => WrittenInv,
                        [Next]_vars, crashes' = 0
                 PROVE  WrittenInv'
      OBVIOUS
    <2>1. ~ Crash
      BY DEF Crash, IInv, TypeOK
    <2>2. CASE Dispatcher
      <3>1. crashes' = crashes
        BY <2>2 DEF Dispatcher, DList, DGateClosed, DGateOpen, DRead, DReadFails, DPromote,
                    DStayBlocked, DUnmet, DPark, DStart, DFill, DUnlink, DPush, DMark, DExpire, history
      <3> QED BY <2>2, <3>1, DispatcherKeepsWritten
    <2>3. CASE Api \/ Request
      <3>1. crashes' = crashes
        BY <2>3 DEF Api, Request, ACreate, ARequest, ACreateWrite, AScaffold, AFindMisses, AFinds,
                    ADecide, ARename, ARenameFails, AWrite, AFill, AUnlink, ARmtree, AArchive, history
      <3> QED BY <2>3, <3>1, ApiKeepsWritten
    <2>4. ASSUME NEW a \in Agent, Completer(a) \/ Complete(a) PROVE WrittenInv'
      <3>1. crashes' = crashes
        BY <2>4 DEF Completer, Complete, CFind, CWrite, CFill, CUnlink, CArchive, history
      <3> QED BY <2>4, <3>1, CompleterKeepsWritten
    <2>5. CASE UNCHANGED vars \/ \E t \in Ticket : GrowOld(t)
      <3>1. UNCHANGED <<store, disp, api, comp, deps, known, deleted, crashes>>
        BY <2>5 DEF vars, history, GrowOld
      <3> QED BY <3>1, SameStoreKeepsContract, SameStoreKeepsWritten DEF IInv
    <2> QED BY <2>1, <2>2, <2>3, <2>4, <2>5 DEF Next
  <1>3. IInv /\ (crashes = 0 => StaysInv) /\ (crashes = 0 => WrittenInv) => NoTicketUnreadable
    <2> SUFFICES ASSUME NoTicketVanishes, TornIsWritten, known \subseteq Ticket,
                        NEW t \in known \ deleted, AtRest(t)
                 PROVE  \E d \in STATES : Readable(t, d)
      BY DEF NoTicketUnreadable, StaysInv, WrittenInv, IInv, TypeOK
    <2>1. \A d \in STATES : ~ ToBeWritten(t, d)
      BY DEF AtRest, ToBeWritten
    <2>2. PICK d \in STATES : Exists(t, d)
      BY DEF NoTicketVanishes
    <2>3. ASSUME store[t][d] = "torn" PROVE \E e \in {"done", "failed"} : Readable(t, e)
      <3>1. PICK e \in {"done", "failed"} : Exists(t, e)
        BY <2>1, <2>3 DEF TornIsWritten, HasOutcome
      <3>2. store[t][e] # "torn"
        BY <2>1 DEF TornIsWritten, STATES
      <3> QED BY <3>1, <3>2 DEF Exists, Readable
    <2> QED BY <2>2, <2>3 DEF Exists, Readable, STATES
  <1> QED BY OneInvHolds, StaysInvHolds, <1>1, <1>2, <1>3, PTL DEF Spec
=============================================================================
