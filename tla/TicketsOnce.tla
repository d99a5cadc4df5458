----------------------------- MODULE TicketsOnce -----------------------------
(* An agent never runs two tickets at a time, and no ticket is run twice. *)
EXTENDS TicketsProofs

\* No file in running/ comes to say "running".
NothingStarts ==
  \A t \in Ticket : store'[t]["running"] = "running" => store[t]["running"] = "running"

\* Only the dispatcher's second write into running/ breaks that.
LEMMA PutStartsNothing ==
  ASSUME TypeOK, NEW t \in Ticket, NEW d \in STATES, NEW c \in Content,
         store' = Put(t, d, c), d # "running" \/ c # "running"
  PROVE  NothingStarts
  <1>1. \A u \in Ticket, e \in STATES :
          store'[u][e] = IF u = t /\ e = d THEN c ELSE store[u][e]
    BY PutIsAStore
  <1> QED BY <1>1 DEF NothingStarts, STATES

LEMMA FillStartsNothing ==
  ASSUME TypeOK, NEW t \in Ticket, NEW d \in STATES, NEW c \in Content,
         store' = Fill(t, d, c), d # "running" \/ c # "running"
  PROVE  NothingStarts
  <1>1. \A u \in Ticket, e \in STATES :
          store'[u][e] = IF u = t /\ e = d /\ store[t][d] # "none" THEN c ELSE store[u][e]
    BY FillIsAStore
  <1> QED BY <1>1 DEF NothingStarts, STATES

\* Even that write starts only the ticket it is about.
LEMMA FillStartsOne ==
  ASSUME TypeOK, NEW t \in Ticket, NEW d \in STATES, NEW c \in Content,
         store' = Fill(t, d, c)
  PROVE  \A u \in Ticket : store'[u]["running"] = "running" =>
            u = t \/ store[u]["running"] = "running"
  <1>1. \A u \in Ticket, e \in STATES :
          store'[u][e] = IF u = t /\ e = d /\ store[t][d] # "none" THEN c ELSE store[u][e]
    BY FillIsAStore
  <1> QED BY <1>1 DEF STATES

LEMMA ApiStartsNothing ==
  ASSUME IInv, Api \/ Request
  PROVE  NothingStarts /\ disp' = disp
  <1> USE DEF history
  <1>1. /\ TypeOK /\ ApiInv /\ store \in [Ticket -> [STATES -> Content]]
        /\ api.pc \notin {"idle", "create"} => api.tk \in Ticket
    BY DEF IInv, TypeOK, ApiInv
  <1>2. /\ "torn" \in Content /\ "none" \in Content /\ "torn" # "running"
        /\ Waiting \subseteq STATES /\ Waiting \subseteq Content /\ "running" \notin Waiting
        /\ {"running", "cancelled"} \subseteq STATES \cap Content
    BY DEF Content, STATES, Waiting, Begun
  <1>3. CASE Request
    BY <1>3 DEF Request, ACreate, ARequest, NothingStarts
  <1>4. CASE AScaffold \/ AFindMisses \/ AFinds \/ ADecide \/ ARenameFails \/ ARmtree \/ AArchive
    BY <1>4 DEF AScaffold, AFindMisses, AFinds, ADecide, ARenameFails, ARmtree, AArchive,
                NothingStarts
  <1>5. CASE ACreateWrite
    <2>1. api.tk \in Ticket /\ api.new \in Waiting
      BY <1>1, <1>5 DEF ACreateWrite, ApiInv
    <2> QED BY <1>1, <1>2, <1>5, <2>1, PutStartsNothing DEF ACreateWrite, Truncate
  <1>6. ASSUME api.pc \in {"write", "fill", "rename"}
        PROVE  /\ api.tk \in Ticket
               /\ IF api.op = "delete"
                  THEN api.dir \in {"running", "cancelled"} /\ api.new = "cancelled"
                  ELSE api.dir \in Waiting /\ api.new \in Waiting
    BY <1>1, <1>6 DEF ApiInv
  <1>7. CASE ARename
    <2>1. api.new \in STATES /\ api.dir \in STATES /\ api.new # "running" /\ api.tk \in Ticket
      BY <1>2, <1>6, <1>7 DEF ARename
    <2>2. \A u \in Ticket : store'[u]["running"] \in {store[u]["running"], "none"}
      BY <1>1, <1>2, <1>7, <2>1 DEF ARename
    <2> QED BY <1>7, <2>2 DEF ARename, NothingStarts
  <1>8. CASE AWrite
    BY <1>1, <1>2, <1>6, <1>8, PutStartsNothing DEF AWrite, Truncate
  <1>9. CASE AFill
    BY <1>1, <1>2, <1>6, <1>9, FillStartsNothing DEF AFill
  <1>10. CASE AUnlink
    <2>1. api.dir \in Waiting
      BY <1>1, <1>10 DEF AUnlink, ApiInv
    <2> QED BY <1>1, <1>2, <1>10, <2>1, PutStartsNothing DEF AUnlink
  <1> QED BY <1>3, <1>4, <1>5, <1>7, <1>8, <1>9, <1>10 DEF Api

LEMMA CompleterStartsNothing ==
  ASSUME IInv, NEW a \in Agent, Completer(a) \/ Complete(a)
  PROVE  NothingStarts /\ disp' = disp
  <1>1. /\ TypeOK /\ comp[a] \in CompleterState
        /\ comp[a].pc # "idle" => comp[a].tk \in Ticket
    BY DEF IInv, TypeOK, CompleterInv
  <1>2. /\ comp[a].fin \in STATES /\ comp[a].fin \in Content /\ comp[a].fin # "running"
        /\ "running" \in STATES /\ "torn" \in Content /\ "none" \in Content
    BY <1>1 DEF CompleterState, STATES, Content
  <1>3. CASE Complete(a) \/ CArchive(a)
    BY <1>3 DEF Complete, CFind, CArchive, NothingStarts
  <1>4. CASE CWrite(a)
    BY <1>1, <1>2, <1>4, PutStartsNothing DEF CWrite, Truncate
  <1>5. CASE CFill(a)
    BY <1>1, <1>2, <1>5, FillStartsNothing DEF CFill
  <1>6. CASE CUnlink(a)
    BY <1>1, <1>2, <1>6, PutStartsNothing DEF CUnlink
  <1> QED BY <1>3, <1>4, <1>5, <1>6 DEF Completer

\* While nothing starts and the dispatcher stands still, nothing changes for it.
LEMMA NothingStartsKeeps ==
  ASSUME OneInv, NothingStarts, disp' = disp
  PROVE  OneInv'
  BY DEF OneInv, OnItsTurn, GateHolds, StartsFromArmed, OneRunningPerAgent, NothingStarts

-----------------------------------------------------------------------------
(* The dispatcher. *)

\* No ticket of the agent whose turn it is runs.
Free == \A t \in Ticket : To[t] = Config[disp.i] => store[t]["running"] # "running"

LEMMA NextPhaseHolds ==
  ASSUME TypeOK, OneInv, NothingStarts, disp' = NextPhase(disp.i, disp.src)
  PROVE  OneInv'
  <1>1. disp.src \in {"blocked", "armed", "running", "done", "failed"}
    BY DEF TypeOK, DispatcherState
  <1>2. /\ disp'.todo = {} /\ disp'.pc \in {"list", "gate"}
        /\ disp'.src = "armed" => disp'.pc = "gate"
    BY <1>1 DEF NextPhase, Phase
  <1>3. OneRunningPerAgent'
    BY DEF OneInv, OneRunningPerAgent, NothingStarts
  <1> QED BY <1>2, <1>3 DEF OneInv, OnItsTurn, GateHolds, StartsFromArmed

LEMMA ContinueHolds ==
  ASSUME TypeOK, OneInv, NothingStarts, disp.src = "armed" => Free,
         NEW S \in SUBSET Ticket, \A t \in S : To[t] = Config[disp.i], disp' = Continue(S)
  PROVE  OneInv'
  <1>1. CASE S = {}
    BY <1>1, NextPhaseHolds DEF Continue
  <1>2. CASE S # {}
    <2>1. /\ disp'.pc = "read" /\ disp'.i = disp.i /\ disp'.src = disp.src
          /\ disp'.todo = S
      BY <1>2 DEF Continue, TypeOK, DispatcherState
    <2>2. OneRunningPerAgent'
      BY DEF OneInv, OneRunningPerAgent, NothingStarts
    <2>3. OnItsTurn'
      BY <2>1 DEF OnItsTurn
    <2>4. GateHolds'
      BY <2>1 DEF GateHolds, Free, NothingStarts
    <2> QED BY <2>1, <2>2, <2>3, <2>4 DEF OneInv, StartsFromArmed
  <1> QED BY <1>1, <1>2

\* The dispatcher stays with its ticket, or takes one up.
LEMMA StaysHolds ==
  ASSUME TypeOK, OneInv, NothingStarts, disp.src = "armed" => Free,
         disp'.i = disp.i, disp'.src = disp.src, disp'.todo = disp.todo,
         \/ disp'.pc \in {"list", "gate", "read"}
         \/ disp'.tk \in Ticket /\ To[disp'.tk] = Config[disp.i],
         disp'.pc \in {"fill", "unlink"} /\ disp'.w = "running" => disp.src = "armed"
  PROVE  OneInv'
  BY DEF OneInv, OnItsTurn, GateHolds, StartsFromArmed, OneRunningPerAgent, Free, NothingStarts

LEMMA DispatcherHolds ==
  ASSUME IInv, OneInv, Dispatcher
  PROVE  OneInv'
  <1>1. /\ TypeOK /\ DispatcherInv /\ disp \in DispatcherState /\ disp.todo \subseteq Ticket
        /\ known \subseteq Ticket
    BY DEF IInv, TypeOK, DispatcherState
  <1>2. disp.pc \notin {"list", "gate", "read"} =>
          disp.tk \in Ticket /\ To[disp.tk] = Config[disp.i]
    BY <1>1 DEF DispatcherInv, OneInv, OnItsTurn
  <1>3. \A t \in disp.todo : t \in Ticket /\ To[t] = Config[disp.i]
    BY <1>1 DEF OneInv, OnItsTurn
  <1>4. disp.src = "armed" /\ disp.pc \notin {"gate", "push", "unlink"} => Free
    BY DEF OneInv, GateHolds, Free
  <1>5. store' = store => NothingStarts
    BY DEF NothingStarts
  <1>6. /\ "torn" \in Content /\ "none" \in Content /\ "torn" # "running"
        /\ {"armed", "blocked", "running", "done", "failed"} \subseteq STATES \cap Content
    BY DEF Content, STATES
  <1>7. CASE DList
    <2> DEFINE S == {t \in Ticket : To[t] = Config[disp.i] /\ Exists(t, disp.src)}
    <2>1. disp' = Continue(S) /\ S \subseteq Ticket /\ \A t \in S : To[t] = Config[disp.i]
      BY <1>7 DEF DList
    <2>2. NothingStarts /\ (disp.src = "armed" => Free)
      BY <1>4, <1>5, <1>7 DEF DList
    <2> HIDE DEF S
    <2> QED BY <1>1, <2>1, <2>2, ContinueHolds
  <1>8. CASE DGateClosed
    BY <1>1, <1>5, <1>8, NextPhaseHolds DEF DGateClosed
  <1>9. CASE DGateOpen
    <2>1. Free
      BY <1>9 DEF DGateOpen, Free, Exists
    <2> QED BY <1>1, <1>5, <1>9, <2>1, StaysHolds DEF DGateOpen, DispatcherState
  <1>10. ASSUME NEW t \in Ticket, DRead(t) PROVE OneInv'
    <2>1. To[t] = Config[disp.i] /\ NothingStarts /\ (disp.src = "armed" => Free)
      BY <1>3, <1>4, <1>5, <1>10 DEF DRead, OneInv, OnItsTurn, Candidates
    <2>2. CASE disp' = Continue(disp.todo \ {t})
      BY <1>1, <1>3, <2>1, <2>2, ContinueHolds
    <2>3. CASE \E pc \in {"check", "expire", "notify"} : disp' = [disp EXCEPT !.pc = pc, !.tk = t]
      <3>1. /\ disp'.tk = t /\ disp'.i = disp.i /\ disp'.src = disp.src /\ disp'.todo = disp.todo
            /\ disp'.pc \notin {"fill", "unlink"}
        BY <1>1, <2>3 DEF DispatcherState
      <3> QED BY <1>1, <2>1, <3>1, StaysHolds
    <2>4. disp.src \in {"blocked", "armed", "running", "done", "failed"}
      BY <1>1 DEF DispatcherState
    <2> QED BY <1>10, <2>2, <2>3, <2>4 DEF DRead
  <1>11. ASSUME NEW t \in Ticket, DReadFails(t) PROVE OneInv'
    BY <1>1, <1>3, <1>4, <1>5, <1>11, ContinueHolds DEF DReadFails
  <1>12. CASE DStayBlocked
    BY <1>1, <1>3, <1>4, <1>5, <1>12, ContinueHolds DEF DStayBlocked
  <1>13. CASE DUnmet
    BY <1>1, <1>2, <1>4, <1>5, <1>13, StaysHolds DEF DUnmet, DispatcherState
  \* A step that begins to write keeps hold of its ticket.
  <1>14. ASSUME disp.pc \in {"check", "park", "notify", "expire"},
                NEW d \in STATES, store' = Put(disp.tk, d, "torn"),
                disp' = [disp EXCEPT !.pc = "fill", !.w = d],
                d = "running" => disp.src = "armed"
         PROVE  OneInv'
    <2>1. NothingStarts
      BY <1>1, <1>2, <1>6, <1>14, PutStartsNothing
    <2> QED BY <1>1, <1>2, <1>4, <1>14, <2>1, StaysHolds DEF DispatcherState
  <1>15. CASE DPromote
    BY <1>6, <1>14, <1>15 DEF DPromote, Truncate
  <1>16. CASE DPark
    BY <1>6, <1>14, <1>16 DEF DPark, Truncate
  <1>17. CASE DStart
    BY <1>6, <1>14, <1>17 DEF DStart, Truncate
  <1>18. CASE DMark
    BY <1>1, <1>6, <1>14, <1>18 DEF DMark, Truncate, DispatcherInv
  <1>19. CASE DExpire
    BY <1>6, <1>14, <1>19 DEF DExpire, Truncate
  <1>20. CASE DFill
    <2>1. disp.w \in STATES \cap Content /\ disp.tk \in Ticket
      BY <1>1, <1>2, <1>6, <1>20 DEF DFill, DispatcherInv, DispatcherState
    <2>2. CASE disp.w # "running"
      <3>1. NothingStarts
        BY <1>1, <1>20, <2>1, <2>2, FillStartsNothing DEF DFill
      <3>2. CASE disp.src \in {"done", "failed"}
        BY <1>1, <1>3, <1>4, <1>20, <3>1, <3>2, ContinueHolds DEF DFill
      <3>3. CASE disp.src \notin {"done", "failed"}
        <4>1. disp' = [disp EXCEPT !.pc = "unlink"]
          BY <1>20, <3>3 DEF DFill
        <4> QED BY <1>1, <1>2, <1>4, <1>20, <2>2, <3>1, <4>1, StaysHolds DEF DFill, DispatcherState
      <3> QED BY <3>2, <3>3
    <2>3. CASE disp.w = "running"
      <3>1. disp.src = "armed" /\ Free /\ To[disp.tk] = Config[disp.i]
        BY <1>2, <1>4, <1>20, <2>3 DEF DFill, OneInv, StartsFromArmed
      <3>2. /\ disp'.pc = "unlink" /\ disp'.w = "running" /\ disp'.tk = disp.tk
            /\ disp'.i = disp.i /\ disp'.src = disp.src /\ disp'.todo = disp.todo
        BY <1>1, <1>20, <2>3, <3>1 DEF DFill, DispatcherState
      <3>3. \A u \in Ticket : store'[u]["running"] = "running" =>
                u = disp.tk \/ store[u]["running"] = "running"
        <4>1. /\ store' = Fill(disp.tk, disp.w, disp.w) /\ TypeOK
              /\ disp.tk \in Ticket /\ disp.w \in STATES /\ disp.w \in Content
          BY <1>1, <1>20, <2>1 DEF DFill
        <4> QED BY <4>1, FillStartsOne
      <3>4. OneRunningPerAgent'
        BY <3>1, <3>3 DEF OneInv, OneRunningPerAgent, Free
      <3>5. GateHolds'
        BY <3>1, <3>2, <3>3 DEF GateHolds, Free
      <3> QED BY <3>1, <3>2, <3>4, <3>5 DEF OneInv, OnItsTurn, StartsFromArmed
    <2> QED BY <2>2, <2>3
  <1>21. CASE DUnlink
    <2>1. NothingStarts
      <3>1. /\ store' = Put(disp.tk, disp.src, "none") /\ disp.tk \in Ticket
            /\ disp.src \in STATES
        BY <1>1, <1>2, <1>6, <1>21 DEF DUnlink, DispatcherInv
      <3> QED BY <1>1, <1>6, <3>1, PutStartsNothing
    <2>2. CASE disp.w = "running"
      <3>1. /\ disp'.pc = "push" /\ disp'.tk = disp.tk
            /\ disp'.i = disp.i /\ disp'.src = disp.src /\ disp'.todo = disp.todo
        BY <1>1, <1>21, <2>2 DEF DUnlink, DispatcherState
      <3>2. disp.pc = "unlink"
        BY <1>21 DEF DUnlink
      <3>3. OneRunningPerAgent'
        BY <2>1 DEF OneInv, OneRunningPerAgent, NothingStarts
      <3>4. OnItsTurn' /\ StartsFromArmed'
        BY <3>1, <3>2 DEF OneInv, OnItsTurn, StartsFromArmed
      <3>5. GateHolds'
        BY <2>1, <3>1, <3>2 DEF OneInv, GateHolds, NothingStarts
      <3> QED BY <3>3, <3>4, <3>5 DEF OneInv
    <2>3. CASE disp.w # "running"
      <3>1. disp.src = "armed" => Free
        BY <1>21, <2>3 DEF DUnlink, OneInv, GateHolds, Free
      <3> QED BY <1>1, <1>3, <1>21, <2>1, <2>3, <3>1, ContinueHolds DEF DUnlink
    <2> QED BY <2>2, <2>3
  <1>22. CASE DPush
    BY <1>1, <1>5, <1>22, NextPhaseHolds DEF DPush
  <1> QED BY <1>7, <1>8, <1>9, <1>10, <1>11, <1>12, <1>13, <1>15, <1>16, <1>17, <1>18,
             <1>19, <1>20, <1>21, <1>22 DEF Dispatcher

LEMMA InitOneInv == Init => OneInv
  BY DEF Init, Phase, OneInv, OnItsTurn, GateHolds, StartsFromArmed, OneRunningPerAgent,
         STATES

LEMMA OneInvHolds == Spec => [](IInv /\ OneInv)
  <1>1. IInv /\ OneInv /\ [Next]_vars => OneInv'
    <2> SUFFICES ASSUME IInv, OneInv, [Next]_vars PROVE OneInv'
      OBVIOUS
    <2>1. CASE UNCHANGED vars \/ \E t \in Ticket : GrowOld(t)
      BY <2>1, NothingStartsKeeps DEF vars, GrowOld, NothingStarts
    <2>2. CASE Crash
      <3>1. store' = store /\ (disp' = disp \/ disp' = Phase(1, "blocked"))
        BY <2>2 DEF Crash
      <3>2. CASE disp' = disp
        BY <3>1, <3>2, NothingStartsKeeps DEF NothingStarts
      <3>3. CASE disp' = Phase(1, "blocked")
        BY <3>1, <3>3 DEF Phase, OneInv, OnItsTurn, GateHolds, StartsFromArmed,
                          OneRunningPerAgent
      <3> QED BY <3>1, <3>2, <3>3
    <2>3. CASE Dispatcher
      BY <2>3, DispatcherHolds
    <2>4. CASE Api \/ Request
      BY <2>4, ApiStartsNothing, NothingStartsKeeps
    <2>5. CASE \E a \in Agent : Completer(a) \/ Complete(a)
      BY <2>5, CompleterStartsNothing, NothingStartsKeeps
    <2> QED BY <2>1, <2>2, <2>3, <2>4, <2>5 DEF Next
  <1> QED BY Invariant, InitOneInv, <1>1, PTL DEF Spec

\* The dispatcher's gate is enough: whatever the API, the agents and crashes do
\* between its look at running/ and its write there, an agent never has two
\* running tickets.
THEOREM OneAtATime == Spec => []OneRunningPerAgent
  <1>1. OneInv => OneRunningPerAgent
    BY DEF OneInv
  <1> QED BY <1>1, OneInvHolds, PTL

-----------------------------------------------------------------------------
(* One ticket is not run twice, as long as no request edits or arms it and   *)
(* no process dies: a PATCH writes the armed file again when the dispatcher  *)
(* has just removed it, and a dispatcher that dies between its write into    *)
(* running/ and its unlink finds the armed file again.                       *)

\* The dispatcher holds t, which waited; is moving it between armed/ and
\* blocked/; is handing it out; is typing it.
Held(t)    == disp.tk = t /\ disp.src \in {"armed", "blocked"}
              /\ disp.pc \in {"check", "park", "fill", "unlink"}
Handing(t) == disp.tk = t /\ disp.src = "armed" /\ disp.w = "running"
              /\ disp.pc \in {"fill", "unlink"}
Moving(t)  == Held(t) /\ disp.pc \in {"fill", "unlink"} /\ ~ Handing(t)
Typing(t)  == disp.tk = t /\ disp.pc = "push"

\* A ticket waits in one directory, and in none once it has started.
WaitsOnce ==
  \A t \in Ticket :
    /\ Exists(t, "armed") /\ Exists(t, "blocked") => Moving(t)
    /\ Held(t) /\ disp.src = "armed" /\ Exists(t, "blocked") => Moving(t)
    /\ Started(t) => /\ ~ Exists(t, "blocked")
                     /\ Exists(t, "armed") \/ Held(t) => Handing(t)

TypedOnce ==
  \A t \in Ticket :
    /\ pushes[t] > 0 \/ Typing(t) \/ Handing(t) => Started(t)
    /\ Typing(t) \/ Handing(t) => pushes[t] = 0
    /\ pushes[t] <= 1

\* The API puts a file where tickets wait for the dispatcher only when it creates one.
OnlyCreates ==
  /\ api.op \in {"none", "create", "draft", "delete"}
  /\ api.pc = "create" => api.tk \notin known
  /\ api.pc \in {"rename", "write"} => api.op \in {"draft", "delete"}
  /\ api.op = "draft" => /\ api.pc = "rename" => api.new = "draft"
                         /\ api.pc \in {"write", "fill"} => api.dir = "draft"

OnceInv == WaitsOnce /\ TypedOnce /\ OnlyCreates

\* Files are only removed, but for one.
AddsAtMost(t, d) ==
  \A u \in Ticket, e \in STATES : Exists(u, e)' => Exists(u, e) \/ (u = t /\ e = d)

\* No ticket comes to wait, none to have started.
NothingNew ==
  /\ \A u \in Ticket : Started(u)' => Started(u)
  /\ \A u \in Ticket, e \in {"armed", "blocked"} : Exists(u, e)' => Exists(u, e)

LEMMA PutExists ==
  ASSUME TypeOK, NEW t \in Ticket, NEW d \in STATES, NEW c \in Content, store' = Put(t, d, c)
  PROVE  \A u \in Ticket, e \in STATES :
            Exists(u, e)' <=> IF u = t /\ e = d THEN c # "none" ELSE Exists(u, e)
  <1>1. \A u \in Ticket, e \in STATES :
          store'[u][e] = IF u = t /\ e = d THEN c ELSE store[u][e]
    BY PutIsAStore
  <1> QED BY <1>1 DEF Exists

LEMMA PutAdds ==
  ASSUME TypeOK, NEW t \in Ticket, NEW d \in STATES, NEW c \in Content, store' = Put(t, d, c)
  PROVE  AddsAtMost(t, d)
  BY PutExists DEF AddsAtMost

LEMMA RenameAdds ==
  ASSUME TypeOK, NEW t \in Ticket, NEW d \in STATES, NEW e \in STATES,
         store' = [store EXCEPT ![t] = [@ EXCEPT ![d] = "none", ![e] = store[t][d]]]
  PROVE  AddsAtMost(t, e)
  BY DEF TypeOK, AddsAtMost, Exists

LEMMA FillAdds ==
  ASSUME TypeOK, NEW t \in Ticket, NEW d \in STATES, NEW c \in Content, c # "none",
         store' = Fill(t, d, c)
  PROVE  \A u \in Ticket, e \in STATES : Exists(u, e)' <=> Exists(u, e)
  <1>1. \A u \in Ticket, e \in STATES :
          store'[u][e] = IF u = t /\ e = d /\ store[t][d] # "none" THEN c ELSE store[u][e]
    BY FillIsAStore
  <1> QED BY <1>1 DEF Exists

LEMMA SameFilesNothingNew ==
  ASSUME \A u \in Ticket, e \in STATES : Exists(u, e)' => Exists(u, e)
  PROVE  NothingNew
  <1>1. Begun \subseteq STATES /\ {"armed", "blocked"} \subseteq STATES
    BY DEF Begun, STATES
  <1> QED BY <1>1 DEF NothingNew, Started

LEMMA AddsNothingNew ==
  ASSUME NEW t \in Ticket, NEW d \in STATES, AddsAtMost(t, d),
         d \in Begun => Started(t), d \in {"armed", "blocked"} => Exists(t, d)
  PROVE  NothingNew
  <1>1. Begun \subseteq STATES /\ {"armed", "blocked"} \subseteq STATES
    BY DEF Begun, STATES
  <1> QED BY <1>1 DEF NothingNew, AddsAtMost, Started

\* What the contract calls started stays so.
LEMMA StartsStand ==
  ASSUME Kept, NEW t \in Ticket, Started(t)
  PROVE  Started(t)'
  <1>1. StartedTickets \subseteq StartedTickets'
    BY DEF Kept, Contract!Next, Contract!vars, Contract!Plan, Contract!Start, Contract!End,
           StartedTickets
  <1> QED BY <1>1 DEF StartedTickets

\* A step that gives nothing new changes nothing for a dispatcher that stands still.
LEMMA NothingNewKeeps ==
  ASSUME TypeOK, WaitsOnce, TypedOnce, NothingNew, Kept, UNCHANGED <<disp, pushes>>
  PROVE  WaitsOnce' /\ TypedOnce'
  <1>1. \A t \in Ticket : /\ Held(t)' <=> Held(t)
                          /\ Handing(t)' <=> Handing(t)
                          /\ Moving(t)' <=> Moving(t)
                          /\ Typing(t)' <=> Typing(t)
    BY DEF Held, Handing, Moving, Typing
  <1>2. \A t \in Ticket : /\ Started(t)' <=> Started(t)
                          /\ Exists(t, "armed")' => Exists(t, "armed")
                          /\ Exists(t, "blocked")' => Exists(t, "blocked")
    BY StartsStand DEF NothingNew
  <1>3. WaitsOnce'
    BY <1>1, <1>2 DEF WaitsOnce
  <1>4. TypedOnce'
    BY <1>1, <1>2 DEF TypedOnce
  <1> QED BY <1>3, <1>4

LEMMA CompleterKeepsOnce ==
  ASSUME IInv, OnceInv, NEW a \in Agent, Completer(a) \/ Complete(a)
  PROVE  OnceInv'
  <1>1. /\ TypeOK /\ CompleterInv /\ comp[a] \in CompleterState
        /\ comp[a].pc # "idle" => comp[a].tk \in Ticket
    BY DEF IInv, TypeOK, CompleterInv
  <1>2. /\ comp[a].fin \in STATES /\ comp[a].fin \in Content
        /\ comp[a].fin \notin {"armed", "blocked", "none"}
        /\ "running" \in STATES /\ "torn" \in Content /\ "none" \in Content
        /\ "running" \notin {"armed", "blocked"}
    BY <1>1 DEF CompleterState, STATES, Content
  <1>3. NothingNew /\ UNCHANGED <<disp, api, known, pushes>>
    <2>1. CASE Complete(a) \/ CArchive(a)
      BY <2>1, SameFilesNothingNew DEF Complete, CFind, CArchive, Exists, history
    <2>2. CASE CWrite(a)
      <3>1. Started(comp[a].tk)
        BY <1>1, <2>2 DEF CWrite, CompleterInv
      <3> QED BY <1>1, <1>2, <2>2, <3>1, PutAdds, AddsNothingNew DEF CWrite, Truncate, history
    <2>3. CASE CFill(a)
      BY <1>1, <1>2, <2>3, FillAdds, SameFilesNothingNew DEF CFill, history
    <2>4. CASE CUnlink(a)
      <3>1. Started(comp[a].tk)
        BY <1>1, <2>4 DEF CUnlink, CompleterInv
      <3> QED BY <1>1, <1>2, <2>4, <3>1, PutAdds, AddsNothingNew DEF CUnlink, history
    <2> QED BY <2>1, <2>2, <2>3, <2>4 DEF Completer
  <1>4. Kept
    BY CompleterKeepsContract
  <1>5. OnlyCreates'
    BY <1>3 DEF OnceInv, OnlyCreates
  <1> QED BY <1>1, <1>3, <1>4, <1>5, NothingNewKeeps DEF OnceInv

LEMMA ApiKeepsOnce ==
  ASSUME Ops \subseteq {"create", "draft", "delete"}, IInv, OnceInv, Api \/ Request
  PROVE  OnceInv'
  <1> USE DEF history
  <1>1. /\ TypeOK /\ FilesAreKnown /\ ApiInv /\ DispatcherInv /\ OnlyCreates
        /\ api \in ApiState /\ known \subseteq Ticket
        /\ api.pc \notin {"idle", "create"} => api.tk \in Ticket
    BY DEF IInv, TypeOK, ApiInv, OnceInv
  <1>2. /\ "none" \in Content /\ "torn" \in Content /\ "torn" # "none" /\ Waiting \subseteq Content \ {"none"}
        /\ Waiting \subseteq STATES /\ {"running", "cancelled", "armed", "blocked"} \subseteq STATES
        /\ {"draft", "armed", "blocked"} \subseteq Waiting /\ "cancelled" \in Content
        /\ Waiting \cap Begun = {} /\ Begun \subseteq STATES
    BY DEF Content, STATES, Waiting, Begun
  <1>3. Kept
    BY ApiKeepsContract
  <1>4. UNCHANGED <<disp, pushes>> /\ (~ ACreateWrite => known' = known)
    BY DEF Api, Request, ACreate, ARequest, ACreateWrite, AScaffold, AFindMisses, AFinds, ADecide,
           ARename, ARenameFails, AWrite, AFill, AUnlink, ARmtree, AArchive
  <1>5. OnlyCreates'
    <2>1. CASE Request
      <3>1. ASSUME NEW t \in Ticket, NEW D \in SUBSET known, NEW mode \in {"draft", "armed"},
                   ACreate(t, D, mode)
            PROVE  OnlyCreates'
        BY <3>1 DEF ACreate, ApiIdle, OnlyCreates
      <3>2. ASSUME NEW op \in Ops, NEW t \in Ticket, ARequest(op, t) PROVE OnlyCreates'
        <4>1. op \in {"draft", "delete"}
          BY <3>2 DEF ARequest
        <4>2. api'.pc = "find" /\ api'.op = op
          BY <3>2 DEF ARequest, ApiIdle
        <4> QED BY <4>1, <4>2 DEF OnlyCreates
      <3> QED BY <2>1, <3>1, <3>2 DEF Request
    <2>2. CASE AScaffold \/ AFindMisses \/ ARenameFails \/ ARmtree \/ AArchive \/ AUnlink
      BY <1>1, <1>4, <2>2 DEF AScaffold, AFindMisses, ARenameFails, ARmtree, AArchive, AUnlink,
                         Done4xx, ApiIdle, OnlyCreates, ApiState
    <2>3. CASE AFinds
      <3>1. \/ api' = ApiIdle
            \/ api' = [api EXCEPT !.pc = "unlink"] \/ api' = [api EXCEPT !.pc = "decide"]
            \/ api.op = "delete" /\ api' = [api EXCEPT !.pc = "write", !.new = "cancelled"]
        <4>1. api.op # "edit"
          BY <1>1 DEF OnlyCreates
        <4> QED BY <2>3, <4>1 DEF AFinds, Done4xx
      <3>2. CASE api' = ApiIdle
        BY <3>2 DEF ApiIdle, OnlyCreates
      <3>3. CASE api' # ApiIdle
        <4>1. api'.pc \in {"unlink", "decide", "write"} /\ api'.op = api.op
              /\ (api'.pc = "write" => api.op = "delete")
          BY <1>1, <3>1, <3>3 DEF ApiState
        <4> QED BY <1>1, <4>1 DEF OnlyCreates
      <3> QED BY <3>2, <3>3
    <2>4. CASE ADecide
      BY <1>1, <1>4, <2>4 DEF ADecide, OnlyCreates, ApiState, ApiInv
    <2>5. CASE ARename
      BY <1>1, <1>4, <2>5 DEF ARename, OnlyCreates, ApiState
    <2>6. CASE AWrite
      BY <1>1, <1>4, <2>6 DEF AWrite, OnlyCreates, ApiState
    <2>7. CASE AFill
      BY <1>1, <1>4, <2>7 DEF AFill, OnlyCreates, ApiState, ApiIdle
    <2>8. CASE ACreateWrite
      BY <1>1, <2>8 DEF ACreateWrite, OnlyCreates, ApiState, ApiInv
    <2> QED BY <2>1, <2>2, <2>3, <2>4, <2>5, <2>6, <2>7, <2>8 DEF Api
  <1>6. ASSUME api.pc \in {"write", "rename"}
        PROVE  /\ api.tk \in Ticket /\ api.dir \in STATES /\ api.new \in STATES
               /\ api.dir \in Begun => Started(api.tk)
               /\ api.pc = "write" => api.dir \notin {"armed", "blocked"}
               /\ api.pc = "rename" => api.new \notin {"armed", "blocked"}
               /\ api.new \in Begun => Started(api.tk)
    BY <1>1, <1>2, <1>6 DEF ApiInv, OnlyCreates
  <1>7. ~ ACreateWrite => NothingNew
    <2>1. CASE \/ Request \/ AScaffold \/ AFindMisses \/ AFinds \/ ADecide \/ ARenameFails
               \/ ARmtree \/ AArchive
      <3>1. store' = store
        BY <2>1 DEF Request, ACreate, ARequest, AScaffold, AFindMisses, AFinds, ADecide,
                    ARenameFails, ARmtree, AArchive
      <3> QED BY <3>1, SameFilesNothingNew DEF Exists
    <2>2. CASE ARename
      <3>1. AddsAtMost(api.tk, api.new)
        BY <1>1, <1>6, <2>2, RenameAdds DEF ARename
      <3> QED BY <1>6, <2>2, <3>1, AddsNothingNew DEF ARename
    <2>3. CASE AWrite
      BY <1>1, <1>2, <1>6, <2>3, PutAdds, AddsNothingNew DEF AWrite, Truncate
    <2>4. CASE AFill
      <3>1. api.dir \in STATES /\ api.new \in Content /\ api.new # "none" /\ api.tk \in Ticket
        BY <1>1, <1>2, <2>4 DEF AFill, ApiInv
      <3> QED BY <1>1, <2>4, <3>1, FillAdds, SameFilesNothingNew DEF AFill
    <2>5. CASE AUnlink
      <3>1. api.dir \in STATES /\ api.tk \in Ticket
        BY <1>1, <1>2, <2>5 DEF AUnlink, ApiInv
      <3>2. store' = Put(api.tk, api.dir, "none")
        BY <2>5 DEF AUnlink
      <3>3. \A u \in Ticket, e \in STATES : Exists(u, e)' => Exists(u, e)
        BY <1>1, <1>2, <3>1, <3>2, PutExists
      <3> QED BY <3>3, SameFilesNothingNew
    <2> QED BY <2>1, <2>2, <2>3, <2>4, <2>5 DEF Api
  <1>8. CASE ~ ACreateWrite
    BY <1>1, <1>3, <1>4, <1>5, <1>7, <1>8, NothingNewKeeps DEF OnceInv
  <1>9. CASE ACreateWrite
    <2>1. api.tk \in Ticket /\ api.new \in Waiting /\ api.tk \notin known
      BY <1>1, <1>9 DEF ACreateWrite, ApiInv, OnlyCreates
    <2>2. \A e \in STATES : ~ Exists(api.tk, e)
      BY <1>1, <2>1 DEF FilesAreKnown
    <2>3. ~ Started(api.tk) /\ ~ Held(api.tk) /\ ~ Typing(api.tk) /\ ~ Handing(api.tk)
      BY <1>1, <1>2, <2>1, <2>2 DEF Started, Held, Typing, Handing, DispatcherInv
    <2>4. \A u \in Ticket, e \in STATES :
             Exists(u, e)' <=> Exists(u, e) \/ (u = api.tk /\ e = api.new)
      <3>1. store' = Put(api.tk, api.new, "torn")
        BY <1>9 DEF ACreateWrite, Truncate
      <3>2. api.new \in STATES
        BY <1>2, <2>1
      <3> QED BY <1>1, <1>2, <2>1, <3>1, <3>2, PutExists
    <2>5. \A u \in Ticket : Started(u)' <=> Started(u)
      BY <1>2, <2>1, <2>4 DEF Started
    <2>6. \A t \in Ticket : /\ Held(t)' <=> Held(t)
                            /\ Handing(t)' <=> Handing(t)
                            /\ Moving(t)' <=> Moving(t)
                            /\ Typing(t)' <=> Typing(t)
      BY <1>4 DEF Held, Handing, Moving, Typing
    <2>7. WaitsOnce'
      <3> SUFFICES ASSUME NEW t \in Ticket
                   PROVE /\ Exists(t, "armed")' /\ Exists(t, "blocked")' => Moving(t)'
                         /\ Held(t)' /\ disp'.src = "armed" /\ Exists(t, "blocked")' => Moving(t)'
                         /\ Started(t)' => /\ ~ Exists(t, "blocked")'
                                           /\ Exists(t, "armed")' \/ Held(t)' => Handing(t)'
        BY DEF WaitsOnce
      <3>1. CASE t = api.tk
        BY <1>2, <2>2, <2>3, <2>4, <2>5, <2>6, <3>1
      <3>2. CASE t # api.tk
        BY <1>2, <1>4, <2>4, <2>5, <2>6, <3>2 DEF OnceInv, WaitsOnce
      <3> QED BY <3>1, <3>2
    <2>8. TypedOnce'
      BY <1>4, <2>5, <2>6 DEF OnceInv, TypedOnce
    <2> QED BY <1>5, <2>7, <2>8 DEF OnceInv
  <1> QED BY <1>8, <1>9

\* Every ticket waits in one directory at most, and not once it has started.
Settled ==
  \A t \in Ticket :
    /\ ~ (Exists(t, "armed") /\ Exists(t, "blocked"))
    /\ Started(t) => ~ Exists(t, "blocked") /\ ~ Exists(t, "armed")

LEMMA SettledUnlessHeld ==
  ASSUME WaitsOnce, disp.pc \notin {"fill", "unlink"} \/ disp.src \notin {"armed", "blocked"}
  PROVE  Settled
  BY DEF WaitsOnce, Settled, Moving, Handing, Held

\* A dispatcher that lets go of its ticket leaves everything settled.
LEMMA LetsGo ==
  ASSUME TypedOnce, Settled', Kept, pushes' = pushes,
         disp'.pc \notin {"check", "park", "push"},
         disp'.pc \notin {"fill", "unlink"} \/ disp'.src \notin {"armed", "blocked"}
  PROVE  WaitsOnce' /\ TypedOnce'
  <1>1. \A t \in Ticket : ~ Held(t)' /\ ~ Handing(t)' /\ ~ Typing(t)'
    BY DEF Held, Handing, Typing
  <1>2. WaitsOnce'
    BY <1>1 DEF Settled, WaitsOnce
  <1>3. TypedOnce'
    BY <1>1, StartsStand DEF TypedOnce
  <1> QED BY <1>2, <1>3

\* It takes one up that has not started, or goes on with it, or begins to write.
LEMMA TakesUp ==
  ASSUME TypedOnce, Settled, Kept, pushes' = pushes, NEW t \in Ticket, ~ Started(t),
         disp'.tk = t, disp'.src \in {"armed", "blocked"}, disp'.pc \in {"check", "park"},
         store' = store, disp'.src = "armed" => ~ Exists(t, "blocked")
  PROVE  WaitsOnce' /\ TypedOnce'
  <1>1. /\ \A u \in Ticket : ~ Handing(u)' /\ ~ Typing(u)'
        /\ \A u \in Ticket : Held(u)' => u = t
    BY DEF Held, Handing, Typing
  <1>2. \A u \in Ticket : /\ Started(u)' <=> Started(u)
                          /\ \A e \in STATES : Exists(u, e)' <=> Exists(u, e)
    BY DEF Started, Exists
  <1>3. "armed" \in STATES /\ "blocked" \in STATES
    BY DEF STATES
  <1>4. WaitsOnce'
    BY <1>1, <1>2, <1>3 DEF Settled, WaitsOnce
  <1>5. TypedOnce'
    BY <1>1, <1>2 DEF TypedOnce
  <1> QED BY <1>4, <1>5

\* What it writes, it writes for the ticket it holds, which has not started.
LEMMA Writes ==
  ASSUME TypeOK, WaitsOnce, TypedOnce, Kept, pushes' = pushes,
         disp.tk \in Ticket, Held(disp.tk), disp.pc \in {"check", "park"},
         NEW d \in {"armed", "blocked", "running"}, store' = Put(disp.tk, d, "torn"),
         disp'.tk = disp.tk, disp'.src = disp.src, disp'.pc = "fill", disp'.w = d,
         d = "running" => disp.src = "armed"
  PROVE  WaitsOnce' /\ TypedOnce'
  <1>1. /\ Settled /\ ~ Started(disp.tk) /\ pushes[disp.tk] = 0
        /\ disp.src = "armed" => ~ Exists(disp.tk, "blocked")
    <2>1. Settled
      BY SettledUnlessHeld
    <2>2. ~ Started(disp.tk) /\ (disp.src = "armed" => ~ Exists(disp.tk, "blocked"))
      BY DEF WaitsOnce, Moving, Handing
    <2>3. pushes[disp.tk] = 0
      BY <2>2 DEF TypedOnce, TypeOK
    <2> QED BY <2>1, <2>2, <2>3
  <1>2. \A u \in Ticket, e \in STATES :
          Exists(u, e)' <=> Exists(u, e) \/ (u = disp.tk /\ e = d)
    <2>1. "torn" \in Content /\ d \in STATES
      BY DEF Content, STATES
    <2> QED BY <2>1, PutExists
  <1>3. /\ Begun \subseteq STATES /\ {"armed", "blocked", "running"} \subseteq STATES
        /\ "running" \in Begun /\ {"armed", "blocked"} \cap Begun = {}
    BY DEF STATES, Begun
  <1>4. \A u \in Ticket : /\ Started(u) => Started(u)'
                          /\ Started(u)' <=> Started(u) \/ (u = disp.tk /\ d = "running")
    BY <1>2, <1>3 DEF Started
  <1>5. \A u \in Ticket : /\ Held(u)' <=> u = disp.tk
                          /\ Handing(u)' <=> u = disp.tk /\ d = "running"
                          /\ Moving(u)' <=> u = disp.tk /\ d # "running"
                          /\ ~ Typing(u)'
    BY DEF Held, Handing, Moving, Typing
  <1>6. WaitsOnce'
    <2> SUFFICES ASSUME NEW t \in Ticket
                 PROVE /\ Exists(t, "armed")' /\ Exists(t, "blocked")' => Moving(t)'
                       /\ Held(t)' /\ disp'.src = "armed" /\ Exists(t, "blocked")' => Moving(t)'
                       /\ Started(t)' => /\ ~ Exists(t, "blocked")'
                                         /\ Exists(t, "armed")' \/ Held(t)' => Handing(t)'
      BY DEF WaitsOnce
    <2>1. CASE t # disp.tk
      BY <1>1, <1>2, <1>3, <1>4, <1>5, <2>1 DEF Settled
    <2>2. CASE t = disp.tk
      BY <1>1, <1>2, <1>3, <1>4, <1>5, <2>2 DEF Settled
    <2> QED BY <2>1, <2>2
  <1>7. TypedOnce'
    BY <1>1, <1>4, <1>5 DEF TypedOnce
  <1> QED BY <1>6, <1>7

LEMMA DispatcherKeepsOnce ==
  ASSUME IInv, OneInv, OnceInv, Dispatcher
  PROVE  OnceInv'
  <1> USE DEF history
  <1>1. /\ TypeOK /\ DispatcherInv /\ WaitsOnce /\ TypedOnce /\ OnlyCreates
        /\ disp \in DispatcherState /\ disp.todo \subseteq Ticket /\ known \subseteq Ticket
        /\ disp.src \in {"blocked", "armed", "running", "done", "failed"}
    BY DEF IInv, TypeOK, DispatcherState, OnceInv
  <1>2. disp.pc \notin {"list", "gate", "read"} => disp.tk \in Ticket
    BY <1>1 DEF DispatcherInv
  <1>3. Kept
    BY DispatcherKeepsContract
  <1>4. UNCHANGED <<api, known>> /\ (~ DPush => pushes' = pushes)
    BY DEF Dispatcher, DList, DGateClosed, DGateOpen, DRead, DReadFails, DPromote, DStayBlocked,
           DUnmet, DPark, DStart, DFill, DUnlink, DPush, DMark, DExpire
  <1>5. OnlyCreates'
    BY <1>1, <1>4 DEF OnlyCreates
  <1>6. store' = store => (Settled <=> Settled')
    BY DEF Settled, Started, Exists
  <1>7. /\ {"armed", "blocked", "running", "done", "failed"} \subseteq STATES \cap Content
        /\ "none" \in Content /\ "torn" \in Content /\ "torn" # "none" /\ {"running", "done", "failed"} \subseteq Begun
        /\ Begun \subseteq STATES /\ {"armed", "blocked"} \cap Begun = {}
    BY DEF STATES, Content, Begun
  <1>8. \A S : disp.pc \in {"list", "gate", "read", "check", "push", "fill", "unlink"} =>
           /\ Continue(S).pc \in {"list", "gate", "read"}
           /\ NextPhase(disp.i, disp.src).pc \in {"list", "gate", "read"}
    BY <1>1 DEF Continue, NextPhase, Phase, DispatcherState
  \* Steps that look, and hold nothing afterwards.
  <1>9. CASE \/ DList \/ DGateClosed \/ DGateOpen \/ DStayBlocked
             \/ \E t \in Ticket : DReadFails(t)
    <2>1. /\ store' = store /\ disp'.pc \in {"list", "gate", "read"} /\ pushes' = pushes
          /\ disp.pc \notin {"fill", "unlink"}
      <3>1. CASE DList
        BY <1>8, <3>1 DEF DList
      <3>2. CASE DGateClosed \/ DGateOpen
        BY <1>1, <1>8, <3>2 DEF DGateClosed, DGateOpen, DispatcherState
      <3>3. CASE DStayBlocked
        BY <1>8, <3>3 DEF DStayBlocked
      <3>4. ASSUME NEW t \in Ticket, DReadFails(t)
            PROVE  /\ store' = store /\ disp'.pc \in {"list", "gate", "read"} /\ pushes' = pushes
                   /\ disp.pc \notin {"fill", "unlink"}
        BY <1>8, <3>4 DEF DReadFails
      <3> QED BY <1>9, <3>1, <3>2, <3>3, <3>4
    <2> QED BY <1>1, <1>3, <1>5, <1>6, <2>1, SettledUnlessHeld, LetsGo DEF OnceInv
  <1>10. ASSUME NEW t \in Ticket, DRead(t) PROVE OnceInv'
    <2>1. /\ store' = store /\ pushes' = pushes /\ Settled /\ Settled' /\ Exists(t, disp.src)
          /\ disp.pc = "read"
      BY <1>1, <1>6, <1>10, SettledUnlessHeld DEF DRead, Readable, Exists
    <2>2. CASE disp.src \in {"armed", "blocked"}
      <3>1. /\ disp'.pc = "check" /\ disp'.tk = t /\ disp'.src = disp.src
        BY <1>1, <1>10, <2>2 DEF DRead, DispatcherState
      <3>2. ~ Started(t) /\ (disp.src = "armed" => ~ Exists(t, "blocked"))
        BY <2>1, <2>2 DEF Settled
      <3> QED BY <1>1, <1>3, <1>5, <2>1, <2>2, <3>1, <3>2, TakesUp DEF OnceInv
    <2>3. CASE disp.src \notin {"armed", "blocked"}
      <3>1. disp'.pc \in {"list", "gate", "read", "expire", "notify"}
        <4>1. \/ disp' = Continue(disp.todo \ {t})
              \/ \E pc \in {"expire", "notify"} : disp' = [disp EXCEPT !.pc = pc, !.tk = t]
          BY <1>1, <1>10, <2>3 DEF DRead
        <4>2. Continue(disp.todo \ {t}).pc \in {"list", "gate", "read"}
          BY <1>8, <2>1
        <4>3. \A pc \in {"expire", "notify"} : [disp EXCEPT !.pc = pc, !.tk = t].pc = pc
          BY <1>1 DEF DispatcherState
        <4> QED BY <4>1, <4>2, <4>3
      <3> QED BY <1>1, <1>3, <1>5, <2>1, <3>1, LetsGo DEF OnceInv
    <2> QED BY <2>2, <2>3
  <1>11. CASE DUnmet
    <2>1. /\ store' = store /\ pushes' = pushes /\ Settled /\ disp.tk \in Ticket
          /\ disp'.tk = disp.tk /\ disp'.src = "armed" /\ disp'.pc = "park"
      BY <1>1, <1>2, <1>11, SettledUnlessHeld DEF DUnmet, DispatcherState
    <2>2. Held(disp.tk) /\ ~ Moving(disp.tk) /\ ~ Handing(disp.tk) /\ disp.src = "armed"
      BY <1>11 DEF DUnmet, Held, Moving, Handing
    <2>3. ~ Started(disp.tk) /\ ~ Exists(disp.tk, "blocked")
      BY <1>1, <2>1, <2>2 DEF WaitsOnce
    <2> QED BY <1>1, <1>3, <1>5, <2>1, <2>3, TakesUp DEF OnceInv
  <1>12. ASSUME disp.pc \in {"check", "park"}, disp.src \in {"armed", "blocked"},
                NEW d \in {"armed", "blocked", "running"}, store' = Put(disp.tk, d, "torn"),
                disp' = [disp EXCEPT !.pc = "fill", !.w = d], pushes' = pushes,
                d = "running" => disp.src = "armed"
         PROVE  OnceInv'
    <2>1. disp.tk \in Ticket /\ Held(disp.tk)
      BY <1>2, <1>12 DEF Held
    <2>2. disp'.tk = disp.tk /\ disp'.src = disp.src /\ disp'.pc = "fill" /\ disp'.w = d
      BY <1>1, <1>12 DEF DispatcherState
    <2> QED BY <1>1, <1>3, <1>5, <1>12, <2>1, <2>2, Writes DEF OnceInv
  <1>13. CASE DPromote
    BY <1>12, <1>13 DEF DPromote, Truncate
  <1>14. CASE DPark
    BY <1>1, <1>12, <1>14 DEF DPark, Truncate, DispatcherInv
  <1>15. CASE DStart
    BY <1>12, <1>15 DEF DStart, Truncate
  <1>16. CASE DMark \/ DExpire
    <2>1. PICK d \in {"done", "failed"} :
            /\ store' = Put(disp.tk, d, "torn") /\ pushes' = pushes
            /\ disp' = [disp EXCEPT !.pc = "fill", !.w = d]
            /\ disp.pc \in {"notify", "expire"} /\ disp.src \notin {"armed", "blocked"}
            /\ Started(disp.tk) /\ disp.tk \in Ticket
      BY <1>1, <1>2, <1>7, <1>16 DEF DMark, DExpire, Truncate, DispatcherInv, Started
    <2>2. NothingNew /\ Settled
      BY <1>1, <1>7, <2>1, PutAdds, AddsNothingNew, SettledUnlessHeld
    <2>3. Settled'
      BY <2>2 DEF Settled, NothingNew
    <2>4. disp'.pc = "fill" /\ disp'.src = disp.src
      BY <1>1, <2>1 DEF DispatcherState
    <2> QED BY <1>1, <1>3, <1>5, <2>1, <2>3, <2>4, LetsGo DEF OnceInv
  <1>17. CASE DFill
    <2>1. \A u \in Ticket, e \in STATES : Exists(u, e)' <=> Exists(u, e)
      <3>1. /\ disp.w \in STATES \cap Content /\ disp.w # "none" /\ disp.tk \in Ticket
            /\ store' = Fill(disp.tk, disp.w, disp.w)
        BY <1>1, <1>2, <1>7, <1>17 DEF DFill, DispatcherInv, DispatcherState
      <3> QED BY <1>1, <3>1, FillAdds
    <2>2. \A u \in Ticket : Started(u)' <=> Started(u)
      BY <1>7, <2>1 DEF Started
    <2>3. pushes' = pushes
      BY <1>17 DEF DFill
    <2>4. CASE disp.src \in {"done", "failed"}
      <3>1. disp'.pc \in {"list", "gate", "read"}
        BY <1>1, <1>8, <1>17, <2>4 DEF DFill
      <3>2. Settled'
        <4>1. Settled
          BY <1>1, <2>4, SettledUnlessHeld
        <4> QED BY <1>7, <2>1, <2>2, <4>1 DEF Settled
      <3> QED BY <1>1, <1>3, <1>5, <2>3, <3>1, <3>2, LetsGo DEF OnceInv
    <2>5. CASE disp.src \notin {"done", "failed"}
      <3>1. /\ disp'.pc = "unlink" /\ disp.pc = "fill" /\ disp'.tk = disp.tk
            /\ disp'.src = disp.src /\ disp'.w = disp.w
        BY <1>1, <1>17, <2>5 DEF DFill, DispatcherState
      <3>2. \A t \in Ticket : /\ Held(t)' <=> Held(t)
                              /\ Handing(t)' <=> Handing(t)
                              /\ Moving(t)' <=> Moving(t)
                              /\ ~ Typing(t)'
        BY <3>1 DEF Held, Handing, Moving, Typing
      <3>3. WaitsOnce'
        BY <1>1, <1>7, <2>1, <2>2, <3>1, <3>2 DEF WaitsOnce
      <3>4. TypedOnce'
        BY <1>1, <2>2, <2>3, <3>2 DEF TypedOnce
      <3> QED BY <1>5, <3>3, <3>4 DEF OnceInv
    <2> QED BY <2>4, <2>5
  <1>18. CASE DUnlink
    <2>1. /\ disp.tk \in Ticket /\ disp.pc = "unlink" /\ pushes' = pushes
          /\ disp.src \in {"blocked", "armed", "running"}
          /\ store' = Put(disp.tk, disp.src, "none")
      BY <1>1, <1>2, <1>18 DEF DUnlink, DispatcherInv
    <2>2. \A u \in Ticket, e \in STATES :
            Exists(u, e)' <=> Exists(u, e) /\ ~ (u = disp.tk /\ e = disp.src)
      <3>1. disp.src \in STATES
        BY <1>7, <2>1
      <3> QED BY <1>1, <1>7, <2>1, <3>1, PutExists
    <2>3. \A u \in Ticket : Started(u)' => Started(u)
      BY <1>7, <2>2 DEF Started
    <2>4. disp.w = "running" => disp.src = "armed"
      BY <2>1 DEF OneInv, StartsFromArmed
    <2>5. /\ \A u \in Ticket : Held(u) <=> u = disp.tk /\ disp.src \in {"armed", "blocked"}
          /\ \A u \in Ticket : Handing(u) <=> u = disp.tk /\ disp.w = "running"
          /\ \A u \in Ticket : Moving(u) => u = disp.tk /\ disp.src \in {"armed", "blocked"}
      BY <2>1, <2>4 DEF Held, Handing, Moving
    <2>6. Settled'
      <3> SUFFICES ASSUME NEW t \in Ticket
                   PROVE  /\ ~ (Exists(t, "armed")' /\ Exists(t, "blocked")')
                          /\ Started(t)' => ~ Exists(t, "blocked")' /\ ~ Exists(t, "armed")'
        BY DEF Settled
      <3>1. CASE t # disp.tk
        BY <1>1, <1>7, <2>2, <2>3, <2>5, <3>1 DEF WaitsOnce
      <3>2. CASE t = disp.tk
        BY <1>1, <1>7, <2>1, <2>2, <2>3, <2>4, <2>5, <3>2 DEF WaitsOnce
      <3> QED BY <3>1, <3>2
    <2>7. CASE disp.w = "running"
      <3>1. /\ disp'.pc = "push" /\ disp'.tk = disp.tk
        BY <1>1, <1>18, <2>7 DEF DUnlink, DispatcherState
      <3>2. \A t \in Ticket : /\ ~ Held(t)' /\ ~ Handing(t)'
                              /\ Typing(t)' <=> t = disp.tk
        BY <3>1 DEF Held, Handing, Typing
      <3>3. WaitsOnce'
        BY <2>6, <3>2 DEF Settled, WaitsOnce
      <3>4. TypedOnce'
        BY <1>1, <1>3, <2>1, <2>5, <2>7, <3>2, StartsStand DEF TypedOnce
      <3> QED BY <1>5, <3>3, <3>4 DEF OnceInv
    <2>8. CASE disp.w # "running"
      <3>1. disp'.pc \in {"list", "gate", "read"}
        BY <1>1, <1>8, <1>18, <2>8 DEF DUnlink
      <3> QED BY <1>1, <1>3, <1>5, <2>1, <2>6, <3>1, LetsGo DEF OnceInv
    <2> QED BY <2>7, <2>8
  <1>19. CASE DPush
    <2>1. /\ store' = store /\ disp.pc = "push" /\ disp.tk \in Ticket
          /\ disp'.pc \in {"list", "gate", "read"}
          /\ pushes' \in {pushes, [pushes EXCEPT ![disp.tk] = @ + 1]}
      BY <1>1, <1>2, <1>8, <1>19 DEF DPush
    <2>2. \A t \in Ticket : ~ Held(t)' /\ ~ Handing(t)' /\ ~ Typing(t)'
      BY <2>1 DEF Held, Handing, Typing
    <2>3. WaitsOnce'
      BY <1>1, <1>6, <2>1, <2>2, SettledUnlessHeld DEF Settled, WaitsOnce
    <2>4. Typing(disp.tk) /\ Started(disp.tk) /\ pushes[disp.tk] = 0
      BY <1>1, <2>1 DEF TypedOnce, Typing
    <2>5. \A t \in Ticket : pushes'[t] = pushes[t] \/ (t = disp.tk /\ pushes'[t] = 1)
      BY <1>1, <2>1, <2>4 DEF TypeOK
    <2>6. TypedOnce'
      BY <1>1, <1>3, <2>2, <2>4, <2>5, StartsStand DEF TypedOnce
    <2> QED BY <1>5, <2>3, <2>6 DEF OnceInv
  <1> QED BY <1>9, <1>10, <1>11, <1>13, <1>14, <1>15, <1>16, <1>17, <1>18, <1>19 DEF Dispatcher

LEMMA InitOnceInv == Init => OnceInv
  <1> SUFFICES ASSUME Init PROVE OnceInv
    OBVIOUS
  <1>1. \A t \in Ticket : ~ Exists(t, "armed") /\ ~ Exists(t, "blocked")
    BY DEF Init, Exists, STATES
  <1> QED BY <1>1 DEF Init, Phase, ApiIdle, OnceInv, WaitsOnce, TypedOnce, OnlyCreates, Held, Handing,
                      Moving, Typing

LEMMA OnceInvHolds ==
  ASSUME Ops \subseteq {"create", "draft", "delete"}, MaxCrashes = 0
  PROVE  Spec => [](IInv /\ OneInv /\ OnceInv)
  <1>1. IInv /\ OneInv /\ OnceInv /\ [Next]_vars => OnceInv'
    <2> SUFFICES ASSUME IInv, OneInv, OnceInv, [Next]_vars PROVE OnceInv'
      OBVIOUS
    <2>1. CASE UNCHANGED vars \/ \E t \in Ticket : GrowOld(t)
      <3>1. UNCHANGED <<store, disp, api, known, pushes>>
        BY <2>1 DEF vars, history, GrowOld
      <3> QED BY <3>1 DEF OnceInv, WaitsOnce, TypedOnce, OnlyCreates, Held, Handing, Moving, Typing,
                          Started, Exists
    <2>2. ~ Crash
      BY DEF Crash, IInv, TypeOK
    <2>3. CASE Dispatcher
      BY <2>3, DispatcherKeepsOnce
    <2>4. CASE Api \/ Request
      BY <2>4, ApiKeepsOnce
    <2>5. CASE \E a \in Agent : Completer(a) \/ Complete(a)
      BY <2>5, CompleterKeepsOnce
    <2> QED BY <2>1, <2>2, <2>3, <2>4, <2>5 DEF Next
  <1> QED BY OneInvHolds, InitOnceInv, <1>1, PTL DEF Spec

\* A ticket is typed into its agent's pane once, however it is parked, promoted,
\* drafted, deleted or timed out meanwhile (ticket_dispatcher.py, dispatch_ticket).
THEOREM OnceEach ==
  ASSUME Ops \subseteq {"create", "draft", "delete"}, MaxCrashes = 0
  PROVE  Spec => []DispatchedOnce
  <1>1. OnceInv => DispatchedOnce
    BY DEF OnceInv, TypedOnce, DispatchedOnce
  <1> QED BY <1>1, OnceInvHolds, PTL

-----------------------------------------------------------------------------
(* What is over is not started again, if DELETE is left out too: it writes the *)
(* running file it found, which ticket-complete.py may have removed meanwhile. *)

NothingRuns == \A t \in Ticket : Exists(t, "running")' => Exists(t, "running")

LEMMA AddsRunsNothing ==
  ASSUME NEW t \in Ticket, NEW d \in STATES, AddsAtMost(t, d), d # "running"
  PROVE  NothingRuns
  <1>1. "running" \in STATES
    BY DEF STATES
  <1> QED BY <1>1 DEF NothingRuns, AddsAtMost

LEMMA SameStoreRunsNothing == ASSUME store' = store PROVE NothingRuns
  BY DEF NothingRuns, Exists

LEMMA ApiRunsNothing ==
  ASSUME Ops \subseteq {"create", "draft"}, IInv, api.op # "delete", Api \/ Request
  PROVE  NothingRuns /\ api'.op # "delete"
  <1>1. /\ TypeOK /\ ApiInv /\ api \in ApiState
        /\ api.pc \notin {"idle", "create"} => api.tk \in Ticket
    BY DEF IInv, TypeOK, ApiInv
  <1>2. /\ "none" \in Content /\ "torn" \in Content /\ Waiting \subseteq Content \ {"none"}
        /\ Waiting \subseteq STATES /\ "running" \notin Waiting /\ "running" \in STATES
    BY DEF Content, STATES, Waiting, Begun
  <1>3. CASE \/ Request \/ AScaffold \/ AFindMisses \/ AFinds \/ ADecide \/ ARenameFails
             \/ ARmtree \/ AArchive
    <2>1. NothingRuns
      <3>1. store' = store
        BY <1>3 DEF Request, ACreate, ARequest, AScaffold, AFindMisses, AFinds, ADecide,
                    ARenameFails, ARmtree, AArchive
      <3> QED BY <3>1, SameStoreRunsNothing
    <2>2. CASE Request
      <3>1. ASSUME NEW t \in Ticket, NEW D \in SUBSET known, NEW mode \in {"draft", "armed"},
                   ACreate(t, D, mode)
            PROVE  api'.op # "delete"
        BY <3>1 DEF ACreate, ApiIdle
      <3>2. ASSUME NEW op \in Ops, NEW t \in Ticket, ARequest(op, t) PROVE api'.op # "delete"
        <4>1. op # "delete"
          OBVIOUS
        <4>2. api'.op = op
          BY <3>2 DEF ARequest, ApiIdle
        <4> QED BY <4>1, <4>2
      <3> QED BY <2>1, <2>2, <3>1, <3>2 DEF Request
    <2>3. CASE AScaffold \/ AFindMisses \/ ARenameFails \/ ARmtree \/ AArchive \/ ADecide
      <3>1. api'.op \in {"none", api.op}
        <4>1. CASE AScaffold \/ ARenameFails \/ ARmtree \/ AArchive
          BY <4>1 DEF AScaffold, ARenameFails, ARmtree, AArchive, Done4xx, ApiIdle
        <4>2. CASE AFindMisses
          BY <1>1, <4>2 DEF AFindMisses, Done4xx, ApiIdle, ApiState
        <4>3. CASE ADecide
          BY <1>1, <4>3 DEF ADecide, ApiState
        <4> QED BY <2>3, <4>1, <4>2, <4>3
      <3> QED BY <2>1, <3>1
    <2>4. CASE AFinds
      <3>1. \/ api' = ApiIdle \/ api' = [api EXCEPT !.pc = "write", !.new = "cancelled"]
            \/ api' = [api EXCEPT !.pc = "unlink"] \/ api' = [api EXCEPT !.pc = "decide"]
            \/ api' = [api EXCEPT !.pc = "write", !.new = store[api.tk][api.dir]]
        BY <2>4 DEF AFinds, Done4xx
      <3>2. CASE api' = ApiIdle
        BY <2>1, <3>2 DEF ApiIdle
      <3>3. CASE api' # ApiIdle
        <4>1. api'.op = api.op
          BY <1>1, <3>1, <3>3 DEF ApiState
        <4> QED BY <2>1, <4>1
      <3> QED BY <3>2, <3>3
    <2> QED BY <1>3, <2>2, <2>3, <2>4
  <1>4. CASE ACreateWrite
    <2>1. /\ api.tk \in Ticket /\ api.new \in STATES /\ api.new # "running"
          /\ store' = Put(api.tk, api.new, "torn")
      BY <1>1, <1>2, <1>4 DEF ACreateWrite, ApiInv, Truncate
    <2>2. AddsAtMost(api.tk, api.new)
      BY <1>1, <1>2, <2>1, PutAdds
    <2> QED BY <1>1, <1>4, <2>1, <2>2, AddsRunsNothing DEF ACreateWrite, ApiState
  <1>5. CASE ARename
    <2>1. api.tk \in Ticket /\ api.dir \in STATES /\ api.new \in STATES /\ api.new # "running"
      BY <1>1, <1>2, <1>5 DEF ARename, ApiInv
    <2>2. AddsAtMost(api.tk, api.new)
      BY <1>1, <1>5, <2>1, RenameAdds DEF ARename
    <2> QED BY <1>1, <1>5, <2>1, <2>2, AddsRunsNothing DEF ARename, ApiState
  <1>6. CASE AWrite
    <2>1. /\ api.tk \in Ticket /\ api.dir \in STATES /\ api.dir # "running"
          /\ store' = Put(api.tk, api.dir, "torn")
      BY <1>1, <1>2, <1>6 DEF AWrite, ApiInv, Truncate
    <2>2. AddsAtMost(api.tk, api.dir)
      BY <1>1, <1>2, <2>1, PutAdds
    <2> QED BY <1>1, <1>6, <2>1, <2>2, AddsRunsNothing DEF AWrite, ApiState
  <1>7. CASE AFill
    <2>1. /\ api.dir \in STATES /\ api.new \in Content /\ api.new # "none" /\ api.tk \in Ticket
          /\ store' = Fill(api.tk, api.dir, api.new)
      BY <1>1, <1>2, <1>7 DEF AFill, ApiInv
    <2>2. NothingRuns
      BY <1>1, <1>2, <2>1, FillAdds DEF NothingRuns
    <2> QED BY <1>1, <1>7, <2>2 DEF AFill, ApiState, ApiIdle
  <1>8. CASE AUnlink
    <2>1. /\ api.dir \in STATES /\ api.dir # "running" /\ api.tk \in Ticket
          /\ store' = Put(api.tk, api.dir, "none")
      BY <1>1, <1>2, <1>8 DEF AUnlink, ApiInv
    <2>2. AddsAtMost(api.tk, api.dir)
      BY <1>1, <1>2, <2>1, PutAdds
    <2> QED BY <1>1, <1>8, <2>1, <2>2, AddsRunsNothing DEF AUnlink, ApiState
  <1> QED BY <1>3, <1>4, <1>5, <1>6, <1>7, <1>8 DEF Api

LEMMA CompleterRunsNothing ==
  ASSUME IInv, NEW a \in Agent, Completer(a) \/ Complete(a)
  PROVE  NothingRuns
  <1>1. /\ TypeOK /\ comp[a] \in CompleterState
        /\ comp[a].pc # "idle" => comp[a].tk \in Ticket
    BY DEF IInv, TypeOK, CompleterInv
  <1>2. /\ comp[a].fin \in STATES /\ comp[a].fin \in Content /\ comp[a].fin \notin {"running", "none"}
        /\ "running" \in STATES /\ "torn" \in Content /\ "none" \in Content
    BY <1>1 DEF CompleterState, STATES, Content
  <1>3. CASE Complete(a) \/ CArchive(a)
    BY <1>3, SameStoreRunsNothing DEF Complete, CFind, CArchive
  <1>4. CASE CWrite(a)
    BY <1>1, <1>2, <1>4, PutAdds, AddsRunsNothing DEF CWrite, Truncate
  <1>5. CASE CFill(a)
    BY <1>1, <1>2, <1>5, FillAdds DEF CFill, NothingRuns
  <1>6. CASE CUnlink(a)
    BY <1>1, <1>2, <1>6, PutExists DEF CUnlink, NothingRuns
  <1> QED BY <1>3, <1>4, <1>5, <1>6 DEF Completer

\* Only a ticket that has not started is started by the dispatcher.
LEMMA DispatcherRunsOnce ==
  ASSUME IInv, OnceInv, Dispatcher
  PROVE  \A t \in Ticket : Started(t) /\ Exists(t, "running")' => Exists(t, "running")
  <1>1. /\ TypeOK /\ DispatcherInv /\ disp \in DispatcherState /\ known \subseteq Ticket
        /\ disp.src \in {"blocked", "armed", "running", "done", "failed"}
        /\ disp.pc \notin {"list", "gate", "read"} => disp.tk \in Ticket
    BY DEF IInv, TypeOK, DispatcherInv, DispatcherState
  <1>2. /\ {"armed", "blocked", "running", "done", "failed"} \subseteq STATES \cap Content
        /\ "none" \in Content /\ "torn" \in Content /\ "torn" # "none"
    BY DEF STATES, Content
  <1>3. NothingRuns => \A t \in Ticket : Started(t) /\ Exists(t, "running")' => Exists(t, "running")
    BY DEF NothingRuns
  <1>4. CASE \/ DList \/ DGateClosed \/ DGateOpen \/ DStayBlocked \/ DUnmet \/ DPush
             \/ \E t \in Ticket : DRead(t) \/ DReadFails(t)
    BY <1>3, <1>4, SameStoreRunsNothing
       DEF DList, DGateClosed, DGateOpen, DStayBlocked, DUnmet, DPush, DRead, DReadFails
  <1>5. CASE DPromote \/ DPark \/ DMark \/ DExpire
    <2>1. PICK d \in {"armed", "blocked", "done", "failed"} :
            store' = Put(disp.tk, d, "torn") /\ disp.tk \in Ticket
      BY <1>1, <1>5 DEF DPromote, DPark, DMark, DExpire, Truncate, DispatcherInv
    <2>2. AddsAtMost(disp.tk, d)
      BY <1>1, <1>2, <2>1, PutAdds
    <2> QED BY <1>2, <1>3, <2>1, <2>2, AddsRunsNothing
  <1>6. CASE DFill
    <2>1. /\ disp.w \in STATES \cap Content /\ disp.w # "none" /\ disp.tk \in Ticket
          /\ store' = Fill(disp.tk, disp.w, disp.w)
      BY <1>1, <1>2, <1>6 DEF DFill, DispatcherInv, DispatcherState
    <2>2. \A u \in Ticket, e \in STATES : Exists(u, e)' <=> Exists(u, e)
      BY <1>1, <2>1, FillAdds
    <2> QED BY <1>2, <2>2
  <1>7. CASE DUnlink
    <2>1. /\ disp.src \in STATES /\ disp.tk \in Ticket
          /\ store' = Put(disp.tk, disp.src, "none")
      BY <1>1, <1>2, <1>7 DEF DUnlink
    <2>2. \A u \in Ticket, e \in STATES : Exists(u, e)' => Exists(u, e)
      BY <1>1, <1>2, <2>1, PutExists
    <2> QED BY <1>2, <2>2
  <1>8. CASE DStart
    <2>1. /\ disp.tk \in Ticket /\ store' = Put(disp.tk, "running", "torn")
          /\ Held(disp.tk) /\ ~ Handing(disp.tk)
      BY <1>1, <1>8 DEF DStart, Truncate, Held, Handing
    <2>2. ~ Started(disp.tk)
      BY <2>1 DEF OnceInv, WaitsOnce
    <2>3. AddsAtMost(disp.tk, "running")
      BY <1>1, <1>2, <2>1, PutAdds
    <2> QED BY <1>2, <2>2, <2>3 DEF AddsAtMost
  <1> QED BY <1>4, <1>5, <1>6, <1>7, <1>8 DEF Dispatcher

\* A run that is over stays so: no write into running/ follows an outcome,
\* although nobody looks for one (ticket_dispatcher.py, dispatch_ticket).
THEOREM NeverAgain ==
  ASSUME Ops \subseteq {"create", "draft"}, MaxCrashes = 0
  PROVE  Spec => OverIsOver
  <1>1. Init => api.op # "delete"
    BY DEF Init, ApiIdle
  <1>2. IInv /\ api.op # "delete" /\ [Next]_vars => (api.op # "delete")'
    <2> SUFFICES ASSUME IInv, api.op # "delete", [Next]_vars PROVE (api.op # "delete")'
      OBVIOUS
    <2>1. CASE Api \/ Request
      BY <2>1, ApiRunsNothing
    <2>2. CASE Crash
      BY <2>2 DEF Crash, IInv, TypeOK
    <2>3. CASE ~ (Api \/ Request \/ Crash)
      <3>1. api' = api
        BY <2>3 DEF Next, vars, Dispatcher, DList, DGateClosed, DGateOpen, DRead, DReadFails,
                    DPromote, DStayBlocked, DUnmet, DPark, DStart, DFill, DUnlink, DPush, DMark,
                    DExpire, Completer, Complete, CFind, CWrite, CFill, CUnlink, CArchive, GrowOld
      <3> QED BY <3>1
    <2> QED BY <2>1, <2>2, <2>3
  <1>3. IInv /\ OnceInv /\ api.op # "delete" /\ [Next]_vars =>
          [\A t \in Ticket :
             Exists(t, "done") \/ Exists(t, "failed") \/ Exists(t, "cancelled")
             => (Exists(t, "running") \/ ~ Exists(t, "running")')]_vars
    <2> SUFFICES ASSUME IInv, OnceInv, api.op # "delete", Next
                 PROVE  \A t \in Ticket : Started(t) /\ Exists(t, "running")' => Exists(t, "running")
      BY DEF Started, Begun
    <2>1. CASE Dispatcher
      BY <2>1, DispatcherRunsOnce
    <2>2. CASE Api \/ Request
      BY <2>2, ApiRunsNothing DEF NothingRuns
    <2>3. CASE \E a \in Agent : Completer(a) \/ Complete(a)
      BY <2>3, CompleterRunsNothing DEF NothingRuns
    <2>4. CASE Crash \/ \E t \in Ticket : GrowOld(t)
      BY <2>4, SameStoreRunsNothing DEF Crash, GrowOld, NothingRuns
    <2> QED BY <2>1, <2>2, <2>3, <2>4 DEF Next
  <1>4. Ops \subseteq {"create", "draft", "delete"}
    OBVIOUS
  <1> QED BY <1>1, <1>2, <1>3, <1>4, OnceInvHolds, PTL DEF Spec, OverIsOver
=============================================================================
