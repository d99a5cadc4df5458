---------------------------- MODULE TicketsProofs ----------------------------
(* The invariant of the ticket store, and that the store implements TicketContract: *)
(* see Tickets and TicketContract.                                                  *)
EXTENDS Tickets, TLAPS

-----------------------------------------------------------------------------
(* The store and the dispatcher's bookkeeping. *)

\* Put changes one path and keeps the store a store.
LEMMA PutIsAStore ==
  ASSUME TypeOK, NEW t \in Ticket, NEW d \in STATES, NEW c \in Content
  PROVE  /\ Put(t, d, c) \in [Ticket -> [STATES -> Content]]
         /\ \A u \in Ticket, e \in STATES :
              Put(t, d, c)[u][e] = IF u = t /\ e = d THEN c ELSE store[u][e]
  BY DEF TypeOK, Put

\* A write that is finished changes at most the path it was begun at, and only
\* when a file is there.
LEMMA FillIsAStore ==
  ASSUME TypeOK, NEW t \in Ticket, NEW d \in STATES, NEW c \in Content
  PROVE  /\ Fill(t, d, c) \in [Ticket -> [STATES -> Content]]
         /\ \A u \in Ticket, e \in STATES :
              Fill(t, d, c)[u][e] = IF u = t /\ e = d /\ store[t][d] # "none"
                                    THEN c ELSE store[u][e]
  <1>1. CASE Exists(t, d)
    BY <1>1, PutIsAStore DEF Fill, Exists
  <1>2. CASE ~ Exists(t, d)
    BY <1>2 DEF TypeOK, Fill, Exists
  <1> QED BY <1>1, <1>2

\* Wherever the dispatcher goes on to, it holds no ticket.
LEMMA NextPhaseType ==
  ASSUME NEW i \in 1 .. Len(Config),
         NEW src \in {"blocked", "armed", "running", "done", "failed"}
  PROVE  /\ NextPhase(i, src) \in DispatcherState
         /\ NextPhase(i, src).pc \in {"list", "gate"}
  <1>1. Len(Config) \in Nat /\ 1 \in 1 .. Len(Config)
    BY ConfigAssumption
  <1>2. i < Len(Config) => i + 1 \in 1 .. Len(Config)
    BY <1>1
  <1> QED BY <1>1, <1>2 DEF NextPhase, Phase, DispatcherState

LEMMA FlagType ==
  ASSUME TypeOK, NEW t \in Ticket, NEW d, NEW said
  PROVE  Flag(t, d, said) \subseteq Ticket \X {"done", "failed"}
  BY DEF TypeOK, Flag

LEMMA ContinueType ==
  ASSUME TypeOK, NEW S \in SUBSET Ticket
  PROVE  /\ Continue(S) \in DispatcherState
         /\ Continue(S).pc \in {"list", "gate", "read"}
  <1>1. disp \in DispatcherState
    BY DEF TypeOK
  <1>2. CASE S = {}
    BY <1>1, <1>2, NextPhaseType DEF Continue, DispatcherState
  <1>3. CASE S # {}
    BY <1>1, <1>3 DEF Continue, DispatcherState
  <1> QED BY <1>2, <1>3

-----------------------------------------------------------------------------
(* What a step may do to the files. *)

\* Every step keeps the shape of the store, leaves outcomes and starts standing,
\* and starts a ticket only when its dependencies are done.
Safe ==
  /\ store' \in [Ticket -> [STATES -> Content]]
  /\ StatusFits' /\ FilesAreKnown'
  /\ \A t \in Ticket : Exists(t, "done") => Exists(t, "done")'
  /\ \A t \in Ticket : Exists(t, "failed") => Exists(t, "failed")'
  /\ \A t \in Ticket : Started(t) => Started(t)'
  /\ \A t \in Ticket : Started(t)' => Started(t) \/ AllDepsDone(t)

LEMMA SameStoreIsSafe ==
  ASSUME TypeOK, StatusFits, FilesAreKnown, store' = store, known \subseteq known'
  PROVE  Safe
  BY DEF Safe, TypeOK, StatusFits, FilesAreKnown, Exists, Started

\* Writing a path is safe when what is written fits there and, in the
\* directories of started tickets, the ticket has started or may; removing a
\* path is safe in a waiting directory, and in running/ once there is an outcome.
LEMMA PutIsSafe ==
  ASSUME TypeOK, StatusFits, FilesAreKnown,
         NEW t \in Ticket, t \in known', known \subseteq known',
         NEW d \in STATES, NEW c \in Content,
         store' = Put(t, d, c),
         c \in Fits(d) \cup {"none", "torn"},
         c = "none" => \/ d \in Waiting
                       \/ d = "running" /\ (Exists(t, "done") \/ Exists(t, "failed")),
         d \in Begun /\ c # "none" => Started(t) \/ AllDepsDone(t)
  PROVE  Safe
  <1>1. /\ store' \in [Ticket -> [STATES -> Content]]
        /\ \A u \in Ticket, e \in STATES :
              store'[u][e] = IF u = t /\ e = d THEN c ELSE store[u][e]
    BY PutIsAStore
  <1>2. StatusFits'
    BY <1>1 DEF StatusFits
  <1>3. FilesAreKnown'
    BY <1>1 DEF FilesAreKnown, Exists
  <1>4. "done" \in STATES /\ "failed" \in STATES /\ Begun \subseteq STATES
        /\ "done" \in Begun /\ "failed" \in Begun /\ d \notin Waiting \cap Begun
        /\ "running" \notin {"done", "failed"}
    BY DEF STATES, Begun, Waiting
  <1>5. \A u \in Ticket : /\ Exists(u, "done") => Exists(u, "done")'
                          /\ Exists(u, "failed") => Exists(u, "failed")'
    BY <1>1, <1>4 DEF Exists
  <1>6. \A u \in Ticket : Started(u) => Started(u)'
    <2> SUFFICES ASSUME NEW u \in Ticket, Started(u) PROVE Started(u)'
      OBVIOUS
    <2>1. CASE Exists(u, "done") \/ Exists(u, "failed")
      BY <1>4, <1>5, <2>1 DEF Started
    <2>2. CASE ~ (Exists(u, "done") \/ Exists(u, "failed"))
      <3>1. PICK e \in Begun : Exists(u, e)
        BY DEF Started
      <3>2. Exists(u, e)'
        BY <1>1, <1>4, <2>2, <3>1 DEF Exists
      <3> QED BY <3>2 DEF Started
    <2> QED BY <2>1, <2>2
  <1>7. \A u \in Ticket : Started(u)' => Started(u) \/ AllDepsDone(u)
    <2> SUFFICES ASSUME NEW u \in Ticket, Started(u)', ~ Started(u)
                 PROVE  AllDepsDone(u)
      OBVIOUS
    <2>1. PICK e \in Begun : Exists(u, e)'
      BY DEF Started
    <2>2. ~ Exists(u, e)
      BY DEF Started
    <2>3. u = t /\ e = d /\ c # "none"
      BY <1>1, <1>4, <2>1, <2>2 DEF Exists
    <2> QED BY <2>1, <2>3
  <1> QED BY <1>1, <1>2, <1>3, <1>5, <1>6, <1>7 DEF Safe

\* The second half of a write creates nothing.
LEMMA FillIsSafe ==
  ASSUME TypeOK, StatusFits, FilesAreKnown, known \subseteq known',
         NEW t \in Ticket, NEW d \in STATES, NEW c \in Fits(d),
         store' = Fill(t, d, c)
  PROVE  Safe
  <1>1. CASE ~ Exists(t, d)
    BY <1>1, SameStoreIsSafe DEF Fill
  <1>2. CASE Exists(t, d)
    <2>1. c \in Content /\ c \notin {"none", "torn"}
      BY DEF Fits, Content, STATES, Waiting, Begun
    <2>2. store' = Put(t, d, c) /\ t \in known'
      BY <1>2 DEF Fill, FilesAreKnown
    <2>3. d \in Begun => Started(t)
      BY <1>2 DEF Started
    <2> QED BY <2>1, <2>2, <2>3, PutIsSafe
  <1> QED BY <1>1, <1>2

\* Renaming a file is safe among the waiting directories, and into cancelled/.
LEMMA RenameIsSafe ==
  ASSUME TypeOK, StatusFits, FilesAreKnown, known \subseteq known',
         NEW t \in Ticket, NEW d \in STATES, NEW e \in STATES, Exists(t, d),
         store' = [store EXCEPT ![t] =
                     [@ EXCEPT ![d] = "none", ![e] = store[t][d]]],
         \/ d \in Waiting /\ e \in Waiting
         \/ d \in {"running", "cancelled"} /\ e = "cancelled"
  PROVE  Safe
  <1>0. store \in [Ticket -> [STATES -> Content]]
    BY DEF TypeOK
  <1>1. /\ store' \in [Ticket -> [STATES -> Content]]
        /\ \A u \in Ticket, f \in STATES :
              store'[u][f] = IF u # t THEN store[u][f]
                             ELSE IF f = e THEN store[t][d]
                             ELSE IF f = d THEN "none" ELSE store[u][f]
    BY <1>0 DEF Content
  <1>2. Fits(e) = Fits(d)
    BY DEF Fits, Waiting, Begun, STATES
  <1>3. StatusFits'
    BY <1>1, <1>2 DEF StatusFits
  <1>4. FilesAreKnown'
    BY <1>1 DEF FilesAreKnown, Exists
  <1>5. "done" \in STATES /\ "failed" \in STATES /\ Begun \subseteq STATES
        /\ d \notin {"done", "failed"} /\ e \notin {"done", "failed"}
        /\ (d \in Begun <=> e \in Begun)
    BY DEF STATES, Begun, Waiting
  <1>6. \A u \in Ticket : /\ Exists(u, "done") => Exists(u, "done")'
                          /\ Exists(u, "failed") => Exists(u, "failed")'
    BY <1>1, <1>5 DEF Exists
  <1>7. Exists(t, e)'
    BY <1>1 DEF Exists
  <1>8. \A u \in Ticket : Started(u) <=> Started(u)'
    <2> SUFFICES ASSUME NEW u \in Ticket PROVE Started(u) <=> Started(u)'
      OBVIOUS
    <2>1. CASE u # t
      BY <1>1, <1>5, <2>1 DEF Started, Exists
    <2>2. CASE u = t /\ d \in Begun
      BY <1>5, <1>7, <2>2 DEF Started
    <2>3. CASE u = t /\ d \notin Begun
      BY <1>1, <1>5, <2>3 DEF Started, Exists
    <2> QED BY <2>1, <2>2, <2>3
  <1> QED BY <1>1, <1>3, <1>4, <1>6, <1>8 DEF Safe

-----------------------------------------------------------------------------
(* A safe step of one process leaves the invariants of the others standing. *)

LEMMA DispatcherKeeps ==
  ASSUME TypeOK, TypeOK', DispatcherInv, Safe, known \subseteq known', disp' = disp
  PROVE  DispatcherInv'
  BY DEF DispatcherInv, Safe, TypeOK, Exists, Started

LEMMA ApiKeeps ==
  ASSUME TypeOK, TypeOK', ApiInv, Safe, known \subseteq known', api' = api
  PROVE  ApiInv'
  BY DEF ApiInv, Safe, TypeOK

LEMMA CompleterKeeps ==
  ASSUME TypeOK, TypeOK', CompleterInv, Safe, known \subseteq known', comp' = comp
  PROVE  CompleterInv'
  <1> SUFFICES ASSUME NEW a \in Agent
               PROVE  /\ comp[a].pc # "idle" => comp[a].tk \in known'
                      /\ comp[a].pc \in {"write", "fill", "unlink"} => Started(comp[a].tk)'
                      /\ comp[a].pc \in {"fill", "unlink"} =>
                            Exists(comp[a].tk, comp[a].fin)'
    BY DEF CompleterInv, Exists, Started
  <1>1. comp[a].fin \in {"done", "failed"}
    BY DEF TypeOK, CompleterState
  <1>2. comp[a].pc # "idle" => comp[a].tk \in Ticket
    BY DEF TypeOK, CompleterInv
  <1> QED BY <1>1, <1>2 DEF CompleterInv, Safe

\* Dependencies that are done stay done, and are fixed once a ticket starts.
LEMMA DependenciesKeep ==
  ASSUME TypeOK, TypeOK', DependenciesFirst, Safe,
         \A t \in Ticket : deps'[t] = deps[t] \/ ~ Started(t)'
  PROVE  DependenciesFirst'
  <1> SUFFICES ASSUME NEW t \in Ticket, Started(t)', NEW d \in deps'[t]
               PROVE  Exists(d, "done")'
    BY DEF DependenciesFirst, AllDepsDone
  <1>1. deps'[t] = deps[t] /\ d \in Ticket
    BY DEF TypeOK
  <1>2. AllDepsDone(t)
    BY DEF Safe, DependenciesFirst
  <1> QED BY <1>1, <1>2 DEF AllDepsDone, Safe

-----------------------------------------------------------------------------
(* Each step of the dispatcher preserves the invariant. *)

LEMMA DispatcherFrame ==
  ASSUME IInv, Safe, disp' \in DispatcherState, DispatcherInv',
         UNCHANGED <<work, deps, known, api, comp, deleted, requests, crashes>>,
         notified' \subseteq Ticket \X {"done", "failed"}, overdue' \subseteq Ticket,
         pushes' \in [Ticket -> Nat]
  PROVE  IInv'
  <1>1. TypeOK'
    BY DEF IInv, TypeOK, Safe
  <1> QED BY <1>1, ApiKeeps, CompleterKeeps, DependenciesKeep DEF IInv, Safe

LEMMA DispatcherStep ==
  ASSUME IInv, Dispatcher
  PROVE  IInv'
  <1> USE DEF IInv, history
  <1>1. /\ disp \in DispatcherState
        /\ notified \subseteq Ticket \X {"done", "failed"}
        /\ overdue \subseteq Ticket /\ pushes \in [Ticket -> Nat]
        /\ known \subseteq Ticket
        /\ disp.i \in 1 .. Len(Config) /\ disp.todo \in SUBSET Ticket
        /\ disp.src \in {"blocked", "armed", "running", "done", "failed"}
    BY DEF TypeOK, DispatcherState
  \* Steps that only look, and go on.
  <1>2. ASSUME store' = store,
               UNCHANGED <<work, deps, known, notified, overdue, api, comp, history>>,
               disp' \in DispatcherState, DispatcherInv'
        PROVE  IInv'
    BY <1>1, <1>2, SameStoreIsSafe, DispatcherFrame
  <1>3. ASSUME NEW S \in SUBSET Ticket, disp' = Continue(S)
        PROVE  disp' \in DispatcherState /\ DispatcherInv'
    BY <1>3, ContinueType DEF DispatcherInv
  <1>4. ASSUME disp' = NextPhase(disp.i, disp.src)
        PROVE  disp' \in DispatcherState /\ DispatcherInv'
    BY <1>1, <1>4, NextPhaseType DEF DispatcherInv
  <1>5. CASE DList
    BY <1>2, <1>3, <1>5 DEF DList
  <1>6. CASE DGateClosed
    BY <1>2, <1>4, <1>6 DEF DGateClosed
  <1>7. CASE DGateOpen
    <2>1. disp' \in DispatcherState /\ DispatcherInv'
      BY <1>1, <1>7 DEF DGateOpen, DispatcherState, DispatcherInv
    <2> QED BY <1>2, <1>7, <2>1 DEF DGateOpen
  <1>8. CASE \E t \in Ticket : DReadFails(t)
    BY <1>1, <1>2, <1>3, <1>8 DEF DReadFails
  <1>9. ASSUME NEW t \in Ticket, DRead(t) PROVE IInv'
    <2>1. Exists(t, disp.src) /\ t \in known
      BY <1>1, <1>9 DEF DRead, Readable, Exists, FilesAreKnown, STATES
    <2>2. CASE disp' = Continue(disp.todo \ {t})
      BY <1>1, <1>2, <1>3, <1>9, <2>2 DEF DRead
    <2>3. CASE disp.src \in {"blocked", "armed"} /\ disp' = [disp EXCEPT !.pc = "check", !.tk = t]
      <3>1. disp' \in DispatcherState /\ DispatcherInv'
        BY <1>1, <1>9, <2>1, <2>3 DEF DRead, DispatcherState, DispatcherInv
      <3> QED BY <1>2, <1>9, <3>1 DEF DRead
    <2>4. CASE disp.src = "running" /\ disp' = [disp EXCEPT !.pc = "expire", !.tk = t]
      <3>1. Started(t)'
        BY <1>9, <2>1, <2>4 DEF DRead, Started, Begun, Exists
      <3>2. disp' \in DispatcherState /\ DispatcherInv'
        BY <1>1, <1>9, <2>1, <2>4, <3>1 DEF DRead, DispatcherState, DispatcherInv
      <3> QED BY <1>2, <1>9, <3>2 DEF DRead
    <2>5. CASE disp.src \in {"done", "failed"} /\ disp' = [disp EXCEPT !.pc = "notify", !.tk = t]
      <3>1. Exists(t, disp.src)'
        BY <1>9, <2>1, <2>5 DEF DRead, Exists, DispatcherState
      <3>2. disp' \in DispatcherState /\ DispatcherInv'
        BY <1>1, <1>9, <2>1, <2>5, <3>1 DEF DRead, DispatcherState, DispatcherInv, Exists
      <3> QED BY <1>2, <1>9, <3>2 DEF DRead
    <2> QED BY <1>1, <1>9, <2>2, <2>3, <2>4, <2>5 DEF DRead
  \* Steps that write: where the file goes, and what the dispatcher knows then.
  <1>10. ASSUME disp.pc \in {"check", "park", "expire", "notify", "unlink", "fill"}
         PROVE  disp.tk \in Ticket /\ disp.tk \in known
    BY <1>1, <1>10 DEF DispatcherInv
  <1>11. CASE DPromote
    <2>1. Safe
      BY <1>10, <1>11, PutIsSafe DEF DPromote, Truncate, STATES, Content, Begun, Waiting
    <2>2. disp' \in DispatcherState /\ DispatcherInv'
      BY <1>1, <1>10, <1>11 DEF DPromote, DispatcherState, DispatcherInv
    <2> QED BY <1>1, <1>11, <2>1, <2>2, DispatcherFrame DEF DPromote
  <1>12. CASE DStayBlocked
    BY <1>1, <1>2, <1>3, <1>12 DEF DStayBlocked
  <1>13. CASE DUnmet
    <2>1. disp' \in DispatcherState /\ DispatcherInv'
      BY <1>1, <1>10, <1>13 DEF DUnmet, DispatcherState, DispatcherInv
    <2> QED BY <1>2, <1>13, <2>1 DEF DUnmet
  <1>14. CASE DPark
    <2>1. Safe
      BY <1>10, <1>14, PutIsSafe DEF DPark, Truncate, STATES, Content, Begun, Waiting
    <2>2. disp.src = "armed"
      BY <1>14 DEF DPark, DispatcherInv
    <2>3. disp' \in DispatcherState /\ DispatcherInv'
      BY <1>1, <1>10, <1>14, <2>2 DEF DPark, DispatcherState, DispatcherInv
    <2> QED BY <1>1, <1>14, <2>1, <2>3, DispatcherFrame DEF DPark
  <1>15. CASE DStart
    <2>1. AllDepsDone(disp.tk)
      BY <1>15 DEF DStart, AllDepsDone, AllDepsDoneInConfig
    <2>2. Safe
      BY <1>10, <1>15, <2>1, PutIsSafe DEF DStart, Truncate, STATES, Content, Begun, Waiting
    <2>3. disp' \in DispatcherState /\ DispatcherInv'
      BY <1>1, <1>10, <1>15 DEF DStart, DispatcherState, DispatcherInv
    <2> QED BY <1>1, <1>15, <2>2, <2>3, DispatcherFrame DEF DStart
  <1>16. CASE DFill
    <2>1. disp.w \in STATES /\ disp.w \in Fits(disp.w)
      BY <1>1, <1>16 DEF DFill, DispatcherState, DispatcherInv, STATES, Fits, Waiting, Begun
    <2>2. Safe
      BY <1>10, <1>16, <2>1, FillIsSafe DEF DFill
    <2>3. notified' \subseteq Ticket \X {"done", "failed"}
      BY <1>10, <1>16, FlagType DEF DFill
    <2>4. CASE disp.src \in {"done", "failed"}
      BY <1>1, <1>3, <1>16, <2>2, <2>4, <2>3, DispatcherFrame DEF DFill
    <2>5. CASE disp.src \notin {"done", "failed"}
      <3>1. disp.src = "running" => Exists(disp.tk, "failed")'
        BY <1>10, <1>16, <2>2 DEF DFill, DispatcherInv, Safe
      <3>2. disp' = [disp EXCEPT !.pc = "unlink"]
        BY <1>16, <2>5 DEF DFill
      <3>3. disp' \in DispatcherState /\ DispatcherInv'
        BY <1>1, <1>10, <1>16, <2>5, <3>1, <3>2 DEF DFill, DispatcherState, DispatcherInv, Exists
      <3> QED BY <1>1, <1>16, <2>2, <2>3, <3>3, DispatcherFrame DEF DFill
    <2> QED BY <2>4, <2>5
  <1>17. CASE DUnlink
    <2>1. /\ disp.src \in STATES
          /\ \/ disp.src \in Waiting
             \/ disp.src = "running" /\ Exists(disp.tk, "failed")
      <3>1. disp.src \in {"blocked", "armed", "running"}
        BY <1>17 DEF DUnlink, DispatcherInv
      <3>2. disp.src = "running" => Exists(disp.tk, "failed")
        BY <1>17 DEF DUnlink, DispatcherInv
      <3>3. {"blocked", "armed"} \subseteq Waiting /\ {"blocked", "armed", "running"} \subseteq STATES
        BY DEF STATES, Waiting, Begun
      <3> HIDE DEF IInv
      <3> QED BY <3>1, <3>2, <3>3
    <2>2. Safe
      <3> HIDE DEF IInv
      <3>1. TypeOK /\ StatusFits /\ FilesAreKnown /\ known \subseteq known'
        BY <1>17 DEF IInv, DUnlink
      <3>2. disp.tk \in Ticket /\ disp.tk \in known' /\ store' = Put(disp.tk, disp.src, "none")
        BY <1>10, <1>17 DEF DUnlink
      <3> QED BY <2>1, <3>1, <3>2, PutIsSafe DEF Content
    <2>3. disp' \in DispatcherState /\ DispatcherInv'
      <3>1. CASE disp.w = "running"
        BY <1>1, <1>10, <1>17, <3>1 DEF DUnlink, DispatcherState, DispatcherInv
      <3>2. CASE disp.w # "running"
        BY <1>1, <1>3, <1>17, <3>2 DEF DUnlink
      <3> QED BY <3>1, <3>2
    <2> QED BY <1>1, <1>17, <2>2, <2>3, DispatcherFrame DEF DUnlink
  <1>18. CASE DPush
    <2>1. pushes' \in [Ticket -> Nat]
      BY <1>1, <1>18 DEF DPush
    <2>2. Safe
      BY <1>18, SameStoreIsSafe DEF DPush
    <2> QED BY <1>1, <1>4, <1>18, <2>1, <2>2, DispatcherFrame DEF DPush
  <1>19. CASE DMark
    <2>1. disp.src \in {"done", "failed"} /\ Exists(disp.tk, disp.src)
      BY <1>19 DEF DMark, DispatcherInv
    <2>2. Safe
      BY <1>10, <1>19, <2>1, PutIsSafe DEF DMark, Truncate, STATES, Content, Begun, Waiting, Started
    <2>3. disp' \in DispatcherState /\ DispatcherInv'
      BY <1>1, <1>10, <1>19, <2>1 DEF DMark, DispatcherState, DispatcherInv
    <2> QED BY <1>1, <1>19, <2>2, <2>3, DispatcherFrame DEF DMark
  <1>20. CASE DExpire
    <2>1. Started(disp.tk) /\ disp.src = "running"
      BY <1>20 DEF DExpire, DispatcherInv
    <2>2. Safe
      BY <1>10, <1>20, <2>1, PutIsSafe DEF DExpire, Truncate, STATES, Content, Begun, Waiting
    <2>3. Exists(disp.tk, "failed")'
      <3>1. store' = Put(disp.tk, "failed", "torn")
        BY <1>20 DEF DExpire, Truncate
      <3>2. store'[disp.tk]["failed"] = "torn"
        <4> HIDE DEF IInv
        <4>1. TypeOK /\ disp.tk \in Ticket
          BY <1>10, <1>20 DEF IInv, DExpire
        <4>2. "failed" \in STATES /\ "torn" \in Content
          BY DEF STATES, Content
        <4> QED BY <3>1, <4>1, <4>2, PutIsAStore
      <3>3. disp'.tk = disp.tk
        BY <1>1, <1>20 DEF DExpire, DispatcherState
      <3> QED BY <3>2, <3>3 DEF Exists
    <2>4. disp' \in DispatcherState /\ DispatcherInv'
      BY <1>1, <1>10, <1>20, <2>1, <2>3 DEF DExpire, DispatcherState, DispatcherInv, Exists
    <2> QED BY <1>1, <1>20, <2>2, <2>4, DispatcherFrame DEF DExpire
  <1> QED BY <1>5, <1>6, <1>7, <1>8, <1>9, <1>11, <1>12, <1>13, <1>14, <1>15, <1>16,
             <1>17, <1>18, <1>19, <1>20 DEF Dispatcher
-----------------------------------------------------------------------------
(* Each step of the API preserves the invariant. *)

LEMMA ApiFrame ==
  ASSUME IInv, Safe, api' \in ApiState, ApiInv',
         UNCHANGED <<notified, overdue, disp, comp, pushes, crashes>>,
         work' \in [Ticket -> {"none", "working", "done", "failed", "cancelled"}],
         deps' \in [Ticket -> SUBSET Ticket],
         \A t \in Ticket : deps'[t] = deps[t] \/ ~ Started(t)',
         known \subseteq known', known' \subseteq Ticket,
         deleted' \subseteq Ticket, requests' \in Nat
  PROVE  IInv'
  <1>1. TypeOK'
    BY DEF IInv, TypeOK, Safe
  <1> QED BY <1>1, DispatcherKeeps, CompleterKeeps, DependenciesKeep DEF IInv, Safe

LEMMA ApiStep ==
  ASSUME IInv, Api \/ Request
  PROVE  IInv'
  <1> USE DEF history
  <1>1. /\ TypeOK /\ StatusFits /\ FilesAreKnown /\ ApiInv
        /\ api \in ApiState
        /\ work \in [Ticket -> {"none", "working", "done", "failed", "cancelled"}]
        /\ deps \in [Ticket -> SUBSET Ticket]
        /\ known \subseteq Ticket /\ deleted \subseteq Ticket /\ requests \in Nat
    BY DEF IInv, TypeOK
  \* Steps that leave the store alone.
  <1>2. ASSUME UNCHANGED <<store, deps, known, notified, overdue, disp, comp,
                           pushes, deleted, crashes>>,
               work' \in [Ticket -> {"none", "working", "done", "failed", "cancelled"}],
               requests' \in Nat, api' \in ApiState, ApiInv'
        PROVE  IInv'
    <2>1. Safe
      BY <1>1, <1>2, SameStoreIsSafe
    <2> QED BY <1>1, <1>2, <2>1, ApiFrame
  <1>3. ApiIdle \in ApiState /\ (api' = ApiIdle => ApiInv')
    BY DEF ApiIdle, ApiState, ApiInv
  <1>4. api.pc \notin {"idle", "create"} => api.tk \in Ticket /\ api.tk \in known
    BY <1>1 DEF ApiInv
  \* Steps that write the store, and change nothing else but their own state.
  <1>5. ASSUME UNCHANGED <<work, deps, known, notified, overdue, disp, comp,
                           pushes, requests, crashes>>,
               deleted' \subseteq Ticket, Safe, api' \in ApiState, ApiInv'
        PROVE  IInv'
    BY <1>1, <1>5, ApiFrame
  <1>6. ASSUME NEW t \in Ticket, NEW D \in SUBSET known, NEW mode \in {"draft", "armed"},
               ACreate(t, D, mode)
        PROVE  IInv'
    <2>1. Safe
      BY <1>1, <1>6, SameStoreIsSafe DEF ACreate
    <2>2. api' \in ApiState /\ ApiInv'
      BY <1>6 DEF ACreate, ApiIdle, ApiState, ApiInv, STATES, Waiting, Begun, AllOps
    <2>3. \A u \in Ticket : deps'[u] = deps[u] \/ ~ Started(u)'
      BY <1>1, <1>6 DEF ACreate, FilesAreKnown, Started, Exists, Begun, STATES
    <2>4. deps' \in [Ticket -> SUBSET Ticket] /\ requests' \in Nat
      BY <1>1, <1>6 DEF ACreate
    <2> QED BY <1>1, <1>6, <2>1, <2>2, <2>3, <2>4, ApiFrame DEF ACreate
  <1>7. CASE ACreateWrite
    <2>1. api.tk \in Ticket /\ api.new \in Waiting /\ api.op = "create"
      BY <1>1, <1>7 DEF ACreateWrite, ApiInv
    <2>2. Safe
      <3>1. api.new \notin Begun /\ api.new \in STATES /\ "torn" \in Content /\ "torn" # "none"
        BY <2>1 DEF Waiting, Content
      <3> QED BY <1>1, <1>7, <2>1, <3>1, PutIsSafe DEF ACreateWrite, Truncate
    <2>3. api' \in ApiState /\ ApiInv'
      BY <1>1, <1>7, <2>1 DEF ACreateWrite, ApiState, ApiInv, STATES, Waiting
    <2> QED BY <1>1, <1>7, <2>1, <2>2, <2>3, ApiFrame DEF ACreateWrite
  <1>8. CASE AScaffold
    <2>1. work' \in [Ticket -> {"none", "working", "done", "failed", "cancelled"}]
      BY <1>1, <1>8 DEF AScaffold
    <2> QED BY <1>1, <1>2, <1>3, <1>8, <2>1 DEF AScaffold
  <1>9. ASSUME NEW op \in Ops, NEW t \in Ticket, ARequest(op, t) PROVE IInv'
    <2>1. op \in AllOps /\ op # "create" /\ t \in known' /\ requests' \in Nat
      BY <1>1, <1>9, OpsAssumption DEF ARequest
    <2>2. api' = [pc |-> "find", op |-> op, tk |-> t, dir |-> "draft", new |-> "none"]
      BY <1>9 DEF ARequest, ApiIdle
    <2>3. api' \in ApiState /\ ApiInv'
      BY <2>1, <2>2 DEF ApiState, ApiInv, STATES
    <2> QED BY <1>1, <1>2, <1>9, <2>1, <2>3 DEF ARequest
  <1>10. CASE AFindMisses
    <2>1. api.dir \in STATES /\ api.op # "create"
      BY <1>1, <1>10 DEF AFindMisses, ApiInv
    <2>2. Following[api.dir] \in STATES \cup {"none"}
      BY <2>1 DEF Following, STATES
    <2>3. api' \in ApiState /\ ApiInv'
      BY <1>1, <1>3, <1>4, <1>10, <2>1, <2>2 DEF AFindMisses, Done4xx, ApiState, ApiInv
    <2> QED BY <1>1, <1>2, <1>10, <2>3 DEF AFindMisses
  <1>11. CASE AFinds
    <2> DEFINE seen == store[api.tk][api.dir]
    <2>1. /\ api.dir \in STATES /\ api.op # "create" /\ api.tk \in Ticket
          /\ seen \notin {"none", "torn"} /\ Exists(api.tk, api.dir)
      BY <1>1, <1>4, <1>11 DEF AFinds, ApiInv, Readable, Exists
    <2>2. seen \in Fits(api.dir)
      BY <1>1, <2>1 DEF StatusFits
    <2>3. seen = "running" => api.dir \in {"running", "cancelled"} /\ Started(api.tk)
      BY <2>1, <2>2 DEF Fits, Waiting, STATES, Begun, Started
    <2>4. seen \notin Begun => api.dir \in Waiting /\ seen \in Waiting
      BY <2>1, <2>2 DEF Fits, Waiting, STATES, Begun
    <2>5. CASE api.op = "delete" /\ seen = "running"
      <3>1. api' = [api EXCEPT !.pc = "write", !.new = "cancelled"]
        BY <1>11, <2>5 DEF AFinds, Begun
      <3>2. Started(api.tk)'
        BY <1>1, <1>11, <2>3, <2>5, <3>1 DEF AFinds, Started, Exists, ApiState
      <3>3. api' \in ApiState /\ ApiInv'
        BY <1>1, <1>4, <1>11, <2>3, <2>5, <3>1, <3>2 DEF AFinds, ApiState, ApiInv, STATES
      <3> QED BY <1>1, <1>2, <1>11, <3>3 DEF AFinds
    <2>6. CASE api.op = "delete" /\ seen \notin Begun
      <3>1. api' = [api EXCEPT !.pc = "unlink"]
        BY <1>11, <2>6 DEF AFinds, Begun
      <3>2. api' \in ApiState /\ ApiInv'
        BY <1>1, <1>4, <1>11, <2>4, <2>6, <3>1 DEF AFinds, ApiState, ApiInv
      <3> QED BY <1>1, <1>2, <1>11, <3>2 DEF AFinds
    <2>7. CASE api.op = "edit" /\ seen \notin Begun
      <3>1. api' = [api EXCEPT !.pc = "write", !.new = seen]
        BY <1>11, <2>7 DEF AFinds
      <3>2. api' \in ApiState /\ ApiInv'
        BY <1>1, <1>4, <1>11, <2>4, <2>7, <3>1 DEF AFinds, ApiState, ApiInv, Waiting
      <3> QED BY <1>1, <1>2, <1>11, <3>2 DEF AFinds
    <2>8. CASE api.op \in {"draft", "armed"} /\ seen \notin Begun
      <3>1. api' = [api EXCEPT !.pc = "decide"]
        BY <1>11, <2>8 DEF AFinds
      <3>2. api' \in ApiState /\ ApiInv'
        BY <1>1, <1>4, <1>11, <2>4, <2>8, <3>1 DEF AFinds, ApiState, ApiInv
      <3> QED BY <1>1, <1>2, <1>11, <3>2 DEF AFinds
    <2>9. CASE api' = ApiIdle
      BY <1>1, <1>2, <1>3, <1>11, <2>9 DEF AFinds
    <2> QED BY <1>11, <2>5, <2>6, <2>7, <2>8, <2>9 DEF AFinds, Done4xx, Begun
  <1>12. CASE ADecide
    <2>1. api.dir \in Waiting /\ api.op \in {"draft", "armed"}
      BY <1>1, <1>12 DEF ADecide, ApiInv
    <2>2. api' \in ApiState /\ ApiInv'
      BY <1>1, <1>4, <1>12, <2>1 DEF ADecide, ApiState, ApiInv, Waiting, STATES, Begun
    <2> QED BY <1>1, <1>2, <1>12, <2>2 DEF ADecide
  <1>13. CASE ARename
    <2>1. IF api.op = "delete"
          THEN api.dir \in {"running", "cancelled"} /\ api.new = "cancelled"
          ELSE api.dir \in Waiting /\ api.new \in Waiting
      BY <1>1, <1>13 DEF ARename, ApiInv
    <2>2. api.dir \in STATES /\ api.new \in STATES
      BY <2>1 DEF STATES, Waiting
    <2>3. Safe
      BY <1>1, <1>4, <1>13, <2>1, <2>2, RenameIsSafe DEF ARename
    <2>4. api' \in ApiState /\ ApiInv'
      BY <1>1, <1>4, <1>13, <2>1 DEF ARename, ApiState, ApiInv
    <2> QED BY <1>1, <1>5, <1>13, <2>3, <2>4 DEF ARename
  <1>14. CASE ARenameFails
    BY <1>1, <1>2, <1>3, <1>14 DEF ARenameFails, Done4xx
  <1>15. CASE AWrite
    <2>1. IF api.op = "delete"
          THEN api.dir \in {"running", "cancelled"} /\ Started(api.tk)
          ELSE api.dir \in Waiting
      BY <1>1, <1>15 DEF AWrite, ApiInv
    <2>2. /\ api.dir \in STATES /\ "torn" \in Content
          /\ api.dir \in Begun => Started(api.tk)
      BY <2>1 DEF STATES, Waiting, Begun, Content
    <2>3. Safe
      BY <1>1, <1>4, <1>15, <2>2, PutIsSafe DEF AWrite, Truncate
    <2>4. api' \in ApiState /\ api'.tk = api.tk /\ api'.pc = "fill"
          /\ api'.op = api.op /\ api'.dir = api.dir /\ api'.new = api.new
      BY <1>1, <1>15 DEF AWrite, ApiState
    <2>5. Started(api.tk) => Started(api.tk)'
      BY <1>4, <1>15, <2>3, <2>4 DEF AWrite, Safe, Started, Exists
    <2>6. ApiInv'
      BY <1>1, <1>4, <1>15, <2>4, <2>5 DEF AWrite, ApiInv
    <2> QED BY <1>1, <1>5, <1>15, <2>3, <2>4, <2>6 DEF AWrite
  <1>16. CASE AFill
    <2>1. IF api.op = "delete"
          THEN api.dir \in {"running", "cancelled"} /\ api.new = "cancelled" /\ Started(api.tk)
          ELSE api.dir \in Waiting /\ api.new \in Waiting
      BY <1>1, <1>16 DEF AFill, ApiInv
    <2>2. api.dir \in STATES /\ api.new \in Fits(api.dir)
      BY <2>1 DEF STATES, Waiting, Begun, Fits
    <2>3. Safe
      BY <1>1, <1>4, <1>16, <2>2, FillIsSafe DEF AFill
    <2>4. CASE api.op = "create"
      <3>1. api' \in ApiState /\ ApiInv'
        BY <1>1, <1>4, <1>16, <2>4 DEF AFill, ApiState, ApiInv
      <3> QED BY <1>1, <1>5, <1>16, <2>3, <3>1 DEF AFill
    <2>5. CASE api.op = "delete"
      <3>1. api' \in ApiState /\ api'.tk = api.tk /\ api'.pc = "rename"
            /\ api'.op = api.op /\ api'.dir = api.dir /\ api'.new = api.new
        BY <1>1, <1>16, <2>5 DEF AFill, ApiState
      <3>2. Started(api.tk)'
        BY <1>4, <1>16, <2>1, <2>3, <2>5, <3>1 DEF AFill, Safe, Started, Exists
      <3>3. ApiInv'
        BY <1>1, <1>4, <1>16, <2>1, <2>5, <3>1, <3>2 DEF AFill, ApiInv
      <3> QED BY <1>1, <1>5, <1>16, <2>3, <3>1, <3>3 DEF AFill
    <2>6. CASE api.op \notin {"create", "delete"}
      BY <1>1, <1>3, <1>5, <1>16, <2>3, <2>6 DEF AFill
    <2> QED BY <2>4, <2>5, <2>6
  <1>17. CASE AUnlink
    <2>1. api.dir \in Waiting /\ api.dir \in STATES
      BY <1>1, <1>17 DEF AUnlink, ApiInv, Waiting
    <2>2. Safe
      BY <1>1, <1>4, <1>17, <2>1, PutIsSafe DEF AUnlink, Content
    <2>3. api' \in ApiState /\ ApiInv' /\ deleted' \subseteq Ticket
      BY <1>1, <1>4, <1>17 DEF AUnlink, ApiState, ApiInv
    <2> QED BY <1>1, <1>5, <1>17, <2>2, <2>3 DEF AUnlink
  <1>18. CASE ARmtree
    <2>1. work' \in [Ticket -> {"none", "working", "done", "failed", "cancelled"}]
      BY <1>1, <1>18 DEF ARmtree
    <2> QED BY <1>1, <1>2, <1>3, <1>18, <2>1 DEF ARmtree
  <1>19. CASE AArchive
    <2>1. work' \in [Ticket -> {"none", "working", "done", "failed", "cancelled"}]
      BY <1>1, <1>19 DEF AArchive
    <2> QED BY <1>1, <1>2, <1>3, <1>19, <2>1 DEF AArchive
  <1> QED BY <1>6, <1>7, <1>8, <1>9, <1>10, <1>11, <1>12, <1>13, <1>14, <1>15,
             <1>16, <1>17, <1>18, <1>19 DEF Api, Request

-----------------------------------------------------------------------------
(* Each step of ticket-complete.py preserves the invariant. *)

LEMMA CompleterFrame ==
  ASSUME IInv, Safe, comp' \in [Agent -> CompleterState], CompleterInv',
         UNCHANGED <<deps, known, overdue, disp, api, history>>,
         work' \in [Ticket -> {"none", "working", "done", "failed", "cancelled"}],
         notified' \subseteq Ticket \X {"done", "failed"}
  PROVE  IInv'
  <1>1. TypeOK'
    BY DEF IInv, TypeOK, Safe, history
  <1> QED BY <1>1, DispatcherKeeps, ApiKeeps, DependenciesKeep DEF IInv, Safe

\* While one completer moves on and the others stand still, what holds of the
\* others still does.
LEMMA OneCompleterMoves ==
  ASSUME IInv, Safe, NEW a \in Agent, NEW r \in CompleterState, known' = known,
         comp' = [comp EXCEPT ![a] = r],
         r.pc # "idle" => r.tk \in known,
         r.pc \in {"write", "fill", "unlink"} => \E d \in Begun : store'[r.tk][d] # "none",
         r.pc \in {"fill", "unlink"} => store'[r.tk][r.fin] # "none"
  PROVE  comp' \in [Agent -> CompleterState] /\ CompleterInv'
  <1>1. comp \in [Agent -> CompleterState] /\ known \subseteq Ticket
    BY DEF IInv, TypeOK
  <1>2. comp' \in [Agent -> CompleterState]
    BY <1>1
  <1>3. ASSUME NEW b \in Agent
        PROVE  /\ comp'[b].pc # "idle" => comp'[b].tk \in known'
               /\ comp'[b].pc \in {"write", "fill", "unlink"} =>
                     \E d \in Begun : store'[comp'[b].tk][d] # "none"
               /\ comp'[b].pc \in {"fill", "unlink"} =>
                     store'[comp'[b].tk][comp'[b].fin] # "none"
    <2>1. CASE b = a
      BY <1>1, <2>1
    <2>2. CASE b # a
      <3>1. comp'[b] = comp[b] /\ comp[b].fin \in {"done", "failed"}
        BY <1>1, <2>2 DEF CompleterState
      <3>2. comp[b].pc # "idle" => comp[b].tk \in Ticket
        BY <1>1 DEF IInv, CompleterInv
      <3> QED BY <3>1, <3>2 DEF IInv, CompleterInv, Safe, Started, Exists
    <2> QED BY <2>1, <2>2
  <1> QED BY <1>2, <1>3 DEF CompleterInv, Started, Exists

LEMMA CompleterStep ==
  ASSUME IInv, NEW a \in Agent, Completer(a) \/ Complete(a)
  PROVE  IInv'
  <1> DEFINE r == comp[a]
  <1>1. /\ TypeOK /\ StatusFits /\ FilesAreKnown /\ known \subseteq Ticket
        /\ r \in CompleterState /\ CompIdle \in CompleterState
        /\ work \in [Ticket -> {"none", "working", "done", "failed", "cancelled"}]
        /\ notified \subseteq Ticket \X {"done", "failed"}
        /\ r.pc # "idle" => r.tk \in known
        /\ r.pc \in {"write", "fill", "unlink"} => Started(r.tk)
        /\ r.pc \in {"fill", "unlink"} => Exists(r.tk, r.fin)
    BY DEF IInv, TypeOK, CompleterInv, CompIdle, CompleterState
  <1>2. /\ r.fin \in {"done", "failed"} /\ r.fin \in STATES /\ r.fin \in Fits(r.fin)
        /\ "running" \in STATES /\ "torn" \in Content /\ "none" \in Content
    BY <1>1 DEF CompleterState, STATES, Fits, Content
  <1>3. ASSUME NEW t \in Ticket, NEW fin \in {"done", "failed"}, CFind(a, t, fin)
        PROVE  IInv'
    <2> DEFINE n == [pc |-> "write", tk |-> t, fin |-> fin]
    <2>1. Exists(t, "running") /\ t \in known
      BY <1>1, <1>2, <1>3 DEF CFind, Readable, Exists, FilesAreKnown
    <2>2. Safe /\ n \in CompleterState /\ n.pc = "write" /\ n.tk = t
      BY <1>1, <1>3, SameStoreIsSafe DEF CFind, CompleterState
    <2>3. \E d \in Begun : store'[n.tk][d] # "none"
      BY <1>3, <2>1, <2>2 DEF CFind, Exists, Begun
    <2>4. comp' \in [Agent -> CompleterState] /\ CompleterInv'
      BY <1>3, <2>1, <2>2, <2>3, OneCompleterMoves DEF CFind
    <2> QED BY <1>1, <1>3, <2>2, <2>4, CompleterFrame DEF CFind
  <1>4. CASE CWrite(a)
    <2> DEFINE n == [r EXCEPT !.pc = "fill"]
    <2>1. /\ n \in CompleterState /\ n.pc = "fill" /\ n.tk = r.tk /\ n.fin = r.fin
          /\ r.tk \in Ticket /\ r.tk \in known /\ Started(r.tk)
      BY <1>1, <1>4 DEF CWrite, CompleterState
    <2>2. store' = Put(r.tk, r.fin, "torn") /\ known' = known
      BY <1>4 DEF CWrite, Truncate
    <2>3. Safe
      BY <1>1, <1>2, <2>1, <2>2, PutIsSafe
    <2>4. store'[r.tk][r.fin] # "none"
      BY <1>1, <1>2, <2>1, <2>2, PutIsAStore
    <2>5. \E d \in Begun : store'[n.tk][d] # "none"
      BY <1>2, <2>1, <2>4 DEF Begun
    <2>6. comp' \in [Agent -> CompleterState] /\ CompleterInv'
      BY <1>4, <2>1, <2>2, <2>3, <2>4, <2>5, OneCompleterMoves DEF CWrite
    <2> QED BY <1>1, <1>4, <2>3, <2>6, CompleterFrame DEF CWrite
  <1>5. CASE CFill(a)
    <2> DEFINE n == [r EXCEPT !.pc = "unlink"]
    <2>1. /\ n \in CompleterState /\ n.pc = "unlink" /\ n.tk = r.tk /\ n.fin = r.fin
          /\ r.tk \in Ticket /\ r.tk \in known /\ Exists(r.tk, r.fin)
      BY <1>1, <1>5 DEF CFill, CompleterState
    <2>2. store' = Fill(r.tk, r.fin, r.fin) /\ known' = known
      BY <1>5 DEF CFill
    <2>3. Safe
      BY <1>1, <1>2, <2>1, <2>2, FillIsSafe
    <2>4. store'[r.tk][r.fin] # "none"
      BY <1>2, <2>1, <2>3 DEF Safe, Exists
    <2>5. \E d \in Begun : store'[n.tk][d] # "none"
      BY <1>2, <2>1, <2>4 DEF Begun
    <2>6. comp' \in [Agent -> CompleterState] /\ CompleterInv'
      BY <1>5, <2>1, <2>2, <2>3, <2>4, <2>5, OneCompleterMoves DEF CFill
    <2>7. notified' \subseteq Ticket \X {"done", "failed"}
      BY <1>1, <1>5, <2>1, FlagType DEF CFill
    <2> QED BY <1>1, <1>5, <2>3, <2>6, <2>7, CompleterFrame DEF CFill
  <1>6. CASE CUnlink(a)
    <2> DEFINE n == [r EXCEPT !.pc = "archive"]
    <2>1. /\ n \in CompleterState /\ n.pc = "archive" /\ n.tk = r.tk
          /\ r.tk \in Ticket /\ r.tk \in known /\ Exists(r.tk, r.fin)
      BY <1>1, <1>6 DEF CUnlink, CompleterState
    <2>2. store' = Put(r.tk, "running", "none") /\ known' = known
      BY <1>6 DEF CUnlink
    <2>3. Safe
      BY <1>1, <1>2, <2>1, <2>2, PutIsSafe
    <2>4. comp' \in [Agent -> CompleterState] /\ CompleterInv'
      BY <1>6, <2>1, <2>2, <2>3, OneCompleterMoves DEF CUnlink
    <2> QED BY <1>1, <1>6, <2>3, <2>4, CompleterFrame DEF CUnlink
  <1>7. CASE CArchive(a)
    <2>1. Safe
      BY <1>1, <1>7, SameStoreIsSafe DEF CArchive
    <2>2. comp' \in [Agent -> CompleterState] /\ CompleterInv'
      BY <1>1, <1>7, <2>1, OneCompleterMoves DEF CArchive, CompIdle
    <2>3. work' \in [Ticket -> {"none", "working", "done", "failed", "cancelled"}]
      BY <1>1, <1>2, <1>7 DEF CArchive
    <2> QED BY <1>1, <1>7, <2>1, <2>2, <2>3, CompleterFrame DEF CArchive
  <1> QED BY <1>3, <1>4, <1>5, <1>6, <1>7 DEF Completer, Complete

-----------------------------------------------------------------------------
(* Time, crashes, and a step of nobody. *)

LEMMA EnvironmentStep ==
  ASSUME IInv, (\E t \in Ticket : GrowOld(t)) \/ Crash \/ UNCHANGED vars
  PROVE  IInv'
  <1> USE DEF history
  <1>1. Phase(1, "blocked") \in DispatcherState
    BY ConfigAssumption DEF Phase, DispatcherState
  <1>2. store' = store /\ UNCHANGED <<work, deps, known, notified, pushes, deleted, requests>>
    BY DEF GrowOld, Crash, vars
  <1>3. /\ TypeOK' /\ StatusFits' /\ FilesAreKnown' /\ DependenciesFirst'
    <2>1. disp' \in DispatcherState /\ api' \in ApiState /\ comp' \in [Agent -> CompleterState]
      BY <1>1 DEF IInv, TypeOK, GrowOld, Crash, vars, ApiIdle, ApiState, CompIdle, CompleterState
    <2>2. overdue' \subseteq Ticket /\ crashes' \in Nat
      BY DEF IInv, TypeOK, GrowOld, Crash, vars
    <2>3. TypeOK'
      BY <1>2, <2>1, <2>2 DEF IInv, TypeOK
    <2> QED BY <1>2, <2>3 DEF IInv, StatusFits, FilesAreKnown, DependenciesFirst,
                              Exists, Started, AllDepsDone
  <1>4. DispatcherInv'
    <2>1. CASE disp' = disp
      BY <1>2, <2>1 DEF IInv, DispatcherInv, Exists, Started
    <2>2. CASE disp' = Phase(1, "blocked")
      BY <2>2 DEF Phase, DispatcherInv
    <2> QED BY <2>1, <2>2 DEF GrowOld, Crash, vars
  <1>5. ApiInv'
    <2>1. CASE api' = api
      BY <1>2, <2>1 DEF IInv, ApiInv, Exists, Started
    <2>2. CASE api' = ApiIdle
      BY <2>2 DEF ApiIdle, ApiInv
    <2> QED BY <2>1, <2>2 DEF GrowOld, Crash, vars
  <1>6. CompleterInv'
    <2>1. CASE comp' = comp
      BY <1>2, <2>1 DEF IInv, CompleterInv, Exists, Started
    <2>2. ASSUME NEW a \in Agent, comp' = [comp EXCEPT ![a] = CompIdle]
          PROVE  CompleterInv'
      BY <1>2, <2>2 DEF IInv, TypeOK, CompleterInv, CompIdle, Exists, Started
    <2> QED BY <2>1, <2>2 DEF GrowOld, Crash, vars
  <1> QED BY <1>3, <1>4, <1>5, <1>6 DEF IInv

LEMMA InitIInv == Init => IInv
  <1> SUFFICES ASSUME Init PROVE IInv
    OBVIOUS
  <1>1. Phase(1, "blocked") \in DispatcherState /\ Phase(1, "blocked").pc = "list"
    BY ConfigAssumption DEF Phase, DispatcherState
  <1>2. TypeOK
    BY <1>1, EarlierAssumption DEF Init, TypeOK, ApiIdle, ApiState, CompIdle, CompleterState,
                                   Content, STATES
  <1>3. StatusFits /\ FilesAreKnown
    BY DEF Init, StatusFits, FilesAreKnown, Fits, Exists
  <1>4. DispatcherInv /\ ApiInv /\ CompleterInv
    BY <1>1 DEF Init, DispatcherInv, ApiInv, CompleterInv, ApiIdle, CompIdle
  <1>5. DependenciesFirst
    BY DEF Init, DependenciesFirst, AllDepsDone
  <1> QED BY <1>2, <1>3, <1>4, <1>5 DEF IInv

-----------------------------------------------------------------------------
(* The theorems. *)

\* The invariant is inductive: it holds in every reachable state, for any number
\* of tickets, agents, requests and crashes.
THEOREM Invariant == Spec => []IInv
  <1>1. IInv /\ [Next]_vars => IInv'
    BY DispatcherStep, ApiStep, CompleterStep, EnvironmentStep DEF Next
  <1> QED BY InitIInv, <1>1, PTL DEF Spec

\* Whatever the dispatcher, the API, the agents and crashes do, files, working
\* directories and processes keep the shapes the code gives them.
THEOREM TypeCorrect == Spec => []TypeOK
  <1>1. IInv => TypeOK
    BY DEF IInv
  <1> QED BY Invariant, <1>1, PTL

\* No ticket is started before everything it depends on is in done/, however the
\* processes interleave between the dispatcher's check and its write.
THEOREM DependenciesComeFirst == Spec => []DependenciesFirst
  <1>1. IInv => DependenciesFirst
    BY DEF IInv
  <1> QED BY Invariant, <1>1, PTL

-----------------------------------------------------------------------------
(* The ticket store implements TicketContract. *)

\* The contract's variables, read off the files.
StartedTickets == {t \in Ticket : Started(t)}
Outcomes == [t \in Ticket |-> {d \in {"done", "failed", "cancelled"} : Exists(t, d)}]

\* What a step of the store must be to the contract.
Kept == [Contract!Next]_(Contract!vars)

LEMMA SameFilesKeepContract ==
  ASSUME TypeOK, deps' = deps,
         \A t \in Ticket, d \in Begun : Exists(t, d)' <=> Exists(t, d)
  PROVE  Kept
  <1>1. \A t \in Ticket : Started(t)' <=> Started(t)
    BY DEF Started
  <1>2. StartedTickets' = StartedTickets
    BY <1>1 DEF StartedTickets
  <1>3. Outcomes' = Outcomes
    <2>1. {"done", "failed", "cancelled"} \subseteq Begun
      BY DEF Begun
    <2>2. \A t \in Ticket : {d \in {"done", "failed", "cancelled"} : Exists(t, d)}'
                             = {d \in {"done", "failed", "cancelled"} : Exists(t, d)}
      BY <2>1
    <2> QED BY <2>2 DEF Outcomes
  <1> QED BY <1>2, <1>3 DEF Kept, Contract!vars, StartedTickets, Outcomes

\* Putting a file where a start or an outcome is recorded is the contract's
\* Start or End, or changes nothing it can see; so is removing a running file
\* of a ticket that has an outcome.
LEMMA PutKeepsContract ==
  ASSUME TypeOK, deps' = deps,
         NEW t \in Ticket, NEW d \in STATES, NEW c \in Content,
         store' = Put(t, d, c),
         c = "none" => \/ d \in Waiting
                       \/ d = "running" /\ (Exists(t, "done") \/ Exists(t, "failed")),
         d = "running" /\ c # "none" => Started(t) \/ AllDepsDone(t),
         d \in {"done", "failed", "cancelled"} => Started(t)
  PROVE  Kept
  <1>1. \A u \in Ticket, e \in STATES :
          store'[u][e] = IF u = t /\ e = d THEN c ELSE store[u][e]
    BY PutIsAStore
  <1>2. /\ Begun \subseteq STATES /\ {"done", "failed", "cancelled"} \subseteq Begun
        /\ d \in Waiting <=> d \notin Begun
        /\ d \in Begun <=> (d = "running" \/ d \in {"done", "failed", "cancelled"})
        /\ "running" \notin {"done", "failed", "cancelled"}
    BY DEF Begun, STATES, Waiting
  <1>3. CASE d \in Waiting
    BY <1>1, <1>2, <1>3, SameFilesKeepContract DEF Exists
  <1>4. CASE d = "running"
    <2>1. Outcomes' = Outcomes
      <3>1. \A u \in Ticket, e \in {"done", "failed", "cancelled"} : Exists(u, e)' <=> Exists(u, e)
        BY <1>1, <1>2, <1>4 DEF Exists
      <3>2. \A u \in Ticket : {e \in {"done", "failed", "cancelled"} : Exists(u, e)}'
                               = {e \in {"done", "failed", "cancelled"} : Exists(u, e)}
        BY <3>1
      <3> QED BY <3>2 DEF Outcomes
    <2>2. \A u \in Ticket : u # t => (Started(u)' <=> Started(u))
      BY <1>1, <1>2 DEF Started, Exists
    <2>3. CASE Started(t)
      <3>1. Started(t)'
        <4>1. CASE c = "none"
          BY <1>1, <1>2, <1>4, <4>1 DEF Started, Exists
        <4>2. CASE c # "none"
          BY <1>1, <1>2, <1>4, <4>2 DEF Started, Exists
        <4> QED BY <4>1, <4>2
      <3>2. StartedTickets' = StartedTickets
        BY <2>2, <2>3, <3>1 DEF StartedTickets
      <3> QED BY <2>1, <3>2 DEF Kept, Contract!vars, StartedTickets, Outcomes
    <2>4. CASE ~ Started(t) /\ c = "none"
      <3>1. ~ (Exists(t, "done") \/ Exists(t, "failed"))
        BY <1>2, <2>4 DEF Started
      <3> QED BY <1>2, <1>4, <2>4, <3>1
    <2>5. CASE ~ Started(t) /\ c # "none"
      <3>1. Started(t)'
        BY <1>1, <1>2, <1>4, <2>5 DEF Started, Exists
      <3>2. StartedTickets' = StartedTickets \cup {t}
        BY <2>2, <2>5, <3>1 DEF StartedTickets
      <3>3. t \notin StartedTickets
        BY <2>5 DEF StartedTickets
      <3>4. \A e \in deps[t] : e \in Ticket /\ "done" \in Outcomes[e]
        BY <1>4, <2>5 DEF AllDepsDone, TypeOK, Outcomes
      <3>5. Contract!Start(t)
        BY <2>1, <3>2, <3>3, <3>4 DEF Contract!Start, StartedTickets, Outcomes
      <3> QED BY <3>5 DEF Kept, Contract!Next
    <2> QED BY <2>3, <2>4, <2>5
  <1>5. CASE d \in {"done", "failed", "cancelled"}
    <2>1. c # "none" /\ Started(t)
      BY <1>2, <1>5
    <2>2. Outcomes' = [Outcomes EXCEPT ![t] = @ \cup {d}]
      <3>1. \A u \in Ticket, e \in {"done", "failed", "cancelled"} :
               Exists(u, e)' <=> (Exists(u, e) \/ (u = t /\ e = d))
        BY <1>1, <1>2, <2>1 DEF Exists
      <3>2. \A u \in Ticket : {e \in {"done", "failed", "cancelled"} : Exists(u, e)}'
                 = IF u = t THEN {e \in {"done", "failed", "cancelled"} : Exists(u, e)} \cup {d}
                            ELSE {e \in {"done", "failed", "cancelled"} : Exists(u, e)}
        BY <1>5, <3>1
      <3> QED BY <3>2 DEF Outcomes
    <2>3. \A u \in Ticket : Started(u)' <=> Started(u)
      BY <1>1, <1>2, <2>1 DEF Started, Exists
    <2>4. StartedTickets' = StartedTickets /\ t \in StartedTickets
      BY <2>1, <2>3 DEF StartedTickets
    <2>5. Contract!End(t, d)
      BY <2>2, <2>4 DEF Contract!End, StartedTickets, Outcomes
    <2> QED BY <1>5, <2>5 DEF Kept, Contract!Next, Contract!Outcome
  <1> QED BY <1>2, <1>3, <1>4, <1>5

LEMMA FillKeepsContract ==
  ASSUME TypeOK, deps' = deps, NEW t \in Ticket, NEW d \in STATES, NEW c \in Fits(d),
         store' = Fill(t, d, c)
  PROVE  Kept
  <1>1. c \in Content /\ c # "none" /\ Begun \subseteq STATES
    BY DEF Fits, Content, STATES, Waiting, Begun
  <1>2. \A u \in Ticket, e \in STATES :
          store'[u][e] = IF u = t /\ e = d /\ store[t][d] # "none" THEN c ELSE store[u][e]
    BY <1>1, FillIsAStore
  <1>3. \A u \in Ticket, e \in STATES : Exists(u, e)' <=> Exists(u, e)
    BY <1>1, <1>2 DEF Exists
  <1> QED BY <1>1, <1>3, SameFilesKeepContract

\* A rename into cancelled/ is the contract's End; among the waiting
\* directories a rename is invisible to it.
LEMMA RenameKeepsContract ==
  ASSUME TypeOK, deps' = deps, NEW t \in Ticket, NEW d \in STATES, NEW e \in STATES,
         Exists(t, d),
         store' = [store EXCEPT ![t] =
                     [@ EXCEPT ![d] = "none", ![e] = store[t][d]]],
         \/ d \in Waiting /\ e \in Waiting
         \/ d \in {"running", "cancelled"} /\ e = "cancelled"
  PROVE  Kept
  <1>1. \A u \in Ticket, f \in STATES :
          store'[u][f] = IF u # t THEN store[u][f]
                         ELSE IF f = e THEN store[t][d]
                         ELSE IF f = d THEN "none" ELSE store[u][f]
    BY DEF TypeOK
  <1>2. /\ Begun \subseteq STATES /\ {"done", "failed", "cancelled"} \subseteq Begun
        /\ "cancelled" \in STATES /\ Waiting \cap Begun = {}
    BY DEF Begun, STATES, Waiting
  <1>3. CASE d \in Waiting /\ e \in Waiting
    BY <1>1, <1>2, <1>3, SameFilesKeepContract DEF Exists
  <1>4. CASE d = "cancelled" /\ e = "cancelled"
    BY <1>1, <1>2, <1>4, SameFilesKeepContract DEF Exists
  <1>5. CASE d = "running" /\ e = "cancelled"
    <2>1. Started(t) /\ Started(t)'
      BY <1>1, <1>2, <1>5 DEF Started, Exists, Begun
    <2>2. \A u \in Ticket : Started(u)' <=> Started(u)
      <3>1. ASSUME NEW u \in Ticket, u # t PROVE Started(u)' <=> Started(u)
        BY <1>1, <1>2, <3>1 DEF Started, Exists
      <3> QED BY <2>1, <3>1
    <2>3. StartedTickets' = StartedTickets /\ t \in StartedTickets
      BY <2>1, <2>2 DEF StartedTickets
    <2>4. Outcomes' = [Outcomes EXCEPT ![t] = @ \cup {"cancelled"}]
      <3>1. \A u \in Ticket, f \in {"done", "failed", "cancelled"} :
               Exists(u, f)' <=> (Exists(u, f) \/ (u = t /\ f = "cancelled"))
        BY <1>1, <1>2, <1>5 DEF Exists
      <3>2. \A u \in Ticket : {f \in {"done", "failed", "cancelled"} : Exists(u, f)}'
                 = IF u = t THEN {f \in {"done", "failed", "cancelled"} : Exists(u, f)}
                                  \cup {"cancelled"}
                            ELSE {f \in {"done", "failed", "cancelled"} : Exists(u, f)}
        BY <3>1
      <3> QED BY <3>2 DEF Outcomes
    <2>5. Contract!End(t, "cancelled")
      BY <2>3, <2>4 DEF Contract!End, StartedTickets, Outcomes
    <2> QED BY <2>5 DEF Kept, Contract!Next, Contract!Outcome
  <1> QED BY <1>3, <1>4, <1>5

LEMMA SameStoreKeepsContract ==
  ASSUME TypeOK, UNCHANGED <<store, deps>>
  PROVE  Kept
  BY SameFilesKeepContract DEF Exists

-----------------------------------------------------------------------------
(* Each process, step by step. *)

LEMMA DispatcherKeepsContract ==
  ASSUME IInv, Dispatcher
  PROVE  Kept
  <1> USE DEF history
  <1>1. /\ TypeOK /\ DispatcherInv /\ known \subseteq Ticket
        /\ disp.src \in {"blocked", "armed", "running", "done", "failed"}
        /\ disp.w \in {"none", "armed", "blocked", "running", "done", "failed"}
    BY DEF IInv, TypeOK, DispatcherState
  <1>2. disp.pc \notin {"list", "gate", "read"} => disp.tk \in Ticket
    BY <1>1 DEF DispatcherInv
  <1>3. /\ "torn" \in Content /\ "none" \in Content /\ "torn" # "none"
        /\ {"armed", "blocked", "running", "done", "failed"} \subseteq STATES
        /\ {"armed", "blocked"} \cap {"running", "done", "failed", "cancelled"} = {}
        /\ {"armed", "blocked"} \subseteq Waiting
    BY DEF Content, STATES, Waiting, Begun
  <1>4. CASE \/ DList \/ DGateClosed \/ DGateOpen \/ DStayBlocked \/ DUnmet \/ DPush
            \/ \E t \in Ticket : DRead(t) \/ DReadFails(t)
    BY <1>1, <1>4, SameStoreKeepsContract
       DEF DList, DGateClosed, DGateOpen, DStayBlocked, DUnmet, DPush, DRead, DReadFails
  <1>5. CASE DPromote
    BY <1>1, <1>2, <1>3, <1>5, PutKeepsContract DEF DPromote, Truncate
  <1>6. CASE DPark
    BY <1>1, <1>2, <1>3, <1>6, PutKeepsContract DEF DPark, Truncate
  <1>7. CASE DStart
    <2>1. AllDepsDone(disp.tk)
      BY <1>7 DEF DStart, AllDepsDone, AllDepsDoneInConfig
    <2> QED BY <1>1, <1>2, <1>3, <1>7, <2>1, PutKeepsContract DEF DStart, Truncate
  <1>8. CASE DFill
    <2>1. disp.w \in STATES /\ disp.w \in Fits(disp.w)
      BY <1>1, <1>8 DEF DFill, DispatcherInv, STATES, Fits, Waiting, Begun
    <2> QED BY <1>1, <1>2, <1>8, <2>1, FillKeepsContract DEF DFill
  <1>9. CASE DUnlink
    <2>1. disp.src \in {"blocked", "armed", "running"}
      BY <1>1, <1>9 DEF DUnlink, DispatcherInv
    <2>2. disp.src = "running" => Exists(disp.tk, "failed")
      BY <1>1, <1>9 DEF DUnlink, DispatcherInv
    <2> QED BY <1>1, <1>2, <1>3, <1>9, <2>1, <2>2, PutKeepsContract DEF DUnlink
  <1>10. CASE DMark
    <2>1. disp.src \in {"done", "failed"} /\ Started(disp.tk)
      BY <1>1, <1>10 DEF DMark, DispatcherInv, Started, Begun
    <2> QED BY <1>1, <1>2, <1>3, <1>10, <2>1, PutKeepsContract DEF DMark, Truncate
  <1>11. CASE DExpire
    <2>1. Started(disp.tk)
      BY <1>1, <1>11 DEF DExpire, DispatcherInv
    <2> QED BY <1>1, <1>2, <1>3, <1>11, <2>1, PutKeepsContract DEF DExpire, Truncate
  <1> QED BY <1>4, <1>5, <1>6, <1>7, <1>8, <1>9, <1>10, <1>11 DEF Dispatcher

LEMMA ApiKeepsContract ==
  ASSUME IInv, Api \/ Request
  PROVE  Kept
  <1> USE DEF history
  <1>1. /\ TypeOK /\ FilesAreKnown /\ ApiInv /\ known \subseteq Ticket
        /\ api.pc \notin {"idle", "create"} => api.tk \in Ticket
    BY DEF IInv, TypeOK, ApiInv
  <1>2. /\ "torn" \in Content /\ "none" \in Content /\ "torn" # "none"
        /\ Waiting \cap {"running", "done", "failed", "cancelled"} = {}
        /\ Waiting \subseteq STATES /\ {"running", "cancelled"} \subseteq STATES
    BY DEF Content, STATES, Waiting, Begun
  <1>3. ASSUME NEW t \in Ticket, NEW D \in SUBSET known, NEW mode \in {"draft", "armed"},
               ACreate(t, D, mode)
        PROVE  Kept
    <2>1. ~ Started(t)
      BY <1>3 DEF ACreate, IInv, FilesAreKnown, Started, Exists, Begun, STATES
    <2>2. t \notin StartedTickets /\ StartedTickets' = StartedTickets /\ Outcomes' = Outcomes
      BY <1>3, <2>1 DEF ACreate, StartedTickets, Outcomes, Started, Exists
    <2>3. Contract!Plan(t, D)
      BY <1>3, <2>2 DEF ACreate, Contract!Plan, StartedTickets, Outcomes
    <2> QED BY <1>1, <2>3 DEF Kept, Contract!Next
  <1>4. ASSUME NEW op \in Ops, NEW t \in Ticket, ARequest(op, t) PROVE Kept
    BY <1>1, <1>4, SameStoreKeepsContract DEF ARequest
  <1>5. CASE AScaffold \/ AFindMisses \/ AFinds \/ ADecide \/ ARenameFails \/ ARmtree \/ AArchive
    BY <1>1, <1>5, SameStoreKeepsContract
       DEF AScaffold, AFindMisses, AFinds, ADecide, ARenameFails, ARmtree, AArchive
  <1>6. CASE ACreateWrite
    <2>1. api.tk \in Ticket /\ api.new \in Waiting
      BY <1>1, <1>6 DEF ACreateWrite, ApiInv
    <2> QED BY <1>1, <1>2, <1>6, <2>1, PutKeepsContract DEF ACreateWrite, Truncate
  <1>7. CASE ARename
    <2>1. IF api.op = "delete"
          THEN api.dir \in {"running", "cancelled"} /\ api.new = "cancelled"
          ELSE api.dir \in Waiting /\ api.new \in Waiting
      BY <1>1, <1>7 DEF ARename, ApiInv
    <2>2. api.dir \in STATES /\ api.new \in STATES
      BY <1>2, <2>1
    <2> QED BY <1>1, <1>7, <2>1, <2>2, RenameKeepsContract DEF ARename
  <1>8. CASE AWrite
    <2>1. IF api.op = "delete"
          THEN api.dir \in {"running", "cancelled"} /\ Started(api.tk)
          ELSE api.dir \in Waiting
      BY <1>1, <1>8 DEF AWrite, ApiInv
    <2> QED BY <1>1, <1>2, <1>8, <2>1, PutKeepsContract DEF AWrite, Truncate
  <1>9. CASE AFill
    <2>1. IF api.op = "delete"
          THEN api.dir \in {"running", "cancelled"} /\ api.new = "cancelled"
          ELSE api.dir \in Waiting /\ api.new \in Waiting
      BY <1>1, <1>9 DEF AFill, ApiInv
    <2>2. api.dir \in STATES /\ api.new \in Fits(api.dir)
      BY <2>1 DEF STATES, Waiting, Begun, Fits
    <2> QED BY <1>1, <1>9, <2>2, FillKeepsContract DEF AFill
  <1>10. CASE AUnlink
    <2>1. api.dir \in Waiting
      BY <1>1, <1>10 DEF AUnlink, ApiInv
    <2> QED BY <1>1, <1>2, <1>10, <2>1, PutKeepsContract DEF AUnlink
  <1> QED BY <1>3, <1>4, <1>5, <1>6, <1>7, <1>8, <1>9, <1>10 DEF Api, Request

LEMMA CompleterKeepsContract ==
  ASSUME IInv, NEW a \in Agent, Completer(a) \/ Complete(a)
  PROVE  Kept
  <1>1. /\ TypeOK /\ CompleterInv /\ comp[a] \in CompleterState
        /\ comp[a].pc # "idle" => comp[a].tk \in Ticket
    BY DEF IInv, TypeOK, CompleterInv
  <1>2. /\ comp[a].fin \in {"done", "failed"} /\ comp[a].fin \in STATES
        /\ comp[a].fin \in Fits(comp[a].fin)
        /\ "running" \in STATES /\ "torn" \in Content /\ "none" \in Content
    BY <1>1 DEF CompleterState, STATES, Fits, Content
  <1>3. CASE Complete(a) \/ CArchive(a)
    BY <1>1, <1>3, SameStoreKeepsContract DEF Complete, CFind, CArchive
  <1>4. CASE CWrite(a)
    <2>1. Started(comp[a].tk)
      BY <1>1, <1>4 DEF CWrite, CompleterInv
    <2> QED BY <1>1, <1>2, <1>4, <2>1, PutKeepsContract DEF CWrite, Truncate
  <1>5. CASE CFill(a)
    BY <1>1, <1>2, <1>5, FillKeepsContract DEF CFill
  <1>6. CASE CUnlink(a)
    <2>1. Exists(comp[a].tk, "done") \/ Exists(comp[a].tk, "failed")
      BY <1>1, <1>2, <1>6 DEF CUnlink, CompleterInv
    <2> QED BY <1>1, <1>2, <1>6, <2>1, PutKeepsContract DEF CUnlink
  <1> QED BY <1>3, <1>4, <1>5, <1>6 DEF Completer

LEMMA InitKeepsContract == Init => Contract!Init
  <1> SUFFICES ASSUME Init PROVE Contract!Init
    OBVIOUS
  <1>1. \A t \in Ticket, d \in STATES : Exists(t, d) <=> (t \in Earlier /\ d = "done")
    BY DEF Init, Exists
  <1>2. Begun \subseteq STATES /\ "done" \in Begun
        /\ {"done", "failed", "cancelled"} \subseteq STATES
    BY DEF Begun, STATES
  <1>3. \A t \in Ticket : Started(t) <=> t \in Earlier
    BY <1>1, <1>2 DEF Started
  <1>4. StartedTickets = Earlier
    BY <1>3, EarlierAssumption DEF StartedTickets
  <1>5. \A t \in Ticket : {d \in {"done", "failed", "cancelled"} : Exists(t, d)}
                           = IF t \in Earlier THEN {"done"} ELSE {}
    BY <1>1, <1>2
  <1> QED BY <1>4, <1>5, EarlierAssumption DEF Init, Contract!Init, StartedTickets

\* Every behaviour of the ticket store, read off its directories, is a behaviour
\* of the contract: dependencies are done before a start, an outcome needs a
\* start, and no process ever takes back a start or an outcome.
THEOREM StoreKeepsContract == Spec => KeepsContract
  <1>1. IInv /\ [Next]_vars => Kept
    <2> SUFFICES ASSUME IInv, [Next]_vars PROVE Kept
      OBVIOUS
    <2>1. CASE UNCHANGED vars \/ (\E t \in Ticket : GrowOld(t)) \/ Crash
      BY <2>1, SameStoreKeepsContract DEF IInv, vars, GrowOld, Crash
    <2> QED BY <2>1, DispatcherKeepsContract, ApiKeepsContract, CompleterKeepsContract DEF Next
  <1> QED BY Invariant, InitKeepsContract, <1>1, PTL DEF Spec, KeepsContract, Contract!Spec, Kept
=============================================================================
