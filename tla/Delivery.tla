------------------------------- MODULE Delivery -------------------------------
(***************************************************************************)
(* How a message in an inbox gets into the context of its agent: the watcher*)
(* types a notice into the pane of an idle session, the SessionStart hook   *)
(* injects what is past the read cursor, and the Stop hook keeps a turn     *)
(* going while messages are pending.  None of them takes the lock, so each  *)
(* may read the inbox while an acknowledgement rewrites it.  The file       *)
(* itself, at the grain of its writes, is the subject of Inbox.             *)
(***************************************************************************)
EXTENDS Naturals, Sequences, FiniteSets, SequencesExt

CONSTANTS
  Msg,          \* messages to one agent, named by their place in its inbox
  From,         \* From[m]: the sender of m
  None,
  Old,          \* messages older than RECENCY_WINDOW when the Stop hook looks
  MaxClock,     \* bound: seconds of send.py's clock
  MaxBlocks,    \* MAX_BLOCKS of the Stop hook
  MaxInjected,  \* MAX_INJECTED of the SessionStart hook
  MaxEvents     \* bound: events of the directory not handled yet

ASSUME DeliveryAssumption ==
  /\ From \in [Msg -> STRING] /\ None \notin Msg /\ Old \subseteq Msg
  /\ {MaxClock, MaxBlocks, MaxInjected, MaxEvents} \subseteq Nat \ {0}

VARIABLES
  stamp,         \* stamp[m]: the ts of m, 0 before it was sent
  inbox, acked,  \* the messages in the file in their order, and which are acknowledged
  rewriting,     \* the message whose acknowledgement is rewriting the file, or None
  cursor,        \* last_read[s] in state-<agent>.json
  pane,          \* the session: "gone", "idle" at its prompt, "busy" in a turn
  start,         \* SessionStart: how far it is, the unread messages, those it shows
  stop,          \* Stop: how far it is, and the pending messages it saw
  marker,        \* stop-drain-<agent>.json
  events,        \* events of the inbox file the watcher has to handle
  watch,         \* the watcher: where it is, and with which message
  pushed,        \* .watcher-pushed-<agent>
  seen,          \* history: messages the agent was told of
  excused,       \* history: sent late, beyond MAX_INJECTED, or in a lost output of a hook
  steady         \* history: since the last append the pane was idle and looked it, the
                 \* watcher was alive and no push failed

vars == <<stamp, inbox, acked, rewriting, cursor, pane, start, stop, marker,
          events, watch, pushed, seen, excused, steady>>
bus     == <<stamp, inbox, acked, rewriting>>
session == <<cursor, pane, start, stop, marker, seen>>
watcher == <<events, watch, pushed>>

Sender    == {From[m] : m \in Msg}
NoCursor  == [ts |-> 0, ids |-> {}]
AtStart   == [s \in Sender |-> NoCursor]
NoMarker  == [ids |-> {}, count |-> 0]
NoStart   == [pc |-> "rest", new |-> {}, shown |-> {}]
NoStop    == [pc |-> "rest", pend |-> {}]
Resting   == [pc |-> "rest", id |-> None]
Delivered == ToSet(inbox)
Event     == events' = IF events < MaxEvents THEN events + 1 ELSE events

\* What a reader without the lock may find: during a rewrite, the file as far
\* as it has been written.
Views == {SubSeq(inbox, 1, k) : k \in IF rewriting = None THEN {Len(inbox)} ELSE 0 .. Len(inbox)}

-----------------------------------------------------------------------------
\* send.py takes the time t, then the lock, and appends: messages need not be in
\* the file in the order of their times.  One that comes after a later one of its
\* own sender is late: two sends of one sender overlapped, or the clock was set back.
Deliver(m, t) ==
  /\ m \notin Delivered /\ m = Len(inbox) + 1 /\ rewriting = None
  /\ stamp' = [stamp EXCEPT ![m] = t]
  /\ inbox' = Append(inbox, m)
  /\ excused' = IF \E n \in Delivered : From[n] = From[m] /\ stamp[n] > t
                THEN excused \cup {m} ELSE excused
  /\ Event /\ steady' = (pane = "idle")
  /\ UNCHANGED <<acked, rewriting, session, watch, pushed>>

\* read.py --ack, run by the agent in a turn, or by the API for the operator.
AckBegin(m) ==
  /\ m \in Delivered \ acked /\ rewriting = None
  /\ rewriting' = m /\ Event
  /\ UNCHANGED <<stamp, inbox, acked, session, watch, pushed, excused, steady>>

AckEnd ==
  /\ rewriting # None
  /\ acked' = acked \cup {rewriting} /\ rewriting' = None /\ Event
  /\ UNCHANGED <<stamp, inbox, session, watch, pushed, excused, steady>>

-----------------------------------------------------------------------------
\* Fault: a plain comparison of times.
after_time(m) == stamp[m] > cursor[From[m]].ts

\* The cursor of a sender is a time and the messages seen at exactly that time.
after_cursor(m) ==
  LET c == cursor[From[m]] IN
  stamp[m] > c.ts \/ (stamp[m] = c.ts /\ m \notin c.ids)

\* The cursor of each sender moves to the newest of ms.
advance_cursor(ms) ==
  [s \in Sender |->
     LET mine == {m \in ms : From[m] = s}
         old  == cursor[s].ts
         new  == {stamp[m] : m \in {n \in mine : stamp[n] > old}}
         ts   == IF new = {} THEN old ELSE CHOOSE t \in new : \A u \in new : u <= t
     IN  [ts |-> ts, ids |-> {m \in mine : stamp[m] = ts} \cup
                             (IF ts = old THEN cursor[s].ids ELSE {})]]

\* Fault: the cursor is moved over the inbox as it is by now.
AdvancesToNow(ms) == advance_cursor(Delivered)

\* What is saved is made from all that was unread, also what is not shown.
Advanced(ms) == advance_cursor(ms)

\* Of the unread messages new the first MaxInjected, as they are in the file.
injected(view, new) ==
  {view[i] : i \in {k \in 1 .. Len(view) :
     /\ view[k] \in new
     /\ Cardinality({j \in 1 .. k : view[j] \in new}) <= MaxInjected}}

\* A session starts, or its context is reset, and its hook reads the inbox.  Until
\* the hook is done the session is not at its prompt.
SessionStart(view) ==
  /\ pane = "gone" /\ view \in Views
  /\ LET new == {m \in ToSet(view) \ acked : after_cursor(m)}
     IN  start' = IF new = {} THEN NoStart
                  ELSE [pc |-> "save", new |-> new, shown |-> injected(view, new)]
  /\ pane' \in IF start' = NoStart THEN {"idle", "busy"} ELSE {"busy"}
  /\ UNCHANGED <<bus, cursor, stop, marker, seen, excused, watcher, steady>>

\* It saves the cursor, if it can, else the file stays or does not parse; the digest
\* is still in the buffer of its output.
SaveCursor(ok) ==
  /\ start.pc = "save"
  /\ cursor' \in IF ok THEN {Advanced(start.new)} ELSE {cursor, AtStart}
  /\ start' = [pc |-> "flush", new |-> {}, shown |-> start.shown]
  /\ excused' = excused \cup (start.new \ start.shown)
  /\ UNCHANGED <<bus, pane, stop, marker, seen, watcher, steady>>

\* The digest gets out as the hook exits, and the session goes to its prompt, or on
\* with its turn.
Digest ==
  /\ start.pc = "flush" /\ start' = NoStart
  /\ seen' = seen \cup start.shown /\ pane' \in {"idle", "busy"}
  /\ UNCHANGED <<bus, cursor, stop, marker, excused, watcher, steady>>

\* What a hook was about to tell, and has already noted as told.
Telling  == IF start.pc = "flush" THEN start.shown ELSE {}
Blocking == IF stop.pc = "block" THEN stop.pend ELSE {}

\* The session goes away at any moment, and its hooks with what is in their buffers;
\* if one was writing the cursor, the file does not parse, and everything is unread.
SessionEnds(torn) ==
  /\ pane # "gone"
  /\ torn => start.pc = "save"
  /\ pane' = "gone" /\ start' = NoStart /\ stop' = NoStop /\ steady' = FALSE
  /\ cursor' = IF torn THEN AtStart ELSE cursor
  /\ excused' = excused \cup Telling \cup Blocking
  /\ UNCHANGED <<bus, marker, seen, watcher>>

\* Somebody prompts the agent.
Prompt ==
  /\ pane = "idle" /\ pane' = "busy" /\ steady' = FALSE
  /\ UNCHANGED <<bus, cursor, start, stop, marker, seen, excused, watcher>>

StopRead(view) ==
  /\ pane = "busy" /\ start.pc = "rest" /\ stop.pc = "rest" /\ view \in Views
  /\ stop' = [pc |-> "mark", pend |-> ToSet(view) \ (acked \cup Old)]
  /\ UNCHANGED <<bus, cursor, pane, start, marker, seen, excused, watcher, steady>>

\* Fault: the count is kept although other messages are pending.
CountedAll(pend) == marker.count

\* Fault: the count is not kept.
CountedNone(pend) == 0

\* How often the turn was blocked already for exactly these messages.
Counted(pend) == IF marker.ids = pend THEN marker.count ELSE 0

\* Fault: blocked once more than MaxBlocks.
BlocksOnceMore(n) == n > MaxBlocks

GivesUp(n) == n >= MaxBlocks

\* With nothing pending, or nothing to be gained, the turn ends.  Otherwise the
\* block is counted, and the marker's file may not take that (`except: pass`).
StopMark(ok) ==
  LET pend   == stop.pend
      blocks == pend # {} /\ ~ GivesUp(Counted(pend))
      count  == IF pend = {} THEN NoMarker ELSE [ids |-> pend, count |-> Counted(pend) + 1]
  IN  /\ stop.pc = "mark"
      /\ stop' = IF blocks THEN [stop EXCEPT !.pc = "block"] ELSE NoStop
      /\ pane' = IF blocks THEN pane ELSE "idle"
      /\ marker' \in IF pend # {} /\ ~ blocks THEN {marker}
                     ELSE IF ok THEN {count} ELSE {marker, NoMarker}
      /\ UNCHANGED <<bus, cursor, start, seen, excused, watcher, steady>>

\* The block and its reason get out, and the turn goes on.
StopBlock ==
  /\ stop.pc = "block" /\ stop' = NoStop
  /\ seen' = seen \cup stop.pend
  /\ UNCHANGED <<bus, cursor, pane, start, marker, excused, watcher, steady>>

-----------------------------------------------------------------------------
\* The watcher looks at the last line only, and drops what it pushed last.
Handle(view) ==
  LET last == IF view = << >> THEN None ELSE Last(view) IN
  /\ watch.pc = "rest" /\ events > 0 /\ view \in Views
  /\ events' = events - 1
  /\ watch' = IF last \in {None, pushed} THEN Resting ELSE [pc |-> "look", id |-> last]
  /\ UNCHANGED <<bus, session, pushed, excused, steady>>

\* Fault: the last lines of a tall pane are blank, and blank is not a prompt.
BlankTail(misread) == FALSE

\* A guess from the last lines of the pane, which may be wrong either way, but not
\* about a session of which nothing is captured.
pane_is_idle(misread) == pane # "gone" /\ (misread # (pane = "idle"))

\* It captures the pane; a session that does not look as if it was at its prompt is
\* skipped, and the message is not tried again by itself.
Look(misread) ==
  /\ watch.pc = "look"
  /\ watch' = IF pane_is_idle(misread) THEN [watch EXCEPT !.pc = "type"] ELSE Resting
  /\ steady' = (steady /\ ~ misread)
  /\ UNCHANGED <<bus, session, events, pushed, excused>>

\* It types the notice and presses Enter, whatever the session does by now.  The
\* keys may fail (tmux, ssh), or be reported as failed although they got there.
Type(sent, ok) ==
  /\ watch.pc = "type"
  /\ ok => sent
  /\ sent => pane # "gone"
  /\ watch' = IF ok THEN [watch EXCEPT !.pc = "mark"] ELSE Resting
  /\ IF sent THEN pane' = "busy" /\ seen' = seen \cup {watch.id}
             ELSE UNCHANGED <<pane, seen>>
  /\ steady' = FALSE
  /\ UNCHANGED <<bus, cursor, start, stop, marker, excused, events, pushed>>

\* What was pushed is remembered.
Marked == watch.id

Mark ==
  /\ watch.pc = "mark"
  /\ pushed' = Marked /\ watch' = Resting
  /\ UNCHANGED <<bus, session, events, excused, steady>>

\* The watcher is started again and sees the events from then on.
WatcherDies ==
  /\ watch # Resting \/ events > 0
  /\ watch' = Resting /\ events' = 0 /\ steady' = FALSE
  /\ UNCHANGED <<bus, session, pushed, excused>>

-----------------------------------------------------------------------------
Init ==
  /\ stamp = [m \in Msg |-> 0] /\ inbox = << >> /\ acked = {} /\ rewriting = None
  /\ cursor = AtStart /\ pane = "gone"
  /\ start = NoStart /\ stop = NoStop /\ marker = NoMarker
  /\ events = 0 /\ watch = Resting /\ pushed = None
  /\ seen = {} /\ excused = {}
  /\ steady = FALSE

\* What a hook does that was called, and what the watcher does with an event.
Hooks ==
  \/ Digest \/ StopBlock \/ \E v \in Views : StopRead(v)
  \/ \E ok \in BOOLEAN : SaveCursor(ok) \/ StopMark(ok)

Watch ==
  \/ Mark \/ \E v \in Views : Handle(v)
  \/ \E misread \in BOOLEAN : Look(misread)
  \/ \E sent, ok \in BOOLEAN : Type(sent, ok)

Next ==
  \/ AckEnd \/ Prompt \/ WatcherDies \/ Hooks \/ Watch
  \/ \E m \in Msg : (\E t \in 1 .. MaxClock : Deliver(m, t)) \/ AckBegin(m)
  \/ \E v \in Views : SessionStart(v)
  \/ \E torn \in BOOLEAN : SessionEnds(torn)

Spec == Init /\ [][Next]_vars /\ WF_vars(Hooks) /\ WF_vars(Watch) /\ WF_vars(AckEnd)

-----------------------------------------------------------------------------
\* Every variable stays in its type.
DeliveryTypeOK ==
  /\ stamp \in [Msg -> 0 .. MaxClock]
  /\ IsInjective(inbox) /\ Delivered \subseteq Msg
  /\ \A s \in {acked, start.new, start.shown, stop.pend, marker.ids, seen, excused} :
       s \subseteq Delivered
  /\ rewriting \in Delivered \cup {None} /\ pushed \in Delivered \cup {None}
  /\ start.pc \in {"rest", "save", "flush"} /\ stop.pc \in {"rest", "mark", "block"}
  /\ pane \in {"gone", "idle", "busy"} /\ marker.count \in 0 .. MaxBlocks
  /\ events \in 0 .. MaxEvents /\ watch.pc \in {"rest", "look", "type", "mark"}

\* The cursor passes no message nobody tells the agent of: an unacknowledged message
\* is still past the cursor, was announced, or is in the digest about to come out,
\* for messages of one second, deaths before the save and rewrites under the hook
\* (session_start.py, advance_cursor).  Excused are the messages that the code does
\* pass: those beyond MAX_INJECTED at a start, those of a digest that was lost with
\* its session after the save, and those that come after a later one of their sender.
CursorAccounts ==
  \A m \in Delivered \ acked : m \in seen \cup excused \cup Telling \/ after_cursor(m)

\* A turn ends with a message pending that its hook saw only if the agent was
\* told of it, although the hook blocks a set of messages MaxBlocks times at most
\* (mesh-inbox-drain-stop.py, the count kept per set of ids), or a session that
\* died took with it the block that was counted.
TurnEndsInformed ==
  [][pane = "busy" /\ pane' = "idle" => stop.pend \subseteq seen \cup excused]_vars

\* A turn is blocked and the marker's file does not say so.
Uncounted == stop.pc = "mark" /\ stop'.pc = "block"
             /\ marker' # [ids |-> stop.pend, count |-> Counted(stop.pend) + 1]

\* A message that cannot be acknowledged does not wedge its agent: turns end again
\* and again (mesh-inbox-drain-stop.py, MAX_BLOCKS), unless the marker cannot be
\* written again and again, which the hook passes over.
NeverWedged == ~ []<><<Uncounted>>_vars => []<>(pane # "busy")

\* The session goes away while its SessionStart hook is at work.
CutShort == start.pc # "rest" /\ pane' = "gone"

\* docs/components/hooks.md, "a message is never lost, only delayed", as far as that
\* is so: as long as sessions come and go, and do not go for ever within their hook,
\* the agent is told of every message, or it was acknowledged for it (session_start.py
\* and the watcher together) -- excused are those named at CursorAccounts.
SeenAtLast ==
  []<>(pane = "gone") /\ []<>(pane # "gone") /\ ~ []<><<CutShort>>_vars
    => <>[](Delivered \subseteq seen \cup acked \cup excused)

\* The last message that arrives at an idle prompt is typed there, if the session
\* stays idle and is seen to be, the watcher alive, and no push fails meanwhile: the
\* code tries a message once for each event, and no more (watcher.sh, handle_event).
PushedAtThePrompt == steady ~> (~ steady \/ Last(inbox) \in seen)

=============================================================================
