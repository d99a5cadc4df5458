-------------------------------- MODULE Bridge --------------------------------
(***************************************************************************)
(* The Matrix bridge: one loop that relays what the pilot writes in the     *)
(* rooms to the mesh, and what the agents write to the pilot into the       *)
(* rooms.  The homeserver answers an old cursor with the tail of a room     *)
(* only, requests fail before or after they had their effect, the bus may   *)
(* refuse a message, the inbox may be damaged, and the service may die      *)
(* between any two steps and start again from the state it saved last.      *)
(***************************************************************************)
EXTENDS Naturals, Sequences, FiniteSets, SequencesExt

CONSTANTS
  Room,              \* rooms, each of one agent
  Tokened,           \* rooms whose agent has a token of its own
  To,                \* To[i]: the room of the sender of message i to the pilot, or None
  None,
  Window,            \* events of a room that /sync still exposes
  MaxPages,          \* backfill_max_pages, a page being one event
  SyncAlertAfter,    \* sync_alert_after
  SyncAlertSeconds,  \* sync_alert_seconds, in turns of the loop
  HoldAlert,         \* hold_alert_seconds, in turns of the loop
  HoldSkip,          \* hold_skip_seconds, in turns of the loop
  Posts,             \* how a post may end: "ok", "lost", "down", "refused", "rejected"
  Relays,            \* how a send to the mesh may end: "ok", "late", "refused"
  MaxPilot,          \* bound: messages of the pilot
  MaxPurges,         \* bound: times the server loses the older history of a room
  MaxRewrites,       \* bound: times the inbox is read while an acknowledgement rewrites it
  MaxCuts,           \* bound: deaths of those who write the inbox
  MaxCrashes         \* bound: times the service dies

ASSUME BridgeAssumption ==
  /\ Tokened \subseteq Room /\ None \notin Room \cup [Room -> Nat]
  /\ To \in Seq(Room \cup {None})
  /\ {Window, MaxPages, SyncAlertAfter, HoldSkip} \subseteq Nat \ {0}
  /\ {SyncAlertSeconds, HoldAlert, MaxPilot, MaxPurges, MaxRewrites, MaxCuts, MaxCrashes}
       \subseteq Nat

VARIABLES
  room,     \* room[r]: the events of r, <<who wrote it, line it posts or 0>>
  floor,    \* floor[r]: how many of them the server has lost
  written,  \* messages sent to the pilot
  box,      \* the lines of the pilot's inbox: the message of each, or a piece of it
  bad,      \* messages in lines that do not parse
  open,     \* the last line has no end: its sender died
  decodes,  \* no line was cut within a character
  mem,      \* state: sync cursor (None before the first sync), last events, inbox_offset
  disk,     \* the state file
  kept,     \* there is a state file
  pc,       \* where the loop is: "down", "sync", "rooms", "save", "read", "post"
  joined,   \* joined[r]: how far the response under way goes in the rooms it still names
  queue,    \* events of one room about to be relayed, <<room, event>>; oldest first
  line,     \* the line of the inbox that is next, the lines read, and which of them
            \* was not read as it is written, or 0
  fails,    \* sync_fails; past the alert the code only counts on
  alerted,  \* sync_alerted
  hold,     \* where the line held is, of which room, for how long, and whether that
            \* was escalated
  reported, \* gap_reported
  relayed,  \* history: events that are in the inbox of their agent
  told,     \* history: events somebody was told are not delivered
  unheard,  \* history: events of which that was only logged, since telling it failed too
  dropped,  \* history: messages given up: rejected, which is logged, or held too long,
            \* which is escalated
  halved,   \* history: messages passed because only a part of their line was read
  old,      \* history: messages that were in the inbox at a start without a state file
  shifted,  \* history: an acknowledgement left lines out of the inbox, or out of what a
            \* read found while it was at work
  high,     \* history: the last event relayed by this life of the service
  base,     \* history: where the rooms stood when the state file got its first cursor
  purges, rewrites, cuts, crashes

vars == <<room, floor, written, box, bad, open, decodes, mem, disk, kept, pc, joined, queue, line,
          fails, alerted, hold, reported, relayed, told, unheard, dropped, halved, old, shifted,
          high, base, purges, rewrites, cuts, crashes>>
server  == <<room, floor>>
inbox   == <<written, box, bad, open, decodes>>
loop    == <<pc, joined, queue, line>>
outage  == <<fails, alerted>>
events  == <<relayed, told, unheard, high, base>>
replies == <<dropped, halved, old, shifted>>
history == <<events, replies>>
bounds  == <<purges, rewrites, cuts, crashes>>

Lines   == DOMAIN To
NoLine  == [next |-> 1, lines |-> << >>, cut |-> 0]
NoHold  == [at |-> 0, room |-> None, turns |-> 0, alerted |-> FALSE]
Nowhere == [r \in {} |-> 0]
Events(r) == 1 .. Len(room[r])
Pilots(r) == {e \in Events(r) : room[r][e][1] = "pilot"}
Standing  == [r \in Room |-> Len(room[r])]

-----------------------------------------------------------------------------
PilotPosts(r) ==
  /\ Cardinality(UNION {{q} \X Pilots(q) : q \in Room}) < MaxPilot
  /\ room' = [room EXCEPT ![r] = Append(@, <<"pilot", 0>>)]
  /\ UNCHANGED <<floor, inbox, mem, disk, kept, loop, outage, hold, reported, history, bounds>>

\* An agent, or another peer, sends to the pilot, and may die within its write, even
\* within a character of it.  What is written after a line without end has no line
\* of its own.
AgentSends(how) ==
  LET i == written + 1 IN
  /\ i \in Lines /\ how \in {"whole", "torn", "junk"}
  /\ how # "whole" => cuts < MaxCuts
  /\ written' = i /\ open' = (how # "whole")
  /\ box' = IF open THEN box ELSE Append(box, i)
  /\ bad' = IF open \/ how # "whole" THEN bad \cup {i} ELSE bad
  /\ decodes' = (decodes /\ how # "junk")
  /\ cuts' = IF how = "whole" THEN cuts ELSE cuts + 1
  /\ UNCHANGED <<server, mem, disk, kept, loop, outage, hold, reported, history, purges, rewrites,
                 crashes>>

\* ack_inbox leaves out the lines that do not parse, and writes the others, or dies
\* when it has written k of them.
Rewrite(k) ==
  LET whole == {j \in 1 .. Len(box) : box[j] \notin bad} IN
  \E at \in [1 .. k -> whole] :
    /\ decodes
    /\ \A i, j \in 1 .. k : i < j => at[i] < at[j]
    /\ \A j \in whole : k > 0 /\ j < at[k] => \E i \in 1 .. k : at[i] = j
    /\ box' = [j \in 1 .. k |-> box[at[j]]] /\ open' = FALSE
    /\ box' # box /\ shifted' = TRUE
    /\ IF k < Cardinality(whole) THEN cuts < MaxCuts /\ cuts' = cuts + 1 ELSE UNCHANGED cuts
    /\ UNCHANGED <<server, written, bad, decodes, mem, disk, kept, loop, outage, hold, reported,
                   events, dropped, halved, old, purges, rewrites, crashes>>

\* The homeserver is restored from a backup, or cleans its history up.
Purge(r) ==
  /\ purges < MaxPurges /\ floor[r] + Window < Len(room[r])
  /\ floor' = [floor EXCEPT ![r] = Len(room[r]) - Window]
  /\ purges' = purges + 1
  /\ UNCHANGED <<room, inbox, mem, disk, kept, loop, outage, hold, reported, history,
                 rewrites, cuts, crashes>>

Fresh == [since |-> None, last |-> [r \in Room |-> 0], offset |-> 0]

\* The service is gone, with what it had in memory.
Down(saved) ==
  /\ mem' = saved /\ disk' = saved /\ pc' = "down"
  /\ joined' = Nowhere /\ queue' = {} /\ line' = NoLine
  /\ fails' = 0 /\ alerted' = FALSE /\ hold' = NoHold /\ reported' = {}
  /\ high' = [r \in Room |-> 0]
  /\ UNCHANGED <<server, inbox, relayed, told, unheard, base, replies>>

\* It dies; the state file is replaced as a whole, but a power cut may empty it.
Crash(lost) ==
  /\ crashes < MaxCrashes /\ crashes' = crashes + 1
  /\ Down(IF lost THEN Fresh ELSE disk) /\ kept' = (kept /\ ~ lost)
  /\ UNCHANGED <<purges, rewrites, cuts>>

\* It is started again: from the state file, or else behind the k lines of the
\* inbox, which it must be able to read for that.
StartUp(k) ==
  /\ pc = "down" /\ (kept \/ decodes) /\ k \in 0 .. Len(box)
  /\ IF kept \/ k = Len(box) THEN UNCHANGED rewrites
     ELSE rewrites < MaxRewrites /\ rewrites' = rewrites + 1
  /\ IF kept THEN k = Len(box) /\ UNCHANGED <<mem, old>>
     ELSE /\ mem' = [mem EXCEPT !.offset = k]
          /\ old' = old \cup {box[j] : j \in 1 .. k}
  /\ pc' = "sync"
  /\ UNCHANGED <<server, inbox, disk, kept, joined, queue, line, outage, hold, reported, events,
                 dropped, halved, shifted, purges, cuts, crashes>>

-----------------------------------------------------------------------------
\* poll_matrix.  An outage is escalated once it has lasted long enough, by
\* count and by the clock; a turn of the loop is the unit of time.
AlertDue(n) == n >= SyncAlertAfter /\ n > SyncAlertSeconds

SyncFail ==
  /\ pc = "sync"
  /\ fails' = IF fails < SyncAlertAfter + SyncAlertSeconds THEN fails + 1 ELSE fails
  /\ alerted' = (alerted \/ AlertDue(fails'))
  /\ pc' = "read"
  /\ UNCHANGED <<server, inbox, mem, disk, kept, joined, queue, line, hold, reported, history, bounds>>

\* The first sync only notes where each room stands.
SyncFirst ==
  /\ pc = "sync" /\ mem.since = None
  /\ mem' = [mem EXCEPT !.since = Standing, !.last = Standing]
  /\ pc' = "save" /\ fails' = 0 /\ alerted' = FALSE
  /\ UNCHANGED <<server, inbox, disk, kept, joined, queue, line, hold, reported, history, bounds>>

SyncOk ==
  /\ pc = "sync" /\ mem.since # None
  /\ mem' = [mem EXCEPT !.since = Standing]
  /\ joined' = [r \in {q \in Room : mem.since[q] < Len(room[q])} |->
                  [from |-> mem.since[r] + 1, upto |-> Len(room[r])]]
  /\ pc' = "rooms" /\ fails' = 0 /\ alerted' = FALSE
  /\ UNCHANGED <<server, inbox, disk, kept, queue, line, hold, reported, history, bounds>>

\* _backfill: what comes before the window is read backwards, an event a page,
\* until the last event known.  It stops short of that after MaxPages pages, or
\* where a request fails (after `pages' of them), or where the history ends.
Closed(r, start, pages) == mem.last[r] > floor[r] /\ start - mem.last[r] <= pages
RanOut(r, start, pages) == mem.last[r] <= floor[r] /\ start - floor[r] <= pages

\* From where the pages read go on, if they did not reach the last event: a
\* history that ends with the last page allowed is taken for one that goes on.
PagesFrom(r, start, pages) ==
  IF ~ RanOut(r, start, pages) THEN start - pages
  ELSE IF start - floor[r] < MaxPages THEN start ELSE floor[r] + 1

\* Fault: the marker itself is taken along.
MarkerToo(r, start, pages) ==
  IF mem.last[r] = 0 THEN start
  ELSE IF Closed(r, start, pages) THEN mem.last[r] ELSE PagesFrom(r, start, pages)

\* From which event on a room is relayed: without a marker, and where the marker
\* is gone, from the start of the window.
Recovered(r, start, pages) ==
  IF mem.last[r] = 0 THEN start
  ELSE IF Closed(r, start, pages) THEN mem.last[r] + 1 ELSE PagesFrom(r, start, pages)

\* Fault: a backfill that recovered something counts as complete.
NothingFound(r, start, pages) == mem.last[r] = 0 \/ Recovered(r, start, pages) = start

\* A gap that is not closed is reported, once for a room and its marker.
Unclosed(r, start, pages) == mem.last[r] = 0 \/ ~ Closed(r, start, pages)

\* Whether anybody hears of a gap is up to _escalate, which logs it at the least.
JoinedRoom(r, pages, heard) ==
  LET from    == joined[r].from
      upto    == joined[r].upto
      limited == upto - from + 1 > Window
      start   == IF limited THEN upto - Window + 1 ELSE from
      first   == IF limited THEN Recovered(r, start, pages) ELSE start
      gap     == limited /\ Unclosed(r, start, pages) /\ <<r, mem.last[r]>> \notin reported
      lost    == IF gap THEN {<<r, e>> : e \in (mem.last[r] + 1) .. (first - 1)} ELSE {}
  IN  /\ pc = "rooms" /\ queue = {} /\ r \in DOMAIN joined
      /\ ~ limited => pages = 0
      /\ queue' = {<<r, e>> : e \in {x \in Pilots(r) : first <= x /\ x <= upto}}
      /\ mem' = [mem EXCEPT !.last[r] = upto]
      /\ reported' = IF gap THEN reported \cup {<<r, mem.last[r]>>} ELSE reported
      /\ heard => gap
      /\ told' = IF heard THEN told \cup lost ELSE told
      /\ unheard' = IF heard THEN unheard ELSE unheard \cup lost
      /\ joined' = [q \in DOMAIN joined \ {r} |-> joined[q]]
      /\ UNCHANGED <<server, inbox, disk, kept, pc, line, outage, hold, relayed, high, base,
                     replies, bounds>>

\* The receipt, and _to_mesh: send.py takes the message, or does not, or takes
\* it after the bridge stopped waiting; in the last two cases the bot says in
\* the room that it was not delivered, if the room can be written to.
Relay(q, how, notice) ==
  /\ pc = "rooms" /\ q \in queue /\ \A p \in queue : q[2] <= p[2]
  /\ queue' = queue \ {q}
  /\ notice => how # "ok"
  /\ relayed' = IF how = "refused" THEN relayed ELSE relayed \cup {q}
  /\ told' = IF notice THEN told \cup {q} ELSE told
  /\ unheard' = IF how = "ok" \/ notice THEN unheard ELSE unheard \cup {q}
  /\ high' = [high EXCEPT ![q[1]] = q[2]]
  /\ room' = IF notice THEN [room EXCEPT ![q[1]] = Append(@, <<"bot", 0>>)] ELSE room
  /\ UNCHANGED <<floor, inbox, mem, disk, kept, pc, joined, line, outage, hold, reported, base,
                 replies, bounds>>

RoomsDone ==
  /\ pc = "rooms" /\ queue = {} /\ DOMAIN joined = {}
  /\ pc' = "save"
  /\ UNCHANGED <<server, inbox, mem, disk, kept, joined, queue, line, outage, hold, reported, history,
                 bounds>>

Save ==
  /\ pc = "save"
  /\ disk' = mem /\ kept' = TRUE
  /\ base' = IF disk.since = None THEN mem.since ELSE base
  /\ pc' = "read"
  /\ UNCHANGED <<server, inbox, mem, joined, queue, line, outage, hold, reported, relayed,
                 told, unheard, high, replies, bounds>>

-----------------------------------------------------------------------------
\* What a read finds of the first k lines while they are rewritten: the line cut may
\* be put together from before and after, and may swallow the end of its own, and
\* with it the line that follows.
Seen(k, cut, glued) ==
  [j \in 1 .. (IF glued THEN k - 1 ELSE k) |-> box[IF glued /\ j > cut THEN j + 1 ELSE j]]

\* poll_inbox: the file is read without its lock, then a line at a time.  While an
\* acknowledgement rewrites it, it may have k lines only and hold one that does not
\* parse; with no more lines than the offset, the offset goes back.
ReadInbox(k, cut, glued) ==
  LET seen == Seen(k, cut, glued) IN
  /\ pc = "read" /\ decodes /\ k <= Len(box)
  /\ cut <= k /\ (glued => 0 < cut /\ cut < k)
  /\ IF k < Len(box) \/ cut > 0 THEN rewrites < MaxRewrites /\ rewrites' = rewrites + 1
     ELSE UNCHANGED rewrites
  /\ shifted' = (shifted \/ glued)
  /\ IF Len(seen) > mem.offset
     THEN /\ line' = [next |-> mem.offset + 1, lines |-> seen, cut |-> cut]
          /\ pc' = "post" /\ UNCHANGED mem
     ELSE /\ mem' = [mem EXCEPT !.offset = Len(seen)]
          /\ pc' = "sync" /\ UNCHANGED line
  /\ UNCHANGED <<server, inbox, disk, kept, joined, queue, outage, hold, reported, events,
                 dropped, halved, old, purges, cuts, crashes>>

\* A file that does not decode, or is cut within a character for as long as it is
\* rewritten, ends the service: nobody catches what readlines() raises.
ReadRaises ==
  /\ pc = "read"
  /\ IF decodes THEN rewrites < MaxRewrites /\ rewrites' = rewrites + 1 ELSE UNCHANGED rewrites
  /\ Down(disk) /\ UNCHANGED <<kept, purges, cuts, crashes>>

\* The line that is next does not parse.
Broken == line.lines[line.next] \in bad \/ line.next = line.cut

\* It is passed over.
SkipBroken ==
  /\ pc = "post" /\ line.next <= Len(line.lines) /\ Broken
  /\ line' = [line EXCEPT !.next = @ + 1]
  /\ halved' = halved \cup {line.lines[line.next]}
  /\ UNCHANGED <<server, inbox, mem, disk, kept, pc, joined, queue, outage, hold, reported, events,
                 dropped, old, shifted, bounds>>

Readable == pc = "post" /\ line.next <= Len(line.lines) /\ ~ Broken

NoRoom ==
  /\ Readable /\ To[line.lines[line.next]] = None
  /\ line' = [line EXCEPT !.next = @ + 1]
  /\ UNCHANGED <<server, inbox, mem, disk, kept, pc, joined, queue, outage, hold, reported, history,
                 bounds>>

\* A transaction id stands for one event of the identity that uses it.
Posted(r, id, i) == \E e \in Events(r) : room[r][e] = <<id, i>>

Put(r, id, i, how) ==
  room' = IF how \in {"ok", "lost"} /\ ~ Posted(r, id, i)
          THEN [room EXCEPT ![r] = Append(@, <<id, i>>)] ELSE room

\* Refused as the agent, a line is tried once more as the bot.
Attempts(r) ==
  {[id |-> IF r \in Tokened THEN "agent" ELSE "bot", how |-> h] :
      h \in IF r \in Tokened THEN Posts \ {"refused"} ELSE Posts}
  \cup (IF r \in Tokened /\ "refused" \in Posts THEN [id : {"bot"}, how : Posts] ELSE {})

\* Fault: the clock starts again with every attempt.
HoldForgets(at, r) == 0

\* The clock of a held line runs in the turns in which /sync works.
HoldTurns(at, r) ==
  IF <<hold.at, hold.room>> # <<at, r>> THEN 0
  ELSE IF fails > 0 THEN hold.turns ELSE hold.turns + 1

\* Fault: given up a turn too late.
ExpiredLate(at, r) == HoldTurns(at, r) > HoldSkip

Expired(at, r) == HoldTurns(at, r) >= HoldSkip

\* Fault: a held line does not hold the cursor.
PastIt(at) == at

\* The cursor stays before the line.
HeldAt(at) == at - 1

PostLine(a) ==
  LET at   == line.next
      i    == line.lines[at]
      r    == To[i]
      held == a.how \in {"lost", "down", "refused"} /\ ~ Expired(at, r)
  IN  /\ Readable /\ r # None /\ a \in Attempts(r)
      /\ Put(r, a.id, i, a.how)
      /\ IF held
         THEN /\ hold' = [at |-> at, room |-> r, turns |-> HoldTurns(at, r),
                          alerted |-> HoldTurns(at, r) > 0
                                      /\ (hold.alerted \/ HoldTurns(at, r) >= HoldAlert)]
              /\ mem' = [mem EXCEPT !.offset = HeldAt(at)]
              /\ disk' = mem' /\ kept' = TRUE /\ pc' = "sync" /\ line' = NoLine
              /\ UNCHANGED dropped
         ELSE /\ hold' = NoHold
              /\ line' = [line EXCEPT !.next = @ + 1]
              /\ dropped' = IF a.how = "ok" THEN dropped ELSE dropped \cup {i}
              /\ UNCHANGED <<mem, disk, kept, pc>>
      /\ UNCHANGED <<floor, inbox, joined, queue, outage, reported, events, halved, old, shifted,
                     bounds>>

InboxDone ==
  /\ pc = "post" /\ line.next > Len(line.lines)
  /\ mem' = [mem EXCEPT !.offset = Len(line.lines)]
  /\ disk' = mem' /\ kept' = TRUE /\ pc' = "sync" /\ line' = NoLine
  /\ UNCHANGED <<server, inbox, joined, queue, outage, hold, reported, history, bounds>>

Step ==
  \/ SyncFail \/ SyncFirst \/ SyncOk
  \/ \E r \in Room, p \in 0 .. MaxPages, heard \in BOOLEAN : JoinedRoom(r, p, heard)
  \/ \E q \in queue, how \in Relays, notice \in BOOLEAN : Relay(q, how, notice)
  \/ RoomsDone \/ Save \/ NoRoom \/ SkipBroken \/ ReadRaises
  \/ \E k \in 0 .. Len(box) : StartUp(k)
  \/ \E k, cut \in 0 .. Len(box), glued \in BOOLEAN : ReadInbox(k, cut, glued)
  \/ \E a \in [id : {"agent", "bot"}, how : Posts] : PostLine(a)
  \/ InboxDone

-----------------------------------------------------------------------------
Init ==
  /\ room = [r \in Room |-> << >>] /\ floor = [r \in Room |-> 0]
  /\ written = 0 /\ box = << >> /\ bad = {} /\ open = FALSE /\ decodes = TRUE
  /\ mem = Fresh /\ disk = Fresh /\ kept = FALSE
  /\ pc = "down" /\ joined = Nowhere /\ queue = {} /\ line = NoLine
  /\ fails = 0 /\ alerted = FALSE /\ hold = NoHold /\ reported = {}
  /\ relayed = {} /\ told = {} /\ unheard = {}
  /\ dropped = {} /\ halved = {} /\ old = {} /\ shifted = FALSE
  /\ high = [r \in Room |-> 0] /\ base = [r \in Room |-> 0]
  /\ purges = 0 /\ rewrites = 0 /\ cuts = 0 /\ crashes = 0

Next ==
  \/ \E r \in Room : PilotPosts(r) \/ Purge(r)
  \/ \E how \in {"whole", "torn", "junk"} : AgentSends(how)
  \/ \E k \in 0 .. Len(box) : Rewrite(k)
  \/ \E lost \in BOOLEAN : Crash(lost)
  \/ Step

Spec == Init /\ [][Next]_vars /\ WF_vars(Step)

-----------------------------------------------------------------------------
\* Every variable stays in its type.
BridgeTypeOK ==
  /\ \A r \in Room : /\ room[r] \in Seq({"pilot", "agent", "bot"} \X (Lines \cup {0}))
                     /\ floor[r] \in 0 .. Len(room[r])
  /\ \A s \in {mem, disk} : /\ s.since = None \/ \A r \in Room : s.since[r] \in 0 .. Len(room[r])
                            /\ s.offset \in 0 .. written
  /\ box \in Seq(1 .. written) /\ Len(box) <= written
  /\ pc \in {"down", "sync", "rooms", "save", "read", "post"}
  /\ \A q \in queue : q[1] \in Room /\ q[2] \in Pilots(q[1])
  /\ fails \in 0 .. SyncAlertAfter + SyncAlertSeconds /\ alerted \in BOOLEAN
  /\ hold.at \in Lines \cup {0} /\ hold.turns \in 0 .. HoldSkip - 1

\* What the pilot writes does not vanish: once the saved cursor is past a message,
\* it is in the mesh, or somebody was told that it is not -- whatever outage,
\* window, page limit, failing page, lost history or restart came before
\* (bridge.py, poll_matrix and _backfill).  Excepted are the messages of which
\* nobody heard because the notice failed as well: the room did not take it
\* (505), or no peer could be told of the gap (268).
NothingVanishes ==
  disk.since # None =>
    \A r \in Room : \A e \in Pilots(r) :
      base[r] < e /\ e <= disk.since[r] => <<r, e>> \in relayed \cup told \cup unheard

\* Message i needs nothing more: it has no room, is in its room, was given up, was
\* there before the bridge, or is in a line that could not be read as a whole.
Handled(i) ==
  \/ To[i] = None \/ Posted(To[i], "agent", i) \/ Posted(To[i], "bot", i)
  \/ i \in dropped \cup old \cup halved \cup bad

\* A reply is not lost by the queue: once the saved offset is past its line, it is
\* in the room of its agent or was given up, rejected (which is logged) or held too
\* long (which is escalated), whatever posts failed and however often the offset
\* went back (bridge.py, poll_inbox, the cursor held on a line).  Excepted are what
\* was in the inbox at a start without a state file (130), and lines that do not
\* parse (522); and once lines were left out by an acknowledgement, or by a read
\* during one, the offset counts others than those that were posted, and nothing is
\* promised.
PostedOrGivenUp ==
  ~ shifted => \A j \in 1 .. disk.offset : j <= Len(box) /\ Handled(box[j])

\* One life of the service relays the messages of a room in their order and each
\* once, windows and recovered pages overlapping as they may (bridge.py, the
\* last event as the marker of the backfill).
RelayedInOrder ==
  [][\A q \in queue \ queue' : q[2] > high[q[1]] \/ pc' = "down"]_vars

\* No line stops the others for ever: while /sync works, however a post fails,
\* the saved offset passes every line that stays in the inbox (bridge.py,
\* _hold_expired), as long as the inbox decodes: readlines() raises otherwise.
QueueMoves ==
  <>[](fails = 0) /\ []decodes =>
    \A n \in Lines : (Len(box) >= n) ~> (disk.offset >= n \/ Len(box) < n)

=============================================================================
