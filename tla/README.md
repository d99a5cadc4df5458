# A verification development of LoomMesh

LoomMesh lets several coding agents, each in a tmux pane, work together on one
machine.  It has no broker and no database: everything is a file under
`$MESH_HOME`, and everything is shared by processes that know nothing of each
other.  That makes the file the unit of interaction and the file-system call
the unit of interleaving, and it is what this development is about.

    tlc -workers 2 -config TicketsRaces.cfg MCTickets      # any run of PROJECT.json
    tlapm TicketsProofs.tla                                # any proof module

## 1. Inventory

| Component | Source | State it keeps | Operations | Interacts by |
|---|---|---|---|---|
| **Ticket dispatcher** | `mesh-api/ticket_dispatcher.py` | none of its own; walks `tickets/<agent>/<state>/` | one tick: promote, park, dispatch, notify, time out | files; tmux pushes; FCM |
| **Ticket store of the API** | `mesh-api/mesh_api/lib/tickets_io.py`, `routes/tickets.py` | ticket files, working directories | create, bulk create, PATCH, DELETE, list | the same files |
| **ticket-complete** | `bus/ticket-complete.py` | the same files | close as done or failed | run by the agent that was pushed the ticket |
| **Bus** | `bus/send.py`, `read.py`, `roster.py` | `inbox-<peer>.jsonl`; `state-<peer>.json`, the cursor | append, four views, ack | an exclusive `flock` of the inbox around append and ack, none around reads |
| **Watcher** | `bus/watcher.sh` | per-peer marker and debounce state | on a change, type the last message into the pane | inotify on the inboxes; tmux |
| **Shell front ends** | `bus/mesh-send.sh`, `mesh-send-checked.sh` | none | send; send and say whether anybody will hear | the bus, the process table |
| **Board, run** | `autonomy/board.py`, `run.py` | append-only event log and its fold; the run file | guarded and unguarded task events; start, bump, end | lock around read-fold-append |
| **Coordinator, orchestrator** | `autonomy/coordinator.py`, `orchestrator.py`, `cli.py` | tick counters | assign, nudge, unassign the stalled, gate, stop | folds of the board taken at different moments |
| **Fable gate** | `autonomy/fable_gate.py` | review verdicts | open, close a gate | the board |
| **Work-drain hook** | `autonomy/hooks/work_drain_stop.py` | a counter per session | refuse or allow an agent to stop | the board |
| **Usage guard, night window** | `autonomy/usage_guard.py`, `night_window.py`, `night_reconcile.py` | last usage, night state | allow or pause work | the orchestrator |
| **Matrix bridge** | `bridges/matrix/bridge.py` | sync token, inbox offset, held replies | poll Matrix, backfill a gap, relay the inbox, escalate | the bus and the homeserver |
| **mesh-api, rest** | `mesh-api/mesh_api/**` | kanban file, devices, caches | messages, inbox, stream, status, contexts | the bus, tmux |
| **Hooks, configuration, bootstrap, dashboard, tools** | `hooks/`, `config_schema/`, `bootstrap.sh`, `dashboard-web/`, `tools/` | none that is shared | checks and installation | — |

What is hard in it, and what makes each component correct:

- **Tickets.**  Three processes move the same files with nothing but
  write-then-unlink and rename.  Correct means: dependencies come first, a
  ticket is never lost, an agent has one ticket at a time, what is over stays
  over, and what waits is eventually started, timed out, and reported.
- **Bus, watcher and hooks.**  An append races an ack that truncates and
  rewrites, and readers take no lock.  Correct means: what `send.py` accepted
  stays in the file, once and in order, and its agent is told of it, at once if
  it sits at its prompt and otherwise when its turn ends or a session starts.
- **Board and coordinator.**  Decisions are taken on a fold that may be old when
  the event they lead to is appended.  Correct means: a task is always on some
  list, a claim holds, a reopened task needs a new review, nobody turns in place
  for ever, and a run that cannot move says so.
- **Run file, night and usage.**  Three processes rewrite one file; hosts report
  or fall silent.  Correct means: the cap bites, the run sleeps outside its
  hours and wakes inside them, and what is not known is never "nothing used".
- **Bridge.**  Outages on either side, and restarts.  Correct means: what is not
  carried over was announced, order is kept, and no line stops the others.

The hazards, each at its line, are in `PROJECT.json`.

## 2. Plan

| Part | Modules | Runs | State |
|---|---|---|---|
| Tickets | `Tickets`, `TicketContract`, `MCTickets` and three proof modules | `races`, `order`, `live` | modelled, checked, proved |
| One inbox | `Inbox`, `InboxReaders` (on top of it), `Mailbox`, `InboxProofs` | `inbox_races`, `inbox_deaths`, `inbox_separator` | modelled, checked, proved |
| Delivery to a session | `Delivery`, `MCDelivery`, `DeliveryProofs` | `delivery` | modelled, checked, proved |
| Board and run | `Board`, `Autonomy` (on top of it), `MCAutonomy`, `AutonomyProofs` | `autonomy_races`, `autonomy_wedge` | modelled, checked, proved |
| Run file, night, usage | `UsageGuard`, `Night` (on top of it), `MCNight`, `NightProofs` | `night` | modelled, checked, proved |
| Matrix bridge | `Bridge`, `MCBridge`, `BridgeProofs` | `bridge_gaps`, `bridge_posts` | modelled, checked, proved |

`Autonomy` extends `Board` and `Night` extends `UsageGuard`: in each case the
first has the actors and the second what they act on.  `Delivery` takes the
inbox as `Inbox` leaves it, as a sequence that readers may find cut short while
an acknowledgement rewrites it, and `Bridge` does the same with its own inbox.
The iteration cap ends a run and is in `Night`; what the ticks in between do is
in `Autonomy`, where the end of a run is one of the chief's acts.

Every invariant and every action property of a passing run is also a theorem.  What
speaks of fairness is only model-checked.  None of the modules declares a RECURSIVE
operator; the depth-first search of `Board` is a recursive function.

A run is kept for each question that holds, and one for the divergence that
costs a message without anybody dying.  The other divergences found by TLC are
described with their part and have no run of their own.

## 3. Tickets

### Modules

| Module | What it is |
|---|---|
| `Tickets` | the store and the three kinds of process; properties and inductive invariants at the end |
| `TicketContract` | the abstract specification: who may start, who may end |
| `MCTickets` | values of the constants for TLC |
| `TicketsProofs` | `IInv` is inductive; types; dependencies first; `Tickets` implements `TicketContract` |
| `TicketsOnce` | one running ticket per agent; no ticket is dispatched twice |
| `TicketsNotLost` | no ticket is lost or becomes unreadable, until a process dies |

### State

| Variable | In the code |
|---|---|
| `store[t][d]` | the file `tickets/<To[t]>/<d>/<t>.json`: absent, torn (created or truncated and not yet written), or the value of its `status` field |
| `work[t]` | the directory `working/<t>/`: absent, in `working/`, or moved to a final state's directory |
| `deps[t]` | the `depends_on` field, fixed at creation |
| `notified`, `overdue` | the `fcm_notified` field of an outcome's file; `started_at` older than `running_timeout_min` |
| `disp` | the dispatcher's place in `tick`: agent `i`, directory `src`, what is left of its listing, the ticket it has read, where it is writing it |
| `api` | the one handler of the API that is being run (they are coroutines without an `await`, so they never overlap), and what its locals hold |
| `comp[a]` | the `ticket-complete.py` of agent `a`, which runs one at a time because an agent is one session |
| `pushes`, `deleted`, `requests`, `crashes` | history: they guard nothing but the bounds, except that an agent closes only a ticket it was pushed |

### Grain

One action is what a process does between two file-system calls that another
process could tell apart.  `Path.write_text` is two of them: `open(..., "w")`
creates or truncates (`Truncate`), and the write follows (`Fill`).  In between,
everyone else finds an empty file, which `json.loads` rejects and which the
code skips; after a crash it stays that way.  When the file was unlinked or
renamed in between, the write goes to an inode nobody can name, and is lost.
So a dispatch is `DStart` (create running), `DFill` (write it), `DUnlink`
(remove armed) and `DPush` (type it into the pane), and a timeout, a promotion
and a parking share `DFill` and `DUnlink`.

| Process | Code | Actions |
|---|---|---|
| dispatcher | `process_blocked` | `DList DRead DReadFails DPromote DStayBlocked DFill DUnlink` |
| | `process_armed`, `dispatch_ticket` | `DGateClosed DGateOpen DList DRead DUnmet DPark DStart DFill DUnlink DPush` |
| | `process_done` | `DList DRead DMark DFill` |
| | `check_timeouts` | `DList DRead DExpire DFill DUnlink` |
| API | `create_ticket` | `ACreate ACreateWrite AFill AScaffold` |
| | `find_ticket` | `AFindMisses AFinds` |
| | `patch_ticket` | `ADecide ARename ARenameFails AWrite AFill` |
| | `delete_ticket` | `AUnlink ARmtree`, or `AWrite AFill ARename AArchive` for a running ticket |
| agent | `ticket-complete.py` | `CFind CWrite CFill CUnlink CArchive` |

The gate of `process_armed` is a choice: `DGateOpen` needs an empty `running/`;
whether the pane shows the idle prompt and the inbox was quiet for long enough
is left open, so both answers are explored whenever the code could give them.
The dispatcher's listing of a directory is taken once (`glob` is collected by
`sorted`, or reads a directory of a handful of entries) and what it lists may be
gone when it is read (`DReadFails`).

### Runs

All bounds are in the `.cfg` files.  `MaxRequests` and `MaxCrashes` are the only
ones in the model; nothing else grows (`pushes` is bounded by the requests that
can re-create an armed file).

| Run | Instance | Shows |
|---|---|---|
| `races` | 2 tickets of 1 agent, create, arm and delete, 3 requests, ticket 1 may time out | `IInv` holds (the proofs' invariant), nobody runs two tickets, no ticket vanishes, and one at rest can be read |
| `order` | 3 tickets of 2 agents, the dispatcher drives one of them, ticket 2 was done before, all requests, a timeout, a crash of any process | dependencies first, across agents; `TicketContract` is implemented |
| `live` | 2 tickets, creation only, timeouts, failing pushes, fairness | one dispatch, no way back, and what waits is started, ended, notified |

Two tickets are enough for what a dependency, a shared agent and an old listing
can do, since every property is about one ticket or a pair; the third of `order`
is the one that was done before.  Three requests are enough to create two
tickets and change one of them, or to create one and change it twice, which is
what a stale path needs.  One crash is enough because a second one finds the
first one's remains only if they persist, and those (torn and duplicate files)
are themselves reachable by one.

`DispatchedOnce` and `OverIsOver` are checked without PATCH, and
`NoTicketVanishes` without crashes, because with them they are false: that is
what is described next.

**Where the code and its documents disagree.**  TLC found each of these with a
sentence of the documents as the property; no run is kept for them.

- `check_timeouts` writes `failed/` from what it read in `running/`, so a ticket
  that its agent closes in between ends up in `done/` and in `failed/`
  (`ticket_dispatcher.py:491`, against `docs/components/tickets.md:55`, "Each
  ticket lives in exactly one of:").
- A PATCH of the prompt writes the path it found: it creates the armed file again
  when the dispatcher has just unlinked it, and the ticket runs twice
  (`tickets_io.py:224`, against `README.md:264`, "always trusts the
  most-advanced state on disk").
- A ticket in no directory: a PATCH died between `open` and `write`, another
  renamed the parked copy over its remains, and the dispatcher unlinked that
  (`ticket_dispatcher.py:452`).
- A dispatch that dies inside `write_text` leaves an empty running file that every
  scan skips: the ticket never times out and blocks its agent
  (`ticket_dispatcher.py:473`, against `docs/components/tickets.md:110`).
- The `done/` of agents outside the dispatcher's configuration do not count
  (`ticket_dispatcher.py:227`, against `docs/components/tickets.md:124`).
- A timeout leaves the working directory in `working/` (`DExpire` leaves `work`
  alone, against `docs/components/tickets.md:96`).
- PATCH and DELETE go by the status field where it and the directory disagree
  (`AFinds`, against `docs/components/tickets.md:71`).

### Fairness

`FairSpec` assumes what the system does by itself.  The daemon loop catches
every exception and ticks for ever (`ticket_dispatcher.py:592`): weak fairness
of `Dispatcher`.  An agent that has nothing running is found idle again and
again: strong fairness of `DGateOpen`, which is the code's own assumption, since
the inbox guard is bypassed once a ticket has waited for `idle_min_minutes`
(line 433); without it, an agent that talks for ever is never given a ticket.
A handler and a `ticket-complete.py` that have begun go on: weak fairness of
`Api` and of each `Completer(a)`.  Time passes: weak fairness of `GrowOld`.
Nobody has to make a request, no agent has to close a ticket and no process has
to crash.

### Proofs

Everything is proved for any number of tickets and agents, any configuration,
any `depends_on`, and any number of requests and timeouts, and of crashes except
where a bullet says otherwise; the assumptions are the named ones at the head of `Tickets` (ids are positive
integers, the configuration is a non-empty sequence of agents, and so on).

- `Invariant`: `Spec => []IInv`.  `DependenciesFirst` alone is not inductive: it
  says nothing of a process that is about to write.  `IInv` adds what each
  process may rely on about the ticket it holds (`DispatcherInv`, `ApiInv`,
  `CompleterInv`): a ticket that is being expired or closed has started, the
  API's writes go to the directories of tickets that have not started, except
  those of a DELETE of a running one, and every process unlinks the running file
  only after the other one is there.  That in turn needs `StatusFits`: what the
  API does is decided by the status field, so the field must never claim a
  waiting state for a file in `running/`, nor the other way round.
- `TypeCorrect`, `DependenciesComeFirst` follow from it.
- `StoreKeepsContract`: with `started` the tickets with a file in `running/` or
  a final directory and `outcome` the final directories they are in, every step
  is a `Start`, an `End`, a `Plan` or a stutter.  The lemmas say what each kind of
  step does to those two.
- `OneAtATime`: the gate's look at `running/` stays true until the dispatcher
  itself writes there, because no one else creates a readable running file:
  ticket-complete and DELETE only act on one that exists.  That is `GateHolds`.

- `OnceEach`: `DispatchedOnce`, when the requests are creations, PATCHes to draft
  and DELETEs and no process dies.  The invariant is `OnceInv`: a ticket waits in
  one directory, and in none once it has started, except while the dispatcher is
  between its write and its unlink (`WaitsOnce`), and what was typed has started
  (`TypedOnce`).  The conditions are those of the code: a PATCH of the prompt or to
  armed writes the armed file again when the dispatcher has just unlinked it, and
  a dispatcher that dies between writing into `running/` and unlinking leaves the
  armed file behind.
- `NeverAgain`: `OverIsOver`, for creations and PATCHes to draft, from the same
  invariant.  A DELETE is excluded because it rewrites the running file that
  ticket-complete has just removed.
- `NothingIsLost`: `NoTicketVanishes` holds until a process dies, for all requests.
  What could lose a ticket is the unlink that ends a promotion or a park, when the
  API has moved what the dispatcher wrote before it.  `StaysInv` says why it cannot.
  An armed file is a promise that the dependencies are done (`ArmedIsReady`), since
  both creation and PATCH look first and an outcome is never taken back; so the API
  parks no armed ticket (`NoArmedIsParked`), and what was promoted is in `armed/`
  or in `draft/` (`PromotedStays`).  The dispatcher parks only tickets that depend
  on an agent outside its configuration, which it never promotes; no request gets
  at the copy in `blocked/` before the armed one is unlinked, because
  `find_ticket` tries `draft/` and `armed/` first (`ForeignStays`).
- `EveryTicketReadable`: `NoTicketUnreadable` (it says itself that nothing has
  died), from `StaysInv` and `WrittenInv`: a torn file has a writer that is about to
  fill it (`TornIsWritten`).  There is one exception.  A DELETE may rename a running
  file into `cancelled/` that the dispatcher has truncated, and the rest of that
  write goes nowhere; but it has read a running file before, which the dispatcher
  must have missed at its gate, so this is a second dispatch and the first one has
  left an outcome (`RunsAreKnown`).

Only model-checked: the liveness properties, which the prover has no rules for.

### Left out

File-system errors other than absence (a full disk makes `write_text` fail like
a crash, but inside a tick that then goes on with the next one), colliding
ticket ids, two dispatchers at once, tickets written by hand, and the contents
of prompts and summaries.  A bulk creation is a series of creations by the same
handler.  The queue-position branch of PATCH is unreachable, since no code puts a
file into `queued/`.

## 4. One inbox

`Inbox` is the file `inbox-<agent>.jsonl` with everybody who writes it: each
message is a `send.py` of its own, and each acknowledgement a `read.py --ack`,
run by the agent or by the API for it.  `Mailbox` is what they promise together.
`InboxReaders` adds those who read it without the lock.  `InboxProofs` holds the
proofs.  Both are checked directly, with model values for messages and processes.

| Variable | In the code |
|---|---|
| `file`, `open` | the lines of the file; the last one has no newline |
| `lock` | the holder of the `flock` |
| `snd[m]` | how far `main` of the `send.py` is: validated, holding the lock, flushed, reported |
| `ack[a]` | how far `ack_inbox` is, the ids it was given, and `msgs`, what it read and will write back (of one that died: what it had not written back) |
| `rd[r]` | a run of `load_inbox`: its offset in the file, what it has of the line it is in, `msgs`; history: whether a rewrite tore the read |
| `acks`, `crashes` | history, for the bounds |

A line is a message with its `acked` field, or it is damaged: cut short between
two characters (it does not parse) or within one (the file does not decode).
`SAppend` is one step, because the line is flushed in one `write` under the lock;
that it may be written only in part is `SCut`, after which the process is gone.
`ATruncate` and `AFlush` are separate steps: `truncate()` acts at once, the lines
go out in buffers of a few kilobytes whose ends fall anywhere, and nothing keeps
a reader from looking in between.

A reader (`InboxReaders`) gets the file in chunks of some kilobytes that end anywhere,
each of the file as it is then, at the byte offset where the one before ended.  If
the file is truncated in between, the read waits for nothing: it goes on in what is
written back, once that is long enough, or ends.  An acknowledgement only ever makes
a line one byte shorter (`false` becomes `true`), so its offset then falls on the same
place, or further on, and maybe in the middle of a line (`Lands`); the piece it has of
an old line is joined to what follows there, and usually does not parse.  Such a read is
`torn` and may miss messages; that the joined text parses after all (two lines whose
common parts have the same length) is a choice of the model, `odd`.

`Loaded` and `AckLoaded` are the two ways the code takes a file apart, and they
are not the same: `load_inbox` iterates over the file, `ack_inbox` calls
`splitlines()`, which knows more line ends.  `Split` are the messages for which
that matters.

| Run | Instance | Shows |
|---|---|---|
| `inbox_races` | 3 messages, 2 acknowledgers, 2 acknowledgements of any ids, a reader that reads again and again | `InboxInv`; `Mailbox` is implemented; a read keeps the order of the mailbox, and is without a gap unless it is torn |
| `inbox_deaths` | 3 messages, 1 acknowledger; two senders and the acknowledger may die, two of them do | a death costs at most one message, besides what a `read.py` had not written back, while the file decodes; nobody waits for the dead |
| `inbox_separator` | a body with a Unicode line separator | the next acknowledgement deletes the message |

Three messages are what the interesting case needs: one that is damaged, one
glued to it, one behind.  A third acknowledgement would find nothing the second
does not, since between two of them the file is whole again or stays damaged.

*Fairness.*  A process that has begun goes on (weak fairness of `Sender(m)` and
`AckStep(a)`), and one that waits for the lock gets it if it is free again and
again (strong fairness of `SLock`, `ALock`): the kernel queues the waiters of an
`flock`.  A death releases the lock because the descriptor is closed.

*A divergence.*  `docs/components/bus.md:259` says "One bad record must never blind an
agent to the rest of its inbox".  The code keeps to it for a line that does not parse,
but a line cut within a character (a sender that dies, or finds the disk full, in the
middle of its write) makes the decoder raise in `load_inbox` (`read.py:69`) and in
`ack_inbox`, for the whole file, until somebody repairs it by hand.  `DeathCostsOne` has
this case as its hypothesis (`Decodes(Box)`), without which it is violated.

*Proofs.*  `InboxInvariant`, `FileIsAMailbox` and `OrderForReaders`, for any number of messages,
acknowledgements and readers, assume `Mortal = {}` and `Split = {}`.  Neither can be
dropped: `inbox_separator` shows it of the second, and a sender that dies within
its write leaves a torn line to which the next message is glued.  `KeepsMail` is not a matter of the file alone:
while an acknowledgement is writing, the file is short and the mailbox is in
`msgs`.  So `Box` is the holder's copy during a rewrite and the file otherwise,
and the invariant says that only the holder of the lock is between its lock and
its unlock (`Exclusive`), that a copy not yet written is the file marked
(`CopyInv`), that during the write the file is a first part of the copy
(`FileInv`), and which messages it has (`BoxInv`).  Every step but three leaves
`Box` alone; those are `Deliver` and `Acknowledge` of the mailbox, and the report
of the sender, which needs `BoxInv` to be a `Confirm`.

`OrderForReaders` (`ReadersKeepOrder`) rests on two things: the lines of the mailbox only
ever grow in number, in their place (`BoxGrows`, from `FileIsAMailbox`), and `file`, at any
moment of a rewrite, has its whole lines where the mailbox has them (`WholeLines`).  So
what a reader finds is always further on than what it has, also after its offset was
moved; its invariant says where in the mailbox the messages found are, and that they
lie before the reader's place.

`DeathsAreCounted` (`DeathCostsOne`) lets anybody die, senders and acknowledgements,
at any step and in the middle of a line or of a character; it assumes `Split = {}`
alone.  Its invariant `DeathInv` keeps of `InboxInv` the types and the lock, and
adds that a line without an end is never a message (`OpenInv`) and the count
(`CostInv`): the messages appended and gone that no dead `read.py` had in its hands, and
one more if a torn line waits for the next append, are at most the dead.
A death in the middle of a line pays for the torn line, and the append that
continues the line turns that debt into a lost message; the lines that are left out
by an acknowledgement held no message; and of an acknowledgement that dies the file
keeps what it had written back.

*Left out.*  The refusals of `send.py`, which write nothing; the cursor file and
the views that use it (in `Delivery`); a cut that falls exactly
before the newline, which would leave a line that parses until it is glued to the
next; readers beside processes that die (what they may find is then in `file`, and
`DeathCostsOne` counts it); editing the file by hand.

## 5. Delivery to a session

`Delivery` is how a message in the file becomes a message in a context: the
watcher, the SessionStart hook and the Stop hook, with one agent, its inbox and
its session.

| Variable | In the code |
|---|---|
| `inbox`, `stamp`, `acked`, `rewriting` | the file; `ts` of a message; its `acked` field; an `ack_inbox` between truncate and close |
| `cursor` | `last_read` of `state-<agent>.json` |
| `start` | `session_start.py`: at rest, about to save, or with the digest still in its buffer; what was unread, and what of it is shown |
| `stop`, `marker` | `mesh-inbox-drain-stop.py`: at rest, with its look at the inbox, or with the block to print; `stop-drain-<agent>.json` |
| `events`, `watch`, `pushed` | inotify events not handled; how far `handle_event` is; `.watcher-pushed-<agent>` |
| `pane` | the session is gone, at its prompt, or in a turn |
| `seen` | history: told of by anything |
| `excused` | history: passed without a word, for one of the reasons below |
| `steady` | history: since the last append the prompt is idle and looks it, the watcher lives and no push failed |

| Code | Actions |
|---|---|
| `send.py`, `read.py --ack` | `Deliver`, `AckBegin AckEnd` |
| `session_start.py` | `SessionStart SaveCursor Digest`, cut short by `SessionEnds` |
| `mesh-inbox-drain-stop.py` | `StopRead StopMark StopBlock`, cut short by `SessionEnds` |
| `watcher.sh` | `Handle Look Type Mark`, cut short by `WatcherDies` |

Every reader takes one of `Views`: the file, or a first part of it during a
rewrite, at one instant (section 4 has a reader that takes the file in pieces).
The watcher's look at the pane is a guess that may be wrong either way
(`Look(misread)`), and it types later: the session may have started a turn, ended
one or gone away in between, the keys may not get there, and may get there and be
reported as failed (`Type(sent, ok)`).  A save of the cursor may fail, as may the
write of the marker, which the hooks pass over (`except: pass`).

`session_start.py` prints the digest at line 233 into the buffer of a pipe, saves
the cursor at 239 and exits, which flushes: `SaveCursor` comes before `Digest`.
The cursor moves over all that was unread (239) while `MAX_INJECTED` are shown
(195); of the others the digest gives the number.  And `send.py` takes the time
(229) before it has the lock (255), so that two sends of one sender may be in the
file in the other order than their times, the later line behind a cursor already
moved.  What is passed in one of these three ways, and the block of a Stop hook
that died between count and print, is in `excused`: the code loses sight of these
messages (they stay unacknowledged in the file, where `read.py --unacked` lists
them), and the properties say that it does so with no others.  This differs from
the documentation: "The cursor advances only for the messages it actually
injected" (`docs/components/hooks.md:90`), and "a message is never lost, only
delayed" (`docs/components/hooks.md:180`).

`CursorAccounts` is about the cursor (a time of one second and the ids seen in
it); `TurnEndsInformed` and `NeverWedged` pull the Stop hook's count in opposite
directions, the second unless the marker cannot be written again and again, in
which case the code does block for ever; `SeenAtLast` composes all three paths, for
sessions that do not go for ever within their SessionStart hook;
`PushedAtThePrompt` is the watcher's own promise, which the code keeps with one
try for each event: a misread prompt or a failed push is not tried again
(`watcher.sh:306`, `328`).  *Bounds*: two messages of one sender in two seconds give
the same second, different seconds, a late one, a burst, and a message during each
step of another, with one shown per start; `MaxBlocks` 1 stands for `MAX_BLOCKS` 2
and `MaxInjected` 1 for 10 because only reaching them matters; one pending event
stands for several, as each is handled alike.  *Fairness*: hooks that were called
go on, the watcher's loop runs, an acknowledgement ends.  Nobody has to prompt,
start or end a session; `SeenAtLast` is for sessions that are started again and
again, which is when `docs/components/hooks.md` promises it.

*Proofs.*  `DeliveryProofs` proves `DeliveryTypes` (`DeliveryTypeOK`),
`CursorPassesNothing` (`CursorAccounts`) and `TurnsEndInformed` (`TurnEndsInformed`)
for any messages, senders, times and limits, from `DeliveryAssumption`.
`CursorAccounts` is not inductive: a session that is about to save its cursor can
pass a message that was written after it looked.  `UnseenInv` therefore says of
a message that is neither told nor excused that it lies behind the cursor and is
also among, or not before, what `start` is about to move the cursor over, which is
true of what is delivered later because the times of a sender follow the file but
for late ones (`OrderInv`), and after the move because the cursor lands on the
newest of `start.new` (`NewestExists`, by well-foundedness), whose second it names
in full.  `CursorInv` (a cursor stands on a message of its sender) keeps it at or
before what comes next.  `TurnEndsInformed` needs that what the marker counts was
told or is about to be (`MarkerInv`, with `PhaseInv`: a session has one hook at
work), and `MaxBlocks` positive, since with 0 the hook would give up without a
word.  Only checked: `NeverWedged`, `SeenAtLast`, `PushedAtThePrompt`, which are
about fairness.

Other limits.  The API's list of unread messages compares times only and so hides
siblings of one second (`mesh-api/mesh_api/lib/mesh_io.py:49`).
`mesh-send-checked.sh` looks for a field that `bridge.py` does not write.  `Old` is
empty in the run: the messages are younger than `RECENCY_WINDOW`.

## 6. Board and run

`Board` is `board.py`: the log is modelled by its fold, because every event
concerns one task and every mutation is one append under the lock.  The guarded
mutations (`assign_if_free`, `claim_if_available`, `reopen`, `abandon`,
`unassign`) decide on a fold made under that lock; the others append whatever has
become of the task.  `torn` is the one thing a fold does not show: the last line
has no newline, and the next event is glued to it and lost, although its writer
believes otherwise.

`Autonomy` has the actors, each with what it believes:

| Actor | Variable | Actions |
|---|---|---|
| participant | `hand[a]`, `dead` | `Mine Claim Report Die` |
| its Stop hook | `plan[a]`, `marker[a]` | `HookStop HookBlock` (one append for each task it read) |
| reviewer | `eye[r]` | `PickReview GiveReview` |
| chief | | `Judge`, `JudgeRun`, `EndConverged` |
| tick | `tick`, `ticks`, `halted` | `TickStart TickPre TickStall TickReady TickAssign TickSituation TickActs TickGate TickReopen` |

A tick folds the board anew for nearly every question it asks, so each question
is an action and others act in between.  `tick.pre` holds what the first fold said
of the stalled tasks, and the unassignments that follow are decided on that.
Which of the eligible agents `assign_ready` prefers, and which Fable reviews, is
any choice.  `claimant`, `owed` and `blind` are history.  Events that concern no task
(`board.log`) are left out: one that a torn line swallows is as if the line had not
been torn.

`autonomy_races` (one task, two participants of whom one may die, a Fable and the
chief, all verdicts a hook may get) asks what one task may
suffer; two agents are the owner and the one it is given to.  `autonomy_wedge`
(two tasks in a cycle, created in any order, abandoned, rewired) asks what a run
may look like when nothing moves; a cycle of two, a missing and an abandoned
dependency are all kinds of dependency fault.  One reassignment, one stuck tick
and one stale turn stand for the configured limits, of which only being reached
matters.  *Fairness*: the loop that calls the tick goes on (weak fairness of
`Tick`) and silence is noticed (`FallQuiet`); participants, reviewers and the chief
owe nothing, which is why `DrainGivesUp` is conditional on turns that do end; it names
unknown usage as its exception (`blind`).  An assignment by hand is not in the run (a
chief who goes on giving the task to a dead participant keeps it there, and no stall
detection is promised to outrun that), but in the theorems.

*Proofs.*  `AutonomyProofs` proves `AutonomyTypes`, `NothingBetweenTheLists`
(`OfferedOrOwned`), `ClaimsAreKept` (`ClaimantOwns`) and `GateNeedsNewPass`
(`ReopenedNeedsNewPass`) for any tasks, participants, Fables, dependencies and limits,
from `AutonomyAssumption`.  Everything an actor does to the board is one event on
one task, so `EventHolds` says once what an event may do, and `ConservativeHolds`
covers those that leave owner, reassignments and review alone.  Three parts are
not among the properties.  `PreInv` ties what a tick read to the board it acts on:
a task is listed once, and one that was to be taken away may still be, because
only the tick counts reassignments; without it the type of `reassignments` is lost
between `TickPre` and `TickStall`.  `ClaimInv` adds to `ClaimantOwns` that an id not on the
board has no claimant, so creating it cannot contradict one.  `OwedInv` says that
what the gate reopened is unpassed until a Fable passes it, whatever a stale
reviewer or participant reports.  The properties about fairness are only checked.

`WedgeIsShown` (`NoSilentWedge`) is about `next_actions` and `dependency_faults` and
also uses `TaskAssumption`: numbers stand for the ids in the order `sorted` gives
them, and there are finitely many, or the search need not end.  If nothing is open, offered or in review and nothing is
blocked, every unfinished task has an unfinished dependency on the board.  While the
search then finds no cycle it only goes deeper: after k steps its stack holds k
different unfinished tasks and everything it has seen (`Deep`, `GoesDeeper`), and it
takes more steps than there are tasks.  In place of an induction over the steps,
`Reaches` takes the least one that fails; `SearchExists` says that the recursion
defines a function, so that what `dependency_faults` CHOOSEs satisfies it.

Known divergences and limits.

- Silence means death to the tick (`docs/components/autonomy.md:181`), but the
  Stop hook logs nothing when it prolongs a turn: a living participant that reports
  nothing for `stall_after_seconds` loses its task.
- A late report revives a task that is done or abandoned (`board.py:168`).
- A torn line takes the next event with it (`board.py:121`, `97-106`).
- A task resubmitted after a Fable's pass keeps that pass (`fable_gate.py:64-80`),
  and a pass that lands between the gate's look and the reopening is undone
  (`orchestrator.py:193`).
- The search for cycles skips nodes it has left, and so may not name every task of
  two cycles that share one (`board.py:398-412`).
- Unknown usage removes the marker of the Stop hook, so turns without progress are
  counted from zero (`work_drain_stop.py:215-222`).  Where it is found unknown again and
  again, with known usage in between, the backstop "hasn't moved for `MAX_STALE` turns, it
  escalates" (`docs/components/autonomy.md:71-73`) never bites: nothing happens on the
  board, and turns are prolonged for ever.
- A fresh task in progress without an owner counts as stuck.

## 7. Run file, night and usage

`UsageGuard` is the pure part: what a probe leaves in `<host>.json`, which files
count (`Stale Missing Idle Fresh`), the aggregation within the window of most hosts,
and the verdict.  A window is a number and tokens are small integers; thresholds
are given as the products the code forms.

`Night` has `run.json` and its writers.  A rewriting is three steps: `Lock` (take
`.run.lock`, read, and make of it what is to be written), `Write` (open
`run.json.tmp`, which empties it, and write) and `Replace` (`os.replace`).  A start
takes the last two without the lock (`run.py:48-61`), and the tick and the
reconciler read without it.  `run.json.tmp` is one file for all, so a start may meet
another writing there: then either may overwrite or spoil what the other wrote, the
second renaming fails (`ReplaceFails`, the process ends there, and what it wrote may
still get into the renamed file), and `run.json` may be unreadable, which
`status` takes for no run.  The history `clashed` notes that this has happened.

| Process | Code | Actions |
|---|---|---|
| tick | `orchestrator.py:126-142` | `Tick Lock Write Bump`, then `Lock Write End` if it was one too many |
| reconciler | `night_reconcile.py`, `night_window.py` | `Wake Look`, then `Lock Write End` or `Lock Write Resume Kick KicksDone`, then `Feed`; `Down` |
| people | `cli.py:82-105` | `Start Write StartEnds`; `ChiefEnds Write End` |
| each of them | `run.py:117-124` | `ReplaceFails` in the place of its renaming |
| hosts | `usage_guard.py` | `HostReports HostUses` |

`through` counts the ticks that the cap let pass since the run was started and
`over` notes since when the whole fleet has been past the kill level; both are
history.  `CapBites` compares what happened with what the file says, `NeverBlind`
what is known with what is so.  `ClosedIsQuiet` and `WakesAgain` are about the two
edges, with a machine that may be down when they come.

*Bounds*: a day of three ticks of the clock with a window past midnight, or a
configuration that cannot be read; one iteration allowed; one participant; two
hosts with a burn rate, so that a projection can breach before the tokens do; a
bounded number of accidents (`MaxEvents`), which `Happens` counts: a start, an end by
hand, a power cut, a report, a token.  The clock stops at `MaxNow`, or before, after
which the window stays as it is, and that is where the liveness properties bite.
*Fairness*: the timer keeps calling the reconciler (weak fairness of `PassStep` and
`Feed`), the reconciler gets the lock it waits for (strong fairness of its `Lock`, as
the kernel queues the waiters), and as long as any process is at a writing one of
them goes on.

*Proofs.*  `NightProofs` proves `RunFileIsLocked` (`NightTypeOK`) and
`CapAlwaysBites` (`CapBites`) for any participants, hosts, configurations, usage
and limits, from `NightAssumption`.  `CapBites` alone says nothing of the file, so
`NightInv` adds `Counted`: the ticks let through are in the counter of `run.json`,
and also in the counter that a holder of the lock is about to write.  The
second half is why a start that takes no lock does no harm to the cap by being
overwritten: it sets the count of ticks to none, and whatever an older writer then
writes over it is no less than that.  `Exclusive` is needed because an increment is
lost when two writers read the same counter, and `Alone` because what is renamed
must be what was written: that holds until a start meets another writing in
`run.json.tmp`, which is the exception that `CapBites` names (`clashed`).

`SilenceIsNotConsent` (`NeverBlind`) needs an invariant of its own, `FilesTell`: since
the fleet passed the kill level there are amounts `u`, one for each host, that add up
to that level and that no host's use has fallen below since, and a host that has
filed after that moment has filed no less than its `u`, in the window that is still
running (a new window clears the history).  So when nobody is stale or missing every
host's last filing is younger than the breach, all of them lie in one window, and
their sum is a breach in `evaluate`.  It is stated under `Expected = Host`: a host that
is not in `usage_sources` and has never filed is invisible to the guard, and its use
with it.  That greater summands give a greater sum is `SumGrows`: the folds of the
library are recursive functions, and in place of an induction the lemma takes a
smallest subset of the hosts that violates it (`MinimalSubset`, from the library's
`WFMin`) and removes one element.  The two liveness properties are only model-checked.

Known divergences and limits.

- Participants beyond `MAX_KICKS` are "deferred to the next pass"
  (`night_reconcile.py:228`), but the next pass finds the run active and nudges
  nobody (`221-240`); so does one after a power cut between resume and nudges.
- A run that ends between the reconciler's look and its pause is given the night's
  reason, and resumed at the next opening (`194-197`).
- `loom run end` without a reason leaves the night's reason in the file.
- A `start` can be overwritten by a rewriting that read before it (`run.py:48`).
- A `start` that meets a rewriting in `run.json.tmp` (`run.py:119`) can leave a
  `run.json` that does not parse: to all who read it there is no run, and who
  rewrites it next begins with a counter of nothing and without the guardrails, so
  that the cap no longer holds (found by the checker; `CapBites` names it).
- Aggregation takes the window most hosts are in, so a breach reported by a
  minority in another window is not seen while the others are fresh
  (`usage_guard.py:157-167`); in `NeverBlind` all hosts share the clock of the window.
- One run root; the notices and the `Escape` typed into panes change no state here.

## 8. Matrix bridge

`Bridge` is the one loop of `bridge.py`, with the homeserver, the bus and restarts
as its surroundings.

| Variable | In the code |
|---|---|
| `room[r]`, `floor[r]` | the timeline of a room, and how much of it the server no longer has |
| `written`, `box`, `bad`, `open`, `decodes` | messages sent to the pilot; the lines of its inbox; those that do not parse; whether the last one has an end; whether the file decodes |
| `mem`, `disk`, `kept` | `self.state` (`since`, `last_events`, `inbox_offset`), the state file, and whether there is one |
| `pc`, `joined`, `queue`, `line` | the loop: rooms of the response under way, events about to be relayed, the lines read and the one that is next |
| `fails`, `alerted`, `hold`, `reported` | `sync_fails`, `sync_alerted`, the held line with its clock, `gap_reported` |
| `relayed`, `told`, `unheard`, `dropped`, `halved`, `old`, `shifted`, `high`, `base` | history |

| Code | Actions |
|---|---|
| `_load_state`, `_save_state` | `StartUp Crash Save` |
| `poll_matrix` | `SyncFail SyncFirst SyncOk JoinedRoom Relay RoomsDone` |
| `_backfill`, `_report_gap` | within `JoinedRoom`: `Closed RanOut PagesFrom Recovered Unclosed` |
| `poll_inbox`, `_post_with_fallback`, `_hold_expired` | `ReadInbox ReadRaises SkipBroken NoRoom PostLine InboxDone` |
| `send.py` and `ack_inbox`, on the pilot's inbox | `AgentSends Rewrite` |

A request may fail before or after it had its effect (`Posts`, `Relays`), and so may
the notice that says so.  The backfill reads an event a page and stops after `pages`
of them, because of the limit, a failure or the end of the history.  A turn of the
loop is the unit in which outages and holds are timed.

What is `told` was told to somebody: a message in the room, or an escalation that a
peer took.  Where the notice of a failed relay fails as well (`505`), or an escalation
ends in the log because no peer could be reached (`268`), the events are `unheard`; for
a gap that is final, since `gap_reported` is set first (`479`).

The inbox is damaged by deaths and by reading it without its lock.  `AgentSends`
may leave a line without an end, which swallows the next one (`bad`), or cut within a
character (`decodes` is then false).  `Rewrite` drops the lines that do not parse and
may die on the way.  `ReadInbox` may find the file short while it is rewritten, with one
line put together from before and after, which may swallow the next; `ReadRaises` is
the decoder's exception, which nobody catches.  A start without a state file begins
behind the lines that are there (`StartUp`, `old`).

`bridge_gaps`: one room, three messages, a window of one event, two pages, a history
that is lost once, a restart, and every notice may fail.  That gives gaps that are
closed, too wide, cut off by a failure and without a marker.  `bridge_posts`: a room
whose agent has a token (a post has both identities to fail with), a message of the
room and one of nobody's room; every way a post may end, an outage, a death of who
writes the inbox, a read during a rewrite, a restart with or without the state file.
*Fairness*: the loop goes on (weak fairness of `Step`, as `systemd` restarts the
service); `QueueMoves` assumes that `/sync` works in the end, because the clock of a
held line stands still while it does not, and that the inbox decodes.

*Proofs.*  `BridgeProofs` proves `BridgeTypes`, `PilotNeverIgnored` (`NothingVanishes`),
`RepliesNeverLost` (`PostedOrGivenUp`) and `RelaysAreOrdered` (`RelayedInOrder`) for any
rooms, lines, window, page limit and deadlines, from `BridgeAssumption`.
`NothingVanishes` speaks of the saved cursor, which is written from the one in memory,
and that one has passed a whole response before its first event is relayed.  So
`AccountInv` says of every message behind the cursor in memory that it is accounted for
(relayed, told or `unheard`), or that the response under way still brings it: its room is
in `joined`, or it is in `queue`.  Emptying both is what allows the save.  `JoinedRoom`
must then account for the gap it leaves in one step, which is where the cases of the
backfill are (closed, out of pages, without a marker), and a restart falls back to the
saved state, for which the first half holds by itself.  `RoomsInv` orders the marks
(`high`, the last event, the events queued, the rest of the response), and is the whole
of `RelayedInOrder`.  `PostInv` says that, as long as no line was left out
(`~ shifted`), the lines read are those of the inbox, and that both offsets and the next
line lie in `Passed`, the numbers below which every line needs nothing more; `Passed`
only grows while the inbox does.  `queue` is a set that is relayed oldest first.
`QueueMoves` is about fairness and only checked.

Known divergences and limits.

- A message may be neither relayed nor announced to anybody, when its notice fails
  too (`unheard`, above): only the log has it.
- A post that is rejected is logged and passed (`550-557`); only a held line that
  expires is escalated.  `dropped` has both.
- A first start, or one with an empty or unreadable state file, passes all the replies
  that are in the inbox (`130-135`).  A power cut may leave such a file: it is replaced
  as a whole, without `fsync`.
- An acknowledgement that leaves out a damaged line moves the lines behind it up, and
  the offset, a line number, then passes a reply that was never posted (`516`).
  `PostedOrGivenUp` promises nothing once that happened (`shifted`).
- A line whose writer died swallows the next one, and both are skipped (`522-525`).
- An inbox that does not decode raises at `513`: the service restarts, and raises
  again, for ever, and posts nothing; without a state file it cannot even start (`134`).
- A line put together from before and after a rewrite does not parse and is passed for
  good (`524`), so the inbox is not "append-only" (`bridge.py:554`), since `read.py --ack`
  rewrites it.  That it parses, because the two halves happen to fit, is not modelled.
- A restart between relay and save relays again: "nothing is double-relayed across
  restarts" (`docs/components/matrix-bridge.md`, Tradeoffs) holds within one life
  only, which is what `RelayedInOrder` says.
- A retry posts under the same transaction id, but as the bot it is another event: a
  line whose post as the agent succeeded unheard, and is then refused, is posted twice.
- The deadline of a held line starts again at a restart.
- A line given up is announced as "NOT posted" although the answer only was lost; a
  relay that times out is announced as not delivered although `send.py` may have
  delivered it.
- A history that ends with the last page allowed is taken for one that goes on, and
  its undated events are relayed (`PagesFrom`, `bridge.py:437` before `439`).
- A first limited sync without a marker is not backfilled, by intent, and reported.
- Pages end where the window begins, so that an event in both, which `seen`
  (`421`) removes, does not occur.

## 9. Not modelled

- `mesh-send.sh` and `mesh-send-checked.sh`: the first calls `send.py`, the second then
  looks at the process table to word its answer; neither changes anything else.
- The message routes of the API: readers of the inboxes, and wrappers that run `send.py`
  and `read.py`, which are modelled.  Its status, contexts, summaries, graph and stream:
  derived views, parsing and formatting.
- The kanban: a read-modify-write of one file under the notes' own lock, a script that
  is not part of the repository.  Push notifications: one HTTP request each.
- `scope_check.py`, `matrix-typing-pretool.py`: stateless.
- `making_of.py`, `remote.py`, `worktree.py`: reports, and wrappers of `ssh` and `git`.
- Configuration, bootstrap, deployment, dashboard and tools: installation, validation
  and static pages, with no shared state.
