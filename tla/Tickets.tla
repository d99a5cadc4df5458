------------------------------- MODULE Tickets -------------------------------
(***************************************************************************)
(* The ticket store of LoomMesh and the processes that move tickets        *)
(* through it.  A ticket is a JSON file; its state is the directory the    *)
(* file is in.  Nothing locks the store.  Three kinds of process share it: *)
(*                                                                         *)
(*   - the dispatcher, one single-threaded daemon (ticket_dispatcher.py);  *)
(*   - the HTTP API, whose handlers run one at a time because they are     *)
(*     coroutines that never await (mesh_api/lib/tickets_io.py);           *)
(*   - ticket-complete.py, run by an agent that was handed a ticket.       *)
(*                                                                         *)
(* An action is what a process does between two file-system calls another  *)
(* process could observe.  A file is reduced to the `status` field of its  *)
(* JSON; prompts, timestamps and summaries do not matter here.             *)
(*                                                                         *)
(* A definition commented "Fault:" is the one after it with a plausible    *)
(* bug; nothing uses it.  It says what the properties below would catch.   *)
(***************************************************************************)
EXTENDS Integers, FiniteSets, Sequences

CONSTANTS
  Ticket,       \* ticket ids: positive integers, in the order sorted() gives them
  Agent,        \* AGENTS of the API: every agent that can be sent a ticket
  To,           \* To[t]: the agent ticket t is addressed to
  Config,       \* the dispatcher's config["agents"], a sequence
  Earlier,      \* tickets that were done before the dispatcher got this config
  Ops,          \* the API requests that can be made
  Slow,         \* the tickets whose run may outlast running_timeout_min
  MaxRequests,  \* bound: API requests in a behaviour
  MaxCrashes    \* bound: process crashes in a behaviour

AllOps == {"create", "edit", "draft", "armed", "delete"}

ASSUME TicketAssumption  == Ticket \subseteq Nat \ {0}
ASSUME ToAssumption      == To \in [Ticket -> Agent]
ASSUME ConfigAssumption  == Config \in Seq(Agent) /\ Config # <<>>
ASSUME EarlierAssumption == Earlier \subseteq Ticket
ASSUME OpsAssumption     == Ops \subseteq AllOps
ASSUME SlowAssumption    == Slow \subseteq Ticket
ASSUME BoundsAssumption  == MaxRequests \in Nat /\ MaxCrashes \in Nat

VARIABLES
  store,        \* store[t][d]: t's file in directory d, by its status field
  work,         \* where t's working directory is
  deps,         \* depends_on of each ticket
  known,        \* tickets that were created
  notified,     \* <<t, d>>: the file carries fcm_notified
  overdue,      \* tickets whose started_at is older than the timeout
  disp,         \* the dispatcher process
  api,          \* the API process
  comp,         \* comp[a]: the ticket-complete.py process of agent a
  pushes,       \* history: how often t was typed into its agent's pane
  deleted,      \* history: tickets whose DELETE removed a file not yet run
  requests,     \* history: API requests so far
  crashes       \* history: crashes so far

history == <<pushes, deleted, requests, crashes>>
vars == <<store, work, deps, known, notified, overdue, disp, api, comp, history>>

-----------------------------------------------------------------------------
(* The store. *)

STATES == {"draft", "armed", "blocked", "queued",
           "running", "done", "failed", "cancelled"}

\* The order in which find_ticket tries the directories.
Following == [draft |-> "armed", armed |-> "blocked", blocked |-> "queued",
              queued |-> "running", running |-> "done", done |-> "failed",
              failed |-> "cancelled", cancelled |-> "none"]

\* What is at a path: no file, a file json.loads rejects, or a status.
Content == STATES \cup {"none", "torn"}

\* Where a ticket goes once it was handed to its agent.
Begun == {"running", "done", "failed", "cancelled"}

Exists(t, d)   == store[t][d] # "none"
Readable(t, d) == store[t][d] \notin {"none", "torn"}
Put(t, d, c)   == [store EXCEPT ![t][d] = c]

\* write_text opens with "w", which creates or truncates the file, and only then
\* writes: in between a reader finds a file it cannot parse, and so does everyone
\* after a crash.  The second half goes to whatever is then at the path; when the
\* file was unlinked or renamed in between, it is lost.
Truncate(t, d)    == Put(t, d, "torn")
Fill(t, d, c)     == IF Exists(t, d) THEN Put(t, d, c) ELSE store

\* The notified files after such a write: fcm_notified is what the file says,
\* and matters only in done/ and failed/.
Flag(t, d, said) ==
  IF d \notin {"done", "failed"} \/ ~ Exists(t, d) THEN notified
  ELSE IF said THEN notified \cup {<<t, d>>} ELSE notified \ {<<t, d>>}

-----------------------------------------------------------------------------
(* Dependencies: an entry named after the id in some agent's done/. *)

AllDepsDone(t) == \A d \in deps[t] : Exists(d, "done")

ConfigAgents == {Config[i] : i \in 1 .. Len(Config)}

\* Fault: any outcome will do.
AllDepsOver(t) ==
  \A d \in deps[t] : (Exists(d, "done") \/ Exists(d, "failed")) /\ To[d] \in ConfigAgents

\* The dispatcher looks only into the directories of the agents it drives.
AllDepsDoneInConfig(t) ==
  \A d \in deps[t] : Exists(d, "done") /\ To[d] \in ConfigAgents

-----------------------------------------------------------------------------
(* The dispatcher.  One tick does, for each agent, process_blocked,         *)
(* process_armed and process_done (done/, then failed/), and then           *)
(* check_timeouts over all agents.  disp.src is the directory being gone    *)
(* through, disp.todo what is left of its listing.                          *)

Phase(i, src) ==
  [pc |-> IF src = "armed" THEN "gate" ELSE "list",
   i |-> i, src |-> src, todo |-> {}, tk |-> 0, w |-> "none"]

\* Fault: blocked/ is gone through only when the daemon starts.
NextPhaseSkipsBlocked(i, src) ==
  CASE src = "blocked" -> Phase(i, "armed")
    [] src = "armed"   -> Phase(i, "done")
    [] src = "done"    -> Phase(i, "failed")
    [] src = "failed"  -> IF i < Len(Config) THEN Phase(i + 1, "armed")
                                             ELSE Phase(1, "running")
    [] src = "running" -> IF i < Len(Config) THEN Phase(i + 1, "running")
                                             ELSE Phase(1, "armed")

\* Fault: the tick never gets to check_timeouts.
NextPhaseSkipsTimeouts(i, src) ==
  CASE src = "blocked" -> Phase(i, "armed")
    [] src = "armed"   -> Phase(i, "done")
    [] src = "done"    -> Phase(i, "failed")
    [] OTHER           -> Phase((i % Len(Config)) + 1, "blocked")

\* Fault: process_done looks into done/ only.
NextPhaseSkipsFailed(i, src) ==
  CASE src = "blocked" -> Phase(i, "armed")
    [] src = "armed"   -> Phase(i, "done")
    [] src = "done"    -> IF i < Len(Config) THEN Phase(i + 1, "blocked")
                                             ELSE Phase(1, "running")
    [] OTHER           -> IF i < Len(Config) THEN Phase(i + 1, "running")
                                             ELSE Phase(1, "blocked")

NextPhase(i, src) ==
  CASE src = "blocked" -> Phase(i, "armed")
    [] src = "armed"   -> Phase(i, "done")
    [] src = "done"    -> Phase(i, "failed")
    [] src = "failed"  -> IF i < Len(Config) THEN Phase(i + 1, "blocked")
                                             ELSE Phase(1, "running")
    [] src = "running" -> IF i < Len(Config) THEN Phase(i + 1, "running")
                                             ELSE Phase(1, "blocked")

\* Go on with the files in rest, or with the next directory.
Continue(rest) ==
  IF rest = {} THEN NextPhase(disp.i, disp.src)
  ELSE [disp EXCEPT !.pc = "read", !.todo = rest, !.tk = 0, !.w = "none"]

\* blocked/ and armed/ are walked in sorted order, the others as glob gives them.
Candidates == IF disp.src \in {"blocked", "armed"}
              THEN {t \in disp.todo : \A u \in disp.todo : t <= u}
              ELSE disp.todo

DList ==
  /\ disp.pc = "list"
  /\ disp' = Continue({t \in Ticket : To[t] = Config[disp.i] /\ Exists(t, disp.src)})
  /\ UNCHANGED <<store, work, deps, known, notified, overdue, api, comp, history>>

\* process_armed gives up when running/ has a file or the agent looks busy.
DGateClosed ==
  /\ disp.pc = "gate"
  /\ disp' = NextPhase(disp.i, disp.src)
  /\ UNCHANGED <<store, work, deps, known, notified, overdue, api, comp, history>>

\* Fault: only the pane and the inbox are looked at, not running/.
DGateOpenWhileRunning ==
  /\ disp.pc = "gate"
  /\ disp' = [disp EXCEPT !.pc = "list"]
  /\ UNCHANGED <<store, work, deps, known, notified, overdue, api, comp, history>>

\* It goes on when running/ is empty, the pane shows the idle prompt and either
\* the inbox has been quiet or some armed ticket has waited long enough.
DGateOpen ==
  /\ disp.pc = "gate"
  /\ ~ \E t \in Ticket : To[t] = Config[disp.i] /\ Exists(t, "running")
  /\ disp' = [disp EXCEPT !.pc = "list"]
  /\ UNCHANGED <<store, work, deps, known, notified, overdue, api, comp, history>>

DRead(t) ==
  /\ disp.pc = "read" /\ t \in Candidates
  /\ Readable(t, disp.src)
  /\ CASE disp.src \in {"blocked", "armed"} ->
            disp' = [disp EXCEPT !.pc = "check", !.tk = t]
       [] disp.src = "running" ->
            disp' = IF t \in overdue
                    THEN [disp EXCEPT !.pc = "expire", !.tk = t]
                    ELSE Continue(disp.todo \ {t})
       [] disp.src \in {"done", "failed"} ->
            disp' = IF <<t, disp.src>> \in notified
                    THEN Continue(disp.todo \ {t})
                    ELSE [disp EXCEPT !.pc = "notify", !.tk = t]
  /\ UNCHANGED <<store, work, deps, known, notified, overdue, api, comp, history>>

DReadFails(t) ==
  /\ disp.pc = "read" /\ t \in Candidates
  /\ ~ Readable(t, disp.src)
  /\ disp' = Continue(disp.todo \ {t})
  /\ UNCHANGED <<store, work, deps, known, notified, overdue, api, comp, history>>

\* process_blocked: re-promote, or leave the ticket where it is.
DPromote ==
  /\ disp.pc = "check" /\ disp.src = "blocked"
  /\ AllDepsDoneInConfig(disp.tk)
  /\ store' = Truncate(disp.tk, "armed")
  /\ disp' = [disp EXCEPT !.pc = "fill", !.w = "armed"]
  /\ UNCHANGED <<work, deps, known, notified, overdue, api, comp, history>>

DStayBlocked ==
  /\ disp.pc = "check" /\ disp.src = "blocked"
  /\ ~ AllDepsDoneInConfig(disp.tk)
  /\ disp' = Continue(disp.todo \ {disp.tk})
  /\ UNCHANGED <<store, work, deps, known, notified, overdue, api, comp, history>>

\* process_armed: a ticket whose dependencies are not done goes back to blocked/.
DUnmet ==
  /\ disp.pc = "check" /\ disp.src = "armed"
  /\ ~ AllDepsDoneInConfig(disp.tk)
  /\ disp' = [disp EXCEPT !.pc = "park"]
  /\ UNCHANGED <<store, work, deps, known, notified, overdue, api, comp, history>>

DPark ==
  /\ disp.pc = "park"
  /\ store' = Truncate(disp.tk, "blocked")
  /\ disp' = [disp EXCEPT !.pc = "fill", !.w = "blocked"]
  /\ UNCHANGED <<work, deps, known, notified, overdue, api, comp, history>>

\* Fault: the armed file is given up before the running one is there.
DStartUnlinksFirst ==
  /\ disp.pc = "check" /\ disp.src = "armed"
  /\ AllDepsDoneInConfig(disp.tk)
  /\ store' = Put(disp.tk, "armed", "none")
  /\ overdue' = overdue \ {disp.tk}
  /\ disp' = [disp EXCEPT !.pc = "fill", !.w = "running"]
  /\ UNCHANGED <<work, deps, known, notified, api, comp, history>>

\* dispatch_ticket: write running/ with a fresh started_at, ...
DStart ==
  /\ disp.pc = "check" /\ disp.src = "armed"
  /\ AllDepsDoneInConfig(disp.tk)
  /\ store' = Truncate(disp.tk, "running")
  /\ overdue' = overdue \ {disp.tk}
  /\ disp' = [disp EXCEPT !.pc = "fill", !.w = "running"]
  /\ UNCHANGED <<work, deps, known, notified, api, comp, history>>

\* The second half of any of the dispatcher's writes.
DFill ==
  /\ disp.pc = "fill"
  /\ store' = Fill(disp.tk, disp.w, disp.w)
  /\ notified' = Flag(disp.tk, disp.w, disp.src \in {"done", "failed"})
  /\ disp' = IF disp.src \in {"done", "failed"} THEN Continue(disp.todo \ {disp.tk})
                                               ELSE [disp EXCEPT !.pc = "unlink"]
  /\ UNCHANGED <<work, deps, known, overdue, api, comp, history>>

\* Fault: the file that was read stays where it was.
DUnlinkKeeps ==
  /\ disp.pc = "unlink"
  /\ disp' = IF disp.w = "running" THEN [disp EXCEPT !.pc = "push", !.w = "none"]
                                   ELSE Continue(disp.todo \ {disp.tk})
  /\ UNCHANGED <<store, work, deps, known, notified, overdue, api, comp, history>>

\* ... remove the armed file, ...  (The same unlink ends a promotion, a park
\* and a timeout: it removes the file that was read, wherever it came from.)
DUnlink ==
  /\ disp.pc = "unlink"
  /\ store' = Put(disp.tk, disp.src, "none")
  /\ disp' = IF disp.w = "running" THEN [disp EXCEPT !.pc = "push", !.w = "none"]
                                   ELSE Continue(disp.todo \ {disp.tk})
  /\ UNCHANGED <<work, deps, known, notified, overdue, api, comp, history>>

\* ... and type the ticket into the agent's pane.  A push that fails is logged
\* and never tried again.  At most one ticket per agent and tick.
DPush ==
  /\ disp.pc = "push"
  /\ pushes' \in {pushes, [pushes EXCEPT ![disp.tk] = @ + 1]}
  /\ disp' = NextPhase(disp.i, disp.src)
  /\ UNCHANGED <<store, work, deps, known, notified, overdue, api, comp,
                 deleted, requests, crashes>>

\* process_done: send the push notification, then rewrite the file with
\* fcm_notified set.
DMark ==
  /\ disp.pc = "notify"
  /\ store' = Truncate(disp.tk, disp.src)
  /\ disp' = [disp EXCEPT !.pc = "fill", !.w = disp.src]
  /\ UNCHANGED <<work, deps, known, notified, overdue, api, comp, history>>

\* Fault: timed-out tickets get a directory of their own, unknown to STATES.
DExpireElsewhere ==
  /\ disp.pc = "expire"
  /\ disp' = [disp EXCEPT !.pc = "fill", !.w = "timeout"]
  /\ UNCHANGED <<store, work, deps, known, notified, overdue, api, comp, history>>

\* Fault: the running file is given up before the failed one is there.
DExpireUnlinksFirst ==
  /\ disp.pc = "expire"
  /\ store' = Put(disp.tk, "running", "none")
  /\ disp' = [disp EXCEPT !.pc = "fill", !.w = "failed"]
  /\ UNCHANGED <<work, deps, known, notified, overdue, api, comp, history>>

\* check_timeouts: write failed/, then the unlink above.
DExpire ==
  /\ disp.pc = "expire"
  /\ store' = Truncate(disp.tk, "failed")
  /\ disp' = [disp EXCEPT !.pc = "fill", !.w = "failed"]
  /\ UNCHANGED <<work, deps, known, notified, overdue, api, comp, history>>

Dispatcher ==
  \/ DList \/ DGateClosed \/ DGateOpen
  \/ \E t \in Ticket : DRead(t) \/ DReadFails(t)
  \/ DPromote \/ DStayBlocked \/ DUnmet \/ DPark \/ DStart
  \/ DFill \/ DUnlink \/ DPush \/ DMark \/ DExpire

-----------------------------------------------------------------------------
(* The API. *)

ApiIdle == [pc |-> "idle", op |-> "none", tk |-> 0, dir |-> "none", new |-> "none"]

Done4xx == api' = ApiIdle

\* create_ticket.  depends_on names tickets that exist; a ticket created armed
\* with an unmet dependency goes straight to blocked/.
ACreate(t, D, mode) ==
  /\ api.pc = "idle" /\ requests < MaxRequests /\ "create" \in Ops
  /\ t \notin known /\ D \subseteq known /\ mode \in {"draft", "armed"}
  /\ requests' = requests + 1
  /\ deps' = [deps EXCEPT ![t] = D]
  /\ api' = [ApiIdle EXCEPT !.pc = "create", !.op = "create", !.tk = t,
               !.new = IF mode = "armed" /\ \E d \in D : ~ Exists(d, "done")
                       THEN "blocked" ELSE mode]
  /\ UNCHANGED <<store, work, known, notified, overdue, disp, comp,
                 pushes, deleted, crashes>>

ACreateWrite ==
  /\ api.pc = "create"
  /\ store' = Truncate(api.tk, api.new)
  /\ known' = known \cup {api.tk}
  /\ api' = [api EXCEPT !.pc = "fill", !.dir = api.new]
  /\ UNCHANGED <<work, deps, notified, overdue, disp, comp, history>>

AScaffold ==
  /\ api.pc = "scaffold"
  /\ work' = [work EXCEPT ![api.tk] = "working"]
  /\ api' = ApiIdle
  /\ UNCHANGED <<store, deps, known, notified, overdue, disp, comp, history>>

\* PATCH (prompt only, or dispatch_mode draft or armed) and DELETE first look
\* the ticket up, one directory after the other.
ARequest(op, t) ==
  /\ api.pc = "idle" /\ requests < MaxRequests
  /\ op \in Ops \ {"create"} /\ t \in known
  /\ requests' = requests + 1
  /\ api' = [ApiIdle EXCEPT !.pc = "find", !.op = op, !.tk = t, !.dir = "draft"]
  /\ UNCHANGED <<store, work, deps, known, notified, overdue, disp, comp,
                 pushes, deleted, crashes>>

\* find_ticket tries the next directory; after the last one it is a 404.
AFindMisses ==
  /\ api.pc = "find" /\ ~ Readable(api.tk, api.dir)
  /\ IF Following[api.dir] = "none" THEN Done4xx
     ELSE api' = [api EXCEPT !.dir = Following[api.dir]]
  /\ UNCHANGED <<store, work, deps, known, notified, overdue, disp, comp, history>>

\* What the handler does next depends on the status FIELD of what it read.
AFinds ==
  /\ api.pc = "find" /\ Readable(api.tk, api.dir)
  /\ LET seen == store[api.tk][api.dir] IN
     CASE api.op = "delete" /\ seen = "running" ->
            api' = [api EXCEPT !.pc = "write", !.new = "cancelled"]
       [] api.op = "delete" /\ seen \notin Begun ->
            api' = [api EXCEPT !.pc = "unlink"]
       [] api.op = "edit" /\ seen \notin Begun ->
            api' = [api EXCEPT !.pc = "write", !.new = seen]
       [] api.op \in {"draft", "armed"} /\ seen \notin Begun ->
            api' = [api EXCEPT !.pc = "decide"]
       [] OTHER -> Done4xx
  /\ UNCHANGED <<store, work, deps, known, notified, overdue, disp, comp, history>>

\* patch_ticket with a dispatch_mode: pick the new directory, ...
ADecide ==
  /\ api.pc = "decide"
  /\ api' = [api EXCEPT !.pc = "rename",
               !.new = IF api.op = "armed" /\ ~ AllDepsDone(api.tk)
                       THEN "blocked" ELSE api.op]
  /\ UNCHANGED <<store, work, deps, known, notified, overdue, disp, comp, history>>

\* ... rename the file that was found into it (an error when that file is gone),
\* and rewrite it in place.  delete_ticket of a running ticket does it the other
\* way round: rewrite in running/, then rename into cancelled/.
ARename ==
  /\ api.pc = "rename" /\ Exists(api.tk, api.dir)
  /\ store' = [store EXCEPT ![api.tk] =
                 [@ EXCEPT ![api.dir] = "none", ![api.new] = store[api.tk][api.dir]]]
  /\ api' = IF api.op = "delete" THEN [api EXCEPT !.pc = "archive"]
            ELSE [api EXCEPT !.pc = "write", !.dir = api.new]
  /\ UNCHANGED <<work, deps, known, notified, overdue, disp, comp, history>>

ARenameFails ==
  /\ api.pc = "rename" /\ ~ Exists(api.tk, api.dir)
  /\ Done4xx
  /\ UNCHANGED <<store, work, deps, known, notified, overdue, disp, comp, history>>

\* write_text creates the file when another process has just removed it.
AWrite ==
  /\ api.pc = "write"
  /\ store' = Truncate(api.tk, api.dir)
  /\ api' = [api EXCEPT !.pc = "fill"]
  /\ UNCHANGED <<work, deps, known, notified, overdue, disp, comp, history>>

\* Fault: the handler answers without having written the new content.
AFillNothing ==
  /\ api.pc = "fill"
  /\ api' = CASE api.op = "create" -> [api EXCEPT !.pc = "scaffold"]
              [] api.op = "delete" -> [api EXCEPT !.pc = "rename"]
              [] OTHER             -> ApiIdle
  /\ UNCHANGED <<store, work, deps, known, notified, overdue, disp, comp, history>>

AFill ==
  /\ api.pc = "fill"
  /\ store' = Fill(api.tk, api.dir, api.new)
  /\ api' = CASE api.op = "create" -> [api EXCEPT !.pc = "scaffold"]
              [] api.op = "delete" -> [api EXCEPT !.pc = "rename"]
              [] OTHER             -> ApiIdle
  /\ UNCHANGED <<work, deps, known, notified, overdue, disp, comp, history>>

\* delete_ticket of a ticket that is not running: remove the file that was
\* found, then the working directory.
AUnlink ==
  /\ api.pc = "unlink"
  /\ store' = Put(api.tk, api.dir, "none")
  /\ deleted' = deleted \cup {api.tk}
  /\ api' = [api EXCEPT !.pc = "rmtree"]
  /\ UNCHANGED <<work, deps, known, notified, overdue, disp, comp,
                 pushes, requests, crashes>>

ARmtree ==
  /\ api.pc = "rmtree"
  /\ work' = [work EXCEPT ![api.tk] = IF @ = "working" THEN "none" ELSE @]
  /\ api' = ApiIdle
  /\ UNCHANGED <<store, deps, known, notified, overdue, disp, comp, history>>

AArchive ==
  /\ api.pc = "archive"
  /\ work' = [work EXCEPT ![api.tk] = IF @ = "working" THEN "cancelled" ELSE @]
  /\ api' = ApiIdle
  /\ UNCHANGED <<store, deps, known, notified, overdue, disp, comp, history>>

Api ==
  \/ ACreateWrite \/ AScaffold \/ AFindMisses \/ AFinds \/ ADecide
  \/ ARename \/ ARenameFails \/ AWrite \/ AFill
  \/ AUnlink \/ ARmtree \/ AArchive

Request ==
  \/ \E t \in Ticket, D \in SUBSET known, mode \in {"draft", "armed"} :
        ACreate(t, D, mode)
  \/ \E op \in Ops, t \in Ticket : ARequest(op, t)

-----------------------------------------------------------------------------
(* ticket-complete.py: agent a closes ticket t, which it was handed, as done *)
(* or failed.                                                                *)

CFind(a, t, fin) ==
  /\ comp[a].pc = "idle" /\ To[t] = a /\ pushes[t] > 0
  /\ Readable(t, "running")
  /\ comp' = [comp EXCEPT ![a] = [pc |-> "write", tk |-> t, fin |-> fin]]
  /\ UNCHANGED <<store, work, deps, known, notified, overdue, disp, api, history>>

CWrite(a) ==
  /\ comp[a].pc = "write"
  /\ store' = Truncate(comp[a].tk, comp[a].fin)
  /\ comp' = [comp EXCEPT ![a].pc = "fill"]
  /\ UNCHANGED <<work, deps, known, notified, overdue, disp, api, history>>

CFill(a) ==
  /\ comp[a].pc = "fill"
  /\ store' = Fill(comp[a].tk, comp[a].fin, comp[a].fin)
  /\ notified' = Flag(comp[a].tk, comp[a].fin, FALSE)
  /\ comp' = [comp EXCEPT ![a].pc = "unlink"]
  /\ UNCHANGED <<work, deps, known, overdue, disp, api, history>>

CUnlink(a) ==
  /\ comp[a].pc = "unlink"
  /\ store' = Put(comp[a].tk, "running", "none")
  /\ comp' = [comp EXCEPT ![a].pc = "archive"]
  /\ UNCHANGED <<work, deps, known, notified, overdue, disp, api, history>>

CompIdle == [pc |-> "idle", tk |-> 0, fin |-> "done"]

CArchive(a) ==
  /\ comp[a].pc = "archive"
  /\ work' = [work EXCEPT ![comp[a].tk] = IF @ = "working" THEN comp[a].fin ELSE @]
  /\ comp' = [comp EXCEPT ![a] = CompIdle]
  /\ UNCHANGED <<store, deps, known, notified, overdue, disp, api, history>>

Completer(a) == CWrite(a) \/ CFill(a) \/ CUnlink(a) \/ CArchive(a)

Complete(a) == \E t \in Ticket, fin \in {"done", "failed"} : CFind(a, t, fin)

-----------------------------------------------------------------------------
(* The environment: time passes, processes crash. *)

GrowOld(t) ==
  /\ t \in Slow \ overdue /\ Exists(t, "running")
  /\ overdue' = overdue \cup {t}
  /\ UNCHANGED <<store, work, deps, known, notified, disp, api, comp, history>>

\* Any process may die between two of its steps.  systemd restarts the
\* dispatcher and the API; the agent may run ticket-complete.py again.
Crash ==
  /\ crashes < MaxCrashes /\ crashes' = crashes + 1
  /\ \/ disp # Phase(1, "blocked") /\ disp' = Phase(1, "blocked") /\ UNCHANGED <<api, comp>>
     \/ api # ApiIdle /\ api' = ApiIdle /\ UNCHANGED <<disp, comp>>
     \/ \E a \in Agent : /\ comp[a] # CompIdle /\ comp' = [comp EXCEPT ![a] = CompIdle]
                         /\ UNCHANGED <<disp, api>>
  /\ UNCHANGED <<store, work, deps, known, notified, overdue, pushes, deleted, requests>>

-----------------------------------------------------------------------------
Init ==
  /\ store = [t \in Ticket |-> [d \in STATES |->
                IF t \in Earlier /\ d = "done" THEN "done" ELSE "none"]]
  /\ work = [t \in Ticket |-> IF t \in Earlier THEN "done" ELSE "none"]
  /\ deps = [t \in Ticket |-> {}]
  /\ known = Earlier /\ notified = {} /\ overdue = {}
  /\ disp = Phase(1, "blocked")
  /\ api = ApiIdle
  /\ comp = [a \in Agent |-> CompIdle]
  /\ pushes = [t \in Ticket |-> 0]
  /\ deleted = {} /\ requests = 0 /\ crashes = 0

Next ==
  \/ Dispatcher \/ Api \/ Request
  \/ \E a \in Agent : Completer(a) \/ Complete(a)
  \/ \E t \in Ticket : GrowOld(t)
  \/ Crash

Spec == Init /\ [][Next]_vars

\* What the running system does by itself: the daemon keeps ticking, requests
\* and completions that have begun go on to their end, time passes, and an agent
\* is found idle again and again.  Nobody has to make a request, an agent never
\* has to close a ticket, and a crash need not happen.
Fairness ==
  /\ WF_vars(Dispatcher) /\ SF_vars(DGateOpen)
  /\ WF_vars(Api)
  /\ \A a \in Agent : WF_vars(Completer(a))
  /\ \A t \in Ticket : WF_vars(GrowOld(t))

FairSpec == Spec /\ Fairness

-----------------------------------------------------------------------------
(* Properties. *)

DispatcherState ==
  [pc : {"list", "gate", "read", "check", "park", "unlink", "push", "notify",
         "fill", "expire"},
   i : 1 .. Len(Config),
   src : {"blocked", "armed", "running", "done", "failed"},
   todo : SUBSET Ticket,
   tk : Ticket \cup {0},
   w : {"none", "armed", "blocked", "running", "done", "failed"}]

ApiState ==
  [pc : {"idle", "create", "scaffold", "find", "decide", "rename", "write",
         "fill", "unlink", "rmtree", "archive"},
   op : AllOps \cup {"none"}, tk : Ticket \cup {0},
   dir : STATES \cup {"none"}, new : STATES \cup {"none"}]

CompleterState ==
  [pc : {"idle", "write", "fill", "unlink", "archive"}, tk : Ticket \cup {0},
   fin : {"done", "failed"}]

TypeOK ==
  /\ store \in [Ticket -> [STATES -> Content]]
  /\ work \in [Ticket -> {"none", "working", "done", "failed", "cancelled"}]
  /\ deps \in [Ticket -> SUBSET Ticket]
  /\ known \subseteq Ticket
  /\ notified \subseteq Ticket \X {"done", "failed"}
  /\ overdue \subseteq Ticket
  /\ disp \in DispatcherState
  /\ api \in ApiState
  /\ comp \in [Agent -> CompleterState]
  /\ pushes \in [Ticket -> Nat]
  /\ deleted \subseteq Ticket
  /\ requests \in Nat /\ crashes \in Nat

Started(t) == \E d \in Begun : Exists(t, d)

\* No ticket is running, or over, unless every ticket it depends on is in
\* done/ -- whatever the API, the agents and the dispatcher do in between the
\* dispatcher's look at the dependencies and its write.
DependenciesFirst == \A t \in Ticket : Started(t) => AllDepsDone(t)

\* The files say which tickets have started and what became of them; read that
\* way, every step of the store is a step of the contract.
Contract == INSTANCE TicketContract WITH
  started <- {t \in Ticket : Started(t)},
  outcome <- [t \in Ticket |-> {d \in {"done", "failed", "cancelled"} : Exists(t, d)}]

\* The store keeps the contract: dependencies first, no outcome without a start,
\* and neither is ever taken back by a later move of any process.
KeepsContract == Contract!Spec

\* A ticket that was created and not deleted has a file in some directory:
\* every process writes the new place before it gives up the old one, and the
\* moves of different processes never cancel out.
NoTicketVanishes ==
  \A t \in known \ deleted : \E d \in STATES : Exists(t, d)

\* No process is in the middle of moving t.
AtRest(t) == disp.tk # t /\ api.tk # t /\ \A a \in Agent : comp[a].tk # t

\* As long as nothing has crashed, one of those files can be read whenever no
\* process is at work on the ticket.
NoTicketUnreadable ==
  crashes = 0 => \A t \in known \ deleted : AtRest(t) => \E d \in STATES : Readable(t, d)

\* An agent is never given a second ticket while its first is still running:
\* the dispatcher's look at running/ and its write are many steps apart.
OneRunningPerAgent ==
  \A t, u \in Ticket :
     /\ To[t] = To[u]
     /\ store[t]["running"] = "running" /\ store[u]["running"] = "running"
     => t = u

\* A ticket is typed into its agent's pane at most once.
DispatchedOnce == \A t \in Ticket : pushes[t] <= 1

\* A ticket whose run is over is not started again.
OverIsOver ==
  [][\A t \in Ticket :
       Exists(t, "done") \/ Exists(t, "failed") \/ Exists(t, "cancelled")
       => (Exists(t, "running") \/ ~ Exists(t, "running")')]_vars

\* A ticket that waits and whose dependencies are all done is started, on an
\* agent whatever else is queued for it and however often its agent is busy.
EventuallyStarted ==
  \A t \in Ticket :
     (Exists(t, "armed") \/ Exists(t, "blocked")) /\ AllDepsDone(t)
       ~> Started(t) \/ t \in deleted

\* A ticket leaves running/, even if the push failed and its agent never heard
\* of it: the timeout is the last resort.
RunningEnds == \A t \in Ticket : Exists(t, "running") ~> ~ Exists(t, "running")

\* Every outcome is eventually pushed to the phone.
EventuallyNotified ==
  \A t \in Ticket, d \in {"done", "failed"} :
     Exists(t, d) ~> <<t, d>> \in notified

-----------------------------------------------------------------------------
(* The inductive invariant behind DependenciesFirst and KeepsContract.       *)

Waiting == STATES \ Begun

\* The statuses a file in directory d may carry.
Fits(d) == CASE d \in {"done", "failed"}       -> {d}
             [] d \in {"running", "cancelled"} -> {"running", "cancelled"}
             [] OTHER                          -> Waiting

StatusFits ==
  \A t \in Ticket, d \in STATES : store[t][d] \in Fits(d) \cup {"none", "torn"}

FilesAreKnown == \A t \in Ticket, d \in STATES : Exists(t, d) => t \in known

\* What the dispatcher may rely on about the ticket it holds.
DispatcherInv ==
  /\ disp.pc \notin {"list", "gate", "read"} => disp.tk \in known
  /\ disp.pc = "check"  => disp.src \in {"blocked", "armed"}
  /\ disp.pc = "park"   => disp.src = "armed"
  /\ disp.pc = "fill"   => disp.w # "none"
  /\ disp.pc = "notify" => disp.src \in {"done", "failed"} /\ Exists(disp.tk, disp.src)
  /\ disp.pc = "expire" => disp.src = "running" /\ Started(disp.tk)
  /\ disp.pc = "unlink" => disp.src \in {"blocked", "armed", "running"}
  /\ disp.pc \in {"fill", "unlink"} /\ disp.src = "running" => Exists(disp.tk, "failed")

\* What the API may rely on: nothing but a running ticket's DELETE touches the
\* directories of tickets that have started.
ApiInv ==
  /\ api.pc \notin {"idle", "create"} => api.tk \in known
  /\ api.pc = "create" => api.op = "create" /\ api.tk \in Ticket /\ api.new \in Waiting
  /\ api.pc = "find"   => api.dir \in STATES /\ api.op # "create"
  /\ api.pc = "decide" => api.dir \in Waiting /\ api.op \in {"draft", "armed"}
  /\ api.pc = "unlink" => api.dir \in Waiting
  /\ api.pc \in {"write", "fill", "rename"} =>
       IF api.op = "delete"
       THEN api.dir \in {"running", "cancelled"} /\ api.new = "cancelled" /\ Started(api.tk)
       ELSE api.dir \in Waiting /\ api.new \in Waiting

\* ticket-complete.py found its ticket running, and writes before it unlinks.
CompleterInv ==
  \A a \in Agent :
    /\ comp[a].pc # "idle" => comp[a].tk \in known
    /\ comp[a].pc \in {"write", "fill", "unlink"} => Started(comp[a].tk)
    /\ comp[a].pc \in {"fill", "unlink"} => Exists(comp[a].tk, comp[a].fin)

IInv ==
  /\ TypeOK /\ StatusFits /\ FilesAreKnown
  /\ DispatcherInv /\ ApiInv /\ CompleterInv
  /\ DependenciesFirst

(* The inductive invariant behind OneRunningPerAgent, on top of IInv. *)

\* What the dispatcher goes through belongs to the agent whose turn it is.
OnItsTurn ==
  /\ \A t \in disp.todo : To[t] = Config[disp.i]
  /\ disp.pc \notin {"list", "gate", "read"} => To[disp.tk] = Config[disp.i]

\* Once past the gate, the agent runs nothing but the ticket just started.
GateHolds ==
  disp.src = "armed" /\ disp.pc # "gate" =>
    \A t \in Ticket :
       To[t] = Config[disp.i] /\ store[t]["running"] = "running" =>
         t = disp.tk /\ (disp.pc = "push" \/ (disp.pc = "unlink" /\ disp.w = "running"))

StartsFromArmed ==
  disp.pc \in {"fill", "unlink"} /\ disp.w = "running" => disp.src = "armed"

OneInv == OnItsTurn /\ GateHolds /\ StartsFromArmed /\ OneRunningPerAgent
=============================================================================
