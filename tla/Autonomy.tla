------------------------------ MODULE Autonomy ------------------------------
(***************************************************************************)
(* An autonomous run: the participants working on the board, the work-drain *)
(* hook that ends or prolongs their turns, the reviewers, and the tick of   *)
(* the coordinator, which reads the board several times and appends to it   *)
(* in between.                                                             *)
(***************************************************************************)
EXTENDS Board

CONSTANTS
  Chief,             \* the coordinator agent: reviews too, but is no Fable
  Deps,              \* the dependencies each task is created with
  Mortal,            \* participants that may die
  Verbs,             \* what participants report about a task they have in hand
  TickUsage,         \* verdicts a tick may get from the usage guard
  HookGates,         \* what a hook may find: "ok", "night", "unknown", "kill"
  MaxReassignments,  \* guardrail max_reassignments
  StuckTicksHalt,    \* guardrail stuck_ticks_halt
  GraceTicks,        \* guardrail unknown_grace_ticks
  MaxStale,          \* MAX_STALE of the hook
  MaxAttempts,       \* bound: progress events of a task
  Judged             \* what the chief does on its own judgement, between ticks

ASSUME AutonomyAssumption ==
  /\ Chief \notin Agent \cup Fable \cup {None}
  /\ Mortal \subseteq Agent
  /\ Deps \in [Task -> SUBSET Task]
  /\ {MaxReassignments, StuckTicksHalt, GraceTicks, MaxStale, MaxAttempts} \subseteq Nat
  /\ Verbs \subseteq {"start", "progress", "block", "submit", "done"}
  /\ Judged \subseteq {"create", "assign", "unblock", "abandon", "deps", "end", "rearm"}

VARIABLES
  active,    \* the run is active
  hand,      \* hand[a]: the tasks a believes it is working on
  dead,      \* participants whose session is gone
  plan,      \* plan[a]: the tasks a's Stop hook is about to block
  marker,    \* marker[a]: work-drain-<a>.json, the signature last seen and how often
  eye,       \* eye[r]: the task r is reviewing
  tick,      \* the tick under way: how far it is and what it has read
  halted,    \* the loop that calls coordinator_tick has stopped
  ticks,     \* state/coordinator.json: ticks on end that were stuck, or saw no usage
  claimant,  \* history: the participant whose claim was logged last, until an unassign
  owed,      \* history: tasks the gate has reopened and no Fable has passed since
  blind      \* history: participants let go because the usage was unknown, when
             \* their hook ran last

vars == <<boardVars, active, hand, dead, plan, marker, eye, tick, halted, ticks,
          claimant, owed, blind>>

Reviewer == Fable \cup {Chief}
NoMarker == [sig |-> {}, stale |-> 0]
Asleep   == [pc |-> "asleep", usage |-> "ok", pre |-> {}, avoid |-> {}, left |-> {},
             moving |-> FALSE, done |-> FALSE, stuck |-> FALSE]

SameClaim == UNCHANGED <<claimant, owed, blind>>

\* A participant reads the tasks open for it (`loom mine`).
Mine(a) ==
  /\ a \notin dead /\ plan[a] = {}
  /\ hand' = [hand EXCEPT ![a] = @ \cup open_for(a)]
  /\ UNCHANGED <<boardVars, active, dead, plan, marker, eye, tick, halted, ticks, claimant, owed, blind>>

Claim(a, t) ==
  /\ a \notin dead /\ plan[a] = {} /\ t \in OnBoard
  /\ claimable(t, a)
  /\ claim_if_available(t, a)
  /\ hand' = [hand EXCEPT ![a] = @ \cup {t}]
  /\ claimant' = IF torn THEN claimant ELSE [claimant EXCEPT ![t] = a]
  /\ UNCHANGED <<active, dead, plan, marker, eye, tick, halted, ticks, owed, blind>>

\* What a participant reports is appended whatever has become of the task.
Reports(verb, t) ==
  CASE verb = "start"    -> Moved(t, "in_progress")
    [] verb = "progress" -> Progressed(t)
    [] verb = "block"    -> Moved(t, "blocked")
    [] verb = "submit"   -> Moved(t, "in_review")
    [] verb = "done"     -> Moved(t, "done")

Report(a, t, verb) ==
  /\ plan[a] = {} /\ t \in hand[a]
  /\ verb = "progress" => task[t].attempts < MaxAttempts
  /\ LogEvent(t, Reports(verb, task[t]))
  /\ hand' = [hand EXCEPT ![a] = IF verb \in {"start", "progress"} THEN @ ELSE @ \ {t}]
  /\ SameClaim
  /\ UNCHANGED <<active, dead, plan, marker, eye, tick, halted, ticks>>

\* A session goes away, perhaps within an append.
Die(a) ==
  /\ a \in Mortal \ dead
  /\ dead' = dead \cup {a}
  /\ hand' = [hand EXCEPT ![a] = {}]
  /\ plan' = [plan EXCEPT ![a] = {}]
  /\ torn' \in {torn, TRUE}
  /\ blind' = blind \ {a}
  /\ UNCHANGED <<task, active, marker, eye, tick, halted, ticks, claimant, owed>>

-----------------------------------------------------------------------------
\* The Stop hook of a, at the end of a turn: what it reads, and what it decides.
Signature(a) == {<<t, task[t].attempts, task[t].st>> : t \in open_for(a)}
Staleness(a) == IF marker[a].sig = Signature(a) THEN marker[a].stale + 1 ELSE 0

\* Fault: the marker is removed when the night closes too.
KeepsNoMarker(gate) == gate # "ok"

\* The marker is removed at a kill or a soft pause; at the end of the night it
\* is kept, so that the count of turns without progress goes on.
ClearsMarker(gate) == gate \in {"kill", "unknown"}

HookStop(a, gate) ==
  LET opn   == open_for(a)
      gives == opn # {} /\ (gate = "kill" \/ (gate = "ok" /\ Staleness(a) >= MaxStale))
      turns == opn # {} /\ gate = "ok" /\ Staleness(a) < MaxStale
  IN  /\ active /\ a \notin dead /\ plan[a] = {}
      /\ plan' = [plan EXCEPT ![a] = IF gives THEN opn ELSE {}]
      /\ marker' = [marker EXCEPT ![a] =
           IF turns THEN [sig |-> Signature(a), stale |-> Staleness(a)]
           ELSE IF opn = {} \/ gives \/ ClearsMarker(gate) THEN NoMarker ELSE @]
      /\ hand' = [hand EXCEPT ![a] = IF turns THEN @ \cup opn ELSE @]
      /\ blind' = IF opn # {} /\ gate = "unknown" THEN blind \cup {a} ELSE blind \ {a}
      /\ UNCHANGED <<boardVars, active, dead, eye, tick, halted, ticks, claimant, owed>>

\* It blocks the tasks it read, one append each, whatever they have become.
HookBlock(a, t) ==
  /\ t \in plan[a]
  /\ LogEvent(t, Moved(task[t], "blocked"))
  /\ plan' = [plan EXCEPT ![a] = @ \ {t}]
  /\ hand' = [hand EXCEPT ![a] = @ \ {t}]
  /\ SameClaim
  /\ UNCHANGED <<active, dead, marker, eye, tick, halted, ticks>>

-----------------------------------------------------------------------------
PickReview(r, t) ==
  /\ eye[r] = None /\ t \in in_review
  /\ eye' = [eye EXCEPT ![r] = t]
  /\ UNCHANGED <<boardVars, active, hand, dead, plan, marker, tick, halted, ticks, claimant, owed, blind>>

GiveReview(r, verdict) ==
  LET t == eye[r] IN
  /\ t # None
  /\ LogEvent(t, Reviewed(task[t], r, verdict))
  /\ eye' = [eye EXCEPT ![r] = None]
  /\ owed' = IF verdict = "pass" /\ r \in Fable THEN owed \ {t} ELSE owed
  /\ UNCHANGED <<active, hand, dead, plan, marker, tick, halted, ticks, claimant, blind>>

\* What the chief does with the board between ticks.
Judge(what, t, a) ==
  /\ what \in Judged
  /\ CASE what = "create"  -> create_task(t, a, Deps[t])
       [] what = "assign"  -> a # None /\ t \in OnBoard /\ LogEvent(t, Assigned(task[t], a))
       [] what = "unblock" -> a = None /\ t \in blocked /\ LogEvent(t, Moved(task[t], "in_progress"))
       [] what = "abandon" -> a = None /\ t \in OnBoard /\ task[t].st \notin TERMINAL /\ abandon(t)
       [] what = "deps"    -> a = None /\ t \in dependency_faults
                                /\ LogEvent(t, DepsChanged(task[t], {}))
       [] OTHER            -> FALSE
  /\ claimant' = [claimant EXCEPT ![t] = IF what = "assign" /\ ~ torn THEN None ELSE @]
  /\ UNCHANGED <<active, hand, dead, plan, marker, eye, tick, halted, ticks, owed, blind>>

\* The run is ended by hand, or the halted loop is started again.
JudgeRun(what) ==
  /\ what \in Judged
  /\ \/ what = "end" /\ active /\ active' = FALSE /\ UNCHANGED halted
     \/ what = "rearm" /\ active /\ halted /\ halted' = FALSE /\ UNCHANGED active
  /\ UNCHANGED <<boardVars, hand, dead, plan, marker, eye, tick, ticks, claimant, owed, blind>>

\* An open task has had no event for stall_after_seconds.
FallQuiet(t) ==
  /\ task[t].st \in OPEN_STATUSES /\ ~ task[t].quiet
  /\ task' = [task EXCEPT ![t].quiet = TRUE]
  /\ UNCHANGED <<torn, active, hand, dead, plan, marker, eye, tick, halted, ticks, claimant, owed, blind>>

-----------------------------------------------------------------------------
\* The tick.  It touches the board only where it says so.
TickOnly == UNCHANGED <<active, hand, dead, plan, marker, eye>>
Reads    == UNCHANGED <<boardVars, claimant, owed, blind>> /\ TickOnly

TickStart(usage) ==
  /\ tick.pc = "asleep" /\ ~ halted
  /\ IF ~ active \/ usage = "kill"
     THEN halted' = TRUE /\ UNCHANGED tick
     ELSE tick' = [tick EXCEPT !.pc = "read", !.usage = usage] /\ UNCHANGED halted
  /\ Reads /\ UNCHANGED ticks

\* Fault: one reassignment too many.
OneMore(t) == task[t].reassignments <= MaxReassignments

MayReassign(t) == task[t].reassignments < MaxReassignments

\* The stalled tasks, with what the situation says of them.
TickPre ==
  /\ tick.pc = "read"
  /\ tick' = [tick EXCEPT !.pc = "stall", !.pre =
       {[id |-> t, owner |-> task[t].owner, again |-> MayReassign(t)] :
          t \in {u \in Task : task[u].st \in OPEN_STATUSES /\ task[u].quiet}}]
  /\ Reads /\ UNCHANGED <<halted, ticks>>

TickStall(s) ==
  /\ tick.pc = "stall" /\ s \in tick.pre
  /\ IF s.again THEN unassign(s.id) ELSE LogEvent(s.id, Moved(task[s.id], "blocked"))
  /\ tick' = [tick EXCEPT !.pre = @ \ {s},
                          !.avoid = @ \cup (IF s.again THEN {<<s.id, s.owner>>} ELSE {})]
  /\ claimant' = [claimant EXCEPT ![s.id] =
       IF s.again /\ ~ torn /\ task[s.id].st \in OPEN_STATUSES THEN None ELSE @]
  /\ TickOnly /\ UNCHANGED <<halted, ticks, owed, blind>>

\* assign_ready: none where the usage is unknown.
TickReady ==
  /\ tick.pc = "stall" /\ tick.pre = {}
  /\ tick' = [tick EXCEPT !.pc = "assign",
                          !.left = IF tick.usage = "unknown" THEN {} ELSE ready_unassigned]
  /\ Reads /\ UNCHANGED <<halted, ticks>>

\* The dead owner of a stalled task is kept off it while anyone else may take it.
Eligible(t) ==
  LET others == {a \in Agent : <<t, a>> \notin tick.avoid} IN
  IF others = {} THEN Agent ELSE others

TickAssign(t, a) ==
  /\ tick.pc = "assign" /\ t \in tick.left /\ a \in Eligible(t)
  /\ assign_if_free(t, a)
  /\ tick' = [tick EXCEPT !.left = @ \ {t}]
  /\ SameClaim /\ TickOnly /\ UNCHANGED <<halted, ticks>>

\* The situation after that, by two folds of those it makes.
TickSituation ==
  /\ tick.pc = "assign" /\ tick.left = {}
  /\ tick' = [tick EXCEPT !.pc = "acts", !.avoid = {}, !.moving =
       \E t \in Task : task[t].st \in OPEN_STATUSES /\ (task[t].owner # None \/ task[t].quiet)]
  /\ Reads /\ UNCHANGED <<halted, ticks>>

\* next_actions; it looks at the run again.
TickActs ==
  /\ tick.pc = "acts"
  /\ tick' = [tick EXCEPT !.pc = "gate",
       !.done  = active /\ converged,
       !.stuck = active /\ ~ converged /\ ~ tick.moving
                   /\ ready_unassigned = {} /\ in_review = {}]
  /\ Reads /\ UNCHANGED <<halted, ticks>>

\* Counts up to the bound, past which the code only counts on.
Count(n, bound) == IF n < bound THEN n + 1 ELSE n

\* The gate and the end of the tick.
TickGate ==
  /\ tick.pc = "gate"
  /\ IF tick.done
     THEN /\ tick' = [Asleep EXCEPT !.pc = IF gate_violations = {} THEN "done" ELSE "reopen",
                                    !.left = gate_violations]
          /\ UNCHANGED <<halted, ticks>>
     ELSE /\ tick' = Asleep
          /\ ticks' = [unknown |-> IF tick.usage = "unknown"
                                   THEN Count(ticks.unknown, GraceTicks) ELSE 0,
                       stuck |-> IF tick.usage = "unknown" THEN ticks.stuck
                                 ELSE IF tick.stuck THEN Count(ticks.stuck, StuckTicksHalt)
                                 ELSE 0]
          /\ halted' = IF tick.usage = "unknown" THEN ticks'.unknown >= GraceTicks
                       ELSE tick.stuck /\ ticks'.stuck >= StuckTicksHalt
  /\ Reads

TickReopen(t) ==
  /\ tick.pc = "reopen" /\ t \in tick.left
  /\ reopen(t)
  /\ tick' = [tick EXCEPT !.left = @ \ {t}, !.pc = IF tick.left = {t} THEN "asleep" ELSE @]
  /\ owed' = IF task[t].st = "done" /\ ~ torn THEN owed \cup {t} ELSE owed
  /\ TickOnly /\ UNCHANGED <<halted, ticks, claimant, blind>>

\* Told that the run is done, the chief ends it.
EndConverged ==
  /\ tick.pc = "done"
  /\ tick' = Asleep /\ active' = FALSE
  /\ UNCHANGED <<boardVars, hand, dead, plan, marker, eye, halted, ticks, claimant, owed, blind>>

Tick ==
  \/ \E u \in TickUsage : TickStart(u)
  \/ TickPre
  \/ \E s \in tick.pre : TickStall(s)
  \/ TickReady
  \/ \E t \in Task, a \in Agent : TickAssign(t, a)
  \/ TickSituation
  \/ TickActs
  \/ TickGate
  \/ \E t \in Task : TickReopen(t)
  \/ EndConverged

-----------------------------------------------------------------------------
Init ==
  /\ task = [t \in Task |-> IF "create" \in Judged THEN Folded("none", None, {})
                            ELSE Folded("todo", None, Deps[t])]
  /\ torn = FALSE
  /\ active = TRUE /\ halted = FALSE
  /\ hand = [a \in Agent |-> {}] /\ plan = [a \in Agent |-> {}]
  /\ dead = {} /\ owed = {} /\ blind = {}
  /\ marker = [a \in Agent |-> NoMarker]
  /\ eye = [r \in Reviewer |-> None]
  /\ tick = Asleep
  /\ ticks = [unknown |-> 0, stuck |-> 0]
  /\ claimant = [t \in Task |-> None]

Next ==
  \/ \E a \in Agent : \/ Mine(a)
                      \/ \E t \in Task : Claim(a, t)
                      \/ \E t \in Task, v \in Verbs : Report(a, t, v)
                      \/ Die(a)
                      \/ \E g \in HookGates : HookStop(a, g)
                      \/ \E t \in Task : HookBlock(a, t)
  \/ \E r \in Reviewer : \/ \E t \in Task : PickReview(r, t)
                         \/ \E v \in {"pass", "fail"} : GiveReview(r, v)
  \/ \E w \in Judged, t \in Task, a \in Agent \cup {None} : Judge(w, t, a)
  \/ \E w \in Judged : JudgeRun(w)
  \/ \E t \in Task : FallQuiet(t)
  \/ Tick

Spec == Init /\ [][Next]_vars /\ WF_vars(Tick) /\ \A t \in Task : WF_vars(FallQuiet(t))

-----------------------------------------------------------------------------
\* Every variable stays in its type.
AutonomyTypeOK ==
  /\ task \in [Task -> [st : Status \cup {"none"}, owner : Agent \cup {None}, deps : SUBSET Task,
                        attempts : 0 .. MaxAttempts, reassignments : 0 .. MaxReassignments,
                        passed : BOOLEAN, quiet : BOOLEAN]]
  /\ {torn, active, halted} \subseteq BOOLEAN
  /\ hand \in [Agent -> SUBSET Task] /\ plan \in [Agent -> SUBSET Task]
  /\ dead \subseteq Agent /\ owed \subseteq Task /\ blind \subseteq Agent
  /\ \A a \in Agent : marker[a].stale \in 0 .. MaxStale
  /\ eye \in [Reviewer -> Task \cup {None}]
  /\ tick.left \subseteq Task
  /\ ticks \in [unknown : 0 .. GraceTicks, stuck : 0 .. StuckTicksHalt]
  /\ claimant \in [Task -> Agent \cup {None}]

\* No task falls between the lists a tick works from: one that waits to be
\* handed out has no owner (so ready_unassigned offers it), and one that is
\* assigned has one (so open_for shows it), whatever late reports, stalls and
\* claims came before (board.py, tasks).
OfferedOrOwned ==
  \A t \in Task : /\ task[t].st = "todo" => task[t].owner = None
                  /\ task[t].st = "assigned" => task[t].owner # None

\* Work in a participant's hands is not handed to another: the owner of a task
\* is the one whose claim was accepted, until a stall or the chief takes it
\* away (board.py, claim_if_available and assign_if_free against each other).
ClaimantOwns ==
  \A t \in Task : claimant[t] # None => task[t].owner = claimant[t]

\* A task the gate reopened is not reported as finished on an older review: a
\* tick says "done" only if some Fable has passed each such task since, or it is
\* not done at all (fable_gate.py, reviewed_by_fable; the review may come
\* between the gate's look at the board and the reopening).
ReopenedNeedsNewPass ==
  [][tick.pc = "gate" /\ tick'.pc = "done" => \A t \in owed : task[t].st # "done"]_vars

\* A participant that only turns in place is let go: its hook does not prolong
\* its turns for ever while nothing happens on the board, even if the night
\* closes in between (work_drain_stop.py, MAX_STALE and the kept marker).
\* Excepted is one whose hook finds the usage unknown again and again, for then
\* the marker is removed (218) and the count starts at nothing.
DrainGivesUp ==
  \A a \in Agent :
    <>[](a \notin blind) /\ ([]<><<HookStop(a, "ok") /\ marker'[a] # NoMarker>>_vars)
      => []<><<task' # task>>_vars

\* Where no tick can move the run, it has something to show: if a run is not
\* finished and nothing is open, offered or in review, then some task is blocked
\* or reported as unsatisfiable (coordinator.py, triage of next_actions).
NoSilentWedge ==
  \/ OnBoard = {} \/ converged \/ ready_unassigned # {} \/ in_review # {}
  \/ \E t \in Task : task[t].st \in OPEN_STATUSES
  \/ blocked \cup dependency_faults # {}

\* The work of a participant that died is taken from it, as long as the run and
\* the loop that calls the tick go on (orchestrator.py, stall remediation).
StalledComesBack ==
  \A t \in Task :
    (task[t].st \in OPEN_STATUSES /\ task[t].owner \in dead)
      ~> (task[t].st \notin OPEN_STATUSES \/ task[t].owner \notin dead \/ ~ active \/ halted)

=============================================================================
