---------------------------- MODULE AutonomyProofs ----------------------------
(***************************************************************************)
(* What holds of every run of Autonomy: for any tasks, participants, Fables *)
(* and dependencies, any verdicts of the guard and any limits, with deaths, *)
(* torn lines, late reports and the chief at any point between two reads of *)
(* a tick.                                                                  *)
(***************************************************************************)
EXTENDS Autonomy, FiniteSetTheorems, TLAPS

Owner == Agent \cup {None}

TaskState ==
  [st : Status \cup {"none"}, owner : Owner, deps : SUBSET Task,
   attempts : 0 .. MaxAttempts, reassignments : 0 .. MaxReassignments,
   passed : BOOLEAN, quiet : BOOLEAN]

Seen == SUBSET (Task \X (0 .. MaxAttempts) \X (Status \cup {"none"}))

TickState ==
  [pc : {"asleep", "read", "stall", "assign", "acts", "gate", "done", "reopen"},
   usage : TickUsage \cup {"ok"},
   pre : SUBSET [id : Task, owner : Owner, again : BOOLEAN],
   avoid : SUBSET (Task \X Owner), left : SUBSET Task,
   moving : BOOLEAN, done : BOOLEAN, stuck : BOOLEAN]

\* The types of AutonomyTypeOK, with the shape of the markers and of the tick.
BoardTypes == task \in [Task -> TaskState] /\ torn \in BOOLEAN
RunTypes   == active \in BOOLEAN /\ halted \in BOOLEAN
HandTypes  == /\ hand \in [Agent -> SUBSET Task] /\ plan \in [Agent -> SUBSET Task]
              /\ dead \subseteq Agent
              /\ marker \in [Agent -> [sig : Seen, stale : 0 .. MaxStale]]
              /\ eye \in [Reviewer -> Task \cup {None}]
TickTypes  == /\ tick \in TickState
              /\ ticks \in [unknown : 0 .. GraceTicks, stuck : 0 .. StuckTicksHalt]
PastTypes  == claimant \in [Task -> Owner] /\ owed \subseteq Task

\* An id that is not on the board has no claimant.
ClaimInv == /\ ClaimantOwns
            /\ \A t \in Task : task[t].st = "none" => claimant[t] = None

\* What the gate has reopened is not passed by a Fable.
OwedInv == \A t \in owed : ~ task[t].passed

\* A stalled task stands once in what a tick has read, and if it was to be taken
\* away then, it still may be.
PreInv ==
  \A s \in tick.pre : /\ s.again => task[s.id].reassignments < MaxReassignments
                      /\ \A u \in tick.pre : u.id = s.id => u = s

BoardInv    == BoardTypes /\ PastTypes /\ OfferedOrOwned /\ ClaimInv /\ OwedInv /\ PreInv
AutonomyInv == BoardInv /\ RunTypes /\ HandTypes /\ TickTypes

\* What the events do to a task that is not created, handed out, taken away or
\* passed.
Conservative(old, new) ==
  /\ new.owner = old.owner /\ new.reassignments = old.reassignments
  /\ new.passed => old.passed
  /\ new.st \in {"none", "todo", "assigned"} => new.st = old.st

-----------------------------------------------------------------------------
\* The events, as far as the invariant is concerned.
LEMMA MovedIs ==
  ASSUME NEW t \in TaskState, NEW st \in Status \ {"todo", "assigned"}
  PROVE  Moved(t, st) \in TaskState /\ Conservative(t, Moved(t, st))
BY DEF TaskState, Moved, Conservative, Status, OPEN_STATUSES, TERMINAL

LEMMA ReportsAre ==
  ASSUME NEW t \in TaskState, NEW verb \in Verbs, verb = "progress" => t.attempts < MaxAttempts
  PROVE  Reports(verb, t) \in TaskState /\ Conservative(t, Reports(verb, t))
<1>1. verb \in {"start", "progress", "block", "submit", "done"}
  BY AutonomyAssumption
<1>2. CASE verb = "progress"
  <2>1. t.attempts + 1 \in 0 .. MaxAttempts
    BY <1>2, AutonomyAssumption DEF TaskState
  <2>2. Progressed(t) \in TaskState /\ Conservative(t, Progressed(t))
    BY <2>1 DEF TaskState, Progressed, Conservative
  <2> QED  BY <1>2, <2>2 DEF Reports
<1>3. CASE verb # "progress"
  <2>1. {"in_progress", "blocked", "in_review", "done"} \subseteq Status \ {"todo", "assigned"}
    BY DEF Status, OPEN_STATUSES, TERMINAL
  <2> QED  BY <1>1, <1>3, <2>1, MovedIs DEF Reports
<1> QED  BY <1>2, <1>3

LEMMA ReviewedIs ==
  ASSUME NEW t \in TaskState, NEW by, NEW verdict
  PROVE  /\ Reviewed(t, by, verdict) \in TaskState
         /\ verdict = "fail" \/ by \notin Fable => Conservative(t, Reviewed(t, by, verdict))
         /\ Reviewed(t, by, verdict).owner = t.owner
         /\ Reviewed(t, by, verdict).reassignments = t.reassignments
         /\ Reviewed(t, by, verdict).st \in {"in_progress", "done"}
<1>1. (t.passed \/ by \in Fable) \in BOOLEAN
  OBVIOUS
<1>2. by \notin Fable => (t.passed \/ by \in Fable) = t.passed
  BY DEF TaskState
<1> QED
  BY <1>1, <1>2 DEF TaskState, Reviewed, Conservative, Status, OPEN_STATUSES, TERMINAL

LEMMA ReopenedIs ==
  ASSUME NEW t \in TaskState
  PROVE  /\ Reopened(t, "in_review") \in TaskState
         /\ Conservative(t, Reopened(t, "in_review"))
         /\ ~ Reopened(t, "in_review").passed
BY DEF TaskState, Reopened, Conservative, Status, OPEN_STATUSES, TERMINAL

LEMMA AbandonedIs ==
  ASSUME NEW t \in TaskState
  PROVE  Abandoned(t) \in TaskState /\ Conservative(t, Abandoned(t))
BY DEF TaskState, Abandoned, Conservative, Status, OPEN_STATUSES, TERMINAL

LEMMA DepsChangedIs ==
  ASSUME NEW t \in TaskState
  PROVE  DepsChanged(t, {}) \in TaskState /\ Conservative(t, DepsChanged(t, {}))
BY DEF TaskState, DepsChanged, Conservative

LEMMA AssignedIs ==
  ASSUME NEW t \in TaskState, NEW a \in Agent
  PROVE  /\ Assigned(t, a) \in TaskState
         /\ Assigned(t, a).owner = a /\ Assigned(t, a).reassignments = t.reassignments
         /\ Assigned(t, a).passed = t.passed
         /\ Assigned(t, a).st # "todo"
         /\ Assigned(t, a).st = "none" => t.st = "none"
BY DEF TaskState, Assigned, Owner, Status, OPEN_STATUSES, TERMINAL

LEMMA ClaimedIs ==
  ASSUME NEW t \in TaskState, NEW a \in Agent
  PROVE  /\ Claimed(t, a) \in TaskState
         /\ Claimed(t, a).owner = a /\ Claimed(t, a).reassignments = t.reassignments
         /\ Claimed(t, a).passed = t.passed
         /\ Claimed(t, a).st = "in_progress"
BY DEF TaskState, Claimed, Owner, Status, OPEN_STATUSES, TERMINAL

LEMMA UnassignedIs ==
  ASSUME NEW t \in TaskState, t.st \in OPEN_STATUSES, t.reassignments < MaxReassignments
  PROVE  /\ Unassigned(t) \in TaskState
         /\ Unassigned(t).owner = None /\ Unassigned(t).st = "todo"
         /\ Unassigned(t).passed = t.passed
<1>1. t.reassignments + 1 \in 0 .. MaxReassignments
  BY AutonomyAssumption DEF TaskState
<1> QED  BY <1>1 DEF TaskState, Unassigned, Owner, Status, OPEN_STATUSES, TERMINAL

LEMMA CreatedIs ==
  ASSUME NEW t \in TaskState, t.st = "none", NEW a \in Owner, NEW deps \in SUBSET Task
  PROVE  /\ Created(t, a, deps) \in TaskState
         /\ Created(t, a, deps).owner = a
         /\ Created(t, a, deps).st = IF a = None THEN "todo" ELSE "assigned"
         /\ Created(t, a, deps).reassignments = 0
         /\ ~ Created(t, a, deps).passed
<1>1. 0 \in 0 .. MaxAttempts /\ 0 \in 0 .. MaxReassignments
  BY AutonomyAssumption
<1> QED  BY <1>1 DEF TaskState, Created, Folded, Status, OPEN_STATUSES, TERMINAL

-----------------------------------------------------------------------------
\* An event changes one task, or none if the line before it is torn.
LEMMA LogEventIs ==
  ASSUME BoardTypes, NEW t \in Task, NEW new \in TaskState, LogEvent(t, new)
  PROVE  /\ BoardTypes'
         /\ torn => task' = task
         /\ ~ torn => /\ \A u \in Task \ {t} : task'[u] = task[u]
                      /\ task'[t].st = new.st /\ task'[t].owner = new.owner
                      /\ task'[t].passed = new.passed
                      /\ task'[t].reassignments = new.reassignments
<1> DEFINE logged == [new EXCEPT !.quiet = FALSE]
<1>1. logged \in TaskState /\ logged.st = new.st /\ logged.owner = new.owner
      /\ logged.passed = new.passed /\ logged.reassignments = new.reassignments
  BY DEF TaskState
<1>2. task' = (IF torn THEN task ELSE [task EXCEPT ![t] = logged]) /\ torn' = FALSE
  BY DEF LogEvent
<1> HIDE DEF logged
<1>3. CASE torn
  BY <1>2, <1>3 DEF BoardTypes
<1>4. CASE ~ torn
  BY <1>1, <1>2, <1>4 DEF BoardTypes
<1> QED  BY <1>3, <1>4

\* An event keeps the invariant if what it makes of its task fits with what the
\* history says of that task, and with what a tick is about to do with it.
LEMMA EventHolds ==
  ASSUME BoardInv, NEW t \in Task, NEW new \in TaskState, LogEvent(t, new),
         new.st = "todo" => new.owner = None,
         new.st = "assigned" => new.owner # None,
         PastTypes',
         \A u \in Task \ {t} : claimant'[u] = claimant[u],
         owed' \ {t} \subseteq owed,
         tick'.pre \subseteq tick.pre,
         torn => claimant'[t] = claimant[t] /\ owed' \subseteq owed,
         ~ torn => /\ claimant'[t] # None => new.owner = claimant'[t]
                   /\ new.st = "none" => claimant'[t] = None
                   /\ t \in owed' => ~ new.passed
                   /\ \A s \in tick'.pre : s.id = t /\ s.again
                                             => new.reassignments < MaxReassignments
  PROVE  BoardInv'
<1>1. BoardTypes' /\ OfferedOrOwned /\ ClaimInv /\ OwedInv /\ PreInv /\ BoardTypes
  BY LogEventIs DEF BoardInv
<1>2. ASSUME torn PROVE BoardInv'
  <2>1. task' = task
    BY <1>1, <1>2, LogEventIs
  <2>2. \A u \in Task : claimant'[u] = claimant[u]
    BY <1>2
  <2>3. OfferedOrOwned' /\ ClaimInv'
    BY <1>1, <2>1, <2>2 DEF OfferedOrOwned, ClaimInv, ClaimantOwns
  <2>4. OwedInv' /\ PreInv'
    BY <1>1, <1>2, <2>1 DEF OwedInv, PreInv
  <2> QED  BY <1>1, <2>3, <2>4 DEF BoardInv
<1>3. ASSUME ~ torn PROVE BoardInv'
  <2>1. /\ \A u \in Task \ {t} : task'[u] = task[u]
        /\ task'[t].st = new.st /\ task'[t].owner = new.owner
        /\ task'[t].passed = new.passed
        /\ task'[t].reassignments = new.reassignments
    BY <1>1, <1>3, LogEventIs
  <2>2. OfferedOrOwned'
    BY <1>1, <2>1 DEF OfferedOrOwned
  <2>3. ClaimInv'
    BY <1>1, <1>3, <2>1 DEF ClaimInv, ClaimantOwns
  <2>4. OwedInv'
    BY <1>1, <1>3, <2>1 DEF OwedInv, PastTypes
  <2>5. PreInv'
    <3> SUFFICES ASSUME NEW s \in tick'.pre
                 PROVE  /\ s.again => task'[s.id].reassignments < MaxReassignments
                        /\ \A u \in tick'.pre : u.id = s.id => u = s
      BY DEF PreInv
    <3>1. s.again => task[s.id].reassignments < MaxReassignments
      BY <1>1 DEF PreInv
    <3>2. CASE s.id = t
      BY <1>1, <1>3, <2>1, <3>2 DEF PreInv
    <3>3. CASE s.id # t /\ s.id \in Task
      BY <1>1, <2>1, <3>1, <3>3 DEF PreInv
    <3>4. CASE s.id \notin Task
      BY <1>1, <3>1, <3>4, LogEventIs DEF PreInv, LogEvent, BoardTypes
    <3> QED  BY <3>2, <3>3, <3>4
  <2> QED  BY <1>1, <2>2, <2>3, <2>4, <2>5 DEF BoardInv
<1> QED  BY <1>2, <1>3

LEMMA ConservativeHolds ==
  ASSUME BoardInv, NEW t \in Task, NEW new \in TaskState, LogEvent(t, new),
         Conservative(task[t], new), UNCHANGED <<claimant, owed>>,
         tick'.pre \subseteq tick.pre
  PROVE  BoardInv'
<1>1. PastTypes' /\ OfferedOrOwned /\ ClaimInv /\ OwedInv /\ PreInv
  BY DEF BoardInv, PastTypes
<1>2. new.st = "todo" => new.owner = None
  BY <1>1 DEF Conservative, OfferedOrOwned
<1>3. new.st = "assigned" => new.owner # None
  BY <1>1 DEF Conservative, OfferedOrOwned
<1>4. /\ claimant'[t] # None => new.owner = claimant'[t]
      /\ new.st = "none" => claimant'[t] = None
  BY <1>1 DEF Conservative, ClaimInv, ClaimantOwns
<1>5. t \in owed' => ~ new.passed
  BY <1>1 DEF Conservative, OwedInv
<1>6. \A s \in tick'.pre : s.id = t /\ s.again => new.reassignments < MaxReassignments
  BY <1>1 DEF Conservative, PreInv
<1> QED  BY <1>1, <1>2, <1>3, <1>4, <1>5, <1>6, EventHolds

LEMMA SameBoardHolds ==
  ASSUME BoardInv, UNCHANGED <<boardVars, claimant, owed>>, tick'.pre \subseteq tick.pre
  PROVE  BoardInv'
BY DEF BoardInv, boardVars, BoardTypes, PastTypes, OfferedOrOwned, ClaimInv, ClaimantOwns,
       OwedInv, PreInv

-----------------------------------------------------------------------------
\* What is read of the board is made of tasks.
LEMMA QueriesAreTasks ==
  /\ \A a : open_for(a) \subseteq Task
  /\ ready_unassigned \subseteq Task /\ in_review \subseteq Task /\ gate_violations \subseteq Task
BY DEF open_for, ready_unassigned, in_review, gate_violations

LEMMA SignatureIsSeen == ASSUME BoardTypes, NEW a PROVE Signature(a) \in Seen
BY QueriesAreTasks DEF BoardTypes, TaskState, Signature, Seen

\* Participants.
LEMMA MineHolds == ASSUME AutonomyInv, NEW a \in Agent, Mine(a) PROVE AutonomyInv'
<1>1. BoardInv'
  BY SameBoardHolds DEF AutonomyInv, Mine
<1>2. HandTypes'
  BY QueriesAreTasks DEF AutonomyInv, HandTypes, Mine
<1> QED  BY <1>1, <1>2 DEF AutonomyInv, Mine, RunTypes, TickTypes

LEMMA ClaimHolds ==
  ASSUME AutonomyInv, NEW a \in Agent, NEW t \in Task, Claim(a, t)
  PROVE  AutonomyInv'
<1>1. task[t] \in TaskState /\ BoardInv
  BY DEF AutonomyInv, BoardInv, BoardTypes
<1>2. LogEvent(t, Claimed(task[t], a))
  BY DEF Claim, claim_if_available
<1>3. claimant' = IF torn THEN claimant ELSE [claimant EXCEPT ![t] = a]
  BY DEF Claim
<1>4. PastTypes'
  BY <1>1, <1>3 DEF Claim, BoardInv, PastTypes, Owner
<1>5. \A s \in tick'.pre : s.id = t /\ s.again
                             => Claimed(task[t], a).reassignments < MaxReassignments
  BY <1>1, ClaimedIs DEF Claim, BoardInv, PreInv
<1>6. t \in owed' => ~ Claimed(task[t], a).passed
  BY <1>1, ClaimedIs DEF Claim, BoardInv, OwedInv
<1>7. ~ torn => claimant'[t] = a
  BY <1>1, <1>3 DEF BoardInv, PastTypes
<1>8. \A u \in Task \ {t} : claimant'[u] = claimant[u]
  BY <1>1, <1>3 DEF BoardInv, PastTypes
<1>9. BoardInv'
  BY <1>1, <1>2, <1>3, <1>4, <1>5, <1>6, <1>7, <1>8, ClaimedIs, EventHolds DEF Claim
<1>10. HandTypes'
  BY DEF AutonomyInv, HandTypes, Claim
<1> QED  BY <1>9, <1>10 DEF AutonomyInv, Claim, RunTypes, TickTypes

LEMMA ReportHolds ==
  ASSUME AutonomyInv, NEW a \in Agent, NEW t \in Task, NEW v \in Verbs, Report(a, t, v)
  PROVE  AutonomyInv'
<1>1. task[t] \in TaskState /\ BoardInv
  BY DEF AutonomyInv, BoardInv, BoardTypes
<1>2. BoardInv'
  BY <1>1, ReportsAre, ConservativeHolds DEF Report, SameClaim
<1>3. HandTypes'
  BY DEF AutonomyInv, HandTypes, Report
<1> QED  BY <1>2, <1>3 DEF AutonomyInv, Report, RunTypes, TickTypes

LEMMA DieHolds == ASSUME AutonomyInv, NEW a \in Agent, Die(a) PROVE AutonomyInv'
<1>1. BoardInv'
  BY DEF Die, AutonomyInv, BoardInv, BoardTypes, PastTypes, OfferedOrOwned, ClaimInv,
         ClaimantOwns, OwedInv, PreInv
<1>2. HandTypes'
  BY DEF AutonomyInv, HandTypes, Die
<1> QED  BY <1>1, <1>2 DEF AutonomyInv, Die, RunTypes, TickTypes

\* The Stop hook.  A count that reaches MaxStale is not written.
LEMMA HookStopHolds ==
  ASSUME AutonomyInv, NEW a \in Agent, NEW g \in HookGates, HookStop(a, g)
  PROVE  AutonomyInv'
<1>1. BoardInv'
  BY SameBoardHolds DEF AutonomyInv, HookStop
<1>2. NoMarker \in [sig : Seen, stale : 0 .. MaxStale]
  BY AutonomyAssumption DEF NoMarker, Seen
<1>3. Staleness(a) \in Nat
  BY AutonomyAssumption DEF AutonomyInv, HandTypes, Staleness
<1>4. Staleness(a) < MaxStale
        => [sig |-> Signature(a), stale |-> Staleness(a)] \in [sig : Seen, stale : 0 .. MaxStale]
  BY <1>3, SignatureIsSeen, AutonomyAssumption DEF AutonomyInv, BoardInv
<1>5. marker' \in [Agent -> [sig : Seen, stale : 0 .. MaxStale]]
  BY <1>2, <1>4 DEF AutonomyInv, HandTypes, HookStop
<1>6. hand' \in [Agent -> SUBSET Task] /\ plan' \in [Agent -> SUBSET Task]
  BY QueriesAreTasks DEF AutonomyInv, HandTypes, HookStop
<1>7. HandTypes'
  BY <1>5, <1>6 DEF AutonomyInv, HandTypes, HookStop
<1> QED  BY <1>1, <1>7 DEF AutonomyInv, HookStop, RunTypes, TickTypes

LEMMA BlockedIsStatus == /\ "blocked" \in Status \ {"todo", "assigned"}
                         /\ "in_progress" \in Status \ {"todo", "assigned"}
BY DEF Status, OPEN_STATUSES, TERMINAL

LEMMA HookBlockHolds ==
  ASSUME AutonomyInv, NEW a \in Agent, NEW t \in Task, HookBlock(a, t)
  PROVE  AutonomyInv'
<1>1. task[t] \in TaskState /\ BoardInv
  BY DEF AutonomyInv, BoardInv, BoardTypes
<1>2. BoardInv'
  BY <1>1, BlockedIsStatus, MovedIs, ConservativeHolds DEF HookBlock, SameClaim
<1>3. HandTypes'
  BY DEF AutonomyInv, HandTypes, HookBlock
<1> QED  BY <1>2, <1>3 DEF AutonomyInv, HookBlock, RunTypes, TickTypes

-----------------------------------------------------------------------------
\* Reviewers.
LEMMA PickReviewHolds ==
  ASSUME AutonomyInv, NEW r \in Reviewer, NEW t \in Task, PickReview(r, t)
  PROVE  AutonomyInv'
<1>1. BoardInv'
  BY SameBoardHolds DEF AutonomyInv, PickReview
<1>2. HandTypes'
  BY DEF AutonomyInv, HandTypes, PickReview
<1> QED  BY <1>1, <1>2 DEF AutonomyInv, PickReview, RunTypes, TickTypes

LEMMA GiveReviewHolds ==
  ASSUME AutonomyInv, NEW r \in Reviewer, NEW v \in {"pass", "fail"}, GiveReview(r, v)
  PROVE  AutonomyInv'
<1> DEFINE t == eye[r]
           new == Reviewed(task[t], r, v)
<1>1. t \in Task
  BY DEF AutonomyInv, HandTypes, GiveReview
<1>2. task[t] \in TaskState /\ BoardInv
  BY <1>1 DEF AutonomyInv, BoardInv, BoardTypes
<1>3. new \in TaskState /\ LogEvent(t, new)
  BY <1>2, ReviewedIs DEF GiveReview
<1>4. HandTypes'
  BY DEF AutonomyInv, HandTypes, GiveReview
<1>5. CASE v = "pass" /\ r \in Fable
  <2>1. owed' = owed \ {t} /\ UNCHANGED <<claimant, tick>>
    BY <1>5 DEF GiveReview
  <2>2. /\ new.owner = task[t].owner /\ new.reassignments = task[t].reassignments
        /\ new.st \in {"in_progress", "done"}
    BY <1>2, ReviewedIs
  <2> HIDE DEF new
  <2>3. PastTypes'
    BY <1>2, <2>1 DEF BoardInv, PastTypes
  <2>4. claimant'[t] # None => new.owner = claimant'[t]
    BY <1>1, <1>2, <2>1, <2>2 DEF BoardInv, ClaimInv, ClaimantOwns
  <2>5. \A s \in tick'.pre : s.id = t /\ s.again => new.reassignments < MaxReassignments
    BY <1>2, <2>1, <2>2 DEF BoardInv, PreInv
  <2>6. BoardInv'
    BY <1>1, <1>2, <1>3, <2>1, <2>2, <2>3, <2>4, <2>5, EventHolds
  <2> QED  BY <1>4, <2>6 DEF AutonomyInv, GiveReview, RunTypes, TickTypes
<1>6. CASE ~ (v = "pass" /\ r \in Fable)
  <2>1. Conservative(task[t], new)
    BY <1>2, <1>6, ReviewedIs
  <2>2. UNCHANGED <<claimant, owed, tick>>
    BY <1>6 DEF GiveReview
  <2> HIDE DEF new
  <2>3. BoardInv'
    BY <1>1, <1>2, <1>3, <2>1, <2>2, ConservativeHolds
  <2> QED  BY <1>4, <2>3 DEF AutonomyInv, GiveReview, RunTypes, TickTypes
<1> QED  BY <1>5, <1>6

-----------------------------------------------------------------------------
\* The chief.
LEMMA JudgeHolds ==
  ASSUME AutonomyInv, NEW w \in Judged, NEW t \in Task, NEW a \in Agent \cup {None},
         Judge(w, t, a)
  PROVE  AutonomyInv'
<1>1. task[t] \in TaskState /\ BoardInv /\ a \in Owner
  BY DEF AutonomyInv, BoardInv, BoardTypes, Owner
<1>2. UNCHANGED <<owed, tick>>
  BY DEF Judge
<1>3. w # "assign" => claimant' = claimant
  BY <1>1 DEF Judge, BoardInv, PastTypes
<1>4. BoardInv'
  <2>1. CASE w = "create"
    <3> DEFINE new == Created(task[t], a, Deps[t])
    <3>1. task[t].st = "none" /\ LogEvent(t, new)
      BY <2>1 DEF Judge, create_task
    <3>2. Deps[t] \in SUBSET Task
      BY AutonomyAssumption
    <3>3. /\ new \in TaskState /\ new.owner = a /\ new.reassignments = 0 /\ ~ new.passed
          /\ new.st = IF a = None THEN "todo" ELSE "assigned"
      BY <1>1, <3>1, <3>2, CreatedIs
    <3> HIDE DEF new
    <3>4. claimant'[t] = None
      BY <1>1, <1>3, <2>1, <3>1 DEF BoardInv, ClaimInv
    <3>5. \A s \in tick'.pre : s.id = t /\ s.again => new.reassignments < MaxReassignments
      <4>1. task[t].reassignments >= 0 /\ MaxReassignments \in Nat
        BY <1>1, AutonomyAssumption DEF TaskState
      <4>2. task[t].reassignments \in Nat
        BY <1>1, AutonomyAssumption DEF TaskState
      <4> QED  BY <1>1, <1>2, <3>3, <4>1, <4>2 DEF BoardInv, PreInv
    <3>6. PastTypes'
      BY <1>1, <1>2, <1>3, <2>1 DEF BoardInv, PastTypes
    <3> QED  BY <1>1, <1>2, <1>3, <2>1, <3>1, <3>3, <3>4, <3>5, <3>6, EventHolds
  <2>2. CASE w = "assign"
    <3> DEFINE new == Assigned(task[t], a)
    <3>1. a \in Agent /\ t \in OnBoard /\ LogEvent(t, new)
      BY <2>2 DEF Judge
    <3>2. claimant' = [claimant EXCEPT ![t] = IF ~ torn THEN None ELSE @]
      BY <2>2 DEF Judge
    <3>3. /\ new \in TaskState /\ new.owner = a /\ new.st # "todo"
          /\ new.reassignments = task[t].reassignments /\ new.passed = task[t].passed
      BY <1>1, <3>1, AssignedIs
    <3> HIDE DEF new
    <3>4. PastTypes'
      BY <1>1, <1>2, <3>2 DEF BoardInv, PastTypes, Owner
    <3>5. /\ \A u \in Task \ {t} : claimant'[u] = claimant[u]
          /\ torn => claimant'[t] = claimant[t]
          /\ ~ torn => claimant'[t] = None
      BY <1>1, <3>2 DEF BoardInv, PastTypes
    <3>6. \A s \in tick'.pre : s.id = t /\ s.again => new.reassignments < MaxReassignments
      BY <1>1, <1>2, <3>3 DEF BoardInv, PreInv
    <3>7. t \in owed' => ~ new.passed
      BY <1>1, <1>2, <3>3 DEF BoardInv, OwedInv
    <3>8. new.owner # None
      BY <3>1, <3>3, BoardAssumption
    <3> QED  BY <1>1, <1>2, <3>1, <3>3, <3>4, <3>5, <3>6, <3>7, <3>8, EventHolds
  <2>3. CASE w = "unblock"
    BY <1>1, <1>2, <1>3, <2>3, BlockedIsStatus, MovedIs, ConservativeHolds DEF Judge
  <2>4. CASE w = "abandon"
    <3>1. LogEvent(t, Abandoned(task[t]))
      BY <2>4 DEF Judge, OnBoard, abandon
    <3> QED  BY <1>1, <1>2, <1>3, <2>4, <3>1, AbandonedIs, ConservativeHolds
  <2>5. CASE w = "deps"
    BY <1>1, <1>2, <1>3, <2>5, DepsChangedIs, ConservativeHolds DEF Judge
  <2> QED  BY <2>1, <2>2, <2>3, <2>4, <2>5 DEF Judge
<1> QED  BY <1>4 DEF AutonomyInv, Judge, RunTypes, HandTypes, TickTypes

LEMMA JudgeRunHolds == ASSUME AutonomyInv, NEW w \in Judged, JudgeRun(w) PROVE AutonomyInv'
<1>1. BoardInv'
  BY SameBoardHolds DEF AutonomyInv, JudgeRun
<1>2. RunTypes'
  BY DEF AutonomyInv, RunTypes, JudgeRun
<1> QED  BY <1>1, <1>2 DEF AutonomyInv, JudgeRun, HandTypes, TickTypes

LEMMA FallQuietHolds == ASSUME AutonomyInv, NEW t \in Task, FallQuiet(t) PROVE AutonomyInv'
<1> DEFINE new == [task[t] EXCEPT !.quiet = TRUE]
<1>1. task[t] \in TaskState /\ BoardInv
  BY DEF AutonomyInv, BoardInv, BoardTypes
<1>2. /\ new \in TaskState /\ new.st = task[t].st /\ new.owner = task[t].owner
      /\ new.passed = task[t].passed /\ new.reassignments = task[t].reassignments
  BY <1>1 DEF TaskState
<1>3. task' = [task EXCEPT ![t] = new] /\ UNCHANGED <<torn, tick, claimant, owed>>
  BY DEF FallQuiet
<1> HIDE DEF new
<1>4. BoardTypes' /\ PastTypes'
  BY <1>1, <1>2, <1>3 DEF BoardInv, BoardTypes, PastTypes
<1>5. \A u \in Task : /\ task'[u].st = task[u].st /\ task'[u].owner = task[u].owner
                      /\ task'[u].passed = task[u].passed
                      /\ task'[u].reassignments = task[u].reassignments
  BY <1>1, <1>2, <1>3 DEF BoardInv, BoardTypes
<1>6. OfferedOrOwned' /\ ClaimInv'
  BY <1>1, <1>3, <1>5 DEF BoardInv, OfferedOrOwned, ClaimInv, ClaimantOwns
<1>7. OwedInv'
  BY <1>1, <1>3, <1>5 DEF BoardInv, OwedInv, PastTypes
<1>8. PreInv'
  BY <1>1, <1>3, <1>5 DEF AutonomyInv, BoardInv, PreInv, TickTypes, TickState
<1> QED  BY <1>4, <1>6, <1>7, <1>8 DEF AutonomyInv, BoardInv, FallQuiet, RunTypes, HandTypes,
                                         TickTypes

-----------------------------------------------------------------------------
\* The tick.
LEMMA TickStartHolds ==
  ASSUME AutonomyInv, NEW usage \in TickUsage, TickStart(usage) PROVE AutonomyInv'
<1>1. tick' \in TickState /\ tick'.pre = tick.pre
  <2>1. tick' = tick \/ tick' = [tick EXCEPT !.pc = "read", !.usage = usage]
    BY DEF TickStart
  <2> QED  BY <2>1 DEF AutonomyInv, TickTypes, TickState
<1>2. BoardInv'
  BY <1>1, SameBoardHolds DEF AutonomyInv, TickStart, Reads
<1>3. halted' = TRUE \/ halted' = halted
  BY DEF TickStart
<1> QED  BY <1>1, <1>2, <1>3 DEF AutonomyInv, TickStart, Reads, TickOnly, RunTypes, HandTypes, TickTypes

LEMMA TickPreHolds == ASSUME AutonomyInv, TickPre PROVE AutonomyInv'
<1> DEFINE stalled == {u \in Task : task[u].st \in OPEN_STATUSES /\ task[u].quiet}
           seen(t) == [id |-> t, owner |-> task[t].owner, again |-> MayReassign(t)]
<1>1. tick' = [tick EXCEPT !.pc = "stall", !.pre = {seen(t) : t \in stalled}]
  BY DEF TickPre
<1>2. BoardInv /\ \A t \in Task : task[t] \in TaskState
  BY DEF AutonomyInv, BoardInv, BoardTypes
<1>3. \A t \in stalled : seen(t) \in [id : Task, owner : Owner, again : BOOLEAN]
  BY <1>2 DEF MayReassign, TaskState
<1>4. tick' \in TickState /\ tick'.pre = {seen(t) : t \in stalled}
  <2> DEFINE P == {seen(t) : t \in stalled}
  <2>1. P \in SUBSET [id : Task, owner : Owner, again : BOOLEAN]
    BY <1>3
  <2>2. tick' = [tick EXCEPT !.pc = "stall", !.pre = P]
    BY <1>1
  <2> HIDE DEF P
  <2>3. tick' \in TickState /\ tick'.pre = P
    BY <2>1, <2>2 DEF AutonomyInv, TickTypes, TickState
  <2> QED  BY <2>3 DEF P
<1>5. PreInv'
  <2> SUFFICES ASSUME NEW s \in tick'.pre
               PROVE  /\ s.again => task'[s.id].reassignments < MaxReassignments
                      /\ \A u \in tick'.pre : u.id = s.id => u = s
    BY DEF PreInv
  <2>1. PICK t \in stalled : s = seen(t)
    BY <1>4
  <2>2. \A u \in tick'.pre : u = seen(u.id)
    BY <1>4
  <2>3. task' = task
    BY DEF TickPre, Reads, boardVars
  <2> QED  BY <2>1, <2>2, <2>3 DEF MayReassign
<1>6. BoardInv'
  BY <1>2, <1>5 DEF TickPre, Reads, boardVars, BoardInv, BoardTypes, PastTypes, OfferedOrOwned,
                    ClaimInv, ClaimantOwns, OwedInv
<1> QED  BY <1>4, <1>6 DEF AutonomyInv, TickPre, Reads, TickOnly, RunTypes, HandTypes, TickTypes

\* What was read of a stalled task is old by now: it is taken away only if it is
\* open still, and blocked whatever it is.
LEMMA TickStallHolds == ASSUME AutonomyInv, NEW s \in tick.pre, TickStall(s) PROVE AutonomyInv'
<1>1. s \in [id : Task, owner : Owner, again : BOOLEAN]
  BY DEF AutonomyInv, TickTypes, TickState
<1>2. s.id \in Task /\ s.owner \in Owner /\ s.again \in BOOLEAN
  BY <1>1
<1>3. task[s.id] \in TaskState /\ BoardInv
  BY <1>2 DEF AutonomyInv, BoardInv, BoardTypes
<1>4. tick' \in TickState /\ tick'.pre = tick.pre \ {s}
  <2> DEFINE A == tick.avoid \cup (IF s.again THEN {<<s.id, s.owner>>} ELSE {})
  <2>1. A \in SUBSET (Task \X Owner)
    BY <1>2 DEF AutonomyInv, TickTypes, TickState
  <2>2. tick' = [tick EXCEPT !.pre = tick.pre \ {s}, !.avoid = A]
    BY DEF TickStall
  <2> HIDE DEF A
  <2> QED  BY <2>1, <2>2 DEF AutonomyInv, TickTypes, TickState
<1>5. UNCHANGED <<active, hand, dead, plan, marker, eye, halted, ticks, owed>>
  BY DEF TickStall, TickOnly
<1>6. BoardInv'
  <2>1. CASE ~ s.again
    <3>1. LogEvent(s.id, Moved(task[s.id], "blocked"))
      BY <2>1 DEF TickStall
    <3>2. claimant' = claimant
      BY <1>3, <2>1 DEF TickStall, BoardInv, PastTypes
    <3> QED  BY <1>2, <1>3, <1>4, <1>5, <3>1, <3>2, BlockedIsStatus, MovedIs, ConservativeHolds
  <2>2. CASE s.again /\ task[s.id].st \notin OPEN_STATUSES
    <3>1. UNCHANGED boardVars
      BY <2>2 DEF TickStall, unassign
    <3>2. claimant' = claimant
      BY <1>3, <2>2 DEF TickStall, BoardInv, PastTypes
    <3> QED  BY <1>3, <1>4, <1>5, <3>1, <3>2, SameBoardHolds
  <2>3. CASE s.again /\ task[s.id].st \in OPEN_STATUSES
    <3> DEFINE new == Unassigned(task[s.id])
    <3>1. LogEvent(s.id, new)
      BY <2>3 DEF TickStall, unassign
    <3>2. claimant' = [claimant EXCEPT ![s.id] = IF ~ torn THEN None ELSE @]
      BY <2>3 DEF TickStall
    <3>3. task[s.id].reassignments < MaxReassignments
      BY <1>3, <2>3 DEF BoardInv, PreInv
    <3>4. /\ new \in TaskState /\ new.owner = None /\ new.st = "todo"
          /\ new.passed = task[s.id].passed
      BY <1>3, <2>3, <3>3, UnassignedIs
    <3> HIDE DEF new
    <3>5. PastTypes'
      BY <1>2, <1>3, <1>5, <3>2 DEF BoardInv, PastTypes, Owner
    <3>6. /\ \A u \in Task \ {s.id} : claimant'[u] = claimant[u]
          /\ torn => claimant'[s.id] = claimant[s.id]
          /\ ~ torn => claimant'[s.id] = None
      BY <1>2, <1>3, <3>2 DEF BoardInv, PastTypes
    <3>7. \A u \in tick'.pre : u.id # s.id
      BY <1>3, <1>4 DEF BoardInv, PreInv
    <3>8. s.id \in owed' => ~ new.passed
      BY <1>3, <1>5, <3>4 DEF BoardInv, OwedInv
    <3> QED  BY <1>2, <1>3, <1>4, <1>5, <3>1, <3>4, <3>5, <3>6, <3>7, <3>8, EventHolds
  <2> QED  BY <1>2, <2>1, <2>2, <2>3
<1> QED  BY <1>4, <1>5, <1>6 DEF AutonomyInv, RunTypes, HandTypes, TickTypes

LEMMA TickReadyHolds == ASSUME AutonomyInv, TickReady PROVE AutonomyInv'
<1>1. tick' \in TickState /\ tick'.pre = tick.pre
  BY QueriesAreTasks DEF AutonomyInv, TickTypes, TickState, TickReady
<1>2. BoardInv'
  BY <1>1, SameBoardHolds DEF AutonomyInv, TickReady, Reads
<1> QED  BY <1>1, <1>2 DEF AutonomyInv, TickReady, Reads, TickOnly, RunTypes, HandTypes, TickTypes

\* A task without an owner has no claimant: the assignment takes it from nobody.
LEMMA TickAssignHolds ==
  ASSUME AutonomyInv, NEW t \in Task, NEW a \in Agent, TickAssign(t, a)
  PROVE  AutonomyInv'
<1>1. task[t] \in TaskState /\ BoardInv
  BY DEF AutonomyInv, BoardInv, BoardTypes
<1>2. tick' \in TickState /\ tick'.pre = tick.pre
  BY DEF AutonomyInv, TickTypes, TickState, TickAssign
<1>3. UNCHANGED <<active, hand, dead, plan, marker, eye, halted, ticks, claimant, owed>>
  BY DEF TickAssign, SameClaim, TickOnly
<1>4. CASE task[t].st = "todo" /\ task[t].owner = None
  <2> DEFINE new == Assigned(task[t], a)
  <2>1. LogEvent(t, new)
    BY <1>4 DEF TickAssign, assign_if_free
  <2>2. /\ new \in TaskState /\ new.owner = a /\ new.st # "todo" /\ new.st # "none"
        /\ new.reassignments = task[t].reassignments /\ new.passed = task[t].passed
    BY <1>1, <1>4, AssignedIs
  <2> HIDE DEF new
  <2>3. claimant'[t] = None
    BY <1>1, <1>3, <1>4 DEF BoardInv, ClaimInv, ClaimantOwns
  <2>4. \A s \in tick'.pre : s.id = t /\ s.again => new.reassignments < MaxReassignments
    BY <1>1, <1>2, <2>2 DEF BoardInv, PreInv
  <2>5. t \in owed' => ~ new.passed
    BY <1>1, <1>3, <2>2 DEF BoardInv, OwedInv
  <2>6. PastTypes' /\ new.owner # None
    BY <1>1, <1>3, <2>2, BoardAssumption DEF BoardInv, PastTypes
  <2>7. BoardInv'
    BY <1>1, <1>2, <1>3, <2>1, <2>2, <2>3, <2>4, <2>5, <2>6, EventHolds
  <2> QED  BY <1>2, <1>3, <2>7 DEF AutonomyInv, RunTypes, HandTypes, TickTypes
<1>5. CASE ~ (task[t].st = "todo" /\ task[t].owner = None)
  <2>1. UNCHANGED boardVars
    BY <1>5 DEF TickAssign, assign_if_free
  <2>2. BoardInv'
    BY <1>1, <1>2, <1>3, <2>1, SameBoardHolds
  <2> QED  BY <1>2, <1>3, <2>2 DEF AutonomyInv, RunTypes, HandTypes, TickTypes
<1> QED  BY <1>4, <1>5

LEMMA TickSituationHolds == ASSUME AutonomyInv, TickSituation PROVE AutonomyInv'
<1>1. tick' \in TickState /\ tick'.pre = tick.pre
  <2> DEFINE moves == \E t \in Task :
               task[t].st \in OPEN_STATUSES /\ (task[t].owner # None \/ task[t].quiet)
  <2>1. tick' = [tick EXCEPT !.pc = "acts", !.avoid = {}, !.moving = moves] /\ moves \in BOOLEAN
    BY DEF TickSituation
  <2> HIDE DEF moves
  <2> QED  BY <2>1 DEF AutonomyInv, TickTypes, TickState
<1>2. BoardInv'
  BY <1>1, SameBoardHolds DEF AutonomyInv, TickSituation, Reads
<1> QED  BY <1>1, <1>2 DEF AutonomyInv, TickSituation, Reads, TickOnly, RunTypes, HandTypes,
                           TickTypes

LEMMA TickActsHolds == ASSUME AutonomyInv, TickActs PROVE AutonomyInv'
<1>1. tick' \in TickState /\ tick'.pre = tick.pre
  <2> DEFINE d == active /\ converged
             s == active /\ ~ converged /\ ~ tick.moving
                    /\ ready_unassigned = {} /\ in_review = {}
  <2>1. tick' = [tick EXCEPT !.pc = "gate", !.done = d, !.stuck = s]
    BY DEF TickActs
  <2>2. d \in BOOLEAN /\ s \in BOOLEAN
    OBVIOUS
  <2> HIDE DEF d, s
  <2> QED  BY <2>1, <2>2 DEF AutonomyInv, TickTypes, TickState
<1>2. BoardInv'
  BY <1>1, SameBoardHolds DEF AutonomyInv, TickActs, Reads
<1> QED  BY <1>1, <1>2 DEF AutonomyInv, TickActs, Reads, TickOnly, RunTypes, HandTypes, TickTypes

LEMMA CountCounts ==
  ASSUME NEW bound \in Nat, NEW n \in 0 .. bound
  PROVE  Count(n, bound) \in 0 .. bound
BY DEF Count

LEMMA AsleepIsTyped == Asleep \in TickState /\ Asleep.pre = {}
BY DEF Asleep, TickState

LEMMA TickGateHolds == ASSUME AutonomyInv, TickGate PROVE AutonomyInv'
<1>1. tick' \in TickState /\ tick'.pre = {}
  <2>1. tick' = Asleep \/ tick' = [Asleep EXCEPT !.pc = "done", !.left = gate_violations]
                       \/ tick' = [Asleep EXCEPT !.pc = "reopen", !.left = gate_violations]
    BY DEF TickGate
  <2> QED  BY <2>1, AsleepIsTyped, QueriesAreTasks DEF TickState
<1>2. ticks' \in [unknown : 0 .. GraceTicks, stuck : 0 .. StuckTicksHalt]
  <2>1. ticks \in [unknown : 0 .. GraceTicks, stuck : 0 .. StuckTicksHalt]
        /\ GraceTicks \in Nat /\ StuckTicksHalt \in Nat
    BY AutonomyAssumption DEF AutonomyInv, TickTypes
  <2>2. /\ Count(ticks.unknown, GraceTicks) \in 0 .. GraceTicks /\ 0 \in 0 .. GraceTicks
        /\ Count(ticks.stuck, StuckTicksHalt) \in 0 .. StuckTicksHalt /\ 0 \in 0 .. StuckTicksHalt
    BY <2>1, CountCounts
  <2> QED  BY <2>1, <2>2 DEF TickGate
<1>3. halted' \in BOOLEAN
  <2>1. CASE tick.done
    BY <2>1 DEF TickGate, AutonomyInv, RunTypes
  <2>2. CASE ~ tick.done /\ tick.usage = "unknown"
    <3>1. halted' = (ticks'.unknown >= GraceTicks)
      BY <2>2 DEF TickGate
    <3> QED  BY <3>1
  <2>3. CASE ~ tick.done /\ tick.usage # "unknown"
    <3>1. halted' = (tick.stuck /\ ticks'.stuck >= StuckTicksHalt)
      BY <2>3 DEF TickGate
    <3> QED  BY <3>1
  <2> QED  BY <2>1, <2>2, <2>3
<1>4. BoardInv'
  BY <1>1, SameBoardHolds DEF AutonomyInv, TickGate, Reads
<1> QED  BY <1>1, <1>2, <1>3, <1>4 DEF AutonomyInv, TickGate, Reads, TickOnly, RunTypes, HandTypes,
                                       TickTypes

\* A reopened task is owed a pass, and has none.
LEMMA TickReopenHolds == ASSUME AutonomyInv, NEW t \in Task, TickReopen(t) PROVE AutonomyInv'
<1>1. task[t] \in TaskState /\ BoardInv
  BY DEF AutonomyInv, BoardInv, BoardTypes
<1>2. tick' \in TickState /\ tick'.pre = tick.pre
  BY DEF AutonomyInv, TickTypes, TickState, TickReopen
<1>3. UNCHANGED <<active, hand, dead, plan, marker, eye, halted, ticks, claimant>>
  BY DEF TickReopen, TickOnly
<1>4. owed' = IF task[t].st = "done" /\ ~ torn THEN owed \cup {t} ELSE owed
  BY DEF TickReopen
<1>5. CASE task[t].st = "done"
  <2> DEFINE new == Reopened(task[t], "in_review")
  <2>1. LogEvent(t, new)
    BY <1>5 DEF TickReopen, reopen
  <2>2. new \in TaskState /\ Conservative(task[t], new) /\ ~ new.passed
    BY <1>1, ReopenedIs
  <2> HIDE DEF new
  <2>3. new.st \notin {"none", "todo", "assigned"}
    BY <1>5, <2>2 DEF Conservative
  <2>4. claimant'[t] # None => new.owner = claimant'[t]
    BY <1>1, <1>3, <2>2 DEF Conservative, BoardInv, ClaimInv, ClaimantOwns
  <2>5. \A s \in tick'.pre : s.id = t /\ s.again => new.reassignments < MaxReassignments
    BY <1>1, <1>2, <2>2 DEF Conservative, BoardInv, PreInv
  <2>6. PastTypes'
    BY <1>1, <1>3, <1>4 DEF BoardInv, PastTypes
  <2>7. BoardInv'
    BY <1>1, <1>2, <1>3, <1>4, <2>1, <2>2, <2>3, <2>4, <2>5, <2>6, EventHolds
  <2> QED  BY <1>2, <1>3, <2>7 DEF AutonomyInv, RunTypes, HandTypes, TickTypes
<1>6. CASE task[t].st # "done"
  <2>1. UNCHANGED boardVars /\ owed' = owed
    BY <1>4, <1>6 DEF TickReopen, reopen
  <2>2. BoardInv'
    BY <1>1, <1>2, <1>3, <2>1, SameBoardHolds
  <2> QED  BY <1>2, <1>3, <2>2 DEF AutonomyInv, RunTypes, HandTypes, TickTypes
<1> QED  BY <1>5, <1>6

LEMMA EndConvergedHolds == ASSUME AutonomyInv, EndConverged PROVE AutonomyInv'
<1>1. BoardInv'
  BY AsleepIsTyped, SameBoardHolds DEF AutonomyInv, EndConverged
<1> QED  BY <1>1, AsleepIsTyped DEF AutonomyInv, EndConverged, RunTypes, HandTypes, TickTypes

-----------------------------------------------------------------------------
LEMMA InitHolds == Init => AutonomyInv
<1> SUFFICES ASSUME Init PROVE AutonomyInv  OBVIOUS
<1>1. \A st \in {"none", "todo"}, d \in SUBSET Task :
        /\ Folded(st, None, d) \in TaskState /\ Folded(st, None, d).owner = None
        /\ Folded(st, None, d).st = st
  <2>1. 0 \in 0 .. MaxAttempts /\ 0 \in 0 .. MaxReassignments
    BY AutonomyAssumption
  <2> QED  BY <2>1 DEF Folded, TaskState, Owner, Status
<1>2. \A t \in Task : /\ task[t] \in TaskState /\ task[t].owner = None
                      /\ task[t].st \in {"none", "todo"}
  BY <1>1, AutonomyAssumption DEF Init
<1>3. BoardTypes
  BY <1>2 DEF Init, BoardTypes
<1>4. PastTypes /\ owed = {} /\ \A t \in Task : claimant[t] = None
  BY DEF Init, PastTypes, Owner
<1>5. tick = Asleep
  BY DEF Init
<1>6. BoardInv
  BY <1>2, <1>3, <1>4, <1>5, AsleepIsTyped
     DEF BoardInv, OfferedOrOwned, ClaimInv, ClaimantOwns, OwedInv, PreInv
<1>7. NoMarker \in [sig : Seen, stale : 0 .. MaxStale]
  BY AutonomyAssumption DEF NoMarker, Seen
<1>8. HandTypes
  BY <1>7 DEF Init, HandTypes
<1>9. TickTypes
  <2>1. 0 \in 0 .. GraceTicks /\ 0 \in 0 .. StuckTicksHalt
    BY AutonomyAssumption
  <2> QED  BY <1>5, <2>1, AsleepIsTyped DEF Init, TickTypes
<1> QED  BY <1>6, <1>8, <1>9 DEF AutonomyInv, RunTypes, Init

\* The invariant is inductive.
LEMMA NextHolds == AutonomyInv /\ [Next]_vars => AutonomyInv'
<1> SUFFICES ASSUME AutonomyInv, [Next]_vars PROVE AutonomyInv'  OBVIOUS
<1>1. CASE Tick
  BY <1>1, TickStartHolds, TickPreHolds, TickStallHolds, TickReadyHolds, TickAssignHolds,
     TickSituationHolds, TickActsHolds, TickGateHolds, TickReopenHolds, EndConvergedHolds DEF Tick
<1>2. ASSUME NEW a \in Agent,
             \/ Mine(a) \/ Die(a)
             \/ \E t \in Task : Claim(a, t)
             \/ \E t \in Task, v \in Verbs : Report(a, t, v)
             \/ \E g \in HookGates : HookStop(a, g)
             \/ \E t \in Task : HookBlock(a, t)
      PROVE  AutonomyInv'
  BY <1>2, MineHolds, DieHolds, ClaimHolds, ReportHolds, HookStopHolds, HookBlockHolds
<1>3. ASSUME NEW r \in Reviewer,
             \/ \E t \in Task : PickReview(r, t)
             \/ \E v \in {"pass", "fail"} : GiveReview(r, v)
      PROVE  AutonomyInv'
  BY <1>3, PickReviewHolds, GiveReviewHolds
<1>4. CASE \E w \in Judged, t \in Task, a \in Agent \cup {None} : Judge(w, t, a)
  BY <1>4, JudgeHolds
<1>5. CASE \E w \in Judged : JudgeRun(w)
  BY <1>5, JudgeRunHolds
<1>6. CASE \E t \in Task : FallQuiet(t)
  BY <1>6, FallQuietHolds
<1>7. CASE UNCHANGED vars
  <2>1. BoardInv'
    BY <1>7, SameBoardHolds DEF AutonomyInv, vars
  <2> QED  BY <1>7, <2>1 DEF AutonomyInv, vars, RunTypes, HandTypes, TickTypes
<1> QED  BY <1>1, <1>2, <1>3, <1>4, <1>5, <1>6, <1>7 DEF Next

LEMMA InvHolds == Spec => []AutonomyInv
BY InitHolds, NextHolds, PTL DEF Spec

\* The history of unknown usage, which nothing else depends on.
LEMMA BlindIsTyped == Spec => [](blind \subseteq Agent)
<1>1. Init => blind \subseteq Agent
  BY DEF Init
<1>2. blind \subseteq Agent /\ [Next]_vars => (blind \subseteq Agent)'
  <2> SUFFICES ASSUME blind \subseteq Agent, [Next]_vars PROVE blind' \subseteq Agent
    OBVIOUS
  <2>1. CASE \E a \in Agent : Die(a) \/ \E g \in HookGates : HookStop(a, g)
    <3>1. PICK a \in Agent : blind' \in {blind \ {a}, blind \cup {a}}
      BY <2>1 DEF Die, HookStop
    <3> QED  BY <3>1
  <2>2. CASE Tick
    BY <2>2 DEF Tick, TickStart, TickPre, TickStall, TickReady, TickAssign, TickSituation, TickActs,
                TickGate, TickReopen, EndConverged, Reads, SameClaim
  <2>3. CASE \E a \in Agent : \/ Mine(a)
                             \/ \E t \in Task : \/ Claim(a, t)
                                               \/ HookBlock(a, t)
                                               \/ \E v \in Verbs : Report(a, t, v)
    BY <2>3 DEF Mine, Claim, Report, HookBlock, SameClaim
  <2>4. CASE \E r \in Reviewer : \/ \E t \in Task : PickReview(r, t)
                                \/ \E v \in {"pass", "fail"} : GiveReview(r, v)
    BY <2>4 DEF PickReview, GiveReview
  <2>5. CASE \/ \E w \in Judged, t \in Task, a \in Agent \cup {None} : Judge(w, t, a)
             \/ \E w \in Judged : JudgeRun(w)
             \/ \E t \in Task : FallQuiet(t)
    BY <2>5 DEF Judge, JudgeRun, FallQuiet
  <2>6. CASE UNCHANGED vars
    BY <2>6 DEF vars
  <2> QED  BY <2>1, <2>2, <2>3, <2>4, <2>5, <2>6 DEF Next
<1> QED  BY <1>1, <1>2, PTL DEF Spec

-----------------------------------------------------------------------------
\* Every variable keeps its type; with it, a task is never taken away more often
\* than max_reassignments, although that is judged on one fold of the board and
\* done on another (orchestrator.py, stall remediation), and a turn is never
\* prolonged on a count past MAX_STALE.
THEOREM AutonomyTypes == Spec => []AutonomyTypeOK
<1>1. AutonomyInv /\ blind \subseteq Agent => AutonomyTypeOK
  <2> SUFFICES ASSUME AutonomyInv, blind \subseteq Agent PROVE AutonomyTypeOK  OBVIOUS
  <2>1. tick.left \subseteq Task
    BY DEF AutonomyInv, TickTypes, TickState
  <2>2. \A a \in Agent : marker[a].stale \in 0 .. MaxStale
    BY DEF AutonomyInv, HandTypes
  <2> QED  BY <2>1, <2>2 DEF AutonomyInv, AutonomyTypeOK, BoardInv, BoardTypes, PastTypes, TaskState,
                             Owner, RunTypes, HandTypes, TickTypes
<1> QED  BY <1>1, InvHolds, BlindIsTyped, PTL

\* No task falls between the lists of a tick, whatever reports arrive late
\* (board.py, the fold).
THEOREM NothingBetweenTheLists == Spec => []OfferedOrOwned
<1>1. AutonomyInv => OfferedOrOwned  BY DEF AutonomyInv, BoardInv
<1> QED  BY <1>1, InvHolds, PTL

\* An accepted claim makes its participant the owner, until a stall or the chief
\* takes the task away (board.py, the guarded mutations).
THEOREM ClaimsAreKept == Spec => []ClaimantOwns
<1>1. AutonomyInv => ClaimantOwns  BY DEF AutonomyInv, BoardInv, ClaimInv
<1> QED  BY <1>1, InvHolds, PTL

\* The gate lets a tick say "done" only if some Fable has passed every task since
\* the gate reopened it (fable_gate.py, reviewed_by_fable).
THEOREM GateNeedsNewPass == Spec => ReopenedNeedsNewPass
<1>1. AutonomyInv /\ [Next]_vars =>
        [tick.pc = "gate" /\ tick'.pc = "done" => \A t \in owed : task[t].st # "done"]_vars
  <2> SUFFICES ASSUME AutonomyInv, Next, tick.pc = "gate", tick'.pc = "done"
               PROVE  \A t \in owed : task[t].st # "done"
    BY DEF vars
  <2>1. CASE TickGate
    <3>1. gate_violations = {}
      <4>1. \A x, L : [Asleep EXCEPT !.pc = x, !.left = L].pc = x /\ Asleep.pc # "done"
        BY DEF Asleep
      <4>2. CASE gate_violations # {}
        <5>1. tick' = Asleep \/ tick' = [Asleep EXCEPT !.pc = "reopen", !.left = gate_violations]
          BY <2>1, <4>2 DEF TickGate
        <5> QED  BY <4>1, <5>1
      <4> QED  BY <4>2
    <3>2. owed \subseteq Task /\ OwedInv
      BY DEF AutonomyInv, BoardInv, PastTypes
    <3> QED  BY <3>1, <3>2 DEF gate_violations, OwedInv
  <2>2. CASE Tick /\ ~ TickGate
    BY <2>2 DEF Tick, TickStart, TickPre, TickStall, TickReady, TickAssign, TickSituation, TickActs,
                TickReopen, EndConverged
  <2>3. CASE ~ Tick
    <3>1. tick' = tick
      BY <2>3 DEF Next, Mine, Claim, Report, Die, HookStop, HookBlock, PickReview, GiveReview, Judge,
                  JudgeRun, FallQuiet
    <3> QED  BY <3>1
  <2> QED  BY <2>1, <2>2, <2>3
<1> QED  BY <1>1, InvHolds, PTL DEF Spec, ReopenedNeedsNewPass

-----------------------------------------------------------------------------
(* The search for cycles.                                                   *)

\* The tasks that it goes through.
Nonterminal == {n \in OnBoard : task[n].st \notin TERMINAL}

SearchStart == [stack |-> <<>>, seen |-> {}, cyc |-> {}]

\* g is the first n steps of the search.
Search(n, g) == g = [k \in 0 .. n |-> IF k = 0 THEN SearchStart ELSE DfsStep(g[k - 1])]

LEMMA LeastNumber ==
  ASSUME NEW B, B \subseteq Nat, B # {}
  PROVE  \E n \in B : \A m \in B : n <= m
<1> DEFINE R == OpToRel(<, Nat)
<1>1. IsWellFoundedOn(R, Nat)
  BY NatLessThanWellFounded
<1>2. \A x, y \in Nat : x < y => <<x, y>> \in R
  BY DEF OpToRel
<1>3. PICK n \in B : \A m \in B : ~ (<<m, n>> \in R)
  <2> DEFINE P == Nat
  <2>1. IsWellFoundedOn(R, P) /\ B \subseteq P /\ B # {}
    BY <1>1
  <2> HIDE DEF P, R
  <2> QED  BY <2>1, WFMin
<1> HIDE DEF R
<1>4. \A m \in B : ~ (m < n)
  BY <1>2, <1>3
<1> QED  BY <1>4

\* What holds of nothing, and of the next number when it holds of one, holds of all.
LEMMA Reaches ==
  ASSUME NEW P, 0 \in P, NEW last \in Nat,
         \A k \in Nat : k < last /\ k \in P => k + 1 \in P
  PROVE  \A k \in 0 .. last : k \in P
<1> DEFINE B == {k \in 0 .. last : k \notin P}
<1> SUFFICES ASSUME B # {} PROVE FALSE
  OBVIOUS
<1>1. B \subseteq Nat
  OBVIOUS
<1>2. PICK n \in B : \A m \in B : n <= m
  <2> HIDE DEF B
  <2> QED  BY <1>1, LeastNumber
<1>3. n # 0 /\ n - 1 \in 0 .. last /\ n - 1 \notin B
  BY <1>1, <1>2
<1> QED  BY <1>2, <1>3

LEMMA SearchAt ==
  ASSUME NEW n \in Nat, NEW g, Search(n, g)
  PROVE  /\ g[0] = SearchStart
         /\ \A k \in Nat : k < n => g[k + 1] = DfsStep(g[k])
<1>1. \A k \in 0 .. n : g[k] = IF k = 0 THEN SearchStart ELSE DfsStep(g[k - 1])
  BY DEF Search
<1>2. ASSUME NEW k \in Nat, k < n PROVE g[k + 1] = DfsStep(g[k])
  <2>1. k + 1 \in 0 .. n /\ k + 1 # 0 /\ (k + 1) - 1 = k
    BY <1>2
  <2> QED  BY <1>1, <2>1
<1> QED  BY <1>1, <1>2

LEMMA SearchExists ==
  ASSUME NEW last \in Nat
  PROVE  \E g : Search(last, g)
<1> DEFINE P == {n \in Nat : \E g : Search(n, g)}
<1>1. 0 \in P
  <2> DEFINE g == [k \in 0 .. 0 |-> SearchStart]
  <2>1. g = [k \in 0 .. 0 |-> IF k = 0 THEN SearchStart ELSE DfsStep(g[k - 1])]
    OBVIOUS
  <2> HIDE DEF g
  <2> QED  BY <2>1 DEF Search
<1>2. ASSUME NEW n \in Nat, n \in P PROVE n + 1 \in P
  <2>1. PICK f : Search(n, f)
    BY <1>2
  <2> DEFINE g == [k \in 0 .. n + 1 |-> IF k = n + 1 THEN DfsStep(f[n]) ELSE f[k]]
  <2>2. \A k \in 0 .. n + 1 : g[k] = IF k = 0 THEN SearchStart ELSE DfsStep(g[k - 1])
    <3> SUFFICES ASSUME NEW k \in 0 .. n + 1
                 PROVE  g[k] = IF k = 0 THEN SearchStart ELSE DfsStep(g[k - 1])
      OBVIOUS
    <3>1. CASE k = n + 1
      <4>1. k # 0 /\ k - 1 = n /\ g[k] = DfsStep(f[n]) /\ g[n] = f[n]
        BY <3>1
      <4> HIDE DEF g
      <4> QED  BY <4>1
    <3>2. CASE k # n + 1 /\ k # 0
      <4>1. k - 1 \in Nat /\ k - 1 < n /\ (k - 1) + 1 = k
        BY <3>2
      <4>2. f[k] = DfsStep(f[k - 1])
        BY <2>1, <4>1, SearchAt
      <4>3. g[k] = f[k] /\ g[k - 1] = f[k - 1]
        BY <3>2, <4>1
      <4> HIDE DEF g
      <4> QED  BY <3>2, <4>2, <4>3
    <3>3. CASE k = 0
      <4>1. g[k] = f[0]
        BY <3>3
      <4> HIDE DEF g
      <4> QED  BY <2>1, <3>3, <4>1, SearchAt
    <3> QED  BY <3>1, <3>2, <3>3
  <2>3. g = [k \in 0 .. n + 1 |-> g[k]]
    OBVIOUS
  <2> HIDE DEF g
  <2>4. Search(n + 1, g)
    BY <2>2, <2>3 DEF Search
  <2> QED  BY <2>4
<1> HIDE DEF P
<1>3. last \in P
  BY <1>1, <1>2, Reaches
<1> QED  BY <1>3 DEF P

\* While it has found nothing, and every task waits for another, the search only
\* goes deeper: what it has looked at is its stack.
Frame == [at : Nonterminal, left : SUBSET Nonterminal]

Deep(s, k) ==
  /\ s.stack \in Seq(Frame) /\ Len(s.stack) = k
  /\ s.seen = {s.stack[i].at : i \in 1 .. k}
  /\ \A i, j \in 1 .. k : i # j => s.stack[i].at # s.stack[j].at
  /\ k > 0 => s.stack[k].left = Graph(s.stack[k].at)

Shape(s) == s = [stack |-> s.stack, seen |-> s.seen, cyc |-> s.cyc]

LEMMA CyclesStay ==
  ASSUME NEW s, Shape(s)
  PROVE  Shape(DfsStep(s)) /\ s.cyc \subseteq DfsStep(s).cyc
BY DEF Shape, DfsStep

LEMMA LeastTask ==
  ASSUME NEW S, S \subseteq Task, S # {}
  PROVE  (CHOOSE x \in S : \A y \in S : x <= y) \in S
<1>1. \E x \in S : \A y \in S : x <= y
  BY LeastNumber, TaskAssumption
<1> QED  BY <1>1

\* A step from the top of a stack of k that has m left to look at.
FromTop(s, k, m) ==
  LET rest == [s EXCEPT !.stack[k].left = @ \ {m}]
      grey == {i \in 1 .. k : s.stack[i].at = m}
  IN  IF grey # {}
      THEN LET i == CHOOSE i \in grey : TRUE IN
           [rest EXCEPT !.cyc = @ \cup {s.stack[j].at : j \in i .. k}]
      ELSE IF m \in s.seen THEN rest
      ELSE [rest EXCEPT !.stack = Append(@, [at |-> m, left |-> Graph(m)]),
                        !.seen = @ \cup {m}]

LEMMA StepFromTop ==
  ASSUME NEW s, s.stack # <<>>, s.stack[Len(s.stack)].left # {}
  PROVE  LET top == s.stack[Len(s.stack)] IN
         DfsStep(s) =
           FromTop(s, Len(s.stack), CHOOSE x \in top.left : \A y \in top.left : x <= y)
BY Zenon DEF DfsStep, FromTop

LEMMA GoesDeeper ==
  ASSUME Nonterminal # {}, \A n \in Nonterminal : Graph(n) # {},
         NEW s, Shape(s), NEW k \in Nat, Deep(s, k), DfsStep(s).cyc = {}
  PROVE  Deep(DfsStep(s), k + 1)
<1> DEFINE q == DfsStep(s)
<1>0. /\ Nonterminal \subseteq Task
      /\ \A n \in Nonterminal : Graph(n) \in SUBSET Nonterminal
  BY DEF Nonterminal, OnBoard, Graph
<1>1. s.stack \in Seq(Frame) /\ Len(s.stack) = k
  BY DEF Deep
<1>2. CASE k = 0
  <2>1. s.stack = <<>> /\ s.seen = {}
    BY <1>1, <1>2 DEF Deep
  <2> DEFINE n == CHOOSE x \in Nonterminal : \A y \in Nonterminal : x <= y
  <2>2. n \in Nonterminal
    BY <1>0, LeastTask
  <2>3. /\ q.stack = <<[at |-> n, left |-> Graph(n)]>> /\ q.seen = {n}
    <3>1. Nonterminal \ s.seen = Nonterminal
      BY <2>1
    <3>2. DfsStep(s) = [s EXCEPT !.stack = <<[at |-> n, left |-> Graph(n)]>>, !.seen = @ \cup {n}]
      BY <2>1, <3>1 DEF DfsStep, Nonterminal
    <3> HIDE DEF n
    <3> QED  BY <2>1, <3>2 DEF Shape
  <2> HIDE DEF n, q
  <2>4. [at |-> n, left |-> Graph(n)] \in Frame
    BY <1>0, <2>2 DEF Frame
  <2>5. Deep(q, 1)
    BY <2>3, <2>4 DEF Deep
  <2> QED  BY <1>2, <2>5 DEF q
<1>3. CASE k > 0
  <2> DEFINE top == s.stack[k]
             m == CHOOSE x \in top.left : \A y \in top.left : x <= y
             f == [at |-> m, left |-> Graph(m)]
             rest == [s EXCEPT !.stack[k].left = @ \ {m}]
             grey == {i \in 1 .. k : s.stack[i].at = m}
  <2>1. k \in 1 .. k /\ top \in Frame /\ top.at \in Nonterminal /\ top.left = Graph(top.at)
    <3>1. k \in 1 .. k /\ s.stack[k] \in Frame
      BY <1>1, <1>3
    <3>2. top.at \in Nonterminal
      BY <3>1 DEF Frame
    <3> QED  BY <1>3, <3>1, <3>2 DEF Deep
  <2>2. m \in top.left /\ m \in Nonterminal
    BY <1>0, <2>1, LeastTask
  <2> HIDE DEF m
  <2>3. q = IF grey # {}
            THEN LET i == CHOOSE i \in grey : TRUE IN
                 [rest EXCEPT !.cyc = @ \cup {s.stack[j].at : j \in i .. k}]
            ELSE IF m \in s.seen THEN rest
            ELSE [rest EXCEPT !.stack = Append(@, f), !.seen = @ \cup {m}]
    <3>1. s.stack # <<>> /\ top.left # {}
      BY <1>1, <1>3, <2>2
    <3>2. q = FromTop(s, k, m)
      BY <1>1, <3>1, StepFromTop DEF m
    <3> QED  BY <3>2, Zenon DEF FromTop
  <2>4. grey = {}
    <3> SUFFICES ASSUME grey # {} PROVE FALSE
      OBVIOUS
    <3> DEFINE i == CHOOSE i \in grey : TRUE
               found == {s.stack[j].at : j \in i .. k}
    <3>1. i \in grey
      OBVIOUS
    <3>2. i \in 1 .. k
      BY <3>1
    <3>3. k \in i .. k
      BY <3>2
    <3>4. s.stack[k].at \in found
      BY <3>3
    <3>5. q = [rest EXCEPT !.cyc = @ \cup found]
      BY <2>3
    <3>6. "cyc" \in DOMAIN rest
      BY DEF Shape
    <3> HIDE DEF found, i, q, rest
    <3>7. q.cyc # {}
      BY <3>4, <3>5, <3>6
    <3> QED  BY <3>7 DEF q
  <2>5. m \notin s.seen
    BY <2>4 DEF Deep
  <2> DEFINE stack == [s.stack EXCEPT ![k].left = @ \ {m}]
  <2>6. q.stack = Append(stack, f) /\ q.seen = s.seen \cup {m}
    <3>1. q = [rest EXCEPT !.stack = Append(@, f), !.seen = @ \cup {m}]
      BY <2>3, <2>4, <2>5
    <3>2. rest = [s EXCEPT !.stack = stack]
      OBVIOUS
    <3> HIDE DEF q, rest, stack, f
    <3> QED  BY <3>1, <3>2 DEF Shape
  <2>7. /\ stack \in Seq(Frame) /\ Len(stack) = k
        /\ \A i \in 1 .. k : stack[i].at = s.stack[i].at
    <3> DEFINE x == [top EXCEPT !.left = @ \ {m}]
    <3>1. x \in Frame /\ x.at = top.at
      BY <2>1 DEF Frame
    <3>2. stack = [s.stack EXCEPT ![k] = x]
      OBVIOUS
    <3> HIDE DEF x, stack
    <3> QED  BY <1>1, <2>1, <3>1, <3>2
  <2>8. f \in Frame
    BY <1>0, <2>2 DEF Frame
  <2> HIDE DEF stack, q, top, rest, grey
  <2>9. /\ q.stack \in Seq(Frame) /\ Len(q.stack) = k + 1
        /\ \A i \in 1 .. k : q.stack[i].at = s.stack[i].at
        /\ q.stack[k + 1] = f
    <3> HIDE DEF f
    <3>1. \A i \in 1 .. k : q.stack[i] = stack[i]
      BY <2>6, <2>7, <2>8
    <3> QED  BY <2>6, <2>7, <2>8, <3>1
  <2>10. \A i \in 1 .. k + 1 : q.stack[i].at = IF i = k + 1 THEN m ELSE s.stack[i].at
    BY <2>9
  <2>11. q.seen = {q.stack[i].at : i \in 1 .. k + 1}
    <3>1. s.seen = {s.stack[i].at : i \in 1 .. k}
      BY DEF Deep
    <3>2. k + 1 \in 1 .. k + 1 /\ \A i \in 1 .. k : i \in 1 .. k + 1 /\ i # k + 1
      OBVIOUS
    <3>3. \A i \in 1 .. k + 1 : i \in 1 .. k \/ i = k + 1
      OBVIOUS
    <3>4. q.seen \subseteq {q.stack[i].at : i \in 1 .. k + 1}
      BY <2>6, <2>10, <3>1, <3>2
    <3>5. \A i \in 1 .. k + 1 : q.stack[i].at \in q.seen
      BY <2>6, <2>10, <3>1, <3>3
    <3> QED  BY <3>4, <3>5
  <2>12. \A i, j \in 1 .. k + 1 : i # j => q.stack[i].at # q.stack[j].at
    <3>1. \A i \in 1 .. k : s.stack[i].at # m
      BY <2>5 DEF Deep
    <3>2. \A i, j \in 1 .. k : i # j => s.stack[i].at # s.stack[j].at
      BY DEF Deep
    <3> QED  BY <2>10, <3>1, <3>2
  <2>13. q.stack[k + 1].left = Graph(q.stack[k + 1].at)
    BY <2>9
  <2>14. Deep(q, k + 1)
    BY <2>9, <2>11, <2>12, <2>13 DEF Deep
  <2> QED  BY <2>14 DEF q
<1> QED  BY <1>2, <1>3

\* There are not tasks enough to go on for ever.
LEMMA SearchFinds ==
  ASSUME Nonterminal # {}, \A n \in Nonterminal : Graph(n) # {}
  PROVE  dependency_faults # {}
<1> DEFINE N == Cardinality(Task)
           last == N * (N + 3)
           g == CHOOSE g : Search(last, g)
<1>1. Nonterminal \subseteq Task /\ IsFiniteSet(Task)
  BY TaskAssumption DEF Nonterminal, OnBoard
<1>2. N \in Nat /\ N # 0
  BY <1>1, FS_CardinalityType, FS_EmptySet
<1>3. last \in Nat /\ last > N
  <2> HIDE DEF N
  <2>1. N * (N + 3) = N * N + 3 * N /\ N * N \in Nat
    BY <1>2
  <2> QED  BY <1>2, <2>1
<1>4. dependency_faults = MissingFaults \cup g[last].cyc
  BY DEF dependency_faults, Search, SearchStart
<1> HIDE DEF last
<1>5. Search(last, g)
  BY <1>3, SearchExists
<1> HIDE DEF g
<1>6. g[0] = SearchStart /\ \A k \in Nat : k < last => g[k + 1] = DfsStep(g[k])
  BY <1>3, <1>5, SearchAt
<1>7. SUFFICES ASSUME g[last].cyc = {} PROVE FALSE
  BY <1>4
<1> DEFINE P == {k \in Nat : Shape(g[k]) /\ (g[k].cyc = {} => Deep(g[k], k))}
<1>8. \A k \in 0 .. last : k \in P
  <2>1. 0 \in P
    <3>1. Shape(SearchStart)
      BY DEF Shape, SearchStart
    <3>2. Deep(SearchStart, 0)
      BY DEF Deep, SearchStart
    <3> QED  BY <1>6, <3>1, <3>2
  <2>2. ASSUME NEW k \in Nat, k < last, k \in P PROVE k + 1 \in P
    <3>1. Shape(g[k]) /\ g[k + 1] = DfsStep(g[k])
      BY <1>6, <2>2
    <3>2. Shape(g[k + 1]) /\ g[k].cyc \subseteq g[k + 1].cyc
      BY <3>1, CyclesStay
    <3>3. ASSUME g[k + 1].cyc = {} PROVE Deep(g[k + 1], k + 1)
      <4>1. Deep(g[k], k)
        BY <2>2, <3>2, <3>3
      <4> QED  BY <3>1, <3>3, <4>1, GoesDeeper
    <3> QED  BY <3>2, <3>3
  <2> HIDE DEF P
  <2> QED  BY <1>3, <2>1, <2>2, Reaches
<1>9. Deep(g[last], last)
  BY <1>3, <1>7, <1>8
<1> HIDE DEF g, N
<1>10. \A i \in 1 .. last : g[last].stack[i].at \in Task
  <2>1. \A i \in 1 .. last : g[last].stack[i] \in Frame
    BY <1>3, <1>9 DEF Deep
  <2> QED  BY <1>1, <2>1 DEF Frame
<1>11. [i \in 1 .. last |-> g[last].stack[i].at] \in [1 .. last -> Task]
  BY <1>10
<1>12. IsFiniteSet(1 .. last) /\ Cardinality(1 .. last) = last
  BY <1>3, FS_Interval
<1>13. \E i, j \in 1 .. last : i # j /\ g[last].stack[i].at = g[last].stack[j].at
  <2> DEFINE f == [i \in 1 .. last |-> g[last].stack[i].at]
         S == 1 .. last
  <2>1. Cardinality(Task) < Cardinality(S) /\ IsFiniteSet(S)
    BY <1>3, <1>12 DEF N
  <2>2. f \in [S -> Task] /\ \A i \in S : f[i] = g[last].stack[i].at
    BY <1>11
  <2> HIDE DEF f, S
  <2>3. \E i, j \in S : i # j /\ f[i] = f[j]
    BY <1>1, <2>1, <2>2, FS_PigeonHole
  <2> QED  BY <2>2, <2>3 DEF S
<1> QED  BY <1>9, <1>13 DEF Deep

\* In any run with any tasks and dependencies: one that is not finished, and in
\* which nothing is open, offered or in review, has a blocked task or one that is
\* reported as unsatisfiable.  (coordinator.py, next_actions; board.py,
\* dependency_faults)
THEOREM WedgeIsShown == Spec => []NoSilentWedge
<1>1. AutonomyInv => NoSilentWedge
  <2> SUFFICES ASSUME AutonomyInv, ~ NoSilentWedge PROVE FALSE
    OBVIOUS
  <2>1. /\ OnBoard # {} /\ ~ converged /\ ready_unassigned = {} /\ in_review = {}
        /\ \A t \in Task : task[t].st \notin OPEN_STATUSES
        /\ blocked = {} /\ dependency_faults = {}
    BY DEF NoSilentWedge
  <2>2. task \in [Task -> TaskState] /\ OfferedOrOwned
    BY DEF AutonomyInv, BoardInv, BoardTypes
  <2>3. \A n \in Task : task[n].st \in Status \cup {"none"} /\ task[n].deps \subseteq Task
    BY <2>2 DEF TaskState
  <2>4. Nonterminal # {}
    BY <2>1 DEF converged, Nonterminal
  <2>5. ASSUME NEW n \in Nonterminal PROVE Graph(n) # {}
    <3>1. n \in Task /\ n \in OnBoard /\ task[n].st = "todo"
      BY <2>1, <2>3 DEF Nonterminal, OnBoard, Status, OPEN_STATUSES, TERMINAL, in_review, blocked
    <3>2. task[n].owner = None
      BY <2>2, <3>1 DEF OfferedOrOwned
    <3>3. PICK d \in task[n].deps : ~ (d \in Task /\ task[d].st = "done")
      BY <2>1, <3>1, <3>2 DEF ready_unassigned, deps_met
    <3>4. d \in Task /\ task[d].st # "done"
      BY <2>3, <3>1, <3>3
    <3>5. n \notin MissingFaults
      BY <2>1 DEF dependency_faults
    <3>6. d \in OnBoard /\ task[d].st # "abandoned"
      BY <3>1, <3>5 DEF MissingFaults, TERMINAL
    <3>7. d \in Graph(n)
      BY <3>3, <3>4, <3>6 DEF Graph, TERMINAL
    <3> QED  BY <3>7
  <2> QED  BY <2>1, <2>4, <2>5, SearchFinds
<1> QED  BY <1>1, InvHolds, PTL
=============================================================================
