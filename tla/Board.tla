-------------------------------- MODULE Board --------------------------------
(***************************************************************************)
(* The task board of a run, autonomy/board.py: an append-only log of events *)
(* and the tasks it folds to.  Every mutation appends one event under an    *)
(* exclusive flock, so an append is one step; the guarded ones decide on a  *)
(* fold made under the same lock.  The log is modelled by its fold: no      *)
(* event changes more than one task, and none reads an older one.           *)
(*                                                                         *)
(* A definition commented "Fault:" is the one after it with a plausible    *)
(* bug; nothing uses it.                                                   *)
(***************************************************************************)
EXTENDS Naturals, FiniteSets, Sequences

CONSTANTS
  Task,     \* ids of tasks
  Agent,    \* participants of the run
  Fable,    \* the review roster of the gate
  None      \* no owner

ASSUME BoardAssumption == None \notin Agent /\ Fable \cap Agent = {}

\* Numbers stand for ids in the order of sorted(graph); a log names finitely many.
ASSUME TaskAssumption == IsFiniteSet(Task) /\ Task \subseteq Nat

VARIABLES
  task,     \* the fold of the log: what each id stands for
  torn      \* the last line of the log was cut short: it has no newline

boardVars == <<task, torn>>

OPEN_STATUSES == {"assigned", "in_progress"}
TERMINAL      == {"done", "abandoned"}
Status        == OPEN_STATUSES \cup TERMINAL \cup {"todo", "blocked", "in_review"}

\* A task of the fold.  st is "none" while the id is not on the board; quiet:
\* no event for longer than stall_after_seconds; passed: the history holds a
\* review_passed by a Fable after its last reopen.
Folded(st, owner, deps) ==
  [st |-> st, owner |-> owner, deps |-> deps, attempts |-> 0, reassignments |-> 0,
   passed |-> FALSE, quiet |-> FALSE]

\* task_created, task_assigned, task_claimed, task_unassigned and task_reopened
\* as the fold applies them.
Created(t, owner, deps) ==
  IF t.st # "none" THEN t
  ELSE Folded(IF owner = None THEN "todo" ELSE "assigned", owner, deps)

Assigned(t, owner) ==
  [t EXCEPT !.owner = owner, !.st = IF @ = "todo" THEN "assigned" ELSE @]

Claimed(t, owner) == [t EXCEPT !.owner = owner, !.st = "in_progress"]

\* Fault: the owner is kept.
UnassignedButOwned(t) ==
  IF t.st \notin OPEN_STATUSES THEN t
  ELSE [t EXCEPT !.st = "todo", !.reassignments = @ + 1]

Unassigned(t) ==
  IF t.st \notin OPEN_STATUSES THEN t
  ELSE [t EXCEPT !.st = "todo", !.owner = None, !.reassignments = @ + 1]

\* Fault: an earlier pass still counts.
ReopenedStillPassed(t, to) == [t EXCEPT !.st = IF @ = "done" THEN to ELSE @]

Reopened(t, to) ==
  [t EXCEPT !.st = IF @ = "done" THEN to ELSE @, !.passed = FALSE]

\* The events that set a status and ask nothing of the one before:
\* task_started, task_unblocked, task_blocked, task_submitted, task_done.
Moved(t, st) == [t EXCEPT !.st = st]

Reviewed(t, by, verdict) ==
  IF verdict = "fail" THEN [t EXCEPT !.st = "in_progress"]
  ELSE [t EXCEPT !.st = "done", !.passed = @ \/ by \in Fable]

Progressed(t) == [t EXCEPT !.attempts = @ + 1]

DepsChanged(t, deps) == [t EXCEPT !.deps = deps]

Abandoned(t) == [t EXCEPT !.st = IF @ = "done" THEN @ ELSE "abandoned"]

-----------------------------------------------------------------------------
\* Queries: each is a fold of its own.

deps_met(t) == \A d \in task[t].deps : d \in Task /\ task[d].st = "done"

open_for(a) ==
  {t \in Task : task[t].owner = a /\ task[t].st \in OPEN_STATUSES /\ deps_met(t)}

ready_unassigned ==
  {t \in Task : task[t].owner = None /\ task[t].st = "todo" /\ deps_met(t)}

in_review == {t \in Task : task[t].st = "in_review"}
blocked   == {t \in Task : task[t].st = "blocked"}
OnBoard   == {t \in Task : task[t].st # "none"}

converged == OnBoard # {} /\ \A t \in OnBoard : task[t].st \in TERMINAL

gate_violations == {t \in Task : task[t].st = "done" /\ ~ task[t].passed}

-----------------------------------------------------------------------------
\* Fault: a dependency that was abandoned is not looked for.
NoAbandonedFaults ==
  {t \in OnBoard : task[t].st \notin TERMINAL /\ \E d \in task[t].deps : d \notin OnBoard}

\* dependency_faults, a dependency that can never be done: one that is not on
\* the board, or was abandoned.
MissingFaults ==
  {t \in OnBoard : /\ task[t].st \notin TERMINAL
                   /\ \E d \in task[t].deps : d \notin OnBoard \/ task[d].st = "abandoned"}

\* The depth-first search for cycles, on ids that are numbers (sorted(graph) is
\* their order).  A search is what it has coloured grey, in order, what it has
\* coloured at all, and the tasks it has found on a cycle.
Graph(n) == {d \in task[n].deps \cap OnBoard : task[d].st \notin TERMINAL}

\* One step of the search: go down to the smallest dependency not looked at
\* yet from the top of the stack, or come back up.
DfsStep(s) ==
  IF s.stack = <<>>
  THEN LET white == {n \in OnBoard : task[n].st \notin TERMINAL} \ s.seen IN
       IF white = {} THEN s
       ELSE LET n == CHOOSE x \in white : \A y \in white : x <= y IN
            [s EXCEPT !.stack = <<[at |-> n, left |-> Graph(n)]>>, !.seen = @ \cup {n}]
  ELSE LET k    == Len(s.stack)
           top  == s.stack[k]
           m    == CHOOSE x \in top.left : \A y \in top.left : x <= y
           rest == [s EXCEPT !.stack[k].left = @ \ {m}]
           grey == {i \in 1 .. k : s.stack[i].at = m}
       IN  IF top.left = {} THEN [s EXCEPT !.stack = SubSeq(@, 1, k - 1)]
           ELSE IF grey # {}
           THEN LET i == CHOOSE i \in grey : TRUE IN
                [rest EXCEPT !.cyc = @ \cup {s.stack[j].at : j \in i .. k}]
           ELSE IF m \in s.seen THEN rest
           ELSE [rest EXCEPT !.stack = Append(@, [at |-> m, left |-> Graph(m)]),
                             !.seen = @ \cup {m}]

dependency_faults ==
  LET last == Cardinality(Task) * (Cardinality(Task) + 3)
      dfs[k \in 0 .. last] ==
        IF k = 0 THEN [stack |-> <<>>, seen |-> {}, cyc |-> {}] ELSE DfsStep(dfs[k - 1])
  IN  MissingFaults \cup dfs[last].cyc

-----------------------------------------------------------------------------
\* One event about t is appended, under the lock: t becomes new.  If the last
\* line is torn the event continues it, and no fold will ever read either.
LogEvent(t, new) ==
  /\ torn' = FALSE
  /\ task' = IF torn THEN task ELSE [task EXCEPT ![t] = [new EXCEPT !.quiet = FALSE]]

create_task(t, owner, deps) ==
  task[t].st = "none" /\ LogEvent(t, Created(task[t], owner, deps))

\* Fault: decides on what its caller read, and not under the lock.
AssignOnSight(t, owner) == LogEvent(t, Assigned(task[t], owner))

\* The guarded mutations do nothing, and say so, where their guard fails.
assign_if_free(t, owner) ==
  IF task[t].st = "todo" /\ task[t].owner = None
  THEN LogEvent(t, Assigned(task[t], owner)) ELSE UNCHANGED boardVars

claimable(t, a) == task[t].st \in {"todo", "assigned"} /\ task[t].owner \in {None, a}

claim_if_available(t, a) ==
  IF claimable(t, a) THEN LogEvent(t, Claimed(task[t], a)) ELSE UNCHANGED boardVars

reopen(t) ==
  IF task[t].st = "done" THEN LogEvent(t, Reopened(task[t], "in_review"))
  ELSE UNCHANGED boardVars

abandon(t) ==
  IF task[t].st \notin TERMINAL \cup {"none"} THEN LogEvent(t, Abandoned(task[t]))
  ELSE UNCHANGED boardVars

\* Fault: not the tasks that were handed out and never started.
UnassignStarted(t) ==
  IF task[t].st = "in_progress" THEN LogEvent(t, Unassigned(task[t]))
  ELSE UNCHANGED boardVars

unassign(t) ==
  IF task[t].st \in OPEN_STATUSES THEN LogEvent(t, Unassigned(task[t]))
  ELSE UNCHANGED boardVars
=============================================================================
