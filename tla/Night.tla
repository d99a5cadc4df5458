------------------------------- MODULE Night -------------------------------
(***************************************************************************)
(* The switch of an autonomous run through the nights: run.json, which the  *)
(* coordinator's tick, the night reconciler and whoever ends the run read   *)
(* and rewrite under a lock, the hours of the night window, and the usage   *)
(* files that the reconciler and the other hosts keep fresh.               *)
(***************************************************************************)
EXTENDS UsageGuard

CONSTANTS
  Participant,     \* participants of the run
  Here,            \* the host of the reconciler
  Configs,         \* what autonomy-night.json may hold
  DayLen,          \* ticks of the clock in a day
  MaxIterations,   \* guardrail max_iterations
  MaxPauseAge,     \* MAX_PAUSE_AGE_DAYS, in ticks of the clock
  MaxKicks,        \* MAX_KICKS
  Outcomes,        \* how a probe of the usage may end
  Burns,           \* burn rates a snapshot may show
  MaxUsed,         \* bound: tokens a host uses in a window
  MaxNow,          \* bound: the clock
  MaxEvents        \* bound: what people, other hosts and accidents do

\* A configuration that cannot be read, and none at all.
Unreadable == [start |-> -1, stop |-> -1]
NoConfig   == [start |-> -2, stop |-> -2]

ASSUME NightAssumption ==
  /\ Here \in Host
  /\ {MaxIterations, MaxKicks, DayLen} \subseteq Nat \ {0}
  /\ {MaxPauseAge, MaxUsed, MaxNow, MaxEvents} \subseteq Nat
  /\ Outcomes \subseteq {"read", "error", "torn"}
  /\ Configs \subseteq [start : 0..DayLen-1, stop : 0..DayLen-1] \cup {Unreadable, NoConfig}

VARIABLES
  now,       \* the clock
  config,    \* autonomy-night.json
  run,       \* .loom/run.json
  tmp,       \* .loom/run.json.tmp, which all who write run.json share
  proc,      \* proc[p]: where p is in writing run.json, and what it writes
  pass,      \* the pass of the reconciler: its decision, participants left to nudge
  events,    \* bound: how much of that has happened
  used,      \* used[h]: tokens h has used in the current window
  file,      \* file[h]: <h>.json in .loom/usage
  through,   \* history: ticks the cap let through since the run was started
  over,      \* history: when the fleet's use in this window reached KillAt, or Never
  clashed    \* history: two have been writing run.json.tmp at once

vars == <<now, config, run, tmp, proc, pass, events, used, file, through, over, clashed>>
clockVars == <<now, config, events>>
usageVars == <<used, file, over>>
runVars   == <<run, tmp, through, clashed>>

Locking == {"tick", "night", "chief"}
Proc    == Locking \cup {"start"}
Never   == -1
\* Fewer than MaxEvents things have happened yet.
Happens == events < MaxEvents /\ events' = events + 1

\* What status() makes of a file it cannot read, one that two have written into,
\* and no file at all.
NoRun   == [active |-> FALSE, iterations |-> 0, reason |-> "", ended |-> Never]
Garbled == [NoRun EXCEPT !.reason = "garbled"]
Absent  == [NoRun EXCEPT !.reason = "absent"]

status(f) == IF f \in {Garbled, Absent} THEN NoRun ELSE f

Quiet == [pc |-> "off", op |-> "", new |-> NoRun]
NoPass == [pc |-> "off", open |-> FALSE, left |-> {}, kicks |-> 0]

-----------------------------------------------------------------------------
\* The night window at a time of the day: "open", "closed", or "none" configured.
decide(c, at) ==
  LET t == at % DayLen
      inside == IF c.start < c.stop THEN c.start <= t /\ t < c.stop
                                    ELSE c.start <= t \/ t < c.stop
  IN  IF c = NoConfig THEN "none"
      ELSE IF c = Unreadable \/ c.start = c.stop THEN "closed"
      ELSE IF inside THEN "open" ELSE "closed"

\* The rewritings of run.json.
Started == [active |-> TRUE, iterations |-> 0, reason |-> "", ended |-> Never]
Bumped(r) == [r EXCEPT !.iterations = Min({@ + 1, MaxIterations + 1})]
Ended(r, why) == [r EXCEPT !.active = FALSE, !.ended = now, !.reason = IF why = "" THEN @ ELSE why]

\* Fault: a run resumed is a run started again.
ResumedAfresh(r) == Started

Resumed(r) == [r EXCEPT !.active = TRUE, !.ended = Never, !.reason = ""]

\* What a process that has asked for op makes of what it reads.
Rewritten(op, r) ==
  CASE op = "bump" -> Bumped(r) [] op = "resume" -> Resumed(r) [] OTHER -> Ended(r, op)

-----------------------------------------------------------------------------
\* Fault: nobody waits for the lock.
NoLock == TRUE

\* A rewriting takes .run.lock and reads the file; then it writes, and lets go.
NoWriter == \A q \in Locking : proc[q].pc \in {"off", "lock"}

Lock(p) ==
  /\ proc[p].pc = "lock" /\ NoWriter
  /\ proc' = [proc EXCEPT ![p].pc = "write", ![p].new = Rewritten(proc[p].op, status(run))]
  /\ UNCHANGED <<clockVars, runVars, pass, usageVars>>

\* Run._write, first half: open the shared run.json.tmp, which empties it, and
\* write. If another has written there and not yet renamed it, the file is then
\* what this one wrote, or something nobody can read.
Write(p) ==
  LET clash == \E q \in Proc \ {p} : proc[q].pc = "rename" IN
  /\ proc[p].pc = "write"
  /\ tmp' \in IF clash THEN {proc[p].new, Garbled} ELSE {proc[p].new}
  /\ proc' = [proc EXCEPT ![p].pc = "rename"]
  /\ clashed' = (clashed \/ clash)
  /\ UNCHANGED <<clockVars, run, through, pass, usageVars>>

\* Second half: os.replace, after which p is as after.
Replace(p, after) ==
  /\ proc[p].pc = "rename" /\ tmp # Absent
  /\ run' = tmp /\ tmp' = Absent
  /\ proc' = [proc EXCEPT ![p] = after]
  /\ UNCHANGED <<clockVars, clashed, usageVars>>

\* Another has renamed the file already, so this process, and with it a pass,
\* ends there; what it wrote may have got into the file after the renaming.
ReplaceFails(p) ==
  /\ proc[p].pc = "rename" /\ tmp = Absent
  /\ run' \in {run, proc[p].new, Garbled}
  /\ proc' = [proc EXCEPT ![p] = Quiet]
  /\ pass' = IF p = "night" THEN NoPass ELSE pass
  /\ UNCHANGED <<clockVars, tmp, through, clashed, usageVars>>

\* The tick counts itself, and ends the run when it is one too many.
Bump ==
  LET tooMany == proc["tick"].new.iterations > MaxIterations IN
  /\ proc["tick"].op = "bump"
  /\ Replace("tick", IF tooMany THEN [Quiet EXCEPT !.pc = "lock", !.op = "max_iterations"]
                                ELSE Quiet)
  /\ through' = IF tooMany THEN through ELSE through + 1
  /\ UNCHANGED pass

\* p ends the run; the reason is in its op.
End(p) ==
  /\ proc[p].op \notin {"bump", "resume", "start"}
  /\ Replace(p, Quiet)
  /\ pass' = IF p = "night" THEN [pass EXCEPT !.pc = "feed"] ELSE pass
  /\ UNCHANGED through

Resume ==
  /\ proc["night"].op = "resume"
  /\ Replace("night", Quiet)
  /\ pass' = [pass EXCEPT !.pc = "kick"]
  /\ UNCHANGED through

StartEnds ==
  /\ Replace("start", Quiet)
  /\ through' = 0
  /\ UNCHANGED pass

Writes(p) ==
  \/ Write(p) \/ ReplaceFails(p) \/ End(p)
  \/ p = "tick" /\ Bump
  \/ p = "night" /\ Resume
  \/ p = "start" /\ StartEnds

-----------------------------------------------------------------------------
\* A tick goes on only if the run is active, and if it can be counted.
Tick ==
  /\ proc["tick"] = Quiet /\ run.active
  /\ proc' = [proc EXCEPT !["tick"] = [Quiet EXCEPT !.pc = "lock", !.op = "bump"]]
  /\ UNCHANGED <<clockVars, runVars, pass, usageVars>>

\* Somebody starts a run, writing without the lock, or ends it.
Start ==
  /\ proc["start"] = Quiet /\ Happens
  /\ proc' = [proc EXCEPT !["start"] = [Quiet EXCEPT !.pc = "write", !.op = "start", !.new = Started]]
  /\ UNCHANGED <<now, config, runVars, pass, usageVars>>

ChiefEnds(why) ==
  /\ proc["chief"] = Quiet /\ NoWriter /\ Happens
  /\ proc' = [proc EXCEPT !["chief"] = [Quiet EXCEPT !.pc = "write", !.op = why,
                                        !.new = Ended(status(run), why)]]
  /\ UNCHANGED <<now, config, runVars, pass, usageVars>>

-----------------------------------------------------------------------------
\* Fault: a configuration that cannot be read ends the pass with an exception.
WakeIfReadable ==
  /\ pass.pc = "off" /\ config # Unreadable /\ decide(config, now) # "none"
  /\ pass' = [NoPass EXCEPT !.pc = "look", !.open = decide(config, now) = "open"]
  /\ UNCHANGED <<clockVars, runVars, proc, usageVars>>

\* A pass of the reconciler decides once, then looks at the run without the lock.
Wake ==
  /\ pass.pc = "off" /\ decide(config, now) # "none"
  /\ pass' = [NoPass EXCEPT !.pc = "look", !.open = decide(config, now) = "open"]
  /\ UNCHANGED <<clockVars, runVars, proc, usageVars>>

\* Fault: off by one.
FreshUntil(r) == r.ended # Never /\ now - r.ended < MaxPauseAge

fresh(r) == r.ended # Never /\ now - r.ended <= MaxPauseAge

Look ==
  LET pausing  == ~ pass.open /\ run.active
      resuming == pass.open /\ ~ run.active /\ run.reason = "night" /\ fresh(run)
  IN  /\ pass.pc = "look"
      /\ proc' = IF pausing \/ resuming
           THEN [proc EXCEPT !["night"] = [Quiet EXCEPT !.pc = "lock",
                                           !.op = IF pausing THEN "night" ELSE "resume"]]
           ELSE proc
      /\ pass' = [pass EXCEPT !.pc   = IF pausing \/ resuming THEN "write" ELSE "feed",
                              !.left = IF resuming THEN Participant ELSE {}]
      /\ UNCHANGED <<clockVars, runVars, usageVars>>

\* The participants of the resumed run are nudged, at most MaxKicks in a pass.
Kick(a, sent) ==
  /\ pass.pc = "kick" /\ a \in pass.left /\ pass.kicks < MaxKicks
  /\ pass' = [pass EXCEPT !.left = @ \ {a}, !.kicks = IF sent THEN @ + 1 ELSE @]
  /\ UNCHANGED <<clockVars, runVars, proc, usageVars>>

KicksDone ==
  /\ pass.pc = "kick" /\ (pass.left = {} \/ pass.kicks >= MaxKicks)
  /\ pass' = [pass EXCEPT !.pc = "feed"]
  /\ UNCHANGED <<clockVars, runVars, proc, usageVars>>

\* The pass ends with the usage of this host, if the run is active by then.
Feed(outcome, burn) ==
  /\ pass.pc = "feed"
  /\ pass' = NoPass
  /\ file' = IF run.active
             THEN [file EXCEPT ![Here] = report_local(@, outcome, now, used[Here], burn)] ELSE file
  /\ UNCHANGED <<clockVars, runVars, proc, used, over>>

\* The machine goes down within a pass; the lock goes with the process.
Down ==
  /\ pass.pc # "off" /\ Happens
  /\ pass' = NoPass
  /\ proc' = [proc EXCEPT !["night"] = Quiet]
  /\ UNCHANGED <<now, config, runVars, usageVars>>

-----------------------------------------------------------------------------
InUse(u) == SumFunction(u)

\* Another host files its usage; every host uses tokens.
HostReports(h, outcome, burn) ==
  /\ h # Here /\ Happens
  /\ file' = [file EXCEPT ![h] = report_local(@, outcome, now, used[h], burn)]
  /\ UNCHANGED <<now, config, runVars, proc, pass, used, over>>

HostUses(h) ==
  /\ used[h] < MaxUsed /\ Happens
  /\ used' = [used EXCEPT ![h] = @ + 1]
  /\ over' = IF over = Never /\ InUse(used') >= KillAt THEN now ELSE over
  /\ UNCHANGED <<now, config, runVars, proc, pass, file>>

TimePasses ==
  /\ now < MaxNow
  /\ now' = now + 1
  /\ IF now' % WindowLen = 0
     THEN used' = [h \in Host |-> 0] /\ over' = Never
     ELSE UNCHANGED <<used, over>>
  /\ UNCHANGED <<config, events, runVars, proc, pass, file>>

-----------------------------------------------------------------------------
Init ==
  /\ now = 0 /\ config \in Configs
  /\ run = NoRun /\ tmp = Absent
  /\ proc = [p \in Proc |-> Quiet] /\ pass = NoPass
  /\ events = 0
  /\ used \in [Host -> 0..MaxUsed] /\ file = [h \in Host |-> NoFile]
  /\ through = 0 /\ clashed = FALSE
  /\ over = IF InUse(used) >= KillAt THEN now ELSE Never

RunStep ==
  \/ Tick \/ Start
  \/ \E p \in Locking : Lock(p)
  \/ \E p \in Proc : Writes(p)
PassStep == Wake \/ Look \/ KicksDone \/ \E a \in Participant, sent \in BOOLEAN : Kick(a, sent)

Next ==
  \/ RunStep \/ PassStep \/ Down \/ TimePasses
  \/ \E why \in {"", "done"} : ChiefEnds(why)
  \/ \E o \in Outcomes, b \in Burns : Feed(o, b) \/ \E h \in Host : HostReports(h, o, b)
  \/ \E h \in Host : HostUses(h)

\* The timer runs the reconciler, which gets the lock in the end, a writing goes
\* on as long as any process is at one, and a send does not fail for ever.
Fairness ==
  /\ WF_vars(PassStep) /\ WF_vars(\E o \in Outcomes, b \in Burns : Feed(o, b))
  /\ SF_vars(Lock("night")) /\ WF_vars(\E p \in Proc : Writes(p))

Spec == Init /\ [][Next]_vars /\ Fairness

-----------------------------------------------------------------------------
RunFile == [active : BOOLEAN, iterations : 0..MaxIterations + 1,
            reason : {"", "night", "done", "max_iterations", "garbled", "absent"},
            ended : Never..MaxNow]

\* Types, and that of those who take the lock one at a time is between reading
\* run.json and writing it (Run._locked).
NightTypeOK ==
  /\ now \in 0..MaxNow /\ config \in Configs /\ run \in RunFile /\ tmp \in RunFile
  /\ events \in 0..MaxEvents
  /\ proc \in [Proc -> [pc : {"off", "lock", "write", "rename"}, new : RunFile,
                        op : {"", "bump", "resume", "night", "done", "max_iterations", "start"}]]
  /\ pass.pc \in {"off", "look", "write", "kick", "feed"} /\ pass.left \subseteq Participant
  /\ pass.kicks \in 0..MaxKicks
  /\ used \in [Host -> 0..MaxUsed]
  /\ Cardinality({p \in Locking : proc[p].pc \in {"write", "rename"}}) <= 1

\* The cap on iterations bites whatever pauses, resumptions and ends of the run
\* come in between, in whatever order they rewrite run.json: since the run was
\* started at most MaxIterations ticks have gone through (Run.resume keeps the
\* counter, and the lock keeps an increment from being lost) -- unless a start,
\* which takes no lock, and a rewriting have met in run.json.tmp: then the file
\* may be unreadable, and the next who rewrites it counts from nothing.
CapBites == clashed \/ through <= MaxIterations

\* A fleet that has been past the kill level for longer than a snapshot lasts is
\* not told that it may go on, whatever probes failed or files were left torn,
\* and whichever hosts have gone silent (evaluate, fail-closed).
NeverBlind ==
  over # Never /\ now - over > MaxAge => evaluate(file, now) \notin {"ok", "warn"}

\* Outside the window a run does not stay active: when the window has closed for
\* good, by the hour or because its configuration cannot be read, the run ends,
\* also if the machine was down at the closing hour (reconcile).
ClosedIsQuiet == <>[](decide(config, now) = "closed") => <>[](~ run.active)

\* A run that the night has paused is active again in the window, while the
\* pause is not too old and nobody has ended the run for another reason.
WakesAgain ==
  <>[](decide(config, now) = "open") =>
    ~ <>[](~ run.active /\ run.reason = "night" /\ now - run.ended <= MaxPauseAge)

=============================================================================
