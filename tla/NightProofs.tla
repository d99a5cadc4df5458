----------------------------- MODULE NightProofs -----------------------------
(***************************************************************************)
(* Types, the lock and the iteration cap of Night, for any number of        *)
(* participants and hosts, any configuration and usage, and any accidents.  *)
(***************************************************************************)
EXTENDS Night, FiniteSetTheorems, WellFoundedInduction, TLAPS

Reasons == {"", "night", "done", "max_iterations"}
Ops     == Reasons \cup {"bump", "resume", "start"}

\* What is written on purpose.
Sound == [active : BOOLEAN, iterations : 0..MaxIterations + 1, reason : Reasons,
          ended : Never..MaxNow]

ProcState == [pc : {"off", "lock", "write", "rename"}, new : Sound, op : Ops]
PassState == [pc : {"off", "look", "write", "kick", "feed"}, open : BOOLEAN,
              left : SUBSET Participant, kicks : 0..MaxKicks]

Busy(x) == x.pc \in {"write", "rename"}

\* The types of NightTypeOK, with the shape of a pass and of a start.
Types ==
  /\ now \in 0..MaxNow /\ config \in Configs
  /\ run \in Sound \cup {Garbled} /\ tmp \in Sound \cup {Garbled, Absent}
  /\ events \in 0..MaxEvents
  /\ proc \in [Proc -> ProcState] /\ pass \in PassState
  /\ \A p \in Locking : proc[p].op # "start"
  /\ Busy(proc["start"]) => proc["start"].op = "start"
  /\ used \in [Host -> 0..MaxUsed]
  /\ through \in Nat /\ clashed \in BOOLEAN

\* One holder of the lock at a time is between reading run.json and writing it.
Exclusive ==
  \A p, q \in Locking : Busy(proc[p]) /\ Busy(proc[q]) => p = q

\* Until two meet there, run.json.tmp holds what the one who renames it wrote.
Alone ==
  \A p \in Proc : proc[p].pc = "rename" =>
    tmp = proc[p].new /\ \A q \in Proc : proc[q].pc = "rename" => p = q

\* A counter about to be written covers n ticks, and the one that is counted.
Covers(x, n) ==
  /\ n <= x.new.iterations
  /\ x.op = "bump" => x.new.iterations > MaxIterations \/ n + 1 <= x.new.iterations

\* Every tick that was let through is in the counter, and in the counter of
\* whoever holds the lock and is about to write the file.
Counted ==
  /\ through <= run.iterations
  /\ \A p \in Locking : Busy(proc[p]) => Covers(proc[p], through)

NightInv == Types /\ Exclusive /\ CapBites /\ (~ clashed => Alone /\ Counted)

-----------------------------------------------------------------------------
LEMMA MinOfTwo ==
  ASSUME NEW i \in Int, NEW j \in Int
  PROVE  /\ Min({i, j}) \in {i, j}
         /\ Min({i, j}) <= i
         /\ Min({i, j}) <= j
<1>1. \E x \in {i, j} : \A y \in {i, j} : x <= y
  <2>1. CASE i <= j  BY <2>1
  <2>2. CASE j <= i  BY <2>2
  <2> QED  BY <2>1, <2>2
<1> QED  BY <1>1 DEF Min

\* Counting a tick raises the counter by one, up to one past the cap.
LEMMA BumpedCounts ==
  ASSUME NEW r \in Sound
  PROVE  /\ Bumped(r) \in Sound
         /\ Bumped(r).iterations <= MaxIterations => Bumped(r).iterations = r.iterations + 1
<1> DEFINE n == Min({r.iterations + 1, MaxIterations + 1})
<1>1. r.iterations \in 0..MaxIterations + 1 /\ MaxIterations \in Nat
  BY NightAssumption DEF Sound
<1>2. r.iterations + 1 \in Int /\ MaxIterations + 1 \in Int
  BY <1>1
<1>3. n \in {r.iterations + 1, MaxIterations + 1}
  BY <1>2, MinOfTwo
<1>4. n <= MaxIterations + 1
  BY <1>2, MinOfTwo
<1>5. Bumped(r) = [r EXCEPT !.iterations = n]
  BY DEF Bumped
<1> HIDE DEF n
<1>6. n \in 0..MaxIterations + 1
  BY <1>1, <1>3, <1>4
<1>7. Bumped(r) \in Sound
  BY <1>5, <1>6 DEF Sound
<1>8. Bumped(r).iterations = n
  BY <1>5 DEF Sound
<1> QED  BY <1>1, <1>3, <1>7, <1>8

\* What is written to end or resume a run is a run.json with the same counter.
LEMMA StartedIsTyped == Started \in Sound
<1>1. 0 \in 0..MaxIterations + 1 /\ Never \in Never..MaxNow
  BY NightAssumption DEF Never
<1> QED  BY <1>1 DEF Started, Sound, Reasons

LEMMA EndedIsTyped ==
  ASSUME NEW r \in Sound, now \in 0..MaxNow, NEW why \in Reasons
  PROVE  Ended(r, why) \in Sound /\ Ended(r, why).iterations = r.iterations
<1>1. now \in Never..MaxNow
  BY NightAssumption DEF Never
<1>2. CASE why = ""
  <2>1. Ended(r, why) = [[r EXCEPT !.active = FALSE] EXCEPT !.ended = now]
    BY <1>2 DEF Ended, Sound
  <2> QED  BY <1>1, <2>1 DEF Sound
<1>3. CASE why # ""
  <2>1. Ended(r, why) = [[[r EXCEPT !.active = FALSE] EXCEPT !.ended = now] EXCEPT !.reason = why]
    BY <1>3 DEF Ended, Sound
  <2> QED  BY <1>1, <2>1 DEF Sound, Reasons
<1> QED  BY <1>2, <1>3

LEMMA ResumedIsTyped ==
  ASSUME NEW r \in Sound
  PROVE  Resumed(r) \in Sound /\ Resumed(r).iterations = r.iterations
<1>1. Never \in Never..MaxNow
  BY NightAssumption DEF Never
<1> QED  BY <1>1 DEF Resumed, Sound, Reasons

\* A process at rest, and one that has just asked for the lock.
LEMMA QuietIsTyped ==
  /\ NoRun \in Sound /\ NoRun.iterations = 0
  /\ Quiet \in ProcState /\ Quiet.pc = "off"
  /\ \A o \in Ops : [Quiet EXCEPT !.pc = "lock", !.op = o] \in ProcState
  /\ \A o : [Quiet EXCEPT !.pc = "lock", !.op = o].pc = "lock"
<1>1. 0 \in 0..MaxIterations + 1 /\ Never \in Never..MaxNow
  BY NightAssumption DEF Never
<1>2. NoRun \in Sound /\ NoRun.iterations = 0
  BY <1>1 DEF NoRun, Sound, Reasons
<1>3. Quiet \in ProcState /\ Quiet.pc = "off"
  BY <1>2 DEF Quiet, ProcState, Ops, Reasons
<1>4. \A o \in Ops : [Quiet EXCEPT !.pc = "lock", !.op = o] \in ProcState
  BY <1>3 DEF ProcState
<1>5. \A o : [Quiet EXCEPT !.pc = "lock", !.op = o].pc = "lock"
  BY <1>3 DEF ProcState
<1> QED  BY <1>2, <1>3, <1>4, <1>5

\* What is written on purpose is neither garbled nor absent.
LEMMA SoundIsReadable ==
  /\ Garbled.iterations = 0 /\ Garbled # Absent
  /\ Garbled \notin Sound /\ Absent \notin Sound
  /\ {Garbled, Absent} \cup Sound \subseteq RunFile
<1>1. NoRun \in Sound /\ NoRun.iterations = 0
  BY QuietIsTyped
<1>2. Sound \subseteq RunFile
  BY DEF Sound, RunFile, Reasons
<1>3. Garbled.reason = "garbled" /\ Absent.reason = "absent" /\ Garbled.iterations = 0
  BY <1>1 DEF Garbled, Absent, Sound
<1>4. Garbled \in RunFile /\ Absent \in RunFile
  BY <1>1 DEF Garbled, Absent, Sound, RunFile
<1>5. \A r \in Sound : r.reason \in Reasons
  BY DEF Sound
<1> QED  BY <1>2, <1>3, <1>4, <1>5 DEF Reasons

\* A file that cannot be read counts as one that counts nothing.
LEMMA StatusIsTyped ==
  ASSUME NEW f \in Sound \cup {Garbled, Absent}
  PROVE  status(f) \in Sound /\ (f # Absent => status(f).iterations = f.iterations)
<1>1. CASE f \in {Garbled, Absent}
  BY <1>1, QuietIsTyped, SoundIsReadable DEF status
<1>2. CASE f \notin {Garbled, Absent}
  BY <1>2 DEF status
<1> QED  BY <1>1, <1>2

LEMMA CounterTyped ==
  ASSUME NEW r \in Sound
  PROVE  r.iterations \in Nat /\ r.iterations \in 0..MaxIterations + 1
<1>1. r.iterations \in 0..MaxIterations + 1 /\ MaxIterations \in Nat
  BY NightAssumption DEF Sound
<1> QED  BY <1>1

\* What a process that holds the lock is about to write covers what it has read.
LEMMA RewrittenCovers ==
  ASSUME NEW r \in Sound, NEW op \in Ops \ {"start"}, now \in 0..MaxNow,
         NEW n \in Nat, n <= r.iterations, n <= MaxIterations
  PROVE  /\ Rewritten(op, r) \in Sound
         /\ n <= Rewritten(op, r).iterations
         /\ op = "bump" => \/ Rewritten(op, r).iterations > MaxIterations
                           \/ n + 1 <= Rewritten(op, r).iterations
<1>1. r.iterations \in Nat /\ MaxIterations \in Nat
  BY CounterTyped, NightAssumption
<1>2. CASE op = "bump"
  <2>1. Rewritten(op, r) = Bumped(r)
    BY <1>2 DEF Rewritten
  <2>2. Bumped(r) \in Sound /\ Bumped(r).iterations \in Nat
    BY BumpedCounts, CounterTyped
  <2>3. \/ Bumped(r).iterations > MaxIterations
        \/ Bumped(r).iterations = r.iterations + 1
    BY <1>1, <2>2, BumpedCounts
  <2> QED  BY <1>1, <2>1, <2>2, <2>3
<1>3. CASE op = "resume"
  <2>1. Rewritten(op, r) = Resumed(r)
    BY <1>3 DEF Rewritten
  <2> QED  BY <1>3, <2>1, ResumedIsTyped
<1>4. CASE op \notin {"bump", "resume"}
  <2>1. Rewritten(op, r) = Ended(r, op) /\ op \in Reasons
    BY <1>4 DEF Rewritten, Ops
  <2> QED  BY <1>4, <2>1, EndedIsTyped
<1> QED  BY <1>2, <1>3, <1>4

-----------------------------------------------------------------------------
LEMMA ProcNames ==
  /\ Locking \subseteq Proc /\ "start" \in Proc /\ "start" \notin Locking
  /\ \A p \in Proc : p \in Locking \/ p = "start"
  /\ {"tick", "night", "chief"} \subseteq Locking
BY DEF Proc, Locking

LEMMA InitHolds == Init => NightInv
<1> SUFFICES ASSUME Init PROVE NightInv  OBVIOUS
<1>1. /\ now \in 0..MaxNow /\ config \in Configs /\ events \in 0..MaxEvents
      /\ through = 0 /\ clashed = FALSE /\ MaxIterations \in Nat
  BY NightAssumption DEF Init
<1>2. run \in Sound /\ run.iterations = 0 /\ tmp = Absent
  BY QuietIsTyped DEF Init
<1>3. \A p \in Proc : proc[p] = Quiet
  BY DEF Init
<1>4. proc \in [Proc -> ProcState]
  BY QuietIsTyped DEF Init
<1>5. \A p \in Proc : ~ Busy(proc[p]) /\ proc[p].pc # "rename" /\ proc[p].op # "start"
  <2>1. ~ Busy(Quiet) /\ Quiet.pc # "rename" /\ Quiet.op # "start"
    BY DEF Quiet, Busy
  <2> QED  BY <1>3, <2>1
<1>6. pass \in PassState
  <2>1. 0 \in 0..MaxKicks  BY NightAssumption
  <2> QED  BY <2>1 DEF Init, NoPass, PassState
<1>7. used \in [Host -> 0..MaxUsed]
  BY DEF Init
<1>8. Types
  BY <1>1, <1>2, <1>4, <1>5, <1>6, <1>7, ProcNames DEF Types
<1>9. Exclusive /\ Alone
  BY <1>5, ProcNames DEF Exclusive, Alone
<1>10. Counted /\ CapBites
  BY <1>1, <1>2, <1>5, ProcNames DEF Counted, CapBites
<1> QED  BY <1>8, <1>9, <1>10 DEF NightInv

\* A step that leaves run.json, its writers and the counter alone.
LEMMA ElsewhereHolds ==
  ASSUME NightInv, Types', UNCHANGED <<runVars, proc>>
  PROVE  NightInv'
BY DEF NightInv, Exclusive, Alone, Counted, Covers, CapBites, runVars

\* A process that is at nothing asks for the lock, starts a run, or goes away.
LEMMA AsksHolds ==
  ASSUME NightInv, Types', NEW p \in Proc, NEW q, proc' = [proc EXCEPT ![p] = q],
         q.pc # "rename", p \in Locking => ~ Busy(q), UNCHANGED runVars
  PROVE  NightInv'
<1>1. proc \in [Proc -> ProcState]
  BY DEF NightInv, Types
<1>2. \A x \in Proc : proc'[x] = IF x = p THEN q ELSE proc[x]
  BY <1>1
<1>3. \A x \in Locking : Busy(proc'[x]) => proc'[x] = proc[x] /\ Busy(proc[x])
  BY <1>2, ProcNames
<1>4. \A x \in Proc : proc'[x].pc = "rename" => proc'[x] = proc[x]
  BY <1>2
<1>5. Exclusive'
  BY <1>3, ProcNames DEF NightInv, Exclusive, Busy
<1>6. Alone => Alone'
  BY <1>4 DEF Alone, runVars
<1>7. Counted => Counted'
  BY <1>3 DEF Counted, Covers, runVars, Busy
<1>8. CapBites'
  BY DEF NightInv, CapBites, runVars
<1> QED  BY <1>5, <1>6, <1>7, <1>8 DEF NightInv, runVars

\* A process that takes the lock reads the file when nobody else holds it.
LEMMA ReadsHolds ==
  ASSUME NightInv, Types', NoWriter, NEW p \in Locking, NEW q, proc' = [proc EXCEPT ![p] = q],
         q.pc = "write", ~ clashed => Covers(q, through), UNCHANGED runVars
  PROVE  NightInv'
<1>1. proc \in [Proc -> ProcState] /\ p \in Proc
  BY ProcNames DEF NightInv, Types
<1>2. \A x \in Proc : proc'[x] = IF x = p THEN q ELSE proc[x]
  BY <1>1
<1>3. \A x \in Locking : Busy(proc'[x]) => x = p
  BY <1>2, ProcNames DEF NoWriter, Busy
<1>4. \A x \in Proc : proc'[x].pc = "rename" => proc'[x] = proc[x]
  BY <1>2
<1>5. Exclusive'
  BY <1>3 DEF Exclusive, Busy
<1>6. Alone => Alone'
  BY <1>4 DEF Alone, runVars
<1>7. ~ clashed /\ Counted => Counted'
  BY <1>1, <1>2, <1>3 DEF Counted, Covers, runVars, Busy
<1>8. CapBites'
  BY DEF NightInv, CapBites, runVars
<1> QED  BY <1>5, <1>6, <1>7, <1>8 DEF NightInv, runVars

\* A writer renames what it wrote, and is at nothing then.
LEMMA ReplaceHolds ==
  ASSUME NightInv, Types', NEW p \in Proc, NEW after, Replace(p, after), ~ Busy(after),
         ~ clashed => /\ through' <= proc[p].new.iterations
                      /\ \A q \in Locking \ {p} : Busy(proc[q]) => Covers(proc[q], through'),
         CapBites'
  PROVE  NightInv'
<1>1. proc \in [Proc -> ProcState]
  BY DEF NightInv, Types
<1>2. /\ proc[p].pc = "rename" /\ run' = tmp /\ clashed' = clashed
      /\ proc' = [proc EXCEPT ![p] = after]
  BY DEF Replace
<1>3. \A x \in Proc : proc'[x] = IF x = p THEN after ELSE proc[x]
  BY <1>1, <1>2
<1>4. \A x \in Locking : Busy(proc'[x]) => x # p /\ proc'[x] = proc[x] /\ Busy(proc[x])
  BY <1>3, ProcNames
<1>5. Exclusive'
  BY <1>4, ProcNames DEF NightInv, Exclusive, Busy
<1>6. ~ clashed => \A x \in Proc : proc'[x].pc # "rename"
  BY <1>2, <1>3 DEF NightInv, Alone, Busy
<1>7. ~ clashed => Alone'
  BY <1>6 DEF Alone
<1>8. ~ clashed => through' <= run'.iterations
  BY <1>2 DEF NightInv, Alone
<1>9. ~ clashed => \A x \in Locking : Busy(proc[x]) /\ x # p => Covers(proc[x], through')
  BY DEF Covers
<1>10. ~ clashed => Counted'
  BY <1>4, <1>8, <1>9 DEF Counted, Covers, Busy
<1> QED  BY <1>2, <1>5, <1>7, <1>10 DEF NightInv

\* The variables that a step changes keep their types.
LEMMA ProcTyped ==
  ASSUME NightInv, NEW p \in Proc, NEW q \in ProcState, proc' = [proc EXCEPT ![p] = q],
         p = "start" => (Busy(q) => q.op = "start"), p # "start" => q.op # "start"
  PROVE  /\ proc' \in [Proc -> ProcState]
         /\ \A x \in Locking : proc'[x].op # "start"
         /\ Busy(proc'["start"]) => proc'["start"].op = "start"
<1>1. /\ proc \in [Proc -> ProcState]
      /\ \A x \in Locking : proc[x].op # "start"
      /\ Busy(proc["start"]) => proc["start"].op = "start"
  BY DEF NightInv, Types
<1>2. proc' \in [Proc -> ProcState]
  BY <1>1
<1>3. \A x \in Proc : proc'[x] = IF x = p THEN q ELSE proc[x]
  BY <1>1
<1>4. \A x \in Locking : proc'[x].op # "start"
  BY <1>1, <1>3, ProcNames
<1>5. Busy(proc'["start"]) => proc'["start"].op = "start"
  BY <1>1, <1>3, ProcNames
<1> QED  BY <1>2, <1>4, <1>5

LEMMA HappensTyped == ASSUME NightInv, Happens PROVE events' \in 0..MaxEvents
<1>1. events \in 0..MaxEvents /\ MaxEvents \in Nat
  BY NightAssumption DEF NightInv, Types
<1> QED  BY <1>1 DEF Happens

-----------------------------------------------------------------------------
LEMMA LockHolds == ASSUME NightInv, NEW p \in Locking, Lock(p) PROVE NightInv'
<1> DEFINE new == Rewritten(proc[p].op, status(run))
           q   == [proc[p] EXCEPT !.pc = "write", !.new = new]
<1>1. p \in Proc /\ proc[p] \in ProcState /\ proc[p].op \in Ops \ {"start"} /\ now \in 0..MaxNow
  BY ProcNames DEF NightInv, Types, ProcState
<1>2. /\ status(run) \in Sound /\ status(run).iterations = run.iterations
      /\ status(run).iterations \in Nat
  <2>1. run \in Sound \cup {Garbled, Absent} /\ run # Absent
    BY SoundIsReadable DEF NightInv, Types
  <2> QED  BY <2>1, StatusIsTyped, CounterTyped
<1>3. new \in Sound
  <2>1. 0 <= status(run).iterations /\ 0 <= MaxIterations
    BY <1>2, NightAssumption
  <2> QED  BY <1>1, <1>2, <2>1, RewrittenCovers
<1>4. ~ clashed => /\ through <= new.iterations
                   /\ proc[p].op = "bump" => \/ new.iterations > MaxIterations
                                             \/ through + 1 <= new.iterations
  <2>1. ~ clashed => through \in Nat /\ through <= status(run).iterations /\ through <= MaxIterations
    BY <1>2 DEF NightInv, Types, Counted, CapBites
  <2> QED  BY <1>1, <1>2, <2>1, RewrittenCovers
<1> HIDE DEF new
<1>5. q \in ProcState /\ q.pc = "write" /\ q.op = proc[p].op /\ q.new = new
  BY <1>1, <1>3 DEF ProcState
<1>6. proc' = [proc EXCEPT ![p] = q] /\ NoWriter /\ UNCHANGED <<clockVars, runVars, pass, usageVars>>
  BY DEF Lock, NightInv, Types, new
<1> HIDE DEF q
<1>7. ~ clashed => Covers(q, through)
  BY <1>4, <1>5 DEF Covers
<1>8. Types'
  BY <1>1, <1>5, <1>6, ProcTyped, ProcNames DEF NightInv, Types, clockVars, runVars, usageVars
<1> QED  BY <1>5, <1>6, <1>7, <1>8, ReadsHolds

\* What is written is what was made of run.json under the lock; a clash is noted.
LEMMA WriteHolds == ASSUME NightInv, NEW p \in Proc, Write(p) PROVE NightInv'
<1> DEFINE clash == \E q \in Proc \ {p} : proc[q].pc = "rename"
           q     == [proc[p] EXCEPT !.pc = "rename"]
<1>1. /\ proc[p].pc = "write" /\ clashed' = (clashed \/ clash)
      /\ tmp' \in {proc[p].new, Garbled} /\ (~ clash => tmp' = proc[p].new)
      /\ proc' = [proc EXCEPT ![p].pc = "rename"]
      /\ UNCHANGED <<clockVars, run, through, pass, usageVars>>
  BY DEF Write
<1>2. proc \in [Proc -> ProcState] /\ proc[p] \in ProcState /\ clashed \in BOOLEAN
  BY DEF NightInv, Types
<1>3. /\ q \in ProcState /\ q.pc = "rename" /\ q.op = proc[p].op /\ q.new = proc[p].new
      /\ q.new \in Sound
  BY <1>2 DEF ProcState
<1>4. proc' = [proc EXCEPT ![p] = q]
  BY <1>1, <1>2
<1> HIDE DEF q
<1>5. \A x \in Proc : proc'[x] = IF x = p THEN q ELSE proc[x]
  BY <1>2, <1>4
<1>6. Busy(q) /\ Busy(proc[p])
  BY <1>1, <1>3 DEF Busy
<1>7. /\ p = "start" => (Busy(q) => q.op = "start")
      /\ p # "start" => q.op # "start"
  BY <1>3, <1>6, ProcNames DEF NightInv, Types
<1>8. Types'
  <2>1. tmp' \in Sound \cup {Garbled, Absent} /\ clashed' \in BOOLEAN
    BY <1>1, <1>2, <1>3
  <2> QED  BY <1>1, <1>3, <1>4, <1>7, <2>1, ProcTyped DEF NightInv, Types, clockVars, usageVars
<1>9. \A x \in Locking : Busy(proc'[x]) => Busy(proc[x])
  BY <1>5, <1>6, ProcNames
<1>10. Exclusive'
  BY <1>9, ProcNames DEF NightInv, Exclusive, Busy
<1>11. ~ clashed' => Alone'
  <2>1. ~ clashed' => \A x \in Proc : x # p => proc[x].pc # "rename"
    BY <1>1
  <2>2. ~ clashed' => \A x \in Proc : proc'[x].pc = "rename" => x = p /\ proc'[x] = q
    BY <1>5, <2>1
  <2>3. ~ clashed' => tmp' = q.new
    BY <1>1, <1>3
  <2> HIDE DEF clash
  <2> QED  BY <2>2, <2>3 DEF Alone
<1>12. ~ clashed' => Counted'
  <2>1. ~ clashed' => Counted
    BY <1>1 DEF NightInv
  <2>2. \A x \in Locking : Covers(proc'[x], through) <=> Covers(proc[x], through)
    BY <1>3, <1>5, ProcNames DEF Covers
  <2>3. \A x \in Locking : Covers(proc'[x], through') <=> Covers(proc[x], through)
    BY <1>1, <2>2
  <2> HIDE DEF clash
  <2>4. ~ clashed' => \A x \in Locking : Busy(proc'[x]) => Covers(proc'[x], through')
    BY <1>9, <2>1, <2>3 DEF Counted
  <2>5. ~ clashed' => through' <= run'.iterations
    BY <1>1, <2>1 DEF Counted
  <2> QED  BY <2>4, <2>5 DEF Counted, Covers, Busy
<1>13. CapBites'
  BY <1>1 DEF NightInv, CapBites
<1> QED  BY <1>8, <1>10, <1>11, <1>12, <1>13 DEF NightInv

\* A renaming of what another has renamed comes from a clash.
LEMMA ReplaceFailsHolds == ASSUME NightInv, NEW p \in Proc, ReplaceFails(p) PROVE NightInv'
<1>1. /\ proc[p].pc = "rename" /\ tmp = Absent /\ proc' = [proc EXCEPT ![p] = Quiet]
      /\ run' \in {run, proc[p].new, Garbled} /\ pass' \in {NoPass, pass}
      /\ UNCHANGED <<clockVars, tmp, through, clashed, usageVars>>
  BY DEF ReplaceFails
<1>2. proc \in [Proc -> ProcState] /\ proc[p].new \in Sound
  BY DEF NightInv, Types, ProcState
<1>3. clashed
  BY <1>1, <1>2, SoundIsReadable DEF NightInv, Types, Alone
<1>4. Quiet \in ProcState /\ ~ Busy(Quiet) /\ Quiet.op # "start"
  BY QuietIsTyped DEF Busy, Quiet
<1>5. run' \in Sound \cup {Garbled}
  BY <1>1, <1>2 DEF NightInv, Types
<1>6. pass' \in PassState
  <2>1. NoPass \in PassState
    BY NightAssumption DEF NoPass, PassState
  <2> QED  BY <1>1, <2>1 DEF NightInv, Types
<1>7. Types'
  BY <1>1, <1>4, <1>5, <1>6, ProcTyped DEF NightInv, Types, clockVars, usageVars
<1>8. \A x \in Locking : Busy(proc'[x]) => Busy(proc[x])
  BY <1>1, <1>2, <1>4, ProcNames
<1>9. Exclusive'
  BY <1>8, ProcNames DEF NightInv, Exclusive, Busy
<1>10. CapBites' /\ clashed'
  BY <1>1, <1>3 DEF CapBites
<1> QED  BY <1>7, <1>9, <1>10 DEF NightInv

\* The types after a renaming, and that nobody else holds the lock.
LEMMA ReplaceTyped ==
  ASSUME NightInv, NEW p \in Proc, NEW after \in ProcState, Replace(p, after),
         ~ Busy(after), after.op # "start", through' \in Nat, pass' \in PassState
  PROVE  Types'
<1>1. /\ run' = tmp /\ tmp' = Absent /\ tmp # Absent /\ proc' = [proc EXCEPT ![p] = after]
      /\ UNCHANGED <<clockVars, clashed, usageVars>>
  BY DEF Replace
<1>2. run' \in Sound \cup {Garbled}
  BY <1>1 DEF NightInv, Types
<1>3. /\ proc' \in [Proc -> ProcState]
      /\ \A x \in Locking : proc'[x].op # "start"
      /\ Busy(proc'["start"]) => proc'["start"].op = "start"
  BY <1>1, ProcTyped
<1> QED  BY <1>1, <1>2, <1>3 DEF NightInv, Types, clockVars, usageVars

LEMMA HolderIsAlone ==
  ASSUME NightInv, NEW p \in Locking, NEW after, Replace(p, after)
  PROVE  /\ p \in Proc /\ Busy(proc[p])
         /\ \A q \in Locking \ {p} : ~ Busy(proc[q])
         /\ ~ clashed => Covers(proc[p], through)
BY ProcNames DEF NightInv, Exclusive, Counted, Replace, Busy

LEMMA BumpHolds == ASSUME NightInv, Bump PROVE NightInv'
<1> DEFINE tooMany == proc["tick"].new.iterations > MaxIterations
           after == IF tooMany THEN [Quiet EXCEPT !.pc = "lock", !.op = "max_iterations"] ELSE Quiet
<1>1. "tick" \in Locking /\ "tick" \in Proc /\ "max_iterations" \in Ops
  BY ProcNames DEF Ops, Reasons
<1>2. /\ proc["tick"].op = "bump" /\ Replace("tick", after) /\ UNCHANGED pass
      /\ through' = IF tooMany THEN through ELSE through + 1
  BY DEF Bump
<1>3. after \in ProcState /\ ~ Busy(after) /\ after.op # "start"
  <2>1. [Quiet EXCEPT !.pc = "lock", !.op = "max_iterations"].op # "start" /\ Quiet.op # "start"
    BY DEF Quiet
  <2> QED  BY <1>1, <2>1, QuietIsTyped DEF Busy
<1>4. through \in Nat /\ MaxIterations \in Nat /\ proc["tick"].new.iterations \in Nat
  <2>1. proc["tick"].new \in Sound
    BY <1>1 DEF NightInv, Types, ProcState
  <2> QED  BY <2>1, CounterTyped, NightAssumption DEF NightInv, Types
<1>5. clashed' = clashed
  BY <1>2 DEF Replace
<1> HIDE DEF after
<1>6. \A q \in Locking \ {"tick"} : ~ Busy(proc[q])
  BY <1>1, <1>2, HolderIsAlone
<1>7. ~ clashed => through' <= proc["tick"].new.iterations
  <2>1. ~ clashed => Covers(proc["tick"], through)
    BY <1>1, <1>2, HolderIsAlone
  <2> QED  BY <1>2, <1>4, <2>1 DEF Covers
<1>8. CapBites'
  BY <1>2, <1>4, <1>5, <1>7 DEF NightInv, CapBites
<1>9. Types'
  <2>1. through' \in Nat /\ pass' \in PassState
    BY <1>2, <1>4 DEF NightInv, Types
  <2> QED  BY <1>1, <1>2, <1>3, <2>1, ReplaceTyped
<1> QED  BY <1>1, <1>2, <1>3, <1>6, <1>7, <1>8, <1>9, ReplaceHolds

\* An end and a resumption leave the counter alone.
LEMMA KeepsCounter ==
  ASSUME NightInv, NEW p \in Proc, Replace(p, Quiet), UNCHANGED through, pass' \in PassState,
         proc[p].op # "start"
  PROVE  NightInv'
<1>1. Quiet \in ProcState /\ ~ Busy(Quiet) /\ Quiet.op # "start"
  BY QuietIsTyped DEF Busy, Quiet
<1>2. p \in Locking
  BY ProcNames DEF NightInv, Types, Replace, Busy
<1>3. \A q \in Locking \ {p} : ~ Busy(proc[q])
  BY <1>2, HolderIsAlone
<1>4. ~ clashed => through' <= proc[p].new.iterations
  BY <1>2, HolderIsAlone DEF Covers
<1>5. CapBites'
  BY DEF NightInv, CapBites, Replace
<1>6. Types'
  <2>1. through' \in Nat
    BY DEF NightInv, Types
  <2> QED  BY <1>1, <2>1, ReplaceTyped
<1> QED  BY <1>1, <1>3, <1>4, <1>5, <1>6, ReplaceHolds

LEMMA EndHolds == ASSUME NightInv, NEW p \in Proc, End(p) PROVE NightInv'
<1>1. pass' \in PassState
  BY DEF End, NightInv, Types, PassState
<1>2. Replace(p, Quiet) /\ UNCHANGED through /\ proc[p].op # "start"
  BY DEF End
<1> QED  BY <1>1, <1>2, KeepsCounter

LEMMA ResumeHolds == ASSUME NightInv, Resume PROVE NightInv'
<1>1. pass' \in PassState
  BY DEF Resume, NightInv, Types, PassState
<1>2. Replace("night", Quiet) /\ UNCHANGED through /\ proc["night"].op # "start"
  BY DEF Resume
<1> QED  BY <1>1, <1>2, KeepsCounter, ProcNames

\* A start lets nothing through yet, and whoever has read the file before it
\* counts no fewer ticks than none.
LEMMA StartEndsHolds == ASSUME NightInv, StartEnds PROVE NightInv'
<1>1. Replace("start", Quiet) /\ through' = 0 /\ UNCHANGED pass
  BY DEF StartEnds
<1>2. Quiet \in ProcState /\ ~ Busy(Quiet) /\ Quiet.op # "start"
  BY QuietIsTyped DEF Busy, Quiet
<1>3. proc["start"].new.iterations \in Nat
  BY ProcNames, CounterTyped DEF NightInv, Types, ProcState
<1>4. ~ clashed => \A q \in Locking \ {"start"} : Busy(proc[q]) => Covers(proc[q], through')
  <2> SUFFICES ASSUME ~ clashed, NEW q \in Locking, Busy(proc[q]) PROVE Covers(proc[q], through')
    OBVIOUS
  <2>1. Covers(proc[q], through) /\ through \in Nat
    BY DEF NightInv, Counted, Types
  <2>2. proc[q].new.iterations \in Nat /\ MaxIterations \in Nat
    BY ProcNames, CounterTyped, NightAssumption DEF NightInv, Types, ProcState
  <2> QED  BY <1>1, <2>1, <2>2 DEF Covers
<1>5. CapBites'
  BY <1>1, NightAssumption DEF CapBites
<1>6. Types'
  <2>1. through' \in Nat /\ pass' \in PassState
    BY <1>1 DEF NightInv, Types
  <2> QED  BY <1>1, <1>2, <2>1, ProcNames, ReplaceTyped
<1> QED  BY <1>1, <1>2, <1>3, <1>4, <1>5, <1>6, ProcNames, ReplaceHolds

LEMMA TickHolds == ASSUME NightInv, Tick PROVE NightInv'
<1> DEFINE q == [Quiet EXCEPT !.pc = "lock", !.op = "bump"]
<1>1. "tick" \in Proc /\ "tick" # "start" /\ "bump" \in Ops
  BY ProcNames DEF Ops
<1>2. q \in ProcState /\ q.pc = "lock" /\ q.op # "start"
  BY <1>1, QuietIsTyped DEF Quiet
<1>3. proc' = [proc EXCEPT !["tick"] = q] /\ UNCHANGED <<clockVars, runVars, pass, usageVars>>
  BY DEF Tick
<1> HIDE DEF q
<1>4. Types'
  BY <1>1, <1>2, <1>3, ProcTyped DEF NightInv, Types, clockVars, runVars, usageVars
<1> QED  BY <1>1, <1>2, <1>3, <1>4, AsksHolds DEF Busy

LEMMA StartHolds == ASSUME NightInv, Start PROVE NightInv'
<1> DEFINE q == [Quiet EXCEPT !.pc = "write", !.op = "start", !.new = Started]
<1>1. "start" \in Proc /\ "start" \notin Locking
  BY ProcNames
<1>2. q \in ProcState /\ q.pc = "write" /\ q.op = "start"
  BY QuietIsTyped, StartedIsTyped DEF ProcState, Ops
<1>3. proc' = [proc EXCEPT !["start"] = q] /\ UNCHANGED <<now, config, runVars, pass, usageVars>>
  BY DEF Start
<1>4. events' \in 0..MaxEvents
  BY HappensTyped DEF Start
<1> HIDE DEF q
<1>5. Types'
  BY <1>1, <1>2, <1>3, <1>4, ProcTyped DEF NightInv, Types, runVars, usageVars
<1> QED  BY <1>1, <1>2, <1>3, <1>5, AsksHolds

LEMMA ChiefHolds == ASSUME NightInv, NEW why \in {"", "done"}, ChiefEnds(why) PROVE NightInv'
<1> DEFINE new == Ended(status(run), why)
           q   == [Quiet EXCEPT !.pc = "write", !.op = why, !.new = new]
<1>1. "chief" \in Locking /\ "chief" \in Proc /\ why \in Reasons /\ why \in Ops
  BY ProcNames DEF Ops, Reasons
<1>2. status(run) \in Sound /\ status(run).iterations = run.iterations
  <2>1. run \in Sound \cup {Garbled, Absent} /\ run # Absent
    BY SoundIsReadable DEF NightInv, Types
  <2> QED  BY <2>1, StatusIsTyped
<1>3. new \in Sound /\ new.iterations = run.iterations
  BY <1>1, <1>2, EndedIsTyped DEF NightInv, Types
<1> HIDE DEF new
<1>4. q \in ProcState /\ q.pc = "write" /\ q.op = why /\ q.new = new
  BY <1>1, <1>3, QuietIsTyped DEF ProcState
<1>5. /\ proc' = [proc EXCEPT !["chief"] = q] /\ NoWriter
      /\ UNCHANGED <<now, config, runVars, pass, usageVars>>
  BY DEF ChiefEnds, new
<1>6. events' \in 0..MaxEvents
  BY HappensTyped DEF ChiefEnds
<1> HIDE DEF q
<1>7. Types'
  BY <1>1, <1>4, <1>5, <1>6, ProcTyped, ProcNames DEF NightInv, Types, runVars, usageVars
<1>8. ~ clashed => Covers(q, through)
  BY <1>3, <1>4 DEF NightInv, Counted, Covers
<1> QED  BY <1>1, <1>4, <1>5, <1>7, <1>8, ReadsHolds

\* The reconciler looks: it asks for the lock, or it does not.
LEMMA LookHolds == ASSUME NightInv, Look PROVE NightInv'
<1>1. UNCHANGED <<clockVars, runVars, usageVars>>
  BY DEF Look
<1>2. pass' \in PassState
  BY DEF Look, NightInv, Types, PassState
<1>3. "night" \in Proc /\ "night" # "start" /\ "night" \in Ops /\ "resume" \in Ops
  BY ProcNames DEF Ops, Reasons
<1>4. \/ proc' = proc
      \/ \E o \in {"night", "resume"} :
           proc' = [proc EXCEPT !["night"] = [Quiet EXCEPT !.pc = "lock", !.op = o]]
  BY DEF Look
<1>5. CASE proc' = proc
  <2>1. Types'
    BY <1>1, <1>2, <1>5 DEF NightInv, Types, clockVars, runVars, usageVars
  <2> QED  BY <1>1, <1>5, <2>1, ElsewhereHolds
<1>6. ASSUME NEW o \in {"night", "resume"},
             proc' = [proc EXCEPT !["night"] = [Quiet EXCEPT !.pc = "lock", !.op = o]]
      PROVE  NightInv'
  <2> DEFINE q == [Quiet EXCEPT !.pc = "lock", !.op = o]
  <2>1. q \in ProcState /\ q.pc = "lock" /\ q.op # "start"
    BY <1>3, QuietIsTyped DEF Quiet
  <2>2. proc' = [proc EXCEPT !["night"] = q]
    BY <1>6
  <2> HIDE DEF q
  <2>3. Types'
    BY <1>1, <1>2, <1>3, <2>1, <2>2, ProcTyped
       DEF NightInv, Types, clockVars, runVars, usageVars
  <2> QED  BY <1>1, <1>3, <2>1, <2>2, <2>3, AsksHolds DEF Busy
<1> QED  BY <1>4, <1>5, <1>6

LEMMA DownHolds == ASSUME NightInv, Down PROVE NightInv'
<1>1. /\ pass' = NoPass /\ proc' = [proc EXCEPT !["night"] = Quiet]
      /\ UNCHANGED <<now, config, runVars, usageVars>>
  BY DEF Down
<1>2. "night" \in Proc /\ Quiet \in ProcState /\ Quiet.pc = "off" /\ Quiet.op # "start"
  BY QuietIsTyped, ProcNames DEF Quiet
<1>3. NoPass \in PassState
  BY NightAssumption DEF NoPass, PassState
<1>4. events' \in 0..MaxEvents
  BY HappensTyped DEF Down
<1>5. Types'
  BY <1>1, <1>2, <1>3, <1>4, ProcTyped DEF NightInv, Types, runVars, usageVars
<1> QED  BY <1>1, <1>2, <1>5, AsksHolds DEF Busy

\* The other steps of a pass.
LEMMA PassHolds ==
  ASSUME NightInv, \/ Wake \/ KicksDone
                   \/ \E a \in Participant, sent \in BOOLEAN : Kick(a, sent)
                   \/ \E o \in Outcomes, b \in Burns : Feed(o, b)
  PROVE  NightInv'
<1>1. NoPass \in PassState
  BY NightAssumption DEF NoPass, PassState
<1>2. CASE Wake
  <2>1. pass' \in PassState
    BY <1>1, <1>2 DEF Wake, PassState
  <2> QED  BY <1>2, <2>1, ElsewhereHolds DEF Wake, NightInv, Types, clockVars, runVars, usageVars
<1>3. CASE KicksDone
  <2>1. pass' \in PassState
    BY <1>3 DEF KicksDone, NightInv, Types, PassState
  <2> QED  BY <1>3, <2>1, ElsewhereHolds DEF KicksDone, NightInv, Types, clockVars, runVars, usageVars
<1>4. ASSUME NEW a \in Participant, NEW sent \in BOOLEAN, Kick(a, sent) PROVE NightInv'
  <2>1. pass.left \ {a} \in SUBSET Participant
    BY DEF NightInv, Types, PassState
  <2>2. (IF sent THEN pass.kicks + 1 ELSE pass.kicks) \in 0..MaxKicks
    <3>1. pass.kicks \in 0..MaxKicks /\ pass.kicks < MaxKicks /\ MaxKicks \in Nat
      BY <1>4, NightAssumption DEF Kick, NightInv, Types, PassState
    <3>2. pass.kicks \in 0..MaxKicks /\ pass.kicks + 1 \in 0..MaxKicks
      BY <3>1
    <3> QED  BY <3>2
  <2>3. pass' \in PassState
    BY <1>4, <2>1, <2>2 DEF Kick, NightInv, Types, PassState
  <2> QED  BY <1>4, <2>3, ElsewhereHolds DEF Kick, NightInv, Types, clockVars, runVars, usageVars
<1>5. ASSUME NEW o \in Outcomes, NEW b \in Burns, Feed(o, b) PROVE NightInv'
  BY <1>1, <1>5, ElsewhereHolds DEF Feed, NightInv, Types, clockVars, runVars
<1> QED  BY <1>2, <1>3, <1>4, <1>5

\* Usage and time.
LEMMA UsageHolds ==
  ASSUME NightInv, \/ TimePasses \/ \E h \in Host : HostUses(h)
                   \/ \E o \in Outcomes, b \in Burns, h \in Host : HostReports(h, o, b)
  PROVE  NightInv'
<1>1. CASE TimePasses
  <2>1. now' \in 0..MaxNow
    BY <1>1, NightAssumption DEF TimePasses, NightInv, Types
  <2>2. used' \in [Host -> 0..MaxUsed]
    BY <1>1, NightAssumption DEF TimePasses, NightInv, Types
  <2> QED  BY <1>1, <2>1, <2>2, ElsewhereHolds DEF TimePasses, NightInv, Types, runVars
<1>2. ASSUME NEW h \in Host, HostUses(h) PROVE NightInv'
  <2>1. events' \in 0..MaxEvents
    BY <1>2, HappensTyped DEF HostUses
  <2>2. used[h] + 1 \in 0..MaxUsed
    BY <1>2, NightAssumption DEF HostUses, NightInv, Types
  <2>3. used' \in [Host -> 0..MaxUsed]
    BY <1>2, <2>2 DEF HostUses, NightInv, Types
  <2> QED  BY <1>2, <2>1, <2>3, ElsewhereHolds DEF HostUses, NightInv, Types, runVars
<1>3. ASSUME NEW o \in Outcomes, NEW b \in Burns, NEW h \in Host, HostReports(h, o, b)
      PROVE  NightInv'
  <2>1. events' \in 0..MaxEvents
    BY <1>3, HappensTyped DEF HostReports
  <2> QED  BY <1>3, <2>1, ElsewhereHolds DEF HostReports, NightInv, Types, runVars
<1> QED  BY <1>1, <1>2, <1>3

-----------------------------------------------------------------------------
\* The invariant is inductive.
LEMMA NextHolds == NightInv /\ [Next]_vars => NightInv'
<1> SUFFICES ASSUME NightInv, [Next]_vars PROVE NightInv'  OBVIOUS
<1>1. CASE RunStep
  BY <1>1, LockHolds, WriteHolds, ReplaceFailsHolds, EndHolds, BumpHolds, ResumeHolds,
     StartEndsHolds, TickHolds, StartHolds DEF RunStep, Writes
<1>2. CASE PassStep
  BY <1>2, LookHolds, PassHolds DEF PassStep
<1>3. CASE Down
  BY <1>3, DownHolds
<1>4. CASE TimePasses
  BY <1>4, UsageHolds
<1>5. CASE \E why \in {"", "done"} : ChiefEnds(why)
  BY <1>5, ChiefHolds
<1>6. CASE \E o \in Outcomes, b \in Burns : Feed(o, b) \/ \E h \in Host : HostReports(h, o, b)
  BY <1>6, PassHolds, UsageHolds
<1>7. CASE \E h \in Host : HostUses(h)
  BY <1>7, UsageHolds
<1>8. CASE UNCHANGED vars
  BY <1>8, ElsewhereHolds DEF vars, runVars, NightInv, Types
<1> QED  BY <1>1, <1>2, <1>3, <1>4, <1>5, <1>6, <1>7, <1>8 DEF Next

LEMMA InvHolds == Spec => []NightInv
BY InitHolds, NextHolds, PTL DEF Spec

\* At most one holder of the lock at a time is writing, as a number.
LEMMA WritersAtMostOne ==
  ASSUME Exclusive
  PROVE  Cardinality({p \in Locking : proc[p].pc \in {"write", "rename"}}) <= 1
<1> DEFINE W == {p \in Locking : proc[p].pc \in {"write", "rename"}}
<1>1. CASE W = {}
  BY <1>1, FS_EmptySet
<1>2. CASE W # {}
  <2>1. PICK p \in W : TRUE  BY <1>2
  <2>2. W = {p}  BY <2>1 DEF Exclusive, Busy
  <2> HIDE DEF W
  <2>3. Cardinality(W) = 1  BY <2>2, FS_Singleton
  <2>4. Cardinality(W) <= 1  BY <2>3
  <2> QED  BY <2>4 DEF W
<1> QED  BY <1>1, <1>2

\* The types of the night, and the lock on run.json: two processes that take it are
\* never at once between reading and writing it (Run._locked).
THEOREM RunFileIsLocked == Spec => []NightTypeOK
<1>1. NightInv => NightTypeOK
  <2> SUFFICES ASSUME NightInv PROVE NightTypeOK  OBVIOUS
  <2>1. Types  BY DEF NightInv
  <2>2. proc \in [Proc -> [pc : {"off", "lock", "write", "rename"}, new : RunFile,
                           op : {"", "bump", "resume", "night", "done", "max_iterations",
                                 "start"}]]
    <3>1. Ops = {"", "bump", "resume", "night", "done", "max_iterations", "start"}
      BY DEF Ops, Reasons
    <3>2. ProcState \subseteq [pc : {"off", "lock", "write", "rename"}, new : RunFile, op : Ops]
      BY SoundIsReadable DEF ProcState
    <3> QED  BY <2>1, <3>1, <3>2 DEF Types
  <2>3. /\ pass.pc \in {"off", "look", "write", "kick", "feed"}
        /\ pass.left \subseteq Participant /\ pass.kicks \in 0..MaxKicks
    BY <2>1 DEF Types, PassState
  <2>4. run \in RunFile /\ tmp \in RunFile
    BY <2>1, SoundIsReadable DEF Types
  <2>5. Cardinality({p \in Locking : proc[p].pc \in {"write", "rename"}}) <= 1
    BY WritersAtMostOne DEF NightInv
  <2> QED  BY <2>1, <2>2, <2>3, <2>4, <2>5 DEF NightTypeOK, Types
<1> QED  BY <1>1, InvHolds, PTL

\* The cap on iterations holds for any cap, fleet, configuration and usage, and
\* whatever pauses, resumptions, ends, starts and crashes come between the ticks,
\* until a start without the lock meets another writing in run.json.tmp.
THEOREM CapAlwaysBites == Spec => []CapBites
<1>1. NightInv => CapBites  BY DEF NightInv
<1> QED  BY <1>1, InvHolds, PTL

-----------------------------------------------------------------------------
(* Sums over finite sets.  SumFunctionOnSet is a recursive function; what it   *)
(* computes follows from the subsets of a finite set being well-founded, with  *)
(* a minimal counterexample in the place of an induction.                      *)

\* The element that a sum takes first.
Pick(s) == CHOOSE x \in s : TRUE

\* g adds up F over every subset of S, element by element.
Adds(F, S, g) ==
  g = [s \in SUBSET S |-> IF s = {} THEN 0 ELSE F[Pick(s)] + g[s \ {Pick(s)}]]

LEMMA SumIs ==
  ASSUME NEW F, NEW S
  PROVE  SumFunctionOnSet(F, S) = (CHOOSE g : Adds(F, S, g))[S]
  BY DEF SumFunctionOnSet, FoldFunctionOnSet, MapThenFoldSet, Adds, Pick

LEMMA MinimalSubset ==
  ASSUME NEW S, IsFiniteSet(S), NEW B, B \subseteq SUBSET S, B # {}
  PROVE  \E T \in B : \A U \in B : U \subseteq T => U = T
  <1>1. IsWellFoundedOn(StrictSubsetOrdering(S), SUBSET S)
    BY FS_StrictSubsetOrderingWellFounded, FS_FiniteSubsetsOfFinite
  <1>2. PICK T \in B : \A U \in B : ~ (<<U, T>> \in StrictSubsetOrdering(S))
    <2> DEFINE R == StrictSubsetOrdering(S)
               P == SUBSET S
    <2>1. IsWellFoundedOn(R, P) /\ B \subseteq P /\ B # {}
      BY <1>1
    <2> HIDE DEF R, P
    <2>2. \E x \in B : \A y \in B : ~ (<<y, x>> \in R)
      BY <2>1, WFMin
    <2> QED BY <2>2 DEF R
  <1>3. \A U \in B : U \subseteq T /\ U # T => <<U, T>> \in StrictSubsetOrdering(S)
    BY DEF StrictSubsetOrdering
  <1>4. \A U \in B : U \subseteq T => U = T
    BY <1>2, <1>3
  <1> QED BY <1>4, Zenon

LEMMA PickIsIn ==
  ASSUME NEW s, s # {}
  PROVE  Pick(s) \in s
  BY DEF Pick

LEMMA AddsAt ==
  ASSUME NEW F, NEW S, NEW g, Adds(F, S, g), NEW s \in SUBSET S
  PROVE  g[s] = IF s = {} THEN 0 ELSE F[Pick(s)] + g[s \ {Pick(s)}]
  BY DEF Adds

\* Two that add up F agree where both are defined.
LEMMA AddsAgree ==
  ASSUME NEW F, NEW S, IsFiniteSet(S), NEW T \in SUBSET S,
         NEW g, NEW h, Adds(F, S, g), Adds(F, T, h)
  PROVE  \A s \in SUBSET T : g[s] = h[s]
  <1> DEFINE B == {s \in SUBSET T : g[s] # h[s]}
  <1> SUFFICES ASSUME B # {} PROVE FALSE
    OBVIOUS
  <1>1. PICK s \in B : \A u \in B : u \subseteq s => u = s
    <2>1. IsFiniteSet(T) /\ B \subseteq SUBSET T
      BY FS_Subset
    <2> HIDE DEF B
    <2> QED BY <2>1, MinimalSubset
  <1>2. s # {}
    BY AddsAt
  <1>3. /\ g[s] = F[Pick(s)] + g[s \ {Pick(s)}]
        /\ h[s] = F[Pick(s)] + h[s \ {Pick(s)}]
    <2>1. s \in SUBSET S /\ s \in SUBSET T
      OBVIOUS
    <2>2. g[s] = IF s = {} THEN 0 ELSE F[Pick(s)] + g[s \ {Pick(s)}]
      BY <2>1, AddsAt
    <2>3. h[s] = IF s = {} THEN 0 ELSE F[Pick(s)] + h[s \ {Pick(s)}]
      BY <2>1, AddsAt
    <2> QED BY <1>2, <2>2, <2>3
  <1>4. s \ {Pick(s)} \notin B
    BY <1>1, <1>2, PickIsIn
  <1>5. s \ {Pick(s)} \in SUBSET T
    OBVIOUS
  <1> QED BY <1>3, <1>4, <1>5

LEMMA AddsExists ==
  ASSUME NEW F, NEW S, IsFiniteSet(S)
  PROVE  \E g : Adds(F, S, g)
  <1> DEFINE B == {T \in SUBSET S : ~ \E g : Adds(F, T, g)}
             A(T) == CHOOSE g : Adds(F, T, g)
  <1> SUFFICES ASSUME B # {} PROVE FALSE
    OBVIOUS
  <1>1. PICK T \in B : \A U \in B : U \subseteq T => U = T
    <2>1. B \subseteq SUBSET S
      OBVIOUS
    <2> HIDE DEF B
    <2> QED BY <2>1, MinimalSubset
  <1>2. \A U \in SUBSET T : U # T => Adds(F, U, A(U))
    <2> SUFFICES ASSUME NEW U \in SUBSET T, U # T PROVE Adds(F, U, A(U))
      OBVIOUS
    <2>1. \E g : Adds(F, U, g)
      BY <1>1
    <2> QED BY <2>1
  <1> DEFINE V(s) == A(s)[s]
             g == [s \in SUBSET T |->
                     IF s # T THEN V(s) ELSE IF s = {} THEN 0 ELSE F[Pick(s)] + V(s \ {Pick(s)})]
  <1>3. ASSUME NEW s \in SUBSET T
        PROVE  g[s] = IF s = {} THEN 0 ELSE F[Pick(s)] + g[s \ {Pick(s)}]
    <2>1. s # {} => /\ Pick(s) \in s
                    /\ s \ {Pick(s)} \in SUBSET s /\ s \ {Pick(s)} \in SUBSET T /\ s \ {Pick(s)} # T
      BY PickIsIn
    <2> HIDE DEF A
    <2>2. CASE s = T
      BY <2>1, <2>2
    <2>3. CASE s # T
      <3>1. g[s] = A(s)[s]
        BY <2>3
      <3>2. A(s)[s] = IF s = {} THEN 0 ELSE F[Pick(s)] + A(s)[s \ {Pick(s)}]
        BY <1>2, <2>3, AddsAt
      <3>3. s # {} => A(s)[s \ {Pick(s)}] = V(s \ {Pick(s)})
        <4> SUFFICES ASSUME s # {} PROVE A(s)[s \ {Pick(s)}] = V(s \ {Pick(s)})
          OBVIOUS
        <4>1. IsFiniteSet(s)
          BY FS_Subset
        <4>2. Adds(F, s, A(s)) /\ Adds(F, s \ {Pick(s)}, A(s \ {Pick(s)}))
          BY <1>2, <2>1, <2>3
        <4> QED BY <2>1, <4>1, <4>2, AddsAgree
      <3>4. s # {} => g[s \ {Pick(s)}] = V(s \ {Pick(s)})
        BY <2>1
      <3> QED BY <3>1, <3>2, <3>3, <3>4
    <2> QED BY <2>2, <2>3
  <1>4. Adds(F, T, g)
    <2>1. g = [s \in SUBSET T |-> g[s]]
      OBVIOUS
    <2> HIDE DEF g
    <2> QED BY <1>3, <2>1 DEF Adds
  <1> QED BY <1>1, <1>4

LEMMA SumStep ==
  ASSUME NEW F, NEW S, IsFiniteSet(S)
  PROVE  SumFunctionOnSet(F, S) =
           IF S = {} THEN 0 ELSE F[Pick(S)] + SumFunctionOnSet(F, S \ {Pick(S)})
  <1> DEFINE A(T) == CHOOSE g : Adds(F, T, g)
             R == S \ {Pick(S)}
  <1>1. Adds(F, S, A(S))
    BY AddsExists
  <1>2. R \in SUBSET S /\ IsFiniteSet(R)
    BY FS_Subset
  <1>3. Adds(F, R, A(R))
    BY <1>2, AddsExists
  <1> HIDE DEF A
  <1>4. A(S)[R] = A(R)[R]
    BY <1>1, <1>2, <1>3, AddsAgree
  <1>5. A(S)[S] = IF S = {} THEN 0 ELSE F[Pick(S)] + A(S)[R]
    BY <1>1, AddsAt
  <1>6. SumFunctionOnSet(F, S) = A(S)[S] /\ SumFunctionOnSet(F, R) = A(R)[R]
    BY SumIs DEF A
  <1> QED BY <1>4, <1>5, <1>6

LEMMA PickRest ==
  ASSUME NEW S, IsFiniteSet(S), S # {}
  PROVE  /\ Pick(S) \in S
         /\ S \ {Pick(S)} \in SUBSET S /\ S \ {Pick(S)} # S /\ IsFiniteSet(S \ {Pick(S)})
  BY PickIsIn, FS_Subset

\* Any element may be taken out of a sum of numbers first.
LEMMA SumWithout ==
  ASSUME NEW S, IsFiniteSet(S), NEW F, \A x \in S : F[x] \in Nat
  PROVE  /\ SumFunctionOnSet(F, S) \in Nat
         /\ \A x \in S : SumFunctionOnSet(F, S) = F[x] + SumFunctionOnSet(F, S \ {x})
  <1> DEFINE Sum(T) == SumFunctionOnSet(F, T)
             P(T) == Sum(T) \in Nat /\ \A x \in T : Sum(T) = F[x] + Sum(T \ {x})
             B == {T \in SUBSET S : ~ P(T)}
  <1> SUFFICES ASSUME B # {} PROVE FALSE
    OBVIOUS
  <1>1. PICK T \in B : \A U \in B : U \subseteq T => U = T
    <2>1. B \subseteq SUBSET S
      OBVIOUS
    <2> HIDE DEF B
    <2> QED BY <2>1, MinimalSubset
  <1>2. T \in SUBSET S /\ ~ P(T) /\ IsFiniteSet(T)
    BY FS_Subset
  <1>3. \A U \in SUBSET T : U # T => P(U)
    BY <1>1, <1>2
  <1> HIDE DEF B, P
  <1>4. \A U \in SUBSET T : IsFiniteSet(U)
    BY <1>2, FS_Subset
  <1>5. \A U \in SUBSET T : Sum(U) = IF U = {} THEN 0 ELSE F[Pick(U)] + Sum(U \ {Pick(U)})
    BY <1>4, SumStep
  <1> HIDE DEF Sum
  <1>6. CASE T = {}
    <2>1. Sum(T) = 0
      BY <1>5, <1>6
    <2>2. P(T)
      BY <1>6, <2>1 DEF P
    <2> QED BY <1>2, <2>2
  <1>7. CASE T # {}
    <2> DEFINE p == Pick(T)
    <2>1. p \in T /\ T \ {p} \in SUBSET T /\ T \ {p} # T
      BY <1>2, <1>7, PickIsIn
    <2>2. Sum(T) = F[p] + Sum(T \ {p}) /\ Sum(T \ {p}) \in Nat /\ F[p] \in Nat
      BY <1>2, <1>3, <1>5, <1>7, <2>1 DEF P
    <2> HIDE DEF p
    <2>3. ASSUME NEW x \in T, x # p PROVE Sum(T) = F[x] + Sum(T \ {x})
      <3> DEFINE R == (T \ {p}) \ {x}
      <3>1. /\ x \in T \ {p} /\ p \in T \ {x} /\ R = (T \ {x}) \ {p}
            /\ T \ {x} \in SUBSET T /\ T \ {x} # T /\ R \in SUBSET T /\ R # T
        BY <2>1, <2>3
      <3> HIDE DEF R
      <3>2. Sum(T \ {p}) = F[x] + Sum(R)
        BY <1>3, <2>1, <3>1 DEF P, R
      <3>3. Sum(T \ {x}) = F[p] + Sum(R)
        BY <1>3, <3>1 DEF P
      <3>4. F[x] \in Nat /\ Sum(R) \in Nat
        BY <1>2, <1>3, <3>1 DEF P
      <3> QED BY <2>2, <3>2, <3>3, <3>4
    <2> QED BY <1>2, <2>1, <2>2, <2>3 DEF P
  <1> QED BY <1>6, <1>7

\* Greater summands, greater sum; and what is zero need not be added.
LEMMA SumGrows ==
  ASSUME NEW S, IsFiniteSet(S), NEW T \in SUBSET S, NEW F, NEW G,
         \A x \in S : F[x] \in Nat /\ (x \notin T => F[x] = 0),
         \A x \in T : G[x] \in Nat /\ F[x] <= G[x]
  PROVE  SumFunctionOnSet(F, S) <= SumFunctionOnSet(G, T)
  <1> DEFINE SumF(U) == SumFunctionOnSet(F, U)
             SumG(U) == SumFunctionOnSet(G, U)
             B == {U \in SUBSET S : ~ SumF(U) <= SumG(U \cap T)}
  <1>0. \A U \in SUBSET S : IsFiniteSet(U) /\ U \cap T \in SUBSET S
    BY FS_Subset
  <1> SUFFICES ASSUME B # {} PROVE FALSE
    <2>1. B = {} => SumF(S) <= SumG(S \cap T)
      OBVIOUS
    <2>2. S \cap T = T
      OBVIOUS
    <2> QED BY <2>1, <2>2
  <1>1. PICK U \in B : \A V \in B : V \subseteq U => V = U
    <2>1. B \subseteq SUBSET S
      OBVIOUS
    <2> HIDE DEF B
    <2> QED BY <2>1, MinimalSubset
  <1>2. U \in SUBSET S /\ ~ SumF(U) <= SumG(U \cap T)
    OBVIOUS
  <1>3. \A V \in SUBSET U : V # U => SumF(V) <= SumG(V \cap T)
    BY <1>1, <1>2
  <1> HIDE DEF B
  <1>4. \A V \in SUBSET S : SumF(V) \in Nat /\ \A x \in V : SumF(V) = F[x] + SumF(V \ {x})
    BY <1>0, SumWithout
  <1>5. \A V \in SUBSET T : SumG(V) \in Nat /\ \A x \in V : SumG(V) = G[x] + SumG(V \ {x})
    BY <1>0, SumWithout
  <1>6. SumF({}) = 0 /\ SumG({}) = 0
    BY SumStep, FS_EmptySet
  <1> HIDE DEF SumF, SumG
  <1>7. CASE U = {}
    <2>1. U \cap T = {}
      BY <1>7
    <2> QED BY <1>2, <1>6, <1>7, <2>1
  <1>8. ASSUME NEW x \in U PROVE FALSE
    <2> DEFINE V == U \ {x}
    <2>1. /\ x \in S /\ V \in SUBSET U /\ V \in SUBSET S /\ V # U
          /\ V \cap T \in SUBSET T /\ U \cap T \in SUBSET T
      BY <1>2
    <2>2. SumF(U) = F[x] + SumF(V) /\ SumF(V) <= SumG(V \cap T)
      BY <1>2, <1>3, <1>4, <2>1
    <2>3. SumF(V) \in Nat /\ SumG(V \cap T) \in Nat /\ F[x] \in Nat
      BY <1>4, <1>5, <2>1
    <2>4. CASE x \in T
      <3>1. x \in U \cap T /\ (U \cap T) \ {x} = V \cap T
        BY <2>4
      <3>2. SumG(U \cap T) = G[x] + SumG(V \cap T) /\ G[x] \in Nat /\ F[x] <= G[x]
        BY <1>5, <2>1, <2>4, <3>1
      <3> QED BY <1>2, <2>2, <2>3, <3>2
    <2>5. CASE x \notin T
      <3>1. U \cap T = V \cap T /\ F[x] = 0
        BY <2>1, <2>5
      <3>2. SumF(U) = SumF(V)
        BY <2>2, <2>3, <3>1
      <3>3. SumG(U \cap T) = SumG(V \cap T)
        BY <3>1
      <3> QED BY <1>2, <2>2, <3>2, <3>3
    <2> QED BY <2>4, <2>5
  <1> QED BY <1>7, <1>8

-----------------------------------------------------------------------------
(* What the fleet files about its use.  Every host that has filed since the    *)
(* fleet passed the kill level has filed no less than its part of it.          *)

\* u is what each host had used by then, at least.
Lasts(u) == InUse(u) >= KillAt /\ \A h \in Host : u[h] <= used[h]

\* What h has filed since then accounts for it.
FiledSince(h, u) ==
  file[h].at > over =>
    /\ file[h].kind = "idle" => u[h] = 0
    /\ file[h].kind = "active" => u[h] <= file[h].tokens /\ file[h].win = now \div WindowLen

Filed(f) == f.kind \in {"none", "torn", "idle", "active"} /\ f.at \in 0..now /\ f.tokens \in Nat

FilesTell ==
  /\ file = [h \in Host |-> file[h]]
  /\ \A h \in Host : Filed(file[h])
  /\ over # Never =>
       /\ over \in 0..now
       /\ \E u \in [Host -> Nat] : Lasts(u) /\ \A h \in Host : FiledSince(h, u)

LEMMA SameWindow ==
  ASSUME NEW t \in Nat, NEW L \in Nat \ {0}, (t + 1) % L # 0
  PROVE  (t + 1) \div L = t \div L
OBVIOUS

\* A probe files no less than the host has used.
LEMMA ReportTells ==
  ASSUME FilesTell, Types, NEW h \in Host, NEW o \in {"read", "error", "torn"}, NEW b,
         file' = [file EXCEPT ![h] = report_local(@, o, now, used[h], b)],
         UNCHANGED <<now, used, over>>
  PROVE  FilesTell'
<1>1. now \in Nat /\ used[h] \in Nat
  BY NightAssumption DEF Types
<1>2. file' = [i \in Host |-> file'[i]] /\ \A i \in Host \ {h} : file'[i] = file[i]
  BY DEF FilesTell
<1>3. \/ file'[h] = file[h]
      \/ file'[h] = Blank("torn", 0)
      \/ file'[h] = Blank("idle", now) /\ used[h] = 0
      \/ file'[h] = Snapshot(now, used[h], b)
  BY DEF FilesTell, report_local
<1>4. \A i \in Host : Filed(file[i])
  BY DEF FilesTell
<1>5. Filed(file[h])'
  BY <1>1, <1>3, <1>4 DEF Filed, Blank, Snapshot
<1>6. \A i \in Host : Filed(file[i])'
  BY <1>2, <1>4, <1>5 DEF Filed
<1>7. ASSUME over # Never PROVE \E u \in [Host -> Nat] : Lasts(u)' /\ \A i \in Host : FiledSince(i, u)'
  <2>1. PICK u \in [Host -> Nat] : Lasts(u) /\ \A i \in Host : FiledSince(i, u)
    BY <1>7 DEF FilesTell
  <2>2. u[h] \in Nat /\ u[h] <= used[h]
    BY <2>1 DEF Lasts
  <2>3. FiledSince(h, u)'
    BY <1>1, <1>3, <2>1, <2>2 DEF FiledSince, Blank, Snapshot
  <2>4. \A i \in Host \ {h} : FiledSince(i, u)'
    BY <1>2, <2>1 DEF FiledSince
  <2>5. Lasts(u)'
    BY <2>1 DEF Lasts
  <2> QED  BY <2>3, <2>4, <2>5
<1> QED  BY <1>2, <1>6, <1>7 DEF FilesTell

LEMMA UseTells ==
  ASSUME FilesTell, Types, NEW h \in Host, HostUses(h)
  PROVE  FilesTell'
<1>1. /\ now \in Nat /\ used \in [Host -> 0..MaxUsed] /\ used[h] < MaxUsed
      /\ used' = [used EXCEPT ![h] = @ + 1] /\ UNCHANGED <<now, file>>
  BY NightAssumption DEF Types, HostUses
<1>2. used' \in [Host -> Nat] /\ \A i \in Host : used[i] \in Nat /\ used[i] <= used'[i]
  BY <1>1, NightAssumption
<1>3. CASE over' = over
  <2>1. ASSUME over # Never PROVE \E u \in [Host -> Nat] : Lasts(u)' /\ \A i \in Host : FiledSince(i, u)'
    <3>1. PICK u \in [Host -> Nat] : Lasts(u) /\ \A i \in Host : FiledSince(i, u)
      BY <2>1 DEF FilesTell
    <3>2. Lasts(u)'
      BY <1>2, <3>1 DEF Lasts
    <3>3. \A i \in Host : FiledSince(i, u)'
      BY <1>1, <1>3, <3>1 DEF FiledSince
    <3> QED  BY <3>2, <3>3
  <2> QED  BY <1>1, <1>3, <2>1 DEF FilesTell, Filed
\* The fleet passes the level with this very token, and nobody has filed since.
<1>4. CASE over' # over
  <2>1. over' = now /\ InUse(used') >= KillAt
    BY <1>4 DEF HostUses
  <2> PICK u \in [Host -> Nat] : u = used'
    BY <1>2
  <2>2. \A i \in Host : FiledSince(i, u)'
    BY <1>1, <2>1 DEF FiledSince, FilesTell, Filed
  <2>3. Lasts(u)'
    BY <1>2, <2>1 DEF Lasts, InUse
  <2>4. \E v \in [Host -> Nat] : Lasts(v)' /\ \A i \in Host : FiledSince(i, v)'
    BY <2>2, <2>3
  <2> QED  BY <1>1, <2>1, <2>4 DEF FilesTell, Filed
<1> QED  BY <1>3, <1>4

LEMMA TimeTells ==
  ASSUME FilesTell, Types, TimePasses
  PROVE  FilesTell'
<1>1. now \in Nat /\ now' = now + 1 /\ file' = file
  BY NightAssumption DEF Types, TimePasses
<1>2. \A h \in Host : Filed(file[h])'
  BY <1>1 DEF FilesTell, Filed
<1>3. ASSUME over' # Never
      PROVE  /\ over' \in 0..now'
             /\ \E u \in [Host -> Nat] : Lasts(u)' /\ \A h \in Host : FiledSince(h, u)'
  <2>1. UNCHANGED <<used, over>> /\ (now + 1) % WindowLen # 0
    BY <1>1, <1>3 DEF TimePasses
  <2>2. now' \div WindowLen = now \div WindowLen
    BY <1>1, <2>1, SameWindow, UsageAssumption
  <2>3. over \in 0..now
    BY <1>3, <2>1 DEF FilesTell
  <2>4. PICK u \in [Host -> Nat] : Lasts(u) /\ \A h \in Host : FiledSince(h, u)
    BY <1>3, <2>1 DEF FilesTell
  <2>5. Lasts(u)' /\ \A h \in Host : FiledSince(h, u)'
    BY <1>1, <2>1, <2>2, <2>4 DEF Lasts, FiledSince
  <2> QED  BY <1>1, <2>1, <2>3, <2>5
<1> QED  BY <1>1, <1>2, <1>3 DEF FilesTell

LEMMA SameFilesTell ==
  ASSUME FilesTell, UNCHANGED <<now, used, file, over>>
  PROVE  FilesTell'
<1>1. \A u : /\ Lasts(u)' <=> Lasts(u)
             /\ \A h \in Host : FiledSince(h, u)' <=> FiledSince(h, u)
  BY DEF Lasts, FiledSince
<1> QED  BY <1>1 DEF FilesTell, Filed

LEMMA FeedTells ==
  ASSUME FilesTell, Types, NEW o \in Outcomes, NEW b, Feed(o, b)
  PROVE  FilesTell'
<1>1. o \in {"read", "error", "torn"} /\ Here \in Host
  BY NightAssumption
<1>2. CASE run.active
  <2>1. /\ file' = [file EXCEPT ![Here] = report_local(@, o, now, used[Here], b)]
        /\ UNCHANGED <<now, used, over>>
    BY <1>2 DEF Feed, clockVars
  <2> QED  BY <1>1, <2>1, ReportTells
<1>3. CASE ~ run.active
  BY <1>3, SameFilesTell DEF Feed, clockVars
<1> QED  BY <1>2, <1>3

LEMMA NextTells ==
  ASSUME FilesTell, Types, [Next]_vars
  PROVE  FilesTell'
<1>1. CASE TimePasses
  BY <1>1, TimeTells
<1>2. ASSUME NEW h \in Host, HostUses(h) PROVE FilesTell'
  BY <1>2, UseTells
<1>3. ASSUME NEW o \in Outcomes, NEW b \in Burns, NEW h \in Host, HostReports(h, o, b)
      PROVE  FilesTell'
  <2>1. o \in {"read", "error", "torn"}
    BY NightAssumption
  <2> QED  BY <1>3, <2>1, ReportTells DEF HostReports
<1>4. ASSUME NEW o \in Outcomes, NEW b \in Burns, Feed(o, b) PROVE FilesTell'
  BY <1>4, FeedTells
<1>5. CASE \/ RunStep \/ PassStep \/ Down \/ UNCHANGED vars
           \/ \E why \in {"", "done"} : ChiefEnds(why)
  <2>1. UNCHANGED <<now, used, file, over>>
    BY <1>5 DEF RunStep, PassStep, Down, ChiefEnds, Bump, Resume, Tick, Start, StartEnds, Lock,
                Writes, Write, Replace, ReplaceFails, End,
                Wake, Look, KicksDone, Kick, clockVars, usageVars, vars
  <2> QED  BY <2>1, SameFilesTell
<1> QED  BY <1>1, <1>2, <1>3, <1>4, <1>5 DEF Next

LEMMA InitTells == Init => FilesTell
<1> SUFFICES ASSUME Init PROVE FilesTell  OBVIOUS
<1>1. now = 0 /\ used \in [Host -> Nat] /\ file = [h \in Host |-> NoFile]
  BY NightAssumption DEF Init
<1>2. \A h \in Host : Filed(file[h]) /\ file[h].kind = "none" /\ file[h].at = 0
  BY <1>1 DEF Filed, NoFile, Blank
<1>3. ASSUME over # Never PROVE over = 0 /\ Lasts(used)
  BY <1>1, <1>3 DEF Init, Lasts
<1> QED  BY <1>1, <1>2, <1>3 DEF FilesTell, FiledSince

\* When no host is stale or missing, each has filed since, in this window.
LEMMA FleetIsKilled ==
  ASSUME Expected = Host, Types, FilesTell, over # Never, now - over > MaxAge
  PROVE  evaluate(file, now) \notin {"ok", "warn"}
<1> DEFINE H == Fresh(file, now)
<1>1. CASE Stale(file, now) \cup Missing(file) # {}
  BY <1>1 DEF evaluate
<1>2. CASE Stale(file, now) \cup Missing(file) = {}
  <2>1. /\ now \in Nat /\ over \in Nat /\ MaxAge \in Nat /\ KillAt \in Nat \ {0}
        /\ IsFiniteSet(Host)
    BY NightAssumption, UsageAssumption DEF Types, FilesTell
  <2>2. PICK u \in [Host -> Nat] : Lasts(u) /\ \A h \in Host : FiledSince(h, u)
    BY DEF FilesTell
  <2>3. ASSUME NEW h \in Host
        PROVE  /\ \/ file[h].kind = "idle" /\ h \notin H /\ u[h] = 0
                  \/ /\ file[h].kind = "active" /\ h \in H
                     /\ u[h] <= file[h].tokens /\ file[h].win = now \div WindowLen
               /\ file[h].tokens \in Nat
    <3>1. Filed(file[h])
      BY DEF FilesTell
    <3>2. file[h].kind \in {"idle", "active"} /\ ~ (now - file[h].at > MaxAge)
      BY <1>2, <3>1 DEF Stale, Missing, Filed
    <3>3. file[h].at > over
      BY <2>1, <3>1, <3>2 DEF Filed
    <3> QED  BY <1>2, <2>2, <3>1, <3>2, <3>3 DEF FiledSince, Filed, Fresh
  <2>4. H \in SUBSET Host /\ IsFiniteSet(H)
    BY <2>1, FS_Subset DEF Fresh
  <2>5. InUse(u) = SumFunctionOnSet(u, Host) /\ InUse(u) >= KillAt
    BY <2>2 DEF InUse, SumFunction, Lasts
  <2> DEFINE tokens == [h \in H |-> file[h].tokens]
  <2>6. SumFunctionOnSet(u, Host) <= SumFunctionOnSet(tokens, H)
    <3>1. \A h \in Host : u[h] \in Nat /\ (h \notin H => u[h] = 0)
      BY <2>3
    <3>2. \A h \in H : tokens[h] \in Nat /\ u[h] <= tokens[h]
      BY <2>3, <2>4
    <3> HIDE DEF tokens, H
    <3> QED  BY <2>1, <2>4, <3>1, <3>2, SumGrows
  <2>7. SumFunctionOnSet(u, Host) \in Nat /\ SumFunctionOnSet(tokens, H) \in Nat
    <3>1. \A h \in H : tokens[h] \in Nat
      BY <2>3, <2>4
    <3> HIDE DEF tokens, H
    <3> QED  BY <2>1, <2>4, <3>1, SumWithout
  <2>8. H # {}
    <3>1. H = {} => SumFunctionOnSet(tokens, H) = 0
      BY <2>4, SumStep
    <3> HIDE DEF tokens, H
    <3> QED  BY <2>1, <2>5, <2>6, <2>7, <3>1
  <2>9. Tokens(file, H) = SumFunctionOnSet(tokens, H)
    BY DEF Tokens, SumFunction
  <2>10. aggregate(file, H) = H
    <3> DEFINE w == now \div WindowLen
    <3>1. {file[h].win : h \in H} = {w} /\ InWindow(file, H, w) = H
      BY <2>3, <2>4, <2>8 DEF InWindow
    <3>2. Tokens(file, InWindow(file, H, w)) <= Tokens(file, InWindow(file, H, w))
      <4> HIDE DEF H, tokens
      <4> QED  BY <2>7, <2>9, <3>1
    <3> HIDE DEF w, H
    <3>3. FleetWindow(file, H) = w
      BY <3>1, <3>2 DEF FleetWindow
    <3> QED  BY <3>1, <3>3 DEF aggregate
  <2>11. Tokens(file, H) >= KillAt
    <3> HIDE DEF tokens, H
    <3> QED  BY <2>1, <2>5, <2>6, <2>7, <2>9
  <2>12. Breached(file, now)
    BY <2>8, <2>10, <2>11 DEF Breached
  <2> QED  BY <2>12 DEF evaluate
<1> QED  BY <1>1, <1>2

\* For any fleet, limits and window: when every host of the fleet is expected to
\* file, one that has been past the kill level for longer than a snapshot lasts is
\* never told that it may go on (evaluate: what is not known is not zero).
THEOREM SilenceIsNotConsent ==
  ASSUME Expected = Host
  PROVE  Spec => []NeverBlind
<1>1. FilesTell /\ NightInv /\ [Next]_vars => FilesTell'
  BY NextTells DEF NightInv
<1>2. FilesTell /\ NightInv => NeverBlind
  BY FleetIsKilled DEF NeverBlind, NightInv
<1> QED  BY InitTells, InvHolds, <1>1, <1>2, PTL DEF Spec
=============================================================================
