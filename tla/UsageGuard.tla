----------------------------- MODULE UsageGuard -----------------------------
(***************************************************************************)
(* The usage guard: every host files a snapshot of the tokens it has used   *)
(* in the rolling window of the shared subscription, and whoever judges the *)
(* fleet reads all the files.  A snapshot counts while it is fresh; what is *)
(* not known must never be taken for "nothing used".                       *)
(***************************************************************************)
EXTENDS Integers, FiniteSets, FiniteSetsExt, Functions

CONSTANTS
  Host,       \* labels of the hosts
  Expected,   \* guardrail usage_sources
  WarnAt,     \* window_token_cap * warn_fraction
  KillAt,     \* window_token_cap * kill_fraction
  MaxAge,     \* max_age_seconds, in ticks of the clock
  WindowLen   \* length of the rolling window, in ticks of the clock

ASSUME UsageAssumption ==
  /\ IsFiniteSet(Host) /\ Expected \subseteq Host
  /\ {WarnAt, KillAt, WindowLen} \subseteq Nat \ {0}
  /\ MaxAge \in Nat

\* What <host>.json holds: no file, an unreadable one, an idle marker or an
\* active window, with the time of the probe.
Blank(kind, at) == [kind |-> kind, at |-> at, win |-> 0, tokens |-> 0, burn |-> 0, left |-> 0]
NoFile == Blank("none", 0)
Snapshot(at, tokens, burn) ==
  [kind |-> "active", at |-> at, win |-> at \div WindowLen, tokens |-> tokens,
   burn |-> burn, left |-> WindowLen - (at % WindowLen)]

\* Fault: a probe that fails files a zero.
ErrorIsIdle(f, outcome, at, tokens, burn) ==
  IF outcome # "read" \/ tokens = 0 THEN Blank("idle", at) ELSE Snapshot(at, tokens, burn)

\* What a probe leaves in the file f: an error leaves it as it was, to grow stale.
report_local(f, outcome, at, tokens, burn) ==
  CASE outcome = "error" -> f
    [] outcome = "torn"  -> Blank("torn", 0)
    [] outcome = "read"  -> IF tokens = 0 THEN Blank("idle", at) ELSE Snapshot(at, tokens, burn)

\* The coverage of a directory at a time.
Stale(file, at) ==
  {h \in Host : \/ file[h].kind = "torn"
                \/ file[h].kind \in {"idle", "active"} /\ at - file[h].at > MaxAge}
Missing(file)   == {h \in Expected : file[h].kind = "none"}
Idle(file, at)  == {h \in Host \ Stale(file, at) : file[h].kind = "idle"}
Fresh(file, at) == {h \in Host \ Stale(file, at) : file[h].kind = "active"}

-----------------------------------------------------------------------------
\* The fresh snapshots are added up within one window, that of most hosts.
InWindow(file, H, w) == {h \in H : file[h].win = w}
Tokens(file, H) == SumFunction([h \in H |-> file[h].tokens])

FleetWindow(file, H) ==
  LET size(w)   == Cardinality(InWindow(file, H, w))
      sum(w)    == Tokens(file, InWindow(file, H, w))
      wins      == {file[h].win : h \in H}
  IN  CHOOSE w \in wins : \A v \in wins :
        size(v) < size(w) \/ (size(v) = size(w) /\ sum(v) <= sum(w))

aggregate(file, H) == InWindow(file, H, FleetWindow(file, H))

projected_limit_tokens(file, G) ==
  Tokens(file, G) + SumFunction([h \in G |-> file[h].burn]) * Min({file[h].left : h \in G})

Breached(file, at) ==
  LET G == aggregate(file, Fresh(file, at)) IN
  /\ Fresh(file, at) # {}
  /\ Tokens(file, G) >= KillAt \/ projected_limit_tokens(file, G) >= KillAt

\* A breach in what is known comes first, a gap in what is known second.
evaluate(file, at) ==
  LET H == Fresh(file, at) IN
  CASE Breached(file, at) -> "kill"
    [] ~ Breached(file, at) /\ Stale(file, at) \cup Missing(file) # {} -> "unknown"
    [] OTHER ->
         IF H = {} THEN IF Idle(file, at) # {} THEN "ok" ELSE "unknown"
         ELSE IF Tokens(file, aggregate(file, H)) >= WarnAt THEN "warn" ELSE "ok"
=============================================================================
