---------------------------- MODULE TicketContract ----------------------------
(***************************************************************************)
(* What the ticket system promises about the order in which tickets run:   *)
(* a ticket starts only after everything it depends on is done, only a     *)
(* started ticket gets an outcome, and neither a start nor an outcome is   *)
(* ever taken back.  (A ticket may get several outcomes: closing it, its   *)
(* timeout and its cancellation do not exclude each other.)                *)
(***************************************************************************)
CONSTANT Ticket

VARIABLES
  deps,      \* what each ticket depends on
  started,   \* tickets that were handed to their agent
  outcome    \* the outcomes each ticket has had

vars == <<deps, started, outcome>>

Outcome == {"done", "failed", "cancelled"}

TypeOK ==
  /\ deps \in [Ticket -> SUBSET Ticket]
  /\ started \subseteq Ticket
  /\ outcome \in [Ticket -> SUBSET Outcome]

\* Some tickets may have been through before.
Init ==
  /\ deps = [t \in Ticket |-> {}]
  /\ started \subseteq Ticket
  /\ outcome = [t \in Ticket |-> IF t \in started THEN {"done"} ELSE {}]

\* A ticket's dependencies are settled before it starts.
Plan(t, D) ==
  /\ t \notin started
  /\ deps' = [deps EXCEPT ![t] = D]
  /\ UNCHANGED <<started, outcome>>

Start(t) ==
  /\ t \notin started
  /\ \A d \in deps[t] : "done" \in outcome[d]
  /\ started' = started \cup {t}
  /\ UNCHANGED <<deps, outcome>>

End(t, o) ==
  /\ t \in started
  /\ outcome' = [outcome EXCEPT ![t] = @ \cup {o}]
  /\ UNCHANGED <<deps, started>>

Next ==
  \E t \in Ticket :
     \/ \E D \in SUBSET Ticket : Plan(t, D)
     \/ Start(t)
     \/ \E o \in Outcome : End(t, o)

Spec == Init /\ [][Next]_vars
=============================================================================
