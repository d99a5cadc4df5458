------------------------------ MODULE MCTickets ------------------------------
(* Values of the constants of Tickets for TLC. *)
EXTENDS Tickets

OneAgentTo == [t \in Ticket |-> "a"]
OneAgent   == <<"a">>

\* Odd tickets go to a, even ones to b.
TwoAgentsTo == [t \in Ticket |-> IF t % 2 = 1 THEN "a" ELSE "b"]
TwoAgents   == <<"a", "b">>
=============================================================================
