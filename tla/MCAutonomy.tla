----------------------------- MODULE MCAutonomy -----------------------------
(* Instances of Autonomy for the model checker. *)
EXTENDS Autonomy

\* Every task waits for all the others: alone it waits for nothing, two wait for
\* each other, and each lacks its dependency while only one is on the board.
MCDeps == [t \in Task |-> Task \ {t}]
=============================================================================
