------------------------------ MODULE MCNight ------------------------------
(* Instances of Night for the model checker. *)
EXTENDS Night

\* A window past midnight, and a file that cannot be read.
MCConfigs == {[start |-> 2, stop |-> 1], Unreadable}
=============================================================================
