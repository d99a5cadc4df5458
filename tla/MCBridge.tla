------------------------------ MODULE MCBridge ------------------------------
(* The bridge with one room; the pilot also gets what no room belongs to. *)
EXTENDS Bridge
CONSTANT r1
MCOne == <<r1>>
MCNoneToo == <<r1, None>>
=============================================================================
