--------------------------- MODULE MCRefuelService ---------------------------
(* Instances of RefuelService for TLC. *)
EXTENDS RefuelService, TLC

CONSTANTS h1, h2, r1, r2, alice, bob

TwoDepositors == (h1 :> alice @@ h2 :> bob)
=============================================================================
