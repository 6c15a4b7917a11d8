---------------------------- MODULE MCPaymaster ----------------------------
(* Instances of Paymaster for TLC. *)
EXTENDS Paymaster, TLC

CONSTANTS alice, bob

\* Enough for two operations of alice with small reservations, or one with the cap.
Wallets == (alice :> 2 @@ bob :> 1)
=============================================================================
