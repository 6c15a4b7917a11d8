---------------------------- MODULE MCYieldVault ----------------------------
(* Instances of YieldVault for TLC. *)
EXTENDS YieldVault

CONSTANTS alice, bob
=============================================================================
