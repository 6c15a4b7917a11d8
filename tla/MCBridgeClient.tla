--------------------------- MODULE MCBridgeClient ---------------------------
(* Small instances of BridgeClient for TLC. *)
EXTENDS BridgeClient, TLC

CONSTANTS b1, b2

PlainForms  == [b \in Burn |-> "plain"]
MixedForms  == [b \in Burn |-> IF b = b1 THEN "plain" ELSE "bareRecipient"]
DottedForms == [b \in Burn |-> "dotAmount"]

\* Executions, tabs and (with one form) burns are interchangeable.
Interchangeable == Permutations(Flow) \cup Permutations(Tab) \cup Permutations(Burn)
=============================================================================
