---------------------------- MODULE CctpTransfer ----------------------------
(***************************************************************************)
(* What a burn-and-mint bridge promises, whatever the client does: funds   *)
(* burned on the source chain are minted at most once on the destination   *)
(* chain, only for a burn that took effect, and a transfer is reported     *)
(* complete only when it is.                                               *)
(***************************************************************************)

CONSTANT Burn

VARIABLES
  burned,    \* burns that took effect on the source chain
  minted,    \* burns whose funds arrived on the destination chain
  reported   \* burns the user has been told are complete

Init == burned = {} /\ minted = {} /\ reported = {}

BurnFunds(b) ==
  /\ b \notin burned
  /\ burned' = burned \cup {b}
  /\ UNCHANGED <<minted, reported>>

MintFunds(b) ==
  /\ b \in burned \ minted
  /\ minted' = minted \cup {b}
  /\ UNCHANGED <<burned, reported>>

ReportComplete(b) ==
  /\ b \in minted
  /\ reported' = reported \cup {b}
  /\ UNCHANGED <<burned, minted>>

Next == \E b \in Burn : BurnFunds(b) \/ MintFunds(b) \/ ReportComplete(b)

Spec == Init /\ [][Next]_<<burned, minted, reported>>
=============================================================================
