---------------------------- MODULE HookDelivery ----------------------------
(***************************************************************************)
(* What relaying promises to whoever burned USDC with a hook: the message  *)
(* is delivered at most once, to the recipient the hook names, at a fee    *)
(* the hook allows, and the rest of the amount arrives.                    *)
(***************************************************************************)

EXTENDS Integers

CONSTANTS Message, HookRecipient, HookMaxFee, Amount

VARIABLE delivered   \* one record per delivered message

Init == delivered = {}

Deliver(m, fee) ==
  /\ \A d \in delivered : d.msg # m
  /\ fee <= HookMaxFee[m]
  /\ fee < Amount[m]
  /\ delivered' = delivered \cup
       {[msg |-> m, to |-> HookRecipient[m], net |-> Amount[m] - fee, fee |-> fee]}

Next == \E m \in Message : \E fee \in 0..HookMaxFee[m] : Deliver(m, fee)

Spec == Init /\ [][Next]_delivered
=============================================================================
