--------------------------- MODULE MCRelayService ---------------------------
(* Instances of RelayService for TLC. *)
EXTENDS RelayService, TLC

CONSTANTS m1, m2, r1, r2, alice

\* m1 is worth relaying at every fee its hook allows; m2 only at no fee at all,
\* although its hook allows a higher one, and its hook names the contract itself.
Recipients == (m1 :> alice @@ m2 :> Self)
Ceilings   == (m1 :> 1 @@ m2 :> 2)
Amounts    == (m1 :> 3 @@ m2 :> 1)

\* The right calls, and one for m1 that names another recipient and a lower ceiling.
Asked == {[msg |-> m1, to |-> alice, maxFee |-> 1],
          [msg |-> m2, to |-> Self, maxFee |-> 2],
          [msg |-> m1, to |-> Self, maxFee |-> 0]}
=============================================================================
