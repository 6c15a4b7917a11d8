---------------------------- MODULE GasRelayerV2 ----------------------------
(***************************************************************************)
(* contracts/GasRelayerV2.sol: one call receives an attested CCTP message  *)
(* whose USDC is minted to the contract, pays the fee to the operator and  *)
(* the rest to the recipient the message's hook names.  A call is atomic   *)
(* (reentrancy lock) and a failing one changes nothing.  The fixed layout  *)
(* of a message is abstracted to its hook and to membership in WellFormed. *)
(***************************************************************************)

EXTENDS Integers

CONSTANTS
  Message,         \* CCTP messages
  Account,         \* addresses other than zero
  Self,            \* the contract's own address
  WellFormed,      \* messages with the length, the versions, the destinationCaller
                   \* and the mintRecipient the contract insists on
  HookRecipient,   \* the hook of a message: its recipient ...
  HookMaxFee,      \* ... and its maxRelayFee
  Amount,          \* USDC a message mints
  Calls,           \* arguments [msg, to, maxFee] that callers of relay may use
  MaxRelayFee,     \* MAX_RELAY_FEE
  MaxDonated       \* bound on USDC sent to the contract by mistake

ASSUME RelayerAssumption ==
  /\ Self \in Account
  /\ WellFormed \subseteq Message
  /\ HookRecipient \in [Message -> Account]
  /\ HookMaxFee \in [Message -> Nat]
  /\ Amount \in [Message -> Nat]
  /\ Calls \subseteq [msg : Message, to : Account, maxFee : Nat]
  /\ MaxRelayFee \in Nat
  /\ MaxDonated \in Nat

VARIABLES
  relayFee,
  feeRecipient,
  paused,
  balance,     \* USDC of the contract
  attested,    \* messages with an attestation
  received,    \* messages whose nonce the MessageTransmitter has used
  delivered,   \* history: the Relayed events
  donated,     \* history: USDC sent to the contract by mistake
  kept         \* history: fees and net amounts that were the contract's own

contract == <<relayFee, feeRecipient, paused, balance, attested, received, delivered,
              donated, kept>>

Delivery == [msg : Message, to : Account, net : Nat, fee : Nat]

ContractTypeOK ==
  /\ relayFee \in 0..MaxRelayFee
  /\ feeRecipient \in Account
  /\ paused \in BOOLEAN
  /\ balance \in Nat
  /\ attested \subseteq Message
  /\ received \subseteq Message
  /\ delivered \subseteq Delivery
  /\ donated \in Nat
  /\ kept \in Nat

\* The constructor.
ContractInit ==
  /\ relayFee \in 0..MaxRelayFee
  /\ feeRecipient \in Account
  /\ paused = FALSE
  /\ balance = 0
  /\ attested = {}
  /\ received = {}
  /\ delivered = {}
  /\ donated = 0
  /\ kept = 0

\* Mistake: maxFee is compared with the hook but relayFee is not compared with maxFee.
AcceptsAnyFee(m, to, maxFee) ==
  /\ ~paused
  /\ m \in WellFormed
  /\ to = HookRecipient[m]
  /\ maxFee = HookMaxFee[m]
  /\ m \in attested \ received
  /\ Amount[m] > relayFee

\* Every require of relay and _validateRelayMessage, and receiveMessage's own checks.
Accepts(m, to, maxFee) ==
  /\ ~paused
  /\ m \in WellFormed
  /\ to = HookRecipient[m]
  /\ maxFee = HookMaxFee[m]
  /\ relayFee <= maxFee
  /\ m \in attested \ received
  /\ Amount[m] > relayFee

\* What the contract's balance loses by a transfer: nothing, if it is to itself.
Outflow(recipient, amount) == IF recipient = Self THEN 0 ELSE amount

\* Mistake: the fee is transferred a second time.
RelayFeeTwice(m, to, maxFee) ==
  LET netAmount == Amount[m] - relayFee
  IN /\ Accepts(m, to, maxFee)
     /\ received' = received \cup {m}
     /\ balance' = balance + Amount[m] - 2 * Outflow(feeRecipient, relayFee)
                                       - Outflow(to, netAmount)
     /\ delivered' = delivered \cup
          {[msg |-> m, to |-> to, net |-> netAmount, fee |-> relayFee]}
     /\ UNCHANGED <<relayFee, feeRecipient, paused, attested, donated, kept>>

\* Mistake: the recipient is charged the ceiling, the operator is paid the fee.
RelayChargingCeiling(m, to, maxFee) ==
  LET netAmount == Amount[m] - maxFee
  IN /\ Accepts(m, to, maxFee)
     /\ received' = received \cup {m}
     /\ balance' = balance + Amount[m] - Outflow(feeRecipient, relayFee)
                                       - Outflow(to, netAmount)
     /\ delivered' = delivered \cup
          {[msg |-> m, to |-> to, net |-> netAmount, fee |-> relayFee]}
     /\ kept' = kept + (IF feeRecipient = Self THEN relayFee ELSE 0)
                     + (IF to = Self THEN netAmount ELSE 0)
     /\ UNCHANGED <<relayFee, feeRecipient, paused, attested, donated>>

\* The effects of a call to relay, by anyone: the balance grows by the minted amount,
\* and fee and rest of what was received are transferred.  Hook and owner may name the
\* contract itself.
Relay(m, to, maxFee) ==
  LET balanceAfter == balance + Amount[m]
      netAmount == (balanceAfter - balance) - relayFee
  IN /\ Accepts(m, to, maxFee)
     /\ received' = received \cup {m}
     /\ balance' = balanceAfter - Outflow(feeRecipient, relayFee) - Outflow(to, netAmount)
     /\ delivered' = delivered \cup
          {[msg |-> m, to |-> to, net |-> netAmount, fee |-> relayFee]}
     /\ kept' = kept + (IF feeRecipient = Self THEN relayFee ELSE 0)
                     + (IF to = Self THEN netAmount ELSE 0)
     /\ UNCHANGED <<relayFee, feeRecipient, paused, attested, donated>>

SetRelayFee(newFee) ==
  /\ newFee <= MaxRelayFee
  /\ relayFee' = newFee
  /\ UNCHANGED <<feeRecipient, paused, balance, attested, received, delivered, donated, kept>>

SetFeeRecipient(newRecipient) ==
  /\ feeRecipient' = newRecipient
  /\ UNCHANGED <<relayFee, paused, balance, attested, received, delivered, donated, kept>>

Pause ==
  /\ paused' = TRUE
  /\ UNCHANGED <<relayFee, feeRecipient, balance, attested, received, delivered, donated, kept>>

Unpause ==
  /\ paused' = FALSE
  /\ UNCHANGED <<relayFee, feeRecipient, balance, attested, received, delivered, donated, kept>>

\* Outside the contract: USDC sent to it directly, and Circle's attestations.
Donate ==
  /\ donated < MaxDonated
  /\ donated' = donated + 1
  /\ balance' = balance + 1
  /\ UNCHANGED <<relayFee, feeRecipient, paused, attested, received, delivered, kept>>

Attest(m) ==
  /\ m \notin attested
  /\ attested' = attested \cup {m}
  /\ UNCHANGED <<relayFee, feeRecipient, paused, balance, received, delivered, donated, kept>>

ContractNext ==
  \/ \E call \in Calls : Relay(call.msg, call.to, call.maxFee)
  \/ \E newFee \in 0..MaxRelayFee : SetRelayFee(newFee)
  \/ \E newRecipient \in Account : SetFeeRecipient(newRecipient)
  \/ Pause
  \/ Unpause
  \/ Donate
  \/ \E m \in Message : Attest(m)

\* GasRelayerV2.sol:235, "successful relay funds are paid immediately": no sequence of
\* relays, fee and recipient changes leaves anybody's USDC in the contract, from which
\* nobody can take it, or pays out what it was sent.  It holds what was donated to it, and
\* the fees and net amounts that the owner or a hook addressed to the contract itself.
HoldsOnlyItsOwn == balance = donated + kept

\* What a burner with a hook is promised, with every fee change, pause and caller.
Promise == INSTANCE HookDelivery
HookHonoured == Promise!Spec
=============================================================================
