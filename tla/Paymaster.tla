----------------------------- MODULE Paymaster -----------------------------
(***************************************************************************)
(* contracts/Paymaster.sol: prepaid USDC that pays for gas, either charged *)
(* by a trusted relayer (deductGas) or reserved and settled by the         *)
(* ERC-4337 EntryPoint.  EntryPoint.handleOps first validates every        *)
(* operation of its bundle and then executes them in order, each followed  *)
(* by postOp.  The accounts' code that runs in between may call the        *)
(* contract like anybody else, so between any two calls of the EntryPoint  *)
(* there may be calls by others.  A call of the contract is atomic.        *)
(* A handleOps that reverts as a whole leaves nothing behind and is the    *)
(* bundle that never was.                                                  *)
(***************************************************************************)

EXTENDS Integers, Sequences, Sums

CONSTANTS
  Address,       \* accounts, with or without code
  Self,          \* the contract
  Deployer,
  Staff,         \* the accounts that may be made relayer or owner
  None,          \* the zero address
  MaxDeduction,  \* MAX_DEDUCTION_PER_TX
  MaxGasRate,    \* MAX_GAS_RATE
  MaxGasUnits,   \* bound on the gas limit of an operation
  MaxBundle,     \* bound on the operations of a bundle
  InitialUsdc    \* USDC of every account at the start

ASSUME PaymasterAssumption ==
  /\ IsFiniteSet(Address)
  /\ Deployer \in Address
  /\ Staff \subseteq Address
  /\ {Self, None} \cap Address = {}
  /\ Self # None
  /\ MaxDeduction \in Nat \ {0}
  /\ MaxGasRate \in Nat
  /\ MaxGasUnits \in Nat
  /\ MaxBundle \in Nat
  /\ InitialUsdc \in [Address -> Nat]

VARIABLES
  balances,
  locked,
  gasRate,
  paused,
  owner,
  pendingOwner,
  relayer,
  feeRecipient,
  usdc,       \* USDC of every account and of the contract
  bundle,     \* operations validated and not yet settled, in their order
  executing,  \* the bundle's validation loop is over
  lost,       \* history: reservations per account whose postOp reverted
  repriced,   \* history: accounts charged at a higher rate than they were reserved at
  unpaid,     \* history: accounts whose balance was too small for a charge
  keptFees    \* history: fees paid while the fee recipient was the contract

admin == <<gasRate, paused, owner, pendingOwner, relayer, feeRecipient>>
entry == <<bundle, executing, lost, repriced, unpaid>>
vars == <<balances, locked, admin, usdc, entry, keptFees>>

\* A validated operation: the context postOp gets (user, reserved), and the gas limit and
\* rate it was reserved with.
Operation == [user : Address, reserved : 1..MaxDeduction,
              units : 0..MaxGasUnits, rate : 0..MaxGasRate]

TypeOK ==
  /\ balances \in [Address -> Nat]
  /\ locked \in [Address -> Nat]
  /\ gasRate \in 0..MaxGasRate
  /\ paused \in BOOLEAN
  /\ owner \in Address
  /\ pendingOwner \in Address \cup {None}
  /\ relayer \in Address
  /\ feeRecipient \in Address \cup {Self}
  /\ usdc \in [Address \cup {Self} -> Nat]
  /\ bundle \in Seq(Operation)
  /\ executing \in BOOLEAN
  /\ lost \in [Address -> Nat]
  /\ repriced \subseteq Address
  /\ unpaid \subseteq Address
  /\ keptFees \in Nat

\* The constructor.
Init ==
  /\ balances = [a \in Address |-> 0]
  /\ locked = [a \in Address |-> 0]
  /\ gasRate \in 0..MaxGasRate
  /\ paused = FALSE
  /\ owner = Deployer
  /\ pendingOwner = None
  /\ relayer \in Staff
  /\ feeRecipient \in Address \cup {Self}
  /\ usdc = [a \in Address \cup {Self} |-> IF a = Self THEN 0 ELSE InitialUsdc[a]]
  /\ bundle = <<>>
  /\ executing = FALSE
  /\ lost = [a \in Address |-> 0]
  /\ repriced = {}
  /\ unpaid = {}
  /\ keptFees = 0

-----------------------------------------------------------------------------
(* Helpers. *)

Least(x, y) == IF x < y THEN x ELSE y

\* What a user may withdraw or be charged for: nothing that is reserved.
Unlocked(u) == IF balances[u] > locked[u] THEN balances[u] - locked[u] ELSE 0

\* USDC moves; the token refuses what the sender does not have.
Transfer(from, to, amount) ==
  /\ usdc[from] >= amount
  /\ usdc' = [usdc EXCEPT ![from] = @ - amount, ![to] = @ + amount]

\* A fee leaves the contract, unless the fee recipient is the contract.
PayFee(amount) ==
  /\ Transfer(Self, feeRecipient, amount)
  /\ keptFees' = keptFees + (IF feeRecipient = Self THEN amount ELSE 0)

-----------------------------------------------------------------------------
(* Users and the relayer. *)

Deposit(u, amount) ==
  /\ ~paused
  /\ amount # 0
  /\ Transfer(u, Self, amount)
  /\ balances' = [balances EXCEPT ![u] = @ + amount]
  /\ UNCHANGED <<locked, admin, entry, keptFees>>

\* withdraw with what it takes for available; not stopped by a pause.
TakeOut(u, amount, available) ==
  /\ amount # 0
  /\ amount <= available
  /\ balances' = [balances EXCEPT ![u] = @ - amount]
  /\ Transfer(Self, u, amount)
  /\ UNCHANGED <<locked, admin, entry, keptFees>>

\* Mistake: a withdrawal does not look at reservations.
WithdrawReserved(u, amount) == TakeOut(u, amount, balances[u])

Withdraw(u, amount) == TakeOut(u, amount, Unlocked(u))

\* deductGas with what it takes for available.
Deduct(u, cost, available) ==
  /\ ~paused
  /\ cost # 0
  /\ cost <= MaxDeduction
  /\ cost <= available
  /\ balances' = [balances EXCEPT ![u] = @ - cost]
  /\ PayFee(cost)
  /\ UNCHANGED <<locked, admin, entry>>

\* Mistake: the relayer may charge what is reserved for an operation.
DeductReserved(caller, u, cost) == caller = relayer /\ Deduct(u, cost, balances[u])

DeductGas(caller, u, cost) == caller = relayer /\ Deduct(u, cost, Unlocked(u))

-----------------------------------------------------------------------------
(* The EntryPoint. *)

\* validatePaymasterUserOp's estimate; without one the cap is reserved.
Reservation(units) ==
  IF units * gasRate = 0 \/ units * gasRate > MaxDeduction THEN MaxDeduction
  ELSE units * gasRate

\* validatePaymasterUserOp for an operation of u with a gas limit; there is none once the
\* first operation of the bundle is executed.
ValidatePaymasterUserOp(u, units) ==
  /\ ~executing
  /\ Len(bundle) < MaxBundle
  /\ ~paused
  /\ Unlocked(u) >= Reservation(units)
  /\ locked' = [locked EXCEPT ![u] = @ + Reservation(units)]
  /\ bundle' = Append(bundle, [user |-> u, reserved |-> Reservation(units),
                               units |-> units, rate |-> gasRate])
  /\ UNCHANGED <<balances, admin, usdc, executing, lost, repriced, unpaid, keptFees>>

\* The bundle's next operation is done with; after the last one handleOps returns.
NextOperation ==
  /\ bundle # <<>>
  /\ bundle' = Tail(bundle)
  /\ executing' = (Tail(bundle) # <<>>)

Release(u, reserved) ==
  locked' = [locked EXCEPT ![u] = IF @ > reserved THEN @ - reserved ELSE 0]

\* Mistake: the estimate's fallback is applied to the actual cost too.
GasCostWithFallback(units) ==
  IF units * gasRate = 0 \/ units * gasRate > MaxDeduction THEN MaxDeduction
  ELSE units * gasRate

\* What units of gas cost at the current rate.
GasCost(units) == Least(units * gasRate, MaxDeduction)

\* postOp for the head of the bundle with what it releases, what it charges and what it
\* pays.  Operations that succeed or revert are charged alike.
Settle(cost, released, charge, fee) ==
  LET u == Head(bundle).user
  IN /\ NextOperation
     /\ Release(u, released)
     /\ balances' = [balances EXCEPT ![u] = @ - charge]
     /\ PayFee(fee)
     /\ repriced' = repriced \cup (IF gasRate > Head(bundle).rate THEN {u} ELSE {})
     /\ unpaid' = unpaid \cup (IF charge < cost THEN {u} ELSE {})
     /\ UNCHANGED <<admin, lost>>

\* Mistake: the charge is not limited to the balance.
PostOpOverdrawing(units) ==
  Settle(GasCost(units), Head(bundle).reserved, GasCost(units), GasCost(units))

\* Mistake: the balance limits what the user is charged, not what the recipient is paid.
PostOpOverpaying(units) ==
  Settle(GasCost(units), Head(bundle).reserved,
         Least(GasCost(units), balances[Head(bundle).user]), GasCost(units))

\* Mistake: the return for an operation that costs nothing comes before the release.
PostOpKeepingLock(units) ==
  Settle(GasCost(units), IF GasCost(units) = 0 THEN 0 ELSE Head(bundle).reserved,
         Least(GasCost(units), balances[Head(bundle).user]),
         Least(GasCost(units), balances[Head(bundle).user]))

PostOp(units) ==
  LET charge == Least(GasCost(units), balances[Head(bundle).user])
  IN Settle(GasCost(units), Head(bundle).reserved, charge, charge)

\* postOp reverts (its gas limit is too low, the fee transfer is refused).  EntryPoint v0.7
\* undoes the operation's own calls with it and does not call postOp again, so the branch
\* for postOpReverted is never taken and what validatePaymasterUserOp reserved remains.
PostOpReverts ==
  /\ NextOperation
  /\ lost' = [lost EXCEPT ![Head(bundle).user] = @ + Head(bundle).reserved]
  /\ UNCHANGED <<balances, locked, admin, usdc, repriced, unpaid, keptFees>>

-----------------------------------------------------------------------------
(* The owner. *)

SetRelayer(caller, newRelayer) ==
  /\ caller = owner
  /\ relayer' = newRelayer
  /\ UNCHANGED <<balances, locked, gasRate, paused, owner, pendingOwner, feeRecipient,
                 usdc, entry, keptFees>>

SetFeeRecipient(caller, newRecipient) ==
  /\ caller = owner
  /\ feeRecipient' = newRecipient
  /\ UNCHANGED <<balances, locked, gasRate, paused, owner, pendingOwner, relayer,
                 usdc, entry, keptFees>>

\* Also between an operation's validation and its postOp.
SetGasRate(caller, newRate) ==
  /\ caller = owner
  /\ gasRate' = newRate
  /\ UNCHANGED <<balances, locked, paused, owner, pendingOwner, relayer, feeRecipient,
                 usdc, entry, keptFees>>

\* pause and unpause.
SetPaused(caller, value) ==
  /\ caller = owner
  /\ paused' = value
  /\ UNCHANGED <<balances, locked, gasRate, owner, pendingOwner, relayer, feeRecipient,
                 usdc, entry, keptFees>>

TransferOwnership(caller, newOwner) ==
  /\ caller = owner
  /\ pendingOwner' = newOwner
  /\ UNCHANGED <<balances, locked, gasRate, paused, owner, relayer, feeRecipient,
                 usdc, entry, keptFees>>

AcceptOwnership(caller) ==
  /\ caller = pendingOwner
  /\ owner' = caller
  /\ pendingOwner' = None
  /\ UNCHANGED <<balances, locked, gasRate, paused, relayer, feeRecipient,
                 usdc, entry, keptFees>>

OwnerAction(caller) ==
  \/ \E a \in Staff : SetRelayer(caller, a) \/ TransferOwnership(caller, a)
  \/ \E a \in Address \cup {Self} : SetFeeRecipient(caller, a)
  \/ \E rate \in 0..MaxGasRate : SetGasRate(caller, rate)
  \/ \E value \in BOOLEAN : SetPaused(caller, value)
  \/ AcceptOwnership(caller)

AnybodysCall(caller) ==
  \/ \E amount \in 1..usdc[caller] : Deposit(caller, amount)
  \/ \E amount \in 1..balances[caller] : Withdraw(caller, amount)
  \/ \E u \in Address, cost \in 1..MaxDeduction : DeductGas(caller, u, cost)
  \/ OwnerAction(caller)

EntryPointCall ==
  \/ \E u \in Address, units \in 0..MaxGasUnits : ValidatePaymasterUserOp(u, units)
  \/ \E units \in 0..MaxGasUnits :
       bundle # <<>> /\ units <= Head(bundle).units /\ PostOp(units)
  \/ PostOpReverts

Next == EntryPointCall \/ \E caller \in Address : AnybodysCall(caller)

Spec == Init /\ [][Next]_vars

-----------------------------------------------------------------------------
(* Properties. *)

\* The contract's USDC is what it owes its depositors, and the fees it was told to pay to
\* itself: no path pays money out that it does not book, or the reverse.
DepositsAreHeld == IsSum(balances, Address, usdc[Self] - keptFees)

\* rest[i] is what the bundle's operations from the i-th on have reserved for u.
Remaining(u, rest) ==
  /\ rest[Len(bundle) + 1] = 0
  /\ \A i \in 1..Len(bundle) :
       rest[i] = rest[i + 1] + (IF bundle[i].user = u THEN bundle[i].reserved ELSE 0)

\* "locked: amounts currently reserved by pending UserOperations" (line 71), exactly, but
\* for those whose postOp reverted: these stay locked, and nothing releases them.
LockedIsReserved ==
  \A u \in Address :
    \E rest \in [1..(Len(bundle) + 1) -> 0..(MaxBundle * MaxDeduction)] :
      Remaining(u, rest) /\ locked[u] = rest[1] + lost[u]

\* "locked[user] <= balances[user] is a class invariant" (line 72) for every account that
\* has not been charged at a rate raised since its reservation.
ReservationsAreCovered ==
  \A u \in Address \ repriced : locked[u] <= balances[u]

\* What a reservation is for: whatever the user, the relayer and other operations do after
\* the validation, the charge of postOp is paid in full, again unless the rate was raised.
ChargesArePaid == unpaid \subseteq repriced

\* What an account agrees to: outside a settlement its balance never falls below what is
\* reserved, and a settlement takes from the operation's own account, at most what
\* that operation has reserved, whatever else the account could pay; unless the rate was
\* raised in between.
ChargesStayReserved ==
  [][\A u \in Address : balances'[u] < balances[u] =>
       IF bundle' = bundle THEN balances'[u] >= locked'[u]
       ELSE /\ Head(bundle).user = u
            /\ \/ balances[u] - balances'[u] <= Head(bundle).reserved
               \/ gasRate > Head(bundle).rate]_vars
=============================================================================
