----------------------------- MODULE YieldVault -----------------------------
(***************************************************************************)
(* contracts/YieldVault.sol: USDC deposits that earn a simulated yield at  *)
(* an APY the owner sets.  The yield is paid from the same USDC balance    *)
(* that holds the principal of everybody.  A transaction is one atomic     *)
(* action (the contract's reentrancy lock); time passes between blocks.    *)
(* USDC amounts, time and APY are small numbers whose scale is YieldDivisor*)
(* (10000 * 365 days in the code).                                         *)
(***************************************************************************)

EXTENDS Integers, Sums

CONSTANTS
  Address,       \* externally owned accounts; any of them may deposit
  Deployer,
  None,          \* the zero address
  MaxApyBps,     \* 50_000
  YieldDivisor,  \* 10_000 * 365 days
  InitialUsdc,   \* USDC of every account at the start
  MaxTime        \* bound on the block timestamp

ASSUME VaultAssumption ==
  /\ IsFiniteSet(Address)
  /\ Deployer \in Address
  /\ None \notin Address
  /\ MaxApyBps \in Nat
  /\ YieldDivisor \in Nat \ {0}
  /\ InitialUsdc \in Nat
  /\ MaxTime \in Nat

VARIABLES
  positions,       \* per account: principal, checkpointYield, lastTimestamp
  totalDeposited,
  apyBps,
  owner,
  pendingOwner,
  usdc,            \* USDC balance of every account
  balance,         \* usdc.balanceOf(address(this))
  now,             \* block.timestamp
  funded,          \* history: USDC given by fundVault
  yieldPaid,       \* history: sum of yieldPaid over all Withdrawn events
  shortfall        \* history: principal that withdrawals did not get back

admin == <<owner, pendingOwner>>
vars == <<positions, totalDeposited, apyBps, owner, pendingOwner, usdc, balance, now,
          funded, yieldPaid, shortfall>>

Position == [principal : Nat, checkpointYield : Nat, lastTimestamp : Nat]

NoPosition == [principal |-> 0, checkpointYield |-> 0, lastTimestamp |-> 0]

TypeOK ==
  /\ positions \in [Address -> Position]
  /\ totalDeposited \in Int
  /\ apyBps \in 0..MaxApyBps
  /\ owner \in Address
  /\ pendingOwner \in Address \cup {None}
  /\ usdc \in [Address -> Nat]
  /\ balance \in Nat
  /\ now \in Nat
  /\ funded \in Nat
  /\ yieldPaid \in Nat
  /\ shortfall \in Nat

\* The constructor.
Init ==
  /\ positions = [a \in Address |-> NoPosition]
  /\ totalDeposited = 0
  /\ apyBps \in 0..MaxApyBps
  /\ owner = Deployer
  /\ pendingOwner = None
  /\ usdc = [a \in Address |-> InitialUsdc]
  /\ balance = 0
  /\ now = 1
  /\ funded = 0
  /\ yieldPaid = 0
  /\ shortfall = 0

-----------------------------------------------------------------------------

ComputeYield(principal, since) ==
  IF since = 0 \/ now <= since THEN 0
  ELSE (principal * apyBps * (now - since)) \div YieldDivisor

PendingYield(a) ==
  IF positions[a].principal = 0 THEN 0
  ELSE positions[a].checkpointYield
         + ComputeYield(positions[a].principal, positions[a].lastTimestamp)

CurrentValue(a) == positions[a].principal + PendingYield(a)

\* Mistake: the checkpoint is overwritten instead of added to.
DepositOverwriting(a, amount) ==
  LET pos == positions[a]
  IN /\ amount # 0
     /\ usdc[a] >= amount
     /\ positions' = [positions EXCEPT ![a] =
          [principal |-> pos.principal + amount,
           checkpointYield |-> ComputeYield(pos.principal, pos.lastTimestamp),
           lastTimestamp |-> now]]
     /\ totalDeposited' = totalDeposited + amount
     /\ usdc' = [usdc EXCEPT ![a] = @ - amount]
     /\ balance' = balance + amount
     /\ UNCHANGED <<apyBps, admin, now, funded, yieldPaid, shortfall>>

\* Mistake: the yield so far is checkpointed, but the clock is not reset.
DepositKeepingTimestamp(a, amount) ==
  LET pos == positions[a]
  IN /\ amount # 0
     /\ usdc[a] >= amount
     /\ positions' = [positions EXCEPT ![a] =
          [principal |-> pos.principal + amount,
           checkpointYield |-> pos.checkpointYield
                                 + ComputeYield(pos.principal, pos.lastTimestamp),
           lastTimestamp |-> IF pos.principal > 0 THEN pos.lastTimestamp ELSE now]]
     /\ totalDeposited' = totalDeposited + amount
     /\ usdc' = [usdc EXCEPT ![a] = @ - amount]
     /\ balance' = balance + amount
     /\ UNCHANGED <<apyBps, admin, now, funded, yieldPaid, shortfall>>

Deposit(a, amount) ==
  LET pos == positions[a]
      accrued == IF pos.principal > 0 /\ pos.lastTimestamp > 0
                 THEN ComputeYield(pos.principal, pos.lastTimestamp) ELSE 0
  IN /\ amount # 0
     /\ usdc[a] >= amount
     /\ positions' = [positions EXCEPT ![a] =
          [principal |-> pos.principal + amount,
           checkpointYield |-> pos.checkpointYield + accrued,
           lastTimestamp |-> now]]
     /\ totalDeposited' = totalDeposited + amount
     /\ usdc' = [usdc EXCEPT ![a] = @ - amount]
     /\ balance' = balance + amount
     /\ UNCHANGED <<apyBps, admin, now, funded, yieldPaid, shortfall>>

\* What a withdrawal transfers: everything owed, capped at the vault's USDC.
Received(a) == IF CurrentValue(a) > balance THEN balance ELSE CurrentValue(a)

Excess(x, y) == IF x > y THEN x - y ELSE 0

\* withdraw with the amount it transfers, the yield its event reports and the principal
\* it takes off the total; the whole position is deleted, whatever was paid.
Close(a, received, reported, principal) ==
  /\ positions[a].principal # 0
  /\ positions' = [positions EXCEPT ![a] = NoPosition]
  /\ totalDeposited' = totalDeposited - principal
  /\ usdc' = [usdc EXCEPT ![a] = @ + received]
  /\ balance' = balance - received
  /\ yieldPaid' = yieldPaid + reported
  /\ shortfall' = shortfall + Excess(positions[a].principal, received)
  /\ UNCHANGED <<apyBps, admin, now, funded>>

\* Mistake: the payout is not capped at the vault's balance.
WithdrawUncapped(a) == Close(a, CurrentValue(a), PendingYield(a), positions[a].principal)

\* Mistake: the principal is read from the position after it has been deleted.
WithdrawStalePrincipal(a) == Close(a, Received(a), Received(a), 0)

\* Mistake: the yield is reported as earned although less of it is paid.
WithdrawReportingEarned(a) == Close(a, Received(a), PendingYield(a), positions[a].principal)

\* Mistake: no yield is reported when the payout was capped.
WithdrawReportingFull(a) ==
  Close(a, Received(a), IF Received(a) = CurrentValue(a) THEN PendingYield(a) ELSE 0,
        positions[a].principal)

Withdraw(a) ==
  Close(a, Received(a), Excess(Received(a), positions[a].principal), positions[a].principal)

\* Open positions are not checkpointed: the new rate holds for their past too.
SetApy(newApyBps) ==
  /\ apyBps' = newApyBps
  /\ UNCHANGED <<positions, totalDeposited, admin, usdc, balance, now,
                 funded, yieldPaid, shortfall>>

\* fundVault by anyone; a plain transfer to the vault does the same.
FundVault(a, amount) ==
  /\ usdc[a] >= amount
  /\ usdc' = [usdc EXCEPT ![a] = @ - amount]
  /\ balance' = balance + amount
  /\ funded' = funded + amount
  /\ UNCHANGED <<positions, totalDeposited, apyBps, admin, now, yieldPaid, shortfall>>

TransferOwnership(a) ==
  /\ pendingOwner' = a
  /\ UNCHANGED <<positions, totalDeposited, apyBps, owner, usdc, balance, now,
                 funded, yieldPaid, shortfall>>

AcceptOwnership(a) ==
  /\ a = pendingOwner
  /\ owner' = a
  /\ pendingOwner' = None
  /\ UNCHANGED <<positions, totalDeposited, apyBps, usdc, balance, now,
                 funded, yieldPaid, shortfall>>

\* A block with a later timestamp.
Tick ==
  /\ now < MaxTime
  /\ now' = now + 1
  /\ UNCHANGED <<positions, totalDeposited, apyBps, admin, usdc, balance,
                 funded, yieldPaid, shortfall>>

Next ==
  \/ \E a \in Address :
       \/ \E amount \in 1..InitialUsdc : Deposit(a, amount) \/ FundVault(a, amount)
       \/ Withdraw(a)
       \/ TransferOwnership(a)
       \/ AcceptOwnership(a)
  \/ \E newApyBps \in 0..MaxApyBps : SetApy(newApyBps)
  \/ Tick

Spec == Init /\ [][Next]_vars

-----------------------------------------------------------------------------
(* Properties. *)

\* totalDeposited is the principal of all open positions, through every sequence of
\* deposits, partial payouts and withdrawals.
TotalIsPrincipal ==
  IsSum([a \in Address |-> positions[a].principal], Address, totalDeposited)

\* The books: the vault's USDC, the yield its events report and the principal it still
\* owes always add up, also when withdrawals were capped.
BooksBalance == balance + yieldPaid = totalDeposited + funded + shortfall

\* As long as the yield paid out was funded, every open principal is in the vault.
FundedYieldKeepsPrincipal == yieldPaid <= funded => balance >= totalDeposited

\* The checkpoint: what an account is owed is lowered by nobody's transaction but its
\* own withdrawal and a lower APY; a deposit adds its amount and loses no yield.
EntitlementKept ==
  [][\A a \in Address :
       \/ positions[a].principal # 0 /\ positions'[a].principal = 0
       \/ apyBps' < apyBps
       \/ CurrentValue(a)' - CurrentValue(a) >= positions'[a].principal - positions[a].principal]_vars

\* Nobody gains by transactions alone: an account's USDC and what it is owed together
\* grow only while time passes or when the rate is raised, so that no order of deposits
\* and withdrawals, its own or others', makes yield out of nothing.
OnlyTimePays ==
  [][\A a \in Address :
       \/ now' > now
       \/ apyBps' > apyBps
       \/ usdc'[a] + CurrentValue(a)' <= usdc[a] + CurrentValue(a)]_vars

(* A claim of the contract's comments that the code does not keep. *)

\* YieldVault.sol:13: "users always receive at least their principal back" and
\* YieldVault.sol:127: "principal is always safe".
PrincipalReturned ==
  [][\A a \in Address :
       positions[a].principal # 0 /\ positions'[a].principal = 0
       => usdc'[a] - usdc[a] >= positions[a].principal]_vars
=============================================================================
