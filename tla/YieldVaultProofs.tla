-------------------------- MODULE YieldVaultProofs --------------------------
(***************************************************************************)
(* Proofs about YieldVault, for any accounts, rates and amounts: types are *)
(* kept, the books add up, and principal is in the vault as long as the    *)
(* yield paid out was funded.  That last property is not inductive; the    *)
(* books are, together with the types.  The total is followed through the  *)
(* steps with the witness of a sum.                                        *)
(***************************************************************************)
EXTENDS YieldVault, SumsProofs, TLAPS

\* The total is the sum of the principals, in the form the steps preserve.
PrincipalAddsUp == AddsUp([a \in Address |-> positions[a].principal], Address, totalDeposited)

\* A closed position keeps no yield for a later deposit.
EmptyIsClean ==
  \A a \in Address : positions[a].principal = 0 => positions[a].checkpointYield = 0

IInv == TypeOK /\ BooksBalance /\ PrincipalAddsUp /\ EmptyIsClean

\* Only one account's principal changes, and the total with it.
LEMMA TotalFollows ==
  ASSUME TypeOK, PrincipalAddsUp, NEW k \in Address,
         positions' \in [Address -> Position],
         \A a \in Address \ {k} : positions'[a] = positions[a],
         totalDeposited' = totalDeposited + positions'[k].principal - positions[k].principal
  PROVE  PrincipalAddsUp'
<1> DEFINE before == [a \in Address |-> positions[a].principal]
           after == [a \in Address |-> positions'[a].principal]
<1>1. before \in [Address -> Nat] /\ after \in [Address -> Nat]
  BY DEF TypeOK, Position
<1>2. \A a \in Address \ {k} : after[a] = before[a]
  OBVIOUS
<1>3. AddsUp(before, Address, totalDeposited)
  BY DEF PrincipalAddsUp
<1>4. before[k] = positions[k].principal /\ after[k] = positions'[k].principal
  OBVIOUS
<1> HIDE DEF before, after
<1>5. AddsUp(after, Address, totalDeposited + after[k] - before[k])
  BY <1>1, <1>2, <1>3, OneEntryChanges, VaultAssumption
<1>6. AddsUp(after, Address, totalDeposited')
  BY <1>4, <1>5
<1> QED
  BY <1>6 DEF after, PrincipalAddsUp

\* A step that changes no position and no total.
LEMMA TotalUntouched ==
  ASSUME PrincipalAddsUp, UNCHANGED <<positions, totalDeposited>>
  PROVE  PrincipalAddsUp'
BY DEF PrincipalAddsUp

\* Dividing a natural number by the yield divisor gives a natural number.
LEMMA QuotientIsNat == \A n \in Nat : n \div YieldDivisor \in Nat
BY VaultAssumption

\* _computeYield is never negative.
LEMMA YieldIsNat ==
  ASSUME TypeOK, NEW principal \in Nat, NEW since \in Nat
  PROVE  ComputeYield(principal, since) \in Nat
<1>1. CASE since = 0 \/ now <= since
  BY <1>1 DEF ComputeYield
<1>2. CASE ~(since = 0 \/ now <= since)
  <2>1. now - since \in Nat /\ apyBps \in Nat
    BY <1>2, VaultAssumption DEF TypeOK
  <2>2. principal * apyBps \in Nat
    BY <2>1
  <2>3. (principal * apyBps) * (now - since) \in Nat
    BY <2>1, <2>2
  <2> QED
    BY <1>2, <2>3, QuotientIsNat DEF ComputeYield
<1> QED
  BY <1>1, <1>2

\* A payout is a natural number that the vault has and the account is owed.
LEMMA PayoutIsCovered ==
  ASSUME TypeOK, NEW a \in Address
  PROVE  /\ Received(a) \in Nat
         /\ Received(a) <= balance
         /\ CurrentValue(a) \in Nat
<1>1. positions[a].principal \in Nat /\ positions[a].checkpointYield \in Nat
        /\ positions[a].lastTimestamp \in Nat /\ balance \in Nat
  BY DEF TypeOK, Position
<1>2. ComputeYield(positions[a].principal, positions[a].lastTimestamp) \in Nat
  BY <1>1, YieldIsNat
<1>3. CurrentValue(a) \in Nat
  BY <1>1, <1>2 DEF CurrentValue, PendingYield
<1> QED
  BY <1>1, <1>3 DEF Received

\* A deposit moves its amount into the vault and into the total.
LEMMA DepositKeeps ==
  ASSUME IInv, NEW a \in Address, NEW amount \in 1..InitialUsdc, Deposit(a, amount)
  PROVE  IInv'
<1>1. amount \in Nat
  BY VaultAssumption
<1>2. ComputeYield(positions[a].principal, positions[a].lastTimestamp) \in Nat
  BY YieldIsNat DEF IInv, TypeOK, Position
<1>3. positions' \in [Address -> Position]
  BY <1>1, <1>2 DEF IInv, TypeOK, Position, Deposit
<1>4. usdc' \in [Address -> Nat]
  BY <1>1 DEF IInv, TypeOK, Deposit
<1>5. PrincipalAddsUp'
  <2>1. /\ positions'[a].principal = positions[a].principal + amount
        /\ \A b \in Address \ {a} : positions'[b] = positions[b]
        /\ totalDeposited' = totalDeposited + amount
    BY DEF IInv, TypeOK, Deposit
  <2>2. positions[a].principal \in Nat /\ totalDeposited \in Int
    BY DEF IInv, TypeOK, Position
  <2>3. totalDeposited' = totalDeposited + positions'[a].principal - positions[a].principal
    BY <1>1, <2>1, <2>2
  <2> QED
    BY <1>3, <2>1, <2>3, TotalFollows DEF IInv
<1>6. EmptyIsClean'
  <2>1. /\ positions'[a].principal = positions[a].principal + amount
        /\ positions[a].principal \in Nat /\ amount > 0
        /\ \A b \in Address \ {a} : positions'[b] = positions[b]
    BY DEF IInv, TypeOK, Position, Deposit
  <2>2. positions'[a].principal # 0
    BY <1>1, <2>1
  <2> QED
    BY <2>1, <2>2 DEF IInv, EmptyIsClean
<1> QED
  BY <1>1, <1>3, <1>4, <1>5, <1>6 DEF IInv, TypeOK, BooksBalance, Deposit, admin

\* A withdrawal takes the payout out of the vault and the principal out of the total;
\* the difference is reported as yield or is a shortfall.
LEMMA WithdrawKeeps ==
  ASSUME IInv, NEW a \in Address, Withdraw(a)
  PROVE  IInv'
<1>1. Received(a) \in Nat /\ Received(a) <= balance
  BY PayoutIsCovered DEF IInv
<1>2. positions[a].principal \in Nat
  BY DEF IInv, TypeOK, Position
<1>3. /\ Excess(Received(a), positions[a].principal) \in Nat
      /\ Excess(positions[a].principal, Received(a)) \in Nat
      /\ Excess(Received(a), positions[a].principal)
           - Excess(positions[a].principal, Received(a)) = Received(a) - positions[a].principal
  BY <1>1, <1>2 DEF Excess
<1>4. positions' \in [Address -> Position]
  BY DEF IInv, TypeOK, Position, NoPosition, Withdraw, Close
<1>5. usdc' \in [Address -> Nat]
  BY <1>1 DEF IInv, TypeOK, Withdraw, Close
<1>6. TypeOK'
  BY <1>1, <1>2, <1>3, <1>4, <1>5 DEF IInv, TypeOK, Withdraw, Close, admin
<1>7. BooksBalance'
  BY <1>1, <1>2, <1>3 DEF IInv, TypeOK, BooksBalance, Withdraw, Close
<1>8. PrincipalAddsUp'
  <2>1. /\ positions'[a].principal = 0
        /\ \A b \in Address \ {a} : positions'[b] = positions[b]
        /\ totalDeposited' = totalDeposited - positions[a].principal
    BY DEF IInv, TypeOK, NoPosition, Withdraw, Close
  <2>2. totalDeposited \in Int
    BY DEF IInv, TypeOK
  <2>3. totalDeposited' = totalDeposited + positions'[a].principal - positions[a].principal
    BY <1>2, <2>1, <2>2
  <2> QED
    BY <1>4, <2>1, <2>3, TotalFollows DEF IInv
<1>9. EmptyIsClean'
  BY DEF IInv, TypeOK, EmptyIsClean, NoPosition, Withdraw, Close
<1> QED
  BY <1>6, <1>7, <1>8, <1>9 DEF IInv

\* Funding moves its amount into the vault and into the funded total.
LEMMA FundVaultKeeps ==
  ASSUME IInv, NEW a \in Address, NEW amount \in 1..InitialUsdc, FundVault(a, amount)
  PROVE  IInv'
<1>1. amount \in Nat
  BY VaultAssumption
<1>2. usdc' \in [Address -> Nat]
  BY <1>1 DEF IInv, TypeOK, FundVault
<1> QED
  BY <1>1, <1>2, TotalUntouched
  DEF IInv, TypeOK, BooksBalance, EmptyIsClean, FundVault, admin

\* Every transaction and every block preserves types and books.
LEMMA StepKeeps == IInv /\ [Next]_vars => IInv'
<1> SUFFICES ASSUME IInv, [Next]_vars
             PROVE  IInv'
  OBVIOUS
<1>1. CASE \E a \in Address, amount \in 1..InitialUsdc : Deposit(a, amount)
  BY <1>1, DepositKeeps
<1>2. CASE \E a \in Address, amount \in 1..InitialUsdc : FundVault(a, amount)
  BY <1>2, FundVaultKeeps
<1>3. CASE \E a \in Address : Withdraw(a)
  BY <1>3, WithdrawKeeps
<1>4. CASE \E a \in Address : TransferOwnership(a) \/ AcceptOwnership(a)
  BY <1>4, TotalUntouched
  DEF IInv, TypeOK, BooksBalance, EmptyIsClean, TransferOwnership, AcceptOwnership
<1>5. CASE \E newApyBps \in 0..MaxApyBps : SetApy(newApyBps)
  BY <1>5, TotalUntouched DEF IInv, TypeOK, BooksBalance, EmptyIsClean, SetApy, admin
<1>6. CASE Tick
  BY <1>6, TotalUntouched DEF IInv, TypeOK, BooksBalance, EmptyIsClean, Tick, admin
<1>7. CASE UNCHANGED vars
  BY <1>7, TotalUntouched DEF IInv, TypeOK, BooksBalance, EmptyIsClean, vars
<1> QED
  BY <1>1, <1>2, <1>3, <1>4, <1>5, <1>6, <1>7 DEF Next

\* Types and books hold in every reachable state.
THEOREM Invariant == Spec => []IInv
<1>1. Init => IInv
  <2> SUFFICES ASSUME Init PROVE IInv
    OBVIOUS
  <2>1. TypeOK /\ BooksBalance
    BY VaultAssumption DEF Init, TypeOK, Position, NoPosition, BooksBalance
  <2>2. \A a \in Address : positions[a].principal = 0
    BY DEF Init, NoPosition
  <2>3. PrincipalAddsUp
    BY <2>2, NothingIsZero, VaultAssumption DEF Init, PrincipalAddsUp
  <2>4. EmptyIsClean
    BY DEF Init, NoPosition, EmptyIsClean
  <2> QED
    BY <2>1, <2>3, <2>4 DEF IInv
<1> QED
  BY <1>1, StepKeeps, PTL DEF Spec

\* Type correctness; in particular withdraw never pays more than the vault has.
THEOREM TypeCorrect == Spec => []TypeOK
<1>1. IInv => TypeOK
  BY DEF IInv
<1> QED
  BY <1>1, Invariant, PTL

\* totalDeposited is the sum of all open principals, for any number of accounts.
THEOREM TotalAddsUp == Spec => []TotalIsPrincipal
<1>1. IInv => TotalIsPrincipal
  BY AddsUpIsSum, VaultAssumption DEF IInv, PrincipalAddsUp, TotalIsPrincipal
<1> QED
  BY <1>1, Invariant, PTL

\* withdraw subtracts a principal from totalDeposited with checked arithmetic: were the
\* total ever below a position, that position could never be withdrawn.  It never is.
THEOREM WithdrawalsNeverUnderflow ==
  Spec => [](\A a \in Address : positions[a].principal <= totalDeposited)
<1>1. ASSUME IInv, NEW a \in Address
      PROVE  positions[a].principal <= totalDeposited
  <2> DEFINE principals == [b \in Address |-> positions[b].principal]
  <2>1. principals \in [Address -> Nat]
    BY <1>1 DEF IInv, TypeOK, Position
  <2>2. AddsUp(principals, Address, totalDeposited)
    BY <1>1 DEF IInv, PrincipalAddsUp
  <2>3. principals[a] = positions[a].principal
    OBVIOUS
  <2> HIDE DEF principals
  <2>4. principals[a] <= totalDeposited
    BY <2>1, <2>2, EntryFits, VaultAssumption
  <2> QED
    BY <2>3, <2>4
<1>2. IInv => \A a \in Address : positions[a].principal <= totalDeposited
  BY <1>1
<1> QED
  BY <1>2, Invariant, PTL

\* The vault's USDC, the yield its Withdrawn events report, its debts and its losses
\* always add up.
THEOREM BooksAddUp == Spec => []BooksBalance
<1>1. IInv => BooksBalance
  BY DEF IInv
<1> QED
  BY <1>1, Invariant, PTL

\* The condition under which YieldVault.sol's "principal is always safe" holds: the
\* yield paid so far was funded.
THEOREM PrincipalIsBacked == Spec => []FundedYieldKeepsPrincipal
<1>1. IInv => FundedYieldKeepsPrincipal
  BY DEF IInv, TypeOK, BooksBalance, FundedYieldKeepsPrincipal
<1> QED
  BY <1>1, Invariant, PTL

-----------------------------------------------------------------------------
(* Nobody else's transaction lowers what an account is owed. *)

\* Division is monotonic.
LEMMA QuotientGrows ==
  ASSUME NEW x \in Nat, NEW y \in Nat, x <= y
  PROVE  x \div YieldDivisor <= y \div YieldDivisor
BY VaultAssumption

\* So is a product of natural numbers in each of its factors.
LEMMA FactorGrows ==
  ASSUME NEW x \in Nat, NEW y \in Nat, x <= y, NEW c \in Nat
  PROVE  /\ c * x \in Nat /\ c * y \in Nat /\ c * x <= c * y
         /\ x * c \in Nat /\ y * c \in Nat /\ x * c <= y * c
OBVIOUS

LEMMA ProductGrows ==
  ASSUME NEW p \in Nat, NEW r \in Nat, NEW r1 \in Nat, NEW e \in Nat, NEW e1 \in Nat,
         r <= r1, e <= e1
  PROVE  p * r * e \in Nat /\ p * r1 * e1 \in Nat /\ p * r * e <= p * r1 * e1
<1> DEFINE x == p * r
           x1 == p * r1
<1>1. x \in Nat /\ x1 \in Nat /\ x <= x1
  BY FactorGrows
<1> HIDE DEF x, x1
<1>2. x * e \in Nat /\ x1 * e \in Nat /\ x * e <= x1 * e
  BY <1>1, FactorGrows
<1>3. x1 * e1 \in Nat /\ x1 * e <= x1 * e1
  BY <1>1, FactorGrows
<1>4. x * e \in Nat /\ x1 * e1 \in Nat /\ x * e <= x1 * e1
  BY <1>2, <1>3
<1> QED
  BY <1>4 DEF x, x1

LEMMA ProductIsNat ==
  ASSUME NEW p \in Nat, NEW r \in Nat, NEW e \in Nat
  PROVE  p * r * e \in Nat
<1>1. p * r \in Nat
  OBVIOUS
<1> QED
  BY <1>1

LEMMA TimePasses ==
  ASSUME NEW n \in Nat, NEW n1 \in Nat, NEW since \in Nat, ~(n1 <= since)
  PROVE  /\ n1 - since \in Nat
         /\ n <= n1 /\ ~(n <= since) => n - since \in Nat /\ n - since <= n1 - since
OBVIOUS

\* Yield grows with the rate and with time.
LEMMA YieldGrows ==
  ASSUME TypeOK, TypeOK', now <= now', apyBps <= apyBps',
         NEW principal \in Nat, NEW since \in Nat
  PROVE  ComputeYield(principal, since) <= ComputeYield(principal, since)'
<1>1. now \in Nat /\ now' \in Nat /\ apyBps \in Nat /\ apyBps' \in Nat
  BY VaultAssumption DEF TypeOK
<1>2. CASE since = 0 \/ now' <= since
  BY <1>1, <1>2 DEF ComputeYield
<1>3. CASE since # 0 /\ now <= since /\ ~(now' <= since)
  <2>1. now' - since \in Nat
    BY <1>1, <1>3, TimePasses
  <2>2. principal * apyBps' * (now' - since) \in Nat
    BY <1>1, <2>1, ProductIsNat
  <2> QED
    BY <1>3, <2>2, QuotientIsNat DEF ComputeYield
<1>4. CASE since # 0 /\ ~(now <= since) /\ ~(now' <= since)
  <2>1. now - since \in Nat /\ now' - since \in Nat /\ now - since <= now' - since
    BY <1>1, <1>4, TimePasses
  <2>2. /\ principal * apyBps * (now - since) \in Nat
        /\ principal * apyBps' * (now' - since) \in Nat
        /\ principal * apyBps * (now - since) <= principal * apyBps' * (now' - since)
    BY <1>1, <2>1, ProductGrows
  <2>3. (principal * apyBps * (now - since)) \div YieldDivisor
          <= (principal * apyBps' * (now' - since)) \div YieldDivisor
    BY <2>2, QuotientGrows
  <2> QED
    BY <1>4, <2>3 DEF ComputeYield
<1> QED
  BY <1>2, <1>3, <1>4

\* What is owed on a position that stays as it is grows with the rate and with time.
LEMMA ValueGrows ==
  ASSUME TypeOK, TypeOK', now <= now', apyBps <= apyBps', NEW a \in Address,
         positions'[a] = positions[a]
  PROVE  CurrentValue(a)' - CurrentValue(a) >= positions'[a].principal - positions[a].principal
<1>1. PICK p \in Nat, c \in Nat, s \in Nat :
        /\ positions[a].principal = p /\ positions[a].checkpointYield = c
        /\ positions[a].lastTimestamp = s
  BY DEF TypeOK, Position
<1>2. /\ ComputeYield(p, s) \in Nat
      /\ ComputeYield(p, s) <= ComputeYield(p, s)'
  BY YieldIsNat, YieldGrows
<1>3. ComputeYield(p, s)' \in Nat
  <2>1. now' \in Nat /\ apyBps' \in Nat
    BY VaultAssumption DEF TypeOK
  <2>2. ASSUME ~(s = 0 \/ now' <= s) PROVE p * apyBps' * (now' - s) \in Nat
    BY <2>1, <2>2, ProductIsNat, TimePasses
  <2> QED
    BY <2>2, QuotientIsNat DEF ComputeYield
<1>4. CurrentValue(a) = IF p = 0 THEN p ELSE p + (c + ComputeYield(p, s))
  BY <1>1 DEF CurrentValue, PendingYield
<1>5. CurrentValue(a)' = IF p = 0 THEN p ELSE p + (c + ComputeYield(p, s)')
  BY <1>1 DEF CurrentValue, PendingYield
<1> QED
  BY <1>1, <1>2, <1>3, <1>4, <1>5

\* A deposit adds its amount to what is owed, no more and no less: it checkpoints all that
\* has accrued.
LEMMA DepositAdds ==
  ASSUME IInv, IInv', NEW a \in Address, NEW amount \in 1..InitialUsdc, Deposit(a, amount)
  PROVE  /\ CurrentValue(a) \in Nat
         /\ CurrentValue(a)' = CurrentValue(a) + amount
         /\ CurrentValue(a)' - CurrentValue(a) >= positions'[a].principal - positions[a].principal
<1>1. PICK p \in Nat, c \in Nat, s \in Nat :
        /\ positions[a].principal = p /\ positions[a].checkpointYield = c
        /\ positions[a].lastTimestamp = s
  BY DEF IInv, TypeOK, Position
<1>2. PICK y \in Nat : y = ComputeYield(p, s)
  BY YieldIsNat DEF IInv
<1>3. PICK accrued \in Nat :
        accrued = (IF p > 0 /\ s > 0 THEN y ELSE 0)
  OBVIOUS
<1>4. /\ positions'[a].principal = p + amount
      /\ positions'[a].checkpointYield = c + accrued
      /\ positions'[a].lastTimestamp = now /\ now' = now
  BY <1>1, <1>2, <1>3 DEF Deposit, IInv, TypeOK
<1>5. now \in Nat /\ amount \in Nat /\ amount > 0
  BY VaultAssumption DEF IInv, TypeOK
<1>6. s = 0 => y = 0
  BY <1>2 DEF ComputeYield
<1>7. CurrentValue(a)' = p + amount + (c + accrued)
  BY <1>4, <1>5 DEF CurrentValue, PendingYield, ComputeYield
<1>8. CurrentValue(a) = IF p = 0 THEN p ELSE p + (c + y)
  BY <1>1, <1>2 DEF CurrentValue, PendingYield
<1>9. p = 0 => c = 0
  BY <1>1 DEF IInv, EmptyIsClean
<1> QED
  BY <1>1, <1>3, <1>4, <1>5, <1>6, <1>7, <1>8, <1>9

EntitlementStep ==
  \A a \in Address :
    \/ positions[a].principal # 0 /\ positions'[a].principal = 0
    \/ apyBps' < apyBps
    \/ CurrentValue(a)' - CurrentValue(a) >= positions'[a].principal - positions[a].principal

LEMMA EntitlementFollows ==
  ASSUME IInv, IInv', [Next]_vars
  PROVE  EntitlementStep
<1> SUFFICES ASSUME NEW a \in Address, ~(apyBps' < apyBps),
                    ~(positions[a].principal # 0 /\ positions'[a].principal = 0)
             PROVE  CurrentValue(a)' - CurrentValue(a) >= positions'[a].principal - positions[a].principal
  BY DEF EntitlementStep
<1>1. /\ now \in Nat /\ now' \in Nat /\ apyBps \in Nat /\ apyBps' \in Nat
      /\ positions \in [Address -> Position] /\ TypeOK /\ TypeOK'
  BY VaultAssumption DEF IInv, TypeOK
<1>2. apyBps <= apyBps'
  BY <1>1
<1>3. CASE \E b \in Address, amount \in 1..InitialUsdc : Deposit(b, amount)
  <2>1. PICK b \in Address, amount \in 1..InitialUsdc : Deposit(b, amount)
    BY <1>3
  <2>2. CASE b = a
    BY <2>1, <2>2, DepositAdds
  <2>3. CASE b # a
    <3>1. positions'[a] = positions[a] /\ now' = now
      BY <1>1, <2>1, <2>3 DEF Deposit
    <3> QED
      BY <1>1, <1>2, <3>1, ValueGrows
  <2> QED
    BY <2>2, <2>3
<1>4. CASE \E b \in Address : Withdraw(b)
  <2>1. PICK b \in Address : Withdraw(b)
    BY <1>4
  <2>2. b # a
    BY <1>1, <2>1 DEF Withdraw, Close, NoPosition
  <2>3. positions'[a] = positions[a] /\ now' = now
    BY <1>1, <2>1, <2>2 DEF Withdraw, Close
  <2> QED
    BY <1>1, <1>2, <2>3, ValueGrows
<1>5. CASE \/ \E b \in Address : TransferOwnership(b) \/ AcceptOwnership(b)
           \/ \E b \in Address, amount \in 1..InitialUsdc : FundVault(b, amount)
           \/ \E newApyBps \in 0..MaxApyBps : SetApy(newApyBps)
           \/ Tick
           \/ UNCHANGED vars
  <2>1. positions' = positions /\ now <= now'
    BY <1>1, <1>5 DEF TransferOwnership, AcceptOwnership, FundVault, SetApy, Tick, vars
  <2> QED
    BY <1>1, <1>2, <2>1, ValueGrows
<1> QED
  BY <1>3, <1>4, <1>5 DEF Next

\* What an account is owed is lowered by nobody's transaction but its own withdrawal and
\* a lower rate: a deposit adds its amount and loses no accrued yield.
THEOREM EntitlementsAreKept == Spec => EntitlementKept
<1>1. IInv /\ IInv' /\ [Next]_vars => [EntitlementStep]_vars
  BY EntitlementFollows
<1> QED
  BY <1>1, Invariant, PTL DEF Spec, EntitlementKept, EntitlementStep

-----------------------------------------------------------------------------
(* Nobody's transaction makes yield. *)

\* What is owed on a position that stays as it is does not grow unless time passes or the
\* rate is raised.
LEMMA ValueStays ==
  ASSUME TypeOK, TypeOK', now' = now, apyBps' <= apyBps, NEW a \in Address,
         positions'[a] = positions[a]
  PROVE  CurrentValue(a)' <= CurrentValue(a)
<1>1. PICK p \in Nat, c \in Nat, s \in Nat :
        /\ positions[a].principal = p /\ positions[a].checkpointYield = c
        /\ positions[a].lastTimestamp = s
  BY DEF TypeOK, Position
<1>2. now \in Nat /\ apyBps \in Nat /\ apyBps' \in Nat
  BY VaultAssumption DEF TypeOK
<1>3. CASE s = 0 \/ now <= s
  BY <1>1, <1>3 DEF CurrentValue, PendingYield, ComputeYield
<1>4. CASE ~(s = 0 \/ now <= s)
  <2>1. now - s \in Nat
    BY <1>2, <1>4, TimePasses
  <2>2. /\ p * apyBps' * (now - s) \in Nat /\ p * apyBps * (now - s) \in Nat
        /\ p * apyBps' * (now - s) <= p * apyBps * (now - s)
    <3>1. now - s <= now - s
      BY <2>1
    <3> QED
      BY <1>2, <2>1, <3>1, ProductGrows
  <2>3. (p * apyBps' * (now - s)) \div YieldDivisor
          <= (p * apyBps * (now - s)) \div YieldDivisor
    BY <2>2, QuotientGrows
  <2>4. PICK y \in Nat, y1 \in Nat :
          /\ y = (p * apyBps * (now - s)) \div YieldDivisor
          /\ y1 = (p * apyBps' * (now - s)) \div YieldDivisor
    BY <2>2, QuotientIsNat
  <2>5. y1 <= y
    BY <2>3, <2>4
  <2>6. /\ CurrentValue(a) = IF p = 0 THEN p + 0 ELSE p + (c + y)
        /\ CurrentValue(a)' = IF p = 0 THEN p + 0 ELSE p + (c + y1)
    BY <1>1, <1>4, <2>4 DEF CurrentValue, PendingYield, ComputeYield
  <2> QED
    BY <2>5, <2>6
<1> QED
  BY <1>3, <1>4

WealthStep ==
  \A a \in Address :
    \/ now' > now
    \/ apyBps' > apyBps
    \/ usdc'[a] + CurrentValue(a)' <= usdc[a] + CurrentValue(a)

LEMMA WealthFollows ==
  ASSUME IInv, IInv', [Next]_vars
  PROVE  WealthStep
<1> SUFFICES ASSUME NEW a \in Address, ~(now' > now), ~(apyBps' > apyBps)
             PROVE  usdc'[a] + CurrentValue(a)' <= usdc[a] + CurrentValue(a)
  BY DEF WealthStep
<1>1. /\ now \in Nat /\ now' \in Nat /\ apyBps \in Nat /\ apyBps' \in Nat
      /\ positions \in [Address -> Position] /\ TypeOK /\ TypeOK'
      /\ usdc \in [Address -> Nat] /\ usdc[a] \in Nat
      /\ usdc' \in [Address -> Nat] /\ usdc'[a] \in Nat
  BY VaultAssumption DEF IInv, TypeOK
<1>2. CurrentValue(a) \in Nat
  BY <1>1, PayoutIsCovered
<1>3. CurrentValue(a)' \in Nat
  <2>1. PICK p \in Nat, c \in Nat, s \in Nat :
          /\ positions'[a].principal = p /\ positions'[a].checkpointYield = c
          /\ positions'[a].lastTimestamp = s
    BY <1>1 DEF TypeOK, Position
  <2>2. ASSUME ~(s = 0 \/ now' <= s) PROVE p * apyBps' * (now' - s) \in Nat
    BY <1>1, <2>2, ProductIsNat, TimePasses
  <2>3. ComputeYield(p, s)' \in Nat
    BY <2>2, QuotientIsNat DEF ComputeYield
  <2>4. CurrentValue(a)' = IF p = 0 THEN p ELSE p + (c + ComputeYield(p, s)')
    BY <2>1 DEF CurrentValue, PendingYield
  <2> QED
    BY <2>3, <2>4
<1>4. ASSUME positions'[a] = positions[a], now' = now, usdc'[a] <= usdc[a]
      PROVE  usdc'[a] + CurrentValue(a)' <= usdc[a] + CurrentValue(a)
  <2>1. CurrentValue(a)' <= CurrentValue(a)
    BY <1>1, <1>4, ValueStays
  <2> QED
    BY <1>1, <1>2, <1>3, <1>4, <2>1
<1>5. CASE \E b \in Address, amount \in 1..InitialUsdc : Deposit(b, amount)
  <2>1. PICK b \in Address, amount \in 1..InitialUsdc : Deposit(b, amount)
    BY <1>5
  <2>2. now' = now /\ usdc' = [usdc EXCEPT ![b] = @ - amount] /\ amount \in Nat
    BY <2>1, VaultAssumption DEF Deposit
  <2>3. CASE b = a
    <3>1. CurrentValue(a)' = CurrentValue(a) + amount
      BY <2>1, <2>3, DepositAdds
    <3>2. usdc'[a] = usdc[a] - amount
      BY <1>1, <2>2, <2>3
    <3> QED
      BY <1>1, <1>2, <2>2, <3>1, <3>2
  <2>4. CASE b # a
    <3>1. positions'[a] = positions[a] /\ usdc'[a] = usdc[a]
      BY <1>1, <2>1, <2>2, <2>4 DEF Deposit
    <3> QED
      BY <1>1, <1>4, <2>2, <3>1
  <2> QED
    BY <2>3, <2>4
<1>6. CASE \E b \in Address : Withdraw(b)
  <2>1. PICK b \in Address : Withdraw(b)
    BY <1>6
  <2>2. now' = now /\ usdc' = [usdc EXCEPT ![b] = @ + Received(b)]
    BY <2>1 DEF Withdraw, Close
  <2>3. CASE b = a
    <3>1. CurrentValue(a)' = 0
      BY <1>1, <2>1, <2>3
      DEF Withdraw, Close, NoPosition, CurrentValue, PendingYield
    <3>2. /\ usdc'[a] = usdc[a] + Received(a)
          /\ Received(a) \in Nat /\ Received(a) <= CurrentValue(a)
      <4>1. Received(a) \in Nat
        BY <1>1, PayoutIsCovered
      <4>2. Received(a) <= CurrentValue(a)
        BY <1>1, <1>2 DEF Received, TypeOK
      <4> QED
        BY <1>1, <2>2, <2>3, <4>1, <4>2
    <3> QED
      BY <1>1, <1>2, <3>1, <3>2
  <2>4. CASE b # a
    <3>1. positions'[a] = positions[a] /\ usdc'[a] = usdc[a]
      BY <1>1, <2>1, <2>2, <2>4 DEF Withdraw, Close
    <3> QED
      BY <1>1, <1>4, <2>2, <3>1
  <2> QED
    BY <2>3, <2>4
<1>7. CASE \E b \in Address, amount \in 1..InitialUsdc : FundVault(b, amount)
  <2>1. PICK b \in Address, amount \in 1..InitialUsdc : FundVault(b, amount)
    BY <1>7
  <2>2. /\ positions' = positions /\ now' = now /\ amount \in Nat
        /\ usdc' = [usdc EXCEPT ![b] = @ - amount]
    BY <2>1, VaultAssumption DEF FundVault
  <2>3. usdc'[a] <= usdc[a]
    BY <1>1, <2>2
  <2> QED
    BY <1>4, <2>2, <2>3
<1>8. CASE \/ \E b \in Address : TransferOwnership(b) \/ AcceptOwnership(b)
           \/ \E newApyBps \in 0..MaxApyBps : SetApy(newApyBps)
           \/ UNCHANGED vars
  <2>1. positions' = positions /\ now' = now /\ usdc' = usdc
    BY <1>8 DEF TransferOwnership, AcceptOwnership, SetApy, vars
  <2> QED
    BY <1>1, <1>4, <2>1
<1>9. CASE Tick
  BY <1>1, <1>9 DEF Tick
<1> QED
  BY <1>5, <1>6, <1>7, <1>8, <1>9 DEF Next

\* An account's USDC and what it is owed together grow only with time or a higher rate:
\* no order of deposits and withdrawals makes yield out of nothing.
THEOREM TransactionsMakeNoYield == Spec => OnlyTimePays
<1>1. IInv /\ IInv' /\ [Next]_vars => [WealthStep]_vars
  BY WealthFollows
<1> QED
  BY <1>1, Invariant, PTL DEF Spec, OnlyTimePays, WealthStep
=============================================================================
