-------------------------- MODULE PaymasterProofs --------------------------
(***************************************************************************)
(* Proofs about Paymaster, for any accounts, rates, bundles and amounts:   *)
(* what is locked is exactly what pending operations have reserved (and    *)
(* what reverted postOps left), reservations are covered by deposits, and  *)
(* charges are paid in full, both unless the rate was raised meanwhile.    *)
(* What a step takes from an account follows.  The books of the deposits   *)
(* need no more than the types.                                            *)
(***************************************************************************)
EXTENDS Paymaster, SumsProofs, SequenceTheorems, TLAPS

\* A reservation is what validatePaymasterUserOp computes from gas limit and rate.
Fits(op) ==
  op.reserved = IF op.units * op.rate = 0 \/ op.units * op.rate > MaxDeduction
                THEN MaxDeduction ELSE op.units * op.rate

\* The witness of LockedIsReserved, with the bound that keeps it in its range.
Backed(u, rest) ==
  /\ rest \in [1..(Len(bundle) + 1) -> Nat]
  /\ Remaining(u, rest)
  /\ locked[u] = rest[1] + lost[u]
  /\ \A i \in 1..(Len(bundle) + 1) : rest[i] <= (Len(bundle) + 1 - i) * MaxDeduction

BundleInv ==
  /\ Len(bundle) <= MaxBundle
  /\ \A i \in 1..Len(bundle) : Fits(bundle[i])
  /\ \A u \in Address : \E rest : Backed(u, rest)

IInv == TypeOK /\ BundleInv /\ ReservationsAreCovered /\ ChargesArePaid

-----------------------------------------------------------------------------
(* Arithmetic and helpers. *)

\* Products of natural numbers grow with their factors.
LEMMA ProductsGrow ==
  \A a, b, c, d \in Nat : a <= c /\ b <= d => a * b <= c * d
<1> SUFFICES ASSUME NEW a \in Nat, NEW b \in Nat, NEW c \in Nat, NEW d \in Nat,
                    a <= c, b <= d
             PROVE  a * b <= c * d
  OBVIOUS
<1>1. PICK x \in Nat : c = a + x
  <2> WITNESS c - a \in Nat
  <2> QED OBVIOUS
<1>2. PICK y \in Nat : d = b + y
  <2> WITNESS d - b \in Nat
  <2> QED OBVIOUS
<1>3. c * d = a * b + a * y + x * b + x * y
  BY <1>1, <1>2
<1>4. a * y \in Nat /\ x * b \in Nat /\ x * y \in Nat /\ a * b \in Nat
  BY <1>1, <1>2
<1> QED
  BY <1>3, <1>4

\* Unlocked funds are a natural number, and taking them leaves the locked ones.
LEMMA UnlockedLeavesLocked ==
  ASSUME TypeOK, NEW u \in Address
  PROVE  /\ balances[u] \in Nat /\ locked[u] \in Nat /\ Unlocked(u) \in Nat
         /\ Unlocked(u) <= balances[u]
         /\ \A n \in Nat : n # 0 /\ n <= Unlocked(u) => locked[u] <= balances[u] - n
<1>1. balances[u] \in Nat /\ locked[u] \in Nat
  BY DEF TypeOK
<1>2. CASE balances[u] > locked[u]
  BY <1>1, <1>2 DEF Unlocked
<1>3. CASE ~(balances[u] > locked[u])
  BY <1>1, <1>3 DEF Unlocked
<1> QED
  BY <1>2, <1>3

\* A transfer keeps the token's balances natural.
LEMMA TransferKeepsType ==
  ASSUME TypeOK, NEW from \in Address \cup {Self}, NEW to \in Address \cup {Self},
         NEW amount \in Nat, Transfer(from, to, amount)
  PROVE  usdc' \in [Address \cup {Self} -> Nat]
<1>1. usdc \in [Address \cup {Self} -> Nat] /\ usdc[from] >= amount
  BY DEF TypeOK, Transfer
<1>2. usdc' = [usdc EXCEPT ![from] = @ - amount, ![to] = @ + amount]
  BY DEF Transfer
<1>3. CASE from = to
  BY <1>1, <1>2, <1>3
<1>4. CASE from # to
  BY <1>1, <1>2, <1>4
<1> QED
  BY <1>3, <1>4

\* Paying a fee keeps the token's balances and the fee history natural.
LEMMA PayFeeKeepsType ==
  ASSUME TypeOK, NEW amount \in Nat, PayFee(amount)
  PROVE  usdc' \in [Address \cup {Self} -> Nat] /\ keptFees' \in Nat
<1>1. usdc' \in [Address \cup {Self} -> Nat]
  BY TransferKeepsType DEF PayFee, TypeOK
<1> QED
  BY <1>1 DEF PayFee, TypeOK

\* A gas cost is a natural number below the cap.
LEMMA GasCostIsNat ==
  ASSUME TypeOK, NEW units \in Nat
  PROVE  GasCost(units) \in 0..MaxDeduction
<1>1. gasRate \in Nat /\ units * gasRate \in Nat
  BY PaymasterAssumption DEF TypeOK
<1> QED
  BY <1>1, PaymasterAssumption DEF GasCost, Least

\* At a rate that was not raised, an operation costs at most its reservation.
LEMMA CostFitsReservation ==
  ASSUME TypeOK, NEW op \in Operation, Fits(op),
         NEW units \in Nat, units <= op.units, gasRate <= op.rate
  PROVE  GasCost(units) <= op.reserved
<1>1. gasRate \in Nat /\ op.units \in Nat /\ op.rate \in Nat /\ MaxDeduction \in Nat
  BY PaymasterAssumption DEF TypeOK, Operation
<1>2. units * gasRate <= op.units * op.rate
  BY <1>1, ProductsGrow
<1>3. units * gasRate \in Nat /\ op.units * op.rate \in Nat
  BY <1>1
<1> QED
  BY <1>1, <1>2, <1>3 DEF GasCost, Least, Fits

-----------------------------------------------------------------------------
(* Calls that leave the bundle and its reservations alone. *)

\* What is reserved is a matter of the bundle, the locks and the losses only.
LEMMA BundleUntouched ==
  ASSUME BundleInv, UNCHANGED <<bundle, locked, lost>>
  PROVE  BundleInv'
BY DEF BundleInv, Backed, Remaining, Fits

\* A deposit covers more, not less.
LEMMA DepositKeeps ==
  ASSUME IInv, NEW u \in Address, NEW amount \in Nat, Deposit(u, amount)
  PROVE  IInv'
<1>1. usdc' \in [Address \cup {Self} -> Nat]
  BY TransferKeepsType DEF IInv, Deposit
<1>2. balances' \in [Address -> Nat]
  <2>1. balances \in [Address -> Nat] /\ balances' = [balances EXCEPT ![u] = @ + amount]
    BY DEF IInv, TypeOK, Deposit
  <2> QED
    BY <2>1
<1>3. TypeOK'
  BY <1>1, <1>2 DEF IInv, TypeOK, Deposit, admin, entry
<1>4. BundleInv'
  BY BundleUntouched DEF IInv, Deposit, entry
<1>5. ReservationsAreCovered'
  <2> SUFFICES ASSUME NEW v \in Address \ repriced
               PROVE  locked[v] <= balances'[v]
    BY DEF ReservationsAreCovered, Deposit, entry
  <2> QED
    BY DEF IInv, TypeOK, ReservationsAreCovered, Deposit
<1> QED
  BY <1>3, <1>4, <1>5 DEF IInv, ChargesArePaid, Deposit, entry

\* Lowering a balance by unlocked funds leaves every reservation covered.
LEMMA UnlockedCanGo ==
  ASSUME IInv, NEW u \in Address, NEW amount \in Nat, amount # 0, amount <= Unlocked(u),
         balances' = [balances EXCEPT ![u] = @ - amount],
         UNCHANGED <<locked, entry>>
  PROVE  /\ balances' \in [Address -> Nat]
         /\ BundleInv' /\ ReservationsAreCovered' /\ ChargesArePaid'
<1>1. TypeOK /\ balances \in [Address -> Nat] /\ locked \in [Address -> Nat]
  BY DEF IInv, TypeOK
<1>2. /\ balances[u] - amount \in Nat
      /\ locked[u] <= balances[u] - amount
  BY <1>1, UnlockedLeavesLocked
<1>3. balances' \in [Address -> Nat]
  BY <1>1, <1>2
<1>4. BundleInv'
  BY BundleUntouched DEF IInv, entry
<1>5. ReservationsAreCovered'
  BY <1>1, <1>2 DEF IInv, ReservationsAreCovered, entry
<1> QED
  BY <1>3, <1>4, <1>5 DEF IInv, ChargesArePaid, entry

\* A withdrawal takes unlocked funds only.
LEMMA WithdrawKeeps ==
  ASSUME IInv, NEW u \in Address, NEW amount \in Nat, Withdraw(u, amount)
  PROVE  IInv'
<1>1. usdc' \in [Address \cup {Self} -> Nat]
  BY TransferKeepsType DEF IInv, Withdraw, TakeOut
<1>2. /\ balances' \in [Address -> Nat]
      /\ BundleInv' /\ ReservationsAreCovered' /\ ChargesArePaid'
  BY UnlockedCanGo DEF Withdraw, TakeOut
<1> QED
  BY <1>1, <1>2 DEF IInv, TypeOK, Withdraw, TakeOut, admin, entry

\* So does a deduction of the relayer.
LEMMA DeductKeeps ==
  ASSUME IInv, NEW caller \in Address, NEW u \in Address, NEW cost \in Nat,
         DeductGas(caller, u, cost)
  PROVE  IInv'
<1>1. usdc' \in [Address \cup {Self} -> Nat] /\ keptFees' \in Nat
  BY PayFeeKeepsType DEF IInv, DeductGas, Deduct
<1>2. /\ balances' \in [Address -> Nat]
      /\ BundleInv' /\ ReservationsAreCovered' /\ ChargesArePaid'
  BY UnlockedCanGo DEF DeductGas, Deduct
<1> QED
  BY <1>1, <1>2 DEF IInv, TypeOK, DeductGas, Deduct, admin, entry

\* The owner changes settings and nobody's money.
LEMMA OwnerKeeps ==
  ASSUME IInv, NEW caller \in Address, OwnerAction(caller)
  PROVE  IInv'
<1>1. UNCHANGED <<balances, locked, usdc, entry, keptFees>>
  BY DEF OwnerAction, SetRelayer, TransferOwnership, SetFeeRecipient, SetGasRate,
         SetPaused, AcceptOwnership
<1>2. /\ gasRate' \in 0..MaxGasRate
      /\ paused' \in BOOLEAN
      /\ owner' \in Address
      /\ pendingOwner' \in Address \cup {None}
      /\ relayer' \in Address
      /\ feeRecipient' \in Address \cup {Self}
  BY PaymasterAssumption
     DEF IInv, TypeOK, OwnerAction, SetRelayer, TransferOwnership, SetFeeRecipient,
         SetGasRate, SetPaused, AcceptOwnership
<1>3. TypeOK'
  BY <1>1, <1>2 DEF IInv, TypeOK, entry
<1>4. BundleInv'
  BY <1>1, BundleUntouched DEF IInv, entry
<1> QED
  BY <1>1, <1>3, <1>4 DEF IInv, ReservationsAreCovered, ChargesArePaid, entry

-----------------------------------------------------------------------------
(* The EntryPoint's calls. *)

\* A reservation is positive, capped, and fits what it is made for.
LEMMA ReservationFits ==
  ASSUME TypeOK, NEW u \in Address, NEW units \in 0..MaxGasUnits
  PROVE  LET op == [user |-> u, reserved |-> Reservation(units),
                    units |-> units, rate |-> gasRate]
         IN op \in Operation /\ Fits(op)
<1>1. gasRate \in 0..MaxGasRate /\ units * gasRate \in Nat /\ MaxDeduction \in Nat \ {0}
  BY PaymasterAssumption DEF TypeOK
<1>2. Reservation(units) \in 1..MaxDeduction
  BY <1>1 DEF Reservation
<1> QED
  BY <1>1, <1>2 DEF Operation, Fits, Reservation

\* A validation adds its reservation to the bundle and to the lock.
LEMMA ValidateKeeps ==
  ASSUME IInv, NEW u \in Address, NEW units \in 0..MaxGasUnits,
         ValidatePaymasterUserOp(u, units)
  PROVE  IInv'
<1> DEFINE r == Reservation(units)
           op == [user |-> u, reserved |-> r, units |-> units, rate |-> gasRate]
<1>1. op \in Operation /\ Fits(op) /\ r \in 1..MaxDeduction
  BY ReservationFits DEF IInv, Operation
<1>2. bundle \in Seq(Operation) /\ bundle' = Append(bundle, op)
  BY DEF IInv, TypeOK, ValidatePaymasterUserOp
<1>3. /\ bundle' \in Seq(Operation)
      /\ Len(bundle') = Len(bundle) + 1
      /\ \A i \in 1..Len(bundle) : bundle'[i] = bundle[i]
      /\ bundle'[Len(bundle) + 1] = op
  BY <1>1, <1>2, AppendProperties
<1>4. Len(bundle) \in Nat /\ Len(bundle) < MaxBundle /\ MaxBundle \in Nat
  BY <1>2, PaymasterAssumption, LenProperties DEF ValidatePaymasterUserOp
<1>5. op.user = u /\ op.reserved = r
  OBVIOUS
<1> HIDE DEF op
<1>6. /\ locked \in [Address -> Nat] /\ locked' = [locked EXCEPT ![u] = @ + r]
      /\ balances \in [Address -> Nat] /\ Unlocked(u) >= r
  BY DEF IInv, TypeOK, ValidatePaymasterUserOp
<1>7. MaxDeduction \in Nat /\ r \in Nat /\ 1 <= r /\ r <= MaxDeduction
  BY <1>1, PaymasterAssumption
<1> HIDE DEF r
<1>8. TypeOK'
  <2>1. locked' \in [Address -> Nat]
    BY <1>6, <1>7
  <2> QED
    BY <1>3, <2>1 DEF IInv, TypeOK, ValidatePaymasterUserOp, admin
<1>9. ASSUME NEW v \in Address
      PROVE  \E rest : Backed(v, rest)'
  <2>1. PICK rest : Backed(v, rest)
    BY DEF IInv, BundleInv
  <2> DEFINE x == IF u = v THEN r ELSE 0
             more == [i \in 1..(Len(bundle) + 2) |->
                        IF i <= Len(bundle) + 1 THEN rest[i] + x ELSE 0]
  <2>2. x \in Nat /\ x <= MaxDeduction
    BY <1>7
  <2>3. rest \in [1..(Len(bundle) + 1) -> Nat]
    BY <2>1 DEF Backed
  <2>4. more \in [1..(Len(bundle) + 2) -> Nat]
    BY <1>4, <2>2, <2>3
  <2>9. PICK m : m = more
    OBVIOUS
  <2>5. Remaining(v, m)'
    <3>1. more[Len(bundle) + 2] = 0
      BY <1>4
    <3>2. ASSUME NEW i \in 1..(Len(bundle) + 1)
          PROVE  more[i] = more[i + 1] + (IF bundle'[i].user = v
                                          THEN bundle'[i].reserved ELSE 0)
      <4>1. CASE i <= Len(bundle)
        <5>1. rest[i] = rest[i + 1] + (IF bundle[i].user = v THEN bundle[i].reserved ELSE 0)
          BY <1>4, <2>1, <4>1 DEF Backed, Remaining
        <5>2. bundle[i] \in Operation /\ bundle'[i] = bundle[i]
          BY <1>2, <1>3, <1>4, <4>1, ElementOfSeq
        <5>3. (IF bundle[i].user = v THEN bundle[i].reserved ELSE 0) \in Nat
          BY <5>2, PaymasterAssumption DEF Operation
        <5>4. rest[i] \in Nat /\ rest[i + 1] \in Nat
          BY <1>4, <2>3, <4>1
        <5>5. more[i] = rest[i] + x /\ more[i + 1] = rest[i + 1] + x
          BY <1>4, <4>1
        <5> HIDE DEF more, x
        <5> QED
          BY <2>2, <5>1, <5>2, <5>3, <5>4, <5>5
      <4>2. CASE i = Len(bundle) + 1
        <5>1. rest[i] = 0
          BY <2>1, <4>2 DEF Backed, Remaining
        <5>2. more[i] = x /\ more[i + 1] = 0
          BY <1>4, <2>2, <4>2, <5>1
        <5> QED
          BY <1>3, <1>5, <1>7, <4>2, <5>2
      <4> QED
        BY <1>4, <4>1, <4>2
    <3>3. Len(bundle)' + 1 = Len(bundle) + 2 /\ Len(bundle)' = Len(bundle) + 1
      BY <1>3, <1>4
    <3> HIDE DEF more
    <3> QED
      BY <2>9, <3>1, <3>2, <3>3 DEF Remaining
  <2>6. locked'[v] = more[1] + lost'[v]
    <3>4. lost' = lost /\ lost[v] \in Nat
      BY DEF IInv, TypeOK, ValidatePaymasterUserOp
    <3>5. locked[v] = rest[1] + lost[v]
      BY <2>1 DEF Backed
    <3>1. rest[1] \in Nat
      BY <1>4, <2>3
    <3>2. more[1] = rest[1] + x
      BY <1>4
    <3>3. locked'[v] = locked[v] + x
      BY <1>6, <1>7
    <3> HIDE DEF more, x
    <3> QED
      BY <2>2, <3>4, <3>5, <3>1, <3>2, <3>3
  <2>7. ASSUME NEW i \in 1..(Len(bundle) + 2)
        PROVE  more[i] <= (Len(bundle) + 2 - i) * MaxDeduction
    <3>1. CASE i <= Len(bundle) + 1
      <4>1. rest[i] <= (Len(bundle) + 1 - i) * MaxDeduction /\ rest[i] \in Nat
        BY <1>4, <2>1, <2>3, <3>1 DEF Backed
      <4>2. (Len(bundle) + 2 - i) * MaxDeduction
              = (Len(bundle) + 1 - i) * MaxDeduction + MaxDeduction
        BY <1>4, <1>7
      <4>3. (Len(bundle) + 1 - i) * MaxDeduction \in Int
        BY <1>4, <1>7
      <4>4. more[i] = rest[i] + x
        BY <3>1
      <4> HIDE DEF more, x
      <4> QED
        BY <1>7, <2>2, <4>1, <4>2, <4>3, <4>4
    <3>2. CASE i = Len(bundle) + 2
      BY <1>4, <1>7, <3>2
    <3> QED
      BY <1>4, <3>1, <3>2
  <2> HIDE DEF more
  <2>8. Backed(v, m)'
    BY <1>3, <1>4, <2>9, <2>4, <2>5, <2>6, <2>7 DEF Backed
  <2> QED
    BY <2>8
<1>10. BundleInv'
  <2>1. Len(bundle') <= MaxBundle
    BY <1>3, <1>4
  <2>2. \A i \in 1..Len(bundle') : Fits(bundle'[i])
    BY <1>1, <1>3, <1>4 DEF IInv, BundleInv
  <2> QED
    BY <1>9, <2>1, <2>2 DEF BundleInv, Fits
<1>11. ReservationsAreCovered'
  <2> SUFFICES ASSUME NEW v \in Address \ repriced
               PROVE  locked'[v] <= balances[v]
    BY DEF ReservationsAreCovered, ValidatePaymasterUserOp
  <2>1. locked[v] <= balances[v]
    BY DEF IInv, ReservationsAreCovered
  <2>2. CASE v = u
    BY <1>6, <1>7, <2>2 DEF Unlocked
  <2>3. CASE v # u
    BY <1>6, <2>1, <2>3
  <2> QED
    BY <2>2, <2>3
<1> QED
  BY <1>8, <1>10, <1>11 DEF IInv, ChargesArePaid, ValidatePaymasterUserOp

\* What the head of the bundle has reserved for u.
HeadShare(u) == IF Head(bundle).user = u THEN Head(bundle).reserved ELSE 0

\* The head of a bundle is one of its operations, its reservation is locked.
LEMMA HeadIsLocked ==
  ASSUME TypeOK, BundleInv, bundle # <<>>
  PROVE  /\ Head(bundle) \in Operation /\ Fits(Head(bundle))
         /\ Head(bundle).user \in Address
         /\ Head(bundle).reserved \in 1..MaxDeduction
         /\ Tail(bundle) \in Seq(Operation)
         /\ Head(bundle).reserved + lost[Head(bundle).user] <= locked[Head(bundle).user]
<1>1. /\ Head(bundle) \in Operation /\ Tail(bundle) \in Seq(Operation)
      /\ Head(bundle) = bundle[1] /\ Len(bundle) \in Nat /\ Len(bundle) # 0
  BY HeadTailProperties, LenProperties, EmptySeq DEF TypeOK
<1>2. Head(bundle).user \in Address /\ Head(bundle).reserved \in 1..MaxDeduction
  BY <1>1 DEF Operation
<1>3. PICK rest : Backed(Head(bundle).user, rest)
  BY <1>2 DEF BundleInv
<1>4. rest[1] = rest[2] + Head(bundle).reserved
  BY <1>1, <1>3 DEF Backed, Remaining
<1>5. rest[1] \in Nat /\ rest[2] \in Nat
  BY <1>1, <1>3 DEF Backed
<1>6. lost[Head(bundle).user] \in Nat
  BY <1>2 DEF TypeOK
<1>7. locked[Head(bundle).user] = rest[1] + lost[Head(bundle).user]
  BY <1>3 DEF Backed
<1>8. Head(bundle).reserved + lost[Head(bundle).user] <= locked[Head(bundle).user]
  BY <1>2, <1>4, <1>5, <1>6, <1>7, PaymasterAssumption
<1>9. Fits(Head(bundle))
  BY <1>1 DEF BundleInv
<1> QED
  BY <1>1, <1>2, <1>8, <1>9

\* Finishing the head keeps the books of the reservations, if what is locked beyond the
\* losses falls by what the head had reserved.
LEMMA NextOperationKeeps ==
  ASSUME TypeOK, BundleInv, NextOperation,
         \A u \in Address : locked'[u] - lost'[u] = locked[u] - lost[u] - HeadShare(u),
         locked' \in [Address -> Nat], lost' \in [Address -> Nat]
  PROVE  BundleInv'
<1>1. /\ Tail(bundle) \in Seq(Operation) /\ bundle' = Tail(bundle)
      /\ Len(bundle') = Len(bundle) - 1
      /\ \A i \in 1..Len(bundle') : bundle'[i] = bundle[i + 1]
      /\ Head(bundle) = bundle[1]
  BY HeadTailProperties DEF TypeOK, NextOperation
<1>2. Len(bundle) \in Nat /\ Len(bundle) # 0 /\ Len(bundle') \in Nat
  BY <1>1, LenProperties, EmptySeq DEF TypeOK, NextOperation
<1>3. ASSUME NEW v \in Address
      PROVE  \E rest : Backed(v, rest)'
  <2>1. PICK rest : Backed(v, rest)
    BY DEF BundleInv
  <2>2. rest \in [1..(Len(bundle) + 1) -> Nat]
    BY <2>1 DEF Backed
  <2>3. PICK m : m = [i \in 1..Len(bundle) |-> rest[i + 1]]
    OBVIOUS
  <2>4. m \in [1..Len(bundle) -> Nat]
    BY <1>2, <2>2, <2>3
  <2>5. Remaining(v, m)'
    <3>1. m[Len(bundle)] = 0
      BY <1>2, <2>1, <2>3 DEF Backed, Remaining
    <3>2. ASSUME NEW i \in 1..(Len(bundle) - 1)
          PROVE  m[i] = m[i + 1] + (IF bundle'[i].user = v THEN bundle'[i].reserved ELSE 0)
      <4>1. m[i] = rest[i + 1] /\ m[i + 1] = rest[(i + 1) + 1]
        BY <1>2, <2>3
      <4>2. bundle'[i] = bundle[i + 1]
        BY <1>1, <1>2
      <4>3. i + 1 \in 1..Len(bundle)
        BY <1>2
      <4>4. rest[i + 1] = rest[(i + 1) + 1]
              + (IF bundle[i + 1].user = v THEN bundle[i + 1].reserved ELSE 0)
        BY <2>1, <4>3 DEF Backed, Remaining
      <4> QED
        BY <4>1, <4>2, <4>4
    <3>3. Len(bundle)' + 1 = Len(bundle) /\ Len(bundle)' = Len(bundle) - 1
      BY <1>1, <1>2
    <3> QED
      BY <3>1, <3>2, <3>3 DEF Remaining
  <2>6. locked'[v] = m[1] + lost'[v]
    <3>1. locked[v] = rest[1] + lost[v]
      BY <2>1 DEF Backed
    <3>2. rest[1] = rest[2] + HeadShare(v)
      <4>1. 1 \in 1..Len(bundle) /\ 1 + 1 = 2
        BY <1>2
      <4>2. rest[1] = rest[1 + 1] + (IF bundle[1].user = v THEN bundle[1].reserved ELSE 0)
        BY <2>1, <4>1 DEF Backed, Remaining
      <4> QED
        BY <1>1, <4>1, <4>2 DEF HeadShare
    <3>3. rest[1] \in Nat /\ rest[2] \in Nat /\ m[1] = rest[2]
      BY <1>2, <2>2, <2>3
    <3>4. HeadShare(v) \in Nat
      BY HeadIsLocked, PaymasterAssumption DEF HeadShare, NextOperation
    <3>5. lost[v] \in Nat /\ locked[v] \in Nat
      BY DEF TypeOK
    <3>6. locked'[v] \in Nat /\ lost'[v] \in Nat
      OBVIOUS
    <3>7. locked'[v] - lost'[v] = locked[v] - lost[v] - HeadShare(v)
      OBVIOUS
    <3> QED
      BY <3>1, <3>2, <3>3, <3>4, <3>5, <3>6, <3>7
  <2>7. ASSUME NEW i \in 1..Len(bundle)
        PROVE  m[i] <= (Len(bundle) - i) * MaxDeduction
    <3>1. i + 1 \in 1..(Len(bundle) + 1) /\ m[i] = rest[i + 1]
      BY <1>2, <2>3
    <3>2. rest[i + 1] <= (Len(bundle) + 1 - (i + 1)) * MaxDeduction
      BY <2>1, <3>1 DEF Backed
    <3>3. Len(bundle) + 1 - (i + 1) = Len(bundle) - i
      BY <1>2
    <3> QED
      BY <3>1, <3>2, <3>3
  <2>8. Len(bundle)' + 1 = Len(bundle)
    BY <1>1, <1>2
  <2>9. Backed(v, m)'
    BY <2>4, <2>5, <2>6, <2>7, <2>8 DEF Backed
  <2> QED
    BY <2>9
<1>4. Len(bundle') <= MaxBundle
  BY <1>1, <1>2, PaymasterAssumption DEF BundleInv
<1>5. \A i \in 1..Len(bundle') : Fits(bundle'[i])
  BY <1>1, <1>2 DEF BundleInv
<1> QED
  BY <1>3, <1>4, <1>5 DEF BundleInv, Fits

\* A settlement releases its reservation and charges at most that, unless the rate was
\* raised; then the account is one of the repriced.
LEMMA PostOpKeeps ==
  ASSUME IInv, bundle # <<>>, NEW units \in 0..MaxGasUnits, units <= Head(bundle).units,
         PostOp(units)
  PROVE  IInv'
<1> DEFINE u == Head(bundle).user
           r == Head(bundle).reserved
           cost == GasCost(units)
           charge == Least(cost, balances[u])
<1>1. /\ Head(bundle) \in Operation /\ Fits(Head(bundle))
      /\ u \in Address /\ r \in 1..MaxDeduction
      /\ Tail(bundle) \in Seq(Operation)
      /\ r + lost[u] <= locked[u]
  BY HeadIsLocked DEF IInv
<1>2. /\ NextOperation
      /\ locked' = [locked EXCEPT ![u] = IF @ > r THEN @ - r ELSE 0]
      /\ balances' = [balances EXCEPT ![u] = @ - charge]
      /\ PayFee(charge)
      /\ repriced' = repriced \cup (IF gasRate > Head(bundle).rate THEN {u} ELSE {})
      /\ unpaid' = unpaid \cup (IF charge < cost THEN {u} ELSE {})
      /\ UNCHANGED <<admin, lost>>
  BY DEF PostOp, Settle, Release
<1>3. /\ locked \in [Address -> Nat] /\ balances \in [Address -> Nat]
      /\ lost \in [Address -> Nat]
  BY DEF IInv, TypeOK
<1>4. cost \in 0..MaxDeduction /\ MaxDeduction \in Nat
  BY GasCostIsNat, PaymasterAssumption DEF IInv
<1>5. gasRate <= Head(bundle).rate => cost <= r
  BY <1>1, CostFitsReservation, PaymasterAssumption DEF IInv
<1>6. gasRate \in Nat /\ Head(bundle).rate \in Nat
  <2>1. gasRate \in 0..MaxGasRate
    BY DEF IInv, TypeOK
  <2>2. Head(bundle).rate \in 0..MaxGasRate
    BY <1>1 DEF Operation
  <2> QED
    BY <2>1, <2>2, PaymasterAssumption
<1> HIDE DEF u, r, cost
<1>7. charge \in Nat /\ charge <= balances[u] /\ charge <= cost
        /\ (charge < cost => balances[u] < cost)
  BY <1>1, <1>3, <1>4 DEF Least
<1> HIDE DEF charge
<1>8. balances' \in [Address -> Nat]
  BY <1>1, <1>2, <1>3, <1>7
<1>9. locked' \in [Address -> Nat] /\ locked'[u] = locked[u] - r
  BY <1>1, <1>2, <1>3, <1>4
<1>10. TypeOK'
  <2>1. usdc' \in [Address \cup {Self} -> Nat] /\ keptFees' \in Nat
    BY <1>2, <1>7, PayFeeKeepsType DEF IInv
  <2>2. bundle' \in Seq(Operation) /\ executing' \in BOOLEAN
    BY <1>1, <1>2 DEF NextOperation
  <2>3. repriced' \subseteq Address /\ unpaid' \subseteq Address
    BY <1>1, <1>2 DEF IInv, TypeOK
  <2>4. UNCHANGED <<gasRate, paused, owner, pendingOwner, relayer, feeRecipient, lost>>
    BY <1>2 DEF admin
  <2> QED
    BY <1>8, <1>9, <2>1, <2>2, <2>3, <2>4 DEF IInv, TypeOK
<1>11. BundleInv'
  <2>1. ASSUME NEW v \in Address
        PROVE  locked'[v] - lost'[v] = locked[v] - lost[v] - HeadShare(v)
    <3>1. CASE v = u
      BY <1>1, <1>2, <1>3, <1>9, <3>1 DEF HeadShare, u, r
    <3>2. CASE v # u
      BY <1>1, <1>2, <1>3, <3>2 DEF HeadShare, u
    <3> QED
      BY <3>1, <3>2
  <2>2. lost' \in [Address -> Nat]
    BY <1>2, <1>3
  <2> QED
    BY <1>2, <1>9, <2>1, <2>2, NextOperationKeeps DEF IInv
<1>12. ReservationsAreCovered'
  <2> SUFFICES ASSUME NEW v \in Address, v \notin repriced'
               PROVE  locked'[v] <= balances'[v]
    BY DEF ReservationsAreCovered
  <2>1. locked[v] <= balances[v]
    BY <1>2 DEF IInv, ReservationsAreCovered
  <2>2. CASE v = u
    <3>1. cost <= r
      BY <1>2, <1>5, <1>6, <2>2
    <3>2. balances'[v] = balances[v] - charge
      BY <1>1, <1>2, <1>3, <2>2
    <3>3. locked'[v] = locked[v] - r /\ r \in Nat
      BY <1>1, <1>4, <1>9, <2>2
    <3> QED
      BY <1>3, <1>4, <1>7, <2>1, <3>1, <3>2, <3>3
  <2>3. CASE v # u
    BY <1>2, <1>3, <2>1, <2>3
  <2> QED
    BY <2>2, <2>3
<1>13. ChargesArePaid'
  <2>1. unpaid \subseteq repriced
    BY DEF IInv, ChargesArePaid
  <2>2. CASE charge < cost /\ u \notin repriced'
    <3>1. cost <= r
      BY <1>2, <1>5, <1>6, <2>2
    <3>2. locked[u] <= balances[u]
      BY <1>1, <1>2, <2>2 DEF IInv, ReservationsAreCovered
    <3>3. balances[u] < cost
      BY <1>7, <2>2
    <3>4. lost[u] \in Nat /\ locked[u] \in Nat /\ balances[u] \in Nat /\ r \in Nat
      BY <1>1, <1>3, <1>4
    <3> QED
      BY <1>1, <1>4, <3>1, <3>2, <3>3, <3>4
  <2>3. CASE ~(charge < cost /\ u \notin repriced')
    BY <1>2, <2>1, <2>3 DEF ChargesArePaid
  <2> QED
    BY <2>2, <2>3
<1> QED
  BY <1>10, <1>11, <1>12, <1>13 DEF IInv

\* A postOp that reverts turns its reservation into a loss.
LEMMA PostOpRevertsKeeps ==
  ASSUME IInv, PostOpReverts
  PROVE  IInv'
<1> DEFINE u == Head(bundle).user
           r == Head(bundle).reserved
<1>1. /\ u \in Address /\ r \in 1..MaxDeduction
      /\ Tail(bundle) \in Seq(Operation)
  BY HeadIsLocked DEF IInv, PostOpReverts, NextOperation
<1>2. /\ NextOperation
      /\ lost' = [lost EXCEPT ![u] = @ + r]
      /\ UNCHANGED <<balances, locked, admin, usdc, repriced, unpaid, keptFees>>
  BY DEF PostOpReverts
<1>3. locked \in [Address -> Nat] /\ lost \in [Address -> Nat] /\ MaxDeduction \in Nat
  BY PaymasterAssumption DEF IInv, TypeOK
<1> HIDE DEF u, r
<1>4. lost' \in [Address -> Nat]
  BY <1>1, <1>2, <1>3
<1>5. TypeOK'
  BY <1>1, <1>2, <1>4 DEF IInv, TypeOK, NextOperation, admin
<1>6. BundleInv'
  <2>1. ASSUME NEW v \in Address
        PROVE  locked'[v] - lost'[v] = locked[v] - lost[v] - HeadShare(v)
    <3>1. CASE v = u
      BY <1>1, <1>2, <1>3, <3>1 DEF HeadShare, u, r
    <3>2. CASE v # u
      BY <1>1, <1>2, <1>3, <3>2 DEF HeadShare, u
    <3> QED
      BY <3>1, <3>2
  <2> QED
    BY <1>2, <1>3, <1>4, <2>1, NextOperationKeeps DEF IInv
<1> QED
  BY <1>2, <1>5, <1>6 DEF IInv, ReservationsAreCovered, ChargesArePaid

-----------------------------------------------------------------------------
(* What a step takes. *)

\* Taking unlocked funds from one account takes nothing from others, and leaves what is
\* reserved.
LEMMA OnlyUnlockedGoes ==
  ASSUME TypeOK, NEW u \in Address, NEW amount \in Nat, amount # 0, amount <= Unlocked(u),
         balances' = [balances EXCEPT ![u] = @ - amount], locked' = locked,
         NEW v \in Address, balances'[v] < balances[v]
  PROVE  balances'[v] >= locked'[v]
<1>1. /\ balances \in [Address -> Nat]
      /\ balances[u] \in Nat /\ locked[u] \in Nat /\ locked[u] <= balances[u] - amount
      /\ balances[v] \in Nat
  BY UnlockedLeavesLocked DEF TypeOK
<1>2. CASE v = u
  BY <1>1, <1>2
<1>3. CASE v # u
  BY <1>1, <1>3
<1> QED
  BY <1>2, <1>3

\* A settlement takes from the account of the head of the bundle, at most its reservation
\* unless the rate was raised.
LEMMA SettlementTakes ==
  ASSUME IInv, NEW units \in 0..MaxGasUnits, units <= Head(bundle).units, PostOp(units),
         NEW v \in Address, balances'[v] < balances[v]
  PROVE  /\ bundle' # bundle
         /\ Head(bundle).user = v
         /\ \/ balances[v] - balances'[v] <= Head(bundle).reserved
            \/ gasRate > Head(bundle).rate
<1>1. bundle # <<>> /\ bundle' = Tail(bundle) /\ bundle \in Seq(Operation)
  BY DEF IInv, TypeOK, PostOp, Settle, NextOperation
<1>2. /\ Head(bundle) \in Operation /\ Fits(Head(bundle))
      /\ Head(bundle).user \in Address
      /\ Head(bundle).reserved \in 1..MaxDeduction
  BY <1>1, HeadIsLocked DEF IInv
<1>3. bundle' # bundle
  <2>1. Len(Tail(bundle)) = Len(bundle) - 1 /\ Len(bundle) \in Nat
    BY <1>1, HeadTailProperties, LenProperties
  <2>2. Tail(bundle) # bundle
    BY <2>1
  <2> QED
    BY <1>1, <2>2
<1>4. PICK charge : charge = Least(GasCost(units), balances[Head(bundle).user])
  OBVIOUS
<1>5. /\ balances \in [Address -> Nat]
      /\ balances' = [balances EXCEPT ![Head(bundle).user] = @ - charge]
  BY <1>4 DEF IInv, TypeOK, PostOp, Settle
<1>6. /\ balances[v] \in Nat /\ balances[Head(bundle).user] \in Nat
      /\ GasCost(units) \in Nat
  BY <1>2, <1>5, GasCostIsNat, PaymasterAssumption DEF IInv
<1>7. charge \in Nat /\ charge <= GasCost(units)
  BY <1>4, <1>6 DEF Least
<1>8. Head(bundle).user = v
  BY <1>5, <1>6
<1>9. balances[v] - balances'[v] = charge
  BY <1>2, <1>5, <1>6, <1>7, <1>8
<1>10. CASE gasRate <= Head(bundle).rate
  <2>1. GasCost(units) <= Head(bundle).reserved
    BY <1>2, <1>10, CostFitsReservation DEF IInv
  <2>2. Head(bundle).reserved \in Nat
    BY <1>2, PaymasterAssumption
  <2> QED
    BY <1>3, <1>6, <1>7, <1>8, <1>9, <2>1, <2>2
<1>11. CASE ~(gasRate <= Head(bundle).rate)
  <2>1. gasRate \in 0..MaxGasRate /\ Head(bundle).rate \in 0..MaxGasRate
    BY <1>2 DEF IInv, TypeOK, Operation
  <2>2. gasRate > Head(bundle).rate
    BY <1>11, <2>1, PaymasterAssumption
  <2> QED
    BY <1>3, <1>8, <2>2
<1> QED
  BY <1>10, <1>11

\* ChargesStayReserved is this of every step.
ChargeStep ==
  \A u \in Address : balances'[u] < balances[u] =>
    IF bundle' = bundle THEN balances'[u] >= locked'[u]
    ELSE /\ Head(bundle).user = u
         /\ \/ balances[u] - balances'[u] <= Head(bundle).reserved
            \/ gasRate > Head(bundle).rate

LEMMA ChargesFollow ==
  ASSUME IInv, [Next]_vars
  PROVE  ChargeStep
<1> SUFFICES ASSUME NEW v \in Address, balances'[v] < balances[v]
             PROVE  IF bundle' = bundle THEN balances'[v] >= locked'[v]
                    ELSE /\ Head(bundle).user = v
                         /\ \/ balances[v] - balances'[v] <= Head(bundle).reserved
                            \/ gasRate > Head(bundle).rate
  BY DEF ChargeStep
<1>1. TypeOK /\ balances \in [Address -> Nat] /\ usdc \in [Address \cup {Self} -> Nat]
  BY DEF IInv, TypeOK
<1>2. balances' # balances
  BY <1>1
<1>3. ASSUME NEW caller \in Address, AnybodysCall(caller)
      PROVE  bundle' = bundle /\ balances'[v] >= locked'[v]
  <2>1. usdc[caller] \in Nat /\ balances[caller] \in Nat
    BY <1>1
  <2>2. CASE \E amount \in 1..usdc[caller] : Deposit(caller, amount)
    <3>1. PICK amount \in Nat : Deposit(caller, amount)
      BY <2>1, <2>2
    <3>2. balances' = [balances EXCEPT ![caller] = @ + amount]
      BY <3>1 DEF Deposit
    <3>3. balances[v] \in Nat /\ balances'[v] >= balances[v]
      BY <1>1, <3>2
    <3> QED
      BY <1>1, <3>2, <3>3
  <2>3. CASE \E amount \in 1..balances[caller] : Withdraw(caller, amount)
    <3>1. PICK amount \in Nat : Withdraw(caller, amount)
      BY <2>1, <2>3
    <3> QED
      BY <1>1, <3>1, OnlyUnlockedGoes DEF Withdraw, TakeOut, entry
  <2>4. CASE \E u \in Address, cost \in 1..MaxDeduction : DeductGas(caller, u, cost)
    <3>1. PICK u \in Address, cost \in Nat : DeductGas(caller, u, cost)
      BY <2>4, PaymasterAssumption
    <3> QED
      BY <1>1, <3>1, OnlyUnlockedGoes DEF DeductGas, Deduct, entry
  <2>5. CASE OwnerAction(caller)
    BY <1>2, <2>5 DEF OwnerAction, SetRelayer, TransferOwnership, SetFeeRecipient,
                      SetGasRate, SetPaused, AcceptOwnership
  <2> QED
    BY <1>3, <2>2, <2>3, <2>4, <2>5 DEF AnybodysCall
<1>4. CASE EntryPointCall
  <2>1. PICK units \in 0..MaxGasUnits : units <= Head(bundle).units /\ PostOp(units)
    BY <1>2, <1>4 DEF EntryPointCall, ValidatePaymasterUserOp, PostOpReverts
  <2> QED
    BY <2>1, SettlementTakes
<1>5. CASE UNCHANGED vars
  BY <1>2, <1>5 DEF vars
<1> QED
  BY <1>3, <1>4, <1>5 DEF Next

-----------------------------------------------------------------------------
(* The books. *)

\* DepositsAreHeld in the form the steps preserve.
Books == AddsUp(balances, Address, usdc[Self] - keptFees)

\* One account's balance changes, and what the contract holds for depositors with it.
LEMMA BooksFollow ==
  ASSUME TypeOK, TypeOK', Books, NEW u \in Address,
         \A a \in Address \ {u} : balances'[a] = balances[a],
         usdc'[Self] - keptFees' = usdc[Self] - keptFees + balances'[u] - balances[u]
  PROVE  Books'
<1>1. balances \in [Address -> Nat] /\ balances' \in [Address -> Nat]
  BY DEF TypeOK
<1>2. AddsUp(balances', Address, usdc[Self] - keptFees + balances'[u] - balances[u])
  BY <1>1, OneEntryChanges, PaymasterAssumption DEF Books
<1> QED
  BY <1>2 DEF Books

\* A fee leaves what is held for depositors, also when the contract pays itself.
LEMMA PayFeeBooks ==
  ASSUME TypeOK, NEW amount \in Nat, PayFee(amount)
  PROVE  usdc'[Self] - keptFees' = usdc[Self] - keptFees - amount
<1>1. /\ usdc \in [Address \cup {Self} -> Nat] /\ keptFees \in Nat
      /\ feeRecipient \in Address \cup {Self}
      /\ usdc[Self] \in Nat
  BY DEF TypeOK
<1>2. usdc' = [usdc EXCEPT ![Self] = @ - amount, ![feeRecipient] = @ + amount]
  BY DEF PayFee, Transfer
<1>3. CASE feeRecipient = Self
  <2>1. usdc'[Self] = usdc[Self] - amount + amount
    BY <1>1, <1>2, <1>3
  <2>2. keptFees' = keptFees + amount
    BY <1>3 DEF PayFee
  <2> QED
    BY <1>1, <2>1, <2>2
<1>4. CASE feeRecipient # Self
  <2>1. usdc'[Self] = usdc[Self] - amount
    BY <1>1, <1>2, <1>4
  <2>2. keptFees' = keptFees
    BY <1>1, <1>4 DEF PayFee
  <2> QED
    BY <1>1, <2>1, <2>2
<1> QED
  BY <1>3, <1>4

\* Whoever calls the contract, money and books move together.
LEMMA BooksKept ==
  ASSUME TypeOK, TypeOK', Books, [Next]_vars
  PROVE  Books'
<1> USE PaymasterAssumption
<1>1. /\ balances \in [Address -> Nat]
      /\ usdc \in [Address \cup {Self} -> Nat]
      /\ usdc[Self] \in Nat /\ keptFees \in Nat
  BY DEF TypeOK
<1>2. ASSUME NEW u \in Address, NEW amount \in Nat, Deposit(u, amount)
      PROVE  Books'
  <2>1. usdc'[Self] = usdc[Self] + amount /\ keptFees' = keptFees
    BY <1>1, <1>2 DEF Deposit, Transfer
  <2>2. balances'[u] = balances[u] + amount /\ balances[u] \in Nat
    BY <1>1, <1>2 DEF Deposit
  <2>3. \A a \in Address \ {u} : balances'[a] = balances[a]
    BY <1>1, <1>2 DEF Deposit
  <2> QED
    BY <1>1, <2>1, <2>2, <2>3, BooksFollow
<1>3. ASSUME NEW u \in Address, NEW amount \in Nat, Withdraw(u, amount)
      PROVE  Books'
  <2>1. usdc'[Self] = usdc[Self] - amount /\ keptFees' = keptFees
    BY <1>1, <1>3 DEF Withdraw, TakeOut, Transfer
  <2>2. balances'[u] = balances[u] - amount /\ balances[u] \in Nat
    BY <1>1, <1>3 DEF Withdraw, TakeOut
  <2>3. \A a \in Address \ {u} : balances'[a] = balances[a]
    BY <1>1, <1>3 DEF Withdraw, TakeOut
  <2> QED
    BY <1>1, <2>1, <2>2, <2>3, BooksFollow
<1>4. ASSUME NEW u \in Address, NEW charge \in Nat, PayFee(charge),
             balances' = [balances EXCEPT ![u] = @ - charge]
      PROVE  Books'
  <2>1. usdc'[Self] - keptFees' = usdc[Self] - keptFees - charge
    BY <1>4, PayFeeBooks
  <2>2. balances'[u] = balances[u] - charge /\ balances[u] \in Nat
    BY <1>1, <1>4
  <2>3. \A a \in Address \ {u} : balances'[a] = balances[a]
    BY <1>1, <1>4
  <2>4. usdc'[Self] - keptFees' = usdc[Self] - keptFees + balances'[u] - balances[u]
    BY <1>1, <2>1, <2>2
  <2> QED
    BY <2>3, <2>4, BooksFollow
<1>5. ASSUME NEW units \in 0..MaxGasUnits, PostOp(units)
      PROVE  Books'
  <2>1. Head(bundle).user \in Address
    <3>1. bundle # <<>> /\ bundle \in Seq(Operation)
      BY <1>5 DEF PostOp, Settle, NextOperation, TypeOK
    <3>2. Head(bundle) \in Operation
      BY <3>1
    <3> QED
      BY <3>2 DEF Operation
  <2>2. PICK charge : charge = Least(GasCost(units), balances[Head(bundle).user])
    OBVIOUS
  <2>3. charge \in Nat
    BY <1>1, <2>1, <2>2, GasCostIsNat DEF Least
  <2>4. PayFee(charge) /\ balances' = [balances EXCEPT ![Head(bundle).user] = @ - charge]
    BY <1>5, <2>2 DEF PostOp, Settle
  <2> QED
    BY <1>4, <2>1, <2>3, <2>4
<1>6. ASSUME UNCHANGED <<balances, usdc, keptFees>>
      PROVE  Books'
  BY <1>6 DEF Books
<1>7. ASSUME NEW caller \in Address, AnybodysCall(caller)
      PROVE  Books'
  <2>1. usdc[caller] \in Nat /\ balances[caller] \in Nat
    BY <1>1
  <2>2. CASE \E amount \in 1..usdc[caller] : Deposit(caller, amount)
    BY <1>2, <2>1, <2>2
  <2>3. CASE \E amount \in 1..balances[caller] : Withdraw(caller, amount)
    BY <1>3, <2>1, <2>3
  <2>4. CASE \E u \in Address, cost \in 1..MaxDeduction : DeductGas(caller, u, cost)
    <3>1. PICK u \in Address, cost \in 1..MaxDeduction : DeductGas(caller, u, cost)
      BY <2>4
    <3>2. cost \in Nat /\ PayFee(cost) /\ balances' = [balances EXCEPT ![u] = @ - cost]
      BY <3>1 DEF DeductGas, Deduct
    <3> QED
      BY <1>4, <3>2
  <2>5. CASE OwnerAction(caller)
    BY <1>6, <2>5 DEF OwnerAction, SetRelayer, TransferOwnership, SetFeeRecipient,
                      SetGasRate, SetPaused, AcceptOwnership
  <2> QED
    BY <1>7, <2>2, <2>3, <2>4, <2>5 DEF AnybodysCall
<1>8. CASE EntryPointCall
  BY <1>5, <1>6, <1>8 DEF EntryPointCall, ValidatePaymasterUserOp, PostOpReverts
<1> QED
  BY <1>6, <1>7, <1>8 DEF Next, vars

-----------------------------------------------------------------------------
(* Theorems. *)

\* Every step keeps the invariant.
LEMMA StepKeeps == IInv /\ [Next]_vars => IInv'
<1> SUFFICES ASSUME IInv, [Next]_vars
             PROVE  IInv'
  OBVIOUS
<1>1. ASSUME NEW caller \in Address, AnybodysCall(caller)
      PROVE  IInv'
  <2>1. usdc[caller] \in Nat /\ balances[caller] \in Nat
    BY DEF IInv, TypeOK
  <2>2. CASE \E amount \in 1..usdc[caller] : Deposit(caller, amount)
    BY <2>1, <2>2, DepositKeeps
  <2>3. CASE \E amount \in 1..balances[caller] : Withdraw(caller, amount)
    BY <2>1, <2>3, WithdrawKeeps
  <2>4. CASE \E u \in Address, cost \in 1..MaxDeduction : DeductGas(caller, u, cost)
    BY <2>4, DeductKeeps, PaymasterAssumption
  <2>5. CASE OwnerAction(caller)
    BY <2>5, OwnerKeeps
  <2> QED
    BY <1>1, <2>2, <2>3, <2>4, <2>5 DEF AnybodysCall
<1>2. CASE EntryPointCall
  BY <1>2, ValidateKeeps, PostOpKeeps, PostOpRevertsKeeps DEF EntryPointCall
<1>3. CASE UNCHANGED vars
  <2>1. BundleInv'
    BY <1>3, BundleUntouched DEF IInv, vars, entry
  <2> QED
    BY <1>3, <2>1 DEF IInv, TypeOK, ReservationsAreCovered, ChargesArePaid, vars, admin, entry
<1> QED
  BY <1>1, <1>2, <1>3 DEF Next

\* The invariant holds in every reachable state.
THEOREM Invariant == Spec => []IInv
<1>1. Init => IInv
  <2> SUFFICES ASSUME Init
               PROVE  IInv
    OBVIOUS
  <2>1. TypeOK
    BY PaymasterAssumption, EmptySeq DEF Init, TypeOK
  <2>2. Len(bundle) = 0 /\ bundle = <<>>
    BY DEF Init
  <2>3. ASSUME NEW u \in Address
        PROVE  \E rest : Backed(u, rest)
    <3>1. Backed(u, [i \in 1..(Len(bundle) + 1) |-> 0])
      BY <2>2, PaymasterAssumption DEF Init, Backed, Remaining
    <3> QED
      BY <3>1
  <2>4. BundleInv
    BY <2>2, <2>3, PaymasterAssumption DEF BundleInv
  <2> QED
    BY <2>1, <2>4 DEF Init, IInv, ReservationsAreCovered, ChargesArePaid
<1> QED
  BY <1>1, StepKeeps, PTL DEF Spec

\* Type correctness; in particular no charge makes a balance negative.
THEOREM TypeCorrect == Spec => []TypeOK
<1>1. IInv => TypeOK
  BY DEF IInv
<1> QED
  BY <1>1, Invariant, PTL

\* The books are right in every reachable state.
LEMMA BooksAreKept == Spec => [](TypeOK /\ Books)
<1>1. Init => Books
  <2> SUFFICES ASSUME Init
               PROVE  Books
    OBVIOUS
  <2>1. \A a \in Address : balances[a] = 0
    BY DEF Init
  <2>2. usdc[Self] - keptFees = 0
    BY PaymasterAssumption DEF Init
  <2> QED
    BY <2>1, <2>2, NothingIsZero, PaymasterAssumption DEF Books
<1>2. TypeOK /\ TypeOK' /\ Books /\ [Next]_vars => Books'
  BY BooksKept
<1> QED
  BY <1>1, <1>2, TypeCorrect, PTL DEF Spec

\* The contract's USDC is what it owes its depositors and the fees it paid to itself.
THEOREM DepositsHeld == Spec => []DepositsAreHeld
<1>1. Books => DepositsAreHeld
  BY AddsUpIsSum, PaymasterAssumption DEF Books, DepositsAreHeld
<1> QED
  BY <1>1, BooksAreKept, PTL

\* withdraw is never refused for want of USDC: whatever others took out before, the
\* contract holds the whole balance of whoever comes next.
THEOREM WithdrawalsCovered == Spec => [](\A u \in Address : balances[u] <= usdc[Self])
<1>1. TypeOK /\ Books => \A u \in Address : balances[u] <= usdc[Self]
  <2> SUFFICES ASSUME TypeOK, Books, NEW u \in Address
               PROVE  balances[u] <= usdc[Self]
    OBVIOUS
  <2>1. balances \in [Address -> Nat] /\ usdc[Self] \in Nat /\ keptFees \in Nat
    BY DEF TypeOK
  <2>2. balances[u] <= usdc[Self] - keptFees
    BY <2>1, EntryFits, PaymasterAssumption DEF Books
  <2>3. balances[u] \in Nat
    BY <2>1
  <2> QED
    BY <2>1, <2>2, <2>3
<1> QED
  BY <1>1, BooksAreKept, PTL

\* What is locked is reserved by a pending operation, or was reserved by one whose postOp
\* reverted.
THEOREM LocksAreExact == Spec => []LockedIsReserved
<1>1. IInv => LockedIsReserved
  <2> SUFFICES ASSUME IInv, NEW u \in Address
               PROVE  \E rest \in [1..(Len(bundle) + 1) -> 0..(MaxBundle * MaxDeduction)] :
                        Remaining(u, rest) /\ locked[u] = rest[1] + lost[u]
    BY DEF LockedIsReserved
  <2>1. PICK rest : Backed(u, rest)
    BY DEF IInv, BundleInv
  <2>2. Len(bundle) \in Nat /\ Len(bundle) <= MaxBundle
    BY LenProperties DEF IInv, TypeOK, BundleInv
  <2>3. ASSUME NEW i \in 1..(Len(bundle) + 1)
        PROVE  rest[i] \in 0..(MaxBundle * MaxDeduction)
    <3>1. rest[i] <= (Len(bundle) + 1 - i) * MaxDeduction /\ rest[i] \in Nat
      BY <2>1 DEF Backed
    <3>2. PICK n \in Nat : n = Len(bundle) + 1 - i /\ n <= MaxBundle
      BY <2>2, PaymasterAssumption
    <3>3. n * MaxDeduction <= MaxBundle * MaxDeduction
      BY <3>2, ProductsGrow, PaymasterAssumption
    <3>4. n * MaxDeduction \in Nat /\ MaxBundle * MaxDeduction \in Nat
      BY PaymasterAssumption
    <3> QED
      BY <3>1, <3>2, <3>3, <3>4
  <2>4. rest \in [1..(Len(bundle) + 1) -> 0..(MaxBundle * MaxDeduction)]
    BY <2>1, <2>3 DEF Backed
  <2> QED
    BY <2>1, <2>4 DEF Backed
<1> QED
  BY <1>1, Invariant, PTL

\* The class invariant of line 72, for accounts whose operations were not repriced.
THEOREM ReservationsCovered == Spec => []ReservationsAreCovered
<1>1. IInv => ReservationsAreCovered
  BY DEF IInv
<1> QED
  BY <1>1, Invariant, PTL

\* A validated operation can pay for its gas, unless the rate was raised after it.
THEOREM ChargesPaid == Spec => []ChargesArePaid
<1>1. IInv => ChargesArePaid
  BY DEF IInv
<1> QED
  BY <1>1, Invariant, PTL

\* Outside a settlement nothing reserved is taken; a settlement takes what its own account
\* reserved for it at most, unless the rate was raised.
THEOREM ChargesAreBounded == Spec => ChargesStayReserved
<1>1. IInv /\ [Next]_vars => [ChargeStep]_vars
  BY ChargesFollow
<1> QED
  BY <1>1, Invariant, PTL DEF Spec, ChargesStayReserved, ChargeStep
=============================================================================
