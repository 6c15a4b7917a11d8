\* Two messages, two handlers, three different requests, fees from 0 to 2 and a fee
\* recipient that change at any time, no gas estimation, one restart.
SPECIFICATION Spec
CONSTANTS
  m1 = m1
  m2 = m2
  r1 = r1
  r2 = r2
  alice = alice
  Self = Self
  None = None
  Message = {m1, m2}
  Account = {alice, Self}
  WellFormed = {m1, m2}
  HookRecipient <- Recipients
  HookMaxFee <- Ceilings
  Amount <- Amounts
  Calls <- Asked
  MaxRelayFee = 2
  MaxDonated = 1
  Request = {r1, r2}
  MaxAcceptableFee = 2
  GasLimitOverride = TRUE
  MaxRestarts = 1
INVARIANTS
  TypeOK
  HoldsOnlyItsOwn
  PendingIsInFlight
  MarksAreRight
PROPERTIES
  HookHonoured
