\* Every hash may end up fulfilled or locked: then nothing is left to do.
CHECK_DEADLOCK FALSE
\* Two deposits, two concurrent handlers, two restarts; a payout of two units, or zero
\* when the price glitches, of a balance that covers two payouts and no third.
SPECIFICATION LiveSpec
CONSTANTS
  h1 = h1
  h2 = h2
  r1 = r1
  r2 = r2
  alice = alice
  bob = bob
  None = None
  Hash = {h1, h2}
  Request = {r1, r2}
  User = {alice, bob}
  Depositor <- TwoDepositors
  Payouts = {0, 2}
  GasCost = 1
  Reserve = 1
  InitialBalance = 8
  MaxRestarts = 2
INVARIANTS
  TypeOK
  NoDoublePay
  PendingIsInFlight
  OnlyDepositorsPaid
  PaidAnswerWasSent
PROPERTIES
  LockReleased
