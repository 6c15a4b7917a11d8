\* Two deposits handled concurrently, ample balance, no restart.
CHECK_DEADLOCK FALSE
SPECIFICATION LiveSpec
CONSTANTS
  h1 = h1
  h2 = h2
  r1 = r1
  r2 = r2
  alice = alice
  bob = bob
  None = None
  Hash = {h1, h2}
  Request = {r1, r2}
  User = {alice, bob}
  Depositor <- TwoDepositors
  Payouts = {2}
  GasCost = 1
  Reserve = 1
  InitialBalance = 8
  MaxRestarts = 0
INVARIANTS
  RefusalIsRetryable
