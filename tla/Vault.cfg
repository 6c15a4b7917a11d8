\* Two accounts with two USDC each and three blocks; an APY of MaxApyBps doubles a
\* principal in one block, so that yield exceeds what the vault was given.
SPECIFICATION Spec
CONSTANTS
  alice = alice
  bob = bob
  None = None
  Address = {alice, bob}
  Deployer = alice
  MaxApyBps = 2
  YieldDivisor = 2
  InitialUsdc = 2
  MaxTime = 3
INVARIANTS
  TypeOK
  TotalIsPrincipal
  BooksBalance
  FundedYieldKeepsPrincipal
PROPERTIES
  EntitlementKept
  OnlyTimePays
