\* As in Vault.cfg: the second of two withdrawals pays for the yield of the first.
SPECIFICATION Spec
CONSTANTS
  alice = alice
  bob = bob
  None = None
  Address = {alice, bob}
  Deployer = alice
  MaxApyBps = 2
  YieldDivisor = 2
  InitialUsdc = 2
  MaxTime = 3
PROPERTIES
  PrincipalReturned
