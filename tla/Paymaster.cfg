SPECIFICATION Spec
CONSTANTS
  alice = alice
  bob = bob
  Self = Self
  None = None
  Address = {alice, bob}
  Deployer = alice
  Staff = {bob}
  MaxDeduction = 2
  MaxGasRate = 2
  MaxGasUnits = 2
  MaxBundle = 2
  InitialUsdc <- Wallets
INVARIANTS
  TypeOK
  DepositsAreHeld
  LockedIsReserved
  ReservationsAreCovered
  ChargesArePaid
PROPERTIES
  ChargesStayReserved
