\* A careful user of one tab: what the recovery design is for.
SPECIFICATION LiveSpec
CONSTANTS
  b1 = b1
  b2 = b2
  Tab = {t1}
  Flow = {f1}
  Burn = {b1, b2}
  None = None
  Form <- MixedForms
  StorageReliable = TRUE
  Careful = TRUE
INVARIANTS
  SubmittedIsStored
  StoredBurnIsOffered
PROPERTIES
  SessionKept
  StoredBurnDelivered
