\* Is a new transfer withheld while a submitted burn is unresolved?
SPECIFICATION Spec
CONSTANTS
  b1 = b1
  b2 = b2
  Tab = {t1}
  Flow = {f1}
  Burn = {b1, b2}
  None = None
  Form <- MixedForms
  StorageReliable = TRUE
  Careful = TRUE
INVARIANTS
  NoNewTransferOverOpenBurn
