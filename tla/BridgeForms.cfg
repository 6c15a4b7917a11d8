\* Does a stored session survive a reload for every accepted input?
SPECIFICATION Spec
CONSTANTS
  b1 = b1
  b2 = b2
  Tab = {t1}
  Flow = {f1}
  Burn = {b1, b2}
  None = None
  Form <- DottedForms
  StorageReliable = TRUE
  Careful = TRUE
PROPERTIES
  EverySessionKept
