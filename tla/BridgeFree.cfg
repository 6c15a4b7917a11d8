\* Any user: two tabs, two executions at once, two burns.
SPECIFICATION Spec
CONSTANTS
  b1 = b1
  b2 = b2
  Tab = {t1, t2}
  Flow = {f1, f2}
  Burn = {b1, b2}
  None = None
  Form <- PlainForms
  StorageReliable = FALSE
  Careful = FALSE
SYMMETRY Interchangeable
INVARIANTS
  TypeOK
  ReportedIsMinted
  SavedBurnIsReal
  BusyPageHasExecution
PROPERTIES
  OwnSessionKept
  ImplementsTransfer
