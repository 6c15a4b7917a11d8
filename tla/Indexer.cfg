\* Four events in a chain of five blocks, ignored logs in one of their blocks and in one
\* without events, caps of one and two blocks, two crashes, two lost answers.  The bounded
\* chain ends.
CHECK_DEADLOCK FALSE
SPECIFICATION LiveSpec
CONSTANTS
  transfer = transfer
  memo = memo
  burn = burn
  mint = mint
  Event = {transfer, memo, burn, mint}
  EventBlock <- Chain
  Cctp = {burn, mint}
  Noise = {3, 4}
  HistoryWindow = 1
  CatchUpCap = 1
  MaxBlocksPerTick = 2
  MaxBlock = 5
  MaxRestarts = 2
  MaxRewinds = 2
INVARIANTS
  TypeOK
  NothingMissed
  WorkerInRange
  TotalsCountRows
  CountedOncePerRewind
PROPERTIES
  EveryEventArrives
