------------------------------- MODULE Indexer -------------------------------
(***************************************************************************)
(* workers/indexer.ts: one worker copies the events of Arc into a database *)
(* block by block.  Rows, a cursor and totals are written in one           *)
(* transaction per block; lastIndexedBlock is in memory and lost in a      *)
(* crash.  The node and the database may fail at every await, and each of  *)
(* the requests for a block's logs may be answered by a node that does not *)
(* have the block yet, and then finds nothing.                             *)
(***************************************************************************)

EXTENDS Integers

CONSTANTS
  Event,             \* what one request for logs finds in one block and the indexer
                     \* stores: its transfers, its memos, its burns or its mints
  EventBlock,        \* the block of an event
  Cctp,              \* burns and mints: the events the backfill looks for
  Noise,             \* blocks where a request finds only logs that are not stored
                     \* (from = to)
  HistoryWindow,     \* CCTP_HISTORY_WINDOW
  CatchUpCap,        \* the 500 of the first catch-up
  MaxBlocksPerTick,  \* MAX_BLOCKS_PER_TICK
  MaxBlock,          \* bound on the chain's length
  MaxRestarts,       \* bound on crashes
  MaxRewinds         \* bound on lost commits and failing starts

Block == 1..MaxBlock

ASSUME IndexerAssumption ==
  /\ MaxBlock \in Nat \ {0}
  /\ EventBlock \in [Event -> Block]
  /\ Cctp \subseteq Event
  /\ Noise \subseteq Block
  /\ HistoryWindow \in Nat
  /\ CatchUpCap \in Nat
  /\ MaxBlocksPerTick \in Nat \ {0}
  /\ MaxRestarts \in Nat
  /\ MaxRewinds \in Nat

VARIABLES
  head,              \* the chain's latest block
  rows,              \* the event tables
  cursor,            \* indexer_state.last_indexed_block; 0 when there is no row
  counted,           \* per event: how often it is in the totals of indexer_state
  pc,                \* "off", "backfill", "resume", "idle" between ticks, "work" in a loop
  lastIndexedBlock,
  to,                \* last block of the running loop; 0 without one
  missed,            \* history: events the worker went past without storing them,
                     \* because a node did not find them or a start began behind them
  rewinds,           \* history: commits whose answer was lost, starts without cursor
  restarts

database == <<rows, cursor, counted>>
vars == <<head, rows, cursor, counted, pc, lastIndexedBlock, to, missed, rewinds, restarts>>

EventsAt(b) == {e \in Event : EventBlock[e] = b}

EventsBetween(a, b) == {e \in Event : EventBlock[e] \in (a + 1)..(b - 1)}

TypeOK ==
  /\ head \in Block
  /\ rows \subseteq Event
  /\ cursor \in 0..MaxBlock
  /\ counted \in [Event -> Nat]
  /\ pc \in {"off", "backfill", "resume", "idle", "work"}
  /\ lastIndexedBlock \in 0..MaxBlock
  /\ to \in 0..MaxBlock
  /\ missed \subseteq Event
  /\ rewinds \in Nat
  /\ restarts \in Nat

Init ==
  /\ head \in Block
  /\ rows = {}
  /\ cursor = 0
  /\ counted = [e \in Event |-> 0]
  /\ pc = "off"
  /\ lastIndexedBlock = 0
  /\ to = 0
  /\ missed = {}
  /\ rewinds = 0
  /\ restarts = 0

Lesser(a, b) == IF a <= b THEN a ELSE b

-----------------------------------------------------------------------------
(* startIndexer. *)

Start ==
  /\ pc = "off"
  /\ pc' = "backfill"
  /\ UNCHANGED <<head, database, lastIndexedBlock, to, missed, rewinds, restarts>>

\* backfillCctpHistory inserts what its requests find of the burns and mints of the last
\* blocks; it writes neither cursor nor totals, and its failure is not fatal.
Backfill ==
  /\ pc = "backfill"
  /\ pc' = "resume"
  /\ \E found \in SUBSET {e \in Cctp : EventBlock[e] \in (head - HistoryWindow)..head} :
       rows' = rows \cup found
  /\ UNCHANGED <<head, cursor, counted, lastIndexedBlock, to, missed, rewinds, restarts>>

\* Mistake: catch-up always takes its whole cap.
CatchUpUncapped(resumeBlock) ==
  /\ lastIndexedBlock' = resumeBlock - 1
  /\ pc' = "work"
  /\ to' = resumeBlock + CatchUpCap
  /\ missed' = missed \cup EventsBetween(cursor, resumeBlock)
  /\ UNCHANGED <<head, database, restarts>>

\* Catch-up from a resume block that is known.
CatchUpFrom(resumeBlock) ==
  /\ lastIndexedBlock' = resumeBlock - 1
  /\ IF resumeBlock <= head
     THEN /\ pc' = "work"
          /\ to' = resumeBlock + Lesser(head - resumeBlock, CatchUpCap)
     ELSE /\ pc' = "idle"
          /\ UNCHANGED to
  /\ missed' = missed \cup EventsBetween(cursor, resumeBlock)
  /\ UNCHANGED <<head, database, restarts>>

\* Mistake: catch-up resumes at the cursor's own block.
ResumeAtCursor ==
  /\ pc = "resume"
  /\ cursor > 0
  /\ CatchUpFrom(cursor)
  /\ UNCHANGED rewinds

\* Mistake: the cursor is only looked at to see whether there is one.
ResumeFromStart ==
  /\ pc = "resume"
  /\ cursor > 0
  /\ CatchUpFrom(1)
  /\ UNCHANGED rewinds

\* getResumeBlock reads the cursor.
ResumeFromCursor ==
  /\ pc = "resume"
  /\ cursor > 0
  /\ CatchUpFrom(cursor + 1)
  /\ UNCHANGED rewinds

\* There is no cursor yet: start at the latest block.
ResumeFromLatest ==
  /\ pc = "resume"
  /\ cursor = 0
  /\ CatchUpFrom(head)
  /\ UNCHANGED rewinds

\* The database does not answer: start at the latest block all the same.
ResumeWithoutCursor ==
  /\ pc = "resume"
  /\ cursor > 0
  /\ rewinds < MaxRewinds
  /\ rewinds' = rewinds + 1
  /\ CatchUpFrom(head)

\* The node does not answer: lastIndexedBlock keeps its initial value.
ResumeFails ==
  /\ pc = "resume"
  /\ rewinds < MaxRewinds
  /\ rewinds' = rewinds + 1
  /\ pc' = "idle"
  /\ UNCHANGED <<head, database, lastIndexedBlock, to, missed, restarts>>

\* Mistake: a tick asks for all its blocks whether they exist or not.
TickUncapped ==
  /\ pc = "idle"
  /\ head > lastIndexedBlock
  /\ pc' = "work"
  /\ to' = lastIndexedBlock + MaxBlocksPerTick
  /\ UNCHANGED <<head, database, lastIndexedBlock, missed, rewinds, restarts>>

\* The interval fires; isTicking keeps it from starting a second loop.
Tick ==
  /\ pc = "idle"
  /\ head > lastIndexedBlock
  /\ pc' = "work"
  /\ to' = Lesser(head, lastIndexedBlock + MaxBlocksPerTick)
  /\ UNCHANGED <<head, database, lastIndexedBlock, missed, rewinds, restarts>>

-----------------------------------------------------------------------------
(* processBlock, in the loops of catch-up and tick. *)

\* The b of the loop.
Current == lastIndexedBlock + 1

InLoop == pc = "work" /\ lastIndexedBlock < to

Advance ==
  /\ lastIndexedBlock' = Current
  /\ IF Current = to THEN pc' = "idle" /\ to' = 0 ELSE UNCHANGED <<pc, to>>

\* No logs: nothing is written, not even the cursor.
NothingThere ==
  /\ InLoop
  /\ EventsAt(Current) = {} /\ Current \notin Noise
  /\ Advance
  /\ UNCHANGED <<head, database, missed, rewinds, restarts>>

\* There are logs, but no request finds one, or the node that is asked for the block does
\* not have it: the block is passed over.
NotFound ==
  /\ InLoop
  /\ EventsAt(Current) # {} \/ Current \in Noise
  /\ Advance
  /\ missed' = missed \cup EventsAt(Current)
  /\ UNCHANGED <<head, database, rewinds, restarts>>

\* Mistake: on conflict the totals are replaced, not increased.
CommitReplacingTotals(found) ==
  /\ found # {} \/ Current \in Noise
  /\ rows' = rows \cup found
  /\ cursor' = Current
  /\ counted' = [e \in Event |-> IF e \in found THEN 1 ELSE 0]
  /\ missed' = missed \cup (EventsAt(Current) \ found)

\* The transaction with what the requests found of the block, one of them something:
\* rows with onConflictDoNothing, cursor and totals.
Commit(found) ==
  /\ found # {} \/ Current \in Noise
  /\ rows' = rows \cup found
  /\ cursor' = Current
  /\ counted' = [e \in Event |-> counted[e] + IF e \in found THEN 1 ELSE 0]
  /\ missed' = missed \cup (EventsAt(Current) \ found)

Stored ==
  /\ InLoop
  /\ \E found \in SUBSET EventsAt(Current) : Commit(found)
  /\ Advance
  /\ UNCHANGED <<head, rewinds, restarts>>

\* The transaction commits and its answer is lost.
CommitLost ==
  /\ InLoop
  /\ rewinds < MaxRewinds
  /\ \E found \in SUBSET EventsAt(Current) : Commit(found)
  /\ rewinds' = rewinds + 1
  /\ pc' = "idle"
  /\ to' = 0
  /\ UNCHANGED <<head, lastIndexedBlock, restarts>>

\* Mistake: the catch is inside the loop, which goes on with the next block.
LoopFailsOneBlock ==
  /\ InLoop
  /\ Advance
  /\ UNCHANGED <<head, database, missed, rewinds, restarts>>

\* Mistake: isTicking is reset after the loop and not in a finally.
LoopFailsTicking ==
  /\ InLoop
  /\ to' = lastIndexedBlock
  /\ UNCHANGED <<head, database, pc, lastIndexedBlock, missed, rewinds, restarts>>

\* getLogs, getBlock or the transaction throws: the loop ends, the next tick retries.
LoopFails ==
  /\ InLoop
  /\ pc' = "idle"
  /\ to' = 0
  /\ UNCHANGED <<head, database, lastIndexedBlock, missed, rewinds, restarts>>

-----------------------------------------------------------------------------
(* The chain and the process. *)

NewBlock ==
  /\ head < MaxBlock
  /\ head' = head + 1
  /\ UNCHANGED <<database, pc, lastIndexedBlock, to, missed, rewinds, restarts>>

Crash ==
  /\ pc # "off"
  /\ restarts < MaxRestarts
  /\ restarts' = restarts + 1
  /\ pc' = "off"
  /\ lastIndexedBlock' = 0
  /\ to' = 0
  /\ UNCHANGED <<head, database, missed, rewinds>>

-----------------------------------------------------------------------------

Startup ==
  \/ Start
  \/ Backfill
  \/ ResumeFromCursor
  \/ ResumeFromLatest
  \/ ResumeWithoutCursor
  \/ ResumeFails

Step == NothingThere \/ NotFound \/ Stored \/ CommitLost \/ LoopFails

Next == Startup \/ Tick \/ Step \/ NewBlock \/ Crash

Spec == Init /\ [][Next]_vars

\* The interval keeps firing and every await returns or throws; node and database do
\* not fail on a block every single time.
LiveSpec == Spec /\ WF_vars(Startup) /\ WF_vars(Tick) /\ WF_vars(Step)
                 /\ SF_vars(NothingThere) /\ SF_vars(Stored)

-----------------------------------------------------------------------------
(* Properties. *)

CompleteUpTo(n) ==
  \A e \in Event : EventBlock[e] <= n => e \in rows \cup missed

\* What cursor and memory claim to be indexed is stored, but for what the nodes asked did
\* not find and what a start without cursor began behind: no failure, crash, retry or
\* restart leaves any other gap behind them.
NothingMissed == CompleteUpTo(cursor) /\ CompleteUpTo(lastIndexedBlock)

\* The worker asks the node only for blocks that exist: of a later one it would be
\* told that there are no logs, and go past it.
NeverAhead == cursor <= head /\ lastIndexedBlock <= head /\ to <= head

\* The totals of indexer_state count every stored event, but for burns and mints that
\* only the backfill has seen, and no event that is not stored.
TotalsCountRows ==
  \A e \in Event : /\ counted[e] > 0 => e \in rows
                   /\ e \in rows \ Cctp => counted[e] > 0

\* Crashes and retries count nothing twice: only a commit whose answer is lost and a
\* start that does not know the cursor do, once each.
CountedOncePerRewind == \A e \in Event : counted[e] <= 1 + rewinds

\* What was indexed is not indexed again: no crash, retry or restart leaves the worker
\* behind the cursor; only a start that could not read where to resume, or a commit whose
\* answer was lost, does.
NeverBehind == pc \in {"idle", "work"} /\ rewinds = 0 => lastIndexedBlock >= cursor

\* Once it knows where to resume, the worker stays between the cursor and the head of
\* the chain, whatever fails and whenever it crashes.
WorkerInRange == NeverBehind /\ NeverAhead

\* Every event of the chain is finally stored, or asked for and not found, or behind a start
\* without cursor.
EveryEventArrives ==
  \A e \in Event : EventBlock[e] <= head ~> e \in rows \cup missed
=============================================================================
