---------------------------- MODULE IndexerProofs ----------------------------
(***************************************************************************)
(* Proofs about Indexer, for any chain, caps, crashes and failures: behind *)
(* cursor and memory nothing is missed, totals count what is stored, and   *)
(* nothing is counted twice, and the cursor not moved back, without a      *)
(* cause.                                                                  *)
(*                                                                         *)
(* Counting needs to know what has been counted ahead of the worker:       *)
(* beyond the cursor, and beyond lastIndexedBlock while the worker runs,   *)
(* only what an earlier rewind accounts for.                               *)
(***************************************************************************)
EXTENDS Indexer, TLAPS

AheadOf(n) == \A e \in Event : EventBlock[e] > n => counted[e] <= rewinds

Running == pc \in {"idle", "work"}

AheadIsAccounted == AheadOf(cursor) /\ (Running => AheadOf(lastIndexedBlock))

\* The inductive invariant.
IInv ==
  /\ TypeOK
  /\ NeverAhead
  /\ NothingMissed
  /\ TotalsCountRows
  /\ CountedOncePerRewind
  /\ AheadIsAccounted
  /\ ~Running => lastIndexedBlock = 0

LEMMA InitialInvariant == Init => IInv
BY IndexerAssumption
   DEF Init, IInv, TypeOK, Block, NeverAhead, NothingMissed, CompleteUpTo, TotalsCountRows,
       CountedOncePerRewind, AheadIsAccounted, AheadOf, Running

\* A start that knows where to resume has recorded what it passes over.
LEMMA CatchUpKeeps ==
  ASSUME IInv, NEW resume \in Block, resume <= head + 1, CatchUpFrom(resume),
         \/ rewinds' = rewinds /\ (resume = cursor + 1 \/ cursor = 0)
         \/ rewinds' = rewinds + 1
  PROVE  IInv'
<1> USE IndexerAssumption
<1>1. /\ lastIndexedBlock' = resume - 1
      /\ missed' = missed \cup EventsBetween(cursor, resume)
      /\ UNCHANGED <<head, rows, cursor, counted, restarts>>
      /\ rewinds' \in Nat
  BY DEF CatchUpFrom, database, IInv, TypeOK
<1>2. pc' \in {"idle", "work"} /\ to' \in 0..MaxBlock /\ to' <= head'
  BY <1>1 DEF CatchUpFrom, Lesser, IInv, TypeOK, Block, NeverAhead
<1>3. TypeOK'
  BY <1>1, <1>2 DEF IInv, TypeOK, Block, EventsBetween
<1>4. NeverAhead'
  BY <1>1, <1>2 DEF IInv, TypeOK, Block, NeverAhead
<1>5. NothingMissed'
  BY <1>1 DEF IInv, TypeOK, Block, NothingMissed, CompleteUpTo, EventsBetween
<1>6. TotalsCountRows' /\ CountedOncePerRewind'
  BY <1>1 DEF IInv, TypeOK, TotalsCountRows, CountedOncePerRewind
<1>7. AheadIsAccounted'
  BY <1>1 DEF IInv, TypeOK, Block, AheadIsAccounted, AheadOf, CountedOncePerRewind
<1> QED
  BY <1>2, <1>3, <1>4, <1>5, <1>6, <1>7 DEF IInv, Running

LEMMA StartupKeeps == ASSUME IInv, Startup PROVE IInv'
<1> USE IndexerAssumption
<1>1. CASE Start
  BY <1>1 DEF Start, database, IInv, TypeOK, NeverAhead, NothingMissed, CompleteUpTo,
     TotalsCountRows, CountedOncePerRewind, AheadIsAccounted, AheadOf, Running
<1>2. CASE Backfill
  BY <1>2 DEF Backfill, IInv, TypeOK, NeverAhead, NothingMissed, CompleteUpTo,
     TotalsCountRows, CountedOncePerRewind, AheadIsAccounted, AheadOf, Running
<1>3. CASE ResumeFromCursor
  <2>1. CASE cursor < MaxBlock
    BY <1>3, <2>1, CatchUpKeeps DEF ResumeFromCursor, IInv, TypeOK, Block, NeverAhead
  <2>2. CASE cursor = MaxBlock
    BY <1>3, <2>2
    DEF ResumeFromCursor, CatchUpFrom, database, IInv, TypeOK, Block, NeverAhead,
        NothingMissed, CompleteUpTo, EventsBetween, TotalsCountRows, CountedOncePerRewind,
        AheadIsAccounted, AheadOf, Running
  <2> QED
    BY <2>1, <2>2 DEF IInv, TypeOK
<1>4. CASE ResumeFromLatest
  BY <1>4, CatchUpKeeps DEF ResumeFromLatest, IInv, TypeOK, Block
<1>5. CASE ResumeWithoutCursor
  BY <1>5, CatchUpKeeps DEF ResumeWithoutCursor, IInv, TypeOK, Block
<1>6. CASE ResumeFails
  BY <1>6 DEF ResumeFails, database, IInv, TypeOK, NeverAhead, NothingMissed, CompleteUpTo,
     TotalsCountRows, CountedOncePerRewind, AheadIsAccounted, AheadOf, Running
<1> QED
  BY <1>1, <1>2, <1>3, <1>4, <1>5, <1>6 DEF Startup

\* Going past the current block is right when each of its events is stored or recorded as
\* missed.
LEMMA AdvanceKeeps ==
  ASSUME IInv, InLoop, Advance, UNCHANGED <<head, rewinds, restarts>>,
         rows \subseteq rows', rows' \subseteq Event,
         missed \subseteq missed', missed' \subseteq Event,
         EventsAt(Current) \subseteq rows' \cup missed',
         counted' \in [Event -> Nat],
         cursor' = Current \/ (cursor' = cursor /\ counted' = counted),
         TotalsCountRows', CountedOncePerRewind',
         \A e \in Event : EventBlock[e] # Current => counted'[e] = counted[e]
  PROVE  IInv'
<1> USE IndexerAssumption
<1>1. /\ lastIndexedBlock' = lastIndexedBlock + 1
      /\ lastIndexedBlock < to
      /\ pc' \in {"idle", "work"}
      /\ to' \in {0, to}
  BY DEF InLoop, Advance, Current
<1>2. TypeOK'
  BY <1>1 DEF IInv, TypeOK, Block, NeverAhead, Current
<1>3. NeverAhead'
  BY <1>1 DEF IInv, TypeOK, Block, NeverAhead, Current
<1>4. CompleteUpTo(lastIndexedBlock)'
  BY <1>1 DEF IInv, TypeOK, Block, NothingMissed, CompleteUpTo, EventsAt, Current
<1>5. NothingMissed'
  BY <1>1, <1>4 DEF IInv, TypeOK, Block, NothingMissed, CompleteUpTo, Current
<1>6. AheadOf(lastIndexedBlock)
  BY DEF IInv, InLoop, AheadIsAccounted, Running
<1>7. AheadIsAccounted'
  BY <1>1, <1>6 DEF IInv, TypeOK, Block, AheadIsAccounted, AheadOf, Current
<1> QED
  BY <1>1, <1>2, <1>3, <1>5, <1>7 DEF IInv, Running

\* What a commit writes.
LEMMA CommitWrites ==
  ASSUME IInv, InLoop, NEW found \in SUBSET EventsAt(Current), Commit(found)
  PROVE  /\ rows \subseteq rows' /\ rows' \subseteq Event
         /\ missed \subseteq missed' /\ missed' \subseteq Event
         /\ EventsAt(Current) \subseteq rows' \cup missed'
         /\ cursor' = Current
         /\ counted' \in [Event -> Nat]
         /\ \A e \in Event : EventBlock[e] # Current => counted'[e] = counted[e]
         /\ \A e \in Event : EventBlock[e] = Current =>
              /\ counted'[e] <= counted[e] + 1
              /\ counted[e] <= rewinds
         /\ TotalsCountRows'
<1> USE IndexerAssumption
<1>1. /\ rows' = rows \cup found
      /\ cursor' = Current
      /\ counted' = [e \in Event |-> counted[e] + IF e \in found THEN 1 ELSE 0]
      /\ missed' = missed \cup (EventsAt(Current) \ found)
      /\ found \subseteq Event
  BY DEF Commit, EventsAt
<1>2. /\ rows \subseteq rows' /\ rows' \subseteq Event
      /\ missed \subseteq missed' /\ missed' \subseteq Event
      /\ EventsAt(Current) \subseteq rows' \cup missed'
  BY <1>1 DEF IInv, TypeOK, EventsAt
<1>3. counted' \in [Event -> Nat]
  BY <1>1 DEF IInv, TypeOK
<1>4. \A e \in Event : /\ e \in found => counted'[e] = counted[e] + 1
                       /\ e \notin found => counted'[e] = counted[e]
                       /\ counted'[e] <= counted[e] + 1
                       /\ e \in found => EventBlock[e] = Current
  BY <1>1 DEF IInv, TypeOK, EventsAt
<1>5. \A e \in Event : EventBlock[e] = Current => counted[e] <= rewinds
  BY DEF IInv, TypeOK, InLoop, AheadIsAccounted, AheadOf, Running, Current
<1>6. TotalsCountRows'
  BY <1>1, <1>4 DEF IInv, TypeOK, TotalsCountRows
<1> QED
  BY <1>1, <1>2, <1>3, <1>4, <1>5, <1>6

LEMMA StepKeeps == ASSUME IInv, Step PROVE IInv'
<1> USE IndexerAssumption
<1>1. CASE NothingThere
  BY <1>1, AdvanceKeeps
  DEF NothingThere, database, IInv, TypeOK, TotalsCountRows, CountedOncePerRewind
<1>2. CASE NotFound
  <2>1. Current \in Block
    BY <1>2 DEF NotFound, InLoop, Current, IInv, TypeOK, Block
  <2> QED
    BY <1>2, <2>1, AdvanceKeeps
    DEF NotFound, EventsAt, database, IInv, TypeOK, TotalsCountRows, CountedOncePerRewind
<1>3. CASE Stored
  <2> PICK found \in SUBSET EventsAt(Current) : Commit(found)
    BY <1>3 DEF Stored
  <2>1. CountedOncePerRewind'
    BY <1>3, CommitWrites DEF Stored, IInv, TypeOK, CountedOncePerRewind
  <2> QED
    BY <1>3, <2>1, CommitWrites, AdvanceKeeps DEF Stored, IInv, TypeOK
<1>4. CASE CommitLost
  <2> PICK found \in SUBSET EventsAt(Current) : Commit(found)
    BY <1>4 DEF CommitLost
  <2>1. /\ rewinds' = rewinds + 1 /\ pc' = "idle" /\ to' = 0
        /\ UNCHANGED <<head, lastIndexedBlock, restarts>>
        /\ lastIndexedBlock < to /\ to <= head
        /\ cursor' = lastIndexedBlock + 1
    BY <1>4, CommitWrites DEF CommitLost, InLoop, Current, IInv, NeverAhead
  <2>2. TypeOK' /\ NeverAhead'
    BY <1>4, <2>1, CommitWrites DEF CommitLost, IInv, TypeOK, Block, NeverAhead
  <2>3. NothingMissed'
    BY <1>4, <2>1, CommitWrites
    DEF CommitLost, IInv, TypeOK, Block, NothingMissed, CompleteUpTo, EventsAt, Current
  <2>4. \A e \in Event : counted'[e] <= rewinds'
    BY <1>4, <2>1, CommitWrites DEF CommitLost, IInv, TypeOK, CountedOncePerRewind
  <2>5. CountedOncePerRewind' /\ AheadIsAccounted'
    BY <2>1, <2>2, <2>4 DEF TypeOK, CountedOncePerRewind, AheadIsAccounted, AheadOf
  <2>6. TotalsCountRows'
    BY <1>4, CommitWrites DEF CommitLost
  <2> QED
    BY <2>1, <2>2, <2>3, <2>5, <2>6 DEF IInv, Running
<1>5. CASE LoopFails
  BY <1>5 DEF LoopFails, InLoop, database, IInv, TypeOK, Block, NeverAhead, NothingMissed,
     CompleteUpTo, TotalsCountRows, CountedOncePerRewind, AheadIsAccounted, AheadOf, Running
<1> QED
  BY <1>1, <1>2, <1>3, <1>4, <1>5 DEF Step

LEMMA NextKeeps == ASSUME IInv, [Next]_vars PROVE IInv'
<1> USE IndexerAssumption
<1>1. CASE Tick
  BY <1>1 DEF Tick, Lesser, database, IInv, TypeOK, Block, NeverAhead, NothingMissed,
     CompleteUpTo, TotalsCountRows, CountedOncePerRewind, AheadIsAccounted, AheadOf, Running
<1>2. CASE NewBlock
  BY <1>2 DEF NewBlock, database, IInv, TypeOK, Block, NeverAhead, NothingMissed,
     CompleteUpTo, TotalsCountRows, CountedOncePerRewind, AheadIsAccounted, AheadOf, Running
<1>3. CASE Crash
  BY <1>3 DEF Crash, database, IInv, TypeOK, Block, NeverAhead, NothingMissed,
     CompleteUpTo, TotalsCountRows, CountedOncePerRewind, AheadIsAccounted, AheadOf, Running
<1>4. CASE UNCHANGED vars
  BY <1>4 DEF vars, IInv, TypeOK, NeverAhead, NothingMissed, CompleteUpTo,
     TotalsCountRows, CountedOncePerRewind, AheadIsAccounted, AheadOf, Running
<1> QED
  BY <1>1, <1>2, <1>3, <1>4, StartupKeeps, StepKeeps DEF Next

-----------------------------------------------------------------------------
(* The cursor. *)

\* A worker that is not behind the cursor moves it on with what it commits next.
LEMMA WorkerStaysInRange ==
  ASSUME IInv, NeverBehind, [Next]_vars
  PROVE  NeverBehind' /\ (cursor' >= cursor \/ rewinds > 0)
<1> USE IndexerAssumption
<1>1. /\ cursor \in Nat /\ lastIndexedBlock \in Nat /\ rewinds \in Nat /\ head \in Nat
      /\ head >= 1
  BY DEF IInv, TypeOK, Block
<1>2. CASE Startup
  <2>1. cursor' = cursor
    BY <1>2 DEF Startup, Start, Backfill, ResumeFromCursor, ResumeFromLatest,
                ResumeWithoutCursor, ResumeFails, CatchUpFrom, database
  <2>2. CASE Start \/ Backfill
    BY <1>1, <2>1, <2>2 DEF Start, Backfill, NeverBehind, Running
  <2>3. CASE ResumeWithoutCursor \/ ResumeFails
    BY <1>1, <2>1, <2>3 DEF ResumeWithoutCursor, ResumeFails, NeverBehind
  <2>4. CASE ResumeFromCursor \/ ResumeFromLatest
    BY <1>1, <2>1, <2>4 DEF ResumeFromCursor, ResumeFromLatest, CatchUpFrom, NeverBehind
  <2> QED
    BY <1>1, <1>2, <2>1, <2>2, <2>3, <2>4 DEF Startup
<1>3. CASE Step
  <2>1. /\ pc = "work" /\ rewinds' \in {rewinds, rewinds + 1}
        /\ cursor' \in {cursor, lastIndexedBlock + 1}
    BY <1>3 DEF Step, NothingThere, NotFound, Stored, CommitLost, LoopFails, InLoop, Commit,
                Current, database
  <2>2. rewinds' = rewinds =>
          /\ lastIndexedBlock' \in {lastIndexedBlock, lastIndexedBlock + 1}
          /\ cursor' = cursor \/ lastIndexedBlock' = cursor'
    BY <1>1, <1>3 DEF Step, NothingThere, NotFound, Stored, CommitLost, LoopFails, Commit,
                      Advance, Current, database
  <2> QED
    BY <1>1, <2>1, <2>2 DEF NeverBehind, Running
<1>4. CASE Tick \/ NewBlock \/ Crash \/ UNCHANGED vars
  BY <1>1, <1>4 DEF Tick, NewBlock, Crash, vars, database, NeverBehind, Running
<1> QED
  BY <1>2, <1>3, <1>4 DEF Next

-----------------------------------------------------------------------------
(* Theorems. *)

\* The inductive invariant holds in every reachable state.
THEOREM Invariant == Spec => []IInv
BY InitialInvariant, NextKeeps, PTL DEF Spec

\* Type correctness of worker and database.
THEOREM TypeCorrect == Spec => []TypeOK
<1>1. IInv => TypeOK
  BY DEF IInv
<1> QED
  BY <1>1, Invariant, PTL

\* indexer.ts:449-483: behind cursor and lastIndexedBlock every event is stored, or it is one
\* that the nodes asked did not find or that a start without cursor began behind.
THEOREM NoGaps == Spec => []NothingMissed
<1>1. IInv => NothingMissed
  BY DEF IInv
<1> QED
  BY <1>1, Invariant, PTL

\* indexer.ts:269-287: the totals count exactly stored events, backfilled ones apart.
THEOREM TotalsAreOfRows == Spec => []TotalsCountRows
<1>1. IInv => TotalsCountRows
  BY DEF IInv
<1> QED
  BY <1>1, Invariant, PTL

\* indexer.ts:413 and 482: an event is counted once, and once more for every lost commit
\* and every start without a cursor, whatever crashes and retries there were.
THEOREM CountsAreBounded == Spec => []CountedOncePerRewind
<1>1. IInv => CountedOncePerRewind
  BY DEF IInv
<1> QED
  BY <1>1, Invariant, PTL

\* indexer.ts:449-455 and 478-479: the caps keep the worker behind the chain's head, and
\* until the first rewind a running worker is at the cursor or past it.
THEOREM StaysInRange == Spec => []WorkerInRange
<1>1. Init => NeverBehind
  BY DEF Init, NeverBehind
<1>2. IInv /\ NeverBehind /\ [Next]_vars => NeverBehind'
  BY WorkerStaysInRange
<1>3. IInv /\ NeverBehind => WorkerInRange
  BY DEF IInv, WorkerInRange
<1> QED
  BY <1>1, <1>2, <1>3, Invariant, PTL DEF Spec

\* indexer.ts:413: whatever crashes, retries and restarts there are, the cursor moves back
\* only after a commit was lost or a start did not know it.
THEOREM CursorNeverFallsBack == Spec => [][cursor' >= cursor \/ rewinds > 0]_vars
<1>1. IInv /\ NeverBehind /\ [Next]_vars => [cursor' >= cursor \/ rewinds > 0]_vars
  BY WorkerStaysInRange
<1> QED
  BY <1>1, Invariant, StaysInRange, PTL DEF Spec, WorkerInRange
=============================================================================
