------------------------- MODULE RefuelServiceProofs -------------------------
(***************************************************************************)
(* Proofs about RefuelService, for any number of deposits, handlers and    *)
(* restarts: a deposit is paid out at most once in one life of the server, *)
(* only to its depositor, and the locks are exact.                         *)
(*                                                                         *)
(* NoDoublePay is not inductive.  The strengthening follows a hash through *)
(* its handler: it is locked while the handler runs (PendingIsInFlight),   *)
(* unmarked before Accept and marked after it (Marked), and a payout that  *)
(* may still be broadcast has not been broadcast in this life (PayoutsLeft).*)
(***************************************************************************)
EXTENDS RefuelService, TLAPS

\* A handler that runs has a hash; one that does not is empty.
SlotsAreClean ==
  \A r \in Request : IF req[r].pc = "off" THEN req[r] = Idle
                     ELSE req[r].hash \in Hash /\ req[r].to \in User

\* Before Accept the hash is not marked as fulfilled; after it, it is.
Marked ==
  \A r \in Request :
    /\ req[r].pc = "receipt" => req[r].hash \notin used
    /\ req[r].pc \in {"send", "broadcast", "sent"} => req[r].hash \in used

\* What may still be broadcast in this life of the server has not been.
PayoutsLeft ==
  /\ \A h \in Hash : h \notin used => sends[h] <= restarts
  /\ \A r \in Request : req[r].pc \in {"send", "broadcast"} => sends[req[r].hash] <= restarts

\* After Accept the payout goes to the depositor of a real deposit; after Broadcast it
\* has been sent.
Verified ==
  \A r \in Request :
    /\ req[r].pc \in {"send", "broadcast", "sent"} =>
         /\ arc[req[r].hash] = "deposit"
         /\ req[r].to = Depositor[req[r].hash]
         /\ req[r].wei > 0
    /\ req[r].pc = "sent" => sends[req[r].hash] > 0

\* The inductive invariant.
IInv ==
  /\ TypeOK
  /\ SlotsAreClean
  /\ PendingIsInFlight
  /\ Marked
  /\ PayoutsLeft
  /\ NoDoublePay
  /\ Verified
  /\ OnlyDepositorsPaid
  /\ PaidAnswerWasSent

LEMMA InitialInvariant == Init => IInv
BY RefuelAssumption DEF Init, IInv, TypeOK, Handler, Idle, SlotsAreClean,
   PendingIsInFlight, Marked, PayoutsLeft, NoDoublePay, Verified, OnlyDepositorsPaid,
   PaidAnswerWasSent

\* Submit: the new handler finds its hash unlocked and unmarked.
LEMMA SubmitKeeps ==
  ASSUME IInv, NEW r \in Request, NEW h \in Hash, NEW u \in User, Submit(r, h, u)
  PROVE  IInv'
<1>1. TypeOK'
  BY RefuelAssumption DEF IInv, TypeOK, Handler, Idle, Submit, account
<1>2. SlotsAreClean'
  BY RefuelAssumption DEF IInv, SlotsAreClean, Submit
<1>3. PendingIsInFlight'
  BY RefuelAssumption DEF IInv, PendingIsInFlight, SlotsAreClean, TypeOK, Idle, Submit
<1>4. Marked'
  BY RefuelAssumption DEF IInv, Marked, Submit
<1>5. PayoutsLeft'
  BY RefuelAssumption DEF IInv, PayoutsLeft, Submit
<1>6. NoDoublePay'
  BY RefuelAssumption DEF IInv, NoDoublePay, Submit
<1>7. Verified'
  BY RefuelAssumption DEF IInv, Verified, Submit
<1>8. OnlyDepositorsPaid'
  BY RefuelAssumption DEF IInv, OnlyDepositorsPaid, Submit, account
<1>9. PaidAnswerWasSent'
  BY RefuelAssumption DEF IInv, PaidAnswerWasSent, Submit
<1> QED
  BY <1>1, <1>2, <1>3, <1>4, <1>5, <1>6, <1>7, <1>8, <1>9 DEF IInv

\* Reject: a rejected request unlocks an unmarked hash.
LEMMA RejectKeeps ==
  ASSUME IInv, NEW r \in Request, Reject(r)
  PROVE  IInv'
<1>1. TypeOK'
  BY RefuelAssumption DEF IInv, TypeOK, Handler, Idle, Reject, Answer, account
<1>2. SlotsAreClean'
  BY RefuelAssumption DEF IInv, SlotsAreClean, Idle, Reject, Answer
<1>3. PendingIsInFlight'
  BY RefuelAssumption DEF IInv, PendingIsInFlight, TypeOK, Idle, Reject, Answer
<1>4. Marked'
  BY RefuelAssumption DEF IInv, Marked, Idle, Reject, Answer
<1>5. PayoutsLeft'
  BY RefuelAssumption DEF IInv, PayoutsLeft, Idle, Reject, Answer
<1>6. NoDoublePay'
  BY RefuelAssumption DEF IInv, NoDoublePay, Reject
<1>7. Verified'
  BY RefuelAssumption DEF IInv, Verified, Idle, Reject, Answer
<1>8. OnlyDepositorsPaid'
  BY RefuelAssumption DEF IInv, OnlyDepositorsPaid, Reject, account
<1>9. PaidAnswerWasSent'
  BY RefuelAssumption DEF IInv, PaidAnswerWasSent, Reject, Answer
<1> QED
  BY <1>1, <1>2, <1>3, <1>4, <1>5, <1>6, <1>7, <1>8, <1>9 DEF IInv

\* Accept: the deposit is verified and marked.
LEMMA AcceptKeeps ==
  ASSUME IInv, NEW r \in Request, NEW wei \in Payouts, Accept(r, wei)
  PROVE  IInv'
<1>1. TypeOK'
  <2>1. wei \in Nat
    BY RefuelAssumption
  <2>2. [req[r] EXCEPT !.pc = "send", !.wei = wei] \in Handler
    BY <2>1 DEF IInv, TypeOK, Handler
  <2>3. req' \in [Request -> Handler]
    BY <2>2 DEF IInv, TypeOK, Accept
  <2> QED
    BY <2>3 DEF IInv, TypeOK, SlotsAreClean, Accept, account
<1>2. SlotsAreClean'
  BY RefuelAssumption DEF IInv, SlotsAreClean, TypeOK, Accept
<1>3. PendingIsInFlight'
  BY RefuelAssumption DEF IInv, PendingIsInFlight, TypeOK, Accept
<1>4. Marked'
  BY RefuelAssumption DEF IInv, Marked, PendingIsInFlight, TypeOK, Accept
<1>5. PayoutsLeft'
  BY RefuelAssumption DEF IInv, PayoutsLeft, Marked, SlotsAreClean, TypeOK, Accept
<1>6. NoDoublePay'
  BY RefuelAssumption DEF IInv, NoDoublePay, Accept
<1>7. Verified'
  BY RefuelAssumption DEF IInv, Verified, TypeOK, Accept
<1>8. OnlyDepositorsPaid'
  BY RefuelAssumption DEF IInv, OnlyDepositorsPaid, Accept, account
<1>9. PaidAnswerWasSent'
  BY RefuelAssumption DEF IInv, PaidAnswerWasSent, Accept
<1> QED
  BY <1>1, <1>2, <1>3, <1>4, <1>5, <1>6, <1>7, <1>8, <1>9 DEF IInv

\* ReadNonce: only the nonce of a marked payout is set.
LEMMA ReadNonceKeeps ==
  ASSUME IInv, NEW r \in Request, ReadNonce(r)
  PROVE  IInv'
<1>1. TypeOK'
  <2>1. PICK n \in NonceAnswers :
            req' = [req EXCEPT ![r].pc = "broadcast", ![r].nonce = n]
    BY DEF ReadNonce
  <2>2. n \in Nat
    BY DEF NonceAnswers, IInv, TypeOK
  <2>3. [req[r] EXCEPT !.pc = "broadcast", !.nonce = n] \in Handler
    BY <2>2 DEF IInv, TypeOK, Handler
  <2>4. req' \in [Request -> Handler]
    BY <2>1, <2>3 DEF IInv, TypeOK
  <2> QED
    BY <2>4 DEF IInv, TypeOK, ReadNonce, account
<1>2. SlotsAreClean'
  BY RefuelAssumption DEF IInv, SlotsAreClean, TypeOK, ReadNonce
<1>3. PendingIsInFlight'
  BY RefuelAssumption DEF IInv, PendingIsInFlight, TypeOK, ReadNonce
<1>4. Marked'
  BY RefuelAssumption DEF IInv, Marked, TypeOK, ReadNonce
<1>5. PayoutsLeft'
  BY RefuelAssumption DEF IInv, PayoutsLeft, TypeOK, ReadNonce
<1>6. NoDoublePay'
  BY RefuelAssumption DEF IInv, NoDoublePay, ReadNonce
<1>7. Verified'
  BY RefuelAssumption DEF IInv, Verified, TypeOK, ReadNonce
<1>8. OnlyDepositorsPaid'
  BY RefuelAssumption DEF IInv, OnlyDepositorsPaid, ReadNonce, account
<1>9. PaidAnswerWasSent'
  BY RefuelAssumption DEF IInv, PaidAnswerWasSent, ReadNonce
<1> QED
  BY <1>1, <1>2, <1>3, <1>4, <1>5, <1>6, <1>7, <1>8, <1>9 DEF IInv

\* Broadcast: the one payout left is spent.
LEMMA BroadcastKeeps ==
  ASSUME IInv, NEW r \in Request, Broadcast(r)
  PROVE  IInv'
<1>1. TypeOK'
  <2>1. /\ req[r] \in Handler
        /\ req[r].hash \in Hash
        /\ req[r].to \in User
    BY DEF IInv, TypeOK, SlotsAreClean, Broadcast
  <2>2. [nonce |-> req[r].nonce, hash |-> req[r].hash, to |-> req[r].to, wei |-> req[r].wei]
          \in Transaction
    BY <2>1 DEF Handler, Transaction
  <2>3. pool' \subseteq Transaction
    BY <2>2 DEF IInv, TypeOK, Broadcast
  <2>4. [req[r] EXCEPT !.pc = "sent"] \in Handler
    BY <2>1 DEF Handler
  <2>5. req' \in [Request -> Handler]
    BY <2>4 DEF IInv, TypeOK, Broadcast
  <2>6. sends' \in [Hash -> Nat]
    BY <2>1 DEF IInv, TypeOK, Broadcast
  <2> QED
    BY <2>3, <2>5, <2>6 DEF IInv, TypeOK, Broadcast
<1>2. SlotsAreClean'
  BY RefuelAssumption DEF IInv, SlotsAreClean, Broadcast
<1>3. PendingIsInFlight'
  BY RefuelAssumption DEF IInv, PendingIsInFlight, Broadcast
<1>4. Marked'
  BY RefuelAssumption DEF IInv, Marked, Broadcast
<1>5. PayoutsLeft'
  BY RefuelAssumption DEF IInv, PayoutsLeft, Marked, PendingIsInFlight, TypeOK,
     Broadcast
<1>6. NoDoublePay'
  BY RefuelAssumption DEF IInv, NoDoublePay, PayoutsLeft, TypeOK, Broadcast
<1>7. Verified'
  BY RefuelAssumption DEF IInv, Verified, Marked, TypeOK, Broadcast
<1>8. OnlyDepositorsPaid'
  BY RefuelAssumption DEF IInv, OnlyDepositorsPaid, Verified, Broadcast
<1>9. PaidAnswerWasSent'
  BY RefuelAssumption DEF IInv, PaidAnswerWasSent, TypeOK, Broadcast
<1> QED
  BY <1>1, <1>2, <1>3, <1>4, <1>5, <1>6, <1>7, <1>8, <1>9 DEF IInv

\* RefusedMatched: a hash is unmarked only before its broadcast.
LEMMA RefusedMatchedKeeps ==
  ASSUME IInv, NEW r \in Request, RefusedMatched(r)
  PROVE  IInv'
<1>1. TypeOK'
  BY RefuelAssumption DEF IInv, TypeOK, Handler, Idle, RefusedMatched, Answer, account
<1>2. SlotsAreClean'
  BY RefuelAssumption DEF IInv, SlotsAreClean, Idle, RefusedMatched, Answer
<1>3. PendingIsInFlight'
  BY RefuelAssumption DEF IInv, PendingIsInFlight, TypeOK, Idle, RefusedMatched, Answer
<1>4. Marked'
  BY RefuelAssumption DEF IInv, Marked, PendingIsInFlight, TypeOK, Idle, RefusedMatched,
     Answer
<1>5. PayoutsLeft'
  BY RefuelAssumption DEF IInv, PayoutsLeft, Idle, RefusedMatched, Answer
<1>6. NoDoublePay'
  BY RefuelAssumption DEF IInv, NoDoublePay, RefusedMatched
<1>7. Verified'
  BY RefuelAssumption DEF IInv, Verified, Idle, RefusedMatched, Answer
<1>8. OnlyDepositorsPaid'
  BY RefuelAssumption DEF IInv, OnlyDepositorsPaid, RefusedMatched, account
<1>9. PaidAnswerWasSent'
  BY RefuelAssumption DEF IInv, PaidAnswerWasSent, RefusedMatched, Answer
<1> QED
  BY <1>1, <1>2, <1>3, <1>4, <1>5, <1>6, <1>7, <1>8, <1>9 DEF IInv

\* RefusedUnmatched: a refused hash stays marked.
LEMMA RefusedUnmatchedKeeps ==
  ASSUME IInv, NEW r \in Request, RefusedUnmatched(r)
  PROVE  IInv'
<1>1. TypeOK'
  BY RefuelAssumption DEF IInv, TypeOK, Handler, Idle, RefusedUnmatched, Answer, account
<1>2. SlotsAreClean'
  BY RefuelAssumption DEF IInv, SlotsAreClean, Idle, RefusedUnmatched, Answer
<1>3. PendingIsInFlight'
  BY RefuelAssumption DEF IInv, PendingIsInFlight, TypeOK, Idle, RefusedUnmatched,
     Answer
<1>4. Marked'
  BY RefuelAssumption DEF IInv, Marked, Idle, RefusedUnmatched, Answer
<1>5. PayoutsLeft'
  BY RefuelAssumption DEF IInv, PayoutsLeft, Idle, RefusedUnmatched, Answer
<1>6. NoDoublePay'
  BY RefuelAssumption DEF IInv, NoDoublePay, RefusedUnmatched
<1>7. Verified'
  BY RefuelAssumption DEF IInv, Verified, Idle, RefusedUnmatched, Answer
<1>8. OnlyDepositorsPaid'
  BY RefuelAssumption DEF IInv, OnlyDepositorsPaid, RefusedUnmatched, account
<1>9. PaidAnswerWasSent'
  BY RefuelAssumption DEF IInv, PaidAnswerWasSent, RefusedUnmatched, Answer
<1> QED
  BY <1>1, <1>2, <1>3, <1>4, <1>5, <1>6, <1>7, <1>8, <1>9 DEF IInv

\* Fail: an ambiguous failure stays marked.
LEMMA FailKeeps ==
  ASSUME IInv, NEW r \in Request, Fail(r)
  PROVE  IInv'
<1>1. TypeOK'
  BY RefuelAssumption DEF IInv, TypeOK, Handler, Idle, Fail, Answer, account
<1>2. SlotsAreClean'
  BY RefuelAssumption DEF IInv, SlotsAreClean, Idle, Fail, Answer
<1>3. PendingIsInFlight'
  BY RefuelAssumption DEF IInv, PendingIsInFlight, TypeOK, Idle, Fail, Answer
<1>4. Marked'
  BY RefuelAssumption DEF IInv, Marked, Idle, Fail, Answer
<1>5. PayoutsLeft'
  BY RefuelAssumption DEF IInv, PayoutsLeft, Idle, Fail, Answer
<1>6. NoDoublePay'
  BY RefuelAssumption DEF IInv, NoDoublePay, Fail
<1>7. Verified'
  BY RefuelAssumption DEF IInv, Verified, Idle, Fail, Answer
<1>8. OnlyDepositorsPaid'
  BY RefuelAssumption DEF IInv, OnlyDepositorsPaid, Fail, account
<1>9. PaidAnswerWasSent'
  BY RefuelAssumption DEF IInv, PaidAnswerWasSent, Fail, Answer
<1> QED
  BY <1>1, <1>2, <1>3, <1>4, <1>5, <1>6, <1>7, <1>8, <1>9 DEF IInv

\* Reply: only a payout that was sent is acknowledged.
LEMMA ReplyKeeps ==
  ASSUME IInv, NEW r \in Request, Reply(r)
  PROVE  IInv'
<1>1. TypeOK'
  BY RefuelAssumption DEF IInv, TypeOK, Handler, Idle, Reply, Answer, account
<1>2. SlotsAreClean'
  BY RefuelAssumption DEF IInv, SlotsAreClean, Idle, Reply, Answer
<1>3. PendingIsInFlight'
  BY RefuelAssumption DEF IInv, PendingIsInFlight, TypeOK, Idle, Reply, Answer
<1>4. Marked'
  BY RefuelAssumption DEF IInv, Marked, Idle, Reply, Answer
<1>5. PayoutsLeft'
  BY RefuelAssumption DEF IInv, PayoutsLeft, Idle, Reply, Answer
<1>6. NoDoublePay'
  BY RefuelAssumption DEF IInv, NoDoublePay, Reply
<1>7. Verified'
  BY RefuelAssumption DEF IInv, Verified, Idle, Reply, Answer
<1>8. OnlyDepositorsPaid'
  BY RefuelAssumption DEF IInv, OnlyDepositorsPaid, Reply, account
<1>9. PaidAnswerWasSent'
  BY RefuelAssumption DEF IInv, PaidAnswerWasSent, Verified, Reply, Answer
<1> QED
  BY <1>1, <1>2, <1>3, <1>4, <1>5, <1>6, <1>7, <1>8, <1>9 DEF IInv

\* Restart: one more life, one more payout per hash.
LEMMA RestartKeeps ==
  ASSUME IInv, Restart
  PROVE  IInv'
<1>1. TypeOK'
  BY RefuelAssumption DEF IInv, TypeOK, Handler, Idle, Restart, account
<1>2. SlotsAreClean'
  BY RefuelAssumption DEF IInv, SlotsAreClean, Idle, Restart
<1>3. PendingIsInFlight'
  BY RefuelAssumption DEF IInv, PendingIsInFlight, Idle, Restart
<1>4. Marked'
  BY RefuelAssumption DEF IInv, Marked, Idle, Restart
<1>5. PayoutsLeft'
  BY DEF IInv, TypeOK, NoDoublePay, PayoutsLeft, Idle, Restart
<1>6. NoDoublePay'
  BY RefuelAssumption DEF IInv, NoDoublePay, TypeOK, Restart
<1>7. Verified'
  BY RefuelAssumption DEF IInv, Verified, Idle, Restart
<1>8. OnlyDepositorsPaid'
  BY RefuelAssumption DEF IInv, OnlyDepositorsPaid, Restart, account
<1>9. PaidAnswerWasSent'
  BY RefuelAssumption DEF IInv, PaidAnswerWasSent, Restart
<1> QED
  BY <1>1, <1>2, <1>3, <1>4, <1>5, <1>6, <1>7, <1>8, <1>9 DEF IInv

\* ArcSettles: a settled receipt does not change.
LEMMA ArcSettlesKeeps ==
  ASSUME IInv, NEW h \in Hash, ArcSettles(h)
  PROVE  IInv'
<1>1. TypeOK'
  BY RefuelAssumption DEF IInv, TypeOK, ArcSettles, account, server
<1>2. SlotsAreClean'
  BY RefuelAssumption DEF IInv, SlotsAreClean, ArcSettles, server
<1>3. PendingIsInFlight'
  BY RefuelAssumption DEF IInv, PendingIsInFlight, ArcSettles, server
<1>4. Marked'
  BY RefuelAssumption DEF IInv, Marked, ArcSettles, server
<1>5. PayoutsLeft'
  BY RefuelAssumption DEF IInv, PayoutsLeft, ArcSettles, server
<1>6. NoDoublePay'
  BY RefuelAssumption DEF IInv, NoDoublePay, ArcSettles
<1>7. Verified'
  BY RefuelAssumption DEF IInv, Verified, ArcSettles, server
<1>8. OnlyDepositorsPaid'
  BY RefuelAssumption DEF IInv, OnlyDepositorsPaid, ArcSettles, account
<1>9. PaidAnswerWasSent'
  BY RefuelAssumption DEF IInv, PaidAnswerWasSent, ArcSettles
<1> QED
  BY <1>1, <1>2, <1>3, <1>4, <1>5, <1>6, <1>7, <1>8, <1>9 DEF IInv

\* Mine: mining shrinks the pool.
LEMMA MineKeeps ==
  ASSUME IInv, NEW tx \in pool, Mine(tx)
  PROVE  IInv'
<1>1. TypeOK'
  BY RefuelAssumption DEF IInv, TypeOK, Transaction, Mine, server
<1>2. SlotsAreClean'
  BY RefuelAssumption DEF IInv, SlotsAreClean, Mine, server
<1>3. PendingIsInFlight'
  BY RefuelAssumption DEF IInv, PendingIsInFlight, Mine, server
<1>4. Marked'
  BY RefuelAssumption DEF IInv, Marked, Mine, server
<1>5. PayoutsLeft'
  BY RefuelAssumption DEF IInv, PayoutsLeft, Mine, server
<1>6. NoDoublePay'
  BY RefuelAssumption DEF IInv, NoDoublePay, Mine
<1>7. Verified'
  BY RefuelAssumption DEF IInv, Verified, Mine, server
<1>8. OnlyDepositorsPaid'
  BY RefuelAssumption DEF IInv, OnlyDepositorsPaid, Mine
<1>9. PaidAnswerWasSent'
  BY RefuelAssumption DEF IInv, PaidAnswerWasSent, Mine
<1> QED
  BY <1>1, <1>2, <1>3, <1>4, <1>5, <1>6, <1>7, <1>8, <1>9 DEF IInv

\* Drop: dropping shrinks the pool.
LEMMA DropKeeps ==
  ASSUME IInv, NEW tx \in pool, Drop(tx)
  PROVE  IInv'
<1>1. TypeOK'
  BY RefuelAssumption DEF IInv, TypeOK, Drop, server
<1>2. SlotsAreClean'
  BY RefuelAssumption DEF IInv, SlotsAreClean, Drop, server
<1>3. PendingIsInFlight'
  BY RefuelAssumption DEF IInv, PendingIsInFlight, Drop, server
<1>4. Marked'
  BY RefuelAssumption DEF IInv, Marked, Drop, server
<1>5. PayoutsLeft'
  BY RefuelAssumption DEF IInv, PayoutsLeft, Drop, server
<1>6. NoDoublePay'
  BY RefuelAssumption DEF IInv, NoDoublePay, Drop
<1>7. Verified'
  BY RefuelAssumption DEF IInv, Verified, Drop, server
<1>8. OnlyDepositorsPaid'
  BY RefuelAssumption DEF IInv, OnlyDepositorsPaid, Drop
<1>9. PaidAnswerWasSent'
  BY RefuelAssumption DEF IInv, PaidAnswerWasSent, Drop
<1> QED
  BY <1>1, <1>2, <1>3, <1>4, <1>5, <1>6, <1>7, <1>8, <1>9 DEF IInv

\* Stutter: nothing changes.
LEMMA StutterKeeps ==
  ASSUME IInv, UNCHANGED vars
  PROVE  IInv'
BY DEF IInv, vars, TypeOK, SlotsAreClean, PendingIsInFlight, Marked, PayoutsLeft,
   NoDoublePay, Verified, OnlyDepositorsPaid, PaidAnswerWasSent

-----------------------------------------------------------------------------
\* Every step of the service and of the chains preserves the invariant.
LEMMA StepKeeps == IInv /\ [Next]_vars => IInv'
<1> SUFFICES ASSUME IInv, [Next]_vars
             PROVE  IInv'
  OBVIOUS
<1>1. CASE \E r \in Request, h \in Hash, u \in User : Submit(r, h, u)
  BY <1>1, SubmitKeeps
<1>2. CASE \E r \in Request : Handle(r)
  <2> PICK r \in Request : Handle(r)
    BY <1>2
  <2> QED
    BY RejectKeeps, AcceptKeeps, ReadNonceKeeps, BroadcastKeeps, RefusedMatchedKeeps,
       RefusedUnmatchedKeeps, FailKeeps, ReplyKeeps DEF Handle
<1>3. CASE Restart
  BY <1>3, RestartKeeps
<1>4. CASE \E h \in Hash : ArcSettles(h)
  BY <1>4, ArcSettlesKeeps
<1>5. CASE \E tx \in pool : Mine(tx) \/ Drop(tx)
  BY <1>5, MineKeeps, DropKeeps
<1>6. CASE UNCHANGED vars
  BY <1>6, StutterKeeps
<1> QED
  BY <1>1, <1>2, <1>3, <1>4, <1>5, <1>6 DEF Next

\* The inductive invariant holds in every reachable state.
THEOREM Invariant == Spec => []IInv
<1> QED
  BY InitialInvariant, StepKeeps, PTL DEF Spec

\* Type correctness of the service, its account and the receipts.
THEOREM TypeCorrect == Spec => []TypeOK
<1>1. IInv => TypeOK
  BY DEF IInv
<1> QED
  BY <1>1, Invariant, PTL

\* The two-set pattern of gasrefuel.ts: a deposit is paid out at most once in one life
\* of the server, however requests, failures and restarts interleave.
THEOREM PaidOncePerLife == Spec => []NoDoublePay
<1>1. IInv => NoDoublePay
  BY DEF IInv
<1> QED
  BY <1>1, Invariant, PTL

\* pendingArcTxHashes is exactly the set of hashes in flight, each with one handler.
THEOREM LocksAreExact == Spec => []PendingIsInFlight
<1>1. IInv => PendingIsInFlight
  BY DEF IInv
<1> QED
  BY <1>1, Invariant, PTL

\* Whatever is broadcast pays the depositor of a deposit, and more than nothing.
THEOREM PayoutsAreEarned == Spec => []OnlyDepositorsPaid
<1>1. IInv => OnlyDepositorsPaid
  BY DEF IInv
<1> QED
  BY <1>1, Invariant, PTL

\* No caller is told of a payout that was never broadcast.
THEOREM AnswersAreTrue == Spec => []PaidAnswerWasSent
<1>1. IInv => PaidAnswerWasSent
  BY DEF IInv
<1> QED
  BY <1>1, Invariant, PTL
=============================================================================
