---------------------------- MODULE RefuelService ----------------------------
(***************************************************************************)
(* The gas refuel service: a depositor sends USDC to the relayer on Arc    *)
(* and POSTs the transaction hash; the relayer checks the deposit and pays *)
(* native gas from its own account on a destination chain.  Handlers run   *)
(* concurrently and interleave at every await.  Replay protection is two   *)
(* in-memory sets that a restart empties; the destination account, its     *)
(* nonce and its pending transactions outlive the process.                 *)
(*                                                                         *)
(* A hash, whatever its letter case, is an element of Hash.  Native        *)
(* amounts are counted in units of GAS_RESERVE_WEI.                        *)
(***************************************************************************)

EXTENDS Integers

CONSTANTS
  Hash,          \* Arc transaction hashes
  Request,       \* concurrent POST /gasrefuel/submit handlers
  User,          \* addresses that deposit or ask for a payout
  Depositor,     \* who sent the USDC of a transaction
  None,
  Payouts,       \* what calcNativeWei may return as prices move (0 included)
  GasCost,       \* native cost of one transfer
  Reserve,       \* GAS_RESERVE_WEI
  InitialBalance,
  MaxRestarts    \* bound on server restarts

ASSUME RefuelAssumption ==
  /\ Depositor \in [Hash -> User]
  /\ None \notin Hash
  /\ Payouts \subseteq Nat
  /\ GasCost \in Nat
  /\ Reserve \in Nat
  /\ InitialBalance \in Nat
  /\ MaxRestarts \in Nat

VARIABLES
  used,       \* usedArcTxHashes
  pending,    \* pendingArcTxHashes
  req,        \* the handlers
  arc,        \* per hash: what the Arc receipt shows
  nonce,      \* destination account: next nonce to be mined
  pool,       \* destination account: pending transactions
  balance,    \* destination account: confirmed native balance
  sends,      \* history: payouts broadcast per hash
  answer,     \* history: the last answer given for a hash
  restarts

server == <<used, pending, req>>
account == <<nonce, pool, balance>>
vars == <<used, pending, req, arc, nonce, pool, balance, sends, answer, restarts>>

Handler == [pc : {"off", "receipt", "send", "broadcast", "sent"},
            hash : Hash \cup {None}, to : User \cup {None}, wei : Nat, nonce : Nat]

Transaction == [nonce : Nat, hash : Hash, to : User, wei : Nat]

Idle == [pc |-> "off", hash |-> None, to |-> None, wei |-> 0, nonce |-> 0]

TypeOK ==
  /\ used \subseteq Hash
  /\ pending \subseteq Hash
  /\ req \in [Request -> Handler]
  /\ arc \in [Hash -> {"absent", "deposit", "other"}]
  /\ nonce \in Nat
  /\ pool \subseteq Transaction
  /\ balance \in Nat
  /\ sends \in [Hash -> Nat]
  /\ answer \in [Hash -> {"nothing", "paid", "refused", "failed"}]
  /\ restarts \in Nat

Init ==
  /\ used = {}
  /\ pending = {}
  /\ req = [r \in Request |-> Idle]
  /\ arc = [h \in Hash |-> "absent"]
  /\ nonce = 0
  /\ pool = {}
  /\ balance = InitialBalance
  /\ sends = [h \in Hash |-> 0]
  /\ answer = [h \in Hash |-> "nothing"]
  /\ restarts = 0

-----------------------------------------------------------------------------
(* Helpers. *)

Occupied(n) == \E tx \in pool : tx.nonce = n

\* eth_getTransactionCount: the node counts what it knows of the account's pending
\* transactions, from none of them to all without a gap.
NonceAnswers ==
  {n \in {nonce} \cup {tx.nonce + 1 : tx \in pool} :
     n >= nonce /\ \A k \in nonce..(n - 1) : Occupied(k)}

\* The response is written and finally releases the in-flight lock.
Answer(r, text) ==
  /\ answer' = [answer EXCEPT ![req[r].hash] = text]
  /\ pending' = pending \ {req[r].hash}
  /\ req' = [req EXCEPT ![r] = Idle]

-----------------------------------------------------------------------------
(* POST /gasrefuel/submit. *)

\* Mistake: the duplicate check looks at the fulfilled hashes only.
SubmitUnlessUsed(r, h, u) ==
  /\ req[r].pc = "off"
  /\ h \notin used
  /\ pending' = pending \cup {h}
  /\ req' = [req EXCEPT ![r] = [Idle EXCEPT !.pc = "receipt", !.hash = h, !.to = u]]
  /\ answer' = [answer EXCEPT ![h] = "nothing"]
  /\ UNCHANGED <<used, arc, account, sends, restarts>>

\* A well-formed request; a duplicate is answered 409 and changes nothing.
Submit(r, h, u) ==
  /\ req[r].pc = "off"
  /\ h \notin used \cup pending
  /\ pending' = pending \cup {h}
  /\ req' = [req EXCEPT ![r] = [Idle EXCEPT !.pc = "receipt", !.hash = h, !.to = u]]
  /\ answer' = [answer EXCEPT ![h] = "nothing"]
  /\ UNCHANGED <<used, arc, account, sends, restarts>>

\* Mistake: the lock is released in the catch block instead of in finally.
RejectKeepingLock(r) ==
  /\ req[r].pc = "receipt"
  /\ req' = [req EXCEPT ![r] = Idle]
  /\ answer' = [answer EXCEPT ![req[r].hash] = "failed"]
  /\ UNCHANGED <<used, pending, arc, account, sends, restarts>>

\* Every early return and every error before the hash is marked: no receipt yet,
\* reverted, not a deposit, someone else's, out of bounds, a zero payout, too little
\* liquidity, an RPC that times out.
Reject(r) ==
  /\ req[r].pc = "receipt"
  /\ Answer(r, "failed")
  /\ UNCHANGED <<used, arc, account, sends, restarts>>

\* Mistake: anyone may claim the payout of a deposit.
AcceptForAnyone(r, wei) ==
  /\ req[r].pc = "receipt"
  /\ arc[req[r].hash] = "deposit"
  /\ wei # 0
  /\ balance >= wei + Reserve
  /\ used' = used \cup {req[r].hash}
  /\ req' = [req EXCEPT ![r].pc = "send", ![r].wei = wei]
  /\ UNCHANGED <<pending, arc, account, sends, answer, restarts>>

\* The receipt shows a deposit by the recipient; the payout is priced, the confirmed
\* balance (pending payouts are not subtracted) covers it, and the hash is marked.
Accept(r, wei) ==
  /\ req[r].pc = "receipt"
  /\ arc[req[r].hash] = "deposit"
  /\ req[r].to = Depositor[req[r].hash]
  /\ wei # 0
  /\ balance >= wei + Reserve
  /\ used' = used \cup {req[r].hash}
  /\ req' = [req EXCEPT ![r].pc = "send", ![r].wei = wei]
  /\ UNCHANGED <<pending, arc, account, sends, answer, restarts>>

\* Mistake: the nonce of the last transaction instead of the next one.
ReadLastNonce(r) ==
  /\ req[r].pc = "send"
  /\ \E n \in NonceAnswers :
       req' = [req EXCEPT ![r].pc = "broadcast", ![r].nonce = n - 1]
  /\ UNCHANGED <<used, pending, arc, account, sends, answer, restarts>>

\* sendTransaction, first half: the transaction is populated and signed.
ReadNonce(r) ==
  /\ req[r].pc = "send"
  /\ \E n \in NonceAnswers : req' = [req EXCEPT ![r].pc = "broadcast", ![r].nonce = n]
  /\ UNCHANGED <<used, pending, arc, account, sends, answer, restarts>>

\* sendTransaction, second half: the node takes the transaction.  When its nonce is
\* taken, a ten per cent higher fee evicts the payout that had it.
Broadcast(r) ==
  LET h == req[r].hash
      n == req[r].nonce
  IN /\ req[r].pc = "broadcast"
     /\ n >= nonce
     /\ balance >= req[r].wei + GasCost
     /\ pool' = {tx \in pool : tx.nonce # n}
                  \cup {[nonce |-> n, hash |-> h, to |-> req[r].to, wei |-> req[r].wei]}
     /\ sends' = [sends EXCEPT ![h] = @ + 1]
     /\ req' = [req EXCEPT ![r].pc = "sent"]
     /\ UNCHANGED <<used, pending, arc, nonce, balance, answer, restarts>>

\* The node refuses with "nonce too low" or "insufficient funds", here or while the
\* gas is estimated: isDefinitelyPreBroadcast, the hash is released.
RefusedMatched(r) ==
  /\ \/ req[r].pc = "broadcast" /\ req[r].nonce < nonce
     \/ req[r].pc \in {"send", "broadcast"} /\ balance < req[r].wei + GasCost
  /\ used' = used \ {req[r].hash}
  /\ Answer(r, "refused")
  /\ UNCHANGED <<arc, account, sends, restarts>>

\* The node refuses with "replacement transaction underpriced": another payout has
\* the nonce.  The message is not on the list; the hash stays marked.
RefusedUnmatched(r) ==
  /\ req[r].pc = "broadcast"
  /\ Occupied(req[r].nonce)
  /\ Answer(r, "refused")
  /\ UNCHANGED <<used, arc, account, sends, restarts>>

\* Mistake: every failure of sendTransaction releases the hash.
FailReleasing(r) ==
  /\ req[r].pc \in {"send", "broadcast", "sent"}
  /\ used' = used \ {req[r].hash}
  /\ Answer(r, "failed")
  /\ UNCHANGED <<arc, account, sends, restarts>>

\* The connection breaks, before or after the broadcast: nobody knows; stays marked.
Fail(r) ==
  /\ req[r].pc \in {"send", "broadcast", "sent"}
  /\ Answer(r, "failed")
  /\ UNCHANGED <<used, arc, account, sends, restarts>>

\* Mistake: the handler answers before sendTransaction has resolved.
ReplyEarly(r) ==
  /\ req[r].pc = "send"
  /\ Answer(r, "paid")
  /\ UNCHANGED <<used, arc, account, sends, restarts>>

\* The broadcast is acknowledged: 200 with the transaction hash.
Reply(r) ==
  /\ req[r].pc = "sent"
  /\ Answer(r, "paid")
  /\ UNCHANGED <<used, arc, account, sends, restarts>>

\* The process restarts: the sets are empty again, running handlers are gone.
Restart ==
  /\ restarts < MaxRestarts
  /\ restarts' = restarts + 1
  /\ used' = {}
  /\ pending' = {}
  /\ req' = [r \in Request |-> Idle]
  /\ UNCHANGED <<arc, account, sends, answer>>

-----------------------------------------------------------------------------
(* The chains (outside the repository). *)

ArcSettles(h) ==
  /\ arc[h] = "absent"
  /\ \E found \in {"deposit", "other"} : arc' = [arc EXCEPT ![h] = found]
  /\ UNCHANGED <<server, account, sends, answer, restarts>>

Mine(tx) ==
  /\ tx \in pool
  /\ tx.nonce = nonce
  /\ balance >= tx.wei + GasCost
  /\ nonce' = nonce + 1
  /\ pool' = {other \in pool : other.nonce # nonce}
  /\ balance' = balance - tx.wei - GasCost
  /\ UNCHANGED <<server, arc, sends, answer, restarts>>

\* The mempool forgets a transaction.
Drop(tx) ==
  /\ tx \in pool
  /\ pool' = pool \ {tx}
  /\ UNCHANGED <<server, arc, nonce, balance, sends, answer, restarts>>

-----------------------------------------------------------------------------

Handle(r) ==
  \/ Reject(r)
  \/ \E wei \in Payouts : Accept(r, wei)
  \/ ReadNonce(r)
  \/ Broadcast(r)
  \/ RefusedMatched(r)
  \/ RefusedUnmatched(r)
  \/ Fail(r)
  \/ Reply(r)

Next ==
  \/ \E r \in Request, h \in Hash, u \in User : Submit(r, h, u)
  \/ \E r \in Request : Handle(r)
  \/ Restart
  \/ \E h \in Hash : ArcSettles(h)
  \/ \E tx \in pool : Mine(tx) \/ Drop(tx)

Spec == Init /\ [][Next]_vars

\* Every await of a handler returns or throws, so a handler goes on to its end.
LiveSpec == Spec /\ \A r \in Request : WF_vars(Handle(r))

-----------------------------------------------------------------------------
(* Properties. *)

\* The two-set pattern and the classification of errors: in one life of the server a
\* deposit is paid out at most once, whatever fails and whoever repeats the request.
NoDoublePay == \A h \in Hash : sends[h] <= 1 + restarts

\* pendingArcTxHashes holds exactly the hashes of the running handlers, and no hash is
\* handled twice at a time.
PendingIsInFlight ==
  /\ pending = {req[r].hash : r \in {q \in Request : req[q].pc # "off"}}
  /\ \A q, r \in Request : req[q].pc # "off" /\ req[q].hash = req[r].hash => q = r

\* Anti-front-run check: whatever is on its way to a payout belongs to a deposit of
\* the recipient, and is not worthless.
OnlyDepositorsPaid ==
  \A tx \in pool : arc[tx.hash] = "deposit" /\ tx.to = Depositor[tx.hash] /\ tx.wei > 0

\* A caller who is told of a payout can find its transaction: it was broadcast.
PaidAnswerWasSent == \A h \in Hash : answer[h] = "paid" => sends[h] > 0

\* finally: a hash that is in flight does not stay locked.
LockReleased == \A h \in Hash : h \in pending ~> h \notin pending

(* A claim of a comment that the code does not keep. *)

\* gasrefuel.ts:473: "Pre-broadcast failures (insufficient funds, nonce clash, invalid
\* params) are safe to retry": a refused payout's hash is not left marked as fulfilled.
RefusalIsRetryable == \A h \in Hash : answer[h] = "refused" => h \notin used
=============================================================================
