---------------------------- MODULE RelayService ----------------------------
(***************************************************************************)
(* POST /relay of the API server in front of the relay contract: handlers  *)
(* run concurrently and interleave at every await, two in-memory sets keep *)
(* a message from being submitted twice, and a restart empties them.       *)
(* Fee and pause state are read before the transaction is broadcast; when  *)
(* it is mined the contract decides by what holds then.                    *)
(***************************************************************************)

EXTENDS GasRelayerV2

CONSTANTS
  Request,            \* concurrent handlers
  None,
  MaxAcceptableFee,   \* MAX_ACCEPTABLE_FEE
  GasLimitOverride,   \* chain.gasLimitOverride is set: no gas estimation
  MaxRestarts         \* bound on server restarts

ASSUME ServiceAssumption ==
  /\ None \notin Message \cup Account
  /\ MaxAcceptableFee \in Nat
  /\ GasLimitOverride \in BOOLEAN
  /\ MaxRestarts \in Nat

VARIABLES
  usedMessages,
  pendingMessages,
  req,         \* the handlers
  mempool,     \* relay transactions that were broadcast and not mined; two equal
               \* ones are one, the second would revert
  failed,      \* history: messages with a transaction that was mined and reverted, or
               \* that left the mempool without being mined
  restarts

service == <<usedMessages, pendingMessages, req, mempool, failed, restarts>>
vars == <<relayFee, feeRecipient, paused, balance, attested, received, delivered, donated,
          kept, usedMessages, pendingMessages, req, mempool, failed, restarts>>

Handler == [pc : {"off", "read", "send", "sent"},
            msg : Message \cup {None}, to : Account \cup {None}, maxFee : Nat]

Idle == [pc |-> "off", msg |-> None, to |-> None, maxFee |-> 0]

TypeOK ==
  /\ ContractTypeOK
  /\ usedMessages \subseteq Message
  /\ pendingMessages \subseteq Message
  /\ req \in [Request -> Handler]
  /\ mempool \subseteq Calls
  /\ failed \subseteq Message
  /\ restarts \in Nat

Init ==
  /\ ContractInit
  /\ usedMessages = {}
  /\ pendingMessages = {}
  /\ req = [r \in Request |-> Idle]
  /\ mempool = {}
  /\ failed = {}
  /\ restarts = 0

\* pendingMessages.delete and the response; the caller's next request is a new one.
Release(r) ==
  /\ pendingMessages' = pendingMessages \ {req[r].msg}
  /\ req' = [req EXCEPT ![r] = Idle]

-----------------------------------------------------------------------------
(* POST /relay. *)

\* Mistake: the lock is taken only after the awaits of the fee check.
SubmitUnlocked(r, m, to, maxFee) ==
  /\ req[r].pc = "off"
  /\ maxFee <= MaxAcceptableFee
  /\ m \notin usedMessages \cup pendingMessages
  /\ req' = [req EXCEPT ![r] = [pc |-> "read", msg |-> m, to |-> to, maxFee |-> maxFee]]
  /\ UNCHANGED <<contract, usedMessages, pendingMessages, mempool, failed, restarts>>

\* Mistake: the duplicate check looks at the messages in flight only.
SubmitUnlessPending(r, m, to, maxFee) ==
  /\ req[r].pc = "off"
  /\ maxFee <= MaxAcceptableFee
  /\ m \notin pendingMessages
  /\ pendingMessages' = pendingMessages \cup {m}
  /\ req' = [req EXCEPT ![r] = [pc |-> "read", msg |-> m, to |-> to, maxFee |-> maxFee]]
  /\ UNCHANGED <<contract, usedMessages, mempool, failed, restarts>>

\* A well-formed request for a message that is neither relayed nor in flight.
Submit(r, m, to, maxFee) ==
  /\ req[r].pc = "off"
  /\ maxFee <= MaxAcceptableFee
  /\ m \notin usedMessages \cup pendingMessages
  /\ pendingMessages' = pendingMessages \cup {m}
  /\ req' = [req EXCEPT ![r] = [pc |-> "read", msg |-> m, to |-> to, maxFee |-> maxFee]]
  /\ UNCHANGED <<contract, usedMessages, mempool, failed, restarts>>

\* No RPC answers, the contract is paused, or its fee exceeds the caller's maxFee.
Refuse(r) ==
  /\ req[r].pc = "read"
  /\ Release(r)
  /\ UNCHANGED <<contract, usedMessages, mempool, failed, restarts>>

\* paused() and relayFee() allow the relay now.
CheckContract(r) ==
  /\ req[r].pc = "read"
  /\ ~paused
  /\ relayFee <= req[r].maxFee
  /\ req' = [req EXCEPT ![r].pc = "send"]
  /\ UNCHANGED <<contract, usedMessages, pendingMessages, mempool, failed, restarts>>

\* contract.relay, up to the broadcast; without an override a call that would revert
\* fails in the gas estimation.
Broadcast(r) ==
  LET call == [msg |-> req[r].msg, to |-> req[r].to, maxFee |-> req[r].maxFee]
  IN /\ req[r].pc = "send"
     /\ GasLimitOverride \/ Accepts(call.msg, call.to, call.maxFee)
     /\ mempool' = mempool \cup {call}
     /\ req' = [req EXCEPT ![r].pc = "sent"]
     /\ UNCHANGED <<contract, usedMessages, pendingMessages, failed, restarts>>

\* Mistake: the message is marked in a finally block, whether it was broadcast or not.
SendFailsMarking(r) ==
  /\ req[r].pc \in {"send", "sent"}
  /\ usedMessages' = usedMessages \cup {req[r].msg}
  /\ Release(r)
  /\ UNCHANGED <<contract, mempool, failed, restarts>>

\* contract.relay throws, before or after the broadcast: the message is not marked.
SendFails(r) ==
  /\ req[r].pc \in {"send", "sent"}
  /\ Release(r)
  /\ UNCHANGED <<contract, usedMessages, mempool, failed, restarts>>

\* The broadcast is acknowledged: the message is marked and the hash returned.
Reply(r) ==
  /\ req[r].pc = "sent"
  /\ usedMessages' = usedMessages \cup {req[r].msg}
  /\ Release(r)
  /\ UNCHANGED <<contract, mempool, failed, restarts>>

Restart ==
  /\ restarts < MaxRestarts
  /\ restarts' = restarts + 1
  /\ usedMessages' = {}
  /\ pendingMessages' = {}
  /\ req' = [r \in Request |-> Idle]
  /\ UNCHANGED <<contract, mempool, failed>>

-----------------------------------------------------------------------------
(* The destination chain. *)

\* A broadcast transaction is mined; the contract accepts it, or it reverts.
Mine(call) ==
  /\ call \in mempool
  /\ mempool' = mempool \ {call}
  /\ \/ /\ Relay(call.msg, call.to, call.maxFee)
        /\ UNCHANGED failed
     \/ /\ ~Accepts(call.msg, call.to, call.maxFee)
        /\ failed' = failed \cup {call.msg}
        /\ UNCHANGED contract
  /\ UNCHANGED <<usedMessages, pendingMessages, req, restarts>>

\* A broadcast transaction is dropped by the nodes, or replaced by one that another
\* handler, or gasrefuel.ts, sends from the same wallet with the same nonce and a higher fee.
Evict(call) ==
  /\ call \in mempool
  /\ mempool' = mempool \ {call}
  /\ failed' = failed \cup {call.msg}
  /\ UNCHANGED <<contract, usedMessages, pendingMessages, req, restarts>>

\* Anyone calls the contract directly; the owner; Circle.
Outside == ContractNext /\ UNCHANGED service

-----------------------------------------------------------------------------

Handle(r) ==
  \/ Refuse(r)
  \/ CheckContract(r)
  \/ Broadcast(r)
  \/ SendFails(r)
  \/ Reply(r)

Next ==
  \/ \E r \in Request, call \in Calls : Submit(r, call.msg, call.to, call.maxFee)
  \/ \E r \in Request : Handle(r)
  \/ Restart
  \/ \E call \in mempool : Mine(call) \/ Evict(call)
  \/ Outside

Spec == Init /\ [][Next]_vars

-----------------------------------------------------------------------------
(* Properties. *)

\* pendingMessages holds exactly the messages of the running handlers, one each, so
\* that no two handlers pay gas for one message at a time.
PendingIsInFlight ==
  /\ pendingMessages = {req[r].msg : r \in {q \in Request : req[q].pc # "off"}}
  /\ \A q, r \in Request : req[q].pc # "off" /\ req[q].msg = req[r].msg => q = r

\* A transaction for the message was broadcast, and it is mined, waiting or lost.
WasTried(m) ==
  \/ m \in received \cup failed
  \/ \E call \in mempool : call.msg = m

\* A message is refused as already relayed only if a transaction for it was broadcast.
UsedWasTried == \A m \in usedMessages : WasTried(m)

\* The relayer does not pay gas again for a message it knows to be broadcast: when a
\* message gets marked, no handler that passed the duplicate check before is left.
MarkedIsNotResent ==
  \A r \in Request : req[r].pc # "off" => req[r].msg \notin usedMessages

\* Marked is what was tried and is not being tried: no interleaving of handlers, failure or
\* restart marks a message too early or too late.
MarksAreRight == UsedWasTried /\ MarkedIsNotResent
=============================================================================
