------------------------- MODULE RelayServiceProofs -------------------------
(***************************************************************************)
(* Proofs about RelayService and GasRelayerV2, for any messages, fees,     *)
(* handlers and restarts: whoever burned with a hook gets what the hook    *)
(* promises, the contract holds nobody else's USDC, and the server's locks *)
(* are exact.                                                              *)
(*                                                                         *)
(* "At most once" needs that every delivered message's nonce is used, the  *)
(* books need that a payout never exceeds what was received, and a marked  *)
(* message was broadcast because its handler's was before it was marked.   *)
(***************************************************************************)
EXTENDS RelayService, TLAPS

\* A delivered message's nonce is used: it cannot be delivered again.
DeliveredIsReceived == \A d \in delivered : d.msg \in received

\* A handler that runs carries a call that somebody made; one that does not is empty.
SlotsAreClean ==
  \A r \in Request :
    IF req[r].pc = "off" THEN req[r] = Idle
    ELSE [msg |-> req[r].msg, to |-> req[r].to, maxFee |-> req[r].maxFee] \in Calls

ContractInv == ContractTypeOK /\ HoldsOnlyItsOwn /\ DeliveredIsReceived

ServiceTypeOK ==
  /\ usedMessages \subseteq Message
  /\ pendingMessages \subseteq Message
  /\ req \in [Request -> Handler]
  /\ mempool \subseteq Calls
  /\ failed \subseteq Message
  /\ restarts \in Nat

\* Between the broadcast and its acknowledgement the transaction exists already.
SentWasTried == \A r \in Request : req[r].pc = "sent" => WasTried(req[r].msg)

BroadcastInv == SentWasTried /\ UsedWasTried

ServiceInv == ServiceTypeOK /\ SlotsAreClean /\ PendingIsInFlight

-----------------------------------------------------------------------------
(* The contract. *)

\* A relay that is accepted splits the amount into a fee and a positive rest.
LEMMA AcceptedAmounts ==
  ASSUME ContractInv, NEW m, NEW to, NEW maxFee, Accepts(m, to, maxFee)
  PROVE  /\ m \in Message /\ to \in Account
         /\ Amount[m] \in Nat /\ HookMaxFee[m] \in Nat
         /\ relayFee \in 0..HookMaxFee[m]
         /\ relayFee < Amount[m]
         /\ to = HookRecipient[m]
         /\ m \notin received
BY RelayerAssumption DEF ContractInv, ContractTypeOK, Accepts

\* A relay keeps types and books, and marks what it delivers.
LEMMA RelayKeeps ==
  ASSUME ContractInv, NEW m, NEW to, NEW maxFee, Relay(m, to, maxFee)
  PROVE  ContractInv'
<1>1. /\ m \in Message /\ to \in Account
      /\ Amount[m] \in Nat
      /\ relayFee \in Nat
      /\ relayFee < Amount[m]
  BY AcceptedAmounts DEF Relay
<1>2. /\ balance \in Nat /\ kept \in Nat /\ donated \in Nat
      /\ balance = donated + kept
  BY DEF ContractInv, ContractTypeOK, HoldsOnlyItsOwn
<1>3. /\ balance' \in Nat /\ kept' \in Nat
      /\ balance' = donated' + kept'
  <2>1. /\ balance' = (balance + Amount[m]) - Outflow(feeRecipient, relayFee)
                       - Outflow(to, ((balance + Amount[m]) - balance) - relayFee)
        /\ kept' = kept + (IF feeRecipient = Self THEN relayFee ELSE 0)
                        + (IF to = Self THEN ((balance + Amount[m]) - balance) - relayFee
                                        ELSE 0)
        /\ donated' = donated
    BY DEF Relay
  <2>2. CASE feeRecipient = Self /\ to = Self
    BY <1>1, <1>2, <2>1, <2>2 DEF Outflow
  <2>3. CASE feeRecipient = Self /\ to # Self
    BY <1>1, <1>2, <2>1, <2>3 DEF Outflow
  <2>4. CASE feeRecipient # Self /\ to = Self
    BY <1>1, <1>2, <2>1, <2>4 DEF Outflow
  <2>5. CASE feeRecipient # Self /\ to # Self
    BY <1>1, <1>2, <2>1, <2>5 DEF Outflow
  <2> QED
    BY <2>2, <2>3, <2>4, <2>5
<1>4. ((balance + Amount[m]) - balance) - relayFee \in Nat
  BY <1>1, <1>2
<1>5. [msg |-> m, to |-> to, net |-> ((balance + Amount[m]) - balance) - relayFee,
       fee |-> relayFee] \in Delivery
  BY <1>1, <1>4 DEF Delivery
<1>6. ContractTypeOK'
  BY <1>1, <1>3, <1>5 DEF ContractInv, ContractTypeOK, Relay
<1>7. HoldsOnlyItsOwn'
  BY <1>3 DEF HoldsOnlyItsOwn
<1>8. DeliveredIsReceived'
  BY DEF ContractInv, DeliveredIsReceived, Relay
<1> QED
  BY <1>6, <1>7, <1>8 DEF ContractInv

\* Owner, donors, Circle and direct callers keep the contract's invariant.
LEMMA ContractStepKeeps ==
  ASSUME ContractInv, ContractNext
  PROVE  ContractInv'
<1>1. CASE \E call \in Calls : Relay(call.msg, call.to, call.maxFee)
  BY <1>1, RelayKeeps
<1>2. CASE \E newFee \in 0..MaxRelayFee : SetRelayFee(newFee)
  BY <1>2 DEF ContractInv, ContractTypeOK, HoldsOnlyItsOwn, DeliveredIsReceived, SetRelayFee
<1>6. CASE \E newRecipient \in Account : SetFeeRecipient(newRecipient)
  BY <1>6 DEF ContractInv, ContractTypeOK, HoldsOnlyItsOwn, DeliveredIsReceived,
              SetFeeRecipient
<1>3. CASE Pause \/ Unpause
  BY <1>3 DEF ContractInv, ContractTypeOK, HoldsOnlyItsOwn, DeliveredIsReceived, Pause, Unpause
<1>4. CASE Donate
  BY <1>4 DEF ContractInv, ContractTypeOK, HoldsOnlyItsOwn, DeliveredIsReceived, Donate
<1>5. CASE \E m \in Message : Attest(m)
  BY <1>5 DEF ContractInv, ContractTypeOK, HoldsOnlyItsOwn, DeliveredIsReceived, Attest
<1> QED
  BY <1>1, <1>2, <1>3, <1>4, <1>5, <1>6 DEF ContractNext

\* A step that leaves the contract alone leaves its invariant alone.
LEMMA ContractUnchanged ==
  ASSUME ContractInv, UNCHANGED contract
  PROVE  ContractInv'
BY DEF ContractInv, ContractTypeOK, HoldsOnlyItsOwn, DeliveredIsReceived, contract

\* A relay is one delivery of the promise: the first of its message, to its hook's
\* recipient, at a fee within its ceiling.
LEMMA RelayDelivers ==
  ASSUME ContractInv, NEW m, NEW to, NEW maxFee, Relay(m, to, maxFee)
  PROVE  Promise!Next
<1>1. Accepts(m, to, maxFee)
  BY DEF Relay
<1>2. \A d \in delivered : d.msg # m
  BY <1>1, AcceptedAmounts DEF ContractInv, DeliveredIsReceived
<1>3. ((balance + Amount[m]) - balance) - relayFee = Amount[m] - relayFee
  BY <1>1, AcceptedAmounts DEF ContractInv, ContractTypeOK
<1>4. delivered' = delivered \cup
        {[msg |-> m, to |-> HookRecipient[m], net |-> Amount[m] - relayFee, fee |-> relayFee]}
  <2>1. to = HookRecipient[m]
    BY <1>1, AcceptedAmounts
  <2>2. delivered' = delivered \cup
          {[msg |-> m, to |-> to, net |-> ((balance + Amount[m]) - balance) - relayFee,
            fee |-> relayFee]}
    BY DEF Relay
  <2> QED
    BY <2>1, <2>2, <1>3
<1>5. Promise!Deliver(m, relayFee)
  BY <1>1, <1>2, <1>4, AcceptedAmounts DEF Promise!Deliver
<1> QED
  BY <1>1, <1>5, AcceptedAmounts DEF Promise!Next

-----------------------------------------------------------------------------
(* The server. *)

\* A new handler finds its message unlocked.
LEMMA SubmitKeeps ==
  ASSUME ServiceInv, NEW r \in Request, NEW call \in Calls,
         Submit(r, call.msg, call.to, call.maxFee)
  PROVE  ServiceInv'
<1>1. call \in [msg : Message, to : Account, maxFee : Nat]
  BY RelayerAssumption
<1>2. call = [msg |-> call.msg, to |-> call.to, maxFee |-> call.maxFee]
  BY <1>1
<1>3. ServiceTypeOK'
  BY <1>1 DEF ServiceInv, ServiceTypeOK, Handler, Submit
<1>4. SlotsAreClean'
  BY <1>2 DEF ServiceInv, ServiceTypeOK, SlotsAreClean, Submit
<1>5. /\ req[r].pc = "off"
      /\ call.msg \notin pendingMessages
      /\ pendingMessages' = pendingMessages \cup {call.msg}
      /\ req'[r].pc = "read"
      /\ req'[r].msg = call.msg
      /\ \A q \in Request \ {r} : req'[q] = req[q]
  BY DEF ServiceInv, ServiceTypeOK, Submit
<1>6. {req'[q].msg : q \in {p \in Request : req'[p].pc # "off"}} =
        {req[q].msg : q \in {p \in Request : req[p].pc # "off"}} \cup {call.msg}
  BY <1>5
<1>7. \A q \in Request : req[q].msg # call.msg
  <2> TAKE q \in Request
  <2>1. CASE req[q].pc = "off"
    <3>1. req[q] = Idle
      BY <2>1 DEF ServiceInv, SlotsAreClean
    <3>2. Idle.msg = None
      BY DEF Idle
    <3> QED
      BY <1>1, <3>1, <3>2, ServiceAssumption
  <2>2. CASE req[q].pc # "off"
    <3>1. req[q].msg \in pendingMessages
      BY <2>2 DEF ServiceInv, PendingIsInFlight
    <3> QED
      BY <1>5, <3>1
  <2> QED
    BY <2>1, <2>2
<1>8. \A q, p \in Request : req'[q].pc # "off" /\ req'[q].msg = req'[p].msg => q = p
  <2> SUFFICES ASSUME NEW q \in Request, NEW p \in Request,
                      req'[q].pc # "off", req'[q].msg = req'[p].msg
               PROVE  q = p
    OBVIOUS
  <2> QED
    BY <1>5, <1>7 DEF ServiceInv, PendingIsInFlight
<1>9. PendingIsInFlight'
  BY <1>5, <1>6, <1>8 DEF ServiceInv, PendingIsInFlight
<1> QED
  BY <1>3, <1>4, <1>9 DEF ServiceInv

\* A handler that ends releases exactly its own message.
LEMMA ReleaseKeeps ==
  ASSUME ServiceInv, NEW r \in Request, req[r].pc # "off", Release(r)
  PROVE  /\ pendingMessages' \subseteq Message
         /\ req' \in [Request -> Handler]
         /\ SlotsAreClean'
         /\ PendingIsInFlight'
<1>1. pendingMessages' \subseteq Message /\ req' \in [Request -> Handler]
  BY DEF ServiceInv, ServiceTypeOK, Handler, Idle, Release
<1>2. SlotsAreClean'
  BY DEF ServiceInv, ServiceTypeOK, SlotsAreClean, Idle, Release
<1>3. PendingIsInFlight'
  BY ServiceAssumption, RelayerAssumption
     DEF ServiceInv, ServiceTypeOK, SlotsAreClean, PendingIsInFlight, Idle, Release
<1> QED
  BY <1>1, <1>2, <1>3

\* Every step of a handler keeps the server's invariant.
LEMMA HandleKeeps ==
  ASSUME ServiceInv, NEW r \in Request, Handle(r)
  PROVE  ServiceInv'
<1>1. CASE Refuse(r)
  BY <1>1, ReleaseKeeps DEF ServiceInv, ServiceTypeOK, Refuse
<1>2. CASE CheckContract(r)
  BY <1>2 DEF ServiceInv, ServiceTypeOK, SlotsAreClean, PendingIsInFlight, Handler, Idle,
              CheckContract
<1>3. CASE Broadcast(r)
  BY <1>3 DEF ServiceInv, ServiceTypeOK, SlotsAreClean, PendingIsInFlight, Handler, Idle,
              Broadcast
<1>4. CASE SendFails(r)
  BY <1>4, ReleaseKeeps DEF ServiceInv, ServiceTypeOK, SendFails
<1>5. CASE Reply(r)
  <2>1. req[r].msg \in Message
    BY <1>5, RelayerAssumption DEF ServiceInv, SlotsAreClean, Reply
  <2> QED
    BY <1>5, <2>1, ReleaseKeeps DEF ServiceInv, ServiceTypeOK, Reply
<1> QED
  BY <1>1, <1>2, <1>3, <1>4, <1>5 DEF Handle

\* A step of the contract that is not the server's leaves the server alone.
LEMMA ServiceUnchanged ==
  ASSUME ServiceInv, UNCHANGED <<usedMessages, pendingMessages, req, restarts>>,
         mempool' \subseteq mempool, failed' \subseteq Message
  PROVE  ServiceInv'
BY DEF ServiceInv, ServiceTypeOK, SlotsAreClean, PendingIsInFlight

-----------------------------------------------------------------------------
(* What was broadcast. *)

\* A message that was tried stays so: a transaction that leaves the mempool delivers its
\* message or is recorded as failed.
LEMMA TriedStays ==
  ASSUME received \subseteq received', failed \subseteq failed',
         \A call \in mempool : call \in mempool' \/ call.msg \in received' \cup failed',
         NEW m, WasTried(m)
  PROVE  WasTried(m)'
BY DEF WasTried

\* A handler is acknowledged, and its message marked, only after the broadcast.
LEMMA HandleBroadcasts ==
  ASSUME ServiceInv, BroadcastInv, NEW r \in Request, Handle(r)
  PROVE  BroadcastInv'
<1>1. UNCHANGED contract /\ UNCHANGED failed /\ mempool \subseteq mempool'
  BY DEF Handle, Refuse, CheckContract, Broadcast, SendFails, Reply
<1>2. \A m : WasTried(m) => WasTried(m)'
  BY <1>1, TriedStays DEF contract
<1>3. req \in [Request -> Handler]
  BY DEF ServiceInv, ServiceTypeOK
<1>4. CASE Broadcast(r)
  <2>1. \E call \in mempool' : call.msg = req[r].msg
    <3> DEFINE sent == [msg |-> req[r].msg, to |-> req[r].to, maxFee |-> req[r].maxFee]
    <3>1. sent \in mempool'
      BY <1>4 DEF Broadcast
    <3>2. sent.msg = req[r].msg
      OBVIOUS
    <3> QED
      BY <3>1, <3>2
  <2>2. usedMessages' = usedMessages
    BY <1>4 DEF Broadcast
  <2>3. \A q \in Request : req'[q].msg = req[q].msg /\ (q # r => req'[q] = req[q])
    BY <1>4, <1>3 DEF Broadcast, Handler
  <2>4. SentWasTried'
    BY <1>2, <2>1, <2>3 DEF BroadcastInv, SentWasTried, WasTried
  <2> QED
    BY <1>2, <2>2, <2>4 DEF BroadcastInv, UsedWasTried
<1>5. CASE Reply(r)
  <2>1. \A m \in usedMessages' : WasTried(m)
    BY <1>5 DEF BroadcastInv, SentWasTried, UsedWasTried, Reply
  <2>2. \A q \in Request : req'[q].pc = "sent" => req'[q] = req[q]
    BY <1>5, <1>3 DEF Reply, Release, Idle
  <2>3. SentWasTried'
    BY <1>2, <2>2 DEF BroadcastInv, SentWasTried, WasTried
  <2> QED
    BY <1>2, <2>1, <2>3 DEF BroadcastInv, UsedWasTried
<1>6. CASE Refuse(r) \/ CheckContract(r) \/ SendFails(r)
  <2>1. \A q \in Request : req'[q].pc = "sent" => req'[q] = req[q]
    <3>1. CASE Refuse(r) \/ SendFails(r)
      BY <3>1, <1>3 DEF Refuse, SendFails, Release, Idle
    <3>2. CASE CheckContract(r)
      BY <3>2, <1>3 DEF CheckContract, Handler
    <3> QED
      BY <1>6, <3>1, <3>2
  <2>2. usedMessages' = usedMessages
    BY <1>6 DEF Refuse, CheckContract, SendFails
  <2>3. SentWasTried'
    BY <1>2, <2>1 DEF BroadcastInv, SentWasTried, WasTried
  <2> QED
    BY <1>2, <2>2, <2>3 DEF BroadcastInv, UsedWasTried
<1> QED
  BY <1>4, <1>5, <1>6 DEF Handle

\* A step that marks nothing and acknowledges no handler.
LEMMA OthersKeepTried ==
  ASSUME BroadcastInv,
         received \subseteq received', failed \subseteq failed',
         \A call \in mempool : call \in mempool' \/ call.msg \in received' \cup failed',
         usedMessages' \subseteq usedMessages,
         \A q \in Request : req'[q].pc = "sent" => req'[q] = req[q]
  PROVE  BroadcastInv'
<1>1. \A m : WasTried(m) => WasTried(m)'
  BY TriedStays
<1>2. SentWasTried'
  BY <1>1 DEF BroadcastInv, SentWasTried, WasTried
<1> QED
  BY <1>1, <1>2 DEF BroadcastInv, UsedWasTried

-----------------------------------------------------------------------------

IInv == ContractInv /\ ServiceInv /\ BroadcastInv

\* Every step keeps both invariants and maps to a step of the promise.
LEMMA StepKeeps ==
  ASSUME IInv, [Next]_vars
  PROVE  IInv' /\ [Promise!Next]_delivered
<1>1. ASSUME NEW r \in Request, NEW call \in Calls,
             Submit(r, call.msg, call.to, call.maxFee)
      PROVE  IInv' /\ UNCHANGED delivered
  <2>1. \A q \in Request : req'[q].pc = "sent" => req'[q] = req[q]
    BY <1>1 DEF IInv, ServiceInv, ServiceTypeOK, Submit
  <2>2. BroadcastInv'
    BY <1>1, <2>1, OthersKeepTried DEF IInv, Submit, contract
  <2> QED
    BY <1>1, <2>2, SubmitKeeps, ContractUnchanged DEF IInv, Submit, contract
<1>2. ASSUME NEW r \in Request, Handle(r)
      PROVE  IInv' /\ UNCHANGED delivered
  <2>1. UNCHANGED contract
    BY <1>2 DEF Handle, Refuse, CheckContract, Broadcast, SendFails, Reply
  <2> QED
    BY <1>2, <2>1, HandleKeeps, HandleBroadcasts, ContractUnchanged DEF IInv, contract
<1>3. CASE Restart
  <2>1. ServiceInv'
    BY <1>3 DEF IInv, ServiceInv, ServiceTypeOK, SlotsAreClean, PendingIsInFlight, Handler,
                Idle, Restart
  <2>2. \A q \in Request : req'[q].pc = "off"
    BY <1>3 DEF Restart, Idle
  <2>3. BroadcastInv'
    BY <1>3, <2>2 DEF BroadcastInv, SentWasTried, UsedWasTried, Restart
  <2> QED
    BY <1>3, <2>1, <2>3, ContractUnchanged DEF IInv, Restart, contract
<1>4. ASSUME NEW call \in mempool, Mine(call)
      PROVE  IInv' /\ [Promise!Next]_delivered
  <2>1. call.msg \in Message
    BY <1>4, RelayerAssumption DEF IInv, ServiceInv, ServiceTypeOK
  <2>2. ServiceInv'
    BY <1>4, <2>1, ServiceUnchanged DEF IInv, ServiceInv, ServiceTypeOK, Mine
  <2>3. CASE Relay(call.msg, call.to, call.maxFee) /\ UNCHANGED failed
    <3>1. received' = received \cup {call.msg}
      BY <2>3 DEF Relay
    <3>2. BroadcastInv'
      BY <1>4, <2>3, <3>1, OthersKeepTried DEF IInv, Mine
    <3> QED
      BY <2>2, <2>3, <3>2, RelayKeeps, RelayDelivers DEF IInv
  <2>4. CASE UNCHANGED contract /\ failed' = failed \cup {call.msg}
    <3>1. BroadcastInv'
      BY <1>4, <2>4, OthersKeepTried DEF IInv, Mine, contract
    <3> QED
      BY <2>2, <2>4, <3>1, ContractUnchanged DEF IInv, contract
  <2> QED
    BY <1>4, <2>3, <2>4 DEF Mine
<1>7. ASSUME NEW call \in mempool, Evict(call)
      PROVE  IInv' /\ UNCHANGED delivered
  <2>1. call.msg \in Message
    BY <1>7, RelayerAssumption DEF IInv, ServiceInv, ServiceTypeOK
  <2>2. ServiceInv'
    BY <1>7, <2>1, ServiceUnchanged DEF IInv, ServiceInv, ServiceTypeOK, Evict
  <2>3. BroadcastInv'
    BY <1>7, OthersKeepTried DEF IInv, Evict, contract
  <2> QED
    BY <1>7, <2>2, <2>3, ContractUnchanged DEF IInv, Evict, contract
<1>5. CASE Outside
  <2>1. ServiceInv'
    BY <1>5, ServiceUnchanged DEF IInv, ServiceInv, ServiceTypeOK, Outside, service
  <2>2. ContractInv'
    BY <1>5, ContractStepKeeps DEF IInv, Outside
  <2>3. [Promise!Next]_delivered
    BY <1>5, RelayDelivers
       DEF IInv, Outside, ContractNext, SetRelayFee, SetFeeRecipient, Pause, Unpause, Donate,
           Attest
  <2>4. received \subseteq received'
    BY <1>5 DEF Outside, ContractNext, Relay, SetRelayFee, SetFeeRecipient, Pause, Unpause,
                Donate, Attest
  <2>5. BroadcastInv'
    <3> USE DEF IInv
    <3> QED
      BY <1>5, <2>4, OthersKeepTried DEF Outside, service
  <2> QED
    BY <2>1, <2>2, <2>3, <2>5 DEF IInv
<1>6. CASE UNCHANGED vars
  <2>1. ServiceInv' /\ ContractInv'
    BY <1>6, ServiceUnchanged, ContractUnchanged
       DEF IInv, ServiceInv, ServiceTypeOK, vars, contract
  <2>2. BroadcastInv'
    BY <1>6, OthersKeepTried DEF IInv, vars
  <2> QED
    BY <1>6, <2>1, <2>2 DEF IInv, vars
<1> QED
  BY <1>1, <1>2, <1>3, <1>4, <1>5, <1>6, <1>7 DEF Next

-----------------------------------------------------------------------------
(* Nothing that is marked is sent again. *)

\* A handler runs with a message that was unmarked when it took the lock, and whoever
\* could mark the message since is that handler itself.
LEMMA MarkingStep ==
  ASSUME IInv, MarkedIsNotResent, [Next]_vars
  PROVE  MarkedIsNotResent'
<1>1. req \in [Request -> Handler] /\ Idle.pc = "off"
  BY DEF IInv, ServiceInv, ServiceTypeOK, Idle
<1>2. ASSUME NEW r \in Request, NEW call \in Calls,
             Submit(r, call.msg, call.to, call.maxFee)
      PROVE  MarkedIsNotResent'
  <2>1. /\ usedMessages' = usedMessages /\ call.msg \notin usedMessages
        /\ req'[r].msg = call.msg
        /\ \A q \in Request \ {r} : req'[q] = req[q]
    BY <1>1, <1>2 DEF Submit
  <2> QED
    BY <2>1 DEF MarkedIsNotResent
<1>3. ASSUME NEW r \in Request, Handle(r)
      PROVE  MarkedIsNotResent'
  <2>1. CASE Reply(r)
    <3>1. /\ req[r].pc # "off"
          /\ usedMessages' = usedMessages \cup {req[r].msg}
          /\ req'[r] = Idle
          /\ \A q \in Request \ {r} : req'[q] = req[q]
      BY <1>1, <2>1 DEF Reply, Release
    <3>2. \A q \in Request \ {r} : req[q].msg # req[r].msg
      BY <3>1 DEF IInv, ServiceInv, PendingIsInFlight
    <3> QED
      BY <1>1, <3>1, <3>2 DEF MarkedIsNotResent
  <2>2. CASE Refuse(r) \/ SendFails(r)
    <3>1. /\ usedMessages' = usedMessages
          /\ req'[r] = Idle
          /\ \A q \in Request \ {r} : req'[q] = req[q]
      BY <1>1, <2>2 DEF Refuse, SendFails, Release
    <3> QED
      BY <1>1, <3>1 DEF MarkedIsNotResent
  <2>3. CASE CheckContract(r) \/ Broadcast(r)
    <3>1. /\ usedMessages' = usedMessages
          /\ req[r].pc # "off"
          /\ \A q \in Request : req'[q].msg = req[q].msg
          /\ \A q \in Request \ {r} : req'[q] = req[q]
      BY <1>1, <2>3 DEF CheckContract, Broadcast, Handler
    <3> QED
      BY <3>1 DEF MarkedIsNotResent
  <2> QED
    BY <1>3, <2>1, <2>2, <2>3 DEF Handle
<1>4. CASE Restart
  BY <1>1, <1>4 DEF Restart, MarkedIsNotResent
<1>5. CASE UNCHANGED <<usedMessages, req>>
  BY <1>5 DEF MarkedIsNotResent
<1>6. CASE \/ \E call \in mempool : Mine(call) \/ Evict(call)
           \/ Outside
           \/ UNCHANGED vars
  BY <1>5, <1>6 DEF Mine, Evict, Outside, service, vars
<1> QED
  BY <1>2, <1>3, <1>4, <1>6 DEF Next

-----------------------------------------------------------------------------
(* Theorems. *)

\* The inductive invariant holds in every reachable state.
THEOREM Invariant == Spec => []IInv
<1>1. Init => IInv
  <2> SUFFICES ASSUME Init PROVE IInv
    OBVIOUS
  <2>1. ContractInv
    <3>1. ContractTypeOK
      BY RelayerAssumption DEF Init, ContractInit, ContractTypeOK
    <3>2. balance = 0 /\ donated = 0 /\ kept = 0 /\ delivered = {}
      BY DEF Init, ContractInit
    <3> QED
      BY <3>1, <3>2 DEF ContractInv, HoldsOnlyItsOwn, DeliveredIsReceived
  <2>2. \A r \in Request : req[r] = Idle /\ req[r].pc = "off"
    BY DEF Init, Idle
  <2>3. ServiceTypeOK
    BY DEF Init, ServiceTypeOK, Handler, Idle
  <2>4. SlotsAreClean
    BY <2>2 DEF SlotsAreClean
  <2>5. PendingIsInFlight
    BY <2>2 DEF Init, PendingIsInFlight
  <2> QED
    BY <2>1, <2>2, <2>3, <2>4, <2>5
       DEF Init, IInv, ServiceInv, BroadcastInv, SentWasTried, UsedWasTried
<1> QED
  BY <1>1, StepKeeps, PTL DEF Spec

\* Type correctness of contract and server.
THEOREM TypeCorrect == Spec => []TypeOK
<1>1. IInv => TypeOK
  BY DEF IInv, ContractInv, ServiceInv, ServiceTypeOK, TypeOK
<1> QED
  BY <1>1, Invariant, PTL

\* GasRelayerV2.sol:235: relayed funds are paid out at once and nothing else is.  What the
\* contract holds was donated to it, or is a fee or net amount addressed to itself.
THEOREM ContractBooksBalance == Spec => []HoldsOnlyItsOwn
<1>1. IInv => HoldsOnlyItsOwn
  BY DEF IInv, ContractInv
<1> QED
  BY <1>1, Invariant, PTL

\* relay.ts:10: pendingMessages is exactly the set of messages in flight.
THEOREM LocksAreExact == Spec => []PendingIsInFlight
<1>1. IInv => PendingIsInFlight
  BY DEF IInv, ServiceInv
<1> QED
  BY <1>1, Invariant, PTL

\* relay.ts:6-9 and 209: a message is refused as already relayed only if a transaction for it
\* was broadcast, whatever became of that, and whoever passed the duplicate check does not submit one
\* that somebody else got marked in the meantime.
THEOREM MarksRight == Spec => []MarksAreRight
<1>1. Init => MarkedIsNotResent
  BY DEF Init, MarkedIsNotResent
<1>2. IInv /\ MarkedIsNotResent /\ [Next]_vars => MarkedIsNotResent'
  BY MarkingStep
<1>3. IInv /\ MarkedIsNotResent => MarksAreRight
  BY DEF IInv, BroadcastInv, MarksAreRight
<1> QED
  BY <1>1, <1>2, <1>3, Invariant, PTL DEF Spec

\* Server and contract implement the promise to whoever burned with a hook, through
\* fee changes, pauses, duplicated transactions, direct callers and restarts.
THEOREM HookIsHonoured == Spec => HookHonoured
<1>1. Init => Promise!Init
  BY DEF Init, ContractInit, Promise!Init
<1>2. IInv /\ [Next]_vars => [Promise!Next]_delivered
  BY StepKeeps
<1> QED
  BY <1>1, <1>2, Invariant, PTL DEF Spec, HookHonoured, Promise!Spec
=============================================================================
