------------------------- MODULE BridgeClientProofs -------------------------
(***************************************************************************)
(* What the bridge client guarantees for every number of tabs, executions  *)
(* and burns, whatever its users do: the types, that nothing is reported   *)
(* complete before it is minted, that nothing is stored that was not       *)
(* broadcast, and that the client implements CctpTransfer.                 *)
(*                                                                         *)
(* None of these is inductive.  What makes them so is what an execution    *)
(* has learned by the time it reaches a program counter (FlowKnows): past  *)
(* the signature its burn exists, past the receipt the burn is mined, past *)
(* the poll its message is attested, and a mint receipt with status 1      *)
(* means the message was received.                                         *)
(***************************************************************************)
EXTENDS BridgeClient, TLAPS

Submitted == {b \in Burn : source[b] # "unused"}
Mined     == {b \in Burn : source[b] = "mined"}
Burned    == {b \in Burn : source[b] \in {"mined", "replaced"}}

FlowKnows(f) ==
  /\ flow[f].pc # "off" => flow[f].tab \in Tab
  /\ flow[f].pc \notin {"off", "preflight"} => flow[f].burn \in Submitted
  /\ flow[f].pc \in {"poll", "switch", "mintWait"} => flow[f].burn \in Mined
  /\ flow[f].pc \in {"switch", "mintWait"} => flow[f].burn \in attested
  /\ flow[f].tx # "none" => flow[f].pc = "mintWait"
  /\ flow[f].tx = "ok" => flow[f].burn \in minted

Genuine(s) == s # None => /\ s.burn \in Submitted
                          /\ s.identity => s.burn \in Mined

FlowsKnow == \A f \in Flow : FlowKnows(f)

StoredGenuine == Genuine(session) /\ \A t \in Tab : Genuine(resumeSession[t])

ShownGenuine ==
  \A t \in Tab : /\ bridgeStatus[t].burn \in Submitted \cup {None}
                 /\ refs[t].burn \in Submitted \cup {None}

ChainsOrdered ==
  /\ minted \subseteq attested
  /\ attested \subseteq Burned

IInv ==
  /\ TypeOK
  /\ FlowsKnow
  /\ StoredGenuine
  /\ ShownGenuine
  /\ ChainsOrdered
  /\ ReportedIsMinted

-----------------------------------------------------------------------------
(* The three ways an execution touches the page and the storage. *)

\* A status callback stores and shows a submitted burn, and a source message only
\* of a mined one.
LEMMA ReportKeeps ==
  ASSUME IInv,
         NEW f \in Flow, flow[f].tab \in Tab, flow[f].burn \in Submitted,
         NEW step \in {"early", "minting"}, NEW mint \in BOOLEAN, NEW identity \in BOOLEAN,
         identity => flow[f].burn \in Mined,
         Report(f, step, mint, identity),
         UNCHANGED <<resumeSession, history, chains>>
  PROVE  /\ session' \in Session \cup {None}
         /\ bridgeStatus' \in [Tab -> Status]
         /\ refs' \in [Tab -> Refs]
         /\ StoredGenuine'
         /\ ShownGenuine'
         /\ ChainsOrdered'
         /\ ReportedIsMinted'
<1> DEFINE t == flow[f].tab
           b == flow[f].burn
<1>1. b \in Burn /\ t \in Tab
  BY DEF Submitted
<1>2. Submitted' = Submitted /\ Mined' = Mined /\ Burned' = Burned
  BY DEF chains, Submitted, Mined, Burned
<1>3. session' \in {session, [burn |-> b, identity |-> identity]}
  BY DEF Report, SaveSession
<1>4. /\ bridgeStatus' = [bridgeStatus EXCEPT ![t] =
            [step |-> "busy", burn |-> b, mint |-> mint, failedAt |-> "early"]]
      /\ refs' = [refs EXCEPT ![t] = [burn |-> b, mint |-> @.mint \/ mint, step |-> step]]
  BY DEF Report
<1>5. refs[t].mint \/ mint \in BOOLEAN
  BY <1>1 DEF IInv, TypeOK, Refs
<1>6. session' \in Session \cup {None}
  BY <1>1, <1>3 DEF IInv, TypeOK, Session
<1>7. bridgeStatus' \in [Tab -> Status]
  BY <1>1, <1>4 DEF IInv, TypeOK, Status
<1>8. refs' \in [Tab -> Refs]
  BY <1>1, <1>4, <1>5 DEF IInv, TypeOK, Refs
<1>9. StoredGenuine'
  BY <1>2, <1>3 DEF IInv, StoredGenuine, Genuine
<1>10. ShownGenuine'
  BY <1>1, <1>2, <1>4 DEF IInv, TypeOK, ShownGenuine
<1>11. ChainsOrdered'
  BY <1>2 DEF IInv, ChainsOrdered, chains
<1>12. ReportedIsMinted'
  BY <1>1, <1>4 DEF IInv, TypeOK, ReportedIsMinted, chains
<1> QED BY <1>6, <1>7, <1>8, <1>9, <1>10, <1>11, <1>12

\* An execution that ends leaves the others what they know.
LEMMA EndKeepsFlows ==
  ASSUME IInv, NEW f \in Flow, flow' = [flow EXCEPT ![f] = Off],
         UNCHANGED <<source, attested, minted>>
  PROVE  flow' \in [Flow -> Run] /\ FlowsKnow'
<1>1. flow' \in [Flow -> Run]
  BY DEF IInv, TypeOK, Run, Off, PC
<1>2. ASSUME NEW g \in Flow PROVE FlowKnows(g)'
  BY DEF IInv, TypeOK, FlowsKnow, FlowKnows, Off, Submitted, Mined
<1> QED BY <1>1, <1>2 DEF FlowsKnow

\* An error shows what the refs hold and forgets nothing.
LEMMA ThrowKeeps ==
  ASSUME IInv, NEW f \in Flow, flow[f].tab \in Tab, Throw(f),
         UNCHANGED <<resumeSession, source, attested, minted>>
  PROVE  IInv'
<1> DEFINE t == flow[f].tab
<1>1. Submitted' = Submitted /\ Mined' = Mined /\ Burned' = Burned
  BY DEF Submitted, Mined, Burned
<1>2. flow' \in [Flow -> Run] /\ FlowsKnow'
  BY EndKeepsFlows DEF Throw
<1>3. bridgeStatus' = [bridgeStatus EXCEPT ![t] =
         [step |-> "error", burn |-> refs[t].burn, mint |-> refs[t].mint,
          failedAt |-> refs[t].step]]
  BY DEF Throw
<1>4. bridgeStatus' \in [Tab -> Status]
  BY <1>3 DEF IInv, TypeOK, Status, Refs
<1>5. TypeOK'
  BY <1>2, <1>4 DEF IInv, TypeOK, Throw
<1>6. StoredGenuine'
  BY <1>1 DEF IInv, StoredGenuine, Genuine, Throw
<1>7. ShownGenuine'
  BY <1>1, <1>3 DEF IInv, TypeOK, ShownGenuine, Throw
<1>8. ChainsOrdered'
  BY <1>1 DEF IInv, ChainsOrdered
<1>9. ReportedIsMinted'
  BY <1>3 DEF IInv, TypeOK, ReportedIsMinted, Throw
<1> QED BY <1>2, <1>5, <1>6, <1>7, <1>8, <1>9 DEF IInv

\* A success shows a burn that has been minted.
LEMMA SucceedKeeps ==
  ASSUME IInv, NEW f \in Flow, flow[f].tab \in Tab, flow[f].burn \in Submitted,
         flow[f].burn \in minted, NEW mint \in BOOLEAN, Succeed(f, mint),
         UNCHANGED <<resumeSession, chains>>
  PROVE  IInv'
<1> DEFINE t == flow[f].tab
           b == flow[f].burn
<1>1. b \in Burn
  BY DEF Submitted
<1>2. Submitted' = Submitted /\ Mined' = Mined /\ Burned' = Burned
  BY DEF Submitted, Mined, Burned, chains
<1>3. flow' \in [Flow -> Run] /\ FlowsKnow'
  BY EndKeepsFlows DEF Succeed, chains
<1>4. /\ bridgeStatus' = [bridgeStatus EXCEPT ![t] =
            [step |-> "done", burn |-> b, mint |-> mint, failedAt |-> "early"]]
      /\ refs' = [refs EXCEPT ![t].burn = b, ![t].mint = @ \/ mint]
      /\ history' = history \cup {b}
      /\ session' = None
  BY DEF Succeed, ClearSession
<1>5. bridgeStatus' \in [Tab -> Status]
  BY <1>1, <1>4 DEF IInv, TypeOK, Status
<1>6. refs[t].mint \/ mint \in BOOLEAN
  BY DEF IInv, TypeOK, Refs
<1>7. refs' \in [Tab -> Refs]
  BY <1>1, <1>4, <1>6 DEF IInv, TypeOK, Refs
<1>8. TypeOK'
  BY <1>1, <1>3, <1>4, <1>5, <1>7 DEF IInv, TypeOK, chains
<1>9. StoredGenuine'
  BY <1>2, <1>4 DEF IInv, StoredGenuine, Genuine
<1>10. ShownGenuine'
  BY <1>2, <1>4 DEF IInv, TypeOK, ShownGenuine, Refs
<1>11. ChainsOrdered'
  BY <1>2 DEF IInv, ChainsOrdered, chains
<1>12. ReportedIsMinted'
  BY <1>4 DEF IInv, TypeOK, ReportedIsMinted, chains
<1> QED BY <1>3, <1>8, <1>9, <1>10, <1>11, <1>12 DEF IInv

\* An execution that reports and moves on must have learned what its next program
\* counter stands for.
LEMMA StepKeeps ==
  ASSUME IInv, NEW f \in Flow, flow[f].tab \in Tab, flow[f].burn \in Submitted,
         NEW pc \in {"burnWait", "poll", "switch", "mintWait"},
         NEW tx \in {"none", "pending"}, tx = "pending" => pc = "mintWait",
         pc \in {"poll", "switch", "mintWait"} => flow[f].burn \in Mined,
         pc \in {"switch", "mintWait"} => flow[f].burn \in attested,
         flow' = [flow EXCEPT ![f].pc = pc, ![f].tx = tx],
         NEW step \in {"early", "minting"}, NEW mint \in BOOLEAN, NEW identity \in BOOLEAN,
         identity => flow[f].burn \in Mined,
         Report(f, step, mint, identity),
         UNCHANGED <<resumeSession, history, chains>>
  PROVE  IInv'
<1>1. flow' \in [Flow -> Run]
  <2>1. flow[f] \in Run
    BY DEF IInv, TypeOK
  <2>2. [flow[f] EXCEPT !.pc = pc, !.tx = tx] \in Run
    BY <2>1 DEF Run, PC
  <2> QED BY <2>2 DEF IInv, TypeOK
<1>2. ASSUME NEW g \in Flow PROVE FlowKnows(g)'
  <2>1. FlowKnows(g)
    BY DEF IInv, FlowsKnow
  <2>2. CASE g = f
    BY <2>1, <2>2 DEF IInv, TypeOK, Run, FlowKnows, Submitted, Mined, chains
  <2>3. CASE g # f
    BY <2>1, <2>3 DEF IInv, TypeOK, FlowKnows, Submitted, Mined, chains
  <2> QED BY <2>2, <2>3
<1>3. FlowsKnow'
  BY <1>2 DEF FlowsKnow
<1>4. /\ session' \in Session \cup {None}
      /\ bridgeStatus' \in [Tab -> Status]
      /\ refs' \in [Tab -> Refs]
      /\ StoredGenuine' /\ ShownGenuine' /\ ChainsOrdered' /\ ReportedIsMinted'
  BY ReportKeeps
<1>5. TypeOK'
  BY <1>1, <1>4 DEF IInv, TypeOK, chains
<1> QED BY <1>3, <1>4, <1>5 DEF IInv

\* While the chains advance and an execution at most learns its mint's fate, the
\* page and the storage stay genuine.
LEMMA ChainsKeep ==
  ASSUME IInv,
         UNCHANGED <<session, resumeSession, bridgeStatus, refs, history>>,
         source' \in [Burn -> {"unused", "pending", "mined", "reverted", "replaced"}],
         Submitted \subseteq Submitted', Mined \subseteq Mined',
         attested \subseteq attested', minted \subseteq minted',
         ChainsOrdered',
         NEW f, NEW tx \in {"ok", "reverted"},
         \/ flow' = flow
         \/ /\ f \in Flow /\ flow[f].tx = "pending"
            /\ flow' = [flow EXCEPT ![f].tx = tx]
            /\ tx = "ok" => flow[f].burn \in minted'
  PROVE  IInv'
<1>1. flow' \in [Flow -> Run]
  BY DEF IInv, TypeOK, Run
<1>2. FlowsKnow'
  <2>1. ASSUME NEW g \in Flow PROVE FlowKnows(g)'
    BY DEF IInv, TypeOK, Run, FlowsKnow, FlowKnows
  <2> QED BY <2>1 DEF FlowsKnow
<1>3. Burned' \subseteq Burn
  BY DEF Burned
<1>4. TypeOK'
  BY <1>1, <1>3 DEF IInv, TypeOK, ChainsOrdered
<1>5. StoredGenuine' /\ ShownGenuine' /\ ReportedIsMinted'
  BY DEF IInv, StoredGenuine, Genuine, ShownGenuine, ReportedIsMinted
<1> QED BY <1>2, <1>4, <1>5 DEF IInv

-----------------------------------------------------------------------------
(* Every action keeps the invariant. *)

LEMMA UserKeeps == ASSUME IInv, NEW t \in Tab, User(t) PROVE IInv'
<1> DEFINE Known == Submitted' = Submitted /\ Mined' = Mined /\ Burned' = Burned
<1>1. ASSUME NEW f \in Flow, ClickBridge(t, f) PROVE IInv'
  <2>1. Known /\ UNCHANGED <<source, attested, minted>>
    BY <1>1 DEF ClickBridge, chains, Submitted, Mined, Burned
  <2>2. flow' = [flow EXCEPT ![f] =
          [pc |-> "preflight", tab |-> t, kind |-> "bridge", burn |-> None, tx |-> "none"]]
    BY <1>1 DEF ClickBridge
  <2>3. bridgeStatus' = [bridgeStatus EXCEPT ![t] = [IdleStatus EXCEPT !.step = "busy"]]
    BY <1>1 DEF ClickBridge
  <2>4. refs' = [refs EXCEPT ![t].burn = None, ![t].step = "early"]
    BY <1>1 DEF ClickBridge
  <2>5. TypeOK'
    <3>1. flow' \in [Flow -> Run]
      BY <2>2 DEF IInv, TypeOK, Run, PC
    <3>2. bridgeStatus' \in [Tab -> Status]
      BY <2>3 DEF IInv, TypeOK, Status, IdleStatus
    <3>3. refs' \in [Tab -> Refs]
      BY <2>4 DEF IInv, TypeOK, Refs
    <3> QED BY <1>1, <2>1, <3>1, <3>2, <3>3 DEF IInv, TypeOK, ClickBridge
  <2>6. FlowsKnow'
    BY <2>1, <2>2 DEF IInv, TypeOK, FlowsKnow, FlowKnows
  <2>7. StoredGenuine'
    BY <1>1, <2>1 DEF IInv, StoredGenuine, Genuine, ClickBridge
  <2>8. ShownGenuine'
    BY <2>1, <2>3, <2>4 DEF IInv, TypeOK, Refs, ShownGenuine, IdleStatus
  <2>9. ChainsOrdered'
    BY <2>1 DEF IInv, ChainsOrdered
  <2>10. ReportedIsMinted'
    BY <1>1, <2>1, <2>3 DEF IInv, TypeOK, ReportedIsMinted, IdleStatus, ClickBridge
  <2> QED BY <2>5, <2>6, <2>7, <2>8, <2>9, <2>10 DEF IInv
<1>2. ASSUME NEW f \in Flow, NEW b \in Submitted, BeginResume(t, f, b),
             UNCHANGED <<session, bridgeStatus, history, chains>>
      PROVE  IInv'
  <2>1. b \in Burn /\ Known /\ UNCHANGED <<source, attested, minted>>
    BY <1>2 DEF chains, Submitted, Mined, Burned
  <2>2. flow' = [flow EXCEPT ![f] =
          [pc |-> "recheck", tab |-> t, kind |-> "resume", burn |-> b, tx |-> "none"]]
    BY <1>2 DEF BeginResume
  <2>3. resumeSession' = [resumeSession EXCEPT ![t] = None]
    BY <1>2 DEF BeginResume
  <2>4. refs' = [refs EXCEPT ![t] = [NoRefs EXCEPT !.burn = b]]
    BY <1>2 DEF BeginResume
  <2>5. TypeOK'
    BY <1>2, <2>1, <2>2, <2>3, <2>4 DEF IInv, TypeOK, Run, PC, Refs, NoRefs
  <2>6. FlowsKnow'
    BY <2>1, <2>2 DEF IInv, TypeOK, FlowsKnow, FlowKnows
  <2>7. StoredGenuine'
    BY <1>2, <2>1, <2>3 DEF IInv, TypeOK, StoredGenuine, Genuine
  <2>8. ShownGenuine'
    BY <1>2, <2>1, <2>4 DEF IInv, TypeOK, ShownGenuine, NoRefs
  <2>9. ChainsOrdered'
    BY <2>1 DEF IInv, ChainsOrdered
  <2>10. ReportedIsMinted'
    BY <1>2, <2>1 DEF IInv, ReportedIsMinted
  <2> QED BY <2>5, <2>6, <2>7, <2>8, <2>9, <2>10 DEF IInv
<1>3. ASSUME NEW f \in Flow, ClickResume(t, f) PROVE IInv'
  <2>1. resumeSession[t].burn \in Submitted
    BY <1>3 DEF ClickResume, IInv, StoredGenuine, Genuine
  <2> QED BY <1>2, <1>3, <2>1 DEF ClickResume
<1>4. ASSUME NEW f \in Flow, ClickResumeSaved(t, f) PROVE IInv'
  <2>1. session.burn \in Submitted
    BY <1>4 DEF ClickResumeSaved, IInv, StoredGenuine, Genuine
  <2>2. CASE Loadable(session.burn)
    BY <1>2, <1>4, <2>1, <2>2 DEF ClickResumeSaved
  <2>3. CASE ~Loadable(session.burn)
    BY <1>4, <2>3
    DEF ClickResumeSaved, ClearSession, IInv, TypeOK, FlowsKnow, FlowKnows, StoredGenuine,
        Genuine, ShownGenuine, ChainsOrdered, ReportedIsMinted, Submitted, Mined, Burned, chains
  <2> QED BY <2>2, <2>3
<1>5. ASSUME ClickReset(t) PROVE IInv'
  <2>1. Known /\ UNCHANGED <<resumeSession, flow, history, source, attested, minted>>
    BY <1>5 DEF ClickReset, chains, Submitted, Mined, Burned
  <2>2. /\ bridgeStatus' = [bridgeStatus EXCEPT ![t] = IdleStatus]
        /\ refs' = [refs EXCEPT ![t] = NoRefs]
        /\ session' = None
    BY <1>5 DEF ClickReset, ClearSession
  <2>3. TypeOK'
    BY <2>1, <2>2 DEF IInv, TypeOK, Status, Refs, IdleStatus, NoRefs
  <2>4. FlowsKnow' /\ StoredGenuine' /\ ChainsOrdered'
    BY <2>1, <2>2 DEF IInv, FlowsKnow, FlowKnows, StoredGenuine, Genuine, ChainsOrdered
  <2>5. ShownGenuine' /\ ReportedIsMinted'
    BY <2>1, <2>2 DEF IInv, TypeOK, ShownGenuine, ReportedIsMinted, IdleStatus, NoRefs
  <2> QED BY <2>3, <2>4, <2>5 DEF IInv
<1>6. ASSUME ClickDismiss(t) PROVE IInv'
  BY <1>6
  DEF ClickDismiss, ClearSession, IInv, TypeOK, FlowsKnow, FlowKnows, StoredGenuine, Genuine,
      ShownGenuine, ChainsOrdered, ReportedIsMinted, Submitted, Mined, Burned, chains
<1>7. ASSUME Reload(t) PROVE IInv'
  <2> DEFINE mine == {f \in Flow : Alive(f) /\ flow[f].tab = t}
  <2>1. Known /\ UNCHANGED <<history, source, attested, minted>>
    BY <1>7 DEF Reload, chains, Submitted, Mined, Burned
  <2>2. /\ flow' = [f \in Flow |-> IF f \in mine THEN Off ELSE flow[f]]
        /\ bridgeStatus' = [bridgeStatus EXCEPT ![t] = IdleStatus]
        /\ refs' = [refs EXCEPT ![t] = NoRefs]
        /\ session' \in {session, None}
        /\ resumeSession' = [resumeSession EXCEPT ![t] = session']
    BY <1>7 DEF Reload
  <2>3. attested \subseteq Burn
    BY DEF IInv, TypeOK
  <2>4. TypeOK'
    BY <2>1, <2>2, <2>3
    DEF IInv, TypeOK, Run, PC, Off, Status, Refs, IdleStatus, NoRefs
  <2>5. FlowsKnow'
    BY <2>1, <2>2 DEF IInv, FlowsKnow, FlowKnows, Off
  <2>6. StoredGenuine'
    BY <2>1, <2>2 DEF IInv, TypeOK, StoredGenuine, Genuine
  <2>7. ShownGenuine'
    BY <2>1, <2>2 DEF IInv, TypeOK, ShownGenuine, IdleStatus, NoRefs
  <2>8. ReportedIsMinted'
    BY <2>1, <2>2 DEF IInv, TypeOK, ReportedIsMinted, IdleStatus
  <2>9. ChainsOrdered'
    BY <2>1 DEF IInv, ChainsOrdered
  <2> QED BY <2>4, <2>5, <2>6, <2>7, <2>8, <2>9 DEF IInv
<1> QED BY <1>1, <1>3, <1>4, <1>5, <1>6, <1>7 DEF User

\* Before the mint is broadcast an execution watches no mint.
LEMMA GoToKeepsNoMint ==
  ASSUME IInv, NEW f \in Flow, flow[f].pc # "mintWait", NEW pc, GoTo(f, pc)
  PROVE  flow' = [flow EXCEPT ![f].pc = pc, ![f].tx = "none"]
<1>1. flow \in [Flow -> Run] /\ flow[f] \in Run /\ flow[f].tx = "none"
  BY DEF IInv, TypeOK, FlowsKnow, FlowKnows
<1>2. [flow[f] EXCEPT !.pc = pc] = [flow[f] EXCEPT !.pc = pc, !.tx = "none"]
  BY <1>1 DEF Run
<1> QED BY <1>1, <1>2 DEF GoTo

LEMMA ExecutionKeeps == ASSUME IInv, NEW f \in Flow, Execution(f) PROVE IInv'
<1> USE DEF FlowsKnow, FlowKnows
<1> DEFINE b == flow[f].burn
           t == flow[f].tab
<1>1. FlowKnows(f) /\ (flow[f].pc # "off" => t \in Tab)
  BY DEF IInv
<1>2. ASSUME FlowFails(f) PROVE IInv'
  BY <1>1, <1>2, ThrowKeeps DEF FlowFails, Alive, chains
<1>3. ASSUME NEW c \in Burn, BurnBroadcast(f, c) PROVE IInv'
  <2>1. /\ flow[f].pc = "preflight" /\ source[c] = "unused"
        /\ source' = [source EXCEPT ![c] = "pending"]
        /\ flow' = [flow EXCEPT ![f].pc = "sent", ![f].burn = c]
        /\ bridgeStatus' = [bridgeStatus EXCEPT ![t] = [IdleStatus EXCEPT !.step = "busy"]]
        /\ refs' = [refs EXCEPT ![t].step = "early"]
        /\ UNCHANGED <<session, resumeSession, history, attested, minted>>
    BY <1>3 DEF BurnBroadcast
  <2>2. source' \in [Burn -> {"unused", "pending", "mined", "reverted", "replaced"}]
    BY <2>1 DEF IInv, TypeOK
  <2>3. Submitted' = Submitted \cup {c} /\ Mined' = Mined /\ Burned' = Burned
    BY <2>1 DEF IInv, TypeOK, Submitted, Mined, Burned
  <2>4. flow' \in [Flow -> Run]
    <3>1. flow[f] \in Run
      BY DEF IInv, TypeOK
    <3>2. [flow[f] EXCEPT !.pc = "sent", !.burn = c] \in Run
      BY <3>1 DEF Run, PC
    <3> QED BY <2>1, <3>2 DEF IInv, TypeOK
  <2>5. bridgeStatus' \in [Tab -> Status]
    BY <2>1 DEF IInv, TypeOK, Status, IdleStatus
  <2>6. refs' \in [Tab -> Refs]
    BY <2>1 DEF IInv, TypeOK, Refs
  <2>7. TypeOK'
    BY <2>1, <2>2, <2>4, <2>5, <2>6 DEF IInv, TypeOK
  <2>8. FlowsKnow'
    <3>1. ASSUME NEW g \in Flow PROVE FlowKnows(g)'
      <4>1. CASE g = f
        BY <1>1, <2>1, <2>3, <4>1 DEF IInv, TypeOK, Run
      <4>2. CASE g # f
        BY <2>1, <2>3, <4>2 DEF IInv, TypeOK
      <4> QED BY <4>1, <4>2
    <3> QED BY <3>1
  <2>9. StoredGenuine'
    BY <2>1, <2>3 DEF IInv, StoredGenuine, Genuine
  <2>10. ShownGenuine'
    BY <1>1, <2>1, <2>3 DEF IInv, TypeOK, Refs, ShownGenuine, IdleStatus
  <2>11. ChainsOrdered'
    BY <2>1, <2>3 DEF IInv, ChainsOrdered
  <2>12. ReportedIsMinted'
    BY <2>1 DEF IInv, TypeOK, ReportedIsMinted, IdleStatus
  <2> QED BY <2>7, <2>8, <2>9, <2>10, <2>11, <2>12 DEF IInv
<1>4. ASSUME BurnHashReturned(f) PROVE IInv'
  <2>1. flow' = [flow EXCEPT ![f].pc = "burnWait", ![f].tx = "none"]
    BY <1>4, GoToKeepsNoMint DEF BurnHashReturned
  <2> QED BY <1>1, <1>4, <2>1, StepKeeps DEF BurnHashReturned
<1>5. ASSUME BurnConfirmed(f) \/ ReceiptVerified(f) PROVE IInv'
  <2>1. flow' = [flow EXCEPT ![f].pc = "poll", ![f].tx = "none"]
    BY <1>5, GoToKeepsNoMint DEF BurnConfirmed, ReceiptVerified
  <2>2. b \in Mined /\ b \in Submitted /\ t \in Tab
    BY <1>1, <1>5 DEF BurnConfirmed, ReceiptVerified, Submitted, Mined
  <2> QED BY <1>5, <2>1, <2>2, StepKeeps DEF BurnConfirmed, ReceiptVerified
<1>6. ASSUME PollPending(f) PROVE IInv'
  <2>1. Report(f, "early", FALSE, TRUE) /\ UNCHANGED <<resumeSession, flow, history, chains>>
    BY <1>6 DEF PollPending
  <2>2. b \in Mined /\ b \in Submitted /\ t \in Tab
    BY <1>1, <1>6 DEF PollPending
  <2>3. /\ session' \in Session \cup {None}
        /\ bridgeStatus' \in [Tab -> Status]
        /\ refs' \in [Tab -> Refs]
        /\ StoredGenuine' /\ ShownGenuine' /\ ChainsOrdered' /\ ReportedIsMinted'
    BY <2>1, <2>2, ReportKeeps
  <2>4. TypeOK' /\ FlowsKnow'
    BY <2>1, <2>3 DEF IInv, TypeOK, Submitted, Mined, chains
  <2> QED BY <2>3, <2>4 DEF IInv
<1>7. ASSUME AttestationFetched(f) PROVE IInv'
  <2>1. flow' = [flow EXCEPT ![f].pc = "switch", ![f].tx = "none"]
    BY <1>7, GoToKeepsNoMint DEF AttestationFetched
  <2>2. b \in Mined /\ b \in Submitted /\ t \in Tab /\ b \in attested
    BY <1>1, <1>7 DEF AttestationFetched
  <2> QED BY <1>7, <2>1, <2>2, StepKeeps DEF AttestationFetched
<1>8. ASSUME MintBroadcast(f) PROVE IInv'
  <2>1. b \in Mined /\ b \in Submitted /\ t \in Tab /\ b \in attested
    BY <1>1, <1>8 DEF MintBroadcast
  <2> QED BY <1>8, <2>1, StepKeeps DEF MintBroadcast
<1>9. ASSUME AlreadyMinted(f) \/ MintConfirmed(f) PROVE IInv'
  <2>1. b \in Submitted /\ t \in Tab /\ b \in minted
    BY <1>1, <1>9 DEF AlreadyMinted, MintConfirmed
  <2> QED BY <1>9, <2>1, SucceedKeeps DEF AlreadyMinted, MintConfirmed
<1> QED BY <1>2, <1>3, <1>4, <1>5, <1>6, <1>7, <1>8, <1>9 DEF Execution

LEMMA ChainsActionsKeep == ASSUME IInv, Chains PROVE IInv'
<1>1. ASSUME NEW b \in Burn, SourceSettles(b) PROVE IInv'
  <2>1. /\ source' \in [Burn -> {"unused", "pending", "mined", "reverted", "replaced"}]
        /\ Submitted \subseteq Submitted' /\ Mined \subseteq Mined' /\ Burned \subseteq Burned'
    BY <1>1 DEF SourceSettles, IInv, TypeOK, Submitted, Mined, Burned
  <2>2. ChainsOrdered'
    BY <1>1, <2>1 DEF SourceSettles, IInv, ChainsOrdered
  <2> QED BY <1>1, <2>1, <2>2, ChainsKeep DEF SourceSettles, client
<1>2. ASSUME NEW b \in Burn, IrisAttests(b) \/ RelayedByOther(b)
      PROVE  IInv'
  <2>1. Submitted' = Submitted /\ Mined' = Mined /\ Burned' = Burned
    BY <1>2 DEF IrisAttests, RelayedByOther, Submitted, Mined, Burned
  <2>2. ChainsOrdered'
    <3>1. IrisAttests(b) => b \in Burned
      BY DEF IrisAttests, Burned
    <3> QED BY <1>2, <2>1, <3>1
        DEF IrisAttests, RelayedByOther, IInv, ChainsOrdered
  <2>3. source' = source /\ attested \subseteq attested' /\ minted \subseteq minted'
    BY <1>2 DEF IrisAttests, RelayedByOther
  <2>4. UNCHANGED client
    BY <1>2 DEF IrisAttests, RelayedByOther
  <2> QED BY <2>1, <2>2, <2>3, <2>4, ChainsKeep DEF client, IInv, TypeOK
<1>3. ASSUME NEW f \in Flow, MintMined(f) \/ MintReverted(f) PROVE IInv'
  <2>1. source' = source /\ attested' = attested
    BY <1>3 DEF MintMined, MintReverted, chains
  <2>2. Submitted' = Submitted /\ Mined' = Mined /\ Burned' = Burned
    BY <2>1 DEF Submitted, Mined, Burned
  <2>3. minted \subseteq minted' /\ minted' \subseteq minted \cup {flow[f].burn}
    BY <1>3 DEF MintMined, MintReverted, chains
  <2>4. flow[f].burn \in attested
    BY <1>3 DEF MintMined, MintReverted, IInv, FlowsKnow, FlowKnows
  <2>5. ChainsOrdered'
    BY <2>1, <2>2, <2>3, <2>4 DEF IInv, ChainsOrdered
  <2>6. source' \in [Burn -> {"unused", "pending", "mined", "reverted", "replaced"}]
    BY <2>1 DEF IInv, TypeOK
  <2>7. CASE MintMined(f)
    BY <2>1, <2>2, <2>3, <2>5, <2>6, <2>7, ChainsKeep DEF MintMined
  <2>8. CASE MintReverted(f)
    BY <2>1, <2>2, <2>3, <2>5, <2>6, <2>8, ChainsKeep DEF MintReverted, chains
  <2> QED BY <1>3, <2>7, <2>8
<1> QED BY <1>1, <1>2, <1>3 DEF Chains

-----------------------------------------------------------------------------

LEMMA InitHolds == Init => IInv
<1> SUFFICES ASSUME Init PROVE IInv
  OBVIOUS
<1>1. TypeOK
  BY DEF Init, TypeOK, Status, IdleStatus, Refs, NoRefs, Run, PC, Off
<1>2. FlowsKnow /\ StoredGenuine /\ ShownGenuine /\ ChainsOrdered /\ ReportedIsMinted
  BY DEF Init, IdleStatus, NoRefs, Off, FlowsKnow, FlowKnows, StoredGenuine, Genuine,
         ShownGenuine, ChainsOrdered, ReportedIsMinted
<1> QED BY <1>1, <1>2 DEF IInv

LEMMA StutterKeeps == IInv /\ UNCHANGED vars => IInv'
BY DEF vars, IInv, TypeOK, FlowsKnow, FlowKnows, StoredGenuine, Genuine, ShownGenuine,
       ChainsOrdered, ReportedIsMinted, Submitted, Mined, Burned

LEMMA NextKeeps == IInv /\ [Next]_vars => IInv'
BY UserKeeps, ExecutionKeeps, ChainsActionsKeep, StutterKeeps DEF Next

\* The inductive invariant holds of the client whatever its users do.
THEOREM Invariant == Spec => []IInv
BY InitHolds, NextKeeps, PTL DEF Spec

\* Every variable keeps its type.
THEOREM TypeCorrect == Spec => []TypeOK
<1>1. IInv => TypeOK
  BY DEF IInv
<1> QED BY <1>1, Invariant, PTL

\* A transfer shown as done or recorded in the history has been received on the
\* destination chain, under every interleaving of tabs, executions and reloads.
THEOREM ReportsAreTrue == Spec => []ReportedIsMinted
<1>1. IInv => ReportedIsMinted
  BY DEF IInv
<1> QED BY <1>1, Invariant, PTL

\* A stored or displayed burn hash was broadcast, and a stored source message comes
\* from a mined burn.
THEOREM NothingInvented == Spec => []SavedBurnIsReal
<1>1. IInv => SavedBurnIsReal
  BY DEF IInv, TypeOK, Session, StoredGenuine, Genuine, ShownGenuine, SavedBurnIsReal,
         Submitted, Mined
<1> QED BY <1>1, Invariant, PTL

-----------------------------------------------------------------------------
(* The client implements CctpTransfer. *)

Implements == [Transfer!Next]_<<Burned, minted, history>>

LEMMA ExecutionImplements ==
  ASSUME IInv, IInv', NEW f \in Flow, Execution(f) PROVE Implements
<1>1. ASSUME FlowFails(f) PROVE Implements
  BY <1>1 DEF FlowFails, chains, Throw, Implements, Burned
<1>2. ASSUME NEW c \in Burn, BurnBroadcast(f, c) PROVE Implements
  <2>1. Burned' = Burned
    BY <1>2 DEF BurnBroadcast, IInv, TypeOK, Burned
  <2> QED BY <1>2, <2>1 DEF BurnBroadcast, Implements
<1>3. ASSUME \/ BurnHashReturned(f) \/ BurnConfirmed(f) \/ ReceiptVerified(f)
             \/ PollPending(f) \/ AttestationFetched(f) \/ MintBroadcast(f)
      PROVE  Implements
  <2>1. UNCHANGED <<history, chains>>
    BY <1>3 DEF BurnHashReturned, BurnConfirmed, ReceiptVerified, PollPending,
                AttestationFetched, MintBroadcast
  <2> QED BY <2>1 DEF Implements, Burned, chains
<1>4. ASSUME AlreadyMinted(f) \/ MintConfirmed(f) PROVE Implements
  <2>1. Burned' = Burned /\ minted' = minted
    BY <1>4 DEF AlreadyMinted, MintConfirmed, chains, Burned
  <2>2. history' = history \cup {flow[f].burn}
    BY <1>4 DEF AlreadyMinted, MintConfirmed, Succeed
  <2>3. flow[f].burn \in minted
    BY <1>4 DEF AlreadyMinted, MintConfirmed, IInv, FlowsKnow, FlowKnows
  <2>4. flow[f].burn \in Burn
    BY <2>3 DEF IInv, TypeOK
  <2>5. Transfer!ReportComplete(flow[f].burn)
    BY <2>1, <2>2, <2>3 DEF Transfer!ReportComplete, Burned
  <2> QED BY <2>4, <2>5 DEF Transfer!Next, Implements
<1> QED BY <1>1, <1>2, <1>3, <1>4 DEF Execution

\* A burn settles as one burn of funds, or as none when it reverts.
LEMMA SettlingImplements ==
  ASSUME IInv, NEW b \in Burn, SourceSettles(b) PROVE Implements
<1>1. minted' = minted /\ history' = history
  BY DEF SourceSettles, client
<1>2. b \notin Burned
  BY DEF SourceSettles, Burned
<1>3. CASE source'[b] = "reverted"
  <2>1. Burned' = Burned
    BY <1>3 DEF SourceSettles, IInv, TypeOK, Burned
  <2> QED BY <1>1, <2>1 DEF Implements
<1>4. CASE source'[b] \in {"mined", "replaced"}
  <2>1. Burned' = Burned \cup {b}
    BY <1>4 DEF SourceSettles, IInv, TypeOK, Burned
  <2>2. Transfer!BurnFunds(b)
    BY <1>1, <1>2, <2>1 DEF Transfer!BurnFunds, Burned
  <2> QED BY <2>2 DEF Transfer!Next, Implements
<1> QED BY <1>3, <1>4 DEF SourceSettles, IInv, TypeOK

\* An attested message that arrives for the first time mints funds that were burned.
LEMMA ArrivalImplements ==
  ASSUME IInv, NEW b \in attested, UNCHANGED <<source, history>>,
         minted' \in {minted, minted \cup {b}}
  PROVE  Implements
<1>1. Burned' = Burned /\ b \in Burned /\ b \in Burn
  BY DEF IInv, TypeOK, ChainsOrdered, Burned
<1>2. CASE minted' = minted
  BY <1>1, <1>2 DEF Implements
<1>3. CASE minted' = minted \cup {b} /\ b \notin minted
  <2>1. Transfer!MintFunds(b)
    BY <1>1, <1>3 DEF Transfer!MintFunds, Burned
  <2> QED BY <1>1, <2>1 DEF Transfer!Next, Implements
<1> QED BY <1>2, <1>3

LEMMA ChainsImplement == ASSUME IInv, Chains PROVE Implements
<1>1. ASSUME NEW b \in Burn, IrisAttests(b) PROVE Implements
  BY <1>1 DEF IrisAttests, client, Implements, Burned
<1>2. ASSUME NEW b \in Burn, RelayedByOther(b) PROVE Implements
  BY <1>2, ArrivalImplements DEF RelayedByOther, client
<1>3. ASSUME NEW f \in Flow, MintMined(f) \/ MintReverted(f) PROVE Implements
  <2>1. flow[f].burn \in attested
    BY <1>3 DEF MintMined, MintReverted, IInv, FlowsKnow, FlowKnows
  <2> QED BY <1>3, <2>1, ArrivalImplements DEF MintMined, MintReverted, chains
<1> QED BY <1>1, <1>2, <1>3, SettlingImplements DEF Chains

LEMMA UserImplements == ASSUME NEW t \in Tab, User(t) PROVE Implements
<1>1. UNCHANGED <<history, source, minted>>
  BY DEF User, ClickBridge, ClickResume, ClickResumeSaved, ClickReset, ClickDismiss,
         Reload, chains
<1> QED BY <1>1 DEF Implements, Burned

LEMMA NextImplements == IInv /\ IInv' /\ [Next]_vars => Implements
<1>1. UNCHANGED vars => Implements
  BY DEF vars, Implements, Burned
<1> QED BY <1>1, UserImplements, ExecutionImplements, ChainsImplement DEF Next

\* Every behaviour of the client and the chains is one of the abstract bridge: funds
\* are minted only for a burn that took effect, once, and reported only when minted.
THEOREM ClientImplementsTransfer == Spec => ImplementsTransfer
<1>1. Init => Transfer!Init
  BY DEF Init, Transfer!Init
<1>2. Implements => [Transfer!Next]_<<{b \in Burn : source[b] \in {"mined", "replaced"}}, minted, history>>
  BY DEF Implements, Burned
<1>3. IInv /\ IInv' /\ [Next]_vars
        => [Transfer!Next]_<<{b \in Burn : source[b] \in {"mined", "replaced"}}, minted, history>>
  BY <1>2, NextImplements
<1> QED BY <1>1, <1>3, Invariant, PTL DEF Spec, ImplementsTransfer, Transfer!Spec

-----------------------------------------------------------------------------
(* What an execution may do to the session when it ends. *)

OwnSessionStep ==
  \A f \in Flow :
     /\ Alive(f) /\ flow'[f].pc = "off"
     /\ session # None /\ session.burn = flow[f].burn /\ Loadable(session.burn)
     /\ session' = None
     => session.burn \in minted

\* An execution that ends removes the session of its own burn only when that burn has
\* been delivered: no error path forgets a submitted burn.
THEOREM ErrorsForgetNothing == Spec => OwnSessionKept
<1>1. ASSUME IInv, [Next]_vars, NEW f \in Flow,
             Alive(f), flow'[f].pc = "off", session # None,
             session.burn = flow[f].burn, Loadable(session.burn), session' = None
      PROVE  session.burn \in minted
  <2>1. ASSUME NEW t \in Tab, User(t) PROVE FALSE
    <3>1. flow \in [Flow -> Run]
      BY <1>1 DEF IInv, TypeOK
    <3>2. ASSUME NEW g \in Flow, ClickBridge(t, g) PROVE FALSE
      BY <1>1, <3>1, <3>2 DEF ClickBridge, Alive
    <3>3. ASSUME NEW g \in Flow, ClickResume(t, g) PROVE FALSE
      BY <1>1, <3>1, <3>3 DEF ClickResume, BeginResume, Alive
    <3>4. ASSUME NEW g \in Flow, ClickResumeSaved(t, g) PROVE FALSE
      BY <1>1, <3>1, <3>4 DEF ClickResumeSaved, BeginResume, Alive
    <3>5. ASSUME ClickReset(t) \/ ClickDismiss(t) PROVE FALSE
      BY <1>1, <3>5 DEF ClickReset, ClickDismiss, Alive
    <3>6. ASSUME Reload(t) PROVE FALSE
      BY <1>1, <3>6 DEF Reload
    <3> QED BY <2>1, <3>2, <3>3, <3>4, <3>5, <3>6 DEF User
  <2>2. ASSUME NEW g \in Flow, Execution(g) PROVE session.burn \in minted
    <3>1. flow \in [Flow -> Run]
      BY <1>1 DEF IInv, TypeOK
    <3>2. ASSUME FlowFails(g) PROVE FALSE
      BY <1>1, <3>2 DEF FlowFails, Throw
    <3>3. ASSUME NEW c \in Burn, BurnBroadcast(g, c) PROVE FALSE
      BY <1>1, <3>1, <3>3 DEF BurnBroadcast, Alive
    <3>4. ASSUME \/ BurnHashReturned(g) \/ BurnConfirmed(g) \/ ReceiptVerified(g)
                 \/ AttestationFetched(g)
          PROVE  FALSE
      <4>1. \E pc \in {"burnWait", "poll", "switch"} : GoTo(g, pc)
        BY <3>4 DEF BurnHashReturned, BurnConfirmed, ReceiptVerified, AttestationFetched
      <4> QED BY <1>1, <3>1, <4>1 DEF GoTo, Alive
    <3>5. ASSUME PollPending(g) PROVE FALSE
      BY <1>1, <3>5 DEF PollPending, Alive
    <3>6. ASSUME MintBroadcast(g) PROVE FALSE
      BY <1>1, <3>1, <3>6 DEF MintBroadcast, Alive
    <3>7. ASSUME AlreadyMinted(g) \/ MintConfirmed(g) PROVE session.burn \in minted
      <4>1. flow' = [flow EXCEPT ![g] = Off]
        BY <3>7 DEF AlreadyMinted, MintConfirmed, Succeed
      <4>2. g = f
        BY <1>1, <3>1, <4>1 DEF Alive
      <4>3. flow[g].burn \in minted
        BY <1>1, <3>7 DEF AlreadyMinted, MintConfirmed, IInv, FlowsKnow, FlowKnows
      <4> QED BY <1>1, <4>2, <4>3
    <3> QED BY <2>2, <3>2, <3>3, <3>4, <3>5, <3>6, <3>7 DEF Execution
  <2>3. ASSUME Chains PROVE FALSE
    <3>1. flow \in [Flow -> Run]
      BY <1>1 DEF IInv, TypeOK
    <3>2. session' = session
      BY <2>3 DEF Chains, SourceSettles, IrisAttests, RelayedByOther,
                  MintMined, MintReverted, client
    <3> QED BY <1>1, <3>2
  <2>4. ASSUME UNCHANGED vars PROVE FALSE
    BY <1>1, <2>4 DEF vars
  <2> QED BY <1>1, <2>1, <2>2, <2>3, <2>4 DEF Next
<1>2. IInv /\ [Next]_vars => OwnSessionStep
  BY <1>1 DEF OwnSessionStep
<1>3. IInv /\ [Next]_vars => [OwnSessionStep]_vars
  BY <1>2
<1> QED BY <1>3, Invariant, PTL DEF Spec, OwnSessionKept, OwnSessionStep

-----------------------------------------------------------------------------
(* Whoever shows work has an execution. *)

\* The end of an execution leaves its page with an outcome, and the start of one or a
\* status callback leaves it with a live execution.
LEMMA BusyKept ==
  ASSUME IInv, BusyPageHasExecution, [Next]_vars
  PROVE  BusyPageHasExecution'
<1>1. flow \in [Flow -> Run] /\ bridgeStatus \in [Tab -> Status]
  BY DEF IInv, TypeOK
\* An execution that lives on, with the page at work or not.
<1>2. ASSUME NEW f \in Flow, flow'[f].pc # "off", flow'[f].tab = flow[f].tab,
             \A g \in Flow \ {f} : flow'[g] = flow[g],
             \A t \in Tab \ {flow[f].tab} : bridgeStatus'[t] = bridgeStatus[t]
      PROVE  BusyPageHasExecution'
  BY <1>2 DEF BusyPageHasExecution, Alive
\* An execution that ends.
<1>3. ASSUME NEW f \in Flow, flow' = [flow EXCEPT ![f] = Off],
             flow[f].tab \in Tab => bridgeStatus'[flow[f].tab].step # "busy",
             \A t \in Tab \ {flow[f].tab} : bridgeStatus'[t] = bridgeStatus[t]
      PROVE  BusyPageHasExecution'
  <2>1. ASSUME NEW t \in Tab, bridgeStatus'[t].step = "busy"
        PROVE  \E g \in Flow : flow'[g].pc # "off" /\ flow'[g].tab = t
    <3>1. t # flow[f].tab /\ bridgeStatus[t].step = "busy"
      BY <1>1, <1>3, <2>1
    <3>2. PICK g \in Flow : flow[g].pc # "off" /\ flow[g].tab = t
      BY <3>1 DEF BusyPageHasExecution, Alive
    <3>3. g # f /\ flow'[g] = flow[g]
      BY <1>1, <1>3, <3>1, <3>2
    <3> QED
      BY <3>2, <3>3
  <2> QED
    BY <2>1 DEF BusyPageHasExecution, Alive
\* A page whose executions only become more.
<1>4. ASSUME \A g \in Flow : flow[g].pc # "off" => flow'[g].pc # "off" /\ flow'[g].tab = flow[g].tab,
             NEW t \in Tab,
             bridgeStatus'[t].step = "busy"
               => bridgeStatus[t].step = "busy" \/ \E g \in Flow : flow'[g].pc # "off" /\ flow'[g].tab = t,
             \A u \in Tab \ {t} : bridgeStatus'[u] = bridgeStatus[u]
      PROVE  BusyPageHasExecution'
  BY <1>4 DEF BusyPageHasExecution, Alive
<1>5. ASSUME NEW t \in Tab, User(t)
      PROVE  BusyPageHasExecution'
  <2>1. ASSUME NEW f \in Flow, ClickBridge(t, f) PROVE BusyPageHasExecution'
    <3>1. /\ flow[f].pc = "off" /\ flow'[f].pc = "preflight" /\ flow'[f].tab = t
          /\ \A g \in Flow \ {f} : flow'[g] = flow[g]
          /\ \A u \in Tab \ {t} : bridgeStatus'[u] = bridgeStatus[u]
      BY <1>1, <2>1 DEF ClickBridge, Alive
    <3> QED
      BY <1>4, <3>1
  <2>2. ASSUME NEW f \in Flow, NEW b, BeginResume(t, f, b), ~Alive(f), UNCHANGED bridgeStatus
        PROVE  BusyPageHasExecution'
    <3>1. /\ flow[f].pc = "off" /\ flow'[f].pc = "recheck" /\ flow'[f].tab = t
          /\ \A g \in Flow \ {f} : flow'[g] = flow[g]
      BY <1>1, <2>2 DEF BeginResume, Alive
    <3> QED
      BY <1>4, <2>2, <3>1
  <2>3. ASSUME NEW f \in Flow, ClickResume(t, f) PROVE BusyPageHasExecution'
    BY <2>2, <2>3 DEF ClickResume
  <2>4. ASSUME NEW f \in Flow, ClickResumeSaved(t, f) PROVE BusyPageHasExecution'
    <3>1. CASE Loadable(session.burn)
      BY <2>2, <2>4, <3>1 DEF ClickResumeSaved
    <3>2. CASE ~Loadable(session.burn)
      BY <2>4, <3>2 DEF ClickResumeSaved, BusyPageHasExecution, Alive
    <3> QED
      BY <3>1, <3>2
  <2>5. ASSUME ClickReset(t) PROVE BusyPageHasExecution'
    <3>1. /\ flow' = flow /\ bridgeStatus'[t].step = "idle"
          /\ \A u \in Tab \ {t} : bridgeStatus'[u] = bridgeStatus[u]
      BY <1>1, <2>5 DEF ClickReset, IdleStatus
    <3> QED
      BY <1>4, <3>1
  <2>6. ASSUME ClickDismiss(t) PROVE BusyPageHasExecution'
    BY <2>6 DEF ClickDismiss, BusyPageHasExecution, Alive
  <2>7. ASSUME Reload(t) PROVE BusyPageHasExecution'
    <3>1. /\ bridgeStatus'[t].step = "idle"
          /\ \A u \in Tab \ {t} : bridgeStatus'[u] = bridgeStatus[u]
      BY <1>1, <2>7 DEF Reload, IdleStatus
    <3>2. \A g \in Flow : flow[g].tab # t => flow'[g] = flow[g]
      BY <2>7 DEF Reload
    <3> QED
      BY <3>1, <3>2 DEF BusyPageHasExecution, Alive
  <2> QED
    BY <1>5, <2>1, <2>3, <2>4, <2>5, <2>6, <2>7 DEF User
<1>6. ASSUME NEW f \in Flow, Execution(f)
      PROVE  BusyPageHasExecution'
  <2>1. ASSUME FlowFails(f) PROVE BusyPageHasExecution'
    <3>1. /\ flow[f].tab \in Tab => bridgeStatus'[flow[f].tab].step = "error"
          /\ \A t \in Tab \ {flow[f].tab} : bridgeStatus'[t] = bridgeStatus[t]
      BY <1>1, <2>1 DEF FlowFails, Throw
    <3>2. flow' = [flow EXCEPT ![f] = Off]
      BY <2>1 DEF FlowFails, Throw
    <3> QED
      BY <1>3, <3>1, <3>2
  <2>2. ASSUME AlreadyMinted(f) \/ MintConfirmed(f) PROVE BusyPageHasExecution'
    <3>1. PICK mint \in BOOLEAN : Succeed(f, mint)
      BY <2>2 DEF AlreadyMinted, MintConfirmed
    <3>2. /\ flow[f].tab \in Tab => bridgeStatus'[flow[f].tab].step = "done"
          /\ \A t \in Tab \ {flow[f].tab} : bridgeStatus'[t] = bridgeStatus[t]
      BY <1>1, <3>1 DEF Succeed
    <3>3. flow' = [flow EXCEPT ![f] = Off]
      BY <3>1 DEF Succeed
    <3> QED
      BY <1>3, <3>2, <3>3
  <2>3. ASSUME NEW step, NEW mint, NEW identity, Report(f, step, mint, identity)
        PROVE  \A t \in Tab \ {flow[f].tab} : bridgeStatus'[t] = bridgeStatus[t]
    BY <1>1, <2>3 DEF Report
  <2>4. ASSUME NEW b \in Burn, BurnBroadcast(f, b) PROVE BusyPageHasExecution'
    <3>1. /\ flow'[f].pc = "sent" /\ flow'[f].tab = flow[f].tab
          /\ \A g \in Flow \ {f} : flow'[g] = flow[g]
      BY <1>1, <2>4 DEF BurnBroadcast, Run
    <3>2. \A t \in Tab \ {flow[f].tab} : bridgeStatus'[t] = bridgeStatus[t]
      BY <1>1, <2>4 DEF BurnBroadcast
    <3> QED
      BY <1>2, <3>1, <3>2
  <2>5. ASSUME NEW pc \in PC \ {"off"}, NEW step, NEW mint, NEW identity,
               GoTo(f, pc), Report(f, step, mint, identity)
        PROVE  BusyPageHasExecution'
    <3>1. /\ flow'[f].pc = pc /\ flow'[f].tab = flow[f].tab
          /\ \A g \in Flow \ {f} : flow'[g] = flow[g]
      BY <1>1, <2>5 DEF GoTo, Run
    <3> QED
      BY <1>2, <2>3, <2>5, <3>1
  <2>6. ASSUME \/ BurnHashReturned(f) \/ BurnConfirmed(f) \/ ReceiptVerified(f)
               \/ AttestationFetched(f)
        PROVE  BusyPageHasExecution'
    BY <2>5, <2>6 DEF BurnHashReturned, BurnConfirmed, ReceiptVerified, AttestationFetched, PC
  <2>7. ASSUME PollPending(f) PROVE BusyPageHasExecution'
    <3>1. /\ flow' = flow /\ flow[f].pc = "poll"
          /\ \A t \in Tab \ {flow[f].tab} : bridgeStatus'[t] = bridgeStatus[t]
      BY <1>1, <2>7 DEF PollPending, Report
    <3> QED
      BY <1>2, <3>1
  <2>8. ASSUME MintBroadcast(f) PROVE BusyPageHasExecution'
    <3>1. /\ flow'[f].pc = "mintWait" /\ flow'[f].tab = flow[f].tab
          /\ \A g \in Flow \ {f} : flow'[g] = flow[g]
      BY <1>1, <2>8 DEF MintBroadcast, Run
    <3> QED
      BY <1>2, <2>3, <2>8, <3>1 DEF MintBroadcast
  <2> QED
    BY <1>6, <2>1, <2>2, <2>4, <2>6, <2>7, <2>8 DEF Execution
<1>7. CASE Chains
  <2>1. bridgeStatus' = bridgeStatus
    BY <1>7 DEF Chains, SourceSettles, IrisAttests, RelayedByOther, MintMined,
                MintReverted, client
  <2>2. flow' = flow \/ \E f \in Flow, tx \in {"ok", "reverted"} : flow' = [flow EXCEPT ![f].tx = tx]
    BY <1>7 DEF Chains, SourceSettles, IrisAttests, RelayedByOther, MintMined,
                MintReverted, client
  <2>3. \A f \in Flow : flow'[f].pc = flow[f].pc /\ flow'[f].tab = flow[f].tab
    BY <1>1, <2>2 DEF Run
  <2> QED
    BY <2>1, <2>3 DEF BusyPageHasExecution, Alive
<1>8. CASE UNCHANGED vars
  BY <1>8 DEF vars, BusyPageHasExecution, Alive
<1> QED
  BY <1>5, <1>6, <1>7, <1>8 DEF Next

\* No page works for ever on behalf of an execution that has ended, whichever of
\* several executions in its tab ends first.
THEOREM BusyPagesWork == Spec => []BusyPageHasExecution
<1>1. Init => BusyPageHasExecution
  BY DEF Init, IdleStatus, BusyPageHasExecution
<1> QED
  BY <1>1, BusyKept, Invariant, PTL DEF Spec
=============================================================================
