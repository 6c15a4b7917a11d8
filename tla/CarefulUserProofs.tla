------------------------- MODULE CarefulUserProofs -------------------------
(***************************************************************************)
(* What the bridge client guarantees to a careful user of one tab whose    *)
(* browser stores: a submitted burn is stored and stays stored, and every  *)
(* error and every idle page leads back to it.  With one execution at a    *)
(* time, storage, page and refs are determined by where the execution      *)
(* stands, and by how the last one ended; that is the invariant.           *)
(***************************************************************************)
EXTENDS BridgeClientProofs

CarefulUse ==
  /\ Careful
  /\ StorageReliable
  /\ \E t \in Tab : Tab = {t}

OneAtATime == \A f, g \in Flow : Alive(f) /\ Alive(g) => f = g

\* Until its hash returns a transfer has nothing stored; then its burn is.
Stored(f) ==
  /\ flow[f].pc \in {"preflight", "sent"} => session = None /\ flow[f].kind = "bridge"
  /\ flow[f].pc \notin {"off", "preflight", "sent"} => Tracked(flow[f].burn)

\* A resume shows its first status only when it has verified the receipt.
Shown(t, f) ==
  /\ flow[f].pc = "recheck" => bridgeStatus[t].step \in {"idle", "error"}
  /\ flow[f].pc \notin {"off", "recheck"} => bridgeStatus[t].step = "busy"

\* What an error would show: the burn, and that the mint was reached or was not.
Remembered(t, f) ==
  /\ flow[f].pc \in {"preflight", "sent"} => ~refs[t].mint
  /\ flow[f].pc \in {"recheck", "burnWait", "poll"}
       => refs[t].burn = flow[f].burn /\ ~refs[t].mint
  /\ flow[f].pc \in {"switch", "mintWait"} => refs[t].step = "minting"

\* The resume banner offers what is stored, to an idle page.
Banner(t) ==
  resumeSession[t] # None
    => session = resumeSession[t] /\ NothingRuns /\ bridgeStatus[t].step = "idle"

\* Whoever has come to the mint knows the burn.
MintingHasBurn(t) ==
  /\ refs[t].step = "minting" => refs[t].burn # None
  /\ bridgeStatus[t].step = "error" /\ bridgeStatus[t].failedAt = "minting"
       => bridgeStatus[t].burn # None

\* What a page that shows no work says of the storage.
Resting(t) ==
  /\ bridgeStatus[t].step = "idle" => ~refs[t].mint
  /\ bridgeStatus[t].step = "done" => session = None
  /\ bridgeStatus[t].step = "error" /\ session # None => OffersResume(t)
  /\ bridgeStatus[t].step = "idle" /\ session # None /\ NothingRuns
       => resumeSession[t] = session

CInv ==
  /\ OneAtATime
  /\ \A f \in Flow : Stored(f)
  /\ \A t \in Tab, f \in Flow : Shown(t, f) /\ Remembered(t, f)
  /\ \A t \in Tab : Banner(t) /\ MintingHasBurn(t) /\ Resting(t)

-----------------------------------------------------------------------------

LEMMA OthersAreOff ==
  ASSUME CInv, NEW f \in Flow, Alive(f)
  PROVE  \A g \in Flow \ {f} : flow[g].pc = "off"
BY DEF CInv, OneAtATime, Alive

\* Where at most f runs, the invariant is what it says of f and of the page.
LEMMA OneRuns ==
  ASSUME IInv, NEW t, Tab = {t}, NEW f \in Flow, NEW run,
         \A g \in Flow \ {f} : flow[g].pc = "off",
         flow' = [flow EXCEPT ![f] = run],
         resumeSession'[t] = None,
         Stored(f)', Shown(t, f)', Remembered(t, f)',
         MintingHasBurn(t)', Resting(t)'
  PROVE  CInv'
<1>1. \A g \in Flow \ {f} : flow'[g].pc = "off"
  BY DEF IInv, TypeOK
<1>2. OneAtATime'
  BY <1>1 DEF OneAtATime, Alive
<1>3. ASSUME NEW g \in Flow PROVE Stored(g)' /\ Shown(t, g)' /\ Remembered(t, g)'
  BY <1>1 DEF Stored, Shown, Remembered
<1>4. Banner(t)'
  BY DEF Banner
<1> QED
  BY <1>2, <1>3, <1>4 DEF CInv

\* Where nothing runs, it is what it says of the page and the banner.
LEMMA NoneRuns ==
  ASSUME NEW t, Tab = {t}, NothingRuns', Banner(t)', MintingHasBurn(t)', Resting(t)'
  PROVE  CInv'
<1>1. \A g \in Flow : flow'[g].pc = "off"
  BY DEF NothingRuns, Alive
<1>2. OneAtATime' /\ \A g \in Flow : Stored(g)' /\ Shown(t, g)' /\ Remembered(t, g)'
  BY <1>1 DEF OneAtATime, Alive, Stored, Shown, Remembered
<1> QED
  BY <1>2 DEF CInv

\* A new transfer starts where nothing is stored, a resume from what is stored.
LEMMA UserIsCareful ==
  ASSUME IInv, CInv, CarefulUse, NEW t, Tab = {t}, User(t)
  PROVE  CInv'
<1>1. /\ bridgeStatus \in [Tab -> Status] /\ refs \in [Tab -> Refs]
      /\ flow \in [Flow -> Run]
      /\ resumeSession \in [Tab -> Session \cup {None}]
      /\ t \in Tab
  BY DEF IInv, TypeOK
<1>2. Banner(t) /\ MintingHasBurn(t) /\ Resting(t)
  BY <1>1 DEF CInv
<1>3. ASSUME NEW f \in Flow, ClickBridge(t, f)
      PROVE  CInv'
  <2>1. /\ bridgeStatus[t].step = "idle" /\ NothingRuns
        /\ session = None /\ session' = None
        /\ resumeSession' = resumeSession
        /\ flow' = [flow EXCEPT ![f] =
             [pc |-> "preflight", tab |-> t, kind |-> "bridge", burn |-> None, tx |-> "none"]]
        /\ bridgeStatus' = [bridgeStatus EXCEPT ![t] = [IdleStatus EXCEPT !.step = "busy"]]
        /\ refs' = [refs EXCEPT ![t].burn = None, ![t].step = "early"]
    BY <1>3 DEF ClickBridge, OffersTransfer, CarefulUse
  <2>2. resumeSession'[t] = None
    BY <1>2, <2>1 DEF Banner
  <2>3. flow'[f].pc = "preflight" /\ flow'[f].kind = "bridge"
    BY <1>1, <2>1
  <2>4. bridgeStatus'[t].step = "busy"
    BY <1>1, <2>1 DEF IdleStatus
  <2>5. refs'[t].mint = refs[t].mint /\ refs'[t].step = "early"
    BY <1>1, <2>1 DEF Refs
  <2>6. Stored(f)' /\ Shown(t, f)' /\ Remembered(t, f)' /\ MintingHasBurn(t)' /\ Resting(t)'
    BY <1>2, <2>1, <2>3, <2>4, <2>5
    DEF Stored, Shown, Remembered, MintingHasBurn, Resting
  <2> QED
    BY <2>1, <2>2, <2>6, OneRuns DEF NothingRuns, Alive
<1>4. ASSUME NEW f \in Flow, session # None, NothingRuns, BeginResume(t, f, session.burn),
             bridgeStatus[t].step \in {"idle", "error"},
             UNCHANGED <<session, bridgeStatus>>
      PROVE  CInv'
  <2>1. /\ flow' = [flow EXCEPT ![f] =
             [pc |-> "recheck", tab |-> t, kind |-> "resume", burn |-> session.burn, tx |-> "none"]]
        /\ resumeSession' = [resumeSession EXCEPT ![t] = None]
        /\ refs' = [refs EXCEPT ![t] = [NoRefs EXCEPT !.burn = session.burn]]
    BY <1>4 DEF BeginResume
  <2>2. resumeSession'[t] = None
    BY <1>1, <2>1
  <2>3. flow'[f].pc = "recheck" /\ flow'[f].burn = session.burn
    BY <1>1, <2>1
  <2>4. refs'[t].burn = session.burn /\ refs'[t].mint = FALSE /\ refs'[t].step = "early"
    BY <1>1, <2>1 DEF NoRefs
  <2>5. Stored(f)' /\ Shown(t, f)' /\ Remembered(t, f)'
    BY <1>4, <2>3, <2>4 DEF Stored, Shown, Remembered, Tracked
  <2>6. ~NothingRuns'
    BY <2>3 DEF NothingRuns, Alive
  <2>7. MintingHasBurn(t)' /\ Resting(t)'
    BY <1>2, <1>4, <2>4, <2>6 DEF MintingHasBurn, Resting, OffersResume
  <2> QED
    BY <1>4, <2>1, <2>2, <2>5, <2>7, OneRuns DEF NothingRuns, Alive
<1>5. ASSUME NEW f \in Flow, ClickResume(t, f)
      PROVE  CInv'
  BY <1>2, <1>4, <1>5 DEF ClickResume, Banner, CarefulUse
<1>6. ASSUME NEW f \in Flow, ClickResumeSaved(t, f)
      PROVE  CInv'
  <2>1. NothingRuns /\ session # None /\ bridgeStatus[t].step = "error"
    BY <1>6 DEF ClickResumeSaved, OffersResume, CarefulUse
  <2>2. CASE Loadable(session.burn)
    BY <1>4, <1>6, <2>1, <2>2 DEF ClickResumeSaved
  <2>3. CASE ~Loadable(session.burn)
    <3>1. session' = None /\ UNCHANGED <<flow, resumeSession, refs, bridgeStatus>>
      BY <1>6, <2>3 DEF ClickResumeSaved, ClearSession
    <3>2. NothingRuns' /\ Banner(t)'
      BY <1>2, <2>1, <3>1 DEF NothingRuns, Alive, Banner
    <3>3. MintingHasBurn(t)' /\ Resting(t)'
      BY <1>2, <2>1, <3>1 DEF MintingHasBurn, Resting
    <3> QED
      BY <3>2, <3>3, NoneRuns
  <2> QED
    BY <2>2, <2>3
<1>7. ASSUME NEW g \in Flow, Alive(g), OffersReset(t)
      PROVE  FALSE
  <2>1. flow[g].pc = "recheck" /\ bridgeStatus[t].step = "error"
    BY <1>1, <1>7 DEF CInv, Shown, Alive, OffersReset
  <2>2. session # None
    BY <2>1 DEF CInv, Stored, Tracked
  <2>3. bridgeStatus[t].burn # None
    BY <1>2, <2>1, <2>2 DEF Resting, MintingHasBurn, OffersResume
  <2> QED
    BY <1>7, <2>1, <2>3 DEF OffersReset
<1>8. ASSUME ClickReset(t)
      PROVE  CInv'
  <2>1. /\ bridgeStatus' = [bridgeStatus EXCEPT ![t] = IdleStatus]
        /\ refs' = [refs EXCEPT ![t] = NoRefs]
        /\ UNCHANGED <<resumeSession, flow>>
        /\ session' = None
        /\ OffersReset(t)
    BY <1>8 DEF ClickReset, ClearSession
  <2>2. NothingRuns /\ NothingRuns'
    BY <1>7, <2>1 DEF NothingRuns, Alive
  <2>3. resumeSession'[t] = None
    BY <1>2, <2>1 DEF Banner, OffersReset
  <2>4. bridgeStatus'[t] = IdleStatus /\ refs'[t] = NoRefs
    BY <1>1, <2>1
  <2>5. Banner(t)' /\ MintingHasBurn(t)' /\ Resting(t)'
    BY <2>1, <2>3, <2>4 DEF Banner, MintingHasBurn, Resting, IdleStatus, NoRefs
  <2> QED
    BY <2>2, <2>5, NoneRuns
<1>9. ASSUME ClickDismiss(t)
      PROVE  CInv'
  <2>1. /\ NothingRuns /\ bridgeStatus[t].step = "idle"
        /\ resumeSession' = [resumeSession EXCEPT ![t] = None]
        /\ session' = None
        /\ UNCHANGED <<bridgeStatus, refs, flow>>
    BY <1>2, <1>9 DEF ClickDismiss, ClearSession, Banner
  <2>2. NothingRuns'
    BY <2>1 DEF NothingRuns, Alive
  <2>3. resumeSession'[t] = None
    BY <1>1, <2>1
  <2>4. Banner(t)' /\ MintingHasBurn(t)' /\ Resting(t)'
    BY <1>2, <2>1, <2>3 DEF Banner, MintingHasBurn, Resting
  <2> QED
    BY <2>2, <2>4, NoneRuns
<1>10. ASSUME Reload(t)
       PROVE  CInv'
  <2>1. /\ flow' = [f \in Flow |->
             IF f \in {g \in Flow : Alive(g) /\ flow[g].tab = t} THEN Off ELSE flow[f]]
        /\ bridgeStatus' = [bridgeStatus EXCEPT ![t] = IdleStatus]
        /\ refs' = [refs EXCEPT ![t] = NoRefs]
        /\ resumeSession' = [resumeSession EXCEPT ![t] = session']
    BY <1>10 DEF Reload
  <2>2. ASSUME NEW g \in Flow PROVE flow'[g].pc = "off"
    BY <1>1, <2>1 DEF IInv, FlowsKnow, FlowKnows, Alive, Off
  <2>3. NothingRuns'
    BY <2>2 DEF NothingRuns, Alive
  <2>4. /\ bridgeStatus'[t] = IdleStatus /\ refs'[t] = NoRefs
        /\ resumeSession'[t] = session'
    BY <1>1, <2>1
  <2>5. Banner(t)' /\ MintingHasBurn(t)' /\ Resting(t)'
    BY <2>3, <2>4 DEF Banner, MintingHasBurn, Resting, IdleStatus, NoRefs
  <2> QED
    BY <2>3, <2>5, NoneRuns
<1> QED
  BY <1>3, <1>5, <1>6, <1>8, <1>9, <1>10 DEF User

-----------------------------------------------------------------------------
(* The execution. *)

\* A status callback keeps the burn stored and remembers it.
LEMMA ReportIsRemembered ==
  ASSUME IInv, CInv, CarefulUse, NEW t, Tab = {t}, NEW f \in Flow, Alive(f),
         flow[f].pc # "preflight",
         NEW pc \in {"burnWait", "poll", "switch", "mintWait"},
         NEW tx, flow' = [flow EXCEPT ![f].pc = pc, ![f].tx = tx],
         NEW step \in {"early", "minting"}, NEW mint \in BOOLEAN, NEW identity \in BOOLEAN,
         pc \in {"burnWait", "poll"} => ~mint /\ flow[f].pc \in {"sent", "burnWait", "recheck", "poll"},
         pc \in {"switch", "mintWait"} => step = "minting",
         flow[f].kind = "bridge" \/ flow[f].pc # "sent",
         Report(f, step, mint, identity),
         UNCHANGED resumeSession
  PROVE  CInv'
<1> DEFINE b == flow[f].burn
<1>1. /\ bridgeStatus \in [Tab -> Status] /\ refs \in [Tab -> Refs]
      /\ flow \in [Flow -> Run] /\ flow[f] \in Run
      /\ flow[f].tab = t /\ t \in Tab /\ b \in Burn /\ b # None
  BY ConstantsAssumption DEF IInv, TypeOK, FlowsKnow, FlowKnows, Submitted, Alive
<1>2. Stored(f) /\ Remembered(t, f) /\ Banner(t)
  BY <1>1 DEF CInv
<1>3. Tracked(b)'
  <2>1. flow'[f].burn = b
    BY <1>1 DEF Run
  <2>2. CASE flow[f].kind = "bridge"
    <3>1. session' = [burn |-> b, identity |-> identity]
      BY <2>2 DEF Report, SaveSession, CarefulUse
    <3>2. session' # None
      BY <1>1, <3>1, ConstantsAssumption
    <3> QED
      BY <2>1, <3>1, <3>2 DEF Tracked
  <2>3. CASE flow[f].kind # "bridge"
    <3>1. session' = session /\ Tracked(b)
      BY <1>2, <2>3 DEF Report, Stored, Alive
    <3> QED
      BY <2>1, <3>1 DEF Tracked
  <2> QED
    BY <2>2, <2>3
<1>4. /\ bridgeStatus' = [bridgeStatus EXCEPT ![t] =
            [step |-> "busy", burn |-> b, mint |-> mint, failedAt |-> "early"]]
      /\ refs' = [refs EXCEPT ![t] = [burn |-> b, mint |-> @.mint \/ mint, step |-> step]]
  BY <1>1 DEF Report
<1>5. /\ bridgeStatus'[t].step = "busy"
      /\ refs'[t].burn = b /\ refs'[t].step = step
      /\ refs'[t].mint = (refs[t].mint \/ mint)
  BY <1>1, <1>4
<1>6. flow'[f].pc = pc /\ flow'[f].burn = b
  BY <1>1 DEF Run
<1>7. flow' = [flow EXCEPT ![f] = [flow[f] EXCEPT !.pc = pc, !.tx = tx]]
  BY <1>1 DEF Run
<1>8. Stored(f)' /\ Shown(t, f)'
  BY <1>3, <1>5, <1>6 DEF Stored, Shown, Tracked
<1>9. Remembered(t, f)'
  BY <1>2, <1>5, <1>6 DEF Remembered
<1>10. MintingHasBurn(t)' /\ Resting(t)'
  BY <1>1, <1>5 DEF MintingHasBurn, Resting
<1>11. resumeSession'[t] = None
  BY <1>2 DEF Banner, NothingRuns
<1> QED
  BY <1>7, <1>8, <1>9, <1>10, <1>11, OthersAreOff, OneRuns

\* An error offers to resume what is stored.
LEMMA ThrowLeadsBack ==
  ASSUME IInv, CInv, NEW t, Tab = {t}, NEW f \in Flow, FlowFails(f)
  PROVE  CInv'
<1>1. /\ bridgeStatus \in [Tab -> Status] /\ refs \in [Tab -> Refs]
      /\ flow \in [Flow -> Run] /\ flow[f] \in Run /\ t \in Tab
      /\ Alive(f) /\ flow[f].pc \in PC
  BY DEF IInv, TypeOK, FlowFails, Run
<1>2. flow[f].tab = t
  BY <1>1 DEF IInv, FlowsKnow, FlowKnows, Alive
<1>3. Stored(f) /\ Remembered(t, f) /\ Banner(t) /\ MintingHasBurn(t)
  BY <1>1 DEF CInv
<1>4. /\ bridgeStatus' = [bridgeStatus EXCEPT ![t] =
            [step |-> "error", burn |-> refs[t].burn, mint |-> refs[t].mint,
             failedAt |-> refs[t].step]]
      /\ flow' = [flow EXCEPT ![f] = Off]
      /\ UNCHANGED <<session, refs, resumeSession>>
  BY <1>2 DEF FlowFails, Throw
<1>5. /\ bridgeStatus'[t].step = "error" /\ bridgeStatus'[t].burn = refs[t].burn
      /\ bridgeStatus'[t].mint = refs[t].mint /\ bridgeStatus'[t].failedAt = refs[t].step
  BY <1>1, <1>4
<1>6. flow'[f].pc = "off"
  BY <1>1, <1>4 DEF Off
<1>7. Stored(f)' /\ Shown(t, f)' /\ Remembered(t, f)'
  BY <1>6 DEF Stored, Shown, Remembered
<1>8. MintingHasBurn(t)'
  BY <1>3, <1>4, <1>5 DEF MintingHasBurn
<1>9. ASSUME session # None PROVE OffersResume(t)'
  <2>1. flow[f].pc \in {"recheck", "burnWait", "poll", "switch", "mintWait"}
    BY <1>1, <1>3, <1>9 DEF Stored, Alive, PC
  <2>2. CASE flow[f].pc \in {"switch", "mintWait"}
    BY <1>3, <1>5, <2>2 DEF Remembered, OffersResume
  <2>3. CASE flow[f].pc \in {"recheck", "burnWait", "poll"}
    <3>1. flow[f].burn # None
      BY <2>3, ConstantsAssumption DEF IInv, TypeOK, FlowsKnow, FlowKnows, Submitted
    <3> QED
      BY <1>3, <1>5, <2>3, <3>1 DEF Remembered, OffersResume
  <2> QED
    BY <2>1, <2>2, <2>3
<1>10. Resting(t)'
  BY <1>4, <1>5, <1>9 DEF Resting
<1>11. resumeSession'[t] = None
  BY <1>1, <1>3, <1>4 DEF Banner, NothingRuns
<1> QED
  BY <1>1, <1>4, <1>7, <1>8, <1>10, <1>11, OthersAreOff, OneRuns

\* A success leaves nothing stored.
LEMMA SuccessClears ==
  ASSUME IInv, CInv, NEW t, Tab = {t}, NEW f \in Flow,
         flow[f].pc \in {"switch", "mintWait"}, NEW mint \in BOOLEAN,
         Succeed(f, mint), UNCHANGED resumeSession
  PROVE  CInv'
<1>1. /\ bridgeStatus \in [Tab -> Status] /\ refs \in [Tab -> Refs]
      /\ flow \in [Flow -> Run] /\ t \in Tab /\ Alive(f)
  BY DEF IInv, TypeOK, Alive
<1>2. flow[f].tab = t /\ flow[f].burn # None
  BY <1>1, ConstantsAssumption DEF IInv, FlowsKnow, FlowKnows, Alive, Submitted
<1>3. Banner(t) /\ MintingHasBurn(t)
  BY <1>1 DEF CInv
<1>4. /\ bridgeStatus' = [bridgeStatus EXCEPT ![t] =
            [step |-> "done", burn |-> flow[f].burn, mint |-> mint, failedAt |-> "early"]]
      /\ refs' = [refs EXCEPT ![t].burn = flow[f].burn, ![t].mint = @ \/ mint]
      /\ flow' = [flow EXCEPT ![f] = Off]
      /\ session' = None
  BY <1>2 DEF Succeed, ClearSession
<1>5. bridgeStatus'[t].step = "done" /\ flow'[f].pc = "off"
  BY <1>1, <1>4 DEF Off
<1>6. refs'[t].burn = flow[f].burn /\ refs'[t].step = refs[t].step
  BY <1>1, <1>4 DEF Refs
<1>7. Stored(f)' /\ Shown(t, f)' /\ Remembered(t, f)'
  BY <1>5 DEF Stored, Shown, Remembered
<1>8. MintingHasBurn(t)' /\ Resting(t)'
  BY <1>2, <1>4, <1>5, <1>6 DEF MintingHasBurn, Resting
<1>9. resumeSession'[t] = None
  BY <1>1, <1>3 DEF Banner, NothingRuns
<1> QED
  BY <1>1, <1>4, <1>7, <1>8, <1>9, OthersAreOff, OneRuns

LEMMA ExecutionIsRemembered ==
  ASSUME IInv, CInv, CarefulUse, NEW t, Tab = {t}, NEW f \in Flow, Execution(f)
  PROVE  CInv'
<1>1. /\ bridgeStatus \in [Tab -> Status] /\ refs \in [Tab -> Refs]
      /\ flow \in [Flow -> Run] /\ flow[f] \in Run /\ t \in Tab
  BY DEF IInv, TypeOK
<1>2. Alive(f) => flow[f].tab = t
  BY <1>1 DEF IInv, FlowsKnow, FlowKnows, Alive
<1>3. Stored(f) /\ Remembered(t, f) /\ Banner(t) /\ MintingHasBurn(t)
  BY <1>1 DEF CInv
<1>4. ASSUME NEW b \in Burn, BurnBroadcast(f, b)
      PROVE  CInv'
  <2>1. /\ flow[f].pc = "preflight" /\ Alive(f)
        /\ flow' = [flow EXCEPT ![f].pc = "sent", ![f].burn = b]
        /\ bridgeStatus' = [bridgeStatus EXCEPT ![t] = [IdleStatus EXCEPT !.step = "busy"]]
        /\ refs' = [refs EXCEPT ![t].step = "early"]
        /\ UNCHANGED <<session, resumeSession>>
    BY <1>2, <1>4 DEF BurnBroadcast, Alive
  <2>2. flow' = [flow EXCEPT ![f] = [flow[f] EXCEPT !.pc = "sent", !.burn = b]]
    BY <1>1, <2>1 DEF Run
  <2>3. flow'[f].pc = "sent" /\ flow'[f].kind = flow[f].kind
    BY <1>1, <2>1 DEF Run
  <2>4. /\ bridgeStatus'[t].step = "busy"
        /\ refs'[t].step = "early" /\ refs'[t].mint = refs[t].mint
    BY <1>1, <2>1 DEF IdleStatus, Refs
  <2>5. Stored(f)' /\ Shown(t, f)' /\ Remembered(t, f)' /\ MintingHasBurn(t)' /\ Resting(t)'
    BY <1>3, <2>1, <2>3, <2>4 DEF Stored, Shown, Remembered, MintingHasBurn, Resting
  <2>6. resumeSession'[t] = None
    BY <1>3, <2>1 DEF Banner, NothingRuns
  <2> QED
    BY <2>1, <2>2, <2>5, <2>6, OthersAreOff, OneRuns
<1>5. ASSUME BurnHashReturned(f)
      PROVE  CInv'
  <2>1. flow' = [flow EXCEPT ![f].pc = "burnWait", ![f].tx = "none"]
    BY <1>5, GoToKeepsNoMint DEF BurnHashReturned
  <2>2. flow[f].kind = "bridge" /\ Alive(f)
    BY <1>3, <1>5 DEF BurnHashReturned, Stored, Alive
  <2> QED
    BY <1>5, <2>1, <2>2, ReportIsRemembered DEF BurnHashReturned
<1>6. ASSUME BurnConfirmed(f) \/ ReceiptVerified(f)
      PROVE  CInv'
  <2>1. flow' = [flow EXCEPT ![f].pc = "poll", ![f].tx = "none"]
    BY <1>6, GoToKeepsNoMint DEF BurnConfirmed, ReceiptVerified
  <2>2. Alive(f) /\ flow[f].pc \in {"burnWait", "recheck"}
        /\ Report(f, "early", FALSE, TRUE) /\ UNCHANGED resumeSession
    BY <1>6 DEF BurnConfirmed, ReceiptVerified, Alive
  <2> QED
    BY <2>1, <2>2, ReportIsRemembered
<1>7. ASSUME PollPending(f)
      PROVE  CInv'
  <2>1. /\ flow[f].pc = "poll" /\ Alive(f)
        /\ Report(f, "early", FALSE, TRUE) /\ UNCHANGED <<resumeSession, flow>>
    BY <1>7 DEF PollPending, Alive
  <2>2. flow' = [flow EXCEPT ![f].pc = "poll", ![f].tx = flow[f].tx]
    BY <1>1, <2>1 DEF Run
  <2> QED
    BY <2>1, <2>2, ReportIsRemembered
<1>8. ASSUME AttestationFetched(f)
      PROVE  CInv'
  <2>1. flow' = [flow EXCEPT ![f].pc = "switch", ![f].tx = "none"]
    BY <1>8, GoToKeepsNoMint DEF AttestationFetched
  <2>2. /\ Alive(f) /\ flow[f].pc = "poll"
        /\ Report(f, "minting", FALSE, FALSE) /\ UNCHANGED resumeSession
    BY <1>8 DEF AttestationFetched, Alive
  <2> QED
    BY <2>1, <2>2, ReportIsRemembered
<1>9. ASSUME MintBroadcast(f)
      PROVE  CInv'
  <2>1. /\ Alive(f) /\ flow[f].pc = "switch"
        /\ flow' = [flow EXCEPT ![f].pc = "mintWait", ![f].tx = "pending"]
        /\ Report(f, "minting", TRUE, FALSE) /\ UNCHANGED resumeSession
    BY <1>9 DEF MintBroadcast, Alive
  <2> QED
    BY <2>1, ReportIsRemembered
<1>10. ASSUME AlreadyMinted(f) \/ MintConfirmed(f)
       PROVE  CInv'
  <2>1. PICK mint \in BOOLEAN : Succeed(f, mint)
    BY <1>10 DEF AlreadyMinted, MintConfirmed
  <2>2. flow[f].pc \in {"switch", "mintWait"} /\ UNCHANGED resumeSession
    BY <1>10 DEF AlreadyMinted, MintConfirmed
  <2> QED
    BY <2>1, <2>2, SuccessClears
<1> QED
  BY <1>4, <1>5, <1>6, <1>7, <1>8, <1>9, <1>10, ThrowLeadsBack DEF Execution

\* The invariant does not look at the chains.
LEMMA ChainsAreNotSeen ==
  ASSUME IInv, CInv,
         UNCHANGED <<session, resumeSession, bridgeStatus, refs>>,
         \A f \in Flow : /\ flow'[f].pc = flow[f].pc
                         /\ flow'[f].kind = flow[f].kind
                         /\ flow'[f].burn = flow[f].burn
  PROVE  CInv'
<1>1. OneAtATime'
  BY DEF CInv, OneAtATime, Alive
<1>2. \A f \in Flow : Stored(f)'
  BY DEF CInv, Stored, Tracked
<1>3. \A t \in Tab, f \in Flow : Shown(t, f)' /\ Remembered(t, f)'
  BY DEF CInv, Shown, Remembered
<1>4. \A t \in Tab : Banner(t)' /\ MintingHasBurn(t)' /\ Resting(t)'
  BY DEF CInv, Banner, NothingRuns, Alive, MintingHasBurn, Resting, OffersResume
<1> QED
  BY <1>1, <1>2, <1>3, <1>4 DEF CInv

LEMMA CarefulStep ==
  ASSUME IInv, CInv, CarefulUse, [Next]_vars
  PROVE  CInv'
<1>1. PICK t \in Tab : Tab = {t}
  BY DEF CarefulUse
<1>2. flow \in [Flow -> Run]
  BY DEF IInv, TypeOK
<1>3. CASE Chains
  <2>1. UNCHANGED <<session, resumeSession, bridgeStatus, refs>>
    BY <1>3 DEF Chains, SourceSettles, IrisAttests, RelayedByOther, MintMined,
                MintReverted, client
  <2>2. flow' = flow \/ \E f \in Flow, tx \in {"ok", "reverted"} : flow' = [flow EXCEPT ![f].tx = tx]
    BY <1>3 DEF Chains, SourceSettles, IrisAttests, RelayedByOther, MintMined,
                MintReverted, client
  <2>3. \A f \in Flow : /\ flow'[f].pc = flow[f].pc
                        /\ flow'[f].kind = flow[f].kind
                        /\ flow'[f].burn = flow[f].burn
    BY <1>2, <2>2 DEF Run
  <2> QED
    BY <2>1, <2>3, ChainsAreNotSeen
<1>4. CASE UNCHANGED vars
  BY <1>4, ChainsAreNotSeen DEF vars
<1> QED
  BY <1>1, <1>3, <1>4, UserIsCareful, ExecutionIsRemembered DEF Next

LEMMA CarefulInit == Init => CInv
BY DEF Init, CInv, OneAtATime, Alive, Stored, Shown, Remembered, Banner, MintingHasBurn,
       Resting, IdleStatus, NoRefs, Off

-----------------------------------------------------------------------------
(* Theorems. *)

THEOREM CarefulInvariant ==
  ASSUME CarefulUse
  PROVE  Spec => []CInv
<1>1. Init => CInv
  BY CarefulInit
<1>2. IInv /\ CInv /\ [Next]_vars => CInv'
  BY CarefulStep
<1> QED
  BY <1>1, <1>2, Invariant, PTL DEF Spec

\* From the moment a careful user's client holds a burn hash, and while its execution
\* lives, the stored session is that burn's.
THEOREM SubmittedStaysStored ==
  ASSUME CarefulUse
  PROVE  Spec => []SubmittedIsStored
<1>1. CInv => SubmittedIsStored
  BY DEF CInv, Stored, SubmittedIsStored
<1> QED
  BY <1>1, CarefulInvariant, PTL

\* A careful user finds a way on for every stored burn: it is being worked on, or the page
\* offers to resume it; no error page is a dead end for one that is open.
THEOREM StoredBurnHasWay ==
  ASSUME CarefulUse
  PROVE  Spec => []StoredBurnIsOffered
<1>1. CInv => ErrorOffersResume
  BY DEF CInv, Resting, ErrorOffersResume
<1>2. TypeOK /\ BusyPageHasExecution /\ CInv => StoredIsWorkedOnOrOffered
  <2> SUFFICES ASSUME TypeOK, BusyPageHasExecution, CInv, session # None
               PROVE  \/ \E f \in Flow : Alive(f) /\ flow[f].burn = session.burn
                      \/ \E t \in Tab : \/ OffersResume(t)
                                        \/ /\ resumeSession[t] = session
                                           /\ bridgeStatus[t].step = "idle"
    BY DEF StoredIsWorkedOnOrOffered
  <2>1. PICK t \in Tab : Tab = {t}
    BY DEF CarefulUse
  <2>2. ASSUME NEW f \in Flow, Alive(f)
        PROVE  flow[f].burn = session.burn
    BY <2>2 DEF CInv, Stored, Tracked, Alive
  <2>3. CASE NothingRuns
    <3>1. bridgeStatus[t].step \in {"idle", "busy", "done", "error"}
      BY DEF TypeOK, Status
    <3>2. bridgeStatus[t].step # "busy"
      BY <2>3 DEF BusyPageHasExecution, NothingRuns
    <3>3. Resting(t)
      BY DEF CInv
    <3> QED
      BY <2>3, <3>1, <3>2, <3>3 DEF Resting
  <2> QED
    BY <2>2, <2>3 DEF NothingRuns
<1> QED
  BY <1>1, <1>2, TypeCorrect, BusyPagesWork, CarefulInvariant, PTL DEF StoredBurnIsOffered

-----------------------------------------------------------------------------
(* What a step may do to the stored session of an open burn. *)

SessionStep ==
  \A b \in Burn : Tracked(b) /\ Open(b) /\ Loadable(b) => (Tracked(b) \/ ~Open(b))'

LEMMA UserForgetsNothing ==
  ASSUME IInv, CInv, CarefulUse, NEW t, Tab = {t}, User(t),
         NEW b \in Burn, Tracked(b), Open(b), Loadable(b)
  PROVE  Tracked(b)'
<1>1. Banner(t) /\ MintingHasBurn(t) /\ Resting(t)
  BY DEF CInv
<1>2. ASSUME NEW f \in Flow, ClickBridge(t, f) PROVE FALSE
  BY <1>2 DEF ClickBridge, CarefulUse, Tracked
<1>3. ASSUME NEW f \in Flow, ClickResume(t, f) \/ ClickResumeSaved(t, f)
      PROVE  session' = session
  BY <1>3 DEF ClickResume, ClickResumeSaved, Tracked
<1>4. ASSUME ClickReset(t) PROVE FALSE
  BY <1>1, <1>4 DEF ClickReset, OffersReset, Resting, OffersResume, MintingHasBurn, Tracked
<1>5. ASSUME ClickDismiss(t) PROVE FALSE
  BY <1>1, <1>5 DEF ClickDismiss, CarefulUse, Banner, Tracked
<1>6. ASSUME Reload(t) PROVE session' = session
  BY <1>6 DEF Reload, Tracked
<1>7. session' = session
  BY <1>2, <1>3, <1>4, <1>5, <1>6 DEF User
<1> QED
  BY <1>7 DEF Tracked

LEMMA ExecutionForgetsNothing ==
  ASSUME IInv, CInv, CarefulUse, NEW f \in Flow, Execution(f),
         NEW b \in Burn, Tracked(b), Open(b)
  PROVE  Tracked(b)'
<1>1. Stored(f)
  BY DEF CInv
<1>2. ASSUME NEW step, NEW mint, NEW identity \in BOOLEAN, Report(f, step, mint, identity),
             flow[f].pc \notin {"off", "preflight", "sent"}
      PROVE  Tracked(b)'
  <2>1. flow[f].burn = b
    BY <1>1, <1>2 DEF Stored, Tracked
  <2>2. session' \in {session, [burn |-> b, identity |-> identity]}
    BY <1>2, <2>1 DEF Report, SaveSession
  <2>3. [burn |-> b, identity |-> identity] # None
    BY ConstantsAssumption, <1>2
  <2> QED
    BY <2>2, <2>3 DEF Tracked
<1>3. ASSUME BurnHashReturned(f) PROVE FALSE
  BY <1>1, <1>3 DEF BurnHashReturned, Stored, Tracked
<1>4. ASSUME BurnConfirmed(f) \/ ReceiptVerified(f) \/ PollPending(f) \/ AttestationFetched(f)
             \/ MintBroadcast(f)
      PROVE  Tracked(b)'
  BY <1>2, <1>4 DEF BurnConfirmed, ReceiptVerified, PollPending, AttestationFetched,
                    MintBroadcast
<1>5. ASSUME AlreadyMinted(f) \/ MintConfirmed(f) PROVE FALSE
  <2>1. flow[f].burn = b
    BY <1>1, <1>5 DEF AlreadyMinted, MintConfirmed, Stored, Tracked
  <2>2. b \in minted
    BY <1>5, <2>1 DEF AlreadyMinted, MintConfirmed, IInv, FlowsKnow, FlowKnows
  <2> QED
    BY <2>2 DEF Open
<1>6. ASSUME FlowFails(f) \/ \E c \in Burn : BurnBroadcast(f, c) PROVE Tracked(b)'
  <2>1. session' = session
    BY <1>6 DEF FlowFails, Throw, BurnBroadcast
  <2> QED
    BY <2>1 DEF Tracked
<1> QED
  BY <1>3, <1>4, <1>5, <1>6 DEF Execution

\* For a careful user the stored session of an open burn stays until the burn is
\* delivered or has failed, through errors, reloads and resumes.
THEOREM SessionStaysStored ==
  ASSUME CarefulUse
  PROVE  Spec => SessionKept
<1>1. ASSUME IInv, CInv, [Next]_vars,
             NEW b \in Burn, Tracked(b), Open(b), Loadable(b)
      PROVE  Tracked(b)'
  <2>1. PICK t \in Tab : Tab = {t}
    BY DEF CarefulUse
  <2>2. CASE Chains \/ UNCHANGED vars
    <3>1. session' = session
      BY <2>2 DEF Chains, SourceSettles, IrisAttests, RelayedByOther, MintMined,
                  MintReverted, client, vars
    <3> QED
      BY <1>1, <3>1 DEF Tracked
  <2> QED
    BY <1>1, <2>1, <2>2, UserForgetsNothing, ExecutionForgetsNothing DEF Next
<1>2. IInv /\ CInv /\ [Next]_vars => [SessionStep]_vars
  BY <1>1 DEF SessionStep
<1> QED
  BY <1>2, Invariant, CarefulInvariant, PTL DEF Spec, SessionKept, SessionStep
=============================================================================
