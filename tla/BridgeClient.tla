---------------------------- MODULE BridgeClient ----------------------------
(***************************************************************************)
(* The browser side of the Arc <-> Base bridge: the bridge page of every   *)
(* open tab, the asynchronous executions of executeBridge and resumeBridge *)
(* those pages start, and the one resume session they share through        *)
(* localStorage; with the source chain, Circle's attestation service and   *)
(* the destination chain as far as the client can see them.                *)
(*                                                                         *)
(* A transfer is named by its burn transaction (an element of Burn).  An   *)
(* execution is a slot of Flow; a tab may run several at a time, because   *)
(* nothing serialises a resume and a new transfer, and several tabs share  *)
(* the session.  Between two actions of a flow anything else may happen:   *)
(* each action ends at an await of the source.                             *)
(***************************************************************************)

CONSTANTS
  Tab,                \* browser tabs that have the bridge page open
  Flow,               \* concurrent executions of executeBridge / resumeBridge
  Burn,               \* burn transactions that the wallet may broadcast
  None,               \* "undefined" / null
  Form,               \* how amount and recipient of a transfer were typed
  StorageReliable,    \* does localStorage accept every write?
  Careful             \* does the user do one thing at a time? (ClickBridge below)

(* "plain": digits with an optional fraction and a 0x-prefixed recipient.
   "dotAmount": an amount such as .5, which validateAmount accepts.
   "bareRecipient": forty hex digits without 0x, which ethers.isAddress accepts. *)
ASSUME ConstantsAssumption ==
  /\ None \notin Burn \cup Tab
  /\ None \notin [burn : Burn, identity : BOOLEAN]
  /\ Form \in [Burn -> {"plain", "dotAmount", "bareRecipient"}]
  /\ StorageReliable \in BOOLEAN
  /\ Careful \in BOOLEAN

VARIABLES
  session,        \* localStorage[SESSION_KEY]: a BridgeSession or None
  resumeSession,  \* per tab: the session the resume banner offers, or None
  bridgeStatus,   \* per tab: the status the page renders
  refs,           \* per tab: lastBurnTxRef, lastMintTxRef, currentStepRef
  flow,           \* the executions
  history,        \* burns that saveBridgeHistory recorded as complete
  source,         \* per burn transaction: its fate on the source chain
  attested,       \* burns whose message Iris reports complete
  minted          \* burns whose message the destination chain has received

client == <<session, resumeSession, bridgeStatus, refs, flow, history>>
chains == <<source, attested, minted>>
vars == <<session, resumeSession, bridgeStatus, refs, flow, history,
          source, attested, minted>>

PC == {"off", "preflight", "sent", "burnWait", "recheck", "poll", "switch", "mintWait"}

Session == [burn : Burn, identity : BOOLEAN]
Status  == [step : {"idle", "busy", "done", "error"},
            burn : Burn \cup {None}, mint : BOOLEAN,
            failedAt : {"early", "minting"}]
Refs    == [burn : Burn \cup {None}, mint : BOOLEAN,
            step : {"early", "minting"}]
Run     == [pc : PC, tab : Tab \cup {None}, kind : {"bridge", "resume"},
            burn : Burn \cup {None}, tx : {"none", "pending", "ok", "reverted"}]

Off     == [pc |-> "off", tab |-> None, kind |-> "bridge", burn |-> None, tx |-> "none"]
NoRefs  == [burn |-> None, mint |-> FALSE, step |-> "early"]
IdleStatus == [step |-> "idle", burn |-> None, mint |-> FALSE, failedAt |-> "early"]

TypeOK ==
  /\ session \in Session \cup {None}
  /\ resumeSession \in [Tab -> Session \cup {None}]
  /\ bridgeStatus \in [Tab -> Status]
  /\ refs \in [Tab -> Refs]
  /\ flow \in [Flow -> Run]
  /\ history \subseteq Burn
  /\ source \in [Burn -> {"unused", "pending", "mined", "reverted", "replaced"}]
  /\ attested \subseteq Burn
  /\ minted \subseteq Burn

Init ==
  /\ session = None
  /\ resumeSession = [t \in Tab |-> None]
  /\ bridgeStatus = [t \in Tab |-> IdleStatus]
  /\ refs = [t \in Tab |-> NoRefs]
  /\ flow = [f \in Flow |-> Off]
  /\ history = {}
  /\ source = [b \in Burn |-> "unused"]
  /\ attested = {}
  /\ minted = {}

-----------------------------------------------------------------------------
(* Helpers: local storage, what the page offers, and the status callbacks. *)

\* loadSession's validation: a typed amount or recipient outside its regular
\* expressions makes a stored session unreadable.
Loadable(b) == Form[b] = "plain"

\* validateCctpMessage compares the decoded recipient with the typed one.
MatchesReceipt(b) == Form[b] # "bareRecipient"

\* A write that storage refuses (private mode, quota) is ignored: what was stored stays.
SaveSession(b, identity) ==
  \/ session' = [burn |-> b, identity |-> identity]
  \/ ~StorageReliable /\ UNCHANGED session

ClearSession == session' = None

\* The error panel's two buttons that call handleResume(loadSession()).
OffersResume(t) ==
  /\ bridgeStatus[t].step = "error"
  /\ \/ bridgeStatus[t].failedAt = "minting"
     \/ bridgeStatus[t].burn # None /\ ~bridgeStatus[t].mint

\* "Start new transfer" on success, "Try again" on an error without a burn hash.
OffersReset(t) ==
  \/ bridgeStatus[t].step = "done"
  \/ bridgeStatus[t].step = "error" /\ bridgeStatus[t].burn = None

\* The "Bridge USDC" button: rendered when the step is idle; canBridge does not
\* look at resumeSession, at the stored session or at running executions.
OffersTransfer(t) == bridgeStatus[t].step = "idle"

Alive(f) == flow[f].pc # "off"

NothingRuns == \A f \in Flow : ~Alive(f)

\* A burn that was submitted, has not failed, and has not been delivered.
Open(b) == source[b] \in {"pending", "mined", "replaced"} /\ b \notin minted

\* trackStatus and trackResumeStatus on a status that shows burn b, and the mint
\* hash of b when mint is TRUE.  Only a new transfer saves the session.
Report(f, step, mint, identity) ==
  LET t == flow[f].tab
      b == flow[f].burn
  IN /\ bridgeStatus' = [bridgeStatus EXCEPT ![t] =
           [step |-> "busy", burn |-> b, mint |-> mint, failedAt |-> "early"]]
     /\ refs' = [refs EXCEPT ![t] =
           [burn |-> b, mint |-> @.mint \/ mint, step |-> step]]
     /\ IF flow[f].kind = "bridge" THEN SaveSession(b, identity) ELSE UNCHANGED session

GoTo(f, pc) == flow' = [flow EXCEPT ![f].pc = pc]

\* The execution returns: status "done", the session cleared, history written.
Succeed(f, mint) ==
  LET t == flow[f].tab
      b == flow[f].burn
  IN /\ bridgeStatus' = [bridgeStatus EXCEPT ![t] =
           [step |-> "done", burn |-> b, mint |-> mint, failedAt |-> "early"]]
     /\ refs' = [refs EXCEPT ![t].burn = b, ![t].mint = @ \/ mint]
     /\ ClearSession
     /\ history' = history \cup {b}
     /\ flow' = [flow EXCEPT ![f] = Off]

\* Mistake: the error path forgets to replace the running status.
ThrowSilently(f) ==
  /\ flow' = [flow EXCEPT ![f] = Off]
  /\ UNCHANGED <<session, bridgeStatus, refs, history>>

\* Mistake: the error path clears the session like the success path does.
ThrowClearingSession(f) ==
  LET t == flow[f].tab
  IN /\ bridgeStatus' = [bridgeStatus EXCEPT ![t] =
           [step |-> "error", burn |-> refs[t].burn, mint |-> refs[t].mint,
            failedAt |-> refs[t].step]]
     /\ flow' = [flow EXCEPT ![f] = Off]
     /\ ClearSession
     /\ UNCHANGED <<refs, history>>

\* The execution throws: the page shows the error with whatever the refs hold.
Throw(f) ==
  LET t == flow[f].tab
  IN /\ bridgeStatus' = [bridgeStatus EXCEPT ![t] =
           [step |-> "error", burn |-> refs[t].burn, mint |-> refs[t].mint,
            failedAt |-> refs[t].step]]
     /\ flow' = [flow EXCEPT ![f] = Off]
     /\ UNCHANGED <<session, refs, history>>

-----------------------------------------------------------------------------
(* The user. *)

\* Mistake: trackStatus saves a session on "approving" too, before a hash exists.
ClickBridgeSavingSession(t, f) ==
  /\ OffersTransfer(t)
  /\ ~Alive(f)
  /\ flow' = [flow EXCEPT ![f] =
        [pc |-> "preflight", tab |-> t, kind |-> "bridge", burn |-> None, tx |-> "none"]]
  /\ bridgeStatus' = [bridgeStatus EXCEPT ![t] = [IdleStatus EXCEPT !.step = "busy"]]
  /\ refs' = [refs EXCEPT ![t].burn = None, ![t].step = "early"]
  /\ SaveSession(None, FALSE)
  /\ UNCHANGED <<resumeSession, history, chains>>

\* handleBridge: the wallet is on the source chain and the form is filled in.
ClickBridge(t, f) ==
  /\ OffersTransfer(t)
  /\ ~Alive(f)
  /\ Careful => session = None /\ NothingRuns
  /\ flow' = [flow EXCEPT ![f] =
        [pc |-> "preflight", tab |-> t, kind |-> "bridge", burn |-> None, tx |-> "none"]]
  /\ bridgeStatus' = [bridgeStatus EXCEPT ![t] = [IdleStatus EXCEPT !.step = "busy"]]
  /\ refs' = [refs EXCEPT ![t].burn = None, ![t].step = "early"]
  /\ UNCHANGED <<session, resumeSession, history, chains>>

\* handleResume: the page keeps its step until resumeBridge's first status.
BeginResume(t, f, b) ==
  /\ flow' = [flow EXCEPT ![f] =
        [pc |-> "recheck", tab |-> t, kind |-> "resume", burn |-> b, tx |-> "none"]]
  /\ resumeSession' = [resumeSession EXCEPT ![t] = None]
  /\ refs' = [refs EXCEPT ![t] = [NoRefs EXCEPT !.burn = b]]

ClickResume(t, f) ==
  /\ resumeSession[t] # None
  /\ bridgeStatus[t].step = "idle"
  /\ ~Alive(f)
  /\ Careful => NothingRuns
  /\ BeginResume(t, f, resumeSession[t].burn)
  /\ UNCHANGED <<session, bridgeStatus, history, chains>>

ClickResumeSaved(t, f) ==
  /\ OffersResume(t)
  /\ ~Alive(f)
  /\ Careful => NothingRuns
  /\ session # None
  /\ IF Loadable(session.burn)
     THEN BeginResume(t, f, session.burn) /\ UNCHANGED session
     ELSE ClearSession /\ UNCHANGED <<flow, resumeSession, refs>>
  /\ UNCHANGED <<bridgeStatus, history, chains>>

\* handleReset.
ClickReset(t) ==
  /\ OffersReset(t)
  /\ bridgeStatus' = [bridgeStatus EXCEPT ![t] = IdleStatus]
  /\ refs' = [refs EXCEPT ![t] = NoRefs]
  /\ ClearSession
  /\ UNCHANGED <<resumeSession, flow, history, chains>>

\* handleDismissResume; a careful user gives up only a burn that is settled.
ClickDismiss(t) ==
  /\ resumeSession[t] # None
  /\ Careful => ~Open(resumeSession[t].burn)
  /\ bridgeStatus[t].step = "idle"
  /\ ClearSession
  /\ resumeSession' = [resumeSession EXCEPT ![t] = None]
  /\ UNCHANGED <<bridgeStatus, refs, flow, history, chains>>

\* Mistake: the mount effect takes the session out of storage when it offers it.
ReloadTakingSession(t) ==
  LET mine == {f \in Flow : Alive(f) /\ flow[f].tab = t}
      stored == IF session # None /\ Loadable(session.burn) THEN session ELSE None
  IN /\ flow' = [f \in Flow |-> IF f \in mine THEN Off ELSE flow[f]]
     /\ bridgeStatus' = [bridgeStatus EXCEPT ![t] = IdleStatus]
     /\ refs' = [refs EXCEPT ![t] = NoRefs]
     /\ session' = None
     /\ resumeSession' = [resumeSession EXCEPT ![t] = stored]
     /\ UNCHANGED <<history, chains>>

\* Mistake: the mount effect reads the session but does not offer it.
ReloadWithoutBanner(t) ==
  LET mine == {f \in Flow : Alive(f) /\ flow[f].tab = t}
      stored == IF session # None /\ Loadable(session.burn) THEN session ELSE None
  IN /\ flow' = [f \in Flow |-> IF f \in mine THEN Off ELSE flow[f]]
     /\ bridgeStatus' = [bridgeStatus EXCEPT ![t] = IdleStatus]
     /\ refs' = [refs EXCEPT ![t] = NoRefs]
     /\ session' = stored
     /\ resumeSession' = [resumeSession EXCEPT ![t] = None]
     /\ UNCHANGED <<history, chains>>

\* A reload (or crash, or close and reopen) of a tab: its executions vanish, the
\* transactions they broadcast do not, and the mount effect runs loadSession.
Reload(t) ==
  LET mine == {f \in Flow : Alive(f) /\ flow[f].tab = t}
      stored == IF session # None /\ Loadable(session.burn) THEN session ELSE None
  IN /\ flow' = [f \in Flow |-> IF f \in mine THEN Off ELSE flow[f]]
     /\ bridgeStatus' = [bridgeStatus EXCEPT ![t] = IdleStatus]
     /\ refs' = [refs EXCEPT ![t] = NoRefs]
     /\ session' = stored
     /\ resumeSession' = [resumeSession EXCEPT ![t] = stored]
     /\ UNCHANGED <<history, chains>>

-----------------------------------------------------------------------------
(* executeBridge and resumeBridge, one action per await that matters. *)

\* Any await may throw: a rejected prompt, an unreachable RPC, a time-out, a
\* reverted or replaced transaction.  In "sent" the burn is broadcast and its
\* hash is lost with the error; in "switch" receiveMessage may have been broadcast,
\* in "mintWait" it was: it goes on without a watcher (RelayedByOther).
FlowFails(f) ==
  /\ Alive(f)
  /\ Throw(f)
  /\ UNCHANGED <<resumeSession, chains>>

\* The checks, the approval and the simulated burn have passed, the user signs
\* depositForBurn and the wallet broadcasts it.  No status so far carried a hash, so
\* nothing is saved; one that set the page back to busy is repeated here.
BurnBroadcast(f, b) ==
  /\ flow[f].pc = "preflight"
  /\ source[b] = "unused"
  /\ source' = [source EXCEPT ![b] = "pending"]
  /\ flow' = [flow EXCEPT ![f].pc = "sent", ![f].burn = b]
  /\ bridgeStatus' = [bridgeStatus EXCEPT ![flow[f].tab] = [IdleStatus EXCEPT !.step = "busy"]]
  /\ refs' = [refs EXCEPT ![flow[f].tab].step = "early"]
  /\ UNCHANGED <<session, resumeSession, history, attested, minted>>

\* Mistake: the session is saved only once the burn is confirmed.
BurnHashNotSaved(f) ==
  /\ flow[f].pc = "sent"
  /\ GoTo(f, "burnWait")
  /\ refs' = [refs EXCEPT ![flow[f].tab] = [@ EXCEPT !.burn = flow[f].burn, !.step = "early"]]
  /\ UNCHANGED <<session, resumeSession, bridgeStatus, history, chains>>

\* Mistake: a predicted source message is stored before the receipt is there.
BurnHashWithMessage(f) ==
  /\ flow[f].pc = "sent"
  /\ GoTo(f, "burnWait")
  /\ Report(f, "early", FALSE, TRUE)
  /\ UNCHANGED <<resumeSession, history, chains>>

\* The hash reaches the client: status "burning" with the hash, session saved.
BurnHashReturned(f) ==
  /\ flow[f].pc = "sent"
  /\ GoTo(f, "burnWait")
  /\ Report(f, "early", FALSE, FALSE)
  /\ UNCHANGED <<resumeSession, history, chains>>

\* waitWithRetry has a successful receipt and selectSourceMessage found the message.
BurnConfirmed(f) ==
  /\ flow[f].pc = "burnWait"
  /\ source[flow[f].burn] = "mined"
  /\ MatchesReceipt(flow[f].burn)
  /\ GoTo(f, "poll")
  /\ Report(f, "early", FALSE, TRUE)
  /\ UNCHANGED <<resumeSession, history, chains>>

\* Mistake: resume works from the saved message bytes instead of the receipt.
SavedMessageVerified(f) ==
  /\ flow[f].pc = "recheck"
  /\ session # None /\ session.identity
  /\ GoTo(f, "poll")
  /\ Report(f, "early", FALSE, TRUE)
  /\ UNCHANGED <<resumeSession, history, chains>>

\* resumeBridge: backend check, receipt by the saved hash, selectSourceMessage.
ReceiptVerified(f) ==
  /\ flow[f].pc = "recheck"
  /\ source[flow[f].burn] = "mined"
  /\ MatchesReceipt(flow[f].burn)
  /\ GoTo(f, "poll")
  /\ Report(f, "early", FALSE, TRUE)
  /\ UNCHANGED <<resumeSession, history, chains>>

\* pollAttestation, attempt without a result: onProgress repeats the status.
PollPending(f) ==
  /\ flow[f].pc = "poll"
  /\ Report(f, "early", FALSE, TRUE)
  /\ UNCHANGED <<resumeSession, flow, history, chains>>

\* pollAttestation returns; the next status is "minting", without message bytes.
AttestationFetched(f) ==
  /\ flow[f].pc = "poll"
  /\ flow[f].burn \in attested
  /\ GoTo(f, "switch")
  /\ Report(f, "minting", FALSE, FALSE)
  /\ UNCHANGED <<resumeSession, history, chains>>

\* Mistake: checkNonceUsed answers true when the nonce cannot be read.
AlreadyMintedByDefault(f) ==
  /\ flow[f].pc = "switch"
  /\ Succeed(f, FALSE)
  /\ UNCHANGED <<resumeSession, chains>>

\* The wallet is on the destination chain and usedNonces is non-zero.
AlreadyMinted(f) ==
  /\ flow[f].pc = "switch"
  /\ flow[f].burn \in minted
  /\ Succeed(f, FALSE)
  /\ UNCHANGED <<resumeSession, chains>>

\* Mistake: the status with the mint hash does not advance currentStepRef.
MintBroadcastEarly(f) ==
  /\ flow[f].pc = "switch"
  /\ flow' = [flow EXCEPT ![f].pc = "mintWait", ![f].tx = "pending"]
  /\ Report(f, "early", TRUE, FALSE)
  /\ UNCHANGED <<resumeSession, history, chains>>

\* usedNonces is zero, or could not be read (checkNonceUsed answers false); the user
\* signs receiveMessage and the status with its hash follows.
MintBroadcast(f) ==
  /\ flow[f].pc = "switch"
  /\ flow' = [flow EXCEPT ![f].pc = "mintWait", ![f].tx = "pending"]
  /\ Report(f, "minting", TRUE, FALSE)
  /\ UNCHANGED <<resumeSession, history, chains>>

\* Mistake: any receipt counts, whatever its status.
MintConfirmedByAnyReceipt(f) ==
  /\ flow[f].pc = "mintWait"
  /\ flow[f].tx \in {"ok", "reverted"}
  /\ Succeed(f, TRUE)
  /\ UNCHANGED <<resumeSession, chains>>

\* waitWithRetry returns only a receipt with status 1.
MintConfirmed(f) ==
  /\ flow[f].pc = "mintWait"
  /\ flow[f].tx = "ok"
  /\ Succeed(f, TRUE)
  /\ UNCHANGED <<resumeSession, chains>>

-----------------------------------------------------------------------------
(* The chains and Iris (outside the repository). *)

\* "replaced": the user speeds the burn up in the wallet; it executes under
\* another hash and the hash the client holds never gets a receipt.
SourceSettles(b) ==
  /\ source[b] = "pending"
  /\ \E fate \in {"mined", "reverted", "replaced"} : source' = [source EXCEPT ![b] = fate]
  /\ UNCHANGED <<client, attested, minted>>

IrisAttests(b) ==
  /\ source[b] \in {"mined", "replaced"}
  /\ b \notin attested
  /\ attested' = attested \cup {b}
  /\ UNCHANGED <<client, source, minted>>

\* The destination MessageTransmitter receives an attested message once.
MintMined(f) ==
  /\ flow[f].tx = "pending"
  /\ flow[f].burn \notin minted
  /\ flow' = [flow EXCEPT ![f].tx = "ok"]
  /\ minted' = minted \cup {flow[f].burn}
  /\ UNCHANGED <<session, resumeSession, bridgeStatus, refs, history,
                 source, attested>>

\* A second delivery reverts; so does one with too little gas.
MintReverted(f) ==
  /\ flow[f].tx = "pending"
  /\ flow' = [flow EXCEPT ![f].tx = "reverted"]
  /\ UNCHANGED <<session, resumeSession, bridgeStatus, refs, history, chains>>

\* destinationCaller is zero: anyone may deliver an attested message; so may a
\* receiveMessage that was broadcast by an execution that has gone.
RelayedByOther(b) ==
  /\ b \in attested \ minted
  /\ minted' = minted \cup {b}
  /\ UNCHANGED <<client, source, attested>>

-----------------------------------------------------------------------------

User(t) ==
  \/ \E f \in Flow : ClickBridge(t, f) \/ ClickResume(t, f) \/ ClickResumeSaved(t, f)
  \/ ClickReset(t)
  \/ ClickDismiss(t)
  \/ Reload(t)

Execution(f) ==
  \/ FlowFails(f)
  \/ \E b \in Burn : BurnBroadcast(f, b)
  \/ BurnHashReturned(f)
  \/ BurnConfirmed(f)
  \/ ReceiptVerified(f)
  \/ PollPending(f)
  \/ AttestationFetched(f)
  \/ AlreadyMinted(f)
  \/ MintBroadcast(f)
  \/ MintConfirmed(f)

Chains ==
  \/ \E b \in Burn : SourceSettles(b) \/ IrisAttests(b) \/ RelayedByOther(b)
  \/ \E f \in Flow : MintMined(f) \/ MintReverted(f)

Next ==
  \/ \E t \in Tab : User(t)
  \/ \E f \in Flow : Execution(f)
  \/ Chains

Spec == Init /\ [][Next]_vars

(* Fairness.  Of the source chain and Iris: a broadcast burn settles, and what is
   burned gets attested.  No await of the client is assumed to end, with a result or
   with an error: tx.wait(), a wallet prompt and a call to an unreachable RPC have no
   time-out. *)
Progress ==
  \A b \in Burn : WF_vars(SourceSettles(b)) /\ WF_vars(IrisAttests(b))

\* The user reloads a page whose execution hangs at one await.
GiveUp(f, pc) ==
  /\ flow[f].pc = pc
  /\ \E t \in Tab : flow[f].tab = t /\ Reload(t)

(* Persistence of the user and of the network: whoever sees an execution hang for ever
   finally reloads the page, whoever has an unfinished transfer resumes it again and
   again, and no obstacle comes back every single time. *)
Persistence ==
  /\ \A t \in Tab : SF_vars(\E f \in Flow : ClickResume(t, f) \/ ClickResumeSaved(t, f))
  /\ \A f \in Flow :
       /\ \A pc \in PC \ {"off"} : WF_vars(GiveUp(f, pc))
       /\ SF_vars(ReceiptVerified(f))
       /\ SF_vars(AttestationFetched(f))
       /\ SF_vars(AlreadyMinted(f))
       /\ SF_vars(MintBroadcast(f))
       /\ SF_vars(MintMined(f))

LiveSpec == Spec /\ Progress /\ Persistence

-----------------------------------------------------------------------------
(* Safety, for every user and any number of tabs. *)

\* Whatever interleaving of executions, tabs and reloads: a transfer that the page
\* shows as done, or that the history records, has been received on the destination
\* chain (waitWithRetry's status check, checkNonceUsed's default).
ReportedIsMinted ==
  /\ \A t \in Tab : bridgeStatus[t].step = "done" => bridgeStatus[t].burn \in minted
  /\ history \subseteq minted

\* Nothing the client would resume is invented: every stored or displayed burn hash
\* was broadcast, and a stored source message comes from a successful receipt.
SavedBurnIsReal ==
  /\ session # None => /\ source[session.burn] # "unused"
                       /\ session.identity => source[session.burn] = "mined"
  /\ \A t \in Tab : bridgeStatus[t].burn # None => source[bridgeStatus[t].burn] # "unused"

\* A page that shows work in progress has an execution behind it; with two of them
\* in one tab, the end of the first must not leave the page busy after the second.
BusyPageHasExecution ==
  \A t \in Tab : bridgeStatus[t].step = "busy" => \E f \in Flow : Alive(f) /\ flow[f].tab = t

\* When an execution ends, the stored session of its own burn disappears only if the
\* burn was delivered: an error never forgets a submitted burn.
OwnSessionKept ==
  [][\A f \in Flow :
       /\ Alive(f) /\ flow'[f].pc = "off"
       /\ session # None /\ session.burn = flow[f].burn /\ Loadable(session.burn)
       /\ session' = None
       => session.burn \in minted]_vars

\* The client implements the promise of a burn-and-mint bridge.
Transfer == INSTANCE CctpTransfer WITH
  burned <- {b \in Burn : source[b] \in {"mined", "replaced"}},
  reported <- history

ImplementsTransfer == Transfer!Spec

(* Safety and liveness for a careful user of a single tab. *)

Tracked(b) == session # None /\ session.burn = b

\* Once the session of an open burn is stored, it stays stored until the burn is
\* delivered (or fails on chain), through errors, reloads and resumes.
SessionKept ==
  [][\A b \in Burn : Tracked(b) /\ Open(b) /\ Loadable(b) => (Tracked(b) \/ ~Open(b))']_vars

\* From the moment the client holds a burn hash, the stored session is that burn's.
SubmittedIsStored ==
  \A f \in Flow : flow[f].pc \notin {"off", "preflight", "sent"} => Tracked(flow[f].burn)

\* A failed transfer that is still open and stored is never a dead end: the error
\* page lets the user resume it.
ErrorOffersResume ==
  \A t \in Tab : bridgeStatus[t].step = "error" /\ session # None /\ Open(session.burn)
                => OffersResume(t)

\* A stored burn is worked on, or the page offers to resume it, as an error or with the
\* banner.
StoredIsWorkedOnOrOffered ==
  session # None =>
    \/ \E f \in Flow : Alive(f) /\ flow[f].burn = session.burn
    \/ \E t \in Tab : \/ OffersResume(t)
                      \/ resumeSession[t] = session /\ bridgeStatus[t].step = "idle"

\* There is always a way on for a stored burn: no sequence of errors, reloads, resumes and
\* dismissals leaves it in storage with nothing to click.
StoredBurnIsOffered == ErrorOffersResume /\ StoredIsWorkedOnOrOffered

\* A confirmed burn whose session was stored is eventually delivered, however often an
\* await throws or hangs and the page is reloaded on the way.
StoredBurnDelivered ==
  \A b \in Burn : Tracked(b) /\ source[b] = "mined" /\ Loadable(b) ~> b \in minted

-----------------------------------------------------------------------------
(* Claims of the documentation that the code does not keep. *)

\* docs/technical-reference.md:73: "The UI must not offer a new transfer while an
\* unresolved burn hash exists."
NoNewTransferOverOpenBurn ==
  \A t \in Tab : session # None /\ Open(session.burn) => ~OffersTransfer(t)

\* README.md:63: "The app persists an in-progress session as soon as a burn hash
\* exists", and docs/user-guide.md:39: reload and resume.  The stored session of an
\* open burn survives, however amount and recipient were typed.
EverySessionKept ==
  [][\A b \in Burn : Tracked(b) /\ Open(b) => (Tracked(b) \/ ~Open(b))']_vars

\* README.md:64: "If the wallet RPC fails after broadcasting, the app checks the
\* authoritative source RPC and resumes that transfer instead of inviting a duplicate
\* burn."  An execution that fails with its burn broadcast leaves no "Try again".
NoDuplicateInvited ==
  [][\A f \in Flow, t \in Tab, b \in Burn :
       /\ flow[f].pc \notin {"off", "preflight"} /\ flow[f].tab = t /\ flow[f].burn = b
       /\ flow'[f].pc = "off" /\ bridgeStatus'[t].step = "error" /\ Open(b)'
       => ~OffersReset(t)']_vars
=============================================================================
