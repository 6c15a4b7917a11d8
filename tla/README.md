# Verification of the Arc relay bridge

TLA+ models of the stateful parts of this repository, TLC configurations that check them on
small instances, and TLAPS proofs of the properties that matter most for every value of the
constants. `PROJECT.json` lists components, runs, mutants, theorems and the source lines each
definition stands for.

## 1. The system

| Component | Code | State | Operations | Talks to |
| --- | --- | --- | --- | --- |
| Bridge client | `artifacts/arc-bridge/src/pages/BridgePage.tsx`, `lib/bridge.ts`, `lib/session.ts`, `lib/history.ts` | page status, three refs, resume banner per tab; one stored session and a history per browser | start, resume, reset, dismiss, reload; executeBridge / resumeBridge as chains of awaits | wallet, source and destination RPCs, Circle's Iris through the API |
| Gas refuel service | `artifacts/api-server/src/routes/gasrefuel.ts` | `usedArcTxHashes`, `pendingArcTxHashes`, the relayer account | POST /gasrefuel/submit | Arc RPC, destination RPC, price feed |
| YieldVault | `contracts/YieldVault.sol` | positions, total, APY, owner | deposit, withdraw, setApy, fundVault, ownership | USDC |
| Relay service, GasRelayerV2 | `routes/relay.ts`, `contracts/GasRelayerV2.sol` | `usedMessages`, `pendingMessages`; fee, pause, owner | POST /relay; relay and admin calls | destination chain, MessageTransmitter |
| Indexer | `workers/indexer.ts`, `routes/indexer.ts` | block cursor in memory and in the database, event rows, counters | backfill, catch-up, poll tick, restart | Arc RPC, database |
| Paymaster | `contracts/Paymaster.sol` | balances, locked reservations, gas rate, roles | deposit, withdraw, deductGas, validatePaymasterUserOp, postOp, admin calls | EntryPoint, USDC |
| Safety gate, read-only routes, SDKs, other front ends, other contracts | see `PROJECT.json` | none or configuration only | | |

What is hard here. The bridge client is a distributed program that survives only through one
localStorage record: executions interleave with each other, with other tabs and with reloads,
every transaction may be broadcast without its hash coming back, and every wait may time out
or never end.
The services protect money with in-memory sets across awaits and restarts. The contracts are
atomic per call; what is hard in them is the order of calls (who withdraws first) and state
read earlier than it is used.

What makes each part correct:

* Bridge client: nothing is reported delivered that is not; a submitted burn is never forgotten
  and never invented; an error, a reload or a dismissal leaves a way back to the transfer; a
  stored burn is finally delivered.
* Refuel: a deposit is paid at most once, only to its depositor; locks are exact and released.
* Vault: totals and books add up; one account's calls never take away what another is owed, and
  nobody's calls make yield that time has not.
* Relay: a message is relayed once, the recipient gets the amount less a fee it agreed to, and
  the relayer does not pay gas for a message it knows to be broadcast.
* Indexer: behind its cursor no event is missing but what the nodes it asked did not find, and totals
  count what is stored; what was indexed is not indexed again without a cause.
* Paymaster: deposits are held to the last unit, locks are exactly the open reservations, what
  was reserved is there when an operation is charged, and no more than it is charged.

## 2. Modules

| Module | Models | Built on |
| --- | --- | --- |
| `CctpTransfer` | the promise of a burn-and-mint bridge | |
| `BridgeClient` | tabs, executions, stored session, chains and Iris | implements `CctpTransfer` |
| `BridgeClientProofs` | inductive invariant and refinement | `BridgeClient` |
| `CarefulUserProofs` | what a careful user of one tab can rely on | `BridgeClientProofs` |
| `RefuelService` | concurrent submit handlers, replay sets, account, mempool | |
| `RefuelServiceProofs` | at most one payout, exact locks | `RefuelService` |
| `YieldVault` | the vault and its USDC | `Sums` |
| `YieldVaultProofs` | books, totals, backed principal, kept entitlements, no free yield | `YieldVault`, `SumsProofs` |
| `Paymaster` | deposits and reservations, the EntryPoint's bundles, calls in between | `Sums` |
| `PaymasterProofs` | exact locks, covered reservations, paid and bounded charges, books | `Paymaster`, `SumsProofs` |
| `Sums` | what the sum of a function over a finite set is | |
| `SumsProofs` | how such a sum follows a change of one entry, and bounds each | `Sums` |
| `HookDelivery` | the promise to whoever burned with a hook | |
| `GasRelayerV2` | the relay contract, its owner, its direct callers | implements `HookDelivery` |
| `RelayService` | POST /relay in front of the contract, its replay sets, the mempool | `GasRelayerV2` |
| `RelayServiceProofs` | invariants and refinement of both | `RelayService` |
| `Indexer` | the event worker, its database, Arc's blocks | |
| `IndexerProofs` | no gaps, bounded counts, a cursor that is kept | `Indexer` |
| `MC...` | constants for TLC | the module of that name |

Operators whose comment begins with "Mistake:" are plausible errors of the definition that
follows them. No specification uses them; `PROJECT.json` substitutes each for the real
definition to show that the property it is listed with can fail.

### BridgeClient

A transfer is named by its burn transaction. `session` is `localStorage[SESSION_KEY]`; per tab
there are `bridgeStatus`, `refs` (lastBurnTxRef, lastMintTxRef, currentStepRef) and
`resumeSession`. An element of `Flow` is one running call of executeBridge or resumeBridge; its
`pc` says at which await it stands:

| pc | waiting for | left by |
| --- | --- | --- |
| preflight | checks, approval, simulation, the user's signature | BurnBroadcast |
| sent | the wallet's answer with the hash | BurnHashReturned |
| burnWait | waitWithRetry on the burn | BurnConfirmed |
| recheck | resumeBridge's receipt by saved hash | ReceiptVerified |
| poll | pollAttestation | PollPending, AttestationFetched |
| switch | the destination chain, checkNonceUsed, the signature | AlreadyMinted, MintBroadcast |
| mintWait | waitWithRetry on the mint | MintConfirmed |

`FlowFails` is the catch block and is enabled at every await; no fairness makes it or any other end
of an await happen, so an execution may also stand at one for ever. A receiveMessage whose execution
has ended is not kept as state: it can only deliver an attested message, which `RelayedByOther`
(anyone may) does at any time, or revert without effect. `Report`, `Succeed` and `Throw`
are trackStatus, the success path and the catch block with everything they write. User actions
are the page's buttons with the conditions under which they are rendered. The environment
(`SourceSettles`, `IrisAttests`, `MintMined`, ...) is external. Amount and recipient are
abstracted to how they were typed (`Form`), which decides whether a stored session can be read
back. With `StorageReliable` FALSE any write of the session may be refused and what was stored
stays, as session.ts ignores it; reading and removing do not fail on a full storage. `Careful` is the one assumption about the user: with TRUE the user starts a transfer or a
resume only when nothing runs, starts a new transfer only when nothing is stored, and dismisses
only a settled burn. It is what the documentation asks of users, and only the run
`bridge_careful` makes it.

### RefuelService

A handler is an element of `Request`. `Submit` is the synchronous part up to
`pendingArcTxHashes.add`; `Reject` every early return and early error; `Accept` the verified
receipt, price, liquidity check and `usedArcTxHashes.add`; `ReadNonce` and `Broadcast` the two
halves of ethers' sendTransaction, between which other handlers run. What the node answers is
one action per class of the code's error handling: `RefusedMatched` (a message the list knows,
the hash is released), `RefusedUnmatched` (underpriced replacement, the hash stays), `Fail` (a
broken connection before or after the broadcast, the hash stays). `Answer` is the response and
`finally`. `Restart` empties the sets; account, mempool and Arc do not change. The nonce the
node reports is any count of known pending transactions, so two handlers may get the same one.

### YieldVault

One action per external function, amounts and time as small integers, `YieldDivisor` for
`10_000 * 365 days`. `Close` is withdraw with its cap, its event and the deletion of the
position. Reentrancy is excluded by the contract's lock, so calls are atomic. Overflow of
uint256 is out of reach of real USDC amounts and is not modelled. `funded`, `yieldPaid` and
`shortfall` are history variables read off transfers and events.

### Paymaster

One action per external function. EntryPoint.handleOps validates every operation of a bundle
and then executes them in order, each followed by postOp: `ValidatePaymasterUserOp` appends to
`bundle` until the first `PostOp` sets `executing`. The accounts' code runs in between and may
call the contract, so a call by anybody may come between any two of the EntryPoint's; each call
is atomic (nonReentrant). A postOp may charge any number of gas units up to the operation's
limit. `PostOpReverts` is what EntryPoint
v0.7 does with a postOp that throws (lib/aa.ts:117 gives it 80 000 gas): the operation's own calls
are undone with it and postOp is not called again, so the contract's branch for postOpReverted
is never taken and the reservation stays. `lost`, `repriced`, `unpaid` and `keptFees` are
histories: they name the reservations left behind, the accounts charged at a rate raised since
their reservation, the accounts whose balance was too small, and the fees paid while the fee
recipient was the contract. Amounts are small integers; a deposit, a withdrawal and a deduction
may have any amount the caller has. The pause stops deposits, deductions and validations, as in
the code, and neither withdraw nor postOp.

### GasRelayerV2 and RelayService

`Accepts` is every require of relay with `_validateRelayMessage` and what receiveMessage checks
(attestation, unused nonce); `Relay` the balance difference and the two transfers. The byte
layout of a message is abstracted to the recipient and the ceiling its hook names (`HookRecipient`,
`HookMaxFee`), the amount it mints, and `WellFormed`, the messages that pass the checks on
length, versions, destinationCaller and mintRecipient. A call is atomic because of nonReentrant.

In RelayService a handler is an element of `Request`: `Submit` is the synchronous part up to
`pendingMessages.add`, `Refuse` every early return after it, `CheckContract` the successful
reads of paused and relayFee, `Broadcast` contract.relay up to the broadcast (with or without
gas estimation, `GasLimitOverride`), `SendFails` its catch, before or after the broadcast, and
`Reply` the marking and the answer. `Mine` decides by the contract's state at that time, and
`Evict` drops or replaces a broadcast transaction: relay.ts and gasrefuel.ts send from one wallet
without managing its nonces. `failed` is a history of the messages with a transaction that reverted
or was evicted: relay.ts marks a message when its transaction is broadcast and never looks at it
again, so a marked message is delivered, in the mempool, or failed.

A hook may name the contract itself as its recipient (only the zero address is refused), and so may
the owner with setFeeRecipient: such a transfer leaves the USDC where it is (`Outflow`), and `kept` is
the history of it. The history `donated` is what was sent to the contract directly.

The addresses relay.ts lists are testnet contracts of the legacy version with the same call and
the same two checks; docs/relay-mainnet-protocol.md keeps that call shape for V2, which is the
contract modelled. DEPLOYER_PRIVATE_KEY is assumed to be well-formed.

### Indexer

The chain is `EventBlock`, known up to `head`; the database is `rows`, `cursor` and `counted`, how
often each event is in the totals (the code keeps four sums; per event the model can say which
one was counted twice). `pc` and `to` are the position of startIndexer or of the running loop:
`"idle"` is the time between two ticks, `"work"` the time isTicking is set. `Start`, `Backfill`
and the four `Resume...` actions are startIndexer, one for each way to get a resume block;
`CatchUpFrom` is what they share. `Tick` starts a loop, and each of its iterations is processBlock:
`NothingThere` (no logs), `NotFound` (there are logs, but no request finds one or getBlock finds
no block), `Stored`, `CommitLost` (committed, but the answer is lost), `LoopFails` (any other
throw). The two getBlockNumber calls of a start are one reading of `head`.

An element of `Event` is what one of a block's requests for logs finds: all its transfers, memos,
burns or mints. The requests are separate, and each may be answered by a node that does not have
the block yet, so `Commit(found)` stores any part of what the block has, and moves the cursor past
it all the same. So it is with the requests of the backfill. The request for MessageReceived logs
stores nothing by itself and is left out (see section 5).

Two histories name the cases the code does not cover, so that the properties can say there are no
others: `missed` has the events the worker went past without storing them (not found by the nodes
that were asked, or behind the block where a start without cursor begins), `rewinds` counts the lost commit answers and the starts that
lost their resume block.

## 3. Runs

| Run | Instance | Shows |
| --- | --- | --- |
| `bridge_free` | 2 tabs, 2 executions, 2 burns, any user, storage that refuses writes | truthful reports, genuine stored data, no silent page, errors forget nothing, refinement of `CctpTransfer` |
| `bridge_careful` | 1 tab, careful user, fairness | stored, kept, resumable from every error, offered on every page at rest, finally delivered |
| `bridge_new_transfer` | violation | a new transfer is offered over an open burn |
| `bridge_duplicate` | violation | a burn broadcast by a failing wallet call leads to "Try again" |
| `bridge_forms` | violation | an amount typed `.5` makes the stored session unreadable |
| `refuel` | 2 deposits, 2 handlers, 2 restarts, fairness | at most one payout per life, exact locks, released locks, payouts to depositors |
| `refuel_nonce_clash` | violation | a refused payout's deposit stays marked |
| `vault` | 2 accounts, 3 blocks | totals and books that add up, backed principal, kept entitlements, no yield but by time |
| `vault_principal` | violation | withdrawals paid from other accounts' principal |
| `relay` | 2 messages, 2 handlers, 3 requests, 1 restart | the contract holds only what is its own, the promise is implemented, locks are exact, a marked message was broadcast and is not sent again |
| `paymaster` | 2 accounts, bundles of 2, every rate and cap up to 2 | deposits are held, locks are exact, reservations are covered, charges are paid and take no more than was reserved |
| `indexer` | 5 blocks, 4 events, 2 crashes, 2 rewinds, fairness | no gap but what nodes did not find, neither behind the cursor nor ahead of the chain, totals of stored events, bounded counts, every event arrives |

Bounds. Two tabs, two executions and two burns are the least with which executions overwrite
each other's status, refs and session, within a tab and across tabs; every finding needs fewer.
Two handlers and two deposits give every pair of handlers on one hash, and on two hashes with
one nonce; a second restart shows that the bound is per life. In the vault an APY of
`MaxApyBps` doubles a principal in one block, so two blocks suffice to exhaust the others'
deposits. In the relay one message can
be relayed at every fee its hook allows and one only at fee 0; the latter's hook names the contract
itself, and one of the requests names a wrong recipient; fees from 0 to 2 lie below and above both ceilings. The indexer's chain is longer
than both caps (500 and 100 in the code, 1 and 2 here), so a catch-up and a tick end short of the
head; it has a block with two events and ignored logs, which may be stored in every part, an empty
block, one with ignored logs only, and burns inside and outside the backfill's window. `MaxDonated`, `MaxRestarts`, `MaxRewinds`, `MaxBlock`,
`MaxTime`, `InitialUsdc`, `MaxBundle`, `MaxGasUnits` and the two caps of the paymaster are the only
numeric bounds. In the paymaster two operations are enough for one user to reserve twice and for
one operation to be settled while another is pending; a cap of 2 with rates and gas units up to 2
puts costs at zero, below, at and above the cap, and two accounts with 2 and 1 USDC let a user
exhaust its own deposit while the other's is there to be taken. Deadlock is not checked where everything
may be used up: every burn transaction, every hash, every block.

Fairness. `Progress` (BridgeClient) is weak fairness of the source chain and Iris: a broadcast burn
settles and is attested. Nothing is assumed of the executions' awaits: tx.wait() in waitWithRetry
(bridge.ts:322), the wallet's prompts and the calls to a wallet or RPC that does not answer
(bridge.ts:950) have no time-out, so an execution may hang for ever, and the page with it.
`Persistence` is about the user and the network. A user who sees an execution stand at one await for
ever finally reloads the page (`GiveUp`; docs/user-guide.md:39 tells them to), and whoever is offered
a resume again and again takes it in the end (strong fairness of the two resume buttons, for each
tab). With the strong fairness of a resumed execution's steps it says that no obstacle recurs for
ever; without it nothing can promise delivery. Only `StoredBurnDelivered` needs fairness. In
RefuelService each handler is weakly fair: every await returns or throws. (RelayService states
no fairness: that its locks are exact says when they are released.) In Indexer startup, tick and loop are weakly fair for the same reason, and `NothingThere` and
`Stored` strongly: node and database do not fail on a block every time it is tried. Without that
the worker retries one block for ever.

## 4. Proofs

BridgeClientProofs. `ReportedIsMinted` is not inductive: an execution that is about to succeed
must already stand on a delivered burn. `IInv` adds what each `pc` knows (`FlowsKnow`), that
stored and displayed hashes are genuine (`StoredGenuine`, `ShownGenuine`), and the order of the
chains (`ChainsOrdered`: minted only if attested, attested only if the burn took effect). Each
action has a lemma; `ErrorsForgetNothing` (an action property) and `ClientImplementsTransfer`
(refinement, every step maps to a `CctpTransfer` step or a stutter) follow from the invariant.

RefuelServiceProofs. `NoDoublePay` follows from where a hash is: unmarked before Accept, marked
after it (`Marked`), and what may still be broadcast in this life has not been (`PayoutsLeft`);
exact locks give that no second handler has the hash. Valid for any number of deposits,
handlers, restarts, prices and balances.

`BusyPageHasExecution` is inductive given the types: the end of an execution leaves its page with
an outcome and the other tabs alone, and whatever sets a page to busy is alive.

CarefulUserProofs. For a careful user of one tab whose browser stores (`CarefulUse`) there is at
most one execution, and the storage, the page and the refs are determined by where it stands:
nothing is stored before the hash, then its own burn is (`Stored`); the page is busy but for a
resume that has not verified its receipt (`Shown`); the refs hold the burn, and that the mint
was reached or was not (`Remembered`), which is what makes an error offer the resume
(`Resting`). From it follow `SubmittedIsStored` and the action property
`SessionKept`, for any number of burns and however they were typed. `StoredBurnIsOffered` says that an
error page is no dead end, which follows too, and that what is stored is worked on or offered. That
needs in addition that an idle page where nothing runs shows the banner of what is stored (the last part
of `Resting`), and that a busy page has an execution, which `BusyPageHasExecution` says.

Sums, SumsProofs. A sum over a finite set is stated with an enumeration of the set and its partial
sums (`IsSum`), because neither a recursive definition nor a fold can be reasoned about here.
The proofs carry a witness of it through the steps (`AddsUp`): when one entry changes by d, the
partial sums past it change by d (`OneEntryChanges`). Because the partial sums ascend, no entry
exceeds the sum (`EntryFits`).

YieldVaultProofs. `FundedYieldKeepsPrincipal` follows from the books, which are inductive with
the types; the cap in withdraw is what keeps the balance a natural number. `TotalIsPrincipal`
follows the witness of the sum. `EntitlementKept` is an action property: the yield of a position
that stays as it is grows with rate and time (products and the division are monotonic), and a
deposit's checkpoint takes over all that has accrued. `OnlyTimePays` is the other side: what is
owed on an untouched position does not grow at a standing clock (`ValueStays`), a deposit adds
exactly its amount to it (`DepositAdds`), and a withdrawal pays at most what was owed. The case
of a first deposit needs the inductive `EmptyIsClean`: a closed position keeps no checkpoint, or
the next deposit would collect it again. `WithdrawalsNeverUnderflow` is
`EntryFits` for the positions: the checked subtraction in withdraw never reverts.

PaymasterProofs. `LockedIsReserved` and `ReservationsAreCovered` need each other. The invariant
keeps, per user, the partial sums of what the rest of the bundle has reserved (`Remaining`): it
gives that the head's reservation is part of what is locked, so postOp's release does not
saturate. `CostFitsReservation` says that a cost at the rate of the reservation, or at a lower one, is
at most what was reserved, which is where the accounts of `repriced` fall out. `DepositsAreHeld`
follows the witness of the sum of all balances, and `PayFeeBooks` that a fee paid to the contract
itself does not count as a deposit; `WithdrawalsCovered` adds `EntryFits`: the
contract holds every single balance. `ChargesStayReserved` is an action property: a withdrawal or a deduction takes unlocked funds, a settlement takes from
the head's own account what its reservation covers.

RelayServiceProofs. `HookHonoured` is a refinement: a relay that is accepted is one `Deliver`,
every other step a stutter. That it is the first of its message needs `DeliveredIsReceived` (a
delivered message's nonce is used), that the rest is paid needs that the balance difference is
the minted amount. `HoldsOnlyItsOwn` is inductive with the types; a relay is split by whether fee
and rest go to the contract itself. `PendingIsInFlight` needs `SlotsAreClean`: a handler that does not run holds
no message. `MarksAreRight` has two halves: `UsedWasTried` needs that a message is marked only after its transaction was broadcast
(`SentWasTried`), and that a transaction which leaves the mempool has delivered its message or failed.
`MarkedIsNotResent` is inductive with the exact locks: a handler finds its message unmarked when it
takes the lock, and only the holder of the lock marks it.
Valid for any messages, hooks, amounts, fees, requests, handlers and restarts.

IndexerProofs. `CountedOncePerRewind` is not inductive: a commit counts its block once more, so it
must be known that what lies ahead of the worker has been counted less. That is
`AheadIsAccounted`: beyond the cursor, and beyond lastIndexedBlock while the worker runs, an
event has been counted at most as often as there were rewinds. `AdvanceKeeps` says once why going
past a block is right, for the three actions that do it: each of its events is stored or recorded in
`missed`, also when the block is stored in part. `WorkerInRange` is `NeverAhead`, part
of the invariant, and `NeverBehind`: a running worker without a rewind behind it is at the cursor
or past it. With it no step but a rewind moves the cursor back (`CursorNeverFallsBack`). Valid for
any chain, caps and failures.

Assumptions of the proofs are the named ASSUMEs only: constants are of the right kind, None is
no burn, session or account, the accounts of the two contracts are finitely many, the depositor of
a hash is fixed, the yield divisor is positive. Every invariant and action property of the
runs is proved for all values of the constants, the careful user's under `CarefulUse`. Three theorems
state a consequence that no run checks by itself: `WithdrawalsNeverUnderflow`, `WithdrawalsCovered`
and `CursorNeverFallsBack`. Only model-checked:
the liveness properties (`StoredBurnDelivered`, `LockReleased`, `EveryEventArrives`) and, of course,
the five refuted claims.

## 5. Findings

Each is a run whose property quotes the document or comment it refutes; see `findings`.

1. docs/technical-reference.md:73 forbids offering a new transfer over an unresolved burn; the
   page does after a reload.
2. README.md:64 promises recovery when the wallet RPC fails after broadcasting; the hash is lost.
3. README.md:63 promises a persisted session; `.5` as an amount makes it unreadable.
4. gasrefuel.ts:473 calls nonce clashes safe to retry; an underpriced replacement is not.
5. YieldVault.sol:13 and :127 call principal always safe; it is while paid yield was funded.

Seen while modelling, without a run:

* GAS_RESERVE_WEI (gasrefuel.ts:74) is a thousandth of the amount its comment computes, and does
  not pay for one transfer at the gas price given there.
* relay.ts:9 and :264 call a marked message permanently fulfilled, and :210 answers that it has been
  relayed; one whose transaction reverts or is evicted stays marked, undelivered, until a restart
  (`failed` in RelayService).
* handleBridge (BridgePage.tsx:253) and handleResume (:314) clear the stored session when their
  transfer completes, and there is one key for all (session.ts:23): with two transfers under way, in
  two tabs or beside a resume, each overwrites the other's session and the first to complete clears
  it, and the open one cannot be resumed after a reload. `bridge_careful` excludes it by `Careful`.
* indexer.ts:130 asks for a block's logs in five requests, and 142 skips a block that getBlock does not
  find. What a node that is behind does not answer is never asked for again: the next commit moves
  the cursor past it (`missed`). A mint whose MessageReceived request finds nothing is stored with
  remoteDomain 0 and never corrected.
* Paymaster.sol:72 calls `locked[user] <= balances[user]` a class invariant. It fails when the rate
  is raised between validation and postOp: the charge then exceeds the reservation and may take what
  another operation of the user has reserved (`repriced`).
* The reservation of an operation whose postOp reverted is never released (`lost`).
* docs/paymaster.md says that a pause freezes all user operations; withdraw and postOp are not
  gated by it.

## 6. Not modelled, and the plan

Not modelled, because there is no state a step could get wrong:

* the safety gate, a pure function of method and path that the tests enumerate, and the stateless routes;
* the SDKs (decoding, validation, encryption), database schema, generated clients, other front ends,
  scripts and vendored UI: by lines most of the repository;
* the pages other than BridgePage: App.tsx does not route to them. lib/gaslessBridge.ts has no caller;
  the smart-account branch of executeBridge is disabled in the mainnet profile.

Not modelled, because a small instance says little about them: the legacy GasRelayer, the
FeeRouters and ComposableReceiver are contracts whose calls depend on a fee and a pause only, and
what is hard in them (the order of fee change and call) is what GasRelayerV2's model checks.
Ownership of GasRelayerV2 only says who makes the admin calls; rescueTokens of the contracts concerns other tokens; setVaultName is a label.
The wallet's network is no variable of BridgeClient: ethers' provider refuses a signature after
a network change, which is an execution that fails.

Plan, should the code grow: FeeRouter in front of the burn, once the page calls it; the
smart-account branch as further actions of `BridgeClient`, once it is enabled.
