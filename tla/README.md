# A TLA+ model of go-nitro

go-nitro is a client for a network of state channels. Two clients open a *ledger
channel* by depositing on chain. Clients that have no ledger channel with each other
open *virtual channels*, funded by guarantees in the ledger channels that each of
them has with an intermediary. This directory holds TLA+ modules for the client and
for the contracts it uses, TLC configurations that check them on small instances,
and TLAPS proofs of what everything else rests on: the ledger protocol, finality and
payouts of the contract, approval and closing of virtual channels, and the buffers between
clients.

Throughout, Alice and Bob are the ends of a virtual channel and Irene is the
intermediary, as in the repository's tests.

## The system

| part | code | state | operations |
|---|---|---|---|
| ledger outcome | `channel/consensus_channel/consensus_channel.go` | two balances, guarantees, turn number | `Add`, `Remove` |
| consensus channel | `channel/consensus_channel/` | consensus state with both signatures, proposal queue | `Propose`, `Receive`, `SignNextProposal` |
| channel | `channel/channel.go` | signed states by turn number | `AddSignedState`, `SignAndAddState` |
| objectives | `protocols/{virtualfund,virtualdefund,directfund,directdefund}` | status and what the objective waits for | `New`, `Update`, `UpdateWithChainEvent`, `Crank` |
| store | `client/engine/store` | objectives, channels, ledger channels, owner of each channel | getters, setters, `Destroy...`, `Release...` |
| engine | `client/engine/engine.go` | – (all in the store) | one handler per kind of event |
| message services | `client/engine/messageservice` | messages on their way, in buffers | `Send`, delivery |
| client | `client/client.go` | what the application was not told yet | the API, `handleEngineEvents` |
| chain service | `client/engine/chainservice` | events on their way | `SendTransaction`, `broadcast` |
| adjudicator | `nitro-protocol/contracts` | holdings, channel status, the clock | `deposit`, `challenge`, `checkpoint`, `conclude`, `transfer`, `claim`, `transferAllAssets` |

A client is one goroutine, the engine's run loop. It takes an API request, a message
or a chain event, updates the objective it is for, *cranks* the objective (which
declares side effects), stores the result, and carries out the side effects. An error
in a handler panics the loop. What is hard about this system is not in any one
handler but between them:

- three clients fund a virtual channel through two ledger channels that they see
  different parts of, and each signs on what it sees;
- several objectives share the proposal queue of a ledger channel;
- proposals are repeated (the leader sends its whole queue), and messages of
  different senders arrive in any order;
- a message or an event may arrive before or after the object that it is for exists;
- deposits must be in order, and the chain tells of them late;
- two clients may close the same channel, or close it while the other still uses it;
- run loops write to each other's bounded buffers, and wait when those are full;
- on chain, anyone may call anything at any time: outdated states are submitted and must
  be answered before the clock runs out, and what a channel owes is paid in pieces.

`PROJECT.json` lists the hazards line by line, with the properties that cover them.

## Modules

| module | models |
|---|---|
| `Ledger` | `LedgerOutcome`, `Vars`, `Add`, `Remove` |
| `ConsensusChannel` | one participant's copy of a ledger channel, and its methods |
| `AtomicLedger` | what a ledger channel promises: one ledger, one proposal at a time |
| `LedgerProtocol` | the two copies and the proposals on their way |
| `LedgerProtocolProofs` | the proofs about `Ledger` and `LedgerProtocol` |
| `StateChannel` | `channel.Channel` and `SignedState` |
| `MemStore` | what one client keeps; messages and side effects |
| `VirtualFund`, `VirtualDefund`, `DirectFund`, `DirectDefund` | the objectives |
| `Adjudicator` | chain, blocks, transactions and events, as the client sees them |
| `Engine` | the clients' run loops, the network and the chain together |
| `EngineLedgers` | every ledger channel of `Engine` as an instance of `LedgerProtocol` |
| `ObjectiveProofs`, `HandlerProofs`, `EngineProofs` | the proofs about the objectives and `Engine` |
| `MessageService` | the goroutines of two clients and the bounded channels between them |
| `ForceMove` | the status of a channel on chain and the calls that change it |
| `MultiAssetHolder` | the algorithms of `transfer` and `claim`, their TypeScript copies, `Affords` |
| `NitroAdjudicator` | the contract: `ForceMove` and `MultiAssetHolder` over one store, with time |
| `MultiAssetHolderProofs`, `NitroAdjudicatorProofs`, `MessageServiceProofs` | the proofs about these modules |
| `Induction` | induction on numbers and finite sets, and functions that iterate a step, for the proofs |
| `MCLedgerProtocol`, `MCEngine`, `MCNitroAdjudicator`, `MCMessageService` | small instances for TLC |

A method of the Go code is an operator from the record it is called on to the record
that it leaves behind. An objective's operators take the whole record of a client,
because they work on channels that the store shares among objectives. `stopped` in
that record says that an error has reached the run loop (`Panic`). Definitions have
the names of the functions they model, with the objective's name where several objectives
have the function (`CrankVirtualFund`, `UpdateDirectDefundWithChainEvent`); `map` in
`PROJECT.json` gives the lines.

In `Engine` one action is the handling of one event, from the guard of the `select`
to the last side effect: `CreateDirectChannel`, `CreateVirtualChannel`,
`CloseVirtualChannel`, `CloseDirectChannel` (API requests), `Deliver` (a message),
`Observe` (a chain event). `Mine` makes a block of any of the pending transactions, in
any order; `Adjudicator` applies them one after another, and the events of a block carry
its number and the holdings at its end, which is what the chain service reads. `Send` is
explained under "The network".

In `NitroAdjudicator` one action is one call that succeeds (a call that reverts changes
nothing): `Challenge`, `Checkpoint`, `Conclude`, `ConcludeAndTransferAllAssets`,
`Deposit`, `TransferAllAssets`, `Transfer` and `Claim`, made by anyone with any supported
state or any list of indices. `Agree` is the participants' work off chain, `Tick` the clock.
`statusOf`, `holdings` are the contract's; `agreed` is the latest turn all participants
signed, `paid` what left the contract. The contract stores a hash of the state and outcome
and has callers pass them again; the model keeps them. A loop of `MultiAssetHolder` is an
operator for one iteration on the record of its local variables, and a recursive function
that iterates it.

In `MessageService` one action is one step of a goroutine between two channel operations:
`HandleEvent`, `HandleMessage`, `Send` and `Report` of the run loop, `routeFromPeers` of the
message service, `handleEngineEvents` of the client, and `Read` of the application. Messages
are only counted.

### What is abstracted

- A state is its turn number, outcome and finality. A signature is on one state and
  by one signer; hashing and recovery are ideal.
- Ledger channels hold one asset (as `LedgerOutcome` does). Amounts are naturals,
  since the code uses `big.Int`.
- The contracts' amounts have a width (`Uint256`, `Uint48`) and unchecked arithmetic wraps
  around, as in Solidity 0.7.
- A virtual channel has one intermediary, and there is at most one ledger channel
  for each pair of clients.
- Definitions named as mutations (`AddForgetsRight`, `safeAboveThreshold`, ...) are no part of
  the model: each is a plausible mistake in the definition that follows it, and TLC
  finds the property it is paired with violated when it takes that definition's
  place.

### Points of the code that the model keeps

- `Vars.Add` takes the "left" deposit from the leader's balance, whoever is left;
  `Vars.Remove` credits by left and right.
- `SideEffects.Merge` does not merge `ProposalsToProcess`, and `fromLedger` is nil.
- `virtualfund` ignores every error of `Receive`; `virtualdefund` only
  `ErrInvalidTurnNum`.
- A direct defunding withdraws with the signed state that it read before it signed,
  which has the signature all the same: the map of signatures is shared.
- A deposit names the holdings at submission, and `deposit` compares when mined.
- A direct funding applies only deposits of a later block than the last. Two deposits
  for one channel never share a block, because the follower waits for the event of the
  leader's; blocks with transactions for different channels are in the runs.
- `transfer` tests the type of `allocations[k]`, where `k` counts the indices, not of the
  entry it pays. The runs do not ask it for guarantees (`OnlySimple`).
- `claim` matches the caller's indices in the order of the guarantee's destinations, and
  tests the type of `allocations[targetAssetIndex]`.
- `conclude` does not look at `isFinal`. `LatestAgreedWins` is checked and proved for callers
  that submit final states (`OnlyFinal`); other properties do not depend on it.
- A channel that is paid out in full has its status deleted, and is open again.

### The network

No message is lost: `Send` of the test service blocks until the message is with the
recipient's service, and `Send` over TCP panics if it cannot connect or write.

- `test-messageservice.go` has one channel per recipient, which all senders share
  (`Overtaking = FALSE`). A client that sends several messages is interleaved with
  others who send to the same recipients, so all but the first message of a handler
  have steps of their own, `Send`.
- `simpletcp-messageservice.go` makes a connection for every message. Messages of
  different senders overtake each other; those of one sender to one recipient keep
  their order (`Overtaking = TRUE`).

Every order of the first is one of the second, so a property that holds with `TRUE`
holds for both. Passing runs use `TRUE`, except `lifecycle`. Violations use `FALSE`,
so that their traces are traces of the test service too, except `multi_party`.
`LedgerProtocol` assumes less than either: its messages may also be repeated, lost
and reordered at will.

In these runs buffers have room. `MessageService` asks what happens when they have not:
`fromPeers` and `out` of a test service hold five messages each, `routeFromPeers` one more,
and `Send` blocks the run loop, which then takes no messages either. With
`Load <= 4 * BufferSize + 3` messages that are not handled yet (23 in the code), not everyone
can be waiting; with one more they can, which TLC shows when `Load` is 12 in
`MCMessageService.cfg` and `LoadAssumption` is raised accordingly. The same holds of the
objectives an application has not read: `2 * ApiBufferSize + 1` of them (201) are safe. The
event that blocks is then in the run loop of a client whose application does not read.

### Fairness

`Fairness` in `Engine` says that a message service hands over each message, that a
run loop takes what is waiting and sends what it has to, and that transactions are
mined. It is weak fairness; for the two actions that run a
handler, its ENABLED is written out. The run loop's `select` chooses
at random among its ready channels, so no channel is left out forever. Applications
need not make any request: no fairness is assumed of them.

`Fairness` in `MessageService` is weak fairness of each goroutine's steps and strong
fairness of `HandleMessage`, because the `select` may choose another channel while a
message waits, but not forever. The application may read late or never.

`Fairness` in `NitroAdjudicator` says that time passes, that watchful participants answer an
outdated challenge (the code leaves this to them, and `Watchful` says so), and that those
who are owed something call `transferAllAssets` or `claim` until it is paid, by their call
or by another's. No other call has fairness.

## Runs

| run | what it asks | states |
|---|---|---|
| `ledger_protocol` | Does one ledger channel stay one supported, conserved history, and implement `AtomicLedger`? | 27,401 |
| `virtual_channels` | Two virtual channels over the same two ledger channels, funded and closed concurrently: does a client fail, is a channel ever without guarantees, is any balance wrong? | 57,817 |
| `funding_both_ways` | Two virtual channels in opposite directions with Irene following in both ledger channels: are both funded? | 22,647 |
| `disagreements` | Alice and Bob close a channel with different payments, and Bob rejects another | 14,889 |
| `ledger_channels` | Two ledger channels from deposits to payout | 8,553 |
| `lifecycle` | Two ledger channels and a virtual channel, from the first deposit to the last payout | 15,605 |
| `adjudicator` | A channel that guarantees two others is challenged, answered, concluded and paid out by anyone in any order | 48,152 |
| `messaging` | Two clients with small buffers that send to each other, one with an application that reads late: do they block each other? | 221,221 |

### What they show

- **One history** (`OneHistory`, `Chain`, `ConsensusAdvances`): the follower's
  consensus and queue are a stretch of the leader's; nobody goes back.
- **Enforceable** (`ConsensusIsSupported`, `NoConflictingSignatures`): consensus
  states have both signatures, and nobody signs twice for a turn.
- **Conserved** (`FundsConserved`, `BalancesExact`, `PaidOutExactly`): nothing is
  lost, and each participant has exactly what it put in, less deposits and payments,
  up to the payout on chain.
- **Robust** (`ReceiveNeverFails`, `NoClientStops`): no message, however late, stops
  a client in these scenarios. The exceptions are below.
- **Compositional** (`LedgersFollowProtocol`): the objectives of all clients use a ledger
  channel as `LedgerProtocol` allows, since its inductive invariant holds of every
  ledger channel in `Engine`.
- **Funded** (`StaysFunded`): from the first complete postfund state to the first
  complete final state, both copies of both ledger channels guarantee a virtual
  channel, even if both ends close it. `RejectedNeverFunded`: one rejection is enough.
  `AgreedPayment`: no two different final states are complete.
- **Backed** (`DepositsInOrder`, `LedgersBacked`): no follower deposits before the
  leader's deposit is on chain, and no ledger channel is used unless it is backed.
- **Progress** (`EventuallyFunded`, `EventuallyDefunded`, `EventuallyOpen`,
  `EventuallyWithdrawn`): what was asked for completes at every participant.
- **The latest state wins** (`LatestAgreedWins`, `ChallengesEnd`): a challenge with an outdated
  state can always be answered up to the last block before it finalizes, and a channel is
  finalized only with the latest state that all have signed.
- **Settled for good** (`SettledForGood`): what is finalized is not replaced, and its status
  is deleted only with the last payment.
- **Fair payouts** (`PaysFairShares`, `PayoutsCommute`, `FundsConserved` of
  `NitroAdjudicator`): `transfer` computes what a definition by priorities says; the order in
  which `transfer`, `transferAllAssets` and `claim` are called, and for which entries, makes no
  difference to what anyone was paid and is still owed; nothing is made, lost or wrapped
  around. `EventuallyPaid`: what is owed is paid.
- **Same answers** (`EmulatesSolidity`, `AffordsIffCovered`): the TypeScript copy computes what
  the contract computes, and the Go client's `Affords` says of an entry whether the
  contract would pay all of it.
- **No mutual waiting** (`NotAllBlocked`, `EveryMessageHandled`): see "The network".

### Violations

Four runs check a statement of the repository that the code does not meet. TLC's
counterexamples are the shortest, or nearly.

| run | statement | why it fails |
|---|---|---|
| `left_deposit` | `LeftDeposit` is deducted from the left participant | `Add` deducts it from the leader. If Bob leads his ledger channel with Irene, each puts up the other's share. The tests' channels have equal deposits. |
| `multi_party` | ADR-0006: pending proposals get processed | `Merge` drops them. Two channels of Alice's to different peers: the second proposal in the queue may never be signed. |
| `close_in_progress` | no closing during an update | the check only looks at the consensus state |
| `mixed_outcome` | `claim` pays the beneficiaries of the target at `indexOfTargetInSource` | `_apply_claim_checks` tests the type of the entry at `targetAssetIndex`. In a ledger outcome of the client, balances come first, so the claim reverts. |

`multi_party` is checked with `Overtaking = TRUE`, where it takes a minute. With
`FALSE`, a state where nothing is on its way and one channel is unfunded is reached
too, in a search of some 900,000 states. The same happens with two channels between
the same clients if one is closed while the other is being funded; that is why
`EventuallyFunded` is checked in a run without closing requests.

The closing requests of an application are *patient* in the passing runs other than
`disagreements`: it waits until all participants have completed what it builds on, as
the repository's tests do. `NoClientStops` is checked in runs without rejections, and not in
`lifecycle`. The model has the cases these choices leave out, and TLC finds `NoClientStops`
violated in seconds when the constants allow them:

- `Patient = FALSE`, one virtual channel, `Requests <- AliceCloses`: the final state may reach
  a client whose funding objective still owns the channel (`SetObjective`);
- `Refused = {<<bob, 1>>}`, one virtual channel: the second message for a rejected objective
  fails in `Crank`;
- the constants of `MCEngineLifecycle.cfg`: a payload for a completed objective cannot be
  ignored, since the objective cannot be read once its ledger channel was closed;
- closing requests of both participants of a ledger channel: the one that comes after the
  other's final state finds no consensus channel.

### Bounds

- `ledger_protocol`: two virtual channels, amounts 0 to 2, initial balances 2 and 1,
  turn numbers up to 4, that is queues of three proposals. Add after Remove,
  insufficient funds, a countersignature that settles several proposals and late
  duplicates all occur. The theorems lift these bounds.
- `Engine`: three clients (four in `multi_party`), two ledger channels (three), one or
  two virtual channels. Deposits differ (2 and 1), and so do balances (6 and 5), so
  that mixing up participants shows. Each request is made once, which makes all
  behaviours finite.
- The event channel has its real capacity, 10. It does not fill up in these runs.
- `adjudicator`: three channels with histories of three, one and one states, two deposits,
  time up to 5, durations 2 and 1. G's holdings can be too small for what it guarantees and
  its guarantees overlap in their destinations, so that priorities matter; T and U get no
  deposits and are paid from G only. Amounts are far below `Uint256 = 32`, so a
  subtraction that wraps around shows as a large number.
- `messaging`: buffers of 2 and 1 (5 and 100 in the code), up to two messages and two
  completed objectives per event; `Load` and `MaxUnread` are the largest the assumptions
  allow, so every buffer fills up. Only Alice's application has reports to read.
- Deadlock is not checked in `NitroAdjudicator`, where time ends at the bound and nothing
  more need happen once all is paid.
- Deadlock is not checked in `Engine`: when all requests are made and handled the
  system rests. The liveness properties say that it does not rest too early.

## Proofs

### The ledger protocol

`LedgerProtocolProofs` proves, for any number of virtual channels, any amounts, any
initial balances and turn numbers and any bound on them:

| theorem | states |
|---|---|
| `ChainInvariant` | `Spec => []Chain` |
| `TypeCorrect`, `AlwaysSupported`, `NeverConflicting`, `Conservation` | the parts of `Chain` that are of interest themselves |
| `AlwaysOneHistory` | `Spec => []OneHistory` |
| `NoReceiveFails` | `Spec => []ReceiveNeverFails` |
| `Advances` | `Spec => ConsensusAdvances` |
| `Refinement` | `Spec => ImplementsAtomicLedger` |

The assumptions are the types of the constants (`IDAssumption` to
`MaxTurnNumAssumption`, `NumTargetsAssumption`) and no more.

None of the properties is inductive alone. `OneHistory` says nothing of messages, so
a message that is not on the chain could be received next; and a conserved total is
kept by `Add` only if the state it applies to is the one that was signed. `Chain` adds:

- `WellChained`: each queued proposal applies to the state before it, and its
  signature is on the state after it, so states can be read off the signatures (`At`);
- `FollowsLeader`: the follower is on that chain, `Ahead` of the leader's consensus;
- `MessageOK`: a message to the follower is in the leader's queue or of the past; one
  to the leader is on a state that the follower has agreed to;
- no signature is on a later turn than the leader's last.

The proof that a step preserves `Chain` has one lemma per action (`ProposeChain`,
`FollowerReceivesChain`, `FollowerSignsChain` and `LeaderReceivesChain`). They rest on
lemmas about a well-chained queue: where it leads, what signs it, and what is
left of it when proposals are appended or done with; and that `HandleProposal` preserves the
total of an outcome. `Refinement` maps the ledger of `AtomicLedger` to the follower's
consensus state and what the leader has learnt to the leader's turn number.

Sums and loops are recursive functions. The library's induction theorems have an
operator parameter and are of no use to the provers, so `Induction` derives induction for
the members of a set from the existence of a least element (`LeastNumber`, `InductionUpTo`),
and from it that a function which iterates a step exists, is the only one, and keeps what
the step keeps.

### The contract

`MultiAssetHolderProofs` is about the algorithms, for any holdings, outcomes and indices
of the types the contract takes:

| theorem | states |
|---|---|
| `TransferPaysShares` | `transfer` pays every entry it is asked for its `Share`, takes that off the outcome and nothing else, and no subtraction wraps around |
| `TransferKeepsPriority` | nothing is paid for an entry after one that is paid only in part |
| `ClaimPaysShares` | `claim` for everything pays the guarantee's destinations in its order, out of the guarantee's own share |

`NitroAdjudicatorProofs` is about the contract, for any number of channels and participants,
any histories, deposits and positive durations, and any calls in any order:

| theorem | states |
|---|---|
| `AlwaysTyped` | `Spec => []TypeOK`, in particular that no holding wraps around |
| `AlwaysPaysFairShares` | `Spec => []PaysFairShares` |
| `AlwaysEmulates` | `Spec => []EmulatesSolidity` |
| `AlwaysConserved` | `Spec => FundsConserved` |
| `AlwaysSettled` | `Spec => SettledForGood` |
| `AffordsWhatIsPaid` | `Spec => []AffordsIffCovered`, if no outcome has two entries for one destination |
| `AlwaysLatest` | `Spec => []LatestAgreedWins`, with `Watchful` and `OnlyFinal` |
| `NeverUnsettled` | a finalized channel keeps its state until its status is deleted, whoever calls what |

The assumptions are that times fit 48 bits (`AdjudicatorAssumption`), that nobody signs
anything after a final state (`FinalIsLast`), that no channel allocates to itself and that a
guarantee is for a channel and names each destination once, as those of the client do
(`OutcomesAssumption`), and that there is no more of an asset than a `uint256` counts
(`DepositsAssumption`).

The invariant of the funds is `Sound`: what is held, was paid and is still to be deposited
is at most the sum of all deposits, and every outcome on record is one that the channel may
have. It is needed because the effects of `transfer` and `claim` subtract and add without
checks: a credit of one channel is within `uint256` only because all channels together are.
`SafeMath` in `deposit` makes a deposit that overflows revert, and the model has that guard
though `Sound` shows that it always holds. For
`AlwaysLatest`, `Latest` adds that no status is on record that was not agreed on
(`StatusOK`); the step that matters is `TickStep`: a challenge that finalizes with the tick
was not `Overdue`, so its turn is the latest.

The hypothesis of `AffordsWhatIsPaid` is needed: `Affords` takes the first allocation that
equals the one it is given, so it speaks of the first of two equal entries only.

### The engine

`EngineProofs` proves two properties of all clients together, for any number of clients,
ledger channels, virtual channels and requests, any routes, and any order of messages,
blocks and events:

| theorem | states |
|---|---|
| `NeverFundedIfRejected` | `Spec => []RejectedNeverFunded` |
| `OnePaymentAgreed` | `Spec => []AgreedPayment`, if no client asks twice to close the same channel (`AsksOnce`) |

Both are about what a signature stands for. Nobody knows what others have decided; a client
concludes it from signatures that were sent, queued, merged and stored on the way. The
invariant names two sets that are in no store: `<<v, r>>` is in `K` if role `r` of channel `v` approves
of it, `<<v, r, y>>` is in `F` if `r` has agreed to close `v` with payment `y`. `StoreOK` in
`ObjectiveProofs` says of one store that

- a signature on a prefund state is that of somebody who approves, and my own decision is
  in `K` if and only if I approve;
- a final state, stored or sent, is for a payment that all its signers agree to, and
  what I agree to is what my objective is for;
- whatever a ledger channel guarantees or has in its queue is approved by everybody;
- the same of all messages to be sent; and the shape of the records, as far as
  the operations depend on it.

`Sound` says the same of all stores and of the network. It is inductive: `Crank` of
`virtualfund` proposes and signs for ledger channels only when the prefund state is complete,
which puts everybody into `K` (`PreFundApproves`). A client that rejects is not in `K` and
never will be, whence the first theorem. `ObjectiveProofs` has a lemma for each operation on a
store and for each `Crank`; `HandlerProofs` follows the handlers down to these; `EngineProofs`
has one lemma per action (`CreateDirectChannelStep` to `ObserveStep`).

For the second theorem `F` must not grow at will. `Anchored` says that, once anybody has agreed
to a payment for `v`, some role has agreed to one payment only and will not ask for another.
A client that learns of the closing from a message agrees to what the message is
signed for, and only if it had agreed to nothing: it is not the anchor. A client that asks is the
anchor if it is the first, and is not otherwise, because it asks once. A final state signed
by all is signed by the anchor, so there is one. `AsksOnce` is needed: a client that asks again gets a
new objective and signs a second final state, for whatever it asks for then.

The assumptions are the types of the constants (`ParticipantsAssumption`,
`LedgerAssumption`, `RequestsAssumption`), that a pair of clients has one ledger channel at
most (`OneLedgerAssumption`) and that the participants of a virtual channel have ledger
channels, opened or not (`RoutesAssumption`). No bound, no `Patient` and no order of delivery
is assumed; both values of `Overtaking` are covered.

### The buffers

`MessageServiceProofs` proves `BuffersNeverExceeded` and `NeverAllBlocked` for buffers of any
size, any number of messages and objectives per event. If everyone waits, each run loop
waits for a full `fromPeers` of the other (`WaitsForFullPeer`), whose router holds a message for a full
`out`: with the two messages being sent that is more than `Load`. If a run loop waits to
report instead, `toApi`, the handler and an outlet are full, which is more than
`MaxUnread` (`ReportsOrOthersDo`).

### Only model-checked

- All liveness properties: temporal reasoning with fairness is out of TLAPS's reach.
- `PayoutsCommute`. It holds for the outcomes of the run; if a source has several
  guarantees for one target, the order of claims does make a difference to who is paid.
- `LedgersFollowProtocol`, `StaysFunded`, `BalancesExact`: they relate the two copies of a
  ledger channel and the messages between them to the objectives of both clients, for
  which `Chain` would have to be shown of every ledger channel in `Engine`.
- `DepositsInOrder`, `LedgersBacked`, `PaidOutExactly`: about the objectives that are left out
  of `StoreOK`, and the chain.
- `NoClientStops`: it holds of the runs' scenarios and not in general (see "Violations").

## Not modelled

- Support proofs of several states (`StrictTurnTaking`, and `ShortcuttingTurnTaking` beyond one state)
  and the applications that use them. The client's channels use the `ConsensusApp`, which admits
  one state signed by all.
- Outcomes with several assets on chain: the contracts handle assets one by one, and a
  ledger channel has one.
- The buffers of TCP connections, and more than two clients in `MessageService`: the bound on
  the load is for two.
- Reorganizations of the chain, which the chain service does not handle.
- Encodings: JSON of objectives and messages, ABI of states and outcomes, hashes and
  signatures. They have no control flow that the protocols depend on.
- The mock chain, metrics, generated bindings, the rest of the TypeScript library, test
  support.
- Crash and restart: the store is in memory, and nothing is recovered.

## Plan

In this order:

1. chain events dropped at capacity, which takes six ledger channels of one client;
2. two ledger channels between the same clients, as concurrent requests create them;
3. more than two clients in `MessageService`;
4. proofs: `Adjudicator` and `DirectFund` (deposits in order, backed), and that the part
   of `Engine` that concerns one ledger channel implements `LedgerProtocol`.
