-------------------------- MODULE NitroAdjudicator --------------------------
(***************************************************************************)
(* The contract as a whole: nitro-protocol/contracts/NitroAdjudicator.sol, *)
(* ForceMove and MultiAssetHolder over one store, called by anyone in any  *)
(* order while time passes and the participants agree on states off chain. *)
(*                                                                         *)
(* A transaction that reverts changes nothing, so an action is a call that *)
(* succeeds.                                                               *)
(***************************************************************************)
EXTENDS ForceMove, MultiAssetHolder, FiniteSets

CONSTANTS
  Channels,           \* the ids of channels
  Externals,          \* external destinations
  nParticipants,      \* of each channel
  challengeDuration,  \* of each channel
  History,            \* History[c][t] is the state of c with turn number t
  Deposits,           \* deposits, each to be made at most once: a set of records
                      \* with fields channelId, expectedHeld and amount
  Watchful,           \* participants answer a challenge with an outdated state in time
  OnlyFinal,          \* conclude is called with final states
  OnlySimple,         \* transfer is not called for the index of a guarantee
  MaxTime             \* a bound: no challenge may finalize later

Turns(c) == 1..Len(History[c])

ASSUME AdjudicatorAssumption ==
  /\ MaxTime \in Nat
  /\ Uint48 \in Nat /\ Uint48 > MaxTime + 1
  /\ nParticipants \in [Channels -> Nat \ {0}]
  /\ challengeDuration \in [Channels -> Nat \ {0}]
  /\ \A c \in Channels : Len(History[c]) \in Nat

\* After a final state, participants sign no other.
ASSUME FinalIsLast ==
  \A c \in Channels : \A t \in Turns(c) : History[c][t].isFinal => t = Len(History[c])

Destinations == Channels \cup Externals

\* What an outcome of channel c may be: no channel allocates to itself, a guarantee is
\* for a channel, and names every destination it pays once (the client's name left and
\* right).
Outcomes(c) ==
  {allocations \in Seq(Entry(Destinations)) :
     \A i \in DOMAIN allocations :
       /\ allocations[i].destination # c
       /\ isGuarantee(allocations[i]) =>
            /\ allocations[i].destination \in Channels
            /\ \A j, k \in DOMAIN allocations[i].metadata :
                 allocations[i].metadata[j] = allocations[i].metadata[k] => j = k}

ASSUME OutcomesAssumption ==
  /\ IsFiniteSet(Channels) /\ IsFiniteSet(Externals) /\ Channels \cap Externals = {}
  /\ \A c \in Channels : \A t \in Turns(c) : History[c][t].outcome \in Outcomes(c)

\* There is not more of an asset than a uint256 can count.
ASSUME DepositsAssumption ==
  /\ IsFiniteSet(Deposits)
  /\ Deposits \subseteq [channelId : Channels, expectedHeld : Amount, amount : Amount]
  /\ SumOf([tx \in Deposits |-> tx.amount], Deposits) < Uint256

VARIABLES
  now,      \* block.timestamp
  agreed,   \* the turn number of the latest state that all participants signed
  statusOf,
  holdings,
  paid,     \* what an external destination was sent
  pending   \* the deposits that were not made yet

vars == <<now, agreed, statusOf, holdings, paid, pending>>

Mode(c) == mode(statusOf[c], now)
Finalized(c) == Mode(c) = "Finalized"
Supported(c, t) == t \in Turns(c) /\ latestSupportedState(t, agreed[c], nParticipants[c])

Init ==
  /\ now = 1
  /\ agreed = [c \in Channels |-> 0]
  /\ statusOf = [c \in Channels |-> Unwritten]
  /\ holdings = [c \in Channels |-> 0]
  /\ paid = [d \in Externals |-> 0]
  /\ pending = Deposits

-----------------------------------------------------------------------------
(* Off chain *)

\* All participants sign the next state, while the chain lets the channel go on.
Agree(c) ==
  /\ agreed[c] < Len(History[c])
  /\ ~Finalized(c)
  /\ agreed' = [agreed EXCEPT ![c] = @ + 1]
  /\ UNCHANGED <<now, statusOf, holdings, paid, pending>>

\* A challenge with an outdated state would finalize in the next block.
Overdue(c) ==
  Mode(c) = "Challenge" /\ statusOf[c].finalizesAt = now + 1
                        /\ statusOf[c].turnNumRecord < agreed[c]

\* Time passes.  Watchful participants have answered before it is too late.
Tick ==
  /\ now <= MaxTime
  /\ Watchful => \A c \in Channels : ~Overdue(c)
  /\ now' = now + 1
  /\ UNCHANGED <<agreed, statusOf, holdings, paid, pending>>

-----------------------------------------------------------------------------
(* ForceMove *)

Challenge(c, t) ==
  /\ Supported(c, t)
  /\ CanChallenge(statusOf[c], now, t)
  /\ now + challengeDuration[c] <= MaxTime
  /\ statusOf' = [statusOf EXCEPT ![c] =
                    challenge(now, t, History[c][t].outcome, challengeDuration[c])]
  /\ UNCHANGED <<now, agreed, holdings, paid, pending>>

Checkpoint(c, t) ==
  /\ Supported(c, t)
  /\ CanCheckpoint(statusOf[c], now, t)
  /\ statusOf' = [statusOf EXCEPT ![c] = clearChallenge(t)]
  /\ UNCHANGED <<now, agreed, holdings, paid, pending>>

Conclude(c, t) ==
  /\ Supported(c, t)
  /\ OnlyFinal => History[c][t].isFinal
  /\ CanConclude(statusOf[c], now)
  /\ statusOf' = [statusOf EXCEPT ![c] = conclude(now, History[c][t].outcome)]
  /\ UNCHANGED <<now, agreed, holdings, paid, pending>>

-----------------------------------------------------------------------------
(* MultiAssetHolder *)

\* SafeMath reverts when a sum overflows.
Deposit(tx) ==
  LET c == tx.channelId
      held == holdings[c]
  IN  /\ tx \in pending
      /\ tx.expectedHeld + tx.amount < Uint256
      /\ held >= tx.expectedHeld
      /\ held < tx.expectedHeld + tx.amount
      /\ holdings' = [holdings EXCEPT ![c] = tx.expectedHeld + tx.amount]
      /\ pending' = pending \ {tx}
      /\ UNCHANGED <<now, agreed, statusOf, paid>>

\* What an exit sends to destination d.
SentTo(allocations, exit, d) ==
  SumOf(exit, {i \in DOMAIN allocations : allocations[i].destination = d})

\* A mutation of Pays: the holdings are not reduced.
PaysKeepsHoldings(c, totalPayouts, allocations, exit) ==
  /\ holdings' = [b \in Channels |-> Plus(holdings[b], SentTo(allocations, exit, b))]
  /\ paid' = [d \in Externals |-> paid[d] + SentTo(allocations, exit, d)]

\* The holdings of channel c are reduced by totalPayouts, and _executeExit sends
\* funds to external destinations and adds them to the holdings of others.
Pays(c, totalPayouts, allocations, exit) ==
  /\ holdings' = [b \in Channels |->
       Plus(IF b = c THEN Minus(holdings[b], totalPayouts) ELSE holdings[b],
            SentTo(allocations, exit, b))]
  /\ paid' = [d \in Externals |-> paid[d] + SentTo(allocations, exit, d)]

\* transferAllAssets, of a channel whose status is (or was just made) status.  It is
\* deleted when all that it allocates is paid.
LiquidatesWith(c, status, r) ==
  /\ ~r.reverts
  /\ statusOf' = [statusOf EXCEPT ![c] =
       IF allocatesOnlyZeros(r.newAllocations) THEN Unwritten
       ELSE [status EXCEPT !.outcome = r.newAllocations]]
  /\ Pays(c, r.totalPayouts, status.outcome, r.exit)
  /\ UNCHANGED <<now, agreed, pending>>

Liquidates(c, status) ==
  LiquidatesWith(c, status,
    compute_transfer_effects_and_interactions(holdings[c], status.outcome, << >>))

TransferAllAssets(c) == Finalized(c) /\ Liquidates(c, statusOf[c])

ConcludeAndTransferAllAssets(c, t) ==
  /\ Supported(c, t)
  /\ OnlyFinal => History[c][t].isFinal
  /\ CanConclude(statusOf[c], now)
  /\ Liquidates(c, conclude(now, History[c][t].outcome))

TransfersWith(c, r) ==
  /\ ~r.reverts
  /\ statusOf' = [statusOf EXCEPT ![c].outcome = r.newAllocations]
  /\ Pays(c, r.totalPayouts, statusOf[c].outcome, r.exit)
  /\ UNCHANGED <<now, agreed, pending>>

Transfer(c, indices) ==
  LET allocations == statusOf[c].outcome
  IN  /\ Finalized(c)
      /\ OnlySimple => \A k \in DOMAIN indices : ~isGuarantee(allocations[indices[k]])
      /\ TransfersWith(c, compute_transfer_effects_and_interactions(holdings[c], allocations,
                                                                    indices))

\* A mutation of CanClaim: the entry must not be a guarantee.
CanClaimSimple(c, n) ==
  LET source == statusOf[c].outcome
  IN  /\ Finalized(c)
      /\ isGuarantee(source[1]) /\ ~isGuarantee(source[n])
      /\ Finalized(source[n].destination)

\* _apply_claim_checks, for entry n of the source.  There is one asset, so
\* targetAssetIndex is the first index: that is where the type is tested.  The data of
\* what is not a guarantee cannot be decoded.
CanClaim(c, n) ==
  LET source == statusOf[c].outcome
  IN  /\ Finalized(c)
      /\ isGuarantee(source[1]) /\ isGuarantee(source[n])
      /\ Finalized(source[n].destination)

\* Two calls of _updateFingerprint, the source's first.
ClaimsWith(c, n, target, r) ==
  /\ statusOf' = [statusOf EXCEPT ![c].outcome[n].amount = r.guaranteed,
                                  ![target].outcome = r.newAllocations]
  /\ Pays(c, r.totalPayouts, statusOf[target].outcome, r.exit)
  /\ UNCHANGED <<now, agreed, pending>>

Claim(c, n, indices) ==
  /\ CanClaim(c, n)
  /\ LET source == statusOf[c].outcome
         target == source[n].destination
     IN  ClaimsWith(c, n, target,
           compute_claim_effects_and_interactions(holdings[c], source,
                                                  statusOf[target].outcome, n, indices))

-----------------------------------------------------------------------------

\* The lists of indices a caller may pass: _requireIncreasingIndices.
IndexLists(allocations) ==
  {l \in UNION {[1..m -> DOMAIN allocations] : m \in 0..Len(allocations)} : IncreasingIndices(l)}

Payout ==
  \/ \E c \in Channels : TransferAllAssets(c)
  \/ \E c \in Channels : \E indices \in IndexLists(statusOf[c].outcome) : Transfer(c, indices)
  \/ \E c, target \in Channels : \E n \in DOMAIN statusOf[c].outcome :
       /\ statusOf[c].outcome[n].destination = target
       /\ \E indices \in IndexLists(statusOf[target].outcome) : Claim(c, n, indices)

Next ==
  \/ Tick
  \/ \E c \in Channels : Agree(c)
  \/ \E c \in Channels : \E t \in Turns(c) : Challenge(c, t)
  \/ \E c \in Channels : \E t \in Turns(c) : Checkpoint(c, t)
  \/ \E c \in Channels : \E t \in Turns(c) : Conclude(c, t)
  \/ \E c \in Channels : \E t \in Turns(c) : ConcludeAndTransferAllAssets(c, t)
  \/ \E tx \in Deposits : Deposit(tx)
  \/ Payout

-----------------------------------------------------------------------------
(* What is owed: the reference the algorithms are checked against *)

DirectShare(c, i) == Share(AmountsOf(statusOf[c].outcome), holdings[c], i)

\* What the destinations of a guarantee are allocated by its target, in the order of
\* the guarantee.
AmountsOfTarget(guarantee, target) ==
  [j \in DOMAIN guarantee.metadata |->
     SumOf(AmountsOf(target), {i \in DOMAIN target : target[i].destination = guarantee.metadata[j]})]

\* What entry n of c affords its j-th destination.
GuaranteedShare(c, n, j) ==
  LET guarantee == statusOf[c].outcome[n]
  IN  Share(AmountsOfTarget(guarantee, statusOf[guarantee.destination].outcome),
            DirectShare(c, n), j)

\* What finalized channels owe to destination d.
OwedBy(c, d) ==
  LET allocations == statusOf[c].outcome
  IN  MapThenSumSet(LAMBDA n :
        IF ~isGuarantee(allocations[n])
        THEN IF allocations[n].destination = d THEN DirectShare(c, n) ELSE 0
        ELSE IF ~Finalized(allocations[n].destination) THEN 0
        ELSE MapThenSumSet(LAMBDA j : GuaranteedShare(c, n, j),
               {j \in DOMAIN allocations[n].metadata : allocations[n].metadata[j] = d}),
        DOMAIN allocations)
Owed(d) == MapThenSumSet(LAMBDA c : OwedBy(c, d), {c \in Channels : Finalized(c)})

(***************************************************************************)
(* Blocks are made, watchful participants answer outdated challenges, and  *)
(* those a finalized channel owes something call transferAllAssets or      *)
(* claim until the channel is paid out further, by their call or another.  *)
(* Transferable and Claimable are when these calls succeed and change      *)
(* something.  (Weak fairness of the calls, written out since TLC would    *)
(* run the algorithms to evaluate ENABLED.)                                *)
(***************************************************************************)
Answers(c) == Overdue(c) /\ \E t \in Turns(c) : Checkpoint(c, t)

Transferable(c) ==
  /\ Finalized(c)
  /\ \A i \in DOMAIN statusOf[c].outcome : ~isGuarantee(statusOf[c].outcome[i])
  /\ \E i \in DOMAIN statusOf[c].outcome : DirectShare(c, i) > 0
Claimable(c) ==
  \E n \in DOMAIN statusOf[c].outcome :
    CanClaim(c, n) /\ \E j \in DOMAIN statusOf[c].outcome[n].metadata : GuaranteedShare(c, n, j) > 0

Fairness ==
  /\ WF_vars(Tick)
  /\ WF_vars(\E c \in Channels : Answers(c))
  /\ \A c \in Channels :
       \/ []<>~(Transferable(c) \/ Claimable(c))
       \/ []<><<Finalized(c) /\ statusOf'[c] # statusOf[c]>>_vars

Spec == Init /\ [][Next]_vars /\ Fairness

-----------------------------------------------------------------------------
(* Properties *)

WellFormed(status) ==
  status = [c \in Channels |->
    ChannelData(status[c].turnNumRecord, status[c].finalizesAt, status[c].stateHash,
                status[c].outcome)]

\* The status of every channel is well formed, fits its 48 bits, and no state is on
\* record that the participants did not all sign.
StatusOK ==
  /\ now \in 1..(MaxTime + 1)
  /\ agreed \in [Channels -> Nat] /\ \A c \in Channels : agreed[c] <= Len(History[c])
  /\ WellFormed(statusOf)
  /\ \A c \in Channels :
       /\ statusOf[c].turnNumRecord \in 0..agreed[c]
       /\ statusOf[c].stateHash \in {0, statusOf[c].turnNumRecord}
       /\ statusOf[c].finalizesAt \in 0..(MaxTime + 1)

\* Every variable has its type.
TypeOK ==
  /\ StatusOK
  /\ holdings \in [Channels -> 0..(Uint256 - 1)]
  /\ paid \in [Externals -> Nat]
  /\ pending \subseteq Deposits

\* If participants answer outdated challenges in time, a channel is finalized only
\* with the latest state they all signed: by a challenge that nobody could answer, or
\* by a final state, after which there is no other.  (mode, challenge, checkpoint and
\* conclude each see the status and the clock at the moment they run.)
LatestAgreedWins ==
  \A c \in Channels : Finalized(c) =>
    \/ statusOf[c].turnNumRecord = agreed[c]
    \/ statusOf[c].turnNumRecord = 0 /\ agreed[c] > 0 /\ History[c][agreed[c]].isFinal

\* Whoever calls transfer, transferAllAssets or claim, in whatever order and for
\* whichever entries, nobody gains or loses by it: what a destination was paid and is
\* still owed stays the same.
PayoutsCommute ==
  [][(\E c \in Channels : Finalized(c) /\ statusOf'[c] # statusOf[c]) =>
       \A d \in Externals : paid'[d] + Owed(d)' = paid[d] + Owed(d)]_vars

\* All that the contract holds and has paid.
Total == SumOf(holdings, Channels) + SumOf(paid, Externals)

\* Funds are neither made nor lost: only a deposit changes what the channels hold and
\* the external destinations were paid together, and no subtraction wraps around.
FundsConserved ==
  [][\/ Total' = Total
     \/ \E tx \in pending \ pending' : Total' - Total \in 1..tx.amount]_vars

\* A step leaves all but the outcome of a status alone.
KeepsState(c) ==
  /\ statusOf'[c].finalizesAt = statusOf[c].finalizesAt
  /\ statusOf'[c].turnNumRecord = statusOf[c].turnNumRecord
  /\ statusOf'[c].stateHash = statusOf[c].stateHash

\* What is finalized stays so, with the same state, until the status is deleted: no
\* call with another state replaces it.
StaysFinalized ==
  [][\A c \in Channels : Finalized(c) => KeepsState(c) \/ statusOf'[c] = Unwritten]_vars

\* ... and the status is deleted only when all of it is paid out; before, amounts are
\* only ever reduced.
SettledForGood ==
  [][\A c \in Channels : Finalized(c) =>
       \/ /\ KeepsState(c)
          /\ \A i \in DOMAIN statusOf[c].outcome :
               statusOf'[c].outcome[i].amount <= statusOf[c].outcome[i].amount
       \/ /\ statusOf'[c] = Unwritten
          /\ holdings'[c] + SumOf(AmountsOf(statusOf[c].outcome), DOMAIN statusOf[c].outcome)
               = holdings[c]]_vars

\* transfer pays the entries it is asked for what the holdings afford after all entries
\* of higher priority, paid now or not, and takes that off the outcome.
PaysFairShares ==
  \A c \in Channels : Finalized(c) =>
    LET allocations == statusOf[c].outcome
    IN  \A indices \in IndexLists(allocations) :
          LET r == compute_transfer_effects_and_interactions(holdings[c], allocations, indices)
          IN  /\ \A i \in DOMAIN allocations :
                   r.exit[i] = IF PaidIn(indices, i) THEN DirectShare(c, i) ELSE 0
              /\ r.totalPayouts = SumOf(r.exit, DOMAIN allocations)
              /\ r.newAllocations = [i \in DOMAIN allocations |->
                                       [allocations[i] EXCEPT !.amount = @ - r.exit[i]]]

\* The copy of the two algorithms in TypeScript computes what the contract computes
\* (but for the check that no guarantee is transferred, which it does not make).
EmulatesSolidity ==
  \A c \in Channels : Finalized(c) =>
    LET source == statusOf[c].outcome
    IN  /\ \A indices \in IndexLists(source) :
             LET r == compute_transfer_effects_and_interactions(holdings[c], source, indices)
             IN  computeTransferEffectsAndInteractions(holdings[c], source, indices)
                   = [r EXCEPT !.reverts = FALSE]
        /\ \A n \in DOMAIN source : isGuarantee(source[n]) =>
             LET target == statusOf[source[n].destination].outcome
             IN  \A indices \in IndexLists(target) :
                   computeClaimEffectsAndInteractions(holdings[c], source, target, n, indices)
                     = compute_claim_effects_and_interactions(holdings[c], source, target, n,
                                                              indices)

\* What the client's Allocations.Affords says of an entry is what the contract would
\* pay of it: all of it, or less.
AffordsIffCovered ==
  \A c \in Channels : Finalized(c) =>
    LET allocations == statusOf[c].outcome
    IN  \A i \in DOMAIN allocations : allocations[i].amount > 0 =>
          (Affords(allocations, allocations[i], holdings[c])
             <=> DirectShare(c, i) = allocations[i].amount)

\* A guarantee of a finalized channel for a finalized channel can be claimed, wherever it
\* is in the outcome: claim is documented to pay "the beneficiaries of the __target__ of
\* the channel at indexOfTargetInSource" (MultiAssetHolder.sol:245).
ClaimPays ==
  \A c \in Channels : Finalized(c) =>
    \A n \in DOMAIN statusOf[c].outcome :
      /\ isGuarantee(statusOf[c].outcome[n])
      /\ Finalized(statusOf[c].outcome[n].destination)
      => CanClaim(c, n)

\* A challenge ends: it is answered, or the channel is finalized.
ChallengesEnd == \A c \in Channels : Mode(c) = "Challenge" ~> Mode(c) # "Challenge"

\* What a destination is owed is paid in the end, even when some ask for single
\* entries and others for everything.
EventuallyPaid == \A d \in Externals : Owed(d) > 0 ~> Owed(d) = 0
=============================================================================
