---------------------------- MODULE Adjudicator -----------------------------
(***************************************************************************)
(* What the chain keeps for ledger channels, and the transactions that     *)
(* change it: nitro-protocol/contracts (MultiAssetHolder.deposit and       *)
(* NitroAdjudicator.concludeAndTransferAllAssets), reached through         *)
(* client/engine/chainservice.                                             *)
(*                                                                         *)
(* A transaction that was submitted is pending until it is mined, in any   *)
(* order, alone or with others in one block (the simulated backend makes a *)
(* block of each).  The events are broadcast to every client's event       *)
(* channel, which drops what it has no room for.                           *)
(***************************************************************************)
EXTENDS Ledger, StateChannel, Sequences

\* The capacity of the channel SubscribeToEvents makes.
EventBufferSize == 10

\* balance[l] is on chain for the channels l of open.  deposited and paidOut record
\* what each participant put in and got out.  Clients compare the block numbers of
\* events for one channel only, so blockNum[l] counts the blocks with transactions for l.
NewChain(open, balance) ==
  [holdings |-> [l \in LedgerIDs |-> IF l \in open THEN balance[l][Leader] + balance[l][Follower]
                                                   ELSE 0],
   deposited |-> [l \in LedgerIDs |-> [p \in Parties |-> IF l \in open THEN balance[l][p] ELSE 0]],
   paidOut |-> [l \in LedgerIDs |-> << >>],
   finalized |-> {},
   blockNum |-> [l \in LedgerIDs |-> 0],
   pending |-> {}]

\* SendTransaction: a deposit tells the holdings the chain had when it was submitted.
Expecting(tx, held) ==
  [type |-> "Deposit", l |-> tx.l, from |-> tx.from, amount |-> tx.amount, expectedHeld |-> held]
SendTransaction(chain, tx) ==
  [chain EXCEPT !.pending =
     @ \cup {IF tx.type = "Deposit" THEN Expecting(tx, chain.holdings[tx.l]) ELSE tx}]

-----------------------------------------------------------------------------
(* The contracts *)

\* The requirements of deposit: the holdings are what the depositor expects, or more
\* but less than it wants them to be.
CanDeposit(chain, tx) ==
  /\ chain.holdings[tx.l] >= tx.expectedHeld
  /\ chain.holdings[tx.l] < tx.expectedHeld + tx.amount

\* The depositor gets back what is not needed to reach the holdings it wants.
deposit(chain, tx) ==
  LET nowHeld == tx.expectedHeld + tx.amount
  IN  [chain EXCEPT !.holdings[tx.l] = nowHeld,
                    !.deposited[tx.l][tx.from] = @ + nowHeld - chain.holdings[tx.l]]

Lesser(a, b) == IF a < b THEN a ELSE b

\* compute_transfer_effects_and_interactions for all destinations: each gets what the
\* holdings still afford when it is its turn.
exitAllocations(allocations, holdings) ==
  LET first == Lesser(allocations[1], holdings)
  IN  <<first, Lesser(allocations[2], holdings - first)>>

\* _conclude takes a state that all participants signed, once.
CanConclude(chain, tx) == tx.l \notin chain.finalized /\ Cardinality(tx.ss.sigs) = 2

\* The channel's status is deleted when everything was paid out.
concludeAndTransferAllAssets(chain, tx) ==
  LET payouts == exitAllocations(tx.ss.state.outcome, chain.holdings[tx.l])
  IN  [chain EXCEPT !.holdings[tx.l] = @ - (payouts[1] + payouts[2]),
                    !.paidOut[tx.l] = Append(@, payouts),
                    !.finalized = IF payouts = tx.ss.state.outcome THEN @ ELSE @ \cup {tx.l}]

Succeeds(chain, tx) ==
  IF tx.type = "Deposit" THEN CanDeposit(chain, tx) ELSE CanConclude(chain, tx)

\* tx takes effect; one that reverts changes nothing.
Applied(chain, tx) ==
  CASE ~Succeeds(chain, tx) -> chain
    [] Succeeds(chain, tx) /\ tx.type = "Deposit" -> deposit(chain, tx)
    [] OTHER -> concludeAndTransferAllAssets(chain, tx)

\* The orders in which a block may have some of the pending transactions.
Blocks(chain) ==
  {block \in UNION {[1..n -> chain.pending] : n \in 1..Cardinality(chain.pending)} :
     \A i, j \in DOMAIN block : block[i] = block[j] => i = j}

\* The chain after the first i transactions of a block.
Within(chain, block, i) ==
  LET start == [chain EXCEPT !.pending = @ \ {block[n] : n \in DOMAIN block},
                             !.blockNum = [l \in LedgerIDs |->
                               IF \E n \in DOMAIN block : block[n].l = l THEN @[l] + 1 ELSE @[l]]]
      after[n \in 0..i] == IF n = 0 THEN start ELSE Applied(after[n - 1], block[n])
  IN  after[i]
Mined(chain, block) == Within(chain, block, Len(block))

-----------------------------------------------------------------------------
(* The events, as listenForLogEvents relays them *)

DepositedEvent(chain, l) ==
  [type |-> "Deposited", l |-> l, nowHeld |-> chain.holdings[l], blockNum |-> chain.blockNum[l]]
ConcludedEvent(l) == [type |-> "Concluded", l |-> l]

\* The amount is what the channel holds in the event's block.
AllocationUpdatedEvent(chain, l) ==
  [type |-> "AllocationUpdated", l |-> l, assetAmount |-> chain.holdings[l]]

EventsOf(before, after, atEnd, tx) ==
  CASE ~Succeeds(before, tx) -> << >>
    [] Succeeds(before, tx) /\ tx.type = "Deposit" -> <<DepositedEvent(after, tx.l)>>
    [] OTHER ->
         <<ConcludedEvent(tx.l), AllocationUpdatedEvent(atEnd, tx.l)>>

Events(chain, block) ==
  LET after[i \in 0..Len(block)] ==
        IF i = 0 THEN << >>
        ELSE after[i - 1] \o EventsOf(Within(chain, block, i - 1), Within(chain, block, i),
                                      Mined(chain, block), block[i])
  IN  after[Len(block)]

\* broadcast and attemptSend
attemptSend(buffer, events) ==
  SubSeq(buffer \o events, 1, Lesser(Len(buffer) + Len(events), EventBufferSize))
=============================================================================
