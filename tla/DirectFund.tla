----------------------------- MODULE DirectFund -----------------------------
(***************************************************************************)
(* The objective that funds a ledger channel on chain, from                *)
(* protocols/directfund/directfund.go.                                     *)
(***************************************************************************)
EXTENDS MemStore

\* An exit allocates to the leader first; FromExit reads it back.
AsExit(balance) == <<balance[Leader], balance[Follower]>>
FromExit(exit) ==
  [balance |-> [p \in Parties |-> exit[IndexOf(p)]],
   guarantees |-> [t \in Targets |-> NoGuarantee]]

\* Direct channels with the same counterparty, funded or being funded.
channelsExistWithCounterparty(c, l) ==
  \E k \in LedgersBetween(LedgerParticipants[l][Leader], LedgerParticipants[l][Follower]) :
    k \in DOMAIN c.channels \/ k \in DOMAIN c.ledgers

\* ConstructFromState
ConstructDirectFund(me, c, l, exit, status) ==
  [SetChannel(c, l, New(State(PreFundTurnNum, exit, FALSE), IndexOf(MyParty(me, l)), 2))
     EXCEPT !.directfund[l] = [NoDirectFund EXCEPT !.status = status],
            !.onChainFunding[l] = 0]

UpdateDirectFundWithState(c, l, ss) == AddToChannel(c, l, ss)

\* Events that are not of a later block than the last one are ignored.
UpdateDirectFundWithChainEvent(c, l, e) ==
  IF e.type # "Deposited" THEN Panic(c)
  ELSE IF e.blockNum > c.directfund[l].latestBlockNumber
       THEN [c EXCEPT !.onChainFunding[l] = e.nowHeld,
                      !.directfund[l].latestBlockNumber = e.blockNum]
       ELSE c

-----------------------------------------------------------------------------
(* Crank *)

Exit(c, l) == PreFundState(c.channels[l]).outcome
fullyFundedThreshold(c, l) == Exit(c, l)[1] + Exit(c, l)[2]

\* What is allocated to those who come before me, and my deposit on top of that.
myDepositSafetyThreshold(c, l) == IF c.channels[l].myIndex = 1 THEN 0 ELSE Exit(c, l)[1]
myDepositTarget(c, l) == myDepositSafetyThreshold(c, l) + Exit(c, l)[c.channels[l].myIndex]

\* A mutation of directFundingComplete: any deposit is enough.
directFundingStarted(c, l) == c.onChainFunding[l] > 0

directFundingComplete(c, l) == c.onChainFunding[l] >= fullyFundedThreshold(c, l)

\* Mutations of safeToDeposit: nobody waits; the holdings must exceed the threshold.
alwaysSafe(c, l) == TRUE
safeAboveThreshold(c, l) == c.onChainFunding[l] > myDepositSafetyThreshold(c, l)

safeToDeposit(c, l) == c.onChainFunding[l] >= myDepositSafetyThreshold(c, l)
amountToDeposit(c, l) == myDepositTarget(c, l) - c.onChainFunding[l]

signDirectPrefund(me, c, l) ==
  IF PreFundSignedByMe(c.channels[l]) THEN c
  ELSE SignAndSend(me, c, "DirectFunding", l, PreFundState(c.channels[l]))

\* A transaction is submitted once.
depositOnce(me, c, l) ==
  IF amountToDeposit(c, l) # 0 /\ ~c.directfund[l].transactionSubmitted
  THEN DeclareTransaction([c EXCEPT !.directfund[l].transactionSubmitted = TRUE],
                          DepositTransaction(l, MyParty(me, l), amountToDeposit(c, l)))
  ELSE c

signDirectPostfund(me, c, l) ==
  IF PostFundSignedByMe(c.channels[l]) THEN c
  ELSE SignAndSend(me, c, "DirectFunding", l, PostFundState(c.channels[l]))

completeDirectFund(c, l) ==
  IF PostFundComplete(c.channels[l])
  THEN [c EXCEPT !.directfund[l].status = Completed] ELSE c

\* The postfund state is signed when all funds are on chain, not before.
directFundingRound(me, c, l) ==
  CASE ~PreFundComplete(c.channels[l]) -> c
    [] PreFundComplete(c.channels[l]) /\ directFundingComplete(c, l) ->
         completeDirectFund(signDirectPostfund(me, c, l), l)
    [] PreFundComplete(c.channels[l]) /\ ~directFundingComplete(c, l) ->
         IF safeToDeposit(c, l) THEN depositOnce(me, c, l) ELSE c

CrankDirectFund(me, c, l) ==
  IF c.directfund[l].status = Approved THEN directFundingRound(me, signDirectPrefund(me, c, l), l)
                                       ELSE Panic(c)

-----------------------------------------------------------------------------
\* spawnConsensusChannelIfDirectFundObjective: a running ledger channel on the postfund
\* state takes the place of the channel.
spawnConsensusChannel(me, c, l) ==
  LET postfund == PostFundState(c.channels[l])
      ledger == newConsensusChannel(l, MyParty(me, l), [turnNum |-> postfund.turnNum,
                                                        outcome |-> FromExit(postfund.outcome)])
  IN  DestroyChannel(SetConsensusChannel(c, ledger), l)
=============================================================================
