---------------------------- MODULE VirtualFund -----------------------------
(***************************************************************************)
(* The objective that funds a virtual channel, from                        *)
(* protocols/virtualfund/virtualfund.go.  Its operators take the client's  *)
(* store to the store they leave behind, with the declared side effects.   *)
(***************************************************************************)
EXTENDS MemStore

a0(v) == InitialOutcome[v][1]
b0(v) == InitialOutcome[v][2]

getExpectedGuarantee(v, hop) == [amount |-> a0(v) + b0(v), left |-> LeftOf(v, hop)]

expectedProposal(v, hop) ==
  [type |-> "Add", ledgerID |-> LedgerOf(v, hop), target |-> v,
   guarantee |-> getExpectedGuarantee(v, hop), leftDeposit |-> a0(v)]

Funded(c, v, hop) == Includes(c.ledgers[LedgerOf(v, hop)], v, getExpectedGuarantee(v, hop))

\* A mutation of virtualFundingComplete: one funded hop is enough.
virtualFundingStarted(me, c, v) == \E hop \in MyHops(me, v) : Funded(c, v, hop)

virtualFundingComplete(me, c, v) == \A hop \in MyHops(me, v) : Funded(c, v, hop)

\* constructFromState
ConstructVirtualFund(me, c, v, status) ==
  [SetChannel(c, v, New(State(PreFundTurnNum, InitialOutcome[v], FALSE), MyRole(me, v), 3))
     EXCEPT !.fund[v] = status]

UpdateVirtualFundWithState(c, v, ss) == AddToChannel(c, v, ss)

\* Connection.handleProposal: what Receive returns is not looked at.
UpdateVirtualFundWithProposal(me, c, v, sp) ==
  IF \E hop \in MyHops(me, v) : LedgerOf(v, hop) = sp.proposal.ledgerID
  THEN [c EXCEPT !.ledgers[sp.proposal.ledgerID] = Receive(@, sp)]
  ELSE Panic(c)

-----------------------------------------------------------------------------
(* Crank *)

signVirtualPrefund(me, c, v) ==
  IF PreFundSignedByMe(c.channels[v]) THEN c
  ELSE SignAndSend(me, c, "VirtualFund", v, PreFundState(c.channels[v]))

\* A mutation of signVirtualPostfund: anybody's signature is taken for mine.
signVirtualPostfundUnlessSigned(me, c, v) ==
  IF c.channels[v].signedStateForTurnNum[PostFundTurnNum].sigs # {} THEN c
  ELSE SignAndSend(me, c, "VirtualFund", v, PostFundState(c.channels[v]))

signVirtualPostfund(me, c, v) ==
  IF PostFundSignedByMe(c.channels[v]) THEN c
  ELSE SignAndSend(me, c, "VirtualFund", v, PostFundState(c.channels[v]))

proposeLedgerUpdate(c, v, hop) == ProposeAndSend(c, expectedProposal(v, hop))

acceptLedgerUpdate(c, v, hop) == SignAndSendNext(c, expectedProposal(v, hop))

updateLedgerWithGuarantee(c, v, hop) ==
  LET ledger == c.ledgers[LedgerOf(v, hop)]
      g == getExpectedGuarantee(v, hop)
  IN  CASE ~QueueApplies(ledger) -> Panic(c)
        [] QueueApplies(ledger) /\ ledger.myIndex = Leader ->
             IF IsProposed(ledger, v, g) THEN c ELSE proposeLedgerUpdate(c, v, hop)
        [] OTHER ->
             IF IsProposedNextFails(ledger) THEN Panic(c)
             ELSE IF IsProposedNext(ledger, v, g) THEN acceptLedgerUpdate(c, v, hop) ELSE c

\* Funding through one hop, if it is one of mine and not done yet.
fundHop(me, c, v, hop) ==
  IF c.stopped \/ hop \notin MyHops(me, v) \/ Funded(c, v, hop) THEN c
  ELSE updateLedgerWithGuarantee(c, v, hop)

\* Crank has three rounds, each of which waits for the one before: prefund signatures,
\* guarantees, postfund signatures.
completeVirtualFund(c, v) ==
  IF PostFundComplete(c.channels[v]) THEN [c EXCEPT !.fund[v] = Completed] ELSE c

virtualPostfundRound(me, c, v) ==
  IF c.stopped \/ ~virtualFundingComplete(me, c, v) THEN c
  ELSE completeVirtualFund(signVirtualPostfund(me, c, v), v)

virtualFundingRound(me, c, v) ==
  IF PreFundComplete(c.channels[v])
  THEN virtualPostfundRound(me, fundHop(me, fundHop(me, c, v, 1), v, 2), v)
  ELSE c

CrankVirtualFund(me, c, v) ==
  IF c.fund[v] = Approved THEN virtualFundingRound(me, signVirtualPrefund(me, c, v), v)
                          ELSE Panic(c)
=============================================================================
