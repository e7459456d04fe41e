---------------------------- MODULE VirtualDefund ---------------------------
(***************************************************************************)
(* The objective that settles a virtual channel and removes its guarantees *)
(* from the ledger channels, from protocols/virtualdefund/virtualdefund.go.*)
(***************************************************************************)
EXTENDS MemStore

FinalTurnNum == 2

\* What Alice and Bob get, given what was paid.
finalOutcome(c, v) ==
  LET initial == PostFundState(c.channels[v]).outcome
      paid == c.defund[v].paidToBob
  IN  <<initial[1] - paid, initial[2] + paid>>

finalVirtualState(c, v) == State(FinalTurnNum, finalOutcome(c, v), TRUE)

\* NewObjective finds the virtual channel and the ledger channels.
CanConstructVirtualDefund(me, c, v) == v \in DOMAIN c.channels /\ HasLedgers(me, c, v)

ConstructVirtualDefund(c, v, paidToBob, status) ==
  [c EXCEPT !.defund[v] = [status |-> status, paidToBob |-> paidToBob, signatures |-> {}]]

\* ConstructObjectiveFromState takes the payment from the proposed final state.
calculatePaidToBob(c, v, state) == state.outcome[2] - PreFundState(c.channels[v]).outcome[2]

\* A mutation of UpdateVirtualDefundWithState: signatures on any state are taken.
UpdateVirtualDefundWithAnyState(c, v, ss) == [c EXCEPT !.defund[v].signatures = @ \cup ss.sigs]

\* A signature that is not on my final state is neither equal to the one I have
\* from that participant nor valid.
UpdateVirtualDefundWithState(c, v, ss) ==
  IF ss.state = finalVirtualState(c, v)
  THEN [c EXCEPT !.defund[v].signatures = @ \cup ss.sigs]
  ELSE Panic(c)

\* ErrInvalidTurnNum is ignored; any other error of Receive is returned.
ReceiveFails(ledger, sp) ==
  IF ledger.myIndex = Follower THEN followerReceiveFails(ledger, sp)
                               ELSE leaderReceiveFails(ledger, sp)

UpdateVirtualDefundWithProposal(me, c, v, sp) ==
  LET l == sp.proposal.ledgerID
  IN  IF /\ \E hop \in MyHops(me, v) : LedgerOf(v, hop) = l
         /\ ~ReceiveFails(c.ledgers[l], sp)
      THEN [c EXCEPT !.ledgers[l] = Receive(@, sp)]
      ELSE Panic(c)

-----------------------------------------------------------------------------
(* Crank *)

\* Mutations of signedByMe and fullySigned: anybody's signature is enough.
signedByAnyone(me, c, v) == c.defund[v].signatures # {}
someSignature(c, v) == c.defund[v].signatures # {}

signedByMe(me, c, v) == MyRole(me, v) \in c.defund[v].signatures
fullySigned(c, v) == c.defund[v].signatures = Roles

\* The final state is sent with every signature there is on it.
signVirtualFinal(me, c, v) ==
  LET signed == [c EXCEPT !.defund[v].signatures = @ \cup {MyRole(me, v)}]
      ss == SignedState(finalVirtualState(c, v), signed.defund[v].signatures)
  IN  IF signedByMe(me, c, v) THEN c
      ELSE DeclareMessages(signed, CreateSignedStateMessages(me, "VirtualDefund", v, ss))

\* A mutation of ledgerProposal: the payment is forgotten.
ledgerProposalUnpaid(c, v, hop) ==
  [type |-> "Remove", ledgerID |-> LedgerOf(v, hop), target |-> v,
   leftAmount |-> PostFundState(c.channels[v]).outcome[1]]

ledgerProposal(c, v, hop) ==
  [type |-> "Remove", ledgerID |-> LedgerOf(v, hop), target |-> v,
   leftAmount |-> finalOutcome(c, v)[1]]

updateLedgerToRemoveGuarantee(c, v, hop) ==
  LET ledger == c.ledgers[LedgerOf(v, hop)]
  IN  IF ledger.myIndex = Leader
      THEN IF HasRemovalBeenProposed(ledger, v) THEN c
           ELSE ProposeAndSend(c, ledgerProposal(c, v, hop))
      ELSE IF HasRemovalBeenProposedNext(ledger, v)
           THEN SignAndSendNext(c, ledgerProposal(c, v, hop)) ELSE c

\* isLeftDefunded and isRightDefunded
isDefunded(c, v, hop) == ~IncludesTarget(c.ledgers[LedgerOf(v, hop)].current.vars.outcome, v)

defundHop(me, c, v, hop) ==
  IF c.stopped \/ hop \notin MyHops(me, v) \/ isDefunded(c, v, hop) THEN c
  ELSE updateLedgerToRemoveGuarantee(c, v, hop)

completeIfDefunded(me, c, v) ==
  IF ~c.stopped /\ \A hop \in MyHops(me, v) : isDefunded(c, v, hop)
  THEN [c EXCEPT !.defund[v].status = Completed]
  ELSE c

\* Nothing is removed before all have signed the final state.
defundingRound(me, c, v) ==
  IF fullySigned(c, v)
  THEN completeIfDefunded(me, defundHop(me, defundHop(me, c, v, 1), v, 2), v)
  ELSE c

CrankVirtualDefund(me, c, v) ==
  IF c.defund[v].status = Approved THEN defundingRound(me, signVirtualFinal(me, c, v), v)
                                   ELSE Panic(c)
=============================================================================
