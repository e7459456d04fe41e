---------------------------- MODULE DirectDefund ----------------------------
(***************************************************************************)
(* The objective that closes a ledger channel and withdraws its funds from *)
(* the chain, from protocols/directdefund/directdefund.go.                 *)
(***************************************************************************)
EXTENDS MemStore

\* ErrNotEmpty: the consensus state has guarantees.
notEmpty(c, l) ==
  \E t \in Targets : IncludesTarget(c.ledgers[l].current.vars.outcome, t)

\* CreateChannelFromConsensusChannel: a channel whose supported state is the consensus
\* state.  What is proposed in the ledger channel is not looked at.
CreateChannelFromConsensusChannel(c, l) ==
  LET ledger == c.ledgers[l]
      balance == ledger.current.vars.outcome.balance
      state == State(ledger.current.vars.turnNum, <<balance[Leader], balance[Follower]>>, FALSE)
  IN  AddSignedState(New(state, IndexOf(ledger.myIndex), 2), SignedState(state, {1, 2}))

isInConsensusOrFinalState(channel) ==
  \/ LatestSignedState(channel).state.isFinal
  \/ LatestSignedState(channel).state = LatestSupportedState(channel)

\* NewObjective returns no error.
CanConstructDirectDefund(c, l) ==
  /\ l \in DOMAIN c.ledgers
  /\ ~notEmpty(c, l)
  /\ isInConsensusOrFinalState(CreateChannelFromConsensusChannel(c, l))

ConstructDirectDefund(c, l, status) ==
  LET channel == CreateChannelFromConsensusChannel(c, l)
      latest == LatestSupportedState(channel)
  IN  [SetChannel(c, l, channel) EXCEPT
         !.directdefund[l] = [status |-> status, transactionSubmitted |-> FALSE,
                              finalTurnNum |-> latest.turnNum + (IF latest.isFinal THEN 0 ELSE 1)]]

UpdateDirectDefundWithState(c, l, ss) ==
  IF ss.state.isFinal /\ ss.state.turnNum = c.directdefund[l].finalTurnNum
  THEN AddToChannel(c, l, ss)
  ELSE Panic(c)

\* Mutations of UpdateDirectDefundWithChainEvent: one of the two events is not
\* expected; the other is not applied.
UpdateDirectDefundWithoutConcluded(c, l, e) ==
  IF e.type = "AllocationUpdated" THEN [c EXCEPT !.onChainFunding[l] = e.assetAmount]
                                  ELSE Panic(c)
UpdateDirectDefundWithoutAllocation(c, l, e) ==
  IF e.type \in {"AllocationUpdated", "Concluded"} THEN c ELSE Panic(c)

UpdateDirectDefundWithChainEvent(c, l, e) ==
  CASE e.type = "AllocationUpdated" -> [c EXCEPT !.onChainFunding[l] = e.assetAmount]
    [] e.type = "Concluded" -> c
    [] OTHER -> Panic(c)

-----------------------------------------------------------------------------
(* Crank *)

\* The state to sign: the latest one, made final if it is not.
finalDirectState(channel) ==
  LET latest == LatestSignedState(channel).state
  IN  IF latest.isFinal THEN latest ELSE State(latest.turnNum + 1, latest.outcome, TRUE)

signDirectFinal(me, c, l) ==
  LET latest == LatestSignedState(c.channels[l])
  IN  IF latest.state.isFinal /\ c.channels[l].myIndex \in latest.sigs THEN c
      ELSE SignAndSend(me, c, "DirectDefunding", l, finalDirectState(c.channels[l]))

isFinalized(channel) == LatestSupportedState(channel).isFinal

fullyWithdrawn(c, l) == c.onChainFunding[l] = 0

\* A mutation of withdrawOnce: the transaction is submitted whenever it is looked at.
withdrawAgain(c, l) ==
  IF c.channels[l].myIndex = 1
  THEN DeclareTransaction(c, WithdrawAllTransaction(l, LatestSignedState(c.channels[l])))
  ELSE c

\* The first participant submits the transaction, once.  The latest signed state is
\* read before it is signed, and shares its signatures with the one that is stored:
\* the transaction carries mine as well.
withdrawOnce(c, l) ==
  IF c.channels[l].myIndex = 1 /\ ~c.directdefund[l].transactionSubmitted
  THEN DeclareTransaction([c EXCEPT !.directdefund[l].transactionSubmitted = TRUE],
                          WithdrawAllTransaction(l, LatestSignedState(c.channels[l])))
  ELSE c

withdrawalRound(c, l) ==
  CASE ~isFinalized(c.channels[l]) -> c
    [] isFinalized(c.channels[l]) /\ fullyWithdrawn(c, l) ->
         [c EXCEPT !.directdefund[l].status = Completed]
    [] isFinalized(c.channels[l]) /\ ~fullyWithdrawn(c, l) -> withdrawOnce(c, l)

CrankDirectDefund(me, c, l) ==
  IF c.directdefund[l].status = Approved THEN withdrawalRound(signDirectFinal(me, c, l), l)
                                         ELSE Panic(c)
=============================================================================
