------------------------------ MODULE MemStore ------------------------------
(***************************************************************************)
(* What one client keeps: the objectives, channels and ledger channels of  *)
(* client/engine/store/memstore.go, and what its objectives have to work   *)
(* with (protocols/messages.go).                                           *)
(*                                                                         *)
(* A client is a record, whose channels and ledgers are functions on the   *)
(* channels the store has.  A channel is a virtual channel (of Targets) or *)
(* a ledger channel (of LedgerIDs) that is being funded or defunded; a     *)
(* ledger channel that runs is among the ledgers.  An objective is found   *)
(* by its kind and its channel, as in the ids "VirtualFund-<channel>" and  *)
(* "DirectDefunding-<channel>".                                            *)
(***************************************************************************)
EXTENDS ConsensusChannel, StateChannel

CONSTANTS Clients,
          Participants,         \* Participants[v]: Alice, Irene and Bob of virtual channel v
          InitialOutcome,       \* InitialOutcome[v]: what v allocates to Alice and to Bob
          LedgerParticipants,   \* LedgerParticipants[l]: leader and follower of ledger channel l
          LedgerBalance         \* LedgerBalance[l]: what they put into it

Alice == 1
Irene == 2
Bob == 3
Roles == {Alice, Irene, Bob}

ASSUME ParticipantsAssumption ==
  \A v \in Targets : /\ Participants[v] \in [Roles -> Clients]
                     /\ \A r, s \in Roles : Participants[v][r] = Participants[v][s] => r = s
                     /\ InitialOutcome[v] \in Nat \X Nat

ASSUME LedgerAssumption ==
  /\ LedgerIDs \cap Targets = {}
  /\ \A l \in LedgerIDs : /\ \A p \in Parties : LedgerParticipants[l][p] \in Clients
                          /\ LedgerParticipants[l][Leader] # LedgerParticipants[l][Follower]
                          /\ LedgerBalance[l] \in [Parties -> Nat]

MyRole(me, v) == CHOOSE r \in Roles : Participants[v][r] = me

\* In a ledger channel, participant 1 is the leader and participant 2 the follower.
MyParty(me, l) == CHOOSE p \in Parties : LedgerParticipants[l][p] = me
IndexOf(party) == IF party = Leader THEN 1 ELSE 2

\* The ledger channel of two clients, which GetConsensusChannel finds if it is running.
LedgersBetween(p, q) ==
  {l \in LedgerIDs : {LedgerParticipants[l][Leader], LedgerParticipants[l][Follower]} = {p, q}}
LedgerBetween(p, q) == CHOOSE l \in LedgersBetween(p, q) : TRUE

\* No two clients have two of them (see channelsExistWithCounterparty).
ASSUME OneLedgerAssumption == \A p, q \in Clients : \A l, k \in LedgersBetween(p, q) : l = k

(***************************************************************************)
(* A virtual channel has two hops: hop 1 is from Alice to Irene and hop 2  *)
(* from Irene to Bob.  The client in role r has hop r - 1 to its left and  *)
(* hop r to its right.                                                     *)
(***************************************************************************)
Hops == {1, 2}
MyHops(me, v) == Hops \cap {MyRole(me, v) - 1, MyRole(me, v)}
LedgerOf(v, hop) == LedgerBetween(Participants[v][hop], Participants[v][hop + 1])
LeftOf(v, hop) ==
  CHOOSE p \in Parties : LedgerParticipants[LedgerOf(v, hop)][p] = Participants[v][hop]

\* Virtual objectives need the ledger channels to their left and right.
HasLedgers(me, c, v) ==
  \A hop \in MyHops(me, v) :
    LedgersBetween(Participants[v][hop], Participants[v][hop + 1]) \cap DOMAIN c.ledgers # {}

(***************************************************************************)
(* Messages and side effects                                               *)
(***************************************************************************)
StateMessage(objective, channel, ss) ==
  [type |-> "SignedState", objective |-> objective, channel |-> channel, payload |-> ss]

\* The payloads of a message of proposals all come from one ledger's queue, which
\* is in the order of turn numbers: SignedProposals has nothing to sort.
ProposalMessage(proposals) == [type |-> "SignedProposals", payload |-> proposals]

To(recipient, message) == [to |-> recipient, message |-> message]

DepositTransaction(l, from, amount) ==
  [type |-> "Deposit", l |-> l, from |-> from, amount |-> amount]
WithdrawAllTransaction(l, ss) == [type |-> "WithdrawAll", l |-> l, ss |-> ss]

\* getProposalObjectiveId
ProposalObjective(p) == IF p.type = "Add" THEN "VirtualFund" ELSE "VirtualDefund"

NoEffects == [messagesToSend |-> << >>, transactionsToSubmit |-> << >>,
              proposalsToProcess |-> << >>]

\* SideEffects.Merge: the messages and the transactions are merged, and that is all.
Merge(effects, other) ==
  [effects EXCEPT !.messagesToSend = @ \o other.messagesToSend,
                  !.transactionsToSubmit = @ \o other.transactionsToSubmit]

DeclareMessages(c, messages) == [c EXCEPT !.sideEffects.messagesToSend = @ \o messages]
DeclareTransaction(c, tx) == [c EXCEPT !.sideEffects.transactionsToSubmit = Append(@, tx)]

IsDirect(objective) == objective \in {"DirectFunding", "DirectDefunding"}

ParticipantsOf(objective, channel) ==
  IF IsDirect(objective)
  THEN <<LedgerParticipants[channel][Leader], LedgerParticipants[channel][Follower]>>
  ELSE Participants[channel]

\* CreateSignedStateMessages: to every participant but the sender, in their order.
CreateSignedStateMessages(me, objective, channel, ss) ==
  LET all == ParticipantsOf(objective, channel)
      myIndex == CHOOSE i \in DOMAIN all : all[i] = me
  IN  [i \in 1..(Len(all) - 1) |->
         To(all[IF i < myIndex THEN i ELSE i + 1], StateMessage(objective, channel, ss))]

(***************************************************************************)
(* The client                                                              *)
(***************************************************************************)
NoObjective == "no objective"
Unapproved == "Unapproved"
Approved == "Approved"
Rejected == "Rejected"
Completed == "Completed"

\* A virtualfund objective is its status and what the store has on its channels; a
\* virtualdefund objective also holds the payment and who signed the final state.
NoDefund == [status |-> NoObjective, paidToBob |-> 0, signatures |-> {}]
NoDirectFund == [status |-> NoObjective, latestBlockNumber |-> 0, transactionSubmitted |-> FALSE]
NoDirectDefund == [status |-> NoObjective, finalTurnNum |-> 0, transactionSubmitted |-> FALSE]

NoOwner == "no owner"

\* A client that has some ledger channels, and no objective yet.  What a Channel or
\* a ConsensusChannel holds as its OnChainFunding is handed from one to the other,
\* and is onChainFunding here.  Within a step, sideEffects are what Crank declared,
\* outbox is what was sent and submitted what was submitted.
NewClient(me, ledgers) ==
  [fund |-> [v \in Targets |-> NoObjective],
   defund |-> [v \in Targets |-> NoDefund],
   directfund |-> [l \in LedgerIDs |-> NoDirectFund],
   directdefund |-> [l \in LedgerIDs |-> NoDirectDefund],
   channels |-> << >>,
   ledgers |-> ledgers,
   onChainFunding |-> [l \in LedgerIDs |-> IF l \in DOMAIN ledgers
                                           THEN Total(ledgers[l].current.vars.outcome) ELSE 0],
   channelToObjective |-> [ch \in Targets \cup LedgerIDs |-> NoOwner],
   sideEffects |-> NoEffects,
   outbox |-> << >>,
   submitted |-> << >>,
   stopped |-> FALSE]

GetStatus(c, objective, ch) ==
  CASE objective = "VirtualFund" -> c.fund[ch]
    [] objective = "VirtualDefund" -> c.defund[ch].status
    [] objective = "DirectFunding" -> c.directfund[ch].status
    [] objective = "DirectDefunding" -> c.directdefund[ch].status

SetStatus(c, objective, ch, status) ==
  CASE objective = "VirtualFund" -> [c EXCEPT !.fund[ch] = status]
    [] objective = "VirtualDefund" -> [c EXCEPT !.defund[ch].status = status]
    [] objective = "DirectFunding" -> [c EXCEPT !.directfund[ch].status = status]
    [] objective = "DirectDefunding" -> [c EXCEPT !.directdefund[ch].status = status]

\* populateChannelData finds the channels of an objective that is in the store.
Populates(me, c, objective, ch) ==
  /\ objective # "VirtualDefund" => ch \in DOMAIN c.channels
  /\ ~IsDirect(objective) => HasLedgers(me, c, ch)

SetChannel(c, ch, channel) == [c EXCEPT !.channels = Put(@, ch, channel)]
DestroyChannel(c, ch) ==
  [c EXCEPT !.channels = [d \in DOMAIN @ \ {ch} |-> @[d]]]

SetConsensusChannel(c, ledger) == [c EXCEPT !.ledgers = Put(@, ledger.id, ledger)]
DestroyConsensusChannel(c, l) ==
  [c EXCEPT !.ledgers = [d \in DOMAIN @ \ {l} |-> @[d]]]

\* An error reaches the run loop, which panics: the client stops for good, and the
\* side effects that were declared are not executed.
Panic(c) == [c EXCEPT !.stopped = TRUE, !.sideEffects = NoEffects]

\* The end of SetObjective: an approved objective takes its channel, which no
\* other objective may own.
TakeOwnership(c, objective, ch) ==
  IF c.channelToObjective[ch] \in {NoOwner, objective}
  THEN [c EXCEPT !.channelToObjective[ch] = objective]
  ELSE Panic(c)

ReleaseChannelFromOwnership(c, ch) == [c EXCEPT !.channelToObjective[ch] = NoOwner]

AddToChannel(c, ch, ss) == [c EXCEPT !.channels[ch] = AddSignedState(@, ss)]

\* SignAndAddState, and the messages to the other participants.
SignAndSend(me, c, objective, ch, state) ==
  LET ss == SignedByMe(c.channels[ch], state)
  IN  IF CanAddSignedState(c.channels[ch], ss)
      THEN DeclareMessages(AddToChannel(c, ch, ss),
                           CreateSignedStateMessages(me, objective, ch, ss))
      ELSE Panic(c)

\* A mutation of ProposeAndSend: the ledger channel is not stored.
ProposeWithoutStoring(c, p) ==
  LET l == p.ledgerID
      ledger == Propose(c.ledgers[l], p)
      message == To(LedgerParticipants[l][Follower], ProposalMessage(ledger.proposalQueue))
  IN  IF CanPropose(c.ledgers[l], p)
      THEN [c EXCEPT !.sideEffects = Merge(@, [NoEffects EXCEPT !.messagesToSend = <<message>>])]
      ELSE Panic(c)

\* Ledger channel updates of an objective.  The leader proposes p, and sends its
\* whole queue.
ProposeAndSend(c, p) ==
  LET l == p.ledgerID
      ledger == Propose(c.ledgers[l], p)
      message == To(LedgerParticipants[l][Follower], ProposalMessage(ledger.proposalQueue))
  IN  IF CanPropose(c.ledgers[l], p)
      THEN [c EXCEPT !.ledgers[l] = ledger,
                     !.sideEffects = Merge(@, [NoEffects EXCEPT !.messagesToSend = <<message>>])]
      ELSE Panic(c)

\* The follower signs p, and names the proposal that is next in its queue.
SignAndSendNext(c, p) ==
  LET l == p.ledgerID
      ledger == SignNextProposal(c.ledgers[l])
      message == To(LedgerParticipants[l][Leader],
                    ProposalMessage(<<Countersigned(c.ledgers[l])>>))
      next == IF ledger.proposalQueue = << >> THEN << >>
              ELSE <<ledger.proposalQueue[1].proposal>>
  IN  IF CanSignNextProposal(c.ledgers[l], p)
      THEN [c EXCEPT !.ledgers[l] = ledger,
                     !.sideEffects = Merge(@, [NoEffects EXCEPT !.messagesToSend = <<message>>,
                                                                 !.proposalsToProcess = next])]
      ELSE Panic(c)
=============================================================================
