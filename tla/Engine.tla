------------------------------- MODULE Engine -------------------------------
(***************************************************************************)
(* Clients that open ledger channels with deposits on chain, fund virtual  *)
(* channels through them, and close both: the run loop of                  *)
(* client/engine/engine.go in every client, the messages between them and  *)
(* the chain.                                                              *)
(*                                                                         *)
(* The run loop handles one event at a time, to its end, so that handling  *)
(* an event is one step.  Messages are sent one by one, and no message is  *)
(* lost.  In which order a client gets them depends on the message         *)
(* service:                                                                *)
(*                                                                         *)
(* - test-messageservice.go puts a message into the one channel that the   *)
(*   recipient reads from before Send returns (Overtaking is FALSE);       *)
(* - simpletcp-messageservice.go makes a connection for every message, and *)
(*   the recipient takes them as the network establishes them: messages of *)
(*   different senders may overtake each other (Overtaking is TRUE).       *)
(*                                                                         *)
(* Every order of the first is one of the second, so that what holds if    *)
(* Overtaking is TRUE holds for both.                                      *)
(***************************************************************************)
EXTENDS VirtualFund, VirtualDefund, DirectFund, DirectDefund, Adjudicator

CONSTANTS OpenLedgers,     \* the ledger channels that are running in the beginning
          Requests,        \* the requests [client, v, paidToBob] to close virtual channels
          LedgerRequests,  \* the requests [client, l] to close ledger channels
          Patient,         \* whether applications wait for all participants (see below)
          Overtaking,      \* whether messages of different senders may overtake each other
          Refused          \* the <<client, channel>> the policymaker rejects

ASSUME RequestsAssumption ==
  /\ OpenLedgers \subseteq LedgerIDs
  /\ Requests \subseteq [client : Clients, v : Targets, paidToBob : Int]
  /\ LedgerRequests \subseteq [client : Clients, l : LedgerIDs]

\* Virtual channels are for clients that may have ledger channels, open or not.
ASSUME RoutesAssumption == \A v \in Targets : \A hop \in Hops :
  LedgersBetween(Participants[v][hop], Participants[v][hop + 1]) # {}

VARIABLES client,          \* client[p]: what client p keeps
          network,         \* network[p][q]: messages on link p on their way to q
          chain,           \* the adjudicator, and the transactions that are pending
          chainEvents,     \* chainEvents[p]: events on their way to client p
          requests         \* closing requests that have not been made yet

vars == <<client, network, chain, chainEvents, requests>>

-----------------------------------------------------------------------------
(* The handlers *)

\* Messages are sent first.  Nothing ever reads from fromLedger, which is nil: a
\* proposal to process would block the run loop.
executeSideEffects(c) ==
  IF c.stopped THEN c
  ELSE [c EXCEPT !.outbox = @ \o c.sideEffects.messagesToSend,
                 !.submitted = @ \o c.sideEffects.transactionsToSubmit,
                 !.sideEffects = NoEffects,
                 !.stopped = c.sideEffects.proposalsToProcess # << >>]

CrankObjective(me, c, objective, ch) ==
  CASE objective = "VirtualFund" -> CrankVirtualFund(me, c, ch)
    [] objective = "VirtualDefund" -> CrankVirtualDefund(me, c, ch)
    [] objective = "DirectFunding" -> CrankDirectFund(me, c, ch)
    [] objective = "DirectDefunding" -> CrankDirectDefund(me, c, ch)

\* A complete objective gives up its channel; a ledger channel that is funded runs.
WrapUp(me, c, objective, ch) ==
  LET released == ReleaseChannelFromOwnership(c, ch)
  IN  IF objective = "DirectFunding" THEN spawnConsensusChannel(me, released, ch)
                                     ELSE released

StoreObjective(me, c, objective, ch) ==
  CASE c.stopped -> Panic(c)
    [] ~c.stopped /\ GetStatus(c, objective, ch) = Approved -> TakeOwnership(c, objective, ch)
    [] ~c.stopped /\ GetStatus(c, objective, ch) # Approved -> WrapUp(me, c, objective, ch)

\* Crank the objective, store it, wrap it up if it is complete, and carry out what it
\* declared.
attemptProgress(me, c, objective, ch) ==
  executeSideEffects(StoreObjective(me, CrankObjective(me, c, objective, ch), objective, ch))

\* attemptProgress, unless Update returned an error.
progress(me, updated, objective, ch) ==
  IF updated.stopped THEN updated ELSE attemptProgress(me, updated, objective, ch)

\* constructObjectiveFromMessage
constructObjective(me, c, m) ==
  LET ch == m.channel
      state == m.payload.state
  IN  CASE m.objective = "DirectFunding" /\ state.turnNum = PreFundTurnNum /\ ~state.isFinal ->
             ConstructDirectFund(me, c, ch, state.outcome, Unapproved)
        [] m.objective = "VirtualFund" /\ MyRole(me, ch) # Alice /\ HasLedgers(me, c, ch) ->
             ConstructVirtualFund(me, c, ch, Unapproved)
        [] /\ m.objective = "VirtualDefund" /\ state.isFinal
           /\ CanConstructVirtualDefund(me, c, ch) ->
             ConstructVirtualDefund(c, ch, calculatePaidToBob(c, ch, state),
                                     Unapproved)
        [] /\ m.objective = "DirectDefunding" /\ state.isFinal
           /\ CanConstructDirectDefund(c, ch) ->
             ConstructDirectDefund(c, ch, Unapproved)
        [] OTHER -> Panic(c)

\* A mutation of Decide: the ledger channel stays in use.
DecideKeepsLedger(me, c, m) ==
  SetStatus(c, m.objective, m.channel,
            IF <<me, m.channel>> \in Refused THEN Rejected ELSE Approved)

\* The policymaker's decision on a new objective.  To approve of a direct defunding is
\* to stop using the ledger channel.
Decide(me, c, m) ==
  CASE <<me, m.channel>> \in Refused -> SetStatus(c, m.objective, m.channel, Rejected)
    [] <<me, m.channel>> \notin Refused /\ m.objective = "DirectDefunding" ->
         DestroyConsensusChannel(SetStatus(c, m.objective, m.channel, Approved), m.channel)
    [] OTHER -> SetStatus(c, m.objective, m.channel, Approved)

DecideIfCreated(me, c, m) == IF c.stopped THEN c ELSE Decide(me, c, m)

getOrCreateObjective(me, c, m) ==
  CASE GetStatus(c, m.objective, m.channel) = NoObjective ->
         DecideIfCreated(me, constructObjective(me, c, m), m)
    [] GetStatus(c, m.objective, m.channel) # NoObjective ->
         IF Populates(me, c, m.objective, m.channel) THEN c ELSE Panic(c)

UpdateWithState(c, m) ==
  CASE m.objective = "VirtualFund" -> UpdateVirtualFundWithState(c, m.channel, m.payload)
    [] m.objective = "VirtualDefund" -> UpdateVirtualDefundWithState(c, m.channel, m.payload)
    [] m.objective = "DirectFunding" -> UpdateDirectFundWithState(c, m.channel, m.payload)
    [] m.objective = "DirectDefunding" -> UpdateDirectDefundWithState(c, m.channel, m.payload)

\* An objective that has just been rejected is stored, and the message done with; a
\* message for one that was rejected earlier gets to Crank, which refuses it.
applySignedState(me, c, m, isNew) ==
  IF \/ c.stopped
     \/ isNew /\ GetStatus(c, m.objective, m.channel) = Rejected
     \/ GetStatus(c, m.objective, m.channel) = Completed
  THEN c
  ELSE progress(me, UpdateWithState(c, m), m.objective, m.channel)

handleSignedState(me, c, m) ==
  applySignedState(me, getOrCreateObjective(me, c, m), m,
                   GetStatus(c, m.objective, m.channel) = NoObjective)

UpdateWithProposal(me, c, sp) ==
  IF sp.proposal.type = "Add"
  THEN UpdateVirtualFundWithProposal(me, c, sp.proposal.target, sp)
  ELSE UpdateVirtualDefundWithProposal(me, c, sp.proposal.target, sp)

handleSignedProposal(me, c, sp) ==
  LET objective == ProposalObjective(sp.proposal)
      v == sp.proposal.target
  IN  IF c.stopped THEN c
      ELSE IF GetStatus(c, objective, v) = NoObjective \/ ~Populates(me, c, objective, v)
           THEN Panic(c)
      ELSE IF GetStatus(c, objective, v) = Completed THEN c
      ELSE progress(me, UpdateWithProposal(me, c, sp), objective, v)

\* The payloads of a message are handled one after the other.
handleMessage(me, c, m) ==
  IF m.type = "SignedState" THEN handleSignedState(me, c, m)
  ELSE LET after[n \in 0..Len(m.payload)] ==
             IF n = 0 THEN c ELSE handleSignedProposal(me, after[n - 1], m.payload[n])
       IN  after[Len(m.payload)]

UpdateWithChainEvent(c, objective, e) ==
  IF objective = "DirectFunding" THEN UpdateDirectFundWithChainEvent(c, e.l, e)
                                 ELSE UpdateDirectDefundWithChainEvent(c, e.l, e)

\* An event is for the objective that owns the channel; if there is none, or if it
\* cannot be read from the store, the event is ignored.
handleChainEvent(me, c, e) ==
  LET owner == c.channelToObjective[e.l]
  IN  IF owner = NoOwner \/ ~Populates(me, c, owner, e.l) THEN c
      ELSE progress(me, UpdateWithChainEvent(c, owner, e), owner, e.l)

\* The link that p's messages to q are on: its own, or the one everybody uses.
Link(p, q) == IF Overtaking THEN p ELSE q

\* The first n messages of c's outbox are on their way.
Sent(net, me, c, n) ==
  LET after[i \in 0..n] ==
        IF i = 0 THEN net
        ELSE LET m == c.outbox[i]
             IN  [after[i - 1] EXCEPT ![Link(me, m.to)][m.to] = Append(@, m.message)]
  IN  after[n]

\* How many of the messages are sent in the step that declares them.  If links are
\* shared it matters who sends next, and each other message has its own step.
SentAtOnce(c) == IF Overtaking \/ c.outbox = << >> THEN Len(c.outbox) ELSE 1

Submitted(ch, c) ==
  LET after[n \in 0..Len(c.submitted)] ==
        IF n = 0 THEN ch ELSE SendTransaction(after[n - 1], c.submitted[n])
  IN  after[Len(c.submitted)]

-----------------------------------------------------------------------------
\* The ledger channels of a client that run from the beginning.
Ledgers(me) ==
  [l \in {k \in OpenLedgers : \E p \in Parties : LedgerParticipants[k][p] = me} |->
     newConsensusChannel(l, MyParty(me, l),
       [turnNum |-> PostFundTurnNum,
        outcome |-> FromExit(AsExit(LedgerBalance[l]))])]

Init ==
  /\ client = [me \in Clients |-> NewClient(me, Ledgers(me))]
  /\ network = [p \in Clients |-> [q \in Clients |-> << >>]]
  /\ chain = NewChain(OpenLedgers, LedgerBalance)
  /\ chainEvents = [p \in Clients |-> << >>]
  /\ requests = Requests \cup LedgerRequests

\* The client has handled an event; what it sent is added to net, and what it
\* submitted is pending on chain.
Handles(me, handled, net) ==
  /\ client' = [client EXCEPT ![me] =
                  [handled EXCEPT !.outbox = SubSeq(@, SentAtOnce(handled) + 1, Len(@)),
                                  !.submitted = << >>]]
  /\ network' = Sent(net, me, handled, SentAtOnce(handled))
  /\ chain' = Submitted(chain, handled)

\* The run loop is ready for an event: it has no message left to send.
Ready(me) == ~client[me].stopped /\ client[me].outbox = << >>

\* The run loop sends the next message.
Send(me) ==
  /\ client[me].outbox # << >>
  /\ network' = Sent(network, me, client[me], 1)
  /\ client' = [client EXCEPT ![me].outbox = Tail(@)]
  /\ UNCHANGED <<chain, chainEvents, requests>>

(***************************************************************************)
(* handleAPIEvent spawns objectives that are approved.  Every request to   *)
(* create a channel has a nonce of its own, so that it is for a new        *)
(* channel.                                                                *)
(*                                                                         *)
(* An application learns of its own client's objectives only.  A patient   *)
(* one waits, as the tests of the repository do, until the objectives it   *)
(* builds on are complete at every participant.                            *)
(***************************************************************************)
CreateDirectChannel(l) ==
  LET me == LedgerParticipants[l][Leader]
      c == client[me]
      exit == AsExit(LedgerBalance[l])
  IN  /\ Ready(me)
      /\ l \notin OpenLedgers
      /\ c.directfund[l].status = NoObjective
      /\ Handles(me, IF channelsExistWithCounterparty(c, l) THEN Panic(c)
                     ELSE attemptProgress(me, ConstructDirectFund(me, c, l, exit, Approved),
                                          "DirectFunding", l),
                 network)
      /\ UNCHANGED <<chainEvents, requests>>

CreateVirtualChannel(v) ==
  LET me == Participants[v][Alice]
      c == client[me]
  IN  /\ Ready(me)
      /\ c.fund[v] = NoObjective
      /\ Patient => \A r \in Roles : HasLedgers(Participants[v][r], client[Participants[v][r]], v)
      /\ Handles(me, IF HasLedgers(me, c, v)
                     THEN attemptProgress(me, ConstructVirtualFund(me, c, v, Approved),
                                          "VirtualFund", v)
                     ELSE Panic(c),
                 network)
      /\ UNCHANGED <<chainEvents, requests>>

\* The application of client me asks to close v once it knows that v is funded.
CloseVirtualChannel(r) ==
  LET c == client[r.client]
      me == r.client
      v == r.v
  IN  /\ r \in requests
      /\ Ready(me)
      /\ c.fund[v] = Completed
      /\ Patient => \A role \in Roles : client[Participants[v][role]].fund[v] = Completed
      /\ Handles(me, IF CanConstructVirtualDefund(me, c, v)
                     THEN attemptProgress(me, ConstructVirtualDefund(c, v, r.paidToBob, Approved),
                                          "VirtualDefund", v)
                     ELSE Panic(c),
                 network)
      /\ requests' = requests \ {r}
      /\ UNCHANGED chainEvents

\* Virtual channel v goes through ledger channel l, and is not done with.
Uses(v, l) ==
  /\ \E hop \in Hops : LedgerOf(v, hop) = l
  /\ \E r \in Roles : client[Participants[v][r]].fund[v] # NoObjective
  /\ \E r \in Roles : client[Participants[v][r]].defund[v].status # Completed

\* A participant of l asks to close it.  If its copy has guarantees, the failure is
\* reported to the application; any other error reaches the run loop.
CloseDirectChannel(r) ==
  LET me == r.client
      c == client[me]
      l == r.l
      closed == DestroyConsensusChannel(ConstructDirectDefund(c, l, Approved), l)
  IN  /\ r \in requests
      /\ Ready(me)
      /\ l \in DOMAIN c.ledgers \/ c.directdefund[l].status # NoObjective
      /\ Patient => /\ \A p \in Parties : l \in DOMAIN client[LedgerParticipants[l][p]].ledgers
                    /\ \A v \in Targets : ~Uses(v, l)
      /\ Handles(me, IF CanConstructDirectDefund(c, l)
                     THEN attemptProgress(me, closed, "DirectDefunding", l)
                     ELSE IF l \in DOMAIN c.ledgers /\ notEmpty(c, l) THEN c
                     ELSE Panic(c),
                 network)
      /\ requests' = requests \ {r}
      /\ UNCHANGED chainEvents

\* A message of p is waiting for me ...
Deliverable(p, me) == Ready(me) /\ network[p][me] # << >>

\* ... and reaches me.
Deliver(p, me) ==
  /\ Deliverable(p, me)
  /\ Handles(me, handleMessage(me, client[me], Head(network[p][me])),
             [network EXCEPT ![p][me] = Tail(@)])
  /\ UNCHANGED <<chainEvents, requests>>

\* A block is mined, and its events are broadcast.
Mine(block) ==
  /\ chain' = Mined(chain, block)
  /\ chainEvents' = [p \in Clients |->
                       attemptSend(chainEvents[p], Events(chain, block))]
  /\ UNCHANGED <<client, network, requests>>

Observable(me) == Ready(me) /\ chainEvents[me] # << >>

\* An event of the chain reaches client me.
Observe(me) ==
  /\ Observable(me)
  /\ Handles(me, handleChainEvent(me, client[me], Head(chainEvents[me])), network)
  /\ chainEvents' = [chainEvents EXCEPT ![me] = Tail(@)]
  /\ UNCHANGED requests

Next ==
  \/ \E l \in LedgerIDs : CreateDirectChannel(l)
  \/ \E v \in Targets : CreateVirtualChannel(v)
  \/ \E r \in Requests : CloseVirtualChannel(r)
  \/ \E r \in LedgerRequests : CloseDirectChannel(r)
  \/ \E me \in Clients : Send(me)
  \/ \E p, me \in Clients : Deliver(p, me)
  \/ \E block \in Blocks(chain) : Mine(block)
  \/ \E me \in Clients : Observe(me)

(***************************************************************************)
(* A message service hands over every message it has and a chain service   *)
(* every event, a run loop takes them and sends its messages, and          *)
(* transactions are mined: weak fairness of Send(me), Deliver(p, me),      *)
(* Observe(me) and Mine of any block.  That of Deliver and Observe is      *)
(* written out, since TLC would run the handlers to evaluate ENABLED:      *)
(* Deliverable and Observable are what enables them, and no other step     *)
(* takes a message or an event.  (Any fairness of the chain towards single *)
(* transactions is not needed: only finitely many are ever submitted.)     *)
(***************************************************************************)
Fairness ==
  /\ \A me \in Clients : WF_vars(Send(me))
  /\ \A p, me \in Clients :
       \/ []<>~Deliverable(p, me)
       \/ []<><<network[p][me] # << >> /\ network'[p][me] = Tail(network[p][me])>>_vars
  /\ \A me \in Clients :
       \/ []<>~Observable(me)
       \/ []<><<chainEvents[me] # << >> /\ chainEvents'[me] = Tail(chainEvents[me])>>_vars
  /\ WF_vars(\E block \in Blocks(chain) : Mine(block))

Spec == Init /\ [][Next]_vars /\ Fairness

-----------------------------------------------------------------------------
(* Properties *)

\* No error reaches a run loop and none blocks on a channel: every client is still
\* able to handle events.
NoClientStops == \A p \in Clients : ~client[p].stopped

Running(v) ==
  \E p \in Clients : v \in DOMAIN client[p].channels /\ PostFundComplete(client[p].channels[v])
FinallySigned(v) == \E p \in Clients : client[p].defund[v].signatures = Roles
Copies(v, hop) == {client[LedgerParticipants[LedgerOf(v, hop)][p]] : p \in Parties}

\* A virtual channel is funded for as long as it runs: from the moment one client
\* holds all signatures on its postfund state until one holds all signatures on its
\* final state, both copies of both ledger channels guarantee it.  (Every client
\* checks its own copies only, before it signs.)
StaysFunded ==
  \A v \in Targets : Running(v) /\ ~FinallySigned(v) =>
    \A hop \in Hops : \A c \in Copies(v, hop) :
      LedgerOf(v, hop) \in DOMAIN c.ledgers /\ Funded(c, v, hop)

\* What a guarantee for v, or the payment that was made with v, is to one party.
Share(c, v, hop, party) ==
  LET isLeft == LeftOf(v, hop) = party
      funded == LedgerOf(v, hop) \in DOMAIN c.ledgers /\ Funded(c, v, hop)
  IN  CASE funded -> IF isLeft THEN -a0(v) ELSE -b0(v)
        [] ~funded /\ c.fund[v] = Completed ->
             IF isLeft THEN -c.defund[v].paidToBob ELSE c.defund[v].paidToBob
        [] OTHER -> 0

SharesIn(c, l, party) ==
  LET sum[n \in 0..NumTargets] ==
        IF n = 0 THEN 0
        ELSE LET hops == {hop \in Hops : LedgerOf(n, hop) = l}
             IN  sum[n - 1] + IF hops = {} THEN 0
                              ELSE Share(c, n, CHOOSE hop \in hops : TRUE, party)
  IN  sum[NumTargets]

\* In every copy of a ledger channel, at any time, the participants have what they
\* put in, less their deposits for the virtual channels that run, less or plus what
\* was paid with the ones that were closed.  In particular the intermediary, who
\* pays in one ledger channel what it is paid in the other, neither wins nor loses.
BalancesExact ==
  \A p \in Clients : \A l \in DOMAIN client[p].ledgers : \A party \in Parties :
    ~client[p].stopped =>
      client[p].ledgers[l].current.vars.outcome.balance[party]
        = LedgerBalance[l][party] + SharesIn(client[p], l, party)

\* If one participant rejects a virtual channel, it is not funded by the others:
\* no ledger channel guarantees it, and nobody proposes to.
RejectedNeverFunded ==
  \A v \in Targets :
    (\E r \in Roles : client[Participants[v][r]].fund[v] = Rejected) =>
      \A hop \in Hops : \A c \in Copies(v, hop) :
        LET ledger == c.ledgers[LedgerOf(v, hop)]
        IN  LedgerOf(v, hop) \in DOMAIN c.ledgers =>
              /\ ~IncludesTarget(ledger.current.vars.outcome, v)
              /\ \A i \in DOMAIN ledger.proposalQueue : ledger.proposalQueue[i].proposal.target # v

\* No two clients hold a fully signed final state with different payments, even if
\* both Alice and Bob ask to close the channel.
AgreedPayment ==
  \A v \in Targets : \A p, q \in Clients :
    /\ client[p].defund[v].signatures = Roles
    /\ client[q].defund[v].signatures = Roles
    => client[p].defund[v].paidToBob = client[q].defund[v].paidToBob

\* The follower, who is paid last if the funds do not suffice, takes no risk: it
\* submits no deposit before the leader's is on chain in full.  And nobody puts in
\* more than its share.
DepositsInOrder ==
  \A l \in LedgerIDs :
    /\ \/ chain.deposited[l][Follower] > 0
       \/ \E tx \in chain.pending : tx.type = "Deposit" /\ tx.l = l /\ tx.from = Follower
       => chain.deposited[l][Leader] = LedgerBalance[l][Leader]
    /\ \A p \in Parties : chain.deposited[l][p] <= LedgerBalance[l][p]

\* As long as a participant uses a ledger channel, the chain holds what it allocates:
\* nobody runs it before all deposits are there, and no withdrawal takes place before
\* both have stopped using it.
LedgersBacked ==
  \A p \in Clients : \A l \in DOMAIN client[p].ledgers :
    chain.holdings[l] = Total(client[p].ledgers[l].current.vars.outcome)

\* A ledger channel that is closed is paid out once and in full, and to each of its
\* participants goes what it put in, less or plus what was paid with the virtual
\* channels.
PaidOutExactly ==
  \A l \in LedgerIDs :
    LET c == client[LedgerParticipants[l][Leader]]
        due(party) == LedgerBalance[l][party] + SharesIn(c, l, party)
    IN  chain.paidOut[l] # << >> =>
          chain.paidOut[l] = <<<<due(Leader), due(Follower)>>>> /\ chain.holdings[l] = 0

\* The comment in directdefund.NewObjective: "We choose to disallow creating an
\* objective if the channel has an in-progress update."  No client starts to defund a
\* ledger channel in which something is proposed.
ClosesOnlySettled ==
  [][\A p \in Clients : \A l \in DOMAIN client[p].ledgers :
       client[p].directdefund[l].status = NoObjective
         /\ client'[p].directdefund[l].status # NoObjective
         => client[p].ledgers[l].proposalQueue = << >>]_vars

\* A ledger channel that was asked for gets to run, at both participants.
EventuallyOpen ==
  \A l \in LedgerIDs :
    (client[LedgerParticipants[l][Leader]].directfund[l].status # NoObjective)
      ~> \A p \in Parties : client[LedgerParticipants[l][p]].directfund[l].status = Completed

\* A ledger channel that somebody closes is paid out, and both participants know.
EventuallyWithdrawn ==
  \A l \in LedgerIDs :
    (\E q \in Clients : client[q].directdefund[l].status # NoObjective)
      ~> /\ chain.paidOut[l] # << >>
         /\ \A p \in Parties :
              client[LedgerParticipants[l][p]].directdefund[l].status = Completed

\* A virtual channel that was asked for is funded, at every participant.
EventuallyFunded ==
  \A v \in Targets :
    (client[Participants[v][Alice]].fund[v] # NoObjective)
      ~> \A r \in Roles : client[Participants[v][r]].fund[v] = Completed

\* A virtual channel that somebody asks to close is defunded, at every participant.
EventuallyDefunded ==
  \A v \in Targets :
    (\E p \in Clients : client[p].defund[v].status # NoObjective)
      ~> \A r \in Roles : client[Participants[v][r]].defund[v].status = Completed
=============================================================================
