---------------------------- MODULE EngineLedgers ---------------------------
(***************************************************************************)
(* Every ledger channel of the clients, with the proposals that are on     *)
(* their way, is an instance of the ledger protocol.                       *)
(***************************************************************************)
EXTENDS Engine

Elements(seq) == {seq[i] : i \in DOMAIN seq}
MessagesTo(p) ==
  UNION {Elements(network[q][p]) : q \in Clients}
    \cup {m.message : m \in {m \in UNION {Elements(client[q].outbox) : q \in Clients} : m.to = p}}
SignedProposalsTo(p) ==
  UNION {Elements(m.payload) : m \in {m \in MessagesTo(p) : m.type = "SignedProposals"}}
ProposalsFor(l, party) ==
  {[to |-> party, sp |-> sp] : sp \in {sp \in SignedProposalsTo(LedgerParticipants[l][party]) :
                                         sp.proposal.ledgerID = l}}

LedgerChannel(l) ==
  INSTANCE LedgerProtocol WITH
    ID <- l, Amounts <- Nat, InitBalance <- LedgerBalance[l],
    InitTurnNum <- PostFundTurnNum, MaxTurnNum <- PostFundTurnNum + 2 * NumTargets,
    leader <- client[LedgerParticipants[l][Leader]].ledgers[l],
    follower <- client[LedgerParticipants[l][Follower]].ledgers[l],
    msgs <- ProposalsFor(l, Leader) \cup ProposalsFor(l, Follower)

\* The objectives of all clients together use a ledger channel the way its protocol
\* allows: each ledger channel satisfies the inductive invariant of LedgerProtocol,
\* so that there is one history, and nobody signs two states for one turn.
LedgersFollowProtocol ==
  \A l \in LedgerIDs :
    (\A p \in Parties : l \in DOMAIN client[LedgerParticipants[l][p]].ledgers)
      => LedgerChannel(l)!Chain
=============================================================================
