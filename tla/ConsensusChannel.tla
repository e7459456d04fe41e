-------------------------- MODULE ConsensusChannel --------------------------
(***************************************************************************)
(* One participant's copy of a running ledger channel and the methods that *)
(* change it, from channel/consensus_channel/ (consensus_channel.go,       *)
(* leader_channel.go, follower_channel.go).  A method is an operator from  *)
(* the channel record and the arguments to the new record; Can... and      *)
(* ...Fails tell whether it returns an error.                              *)
(***************************************************************************)
EXTENDS Ledger, Sequences

(***************************************************************************)
(* A signature is a signer's mark on one particular state: recovering the  *)
(* signer against any other state yields an unrelated address.             *)
(***************************************************************************)
Signature == [signer : Parties, vars : Vars]
Sign(vars, party) == [signer |-> party, vars |-> vars]
recoverSigner(vars, sig) == IF sig.vars = vars THEN sig.signer ELSE NoParty

SignedProposal == [sig : Signature, proposal : Proposal, turnNum : Nat]
SignedVars == [vars : Vars, sigs : [Parties -> Signature]]

Channel == [id : LedgerIDs, myIndex : Parties, current : SignedVars,
            proposalQueue : Seq(SignedProposal)]

\* A new channel on a state that both participants have signed.
newConsensusChannel(id, myIndex, vars) ==
  [id |-> id, myIndex |-> myIndex,
   current |-> [vars |-> vars, sigs |-> [p \in Parties |-> Sign(vars, p)]],
   proposalQueue |-> << >>]

\* varsAfter(c)[n] are the vars after the first n proposals of the queue.
varsAfter(c) ==
  LET v[n \in 0..Len(c.proposalQueue)] ==
        IF n = 0 THEN c.current.vars
                 ELSE HandleProposal(v[n - 1], c.proposalQueue[n].proposal)
  IN  v

\* None of the first n proposals of the queue is refused by HandleProposal.
Applies(c, n) ==
  \A i \in 1..n : CanHandle(varsAfter(c)[i - 1], c.proposalQueue[i].proposal)

\* A mutation of latestProposedVars: the queue is overlooked.
latestAgreedVars(c) == c.current.vars

latestProposedVars(c) == varsAfter(c)[Len(c.proposalQueue)]

\* latestProposedVars returns no error
QueueApplies(c) == Applies(c, Len(c.proposalQueue))

Includes(c, target, guarantee) == includes(c.current.vars.outcome, target, guarantee)

\* A mutation of IsProposed: only the consensus state is looked at.
IsProposedOverlooksQueue(c, target, guarantee) == Includes(c, target, guarantee)

IsProposed(c, target, guarantee) ==
  /\ includes(latestProposedVars(c).outcome, target, guarantee)
  /\ ~Includes(c, target, guarantee)

\* A mutation of IsProposedNext: the proposal need not be the next one.
IsProposedAnywhere(c, target, guarantee) == IsProposed(c, target, guarantee)

IsProposedNext(c, target, guarantee) ==
  /\ c.proposalQueue # << >>
  /\ LET vars == HandleProposal(c.current.vars, c.proposalQueue[1].proposal)
     IN  /\ vars.turnNum = c.proposalQueue[1].turnNum
         /\ includes(vars.outcome, target, guarantee)
  /\ ~Includes(c, target, guarantee)

\* IsProposedNext returns an error: the next proposal cannot be applied, or its turn
\* number is not the one it would lead to.
IsProposedNextFails(c) ==
  /\ c.proposalQueue # << >>
  /\ LET p == c.proposalQueue[1].proposal
     IN  \/ ~CanHandle(c.current.vars, p)
         \/ HandleProposal(c.current.vars, p).turnNum # c.proposalQueue[1].turnNum

HasRemovalBeenProposed(c, target) ==
  \E i \in DOMAIN c.proposalQueue :
    /\ c.proposalQueue[i].proposal.type = "Remove"
    /\ c.proposalQueue[i].proposal.target = target

HasRemovalBeenProposedNext(c, target) ==
  /\ c.proposalQueue # << >>
  /\ c.proposalQueue[1].proposal.type = "Remove"
  /\ c.proposalQueue[1].proposal.target = target

-----------------------------------------------------------------------------
(* The leader *)

CanPropose(c, p) ==
  /\ c.myIndex = Leader
  /\ p.ledgerID = c.id
  /\ QueueApplies(c)
  /\ CanHandle(latestProposedVars(c), p)

\* A mutation of Propose: the leader takes its proposal for agreed.
ProposeAsAgreed(c, p) ==
  LET vars == HandleProposal(latestProposedVars(c), p)
  IN  [c EXCEPT !.current.vars = vars,
                !.proposalQueue =
         Append(@, [sig |-> Sign(vars, Leader), proposal |-> p, turnNum |-> vars.turnNum])]

Propose(c, p) ==
  LET vars == HandleProposal(latestProposedVars(c), p)
  IN  [c EXCEPT !.proposalQueue =
         Append(@, [sig |-> Sign(vars, Leader), proposal |-> p, turnNum |-> vars.turnNum])]

\* A mutation of Stale: off by one.
StaleOffByOne(c, sp) == sp.turnNum < c.current.vars.turnNum

\* The countersigned proposal is one the leader already has consensus on.
Stale(c, sp) == sp.turnNum <= c.current.vars.turnNum

\* The i-th proposal of the leader's queue is the one the follower signed.
Countersigns(c, sp, i) ==
  /\ i \in 1..Len(c.proposalQueue)
  /\ Applies(c, i)
  /\ varsAfter(c)[i].turnNum = sp.turnNum
  /\ recoverSigner(varsAfter(c)[i], sp.sig) = Follower

leaderAccepts(c, sp) ==
  /\ c.myIndex = Leader
  /\ sp.proposal.ledgerID = c.id
  /\ ~Stale(c, sp)
  /\ \E i \in 1..Len(c.proposalQueue) : Countersigns(c, sp, i)

\* Mutations of leaderReceive: the countersigned proposal stays in the queue ...
leaderReceiveKeepsOne(c, sp) ==
  IF leaderAccepts(c, sp)
  THEN LET i == CHOOSE i \in 1..Len(c.proposalQueue) : Countersigns(c, sp, i)
       IN  [c EXCEPT !.current = [vars |-> varsAfter(c)[i],
                                  sigs |-> [p \in Parties |->
                                              IF p = Leader THEN c.proposalQueue[i].sig
                                                            ELSE sp.sig]],
                     !.proposalQueue = SubSeq(@, i, Len(@))]
  ELSE c

\* ... or the leader's signature is taken from the head of the queue.
leaderReceiveHeadSignature(c, sp) ==
  IF leaderAccepts(c, sp)
  THEN LET i == CHOOSE i \in 1..Len(c.proposalQueue) : Countersigns(c, sp, i)
       IN  [c EXCEPT !.current = [vars |-> varsAfter(c)[i],
                                  sigs |-> [p \in Parties |->
                                              IF p = Leader THEN c.proposalQueue[1].sig
                                                            ELSE sp.sig]],
                     !.proposalQueue = SubSeq(@, i + 1, Len(@))]
  ELSE c

\* leaderReceive: proposals up to the countersigned one leave the queue at once.
leaderReceive(c, sp) ==
  IF leaderAccepts(c, sp)
  THEN LET i == CHOOSE i \in 1..Len(c.proposalQueue) : Countersigns(c, sp, i)
       IN  [c EXCEPT !.current = [vars |-> varsAfter(c)[i],
                                  sigs |-> [p \in Parties |->
                                              IF p = Leader THEN c.proposalQueue[i].sig
                                                            ELSE sp.sig]],
                     !.proposalQueue = SubSeq(@, i + 1, Len(@))]
  ELSE c

\* ErrIncorrectChannelID, ErrWrongSigner or ErrProposalQueueExhausted
leaderReceiveFails(c, sp) ==
  \/ sp.proposal.ledgerID # c.id
  \/ ~Stale(c, sp) /\ ~leaderAccepts(c, sp)

-----------------------------------------------------------------------------
(* The follower *)

\* ErrInvalidTurnNum: the proposal is stale, or it comes before its predecessor.
InvalidTurnNum(c, sp) == sp.turnNum # latestProposedVars(c).turnNum + 1

followerAccepts(c, sp) ==
  /\ c.myIndex = Follower
  /\ sp.proposal.ledgerID = c.id
  /\ QueueApplies(c)
  /\ ~InvalidTurnNum(c, sp)
  /\ CanHandle(latestProposedVars(c), sp.proposal)
  /\ recoverSigner(HandleProposal(latestProposedVars(c), sp.proposal), sp.sig) = Leader

followerReceive(c, sp) ==
  IF followerAccepts(c, sp)
  THEN [c EXCEPT !.proposalQueue = Append(@, sp)]
  ELSE c

\* An error other than ErrInvalidTurnNum
followerReceiveFails(c, sp) ==
  \/ sp.proposal.ledgerID # c.id
  \/ ~QueueApplies(c)
  \/ ~InvalidTurnNum(c, sp) /\ ~followerAccepts(c, sp)

CanSignNextProposal(c, expected) ==
  /\ c.myIndex = Follower
  /\ expected.ledgerID = c.id
  /\ c.proposalQueue # << >>
  /\ c.proposalQueue[1].proposal = expected
  /\ CanHandle(c.current.vars, c.proposalQueue[1].proposal)

\* Mutations of SignNextProposal: the proposal stays in the queue ...
SignNextProposalKeepsIt(c) ==
  LET vars == HandleProposal(c.current.vars, c.proposalQueue[1].proposal)
  IN  [c EXCEPT !.current = [vars |-> vars,
                             sigs |-> [p \in Parties |->
                                         IF p = Leader THEN c.proposalQueue[1].sig
                                                       ELSE Sign(vars, Follower)]]]

\* ... or all that is queued is signed at once.
SignAllProposals(c) ==
  LET vars == latestProposedVars(c)
  IN  [c EXCEPT !.current = [vars |-> vars,
                             sigs |-> [p \in Parties |->
                                         IF p = Leader THEN c.proposalQueue[Len(c.proposalQueue)].sig
                                                       ELSE Sign(vars, Follower)]],
                !.proposalQueue = << >>]

SignNextProposal(c) ==
  LET vars == HandleProposal(c.current.vars, c.proposalQueue[1].proposal)
  IN  [c EXCEPT !.current = [vars |-> vars,
                             sigs |-> [p \in Parties |->
                                         IF p = Leader THEN c.proposalQueue[1].sig
                                                       ELSE Sign(vars, Follower)]],
                !.proposalQueue = Tail(@)]

\* The countersigned proposal that SignNextProposal returns.
Countersigned(c) ==
  LET vars == HandleProposal(c.current.vars, c.proposalQueue[1].proposal)
  IN  [sig |-> Sign(vars, Follower), proposal |-> c.proposalQueue[1].proposal,
       turnNum |-> vars.turnNum]

Receive(c, sp) == IF c.myIndex = Follower THEN followerReceive(c, sp)
                                          ELSE leaderReceive(c, sp)
=============================================================================
