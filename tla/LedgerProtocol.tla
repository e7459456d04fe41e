--------------------------- MODULE LedgerProtocol ---------------------------
(***************************************************************************)
(* The consensus protocol of a running ledger channel: the leader's and    *)
(* the follower's ConsensusChannel and the signed proposals they exchange. *)
(*                                                                         *)
(* msgs holds every signed proposal that was ever sent and only grows: a   *)
(* proposal may be received late, out of order, more than once or never.   *)
(* ADR-0004 asks the protocol to withstand that: the leader sends its      *)
(* whole queue with each new proposal, and the receivers ignore what they  *)
(* cannot use.                                                             *)
(***************************************************************************)
EXTENDS ConsensusChannel

CONSTANTS ID,             \* the ledger channel
          Amounts,        \* amounts that occur in proposals
          InitBalance,    \* the balances both participants signed initially
          InitTurnNum,    \* and the turn number of that state
          MaxTurnNum      \* bound: no proposal beyond this turn number

ASSUME IDAssumption == ID \in LedgerIDs
ASSUME AmountsAssumption == Amounts \subseteq Nat
ASSUME InitBalanceAssumption == InitBalance \in [Parties -> Nat]
ASSUME InitTurnNumAssumption == InitTurnNum \in Nat
ASSUME MaxTurnNumAssumption == MaxTurnNum \in Nat

VARIABLES leader,         \* the leader's ConsensusChannel
          follower,       \* the follower's ConsensusChannel
          msgs            \* every signed proposal sent

vars == <<leader, follower, msgs>>

Message == [to : Parties, sp : SignedProposal]

InitVars == [turnNum |-> InitTurnNum,
             outcome |-> [balance |-> InitBalance,
                          guarantees |-> [t \in Targets |-> NoGuarantee]]]

\* The proposals an objective may ask for.
Proposals ==
  [type : {"Add"}, ledgerID : {ID}, target : Targets,
   guarantee : [amount : Amounts, left : Parties], leftDeposit : Amounts]
  \cup
  [type : {"Remove"}, ledgerID : {ID}, target : Targets, leftAmount : Amounts]

Init ==
  /\ leader = newConsensusChannel(ID, Leader, InitVars)
  /\ follower = newConsensusChannel(ID, Follower, InitVars)
  /\ msgs = {}

\* An objective of the leader proposes p: the whole queue is sent.
LeaderProposes(p) ==
  /\ leader.current.vars.turnNum + Len(leader.proposalQueue) < MaxTurnNum
  /\ CanPropose(leader, p)
  /\ leader' = Propose(leader, p)
  /\ msgs' = msgs \cup {[to |-> Follower, sp |-> leader'.proposalQueue[i]] :
                           i \in DOMAIN leader'.proposalQueue}
  /\ UNCHANGED follower

FollowerReceives(m) ==
  /\ m.to = Follower
  /\ follower' = Receive(follower, m.sp)
  /\ UNCHANGED <<leader, msgs>>

\* An objective of the follower expects p and finds it first in the queue.
FollowerSigns(p) ==
  /\ CanSignNextProposal(follower, p)
  /\ follower' = SignNextProposal(follower)
  /\ msgs' = msgs \cup {[to |-> Leader, sp |-> Countersigned(follower)]}
  /\ UNCHANGED leader

LeaderReceives(m) ==
  /\ m.to = Leader
  /\ leader' = Receive(leader, m.sp)
  /\ UNCHANGED <<follower, msgs>>

Next ==
  \/ \E p \in Proposals : LeaderProposes(p)
  \/ \E p \in Proposals : FollowerSigns(p)
  \/ \E m \in msgs : FollowerReceives(m)
  \/ \E m \in msgs : LeaderReceives(m)

Spec == Init /\ [][Next]_vars

-----------------------------------------------------------------------------
\* Every variable has its type: both copies are ConsensusChannels of the
\* ledger channel, one per participant.
TypeOK ==
  /\ leader \in Channel /\ leader.myIndex = Leader /\ leader.id = ID
  /\ follower \in Channel /\ follower.myIndex = Follower /\ follower.id = ID
  /\ msgs \subseteq Message

\* Consensus is one history: the follower's consensus state is the leader's, or
\* the state that one of the leader's queued proposals leads to, and what the
\* follower has queued is the stretch of the leader's queue that comes next.
\* Neither lateness, reordering nor repetition of proposals makes
\* followerReceive, SignNextProposal and leaderReceive diverge.
OneHistory ==
  LET ahead == follower.current.vars.turnNum - leader.current.vars.turnNum
      queued == Len(follower.proposalQueue)
  IN  /\ ahead >= 0
      /\ ahead + queued <= Len(leader.proposalQueue)
      /\ follower.current.vars = varsAfter(leader)[ahead]
      /\ \A i \in 1..queued : follower.proposalQueue[i] = leader.proposalQueue[ahead + i]

\* The consensus state each participant holds carries both participants'
\* signatures on exactly that state: SupportedSignedState can be enforced.
ConsensusIsSupported ==
  \A c \in {leader, follower} : \A p \in Parties :
    recoverSigner(c.current.vars, c.current.sigs[p]) = p

\* Every signature there is: on consensus states, in queues and in messages.
Signatures ==
  {c.current.sigs[p] : c \in {leader, follower}, p \in Parties}
  \cup {leader.proposalQueue[i].sig : i \in DOMAIN leader.proposalQueue}
  \cup {follower.proposalQueue[i].sig : i \in DOMAIN follower.proposalQueue}
  \cup {m.sp.sig : m \in msgs}

\* Nobody signs twice for a turn: no two signatures, of either participant, are
\* on different states with the same turn number.
NoConflictingSignatures ==
  \A s, t \in Signatures : s.vars.turnNum = t.vars.turnNum => s.vars = t.vars

\* Every state anybody signs allocates exactly what the channel was funded with:
\* no Add or Remove creates or destroys funds.
FundsConserved ==
  \A s \in Signatures : Total(s.vars.outcome) = InitBalance[Leader] + InitBalance[Follower]

\* Whatever was sent, whenever it arrives, is either used or ignored: Receive
\* returns neither ErrWrongSigner nor ErrProposalQueueExhausted to the leader, and
\* nothing but ErrInvalidTurnNum to the follower.  (An error of Receive stops the
\* engine of a virtual defunding participant.)
ReceiveNeverFails ==
  \A m \in msgs : IF m.to = Leader THEN ~leaderReceiveFails(leader, m.sp)
                                   ELSE ~followerReceiveFails(follower, m.sp)

\* Consensus only moves forward: no step takes either participant back to an
\* earlier state, and the follower's consensus moves by one proposal at a time.
ConsensusAdvances ==
  [][/\ leader'.current.vars.turnNum >= leader.current.vars.turnNum
     /\ follower'.current # follower.current =>
          \E p \in Proposals :
            /\ CanHandle(follower.current.vars, p)
            /\ follower'.current.vars = HandleProposal(follower.current.vars, p)]_vars

-----------------------------------------------------------------------------
(***************************************************************************)
(* The protocol implements the atomic ledger: the agreed state is the one  *)
(* the follower countersigned last, and the leader learns of it when the   *)
(* countersigned proposal arrives.                                         *)
(***************************************************************************)
Abstract == INSTANCE AtomicLedger WITH Start <- InitVars,
                                       ledger <- follower.current.vars,
                                       learnt <- leader.current.vars.turnNum

\* Objectives may treat the two copies of the channel as one ledger to which one
\* proposal at a time is applied (the promise of ADR-0003).
ImplementsAtomicLedger == Abstract!Spec

-----------------------------------------------------------------------------
(* The inductive invariant *)

\* The n-th state of c's pending history, read off the signatures in the queue.
At(c, n) == IF n = 0 THEN c.current.vars ELSE c.proposalQueue[n].sig.vars

\* Proposal sp leads on from v: it applies to v and the leader signed what comes of it.
LeadsOn(v, sp) ==
  /\ sp.proposal \in Proposals
  /\ CanHandle(v, sp.proposal)
  /\ sp.sig = Sign(HandleProposal(v, sp.proposal), Leader)
  /\ sp.turnNum = v.turnNum + 1

\* Every queued proposal leads from one state of the pending history to the next.
WellChained(c) ==
  \A i \in 1..Len(c.proposalQueue) :
    /\ LeadsOn(At(c, i - 1), c.proposalQueue[i])
    /\ At(c, i).turnNum = c.current.vars.turnNum + i

\* How many proposals the follower has countersigned and the leader not learnt of.
Ahead == follower.current.vars.turnNum - leader.current.vars.turnNum

FollowsLeader ==
  /\ Ahead \in Nat
  /\ Ahead + Len(follower.proposalQueue) <= Len(leader.proposalQueue)
  /\ follower.current.vars = At(leader, Ahead)
  /\ \A i \in 1..Len(follower.proposalQueue) :
       follower.proposalQueue[i] = leader.proposalQueue[Ahead + i]

\* The turn number of the last state the leader signed.
LastTurn == leader.current.vars.turnNum + Len(leader.proposalQueue)

\* A message of the leader is in its queue unless the leader has consensus on it;
\* one of the follower is on a state the follower has consensus on.
MessageOK(m) ==
  LET k == m.sp.turnNum - leader.current.vars.turnNum
  IN  /\ m.sp.proposal.ledgerID = ID
      /\ m.to = Follower => /\ m.sp.turnNum <= LastTurn
                            /\ k > 0 => m.sp = leader.proposalQueue[k]
      /\ m.to = Leader => /\ m.sp.turnNum <= follower.current.vars.turnNum
                          /\ k > 0 => m.sp.sig = Sign(At(leader, k), Follower)

\* What makes the protocol correct, and is preserved by every step: both
\* participants are on one chain of states, the one the leader signed, and
\* every message is on that chain.
Chain ==
  /\ TypeOK
  /\ WellChained(leader)
  /\ Len(leader.proposalQueue) > 0 => LastTurn <= MaxTurnNum
  /\ FollowsLeader
  /\ \A m \in msgs : MessageOK(m)
  /\ ConsensusIsSupported
  /\ \A s \in Signatures : s.vars.turnNum <= LastTurn
  /\ NoConflictingSignatures
  /\ FundsConserved
=============================================================================
