------------------------------- MODULE Ledger -------------------------------
(***************************************************************************)
(* The outcome of a running ledger channel and the two proposals that      *)
(* change it, from channel/consensus_channel/consensus_channel.go          *)
(* (LedgerOutcome, Vars, Guarantee, Proposal, Add, Remove).                *)
(*                                                                         *)
(* A ledger channel has two participants: participants[0] is the leader    *)
(* and participants[1] the follower.  A destination that is a participant  *)
(* is modelled by its place in the ledger channel; the destination of a    *)
(* guarantee is a virtual channel, a member of Targets.  A ledger channel  *)
(* holds a single asset, so that a balance is one number.                  *)
(***************************************************************************)
EXTENDS Integers

CONSTANTS NumTargets,     \* how many virtual channels there are
          LedgerIDs       \* identifiers of ledger channels

ASSUME NumTargetsAssumption == NumTargets \in Nat

Leader == "leader"
Follower == "follower"
NoParty == "none"
Parties == {Leader, Follower}

\* Virtual channel ids.  They are 32-byte strings in the code and only compared.
Targets == 1..NumTargets

(***************************************************************************)
(* A guarantee records its amount and which participant of the ledger      *)
(* channel is its "left"; the other one is its "right".  NoGuarantee       *)
(* stands for a target that is not a key of the guarantees map.            *)
(***************************************************************************)
Guarantee == [amount : Nat, left : Parties]
NoGuarantee == [amount |-> 0, left |-> NoParty]

LedgerOutcome == [balance : [Parties -> Nat],
                  guarantees : [Targets -> Guarantee \cup {NoGuarantee}]]

Vars == [turnNum : Nat, outcome : LedgerOutcome]

AddProposal == [type : {"Add"}, ledgerID : LedgerIDs, target : Targets,
                guarantee : Guarantee, leftDeposit : Nat]
RemoveProposal == [type : {"Remove"}, ledgerID : LedgerIDs, target : Targets,
                   leftAmount : Nat]
Proposal == AddProposal \cup RemoveProposal

IncludesTarget(outcome, target) == outcome.guarantees[target] # NoGuarantee

includes(outcome, target, guarantee) == outcome.guarantees[target] = guarantee

RightDeposit(p) == p.guarantee.amount - p.leftDeposit

\* The checks of Vars.Add: ErrDuplicateGuarantee, ErrInvalidDeposit and, for
\* each participant, ErrInsufficientFunds.
CanAdd(vars, p) ==
  /\ ~IncludesTarget(vars.outcome, p.target)
  /\ p.leftDeposit <= p.guarantee.amount
  /\ p.leftDeposit <= vars.outcome.balance[Leader]
  /\ RightDeposit(p) <= vars.outcome.balance[Follower]

\* A mutation of Add: the follower's deposit is forgotten.
AddForgetsRight(vars, p) ==
  [turnNum |-> vars.turnNum + 1,
   outcome |->
     [balance |-> [vars.outcome.balance EXCEPT ![Leader] = @ - p.leftDeposit],
      guarantees |-> [vars.outcome.guarantees EXCEPT ![p.target] = p.guarantee]]]

\* The effects of Vars.Add.  The deposit called "left" is always the leader's,
\* whichever participant the guarantee names as its left.
Add(vars, p) ==
  [turnNum |-> vars.turnNum + 1,
   outcome |->
     [balance |-> [vars.outcome.balance EXCEPT ![Leader] = @ - p.leftDeposit,
                                               ![Follower] = @ - RightDeposit(p)],
      guarantees |-> [vars.outcome.guarantees EXCEPT ![p.target] = p.guarantee]]]

\* A mutation of CanRemove: the left amount may exceed the guarantee.
CanRemoveAnyAmount(vars, p) == IncludesTarget(vars.outcome, p.target)

\* The checks of Vars.Remove: ErrGuaranteeNotFound and ErrInvalidAmount.
CanRemove(vars, p) ==
  /\ IncludesTarget(vars.outcome, p.target)
  /\ p.leftAmount <= vars.outcome.guarantees[p.target].amount

\* What a participant is credited when guarantee g is removed.
RemovalCredit(g, p, party) ==
  IF g.left = party THEN p.leftAmount ELSE g.amount - p.leftAmount

\* The effects of Vars.Remove: the left of the guarantee gets the left amount.
Remove(vars, p) ==
  LET g == vars.outcome.guarantees[p.target]
  IN  [turnNum |-> vars.turnNum + 1,
       outcome |->
         [balance |-> [party \in Parties |-> vars.outcome.balance[party]
                                               + RemovalCredit(g, p, party)],
          guarantees |-> [vars.outcome.guarantees EXCEPT ![p.target] = NoGuarantee]]]

\* HandleProposal returns no error ...
CanHandle(vars, p) == IF p.type = "Add" THEN CanAdd(vars, p) ELSE CanRemove(vars, p)

\* ... and what it makes of vars, which an error leaves as they are.
HandleProposal(vars, p) ==
  CASE ~CanHandle(vars, p) -> vars
    [] CanHandle(vars, p) /\ p.type = "Add" -> Add(vars, p)
    [] CanHandle(vars, p) /\ p.type = "Remove" -> Remove(vars, p)

(***************************************************************************)
(* Everything the outcome allocates: the two balances and the guarantees.  *)
(***************************************************************************)
Guaranteed(guarantees) ==
  LET sum[n \in 0..NumTargets] ==
        IF n = 0 THEN 0 ELSE sum[n - 1] + guarantees[n].amount
  IN  sum[NumTargets]

Total(outcome) ==
  outcome.balance[Leader] + outcome.balance[Follower] + Guaranteed(outcome.guarantees)
=============================================================================
