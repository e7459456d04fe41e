---------------------------- MODULE AtomicLedger ----------------------------
(***************************************************************************)
(* What a running ledger channel promises to the objectives that use it    *)
(* (ADR-0003): one ledger, to which proposals are applied one at a time,   *)
(* and a leader that learns of the agreed states in order, possibly late   *)
(* and possibly several at once.                                           *)
(***************************************************************************)
EXTENDS Ledger

CONSTANTS Proposals,      \* the proposals that may be agreed on
          Start,          \* the vars the ledger starts with
          MaxTurnNum      \* bound on the turn number

VARIABLES ledger,         \* the vars agreed on last
          learnt          \* the turn number of the newest agreement the leader knows of

Init == ledger = Start /\ learnt = Start.turnNum

Agree(p) ==
  /\ ledger.turnNum < MaxTurnNum
  /\ CanHandle(ledger, p)
  /\ ledger' = HandleProposal(ledger, p)
  /\ UNCHANGED learnt

Learn(turnNum) ==
  /\ learnt < turnNum
  /\ learnt' = turnNum
  /\ UNCHANGED ledger

Next ==
  \/ \E p \in Proposals : Agree(p)
  \/ \E turnNum \in 0..ledger.turnNum : Learn(turnNum)

Spec == Init /\ [][Next]_<<ledger, learnt>>
=============================================================================
