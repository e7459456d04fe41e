----------------------------- MODULE ForceMove ------------------------------
(***************************************************************************)
(* The status the chain keeps for a channel and the calls that change it:  *)
(* nitro-protocol/contracts/StatusManager.sol and ForceMove.sol, for       *)
(* channels of the ConsensusApp, where a state is supported when every     *)
(* participant signed it.                                                  *)
(*                                                                         *)
(* The code stores a hash of stateHash and outcome, and every call that    *)
(* needs them passes them again: here the status holds them.  A state of a *)
(* channel is known by its turn number (participants sign at most one      *)
(* state per turn, see LedgerProtocol), so its turn number stands for its  *)
(* hash, and 0 for no hash.                                                *)
(***************************************************************************)
EXTENDS Integers, Sequences

CONSTANT Uint48 \* the number of values of a uint48

NoOutcome == << >>

ChannelData(turnNumRecord, finalizesAt, stateHash, outcome) ==
  [turnNumRecord |-> turnNumRecord, finalizesAt |-> finalizesAt, stateHash |-> stateHash,
   outcome |-> outcome]

\* What storage holds for a channel nobody has written to.
Unwritten == ChannelData(0, 0, 0, NoOutcome)

\* A mutation of mode: a channel is finalized one second early.
modeEarly(status, now) ==
  IF status.finalizesAt = 0 THEN "Open"
  ELSE IF status.finalizesAt <= now + 1 THEN "Finalized" ELSE "Challenge"

mode(status, now) ==
  IF status.finalizesAt = 0 THEN "Open"
  ELSE IF status.finalizesAt <= now THEN "Finalized" ELSE "Challenge"

\* A mutation of requireValidTurnTaking: one participant need not sign.
supportedByAlmostAll(turnNum, agreed, nParticipants) ==
  turnNum <= agreed + 1 /\ turnNum + 1 >= nParticipants

\* The latest turn that everyone signed is agreed.  A proof of one state must have the
\* signatures of all, whose order is then acceptable, and only counts after a whole
\* round of nParticipants turns.
requireValidTurnTaking(turnNum, agreed, nParticipants) ==
  turnNum <= agreed /\ turnNum + 1 >= nParticipants

\* ConsensusApp takes proofs of one state only.
latestSupportedState(turnNum, agreed, nParticipants) ==
  requireValidTurnTaking(turnNum, agreed, nParticipants)

requireIncreasedTurnNumber(status, turnNum) == turnNum > status.turnNumRecord
requireNonDecreasedTurnNumber(status, turnNum) == turnNum >= status.turnNumRecord
requireChannelNotFinalized(status, now) == mode(status, now) # "Finalized"

-----------------------------------------------------------------------------
(* The calls, given that the submitted state is supported *)

CanChallenge(status, now, turnNum) ==
  \/ mode(status, now) = "Open" /\ requireNonDecreasedTurnNumber(status, turnNum)
  \/ mode(status, now) = "Challenge" /\ requireIncreasedTurnNumber(status, turnNum)

\* The sum has the width of its operands.
challenge(now, turnNum, outcome, challengeDuration) ==
  ChannelData(turnNum, (now + challengeDuration) % Uint48, turnNum, outcome)

\* A mutation of CanCheckpoint: a challenge cannot be answered.
CanCheckpointOpen(status, now, turnNum) ==
  mode(status, now) = "Open" /\ requireIncreasedTurnNumber(status, turnNum)

CanCheckpoint(status, now, turnNum) ==
  requireChannelNotFinalized(status, now) /\ requireIncreasedTurnNumber(status, turnNum)

clearChallenge(turnNum) == ChannelData(turnNum, 0, 0, NoOutcome)

\* A mutation of CanConclude: a finalized channel is concluded again.
CanConcludeAgain(status, now) == status.finalizesAt <= now

CanConclude(status, now) == requireChannelNotFinalized(status, now)

conclude(now, outcome) == ChannelData(0, now % Uint48, 0, outcome)
=============================================================================
