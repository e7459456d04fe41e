---------------------------- MODULE StateChannel ----------------------------
(***************************************************************************)
(* A participant's record of the states of a channel and of who signed     *)
(* them, from channel/channel.go and channel/state/signedstate.go.         *)
(*                                                                         *)
(* A state is its variable part: a turn number, an outcome and whether it  *)
(* is final.  A signature is bound to one state, so the signatures of a    *)
(* signed state are the set of the (1-based) indices of their signers.     *)
(***************************************************************************)
EXTENDS Integers, FiniteSets

PreFundTurnNum == 0
PostFundTurnNum == 1

\* The largest uint64, which the code reserves for "no supported state".
NoSupportedState == -1

State(turnNum, outcome, isFinal) ==
  [turnNum |-> turnNum, outcome |-> outcome, isFinal |-> isFinal]

SignedState(state, sigs) == [state |-> state, sigs |-> sigs]

\* The map f with e for key x.
Put(f, x, e) == [y \in DOMAIN f \cup {x} |-> IF y = x THEN e ELSE f[y]]

\* A new channel holds the state it is made from, in the place of its prefund state,
\* and the postfund state, unsigned.
New(state, myIndex, numParticipants) ==
  [myIndex |-> myIndex, numParticipants |-> numParticipants,
   signedStateForTurnNum |->
     [n \in {PreFundTurnNum, PostFundTurnNum} |->
        SignedState(IF n = PreFundTurnNum THEN state ELSE [state EXCEPT !.turnNum = n], {})],
   latestSupportedStateTurnNum |-> NoSupportedState]

PreFundState(c) == c.signedStateForTurnNum[PreFundTurnNum].state
PostFundState(c) == c.signedStateForTurnNum[PostFundTurnNum].state

HasAllSignatures(c, turnNum) ==
  Cardinality(c.signedStateForTurnNum[turnNum].sigs) = c.numParticipants

PreFundSignedByMe(c) == c.myIndex \in c.signedStateForTurnNum[PreFundTurnNum].sigs
PostFundSignedByMe(c) == c.myIndex \in c.signedStateForTurnNum[PostFundTurnNum].sigs

\* A mutation of PreFundComplete: one signature may be missing.
PreFundAlmostComplete(c) ==
  Cardinality(c.signedStateForTurnNum[PreFundTurnNum].sigs) >= c.numParticipants - 1

PreFundComplete(c) == HasAllSignatures(c, PreFundTurnNum)
PostFundComplete(c) == HasAllSignatures(c, PostFundTurnNum)

\* The recorded state with the largest turn number, and the latest one that all signed.
LatestSignedState(c) ==
  c.signedStateForTurnNum[
    CHOOSE n \in DOMAIN c.signedStateForTurnNum :
      \A k \in DOMAIN c.signedStateForTurnNum : k <= n]
LatestSupportedState(c) == c.signedStateForTurnNum[c.latestSupportedStateTurnNum].state

\* AddSignedState returns true: the state is not older than the latest supported
\* one, and it is the state the channel has for that turn number, if it has one.
CanAddSignedState(c, ss) ==
  LET n == ss.state.turnNum
  IN  /\ c.latestSupportedStateTurnNum # NoSupportedState
           => n >= c.latestSupportedStateTurnNum
      /\ n \in DOMAIN c.signedStateForTurnNum
           => c.signedStateForTurnNum[n].state = ss.state

\* The signed states after SignedState.Merge, or after a first record for ss.
MergeSignatures(signed, ss) ==
  IF ss.state.turnNum \in DOMAIN signed
  THEN [signed EXCEPT ![ss.state.turnNum].sigs = @ \cup ss.sigs]
  ELSE Put(signed, ss.state.turnNum, ss)

AddSignedState(c, ss) ==
  IF ~CanAddSignedState(c, ss) THEN c
  ELSE LET n == ss.state.turnNum
           added == [c EXCEPT !.signedStateForTurnNum = MergeSignatures(@, ss)]
       IN  IF HasAllSignatures(added, n)
           THEN [added EXCEPT !.latestSupportedStateTurnNum = n]
           ELSE added

\* What SignAndAddState sends to the other participants.
SignedByMe(c, state) == SignedState(state, {c.myIndex})
=============================================================================
