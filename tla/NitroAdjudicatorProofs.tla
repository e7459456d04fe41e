----------------------- MODULE NitroAdjudicatorProofs -----------------------
(***************************************************************************)
(* The theorems about the contract, for any channels, histories, deposits  *)
(* and challenge durations: the life of a channel's status on chain, and   *)
(* what becomes of the funds.                                              *)
(***************************************************************************)
EXTENDS NitroAdjudicator, MultiAssetHolderProofs

-----------------------------------------------------------------------------
(* Writing a status *)

IsChannelData(v) == v = ChannelData(v.turnNumRecord, v.finalizesAt, v.stateHash, v.outcome)

SameFields(v, w) ==
  /\ v.turnNumRecord = w.turnNumRecord
  /\ v.finalizesAt = w.finalizesAt
  /\ v.stateHash = w.stateHash

\* Every record ChannelData makes has that form.
LEMMA MadeByChannelData ==
  ASSUME NEW t, NEW at, NEW h, NEW o
  PROVE  /\ IsChannelData(ChannelData(t, at, h, o))
         /\ ChannelData(t, at, h, o).turnNumRecord = t
         /\ ChannelData(t, at, h, o).finalizesAt = at
         /\ ChannelData(t, at, h, o).stateHash = h
  BY DEF IsChannelData, ChannelData

\* Writing the status of one channel.
LEMMA WriteStatus ==
  ASSUME NEW f, WellFormed(f), NEW c \in Channels, NEW v, IsChannelData(v)
  PROVE  /\ WellFormed([f EXCEPT ![c] = v])
         /\ [f EXCEPT ![c] = v][c] = v
         /\ \A d \in Channels \ {c} : [f EXCEPT ![c] = v][d] = f[d]
<1>1. f = [d \in Channels |-> f[d]] /\ DOMAIN f = Channels
  BY DEF WellFormed
<1>2. PICK g : g = [f EXCEPT ![c] = v]
  BY Zenon
<1>3. /\ g = [d \in Channels |-> g[d]]
      /\ g[c] = v
      /\ \A d \in Channels \ {c} : g[d] = f[d]
  BY <1>1, <1>2
<1>4. \A d \in Channels : IsChannelData(f[d])
  BY DEF WellFormed, IsChannelData
<1>5. \A d \in Channels : IsChannelData(g[d])
  BY <1>3, <1>4
<1>6. WellFormed(g)
  BY <1>3, <1>5 DEF WellFormed, IsChannelData
<1> QED BY <1>2, <1>3, <1>6

\* Writing the outcome of one channel.
LEMMA WriteOutcome ==
  ASSUME NEW f, WellFormed(f), NEW c \in Channels, NEW o
  PROVE  /\ WellFormed([f EXCEPT ![c].outcome = o])
         /\ \A d \in Channels : SameFields([f EXCEPT ![c].outcome = o][d], f[d])
<1>1. f[c] = ChannelData(f[c].turnNumRecord, f[c].finalizesAt, f[c].stateHash, f[c].outcome)
  BY DEF WellFormed
<1>2. PICK v : v = [f[c] EXCEPT !.outcome = o]
  BY Zenon
<1>3. v = ChannelData(f[c].turnNumRecord, f[c].finalizesAt, f[c].stateHash, o)
  BY <1>1, <1>2 DEF ChannelData
<1>4. IsChannelData(v) /\ SameFields(v, f[c])
  BY <1>3, MadeByChannelData DEF SameFields
<1>5. /\ WellFormed([f EXCEPT ![c] = v])
      /\ [f EXCEPT ![c] = v][c] = v
      /\ \A d \in Channels \ {c} : [f EXCEPT ![c] = v][d] = f[d]
  BY <1>4, WriteStatus
<1>6. [f EXCEPT ![c].outcome = o] = [f EXCEPT ![c] = v]
  BY <1>2
<1> QED BY <1>4, <1>5, <1>6 DEF SameFields

\* transferAllAssets writes the outcome of its channel or deletes its status.
LEMMA Liquidated ==
  ASSUME WellFormed(statusOf), NEW c \in Channels, NEW status, IsChannelData(status), NEW r,
         LiquidatesWith(c, status, r)
  PROVE  /\ now' = now /\ agreed' = agreed /\ WellFormed(statusOf')
         /\ \A d \in Channels \ {c} : statusOf'[d] = statusOf[d]
         /\ statusOf'[c] = Unwritten \/ SameFields(statusOf'[c], status)
<1>1. PICK v : /\ v = IF allocatesOnlyZeros(r.newAllocations) THEN Unwritten
                      ELSE [status EXCEPT !.outcome = r.newAllocations]
               /\ statusOf' = [statusOf EXCEPT ![c] = v]
  BY Zenon DEF LiquidatesWith
<1>2. IsChannelData(Unwritten)
  BY MadeByChannelData DEF Unwritten
<1>5. ASSUME IsChannelData(v)
      PROVE  /\ WellFormed(statusOf')
             /\ statusOf'[c] = v
             /\ \A d \in Channels \ {c} : statusOf'[d] = statusOf[d]
  <2>1. /\ WellFormed([statusOf EXCEPT ![c] = v])
        /\ [statusOf EXCEPT ![c] = v][c] = v
        /\ \A d \in Channels \ {c} : [statusOf EXCEPT ![c] = v][d] = statusOf[d]
    BY <1>5, WriteStatus
  <2> QED BY <1>1, <2>1
<1>3. CASE v = Unwritten
  BY <1>2, <1>3, <1>5 DEF LiquidatesWith
<1>4. CASE v = [status EXCEPT !.outcome = r.newAllocations]
  <2>1. v = ChannelData(status.turnNumRecord, status.finalizesAt, status.stateHash,
                        r.newAllocations)
    BY <1>4 DEF IsChannelData, ChannelData
  <2>2. IsChannelData(v) /\ SameFields(v, status)
    BY <2>1, MadeByChannelData DEF SameFields
  <2> QED BY <1>5, <2>2 DEF LiquidatesWith
<1> QED BY Zenon, <1>1, <1>3, <1>4

\* A payout writes outcomes, or deletes a status.
LEMMA PayoutWrites ==
  ASSUME WellFormed(statusOf), Payout
  PROVE  /\ now' = now /\ agreed' = agreed /\ WellFormed(statusOf')
         /\ \A c \in Channels : KeepsState(c) \/ statusOf'[c] = Unwritten
<1> DEFINE Goal == /\ now' = now /\ agreed' = agreed /\ WellFormed(statusOf')
                   /\ \A c \in Channels : KeepsState(c) \/ statusOf'[c] = Unwritten
<1>1. ASSUME NEW c \in Channels, TransferAllAssets(c) PROVE Goal
  <2>1. IsChannelData(statusOf[c])
    BY DEF WellFormed, IsChannelData
  <2>2. PICK r : LiquidatesWith(c, statusOf[c], r)
    BY <1>1 DEF TransferAllAssets, Liquidates
  <2>3. /\ now' = now /\ agreed' = agreed /\ WellFormed(statusOf')
        /\ \A d \in Channels \ {c} : statusOf'[d] = statusOf[d]
        /\ statusOf'[c] = Unwritten \/ SameFields(statusOf'[c], statusOf[c])
    BY <2>1, <2>2, Liquidated
  <2> QED BY <2>3 DEF SameFields, KeepsState
<1>2. ASSUME NEW c \in Channels, NEW indices, Transfer(c, indices) PROVE Goal
  <2>1. PICK r : TransfersWith(c, r)
    BY <1>2 DEF Transfer
  <2>2. /\ statusOf' = [statusOf EXCEPT ![c].outcome = r.newAllocations]
        /\ now' = now /\ agreed' = agreed
    BY <2>1 DEF TransfersWith
  <2>3. LET g == [statusOf EXCEPT ![c].outcome = r.newAllocations]
        IN  WellFormed(g) /\ \A d \in Channels : SameFields(g[d], statusOf[d])
    BY WriteOutcome
  <2> QED BY <2>2, <2>3 DEF SameFields, KeepsState
<1>3. ASSUME NEW c \in Channels, NEW n, NEW indices, Claim(c, n, indices),
             statusOf[c].outcome[n].destination \in Channels
      PROVE  Goal
  <2>1. PICK target, r : target \in Channels /\ ClaimsWith(c, n, target, r)
    BY <1>3 DEF Claim
  <2>2. PICK o : o = [statusOf[c].outcome EXCEPT ![n].amount = r.guaranteed]
    BY Zenon
  <2>3. PICK f : f = [statusOf EXCEPT ![c].outcome = o]
    BY Zenon
  <2>4. /\ statusOf' = [f EXCEPT ![target].outcome = r.newAllocations]
        /\ now' = now /\ agreed' = agreed
    BY <2>1, <2>2, <2>3 DEF ClaimsWith
  <2>5. /\ WellFormed(f)
        /\ \A d \in Channels : SameFields(f[d], statusOf[d])
    BY Zenon, <2>3, WriteOutcome
  <2>6. LET g == [f EXCEPT ![target].outcome = r.newAllocations]
        IN  WellFormed(g) /\ \A d \in Channels : SameFields(g[d], f[d])
    BY <2>1, <2>5, WriteOutcome
  <2> QED BY <2>4, <2>5, <2>6 DEF SameFields, KeepsState
<1> QED BY <1>1, <1>2, <1>3 DEF Payout

-----------------------------------------------------------------------------
(* The type of what is on record *)

\* A status that may be on record for channel c.
Recordable(c, v) ==
  /\ v.turnNumRecord \in 0..agreed[c]
  /\ v.stateHash \in {0, v.turnNumRecord}
  /\ v.finalizesAt \in 0..(MaxTime + 1)

\* Recording it preserves the type.
LEMMA WriteRecordable ==
  ASSUME StatusOK, NEW c \in Channels, now' = now, agreed' = agreed, WellFormed(statusOf'),
         \A d \in Channels \ {c} : statusOf'[d] = statusOf[d],
         Recordable(c, statusOf'[c])
  PROVE  StatusOK'
<1>1. \A d \in Channels : Recordable(d, statusOf'[d])
  BY DEF StatusOK, Recordable
<1> QED BY <1>1 DEF StatusOK, Recordable

\* The status of a channel that was never written to, or was paid out.
LEMMA UnwrittenRecordable ==
  ASSUME StatusOK, NEW c \in Channels
  PROVE  Recordable(c, Unwritten) /\ mode(Unwritten, now) # "Finalized"
<1>1. Unwritten.turnNumRecord = 0 /\ Unwritten.finalizesAt = 0 /\ Unwritten.stateHash = 0
  BY DEF Unwritten, ChannelData
<1>2. agreed[c] \in Nat /\ MaxTime \in Nat
  BY AdjudicatorAssumption DEF StatusOK
<1> QED BY <1>1, <1>2 DEF Recordable, mode

\* A challenge is not finalized when it is registered, since durations are positive.
LEMMA ChallengeRecordable ==
  ASSUME StatusOK, NEW c \in Channels, NEW t \in Turns(c), Supported(c, t),
         now + challengeDuration[c] <= MaxTime, NEW v,
         SameFields(v, challenge(now, t, NoOutcome, challengeDuration[c]))
  PROVE  Recordable(c, v) /\ mode(v, now) # "Finalized"
<1>1. now \in Nat /\ challengeDuration[c] \in Nat \ {0} /\ MaxTime \in Nat /\ Uint48 \in Nat
      /\ agreed[c] \in Nat /\ t \in Nat /\ t <= agreed[c] /\ Uint48 > MaxTime + 1
  BY AdjudicatorAssumption DEF StatusOK, Supported, latestSupportedState,
                               requireValidTurnTaking, Turns
<1>2. PICK at \in Nat : at = now + challengeDuration[c] /\ at > now /\ at <= MaxTime
  BY <1>1
<1>3. at % Uint48 = at
  BY <1>1, <1>2
<1>4. v.turnNumRecord = t /\ v.finalizesAt = at /\ v.stateHash = t
  BY <1>2, <1>3 DEF SameFields, challenge, ChannelData
<1> QED BY <1>1, <1>2, <1>4 DEF Recordable, mode

\* A checkpoint leaves the channel open.
LEMMA CheckpointRecordable ==
  ASSUME StatusOK, NEW c \in Channels, NEW t \in Turns(c), Supported(c, t)
  PROVE  Recordable(c, clearChallenge(t)) /\ mode(clearChallenge(t), now) # "Finalized"
<1>1. t \in 0..agreed[c] /\ MaxTime \in Nat
  BY AdjudicatorAssumption DEF StatusOK, Supported, latestSupportedState,
                               requireValidTurnTaking, Turns
<1>2. /\ clearChallenge(t).turnNumRecord = t /\ clearChallenge(t).finalizesAt = 0
      /\ clearChallenge(t).stateHash = 0
  BY DEF clearChallenge, ChannelData
<1> QED BY <1>1, <1>2 DEF Recordable, mode

\* A conclusion has no turn number.
LEMMA ConcludeRecordable ==
  ASSUME StatusOK, NEW c \in Channels, NEW o, NEW v, SameFields(v, conclude(now, o))
  PROVE  Recordable(c, v) /\ v.turnNumRecord = 0
<1>1. now \in 1..(MaxTime + 1) /\ MaxTime \in Nat /\ Uint48 \in Nat /\ Uint48 > MaxTime + 1
      /\ agreed[c] \in Nat
  BY AdjudicatorAssumption DEF StatusOK
<1>2. now % Uint48 = now
  BY <1>1
<1>3. v.turnNumRecord = 0 /\ v.finalizesAt = now /\ v.stateHash = 0
  BY <1>2 DEF SameFields, conclude, ChannelData
<1> QED BY <1>1, <1>3 DEF Recordable

\* A call of ForceMove for state t of channel c.
ForceMoves(c, t) ==
  Challenge(c, t) \/ Checkpoint(c, t) \/ Conclude(c, t) \/ ConcludeAndTransferAllAssets(c, t)

\* It writes the status of its own channel, which is not finalized before, and is
\* finalized after it only by a conclusion.
WritesOpen(c, t) ==
  /\ ~Finalized(c)
  /\ now' = now /\ agreed' = agreed /\ WellFormed(statusOf')
  /\ \A d \in Channels \ {c} : statusOf'[d] = statusOf[d]
  /\ Recordable(c, statusOf'[c])
  /\ mode(statusOf'[c], now) = "Finalized" =>
       Supported(c, t) /\ (OnlyFinal => History[c][t].isFinal) /\ statusOf'[c].turnNumRecord = 0

\* challenge, checkpoint and conclude write the status of an open channel only.
LEMMA ForceMoveWrites ==
  ASSUME StatusOK, NEW c \in Channels, NEW t \in Turns(c), ForceMoves(c, t)
  PROVE  WritesOpen(c, t)
<1>1. ~Finalized(c)
  BY DEF ForceMoves, Finalized, Mode, Challenge, Checkpoint, Conclude,
         ConcludeAndTransferAllAssets, CanChallenge, CanCheckpoint, CanConclude,
         requireChannelNotFinalized
<1>2. WellFormed(statusOf)
  BY DEF StatusOK
<1>3. ASSUME NEW v, IsChannelData(v), statusOf' = [statusOf EXCEPT ![c] = v],
             Recordable(c, v), now' = now, agreed' = agreed,
             mode(v, now) = "Finalized" =>
               Supported(c, t) /\ (OnlyFinal => History[c][t].isFinal) /\ v.turnNumRecord = 0
      PROVE  WritesOpen(c, t)
  <2>1. IsChannelData(v)
    BY <1>3
  <2>2. /\ WellFormed([statusOf EXCEPT ![c] = v])
        /\ [statusOf EXCEPT ![c] = v][c] = v
        /\ \A d \in Channels \ {c} : [statusOf EXCEPT ![c] = v][d] = statusOf[d]
    BY <1>2, <2>1, WriteStatus
  <2> QED BY <1>1, <1>3, <2>2 DEF WritesOpen
<1>4. CASE Challenge(c, t)
  <2>1. PICK v : v = challenge(now, t, History[c][t].outcome, challengeDuration[c])
    OBVIOUS
  <2>2. IsChannelData(v) /\ SameFields(v, challenge(now, t, NoOutcome, challengeDuration[c]))
    BY <2>1, MadeByChannelData DEF challenge, SameFields
  <2>3. Recordable(c, v) /\ mode(v, now) # "Finalized"
    BY <1>4, <2>2, ChallengeRecordable DEF Challenge
  <2> QED BY Zenon, <1>3, <1>4, <2>1, <2>2, <2>3 DEF Challenge
<1>5. CASE Checkpoint(c, t)
  <2>1. IsChannelData(clearChallenge(t))
    BY MadeByChannelData DEF clearChallenge
  <2>2. Recordable(c, clearChallenge(t)) /\ mode(clearChallenge(t), now) # "Finalized"
    BY <1>5, CheckpointRecordable DEF Checkpoint
  <2> QED BY Zenon, <1>3, <1>5, <2>1, <2>2 DEF Checkpoint
<1>6. CASE Conclude(c, t)
  <2>1. PICK v : v = conclude(now, History[c][t].outcome)
    OBVIOUS
  <2>2. IsChannelData(v) /\ SameFields(v, conclude(now, History[c][t].outcome))
    BY <2>1, MadeByChannelData DEF conclude, SameFields
  <2>3. Recordable(c, v) /\ v.turnNumRecord = 0
    BY <2>2, ConcludeRecordable
  <2> QED BY Zenon, <1>3, <1>6, <2>1, <2>2, <2>3 DEF Conclude
<1>7. CASE ConcludeAndTransferAllAssets(c, t)
  <2>1. PICK v, r : /\ v = conclude(now, History[c][t].outcome)
                    /\ LiquidatesWith(c, v, r)
    BY <1>7 DEF ConcludeAndTransferAllAssets, Liquidates
  <2>2. IsChannelData(v)
    BY <2>1, MadeByChannelData DEF conclude
  <2>3. /\ now' = now /\ agreed' = agreed /\ WellFormed(statusOf')
        /\ \A d \in Channels \ {c} : statusOf'[d] = statusOf[d]
        /\ statusOf'[c] = Unwritten \/ SameFields(statusOf'[c], v)
    BY <1>2, <2>1, <2>2, Liquidated
  <2>4. CASE statusOf'[c] = Unwritten
    BY <1>1, <2>3, <2>4, UnwrittenRecordable DEF WritesOpen
  <2>5. CASE SameFields(statusOf'[c], v)
    <3>1. Recordable(c, statusOf'[c]) /\ statusOf'[c].turnNumRecord = 0
      BY <2>1, <2>5, ConcludeRecordable
    <3> QED BY <1>1, <1>7, <2>3, <3>1 DEF WritesOpen, ConcludeAndTransferAllAssets
  <2> QED BY <2>3, <2>4, <2>5
<1> QED BY <1>4, <1>5, <1>6, <1>7 DEF ForceMoves

\* A step is a call of ForceMove, a payout, a deposit, or not of the chain.
LEMMA Steps ==
  ASSUME [Next]_vars
  PROVE  \/ UNCHANGED vars
         \/ Tick
         \/ \E c \in Channels : Agree(c)
         \/ \E c \in Channels : \E t \in Turns(c) : ForceMoves(c, t)
         \/ \E tx \in Deposits : Deposit(tx)
         \/ Payout
BY Zenon DEF Next, ForceMoves

\* Every step preserves the type of what is on record.
LEMMA StatusStep == StatusOK /\ [Next]_vars => StatusOK'
<1> SUFFICES ASSUME StatusOK, [Next]_vars PROVE StatusOK'
  OBVIOUS
<1>1. CASE UNCHANGED <<now, agreed, statusOf>>
  BY <1>1 DEF StatusOK
<1>2. CASE Tick
  <2>1. now \in 1..(MaxTime + 1) /\ MaxTime \in Nat /\ now <= MaxTime /\ now' = now + 1
    BY <1>2, AdjudicatorAssumption DEF StatusOK, Tick
  <2>2. statusOf' = statusOf /\ agreed' = agreed
    BY <1>2 DEF Tick
  <2> QED BY <2>1, <2>2 DEF StatusOK
<1>3. ASSUME NEW c \in Channels, Agree(c) PROVE StatusOK'
  <2>1. /\ now' = now /\ statusOf' = statusOf /\ agreed' = [agreed EXCEPT ![c] = @ + 1]
        /\ agreed[c] < Len(History[c])
    BY <1>3 DEF Agree
  <2>2. agreed \in [Channels -> Nat] /\ \A d \in Channels : Len(History[d]) \in Nat
    BY AdjudicatorAssumption DEF StatusOK
  <2>3. agreed' \in [Channels -> Nat] /\ \A d \in Channels : agreed[d] <= agreed'[d]
    BY <2>1, <2>2
  <2>4. \A d \in Channels : agreed'[d] <= Len(History[d])
    BY <2>1, <2>2 DEF StatusOK
  <2> QED BY <2>1, <2>2, <2>3, <2>4 DEF StatusOK
<1>4. ASSUME NEW c \in Channels, NEW t \in Turns(c), ForceMoves(c, t) PROVE StatusOK'
  BY <1>4, ForceMoveWrites, WriteRecordable DEF WritesOpen
<1>5. CASE Payout
  <2>1. /\ now' = now /\ agreed' = agreed /\ WellFormed(statusOf')
        /\ \A c \in Channels : KeepsState(c) \/ statusOf'[c] = Unwritten
    BY <1>5, PayoutWrites DEF StatusOK
  <2>2. \A c \in Channels : Recordable(c, statusOf'[c])
    BY <2>1, UnwrittenRecordable DEF KeepsState, StatusOK, Recordable
  <2> QED BY <2>1, <2>2 DEF StatusOK, Recordable
<1>6. ASSUME NEW tx \in Deposits, Deposit(tx) PROVE StatusOK'
  BY <1>1, <1>6 DEF Deposit
<1> QED BY Steps, <1>1, <1>2, <1>3, <1>4, <1>5, <1>6 DEF vars

\* The statuses are well formed at first.
LEMMA StatusInit == Init => StatusOK
<1> SUFFICES ASSUME Init PROVE StatusOK
  OBVIOUS
<1>1. \A c \in Channels : statusOf[c] = Unwritten
  BY DEF Init
<1>2. Unwritten.turnNumRecord = 0 /\ Unwritten.finalizesAt = 0 /\ Unwritten.stateHash = 0
  BY DEF Unwritten, ChannelData
<1>3. WellFormed(statusOf)
  <2>1. \A c \in Channels : IsChannelData(statusOf[c])
    BY <1>1, MadeByChannelData DEF Unwritten
  <2>2. statusOf = [c \in Channels |-> statusOf[c]]
    BY DEF Init
  <2> QED BY <2>1, <2>2 DEF WellFormed, IsChannelData
<1> QED BY <1>1, <1>2, <1>3, AdjudicatorAssumption DEF StatusOK, Init

-----------------------------------------------------------------------------
(* The latest agreed state wins *)

\* The inductive invariant: the statement itself, the types it needs, and what it
\* assumes of the callers.
Latest == StatusOK /\ LatestAgreedWins /\ Watchful = TRUE /\ OnlyFinal = TRUE

\* A channel with status v is finalized, if at all, with the latest agreed state.
Settles(c, v) ==
  mode(v, now) = "Finalized" =>
    \/ v.turnNumRecord = agreed[c]
    \/ v.turnNumRecord = 0 /\ agreed[c] > 0 /\ History[c][agreed[c]].isFinal

\* What a call of ForceMove finalizes is the final state, and the latest.
LEMMA ForceMoveSettles ==
  ASSUME Latest, NEW c \in Channels, NEW t \in Turns(c), WritesOpen(c, t)
  PROVE  Settles(c, statusOf'[c])
<1> SUFFICES ASSUME mode(statusOf'[c], now) = "Finalized"
             PROVE  statusOf'[c].turnNumRecord = 0 /\ agreed[c] > 0 /\ History[c][agreed[c]].isFinal
  BY DEF Settles
<1>1. Supported(c, t) /\ History[c][t].isFinal /\ statusOf'[c].turnNumRecord = 0
  BY DEF WritesOpen, Latest
<1>2. t \in Nat \ {0} /\ t <= agreed[c] /\ agreed[c] \in Nat
      /\ agreed[c] <= Len(History[c]) /\ Len(History[c]) \in Nat
  BY <1>1, AdjudicatorAssumption DEF Latest, StatusOK, Supported, latestSupportedState,
                                     requireValidTurnTaking, Turns
<1>3. t = Len(History[c])
  BY <1>1, FinalIsLast
<1>4. agreed[c] = t
  BY <1>2, <1>3
<1> QED BY <1>1, <1>2, <1>4

\* Time preserves the invariant: outdated challenges were answered before it passes.
LEMMA TickStep == ASSUME Latest, Tick PROVE LatestAgreedWins'
<1>1. now \in 1..(MaxTime + 1) /\ MaxTime \in Nat /\ now <= MaxTime /\ now' = now + 1
  BY AdjudicatorAssumption DEF Latest, StatusOK, Tick
<1>2. statusOf' = statusOf /\ agreed' = agreed
  BY DEF Tick
<1>3. ASSUME NEW c \in Channels, Finalized(c)'
      PROVE  \/ statusOf[c].turnNumRecord = agreed[c]
             \/ statusOf[c].turnNumRecord = 0 /\ agreed[c] > 0 /\ History[c][agreed[c]].isFinal
  <2>1. CASE Finalized(c)
    BY <2>1 DEF Latest, LatestAgreedWins
  <2>2. CASE ~Finalized(c)
    <3>1. /\ statusOf[c].finalizesAt \in 0..(MaxTime + 1)
          /\ statusOf[c].turnNumRecord \in 0..agreed[c] /\ agreed[c] \in Nat
      BY DEF Latest, StatusOK
    <3>2. statusOf[c].finalizesAt = now + 1 /\ Mode(c) = "Challenge"
      BY <1>1, <1>2, <1>3, <2>2, <3>1 DEF Finalized, Mode, mode
    <3>3. ~Overdue(c)
      BY DEF Tick, Latest
    <3> QED BY <3>1, <3>2, <3>3 DEF Overdue
  <2> QED BY <2>1, <2>2
<1> QED BY <1>2, <1>3 DEF LatestAgreedWins

\* Every step preserves the invariant.
LEMMA LatestStep == Latest /\ [Next]_vars => Latest'
<1> SUFFICES ASSUME Latest, [Next]_vars PROVE LatestAgreedWins'
  BY StatusStep DEF Latest
<1>1. CASE UNCHANGED <<now, agreed, statusOf>>
  BY <1>1 DEF Latest, LatestAgreedWins, Finalized, Mode
<1>2. ASSUME NEW c \in Channels, Agree(c) PROVE LatestAgreedWins'
  BY <1>2 DEF Agree, Latest, LatestAgreedWins, StatusOK, Finalized, Mode
<1>3. \A c \in Channels : Settles(c, statusOf[c])
  BY DEF Latest, LatestAgreedWins, Finalized, Mode, Settles
<1>4. ASSUME now' = now, agreed' = agreed, \A c \in Channels : Settles(c, statusOf'[c])
      PROVE  LatestAgreedWins'
  BY <1>4 DEF LatestAgreedWins, Finalized, Mode, Settles
<1>5. ASSUME NEW c \in Channels, NEW t \in Turns(c), ForceMoves(c, t) PROVE LatestAgreedWins'
  <2>1. WritesOpen(c, t)
    BY <1>5, ForceMoveWrites DEF Latest
  <2>2. Settles(c, statusOf'[c])
    BY <2>1, ForceMoveSettles
  <2> QED BY <1>3, <1>4, <2>1, <2>2 DEF WritesOpen
<1>6. CASE Payout
  <2>1. /\ now' = now /\ agreed' = agreed
        /\ \A c \in Channels : KeepsState(c) \/ statusOf'[c] = Unwritten
    BY <1>6, PayoutWrites DEF Latest, StatusOK
  <2>2. \A c \in Channels : Settles(c, statusOf'[c])
    <3>1. \A c \in Channels : mode(Unwritten, now) # "Finalized"
      BY UnwrittenRecordable DEF Latest
    <3> QED BY <1>3, <2>1, <3>1 DEF KeepsState, Settles, mode
  <2> QED BY <1>4, <2>1, <2>2
<1>7. ASSUME NEW tx \in Deposits, Deposit(tx) PROVE LatestAgreedWins'
  BY <1>1, <1>7 DEF Deposit
<1> QED BY Steps, <1>1, <1>2, <1>5, <1>6, <1>7, TickStep DEF vars

\* If participants answer outdated challenges in time and call conclude with final
\* states only, no channel is ever finalized with a state that is not the latest all of
\* them signed: for any number of channels, any histories and positive durations, as
\* long as times fit their 48 bits.
THEOREM AlwaysLatest == Watchful = TRUE /\ OnlyFinal = TRUE /\ Spec => []LatestAgreedWins
<1>1. Watchful = TRUE /\ OnlyFinal = TRUE /\ Init => Latest
  <2> SUFFICES ASSUME Watchful = TRUE, OnlyFinal = TRUE, Init PROVE Latest
    OBVIOUS
  <2>1. \A c \in Channels : statusOf[c] = Unwritten
    BY DEF Init
  <2>2. LatestAgreedWins
    BY <2>1, StatusInit, UnwrittenRecordable DEF LatestAgreedWins, Finalized, Mode
  <2> QED BY <2>2, StatusInit DEF Latest
<1>2. Latest => LatestAgreedWins
  BY DEF Latest
<1> QED BY <1>1, <1>2, LatestStep, PTL DEF Spec

-----------------------------------------------------------------------------
(* Finality, whatever the callers do *)

\* What a step may do to a finalized channel.
LEMMA FinalizedStep ==
  ASSUME StatusOK, [Next]_vars
  PROVE  \A c \in Channels : Finalized(c) => KeepsState(c) \/ statusOf'[c] = Unwritten
<1> DEFINE Goal == \A c \in Channels : Finalized(c) => KeepsState(c) \/ statusOf'[c] = Unwritten
<1>1. CASE UNCHANGED statusOf
  BY <1>1 DEF KeepsState
<1>2. CASE Payout
  BY <1>2, PayoutWrites DEF StatusOK
<1>3. ASSUME NEW c \in Channels, NEW t \in Turns(c), ForceMoves(c, t) PROVE Goal
  BY <1>3, ForceMoveWrites DEF WritesOpen, KeepsState
<1>4. ASSUME NEW c \in Channels, Agree(c) PROVE Goal
  BY <1>1, <1>4 DEF Agree
<1>5. CASE Tick
  BY <1>1, <1>5 DEF Tick
<1>6. ASSUME NEW tx \in Deposits, Deposit(tx) PROVE Goal
  BY <1>1, <1>6 DEF Deposit
<1> QED BY Steps, <1>1, <1>2, <1>3, <1>4, <1>5, <1>6 DEF vars

\* What was finalized stays finalized with the same state until its status is deleted,
\* whoever calls what.
THEOREM NeverUnsettled == Spec => StaysFinalized
<1>1. StatusOK /\ [Next]_vars =>
        [\A c \in Channels : Finalized(c) => KeepsState(c) \/ statusOf'[c] = Unwritten]_vars
  BY FinalizedStep
<1> QED BY <1>1, StatusInit, StatusStep, PTL DEF Spec, StaysFinalized

-----------------------------------------------------------------------------
(* What becomes of the funds *)

\* What an exit sends is all sent to channels or to external destinations.
LEMMA SentSomewhere ==
  ASSUME NEW allocations \in Seq(Entry(Destinations)), NEW exit \in [DOMAIN allocations -> Amount],
         NEW G, G = [b \in Channels |-> SentTo(allocations, exit, b)],
         NEW E, E = [d \in Externals |-> SentTo(allocations, exit, d)]
  PROVE  /\ SumOf(G, Channels) + SumOf(E, Externals) = SumOf(exit, DOMAIN allocations)
         /\ \A b \in Channels : G[b] \in Nat
         /\ \A d \in Externals : E[d] \in Nat
<1> DEFINE S == DOMAIN allocations
           key == [i \in S |-> allocations[i].destination]
           F == Parts(exit, S, key, Destinations)
<1>1. IsFiniteSet(S) /\ \A i \in S : allocations[i] \in Entry(Destinations)
  BY AmountsOfType
<1>2. /\ \A i \in S : key[i] \in Destinations
      /\ \A i \in S : exit[i] \in Nat /\ exit[i] \in Int
  BY <1>1, EntryType, AmountIsNat
<1>3. /\ IsFiniteSet(Channels) /\ IsFiniteSet(Externals) /\ IsFiniteSet(Destinations)
      /\ Channels \cap Externals = {}
  BY Zenon, OutcomesAssumption, FS_Union DEF Destinations
<1>4. SumOf(F, Destinations) = SumOf(exit, S)
  <2>1. HasParts(exit, S, key, Destinations)
    BY <1>2 DEF HasParts
  <2> HIDE DEF S, key
  <2> QED BY <1>1, <1>3, <2>1, SumOfParts
<1>5. ASSUME NEW d \in Destinations
      PROVE  F[d] = SentTo(allocations, exit, d) /\ F[d] \in Nat
  <2>1. PICK T : T = {i \in S : allocations[i].destination = d}
    BY Zenon
  <2>2. PartOf(S, key, d) = T
    BY <2>1 DEF PartOf
  <2>3. F[d] = SumOf(exit, T)
    BY <2>2 DEF Parts
  <2>4. SentTo(allocations, exit, d) = SumOf(exit, T)
    BY <2>1 DEF SentTo
  <2>5. T \subseteq S /\ \A i \in T : exit[i] \in Nat
    BY <1>2, <2>1
  <2>6. IsFiniteSet(T)
    BY Zenon, <1>1, <2>5, FS_Subset
  <2>7. SumOf(exit, T) \in Nat
    BY Zenon, <2>5, <2>6, SumNat
  <2> QED BY <2>3, <2>4, <2>7
<1> HIDE DEF F
<1>6. SumOf(F, Destinations) = SumOf(F, Channels) + SumOf(F, Externals)
  <2>1. \A d \in Channels \cup Externals : F[d] \in Int
    BY <1>5 DEF Destinations
  <2> QED BY Zenon, <1>3, <2>1, SumUnion DEF Destinations
<1>7. /\ \A b \in Channels : G[b] = F[b] /\ F[b] \in Nat
      /\ \A d \in Externals : E[d] = F[d] /\ F[d] \in Nat
  BY <1>5 DEF Destinations
<1>8. SumOf(G, Channels) = SumOf(F, Channels) /\ SumOf(E, Externals) = SumOf(F, Externals)
  BY Zenon, <1>3, <1>7, SumSame
<1> QED BY <1>4, <1>6, <1>7, <1>8

\* A payout of an exit that the holdings cover moves funds and neither makes nor loses
\* any: no subtraction and no addition wraps around.
LEMMA PaysConserves ==
  ASSUME TypeOK, Total < Uint256, NEW c \in Channels,
         NEW allocations \in Seq(Entry(Destinations)), NEW exit \in [DOMAIN allocations -> Amount],
         NEW total, total = SumOf(exit, DOMAIN allocations), total \in Nat, total <= holdings[c],
         Pays(c, total, allocations, exit)
  PROVE  /\ holdings' \in [Channels -> 0..(Uint256 - 1)]
         /\ paid' \in [Externals -> Nat]
         /\ Total' = Total
         /\ holdings'[c] = holdings[c] - total + SentTo(allocations, exit, c)
<1>1. PICK G, E : /\ G = [b \in Channels |-> SentTo(allocations, exit, b)]
                  /\ E = [d \in Externals |-> SentTo(allocations, exit, d)]
  BY Zenon
<1>2. /\ SumOf(G, Channels) + SumOf(E, Externals) = total
      /\ \A b \in Channels : G[b] \in Nat
      /\ \A d \in Externals : E[d] \in Nat
  BY <1>1, SentSomewhere
<1>3. PICK base : base = [b \in Channels |-> IF b = c THEN holdings[c] - total ELSE holdings[b]]
  BY Zenon
<1>4. PICK H : H = [b \in Channels |-> base[b] + G[b]]
  BY Zenon
<1>5. PICK P : P = [d \in Externals |-> paid[d] + E[d]]
  BY Zenon
<1>6. /\ IsFiniteSet(Channels) /\ IsFiniteSet(Externals)
      /\ \A b \in Channels : holdings[b] \in Nat /\ holdings[b] \in Amount /\ base[b] \in Nat
      /\ \A d \in Externals : paid[d] \in Nat
  BY <1>3, OutcomesAssumption, Uint256Assumption DEF TypeOK, Amount
<1>7. SumOf(base, Channels) = SumOf(holdings, Channels) - total
  <2>1. Replaced(holdings, base, c, Channels)
    BY <1>3, <1>6 DEF Replaced
  <2>2. SumOf(base, Channels) = SumOf(holdings, Channels) - holdings[c] + base[c]
    BY ZenonT(30), <1>6, <2>1, SumReplace
  <2>3. SumOf(holdings, Channels) \in Nat
    BY Zenon, <1>6, SumNat
  <2> QED BY SMTT(20), <1>3, <1>6, <2>2, <2>3
<1>8. SumOf(H, Channels) = SumOf(base, Channels) + SumOf(G, Channels)
  <2>1. \A b \in Channels : base[b] \in Int /\ G[b] \in Int /\ H[b] = base[b] + G[b]
    BY <1>2, <1>4, <1>6
  <2> QED BY Zenon, <1>6, <2>1, SumPlus
<1>9. SumOf(P, Externals) = SumOf(paid, Externals) + SumOf(E, Externals)
  <2>1. \A d \in Externals : paid[d] \in Int /\ E[d] \in Int /\ P[d] = paid[d] + E[d]
    BY <1>2, <1>5, <1>6
  <2> QED BY Zenon, <1>6, <2>1, SumPlus
<1>10. /\ SumOf(holdings, Channels) \in Nat /\ SumOf(paid, Externals) \in Nat
       /\ SumOf(G, Channels) \in Nat /\ SumOf(E, Externals) \in Nat
  BY Zenon, <1>2, <1>6, SumNat
<1>11. /\ \A b \in Channels : H[b] \in Nat /\ H[b] = base[b] + G[b]
       /\ \A d \in Externals : P[d] \in Nat
  BY <1>2, <1>4, <1>5, <1>6
<1>12. SumOf(H, Channels) \in Nat /\ SumOf(P, Externals) \in Nat
       /\ \A b \in Channels : H[b] <= SumOf(H, Channels)
  BY Zenon, <1>6, <1>11, SumNat
<1>13. SumOf(H, Channels) + SumOf(P, Externals) = Total
  BY <1>2, <1>7, <1>8, <1>9, <1>10 DEF Total
<1>14. \A b \in Channels : H[b] \in Amount
  <2>1. SumOf(H, Channels) < Uint256
    BY <1>12, <1>13, Uint256Assumption
  <2> QED BY <1>11, <1>12, <2>1, Uint256Assumption DEF Amount
<1>15. holdings' = H
  <2>1. Minus(holdings[c], total) = holdings[c] - total
    BY <1>6, Reduced
  <2>2. \A b \in Channels : Plus(base[b], G[b]) = H[b]
    <3>1. \A b \in Channels : base[b] \in Int /\ G[b] \in Int /\ base[b] + G[b] \in Amount
      BY SMTT(20), <1>2, <1>6, <1>11, <1>14
    <3> QED BY SMTT(20), <1>11, <3>1, Exact
  <2>3. \A b \in Channels :
          Plus(IF b = c THEN Minus(holdings[b], total) ELSE holdings[b],
               SentTo(allocations, exit, b)) = H[b]
    BY SMTT(20), <1>1, <1>3, <2>1, <2>2
  <2>4. holdings' = [b \in Channels |->
          Plus(IF b = c THEN Minus(holdings[b], total) ELSE holdings[b],
               SentTo(allocations, exit, b))]
    BY DEF Pays
  <2>5. holdings' = [b \in Channels |-> H[b]]
    BY Zenon, <2>3, <2>4
  <2> QED BY <1>4, <2>5
<1>16. paid' = P
  <2>1. paid' = [d \in Externals |-> paid[d] + SentTo(allocations, exit, d)]
    BY DEF Pays
  <2> QED BY <1>1, <1>5, <2>1
<1>17. holdings'[c] = holdings[c] - total + SentTo(allocations, exit, c)
  BY <1>1, <1>3, <1>4, <1>15
<1>18. Total' = Total
  BY Zenon, <1>13, <1>15, <1>16 DEF Total
<1>19. holdings' \in [Channels -> 0..(Uint256 - 1)]
  BY <1>4, <1>14, <1>15 DEF Amount
<1>20. paid' \in [Externals -> Nat]
  BY <1>5, <1>11, <1>16
<1> QED BY <1>17, <1>18, <1>19, <1>20

\* new is outcome old with lesser amounts.
Reduces(new, old) ==
  /\ new = [i \in DOMAIN old |-> [old[i] EXCEPT !.amount = new[i].amount]]
  /\ \A i \in DOMAIN old : new[i].amount \in Amount /\ new[i].amount <= old[i].amount

\* An outcome with smaller amounts is one the channel may have.
LEMMA ReducedOutcome ==
  ASSUME NEW c, NEW old \in Outcomes(c), NEW new, Reduces(new, old)
  PROVE  new \in Outcomes(c)
<1>1. /\ old \in Seq(Entry(Destinations))
      /\ \A i \in DOMAIN old :
           /\ old[i].destination # c
           /\ isGuarantee(old[i]) =>
                /\ old[i].destination \in Channels
                /\ \A j, k \in DOMAIN old[i].metadata : old[i].metadata[j] = old[i].metadata[k] => j = k
  BY DEF Outcomes
<1>2. DOMAIN old = 1..Len(old) /\ Len(old) \in Nat /\ \A i \in DOMAIN old : old[i] \in Entry(Destinations)
  BY <1>1
<1>3. \A i \in DOMAIN old : new[i] = [old[i] EXCEPT !.amount = new[i].amount] /\ new[i].amount \in Amount
  BY Zenon DEF Reduces
<1>4. DOMAIN new = DOMAIN old
  BY Zenon DEF Reduces
<1>5. ASSUME NEW i \in DOMAIN old
      PROVE  /\ new[i] \in Entry(Destinations)
             /\ new[i].destination = old[i].destination
             /\ new[i].metadata = old[i].metadata
             /\ isGuarantee(new[i]) = isGuarantee(old[i])
  <2>1. PICK e, a : e = old[i] /\ a = new[i].amount
    OBVIOUS
  <2>2. e \in Entry(Destinations) /\ a \in Amount /\ new[i] = [e EXCEPT !.amount = a]
    BY <1>2, <1>3, <2>1
  <2>3. /\ [e EXCEPT !.amount = a] \in Entry(Destinations)
        /\ [e EXCEPT !.amount = a].destination = e.destination
        /\ [e EXCEPT !.amount = a].metadata = e.metadata
        /\ [e EXCEPT !.amount = a].allocationType = e.allocationType
    BY <2>2 DEF Entry
  <2> QED BY <2>1, <2>2, <2>3 DEF isGuarantee
<1>6. new = [i \in DOMAIN old |-> new[i]]
  BY Zenon, <1>3 DEF Reduces
<1>7. new \in [1..Len(old) -> Entry(Destinations)]
  BY Zenon, <1>2, <1>5, <1>6
<1>8. new \in Seq(Entry(Destinations))
  BY <1>2, <1>7
<1> QED BY <1>1, <1>4, <1>5, <1>8 DEF Outcomes

\* What is paid is taken off.
TakenOff(new, old, exit) ==
  \A j \in DOMAIN old : new[j] = [old[j] EXCEPT !.amount = old[j].amount - exit[j]]

\* To take off what was paid makes amounts smaller.
LEMMA TakenOffReduces ==
  ASSUME NEW old \in Seq(Entry(Destinations)), NEW new \in [DOMAIN old -> Entry(Destinations)],
         NEW exit \in [DOMAIN old -> Amount], TakenOff(new, old, exit)
  PROVE  Reduces(new, old) /\ \A j \in DOMAIN old : new[j].amount = old[j].amount - exit[j]
<1>1. ASSUME NEW j \in DOMAIN old
      PROVE  /\ new[j].amount = old[j].amount - exit[j]
             /\ new[j].amount \in Amount
             /\ new[j].amount <= old[j].amount
             /\ new[j] = [old[j] EXCEPT !.amount = new[j].amount]
  <2>1. old[j] \in Entry(Destinations) /\ old[j].amount \in Nat
    BY AmountsOfType
  <2>2. new[j] \in Entry(Destinations) /\ exit[j] \in Nat
    BY AmountIsNat
  <2>3. PICK a : a = old[j].amount - exit[j]
    OBVIOUS
  <2>4. new[j] = [old[j] EXCEPT !.amount = a]
    BY <2>3 DEF TakenOff
  <2>5. new[j].amount = a
    BY <2>1, <2>4 DEF Entry
  <2>6. new[j].amount \in Amount
    BY <2>2, EntryType
  <2>7. a <= old[j].amount
    BY <2>1, <2>2, <2>3
  <2> QED BY <2>3, <2>4, <2>5, <2>6, <2>7
<1>2. new = [i \in DOMAIN old |-> new[i]]
  OBVIOUS
<1>3. new = [i \in DOMAIN old |-> [old[i] EXCEPT !.amount = new[i].amount]]
  BY Zenon, <1>1, <1>2
<1>4. Reduces(new, old)
  BY Zenon, <1>1, <1>3 DEF Reduces
<1> QED BY Zenon, <1>1, <1>4

\* What a transfer of channel c takes from its holdings and its outcome.
TransferTakes(c, h, o, r) ==
  /\ r.exit \in [DOMAIN o -> Amount]
  /\ r.totalPayouts = SumOf(r.exit, DOMAIN o) /\ r.totalPayouts \in Nat /\ r.totalPayouts <= h
  /\ Reduces(r.newAllocations, o)
  /\ SentTo(o, r.exit, c) = 0
  /\ allocatesOnlyZeros(r.newAllocations) => r.totalPayouts = SumOf(AmountsOf(o), DOMAIN o)

\* What transfer takes off the outcome is what it pays.
LEMMA TransferEffect ==
  ASSUME NEW c \in Channels, NEW o \in Outcomes(c), NEW h \in Amount,
         NEW indices \in Seq(Nat \ {0}), IncreasingIndices(indices)
  PROVE  TransferTakes(c, h, o, compute_transfer_effects_and_interactions(h, o, indices))
<1>1. o \in Seq(Entry(Destinations)) /\ \A i \in DOMAIN o : o[i].destination # c
  BY DEF Outcomes
<1>2. PICK r : r = compute_transfer_effects_and_interactions(h, o, indices)
  OBVIOUS
<1>3. /\ r \in TransferStates(o, Destinations)
      /\ TransferredTo(h, o, indices, r, Len(o))
  BY Zenon, <1>1, <1>2, TransferResult
<1>4. /\ r.exit \in [DOMAIN o -> Amount] /\ r.totalPayouts \in Nat /\ r.surplus \in Nat
      /\ r.newAllocations \in [DOMAIN o -> Entry(Destinations)] /\ h \in Nat
  BY <1>3, AmountIsNat DEF TransferStates
<1>5. /\ r.totalPayouts = SumOf(r.exit, DOMAIN o)
      /\ r.totalPayouts + r.surplus <= h
      /\ \A j \in DOMAIN o :
           r.newAllocations[j] = [o[j] EXCEPT !.amount = o[j].amount - r.exit[j]]
  BY <1>3 DEF TransferredTo
<1>6. /\ Reduces(r.newAllocations, o)
      /\ \A j \in DOMAIN o : r.newAllocations[j].amount = o[j].amount - r.exit[j]
  <2>1. TakenOff(r.newAllocations, o, r.exit)
    BY Zenon, <1>5 DEF TakenOff
  <2> QED BY SMTT(20), <1>1, <1>4, <2>1, TakenOffReduces
<1>7. \A j \in DOMAIN o :
        AmountsOf(o)[j] = o[j].amount /\ o[j].amount \in Nat /\ r.exit[j] \in Nat
  BY <1>1, <1>4, AmountsOfType, AmountIsNat
<1>8. SentTo(o, r.exit, c) = 0
  <2>1. {i \in DOMAIN o : o[i].destination = c} = {}
    BY <1>1
  <2> QED BY Zenon, <2>1, SumOfNone DEF SentTo
<1>9. ASSUME allocatesOnlyZeros(r.newAllocations)
      PROVE  r.totalPayouts = SumOf(AmountsOf(o), DOMAIN o)
  <2>1. DOMAIN r.newAllocations = DOMAIN o
    BY <1>4
  <2>2. \A j \in DOMAIN o : r.newAllocations[j].amount = 0
    BY <1>9, <2>1 DEF allocatesOnlyZeros
  <2>3. ASSUME NEW j \in DOMAIN o PROVE r.exit[j] = AmountsOf(o)[j]
    <3>1. o[j].amount - r.exit[j] = 0 /\ o[j].amount \in Nat /\ r.exit[j] \in Nat
      BY <1>6, <1>7, <2>2
    <3>2. r.exit[j] = o[j].amount
      BY <3>1
    <3> QED BY <1>7, <3>2
  <2>4. IsFiniteSet(DOMAIN o)
    BY <1>1, AmountsOfType
  <2>5. SumOf(r.exit, DOMAIN o) = SumOf(AmountsOf(o), DOMAIN o)
    BY Zenon, <2>3, <2>4, SumSame
  <2> QED BY <1>5, <2>5
<1>10. r.totalPayouts <= h
  BY <1>4, <1>5
<1>11. TransferTakes(c, h, o, r)
  BY Zenon, <1>4, <1>5, <1>6, <1>8, <1>9, <1>10 DEF TransferTakes
<1> QED BY Zenon, <1>2, <1>11

\* What a claim of entry n takes from the holdings and the outcomes of both channels.
ClaimTakes(h, source, target, n, r) ==
  /\ r.exit \in [DOMAIN target -> Amount]
  /\ r.totalPayouts = SumOf(r.exit, DOMAIN target) /\ r.totalPayouts \in Nat /\ r.totalPayouts <= h
  /\ Reduces(r.newAllocations, target)
  /\ r.guaranteed \in Amount /\ r.guaranteed <= source[n].amount

\* What claim takes off the guarantee and off the target is what it pays.
LEMMA ClaimEffect ==
  ASSUME NEW source \in Seq(Entry(Destinations)), NEW target \in Seq(Entry(Destinations)),
         NEW h \in Amount, NEW n \in DOMAIN source, Injective(source[n].metadata), NEW indices
  PROVE  ClaimTakes(h, source, target, n,
                    compute_claim_effects_and_interactions(h, source, target, n, indices))
<1> DEFINE available == Share(AmountsOf(source), h, n)
           m == source[n].metadata
<1>1. PICK r : r = compute_claim_effects_and_interactions(h, source, target, n, indices)
  OBVIOUS
<1>2. /\ r \in ClaimStates(target, Destinations)
      /\ ClaimedTo(available, source[n], target, indices, r, Len(m))
  BY Zenon, <1>1, ClaimResult
<1>3. /\ r.exit \in [DOMAIN target -> Amount] /\ r.totalPayouts \in Nat /\ r.surplus \in Nat
      /\ r.newAllocations \in [DOMAIN target -> Entry(Destinations)] /\ h \in Nat
      /\ r.guaranteed \in Amount /\ r.guaranteed \in Nat
  BY <1>2, AmountIsNat DEF ClaimStates
<1>4. /\ r.totalPayouts = SumOf(r.exit, DOMAIN target)
      /\ r.totalPayouts + r.surplus <= available
      /\ r.guaranteed = source[n].amount - r.totalPayouts
      /\ \A i \in DOMAIN target :
           r.newAllocations[i] = [target[i] EXCEPT !.amount = target[i].amount - r.exit[i]]
  BY <1>2 DEF ClaimedTo
<1>5. available \in Nat /\ available <= h
  <2>1. SharesOut(AmountsOf(source), h, Len(source))
    <3>1. Len(source) \in Nat /\ h \in Nat /\ \A i \in 1..Len(source) : AmountsOf(source)[i] \in Nat
      BY AmountsOfType, AmountIsNat
    <3> QED BY Zenon, <3>1, LeftStep
  <2>2. n \in 1..Len(source) /\ n - 1 \in 0..Len(source)
    BY AmountsOfType
  <2>3. /\ available = Lesser(AmountsOf(source)[n], Left(AmountsOf(source), h, n - 1))
        /\ Left(AmountsOf(source), h, n - 1) \in 0..h
    BY <2>1, <2>2 DEF SharesOut
  <2>4. AmountsOf(source)[n] \in Nat
    BY AmountsOfType
  <2> HIDE DEF available
  <2> QED BY <1>3, <2>3, <2>4 DEF Lesser
<1>6. r.totalPayouts <= h
  <2> HIDE DEF available
  <2> QED BY <1>3, <1>4, <1>5
<1>7. r.guaranteed <= source[n].amount
  <2>1. source[n].amount \in Nat
    BY AmountsOfType
  <2> QED BY <1>3, <1>4, <2>1
<1>8. Reduces(r.newAllocations, target)
  <2>1. TakenOff(r.newAllocations, target, r.exit)
    BY Zenon, <1>4 DEF TakenOff
  <2> QED BY <1>3, <2>1, TakenOffReduces
<1>9. ClaimTakes(h, source, target, n, r)
  BY Zenon, <1>3, <1>4, <1>6, <1>7, <1>8 DEF ClaimTakes
<1> QED BY Zenon, <1>1, <1>9

\* The guarantee is reduced in the outcome of the source.
LEMMA GuaranteeReduced ==
  ASSUME NEW source \in Seq(Entry(Destinations)), NEW n \in DOMAIN source,
         NEW a \in Amount, a <= source[n].amount
  PROVE  Reduces([source EXCEPT ![n].amount = a], source)
<1>1. \A i \in DOMAIN source :
        source[i] \in Entry(Destinations) /\ source[i].amount \in Amount /\ source[i].amount \in Nat
  BY AmountsOfType
<1>2. PICK new : new = [source EXCEPT ![n].amount = a]
  BY Zenon
<1>3. source = [i \in DOMAIN source |-> source[i]]
  OBVIOUS
<1>4. new = [i \in DOMAIN source |-> IF i = n THEN [source[n] EXCEPT !.amount = a] ELSE source[i]]
  BY Zenon, <1>2
<1>5. ASSUME NEW i \in DOMAIN source
      PROVE  /\ new[i] = [source[i] EXCEPT !.amount = new[i].amount]
             /\ new[i].amount \in Amount /\ new[i].amount <= source[i].amount
  <2>1. CASE i = n
    <3>1. new[i] = [source[i] EXCEPT !.amount = a]
      BY <1>4, <2>1
    <3>2. new[i].amount = a
      BY <1>1, <3>1 DEF Entry
    <3> QED BY <2>1, <3>1, <3>2
  <2>2. CASE i # n
    <3>1. new[i] = source[i]
      BY <1>4, <2>2
    <3>2. [source[i] EXCEPT !.amount = source[i].amount] = source[i]
      BY <1>1 DEF Entry
    <3> QED BY <1>1, <3>1, <3>2
  <2> QED BY <2>1, <2>2
<1>6. new = [i \in DOMAIN source |-> new[i]]
  BY <1>4
<1>7. new = [i \in DOMAIN source |-> [source[i] EXCEPT !.amount = new[i].amount]]
  BY Zenon, <1>5, <1>6
<1>8. Reduces(new, source)
  BY Zenon, <1>5, <1>7 DEF Reduces
<1> QED BY Zenon, <1>2, <1>8

\* An outcome that stays the same has no larger amounts.
LEMMA ReducesItself ==
  ASSUME NEW o \in Seq(Entry(Destinations)) PROVE Reduces(o, o)
<1>1. \A i \in DOMAIN o : /\ o[i] = [o[i] EXCEPT !.amount = o[i].amount]
                          /\ o[i].amount \in Amount /\ o[i].amount <= o[i].amount
  BY AmountsOfType DEF Entry
<1>2. o = [i \in DOMAIN o |-> o[i]]
  OBVIOUS
<1>3. o = [i \in DOMAIN o |-> [o[i] EXCEPT !.amount = o[i].amount]]
  BY Zenon, <1>1, <1>2
<1> QED BY Zenon, <1>1, <1>3 DEF Reduces

-----------------------------------------------------------------------------
(* The invariant of the funds *)

DepositAmounts == [tx \in Deposits |-> tx.amount]

\* Every outcome on record is one its channel may have, and what is held, was paid and
\* is still to be deposited is not more than all deposits.
Sound ==
  /\ TypeOK
  /\ \A c \in Channels : statusOf[c].outcome \in Outcomes(c)
  /\ Total + SumOf(DepositAmounts, pending) <= SumOf(DepositAmounts, Deposits)

\* So the contract never has more than a uint256 counts.
LEMMA SoundTotal ==
  ASSUME Sound
  PROVE  /\ Total \in Nat /\ Total < Uint256
         /\ \A c \in Channels : holdings[c] \in Amount
         /\ \A s \in SUBSET Deposits :
              IsFiniteSet(s) /\ (\A tx \in s : DepositAmounts[tx] \in Nat)
                /\ SumOf(DepositAmounts, s) \in Nat
<1>1. /\ IsFiniteSet(Channels) /\ IsFiniteSet(Externals)
      /\ \A c \in Channels : holdings[c] \in Nat /\ holdings[c] \in Amount
      /\ \A d \in Externals : paid[d] \in Nat
  BY OutcomesAssumption, Uint256Assumption DEF Sound, TypeOK, Amount
<1>2. SumOf(holdings, Channels) \in Nat /\ SumOf(paid, Externals) \in Nat
  BY Zenon, <1>1, SumNat
<1>3. Total \in Nat
  BY <1>2 DEF Total
<1>4. \A tx \in Deposits : DepositAmounts[tx] \in Nat
  BY DepositsAssumption, AmountIsNat DEF DepositAmounts
<1>5. ASSUME NEW s \in SUBSET Deposits
      PROVE  IsFiniteSet(s) /\ (\A tx \in s : DepositAmounts[tx] \in Nat)
               /\ SumOf(DepositAmounts, s) \in Nat
  <2>1. s \subseteq Deposits /\ \A tx \in s : DepositAmounts[tx] \in Nat
    BY <1>4
  <2>2. IsFiniteSet(s)
    BY Zenon, <2>1, FS_Subset, DepositsAssumption
  <2>3. SumOf(DepositAmounts, s) \in Nat
    BY Zenon, <2>1, <2>2, SumNat
  <2> QED BY <2>1, <2>2, <2>3
<1>6. SumOf(DepositAmounts, Deposits) < Uint256
  BY DepositsAssumption DEF DepositAmounts
<1>7. Total < Uint256
  <2>1. SumOf(DepositAmounts, pending) \in Nat /\ SumOf(DepositAmounts, Deposits) \in Nat
    BY <1>5 DEF Sound, TypeOK
  <2> QED BY <1>3, <1>6, <2>1, Uint256Assumption DEF Sound
<1> QED BY <1>1, <1>3, <1>5, <1>7

\* A step that only moves funds.
FundsMove ==
  /\ holdings' \in [Channels -> 0..(Uint256 - 1)] /\ paid' \in [Externals -> Nat]
  /\ Total' = Total /\ pending' = pending

\* What a payout does to channel c: its amounts are reduced, or all of them were paid
\* and its status is deleted.
PaidDown(c, status) ==
  \/ SameFields(statusOf'[c], status) /\ Reduces(statusOf'[c].outcome, status.outcome)
  \/ /\ statusOf'[c] = Unwritten
     /\ holdings'[c] + SumOf(AmountsOf(status.outcome), DOMAIN status.outcome) = holdings[c]

\* transferAllAssets moves funds and pays the channel down.
LEMMA LiquidateStep ==
  ASSUME Sound, NEW c \in Channels, NEW status, IsChannelData(status),
         status.outcome \in Outcomes(c), Liquidates(c, status)
  PROVE  /\ FundsMove
         /\ PaidDown(c, status)
         /\ \A d \in Channels \ {c} : statusOf'[d] = statusOf[d]
<1> DEFINE o == status.outcome
<1>1. PICK r : r = compute_transfer_effects_and_interactions(holdings[c], o, << >>)
  OBVIOUS
<1>2. LiquidatesWith(c, status, r)
  BY Zenon, <1>1 DEF Liquidates
<1>3. TransferTakes(c, holdings[c], o, r)
  <2>1. holdings[c] \in Amount
    BY SoundTotal
  <2>2. << >> \in Seq(Nat \ {0}) /\ IncreasingIndices(<< >>)
    BY DEF IncreasingIndices
  <2> HIDE DEF o
  <2> QED BY Zenon, <1>1, <2>1, <2>2, TransferEffect DEF o
<1>4. /\ r.exit \in [DOMAIN o -> Amount]
      /\ r.totalPayouts = SumOf(r.exit, DOMAIN o)
      /\ r.totalPayouts \in Nat /\ r.totalPayouts <= holdings[c]
      /\ Pays(c, r.totalPayouts, o, r.exit)
      /\ o \in Seq(Entry(Destinations))
  BY <1>2, <1>3 DEF LiquidatesWith, TransferTakes, Outcomes
<1>5. TypeOK /\ Total < Uint256
  BY SoundTotal DEF Sound
<1>6. /\ holdings' \in [Channels -> 0..(Uint256 - 1)]
      /\ paid' \in [Externals -> Nat]
      /\ Total' = Total
      /\ holdings'[c] = holdings[c] - r.totalPayouts + SentTo(o, r.exit, c)
  BY <1>4, <1>5, PaysConserves
<1>7. FundsMove
  BY <1>2, <1>6 DEF FundsMove, LiquidatesWith
<1>8. PICK v : /\ v = IF allocatesOnlyZeros(r.newAllocations) THEN Unwritten
                      ELSE [status EXCEPT !.outcome = r.newAllocations]
               /\ statusOf' = [statusOf EXCEPT ![c] = v]
  BY Zenon, <1>2 DEF LiquidatesWith
<1>9. statusOf'[c] = v /\ \A d \in Channels \ {c} : statusOf'[d] = statusOf[d]
  <2>1. statusOf = [d \in Channels |-> statusOf[d]] /\ DOMAIN statusOf = Channels
    BY DEF Sound, TypeOK, StatusOK, WellFormed
  <2> QED BY <1>8, <2>1
<1>10. PaidDown(c, status)
  <2>1. CASE allocatesOnlyZeros(r.newAllocations)
    <3>1. SentTo(o, r.exit, c) = 0 /\ r.totalPayouts = SumOf(AmountsOf(o), DOMAIN o)
      BY <1>3, <2>1 DEF TransferTakes
    <3>2. holdings[c] \in Nat
      BY SMTT(20), SoundTotal, AmountIsNat
    <3>3. holdings'[c] + r.totalPayouts = holdings[c]
      BY SMTT(20), <1>4, <1>6, <3>1, <3>2
    <3> QED BY <1>8, <1>9, <2>1, <3>1, <3>3 DEF PaidDown
  <2>2. CASE ~allocatesOnlyZeros(r.newAllocations)
    <3>1. v = [status EXCEPT !.outcome = r.newAllocations]
      BY <1>8, <2>2
    <3>2. v.outcome = r.newAllocations /\ SameFields(v, status)
      BY <3>1 DEF IsChannelData, ChannelData, SameFields
    <3> QED BY <1>3, <1>9, <3>2 DEF PaidDown, TransferTakes
  <2> QED BY <2>1, <2>2
<1> QED BY <1>7, <1>9, <1>10

\* What a caller may pass as indices.
LEMMA IndexListsType ==
  ASSUME NEW o \in Seq(Entry(Destinations)), NEW indices \in IndexLists(o)
  PROVE  indices \in Seq(Nat \ {0}) /\ IncreasingIndices(indices)
<1>1. DOMAIN o = 1..Len(o) /\ Len(o) \in Nat
  OBVIOUS
<1>2. PICK m \in 0..Len(o) : indices \in [1..m -> DOMAIN o]
  BY DEF IndexLists
<1>3. indices \in [1..m -> Nat \ {0}] /\ m \in Nat
  BY <1>1, <1>2
<1>4. indices \in Seq(Nat \ {0})
  BY <1>3
<1> QED BY <1>4 DEF IndexLists

\* A new outcome for one channel leaves everything else of the statuses as it was.
LEMMA OutcomeWritten ==
  ASSUME NEW f, WellFormed(f), NEW c \in Channels, NEW o
  PROVE  /\ [f EXCEPT ![c].outcome = o][c].outcome = o
         /\ SameFields([f EXCEPT ![c].outcome = o][c], f[c])
         /\ \A d \in Channels \ {c} : [f EXCEPT ![c].outcome = o][d] = f[d]
<1>1. f = [d \in Channels |-> f[d]] /\ DOMAIN f = Channels
  BY DEF WellFormed
<1>2. f[c] = ChannelData(f[c].turnNumRecord, f[c].finalizesAt, f[c].stateHash, f[c].outcome)
  BY DEF WellFormed
<1>3. PICK g : g = [f EXCEPT ![c].outcome = o]
  BY Zenon
<1>4. PICK v : v = [f[c] EXCEPT !.outcome = o]
  BY Zenon
<1>5. g = [f EXCEPT ![c] = v]
  BY <1>3, <1>4
<1>6. g[c] = v /\ \A d \in Channels \ {c} : g[d] = f[d]
  BY <1>1, <1>5
<1>7. v.outcome = o /\ SameFields(v, f[c])
  BY <1>2, <1>4 DEF ChannelData, SameFields
<1> QED BY <1>3, <1>6, <1>7

\* transfer moves funds and pays the channel down.
LEMMA TransferStep ==
  ASSUME Sound, NEW c \in Channels, NEW indices \in IndexLists(statusOf[c].outcome),
         Transfer(c, indices)
  PROVE  /\ FundsMove
         /\ PaidDown(c, statusOf[c])
         /\ \A d \in Channels \ {c} : statusOf'[d] = statusOf[d]
<1> DEFINE o == statusOf[c].outcome
<1>1. PICK r : r = compute_transfer_effects_and_interactions(holdings[c], o, indices)
  OBVIOUS
<1>2. TransfersWith(c, r)
  BY Zenon, <1>1 DEF Transfer
<1>3. o \in Outcomes(c) /\ o \in Seq(Entry(Destinations))
  BY DEF Sound, Outcomes
<1>4. TransferTakes(c, holdings[c], o, r)
  <2>1. holdings[c] \in Amount
    BY SoundTotal
  <2>2. indices \in Seq(Nat \ {0}) /\ IncreasingIndices(indices)
    BY <1>3, IndexListsType
  <2> HIDE DEF o
  <2> QED BY Zenon, <1>1, <1>3, <2>1, <2>2, TransferEffect DEF o
<1>5. /\ r.exit \in [DOMAIN o -> Amount]
      /\ r.totalPayouts = SumOf(r.exit, DOMAIN o)
      /\ r.totalPayouts \in Nat /\ r.totalPayouts <= holdings[c]
      /\ Pays(c, r.totalPayouts, o, r.exit)
  BY <1>2, <1>4 DEF TransfersWith, TransferTakes
<1>6. TypeOK /\ Total < Uint256
  BY SoundTotal DEF Sound
<1>7. /\ holdings' \in [Channels -> 0..(Uint256 - 1)]
      /\ paid' \in [Externals -> Nat]
      /\ Total' = Total
  BY <1>3, <1>5, <1>6, PaysConserves
<1>8. FundsMove
  BY <1>2, <1>7 DEF FundsMove, TransfersWith
<1>9. /\ statusOf'[c].outcome = r.newAllocations /\ SameFields(statusOf'[c], statusOf[c])
      /\ \A d \in Channels \ {c} : statusOf'[d] = statusOf[d]
  <2>1. WellFormed(statusOf)
    BY DEF Sound, TypeOK, StatusOK
  <2>2. statusOf' = [statusOf EXCEPT ![c].outcome = r.newAllocations]
    BY <1>2 DEF TransfersWith
  <2>3. PICK n : n = r.newAllocations
    OBVIOUS
  <2>4. /\ [statusOf EXCEPT ![c].outcome = n][c].outcome = n
        /\ SameFields([statusOf EXCEPT ![c].outcome = n][c], statusOf[c])
        /\ \A d \in Channels \ {c} : [statusOf EXCEPT ![c].outcome = n][d] = statusOf[d]
    BY SMTT(20), <2>1, OutcomeWritten
  <2> QED BY SMTT(20), <2>2, <2>3, <2>4
<1>10. PaidDown(c, statusOf[c])
  BY <1>4, <1>9 DEF PaidDown, TransferTakes
<1> QED BY <1>8, <1>9, <1>10

\* claim moves funds and pays down the source and the target.
LEMMA ClaimStepEffect ==
  ASSUME Sound, NEW c \in Channels, NEW target \in Channels, NEW n \in DOMAIN statusOf[c].outcome,
         statusOf[c].outcome[n].destination = target, NEW indices, Claim(c, n, indices)
  PROVE  /\ FundsMove
         /\ PaidDown(c, statusOf[c])
         /\ PaidDown(target, statusOf[target])
         /\ \A d \in Channels \ {c, target} : statusOf'[d] = statusOf[d]
<1> DEFINE o == statusOf[c].outcome
           u == statusOf[target].outcome
<1>1. PICK r : r = compute_claim_effects_and_interactions(holdings[c], o, u, n, indices)
  OBVIOUS
<1>2. ClaimsWith(c, n, target, r) /\ isGuarantee(o[n])
  BY Zenon, <1>1 DEF Claim, CanClaim
<1>3. /\ o \in Seq(Entry(Destinations)) /\ u \in Seq(Entry(Destinations))
      /\ o[n].destination # c /\ Injective(o[n].metadata)
  <2>1. o \in Outcomes(c) /\ u \in Outcomes(target)
    BY DEF Sound
  <2> HIDE DEF o, u
  <2> QED BY <1>2, <2>1 DEF Outcomes, Injective, o
<1>4. ClaimTakes(holdings[c], o, u, n, r)
  <2>1. holdings[c] \in Amount /\ n \in DOMAIN o
    BY SoundTotal
  <2> HIDE DEF o, u
  <2> QED BY Zenon, <1>1, <1>3, <2>1, ClaimEffect
<1>5. /\ r.exit \in [DOMAIN u -> Amount]
      /\ r.totalPayouts = SumOf(r.exit, DOMAIN u)
      /\ r.totalPayouts \in Nat /\ r.totalPayouts <= holdings[c]
      /\ Pays(c, r.totalPayouts, u, r.exit)
  BY SMTT(20), <1>2, <1>4 DEF ClaimsWith, ClaimTakes
<1>6. TypeOK /\ Total < Uint256
  BY SMTT(20), SoundTotal DEF Sound
<1>7. /\ holdings' \in [Channels -> 0..(Uint256 - 1)]
      /\ paid' \in [Externals -> Nat]
      /\ Total' = Total
  BY SMTT(20), <1>3, <1>5, <1>6, PaysConserves
<1>8. FundsMove
  BY <1>2, <1>7 DEF FundsMove, ClaimsWith
<1>9. PICK q : q = [o EXCEPT ![n].amount = r.guaranteed]
  BY Zenon
<1>10. PICK f : f = [statusOf EXCEPT ![c].outcome = q]
  BY Zenon
<1>11. PICK w : w = r.newAllocations
  OBVIOUS
<1>12. statusOf' = [f EXCEPT ![target].outcome = w]
  BY <1>2, <1>9, <1>10, <1>11 DEF ClaimsWith
<1>13. WellFormed(statusOf)
  BY DEF Sound, TypeOK, StatusOK
<1>14. /\ f[c].outcome = q /\ SameFields(f[c], statusOf[c])
       /\ \A d \in Channels \ {c} : f[d] = statusOf[d]
  BY <1>10, <1>13, OutcomeWritten
<1>15. WellFormed(f)
  BY Zenon, <1>10, <1>13, WriteOutcome
<1>16. /\ statusOf'[target].outcome = w /\ SameFields(statusOf'[target], f[target])
       /\ \A d \in Channels \ {target} : statusOf'[d] = f[d]
  BY <1>12, <1>15, OutcomeWritten
<1>17. target # c
  BY <1>3
<1>18. Reduces(q, o)
  <2>1. r.guaranteed \in Amount /\ r.guaranteed <= o[n].amount /\ n \in DOMAIN o
    BY <1>4 DEF ClaimTakes
  <2>2. PICK a \in Amount : a = r.guaranteed
    BY <2>1
  <2> HIDE DEF o
  <2>3. Reduces([o EXCEPT ![n].amount = a], o)
    BY SMTT(20), <1>3, <2>1, <2>2, GuaranteeReduced
  <2> QED BY SMTT(20), <1>9, <2>2, <2>3
<1>19. PaidDown(c, statusOf[c])
  BY SMTT(20), <1>14, <1>16, <1>17, <1>18 DEF PaidDown
<1>20. PaidDown(target, statusOf[target])
  BY <1>4, <1>11, <1>14, <1>16, <1>17 DEF PaidDown, ClaimTakes
<1> QED BY <1>8, <1>14, <1>16, <1>19, <1>20

\* A payout moves funds, and pays channels down.
LEMMA PayoutStep ==
  ASSUME Sound, Payout
  PROVE  FundsMove /\ \A b \in Channels : PaidDown(b, statusOf[b])
<1> DEFINE Goal == FundsMove /\ \A b \in Channels : PaidDown(b, statusOf[b])
<1>1. ASSUME NEW b \in Channels, statusOf'[b] = statusOf[b] PROVE PaidDown(b, statusOf[b])
  <2>1. statusOf[b].outcome \in Seq(Entry(Destinations))
    BY DEF Sound, Outcomes
  <2> QED BY <1>1, <2>1, ReducesItself DEF PaidDown, SameFields
<1>2. ASSUME NEW c \in Channels, TransferAllAssets(c) PROVE Goal
  <2>1. IsChannelData(statusOf[c]) /\ statusOf[c].outcome \in Outcomes(c)
    BY DEF Sound, TypeOK, StatusOK, WellFormed, IsChannelData
  <2>2. Liquidates(c, statusOf[c])
    BY <1>2 DEF TransferAllAssets
  <2>3. /\ FundsMove
        /\ PaidDown(c, statusOf[c])
        /\ \A d \in Channels \ {c} : statusOf'[d] = statusOf[d]
    BY Zenon, <2>1, <2>2, LiquidateStep
  <2> QED BY <1>1, <2>3
<1>3. ASSUME NEW c \in Channels, NEW indices \in IndexLists(statusOf[c].outcome),
             Transfer(c, indices)
      PROVE  Goal
  <2>1. /\ FundsMove
        /\ PaidDown(c, statusOf[c])
        /\ \A d \in Channels \ {c} : statusOf'[d] = statusOf[d]
    BY Zenon, <1>3, TransferStep
  <2> QED BY <1>1, <2>1
<1>4. ASSUME NEW c \in Channels, NEW target \in Channels, NEW n \in DOMAIN statusOf[c].outcome,
             statusOf[c].outcome[n].destination = target, NEW indices, Claim(c, n, indices)
      PROVE  Goal
  <2>1. /\ FundsMove
        /\ PaidDown(c, statusOf[c])
        /\ PaidDown(target, statusOf[target])
        /\ \A d \in Channels \ {c, target} : statusOf'[d] = statusOf[d]
    BY Zenon, <1>4, ClaimStepEffect
  <2> QED BY SMTT(20), <1>1, <2>1
<1> HIDE DEF Goal
<1>5. Goal
  BY Zenon, <1>2, <1>3, <1>4 DEF Payout
<1> QED BY <1>5 DEF Goal

\* The new outcome of channel c is o with lesser amounts, or none.
ComesFrom(c, o) == statusOf'[c].outcome = NoOutcome \/ Reduces(statusOf'[c].outcome, o)

\* A call of ForceMove records the outcome of its state, and keeps all funds.
LEMMA ForceMoveOutcome ==
  ASSUME Sound, NEW c \in Channels, NEW t \in Turns(c), ForceMoves(c, t)
  PROVE  /\ FundsMove
         /\ ComesFrom(c, History[c][t].outcome)
         /\ \A d \in Channels \ {c} : statusOf'[d] = statusOf[d]
<1>1. /\ History[c][t].outcome \in Outcomes(c)
      /\ History[c][t].outcome \in Seq(Entry(Destinations))
  BY OutcomesAssumption DEF Outcomes
<1>2. WritesOpen(c, t)
  BY ForceMoveWrites DEF Sound, TypeOK
<1>3. ASSUME UNCHANGED <<holdings, paid, pending>> PROVE FundsMove
  BY <1>3 DEF FundsMove, Total, Sound, TypeOK
<1>4. ASSUME NEW v, statusOf' = [statusOf EXCEPT ![c] = v] PROVE statusOf'[c] = v
  <2>1. statusOf = [d \in Channels |-> statusOf[d]] /\ DOMAIN statusOf = Channels
    BY DEF Sound, TypeOK, StatusOK, WellFormed
  <2> QED BY SMTT(20), <1>4, <2>1
<1>5. Reduces(History[c][t].outcome, History[c][t].outcome)
  BY SMTT(20), <1>1, ReducesItself
<1>6. CASE Challenge(c, t)
  <2>1. statusOf'[c] = challenge(now, t, History[c][t].outcome, challengeDuration[c])
    BY Zenon, <1>4, <1>6 DEF Challenge
  <2>2. statusOf'[c].outcome = History[c][t].outcome
    BY <2>1 DEF challenge, ChannelData
  <2> QED BY Zenon, <1>2, <1>3, <1>5, <1>6, <2>2 DEF Challenge, ComesFrom, WritesOpen
<1>7. CASE Checkpoint(c, t)
  <2>1. statusOf'[c] = clearChallenge(t)
    BY Zenon, <1>4, <1>7 DEF Checkpoint
  <2>2. statusOf'[c].outcome = NoOutcome
    BY <2>1 DEF clearChallenge, ChannelData
  <2> QED BY <1>2, <1>3, <1>7, <2>2 DEF Checkpoint, ComesFrom, WritesOpen
<1>8. CASE Conclude(c, t)
  <2>1. statusOf'[c] = conclude(now, History[c][t].outcome)
    BY Zenon, <1>4, <1>8 DEF Conclude
  <2>2. statusOf'[c].outcome = History[c][t].outcome
    BY <2>1 DEF conclude, ChannelData
  <2> QED BY Zenon, <1>2, <1>3, <1>5, <1>8, <2>2 DEF Conclude, ComesFrom, WritesOpen
<1>9. CASE ConcludeAndTransferAllAssets(c, t)
  <2>1. PICK v : v = conclude(now, History[c][t].outcome)
    BY SMTT(20)
  <2>2. IsChannelData(v) /\ v.outcome = History[c][t].outcome
    BY SMTT(20), <2>1, MadeByChannelData DEF conclude, ChannelData
  <2>3. Liquidates(c, v) /\ v.outcome \in Outcomes(c)
    BY <1>1, <1>9, <2>1, <2>2 DEF ConcludeAndTransferAllAssets
  <2>4. /\ FundsMove /\ PaidDown(c, v)
        /\ \A d \in Channels \ {c} : statusOf'[d] = statusOf[d]
    BY Zenon, <2>2, <2>3, LiquidateStep
  <2>5. Unwritten.outcome = NoOutcome
    BY DEF Unwritten, ChannelData
  <2> QED BY <2>2, <2>4, <2>5 DEF ComesFrom, PaidDown
<1> QED BY <1>6, <1>7, <1>8, <1>9 DEF ForceMoves

\* A deposit adds to what the contract has no more than the sender paid.
LEMMA DepositStep ==
  ASSUME Sound, NEW tx \in Deposits, Deposit(tx)
  PROVE  /\ holdings' \in [Channels -> 0..(Uint256 - 1)] /\ paid' = paid
         /\ tx \in pending \ pending' /\ pending' \subseteq Deposits
         /\ Total' - Total \in 1..tx.amount
         /\ Total' + SumOf(DepositAmounts, pending') <= Total + SumOf(DepositAmounts, pending)
<1> DEFINE c == tx.channelId
           new == tx.expectedHeld + tx.amount
<1>1. /\ c \in Channels /\ tx.expectedHeld \in Nat /\ tx.amount \in Nat
      /\ DepositAmounts[tx] = tx.amount
  BY SMTT(20), DepositsAssumption, AmountIsNat DEF DepositAmounts
<1>2. /\ tx \in pending /\ new < Uint256
      /\ holdings[c] >= tx.expectedHeld /\ holdings[c] < new
      /\ holdings' = [holdings EXCEPT ![c] = new]
      /\ pending' = pending \ {tx} /\ paid' = paid
  BY DEF Deposit
<1>3. /\ holdings \in [Channels -> Amount] /\ \A b \in Channels : holdings[b] \in Nat
      /\ IsFiniteSet(Channels) /\ pending \subseteq Deposits
  BY OutcomesAssumption, AmountIsNat DEF Sound, TypeOK, Amount
<1>4. new \in Amount
  BY SMTT(20), <1>1, <1>2, Uint256Assumption DEF Amount
<1> HIDE DEF c, new
<1>5. holdings' \in [Channels -> Amount] /\ holdings'[c] = new
      /\ \A b \in Channels : b # c => holdings'[b] = holdings[b]
  BY <1>1, <1>2, <1>3, <1>4
<1>6. SumOf(holdings', Channels) = SumOf(holdings, Channels) - holdings[c] + new
  <2>1. PICK g : g = holdings'
    OBVIOUS
  <2>2. Replaced(holdings, g, c, Channels) /\ g[c] = new
    BY <1>3, <1>5, <2>1, AmountIsNat DEF Replaced
  <2>3. SumOf(g, Channels) = SumOf(holdings, Channels) - holdings[c] + g[c]
    BY <1>1, <1>3, <2>2, SumReplace
  <2> QED BY <2>1, <2>2, <2>3
<1>7. SumOf(holdings, Channels) \in Nat /\ SumOf(paid, Externals) \in Nat
  <2>1. IsFiniteSet(Externals) /\ \A d \in Externals : paid[d] \in Nat
    BY OutcomesAssumption DEF Sound, TypeOK
  <2> QED BY Zenon, <1>3, <2>1, SumNat
<1>8. Total' = Total - holdings[c] + new
  <2>1. Total' = SumOf(holdings', Channels) + SumOf(paid, Externals)
    BY <1>2 DEF Total
  <2>2. holdings[c] \in Nat /\ new \in Nat
    BY <1>1, <1>3, <1>4, AmountIsNat
  <2> QED BY <1>6, <1>7, <2>1, <2>2 DEF Total
<1>9. SumOf(DepositAmounts, pending) = tx.amount + SumOf(DepositAmounts, pending')
  <2>1. IsFiniteSet(pending) /\ \A x \in pending : DepositAmounts[x] \in Int
    BY SMTT(20), <1>3, SoundTotal
  <2>2. SumOf(DepositAmounts, pending) = DepositAmounts[tx] + SumOf(DepositAmounts, pending \ {tx})
    BY SMTT(20), <1>2, <2>1, SumRemove
  <2> QED BY <1>1, <1>2, <2>2
<1>10. SumOf(DepositAmounts, pending') \in Nat
  <2>1. pending' \in SUBSET Deposits
    BY SMTT(20), <1>2, <1>3
  <2> QED BY <2>1, SoundTotal
<1>11. holdings[c] \in Nat /\ new \in Nat /\ new = tx.expectedHeld + tx.amount /\ Total \in Nat
  BY <1>1, <1>3, <1>4, AmountIsNat, SoundTotal DEF new
<1>12. Total' - Total \in 1..tx.amount
  BY <1>1, <1>2, <1>8, <1>11
<1>13. Total' + SumOf(DepositAmounts, pending') <= Total + SumOf(DepositAmounts, pending)
  BY <1>1, <1>2, <1>8, <1>9, <1>10, <1>11
<1> QED BY <1>2, <1>3, <1>5, <1>12, <1>13 DEF Amount

\* Where the outcomes on record come from, and that only deposits add to the funds.
LEMMA FundsStep ==
  ASSUME Sound, [Next]_vars
  PROVE  /\ \A c \in Channels :
              \/ ComesFrom(c, statusOf[c].outcome)
              \/ \E t \in Turns(c) : ComesFrom(c, History[c][t].outcome)
         /\ FundsMove \/ \E tx \in Deposits : Deposit(tx)
<1> DEFINE Goal ==
      /\ \A c \in Channels :
           \/ ComesFrom(c, statusOf[c].outcome)
           \/ \E t \in Turns(c) : ComesFrom(c, History[c][t].outcome)
      /\ FundsMove \/ \E tx \in Deposits : Deposit(tx)
<1> SUFFICES Goal
  OBVIOUS
<1>1. ASSUME NEW c \in Channels, statusOf'[c] = statusOf[c]
      PROVE  ComesFrom(c, statusOf[c].outcome)
  <2>1. statusOf[c].outcome \in Seq(Entry(Destinations))
    BY DEF Sound, Outcomes
  <2> QED BY SMTT(20), <1>1, <2>1, ReducesItself DEF ComesFrom
<1>2. CASE UNCHANGED <<statusOf, holdings, paid, pending>>
  <2>1. FundsMove
    BY <1>2 DEF FundsMove, Total, Sound, TypeOK
  <2> QED BY <1>1, <1>2, <2>1
<1>3. ASSUME NEW c \in Channels, NEW t \in Turns(c), ForceMoves(c, t) PROVE Goal
  <2>1. /\ FundsMove
        /\ ComesFrom(c, History[c][t].outcome)
        /\ \A d \in Channels \ {c} : statusOf'[d] = statusOf[d]
    BY Zenon, <1>3, ForceMoveOutcome
  <2> QED BY <1>1, <2>1
<1>4. ASSUME NEW tx \in Deposits, Deposit(tx) PROVE Goal
  <2>1. statusOf' = statusOf
    BY <1>4 DEF Deposit
  <2> QED BY <1>1, <1>4, <2>1
<1>5. CASE Payout
  <2>1. FundsMove /\ \A c \in Channels : PaidDown(c, statusOf[c])
    BY <1>5, PayoutStep
  <2>2. Unwritten.outcome = NoOutcome
    BY DEF Unwritten, ChannelData
  <2> QED BY <2>1, <2>2 DEF PaidDown, ComesFrom
<1>6. ASSUME NEW c \in Channels, Agree(c) PROVE Goal
  BY SMTT(20), <1>2, <1>6 DEF Agree
<1>7. CASE Tick
  BY SMTT(20), <1>2, <1>7 DEF Tick
<1>8. CASE UNCHANGED vars
  BY <1>2, <1>8 DEF vars
<1> HIDE DEF Goal
<1> QED BY Zenon, Steps, <1>3, <1>4, <1>5, <1>6, <1>7, <1>8

\* A channel may have the empty outcome.
LEMMA NoOutcomeIsOne == ASSUME NEW c PROVE NoOutcome \in Outcomes(c)
BY DEF NoOutcome, Outcomes

\* Every step preserves the invariant.
LEMMA SoundStep == Sound /\ [Next]_vars => Sound'
<1> SUFFICES ASSUME Sound, [Next]_vars PROVE Sound'
  OBVIOUS
<1>1. /\ \A c \in Channels :
           \/ ComesFrom(c, statusOf[c].outcome)
           \/ \E t \in Turns(c) : ComesFrom(c, History[c][t].outcome)
      /\ FundsMove \/ \E tx \in Deposits : Deposit(tx)
  BY Zenon, FundsStep
<1>2. ASSUME NEW c \in Channels PROVE statusOf'[c].outcome \in Outcomes(c)
  <2>1. PICK o \in Outcomes(c) : ComesFrom(c, o)
    BY <1>1, OutcomesAssumption DEF Sound
  <2> QED BY Zenon, <2>1, ReducedOutcome, NoOutcomeIsOne DEF ComesFrom
<1>3. StatusOK'
  BY StatusStep DEF Sound, TypeOK
<1>4. CASE FundsMove
  <2>1. Total' + SumOf(DepositAmounts, pending') <= SumOf(DepositAmounts, Deposits)
    BY <1>4 DEF FundsMove, Sound
  <2> QED BY <1>2, <1>3, <1>4, <2>1 DEF Sound, TypeOK, FundsMove, DepositAmounts
<1>5. ASSUME NEW tx \in Deposits, Deposit(tx) PROVE Sound'
  <2>1. /\ holdings' \in [Channels -> 0..(Uint256 - 1)] /\ paid' = paid
        /\ pending' \subseteq Deposits
        /\ Total' - Total \in 1..tx.amount
        /\ Total' + SumOf(DepositAmounts, pending') <= Total + SumOf(DepositAmounts, pending)
    BY <1>5, DepositStep
  <2>2. paid' \in [Externals -> Nat]
    BY <2>1 DEF Sound, TypeOK
  <2>3. Total' + SumOf(DepositAmounts, pending') <= SumOf(DepositAmounts, Deposits)
    <3>1. /\ pending \in SUBSET Deposits /\ pending' \in SUBSET Deposits
          /\ Deposits \in SUBSET Deposits
      BY <2>1 DEF Sound, TypeOK
    <3>2. /\ SumOf(DepositAmounts, pending) \in Nat /\ SumOf(DepositAmounts, pending') \in Nat
          /\ SumOf(DepositAmounts, Deposits) \in Nat /\ Total \in Nat
      BY <3>1, SoundTotal
    <3>3. PICK a, b : a = Total' /\ b = Total
      OBVIOUS
    <3>4. tx.amount \in Nat
      BY SMTT(20), DepositsAssumption, AmountIsNat
    <3>5. IsFiniteSet(Channels) /\ IsFiniteSet(Externals)
          /\ (\A c \in Channels : holdings'[c] \in Nat) /\ (\A d \in Externals : paid'[d] \in Nat)
      BY <2>1, <2>2, OutcomesAssumption
    <3>6. SumOf(holdings', Channels) \in Nat /\ SumOf(paid', Externals) \in Nat
      BY Zenon, <3>5, SumNat
    <3>7. Total' \in Nat
      BY <3>6 DEF Total
    <3>8. Total + SumOf(DepositAmounts, pending) <= SumOf(DepositAmounts, Deposits)
      BY DEF Sound
    <3> QED BY <2>1, <3>2, <3>7, <3>8
  <2> QED BY <1>2, <1>3, <2>1, <2>2, <2>3 DEF Sound, TypeOK, DepositAmounts
<1> QED BY <1>1, <1>4, <1>5

\* The funds are sound at first.
LEMMA SoundInit == Init => Sound
<1> SUFFICES ASSUME Init PROVE Sound
  OBVIOUS
<1>1. TypeOK
  BY StatusInit, Uint256Assumption DEF TypeOK, Init
<1>2. \A c \in Channels : statusOf[c].outcome \in Outcomes(c)
  <2>1. Unwritten.outcome = NoOutcome
    BY DEF Unwritten, ChannelData
  <2> QED BY <2>1, NoOutcomeIsOne DEF Init
<1>3. Total = 0
  <2>1. /\ IsFiniteSet(Channels) /\ IsFiniteSet(Externals)
        /\ (\A c \in Channels : holdings[c] = 0) /\ (\A d \in Externals : paid[d] = 0)
    BY OutcomesAssumption DEF Init
  <2>2. SumOf(holdings, Channels) = 0 /\ SumOf(paid, Externals) = 0
    BY Zenon, <2>1, SumOfZeros
  <2> QED BY <2>2 DEF Total
<1>4. SumOf(DepositAmounts, Deposits) \in Nat
  <2>1. \A tx \in Deposits : DepositAmounts[tx] \in Nat
    BY DepositsAssumption, AmountIsNat DEF DepositAmounts
  <2> QED BY Zenon, <2>1, DepositsAssumption, SumNat
<1>5. Total + SumOf(DepositAmounts, pending) <= SumOf(DepositAmounts, Deposits)
  BY <1>3, <1>4 DEF Init
<1> QED BY <1>1, <1>2, <1>5 DEF Sound

-----------------------------------------------------------------------------
(* What holds of every reachable state *)

\* Every variable always has its type: no holding wraps around, whatever is deposited,
\* transferred and claimed in whichever order.
THEOREM AlwaysTyped == Spec => []TypeOK
<1>1. Sound => TypeOK
  BY DEF Sound
<1> QED BY <1>1, SoundInit, SoundStep, PTL DEF Spec

\* What transfer pays of allocations, and what is left of them.
PaidFairly(h, allocations, indices, r) ==
  /\ \A i \in DOMAIN allocations :
       r.exit[i] = IF PaidIn(indices, i) THEN Share(AmountsOf(allocations), h, i) ELSE 0
  /\ r.totalPayouts = SumOf(r.exit, DOMAIN allocations)
  /\ r.newAllocations = [i \in DOMAIN allocations |->
                           [allocations[i] EXCEPT !.amount = @ - r.exit[i]]]

\* The same as TransferPaysShares, by name.
LEMMA FairTransfer ==
  ASSUME NEW h \in Amount, NEW allocations \in Seq(Entry(Destinations)),
         NEW indices \in Seq(Nat \ {0}), IncreasingIndices(indices)
  PROVE  PaidFairly(h, allocations, indices,
                    compute_transfer_effects_and_interactions(h, allocations, indices))
<1>1. PICK r : r = compute_transfer_effects_and_interactions(h, allocations, indices)
  OBVIOUS
<1>2. /\ \A i \in DOMAIN allocations :
           r.exit[i] = IF PaidIn(indices, i) THEN Share(AmountsOf(allocations), h, i) ELSE 0
      /\ r.totalPayouts = SumOf(r.exit, DOMAIN allocations)
      /\ r.newAllocations = [i \in DOMAIN allocations |->
                               [allocations[i] EXCEPT !.amount = @ - r.exit[i]]]
  BY <1>1, TransferPaysShares
<1> QED BY Zenon, <1>1, <1>2 DEF PaidFairly

\* A transfer from any finalized channel pays every entry its share.
THEOREM AlwaysPaysFairShares == Spec => []PaysFairShares
<1>1. Sound => PaysFairShares
  <2> SUFFICES ASSUME Sound, NEW c \in Channels, NEW indices \in IndexLists(statusOf[c].outcome)
               PROVE  PaidFairly(holdings[c], statusOf[c].outcome, indices,
                        compute_transfer_effects_and_interactions(holdings[c], statusOf[c].outcome,
                                                                  indices))
    BY Zenon DEF PaysFairShares, DirectShare, PaidFairly
  <2>1. statusOf[c].outcome \in Seq(Entry(Destinations)) /\ holdings[c] \in Amount
    BY SoundTotal DEF Sound, Outcomes
  <2>2. indices \in Seq(Nat \ {0}) /\ IncreasingIndices(indices)
    BY <2>1, IndexListsType
  <2> QED BY Zenon, <2>1, <2>2, FairTransfer
<1> QED BY <1>1, SoundInit, SoundStep, PTL DEF Spec

\* The TypeScript copies compute for every finalized channel what the contract does.
THEOREM AlwaysEmulates == Spec => []EmulatesSolidity
<1>1. Sound => EmulatesSolidity
  <2> SUFFICES ASSUME Sound PROVE EmulatesSolidity
    OBVIOUS
  <2>1. ASSUME NEW c \in Channels
        PROVE  /\ statusOf[c].outcome \in Seq(Entry(Destinations)) /\ holdings[c] \in Amount
               /\ \A n \in DOMAIN statusOf[c].outcome : isGuarantee(statusOf[c].outcome[n]) =>
                    /\ statusOf[c].outcome[n].destination \in Channels
                    /\ Injective(statusOf[c].outcome[n].metadata)
    BY SoundTotal DEF Sound, Outcomes, Injective
  <2>2. ASSUME NEW c \in Channels, NEW indices \in IndexLists(statusOf[c].outcome)
        PROVE  computeTransferEffectsAndInteractions(holdings[c], statusOf[c].outcome, indices)
                 = [compute_transfer_effects_and_interactions(holdings[c], statusOf[c].outcome,
                                                              indices) EXCEPT !.reverts = FALSE]
    <3>1. indices \in Seq(Nat \ {0}) /\ IncreasingIndices(indices)
      BY <2>1, IndexListsType
    <3> QED BY Zenon, <2>1, <3>1, EmulatesTransfer
  <2>3. ASSUME NEW c \in Channels, NEW n \in DOMAIN statusOf[c].outcome,
               isGuarantee(statusOf[c].outcome[n]), NEW indices,
               NEW target, target = statusOf[statusOf[c].outcome[n].destination].outcome
        PROVE  computeClaimEffectsAndInteractions(holdings[c], statusOf[c].outcome, target, n, indices)
                 = compute_claim_effects_and_interactions(holdings[c], statusOf[c].outcome, target, n,
                                                          indices)
    <3>1. target \in Seq(Entry(Destinations))
      BY <2>1, <2>3
    <3> QED BY Zenon, <2>1, <2>3, <3>1, EmulatesClaim
  <2> QED BY Zenon, <2>2, <2>3 DEF EmulatesSolidity
<1> QED BY <1>1, SoundInit, SoundStep, PTL DEF Spec

\* Only a deposit changes what the contract holds and has paid.
THEOREM AlwaysConserved == Spec => FundsConserved
<1>1. Sound /\ [Next]_vars =>
        [\/ Total' = Total
         \/ \E tx \in pending \ pending' : Total' - Total \in 1..tx.amount]_vars
  <2> SUFFICES ASSUME Sound, [Next]_vars
               PROVE  \/ Total' = Total
                      \/ \E tx \in pending \ pending' : Total' - Total \in 1..tx.amount
    OBVIOUS
  <2>1. FundsMove \/ \E tx \in Deposits : Deposit(tx)
    BY Zenon, FundsStep
  <2>2. ASSUME NEW tx \in Deposits, Deposit(tx)
        PROVE  \E u \in pending \ pending' : Total' - Total \in 1..u.amount
    BY Zenon, <2>2, DepositStep
  <2> QED BY <2>1, <2>2 DEF FundsMove
<1> QED BY <1>1, SoundInit, SoundStep, PTL DEF Spec, FundsConserved

\* What a step may do to a finalized channel.
Settling(c) ==
  \/ /\ KeepsState(c)
     /\ \A i \in DOMAIN statusOf[c].outcome :
          statusOf'[c].outcome[i].amount <= statusOf[c].outcome[i].amount
  \/ /\ statusOf'[c] = Unwritten
     /\ holdings'[c] + SumOf(AmountsOf(statusOf[c].outcome), DOMAIN statusOf[c].outcome)
          = holdings[c]

\* A step of anyone settles a finalized channel further, or leaves it alone.
LEMMA SettlingStep ==
  ASSUME Sound, [Next]_vars
  PROVE  \A c \in Channels : Finalized(c) => Settling(c)
<1> DEFINE Goal == \A c \in Channels : Finalized(c) => Settling(c)
<1> SUFFICES Goal
  OBVIOUS
<1>1. ASSUME NEW c \in Channels, statusOf'[c] = statusOf[c] PROVE Settling(c)
  <2>1. statusOf[c].outcome \in Seq(Entry(Destinations))
    BY DEF Sound, Outcomes
  <2>2. \A i \in DOMAIN statusOf[c].outcome : statusOf[c].outcome[i].amount \in Nat
    BY Zenon, <2>1, AmountsOfType
  <2>3. \A i \in DOMAIN statusOf[c].outcome :
          statusOf[c].outcome[i].amount <= statusOf[c].outcome[i].amount
    BY <2>2
  <2> QED BY Zenon, <1>1, <2>3 DEF Settling, KeepsState
<1>2. CASE UNCHANGED statusOf
  BY <1>1, <1>2
<1>3. CASE Payout
  <2>1. \A c \in Channels : PaidDown(c, statusOf[c])
    BY <1>3, PayoutStep
  <2> QED BY Zenon, <2>1 DEF PaidDown, SameFields, Reduces, Settling, KeepsState
<1>4. ASSUME NEW c \in Channels, NEW t \in Turns(c), ForceMoves(c, t) PROVE Goal
  <2>1. WritesOpen(c, t)
    BY <1>4, ForceMoveWrites DEF Sound, TypeOK
  <2> QED BY Zenon, <1>1, <2>1 DEF WritesOpen
<1>5. ASSUME NEW c \in Channels, Agree(c) PROVE Goal
  BY <1>2, <1>5 DEF Agree
<1>6. CASE Tick
  BY <1>2, <1>6 DEF Tick
<1>7. ASSUME NEW tx \in Deposits, Deposit(tx) PROVE Goal
  BY SMTT(20), <1>2, <1>7 DEF Deposit
<1>8. CASE UNCHANGED vars
  BY <1>2, <1>8 DEF vars
<1> HIDE DEF Goal
<1> QED BY Zenon, Steps, <1>3, <1>4, <1>5, <1>6, <1>7, <1>8

\* A finalized channel keeps its state, and its amounts only go down, until the status
\* is deleted, which leaves the channel less by exactly all that it still allocated.
THEOREM AlwaysSettled == Spec => SettledForGood
<1>1. Sound /\ [Next]_vars => [\A c \in Channels : Finalized(c) => Settling(c)]_vars
  BY SettlingStep
<1> QED BY <1>1, SoundInit, SoundStep, PTL DEF Spec, SettledForGood, Settling
-----------------------------------------------------------------------------
(* What the client expects of the contract *)

\* No two entries of an outcome are for one destination.
PaysOnce(o) == \A i, j \in DOMAIN o : o[i].destination = o[j].destination => i = j

\* An outcome with smaller amounts has no more entries for a destination than before.
LEMMA ReducedPaysOnce ==
  ASSUME NEW old \in Seq(Entry(Destinations)), NEW new, Reduces(new, old), PaysOnce(old)
  PROVE  PaysOnce(new)
<1>1. DOMAIN new = DOMAIN old
  BY Zenon DEF Reduces
<1>2. \A i \in DOMAIN old : new[i] = [old[i] EXCEPT !.amount = new[i].amount]
  BY Zenon DEF Reduces
<1>3. \A i \in DOMAIN old : old[i] \in Entry(Destinations)
  OBVIOUS
<1>4. \A i \in DOMAIN old : new[i].destination = old[i].destination
  BY Zenon, <1>2, <1>3 DEF Entry
<1> QED BY Zenon, <1>1, <1>4 DEF PaysOnce

\* The client's Affords says of every entry of a finalized channel whether the contract
\* would pay all of it, if no outcome has two entries for one destination (Affords looks
\* for the first allocation that equals the one it is given).
THEOREM AffordsWhatIsPaid ==
  ASSUME \A c \in Channels : \A t \in Turns(c) : PaysOnce(History[c][t].outcome)
  PROVE  Spec => []AffordsIffCovered
<1> DEFINE Inv == Sound /\ \A c \in Channels : PaysOnce(statusOf[c].outcome)
<1>1. Init => Inv
  <2>1. PaysOnce(NoOutcome)
    BY DEF PaysOnce, NoOutcome
  <2>2. Unwritten.outcome = NoOutcome
    BY DEF Unwritten, ChannelData
  <2> QED BY <2>1, <2>2, SoundInit DEF Init
<1>2. Inv /\ [Next]_vars => Inv'
  <2> SUFFICES ASSUME Inv, [Next]_vars, NEW c \in Channels PROVE PaysOnce(statusOf'[c].outcome)
    BY SoundStep DEF PaysOnce
  <2>1. \/ ComesFrom(c, statusOf[c].outcome)
        \/ \E t \in Turns(c) : ComesFrom(c, History[c][t].outcome)
    BY Zenon, FundsStep
  <2>2. statusOf[c].outcome \in Seq(Entry(Destinations))
    BY SMTT(20) DEF Sound, Outcomes
  <2>3. \A t \in Turns(c) : History[c][t].outcome \in Seq(Entry(Destinations))
    BY Zenon, OutcomesAssumption DEF Outcomes
  <2>4. PaysOnce(NoOutcome)
    BY DEF PaysOnce, NoOutcome
  <2> QED BY Zenon, <2>1, <2>2, <2>3, <2>4, ReducedPaysOnce DEF ComesFrom
<1>3. Inv => AffordsIffCovered
  <2> SUFFICES ASSUME Inv, NEW c \in Channels, NEW o, o = statusOf[c].outcome,
                      NEW i \in DOMAIN o, o[i].amount > 0
               PROVE  Affords(o, o[i], holdings[c])
                        <=> Share(AmountsOf(o), holdings[c], i) = o[i].amount
    BY Zenon DEF AffordsIffCovered, DirectShare
  <2>1. o \in Seq(Entry(Destinations)) /\ holdings[c] \in Amount
    BY SoundTotal DEF Sound, Outcomes
  <2>2. \A j \in DOMAIN o : o[j] = o[i] => j = i
    BY Zenon DEF PaysOnce
  <2> QED BY Zenon, <2>1, <2>2, AffordsShare
<1> QED BY <1>1, <1>2, <1>3, PTL DEF Spec
=============================================================================
