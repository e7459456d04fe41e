--------------------------- MODULE ObjectiveProofs --------------------------
(***************************************************************************)
(* What the objectives, and the engine that runs them, may do to the store *)
(* of a client.                                                            *)
(*                                                                         *)
(* Two sets that are in no store say what the clients have decided: <<v, r>>*)
(* is in K if role r of virtual channel v approves of it, <<v, r, y>> is in F*)
(* if role r has agreed to close v with payment y.  StoreOK relates a store*)
(* to them: a signature on a prefund state stands for an approval, one on a*)
(* final state for an agreement, and whatever a ledger channel guarantees, *)
(* or may guarantee once its queue is applied, is approved by everybody.   *)
(* The lemmas say that every operation on a store, and the Crank of every  *)
(* objective, leaves it so.  A client that decides for itself adds to K and*)
(* F, and what the others have stays right.                                *)
(***************************************************************************)
EXTENDS VirtualFund, VirtualDefund, DirectFund, DirectDefund, Induction

-----------------------------------------------------------------------------
(* Who approves of what *)

\* Client me has a role in virtual channel v.
Participates(me, v) == \E r \in Roles : Participants[v][r] = me
\* Everybody in v approves of it, if <<v, r>> \in K says that role r does.
Approves(K, v) == \A r \in Roles : <<v, r>> \in K

\* A proposal to guarantee a channel, or not to any more, that everybody approves of.
ProposalOK(p, K) == p.type \in {"Add", "Remove"} /\ p.target \in Targets /\ Approves(K, p.target)
QueueOK(q, K) == \E S : q \in Seq(S) /\ \A sp \in S : ProposalOK(sp.proposal, K)

\* Everybody approves of the channels that a ledger channel guarantees.
VarsOK(vars, K) ==
  /\ DOMAIN vars.outcome.guarantees = Targets
  /\ \A t \in Targets : IncludesTarget(vars.outcome, t) => Approves(K, t)

\* The signed vars, and whatever may come of the queue.
LedgerOK(ledger, K) ==
  /\ DOMAIN ledger = {"id", "myIndex", "current", "proposalQueue"}
  /\ VarsOK(ledger.current.vars, K)
  /\ QueueOK(ledger.proposalQueue, K)

LedgersOK(ledgers, K) == \A l \in DOMAIN ledgers : LedgerOK(ledgers[l], K)

\* A signature on a prefund state is that of somebody who approves of the channel.
FundStateOK(v, ss, K) == ss.state.turnNum = PreFundTurnNum =>
  \A s \in ss.sigs : s \in Roles /\ <<v, s>> \in K

\* The states of a virtual channel before and after it is paid with.
Opening(v, turnNum) == State(turnNum, InitialOutcome[v], FALSE)
Final(v, paid) == State(2, <<InitialOutcome[v][1] - paid, InitialOutcome[v][2] + paid>>, TRUE)

\* A final state is for a payment that all its signers agree to, if <<v, r, y>> \in F says
\* that role r agrees to payment y.
FinalStateOK(v, ss, F) ==
  \E y \in Int : /\ ss.state = Final(v, y)
                 /\ ss.sigs # {}
                 /\ \A s \in ss.sigs : <<v, s, y>> \in F

\* The states of v that a client has.
SignedOK(signed, v, K) ==
  /\ {PreFundTurnNum, PostFundTurnNum} \subseteq DOMAIN signed
  /\ \A n \in {PreFundTurnNum, PostFundTurnNum} :
       DOMAIN signed[n] = {"state", "sigs"} /\ signed[n].state = Opening(v, n)
  /\ FundStateOK(v, signed[PreFundTurnNum], K)

ChannelOK(me, v, channel, K) ==
  /\ DOMAIN channel = {"myIndex", "numParticipants", "signedStateForTurnNum",
                       "latestSupportedStateTurnNum"}
  /\ channel.myIndex = MyRole(me, v) /\ channel.numParticipants = 3
  /\ SignedOK(channel.signedStateForTurnNum, v, K)

\* A virtualdefund objective is about one payment, its signers agree to it, and so do I
\* if I approve of the objective; without an objective I have agreed to nothing.
DefundOK(me, v, d, F) ==
  /\ DOMAIN d = {"status", "paidToBob", "signatures"}
  /\ d.paidToBob \in Int
  /\ \A s \in d.signatures : <<v, s, d.paidToBob>> \in F
  /\ d.status = Approved => <<v, MyRole(me, v), d.paidToBob>> \in F
  /\ d.status = NoObjective /\ Participates(me, v) => \A y : <<v, MyRole(me, v), y>> \notin F

\* I approve of a channel from my decision on.
Agreed(status) == status \in {Approved, Completed}

\* What client me has about v.
VirtualOK(me, v, status, d, channels, K, F) ==
  /\ status # NoObjective \/ d.status # NoObjective => Participates(me, v) /\ v \in DOMAIN channels
  /\ Participates(me, v) => (Agreed(status) <=> <<v, MyRole(me, v)>> \in K)
  /\ v \in DOMAIN channels => ChannelOK(me, v, channels[v], K)
  /\ DefundOK(me, v, d, F)

VirtualsOK(me, fund, defund, channels, K, F) ==
  /\ DOMAIN fund = Targets
  /\ DOMAIN defund = Targets
  /\ \A v \in Targets : VirtualOK(me, v, fund[v], defund[v], channels, K, F)

\* A message stands for what its signatures say, and is about a channel of the client
\* that it is sent to.
MessageOK(to, m, K, F) ==
  \/ m.type = "SignedProposals" /\ QueueOK(m.payload, K)
  \/ /\ m.type = "SignedState"
     /\ \/ IsDirect(m.objective) /\ m.channel \in LedgerIDs
        \/ /\ m.objective = "VirtualFund"
           /\ m.channel \in Targets /\ Participates(to, m.channel)
           /\ FundStateOK(m.channel, m.payload, K)
        \/ /\ m.objective = "VirtualDefund"
           /\ m.channel \in Targets /\ Participates(to, m.channel)
           /\ FinalStateOK(m.channel, m.payload, F)

OutboxOK(q, K, F) == \E S : q \in Seq(S) /\ \A x \in S : MessageOK(x.to, x.message, K, F)

\* Transactions and chain events are about ledger channels.
AboutLedgers(q) == \E S : q \in Seq(S) /\ \A tx \in S : tx.l \in LedgerIDs

EffectsOK(e, K, F) ==
  /\ DOMAIN e = {"messagesToSend", "transactionsToSubmit", "proposalsToProcess"}
  /\ OutboxOK(e.messagesToSend, K, F)
  /\ AboutLedgers(e.transactionsToSubmit)

\* A ledger channel is owned by a direct objective or by none.
OwnersOK(owner) ==
  /\ DOMAIN owner = Targets \cup LedgerIDs
  /\ \A l \in LedgerIDs : owner[l] = NoOwner \/ IsDirect(owner[l])

ClientRecord(c) ==
  DOMAIN c = {"fund", "defund", "directfund", "directdefund", "channels", "ledgers",
              "onChainFunding", "channelToObjective", "sideEffects", "outbox", "submitted",
              "stopped"}

\* What is in the store of client me is consistent with the approvals K and the
\* agreements F of all clients.
StoreOK(me, c, K, F) ==
  /\ ClientRecord(c)
  /\ VirtualsOK(me, c.fund, c.defund, c.channels, K, F)
  /\ LedgersOK(c.ledgers, K)
  /\ OwnersOK(c.channelToObjective)
  /\ EffectsOK(c.sideEffects, K, F)
  /\ OutboxOK(c.outbox, K, F)
  /\ AboutLedgers(c.submitted)

\* d comes after c in a handler: the same ledger channels run.
Follows(me, c, d, K, F) == StoreOK(me, d, K, F) /\ DOMAIN d.ledgers = DOMAIN c.ledgers

-----------------------------------------------------------------------------
(* Sequences *)

\* A sequence over S, its members and its parts.
LEMMA SequenceMembers ==
  ASSUME NEW S, NEW q \in Seq(S)
  PROVE  /\ Len(q) \in Nat
         /\ DOMAIN q = 1..Len(q)
         /\ \A i \in 1..Len(q) : q[i] \in S
         /\ q # << >> => Len(q) \in Nat \ {0} /\ Head(q) = q[1] /\ q[1] \in S /\ Tail(q) \in Seq(S)
OBVIOUS

\* What follows the first i members of a sequence over S is one too.
LEMMA Suffixes ==
  ASSUME NEW S, NEW q \in Seq(S), NEW i \in 0..Len(q)
  PROVE  SubSeq(q, i + 1, Len(q)) \in Seq(S)
OBVIOUS

\* The first i members of a sequence over S are one too.
LEMMA Prefixes ==
  ASSUME NEW S, NEW q \in Seq(S), NEW i \in 0..Len(q)
  PROVE  SubSeq(q, 1, i) \in Seq(S)
OBVIOUS

\* Appending a value to a sequence over S.
LEMMA Appending ==
  ASSUME NEW S, NEW q \in Seq(S), NEW x
  PROVE  Append(q, x) \in Seq(S \cup {x})
<1>1. q \in Seq(S \cup {x})
  OBVIOUS
<1> QED BY <1>1

\* Joining two sequences.
LEMMA Concatenating ==
  ASSUME NEW S, NEW q \in Seq(S), NEW T, NEW r \in Seq(T)
  PROVE  q \o r \in Seq(S \cup T)
<1>1. q \in Seq(S \cup T) /\ r \in Seq(S \cup T)
  OBVIOUS
<1> QED BY <1>1

\* A function on 1..n is a sequence.
LEMMA Listing ==
  ASSUME NEW n \in Nat, NEW S, NEW q \in [1..n -> S]
  PROVE  q \in Seq(S)
OBVIOUS

-----------------------------------------------------------------------------
(* More approvals do no harm *)

\* A queue of proposals that everybody approves of stays one when there are more
\* approvals.
LEMMA QueueGrows ==
  ASSUME NEW K, NEW L, K \subseteq L, NEW q, QueueOK(q, K)
  PROVE  QueueOK(q, L)
<1>1. PICK S : q \in Seq(S) /\ \A sp \in S : ProposalOK(sp.proposal, K)
  BY Zenon DEF QueueOK
<1>2. ASSUME NEW sp \in S PROVE ProposalOK(sp.proposal, L)
  BY <1>1 DEF ProposalOK, Approves
<1> QED BY Zenon, <1>1, <1>2 DEF QueueOK

\* So do ledger channels ...
LEMMA LedgersGrow ==
  ASSUME NEW K, NEW L, K \subseteq L, NEW ledgers, LedgersOK(ledgers, K)
  PROVE  LedgersOK(ledgers, L)
<1> SUFFICES ASSUME NEW l \in DOMAIN ledgers PROVE LedgerOK(ledgers[l], L)
  BY Zenon DEF LedgersOK
<1>1. LedgerOK(ledgers[l], K)
  BY Zenon DEF LedgersOK
<1>2. VarsOK(ledgers[l].current.vars, L)
  BY Zenon, <1>1 DEF LedgerOK, VarsOK, Approves
<1>3. QueueOK(ledgers[l].proposalQueue, L)
  BY Zenon, <1>1, QueueGrows DEF LedgerOK
<1> QED BY Zenon, <1>1, <1>2, <1>3 DEF LedgerOK

\* ... messages, whose signatures still stand for approvals and agreements ...
LEMMA MessageGrows ==
  ASSUME NEW K, NEW L, K \subseteq L, NEW F, NEW G, F \subseteq G,
         NEW to, NEW m, MessageOK(to, m, K, F)
  PROVE  MessageOK(to, m, L, G)
<1>1. QueueOK(m.payload, K) => QueueOK(m.payload, L)
  BY Zenon, QueueGrows
<1>2. FundStateOK(m.channel, m.payload, K) => FundStateOK(m.channel, m.payload, L)
  BY Zenon DEF FundStateOK
<1>3. FinalStateOK(m.channel, m.payload, F) => FinalStateOK(m.channel, m.payload, G)
  BY Zenon DEF FinalStateOK
<1> QED BY Zenon, <1>1, <1>2, <1>3 DEF MessageOK

\* ... the messages a client has to send ...
LEMMA OutboxGrows ==
  ASSUME NEW K, NEW L, K \subseteq L, NEW F, NEW G, F \subseteq G, NEW q, OutboxOK(q, K, F)
  PROVE  OutboxOK(q, L, G)
<1>1. PICK S : q \in Seq(S) /\ \A x \in S : MessageOK(x.to, x.message, K, F)
  BY Zenon DEF OutboxOK
<1>2. ASSUME NEW x \in S PROVE MessageOK(x.to, x.message, L, G)
  BY Zenon, <1>1, MessageGrows
<1> QED BY Zenon, <1>1, <1>2 DEF OutboxOK

\* ... and the side effects it declared.
LEMMA EffectsGrow ==
  ASSUME NEW K, NEW L, K \subseteq L, NEW F, NEW G, F \subseteq G, NEW e, EffectsOK(e, K, F)
  PROVE  EffectsOK(e, L, G)
BY Zenon, OutboxGrows DEF EffectsOK

\* No decision and no signature of mine is new in L and G.
NothingOfMine(me, K, L, F, G) ==
  \A v \in Targets : Participates(me, v) =>
    /\ <<v, MyRole(me, v)>> \in L => <<v, MyRole(me, v)>> \in K
    /\ \A y : <<v, MyRole(me, v), y>> \in G => <<v, MyRole(me, v), y>> \in F

\* A client's store stays consistent when others approve or agree to more: nothing in
\* it denies what others do, only what the client itself has not done.
LEMMA StoreGrows ==
  ASSUME NEW K, NEW L, K \subseteq L, NEW F, NEW G, F \subseteq G,
         NEW me, NEW c, StoreOK(me, c, K, F), NothingOfMine(me, K, L, F, G)
  PROVE  StoreOK(me, c, L, G)
<1>1. LedgersOK(c.ledgers, L) /\ EffectsOK(c.sideEffects, L, G) /\ OutboxOK(c.outbox, L, G)
  BY Zenon, LedgersGrow, EffectsGrow, OutboxGrows DEF StoreOK
<1>2. ASSUME NEW v \in Targets
      PROVE  VirtualOK(me, v, c.fund[v], c.defund[v], c.channels, L, G)
  <2>1. VirtualOK(me, v, c.fund[v], c.defund[v], c.channels, K, F)
    BY Zenon DEF StoreOK, VirtualsOK
  <2>2. DefundOK(me, v, c.defund[v], G)
    <3>1. DefundOK(me, v, c.defund[v], F)
      BY Zenon, <2>1 DEF VirtualOK
    <3> QED BY Zenon, <3>1 DEF DefundOK, NothingOfMine
  <2>3. v \in DOMAIN c.channels => ChannelOK(me, v, c.channels[v], L)
    <3>1. v \in DOMAIN c.channels => ChannelOK(me, v, c.channels[v], K)
      BY Zenon, <2>1 DEF VirtualOK
    <3> QED BY Zenon, <3>1 DEF ChannelOK, SignedOK, FundStateOK
  <2> QED BY Zenon, <2>1, <2>2, <2>3 DEF VirtualOK, NothingOfMine
<1> QED BY Zenon, <1>1, <1>2 DEF StoreOK, VirtualsOK

-----------------------------------------------------------------------------
(* Queues of proposals, messages and transactions *)

\* The members of a queue of approved proposals, and what is left when some are done with.
LEMMA QueueParts ==
  ASSUME NEW q, NEW K, QueueOK(q, K)
  PROVE  /\ Len(q) \in Nat
         /\ DOMAIN q = 1..Len(q)
         /\ \A i \in 1..Len(q) : ProposalOK(q[i].proposal, K) /\ QueueOK(SubSeq(q, i + 1, Len(q)), K)
         /\ q # << >> => ProposalOK(q[1].proposal, K) /\ QueueOK(Tail(q), K)
<1>1. PICK S : q \in Seq(S) /\ \A sp \in S : ProposalOK(sp.proposal, K)
  BY Zenon DEF QueueOK
<1>2. Len(q) \in Nat /\ DOMAIN q = 1..Len(q)
  BY Zenon, <1>1, SequenceMembers
<1>3. ASSUME NEW i \in 1..Len(q)
      PROVE  ProposalOK(q[i].proposal, K) /\ QueueOK(SubSeq(q, i + 1, Len(q)), K)
  <2>1. q[i] \in S
    BY Zenon, <1>1, SequenceMembers
  <2>2. i \in 0..Len(q)
    BY <1>2
  <2>3. SubSeq(q, i + 1, Len(q)) \in Seq(S)
    BY Zenon, <1>1, <2>2, Suffixes
  <2> QED BY Zenon, <1>1, <2>1, <2>3 DEF QueueOK
<1>4. q # << >> => q[1] \in S /\ Tail(q) \in Seq(S)
  BY Zenon, <1>1, SequenceMembers
<1>5. q # << >> => ProposalOK(q[1].proposal, K) /\ QueueOK(Tail(q), K)
  BY Zenon, <1>1, <1>4 DEF QueueOK
<1> QED BY Zenon, <1>2, <1>3, <1>5

\* An approved proposal joins a queue.
LEMMA QueueAppended ==
  ASSUME NEW q, NEW K, QueueOK(q, K), NEW sp, ProposalOK(sp.proposal, K)
  PROVE  QueueOK(Append(q, sp), K)
<1>1. PICK S : q \in Seq(S) /\ \A x \in S : ProposalOK(x.proposal, K)
  BY Zenon DEF QueueOK
<1>2. Append(q, sp) \in Seq(S \cup {sp})
  BY Zenon, <1>1, Appending
<1>3. \A x \in S \cup {sp} : ProposalOK(x.proposal, K)
  BY Zenon, <1>1
<1> QED BY Zenon, <1>2, <1>3 DEF QueueOK

\* One approved proposal is a queue.
LEMMA QueueOfOne ==
  ASSUME NEW K, NEW sp, ProposalOK(sp.proposal, K)
  PROVE  QueueOK(<<sp>>, K)
<1>1. PICK q : q = <<sp>>
  BY Zenon
<1>2. \E S : q \in Seq(S) /\ \A x \in S : ProposalOK(x.proposal, K)
  <2>1. q \in Seq({sp}) /\ \A x \in {sp} : ProposalOK(x.proposal, K)
    BY <1>1
  <2> WITNESS {sp}
  <2> QED BY <2>1
<1>3. QueueOK(q, K)
  BY Zenon, <1>2 DEF QueueOK
<1> QED BY <1>1, <1>3

\* The empty queue.
LEMMA NoQueue ==
  ASSUME NEW K
  PROVE  QueueOK(<< >>, K)
<1>1. PICK q : q = << >>
  OBVIOUS
<1>2. \E S : q \in Seq(S) /\ \A x \in S : ProposalOK(x.proposal, K)
  <2>1. q \in Seq({}) /\ \A x \in {} : ProposalOK(x.proposal, K)
    BY <1>1
  <2> WITNESS {}
  <2> QED BY <2>1
<1>3. QueueOK(q, K)
  BY Zenon, <1>2 DEF QueueOK
<1> QED BY <1>1, <1>3

\* Messages to send after others.
LEMMA OutboxJoined ==
  ASSUME NEW K, NEW F, NEW q, OutboxOK(q, K, F), NEW r, OutboxOK(r, K, F)
  PROVE  OutboxOK(q \o r, K, F)
<1>1. PICK S : q \in Seq(S) /\ \A x \in S : MessageOK(x.to, x.message, K, F)
  BY Zenon DEF OutboxOK
<1>2. PICK T : r \in Seq(T) /\ \A x \in T : MessageOK(x.to, x.message, K, F)
  BY Zenon DEF OutboxOK
<1>3. q \o r \in Seq(S \cup T)
  BY Zenon, <1>1, <1>2, Concatenating
<1>4. \A x \in S \cup T : MessageOK(x.to, x.message, K, F)
  BY Zenon, <1>1, <1>2
<1> QED BY Zenon, <1>3, <1>4 DEF OutboxOK

\* The messages of an outbox, and what is left when some of them are sent.
LEMMA OutboxParts ==
  ASSUME NEW K, NEW F, NEW q, OutboxOK(q, K, F)
  PROVE  /\ Len(q) \in Nat
         /\ \A i \in 1..Len(q) : MessageOK(q[i].to, q[i].message, K, F)
         /\ \A i \in 0..Len(q) : OutboxOK(SubSeq(q, i + 1, Len(q)), K, F)
         /\ q # << >> => Len(q) \in Nat \ {0} /\ OutboxOK(Tail(q), K, F)
<1>1. PICK S : q \in Seq(S) /\ \A x \in S : MessageOK(x.to, x.message, K, F)
  BY Zenon DEF OutboxOK
<1>2. Len(q) \in Nat
  BY Zenon, <1>1, SequenceMembers
<1>3. ASSUME NEW i \in 1..Len(q) PROVE MessageOK(q[i].to, q[i].message, K, F)
  <2>1. q[i] \in S
    BY Zenon, <1>1, SequenceMembers
  <2> QED BY Zenon, <1>1, <2>1
<1>4. ASSUME NEW i \in 0..Len(q) PROVE OutboxOK(SubSeq(q, i + 1, Len(q)), K, F)
  BY Zenon, <1>1, Suffixes DEF OutboxOK
<1>5. q # << >> => Len(q) \in Nat \ {0} /\ OutboxOK(Tail(q), K, F)
  BY Zenon, <1>1, SequenceMembers DEF OutboxOK
<1> QED BY Zenon, <1>2, <1>3, <1>4, <1>5

\* One message is an outbox.
LEMMA OutboxOfOne ==
  ASSUME NEW K, NEW F, NEW to, NEW m, MessageOK(to, m, K, F)
  PROVE  OutboxOK(<<To(to, m)>>, K, F)
<1>1. To(to, m).to = to /\ To(to, m).message = m
  BY DEF To
<1>2. PICK q : q = <<To(to, m)>>
  BY Zenon
<1>3. \E S : q \in Seq(S) /\ \A x \in S : MessageOK(x.to, x.message, K, F)
  <2>1. q \in Seq({To(to, m)})
    BY <1>2
  <2>2. \A x \in {To(to, m)} : MessageOK(x.to, x.message, K, F)
    BY Zenon, <1>1
  <2> WITNESS {To(to, m)}
  <2> QED BY <2>1, <2>2
<1>4. OutboxOK(q, K, F)
  BY Zenon, <1>3 DEF OutboxOK
<1> QED BY <1>2, <1>4

\* No messages and no transactions.
LEMMA NothingToSend ==
  ASSUME NEW K, NEW F
  PROVE  OutboxOK(<< >>, K, F) /\ AboutLedgers(<< >>)
<1>1. PICK q : q = << >>
  OBVIOUS
<1>2. \E S : /\ q \in Seq(S)
             /\ \A x \in S : x.l \in LedgerIDs /\ MessageOK(x.to, x.message, K, F)
  <2>1. q \in Seq({}) /\ \A x \in {} : x.l \in LedgerIDs /\ MessageOK(x.to, x.message, K, F)
    BY <1>1
  <2> WITNESS {}
  <2> QED BY <2>1
<1>3. OutboxOK(q, K, F) /\ AboutLedgers(q)
  BY Zenon, <1>2 DEF OutboxOK, AboutLedgers
<1> QED BY <1>1, <1>3

\* Transactions or events after others.
LEMMA TransactionsJoined ==
  ASSUME NEW q, AboutLedgers(q), NEW r, AboutLedgers(r)
  PROVE  AboutLedgers(q \o r)
<1>1. PICK S : q \in Seq(S) /\ \A tx \in S : tx.l \in LedgerIDs
  BY Zenon DEF AboutLedgers
<1>2. PICK T : r \in Seq(T) /\ \A tx \in T : tx.l \in LedgerIDs
  BY Zenon DEF AboutLedgers
<1>3. q \o r \in Seq(S \cup T)
  BY Zenon, <1>1, <1>2, Concatenating
<1>4. \A tx \in S \cup T : tx.l \in LedgerIDs
  BY Zenon, <1>1, <1>2
<1> QED BY Zenon, <1>3, <1>4 DEF AboutLedgers

\* One more transaction.
LEMMA TransactionAppended ==
  ASSUME NEW q, AboutLedgers(q), NEW tx, tx.l \in LedgerIDs
  PROVE  AboutLedgers(Append(q, tx))
<1>1. PICK S : q \in Seq(S) /\ \A x \in S : x.l \in LedgerIDs
  BY Zenon DEF AboutLedgers
<1>2. Append(q, tx) \in Seq(S \cup {tx})
  BY Zenon, <1>1, Appending
<1>3. \A x \in S \cup {tx} : x.l \in LedgerIDs
  BY Zenon, <1>1
<1> QED BY Zenon, <1>2, <1>3 DEF AboutLedgers

\* No side effects.
LEMMA NoEffectsOK ==
  ASSUME NEW K, NEW F
  PROVE  EffectsOK(NoEffects, K, F)
<1>1. /\ NoEffects.messagesToSend = << >> /\ NoEffects.transactionsToSubmit = << >>
      /\ DOMAIN NoEffects = {"messagesToSend", "transactionsToSubmit", "proposalsToProcess"}
  BY DEF NoEffects
<1> QED BY Zenon, <1>1, NothingToSend DEF EffectsOK

-----------------------------------------------------------------------------
(* Ledger channels *)

\* HandleProposal guarantees a virtual channel only if the proposal is for it, so that
\* all participants approve of what a ledger channel guarantees.
LEMMA HandledVars ==
  ASSUME NEW K, NEW w, VarsOK(w, K), NEW p, ProposalOK(p, K)
  PROVE  VarsOK(HandleProposal(w, p), K)
<1>1. CASE ~CanHandle(w, p)
  BY Zenon, <1>1 DEF HandleProposal
<1>2. CASE CanHandle(w, p) /\ p.type = "Add"
  <2>1. HandleProposal(w, p) = Add(w, p)
    BY <1>2 DEF HandleProposal
  <2>2. Add(w, p).outcome.guarantees = [w.outcome.guarantees EXCEPT ![p.target] = p.guarantee]
    BY DEF Add
  <2> QED BY <2>1, <2>2 DEF VarsOK, IncludesTarget, ProposalOK
<1>3. CASE CanHandle(w, p) /\ p.type = "Remove"
  <2>1. HandleProposal(w, p) = Remove(w, p)
    BY <1>3 DEF HandleProposal
  <2>2. Remove(w, p).outcome.guarantees = [w.outcome.guarantees EXCEPT ![p.target] = NoGuarantee]
    BY DEF Remove
  <2> QED BY <2>1, <2>2 DEF VarsOK, IncludesTarget, ProposalOK
<1> QED BY <1>1, <1>2, <1>3 DEF ProposalOK

\* f[n] are the vars after n proposals.
Applying(f, ledger, N) ==
  f = [n \in 0..N |-> IF n = 0 THEN ledger.current.vars
                      ELSE HandleProposal(f[n - 1], ledger.proposalQueue[n].proposal)]

\* The function that varsAfter defines by recursion exists ...
LEMMA ApplyingExists ==
  ASSUME NEW ledger, NEW N \in Nat
  PROVE  \E f : Applying(f, ledger, N)
<1> DEFINE S == {n \in 0..N : \E f : Applying(f, ledger, n)}
<1>1. 0 \in S
  <2>1. PICK f : f = [n \in 0..0 |-> ledger.current.vars]
    BY Zenon
  <2>2. Applying(f, ledger, 0)
    BY <2>1 DEF Applying
  <2> QED BY <2>2
<1>2. ASSUME NEW n \in 1..N, n - 1 \in S PROVE n \in S
  <2>1. PICK f : Applying(f, ledger, n - 1)
    BY <1>2
  <2>2. PICK g : g = [k \in 0..n |-> IF k < n THEN f[k]
                         ELSE HandleProposal(f[n - 1], ledger.proposalQueue[n].proposal)]
    BY Zenon
  <2>3. ASSUME NEW k \in 0..n
        PROVE  g[k] = IF k = 0 THEN ledger.current.vars
                      ELSE HandleProposal(g[k - 1], ledger.proposalQueue[k].proposal)
    BY <2>1, <2>2 DEF Applying
  <2>4. Applying(g, ledger, n)
    BY <2>2, <2>3 DEF Applying
  <2> QED BY <2>4
<1>3. 0..N \subseteq S
  <2> HIDE DEF S
  <2> QED BY <1>1, <1>2, InductionUpTo
<1> QED BY <1>3

\* ... so that varsAfter is one.
LEMMA VarsAfter ==
  ASSUME NEW ledger, Len(ledger.proposalQueue) \in Nat
  PROVE  Applying(varsAfter(ledger), ledger, Len(ledger.proposalQueue))
BY Zenon, ApplyingExists DEF varsAfter, Applying

\* Whatever part of its queue a ledger channel applies, everybody approves of what it
\* guarantees then.
LEMMA VarsAfterOK ==
  ASSUME NEW K, NEW ledger, LedgerOK(ledger, K), NEW i \in 0..Len(ledger.proposalQueue)
  PROVE  VarsOK(varsAfter(ledger)[i], K)
<1>1. PICK N : N = Len(ledger.proposalQueue)
  OBVIOUS
<1>2. QueueOK(ledger.proposalQueue, K) /\ VarsOK(ledger.current.vars, K)
  BY Zenon DEF LedgerOK
<1>3. N \in Nat /\ \A n \in 1..N : ProposalOK(ledger.proposalQueue[n].proposal, K)
  BY Zenon, <1>1, <1>2, QueueParts
<1>4. PICK f : f = varsAfter(ledger)
  OBVIOUS
<1>5. Applying(f, ledger, N)
  BY Zenon, <1>1, <1>3, <1>4, VarsAfter
<1> DEFINE S == {n \in 0..N : VarsOK(f[n], K)}
<1>6. 0 \in S
  <2>1. f[0] = ledger.current.vars
    BY <1>3, <1>5 DEF Applying
  <2> QED BY <1>2, <1>3, <2>1
<1>7. ASSUME NEW n \in 1..N, n - 1 \in S PROVE n \in S
  <2>1. f[n] = HandleProposal(f[n - 1], ledger.proposalQueue[n].proposal) /\ n \in 0..N
    BY <1>3, <1>5 DEF Applying
  <2>2. VarsOK(f[n - 1], K)
    BY Zenon, <1>7
  <2>3. VarsOK(f[n], K)
    BY Zenon, <2>1, <2>2, <1>3, HandledVars
  <2> QED BY Zenon, <2>1, <2>3
<1>8. 0..N \subseteq S
  <2> HIDE DEF S
  <2> QED BY Zenon, <1>3, <1>6, <1>7, InductionUpTo
<1> QED BY Zenon, <1>1, <1>4, <1>8

\* Propose puts a proposal that everybody approves of into the queue.
LEMMA ProposeOK ==
  ASSUME NEW K, NEW ledger, LedgerOK(ledger, K), NEW p, ProposalOK(p, K)
  PROVE  LedgerOK(Propose(ledger, p), K)
<1>1. PICK w : w = HandleProposal(latestProposedVars(ledger), p)
  OBVIOUS
<1>2. PICK sp : sp = [sig |-> Sign(w, Leader), proposal |-> p, turnNum |-> w.turnNum]
  BY Zenon
<1>3. Propose(ledger, p) = [ledger EXCEPT !.proposalQueue = Append(@, sp)]
  BY <1>1, <1>2 DEF Propose
<1>4. PICK q : q = Append(ledger.proposalQueue, sp)
  BY Zenon
<1>5. QueueOK(q, K)
  BY Zenon, <1>2, <1>4, QueueAppended DEF LedgerOK
<1>6. LedgerOK([ledger EXCEPT !.proposalQueue = q], K)
  BY <1>5 DEF LedgerOK
<1> QED BY Zenon, <1>3, <1>4, <1>6

\* So does followerReceive.
LEMMA followerReceiveOK ==
  ASSUME NEW K, NEW ledger, LedgerOK(ledger, K), NEW sp, ProposalOK(sp.proposal, K)
  PROVE  LedgerOK(followerReceive(ledger, sp), K)
<1>1. PICK q : q = Append(ledger.proposalQueue, sp)
  BY Zenon
<1>2. QueueOK(q, K)
  BY Zenon, <1>1, QueueAppended DEF LedgerOK
<1>3. LedgerOK([ledger EXCEPT !.proposalQueue = q], K)
  BY <1>2 DEF LedgerOK
<1> QED BY Zenon, <1>1, <1>3 DEF followerReceive

\* A ledger channel moves to other signed vars and to another queue.
LEMMA LedgerMoves ==
  ASSUME NEW K, NEW ledger, LedgerOK(ledger, K), NEW w, VarsOK(w, K), NEW sigs,
         NEW q, QueueOK(q, K)
  PROVE  LedgerOK([ledger EXCEPT !.current = [vars |-> w, sigs |-> sigs], !.proposalQueue = q], K)
BY DEF LedgerOK

\* leaderReceive moves along the queue, to vars the queue leads through.
LEMMA leaderReceiveOK ==
  ASSUME NEW K, NEW ledger, LedgerOK(ledger, K), NEW sp
  PROVE  LedgerOK(leaderReceive(ledger, sp), K)
<1>1. CASE ~leaderAccepts(ledger, sp)
  BY Zenon, <1>1 DEF leaderReceive
<1>2. CASE leaderAccepts(ledger, sp)
  <2>1. PICK N : N = Len(ledger.proposalQueue)
    BY Zenon
  <2> DEFINE i == CHOOSE i \in 1..Len(ledger.proposalQueue) : Countersigns(ledger, sp, i)
             sigs == [p \in Parties |-> IF p = Leader THEN ledger.proposalQueue[i].sig ELSE sp.sig]
             next == [ledger EXCEPT !.current = [vars |-> varsAfter(ledger)[i], sigs |-> sigs],
                                    !.proposalQueue = SubSeq(@, i + 1, Len(@))]
  <2>2. leaderReceive(ledger, sp) = next
    BY Zenon, <1>2 DEF leaderReceive
  <2>3. i \in 1..N
    BY Zenon, <1>2, <2>1 DEF leaderAccepts
  <2> HIDE DEF i, sigs
  <2>4. QueueOK(ledger.proposalQueue, K) /\ N \in Nat
    BY Zenon, <2>1, QueueParts DEF LedgerOK
  <2>5. QueueOK(SubSeq(ledger.proposalQueue, i + 1, Len(ledger.proposalQueue)), K)
    BY Zenon, <2>1, <2>3, <2>4, QueueParts
  <2>6. i \in 0..Len(ledger.proposalQueue)
    BY <2>1, <2>3, <2>4
  <2>7. VarsOK(varsAfter(ledger)[i], K)
    BY Zenon, <2>6, VarsAfterOK
  <2>8. LedgerOK(next, K)
    BY Zenon, <2>5, <2>7, LedgerMoves
  <2> QED BY Zenon, <2>2, <2>8
<1> QED BY Zenon, <1>1, <1>2

\* Receive, of the leader or the follower.
LEMMA ReceiveOK ==
  ASSUME NEW K, NEW ledger, LedgerOK(ledger, K), NEW sp, ProposalOK(sp.proposal, K)
  PROVE  LedgerOK(Receive(ledger, sp), K)
BY Zenon, followerReceiveOK, leaderReceiveOK DEF Receive

\* SignNextProposal moves one proposal ahead, and what it sends back is that proposal.
LEMMA SignNextProposalOK ==
  ASSUME NEW K, NEW ledger, LedgerOK(ledger, K), ledger.proposalQueue # << >>
  PROVE  /\ LedgerOK(SignNextProposal(ledger), K)
         /\ ProposalOK(Countersigned(ledger).proposal, K)
<1>1. PICK p : p = ledger.proposalQueue[1].proposal
  OBVIOUS
<1>2. ProposalOK(p, K) /\ QueueOK(Tail(ledger.proposalQueue), K)
  BY Zenon, <1>1, QueueParts DEF LedgerOK
<1>3. PICK w : w = HandleProposal(ledger.current.vars, p)
  OBVIOUS
<1>4. VarsOK(w, K)
  BY Zenon, <1>2, <1>3, HandledVars DEF LedgerOK
<1>6. PICK sigs : sigs = [r \in Parties |-> IF r = Leader THEN ledger.proposalQueue[1].sig
                                                           ELSE Sign(w, Follower)]
  BY Zenon
<1> DEFINE next == [ledger EXCEPT !.current = [vars |-> w, sigs |-> sigs], !.proposalQueue = Tail(@)]
<1>7. SignNextProposal(ledger) = next
  BY Zenon, <1>1, <1>3, <1>6 DEF SignNextProposal
<1>9. LedgerOK(next, K)
  BY Zenon, <1>2, <1>4, LedgerMoves
<1> HIDE DEF next
<1>8. Countersigned(ledger).proposal = p
  BY <1>1 DEF Countersigned
<1> QED BY Zenon, <1>2, <1>7, <1>8, <1>9

-----------------------------------------------------------------------------
(* Virtual channels *)

\* A participant's role in a virtual channel.
LEMMA MyRoleOK ==
  ASSUME NEW v \in Targets, NEW me, Participates(me, v)
  PROVE  MyRole(me, v) \in Roles /\ Participants[v][MyRole(me, v)] = me
BY Zenon DEF Participates, MyRole

\* The participant in a role has that role.
LEMMA RoleOf ==
  ASSUME NEW v \in Targets, NEW r \in Roles
  PROVE  /\ Participates(Participants[v][r], v) /\ MyRole(Participants[v][r], v) = r
         /\ Participants[v][r] \in Clients
<1>1. Participates(Participants[v][r], v)
  BY Zenon DEF Participates
<1>2. \A s \in Roles : Participants[v][s] = Participants[v][r] => s = r
  BY Zenon, ParticipantsAssumption
<1>3. Participants[v] \in [Roles -> Clients]
  BY Zenon, ParticipantsAssumption
<1> QED BY Zenon, <1>1, <1>2, <1>3, MyRoleOK

\* New makes a channel with no signatures.
LEMMA NewChannelOK ==
  ASSUME NEW v, NEW me, NEW K
  PROVE  ChannelOK(me, v, New(Opening(v, PreFundTurnNum), MyRole(me, v), 3), K)
<1>1. PICK signed : signed = [n \in {PreFundTurnNum, PostFundTurnNum} |->
                                SignedState(IF n = PreFundTurnNum THEN Opening(v, PreFundTurnNum)
                                            ELSE [Opening(v, PreFundTurnNum) EXCEPT !.turnNum = n], {})]
  BY Zenon
<1>2. SignedOK(signed, v, K)
  BY Zenon, <1>1 DEF SignedOK, SignedState, Opening, State, FundStateOK, PreFundTurnNum, PostFundTurnNum
<1> QED BY <1>1, <1>2 DEF New, ChannelOK

\* Signatures on a prefund state that stand for approvals are merged into those of the
\* channel.
LEMMA MergedOK ==
  ASSUME NEW v, NEW K, NEW signed, SignedOK(signed, v, K), NEW ss, FundStateOK(v, ss, K)
  PROVE  SignedOK(MergeSignatures(signed, ss), v, K)
<1>1. PICK k : k = ss.state.turnNum
  OBVIOUS
<1>2. CASE k \in DOMAIN signed
  <2>1. PICK merged : merged = [signed EXCEPT ![k].sigs = @ \cup ss.sigs]
    BY Zenon
  <2>2. MergeSignatures(signed, ss) = merged
    BY <1>1, <1>2, <2>1 DEF MergeSignatures
  <2>3. DOMAIN merged = DOMAIN signed
    BY <2>1
  <2>4. ASSUME NEW n \in {PreFundTurnNum, PostFundTurnNum}
        PROVE  /\ DOMAIN merged[n] = {"state", "sigs"} /\ merged[n].state = Opening(v, n)
               /\ merged[n].sigs = IF n = k THEN signed[n].sigs \cup ss.sigs ELSE signed[n].sigs
    BY Zenon, <2>1 DEF SignedOK
  <2>5. FundStateOK(v, merged[PreFundTurnNum], K)
    BY <1>1, <2>4 DEF SignedOK, FundStateOK
  <2> QED BY Zenon, <2>2, <2>3, <2>4, <2>5 DEF SignedOK
<1>3. CASE k \notin DOMAIN signed
  <2>1. PICK merged : merged = Put(signed, k, ss)
    OBVIOUS
  <2>2. MergeSignatures(signed, ss) = merged
    BY <1>1, <1>3, <2>1 DEF MergeSignatures
  <2>3. DOMAIN signed \subseteq DOMAIN merged /\ \A n \in DOMAIN signed : merged[n] = signed[n]
    BY <1>3, <2>1 DEF Put
  <2> QED BY <2>2, <2>3 DEF SignedOK
<1> QED BY Zenon, <1>2, <1>3

\* AddSignedState, likewise.
LEMMA AddedOK ==
  ASSUME NEW v, NEW me, NEW K, NEW channel, ChannelOK(me, v, channel, K),
         NEW ss, FundStateOK(v, ss, K)
  PROVE  ChannelOK(me, v, AddSignedState(channel, ss), K)
<1>1. PICK signed : signed = MergeSignatures(channel.signedStateForTurnNum, ss)
  OBVIOUS
<1>2. SignedOK(signed, v, K)
  BY Zenon, <1>1, MergedOK DEF ChannelOK
<1>3. PICK added : added = [channel EXCEPT !.signedStateForTurnNum = signed]
  BY Zenon
<1>4. ChannelOK(me, v, added, K)
  BY <1>2, <1>3 DEF ChannelOK
<1>5. ChannelOK(me, v, [added EXCEPT !.latestSupportedStateTurnNum = ss.state.turnNum], K)
  BY <1>4 DEF ChannelOK
<1> QED BY Zenon, <1>1, <1>3, <1>4, <1>5 DEF AddSignedState

\* Three of the roles are all of them.
LEMMA AllRoles ==
  ASSUME NEW S \in SUBSET Roles, Cardinality(S) = 3
  PROVE  S = Roles
<1>1. IsFiniteSet(Roles) /\ Cardinality(Roles) = 3
  <2>1. IsFiniteSet({}) /\ Cardinality({}) = 0
    BY Zenon, FS_EmptySet
  <2>2. IsFiniteSet({1}) /\ Cardinality({1}) = 1
    BY FS_Singleton
  <2>3. IsFiniteSet({1} \cup {2}) /\ Cardinality({1} \cup {2}) = 2
    <3>1. 2 \notin {1}
      OBVIOUS
    <3> QED BY <2>2, <3>1, FS_AddElement
  <2>4. IsFiniteSet(({1} \cup {2}) \cup {3}) /\ Cardinality(({1} \cup {2}) \cup {3}) = 3
    <3>1. 3 \notin {1} \cup {2}
      OBVIOUS
    <3> QED BY <2>3, <3>1, FS_AddElement
  <2>5. Roles = ({1} \cup {2}) \cup {3}
    BY DEF Roles, Alice, Irene, Bob
  <2> QED BY Zenon, <2>4, <2>5
<1> QED BY Zenon, <1>1, FS_Subset

\* This is where approvals meet: a client that has a complete prefund state knows that
\* everybody approves of the channel.
LEMMA PreFundApproves ==
  ASSUME NEW v, NEW me, NEW K, NEW channel, ChannelOK(me, v, channel, K), PreFundComplete(channel)
  PROVE  Approves(K, v)
<1>1. PICK sigs : sigs = channel.signedStateForTurnNum[PreFundTurnNum].sigs
  OBVIOUS
<1>2. Cardinality(sigs) = 3
  BY <1>1 DEF PreFundComplete, HasAllSignatures, ChannelOK
<1>3. channel.signedStateForTurnNum[PreFundTurnNum].state.turnNum = PreFundTurnNum
  BY DEF ChannelOK, SignedOK, Opening, State
<1>4. \A s \in sigs : s \in Roles /\ <<v, s>> \in K
  BY Zenon, <1>1, <1>3 DEF ChannelOK, SignedOK, FundStateOK
<1>5. sigs = Roles
  <2>1. sigs \in SUBSET Roles
    BY Zenon, <1>4
  <2> QED BY Zenon, <1>2, <2>1, AllRoles
<1> QED BY Zenon, <1>4, <1>5 DEF Approves

-----------------------------------------------------------------------------
(* The store *)

\* d differs from c in nothing that StoreOK is about.
LEMMA StoreSame ==
  ASSUME NEW me, NEW c, NEW K, NEW F, StoreOK(me, c, K, F),
         NEW d, ClientRecord(d), d.fund = c.fund, d.defund = c.defund, d.channels = c.channels,
         d.ledgers = c.ledgers, d.channelToObjective = c.channelToObjective,
         d.sideEffects = c.sideEffects, d.outbox = c.outbox, d.submitted = c.submitted
  PROVE  StoreOK(me, d, K, F)
BY Zenon DEF StoreOK

\* Panic stops the client and changes nothing in its store.
LEMMA PanicOK ==
  ASSUME NEW me, NEW c, NEW K, NEW F, StoreOK(me, c, K, F)
  PROVE  StoreOK(me, Panic(c), K, F) /\ Panic(c).ledgers = c.ledgers /\ Panic(c).stopped
<1>1. PICK d : d = Panic(c)
  OBVIOUS
<1>2. /\ ClientRecord(d) /\ d.fund = c.fund /\ d.defund = c.defund /\ d.channels = c.channels
      /\ d.ledgers = c.ledgers /\ d.channelToObjective = c.channelToObjective
      /\ d.sideEffects = NoEffects /\ d.outbox = c.outbox /\ d.submitted = c.submitted
      /\ d.stopped
  BY <1>1 DEF Panic, StoreOK, ClientRecord
<1>3. StoreOK(me, d, K, F)
  BY Zenon, <1>2, NoEffectsOK DEF StoreOK
<1> QED BY Zenon, <1>1, <1>2, <1>3

\* A client takes over ledger channels whose guarantees and proposals are approved.
LEMMA SetLedgersOK ==
  ASSUME NEW me, NEW c, NEW K, NEW F, StoreOK(me, c, K, F), NEW ledgers, LedgersOK(ledgers, K),
         NEW d, d = [c EXCEPT !.ledgers = ledgers]
  PROVE  StoreOK(me, d, K, F) /\ d.ledgers = ledgers
<1>2. /\ ClientRecord(d) /\ d.fund = c.fund /\ d.defund = c.defund /\ d.channels = c.channels
      /\ d.ledgers = ledgers /\ d.channelToObjective = c.channelToObjective
      /\ d.sideEffects = c.sideEffects /\ d.outbox = c.outbox /\ d.submitted = c.submitted
  BY DEF StoreOK, ClientRecord
<1> QED BY Zenon, <1>2 DEF StoreOK

\* DestroyConsensusChannel.
LEMMA DestroyConsensusChannelOK ==
  ASSUME NEW me, NEW c, NEW K, NEW F, StoreOK(me, c, K, F), NEW l
  PROVE  StoreOK(me, DestroyConsensusChannel(c, l), K, F)
<1>1. PICK ledgers : ledgers = [d \in DOMAIN c.ledgers \ {l} |-> c.ledgers[d]]
  BY Zenon
<1>2. LedgersOK(ledgers, K)
  BY <1>1 DEF LedgersOK, StoreOK
<1>3. PICK d : d = DestroyConsensusChannel(c, l)
  OBVIOUS
<1>4. d = [c EXCEPT !.ledgers = ledgers]
  BY <1>1, <1>3 DEF DestroyConsensusChannel
<1>5. StoreOK(me, d, K, F)
  BY Zenon, <1>2, <1>4, SetLedgersOK
<1> QED BY Zenon, <1>3, <1>5

\* SetConsensusChannel.
LEMMA SetConsensusChannelOK ==
  ASSUME NEW me, NEW c, NEW K, NEW F, StoreOK(me, c, K, F), NEW ledger, LedgerOK(ledger, K)
  PROVE  StoreOK(me, SetConsensusChannel(c, ledger), K, F)
<1>1. PICK ledgers : ledgers = Put(c.ledgers, ledger.id, ledger)
  OBVIOUS
<1>2. LedgersOK(ledgers, K)
  BY <1>1 DEF LedgersOK, StoreOK, Put
<1>3. PICK d : d = SetConsensusChannel(c, ledger)
  OBVIOUS
<1>4. d = [c EXCEPT !.ledgers = ledgers]
  BY <1>1, <1>3 DEF SetConsensusChannel
<1>5. StoreOK(me, d, K, F)
  BY Zenon, <1>2, <1>4, SetLedgersOK
<1> QED BY Zenon, <1>3, <1>5

\* A ledger channel of the client is changed; the same ones run.
LEMMA UpdateLedgerOK ==
  ASSUME NEW me, NEW c, NEW K, NEW F, StoreOK(me, c, K, F),
         NEW l, NEW ledger, LedgerOK(ledger, K)
  PROVE  /\ StoreOK(me, [c EXCEPT !.ledgers[l] = ledger], K, F)
         /\ DOMAIN [c EXCEPT !.ledgers[l] = ledger].ledgers = DOMAIN c.ledgers
<1>1. PICK ledgers : ledgers = [c.ledgers EXCEPT ![l] = ledger]
  BY Zenon
<1>2. LedgersOK(ledgers, K)
  BY <1>1 DEF LedgersOK, StoreOK
<1>3. DOMAIN ledgers = DOMAIN c.ledgers
  BY <1>1
<1>4. PICK d : d = [c EXCEPT !.ledgers[l] = ledger]
  BY Zenon
<1>5. d = [c EXCEPT !.ledgers = ledgers]
  BY <1>1, <1>4 DEF StoreOK, ClientRecord
<1>6. StoreOK(me, d, K, F) /\ d.ledgers = ledgers
  BY <1>2, <1>5, SetLedgersOK
<1> QED BY Zenon, <1>3, <1>4, <1>6

\* The channels are those before or have approved signatures only.
ChannelsOK(me, old, channels, K) ==
  \A v \in Targets : /\ v \in DOMAIN old => v \in DOMAIN channels
                     /\ v \in DOMAIN channels => ChannelOK(me, v, channels[v], K)

\* A client takes over channels of which the virtual ones have approved signatures only.
LEMMA SetChannelsOK ==
  ASSUME NEW me, NEW c, NEW K, NEW F, StoreOK(me, c, K, F), NEW channels,
         ChannelsOK(me, c.channels, channels, K), NEW d, d = [c EXCEPT !.channels = channels]
  PROVE  StoreOK(me, d, K, F) /\ d.ledgers = c.ledgers
<1>2. /\ ClientRecord(d) /\ d.fund = c.fund /\ d.defund = c.defund /\ d.channels = channels
      /\ d.ledgers = c.ledgers /\ d.channelToObjective = c.channelToObjective
      /\ d.sideEffects = c.sideEffects /\ d.outbox = c.outbox /\ d.submitted = c.submitted
  BY DEF StoreOK, ClientRecord
<1>3. VirtualsOK(me, d.fund, d.defund, d.channels, K, F)
  <2>1. VirtualsOK(me, c.fund, c.defund, c.channels, K, F)
    BY Zenon DEF StoreOK
  <2> QED BY Zenon, <1>2, <2>1 DEF VirtualsOK, VirtualOK, ChannelsOK
<1>4. StoreOK(me, d, K, F)
  BY Zenon, <1>2, <1>3 DEF StoreOK
<1> QED BY Zenon, <1>2, <1>4

\* SetChannel of a virtual channel.
LEMMA SetVirtualChannelOK ==
  ASSUME NEW me, NEW c, NEW K, NEW F, StoreOK(me, c, K, F),
         NEW v, NEW channel, ChannelOK(me, v, channel, K)
  PROVE  StoreOK(me, SetChannel(c, v, channel), K, F) /\ SetChannel(c, v, channel).ledgers = c.ledgers
<1>1. PICK channels : channels = Put(c.channels, v, channel)
  OBVIOUS
<1>2. ASSUME NEW u \in Targets
      PROVE  /\ u \in DOMAIN c.channels => u \in DOMAIN channels
             /\ u \in DOMAIN channels => ChannelOK(me, u, channels[u], K)
  <2>1. u \in DOMAIN c.channels => ChannelOK(me, u, c.channels[u], K)
    BY Zenon DEF StoreOK, VirtualsOK, VirtualOK
  <2> QED BY <1>1, <2>1 DEF Put
<1>3. PICK d : d = SetChannel(c, v, channel)
  OBVIOUS
<1>4. d = [c EXCEPT !.channels = channels]
  BY <1>1, <1>3 DEF SetChannel
<1>5. ChannelsOK(me, c.channels, channels, K)
  BY Zenon, <1>2 DEF ChannelsOK
<1>6. StoreOK(me, d, K, F) /\ d.ledgers = c.ledgers
  BY <1>4, <1>5, SetChannelsOK
<1> QED BY Zenon, <1>3, <1>6

\* What happens to the channels of ledgers that are funded or defunded does not matter
\* to virtual ones.
LEMMA SetDirectChannelOK ==
  ASSUME NEW me, NEW c, NEW K, NEW F, StoreOK(me, c, K, F), NEW l \in LedgerIDs, NEW channel
  PROVE  /\ StoreOK(me, SetChannel(c, l, channel), K, F)
         /\ SetChannel(c, l, channel).ledgers = c.ledgers
         /\ StoreOK(me, DestroyChannel(c, l), K, F)
         /\ StoreOK(me, [c EXCEPT !.channels[l] = channel], K, F)
         /\ [c EXCEPT !.channels[l] = channel].ledgers = c.ledgers
<1>1. PICK put : put = Put(c.channels, l, channel)
  OBVIOUS
<1>2. PICK dropped : dropped = [d \in DOMAIN c.channels \ {l} |-> c.channels[d]]
  BY Zenon
<1>3. PICK updated : updated = [c.channels EXCEPT ![l] = channel]
  BY Zenon
<1>4. ASSUME NEW v \in Targets
      PROVE  /\ v \in DOMAIN c.channels => ChannelOK(me, v, c.channels[v], K)
             /\ v \in DOMAIN c.channels <=> v \in DOMAIN put
             /\ v \in DOMAIN c.channels <=> v \in DOMAIN dropped
             /\ v \in DOMAIN c.channels <=> v \in DOMAIN updated
             /\ v \in DOMAIN c.channels =>
                  put[v] = c.channels[v] /\ dropped[v] = c.channels[v] /\ updated[v] = c.channels[v]
  <2>1. v # l
    BY LedgerAssumption
  <2>2. v \in DOMAIN c.channels => ChannelOK(me, v, c.channels[v], K)
    BY Zenon DEF StoreOK, VirtualsOK, VirtualOK
  <2> QED BY <1>1, <1>2, <1>3, <2>1, <2>2 DEF Put
<1>5. /\ ChannelsOK(me, c.channels, put, K)
      /\ ChannelsOK(me, c.channels, dropped, K)
      /\ ChannelsOK(me, c.channels, updated, K)
  BY Zenon, <1>4 DEF ChannelsOK
<1>6. PICK d : d = SetChannel(c, l, channel)
  OBVIOUS
<1>7. PICK e : e = DestroyChannel(c, l)
  OBVIOUS
<1>8. PICK f : f = [c EXCEPT !.channels[l] = channel]
  BY Zenon
<1>9. /\ d = [c EXCEPT !.channels = put]
      /\ e = [c EXCEPT !.channels = dropped]
      /\ f = [c EXCEPT !.channels = updated]
  BY <1>1, <1>2, <1>3, <1>6, <1>7, <1>8 DEF SetChannel, DestroyChannel, StoreOK, ClientRecord
<1>10. StoreOK(me, d, K, F) /\ d.ledgers = c.ledgers
  BY <1>5, <1>9, SetChannelsOK
<1>11. StoreOK(me, e, K, F)
  BY Zenon, <1>5, <1>9, SetChannelsOK
<1>12. StoreOK(me, f, K, F) /\ f.ledgers = c.ledgers
  BY <1>5, <1>9, SetChannelsOK
<1> QED BY Zenon, <1>6, <1>7, <1>8, <1>10, <1>11, <1>12

\* AddToChannel of a state whose signatures stand for approvals.
LEMMA AddToVirtualChannelOK ==
  ASSUME NEW me, NEW c, NEW K, NEW F, StoreOK(me, c, K, F),
         NEW v \in Targets, NEW ss, FundStateOK(v, ss, K)
  PROVE  StoreOK(me, AddToChannel(c, v, ss), K, F) /\ AddToChannel(c, v, ss).ledgers = c.ledgers
<1>1. PICK channels : channels = [c.channels EXCEPT ![v] = AddSignedState(c.channels[v], ss)]
  BY Zenon
<1>2. ASSUME NEW u \in Targets
      PROVE  /\ u \in DOMAIN c.channels => u \in DOMAIN channels
             /\ u \in DOMAIN channels => ChannelOK(me, u, channels[u], K)
  <2>1. u \in DOMAIN c.channels => ChannelOK(me, u, c.channels[u], K)
    BY Zenon DEF StoreOK, VirtualsOK, VirtualOK
  <2>2. CASE u = v
    <3>1. u \in DOMAIN c.channels => ChannelOK(me, u, AddSignedState(c.channels[u], ss), K)
      BY Zenon, <2>1, <2>2, AddedOK
    <3>2. DOMAIN channels = DOMAIN c.channels
      BY <1>1
    <3>3. u \in DOMAIN c.channels => channels[u] = AddSignedState(c.channels[u], ss)
      BY <1>1, <2>2
    <3> QED BY Zenon, <3>1, <3>2, <3>3
  <2>3. CASE u # v
    BY <1>1, <2>1, <2>3
  <2> QED BY Zenon, <2>2, <2>3
<1>3. PICK d : d = AddToChannel(c, v, ss)
  OBVIOUS
<1>4. d = [c EXCEPT !.channels = channels]
  BY <1>1, <1>3 DEF AddToChannel, StoreOK, ClientRecord
<1>5. ChannelsOK(me, c.channels, channels, K)
  BY Zenon, <1>2 DEF ChannelsOK
<1>6. StoreOK(me, d, K, F) /\ d.ledgers = c.ledgers
  BY <1>4, <1>5, SetChannelsOK
<1> QED BY Zenon, <1>3, <1>6

\* DeclareMessages.
LEMMA DeclareMessagesOK ==
  ASSUME NEW me, NEW c, NEW K, NEW F, StoreOK(me, c, K, F), NEW q, OutboxOK(q, K, F)
  PROVE  StoreOK(me, DeclareMessages(c, q), K, F) /\ DeclareMessages(c, q).ledgers = c.ledgers
<1>1. PICK d : d = DeclareMessages(c, q)
  OBVIOUS
<1>2. PICK e : e = [c.sideEffects EXCEPT !.messagesToSend = @ \o q]
  BY Zenon
<1>3. /\ ClientRecord(d) /\ d.fund = c.fund /\ d.defund = c.defund /\ d.channels = c.channels
      /\ d.ledgers = c.ledgers /\ d.channelToObjective = c.channelToObjective
      /\ d.sideEffects = e /\ d.outbox = c.outbox /\ d.submitted = c.submitted
  BY <1>1, <1>2 DEF DeclareMessages, StoreOK, ClientRecord
<1>4. /\ DOMAIN e = {"messagesToSend", "transactionsToSubmit", "proposalsToProcess"}
      /\ e.messagesToSend = c.sideEffects.messagesToSend \o q
      /\ e.transactionsToSubmit = c.sideEffects.transactionsToSubmit
  BY <1>2 DEF StoreOK, EffectsOK
<1>5. EffectsOK(e, K, F)
  BY Zenon, <1>4, OutboxJoined DEF StoreOK, EffectsOK
<1>6. StoreOK(me, d, K, F)
  BY Zenon, <1>3, <1>5 DEF StoreOK
<1> QED BY Zenon, <1>1, <1>3, <1>6

\* DeclareTransaction.
LEMMA DeclareTransactionOK ==
  ASSUME NEW me, NEW c, NEW K, NEW F, StoreOK(me, c, K, F), NEW tx, tx.l \in LedgerIDs
  PROVE  StoreOK(me, DeclareTransaction(c, tx), K, F)
<1>1. PICK d : d = DeclareTransaction(c, tx)
  OBVIOUS
<1>2. PICK e : e = [c.sideEffects EXCEPT !.transactionsToSubmit = Append(@, tx)]
  BY Zenon
<1>3. /\ ClientRecord(d) /\ d.fund = c.fund /\ d.defund = c.defund /\ d.channels = c.channels
      /\ d.ledgers = c.ledgers /\ d.channelToObjective = c.channelToObjective
      /\ d.sideEffects = e /\ d.outbox = c.outbox /\ d.submitted = c.submitted
  BY <1>1, <1>2 DEF DeclareTransaction, StoreOK, ClientRecord
<1>4. /\ DOMAIN e = {"messagesToSend", "transactionsToSubmit", "proposalsToProcess"}
      /\ e.messagesToSend = c.sideEffects.messagesToSend
      /\ e.transactionsToSubmit = Append(c.sideEffects.transactionsToSubmit, tx)
  BY <1>2 DEF StoreOK, EffectsOK
<1>5. EffectsOK(e, K, F)
  BY Zenon, <1>4, TransactionAppended DEF StoreOK, EffectsOK
<1>6. StoreOK(me, d, K, F)
  BY Zenon, <1>3, <1>5 DEF StoreOK
<1> QED BY Zenon, <1>1, <1>6

\* The recipients of an objective's messages are participants of its channel.
LEMMA ParticipantsOfOK ==
  ASSUME NEW objective, NEW ch, IF IsDirect(objective) THEN ch \in LedgerIDs ELSE ch \in Targets
  PROVE  LET all == ParticipantsOf(objective, ch)
         IN  /\ Len(all) \in Nat
             /\ \A i \in 1..Len(all) : ~IsDirect(objective) => Participates(all[i], ch)
<1>1. CASE IsDirect(objective)
  BY <1>1 DEF ParticipantsOf
<1>2. CASE ~IsDirect(objective)
  <2>1. Participants[ch] \in [1..3 -> Clients]
    BY <1>2, ParticipantsAssumption DEF Roles, Alice, Irene, Bob
  <2>2. Len(Participants[ch]) = 3
    BY <2>1
  <2>3. \A i \in 1..3 : Participates(Participants[ch][i], ch)
    BY DEF Participates, Roles, Alice, Irene, Bob
  <2> QED BY <1>2, <2>2, <2>3 DEF ParticipantsOf
<1> QED BY Zenon, <1>1, <1>2

\* What is signed may be sent to the other participants.
PayloadOK(objective, ch, ss, K, F) ==
  \/ IsDirect(objective) /\ ch \in LedgerIDs
  \/ objective = "VirtualFund" /\ ch \in Targets /\ FundStateOK(ch, ss, K)
  \/ objective = "VirtualDefund" /\ ch \in Targets /\ FinalStateOK(ch, ss, F)

\* A message with a signed state.
LEMMA StateMessageOK ==
  ASSUME NEW objective, NEW ch, NEW ss, NEW K, NEW F, PayloadOK(objective, ch, ss, K, F),
         NEW to, ~IsDirect(objective) => Participates(to, ch)
  PROVE  MessageOK(to, StateMessage(objective, ch, ss), K, F)
<1>1. PICK m : m = StateMessage(objective, ch, ss)
  OBVIOUS
<1>2. m.type = "SignedState" /\ m.objective = objective /\ m.channel = ch /\ m.payload = ss
  BY <1>1 DEF StateMessage
<1>3. objective \in {"VirtualFund", "VirtualDefund"} => ~IsDirect(objective)
  BY DEF IsDirect
<1>4. MessageOK(to, m, K, F)
  BY <1>2, <1>3 DEF PayloadOK, MessageOK
<1> QED BY Zenon, <1>1, <1>4

\* CreateSignedStateMessages.
LEMMA CreateSignedStateMessagesOK ==
  ASSUME NEW me, NEW objective, NEW ch, NEW ss, NEW K, NEW F, PayloadOK(objective, ch, ss, K, F)
  PROVE  OutboxOK(CreateSignedStateMessages(me, objective, ch, ss), K, F)
<1> DEFINE all == ParticipantsOf(objective, ch)
           myIndex == CHOOSE i \in DOMAIN all : all[i] = me
           q == CreateSignedStateMessages(me, objective, ch, ss)
           S == {To(all[i], StateMessage(objective, ch, ss)) : i \in 1..Len(all)}
<1>1. /\ Len(all) \in Nat
      /\ \A i \in 1..Len(all) : ~IsDirect(objective) => Participates(all[i], ch)
  <2>1. IF IsDirect(objective) THEN ch \in LedgerIDs ELSE ch \in Targets
    BY DEF PayloadOK, IsDirect
  <2> QED BY Zenon, <2>1, ParticipantsOfOK
<1>2. q = [i \in 1..(Len(all) - 1) |->
             To(all[IF i < myIndex THEN i ELSE i + 1], StateMessage(objective, ch, ss))]
  BY Zenon DEF CreateSignedStateMessages
<1> HIDE DEF all, myIndex, q
<1>3. ASSUME NEW x \in S PROVE MessageOK(x.to, x.message, K, F)
  <2>1. PICK i \in 1..Len(all) : x = To(all[i], StateMessage(objective, ch, ss))
    OBVIOUS
  <2>2. x.to = all[i] /\ x.message = StateMessage(objective, ch, ss)
    BY <2>1 DEF To
  <2> QED BY Zenon, <1>1, <2>2, StateMessageOK
<1>4. q \in Seq(S)
  <2>1. CASE Len(all) = 0
    <3>1. q = << >>
      BY <1>2, <2>1
    <3> QED BY <3>1
  <2>2. CASE Len(all) # 0
    <3>1. PICK n \in Nat : n = Len(all) - 1
      BY <1>1, <2>2
    <3>2. \A i \in 1..n : (IF i < myIndex THEN i ELSE i + 1) \in 1..Len(all)
      BY <1>1, <3>1
    <3>3. \A i \in 1..n : q[i] \in S
      BY <1>2, <3>1, <3>2
    <3>4. DOMAIN q = 1..n /\ q = [i \in 1..n |-> q[i]]
      BY <1>2, <3>1
    <3>5. q \in [1..n -> S]
      BY <3>3, <3>4
    <3> QED BY Zenon, <3>1, <3>5, Listing
  <2> QED BY Zenon, <2>1, <2>2
<1>5. OutboxOK(q, K, F)
  BY Zenon, <1>3, <1>4 DEF OutboxOK
<1> QED BY Zenon, <1>5 DEF q

\* SignAndSend: to sign is fine if my signature stands for my approval.
LEMMA SignAndSendOK ==
  ASSUME NEW me, NEW c, NEW K, NEW F, StoreOK(me, c, K, F), NEW objective, NEW ch, NEW state,
         objective # "VirtualDefund",
         PayloadOK(objective, ch, SignedByMe(c.channels[ch], state), K, F)
  PROVE  /\ StoreOK(me, SignAndSend(me, c, objective, ch, state), K, F)
         /\ SignAndSend(me, c, objective, ch, state).ledgers = c.ledgers
<1>1. PICK ss : ss = SignedByMe(c.channels[ch], state)
  OBVIOUS
<1>2. PICK q : q = CreateSignedStateMessages(me, objective, ch, ss)
  OBVIOUS
<1>3. OutboxOK(q, K, F)
  BY Zenon, <1>1, <1>2, CreateSignedStateMessagesOK
<1>4. PICK d : d = AddToChannel(c, ch, ss)
  OBVIOUS
<1>5. StoreOK(me, d, K, F) /\ d.ledgers = c.ledgers
  <2>1. CASE IsDirect(objective) /\ ch \in LedgerIDs
    <3>1. d = [c EXCEPT !.channels[ch] = AddSignedState(c.channels[ch], ss)]
      BY <1>4 DEF AddToChannel
    <3> QED BY <2>1, <3>1, SetDirectChannelOK
  <2>2. CASE ch \in Targets /\ FundStateOK(ch, ss, K)
    BY <1>4, <2>2, AddToVirtualChannelOK
  <2> QED BY Zenon, <1>1, <2>1, <2>2 DEF PayloadOK
<1>6. PICK e : e = DeclareMessages(d, q)
  OBVIOUS
<1>7. StoreOK(me, e, K, F) /\ e.ledgers = c.ledgers
  BY <1>3, <1>5, <1>6, DeclareMessagesOK
<1>8. SignAndSend(me, c, objective, ch, state) = e \/ SignAndSend(me, c, objective, ch, state) = Panic(c)
  BY Zenon, <1>1, <1>2, <1>4, <1>6 DEF SignAndSend
<1> QED BY Zenon, <1>7, <1>8, PanicOK

\* A message with a queue of proposals.
LEMMA ProposalMessageOK ==
  ASSUME NEW K, NEW F, NEW to, NEW q, QueueOK(q, K)
  PROVE  OutboxOK(<<To(to, ProposalMessage(q))>>, K, F)
<1>1. PICK m : m = ProposalMessage(q)
  OBVIOUS
<1>2. MessageOK(to, m, K, F)
  BY <1>1 DEF ProposalMessage, MessageOK
<1> QED BY Zenon, <1>1, <1>2, OutboxOfOne

\* A ledger channel is changed, and what comes of it is declared.
LEMMA SendProposalsOK ==
  ASSUME NEW me, NEW c, NEW K, NEW F, StoreOK(me, c, K, F), NEW l, NEW ledger, LedgerOK(ledger, K),
         NEW new, OutboxOK(new.messagesToSend, K, F), AboutLedgers(new.transactionsToSubmit),
         NEW d, d = [c EXCEPT !.ledgers[l] = ledger, !.sideEffects = Merge(@, new)]
  PROVE  Follows(me, c, d, K, F)
<1>2. PICK e : e = Merge(c.sideEffects, new)
  OBVIOUS
<1>3. PICK ledgers : ledgers = [c.ledgers EXCEPT ![l] = ledger]
  BY Zenon
<1>4. /\ ClientRecord(d) /\ d.fund = c.fund /\ d.defund = c.defund /\ d.channels = c.channels
      /\ d.ledgers = ledgers /\ d.channelToObjective = c.channelToObjective
      /\ d.sideEffects = e /\ d.outbox = c.outbox /\ d.submitted = c.submitted
  BY <1>2, <1>3 DEF StoreOK, ClientRecord
<1>5. LedgersOK(ledgers, K) /\ DOMAIN ledgers = DOMAIN c.ledgers
  BY <1>3 DEF LedgersOK, StoreOK
<1>7. /\ DOMAIN e = {"messagesToSend", "transactionsToSubmit", "proposalsToProcess"}
      /\ e.messagesToSend = c.sideEffects.messagesToSend \o new.messagesToSend
      /\ e.transactionsToSubmit = c.sideEffects.transactionsToSubmit \o new.transactionsToSubmit
  BY Zenon, <1>2 DEF Merge, StoreOK, EffectsOK
<1>10. EffectsOK(e, K, F)
  BY Zenon, <1>7, OutboxJoined, TransactionsJoined DEF StoreOK, EffectsOK
<1> QED BY Zenon, <1>4, <1>5, <1>10 DEF StoreOK, Follows

\* ProposeAndSend of a proposal that everybody approves of.
LEMMA ProposeAndSendOK ==
  ASSUME NEW me, NEW c, NEW K, NEW F, StoreOK(me, c, K, F), NEW p, ProposalOK(p, K),
         p.ledgerID \in DOMAIN c.ledgers
  PROVE  Follows(me, c, ProposeAndSend(c, p), K, F)
<1>1. PICK l : l = p.ledgerID
  OBVIOUS
<1>2. PICK ledger : ledger = Propose(c.ledgers[l], p)
  OBVIOUS
<1>3. LedgerOK(ledger, K)
  BY Zenon, <1>1, <1>2, ProposeOK DEF StoreOK, LedgersOK
<1>4. PICK new : new = [NoEffects EXCEPT !.messagesToSend =
                          <<To(LedgerParticipants[l][Follower],
                               ProposalMessage(ledger.proposalQueue))>>]
  BY Zenon
<1>5. /\ new.messagesToSend = <<To(LedgerParticipants[l][Follower],
                                  ProposalMessage(ledger.proposalQueue))>>
      /\ new.transactionsToSubmit = << >>
  BY <1>4 DEF NoEffects
<1>6. PICK d : d = [c EXCEPT !.ledgers[l] = ledger, !.sideEffects = Merge(@, new)]
  OBVIOUS
<1>7. Follows(me, c, d, K, F)
  <2>1. OutboxOK(new.messagesToSend, K, F)
    BY Zenon, <1>3, <1>5, ProposalMessageOK DEF LedgerOK
  <2>2. AboutLedgers(new.transactionsToSubmit)
    BY Zenon, <1>5, NothingToSend
  <2> QED BY Zenon, <1>3, <1>6, <2>1, <2>2, SendProposalsOK
<1>8. ProposeAndSend(c, p) = d \/ ProposeAndSend(c, p) = Panic(c)
  BY Zenon, <1>1, <1>2, <1>4, <1>6 DEF ProposeAndSend
<1> QED BY Zenon, <1>7, <1>8, PanicOK DEF Follows

\* SignAndSendNext: a follower signs what is in its queue, so that the channel it signs
\* for is one that everybody approves of.
LEMMA SignAndSendNextOK ==
  ASSUME NEW me, NEW c, NEW K, NEW F, StoreOK(me, c, K, F), NEW p, p.ledgerID \in DOMAIN c.ledgers
  PROVE  Follows(me, c, SignAndSendNext(c, p), K, F)
<1>1. PICK l : l = p.ledgerID
  OBVIOUS
<1>2. CASE ~CanSignNextProposal(c.ledgers[l], p)
  <2>1. SignAndSendNext(c, p) = Panic(c)
    BY Zenon, <1>1, <1>2 DEF SignAndSendNext
  <2> QED BY Zenon, <2>1, PanicOK DEF Follows
<1>3. CASE CanSignNextProposal(c.ledgers[l], p)
  <2>1. PICK ledger : ledger = SignNextProposal(c.ledgers[l])
    OBVIOUS
  <2>2. PICK sp : sp = Countersigned(c.ledgers[l])
    OBVIOUS
  <2>3. LedgerOK(ledger, K) /\ ProposalOK(sp.proposal, K)
    BY Zenon, <1>1, <1>3, <2>1, <2>2, SignNextProposalOK
       DEF StoreOK, LedgersOK, CanSignNextProposal
  <2>4. QueueOK(<<sp>>, K)
    BY Zenon, <2>3, QueueOfOne
  <2>5. PICK next : next = IF ledger.proposalQueue = << >> THEN << >>
                           ELSE <<ledger.proposalQueue[1].proposal>>
    BY Zenon
  <2>6. PICK new : new = [NoEffects EXCEPT
                            !.messagesToSend = <<To(LedgerParticipants[l][Leader],
                                                    ProposalMessage(<<sp>>))>>,
                            !.proposalsToProcess = next]
    OBVIOUS
  <2>7. /\ new.messagesToSend = <<To(LedgerParticipants[l][Leader], ProposalMessage(<<sp>>))>>
        /\ new.transactionsToSubmit = << >>
    BY <2>6 DEF NoEffects
  <2>8. PICK d : d = [c EXCEPT !.ledgers[l] = ledger, !.sideEffects = Merge(@, new)]
    OBVIOUS
  <2>9. SignAndSendNext(c, p) = d
    BY Zenon, <1>1, <1>3, <2>1, <2>2, <2>5, <2>6, <2>8 DEF SignAndSendNext
  <2>10. Follows(me, c, d, K, F)
    <3>1. OutboxOK(new.messagesToSend, K, F)
      BY Zenon, <2>4, <2>7, ProposalMessageOK
    <3>2. AboutLedgers(new.transactionsToSubmit)
      BY Zenon, <2>7, NothingToSend
    <3> QED BY Zenon, <2>3, <2>8, <3>1, <3>2, SendProposalsOK
  <2> QED BY Zenon, <2>9, <2>10
<1> QED BY Zenon, <1>2, <1>3

\* Ledger channels are owned by direct objectives.
LEMMA SetOwnersOK ==
  ASSUME NEW me, NEW c, NEW K, NEW F, StoreOK(me, c, K, F), NEW ch, NEW owner,
         ch \in LedgerIDs => owner = NoOwner \/ IsDirect(owner)
  PROVE  StoreOK(me, [c EXCEPT !.channelToObjective[ch] = owner], K, F)
<1>1. PICK d : d = [c EXCEPT !.channelToObjective[ch] = owner]
  BY Zenon
<1>2. PICK owners : owners = [c.channelToObjective EXCEPT ![ch] = owner]
  BY Zenon
<1>3. /\ ClientRecord(d) /\ d.fund = c.fund /\ d.defund = c.defund /\ d.channels = c.channels
      /\ d.ledgers = c.ledgers /\ d.channelToObjective = owners
      /\ d.sideEffects = c.sideEffects /\ d.outbox = c.outbox /\ d.submitted = c.submitted
  BY <1>1, <1>2 DEF StoreOK, ClientRecord
<1>4. OwnersOK(owners)
  BY <1>2 DEF OwnersOK, StoreOK
<1>5. StoreOK(me, d, K, F)
  BY Zenon, <1>3, <1>4 DEF StoreOK
<1> QED BY Zenon, <1>1, <1>5

\* TakeOwnership.
LEMMA TakeOwnershipOK ==
  ASSUME NEW me, NEW c, NEW K, NEW F, StoreOK(me, c, K, F), NEW ch, NEW objective,
         ch \in LedgerIDs => IsDirect(objective)
  PROVE  StoreOK(me, TakeOwnership(c, objective, ch), K, F)
<1>1. StoreOK(me, [c EXCEPT !.channelToObjective[ch] = objective], K, F)
  BY Zenon, SetOwnersOK
<1> QED BY Zenon, <1>1, PanicOK DEF TakeOwnership

\* ReleaseChannelFromOwnership.
LEMMA ReleaseOK ==
  ASSUME NEW me, NEW c, NEW K, NEW F, StoreOK(me, c, K, F), NEW ch
  PROVE  StoreOK(me, ReleaseChannelFromOwnership(c, ch), K, F)
BY Zenon, SetOwnersOK DEF ReleaseChannelFromOwnership

\* One thing after another in a handler.
LEMMA FollowsOn ==
  ASSUME NEW me, NEW c, NEW d, NEW e, NEW K, NEW F, Follows(me, c, d, K, F), Follows(me, d, e, K, F)
  PROVE  Follows(me, c, e, K, F)
BY Zenon DEF Follows

\* Panic, and nothing at all, in a handler.
LEMMA PanicFollows ==
  ASSUME NEW me, NEW c, NEW K, NEW F, StoreOK(me, c, K, F)
  PROVE  Follows(me, c, Panic(c), K, F) /\ Follows(me, c, c, K, F) /\ Panic(c).stopped
BY Zenon, PanicOK DEF Follows

\* The decision on virtual channel v.
LEMMA SetFundOK ==
  ASSUME NEW me, NEW c, NEW K, NEW F, StoreOK(me, c, K, F), NEW v \in Targets,
         Participates(me, v), v \in DOMAIN c.channels, NEW status,
         NEW L, L = K \/ L = K \cup {<<v, MyRole(me, v)>>},
         Agreed(status) <=> <<v, MyRole(me, v)>> \in L
  PROVE  Follows(me, c, [c EXCEPT !.fund[v] = status], L, F)
<1>1. PICK d : d = [c EXCEPT !.fund[v] = status]
  BY Zenon
<1>2. PICK fund : fund = [c.fund EXCEPT ![v] = status]
  BY Zenon
<1>3. /\ ClientRecord(d) /\ d.fund = fund /\ d.defund = c.defund /\ d.channels = c.channels
      /\ d.ledgers = c.ledgers /\ d.channelToObjective = c.channelToObjective
      /\ d.sideEffects = c.sideEffects /\ d.outbox = c.outbox /\ d.submitted = c.submitted
  BY <1>1, <1>2 DEF StoreOK, ClientRecord
<1>4. K \subseteq L /\ F \subseteq F
  OBVIOUS
<1>5. LedgersOK(c.ledgers, L) /\ EffectsOK(c.sideEffects, L, F) /\ OutboxOK(c.outbox, L, F)
  BY Zenon, <1>4, LedgersGrow, EffectsGrow, OutboxGrows DEF StoreOK
<1>6. DOMAIN fund = Targets /\ fund[v] = status /\ \A u \in Targets \ {v} : fund[u] = c.fund[u]
  BY <1>2 DEF StoreOK, VirtualsOK
<1>7. ASSUME NEW u \in Targets
      PROVE  VirtualOK(me, u, fund[u], c.defund[u], c.channels, L, F)
  <2>1. VirtualOK(me, u, c.fund[u], c.defund[u], c.channels, K, F)
    BY Zenon DEF StoreOK, VirtualsOK
  <2>2. u \in DOMAIN c.channels => ChannelOK(me, u, c.channels[u], L)
    <3>1. u \in DOMAIN c.channels => ChannelOK(me, u, c.channels[u], K)
      BY Zenon, <2>1 DEF VirtualOK
    <3> QED BY Zenon, <1>4, <3>1 DEF ChannelOK, SignedOK, FundStateOK
  <2>3. CASE u = v
    BY Zenon, <1>6, <2>1, <2>2, <2>3 DEF VirtualOK
  <2>4. CASE u # v
    <3>1. <<u, MyRole(me, u)>> \in L <=> <<u, MyRole(me, u)>> \in K
      BY <2>4
    <3>2. fund[u] = c.fund[u]
      BY Zenon, <1>6, <2>4
    <3> QED BY Zenon, <2>1, <2>2, <3>1, <3>2 DEF VirtualOK
  <2> QED BY Zenon, <2>3, <2>4
<1>8. StoreOK(me, d, L, F)
  BY Zenon, <1>3, <1>5, <1>6, <1>7 DEF StoreOK, VirtualsOK
<1> QED BY Zenon, <1>1, <1>3, <1>8 DEF Follows

\* A virtualdefund objective is set, and I may agree to its payment.
LEMMA SetDefundOK ==
  ASSUME NEW me, NEW c, NEW K, NEW F, StoreOK(me, c, K, F), NEW v \in Targets,
         Participates(me, v), v \in DOMAIN c.channels, NEW x, x.status # NoObjective,
         NEW G, G = F \/ G = F \cup {<<v, MyRole(me, v), x.paidToBob>>}, DefundOK(me, v, x, G)
  PROVE  Follows(me, c, [c EXCEPT !.defund[v] = x], K, G)
<1>1. PICK d : d = [c EXCEPT !.defund[v] = x]
  BY Zenon
<1>2. PICK defund : defund = [c.defund EXCEPT ![v] = x]
  BY Zenon
<1>3. /\ ClientRecord(d) /\ d.fund = c.fund /\ d.defund = defund /\ d.channels = c.channels
      /\ d.ledgers = c.ledgers /\ d.channelToObjective = c.channelToObjective
      /\ d.sideEffects = c.sideEffects /\ d.outbox = c.outbox /\ d.submitted = c.submitted
  BY <1>1, <1>2 DEF StoreOK, ClientRecord
<1>4. K \subseteq K /\ F \subseteq G
  OBVIOUS
<1>5. EffectsOK(c.sideEffects, K, G) /\ OutboxOK(c.outbox, K, G)
  BY Zenon, <1>4, EffectsGrow, OutboxGrows DEF StoreOK
<1>6. DOMAIN defund = Targets /\ defund[v] = x /\ \A u \in Targets \ {v} : defund[u] = c.defund[u]
  BY <1>2 DEF StoreOK, VirtualsOK
<1>7. ASSUME NEW u \in Targets
      PROVE  VirtualOK(me, u, c.fund[u], defund[u], c.channels, K, G)
  <2>1. VirtualOK(me, u, c.fund[u], c.defund[u], c.channels, K, F)
    BY Zenon DEF StoreOK, VirtualsOK
  <2>2. CASE u = v
    BY Zenon, <1>6, <2>1, <2>2 DEF VirtualOK
  <2>3. CASE u # v
    <3>1. \A y : <<u, MyRole(me, u), y>> \in G <=> <<u, MyRole(me, u), y>> \in F
      BY <2>3
    <3>2. defund[u] = c.defund[u]
      BY Zenon, <1>6, <2>3
    <3>3. DefundOK(me, u, c.defund[u], F)
      BY Zenon, <2>1 DEF VirtualOK
    <3>4. DefundOK(me, u, c.defund[u], G)
      BY Zenon, <1>4, <3>1, <3>3 DEF DefundOK
    <3> QED BY Zenon, <2>1, <3>2, <3>4 DEF VirtualOK
  <2> QED BY Zenon, <2>2, <2>3
<1>8. StoreOK(me, d, K, G)
  BY Zenon, <1>3, <1>5, <1>6, <1>7 DEF StoreOK, VirtualsOK
<1> QED BY Zenon, <1>1, <1>3, <1>8 DEF Follows

\* The ledger channel of a hop is running if HasLedgers finds one.
LEMMA HasLedgerOf ==
  ASSUME NEW me, NEW c, NEW v \in Targets, Participates(me, v), HasLedgers(me, c, v),
         NEW hop \in MyHops(me, v)
  PROVE  LedgerOf(v, hop) \in DOMAIN c.ledgers
<1>1. hop \in Roles /\ hop + 1 \in Roles
  BY DEF MyHops, Hops, Roles, Alice, Irene, Bob
<1>2. PICK p : p = Participants[v][hop]
  OBVIOUS
<1>3. PICK q : q = Participants[v][hop + 1]
  OBVIOUS
<1>4. p \in Clients /\ q \in Clients
  BY Zenon, <1>1, <1>2, <1>3, RoleOf
<1>5. PICK l \in LedgersBetween(p, q) : l \in DOMAIN c.ledgers
  BY <1>2, <1>3 DEF HasLedgers
<1>6. LedgerBetween(p, q) = l
  BY Zenon, <1>4, <1>5, OneLedgerAssumption DEF LedgerBetween
<1> QED BY Zenon, <1>2, <1>3, <1>5, <1>6 DEF LedgerOf

\* The operations that leave the set of ledger channels as it is.
LEMMA DeclareMessagesFollows ==
  ASSUME NEW me, NEW c, NEW K, NEW F, StoreOK(me, c, K, F), NEW q, OutboxOK(q, K, F)
  PROVE  Follows(me, c, DeclareMessages(c, q), K, F)
<1>1. PICK d : d = DeclareMessages(c, q)
  OBVIOUS
<1>2. StoreOK(me, d, K, F) /\ d.ledgers = c.ledgers
  BY <1>1, DeclareMessagesOK
<1> QED BY Zenon, <1>1, <1>2 DEF Follows

\* AddToChannel in a handler.
LEMMA AddToChannelFollows ==
  ASSUME NEW me, NEW c, NEW K, NEW F, StoreOK(me, c, K, F),
         NEW v \in Targets, NEW ss, FundStateOK(v, ss, K)
  PROVE  Follows(me, c, AddToChannel(c, v, ss), K, F)
<1>1. PICK d : d = AddToChannel(c, v, ss)
  OBVIOUS
<1>2. StoreOK(me, d, K, F) /\ d.ledgers = c.ledgers
  BY <1>1, AddToVirtualChannelOK
<1> QED BY Zenon, <1>1, <1>2 DEF Follows

\* SetChannel in a handler.
LEMMA SetChannelFollows ==
  ASSUME NEW me, NEW c, NEW K, NEW F, StoreOK(me, c, K, F),
         NEW v, NEW channel, ChannelOK(me, v, channel, K)
  PROVE  Follows(me, c, SetChannel(c, v, channel), K, F)
<1>1. PICK d : d = SetChannel(c, v, channel)
  OBVIOUS
<1>2. StoreOK(me, d, K, F) /\ d.ledgers = c.ledgers
  BY <1>1, SetVirtualChannelOK
<1> QED BY Zenon, <1>1, <1>2 DEF Follows

\* SignAndSend in a handler.
LEMMA SignAndSendFollows ==
  ASSUME NEW me, NEW c, NEW K, NEW F, StoreOK(me, c, K, F), NEW objective, NEW ch, NEW state,
         objective # "VirtualDefund",
         PayloadOK(objective, ch, SignedByMe(c.channels[ch], state), K, F)
  PROVE  Follows(me, c, SignAndSend(me, c, objective, ch, state), K, F)
<1>1. PICK d : d = SignAndSend(me, c, objective, ch, state)
  OBVIOUS
<1>2. StoreOK(me, d, K, F) /\ d.ledgers = c.ledgers
  BY <1>1, SignAndSendOK
<1> QED BY Zenon, <1>1, <1>2 DEF Follows

\* Ledger channel updates do not touch the virtual channels.
LEMMA ChannelsKept ==
  ASSUME NEW c, ClientRecord(c), NEW p
  PROVE  /\ ProposeAndSend(c, p).channels = c.channels /\ ProposeAndSend(c, p).defund = c.defund
         /\ SignAndSendNext(c, p).channels = c.channels /\ SignAndSendNext(c, p).defund = c.defund
BY DEF ProposeAndSend, SignAndSendNext, Panic, ClientRecord

-----------------------------------------------------------------------------
(* virtualfund *)

\* The ledger channels of my hops are in D.
Connected(me, v, D) == \A hop \in MyHops(me, v) : LedgerOf(v, hop) \in D

\* A client that approves of a virtual channel has it in its store.
LEMMA ApprovedChannel ==
  ASSUME NEW me, NEW c, NEW K, NEW F, StoreOK(me, c, K, F), NEW v \in Targets,
         Participates(me, v), <<v, MyRole(me, v)>> \in K
  PROVE  v \in DOMAIN c.channels /\ ChannelOK(me, v, c.channels[v], K)
<1>1. VirtualOK(me, v, c.fund[v], c.defund[v], c.channels, K, F)
  BY Zenon DEF StoreOK, VirtualsOK
<1>2. Agreed(c.fund[v])
  BY Zenon, <1>1 DEF VirtualOK
<1>3. c.fund[v] # NoObjective
  BY <1>2 DEF Agreed, Approved, Completed, NoObjective
<1> QED BY Zenon, <1>1, <1>3 DEF VirtualOK

\* What I sign in a virtual channel that I approve of.
LEMMA MySignatureOK ==
  ASSUME NEW me, NEW c, NEW K, NEW F, StoreOK(me, c, K, F), NEW v \in Targets,
         Participates(me, v), <<v, MyRole(me, v)>> \in K, NEW state
  PROVE  PayloadOK("VirtualFund", v, SignedByMe(c.channels[v], state), K, F)
<1>1. PICK ss : ss = SignedByMe(c.channels[v], state)
  OBVIOUS
<1>2. c.channels[v].myIndex = MyRole(me, v)
  BY Zenon, ApprovedChannel DEF ChannelOK
<1>3. ss.sigs = {MyRole(me, v)}
  BY <1>1, <1>2 DEF SignedByMe, SignedState
<1>4. FundStateOK(v, ss, K)
  BY Zenon, <1>3, MyRoleOK DEF FundStateOK
<1> QED BY Zenon, <1>1, <1>4 DEF PayloadOK

\* A client that approves of a virtual channel may sign its states.
LEMMA VirtualFundSigns ==
  ASSUME NEW me, NEW c, NEW K, NEW F, StoreOK(me, c, K, F), NEW v \in Targets,
         Participates(me, v), <<v, MyRole(me, v)>> \in K
  PROVE  /\ Follows(me, c, signVirtualPrefund(me, c, v), K, F)
         /\ Follows(me, c, signVirtualPostfund(me, c, v), K, F)
<1>1. ASSUME NEW state
      PROVE  Follows(me, c, SignAndSend(me, c, "VirtualFund", v, state), K, F)
  <2>1. PayloadOK("VirtualFund", v, SignedByMe(c.channels[v], state), K, F)
    BY Zenon, MySignatureOK
  <2>2. "VirtualFund" # "VirtualDefund"
    OBVIOUS
  <2> QED BY Zenon, <2>1, <2>2, SignAndSendFollows
<1>2. Follows(me, c, c, K, F)
  BY Zenon DEF Follows
<1> QED BY Zenon, <1>1, <1>2 DEF signVirtualPrefund, signVirtualPostfund

\* Ledger channels are updated with a guarantee for a channel everybody approves of.
LEMMA FundHopFollows ==
  ASSUME NEW me, NEW c, NEW K, NEW F, StoreOK(me, c, K, F), NEW v \in Targets, Approves(K, v),
         Connected(me, v, DOMAIN c.ledgers), NEW hop
  PROVE  Follows(me, c, fundHop(me, c, v, hop), K, F)
<1>1. Follows(me, c, c, K, F) /\ Follows(me, c, Panic(c), K, F)
  BY Zenon, PanicFollows
<1>2. CASE hop \in MyHops(me, v)
  <2>1. PICK p : p = expectedProposal(v, hop)
    OBVIOUS
  <2>2. p.type = "Add" /\ p.target = v /\ p.ledgerID = LedgerOf(v, hop)
    BY <2>1 DEF expectedProposal
  <2>3. p.ledgerID \in DOMAIN c.ledgers
    BY Zenon, <1>2, <2>2 DEF Connected
  <2>4. ProposalOK(p, K)
    BY Zenon, <2>2 DEF ProposalOK
  <2>5. Follows(me, c, ProposeAndSend(c, p), K, F)
    BY Zenon, <2>3, <2>4, ProposeAndSendOK
  <2>6. Follows(me, c, SignAndSendNext(c, p), K, F)
    BY Zenon, <2>3, SignAndSendNextOK
  <2>7. Follows(me, c, updateLedgerWithGuarantee(c, v, hop), K, F)
    BY Zenon, <1>1, <2>1, <2>5, <2>6
       DEF updateLedgerWithGuarantee, proposeLedgerUpdate,
           acceptLedgerUpdate
  <2> QED BY Zenon, <1>1, <2>7 DEF fundHop
<1>3. CASE hop \notin MyHops(me, v)
  BY Zenon, <1>1, <1>3 DEF fundHop
<1> QED BY Zenon, <1>2, <1>3

\* The ledger channels of my hops stay in the store within a handler.
LEMMA StillConnected ==
  ASSUME NEW me, NEW c, NEW d, NEW K, NEW F, Follows(me, c, d, K, F), NEW v,
         Connected(me, v, DOMAIN c.ledgers)
  PROVE  StoreOK(me, d, K, F) /\ Connected(me, v, DOMAIN d.ledgers)
BY Zenon DEF Follows

\* The postfund round of virtualfund's Crank.
LEMMA VirtualPostfundFollows ==
  ASSUME NEW me, NEW c, NEW K, NEW F, StoreOK(me, c, K, F), NEW v \in Targets,
         Participates(me, v), <<v, MyRole(me, v)>> \in K
  PROVE  Follows(me, c, virtualPostfundRound(me, c, v), K, F)
<1>1. PICK d : d = signVirtualPostfund(me, c, v)
  OBVIOUS
<1>2. Follows(me, c, d, K, F)
  BY Zenon, <1>1, VirtualFundSigns
<1>3. Follows(me, d, completeVirtualFund(d, v), K, F)
  <2>1. StoreOK(me, d, K, F)
    BY Zenon, <1>2 DEF Follows
  <2>2. v \in DOMAIN d.channels
    BY Zenon, <2>1, ApprovedChannel
  <2>3. Agreed(Completed) <=> <<v, MyRole(me, v)>> \in K
    BY DEF Agreed
  <2>4. Follows(me, d, [d EXCEPT !.fund[v] = Completed], K, F)
    BY Zenon, <2>1, <2>2, <2>3, SetFundOK
  <2> QED BY Zenon, <2>1, <2>4, PanicFollows DEF completeVirtualFund
<1>4. Follows(me, c, completeVirtualFund(d, v), K, F)
  BY Zenon, <1>2, <1>3, FollowsOn
<1> QED BY Zenon, <1>1, <1>4, PanicFollows DEF virtualPostfundRound

\* Crank of virtualfund: nothing is proposed or signed for the ledger channels before
\* the prefund state is complete, when everybody approves.
LEMMA CrankVirtualFundFollows ==
  ASSUME NEW me, NEW c, NEW K, NEW F, StoreOK(me, c, K, F), NEW v \in Targets,
         Connected(me, v, DOMAIN c.ledgers)
  PROVE  Follows(me, c, CrankVirtualFund(me, c, v), K, F)
<1>1. CASE c.fund[v] # Approved
  BY Zenon, <1>1, PanicFollows DEF CrankVirtualFund
<1>2. CASE c.fund[v] = Approved
  <2>1. Participates(me, v) /\ <<v, MyRole(me, v)>> \in K
    <3>1. VirtualOK(me, v, c.fund[v], c.defund[v], c.channels, K, F)
      BY Zenon DEF StoreOK, VirtualsOK
    <3>2. c.fund[v] # NoObjective /\ Agreed(c.fund[v])
      BY <1>2 DEF Approved, NoObjective, Agreed
    <3> QED BY Zenon, <3>1, <3>2 DEF VirtualOK
  <2>2. PICK d : d = signVirtualPrefund(me, c, v)
    OBVIOUS
  <2>3. Follows(me, c, d, K, F)
    BY Zenon, <2>1, <2>2, VirtualFundSigns
  <2>4. StoreOK(me, d, K, F) /\ Connected(me, v, DOMAIN d.ledgers)
    BY Zenon, <2>3, StillConnected
  <2>5. Follows(me, d, virtualFundingRound(me, d, v), K, F)
    <3>1. CASE ~PreFundComplete(d.channels[v])
      BY Zenon, <2>4, <3>1, PanicFollows DEF virtualFundingRound
    <3>2. CASE PreFundComplete(d.channels[v])
      <4>1. Approves(K, v)
        BY Zenon, <2>1, <2>4, <3>2, ApprovedChannel, PreFundApproves
      <4>2. PICK e : e = fundHop(me, d, v, 1)
        OBVIOUS
      <4>3. Follows(me, d, e, K, F)
        BY Zenon, <2>4, <4>1, <4>2, FundHopFollows
      <4>4. StoreOK(me, e, K, F) /\ Connected(me, v, DOMAIN e.ledgers)
        BY Zenon, <2>4, <4>3, StillConnected
      <4>5. PICK f : f = fundHop(me, e, v, 2)
        OBVIOUS
      <4>6. Follows(me, e, f, K, F)
        BY Zenon, <4>4, <4>1, <4>5, FundHopFollows
      <4>7. Follows(me, f, virtualPostfundRound(me, f, v), K, F)
        <5>1. StoreOK(me, f, K, F)
          BY Zenon, <4>6 DEF Follows
        <5> QED BY Zenon, <2>1, <5>1, VirtualPostfundFollows
      <4>8. Follows(me, d, virtualPostfundRound(me, f, v), K, F)
        BY Zenon, <4>3, <4>6, <4>7, FollowsOn
      <4> QED BY Zenon, <3>2, <4>2, <4>5, <4>8 DEF virtualFundingRound
    <3> QED BY Zenon, <3>1, <3>2
  <2>6. Follows(me, c, virtualFundingRound(me, d, v), K, F)
    BY Zenon, <2>3, <2>5, FollowsOn
  <2> QED BY Zenon, <1>2, <2>2, <2>6 DEF CrankVirtualFund
<1> QED BY Zenon, <1>1, <1>2

-----------------------------------------------------------------------------
(* virtualdefund *)

\* The final state of an objective is the one for its payment.
LEMMA FinalVirtualState ==
  ASSUME NEW me, NEW c, NEW K, NEW F, StoreOK(me, c, K, F), NEW v \in Targets,
         v \in DOMAIN c.channels
  PROVE  finalVirtualState(c, v) = Final(v, c.defund[v].paidToBob)
<1>1. ChannelOK(me, v, c.channels[v], K)
  BY Zenon DEF StoreOK, VirtualsOK, VirtualOK
<1>2. PostFundState(c.channels[v]) = Opening(v, PostFundTurnNum)
  BY <1>1 DEF ChannelOK, SignedOK, PostFundState
<1>3. PostFundState(c.channels[v]).outcome = InitialOutcome[v]
  BY <1>2 DEF Opening, State
<1> QED BY Zenon, <1>3 DEF finalVirtualState, finalOutcome, Final, FinalTurnNum

\* An update of the objective that keeps the payment.
LEMMA UpdateDefundFollows ==
  ASSUME NEW me, NEW c, NEW K, NEW F, StoreOK(me, c, K, F), NEW v \in Targets,
         Participates(me, v), v \in DOMAIN c.channels, c.defund[v].status # NoObjective
  PROVE  /\ \A sigs : (\A s \in sigs : <<v, s, c.defund[v].paidToBob>> \in F) =>
              Follows(me, c, [c EXCEPT !.defund[v].signatures = @ \cup sigs], K, F)
         /\ Follows(me, c, [c EXCEPT !.defund[v].status = Completed], K, F)
<1>1. DefundOK(me, v, c.defund[v], F)
  BY Zenon DEF StoreOK, VirtualsOK, VirtualOK
<1>2. v \in DOMAIN c.defund
  BY Zenon DEF StoreOK, VirtualsOK
<1>3. ASSUME NEW sigs, \A s \in sigs : <<v, s, c.defund[v].paidToBob>> \in F
      PROVE  Follows(me, c, [c EXCEPT !.defund[v].signatures = @ \cup sigs], K, F)
  <2>1. PICK x : x = [c.defund[v] EXCEPT !.signatures = @ \cup sigs]
    BY Zenon
  <2>2. DefundOK(me, v, x, F) /\ x.status # NoObjective
    BY <1>1, <1>3, <2>1 DEF DefundOK
  <2>3. Follows(me, c, [c EXCEPT !.defund[v] = x], K, F)
    BY Zenon, <2>2, SetDefundOK
  <2>4. [c EXCEPT !.defund[v].signatures = @ \cup sigs] = [c EXCEPT !.defund[v] = x]
    BY <2>1
  <2> QED BY Zenon, <2>3, <2>4
<1>4. Follows(me, c, [c EXCEPT !.defund[v].status = Completed], K, F)
  <2>1. PICK x : x = [c.defund[v] EXCEPT !.status = Completed]
    BY Zenon
  <2>2. DefundOK(me, v, x, F) /\ x.status # NoObjective
    BY <1>1, <2>1 DEF DefundOK, Completed, Approved, NoObjective
  <2>3. Follows(me, c, [c EXCEPT !.defund[v] = x], K, F)
    BY Zenon, <2>2, SetDefundOK
  <2>4. [c EXCEPT !.defund[v].status = Completed] = [c EXCEPT !.defund[v] = x]
    BY <2>1
  <2> QED BY Zenon, <2>3, <2>4
<1> QED BY Zenon, <1>3, <1>4

\* Crank of virtualdefund signs for the payment that the client agrees to.
LEMMA SignVirtualFinalFollows ==
  ASSUME NEW me, NEW c, NEW K, NEW F, StoreOK(me, c, K, F), NEW v \in Targets,
         Participates(me, v), v \in DOMAIN c.channels, c.defund[v].status = Approved
  PROVE  /\ Follows(me, c, signVirtualFinal(me, c, v), K, F)
         /\ signVirtualFinal(me, c, v).channels = c.channels
         /\ signVirtualFinal(me, c, v).defund[v].status = Approved
<1>1. c.defund[v].status # NoObjective
  BY DEF Approved, NoObjective
<1>2. DefundOK(me, v, c.defund[v], F) /\ v \in DOMAIN c.defund
  BY Zenon DEF StoreOK, VirtualsOK, VirtualOK
<1>3. PICK signed : signed = [c EXCEPT !.defund[v].signatures = @ \cup {MyRole(me, v)}]
  BY Zenon
<1>4. Follows(me, c, signed, K, F)
  <2>1. \A s \in {MyRole(me, v)} : <<v, s, c.defund[v].paidToBob>> \in F
    BY Zenon, <1>2 DEF DefundOK
  <2> QED BY Zenon, <1>1, <1>3, <2>1, UpdateDefundFollows
<1>5. PICK ss : ss = SignedState(finalVirtualState(c, v), signed.defund[v].signatures)
  OBVIOUS
<1>6. PayloadOK("VirtualDefund", v, ss, K, F)
  <2>1. ss.state = Final(v, c.defund[v].paidToBob)
    <3>1. ss.state = finalVirtualState(c, v)
      BY <1>5 DEF SignedState
    <3> QED BY Zenon, <3>1, FinalVirtualState
  <2>2. ss.sigs = c.defund[v].signatures \cup {MyRole(me, v)}
    BY <1>2, <1>3, <1>5 DEF SignedState, StoreOK, ClientRecord, DefundOK
  <2>3. ss.sigs # {} /\ \A s \in ss.sigs : <<v, s, c.defund[v].paidToBob>> \in F
    BY Zenon, <1>2, <2>2 DEF DefundOK
  <2>4. c.defund[v].paidToBob \in Int
    BY Zenon, <1>2 DEF DefundOK
  <2>5. FinalStateOK(v, ss, F)
    BY Zenon, <2>1, <2>3, <2>4 DEF FinalStateOK
  <2> QED BY Zenon, <2>5 DEF PayloadOK
<1>7. PICK q : q = CreateSignedStateMessages(me, "VirtualDefund", v, ss)
  OBVIOUS
<1>8. OutboxOK(q, K, F)
  BY Zenon, <1>6, <1>7, CreateSignedStateMessagesOK
<1>9. Follows(me, signed, DeclareMessages(signed, q), K, F)
  <2>1. StoreOK(me, signed, K, F)
    BY Zenon, <1>4 DEF Follows
  <2> QED BY Zenon, <1>8, <2>1, DeclareMessagesFollows
<1>10. Follows(me, c, DeclareMessages(signed, q), K, F)
  BY Zenon, <1>4, <1>9, FollowsOn
<1>11. signVirtualFinal(me, c, v) = c \/ signVirtualFinal(me, c, v) = DeclareMessages(signed, q)
  BY Zenon, <1>3, <1>5, <1>7 DEF signVirtualFinal
<1>12. /\ DeclareMessages(signed, q).channels = c.channels
       /\ DeclareMessages(signed, q).defund[v].status = Approved
  BY <1>2, <1>3 DEF DeclareMessages, StoreOK, ClientRecord, DefundOK
<1>13. Follows(me, c, c, K, F)
  BY Zenon, PanicFollows
<1> QED BY Zenon, <1>10, <1>11, <1>12, <1>13

\* A guarantee that is removed is one that everybody had approved of.
LEMMA DefundHopFollows ==
  ASSUME NEW me, NEW c, NEW K, NEW F, StoreOK(me, c, K, F), NEW v \in Targets,
         Connected(me, v, DOMAIN c.ledgers), NEW hop
  PROVE  /\ Follows(me, c, defundHop(me, c, v, hop), K, F)
         /\ defundHop(me, c, v, hop).channels = c.channels
         /\ defundHop(me, c, v, hop).defund = c.defund
<1>1. Follows(me, c, c, K, F)
  BY Zenon, PanicFollows
<1>2. CASE hop \notin MyHops(me, v) \/ isDefunded(c, v, hop)
  BY Zenon, <1>1, <1>2 DEF defundHop
<1>3. CASE hop \in MyHops(me, v) /\ ~isDefunded(c, v, hop)
  <2>1. PICK p : p = ledgerProposal(c, v, hop)
    OBVIOUS
  <2>2. p.type = "Remove" /\ p.target = v /\ p.ledgerID = LedgerOf(v, hop)
    BY <2>1 DEF ledgerProposal
  <2>3. p.ledgerID \in DOMAIN c.ledgers
    BY Zenon, <1>3, <2>2 DEF Connected
  <2>4. Approves(K, v)
    BY Zenon, <1>3, <2>2, <2>3 DEF isDefunded, StoreOK, LedgersOK, LedgerOK, VarsOK
  <2>5. ProposalOK(p, K)
    BY Zenon, <2>2, <2>4 DEF ProposalOK
  <2>6. Follows(me, c, ProposeAndSend(c, p), K, F)
    BY Zenon, <2>3, <2>5, ProposeAndSendOK
  <2>7. Follows(me, c, SignAndSendNext(c, p), K, F)
    BY Zenon, <2>3, SignAndSendNextOK
  <2>8. /\ ProposeAndSend(c, p).channels = c.channels /\ ProposeAndSend(c, p).defund = c.defund
        /\ SignAndSendNext(c, p).channels = c.channels /\ SignAndSendNext(c, p).defund = c.defund
    BY ChannelsKept DEF StoreOK
  <2>9. \/ defundHop(me, c, v, hop) = c
        \/ defundHop(me, c, v, hop) = ProposeAndSend(c, p)
        \/ defundHop(me, c, v, hop) = SignAndSendNext(c, p)
    BY Zenon, <2>1 DEF defundHop, updateLedgerToRemoveGuarantee
  <2> QED BY Zenon, <1>1, <2>6, <2>7, <2>8, <2>9
<1> QED BY Zenon, <1>2, <1>3

\* Crank of virtualdefund.
LEMMA CrankVirtualDefundFollows ==
  ASSUME NEW me, NEW c, NEW K, NEW F, StoreOK(me, c, K, F), NEW v \in Targets,
         Connected(me, v, DOMAIN c.ledgers)
  PROVE  Follows(me, c, CrankVirtualDefund(me, c, v), K, F)
<1>1. CASE c.defund[v].status # Approved
  BY Zenon, <1>1, PanicFollows DEF CrankVirtualDefund
<1>2. CASE c.defund[v].status = Approved
  <2>1. Participates(me, v) /\ v \in DOMAIN c.channels
    <3>1. VirtualOK(me, v, c.fund[v], c.defund[v], c.channels, K, F)
      BY Zenon DEF StoreOK, VirtualsOK
    <3>2. c.defund[v].status # NoObjective
      BY <1>2 DEF Approved, NoObjective
    <3> QED BY Zenon, <3>1, <3>2 DEF VirtualOK
  <2>2. PICK d : d = signVirtualFinal(me, c, v)
    OBVIOUS
  <2>3. Follows(me, c, d, K, F)
    BY Zenon, <1>2, <2>1, <2>2, SignVirtualFinalFollows
  <2>4. v \in DOMAIN d.channels /\ d.defund[v].status = Approved
    BY <1>2, <2>1, <2>2, SignVirtualFinalFollows
  <2>5. StoreOK(me, d, K, F) /\ Connected(me, v, DOMAIN d.ledgers)
    BY Zenon, <2>3, StillConnected
  <2>6. PICK e : e = defundHop(me, d, v, 1)
    OBVIOUS
  <2>7. Follows(me, d, e, K, F)
    BY Zenon, <2>5, <2>6, DefundHopFollows
  <2>8. v \in DOMAIN e.channels /\ e.defund[v].status = Approved
    BY <2>4, <2>5, <2>6, DefundHopFollows
  <2>9. StoreOK(me, e, K, F) /\ Connected(me, v, DOMAIN e.ledgers)
    BY Zenon, <2>5, <2>7, StillConnected
  <2>10. PICK f : f = defundHop(me, e, v, 2)
    OBVIOUS
  <2>11. Follows(me, e, f, K, F)
    BY Zenon, <2>9, <2>10, DefundHopFollows
  <2>12. v \in DOMAIN f.channels /\ f.defund[v].status # NoObjective
    <3>1. v \in DOMAIN f.channels /\ f.defund[v].status = Approved
      BY <2>8, <2>9, <2>10, DefundHopFollows
    <3> QED BY <3>1 DEF Approved, NoObjective
  <2>13. StoreOK(me, f, K, F)
    BY Zenon, <2>11 DEF Follows
  <2>14. Follows(me, f, [f EXCEPT !.defund[v].status = Completed], K, F)
    BY Zenon, <2>1, <2>12, <2>13, UpdateDefundFollows
  <2>15. Follows(me, f, completeIfDefunded(me, f, v), K, F)
    BY Zenon, <2>13, <2>14, PanicFollows DEF completeIfDefunded
  <2>16. Follows(me, d, completeIfDefunded(me, f, v), K, F)
    BY Zenon, <2>7, <2>11, <2>15, FollowsOn
  <2>17. Follows(me, d, defundingRound(me, d, v), K, F)
    BY Zenon, <2>5, <2>6, <2>10, <2>16, PanicFollows DEF defundingRound
  <2>18. Follows(me, c, defundingRound(me, d, v), K, F)
    BY Zenon, <2>3, <2>17, FollowsOn
  <2> QED BY Zenon, <1>2, <2>2, <2>18 DEF CrankVirtualDefund
<1> QED BY Zenon, <1>1, <1>2

-----------------------------------------------------------------------------
(* directfund and directdefund *)

\* The records of direct objectives do not matter to virtual ones.
LEMMA DirectFieldsOK ==
  ASSUME NEW me, NEW c, NEW K, NEW F, StoreOK(me, c, K, F), NEW x
  PROVE  /\ StoreOK(me, [c EXCEPT !.directfund = x], K, F)
         /\ StoreOK(me, [c EXCEPT !.directdefund = x], K, F)
         /\ StoreOK(me, [c EXCEPT !.onChainFunding = x], K, F)
<1>1. StoreOK(me, [c EXCEPT !.directfund = x], K, F)
  <2>1. PICK d : d = [c EXCEPT !.directfund = x]
    BY Zenon
  <2>2. /\ ClientRecord(d) /\ d.fund = c.fund /\ d.defund = c.defund /\ d.channels = c.channels
        /\ d.ledgers = c.ledgers /\ d.channelToObjective = c.channelToObjective
        /\ d.sideEffects = c.sideEffects /\ d.outbox = c.outbox /\ d.submitted = c.submitted
    BY <2>1 DEF StoreOK, ClientRecord
  <2> QED BY Zenon, <2>1, <2>2, StoreSame
<1>2. StoreOK(me, [c EXCEPT !.directdefund = x], K, F)
  <2>1. PICK d : d = [c EXCEPT !.directdefund = x]
    BY Zenon
  <2>2. /\ ClientRecord(d) /\ d.fund = c.fund /\ d.defund = c.defund /\ d.channels = c.channels
        /\ d.ledgers = c.ledgers /\ d.channelToObjective = c.channelToObjective
        /\ d.sideEffects = c.sideEffects /\ d.outbox = c.outbox /\ d.submitted = c.submitted
    BY <2>1 DEF StoreOK, ClientRecord
  <2> QED BY Zenon, <2>1, <2>2, StoreSame
<1>3. StoreOK(me, [c EXCEPT !.onChainFunding = x], K, F)
  <2>1. PICK d : d = [c EXCEPT !.onChainFunding = x]
    BY Zenon
  <2>2. /\ ClientRecord(d) /\ d.fund = c.fund /\ d.defund = c.defund /\ d.channels = c.channels
        /\ d.ledgers = c.ledgers /\ d.channelToObjective = c.channelToObjective
        /\ d.sideEffects = c.sideEffects /\ d.outbox = c.outbox /\ d.submitted = c.submitted
    BY <2>1 DEF StoreOK, ClientRecord
  <2> QED BY Zenon, <2>1, <2>2, StoreSame
<1> QED BY Zenon, <1>1, <1>2, <1>3

\* What the code sets in a direct objective.
LEMMA DirectUpdatesOK ==
  ASSUME NEW me, NEW c, NEW K, NEW F, StoreOK(me, c, K, F), NEW l, NEW x
  PROVE  /\ StoreOK(me, [c EXCEPT !.directfund[l] = x], K, F)
         /\ StoreOK(me, [c EXCEPT !.directfund[l].status = x], K, F)
         /\ StoreOK(me, [c EXCEPT !.directfund[l].transactionSubmitted = x], K, F)
         /\ StoreOK(me, [c EXCEPT !.directfund[l].latestBlockNumber = x], K, F)
         /\ StoreOK(me, [c EXCEPT !.directdefund[l] = x], K, F)
         /\ StoreOK(me, [c EXCEPT !.directdefund[l].status = x], K, F)
         /\ StoreOK(me, [c EXCEPT !.directdefund[l].transactionSubmitted = x], K, F)
         /\ StoreOK(me, [c EXCEPT !.onChainFunding[l] = x], K, F)
BY Zenon, DirectFieldsOK

\* Neither do the states that direct objectives sign ...
LEMMA DirectSignsOK ==
  ASSUME NEW me, NEW c, NEW K, NEW F, StoreOK(me, c, K, F), NEW l \in LedgerIDs, NEW state
  PROVE  /\ StoreOK(me, SignAndSend(me, c, "DirectFunding", l, state), K, F)
         /\ StoreOK(me, SignAndSend(me, c, "DirectDefunding", l, state), K, F)
<1>1. PICK ss : ss = SignedByMe(c.channels[l], state)
  OBVIOUS
<1>2. /\ IsDirect("DirectFunding") /\ "DirectFunding" # "VirtualDefund"
      /\ IsDirect("DirectDefunding") /\ "DirectDefunding" # "VirtualDefund"
  BY DEF IsDirect
<1>3. PayloadOK("DirectFunding", l, ss, K, F) /\ PayloadOK("DirectDefunding", l, ss, K, F)
  BY Zenon, <1>2 DEF PayloadOK
<1>4. /\ Follows(me, c, SignAndSend(me, c, "DirectFunding", l, state), K, F)
      /\ Follows(me, c, SignAndSend(me, c, "DirectDefunding", l, state), K, F)
  BY Zenon, <1>1, <1>2, <1>3, SignAndSendFollows
<1> QED BY Zenon, <1>4 DEF Follows

\* ... nor does Crank of directfund ...
LEMMA CrankDirectFundOK ==
  ASSUME NEW me, NEW c, NEW K, NEW F, StoreOK(me, c, K, F), NEW l \in LedgerIDs
  PROVE  StoreOK(me, CrankDirectFund(me, c, l), K, F)
<1>1. PICK d : d = signDirectPrefund(me, c, l)
  OBVIOUS
<1>2. StoreOK(me, d, K, F)
  BY Zenon, <1>1, DirectSignsOK DEF signDirectPrefund
<1>3. StoreOK(me, depositOnce(me, d, l), K, F)
  <2>1. PICK e : e = [d EXCEPT !.directfund[l].transactionSubmitted = TRUE]
    BY Zenon
  <2>2. PICK tx : tx = DepositTransaction(l, MyParty(me, l), amountToDeposit(d, l))
    OBVIOUS
  <2>3. tx.l \in LedgerIDs
    BY <2>2 DEF DepositTransaction
  <2>4. StoreOK(me, e, K, F)
    BY Zenon, <1>2, <2>1, DirectUpdatesOK
  <2>5. StoreOK(me, DeclareTransaction(e, tx), K, F)
    BY Zenon, <2>3, <2>4, DeclareTransactionOK
  <2> QED BY Zenon, <1>2, <2>1, <2>2, <2>5 DEF depositOnce
<1>4. StoreOK(me, completeDirectFund(signDirectPostfund(me, d, l), l), K, F)
  <2>1. PICK e : e = signDirectPostfund(me, d, l)
    OBVIOUS
  <2>2. StoreOK(me, e, K, F)
    BY Zenon, <1>2, <2>1, DirectSignsOK DEF signDirectPostfund
  <2>3. StoreOK(me, completeDirectFund(e, l), K, F)
    BY Zenon, <2>2, DirectUpdatesOK DEF completeDirectFund
  <2> QED BY Zenon, <2>1, <2>3
<1>5. StoreOK(me, directFundingRound(me, d, l), K, F)
  BY Zenon, <1>2, <1>3, <1>4 DEF directFundingRound
<1> QED BY Zenon, <1>1, <1>5, PanicOK DEF CrankDirectFund

\* ... nor that of directdefund.
LEMMA CrankDirectDefundOK ==
  ASSUME NEW me, NEW c, NEW K, NEW F, StoreOK(me, c, K, F), NEW l \in LedgerIDs
  PROVE  StoreOK(me, CrankDirectDefund(me, c, l), K, F)
<1>1. PICK d : d = signDirectFinal(me, c, l)
  OBVIOUS
<1>2. StoreOK(me, d, K, F)
  BY Zenon, <1>1, DirectSignsOK DEF signDirectFinal
<1>3. StoreOK(me, withdrawOnce(d, l), K, F)
  <2>1. PICK e : e = [d EXCEPT !.directdefund[l].transactionSubmitted = TRUE]
    BY Zenon
  <2>2. PICK tx : tx = WithdrawAllTransaction(l, LatestSignedState(d.channels[l]))
    OBVIOUS
  <2>3. tx.l \in LedgerIDs
    BY <2>2 DEF WithdrawAllTransaction
  <2>4. StoreOK(me, e, K, F)
    BY Zenon, <1>2, <2>1, DirectUpdatesOK
  <2>5. StoreOK(me, DeclareTransaction(e, tx), K, F)
    BY Zenon, <2>3, <2>4, DeclareTransactionOK
  <2> QED BY Zenon, <1>2, <2>1, <2>2, <2>5 DEF withdrawOnce
<1>4. StoreOK(me, withdrawalRound(d, l), K, F)
  BY Zenon, <1>2, <1>3, DirectUpdatesOK DEF withdrawalRound
<1> QED BY Zenon, <1>1, <1>4, PanicOK DEF CrankDirectDefund
=============================================================================
