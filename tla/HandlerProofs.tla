---------------------------- MODULE HandlerProofs ---------------------------
(***************************************************************************)
(* What the handlers of a client's engine may do to its store, and what the*)
(* network and the chain may carry.                                        *)
(*                                                                         *)
(* Whatever a client is given, a request, a message or an event, the handler*)
(* leaves StoreOK (module ObjectiveProofs) true of its store, for K and F to*)
(* which it has added at most the client's own decisions; and what it sends*)
(* is as right as what it has stored (NetworkOK, ChainOK, AboutLedgers).   *)
(***************************************************************************)
EXTENDS Engine, ObjectiveProofs

-----------------------------------------------------------------------------
(* The handlers *)

\* An objective of a client that can be cranked.
Workable(me, c, objective, ch) ==
  \/ IsDirect(objective) /\ ch \in LedgerIDs
  \/ /\ objective \in {"VirtualFund", "VirtualDefund"} /\ ch \in Targets
     /\ Connected(me, ch, DOMAIN c.ledgers)

\* An objective that can be cranked still can be after others were.
LEMMA StillWorkable ==
  ASSUME NEW me, NEW c, NEW d, NEW K, NEW F, Follows(me, c, d, K, F), NEW objective, NEW ch,
         Workable(me, c, objective, ch)
  PROVE  StoreOK(me, d, K, F) /\ Workable(me, d, objective, ch)
BY Zenon DEF Follows, Workable

\* executeSideEffects moves what was declared to where it is sent from.
LEMMA ExecuteSideEffectsOK ==
  ASSUME NEW me, NEW c, NEW K, NEW F, StoreOK(me, c, K, F)
  PROVE  StoreOK(me, executeSideEffects(c), K, F)
<1>1. CASE c.stopped
  BY Zenon, <1>1 DEF executeSideEffects
<1>2. CASE ~c.stopped
  <2>1. PICK d : d = executeSideEffects(c)
    OBVIOUS
  <2>2. /\ ClientRecord(d) /\ d.fund = c.fund /\ d.defund = c.defund /\ d.channels = c.channels
        /\ d.ledgers = c.ledgers /\ d.channelToObjective = c.channelToObjective
        /\ d.sideEffects = NoEffects
        /\ d.outbox = c.outbox \o c.sideEffects.messagesToSend
        /\ d.submitted = c.submitted \o c.sideEffects.transactionsToSubmit
    BY <1>2, <2>1 DEF executeSideEffects, StoreOK, ClientRecord
  <2>3. /\ OutboxOK(c.outbox \o c.sideEffects.messagesToSend, K, F)
        /\ AboutLedgers(c.submitted \o c.sideEffects.transactionsToSubmit)
    BY Zenon, OutboxJoined, TransactionsJoined DEF StoreOK, EffectsOK
  <2>4. StoreOK(me, d, K, F)
    BY Zenon, <2>2, <2>3, NoEffectsOK DEF StoreOK
  <2> QED BY Zenon, <2>1, <2>4
<1> QED BY Zenon, <1>1, <1>2

\* Crank of any objective, once it can be cranked.
LEMMA CrankObjectiveOK ==
  ASSUME NEW me, NEW c, NEW K, NEW F, StoreOK(me, c, K, F), NEW objective, NEW ch,
         Workable(me, c, objective, ch)
  PROVE  StoreOK(me, CrankObjective(me, c, objective, ch), K, F)
<1>1. CASE objective = "VirtualFund" /\ ch \in Targets /\ Connected(me, ch, DOMAIN c.ledgers)
  <2>1. CrankObjective(me, c, objective, ch) = CrankVirtualFund(me, c, ch)
    BY <1>1 DEF CrankObjective
  <2>2. Follows(me, c, CrankVirtualFund(me, c, ch), K, F)
    BY Zenon, <1>1, CrankVirtualFundFollows
  <2> QED BY Zenon, <2>1, <2>2 DEF Follows
<1>2. CASE objective = "VirtualDefund" /\ ch \in Targets /\ Connected(me, ch, DOMAIN c.ledgers)
  <2>1. CrankObjective(me, c, objective, ch) = CrankVirtualDefund(me, c, ch)
    BY <1>2 DEF CrankObjective
  <2>2. Follows(me, c, CrankVirtualDefund(me, c, ch), K, F)
    BY Zenon, <1>2, CrankVirtualDefundFollows
  <2> QED BY Zenon, <2>1, <2>2 DEF Follows
<1>3. CASE objective = "DirectFunding" /\ ch \in LedgerIDs
  <2>1. CrankObjective(me, c, objective, ch) = CrankDirectFund(me, c, ch)
    BY <1>3 DEF CrankObjective
  <2> QED BY Zenon, <1>3, <2>1, CrankDirectFundOK
<1>4. CASE objective = "DirectDefunding" /\ ch \in LedgerIDs
  <2>1. CrankObjective(me, c, objective, ch) = CrankDirectDefund(me, c, ch)
    BY <1>4 DEF CrankObjective
  <2> QED BY Zenon, <1>4, <2>1, CrankDirectDefundOK
<1> QED BY Zenon, <1>1, <1>2, <1>3, <1>4 DEF Workable, IsDirect

\* SpawnConsensusChannelIfDirectFundObjective: the new ledger channel guarantees nothing.
LEMMA SpawnOK ==
  ASSUME NEW me, NEW c, NEW K, NEW F, StoreOK(me, c, K, F), NEW l \in LedgerIDs
  PROVE  StoreOK(me, spawnConsensusChannel(me, c, l), K, F)
<1>1. PICK postfund : postfund = PostFundState(c.channels[l])
  OBVIOUS
<1>2. PICK vrs : vrs = [turnNum |-> postfund.turnNum, outcome |-> FromExit(postfund.outcome)]
  BY Zenon
<1>3. PICK ledger : ledger = newConsensusChannel(l, MyParty(me, l), vrs)
  OBVIOUS
<1>4. VarsOK(vrs, K)
  BY <1>2 DEF VarsOK, FromExit, IncludesTarget
<1>5. /\ DOMAIN ledger = {"id", "myIndex", "current", "proposalQueue"}
      /\ ledger.current.vars = vrs /\ ledger.proposalQueue = << >>
  BY <1>3 DEF newConsensusChannel
<1>6. LedgerOK(ledger, K)
  BY Zenon, <1>4, <1>5, NoQueue DEF LedgerOK
<1>7. PICK d : d = SetConsensusChannel(c, ledger)
  OBVIOUS
<1>8. StoreOK(me, d, K, F)
  BY Zenon, <1>6, <1>7, SetConsensusChannelOK
<1>9. StoreOK(me, DestroyChannel(d, l), K, F)
  BY Zenon, <1>8, SetDirectChannelOK
<1> QED BY Zenon, <1>1, <1>2, <1>3, <1>7, <1>9 DEF spawnConsensusChannel

\* What attemptProgress does once an objective is cranked.
LEMMA StoreObjectiveOK ==
  ASSUME NEW me, NEW c, NEW K, NEW F, StoreOK(me, c, K, F), NEW objective, NEW ch,
         IF IsDirect(objective) THEN ch \in LedgerIDs ELSE ch \in Targets
  PROVE  StoreOK(me, StoreObjective(me, c, objective, ch), K, F)
<1>1. StoreOK(me, TakeOwnership(c, objective, ch), K, F)
  <2>1. ch \in LedgerIDs => IsDirect(objective)
    BY Zenon, LedgerAssumption
  <2> QED BY Zenon, <2>1, TakeOwnershipOK
<1>2. StoreOK(me, WrapUp(me, c, objective, ch), K, F)
  <2>1. PICK d : d = ReleaseChannelFromOwnership(c, ch)
    OBVIOUS
  <2>2. StoreOK(me, d, K, F)
    BY Zenon, <2>1, ReleaseOK
  <2>3. objective = "DirectFunding" => StoreOK(me, spawnConsensusChannel(me, d, ch), K, F)
    BY Zenon, <2>2, SpawnOK DEF IsDirect
  <2> QED BY Zenon, <2>1, <2>2, <2>3 DEF WrapUp
<1> QED BY Zenon, <1>1, <1>2, PanicOK DEF StoreObjective

\* attemptProgress.
LEMMA AttemptProgressOK ==
  ASSUME NEW me, NEW c, NEW K, NEW F, StoreOK(me, c, K, F), NEW objective, NEW ch,
         Workable(me, c, objective, ch)
  PROVE  StoreOK(me, attemptProgress(me, c, objective, ch), K, F)
<1>1. PICK d : d = CrankObjective(me, c, objective, ch)
  OBVIOUS
<1>2. PICK e : e = StoreObjective(me, d, objective, ch)
  OBVIOUS
<1>3. StoreOK(me, d, K, F)
  BY Zenon, <1>1, CrankObjectiveOK
<1>4. IF IsDirect(objective) THEN ch \in LedgerIDs ELSE ch \in Targets
  BY DEF Workable, IsDirect
<1>5. StoreOK(me, e, K, F)
  BY Zenon, <1>2, <1>3, <1>4, StoreObjectiveOK
<1>6. StoreOK(me, executeSideEffects(e), K, F)
  BY Zenon, <1>5, ExecuteSideEffectsOK
<1> QED BY Zenon, <1>1, <1>2, <1>6 DEF attemptProgress

\* progress, the same for an objective that may be complete.
LEMMA ProgressOK ==
  ASSUME NEW me, NEW c, NEW K, NEW F, StoreOK(me, c, K, F), NEW objective, NEW ch,
         ~c.stopped => Workable(me, c, objective, ch)
  PROVE  StoreOK(me, progress(me, c, objective, ch), K, F)
BY Zenon, AttemptProgressOK DEF progress

-----------------------------------------------------------------------------
(* New objectives *)

\* I approve of one more virtual channel, or of none.
Approving(me, K, L) ==
  \/ L = K
  \/ \E v \in Targets : Participates(me, v) /\ L = K \cup {<<v, MyRole(me, v)>>}

\* I agree to a payment that somebody has signed, in a channel in which I have signed
\* none, or to nothing.
Signing(me, F, G) ==
  \/ G = F
  \/ \E v \in Targets : \E y, s :
       /\ Participates(me, v) /\ <<v, s, y>> \in F
       /\ G = F \cup {<<v, MyRole(me, v), y>>}
       /\ \A z : <<v, MyRole(me, v), z>> \notin F

\* Client me, which had approved of K and agreed to F, ends up with d.
Ends(me, d, K, F) ==
  \E L, G : Approving(me, K, L) /\ Signing(me, F, G) /\ StoreOK(me, d, L, G)

\* There is an objective for message m, if it is about a virtual defunding.
Defunds(d, m) == m.objective = "VirtualDefund" => d.defund[m.channel].status # NoObjective

\* The same as Ends, and the objective of message m can be worked on.
Admits(me, d, m, K, F) ==
  \E L, G : /\ Approving(me, K, L) /\ Signing(me, F, G) /\ StoreOK(me, d, L, G)
            /\ d.stopped \/ (Workable(me, d, m.objective, m.channel) /\ Defunds(d, m))

\* Decisions are added only.
LEMMA ApprovingGrows ==
  ASSUME NEW me, NEW K, NEW L, Approving(me, K, L), NEW F, NEW G, Signing(me, F, G)
  PROVE  K \subseteq L /\ F \subseteq G
BY Zenon DEF Approving, Signing

\* An objective that is there already.
LEMMA AdmitsSame ==
  ASSUME NEW me, NEW d, NEW m, NEW K, NEW F, StoreOK(me, d, K, F),
         Workable(me, d, m.objective, m.channel), Defunds(d, m)
  PROVE  Admits(me, d, m, K, F)
BY Zenon DEF Admits, Approving, Signing

\* A client that stopped handles nothing any more.
LEMMA AdmitsStopped ==
  ASSUME NEW me, NEW d, NEW m, NEW K, NEW F, StoreOK(me, d, K, F), d.stopped
  PROVE  Admits(me, d, m, K, F)
<1>1. Approving(me, K, K) /\ Signing(me, F, F)
  BY Zenon DEF Approving, Signing
<1>2. d.stopped \/ (Workable(me, d, m.objective, m.channel) /\ Defunds(d, m))
  OBVIOUS
<1> QED BY Zenon, <1>1, <1>2 DEF Admits

\* ConstructFromPayload of virtualfund, before the decision.
LEMMA ConstructVirtualFundOK ==
  ASSUME NEW me, NEW c, NEW K, NEW F, StoreOK(me, c, K, F), NEW v \in Targets,
         Participates(me, v), NEW status,
         NEW L, L = K \/ L = K \cup {<<v, MyRole(me, v)>>},
         Agreed(status) <=> <<v, MyRole(me, v)>> \in L
  PROVE  /\ Follows(me, c, ConstructVirtualFund(me, c, v, status), L, F)
         /\ v \in DOMAIN ConstructVirtualFund(me, c, v, status).channels
<1>1. PICK channel : channel = New(Opening(v, PreFundTurnNum), MyRole(me, v), 3)
  OBVIOUS
<1>2. PICK d : d = SetChannel(c, v, channel)
  OBVIOUS
<1>3. ChannelOK(me, v, channel, K)
  BY Zenon, <1>1, NewChannelOK
<1>4. Follows(me, c, d, K, F)
  BY Zenon, <1>2, <1>3, SetChannelFollows
<1>5. v \in DOMAIN d.channels
  BY <1>2 DEF SetChannel, Put, StoreOK, ClientRecord
<1>6. StoreOK(me, d, K, F) /\ DOMAIN d.ledgers = DOMAIN c.ledgers
  BY Zenon, <1>4 DEF Follows
<1>7. PICK e : e = [d EXCEPT !.fund[v] = status]
  BY Zenon
<1>8. Follows(me, d, e, L, F)
  BY Zenon, <1>5, <1>6, <1>7, SetFundOK
<1>9. v \in DOMAIN e.channels
  BY <1>5, <1>6, <1>7 DEF StoreOK, ClientRecord
<1>10. Follows(me, c, e, L, F)
  BY Zenon, <1>6, <1>8 DEF Follows
<1>11. ConstructVirtualFund(me, c, v, status) = e
  BY Zenon, <1>1, <1>2, <1>7 DEF ConstructVirtualFund, Opening
<1> QED BY Zenon, <1>9, <1>10, <1>11

\* ConstructFromPayload of virtualdefund: I agree to the payment of the request or of
\* the state that reached me.
LEMMA ConstructVirtualDefundOK ==
  ASSUME NEW me, NEW c, NEW K, NEW F, StoreOK(me, c, K, F), NEW v \in Targets,
         Participates(me, v), v \in DOMAIN c.channels, NEW y \in Int,
         NEW status, status # NoObjective,
         NEW G, G = F \/ G = F \cup {<<v, MyRole(me, v), y>>},
         status = Approved => <<v, MyRole(me, v), y>> \in G
  PROVE  Follows(me, c, ConstructVirtualDefund(c, v, y, status), K, G)
<1>1. PICK x : x = [status |-> status, paidToBob |-> y, signatures |-> {}]
  BY Zenon
<1>2. DefundOK(me, v, x, G) /\ x.status # NoObjective /\ x.paidToBob = y
  BY <1>1 DEF DefundOK
<1>3. Follows(me, c, [c EXCEPT !.defund[v] = x], K, G)
  BY Zenon, <1>2, SetDefundOK
<1> QED BY Zenon, <1>1, <1>3 DEF ConstructVirtualDefund

\* A message about a new virtual channel, which I approve of or reject.
LEMMA AdmitsVirtualFund ==
  ASSUME NEW me, NEW c, NEW K, NEW F, StoreOK(me, c, K, F), NEW m,
         m.objective = "VirtualFund", m.channel \in Targets, Participates(me, m.channel),
         c.fund[m.channel] = NoObjective, HasLedgers(me, c, m.channel)
  PROVE  Admits(me, DecideIfCreated(me, ConstructVirtualFund(me, c, m.channel, Unapproved), m),
                m, K, F)
<1>1. PICK v \in Targets : v = m.channel
  OBVIOUS
<1>2. <<v, MyRole(me, v)>> \notin K
  <2>1. VirtualOK(me, v, c.fund[v], c.defund[v], c.channels, K, F)
    BY Zenon DEF StoreOK, VirtualsOK
  <2>2. ~Agreed(c.fund[v])
    BY <1>1 DEF Agreed, NoObjective, Approved, Completed
  <2> QED BY Zenon, <1>1, <2>1, <2>2 DEF VirtualOK
<1>3. PICK d : d = ConstructVirtualFund(me, c, v, Unapproved)
  OBVIOUS
<1>4. Follows(me, c, d, K, F) /\ v \in DOMAIN d.channels
  <2>1. Agreed(Unapproved) <=> <<v, MyRole(me, v)>> \in K
    BY <1>2 DEF Agreed, Unapproved, Approved, Completed
  <2> QED BY Zenon, <1>1, <1>3, <2>1, ConstructVirtualFundOK
<1>5. StoreOK(me, d, K, F) /\ Connected(me, v, DOMAIN d.ledgers)
  BY Zenon, <1>1, <1>4, HasLedgerOf DEF Follows, Connected
<1>6. CASE d.stopped
  <2>1. DecideIfCreated(me, d, m) = d
    BY Zenon, <1>6 DEF DecideIfCreated
  <2> QED BY Zenon, <1>1, <1>3, <1>5, <1>6, <2>1, AdmitsStopped
<1>7. ASSUME ~d.stopped, NEW status, NEW L, L = K \/ L = K \cup {<<v, MyRole(me, v)>>},
             Agreed(status) <=> <<v, MyRole(me, v)>> \in L,
             DecideIfCreated(me, d, m) = [d EXCEPT !.fund[v] = status]
      PROVE  Admits(me, DecideIfCreated(me, d, m), m, K, F)
  <2>1. PICK e : e = [d EXCEPT !.fund[v] = status]
    BY Zenon
  <2>2. Follows(me, d, e, L, F)
    BY Zenon, <1>1, <1>4, <1>5, <1>7, <2>1, SetFundOK
  <2>3. StoreOK(me, e, L, F) /\ Connected(me, v, DOMAIN e.ledgers)
    BY Zenon, <1>5, <2>2, StillConnected DEF Follows
  <2>4. Workable(me, e, m.objective, m.channel)
    BY <1>1, <2>3 DEF Workable
  <2>5. Defunds(e, m)
    BY DEF Defunds
  <2>6. Approving(me, K, L) /\ Signing(me, F, F)
    BY Zenon, <1>1, <1>7 DEF Approving, Signing
  <2>7. Admits(me, e, m, K, F)
    BY Zenon, <2>3, <2>4, <2>5, <2>6 DEF Admits
  <2> QED BY Zenon, <1>7, <2>1, <2>7
<1>8. CASE ~d.stopped /\ <<me, v>> \in Refused
  <2>1. DecideIfCreated(me, d, m) = [d EXCEPT !.fund[v] = Rejected]
    BY <1>1, <1>8 DEF DecideIfCreated, Decide, SetStatus
  <2>2. Agreed(Rejected) <=> <<v, MyRole(me, v)>> \in K
    BY <1>2 DEF Agreed, Rejected, Approved, Completed
  <2> QED BY Zenon, <1>1, <1>3, <1>7, <1>8, <2>1, <2>2
<1>9. CASE ~d.stopped /\ <<me, v>> \notin Refused
  <2>1. DecideIfCreated(me, d, m) = [d EXCEPT !.fund[v] = Approved]
    BY <1>1, <1>9 DEF DecideIfCreated, Decide, SetStatus
  <2>2. PICK L : L = K \cup {<<v, MyRole(me, v)>>}
    BY Zenon
  <2>3. Agreed(Approved) <=> <<v, MyRole(me, v)>> \in L
    BY <2>2 DEF Agreed
  <2> QED BY Zenon, <1>1, <1>3, <1>7, <1>9, <2>1, <2>2, <2>3
<1> QED BY Zenon, <1>1, <1>3, <1>6, <1>8, <1>9

\* A message about a channel to close: I agree to what its sender has signed.
LEMMA AdmitsVirtualDefund ==
  ASSUME NEW me, NEW c, NEW K, NEW F, StoreOK(me, c, K, F), NEW m,
         m.objective = "VirtualDefund", m.channel \in Targets, Participates(me, m.channel),
         FinalStateOK(m.channel, m.payload, F),
         c.defund[m.channel].status = NoObjective, CanConstructVirtualDefund(me, c, m.channel)
  PROVE  Admits(me, DecideIfCreated(me,
                  ConstructVirtualDefund(c, m.channel,
                    calculatePaidToBob(c, m.channel, m.payload.state), Unapproved), m),
                m, K, F)
<1>1. PICK v \in Targets : v = m.channel
  OBVIOUS
<1>2. PICK y \in Int : m.payload.state = Final(v, y) /\ \E s : <<v, s, y>> \in F
  BY Zenon, <1>1 DEF FinalStateOK
<1>3. v \in DOMAIN c.channels /\ HasLedgers(me, c, v)
  BY Zenon, <1>1 DEF CanConstructVirtualDefund
<1>4. calculatePaidToBob(c, v, m.payload.state) = y
  <2>1. ChannelOK(me, v, c.channels[v], K)
    BY Zenon, <1>3 DEF StoreOK, VirtualsOK, VirtualOK
  <2>2. PreFundState(c.channels[v]).outcome = InitialOutcome[v]
    BY <2>1 DEF ChannelOK, SignedOK, PreFundState, Opening, State
  <2>3. InitialOutcome[v][2] \in Nat
    BY ParticipantsAssumption
  <2>4. m.payload.state.outcome[2] = InitialOutcome[v][2] + y
    BY <1>2 DEF Final, State
  <2> QED BY <2>2, <2>3, <2>4 DEF calculatePaidToBob
<1>5. \A z : <<v, MyRole(me, v), z>> \notin F
  BY Zenon, <1>1 DEF StoreOK, VirtualsOK, VirtualOK, DefundOK
<1>6. PICK d : d = ConstructVirtualDefund(c, v, y, Unapproved)
  OBVIOUS
<1>7. Follows(me, c, d, K, F)
  <2>1. Unapproved # Approved /\ Unapproved # NoObjective
    BY DEF Unapproved, Approved, NoObjective
  <2> QED BY Zenon, <1>1, <1>3, <1>6, <2>1, ConstructVirtualDefundOK
<1>8. /\ StoreOK(me, d, K, F) /\ Connected(me, v, DOMAIN d.ledgers)
  BY Zenon, <1>1, <1>3, <1>7, HasLedgerOf DEF Follows, Connected
<1>9. /\ v \in DOMAIN d.channels /\ d.defund = [c.defund EXCEPT ![v] = d.defund[v]]
      /\ d.defund[v] = [status |-> Unapproved, paidToBob |-> y, signatures |-> {}]
  BY SMTT(20), <1>3, <1>6 DEF ConstructVirtualDefund, StoreOK, ClientRecord, VirtualsOK
<1>10. CASE d.stopped
  <2>1. DecideIfCreated(me, d, m) = d
    BY Zenon, <1>10 DEF DecideIfCreated
  <2> QED BY Zenon, <1>1, <1>4, <1>6, <1>8, <1>10, <2>1, AdmitsStopped
<1>11. ASSUME ~d.stopped, NEW status, status # NoObjective,
              NEW G, G = F \/ G = F \cup {<<v, MyRole(me, v), y>>},
              status = Approved => <<v, MyRole(me, v), y>> \in G,
              DecideIfCreated(me, d, m) = [d EXCEPT !.defund[v].status = status]
       PROVE  Admits(me, DecideIfCreated(me, d, m), m, K, F)
  <2>1. PICK x : x = [status |-> status, paidToBob |-> y, signatures |-> {}]
    BY Zenon
  <2>2. PICK e : e = [d EXCEPT !.defund[v] = x]
    BY Zenon
  <2>3. [d EXCEPT !.defund[v].status = status] = e
    <3>1. [d.defund[v] EXCEPT !.status = status] = x
      BY <1>9, <2>1
    <3>2. [d EXCEPT !.defund[v].status = status] = [d EXCEPT !.defund[v] = [d.defund[v] EXCEPT !.status = status]]
      OBVIOUS
    <3> QED BY Zenon, <2>2, <3>1, <3>2
  <2>4. DefundOK(me, v, x, G) /\ x.status # NoObjective /\ x.paidToBob = y
    BY <1>11, <2>1 DEF DefundOK
  <2>5. Follows(me, d, e, K, G)
    BY Zenon, <1>1, <1>8, <1>9, <1>11, <2>2, <2>4, SetDefundOK
  <2>6. StoreOK(me, e, K, G) /\ Connected(me, v, DOMAIN e.ledgers)
    BY Zenon, <1>8, <2>5, StillConnected DEF Follows
  <2>7. Workable(me, e, m.objective, m.channel)
    BY <1>1, <2>6 DEF Workable
  <2>8. Defunds(e, m)
    <3>1. e.defund[v] = x
      BY <1>8, <2>2 DEF StoreOK, ClientRecord, VirtualsOK
    <3> QED BY Zenon, <1>1, <2>4, <3>1 DEF Defunds
  <2>9. Approving(me, K, K) /\ Signing(me, F, G)
    BY Zenon, <1>1, <1>2, <1>5, <1>11 DEF Approving, Signing
  <2>10. Admits(me, e, m, K, F)
    BY Zenon, <2>6, <2>7, <2>8, <2>9 DEF Admits
  <2> QED BY Zenon, <1>11, <2>3, <2>10
<1>12. CASE ~d.stopped /\ <<me, v>> \in Refused
  <2>1. DecideIfCreated(me, d, m) = [d EXCEPT !.defund[v].status = Rejected]
    BY <1>1, <1>12 DEF DecideIfCreated, Decide, SetStatus
  <2>2. Rejected # NoObjective /\ Rejected # Approved
    BY DEF Rejected, Approved, NoObjective
  <2> QED BY Zenon, <1>1, <1>4, <1>6, <1>11, <1>12, <2>1, <2>2
<1>13. CASE ~d.stopped /\ <<me, v>> \notin Refused
  <2>1. DecideIfCreated(me, d, m) = [d EXCEPT !.defund[v].status = Approved]
    BY <1>1, <1>13 DEF DecideIfCreated, Decide, SetStatus
  <2>2. PICK G : G = F \cup {<<v, MyRole(me, v), y>>}
    BY Zenon
  <2>3. Approved # NoObjective /\ <<v, MyRole(me, v), y>> \in G
    BY <2>2 DEF Approved, NoObjective
  <2> QED BY Zenon, <1>1, <1>4, <1>6, <1>11, <1>13, <2>1, <2>2, <2>3
<1> QED BY Zenon, <1>1, <1>4, <1>6, <1>10, <1>12, <1>13

\* The constructors of the direct objectives do not matter to virtual channels.
LEMMA ConstructDirectOK ==
  ASSUME NEW me, NEW c, NEW K, NEW F, StoreOK(me, c, K, F), NEW l \in LedgerIDs, NEW status, NEW exit
  PROVE  /\ StoreOK(me, ConstructDirectFund(me, c, l, exit, status), K, F)
         /\ StoreOK(me, ConstructDirectDefund(c, l, status), K, F)
<1>1. StoreOK(me, ConstructDirectFund(me, c, l, exit, status), K, F)
  <2>1. PICK channel : channel = New(State(PreFundTurnNum, exit, FALSE), IndexOf(MyParty(me, l)), 2)
    BY Zenon
  <2>2. PICK d : d = SetChannel(c, l, channel)
    OBVIOUS
  <2>3. StoreOK(me, d, K, F)
    BY Zenon, <2>2, SetDirectChannelOK
  <2>4. PICK e : e = [d EXCEPT !.directfund[l] = [NoDirectFund EXCEPT !.status = status]]
    BY Zenon
  <2>5. StoreOK(me, e, K, F)
    BY Zenon, <2>3, <2>4, DirectUpdatesOK
  <2>6. StoreOK(me, [e EXCEPT !.onChainFunding[l] = 0], K, F)
    BY Zenon, <2>5, DirectUpdatesOK
  <2>7. ConstructDirectFund(me, c, l, exit, status) = [e EXCEPT !.onChainFunding[l] = 0]
    BY Zenon, <2>1, <2>2, <2>4 DEF ConstructDirectFund
  <2> QED BY Zenon, <2>6, <2>7
<1>2. StoreOK(me, ConstructDirectDefund(c, l, status), K, F)
  <2>1. PICK channel : channel = CreateChannelFromConsensusChannel(c, l)
    OBVIOUS
  <2>2. PICK d : d = SetChannel(c, l, channel)
    OBVIOUS
  <2>3. StoreOK(me, d, K, F)
    BY Zenon, <2>2, SetDirectChannelOK
  <2>4. \A x : StoreOK(me, [d EXCEPT !.directdefund[l] = x], K, F)
    BY Zenon, <2>3, DirectUpdatesOK
  <2> QED BY Zenon, <2>1, <2>2, <2>4 DEF ConstructDirectDefund
<1> QED BY Zenon, <1>1, <1>2

\* A message about a ledger channel.
LEMMA AdmitsDirect ==
  ASSUME NEW me, NEW c, NEW K, NEW F, StoreOK(me, c, K, F), NEW m,
         IsDirect(m.objective), m.channel \in LedgerIDs
  PROVE  Admits(me, DecideIfCreated(me, c, m), m, K, F)
<1>1. PICK l \in LedgerIDs : l = m.channel
  OBVIOUS
<1>2. PICK d : d = DecideIfCreated(me, c, m)
  OBVIOUS
<1>3. ASSUME NEW status
      PROVE  StoreOK(me, SetStatus(c, m.objective, l, status), K, F)
  <2>1. \/ SetStatus(c, m.objective, l, status) = [c EXCEPT !.directfund[l].status = status]
        \/ SetStatus(c, m.objective, l, status) = [c EXCEPT !.directdefund[l].status = status]
    BY DEF SetStatus, IsDirect
  <2>2. /\ StoreOK(me, [c EXCEPT !.directfund[l].status = status], K, F)
        /\ StoreOK(me, [c EXCEPT !.directdefund[l].status = status], K, F)
    BY Zenon, DirectUpdatesOK
  <2> QED BY Zenon, <2>1, <2>2
<1>4. \/ d = c
      \/ \E status : \/ d = SetStatus(c, m.objective, l, status)
                     \/ d = DestroyConsensusChannel(SetStatus(c, m.objective, l, status), l)
  BY Zenon, <1>1, <1>2 DEF DecideIfCreated, Decide
<1>5. StoreOK(me, d, K, F)
  BY Zenon, <1>3, <1>4, DestroyConsensusChannelOK
<1>6. Workable(me, d, m.objective, m.channel) /\ Defunds(d, m)
  BY DEF Workable, Defunds, IsDirect
<1> QED BY Zenon, <1>2, <1>5, <1>6, AdmitsSame

\* A message for which no objective can be made.
LEMMA AdmitsFailure ==
  ASSUME NEW me, NEW c, NEW K, NEW F, StoreOK(me, c, K, F), NEW m
  PROVE  /\ Admits(me, Panic(c), m, K, F)
         /\ Admits(me, DecideIfCreated(me, Panic(c), m), m, K, F)
<1>1. PICK d : d = Panic(c)
  OBVIOUS
<1>2. StoreOK(me, d, K, F) /\ d.stopped
  BY Zenon, <1>1, PanicOK
<1>3. DecideIfCreated(me, d, m) = d
  BY Zenon, <1>2 DEF DecideIfCreated
<1> QED BY Zenon, <1>1, <1>2, <1>3, AdmitsStopped

\* getOrCreateObjective.
LEMMA GetOrCreateOK ==
  ASSUME NEW me, NEW c, NEW K, NEW F, StoreOK(me, c, K, F), NEW m, MessageOK(me, m, K, F),
         m.type = "SignedState"
  PROVE  Admits(me, getOrCreateObjective(me, c, m), m, K, F)
<1> DEFINE Goal == Admits(me, getOrCreateObjective(me, c, m), m, K, F)
<1> SUFFICES Goal OBVIOUS
<1> HIDE DEF Goal
<1>1. \/ IsDirect(m.objective) /\ m.channel \in LedgerIDs
      \/ m.objective = "VirtualFund" /\ m.channel \in Targets /\ Participates(me, m.channel)
      \/ /\ m.objective = "VirtualDefund" /\ m.channel \in Targets /\ Participates(me, m.channel)
         /\ FinalStateOK(m.channel, m.payload, F)
  BY DEF MessageOK
<1>2. CASE GetStatus(c, m.objective, m.channel) = NoObjective
  <2>1. PICK d : d = constructObjective(me, c, m)
    OBVIOUS
  <2>2. getOrCreateObjective(me, c, m) = DecideIfCreated(me, d, m)
    BY Zenon, <1>2, <2>1 DEF getOrCreateObjective
  <2>3. CASE d = Panic(c)
    BY Zenon, <2>2, <2>3, AdmitsFailure DEF Goal
  <2>4. CASE d # Panic(c)
    <3>1. CASE IsDirect(m.objective) /\ m.channel \in LedgerIDs
      <4>1. \/ \E exit : d = ConstructDirectFund(me, c, m.channel, exit, Unapproved)
            \/ d = ConstructDirectDefund(c, m.channel, Unapproved)
        BY SMTT(20), <2>1, <2>4, <3>1 DEF constructObjective, IsDirect
      <4>2. StoreOK(me, d, K, F)
        BY Zenon, <3>1, <4>1, ConstructDirectOK
      <4> QED BY ZenonT(30), <2>2, <3>1, <4>2, AdmitsDirect DEF Goal
    <3>2. CASE m.objective = "VirtualFund" /\ m.channel \in Targets /\ Participates(me, m.channel)
      <4>1. /\ d = ConstructVirtualFund(me, c, m.channel, Unapproved)
            /\ HasLedgers(me, c, m.channel)
        BY <2>1, <2>4, <3>2 DEF constructObjective
      <4>2. c.fund[m.channel] = NoObjective
        BY <1>2, <3>2 DEF GetStatus
      <4> QED BY Zenon, <2>2, <3>2, <4>1, <4>2, AdmitsVirtualFund DEF Goal
    <3>3. CASE /\ m.objective = "VirtualDefund" /\ m.channel \in Targets
               /\ Participates(me, m.channel) /\ FinalStateOK(m.channel, m.payload, F)
      <4>1. /\ d = ConstructVirtualDefund(c, m.channel,
                     calculatePaidToBob(c, m.channel, m.payload.state), Unapproved)
            /\ CanConstructVirtualDefund(me, c, m.channel)
        BY <2>1, <2>4, <3>3 DEF constructObjective
      <4>2. c.defund[m.channel].status = NoObjective
        BY <1>2, <3>3 DEF GetStatus
      <4> QED BY Zenon, <2>2, <3>3, <4>1, <4>2, AdmitsVirtualDefund DEF Goal
    <3> QED BY Zenon, <1>1, <3>1, <3>2, <3>3
  <2> QED BY Zenon, <2>3, <2>4
<1>3. CASE /\ GetStatus(c, m.objective, m.channel) # NoObjective
           /\ ~Populates(me, c, m.objective, m.channel)
  <2>1. getOrCreateObjective(me, c, m) = Panic(c)
    BY Zenon, <1>3 DEF getOrCreateObjective
  <2> QED BY Zenon, <2>1, AdmitsFailure DEF Goal
<1>4. CASE /\ GetStatus(c, m.objective, m.channel) # NoObjective
           /\ Populates(me, c, m.objective, m.channel)
  <2>1. getOrCreateObjective(me, c, m) = c
    BY Zenon, <1>4 DEF getOrCreateObjective
  <2>2. Workable(me, c, m.objective, m.channel)
    <3>1. CASE IsDirect(m.objective) /\ m.channel \in LedgerIDs
      BY Zenon, <3>1 DEF Workable
    <3>2. CASE /\ m.objective \in {"VirtualFund", "VirtualDefund"} /\ m.channel \in Targets
               /\ Participates(me, m.channel)
      <4>1. HasLedgers(me, c, m.channel)
        BY <1>4, <3>2 DEF Populates, IsDirect
      <4> QED BY Zenon, <3>2, <4>1, HasLedgerOf DEF Workable, Connected
    <3> QED BY Zenon, <1>1, <3>1, <3>2
  <2>3. Defunds(c, m)
    BY <1>4 DEF Defunds, GetStatus
  <2> QED BY Zenon, <2>1, <2>2, <2>3, AdmitsSame DEF Goal
<1> QED BY Zenon, <1>2, <1>3, <1>4
-----------------------------------------------------------------------------
(* Messages *)

\* A final state tells its payment.
LEMMA FinalPayment ==
  ASSUME NEW v \in Targets, NEW y \in Int, NEW z \in Int, Final(v, y) = Final(v, z)
  PROVE  y = z
<1>1. InitialOutcome[v][2] \in Nat
  BY ParticipantsAssumption
<1>2. Final(v, y).outcome[2] = InitialOutcome[v][2] + y /\ Final(v, z).outcome[2] = InitialOutcome[v][2] + z
  BY DEF Final, State
<1> QED BY <1>1, <1>2

\* Update of any objective with a signed state.
LEMMA UpdateWithStateOK ==
  ASSUME NEW me, NEW c, NEW K, NEW F, StoreOK(me, c, K, F), NEW m, MessageOK(me, m, K, F),
         m.type = "SignedState", Workable(me, c, m.objective, m.channel), Defunds(c, m)
  PROVE  StoreOK(me, progress(me, UpdateWithState(c, m), m.objective, m.channel), K, F)
<1>1. PICK d : d = UpdateWithState(c, m)
  OBVIOUS
<1>2. CASE IsDirect(m.objective) /\ m.channel \in LedgerIDs
  <2>1. StoreOK(me, AddToChannel(c, m.channel, m.payload), K, F)
    BY Zenon, <1>2, SetDirectChannelOK DEF AddToChannel
  <2>2. d = AddToChannel(c, m.channel, m.payload) \/ d = Panic(c)
    BY <1>1, <1>2 DEF UpdateWithState, IsDirect, UpdateDirectFundWithState, UpdateDirectDefundWithState
  <2>3. StoreOK(me, d, K, F)
    BY Zenon, <2>1, <2>2, PanicOK
  <2>4. Workable(me, d, m.objective, m.channel)
    BY Zenon, <1>2 DEF Workable
  <2> QED BY Zenon, <1>1, <2>3, <2>4, ProgressOK
<1>3. CASE /\ m.objective = "VirtualFund" /\ m.channel \in Targets
           /\ FundStateOK(m.channel, m.payload, K)
  <2>1. d = AddToChannel(c, m.channel, m.payload)
    BY <1>1, <1>3 DEF UpdateWithState, UpdateVirtualFundWithState
  <2>2. Follows(me, c, d, K, F)
    BY Zenon, <1>3, <2>1, AddToChannelFollows
  <2>3. StoreOK(me, d, K, F) /\ Workable(me, d, m.objective, m.channel)
    BY Zenon, <2>2, StillWorkable
  <2> QED BY Zenon, <1>1, <2>3, ProgressOK
<1>4. CASE /\ m.objective = "VirtualDefund" /\ m.channel \in Targets
           /\ FinalStateOK(m.channel, m.payload, F)
  <2>1. PICK v \in Targets : v = m.channel
    BY <1>4
  <2>2. PICK y \in Int : /\ m.payload.state = Final(v, y)
                         /\ \A s \in m.payload.sigs : <<v, s, y>> \in F
    BY Zenon, <1>4, <2>1 DEF FinalStateOK
  <2>3. d = UpdateVirtualDefundWithState(c, v, m.payload)
    BY SMTT(20), <1>1, <1>4, <2>1 DEF UpdateWithState
  <2>4. /\ Participates(me, v) /\ v \in DOMAIN c.channels /\ c.defund[v].status # NoObjective
        /\ DefundOK(me, v, c.defund[v], F)
    BY Zenon, <1>4, <2>1 DEF Defunds, StoreOK, VirtualsOK, VirtualOK
  <2>5. Follows(me, c, d, K, F)
    <3>1. CASE m.payload.state = finalVirtualState(c, v)
      <4>1. c.defund[v].paidToBob = y
        <5>1. PICK paid : paid = c.defund[v].paidToBob
          OBVIOUS
        <5>2. paid \in Int
          BY Zenon, <2>4, <5>1 DEF DefundOK
        <5>3. Final(v, y) = Final(v, paid)
          BY SMTT(20), <2>2, <2>4, <3>1, <5>1, FinalVirtualState
        <5> QED BY Zenon, <5>1, <5>2, <5>3, FinalPayment
      <4>2. \A s \in m.payload.sigs : <<v, s, c.defund[v].paidToBob>> \in F
        BY Zenon, <2>2, <4>1
      <4>3. Follows(me, c, [c EXCEPT !.defund[v].signatures = @ \cup m.payload.sigs], K, F)
        BY Zenon, <2>4, <4>2, UpdateDefundFollows
      <4> QED BY Zenon, <2>3, <3>1, <4>3 DEF UpdateVirtualDefundWithState
    <3>2. CASE m.payload.state # finalVirtualState(c, v)
      BY Zenon, <2>3, <3>2, PanicFollows DEF UpdateVirtualDefundWithState
    <3> QED BY Zenon, <3>1, <3>2
  <2>6. StoreOK(me, d, K, F) /\ Workable(me, d, m.objective, m.channel)
    BY Zenon, <2>5, StillWorkable
  <2> QED BY Zenon, <1>1, <2>6, ProgressOK
<1> QED
  <2>1. \/ IsDirect(m.objective) /\ m.channel \in LedgerIDs
        \/ /\ m.objective = "VirtualFund" /\ m.channel \in Targets
           /\ FundStateOK(m.channel, m.payload, K)
        \/ /\ m.objective = "VirtualDefund" /\ m.channel \in Targets
           /\ FinalStateOK(m.channel, m.payload, F)
    BY DEF MessageOK
  <2> QED BY Zenon, <1>2, <1>3, <1>4, <2>1

\* One signed state of a message.
LEMMA HandleSignedStateOK ==
  ASSUME NEW me, NEW c, NEW K, NEW F, StoreOK(me, c, K, F), NEW m, MessageOK(me, m, K, F),
         m.type = "SignedState"
  PROVE  Ends(me, handleSignedState(me, c, m), K, F)
<1>1. PICK d : d = getOrCreateObjective(me, c, m)
  OBVIOUS
<1>2. Admits(me, d, m, K, F)
  BY Zenon, <1>1, GetOrCreateOK
<1>3. PICK L, G : /\ Approving(me, K, L) /\ Signing(me, F, G) /\ StoreOK(me, d, L, G)
                  /\ d.stopped \/ (Workable(me, d, m.objective, m.channel) /\ Defunds(d, m))
  BY Zenon, <1>2 DEF Admits
<1>4. MessageOK(me, m, L, G)
  BY Zenon, <1>3, ApprovingGrows, MessageGrows
<1>5. PICK e : e = handleSignedState(me, c, m)
  OBVIOUS
<1>6. \/ e = d
      \/ ~d.stopped /\ e = progress(me, UpdateWithState(d, m), m.objective, m.channel)
  BY Zenon, <1>1, <1>5 DEF handleSignedState, applySignedState
<1>7. StoreOK(me, e, L, G)
  BY Zenon, <1>3, <1>4, <1>6, UpdateWithStateOK
<1> QED BY Zenon, <1>3, <1>5, <1>7 DEF Ends

\* Update of a virtual objective with a proposal.
LEMMA UpdateWithProposalFollows ==
  ASSUME NEW me, NEW c, NEW K, NEW F, StoreOK(me, c, K, F), NEW sp, ProposalOK(sp.proposal, K),
         Connected(me, sp.proposal.target, DOMAIN c.ledgers)
  PROVE  Follows(me, c, UpdateWithProposal(me, c, sp), K, F)
<1>1. PICK l : l = sp.proposal.ledgerID
  OBVIOUS
<1>2. PICK v : v = sp.proposal.target
  OBVIOUS
<1>3. CASE \E hop \in MyHops(me, v) : LedgerOf(v, hop) = l
  <2>1. l \in DOMAIN c.ledgers
    BY Zenon, <1>2, <1>3 DEF Connected
  <2>2. LedgerOK(c.ledgers[l], K)
    BY Zenon, <2>1 DEF StoreOK, LedgersOK
  <2>3. PICK ledger : ledger = Receive(c.ledgers[l], sp)
    OBVIOUS
  <2>4. LedgerOK(ledger, K)
    BY Zenon, <2>2, <2>3, ReceiveOK
  <2>5. PICK d : d = [c EXCEPT !.ledgers[l] = ledger]
    BY Zenon
  <2>6. StoreOK(me, d, K, F) /\ DOMAIN d.ledgers = DOMAIN c.ledgers
    BY <2>4, <2>5, UpdateLedgerOK
  <2>7. Follows(me, c, d, K, F)
    BY Zenon, <2>6 DEF Follows
  <2>8. UpdateWithProposal(me, c, sp) = d \/ UpdateWithProposal(me, c, sp) = Panic(c)
    BY Zenon, <1>1, <1>2, <2>3, <2>5
       DEF UpdateWithProposal, UpdateVirtualFundWithProposal, UpdateVirtualDefundWithProposal
  <2> QED BY Zenon, <2>7, <2>8, PanicFollows
<1>4. CASE ~\E hop \in MyHops(me, v) : LedgerOf(v, hop) = l
  <2>1. UpdateWithProposal(me, c, sp) = Panic(c)
    BY Zenon, <1>1, <1>2, <1>4
       DEF UpdateWithProposal, UpdateVirtualFundWithProposal, UpdateVirtualDefundWithProposal
  <2> QED BY Zenon, <2>1, PanicFollows
<1> QED BY Zenon, <1>3, <1>4

\* One proposal of a message.
LEMMA HandleSignedProposalOK ==
  ASSUME NEW me, NEW c, NEW K, NEW F, StoreOK(me, c, K, F), NEW sp, ProposalOK(sp.proposal, K)
  PROVE  StoreOK(me, handleSignedProposal(me, c, sp), K, F)
<1>1. PICK objective : objective = ProposalObjective(sp.proposal)
  OBVIOUS
<1>2. PICK v \in Targets : v = sp.proposal.target
  BY DEF ProposalOK
<1>3. PICK e : e = handleSignedProposal(me, c, sp)
  OBVIOUS
<1>4. objective \in {"VirtualFund", "VirtualDefund"}
  BY <1>1 DEF ProposalObjective
<1>5. \/ e = c \/ e = Panic(c)
      \/ /\ GetStatus(c, objective, v) # NoObjective /\ Populates(me, c, objective, v)
         /\ e = progress(me, UpdateWithProposal(me, c, sp), objective, v)
  BY Zenon, <1>1, <1>2, <1>3 DEF handleSignedProposal
<1>6. CASE /\ GetStatus(c, objective, v) # NoObjective /\ Populates(me, c, objective, v)
           /\ e = progress(me, UpdateWithProposal(me, c, sp), objective, v)
  <2>1. c.fund[v] # NoObjective \/ c.defund[v].status # NoObjective
    BY SMTT(20), <1>4, <1>6 DEF GetStatus
  <2>2. Participates(me, v)
    BY Zenon, <2>1 DEF StoreOK, VirtualsOK, VirtualOK
  <2>3. HasLedgers(me, c, v)
    BY <1>4, <1>6 DEF Populates, IsDirect
  <2>4. Connected(me, v, DOMAIN c.ledgers)
    BY Zenon, <2>2, <2>3, HasLedgerOf DEF Connected
  <2>5. Follows(me, c, UpdateWithProposal(me, c, sp), K, F)
    BY Zenon, <1>2, <2>4, UpdateWithProposalFollows
  <2>6. PICK d : d = UpdateWithProposal(me, c, sp)
    OBVIOUS
  <2>7. StoreOK(me, d, K, F) /\ Workable(me, d, objective, v)
    BY Zenon, <1>4, <2>4, <2>5, <2>6, StillWorkable DEF Workable
  <2> QED BY Zenon, <1>3, <1>6, <2>6, <2>7, ProgressOK
<1> QED BY Zenon, <1>3, <1>5, <1>6, PanicOK

\* f[n] is what client me has after the first n proposals of payload.
Handling(f, me, c, payload, N) ==
  f = [n \in 0..N |-> IF n = 0 THEN c ELSE handleSignedProposal(me, f[n - 1], payload[n])]

\* The function by which HandleMessage goes through the proposals exists ...
LEMMA HandlingExists ==
  ASSUME NEW me, NEW c, NEW payload, NEW N \in Nat
  PROVE  \E f : Handling(f, me, c, payload, N)
<1> DEFINE S == {n \in 0..N : \E f : Handling(f, me, c, payload, n)}
<1>1. 0 \in S
  <2>1. PICK f : f = [n \in 0..0 |-> c]
    BY Zenon
  <2>2. Handling(f, me, c, payload, 0)
    BY <2>1 DEF Handling
  <2> QED BY <2>2
<1>2. ASSUME NEW n \in 1..N, n - 1 \in S PROVE n \in S
  <2>1. PICK f : Handling(f, me, c, payload, n - 1)
    BY <1>2
  <2>2. PICK g : g = [k \in 0..n |-> IF k < n THEN f[k]
                         ELSE handleSignedProposal(me, f[n - 1], payload[n])]
    BY Zenon
  <2>3. ASSUME NEW k \in 0..n
        PROVE  g[k] = IF k = 0 THEN c ELSE handleSignedProposal(me, g[k - 1], payload[k])
    BY <2>1, <2>2 DEF Handling
  <2>4. Handling(g, me, c, payload, n)
    BY <2>2, <2>3 DEF Handling
  <2> QED BY <2>4
<1>3. 0..N \subseteq S
  <2> HIDE DEF S
  <2> QED BY <1>1, <1>2, InductionUpTo
<1> QED BY <1>3

\* ... and each of its values is a consistent store.
LEMMA HandlingOK ==
  ASSUME NEW me, NEW c, NEW K, NEW F, StoreOK(me, c, K, F), NEW payload, QueueOK(payload, K),
         NEW f, Handling(f, me, c, payload, Len(payload))
  PROVE  StoreOK(me, f[Len(payload)], K, F)
<1>1. PICK N : N = Len(payload)
  OBVIOUS
<1>2. N \in Nat /\ \A n \in 1..N : ProposalOK(payload[n].proposal, K)
  BY Zenon, <1>1, QueueParts
<1> DEFINE S == {n \in 0..N : StoreOK(me, f[n], K, F)}
<1>3. 0 \in S
  <2>1. f[0] = c
    BY <1>1, <1>2 DEF Handling
  <2> QED BY <1>2, <2>1
<1>4. ASSUME NEW n \in 1..N, n - 1 \in S PROVE n \in S
  <2>1. f[n] = handleSignedProposal(me, f[n - 1], payload[n]) /\ n \in 0..N
    BY <1>1, <1>2 DEF Handling
  <2>2. StoreOK(me, f[n - 1], K, F)
    BY Zenon, <1>4
  <2>3. StoreOK(me, f[n], K, F)
    BY Zenon, <1>2, <2>1, <2>2, HandleSignedProposalOK
  <2> QED BY Zenon, <2>1, <2>3
<1>5. 0..N \subseteq S
  <2> HIDE DEF S
  <2> QED BY Zenon, <1>2, <1>3, <1>4, InductionUpTo
<1>6. N \in 0..N
  BY <1>2
<1> QED BY Zenon, <1>1, <1>5, <1>6

\* handleMessage.
LEMMA HandleMessageOK ==
  ASSUME NEW me, NEW c, NEW K, NEW F, StoreOK(me, c, K, F), NEW m, MessageOK(me, m, K, F)
  PROVE  Ends(me, handleMessage(me, c, m), K, F)
<1>1. CASE m.type = "SignedState"
  BY Zenon, <1>1, HandleSignedStateOK DEF handleMessage
<1>2. CASE m.type # "SignedState"
  <2>1. QueueOK(m.payload, K)
    BY <1>2 DEF MessageOK
  <2>2. Len(m.payload) \in Nat
    BY Zenon, <2>1, QueueParts
  <2>3. PICK f : f = CHOOSE g : Handling(g, me, c, m.payload, Len(m.payload))
    OBVIOUS
  <2>4. Handling(f, me, c, m.payload, Len(m.payload))
    BY Zenon, <2>2, <2>3, HandlingExists
  <2>5. StoreOK(me, f[Len(m.payload)], K, F)
    BY Zenon, <2>1, <2>4, HandlingOK
  <2>6. handleMessage(me, c, m) = f[Len(m.payload)]
    BY Zenon, <1>2, <2>3 DEF handleMessage, Handling
  <2>7. Approving(me, K, K) /\ Signing(me, F, F)
    BY Zenon DEF Approving, Signing
  <2> QED BY Zenon, <2>5, <2>6, <2>7 DEF Ends
<1> QED BY Zenon, <1>1, <1>2

\* Update of the direct objectives with a chain event.
LEMMA UpdateDirectOK ==
  ASSUME NEW me, NEW c, NEW K, NEW F, StoreOK(me, c, K, F), NEW l, NEW e
  PROVE  /\ StoreOK(me, UpdateDirectFundWithChainEvent(c, l, e), K, F)
         /\ StoreOK(me, UpdateDirectDefundWithChainEvent(c, l, e), K, F)
<1>1. StoreOK(me, UpdateDirectFundWithChainEvent(c, l, e), K, F)
  <2>1. PICK d : d = [c EXCEPT !.onChainFunding[l] = e.nowHeld,
                               !.directfund[l].latestBlockNumber = e.blockNum]
    OBVIOUS
  <2>2. /\ ClientRecord(d) /\ d.fund = c.fund /\ d.defund = c.defund /\ d.channels = c.channels
        /\ d.ledgers = c.ledgers /\ d.channelToObjective = c.channelToObjective
        /\ d.sideEffects = c.sideEffects /\ d.outbox = c.outbox /\ d.submitted = c.submitted
    BY <2>1 DEF StoreOK, ClientRecord
  <2>3. StoreOK(me, d, K, F)
    BY Zenon, <2>2, StoreSame
  <2> QED BY Zenon, <2>1, <2>3, PanicOK DEF UpdateDirectFundWithChainEvent
<1>2. StoreOK(me, UpdateDirectDefundWithChainEvent(c, l, e), K, F)
  <2>1. PICK d : d = [c EXCEPT !.onChainFunding[l] = e.assetAmount]
    BY Zenon
  <2>2. StoreOK(me, d, K, F)
    BY Zenon, <2>1, DirectUpdatesOK
  <2>3. UpdateDirectDefundWithChainEvent(c, l, e) \in {c, d, Panic(c)}
    BY <2>1 DEF UpdateDirectDefundWithChainEvent
  <2> QED BY Zenon, <2>2, <2>3, PanicOK
<1> QED BY Zenon, <1>1, <1>2

\* handleChainEvent.
LEMMA HandleChainEventOK ==
  ASSUME NEW me, NEW c, NEW K, NEW F, StoreOK(me, c, K, F), NEW e, e.l \in LedgerIDs
  PROVE  StoreOK(me, handleChainEvent(me, c, e), K, F)
<1>1. PICK owner : owner = c.channelToObjective[e.l]
  OBVIOUS
<1>2. PICK r : r = handleChainEvent(me, c, e)
  OBVIOUS
<1>3. \/ r = c
      \/ /\ owner # NoOwner
         /\ r = progress(me, UpdateWithChainEvent(c, owner, e), owner, e.l)
  BY Zenon, <1>1, <1>2 DEF handleChainEvent
<1>4. owner # NoOwner => IsDirect(owner)
  BY Zenon, <1>1 DEF StoreOK, OwnersOK
<1>5. PICK d : d = UpdateWithChainEvent(c, owner, e)
  OBVIOUS
<1>6. StoreOK(me, d, K, F)
  BY Zenon, <1>5, UpdateDirectOK DEF UpdateWithChainEvent
<1>7. IsDirect(owner) => Workable(me, d, owner, e.l)
  BY Zenon DEF Workable
<1>8. IsDirect(owner) => StoreOK(me, progress(me, d, owner, e.l), K, F)
  BY Zenon, <1>6, <1>7, ProgressOK
<1> QED BY Zenon, <1>2, <1>3, <1>4, <1>5, <1>8

-----------------------------------------------------------------------------
(* The network *)

\* The messages on the way to client q stand for what they say.
LinkOK(q, messages, K, F) ==
  \E S : messages \in Seq(S) /\ \A m \in S : MessageOK(q, m, K, F)

\* All messages on their way do.
NetworkOK(net, K, F) ==
  /\ DOMAIN net = Clients
  /\ \A p \in Clients : DOMAIN net[p] = Clients
  /\ \A p, q \in Clients : LinkOK(q, net[p][q], K, F)

\* One more message.
LEMMA LinkAppended ==
  ASSUME NEW K, NEW F, NEW q, NEW messages, LinkOK(q, messages, K, F), NEW m, MessageOK(q, m, K, F)
  PROVE  LinkOK(q, Append(messages, m), K, F)
<1>1. PICK S : messages \in Seq(S) /\ \A x \in S : MessageOK(q, x, K, F)
  BY Zenon DEF LinkOK
<1>2. Append(messages, m) \in Seq(S \cup {m})
  BY Zenon, <1>1, Appending
<1>3. \A x \in S \cup {m} : MessageOK(q, x, K, F)
  BY Zenon, <1>1
<1> QED BY Zenon, <1>2, <1>3 DEF LinkOK

\* The first message, and the others.
LEMMA LinkParts ==
  ASSUME NEW K, NEW F, NEW q, NEW messages, LinkOK(q, messages, K, F), messages # << >>
  PROVE  MessageOK(q, Head(messages), K, F) /\ LinkOK(q, Tail(messages), K, F)
<1>1. PICK S : messages \in Seq(S) /\ \A x \in S : MessageOK(q, x, K, F)
  BY Zenon DEF LinkOK
<1>2. Head(messages) \in S /\ Tail(messages) \in Seq(S)
  BY <1>1, SequenceMembers
<1> QED BY Zenon, <1>1, <1>2 DEF LinkOK

\* More approvals and agreements.
LEMMA NetworkGrows ==
  ASSUME NEW K, NEW L, K \subseteq L, NEW F, NEW G, F \subseteq G, NEW net, NetworkOK(net, K, F)
  PROVE  NetworkOK(net, L, G)
<1>1. ASSUME NEW q, NEW messages, LinkOK(q, messages, K, F) PROVE LinkOK(q, messages, L, G)
  BY Zenon, <1>1, MessageGrows DEF LinkOK
<1> QED BY Zenon, <1>1 DEF NetworkOK

\* A message is put on its way.
LEMMA SendingOK ==
  ASSUME NEW K, NEW F, NEW net, NetworkOK(net, K, F), NEW p, NEW q, NEW m, MessageOK(q, m, K, F)
  PROVE  NetworkOK([net EXCEPT ![p][q] = Append(@, m)], K, F)
<1>1. PICK n : n = [net EXCEPT ![p][q] = Append(@, m)]
  BY Zenon
<1>2. DOMAIN n = Clients
  BY <1>1 DEF NetworkOK
<1>3. ASSUME NEW i \in Clients PROVE DOMAIN n[i] = Clients
  BY <1>1 DEF NetworkOK
<1>4. ASSUME NEW i \in Clients, NEW j \in Clients PROVE LinkOK(j, n[i][j], K, F)
  <2>1. LinkOK(j, net[i][j], K, F)
    BY Zenon DEF NetworkOK
  <2>2. CASE i = p /\ j = q
    <3>1. n[i][j] = Append(net[i][j], m)
      BY <1>1, <2>2 DEF NetworkOK
    <3> QED BY Zenon, <2>1, <2>2, <3>1, LinkAppended
  <2>3. CASE ~(i = p /\ j = q)
    <3>1. n[i][j] = net[i][j]
      BY <1>1, <2>3 DEF NetworkOK
    <3> QED BY Zenon, <2>1, <3>1
  <2> QED BY Zenon, <2>2, <2>3
<1> QED BY Zenon, <1>1, <1>2, <1>3, <1>4 DEF NetworkOK

\* A message is taken from the network.
LEMMA TakingOK ==
  ASSUME NEW K, NEW F, NEW net, NetworkOK(net, K, F), NEW p \in Clients, NEW q \in Clients,
         net[p][q] # << >>
  PROVE  /\ MessageOK(q, Head(net[p][q]), K, F)
         /\ NetworkOK([net EXCEPT ![p][q] = Tail(@)], K, F)
<1>1. PICK n : n = [net EXCEPT ![p][q] = Tail(@)]
  BY Zenon
<1>2. DOMAIN n = Clients
  BY <1>1 DEF NetworkOK
<1>3. ASSUME NEW i \in Clients PROVE DOMAIN n[i] = Clients
  BY <1>1 DEF NetworkOK
<1>4. LinkOK(q, net[p][q], K, F)
  BY Zenon DEF NetworkOK
<1>5. MessageOK(q, Head(net[p][q]), K, F) /\ LinkOK(q, Tail(net[p][q]), K, F)
  BY Zenon, <1>4, LinkParts
<1>6. ASSUME NEW i \in Clients, NEW j \in Clients PROVE LinkOK(j, n[i][j], K, F)
  <2>1. LinkOK(j, net[i][j], K, F)
    BY Zenon DEF NetworkOK
  <2>2. CASE i = p /\ j = q
    <3>1. n[i][j] = Tail(net[p][q])
      BY <1>1, <2>2 DEF NetworkOK
    <3> QED BY Zenon, <1>5, <2>2, <3>1
  <2>3. CASE ~(i = p /\ j = q)
    <3>1. n[i][j] = net[i][j]
      BY <1>1, <2>3 DEF NetworkOK
    <3> QED BY Zenon, <2>1, <3>1
  <2> QED BY Zenon, <2>2, <2>3
<1> QED BY Zenon, <1>1, <1>2, <1>3, <1>5, <1>6 DEF NetworkOK

\* Message x of client me is put on its way.
SendOne(net, me, x) == [net EXCEPT ![Link(me, x.to)][x.to] = Append(@, x.message)]

\* Such a message.
LEMMA SendOneOK ==
  ASSUME NEW K, NEW F, NEW net, NetworkOK(net, K, F), NEW me, NEW x,
         MessageOK(x.to, x.message, K, F)
  PROVE  NetworkOK(SendOne(net, me, x), K, F)
<1>1. PICK p, q, m : p = Link(me, x.to) /\ q = x.to /\ m = x.message
  OBVIOUS
<1>2. NetworkOK([net EXCEPT ![p][q] = Append(@, m)], K, F)
  BY Zenon, <1>1, SendingOK
<1> QED BY Zenon, <1>1, <1>2 DEF SendOne

\* f[n] is the network after the first n messages of an outbox.
Sending(f, net, me, outbox, N) ==
  f = [n \in 0..N |-> IF n = 0 THEN net ELSE SendOne(f[n - 1], me, outbox[n])]

\* The function by which Sent goes through an outbox exists ...
LEMMA SendingExists ==
  ASSUME NEW net, NEW me, NEW outbox, NEW N \in Nat
  PROVE  \E f : Sending(f, net, me, outbox, N)
<1> DEFINE S == {n \in 0..N : \E f : Sending(f, net, me, outbox, n)}
<1>1. 0 \in S
  <2>1. PICK f : f = [n \in 0..0 |-> net]
    BY Zenon
  <2>2. Sending(f, net, me, outbox, 0)
    BY <2>1 DEF Sending
  <2> QED BY <2>2
<1>2. ASSUME NEW n \in 1..N, n - 1 \in S PROVE n \in S
  <2>1. PICK f : Sending(f, net, me, outbox, n - 1)
    BY <1>2
  <2>2. PICK g : g = [k \in 0..n |-> IF k < n THEN f[k] ELSE SendOne(f[n - 1], me, outbox[n])]
    BY Zenon
  <2>3. ASSUME NEW k \in 0..n
        PROVE  g[k] = IF k = 0 THEN net ELSE SendOne(g[k - 1], me, outbox[k])
    BY <2>1, <2>2 DEF Sending
  <2>4. Sending(g, net, me, outbox, n)
    BY <2>2, <2>3 DEF Sending
  <2> QED BY <2>4
<1>3. 0..N \subseteq S
  <2> HIDE DEF S
  <2> QED BY <1>1, <1>2, InductionUpTo
<1> QED BY <1>3

\* ... and all messages of an outbox may be sent.
LEMMA SentOK ==
  ASSUME NEW K, NEW F, NEW net, NetworkOK(net, K, F), NEW me, NEW c, OutboxOK(c.outbox, K, F),
         NEW N \in 0..Len(c.outbox)
  PROVE  NetworkOK(Sent(net, me, c, N), K, F)
<1>1. N \in Nat /\ \A n \in 1..N : n \in 1..Len(c.outbox)
  <2>1. Len(c.outbox) \in Nat
    BY Zenon, OutboxParts
  <2> QED BY <2>1
<1>2. PICK f : f = CHOOSE g : Sending(g, net, me, c.outbox, N)
  OBVIOUS
<1>3. Sending(f, net, me, c.outbox, N)
  BY Zenon, <1>1, <1>2, SendingExists
<1>4. Sent(net, me, c, N) = f[N]
  BY Zenon, <1>2 DEF Sent, Sending, SendOne
<1> DEFINE S == {n \in 0..N : NetworkOK(f[n], K, F)}
<1>5. 0 \in S
  <2>1. f[0] = net
    BY <1>1, <1>3 DEF Sending
  <2> QED BY <1>1, <2>1
<1>6. ASSUME NEW n \in 1..N, n - 1 \in S PROVE n \in S
  <2>1. f[n] = SendOne(f[n - 1], me, c.outbox[n]) /\ n \in 0..N
    BY <1>1, <1>3 DEF Sending
  <2>2. NetworkOK(f[n - 1], K, F)
    BY Zenon, <1>6
  <2>3. MessageOK(c.outbox[n].to, c.outbox[n].message, K, F)
    BY Zenon, <1>1, OutboxParts
  <2>4. NetworkOK(f[n], K, F)
    BY Zenon, <2>1, <2>2, <2>3, SendOneOK
  <2> QED BY Zenon, <2>1, <2>4
<1>7. 0..N \subseteq S
  <2> HIDE DEF S
  <2> QED BY SMTT(20), <1>1, <1>5, <1>6, InductionUpTo
<1>8. N \in 0..N
  BY <1>1
<1> QED BY Zenon, <1>4, <1>7, <1>8

-----------------------------------------------------------------------------
(* The chain *)

\* The chain knows of ledger channels only.
ChainOK(ch) == "pending" \in DOMAIN ch /\ \A tx \in ch.pending : tx.l \in LedgerIDs

\* A transaction is submitted.
LEMMA SendTransactionOK ==
  ASSUME NEW ch, ChainOK(ch), NEW tx, tx.l \in LedgerIDs
  PROVE  ChainOK(SendTransaction(ch, tx))
<1>1. PICK d : d = SendTransaction(ch, tx)
  OBVIOUS
<1>2. PICK x : x = IF tx.type = "Deposit" THEN Expecting(tx, ch.holdings[tx.l]) ELSE tx
  OBVIOUS
<1>3. x.l = tx.l
  BY <1>2 DEF Expecting
<1>4. DOMAIN d = DOMAIN ch /\ ("pending" \in DOMAIN ch => d.pending = ch.pending \cup {x})
  BY <1>1, <1>2 DEF SendTransaction
<1> QED BY Zenon, <1>1, <1>3, <1>4 DEF ChainOK

\* f[n] is the chain after the first n transactions were submitted.
Submitting(f, ch, txs, N) ==
  f = [n \in 0..N |-> IF n = 0 THEN ch ELSE SendTransaction(f[n - 1], txs[n])]

\* The function by which Submitted goes through transactions exists ...
LEMMA SubmittingExists ==
  ASSUME NEW ch, NEW txs, NEW N \in Nat
  PROVE  \E f : Submitting(f, ch, txs, N)
<1> DEFINE S == {n \in 0..N : \E f : Submitting(f, ch, txs, n)}
<1>1. 0 \in S
  <2>1. PICK f : f = [n \in 0..0 |-> ch]
    BY Zenon
  <2>2. Submitting(f, ch, txs, 0)
    BY <2>1 DEF Submitting
  <2> QED BY <2>2
<1>2. ASSUME NEW n \in 1..N, n - 1 \in S PROVE n \in S
  <2>1. PICK f : Submitting(f, ch, txs, n - 1)
    BY <1>2
  <2>2. PICK g : g = [k \in 0..n |-> IF k < n THEN f[k] ELSE SendTransaction(f[n - 1], txs[n])]
    BY Zenon
  <2>3. ASSUME NEW k \in 0..n
        PROVE  g[k] = IF k = 0 THEN ch ELSE SendTransaction(g[k - 1], txs[k])
    BY <2>1, <2>2 DEF Submitting
  <2>4. Submitting(g, ch, txs, n)
    BY <2>2, <2>3 DEF Submitting
  <2> QED BY <2>4
<1>3. 0..N \subseteq S
  <2> HIDE DEF S
  <2> QED BY <1>1, <1>2, InductionUpTo
<1> QED BY <1>3

\* ... and all transactions of a client may be submitted.
LEMMA SubmittedOK ==
  ASSUME NEW ch, ChainOK(ch), NEW c, AboutLedgers(c.submitted)
  PROVE  ChainOK(Submitted(ch, c))
<1>1. PICK N : N = Len(c.submitted)
  BY Zenon
<1>2. N \in Nat /\ \A n \in 1..N : c.submitted[n].l \in LedgerIDs
  <2>1. PICK T : c.submitted \in Seq(T) /\ \A tx \in T : tx.l \in LedgerIDs
    BY Zenon DEF AboutLedgers
  <2> QED BY Zenon, <1>1, <2>1, SequenceMembers
<1>3. PICK f : f = CHOOSE g : Submitting(g, ch, c.submitted, N)
  OBVIOUS
<1>4. Submitting(f, ch, c.submitted, N)
  BY Zenon, <1>2, <1>3, SubmittingExists
<1>5. Submitted(ch, c) = f[N]
  BY Zenon, <1>1, <1>3 DEF Submitted, Submitting
<1> DEFINE S == {n \in 0..N : ChainOK(f[n])}
<1>6. 0 \in S
  <2>1. f[0] = ch
    BY <1>2, <1>4 DEF Submitting
  <2> QED BY <1>2, <2>1
<1>7. ASSUME NEW n \in 1..N, n - 1 \in S PROVE n \in S
  <2>1. f[n] = SendTransaction(f[n - 1], c.submitted[n]) /\ n \in 0..N
    BY <1>2, <1>4 DEF Submitting
  <2>2. ChainOK(f[n - 1])
    BY Zenon, <1>7
  <2>3. ChainOK(f[n])
    BY Zenon, <1>2, <2>1, <2>2, SendTransactionOK
  <2> QED BY Zenon, <2>1, <2>3
<1>8. 0..N \subseteq S
  <2> HIDE DEF S
  <2> QED BY SMTT(20), <1>2, <1>6, <1>7, InductionUpTo
<1>9. N \in 0..N
  BY <1>2
<1> QED BY Zenon, <1>5, <1>8, <1>9

\* A transaction is mined.
LEMMA AppliedOK ==
  ASSUME NEW ch, ChainOK(ch), NEW tx
  PROVE  ChainOK(Applied(ch, tx))
<1>1. DOMAIN deposit(ch, tx) = DOMAIN ch /\ deposit(ch, tx).pending = ch.pending
  BY DEF deposit, ChainOK
<1>2. /\ DOMAIN concludeAndTransferAllAssets(ch, tx) = DOMAIN ch
      /\ concludeAndTransferAllAssets(ch, tx).pending = ch.pending
  BY DEF concludeAndTransferAllAssets, ChainOK
<1>3. Applied(ch, tx) \in {ch, deposit(ch, tx), concludeAndTransferAllAssets(ch, tx)}
  BY DEF Applied
<1> QED BY Zenon, <1>1, <1>2, <1>3 DEF ChainOK

\* The chain at the start of a block.
Starting(ch, block) ==
  [ch EXCEPT !.pending = @ \ {block[n] : n \in DOMAIN block},
             !.blockNum = [l \in LedgerIDs |->
               IF \E n \in DOMAIN block : block[n].l = l THEN @[l] + 1 ELSE @[l]]]

\* What is pending then is what is not in the block.
LEMMA StartingOK ==
  ASSUME NEW ch, ChainOK(ch), NEW block
  PROVE  ChainOK(Starting(ch, block))
<1>1. PICK d : d = Starting(ch, block)
  OBVIOUS
<1>2. PICK mined : mined = {block[n] : n \in DOMAIN block}
  BY Zenon
<1>3. PICK numbers : numbers = [l \in LedgerIDs |->
               IF \E n \in DOMAIN block : block[n].l = l THEN ch.blockNum[l] + 1 ELSE ch.blockNum[l]]
  BY Zenon
<1>4. d = [ch EXCEPT !.pending = @ \ mined, !.blockNum = numbers]
  BY Zenon, <1>1, <1>2, <1>3 DEF Starting
<1>5. DOMAIN d = DOMAIN ch /\ ("pending" \in DOMAIN ch => d.pending = ch.pending \ mined)
  BY <1>4
<1> QED BY Zenon, <1>1, <1>5 DEF ChainOK

\* f[n] is the chain after the first n transactions of a block.
Mining(f, ch, block, N) ==
  f = [n \in 0..N |-> IF n = 0 THEN Starting(ch, block) ELSE Applied(f[n - 1], block[n])]

\* The function by which Mined goes through a block exists ...
LEMMA MiningExists ==
  ASSUME NEW ch, NEW block, NEW N \in Nat
  PROVE  \E f : Mining(f, ch, block, N)
<1> DEFINE S == {n \in 0..N : \E f : Mining(f, ch, block, n)}
<1>1. 0 \in S
  <2>1. PICK f : f = [n \in 0..0 |-> Starting(ch, block)]
    BY Zenon
  <2>2. Mining(f, ch, block, 0)
    BY <2>1 DEF Mining
  <2> QED BY <2>2
<1>2. ASSUME NEW n \in 1..N, n - 1 \in S PROVE n \in S
  <2>1. PICK f : Mining(f, ch, block, n - 1)
    BY <1>2
  <2>2. PICK g : g = [k \in 0..n |-> IF k < n THEN f[k] ELSE Applied(f[n - 1], block[n])]
    BY Zenon
  <2>3. ASSUME NEW k \in 0..n
        PROVE  g[k] = IF k = 0 THEN Starting(ch, block) ELSE Applied(g[k - 1], block[k])
    BY <2>1, <2>2 DEF Mining
  <2>4. Mining(g, ch, block, n)
    BY <2>2, <2>3 DEF Mining
  <2> QED BY <2>4
<1>3. 0..N \subseteq S
  <2> HIDE DEF S
  <2> QED BY SMTT(20), <1>1, <1>2, InductionUpTo
<1> QED BY <1>3

\* A block is made of pending transactions.
LEMMA WithinOK ==
  ASSUME NEW ch, ChainOK(ch), NEW block, NEW N \in Nat
  PROVE  ChainOK(Within(ch, block, N))
<1>1. PICK f : f = CHOOSE g : Mining(g, ch, block, N)
  OBVIOUS
<1>2. Mining(f, ch, block, N)
  BY Zenon, <1>1, MiningExists
<1>3. Within(ch, block, N) = f[N]
  BY Zenon, <1>1 DEF Within, Mining, Starting
<1> DEFINE S == {n \in 0..N : ChainOK(f[n])}
<1>4. 0 \in S
  <2>1. f[0] = Starting(ch, block)
    BY <1>2 DEF Mining
  <2> QED BY <2>1, StartingOK
<1>5. ASSUME NEW n \in 1..N, n - 1 \in S PROVE n \in S
  <2>1. f[n] = Applied(f[n - 1], block[n]) /\ n \in 0..N
    BY <1>2 DEF Mining
  <2>2. ChainOK(f[n - 1])
    BY Zenon, <1>5
  <2>3. ChainOK(f[n])
    BY Zenon, <2>1, <2>2, AppliedOK
  <2> QED BY Zenon, <2>1, <2>3
<1>6. 0..N \subseteq S
  <2> HIDE DEF S
  <2> QED BY SMTT(20), <1>4, <1>5, InductionUpTo
<1>7. N \in 0..N
  OBVIOUS
<1> QED BY Zenon, <1>3, <1>6, <1>7

\* ... so that a block is about ledger channels, like its transactions.
LEMMA BlockOK ==
  ASSUME NEW ch, ChainOK(ch), NEW block \in Blocks(ch)
  PROVE  Len(block) \in Nat /\ \A i \in 1..Len(block) : block[i].l \in LedgerIDs
<1>1. PICK n \in 1..Cardinality(ch.pending) : block \in [1..n -> ch.pending]
  BY Zenon DEF Blocks
<1>2. n \in Nat
  BY <1>1
<1>3. Len(block) = n /\ \A i \in 1..n : block[i] \in ch.pending
  BY <1>1, <1>2
<1> QED BY <1>2, <1>3 DEF ChainOK

\* The events of a transaction are about its ledger channel.
LEMMA EventsOfOK ==
  ASSUME NEW before, NEW after, NEW atEnd, NEW tx, tx.l \in LedgerIDs
  PROVE  AboutLedgers(EventsOf(before, after, atEnd, tx))
<1>1. PICK q : q = EventsOf(before, after, atEnd, tx)
  OBVIOUS
<1>2. PICK d, c, a : /\ d = DepositedEvent(after, tx.l) /\ c = ConcludedEvent(tx.l)
                     /\ a = AllocationUpdatedEvent(atEnd, tx.l)
  OBVIOUS
<1>3. q = << >> \/ q = <<d>> \/ q = <<c, a>>
  BY Zenon, <1>1, <1>2 DEF EventsOf
<1>4. PICK S : S = {d, c, a}
  BY Zenon
<1>5. q \in Seq(S)
  <2>1. << >> \in Seq(S)
    OBVIOUS
  <2>2. <<d>> \in Seq(S)
    BY <1>4
  <2>3. <<c, a>> \in Seq(S)
    BY <1>4
  <2> QED BY Zenon, <1>3, <2>1, <2>2, <2>3
<1>6. \A e \in S : e.l \in LedgerIDs
  BY <1>2, <1>4 DEF DepositedEvent, ConcludedEvent, AllocationUpdatedEvent
<1> QED BY Zenon, <1>1, <1>5, <1>6 DEF AboutLedgers

\* f[n] are the events of the first n transactions of a block.
Emitting(f, ch, block, N) ==
  f = [n \in 0..N |-> IF n = 0 THEN << >>
         ELSE f[n - 1] \o EventsOf(Within(ch, block, n - 1), Within(ch, block, n),
                                   Mined(ch, block), block[n])]

\* The function by which the events of a block are put together exists ...
LEMMA EmittingExists ==
  ASSUME NEW ch, NEW block, NEW N \in Nat
  PROVE  \E f : Emitting(f, ch, block, N)
<1> DEFINE S == {n \in 0..N : \E f : Emitting(f, ch, block, n)}
<1>1. 0 \in S
  <2>1. PICK f : f = [n \in 0..0 |-> << >>]
    BY Zenon
  <2>2. Emitting(f, ch, block, 0)
    BY <2>1 DEF Emitting
  <2> QED BY <2>2
<1>2. ASSUME NEW n \in 1..N, n - 1 \in S PROVE n \in S
  <2>1. PICK f : Emitting(f, ch, block, n - 1)
    BY <1>2
  <2>2. PICK g : g = [k \in 0..n |-> IF k < n THEN f[k]
           ELSE f[n - 1] \o EventsOf(Within(ch, block, n - 1), Within(ch, block, n),
                                     Mined(ch, block), block[n])]
    BY Zenon
  <2>3. ASSUME NEW k \in 0..n
        PROVE  g[k] = IF k = 0 THEN << >>
                 ELSE g[k - 1] \o EventsOf(Within(ch, block, k - 1), Within(ch, block, k),
                                           Mined(ch, block), block[k])
    BY SMTT(20), <2>1, <2>2 DEF Emitting
  <2>4. Emitting(g, ch, block, n)
    BY <2>2, <2>3 DEF Emitting
  <2> QED BY <2>4
<1>3. 0..N \subseteq S
  <2> HIDE DEF S
  <2> QED BY <1>1, <1>2, InductionUpTo
<1> QED BY <1>3

\* ... and the events of a block are about ledger channels.
LEMMA EventsOK ==
  ASSUME NEW ch, ChainOK(ch), NEW block \in Blocks(ch)
  PROVE  AboutLedgers(Events(ch, block))
<1>1. PICK N : N = Len(block)
  BY Zenon
<1>2. N \in Nat /\ \A n \in 1..N : block[n].l \in LedgerIDs
  BY Zenon, <1>1, BlockOK
<1>3. PICK f : f = CHOOSE g : Emitting(g, ch, block, N)
  OBVIOUS
<1>4. Emitting(f, ch, block, N)
  BY Zenon, <1>2, <1>3, EmittingExists
<1>5. Events(ch, block) = f[N]
  BY Zenon, <1>1, <1>3 DEF Events, Emitting
<1> DEFINE S == {n \in 0..N : AboutLedgers(f[n])}
<1>6. 0 \in S
  <2>1. f[0] = << >>
    BY <1>2, <1>4 DEF Emitting
  <2>2. AboutLedgers(<< >>)
    BY Zenon, NothingToSend
  <2>3. AboutLedgers(f[0])
    BY <2>1, <2>2
  <2> QED BY <1>2, <2>3
<1>7. ASSUME NEW n \in 1..N, n - 1 \in S PROVE n \in S
  <2>1. PICK events : events = EventsOf(Within(ch, block, n - 1), Within(ch, block, n),
                                        Mined(ch, block), block[n])
    OBVIOUS
  <2> n \in 0..N /\ n # 0
    BY <1>2
  <2>2. f[n] = f[n - 1] \o events /\ n \in 0..N
    BY Zenon, <1>4, <2>1 DEF Emitting
  <2>3. AboutLedgers(f[n - 1]) /\ AboutLedgers(events)
    BY Zenon, <1>2, <1>7, <2>1, EventsOfOK
  <2>4. AboutLedgers(f[n])
    BY Zenon, <2>2, <2>3, TransactionsJoined
  <2> QED BY Zenon, <2>2, <2>4
<1>8. 0..N \subseteq S
  <2> HIDE DEF S
  <2> QED BY <1>2, <1>6, <1>7, InductionUpTo
<1>9. N \in 0..N
  BY <1>2
<1> QED BY Zenon, <1>5, <1>8, <1>9

\* The events of a block reach the buffer of a client.
LEMMA AttemptSendOK ==
  ASSUME NEW buffer, AboutLedgers(buffer), NEW events, AboutLedgers(events)
  PROVE  AboutLedgers(attemptSend(buffer, events))
<1>1. PICK S : buffer \in Seq(S) /\ \A x \in S : x.l \in LedgerIDs
  BY Zenon DEF AboutLedgers
<1>2. PICK T : events \in Seq(T) /\ \A x \in T : x.l \in LedgerIDs
  BY Zenon DEF AboutLedgers
<1>3. PICK q : q = buffer \o events
  BY Zenon
<1>4. q \in Seq(S \cup T)
  BY Zenon, <1>1, <1>2, <1>3, Concatenating
<1>5. PICK n : n = Lesser(Len(buffer) + Len(events), EventBufferSize)
  OBVIOUS
<1>6. n \in 0..Len(q)
  BY SMTT(20), <1>1, <1>2, <1>3, <1>5 DEF Lesser, EventBufferSize
<1>7. SubSeq(q, 1, n) \in Seq(S \cup T)
  BY Zenon, <1>4, <1>6, Prefixes
<1>8. \A x \in S \cup T : x.l \in LedgerIDs
  BY Zenon, <1>1, <1>2
<1> QED BY Zenon, <1>3, <1>5, <1>7, <1>8 DEF attemptSend, AboutLedgers
=============================================================================
