---------------------------- MODULE EngineProofs ----------------------------
(***************************************************************************)
(* No ledger channel ever guarantees a virtual channel that a participant  *)
(* rejected, and the participants of a virtual channel that is closed      *)
(* agree on the payment: for any number of clients, channels and requests, *)
(* any routes and any order of messages, blocks and events.                *)
(*                                                                         *)
(* StoreOK (module ObjectiveProofs) of every client and its counterparts   *)
(* for network, chain and buffered events are the invariant Sound.         *)
(* Anchored is what agreement needs in addition: somebody has signed for   *)
(* one payment and will not ask for another.                               *)
(***************************************************************************)
EXTENDS HandlerProofs

-----------------------------------------------------------------------------
(* The steps *)

\* The stores of all clients are consistent.
ClientsOK(clients, K, F) ==
  DOMAIN clients = Clients /\ \A p \in Clients : StoreOK(p, clients[p], K, F)

\* The events that clients have still to handle are about ledger channels.
BuffersOK(events) == DOMAIN events = Clients /\ \A p \in Clients : AboutLedgers(events[p])

\* All that the clients have, and all that is on its way, is consistent with K and F.
Sound(clients, net, ch, events, K, F) ==
  ClientsOK(clients, K, F) /\ NetworkOK(net, K, F) /\ ChainOK(ch) /\ BuffersOK(events)

\* Client me, and nobody else, approves of more or agrees to more.
OnlyBy(me, K, L, F, G) ==
  K \subseteq L /\ F \subseteq G /\ \A p \in Clients \ {me} : NothingOfMine(p, K, L, F, G)

\* Two clients have different roles in a channel.
LEMMA DifferentRoles ==
  ASSUME NEW me, NEW p, p # me, NEW v \in Targets, Participates(me, v), Participates(p, v)
  PROVE  MyRole(p, v) # MyRole(me, v)
<1>1. Participants[v][MyRole(me, v)] = me /\ Participants[v][MyRole(p, v)] = p
  BY Zenon, MyRoleOK
<1> QED BY <1>1

\* What I decide is no decision of others.
LEMMA OnlyMine ==
  ASSUME NEW me, NEW K, NEW L, NEW F, NEW G,
         L = K \/ \E v \in Targets : Participates(me, v) /\ L = K \cup {<<v, MyRole(me, v)>>},
         G = F \/ \E v \in Targets : \E y :
                    Participates(me, v) /\ G = F \cup {<<v, MyRole(me, v), y>>}
  PROVE  OnlyBy(me, K, L, F, G)
<1>1. K \subseteq L /\ F \subseteq G
  BY Zenon
<1>2. ASSUME NEW p \in Clients \ {me}, NEW w \in Targets, Participates(p, w)
      PROVE  /\ <<w, MyRole(p, w)>> \in L => <<w, MyRole(p, w)>> \in K
             /\ \A y : <<w, MyRole(p, w), y>> \in G => <<w, MyRole(p, w), y>> \in F
  <2>1. Participates(me, w) => MyRole(p, w) # MyRole(me, w)
    BY Zenon, <1>2, DifferentRoles
  <2>2. <<w, MyRole(p, w)>> \in L => <<w, MyRole(p, w)>> \in K
    BY <2>1
  <2>3. ASSUME NEW z, <<w, MyRole(p, w), z>> \in G PROVE <<w, MyRole(p, w), z>> \in F
    BY <2>1, <2>3
  <2> QED BY Zenon, <2>2, <2>3
<1> QED BY Zenon, <1>1, <1>2 DEF OnlyBy, NothingOfMine

\* Nor is what I decide when a message reaches me.
LEMMA OnlyAdmitted ==
  ASSUME NEW me, NEW K, NEW L, Approving(me, K, L), NEW F, NEW G, Signing(me, F, G)
  PROVE  OnlyBy(me, K, L, F, G)
<1>1. L = K \/ \E v \in Targets : Participates(me, v) /\ L = K \cup {<<v, MyRole(me, v)>>}
  BY Zenon DEF Approving
<1>2. G = F \/ \E v \in Targets : \E y :
                 Participates(me, v) /\ G = F \cup {<<v, MyRole(me, v), y>>}
  BY Zenon DEF Signing
<1> QED BY Zenon, <1>1, <1>2, OnlyMine

\* What a client has once its messages and transactions are on their way.
LEMMA DispatchedOK ==
  ASSUME NEW me, NEW c, NEW K, NEW F, StoreOK(me, c, K, F), NEW d,
         NEW outbox, OutboxOK(outbox, K, F),
         d = [c EXCEPT !.outbox = outbox, !.submitted = << >>] \/ d = [c EXCEPT !.outbox = outbox]
  PROVE  StoreOK(me, d, K, F)
<1>1. /\ ClientRecord(d) /\ d.fund = c.fund /\ d.defund = c.defund /\ d.channels = c.channels
      /\ d.ledgers = c.ledgers /\ d.channelToObjective = c.channelToObjective
      /\ d.sideEffects = c.sideEffects
      /\ d.outbox = outbox /\ (d.submitted = << >> \/ d.submitted = c.submitted)
  BY Zenon DEF StoreOK, ClientRecord
<1>2. AboutLedgers(<< >>)
  BY Zenon, NothingToSend
<1> QED BY Zenon, <1>1, <1>2 DEF StoreOK

\* One client has a new store, and only it decided anything.
LEMMA ClientsGrow ==
  ASSUME NEW K, NEW L, NEW F, NEW G, NEW me \in Clients, OnlyBy(me, K, L, F, G),
         NEW clients, ClientsOK(clients, K, F), NEW d, StoreOK(me, d, L, G)
  PROVE  ClientsOK([clients EXCEPT ![me] = d], L, G)
<1>1. PICK next : next = [clients EXCEPT ![me] = d]
  BY Zenon
<1>2. DOMAIN next = Clients /\ next[me] = d /\ \A p \in Clients \ {me} : next[p] = clients[p]
  BY <1>1 DEF ClientsOK
<1>3. ASSUME NEW p \in Clients \ {me} PROVE StoreOK(p, clients[p], L, G)
  <2>1. StoreOK(p, clients[p], K, F) /\ NothingOfMine(p, K, L, F, G) /\ K \subseteq L /\ F \subseteq G
    BY Zenon DEF ClientsOK, OnlyBy
  <2> QED BY Zenon, <2>1, StoreGrows
<1>4. ASSUME NEW p \in Clients PROVE StoreOK(p, next[p], L, G)
  BY Zenon, <1>2, <1>3
<1> QED BY Zenon, <1>1, <1>2, <1>4 DEF ClientsOK

\* A client handles something, and sends and submits what comes of it.
LEMMA HandlesOK ==
  ASSUME NEW K, NEW F, ClientsOK(client, K, F), ChainOK(chain), NEW me \in Clients,
         NEW net, NetworkOK(net, K, F), NEW L, NEW G, OnlyBy(me, K, L, F, G),
         NEW handled, StoreOK(me, handled, L, G), Handles(me, handled, net)
  PROVE  ClientsOK(client', L, G) /\ NetworkOK(network', L, G) /\ ChainOK(chain')
<1>1. OutboxOK(handled.outbox, L, G) /\ AboutLedgers(handled.submitted)
  BY Zenon DEF StoreOK
<1>2. PICK n : n = SentAtOnce(handled)
  OBVIOUS
<1>3. n \in 0..Len(handled.outbox)
  <2>1. Len(handled.outbox) \in Nat /\ (handled.outbox # << >> => Len(handled.outbox) \in Nat \ {0})
    BY Zenon, <1>1, OutboxParts
  <2> QED BY <1>2, <2>1 DEF SentAtOnce
<1>4. ClientsOK(client', L, G)
  <2>1. PICK outbox : outbox = SubSeq(handled.outbox, n + 1, Len(handled.outbox))
    BY Zenon
  <2>2. OutboxOK(outbox, L, G)
    BY Zenon, <1>1, <1>3, <2>1, OutboxParts
  <2>3. PICK d : d = [handled EXCEPT !.outbox = outbox, !.submitted = << >>]
    OBVIOUS
  <2>4. StoreOK(me, d, L, G)
    BY Zenon, <2>2, <2>3, DispatchedOK
  <2>5. client' = [client EXCEPT ![me] = d]
    BY Zenon, <1>2, <2>1, <2>3 DEF Handles
  <2> QED BY Zenon, <2>4, <2>5, ClientsGrow
<1>5. NetworkOK(network', L, G)
  <2>1. NetworkOK(net, L, G)
    BY Zenon, NetworkGrows DEF OnlyBy
  <2>2. network' = Sent(net, me, handled, n)
    BY Zenon, <1>2 DEF Handles
  <2> QED BY Zenon, <1>1, <1>3, <2>1, <2>2, SentOK
<1>6. ChainOK(chain')
  BY Zenon, <1>1, SubmittedOK DEF Handles
<1> QED BY Zenon, <1>4, <1>5, <1>6

-----------------------------------------------------------------------------
(* Agreed payments *)

\* No client asks to close a channel twice.
AsksOnce == \A q, r \in Requests : q.client = r.client /\ q.v = r.v => q = r

\* Role r of v has agreed to payment y and to no other, and will not ask for another.
Anchor(v, r, y, F, reqs) ==
  /\ <<v, r, y>> \in F
  /\ \A z : <<v, r, z>> \in F => z = y
  /\ \A q \in reqs : q \in Requests /\ q.v = v => q.client # Participants[v][r]

\* Nobody has agreed to a payment with v, or there is an anchor.
Anchored(F, reqs) ==
  \A v \in Targets :
    \/ \A r, y : <<v, r, y>> \notin F
    \/ \E r \in Roles : \E y : Anchor(v, r, y, F, reqs)

\* There are fewer requests still to come.
LEMMA AnchoredWithFewer ==
  ASSUME NEW F, NEW reqs, Anchored(F, reqs), NEW fewer, fewer \subseteq reqs
  PROVE  Anchored(F, fewer)
BY Zenon DEF Anchored, Anchor

\* An agreement of another role, or about another channel, leaves an anchor what it is.
LEMMA AnchorKept ==
  ASSUME NEW F, NEW reqs, NEW v \in Targets, NEW r, NEW y, Anchor(v, r, y, F, reqs),
         NEW w, NEW s, NEW z, ~(w = v /\ s = r)
  PROVE  Anchor(v, r, y, F \cup {<<w, s, z>>}, reqs)
BY DEF Anchor

\* Somebody who has agreed to no payment agrees to one that was signed: not the anchor.
LEMMA AnchoredSigning ==
  ASSUME NEW me, NEW F, NEW G, Signing(me, F, G), NEW reqs, Anchored(F, reqs)
  PROVE  Anchored(G, reqs)
<1>1. CASE G = F
  BY Zenon, <1>1
<1>2. CASE G # F
  <2>1. PICK w \in Targets : \E y, s : /\ Participates(me, w) /\ <<w, s, y>> \in F
                                       /\ G = F \cup {<<w, MyRole(me, w), y>>}
                                       /\ \A z : <<w, MyRole(me, w), z>> \notin F
    BY Zenon, <1>2 DEF Signing
  <2>2. PICK y, s : /\ <<w, s, y>> \in F
                    /\ G = F \cup {<<w, MyRole(me, w), y>>}
                    /\ \A z : <<w, MyRole(me, w), z>> \notin F
    BY Zenon, <2>1
  <2>3. ASSUME NEW v \in Targets
        PROVE  \/ \A r, x : <<v, r, x>> \notin G
               \/ \E r \in Roles : \E x : Anchor(v, r, x, G, reqs)
    <3>1. CASE \A r, x : <<v, r, x>> \notin F
      <4>1. w # v
        BY Zenon, <2>2, <3>1
      <4>2. \A r, x : <<v, r, x>> \notin G
        BY SMTT(20), <2>2, <3>1, <4>1
      <4> QED BY Zenon, <4>2
    <3>2. CASE \E r \in Roles : \E x : Anchor(v, r, x, F, reqs)
      <4> PICK r \in Roles : \E x : Anchor(v, r, x, F, reqs)
        BY Zenon, <3>2
      <4>1. PICK x : Anchor(v, r, x, F, reqs)
        OBVIOUS
      <4>2. ~(w = v /\ MyRole(me, w) = r)
        BY Zenon, <2>2, <4>1 DEF Anchor
      <4>3. Anchor(v, r, x, G, reqs)
        BY Zenon, <2>2, <4>1, <4>2, AnchorKept
      <4> QED BY Zenon, <4>3
    <3> QED BY Zenon, <3>1, <3>2 DEF Anchored
  <2> QED BY Zenon, <2>3 DEF Anchored
<1> QED BY Zenon, <1>1, <1>2

\* A client asks to close a channel: it is the anchor if it is the first, and it is not
\* the anchor otherwise, since it asks once.
LEMMA AnchoredClosing ==
  ASSUME AsksOnce, NEW F, NEW reqs, Anchored(F, reqs), NEW q \in Requests, q \in reqs,
         q.v \in Targets, Participates(q.client, q.v), NEW y
  PROVE  Anchored(F \cup {<<q.v, MyRole(q.client, q.v), y>>}, reqs \ {q})
<1>1. PICK w \in Targets : w = q.v
  OBVIOUS
<1>2. PICK s \in Roles : s = MyRole(q.client, q.v) /\ Participants[w][s] = q.client
  BY Zenon, <1>1, MyRoleOK
<1>3. PICK G : G = F \cup {<<w, s, y>>}
  BY Zenon
<1>4. ASSUME NEW v \in Targets
      PROVE  \/ \A r, x : <<v, r, x>> \notin G
             \/ \E r \in Roles : \E x : Anchor(v, r, x, G, reqs \ {q})
  <2>1. CASE v # w /\ \A r, x : <<v, r, x>> \notin F
    BY <1>3, <2>1
  <2>2. CASE v = w /\ \A r, x : <<v, r, x>> \notin F
    <3>1. <<v, s, y>> \in G /\ \A z : <<v, s, z>> \in G => z = y
      BY SMTT(20), <1>3, <2>2
    <3>2. ASSUME NEW r \in reqs \ {q}, r \in Requests, r.v = v PROVE r.client # Participants[v][s]
      BY SMTT(20), <1>1, <1>2, <2>2, <3>2 DEF AsksOnce
    <3>3. Anchor(v, s, y, G, reqs \ {q})
      BY Zenon, <3>1, <3>2 DEF Anchor
    <3> QED BY Zenon, <3>3
  <2>3. CASE \E r \in Roles : \E x : Anchor(v, r, x, F, reqs)
    <3> PICK r \in Roles : \E x : Anchor(v, r, x, F, reqs)
      BY Zenon, <2>3
    <3>1. PICK x : Anchor(v, r, x, F, reqs)
      OBVIOUS
    <3>2. ~(w = v /\ s = r)
      BY Zenon, <1>1, <1>2, <3>1 DEF Anchor
    <3>3. Anchor(v, r, x, G, reqs)
      BY Zenon, <1>3, <3>1, <3>2, AnchorKept
    <3>4. Anchor(v, r, x, G, reqs \ {q})
      BY Zenon, <3>3 DEF Anchor
    <3> QED BY Zenon, <3>4
  <2> QED BY Zenon, <2>1, <2>2, <2>3 DEF Anchored
<1> QED BY Zenon, <1>1, <1>2, <1>3, <1>4 DEF Anchored

-----------------------------------------------------------------------------
(* The invariant *)

\* Some sets of approvals and of agreements explain the state.
Inv ==
  \E K, F : /\ Sound(client, network, chain, chainEvents, K, F)
            /\ AsksOnce => Anchored(F, requests)

\* What every step of a client comes down to.
LEMMA HandledStep ==
  ASSUME NEW K, NEW F, Sound(client, network, chain, chainEvents, K, F), NEW me \in Clients,
         NEW net, NetworkOK(net, K, F), NEW L, NEW G, OnlyBy(me, K, L, F, G),
         NEW handled, StoreOK(me, handled, L, G), Handles(me, handled, net),
         BuffersOK(chainEvents'), AsksOnce => Anchored(G, requests')
  PROVE  Inv'
<1>1. ClientsOK(client, K, F) /\ ChainOK(chain)
  BY Zenon DEF Sound
<1>2. ClientsOK(client', L, G) /\ NetworkOK(network', L, G) /\ ChainOK(chain')
  BY Zenon, <1>1, HandlesOK
<1>3. Sound(client', network', chain', chainEvents', L, G)
  BY Zenon, <1>2 DEF Sound
<1> QED BY Zenon, <1>3 DEF Inv

\* The parts of Sound that a step of client me starts from.
LEMMA SoundClient ==
  ASSUME NEW K, NEW F, Sound(client, network, chain, chainEvents, K, F), NEW me \in Clients
  PROVE  StoreOK(me, client[me], K, F) /\ NetworkOK(network, K, F) /\ BuffersOK(chainEvents)
BY Zenon DEF Sound, ClientsOK

\* A step in which nobody decides anything.
LEMMA NobodyNew ==
  ASSUME NEW me, NEW K, NEW F
  PROVE  OnlyBy(me, K, K, F, F)
BY Zenon DEF OnlyBy, NothingOfMine

\* The parties of a ledger channel are clients.
LEMMA LedgerClients ==
  ASSUME NEW l \in LedgerIDs, NEW p \in Parties
  PROVE  LedgerParticipants[l][p] \in Clients
BY Zenon, LedgerAssumption

\* A client asks for a ledger channel.
LEMMA CreateDirectChannelStep ==
  ASSUME NEW K, NEW F, Sound(client, network, chain, chainEvents, K, F),
         AsksOnce => Anchored(F, requests), NEW l \in LedgerIDs, CreateDirectChannel(l)
  PROVE  Inv'
<1>1. PICK me \in Clients : me = LedgerParticipants[l][Leader]
  BY LedgerClients DEF Parties
<1>2. PICK c : c = client[me]
  OBVIOUS
<1>3. StoreOK(me, c, K, F) /\ NetworkOK(network, K, F) /\ BuffersOK(chainEvents)
  BY Zenon, <1>2, SoundClient
<1>4. PICK d : d = ConstructDirectFund(me, c, l, AsExit(LedgerBalance[l]), Approved)
  OBVIOUS
<1>5. PICK handled : handled = IF channelsExistWithCounterparty(c, l) THEN Panic(c)
                               ELSE attemptProgress(me, d, "DirectFunding", l)
  OBVIOUS
<1>6. /\ Handles(me, handled, network)
      /\ chainEvents' = chainEvents /\ requests' = requests
  BY Zenon, <1>1, <1>2, <1>4, <1>5 DEF CreateDirectChannel
<1>7. StoreOK(me, d, K, F)
  BY Zenon, <1>3, <1>4, ConstructDirectOK
<1>8. Workable(me, d, "DirectFunding", l)
  BY DEF Workable, IsDirect
<1>9. StoreOK(me, handled, K, F)
  BY Zenon, <1>3, <1>5, <1>7, <1>8, PanicOK, AttemptProgressOK
<1> QED BY Zenon, <1>3, <1>6, <1>9, NobodyNew, HandledStep

\* A client asks for a virtual channel, which it approves of.
LEMMA CreateVirtualChannelStep ==
  ASSUME NEW K, NEW F, Sound(client, network, chain, chainEvents, K, F),
         AsksOnce => Anchored(F, requests), NEW v \in Targets, CreateVirtualChannel(v)
  PROVE  Inv'
<1>1. PICK me \in Clients : /\ me = Participants[v][Alice] /\ Participates(me, v)
                            /\ MyRole(me, v) = Alice
  <2>1. Alice \in Roles
    BY Zenon DEF Roles
  <2> QED BY Zenon, <2>1, RoleOf
<1>2. PICK c : c = client[me]
  OBVIOUS
<1>3. StoreOK(me, c, K, F) /\ NetworkOK(network, K, F) /\ BuffersOK(chainEvents)
  BY Zenon, <1>2, SoundClient
<1>4. PICK d : d = ConstructVirtualFund(me, c, v, Approved)
  OBVIOUS
<1>5. PICK handled : handled = IF HasLedgers(me, c, v)
                               THEN attemptProgress(me, d, "VirtualFund", v) ELSE Panic(c)
  OBVIOUS
<1>6. /\ Handles(me, handled, network)
      /\ chainEvents' = chainEvents /\ requests' = requests
  BY Zenon, <1>1, <1>2, <1>4, <1>5 DEF CreateVirtualChannel
<1>7. CASE HasLedgers(me, c, v)
  <2>1. PICK L : L = K \cup {<<v, MyRole(me, v)>>}
    BY Zenon
  <2>2. Agreed(Approved) <=> <<v, MyRole(me, v)>> \in L
    BY <2>1 DEF Agreed
  <2>3. Follows(me, c, d, L, F)
    BY Zenon, <1>1, <1>3, <1>4, <2>1, <2>2, ConstructVirtualFundOK
  <2>4. Connected(me, v, DOMAIN c.ledgers)
    BY Zenon, <1>1, <1>7, HasLedgerOf DEF Connected
  <2>5. StoreOK(me, d, L, F) /\ Connected(me, v, DOMAIN d.ledgers)
    BY Zenon, <2>3, <2>4 DEF Follows
  <2>6. Workable(me, d, "VirtualFund", v)
    BY Zenon, <2>5 DEF Workable
  <2>7. StoreOK(me, handled, L, F)
    BY Zenon, <1>5, <1>7, <2>5, <2>6, AttemptProgressOK
  <2>8. OnlyBy(me, K, L, F, F)
    BY Zenon, <1>1, <2>1, OnlyMine
  <2> QED BY Zenon, <1>3, <1>6, <2>7, <2>8, HandledStep
<1>8. CASE ~HasLedgers(me, c, v)
  <2>1. StoreOK(me, handled, K, F)
    BY Zenon, <1>3, <1>5, <1>8, PanicOK
  <2> QED BY Zenon, <1>3, <1>6, <2>1, NobodyNew, HandledStep
<1> QED BY Zenon, <1>7, <1>8

\* A client asks to close a virtual channel with a payment, which it agrees to.
LEMMA CloseVirtualChannelStep ==
  ASSUME NEW K, NEW F, Sound(client, network, chain, chainEvents, K, F),
         AsksOnce => Anchored(F, requests), NEW r \in Requests, CloseVirtualChannel(r)
  PROVE  Inv'
<1>1. r.client \in Clients /\ r.v \in Targets /\ r.paidToBob \in Int
  BY RequestsAssumption
<1>2. PICK me \in Clients, v \in Targets, y \in Int : me = r.client /\ v = r.v /\ y = r.paidToBob
  BY Zenon, <1>1
<1>3. PICK c : c = client[me]
  OBVIOUS
<1>4. StoreOK(me, c, K, F) /\ NetworkOK(network, K, F) /\ BuffersOK(chainEvents)
  BY Zenon, <1>3, SoundClient
<1>5. PICK d : d = ConstructVirtualDefund(c, v, y, Approved)
  OBVIOUS
<1>6. PICK handled : handled = IF CanConstructVirtualDefund(me, c, v)
                               THEN attemptProgress(me, d, "VirtualDefund", v) ELSE Panic(c)
  OBVIOUS
<1>7. /\ r \in requests /\ c.fund[v] = Completed
      /\ Handles(me, handled, network)
      /\ chainEvents' = chainEvents /\ requests' = requests \ {r}
  BY Zenon, <1>2, <1>3, <1>5, <1>6 DEF CloseVirtualChannel
<1>8. Participates(me, v)
  <2>1. VirtualOK(me, v, c.fund[v], c.defund[v], c.channels, K, F)
    BY Zenon, <1>4 DEF StoreOK, VirtualsOK
  <2>2. c.fund[v] # NoObjective
    BY SMTT(20), <1>7 DEF Completed, NoObjective
  <2> QED BY Zenon, <2>1, <2>2 DEF VirtualOK
<1>9. CASE CanConstructVirtualDefund(me, c, v)
  <2>1. PICK G : G = F \cup {<<v, MyRole(me, v), y>>}
    BY Zenon
  <2>2. v \in DOMAIN c.channels /\ HasLedgers(me, c, v)
    BY Zenon, <1>9 DEF CanConstructVirtualDefund
  <2>3. Approved # NoObjective /\ <<v, MyRole(me, v), y>> \in G
    BY <2>1 DEF Approved, NoObjective
  <2>4. Follows(me, c, d, K, G)
    BY Zenon, <1>4, <1>5, <1>8, <2>1, <2>2, <2>3, ConstructVirtualDefundOK
  <2>5. Connected(me, v, DOMAIN c.ledgers)
    BY Zenon, <1>8, <2>2, HasLedgerOf DEF Connected
  <2>6. StoreOK(me, d, K, G) /\ Connected(me, v, DOMAIN d.ledgers)
    BY Zenon, <2>4, <2>5 DEF Follows
  <2>7. Workable(me, d, "VirtualDefund", v)
    BY Zenon, <2>6 DEF Workable
  <2>8. StoreOK(me, handled, K, G)
    BY Zenon, <1>6, <1>9, <2>6, <2>7, AttemptProgressOK
  <2>9. OnlyBy(me, K, K, F, G)
    BY Zenon, <1>8, <2>1, OnlyMine
  <2>10. AsksOnce => Anchored(G, requests')
    BY Zenon, <1>2, <1>7, <1>8, <2>1, AnchoredClosing
  <2> QED BY Zenon, <1>4, <1>7, <2>8, <2>9, <2>10, HandledStep
<1>10. CASE ~CanConstructVirtualDefund(me, c, v)
  <2>1. StoreOK(me, handled, K, F)
    BY Zenon, <1>4, <1>6, <1>10, PanicOK
  <2>2. AsksOnce => Anchored(F, requests')
    BY Zenon, <1>7, AnchoredWithFewer
  <2> QED BY Zenon, <1>4, <1>7, <2>1, <2>2, NobodyNew, HandledStep
<1> QED BY Zenon, <1>9, <1>10

\* A client asks to close a ledger channel.
LEMMA CloseDirectChannelStep ==
  ASSUME NEW K, NEW F, Sound(client, network, chain, chainEvents, K, F),
         AsksOnce => Anchored(F, requests), NEW r \in LedgerRequests, CloseDirectChannel(r)
  PROVE  Inv'
<1>1. r.client \in Clients /\ r.l \in LedgerIDs
  BY RequestsAssumption
<1>2. PICK me \in Clients, l \in LedgerIDs : me = r.client /\ l = r.l
  BY Zenon, <1>1
<1>3. PICK c : c = client[me]
  OBVIOUS
<1>4. StoreOK(me, c, K, F) /\ NetworkOK(network, K, F) /\ BuffersOK(chainEvents)
  BY Zenon, <1>3, SoundClient
<1>5. PICK d : d = ConstructDirectDefund(c, l, Approved)
  OBVIOUS
<1>6. PICK closed : closed = DestroyConsensusChannel(d, l)
  OBVIOUS
<1>7. PICK handled : handled = IF CanConstructDirectDefund(c, l)
                               THEN attemptProgress(me, closed, "DirectDefunding", l)
                               ELSE IF l \in DOMAIN c.ledgers /\ notEmpty(c, l) THEN c
                               ELSE Panic(c)
  OBVIOUS
<1>8. /\ Handles(me, handled, network)
      /\ chainEvents' = chainEvents /\ requests' = requests \ {r}
  BY Zenon, <1>2, <1>3, <1>5, <1>6, <1>7 DEF CloseDirectChannel
<1>9. StoreOK(me, d, K, F)
  BY Zenon, <1>4, <1>5, ConstructDirectOK
<1>10. StoreOK(me, closed, K, F)
  BY Zenon, <1>6, <1>9, DestroyConsensusChannelOK
<1>11. Workable(me, closed, "DirectDefunding", l)
  BY DEF Workable, IsDirect
<1>12. StoreOK(me, handled, K, F)
  BY Zenon, <1>4, <1>7, <1>10, <1>11, PanicOK, AttemptProgressOK
<1>13. AsksOnce => Anchored(F, requests')
  BY Zenon, <1>8, AnchoredWithFewer
<1> QED BY Zenon, <1>4, <1>8, <1>12, <1>13, NobodyNew, HandledStep

\* A client sends and submits what it had to keep for later.
LEMMA SendStep ==
  ASSUME NEW K, NEW F, Sound(client, network, chain, chainEvents, K, F),
         AsksOnce => Anchored(F, requests), NEW me \in Clients, Send(me)
  PROVE  Inv'
<1>1. PICK c : c = client[me]
  OBVIOUS
<1>2. StoreOK(me, c, K, F) /\ NetworkOK(network, K, F) /\ BuffersOK(chainEvents)
  BY Zenon, <1>1, SoundClient
<1>3. OutboxOK(c.outbox, K, F) /\ c.outbox # << >>
  BY Zenon, <1>1, <1>2 DEF StoreOK, Send
<1>4. OutboxOK(Tail(c.outbox), K, F) /\ Len(c.outbox) \in Nat \ {0}
  BY Zenon, <1>3, OutboxParts
<1>5. NetworkOK(network', K, F)
  <2>1. 1 \in 0..Len(c.outbox)
    BY <1>4
  <2>2. network' = Sent(network, me, c, 1)
    BY Zenon, <1>1 DEF Send
  <2> QED BY Zenon, <1>2, <1>3, <2>1, <2>2, SentOK
<1>6. ClientsOK(client', K, F)
  <2>1. PICK outbox : outbox = Tail(c.outbox)
    BY Zenon
  <2>2. PICK d : d = [c EXCEPT !.outbox = outbox]
    BY Zenon
  <2>3. StoreOK(me, d, K, F)
    BY Zenon, <1>2, <1>4, <2>1, <2>2, DispatchedOK
  <2>4. client' = [client EXCEPT ![me] = d]
    BY Zenon, <1>1, <2>1, <2>2 DEF Send
  <2>5. ClientsOK(client, K, F)
    BY Zenon DEF Sound
  <2> QED BY Zenon, <2>3, <2>4, <2>5, NobodyNew, ClientsGrow
<1>7. Sound(client', network', chain', chainEvents', K, F)
  BY Zenon, <1>5, <1>6 DEF Sound, Send
<1> QED BY Zenon, <1>7 DEF Inv, Send

\* A message reaches a client.
LEMMA DeliverStep ==
  ASSUME NEW K, NEW F, Sound(client, network, chain, chainEvents, K, F),
         AsksOnce => Anchored(F, requests), NEW p \in Clients, NEW me \in Clients, Deliver(p, me)
  PROVE  Inv'
<1>1. PICK c : c = client[me]
  OBVIOUS
<1>2. StoreOK(me, c, K, F) /\ NetworkOK(network, K, F) /\ BuffersOK(chainEvents)
  BY Zenon, <1>1, SoundClient
<1>3. PICK m : m = Head(network[p][me])
  OBVIOUS
<1>4. PICK net : net = [network EXCEPT ![p][me] = Tail(@)]
  BY Zenon
<1>5. network[p][me] # << >>
  BY Zenon DEF Deliver, Deliverable
<1>6. MessageOK(me, m, K, F) /\ NetworkOK(net, K, F)
  BY Zenon, <1>2, <1>3, <1>4, <1>5, TakingOK
<1>7. PICK handled : handled = handleMessage(me, c, m)
  OBVIOUS
<1>8. /\ Handles(me, handled, net)
      /\ chainEvents' = chainEvents /\ requests' = requests
  BY Zenon, <1>1, <1>3, <1>4, <1>7 DEF Deliver
<1>9. Ends(me, handled, K, F)
  BY Zenon, <1>2, <1>6, <1>7, HandleMessageOK
<1>10. PICK L, G : Approving(me, K, L) /\ Signing(me, F, G) /\ StoreOK(me, handled, L, G)
  BY Zenon, <1>9 DEF Ends
<1>11. OnlyBy(me, K, L, F, G)
  BY Zenon, <1>10, OnlyAdmitted
<1>12. AsksOnce => Anchored(G, requests')
  BY Zenon, <1>8, <1>10, AnchoredSigning
<1> QED BY Zenon, <1>2, <1>6, <1>8, <1>10, <1>11, <1>12, HandledStep

\* A block is mined, and its events reach the clients.
LEMMA MineStep ==
  ASSUME NEW K, NEW F, Sound(client, network, chain, chainEvents, K, F),
         AsksOnce => Anchored(F, requests), NEW block \in Blocks(chain), Mine(block)
  PROVE  Inv'
<1>1. ChainOK(chain) /\ BuffersOK(chainEvents)
  BY Zenon DEF Sound
<1>2. ChainOK(chain')
  <2>1. Len(block) \in Nat
    BY Zenon, <1>1, BlockOK
  <2> QED BY Zenon, <1>1, <2>1, WithinOK DEF Mine, Mined
<1>3. PICK events : events = Events(chain, block)
  OBVIOUS
<1>4. AboutLedgers(events)
  BY Zenon, <1>1, <1>3, EventsOK
<1>5. chainEvents' = [p \in Clients |-> attemptSend(chainEvents[p], events)]
  BY Zenon, <1>3 DEF Mine
<1>6. ASSUME NEW p \in Clients PROVE AboutLedgers(attemptSend(chainEvents[p], events))
  BY Zenon, <1>1, <1>4, AttemptSendOK DEF BuffersOK
<1>7. BuffersOK(chainEvents')
  BY Zenon, <1>5, <1>6 DEF BuffersOK
<1>8. Sound(client', network', chain', chainEvents', K, F)
  BY Zenon, <1>2, <1>7 DEF Sound, Mine
<1> QED BY Zenon, <1>8 DEF Inv, Mine

\* A client handles a chain event.
LEMMA ObserveStep ==
  ASSUME NEW K, NEW F, Sound(client, network, chain, chainEvents, K, F),
         AsksOnce => Anchored(F, requests), NEW me \in Clients, Observe(me)
  PROVE  Inv'
<1>1. PICK c : c = client[me]
  OBVIOUS
<1>2. StoreOK(me, c, K, F) /\ NetworkOK(network, K, F) /\ BuffersOK(chainEvents)
  BY Zenon, <1>1, SoundClient
<1>3. PICK S : chainEvents[me] \in Seq(S) /\ \A e \in S : e.l \in LedgerIDs
  BY Zenon, <1>2 DEF BuffersOK, AboutLedgers
<1>4. chainEvents[me] # << >>
  BY Zenon DEF Observe, Observable
<1>5. PICK e : e = Head(chainEvents[me])
  OBVIOUS
<1>6. e \in S /\ Tail(chainEvents[me]) \in Seq(S)
  BY SMTT(20), <1>3, <1>4, <1>5, SequenceMembers
<1>7. PICK handled : handled = handleChainEvent(me, c, e)
  OBVIOUS
<1>8. /\ Handles(me, handled, network) /\ requests' = requests
      /\ chainEvents' = [chainEvents EXCEPT ![me] = Tail(@)]
  BY Zenon, <1>1, <1>5, <1>7 DEF Observe
<1>9. StoreOK(me, handled, K, F)
  BY Zenon, <1>2, <1>3, <1>6, <1>7, HandleChainEventOK
<1>10. BuffersOK(chainEvents')
  <2>1. AboutLedgers(Tail(chainEvents[me]))
    BY Zenon, <1>3, <1>6 DEF AboutLedgers
  <2> QED BY SMTT(20), <1>2, <1>8, <2>1 DEF BuffersOK
<1> QED BY Zenon, <1>2, <1>8, <1>9, <1>10, NobodyNew, HandledStep

\* A new client has approved of nothing, and its ledger channels guarantee nothing.
LEMMA NewClientOK ==
  ASSUME NEW me
  PROVE  StoreOK(me, NewClient(me, Ledgers(me)), {}, {})
<1>1. PICK ledgers : ledgers = Ledgers(me)
  OBVIOUS
<1>2. PICK c : c = NewClient(me, ledgers)
  OBVIOUS
<1>3. /\ ClientRecord(c)
      /\ c.fund = [v \in Targets |-> NoObjective] /\ c.defund = [v \in Targets |-> NoDefund]
      /\ c.channels = << >> /\ c.ledgers = ledgers
      /\ c.channelToObjective = [ch \in Targets \cup LedgerIDs |-> NoOwner]
      /\ c.sideEffects = NoEffects /\ c.outbox = << >> /\ c.submitted = << >>
  BY <1>2 DEF NewClient, ClientRecord
<1>4. LedgersOK(ledgers, {})
  <2>1. ASSUME NEW l \in DOMAIN ledgers PROVE LedgerOK(ledgers[l], {})
    <3>1. PICK vrs : vrs = [turnNum |-> PostFundTurnNum,
                            outcome |-> FromExit(AsExit(LedgerBalance[l]))]
      BY Zenon
    <3>2. ledgers[l] = newConsensusChannel(l, MyParty(me, l), vrs)
      BY Zenon, <1>1, <2>1, <3>1 DEF Ledgers
    <3>3. VarsOK(vrs, {})
      BY <3>1 DEF VarsOK, FromExit, IncludesTarget
    <3>4. /\ DOMAIN ledgers[l] = {"id", "myIndex", "current", "proposalQueue"}
          /\ ledgers[l].current.vars = vrs /\ ledgers[l].proposalQueue = << >>
      BY <3>2 DEF newConsensusChannel
    <3> QED BY Zenon, <3>3, <3>4, NoQueue DEF LedgerOK
  <2> QED BY Zenon, <2>1 DEF LedgersOK
<1>5. VirtualsOK(me, c.fund, c.defund, c.channels, {}, {})
  <2>1. DOMAIN c.fund = Targets /\ DOMAIN c.defund = Targets
    BY <1>3
  <2>2. ASSUME NEW v \in Targets
        PROVE  VirtualOK(me, v, c.fund[v], c.defund[v], c.channels, {}, {})
    <3>1. c.fund[v] = NoObjective /\ c.defund[v] = NoDefund /\ v \notin DOMAIN c.channels
      BY <1>3
    <3>2. DefundOK(me, v, NoDefund, {})
      BY DEF DefundOK, NoDefund, NoObjective, Approved
    <3>3. NoDefund.status = NoObjective /\ ~Agreed(NoObjective)
      BY DEF NoDefund, NoObjective, Agreed, Approved, Completed
    <3> QED BY SMTT(20), <3>1, <3>2, <3>3 DEF VirtualOK
  <2> QED BY Zenon, <2>1, <2>2 DEF VirtualsOK
<1>6. OwnersOK(c.channelToObjective)
  BY Zenon, <1>3 DEF OwnersOK
<1>7. StoreOK(me, c, {}, {})
  BY Zenon, <1>3, <1>4, <1>5, <1>6, NoEffectsOK, NothingToSend DEF StoreOK
<1> QED BY Zenon, <1>1, <1>2, <1>7

\* Init => Inv.
LEMMA InitSound == Init => Inv
<1> SUFFICES ASSUME Init PROVE Inv
  OBVIOUS
<1>1. ClientsOK(client, {}, {})
  BY Zenon, NewClientOK DEF Init, ClientsOK
<1>2. NetworkOK(network, {}, {})
  <2>1. PICK none : none = << >>
    OBVIOUS
  <2>2. ASSUME NEW q PROVE LinkOK(q, none, {}, {})
    <3>1. \E S : none \in Seq(S) /\ \A m \in S : MessageOK(q, m, {}, {})
      <4>1. none \in Seq({}) /\ \A m \in {} : MessageOK(q, m, {}, {})
        BY <2>1
      <4> WITNESS {}
      <4> QED BY <4>1
    <3> QED BY Zenon, <3>1 DEF LinkOK
  <2>3. network = [p \in Clients |-> [q \in Clients |-> none]]
    BY Zenon, <2>1 DEF Init
  <2> QED BY Zenon, <2>2, <2>3 DEF NetworkOK
<1>3. ChainOK(chain)
  BY DEF Init, ChainOK, NewChain
<1>4. BuffersOK(chainEvents)
  <2>1. AboutLedgers(<< >>)
    BY Zenon, NothingToSend
  <2> QED BY <2>1 DEF Init, BuffersOK
<1>5. Sound(client, network, chain, chainEvents, {}, {})
  BY Zenon, <1>1, <1>2, <1>3, <1>4 DEF Sound
<1>6. Anchored({}, requests)
  BY Zenon DEF Anchored
<1> QED BY Zenon, <1>5, <1>6 DEF Inv

\* Every step preserves Inv.
LEMMA NextSound == Inv /\ [Next]_vars => Inv'
<1> SUFFICES ASSUME Inv, [Next]_vars PROVE Inv'
  OBVIOUS
<1>1. PICK K, F : /\ Sound(client, network, chain, chainEvents, K, F)
                  /\ AsksOnce => Anchored(F, requests)
  BY Zenon DEF Inv
<1>2. ASSUME NEW l \in LedgerIDs, CreateDirectChannel(l) PROVE Inv'
  BY Zenon, <1>1, <1>2, CreateDirectChannelStep
<1>3. ASSUME NEW v \in Targets, CreateVirtualChannel(v) PROVE Inv'
  BY Zenon, <1>1, <1>3, CreateVirtualChannelStep
<1>4. ASSUME NEW r \in Requests, CloseVirtualChannel(r) PROVE Inv'
  BY Zenon, <1>1, <1>4, CloseVirtualChannelStep
<1>5. ASSUME NEW r \in LedgerRequests, CloseDirectChannel(r) PROVE Inv'
  BY Zenon, <1>1, <1>5, CloseDirectChannelStep
<1>6. ASSUME NEW me \in Clients, Send(me) PROVE Inv'
  BY Zenon, <1>1, <1>6, SendStep
<1>7. ASSUME NEW p \in Clients, NEW me \in Clients, Deliver(p, me) PROVE Inv'
  BY Zenon, <1>1, <1>7, DeliverStep
<1>8. ASSUME NEW block \in Blocks(chain), Mine(block) PROVE Inv'
  BY Zenon, <1>1, <1>8, MineStep
<1>9. ASSUME NEW me \in Clients, Observe(me) PROVE Inv'
  BY Zenon, <1>1, <1>9, ObserveStep
<1>10. CASE UNCHANGED vars
  <2>1. /\ client' = client /\ network' = network /\ chain' = chain
        /\ chainEvents' = chainEvents /\ requests' = requests
    BY Zenon, <1>10 DEF vars
  <2> QED BY Zenon, <1>1, <2>1 DEF Inv
<1> QED BY Zenon, <1>2, <1>3, <1>4, <1>5, <1>6, <1>7, <1>8, <1>9, <1>10 DEF Next

\* Inv is an invariant.
LEMMA AlwaysSound == Spec => []Inv
BY InitSound, NextSound, PTL DEF Spec

\* Not everybody approves of a channel that somebody rejected.
LEMMA RejectedByOne ==
  ASSUME NEW K, NEW F, ClientsOK(client, K, F), NEW v \in Targets, NEW r \in Roles,
         client[Participants[v][r]].fund[v] = Rejected
  PROVE  ~Approves(K, v)
<1>1. PICK p \in Clients : p = Participants[v][r] /\ Participates(p, v) /\ MyRole(p, v) = r
  BY Zenon, RoleOf
<1>2. StoreOK(p, client[p], K, F)
  BY Zenon DEF ClientsOK
<1>3. VirtualOK(p, v, Rejected, client[p].defund[v], client[p].channels, K, F)
  BY Zenon, <1>1, <1>2 DEF StoreOK, VirtualsOK
<1>4. ~Agreed(Rejected)
  BY DEF Agreed, Rejected, Approved, Completed
<1>5. <<v, r>> \notin K
  BY Zenon, <1>1, <1>3, <1>4 DEF VirtualOK
<1> QED BY Zenon, <1>5 DEF Approves

\* The copies of a ledger channel are those of clients.
LEMMA CopiesOK ==
  ASSUME NEW v \in Targets, NEW hop \in Hops, NEW c \in Copies(v, hop)
  PROVE  \E p \in Clients : c = client[p]
<1>1. PICK p : p = Participants[v][hop]
  OBVIOUS
<1>2. PICK q : q = Participants[v][hop + 1]
  OBVIOUS
<1>3. LedgersBetween(p, q) # {}
  BY Zenon, <1>1, <1>2, RoutesAssumption
<1>4. LedgerOf(v, hop) = LedgerBetween(p, q)
  BY Zenon, <1>1, <1>2 DEF LedgerOf
<1>5. LedgerBetween(p, q) \in LedgersBetween(p, q)
  BY Zenon, <1>3 DEF LedgerBetween
<1>6. LedgerOf(v, hop) \in LedgerIDs
  BY Zenon, <1>4, <1>5 DEF LedgersBetween
<1>7. PICK party \in Parties : c = client[LedgerParticipants[LedgerOf(v, hop)][party]]
  BY Zenon DEF Copies
<1> QED BY Zenon, <1>6, <1>7, LedgerClients

\* A client guarantees a virtual channel in a ledger channel only after the prefund state
\* has the signatures of all (virtualfund.go, Crank), and a rejection is final
\* (engine.go, getOrCreateObjective): a channel that a participant rejected is never
\* guaranteed by a ledger channel of any client.
THEOREM NeverFundedIfRejected == Spec => []RejectedNeverFunded
<1>1. Inv => RejectedNeverFunded
  <2> SUFFICES ASSUME Inv PROVE RejectedNeverFunded
    OBVIOUS
  <2>1. PICK K, F : ClientsOK(client, K, F)
    BY Zenon DEF Inv, Sound
  <2>2. ASSUME NEW v \in Targets, NEW r \in Roles,
               client[Participants[v][r]].fund[v] = Rejected,
               NEW hop \in Hops, NEW c \in Copies(v, hop), LedgerOf(v, hop) \in DOMAIN c.ledgers
        PROVE  /\ ~IncludesTarget(c.ledgers[LedgerOf(v, hop)].current.vars.outcome, v)
               /\ \A i \in DOMAIN c.ledgers[LedgerOf(v, hop)].proposalQueue :
                    c.ledgers[LedgerOf(v, hop)].proposalQueue[i].proposal.target # v
    <3>1. ~Approves(K, v)
      BY Zenon, <2>1, <2>2, RejectedByOne
    <3>2. PICK p \in Clients : c = client[p]
      BY Zenon, CopiesOK
    <3>3. PICK ledger : ledger = c.ledgers[LedgerOf(v, hop)]
      OBVIOUS
    <3>4. LedgerOK(ledger, K)
      BY Zenon, <2>1, <2>2, <3>2, <3>3 DEF ClientsOK, StoreOK, LedgersOK
    <3>5. ~IncludesTarget(ledger.current.vars.outcome, v)
      BY Zenon, <3>1, <3>4 DEF LedgerOK, VarsOK
    <3>6. ASSUME NEW i \in DOMAIN ledger.proposalQueue
          PROVE  ledger.proposalQueue[i].proposal.target # v
      <4>1. QueueOK(ledger.proposalQueue, K)
        BY Zenon, <3>4 DEF LedgerOK
      <4>2. ProposalOK(ledger.proposalQueue[i].proposal, K)
        BY Zenon, <4>1, QueueParts
      <4> QED BY Zenon, <3>1, <4>2 DEF ProposalOK
    <3> QED BY Zenon, <3>3, <3>5, <3>6
  <2> QED BY Zenon, <2>2 DEF RejectedNeverFunded
<1> QED BY <1>1, AlwaysSound, PTL

\* A client signs the final state of its virtualdefund objective, which was made from a
\* request or from the first final state that reached it, and takes signatures on that
\* state only (virtualdefund.go, Update): if no client asks twice to close a channel, the
\* final state that is signed by all is the same at all clients.
THEOREM OnePaymentAgreed ==
  ASSUME AsksOnce
  PROVE  Spec => []AgreedPayment
<1>1. Inv => AgreedPayment
  <2> SUFFICES ASSUME Inv PROVE AgreedPayment
    OBVIOUS
  <2>1. PICK K, F : ClientsOK(client, K, F) /\ Anchored(F, requests)
    BY Zenon DEF Inv, Sound
  <2>2. ASSUME NEW v \in Targets, NEW p \in Clients, client[p].defund[v].signatures = Roles,
               NEW r \in Roles
        PROVE  <<v, r, client[p].defund[v].paidToBob>> \in F
    <3>1. StoreOK(p, client[p], K, F)
      BY Zenon, <2>1 DEF ClientsOK
    <3>2. DefundOK(p, v, client[p].defund[v], F)
      BY Zenon, <3>1 DEF StoreOK, VirtualsOK, VirtualOK
    <3> QED BY Zenon, <2>2, <3>2 DEF DefundOK
  <2>3. ASSUME NEW v \in Targets, NEW p \in Clients, NEW q \in Clients,
               client[p].defund[v].signatures = Roles, client[q].defund[v].signatures = Roles
        PROVE  client[p].defund[v].paidToBob = client[q].defund[v].paidToBob
    <3>1. Alice \in Roles
      BY Zenon DEF Roles
    <3>2. <<v, Alice, client[p].defund[v].paidToBob>> \in F
      BY Zenon, <2>2, <2>3, <3>1
    <3> PICK r \in Roles : \E y : Anchor(v, r, y, F, requests)
      BY Zenon, <2>1, <3>2 DEF Anchored
    <3>3. PICK y : Anchor(v, r, y, F, requests)
      OBVIOUS
    <3>4. /\ <<v, r, client[p].defund[v].paidToBob>> \in F
          /\ <<v, r, client[q].defund[v].paidToBob>> \in F
      BY Zenon, <2>2, <2>3
    <3>5. client[p].defund[v].paidToBob = y /\ client[q].defund[v].paidToBob = y
      BY Zenon, <3>3, <3>4 DEF Anchor
    <3> QED BY <3>5
  <2> QED BY Zenon, <2>3 DEF AgreedPayment
<1> QED BY <1>1, AlwaysSound, PTL
=============================================================================
