------------------------------ MODULE MCEngine ------------------------------
(***************************************************************************)
(* Small instances of Engine: irene has a ledger channel L1 with alice, L2 *)
(* with bob and L3 with brian.                                             *)
(***************************************************************************)
EXTENDS EngineLedgers

CONSTANTS alice, irene, bob, brian, L1, L2, L3

LedBy(leader, follower) == [p \in Parties |-> IF p = Leader THEN leader ELSE follower]

\* Irene follows in L1 and leads the others: on every hop, the left participant leads.
LeftLeads == [l \in LedgerIDs |-> CASE l = L1 -> LedBy(alice, irene)
                                    [] l = L2 -> LedBy(irene, bob)
                                    [] l = L3 -> LedBy(irene, brian)]

\* Irene follows in L1 and in L2.
IreneFollows == [l \in LedgerIDs |-> CASE l = L1 -> LedBy(alice, irene)
                                       [] l = L2 -> LedBy(bob, irene)]

\* All virtual channels are from alice to bob.
OneWay == [v \in Targets |-> <<alice, irene, bob>>]

\* One is from alice to bob, the other from bob to alice.
BothWays == [v \in Targets |-> IF v = 1 THEN <<alice, irene, bob>> ELSE <<bob, irene, alice>>]

\* One is from alice to bob, the other from alice to brian.
MultiParty == [v \in Targets |-> IF v = 1 THEN <<alice, irene, bob>> ELSE <<alice, irene, brian>>]

Outcomes == [v \in Targets |-> <<2, 1>>]

\* Enough for all virtual channels.
Plenty == [l \in LedgerIDs |-> [p \in Parties |-> IF p = Leader THEN 6 ELSE 5]]

\* alice closes her virtual channels, paying bob 1.
AliceCloses == [client : {alice}, v : Targets, paidToBob : {1}]

\* alice and bob both close the first one, and disagree.
BothClose == {[client |-> alice, v |-> 1, paidToBob |-> 1],
              [client |-> bob, v |-> 1, paidToBob |-> 2]}

\* alice and bob each close their ledger channel with irene.
CloseLedgers == {[client |-> alice, l |-> L1], [client |-> bob, l |-> L2]}

\* alice closes her ledger channel.
AliceClosesLedger == {[client |-> alice, l |-> L1]}

\* bob's policymaker wants none of the second virtual channel.
BobRefusesSecond == {<<bob, 2>>}
=============================================================================
