------------------------- MODULE MCNitroAdjudicator -------------------------
(***************************************************************************)
(* Instances of NitroAdjudicator: a channel G that gets funds and may come *)
(* to guarantee channels T and U that get none.                            *)
(***************************************************************************)
EXTENDS NitroAdjudicator, TLC

State(outcome, isFinal) == [outcome |-> outcome, isFinal |-> isFinal]

MCChannels == {"G", "T", "U"}
MCExternals == {"A", "B", "I"}
MCParticipants == [c \in MCChannels |-> 2]
MCDurations == [c \in MCChannels |-> IF c = "G" THEN 2 ELSE 1]

\* G starts with simple allocations, then guarantees T, which is to pay B before A,
\* and with lower priority U, and is closed with what T and U left.
MCHistory ==
  "G" :> <<State(<<Allocation("A", 3), Allocation("I", 1)>>, FALSE),
           State(<<GuaranteeFor("T", 2, <<"B", "A">>), GuaranteeFor("U", 2, <<"A", "I">>)>>, FALSE),
           State(<<Allocation("A", 2), Allocation("I", 2)>>, TRUE)>> @@
  "T" :> <<State(<<Allocation("A", 1), Allocation("B", 2)>>, TRUE)>> @@
  "U" :> <<State(<<Allocation("A", 1), Allocation("I", 1)>>, TRUE)>>

\* The two deposits G expects.
MCDeposits ==
  {[channelId |-> "G", expectedHeld |-> 0, amount |-> 3],
   [channelId |-> "G", expectedHeld |-> 3, amount |-> 1]}

\* A ledger channel as the client writes it: balances, then guarantees.
LedgerHistory ==
  "G" :> <<State(<<Allocation("A", 1), Allocation("I", 1), GuaranteeFor("T", 2, <<"B", "A">>)>>,
                 FALSE)>> @@
  "T" :> <<State(<<Allocation("A", 1), Allocation("B", 1)>>, TRUE)>> @@
  "U" :> << >>
=============================================================================
