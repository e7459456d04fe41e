-------------------------- MODULE MultiAssetHolder --------------------------
(***************************************************************************)
(* The algorithms that pay out what a finalized channel allocates, for one *)
(* asset: nitro-protocol/contracts/MultiAssetHolder.sol, and the copy of   *)
(* them in nitro-protocol/src/contract/multi-asset-holder.ts.              *)
(*                                                                         *)
(* A loop of the code is a step on the record of its local variables, and  *)
(* a recursive function that iterates the step.  Arrays start at 1, so the *)
(* code's k is one less than the k here.  What is paid for the i-th        *)
(* allocation is exit[i]: its destination is that of the allocation.       *)
(***************************************************************************)
EXTENDS Integers, Sequences, FiniteSetsExt

CONSTANT Uint256 \* the number of values of a uint256

ASSUME Uint256Assumption == Uint256 \in Nat \ {0}

Simple == "simple"
GuaranteeType == "guarantee"

\* metadata is what decodeGuaranteeData returns: the destinations a guarantee pays,
\* in order.
Allocation(destination, amount) ==
  [destination |-> destination, amount |-> amount, allocationType |-> Simple, metadata |-> << >>]
GuaranteeFor(target, amount, destinations) ==
  [destination |-> target, amount |-> amount, allocationType |-> GuaranteeType,
   metadata |-> destinations]

isGuarantee(allocation) == allocation.allocationType = GuaranteeType

Amount == 0..(Uint256 - 1)
Entry(destinations) ==
  [destination : destinations, amount : Amount, allocationType : {Simple, GuaranteeType},
   metadata : Seq(destinations)]

-----------------------------------------------------------------------------
(* Arithmetic without overflow checks, and helpers *)

SumOf(f, S) == MapThenSumSet(LAMBDA x : f[x], S)

Lesser(a, b) == IF a > b THEN b ELSE a
Plus(a, b) == (a + b) % Uint256
Minus(a, b) == (a - b) % Uint256

IncreasingIndices(indices) == \A i \in 1..(Len(indices) - 1) : indices[i] < indices[i + 1]

\* The caller asks for entry i: it asks for all, or i is the next of its indices.
Chosen(indices, k, i) == indices = << >> \/ (k <= Len(indices) /\ indices[k] = i)

NoExit(allocations) == [i \in DOMAIN allocations |-> 0]

-----------------------------------------------------------------------------
(* compute_transfer_effects_and_interactions *)

transferStart(initialHoldings, allocations) ==
  [k |-> 1, surplus |-> initialHoldings, totalPayouts |-> 0, newAllocations |-> allocations,
   exit |-> NoExit(allocations), reverts |-> FALSE]

\* A mutation of transferStep: what nobody asks for is not set aside.
transferStepForgetsOthers(allocations, indices, s, i) ==
  LET chosen == Chosen(indices, s.k, i)
      paid == IF chosen THEN Lesser(allocations[i].amount, s.surplus) ELSE 0
  IN  [k |-> IF chosen THEN s.k + 1 ELSE s.k,
       surplus |-> Minus(s.surplus, paid),
       totalPayouts |-> Plus(s.totalPayouts, paid),
       newAllocations |-> [s.newAllocations EXCEPT ![i].amount = Minus(@, paid)],
       exit |-> [s.exit EXCEPT ![i] = paid],
       reverts |-> s.reverts \/ (chosen /\ isGuarantee(allocations[s.k]))]

\* One iteration.  The allocation whose type is tested is the k-th, which is the
\* i-th when all are paid.
transferStep(allocations, indices, s, i) ==
  LET affords == Lesser(allocations[i].amount, s.surplus)
      chosen == Chosen(indices, s.k, i)
      paid == IF chosen THEN affords ELSE 0
  IN  [k |-> IF chosen THEN s.k + 1 ELSE s.k,
       surplus |-> Minus(s.surplus, affords),
       totalPayouts |-> Plus(s.totalPayouts, paid),
       newAllocations |-> [s.newAllocations EXCEPT ![i].amount = Minus(@, paid)],
       exit |-> [s.exit EXCEPT ![i] = paid],
       reverts |-> s.reverts \/ (chosen /\ isGuarantee(allocations[s.k]))]

compute_transfer_effects_and_interactions(initialHoldings, allocations, indices) ==
  LET after[i \in 0..Len(allocations)] ==
        IF i = 0 THEN transferStart(initialHoldings, allocations)
        ELSE transferStep(allocations, indices, after[i - 1], i)
  IN  after[Len(allocations)]

allocatesOnlyZeros(allocations) == \A i \in DOMAIN allocations : allocations[i].amount = 0

-----------------------------------------------------------------------------
(* compute_claim_effects_and_interactions *)

\* What the source still has when it is the turn of its n-th allocation.
sourceSurplus(initialHoldings, source, n) ==
  LET left[i \in 0..(n - 1)] ==
        IF i = 0 THEN initialHoldings
        ELSE Minus(left[i - 1], Lesser(source[i].amount, left[i - 1]))
  IN  left[n - 1]

claimStart(initialHoldings, source, target, n) ==
  [k |-> 1,
   surplus |-> Lesser(sourceSurplus(initialHoldings, source, n), source[n].amount),
   totalPayouts |-> 0, guaranteed |-> source[n].amount, newAllocations |-> target,
   exit |-> NoExit(target)]

\* A mutation of claimFor: what nobody asks for is not set aside.
claimForForgetsOthers(target, indices, s, i) ==
  LET paid == Lesser(target[i].amount, s.surplus)
  IN  IF ~Chosen(indices, s.k, i) THEN s
      ELSE [k |-> s.k + 1,
            surplus |-> Minus(s.surplus, paid),
            totalPayouts |-> Plus(s.totalPayouts, paid),
            guaranteed |-> Minus(s.guaranteed, paid),
            newAllocations |-> [s.newAllocations EXCEPT ![i].amount = Minus(@, paid)],
            exit |-> [s.exit EXCEPT ![i] = paid]]

\* Entry i of the target is the first for a destination of the guarantee.
claimFor(target, indices, s, i) ==
  LET affords == Lesser(target[i].amount, s.surplus)
      chosen == Chosen(indices, s.k, i)
      paid == IF chosen THEN affords ELSE 0
  IN  [k |-> IF chosen THEN s.k + 1 ELSE s.k,
       surplus |-> Minus(s.surplus, affords),
       totalPayouts |-> Plus(s.totalPayouts, paid),
       guaranteed |-> Minus(s.guaranteed, paid),
       newAllocations |-> [s.newAllocations EXCEPT ![i].amount = Minus(@, paid)],
       exit |-> IF chosen THEN [s.exit EXCEPT ![i] = affords] ELSE s.exit]

\* One iteration, for the destination d of the guarantee.
claimStep(target, indices, s, d) ==
  LET entries == {i \in DOMAIN target : target[i].destination = d}
  IN  IF s.surplus = 0 \/ entries = {} THEN s ELSE claimFor(target, indices, s, Min(entries))

compute_claim_effects_and_interactions(initialHoldings, source, target, n, indices) ==
  LET destinations == source[n].metadata
      after[j \in 0..Len(destinations)] ==
        IF j = 0 THEN claimStart(initialHoldings, source, target, n)
        ELSE claimStep(target, indices, after[j - 1], destinations[j])
  IN  after[Len(destinations)]

-----------------------------------------------------------------------------
(* The copy of the algorithms in TypeScript, on integers of any size *)

emulatedTransferStep(allocations, indices, s, i) ==
  LET affords == Lesser(allocations[i].amount, s.surplus)
      chosen == Chosen(indices, s.k, i)
  IN  [k |-> s.k + (IF chosen THEN 1 ELSE 0),
       surplus |-> s.surplus - affords,
       totalPayouts |-> s.totalPayouts + (IF chosen THEN affords ELSE 0),
       newAllocations |-> Append(s.newAllocations,
         [allocations[i] EXCEPT !.amount = IF chosen THEN @ - affords ELSE @]),
       exit |-> Append(s.exit, IF chosen THEN affords ELSE 0),
       reverts |-> FALSE]

computeTransferEffectsAndInteractions(initialHoldings, allocations, indices) ==
  LET after[i \in 0..Len(allocations)] ==
        IF i = 0 THEN transferStart(initialHoldings, << >>)
        ELSE emulatedTransferStep(allocations, indices, after[i - 1], i)
  IN  after[Len(allocations)]

\* A mutation of emulatedClaimStep: the guarantee is not reduced.
emulatedClaimStepKeepsGuarantee(indices, s, d) ==
  LET left == s.newAllocations
      entries == {i \in DOMAIN left : left[i].destination = d}
      i == Min(entries)
      affords == Lesser(left[i].amount, s.surplus)
  IN  CASE s.surplus = 0 \/ entries = {} -> s
        [] OTHER ->
             IF Chosen(indices, s.k, i)
             THEN [s EXCEPT !.k = @ + 1, !.surplus = @ - affords, !.totalPayouts = @ + affords,
                            !.newAllocations[i].amount = @ - affords, !.exit[i] = @ + affords]
             ELSE [s EXCEPT !.surplus = @ - affords]

\* The amount of an entry is read from what is left of it.
emulatedClaimStep(indices, s, d) ==
  LET left == s.newAllocations
      entries == {i \in DOMAIN left : left[i].destination = d}
      i == Min(entries)
      affords == Lesser(left[i].amount, s.surplus)
  IN  CASE s.surplus = 0 \/ entries = {} -> s
        [] OTHER ->
             IF Chosen(indices, s.k, i)
             THEN [k |-> s.k + 1,
                   surplus |-> s.surplus - affords,
                   totalPayouts |-> s.totalPayouts + affords,
                   guaranteed |-> s.guaranteed - affords,
                   newAllocations |-> [left EXCEPT ![i].amount = @ - affords],
                   exit |-> [s.exit EXCEPT ![i] = @ + affords]]
             ELSE [s EXCEPT !.surplus = @ - affords]

computeClaimEffectsAndInteractions(initialHoldings, source, target, n, indices) ==
  LET destinations == source[n].metadata
      after[j \in 0..Len(destinations)] ==
        IF j = 0 THEN claimStart(initialHoldings, source, target, n)
        ELSE emulatedClaimStep(indices, after[j - 1], destinations[j])
  IN  after[Len(destinations)]

-----------------------------------------------------------------------------
(* channel/state/outcome: what the client takes a channel to afford *)

\* A mutation of Affords: an entry that takes all that is left is not afforded.
AffordsMore(allocations, given, funding) ==
  LET surplus[i \in 0..Len(allocations)] ==
        IF i = 0 THEN funding ELSE surplus[i - 1] - allocations[i].amount
      equal == {i \in DOMAIN allocations : allocations[i] = given}
  IN  equal # {} /\ surplus[Min(equal) - 1] > given.amount

\* Allocations.Affords: the first allocation equal to given is covered by what those
\* before it leave.
Affords(allocations, given, funding) ==
  LET surplus[i \in 0..Len(allocations)] ==
        IF i = 0 THEN funding ELSE surplus[i - 1] - allocations[i].amount
      equal == {i \in DOMAIN allocations : allocations[i] = given}
  IN  /\ equal # {}
      /\ \A i \in 1..(Min(equal) - 1) : surplus[i] > 0
      /\ surplus[Min(equal) - 1] >= given.amount

-----------------------------------------------------------------------------
(* What an entry is due: the reference the algorithms are checked against *)

AmountsOf(allocations) == [i \in DOMAIN allocations |-> allocations[i].amount]

\* What is left of available for entry i when all entries before it are served first.
Share(amounts, available, i) ==
  LET before == SumOf(amounts, 1..(i - 1))
  IN  IF before >= available THEN 0 ELSE Lesser(amounts[i], available - before)

\* A call with these indices asks for entry i.
PaidIn(indices, i) == indices = << >> \/ \E k \in DOMAIN indices : indices[k] = i
=============================================================================
