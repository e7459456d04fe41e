------------------------------ MODULE Induction -----------------------------
(***************************************************************************)
(* Induction for the members of a set, on numbers and on finite sets, and  *)
(* the functions that iterate a step.  The loops and the sums of the       *)
(* specifications are such functions.                                      *)
(***************************************************************************)
EXTENDS Integers, FiniteSetTheorems, TLAPS

\* Every nonempty set of natural numbers has a least member.
LEMMA LeastNumber ==
  ASSUME NEW S \in SUBSET Nat, S # {}
  PROVE  \E n \in S : \A m \in S : n <= m
<1>1. PICK n \in S : \A m \in S : ~ (<<m, n>> \in OpToRel(<, Nat))
  BY Zenon, NatLessThanWellFounded, WFMin
<1>2. \A m \in S : ~(m < n)
  BY Zenon, <1>1 DEF OpToRel
<1> QED BY <1>2

\* Induction on the numbers up to N, for the members of a set S.
LEMMA InductionUpTo ==
  ASSUME NEW N \in Nat, NEW S, 0 \in S,
         \A n \in 1..N : n - 1 \in S => n \in S
  PROVE  0..N \subseteq S
<1> DEFINE Bad == {n \in 0..N : n \notin S}
<1>1. SUFFICES ASSUME Bad # {} PROVE FALSE
  OBVIOUS
<1>2. PICK k \in Bad : \A m \in Bad : k <= m
  <2>1. Bad \in SUBSET Nat
    OBVIOUS
  <2> HIDE DEF Bad
  <2> QED BY <1>1, <2>1, LeastNumber
<1>3. k \in 1..N
  OBVIOUS
<1>4. k - 1 \in S
  BY <1>2, <1>3
<1> QED BY <1>3, <1>4

\* Induction on the subsets of a finite set, for the members of a set Q.
LEMMA InductionOnSubsets ==
  ASSUME NEW S, IsFiniteSet(S), NEW Q,
         \A T \in SUBSET S : (\A x \in T : T \ {x} \in Q) => T \in Q
  PROVE  SUBSET S \subseteq Q
<1> DEFINE Bad == {T \in SUBSET S : T \notin Q}
<1>1. SUFFICES ASSUME Bad # {} PROVE FALSE
  OBVIOUS
<1>2. IsWellFoundedOn(StrictSubsetOrdering(S), SUBSET S)
  BY Zenon, FS_StrictSubsetOrderingWellFounded, FS_FiniteSubsetsOfFinite
<1>3. PICK T \in Bad : \A U \in Bad : <<U, T>> \notin StrictSubsetOrdering(S)
  <2>1. Bad \subseteq SUBSET S
    OBVIOUS
  <2> HIDE DEF Bad
  <2> QED BY Zenon, <1>1, <1>2, <2>1, WFMin
<1>4. ASSUME NEW x \in T PROVE T \ {x} \in Q
  <2>1. T \ {x} \in SUBSET S /\ T \in SUBSET S /\ T \ {x} \subseteq T /\ T \ {x} # T
    OBVIOUS
  <2>2. <<T \ {x}, T>> \in StrictSubsetOrdering(S)
    BY <2>1 DEF StrictSubsetOrdering
  <2> QED BY <1>3, <2>1, <2>2
<1> QED BY <1>4

\* f[n] is the result of the first n steps.
Iterates(f, N, X, start, step) ==
  f \in [0..N -> X] /\ f[0] = start /\ \A n \in 1..N : f[n] = step[n][f[n - 1]]

\* A step on the members of a set X can be iterated N times.
LEMMA Iteration ==
  ASSUME NEW N \in Nat, NEW X, NEW start \in X, NEW step \in [1..N -> [X -> X]]
  PROVE  \E f : Iterates(f, N, X, start, step)
<1> DEFINE Ok(k) == \E f \in [0..k -> X] :
                      f[0] = start /\ \A n \in 1..k : f[n] = step[n][f[n - 1]]
           S == {k \in 0..N : Ok(k)}
<1>1. Ok(0)
  <2> DEFINE z == [n \in 0..0 |-> start]
  <2>1. z \in [0..0 -> X] /\ z[0] = start /\ \A n \in 1..0 : z[n] = step[n][z[n - 1]]
    OBVIOUS
  <2> QED BY Zenon, <2>1
<1>2. ASSUME NEW k \in 1..N, Ok(k - 1)
      PROVE  Ok(k)
  <2>1. PICK f \in [0..(k - 1) -> X] :
          f[0] = start /\ \A n \in 1..(k - 1) : f[n] = step[n][f[n - 1]]
    BY <1>2
  <2> DEFINE r == [n \in 0..k |-> IF n < k THEN f[n] ELSE step[k][f[k - 1]]]
  <2>2. r \in [0..k -> X]
    <3>1. f[k - 1] \in X /\ step[k] \in [X -> X]
      OBVIOUS
    <3>2. step[k][f[k - 1]] \in X
      BY Zenon, <3>1
    <3> QED BY <3>2
  <2>3. r[0] = start
    BY <2>1
  <2>4. ASSUME NEW n \in 1..k PROVE r[n] = step[n][r[n - 1]]
    BY <2>1
  <2> QED BY Zenon, <2>2, <2>3, <2>4
<1> HIDE DEF Ok
<1>3. 0..N \subseteq S
  <2>1. 0 \in S BY <1>1
  <2>2. \A n \in 1..N : n - 1 \in S => n \in S BY <1>2
  <2> HIDE DEF S
  <2> QED BY Zenon, <2>1, <2>2, InductionUpTo
<1>4. Ok(N)
  BY <1>3
<1> QED BY Zenon, <1>4 DEF Ok, Iterates

\* Functions that start alike and go on alike end alike.
Alike(f, g, N) == f[0] = g[0] /\ \A n \in 1..N : f[n - 1] = g[n - 1] => f[n] = g[n]

\* Alike functions end alike.
LEMMA EndAlike ==
  ASSUME NEW N \in Nat, NEW f, NEW g, Alike(f, g, N)
  PROVE  f[N] = g[N]
<1> DEFINE S == {n \in 0..N : f[n] = g[n]}
<1>1. 0 \in S /\ \A n \in 1..N : n - 1 \in S => n \in S
  BY DEF Alike
<1>2. 0..N \subseteq S
  <2> HIDE DEF S
  <2> QED BY Zenon, <1>1, InductionUpTo
<1> QED BY <1>2
=============================================================================
