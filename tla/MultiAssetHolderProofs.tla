----------------------- MODULE MultiAssetHolderProofs -----------------------
(***************************************************************************)
(* What the algorithms of MultiAssetHolder compute, for any holdings, any  *)
(* outcome and any indices.                                                *)
(***************************************************************************)
EXTENDS MultiAssetHolder, Induction, SequenceTheorems, TLAPS

-----------------------------------------------------------------------------
(* Sums *)

Picked(s) == CHOOSE x \in s : TRUE

\* sum maps every subset of S to the sum of f over it.
Adds(sum, f, S) ==
  sum = [s \in SUBSET S |-> IF s = {} THEN 0 ELSE f[Picked(s)] + sum[s \ {Picked(s)}]]

\* What the library's fold computes.
LEMMA SumDef ==
  ASSUME NEW f, NEW S
  PROVE  SumOf(f, S) = (CHOOSE sum : Adds(sum, f, S))[S]
BY Zenon DEF SumOf, MapThenSumSet, MapThenFoldSet, Adds, Picked

\* The fold goes on with a member of the set.
LEMMA PickedIn == ASSUME NEW s, s # {} PROVE Picked(s) \in s
BY Zenon DEF Picked

\* ... and every subset with at most N members.
AddsUpTo(N, sum, f, S) ==
  \A s \in SUBSET S : Cardinality(s) <= N =>
    sum[s] = IF s = {} THEN 0 ELSE f[Picked(s)] + sum[s \ {Picked(s)}]

\* Sums over the subsets with at most N members exist.
LEMMA SumsUpTo ==
  ASSUME NEW f, NEW S, IsFiniteSet(S), NEW N \in Nat
  PROVE  \E sum : AddsUpTo(N, sum, f, S)
<1> DEFINE Equation(sum, s) ==
             sum[s] = IF s = {} THEN 0 ELSE f[Picked(s)] + sum[s \ {Picked(s)}]
           Ok(n) == \E sum : \A s \in SUBSET S : Cardinality(s) <= n => Equation(sum, s)
           Q == {n \in 0..N : Ok(n)}
<1>1. \A s \in SUBSET S : IsFiniteSet(s) /\ Cardinality(s) \in Nat
  BY Zenon, FS_Subset, FS_CardinalityType
<1>2. Ok(0)
  <2> DEFINE z == [s \in SUBSET S |-> 0]
  <2>1. ASSUME NEW s \in SUBSET S, Cardinality(s) <= 0 PROVE Equation(z, s)
    <3>1. Cardinality(s) = 0
      BY <1>1, <2>1
    <3>2. s = {}
      BY Zenon, <1>1, <3>1, FS_EmptySet
    <3> QED BY <3>2
  <2> HIDE DEF z, Equation
  <2> QED BY Zenon, <2>1
<1>3. ASSUME NEW n \in 1..N, Ok(n - 1) PROVE Ok(n)
  <2>1. PICK sum : \A s \in SUBSET S : Cardinality(s) <= n - 1 => Equation(sum, s)
    BY Zenon, <1>3
  <2> DEFINE r == [s \in SUBSET S |->
                     IF Cardinality(s) <= n - 1 THEN sum[s]
                     ELSE f[Picked(s)] + sum[s \ {Picked(s)}]]
  <2>2. ASSUME NEW s \in SUBSET S, Cardinality(s) <= n PROVE Equation(r, s)
    <3>1. CASE s = {}
      <4>1. Cardinality(s) = 0
        BY Zenon, <3>1, FS_EmptySet
      <4>2. Cardinality(s) <= n - 1
        BY <4>1
      <4>3. r[s] = sum[s]
        BY <4>2
      <4>4. sum[s] = 0
        BY <2>1, <3>1, <4>2
      <4> QED BY <3>1, <4>3, <4>4
    <3>2. CASE s # {}
      <4>1. PICK x \in s : x = Picked(s)
        BY Zenon, <3>2, PickedIn
      <4>2. s \ {x} \in SUBSET S /\ Cardinality(s \ {x}) = Cardinality(s) - 1
        BY Zenon, <1>1, FS_RemoveElement
      <4>3. Cardinality(s) \in Nat
        BY <1>1
      <4>4. Cardinality(s \ {x}) <= n - 1
        BY <2>2, <4>2, <4>3
      <4>5. r[s \ {x}] = sum[s \ {x}]
        BY <4>2, <4>4
      <4>6. CASE Cardinality(s) <= n - 1
        <5>1. r[s] = sum[s]
          BY <4>6
        <5>2. sum[s] = f[x] + sum[s \ {x}]
          BY <2>1, <3>2, <4>1, <4>6
        <5> QED BY <3>2, <4>1, <4>5, <5>1, <5>2
      <4>7. CASE ~(Cardinality(s) <= n - 1)
        <5>1. r[s] = f[x] + sum[s \ {x}]
          BY <4>1, <4>7
        <5> QED BY <3>2, <4>1, <4>5, <5>1
      <4> QED BY <4>6, <4>7
    <3> QED BY <3>1, <3>2
  <2> HIDE DEF r, Equation
  <2> QED BY Zenon, <2>2
<1> HIDE DEF Ok
<1>4. 0..N \subseteq Q
  <2>1. 0 \in Q BY <1>2
  <2>2. \A n \in 1..N : n - 1 \in Q => n \in Q BY <1>3
  <2> HIDE DEF Q
  <2> QED BY Zenon, <2>1, <2>2, InductionUpTo
<1>5. Ok(N)
  BY <1>4
<1> QED BY Zenon, <1>5 DEF Ok, AddsUpTo

\* The function that SumOf chooses exists: it satisfies its definition.
LEMMA SumsExist ==
  ASSUME NEW f, NEW S, IsFiniteSet(S)
  PROVE  \E sum : Adds(sum, f, S)
<1>1. Cardinality(S) \in Nat
  BY Zenon, FS_CardinalityType
<1>2. PICK r : AddsUpTo(Cardinality(S), r, f, S)
  BY Zenon, <1>1, SumsUpTo
<1>3. \A s \in SUBSET S : Cardinality(s) <= Cardinality(S)
  BY Zenon, FS_Subset
<1> DEFINE sum == [s \in SUBSET S |-> r[s]]
<1>4. ASSUME NEW s \in SUBSET S
      PROVE  sum[s] = IF s = {} THEN 0 ELSE f[Picked(s)] + sum[s \ {Picked(s)}]
  <2>1. s \ {Picked(s)} \in SUBSET S
    OBVIOUS
  <2>2. sum[s] = r[s] /\ sum[s \ {Picked(s)}] = r[s \ {Picked(s)}]
    BY <2>1
  <2>3. r[s] = IF s = {} THEN 0 ELSE f[Picked(s)] + r[s \ {Picked(s)}]
    BY Zenon, <1>2, <1>3 DEF AddsUpTo
  <2> QED BY <2>2, <2>3
<1>5. sum = [s \in SUBSET S |-> IF s = {} THEN 0 ELSE f[Picked(s)] + sum[s \ {Picked(s)}]]
  BY Zenon, <1>4
<1> HIDE DEF sum
<1> QED BY Zenon, <1>5 DEF Adds

\* Any two such functions agree where both are defined.
LEMMA SumsAgree ==
  ASSUME NEW f, NEW S, IsFiniteSet(S), NEW T, T \subseteq S, NEW a, NEW b,
         Adds(a, f, S), Adds(b, f, T)
  PROVE  a[T] = b[T]
<1> DEFINE Q == {s \in SUBSET T : a[s] = b[s]}
<1>1. ASSUME NEW s \in SUBSET T, \A x \in s : s \ {x} \in Q PROVE s \in Q
  <2>1. s \in SUBSET S
    OBVIOUS
  <2>2. a[s] = IF s = {} THEN 0 ELSE f[Picked(s)] + a[s \ {Picked(s)}]
    BY Zenon, <2>1 DEF Adds
  <2>3. b[s] = IF s = {} THEN 0 ELSE f[Picked(s)] + b[s \ {Picked(s)}]
    BY Zenon DEF Adds
  <2>4. CASE s = {}
    BY <2>2, <2>3, <2>4
  <2>5. CASE s # {}
    <3>1. Picked(s) \in s
      BY <2>5, PickedIn
    <3>2. a[s \ {Picked(s)}] = b[s \ {Picked(s)}]
      BY <1>1, <3>1
    <3> QED BY <2>2, <2>3, <2>5, <3>2
  <2> QED BY <2>4, <2>5
<1>2. IsFiniteSet(T)
  BY Zenon, FS_Subset
<1>3. SUBSET T \subseteq Q
  <2> HIDE DEF Q
  <2> QED BY Zenon, <1>1, <1>2, InductionOnSubsets
<1>4. T \in SUBSET T
  OBVIOUS
<1> QED BY <1>3, <1>4

\* SumOf satisfies its defining equation.
LEMMA SumEquation ==
  ASSUME NEW f, NEW S, IsFiniteSet(S)
  PROVE  SumOf(f, S) = IF S = {} THEN 0 ELSE f[Picked(S)] + SumOf(f, S \ {Picked(S)})
<1>0. S \ {Picked(S)} \subseteq S /\ IsFiniteSet(S \ {Picked(S)})
  BY Zenon, FS_Subset
<1>1. PICK T : T = S \ {Picked(S)} /\ T \subseteq S /\ IsFiniteSet(T)
  BY Zenon, <1>0
<1>2. PICK a : Adds(a, f, S) /\ SumOf(f, S) = a[S]
  <2>1. Adds(CHOOSE sum : Adds(sum, f, S), f, S)
    BY Zenon, SumsExist
  <2> QED BY Zenon, <2>1, SumDef
<1>3. PICK b : Adds(b, f, T) /\ SumOf(f, T) = b[T]
  <2>1. Adds(CHOOSE sum : Adds(sum, f, T), f, T)
    BY Zenon, <1>1, SumsExist
  <2> QED BY Zenon, <2>1, SumDef
<1>4. a[T] = b[T]
  BY <1>1, <1>2, <1>3, SumsAgree
<1>5. a[S] = IF S = {} THEN 0 ELSE f[Picked(S)] + a[T]
  BY Zenon, <1>1, <1>2 DEF Adds
<1> QED BY <1>1, <1>2, <1>3, <1>4, <1>5

\* The empty sum.
LEMMA SumOfNone == ASSUME NEW f PROVE SumOf(f, {}) = 0
BY Zenon, SumEquation, FS_EmptySet

\* The sum of numbers is a number.
LEMMA SumType ==
  ASSUME NEW S, IsFiniteSet(S), NEW f, \A x \in S : f[x] \in Int
  PROVE  SumOf(f, S) \in Int
<1> DEFINE Q == {s \in SUBSET S : SumOf(f, s) \in Int}
<1>1. ASSUME NEW s \in SUBSET S, \A x \in s : s \ {x} \in Q PROVE s \in Q
  <2>1. SumOf(f, s) = IF s = {} THEN 0 ELSE f[Picked(s)] + SumOf(f, s \ {Picked(s)})
    BY Zenon, FS_Subset, SumEquation
  <2>2. CASE s = {}
    BY <2>1, <2>2
  <2>3. CASE s # {}
    <3>1. Picked(s) \in s
      BY <2>3, PickedIn
    <3>2. f[Picked(s)] \in Int /\ SumOf(f, s \ {Picked(s)}) \in Int
      BY <1>1, <3>1
    <3> QED BY <2>1, <2>3, <3>2
  <2> QED BY <2>2, <2>3
<1>2. SUBSET S \subseteq Q
  <2> HIDE DEF Q
  <2> QED BY Zenon, <1>1, InductionOnSubsets
<1> QED BY <1>2

\* Any member may be taken out first.
LEMMA SumRemove ==
  ASSUME NEW S, IsFiniteSet(S), NEW f, \A x \in S : f[x] \in Int, NEW e \in S
  PROVE  SumOf(f, S) = f[e] + SumOf(f, S \ {e})
<1> DEFINE Q == {s \in SUBSET S : \A x \in s : SumOf(f, s) = f[x] + SumOf(f, s \ {x})}
<1>1. ASSUME NEW s \in SUBSET S, \A x \in s : s \ {x} \in Q PROVE s \in Q
  <2> SUFFICES ASSUME NEW x \in s PROVE SumOf(f, s) = f[x] + SumOf(f, s \ {x})
    OBVIOUS
  <2>1. PICK y \in s : y = Picked(s)
    BY Zenon, PickedIn
  <2>2. SumOf(f, s) = f[y] + SumOf(f, s \ {y})
    BY Zenon, <2>1, FS_Subset, SumEquation
  <2>3. CASE x = y
    BY <2>2, <2>3
  <2>4. CASE x # y
    <3>1. x \in s \ {y} /\ y \in s \ {x} /\ (s \ {y}) \ {x} = (s \ {x}) \ {y}
      BY <2>4
    <3>2. PICK u : u = (s \ {x}) \ {y}
      BY Zenon
    <3>3. SumOf(f, s \ {y}) = f[x] + SumOf(f, u)
      BY <1>1, <3>1, <3>2
    <3>4. SumOf(f, s \ {x}) = f[y] + SumOf(f, u)
      BY <1>1, <3>1, <3>2
    <3>5. SumOf(f, u) \in Int
      <4>1. u \in SUBSET S
        BY <3>2
      <4>2. \A z \in u : f[z] \in Int
        BY <4>1
      <4> QED BY Zenon, <4>1, <4>2, FS_Subset, SumType
    <3>6. f[x] \in Int /\ f[y] \in Int
      OBVIOUS
    <3> QED BY <2>2, <3>3, <3>4, <3>5, <3>6
  <2> QED BY <2>3, <2>4
<1>2. SUBSET S \subseteq Q
  <2> HIDE DEF Q
  <2> QED BY Zenon, <1>1, InductionOnSubsets
<1>3. S \in SUBSET S
  OBVIOUS
<1> QED BY <1>2, <1>3

\* Functions that agree on a set have the same sum over it.
LEMMA SumSame ==
  ASSUME NEW S, IsFiniteSet(S), NEW f, NEW g, \A x \in S : f[x] = g[x]
  PROVE  SumOf(f, S) = SumOf(g, S)
<1> DEFINE Q == {s \in SUBSET S : SumOf(f, s) = SumOf(g, s)}
<1>1. ASSUME NEW s \in SUBSET S, \A x \in s : s \ {x} \in Q PROVE s \in Q
  <2>1. /\ SumOf(f, s) = IF s = {} THEN 0 ELSE f[Picked(s)] + SumOf(f, s \ {Picked(s)})
        /\ SumOf(g, s) = IF s = {} THEN 0 ELSE g[Picked(s)] + SumOf(g, s \ {Picked(s)})
    BY Zenon, FS_Subset, SumEquation
  <2>2. s # {} => Picked(s) \in s
    BY PickedIn
  <2> QED BY <1>1, <2>1, <2>2
<1>2. SUBSET S \subseteq Q
  <2> HIDE DEF Q
  <2> QED BY Zenon, <1>1, InductionOnSubsets
<1>3. S \in SUBSET S
  OBVIOUS
<1> QED BY <1>2, <1>3

\* The sum of natural numbers is one, and at least each of them.
LEMMA SumNat ==
  ASSUME NEW S, IsFiniteSet(S), NEW f, \A x \in S : f[x] \in Nat
  PROVE  SumOf(f, S) \in Nat /\ \A x \in S : f[x] <= SumOf(f, S)
<1> DEFINE Q == {s \in SUBSET S : SumOf(f, s) \in Nat}
<1>1. ASSUME NEW s \in SUBSET S, \A x \in s : s \ {x} \in Q PROVE s \in Q
  <2>1. SumOf(f, s) = IF s = {} THEN 0 ELSE f[Picked(s)] + SumOf(f, s \ {Picked(s)})
    BY Zenon, FS_Subset, SumEquation
  <2>2. CASE s = {}
    BY <2>1, <2>2
  <2>3. CASE s # {}
    <3>1. Picked(s) \in s
      BY <2>3, PickedIn
    <3>2. f[Picked(s)] \in Nat /\ SumOf(f, s \ {Picked(s)}) \in Nat
      BY <1>1, <3>1
    <3> QED BY <2>1, <2>3, <3>2
  <2> QED BY <2>2, <2>3
<1>2. SUBSET S \subseteq Q
  <2> HIDE DEF Q
  <2> QED BY Zenon, <1>1, InductionOnSubsets
<1>3. ASSUME NEW x \in S PROVE f[x] <= SumOf(f, S)
  <2>1. SumOf(f, S) = f[x] + SumOf(f, S \ {x})
    <3>1. \A y \in S : f[y] \in Int
      OBVIOUS
    <3> QED BY Zenon, <3>1, SumRemove
  <2>2. S \ {x} \in Q
    BY <1>2
  <2> QED BY <2>1, <2>2
<1>4. S \in Q
  BY <1>2
<1> QED BY <1>3, <1>4

\* Sums add up.
LEMMA SumPlus ==
  ASSUME NEW S, IsFiniteSet(S), NEW f, NEW g, NEW h,
         \A x \in S : f[x] \in Int /\ g[x] \in Int /\ h[x] = f[x] + g[x]
  PROVE  SumOf(h, S) = SumOf(f, S) + SumOf(g, S)
<1> DEFINE Q == {s \in SUBSET S : SumOf(h, s) = SumOf(f, s) + SumOf(g, s)}
<1>1. ASSUME NEW s \in SUBSET S, \A x \in s : s \ {x} \in Q PROVE s \in Q
  <2> DEFINE x == Picked(s)
             t == s \ {Picked(s)}
  <2>1. /\ SumOf(f, s) = IF s = {} THEN 0 ELSE f[x] + SumOf(f, t)
        /\ SumOf(g, s) = IF s = {} THEN 0 ELSE g[x] + SumOf(g, t)
        /\ SumOf(h, s) = IF s = {} THEN 0 ELSE h[x] + SumOf(h, t)
    BY Zenon, FS_Subset, SumEquation
  <2>2. CASE s = {}
    BY <2>1, <2>2
  <2>3. CASE s # {}
    <3>1. x \in s
      BY <2>3, PickedIn
    <3>2. t \in SUBSET S /\ \A y \in t : f[y] \in Int /\ g[y] \in Int
      OBVIOUS
    <3>3. SumOf(f, t) \in Int /\ SumOf(g, t) \in Int
      <4> HIDE DEF t
      <4> QED BY Zenon, <3>2, FS_Subset, SumType
    <3>4. SumOf(h, t) = SumOf(f, t) + SumOf(g, t)
      BY <1>1, <3>1
    <3>5. f[x] \in Int /\ g[x] \in Int /\ h[x] = f[x] + g[x]
      BY <3>1
    <3> HIDE DEF x, t
    <3> QED BY <2>1, <2>3, <3>3, <3>4, <3>5
  <2> QED BY <2>2, <2>3
<1>2. SUBSET S \subseteq Q
  <2> HIDE DEF Q
  <2> QED BY Zenon, <1>1, InductionOnSubsets
<1>3. S \in SUBSET S
  OBVIOUS
<1> QED BY <1>2, <1>3

\* A sum of zeros.
LEMMA SumOfZeros ==
  ASSUME NEW S, IsFiniteSet(S), NEW z, \A x \in S : z[x] = 0
  PROVE  SumOf(z, S) = 0
<1>1. \A x \in S : z[x] \in Int /\ z[x] = z[x] + z[x]
  OBVIOUS
<1>2. SumOf(z, S) \in Int
  BY Zenon, <1>1, SumType
<1>3. SumOf(z, S) = SumOf(z, S) + SumOf(z, S)
  BY Zenon, <1>1, SumPlus
<1>4. \A n \in Int : n = n + n => n = 0
  OBVIOUS
<1> QED BY Zenon, <1>2, <1>3, <1>4

\* What becomes of a sum when one summand is replaced.
Replaced(f, g, e, S) ==
  \A x \in S : f[x] \in Int /\ g[x] \in Int /\ (x # e => g[x] = f[x])

\* A sum of which one summand is replaced.
LEMMA SumReplace ==
  ASSUME NEW S, IsFiniteSet(S), NEW f, NEW g, NEW e \in S, Replaced(f, g, e, S)
  PROVE  SumOf(g, S) = SumOf(f, S) - f[e] + g[e]
<1>0. \A x \in S : f[x] \in Int /\ g[x] \in Int /\ (x # e => g[x] = f[x])
  BY DEF Replaced
<1>1. IsFiniteSet(S \ {e}) /\ \A x \in S \ {e} : f[x] = g[x] /\ f[x] \in Int
  <2>1. IsFiniteSet(S \ {e})
    BY Zenon, FS_RemoveElement
  <2> QED BY <1>0, <2>1
<1>2. SumOf(f, S \ {e}) = SumOf(g, S \ {e}) /\ SumOf(f, S \ {e}) \in Int
  BY Zenon, <1>1, SumSame, SumType
<1>3. SumOf(f, S) = f[e] + SumOf(f, S \ {e}) /\ SumOf(g, S) = g[e] + SumOf(g, S \ {e})
  BY Zenon, <1>0, SumRemove
<1> QED BY <1>0, <1>2, <1>3

\* The sum of the first n numbers, step by step.
LEMMA SumPrefix ==
  ASSUME NEW n \in Nat, NEW f, \A x \in 1..(n + 1) : f[x] \in Int
  PROVE  /\ SumOf(f, 1..n) \in Int
         /\ SumOf(f, 1..(n + 1)) = SumOf(f, 1..n) + f[n + 1]
<1> DEFINE S == 1..(n + 1)
<1>1. IsFiniteSet(1..n) /\ IsFiniteSet(S)
  <2>1. 1 \in Int /\ n \in Int /\ n + 1 \in Int
    OBVIOUS
  <2> QED BY Zenon, <2>1, FS_Interval
<1>2. n + 1 \in S /\ S \ {n + 1} = 1..n /\ \A x \in 1..n : f[x] \in Int
  OBVIOUS
<1>3. SumOf(f, 1..n) \in Int
  BY Zenon, <1>1, <1>2, SumType
<1>4. SumOf(f, S) = f[n + 1] + SumOf(f, S \ {n + 1})
  BY Zenon, <1>1, <1>2, SumRemove
<1>5. SumOf(f, S) = SumOf(f, 1..n) + f[n + 1]
  <2>1. f[n + 1] \in Int
    BY <1>2
  <2>2. SumOf(f, S) = f[n + 1] + SumOf(f, 1..n)
    BY Zenon, <1>2, <1>4
  <2> HIDE DEF S
  <2> QED BY <1>3, <2>1, <2>2
<1> QED BY Zenon, <1>3, <1>5

\* The sum over two sets without a common member.
LEMMA SumUnion ==
  ASSUME NEW A, IsFiniteSet(A), NEW B, IsFiniteSet(B), A \cap B = {},
         NEW f, \A x \in A \cup B : f[x] \in Int
  PROVE  SumOf(f, A \cup B) = SumOf(f, A) + SumOf(f, B)
<1> DEFINE Q == {s \in SUBSET B : SumOf(f, A \cup s) = SumOf(f, A) + SumOf(f, s)}
<1>1. SumOf(f, A) \in Int
  BY Zenon, SumType
<1>2. ASSUME NEW s \in SUBSET B, \A x \in s : s \ {x} \in Q PROVE s \in Q
  <2>1. CASE s = {}
    <3>1. PICK w : w = A \cup s
      BY Zenon
    <3>2. w = A /\ SumOf(f, s) = 0
      BY <2>1, <3>1, SumOfNone
    <3>3. SumOf(f, w) = SumOf(f, A) + SumOf(f, s)
      BY <1>1, <3>2
    <3> QED BY <3>1, <3>3
  <2>2. CASE s # {}
    <3>1. PICK x \in s : TRUE
      BY <2>2
    <3>2. PICK u : u = s \ {x}
      BY Zenon
    <3>3. /\ IsFiniteSet(s) /\ IsFiniteSet(u) /\ IsFiniteSet(A \cup s)
          /\ \A y \in A \cup s : f[y] \in Int
      <4>1. s \subseteq B /\ u \subseteq B
        BY <3>2
      <4>2. IsFiniteSet(s) /\ IsFiniteSet(u)
        BY Zenon, <4>1, FS_Subset
      <4>3. IsFiniteSet(A \cup s)
        BY Zenon, <4>2, FS_Union
      <4> QED BY <4>2, <4>3
    <3>4. SumOf(f, s) = f[x] + SumOf(f, u)
      BY Zenon, <3>2, <3>3, SumRemove
    <3>5. SumOf(f, A \cup s) = f[x] + SumOf(f, A \cup u)
      <4>1. PICK w : w = A \cup s
        BY Zenon
      <4>2. w \ {x} = A \cup u /\ x \in w
        BY <3>2, <4>1
      <4>3. SumOf(f, w) = f[x] + SumOf(f, w \ {x})
        BY <3>3, <4>1, <4>2, SumRemove
      <4> QED BY <4>1, <4>2, <4>3
    <3>6. SumOf(f, A \cup u) = SumOf(f, A) + SumOf(f, u)
      BY <1>2, <3>2
    <3>7. SumOf(f, u) \in Int /\ f[x] \in Int
      <4>1. \A y \in u : f[y] \in Int
        BY <3>2
      <4>2. SumOf(f, u) \in Int
        BY Zenon, <3>3, <4>1, SumType
      <4> QED BY <4>2
    <3> QED BY <1>1, <3>4, <3>5, <3>6, <3>7
  <2> QED BY <2>1, <2>2
<1>3. SUBSET B \subseteq Q
  <2> HIDE DEF Q
  <2> QED BY Zenon, <1>2, InductionOnSubsets
<1>4. B \in SUBSET B
  OBVIOUS
<1> QED BY <1>3, <1>4

\* A sum is the sum of its parts, whatever the key by which it is parted.
PartOf(S, key, d) == {x \in S : key[x] = d}
Parts(f, S, key, K) == [d \in K |-> SumOf(f, PartOf(S, key, d))]
HasParts(f, S, key, K) == \A x \in S : key[x] \in K /\ f[x] \in Int

\* A sum is the sum of the sums over the parts of its set.
LEMMA SumOfParts ==
  ASSUME NEW S, IsFiniteSet(S), NEW K, IsFiniteSet(K), NEW key, NEW f, HasParts(f, S, key, K)
  PROVE  SumOf(Parts(f, S, key, K), K) = SumOf(f, S)
<1>0. \A x \in S : key[x] \in K /\ f[x] \in Int
  BY DEF HasParts
<1> USE <1>0
<1> DEFINE Q == {s \in SUBSET S : SumOf(Parts(f, s, key, K), K) = SumOf(f, s)}
<1>1. ASSUME NEW s \in SUBSET S
      PROVE  \A d \in K :
               /\ Parts(f, s, key, K)[d] = SumOf(f, PartOf(s, key, d))
               /\ IsFiniteSet(PartOf(s, key, d))
               /\ Parts(f, s, key, K)[d] \in Int
  <2> SUFFICES ASSUME NEW d \in K
               PROVE  /\ Parts(f, s, key, K)[d] = SumOf(f, PartOf(s, key, d))
                      /\ IsFiniteSet(PartOf(s, key, d))
                      /\ Parts(f, s, key, K)[d] \in Int
    OBVIOUS
  <2>1. Parts(f, s, key, K)[d] = SumOf(f, PartOf(s, key, d))
    BY DEF Parts
  <2>2. PartOf(s, key, d) \subseteq S /\ \A x \in PartOf(s, key, d) : f[x] \in Int
    BY DEF PartOf
  <2>3. IsFiniteSet(PartOf(s, key, d))
    BY Zenon, <2>2, FS_Subset
  <2>4. SumOf(f, PartOf(s, key, d)) \in Int
    BY Zenon, <2>2, <2>3, SumType
  <2> QED BY <2>1, <2>3, <2>4
<1>2. ASSUME NEW s \in SUBSET S, \A x \in s : s \ {x} \in Q PROVE s \in Q
  <2>1. CASE s = {}
    <3>1. ASSUME NEW d \in K PROVE Parts(f, s, key, K)[d] = 0
      <4>1. PartOf(s, key, d) = {}
        BY <2>1 DEF PartOf
      <4> QED BY Zenon, <1>1, <4>1, SumOfNone
    <3>2. SumOf(Parts(f, s, key, K), K) = 0
      BY Zenon, <3>1, SumOfZeros
    <3>3. SumOf(f, s) = 0
      BY <2>1, SumOfNone
    <3> QED BY <3>2, <3>3
  <2>2. CASE s # {}
    <3>1. PICK x \in s : TRUE
      BY <2>2
    <3>2. PICK u \in SUBSET S : u = s \ {x}
      BY Zenon
    <3>3. PICK e \in K : e = key[x]
      OBVIOUS
    <3>4. PICK g, h : g = Parts(f, u, key, K) /\ h = Parts(f, s, key, K)
      OBVIOUS
    <3>5. SumOf(f, s) = f[x] + SumOf(f, u)
      <4>1. IsFiniteSet(s) /\ \A y \in s : f[y] \in Int
        BY FS_Subset
      <4> QED BY Zenon, <3>2, <4>1, SumRemove
    <3>6. ASSUME NEW d \in K, d # e PROVE h[d] = g[d]
      <4>1. PartOf(s, key, d) = PartOf(u, key, d)
        BY <3>2, <3>3, <3>6 DEF PartOf
      <4> QED BY <1>1, <3>4, <4>1
    <3>7. h[e] = f[x] + g[e]
      <4>1. PICK w : w = PartOf(s, key, e)
        OBVIOUS
      <4>2. /\ PartOf(u, key, e) = w \ {x} /\ x \in w
            /\ \A y \in w : f[y] \in Int
        BY <3>2, <3>3, <4>1 DEF PartOf
      <4>3. IsFiniteSet(w)
        BY <1>1, <4>1
      <4>4. SumOf(f, w) = f[x] + SumOf(f, w \ {x})
        BY <4>2, <4>3, SumRemove
      <4> QED BY Zenon, <1>1, <3>4, <4>1, <4>2, <4>4
    <3>8. Replaced(g, h, e, K)
      BY <1>1, <3>4, <3>6 DEF Replaced
    <3>9. SumOf(h, K) = SumOf(g, K) - g[e] + h[e]
      BY <3>8, SumReplace
    <3>10. SumOf(g, K) = SumOf(f, u)
      BY <1>2, <3>2, <3>4
    <3>11. SumOf(g, K) \in Int /\ g[e] \in Int /\ f[x] \in Int
      <4>1. \A d \in K : g[d] \in Int
        BY <1>1, <3>4
      <4>2. SumOf(g, K) \in Int
        BY Zenon, <4>1, SumType
      <4> QED BY <4>1, <4>2
    <3> QED BY <3>4, <3>5, <3>7, <3>9, <3>10, <3>11
  <2> QED BY <2>1, <2>2
<1>3. SUBSET S \subseteq Q
  <2> HIDE DEF Q
  <2> QED BY Zenon, <1>2, InductionOnSubsets
<1>4. S \in SUBSET S
  OBVIOUS
<1> QED BY <1>3, <1>4

-----------------------------------------------------------------------------
(* The loop of compute_transfer_effects_and_interactions *)

\* The local variables of a transfer out of allocations, with destinations in D.
TransferStates(allocations, D) ==
  [k : Nat, surplus : Amount, totalPayouts : Amount,
   newAllocations : [DOMAIN allocations -> Entry(D)],
   exit : [DOMAIN allocations -> Amount], reverts : BOOLEAN]

\* f[i] is what they are after i iterations.
TransferRun(f, h, allocations, indices) ==
  f = [i \in 0..Len(allocations) |->
         IF i = 0 THEN transferStart(h, allocations)
         ELSE transferStep(allocations, indices, f[i - 1], i)]

\* transfer iterates its step.
LEMMA TransferDef ==
  ASSUME NEW h, NEW allocations, NEW indices
  PROVE  compute_transfer_effects_and_interactions(h, allocations, indices)
           = (CHOOSE f : TransferRun(f, h, allocations, indices))[Len(allocations)]
BY Zenon DEF compute_transfer_effects_and_interactions, TransferRun

\* Arithmetic of the contract yields amounts.
LEMMA Wraps ==
  ASSUME NEW a \in Int, NEW b \in Int
  PROVE  Plus(a, b) \in Amount /\ Minus(a, b) \in Amount
BY Uint256Assumption DEF Plus, Minus, Amount

\* It is exact when the result is one.
LEMMA Exact ==
  ASSUME NEW a \in Int, NEW b \in Int
  PROVE  /\ a + b \in Amount => Plus(a, b) = a + b
         /\ a - b \in Amount => Minus(a, b) = a - b
BY Uint256Assumption DEF Plus, Minus, Amount

\* Amounts are natural numbers.
LEMMA AmountIsNat == 0 \in Amount /\ \A a \in Amount : a \in Nat /\ a \in Int /\ a < Uint256
BY Uint256Assumption DEF Amount

\* To take off no more than there is does not wrap around.
LEMMA Reduced ==
  ASSUME NEW a \in Amount, NEW p \in Nat, p <= a
  PROVE  a - p \in Amount /\ Minus(a, p) = a - p
<1>1. a - p \in Amount /\ a \in Int /\ p \in Int
  BY Uint256Assumption DEF Amount
<1> QED BY <1>1, Exact

\* The lesser of two numbers.
LEMMA LesserType ==
  ASSUME NEW a \in Nat, NEW b \in Nat
  PROVE  /\ Lesser(a, b) \in Nat /\ Lesser(a, b) <= a /\ Lesser(a, b) <= b
         /\ Lesser(a, b) = a \/ Lesser(a, b) = b
BY DEF Lesser

\* The fields of an entry.
LEMMA EntryType ==
  ASSUME NEW D, NEW e \in Entry(D)
  PROVE  e.amount \in Amount /\ e.destination \in D
BY SMTT(20) DEF Entry

\* An entry with another amount.
LEMMA EntryWith ==
  ASSUME NEW D, NEW e \in Entry(D), NEW a \in Amount
  PROVE  /\ [e EXCEPT !.amount = a] \in Entry(D)
         /\ [e EXCEPT !.amount = a].amount = a
         /\ [e EXCEPT !.amount = e.amount] = e
         /\ \A b : [[e EXCEPT !.amount = a] EXCEPT !.amount = b] = [e EXCEPT !.amount = b]
BY Zenon DEF Entry

\* To take off nothing changes nothing.
LEMMA EntrySame ==
  ASSUME NEW D, NEW e \in Entry(D)
  PROVE  [e EXCEPT !.amount = e.amount - 0] = e
<1>1. e.amount - 0 = e.amount
  BY EntryType, AmountIsNat
<1> QED BY <1>1 DEF Entry

\* An iteration of transfer keeps the types of its local variables.
LEMMA TransferStepType ==
  ASSUME NEW D, NEW allocations \in Seq(Entry(D)), NEW indices,
         NEW s \in TransferStates(allocations, D), NEW i \in DOMAIN allocations
  PROVE  transferStep(allocations, indices, s, i) \in TransferStates(allocations, D)
<1> DEFINE affords == Lesser(allocations[i].amount, s.surplus)
           chosen == Chosen(indices, s.k, i)
           pays == IF chosen THEN affords ELSE 0
           left == s.newAllocations[i].amount
           t == transferStep(allocations, indices, s, i)
<1>1. /\ s.k \in Nat /\ s.surplus \in Amount /\ s.totalPayouts \in Amount
      /\ s.newAllocations \in [DOMAIN allocations -> Entry(D)]
      /\ s.exit \in [DOMAIN allocations -> Amount] /\ s.reverts \in BOOLEAN
  BY DEF TransferStates
<1>2. allocations[i] \in Entry(D) /\ s.newAllocations[i] \in Entry(D)
  BY <1>1
<1>3. allocations[i].amount \in Amount /\ left \in Amount
  BY <1>2, EntryType
<1>4. affords \in Amount /\ pays \in Amount /\ affords \in Int /\ pays \in Int
  BY <1>1, <1>3, AmountIsNat DEF Lesser
<1>5. /\ t.k = (IF chosen THEN s.k + 1 ELSE s.k)
      /\ t.surplus = Minus(s.surplus, affords)
      /\ t.totalPayouts = Plus(s.totalPayouts, pays)
      /\ t.newAllocations = [s.newAllocations EXCEPT ![i] = [@ EXCEPT !.amount = Minus(left, pays)]]
      /\ t.exit = [s.exit EXCEPT ![i] = pays]
      /\ t.reverts = (s.reverts \/ (chosen /\ isGuarantee(allocations[s.k])))
      /\ t = [k |-> t.k, surplus |-> t.surplus, totalPayouts |-> t.totalPayouts,
              newAllocations |-> t.newAllocations, exit |-> t.exit, reverts |-> t.reverts]
  BY DEF transferStep
<1> HIDE DEF t, affords, pays, chosen
<1>6. t.k \in Nat
  BY <1>1, <1>5
<1>7. t.surplus \in Amount /\ t.totalPayouts \in Amount
  <2>1. s.surplus \in Int /\ s.totalPayouts \in Int
    BY <1>1, AmountIsNat
  <2>2. Minus(s.surplus, affords) \in Amount /\ Plus(s.totalPayouts, pays) \in Amount
    BY Zenon, <1>4, <2>1, Wraps
  <2> QED BY <1>5, <2>2
<1>8. t.newAllocations \in [DOMAIN allocations -> Entry(D)]
  <2>1. Minus(left, pays) \in Amount
    BY Zenon, <1>3, <1>4, Wraps, AmountIsNat
  <2>2. [s.newAllocations[i] EXCEPT !.amount = Minus(left, pays)] \in Entry(D)
    BY Zenon, <1>2, <2>1, EntryWith
  <2> QED BY <1>1, <1>5, <2>2
<1>9. t.exit \in [DOMAIN allocations -> Amount]
  BY <1>1, <1>4, <1>5
<1>10. t.reverts \in BOOLEAN
  BY <1>1, <1>5 DEF isGuarantee
<1> QED BY Zenon, <1>5, <1>6, <1>7, <1>8, <1>9, <1>10 DEF TransferStates, t

\* A run of the loop that the function returns the end of.
ReturnsTransfer(f, h, allocations, indices, D) ==
  /\ f \in [0..Len(allocations) -> TransferStates(allocations, D)]
  /\ f[0] = transferStart(h, allocations)
  /\ \A i \in 1..Len(allocations) : f[i] = transferStep(allocations, indices, f[i - 1], i)
  /\ compute_transfer_effects_and_interactions(h, allocations, indices) = f[Len(allocations)]

\* There is one.
LEMMA TransferRuns ==
  ASSUME NEW D, NEW h \in Amount, NEW allocations \in Seq(Entry(D)), NEW indices
  PROVE  \E f : ReturnsTransfer(f, h, allocations, indices, D)
<1> DEFINE N == Len(allocations)
           X == TransferStates(allocations, D)
           start == transferStart(h, allocations)
           step == [i \in 1..N |-> [s \in X |-> transferStep(allocations, indices, s, i)]]
           Good(f) == f[0] = start /\ \A i \in 1..N : f[i] = transferStep(allocations, indices, f[i - 1], i)
<1>1. N \in Nat /\ DOMAIN allocations = 1..N
  OBVIOUS
<1>2. start \in X
  <2>1. allocations \in [DOMAIN allocations -> Entry(D)]
    OBVIOUS
  <2> QED BY <2>1, AmountIsNat DEF transferStart, NoExit, TransferStates
<1>3. step \in [1..N -> [X -> X]]
  BY <1>1, TransferStepType
<1>4. PICK f : Iterates(f, N, X, start, step)
  <2> HIDE DEF N, X, start, step
  <2> QED BY Zenon, <1>1, <1>2, <1>3, Iteration
<1> HIDE DEF X, start
<1>5. Good(f)
  <2>1. ASSUME NEW i \in 1..N PROVE f[i] = transferStep(allocations, indices, f[i - 1], i)
    <3>1. f[i - 1] \in X
      BY <1>1, <1>4 DEF Iterates
    <3> QED BY <1>4, <3>1 DEF Iterates
  <2> QED BY <1>4, <2>1 DEF Iterates
<1>6. TransferRun(f, h, allocations, indices)
  <2>1. ASSUME NEW i \in 0..N
        PROVE  f[i] = IF i = 0 THEN start ELSE transferStep(allocations, indices, f[i - 1], i)
    BY <1>1, <1>5
  <2>2. f = [i \in 0..N |-> f[i]]
    BY <1>4 DEF Iterates
  <2>3. [i \in 0..N |-> f[i]]
          = [i \in 0..N |-> IF i = 0 THEN start
                            ELSE transferStep(allocations, indices, f[i - 1], i)]
    BY Zenon, <2>1
  <2> QED BY Zenon, <2>2, <2>3 DEF TransferRun, start
<1>7. PICK g : /\ TransferRun(g, h, allocations, indices)
               /\ compute_transfer_effects_and_interactions(h, allocations, indices) = g[N]
  <2>1. TransferRun(CHOOSE r : TransferRun(r, h, allocations, indices), h, allocations, indices)
    BY Zenon, <1>6
  <2> QED BY Zenon, <2>1, TransferDef
<1>8. Good(g)
  <2>1. g = [i \in 0..N |-> IF i = 0 THEN start
                            ELSE transferStep(allocations, indices, g[i - 1], i)]
    BY Zenon, <1>7 DEF TransferRun, start
  <2>2. \A i \in 0..N : g[i] = IF i = 0 THEN start
                               ELSE transferStep(allocations, indices, g[i - 1], i)
    BY Zenon, <2>1
  <2> QED BY <1>1, <2>2
<1>9. Alike(g, f, N)
  BY <1>1, <1>5, <1>8 DEF Alike
<1>10. g[N] = f[N]
  BY Zenon, <1>1, <1>9, EndAlike
<1>11. ReturnsTransfer(f, h, allocations, indices, D)
  BY Zenon, <1>4, <1>5, <1>7, <1>10 DEF ReturnsTransfer, Iterates, X, start
<1> QED BY Zenon, <1>11

\* The amounts of an outcome.
LEMMA AmountsOfType ==
  ASSUME NEW D, NEW allocations \in Seq(Entry(D))
  PROVE  /\ \A j \in DOMAIN allocations : allocations[j] \in Entry(D)
         /\ \A j \in DOMAIN allocations :
              /\ AmountsOf(allocations)[j] = allocations[j].amount
              /\ allocations[j].amount \in Amount
              /\ allocations[j].amount \in Nat
         /\ DOMAIN allocations = 1..Len(allocations) /\ Len(allocations) \in Nat
         /\ IsFiniteSet(DOMAIN allocations)
<1>1. DOMAIN allocations = 1..Len(allocations) /\ Len(allocations) \in Nat
  OBVIOUS
<1>2. \A j \in DOMAIN allocations : allocations[j] \in Entry(D)
  OBVIOUS
<1>3. \A j \in DOMAIN allocations : AmountsOf(allocations)[j] = allocations[j].amount
  BY DEF AmountsOf
<1>4. \A j \in DOMAIN allocations : allocations[j].amount \in Amount
  BY <1>2, EntryType
<1>5. IsFiniteSet(DOMAIN allocations)
  <2>1. 1 \in Int /\ Len(allocations) \in Int
    BY <1>1
  <2> QED BY Zenon, <1>1, <2>1, FS_Interval
<1> QED BY <1>1, <1>2, <1>3, <1>4, <1>5, AmountIsNat

\* The sums of the first entries.
Sums(amounts, N, sum) ==
  /\ sum \in [0..N -> Nat] /\ sum[0] = 0
  /\ \A i \in 1..N : sum[i] = sum[i - 1] + amounts[i]
  /\ \A i \in 0..N : sum[i] = SumOf(amounts, 1..i)

\* The sums of the prefixes of a sequence of amounts exist.
LEMMA SumsOfPrefixes ==
  ASSUME NEW N \in Nat, NEW amounts, \A i \in 1..N : amounts[i] \in Nat
  PROVE  \E sum : Sums(amounts, N, sum)
<1> DEFINE sum == [i \in 0..N |-> SumOf(amounts, 1..i)]
<1>1. ASSUME NEW i \in 0..N PROVE SumOf(amounts, 1..i) \in Nat
  <2>1. IsFiniteSet(1..i) /\ \A x \in 1..i : amounts[x] \in Nat
    <3>1. 1 \in Int /\ i \in Int
      OBVIOUS
    <3>2. IsFiniteSet(1..i)
      BY Zenon, <3>1, FS_Interval
    <3> QED BY <3>2
  <2> QED BY Zenon, <2>1, SumNat
<1>2. SumOf(amounts, 1..0) = 0
  <2>1. 1..0 = {}
    OBVIOUS
  <2> QED BY <2>1, SumOfNone
<1>3. ASSUME NEW i \in 1..N PROVE SumOf(amounts, 1..i) = SumOf(amounts, 1..(i - 1)) + amounts[i]
  <2>1. PICK n \in Nat : n = i - 1
    OBVIOUS
  <2>2. n + 1 = i /\ \A x \in 1..(n + 1) : amounts[x] \in Int
    BY <2>1
  <2>3. SumOf(amounts, 1..(n + 1)) = SumOf(amounts, 1..n) + amounts[n + 1]
    BY Zenon, <2>2, SumPrefix
  <2> QED BY <2>1, <2>2, <2>3
<1>4. sum \in [0..N -> Nat]
  BY <1>1
<1>5. \A i \in 0..N : sum[i] = SumOf(amounts, 1..i)
  OBVIOUS
<1> HIDE DEF sum
<1>6. sum[0] = 0 /\ \A i \in 1..N : sum[i] = sum[i - 1] + amounts[i]
  BY <1>2, <1>3, <1>5
<1>7. Sums(amounts, N, sum)
  BY <1>4, <1>5, <1>6 DEF Sums
<1> QED BY Zenon, <1>7

\* They only grow.
LEMMA SumsGrow ==
  ASSUME NEW N \in Nat, NEW amounts, \A i \in 1..N : amounts[i] \in Nat,
         NEW sum, Sums(amounts, N, sum), NEW n \in 0..N
  PROVE  \A i \in 0..n : sum[i] <= sum[n]
<1> DEFINE Q == {m \in 0..N : \A i \in 0..m : sum[i] <= sum[m]}
<1>1. /\ sum \in [0..N -> Nat]
      /\ \A i \in 1..N : sum[i] = sum[i - 1] + amounts[i]
  BY DEF Sums
<1>2. 0 \in Q
  BY <1>1
<1>3. ASSUME NEW m \in 1..N, m - 1 \in Q PROVE m \in Q
  <2>1. ASSUME NEW i \in 0..m PROVE sum[i] <= sum[m]
    <3>1. CASE i = m
      BY <1>1, <3>1
    <3>2. CASE i # m
      <4>1. sum[i] <= sum[m - 1] /\ i \in 0..N /\ m - 1 \in 0..N
        BY <1>3, <3>2
      <4>2. sum[m] = sum[m - 1] + amounts[m] /\ amounts[m] \in Nat
        BY <1>1
      <4>3. sum[i] \in Nat /\ sum[m - 1] \in Nat
        BY <1>1, <4>1
      <4> QED BY <4>1, <4>2, <4>3
    <3> QED BY <3>1, <3>2
  <2> QED BY <2>1
<1>4. 0..N \subseteq Q
  <2> HIDE DEF Q
  <2> QED BY Zenon, <1>2, <1>3, InductionUpTo
<1> QED BY <1>4

\* What is left of available when the first i entries are served.
Left(amounts, available, i) ==
  IF SumOf(amounts, 1..i) >= available THEN 0 ELSE available - SumOf(amounts, 1..i)

\* An entry's share is the lesser of its amount and what is left, and leaves the rest.
SharesOut(amounts, available, N) ==
  /\ Left(amounts, available, 0) = available
  /\ \A i \in 0..N : Left(amounts, available, i) \in 0..available
  /\ \A i \in 1..N :
       /\ Share(amounts, available, i) = Lesser(amounts[i], Left(amounts, available, i - 1))
       /\ Left(amounts, available, i)
            = Left(amounts, available, i - 1) - Share(amounts, available, i)
       /\ Share(amounts, available, i) \in 0..amounts[i]

\* Serving the entries in order leaves each its Share.
LEMMA LeftStep ==
  ASSUME NEW N \in Nat, NEW amounts, \A i \in 1..N : amounts[i] \in Nat, NEW available \in Nat
  PROVE  SharesOut(amounts, available, N)
<1>1. PICK sum : Sums(amounts, N, sum)
  BY Zenon, SumsOfPrefixes
<1>2. \A i \in 0..N : SumOf(amounts, 1..i) \in Nat
  BY <1>1 DEF Sums
<1>3. ASSUME NEW i \in 1..N PROVE SumOf(amounts, 1..i) = SumOf(amounts, 1..(i - 1)) + amounts[i]
  BY <1>1 DEF Sums
<1>4. ASSUME NEW i \in 0..N PROVE Left(amounts, available, i) \in 0..available
  BY <1>2 DEF Left
<1>5. ASSUME NEW i \in 1..N
      PROVE  /\ Share(amounts, available, i)
                   = Lesser(amounts[i], Left(amounts, available, i - 1))
             /\ Left(amounts, available, i)
                   = Left(amounts, available, i - 1) - Share(amounts, available, i)
             /\ Share(amounts, available, i) \in 0..amounts[i]
  <2>1. PICK b : b = SumOf(amounts, 1..(i - 1))
    OBVIOUS
  <2>2. b \in Nat
    BY <1>2, <2>1
  <2>3. SumOf(amounts, 1..i) = b + amounts[i]
    BY <1>3, <2>1
  <2>4. Left(amounts, available, i - 1) = IF b >= available THEN 0 ELSE available - b
    BY <2>1 DEF Left
  <2>5. Left(amounts, available, i) =
          IF b + amounts[i] >= available THEN 0 ELSE available - (b + amounts[i])
    BY <2>3 DEF Left
  <2>6. Share(amounts, available, i) =
          IF b >= available THEN 0 ELSE Lesser(amounts[i], available - b)
    BY <2>1 DEF Share
  <2>7. amounts[i] \in Nat
    OBVIOUS
  <2> QED BY <2>2, <2>4, <2>5, <2>6, <2>7 DEF Lesser
<1>6. Left(amounts, available, 0) = available
  BY <1>1 DEF Left, Sums
<1> QED BY <1>4, <1>5, <1>6 DEF SharesOut

\* The share of an entry is an amount, and not more than the entry.
LEMMA ShareType ==
  ASSUME NEW D, NEW h \in Amount, NEW source \in Seq(Entry(D)), NEW n \in DOMAIN source
  PROVE  /\ Share(AmountsOf(source), h, n) \in Amount
         /\ Share(AmountsOf(source), h, n) <= source[n].amount
<1>1. SharesOut(AmountsOf(source), h, Len(source))
  <2>1. Len(source) \in Nat /\ h \in Nat /\ \A i \in 1..Len(source) : AmountsOf(source)[i] \in Nat
    BY AmountsOfType, AmountIsNat
  <2> QED BY Zenon, <2>1, LeftStep
<1>2. Share(AmountsOf(source), h, n) \in 0..AmountsOf(source)[n]
  BY <1>1, AmountsOfType DEF SharesOut
<1>3. AmountsOf(source)[n] = source[n].amount /\ source[n].amount \in Amount
  BY AmountsOfType
<1> QED BY <1>2, <1>3, Uint256Assumption DEF Amount

\* Increasing indices are increasing throughout.
LEMMA Increasing ==
  ASSUME NEW indices \in Seq(Nat \ {0}), IncreasingIndices(indices),
         NEW m \in 1..Len(indices), NEW n \in 1..Len(indices), m < n
  PROVE  indices[m] < indices[n]
<1> DEFINE L == Len(indices)
           Q == {x \in 0..L : m < x => indices[m] < indices[x]}
<1>1. L \in Nat /\ \A i \in 1..L : indices[i] \in Nat
  OBVIOUS
<1>2. 0 \in Q
  BY <1>1
<1>3. ASSUME NEW x \in 1..L, x - 1 \in Q PROVE x \in Q
  <2>1. ASSUME m < x PROVE indices[m] < indices[x]
    <3>1. x - 1 \in 1..(L - 1) /\ (x - 1) + 1 = x
      BY <1>1, <2>1
    <3>2. indices[x - 1] < indices[x]
      BY <3>1 DEF IncreasingIndices
    <3>3. m = x - 1 \/ indices[m] < indices[x - 1]
      BY <1>3, <2>1, <3>1
    <3> QED BY <1>1, <3>1, <3>2, <3>3
  <2> QED BY <2>1
<1>4. 0..L \subseteq Q
  <2> HIDE DEF L, Q
  <2> QED BY Zenon, <1>1, <1>2, <1>3, InductionUpTo
<1>5. n \in Q
  BY <1>4
<1> QED BY <1>5

\* k is the next of the indices that are asked for after the first i entries.
Next_k(indices, k, i) ==
  indices # << >> => /\ k \in 1..(Len(indices) + 1)
                     /\ \A m \in 1..Len(indices) : indices[m] <= i <=> m < k

\* Then it decides whether the next entry is asked for.
LEMMA ChosenIsPaidIn ==
  ASSUME NEW indices \in Seq(Nat \ {0}), IncreasingIndices(indices), NEW k \in Nat, NEW i \in Nat,
         Next_k(indices, k, i)
  PROVE  /\ Chosen(indices, k, i + 1) <=> PaidIn(indices, i + 1)
         /\ Next_k(indices, IF Chosen(indices, k, i + 1) THEN k + 1 ELSE k, i + 1)
<1>1. CASE indices = << >>
  BY <1>1 DEF Chosen, PaidIn, Next_k
<1>2. CASE indices # << >>
  <2> DEFINE L == Len(indices)
  <2>1. /\ L \in Nat /\ \A m \in 1..L : indices[m] \in Nat
        /\ k \in 1..(L + 1) /\ \A m \in 1..L : indices[m] <= i <=> m < k
        /\ DOMAIN indices = 1..L
    BY <1>2 DEF Next_k
  <2>2. \A m, n \in 1..L : m < n => indices[m] < indices[n]
    BY Increasing
  <2>3. Chosen(indices, k, i + 1) <=> k <= L /\ indices[k] = i + 1
    BY <1>2 DEF Chosen
  <2>4. PaidIn(indices, i + 1) <=> \E m \in 1..L : indices[m] = i + 1
    BY Zenon, <1>2, <2>1 DEF PaidIn
  <2>5. \A m \in 1..L : indices[m] = i + 1 => m = k
    BY <2>1, <2>2
  <2>6. Chosen(indices, k, i + 1) <=> PaidIn(indices, i + 1)
    BY <2>1, <2>3, <2>4, <2>5
  <2>7. CASE Chosen(indices, k, i + 1)
    <3>1. k \in 1..L /\ indices[k] = i + 1
      BY <2>1, <2>3, <2>7
    <3>2. \A m \in 1..L : indices[m] <= i + 1 <=> m < k + 1
      BY <2>1, <2>2, <3>1
    <3> QED BY <2>6, <2>7, <3>1, <3>2 DEF Next_k
  <2>8. CASE ~Chosen(indices, k, i + 1)
    <3>1. \A m \in 1..L : indices[m] # i + 1
      BY <2>3, <2>5, <2>8
    <3>2. \A m \in 1..L : indices[m] <= i + 1 <=> m < k
      BY <2>1, <3>1
    <3> QED BY <2>1, <2>6, <2>8, <3>2 DEF Next_k
  <2> QED BY <2>7, <2>8
<1> QED BY <1>1, <1>2

\* After i iterations, the entries so far that were asked for are paid their shares.
TransferredTo(h, allocations, indices, s, i) ==
  /\ s.surplus = Left(AmountsOf(allocations), h, i)
  /\ Next_k(indices, s.k, i)
  /\ \A j \in DOMAIN allocations :
       s.exit[j] = IF j <= i /\ PaidIn(indices, j) THEN Share(AmountsOf(allocations), h, j) ELSE 0
  /\ \A j \in DOMAIN allocations :
       s.newAllocations[j] = [allocations[j] EXCEPT !.amount = allocations[j].amount - s.exit[j]]
  /\ s.totalPayouts = SumOf(s.exit, DOMAIN allocations)
  /\ s.totalPayouts + s.surplus <= h

\* Nothing was transferred before the first iteration.
LEMMA TransferredStart ==
  ASSUME NEW D, NEW h \in Amount, NEW allocations \in Seq(Entry(D)), NEW indices \in Seq(Nat \ {0})
  PROVE  TransferredTo(h, allocations, indices, transferStart(h, allocations), 0)
<1> DEFINE s == transferStart(h, allocations)
           N == Len(allocations)
           amounts == AmountsOf(allocations)
<1>1. /\ s.surplus = h /\ s.k = 1 /\ s.totalPayouts = 0 /\ s.newAllocations = allocations
      /\ s.exit = [j \in DOMAIN allocations |-> 0]
  BY DEF transferStart, NoExit
<1>2. N \in Nat /\ DOMAIN allocations = 1..N /\ h \in Nat
  BY AmountsOfType, AmountIsNat
<1>3. Left(amounts, h, 0) = h
  <2>1. \A j \in 1..N : amounts[j] \in Nat
    BY <1>2, AmountsOfType
  <2> HIDE DEF N, amounts
  <2>2. SharesOut(amounts, h, N)
    BY Zenon, <1>2, <2>1, LeftStep
  <2> QED BY Zenon, <2>2 DEF SharesOut
<1>4. Next_k(indices, 1, 0)
  <2>1. ASSUME indices # << >>
        PROVE  1 \in 1..(Len(indices) + 1) /\ \A m \in 1..Len(indices) : indices[m] <= 0 <=> m < 1
    OBVIOUS
  <2> QED BY <2>1 DEF Next_k
<1>5. ASSUME NEW j \in DOMAIN allocations
      PROVE  allocations[j] = [allocations[j] EXCEPT !.amount = allocations[j].amount - 0]
  <2>1. allocations[j] \in Entry(D) /\ allocations[j].amount \in Nat
    BY AmountsOfType
  <2> QED BY <2>1 DEF Entry
<1>6. SumOf([j \in DOMAIN allocations |-> 0], DOMAIN allocations) = 0
  <2> DEFINE z == [j \in DOMAIN allocations |-> 0]
  <2>1. \A j \in DOMAIN allocations : z[j] = 0
    OBVIOUS
  <2> HIDE DEF z
  <2>2. SumOf(z, DOMAIN allocations) = 0
    BY Zenon, <2>1, AmountsOfType, SumOfZeros
  <2> QED BY <2>2 DEF z
<1>7. \A j \in DOMAIN allocations : s.exit[j] = 0
  BY <1>1
<1>8. \A j \in DOMAIN allocations :
        s.newAllocations[j] = [allocations[j] EXCEPT !.amount = allocations[j].amount - s.exit[j]]
  BY <1>1, <1>5, <1>7
<1>9. s.totalPayouts = SumOf(s.exit, DOMAIN allocations) /\ s.totalPayouts + s.surplus <= h
  BY <1>1, <1>2, <1>6
<1>10. \A j \in DOMAIN allocations : ~(j <= 0)
  BY <1>2
<1> HIDE DEF s
<1>11. TransferredTo(h, allocations, indices, s, 0)
  BY <1>1, <1>3, <1>4, <1>7, <1>8, <1>9, <1>10 DEF TransferredTo
<1> QED BY <1>11 DEF s

\* What an iteration does when nothing wraps around.
TransfersEntry(allocations, s, i, chosen, affords, pays, t) ==
  /\ affords \in Nat /\ pays = (IF chosen THEN affords ELSE 0)
  /\ t.k = (IF chosen THEN s.k + 1 ELSE s.k)
  /\ t.surplus = s.surplus - affords
  /\ t.totalPayouts = s.totalPayouts + pays
  /\ \A j \in DOMAIN allocations :
       /\ t.exit[j] = IF j = i THEN pays ELSE s.exit[j]
       /\ t.newAllocations[j] =
            IF j = i THEN [allocations[i] EXCEPT !.amount = allocations[i].amount - pays]
            ELSE s.newAllocations[j]

\* An iteration of transfer pays one more entry its share, if it is asked for.
LEMMA TransferredStep ==
  ASSUME NEW D, NEW h \in Amount, NEW allocations \in Seq(Entry(D)),
         NEW indices \in Seq(Nat \ {0}), IncreasingIndices(indices),
         NEW s \in TransferStates(allocations, D), NEW i \in DOMAIN allocations,
         TransferredTo(h, allocations, indices, s, i - 1)
  PROVE  /\ TransferredTo(h, allocations, indices, transferStep(allocations, indices, s, i), i)
         /\ TransfersEntry(allocations, s, i, Chosen(indices, s.k, i),
              Lesser(allocations[i].amount, s.surplus),
              IF Chosen(indices, s.k, i) THEN Lesser(allocations[i].amount, s.surplus) ELSE 0,
              transferStep(allocations, indices, s, i))
<1> DEFINE S == DOMAIN allocations
           N == Len(allocations)
           amounts == AmountsOf(allocations)
           share == Share(amounts, h, i)
           affords == Lesser(allocations[i].amount, s.surplus)
           chosen == Chosen(indices, s.k, i)
           pays == IF chosen THEN affords ELSE 0
           t == transferStep(allocations, indices, s, i)
<1>1. /\ s.k \in Nat /\ s.surplus \in Nat /\ s.totalPayouts \in Nat
      /\ s.surplus \in Amount /\ s.totalPayouts \in Amount
      /\ s.newAllocations \in [S -> Entry(D)] /\ s.exit \in [S -> Amount]
      /\ h \in Nat /\ h < Uint256
  BY AmountIsNat DEF TransferStates
<1>2. /\ S = 1..N /\ N \in Nat /\ i \in 1..N /\ IsFiniteSet(S)
      /\ \A j \in 1..N : amounts[j] = allocations[j].amount /\ amounts[j] \in Nat
      /\ allocations[i] \in Entry(D) /\ allocations[i].amount \in Amount
  BY AmountsOfType
<1>3. /\ s.surplus = Left(amounts, h, i - 1)
      /\ Next_k(indices, s.k, i - 1)
      /\ \A j \in S : s.exit[j] = IF j <= i - 1 /\ PaidIn(indices, j) THEN Share(amounts, h, j) ELSE 0
      /\ \A j \in S : s.newAllocations[j] =
                        [allocations[j] EXCEPT !.amount = allocations[j].amount - s.exit[j]]
      /\ s.totalPayouts = SumOf(s.exit, S)
      /\ s.totalPayouts + s.surplus <= h
  BY DEF TransferredTo
<1>4. /\ share = Lesser(amounts[i], Left(amounts, h, i - 1))
      /\ Left(amounts, h, i) = Left(amounts, h, i - 1) - share
      /\ share \in 0..amounts[i]
  <2>1. \A j \in 1..N : amounts[j] \in Nat
    BY <1>2
  <2>2. SharesOut(amounts, h, N)
    <3> HIDE DEF N, amounts
    <3> QED BY Zenon, <1>1, <1>2, <2>1, LeftStep
  <2> HIDE DEF amounts
  <2> QED BY <1>2, <2>2 DEF SharesOut, share
<1>5. affords = share
  BY <1>2, <1>3, <1>4
<1>6. /\ chosen <=> PaidIn(indices, i)
      /\ Next_k(indices, IF chosen THEN s.k + 1 ELSE s.k, i)
  <2>1. i - 1 \in Nat /\ (i - 1) + 1 = i
    BY <1>2
  <2>2. PICK p \in Nat : p = i - 1 /\ p + 1 = i
    BY <2>1
  <2>3. Next_k(indices, s.k, p)
    BY <1>3, <2>2
  <2>4. /\ Chosen(indices, s.k, p + 1) <=> PaidIn(indices, p + 1)
        /\ Next_k(indices, IF Chosen(indices, s.k, p + 1) THEN s.k + 1 ELSE s.k, p + 1)
    BY Zenon, <1>1, <2>3, ChosenIsPaidIn
  <2> QED BY <2>2, <2>4
<1>7. s.exit[i] = 0 /\ s.newAllocations[i] = allocations[i]
  <2>1. s.exit[i] = 0
    BY <1>2, <1>3
  <2>2. s.newAllocations[i] = [allocations[i] EXCEPT !.amount = allocations[i].amount]
    BY <1>2, <1>3, <2>1
  <2> QED BY <1>2, <2>1, <2>2 DEF Entry
<1>8. /\ t.k = (IF chosen THEN s.k + 1 ELSE s.k)
      /\ t.surplus = Minus(s.surplus, affords)
      /\ t.totalPayouts = Plus(s.totalPayouts, pays)
      /\ t.newAllocations = [s.newAllocations EXCEPT ![i] =
                               [@ EXCEPT !.amount = Minus(s.newAllocations[i].amount, pays)]]
      /\ t.exit = [s.exit EXCEPT ![i] = pays]
  BY DEF transferStep
<1>d. pays = (IF chosen THEN affords ELSE 0)
  OBVIOUS
<1> HIDE DEF t, affords, chosen, share
<1>9. pays = (IF PaidIn(indices, i) THEN share ELSE 0) /\ pays \in Nat /\ pays <= share
      /\ share \in Nat /\ share <= s.surplus /\ share <= amounts[i]
  <2>1. share \in Nat /\ share <= amounts[i] /\ share <= s.surplus
    BY <1>1, <1>2, <1>3, <1>4 DEF Lesser
  <2> QED BY <1>5, <1>6, <2>1
<1> HIDE DEF pays
<1>10. t.surplus = s.surplus - share /\ t.surplus = Left(amounts, h, i)
  <2>1. Minus(s.surplus, share) = s.surplus - share
    BY <1>1, <1>9, Reduced
  <2> QED BY <1>3, <1>4, <1>5, <1>8, <2>1
<1>11. t.totalPayouts = s.totalPayouts + pays /\ t.totalPayouts + t.surplus <= h
  <2>1. s.totalPayouts + pays \in Nat /\ (s.totalPayouts + pays) + (s.surplus - share) <= h
    BY <1>1, <1>3, <1>9
  <2>2. s.totalPayouts + pays \in Amount
    BY <1>1, <1>9, <2>1, Uint256Assumption DEF Amount
  <2>3. Plus(s.totalPayouts, pays) = s.totalPayouts + pays
    BY <1>1, <1>9, <2>2, Exact
  <2> QED BY <1>8, <1>10, <2>1, <2>3
<1>12. \A j \in S : t.exit[j] = IF j = i THEN pays ELSE s.exit[j]
  BY <1>1, <1>8
<1>13. t.totalPayouts = SumOf(t.exit, S)
  <2>1. \A j \in S : s.exit[j] \in Int /\ t.exit[j] \in Int
    <3>1. \A j \in S : s.exit[j] \in Int
      BY Zenon, <1>1, AmountIsNat
    <3> QED BY <1>9, <1>12, <3>1
  <2>2. \A j \in S : j # i => t.exit[j] = s.exit[j]
    BY <1>12
  <2>3. SumOf(t.exit, S) = SumOf(s.exit, S) - s.exit[i] + t.exit[i]
    <3> HIDE DEF S
    <3>1. i \in S /\ IsFiniteSet(S)
      BY <1>2 DEF S
    <3>2. Replaced(s.exit, t.exit, i, S)
      BY <2>1, <2>2 DEF Replaced
    <3> QED BY ZenonT(30), <3>1, <3>2, SumReplace
  <2>4. t.exit[i] = pays
    BY <1>12
  <2> HIDE DEF S
  <2> QED BY <1>1, <1>3, <1>7, <1>9, <1>11, <2>3, <2>4
<1>14. ASSUME NEW j \in S
       PROVE  t.newAllocations[j] = [allocations[j] EXCEPT !.amount = allocations[j].amount - t.exit[j]]
  <2>1. CASE j = i
    <3>1. pays <= allocations[i].amount
      BY <1>2, <1>9
    <3>2. Minus(allocations[i].amount, pays) = allocations[i].amount - pays
      BY <1>2, <1>9, <3>1, Reduced
    <3>3. t.newAllocations[i] = [allocations[i] EXCEPT !.amount = allocations[i].amount - pays]
      BY <1>1, <1>7, <1>8, <3>2
    <3>4. t.exit[i] = pays
      BY <1>12
    <3> QED BY <2>1, <3>3, <3>4
  <2>2. CASE j # i
    <3>1. t.newAllocations[j] = s.newAllocations[j] /\ t.exit[j] = s.exit[j]
      BY <1>1, <1>8, <1>12, <2>2
    <3> QED BY <1>3, <3>1
  <2> QED BY <2>1, <2>2
<1>15. ASSUME NEW j \in S
       PROVE  t.exit[j] = IF j <= i /\ PaidIn(indices, j) THEN Share(amounts, h, j) ELSE 0
  <2>1. CASE j = i
    BY <1>2, <1>9, <1>12, <2>1 DEF share
  <2>2. CASE j # i
    <3>1. j <= i <=> j <= i - 1
      BY <1>2, <2>2
    <3> QED BY <1>3, <1>12, <2>2, <3>1
  <2> QED BY <2>1, <2>2
<1>16. Next_k(indices, t.k, i)
  BY <1>6, <1>8
<1> HIDE DEF amounts, S
<1>17. TransferredTo(h, allocations, indices, t, i)
  BY Zenon, <1>10, <1>11, <1>13, <1>14, <1>15, <1>16 DEF TransferredTo, amounts, S
<1>18. TransfersEntry(allocations, s, i, chosen, affords, pays, t)
  <2>1. \A j \in S : j # i => t.newAllocations[j] = s.newAllocations[j]
    BY <1>1, <1>8 DEF S
  <2>2. i \in S /\ t.exit[i] = pays
    BY <1>2, <1>12 DEF S
  <2>3. t.newAllocations[i] = [allocations[i] EXCEPT !.amount = allocations[i].amount - pays]
    BY <1>14, <2>2
  <2> QED BY <1>5, <1>8, <1>9, <1>d, <1>10, <1>11, <1>12, <2>1, <2>3 DEF TransfersEntry, S
<1> QED BY Zenon, <1>17, <1>18 DEF t, chosen, affords, pays

\* All states of the loop are as TransferredTo says.
LEMMA TransferredAlong ==
  ASSUME NEW D, NEW h \in Amount, NEW allocations \in Seq(Entry(D)),
         NEW indices \in Seq(Nat \ {0}), IncreasingIndices(indices),
         NEW f, ReturnsTransfer(f, h, allocations, indices, D)
  PROVE  \A i \in 0..Len(allocations) :
           /\ f[i] \in TransferStates(allocations, D)
           /\ TransferredTo(h, allocations, indices, f[i], i)
<1> DEFINE N == Len(allocations)
           X == TransferStates(allocations, D)
           T(s, i) == TransferredTo(h, allocations, indices, s, i)
           Q == {i \in 0..N : T(f[i], i)}
<1>1. N \in Nat /\ DOMAIN allocations = 1..N
  OBVIOUS
<1>2. /\ f \in [0..N -> X]
      /\ f[0] = transferStart(h, allocations)
      /\ \A i \in 1..N : f[i] = transferStep(allocations, indices, f[i - 1], i)
  BY DEF ReturnsTransfer
<1>3. 0 \in Q
  BY <1>1, <1>2, TransferredStart
<1>4. ASSUME NEW i \in 1..N, i - 1 \in Q PROVE i \in Q
  <2>1. f[i - 1] \in X /\ i \in DOMAIN allocations /\ T(f[i - 1], i - 1)
    BY Zenon, <1>1, <1>2, <1>4
  <2>2. T(transferStep(allocations, indices, f[i - 1], i), i)
    BY Zenon, <2>1, TransferredStep
  <2> QED BY <1>2, <2>2
<1>5. 0..N \subseteq Q
  <2> HIDE DEF N, Q
  <2> QED BY Zenon, <1>1, <1>3, <1>4, InductionUpTo
<1> QED BY <1>2, <1>5

\* What a transfer computes, for any holdings, outcome and increasing indices.
LEMMA TransferResult ==
  ASSUME NEW D, NEW h \in Amount, NEW allocations \in Seq(Entry(D)),
         NEW indices \in Seq(Nat \ {0}), IncreasingIndices(indices)
  PROVE  LET r == compute_transfer_effects_and_interactions(h, allocations, indices)
         IN  /\ r \in TransferStates(allocations, D)
             /\ TransferredTo(h, allocations, indices, r, Len(allocations))
<1>1. PICK f : ReturnsTransfer(f, h, allocations, indices, D)
  BY Zenon, TransferRuns
<1>2. \A i \in 0..Len(allocations) :
        /\ f[i] \in TransferStates(allocations, D)
        /\ TransferredTo(h, allocations, indices, f[i], i)
  BY Zenon, <1>1, TransferredAlong
<1>3. Len(allocations) \in 0..Len(allocations)
  OBVIOUS
<1> QED BY Zenon, <1>1, <1>2, <1>3 DEF ReturnsTransfer

-----------------------------------------------------------------------------
(* The loops of compute_claim_effects_and_interactions *)

\* Min of a set of numbers.
LEMMA MinIsLeast ==
  ASSUME NEW S \in SUBSET Nat, S # {}
  PROVE  Min(S) \in S /\ \A x \in S : Min(S) <= x
BY Zenon, LeastNumber DEF Min

\* left[i] is what the source has after its first i entries.
SurplusRun(left, h, source, n) ==
  left = [i \in 0..(n - 1) |->
            IF i = 0 THEN h ELSE Minus(left[i - 1], Lesser(source[i].amount, left[i - 1]))]

\* sourceSurplus iterates its step.
LEMMA SurplusDef ==
  ASSUME NEW h, NEW source, NEW n
  PROVE  sourceSurplus(h, source, n) = (CHOOSE left : SurplusRun(left, h, source, n))[n - 1]
BY Zenon DEF sourceSurplus, SurplusRun

\* It is what Left says.
LEMMA SurplusResult ==
  ASSUME NEW D, NEW h \in Amount, NEW source \in Seq(Entry(D)), NEW n \in DOMAIN source
  PROVE  /\ sourceSurplus(h, source, n) = Left(AmountsOf(source), h, n - 1)
         /\ sourceSurplus(h, source, n) \in Amount /\ sourceSurplus(h, source, n) <= h
<1> DEFINE N == n - 1
           amounts == AmountsOf(source)
           f == [i \in 0..N |-> Left(amounts, h, i)]
<1>1. /\ N \in Nat /\ n \in 1..Len(source) /\ h \in Nat /\ h < Uint256
      /\ \A i \in 1..N : amounts[i] = source[i].amount /\ amounts[i] \in Nat
  BY AmountsOfType, AmountIsNat
<1>2. /\ Left(amounts, h, 0) = h
      /\ \A i \in 0..N : Left(amounts, h, i) \in 0..h
      /\ \A i \in 1..N :
           /\ Share(amounts, h, i) = Lesser(amounts[i], Left(amounts, h, i - 1))
           /\ Left(amounts, h, i) = Left(amounts, h, i - 1) - Share(amounts, h, i)
  <2>1. \A i \in 1..N : amounts[i] \in Nat
    BY <1>1
  <2> HIDE DEF N, amounts
  <2>2. SharesOut(amounts, h, N)
    BY Zenon, <1>1, <2>1, LeftStep
  <2> QED BY Zenon, <2>2 DEF SharesOut
<1> HIDE DEF amounts
<1>3. ASSUME NEW i \in 1..N
      PROVE  Left(amounts, h, i) =
               Minus(Left(amounts, h, i - 1), Lesser(source[i].amount, Left(amounts, h, i - 1)))
  <2>1. PICK x \in Nat : x = Left(amounts, h, i - 1) /\ x <= h
    BY <1>1, <1>2
  <2>2. PICK y \in Nat : y = Lesser(source[i].amount, x) /\ y <= x
    BY Zenon, <1>1, <2>1, LesserType
  <2>3. x \in Amount
    BY <1>1, <2>1, Uint256Assumption DEF Amount
  <2>4. Minus(x, y) = x - y
    BY <2>2, <2>3, Reduced
  <2> QED BY <1>1, <1>2, <2>1, <2>2, <2>4
<1>4. SurplusRun(f, h, source, n)
  <2>1. ASSUME NEW i \in 0..N
        PROVE  f[i] = IF i = 0 THEN h ELSE Minus(f[i - 1], Lesser(source[i].amount, f[i - 1]))
    <3>1. CASE i = 0
      BY <1>2, <3>1
    <3>2. CASE i # 0
      <4>1. i \in 1..N /\ i - 1 \in 0..N
        BY <1>1, <3>2
      <4>2. f[i] = Left(amounts, h, i) /\ f[i - 1] = Left(amounts, h, i - 1)
        BY <4>1
      <4> HIDE DEF f
      <4> QED BY <1>3, <3>2, <4>1, <4>2
    <3> QED BY <3>1, <3>2
  <2>2. f = [i \in 0..N |-> f[i]]
    OBVIOUS
  <2> HIDE DEF f
  <2>3. [i \in 0..N |-> f[i]] =
          [i \in 0..N |-> IF i = 0 THEN h ELSE Minus(f[i - 1], Lesser(source[i].amount, f[i - 1]))]
    BY Zenon, <2>1
  <2> QED BY Zenon, <2>2, <2>3 DEF SurplusRun
<1>5. PICK g : SurplusRun(g, h, source, n) /\ sourceSurplus(h, source, n) = g[N]
  <2>1. SurplusRun(CHOOSE r : SurplusRun(r, h, source, n), h, source, n)
    BY Zenon, <1>4
  <2> QED BY Zenon, <2>1, SurplusDef
<1>6. \A i \in 0..N :
        /\ f[i] = IF i = 0 THEN h ELSE Minus(f[i - 1], Lesser(source[i].amount, f[i - 1]))
        /\ g[i] = IF i = 0 THEN h ELSE Minus(g[i - 1], Lesser(source[i].amount, g[i - 1]))
  <2> HIDE DEF f
  <2> QED BY Zenon, <1>4, <1>5 DEF SurplusRun
<1>7. g[N] = f[N]
  <2> HIDE DEF f
  <2> HIDE DEF N
  <2>1. Alike(g, f, N)
    <3>1. g[0] = f[0]
      BY <1>1, <1>6
    <3>2. ASSUME NEW i \in 1..N, g[i - 1] = f[i - 1] PROVE g[i] = f[i]
      <4>1. i \in 0..N /\ i # 0
        BY <1>1
      <4> QED BY <1>6, <3>2, <4>1
    <3> QED BY Zenon, <3>1, <3>2 DEF Alike
  <2> QED BY Zenon, <1>1, <2>1, EndAlike
<1>8. f[N] = Left(amounts, h, N) /\ Left(amounts, h, N) \in 0..h
  BY <1>1, <1>2
<1>9. \A x \in 0..h : x \in Amount /\ x <= h
  BY <1>1, Uint256Assumption DEF Amount
<1> QED BY <1>5, <1>7, <1>8, <1>9 DEF amounts

\* The local variables of a claim for target, with destinations in D.
ClaimStates(target, D) ==
  [k : Nat, surplus : Amount, totalPayouts : Amount, guaranteed : Amount,
   newAllocations : [DOMAIN target -> Entry(D)], exit : [DOMAIN target -> Amount]]

\* f[j] is what they are after j iterations.
ClaimRun(f, h, source, target, n, indices) ==
  f = [j \in 0..Len(source[n].metadata) |->
         IF j = 0 THEN claimStart(h, source, target, n)
         ELSE claimStep(target, indices, f[j - 1], source[n].metadata[j])]

\* claim iterates its step.
LEMMA ClaimDef ==
  ASSUME NEW h, NEW source, NEW target, NEW n, NEW indices
  PROVE  compute_claim_effects_and_interactions(h, source, target, n, indices)
           = (CHOOSE f : ClaimRun(f, h, source, target, n, indices))[Len(source[n].metadata)]
BY Zenon DEF compute_claim_effects_and_interactions, ClaimRun

\* The fields of what claimFor returns.
ClaimsEntry(target, s, i, chosen, affords, pays, t) ==
  /\ affords \in Nat /\ affords <= target[i].amount /\ affords <= s.surplus
  /\ pays \in Nat /\ pays <= affords
  /\ t.k = (IF chosen THEN s.k + 1 ELSE s.k)
  /\ t.surplus = s.surplus - affords
  /\ t.totalPayouts = Plus(s.totalPayouts, pays)
  /\ t.guaranteed = Minus(s.guaranteed, pays)
  /\ t.newAllocations = [s.newAllocations EXCEPT ![i] =
       [@ EXCEPT !.amount = Minus(s.newAllocations[i].amount, pays)]]
  /\ t.exit = (IF chosen THEN [s.exit EXCEPT ![i] = affords] ELSE s.exit)

\* What claimFor does to each local variable, with subtractions that do not wrap around.
LEMMA ClaimForFields ==
  ASSUME NEW D, NEW target \in Seq(Entry(D)), NEW indices,
         NEW s \in ClaimStates(target, D), NEW i \in DOMAIN target
  PROVE  /\ ClaimsEntry(target, s, i, Chosen(indices, s.k, i), Lesser(target[i].amount, s.surplus),
                        IF Chosen(indices, s.k, i) THEN Lesser(target[i].amount, s.surplus) ELSE 0,
                        claimFor(target, indices, s, i))
         /\ claimFor(target, indices, s, i) \in ClaimStates(target, D)
<1> DEFINE affords == Lesser(target[i].amount, s.surplus)
           chosen == Chosen(indices, s.k, i)
           pays == IF chosen THEN affords ELSE 0
           t == claimFor(target, indices, s, i)
           left == s.newAllocations[i].amount
<1>1. /\ s.k \in Nat /\ s.surplus \in Amount /\ s.totalPayouts \in Amount
      /\ s.guaranteed \in Amount
      /\ s.newAllocations \in [DOMAIN target -> Entry(D)]
      /\ s.exit \in [DOMAIN target -> Amount]
  BY DEF ClaimStates
<1>2. target[i] \in Entry(D) /\ s.newAllocations[i] \in Entry(D)
  BY <1>1
<1>3. target[i].amount \in Amount /\ left \in Amount
  BY <1>2, EntryType
<1>4. /\ affords \in Amount /\ affords \in Nat
      /\ affords <= target[i].amount /\ affords <= s.surplus
  BY <1>1, <1>3, AmountIsNat DEF Lesser
<1>5. /\ t.k = (IF chosen THEN s.k + 1 ELSE s.k)
      /\ t.surplus = Minus(s.surplus, affords)
      /\ t.totalPayouts = Plus(s.totalPayouts, pays)
      /\ t.guaranteed = Minus(s.guaranteed, pays)
      /\ t.newAllocations = [s.newAllocations EXCEPT ![i] = [@ EXCEPT !.amount = Minus(left, pays)]]
      /\ t.exit = (IF chosen THEN [s.exit EXCEPT ![i] = affords] ELSE s.exit)
      /\ t = [k |-> t.k, surplus |-> t.surplus, totalPayouts |-> t.totalPayouts,
              guaranteed |-> t.guaranteed, newAllocations |-> t.newAllocations, exit |-> t.exit]
  BY DEF claimFor
<1> HIDE DEF t, affords, chosen
<1>6. pays \in Nat /\ pays <= affords
  BY <1>4
<1> HIDE DEF pays
<1>7. t.surplus = s.surplus - affords /\ t.surplus \in Amount
  BY <1>1, <1>4, <1>5, Reduced
<1>8. t.k \in Nat
  BY <1>1, <1>5
<1>9. t.totalPayouts \in Amount /\ t.guaranteed \in Amount
  <2>1. s.totalPayouts \in Int /\ s.guaranteed \in Int /\ pays \in Int
    BY <1>1, <1>6, AmountIsNat
  <2>2. Plus(s.totalPayouts, pays) \in Amount /\ Minus(s.guaranteed, pays) \in Amount
    BY Zenon, <2>1, Wraps
  <2> QED BY <1>5, <2>2
<1>10. t.newAllocations \in [DOMAIN target -> Entry(D)]
  <2>1. left \in Int /\ pays \in Int
    BY <1>3, <1>6, AmountIsNat
  <2>2. Minus(left, pays) \in Amount
    BY Zenon, <2>1, Wraps
  <2>3. [s.newAllocations[i] EXCEPT !.amount = Minus(left, pays)] \in Entry(D)
    BY Zenon, <1>2, <2>2, EntryWith
  <2> QED BY <1>1, <1>5, <2>3
<1>11. t.exit \in [DOMAIN target -> Amount]
  BY <1>1, <1>4, <1>5
<1>12. t \in ClaimStates(target, D)
  BY Zenon, <1>5, <1>7, <1>8, <1>9, <1>10, <1>11 DEF ClaimStates
<1>13. ClaimsEntry(target, s, i, chosen, affords, pays, t)
  BY <1>4, <1>5, <1>6, <1>7 DEF ClaimsEntry
<1> QED BY Zenon, <1>12, <1>13 DEF t, affords, chosen, pays

\* The entry that a claim pays for destination d.
EntriesFor(target, d) == {i \in DOMAIN target : target[i].destination = d}

\* The first entry for a destination is an entry for it.
LEMMA FirstFor ==
  ASSUME NEW D, NEW target \in Seq(Entry(D)), NEW d, EntriesFor(target, d) # {}
  PROVE  /\ Min(EntriesFor(target, d)) \in DOMAIN target
         /\ target[Min(EntriesFor(target, d))].destination = d
<1>1. EntriesFor(target, d) \in SUBSET Nat
  BY AmountsOfType DEF EntriesFor
<1>2. Min(EntriesFor(target, d)) \in EntriesFor(target, d)
  BY Zenon, <1>1, MinIsLeast
<1> QED BY Zenon, <1>2 DEF EntriesFor

\* An iteration of claim keeps the types of its local variables.
LEMMA ClaimStepType ==
  ASSUME NEW D, NEW target \in Seq(Entry(D)), NEW indices,
         NEW s \in ClaimStates(target, D), NEW d
  PROVE  claimStep(target, indices, s, d) \in ClaimStates(target, D)
<1> DEFINE entries == EntriesFor(target, d)
<1>1. CASE s.surplus = 0 \/ entries = {}
  BY <1>1 DEF claimStep, EntriesFor
<1>2. CASE ~(s.surplus = 0 \/ entries = {})
  <2>1. claimStep(target, indices, s, d) = claimFor(target, indices, s, Min(entries))
    BY <1>2 DEF claimStep, EntriesFor
  <2>2. PICK i \in DOMAIN target : i = Min(entries)
    BY Zenon, <1>2, FirstFor
  <2>3. claimFor(target, indices, s, i) \in ClaimStates(target, D)
    BY Zenon, ClaimForFields
  <2> QED BY <2>1, <2>2, <2>3
<1> QED BY <1>1, <1>2

\* A run of the loop that the function returns the end of.
ReturnsClaim(f, h, source, target, n, indices, D) ==
  /\ f \in [0..Len(source[n].metadata) -> ClaimStates(target, D)]
  /\ f[0] = claimStart(h, source, target, n)
  /\ \A j \in 1..Len(source[n].metadata) :
       f[j] = claimStep(target, indices, f[j - 1], source[n].metadata[j])
  /\ compute_claim_effects_and_interactions(h, source, target, n, indices)
       = f[Len(source[n].metadata)]

\* A claim starts with the share of the guarantee.
LEMMA ClaimStartType ==
  ASSUME NEW D, NEW h \in Amount, NEW source \in Seq(Entry(D)), NEW target \in Seq(Entry(D)),
         NEW n \in DOMAIN source
  PROVE  /\ claimStart(h, source, target, n) \in ClaimStates(target, D)
         /\ claimStart(h, source, target, n).surplus = Share(AmountsOf(source), h, n)
<1> DEFINE s == claimStart(h, source, target, n)
           amounts == AmountsOf(source)
           x == sourceSurplus(h, source, n)
<1>1. x = Left(amounts, h, n - 1) /\ x \in Amount
  BY SurplusResult
<1>2. /\ source[n].amount \in Amount /\ amounts[n] = source[n].amount
      /\ n \in 1..Len(source) /\ Len(source) \in Nat
  BY AmountsOfType
<1>3. Share(amounts, h, n) = Lesser(amounts[n], Left(amounts, h, n - 1))
  <2>1. SharesOut(amounts, h, Len(source))
    <3>1. Len(source) \in Nat /\ h \in Nat /\ \A i \in 1..Len(source) : amounts[i] \in Nat
      BY AmountsOfType, AmountIsNat
    <3> HIDE DEF amounts
    <3> QED BY Zenon, <3>1, LeftStep
  <2> QED BY <1>2, <2>1 DEF SharesOut
<1> HIDE DEF amounts, x
<1>4. Lesser(x, source[n].amount) = Share(amounts, h, n) /\ Lesser(x, source[n].amount) \in Amount
  BY <1>1, <1>2, <1>3, AmountIsNat DEF Lesser
<1>5. target \in [DOMAIN target -> Entry(D)] /\ NoExit(target) \in [DOMAIN target -> Amount]
  BY AmountIsNat DEF NoExit
<1>6. s = [k |-> 1, surplus |-> Lesser(x, source[n].amount), totalPayouts |-> 0,
           guaranteed |-> source[n].amount, newAllocations |-> target, exit |-> NoExit(target)]
  BY DEF claimStart, x
<1>7. s.surplus = Share(amounts, h, n)
  BY <1>4, <1>6
<1>8. s \in ClaimStates(target, D)
  BY <1>2, <1>4, <1>5, <1>6, AmountIsNat DEF ClaimStates
<1> QED BY <1>7, <1>8 DEF amounts

\* There is such a run.
LEMMA ClaimRuns ==
  ASSUME NEW D, NEW h \in Amount, NEW source \in Seq(Entry(D)), NEW target \in Seq(Entry(D)),
         NEW n \in DOMAIN source, NEW indices
  PROVE  \E f : ReturnsClaim(f, h, source, target, n, indices, D)
<1> DEFINE m == source[n].metadata
           N == Len(m)
           X == ClaimStates(target, D)
           start == claimStart(h, source, target, n)
           step == [j \in 1..N |-> [s \in X |-> claimStep(target, indices, s, m[j])]]
           Good(f) == f[0] = start /\ \A j \in 1..N : f[j] = claimStep(target, indices, f[j - 1], m[j])
<1>1. N \in Nat
  <2>1. source[n] \in Entry(D)
    OBVIOUS
  <2>2. m \in Seq(D)
    BY <2>1 DEF Entry
  <2> QED BY <2>2
<1> HIDE DEF m
<1>2. start \in X
  BY ClaimStartType
<1>3. step \in [1..N -> [X -> X]]
  BY ClaimStepType
<1> HIDE DEF X, start
<1>4. PICK f : Iterates(f, N, X, start, step)
  <2> HIDE DEF N, step
  <2> QED BY Zenon, <1>1, <1>2, <1>3, Iteration
<1>5. Good(f)
  <2>1. ASSUME NEW j \in 1..N PROVE f[j] = claimStep(target, indices, f[j - 1], m[j])
    <3>1. f[j - 1] \in X
      BY SMTT(20), <1>1, <1>4 DEF Iterates
    <3> QED BY <1>4, <3>1 DEF Iterates
  <2> QED BY <1>4, <2>1 DEF Iterates
<1>6. ClaimRun(f, h, source, target, n, indices)
  <2>1. ASSUME NEW j \in 0..N
        PROVE  f[j] = IF j = 0 THEN start ELSE claimStep(target, indices, f[j - 1], m[j])
    BY <1>1, <1>5
  <2>2. f = [j \in 0..N |-> f[j]]
    BY <1>4 DEF Iterates
  <2>3. [j \in 0..N |-> f[j]]
          = [j \in 0..N |-> IF j = 0 THEN start ELSE claimStep(target, indices, f[j - 1], m[j])]
    BY Zenon, <2>1
  <2> QED BY Zenon, <2>2, <2>3 DEF ClaimRun, start, m
<1>7. PICK g : /\ ClaimRun(g, h, source, target, n, indices)
               /\ compute_claim_effects_and_interactions(h, source, target, n, indices) = g[N]
  <2>1. ClaimRun(CHOOSE r : ClaimRun(r, h, source, target, n, indices),
                 h, source, target, n, indices)
    BY Zenon, <1>6
  <2> QED BY Zenon, <2>1, ClaimDef DEF m
<1>8. Good(g)
  <2>1. g = [j \in 0..N |-> IF j = 0 THEN start ELSE claimStep(target, indices, g[j - 1], m[j])]
    BY Zenon, <1>7 DEF ClaimRun, start, m
  <2>2. \A j \in 0..N : g[j] = IF j = 0 THEN start ELSE claimStep(target, indices, g[j - 1], m[j])
    BY Zenon, <2>1
  <2> QED BY <1>1, <2>2
<1>9. Alike(g, f, N)
  BY <1>1, <1>5, <1>8 DEF Alike
<1>10. g[N] = f[N]
  BY Zenon, <1>1, <1>9, EndAlike
<1>11. ReturnsClaim(f, h, source, target, n, indices, D)
  BY Zenon, <1>4, <1>5, <1>7, <1>10 DEF ReturnsClaim, Iterates, X, start, m
<1> QED BY Zenon, <1>11

\* What the target allocates to the destinations of a guarantee: to each, the amount of
\* its first entry.
FirstAmounts(guarantee, target) ==
  [j \in DOMAIN guarantee.metadata |->
     IF EntriesFor(target, guarantee.metadata[j]) = {} THEN 0
     ELSE target[Min(EntriesFor(target, guarantee.metadata[j]))].amount]

Injective(m) == \A j, l \in DOMAIN m : m[j] = m[l] => j = l

\* After j iterations, the first j destinations of the guarantee are served, each from
\* its first entry, and paid when they were asked for.
ClaimedTo(available, guarantee, target, indices, s, j) ==
  LET m == guarantee.metadata
      amounts == FirstAmounts(guarantee, target)
  IN  /\ s.surplus = Left(amounts, available, j)
      /\ s.totalPayouts + s.surplus <= available
      /\ s.totalPayouts = SumOf(s.exit, DOMAIN target)
      /\ s.guaranteed = guarantee.amount - s.totalPayouts
      /\ \A i \in DOMAIN target :
           /\ s.newAllocations[i] = [target[i] EXCEPT !.amount = target[i].amount - s.exit[i]]
           /\ s.exit[i] <= target[i].amount
           /\ (\A l \in 1..j : m[l] # target[i].destination) => s.exit[i] = 0
      /\ \A l \in 1..j : EntriesFor(target, m[l]) # {} =>
           \/ s.exit[Min(EntriesFor(target, m[l]))] = Share(amounts, available, l)
           \/ indices # << >> /\ s.exit[Min(EntriesFor(target, m[l]))] = 0

\* The amounts that a guarantee may pay.
LEMMA FirstAmountsType ==
  ASSUME NEW D, NEW guarantee \in Entry(D), NEW target \in Seq(Entry(D))
  PROVE  /\ DOMAIN guarantee.metadata = 1..Len(guarantee.metadata)
         /\ Len(guarantee.metadata) \in Nat
         /\ \A j \in 1..Len(guarantee.metadata) : FirstAmounts(guarantee, target)[j] \in Nat
<1> DEFINE m == guarantee.metadata
<1>1. m \in Seq(D)
  BY DEF Entry
<1>2. DOMAIN m = 1..Len(m) /\ Len(m) \in Nat
  BY <1>1
<1> HIDE DEF m
<1>3. ASSUME NEW j \in 1..Len(m) PROVE FirstAmounts(guarantee, target)[j] \in Nat
  <2>1. CASE EntriesFor(target, m[j]) = {}
    BY <1>2, <2>1 DEF FirstAmounts, m
  <2>2. CASE EntriesFor(target, m[j]) # {}
    <3>1. Min(EntriesFor(target, m[j])) \in DOMAIN target
      BY Zenon, <2>2, FirstFor
    <3>2. target[Min(EntriesFor(target, m[j]))].amount \in Nat
      BY <3>1, AmountsOfType
    <3> QED BY <1>2, <2>2, <3>2 DEF FirstAmounts, m
  <2> QED BY <2>1, <2>2
<1> QED BY <1>2, <1>3 DEF m

\* Nothing was claimed before the first iteration.
LEMMA ClaimedStart ==
  ASSUME NEW D, NEW h \in Amount, NEW source \in Seq(Entry(D)), NEW target \in Seq(Entry(D)),
         NEW n \in DOMAIN source, NEW indices
  PROVE  ClaimedTo(Share(AmountsOf(source), h, n), source[n], target, indices,
                   claimStart(h, source, target, n), 0)
<1> DEFINE s == claimStart(h, source, target, n)
           available == Share(AmountsOf(source), h, n)
           amounts == FirstAmounts(source[n], target)
<1>1. /\ s.surplus = available /\ s.totalPayouts = 0 /\ s.newAllocations = target
      /\ s.guaranteed = source[n].amount /\ s.exit = [i \in DOMAIN target |-> 0]
  BY Zenon, ClaimStartType DEF claimStart, NoExit
<1>2. source[n] \in Entry(D) /\ source[n].amount \in Nat /\ available \in Nat
  <2>1. s \in ClaimStates(target, D)
    BY ClaimStartType
  <2>2. s.surplus \in Nat
    BY <2>1, AmountIsNat DEF ClaimStates
  <2> QED BY <1>1, <2>2, AmountsOfType
<1> HIDE DEF s, available
<1>3. Left(amounts, available, 0) = available
  <2>1. SharesOut(amounts, available, Len(source[n].metadata))
    <3>1. /\ Len(source[n].metadata) \in Nat
          /\ \A j \in 1..Len(source[n].metadata) : amounts[j] \in Nat
      BY <1>2, FirstAmountsType
    <3> HIDE DEF amounts
    <3> QED BY Zenon, <1>2, <3>1, LeftStep
  <2> QED BY <2>1 DEF SharesOut
<1>4. s.totalPayouts = SumOf(s.exit, DOMAIN target)
  <2>1. \A i \in DOMAIN target : s.exit[i] = 0
    BY <1>1
  <2>2. SumOf(s.exit, DOMAIN target) = 0
    BY Zenon, <2>1, AmountsOfType, SumOfZeros
  <2> QED BY <1>1, <2>2
<1>5. ASSUME NEW i \in DOMAIN target
      PROVE  /\ s.newAllocations[i] = [target[i] EXCEPT !.amount = target[i].amount - s.exit[i]]
             /\ s.exit[i] <= target[i].amount
             /\ s.exit[i] = 0
  <2>1. s.exit[i] = 0 /\ target[i] \in Entry(D) /\ target[i].amount \in Nat
    BY <1>1, AmountsOfType
  <2>2. target[i] = [target[i] EXCEPT !.amount = target[i].amount - s.exit[i]]
    BY <2>1 DEF Entry
  <2> QED BY <1>1, <2>1, <2>2
<1>6. s.guaranteed = source[n].amount - s.totalPayouts /\ s.totalPayouts + s.surplus <= available
  BY <1>1, <1>2
<1>7. 1..0 = {}
  OBVIOUS
<1>8. ClaimedTo(available, source[n], target, indices, s, 0)
  BY <1>1, <1>3, <1>4, <1>5, <1>6, <1>7 DEF ClaimedTo
<1> QED BY <1>8 DEF s, available

\* The first entries for different destinations of a guarantee are different.
LEMMA FirstsDiffer ==
  ASSUME NEW D, NEW target \in Seq(Entry(D)), NEW m, Injective(m),
         NEW j \in DOMAIN m, NEW l \in DOMAIN m, j # l,
         EntriesFor(target, m[j]) # {}
  PROVE  /\ Min(EntriesFor(target, m[j])) \in DOMAIN target
         /\ target[Min(EntriesFor(target, m[j]))].destination = m[j]
         /\ target[Min(EntriesFor(target, m[j]))].destination # m[l]
<1>1. m[j] # m[l]
  BY DEF Injective
<1>2. /\ Min(EntriesFor(target, m[j])) \in DOMAIN target
      /\ target[Min(EntriesFor(target, m[j]))].destination = m[j]
  BY Zenon, FirstFor
<1> QED BY Zenon, <1>1, <1>2

\* What it does when nothing wraps around.
ClaimsExactly(target, s, i, chosen, affords, pays, t) ==
  /\ affords \in Nat /\ pays = (IF chosen THEN affords ELSE 0)
  /\ s.exit[i] = 0 /\ s.newAllocations[i] = target[i]
  /\ t.k = (IF chosen THEN s.k + 1 ELSE s.k)
  /\ t.surplus = s.surplus - affords
  /\ t.totalPayouts = s.totalPayouts + pays
  /\ t.guaranteed = s.guaranteed - pays
  /\ t.newAllocations =
       [s.newAllocations EXCEPT ![i] = [target[i] EXCEPT !.amount = target[i].amount - pays]]
  /\ t.exit = (IF chosen THEN [s.exit EXCEPT ![i] = affords] ELSE s.exit)

\* An iteration that serves a destination from entry i.
LEMMA ClaimedFor ==
  ASSUME NEW D, NEW available \in Amount, NEW guarantee \in Entry(D),
         available <= guarantee.amount, Injective(guarantee.metadata),
         NEW target \in Seq(Entry(D)), NEW indices, NEW s \in ClaimStates(target, D),
         NEW j \in 1..Len(guarantee.metadata),
         ClaimedTo(available, guarantee, target, indices, s, j - 1),
         EntriesFor(target, guarantee.metadata[j]) # {},
         NEW i, i = Min(EntriesFor(target, guarantee.metadata[j]))
  PROVE  /\ ClaimedTo(available, guarantee, target, indices, claimFor(target, indices, s, i), j)
         /\ i \in DOMAIN target
         /\ ClaimsExactly(target, s, i, Chosen(indices, s.k, i), Lesser(target[i].amount, s.surplus),
              IF Chosen(indices, s.k, i) THEN Lesser(target[i].amount, s.surplus) ELSE 0,
              claimFor(target, indices, s, i))
<1> DEFINE m == guarantee.metadata
           S == DOMAIN target
           amounts == FirstAmounts(guarantee, target)
           share == Share(amounts, available, j)
           chosen == Chosen(indices, s.k, i)
           affords == Lesser(target[i].amount, s.surplus)
           pays == IF chosen THEN affords ELSE 0
           t == claimFor(target, indices, s, i)
<1>1. /\ i \in S /\ target[i].destination = m[j] /\ target[i] \in Entry(D)
      /\ target[i].amount \in Amount /\ target[i].amount \in Nat
  <2>1. i \in S /\ target[i].destination = m[j]
    BY Zenon, FirstFor
  <2> QED BY <2>1, AmountsOfType
<1>2. /\ DOMAIN m = 1..Len(m) /\ Len(m) \in Nat /\ \A l \in 1..Len(m) : amounts[l] \in Nat
      /\ amounts[j] = target[i].amount
  BY Zenon, FirstAmountsType DEF FirstAmounts
<1>3. /\ s.surplus \in Nat /\ s.totalPayouts \in Nat /\ s.guaranteed \in Amount
      /\ s.newAllocations \in [S -> Entry(D)] /\ s.exit \in [S -> Amount]
      /\ available \in Nat /\ available < Uint256
      /\ guarantee.amount \in Nat
  BY AmountIsNat, EntryType DEF ClaimStates
<1>4. /\ s.surplus = Left(amounts, available, j - 1)
      /\ s.totalPayouts + s.surplus <= available
      /\ s.totalPayouts = SumOf(s.exit, S)
      /\ s.guaranteed = guarantee.amount - s.totalPayouts
      /\ \A e \in S :
           /\ s.newAllocations[e] = [target[e] EXCEPT !.amount = target[e].amount - s.exit[e]]
           /\ s.exit[e] <= target[e].amount
           /\ (\A l \in 1..(j - 1) : m[l] # target[e].destination) => s.exit[e] = 0
      /\ \A l \in 1..(j - 1) : EntriesFor(target, m[l]) # {} =>
           \/ s.exit[Min(EntriesFor(target, m[l]))] = Share(amounts, available, l)
           \/ indices # << >> /\ s.exit[Min(EntriesFor(target, m[l]))] = 0
  BY Zenon DEF ClaimedTo
<1>5. /\ share = Lesser(amounts[j], Left(amounts, available, j - 1))
      /\ Left(amounts, available, j) = Left(amounts, available, j - 1) - share
  <2>1. SharesOut(amounts, available, Len(m))
    <3> HIDE DEF amounts, m
    <3> QED BY Zenon, <1>2, <1>3, LeftStep
  <2> QED BY <1>2, <2>1 DEF SharesOut
<1>6. affords = share
  BY <1>2, <1>4, <1>5
<1>7. /\ affords \in Nat /\ affords <= target[i].amount /\ affords <= s.surplus
      /\ pays \in Nat /\ pays <= affords
      /\ t.k = (IF chosen THEN s.k + 1 ELSE s.k)
      /\ t.surplus = s.surplus - affords
      /\ t.totalPayouts = Plus(s.totalPayouts, pays)
      /\ t.guaranteed = Minus(s.guaranteed, pays)
      /\ t.newAllocations = [s.newAllocations EXCEPT ![i] =
           [@ EXCEPT !.amount = Minus(s.newAllocations[i].amount, pays)]]
      /\ t.exit = (IF chosen THEN [s.exit EXCEPT ![i] = affords] ELSE s.exit)
  <2>1. ClaimsEntry(target, s, i, chosen, affords, pays, t)
    BY Zenon, <1>1, ClaimForFields
  <2> HIDE DEF t, chosen, affords, pays
  <2> QED BY <2>1 DEF ClaimsEntry
<1>8. indices = << >> => chosen
  BY DEF Chosen
<1>9. pays = (IF chosen THEN affords ELSE 0)
  OBVIOUS
<1> HIDE DEF t, chosen, affords, pays, share, amounts
<1>10. \A l \in 1..(j - 1) : m[l] # m[j]
  BY <1>2 DEF Injective
<1>11. s.exit[i] = 0 /\ s.newAllocations[i] = target[i]
  <2>1. s.exit[i] = 0
    BY Zenon, <1>1, <1>4, <1>10
  <2>2. s.newAllocations[i] = [target[i] EXCEPT !.amount = target[i].amount]
    BY <1>1, <1>4, <2>1
  <2> QED BY <1>1, <2>1, <2>2 DEF Entry
<1>12. \A e \in S : t.exit[e] = IF e = i THEN pays ELSE s.exit[e]
  BY <1>1, <1>3, <1>7, <1>9, <1>11
<1>a. /\ s.totalPayouts \in Nat /\ s.surplus \in Nat /\ s.guaranteed \in Amount
      /\ affords \in Nat /\ pays \in Nat /\ available \in Nat /\ guarantee.amount \in Nat
      /\ pays <= affords /\ affords <= s.surplus
      /\ s.totalPayouts + s.surplus <= available /\ available < Uint256
      /\ s.guaranteed = guarantee.amount - s.totalPayouts
  BY <1>3, <1>4, <1>7
<1>13. t.totalPayouts = s.totalPayouts + pays /\ t.totalPayouts + t.surplus <= available
  <2>1. (s.totalPayouts + pays) + (s.surplus - affords) <= available
    BY <1>a
  <2>2. s.totalPayouts + pays \in Amount
    BY SMTT(20), <1>a, Uint256Assumption DEF Amount
  <2>3. Plus(s.totalPayouts, pays) = s.totalPayouts + pays
    BY <1>a, <2>2, Exact
  <2>4. t.totalPayouts = Plus(s.totalPayouts, pays) /\ t.surplus = s.surplus - affords
    BY <1>7
  <2> QED BY <2>1, <2>3, <2>4
<1>14. t.guaranteed = guarantee.amount - t.totalPayouts
  <2>1. pays <= s.guaranteed
    BY <1>a
  <2>2. Minus(s.guaranteed, pays) = s.guaranteed - pays
    BY <1>a, <2>1, Reduced
  <2>3. t.guaranteed = Minus(s.guaranteed, pays)
    BY <1>7
  <2> QED BY <1>a, <1>13, <2>2, <2>3
<1>15. t.totalPayouts = SumOf(t.exit, S)
  <2>1. \A e \in S : s.exit[e] \in Int
    BY Zenon, <1>3, AmountIsNat
  <2>2. Replaced(s.exit, t.exit, i, S)
    BY <1>7, <1>12, <2>1 DEF Replaced
  <2>3. IsFiniteSet(S)
    BY AmountsOfType
  <2>5. t.exit[i] = pays /\ i \in S
    BY <1>1, <1>12
  <2> HIDE DEF S
  <2>4. SumOf(t.exit, S) = SumOf(s.exit, S) - s.exit[i] + t.exit[i]
    BY <2>2, <2>3, <2>5, SumReplace
  <2> QED BY <1>3, <1>4, <1>7, <1>11, <1>13, <2>4, <2>5
<1>16. ASSUME NEW e \in S
       PROVE  /\ t.newAllocations[e] = [target[e] EXCEPT !.amount = target[e].amount - t.exit[e]]
              /\ t.exit[e] <= target[e].amount
              /\ (\A l \in 1..j : m[l] # target[e].destination) => t.exit[e] = 0
  <2>1. CASE e = i
    <3>1. pays <= target[i].amount
      BY <1>1, <1>7
    <3>2. Minus(target[i].amount, pays) = target[i].amount - pays
      BY <1>1, <1>7, <3>1, Reduced
    <3>3. t.newAllocations[i] = [target[i] EXCEPT !.amount = target[i].amount - pays]
      BY <1>1, <1>3, <1>7, <1>11, <3>2
    <3>4. t.exit[i] = pays /\ j \in 1..j
      BY <1>1, <1>12
    <3> QED BY <1>1, <2>1, <3>1, <3>3, <3>4
  <2>2. CASE e # i
    <3>1. t.newAllocations[e] = s.newAllocations[e] /\ t.exit[e] = s.exit[e]
      BY SMTT(20), <1>3, <1>7, <1>12, <2>2
    <3>2. \A l \in 1..(j - 1) : l \in 1..j
      OBVIOUS
    <3> QED BY <1>4, <3>1, <3>2
  <2> QED BY <2>1, <2>2
<1>17. ASSUME NEW l \in 1..j, EntriesFor(target, m[l]) # {}
       PROVE  \/ t.exit[Min(EntriesFor(target, m[l]))] = Share(amounts, available, l)
              \/ indices # << >> /\ t.exit[Min(EntriesFor(target, m[l]))] = 0
  <2>1. CASE l = j
    <3>1. t.exit[i] = pays
      BY <1>1, <1>12
    <3> QED BY <1>6, <1>8, <1>9, <2>1, <3>1 DEF share
  <2>2. CASE l # j
    <3>1. l \in 1..(j - 1) /\ l \in DOMAIN m /\ j \in DOMAIN m
      BY <1>2, <2>2
    <3>2. PICK e \in S : e = Min(EntriesFor(target, m[l])) /\ target[e].destination # m[j]
      BY <1>17, <2>2, <3>1, FirstsDiffer
    <3>3. t.exit[e] = s.exit[e]
      BY <1>1, <1>12, <3>2
    <3> QED BY Zenon, <1>4, <1>17, <3>1, <3>2, <3>3
  <2> QED BY <2>1, <2>2
<1>18. t.surplus = Left(amounts, available, j)
  BY <1>4, <1>5, <1>6, <1>7
<1> HIDE DEF m, S
<1>19. ClaimedTo(available, guarantee, target, indices, t, j)
  BY Zenon, <1>13, <1>14, <1>15, <1>16, <1>17, <1>18 DEF ClaimedTo, amounts, m, S
<1>20. ClaimsExactly(target, s, i, chosen, affords, pays, t)
  <2>1. pays <= target[i].amount
    BY <1>1, <1>7
  <2>2. Minus(target[i].amount, pays) = target[i].amount - pays
    BY <1>1, <1>7, <2>1, Reduced
  <2>3. pays <= s.guaranteed
    BY <1>3, <1>4, <1>7
  <2>4. Minus(s.guaranteed, pays) = s.guaranteed - pays
    BY <1>3, <1>7, <2>3, Reduced
  <2>5. t.newAllocations =
          [s.newAllocations EXCEPT ![i] = [target[i] EXCEPT !.amount = target[i].amount - pays]]
    BY <1>1, <1>3, <1>7, <1>11, <2>2 DEF S
  <2> QED BY Zenon, <1>7, <1>9, <1>11, <1>13, <2>4, <2>5 DEF ClaimsExactly
<1> QED BY Zenon, <1>1, <1>19, <1>20 DEF t, chosen, affords, pays, S

\* An iteration that serves nobody.
LEMMA ClaimedNothing ==
  ASSUME NEW D, NEW available \in Amount, NEW guarantee \in Entry(D),
         Injective(guarantee.metadata),
         NEW target \in Seq(Entry(D)), NEW indices, NEW s \in ClaimStates(target, D),
         NEW j \in 1..Len(guarantee.metadata),
         ClaimedTo(available, guarantee, target, indices, s, j - 1),
         s.surplus = 0 \/ EntriesFor(target, guarantee.metadata[j]) = {}
  PROVE  ClaimedTo(available, guarantee, target, indices, s, j)
<1> DEFINE m == guarantee.metadata
           amounts == FirstAmounts(guarantee, target)
           share == Share(amounts, available, j)
<1>1. /\ DOMAIN m = 1..Len(m) /\ Len(m) \in Nat /\ \A l \in 1..Len(m) : amounts[l] \in Nat
      /\ EntriesFor(target, m[j]) = {} => amounts[j] = 0
      /\ available \in Nat
  BY Zenon, FirstAmountsType, AmountIsNat DEF FirstAmounts
<1>2. /\ s.surplus = Left(amounts, available, j - 1)
      /\ \A e \in DOMAIN target :
           (\A l \in 1..(j - 1) : m[l] # target[e].destination) => s.exit[e] = 0
      /\ \A l \in 1..(j - 1) : EntriesFor(target, m[l]) # {} =>
           \/ s.exit[Min(EntriesFor(target, m[l]))] = Share(amounts, available, l)
           \/ indices # << >> /\ s.exit[Min(EntriesFor(target, m[l]))] = 0
  BY Zenon DEF ClaimedTo
<1>3. /\ share = Lesser(amounts[j], Left(amounts, available, j - 1))
      /\ Left(amounts, available, j) = Left(amounts, available, j - 1) - share
      /\ Left(amounts, available, j - 1) \in Nat
  <2>1. SharesOut(amounts, available, Len(m))
    <3> HIDE DEF amounts, m
    <3> QED BY Zenon, <1>1, LeftStep
  <2> QED BY <1>1, <2>1 DEF SharesOut
<1> HIDE DEF amounts, share
<1>4. share = 0 /\ Left(amounts, available, j) = s.surplus
  BY <1>1, <1>2, <1>3 DEF Lesser
<1>5. \A l \in 1..(j - 1) : l \in 1..j /\ m[l] # m[j]
  <2>1. j \in DOMAIN m /\ \A l \in 1..(j - 1) : l \in 1..j /\ l \in DOMAIN m /\ l # j
    BY <1>1
  <2> QED BY Zenon, <2>1 DEF Injective
<1>6. \A e \in DOMAIN target :
        (\A l \in 1..j : m[l] # target[e].destination) => s.exit[e] = 0
  BY <1>2, <1>5
<1>7. ASSUME NEW l \in 1..j, EntriesFor(target, m[l]) # {}
      PROVE  \/ s.exit[Min(EntriesFor(target, m[l]))] = Share(amounts, available, l)
             \/ indices # << >> /\ s.exit[Min(EntriesFor(target, m[l]))] = 0
  <2>1. CASE l = j
    <3>1. PICK e \in DOMAIN target : e = Min(EntriesFor(target, m[l])) /\ target[e].destination = m[l]
      BY Zenon, <1>7, FirstFor
    <3>2. s.exit[e] = 0
      BY <1>2, <1>5, <2>1, <3>1
    <3> QED BY <1>4, <2>1, <3>1, <3>2 DEF share
  <2>2. CASE l # j
    <3>1. l \in 1..(j - 1)
      BY <1>1, <2>2
    <3> QED BY Zenon, <1>2, <1>7, <3>1
  <2> QED BY <2>1, <2>2
<1> HIDE DEF m
<1> QED BY Zenon, <1>4, <1>6, <1>7 DEF ClaimedTo, amounts, m

\* An iteration of claim pays one more destination its share of the guarantee.
LEMMA ClaimedStep ==
  ASSUME NEW D, NEW available \in Amount, NEW guarantee \in Entry(D),
         available <= guarantee.amount, Injective(guarantee.metadata),
         NEW target \in Seq(Entry(D)), NEW indices, NEW s \in ClaimStates(target, D),
         NEW j \in 1..Len(guarantee.metadata),
         ClaimedTo(available, guarantee, target, indices, s, j - 1)
  PROVE  ClaimedTo(available, guarantee, target, indices,
                   claimStep(target, indices, s, guarantee.metadata[j]), j)
<1> DEFINE d == guarantee.metadata[j]
<1>1. CASE s.surplus = 0 \/ EntriesFor(target, d) = {}
  <2>1. claimStep(target, indices, s, d) = s
    BY <1>1 DEF claimStep, EntriesFor
  <2>2. ClaimedTo(available, guarantee, target, indices, s, j)
    BY Zenon, <1>1, ClaimedNothing
  <2> QED BY <2>1, <2>2
<1>2. CASE ~(s.surplus = 0 \/ EntriesFor(target, d) = {})
  <2>1. claimStep(target, indices, s, d) = claimFor(target, indices, s, Min(EntriesFor(target, d)))
    BY <1>2 DEF claimStep, EntriesFor
  <2>2. EntriesFor(target, d) # {}
    BY <1>2
  <2>3. PICK i : i = Min(EntriesFor(target, d))
    OBVIOUS
  <2>4. ClaimedTo(available, guarantee, target, indices, claimFor(target, indices, s, i), j)
    BY Zenon, <2>2, <2>3, ClaimedFor
  <2> QED BY <2>1, <2>3, <2>4
<1> QED BY <1>1, <1>2

\* All states of the loop are as ClaimedTo says.
LEMMA ClaimedAlong ==
  ASSUME NEW D, NEW h \in Amount, NEW source \in Seq(Entry(D)), NEW target \in Seq(Entry(D)),
         NEW n \in DOMAIN source, Injective(source[n].metadata), NEW indices,
         NEW f, ReturnsClaim(f, h, source, target, n, indices, D)
  PROVE  \A j \in 0..Len(source[n].metadata) :
           /\ f[j] \in ClaimStates(target, D)
           /\ ClaimedTo(Share(AmountsOf(source), h, n), source[n], target, indices, f[j], j)
<1> DEFINE m == source[n].metadata
           N == Len(m)
           available == Share(AmountsOf(source), h, n)
           C(s, j) == ClaimedTo(available, source[n], target, indices, s, j)
           Q == {j \in 0..N : C(f[j], j)}
<1>1. /\ f \in [0..N -> ClaimStates(target, D)]
      /\ f[0] = claimStart(h, source, target, n)
      /\ \A j \in 1..N : f[j] = claimStep(target, indices, f[j - 1], m[j])
  BY DEF ReturnsClaim
<1>2. source[n] \in Entry(D) /\ N \in Nat
  <2>1. source[n] \in Entry(D)
    OBVIOUS
  <2> QED BY <2>1, FirstAmountsType
<1>3. available \in Amount /\ available <= source[n].amount
  BY ShareType
<1>4. 0 \in Q
  <2>1. C(f[0], 0)
    BY <1>1, ClaimedStart
  <2> QED BY <1>2, <2>1
<1> HIDE DEF available
<1>5. ASSUME NEW j \in 1..N, j - 1 \in Q PROVE j \in Q
  <2>1. f[j - 1] \in ClaimStates(target, D) /\ C(f[j - 1], j - 1)
    BY Zenon, <1>1, <1>2, <1>5
  <2>2. C(claimStep(target, indices, f[j - 1], m[j]), j)
    BY Zenon, <1>2, <1>3, <2>1, ClaimedStep
  <2> QED BY <1>1, <2>2
<1>6. 0..N \subseteq Q
  <2> HIDE DEF N, Q
  <2> QED BY Zenon, <1>2, <1>4, <1>5, InductionUpTo
<1> QED BY <1>1, <1>6 DEF available

\* What a claim computes, for any holdings, outcomes and indices.
LEMMA ClaimResult ==
  ASSUME NEW D, NEW h \in Amount, NEW source \in Seq(Entry(D)), NEW target \in Seq(Entry(D)),
         NEW n \in DOMAIN source, Injective(source[n].metadata), NEW indices
  PROVE  LET r == compute_claim_effects_and_interactions(h, source, target, n, indices)
         IN  /\ r \in ClaimStates(target, D)
             /\ ClaimedTo(Share(AmountsOf(source), h, n), source[n], target, indices, r,
                          Len(source[n].metadata))
<1>1. PICK f : ReturnsClaim(f, h, source, target, n, indices, D)
  BY Zenon, ClaimRuns
<1>2. \A j \in 0..Len(source[n].metadata) :
        /\ f[j] \in ClaimStates(target, D)
        /\ ClaimedTo(Share(AmountsOf(source), h, n), source[n], target, indices, f[j], j)
  BY Zenon, <1>1, ClaimedAlong
<1>3. Len(source[n].metadata) \in 0..Len(source[n].metadata)
  <2>1. source[n] \in Entry(D)
    OBVIOUS
  <2> QED BY <2>1, FirstAmountsType
<1> QED BY Zenon, <1>1, <1>2, <1>3 DEF ReturnsClaim

-----------------------------------------------------------------------------
(* The copies of the algorithms in TypeScript *)

EmulatedClaimRun(f, h, source, target, n, indices) ==
  f = [j \in 0..Len(source[n].metadata) |->
         IF j = 0 THEN claimStart(h, source, target, n)
         ELSE emulatedClaimStep(indices, f[j - 1], source[n].metadata[j])]

\* The copy of claim iterates its step.
LEMMA EmulatedClaimDef ==
  ASSUME NEW h, NEW source, NEW target, NEW n, NEW indices
  PROVE  computeClaimEffectsAndInteractions(h, source, target, n, indices)
           = (CHOOSE f : EmulatedClaimRun(f, h, source, target, n, indices))[Len(source[n].metadata)]
BY Zenon DEF computeClaimEffectsAndInteractions, EmulatedClaimRun

\* An iteration of the copy does what an iteration of the contract does: the first entry
\* for a destination is untouched before it is its turn.
LEMMA EmulatedClaimStep ==
  ASSUME NEW D, NEW available \in Amount, NEW guarantee \in Entry(D),
         available <= guarantee.amount, Injective(guarantee.metadata),
         NEW target \in Seq(Entry(D)), NEW indices, NEW s \in ClaimStates(target, D),
         NEW j \in 1..Len(guarantee.metadata),
         ClaimedTo(available, guarantee, target, indices, s, j - 1)
  PROVE  emulatedClaimStep(indices, s, guarantee.metadata[j])
           = claimStep(target, indices, s, guarantee.metadata[j])
<1> DEFINE d == guarantee.metadata[j]
           left == s.newAllocations
<1>1. /\ left \in [DOMAIN target -> Entry(D)] /\ s.exit \in [DOMAIN target -> Amount]
      /\ s = [k |-> s.k, surplus |-> s.surplus, totalPayouts |-> s.totalPayouts,
              guaranteed |-> s.guaranteed, newAllocations |-> s.newAllocations, exit |-> s.exit]
      /\ s.k \in Nat /\ s.totalPayouts \in Nat /\ s.guaranteed \in Nat /\ s.surplus \in Nat
  BY AmountIsNat DEF ClaimStates
<1>2. EntriesFor(left, d) = EntriesFor(target, d)
  <2>1. \A i \in DOMAIN target : left[i].destination = target[i].destination
    <3> SUFFICES ASSUME NEW i \in DOMAIN target PROVE left[i].destination = target[i].destination
      OBVIOUS
    <3>1. left[i] = [target[i] EXCEPT !.amount = target[i].amount - s.exit[i]]
      BY DEF ClaimedTo
    <3>2. target[i] \in Entry(D)
      OBVIOUS
    <3> QED BY <3>1, <3>2 DEF Entry
  <2> QED BY <1>1, <2>1 DEF EntriesFor
<1> DEFINE i == Min(EntriesFor(target, d))
           affords == Lesser(left[i].amount, s.surplus)
<1>3. CASE s.surplus = 0 \/ EntriesFor(target, d) = {}
  <2>1. claimStep(target, indices, s, d) = s
    BY SMTT(20), <1>3 DEF claimStep, EntriesFor
  <2>2. emulatedClaimStep(indices, s, d) = s
    BY <1>2, <1>3 DEF emulatedClaimStep, EntriesFor
  <2> QED BY <2>1, <2>2
<1>4. CASE ~(s.surplus = 0 \/ EntriesFor(target, d) = {})
  <2> DEFINE chosen == Chosen(indices, s.k, i)
             t == claimFor(target, indices, s, i)
  <2>1. claimStep(target, indices, s, d) = t
    BY <1>4 DEF claimStep, EntriesFor
  <2>2. /\ i \in DOMAIN target
        /\ ClaimsExactly(target, s, i, chosen, Lesser(target[i].amount, s.surplus),
             IF chosen THEN Lesser(target[i].amount, s.surplus) ELSE 0, t)
    <3>1. EntriesFor(target, d) # {}
      BY <1>4
    <3> QED BY Zenon, <3>1, ClaimedFor
  <2>3. emulatedClaimStep(indices, s, d) =
          IF chosen
          THEN [k |-> s.k + 1, surplus |-> s.surplus - affords,
                totalPayouts |-> s.totalPayouts + affords, guaranteed |-> s.guaranteed - affords,
                newAllocations |-> [left EXCEPT ![i].amount = @ - affords],
                exit |-> [s.exit EXCEPT ![i] = @ + affords]]
          ELSE [s EXCEPT !.surplus = @ - affords]
    <3>1. {x \in DOMAIN left : left[x].destination = d} = EntriesFor(target, d)
      BY <1>2 DEF EntriesFor
    <3> QED BY Zenon, <1>4, <3>1 DEF emulatedClaimStep
  <2>4. t = [k |-> t.k, surplus |-> t.surplus, totalPayouts |-> t.totalPayouts,
             guaranteed |-> t.guaranteed, newAllocations |-> t.newAllocations, exit |-> t.exit]
    BY DEF claimFor
  <2> HIDE DEF t, chosen, i
  <2>5. /\ left[i] = target[i] /\ s.exit[i] = 0 /\ affords \in Nat
        /\ t.k = (IF chosen THEN s.k + 1 ELSE s.k)
        /\ t.surplus = s.surplus - affords
        /\ t.totalPayouts = s.totalPayouts + (IF chosen THEN affords ELSE 0)
        /\ t.guaranteed = s.guaranteed - (IF chosen THEN affords ELSE 0)
        /\ t.newAllocations = [left EXCEPT ![i] =
             [target[i] EXCEPT !.amount = target[i].amount - (IF chosen THEN affords ELSE 0)]]
        /\ t.exit = (IF chosen THEN [s.exit EXCEPT ![i] = affords] ELSE s.exit)
    BY <2>2 DEF ClaimsExactly
  <2> HIDE DEF affords
  <2>6. CASE chosen
    <3>0. s.exit[i] + affords = affords
      BY <2>5
    <3>1. [s.exit EXCEPT ![i] = @ + affords] = t.exit
      BY <2>5, <2>6, <3>0
    <3>2. [left EXCEPT ![i].amount = @ - affords] = t.newAllocations
      BY <1>1, <2>2, <2>5, <2>6
    <3> QED BY <2>1, <2>3, <2>4, <2>5, <2>6, <3>1, <3>2
  <2>7. CASE ~chosen
    <3>1. t.newAllocations = left
      <4>1. target[i] \in Entry(D) /\ target[i].amount \in Nat
        BY <2>2, AmountsOfType
      <4>2. [target[i] EXCEPT !.amount = target[i].amount - 0] = target[i]
        BY Zenon, <4>1, EntrySame
      <4> QED BY <1>1, <2>2, <2>5, <2>7, <4>2
    <3>2. t.k = s.k /\ t.totalPayouts = s.totalPayouts /\ t.guaranteed = s.guaranteed
      BY <1>1, <2>5, <2>7
    <3>3. t = [s EXCEPT !.surplus = @ - affords]
      BY <1>1, <2>4, <2>5, <2>7, <3>1, <3>2
    <3> QED BY <2>1, <2>3, <2>7, <3>3
  <2> QED BY <2>6, <2>7
<1> QED BY <1>3, <1>4

\* The copy computes what the contract computes, for any holdings, outcomes and indices.
LEMMA EmulatesClaim ==
  ASSUME NEW D, NEW h \in Amount, NEW source \in Seq(Entry(D)), NEW target \in Seq(Entry(D)),
         NEW n \in DOMAIN source, Injective(source[n].metadata), NEW indices
  PROVE  computeClaimEffectsAndInteractions(h, source, target, n, indices)
           = compute_claim_effects_and_interactions(h, source, target, n, indices)
<1> DEFINE m == source[n].metadata
           N == Len(m)
           start == claimStart(h, source, target, n)
           available == Share(AmountsOf(source), h, n)
<1>1. PICK f : ReturnsClaim(f, h, source, target, n, indices, D)
  BY Zenon, ClaimRuns
<1>2. \A j \in 0..N :
        /\ f[j] \in ClaimStates(target, D)
        /\ ClaimedTo(available, source[n], target, indices, f[j], j)
  BY Zenon, <1>1, ClaimedAlong
<1>3. source[n] \in Entry(D) /\ N \in Nat /\ available \in Amount /\ available <= source[n].amount
  <2>1. source[n] \in Entry(D)
    OBVIOUS
  <2>2. N \in Nat
    BY <2>1, FirstAmountsType
  <2> QED BY <2>1, <2>2, ShareType
<1>4. ASSUME NEW j \in 1..N PROVE f[j] = emulatedClaimStep(indices, f[j - 1], m[j])
  <2>1. f[j - 1] \in ClaimStates(target, D)
        /\ ClaimedTo(available, source[n], target, indices, f[j - 1], j - 1)
    BY <1>2, <1>3
  <2>2. emulatedClaimStep(indices, f[j - 1], m[j]) = claimStep(target, indices, f[j - 1], m[j])
    <3> HIDE DEF available
    <3> QED BY <1>3, <2>1, EmulatedClaimStep
  <2> QED BY <1>1, <2>2 DEF ReturnsClaim
<1>5. /\ f[0] = start
      /\ compute_claim_effects_and_interactions(h, source, target, n, indices) = f[N]
  BY <1>1 DEF ReturnsClaim
<1>f. f = [j \in 0..N |-> f[j]]
  BY <1>1 DEF ReturnsClaim
<1> HIDE DEF m, start, available
<1>6. EmulatedClaimRun(f, h, source, target, n, indices)
  <2>1. ASSUME NEW j \in 0..N
        PROVE  f[j] = IF j = 0 THEN start ELSE emulatedClaimStep(indices, f[j - 1], m[j])
    BY <1>3, <1>4, <1>5
  <2>2. [j \in 0..N |-> f[j]]
          = [j \in 0..N |-> IF j = 0 THEN start ELSE emulatedClaimStep(indices, f[j - 1], m[j])]
    BY Zenon, <2>1
  <2> QED BY Zenon, <1>f, <2>2 DEF EmulatedClaimRun, start, m
<1>7. PICK g : /\ EmulatedClaimRun(g, h, source, target, n, indices)
               /\ computeClaimEffectsAndInteractions(h, source, target, n, indices) = g[N]
  <2>1. EmulatedClaimRun(CHOOSE r : EmulatedClaimRun(r, h, source, target, n, indices),
                         h, source, target, n, indices)
    BY Zenon, <1>6
  <2> QED BY Zenon, <2>1, EmulatedClaimDef DEF m
<1>8. \A j \in 0..N : g[j] = IF j = 0 THEN start ELSE emulatedClaimStep(indices, g[j - 1], m[j])
  BY Zenon, <1>7 DEF EmulatedClaimRun, start, m
<1>9. Alike(g, f, N)
  BY <1>3, <1>4, <1>5, <1>8 DEF Alike
<1>10. g[N] = f[N]
  BY Zenon, <1>3, <1>9, EndAlike
<1> QED BY <1>5, <1>7, <1>10

EmulatedTransferRun(f, h, allocations, indices) ==
  f = [i \in 0..Len(allocations) |->
         IF i = 0 THEN transferStart(h, << >>)
         ELSE emulatedTransferStep(allocations, indices, f[i - 1], i)]

\* The copy of transfer iterates its step.
LEMMA EmulatedTransferDef ==
  ASSUME NEW h, NEW allocations, NEW indices
  PROVE  computeTransferEffectsAndInteractions(h, allocations, indices)
           = (CHOOSE f : EmulatedTransferRun(f, h, allocations, indices))[Len(allocations)]
BY Zenon DEF computeTransferEffectsAndInteractions, EmulatedTransferRun

\* The variables of the copy, which appends to its lists, after i iterations of the
\* contract's loop.
Emulated(s, i) ==
  [k |-> s.k, surplus |-> s.surplus, totalPayouts |-> s.totalPayouts,
   newAllocations |-> [j \in 1..i |-> s.newAllocations[j]],
   exit |-> [j \in 1..i |-> s.exit[j]], reverts |-> FALSE]

Extends(g, f, i, v) == g = [j \in 1..(i + 1) |-> IF j = i + 1 THEN v ELSE f[j]]

\* A sequence is extended by one member.
LEMMA Appended ==
  ASSUME NEW V, NEW i \in Nat, NEW f \in [1..i -> V], NEW v \in V
  PROVE  Extends(Append(f, v), f, i, v)
<1>1. f \in Seq(V) /\ Len(f) = i
  OBVIOUS
<1>2. /\ Append(f, v) \in Seq(V) /\ Len(Append(f, v)) = i + 1
      /\ \A j \in 1..(i + 1) : Append(f, v)[j] = IF j = i + 1 THEN v ELSE f[j]
  BY <1>1
<1>3. Append(f, v) \in [1..(i + 1) -> V]
  BY Zenon, <1>2, LenProperties
<1>4. PICK g : g = Append(f, v)
  BY Zenon
<1>5. g = [j \in 1..(i + 1) |-> g[j]]
  BY Zenon, <1>3, <1>4
<1>6. \A j \in 1..(i + 1) : g[j] = IF j = i + 1 THEN v ELSE f[j]
  BY Zenon, <1>2, <1>4
<1>7. [j \in 1..(i + 1) |-> g[j]] = [j \in 1..(i + 1) |-> IF j = i + 1 THEN v ELSE f[j]]
  BY Zenon, <1>6
<1> QED BY Zenon, <1>4, <1>5, <1>7 DEF Extends

\* An iteration of the copy does what an iteration of the contract does.
LEMMA EmulatedTransferStep ==
  ASSUME NEW D, NEW allocations \in Seq(Entry(D)), NEW indices,
         NEW i \in Nat, NEW s \in TransferStates(allocations, D), NEW t,
         i + 1 \in DOMAIN allocations, t \in TransferStates(allocations, D),
         TransfersEntry(allocations, s, i + 1, Chosen(indices, s.k, i + 1),
           Lesser(allocations[i + 1].amount, s.surplus),
           IF Chosen(indices, s.k, i + 1) THEN Lesser(allocations[i + 1].amount, s.surplus) ELSE 0,
           t)
  PROVE  emulatedTransferStep(allocations, indices, Emulated(s, i), i + 1) = Emulated(t, i + 1)
<1> DEFINE a == allocations[i + 1]
           chosen == Chosen(indices, s.k, i + 1)
           affords == Lesser(a.amount, s.surplus)
           pays == IF chosen THEN affords ELSE 0
           e == Emulated(s, i)
           r == emulatedTransferStep(allocations, indices, e, i + 1)
<1>1. /\ s.k \in Nat /\ s.newAllocations \in [DOMAIN allocations -> Entry(D)]
      /\ s.exit \in [DOMAIN allocations -> Amount] /\ s.totalPayouts \in Nat
  BY AmountIsNat DEF TransferStates
<1>2. /\ e.k = s.k /\ e.surplus = s.surplus /\ e.totalPayouts = s.totalPayouts
      /\ e.newAllocations = [j \in 1..i |-> s.newAllocations[j]]
      /\ e.exit = [j \in 1..i |-> s.exit[j]]
  BY DEF Emulated
<1>3. r = [k |-> e.k + (IF chosen THEN 1 ELSE 0), surplus |-> e.surplus - affords,
           totalPayouts |-> e.totalPayouts + (IF chosen THEN affords ELSE 0),
           newAllocations |-> Append(e.newAllocations,
             [a EXCEPT !.amount = IF chosen THEN @ - affords ELSE @]),
           exit |-> Append(e.exit, IF chosen THEN affords ELSE 0), reverts |-> FALSE]
  BY <1>2 DEF emulatedTransferStep
<1>4. /\ affords \in Nat
      /\ t.k = (IF chosen THEN s.k + 1 ELSE s.k)
      /\ t.surplus = s.surplus - affords
      /\ t.totalPayouts = s.totalPayouts + pays
      /\ \A j \in DOMAIN allocations :
           /\ t.exit[j] = IF j = i + 1 THEN pays ELSE s.exit[j]
           /\ t.newAllocations[j] =
                IF j = i + 1 THEN [a EXCEPT !.amount = a.amount - pays] ELSE s.newAllocations[j]
  BY DEF TransfersEntry
<1>5. a \in Entry(D) /\ 1..(i + 1) \subseteq DOMAIN allocations /\ a.amount \in Nat
  BY AmountsOfType
<1>6. /\ t.newAllocations[i + 1] \in Entry(D) /\ t.exit[i + 1] \in Amount
  BY DEF TransferStates
<1> HIDE DEF e, r, chosen, affords
<1>7. [a EXCEPT !.amount = IF chosen THEN @ - affords ELSE @] = t.newAllocations[i + 1]
  <2>1. (IF chosen THEN a.amount - affords ELSE a.amount) = a.amount - pays
    BY <1>5
  <2>2. [a EXCEPT !.amount = IF chosen THEN @ - affords ELSE @] = [a EXCEPT !.amount = a.amount - pays]
    BY Zenon, <2>1
  <2> HIDE DEF pays, a
  <2> QED BY <1>4, <2>2
<1>8. r.newAllocations = [j \in 1..(i + 1) |-> t.newAllocations[j]]
  <2>1. PICK f \in [1..i -> Entry(D)] : f = e.newAllocations
    BY <1>1, <1>2, <1>5
  <2>2. PICK v \in Entry(D) : v = t.newAllocations[i + 1]
    BY <1>6
  <2>3. Append(f, v) = [j \in 1..(i + 1) |-> IF j = i + 1 THEN v ELSE f[j]]
    <3>1. Extends(Append(f, v), f, i, v)
      BY Zenon, Appended
    <3> QED BY Zenon, <3>1 DEF Extends
  <2>4. r.newAllocations = Append(f, v)
    BY <1>3, <1>7, <2>1, <2>2
  <2>5. \A j \in 1..(i + 1) : t.newAllocations[j] = IF j = i + 1 THEN v ELSE f[j]
    BY <1>2, <1>4, <1>5, <2>1, <2>2
  <2> QED BY Zenon, <2>3, <2>4, <2>5
<1>9. r.exit = [j \in 1..(i + 1) |-> t.exit[j]]
  <2>1. PICK f \in [1..i -> Amount] : f = e.exit
    BY <1>1, <1>2, <1>5
  <2>2. PICK v \in Amount : v = t.exit[i + 1]
    BY <1>6
  <2>3. Append(f, v) = [j \in 1..(i + 1) |-> IF j = i + 1 THEN v ELSE f[j]]
    <3>1. Extends(Append(f, v), f, i, v)
      BY Zenon, Appended
    <3> QED BY Zenon, <3>1 DEF Extends
  <2>4. r.exit = Append(f, v)
    BY <1>3, <1>4, <2>1, <2>2
  <2>5. \A j \in 1..(i + 1) : t.exit[j] = IF j = i + 1 THEN v ELSE f[j]
    BY <1>2, <1>4, <1>5, <2>1, <2>2
  <2> QED BY Zenon, <2>3, <2>4, <2>5
<1>10. /\ r.k = t.k /\ r.surplus = t.surplus /\ r.totalPayouts = t.totalPayouts /\ r.reverts = FALSE
       /\ r = [k |-> r.k, surplus |-> r.surplus, totalPayouts |-> r.totalPayouts,
               newAllocations |-> r.newAllocations, exit |-> r.exit, reverts |-> r.reverts]
  BY <1>1, <1>2, <1>3, <1>4
<1>11. r = Emulated(t, i + 1)
  BY <1>8, <1>9, <1>10 DEF Emulated
<1> QED BY <1>11 DEF e, r

\* The copy computes what the contract computes, for any holdings, outcome and
\* increasing indices, but does not revert.
LEMMA EmulatesTransfer ==
  ASSUME NEW D, NEW h \in Amount, NEW allocations \in Seq(Entry(D)),
         NEW indices \in Seq(Nat \ {0}), IncreasingIndices(indices)
  PROVE  computeTransferEffectsAndInteractions(h, allocations, indices)
           = [compute_transfer_effects_and_interactions(h, allocations, indices)
                EXCEPT !.reverts = FALSE]
<1> DEFINE N == Len(allocations)
           X == TransferStates(allocations, D)
<1>1. PICK f : ReturnsTransfer(f, h, allocations, indices, D)
  BY Zenon, TransferRuns
<1>2. \A i \in 0..N : f[i] \in X /\ TransferredTo(h, allocations, indices, f[i], i)
  BY Zenon, <1>1, TransferredAlong
<1>3. N \in Nat /\ DOMAIN allocations = 1..N
  OBVIOUS
<1> DEFINE g == [i \in 0..N |-> Emulated(f[i], i)]
           start == transferStart(h, << >>)
<1>4. g[0] = start
  <2>1. f[0] = transferStart(h, allocations)
    BY <1>1 DEF ReturnsTransfer
  <2>2. g[0] = [k |-> 1, surplus |-> h, totalPayouts |-> 0,
                newAllocations |-> [j \in 1..0 |-> f[0].newAllocations[j]],
                exit |-> [j \in 1..0 |-> f[0].exit[j]], reverts |-> FALSE]
    <3>1. f[0].k = 1 /\ f[0].surplus = h /\ f[0].totalPayouts = 0
      BY <2>1 DEF transferStart
    <3>2. g[0] = Emulated(f[0], 0)
      BY <1>3
    <3> HIDE DEF g
    <3> QED BY Zenon, <3>1, <3>2 DEF Emulated
  <2>3. start = [k |-> 1, surplus |-> h, totalPayouts |-> 0, newAllocations |-> << >>,
                 exit |-> [j \in DOMAIN << >> |-> 0], reverts |-> FALSE]
    BY DEF transferStart, NoExit
  <2>4. [j \in 1..0 |-> f[0].newAllocations[j]] = << >>
    OBVIOUS
  <2>5. [j \in 1..0 |-> f[0].exit[j]] = [j \in DOMAIN << >> |-> 0]
    OBVIOUS
  <2> QED BY Zenon, <2>2, <2>3, <2>4, <2>5
<1>5. ASSUME NEW i \in 1..N
      PROVE  g[i] = emulatedTransferStep(allocations, indices, g[i - 1], i)
  <2>1. PICK p \in Nat : p = i - 1 /\ p + 1 = i /\ p \in 0..N
    BY <1>3
  <2>2. PICK s \in X : s = f[p] /\ TransferredTo(h, allocations, indices, s, p)
    BY Zenon, <1>2, <2>1
  <2>3. PICK t \in X : t = f[i] /\ t = transferStep(allocations, indices, s, i)
    <3>1. f[i] \in X
      BY <1>2, <1>3
    <3>2. f[i] = transferStep(allocations, indices, f[i - 1], i)
      BY <1>1 DEF ReturnsTransfer
    <3> QED BY SMTT(20), <2>1, <2>2, <3>1, <3>2
  <2>4. TransfersEntry(allocations, s, p + 1, Chosen(indices, s.k, p + 1),
          Lesser(allocations[p + 1].amount, s.surplus),
          IF Chosen(indices, s.k, p + 1) THEN Lesser(allocations[p + 1].amount, s.surplus) ELSE 0,
          t)
    <3>1. i \in DOMAIN allocations /\ TransferredTo(h, allocations, indices, s, i - 1)
      BY <1>3, <2>1, <2>2
    <3>2. TransfersEntry(allocations, s, i, Chosen(indices, s.k, i),
            Lesser(allocations[i].amount, s.surplus),
            IF Chosen(indices, s.k, i) THEN Lesser(allocations[i].amount, s.surplus) ELSE 0,
            transferStep(allocations, indices, s, i))
      BY Zenon, <2>2, <3>1, TransferredStep
    <3> QED BY <2>1, <2>3, <3>2
  <2>5. emulatedTransferStep(allocations, indices, Emulated(s, p), p + 1) = Emulated(t, p + 1)
    <3>1. p + 1 \in DOMAIN allocations
      BY <1>3, <2>1
    <3> QED BY <2>4, <3>1, EmulatedTransferStep
  <2>6. g[i] = Emulated(t, i) /\ g[i - 1] = Emulated(s, p)
    <3>1. i \in 0..N /\ \A j \in 0..N : g[j] = Emulated(f[j], j)
      BY <1>3
    <3> HIDE DEF g
    <3> QED BY Zenon, <2>1, <2>2, <2>3, <3>1
  <2> HIDE DEF g
  <2> QED BY <2>1, <2>5, <2>6
<1>6. g = [i \in 0..N |-> g[i]]
  OBVIOUS
<1>7. g[N] = Emulated(f[N], N) /\ f[N] \in X
  BY <1>2, <1>3
<1> HIDE DEF g, start
<1>8. EmulatedTransferRun(g, h, allocations, indices)
  <2>1. ASSUME NEW i \in 0..N
        PROVE  g[i] = IF i = 0 THEN start
                      ELSE emulatedTransferStep(allocations, indices, g[i - 1], i)
    BY <1>3, <1>4, <1>5
  <2>2. [i \in 0..N |-> g[i]]
          = [i \in 0..N |-> IF i = 0 THEN start
                            ELSE emulatedTransferStep(allocations, indices, g[i - 1], i)]
    BY Zenon, <2>1
  <2> QED BY Zenon, <1>6, <2>2 DEF EmulatedTransferRun, start
<1>9. PICK e : /\ EmulatedTransferRun(e, h, allocations, indices)
               /\ computeTransferEffectsAndInteractions(h, allocations, indices) = e[N]
  <2>1. EmulatedTransferRun(CHOOSE r : EmulatedTransferRun(r, h, allocations, indices),
                            h, allocations, indices)
    BY Zenon, <1>8
  <2> QED BY Zenon, <2>1, EmulatedTransferDef
<1>10. \A i \in 0..N : e[i] = IF i = 0 THEN start
                              ELSE emulatedTransferStep(allocations, indices, e[i - 1], i)
  BY Zenon, <1>9 DEF EmulatedTransferRun, start
<1>11. Alike(e, g, N)
  BY <1>3, <1>4, <1>5, <1>10 DEF Alike
<1>12. e[N] = g[N]
  BY Zenon, <1>3, <1>11, EndAlike
<1>13. Emulated(f[N], N) = [f[N] EXCEPT !.reverts = FALSE]
  <2>1. PICK s \in X : s = f[N]
    BY <1>7
  <2>2. /\ s.newAllocations = [j \in 1..N |-> s.newAllocations[j]]
        /\ s.exit = [j \in 1..N |-> s.exit[j]]
    BY Zenon, <1>3, <2>1 DEF TransferStates
  <2>3. [s EXCEPT !.reverts = FALSE] =
          [k |-> s.k, surplus |-> s.surplus, totalPayouts |-> s.totalPayouts,
           newAllocations |-> s.newAllocations, exit |-> s.exit, reverts |-> FALSE]
    <3>1. PICK a, b, c, d, x, y :
            s = [k |-> a, surplus |-> b, totalPayouts |-> c, newAllocations |-> d, exit |-> x,
                 reverts |-> y]
      BY DEF TransferStates
    <3>2. PICK q : q = FALSE
      BY Zenon
    <3>3. [s EXCEPT !.reverts = q] =
            [k |-> s.k, surplus |-> s.surplus, totalPayouts |-> s.totalPayouts,
             newAllocations |-> s.newAllocations, exit |-> s.exit, reverts |-> q]
      BY <3>1
    <3> QED BY Zenon, <3>2, <3>3
  <2>4. Emulated(s, N) = [s EXCEPT !.reverts = FALSE]
    BY Zenon, <2>2, <2>3 DEF Emulated
  <2> QED BY <2>1, <2>4
<1>14. compute_transfer_effects_and_interactions(h, allocations, indices) = f[N]
  BY <1>1 DEF ReturnsTransfer
<1> QED BY Zenon, <1>7, <1>9, <1>12, <1>13, <1>14

-----------------------------------------------------------------------------
(* Allocations.Affords *)

AffordsRun(surplus, allocations, funding) ==
  surplus = [i \in 0..Len(allocations) |->
               IF i = 0 THEN funding ELSE surplus[i - 1] - allocations[i].amount]

\* Affords goes through the allocations with what is left.
LEMMA AffordsDef ==
  ASSUME NEW allocations, NEW given, NEW funding
  PROVE  Affords(allocations, given, funding) <=>
           LET surplus == CHOOSE s : AffordsRun(s, allocations, funding)
               equal == {i \in DOMAIN allocations : allocations[i] = given}
           IN  /\ equal # {}
               /\ \A i \in 1..(Min(equal) - 1) : surplus[i] > 0
               /\ surplus[Min(equal) - 1] >= given.amount
BY Zenon DEF Affords, AffordsRun

\* Affords says of an entry that has no equal whether its share is all of it.
LEMMA AffordsShare ==
  ASSUME NEW D, NEW h \in Amount, NEW allocations \in Seq(Entry(D)), NEW i \in DOMAIN allocations,
         allocations[i].amount > 0,
         \A j \in DOMAIN allocations : allocations[j] = allocations[i] => j = i
  PROVE  Affords(allocations, allocations[i], h)
           <=> Share(AmountsOf(allocations), h, i) = allocations[i].amount
<1> DEFINE N == Len(allocations)
           amounts == AmountsOf(allocations)
           a == allocations[i].amount
<1>1. /\ N \in Nat /\ i \in 1..N /\ DOMAIN allocations = 1..N /\ h \in Nat
      /\ \A j \in 1..N : amounts[j] = allocations[j].amount /\ amounts[j] \in Nat
  BY AmountsOfType, AmountIsNat
<1>a. a \in Nat /\ a = amounts[i]
  BY <1>1
<1>2. PICK sum : Sums(amounts, N, sum)
  <2>1. \A j \in 1..N : amounts[j] \in Nat
    BY <1>1
  <2> HIDE DEF N, amounts
  <2> QED BY Zenon, <1>1, <2>1, SumsOfPrefixes
<1> DEFINE f == [j \in 0..N |-> h - sum[j]]
<1>3. AffordsRun(f, allocations, h)
  <2>1. ASSUME NEW j \in 0..N
        PROVE  f[j] = IF j = 0 THEN h ELSE f[j - 1] - allocations[j].amount
    <3>1. CASE j = 0
      BY <1>1, <1>2, <3>1 DEF Sums
    <3>2. CASE j # 0
      <4>1. j \in 1..N /\ j - 1 \in 0..N
        BY <1>1, <3>2
      <4>2. sum[j] = sum[j - 1] + amounts[j] /\ sum[j - 1] \in Nat
        BY <1>2, <4>1 DEF Sums
      <4>3. amounts[j] = allocations[j].amount /\ amounts[j] \in Nat
        BY <1>1, <4>1
      <4>4. f[j] = h - sum[j] /\ f[j - 1] = h - sum[j - 1]
        BY <4>1
      <4> HIDE DEF f, amounts
      <4> QED BY <1>1, <3>2, <4>2, <4>3, <4>4
    <3> QED BY <3>1, <3>2
  <2>2. f = [j \in 0..N |-> f[j]]
    OBVIOUS
  <2> HIDE DEF f
  <2>3. [j \in 0..N |-> f[j]]
          = [j \in 0..N |-> IF j = 0 THEN h ELSE f[j - 1] - allocations[j].amount]
    BY Zenon, <2>1
  <2> QED BY Zenon, <2>2, <2>3 DEF AffordsRun
<1>4. \A j \in 0..N : f[j] = h - sum[j]
  OBVIOUS
<1> HIDE DEF f
<1>5. PICK g : g = CHOOSE s : AffordsRun(s, allocations, h)
  OBVIOUS
<1>6. AffordsRun(g, allocations, h)
  BY Zenon, <1>3, <1>5
<1>7. ASSUME NEW n \in 0..N PROVE g[n] = h - sum[n]
  <2>1. \A j \in 0..N : /\ g[j] = IF j = 0 THEN h ELSE g[j - 1] - allocations[j].amount
                        /\ f[j] = IF j = 0 THEN h ELSE f[j - 1] - allocations[j].amount
    BY Zenon, <1>3, <1>6 DEF AffordsRun
  <2>2. Alike(g, f, n)
    BY <1>1, <2>1 DEF Alike
  <2>3. n \in Nat
    OBVIOUS
  <2>4. g[n] = f[n]
    BY Zenon, <2>2, <2>3, EndAlike
  <2> QED BY <1>4, <2>4
<1>8. {j \in DOMAIN allocations : allocations[j] = allocations[i]} = {i}
  OBVIOUS
<1>9. Min({i}) = i
  <2>1. {i} \in SUBSET Nat /\ {i} # {}
    BY <1>1
  <2> QED BY Zenon, <2>1, MinIsLeast
<1>10. Affords(allocations, allocations[i], h) <=>
         (\A j \in 1..(i - 1) : g[j] > 0) /\ g[i - 1] >= a
  BY Zenon, <1>5, <1>8, <1>9, AffordsDef
<1>11. Share(amounts, h, i) = IF sum[i - 1] >= h THEN 0 ELSE Lesser(a, h - sum[i - 1])
  <2>1. sum[i - 1] = SumOf(amounts, 1..(i - 1))
    BY <1>1, <1>2 DEF Sums
  <2> QED BY <1>1, <2>1 DEF Share
<1>12. /\ sum[i - 1] \in Nat /\ g[i - 1] = h - sum[i - 1]
       /\ \A j \in 1..(i - 1) : sum[j] \in Nat /\ sum[j] <= sum[i - 1] /\ g[j] = h - sum[j]
  <2>1. i - 1 \in 0..N
    BY <1>1
  <2>2. \A j \in 0..(i - 1) : sum[j] <= sum[i - 1]
    <3>1. \A j \in 1..N : amounts[j] \in Nat
      BY <1>1
    <3> HIDE DEF N, amounts
    <3> QED BY Zenon, <1>1, <1>2, <2>1, <3>1, SumsGrow
  <2>3. \A j \in 1..(i - 1) : j \in 0..N /\ j \in 0..(i - 1)
    BY <1>1
  <2> QED BY <1>2, <1>7, <2>1, <2>2, <2>3 DEF Sums
<1> HIDE DEF a, amounts
<1>13. Share(amounts, h, i) = a <=> g[i - 1] >= a
  <2>1. a > 0
    BY DEF a
  <2> QED BY <1>1, <1>a, <1>11, <1>12, <2>1 DEF Lesser
<1>14. g[i - 1] >= a => \A j \in 1..(i - 1) : g[j] > 0
  <2>1. a > 0
    BY DEF a
  <2> QED BY SMTT(20), <1>1, <1>a, <1>12, <2>1
<1> QED BY <1>10, <1>13, <1>14 DEF a, amounts

-----------------------------------------------------------------------------
(* What the contract pays *)

\* Whatever a channel holds and allocates, and whichever entries are asked for, transfer
\* pays those what the holdings afford after all entries of higher priority, takes that
\* off the outcome and nothing else, and pays no more than there is: none of its unchecked
\* subtractions wraps around.
THEOREM TransferPaysShares ==
  ASSUME NEW D, NEW h \in Amount, NEW allocations \in Seq(Entry(D)),
         NEW indices \in Seq(Nat \ {0}), IncreasingIndices(indices)
  PROVE  LET r == compute_transfer_effects_and_interactions(h, allocations, indices)
         IN  /\ \A i \in DOMAIN allocations :
                  r.exit[i] = IF PaidIn(indices, i) THEN Share(AmountsOf(allocations), h, i) ELSE 0
             /\ r.totalPayouts = SumOf(r.exit, DOMAIN allocations)
             /\ r.totalPayouts <= h
             /\ r.newAllocations = [i \in DOMAIN allocations |->
                                      [allocations[i] EXCEPT !.amount = @ - r.exit[i]]]
<1>1. PICK r : r = compute_transfer_effects_and_interactions(h, allocations, indices)
  OBVIOUS
<1>2. /\ r \in TransferStates(allocations, D)
      /\ TransferredTo(h, allocations, indices, r, Len(allocations))
  BY Zenon, <1>1, TransferResult
<1>3. \A i \in DOMAIN allocations : i <= Len(allocations)
  OBVIOUS
<1>4. \A i \in DOMAIN allocations :
        r.exit[i] = IF PaidIn(indices, i) THEN Share(AmountsOf(allocations), h, i) ELSE 0
  BY Zenon, <1>2, <1>3 DEF TransferredTo
<1>5. r.totalPayouts = SumOf(r.exit, DOMAIN allocations)
  BY <1>2 DEF TransferredTo
<1>6. r.totalPayouts <= h
  <2>1. r.totalPayouts \in Nat /\ r.surplus \in Nat /\ h \in Nat
    BY <1>2, AmountIsNat DEF TransferStates
  <2>2. r.totalPayouts + r.surplus <= h
    BY <1>2 DEF TransferredTo
  <2> QED BY <2>1, <2>2
<1>7. r.newAllocations = [i \in DOMAIN allocations |->
                            [allocations[i] EXCEPT !.amount = @ - r.exit[i]]]
  <2>1. r.newAllocations \in [DOMAIN allocations -> Entry(D)]
    BY <1>2 DEF TransferStates
  <2>2. \A i \in DOMAIN allocations :
          r.newAllocations[i] = [allocations[i] EXCEPT !.amount = allocations[i].amount - r.exit[i]]
    BY Zenon, <1>2 DEF TransferredTo
  <2> QED BY Zenon, <2>1, <2>2
<1> QED BY Zenon, <1>1, <1>4, <1>5, <1>6, <1>7

\* Priority is respected: when transfer pays an entry less than its amount, or nothing,
\* it pays nothing for any entry after it.
THEOREM TransferKeepsPriority ==
  ASSUME NEW D, NEW h \in Amount, NEW allocations \in Seq(Entry(D)),
         NEW indices \in Seq(Nat \ {0}), IncreasingIndices(indices)
  PROVE  LET r == compute_transfer_effects_and_interactions(h, allocations, indices)
         IN  \A i, j \in DOMAIN allocations :
               i < j /\ PaidIn(indices, i) /\ r.exit[i] < allocations[i].amount => r.exit[j] = 0
<1> DEFINE N == Len(allocations)
           amounts == AmountsOf(allocations)
<1>1. PICK r : r = compute_transfer_effects_and_interactions(h, allocations, indices)
  OBVIOUS
<1>2. \A i \in DOMAIN allocations :
        r.exit[i] = IF PaidIn(indices, i) THEN Share(amounts, h, i) ELSE 0
  <2>1. TransferredTo(h, allocations, indices, r, N)
    BY Zenon, <1>1, TransferResult
  <2>2. \A i \in DOMAIN allocations : i <= N
    OBVIOUS
  <2> QED BY Zenon, <2>1, <2>2 DEF TransferredTo
<1>3. /\ N \in Nat /\ DOMAIN allocations = 1..N /\ h \in Nat
      /\ \A j \in 1..N : amounts[j] = allocations[j].amount /\ amounts[j] \in Nat
  BY AmountsOfType, AmountIsNat
<1>4. PICK sum : Sums(amounts, N, sum)
  <2>1. \A j \in 1..N : amounts[j] \in Nat
    BY <1>3
  <2> HIDE DEF N, amounts
  <2> QED BY Zenon, <1>3, <2>1, SumsOfPrefixes
<1>5. ASSUME NEW i \in 1..N, NEW j \in 1..N, i < j, Share(amounts, h, i) < amounts[i]
      PROVE  Share(amounts, h, j) = 0
  <2>1. i - 1 \in 0..N /\ i \in 0..N /\ j - 1 \in 0..N /\ i \in 0..(j - 1)
    BY <1>3, <1>5
  <2>2. /\ sum[i - 1] \in Nat /\ sum[j - 1] \in Nat /\ sum[i] = sum[i - 1] + amounts[i]
        /\ sum[i - 1] = SumOf(amounts, 1..(i - 1)) /\ sum[j - 1] = SumOf(amounts, 1..(j - 1))
    BY Zenon, <1>4, <2>1 DEF Sums
  <2>3. sum[i] <= sum[j - 1]
    <3>1. \A l \in 1..N : amounts[l] \in Nat
      BY <1>3
    <3> HIDE DEF N, amounts
    <3> QED BY Zenon, <1>3, <1>4, <2>1, <3>1, SumsGrow
  <2>4. Share(amounts, h, i) = IF sum[i - 1] >= h THEN 0 ELSE Lesser(amounts[i], h - sum[i - 1])
    BY <2>2 DEF Share
  <2>5. Share(amounts, h, j) = IF sum[j - 1] >= h THEN 0 ELSE Lesser(amounts[j], h - sum[j - 1])
    BY <2>2 DEF Share
  <2>6. amounts[i] \in Nat
    BY <1>3
  <2>7. sum[j - 1] >= h
    <3> HIDE DEF amounts
    <3> QED BY <1>3, <1>5, <2>2, <2>3, <2>4, <2>6 DEF Lesser
  <2> QED BY <2>5, <2>7
<1>6. ASSUME NEW i \in DOMAIN allocations, NEW j \in DOMAIN allocations,
             i < j, PaidIn(indices, i), r.exit[i] < allocations[i].amount
      PROVE  r.exit[j] = 0
  <2>1. r.exit[i] = Share(amounts, h, i) /\ amounts[i] = allocations[i].amount
    BY <1>2, <1>3, <1>6
  <2>2. Share(amounts, h, j) = 0
    BY <1>3, <1>5, <1>6, <2>1
  <2>3. r.exit[j] = IF PaidIn(indices, j) THEN Share(amounts, h, j) ELSE 0
    BY <1>2
  <2> QED BY <2>2, <2>3
<1> QED BY Zenon, <1>1, <1>6

\* A claim for everything pays the destinations of the guarantee in the order it names
\* them, each from its first entry in the target, out of what the source affords the
\* guarantee, and takes that off the guarantee and off the target and nothing else.
THEOREM ClaimPaysShares ==
  ASSUME NEW D, NEW h \in Amount, NEW source \in Seq(Entry(D)), NEW target \in Seq(Entry(D)),
         NEW n \in DOMAIN source, Injective(source[n].metadata)
  PROVE  LET r == compute_claim_effects_and_interactions(h, source, target, n, << >>)
             available == Share(AmountsOf(source), h, n)
             m == source[n].metadata
         IN  /\ \A l \in DOMAIN m : EntriesFor(target, m[l]) # {} =>
                  r.exit[Min(EntriesFor(target, m[l]))]
                    = Share(FirstAmounts(source[n], target), available, l)
             /\ r.totalPayouts = SumOf(r.exit, DOMAIN target)
             /\ r.totalPayouts <= available
             /\ r.guaranteed = source[n].amount - r.totalPayouts
             /\ r.newAllocations = [i \in DOMAIN target |->
                                      [target[i] EXCEPT !.amount = @ - r.exit[i]]]
<1> DEFINE m == source[n].metadata
           available == Share(AmountsOf(source), h, n)
<1>1. PICK r : r = compute_claim_effects_and_interactions(h, source, target, n, << >>)
  OBVIOUS
<1>2. /\ r \in ClaimStates(target, D)
      /\ ClaimedTo(available, source[n], target, << >>, r, Len(m))
  BY Zenon, <1>1, ClaimResult
<1>3. DOMAIN m = 1..Len(m)
  <2>1. source[n] \in Entry(D)
    BY AmountsOfType
  <2> QED BY <2>1, FirstAmountsType
<1>4. \A l \in DOMAIN m : EntriesFor(target, m[l]) # {} =>
        r.exit[Min(EntriesFor(target, m[l]))] = Share(FirstAmounts(source[n], target), available, l)
  BY Zenon, <1>2, <1>3 DEF ClaimedTo
<1>5. r.totalPayouts = SumOf(r.exit, DOMAIN target) /\ r.guaranteed = source[n].amount - r.totalPayouts
  BY Zenon, <1>2 DEF ClaimedTo
<1>6. r.totalPayouts <= available
  <2>1. r.totalPayouts \in Nat /\ r.surplus \in Nat /\ available \in Nat
    BY <1>2, AmountIsNat, ShareType DEF ClaimStates
  <2>2. r.totalPayouts + r.surplus <= available
    BY Zenon, <1>2 DEF ClaimedTo
  <2> HIDE DEF available
  <2> QED BY <2>1, <2>2
<1>7. r.newAllocations = [i \in DOMAIN target |-> [target[i] EXCEPT !.amount = @ - r.exit[i]]]
  <2>1. r.newAllocations \in [DOMAIN target -> Entry(D)]
    BY <1>2 DEF ClaimStates
  <2>2. \A i \in DOMAIN target :
          r.newAllocations[i] = [target[i] EXCEPT !.amount = target[i].amount - r.exit[i]]
    BY Zenon, <1>2 DEF ClaimedTo
  <2> QED BY Zenon, <2>1, <2>2
<1> QED BY Zenon, <1>1, <1>4, <1>5, <1>6, <1>7
=============================================================================
