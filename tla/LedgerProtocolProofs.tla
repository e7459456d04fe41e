------------------------ MODULE LedgerProtocolProofs ------------------------
(***************************************************************************)
(* The theorems about the consensus protocol of a running ledger channel.  *)
(*                                                                         *)
(* First the outcome of a ledger channel and its pending history: the      *)
(* states At(c, n) that its queue of proposals leads through, their        *)
(* signatures, and what the invariant Chain says of the two copies of the  *)
(* channel.  Then the steps: the initial state satisfies Chain, and so     *)
(* does what every step leads to: Propose and FollowerReceives, which make *)
(* and take proposals, and FollowerSigns and LeaderReceives, which make    *)
(* and take countersignatures.                                             *)
(***************************************************************************)
EXTENDS LedgerProtocol, Induction, TLAPS

-----------------------------------------------------------------------------
(* Outcomes and histories *)

\* The running sums of a sequence of numbers exist.
LEMMA SumExists ==
  ASSUME NEW N \in Nat, NEW a \in [1..N -> Int]
  PROVE  \E s \in [0..N -> Int] :
           s = [n \in 0..N |-> IF n = 0 THEN 0 ELSE s[n - 1] + a[n]]
<1> DEFINE Ok(k) == \E s \in [0..k -> Int] :
                      s = [n \in 0..k |-> IF n = 0 THEN 0 ELSE s[n - 1] + a[n]]
           S == {k \in 0..N : Ok(k)}
<1>1. Ok(0)
  <2> DEFINE z == [n \in 0..0 |-> 0]
  <2>1. z \in [0..0 -> Int] OBVIOUS
  <2>2. z = [n \in 0..0 |-> IF n = 0 THEN 0 ELSE z[n - 1] + a[n]] OBVIOUS
  <2> QED BY Zenon, <2>1, <2>2
<1>2. ASSUME NEW k \in 1..N, Ok(k - 1)
      PROVE  Ok(k)
  <2>1. PICK s \in [0..(k - 1) -> Int] :
          s = [n \in 0..(k - 1) |-> IF n = 0 THEN 0 ELSE s[n - 1] + a[n]]
    BY <1>2
  <2> DEFINE r == [n \in 0..k |-> IF n < k THEN s[n] ELSE s[k - 1] + a[k]]
  <2>2. r \in [0..k -> Int]
    BY <2>1
  <2>3. ASSUME NEW n \in 0..k
        PROVE r[n] = IF n = 0 THEN 0 ELSE r[n - 1] + a[n]
    <3>1. CASE n < k
      <4>1. s[n] = IF n = 0 THEN 0 ELSE s[n - 1] + a[n]
        BY <2>1, <3>1
      <4> QED BY <3>1, <4>1
    <3>2. CASE n = k
      BY <3>2
    <3> QED BY <3>1, <3>2
  <2>4. r = [n \in 0..k |-> IF n = 0 THEN 0 ELSE r[n - 1] + a[n]]
    BY Zenon, <2>3
  <2> QED BY Zenon, <2>2, <2>4
<1> HIDE DEF Ok
<1>3. 0..N \subseteq S
  <2>1. 0 \in S BY <1>1
  <2>2. \A n \in 1..N : n - 1 \in S => n \in S BY <1>2
  <2> HIDE DEF S
  <2> QED BY Zenon, <2>1, <2>2, InductionUpTo
<1>4. Ok(N)
  BY <1>3
<1> QED BY <1>4 DEF Ok

\* s[n] is the sum of a[1], ..., a[n].
IsRunningSum(s, a, N) ==
  /\ s \in [0..N -> Int]
  /\ s[0] = 0
  /\ \A n \in 1..N : s[n] = s[n - 1] + a[n]

\* s and r are the running sums of a and b, which differ at t only.
DifferAt(t, a, b, s, r, N) ==
  /\ a \in [1..N -> Int] /\ b \in [1..N -> Int]
  /\ t \in 1..N
  /\ \A n \in 1..N : n # t => b[n] = a[n]
  /\ IsRunningSum(s, a, N) /\ IsRunningSum(r, b, N)

\* What a running sum is after one summand is replaced.
LEMMA SumUpdate ==
  ASSUME NEW N \in Nat, NEW t, NEW a, NEW b, NEW s, NEW r,
         DifferAt(t, a, b, s, r, N)
  PROVE  r[N] = s[N] - a[t] + b[t]
<1>a. a \in [1..N -> Int] /\ b \in [1..N -> Int] /\ t \in 1..N
  BY DEF DifferAt
<1>b. \A n \in 1..N : n # t => b[n] = a[n]
  BY DEF DifferAt
<1>c. IsRunningSum(s, a, N) /\ IsRunningSum(r, b, N)
  BY DEF DifferAt
<1> USE <1>a, <1>b, <1>c
<1> DEFINE Ok(n) == r[n] = IF n < t THEN s[n] ELSE s[n] - a[t] + b[t]
           S == {n \in 0..N : Ok(n)}
<1>1. Ok(0)
  BY DEF IsRunningSum
<1>2. ASSUME NEW n \in 1..N, Ok(n - 1) PROVE Ok(n)
  <2>1. s[n] = s[n - 1] + a[n] /\ r[n] = r[n - 1] + b[n]
    BY Zenon DEF IsRunningSum
  <2>2. n - 1 \in 0..N /\ n \in 0..N
    OBVIOUS
  <2>8. /\ s[n - 1] \in Int /\ s[n] \in Int /\ r[n - 1] \in Int
        /\ a[n] \in Int /\ b[n] \in Int /\ a[t] \in Int /\ b[t] \in Int
    BY Zenon, <2>2 DEF IsRunningSum
  <2>9. n # t => b[n] = a[n]
    OBVIOUS
  <2>7. r[n - 1] = IF n - 1 < t THEN s[n - 1] ELSE s[n - 1] - a[t] + b[t]
    BY <1>2
  <2>3. CASE n < t
    BY <2>1, <2>8, <2>9, <2>7, <2>3
  <2>4. CASE n = t
    BY <2>1, <2>8, <2>9, <2>7, <2>4
  <2>5. CASE n > t
    <3>1. n # t /\ ~(n < t) /\ ~(n - 1 < t)
      BY <2>5
    <3>2. r[n - 1] = s[n - 1] - a[t] + b[t] /\ b[n] = a[n]
      BY <2>9, <2>7, <3>1
    <3>3. r[n] = s[n] - a[t] + b[t]
      BY <2>1, <2>8, <3>2
    <3> QED BY <3>1, <3>3
  <2> QED BY <2>3, <2>4, <2>5
<1> HIDE DEF Ok
<1>3. 0..N \subseteq S
  <2>1. 0 \in S
    BY <1>1
  <2>2. \A n \in 1..N : n - 1 \in S => n \in S
    BY <1>2
  <2> HIDE DEF S
  <2> QED BY Zenon, <2>1, <2>2, InductionUpTo
<1>4. Ok(N)
  BY <1>3
<1> QED BY <1>4 DEF Ok

\* Guaranteed(g) is the last of the running sums of the amounts of g.
LEMMA GuaranteedIsSum ==
  ASSUME NEW g \in [Targets -> Guarantee \cup {NoGuarantee}]
  PROVE  \E s : /\ IsRunningSum(s, [n \in 1..NumTargets |-> g[n].amount], NumTargets)
                /\ Guaranteed(g) = s[NumTargets]
<1> DEFINE N == NumTargets
           a == [n \in 1..N |-> g[n].amount]
           IsSum(s) == s = [n \in 0..N |-> IF n = 0 THEN 0 ELSE s[n - 1] + g[n].amount]
           s == CHOOSE s : IsSum(s)
<1>1. N \in Nat
  BY NumTargetsAssumption
<1>2. a \in [1..N -> Int]
  BY <1>1 DEF Guarantee, NoGuarantee, Targets
<1>3. PICK r \in [0..N -> Int] :
        r = [n \in 0..N |-> IF n = 0 THEN 0 ELSE r[n - 1] + a[n]]
  <2> HIDE DEF a, N
  <2> QED BY Zenon, <1>1, <1>2, SumExists
<1>4. ASSUME NEW n \in 0..N
      PROVE  r[n] = IF n = 0 THEN 0 ELSE r[n - 1] + g[n].amount
  <2>1. r[n] = IF n = 0 THEN 0 ELSE r[n - 1] + a[n]
    <3> HIDE DEF a
    <3> QED BY Zenon, <1>3
  <2>2. n # 0 => a[n] = g[n].amount
    BY <1>1
  <2> QED BY <2>1, <2>2
<1>5. IsSum(r)
  BY Zenon, <1>3, <1>4
<1>6. IsSum(s)
  <2> HIDE DEF IsSum
  <2> QED BY <1>5
<1>7. Guaranteed(g) = s[N]
  BY DEF Guaranteed
<1> HIDE DEF s
<1>8. \A n \in 0..N : s[n] = IF n = 0 THEN 0 ELSE s[n - 1] + g[n].amount
  BY Zenon, <1>6
<1> DEFINE S == {n \in 0..N : s[n] = r[n]}
<1>9. 0..N \subseteq S
  <2>1. 0 \in S
    BY <1>1, <1>4, <1>8
  <2>2. ASSUME NEW n \in 1..N, n - 1 \in S PROVE n \in S
    BY <1>1, <1>4, <1>8, <2>2
  <2> HIDE DEF S
  <2> QED BY Zenon, <1>1, <2>1, <2>2, InductionUpTo
<1>10. Guaranteed(g) = r[N]
  BY <1>1, <1>7, <1>9
<1>11. r[0] = 0 /\ \A n \in 1..N : r[n] = r[n - 1] + a[n]
  BY <1>1, <1>4
<1>12. IsRunningSum(r, a, N)
  BY Zenon, <1>3, <1>11 DEF IsRunningSum
<1> QED BY Zenon, <1>10, <1>12

\* Replacing one guarantee changes the guaranteed total by the difference.
LEMMA GuaranteedUpdate ==
  ASSUME NEW g \in [Targets -> Guarantee \cup {NoGuarantee}], NEW t \in Targets,
         NEW x \in Guarantee \cup {NoGuarantee}
  PROVE  /\ Guaranteed(g) \in Int
         /\ Guaranteed([g EXCEPT ![t] = x]) = Guaranteed(g) - g[t].amount + x.amount
<1>1. NumTargets \in Nat /\ Targets = 1..NumTargets
  BY NumTargetsAssumption DEF Targets
<1>2. PICK h : h = [g EXCEPT ![t] = x]
  BY Zenon
<1>3. PICK a : a = [n \in 1..NumTargets |-> g[n].amount]
  BY Zenon
<1>4. PICK b : b = [n \in 1..NumTargets |-> h[n].amount]
  BY Zenon
<1>5. a \in [1..NumTargets -> Int]
  BY <1>1, <1>3 DEF Guarantee, NoGuarantee
<1>6. h \in [Targets -> Guarantee \cup {NoGuarantee}]
  BY <1>2
<1>7. b \in [1..NumTargets -> Int]
  BY <1>1, <1>4, <1>6 DEF Guarantee, NoGuarantee
<1>8. PICK s : IsRunningSum(s, a, NumTargets) /\ Guaranteed(g) = s[NumTargets]
  BY Zenon, <1>3, GuaranteedIsSum
<1>9. PICK r : IsRunningSum(r, b, NumTargets) /\ Guaranteed(h) = r[NumTargets]
  BY Zenon, <1>4, <1>6, GuaranteedIsSum
<1>10. s[NumTargets] \in Int
  BY <1>1, <1>8 DEF IsRunningSum
<1>11. \A n \in 1..NumTargets : n # t => b[n] = a[n]
  BY <1>1, <1>2, <1>3, <1>4
<1>12. a[t] = g[t].amount /\ b[t] = x.amount
  BY <1>1, <1>2, <1>3, <1>4
<1>13. r[NumTargets] = s[NumTargets] - a[t] + b[t]
  <2>1. t \in 1..NumTargets
    BY <1>1
  <2>2. IsRunningSum(s, a, NumTargets) /\ IsRunningSum(r, b, NumTargets)
    BY <1>8, <1>9
  <2>3. DifferAt(t, a, b, s, r, NumTargets)
    BY <1>5, <1>7, <1>11, <2>1, <2>2 DEF DifferAt
  <2> QED BY <1>1, <2>3, SumUpdate
<1> QED BY <1>2, <1>8, <1>9, <1>10, <1>12, <1>13

\* HandleProposal returns vars, one turn further when it returns no error.
LEMMA HandleProposalVars ==
  ASSUME NEW v \in Vars, NEW p \in Proposal
  PROVE  /\ HandleProposal(v, p) \in Vars
         /\ CanHandle(v, p) => HandleProposal(v, p).turnNum = v.turnNum + 1
<1>1. CASE ~CanHandle(v, p)
  BY <1>1 DEF HandleProposal
<1>2. CASE CanHandle(v, p) /\ p.type = "Add"
  <2>1. HandleProposal(v, p) = Add(v, p)
    BY <1>2 DEF HandleProposal
  <2>2. p \in AddProposal /\ CanAdd(v, p)
    BY <1>2 DEF Proposal, RemoveProposal, CanHandle
  <2>3. /\ v.outcome.balance[Leader] - p.leftDeposit \in Nat
        /\ v.outcome.balance[Follower] - RightDeposit(p) \in Nat
    BY <2>2 DEF CanAdd, RightDeposit, AddProposal, Guarantee, Vars, LedgerOutcome, Parties
  <2>4. [v.outcome.balance EXCEPT ![Leader] = @ - p.leftDeposit,
                                  ![Follower] = @ - RightDeposit(p)] \in [Parties -> Nat]
    BY <2>3 DEF Vars, LedgerOutcome, Parties, Leader, Follower
  <2>5. Add(v, p) \in Vars /\ Add(v, p).turnNum = v.turnNum + 1
    BY <2>2, <2>4 DEF Add, Vars, LedgerOutcome, AddProposal
  <2> QED BY <2>1, <2>5
<1>3. CASE CanHandle(v, p) /\ p.type = "Remove"
  <2>1. HandleProposal(v, p) = Remove(v, p)
    BY <1>3 DEF HandleProposal
  <2>2. p \in RemoveProposal /\ CanRemove(v, p)
    BY <1>3 DEF Proposal, AddProposal, CanHandle
  <2> DEFINE g == v.outcome.guarantees[p.target]
  <2>3. g \in Guarantee
    BY <2>2 DEF CanRemove, IncludesTarget, RemoveProposal, Vars, LedgerOutcome
  <2>4. \A party \in Parties : RemovalCredit(g, p, party) \in Nat
    BY <2>2, <2>3 DEF RemovalCredit, CanRemove, Guarantee, RemoveProposal
  <2>5. Remove(v, p) \in Vars /\ Remove(v, p).turnNum = v.turnNum + 1
    BY <2>2, <2>4 DEF Remove, Vars, LedgerOutcome, RemoveProposal
  <2> QED BY <2>1, <2>5
<1> QED BY <1>1, <1>2, <1>3 DEF Proposal, AddProposal, RemoveProposal

\* HandleProposal neither creates nor destroys funds.
LEMMA HandleProposalTotal ==
  ASSUME NEW v \in Vars, NEW p \in Proposal
  PROVE  Total(HandleProposal(v, p).outcome) = Total(v.outcome)
<1> DEFINE bal == v.outcome.balance
           gs == v.outcome.guarantees
<1>0. /\ bal \in [Parties -> Nat] /\ bal[Leader] \in Nat /\ bal[Follower] \in Nat
      /\ gs \in [Targets -> Guarantee \cup {NoGuarantee}]
      /\ p.target \in Targets
  BY DEF Vars, LedgerOutcome, Parties, Proposal, AddProposal, RemoveProposal
<1>1. CASE ~CanHandle(v, p)
  BY <1>1 DEF HandleProposal
<1>2. CASE CanHandle(v, p) /\ p.type = "Add"
  <2>1. HandleProposal(v, p) = Add(v, p)
    BY <1>2 DEF HandleProposal
  <2>2. p \in AddProposal /\ CanAdd(v, p)
    BY <1>2 DEF Proposal, RemoveProposal, CanHandle
  <2>3. /\ p.guarantee \in Guarantee /\ p.leftDeposit \in Nat
        /\ p.guarantee.amount \in Nat /\ gs[p.target].amount = 0
    BY <2>2 DEF AddProposal, Guarantee, CanAdd, IncludesTarget, NoGuarantee
  <2>4. Guaranteed([gs EXCEPT ![p.target] = p.guarantee])
          = Guaranteed(gs) + p.guarantee.amount
        /\ Guaranteed(gs) \in Int
    <3> HIDE DEF gs
    <3>1. /\ Guaranteed([gs EXCEPT ![p.target] = p.guarantee])
               = Guaranteed(gs) - gs[p.target].amount + p.guarantee.amount
          /\ Guaranteed(gs) \in Int
      BY Zenon, <1>0, <2>3, GuaranteedUpdate
    <3> QED BY <2>3, <3>1
  <2>5. /\ Add(v, p).outcome.balance[Leader] = bal[Leader] - p.leftDeposit
        /\ Add(v, p).outcome.balance[Follower] = bal[Follower] - RightDeposit(p)
        /\ Add(v, p).outcome.guarantees = [gs EXCEPT ![p.target] = p.guarantee]
    BY <1>0 DEF Add, Parties, Leader, Follower
  <2> HIDE DEF bal, gs
  <2>6. Total(Add(v, p).outcome) = bal[Leader] + bal[Follower] + Guaranteed(gs)
    BY <1>0, <2>3, <2>4, <2>5 DEF Total, RightDeposit
  <2> QED BY <2>1, <2>6 DEF Total, bal, gs
<1>3. CASE CanHandle(v, p) /\ p.type = "Remove"
  <2>1. HandleProposal(v, p) = Remove(v, p)
    BY <1>3 DEF HandleProposal
  <2>2. p \in RemoveProposal /\ CanRemove(v, p)
    BY <1>3 DEF Proposal, AddProposal, CanHandle
  <2> DEFINE g == gs[p.target]
  <2>3. g \in Guarantee /\ g.amount \in Nat /\ p.leftAmount \in Nat
    BY <1>0, <2>2 DEF CanRemove, IncludesTarget, RemoveProposal, Guarantee
  <2>4. Guaranteed([gs EXCEPT ![p.target] = NoGuarantee]) = Guaranteed(gs) - g.amount
        /\ Guaranteed(gs) \in Int
    <3>1. NoGuarantee.amount = 0
      BY DEF NoGuarantee
    <3> HIDE DEF gs
    <3>2. /\ Guaranteed([gs EXCEPT ![p.target] = NoGuarantee])
               = Guaranteed(gs) - gs[p.target].amount + NoGuarantee.amount
          /\ Guaranteed(gs) \in Int
      BY Zenon, <1>0, GuaranteedUpdate
    <3> QED BY <2>3, <3>1, <3>2
  <2>5. /\ Remove(v, p).outcome.balance[Leader] = bal[Leader] + RemovalCredit(g, p, Leader)
        /\ Remove(v, p).outcome.balance[Follower] = bal[Follower] + RemovalCredit(g, p, Follower)
        /\ Remove(v, p).outcome.guarantees = [gs EXCEPT ![p.target] = NoGuarantee]
    BY <1>0 DEF Remove, Parties
  <2>6. /\ RemovalCredit(g, p, Leader) \in Int /\ RemovalCredit(g, p, Follower) \in Int
        /\ RemovalCredit(g, p, Leader) + RemovalCredit(g, p, Follower) = g.amount
    BY <2>3 DEF RemovalCredit, Guarantee, Parties, Leader, Follower
  <2> HIDE DEF bal, gs, g
  <2>7. Total(Remove(v, p).outcome) = bal[Leader] + bal[Follower] + Guaranteed(gs)
    BY <1>0, <2>3, <2>4, <2>5, <2>6 DEF Total
  <2> QED BY <2>1, <2>7 DEF Total, bal, gs
<1> QED BY <1>1, <1>2, <1>3 DEF Proposal, AddProposal, RemoveProposal

\* Without guarantees nothing is guaranteed.
LEMMA NothingGuaranteed == Guaranteed([t \in Targets |-> NoGuarantee]) = 0
<1>1. PICK g : g = [t \in Targets |-> NoGuarantee]
  BY Zenon
<1>2. g \in [Targets -> Guarantee \cup {NoGuarantee}]
  BY <1>1
<1>3. NumTargets \in Nat /\ Targets = 1..NumTargets
  BY NumTargetsAssumption DEF Targets
<1>4. PICK a : a = [n \in 1..NumTargets |-> g[n].amount]
  BY Zenon
<1>5. PICK s : IsRunningSum(s, a, NumTargets) /\ Guaranteed(g) = s[NumTargets]
  BY Zenon, <1>2, <1>4, GuaranteedIsSum
<1>6. \A n \in 1..NumTargets : a[n] = 0
  BY <1>1, <1>3, <1>4 DEF NoGuarantee
<1>7. s[0] = 0 /\ \A n \in 1..NumTargets : s[n] = s[n - 1] + a[n]
  BY <1>5 DEF IsRunningSum
<1> DEFINE S == {n \in 0..NumTargets : s[n] = 0}
<1>8. 0..NumTargets \subseteq S
  <2>1. 0 \in S
    BY <1>3, <1>7
  <2>2. ASSUME NEW n \in 1..NumTargets, n - 1 \in S PROVE n \in S
    BY <1>3, <1>6, <1>7, <2>2
  <2> HIDE DEF S
  <2> QED BY Zenon, <1>3, <2>1, <2>2, InductionUpTo
<1>9. s[NumTargets] = 0
  BY <1>3, <1>8
<1> QED BY <1>1, <1>5, <1>9

-----------------------------------------------------------------------------
(* Pending histories *)

\* The proposals that are made are proposals.
LEMMA ProposalsType == Proposals \subseteq Proposal
  BY Zenon, IDAssumption, AmountsAssumption
  DEF Proposals, Proposal, AddProposal, RemoveProposal, Guarantee

\* The states of a pending history are vars with consecutive turn numbers.
LEMMA HistoryVars ==
  ASSUME NEW c \in Channel, WellChained(c), NEW n \in 0..Len(c.proposalQueue)
  PROVE  At(c, n) \in Vars /\ At(c, n).turnNum = c.current.vars.turnNum + n
<1>1. CASE n = 0
  BY <1>1 DEF At, Channel, SignedVars, Vars
<1>2. CASE n # 0
  <2>1. n \in 1..Len(c.proposalQueue)
    BY <1>2
  <2>2. c.proposalQueue[n] \in SignedProposal
    BY <2>1 DEF Channel
  <2>3. At(c, n) \in Vars
    BY <1>2, <2>2 DEF At, SignedProposal, Signature
  <2> QED BY <2>1, <2>3 DEF WellChained
<1> QED BY <1>1, <1>2

\* Every queued proposal leads from one state of the pending history to the next.
LEMMA HistorySteps ==
  ASSUME NEW c \in Channel, WellChained(c), NEW n \in 1..Len(c.proposalQueue)
  PROVE  /\ CanHandle(At(c, n - 1), c.proposalQueue[n].proposal)
         /\ At(c, n) = HandleProposal(At(c, n - 1), c.proposalQueue[n].proposal)
         /\ c.proposalQueue[n].sig = Sign(At(c, n), Leader)
         /\ c.proposalQueue[n].turnNum = c.current.vars.turnNum + n
         /\ c.proposalQueue[n].proposal \in Proposals
<1>1. LeadsOn(At(c, n - 1), c.proposalQueue[n])
  BY DEF WellChained
<1>2. At(c, n) = c.proposalQueue[n].sig.vars
  BY DEF At
<1>3. c.proposalQueue[n].turnNum = c.current.vars.turnNum + n
  <2>1. n - 1 \in 0..Len(c.proposalQueue) /\ c.current.vars.turnNum \in Nat
    BY DEF Channel, SignedVars, Vars
  <2>2. At(c, n - 1).turnNum = c.current.vars.turnNum + (n - 1)
    BY <2>1, HistoryVars
  <2>3. c.proposalQueue[n].turnNum = At(c, n - 1).turnNum + 1
    BY <1>1 DEF LeadsOn
  <2> QED BY <2>1, <2>2, <2>3
<1> QED BY <1>1, <1>2, <1>3 DEF LeadsOn, Sign

\* varsAfter computes the pending history.
LEMMA VarsAfterHistory ==
  ASSUME NEW c \in Channel, WellChained(c)
  PROVE  \A n \in 0..Len(c.proposalQueue) : varsAfter(c)[n] = At(c, n)
<1> DEFINE N == Len(c.proposalQueue)
           h == [n \in 0..N |-> At(c, n)]
           IsHistory(v) ==
             v = [n \in 0..N |-> IF n = 0 THEN c.current.vars
                                 ELSE HandleProposal(v[n - 1], c.proposalQueue[n].proposal)]
<1>1. N \in Nat
  BY DEF Channel
<1>2. ASSUME NEW n \in 0..N
      PROVE  h[n] = IF n = 0 THEN c.current.vars
                    ELSE HandleProposal(h[n - 1], c.proposalQueue[n].proposal)
  <2>1. CASE n = 0
    BY <1>1, <2>1 DEF At
  <2>2. CASE n # 0
    <3>1. n \in 1..N /\ n - 1 \in 0..N
      BY <1>1, <2>2
    <3>2. h[n] = At(c, n) /\ h[n - 1] = At(c, n - 1)
      BY <3>1
    <3>3. At(c, n) = HandleProposal(At(c, n - 1), c.proposalQueue[n].proposal)
      BY <3>1, HistorySteps
    <3> QED BY <2>2, <3>2, <3>3
  <2> QED BY <2>1, <2>2
<1>3. IsHistory(h)
  BY Zenon, <1>2
<1>4. IsHistory(varsAfter(c))
  <2>1. varsAfter(c) = CHOOSE v : IsHistory(v)
    BY DEF varsAfter
  <2> HIDE DEF IsHistory
  <2> QED BY <1>3, <2>1
<1>5. PICK v : v = varsAfter(c)
  OBVIOUS
<1>6. \A n \in 0..N : v[n] = IF n = 0 THEN c.current.vars
                             ELSE HandleProposal(v[n - 1], c.proposalQueue[n].proposal)
  BY SMTT(30), <1>4, <1>5
<1> DEFINE S == {n \in 0..N : v[n] = h[n]}
<1>7. 0..N \subseteq S
  <2> HIDE DEF h
  <2>1. 0 \in S
    <3>1. 0 \in 0..N
      BY <1>1
    <3> QED BY <1>2, <1>6, <3>1
  <2>2. ASSUME NEW n \in 1..N, n - 1 \in S PROVE n \in S
    <3>1. n \in 0..N /\ n # 0
      BY <1>1
    <3> QED BY <1>2, <1>6, <2>2, <3>1
  <2> HIDE DEF S, N
  <2> QED BY <1>1, <2>1, <2>2, InductionUpTo
<1> QED BY Zenon, <1>5, <1>7

\* A well-chained queue applies, and latestProposedVars is where it leads.
LEMMA QueueAppliesHistory ==
  ASSUME NEW c \in Channel, WellChained(c)
  PROVE  /\ latestProposedVars(c) = At(c, Len(c.proposalQueue))
         /\ QueueApplies(c)
         /\ \A n \in 0..Len(c.proposalQueue) : Applies(c, n)
<1>1. Len(c.proposalQueue) \in Nat
  BY DEF Channel
<1>2. \A n \in 1..Len(c.proposalQueue) :
        CanHandle(varsAfter(c)[n - 1], c.proposalQueue[n].proposal)
  <2> TAKE n \in 1..Len(c.proposalQueue)
  <2>1. n - 1 \in 0..Len(c.proposalQueue)
    BY <1>1
  <2> QED BY <2>1, HistorySteps, VarsAfterHistory
<1>3. \A n \in 0..Len(c.proposalQueue) : Applies(c, n)
  BY <1>1, <1>2 DEF Applies
<1> QED BY <1>1, <1>3, VarsAfterHistory DEF latestProposedVars, QueueApplies

\* d is c with sp appended to the queue.
Appended(c, sp, d) ==
  /\ d.current = c.current
  /\ Len(d.proposalQueue) = Len(c.proposalQueue) + 1
  /\ d.proposalQueue[Len(c.proposalQueue) + 1] = sp
  /\ \A n \in 1..Len(c.proposalQueue) : d.proposalQueue[n] = c.proposalQueue[n]

\* A proposal that leads on from the last state extends the history by one state.
LEMMA AppendedChained ==
  ASSUME NEW c \in Channel, WellChained(c), NEW d \in Channel, NEW sp, Appended(c, sp, d),
         LeadsOn(At(c, Len(c.proposalQueue)), sp)
  PROVE  /\ \A n \in 0..Len(c.proposalQueue) : At(d, n) = At(c, n)
         /\ At(d, Len(c.proposalQueue) + 1) = sp.sig.vars
         /\ WellChained(d)
<1>1. PICK N \in Nat : N = Len(c.proposalQueue)
  BY DEF Channel
<1>2. PICK b \in Nat : b = c.current.vars.turnNum
  BY DEF Channel, SignedVars, Vars
<1>3. d.current = c.current /\ Len(d.proposalQueue) = N + 1 /\ d.proposalQueue[N + 1] = sp
  BY <1>1 DEF Appended
<1>4. \A n \in 1..N : d.proposalQueue[n] = c.proposalQueue[n]
  BY <1>1 DEF Appended
<1>5. \A n \in 0..N : At(d, n) = At(c, n)
  BY <1>3, <1>4 DEF At
<1>6. At(d, N + 1) = sp.sig.vars
  BY <1>3 DEF At
<1>7. LeadsOn(At(c, N), sp) /\ At(c, N) \in Vars /\ At(c, N).turnNum = b + N
  BY <1>1, <1>2, HistoryVars
<1>8. sp.sig.vars.turnNum = b + N + 1
  <2>1. CanHandle(At(c, N), sp.proposal) /\ sp.proposal \in Proposal
        /\ sp.sig.vars = HandleProposal(At(c, N), sp.proposal)
    BY <1>7, ProposalsType DEF LeadsOn, Sign
  <2>2. sp.sig.vars.turnNum = At(c, N).turnNum + 1
    BY <1>7, <2>1, HandleProposalVars
  <2> QED BY <1>7, <2>2
<1>9. ASSUME NEW i \in 1..(N + 1)
      PROVE  LeadsOn(At(d, i - 1), d.proposalQueue[i]) /\ At(d, i).turnNum = b + i
  <2>1. CASE i = N + 1
    <3>1. i - 1 = N /\ N \in 0..N
      BY <2>1
    <3>2. At(d, i - 1) = At(c, N)
      BY <1>5, <3>1
    <3> QED BY <1>3, <1>6, <1>7, <1>8, <2>1, <3>2
  <2>2. CASE i # N + 1
    <3>1. i \in 1..N /\ i - 1 \in 0..N /\ i \in 0..N
      BY <2>2
    <3>2. At(d, i - 1) = At(c, i - 1) /\ At(d, i) = At(c, i)
      BY <1>5, <3>1
    <3>3. LeadsOn(At(c, i - 1), c.proposalQueue[i]) /\ At(c, i).turnNum = b + i
      BY <1>1, <1>2, <3>1 DEF WellChained
    <3> QED BY <1>4, <3>1, <3>2, <3>3
  <2> QED BY <2>1, <2>2
<1>10. WellChained(d)
  BY <1>2, <1>3, <1>9 DEF WellChained
<1> QED BY <1>1, <1>5, <1>6, <1>10

\* d is c after consensus on the k-th state of c's history.
Advanced(c, k, d) ==
  /\ d.current.vars = At(c, k)
  /\ Len(d.proposalQueue) = Len(c.proposalQueue) - k
  /\ \A n \in 1..(Len(c.proposalQueue) - k) : d.proposalQueue[n] = c.proposalQueue[k + n]

\* Consensus on the k-th state of a history makes its rest the new history.
LEMMA AdvancedChained ==
  ASSUME NEW c \in Channel, WellChained(c), NEW k \in 1..Len(c.proposalQueue),
         NEW d \in Channel, Advanced(c, k, d)
  PROVE  /\ d.current.vars.turnNum = c.current.vars.turnNum + k
         /\ \A n \in 0..(Len(c.proposalQueue) - k) : At(d, n) = At(c, k + n)
         /\ WellChained(d)
<1>1. PICK N \in Nat : N = Len(c.proposalQueue) /\ k \in 1..N
  BY DEF Channel
<1>2. PICK b \in Nat : b = c.current.vars.turnNum
  BY DEF Channel, SignedVars, Vars
<1>3. d.current.vars.turnNum = b + k
  BY SMTT(30), <1>1, <1>2, HistoryVars DEF Advanced
<1>4. Len(d.proposalQueue) = N - k /\ \A n \in 1..(N - k) : d.proposalQueue[n] = c.proposalQueue[k + n]
  BY <1>1 DEF Advanced
<1>5. ASSUME NEW n \in 0..(N - k) PROVE At(d, n) = At(c, k + n)
  <2>1. CASE n = 0
    BY <1>1, <2>1 DEF At, Advanced
  <2>2. CASE n # 0
    <3>1. n \in 1..(N - k) /\ k + n # 0
      BY <1>1, <2>2
    <3> QED BY <1>4, <2>2, <3>1 DEF At
  <2> QED BY <2>1, <2>2
<1>6. ASSUME NEW i \in 1..(N - k)
      PROVE  LeadsOn(At(d, i - 1), d.proposalQueue[i]) /\ At(d, i).turnNum = (b + k) + i
  <2>1. /\ k + i \in 1..N /\ i - 1 \in 0..(N - k) /\ i \in 0..(N - k)
        /\ k + (i - 1) = (k + i) - 1 /\ b + (k + i) = (b + k) + i
    BY <1>1
  <2>2. /\ At(d, i - 1) = At(c, (k + i) - 1) /\ At(d, i) = At(c, k + i)
        /\ d.proposalQueue[i] = c.proposalQueue[k + i]
    BY <1>4, <1>5, <2>1
  <2>3. LeadsOn(At(c, (k + i) - 1), c.proposalQueue[k + i]) /\ At(c, k + i).turnNum = b + (k + i)
    BY Zenon, <1>1, <1>2, <2>1 DEF WellChained
  <2> QED BY <2>1, <2>2, <2>3
<1>7. WellChained(d)
  BY <1>3, <1>4, <1>6 DEF WellChained
<1> QED BY <1>1, <1>2, <1>3, <1>5, <1>7

-----------------------------------------------------------------------------
\* A signature recovers to its signer.
LEMMA RecoverSign == \A v, p : recoverSigner(v, Sign(v, p)) = p
  BY DEF recoverSigner, Sign

\* The consensus state carries a participant's signature on exactly that state.
LEMMA Supported ==
  ASSUME NEW c \in Channel, NEW p \in Parties,
         recoverSigner(c.current.vars, c.current.sigs[p]) = p
  PROVE  c.current.sigs[p].vars = c.current.vars
  BY DEF recoverSigner, Parties, NoParty, Leader, Follower

\* The members of a queue are signed proposals.
LEMMA QueueType ==
  ASSUME NEW c \in Channel, NEW i \in DOMAIN c.proposalQueue
  PROVE  i \in 1..Len(c.proposalQueue) /\ c.proposalQueue[i] \in SignedProposal
<1>1. PICK q \in Seq(SignedProposal) : q = c.proposalQueue
  BY DEF Channel
<1> QED BY <1>1

\* Signatures are on vars.
LEMMA SignaturesType ==
  ASSUME TypeOK
  PROVE  \A s \in Signatures : s \in Signature /\ s.vars \in Vars /\ s.vars.turnNum \in Nat
<1> SUFFICES ASSUME NEW s \in Signatures PROVE s \in Signature
  BY DEF Signature, Vars
<1>1. CASE \E c \in {leader, follower}, p \in Parties : s = c.current.sigs[p]
  BY <1>1 DEF TypeOK, Channel, SignedVars
<1>2. CASE \E i \in DOMAIN leader.proposalQueue : s = leader.proposalQueue[i].sig
  BY <1>2, QueueType DEF TypeOK, SignedProposal
<1>3. CASE \E i \in DOMAIN follower.proposalQueue : s = follower.proposalQueue[i].sig
  BY <1>3, QueueType DEF TypeOK, SignedProposal
<1>4. CASE \E m \in msgs : s = m.sp.sig
  BY <1>4 DEF TypeOK, Message, SignedProposal
<1> QED BY <1>1, <1>2, <1>3, <1>4 DEF Signatures

\* What counts as a signature ...
LEMMA SignatureMembers ==
  /\ \A p \in Parties : leader.current.sigs[p] \in Signatures
  /\ \A p \in Parties : follower.current.sigs[p] \in Signatures
  /\ \A i \in DOMAIN leader.proposalQueue : leader.proposalQueue[i].sig \in Signatures
  /\ \A i \in DOMAIN follower.proposalQueue : follower.proposalQueue[i].sig \in Signatures
  /\ \A m \in msgs : m.sp.sig \in Signatures
<1>1. \A p \in Parties : leader.current.sigs[p] \in Signatures
  BY DEF Signatures
<1>2. \A p \in Parties : follower.current.sigs[p] \in Signatures
  BY DEF Signatures
<1>3. \A i \in DOMAIN leader.proposalQueue : leader.proposalQueue[i].sig \in Signatures
  BY DEF Signatures
<1>4. \A i \in DOMAIN follower.proposalQueue : follower.proposalQueue[i].sig \in Signatures
  BY DEF Signatures
<1>5. \A m \in msgs : m.sp.sig \in Signatures
  BY DEF Signatures
<1> QED BY <1>1, <1>2, <1>3, <1>4, <1>5

\* ... and where a signature is found after a step.
LEMMA SignatureOrigins ==
  \A s \in Signatures' :
    \/ \E p \in Parties : s = leader'.current.sigs[p]
    \/ \E p \in Parties : s = follower'.current.sigs[p]
    \/ \E i \in DOMAIN leader'.proposalQueue : s = leader'.proposalQueue[i].sig
    \/ \E i \in DOMAIN follower'.proposalQueue : s = follower'.proposalQueue[i].sig
    \/ \E m \in msgs' : s = m.sp.sig
<1> TAKE s \in Signatures'
<1>1. \/ \E c \in {leader', follower'}, p \in Parties : s = c.current.sigs[p]
      \/ \E i \in DOMAIN leader'.proposalQueue : s = leader'.proposalQueue[i].sig
      \/ \E i \in DOMAIN follower'.proposalQueue : s = follower'.proposalQueue[i].sig
      \/ \E m \in msgs' : s = m.sp.sig
  BY DEF Signatures
<1> QED BY <1>1

\* Every state of the leader's history has been signed.
LEMMA HistorySigned ==
  ASSUME Chain, NEW n \in 0..Len(leader.proposalQueue)
  PROVE  \E s \in Signatures : s.vars = At(leader, n)
<1>1. CASE n = 0
  <2>1. leader.current.sigs[Leader] \in Signatures
    BY SignatureMembers DEF Parties
  <2>2. leader.current.sigs[Leader].vars = leader.current.vars
    BY Supported DEF Chain, TypeOK, ConsensusIsSupported, Parties
  <2> QED BY <1>1, <2>1, <2>2 DEF At
<1>2. CASE n # 0
  <2>1. leader.proposalQueue \in Seq(SignedProposal)
    BY DEF Chain, TypeOK, Channel
  <2>2. n \in DOMAIN leader.proposalQueue
    BY <1>2, <2>1
  <2>3. leader.proposalQueue[n].sig \in Signatures
    BY <2>2, SignatureMembers
  <2> QED BY <1>2, <2>3 DEF At
<1> QED BY <1>1, <1>2

\* The facts about Ahead, LastTurn and the queues that arithmetic needs.
LEMMA Lengths ==
  ASSUME Chain
  PROVE  /\ leader \in Channel /\ follower \in Channel
         /\ Len(leader.proposalQueue) \in Nat /\ Len(follower.proposalQueue) \in Nat
         /\ leader.current.vars.turnNum \in Nat /\ follower.current.vars.turnNum \in Nat
         /\ Ahead \in Nat /\ LastTurn \in Nat
         /\ follower.current.vars.turnNum = leader.current.vars.turnNum + Ahead
         /\ LastTurn = leader.current.vars.turnNum + Len(leader.proposalQueue)
         /\ Ahead + Len(follower.proposalQueue) <= Len(leader.proposalQueue)
<1>1. leader \in Channel /\ follower \in Channel
  BY DEF Chain, TypeOK
<1>2. Len(leader.proposalQueue) \in Nat /\ Len(follower.proposalQueue) \in Nat
  BY <1>1 DEF Channel
<1>3. leader.current.vars.turnNum \in Nat /\ follower.current.vars.turnNum \in Nat
  BY <1>1 DEF Channel, SignedVars, Vars
<1>4. Ahead \in Nat /\ Ahead + Len(follower.proposalQueue) <= Len(leader.proposalQueue)
  BY DEF Chain, FollowsLeader
<1> QED BY SMTT(30), <1>1, <1>2, <1>3, <1>4 DEF Ahead, LastTurn

\* The follower's pending history is a stretch of the leader's.
LEMMA FollowerChained ==
  ASSUME Chain
  PROVE  /\ \A n \in 0..Len(follower.proposalQueue) :
              At(follower, n) = At(leader, Ahead + n)
         /\ WellChained(follower)
<1>1. PICK N \in Nat, M \in Nat, a \in Nat, b \in Nat :
        /\ N = Len(leader.proposalQueue) /\ M = Len(follower.proposalQueue)
        /\ a = Ahead /\ b = leader.current.vars.turnNum
        /\ a + M <= N /\ follower.current.vars.turnNum = b + a
  BY SMTT(30), Lengths
<1>2. \A i \in 1..M : follower.proposalQueue[i] = leader.proposalQueue[a + i]
  BY <1>1 DEF Chain, FollowsLeader
<1>3. ASSUME NEW n \in 0..M PROVE At(follower, n) = At(leader, a + n)
  <2>1. CASE n = 0
    BY <1>1, <2>1 DEF At, Chain, FollowsLeader
  <2>2. CASE n # 0
    <3>1. n \in 1..M /\ a + n # 0
      BY <1>1, <2>2
    <3> QED BY <1>2, <2>2, <3>1 DEF At
  <2> QED BY <2>1, <2>2
<1>4. ASSUME NEW i \in 1..M
      PROVE  /\ LeadsOn(At(follower, i - 1), follower.proposalQueue[i])
             /\ At(follower, i).turnNum = (b + a) + i
  <2>1. /\ a + i \in 1..N /\ i - 1 \in 0..M /\ i \in 0..M
        /\ a + (i - 1) = (a + i) - 1 /\ b + (a + i) = (b + a) + i
    BY <1>1
  <2>2. /\ At(follower, i - 1) = At(leader, (a + i) - 1)
        /\ At(follower, i) = At(leader, a + i)
        /\ follower.proposalQueue[i] = leader.proposalQueue[a + i]
    BY <1>2, <1>3, <2>1
  <2>3. /\ LeadsOn(At(leader, (a + i) - 1), leader.proposalQueue[a + i])
        /\ At(leader, a + i).turnNum = b + (a + i)
    BY <1>1, <2>1 DEF Chain, WellChained
  <2> QED BY <2>1, <2>2, <2>3
<1>5. WellChained(follower)
  BY <1>1, <1>4 DEF WellChained
<1> QED BY <1>1, <1>3, <1>5

\* What remains true of the signatures when a step adds signatures on states that
\* were signed before, or on one new state of the turn after the last.
LEMMA SignaturesStep ==
  ASSUME Chain, LastTurn' \in Nat, NEW v,
         \/ LastTurn' = LastTurn
         \/ /\ LastTurn' = LastTurn + 1 /\ v.turnNum = LastTurn + 1
            /\ Total(v.outcome) = InitBalance[Leader] + InitBalance[Follower],
         \A s \in Signatures' : \/ \E t \in Signatures : t.vars = s.vars
                                \/ s.vars = v /\ LastTurn' = LastTurn + 1
  PROVE  /\ \A s \in Signatures' : s.vars.turnNum <= LastTurn'
         /\ NoConflictingSignatures'
         /\ FundsConserved'
<1>1. LastTurn \in Nat
  BY Lengths
<1>2. \A s \in Signatures' : s.vars.turnNum <= LastTurn'
  <2>1. \A s \in Signatures : s.vars.turnNum \in Nat /\ s.vars.turnNum <= LastTurn
    BY SignaturesType DEF Chain
  <2> QED BY <1>1, <2>1
<1>3. NoConflictingSignatures'
  <2> SUFFICES ASSUME NEW s \in Signatures', NEW t \in Signatures',
                      s.vars.turnNum = t.vars.turnNum
               PROVE  s.vars = t.vars
    BY DEF NoConflictingSignatures
  <2>1. CASE /\ \E x \in Signatures : x.vars = s.vars
             /\ \E x \in Signatures : x.vars = t.vars
    BY <2>1 DEF Chain, NoConflictingSignatures
  <2>2. CASE s.vars = v /\ LastTurn' = LastTurn + 1 /\ \E x \in Signatures : x.vars = t.vars
    BY <1>1, <2>2 DEF Chain
  <2>3. CASE t.vars = v /\ LastTurn' = LastTurn + 1 /\ \E x \in Signatures : x.vars = s.vars
    BY <1>1, <2>3 DEF Chain
  <2> QED BY <2>1, <2>2, <2>3
<1>4. FundsConserved'
  BY <1>1 DEF Chain, FundsConserved
<1> QED BY <1>2, <1>3, <1>4

\* A step that changes nothing preserves Chain.
LEMMA StutterChain ==
  ASSUME Chain, UNCHANGED vars
  PROVE  Chain'
<1>1. leader' = leader /\ follower' = follower /\ msgs' = msgs
  BY DEF vars
<1>2. Ahead' = Ahead /\ LastTurn' = LastTurn
  BY <1>1 DEF Ahead, LastTurn
<1>3. Signatures' = Signatures
  BY <1>1 DEF Signatures
<1>4. TypeOK' /\ WellChained(leader)'
  BY <1>1 DEF Chain, TypeOK
<1>5. FollowsLeader'
  BY <1>1, <1>2 DEF Chain, FollowsLeader
<1>6. \A m \in msgs' : MessageOK(m)'
  BY <1>1, <1>2 DEF Chain, MessageOK
<1>7. ConsensusIsSupported'
  BY <1>1 DEF Chain, ConsensusIsSupported
<1>8. NoConflictingSignatures' /\ FundsConserved'
  BY <1>3 DEF Chain, NoConflictingSignatures, FundsConserved
<1>9. \A s \in Signatures' : s.vars.turnNum <= LastTurn'
  BY <1>2, <1>3 DEF Chain
<1>10. Len(leader'.proposalQueue) > 0 => LastTurn' <= MaxTurnNum
  BY <1>1, <1>2 DEF Chain
<1> QED BY <1>4, <1>5, <1>6, <1>7, <1>8, <1>9, <1>10 DEF Chain

-----------------------------------------------------------------------------
(* The steps *)

\* The participants start on the same signed state with empty queues.
LEMMA InitChain == Init => Chain
<1> SUFFICES ASSUME Init PROVE Chain
  OBVIOUS
<1>1. InitVars \in Vars /\ InitVars.turnNum = InitTurnNum
  BY InitBalanceAssumption, InitTurnNumAssumption
  DEF InitVars, Vars, LedgerOutcome
<1>2. /\ leader.id = ID /\ leader.myIndex = Leader /\ leader.proposalQueue = << >>
      /\ leader.current.vars = InitVars
      /\ \A p \in Parties : leader.current.sigs[p] = Sign(InitVars, p)
      /\ follower.id = ID /\ follower.myIndex = Follower /\ follower.proposalQueue = << >>
      /\ follower.current.vars = InitVars
      /\ \A p \in Parties : follower.current.sigs[p] = Sign(InitVars, p)
      /\ msgs = {}
  BY DEF Init, newConsensusChannel
<1>3. TypeOK
  <2>1. ASSUME NEW i \in Parties PROVE newConsensusChannel(ID, i, InitVars) \in Channel
    BY <1>1, IDAssumption DEF newConsensusChannel, Channel, SignedVars, Signature, Sign
  <2> QED BY <1>2, <2>1 DEF TypeOK, Init, Parties
<1>4. WellChained(leader)
  BY <1>2 DEF WellChained
<1>5. Ahead = 0 /\ LastTurn = InitTurnNum /\ Len(leader.proposalQueue) = 0
  BY <1>1, <1>2, InitTurnNumAssumption DEF Ahead, LastTurn
<1>6. FollowsLeader
  BY <1>2, <1>5 DEF FollowsLeader, At
<1>a. \A c \in {leader, follower}, p \in Parties :
        /\ c.current.vars = InitVars
        /\ c.current.sigs[p].vars = InitVars /\ c.current.sigs[p].signer = p
  <2>1. \A p \in Parties : Sign(InitVars, p).vars = InitVars /\ Sign(InitVars, p).signer = p
    BY DEF Sign
  <2>2. ASSUME NEW c \in {leader, follower}, NEW p \in Parties
        PROVE  c.current.vars = InitVars /\ c.current.sigs[p] = Sign(InitVars, p)
    <3>1. CASE c = leader
      BY <1>2, <3>1
    <3>2. CASE c = follower
      BY <1>2, <3>2
    <3> QED BY <3>1, <3>2
  <2> QED BY <2>1, <2>2
<1>7. ConsensusIsSupported
  BY <1>a DEF ConsensusIsSupported, recoverSigner
<1>8. \A s \in Signatures : s.vars = InitVars
  BY <1>2, <1>a DEF Signatures
<1>9. Total(InitVars.outcome) = InitBalance[Leader] + InitBalance[Follower]
  <2>1. /\ InitVars.outcome.balance = InitBalance
        /\ InitVars.outcome.guarantees = [t \in Targets |-> NoGuarantee]
    BY DEF InitVars
  <2>2. Guaranteed([t \in Targets |-> NoGuarantee]) = 0
    BY NothingGuaranteed
  <2>3. InitBalance[Leader] \in Nat /\ InitBalance[Follower] \in Nat
    BY InitBalanceAssumption DEF Parties
  <2> QED BY <2>1, <2>2, <2>3 DEF Total
<1>10. NoConflictingSignatures /\ FundsConserved
  BY <1>8, <1>9 DEF NoConflictingSignatures, FundsConserved
<1>11. \A s \in Signatures : s.vars.turnNum <= LastTurn
  BY <1>1, <1>5, <1>8, InitTurnNumAssumption
<1> QED BY <1>2, <1>3, <1>4, <1>5, <1>6, <1>7, <1>10, <1>11 DEF Chain

\* Append to the queue is an extension of the history.
LEMMA AppendQueue ==
  ASSUME NEW c \in Channel, NEW sp \in SignedProposal,
         NEW d, d = [c EXCEPT !.proposalQueue = Append(@, sp)]
  PROVE  /\ d \in Channel /\ d.id = c.id /\ d.myIndex = c.myIndex
         /\ Appended(c, sp, d)
<1>1. PICK q \in Seq(SignedProposal) : q = c.proposalQueue
  BY DEF Channel
<1>2. PICK r \in Seq(SignedProposal) : r = Append(q, sp)
  <2>1. Append(q, sp) \in Seq(SignedProposal)
    OBVIOUS
  <2> QED BY Zenon, <2>1, Zenon
<1>3. d \in Channel /\ d.id = c.id /\ d.myIndex = c.myIndex /\ d.current = c.current
      /\ d.proposalQueue = r
  BY Zenon, <1>1, <1>2 DEF Channel
<1>4. Len(r) = Len(q) + 1 /\ r[Len(q) + 1] = sp /\ \A n \in 1..Len(q) : r[n] = q[n]
  BY <1>2
<1> QED BY <1>1, <1>3, <1>4 DEF Appended

\* The messages that were on the chain before the leader's queue grew still are.
LEMMA ProposeChain ==
  ASSUME Chain, NEW p \in Proposals, LeaderProposes(p)
  PROVE  Chain'
<1>1. PICK N \in Nat, b \in Nat : N = Len(leader.proposalQueue) /\ b = leader.current.vars.turnNum
  BY Lengths
<1>2. PICK v : v = HandleProposal(latestProposedVars(leader), p)
  OBVIOUS
<1>3. PICK sp : sp = [sig |-> Sign(v, Leader), proposal |-> p, turnNum |-> v.turnNum]
  BY Zenon
<1>4. leader \in Channel /\ WellChained(leader) /\ leader.id = ID /\ leader.myIndex = Leader
  BY DEF Chain, TypeOK
<1>5. /\ CanHandle(At(leader, N), p) /\ v = HandleProposal(At(leader, N), p)
      /\ At(leader, N) \in Vars /\ At(leader, N).turnNum = b + N
  BY <1>1, <1>2, <1>4, QueueAppliesHistory, HistoryVars DEF LeaderProposes, CanPropose
<1>6. v \in Vars /\ v.turnNum = b + N + 1
  <2>1. v \in Vars /\ v.turnNum = At(leader, N).turnNum + 1
    BY <1>5, HandleProposalVars, ProposalsType
  <2> QED BY <1>5, <2>1
<1>7. LeadsOn(At(leader, N), sp) /\ sp \in SignedProposal /\ sp.sig.vars = v /\ sp.turnNum = b + N + 1
  BY <1>3, <1>5, <1>6, ProposalsType
  DEF LeadsOn, SignedProposal, Signature, Sign, Parties, Vars
<1>8. leader' = [leader EXCEPT !.proposalQueue = Append(@, sp)]
  BY <1>2, <1>3 DEF LeaderProposes, Propose
<1>9. leader' \in Channel /\ leader'.id = ID /\ leader'.myIndex = Leader /\ Appended(leader, sp, leader')
  BY <1>4, <1>7, <1>8, AppendQueue
<1>10. /\ leader'.current = leader.current
       /\ Len(leader'.proposalQueue) = N + 1
       /\ leader'.proposalQueue[N + 1] = sp
       /\ \A n \in 1..N : leader'.proposalQueue[n] = leader.proposalQueue[n]
  BY <1>1, <1>9 DEF Appended
<1>11. WellChained(leader') /\ \A n \in 0..N : At(leader', n) = At(leader, n)
  BY <1>1, <1>4, <1>7, <1>9, AppendedChained
<1>12. \A i \in 1..(N + 1) : /\ leader'.proposalQueue[i] \in SignedProposal
                             /\ leader'.proposalQueue[i].turnNum = b + i
                             /\ leader'.proposalQueue[i].proposal.ledgerID = ID
  <2> TAKE i \in 1..(N + 1)
  <2>1. i \in DOMAIN leader'.proposalQueue
    BY <1>9, <1>10 DEF Channel
  <2>2. /\ leader'.proposalQueue[i].turnNum = b + i
        /\ leader'.proposalQueue[i].proposal \in Proposals
    BY <1>1, <1>9, <1>10, <1>11, HistorySteps
  <2> QED BY <1>9, <2>1, <2>2, QueueType DEF Proposals
<1>13. follower' = follower /\ msgs' = msgs \cup {[to |-> Follower, sp |-> leader'.proposalQueue[i]] : i \in 1..(N + 1)}
  <2>1. DOMAIN leader'.proposalQueue = 1..(N + 1)
    BY <1>9, <1>10 DEF Channel
  <2> QED BY <2>1 DEF LeaderProposes
<1>14. TypeOK'
  BY <1>9, <1>12, <1>13 DEF Chain, TypeOK, Message, Parties
<1>15. LastTurn = b + N /\ LastTurn' = b + N + 1 /\ Ahead' = Ahead
  <2>1. leader'.current.vars.turnNum = b /\ Len(leader'.proposalQueue) = N + 1
    BY <1>1, <1>10
  <2>2. LastTurn = b + N
    BY <1>1 DEF LastTurn
  <2>3. LastTurn' = b + (N + 1)
    BY <2>1 DEF LastTurn
  <2>4. Ahead' = Ahead
    BY <1>1, <1>13, <2>1 DEF Ahead
  <2> QED BY <2>2, <2>3, <2>4
<1>16. Len(leader'.proposalQueue) > 0 => LastTurn' <= MaxTurnNum
  BY <1>1, <1>15, MaxTurnNumAssumption DEF LeaderProposes
<1>17. FollowsLeader'
  <2>1. PICK a \in Nat, M \in Nat : a = Ahead /\ M = Len(follower.proposalQueue) /\ a + M <= N
    BY <1>1, Lengths
  <2>2. follower.current.vars = At(leader', a)
    BY <1>11, <2>1 DEF Chain, FollowsLeader
  <2>3. \A i \in 1..M : follower.proposalQueue[i] = leader'.proposalQueue[a + i]
    <3> TAKE i \in 1..M
    <3>1. a + i \in 1..N
      BY <2>1
    <3>2. follower.proposalQueue[i] = leader.proposalQueue[a + i]
      BY <2>1 DEF Chain, FollowsLeader
    <3> QED BY <1>10, <3>1, <3>2
  <2> QED BY <1>10, <1>13, <1>15, <2>1, <2>2, <2>3 DEF FollowsLeader
<1>18. \A m \in msgs' : MessageOK(m)'
  <2> SUFFICES ASSUME NEW m \in msgs' PROVE MessageOK(m)'
    OBVIOUS
  <2>1. CASE m \in msgs
    <3>1. PICK t \in Nat : t = m.sp.turnNum
      BY <2>1 DEF Chain, TypeOK, Message, SignedProposal
    <3>2. MessageOK(m)
      BY <2>1 DEF Chain
    <3>3. ASSUME m.to = Follower
          PROVE  t <= LastTurn' /\ (t - b > 0 => m.sp = leader'.proposalQueue[t - b])
      <4>1. t <= b + N /\ (t - b > 0 => m.sp = leader.proposalQueue[t - b])
        BY <1>1, <1>15, <3>1, <3>2, <3>3 DEF MessageOK
      <4>2. t - b > 0 => t - b \in 1..N
        BY <4>1
      <4> QED BY <1>10, <1>15, <4>1, <4>2
    <3>4. ASSUME m.to = Leader
          PROVE  /\ t <= follower.current.vars.turnNum
                 /\ t - b > 0 => m.sp.sig = Sign(At(leader', t - b), Follower)
      <4>1. t <= follower.current.vars.turnNum /\ (t - b > 0 => m.sp.sig = Sign(At(leader, t - b), Follower))
        BY <1>1, <3>1, <3>2, <3>4 DEF MessageOK
      <4>2. follower.current.vars.turnNum \in Nat /\ follower.current.vars.turnNum <= b + N
        BY <1>1, Lengths
      <4>3. t - b > 0 => t - b \in 0..N
        BY <4>1, <4>2
      <4> QED BY <1>11, <4>1, <4>3
    <3> QED BY <1>1, <1>10, <1>13, <3>1, <3>2, <3>3, <3>4 DEF MessageOK
  <2>2. CASE \E i \in 1..(N + 1) : m = [to |-> Follower, sp |-> leader'.proposalQueue[i]]
    <3>1. PICK i \in 1..(N + 1) : m = [to |-> Follower, sp |-> leader'.proposalQueue[i]]
      BY <2>2
    <3>2. m.to = Follower /\ m.sp = leader'.proposalQueue[i] /\ m.sp.turnNum = b + i /\ m.sp.proposal.ledgerID = ID
      BY <1>12, <3>1
    <3>3. (b + i) - b = i /\ b + i <= LastTurn'
      BY <1>15
    <3>4. m.to # Leader
      BY <3>2 DEF Leader, Follower
    <3> QED BY <1>1, <1>10, <3>2, <3>3, <3>4 DEF MessageOK
  <2> QED BY <1>13, <2>1, <2>2
<1>19. ConsensusIsSupported'
  BY <1>10, <1>13 DEF Chain, ConsensusIsSupported
<1>20. \A s \in Signatures' : (\E t \in Signatures : t.vars = s.vars) \/ s.vars = v
  <2> SUFFICES ASSUME NEW s \in Signatures' PROVE s \in Signatures \/ s.vars = v
    OBVIOUS
  <2>1. ASSUME NEW i \in 1..(N + 1), s = leader'.proposalQueue[i].sig
        PROVE  s \in Signatures \/ s.vars = v
    <3>1. CASE i = N + 1
      BY <1>7, <1>10, <2>1, <3>1
    <3>2. CASE i # N + 1
      <4>1. i \in 1..N /\ i \in DOMAIN leader.proposalQueue
        BY <1>1, <1>4, <3>2 DEF Channel
      <4> QED BY <1>10, <2>1, <4>1, SignatureMembers
    <3> QED BY <3>1, <3>2
  <2>2. DOMAIN leader'.proposalQueue = 1..(N + 1)
    BY <1>9, <1>10 DEF Channel
  <2>3. ASSUME NEW m \in msgs', s = m.sp.sig
        PROVE  s \in Signatures \/ s.vars = v
    <3>1. CASE m \in msgs
      BY <2>3, <3>1, SignatureMembers
    <3>2. CASE m \notin msgs
      BY <1>13, <2>1, <2>3, <3>2
    <3> QED BY <3>1, <3>2
  <2> QED BY <1>10, <1>13, <2>1, <2>2, <2>3, SignatureMembers, SignatureOrigins
<1>21. Total(v.outcome) = InitBalance[Leader] + InitBalance[Follower]
  <2>1. Total(v.outcome) = Total(At(leader, N).outcome)
    BY <1>5, HandleProposalTotal, ProposalsType
  <2>2. \E s \in Signatures : s.vars = At(leader, N)
    BY <1>1, HistorySigned
  <2> QED BY <2>1, <2>2 DEF Chain, FundsConserved
<1>22. /\ \A s \in Signatures' : s.vars.turnNum <= LastTurn'
       /\ NoConflictingSignatures' /\ FundsConserved'
  <2>1. LastTurn' \in Nat /\ LastTurn' = LastTurn + 1 /\ v.turnNum = LastTurn + 1
    BY <1>6, <1>15
  <2> QED BY <1>20, <1>21, <2>1, SignaturesStep
<1> QED BY <1>11, <1>14, <1>16, <1>17, <1>18, <1>19, <1>22 DEF Chain

\* What the follower appends to its queue is the leader's next proposal.
LEMMA FollowerReceivesChain ==
  ASSUME Chain, NEW m \in msgs, FollowerReceives(m)
  PROVE  Chain'
<1>1. follower.myIndex = Follower /\ follower \in Channel /\ m.to = Follower
      /\ leader' = leader /\ msgs' = msgs
  BY DEF Chain, TypeOK, FollowerReceives
<1>2. follower' = followerReceive(follower, m.sp)
  BY <1>1 DEF FollowerReceives, Receive
<1>3. CASE ~followerAccepts(follower, m.sp)
  <2>1. follower' = follower
    BY <1>2, <1>3 DEF followerReceive
  <2> QED BY <1>1, <2>1, StutterChain DEF vars
<1>4. CASE followerAccepts(follower, m.sp)
  <2>1. PICK N \in Nat, M \in Nat, a \in Nat, b \in Nat :
          /\ N = Len(leader.proposalQueue) /\ M = Len(follower.proposalQueue)
          /\ a = Ahead /\ b = leader.current.vars.turnNum
          /\ a + M <= N /\ follower.current.vars.turnNum = b + a /\ LastTurn = b + N
    BY Zenon, Lengths
  <2>2. m.sp \in SignedProposal
    BY DEF Chain, TypeOK, Message
  <2>3. follower' = [follower EXCEPT !.proposalQueue = Append(@, m.sp)]
    BY <1>2, <1>4 DEF followerReceive
  <2>4. /\ follower' \in Channel /\ follower'.id = follower.id
        /\ follower'.myIndex = follower.myIndex /\ Appended(follower, m.sp, follower')
    BY <1>1, <2>2, <2>3, AppendQueue
  <2>5. /\ follower'.current = follower.current
        /\ Len(follower'.proposalQueue) = M + 1
        /\ follower'.proposalQueue[M + 1] = m.sp
        /\ \A n \in 1..M : follower'.proposalQueue[n] = follower.proposalQueue[n]
    BY <2>1, <2>4 DEF Appended
  <2>6. m.sp.turnNum = b + (a + M + 1)
    <3>1. WellChained(follower)
      BY FollowerChained
    <3>2. At(follower, M).turnNum = (b + a) + M
      BY SMTT(30), <1>1, <2>1, <3>1, HistoryVars
    <3>3. latestProposedVars(follower) = At(follower, M)
      BY <1>1, <2>1, <3>1, QueueAppliesHistory
    <3>4. m.sp.turnNum = latestProposedVars(follower).turnNum + 1
      BY <1>4 DEF followerAccepts, InvalidTurnNum
    <3> QED BY <3>2, <3>3, <3>4
  <2>7. a + M + 1 <= N /\ m.sp = leader.proposalQueue[a + M + 1]
    <3>1. /\ m.sp.turnNum <= b + N
          /\ m.sp.turnNum - b > 0 => m.sp = leader.proposalQueue[m.sp.turnNum - b]
      BY <1>1, <2>1 DEF Chain, MessageOK
    <3>2. m.sp.turnNum - b = a + M + 1
      BY <2>6
    <3> QED BY <2>6, <3>1, <3>2
  <2>8. Ahead' = a /\ LastTurn' = LastTurn
    BY Zenon, <1>1, <2>1, <2>5 DEF Ahead, LastTurn
  <2>9. FollowsLeader'
    <3>1. \A i \in 1..(M + 1) : follower'.proposalQueue[i] = leader.proposalQueue[a + i]
      <4> TAKE i \in 1..(M + 1)
      <4>1. CASE i = M + 1
        <5>1. a + i = a + M + 1
          BY <4>1
        <5> QED BY <2>5, <2>7, <4>1, <5>1
      <4>2. CASE i # M + 1
        <5>1. i \in 1..M
          BY <4>2
        <5>2. follower.proposalQueue[i] = leader.proposalQueue[a + i]
          BY <2>1, <5>1 DEF Chain, FollowsLeader
        <5> QED BY <2>5, <5>1, <5>2
      <4> QED BY <4>1, <4>2
    <3>2. follower.current.vars = At(leader, a)
      BY <2>1 DEF Chain, FollowsLeader
    <3>3. a + (M + 1) <= N
      BY <2>7
    <3> QED BY Zenon, <1>1, <2>1, <2>5, <2>8, <3>1, <3>2, <3>3 DEF FollowsLeader
  <2>10. TypeOK'
    BY <1>1, <2>4 DEF Chain, TypeOK
  <2>11. /\ WellChained(leader)' /\ ConsensusIsSupported'
         /\ Len(leader'.proposalQueue) > 0 => LastTurn' <= MaxTurnNum
         /\ \A x \in msgs' : MessageOK(x)'
    BY <1>1, <2>5, <2>8 DEF Chain, ConsensusIsSupported, MessageOK
  <2>12. \A s \in Signatures' : s \in Signatures
    <3> SUFFICES ASSUME NEW s \in Signatures' PROVE s \in Signatures
      OBVIOUS
    <3>1. ASSUME NEW i \in 1..(M + 1), s = follower'.proposalQueue[i].sig
          PROVE  s \in Signatures
      <4>1. CASE i = M + 1
        BY <2>5, <3>1, <4>1, SignatureMembers
      <4>2. CASE i # M + 1
        <5>1. i \in 1..M /\ i \in DOMAIN follower.proposalQueue
          BY <1>1, <2>1, <4>2 DEF Channel
        <5> QED BY <2>5, <3>1, <5>1, SignatureMembers
      <4> QED BY <4>1, <4>2
    <3>2. DOMAIN follower'.proposalQueue = 1..(M + 1)
      BY <2>4, <2>5 DEF Channel
    <3> QED BY Zenon, <1>1, <2>5, <3>1, <3>2, SignatureMembers, SignatureOrigins
  <2>13. /\ \A s \in Signatures' : s.vars.turnNum <= LastTurn'
         /\ NoConflictingSignatures' /\ FundsConserved'
    <3>1. \A s \in Signatures' : \E t \in Signatures : t.vars = s.vars
      BY <2>12
    <3>2. LastTurn' \in Nat /\ LastTurn' = LastTurn
      BY <2>1, <2>8
    <3> QED BY <3>1, <3>2, SignaturesStep
  <2> QED BY <2>9, <2>10, <2>11, <2>13 DEF Chain
<1> QED BY <1>3, <1>4

-----------------------------------------------------------------------------
(* Countersignatures *)

\* A channel after consensus sv on the first proposal of its queue.
Shifted(c, sv) == [c EXCEPT !.current = sv, !.proposalQueue = Tail(@)]

\* A follower that signs is one state further in its history.
LEMMA TailQueue ==
  ASSUME NEW c \in Channel, c.proposalQueue # << >>, NEW sv \in SignedVars,
         sv.vars = At(c, 1), NEW d, d = Shifted(c, sv)
  PROVE  /\ d \in Channel /\ d.id = c.id /\ d.myIndex = c.myIndex /\ d.current = sv
         /\ 1 \in 1..Len(c.proposalQueue) /\ 1 \in DOMAIN c.proposalQueue
         /\ Advanced(c, 1, d)
<1>1. PICK q \in Seq(SignedProposal) : q = c.proposalQueue /\ q # << >>
  BY DEF Channel
<1>2. PICK r \in Seq(SignedProposal) : r = Tail(q)
  <2>1. Tail(q) \in Seq(SignedProposal)
    BY <1>1
  <2> QED BY Zenon, <2>1, Zenon
<1>3. d \in Channel /\ d.id = c.id /\ d.myIndex = c.myIndex /\ d.current = sv
      /\ d.proposalQueue = r
  BY Zenon, <1>1, <1>2 DEF Channel, Shifted
<1>4. /\ Len(q) \in Nat /\ 1 \in 1..Len(q) /\ 1 \in DOMAIN q
      /\ Len(r) = Len(q) - 1 /\ \A n \in 1..(Len(q) - 1) : r[n] = q[n + 1]
  BY <1>1, <1>2
<1>5. \A n \in 1..(Len(q) - 1) : r[n] = q[1 + n]
  <2> TAKE n \in 1..(Len(q) - 1)
  <2>1. n + 1 = 1 + n
    BY SMTT(20), <1>4
  <2> QED BY <1>4, <2>1
<1> QED BY <1>1, <1>3, <1>4, <1>5 DEF Advanced

\* What SignNextProposal does, in terms of the leader's history.
LEMMA FollowerSignsNext ==
  ASSUME Chain, NEW p \in Proposals, FollowerSigns(p)
  PROVE  /\ Ahead + 1 \in 1..Len(leader.proposalQueue)
         /\ At(follower, 1) = At(leader, Ahead + 1)
         /\ At(follower, 1) = HandleProposal(follower.current.vars, p)
         /\ CanHandle(follower.current.vars, p)
         /\ At(follower, 1) \in Vars
         /\ At(follower, 1).turnNum = follower.current.vars.turnNum + 1
         /\ follower'.current.vars = At(follower, 1)
         /\ follower'.current.sigs[Leader] = Sign(At(follower, 1), Leader)
         /\ follower'.current.sigs[Leader] = leader.proposalQueue[Ahead + 1].sig
         /\ follower'.current.sigs[Follower] = Sign(At(follower, 1), Follower)
         /\ Countersigned(follower) = [sig |-> Sign(At(follower, 1), Follower), proposal |-> p,
                                       turnNum |-> follower.current.vars.turnNum + 1]
         /\ follower' \in Channel /\ follower'.id = follower.id
         /\ follower'.myIndex = follower.myIndex
         /\ Advanced(follower, 1, follower')
         /\ Len(follower.proposalQueue) > 0
<1>1. PICK N \in Nat, M \in Nat, a \in Nat :
        /\ N = Len(leader.proposalQueue) /\ M = Len(follower.proposalQueue)
        /\ a = Ahead /\ a + M <= N
  BY Zenon, Lengths
<1>2. follower \in Channel /\ follower.proposalQueue # << >> /\ WellChained(follower)
  BY FollowerChained DEF Chain, TypeOK, FollowerSigns, CanSignNextProposal
<1>3. M > 0 /\ 1 \in 1..M /\ 1 \in 0..M /\ a + 1 \in 1..N
  <2>1. PICK q \in Seq(SignedProposal) : q = follower.proposalQueue
    BY <1>2 DEF Channel
  <2>2. Len(q) # 0
    BY <1>2, <2>1
  <2> QED BY <1>1, <2>1, <2>2
<1>4. At(follower, 1) = At(leader, a + 1) /\ follower.proposalQueue[1] = leader.proposalQueue[a + 1]
  BY <1>1, <1>3, FollowerChained DEF Chain, FollowsLeader
<1>5. At(follower, 0) = follower.current.vars /\ 1 - 1 = 0
  BY DEF At
<1>6. follower.proposalQueue[1].proposal = p
  BY DEF FollowerSigns, CanSignNextProposal
<1>7. /\ CanHandle(follower.current.vars, p)
      /\ At(follower, 1) = HandleProposal(follower.current.vars, p)
      /\ follower.proposalQueue[1].sig = Sign(At(follower, 1), Leader)
  <2>1. /\ CanHandle(At(follower, 1 - 1), p)
        /\ At(follower, 1) = HandleProposal(At(follower, 1 - 1), p)
        /\ follower.proposalQueue[1].sig = Sign(At(follower, 1), Leader)
    BY <1>1, <1>2, <1>3, <1>6, HistorySteps
  <2> QED BY <1>5, <2>1
<1>8. At(follower, 1) \in Vars /\ At(follower, 1).turnNum = follower.current.vars.turnNum + 1
  BY <1>1, <1>2, <1>3, HistoryVars
<1>9. PICK sv : sv = [vars |-> At(follower, 1),
                      sigs |-> [x \in Parties |-> IF x = Leader THEN follower.proposalQueue[1].sig
                                                  ELSE Sign(At(follower, 1), Follower)]]
  BY Zenon
<1>10. /\ sv.vars = At(follower, 1) /\ sv.sigs[Leader] = Sign(At(follower, 1), Leader)
       /\ sv.sigs[Follower] = Sign(At(follower, 1), Follower)
       /\ sv \in SignedVars
  BY <1>7, <1>8, <1>9 DEF Parties, Leader, Follower, SignedVars, Signature, Sign
<1>11. follower' = Shifted(follower, sv)
  BY Zenon, <1>6, <1>7, <1>9 DEF FollowerSigns, SignNextProposal, Shifted
<1>12. /\ follower' \in Channel /\ follower'.id = follower.id
       /\ follower'.myIndex = follower.myIndex /\ follower'.current = sv
       /\ Advanced(follower, 1, follower')
  BY <1>2, <1>10, <1>11, TailQueue
<1>13. Countersigned(follower) = [sig |-> Sign(At(follower, 1), Follower), proposal |-> p,
                                  turnNum |-> follower.current.vars.turnNum + 1]
  BY SMTT(20), <1>6, <1>7, <1>8 DEF Countersigned
<1> QED BY Zenon, <1>1, <1>3, <1>4, <1>7, <1>8, <1>10, <1>12, <1>13

\* The follower's consensus moves to the next state of the leader's history.
LEMMA FollowerSignsChain ==
  ASSUME Chain, NEW p \in Proposals, FollowerSigns(p)
  PROVE  Chain'
<1>1. PICK N \in Nat, M \in Nat, a \in Nat, b \in Nat :
        /\ N = Len(leader.proposalQueue) /\ M = Len(follower.proposalQueue)
        /\ a = Ahead /\ b = leader.current.vars.turnNum
        /\ a + M <= N /\ follower.current.vars.turnNum = b + a /\ LastTurn = b + N
  BY Zenon, Lengths
<1>a. a + M <= N /\ (b + a) + 1 = b + (a + 1)
  <2>1. a + M <= N
    BY <1>1
  <2>2. (b + a) + 1 = b + (a + 1)
    OBVIOUS
  <2> QED BY <2>1, <2>2
<1>2. PICK v : v = At(follower, 1)
  OBVIOUS
<1>3. PICK sp : sp = Countersigned(follower)
  OBVIOUS
<1>4. /\ a + 1 \in 1..N /\ v = At(leader, a + 1) /\ v \in Vars /\ v.turnNum = b + (a + 1)
      /\ follower'.current.vars = v
      /\ follower'.current.sigs[Leader] = Sign(v, Leader)
      /\ follower'.current.sigs[Leader] = leader.proposalQueue[a + 1].sig
      /\ follower'.current.sigs[Follower] = Sign(v, Follower)
      /\ M > 0
  <2>1. /\ a + 1 \in 1..N /\ v = At(leader, a + 1) /\ v \in Vars /\ M > 0
        /\ v.turnNum = (b + a) + 1
    BY SMTT(20), <1>1, <1>2, FollowerSignsNext
  <2>2. /\ follower'.current.vars = v
        /\ follower'.current.sigs[Leader] = Sign(v, Leader)
        /\ follower'.current.sigs[Leader] = leader.proposalQueue[a + 1].sig
        /\ follower'.current.sigs[Follower] = Sign(v, Follower)
    BY <1>1, <1>2, FollowerSignsNext
  <2> QED BY <1>a, <2>1, <2>2
<1>5. /\ follower' \in Channel /\ follower'.id = ID
      /\ follower'.myIndex = Follower /\ Advanced(follower, 1, follower')
  BY FollowerSignsNext DEF Chain, TypeOK
<1>6. sp = [sig |-> Sign(v, Follower), proposal |-> p, turnNum |-> b + (a + 1)]
  <2>1. sp = [sig |-> Sign(v, Follower), proposal |-> p,
              turnNum |-> follower.current.vars.turnNum + 1]
    BY <1>2, <1>3, FollowerSignsNext
  <2>2. follower.current.vars.turnNum + 1 = b + (a + 1)
    BY <1>1, <1>a
  <2> QED BY <2>1, <2>2
<1>7. leader' = leader /\ msgs' = msgs \cup {[to |-> Leader, sp |-> sp]}
  BY <1>3 DEF FollowerSigns
<1>8. /\ sp \in SignedProposal /\ sp.proposal.ledgerID = ID /\ sp.turnNum = b + (a + 1)
      /\ sp.sig = Sign(v, Follower)
  <2>1. p.ledgerID = ID
    BY SMTT(20) DEF Proposals
  <2> QED BY <1>4, <1>6, <2>1, ProposalsType DEF SignedProposal, Signature, Sign, Parties
<1>9. TypeOK'
  <2>1. [to |-> Leader, sp |-> sp] \in Message
    BY <1>8 DEF Message, Parties
  <2> QED BY <1>5, <1>7, <2>1 DEF Chain, TypeOK
<1>10. Ahead' = a + 1 /\ LastTurn' = LastTurn
  <2>1. Ahead' = (b + (a + 1)) - b
    BY <1>1, <1>4, <1>7 DEF Ahead
  <2>2. LastTurn' = LastTurn
    BY <1>7 DEF LastTurn
  <2> QED BY SMTT(30), <2>1, <2>2
<1>11. FollowsLeader'
  <2>1. /\ Len(follower'.proposalQueue) = M - 1
        /\ \A n \in 1..(M - 1) : follower'.proposalQueue[n] = follower.proposalQueue[1 + n]
    BY Zenon, <1>1, <1>5 DEF Advanced
  <2>2. \A i \in 1..(M - 1) : follower'.proposalQueue[i] = leader.proposalQueue[(a + 1) + i]
    <3> TAKE i \in 1..(M - 1)
    <3>1. 1 + i \in 1..M /\ a + (1 + i) = (a + 1) + i
      BY <1>1
    <3>2. follower.proposalQueue[1 + i] = leader.proposalQueue[a + (1 + i)]
      BY <1>1, <3>1 DEF Chain, FollowsLeader
    <3> QED BY <2>1, <3>1, <3>2
  <2>3. (a + 1) + (M - 1) <= N /\ a + 1 \in Nat
    BY <1>a
  <2> QED BY Zenon, <1>1, <1>4, <1>7, <1>10, <2>1, <2>2, <2>3 DEF FollowsLeader
<1>12. \A m \in msgs' : MessageOK(m)'
  <2> SUFFICES ASSUME NEW m \in msgs' PROVE MessageOK(m)'
    OBVIOUS
  <2>1. follower'.current.vars.turnNum = b + (a + 1)
    BY <1>4
  <2>2. CASE m \in msgs
    <3>1. PICK t \in Nat : t = m.sp.turnNum
      BY <2>2 DEF Chain, TypeOK, Message, SignedProposal
    <3>2. MessageOK(m)
      BY <2>2 DEF Chain
    <3>3. m.to = Leader => t <= b + (a + 1)
      <4>1. m.to = Leader => t <= b + a
        BY <1>1, <3>1, <3>2 DEF MessageOK
      <4> QED BY <4>1
    <3> QED BY <1>7, <1>10, <2>1, <3>1, <3>2, <3>3 DEF MessageOK
  <2>3. CASE m = [to |-> Leader, sp |-> sp]
    <3>1. m.to = Leader /\ m.sp = sp /\ m.to # Follower
      BY <2>3 DEF Leader, Follower
    <3>2. sp.turnNum - b = a + 1 /\ sp.turnNum <= b + (a + 1)
      BY SMTT(20), <1>8
    <3> QED BY <1>1, <1>4, <1>7, <1>8, <2>1, <3>1, <3>2 DEF MessageOK
  <2> QED BY <1>7, <2>2, <2>3
<1>13. ConsensusIsSupported'
  <2>1. \A q \in Parties : recoverSigner(follower'.current.vars, follower'.current.sigs[q]) = q
    BY <1>4 DEF recoverSigner, Sign, Parties, Leader, Follower
  <2> QED BY Zenon, <1>7, <2>1 DEF Chain, ConsensusIsSupported
<1>14. \A s \in Signatures' : s \in Signatures \/ s.vars = v
  <2> SUFFICES ASSUME NEW s \in Signatures' PROVE s \in Signatures \/ s.vars = v
    OBVIOUS
  <2>1. ASSUME NEW q \in Parties, s = follower'.current.sigs[q]
        PROVE  s \in Signatures \/ s.vars = v
    BY <1>4, <2>1 DEF Sign, Parties
  <2>2. ASSUME NEW i \in DOMAIN follower'.proposalQueue, s = follower'.proposalQueue[i].sig
        PROVE  s \in Signatures
    <3>1. i \in 1..(M - 1) /\ follower'.proposalQueue[i] = follower.proposalQueue[1 + i]
      BY SMTT(30), <1>1, <1>5, <2>2, QueueType DEF Advanced
    <3>2. 1 + i \in 1..M
      BY <3>1
    <3>3. 1 + i \in DOMAIN follower.proposalQueue
      <4>1. PICK q \in Seq(SignedProposal) : q = follower.proposalQueue
        BY DEF Chain, TypeOK, Channel
      <4> QED BY <1>1, <3>2, <4>1
    <3> QED BY <2>2, <3>1, <3>3, SignatureMembers
  <2>3. ASSUME NEW m \in msgs', s = m.sp.sig
        PROVE  s \in Signatures \/ s.vars = v
    <3>1. CASE m \in msgs
      BY <2>3, <3>1, SignatureMembers
    <3>2. CASE m \notin msgs
      BY <1>7, <1>8, <2>3, <3>2 DEF Sign
    <3> QED BY <3>1, <3>2
  <2> QED BY <1>7, <2>1, <2>2, <2>3, SignatureMembers, SignatureOrigins
<1>15. /\ \A s \in Signatures' : s.vars.turnNum <= LastTurn'
       /\ NoConflictingSignatures' /\ FundsConserved'
  <2>1. \E t \in Signatures : t.vars = v
    <3>1. a + 1 \in 0..Len(leader.proposalQueue)
      BY <1>1, <1>4
    <3> QED BY <1>4, <3>1, HistorySigned
  <2>2. \A s \in Signatures' : \E t \in Signatures : t.vars = s.vars
    BY <1>14, <2>1
  <2>3. LastTurn' \in Nat /\ LastTurn' = LastTurn
    BY <1>1, <1>10
  <2> QED BY <2>2, <2>3, SignaturesStep
<1>16. WellChained(leader)' /\ (Len(leader'.proposalQueue) > 0 => LastTurn' <= MaxTurnNum)
  BY <1>7, <1>10 DEF Chain
<1> QED BY <1>9, <1>11, <1>12, <1>13, <1>15, <1>16 DEF Chain

\* A channel after consensus sv on the k-th proposal of its queue.
Dropped(c, k, sv) == [c EXCEPT !.current = sv, !.proposalQueue = SubSeq(@, k + 1, Len(@))]

\* A leader that takes a countersignature is k states further in its history.
LEMMA SubSeqQueue ==
  ASSUME NEW c \in Channel, NEW k \in 1..Len(c.proposalQueue), NEW sv \in SignedVars,
         sv.vars = At(c, k), NEW d, d = Dropped(c, k, sv)
  PROVE  /\ d \in Channel /\ d.id = c.id /\ d.myIndex = c.myIndex /\ d.current = sv
         /\ Advanced(c, k, d)
<1>1. PICK q \in Seq(SignedProposal) : q = c.proposalQueue /\ k \in 1..Len(q)
  BY DEF Channel
<1>2. PICK r \in Seq(SignedProposal) : r = SubSeq(q, k + 1, Len(q))
  <2>1. SubSeq(q, k + 1, Len(q)) \in Seq(SignedProposal)
    BY <1>1
  <2> QED BY Zenon, <2>1, Zenon
<1>3. d \in Channel /\ d.id = c.id /\ d.myIndex = c.myIndex /\ d.current = sv
      /\ d.proposalQueue = r
  BY Zenon, <1>1, <1>2 DEF Channel, Dropped
<1>4. Len(r) = Len(q) - k /\ \A n \in 1..(Len(q) - k) : r[n] = q[k + n]
  BY SMTT(20), <1>1, <1>2
<1> QED BY <1>1, <1>3, <1>4 DEF Advanced

\* What an accepted countersignature does, in terms of the leader's history.
LEMMA LeaderReceivesNext ==
  ASSUME Chain, NEW m \in msgs, LeaderReceives(m), leaderAccepts(leader, m.sp)
  PROVE  \E k \in 1..Ahead :
           /\ k \in 1..Len(leader.proposalQueue)
           /\ leader' \in Channel /\ leader'.id = leader.id /\ leader'.myIndex = leader.myIndex
           /\ leader'.current.vars = At(leader, k)
           /\ leader'.current.sigs[Leader] = leader.proposalQueue[k].sig
           /\ leader'.current.sigs[Follower] = m.sp.sig
           /\ recoverSigner(At(leader, k), leader'.current.sigs[Leader]) = Leader
           /\ recoverSigner(At(leader, k), leader'.current.sigs[Follower]) = Follower
           /\ Advanced(leader, k, leader')
<1>1. PICK N \in Nat, a \in Nat, b \in Nat :
        /\ N = Len(leader.proposalQueue) /\ a = Ahead /\ b = leader.current.vars.turnNum
        /\ a <= N /\ follower.current.vars.turnNum = b + a
  <2>1. Ahead <= Len(leader.proposalQueue)
    BY Lengths
  <2> QED BY <2>1, Lengths
<1>2. leader \in Channel /\ WellChained(leader) /\ leader.myIndex = Leader /\ m.to = Leader
      /\ m.sp \in SignedProposal
  BY DEF Chain, TypeOK, LeaderReceives, Message
<1>3. PICK k : k = CHOOSE i \in 1..Len(leader.proposalQueue) : Countersigns(leader, m.sp, i)
  OBVIOUS
<1>4. k \in 1..N /\ Countersigns(leader, m.sp, k)
  BY <1>1, <1>3 DEF leaderAccepts
<1>5. k \in 0..N
  BY <1>4
<1>6. varsAfter(leader)[k] = At(leader, k)
  BY <1>1, <1>2, <1>5, VarsAfterHistory
<1>7. At(leader, k) \in Vars /\ At(leader, k).turnNum = b + k
  BY <1>1, <1>2, <1>5, HistoryVars
<1>8. m.sp.turnNum = b + k /\ recoverSigner(At(leader, k), m.sp.sig) = Follower
  BY <1>4, <1>6, <1>7 DEF Countersigns
<1>9. k \in 1..a
  <2>1. m.sp.turnNum <= b + a
    BY <1>1, <1>2 DEF Chain, MessageOK
  <2>2. k <= a
    BY <1>4, <1>8, <2>1
  <2> QED BY SMTT(20), <1>4, <2>2
<1>10. leader.proposalQueue[k].sig = Sign(At(leader, k), Leader)
  BY <1>1, <1>2, <1>4, HistorySteps
<1>11. PICK sv : sv = [vars |-> At(leader, k),
                       sigs |-> [x \in Parties |-> IF x = Leader THEN leader.proposalQueue[k].sig
                                                   ELSE m.sp.sig]]
  BY Zenon
<1>12. sv.vars = At(leader, k) /\ sv.sigs[Leader] = leader.proposalQueue[k].sig
       /\ sv.sigs[Follower] = m.sp.sig
  BY <1>11 DEF Parties, Leader, Follower
<1>13. sv \in SignedVars
  <2>1. leader.proposalQueue[k].sig \in Signature
    BY SMTT(20), <1>7, <1>10 DEF Signature, Sign, Parties
  <2>2. m.sp.sig \in Signature
    BY <1>2 DEF SignedProposal
  <2> QED BY SMTT(20), <1>7, <1>11, <2>1, <2>2 DEF SignedVars
<1>14. leader' = Dropped(leader, k, sv)
  <2>1. leader' = leaderReceive(leader, m.sp)
    BY <1>2 DEF LeaderReceives, Receive, Leader, Follower
  <2>2. leaderReceive(leader, m.sp)
          = [leader EXCEPT !.current = [vars |-> varsAfter(leader)[k],
                                        sigs |-> [p \in Parties |->
                                                    IF p = Leader THEN leader.proposalQueue[k].sig
                                                                  ELSE m.sp.sig]],
                           !.proposalQueue = SubSeq(@, k + 1, Len(@))]
    BY <1>3 DEF leaderReceive
  <2> QED BY <1>6, <1>11, <2>1, <2>2 DEF Dropped
<1>15. /\ leader' \in Channel /\ leader'.id = leader.id /\ leader'.myIndex = leader.myIndex
       /\ leader'.current = sv /\ Advanced(leader, k, leader')
  <2>1. k \in 1..Len(leader.proposalQueue)
    BY <1>1, <1>4
  <2>2. leader \in Channel /\ sv.vars = At(leader, k)
    BY <1>2, <1>12
  <2> QED BY <1>13, <1>14, <2>1, <2>2, SubSeqQueue
<1>16. recoverSigner(At(leader, k), leader.proposalQueue[k].sig) = Leader
  BY <1>10, RecoverSign
<1> QED BY <1>1, <1>4, <1>8, <1>9, <1>12, <1>15, <1>16

\* The leader's consensus moves along its own history, not past the follower's.
LEMMA LeaderReceivesChain ==
  ASSUME Chain, NEW m \in msgs, LeaderReceives(m)
  PROVE  Chain'
<1>1. leader.myIndex = Leader /\ leader \in Channel /\ follower' = follower /\ msgs' = msgs
  BY DEF Chain, TypeOK, LeaderReceives
<1>2. leader' = leaderReceive(leader, m.sp)
  BY <1>1 DEF LeaderReceives, Receive, Leader, Follower
<1>3. CASE ~leaderAccepts(leader, m.sp)
  <2>1. leader' = leader
    BY <1>2, <1>3 DEF leaderReceive
  <2> QED BY <1>1, <2>1, StutterChain DEF vars
<1>4. CASE leaderAccepts(leader, m.sp)
  <2>1. PICK N \in Nat, M \in Nat, a \in Nat, b \in Nat :
          /\ N = Len(leader.proposalQueue) /\ M = Len(follower.proposalQueue)
          /\ a = Ahead /\ b = leader.current.vars.turnNum
          /\ a + M <= N /\ follower.current.vars.turnNum = b + a /\ LastTurn = b + N
    BY Zenon, Lengths
  <2>2. PICK k \in 1..a :
          /\ k \in 1..Len(leader.proposalQueue)
          /\ leader' \in Channel /\ leader'.id = leader.id /\ leader'.myIndex = leader.myIndex
          /\ leader'.current.vars = At(leader, k)
          /\ leader'.current.sigs[Leader] = leader.proposalQueue[k].sig
          /\ leader'.current.sigs[Follower] = m.sp.sig
          /\ recoverSigner(At(leader, k), leader'.current.sigs[Leader]) = Leader
          /\ recoverSigner(At(leader, k), leader'.current.sigs[Follower]) = Follower
          /\ Advanced(leader, k, leader')
    BY SMTT(20), <1>4, <2>1, LeaderReceivesNext
  <2>3. /\ WellChained(leader') /\ leader'.current.vars.turnNum = b + k
        /\ \A n \in 0..(N - k) : At(leader', n) = At(leader, k + n)
    <3>1. WellChained(leader)
      BY Zenon DEF Chain
    <3>2. /\ leader'.current.vars.turnNum = leader.current.vars.turnNum + k
          /\ \A n \in 0..(Len(leader.proposalQueue) - k) : At(leader', n) = At(leader, k + n)
          /\ WellChained(leader')
      BY Zenon, <1>1, <2>2, <3>1, AdvancedChained
    <3> QED BY Zenon, <2>1, <3>2
  <2>4. /\ Len(leader'.proposalQueue) = N - k
        /\ \A n \in 1..(N - k) : leader'.proposalQueue[n] = leader.proposalQueue[k + n]
    BY <2>1, <2>2 DEF Advanced
  <2>5. a + M <= N
    BY <2>1
  <2>6. LastTurn' = LastTurn
    <3>1. LastTurn' = (b + k) + (N - k)
      BY <2>3, <2>4 DEF LastTurn
    <3>2. (b + k) + (N - k) = b + N
      OBVIOUS
    <3> QED BY <2>1, <3>1, <3>2
  <2>7. Ahead' = a - k /\ a - k \in Nat
    <3>1. Ahead' = (b + a) - (b + k)
      BY <1>1, <2>1, <2>3 DEF Ahead
    <3> QED BY <3>1
  <2>8. TypeOK'
    BY <1>1, <2>2 DEF Chain, TypeOK
  <2>9. FollowsLeader'
    <3>1. \A i \in 1..M : follower.proposalQueue[i] = leader'.proposalQueue[(a - k) + i]
      <4> TAKE i \in 1..M
      <4>1. (a - k) + i \in 1..(N - k) /\ k + ((a - k) + i) = a + i
        BY <2>5
      <4>2. follower.proposalQueue[i] = leader.proposalQueue[a + i]
        BY SMTT(30), <2>1 DEF Chain, FollowsLeader
      <4> QED BY <2>4, <4>1, <4>2
    <3>2. follower.current.vars = At(leader', a - k)
      <4>1. a - k \in 0..(N - k) /\ k + (a - k) = a
        BY <2>5
      <4>2. follower.current.vars = At(leader, a)
        BY <2>1 DEF Chain, FollowsLeader
      <4> QED BY <2>3, <4>1, <4>2
    <3>3. (a - k) + M <= N - k
      BY SMTT(30), <2>5
    <3> QED BY <1>1, <2>1, <2>4, <2>7, <3>1, <3>2, <3>3 DEF FollowsLeader
  <2>10. \A x \in msgs' : MessageOK(x)'
    <3> SUFFICES ASSUME NEW x \in msgs PROVE MessageOK(x)'
      BY <1>1
    <3>1. PICK t \in Nat : t = x.sp.turnNum
      BY DEF Chain, TypeOK, Message, SignedProposal
    <3>2. MessageOK(x)
      BY DEF Chain
    <3>3. ASSUME x.to = Follower, t - (b + k) > 0
          PROVE  x.sp = leader'.proposalQueue[t - (b + k)]
      <4>1. t <= b + N /\ (t - b > 0 => x.sp = leader.proposalQueue[t - b])
        BY <2>1, <3>1, <3>2, <3>3 DEF MessageOK
      <4>2. t - (b + k) \in 1..(N - k) /\ k + (t - (b + k)) = t - b /\ t - b > 0
        BY <3>3, <4>1
      <4> QED BY <2>4, <4>1, <4>2
    <3>4. ASSUME x.to = Leader, t - (b + k) > 0
          PROVE  x.sp.sig = Sign(At(leader', t - (b + k)), Follower)
      <4>1. t <= b + a /\ (t - b > 0 => x.sp.sig = Sign(At(leader, t - b), Follower))
        BY <2>1, <3>1, <3>2, <3>4 DEF MessageOK
      <4>2. t - (b + k) \in 0..(N - k) /\ k + (t - (b + k)) = t - b /\ t - b > 0
        BY <2>5, <3>4, <4>1
      <4> QED BY <2>3, <4>1, <4>2
    <3> QED BY <1>1, <2>3, <2>6, <3>1, <3>2, <3>3, <3>4 DEF MessageOK
  <2>11. ConsensusIsSupported'
    <3>1. \A q \in Parties : recoverSigner(leader'.current.vars, leader'.current.sigs[q]) = q
      BY <2>2 DEF Parties
    <3> QED BY <1>1, <3>1 DEF Chain, ConsensusIsSupported
  <2>12. \A s \in Signatures' : s \in Signatures
    <3> SUFFICES ASSUME NEW s \in Signatures' PROVE s \in Signatures
      OBVIOUS
    <3>1. ASSUME NEW q \in Parties, s = leader'.current.sigs[q]
          PROVE  s \in Signatures
      <4>1. k \in DOMAIN leader.proposalQueue
        BY <1>1, <2>2 DEF Channel
      <4> QED BY <2>2, <3>1, <4>1, SignatureMembers DEF Parties
    <3>2. ASSUME NEW i \in DOMAIN leader'.proposalQueue, s = leader'.proposalQueue[i].sig
          PROVE  s \in Signatures
      <4>1. i \in 1..(N - k) /\ leader'.proposalQueue[i] = leader.proposalQueue[k + i]
        BY <2>2, <2>4, <3>2, QueueType
      <4>2. k + i \in 1..N
        BY <2>5, <4>1
      <4>3. k + i \in DOMAIN leader.proposalQueue
        BY <1>1, <2>1, <4>2 DEF Channel
      <4> QED BY <3>2, <4>1, <4>3, SignatureMembers
    <3> QED BY <1>1, <3>1, <3>2, SignatureMembers, SignatureOrigins
  <2>13. /\ \A s \in Signatures' : s.vars.turnNum <= LastTurn'
         /\ NoConflictingSignatures' /\ FundsConserved'
    <3>1. \A s \in Signatures' : \E t \in Signatures : t.vars = s.vars
      BY <2>12
    <3>2. LastTurn' \in Nat /\ LastTurn' = LastTurn
      BY <2>6, Lengths
    <3> QED BY <3>1, <3>2, SignaturesStep
  <2>14. Len(leader'.proposalQueue) > 0 => LastTurn' <= MaxTurnNum
    <3>1. N - k > 0 => N > 0
      BY <2>1
    <3> QED BY <2>1, <2>4, <2>6, <3>1 DEF Chain
  <2> QED BY <2>3, <2>8, <2>9, <2>10, <2>11, <2>13, <2>14 DEF Chain
<1> QED BY <1>3, <1>4

-----------------------------------------------------------------------------
(* The theorems *)

\* Every step of the protocol preserves the chain.
LEMMA NextChain == Chain /\ [Next]_vars => Chain'
<1> SUFFICES ASSUME Chain, [Next]_vars PROVE Chain'
  OBVIOUS
<1>1. ASSUME NEW p \in Proposals, LeaderProposes(p) PROVE Chain'
  BY <1>1, ProposeChain
<1>2. ASSUME NEW p \in Proposals, FollowerSigns(p) PROVE Chain'
  BY <1>2, FollowerSignsChain
<1>3. ASSUME NEW m \in msgs, FollowerReceives(m) PROVE Chain'
  BY <1>3, FollowerReceivesChain
<1>4. ASSUME NEW m \in msgs, LeaderReceives(m) PROVE Chain'
  BY <1>4, LeaderReceivesChain
<1>5. CASE UNCHANGED vars
  BY <1>5, StutterChain
<1> QED BY <1>1, <1>2, <1>3, <1>4, <1>5 DEF Next

\* However proposals are delayed, lost, repeated or reordered, both participants
\* stay on the one chain of states that the leader signed.
THEOREM ChainInvariant == Spec => []Chain
<1>1. Init => Chain
  BY InitChain
<1>2. Chain /\ [Next]_vars => Chain'
  BY NextChain
<1> QED BY <1>1, <1>2, PTL DEF Spec

\* Type correctness: balances stay natural numbers, whatever is proposed.
THEOREM TypeCorrect == Spec => []TypeOK
<1>1. Chain => TypeOK
  BY DEF Chain
<1> QED BY <1>1, ChainInvariant, PTL

\* The consensus states of both participants are fully signed at all times.
THEOREM AlwaysSupported == Spec => []ConsensusIsSupported
<1>1. Chain => ConsensusIsSupported
  BY DEF Chain
<1> QED BY <1>1, ChainInvariant, PTL

\* Nobody ever signs two different states of the same turn.
THEOREM NeverConflicting == Spec => []NoConflictingSignatures
<1>1. Chain => NoConflictingSignatures
  BY DEF Chain
<1> QED BY <1>1, ChainInvariant, PTL

\* Every state anybody ever signs allocates what the channel was funded with.
THEOREM Conservation == Spec => []FundsConserved
<1>1. Chain => FundsConserved
  BY DEF Chain
<1> QED BY <1>1, ChainInvariant, PTL

\* The two participants' channels are one history.
THEOREM AlwaysOneHistory == Spec => []OneHistory
<1>1. ASSUME Chain PROVE OneHistory
  <2>1. PICK N \in Nat, M \in Nat, a \in Nat :
          N = Len(leader.proposalQueue) /\ M = Len(follower.proposalQueue) /\ a = Ahead
    BY <1>1, Lengths
  <2>2. a + M <= N
    BY <1>1, <2>1, Lengths
  <2>3. a \in 0..N
    BY <2>2
  <2>4. varsAfter(leader)[a] = At(leader, a)
    BY <1>1, <2>1, <2>3, VarsAfterHistory DEF Chain, TypeOK
  <2>5. /\ follower.current.vars = At(leader, a)
        /\ \A i \in 1..M : follower.proposalQueue[i] = leader.proposalQueue[a + i]
    BY <1>1, <2>1 DEF Chain, FollowsLeader
  <2>6. a = follower.current.vars.turnNum - leader.current.vars.turnNum /\ a >= 0
    BY <2>1 DEF Ahead
  <2> QED BY <2>1, <2>2, <2>4, <2>5, <2>6 DEF OneHistory
<1> QED BY <1>1, ChainInvariant, PTL

\* No message, however late it arrives, makes Receive fail.
THEOREM NoReceiveFails == Spec => []ReceiveNeverFails
<1>1. ASSUME Chain PROVE ReceiveNeverFails
  <2> SUFFICES ASSUME NEW m \in msgs
               PROVE  IF m.to = Leader THEN ~leaderReceiveFails(leader, m.sp)
                                       ELSE ~followerReceiveFails(follower, m.sp)
    BY DEF ReceiveNeverFails
  <2>1. PICK N \in Nat, M \in Nat, a \in Nat, b \in Nat :
          /\ N = Len(leader.proposalQueue) /\ M = Len(follower.proposalQueue)
          /\ a = Ahead /\ b = leader.current.vars.turnNum
          /\ follower.current.vars.turnNum = b + a /\ LastTurn = b + N
    BY Zenon, <1>1, Lengths
  <2>2. a + M <= N
    BY <1>1, <2>1, Lengths
  <2>3. /\ leader \in Channel /\ leader.id = ID /\ leader.myIndex = Leader /\ WellChained(leader)
        /\ follower \in Channel /\ follower.id = ID /\ follower.myIndex = Follower
        /\ WellChained(follower) /\ m \in Message /\ MessageOK(m)
    BY <1>1, FollowerChained DEF Chain, TypeOK
  <2>4. PICK t \in Nat : t = m.sp.turnNum
    BY <2>3 DEF Message, SignedProposal
  <2>5. m.sp.proposal.ledgerID = ID
    BY <2>3 DEF MessageOK
  <2>6. CASE m.to = Leader
    <3> SUFFICES ASSUME ~Stale(leader, m.sp) PROVE leaderAccepts(leader, m.sp)
      BY <2>3, <2>5, <2>6 DEF leaderReceiveFails
    <3>1. t - b > 0
      <4>1. ~(t <= b)
        BY Zenon, <2>1, <2>4 DEF Stale
      <4> QED BY <4>1
    <3>2. t <= b + a /\ m.sp.sig = Sign(At(leader, t - b), Follower)
      BY <2>1, <2>3, <2>4, <2>6, <3>1 DEF MessageOK
    <3>3. PICK k \in 1..N : k = t - b
      BY <2>2, <3>1, <3>2
    <3>4. k \in 0..N /\ t = b + k
      BY SMTT(20), <3>3
    <3>5. varsAfter(leader)[k] = At(leader, k) /\ Applies(leader, k)
      BY Zenon, <2>1, <2>3, <3>4, VarsAfterHistory, QueueAppliesHistory
    <3>6. At(leader, k).turnNum = t
      <4>1. k \in 0..Len(leader.proposalQueue)
        BY <2>1, <3>4
      <4>2. At(leader, k).turnNum = leader.current.vars.turnNum + k
        BY <2>3, <4>1, HistoryVars
      <4> QED BY SMTT(20), <2>1, <3>4, <4>2
    <3>7. recoverSigner(At(leader, k), m.sp.sig) = Follower
      BY <3>2, <3>3 DEF recoverSigner, Sign
    <3>8. Countersigns(leader, m.sp, k)
      BY <2>1, <2>4, <3>5, <3>6, <3>7 DEF Countersigns
    <3> QED BY <2>1, <2>3, <2>5, <3>8 DEF leaderAccepts
  <2>7. CASE m.to # Leader
    <3>0. m.to = Follower
      BY <2>3, <2>7 DEF Message, Parties
    <3>1. QueueApplies(follower) /\ latestProposedVars(follower) = At(follower, M)
      BY SMTT(20), <2>1, <2>3, QueueAppliesHistory
    <3> SUFFICES ASSUME ~InvalidTurnNum(follower, m.sp) PROVE followerAccepts(follower, m.sp)
      BY <2>3, <2>5, <2>7, <3>1 DEF followerReceiveFails
    <3>2. At(follower, M).turnNum = (b + a) + M
      <4>1. M \in 0..Len(follower.proposalQueue)
        BY <2>1
      <4>2. At(follower, M).turnNum = follower.current.vars.turnNum + M
        BY <2>3, <4>1, HistoryVars
      <4> QED BY <2>1, <4>2
    <3>3. t = ((b + a) + M) + 1
      BY <2>4, <3>1, <3>2 DEF InvalidTurnNum
    <3>4. PICK k \in Nat : k = a + M + 1 /\ t - b = k /\ k > 0 /\ k - 1 = a + M
      BY <3>3
    <3>5. t <= b + N /\ m.sp = leader.proposalQueue[k]
      BY <2>1, <2>3, <2>4, <3>0, <3>4 DEF MessageOK
    <3>6. k \in 1..N
      BY <3>4, <3>5
    <3>7. At(follower, M) = At(leader, k - 1)
      BY <1>1, <2>1, <3>4, FollowerChained
    <3>8. LeadsOn(At(follower, M), m.sp)
      BY <2>1, <2>3, <3>5, <3>6, <3>7 DEF WellChained
    <3>9. CanHandle(At(follower, M), m.sp.proposal)
          /\ recoverSigner(HandleProposal(At(follower, M), m.sp.proposal), m.sp.sig) = Leader
      BY SMTT(20), <3>8 DEF LeadsOn, recoverSigner, Sign
    <3> QED BY <2>3, <2>5, <3>1, <3>9 DEF followerAccepts
  <2> QED BY <2>6, <2>7
<1> QED BY <1>1, ChainInvariant, PTL

\* A step of the follower's consensus is one agreement, within the bound.
LEMMA FollowerSignsAgrees ==
  ASSUME Chain, NEW p \in Proposals, FollowerSigns(p)
  PROVE  /\ follower.current.vars.turnNum < MaxTurnNum
         /\ CanHandle(follower.current.vars, p)
         /\ follower'.current.vars = HandleProposal(follower.current.vars, p)
<1>1. PICK N \in Nat, a \in Nat, b \in Nat :
        /\ N = Len(leader.proposalQueue) /\ a = Ahead /\ b = leader.current.vars.turnNum
        /\ follower.current.vars.turnNum = b + a /\ LastTurn = b + N
  BY SMTT(20), Lengths
<1>2. a + 1 \in 1..N
  BY <1>1, FollowerSignsNext
<1>3. N > 0
  BY <1>2
<1>4. b + N <= MaxTurnNum
  BY <1>1, <1>3 DEF Chain
<1>5. b + a < MaxTurnNum
  BY <1>2, <1>4, MaxTurnNumAssumption
<1> QED BY Zenon, <1>1, <1>5, FollowerSignsNext

\* Receiving leaves the follower's consensus alone.
LEMMA FollowerReceivesKeeps ==
  ASSUME Chain, NEW m \in msgs, FollowerReceives(m)
  PROVE  follower'.current = follower.current /\ leader' = leader
<1>1. follower.myIndex = Follower /\ follower \in Channel
  BY DEF Chain, TypeOK
<1>2. follower' = followerReceive(follower, m.sp) /\ leader' = leader
  BY <1>1 DEF FollowerReceives, Receive
<1> QED BY <1>1, <1>2 DEF followerReceive, Channel

\* The leader learns of an agreed state, later than the last it learnt of.
LEMMA LeaderReceivesLearns ==
  ASSUME Chain, NEW m \in msgs, LeaderReceives(m), leader' # leader
  PROVE  /\ follower' = follower
         /\ leader'.current.vars.turnNum \in 0..follower.current.vars.turnNum
         /\ leader.current.vars.turnNum < leader'.current.vars.turnNum
<1>1. leaderAccepts(leader, m.sp)
  BY DEF LeaderReceives, Receive, leaderReceive, Chain, TypeOK, Leader, Follower
<1>2. PICK k \in 1..Ahead : k \in 1..Len(leader.proposalQueue) /\ leader'.current.vars = At(leader, k)
  BY <1>1, LeaderReceivesNext
<1>3. PICK N \in Nat, a \in Nat, b \in Nat :
        /\ N = Len(leader.proposalQueue) /\ a = Ahead /\ b = leader.current.vars.turnNum
        /\ follower.current.vars.turnNum = b + a /\ leader \in Channel
  BY SMTT(30), Lengths
<1>4. leader'.current.vars.turnNum = b + k
  <2>1. k \in 0..Len(leader.proposalQueue)
    BY <1>2
  <2> QED BY <1>2, <1>3, <2>1, HistoryVars DEF Chain
<1>5. b + k \in 0..(b + a) /\ b < b + k
  BY <1>2, <1>3
<1> QED BY <1>3, <1>4, <1>5 DEF LeaderReceives

\* Consensus only moves forward, the follower's by one proposal at a time.
THEOREM Advances == Spec => ConsensusAdvances
<1> DEFINE Step == /\ leader'.current.vars.turnNum >= leader.current.vars.turnNum
                   /\ follower'.current # follower.current =>
                        \E p \in Proposals :
                          /\ CanHandle(follower.current.vars, p)
                          /\ follower'.current.vars = HandleProposal(follower.current.vars, p)
<1>1. ASSUME Chain, [Next]_vars PROVE [Step]_vars
  <2>0. leader.current.vars.turnNum \in Nat /\ follower.current.vars.turnNum \in Nat
    BY <1>1, Lengths
  <2>1. ASSUME NEW p \in Proposals, LeaderProposes(p) PROVE Step
    <3>1. leader'.current = leader.current /\ follower' = follower
      BY <1>1, <2>1 DEF LeaderProposes, Propose, Chain, TypeOK, Channel
    <3> QED BY <2>0, <3>1
  <2>2. ASSUME NEW p \in Proposals, FollowerSigns(p) PROVE Step
    <3>1. leader' = leader
      BY <2>2 DEF FollowerSigns
    <3> QED BY <1>1, <2>0, <2>2, <3>1, FollowerSignsAgrees
  <2>3. ASSUME NEW m \in msgs, FollowerReceives(m) PROVE Step
    BY <1>1, <2>0, <2>3, FollowerReceivesKeeps
  <2>4. ASSUME NEW m \in msgs, LeaderReceives(m) PROVE Step
    <3>1. CASE leader' = leader
      BY <2>0, <2>4, <3>1 DEF LeaderReceives
    <3>2. CASE leader' # leader
      <4>1. /\ follower' = follower
            /\ leader'.current.vars.turnNum \in 0..follower.current.vars.turnNum
            /\ leader.current.vars.turnNum < leader'.current.vars.turnNum
        BY <1>1, <2>4, <3>2, LeaderReceivesLearns
      <4> QED BY <2>0, <4>1
    <3> QED BY <3>1, <3>2
  <2> HIDE DEF Step
  <2> QED BY <1>1, <2>1, <2>2, <2>3, <2>4 DEF Next
<1>2. ConsensusAdvances <=> [][Step]_vars
  BY DEF ConsensusAdvances
<1> QED BY <1>1, <1>2, ChainInvariant, PTL DEF Spec

\* The abstract ledger applies proposals as the channels do.
LEMMA SameLedger ==
  \A v, p : /\ Abstract!CanHandle(v, p) = CanHandle(v, p)
            /\ Abstract!HandleProposal(v, p) = HandleProposal(v, p)
<1>1. \A v, p : Abstract!CanHandle(v, p) = CanHandle(v, p)
  BY SMTT(20) DEF Abstract!CanHandle, Abstract!CanAdd, Abstract!CanRemove, Abstract!IncludesTarget,
         Abstract!RightDeposit, Abstract!NoGuarantee, Abstract!NoParty, Abstract!Leader,
         Abstract!Follower, CanHandle, CanAdd, CanRemove, IncludesTarget, RightDeposit,
         NoGuarantee, NoParty, Leader, Follower
<1>2. \A v, p : Abstract!Add(v, p) = Add(v, p) /\ Abstract!Remove(v, p) = Remove(v, p)
  BY DEF Abstract!Add, Abstract!Remove, Abstract!RightDeposit, Abstract!RemovalCredit,
         Abstract!NoGuarantee, Abstract!NoParty, Abstract!Leader, Abstract!Follower,
         Abstract!Parties, Add, Remove, RightDeposit, RemovalCredit, NoGuarantee, NoParty,
         Leader, Follower, Parties
<1> QED BY Zenon, <1>1, <1>2 DEF Abstract!HandleProposal, HandleProposal

\* The two channels and the messages between them implement one atomic ledger.
THEOREM Refinement == Spec => ImplementsAtomicLedger
<1>1. Init => Abstract!Init
  BY DEF Init, newConsensusChannel, Abstract!Init
<1>2. ASSUME Chain, [Next]_vars
      PROVE  [Abstract!Next]_<<follower.current.vars, leader.current.vars.turnNum>>
  <2>1. ASSUME NEW p \in Proposals, LeaderProposes(p)
        PROVE  UNCHANGED <<follower.current.vars, leader.current.vars.turnNum>>
    BY <1>2, <2>1 DEF LeaderProposes, Propose, Chain, TypeOK, Channel
  <2>2. ASSUME NEW p \in Proposals, FollowerSigns(p) PROVE Abstract!Next
    <3>1. leader' = leader
      BY <2>2 DEF FollowerSigns
    <3>2. Abstract!Agree(p)
      BY <1>2, <2>2, <3>1, FollowerSignsAgrees, SameLedger DEF Abstract!Agree
    <3> QED BY <3>2 DEF Abstract!Next
  <2>3. ASSUME NEW m \in msgs, FollowerReceives(m)
        PROVE  UNCHANGED <<follower.current.vars, leader.current.vars.turnNum>>
    BY <1>2, <2>3, FollowerReceivesKeeps
  <2>4. ASSUME NEW m \in msgs, LeaderReceives(m)
        PROVE  [Abstract!Next]_<<follower.current.vars, leader.current.vars.turnNum>>
    <3>1. CASE leader' = leader
      BY SMTT(20), <2>4, <3>1 DEF LeaderReceives
    <3>2. CASE leader' # leader
      <4>1. Abstract!Learn(leader'.current.vars.turnNum)
        BY <1>2, <2>4, <3>2, LeaderReceivesLearns DEF Abstract!Learn
      <4> QED BY <1>2, <2>4, <3>2, <4>1, LeaderReceivesLearns DEF Abstract!Next
    <3> QED BY <3>1, <3>2
  <2>5. CASE UNCHANGED vars
    BY <2>5 DEF vars
  <2> QED BY <1>2, <2>1, <2>2, <2>3, <2>4, <2>5 DEF Next
<1> QED BY <1>1, <1>2, ChainInvariant, PTL DEF Spec, ImplementsAtomicLedger, Abstract!Spec
=============================================================================
