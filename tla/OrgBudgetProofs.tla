--------------------------- MODULE OrgBudgetProofs ---------------------------
(***************************************************************************)
(* The ledger's guarantees, for any number of agents and processes, any    *)
(* limits and windows, any table and any clock.                            *)
(***************************************************************************)
EXTENDS OrgBudget, FiniteSetTheorems, WellFoundedInduction, TLAPS

LEMMA InvInit == Init => TypeOK /\ LedgerInv
BY BudgetAssumption DEF Init, TypeOK, LedgerInv

\* A row of the table is a row, with an amount in cents.
LEMMA RowsAreRows ==
  ASSUME TypeOK, NEW i \in DOMAIN org_spend
  PROVE  org_spend[i] \in Row /\ org_spend[i].usd_cents \in Nat
<1>1. org_spend[i] \in Row
  BY DEF TypeOK
<1> QED BY <1>1, BudgetAssumption DEF Row

LEMMA TypeStep ==
  ASSUME TypeOK, [Next]_vars
  PROVE  TypeOK'
<1> USE BudgetAssumption DEF TypeOK
<1>1. CASE Tick
  BY <1>1 DEF Tick
<1>2. ASSUME NEW c \in Client, NEW a \in Agent, NEW n \in Cents, begin(c, a, n)
      PROVE  TypeOK'
  <2>1. selected(now, windowMs) \in SUBSET (1..MaxRows)
    BY DEF selected
  <2>2. [agent |-> a, cents |-> n, seen |-> selected(now, windowMs)] \in Txn
    BY <2>1 DEF Txn
  <2> QED BY <1>2, <2>2 DEF begin
<1>3. ASSUME NEW c \in Client, commit(c)
      PROVE  TypeOK'
  <2>1. txn[c] \in Txn
    BY <1>3 DEF commit
  <2> DEFINE new == [agent_id |-> txn[c].agent, state |-> "HELD",
                     usd_cents |-> txn[c].cents, created_at_ms |-> now]
  <2>2. new \in Row
    BY <2>1 DEF Txn, Row
  <2>3. UNCHANGED org_spend \/ (org_spend' = Append(org_spend, new) /\ Len(org_spend) < MaxRows)
    BY <1>3 DEF commit
  <2> HIDE DEF new
  <2>4. org_spend' \in Seq(Row) /\ Len(org_spend') <= MaxRows
    <3>1. CASE UNCHANGED org_spend
      BY <3>1
    <3>2. CASE org_spend' = Append(org_spend, new) /\ Len(org_spend) < MaxRows
      <4>1. Len(org_spend') = Len(org_spend) + 1 /\ Len(org_spend) \in Nat
        BY <3>2
      <4>2. org_spend' \in Seq(Row)
        BY <2>2, <3>2
      <4> QED BY <3>2, <4>1, <4>2
    <3> QED BY <2>3, <3>1, <3>2
  <2> QED BY <1>3, <2>4 DEF commit
<1>4. ASSUME NEW c \in Client, die(c)
      PROVE  TypeOK'
  BY <1>4 DEF die
<1>5. ASSUME NEW i \in DOMAIN org_spend, release(i)
      PROVE  TypeOK'
  <2>1. [org_spend[i] EXCEPT !.state = "RELEASED"] \in Row
    BY RowsAreRows DEF Row
  <2>2. org_spend' = [org_spend EXCEPT ![i] = [org_spend[i] EXCEPT !.state = "RELEASED"]]
    BY <1>5 DEF release
  <2>3. org_spend' \in Seq(Row) /\ Len(org_spend') = Len(org_spend)
    BY <2>1, <2>2
  <2> QED BY <1>5, <2>3 DEF release
<1>6. ASSUME NEW i \in DOMAIN org_spend, NEW n \in Cents, settle(i, n)
      PROVE  TypeOK'
  <2> DEFINE new == [org_spend[i] EXCEPT !.state = "SETTLED", !.usd_cents = n]
  <2>1. new \in Row
    BY RowsAreRows DEF Row
  <2>2. org_spend' = [org_spend EXCEPT ![i] = new]
    BY <1>6 DEF settle
  <2> HIDE DEF new
  <2>3. org_spend' \in Seq(Row) /\ Len(org_spend') = Len(org_spend)
    BY <2>1, <2>2
  <2> QED BY <1>6, <2>3 DEF settle
<1>7. ASSUME NEW a \in Agent, revoke(a)
      PROVE  TypeOK'
  BY <1>7 DEF revoke
<1>8. CASE UNCHANGED vars
  BY <1>8 DEF vars
<1> QED BY <1>1, <1>2, <1>3, <1>4, <1>5, <1>6, <1>7, <1>8 DEF Next

\* A transaction past its reads holds the lock, so nothing it read changes and
\* nobody revokes its agent before it ends.
LEMMA LedgerStep ==
  ASSUME TypeOK, LedgerInv, [Next]_vars
  PROVE  LedgerInv'
<1> SUFFICES ASSUME NEW c \in Client, txn'[c] # NoTxn
             PROVE  lock' = {c} /\ txn'[c].agent \notin revoked'
  BY DEF LedgerInv
<1> USE DEF TypeOK, LedgerInv
<1>1. CASE Tick
  BY <1>1 DEF Tick
<1>2. ASSUME NEW d \in Client, NEW a \in Agent, NEW n \in Cents, begin(d, a, n)
      PROVE  lock' = {c} /\ txn'[c].agent \notin revoked'
  <2>1. CASE c = d
    BY <1>2, <2>1 DEF begin
  <2>2. CASE c # d
    BY <1>2, <2>2 DEF begin
  <2> QED BY <2>1, <2>2
<1>3. ASSUME NEW d \in Client, commit(d) \/ die(d)
      PROVE  lock' = {c} /\ txn'[c].agent \notin revoked'
  <2>1. c # d /\ txn[c] # NoTxn /\ txn[d] # NoTxn
    BY <1>3 DEF commit, die
  <2> QED BY <2>1
<1>4. ASSUME NEW i \in DOMAIN org_spend, release(i) \/ \E n \in Cents : settle(i, n)
      PROVE  lock' = {c} /\ txn'[c].agent \notin revoked'
  BY <1>4 DEF release, settle
<1>5. ASSUME NEW a \in Agent, revoke(a)
      PROVE  lock' = {c} /\ txn'[c].agent \notin revoked'
  BY <1>5 DEF revoke
<1>6. CASE UNCHANGED vars
  BY <1>6 DEF vars
<1> QED BY <1>1, <1>2, <1>3, <1>4, <1>5, <1>6 DEF Next

\* The table keeps its type and reserve transactions exclude each other and
\* every revocation (budget.ts reserve: BEGIN IMMEDIATE).
THEOREM Invariant == Spec => [](TypeOK /\ LedgerInv)
BY InvInit, TypeStep, LedgerStep, PTL DEF Spec

\* Every variable of the ledger keeps its type.
THEOREM TypeCorrect == Spec => []TypeOK
BY Invariant, PTL

\* Reserve transactions exclude each other and revocations.
THEOREM Exclusive == Spec => []LedgerInv
BY Invariant, PTL

\* Nothing but settle and release touches a row that exists, and both only one
\* that is HELD.
LEMMA RowsOfStep ==
  ASSUME TypeOK, LedgerInv, Next
  PROVE  /\ \A i \in DOMAIN org_spend :
              /\ i \in DOMAIN org_spend'
              /\ org_spend[i].state # "HELD" => org_spend'[i] = org_spend[i]
              /\ org_spend'[i].usd_cents <= org_spend[i].usd_cents
              /\ org_spend'[i].agent_id = org_spend[i].agent_id
              /\ org_spend'[i].state = "HELD" => org_spend[i].state = "HELD"
         /\ \A i \in DOMAIN org_spend' :
              i \in DOMAIN org_spend \/ org_spend'[i].agent_id \notin revoked
<1> USE BudgetAssumption DEF TypeOK
<1>0. \A i \in DOMAIN org_spend : org_spend[i] \in Row /\ org_spend[i].usd_cents \in Nat
  BY RowsAreRows
<1>1. CASE UNCHANGED org_spend
  BY <1>0, <1>1
<1>2. ASSUME NEW c \in Client, commit(c), ~UNCHANGED org_spend
      PROVE  /\ \A i \in DOMAIN org_spend : i \in DOMAIN org_spend' /\ org_spend'[i] = org_spend[i]
             /\ \A i \in DOMAIN org_spend' :
                  i \in DOMAIN org_spend \/ org_spend'[i].agent_id \notin revoked
  <2> DEFINE new == [agent_id |-> txn[c].agent, state |-> "HELD",
                     usd_cents |-> txn[c].cents, created_at_ms |-> now]
  <2>1. org_spend' = Append(org_spend, new)
    BY <1>2 DEF commit
  <2>2. new.agent_id \notin revoked
    BY <1>2 DEF commit, LedgerInv
  <2> HIDE DEF new
  <2>3. new \in Row
    <3>1. txn[c] \in Txn
      BY <1>2 DEF commit
    <3> QED BY <3>1 DEF new, Txn, Row
  <2> QED BY <2>1, <2>2, <2>3
<1>3. ASSUME NEW k \in DOMAIN org_spend, release(k)
      PROVE  /\ DOMAIN org_spend' = DOMAIN org_spend
             /\ org_spend[k].state = "HELD"
             /\ org_spend'[k].agent_id = org_spend[k].agent_id
             /\ org_spend'[k].usd_cents <= org_spend[k].usd_cents
             /\ \A i \in DOMAIN org_spend \ {k} : org_spend'[i] = org_spend[i]
  <2>1. org_spend' = [org_spend EXCEPT ![k] = [org_spend[k] EXCEPT !.state = "RELEASED"]]
    BY <1>3 DEF release
  <2> QED BY <1>0, <1>3, <2>1 DEF release, Row
<1>4. ASSUME NEW k \in DOMAIN org_spend, NEW n \in Cents, settle(k, n)
      PROVE  /\ DOMAIN org_spend' = DOMAIN org_spend
             /\ org_spend[k].state = "HELD"
             /\ org_spend'[k].agent_id = org_spend[k].agent_id
             /\ org_spend'[k].usd_cents <= org_spend[k].usd_cents
             /\ \A i \in DOMAIN org_spend \ {k} : org_spend'[i] = org_spend[i]
  <2>1. org_spend' = [org_spend EXCEPT ![k] =
                        [org_spend[k] EXCEPT !.state = "SETTLED", !.usd_cents = n]]
    BY <1>4 DEF settle
  <2> QED BY <1>0, <1>4, <2>1 DEF settle, Row
<1>5. UNCHANGED org_spend \/ (\E c \in Client : commit(c))
        \/ \E k \in DOMAIN org_spend : release(k) \/ \E n \in Cents : settle(k, n)
  BY DEF Next, Tick, begin, die, revoke
<1>6. CASE \E k \in DOMAIN org_spend : release(k) \/ \E n \in Cents : settle(k, n)
  <2> PICK k \in DOMAIN org_spend : release(k) \/ \E n \in Cents : settle(k, n)
    BY <1>6
  <2>1. /\ DOMAIN org_spend' = DOMAIN org_spend
        /\ org_spend[k].state = "HELD"
        /\ org_spend'[k].agent_id = org_spend[k].agent_id
        /\ org_spend'[k].usd_cents <= org_spend[k].usd_cents
        /\ \A i \in DOMAIN org_spend \ {k} : org_spend'[i] = org_spend[i]
    BY <1>3, <1>4
  <2> QED BY <1>0, <2>1
<1>7. CASE \E c \in Client : commit(c) /\ ~UNCHANGED org_spend
  BY <1>0, <1>2, <1>7
<1> QED BY <1>1, <1>5, <1>6, <1>7

\* A resolved reservation keeps its state and its amount, and no amount grows
\* (budget.ts settle, release).
THEOREM ResolvedForGood == Spec => ResolvedOnce
<1>1. TypeOK /\ LedgerInv /\ [Next]_vars =>
        [\A i \in DOMAIN org_spend :
           /\ org_spend[i].state # "HELD" => org_spend'[i] = org_spend[i]
           /\ org_spend'[i].usd_cents <= org_spend[i].usd_cents]_vars
  BY RowsOfStep
<1> QED BY Invariant, <1>1, PTL DEF Spec, ResolvedOnce

\* A revoked agent reserves nothing more, whatever of its transactions was
\* under way when it was revoked (budget.ts revoke, reserve).
THEOREM RevocationHolds == Spec => RevokedSpendsNoMore
<1>1. TypeOK /\ LedgerInv /\ [Next]_vars =>
        [\A i \in DOMAIN org_spend' : org_spend'[i].agent_id \in revoked =>
           /\ i \in DOMAIN org_spend
           /\ org_spend'[i].usd_cents <= org_spend[i].usd_cents
           /\ org_spend'[i].state = "HELD" => org_spend[i].state = "HELD"]_vars
  BY RowsOfStep
<1> QED BY Invariant, <1>1, PTL DEF Spec, RevokedSpendsNoMore

-----------------------------------------------------------------------------
(* Sums of amounts, as cardinalities.                                      *)

\* The cents of the rows in S, and what the limits ask of such rows.
Coins(rows, S)    == UNION {{i} \X (1..rows[i].usd_cents) : i \in S}
Sum(rows, S)      == Cardinality(Coins(rows, S))
By(rows, S, a)    == {i \in S : rows[i].agent_id = a}
Within(rows, S)   ==
  /\ hasAggregate => Sum(rows, S) <= aggregate.maxUsdCents
  /\ \A a \in Agent : Sum(rows, By(rows, S, a)) <= agentDaily[a]

\* A set of naturals with an element has a least one.
LEMMA Least ==
  ASSUME NEW T \in SUBSET Nat, T # {} PROVE \E x \in T : \A y \in T : x <= y
<1> DEFINE less == OpToRel(<, Nat)
<1>1. \A y, z \in Nat : y < z => <<y, z>> \in less
  BY DEF OpToRel
<1>2. IsWellFoundedOn(less, Nat)
  BY NatLessThanWellFounded
<1> HIDE DEF less
<1>3. PICK x \in T : \A y \in T : <<y, x>> \notin less
  BY <1>2, WFMin
<1>4. x \in Nat /\ \A y \in T : y \in Nat
  OBVIOUS
<1>5. \A y \in T : ~(y < x)
  BY <1>1, <1>3, <1>4
<1>6. \A y \in T : x <= y
  BY <1>4, <1>5
<1> QED BY <1>3, <1>6

\* The tightest limit is one of the limits, so it is a number.
LEMMA LimitsAreNumbers ==
  /\ hasAggregate => aggregate.maxUsdCents \in Nat
  /\ \A a \in Agent : agentDaily[a] \in Nat
  /\ windowMs \in Nat
<1>1. ASSUME hasAggregate PROVE aggregate \in aggregateLimits
  <2> DEFINE T == {a.maxUsdCents : a \in aggregateLimits}
  <2>1. T \in SUBSET Nat /\ T # {}
    BY <1>1, BudgetAssumption DEF hasAggregate
  <2> HIDE DEF T
  <2>2. PICK x \in T : \A y \in T : x <= y
    BY <2>1, Least
  <2>3. PICK a \in aggregateLimits : \A b \in aggregateLimits : a.maxUsdCents <= b.maxUsdCents
    BY <2>2 DEF T
  <2> QED BY <2>3 DEF aggregate
<1> QED BY <1>1, BudgetAssumption DEF windowMs

\* Finitely many rows have finitely many cents.
LEMMA FiniteCoins ==
  ASSUME NEW rows, NEW S, IsFiniteSet(S), \A i \in S : rows[i].usd_cents \in Nat
  PROVE  IsFiniteSet(Coins(rows, S)) /\ Sum(rows, S) \in Nat
<1> DEFINE g == [i \in S |-> {i} \X (1..rows[i].usd_cents)]
           T == {{i} \X (1..rows[i].usd_cents) : i \in S}
<1>1. g \in Surjection(S, T)
  BY DEF Surjection
<1>2. IsFiniteSet(T)
  BY <1>1, FS_Surjection
<1>3. \A i \in S : IsFiniteSet({i}) /\ IsFiniteSet(1..rows[i].usd_cents)
  BY FS_Interval, FS_Singleton
<1>4. \A i \in S : IsFiniteSet({i} \X (1..rows[i].usd_cents))
  BY <1>3, FS_Product
<1>5. \A t \in T : IsFiniteSet(t)
  BY <1>4
<1>6. IsFiniteSet(UNION T)
  BY <1>2, <1>5, FS_UNION
<1> QED BY <1>6, FS_CardinalityType DEF Coins, Sum

\* Fewer rows with smaller amounts add up to less.
LEMMA SumShrinks ==
  ASSUME NEW rows, NEW more, NEW T, IsFiniteSet(T), NEW S \in SUBSET T,
         \A i \in T : more[i].usd_cents \in Nat,
         \A i \in S : rows[i].usd_cents \in Nat /\ rows[i].usd_cents <= more[i].usd_cents
  PROVE  Sum(rows, S) <= Sum(more, T) /\ Sum(rows, S) \in Nat /\ Sum(more, T) \in Nat
<1>1. IsFiniteSet(S) /\ IsFiniteSet(Coins(more, T))
  BY FS_Subset, FiniteCoins
<1>2. Coins(rows, S) \subseteq Coins(more, T)
  <2> SUFFICES ASSUME NEW i \in S, NEW p \in {i} \X (1..rows[i].usd_cents)
               PROVE  p \in {i} \X (1..more[i].usd_cents)
    BY DEF Coins
  <2>1. 1..rows[i].usd_cents \subseteq 1..more[i].usd_cents
    OBVIOUS
  <2> QED BY <2>1
<1> QED BY <1>1, <1>2, FS_Subset, FiniteCoins DEF Sum

\* Fewer rows add up to less.
LEMMA SumOfPart ==
  ASSUME NEW rows, NEW T, IsFiniteSet(T), NEW S \in SUBSET T,
         \A i \in T : rows[i].usd_cents \in Nat
  PROVE  Sum(rows, S) <= Sum(rows, T) /\ Sum(rows, S) \in Nat /\ Sum(rows, T) \in Nat
<1>1. ASSUME NEW i \in S
      PROVE  rows[i].usd_cents \in Nat /\ rows[i].usd_cents <= rows[i].usd_cents
  <2>1. rows[i].usd_cents \in Nat
    OBVIOUS
  <2> QED BY <2>1
<1> QED BY <1>1, SumShrinks

\* One more row adds its amount.
LEMMA SumAdds ==
  ASSUME NEW rows, NEW S, IsFiniteSet(S), NEW k, k \notin S,
         \A i \in S \cup {k} : rows[i].usd_cents \in Nat
  PROVE  Sum(rows, S \cup {k}) = Sum(rows, S) + rows[k].usd_cents
<1>1. PICK n \in Nat : n = rows[k].usd_cents
  OBVIOUS
<1> DEFINE new == {k} \X (1..n)
<1>2. IsFiniteSet(Coins(rows, S)) /\ Sum(rows, S) \in Nat
  BY FiniteCoins
<1>3. IsFiniteSet(new) /\ Cardinality(new) = n
  <2>1. IsFiniteSet({k}) /\ Cardinality({k}) = 1
    BY FS_Singleton
  <2>2. IsFiniteSet(1..n) /\ Cardinality(1..n) = n
    <3>1. IsFiniteSet(1..n) /\ Cardinality(1..n) = IF 1 > n THEN 0 ELSE n - 1 + 1
      <4>1. 1 \in Int /\ n \in Int
        OBVIOUS
      <4> QED BY <4>1, FS_Interval, Zenon
    <3> QED BY <3>1
  <2>3. 1 * n = n
    OBVIOUS
  <2>4. IsFiniteSet({k} \X (1..n)) /\ Cardinality({k} \X (1..n)) = Cardinality({k}) * Cardinality(1..n)
    BY <2>1, <2>2, FS_Product, Zenon
  <2> QED BY <2>1, <2>2, <2>3, <2>4
<1>4. Coins(rows, S \cup {k}) = Coins(rows, S) \cup new
  BY <1>1 DEF Coins
<1>5. Coins(rows, S) \cap new = {}
  BY DEF Coins
<1> HIDE DEF new
<1>6. Cardinality(Coins(rows, S) \cap new) = 0
  BY <1>5, FS_EmptySet
<1>7. Cardinality(Coins(rows, S) \cup new)
        = Cardinality(Coins(rows, S)) + Cardinality(new) - Cardinality(Coins(rows, S) \cap new)
  BY <1>2, <1>3, FS_Union
<1>8. PICK m \in Nat : m = Cardinality(Coins(rows, S)) /\ m = Sum(rows, S)
  BY <1>2 DEF Sum
<1>9. Cardinality(Coins(rows, S \cup {k})) = m + n - 0
  BY <1>3, <1>4, <1>6, <1>7, <1>8
<1>10. Sum(rows, S \cup {k}) = m + n
  BY <1>9 DEF Sum
<1> QED BY <1>1, <1>8, <1>10

\* What stays within the limits stays so when rows go and amounts shrink.
LEMMA WithinShrinks ==
  ASSUME NEW rows, NEW more, NEW T, IsFiniteSet(T), NEW S \in SUBSET T,
         \A i \in T : more[i].usd_cents \in Nat,
         \A i \in S : /\ rows[i].usd_cents \in Nat /\ rows[i].usd_cents <= more[i].usd_cents
                      /\ rows[i].agent_id = more[i].agent_id,
         Within(more, T)
  PROVE  Within(rows, S)
<1>1. Sum(rows, S) <= Sum(more, T) /\ Sum(rows, S) \in Nat /\ Sum(more, T) \in Nat
  BY SumShrinks
<1>2. ASSUME NEW a \in Agent PROVE Sum(rows, By(rows, S, a)) <= agentDaily[a]
  <2>1. PICK B : B = By(rows, S, a)
    OBVIOUS
  <2>2. PICK C : C = By(more, T, a)
    OBVIOUS
  <2>3. B \in SUBSET C /\ C \in SUBSET T /\ B \in SUBSET S
    BY <2>1, <2>2 DEF By
  <2>4. IsFiniteSet(C)
    BY <2>3, FS_Subset
  <2>5. /\ \A i \in C : more[i].usd_cents \in Nat
        /\ \A i \in B : rows[i].usd_cents \in Nat /\ rows[i].usd_cents <= more[i].usd_cents
    BY <2>3
  <2>6. Sum(rows, B) <= Sum(more, C) /\ Sum(rows, B) \in Nat /\ Sum(more, C) \in Nat
    BY <2>3, <2>4, <2>5, SumShrinks
  <2>7. Sum(more, C) <= agentDaily[a] /\ agentDaily[a] \in Nat
    BY <2>2, LimitsAreNumbers DEF Within
  <2> QED BY <2>1, <2>6, <2>7
<1>3. hasAggregate => Sum(more, T) <= aggregate.maxUsdCents /\ aggregate.maxUsdCents \in Nat
  BY LimitsAreNumbers DEF Within
<1>4. hasAggregate => Sum(rows, S) <= aggregate.maxUsdCents
  BY <1>1, <1>3
<1> QED BY <1>2, <1>4 DEF Within

-----------------------------------------------------------------------------
(* Every window.                                                           *)

\* What a transaction read still covers the window that ends now: it is what
\* makes the check before the insert good at the time of the insert.
SeenCovers ==
  \A c \in Client : txn[c] # NoTxn =>
    selected(now, windowMs) \subseteq txn[c].seen /\ txn[c].seen \subseteq DOMAIN org_spend

WindowInv ==
  /\ TypeOK /\ LedgerInv /\ SeenCovers /\ EveryWindowHolds
  /\ \A i \in DOMAIN org_spend : org_spend[i].created_at_ms <= now

\* Rows are finitely many, with amounts and times that are numbers.
LEMMA TableFacts ==
  ASSUME TypeOK
  PROVE  /\ IsFiniteSet(DOMAIN org_spend) /\ now \in Nat
         /\ \A i \in DOMAIN org_spend :
              org_spend[i].usd_cents \in Nat /\ org_spend[i].created_at_ms \in Nat
<1>1. DOMAIN org_spend = 1..Len(org_spend) /\ Len(org_spend) \in Nat
  BY DEF TypeOK
<1>2. \A i \in DOMAIN org_spend : org_spend[i].created_at_ms \in 0..MaxTime
  BY RowsAreRows DEF Row
<1>3. \A i \in 0..MaxTime : i \in Nat
  BY BudgetAssumption
<1>4. IsFiniteSet(DOMAIN org_spend)
  BY <1>1, FS_Interval
<1>5. now \in Nat
  BY <1>3 DEF TypeOK
<1> QED BY <1>2, <1>3, <1>4, <1>5, RowsAreRows

\* The property, in terms of sums over a table.
LEMMA Windows ==
  /\ EveryWindowHolds <=> \A t \in 0..now : Within(org_spend, during(t, windowMs))
  /\ EveryWindowHolds' <=> \A t \in 0..now' : Within(org_spend', during(t, windowMs)')
BY DEF EveryWindowHolds, Within, Sum, Coins, By, cents, ofAgent

\* The rows of a window.
LEMMA DuringIs ==
  ASSUME NEW t
  PROVE  /\ during(t, windowMs) =
              {i \in DOMAIN org_spend :
                 /\ org_spend[i].state \in {"HELD", "SETTLED"}
                 /\ org_spend[i].created_at_ms > t - windowMs /\ org_spend[i].created_at_ms <= t}
         /\ during(t, windowMs)' =
              {i \in DOMAIN org_spend' :
                 /\ org_spend'[i].state \in {"HELD", "SETTLED"}
                 /\ org_spend'[i].created_at_ms > t - windowMs /\ org_spend'[i].created_at_ms <= t}
BY DEF during, selected, counts, windowMs, hasAggregate, aggregate

\* No row comes, and rows only leave windows and shrink.
RowsShrink ==
  \A i \in DOMAIN org_spend' :
    /\ i \in DOMAIN org_spend
    /\ org_spend'[i].usd_cents <= org_spend[i].usd_cents
    /\ org_spend'[i].agent_id = org_spend[i].agent_id
    /\ org_spend'[i].created_at_ms = org_spend[i].created_at_ms
    /\ org_spend'[i].state \in {"HELD", "SETTLED"} => org_spend[i].state \in {"HELD", "SETTLED"}

\* While rows only shrink, every window holds, also the one a tick adds.
LEMMA ShrinkKeeps ==
  ASSUME WindowInv, TypeOK', RowsShrink, now' \in {now, now + 1}
  PROVE  EveryWindowHolds' /\ \A i \in DOMAIN org_spend' : org_spend'[i].created_at_ms <= now'
<1>1. /\ IsFiniteSet(DOMAIN org_spend) /\ now \in Nat /\ windowMs \in Nat
      /\ \A i \in DOMAIN org_spend :
           /\ org_spend[i].usd_cents \in Nat /\ org_spend[i].created_at_ms \in Nat
           /\ org_spend[i].created_at_ms <= now
  BY TableFacts, LimitsAreNumbers DEF WindowInv
<1>2. \A i \in DOMAIN org_spend' : org_spend'[i].usd_cents \in Nat
  <2>1. \A i \in DOMAIN org_spend' : org_spend'[i] \in Row
    BY DEF TypeOK
  <2> QED BY <2>1, BudgetAssumption DEF Row
<1>3. ASSUME NEW t \in 0..now' PROVE Within(org_spend', during(t, windowMs)')
  <2>1. PICK u \in 0..now : u = IF t <= now THEN t ELSE now
    BY <1>1
  <2>2. PICK S : S = during(t, windowMs)'
    OBVIOUS
  <2>3. PICK T : T = during(u, windowMs)
    OBVIOUS
  <2>4. Within(org_spend, T)
    BY <2>3, Windows DEF WindowInv
  <2>5. T \subseteq DOMAIN org_spend /\ S \subseteq DOMAIN org_spend'
    BY <2>2, <2>3, DuringIs
  <2>6. S \in SUBSET T
    <3> SUFFICES ASSUME NEW i \in S PROVE i \in T
      OBVIOUS
    <3>1. /\ i \in DOMAIN org_spend /\ org_spend[i].state \in {"HELD", "SETTLED"}
          /\ org_spend[i].created_at_ms > t - windowMs /\ org_spend[i].created_at_ms <= t
      BY <2>2, DuringIs DEF RowsShrink
    <3>2. org_spend[i].created_at_ms > u - windowMs /\ org_spend[i].created_at_ms <= u
      BY <1>1, <2>1, <3>1
    <3> QED BY <2>3, <3>1, <3>2, DuringIs
  <2>7. IsFiniteSet(T) /\ \A i \in T : org_spend[i].usd_cents \in Nat
    BY <1>1, <2>5, FS_Subset
  <2>8. \A i \in S : /\ org_spend'[i].usd_cents \in Nat
                     /\ org_spend'[i].usd_cents <= org_spend[i].usd_cents
                     /\ org_spend'[i].agent_id = org_spend[i].agent_id
    BY <1>2, <2>5 DEF RowsShrink
  <2> QED BY <2>2, <2>4, <2>6, <2>7, <2>8, WithinShrinks
<1>4. \A i \in DOMAIN org_spend' : org_spend'[i].created_at_ms <= now'
  BY <1>1 DEF RowsShrink
<1> QED BY <1>3, <1>4, Windows

\* The insert keeps every window: only the one that ends now gains a row, and
\* the transaction has just found room for it there.
LEMMA InsertKeeps ==
  ASSUME WindowInv, TypeOK', NEW c \in Client, txn[c] # NoTxn, affordable(txn[c]), UNCHANGED now,
         org_spend' = Append(org_spend, [agent_id |-> txn[c].agent, state |-> "HELD",
                                         usd_cents |-> txn[c].cents, created_at_ms |-> now])
  PROVE  EveryWindowHolds' /\ \A i \in DOMAIN org_spend' : org_spend'[i].created_at_ms <= now'
<1> DEFINE k == Len(org_spend) + 1
<1>1. PICK me \in Txn : me = txn[c]
  BY DEF WindowInv, TypeOK
<1>2. PICK seen : seen = me.seen
  OBVIOUS
<1>3. me.cents \in Nat /\ me.agent \in Agent
  BY BudgetAssumption DEF Txn
<1>4. /\ IsFiniteSet(DOMAIN org_spend) /\ now \in Nat /\ windowMs \in Nat
      /\ \A i \in DOMAIN org_spend :
           /\ org_spend[i].usd_cents \in Nat /\ org_spend[i].created_at_ms \in Nat
           /\ org_spend[i].created_at_ms <= now
  BY TableFacts, LimitsAreNumbers DEF WindowInv
<1>5. /\ DOMAIN org_spend' = DOMAIN org_spend \cup {k} /\ k \notin DOMAIN org_spend
      /\ \A i \in DOMAIN org_spend : org_spend'[i] = org_spend[i]
      /\ org_spend'[k].usd_cents = me.cents /\ org_spend'[k].created_at_ms = now
      /\ org_spend'[k].agent_id = me.agent
  <2>1. org_spend \in Seq(Row) /\ DOMAIN org_spend = 1..Len(org_spend) /\ Len(org_spend) \in Nat
    BY DEF WindowInv, TypeOK
  <2>2. PICK new : new = [agent_id |-> txn[c].agent, state |-> "HELD",
                          usd_cents |-> txn[c].cents, created_at_ms |-> now]
    OBVIOUS
  <2>3. org_spend' = Append(org_spend, new) /\ new.usd_cents = me.cents
        /\ new.created_at_ms = now /\ new.agent_id = me.agent
    BY <1>1, <2>2
  <2> QED BY <2>1, <2>3
<1> HIDE DEF k
<1>6. seen \subseteq DOMAIN org_spend /\ during(now, windowMs) \subseteq seen
  BY <1>1, <1>2 DEF WindowInv, SeenCovers, during
<1>7. /\ hasAggregate => Sum(org_spend, seen) + me.cents <= aggregate.maxUsdCents
      /\ Sum(org_spend, By(org_spend, seen, me.agent)) + me.cents <= agentDaily[me.agent]
  BY <1>1, <1>2 DEF affordable, cents, ofAgent, Sum, Coins, By
<1>8. IsFiniteSet(seen) /\ k \notin seen
      /\ \A i \in seen : org_spend[i].usd_cents \in Nat /\ org_spend'[i] = org_spend[i]
  BY <1>4, <1>5, <1>6, FS_Subset
<1>9. ASSUME NEW S \in SUBSET seen
      PROVE  Sum(org_spend', S \cup {k}) = Sum(org_spend, S) + me.cents
  <2>1. IsFiniteSet(S) /\ k \notin S
    BY <1>8, FS_Subset
  <2>2. Sum(org_spend', S \cup {k}) = Sum(org_spend', S) + me.cents
    <3>1. \A i \in S \cup {k} : org_spend'[i].usd_cents \in Nat
      BY <1>3, <1>5, <1>8
    <3>2. Sum(org_spend', S \cup {k}) = Sum(org_spend', S) + org_spend'[k].usd_cents
      BY <2>1, <3>1, SumAdds
    <3> QED BY <1>5, <3>2
  <2>3. Coins(org_spend', S) = Coins(org_spend, S)
    BY <1>8 DEF Coins
  <2> QED BY <2>2, <2>3 DEF Sum
<1>10. ASSUME NEW t \in 0..now, t # now PROVE Within(org_spend', during(t, windowMs)')
  <2>1. during(t, windowMs)' \subseteq during(t, windowMs)
    <3> SUFFICES ASSUME NEW i \in during(t, windowMs)' PROVE i \in during(t, windowMs)
      OBVIOUS
    <3>1. /\ i \in DOMAIN org_spend' /\ org_spend'[i].state \in {"HELD", "SETTLED"}
          /\ org_spend'[i].created_at_ms > t - windowMs /\ org_spend'[i].created_at_ms <= t
      BY DuringIs
    <3>2. i # k
      BY <1>4, <1>5, <1>10, <3>1
    <3> QED BY <1>5, <3>1, <3>2, DuringIs
  <2>2. PICK S : S = during(t, windowMs)'
    OBVIOUS
  <2>3. PICK T : T = during(t, windowMs)
    OBVIOUS
  <2>4. Within(org_spend, T) /\ S \in SUBSET T /\ T \subseteq DOMAIN org_spend
    BY <2>1, <2>2, <2>3, Windows, DuringIs DEF WindowInv
  <2>5. IsFiniteSet(T)
    BY <1>4, <2>4, FS_Subset
  <2>6. \A i \in T : org_spend[i].usd_cents \in Nat
    BY <1>4, <2>4
  <2>7. ASSUME NEW i \in S
        PROVE  /\ org_spend'[i].usd_cents \in Nat
               /\ org_spend'[i].usd_cents <= org_spend[i].usd_cents
               /\ org_spend'[i].agent_id = org_spend[i].agent_id
    <3>1. org_spend'[i] = org_spend[i] /\ org_spend[i].usd_cents \in Nat
      BY <1>5, <2>4, <2>6
    <3>2. PICK m \in Nat : m = org_spend[i].usd_cents /\ m = org_spend'[i].usd_cents
      BY <3>1
    <3>3. m <= m
      OBVIOUS
    <3> QED BY <3>1, <3>2, <3>3
  <2>8. PICK rows : rows = org_spend'
    OBVIOUS
  <2>9. \A i \in S : /\ rows[i].usd_cents \in Nat /\ rows[i].usd_cents <= org_spend[i].usd_cents
                     /\ rows[i].agent_id = org_spend[i].agent_id
    BY <2>7, <2>8
  <2>10. Within(rows, S)
    BY <2>4, <2>5, <2>6, <2>9, WithinShrinks
  <2> QED BY <2>2, <2>8, <2>10
<1>11. Within(org_spend', during(now, windowMs)')
  <2>1. PICK W : W = during(now, windowMs)
    OBVIOUS
  <2>2. PICK S : S = {i \in DOMAIN org_spend' :
                        /\ org_spend'[i].state \in {"HELD", "SETTLED"}
                        /\ org_spend'[i].created_at_ms > now - windowMs
                        /\ org_spend'[i].created_at_ms <= now}
    OBVIOUS
  <2>3. S = during(now, windowMs)'
    BY <2>2 DEF during, selected, counts, windowMs, hasAggregate, aggregate
  <2>4. S \subseteq W \cup {k} /\ W \subseteq seen
    BY <1>5, <1>6, <2>1, <2>2, DuringIs
  <2>5. Within(org_spend, W)
    BY <1>4, <2>1, Windows DEF WindowInv
  <2>6. IsFiniteSet(W) /\ \A i \in W : org_spend[i].usd_cents \in Nat
    BY <1>8, <2>4, FS_Subset
  <2>7. \A i \in seen \cup {k} : org_spend'[i].usd_cents \in Nat
    BY <1>3, <1>5, <1>8
  <2>8. IsFiniteSet(seen \cup {k})
    BY <1>8, FS_AddElement
  <2>9. hasAggregate => Sum(org_spend', S) <= aggregate.maxUsdCents
    <3>1. S \in SUBSET (seen \cup {k})
      BY <2>4
    <3>2. /\ Sum(org_spend', S) <= Sum(org_spend', seen \cup {k})
          /\ Sum(org_spend', S) \in Nat /\ Sum(org_spend', seen \cup {k}) \in Nat
      BY <2>7, <2>8, <3>1, SumOfPart
    <3>3. Sum(org_spend', seen \cup {k}) = Sum(org_spend, seen) + me.cents
      BY <1>9
    <3> QED BY <1>7, <3>2, <3>3, LimitsAreNumbers
  <2>10. ASSUME NEW a \in Agent PROVE Sum(org_spend', By(org_spend', S, a)) <= agentDaily[a]
    <3>1. PICK B : B = By(org_spend', S, a)
      OBVIOUS
    <3>2. B \subseteq S /\ \A i \in B : org_spend'[i].agent_id = a
      BY <3>1 DEF By
    <3>3. CASE a = me.agent
      <4>1. PICK mine : mine = By(org_spend, seen, a)
        OBVIOUS
      <4>2. mine \in SUBSET seen /\ B \in SUBSET (mine \cup {k})
        BY <1>8, <2>4, <3>2, <4>1 DEF By
      <4>3. IsFiniteSet(mine \cup {k}) /\ \A i \in mine \cup {k} : org_spend'[i].usd_cents \in Nat
        <5>1. mine \cup {k} \in SUBSET (seen \cup {k})
          BY <4>2
        <5> QED BY <2>7, <2>8, <5>1, FS_Subset
      <4>4. /\ Sum(org_spend', B) <= Sum(org_spend', mine \cup {k})
            /\ Sum(org_spend', B) \in Nat /\ Sum(org_spend', mine \cup {k}) \in Nat
        BY <4>2, <4>3, SumOfPart
      <4>5. Sum(org_spend', mine \cup {k}) = Sum(org_spend, mine) + me.cents
        BY <1>9, <4>2
      <4>6. Sum(org_spend, mine) + me.cents <= agentDaily[a]
        BY <1>7, <3>3, <4>1
      <4> QED BY <3>1, <4>4, <4>5, <4>6, LimitsAreNumbers
    <3>4. CASE a # me.agent
      <4>1. PICK theirs : theirs = By(org_spend, W, a)
        OBVIOUS
      <4>2. theirs \in SUBSET W /\ k \notin B
        BY <1>5, <3>2, <3>4, <4>1 DEF By
      <4>3. B \in SUBSET theirs
        BY <1>8, <2>4, <3>2, <4>1, <4>2 DEF By
      <4>4. IsFiniteSet(theirs) /\ \A i \in theirs : org_spend[i].usd_cents \in Nat
        BY <2>6, <4>2, FS_Subset
      <4>5. ASSUME NEW i \in B
            PROVE  /\ org_spend'[i].usd_cents \in Nat
                   /\ org_spend'[i].usd_cents <= org_spend[i].usd_cents
        <5>1. i \in seen
          BY <2>4, <4>2, <4>3
        <5>2. org_spend'[i] = org_spend[i] /\ org_spend[i].usd_cents \in Nat
          BY <1>8, <5>1
        <5>3. PICK m \in Nat : m = org_spend[i].usd_cents /\ m = org_spend'[i].usd_cents
          BY <5>2
        <5>4. m <= m
          OBVIOUS
        <5> QED BY <5>3, <5>4
      <4>6. /\ Sum(org_spend', B) <= Sum(org_spend, theirs)
            /\ Sum(org_spend', B) \in Nat /\ Sum(org_spend, theirs) \in Nat
        BY <4>3, <4>4, <4>5, SumShrinks
      <4>7. Sum(org_spend, theirs) <= agentDaily[a]
        BY <2>5, <4>1 DEF Within
      <4> QED BY <3>1, <4>6, <4>7, LimitsAreNumbers
    <3> QED BY <3>3, <3>4
  <2> QED BY <2>3, <2>9, <2>10 DEF Within
<1>12. \A i \in DOMAIN org_spend' : org_spend'[i].created_at_ms <= now'
  BY <1>4, <1>5
<1>13. \A t \in 0..now' : Within(org_spend', during(t, windowMs)')
  BY <1>10, <1>11
<1> QED BY <1>12, <1>13, Windows

\* What a transaction has read is not touched before it ends.
LEMMA SeenStep ==
  ASSUME WindowInv, TypeOK', LedgerInv', [Next]_vars
  PROVE  SeenCovers'
<1> SUFFICES ASSUME NEW c \in Client, txn'[c] # NoTxn
             PROVE  /\ selected(now, windowMs)' \subseteq txn'[c].seen
                    /\ txn'[c].seen \subseteq DOMAIN org_spend'
  BY DEF SeenCovers
<1>0. TypeOK /\ now \in Nat /\ windowMs \in Nat /\ windowMs' = windowMs
      /\ \A i \in DOMAIN org_spend : org_spend[i].created_at_ms \in Nat
  BY TableFacts, LimitsAreNumbers DEF WindowInv, windowMs, hasAggregate, aggregate
<1>1. CASE UNCHANGED org_spend /\ now' \in {now, now + 1} /\ txn'[c] = txn[c]
  <2>1. selected(now, windowMs)' \subseteq selected(now, windowMs)
    BY <1>0, <1>1 DEF selected, counts
  <2> QED BY <1>1, <2>1 DEF WindowInv, SeenCovers
<1>2. ASSUME NEW d \in Client, NEW a \in Agent, NEW n \in Cents, begin(d, a, n), txn'[c] # txn[c]
      PROVE  /\ selected(now, windowMs)' \subseteq txn'[c].seen
             /\ txn'[c].seen \subseteq DOMAIN org_spend'
  <2>1. txn'[c] = [agent |-> a, cents |-> n, seen |-> selected(now, windowMs)]
    BY <1>0, <1>2 DEF begin, TypeOK
  <2>2. selected(now, windowMs)' = selected(now, windowMs)
    BY <1>0, <1>2 DEF begin, selected, counts
  <2> QED BY <1>2, <2>1, <2>2 DEF begin, selected
<1>3. ASSUME NEW d \in Client, commit(d)
      PROVE  FALSE
  <2>1. c # d /\ txn[c] # NoTxn /\ txn[d] # NoTxn
    BY <1>0, <1>3 DEF commit, TypeOK
  <2> QED BY <2>1 DEF WindowInv, LedgerInv
<1>4. ASSUME NEW i \in DOMAIN org_spend, release(i) \/ \E n \in Cents : settle(i, n)
      PROVE  FALSE
  <2>1. lock = {} /\ txn[c] # NoTxn
    BY <1>4 DEF release, settle
  <2> QED BY <2>1 DEF WindowInv, LedgerInv
<1>5. CASE Tick
  BY <1>1, <1>5 DEF Tick
<1>6. ASSUME NEW d \in Client, NEW a \in Agent, NEW n \in Cents, begin(d, a, n), txn'[c] = txn[c]
      PROVE  UNCHANGED org_spend /\ now' = now
  BY <1>6 DEF begin
<1>7. ASSUME NEW d \in Client, die(d)
      PROVE  UNCHANGED org_spend /\ now' = now /\ txn'[c] = txn[c]
  BY <1>0, <1>7 DEF die, TypeOK
<1>8. CASE (\E a \in Agent : revoke(a)) \/ UNCHANGED vars
  BY <1>1, <1>8 DEF revoke, vars
<1> QED BY <1>1, <1>2, <1>3, <1>4, <1>5, <1>6, <1>7, <1>8 DEF Next

\* Every step keeps every window.
LEMMA WindowStep ==
  ASSUME WindowInv, [Next]_vars
  PROVE  WindowInv'
<1>1. TypeOK' /\ LedgerInv'
  BY TypeStep, LedgerStep DEF WindowInv
<1>2. SeenCovers'
  BY <1>1, SeenStep
<1>3. EveryWindowHolds' /\ \A i \in DOMAIN org_spend' : org_spend'[i].created_at_ms <= now'
  <2>0. \A i \in DOMAIN org_spend : org_spend[i] \in Row /\ org_spend[i].usd_cents \in Nat
    BY RowsAreRows DEF WindowInv
  <2>1. CASE UNCHANGED org_spend /\ now' \in {now, now + 1}
    <3>1. RowsShrink
      BY <2>0, <2>1 DEF RowsShrink
    <3> QED BY <1>1, <2>1, <3>1, ShrinkKeeps
  <2>2. ASSUME NEW c \in Client, commit(c), ~UNCHANGED org_spend
        PROVE  EveryWindowHolds' /\ \A i \in DOMAIN org_spend' : org_spend'[i].created_at_ms <= now'
    <3>1. /\ txn[c] # NoTxn /\ affordable(txn[c]) /\ UNCHANGED now
          /\ org_spend' = Append(org_spend, [agent_id |-> txn[c].agent, state |-> "HELD",
                                   usd_cents |-> txn[c].cents, created_at_ms |-> now])
      BY <2>2 DEF commit
    <3> QED BY <1>1, <3>1, InsertKeeps
  <2>3. ASSUME NEW k \in DOMAIN org_spend, release(k)
        PROVE  RowsShrink /\ UNCHANGED now
    <3> DEFINE new == [org_spend[k] EXCEPT !.state = "RELEASED"]
    <3>1. org_spend' = [org_spend EXCEPT ![k] = new] /\ UNCHANGED now
      BY <2>3 DEF release
    <3>2. /\ new.state = "RELEASED" /\ new.usd_cents = org_spend[k].usd_cents
          /\ new.agent_id = org_spend[k].agent_id
          /\ new.created_at_ms = org_spend[k].created_at_ms
      BY <2>0 DEF Row
    <3> HIDE DEF new
    <3>3. /\ DOMAIN org_spend' = DOMAIN org_spend
          /\ \A i \in DOMAIN org_spend : org_spend'[i] = IF i = k THEN new ELSE org_spend[i]
      BY <3>1 DEF WindowInv, TypeOK
    <3> QED BY <2>0, <3>1, <3>2, <3>3 DEF RowsShrink
  <2>4. ASSUME NEW k \in DOMAIN org_spend, NEW n \in Cents, settle(k, n)
        PROVE  RowsShrink /\ UNCHANGED now
    <3> DEFINE new == [org_spend[k] EXCEPT !.state = "SETTLED", !.usd_cents = n]
    <3>1. org_spend' = [org_spend EXCEPT ![k] = new] /\ UNCHANGED now
          /\ n <= org_spend[k].usd_cents /\ org_spend[k].state = "HELD"
      BY <2>4 DEF settle
    <3>2. /\ new.usd_cents = n /\ new.agent_id = org_spend[k].agent_id
          /\ new.created_at_ms = org_spend[k].created_at_ms
      BY <2>0 DEF Row
    <3> HIDE DEF new
    <3>3. /\ DOMAIN org_spend' = DOMAIN org_spend
          /\ \A i \in DOMAIN org_spend : org_spend'[i] = IF i = k THEN new ELSE org_spend[i]
      BY <3>1 DEF WindowInv, TypeOK
    <3> QED BY <2>0, <3>1, <3>2, <3>3 DEF RowsShrink
  <2>5. CASE \E k \in DOMAIN org_spend : release(k) \/ \E n \in Cents : settle(k, n)
    BY <1>1, <2>3, <2>4, <2>5, ShrinkKeeps
  <2>6. \/ UNCHANGED org_spend /\ now' \in {now, now + 1}
        \/ \E c \in Client : commit(c) /\ ~UNCHANGED org_spend
        \/ \E k \in DOMAIN org_spend : release(k) \/ \E n \in Cents : settle(k, n)
    BY DEF Next, Tick, begin, commit, die, revoke, vars
  <2> QED BY <2>1, <2>2, <2>5, <2>6
<1> QED BY <1>1, <1>2, <1>3 DEF WindowInv

\* In no window of the past, not only in the one that ends now, do reservations
\* exceed the aggregate or an agent's own limit: for any limits and window, any
\* number of processes and any interleaving (budget.ts reserve, totals).
THEOREM EveryWindowIsWithin == Spec => []EveryWindowHolds
<1>1. Init => WindowInv
  <2> SUFFICES ASSUME Init PROVE WindowInv
    OBVIOUS
  <2>1. TypeOK /\ LedgerInv
    BY InvInit
  <2>2. DOMAIN org_spend = {} /\ \A c \in Client : txn[c] = NoTxn
    BY DEF Init
  <2>3. ASSUME NEW t \in 0..now PROVE Within(org_spend, during(t, windowMs))
    <3>1. during(t, windowMs) = {}
      BY <2>2, DuringIs
    <3>2. Sum(org_spend, {}) = 0
      BY FS_EmptySet DEF Sum, Coins
    <3>3. \A a : By(org_spend, {}, a) = {}
      BY DEF By
    <3> QED BY <3>1, <3>2, <3>3, LimitsAreNumbers DEF Within
  <2>4. EveryWindowHolds
    BY <2>3, Windows
  <2> QED BY <2>1, <2>2, <2>4 DEF WindowInv, SeenCovers
<1>2. WindowInv /\ [Next]_vars => WindowInv'
  BY WindowStep
<1>3. WindowInv => EveryWindowHolds
  BY DEF WindowInv
<1> QED BY <1>1, <1>2, <1>3, PTL DEF Spec
=============================================================================
