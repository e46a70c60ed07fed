------------------------------ MODULE OrgBudget ------------------------------
(***************************************************************************)
(* The shared-treasury ledger of an organization                           *)
(* (packages/studio-org/src/budget.ts): agents in processes of their own   *)
(* reserve, settle and release over one SQLite file.  A transaction that   *)
(* begins IMMEDIATE holds the write lock from its first read on; time      *)
(* passes between and inside transactions.                                 *)
(***************************************************************************)
EXTENDS Integers, Sequences, FiniteSets

CONSTANTS
  Agent,             \* executing agents of the organization
  Client,            \* processes with a handle on the ledger
  Cents,             \* amounts that are asked for, and that come about
  perAction,         \* agent.escalationMaxUsdCents
  agentDaily,        \* agent.dailyMaxUsdCents
  aggregateLimits,   \* org.aggregateLimits: [maxUsdCents, windowMs]
  Day,               \* 24 * 60 * 60 * 1000, scaled
  MaxTime, MaxRows   \* bounds: the clock, and the rows of the table

ASSUME BudgetAssumption ==
  /\ Cents \subseteq Nat /\ Day \in Nat /\ MaxTime \in Nat /\ MaxRows \in Nat
  /\ perAction \in [Agent -> Nat] /\ agentDaily \in [Agent -> Nat]
  /\ aggregateLimits \subseteq [maxUsdCents : Nat, windowMs : Nat]

VARIABLES
  now,        \* the clock
  org_spend,  \* table org_spend, rows by id
  revoked,    \* table org_revocations
  lock,       \* the client, if any, whose transaction holds the write lock
  txn         \* the reserve transaction each client is in: what it has read

vars == <<now, org_spend, revoked, lock, txn>>

Row == [agent_id : Agent, usd_cents : Cents, state : {"HELD", "SETTLED", "RELEASED"},
        created_at_ms : 0..MaxTime]
Txn == [agent : Agent, cents : Cents, seen : SUBSET (1..MaxRows)]
NoTxn == [agent |-> "none"]

Init ==
  /\ now = 0
  /\ org_spend = <<>>
  /\ revoked = {}
  /\ lock = {}
  /\ txn = [c \in Client |-> NoTxn]

Tick ==
  /\ now < MaxTime
  /\ now' = now + 1
  /\ UNCHANGED <<org_spend, revoked, lock, txn>>

-----------------------------------------------------------------------------
(* Totals.                                                                 *)

\* The tightest aggregate limit, if there is one.
hasAggregate == aggregateLimits # {}
aggregate == CHOOSE a \in aggregateLimits :
               \A b \in aggregateLimits : a.maxUsdCents <= b.maxUsdCents

windowMs == IF hasAggregate THEN aggregate.windowMs ELSE Day

counts(i) == org_spend[i].state \in {"HELD", "SETTLED"}

\* The rows the query of totals selects, at time t.
selected(t, window) ==
  {i \in DOMAIN org_spend : counts(i) /\ org_spend[i].created_at_ms > t - window}

\* SUM(usd_cents) over rows: the number of their cents, each the k-th of a row.
cents(S) == Cardinality(UNION {{i} \X (1..org_spend[i].usd_cents) : i \in S})
ofAgent(S, a) == {i \in S : org_spend[i].agent_id = a}

-----------------------------------------------------------------------------
(* Operations.                                                             *)

\* reserve's transaction up to its reads: BEGIN IMMEDIATE takes the lock.
\* Mutant: BEGIN DEFERRED, which takes it at the first write.
beginDeferred(c, a, n) ==
  /\ txn[c] = NoTxn
  /\ a \notin revoked /\ n <= perAction[a]
  /\ txn' = [txn EXCEPT ![c] = [agent |-> a, cents |-> n, seen |-> selected(now, windowMs)]]
  /\ UNCHANGED <<now, org_spend, revoked, lock>>
begin(c, a, n) ==
  /\ lock = {}
  /\ a \notin revoked /\ n <= perAction[a]
  /\ lock' = {c}
  /\ txn' = [txn EXCEPT ![c] = [agent |-> a, cents |-> n, seen |-> selected(now, windowMs)]]
  /\ UNCHANGED <<now, org_spend, revoked>>

affordable(t) ==
  /\ cents(ofAgent(t.seen, t.agent)) + t.cents <= agentDaily[t.agent]
  /\ hasAggregate => cents(t.seen) + t.cents <= aggregate.maxUsdCents

\* ... and from there to COMMIT, or to the ROLLBACK of a refusal.
commit(c) ==
  /\ txn[c] # NoTxn
  /\ \/ /\ affordable(txn[c]) /\ Len(org_spend) < MaxRows
        /\ org_spend' = Append(org_spend, [agent_id |-> txn[c].agent, state |-> "HELD",
                          usd_cents |-> txn[c].cents, created_at_ms |-> now])
     \/ ~affordable(txn[c]) /\ UNCHANGED org_spend
  /\ txn' = [txn EXCEPT ![c] = NoTxn]
  /\ lock' = {}
  /\ UNCHANGED <<now, revoked>>

\* The client dies inside its transaction: SQLite rolls it back.
die(c) ==
  /\ txn[c] # NoTxn
  /\ txn' = [txn EXCEPT ![c] = NoTxn]
  /\ lock' = {}
  /\ UNCHANGED <<now, org_spend, revoked>>

settle(i, actual) ==
  /\ lock = {}
  /\ org_spend[i].state = "HELD" /\ actual <= org_spend[i].usd_cents
  /\ org_spend' = [org_spend EXCEPT ![i].state = "SETTLED", ![i].usd_cents = actual]
  /\ UNCHANGED <<now, revoked, lock, txn>>

\* Mutant: the state of the row is not part of the update's condition.
releaseAlways(i) ==
  /\ lock = {}
  /\ org_spend' = [org_spend EXCEPT ![i].state = "RELEASED"]
  /\ UNCHANGED <<now, revoked, lock, txn>>
release(i) ==
  /\ lock = {}
  /\ org_spend[i].state = "HELD"
  /\ org_spend' = [org_spend EXCEPT ![i].state = "RELEASED"]
  /\ UNCHANGED <<now, revoked, lock, txn>>

\* Mutant: the revocation does not wait for the write lock.
revokeAtOnce(a) ==
  /\ revoked' = revoked \cup {a}
  /\ UNCHANGED <<now, org_spend, lock, txn>>
revoke(a) ==
  /\ lock = {}
  /\ revoked' = revoked \cup {a}
  /\ UNCHANGED <<now, org_spend, lock, txn>>

Next ==
  \/ Tick
  \/ \E c \in Client :
       \/ \E a \in Agent, n \in Cents : begin(c, a, n)
       \/ commit(c) \/ die(c)
  \/ \E i \in DOMAIN org_spend : release(i) \/ \E n \in Cents : settle(i, n)
  \/ \E a \in Agent : revoke(a)

Spec == Init /\ [][Next]_vars

-----------------------------------------------------------------------------
(* Properties.                                                             *)

TypeOK ==
  /\ now \in 0..MaxTime
  /\ org_spend \in Seq(Row) /\ Len(org_spend) <= MaxRows
  /\ revoked \subseteq Agent
  /\ lock \subseteq Client /\ \A c, d \in lock : c = d
  /\ txn \in [Client -> Txn \cup {NoTxn}]

\* The counted rows of the window that ends at t.
during(t, window) ==
  {i \in selected(t, window) : org_spend[i].created_at_ms <= t}

\* Whatever processes race, settle, release and die: in no window of the past,
\* not only in the one that ends now, do the reservations that stood exceed
\* the aggregate or an agent's own limit (budget.ts reserve, totals).
EveryWindowHolds ==
  \A t \in 0..now :
    /\ hasAggregate => cents(during(t, windowMs)) <= aggregate.maxUsdCents
    /\ \A a \in Agent : cents(ofAgent(during(t, windowMs), a)) <= agentDaily[a]

\* One transaction at a time is past its reads, it holds the lock, and its agent
\* has not been revoked since.
LedgerInv ==
  \A c \in Client : txn[c] # NoTxn => lock = {c} /\ txn[c].agent \notin revoked

\* A revoked agent's exposure never grows again, although transactions of its
\* own were under way when it was revoked: no reservation of its appears, none
\* grows and none is reopened (budget.ts revoke, reserve, settle, release).
RevokedSpendsNoMore ==
  [][\A i \in DOMAIN org_spend' : org_spend'[i].agent_id \in revoked =>
       /\ i \in DOMAIN org_spend
       /\ org_spend'[i].usd_cents <= org_spend[i].usd_cents
       /\ org_spend'[i].state = "HELD" => org_spend[i].state = "HELD"]_vars

\* A reservation is resolved once: what is settled or released stays so, with
\* its amount, and an open one only ever shrinks (budget.ts settle, release).
ResolvedOnce ==
  [][\A i \in DOMAIN org_spend :
       /\ org_spend[i].state # "HELD" => org_spend'[i] = org_spend[i]
       /\ org_spend'[i].usd_cents <= org_spend[i].usd_cents]_vars
=============================================================================
