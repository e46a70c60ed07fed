------------------------------- MODULE Broker -------------------------------
(***************************************************************************)
(* The capability broker (apps/broker/src).  Many createRequest calls run  *)
(* in one process and interleave at their awaits: the ENS reads, the three *)
(* chain calls of the evaluator and the signature.  Between two awaits a   *)
(* call runs alone, so each action below is one such stretch of code.  The *)
(* SQLite tables and the chain survive a crash; the calls in flight and    *)
(* the nonce counter do not.  The policy commitment is configuration and   *)
(* the same for every call, so it is left out of authorization ids.        *)
(***************************************************************************)
EXTENDS Integers, FiniteSets

CONSTANTS
  Call,          \* createRequest calls made over the life of the broker
  Key,           \* idempotency keys the clients use
  Action,        \* action kind + parameters of a request body
  Refused,       \* actions createRequest's own policy checks throw on
  Identity,      \* agent identities the name resolves to over time
  MsPerSecond, NonceScale,   \* 1000 and 1000n in the code
  MaxTime,       \* bound: the clock, in milliseconds
  MaxMints,      \* bound: capabilities minted by one run of the process
  None

ASSUME BrokerAssumption ==
  /\ Refused \subseteq Action
  /\ MsPerSecond \in Nat \ {0} /\ NonceScale \in Nat \ {0}
  /\ MaxTime \in Nat /\ MaxMints \in 0..NonceScale
  /\ None \notin Key \cup Action \cup Identity

VARIABLES
  now,                \* Date.now()
  nonceCounter,       \* this.nonceCounter
  requests,           \* table capability_requests, by its UNIQUE key
  creAuthorizations,  \* table cre_authorizations, by its PRIMARY KEY
  capabilities,       \* table capabilities
  gateway,            \* ContextLockGateway: requestCount by request hash
  verdicts,           \* the consumer's authorization records, by id
  mempool,            \* calls whose report is broadcast and not mined yet
  pc,                 \* where each call is: the await it is suspended in
  local,              \* each call's local variables
  reply               \* what the API answered each call with

tables == <<requests, creAuthorizations, capabilities>>
chain  == <<gateway, verdicts, mempool>>
vars   == <<now, nonceCounter, tables, chain, pc, local, reply>>

Verdict     == {"ALLOW", "ESCALATE", "DENY"}
Status      == {"PENDING", "ALLOWED", "ESCALATED", "DENIED", "FAILED"}
RequestHash == [action : Action, identity : Identity]
AuthId      == [request : RequestHash, evaluatedAt : 0..MaxTime]
Row         == [action : Action, identity : Identity \cup {None}, status : Status]
AuthRow     == [key : Key, verdict : Verdict]
Capability  == [key : Key, authorizationId : AuthId, issuedAt : 0..MaxTime,
                nonce : Nat]
InFlight    == {"resolve", "announce", "context", "estimate", "receipt",
                "readId", "sign"}
Local       == [key : Key \cup {None}, action : Action \cup {None},
                identity : Identity \cup {None},
                evaluation : [id : AuthId, verdict : Verdict] \cup {None},
                cap : Capability \cup {None}]
Reply       == [status : Status, cap : Capability \cup {None}]

ASSUME NoneAssumption ==
  /\ None \notin Verdict /\ None \notin Row /\ None \notin AuthRow
  /\ None \notin Capability /\ None \notin Reply
  /\ None \notin [id : AuthId, verdict : Verdict]

blank     == [key |-> None, action |-> None, identity |-> None,
              evaluation |-> None, cap |-> None]
second(t) == t \div MsPerSecond

Init ==
  /\ now = 0 /\ nonceCounter = 0
  /\ requests = [k \in Key |-> None]
  /\ creAuthorizations = [a \in AuthId |-> None]
  /\ capabilities = {}
  /\ gateway = [r \in RequestHash |-> 0]
  /\ verdicts = [a \in AuthId |-> None]
  /\ mempool = {}
  /\ pc = [c \in Call |-> "idle"]
  /\ local = [c \in Call |-> blank]
  /\ reply = [c \in Call |-> None]
-----------------------------------------------------------------------------
Goto(c, label) == pc' = [pc EXCEPT ![c] = label]

\* POST /v1/capability-requests sends an answer and the call is over.
Answer(c, status, cap) ==
  /\ Goto(c, "done")
  /\ reply' = [reply EXCEPT ![c] = [status |-> status, cap |-> cap]]

setStatus(k, status) == requests' = [requests EXCEPT ![k].status = status]

\* What getRequest rebuilds from the tables: never the capability.
getRequest(c, k) == Answer(c, requests[k].status, None)

\* An exception leaves createRequest; the API answers 503 or 500.
Throws(c) ==
  /\ Answer(c, "FAILED", None)
  /\ UNCHANGED <<now, nonceCounter, tables, verdicts, mempool, local>>

\* Mutant: only a request that was decided counts as done; any other is redone.
createRequestUnlessDecided(c, k, a) ==
  /\ pc[c] = "idle"
  /\ \/ /\ requests[k] # None
        /\ requests[k].status \in {"ALLOWED", "ESCALATED", "DENIED"}
        /\ getRequest(c, k)
        /\ UNCHANGED <<requests, local>>
     \/ /\ requests[k] # None => requests[k].status \in {"PENDING", "FAILED"}
        /\ a \notin Refused
        /\ requests' = [requests EXCEPT ![k] =
             [action |-> a, identity |-> None, status |-> "PENDING"]]
        /\ local' = [local EXCEPT ![c].key = k, ![c].action = a]
        /\ Goto(c, "resolve") /\ UNCHANGED reply
  /\ UNCHANGED <<now, nonceCounter, creAuthorizations, capabilities, chain>>

\* createRequest up to its first await: the idempotency lookup, the policy and
\* adapter checks, and the INSERT of the PENDING row.
createRequest(c, k, a) ==
  /\ pc[c] = "idle"
  /\ \/ /\ requests[k] # None
        /\ getRequest(c, k)
        /\ UNCHANGED <<requests, local>>
     \/ /\ requests[k] = None /\ a \in Refused
        /\ Answer(c, "DENIED", None)
        /\ UNCHANGED <<requests, local>>
     \/ /\ requests[k] = None /\ a \notin Refused
        /\ requests' = [requests EXCEPT ![k] =
             [action |-> a, identity |-> None, status |-> "PENDING"]]
        /\ local' = [local EXCEPT ![c].key = k, ![c].action = a]
        /\ Goto(c, "resolve") /\ UNCHANGED reply
  /\ UNCHANGED <<now, nonceCounter, creAuthorizations, capabilities, chain>>

\* ens.resolve returns the identity that is current on chain, or throws.
resolve(c, i) ==
  /\ pc[c] = "resolve"
  /\ requests' = [requests EXCEPT ![local[c].key].identity = i]
  /\ local' = [local EXCEPT ![c].identity = i]
  /\ Goto(c, "announce")
  /\ UNCHANGED <<now, nonceCounter, creAuthorizations, capabilities, chain, reply>>

resolveFails(c) ==
  /\ pc[c] = "resolve"
  /\ setStatus(local[c].key, "FAILED")
  /\ Answer(c, "FAILED", None)
  /\ UNCHANGED <<now, nonceCounter, creAuthorizations, capabilities, chain, local>>

requestHash(c) == [action |-> local[c].action, identity |-> local[c].identity]

\* The gateway records the request, again if it is known, and announces it.
requestEvaluation(h) == gateway' = [gateway EXCEPT ![h] = @ + 1]

\* evaluate, 1: announce the request.  The receipt may time out after the
\* transaction was mined, or the send may fail.
announce(c) ==
  /\ pc[c] = "announce"
  /\ \/ /\ requestEvaluation(requestHash(c))
        /\ \/ Goto(c, "context")
              /\ UNCHANGED <<now, nonceCounter, tables, verdicts, mempool, local, reply>>
           \/ Throws(c)
     \/ Throws(c) /\ UNCHANGED gateway

\* evaluate, 2: the context arrives and the policy decides, at this second.
decide(c, v) ==
  /\ pc[c] = "context"
  /\ local' = [local EXCEPT ![c].evaluation =
       [id |-> [request |-> requestHash(c), evaluatedAt |-> second(now)],
        verdict |-> v]]
  /\ Goto(c, "estimate")
  /\ UNCHANGED <<now, nonceCounter, tables, chain, reply>>

\* evaluate, 3: writeContract simulates onReport, which refuses a second record
\* under one id, and broadcasts the report if the simulation passes.
estimate(c) ==
  /\ pc[c] = "estimate"
  /\ \/ /\ verdicts[local[c].evaluation.id] = None
        /\ mempool' = mempool \cup {c}
        /\ Goto(c, "receipt")
        /\ UNCHANGED <<now, nonceCounter, tables, gateway, verdicts, local, reply>>
     \/ Throws(c) /\ UNCHANGED gateway

\* A report is mined, whatever became of the call that sent it.  The record is
\* write-once: a report that lost the race since its simulation reverts.
onReport(c) ==
  LET e == local[c].evaluation IN
  /\ c \in mempool
  /\ mempool' = mempool \ {c}
  /\ verdicts' = [verdicts EXCEPT ![e.id] = IF @ = None THEN e.verdict ELSE @]
  /\ UNCHANGED <<now, nonceCounter, tables, gateway, pc, local, reply>>

\* Mutant: evaluate does not wait for the report to be mined.
receiptUnconfirmed(c) ==
  /\ pc[c] = "receipt"
  /\ Goto(c, "readId")
  /\ UNCHANGED <<now, nonceCounter, tables, chain, local, reply>>

\* The receipt arrives, and its status is not looked at; or waiting times out.
receipt(c) ==
  /\ pc[c] = "receipt"
  /\ \/ /\ c \notin mempool
        /\ Goto(c, "readId")
        /\ UNCHANGED <<now, nonceCounter, tables, chain, local, reply>>
     \/ Throws(c) /\ UNCHANGED gateway

\* Mutant: a nonce made from the clock alone.
nonceOfClock == now * NonceScale + 1
nextNonce == now * NonceScale + nonceCounter + 1

\* evaluate returned: INSERT INTO cre_authorizations, then the verdict decides.
\* ALLOW builds the capability and waits for its signature.
observe(c) ==
  LET e == local[c].evaluation
      k == local[c].key
  IN
  /\ pc[c] = "readId"
  /\ creAuthorizations[e.id] = None
  /\ creAuthorizations' = [creAuthorizations EXCEPT ![e.id] =
       [key |-> k, verdict |-> e.verdict]]
  /\ \/ /\ e.verdict = "DENY"
        /\ setStatus(k, "DENIED") /\ Answer(c, "DENIED", None)
        /\ UNCHANGED <<nonceCounter, local>>
     \/ /\ e.verdict = "ESCALATE"
        /\ setStatus(k, "ESCALATED") /\ Answer(c, "ESCALATED", None)
        /\ UNCHANGED <<nonceCounter, local>>
     \/ /\ e.verdict = "ALLOW" /\ nonceCounter < MaxMints
        /\ nonceCounter' = nonceCounter + 1
        /\ local' = [local EXCEPT ![c].cap =
             [key |-> k, authorizationId |-> e.id, issuedAt |-> second(now),
              nonce |-> nextNonce]]
        /\ Goto(c, "sign") /\ UNCHANGED <<requests, reply>>
  /\ UNCHANGED <<now, capabilities, chain>>

\* The read of the id fails, or the INSERT meets the PRIMARY KEY.
observeFails(c) ==
  /\ pc[c] = "readId"
  /\ Throws(c) /\ UNCHANGED gateway

\* Mutant: the capability is sent and not stored.
signUnrecorded(c) ==
  /\ pc[c] = "sign"
  /\ setStatus(local[c].key, "ALLOWED")
  /\ Answer(c, "ALLOWED", local[c].cap)
  /\ UNCHANGED <<now, nonceCounter, creAuthorizations, capabilities, chain, local>>

\* The issuer signed: INSERT INTO capabilities, ALLOWED, and the one answer
\* that carries the capability.
sign(c) ==
  /\ pc[c] = "sign"
  /\ capabilities' = capabilities \cup {local[c].cap}
  /\ setStatus(local[c].key, "ALLOWED")
  /\ Answer(c, "ALLOWED", local[c].cap)
  /\ UNCHANGED <<now, nonceCounter, creAuthorizations, chain, local>>

\* The process dies and starts again, a millisecond later at the earliest.
restart ==
  /\ now < MaxTime
  /\ now' = now + 1
  /\ nonceCounter' = 0
  /\ pc' = [c \in Call |-> IF pc[c] \in InFlight THEN "lost" ELSE pc[c]]
  /\ UNCHANGED <<tables, chain, local, reply>>

Tick ==
  /\ now < MaxTime
  /\ now' = now + 1
  /\ UNCHANGED <<nonceCounter, tables, chain, pc, local, reply>>

Step(c) ==
  \/ \E k \in Key, a \in Action : createRequest(c, k, a)
  \/ \E i \in Identity : resolve(c, i)
  \/ resolveFails(c)
  \/ announce(c)
  \/ \E v \in Verdict : decide(c, v)
  \/ estimate(c) \/ onReport(c) \/ receipt(c) \/ observe(c) \/ observeFails(c) \/ sign(c)

Next == (\E c \in Call : Step(c)) \/ restart \/ Tick
Spec == Init /\ [][Next]_vars
-----------------------------------------------------------------------------
TypeOK ==
  /\ now \in 0..MaxTime /\ nonceCounter \in 0..MaxMints
  /\ requests \in [Key -> Row \cup {None}]
  /\ creAuthorizations \in [AuthId -> AuthRow \cup {None}]
  /\ capabilities \subseteq Capability
  /\ gateway \in [RequestHash -> Nat]
  /\ verdicts \in [AuthId -> Verdict \cup {None}]
  /\ mempool \subseteq Call
  /\ pc \in [Call -> {"idle", "done", "lost"} \cup InFlight]
  /\ local \in [Call -> Local]
  /\ reply \in [Call -> Reply \cup {None}]

\* Every capability the issuer key was ever asked to sign.
Minted == capabilities \cup {local[c].cap : c \in {d \in Call : local[d].cap # None}}

\* However calls with one idempotency key interleave, fail, are lost in a crash
\* and are retried, at most one capability is ever made for that key.
OneCapabilityPerKey == \A x, y \in Minted : x.key = y.key => x = y

\* nextNonce gives no two capabilities the same nonce, although its counter is
\* forgotten at every restart: the executor would spend both with one use.
NoncesAreUnique == \A x, y \in Minted : x.nonce = y.nonce => x = y

\* No untracked authority: a capability that left the process is in the
\* capabilities table, its request is ALLOWED, and the authorization it names is
\* this request's own ALLOW.
ReturnedIsTracked ==
  \A c \in Call : reply[c] # None /\ reply[c].cap # None =>
    LET cap == reply[c].cap IN
      /\ cap \in capabilities
      /\ requests[cap.key].status = "ALLOWED"
      /\ creAuthorizations[cap.authorizationId] = [key |-> cap.key, verdict |-> "ALLOW"]

\* The chain can disagree with the ALLOW a recorded capability stands on only
\* when another call judged the same request in the same second.
DisagreementNeedsARace ==
  \A cap \in capabilities :
    \/ verdicts[cap.authorizationId] = "ALLOW"
    \/ \E c \in Call : /\ local[c].evaluation # None /\ local[c].key # cap.key
                       /\ local[c].evaluation.id = cap.authorizationId
                       /\ local[c].evaluation.verdict = verdicts[cap.authorizationId]

\* A request that reached an outcome keeps it: no retry, late answer or restart
\* moves it on (DENIED is never walked forward).
OutcomesAreFinal ==
  [][\A k \in Key : requests[k] # None /\ requests[k].status # "PENDING"
        => requests'[k] = requests[k]]_vars
-----------------------------------------------------------------------------
\* Why the properties above hold.  A key belongs to the one call that inserted
\* its row, and while that call is in flight nobody else moves the row.
KeyHasOneOwner ==
  /\ \A c \in Call : pc[c] = "idle" => local[c].key = None
  /\ \A c \in Call : local[c].key # None => requests[local[c].key] # None
  /\ \A c, d \in Call : local[c].key # None /\ local[c].key = local[d].key => c = d
  /\ \A c \in Call : pc[c] \in InFlight =>
       local[c].key \in Key /\ requests[local[c].key].status = "PENDING"

\* A call has what its next stretch of code reads.
LocalsAreSet ==
  /\ \A c \in Call : pc[c] \in InFlight => local[c].action \in Action
  /\ \A c \in Call : pc[c] \in {"announce", "context"} => local[c].identity \in Identity
  /\ \A c \in mempool : pc[c] \in {"receipt", "done", "lost"}
  /\ \A c \in Call : pc[c] \in {"estimate", "receipt", "readId"} \/ c \in mempool
       => local[c].evaluation # None

\* A capability is made by the call that owns its key, once, from an ALLOW
\* that is stored under that key.
CapabilityHasItsCall ==
  /\ \A c \in Call : pc[c] \in {"idle"} \cup (InFlight \ {"sign"}) => local[c].cap = None
  /\ \A c \in Call : pc[c] = "sign" => local[c].cap # None
  /\ \A c \in Call : local[c].cap # None =>
       /\ local[c].key # None /\ local[c].cap.key = local[c].key
       /\ creAuthorizations[local[c].cap.authorizationId]
            = [key |-> local[c].key, verdict |-> "ALLOW"]
  /\ \A x \in capabilities : \E c \in Call :
       pc[c] = "done" /\ local[c].cap = x /\ requests[x.key].status = "ALLOWED"
  /\ \A c \in Call : reply[c] # None /\ reply[c].cap # None => reply[c].cap \in capabilities

\* The next nonce is above every nonce that was ever given out.
NoncesRise ==
  /\ \A c \in Call : local[c].cap # None =>
       local[c].cap.nonce <= now * NonceScale + nonceCounter
  /\ \A c, d \in Call : local[c].cap # None /\ local[d].cap # None
       /\ local[c].cap.nonce = local[d].cap.nonce => c = d

\* The inductive invariant.
BrokerInv ==
  KeyHasOneOwner /\ LocalsAreSet /\ CapabilityHasItsCall /\ NoncesRise
=============================================================================
