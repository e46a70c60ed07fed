------------------------ MODULE AuthorizationRegistry ------------------------
(***************************************************************************)
(* contracts/src/ContextLockAuthorizationRegistry.sol, the write-once      *)
(* record of verdicts, and contracts/src/ContextLockCreConsumer.sol, which *)
(* receives CRE reports from the forwarder and writes them to it.          *)
(***************************************************************************)
EXTENDS ChainTypes

CONSTANTS
  Context,     \* context commitments
  Report,      \* reports that can be delivered: the decoded payload of onReport
  Consumer,    \* the address of the CRE consumer contract
  AuthOwner,   \* the owner of both contracts (the same deployer)
  NoRecord     \* an empty slot of a mapping to a struct

Verdict == {"ALLOW", "DENY", "ESCALATE"}   \* NONE is the absence of a record

\* The id the consumer derives; computeAuthorizationId off chain.
authorizationIdOf(r) ==
  [request |-> r.requestHash, policyHash |-> r.policyCommitment,
   evaluatedAt |-> r.evaluatedAt]

AuthorizationId == {authorizationIdOf(r) : r \in Report}

ASSUME AuthorizationAssumption ==
  /\ Consumer \notin Account \cup {NoAccount}
  /\ AuthOwner \in Account
  /\ \A r \in Report :
       /\ DOMAIN r = {"requestHash", "policyCommitment", "contextCommitment",
                      "verdict", "evaluatedAt", "validUntil"}
       /\ r.policyCommitment \in PolicyHash
       /\ r.contextCommitment \in Context
       /\ r.verdict \in Verdict
       /\ r.evaluatedAt \in Nat /\ r.validUntil \in Nat
  /\ NoRecord \notin Report

VARIABLES
  authorizer,                \* the only writer; NoAccount means "no writer"
  authorizations,            \* [AuthorizationId -> Report or NoRecord]
  forwarder,                 \* the only reporter; NoAccount disables reports
  expectedPolicyCommitment   \* stored by the consumer, read by nobody

authorizationVars ==
  <<authorizer, authorizations, forwarder, expectedPolicyCommitment>>

\* The fields a report carries are those of the Authorization struct.
AuthorizationTypeOK ==
  /\ authorizer \in Account \cup {Consumer, NoAccount}
  /\ authorizations \in [AuthorizationId -> Report \cup {NoRecord}]
  /\ forwarder \in Account \cup {NoAccount}
  /\ expectedPolicyCommitment \in PolicyHash \cup {NoRecord}

AuthorizationInit ==
  /\ authorizer = NoAccount
  /\ authorizations = [id \in AuthorizationId |-> NoRecord]
  /\ forwarder = NoAccount
  /\ expectedPolicyCommitment = NoRecord

-----------------------------------------------------------------------------

setAuthorizer(sender, next) ==
  /\ sender = AuthOwner
  /\ authorizer' = next
  /\ UNCHANGED <<authorizations, forwarder, expectedPolicyCommitment>>

setForwarder(sender, next) ==
  /\ sender = AuthOwner
  /\ forwarder' = next
  /\ UNCHANGED <<authorizer, authorizations, expectedPolicyCommitment>>

setExpectedPolicyCommitment(sender, next) ==
  /\ sender = AuthOwner
  /\ expectedPolicyCommitment' = next
  /\ UNCHANGED <<authorizer, authorizations, forwarder>>

\* Mutant: the slot is overwritten when it is already recorded.
recordAuthorizationOver(sender, id, r) ==
  /\ sender = authorizer
  /\ r.validUntil > r.evaluatedAt
  /\ authorizations' = [authorizations EXCEPT ![id] = r]
  /\ UNCHANGED <<authorizer, forwarder, expectedPolicyCommitment>>

\* A trusted authorizer account names the id itself.
recordAuthorization(sender, id, r) ==
  /\ sender = authorizer
  /\ r.validUntil > r.evaluatedAt
  /\ authorizations[id] = NoRecord
  /\ authorizations' = [authorizations EXCEPT ![id] = r]
  /\ UNCHANGED <<authorizer, forwarder, expectedPolicyCommitment>>

\* The consumer derives the id from the report and calls recordAuthorization.
\* No check reads expectedPolicyCommitment.
onReport(sender, r) ==
  /\ sender = forwarder
  /\ sender # NoAccount
  /\ r.verdict \in Verdict
  /\ r.validUntil > r.evaluatedAt
  /\ recordAuthorization(Consumer, authorizationIdOf(r), r)

AuthorizationNext(sender) ==
  \/ \E next \in Account \cup {Consumer, NoAccount} : setAuthorizer(sender, next)
  \/ \E next \in Account \cup {NoAccount} : setForwarder(sender, next)
  \/ \E next \in PolicyHash : setExpectedPolicyCommitment(sender, next)
  \/ \E id \in AuthorizationId, r \in Report : recordAuthorization(sender, id, r)
  \/ \E r \in Report : onReport(sender, r)

=============================================================================
