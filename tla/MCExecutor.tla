----------------------------- MODULE MCExecutor -----------------------------
(***************************************************************************)
(* The executor on a small deployment: one identity, three capabilities    *)
(* (two share a replay slot, the third needs a human), conflicting         *)
(* verdicts, and at most MaxGovernance governance calls after deployment.  *)
(***************************************************************************)
EXTENDS Executor, FiniteSets

CONSTANTS gov, hum, tgt, p1, d1, d2, ctx, l1,
          MaxGovernance,   \* governance calls after deployment
          MaxSignatures    \* approvals the humans sign

VARIABLE governance   \* governance calls made so far

MCIdentity == {[label |-> l1, owner |-> gov, agent |-> gov, tokenId |-> 1,
                version |-> 1]}
id1 == CHOOSE i \in MCIdentity : TRUE

request == [identity |-> id1, agent |-> gov, domain |-> "this", target |-> tgt,
            value |-> 1, calldata |-> d1, intent |-> "i", policyHash |-> p1]

report(verdict, at, until) ==
  [requestHash |-> request, policyCommitment |-> p1, contextCommitment |-> ctx,
   verdict |-> verdict, evaluatedAt |-> at, validUntil |-> until]

MCReport == {report("ALLOW", 0, 2), report("DENY", 0, 2), report("ESCALATE", 1, 2)}

capability(at, nonce, expiresAt) ==
  [domain |-> "this", identity |-> id1, agent |-> gov, target |-> tgt,
   value |-> 1, calldata |-> d1, intent |-> "i", policyHash |-> p1,
   authorizationId |-> [request |-> request, policyHash |-> p1, evaluatedAt |-> at],
   context |-> ctx, issuedAt |-> 0, expiresAt |-> expiresAt, nonce |-> nonce]

MCCapability == {capability(0, 1, 1), capability(0, 1, 2), capability(1, 2, 2)}

\* The state the deployment script leaves: policy set, name bound, the
\* consumer as the authorizer, the executor as the consumer of approvals.
MCInit ==
  /\ now = 0
  /\ policyAdmin = [i \in Identity |-> gov]
  /\ policies = [i \in Identity |-> [p \in PolicyHash |->
                   [enabled |-> TRUE, maxValueHardCap |-> 1]]]
  /\ allowedTarget = Identity \X PolicyHash \X Target
  /\ allowedAction = Identity \X PolicyHash \X ActionKind
  /\ bindingVersion = [i \in Identity |-> 1]
  /\ ens = [l \in Label |-> [owner |-> gov, tokenId |-> 1, expiry |-> MaxTime + 1]]
  /\ bindings = Identity
  /\ simulateRegistryOutage = FALSE
  /\ authorizer = Consumer
  /\ authorizations = [id \in AuthorizationId |-> NoRecord]
  /\ forwarder = gov
  /\ expectedPolicyCommitment = NoRecord
  /\ approver = hum
  /\ approvalExecutor = ExecutorAddress
  /\ approvals = [c \in Capability |-> NoApproval]
  /\ consumed = {}
  /\ signedApprovals = {}
  /\ ExecutorInit
  /\ governance = 0

\* The steps that change a configuration, as opposed to using it.
config == <<policyVars, identityVars, authorizer, forwarder,
            expectedPolicyCommitment, approver, approvalExecutor>>

MCNext ==
  /\ Next
  /\ governance' = governance + (IF config' = config THEN 0 ELSE 1)
  /\ governance' <= MaxGovernance
  /\ Cardinality(signedApprovals') <= MaxSignatures

MCSpec == MCInit /\ [][MCNext]_<<vars, governance>>
=============================================================================
