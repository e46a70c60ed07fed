------------------------------ MODULE Executor ------------------------------
(***************************************************************************)
(* contracts/src/ContextLockExecutor.sol, composed with the four contracts *)
(* it reads: the policy registry, the identity verifier, the authorization *)
(* registry and the approval registry.                                     *)
(*                                                                         *)
(* A transaction is atomic and a revert undoes all of it, so only calls    *)
(* that commit are steps.  The one place where other code runs inside      *)
(* execute is the call to the target: execute is therefore two steps, up   *)
(* to the target call and from its return, and between them the target,    *)
(* as msg.sender, may call any contract, execute included.                 *)
(***************************************************************************)
EXTENDS PolicyRegistry, EnsIdentity, AuthorizationRegistry, ApprovalRegistry,
        Sequences

CONSTANTS
  HasApprovalRegistry,     \* address(approvalRegistry) != address(0)
  MAX_CLOCK_SKEW,          \* 60 seconds, scaled
  MAX_CAPABILITY_LIFETIME  \* 1 hour, scaled

ASSUME ExecutorAssumption ==
  /\ HasApprovalRegistry \in BOOLEAN
  /\ MAX_CLOCK_SKEW \in Nat
  /\ MAX_CAPABILITY_LIFETIME \in Nat

VARIABLES
  issued,      \* the capabilities the capability issuer has signed
  nonceUsed,   \* set of replay slots <<identity, nonce>>
  entered,     \* the reentrancy flag _entered
  callStack,   \* the target calls that are running, outermost first
  executed     \* [Capability -> Nat]: CapabilityExecuted events emitted

executorVars == <<issued, nonceUsed, entered, callStack, executed>>

vars == <<now, policyVars, identityVars, authorizationVars, approvalVars,
          executorVars>>

\* A running call of a target: the capability, and what the target was sent.
Frame == [cap : Capability, value : Value, calldata : Calldata]

ExecutorTypeOK ==
  /\ issued \subseteq Capability
  /\ nonceUsed \subseteq {Slot(c) : c \in Capability}
  /\ entered \in {0, 1}
  /\ callStack \in Seq(Frame)
  /\ executed \in [Capability -> Nat]

\* Every variable of the composition has its type.
TypeOK ==
  /\ now \in 0 .. MaxTime
  /\ PolicyTypeOK
  /\ IdentityTypeOK
  /\ AuthorizationTypeOK
  /\ ApprovalTypeOK
  /\ ExecutorTypeOK

ExecutorInit ==
  /\ issued = {}
  /\ nonceUsed = {}
  /\ entered = 0
  /\ callStack = <<>>
  /\ executed = [c \in Capability |-> 0]

-----------------------------------------------------------------------------
(* Validation: the guards of execute, in the order of the code. *)

getAuthorization(id) ==
  IF id \in AuthorizationId THEN authorizations[id] ELSE NoRecord

\* Mutant: only ESCALATE is singled out, so DENY falls through to ALLOW.
validateAuthorizationLax(c) ==
  LET auth == getAuthorization(c.authorizationId)
  IN  /\ auth # NoRecord
      /\ auth.verdict \in {"ALLOW", "DENY"} \/ isApprovalValid(c)
      /\ auth.requestHash = requestHash(c)
      /\ auth.policyCommitment = c.policyHash
      /\ auth.contextCommitment = c.context
      /\ now <= auth.validUntil

\* ESCALATE needs a live human approval of this digest; DENY has no branch.
validateAuthorization(c) ==
  LET auth == getAuthorization(c.authorizationId)
  IN  /\ auth # NoRecord
      /\ \/ auth.verdict = "ALLOW"
         \/ auth.verdict = "ESCALATE" /\ HasApprovalRegistry /\ isApprovalValid(c)
      /\ auth.requestHash = requestHash(c)
      /\ auth.policyCommitment = c.policyHash
      /\ auth.contextCommitment = c.context
      /\ now <= auth.validUntil

\* Mutant: the calldata presented is not compared with the capability's.
validateAnyCalldata(c, value, callData, actionKind) ==
  /\ c.domain = ThisDomain
  /\ c.target # NoAccount
  /\ c.expiresAt > c.issuedAt
  /\ c.expiresAt - c.issuedAt <= MAX_CAPABILITY_LIFETIME
  /\ now <= c.expiresAt
  /\ c.issuedAt <= now + MAX_CLOCK_SKEW
  /\ Slot(c) \notin nonceUsed
  /\ value = c.value
  /\ c \in issued
  /\ isIdentityCurrent(c.identity, c.agent)
  /\ isPolicyEnabled(c.identity, c.policyHash)
  /\ isTargetAllowed(c.identity, c.policyHash, c.target)
  /\ isActionAllowed(c.identity, c.policyHash, actionKind)
  /\ c.value <= maxValueHardCap(c.identity, c.policyHash)
  /\ validateAuthorization(c)

validate(c, value, callData, actionKind) ==
  /\ c.domain = ThisDomain
  /\ c.target # NoAccount
  /\ c.expiresAt > c.issuedAt
  /\ c.expiresAt - c.issuedAt <= MAX_CAPABILITY_LIFETIME
  /\ now <= c.expiresAt
  /\ c.issuedAt <= now + MAX_CLOCK_SKEW
  /\ Slot(c) \notin nonceUsed
  /\ callData = c.calldata
  /\ value = c.value
  /\ c \in issued
  /\ isIdentityCurrent(c.identity, c.agent)
  /\ isPolicyEnabled(c.identity, c.policyHash)
  /\ isTargetAllowed(c.identity, c.policyHash, c.target)
  /\ isActionAllowed(c.identity, c.policyHash, actionKind)
  /\ c.value <= maxValueHardCap(c.identity, c.policyHash)
  /\ validateAuthorization(c)

-----------------------------------------------------------------------------
(* Actions *)

\* The issuer's key signs a capability (the broker, off chain).
Issue(c) ==
  /\ c \notin issued
  /\ issued' = issued \cup {c}
  /\ UNCHANGED <<nonceUsed, entered, callStack, executed>>

\* Mutant: the nonce is not consumed before the call.
executeKeepingNonce(c, value, callData, actionKind) ==
  /\ entered = 0
  /\ validate(c, value, callData, actionKind)
  /\ entered' = 1
  /\ IF HasApprovalRegistry
          /\ getAuthorization(c.authorizationId).verdict = "ESCALATE"
       THEN consumeApproval(ExecutorAddress, c)
       ELSE UNCHANGED approvalVars
  /\ callStack' = Append(callStack,
                         [cap |-> c, value |-> value, calldata |-> callData])
  /\ UNCHANGED <<issued, nonceUsed, executed>>

\* Mutant: no reentrancy guard.
executeReentrant(c, value, callData, actionKind) ==
  /\ validate(c, value, callData, actionKind)
  /\ entered' = 1
  /\ nonceUsed' = nonceUsed \cup {Slot(c)}
  /\ IF HasApprovalRegistry
          /\ getAuthorization(c.authorizationId).verdict = "ESCALATE"
       THEN consumeApproval(ExecutorAddress, c)
       ELSE UNCHANGED approvalVars
  /\ callStack' = Append(callStack,
                         [cap |-> c, value |-> value, calldata |-> callData])
  /\ UNCHANGED <<issued, executed>>

\* execute, up to and including the call of the target.
execute(c, value, callData, actionKind) ==
  /\ entered = 0
  /\ validate(c, value, callData, actionKind)
  /\ entered' = 1
  /\ nonceUsed' = nonceUsed \cup {Slot(c)}
  /\ IF HasApprovalRegistry
          /\ getAuthorization(c.authorizationId).verdict = "ESCALATE"
       THEN consumeApproval(ExecutorAddress, c)
       ELSE UNCHANGED approvalVars
  /\ callStack' = Append(callStack,
                         [cap |-> c, value |-> value, calldata |-> callData])
  /\ UNCHANGED <<issued, executed>>

\* The running target returns successfully; execute emits and unlocks.
targetReturns ==
  /\ callStack # <<>>
  /\ LET c == callStack[Len(callStack)].cap
     IN  executed' = [executed EXCEPT ![c] = @ + 1]
  /\ callStack' = SubSeq(callStack, 1, Len(callStack) - 1)
  /\ entered' = 0
  /\ UNCHANGED <<issued, nonceUsed>>

-----------------------------------------------------------------------------
(* The composition *)

\* Who can be msg.sender now: anyone between transactions, and only the
\* running target inside one.
Sender ==
  IF callStack = <<>> THEN Account ELSE {callStack[Len(callStack)].cap.target}

Idle == callStack = <<>>

Init ==
  /\ now = 0
  /\ PolicyInit /\ IdentityInit /\ AuthorizationInit /\ ApprovalInit
  /\ ExecutorInit

\* Calls of the other contracts.
PolicyStep ==
  /\ \E sender \in Sender : PolicyNext(sender)
  /\ UNCHANGED <<now, identityVars, authorizationVars, approvalVars, executorVars>>

IdentityStep ==
  /\ \/ EnsNext
     \/ \E sender \in Sender : VerifierNext(sender)
  /\ UNCHANGED <<now, policyVars, authorizationVars, approvalVars, executorVars>>

AuthorizationStep ==
  /\ \E sender \in Sender : AuthorizationNext(sender)
  /\ UNCHANGED <<now, policyVars, identityVars, approvalVars, executorVars>>

ApprovalStep ==
  /\ \E sender \in Sender : ApprovalNext(sender)
  /\ UNCHANGED <<now, policyVars, identityVars, authorizationVars, executorVars>>

\* What happens off chain or between blocks is ordered before or after a
\* transaction, never inside it.
DeviceStep ==
  /\ Idle
  /\ DeviceNext
  /\ UNCHANGED <<now, policyVars, identityVars, authorizationVars, executorVars>>

IssueStep ==
  /\ Idle
  /\ \E c \in Capability : Issue(c)
  /\ UNCHANGED <<now, policyVars, identityVars, authorizationVars, approvalVars>>

TickStep ==
  /\ Idle
  /\ Tick
  /\ UNCHANGED <<policyVars, identityVars, authorizationVars, approvalVars,
                 executorVars>>

ExecuteStep ==
  /\ \E c \in Capability, v \in Value, d \in Calldata, k \in ActionKind :
       execute(c, v, d, k)
  /\ UNCHANGED <<now, policyVars, identityVars, authorizationVars>>

ReturnStep ==
  /\ targetReturns
  /\ UNCHANGED <<now, policyVars, identityVars, authorizationVars, approvalVars>>

Next ==
  \/ PolicyStep \/ IdentityStep \/ AuthorizationStep \/ ApprovalStep
  \/ DeviceStep \/ IssueStep \/ TickStep \/ ExecuteStep \/ ReturnStep

Spec == Init /\ [][Next]_vars

-----------------------------------------------------------------------------
(* Properties *)

\* A replay slot <<identity, nonce>> is executed at most once, by whichever
\* of the capabilities that carry it, even when targets re-enter
\* (SECURITY.md invariants 1 and 2).
SlotExecutesOnce ==
  \A c, d \in Capability :
    Slot(c) = Slot(d) /\ executed[c] > 0 =>
      executed[c] = 1 /\ (d # c => executed[d] = 0)

\* Everything that was ever executed is still backed by the verdict on record:
\* ALLOW, or ESCALATE whose approval is spent and was signed on a device for
\* exactly this capability; never DENY, never another request's verdict
\* (SECURITY.md invariants 5, 6 and 7).
StandsOnVerdict(c) ==
  LET auth == getAuthorization(c.authorizationId)
  IN  /\ auth # NoRecord
      /\ auth.requestHash = requestHash(c)
      /\ auth.policyCommitment = c.policyHash
      /\ \/ auth.verdict = "ALLOW"
         \/ /\ auth.verdict = "ESCALATE"
            /\ HasApprovalRegistry
            /\ c \in consumed
            /\ \E s \in signedApprovals : s.cap = c

ExecutedStandsOnVerdict ==
  \A c \in Capability : executed[c] > 0 => StandsOnVerdict(c)

\* Executions never nest, and the reentrancy flag is set exactly while a
\* target runs: a finished transaction leaves the executor unlocked.
NeverNested ==
  /\ Len(callStack) <= 1
  /\ entered = Len(callStack)

\* The running target was sent the value and calldata that the verdict on
\* record was given for, not only those the capability names.
SentWhatWasJudged ==
  \A n \in 1 .. Len(callStack) :
    LET auth == getAuthorization(callStack[n].cap.authorizationId)
    IN  /\ auth # NoRecord
        /\ auth.requestHash.target = callStack[n].cap.target
        /\ auth.requestHash.value = callStack[n].value
        /\ auth.requestHash.calldata = callStack[n].calldata

\* Spent authority never comes back: a used nonce and a consumed approval
\* survive every rotation of admin, approver, executor and authorizer, and
\* nothing un-executes.
SpentStaysSpent ==
  [][/\ nonceUsed \subseteq nonceUsed'
     /\ consumed \subseteq consumed'
     /\ \A c \in Capability : executed[c] <= executed'[c]]_vars

\* The inductive invariant behind the properties above.  Beyond them it says:
\* an executed capability's slot is used; a running one holds a used slot that
\* nothing has been executed in, stands on its verdict and was sent what it
\* names; and every approval on record was signed for its capability.
ExecutedSlotsUsed ==
  \A c \in Capability : executed[c] > 0 => Slot(c) \in nonceUsed

RunningHoldsItsSlot ==
  \A n \in 1 .. Len(callStack), c \in Capability :
    callStack[n].cap = c =>
      /\ Slot(c) \in nonceUsed
      /\ \A d \in Capability : Slot(d) = Slot(c) => executed[d] = 0
      /\ StandsOnVerdict(c)
      /\ callStack[n].value = c.value
      /\ callStack[n].calldata = c.calldata

ApprovalsAreSigned ==
  \A c \in Capability :
    approvals[c] # NoApproval => \E s \in signedApprovals : s.cap = c

ExecutorInv ==
  /\ NeverNested
  /\ SlotExecutesOnce
  /\ ExecutedStandsOnVerdict
  /\ ExecutedSlotsUsed
  /\ RunningHoldsItsSlot
  /\ ApprovalsAreSigned

\* The contracts implement the one-shot authority: every commit is one
\* permitted execution, everything else is a verdict, a consent or invisible.
Authority ==
  INSTANCE OneShotAuthority
    WITH decided <- authorizations,
         consented <- {s.cap : s \in signedApprovals},
         executions <- executed,
         SlotOf <- Slot, RequestOf <- requestHash

ImplementsOneShotAuthority == Authority!Spec

=============================================================================
