--------------------------- MODULE ExecutorProofs ---------------------------
(***************************************************************************)
(* Theorems about the executor and the contracts it reads, for every set   *)
(* of accounts, identities, capabilities, reports and bounds.              *)
(***************************************************************************)
EXTENDS Executor, TLAPS

-----------------------------------------------------------------------------
(* Type correctness, one contract at a time. *)

\* The policy registry keeps its mappings typed.
LEMMA PolicyTyped ==
  ASSUME PolicyTypeOK, NEW sender, PolicyNext(sender)
  PROVE  PolicyTypeOK'
<1> USE TypesAssumption, PolicyAssumption
<1>1. ASSUME NEW i \in Identity, NEW admin \in Account,
             setPolicyAdmin(sender, i, admin)
      PROVE  PolicyTypeOK'
  BY <1>1 DEF setPolicyAdmin, PolicyTypeOK
<1>2. ASSUME NEW i \in Identity, bumpBindingVersion(sender, i)
      PROVE  PolicyTypeOK'
  BY <1>2 DEF bumpBindingVersion, PolicyTypeOK
<1>3. ASSUME NEW i \in Identity, NEW p \in PolicyHash,
             NEW enabled \in BOOLEAN, NEW cap \in Value,
             setPolicy(sender, i, p, enabled, cap)
      PROVE  PolicyTypeOK'
  BY <1>3 DEF setPolicy, PolicyTypeOK
<1>4. ASSUME NEW i \in Identity, NEW p \in PolicyHash,
             NEW t \in Target, NEW allowed \in BOOLEAN,
             setTargetAllowed(sender, i, p, t, allowed)
      PROVE  PolicyTypeOK'
  BY <1>4 DEF setTargetAllowed, WithFlag, PolicyTypeOK
<1>5. ASSUME NEW i \in Identity, NEW p \in PolicyHash,
             NEW k \in ActionKind, NEW allowed \in BOOLEAN,
             setActionAllowed(sender, i, p, k, allowed)
      PROVE  PolicyTypeOK'
  BY <1>5 DEF setActionAllowed, WithFlag, PolicyTypeOK
<1> QED
  BY <1>1, <1>2, <1>3, <1>4, <1>5 DEF PolicyNext

\* The ENS registry and the verifier keep their state typed.
LEMMA IdentityTyped ==
  ASSUME IdentityTypeOK,
         EnsNext \/ \E sender \in Sender : VerifierNext(sender)
  PROVE  IdentityTypeOK'
<1> USE TypesAssumption, IdentityAssumption
<1>1. ASSUME NEW l \in Label, NEW owner \in Account,
             NEW expiry \in 0 .. MaxTime + 1, EnsRegister(l, owner, expiry)
      PROVE  IdentityTypeOK'
  BY <1>1 DEF EnsRegister, IdentityTypeOK, Name
<1>2. ASSUME NEW l \in Label, NEW owner \in Account, EnsTransfer(l, owner)
      PROVE  IdentityTypeOK'
  BY <1>2 DEF EnsTransfer, IdentityTypeOK, Name
<1>3. ASSUME NEW l \in Label, EnsChangeRoles(l)
      PROVE  IdentityTypeOK'
  BY <1>3 DEF EnsChangeRoles, IdentityTypeOK, Name
<1>4. ASSUME NEW l \in Label, EnsUnregister(l)
      PROVE  IdentityTypeOK'
  BY <1>4 DEF EnsUnregister, IdentityTypeOK, Name
<1>5. ASSUME NEW sender, VerifierNext(sender)
      PROVE  IdentityTypeOK'
  BY <1>5 DEF VerifierNext, bind, unbind, setSimulateRegistryOutage,
              IdentityTypeOK
<1> QED
  BY <1>1, <1>2, <1>3, <1>4, <1>5 DEF EnsNext

\* The authorization registry and the CRE consumer keep their state typed.
LEMMA AuthorizationTyped ==
  ASSUME AuthorizationTypeOK, NEW sender, AuthorizationNext(sender)
  PROVE  AuthorizationTypeOK'
<1>1. ASSUME NEW r \in Report PROVE authorizationIdOf(r) \in AuthorizationId
  BY DEF AuthorizationId
<1>2. ASSUME NEW s, NEW id \in AuthorizationId, NEW r \in Report,
             recordAuthorization(s, id, r)
      PROVE  AuthorizationTypeOK'
  BY <1>2 DEF recordAuthorization, AuthorizationTypeOK
<1>3. ASSUME NEW r \in Report, onReport(sender, r)
      PROVE  AuthorizationTypeOK'
  BY <1>1, <1>2, <1>3 DEF onReport
<1>4. CASE \/ \E next \in Account \cup {Consumer, NoAccount} :
                setAuthorizer(sender, next)
           \/ \E next \in Account \cup {NoAccount} : setForwarder(sender, next)
           \/ \E next \in PolicyHash : setExpectedPolicyCommitment(sender, next)
  BY <1>4 DEF setAuthorizer, setForwarder, setExpectedPolicyCommitment,
              AuthorizationTypeOK
<1> QED
  BY <1>2, <1>3, <1>4 DEF AuthorizationNext

\* The approval registry keeps its state typed.
LEMMA ApprovalTyped ==
  ASSUME ApprovalTypeOK,
         DeviceNext \/ \E sender \in Sender : ApprovalNext(sender)
  PROVE  ApprovalTypeOK'
<1> USE ApprovalAssumption
<1>1. CASE DeviceNext
  BY <1>1 DEF DeviceNext, SignOnDevice, ApprovalTypeOK
<1>2. ASSUME NEW sender, NEW next \in Approver,
             setApprover(sender, next)
      PROVE  ApprovalTypeOK'
  BY <1>2 DEF setApprover, ApprovalTypeOK
<1>3. ASSUME NEW sender,
             NEW next \in Account \cup {ExecutorAddress, NoAccount},
             setExecutor(sender, next)
      PROVE  ApprovalTypeOK'
  BY <1>3 DEF setExecutor, ApprovalTypeOK
<1>4. ASSUME NEW c \in Capability, NEW expiresAt \in ApprovalExpiry,
             submitApproval(c, expiresAt)
      PROVE  ApprovalTypeOK'
  BY <1>4 DEF submitApproval, ApprovalTypeOK, Approval
<1>5. ASSUME NEW s, NEW c \in Capability, consumeApproval(s, c)
      PROVE  ApprovalTypeOK'
  BY <1>5 DEF consumeApproval, ApprovalTypeOK
<1> QED
  BY <1>1, <1>2, <1>3, <1>4, <1>5 DEF ApprovalNext

\* The executor keeps its own state typed; execute may also consume an
\* approval.
LEMMA ExecuteTyped ==
  ASSUME ExecutorTypeOK, ApprovalTypeOK,
         NEW c \in Capability, NEW v \in Value, NEW d \in Calldata,
         NEW k \in ActionKind, execute(c, v, d, k)
  PROVE  ExecutorTypeOK' /\ ApprovalTypeOK'
<1>1. ExecutorTypeOK'
  BY DEF execute, ExecutorTypeOK, Frame
<1>2. ApprovalTypeOK'
  BY DEF execute, consumeApproval, ApprovalTypeOK, approvalVars
<1> QED
  BY <1>1, <1>2

\* The end of a target's call keeps the types.
LEMMA ReturnTyped ==
  ASSUME ExecutorTypeOK, targetReturns
  PROVE  ExecutorTypeOK'
<1>1. Len(callStack) \in 1 .. Len(callStack)
  BY DEF targetReturns, ExecutorTypeOK
<1>2. callStack[Len(callStack)] \in Frame
  BY <1>1 DEF ExecutorTypeOK
<1>3. callStack' \in Seq(Frame)
  BY <1>1 DEF targetReturns, ExecutorTypeOK
<1>4. callStack[Len(callStack)].cap \in Capability
  BY <1>2 DEF Frame
<1> QED
  BY <1>3, <1>4 DEF targetReturns, ExecutorTypeOK

\* Every step of the composed contracts keeps the types.
LEMMA TypeStep == TypeOK /\ [Next]_vars => TypeOK'
<1> SUFFICES ASSUME TypeOK, [Next]_vars PROVE TypeOK'
  OBVIOUS
<1>1. CASE PolicyStep
  BY <1>1, PolicyTyped
     DEF PolicyStep, TypeOK, identityVars, authorizationVars, approvalVars,
         executorVars, IdentityTypeOK, AuthorizationTypeOK, ApprovalTypeOK,
         ExecutorTypeOK
<1>2. CASE IdentityStep
  BY <1>2, IdentityTyped
     DEF IdentityStep, TypeOK, policyVars, authorizationVars, approvalVars,
         executorVars, PolicyTypeOK, AuthorizationTypeOK, ApprovalTypeOK,
         ExecutorTypeOK
<1>3. CASE AuthorizationStep
  BY <1>3, AuthorizationTyped
     DEF AuthorizationStep, TypeOK, policyVars, identityVars, approvalVars,
         executorVars, PolicyTypeOK, IdentityTypeOK, ApprovalTypeOK,
         ExecutorTypeOK
<1>4. CASE ApprovalStep \/ DeviceStep
  BY <1>4, ApprovalTyped
     DEF ApprovalStep, DeviceStep, TypeOK, policyVars, identityVars,
         authorizationVars, executorVars, PolicyTypeOK, IdentityTypeOK,
         AuthorizationTypeOK, ExecutorTypeOK
<1>5. CASE IssueStep
  BY <1>5 DEF IssueStep, Issue, TypeOK, policyVars, identityVars,
              authorizationVars, approvalVars, PolicyTypeOK, IdentityTypeOK,
              AuthorizationTypeOK, ApprovalTypeOK, ExecutorTypeOK
<1>6. CASE TickStep
  BY <1>6, TypesAssumption
     DEF TickStep, Tick, TypeOK, policyVars, identityVars, authorizationVars,
         approvalVars, executorVars, PolicyTypeOK, IdentityTypeOK,
         AuthorizationTypeOK, ApprovalTypeOK, ExecutorTypeOK
<1>7. CASE ExecuteStep
  <2>1. ExecutorTypeOK' /\ ApprovalTypeOK'
    BY <1>7, ExecuteTyped DEF ExecuteStep, TypeOK
  <2> QED
    BY <1>7, <2>1 DEF ExecuteStep, TypeOK, policyVars, identityVars,
                      authorizationVars, PolicyTypeOK, IdentityTypeOK,
                      AuthorizationTypeOK
<1>8. CASE ReturnStep
  <2>1. ExecutorTypeOK'
    BY <1>8, ReturnTyped DEF ReturnStep, TypeOK
  <2> QED
    BY <1>8, <2>1 DEF ReturnStep, TypeOK, policyVars, identityVars,
                      authorizationVars, approvalVars, PolicyTypeOK,
                      IdentityTypeOK, AuthorizationTypeOK, ApprovalTypeOK
<1>9. CASE UNCHANGED vars
  BY <1>9 DEF vars, TypeOK, policyVars, identityVars, authorizationVars,
              approvalVars, executorVars, PolicyTypeOK, IdentityTypeOK,
              AuthorizationTypeOK, ApprovalTypeOK, ExecutorTypeOK
<1> QED
  BY <1>1, <1>2, <1>3, <1>4, <1>5, <1>6, <1>7, <1>8, <1>9 DEF Next

\* The contracts are deployed well typed.
LEMMA TypeInit == Init => TypeOK
<1> SUFFICES ASSUME Init PROVE TypeOK
  OBVIOUS
<1> USE TypesAssumption DEF Init
<1>1. PolicyTypeOK
  BY PolicyAssumption DEF PolicyInit, PolicyTypeOK
<1>2. IdentityTypeOK
  <2>1. [owner |-> NoAccount, tokenId |-> 0, expiry |-> 0] \in Name
    BY IdentityAssumption DEF Name
  <2> QED
    BY <2>1 DEF IdentityInit, IdentityTypeOK
<1>3. AuthorizationTypeOK
  BY DEF AuthorizationInit, AuthorizationTypeOK
<1>4. ApprovalTypeOK
  BY DEF ApprovalInit, ApprovalTypeOK
<1>5. ExecutorTypeOK
  BY DEF ExecutorInit, ExecutorTypeOK
<1> QED
  BY <1>1, <1>2, <1>3, <1>4, <1>5 DEF TypeOK

\* Every variable of the composed contracts keeps its type.
THEOREM TypeCorrect == Spec => []TypeOK
<1> QED
  BY TypeInit, TypeStep, PTL DEF Spec

-----------------------------------------------------------------------------
(* What no step undoes. *)

Monotone ==
  /\ \A id \in AuthorizationId :
       authorizations[id] # NoRecord => authorizations'[id] = authorizations[id]
  /\ consumed \subseteq consumed'
  /\ signedApprovals \subseteq signedApprovals'
  /\ nonceUsed \subseteq nonceUsed'
  /\ \A c \in Capability : executed[c] <= executed'[c]

\* Recorded verdicts, consumed approvals, device signatures, used nonces and
\* executions are permanent.
LEMMA StepMonotone == TypeOK /\ [Next]_vars => Monotone
<1> SUFFICES ASSUME TypeOK, [Next]_vars PROVE Monotone
  OBVIOUS
<1> USE DEF Monotone, TypeOK, ExecutorTypeOK
<1>1. CASE PolicyStep \/ IdentityStep \/ TickStep \/ UNCHANGED vars
  BY <1>1 DEF PolicyStep, IdentityStep, TickStep, vars, authorizationVars,
              approvalVars, executorVars
<1>2. CASE AuthorizationStep
  <2>1. UNCHANGED <<approvalVars, executorVars>>
    BY <1>2 DEF AuthorizationStep
  <2>2. ASSUME NEW s, NEW id \in AuthorizationId, NEW r \in Report,
               recordAuthorization(s, id, r)
        PROVE  \A x \in AuthorizationId :
                 authorizations[x] # NoRecord
                   => authorizations'[x] = authorizations[x]
    BY <2>2 DEF recordAuthorization, AuthorizationTypeOK
  <2>3. \A x \in AuthorizationId :
          authorizations[x] # NoRecord => authorizations'[x] = authorizations[x]
    <3>1. PICK sender : AuthorizationNext(sender)
      BY <1>2 DEF AuthorizationStep
    <3>2. CASE UNCHANGED authorizations
      BY <3>2
    <3>3. ASSUME NEW r \in Report PROVE authorizationIdOf(r) \in AuthorizationId
      BY DEF AuthorizationId
    <3> QED
      BY <2>2, <3>1, <3>2, <3>3
         DEF AuthorizationNext, onReport, setAuthorizer, setForwarder,
             setExpectedPolicyCommitment
  <2> QED
    BY <2>1, <2>3 DEF approvalVars, executorVars
<1>3. CASE ApprovalStep
  <2>1. UNCHANGED <<authorizationVars, executorVars>>
    BY <1>3 DEF ApprovalStep
  <2>2. consumed \subseteq consumed' /\ UNCHANGED signedApprovals
    BY <1>3 DEF ApprovalStep, ApprovalNext, setApprover, setExecutor,
                submitApproval, consumeApproval
  <2> QED
    BY <2>1, <2>2 DEF authorizationVars, executorVars
<1>4. CASE DeviceStep
  BY <1>4 DEF DeviceStep, DeviceNext, SignOnDevice, authorizationVars,
              executorVars
<1>5. CASE IssueStep
  BY <1>5 DEF IssueStep, Issue, authorizationVars, approvalVars
<1>6. CASE ExecuteStep
  BY <1>6 DEF ExecuteStep, execute, consumeApproval, authorizationVars,
              approvalVars
<1>7. CASE ReturnStep
  <2>1. Len(callStack) \in 1 .. Len(callStack)
    BY <1>7 DEF ReturnStep, targetReturns
  <2>2. callStack[Len(callStack)] \in Frame
    BY <2>1
  <2>3. callStack[Len(callStack)].cap \in Capability
    BY <2>2 DEF Frame
  <2>4. \A c \in Capability : executed[c] <= executed'[c]
    BY <1>7, <2>3 DEF ReturnStep, targetReturns
  <2> QED
    BY <1>7, <2>4 DEF ReturnStep, targetReturns, authorizationVars, approvalVars
<1> QED
  BY <1>1, <1>2, <1>3, <1>4, <1>5, <1>6, <1>7 DEF Next

\* Used nonces, consumed approvals and executions are never taken back.
THEOREM SpentForever == Spec => SpentStaysSpent
<1>1. TypeOK /\ [Next]_vars
        => [/\ nonceUsed \subseteq nonceUsed'
            /\ consumed \subseteq consumed'
            /\ \A c \in Capability : executed[c] <= executed'[c]]_vars
  BY StepMonotone DEF Monotone
<1> QED
  BY <1>1, TypeCorrect, PTL DEF Spec, SpentStaysSpent

\* A capability that stands on its verdict keeps standing on it.
LEMMA VerdictStable ==
  ASSUME Monotone, NEW c \in Capability, StandsOnVerdict(c)
  PROVE  StandsOnVerdict(c)'
BY DEF Monotone, StandsOnVerdict, getAuthorization

-----------------------------------------------------------------------------
(* The inductive invariant. *)

\* An approval on record has always been signed for its capability.
LEMMA SignedStep == TypeOK /\ ApprovalsAreSigned /\ [Next]_vars
                      => ApprovalsAreSigned'
<1> SUFFICES ASSUME TypeOK, ApprovalsAreSigned, [Next]_vars
             PROVE  ApprovalsAreSigned'
  OBVIOUS
<1> USE DEF ApprovalsAreSigned
<1>1. signedApprovals \subseteq signedApprovals'
  BY StepMonotone DEF Monotone
<1>2. CASE UNCHANGED approvals
  BY <1>1, <1>2
<1>3. ASSUME NEW c \in Capability, NEW expiresAt \in ApprovalExpiry,
             submitApproval(c, expiresAt)
      PROVE  ApprovalsAreSigned'
  BY <1>3, <1>1 DEF submitApproval, TypeOK, ApprovalTypeOK
<1>4. UNCHANGED approvals
        \/ \E c \in Capability, e \in ApprovalExpiry : submitApproval(c, e)
  BY DEF Next, PolicyStep, IdentityStep, AuthorizationStep, ApprovalStep,
         DeviceStep, IssueStep, TickStep, ExecuteStep, ReturnStep, vars,
         approvalVars, DeviceNext, SignOnDevice, ApprovalNext, setApprover,
         setExecutor, consumeApproval, execute
<1> QED
  BY <1>2, <1>3, <1>4

\* A step that leaves nonces, lock, call stack and executions alone keeps the
\* invariant, because verdicts are permanent.
LEMMA QuietStep ==
  ASSUME TypeOK, ExecutorInv, Monotone, ApprovalsAreSigned',
         UNCHANGED <<nonceUsed, entered, callStack, executed>>
  PROVE  ExecutorInv'
<1>1. NeverNested' /\ SlotExecutesOnce' /\ ExecutedSlotsUsed'
  BY DEF ExecutorInv, NeverNested, SlotExecutesOnce, ExecutedSlotsUsed
<1>2. ExecutedStandsOnVerdict'
  BY VerdictStable DEF ExecutorInv, ExecutedStandsOnVerdict
<1>3. RunningHoldsItsSlot'
  BY VerdictStable DEF ExecutorInv, RunningHoldsItsSlot
<1> QED
  BY <1>1, <1>2, <1>3 DEF ExecutorInv

\* execute starts with an empty call stack and an unused slot, so the frame it
\* pushes is the only one and holds the slot alone.
LEMMA ExecuteKeepsInv ==
  ASSUME TypeOK, ExecutorInv, Monotone, ApprovalsAreSigned', ExecuteStep
  PROVE  ExecutorInv'
<1> PICK c \in Capability, v \in Value, d \in Calldata, k \in ActionKind :
      execute(c, v, d, k)
  BY DEF ExecuteStep
<1>1. callStack = <<>>
  <2>1. callStack \in Seq(Frame) /\ Len(callStack) = 0
    BY DEF execute, ExecutorInv, NeverNested, TypeOK, ExecutorTypeOK
  <2> QED
    BY <2>1
<1>2. callStack' = <<[cap |-> c, value |-> v, calldata |-> d]>>
  BY <1>1 DEF execute
<1>3. NeverNested'
  <2>1. Len(callStack') = 1
    BY <1>2
  <2> QED
    BY <2>1 DEF execute, NeverNested
<1>4. UNCHANGED <<executed, authorizations>> /\ Slot(c) \in nonceUsed'
  BY DEF execute, ExecuteStep, authorizationVars
<1>5. SlotExecutesOnce' /\ ExecutedSlotsUsed'
  BY <1>4 DEF Monotone, ExecutorInv, SlotExecutesOnce, ExecutedSlotsUsed
<1>6. ExecutedStandsOnVerdict'
  BY <1>4, VerdictStable DEF ExecutorInv, ExecutedStandsOnVerdict
<1>7. Slot(c) \notin nonceUsed
  BY DEF execute, validate
<1>8. \A x \in Capability : Slot(x) = Slot(c) => executed'[x] = 0
  BY <1>4, <1>7 DEF ExecutorInv, ExecutedSlotsUsed, TypeOK, ExecutorTypeOK
<1>9. v = c.value /\ d = c.calldata
  BY DEF execute, validate
<1>10. StandsOnVerdict(c)'
  <2>1. validateAuthorization(c)
    BY DEF execute, validate
  <2> DEFINE auth == getAuthorization(c.authorizationId)
  <2>2. auth' = auth
    BY <1>4 DEF getAuthorization
  <2>3. /\ auth # NoRecord
        /\ auth.requestHash = requestHash(c)
        /\ auth.policyCommitment = c.policyHash
        /\ \/ auth.verdict = "ALLOW"
           \/ auth.verdict = "ESCALATE" /\ HasApprovalRegistry
                /\ isApprovalValid(c)
    BY <2>1 DEF validateAuthorization
  <2>4. ASSUME auth.verdict = "ESCALATE", HasApprovalRegistry, isApprovalValid(c)
        PROVE  c \in consumed' /\ \E s \in signedApprovals' : s.cap = c
    <3>1. c \in consumed'
      BY <2>4 DEF execute, consumeApproval
    <3>2. \E s \in signedApprovals : s.cap = c
      BY <2>4 DEF isApprovalValid, ExecutorInv, ApprovalsAreSigned
    <3> QED
      BY <3>1, <3>2 DEF Monotone
  <2> HIDE DEF auth
  <2>5. /\ auth' # NoRecord
        /\ auth'.requestHash = requestHash(c)
        /\ auth'.policyCommitment = c.policyHash
        /\ \/ auth'.verdict = "ALLOW"
           \/ /\ auth'.verdict = "ESCALATE"
              /\ HasApprovalRegistry
              /\ c \in consumed'
              /\ \E s \in signedApprovals' : s.cap = c
    BY <2>2, <2>3, <2>4
  <2> QED
    BY <2>5 DEF StandsOnVerdict, auth
<1>11. RunningHoldsItsSlot'
  <2> SUFFICES ASSUME NEW n \in 1 .. Len(callStack'), NEW x \in Capability,
                      callStack'[n].cap = x
               PROVE  /\ Slot(x) \in nonceUsed'
                      /\ \A y \in Capability :
                           Slot(y) = Slot(x) => executed'[y] = 0
                      /\ StandsOnVerdict(x)'
                      /\ callStack'[n].value = x.value
                      /\ callStack'[n].calldata = x.calldata
    BY DEF RunningHoldsItsSlot
  <2>1. callStack'[n] = [cap |-> c, value |-> v, calldata |-> d]
    BY <1>2
  <2>2. x = c /\ callStack'[n].value = v /\ callStack'[n].calldata = d
    BY <2>1
  <2> QED
    BY <1>4, <1>8, <1>9, <1>10, <2>2
<1> QED
  BY <1>3, <1>5, <1>6, <1>11 DEF ExecutorInv

\* The return pops the only frame; its slot had no execution, so the one it
\* records is the first.
LEMMA ReturnKeepsInv ==
  ASSUME TypeOK, ExecutorInv, Monotone, ApprovalsAreSigned', ReturnStep
  PROVE  ExecutorInv'
<1>1. Len(callStack) = 1
  BY DEF ReturnStep, targetReturns, ExecutorInv, NeverNested, TypeOK,
         ExecutorTypeOK
<1>2. callStack[1] \in Frame
  <2>1. callStack \in Seq(Frame) /\ 1 \in 1 .. Len(callStack)
    BY <1>1 DEF TypeOK, ExecutorTypeOK
  <2> QED
    BY <2>1
<1> DEFINE c == callStack[1].cap
<1>3. c \in Capability
  BY <1>2 DEF Frame
<1>4. executed' = [executed EXCEPT ![c] = @ + 1] /\ entered' = 0
        /\ UNCHANGED <<nonceUsed, authorizations, consumed, signedApprovals>>
  BY <1>1 DEF ReturnStep, targetReturns, authorizationVars, approvalVars
<1>5. callStack' = <<>>
  BY <1>1 DEF ReturnStep, targetReturns, TypeOK, ExecutorTypeOK
<1>6. /\ Slot(c) \in nonceUsed
      /\ \A d \in Capability : Slot(d) = Slot(c) => executed[d] = 0
      /\ StandsOnVerdict(c)
  BY <1>1, <1>3 DEF ExecutorInv, RunningHoldsItsSlot
<1> HIDE DEF c
<1>7. \A x \in Capability :
        executed'[x] = IF x = c THEN 1 ELSE executed[x]
  BY <1>3, <1>4, <1>6 DEF TypeOK, ExecutorTypeOK
<1>8. NeverNested'
  BY <1>4, <1>5 DEF NeverNested
<1>9. SlotExecutesOnce' /\ ExecutedSlotsUsed'
  BY <1>3, <1>4, <1>6, <1>7
     DEF ExecutorInv, SlotExecutesOnce, ExecutedSlotsUsed, TypeOK, ExecutorTypeOK
<1>10. ExecutedStandsOnVerdict'
  <2> SUFFICES ASSUME NEW x \in Capability, executed'[x] > 0
               PROVE  StandsOnVerdict(x)'
    BY DEF ExecutedStandsOnVerdict
  <2>1. StandsOnVerdict(x)
    BY <1>6, <1>7 DEF ExecutorInv, ExecutedStandsOnVerdict
  <2> QED
    BY <2>1, VerdictStable
<1>11. RunningHoldsItsSlot'
  BY <1>5 DEF RunningHoldsItsSlot
<1> QED
  BY <1>8, <1>9, <1>10, <1>11 DEF ExecutorInv

\* Every step keeps the inductive invariant: only execute and the return of its
\* target can disturb it.
LEMMA InvStep == TypeOK /\ ExecutorInv /\ [Next]_vars => ExecutorInv'
<1> SUFFICES ASSUME TypeOK, ExecutorInv, [Next]_vars PROVE ExecutorInv'
  OBVIOUS
<1>1. Monotone /\ ApprovalsAreSigned'
  BY StepMonotone, SignedStep DEF ExecutorInv
<1>2. CASE ExecuteStep
  BY <1>1, <1>2, ExecuteKeepsInv
<1>3. CASE ReturnStep
  BY <1>1, <1>3, ReturnKeepsInv
<1>4. CASE UNCHANGED <<nonceUsed, entered, callStack, executed>>
  BY <1>1, <1>4, QuietStep
<1>5. \/ ExecuteStep \/ ReturnStep
      \/ UNCHANGED <<nonceUsed, entered, callStack, executed>>
  BY DEF Next, PolicyStep, IdentityStep, AuthorizationStep, ApprovalStep,
         DeviceStep, IssueStep, Issue, TickStep, vars, executorVars
<1> QED
  BY <1>2, <1>3, <1>4, <1>5

\* Nothing is running, spent or executed at first.
LEMMA InvInit == Init => ExecutorInv
<1> SUFFICES ASSUME Init PROVE ExecutorInv
  OBVIOUS
<1>1. NeverNested
  BY DEF Init, ExecutorInit, NeverNested
<1>2. SlotExecutesOnce /\ ExecutedStandsOnVerdict /\ ExecutedSlotsUsed
  BY DEF Init, ExecutorInit, SlotExecutesOnce, ExecutedStandsOnVerdict,
         ExecutedSlotsUsed
<1>3. RunningHoldsItsSlot
  BY DEF Init, ExecutorInit, RunningHoldsItsSlot
<1>4. ApprovalsAreSigned
  BY DEF Init, ApprovalInit, ApprovalsAreSigned
<1> QED
  BY <1>1, <1>2, <1>3, <1>4 DEF ExecutorInv

\* The strengthened invariant holds in every reachable state.
THEOREM Invariant == Spec => [](TypeOK /\ ExecutorInv)
<1> QED
  BY TypeInit, InvInit, TypeStep, InvStep, PTL DEF Spec

\* No replay slot is ever executed twice.
THEOREM NoReplay == Spec => []SlotExecutesOnce
<1>1. ExecutorInv => SlotExecutesOnce
  BY DEF ExecutorInv
<1> QED
  BY <1>1, Invariant, PTL

\* Whatever was executed stands on a matching ALLOW, or on a matching
\* ESCALATE with a consumed, device-signed approval.
THEOREM ExecutionNeedsVerdict == Spec => []ExecutedStandsOnVerdict
<1>1. ExecutorInv => ExecutedStandsOnVerdict
  BY DEF ExecutorInv
<1> QED
  BY <1>1, Invariant, PTL

\* Executions never nest and the lock is released with the call.
THEOREM NoReentrancy == Spec => []NeverNested
<1>1. ExecutorInv => NeverNested
  BY DEF ExecutorInv
<1> QED
  BY <1>1, Invariant, PTL

\* The running target was sent what the verdict on record was given for.
THEOREM TargetGetsWhatWasJudged == Spec => []SentWhatWasJudged
<1>1. TypeOK /\ ExecutorInv => SentWhatWasJudged
  <2> SUFFICES ASSUME TypeOK, ExecutorInv, NEW n \in 1 .. Len(callStack)
               PROVE  LET auth == getAuthorization(callStack[n].cap.authorizationId)
                      IN  /\ auth # NoRecord
                          /\ auth.requestHash.target = callStack[n].cap.target
                          /\ auth.requestHash.value = callStack[n].value
                          /\ auth.requestHash.calldata = callStack[n].calldata
    BY DEF SentWhatWasJudged
  <2>1. callStack[n] \in Frame
    BY DEF TypeOK, ExecutorTypeOK
  <2>2. callStack[n].cap \in Capability
    BY <2>1 DEF Frame
  <2>3. PICK c \in Capability : c = callStack[n].cap
    BY <2>2
  <2>4. StandsOnVerdict(c) /\ callStack[n].value = c.value
          /\ callStack[n].calldata = c.calldata
    BY <2>3 DEF ExecutorInv, RunningHoldsItsSlot
  <2> QED
    BY <2>3, <2>4 DEF StandsOnVerdict, requestHash
<1> QED
  BY <1>1, Invariant, PTL

-----------------------------------------------------------------------------
(* The contracts implement OneShotAuthority. *)

\* Each step of the contracts is a step of the abstract authority: recording a
\* verdict decides, a device signature consents, a target's return executes,
\* and every other step is invisible.
THEOREM Refinement == Spec => ImplementsOneShotAuthority
<1>1. Init => Authority!Init
  BY DEF Init, AuthorizationInit, ApprovalInit, ExecutorInit, Authority!Init
<1>2. TypeOK /\ ExecutorInv /\ [Next]_vars => [Authority!Next]_Authority!vars
  <2> SUFFICES ASSUME TypeOK, ExecutorInv, [Next]_vars
               PROVE  Authority!Next \/ UNCHANGED Authority!vars
    OBVIOUS
  <2> USE DEF Authority!vars
  <2>1. CASE PolicyStep \/ IdentityStep \/ IssueStep \/ TickStep
             \/ ExecuteStep \/ UNCHANGED vars
    BY <2>1 DEF PolicyStep, IdentityStep, IssueStep, Issue, TickStep,
                ExecuteStep, execute, consumeApproval, vars, authorizationVars,
                approvalVars, executorVars
  <2>2. CASE AuthorizationStep
    <3>1. UNCHANGED <<signedApprovals, executed>>
      BY <2>2 DEF AuthorizationStep, approvalVars, executorVars
    <3>2. ASSUME NEW s, NEW id \in AuthorizationId, NEW r \in Report,
                 recordAuthorization(s, id, r)
          PROVE  Authority!Next
      <4>1. Authority!Decide(id, r)
        BY <3>1, <3>2 DEF recordAuthorization, Authority!Decide
      <4> QED
        BY <4>1 DEF Authority!Next
    <3>3. ASSUME NEW r \in Report PROVE authorizationIdOf(r) \in AuthorizationId
      BY DEF AuthorizationId
    <3>4. PICK sender : AuthorizationNext(sender)
      BY <2>2 DEF AuthorizationStep
    <3> QED
      BY <3>1, <3>2, <3>3, <3>4
         DEF AuthorizationNext, onReport, setAuthorizer, setForwarder,
             setExpectedPolicyCommitment
  <2>3. CASE ApprovalStep
    BY <2>3 DEF ApprovalStep, ApprovalNext, setApprover, setExecutor,
                submitApproval, consumeApproval, authorizationVars, executorVars
  <2>4. CASE DeviceStep
    <3>1. PICK a \in Approver, c \in Capability, e \in ApprovalExpiry :
            SignOnDevice(a, c, e)
      BY <2>4 DEF DeviceStep, DeviceNext
    <3>2. UNCHANGED <<authorizations, executed>>
      BY <2>4 DEF DeviceStep, authorizationVars, executorVars
    <3> DEFINE sig == [cap |-> c, approver |-> a, expiresAt |-> e]
    <3>3. signedApprovals' = signedApprovals \cup {sig} /\ sig.cap = c
      BY <3>1 DEF SignOnDevice
    <3> HIDE DEF sig
    <3>4. {s.cap : s \in signedApprovals'} = {s.cap : s \in signedApprovals} \cup {c}
      BY <3>3
    <3>5. Authority!Consent(c)
      BY <3>2, <3>4 DEF Authority!Consent
    <3> QED
      BY <3>5 DEF Authority!Next
  <2>5. CASE ReturnStep
    <3>1. Len(callStack) = 1
      BY <2>5 DEF ReturnStep, targetReturns, ExecutorInv, NeverNested, TypeOK,
                  ExecutorTypeOK
    <3>2. callStack \in Seq(Frame) /\ 1 \in 1 .. Len(callStack)
      BY <3>1 DEF TypeOK, ExecutorTypeOK
    <3>3. callStack[1] \in Frame
      BY <3>2
    <3>4. callStack[1].cap \in Capability
      BY <3>3 DEF Frame
    <3>5. PICK c \in Capability : c = callStack[1].cap
      BY <3>4
    <3>6. /\ \A d \in Capability : Slot(d) = Slot(c) => executed[d] = 0
          /\ StandsOnVerdict(c)
      BY <3>2, <3>5 DEF ExecutorInv, RunningHoldsItsSlot
    <3>7. executed' = [executed EXCEPT ![c] = 1]
      <4>1. executed' = [executed EXCEPT ![c] = executed[c] + 1]
        BY <2>5, <3>1, <3>5 DEF ReturnStep, targetReturns
      <4>2. executed[c] + 1 = 1
        BY <3>6
      <4> QED
        BY <4>1, <4>2
    <3>8. UNCHANGED <<authorizations, signedApprovals>>
      BY <2>5 DEF ReturnStep, authorizationVars, approvalVars
    <3>9. Authority!Execute(c)
      BY <3>6, <3>7, <3>8 DEF StandsOnVerdict, getAuthorization, Authority!Execute
    <3> QED
      BY <3>9 DEF Authority!Next
  <2> QED
    BY <2>1, <2>2, <2>3, <2>4, <2>5 DEF Next
<1> QED
  BY <1>1, <1>2, Invariant, PTL DEF Spec, ImplementsOneShotAuthority, Authority!Spec

=============================================================================
