-------------------------- MODULE ApprovalRegistry --------------------------
(***************************************************************************)
(* contracts/src/ContextLockApprovalRegistry.sol: human approvals, each    *)
(* bound to one capability digest and consumed at most once.               *)
(*                                                                         *)
(* signedApprovals is what approver devices have signed: off chain, and    *)
(* submitted by anyone at any later time, or never.                        *)
(***************************************************************************)
EXTENDS ChainTypes

CONSTANTS
  Approver,         \* the accounts that can be the configured approver
  ApprovalOwner,    \* the registry's owner
  ExecutorAddress,  \* the address of ContextLockExecutor
  ApprovalExpiry,   \* the expiry times a human may sign
  NoApproval        \* an empty slot of approvals

ASSUME ApprovalAssumption ==
  /\ Approver \subseteq Account /\ Approver # {}
  /\ ApprovalOwner \in Account
  /\ ExecutorAddress \notin Account \cup {NoAccount}
  /\ ApprovalExpiry \subseteq Nat

\* approvedAt is stored and never read, so it is left out; "exists" is
\* approvals[c] # NoApproval and "consumed" is membership in consumed.
Approval == [approver : Approver, expiresAt : ApprovalExpiry]

ASSUME NoApprovalAssumption == NoApproval \notin Approval

VARIABLES
  approver,         \* the configured human approver
  approvalExecutor, \* "executor": the only account that may consume
  approvals,        \* [Capability -> Approval or NoApproval]
  consumed,         \* the capabilities whose approval is consumed
  signedApprovals   \* set of [cap, approver, expiresAt]

approvalVars ==
  <<approver, approvalExecutor, approvals, consumed, signedApprovals>>

ApprovalTypeOK ==
  /\ approver \in Approver
  /\ approvalExecutor \in Account \cup {ExecutorAddress, NoAccount}
  /\ approvals \in [Capability -> Approval \cup {NoApproval}]
  /\ consumed \subseteq Capability
  /\ signedApprovals \subseteq [cap : Capability, approver : Approver,
                                expiresAt : ApprovalExpiry]

ApprovalInit ==
  /\ approver \in Approver
  /\ approvalExecutor = NoAccount
  /\ approvals = [c \in Capability |-> NoApproval]
  /\ consumed = {}
  /\ signedApprovals = {}

-----------------------------------------------------------------------------

setApprover(sender, next) ==
  /\ sender = ApprovalOwner
  /\ approver' = next
  /\ UNCHANGED <<approvalExecutor, approvals, consumed, signedApprovals>>

setExecutor(sender, next) ==
  /\ sender = ApprovalOwner
  /\ approvalExecutor' = next
  /\ UNCHANGED <<approver, approvals, consumed, signedApprovals>>

\* The human presses approve on the device (packages/ledger): a signature
\* over this capability digest and expiry exists from now on.
SignOnDevice(a, c, expiresAt) ==
  /\ signedApprovals' = signedApprovals \cup
       {[cap |-> c, approver |-> a, expiresAt |-> expiresAt]}
  /\ UNCHANGED <<approver, approvalExecutor, approvals, consumed>>

\* Mutant: no ApprovalAlreadyExists check, so the slot is rewritten unconsumed.
submitApprovalAgain(c, expiresAt) ==
  /\ expiresAt > now
  /\ [cap |-> c, approver |-> approver, expiresAt |-> expiresAt]
       \in signedApprovals
  /\ approvals' = [approvals EXCEPT ![c] =
                     [approver |-> approver, expiresAt |-> expiresAt]]
  /\ consumed' = consumed \ {c}
  /\ UNCHANGED <<approver, approvalExecutor, signedApprovals>>

\* Permissionless: the signature is the authority.
submitApproval(c, expiresAt) ==
  /\ expiresAt > now
  /\ approvals[c] = NoApproval
  /\ [cap |-> c, approver |-> approver, expiresAt |-> expiresAt]
       \in signedApprovals
  /\ approvals' = [approvals EXCEPT ![c] =
                     [approver |-> approver, expiresAt |-> expiresAt]]
  /\ UNCHANGED <<approver, approvalExecutor, consumed, signedApprovals>>

isApprovalValid(c) ==
  /\ approvals[c] # NoApproval
  /\ c \notin consumed
  /\ now <= approvals[c].expiresAt
  /\ approvals[c].approver = approver

consumeApproval(sender, c) ==
  /\ sender = approvalExecutor
  /\ isApprovalValid(c)
  /\ consumed' = consumed \cup {c}
  /\ UNCHANGED <<approver, approvalExecutor, approvals, signedApprovals>>

DeviceNext ==
  \E a \in Approver, c \in Capability, expiresAt \in ApprovalExpiry :
    SignOnDevice(a, c, expiresAt)

ApprovalNext(sender) ==
  \/ \E next \in Approver : setApprover(sender, next)
  \/ \E next \in Account \cup {ExecutorAddress, NoAccount} :
       setExecutor(sender, next)
  \/ \E c \in Capability, expiresAt \in ApprovalExpiry :
       submitApproval(c, expiresAt)
  \/ \E c \in Capability : consumeApproval(sender, c)

=============================================================================
