----------------------------- MODULE ChainTypes -----------------------------
(***************************************************************************)
(* The values every contract shares (contracts/src/ContextLockTypes.sol)   *)
(* and the block clock.                                                    *)
(*                                                                         *)
(* keccak256 is taken to be collision free, so a hash is the value it      *)
(* hashes: a request hash is the request, a capability digest is the       *)
(* capability.  A signature is membership in the set of what was signed.   *)
(***************************************************************************)
EXTENDS Naturals

CONSTANTS
  Account,       \* addresses that can send a call: EOAs and contracts
  NoAccount,     \* address(0)
  Identity,      \* agentIdentityHash values
  PolicyHash,    \* public policy hashes; also the policy commitments of reports
  Target,        \* the contracts capabilities call
  ActionKind,    \* declared action classes
  Value,         \* wei amounts: call values and hard caps
  Calldata,      \* call data (and, being collision free, its hash)
  Capability,    \* the capabilities that can be presented to the executor
  ThisDomain,    \* (version, chain id, executor) this executor accepts
  MaxTime        \* bound on block.timestamp

\* The struct Capability; "domain" stands for version, chainId and executor.
CapabilityFields ==
  {"domain", "identity", "agent", "target", "value", "calldata", "intent",
   "policyHash", "authorizationId", "context", "issuedAt", "expiresAt", "nonce"}

ASSUME TypesAssumption ==
  /\ NoAccount \notin Account
  /\ Target \subseteq Account
  /\ Value \subseteq Nat /\ 0 \in Value
  /\ MaxTime \in Nat
  /\ \A c \in Capability :
       /\ DOMAIN c = CapabilityFields
       /\ c.identity \in Identity
       /\ c.agent \in Account
       /\ c.target \in Target \cup {NoAccount}
       /\ c.value \in Value
       /\ c.calldata \in Calldata
       /\ c.policyHash \in PolicyHash
       /\ c.issuedAt \in Nat /\ c.expiresAt \in Nat

VARIABLE now   \* block.timestamp

\* requestHash: the transaction a verdict is about.  Nonce, window,
\* authorization id and context belong to the capability, not the request.
requestHash(c) ==
  [identity |-> c.identity, agent |-> c.agent, domain |-> c.domain,
   target |-> c.target, value |-> c.value, calldata |-> c.calldata,
   intent |-> c.intent, policyHash |-> c.policyHash]

\* The replay slot a capability occupies: nonceUsed[agentIdentityHash][nonce].
Slot(c) == <<c.identity, c.nonce>>

\* A new block with a later timestamp.
Tick ==
  /\ now < MaxTime
  /\ now' = now + 1

=============================================================================
