----------------------------- MODULE EnsIdentity -----------------------------
(***************************************************************************)
(* contracts/src/identity/EnsAgentIdentityVerifier.sol and, external to    *)
(* the repository, the ENSv2 registry it reads through IEnsV2Registry.     *)
(*                                                                         *)
(* An identity hash is the tuple it commits to: label, the name's owner,   *)
(* the agent, the token id and a binding version, all as they were when    *)
(* bind read them.                                                         *)
(***************************************************************************)
EXTENDS ChainTypes

CONSTANTS
  Label,        \* ENS names
  VerifierOwner,\* the owner of the verifier
  MaxTokenId    \* bound on the registry's token id generations

ASSUME IdentityAssumption ==
  /\ Identity \subseteq [label : Label, owner : Account, agent : Account,
                         tokenId : 0 .. MaxTokenId, version : Nat]
  /\ MaxTokenId \in Nat
  /\ VerifierOwner \in Account

VARIABLES
  ens,          \* [Label -> [owner, tokenId, expiry]]: the ENSv2 registry
  bindings,     \* the identity hashes with bindings[h].exists
  simulateRegistryOutage

identityVars == <<ens, bindings, simulateRegistryOutage>>

Name == [owner : Account \cup {NoAccount}, tokenId : 0 .. MaxTokenId,
         expiry : 0 .. MaxTime + 1]

IdentityTypeOK ==
  /\ ens \in [Label -> Name]
  /\ bindings \subseteq Identity
  /\ simulateRegistryOutage \in BOOLEAN

IdentityInit ==
  /\ ens = [l \in Label |-> [owner |-> NoAccount, tokenId |-> 0, expiry |-> 0]]
  /\ bindings = {}
  /\ simulateRegistryOutage = FALSE

-----------------------------------------------------------------------------
(* The ENSv2 registry: what IEnsV2Registry documents of it. *)

getTokenId(l) == ens[l].tokenId
getExpiry(l) == ens[l].expiry

\* ownerOf is address(0) past expiry and for a token id no longer in use.
ownerOf(l, tokenId) ==
  IF tokenId = ens[l].tokenId /\ ens[l].expiry > now
  THEN ens[l].owner ELSE NoAccount

\* A name that is free or expired is registered under a new token id.
EnsRegister(l, owner, expiry) ==
  /\ ownerOf(l, ens[l].tokenId) = NoAccount
  /\ ens[l].tokenId < MaxTokenId
  /\ expiry > now
  /\ ens' = [ens EXCEPT ![l] =
               [owner |-> owner, tokenId |-> @.tokenId + 1, expiry |-> expiry]]
  /\ UNCHANGED <<bindings, simulateRegistryOutage>>

EnsTransfer(l, owner) ==
  /\ ownerOf(l, ens[l].tokenId) # NoAccount
  /\ ens' = [ens EXCEPT ![l].owner = owner]
  /\ UNCHANGED <<bindings, simulateRegistryOutage>>

\* grantRoles and revokeRoles regenerate the token id.
EnsChangeRoles(l) ==
  /\ ownerOf(l, ens[l].tokenId) # NoAccount
  /\ ens[l].tokenId < MaxTokenId
  /\ ens' = [ens EXCEPT ![l].tokenId = @ + 1]
  /\ UNCHANGED <<bindings, simulateRegistryOutage>>

EnsUnregister(l) ==
  /\ ownerOf(l, ens[l].tokenId) # NoAccount
  /\ ens' = [ens EXCEPT ![l].owner = NoAccount]
  /\ UNCHANGED <<bindings, simulateRegistryOutage>>

-----------------------------------------------------------------------------
(* The verifier. Its owner is the only caller of bind, unbind and the      *)
(* outage switch.                                                          *)

computeIdentityHash(l, owner, agent, tokenId, version) ==
  [label |-> l, owner |-> owner, agent |-> agent, tokenId |-> tokenId,
   version |-> version]

bind(sender, l, agent, version) ==
  LET tokenId == getTokenId(l)
      nameOwner == ownerOf(l, tokenId)
      h == computeIdentityHash(l, nameOwner, agent, tokenId, version)
  IN  /\ sender = VerifierOwner
      /\ nameOwner # NoAccount
      /\ h \in Identity \ bindings
      /\ bindings' = bindings \cup {h}
      /\ UNCHANGED <<ens, simulateRegistryOutage>>

unbind(sender, h) ==
  /\ sender = VerifierOwner
  /\ h \in bindings
  /\ bindings' = bindings \ {h}
  /\ UNCHANGED <<ens, simulateRegistryOutage>>

setSimulateRegistryOutage(sender, v) ==
  /\ sender = VerifierOwner
  /\ simulateRegistryOutage' = v
  /\ UNCHANGED <<ens, bindings>>

\* Mutant: the owner is read under the name's present token id, and the token
\* id is left out of the comparison.
isIdentityCurrentByLabel(h, agent) ==
  /\ ~simulateRegistryOutage
  /\ h \in bindings
  /\ h.agent = agent
  /\ ownerOf(h.label, getTokenId(h.label)) = h.owner
  /\ getExpiry(h.label) > now

\* The live check, in the order of the code.
isIdentityCurrent(h, agent) ==
  /\ ~simulateRegistryOutage
  /\ h \in bindings
  /\ h.agent = agent
  /\ LET currentOwner == ownerOf(h.label, h.tokenId)
     IN  /\ currentOwner # NoAccount
         /\ currentOwner = h.owner
         /\ getExpiry(h.label) > now
         /\ getTokenId(h.label) = h.tokenId
         /\ computeIdentityHash(h.label, currentOwner, h.agent,
                                getTokenId(h.label), h.version) = h

EnsNext ==
  \E l \in Label :
    \/ \E owner \in Account, expiry \in 0 .. MaxTime + 1 :
         EnsRegister(l, owner, expiry)
    \/ \E owner \in Account : EnsTransfer(l, owner)
    \/ EnsChangeRoles(l)
    \/ EnsUnregister(l)

VerifierNext(sender) ==
  \/ \E h \in Identity :
       \/ bind(sender, h.label, h.agent, h.version)
       \/ unbind(sender, h)
  \/ \E v \in BOOLEAN : setSimulateRegistryOutage(sender, v)

\* The verifier with the registry it reads and the clock.
IdentityNext ==
  \/ EnsNext /\ UNCHANGED now
  \/ (\E sender \in Account : VerifierNext(sender)) /\ UNCHANGED now
  \/ Tick /\ UNCHANGED identityVars

-----------------------------------------------------------------------------
(* Properties *)

\* Once ENS has regenerated the token id an identity hash commits to (a role
\* change, or re-registration after expiry), that identity is never current
\* again: not after another transfer, renewal, rebind or outage
\* (EnsAgentIdentityVerifier.sol:34-37).
RegeneratedIsDead ==
  \A h \in Identity :
    [](getTokenId(h.label) > h.tokenId => []~isIdentityCurrent(h, h.agent))

=============================================================================
