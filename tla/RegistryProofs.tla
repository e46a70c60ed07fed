--------------------------- MODULE RegistryProofs ---------------------------
(***************************************************************************)
(* The two guarantees of the registries, for every set of accounts,        *)
(* identities, policies, targets, action kinds, caps and names.            *)
(***************************************************************************)
EXTENDS Registries, TLAPS

PolicyInv == PolicyTypeOK /\ UnclaimedIsClosed

LEMMA PolicyInvInit == Init => PolicyInv
BY TypesAssumption, PolicyAssumption
   DEF Init, PolicyInit, PolicyInv, PolicyTypeOK, UnclaimedIsClosed, isPolicyEnabled,
       isTargetAllowed, isActionAllowed, maxValueHardCap

\* A write needs the admin of its own identity, so it leaves an identity
\* without one as it is.
LEMMA PolicyTypeCall ==
  ASSUME PolicyTypeOK, NEW sender \in Account, PolicyNext(sender)
  PROVE  PolicyTypeOK'
<1> USE TypesAssumption, PolicyAssumption DEF PolicyTypeOK
<1> PICK i \in Identity :
      \/ \E admin \in Account : setPolicyAdmin(sender, i, admin)
      \/ bumpBindingVersion(sender, i)
      \/ \E p \in PolicyHash :
           \/ \E enabled \in BOOLEAN, cap \in Value : setPolicy(sender, i, p, enabled, cap)
           \/ \E t \in Target, allowed \in BOOLEAN : setTargetAllowed(sender, i, p, t, allowed)
           \/ \E k \in ActionKind, allowed \in BOOLEAN :
                setActionAllowed(sender, i, p, k, allowed)
  BY DEF PolicyNext
<1>1. CASE \E admin \in Account : setPolicyAdmin(sender, i, admin)
  BY <1>1 DEF setPolicyAdmin
<1>2. CASE bumpBindingVersion(sender, i)
  BY <1>2 DEF bumpBindingVersion
<1>3. ASSUME NEW p \in PolicyHash, NEW enabled \in BOOLEAN, NEW cap \in Value,
             setPolicy(sender, i, p, enabled, cap)
      PROVE  PolicyTypeOK'
  <2> DEFINE new == [enabled |-> enabled, maxValueHardCap |-> cap]
  <2>1. new \in [enabled : BOOLEAN, maxValueHardCap : Value]
    OBVIOUS
  <2>2. policies' = [policies EXCEPT ![i] = [policies[i] EXCEPT ![p] = new]]
    BY <1>3 DEF setPolicy
  <2> HIDE DEF new
  <2>3. policies' \in [Identity -> [PolicyHash -> [enabled : BOOLEAN, maxValueHardCap : Value]]]
    BY <2>1, <2>2
  <2> QED BY <1>3, <2>3 DEF setPolicy
<1>4. ASSUME NEW p \in PolicyHash, NEW t \in Target, NEW allowed \in BOOLEAN,
             setTargetAllowed(sender, i, p, t, allowed)
      PROVE  PolicyTypeOK'
  BY <1>4 DEF setTargetAllowed, WithFlag
<1>5. ASSUME NEW p \in PolicyHash, NEW k \in ActionKind, NEW allowed \in BOOLEAN,
             setActionAllowed(sender, i, p, k, allowed)
      PROVE  PolicyTypeOK'
  BY <1>5 DEF setActionAllowed, WithFlag
<1> QED BY <1>1, <1>2, <1>3, <1>4, <1>5

LEMMA UnclaimedCall ==
  ASSUME PolicyInv, NEW sender \in Account, PolicyNext(sender)
  PROVE  UnclaimedIsClosed'
<1> USE TypesAssumption, PolicyAssumption DEF PolicyInv, PolicyTypeOK
<1>1. SUFFICES ASSUME NEW j \in Identity
               PROVE /\ policyAdmin'[j] = NoAccount <=> bindingVersion'[j] = 0
                     /\ policyAdmin'[j] = NoAccount =>
                          \A p \in PolicyHash :
                            /\ ~policies'[j][p].enabled
                            /\ policies'[j][p].maxValueHardCap = 0
                            /\ \A t \in Target : <<j, p, t>> \notin allowedTarget'
                            /\ \A k \in ActionKind : <<j, p, k>> \notin allowedAction'
  BY DEF UnclaimedIsClosed, isPolicyEnabled, isTargetAllowed, isActionAllowed, maxValueHardCap
<1>2. /\ policyAdmin[j] = NoAccount <=> bindingVersion[j] = 0
      /\ policyAdmin[j] = NoAccount =>
           \A p \in PolicyHash :
             /\ ~policies[j][p].enabled
             /\ policies[j][p].maxValueHardCap = 0
             /\ \A t \in Target : <<j, p, t>> \notin allowedTarget
             /\ \A k \in ActionKind : <<j, p, k>> \notin allowedAction
  BY DEF UnclaimedIsClosed, isPolicyEnabled, isTargetAllowed, isActionAllowed, maxValueHardCap
<1> PICK i \in Identity :
      \/ \E admin \in Account : setPolicyAdmin(sender, i, admin)
      \/ bumpBindingVersion(sender, i)
      \/ \E p \in PolicyHash :
           \/ \E enabled \in BOOLEAN, cap \in Value : setPolicy(sender, i, p, enabled, cap)
           \/ \E t \in Target, allowed \in BOOLEAN : setTargetAllowed(sender, i, p, t, allowed)
           \/ \E k \in ActionKind, allowed \in BOOLEAN :
                setActionAllowed(sender, i, p, k, allowed)
  BY DEF PolicyNext
<1>3. CASE \E admin \in Account : setPolicyAdmin(sender, i, admin)
  BY <1>2, <1>3 DEF setPolicyAdmin
<1>4. CASE bumpBindingVersion(sender, i)
  BY <1>2, <1>4 DEF bumpBindingVersion
<1>5. CASE \E p \in PolicyHash, enabled \in BOOLEAN, cap \in Value :
             setPolicy(sender, i, p, enabled, cap)
  BY <1>2, <1>5 DEF setPolicy
<1>6. CASE \E p \in PolicyHash, t \in Target, allowed \in BOOLEAN :
             setTargetAllowed(sender, i, p, t, allowed)
  BY <1>2, <1>6 DEF setTargetAllowed, WithFlag
<1>7. CASE \E p \in PolicyHash, k \in ActionKind, allowed \in BOOLEAN :
             setActionAllowed(sender, i, p, k, allowed)
  BY <1>2, <1>7 DEF setActionAllowed, WithFlag
<1> QED BY <1>3, <1>4, <1>5, <1>6, <1>7

LEMMA PolicyInvStep == PolicyInv /\ [Next]_registryVars => PolicyInv'
<1> SUFFICES ASSUME PolicyInv, [Next]_registryVars PROVE PolicyInv'
  OBVIOUS
<1>1. CASE PolicyCall
  BY <1>1, PolicyTypeCall, UnclaimedCall DEF PolicyCall, PolicyInv
<1>2. CASE UNCHANGED policyVars
  BY <1>2 DEF policyVars, PolicyInv, PolicyTypeOK, UnclaimedIsClosed, isPolicyEnabled,
              isTargetAllowed, isActionAllowed, maxValueHardCap
<1> QED BY <1>1, <1>2 DEF Next, registryVars

\* An identity nobody claimed authorises nothing, whoever calls what in
\* whatever order (ContextLockPolicyRegistry.sol).
THEOREM UnclaimedAuthorisesNothing == Spec => []UnclaimedIsClosed
<1>1. PolicyInv => UnclaimedIsClosed
  BY DEF PolicyInv
<1> QED BY PolicyInvInit, PolicyInvStep, <1>1, PTL DEF Spec

-----------------------------------------------------------------------------
(* Identity.                                                               *)

LEMMA IdentityTypeInit == Init => IdentityTypeOK
<1> SUFFICES ASSUME IdentityInit PROVE IdentityTypeOK
  BY DEF Init
<1> DEFINE free == [owner |-> NoAccount, tokenId |-> 0, expiry |-> 0]
<1>1. free \in Name
  BY TypesAssumption, IdentityAssumption DEF Name
<1>2. ens = [l \in Label |-> free]
  BY DEF IdentityInit
<1> HIDE DEF free
<1>3. ens \in [Label -> Name]
  BY <1>1, <1>2
<1> QED BY <1>3, Zenon DEF IdentityInit, IdentityTypeOK

\* No call takes the token id of a name back.
LEMMA TokenIdsRise ==
  ASSUME IdentityTypeOK, [Next]_registryVars
  PROVE  /\ IdentityTypeOK'
         /\ \A l \in Label : getTokenId(l)' \in Nat /\ getTokenId(l)' >= getTokenId(l)
<1> USE TypesAssumption, IdentityAssumption DEF IdentityTypeOK, getTokenId
<1>0. \A l \in Label : ens[l] \in Name /\ ens[l].tokenId \in Nat
  BY DEF Name
<1>1. CASE UNCHANGED identityVars
  BY <1>0, <1>1 DEF identityVars
<1>2. ASSUME NEW l \in Label, NEW owner \in Account, NEW expiry \in 0 .. MaxTime + 1,
             EnsRegister(l, owner, expiry)
      PROVE  IdentityTypeOK' /\ \A m \in Label : ens'[m].tokenId \in Nat /\ ens'[m].tokenId >= ens[m].tokenId
  <2> DEFINE new == [owner |-> owner, tokenId |-> ens[l].tokenId + 1, expiry |-> expiry]
  <2>1. ens' = [ens EXCEPT ![l] = new]
    BY <1>2 DEF EnsRegister
  <2>2. new \in Name /\ new.tokenId > ens[l].tokenId
    BY <1>0, <1>2 DEF EnsRegister, Name
  <2> HIDE DEF new
  <2>3. ens' \in [Label -> Name]
    BY <2>1, <2>2
  <2> QED BY <1>0, <1>2, <2>1, <2>2, <2>3 DEF EnsRegister, Name
<1>3. ASSUME NEW l \in Label, NEW owner \in Account \cup {NoAccount},
             ens' = [ens EXCEPT ![l].owner = owner],
             UNCHANGED <<bindings, simulateRegistryOutage>>
      PROVE  IdentityTypeOK' /\ \A m \in Label : ens'[m].tokenId \in Nat /\ ens'[m].tokenId >= ens[m].tokenId
  <2> DEFINE new == [ens[l] EXCEPT !.owner = owner]
  <2>1. ens' = [ens EXCEPT ![l] = new]
    BY <1>3
  <2>2. new \in Name /\ new.tokenId = ens[l].tokenId
    BY <1>0 DEF Name
  <2> HIDE DEF new
  <2>3. ens' \in [Label -> Name]
    BY <2>1, <2>2
  <2> QED BY <1>0, <1>3, <2>1, <2>2, <2>3
<1>4. ASSUME NEW l \in Label, EnsChangeRoles(l)
      PROVE  IdentityTypeOK' /\ \A m \in Label : ens'[m].tokenId \in Nat /\ ens'[m].tokenId >= ens[m].tokenId
  <2> DEFINE new == [ens[l] EXCEPT !.tokenId = ens[l].tokenId + 1]
  <2>1. ens' = [ens EXCEPT ![l] = new]
    BY <1>4 DEF EnsChangeRoles
  <2>2. new \in Name /\ new.tokenId > ens[l].tokenId
    BY <1>0, <1>4 DEF EnsChangeRoles, Name
  <2> HIDE DEF new
  <2>3. ens' \in [Label -> Name]
    BY <2>1, <2>2
  <2> QED BY <1>0, <1>4, <2>1, <2>2, <2>3 DEF EnsChangeRoles, Name
<1>5. ASSUME NEW sender \in Account, VerifierNext(sender)
      PROVE  IdentityTypeOK' /\ UNCHANGED ens
  BY <1>5 DEF VerifierNext, bind, unbind, setSimulateRegistryOutage
<1>6. CASE EnsNext
  <2>1. ASSUME NEW l \in Label, EnsTransfer(l, NoAccount) \/ (\E owner \in Account : EnsTransfer(l, owner))
                                  \/ EnsUnregister(l)
        PROVE  IdentityTypeOK' /\ \A m \in Label : ens'[m].tokenId \in Nat /\ ens'[m].tokenId >= ens[m].tokenId
    BY <1>3, <2>1 DEF EnsTransfer, EnsUnregister
  <2> QED BY <1>2, <1>4, <1>6, <2>1 DEF EnsNext
<1>7. CASE \E sender \in Account : VerifierNext(sender)
  BY <1>0, <1>5, <1>7
<1> QED BY <1>1, <1>6, <1>7 DEF Next, PolicyCall, IdentityNext, Tick, registryVars, identityVars

\* An identity whose token id ENS has regenerated is dead for good, whatever is
\* registered, transferred, renewed, bound or switched afterwards
\* (EnsAgentIdentityVerifier.sol isIdentityCurrent).
THEOREM RegenerationKills == Spec => RegeneratedIsDead
<1> SUFFICES ASSUME NEW h \in Identity
             PROVE  Spec => [](getTokenId(h.label) > h.tokenId => []~isIdentityCurrent(h, h.agent))
  BY DEF RegeneratedIsDead
<1> DEFINE Gone == getTokenId(h.label) > h.tokenId
<1>1. h.label \in Label /\ h.tokenId \in Nat
  BY IdentityAssumption
<1>2. IdentityTypeOK /\ [Next]_registryVars => IdentityTypeOK'
  BY TokenIdsRise
<1>3. IdentityTypeOK /\ Gone /\ [Next]_registryVars => Gone'
  <2> SUFFICES ASSUME IdentityTypeOK, Gone, [Next]_registryVars PROVE Gone'
    OBVIOUS
  <2>1. getTokenId(h.label)' \in Nat /\ getTokenId(h.label)' >= getTokenId(h.label)
    BY <1>1, TokenIdsRise
  <2>2. getTokenId(h.label) \in Nat
    <3>1. ens[h.label] \in Name
      BY <1>1 DEF IdentityTypeOK
    <3> QED BY <3>1, IdentityAssumption DEF getTokenId, Name
  <2> QED BY <1>1, <2>1, <2>2
<1>4. IdentityTypeOK /\ Gone => ~isIdentityCurrent(h, h.agent)
  <2> SUFFICES ASSUME IdentityTypeOK, Gone PROVE getTokenId(h.label) # h.tokenId
    BY DEF isIdentityCurrent
  <2>1. ens[h.label] \in Name
    BY <1>1 DEF IdentityTypeOK
  <2> QED BY <1>1, <2>1, IdentityAssumption DEF getTokenId, Name
<1> HIDE DEF Gone
<1>5. Spec => [](Gone => []~isIdentityCurrent(h, h.agent))
  BY IdentityTypeInit, <1>2, <1>3, <1>4, PTL DEF Spec
<1> QED BY <1>5 DEF Gone
=============================================================================
