--------------------------- MODULE PolicyRegistry ---------------------------
(***************************************************************************)
(* contracts/src/ContextLockPolicyRegistry.sol: the live public policy of  *)
(* every agent identity, and the admin who may change it.                  *)
(*                                                                         *)
(* A mapping to bool is the set of the keys mapped to true; a reverting    *)
(* call is a disabled action (a revert changes nothing).                   *)
(***************************************************************************)
EXTENDS ChainTypes

CONSTANT MaxBindingVersion  \* bound on the uint64 binding version

ASSUME PolicyAssumption == MaxBindingVersion \in Nat \ {0}

VARIABLES
  policyAdmin,     \* [Identity -> Account or NoAccount]
  policies,        \* [Identity -> [PolicyHash -> [enabled, maxValueHardCap]]]
  allowedTarget,   \* set of <<identity, policyHash, target>>
  allowedAction,   \* set of <<identity, policyHash, actionKind>>
  bindingVersion   \* [Identity -> Nat]

policyVars ==
  <<policyAdmin, policies, allowedTarget, allowedAction, bindingVersion>>

PolicyTypeOK ==
  /\ policyAdmin \in [Identity -> Account \cup {NoAccount}]
  /\ policies \in [Identity -> [PolicyHash ->
                     [enabled : BOOLEAN, maxValueHardCap : Value]]]
  /\ allowedTarget \subseteq Identity \X PolicyHash \X Target
  /\ allowedAction \subseteq Identity \X PolicyHash \X ActionKind
  /\ bindingVersion \in [Identity -> 0 .. MaxBindingVersion]

PolicyInit ==
  /\ policyAdmin = [i \in Identity |-> NoAccount]
  /\ policies = [i \in Identity |-> [p \in PolicyHash |->
                   [enabled |-> FALSE, maxValueHardCap |-> 0]]]
  /\ allowedTarget = {}
  /\ allowedAction = {}
  /\ bindingVersion = [i \in Identity |-> 0]

-----------------------------------------------------------------------------
(* Operations. "sender" is msg.sender. *)

\* Claim an unowned identity, or transfer it as its current admin.
setPolicyAdmin(sender, i, admin) ==
  /\ policyAdmin[i] \in {NoAccount, sender}
  /\ policyAdmin' = [policyAdmin EXCEPT ![i] = admin]
  /\ bindingVersion' = [bindingVersion EXCEPT ![i] = IF @ = 0 THEN 1 ELSE @]
  /\ UNCHANGED <<policies, allowedTarget, allowedAction>>

\* Mutant: setPolicy without the onlyAdmin modifier.
setPolicyByAnyone(sender, i, p, enabled, cap) ==
  /\ policies' = [policies EXCEPT ![i][p] =
                    [enabled |-> enabled, maxValueHardCap |-> cap]]
  /\ UNCHANGED <<policyAdmin, allowedTarget, allowedAction, bindingVersion>>

setPolicy(sender, i, p, enabled, cap) ==
  /\ sender = policyAdmin[i]
  /\ policies' = [policies EXCEPT ![i][p] =
                    [enabled |-> enabled, maxValueHardCap |-> cap]]
  /\ UNCHANGED <<policyAdmin, allowedTarget, allowedAction, bindingVersion>>

\* The set that represents a mapping to bool after key x is written.
WithFlag(S, x, flag) == IF flag THEN S \cup {x} ELSE S \ {x}

setTargetAllowed(sender, i, p, t, allowed) ==
  /\ sender = policyAdmin[i]
  /\ allowedTarget' = WithFlag(allowedTarget, <<i, p, t>>, allowed)
  /\ UNCHANGED <<policyAdmin, policies, allowedAction, bindingVersion>>

setActionAllowed(sender, i, p, k, allowed) ==
  /\ sender = policyAdmin[i]
  /\ allowedAction' = WithFlag(allowedAction, <<i, p, k>>, allowed)
  /\ UNCHANGED <<policyAdmin, policies, allowedTarget, bindingVersion>>

bumpBindingVersion(sender, i) ==
  /\ sender = policyAdmin[i]
  /\ bindingVersion[i] < MaxBindingVersion
  /\ bindingVersion' = [bindingVersion EXCEPT ![i] = @ + 1]
  /\ UNCHANGED <<policyAdmin, policies, allowedTarget, allowedAction>>

PolicyNext(sender) ==
  \E i \in Identity :
    \/ \E admin \in Account : setPolicyAdmin(sender, i, admin)
    \/ bumpBindingVersion(sender, i)
    \/ \E p \in PolicyHash :
         \/ \E enabled \in BOOLEAN, cap \in Value :
              setPolicy(sender, i, p, enabled, cap)
         \/ \E t \in Target, allowed \in BOOLEAN :
              setTargetAllowed(sender, i, p, t, allowed)
         \/ \E k \in ActionKind, allowed \in BOOLEAN :
              setActionAllowed(sender, i, p, k, allowed)

-----------------------------------------------------------------------------
(* Views, read by the executor. *)

isPolicyEnabled(i, p) == policies[i][p].enabled
isTargetAllowed(i, p, t) == <<i, p, t>> \in allowedTarget
isActionAllowed(i, p, k) == <<i, p, k>> \in allowedAction
maxValueHardCap(i, p) == policies[i][p].maxValueHardCap

-----------------------------------------------------------------------------
(* Properties *)

\* An identity nobody has claimed is closed: every policy of it is disabled
\* with a zero cap, no target and no action is allowed, and its binding
\* version is 0; a claimed identity is never back at version 0 ("0 always
\* means never configured", ContextLockPolicyRegistry.sol:51).
UnclaimedIsClosed ==
  \A i \in Identity :
    /\ policyAdmin[i] = NoAccount <=> bindingVersion[i] = 0
    /\ policyAdmin[i] = NoAccount =>
         \A p \in PolicyHash :
           /\ ~isPolicyEnabled(i, p)
           /\ maxValueHardCap(i, p) = 0
           /\ \A t \in Target : ~isTargetAllowed(i, p, t)
           /\ \A k \in ActionKind : ~isActionAllowed(i, p, k)

=============================================================================
