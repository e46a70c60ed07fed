----------------------------- MODULE Registries -----------------------------
(***************************************************************************)
(* The two registries a capability stands on, policy and identity, from    *)
(* their deployment on: called by any account, in any order, while names   *)
(* change hands and time passes.                                           *)
(***************************************************************************)
EXTENDS PolicyRegistry, EnsIdentity

registryVars == <<now, policyVars, identityVars>>

Init == PolicyInit /\ IdentityInit /\ now = 0

PolicyCall ==
  (\E sender \in Account : PolicyNext(sender)) /\ UNCHANGED <<now, identityVars>>

Next == PolicyCall \/ (IdentityNext /\ UNCHANGED policyVars)

Spec == Init /\ [][Next]_registryVars
=============================================================================
