CONSTANTS
  a1 = a1
  a2 = a2
  l1 = l1
  Account = {a1, a2}
  NoAccount = NoAccount
  Identity <- MCIdentity
  PolicyHash = {p1}
  Target = {a2}
  ActionKind = {k1}
  Value = {0}
  Calldata = {}
  Capability = {}
  ThisDomain = "this"
  MaxTime = 1
  MaxBindingVersion = 2
  Label = {l1}
  VerifierOwner = a1
  MaxTokenId = 2
SPECIFICATION Spec
INVARIANT UnclaimedIsClosed
PROPERTY RegeneratedIsDead
CHECK_DEADLOCK FALSE
