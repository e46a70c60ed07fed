CONSTANTS
  gov = gov
  hum = hum
  tgt = tgt
  p1 = p1
  d1 = d1
  d2 = d2
  ctx = ctx
  l1 = l1
  MaxGovernance = 1
  MaxSignatures = 1
  Account = {gov, hum, tgt}
  NoAccount = NoAccount
  Identity <- MCIdentity
  PolicyHash = {p1}
  Target = {tgt}
  ActionKind = {k1}
  Value = {0, 1}
  Calldata = {d1, d2}
  Capability <- MCCapability
  ThisDomain = "this"
  MaxTime = 2
  MaxBindingVersion = 2
  Label = {l1}
  VerifierOwner = gov
  MaxTokenId = 2
  Context = {ctx}
  Report <- MCReport
  Consumer = Consumer
  AuthOwner = gov
  NoRecord = NoRecord
  Approver = {hum, gov}
  ApprovalOwner = gov
  ExecutorAddress = ExecutorAddress
  ApprovalExpiry = {2}
  NoApproval = NoApproval
  HasApprovalRegistry = TRUE
  MAX_CLOCK_SKEW = 0
  MAX_CAPABILITY_LIFETIME = 2
SPECIFICATION MCSpec
INVARIANTS SlotExecutesOnce ExecutedStandsOnVerdict NeverNested SentWhatWasJudged
PROPERTIES SpentStaysSpent ImplementsOneShotAuthority
CHECK_DEADLOCK FALSE
