SPECIFICATION Spec
CONSTANTS
  FileIDs = {f1, f2}
  Hashes = {h1, h2}
  Requests = {q1, q2}
  Sizes = {1}
  PendingTimeout = 1
  HostDuration = 3
  ZoneOffset = 0
  MaxTime = 1
  MaxFaults = 1
  ChannelCap = 1
  MaxCrashes = 1
  AcksMayBeLost = TRUE
SYMMETRY Symmetry
INVARIANTS TypeOK IndexAgrees PaidWasSettled ReferencesAgree PayableIsKnown PendingIsPersisted CreditedIsGone
PROPERTIES ExtensionIsEarned KeepsContract
CHECK_DEADLOCK FALSE
