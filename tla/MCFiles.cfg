SPECIFICATION FairDownloadSpec
CONSTANTS
  FileIDs = {f1, f2}
  Hashes = {}
  Sizes = {1}
  PendingTimeout = 1
  HostDuration = 2
  ZoneOffset = 0
  MaxTime = 3
  MaxFaults = 1
  MaxCrashes = 1
  AtomicPut = FALSE
  WebUploads = {f1}
  LatePayments = FALSE
INVARIANTS DownloadTypeOK RowHasBlob ServedIsWhole FailsOnlyExpired
PROPERTIES PaidUntilExpiry ExpiredIsRemoved KeepsHosting
CHECK_DEADLOCK FALSE
