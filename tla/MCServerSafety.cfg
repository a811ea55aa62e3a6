SPECIFICATION Spec
CONSTANTS
  FileIDs = {f1, f2}
  Hashes = {h1, h2}
  Sizes = {1}
  PendingTimeout = 1
  HostDuration = 1
  ZoneOffset = 0
  MaxTime = 2
  MaxFaults = 1
  MaxCrashes = 1
  Client = client
  IPs <- OneIP
  ClientOf <- AllFromClient
  MaxPending = 1
  ChannelCap = 1
  AcksMayBeLost = FALSE
  AtomicPut = TRUE
  InvoiceByID = FALSE
SYMMETRY Symmetry
INVARIANTS TypeOK PaidIsNotPending UnpaidIsCounted
PROPERTY RunsPayments
CHECK_DEADLOCK FALSE
