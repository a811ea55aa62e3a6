SPECIFICATION Spec
CONSTANTS
  FileIDs = {f1}
  Hashes = {h1}
  Sizes = {1}
  PendingTimeout = 1
  HostDuration = 2
  ZoneOffset = 0
  MaxTime = 3
  MaxFaults = 0
  MaxCrashes = 0
  Client = client
  IPs <- OneIP
  ClientOf <- AllFromClient
  MaxPending = 1
  ChannelCap = 1
  AcksMayBeLost = FALSE
  AtomicPut = TRUE
  InvoiceByID = FALSE
SYMMETRY Symmetry
INVARIANT CreditFindsFile
CHECK_DEADLOCK FALSE
