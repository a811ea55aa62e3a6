SPECIFICATION FairPageSpec
CONSTANTS
  FileIDs = {f1}
  Hashes = {h1}
  Sizes = {1}
  PendingTimeout = 1
  HostDuration = 2
  ZoneOffset = 0
  MaxTime = 4
  MaxFaults = 1
  MaxCrashes = 1
  Client = client
  IPs <- OneIP
  ClientOf <- AllFromClient
  MaxPending = 1
  ChannelCap = 1
  AcksMayBeLost = TRUE
  AtomicPut = TRUE
  InvoiceByID = FALSE
  MaxPoll = 1
INVARIANTS PageTypeOK NoInvoiceMeansPaid PollOutlivesRow
PROPERTIES RunsFiles PaidIsShared
CHECK_DEADLOCK FALSE
