-------------------------------- MODULE Store --------------------------------
(***************************************************************************)
(* The SQLite metadata store (internal/store).  Each operator is one SQL   *)
(* statement, atomic in the database; both tables survive a crash of the   *)
(* server.  A statement may fail and change nothing: StoreFails takes one  *)
(* of the MaxFaults failures of a behaviour (storage calls share them).    *)
(***************************************************************************)
EXTENDS Clock, GoMaps

CONSTANTS
  FileIDs,          \* IDs generateID() hands out
  Hashes,           \* payment hashes the Lightning wallet hands out
  Sizes,            \* sizes of encrypted blobs
  PendingTimeout,   \* how long an unpaid row lives (15 min in the code)
  HostDuration,     \* how long a paid row lives (7 days in the code)
  ZoneOffset,       \* the server's local zone, as local time minus UTC
  MaxFaults         \* bound on failing statements and storage calls

ASSUME StoreAssumption ==
  /\ PendingTimeout \in Nat
  /\ HostDuration \in Nat
  /\ ZoneOffset \in Int
  /\ MaxFaults \in Nat
  /\ Sizes \subseteq Nat

VARIABLES
  files,     \* table files: id -> row
  invoices,  \* table pending_invoices: payment_hash -> file_id
  faults     \* failures so far

FileMeta == [size: Nat, expiresAt: Nat, paid: BOOLEAN]

StoreTypeOK ==
  /\ now \in Nat
  /\ IsMap(files, FileIDs, FileMeta)
  /\ IsMap(invoices, Hashes, FileIDs)
  /\ faults \in 0..MaxFaults

StoreInit ==
  /\ files = EmptyMap
  /\ invoices = EmptyMap
  /\ faults = 0

StoreFails ==
  /\ faults < MaxFaults
  /\ faults' = faults + 1

\* Fault: the timeout subtracted from the clock
ExpiredMeta(size) == [size |-> size, expiresAt |-> now - PendingTimeout, paid |-> FALSE]

\* The row CompleteUpload writes: unpaid, on the short timeout
PendingMeta(size) == [size |-> size, expiresAt |-> now + PendingTimeout, paid |-> FALSE]

\* Fault: INSERT OR REPLACE
ReplaceFileMetadata(f, meta) == files' = MapPut(files, f, meta)

\* INSERT INTO files: the primary key refuses a second row for one file
SaveFileMetadata(f, meta) ==
  /\ f \notin DOMAIN files
  /\ files' = MapPut(files, f, meta)

\* Fault: the hosting period is added to the expiry the row has
ExtendFromExpiry(f) ==
  /\ f \in DOMAIN files
  /\ files' = [files EXCEPT ![f] =
                [size |-> @.size, expiresAt |-> @.expiresAt + HostDuration, paid |-> TRUE]]

\* UPDATE files SET paid = 1, expires_at = now + host_duration: always from now,
\* whatever expiry the row had
UpdatePaymentStatus(f) ==
  /\ f \in DOMAIN files
  /\ files' = [files EXCEPT ![f] =
                [size |-> @.size, expiresAt |-> now + HostDuration, paid |-> TRUE]]

DeleteFileMetadata(f) ==
  /\ f \in DOMAIN files
  /\ files' = MapDelete(files, f)

(***************************************************************************)
(* SELECT ... WHERE expires_at < ? compares TEXT.  Go binds an unpaid      *)
(* row's expiry, and the time.Now() it is compared with, in the server's   *)
(* local zone; SQLite's datetime('now', ...) writes a paid row's in UTC.   *)
(* ReadsAs is the wall-clock reading of the stored text.                   *)
(***************************************************************************)
ReadsAs(row) == row.expiresAt + (IF row.paid THEN 0 ELSE ZoneOffset)

\* Fault: expires_at <= ?
ListExpiringFiles == {f \in DOMAIN files : ReadsAs(files[f]) <= now + ZoneOffset}

ListExpiredFiles == {f \in DOMAIN files : ReadsAs(files[f]) < now + ZoneOffset}

\* Fault: the file as the primary key, so that a new invoice replaces an open one
SaveOnlyInvoice(h, f) ==
  invoices' = MapPut([g \in {g \in DOMAIN invoices : invoices[g] /= f} |-> invoices[g]], h, f)

\* INSERT OR REPLACE INTO pending_invoices
SavePendingInvoice(h, f) == invoices' = MapPut(invoices, h, f)

\* DELETE FROM pending_invoices: no error when the row is absent
DeletePendingInvoice(h) == invoices' = MapDelete(invoices, h)

=============================================================================
