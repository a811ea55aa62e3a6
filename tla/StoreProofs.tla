------------------------------ MODULE StoreProofs ------------------------------
(* What the statements of Store do to the two tables, for all constants. *)
EXTENDS Store, TLAPS

\* The empty map is a map of every type.
LEMMA EmptyMapIsMap ==
  ASSUME NEW K, NEW V
  PROVE  IsMap(EmptyMap, K, V) /\ DOMAIN EmptyMap = {}
BY DEF IsMap, EmptyMap

\* m[k] = v adds the key, sets its value and leaves the other keys alone.
LEMMA MapPutIsMap ==
  ASSUME NEW K, NEW V, NEW m, IsMap(m, K, V), NEW k \in K, NEW v \in V
  PROVE  /\ IsMap(MapPut(m, k, v), K, V)
         /\ DOMAIN MapPut(m, k, v) = DOMAIN m \cup {k}
         /\ MapPut(m, k, v)[k] = v
         /\ \A x \in DOMAIN m : x /= k => MapPut(m, k, v)[x] = m[x]
BY DEF IsMap, MapPut

\* The rows the statements of Store write are rows.
LEMMA StoreTypes ==
  ASSUME StoreTypeOK
  PROVE  /\ \A size \in Nat : PendingMeta(size) \in FileMeta
         /\ \A f : UpdatePaymentStatus(f) => IsMap(files', FileIDs, FileMeta)
         /\ \A f : DeleteFileMetadata(f) => IsMap(files', FileIDs, FileMeta)
         /\ \A f \in FileIDs, size \in Nat :
              SaveFileMetadata(f, PendingMeta(size)) => IsMap(files', FileIDs, FileMeta)
         /\ \A h \in Hashes, f \in FileIDs : SavePendingInvoice(h, f) => IsMap(invoices', Hashes, FileIDs)
         /\ \A h : DeletePendingInvoice(h) => IsMap(invoices', Hashes, FileIDs)
         /\ StoreFails => faults' \in 0..MaxFaults
<1> USE StoreAssumption DEF StoreTypeOK
<1>1. \A size \in Nat : PendingMeta(size) \in FileMeta
  BY DEF PendingMeta, FileMeta
<1>2. \A f : UpdatePaymentStatus(f) => IsMap(files', FileIDs, FileMeta)
  BY DEF UpdatePaymentStatus, IsMap, FileMeta
<1>3. \A f : DeleteFileMetadata(f) => IsMap(files', FileIDs, FileMeta)
  BY DEF DeleteFileMetadata, IsMap, MapDelete
<1>4. \A f \in FileIDs, size \in Nat :
        SaveFileMetadata(f, PendingMeta(size)) => IsMap(files', FileIDs, FileMeta)
  BY <1>1 DEF SaveFileMetadata, IsMap, MapPut
<1>5. \A h \in Hashes, f \in FileIDs : SavePendingInvoice(h, f) => IsMap(invoices', Hashes, FileIDs)
  BY DEF SavePendingInvoice, IsMap, MapPut
<1>6. \A h : DeletePendingInvoice(h) => IsMap(invoices', Hashes, FileIDs)
  BY DEF DeletePendingInvoice, IsMap, MapDelete
<1>7. StoreFails => faults' \in 0..MaxFaults
  BY DEF StoreFails
<1> QED BY <1>1, <1>2, <1>3, <1>4, <1>5, <1>6, <1>7

=============================================================================
