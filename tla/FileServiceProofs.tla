--------------------------- MODULE FileServiceProofs ---------------------------
(***************************************************************************)
(* Theorems about FileService and its downloads, for every choice of the   *)
(* constants.                                                              *)
(***************************************************************************)
EXTENDS Download, StoreProofs

\* The cases of a step: one per action of the specification.
LEMMA NextCases ==
  ASSUME [Next]_vars
  PROVE  \/ \E f \in FileIDs, size \in Sizes : InitUpload(f, size)
         \/ \E f \in FileIDs : \/ BeginPut(f) \/ FinishPut(f) \/ AbortPut(f) \/ Abandon(f)
                               \/ StatUpload(f) \/ SaveUpload(f) \/ SaveUploadFails(f)
                               \/ LeaveOrder(f) \/ PutAgain(f) \/ StatAgain(f) \/ SaveAgain(f)
                               \/ PaymentArrives(f) \/ SweepBlob(f)
         \/ ListForSweep \/ SweepRow \/ EndSweep
         \/ Crash \/ TimePasses
         \/ UNCHANGED vars
BY DEF Next, UploadStep, LooseStep, SweepStep

-----------------------------------------------------------------------------
(***************************************************************************)
(* Types, and how uploads and sweep keep out of each other's way           *)
(***************************************************************************)

\* What the fields of an upload's state are, by its pc.
LEMMA UploadFields ==
  ASSUME upload \in [FileIDs -> UploadState], NEW f \in FileIDs
  PROVE  /\ upload[f].pc \in {"unused", "over", "loose", "issued", "putting", "stored", "save", "loosesave"}
         /\ upload[f].pc = "unused" => upload[f] = Unused
         /\ upload[f].pc = "over" <=> upload[f] = Over
         /\ upload[f].pc = "loose" => upload[f] = Loose
         /\ upload[f].pc \in {"issued", "putting", "stored", "save", "loosesave"} =>
              upload[f].size \in Nat /\ upload[f] = [pc |-> upload[f].pc, size |-> upload[f].size]
<1>1. upload[f] \in UploadState  OBVIOUS
<1> QED BY <1>1 DEF UploadState, Unused, Over, Loose

\* What the fields of the sweep's state are, by its pc.
LEMMA SweepFields ==
  ASSUME sweep \in SweepState
  PROVE  /\ sweep.pc \in {"sleeping", "blob", "row"}
         /\ sweep.pc = "sleeping" => Swept = {}
         /\ sweep.pc = "blob" => sweep.todo \subseteq FileIDs /\ Swept = sweep.todo
         /\ sweep.pc = "row" => /\ sweep.todo \subseteq FileIDs /\ sweep.file \in FileIDs
                                /\ Swept = sweep.todo \cup {sweep.file}
BY DEF SweepState, Sleeping, Swept

\* A step of an upload sets the state of that upload and no other.
LEMMA GoesTo ==
  ASSUME upload \in [FileIDs -> UploadState], NEW f \in FileIDs, NEW state \in UploadState,
         Goes(f, state)
  PROVE  /\ upload' \in [FileIDs -> UploadState]
         /\ upload'[f] = state
         /\ \A g \in FileIDs : g /= f => upload'[g] = upload[g]
BY DEF Goes

\* One blob may have changed, the others have not.
BlobsBut(f) ==
  /\ IsMap(blobs', FileIDs, Nat)
  /\ \A g \in FileIDs : g /= f =>
       (g \in DOMAIN blobs' <=> g \in DOMAIN blobs) /\ (g \in DOMAIN blobs => blobs'[g] = blobs[g])

\* Writing or deleting one blob leaves the others alone.
LEMMA BlobPut ==
  ASSUME IsMap(blobs, FileIDs, Nat), NEW f \in FileIDs, NEW n \in Nat, blobs' = MapPut(blobs, f, n)
  PROVE  BlobsBut(f) /\ f \in DOMAIN blobs' /\ blobs'[f] = n
BY DEF IsMap, MapPut, BlobsBut

\* Deleting a blob keeps the others as they are.
LEMMA BlobDelete ==
  ASSUME IsMap(blobs, FileIDs, Nat), NEW f \in FileIDs, blobs' = MapDelete(blobs, f)
  PROVE  BlobsBut(f)
BY DEF IsMap, MapDelete, BlobsBut

\* The four invariants that hold however late payments come.
Base == TypeOK /\ UploadsAgree /\ StrictAgrees /\ SweptHasRow

\* What UploadsAgree and StrictAgrees ask of the next state of an upload.
Agrees(f, state) ==
  /\ state \in UploadState
  /\ state.pc \in {"stored", "save"} => f \in DOMAIN blobs' /\ blobs'[f] = state.size
  /\ f \in WebUploads =>
       /\ state.pc \notin {"loose", "loosesave"}
       /\ state.pc \in {"issued", "putting", "stored", "save"} => state.size \in Sizes

\* A step of an upload leaves rows, clock and sweep alone and changes one blob
\* at most: what it has to show for Base.
LEMMA UploadFrame ==
  ASSUME Base, NEW f \in FileIDs, NEW state, Goes(f, state), Agrees(f, state),
         state = Over \/ state.pc \in {"loose", "loosesave"} \/ f \notin DOMAIN files,
         BlobsBut(f),
         faults' \in 0..MaxFaults,
         UNCHANGED <<now, files, invoices, sweep, crashes>>
  PROVE  Base'
<1> USE DEF Base
<1>1. /\ upload' \in [FileIDs -> UploadState]
      /\ upload'[f] = state
      /\ \A g \in FileIDs : g /= f => upload'[g] = upload[g]
  BY GoesTo DEF TypeOK, Agrees
<1>2. TypeOK'
  BY <1>1 DEF TypeOK, StoreTypeOK, BlobsBut
<1>3. UploadsAgree'
  <2>1. ASSUME NEW g \in FileIDs, g /= f
        PROVE  /\ InOrder(g)' /\ upload'[g] /= Over => g \notin DOMAIN files'
               /\ upload'[g].pc \in {"stored", "save"} => g \in DOMAIN blobs' /\ blobs'[g] = upload'[g].size
    BY <1>1, <2>1 DEF UploadsAgree, InOrder, BlobsBut
  <2>2. /\ InOrder(f)' /\ upload'[f] /= Over => f \notin DOMAIN files'
        /\ upload'[f].pc \in {"stored", "save"} => f \in DOMAIN blobs' /\ blobs'[f] = upload'[f].size
    BY <1>1 DEF Agrees, InOrder
  <2> QED BY <2>1, <2>2 DEF UploadsAgree
<1>4. StrictAgrees'
  BY <1>1, FileAssumption DEF StrictAgrees, InOrder, Agrees
<1>5. SweptHasRow'
  BY DEF SweptHasRow, Swept
<1> QED BY <1>2, <1>3, <1>4, <1>5

\* Base holds at first.
LEMMA BaseInit == Init => Base
<1> SUFFICES ASSUME Init PROVE Base
  OBVIOUS
<1> USE StoreAssumption, FileAssumption, ClockAssumption DEF Init, ClockInit, StoreInit
<1>1. TypeOK
  BY EmptyMapIsMap DEF TypeOK, StoreTypeOK, UploadState, SweepState, Sleeping, Unused
<1>2. UploadsAgree
  BY EmptyMapIsMap DEF UploadsAgree, Unused
<1>3. StrictAgrees
  BY DEF StrictAgrees, InOrder, Unused
<1>4. SweptHasRow
  BY DEF SweptHasRow, Swept, Sleeping
<1> QED BY <1>1, <1>2, <1>3, <1>4 DEF Base

\* Steps that leave the uploads alone: the sweep's, and payments.
LEMMA SweepFrame ==
  ASSUME Base, UNCHANGED <<upload, crashes>>, now' \in Nat, faults' \in 0..MaxFaults,
         UNCHANGED invoices,
         IsMap(files', FileIDs, FileMeta), DOMAIN files' \subseteq DOMAIN files,
         IsMap(blobs', FileIDs, Nat),
         \A g \in FileIDs : upload[g].pc \in {"stored", "save"} =>
           (g \in DOMAIN blobs' <=> g \in DOMAIN blobs) /\ (g \in DOMAIN blobs => blobs'[g] = blobs[g]),
         sweep' \in SweepState, SweptHasRow'
  PROVE  Base'
<1> USE DEF Base
<1>1. TypeOK'
  BY DEF TypeOK, StoreTypeOK
<1>2. UploadsAgree'
  BY DEF UploadsAgree, InOrder
<1>3. StrictAgrees'
  BY DEF StrictAgrees, InOrder
<1> QED BY <1>1, <1>2, <1>3

\* What a row says of an upload: it is over, or out of order by now.
LEMMA RowMeansOver ==
  ASSUME Base, NEW f \in DOMAIN files
  PROVE  /\ f \in FileIDs
         /\ upload[f] = Over \/ ~InOrder(f)
         /\ upload[f].pc \notin {"stored", "save"}
BY DEF Base, TypeOK, StoreTypeOK, IsMap, UploadsAgree, InOrder, Over

\* What a crash leaves of an upload, seen from the invariants.
LEMMA CutOffAgrees ==
  ASSUME Base, NEW f \in FileIDs
  PROVE  LET state == CutOff(f, upload[f]) IN
         /\ state \in UploadState
         /\ state.pc \notin {"loose", "loosesave"} => InOrder(f)
         /\ upload[f] = Over => state = Over
         /\ state.pc \in {"stored", "save"} =>
              upload[f].pc \in {"stored", "save"} /\ state.size = upload[f].size
         /\ f \in WebUploads =>
              /\ state.pc \notin {"loose", "loosesave"}
              /\ state.pc \in {"issued", "putting", "stored", "save"} => state.size \in Sizes
<1> DEFINE state == CutOff(f, upload[f])
<1>0. /\ upload[f] \in UploadState
      /\ f \in WebUploads =>
           /\ upload[f].pc \notin {"loose", "loosesave"}
           /\ upload[f].pc \in {"issued", "putting", "stored", "save"} => upload[f].size \in Sizes
  BY DEF Base, TypeOK, StrictAgrees, InOrder
<1>1. CASE upload[f].pc = "loosesave"
  BY <1>0, <1>1 DEF CutOff, Loose, UploadState, InOrder, Over
<1>2. CASE upload[f].pc = "putting" /\ f \notin WebUploads
  <2>1. state = [pc |-> "issued", size |-> upload[f].size] /\ upload[f].size \in Nat
    BY <1>0, <1>2, UploadFields DEF CutOff, Base, TypeOK
  <2> QED BY <1>2, <2>1 DEF UploadState, InOrder, Over
<1>3. CASE upload[f].pc = "save" /\ f \notin WebUploads
  <2>1. state = [pc |-> "stored", size |-> upload[f].size] /\ upload[f].size \in Nat
    BY <1>0, <1>3, UploadFields DEF CutOff, Base, TypeOK
  <2> QED BY <1>3, <2>1 DEF UploadState, InOrder, Over
<1>4. CASE upload[f].pc \in {"putting", "save"} /\ f \in WebUploads
  BY <1>4 DEF CutOff, UploadState, InOrder, Over
<1>5. CASE upload[f].pc \notin {"putting", "save", "loosesave"}
  <2>1. state = upload[f]
    BY <1>5 DEF CutOff
  <2> QED BY <1>0, <2>1 DEF InOrder
<1> QED BY <1>1, <1>2, <1>3, <1>4, <1>5

\* Every step keeps Base.
LEMMA BaseStep == Base /\ [Next]_vars => Base'
<1> SUFFICES ASSUME Base, [Next]_vars PROVE Base'
  OBVIOUS
<1> USE StoreAssumption, FileAssumption, ClockAssumption
<1>0. /\ TypeOK /\ UploadsAgree /\ StrictAgrees /\ SweptHasRow
      /\ upload \in [FileIDs -> UploadState] /\ sweep \in SweepState
      /\ IsMap(blobs, FileIDs, Nat) /\ faults \in 0..MaxFaults
      /\ StoreTypeOK /\ IsMap(files, FileIDs, FileMeta) /\ now \in Nat
  BY DEF Base, TypeOK, StoreTypeOK
<1>00. UNCHANGED blobs => \A f : BlobsBut(f)
  BY <1>0 DEF BlobsBut
<1>01. \A f \in FileIDs : upload[f].pc \in {"unused", "issued", "putting", "stored", "save"} =>
         f \notin DOMAIN files
  BY RowMeansOver DEF InOrder, Over
<1>02. ASSUME NEW f \in FileIDs
       PROVE  f \in WebUploads =>
                /\ upload[f].pc \notin {"loose", "loosesave"}
                /\ upload[f].pc \in {"issued", "putting", "stored", "save"} => upload[f].size \in Sizes
  BY <1>0 DEF StrictAgrees, InOrder
<1>03. ASSUME NEW f \in FileIDs PROVE Agrees(f, Over)
  BY DEF Agrees, Over, UploadState
<1>1. ASSUME NEW f \in FileIDs, NEW size \in Sizes, InitUpload(f, size) PROVE Base'
  <2> DEFINE state == [pc |-> "issued", size |-> size]
  <2>1. Agrees(f, state)
    BY DEF Agrees, UploadState
  <2>2. f \notin DOMAIN files /\ Goes(f, state)
    BY <1>01, <1>1 DEF InitUpload, Unused
  <2> HIDE DEF state
  <2> QED BY <1>0, <1>00, <1>1, <2>1, <2>2, UploadFrame DEF InitUpload, tables
<1>2. ASSUME NEW f \in FileIDs, BeginPut(f) PROVE Base'
  <2>1. PICK size \in Sizes : /\ f \in WebUploads => size = upload[f].size
                              /\ Goes(f, [pc |-> "putting", size |-> size])
    BY <1>2 DEF BeginPut
  <2> DEFINE state == [pc |-> "putting", size |-> size]
  <2>2. Agrees(f, state)
    BY DEF Agrees, UploadState
  <2>3. f \notin DOMAIN files
    BY <1>01, <1>2 DEF BeginPut
  <2>4. BlobsBut(f)
    BY <1>0, <1>00, <1>2, BlobPut DEF BeginPut
  <2>5. Goes(f, state)
    BY <2>1
  <2> HIDE DEF state
  <2> QED BY <1>0, <1>2, <2>2, <2>3, <2>4, <2>5, UploadFrame DEF BeginPut, tables
<1>3. ASSUME NEW f \in FileIDs, FinishPut(f) PROVE Base'
  <2>1. upload[f].pc = "putting" /\ upload[f].size \in Nat
        /\ upload[f] = [pc |-> "putting", size |-> upload[f].size]
    BY <1>0, <1>3, UploadFields DEF FinishPut
  <2> DEFINE state == [pc |-> "stored", size |-> upload[f].size]
  <2>2. Goes(f, state)
    BY <1>3, <2>1 DEF FinishPut
  <2>3. BlobsBut(f) /\ f \in DOMAIN blobs' /\ blobs'[f] = upload[f].size
    BY <1>0, <1>3, <2>1, BlobPut DEF FinishPut
  <2>4. Agrees(f, state)
    BY <1>02, <2>1, <2>3 DEF Agrees, UploadState
  <2>5. f \notin DOMAIN files
    BY <1>01, <2>1
  <2> HIDE DEF state
  <2> QED BY <1>0, <1>3, <2>2, <2>3, <2>4, <2>5, UploadFrame DEF FinishPut, tables
<1>4. ASSUME NEW f \in FileIDs, AbortPut(f) PROVE Base'
  <2>1. upload[f].pc = "putting" /\ upload[f].size \in Nat
        /\ upload[f] = [pc |-> "putting", size |-> upload[f].size]
    BY <1>0, <1>4, UploadFields DEF AbortPut
  <2>2. BlobsBut(f)
    <3>1. CASE AtomicPut
      BY <1>00, <1>4, <3>1 DEF AbortPut, Torn
    <3>2. CASE ~AtomicPut
      <4>1. PICK n \in 0..(upload[f].size - 1) : blobs' = MapPut(blobs, f, n)
        BY <1>4, <3>2 DEF AbortPut, Torn
      <4>2. n \in Nat
        BY <2>1
      <4> QED BY <1>0, <4>1, <4>2, BlobPut
    <3> QED BY <3>1, <3>2
  <2> DEFINE state == IF f \in WebUploads THEN Over ELSE [pc |-> "issued", size |-> upload[f].size]
  <2>3. Goes(f, state)
    BY <1>4, <2>1 DEF AbortPut, Fallback
  <2>4. Agrees(f, state)
    BY <1>03, <2>1 DEF Agrees, UploadState
  <2>5. f \notin DOMAIN files
    BY <1>01, <2>1
  <2> HIDE DEF state
  <2> QED BY <1>0, <1>4, <2>2, <2>3, <2>4, <2>5, UploadFrame DEF AbortPut, tables
<1>5. ASSUME NEW f \in FileIDs, Abandon(f) PROVE Base'
  <2>1. Goes(f, Over) /\ UNCHANGED <<faults, blobs>>
    BY <1>5 DEF Abandon, tables
  <2> QED BY <1>0, <1>00, <1>03, <1>5, <2>1, UploadFrame DEF Abandon, tables
<1>6. ASSUME NEW f \in FileIDs, StatUpload(f) PROVE Base'
  <2>0. upload[f].pc \in {"issued", "stored"} /\ (f \in WebUploads => upload[f].pc = "stored")
    BY <1>6 DEF StatUpload
  <2>1. f \notin DOMAIN files
    BY <1>01, <2>0
  <2>2. faults' \in 0..MaxFaults /\ UNCHANGED blobs
    BY <1>6, <1>0 DEF StatUpload, StoreFails
  <2>3. CASE Fallback(f, upload[f])
    <3> DEFINE state == IF f \in WebUploads THEN Over ELSE upload[f]
    <3>1. Goes(f, state)
      BY <2>3 DEF Fallback
    <3>2. upload[f] \in UploadState
      BY <1>0
    <3>3. upload[f].pc \in {"stored", "save"} => f \in DOMAIN blobs' /\ blobs'[f] = upload[f].size
      BY <1>0, <2>2 DEF UploadsAgree
    <3>4. Agrees(f, state)
      BY <1>03, <3>2, <3>3 DEF Agrees
    <3> HIDE DEF state
    <3> QED BY <1>0, <1>00, <1>6, <2>1, <2>2, <3>1, <3>4, UploadFrame DEF StatUpload
  <2>4. CASE f \in DOMAIN blobs /\ Goes(f, [pc |-> "save", size |-> blobs[f]])
    <3> DEFINE state == [pc |-> "save", size |-> blobs[f]]
    <3>1. blobs[f] \in Nat
      BY <1>0, <2>4 DEF IsMap
    <3>2. f \in WebUploads => blobs[f] \in Sizes
      BY <1>0, <1>02, <2>0 DEF UploadsAgree
    <3>3. Agrees(f, state)
      BY <2>2, <2>4, <3>1, <3>2 DEF Agrees, UploadState
    <3>4. Goes(f, state)
      BY <2>4
    <3> HIDE DEF state
    <3> QED BY <1>0, <1>00, <1>6, <2>1, <2>2, <3>3, <3>4, UploadFrame DEF StatUpload
  <2> QED BY <1>6, <2>3, <2>4 DEF StatUpload
<1>7. ASSUME NEW f \in FileIDs, SaveUpload(f) \/ SaveAgain(f),
             SaveFileMetadata(f, PendingMeta(upload[f].size))
      PROVE  Base'
  <2> DEFINE state == IF upload[f].pc = "save" THEN Over ELSE Loose
  <2>1. upload[f].pc \in {"save", "loosesave"} /\ Goes(f, state) /\ state \in UploadState
    BY <1>7 DEF SaveUpload, SaveAgain, Over, Loose, UploadState
  <2>2. /\ upload' \in [FileIDs -> UploadState] /\ upload'[f] = state
        /\ \A g \in FileIDs : g /= f => upload'[g] = upload[g]
    BY <1>0, <2>1, GoesTo
  <2>3. upload[f].size \in Nat /\ f \notin DOMAIN files
    BY <1>0, <1>7, <2>1, UploadFields DEF SaveFileMetadata
  <2>4. /\ IsMap(files', FileIDs, FileMeta)
        /\ DOMAIN files' = DOMAIN files \cup {f}
    BY <1>0, <1>7, <2>3, StoreTypes, MapPutIsMap DEF SaveFileMetadata, MapPut
  <2>5. UNCHANGED <<now, invoices, blobs, sweep, crashes>> /\ faults' \in 0..MaxFaults
    BY <1>0, <1>7 DEF SaveUpload, SaveAgain, StoreFails
  <2>6. TypeOK'
    BY <1>0, <2>2, <2>4, <2>5 DEF TypeOK, StoreTypeOK
  <2>7. UploadsAgree'
    BY <1>0, <2>2, <2>4, <2>5 DEF UploadsAgree, InOrder, Over, Loose
  <2>8. StrictAgrees'
    BY <1>0, <1>02, <2>1, <2>2 DEF StrictAgrees, InOrder, Over, Loose
  <2>9. SweptHasRow'
    BY <1>0, <2>4, <2>5 DEF SweptHasRow, Swept
  <2> QED BY <2>6, <2>7, <2>8, <2>9 DEF Base
<1>8. ASSUME NEW f \in FileIDs, SaveUploadFails(f) PROVE Base'
  <2>1. upload[f].pc = "save" /\ upload[f].size \in Nat
        /\ upload[f] = [pc |-> "save", size |-> upload[f].size]
        /\ f \in DOMAIN blobs /\ blobs[f] = upload[f].size
    BY <1>0, <1>8, UploadFields DEF SaveUploadFails, UploadsAgree
  <2> DEFINE state == IF f \in WebUploads THEN Over ELSE [pc |-> "stored", size |-> upload[f].size]
  <2>2. Goes(f, state)
    BY <1>8, <2>1 DEF SaveUploadFails, Fallback
  <2>3. faults' \in 0..MaxFaults /\ UNCHANGED blobs
    BY <1>8, <1>0 DEF SaveUploadFails, StoreFails
  <2>4. Agrees(f, state)
    BY <1>03, <2>1, <2>3 DEF Agrees, UploadState
  <2>5. f \notin DOMAIN files
    BY <1>01, <2>1
  <2> HIDE DEF state
  <2> QED BY <1>0, <1>00, <1>8, <2>2, <2>3, <2>4, <2>5, UploadFrame DEF SaveUploadFails
<1>9. ASSUME NEW f \in FileIDs, PaymentArrives(f) PROVE Base'
  <2>1. IsMap(files', FileIDs, FileMeta) /\ DOMAIN files' = DOMAIN files
    BY <1>0, <1>9, StoreTypes DEF PaymentArrives, UpdatePaymentStatus
  <2>2. SweptHasRow'
    BY <1>0, <1>9, <2>1 DEF PaymentArrives, SweptHasRow, Swept
  <2> QED BY <1>0, <1>9, <2>1, <2>2, SweepFrame DEF PaymentArrives
<1>10. ASSUME NEW f \in FileIDs, SweepBlob(f) PROVE Base'
  <2>1. /\ f \in Swept /\ sweep.pc = "blob" /\ f \in sweep.todo
        /\ sweep.todo \subseteq FileIDs /\ sweep.todo \subseteq DOMAIN files
    BY <1>0, <1>10, SweepFields DEF SweepBlob, SweptHasRow
  <2>2. faults' \in 0..MaxFaults /\ UNCHANGED files
    BY <1>0, <1>10 DEF SweepBlob, StoreFails
  <2>3. BlobsBut(f) /\ upload[f].pc \notin {"stored", "save"}
    BY <1>0, <1>00, <1>10, <2>1, BlobDelete, RowMeansOver DEF SweepBlob
  <2>4. sweep' \in SweepState /\ SweptHasRow'
    <3>1. CASE sweep' = [pc |-> "row", todo |-> sweep.todo \ {f}, file |-> f]
      BY <2>1, <2>2, <3>1 DEF SweepState, Swept, SweptHasRow
    <3>2. CASE sweep' = [sweep EXCEPT !.todo = @ \ {f}]
      <4>1. sweep' = [pc |-> "blob", todo |-> sweep.todo \ {f}]
        BY <1>0, <2>1, <3>2 DEF SweepState, Sleeping
      <4> QED BY <2>1, <2>2, <4>1 DEF SweepState, Swept, SweptHasRow
    <3> QED BY <1>10, <3>1, <3>2 DEF SweepBlob
  <2> QED BY <1>0, <1>10, <2>2, <2>3, <2>4, SweepFrame DEF SweepBlob, BlobsBut
<1>11. CASE ListForSweep
  <2>1. ListExpiredFiles \subseteq DOMAIN files /\ DOMAIN files \subseteq FileIDs
    BY <1>0 DEF ListExpiredFiles, IsMap
  <2>2. faults' \in 0..MaxFaults
    BY <1>0, <1>11 DEF ListForSweep, StoreFails
  <2>3. sweep' \in SweepState /\ SweptHasRow'
    BY <1>11, <2>1 DEF ListForSweep, SweepState, Swept, SweptHasRow
  <2> QED BY <1>0, <1>11, <2>2, <2>3, SweepFrame DEF ListForSweep
<1>12. CASE SweepRow
  <2>1. /\ IsMap(files', FileIDs, FileMeta) /\ DOMAIN files' \subseteq DOMAIN files
        /\ DOMAIN files \ {sweep.file} \subseteq DOMAIN files'
    BY <1>0, <1>12 DEF SweepRow, DeleteFileMetadata, IsMap, MapDelete
  <2>2. faults' \in 0..MaxFaults
    BY <1>0, <1>12 DEF SweepRow, StoreFails
  <2>3. sweep.todo \subseteq FileIDs /\ sweep.todo \subseteq DOMAIN files /\ sweep.file \notin sweep.todo
    BY <1>0, <1>12, SweepFields DEF SweepRow, SweptHasRow
  <2>4. sweep' \in SweepState /\ SweptHasRow'
    BY <1>12, <2>1, <2>3 DEF SweepRow, SweepState, Swept, SweptHasRow
  <2> QED BY <1>0, <1>12, <2>1, <2>2, <2>4, SweepFrame DEF SweepRow
<1>13. CASE EndSweep
  <2>1. sweep' \in SweepState /\ SweptHasRow'
    BY <1>13 DEF EndSweep, SweepState, Swept, Sleeping, SweptHasRow
  <2> QED BY <1>0, <1>13, <2>1, SweepFrame DEF EndSweep, tables
<1>14. CASE Crash
  <2>1. \A f \in FileIDs : upload'[f] = CutOff(f, upload[f])
    BY <1>14 DEF Crash
  <2>2. TypeOK'
    <3>1. upload' \in [FileIDs -> UploadState]
      BY <1>14, CutOffAgrees DEF Crash
    <3> QED BY <1>0, <1>14, <3>1 DEF Crash, TypeOK, StoreTypeOK, tables, SweepState
  <2>3. UNCHANGED <<files, blobs>>
    BY <1>14 DEF Crash, tables
  <2>4. UploadsAgree'
    <3> SUFFICES ASSUME NEW f \in FileIDs
                 PROVE  /\ InOrder(f)' /\ upload'[f] /= Over => f \notin DOMAIN files'
                        /\ upload'[f].pc \in {"stored", "save"} =>
                             f \in DOMAIN blobs' /\ blobs'[f] = upload'[f].size
      BY DEF UploadsAgree
    <3>1. /\ InOrder(f)' => InOrder(f)
          /\ upload[f] = Over => upload'[f] = Over
          /\ upload'[f].pc \in {"stored", "save"} =>
               upload[f].pc \in {"stored", "save"} /\ upload'[f].size = upload[f].size
      BY <2>1, CutOffAgrees DEF InOrder
    <3> QED BY <1>0, <2>3, <3>1 DEF UploadsAgree
  <2>5. StrictAgrees'
    BY <2>1, CutOffAgrees DEF StrictAgrees, InOrder
  <2>6. SweptHasRow'
    BY <1>14 DEF Crash, SweptHasRow, Swept, Sleeping
  <2> QED BY <2>2, <2>4, <2>5, <2>6 DEF Base
<1>15. CASE TimePasses
  <2>1. now' \in Nat
    BY <1>0, <1>15 DEF TimePasses, Tick
  <2>2. SweptHasRow'
    BY <1>0, <1>15 DEF TimePasses, Tick, SweptHasRow, Swept
  <2> QED BY <1>0, <1>15, <2>1, <2>2, SweepFrame DEF TimePasses
<1>16. CASE UNCHANGED vars
  <2>1. SweptHasRow'
    BY <1>0, <1>16 DEF vars, tables, SweptHasRow, Swept
  <2> QED BY <1>0, <1>16, <2>1, SweepFrame DEF vars, tables
<1>17. ASSUME NEW f \in FileIDs, LeaveOrder(f) PROVE Base'
  <2>1. PICK state : /\ Goes(f, state) /\ state \in UploadState /\ state.pc \in {"loose", "loosesave"}
    <3>1. CASE Goes(f, Loose)
      BY <3>1 DEF Loose, UploadState
    <3>2. CASE upload[f].pc = "save" /\ Goes(f, [upload[f] EXCEPT !.pc = "loosesave"])
      <4>1. upload[f].size \in Nat /\ upload[f] = [pc |-> "save", size |-> upload[f].size]
        BY <1>0, <3>2, UploadFields
      <4>2. [upload[f] EXCEPT !.pc = "loosesave"] = [pc |-> "loosesave", size |-> upload[f].size]
        BY <4>1
      <4>3. Goes(f, [pc |-> "loosesave", size |-> upload[f].size])
        BY <3>2, <4>2
      <4> QED BY <4>1, <4>3 DEF UploadState
    <3> QED BY <1>17, <3>1, <3>2 DEF LeaveOrder
  <2>2. Agrees(f, state)
    BY <1>17, <2>1 DEF LeaveOrder, Agrees
  <2>3. UNCHANGED blobs
    BY <1>17 DEF LeaveOrder
  <2> QED BY <1>0, <1>00, <1>17, <2>1, <2>2, <2>3, UploadFrame DEF LeaveOrder, tables
<1>18. ASSUME NEW f \in FileIDs, PutAgain(f) PROVE Base'
  <2>1. PICK n \in Nat : blobs' = MapPut(blobs, f, n)
    BY <1>18 DEF PutAgain
  <2>2. BlobsBut(f) /\ upload[f] \in UploadState /\ upload[f].pc \in {"loose", "loosesave"}
    BY <1>0, <1>18, <2>1, BlobPut DEF PutAgain, InOrder
  <2>3. Goes(f, upload[f])
    BY <1>0, <1>18 DEF PutAgain, Goes
  <2>4. Agrees(f, upload[f])
    BY <1>02, <2>2 DEF Agrees
  <2> QED BY <1>0, <1>18, <2>2, <2>3, <2>4, UploadFrame DEF PutAgain, tables
<1>19. ASSUME NEW f \in FileIDs, StatAgain(f) PROVE Base'
  <2> DEFINE state == [pc |-> "loosesave", size |-> blobs[f]]
  <2>1. blobs[f] \in Nat /\ upload[f].pc = "loose" /\ Goes(f, state) /\ UNCHANGED blobs
    BY <1>0, <1>19 DEF StatAgain, IsMap
  <2>2. Agrees(f, state)
    BY <1>02, <2>1 DEF Agrees, UploadState
  <2>3. state.pc = "loosesave"
    OBVIOUS
  <2> HIDE DEF state
  <2> QED BY <1>0, <1>00, <1>19, <2>1, <2>2, <2>3, UploadFrame DEF StatAgain, tables
<1>20. ASSUME NEW f \in FileIDs, SaveAgain(f), UNCHANGED files PROVE Base'
  <2>1. upload[f].pc = "loosesave" /\ Goes(f, Loose) /\ faults' \in 0..MaxFaults /\ UNCHANGED blobs
    BY <1>0, <1>20 DEF SaveAgain, StoreFails
  <2>2. Agrees(f, Loose) /\ Loose.pc = "loose"
    BY <1>02, <2>1 DEF Agrees, Loose, UploadState
  <2> QED BY <1>0, <1>00, <1>20, <2>1, <2>2, UploadFrame DEF SaveAgain
<1>21. ASSUME NEW f \in FileIDs, SaveUpload(f) \/ SaveAgain(f) PROVE Base'
  BY <1>7, <1>20, <1>21 DEF SaveUpload, SaveAgain
<1> QED BY <1>1, <1>2, <1>3, <1>4, <1>5, <1>6, <1>8, <1>9, <1>10, <1>11, <1>12,
           <1>13, <1>14, <1>15, <1>16, <1>17, <1>18, <1>19, <1>21, NextCases

-----------------------------------------------------------------------------
(***************************************************************************)
(* What one step does to a row, a blob and the sweep's list                *)
(***************************************************************************)

\* A row stays as it is, is paid, or is swept; a new row comes from an upload.
LEMMA RowsFrame ==
  ASSUME Base, [Next]_vars
  PROVE  /\ \A f \in DOMAIN files :
              \/ f \in DOMAIN files' /\ files'[f] = files[f]
              \/ f \in Swept /\ f \notin DOMAIN files'
              \/ /\ ~files[f].paid /\ (LatePayments \/ now <= files[f].expiresAt)
                 /\ f \in DOMAIN files'
                 /\ files'[f] = [size |-> files[f].size, expiresAt |-> now + HostDuration, paid |-> TRUE]
                 /\ UNCHANGED <<now, blobs, upload, sweep>>
         /\ \A f \in DOMAIN files' \ DOMAIN files :
              /\ f \in FileIDs
              /\ upload[f].pc = "save" \/ ~InOrder(f)
              /\ files'[f] = PendingMeta(upload[f].size)
              /\ UNCHANGED <<now, blobs, sweep>>
<1> DEFINE Kept == UNCHANGED files
<1>1. CASE Kept
  BY <1>1
<1>2. ASSUME NEW g \in FileIDs, PaymentArrives(g)
      PROVE  /\ DOMAIN files' = DOMAIN files
             /\ UNCHANGED <<now, blobs, upload, sweep>>
             /\ ~files[g].paid /\ (LatePayments \/ now <= files[g].expiresAt)
             /\ files'[g] = [size |-> files[g].size, expiresAt |-> now + HostDuration, paid |-> TRUE]
             /\ \A f \in DOMAIN files : f /= g => files'[f] = files[f]
  BY <1>2 DEF PaymentArrives, UpdatePaymentStatus, Base, TypeOK, StoreTypeOK, IsMap
<1>3. ASSUME NEW g \in FileIDs, SaveUpload(g) \/ SaveAgain(g), ~Kept
      PROVE  /\ DOMAIN files' = DOMAIN files \cup {g}
             /\ upload[g].pc = "save" \/ ~InOrder(g)
             /\ files'[g] = PendingMeta(upload[g].size)
             /\ UNCHANGED <<now, blobs, sweep>>
             /\ \A f \in DOMAIN files : files'[f] = files[f]
  BY <1>3 DEF SaveUpload, SaveAgain, SaveFileMetadata, MapPut, InOrder
<1>4. ASSUME SweepRow, ~Kept
      PROVE  /\ sweep.file \in Swept /\ DOMAIN files' = DOMAIN files \ {sweep.file}
             /\ \A f \in DOMAIN files' : files'[f] = files[f]
  BY <1>4 DEF SweepRow, DeleteFileMetadata, MapDelete, Swept
<1>5. \/ Kept \/ SweepRow
      \/ \E g \in FileIDs : PaymentArrives(g) \/ SaveUpload(g) \/ SaveAgain(g)
  BY NextCases DEF InitUpload, BeginPut, FinishPut, AbortPut, Abandon, StatUpload, SaveUploadFails,
                   LeaveOrder, PutAgain, StatAgain,
                   SweepBlob, ListForSweep, EndSweep, Crash, TimePasses, tables, vars
<1>6. CASE \E g \in FileIDs : PaymentArrives(g)
  BY <1>2, <1>6
<1>7. CASE (\E g \in FileIDs : SaveUpload(g) \/ SaveAgain(g)) /\ ~Kept
  BY <1>3, <1>7
<1>8. CASE SweepRow /\ ~Kept
  BY <1>4, <1>8
<1> HIDE DEF Kept
<1> QED BY <1>1, <1>5, <1>6, <1>7, <1>8

\* A step of an upload, in the order of the web client.
InTurn(g) ==
  \/ \E size \in Sizes : InitUpload(g, size)
  \/ BeginPut(g) \/ FinishPut(g) \/ AbortPut(g) \/ Abandon(g)
  \/ StatUpload(g) \/ SaveUpload(g) \/ SaveUploadFails(g)

\* Such a step finds the upload in one of the states of that order.
LEMMA InTurnFrom ==
  ASSUME NEW g, InTurn(g)
  PROVE  upload[g].pc \in {"unused", "issued", "putting", "stored", "save"}
<1>1. CASE \E size \in Sizes : InitUpload(g, size)
  BY <1>1 DEF InitUpload, Unused
<1>2. CASE BeginPut(g) \/ StatUpload(g)
  BY <1>2 DEF BeginPut, StatUpload
<1>3. CASE FinishPut(g) \/ AbortPut(g) \/ Abandon(g) \/ SaveUpload(g) \/ SaveUploadFails(g)
  BY <1>3 DEF FinishPut, AbortPut, Abandon, SaveUpload, SaveUploadFails
<1> QED BY <1>1, <1>2, <1>3 DEF InTurn

\* The first request out of order concerns one file.
LEMMA LeavesOrder ==
  ASSUME Base, NEW g \in FileIDs, LeaveOrder(g)
  PROVE  /\ ~InOrder(g)'
         /\ \A f \in FileIDs : f /= g => (InOrder(f)' <=> InOrder(f))
<1>0. upload \in [FileIDs -> UploadState]
  BY DEF Base, TypeOK
<1>1. \A f \in FileIDs : f /= g => upload'[f] = upload[f]
  BY <1>0 DEF LeaveOrder, Goes
<1>2. CASE Goes(g, Loose)
  BY <1>0, <1>1, <1>2 DEF Goes, Loose, InOrder
<1>3. CASE upload[g].pc = "save" /\ Goes(g, [upload[g] EXCEPT !.pc = "loosesave"])
  <2>1. upload[g] = [pc |-> "save", size |-> upload[g].size]
    BY <1>0, <1>3, UploadFields
  <2>2. upload'[g] = [pc |-> "loosesave", size |-> upload[g].size]
    BY <1>0, <1>3, <2>1 DEF Goes
  <2> QED BY <1>1, <2>2 DEF InOrder
<1> QED BY <1>2, <1>3 DEF LeaveOrder

\* Which order an upload keeps changes for one file at a time, and never back.
LEMMA OrderFrame ==
  ASSUME Base, [Next]_vars, NEW f \in FileIDs
  PROVE  /\ InOrder(f)' => InOrder(f)
         /\ InOrder(f) /\ ~InOrder(f)' => LeaveOrder(f)
<1>0. upload \in [FileIDs -> UploadState]
  BY DEF Base, TypeOK
<1>1. ASSUME NEW g \in FileIDs, InTurn(g)
      PROVE  InOrder(f)' <=> InOrder(f)
  <2>1. \A h \in FileIDs : h /= g => upload'[h] = upload[h]
    BY <1>0, <1>1 DEF InTurn, InitUpload, BeginPut, FinishPut, AbortPut, Abandon, StatUpload,
                      SaveUpload, SaveUploadFails, Fallback, Goes
  <2>2. InOrder(g)
    BY <1>1, InTurnFrom DEF InOrder
  <2>3. upload'[g].pc \in {"issued", "putting", "stored", "save", "over"}
    <3>1. CASE StatUpload(g)
      BY <1>0, <3>1, UploadFields DEF StatUpload, Fallback, Goes, Over
    <3>2. CASE BeginPut(g) \/ FinishPut(g) \/ AbortPut(g) \/ SaveUploadFails(g)
      BY <1>0, <3>2, UploadFields DEF BeginPut, FinishPut, AbortPut, SaveUploadFails, Fallback, Goes, Over
    <3>3. CASE (\E size \in Sizes : InitUpload(g, size)) \/ Abandon(g) \/ SaveUpload(g)
      BY <1>0, <3>3 DEF InitUpload, Abandon, SaveUpload, Goes, Over
    <3> QED BY <1>1, <3>1, <3>2, <3>3 DEF InTurn
  <2> QED BY <2>1, <2>2, <2>3 DEF InOrder
<1>3. ASSUME NEW g \in FileIDs, PutAgain(g) \/ StatAgain(g) \/ SaveAgain(g)
      PROVE  InOrder(f)' <=> InOrder(f)
  <2>1. \A h \in FileIDs : h /= g => upload'[h] = upload[h]
    BY <1>0, <1>3 DEF PutAgain, StatAgain, SaveAgain, Goes
  <2>2. ~InOrder(g) /\ ~InOrder(g)'
    BY <1>0, <1>3 DEF PutAgain, StatAgain, SaveAgain, Goes, InOrder, Loose
  <2> QED BY <2>1, <2>2 DEF InOrder
<1>4. CASE Crash
  <2>1. upload'[f] = CutOff(f, upload[f])
    BY <1>4 DEF Crash
  <2>2. upload[f].pc \in {"loose", "loosesave"} <=> upload'[f].pc \in {"loose", "loosesave"}
    <3>1. CASE upload[f].pc \in {"putting", "save", "loosesave"}
      BY <1>0, <2>1, <3>1, UploadFields DEF CutOff, Loose, Over
    <3>2. CASE upload[f].pc \notin {"putting", "save", "loosesave"}
      BY <2>1, <3>2 DEF CutOff
    <3> QED BY <3>1, <3>2
  <2> QED BY <2>2 DEF InOrder
<1>5. CASE UNCHANGED upload
  BY <1>5 DEF InOrder
<1>6. \/ \E g \in FileIDs : \/ InTurn(g) \/ LeaveOrder(g)
                            \/ PutAgain(g) \/ StatAgain(g) \/ SaveAgain(g)
      \/ Crash \/ UNCHANGED upload
  BY NextCases DEF InTurn, PaymentArrives, SweepBlob, ListForSweep, SweepRow, EndSweep, TimePasses, vars
<1>7. CASE \E g \in FileIDs : LeaveOrder(g)
  BY <1>7, LeavesOrder
<1> QED BY <1>1, <1>3, <1>4, <1>5, <1>6, <1>7

\* Once an upload is over, and as long as no request comes out of order for it, its
\* blob never changes: it stays, or the sweep, that has listed the file, deletes it.
LEMMA BlobsFrame ==
  ASSUME Base, [Next]_vars, NEW f \in FileIDs, upload[f] = Over
  PROVE  /\ InOrder(f)' => upload'[f] = Over
         /\ f \in DOMAIN blobs' => f \in DOMAIN blobs /\ blobs'[f] = blobs[f]
         /\ f \in DOMAIN blobs /\ f \notin DOMAIN blobs' => f \in Swept
<1>0. upload \in [FileIDs -> UploadState] /\ upload[f].pc = "over" /\ InOrder(f)
  BY DEF Base, TypeOK, Over, InOrder
<1>1. ASSUME NEW g \in FileIDs, InTurn(g) \/ PutAgain(g) \/ StatAgain(g) \/ SaveAgain(g)
      PROVE  g /= f /\ upload'[f] = Over
  <2>1. g /= f
    BY <1>0, <1>1, InTurnFrom DEF PutAgain, StatAgain, SaveAgain, InOrder
  <2>2. upload'[f] = upload[f]
    BY <1>0, <1>1, <2>1 DEF InTurn, InitUpload, BeginPut, FinishPut, AbortPut, Abandon, StatUpload,
                SaveUpload, SaveUploadFails, PutAgain, StatAgain, SaveAgain, Fallback, Goes
  <2> QED BY <2>1, <2>2
<1>2. ASSUME NEW g \in FileIDs, BeginPut(g) \/ FinishPut(g) \/ AbortPut(g) \/ PutAgain(g)
      PROVE  blobs' = blobs \/ \E n : blobs' = MapPut(blobs, g, n)
  BY <1>2 DEF BeginPut, FinishPut, AbortPut, Torn, PutAgain
<1>3. ASSUME NEW g \in FileIDs, g /= f, blobs' = blobs \/ \E n : blobs' = MapPut(blobs, g, n)
      PROVE  (f \in DOMAIN blobs' <=> f \in DOMAIN blobs) /\ (f \in DOMAIN blobs => blobs'[f] = blobs[f])
  BY <1>3 DEF MapPut
<1>4. ASSUME NEW g \in FileIDs, SweepBlob(g)
      PROVE  /\ upload' = upload /\ g \in Swept
             /\ blobs' = blobs \/ blobs' = MapDelete(blobs, g)
  BY <1>4 DEF SweepBlob, Swept
<1>5. ASSUME NEW g \in FileIDs, InTurn(g) \/ PutAgain(g) \/ StatAgain(g) \/ SaveAgain(g)
      PROVE  blobs' = blobs \/ BeginPut(g) \/ FinishPut(g) \/ AbortPut(g) \/ PutAgain(g)
  BY <1>5 DEF InTurn, InitUpload, Abandon, StatUpload, SaveUpload, SaveUploadFails, StatAgain, SaveAgain
<1>6. CASE \E g \in FileIDs : InTurn(g) \/ PutAgain(g) \/ StatAgain(g) \/ SaveAgain(g)
  BY <1>1, <1>2, <1>3, <1>5, <1>6
<1>7. CASE \E g \in FileIDs : SweepBlob(g)
  BY <1>4, <1>7 DEF MapDelete
<1>8. CASE Crash
  BY <1>0, <1>8 DEF Crash, CutOff
<1>9. CASE \/ \E g \in FileIDs : PaymentArrives(g)
           \/ ListForSweep \/ SweepRow \/ EndSweep \/ TimePasses \/ UNCHANGED vars
  BY <1>9 DEF PaymentArrives, ListForSweep, SweepRow, EndSweep, TimePasses, vars
<1>10. ASSUME NEW g \in FileIDs, LeaveOrder(g)
       PROVE  UNCHANGED blobs /\ (InOrder(f)' => upload'[f] = Over)
  <2>1. CASE g = f
    <3>1. Goes(f, Loose)
      BY <1>0, <1>10, <2>1 DEF LeaveOrder
    <3> QED BY <1>0, <1>10, <3>1 DEF LeaveOrder, Goes, Loose, InOrder
  <2>2. CASE g /= f
    BY <1>0, <1>10, <2>2 DEF LeaveOrder, Goes
  <2> QED BY <2>1, <2>2
<1>11. CASE \E g \in FileIDs : LeaveOrder(g)
  BY <1>10, <1>11
<1> QED BY <1>6, <1>7, <1>8, <1>9, <1>11, NextCases DEF InTurn

\* Nothing comes into the sweep's hands but from the list of expired rows, and the
\* clock does not run backwards.
LEMMA SweptFrame ==
  ASSUME Base, [Next]_vars
  PROVE  /\ \A f \in Swept' : f \in Swept \/ f \in ListExpiredFiles
         /\ now \in Nat /\ now' \in Nat /\ now <= now'
<1>1. sweep \in SweepState /\ now \in Nat
  BY DEF Base, TypeOK, StoreTypeOK
<1>8. now' = now \/ now' = now + 1
  BY NextCases DEF InitUpload, BeginPut, FinishPut, AbortPut, Abandon, StatUpload, SaveUpload,
                   SaveUploadFails, LeaveOrder, PutAgain, StatAgain, SaveAgain, PaymentArrives,
                   SweepBlob, ListForSweep, SweepRow, EndSweep, Crash, TimePasses, Tick, tables, vars
<1>9. now \in Nat /\ now' \in Nat /\ now <= now'
  BY <1>1, <1>8
<1> SUFFICES \A f \in Swept' : f \in Swept \/ f \in ListExpiredFiles
  BY <1>9
<1>2. CASE UNCHANGED sweep
  BY <1>2 DEF Swept
<1>3. CASE ListForSweep
  BY <1>3 DEF ListForSweep, Swept
<1>4. CASE \E f \in FileIDs : SweepBlob(f)
  <2>1. PICK f \in FileIDs : SweepBlob(f)
    BY <1>4
  <2>2. CASE sweep' = [pc |-> "row", todo |-> sweep.todo \ {f}, file |-> f]
    BY <2>1, <2>2 DEF SweepBlob, Swept
  <2>3. CASE sweep' = [sweep EXCEPT !.todo = @ \ {f}]
    <3>1. sweep' = [pc |-> "blob", todo |-> sweep.todo \ {f}]
      BY <1>1, <2>1, <2>3 DEF SweepBlob, SweepState, Sleeping
    <3> QED BY <2>1, <3>1 DEF SweepBlob, Swept
  <2> QED BY <2>1, <2>2, <2>3 DEF SweepBlob
<1>5. CASE SweepRow
  BY <1>5 DEF SweepRow, Swept
<1>6. CASE EndSweep \/ Crash
  BY <1>6 DEF EndSweep, Crash, Swept, Sleeping
<1>7. \/ UNCHANGED sweep \/ ListForSweep \/ SweepRow \/ EndSweep \/ Crash
      \/ \E f \in FileIDs : SweepBlob(f)
  BY NextCases DEF InitUpload, BeginPut, FinishPut, AbortPut, Abandon, StatUpload, SaveUpload,
                   SaveUploadFails, LeaveOrder, PutAgain, StatAgain, SaveAgain, PaymentArrives,
                   TimePasses, vars
<1> QED BY <1>2, <1>3, <1>4, <1>5, <1>6, <1>7

-----------------------------------------------------------------------------
(***************************************************************************)
(* Rows and blobs                                                          *)
(***************************************************************************)

\* An unpaid row is listed once its expiry is past, whatever the server's zone;
\* a paid one too early by the zone's offset, east of UTC.
LEMMA ListedRows ==
  ASSUME IsMap(files, FileIDs, FileMeta), NEW f \in DOMAIN files, now \in Nat
  PROVE  /\ files[f].expiresAt \in Nat /\ files[f].paid \in BOOLEAN
         /\ ~files[f].paid => (f \in ListExpiredFiles <=> files[f].expiresAt < now)
         /\ files[f].paid => (f \in ListExpiredFiles <=> files[f].expiresAt < now + ZoneOffset)
<1>1. files[f].expiresAt \in Nat /\ files[f].paid \in BOOLEAN
  BY DEF IsMap, FileMeta
<1>2. f \in ListExpiredFiles <=> ReadsAs(files[f]) < now + ZoneOffset
  BY DEF ListExpiredFiles
<1> QED BY <1>1, <1>2, StoreAssumption DEF ReadsAs

\* A row that does not change stays listed as time passes.
LEMMA ListedStays ==
  ASSUME Base, Base', [Next]_vars, NEW f \in DOMAIN files, f \in DOMAIN files', files'[f] = files[f],
         f \in ListExpiredFiles
  PROVE  f \in ListExpiredFiles'
<1>1. ReadsAs(files[f]) < now + ZoneOffset
  BY DEF ListExpiredFiles
<1>2. files[f].expiresAt \in Nat /\ now \in Nat /\ now' \in Nat /\ now <= now'
  BY ListedRows, SweptFrame DEF Base, TypeOK, StoreTypeOK
<1>3. ReadsAs(files[f]) \in Int
  BY <1>2, StoreAssumption DEF ReadsAs
<1>4. ReadsAs(files[f]) < now' + ZoneOffset
  BY <1>1, <1>2, <1>3, StoreAssumption
<1> QED BY <1>4 DEF ListExpiredFiles, ReadsAs

\* With payments in time, what the sweep has listed stays listed.
LEMMA ExpiredStep ==
  ASSUME ~LatePayments, Base, Base', SweptIsExpired, [Next]_vars
  PROVE  SweptIsExpired'
<1> SUFFICES ASSUME NEW f \in Swept'
             PROVE  f \in ListExpiredFiles'
  BY DEF SweptIsExpired
<1>1. f \in DOMAIN files' /\ f \in ListExpiredFiles
  BY SweptFrame DEF SweptIsExpired, Base, SweptHasRow
<1>2. f \in DOMAIN files
  BY <1>1 DEF ListExpiredFiles
<1>3. CASE files'[f] = files[f]
  BY <1>1, <1>2, <1>3, ListedStays
<1>4. CASE ~files[f].paid /\ now <= files[f].expiresAt
  <2>1. files[f].expiresAt < now /\ files[f].expiresAt \in Nat /\ now \in Nat
    BY <1>1, <1>2, <1>4, ListedRows DEF Base, TypeOK, StoreTypeOK
  <2> QED BY <1>4, <2>1
<1> QED BY <1>1, <1>2, <1>3, <1>4, RowsFrame

\* Then no step parts a live row from its blob, unless the file is out of order.
LEMMA BlobStep ==
  ASSUME ~LatePayments, Base, Base', SweptIsExpired, RowHasBlob, [Next]_vars
  PROVE  RowHasBlob'
<1> SUFFICES ASSUME NEW f \in DOMAIN files' \ ListExpiredFiles', InOrder(f)'
             PROVE  f \in DOMAIN blobs' /\ blobs'[f] = files'[f].size
  BY DEF RowHasBlob
<1>0. f \in FileIDs /\ InOrder(f)
  BY RowMeansOver, OrderFrame DEF Base, TypeOK, StoreTypeOK, IsMap
<1>1. CASE f \notin DOMAIN files
  <2>1. /\ upload[f].pc = "save" /\ files'[f] = PendingMeta(upload[f].size)
        /\ UNCHANGED blobs
    BY <1>0, <1>1, RowsFrame
  <2> QED BY <1>0, <2>1 DEF Base, UploadsAgree, PendingMeta
<1>2. CASE f \in DOMAIN files /\ files'[f] = files[f]
  <2>1. upload[f] = Over
    BY <1>0, <1>2, RowMeansOver
  <2>2. f \notin ListExpiredFiles
    BY <1>2, ListedStays
  <2>3. f \in DOMAIN blobs /\ blobs[f] = files[f].size
    BY <1>0, <1>2, <2>2 DEF RowHasBlob
  <2>4. f \notin Swept
    BY <2>2 DEF SweptIsExpired
  <2> QED BY <1>0, <1>2, <2>1, <2>3, <2>4, BlobsFrame
<1>3. CASE /\ f \in DOMAIN files /\ ~files[f].paid /\ now <= files[f].expiresAt
           /\ files'[f] = [size |-> files[f].size, expiresAt |-> now + HostDuration, paid |-> TRUE]
           /\ UNCHANGED <<now, blobs, upload, sweep>>
  <2>1. /\ f \in ListExpiredFiles <=> files[f].expiresAt < now
        /\ files[f].expiresAt \in Nat /\ now \in Nat
    BY <1>3, ListedRows DEF Base, TypeOK, StoreTypeOK
  <2>2. f \notin ListExpiredFiles
    BY <1>3, <2>1
  <2> QED BY <1>0, <1>3, <2>2 DEF RowHasBlob
<1> QED BY <1>1, <1>2, <1>3, RowsFrame

-----------------------------------------------------------------------------
(***************************************************************************)
(* Downloads                                                               *)
(***************************************************************************)

\* A request leaves the service as it is, but for a failing storage call, and a
\* step of the service leaves the request alone or, in a crash, ends it.
LEMMA DownloadCases ==
  ASSUME [DownloadNext]_downloadVars
  PROVE  /\ \/ \E f \in FileIDs : Check(f)
            \/ Load \/ Serve
            \/ [Next]_vars /\ download' = Nothing
            \/ [Next]_vars /\ UNCHANGED download
         /\ DownloadStep => UNCHANGED <<now, files, invoices, blobs, upload, sweep, crashes>>
<1>1. DownloadStep => UNCHANGED <<now, files, invoices, blobs, upload, sweep, crashes>>
  BY DEF DownloadStep, Check, Load, Serve, FilesIdle, StorageFails, vars, tables
<1>2. \/ \E f \in FileIDs : Check(f)
      \/ Load \/ Serve
      \/ [Next]_vars /\ download' = Nothing
      \/ [Next]_vars /\ UNCHANGED download
  BY DEF DownloadNext, DownloadStep, Next, downloadVars
<1> QED BY <1>1, <1>2

\* A request that fails for a storage call uses up one failure.
LEMMA DownloadFaults ==
  ASSUME DownloadStep
  PROVE  UNCHANGED vars \/ StoreFails
BY DEF DownloadStep, Check, Load, Serve, FilesIdle, StorageFails

\* The invariant of the service and its requests.
Served == Base /\ DownloadTypeOK

\* Nothing is being served at the start.
LEMMA ServedInit == DownloadInit => Served
<1> SUFFICES ASSUME DownloadInit PROVE Served
  OBVIOUS
<1>1. Base
  BY BaseInit DEF DownloadInit
<1> QED BY <1>1 DEF DownloadInit, Served, DownloadTypeOK, Base, DownloadState, Nothing

\* What the fields of a request's state are, by its pc.
LEMMA DownloadFields ==
  ASSUME download \in DownloadState
  PROVE  /\ download.pc \in {"nothing", "load", "serve", "served", "failed"}
         /\ download.pc \in {"load", "serve"} =>
              download.file \in FileIDs /\ download.size \in Nat /\ download.until \in Nat
         /\ download.pc = "serve" => download.bytes \in Nat
         /\ download.pc = "served" =>
              download.file \in FileIDs /\ download.size \in Nat /\ download.bytes \in Nat
         /\ download.pc = "failed" => download.file \in FileIDs /\ download.until \in Nat
BY DEF DownloadState, Nothing

\* A step of a request keeps Base, which does not look at it.
LEMMA RequestKeepsBase ==
  ASSUME Base, DownloadStep, UNCHANGED <<now, files, invoices, blobs, upload, sweep, crashes>>
  PROVE  Base'
<1>1. CASE UNCHANGED vars
  BY <1>1, BaseStep
<1>2. CASE StoreFails
  <2>1. faults' \in 0..MaxFaults
    BY <1>2, StoreAssumption DEF Base, TypeOK, StoreTypeOK, StoreFails
  <2>2. SweptHasRow'
    BY DEF Base, SweptHasRow, Swept
  <2> QED BY <2>1, <2>2, SweepFrame DEF Base, TypeOK, StoreTypeOK
<1> QED BY <1>1, <1>2, DownloadFaults

\* Every step keeps what a download in progress rests on.
LEMMA ServedStep == Served /\ [DownloadNext]_downloadVars => Served'
<1> SUFFICES ASSUME Served, [DownloadNext]_downloadVars PROVE Served'
  OBVIOUS
<1>0. Base /\ TypeOK /\ download \in DownloadState
  BY DEF Served, DownloadTypeOK
<1>1. Base' /\ download' \in DownloadState => Served'
  BY DEF Served, DownloadTypeOK, Base
<1>2. CASE DownloadStep
  <2>1. Base'
    BY <1>0, <1>2, DownloadCases, RequestKeepsBase
  <2>2. ASSUME NEW f \in FileIDs, Check(f) PROVE download' \in DownloadState
    <3>1. files[f] \in FileMeta
      BY <1>0, <2>2 DEF Check, TypeOK, StoreTypeOK, IsMap
    <3> QED BY <2>2, <3>1 DEF Check, Becomes, DownloadState, FileMeta
  <2>3. ASSUME Load PROVE download' \in DownloadState
    <3>1. \A f \in DOMAIN blobs : blobs[f] \in Nat
      BY <1>0 DEF TypeOK, IsMap
    <3> QED BY <1>0, <2>3, <3>1, DownloadFields DEF Load, Becomes, Fails, DownloadState
  <2>4. ASSUME Serve PROVE download' \in DownloadState
    <3>1. \/ Fails
          \/ \E n \in Nat :
               download' = [pc |-> "served", file |-> download.file, size |-> download.size, bytes |-> n]
      <4>1. \A g \in DOMAIN blobs : blobs[g] \in Nat
        BY <1>0 DEF TypeOK, IsMap
      <4>2. download.bytes \in Nat
        BY <1>0, <2>4, DownloadFields DEF Serve
      <4> QED BY <2>4, <4>1, <4>2 DEF Serve, Becomes
    <3>2. download.pc = "serve"
      BY <2>4 DEF Serve
    <3> QED BY <1>0, <3>1, <3>2, DownloadFields DEF Becomes, Fails, DownloadState
  <2>5. download' \in DownloadState
    BY <1>2, <2>2, <2>3, <2>4 DEF DownloadStep
  <2> QED BY <1>1, <2>1, <2>5
<1>3. ASSUME [Next]_vars, download' = Nothing \/ UNCHANGED download PROVE Served'
  <2>1. Base'
    BY <1>0, <1>3, BaseStep
  <2>2. Nothing \in DownloadState
    BY DEF DownloadState
  <2>3. download' \in DownloadState
    BY <1>0, <1>3, <2>2
  <2> QED BY <1>1, <2>1, <2>3
<1> QED BY <1>2, <1>3, DownloadCases DEF DownloadStep

\* Every reachable state is well-typed, however payments, failures and crashes
\* fall, and for any storage and any client.
THEOREM DownloadTypeCorrect == DownloadSpec => []DownloadTypeOK
<1>1. Served => DownloadTypeOK
  BY DEF Served
<1> QED BY ServedInit, ServedStep, <1>1, PTL DEF DownloadSpec

\* The invariant that ties rows to blobs, under payments that come in time.
Hosted == Served /\ SweptIsExpired /\ RowHasBlob

\* At the start there is no row to be hosted.
LEMMA HostedInit == DownloadInit => Hosted
<1> SUFFICES ASSUME DownloadInit PROVE Hosted
  OBVIOUS
<1>1. files = EmptyMap /\ Swept = {}
  BY DEF DownloadInit, Init, StoreInit, Swept, Sleeping
<1>2. SweptIsExpired /\ RowHasBlob
  BY <1>1, EmptyMapIsMap DEF SweptIsExpired, RowHasBlob
<1> QED BY <1>2, ServedInit DEF Hosted

\* Every step keeps the rows hosted.
LEMMA HostedStep ==
  ASSUME ~LatePayments, Hosted, [DownloadNext]_downloadVars
  PROVE  Hosted'
<1>1. Served' /\ Base /\ Base'
  BY ServedStep DEF Hosted, Served
<1>2. CASE DownloadStep
  <2>1. UNCHANGED <<now, files, invoices, blobs, upload, sweep, crashes>>
    BY <1>2, DownloadCases
  <2>2. SweptIsExpired' /\ RowHasBlob'
    BY <2>1 DEF Hosted, SweptIsExpired, RowHasBlob, Swept, ListExpiredFiles, ReadsAs, InOrder
  <2> QED BY <1>1, <2>2 DEF Hosted
<1>3. CASE [Next]_vars
  BY <1>1, <1>3, ExpiredStep, BlobStep DEF Hosted
<1> QED BY <1>2, <1>3, DownloadCases DEF DownloadStep

\* Every live row has its whole blob on the storage, if no payment is processed after
\* its row expired: through any number of uploads, requests sent again after a failure,
\* failing calls, torn PUTs, crashes and sweeps cut off halfway, and whatever requests
\* come for other files, as long as none comes out of order for this one.
THEOREM RowsHaveBlobs == ASSUME ~LatePayments PROVE DownloadSpec => []RowHasBlob
<1>1. DownloadInit => Hosted
  BY HostedInit
<1>2. Hosted /\ [DownloadNext]_downloadVars => Hosted'
  BY HostedStep
<1>3. Hosted => RowHasBlob
  BY DEF Hosted
<1> QED BY <1>1, <1>2, <1>3, PTL DEF DownloadSpec

-----------------------------------------------------------------------------
(***************************************************************************)
(* The hosting period.  East of UTC (ZoneOffset > 0) the code breaks it.   *)
(***************************************************************************)

\* What the sweep holds of paid rows is past its hosting period.
LEMMA SweptPaid ==
  ASSUME ZoneOffset <= 0, Base, SweptIsExpired,
         NEW f \in Swept \cap DOMAIN files, files[f].paid
  PROVE  now > files[f].expiresAt
<1>1. f \in ListExpiredFiles /\ now \in Nat
  BY DEF SweptIsExpired, Base, TypeOK, StoreTypeOK
<1>2. files[f].expiresAt \in Nat /\ files[f].expiresAt < now + ZoneOffset
  BY <1>1, ListedRows DEF Base, TypeOK, StoreTypeOK
<1> QED BY <1>1, <1>2, StoreAssumption

\* A paid row in its hosting period has its whole blob.
LEMMA PaidHasBlob ==
  ASSUME ZoneOffset <= 0, Base, RowHasBlob, NEW f \in DOMAIN files, files[f].paid,
         InOrder(f), now <= files[f].expiresAt
  PROVE  f \in DOMAIN blobs /\ blobs[f] = files[f].size
<1>1. now \in Nat /\ files[f].expiresAt \in Nat
  BY ListedRows DEF Base, TypeOK, StoreTypeOK
<1>2. f \notin ListExpiredFiles
  BY <1>1, ListedRows, StoreAssumption DEF Base, TypeOK, StoreTypeOK
<1> QED BY <1>2 DEF RowHasBlob

\* A paid row leaves the table only after its hosting period.
LEMMA PaidRowStays ==
  ASSUME ZoneOffset <= 0, Hosted, [Next]_vars,
         NEW f \in DOMAIN files, files[f].paid
  PROVE  (f \in DOMAIN files' /\ files'[f] = files[f]) \/ now > files[f].expiresAt
<1>1. Base /\ SweptIsExpired
  BY DEF Hosted, Served
<1>2. f \in Swept => now > files[f].expiresAt
  BY <1>1, SweptPaid
<1> QED BY <1>1, <1>2, RowsFrame

\* A file that was paid for keeps its row for the whole hosting period, on a
\* server in UTC or west of it, if payments come in time.
THEOREM PaidRowsStay ==
  ASSUME ~LatePayments, ZoneOffset <= 0
  PROVE  DownloadSpec => PaidUntilExpiry
<1>1. DownloadInit => Hosted
  BY HostedInit
<1>2. Hosted /\ [DownloadNext]_downloadVars => Hosted'
  BY HostedStep
<1>3. Hosted /\ [DownloadNext]_downloadVars =>
        [\A f \in DOMAIN files \ DOMAIN files' : files[f].paid => now > files[f].expiresAt]_vars
  <2> SUFFICES ASSUME Hosted, [DownloadNext]_downloadVars,
                      NEW f \in DOMAIN files \ DOMAIN files', files[f].paid
               PROVE  now > files[f].expiresAt
    OBVIOUS
  <2>1. [Next]_vars
    BY DownloadCases DEF DownloadStep
  <2> QED BY <2>1, PaidRowStays
<1> QED BY <1>1, <1>2, <1>3, PTL DEF DownloadSpec, PaidUntilExpiry

-----------------------------------------------------------------------------
(***************************************************************************)
(* What a request finds behind the row it has checked                      *)
(***************************************************************************)

\* The three facts about the requests that are invariant together.
Requests == RequestAgrees /\ ServedIsWhole /\ FailsOnlyExpired

\* A step of the service keeps them.
LEMMA ServiceStep ==
  ASSUME ZoneOffset <= 0, Hosted, Hosted', Requests,
         [Next]_vars, UNCHANGED download
  PROVE  Requests'
<1>0. Base /\ SweptIsExpired /\ download \in DownloadState
  BY DEF Hosted, Served, DownloadTypeOK
<1>1. now \in Nat /\ now' \in Nat /\ now <= now'
  BY <1>0, SweptFrame
<1>2. RequestAgrees'
  <2> DEFINE f == download.file
  <2> SUFFICES ASSUME download.pc \in {"load", "serve"}, InOrder(f)'
               PROVE  /\ upload'[f] = Over
                      /\ f \in DOMAIN blobs' => blobs'[f] = download.size
                      /\ now' <= download.until =>
                           f \in DOMAIN files' /\ files'[f].paid /\ files'[f].expiresAt = download.until
                      /\ download.pc = "serve" => download.bytes = download.size
    BY DEF RequestAgrees
  <2>1. f \in FileIDs /\ download.until \in Nat /\ InOrder(f)
    BY <1>0, DownloadFields, OrderFrame
  <2>2. /\ upload[f] = Over
        /\ f \in DOMAIN blobs => blobs[f] = download.size
        /\ now <= download.until =>
             f \in DOMAIN files /\ files[f].paid /\ files[f].expiresAt = download.until
        /\ download.pc = "serve" => download.bytes = download.size
    BY <2>1 DEF Requests, RequestAgrees
  <2>3. upload'[f] = Over /\ (f \in DOMAIN blobs' => blobs'[f] = download.size)
    BY <1>0, <2>1, <2>2, BlobsFrame
  <2>4. ASSUME now' <= download.until
        PROVE  f \in DOMAIN files' /\ files'[f].paid /\ files'[f].expiresAt = download.until
    <3>1. now <= download.until
      BY <1>1, <2>1, <2>4
    <3>2. f \in DOMAIN files /\ files[f].paid /\ files[f].expiresAt = download.until
      BY <2>2, <3>1
    <3>3. ~(now > files[f].expiresAt)
      BY <1>1, <2>1, <3>1, <3>2
    <3> QED BY <3>2, <3>3, PaidRowStays
  <2> QED BY <2>2, <2>3, <2>4
<1>3. ServedIsWhole'
  BY <1>0, DownloadFields, OrderFrame DEF Requests, ServedIsWhole
<1>4. FailsOnlyExpired'
  <2> SUFFICES ASSUME download.pc = "failed", InOrder(download.file)', faults' = 0
               PROVE  now' > download.until
    BY DEF FailsOnlyExpired
  <2>0. InOrder(download.file)
    BY <1>0, DownloadFields, OrderFrame
  <2>1. UNCHANGED faults \/ StoreFails
    <3>1. ASSUME NEW f \in FileIDs,
                 \/ BeginPut(f) \/ FinishPut(f) \/ AbortPut(f) \/ Abandon(f) \/ StatUpload(f)
                 \/ SaveUpload(f) \/ SaveUploadFails(f)
                 \/ LeaveOrder(f) \/ PutAgain(f) \/ StatAgain(f) \/ SaveAgain(f)
                 \/ PaymentArrives(f) \/ SweepBlob(f)
          PROVE  UNCHANGED faults \/ StoreFails
      BY <3>1 DEF BeginPut, FinishPut, AbortPut, Abandon, StatUpload, SaveUpload, SaveUploadFails,
                  LeaveOrder, PutAgain, StatAgain, SaveAgain, PaymentArrives, SweepBlob, tables
    <3>2. CASE ListForSweep \/ SweepRow \/ EndSweep \/ Crash \/ TimePasses \/ UNCHANGED vars
      BY <3>2 DEF ListForSweep, SweepRow, EndSweep, Crash, TimePasses, tables, vars
    <3>3. CASE \E f \in FileIDs, size \in Sizes : InitUpload(f, size)
      BY <3>3 DEF InitUpload, tables
    <3> QED BY <3>1, <3>2, <3>3, NextCases
  <2>2. faults = 0
    <3>1. faults \in Nat
      BY <1>0 DEF Base, TypeOK, StoreTypeOK
    <3> QED BY <2>1, <3>1 DEF StoreFails
  <2>3. now > download.until /\ download.until \in Nat
    BY <1>0, <2>0, <2>2, DownloadFields DEF Requests, FailsOnlyExpired
  <2> QED BY <1>1, <2>3
<1> QED BY <1>2, <1>3, <1>4 DEF Requests

\* A step of a request keeps them.
LEMMA RequestStep ==
  ASSUME ZoneOffset <= 0, Hosted, Requests, DownloadStep,
         UNCHANGED <<now, files, invoices, blobs, upload, sweep, crashes>>
  PROVE  Requests'
<1> USE DEF InOrder
<1>0. Base /\ RowHasBlob /\ download \in DownloadState /\ now \in Nat /\ faults \in Nat
  BY DEF Hosted, Served, DownloadTypeOK, Base, TypeOK, StoreTypeOK
<1>1. ASSUME NEW f \in FileIDs, Check(f) PROVE Requests'
  <2>1. InOrder(f) => upload[f] = Over /\ f \in DOMAIN blobs /\ blobs[f] = files[f].size
    BY <1>0, <1>1, PaidHasBlob, RowMeansOver DEF Check
  <2> QED BY <1>1, <2>1 DEF Check, Becomes, Requests, RequestAgrees, ServedIsWhole, FailsOnlyExpired
<1>2. ASSUME Fails, download.pc \in {"load", "serve"},
             InOrder(download.file) => ~(faults' = 0) \/ now > download.until
      PROVE  Requests'
  BY <1>2 DEF Fails, Becomes, Requests, RequestAgrees, ServedIsWhole, FailsOnlyExpired
<1>3. ASSUME StorageFails PROVE ~(faults' = 0)
  BY <1>0, <1>3 DEF StorageFails, StoreFails
<1>4. ASSUME download.pc \in {"load", "serve"}, download.file \notin DOMAIN blobs, InOrder(download.file)
      PROVE  now > download.until
  <2>1. download.until \in Nat
    BY <1>0, <1>4, DownloadFields
  <2>2. ASSUME now <= download.until PROVE FALSE
    <3>1. /\ download.file \in DOMAIN files /\ files[download.file].paid
          /\ files[download.file].expiresAt = download.until
      BY <1>4, <2>2 DEF Requests, RequestAgrees
    <3> QED BY <1>0, <1>4, <2>2, <3>1, PaidHasBlob
  <2> QED BY <1>0, <2>1, <2>2
<1>5. CASE Load
  <2>1. download.pc = "load"
    BY <1>5 DEF Load
  <2>2. CASE /\ download.file \in DOMAIN blobs
             /\ download' = [pc |-> "serve", file |-> download.file, size |-> download.size,
                             until |-> download.until, bytes |-> blobs[download.file]]
    BY <2>1, <2>2 DEF Requests, RequestAgrees, ServedIsWhole, FailsOnlyExpired
  <2>3. CASE download.file \notin DOMAIN blobs /\ Fails
    BY <1>2, <1>4, <2>1, <2>3
  <2>4. CASE StorageFails /\ Fails
    BY <1>2, <1>3, <2>1, <2>4
  <2> QED BY <1>5, <2>2, <2>3, <2>4 DEF Load, Becomes
<1>6. CASE Serve
  <2>1. download.pc = "serve"
    BY <1>6 DEF Serve
  <2>2. ASSUME NEW n, n = download.bytes \/ (download.file \in DOMAIN blobs /\ n = blobs[download.file]),
               download' = [pc |-> "served", file |-> download.file, size |-> download.size, bytes |-> n]
        PROVE  Requests'
    <3>1. InOrder(download.file) => n = download.size
      BY <2>1, <2>2 DEF Requests, RequestAgrees
    <3> QED BY <2>2, <3>1 DEF Requests, RequestAgrees, ServedIsWhole, FailsOnlyExpired
  <2>3. CASE download.file \notin DOMAIN blobs /\ Fails
    BY <1>2, <1>4, <2>1, <2>3
  <2>4. CASE StorageFails /\ Fails
    BY <1>2, <1>3, <2>1, <2>4
  <2> QED BY <1>6, <2>2, <2>3, <2>4 DEF Serve, Becomes
<1> QED BY <1>1, <1>5, <1>6 DEF DownloadStep

\* Every step keeps the three facts.
LEMMA RequestsStep ==
  ASSUME ~LatePayments, ZoneOffset <= 0, Hosted, Requests, [DownloadNext]_downloadVars
  PROVE  Requests'
<1>1. Hosted'
  BY HostedStep
<1>2. CASE DownloadStep
  BY <1>2, DownloadCases, RequestStep
<1>3. CASE [Next]_vars /\ UNCHANGED download
  BY <1>1, <1>3, ServiceStep
<1>4. CASE download' = Nothing
  BY <1>4 DEF Nothing, Requests, RequestAgrees, ServedIsWhole, FailsOnlyExpired
<1> QED BY <1>2, <1>3, <1>4, DownloadCases DEF DownloadStep

\* At the start no download has been asked for.
LEMMA RequestsInit == DownloadInit => Requests
BY DEF DownloadInit, Nothing, Requests, RequestAgrees, ServedIsWhole, FailsOnlyExpired

\* A download that ends without an error has delivered the bytes its row was
\* checked for, whatever was swept meanwhile and whatever requests came for other
\* files, unless one came out of order for this one: in UTC or west of it, with
\* payments in time.
THEOREM DownloadsAreWhole ==
  ASSUME ~LatePayments, ZoneOffset <= 0
  PROVE  DownloadSpec => []ServedIsWhole
<1>1. DownloadInit => Hosted /\ Requests
  BY HostedInit, RequestsInit
<1>2. Hosted /\ Requests /\ [DownloadNext]_downloadVars => (Hosted /\ Requests)'
  BY HostedStep, RequestsStep
<1>3. Requests => ServedIsWhole
  BY DEF Requests
<1> QED BY <1>1, <1>2, <1>3, PTL DEF DownloadSpec

\* And one that has passed its check, of a file in order, fails for nothing but a
\* failing storage call or the end of the file's time.
THEOREM DownloadsFailOnlyExpired ==
  ASSUME ~LatePayments, ZoneOffset <= 0
  PROVE  DownloadSpec => []FailsOnlyExpired
<1>1. DownloadInit => Hosted /\ Requests
  BY HostedInit, RequestsInit
<1>2. Hosted /\ Requests /\ [DownloadNext]_downloadVars => (Hosted /\ Requests)'
  BY HostedStep, RequestsStep
<1>3. Requests => FailsOnlyExpired
  BY DEF Requests
<1> QED BY <1>1, <1>2, <1>3, PTL DEF DownloadSpec

-----------------------------------------------------------------------------
(***************************************************************************)
(* The contract                                                            *)
(***************************************************************************)

\* The files that can be downloaded, and until when: as in the refinement mapping.
CanDownload ==
  {f \in DOMAIN files : InOrder(f) /\ files[f].paid /\ now <= files[f].expiresAt
                          /\ f \in DOMAIN blobs /\ blobs[f] = files[f].size}
HostedUntil == [f \in CanDownload |-> files[f].expiresAt]
Disturbed == {f \in FileIDs : ~InOrder(f)}

\* A paid row in its time stays with its blob, through any step ...
LEMMA LiveStays ==
  ASSUME ZoneOffset <= 0, Hosted, [Next]_vars,
         NEW f \in DOMAIN files, files[f].paid, InOrder(f), now <= files[f].expiresAt
  PROVE  /\ f \in CanDownload
         /\ f \in DOMAIN files' /\ files'[f] = files[f]
         /\ f \in DOMAIN blobs' /\ blobs'[f] = blobs[f]
<1>0. Base /\ SweptIsExpired /\ RowHasBlob
  BY DEF Hosted, Served
<1>1. now \in Nat /\ files[f].expiresAt \in Nat
  BY <1>0, ListedRows DEF Base, TypeOK, StoreTypeOK
<1>2. f \in DOMAIN blobs /\ blobs[f] = files[f].size
  BY <1>0, PaidHasBlob
<1>3. ~(now > files[f].expiresAt)
  BY <1>1
<1>4. f \in DOMAIN files' /\ files'[f] = files[f]
  BY <1>3, PaidRowStays
<1>5. f \notin Swept
  BY <1>0, <1>3, SweptPaid
<1>6. f \in FileIDs /\ upload[f] = Over
  BY <1>0, RowMeansOver
<1> QED BY <1>0, <1>2, <1>4, <1>5, <1>6, BlobsFrame DEF CanDownload

\* ... and so does a row that is marked paid in time.
LEMMA PaidNow ==
  ASSUME ~LatePayments, Hosted, [Next]_vars,
         NEW f \in DOMAIN files', files'[f].paid, InOrder(f)
  PROVE  /\ f \in DOMAIN files
         /\ \/ files[f].paid /\ files'[f] = files[f]
            \/ /\ files'[f].expiresAt = now + HostDuration
               /\ UNCHANGED <<now, blobs>>
               /\ f \in DOMAIN blobs /\ blobs[f] = files'[f].size
<1>0. Base /\ RowHasBlob
  BY DEF Hosted, Served
<1>1. f \in DOMAIN files
  BY <1>0, RowsFrame DEF PendingMeta
<1>2. CASE files'[f] = files[f]
  BY <1>1, <1>2
<1>3. CASE /\ ~files[f].paid /\ now <= files[f].expiresAt
           /\ files'[f] = [size |-> files[f].size, expiresAt |-> now + HostDuration, paid |-> TRUE]
           /\ UNCHANGED <<now, blobs, upload, sweep>>
  <2>1. /\ f \in ListExpiredFiles <=> files[f].expiresAt < now
        /\ files[f].expiresAt \in Nat /\ now \in Nat
    BY <1>0, <1>1, <1>3, ListedRows DEF Base, TypeOK, StoreTypeOK
  <2>2. f \notin ListExpiredFiles
    BY <1>3, <2>1
  <2> QED BY <1>0, <1>1, <1>3, <2>2 DEF RowHasBlob
<1> QED BY <1>0, <1>1, <1>2, <1>3, RowsFrame

\* Only a payment is processed, or a file leaves the order, or only the clock runs,
\* or none of these.
LEMMA OneThing ==
  ASSUME Base, [Next]_vars
  PROVE  \/ \E g \in FileIDs : PaymentArrives(g)
         \/ \E g \in FileIDs : LeaveOrder(g)
         \/ now' = now + 1 /\ UNCHANGED <<files, blobs, upload>>
         \/ /\ now' = now /\ \A f \in DOMAIN files \cap DOMAIN files' : files'[f] = files[f]
            /\ Disturbed' = Disturbed
<1>1. CASE TimePasses
  BY <1>1 DEF TimePasses, Tick
<1>2. ASSUME NEW f \in FileIDs, NEW size \in Sizes, InitUpload(f, size)
      PROVE  UNCHANGED <<now, files>>
  BY <1>2 DEF InitUpload, tables
<1>3. ASSUME NEW f \in FileIDs,
             \/ BeginPut(f) \/ FinishPut(f) \/ AbortPut(f) \/ Abandon(f) \/ StatUpload(f)
             \/ SaveUploadFails(f) \/ PutAgain(f) \/ StatAgain(f) \/ SweepBlob(f)
      PROVE  UNCHANGED <<now, files>>
  BY <1>3 DEF BeginPut, FinishPut, AbortPut, Abandon, StatUpload, SaveUploadFails, PutAgain, StatAgain,
              SweepBlob, tables
<1>4. ASSUME NEW f \in FileIDs, SaveUpload(f) \/ SaveAgain(f)
      PROVE  now' = now /\ \A g \in DOMAIN files \cap DOMAIN files' : files'[g] = files[g]
  BY <1>4 DEF SaveUpload, SaveAgain, SaveFileMetadata, MapPut
<1>5. ASSUME SweepRow
      PROVE  now' = now /\ \A g \in DOMAIN files \cap DOMAIN files' : files'[g] = files[g]
  BY <1>5 DEF SweepRow, DeleteFileMetadata, MapDelete
<1>6. ASSUME ListForSweep \/ EndSweep \/ Crash \/ UNCHANGED vars
      PROVE  UNCHANGED <<now, files>>
  BY <1>6 DEF ListForSweep, EndSweep, Crash, tables, vars
<1>7. \/ \E g \in FileIDs : PaymentArrives(g)
      \/ \E g \in FileIDs : LeaveOrder(g)
      \/ now' = now + 1 /\ UNCHANGED <<files, blobs, upload>>
      \/ now' = now /\ \A f \in DOMAIN files \cap DOMAIN files' : files'[f] = files[f]
  BY <1>1, <1>2, <1>3, <1>4, <1>5, <1>6, NextCases
<1>8. (\A g \in FileIDs : ~LeaveOrder(g)) => Disturbed' = Disturbed
  <2> SUFFICES ASSUME \A g \in FileIDs : ~LeaveOrder(g) PROVE Disturbed' = Disturbed
    OBVIOUS
  <2>1. ASSUME NEW f \in FileIDs PROVE InOrder(f)' <=> InOrder(f)
    BY OrderFrame
  <2> QED BY <2>1 DEF Disturbed
<1> QED BY <1>7, <1>8

\* What the steps of the contract look like through the mapping.
LEMMA HostingCases ==
  /\ now' = now /\ HostedUntil' = HostedUntil /\ Disturbed' = Disturbed
       => UNCHANGED Contract!hostingVars
  /\ \A f \in FileIDs \ Disturbed :
       /\ HostedUntil' = MapPut(HostedUntil, f, now + HostDuration)
       /\ now' = now /\ Disturbed' = Disturbed
       => Contract!Next
  /\ \A f \in FileIDs \ Disturbed :
       /\ HostedUntil' = MapDelete(HostedUntil, f)
       /\ now' = now /\ Disturbed' = Disturbed \cup {f}
       => Contract!Next
  /\ /\ now' = now + 1 /\ Disturbed' = Disturbed
     /\ HostedUntil' = [f \in {f \in DOMAIN HostedUntil : now' <= HostedUntil[f]} |-> HostedUntil[f]]
     => Contract!Next
<1>1. now' = now /\ HostedUntil' = HostedUntil /\ Disturbed' = Disturbed
        => UNCHANGED Contract!hostingVars
  BY DEF HostedUntil, CanDownload, Disturbed, Contract!hostingVars
<1>2. ASSUME NEW f \in FileIDs \ Disturbed,
             HostedUntil' = MapPut(HostedUntil, f, now + HostDuration), now' = now, Disturbed' = Disturbed
      PROVE  Contract!Host(f)
  BY <1>2 DEF HostedUntil, CanDownload, Disturbed, Contract!Host, Contract!MapPut, MapPut
<1>3. ASSUME NEW f \in FileIDs \ Disturbed,
             HostedUntil' = MapDelete(HostedUntil, f), now' = now, Disturbed' = Disturbed \cup {f}
      PROVE  Contract!Disturb(f)
  BY <1>3 DEF HostedUntil, CanDownload, Disturbed, Contract!Disturb, Contract!MapDelete, MapDelete
<1>4. ASSUME now' = now + 1, Disturbed' = Disturbed,
             HostedUntil' = [f \in {f \in DOMAIN HostedUntil : now' <= HostedUntil[f]} |-> HostedUntil[f]]
      PROVE  Contract!TimePasses
  BY <1>4 DEF HostedUntil, CanDownload, Disturbed, Contract!TimePasses
<1> QED BY <1>1, <1>2, <1>3, <1>4 DEF Contract!Next

\* Every step of the files and the download is one of the contract, or none.
LEMMA HostingStep ==
  ASSUME ~LatePayments, ZoneOffset <= 0, Hosted, [DownloadNext]_downloadVars
  PROVE  [Contract!Next]_(Contract!hostingVars)
<1>0. Base /\ now \in Nat /\ files \in [DOMAIN files -> FileMeta] /\ DOMAIN files \subseteq FileIDs
  BY DEF Hosted, Served, Base, TypeOK, StoreTypeOK, IsMap
<1>1. CASE DownloadStep
  <2>1. UNCHANGED <<now, files, blobs, upload>>
    BY <1>1, DownloadCases
  <2>2. HostedUntil' = HostedUntil /\ Disturbed' = Disturbed
    BY <2>1 DEF HostedUntil, CanDownload, Disturbed, InOrder
  <2> QED BY <2>1, <2>2, HostingCases
<1>2. CASE [Next]_vars
  <2>1. /\ \A f \in DOMAIN files : files[f].expiresAt \in Nat
        /\ \A f \in CanDownload : /\ f \in DOMAIN files /\ files[f].paid /\ now <= files[f].expiresAt
                                  /\ f \in FileIDs /\ InOrder(f)
                                  /\ f \in DOMAIN files' /\ files'[f] = files[f]
                                  /\ f \in DOMAIN blobs' /\ blobs'[f] = files'[f].size
    BY <1>0, <1>2, LiveStays DEF CanDownload, FileMeta
  <2>2. CASE now' = now + 1 /\ UNCHANGED <<files, blobs, upload>>
    <3>1. CanDownload' = {f \in CanDownload : now' <= files[f].expiresAt}
      BY <1>0, <2>1, <2>2 DEF CanDownload, InOrder
    <3>2. HostedUntil' = [f \in {f \in DOMAIN HostedUntil : now' <= HostedUntil[f]} |-> HostedUntil[f]]
      BY <2>2, <3>1 DEF HostedUntil
    <3>3. Disturbed' = Disturbed
      BY <2>2 DEF Disturbed, InOrder
    <3> QED BY <2>2, <3>2, <3>3, HostingCases
  <2>3. CASE /\ now' = now /\ \A f \in DOMAIN files \cap DOMAIN files' : files'[f] = files[f]
             /\ Disturbed' = Disturbed
    <3>1. \A f \in FileIDs : InOrder(f)' <=> InOrder(f)
      BY <2>3 DEF Disturbed
    <3>2. CanDownload \subseteq CanDownload'
      BY <2>1, <2>3, <3>1 DEF CanDownload
    <3>3. ASSUME NEW f \in CanDownload' PROVE f \in CanDownload
      <4>1. /\ f \in DOMAIN files' /\ files'[f].paid /\ now <= files'[f].expiresAt
            /\ InOrder(f)'
        BY <2>3, <3>3 DEF CanDownload
      <4>2. f \in FileIDs
        BY <1>0, <1>2, <4>1, BaseStep, RowMeansOver DEF Base, TypeOK, StoreTypeOK, IsMap
      <4>3. InOrder(f)
        BY <3>1, <4>1, <4>2
      <4>4. f \in DOMAIN files /\ files'[f] = files[f]
        BY <1>2, <2>3, <4>1, <4>3, PaidNow
      <4> QED BY <1>2, <4>1, <4>3, <4>4, LiveStays
    <3>4. CanDownload' = CanDownload /\ \A f \in CanDownload : files'[f] = files[f]
      BY <2>1, <3>2, <3>3
    <3>5. HostedUntil' = HostedUntil
      BY <3>4 DEF HostedUntil
    <3> QED BY <2>3, <3>5, HostingCases
  <2>4. ASSUME NEW g \in FileIDs, PaymentArrives(g)
        PROVE  [Contract!Next]_(Contract!hostingVars)
    <3>1. /\ DOMAIN files' = DOMAIN files /\ g \in DOMAIN files /\ ~files[g].paid
          /\ UNCHANGED <<now, blobs, upload>>
          /\ files'[g].paid /\ files'[g].expiresAt = now + HostDuration
          /\ \A f \in DOMAIN files : f /= g => files'[f] = files[f]
      BY <2>4 DEF PaymentArrives, UpdatePaymentStatus
    <3>2. Disturbed' = Disturbed /\ \A f : InOrder(f)' <=> InOrder(f)
      BY <3>1 DEF Disturbed, InOrder
    <3>3. \A f \in CanDownload : f /= g
      BY <3>1 DEF CanDownload
    <3>4. CASE InOrder(g)
      <4>1. g \in DOMAIN blobs /\ blobs[g] = files'[g].size
        BY <1>2, <3>1, <3>4, PaidNow
      <4>2. g \in CanDownload'
        BY <1>0, <3>1, <3>2, <3>4, <4>1, StoreAssumption DEF CanDownload
      <4>3. CanDownload' = CanDownload \cup {g}
        BY <3>1, <3>2, <4>2 DEF CanDownload
      <4>4. \A f \in CanDownload : files'[f] = files[f]
        BY <3>1, <3>3 DEF CanDownload
      <4>5. HostedUntil' = MapPut(HostedUntil, g, now + HostDuration)
        BY <3>1, <3>3, <4>3, <4>4 DEF HostedUntil, MapPut
      <4>6. g \in FileIDs \ Disturbed
        BY <3>4 DEF Disturbed
      <4> QED BY <3>1, <3>2, <4>5, <4>6, HostingCases
    <3>5. CASE ~InOrder(g)
      <4>1. CanDownload' = CanDownload
        BY <3>1, <3>2, <3>5 DEF CanDownload
      <4>2. HostedUntil' = HostedUntil
        BY <3>1, <3>3, <4>1 DEF HostedUntil, CanDownload
      <4> QED BY <3>1, <3>2, <4>2, HostingCases
    <3> QED BY <3>4, <3>5
  <2>5. ASSUME NEW g \in FileIDs, LeaveOrder(g)
        PROVE  [Contract!Next]_(Contract!hostingVars)
    <3>1. UNCHANGED <<now, files, blobs>> /\ InOrder(g)
      BY <2>5 DEF LeaveOrder, InOrder, tables
    <3>2. ~InOrder(g)' /\ \A f \in FileIDs : f /= g => (InOrder(f)' <=> InOrder(f))
      BY <1>0, <2>5, LeavesOrder
    <3>3. Disturbed' = Disturbed \cup {g}
      BY <3>2 DEF Disturbed
    <3>4. CanDownload' = CanDownload \ {g}
      BY <1>0, <3>1, <3>2 DEF CanDownload
    <3>5. HostedUntil' = MapDelete(HostedUntil, g)
      BY <3>1, <3>4 DEF HostedUntil, MapDelete
    <3>6. g \in FileIDs \ Disturbed
      BY <3>1 DEF Disturbed
    <3> QED BY <3>1, <3>3, <3>5, <3>6, HostingCases
  <2> QED BY <1>0, <1>2, <2>2, <2>3, <2>4, <2>5, OneThing
<1> QED BY <1>1, <1>2, DownloadCases DEF DownloadStep

\* Rows, blobs, uploads and sweep implement HostingContract: a file whose payment
\* is processed can be downloaded, whole, for its hosting period, unless a request
\* comes out of order for this very file; what comes for others does not matter.
THEOREM ServiceKeepsHosting ==
  ASSUME ~LatePayments, ZoneOffset <= 0
  PROVE  DownloadSpec => KeepsHosting
<1>1. DownloadInit => Hosted
  BY HostedInit
<1>2. Hosted /\ [DownloadNext]_downloadVars => Hosted'
  BY HostedStep
<1>3. DownloadInit => Contract!Init
  BY DEF DownloadInit, Init, ClockInit, StoreInit, Contract!Init, Contract!EmptyMap, EmptyMap,
         InOrder, Unused
<1>4. Hosted /\ [DownloadNext]_downloadVars => [Contract!Next]_(Contract!hostingVars)
  BY HostingStep
<1> QED BY <1>1, <1>2, <1>3, <1>4, PTL DEF DownloadSpec, KeepsHosting

=============================================================================
