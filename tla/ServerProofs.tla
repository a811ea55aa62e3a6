------------------------------ MODULE ServerProofs ------------------------------
(***************************************************************************)
(* Theorems about the composed server: its payment part is a run of        *)
(* PaymentService, so that what is proved there holds here, and what the   *)
(* three components say about one file fits together; and about the        *)
(* payment page in front of it.                                            *)
(***************************************************************************)
EXTENDS PendingPage, TLAPS

\* The components with what is proved about them; the server has no download of its
\* own, and its uploads are those of the web client.
P == INSTANCE PaymentRecoveryProofs WITH Requests <- FileIDs
F == INSTANCE FileServiceProofs WITH
       WebUploads <- FileIDs, LatePayments <- TRUE, download <- [pc |-> "nothing"]
L == INSTANCE PendingLimiterProofs

\* The components' assumptions are the server's.
LEMMA Assumptions ==
  /\ P!ClockAssumption /\ P!StoreAssumption /\ P!PaymentAssumption
  /\ F!ClockAssumption /\ F!StoreAssumption /\ F!FileAssumption
  /\ L!ClockAssumption /\ L!LimiterAssumption
BY ClockAssumption, StoreAssumption, ServerAssumption
   DEF P!ClockAssumption, P!StoreAssumption, P!PaymentAssumption, F!ClockAssumption,
       F!StoreAssumption, F!FileAssumption, L!ClockAssumption, L!LimiterAssumption

-----------------------------------------------------------------------------
(***************************************************************************)
(* The payment service in the server                                       *)
(***************************************************************************)

\* What the components share: all variables of the server, typed, and what the
\* invariants of the payment service and of the file service say.
Base == P!Base /\ F!Base /\ L!Sound /\ tracked \subseteq FileIDs

\* Every step of the server is one of the payment service or none of its business.
LEMMA PaymentsStep ==
  ASSUME Base, [Next]_vars
  PROVE  [P!Next]_(P!vars)
<1> USE DEF P!Next, processVars, paymentVars, P!vars, P!tables, P!memory, P!world
<1>0. ASSUME up, StoreFails, UNCHANGED <<now, files, invoices, processVars, paymentVars>>
      PROVE  P!OtherCallFails
  BY <1>0 DEF P!OtherCallFails, P!StoreFails, StoreFails
<1>1. ASSUME NEW f \in FileIDs, CreateInvoice(f) PROVE P!HandlerStep(f)
  BY <1>1 DEF CreateInvoice, P!HandlerStep,
      Payments!WalletCreates, Payments!WalletRefuses, Payments!PersistInvoice, Payments!RegisterInvoice,
      P!WalletCreates, P!WalletRefuses, P!PersistInvoice, P!RegisterInvoice,
      Payments!tables, Payments!memory, Payments!world, Payments!Goes, P!Goes, Payments!Idle, P!Idle,
      Payments!MapPut, P!MapPut, Payments!StoreFails, P!StoreFails,
      Payments!SavePendingInvoice, P!SavePendingInvoice
<1>2. ASSUME NEW f \in FileIDs, Respond(f) PROVE P!HandlerStep(f)
  BY <1>2 DEF Respond, P!HandlerStep, Payments!Respond, P!Respond, Payments!tables, Payments!Idle, P!Idle
<1>3. ASSUME NEW f \in FileIDs, HandleGetInvoice(f) PROVE P!GetInvoiceForFile(f)
  BY <1>3 DEF HandleGetInvoice, Payments!GetInvoiceForFile, P!GetInvoiceForFile, Payments!tables, Payments!memory
<1>4. ASSUME PaymentStep PROVE P!Next
  <2>1. ASSUME NEW h \in Hashes, Payments!Settle(h) PROVE P!Settle(h)
    BY <2>1 DEF Payments!Settle, P!Settle, Payments!tables, Payments!memory
  <2>2. ASSUME NEW h \in Hashes, Payments!HandleWebhook(h) PROVE P!HandleWebhook(h)
    BY <2>2 DEF Payments!HandleWebhook, P!HandleWebhook, Payments!Send, P!Send, Payments!tables
  <2>3. Payments!TakeUpdate => P!TakeUpdate
    BY DEF Payments!TakeUpdate, P!TakeUpdate, Payments!Receiving, P!Receiving, Payments!MapDelete, P!MapDelete,
           Payments!tables, Payments!world
  <2>4. Payments!Unpersist => P!Unpersist
    BY DEF Payments!Unpersist, P!Unpersist, Payments!DeletePendingInvoice, P!DeletePendingInvoice,
           Payments!MapDelete, P!MapDelete, Payments!StoreFails, P!StoreFails, Payments!world
  <2>5. Payments!MarkPaid => P!MarkPaid
    BY DEF Payments!MarkPaid, P!MarkPaid, Payments!UpdatePaymentStatus, P!UpdatePaymentStatus,
           Payments!StoreFails, P!StoreFails, Payments!world
  <2> QED BY <1>4, <2>1, <2>2, <2>3, <2>4, <2>5 DEF PaymentStep, P!WatcherStep
<1>5. NotifyLimiter => P!Notify
  BY DEF NotifyLimiter, Payments!Notify, P!Notify, Payments!Receiving, P!Receiving, Payments!tables, Payments!world
<1>6. Crash => P!Crash
  BY DEF Crash, Payments!Crash, P!Crash, Payments!EmptyMap, P!EmptyMap, Payments!Receiving, P!Receiving,
         Payments!NoCalls, P!NoCalls, Payments!Idle, P!Idle, Payments!tables, Payments!world
<1>7. Restart => P!Restart
  BY DEF Restart, Payments!Restart, P!Restart, Payments!LoadPendingInvoices, P!LoadPendingInvoices,
         Payments!StoreFails, P!StoreFails, Payments!world
<1>8. TimePasses => P!TimePasses
  BY DEF TimePasses, P!TimePasses, Tick, P!Tick
<1>9. ASSUME NEW f \in FileIDs, NEW size \in Sizes, HandleUploadInit(f, size)
      PROVE  UNCHANGED P!vars
  BY <1>9 DEF HandleUploadInit, Files!InitUpload, OfFiles, Files!tables
<1>10. ASSUME NEW f \in FileIDs, HandleUploadStream(f)
      PROVE  UNCHANGED P!vars
  BY <1>10 DEF HandleUploadStream, Files!BeginPut, Files!FinishPut, Files!AbortPut, OfFiles, Files!tables
<1>11. ASSUME NEW f \in FileIDs, VerifyUpload(f)
       PROVE  UNCHANGED P!vars \/ P!OtherCallFails
  BY <1>0, <1>11 DEF VerifyUpload, Files!StatUpload, Files!SaveUploadFails, OfFiles, Files!StoreFails, StoreFails
<1>12. ASSUME NEW f \in FileIDs, TrackFile(f) PROVE UNCHANGED P!vars
  BY <1>12 DEF TrackFile, tableVars
<1>13. ASSUME SweepFiles PROVE P!Next \/ UNCHANGED P!vars
  <2>1. Files!ListForSweep => UNCHANGED P!vars \/ P!OtherCallFails
    BY <1>0, <1>13 DEF SweepFiles, Files!ListForSweep, OfFiles, Files!StoreFails, StoreFails
  <2>2. ASSUME NEW f \in FileIDs, Files!SweepBlob(f) PROVE UNCHANGED P!vars \/ P!OtherCallFails
    BY <1>0, <1>13, <2>2 DEF SweepFiles, Files!SweepBlob, OfFiles, Files!StoreFails, StoreFails
  <2>3. CASE Files!SweepRow
    <3>1. sweep.file \in FileIDs
      BY <2>3, F!SweepFields, Assumptions DEF Base, F!Base, F!TypeOK, Files!SweepRow
    <3>2. P!FileSwept(sweep.file) \/ P!OtherCallFails
      BY <1>0, <1>13, <2>3 DEF SweepFiles, Files!SweepRow, OfFiles, Files!StoreFails, StoreFails,
         P!FileSwept, Files!DeleteFileMetadata, P!DeleteFileMetadata, Files!MapDelete, P!MapDelete
    <3> QED BY <3>1, <3>2
  <2> QED BY <1>13, <2>1, <2>2, <2>3 DEF SweepFiles
<1>14. SweepLimiter => UNCHANGED P!vars
  BY DEF SweepLimiter, Files!EndSweep, Files!tables
<1>15. ASSUME NEW f \in FileIDs, CompleteUpload(f) PROVE P!CompleteUpload(f, f)
  <2>1. upload[f].pc = "save" /\ upload[f].size \in Sizes
    BY <1>15 DEF CompleteUpload, Files!SaveUpload, Base, F!Base, F!StrictAgrees
  <2>2. \E size \in Sizes : P!SaveFileMetadata(f, P!PendingMeta(size))
    BY <1>15, <2>1 DEF CompleteUpload, Files!SaveUpload, Files!SaveFileMetadata, Files!PendingMeta,
       P!SaveFileMetadata, P!PendingMeta, Files!MapPut, P!MapPut
  <2> QED
    BY <1>15, <2>2 DEF CompleteUpload, P!CompleteUpload, Payments!CallCreateInvoice, P!CallCreateInvoice,
       Payments!Idle, P!Idle, Files!SaveUpload
<1>16. UNCHANGED vars => UNCHANGED P!vars
  BY DEF vars, tableVars
<1> HIDE DEF P!vars, P!tables, P!memory, P!world, processVars, paymentVars
<1>17. ASSUME NEW f \in FileIDs,
              \/ \E size \in Sizes : HandleUploadInit(f, size)
              \/ HandleUploadStream(f) \/ VerifyUpload(f) \/ CompleteUpload(f)
              \/ CreateInvoice(f) \/ TrackFile(f) \/ Respond(f)
              \/ HandleGetInvoice(f)
       PROVE  P!Next \/ UNCHANGED P!vars
  BY <1>1, <1>2, <1>3, <1>9, <1>10, <1>11, <1>12, <1>15, <1>17
<1>18. NotifyLimiter => P!Next
  BY <1>5 DEF P!WatcherStep
<1>19. Crash \/ Restart \/ TimePasses \/ SweepLimiter => P!Next \/ UNCHANGED P!vars
  BY <1>6, <1>7, <1>8, <1>14
<1> HIDE DEF P!Next
<1> QED BY <1>4, <1>13, <1>16, <1>17, <1>18, <1>19 DEF Next

-----------------------------------------------------------------------------
(***************************************************************************)
(* The file service and the limiter in the server                          *)
(***************************************************************************)

\* Every step of the server is one of the file service, or leaves it all but the
\* contents of the rows, which only a credited payment changes.
LEMMA FilesStep ==
  ASSUME Base, [Next]_vars
  PROVE  \/ [F!Next]_(F!vars)
         \/ /\ UNCHANGED <<fileVars, crashes>> /\ DOMAIN files' = DOMAIN files
            /\ UNCHANGED files \/ Payments!MarkPaid
<1> USE DEF fileVars, F!tables
<1>1. ASSUME NEW f \in FileIDs, NEW size \in Sizes, HandleUploadInit(f, size) PROVE F!InitUpload(f, size)
  BY <1>1 DEF HandleUploadInit, Files!InitUpload, F!InitUpload, Files!Goes, F!Goes, Files!Unused, F!Unused,
     Files!tables
<1>2. ASSUME NEW f \in FileIDs, HandleUploadStream(f) PROVE F!UploadStep(f)
  BY <1>2 DEF HandleUploadStream, F!UploadStep, Files!BeginPut, Files!FinishPut, Files!AbortPut,
     F!BeginPut, F!FinishPut, F!AbortPut, Files!Torn, F!Torn, Files!Fallback, F!Fallback,
     Files!Goes, F!Goes, Files!Over, F!Over, Files!MapPut, F!MapPut, Files!tables
<1>3. ASSUME NEW f \in FileIDs, VerifyUpload(f) PROVE F!UploadStep(f)
  BY <1>3 DEF VerifyUpload, F!UploadStep, Files!StatUpload, Files!SaveUploadFails,
     F!StatUpload, F!SaveUploadFails, Files!Fallback, F!Fallback, Files!Goes, F!Goes, Files!Over, F!Over,
     Files!StoreFails, F!StoreFails
<1>4. ASSUME NEW f \in FileIDs, CompleteUpload(f) PROVE F!UploadStep(f)
  BY <1>4 DEF CompleteUpload, processVars, F!UploadStep, Files!SaveUpload, F!SaveUpload, Files!Goes, F!Goes, Files!Over, F!Over,
     Files!SaveFileMetadata, F!SaveFileMetadata, Files!PendingMeta, F!PendingMeta, Files!MapPut, F!MapPut
<1>5. ASSUME NEW f \in FileIDs, CreateInvoice(f) \/ TrackFile(f) \/ Respond(f) \/ HandleGetInvoice(f)
      PROVE  UNCHANGED <<fileVars, crashes, files>>
  BY <1>5 DEF CreateInvoice, TrackFile, Respond, HandleGetInvoice, OfPayments, processVars, tableVars,
     Payments!WalletCreates, Payments!WalletRefuses, Payments!PersistInvoice, Payments!RegisterInvoice,
     Payments!Respond, Payments!GetInvoiceForFile, Payments!tables
<1>6. ASSUME PaymentStep \/ NotifyLimiter \/ Restart
      PROVE  /\ UNCHANGED <<fileVars, crashes>> /\ DOMAIN files' = DOMAIN files
             /\ UNCHANGED files \/ Payments!MarkPaid
  BY <1>6 DEF PaymentStep, NotifyLimiter, Restart, OfPayments, Payments!Settle, Payments!HandleWebhook,
     Payments!TakeUpdate, Payments!Unpersist, Payments!MarkPaid, Payments!UpdatePaymentStatus,
     Payments!Notify, Payments!Restart, Payments!tables
<1>7. ASSUME SweepFiles PROVE F!SweepStep
  BY <1>7 DEF SweepFiles, OfFiles, F!SweepStep, Files!ListForSweep, Files!SweepBlob, Files!SweepRow,
     F!ListForSweep, F!SweepBlob, F!SweepRow, Files!Sleeping, F!Sleeping, Files!StoreFails, F!StoreFails,
     Files!ListExpiredFiles, F!ListExpiredFiles, Files!ReadsAs, F!ReadsAs, Files!MapDelete, F!MapDelete,
     Files!DeleteFileMetadata, F!DeleteFileMetadata
<1>8. ASSUME SweepLimiter PROVE F!SweepStep
  BY <1>8 DEF SweepLimiter, F!SweepStep, Files!EndSweep, F!EndSweep, Files!Sleeping, F!Sleeping, Files!tables
<1>9. ASSUME Crash PROVE F!Crash
  BY <1>9 DEF Crash, Files!Crash, F!Crash, Files!CutOff, F!CutOff, Files!Sleeping, F!Sleeping,
     Files!Over, F!Over, Files!Loose, F!Loose, Files!tables
<1>10. ASSUME TimePasses PROVE F!TimePasses
  BY <1>10 DEF TimePasses, F!TimePasses, Tick, F!Tick, processVars
<1>11. UNCHANGED vars => UNCHANGED <<fileVars, crashes, files>>
  BY DEF vars, tableVars, processVars
<1> HIDE DEF fileVars, F!tables
<1>12. ASSUME NEW f \in FileIDs,
              \/ \E size \in Sizes : HandleUploadInit(f, size)
              \/ HandleUploadStream(f) \/ VerifyUpload(f) \/ CompleteUpload(f)
       PROVE  F!Next
  BY <1>1, <1>2, <1>3, <1>4, <1>12 DEF F!Next, F!UploadStep
<1>13. SweepFiles \/ SweepLimiter \/ Crash \/ TimePasses => F!Next
  BY <1>7, <1>8, <1>9, <1>10 DEF F!Next
<1> QED BY <1>5, <1>6, <1>11, <1>12, <1>13 DEF Next

\* Every step of the server is one of the limiter or none of its business.
LEMMA LimiterStep ==
  ASSUME Base, [Next]_vars
  PROVE  [L!Next]_(L!vars) /\ (tracked \subseteq FileIDs)'
<1> USE DEF L!vars, L!limiterVars, limiterVars
<1>0. ClientOf \in [FileIDs -> IPs]
  BY ServerAssumption
<1>1. ASSUME NEW f \in FileIDs,
             \/ \E size \in Sizes : HandleUploadInit(f, size)
             \/ HandleUploadStream(f) \/ VerifyUpload(f) \/ CompleteUpload(f)
             \/ CreateInvoice(f) \/ HandleGetInvoice(f)
      PROVE  UNCHANGED <<now, limiterVars>>
  <2> USE DEF OfFiles, OfPayments, Files!tables, Payments!tables
  <2>1. ASSUME NEW size \in Sizes, HandleUploadInit(f, size) PROVE UNCHANGED <<now, limiterVars>>
    BY <2>1 DEF HandleUploadInit, Files!InitUpload
  <2>2. ASSUME HandleUploadStream(f) \/ VerifyUpload(f) PROVE UNCHANGED <<now, limiterVars>>
    BY <2>2 DEF HandleUploadStream, VerifyUpload, Files!BeginPut, Files!FinishPut, Files!AbortPut,
       Files!StatUpload, Files!SaveUploadFails
  <2>3. ASSUME CompleteUpload(f) PROVE UNCHANGED <<now, limiterVars>>
    BY <2>3 DEF CompleteUpload, Files!SaveUpload
  <2>4. ASSUME CreateInvoice(f) \/ HandleGetInvoice(f) PROVE UNCHANGED <<now, limiterVars>>
    BY <2>4 DEF CreateInvoice, HandleGetInvoice, Payments!WalletCreates, Payments!WalletRefuses,
       Payments!PersistInvoice, Payments!RegisterInvoice, Payments!GetInvoiceForFile
  <2> QED BY <1>1, <2>1, <2>2, <2>3, <2>4
<1>2. ASSUME NEW f \in FileIDs, TrackFile(f)
      PROVE  L!Uploaded(ClientOf[f], f) /\ ClientOf[f] \in IPs /\ tracked' = tracked \cup {f}
  BY <1>0, <1>2 DEF TrackFile, tableVars, L!Uploaded, Limiter!TrackPendingFile, L!TrackPendingFile,
     Limiter!MapPut, L!MapPut, Limiter!FilesOf, L!FilesOf, Limiter!EmptyMap, L!EmptyMap
<1>3. ASSUME NEW f \in FileIDs, Respond(f)
      PROVE  UNCHANGED <<now, pendingByIP, fileToIP>> /\ tracked' \subseteq tracked
  BY <1>3 DEF Respond, Payments!Respond, Payments!tables
<1>4. ASSUME PaymentStep \/ Restart
      PROVE  UNCHANGED <<now, limiterVars>>
  BY <1>4 DEF PaymentStep, Restart, OfPayments, Payments!Settle, Payments!HandleWebhook,
     Payments!TakeUpdate, Payments!Unpersist, Payments!MarkPaid, Payments!Restart, Payments!tables
<1>5. ASSUME NotifyLimiter
      PROVE  L!Paid(watcher.file) /\ watcher.file \in FileIDs /\ tracked' = tracked
  <2>1. watcher.file \in FileIDs
    BY <1>5, P!StateFields, Assumptions DEF NotifyLimiter, Payments!Notify, Base, P!Base
  <2> QED
    BY <1>5, <2>1 DEF NotifyLimiter, Payments!Notify, Payments!tables, L!Paid, Limiter!OnPaymentReceived, L!OnPaymentReceived,
       Limiter!limiterVars, Limiter!MapDelete, L!MapDelete, Limiter!WithoutEmpty, L!WithoutEmpty
<1>6. ASSUME SweepFiles PROVE UNCHANGED <<now, limiterVars>>
  BY <1>6 DEF SweepFiles, OfFiles, Files!ListForSweep, Files!SweepBlob, Files!SweepRow
<1>7. ASSUME SweepLimiter PROVE L!Swept /\ tracked' = tracked
  BY <1>7 DEF SweepLimiter, Files!EndSweep, Files!tables, L!Swept, Limiter!CleanupExpired, L!CleanupExpired,
     Limiter!WithoutEmpty, L!WithoutEmpty, Limiter!Stale, L!Stale
<1>8. ASSUME Crash PROVE L!Restarted /\ tracked' = {}
  BY <1>8 DEF Crash, Payments!Crash, Payments!tables, L!Restarted, Limiter!NewPendingFileLimiter, L!NewPendingFileLimiter,
     Limiter!EmptyMap, L!EmptyMap
<1>9. ASSUME TimePasses PROVE L!TimePasses /\ tracked' = tracked
  BY <1>9 DEF TimePasses, L!TimePasses, Tick, L!Tick
<1>10. UNCHANGED vars => UNCHANGED <<now, limiterVars>>
  BY DEF vars, tableVars
<1>11. tracked \subseteq FileIDs
  BY DEF Base
<1>12. ASSUME NEW f \in FileIDs,
              \/ \E size \in Sizes : HandleUploadInit(f, size)
              \/ HandleUploadStream(f) \/ VerifyUpload(f) \/ CompleteUpload(f)
              \/ CreateInvoice(f) \/ TrackFile(f) \/ Respond(f)
              \/ HandleGetInvoice(f)
       PROVE  [L!Next]_(L!vars) /\ (tracked \subseteq FileIDs)'
  BY <1>1, <1>2, <1>3, <1>11, <1>12 DEF L!Next
<1>13. ASSUME NotifyLimiter \/ SweepLimiter \/ Crash \/ TimePasses
       PROVE  L!Next /\ (tracked \subseteq FileIDs)'
  BY <1>5, <1>7, <1>8, <1>9, <1>11, <1>13 DEF L!Next
<1>14. ASSUME UNCHANGED <<now, limiterVars>>
       PROVE  [L!Next]_(L!vars) /\ (tracked \subseteq FileIDs)'
  BY <1>11, <1>14
<1> HIDE DEF L!vars, L!limiterVars, limiterVars
<1> QED BY <1>4, <1>6, <1>10, <1>12, <1>13, <1>14 DEF Next

-----------------------------------------------------------------------------
(***************************************************************************)
(* All of it together                                                      *)
(***************************************************************************)

\* What keeps what the components say: a step of the payment service, of the limiter,
\* and of the file service, or none of the latter's business.
LEMMA BaseKept ==
  ASSUME Base, [P!Next]_(P!vars), [L!Next]_(L!vars), (tracked \subseteq FileIDs)',
         \/ [F!Next]_(F!vars)
         \/ UNCHANGED <<fileVars, crashes>> /\ DOMAIN files' = DOMAIN files
  PROVE  Base'
<1>1. P!Base'
  BY P!BaseStep, Assumptions DEF Base
<1>2. L!Sound' /\ (tracked \subseteq FileIDs)'
  BY L!SoundStep, Assumptions DEF Base
<1>3. CASE [F!Next]_(F!vars)
  BY <1>1, <1>2, <1>3, F!BaseStep, Assumptions DEF Base
<1>4. CASE UNCHANGED <<fileVars, crashes>> /\ DOMAIN files' = DOMAIN files
  <2>1. F!TypeOK'
    BY <1>1, <1>4
       DEF Base, P!Base, P!TypeOK, P!StoreTypeOK, P!IsMap, P!FileMeta, F!Base, F!TypeOK, F!StoreTypeOK,
           F!IsMap, F!FileMeta, fileVars
  <2>2. F!UploadsAgree' /\ F!StrictAgrees' /\ F!SweptHasRow'
    BY <1>4 DEF Base, F!Base, F!UploadsAgree, F!StrictAgrees, F!SweptHasRow, F!Swept, F!InOrder, fileVars
  <2> QED BY <1>1, <1>2, <2>1, <2>2 DEF Base, F!Base
<1> QED BY <1>3, <1>4

\* Every step keeps what the components say, in each one's own terms.
LEMMA BaseStep == Base /\ [Next]_vars => Base'
BY BaseKept, PaymentsStep, LimiterStep, FilesStep

\* The initial states of the components are the server's.
LEMMA BaseInit == Init => Base
<1> SUFFICES ASSUME Init PROVE Base
  OBVIOUS
<1>1. P!Init
  BY DEF Init, Payments!Init, P!Init, Payments!ClockInit, P!ClockInit, Payments!StoreInit, P!StoreInit,
     Payments!EmptyMap, P!EmptyMap, Payments!Receiving, P!Receiving, Payments!NoCalls, P!NoCalls,
     Payments!Idle, P!Idle
<1>2. F!Init
  BY DEF Init, Files!Init, F!Init, Files!ClockInit, F!ClockInit, Files!StoreInit, F!StoreInit,
     Files!EmptyMap, F!EmptyMap, Files!Unused, F!Unused, Files!Sleeping, F!Sleeping
<1>3. L!Init
  BY DEF Init, Limiter!Init, L!Init, Limiter!ClockInit, L!ClockInit, Limiter!LimiterInit, L!LimiterInit,
     Limiter!EmptyMap, L!EmptyMap
<1>4. tracked \subseteq FileIDs
  BY DEF Init
<1> QED BY <1>1, <1>2, <1>3, <1>4, P!BaseInit, F!BaseInit, L!SoundInit, Assumptions DEF Base

\* What the components' invariants say of the types is what the server's say.
LEMMA BaseTypes == Base => TypeOK
<1>1. P!TypeOK => Payments!TypeOK
  BY DEF P!TypeOK, Payments!TypeOK, P!StoreTypeOK, Payments!StoreTypeOK, P!IsMap, Payments!IsMap,
         P!FileMeta, Payments!FileMeta, P!WatcherState, Payments!WatcherState, P!Receiving, Payments!Receiving,
         P!InvoicingState, Payments!InvoicingState, P!Idle, Payments!Idle, P!WalletInvoice, Payments!WalletInvoice
<1>2. F!TypeOK => Files!TypeOK
  BY DEF F!TypeOK, Files!TypeOK, F!StoreTypeOK, Files!StoreTypeOK, F!IsMap, Files!IsMap,
         F!FileMeta, Files!FileMeta, F!UploadState, Files!UploadState, F!Unused, Files!Unused,
         F!Over, Files!Over, F!Loose, Files!Loose, F!SweepState, Files!SweepState, F!Sleeping, Files!Sleeping
<1>3. L!TypeOK => Limiter!TypeOK
  BY DEF L!TypeOK, Limiter!TypeOK, L!IsMap, Limiter!IsMap
<1> QED BY <1>1, <1>2, <1>3 DEF Base, TypeOK, P!Base, F!Base, L!Sound

\* Every variable of the composed server keeps its type, and all three components
\* agree on the ones they share.
THEOREM TypeCorrect == Spec => []TypeOK
BY BaseTypes, BaseInit, BaseStep, PTL DEF Spec

\* The payment service in the server behaves as PaymentService lets it: the upload
\* handlers, the sweep, the limiter and their failures keep to what that module
\* assumes of its surroundings.
THEOREM ServerRunsPayments == Spec => RunsPayments
<1>1. [P!Next]_(P!vars) => [Payments!Next]_(Payments!vars)
  BY DEF Payments!Next, P!Next, Payments!CompleteUpload, P!CompleteUpload,
         Payments!CallCreateInvoice, P!CallCreateInvoice, Payments!HandlerStep, P!HandlerStep,
         Payments!WalletCreates, P!WalletCreates, Payments!WalletRefuses, P!WalletRefuses,
         Payments!PersistInvoice, P!PersistInvoice, Payments!RegisterInvoice, P!RegisterInvoice,
         Payments!Respond, P!Respond, Payments!GetInvoiceForFile, P!GetInvoiceForFile,
         Payments!FileSwept, P!FileSwept, Payments!Settle, P!Settle, Payments!HandleWebhook,
         P!HandleWebhook, Payments!WatcherStep, P!WatcherStep, Payments!TakeUpdate, P!TakeUpdate,
         Payments!Unpersist, P!Unpersist, Payments!MarkPaid, P!MarkPaid, Payments!Notify,
         P!Notify, Payments!Crash, P!Crash, Payments!Restart, P!Restart,
         Payments!LoadPendingInvoices, P!LoadPendingInvoices, Payments!OtherCallFails,
         P!OtherCallFails, Payments!TimePasses, P!TimePasses, Payments!Tick, P!Tick,
         Payments!Goes, P!Goes, Payments!Idle, P!Idle, Payments!Receiving, P!Receiving,
         Payments!NoCalls, P!NoCalls, Payments!Send, P!Send, Payments!SaveFileMetadata,
         P!SaveFileMetadata, Payments!PendingMeta, P!PendingMeta, Payments!UpdatePaymentStatus,
         P!UpdatePaymentStatus, Payments!DeleteFileMetadata, P!DeleteFileMetadata,
         Payments!SavePendingInvoice, P!SavePendingInvoice, Payments!DeletePendingInvoice,
         P!DeletePendingInvoice, Payments!StoreFails, P!StoreFails, Payments!EmptyMap,
         P!EmptyMap, Payments!MapPut, P!MapPut, Payments!MapDelete, P!MapDelete, Payments!tables,
         P!tables, Payments!memory, P!memory, Payments!world, P!world, Payments!vars, P!vars
<1>2. Init => Payments!Init
  BY DEF Init
<1> QED BY <1>1, <1>2, BaseInit, BaseStep, PaymentsStep, PTL DEF Spec, RunsPayments, Payments!Spec

\* So its theorems are the server's; the one about money: nobody is hosted for free,
\* whatever uploads, sweeps, failures and crashes come in between.
THEOREM ServerHostsNobodyForFree == Spec => []Payments!PaidWasSettled
<1>1. Base /\ P!PaidWasSettled /\ [Next]_vars => P!PaidWasSettled'
  BY PaymentsStep, P!PaidStep, Assumptions DEF Base, P!Base
<1>2. Init => P!PaidWasSettled
  BY DEF Init, Files!Init, Files!StoreInit, Files!EmptyMap, P!PaidWasSettled
<1>3. P!PaidWasSettled => Payments!PaidWasSettled
  BY DEF P!PaidWasSettled, Payments!PaidWasSettled, P!Settled, Payments!Settled
<1> QED BY <1>1, <1>2, <1>3, BaseInit, BaseStep, PTL DEF Spec

\* What a restart can recover, the server keeps.
LEMMA RecoverableAlways == Spec => [](Base /\ P!Recoverable)
<1>1. Init => P!Recoverable
  BY DEF Init, Payments!Init, Payments!StoreInit, Payments!EmptyMap, Payments!NoCalls, Payments!Idle,
         Payments!Receiving, P!Recoverable, P!OfferedIsPersisted, P!PendingIsPersisted, P!CreditedIsGone, P!Offered
<1>2. Base /\ P!Recoverable /\ [Next]_vars => P!Recoverable'
  BY PaymentsStep, P!RecoverableStep, Assumptions DEF Base
<1> QED BY <1>1, <1>2, BaseInit, BaseStep, PTL DEF Spec

\* Until a statement fails, no crash of the whole server forgets an open invoice.
THEOREM ServerForgetsNoInvoice == Spec => []Payments!PendingIsPersisted
<1>1. P!Recoverable => Payments!PendingIsPersisted
  BY DEF P!Recoverable, P!PendingIsPersisted, Payments!PendingIsPersisted
<1> QED BY <1>1, RecoverableAlways, PTL

\* The contract, in the server's terms and in the component's.
LEMMA SameContract ==
  ASSUME [P!Contract!Next]_(P!Contract!contractVars)
  PROVE  [Payments!Contract!Next]_(Payments!Contract!contractVars)
BY DEF P!Contract!Next, Payments!Contract!Next, P!Contract!contractVars, Payments!Contract!contractVars,
       P!Contract!Upload, Payments!Contract!Upload, P!Contract!Remove, Payments!Contract!Remove,
       P!Contract!Issue, Payments!Contract!Issue, P!Contract!Pay, Payments!Contract!Pay,
       P!Contract!Credit, Payments!Contract!Credit, P!Contract!MapPut, Payments!Contract!MapPut,
       P!Contract!MapDelete, Payments!Contract!MapDelete

\* Until a statement fails, the whole server implements PaymentContract: with all its
\* uploads, sweeps, crashes and limits, a file becomes paid only by spending a settled
\* invoice that was made for it, once.
THEOREM ServerKeepsContract == Spec => Payments!KeepsContract
<1>1. Init => Payments!Contract!Init
  BY DEF Init, Payments!Init, Payments!StoreInit, Payments!EmptyMap, Payments!Contract!Init,
         Payments!Contract!EmptyMap
<1>2. ASSUME Base, P!Recoverable, [Next]_vars
      PROVE  [faults' = 0 => [Payments!Contract!Next]_(Payments!Contract!contractVars)]_(Payments!vars)
  BY <1>2, PaymentsStep, P!ContractStep, SameContract, Assumptions DEF Base
<1> QED BY <1>1, <1>2, RecoverableAlways, PTL DEF Spec, Payments!KeepsContract

\* Until a statement fails, one payment buys one hosting period in the whole server: a
\* row that stays changes only when a settlement of its file is used for the first time.
THEOREM ServerExtendsOnce == Spec => Payments!ExtensionIsEarned
<1>1. ASSUME Base, P!Recoverable, [Next]_vars
      PROVE  [faults' = 0 => \A f \in DOMAIN files \cap DOMAIN files' :
                files'[f] /= files[f] =>
                  \E h \in credited' \ credited : Payments!Settled(h) /\ wallet[h].file = f]_(Payments!vars)
  <2>1. [P!Next]_(P!vars)
    BY <1>1, PaymentsStep
  <2>2. ASSUME faults' = 0, NEW f \in DOMAIN files \cap DOMAIN files', files'[f] /= files[f]
        PROVE  \E h \in credited' \ credited : Payments!Settled(h) /\ wallet[h].file = f
    <3>1. \E h \in credited' \ credited : P!Settled(h) /\ wallet[h].file = f
      BY <1>1, <2>1, <2>2, P!ExtensionStep, Assumptions DEF Base
    <3> QED BY <3>1 DEF P!Settled, Payments!Settled
  <2> QED BY <2>2
<1> QED BY <1>1, RecoverableAlways, PTL DEF Spec, Payments!ExtensionIsEarned

-----------------------------------------------------------------------------
(***************************************************************************)
(* A paid file is not pending, when nobody asks for invoices by ID         *)
(***************************************************************************)

\* The watcher is about to tell the limiter about f.
NotifyState(f) == watcher'.pc = "notify" /\ watcher'.file = f

\* What a step may do to one file: its upload stays over; only CompleteUpload begins
\* its invoicing; only Respond and HandleGetInvoice show its invoice, and Settle
\* pays it; only MarkPaid marks its row, and only TrackFile counts it.
Moves(f) ==
  /\ upload[f] = Files!Over => upload'[f] = Files!Over
  /\ \/ invoicing'[f] = Payments!Idle
     \/ invoicing[f] /= Payments!Idle /\ invoicing'[f].file = invoicing[f].file
     \/ /\ upload[f] /= Files!Over /\ upload'[f] = Files!Over /\ invoicing'[f].file = f
        /\ UNCHANGED <<wallet, shown>> /\ f \in DOMAIN files' /\ ~files'[f].paid
  /\ \A h \in DOMAIN wallet' : wallet'[h].file = f =>
       \/ /\ h \in DOMAIN wallet /\ wallet[h].file = f
          /\ wallet'[h].settled => wallet[h].settled \/ h \in shown
          /\ h \in shown' => h \in shown \/ invoicing'[f] = Payments!Idle
       \/ /\ ~wallet'[h].settled /\ h \notin shown'
          /\ invoicing[f] /= Payments!Idle /\ upload'[f] = upload[f]
  /\ f \in DOMAIN files' /\ files'[f].paid =>
       \/ f \in DOMAIN files /\ files[f].paid
       \/ /\ NotifyState(f) /\ UNCHANGED invoicing
          /\ \E h \in DOMAIN wallet : wallet[h].file = f /\ wallet[h].settled
  /\ f \in DOMAIN fileToIP' =>
       /\ \/ f \in DOMAIN fileToIP
          \/ UNCHANGED files /\ invoicing[f] /= Payments!Idle
       /\ watcher.pc = "notify" /\ watcher.file = f => NotifyState(f)

\* What the four invariants make of it.
Fit == CallsAgree /\ UploadingIsFree /\ UnansweredIsUnpaid /\ PaidIsNotPending

\* What each file's moves make of the invariants together.
LEMMA FitMoves == Fit /\ DOMAIN fileToIP' \subseteq FileIDs /\ (\A f \in FileIDs : Moves(f)) => Fit'
<1> SUFFICES ASSUME Fit, DOMAIN fileToIP' \subseteq FileIDs, \A f \in FileIDs : Moves(f) PROVE Fit'
  OBVIOUS
<1> USE DEF Fit
<1>1. CallsAgree'
  <2> SUFFICES ASSUME NEW f \in FileIDs, invoicing'[f] /= Payments!Idle
               PROVE  invoicing'[f].file = f /\ upload'[f] = Files!Over
    BY DEF CallsAgree, Payments!Idle, Files!Over
  <2> QED BY DEF Moves, CallsAgree
<1>2. UploadingIsFree'
  <2> SUFFICES ASSUME NEW f \in FileIDs, upload'[f] /= Files!Over, NEW h \in DOMAIN wallet', wallet'[h].file = f
               PROVE  FALSE
    BY DEF UploadingIsFree, Files!Over
  <2> QED BY DEF Moves, UploadingIsFree, CallsAgree
<1>3. UnansweredIsUnpaid'
  <2> SUFFICES ASSUME NEW f \in FileIDs, invoicing'[f] /= Payments!Idle
               PROVE  /\ f \in DOMAIN files' => ~files'[f].paid
                      /\ \A h \in DOMAIN wallet' : wallet'[h].file = f => h \notin shown' /\ ~wallet'[h].settled
    BY DEF UnansweredIsUnpaid, Payments!Idle, Row
  <2>1. CASE invoicing[f] /= Payments!Idle
    BY <2>1 DEF Moves, UnansweredIsUnpaid, Row
  <2>2. CASE invoicing[f] = Payments!Idle
    BY <2>2 DEF Moves, UploadingIsFree
  <2> QED BY <2>1, <2>2
<1>4. PaidIsNotPending'
  <2> SUFFICES ASSUME NEW f \in DOMAIN fileToIP', f \in DOMAIN files', files'[f].paid
               PROVE  NotifyState(f)
    BY DEF PaidIsNotPending, NotifyState, Row
  <2> QED BY DEF Moves, PaidIsNotPending, UnansweredIsUnpaid, Row
<1> QED BY <1>1, <1>2, <1>3, <1>4

\* Most steps do little of this.
LEMMA Quiet ==
  ASSUME NEW f \in FileIDs, UNCHANGED <<wallet, shown>>,
         upload[f] = Files!Over => upload'[f] = Files!Over,
         \/ invoicing'[f] = Payments!Idle
         \/ invoicing[f] /= Payments!Idle /\ invoicing'[f].file = invoicing[f].file,
         f \in DOMAIN files' /\ files'[f].paid => f \in DOMAIN files /\ files[f].paid,
         f \in DOMAIN fileToIP' => f \in DOMAIN fileToIP,
         f \in DOMAIN fileToIP' /\ watcher.pc = "notify" /\ watcher.file = f => NotifyState(f)
  PROVE  Moves(f)
<1>1. \A h \in DOMAIN wallet' : wallet'[h].file = f =>
        /\ h \in DOMAIN wallet /\ wallet[h].file = f
        /\ wallet'[h].settled => wallet[h].settled \/ h \in shown
        /\ h \in shown' => h \in shown \/ invoicing'[f] = Payments!Idle
  OBVIOUS
<1> QED BY <1>1, Zenon DEF Moves

\* The states of an upload and of a handler's call.
LEMMA Fields ==
  ASSUME Base
  PROVE  /\ DOMAIN upload = FileIDs /\ DOMAIN invoicing = FileIDs
         /\ upload = [g \in FileIDs |-> upload[g]] /\ invoicing = [g \in FileIDs |-> invoicing[g]]
         /\ \A f \in FileIDs : upload[f].pc = "over" <=> upload[f] = Files!Over
         /\ \A f \in FileIDs : invoicing[f].pc = "idle" <=> invoicing[f] = Payments!Idle
<1>1. upload \in [FileIDs -> F!UploadState] /\ invoicing \in [FileIDs -> P!InvoicingState]
  BY DEF Base, F!Base, F!TypeOK, P!Base, P!TypeOK
<1>2. \A f \in FileIDs : upload[f].pc = "over" <=> upload[f] = Files!Over
  BY <1>1, F!UploadFields, Assumptions DEF F!Over, Files!Over
<1>3. \A f \in FileIDs : invoicing[f].pc = "idle" <=> invoicing[f] = Payments!Idle
  BY P!StateFields, Assumptions DEF Base, P!Base, P!Idle, Payments!Idle
<1> QED BY <1>1, <1>2, <1>3

\* The steps of the upload handlers.
LEMMA UploadMoves ==
  ASSUME Base, NEW f \in FileIDs, NEW g \in FileIDs,
         \/ \E size \in Sizes : HandleUploadInit(g, size)
         \/ HandleUploadStream(g) \/ VerifyUpload(g) \/ CompleteUpload(g)
  PROVE  Moves(f)
<1> USE Fields DEF OfFiles, paymentVars, limiterVars, Files!Goes, NotifyState
<1>1. ASSUME NEW size \in Sizes, HandleUploadInit(g, size) PROVE Moves(f)
  <2>1. UNCHANGED files /\ upload[g].pc = "unused" /\ \A i \in FileIDs : i /= g => upload'[i] = upload[i]
    BY <1>1 DEF HandleUploadInit, Files!InitUpload, Files!tables, Files!Unused
  <2> QED BY <1>1, <2>1, Quiet DEF HandleUploadInit
<1>2. ASSUME HandleUploadStream(g) PROVE Moves(f)
  <2>1. UNCHANGED files /\ upload[g].pc \in {"issued", "putting"} /\ \A i \in FileIDs : i /= g => upload'[i] = upload[i]
    <3>1. CASE Files!BeginPut(g)
      BY <3>1 DEF Files!BeginPut, Files!tables
    <3>2. CASE Files!FinishPut(g)
      BY <3>2 DEF Files!FinishPut, Files!tables
    <3>3. CASE Files!AbortPut(g)
      BY <3>3 DEF Files!AbortPut, Files!Fallback, Files!tables
    <3> QED BY <1>2, <3>1, <3>2, <3>3 DEF HandleUploadStream
  <2> QED BY <1>2, <2>1, Quiet DEF HandleUploadStream
<1>3. ASSUME VerifyUpload(g) PROVE Moves(f)
  <2>1. UNCHANGED files /\ upload[g].pc \in {"issued", "stored", "save"} /\ \A i \in FileIDs : i /= g => upload'[i] = upload[i]
    BY <1>3 DEF VerifyUpload, Files!StatUpload, Files!SaveUploadFails, Files!Fallback
  <2> QED BY <1>3, <2>1, Quiet DEF VerifyUpload
<1>4. ASSUME CompleteUpload(g) PROVE Moves(f)
  <2>1. /\ upload[g].pc = "save" /\ upload'[g] = Files!Over
        /\ \A i \in FileIDs : i /= g => upload'[i] = upload[i] /\ invoicing'[i] = invoicing[i]
        /\ invoicing'[g].file = g
        /\ UNCHANGED <<wallet, shown, watcher, fileToIP>>
    BY <1>4 DEF CompleteUpload, Files!SaveUpload, Payments!CallCreateInvoice
  <2>2. /\ DOMAIN files' = DOMAIN files \cup {g} /\ ~files'[g].paid
        /\ \A i \in DOMAIN files : i /= g => files'[i] = files[i]
    BY <1>4 DEF CompleteUpload, Files!SaveUpload, Files!SaveFileMetadata, Files!MapPut, Files!PendingMeta
  <2>3. CASE f /= g
    BY <2>1, <2>2, <2>3, Quiet
  <2>4. CASE f = g
    BY <2>1, <2>2, <2>4 DEF Moves
  <2> QED BY <2>3, <2>4
<1> QED BY <1>1, <1>2, <1>3, <1>4

\* The steps of the handlers that make and show invoices.
LEMMA InvoiceMoves ==
  ASSUME ~InvoiceByID, Base, NEW f \in FileIDs, NEW g \in FileIDs, CallsAgree,
         CreateInvoice(g) \/ TrackFile(g) \/ Respond(g) \/ HandleGetInvoice(g)
  PROVE  Moves(f)
<1> USE Fields DEF OfPayments, fileVars, limiterVars, Payments!tables, NotifyState
<1>0. /\ invoicing[g] /= Payments!Idle => invoicing[g].file = g
      /\ shown \subseteq DOMAIN wallet
      /\ \A h \in DOMAIN pending : h \in DOMAIN wallet /\ wallet[h].file = pending[h]
      /\ \A i \in DOMAIN byFileID : byFileID[i] \in DOMAIN pending /\ pending[byFileID[i]] = i
  BY DEF CallsAgree, Base, P!Base, P!UnregisteredIsPrivate, P!ReferencesAgree, P!InvoiceIsFor, P!IndexAgrees
<1>1. ASSUME NEW h \in Hashes, Payments!WalletCreates(g, h), OfPayments PROVE Moves(f)
  <2>1. /\ invoicing[g] /= Payments!Idle /\ h \notin shown
        /\ UNCHANGED <<upload, files, shown, fileToIP, watcher>>
    BY <1>0, <1>1 DEF Payments!WalletCreates
  <2>2. /\ invoicing'[g].file = g
        /\ \A i \in FileIDs : i /= g => invoicing'[i] = invoicing[i]
    BY <1>0, <1>1, <2>1 DEF Payments!WalletCreates
  <2>3. \A k \in DOMAIN wallet' :
          \/ k \in DOMAIN wallet /\ wallet'[k] = wallet[k]
          \/ k = h /\ wallet'[k].file = g /\ ~wallet'[k].settled
    BY <1>0, <1>1, <2>1 DEF Payments!WalletCreates, Payments!MapPut
  <2>4. /\ \/ invoicing'[f] = Payments!Idle
           \/ invoicing[f] /= Payments!Idle /\ invoicing'[f].file = invoicing[f].file
        /\ invoicing[f] /= Payments!Idle \/ f /= g
    BY <1>0, <2>1, <2>2
  <2> QED BY <2>1, <2>3, <2>4 DEF Moves
<1>2. ASSUME OfPayments,
             Payments!WalletRefuses(g) \/ Payments!PersistInvoice(g) \/ Payments!RegisterInvoice(g)
      PROVE  Moves(f)
  <2>1. UNCHANGED <<upload, files, wallet, shown, fileToIP, watcher>>
    BY <1>2 DEF Payments!WalletRefuses, Payments!PersistInvoice, Payments!RegisterInvoice, Payments!world
  <2>2. \/ invoicing'[f] = Payments!Idle
        \/ invoicing[f] /= Payments!Idle /\ invoicing'[f].file = invoicing[f].file
    BY <1>2 DEF Payments!WalletRefuses, Payments!PersistInvoice, Payments!RegisterInvoice, Payments!Goes
  <2> QED BY <2>1, <2>2, Quiet
<1>3. ASSUME TrackFile(g) PROVE Moves(f)
  <2>1. /\ UNCHANGED <<upload, files, wallet, shown, watcher, invoicing>>
        /\ f \in DOMAIN fileToIP' => f \in DOMAIN fileToIP \/ f = g
        /\ invoicing[g] /= Payments!Idle
    BY <1>3 DEF TrackFile, tableVars, paymentVars, Limiter!TrackPendingFile, Limiter!MapPut
  <2> QED BY <2>1 DEF Moves
<1>4. ASSUME Respond(g) PROVE Moves(f)
  <2>1. /\ UNCHANGED <<upload, files, wallet, fileToIP, watcher>>
        /\ shown' = shown \cup {invoicing[g].hash} /\ invoicing'[g] = Payments!Idle
        /\ invoicing[g].pc = "respond"
        /\ \A i \in FileIDs : i /= g => invoicing'[i] = invoicing[i]
    BY <1>4 DEF Respond, Payments!Respond
  <2>2. wallet[invoicing[g].hash].file = g
    BY <1>0, <2>1 DEF Base, P!Base, P!ReferencesAgree, P!HasInvoice, P!InvoiceIsFor
  <2> QED BY <2>1, <2>2 DEF Moves
<1>5. ASSUME HandleGetInvoice(g) PROVE Moves(f)
  <2>1. /\ UNCHANGED <<upload, files, wallet, fileToIP, watcher, invoicing>>
        /\ g \in DOMAIN byFileID /\ shown' = shown \cup {byFileID[g]}
        /\ invoicing[g] = Payments!Idle
    BY <1>5 DEF HandleGetInvoice, Payments!GetInvoiceForFile, Payments!memory
  <2>2. wallet[byFileID[g]].file = g
    BY <1>0, <2>1
  <2> QED BY <2>1, <2>2 DEF Moves
<1> QED BY <1>1, <1>2, <1>3, <1>4, <1>5 DEF CreateInvoice

\* Payments, the watcher and its callback.
LEMMA PaymentMoves ==
  ASSUME Base, NEW f \in FileIDs, PaymentStep \/ NotifyLimiter
  PROVE  Moves(f)
<1> USE DEF OfPayments, fileVars, limiterVars, Payments!tables, NotifyState
<1>1. ASSUME NEW h \in Hashes, Payments!Settle(h), OfPayments PROVE Moves(f)
  <2>1. /\ UNCHANGED <<upload, files, shown, fileToIP, watcher, invoicing>>
        /\ h \in shown /\ DOMAIN wallet' = DOMAIN wallet
        /\ \A k \in DOMAIN wallet : wallet'[k].file = wallet[k].file /\ (k /= h => wallet'[k] = wallet[k])
    BY <1>1 DEF Payments!Settle, Payments!memory
  <2> QED BY <2>1, Fields DEF Moves
<1>2. ASSUME OfPayments,
             (\E h \in Hashes : Payments!HandleWebhook(h)) \/ Payments!TakeUpdate \/ Payments!Unpersist
      PROVE  Moves(f)
  <2>1. /\ UNCHANGED <<upload, files, wallet, shown, fileToIP, invoicing>>
        /\ UNCHANGED watcher \/ watcher.pc /= "notify"
    BY <1>2 DEF Payments!HandleWebhook, Payments!TakeUpdate, Payments!Unpersist, Payments!world,
       Payments!Receiving
  <2> QED BY <2>1, Fields, Quiet
<1>3. ASSUME Payments!MarkPaid, OfPayments PROVE Moves(f)
  <2>1. /\ UNCHANGED <<upload, wallet, shown, fileToIP, invoicing>>
        /\ watcher.pc = "mark" /\ NotifyState(watcher.file)
        /\ \A i \in DOMAIN files' : i \in DOMAIN files /\ (i /= watcher.file => files'[i] = files[i])
    BY <1>3 DEF Payments!MarkPaid, Payments!UpdatePaymentStatus, Payments!world
  <2>2. watcher.hash \in DOMAIN wallet /\ wallet[watcher.hash].settled /\ wallet[watcher.hash].file = watcher.file
    BY <2>1 DEF Base, P!Base, P!ReferencesAgree, P!Settled, P!InvoiceIsFor
  <2>3. CASE f = watcher.file
    BY <2>1, <2>2, <2>3, Fields DEF Moves
  <2>4. CASE f /= watcher.file
    BY <2>1, <2>4, Fields, Quiet
  <2> QED BY <2>3, <2>4
<1>4. ASSUME NotifyLimiter PROVE Moves(f)
  <2>1. UNCHANGED <<upload, files, wallet, shown, invoicing>>
    BY <1>4 DEF NotifyLimiter, Payments!Notify, Payments!world
  <2>2. f \in DOMAIN fileToIP' => f \in DOMAIN fileToIP /\ f /= watcher.file
    BY <1>4 DEF NotifyLimiter, Limiter!OnPaymentReceived, Limiter!limiterVars, Limiter!MapDelete
  <2> QED BY <2>1, <2>2, Fields, Quiet
<1> QED BY <1>1, <1>2, <1>3, <1>4 DEF PaymentStep

\* Cleanup, stopping, starting and time.
LEMMA OtherMoves ==
  ASSUME Base, NEW f \in FileIDs,
         SweepFiles \/ SweepLimiter \/ Crash \/ Restart \/ TimePasses \/ UNCHANGED vars
  PROVE  Moves(f)
<1> USE DEF fileVars, limiterVars, paymentVars, NotifyState
<1>1. ASSUME SweepFiles PROVE Moves(f)
  <2>1. UNCHANGED <<upload, wallet, shown, fileToIP, watcher, invoicing>>
    BY <1>1 DEF SweepFiles, OfFiles, Files!ListForSweep, Files!SweepBlob, Files!SweepRow
  <2>2. f \in DOMAIN files' => f \in DOMAIN files /\ files'[f] = files[f]
    BY <1>1 DEF SweepFiles, Files!ListForSweep, Files!SweepBlob, Files!SweepRow,
       Files!DeleteFileMetadata, Files!MapDelete
  <2> QED BY <2>1, <2>2, Fields, Quiet
<1>2. ASSUME SweepLimiter PROVE Moves(f)
  <2>1. UNCHANGED <<upload, files, wallet, shown, watcher, invoicing>>
    BY <1>2 DEF SweepLimiter, Files!EndSweep, Files!tables
  <2>2. f \in DOMAIN fileToIP' => f \in DOMAIN fileToIP
    BY <1>2 DEF SweepLimiter, Limiter!CleanupExpired
  <2> QED BY <2>1, <2>2, Fields, Quiet
<1>3. ASSUME Crash PROVE Moves(f)
  <2>1. UNCHANGED <<files, wallet, shown>> /\ invoicing'[f] = Payments!Idle
    BY <1>3 DEF Crash, Payments!Crash, Payments!tables, Payments!world, Payments!NoCalls
  <2>2. f \notin DOMAIN fileToIP' /\ (upload[f] = Files!Over => upload'[f] = Files!Over)
    BY <1>3 DEF Crash, Limiter!NewPendingFileLimiter, Limiter!EmptyMap, Files!Crash, Files!CutOff, Files!Over
  <2> QED BY <2>1, <2>2, Quiet
<1>4. ASSUME Restart \/ TimePasses \/ UNCHANGED vars PROVE Moves(f)
  <2>1. UNCHANGED <<upload, files, wallet, shown, fileToIP, watcher, invoicing>>
    BY <1>4 DEF Restart, Payments!Restart, Payments!world, OfPayments, TimePasses, vars, tableVars
  <2> QED BY <2>1, Fields, Quiet
<1> QED BY <1>1, <1>2, <1>3, <1>4

\* The step of the four invariants, and their beginning.
LEMMA FitStep == ASSUME ~InvoiceByID, Base, Fit, [Next]_vars PROVE Fit'
<1>1. ASSUME NEW f \in FileIDs PROVE Moves(f)
  BY UploadMoves, InvoiceMoves, PaymentMoves, OtherMoves DEF Next, Fit
<1>2. DOMAIN fileToIP' \subseteq FileIDs
  BY BaseStep DEF Base, L!Sound, L!TypeOK, L!IsMap
<1> QED BY <1>1, <1>2, FitMoves

\* At the start there is nothing to agree about.
LEMMA FitInit == Init => Fit
BY DEF Init, Fit, Payments!Init, Limiter!Init, Payments!NoCalls, Payments!EmptyMap, Limiter!LimiterInit,
   Limiter!EmptyMap, CallsAgree, UploadingIsFree, UnansweredIsUnpaid, PaidIsNotPending

\* A file that is paid for stops counting against its client, for any clients,
\* files, failures and crashes, as long as nobody asks for an invoice by ID before
\* the handler has answered.
THEOREM PaidStopsCounting == ASSUME ~InvoiceByID PROVE Spec => []PaidIsNotPending
<1>1. Fit => PaidIsNotPending
  BY DEF Fit
<1> QED BY <1>1, FitInit, FitStep, BaseInit, BaseStep, PTL DEF Spec

-----------------------------------------------------------------------------
(***************************************************************************)
(* An unpaid file counts, as long as the process does not restart          *)
(***************************************************************************)

\* The entry of f in the bucket of its client is there, made at time t.
Entry(f, t) == f \in DOMAIN Limiter!FilesOf(ClientOf[f]) /\ Limiter!FilesOf(ClientOf[f])[f] = t

\* The handler of f is not between its call and TrackPendingFile.
Settling(f) == f \in tracked \/ invoicing[f] = Payments!Idle

\* What a step makes of one file: TrackFile counts it while it has a handler; the
\* watcher forgets it before it is busy with it; a new row has a handler that has
\* not tracked it; and an entry goes only when it is stale.
Counts(f) ==
  /\ f \in tracked' => invoicing'[f].pc = "respond"
  /\ invoicing'[f].pc = "wallet" => \A h \in DOMAIN wallet' : wallet'[h].file /= f
  /\ f \in DOMAIN files' /\ ~files'[f].paid =>
       \/ f \in DOMAIN files /\ files'[f] = files[f] /\ now <= now'
       \/ files'[f].expiresAt = now' + PendingTimeout /\ invoicing'[f].pc = "wallet"
  /\ crashes' = 0 =>
       /\ watcher'.pc /= "receive" /\ watcher'.file = f => f \notin DOMAIN byFileID'
       /\ f \in DOMAIN byFileID' /\ Settling(f)' =>
            \/ Entry(f, now)'
            \/ /\ f \in DOMAIN byFileID /\ Settling(f)
               /\ \A t \in Nat : Entry(f, t) => Entry(f, t)' \/ t + PendingTimeout < now'

\* What the four invariants make of it.
Counted == TrackedIsInvoiced /\ TakenIsForgotten /\ RowsExpireSoon /\ CountedInTime

\* In its first life, the process has not stopped before the step either.
LEMMA FirstLife ==
  ASSUME Base, Counted, [Next]_vars, crashes' = 0 PROVE crashes = 0 /\ up /\ up'
<1>1. [P!Next]_(P!vars) /\ crashes \in Nat
  BY PaymentsStep, ServerAssumption DEF Base, P!Base, P!TypeOK
<1>2. ~P!Crash
  BY <1>1 DEF P!Crash
<1>3. crashes = 0 /\ (UNCHANGED up \/ up')
  BY <1>1, <1>2 DEF P!Next, P!CompleteUpload, P!HandlerStep, P!WalletCreates, P!WalletRefuses, P!PersistInvoice,
     P!RegisterInvoice, P!Respond, P!GetInvoiceForFile, P!FileSwept, P!Settle, P!HandleWebhook, P!WatcherStep,
     P!TakeUpdate, P!Unpersist, P!MarkPaid, P!Notify, P!Restart, P!OtherCallFails, P!TimePasses, P!vars, P!world
<1> QED BY <1>3 DEF Counted, TakenIsForgotten

\* What each file's moves make of the invariants together.
LEMMA CountedMoves ==
  ASSUME Base, Base', Counted, crashes' = 0 => crashes = 0 /\ up', \A f \in FileIDs : Counts(f)
  PROVE  Counted'
<1> USE DEF Counted
<1>0. /\ now \in Nat /\ now' \in Nat /\ PendingTimeout \in Nat
      /\ DOMAIN files' \subseteq FileIDs /\ tracked' \subseteq FileIDs /\ DOMAIN byFileID' \subseteq FileIDs
      /\ \A f \in DOMAIN files : files[f].expiresAt \in Nat /\ files[f].paid \in BOOLEAN
      /\ \A f \in DOMAIN files' : files'[f].expiresAt \in Nat
  BY StoreAssumption DEF Base, P!Base, P!TypeOK, P!StoreTypeOK, P!IsMap, P!FileMeta
<1>1. TrackedIsInvoiced'
  BY <1>0 DEF Counts, TrackedIsInvoiced
<1>2. TakenIsForgotten'
  <2> SUFFICES ASSUME crashes' = 0 PROVE up' /\ (watcher'.pc /= "receive" => watcher'.file \notin DOMAIN byFileID')
    BY DEF TakenIsForgotten
  <2>1. ASSUME watcher'.pc /= "receive", watcher'.file \in DOMAIN byFileID' PROVE FALSE
    BY <1>0, <2>1 DEF Counts
  <2> QED BY <2>1
<1>3. RowsExpireSoon'
  BY <1>0 DEF Counts, RowsExpireSoon
<1>4. CountedInTime'
  <2> SUFFICES ASSUME NEW f \in FileIDs, f \in DOMAIN files', f \in DOMAIN byFileID', crashes' = 0,
                      ~files'[f].paid, now' <= files'[f].expiresAt, Settling(f)'
               PROVE  \E t \in Nat : Entry(f, t)' /\ t + PendingTimeout >= files'[f].expiresAt
    BY <1>0 DEF CountedInTime, Settling, Entry, Payments!Idle
  <2>1. CASE Entry(f, now)'
    BY <1>0, <1>3, <2>1 DEF RowsExpireSoon, Entry
  <2>2. CASE ~Entry(f, now)'
    <3>1. /\ crashes = 0 /\ f \in DOMAIN byFileID /\ Settling(f)
          /\ \A t \in Nat : Entry(f, t) => Entry(f, t)' \/ t + PendingTimeout < now'
      BY <2>2 DEF Counts
    <3>2. f \in DOMAIN files /\ files'[f] = files[f] /\ now <= now'
      BY DEF Counts, Settling, Payments!Idle
    <3>3. f \in DOMAIN Limiter!FilesOf(ClientOf[f])
          /\ Limiter!FilesOf(ClientOf[f])[f] + PendingTimeout >= files[f].expiresAt
      BY <1>0, <3>1, <3>2 DEF CountedInTime, Settling
    <3>4. PICK t \in Nat : Entry(f, t)
      BY <3>3 DEF Entry, Base, L!Sound, L!TypeOK, L!IsMap, Limiter!FilesOf, Limiter!EmptyMap
    <3>5. Entry(f, t)' /\ t + PendingTimeout >= files'[f].expiresAt
      BY <1>0, <3>1, <3>2, <3>3, <3>4 DEF Entry
    <3> QED BY <3>5
  <2> QED BY <2>1, <2>2
<1> QED BY <1>1, <1>2, <1>3, <1>4

\* Most steps do little of this.
LEMMA QuietCounts ==
  ASSUME Base, Counted, NEW f \in FileIDs,
         now \in Nat /\ now' \in Nat /\ now <= now',
         crashes' = crashes,
         f \in tracked' => f \in tracked,
         Settling(f)' => Settling(f),
         invoicing'[f].pc \in {"wallet", "respond"} => invoicing'[f] = invoicing[f],
         f \in tracked' => invoicing'[f] = invoicing[f],
         \A h \in DOMAIN wallet' : wallet'[h].file = f => h \in DOMAIN wallet /\ wallet[h].file = f,
         f \in DOMAIN files' /\ ~files'[f].paid => f \in DOMAIN files /\ files'[f] = files[f],
         watcher'.pc /= "receive" /\ watcher'.file = f /\ f \in DOMAIN byFileID' =>
           watcher.pc /= "receive" /\ watcher.file = f,
         f \in DOMAIN byFileID' => f \in DOMAIN byFileID,
         \A t \in Nat : Entry(f, t) => Entry(f, t)' \/ t + PendingTimeout < now'
  PROVE  Counts(f)
<1>1. /\ f \in tracked' => invoicing'[f].pc = "respond"
      /\ invoicing'[f].pc = "wallet" => \A h \in DOMAIN wallet' : wallet'[h].file /= f
  BY DEF Counted, TrackedIsInvoiced
<1>2. crashes' = 0 /\ watcher'.pc /= "receive" /\ watcher'.file = f => f \notin DOMAIN byFileID'
  BY DEF Counted, TakenIsForgotten
<1> QED BY <1>1, <1>2 DEF Counts

\* What the components' invariants say where the invoices of one file are meant.
LEMMA Invoices ==
  ASSUME Base
  PROVE  /\ now \in Nat /\ PendingTimeout \in Nat
         /\ \A f \in DOMAIN byFileID : f \in FileIDs /\ byFileID[f] \in DOMAIN wallet /\ wallet[byFileID[f]].file = f
         /\ watcher.pc /= "receive" =>
              watcher.file \in FileIDs /\ wallet[watcher.hash].settled /\ wallet[watcher.hash].file = watcher.file
                /\ watcher.hash \in DOMAIN wallet
BY StoreAssumption, P!StateFields, Assumptions
   DEF Base, P!Base, P!TypeOK, P!StoreTypeOK, P!IsMap, P!ReferencesAgree, P!InvoiceIsFor, P!Settled, P!IndexAgrees

\* The steps of the upload handlers.
LEMMA UploadCounts ==
  ASSUME Base, Fit, Counted, NEW f \in FileIDs, NEW g \in FileIDs,
         \/ \E size \in Sizes : HandleUploadInit(g, size)
         \/ HandleUploadStream(g) \/ VerifyUpload(g) \/ CompleteUpload(g)
  PROVE  Counts(f)
<1> USE Fields, Invoices DEF OfFiles, paymentVars, limiterVars
<1>1. ASSUME (\E size \in Sizes : HandleUploadInit(g, size)) \/ HandleUploadStream(g) \/ VerifyUpload(g)
      PROVE  Counts(f)
  <2>1. UNCHANGED <<now, files, crashes, byFileID, watcher, invoicing, wallet, tracked, pendingByIP>>
    BY <1>1 DEF HandleUploadInit, HandleUploadStream, VerifyUpload, Files!InitUpload, Files!BeginPut,
       Files!FinishPut, Files!AbortPut, Files!StatUpload, Files!SaveUploadFails, Files!tables
  <2> QED BY <2>1, QuietCounts DEF Settling, Entry, Limiter!FilesOf
<1>2. ASSUME CompleteUpload(g) PROVE Counts(f)
  <2>1. /\ upload[g].pc = "save" /\ invoicing[g] = Payments!Idle
        /\ \A i \in FileIDs : i /= g => invoicing'[i] = invoicing[i]
        /\ invoicing'[g].pc = "wallet" /\ invoicing'[g] /= Payments!Idle
        /\ UNCHANGED <<now, crashes, byFileID, watcher, wallet, tracked, pendingByIP>>
    BY <1>2 DEF CompleteUpload, processVars, Files!SaveUpload, Payments!CallCreateInvoice, Payments!Idle
  <2>2. /\ DOMAIN files' = DOMAIN files \cup {g} /\ files'[g].expiresAt = now + PendingTimeout
        /\ \A i \in DOMAIN files : i /= g => files'[i] = files[i]
    BY <1>2 DEF CompleteUpload, Files!SaveUpload, Files!SaveFileMetadata, Files!MapPut, Files!PendingMeta
  <2>3. CASE f /= g
    BY <2>1, <2>2, <2>3, QuietCounts DEF Settling, Entry, Limiter!FilesOf
  <2>4. CASE f = g
    <3>1. f \notin tracked /\ \A h \in DOMAIN wallet : wallet[h].file /= f
      BY <2>1, <2>4 DEF Counted, TrackedIsInvoiced, Fit, UploadingIsFree, Payments!Idle
    <3> QED BY <2>1, <2>2, <2>4, <3>1 DEF Counts, Settling, Counted, TakenIsForgotten
  <2> QED BY <2>3, <2>4
<1> QED BY <1>1, <1>2

\* The steps of the handlers that make and show invoices.
LEMMA InvoiceCounts ==
  ASSUME Base, Fit, Counted, NEW f \in FileIDs, NEW g \in FileIDs,
         CreateInvoice(g) \/ TrackFile(g) \/ Respond(g) \/ HandleGetInvoice(g)
  PROVE  Counts(f)
<1> USE Fields, Invoices DEF OfPayments, processVars, fileVars, limiterVars, Payments!tables, Payments!world
<1>1. ASSUME CreateInvoice(g) PROVE Counts(f)
  <2> DEFINE OnlyOf ==
               /\ UNCHANGED <<now, files, crashes, watcher, tracked, pendingByIP>>
               /\ \A i \in FileIDs : i /= g => invoicing'[i] = invoicing[i]
               /\ f \in DOMAIN byFileID' => f \in DOMAIN byFileID \/ f = g
               /\ \A h \in DOMAIN wallet' : wallet'[h].file = f =>
                     (h \in DOMAIN wallet /\ wallet[h].file = f) \/ f = g
  <2>0. OnlyOf
    <3>1. invoicing[g] /= Payments!Idle => invoicing[g].file = g
      BY DEF Fit, CallsAgree
    <3>2. ASSUME NEW h \in Hashes, Payments!WalletCreates(g, h) PROVE OnlyOf
      <4>1. invoicing[g] /= Payments!Idle
        BY <3>2 DEF Payments!WalletCreates
      <4>2. \A k \in DOMAIN wallet' : (k \in DOMAIN wallet /\ wallet'[k] = wallet[k]) \/ wallet'[k].file = g
        BY <3>1, <3>2, <4>1 DEF Payments!WalletCreates, Payments!MapPut
      <4> QED BY <1>1, <3>2, <4>2 DEF CreateInvoice, Payments!WalletCreates
    <3>3. ASSUME Payments!WalletRefuses(g) \/ Payments!PersistInvoice(g) PROVE OnlyOf
      BY <1>1, <3>3 DEF CreateInvoice, Payments!WalletRefuses, Payments!PersistInvoice, Payments!Goes
    <3>4. ASSUME Payments!RegisterInvoice(g) PROVE OnlyOf
      BY <1>1, <3>1, <3>4 DEF CreateInvoice, Payments!RegisterInvoice, Payments!Goes, Payments!MapPut
    <3> QED BY <1>1, <3>2, <3>3, <3>4 DEF CreateInvoice
  <2>1. CASE f /= g
    BY <2>0, <2>1, QuietCounts DEF Settling, Entry, Limiter!FilesOf
  <2>2. ASSUME f = g, \E h \in Hashes : Payments!WalletCreates(g, h) PROVE Counts(f)
    <3>1. /\ invoicing[f].pc = "wallet" /\ invoicing'[f].pc = "persist" /\ UNCHANGED byFileID
          /\ invoicing'[f] /= Payments!Idle
      BY <2>2 DEF Payments!WalletCreates, Payments!Idle
    <3>2. f \notin tracked
      BY <3>1 DEF Counted, TrackedIsInvoiced
    <3> QED BY <2>0, <3>1, <3>2 DEF Counts, Settling, Counted, TakenIsForgotten
  <2>3. ASSUME f = g, Payments!WalletRefuses(g) PROVE Counts(f)
    <3>1. /\ invoicing[f].pc = "wallet" /\ invoicing'[f].pc = "idle" /\ UNCHANGED byFileID
      BY <2>3 DEF Payments!WalletRefuses, Payments!Idle
    <3>2. f \notin tracked /\ f \notin DOMAIN byFileID
      BY <3>1 DEF Counted, TrackedIsInvoiced
    <3> QED BY <2>0, <3>1, <3>2 DEF Counts, Settling
  <2>4. ASSUME f = g, Payments!PersistInvoice(g) PROVE Counts(f)
    <3>1. /\ invoicing[f].pc = "persist" /\ invoicing'[f].pc = "register" /\ UNCHANGED byFileID
          /\ invoicing'[f] /= Payments!Idle
      BY <2>4 DEF Payments!PersistInvoice, Payments!Goes, Payments!Idle
    <3>2. f \notin tracked
      BY <3>1 DEF Counted, TrackedIsInvoiced
    <3> QED BY <2>0, <3>1, <3>2 DEF Counts, Settling, Counted, TakenIsForgotten
  <2>5. ASSUME f = g, Payments!RegisterInvoice(g) PROVE Counts(f)
    <3>1. /\ invoicing[f].pc = "register" /\ invoicing'[f].pc = "respond" /\ UNCHANGED wallet
          /\ invoicing'[f] /= Payments!Idle /\ invoicing[f] /= Payments!Idle
      BY <2>5 DEF Payments!RegisterInvoice, Payments!Goes, Payments!Idle
    <3>2. f \notin tracked
      BY <3>1 DEF Counted, TrackedIsInvoiced
    <3>3. ~(watcher.pc /= "receive" /\ watcher.file = f)
      BY <3>1 DEF Fit, UnansweredIsUnpaid
    <3> QED BY <2>0, <3>1, <3>2, <3>3 DEF Counts, Settling
  <2> QED BY <1>1, <2>1, <2>2, <2>3, <2>4, <2>5 DEF CreateInvoice
<1>2. ASSUME TrackFile(g) PROVE Counts(f)
  <2>1. /\ UNCHANGED <<now, files, crashes, byFileID, watcher, invoicing, wallet>>
        /\ invoicing[g].pc = "respond" /\ tracked' = tracked \cup {g}
        /\ pendingByIP' = Limiter!MapPut(pendingByIP, ClientOf[g],
                            Limiter!MapPut(Limiter!FilesOf(ClientOf[g]), g, now))
    BY <1>2 DEF TrackFile, tableVars, paymentVars, Limiter!TrackPendingFile
  <2>2. CASE f = g
    <3>1. Entry(f, now)'
      BY <2>1, <2>2 DEF Entry, Limiter!FilesOf, Limiter!MapPut
    <3> QED BY <2>1, <2>2, <3>1 DEF Counts, Counted, TrackedIsInvoiced, TakenIsForgotten
  <2>3. CASE f /= g
    <3>1. \A t \in Nat : Entry(f, t) => Entry(f, t)'
      BY <2>1, <2>3 DEF Entry, Limiter!FilesOf, Limiter!MapPut
    <3> QED BY <2>1, <2>3, <3>1, QuietCounts DEF Settling
  <2> QED BY <2>2, <2>3
<1>3. ASSUME Respond(g) PROVE Counts(f)
  <2>1. /\ UNCHANGED <<now, files, crashes, byFileID, watcher, wallet, pendingByIP>>
        /\ g \in tracked /\ tracked' = tracked \ {g} /\ invoicing'[g] = Payments!Idle
        /\ \A i \in FileIDs : i /= g => invoicing'[i] = invoicing[i]
    BY <1>3 DEF Respond, Payments!Respond
  <2> QED BY <2>1, QuietCounts DEF Settling, Entry, Limiter!FilesOf, Payments!Idle
<1>4. ASSUME HandleGetInvoice(g) PROVE Counts(f)
  <2>1. UNCHANGED <<now, files, crashes, byFileID, watcher, invoicing, wallet, tracked, pendingByIP>>
    BY <1>4 DEF HandleGetInvoice, Payments!GetInvoiceForFile, Payments!memory
  <2> QED BY <2>1, QuietCounts DEF Settling, Entry, Limiter!FilesOf
<1> QED BY <1>1, <1>2, <1>3, <1>4

\* Payments, the watcher and its callback.
LEMMA PaymentCounts ==
  ASSUME Base, Counted, NEW f \in FileIDs, PaymentStep \/ NotifyLimiter
  PROVE  Counts(f)
<1> USE Fields, Invoices DEF OfPayments, fileVars, limiterVars, Payments!tables
<1>1. ASSUME OfPayments, (\E h \in Hashes : Payments!Settle(h) \/ Payments!HandleWebhook(h))
      PROVE  Counts(f)
  <2>1. /\ UNCHANGED <<now, files, crashes, byFileID, watcher, invoicing, tracked, pendingByIP>>
        /\ \A k \in DOMAIN wallet' : k \in DOMAIN wallet /\ wallet'[k].file = wallet[k].file
    BY <1>1 DEF Payments!Settle, Payments!HandleWebhook, Payments!memory
  <2> QED BY <2>1, QuietCounts DEF Settling, Entry, Limiter!FilesOf
<1>2. ASSUME OfPayments, Payments!TakeUpdate PROVE Counts(f)
  <2>1. /\ UNCHANGED <<now, files, crashes, invoicing, wallet, tracked, pendingByIP>>
        /\ f \in DOMAIN byFileID' => f \in DOMAIN byFileID
        /\ watcher' = watcher \/ watcher'.file \notin DOMAIN byFileID'
    BY <1>2 DEF Payments!TakeUpdate, Payments!MapDelete, Payments!world
  <2> QED BY <2>1, QuietCounts DEF Settling, Entry, Limiter!FilesOf
<1>3. ASSUME OfPayments, Payments!Unpersist \/ Payments!MarkPaid PROVE Counts(f)
  <2>1. /\ UNCHANGED <<now, crashes, byFileID, invoicing, wallet, tracked, pendingByIP>>
        /\ watcher.pc /= "receive" /\ watcher'.file = watcher.file
        /\ f \in DOMAIN files' => f \in DOMAIN files /\ (files'[f] = files[f] \/ files'[f].paid)
    BY <1>3 DEF Payments!Unpersist, Payments!MarkPaid, Payments!UpdatePaymentStatus, Payments!world
  <2> QED BY <2>1, QuietCounts DEF Settling, Entry, Limiter!FilesOf
<1>4. ASSUME NotifyLimiter PROVE Counts(f)
  <2>1. /\ UNCHANGED <<now, files, crashes, byFileID, invoicing, wallet, tracked>>
        /\ watcher.pc = "notify" /\ watcher'.pc = "receive"
    BY <1>4 DEF NotifyLimiter, Payments!Notify, Payments!Receiving, Payments!world
  <2>2. CASE f = watcher.file
    BY <2>1, <2>2 DEF Counts, Counted, TrackedIsInvoiced, TakenIsForgotten
  <2>3. CASE f /= watcher.file
    <3>1. \A t \in Nat : Entry(f, t) => Entry(f, t)'
      <4> SUFFICES ASSUME NEW t \in Nat, Entry(f, t) PROVE Entry(f, t)'
        OBVIOUS
      <4> DEFINE client == ClientOf[f]
      <4>1. client \in DOMAIN pendingByIP /\ f \in DOMAIN pendingByIP[client] /\ pendingByIP[client][f] = t
        BY DEF Entry, Limiter!FilesOf, Limiter!EmptyMap
      <4>2. CASE UNCHANGED pendingByIP
        BY <4>1, <4>2 DEF Entry, Limiter!FilesOf
      <4>3. CASE ~UNCHANGED pendingByIP
        <5>1. pendingByIP' = Limiter!WithoutEmpty(
                [ip \in DOMAIN pendingByIP |->
                   IF ip = fileToIP[watcher.file] THEN Limiter!MapDelete(pendingByIP[ip], watcher.file)
                                                  ELSE pendingByIP[ip]])
          BY <1>4, <4>3 DEF NotifyLimiter, Limiter!OnPaymentReceived, Limiter!limiterVars
        <5> QED BY <2>3, <4>1, <5>1 DEF Limiter!WithoutEmpty, Limiter!MapDelete, Entry, Limiter!FilesOf
      <4> QED BY <4>2, <4>3
    <3> QED BY <2>1, <3>1, QuietCounts DEF Settling
  <2> QED BY <2>2, <2>3
<1> QED BY <1>1, <1>2, <1>3, <1>4 DEF PaymentStep

\* Cleanup, stopping, starting and time.
LEMMA OtherCounts ==
  ASSUME Base, Counted, NEW f \in FileIDs,
         SweepFiles \/ SweepLimiter \/ Crash \/ Restart \/ TimePasses \/ UNCHANGED vars
  PROVE  Counts(f)
<1> USE Fields, Invoices DEF fileVars, limiterVars, paymentVars, processVars
<1>1. ASSUME SweepFiles PROVE Counts(f)
  <2>1. UNCHANGED <<now, crashes, byFileID, watcher, invoicing, wallet, tracked, pendingByIP>>
    BY <1>1 DEF SweepFiles, OfFiles, Files!ListForSweep, Files!SweepBlob, Files!SweepRow
  <2>2. f \in DOMAIN files' => f \in DOMAIN files /\ files'[f] = files[f]
    <3>1. UNCHANGED files \/ Files!DeleteFileMetadata(sweep.file)
      BY <1>1 DEF SweepFiles, Files!ListForSweep, Files!SweepBlob, Files!SweepRow
    <3> QED BY <3>1 DEF Files!DeleteFileMetadata, Files!MapDelete
  <2> QED BY <2>1, <2>2, QuietCounts DEF Settling, Entry, Limiter!FilesOf
<1>2. ASSUME SweepLimiter PROVE Counts(f)
  <2>1. UNCHANGED <<now, files, crashes, byFileID, watcher, invoicing, wallet, tracked>>
    BY <1>2 DEF SweepLimiter, Files!EndSweep, Files!tables
  <2>2. \A t \in Nat : Entry(f, t) => Entry(f, t)' \/ t + PendingTimeout < now'
    <3> SUFFICES ASSUME NEW t \in Nat, Entry(f, t), ~(t + PendingTimeout < now) PROVE Entry(f, t)'
      BY <2>1
    <3>1. ClientOf[f] \in DOMAIN pendingByIP /\ f \in DOMAIN pendingByIP[ClientOf[f]]
          /\ pendingByIP[ClientOf[f]][f] = t
      BY DEF Entry, Limiter!FilesOf, Limiter!EmptyMap
    <3>2. f \notin Limiter!Stale(ClientOf[f])
      BY <3>1 DEF Limiter!Stale
    <3> QED BY <1>2, <3>1, <3>2 DEF SweepLimiter, Limiter!CleanupExpired, Limiter!WithoutEmpty, Entry, Limiter!FilesOf
  <2> QED BY <2>1, <2>2, QuietCounts DEF Settling
<1>3. ASSUME Crash PROVE Counts(f)
  <2>1. /\ UNCHANGED <<now, files, wallet>> /\ tracked' = {}
        /\ invoicing'[f].pc = "idle"
        /\ crashes' = crashes + 1
    BY <1>3 DEF Crash, Payments!Crash, Payments!tables, Payments!world, Payments!NoCalls, Payments!Idle
  <2>2. crashes' /= 0
    BY <2>1 DEF Base, P!Base, P!TypeOK
  <2> QED BY <2>1, <2>2 DEF Counts
<1>4. ASSUME Restart PROVE Counts(f)
  <2>1. UNCHANGED <<now, files, invoicing, wallet, tracked, crashes>> /\ ~up
    BY <1>4 DEF Restart, Payments!Restart, Payments!world, OfPayments
  <2> QED BY <2>1 DEF Counts, Counted, TrackedIsInvoiced, TakenIsForgotten
<1>5. ASSUME TimePasses \/ UNCHANGED vars PROVE Counts(f)
  <2>1. /\ UNCHANGED <<files, crashes, byFileID, watcher, invoicing, wallet, tracked, pendingByIP>>
        /\ now' \in Nat /\ now <= now'
    BY <1>5 DEF TimePasses, Tick, vars, tableVars
  <2> QED BY <2>1, QuietCounts DEF Settling, Entry, Limiter!FilesOf
<1> QED BY <1>1, <1>2, <1>3, <1>4, <1>5

\* Every step is one of these.
LEMMA AllCounts == ASSUME Base, Fit, Counted, [Next]_vars PROVE \A f \in FileIDs : Counts(f)
BY UploadCounts, InvoiceCounts, PaymentCounts, OtherCounts DEF Next

\* The step of the four invariants, and their beginning.
LEMMA CountedStep == Base /\ Fit /\ Counted /\ [Next]_vars => Counted'
BY AllCounts, BaseStep, FirstLife, CountedMoves

\* At the start nothing is counted.
LEMMA CountedInit == Init => Counted
BY DEF Init, Payments!Init, Payments!StoreInit, Payments!NoCalls, Payments!Idle, Payments!EmptyMap,
   Payments!Receiving, Counted, TrackedIsInvoiced, TakenIsForgotten, RowsExpireSoon, CountedInTime

\* The limiter counts every unpaid, unexpired file whose payment request was
\* answered, for any clients, files and failing statements, until the process stops.
THEOREM UnpaidKeepsCounting == ASSUME ~InvoiceByID PROVE Spec => []UnpaidIsCounted
<1>1. Base /\ Fit /\ Counted => UnpaidIsCounted
  <2> SUFFICES ASSUME Base, Fit, Counted, NEW f \in DOMAIN files \cap DOMAIN byFileID, crashes = 0,
                      ~files[f].paid, now <= files[f].expiresAt, byFileID[f] \in shown
               PROVE  f \in DOMAIN Limiter!FilesOf(ClientOf[f])
    BY DEF UnpaidIsCounted
  <2>1. invoicing[f] = Payments!Idle
    BY Invoices DEF Fit, UnansweredIsUnpaid
  <2> QED BY <2>1 DEF Counted, CountedInTime
<1> QED BY <1>1, CountedInit, CountedStep, FitStep, FitInit, BaseInit, BaseStep, PTL DEF Spec

-----------------------------------------------------------------------------
(***************************************************************************)
(* The file service in the server                                          *)
(***************************************************************************)

\* All that is known: what is proved above, that there is one invoice for each file, and
\* that whatever is pending can be shown.
Whole ==
  /\ Base /\ Fit /\ Counted
  /\ P!Recoverable
  /\ InvoicesAreUnique /\ PendingIsIndexed
  /\ now <= MaxTime

\* What a step makes of a file that has an invoice: no other is made for it, ...
LEMMA UniqueStep ==
  ASSUME Base, Fit, Counted, InvoicesAreUnique, [P!Next]_(P!vars) PROVE InvoicesAreUnique'
<1>1. ASSUME NEW q \in FileIDs, NEW h \in Hashes, P!WalletCreates(q, h) PROVE InvoicesAreUnique'
  <2>1. invoicing[q].file = q /\ \A k \in DOMAIN wallet : wallet[k].file /= q
    BY <1>1 DEF Fit, CallsAgree, Counted, TrackedIsInvoiced, P!WalletCreates, Payments!Idle
  <2>2. /\ DOMAIN wallet' = DOMAIN wallet \cup {h} /\ h \notin DOMAIN wallet
        /\ wallet'[h].file = q /\ \A k \in DOMAIN wallet : wallet'[k] = wallet[k]
    BY <1>1, <2>1 DEF P!WalletCreates, P!MapPut
  <2> QED BY <2>1, <2>2 DEF InvoicesAreUnique
<1>2. ASSUME NEW h \in Hashes, P!Settle(h) PROVE InvoicesAreUnique'
  <2>1. DOMAIN wallet' = DOMAIN wallet /\ \A k \in DOMAIN wallet : wallet'[k].file = wallet[k].file
    BY <1>2 DEF P!Settle
  <2> QED BY <2>1 DEF InvoicesAreUnique
<1>3. UNCHANGED wallet => InvoicesAreUnique'
  BY DEF InvoicesAreUnique
<1> QED
  BY <1>1, <1>2, <1>3, P!NextCases, Assumptions
     DEF P!CompleteUpload, P!WalletRefuses, P!PersistInvoice, P!RegisterInvoice, P!Respond,
         P!GetInvoiceForFile, P!FileSwept, P!HandleWebhook, P!TakeUpdate, P!Unpersist, P!MarkPaid, P!Notify,
         P!Crash, P!Restart, P!OtherCallFails, P!TimePasses, P!vars, P!world

\* ... so that the index loses it only with the map.
LEMMA IndexedStep ==
  ASSUME Base, InvoicesAreUnique, PendingIsIndexed, [P!Next]_(P!vars) PROVE PendingIsIndexed'
<1>1. ASSUME NEW q \in FileIDs, P!RegisterInvoice(q) PROVE PendingIsIndexed'
  BY <1>1 DEF P!RegisterInvoice, P!MapPut, PendingIsIndexed
<1>2. ASSUME P!TakeUpdate PROVE PendingIsIndexed'
  <2> DEFINE h == Head(updates)
  <2>1. CASE h \in DOMAIN pending
    <3>1. pending' = P!MapDelete(pending, h) /\ byFileID' = P!MapDelete(byFileID, pending[h])
      BY <1>2, <2>1 DEF P!TakeUpdate
    <3>2. \A k \in DOMAIN pending : k /= h => pending[k] /= pending[h]
      BY <2>1 DEF InvoicesAreUnique, Base, P!Base, P!ReferencesAgree, P!InvoiceIsFor
    <3> QED BY <2>1, <3>1, <3>2 DEF P!MapDelete, PendingIsIndexed
  <2>2. CASE h \notin DOMAIN pending
    BY <1>2, <2>2 DEF P!TakeUpdate, PendingIsIndexed
  <2> QED BY <2>1, <2>2
<1>3. ASSUME P!Crash PROVE PendingIsIndexed'
  BY <1>3 DEF P!Crash, P!EmptyMap, PendingIsIndexed
<1>4. ASSUME P!Restart PROVE PendingIsIndexed'
  BY <1>4 DEF P!Restart, P!LoadPendingInvoices, PendingIsIndexed
<1>5. UNCHANGED <<pending, byFileID>> => PendingIsIndexed'
  BY DEF PendingIsIndexed
<1> QED
  BY <1>1, <1>2, <1>3, <1>4, <1>5, P!NextCases, Assumptions
     DEF P!CompleteUpload, P!WalletCreates, P!WalletRefuses, P!PersistInvoice, P!Respond,
         P!GetInvoiceForFile, P!FileSwept, P!Settle, P!HandleWebhook, P!Unpersist, P!MarkPaid, P!Notify,
         P!OtherCallFails, P!TimePasses, P!vars, P!memory

\* Every step of the server keeps all that is known of it.
LEMMA WholeKept == ASSUME ~InvoiceByID, Whole, [Next]_vars PROVE Whole'
<1> USE DEF Whole
<1>1. [P!Next]_(P!vars)
  BY PaymentsStep
<1>2. InvoicesAreUnique' /\ PendingIsIndexed' /\ P!Recoverable'
  BY <1>1, UniqueStep, IndexedStep, P!RecoverableStep, Assumptions DEF Base
<1>3. now' <= MaxTime
  <2>1. [L!Next]_(L!vars)
    BY LimiterStep
  <2>2. now' = now \/ (now < MaxTime /\ now' = now + 1)
    BY <2>1 DEF L!Next, L!Uploaded, L!Paid, L!Swept, L!Restarted, L!TimePasses, L!Tick, L!vars
  <2> QED BY <2>2, ClockAssumption, Invoices
<1> QED BY <1>2, <1>3, BaseStep, FitStep, CountedStep

\* At the start there is nothing to know.
LEMMA WholeInit == Init => Whole
<1> SUFFICES ASSUME Init PROVE Whole
  OBVIOUS
<1>1. P!Recoverable
  BY DEF Init, Payments!Init, Payments!StoreInit, Payments!EmptyMap, Payments!NoCalls, Payments!Idle,
         Payments!Receiving, P!Recoverable, P!OfferedIsPersisted, P!PendingIsPersisted, P!CreditedIsGone, P!Offered
<1>2. InvoicesAreUnique /\ PendingIsIndexed /\ now <= MaxTime
  BY ClockAssumption
     DEF Init, Payments!Init, Payments!ClockInit, Payments!EmptyMap, InvoicesAreUnique, PendingIsIndexed
<1> QED BY <1>1, <1>2, BaseInit, FitInit, CountedInit DEF Whole

\* The row a payment is credited to is unpaid: its file has one invoice, and a credited
\* one is not taken again.
LEMMA CreditsUnpaid ==
  ASSUME Whole, P!PaidWasSettled, Payments!MarkPaid, faults = 0, watcher.file \in DOMAIN files
  PROVE  ~files[watcher.file].paid
<1> SUFFICES ASSUME files[watcher.file].paid PROVE FALSE
  OBVIOUS
<1>1. PICK h \in credited : P!Settled(h) /\ wallet[h].file = watcher.file
  BY DEF P!PaidWasSettled
<1>2. watcher.pc = "mark" /\ watcher.hash \in DOMAIN wallet /\ wallet[watcher.hash].file = watcher.file
  BY DEF Payments!MarkPaid, Whole, Base, P!Base, P!ReferencesAgree, P!InvoiceIsFor
<1>3. watcher.hash = h
  BY <1>1, <1>2 DEF P!Settled, Whole, InvoicesAreUnique
<1>4. watcher.hash \notin credited
  BY <1>2 DEF Whole, P!Recoverable, P!CreditedIsGone
<1> QED BY <1>3, <1>4

\* What the server does to rows, blobs, uploads and sweep, as long as no statement fails.
LEMMA RunsFilesStep ==
  ASSUME Whole, P!PaidWasSettled, [Next]_vars, faults' = 0
  PROVE  [Files!Next]_<<files, crashes, fileVars>>
<1> USE DEF F!tables, Files!tables
<1>01. ASSUME NEW f \in FileIDs, F!UploadStep(f) PROVE Files!UploadStep(f)
  <2> USE DEF F!Goes, Files!Goes, F!Fallback, Files!Fallback, F!Over, Files!Over, F!Loose, Files!Loose,
              F!StoreFails, Files!StoreFails, F!MapPut, Files!MapPut, F!PendingMeta, Files!PendingMeta,
              F!SaveFileMetadata, Files!SaveFileMetadata
  <2>1. \A size \in Sizes : F!InitUpload(f, size) => Files!InitUpload(f, size)
    BY DEF F!InitUpload, Files!InitUpload, F!Unused, Files!Unused
  <2>2. F!BeginPut(f) \/ F!FinishPut(f) \/ F!AbortPut(f) \/ F!Abandon(f)
          => Files!BeginPut(f) \/ Files!FinishPut(f) \/ Files!AbortPut(f) \/ Files!Abandon(f)
    BY DEF F!BeginPut, Files!BeginPut, F!FinishPut, Files!FinishPut, F!AbortPut, Files!AbortPut,
           F!Torn, Files!Torn, F!Abandon, Files!Abandon
  <2>3. F!StatUpload(f) \/ F!SaveUpload(f) \/ F!SaveUploadFails(f)
          => Files!StatUpload(f) \/ Files!SaveUpload(f) \/ Files!SaveUploadFails(f)
    BY DEF F!StatUpload, Files!StatUpload, F!SaveUpload, Files!SaveUpload,
           F!SaveUploadFails, Files!SaveUploadFails
  <2>4. F!LeaveOrder(f) => Files!LeaveOrder(f)
    BY DEF F!LeaveOrder, Files!LeaveOrder
  <2>5. F!PutAgain(f) \/ F!StatAgain(f) \/ F!SaveAgain(f)
          => Files!PutAgain(f) \/ Files!StatAgain(f) \/ Files!SaveAgain(f)
    BY DEF F!PutAgain, Files!PutAgain, F!StatAgain, Files!StatAgain, F!SaveAgain, Files!SaveAgain,
           F!InOrder, Files!InOrder
  <2> QED BY <1>01, <2>1, <2>2, <2>3, <2>4, <2>5
          DEF F!UploadStep, Files!UploadStep, F!LooseStep, Files!LooseStep
<1>02. ASSUME NEW f \in FileIDs, F!PaymentArrives(f) PROVE Files!PaymentArrives(f)
  BY <1>02 DEF F!PaymentArrives, Files!PaymentArrives, F!UpdatePaymentStatus, Files!UpdatePaymentStatus
<1>03. F!SweepStep => Files!SweepStep
  BY DEF F!SweepStep, Files!SweepStep, F!ListForSweep, Files!ListForSweep, F!SweepBlob, Files!SweepBlob,
         F!SweepRow, Files!SweepRow, F!EndSweep, Files!EndSweep, F!Sleeping, Files!Sleeping,
         F!StoreFails, Files!StoreFails, F!DeleteFileMetadata, Files!DeleteFileMetadata,
         F!ListExpiredFiles, Files!ListExpiredFiles, F!ReadsAs, Files!ReadsAs, F!MapDelete, Files!MapDelete
<1>04. F!Crash => Files!Crash
  BY DEF F!Crash, Files!Crash, F!CutOff, Files!CutOff, F!Sleeping, Files!Sleeping,
         F!Over, Files!Over, F!Loose, Files!Loose
<1>05. F!TimePasses => Files!TimePasses
  BY DEF F!TimePasses, Files!TimePasses, F!Tick, Files!Tick
<1>1. [F!Next]_(F!vars) => [Files!Next]_<<files, crashes, fileVars>>
  <2>1. UNCHANGED F!vars => UNCHANGED <<files, crashes, fileVars>>
    BY DEF F!vars, fileVars
  <2> QED BY <1>01, <1>02, <1>03, <1>04, <1>05, <2>1 DEF F!Next, Files!Next
<1>2. ASSUME UNCHANGED <<fileVars, crashes>>, Payments!MarkPaid, files' /= files
      PROVE  Files!Next
  <2>1. faults = 0
    <3>1. [P!Next]_(P!vars) /\ P!TypeOK
      BY PaymentsStep DEF Whole, Base, P!Base
    <3> QED BY <3>1, P!NoFaults, Assumptions
  <2>2. /\ watcher.file \in FileIDs /\ watcher.file \in DOMAIN files
        /\ Payments!UpdatePaymentStatus(watcher.file) /\ UNCHANGED <<now, invoices, faults>>
    <3>1. watcher.file \in DOMAIN files
          /\ Payments!UpdatePaymentStatus(watcher.file) /\ UNCHANGED <<now, invoices, faults>>
      BY <1>2 DEF Payments!MarkPaid, Payments!UpdatePaymentStatus
    <3> QED BY <3>1 DEF Whole, Base, P!Base, P!TypeOK, P!StoreTypeOK, P!IsMap
  <2>3. ~files[watcher.file].paid
    BY <1>2, <2>1, <2>2, CreditsUnpaid
  <2>4. Files!PaymentArrives(watcher.file)
    BY <1>2, <2>2, <2>3 DEF Files!PaymentArrives, fileVars, Payments!UpdatePaymentStatus,
       Files!UpdatePaymentStatus
  <2> QED BY <2>2, <2>4 DEF Files!Next
<1>3. UNCHANGED <<fileVars, crashes>> /\ files' = files => UNCHANGED <<files, crashes, fileVars>>
  OBVIOUS
<1> QED BY <1>1, <1>2, <1>3, FilesStep DEF Whole

\* The rest of the server is to the file service what its module takes it to be: until a
\* statement fails, uploads alone make rows, the sweep alone removes them, and payments are
\* credited to unpaid rows, after any number of crashes and redeliveries.
THEOREM ServerRunsFiles == ASSUME ~InvoiceByID PROVE Spec => RunsFiles
<1>1. Init => Files!Init /\ P!PaidWasSettled
  BY DEF Init, Files!Init, Files!StoreInit, Files!EmptyMap, P!PaidWasSettled
<1>2. Whole /\ P!PaidWasSettled /\ [Next]_vars => P!PaidWasSettled'
  BY PaymentsStep, P!PaidStep, Assumptions DEF Whole, Base, P!Base
<1>3. Whole /\ P!PaidWasSettled /\ [Next]_vars =>
        [faults' = 0 => [Files!Next]_<<files, crashes, fileVars>>]_vars
  BY RunsFilesStep
<1>4. Whole /\ [Next]_vars => Whole'
  BY WholeKept
<1> QED BY <1>1, <1>2, <1>3, <1>4, WholeInit, PTL DEF Spec, RunsFiles

-----------------------------------------------------------------------------
(***************************************************************************)
(* The payment page                                                        *)
(***************************************************************************)

\* A step of the page's is one of the server's, or a SELECT that fails.
LEMMA PageStep == [PageNext]_pageVars => [Next]_vars \/ StatusFails
<1>1. ASSUME NEW f \in FileIDs, OpenPage(f) \/ Script(f) PROVE [Next]_vars \/ StatusFails
  <2>1. HandleGetInvoice(f) => Next
    BY DEF Next
  <2> QED
    BY <1>1, <2>1 DEF OpenPage, Script, FetchStatus, FetchInvoice, Poll, Answer, ShowSharePage,
       ServerIdle, StatusUnpaid, FetchFails
<1> QED BY <1>1 DEF PageNext, pageVars

\* To the payment service, the page's steps are its own.
LEMMA PagePayments == ASSUME Base, [PageNext]_pageVars PROVE [P!Next]_(P!vars)
<1>1. StatusFails => P!OtherCallFails
  BY DEF StatusFails, P!OtherCallFails, P!StoreFails, StoreFails, processVars, paymentVars, P!memory, P!world
<1> QED BY <1>1, PageStep, PaymentsStep DEF P!Next

\* The steps of the page keep all that is known of the server, too.
LEMMA WholeStep == ASSUME ~InvoiceByID, Whole, [PageNext]_pageVars PROVE Whole'
<1>1. CASE [Next]_vars
  BY <1>1, WholeKept
<1>2. CASE StatusFails
  <2> USE <1>2 DEF Whole, StatusFails, processVars, paymentVars, fileVars, limiterVars
  <2>1. [P!Next]_(P!vars)
    BY PagePayments
  <2>2. InvoicesAreUnique' /\ PendingIsIndexed' /\ P!Recoverable'
    BY <2>1, UniqueStep, IndexedStep, P!RecoverableStep, Assumptions DEF Base
  <2>3. Base'
    <3>1. UNCHANGED L!vars
      BY DEF L!vars, L!limiterVars
    <3>2. (tracked \subseteq FileIDs)'
      BY DEF Base
    <3> QED BY <2>1, <3>1, <3>2, BaseKept
  <2>4. Fit'
    BY DEF Fit, CallsAgree, UploadingIsFree, UnansweredIsUnpaid, PaidIsNotPending, Row
  <2>5. Counted'
    BY DEF Counted, TrackedIsInvoiced, TakenIsForgotten, RowsExpireSoon, CountedInTime, Limiter!FilesOf
  <2> QED BY <2>2, <2>3, <2>4, <2>5
<1> QED BY <1>1, <1>2, PageStep

\* A payer has seen the payment request of f.
Payable(f) == \E h \in shown : wallet[h].file = f

\* What the page can count on: what was shown or settled stays so, failures and time
\* only add up, and the row of a file that can be paid is not made anew.
LEMMA ServerLasts ==
  ASSUME ~InvoiceByID, Whole, [PageNext]_pageVars
  PROVE  /\ faults' = 0 => faults = 0
         /\ now \in Nat /\ now' \in Nat /\ now <= now'
         /\ shown \subseteq shown' /\ shown \subseteq DOMAIN wallet
         /\ \A h \in DOMAIN wallet : h \in DOMAIN wallet' /\ wallet'[h].file = wallet[h].file
         /\ \A h \in DOMAIN wallet : wallet[h].settled => wallet'[h].settled
         /\ \A f \in FileIDs :
              Payable(f) /\ f \in DOMAIN files' /\ ~files'[f].paid => f \in DOMAIN files /\ files'[f] = files[f]
<1> USE DEF Whole
<1>1. [P!Next]_(P!vars) /\ P!TypeOK
  BY PagePayments DEF Base, P!Base
<1>2. faults' = 0 => faults = 0
  BY <1>1, P!NoFaults, Assumptions
<1>3. shown \subseteq shown'
  BY <1>1, P!NextCases, Assumptions
     DEF P!CompleteUpload, P!WalletCreates, P!WalletRefuses, P!PersistInvoice, P!RegisterInvoice, P!Respond,
         P!GetInvoiceForFile, P!FileSwept, P!Settle, P!HandleWebhook, P!TakeUpdate, P!Unpersist, P!MarkPaid,
         P!Notify, P!Crash, P!Restart, P!OtherCallFails, P!TimePasses, P!vars, P!world
<1>4. shown \subseteq DOMAIN wallet
  BY DEF Base, P!Base, P!UnregisteredIsPrivate
<1>5. /\ \A h \in DOMAIN wallet : h \in DOMAIN wallet' /\ wallet'[h].file = wallet[h].file
      /\ \A h \in DOMAIN wallet : wallet[h].settled => wallet'[h].settled
  BY <1>1, P!WalletGrows, Assumptions DEF P!Settled, P!InvoiceIsFor
<1>6. /\ now \in Nat /\ now' \in Nat /\ now <= now'
      /\ \A f \in FileIDs :
           Payable(f) /\ f \in DOMAIN files' /\ ~files'[f].paid => f \in DOMAIN files /\ files'[f] = files[f]
  <2>1. CASE StatusFails
    BY <2>1, Invoices DEF StatusFails
  <2>2. CASE [Next]_vars
    <3>1. \A f \in FileIDs : Counts(f)
      BY <2>2, AllCounts
    <3>2. now \in Nat /\ now' \in Nat /\ now <= now'
      <4>1. now' = now \/ now' = now + 1
        BY <2>2, LimiterStep DEF L!Next, L!Uploaded, L!Paid, L!Swept, L!Restarted, L!TimePasses, L!Tick, L!vars
      <4> QED BY <4>1, Invoices
    <3>3. ASSUME NEW f \in FileIDs, Payable(f), invoicing'[f].pc = "wallet" PROVE FALSE
      <4>1. PICK h \in shown : wallet[h].file = f
        BY <3>3 DEF Payable
      <4>2. h \in DOMAIN wallet' /\ wallet'[h].file = f
        BY <1>4, <1>5, <4>1
      <4>3. Counts(f)
        BY <3>1
      <4> QED BY <3>3, <4>2, <4>3 DEF Counts
    <3> QED BY <3>1, <3>2, <3>3 DEF Counts
  <2> QED BY <2>1, <2>2, PageStep
<1> QED BY <1>2, <1>3, <1>4, <1>5, <1>6

\* What a step makes of the page of f.
PageMoves(f) ==
  \/ page'[f] = page[f]
  \/ page'[f] = [pc |-> "status"] /\ Payable(f)
  \/ /\ page[f].pc /= "closed"
     /\ page'[f] \in [pc: {"invoice", "share", "paid"}] \cup {[pc |-> "error", reason |-> "noServer"]}
  \/ /\ page[f].pc = "invoice"
     /\ \/ page'[f] = [pc |-> "poll", start |-> now]
        \/ page'[f] = [pc |-> "error", reason |-> "noInvoice"] /\ up /\ f \notin DOMAIN byFileID
  \/ /\ page[f].pc \in {"poll", "asking"}
     /\ \/ page'[f] \in [pc: {"poll", "asking"}, start: {page[f].start}]
        \/ page'[f] = [pc |-> "gaveUp"] /\ now - page[f].start > MaxPoll

\* The page of one file is open at a time, and it moves by its script.
LEMMA PagesMove ==
  ASSUME page \in [FileIDs -> Page], [PageNext]_pageVars
  PROVE  page' = [f \in FileIDs |-> page'[f]] /\ \A f \in FileIDs : PageMoves(f)
<1>1. ASSUME NEW g \in FileIDs, OpenPage(g) \/ Script(g)
      PROVE  \E state : Enters(g, state)
  BY <1>1 DEF OpenPage, Script, FetchStatus, FetchInvoice, Poll, Answer, ShowSharePage
<1>2. ASSUME NEW g \in FileIDs, OpenPage(g) \/ Script(g)
      PROVE  page' = [f \in FileIDs |-> page'[f]] /\ \A f \in FileIDs \ {g} : page'[f] = page[f]
  BY <1>1, <1>2 DEF Enters
<1>3. ASSUME NEW g \in FileIDs, OpenPage(g) PROVE PageMoves(g)
  BY <1>3 DEF OpenPage, Enters, PageMoves, Payable
<1>4. ASSUME NEW g \in FileIDs, FetchStatus(g) \/ FetchInvoice(g) \/ ShowSharePage(g) PROVE PageMoves(g)
  BY <1>4 DEF FetchStatus, FetchInvoice, ShowSharePage, Enters, PageMoves
<1>5. ASSUME NEW g \in FileIDs, Poll(g) \/ Answer(g) PROVE PageMoves(g)
  <2>1. page[g] \in [pc: {"poll", "asking"}, start: 0..MaxTime]
    BY <1>5 DEF Poll, Answer, Page
  <2> QED BY <1>5, <2>1 DEF Poll, Answer, Enters, PageMoves
<1>6. UNCHANGED page => page' = [f \in FileIDs |-> page'[f]] /\ \A f \in FileIDs : PageMoves(f)
  BY DEF PageMoves
<1>7. ASSUME NEW g \in FileIDs, OpenPage(g) \/ Script(g) PROVE \A f \in FileIDs : PageMoves(f)
  BY <1>2, <1>3, <1>4, <1>5, <1>7 DEF Script, PageMoves
<1> QED BY <1>2, <1>6, <1>7 DEF PageNext, pageVars

\* What is known of the pages.
PageSound ==
  /\ page \in [FileIDs -> Page]
  /\ OpenIsPayable /\ PollsInTime /\ NoInvoiceMeansPaid

\* A file without an invoice to show, whose payment request was seen, is paid.
LEMMA UnshownIsPaid ==
  ASSUME Whole, faults = 0, up, NEW f \in FileIDs, f \notin DOMAIN byFileID, Payable(f)
  PROVE  \E h \in DOMAIN wallet : wallet[h].file = f /\ wallet[h].settled
<1>1. PICK h \in shown : wallet[h].file = f
  BY DEF Payable
<1>2. h \in DOMAIN wallet /\ h \in Hashes
  BY DEF Whole, Base, P!Base, P!UnregisteredIsPrivate, P!TypeOK
<1>3. ASSUME ~wallet[h].settled PROVE FALSE
  <2>1. h \in DOMAIN pending
    BY <1>2, <1>3 DEF Whole, P!Recoverable, P!OfferedIsPersisted, P!Offered, P!Settled
  <2>2. pending[h] = f
    BY <1>1, <2>1 DEF Whole, Base, P!Base, P!ReferencesAgree, P!InvoiceIsFor
  <2> QED BY <2>1, <2>2 DEF Whole, PendingIsIndexed
<1> QED BY <1>1, <1>2, <1>3

\* The steps of page and server keep it.
LEMMA PageSoundStep ==
  ASSUME ~InvoiceByID, Whole, PageSound, [PageNext]_pageVars PROVE PageSound'
<1> USE DEF PageSound
<1>0. now <= MaxTime /\ MaxTime \in Nat
  BY ClockAssumption DEF Whole
<1>1. \A f \in FileIDs : PageMoves(f) /\ page[f] \in Page
  BY PagesMove
<1>2. /\ shown \subseteq shown' /\ shown \subseteq DOMAIN wallet
      /\ \A h \in DOMAIN wallet : h \in DOMAIN wallet' /\ wallet'[h].file = wallet[h].file
      /\ \A h \in DOMAIN wallet : wallet[h].settled => wallet'[h].settled
  BY ServerLasts
<1>3. page' \in [FileIDs -> Page]
  <2>1. ASSUME NEW f \in FileIDs PROVE page'[f] \in Page
    BY <1>0, <1>1, ServerLasts DEF PageMoves, Page
  <2> QED BY <2>1, PagesMove
<1>4. OpenIsPayable'
  <2> SUFFICES ASSUME NEW f \in FileIDs, page'[f].pc /= "closed" PROVE \E h \in shown' : wallet'[h].file = f
    BY DEF OpenIsPayable
  <2>1. Payable(f)
    BY <1>1 DEF PageMoves, OpenIsPayable, Payable
  <2>2. PICK h \in shown : wallet[h].file = f
    BY <2>1 DEF Payable
  <2>3. h \in shown' /\ wallet'[h].file = f
    BY <1>2, <2>2
  <2> QED BY <2>3
<1>5. \A f \in FileIDs : page[f].pc /= "closed" /\ f \in DOMAIN files' /\ ~files'[f].paid =>
        f \in DOMAIN files /\ files'[f] = files[f]
  BY ServerLasts DEF OpenIsPayable, Payable
<1>6. PollsInTime'
  <2> SUFFICES ASSUME NEW f \in FileIDs, page'[f].pc \in {"poll", "asking"}, f \in DOMAIN files', ~files'[f].paid
               PROVE  files'[f].expiresAt <= page'[f].start + PendingTimeout
    BY DEF PollsInTime, Row
  <2>1. CASE page'[f] = page[f] \/ page[f].pc \in {"poll", "asking"}
    <3>1. page[f].pc \in {"poll", "asking"} /\ page'[f].start = page[f].start
      BY <1>1, <2>1 DEF PageMoves, Page
    <3> QED BY <1>5, <3>1 DEF PollsInTime, Row
  <2>2. CASE page[f].pc = "invoice" /\ page'[f] = [pc |-> "poll", start |-> now]
    BY <1>5, <2>2 DEF Whole, Counted, RowsExpireSoon
  <2> QED BY <1>1, <2>1, <2>2 DEF PageMoves
<1>7. NoInvoiceMeansPaid'
  <2> SUFFICES ASSUME NEW f \in FileIDs, page'[f] = [pc |-> "error", reason |-> "noInvoice"], faults' = 0
               PROVE  \E h \in DOMAIN wallet' : wallet'[h].file = f /\ wallet'[h].settled
    BY DEF NoInvoiceMeansPaid
  <2>1. faults = 0
    BY ServerLasts
  <2>2. PICK h \in DOMAIN wallet : wallet[h].file = f /\ wallet[h].settled
    <3>1. CASE page'[f] = page[f]
      BY <2>1, <3>1 DEF NoInvoiceMeansPaid
    <3>2. CASE page[f].pc = "invoice" /\ up /\ f \notin DOMAIN byFileID
      BY <2>1, <3>2, UnshownIsPaid DEF OpenIsPayable, Payable
    <3> QED BY <1>1, <3>1, <3>2 DEF PageMoves
  <2>3. h \in DOMAIN wallet' /\ wallet'[h].file = f /\ wallet'[h].settled
    BY <1>2, <2>2
  <2> QED BY <2>3
<1> QED BY <1>3, <1>4, <1>6, <1>7

\* At the start all pages are closed.
LEMMA PageSoundInit == PageInit => PageSound
BY DEF PageInit, PageSound, Page, OpenIsPayable, PollsInTime, NoInvoiceMeansPaid

\* The page keeps its type, and the server behind it its own.
THEOREM PageTypeCorrect == ASSUME ~InvoiceByID PROVE PageSpec => []PageTypeOK
<1>1. Whole /\ PageSound => PageTypeOK
  BY BaseTypes DEF Whole, PageSound, PageTypeOK
<1>2. PageInit => Whole
  BY WholeInit DEF PageInit
<1> QED BY <1>1, <1>2, WholeStep, PageSoundInit, PageSoundStep, PTL DEF PageSpec

\* Until a statement fails, a page that finds no invoice is one of a paid file: a
\* file that can still be paid shows its invoice, after any restart.
THEOREM NoInvoiceIsPaid == ASSUME ~InvoiceByID PROVE PageSpec => []NoInvoiceMeansPaid
<1>1. PageSound => NoInvoiceMeansPaid
  BY DEF PageSound
<1>2. PageInit => Whole
  BY WholeInit DEF PageInit
<1> QED BY <1>1, <1>2, WholeStep, PageSoundInit, PageSoundStep, PTL DEF PageSpec

\* The page does not stop watching before the row has expired, whenever its polling
\* is allowed at least as long as the server's pending timeout.
THEOREM PageOutlivesRow ==
  ASSUME ~InvoiceByID, PendingTimeout <= MaxPoll PROVE PageSpec => []PollOutlivesRow
<1>1. ASSUME Whole, PageSound, PollOutlivesRow, [PageNext]_pageVars PROVE PollOutlivesRow'
  <2>0. /\ MaxPoll \in Nat /\ PendingTimeout \in Nat
        /\ \A f \in DOMAIN files : files[f].expiresAt \in Nat
    BY <1>1, PageAssumption, StoreAssumption DEF Whole, Base, P!Base, P!TypeOK, P!StoreTypeOK, P!IsMap, P!FileMeta
  <2> SUFFICES ASSUME NEW f \in FileIDs, page'[f].pc = "gaveUp", f \in DOMAIN files', ~files'[f].paid
               PROVE  now' > files'[f].expiresAt
    BY DEF PollOutlivesRow, Row
  <2>1. PageMoves(f) /\ page[f] \in Page
    BY <1>1, PagesMove DEF PageSound
  <2>2. page[f].pc /= "closed" => f \in DOMAIN files /\ files'[f] = files[f]
    BY <1>1, ServerLasts DEF PageSound, OpenIsPayable, Payable
  <2>3. CASE page'[f] = page[f]
    BY <1>1, <2>0, <2>2, <2>3, ServerLasts DEF PollOutlivesRow, Row
  <2>4. CASE page[f].pc \in {"poll", "asking"} /\ now - page[f].start > MaxPoll
    <3>1. page[f].start \in Nat
      BY <2>1, <2>4, ClockAssumption DEF Page
    <3>2. files[f].expiresAt <= page[f].start + PendingTimeout /\ f \in DOMAIN files
      BY <1>1, <2>2, <2>4 DEF PageSound, PollsInTime, Row
    <3> QED BY <1>1, <2>0, <2>2, <2>4, <3>1, <3>2, ServerLasts
  <2> QED BY <2>1, <2>3, <2>4 DEF PageMoves
<1>2. PageInit => Whole /\ PollOutlivesRow
  BY WholeInit DEF PageInit, PollOutlivesRow
<1> QED BY <1>1, <1>2, WholeStep, PageSoundInit, PageSoundStep, PTL DEF PageSpec

=============================================================================
