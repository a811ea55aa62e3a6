-------------------------------- MODULE Server --------------------------------
(***************************************************************************)
(* The server process (cmd/server, internal/api): the upload handlers call *)
(* the file service, then the payment service, then the pending-file       *)
(* limiter; the payment watcher calls back into the limiter; the cleanup   *)
(* goroutine sweeps files and limiter.  The three components are the       *)
(* modules of their own, over one store, one clock and one process: a step *)
(* is a step of one of them, or of two that the code takes in one call.    *)
(*                                                                         *)
(* The handler of upload/complete for file f is request f of the payment   *)
(* service.  Uploads are the web client's: the one client that was given f *)
(* sends each request once and in order (WebUploads; FileService alone     *)
(* says what becomes of files for which others send requests).             *)
(***************************************************************************)
EXTENDS Store, Sequences, FiniteSets

CONSTANTS
  IPs, ClientOf,    \* the clients, and the one that uploads each file
  MaxPending, ChannelCap, MaxCrashes, AcksMayBeLost, AtomicPut,
  InvoiceByID       \* may a client ask for the invoice of a file ID before complete answers?

\* The components' assumptions, which INSTANCE does not bring along, and its own
ASSUME ServerAssumption ==
  /\ ClientOf \in [FileIDs -> IPs]
  /\ InvoiceByID \in BOOLEAN
  /\ MaxPending \in Nat \ {0}
  /\ ChannelCap \in Nat /\ MaxCrashes \in Nat
  /\ AcksMayBeLost \in BOOLEAN /\ AtomicPut \in BOOLEAN
  /\ 0 \notin Sizes

VARIABLES
  up, crashes,
  pending, byFileID, updates, watcher, invoicing, wallet, webhooks, shown, credited,
  blobs, upload, sweep,
  pendingByIP, fileToIP,
  tracked     \* handlers of upload/complete that are past TrackPendingFile

tableVars   == <<now, files, invoices, faults>>
processVars == <<up, crashes>>
paymentVars == <<pending, byFileID, updates, watcher, invoicing, wallet, webhooks, shown, credited>>
fileVars    == <<blobs, upload, sweep>>
limiterVars == <<pendingByIP, fileToIP, tracked>>
vars == <<tableVars, processVars, paymentVars, fileVars, limiterVars>>

Payments == INSTANCE PaymentService WITH Requests <- FileIDs
Files    == INSTANCE FileService WITH WebUploads <- FileIDs, LatePayments <- TRUE
Limiter  == INSTANCE PendingLimiter

\* Each component's variables are well-typed, and handlers track files.
TypeOK ==
  /\ Payments!TypeOK
  /\ Files!TypeOK
  /\ Limiter!TypeOK
  /\ tracked \subseteq FileIDs

Init ==
  /\ Payments!Init
  /\ Files!Init
  /\ Limiter!Init
  /\ tracked = {}

-----------------------------------------------------------------------------
(***************************************************************************)
(* The upload handlers                                                     *)
(***************************************************************************)

\* A step of the payment service, the file service or the limiter alone
OfPayments == UNCHANGED <<fileVars, limiterVars>>
OfFiles == up /\ UNCHANGED <<up, paymentVars, limiterVars>>

\* handleUploadInit: the only place where the limit is looked at
HandleUploadInit(f, size) ==
  /\ Limiter!CanUpload(ClientOf[f])
  /\ Files!InitUpload(f, size)
  /\ OfFiles

\* handleUploadStream
HandleUploadStream(f) ==
  /\ Files!BeginPut(f) \/ Files!FinishPut(f) \/ Files!AbortPut(f)
  /\ OfFiles

\* handleUploadComplete: CompleteUpload ...
VerifyUpload(f) ==
  /\ \/ Files!StatUpload(f)
     \/ Files!SaveUploadFails(f)
  /\ OfFiles

\* Fault: an INSERT that fails is only logged, and the invoice made all the same
InvoiceAnyway(f) ==
  /\ Files!SaveUpload(f) \/ Files!SaveUploadFails(f)
  /\ Payments!CallCreateInvoice(f, f)
  /\ UNCHANGED <<processVars, pending, byFileID, updates, watcher, wallet, webhooks, shown, credited>>
  /\ UNCHANGED limiterVars

\* ... whose row, once saved, is followed by the call of CreateInvoiceForFile
CompleteUpload(f) ==
  /\ Files!SaveUpload(f)
  /\ Payments!CallCreateInvoice(f, f)
  /\ UNCHANGED <<processVars, pending, byFileID, updates, watcher, wallet, webhooks, shown, credited>>
  /\ UNCHANGED limiterVars

CreateInvoice(f) ==
  /\ \/ \E h \in Hashes : Payments!WalletCreates(f, h)
     \/ Payments!WalletRefuses(f)
     \/ Payments!PersistInvoice(f)
     \/ Payments!RegisterInvoice(f)
  /\ OfPayments

\* The handler tracks the file once the invoice is made ...
TrackFile(f) ==
  /\ invoicing[f].pc = "respond"
  /\ f \notin tracked
  /\ Limiter!TrackPendingFile(ClientOf[f], f)
  /\ tracked' = tracked \cup {f}
  /\ UNCHANGED <<tableVars, processVars, paymentVars, fileVars>>

\* ... and only then answers
Respond(f) ==
  /\ f \in tracked
  /\ Payments!Respond(f)
  /\ tracked' = tracked \ {f}
  /\ UNCHANGED <<fileVars, pendingByIP, fileToIP>>

\* The web client opens /pending/{id} after complete has answered; the route
\* itself answers as soon as the invoice is registered
HandleGetInvoice(f) ==
  /\ InvoiceByID \/ invoicing[f] = Payments!Idle
  /\ Payments!GetInvoiceForFile(f)
  /\ OfPayments

-----------------------------------------------------------------------------
(***************************************************************************)
(* Payment, cleanup, process                                               *)
(***************************************************************************)

PaymentStep ==
  /\ \/ \E h \in Hashes : Payments!Settle(h) \/ Payments!HandleWebhook(h)
     \/ Payments!TakeUpdate \/ Payments!Unpersist \/ Payments!MarkPaid
  /\ OfPayments

\* Fault: main does not set the callback
NotifyNobody ==
  /\ Payments!Notify
  /\ UNCHANGED <<fileVars, limiterVars>>

\* The payment callback set in main is the limiter's OnPaymentReceived
NotifyLimiter ==
  /\ Payments!Notify
  /\ Limiter!OnPaymentReceived(watcher.file)
  /\ UNCHANGED <<fileVars, tracked>>

SweepFiles ==
  /\ \/ Files!ListForSweep
     \/ \E f \in FileIDs : Files!SweepBlob(f)
     \/ Files!SweepRow
  /\ OfFiles

\* When the files are swept, the same goroutine sweeps the limiter
SweepLimiter ==
  /\ up
  /\ Files!EndSweep
  /\ Limiter!CleanupExpired
  /\ UNCHANGED <<up, paymentVars, tracked>>

Crash ==
  /\ Payments!Crash
  /\ Files!Crash
  /\ Limiter!NewPendingFileLimiter
  /\ tracked' = {}

Restart == Payments!Restart /\ OfPayments

TimePasses ==
  /\ Tick
  /\ UNCHANGED <<files, invoices, faults, processVars, paymentVars, fileVars, limiterVars>>

Next ==
  \/ \E f \in FileIDs :
       \/ \E size \in Sizes : HandleUploadInit(f, size)
       \/ HandleUploadStream(f) \/ VerifyUpload(f) \/ CompleteUpload(f)
       \/ CreateInvoice(f) \/ TrackFile(f) \/ Respond(f)
       \/ HandleGetInvoice(f)
  \/ PaymentStep \/ NotifyLimiter
  \/ SweepFiles \/ SweepLimiter
  \/ Crash \/ Restart
  \/ TimePasses

Spec == Init /\ [][Next]_vars

-----------------------------------------------------------------------------
(***************************************************************************)
(* Properties                                                              *)
(***************************************************************************)

Row(f) == f \in DOMAIN files

\* The rest of the server is to the payment service what its own module takes it
\* to be: an invoice is asked for once a row, of a real size, is saved, rows go
\* only while the process runs, and clock, failures and crashes are shared.  What
\* is shown of PaymentService alone therefore holds in the whole server.
RunsPayments == Payments!Spec

\* And to the file service: uploads make the rows, the sweep removes them, and, as
\* long as no statement has failed, a payment is credited to a row that is still
\* unpaid, however often its webhook is delivered and wherever the server crashes.
RunsFiles == Files!Init /\ [][faults' = 0 => [Files!Next]_<<files, crashes, fileVars>>]_vars

\* A file that is paid for no longer counts against its client, but for the
\* moment between the row's update and the callback.  It relies on nobody
\* asking for the invoice before the handler has tracked the file.
PaidIsNotPending ==
  \A f \in DOMAIN fileToIP :
    Row(f) /\ files[f].paid => watcher.pc = "notify" /\ watcher.file = f

\* As long as the process does not restart, every unpaid, unexpired file whose
\* payment request was answered counts against the client that uploaded it: the
\* cleanup never frees the slot before the row has expired.
UnpaidIsCounted ==
  \A f \in DOMAIN files \cap DOMAIN byFileID :
    (crashes = 0 /\ ~files[f].paid /\ now <= files[f].expiresAt /\ byFileID[f] \in shown)
      => f \in DOMAIN Limiter!FilesOf(ClientOf[f])

\* The limiter's doc comment: a maximum number of concurrent pending files per IP.
AtMostMaxPending == \A ip \in IPs : Cardinality(DOMAIN Limiter!FilesOf(ip)) <= MaxPending

\* README: a payment buys hosting.  When a settlement is credited, the row and
\* the blob it pays for are still there.
CreditFindsFile == watcher.pc = "mark" => Row(watcher.file) /\ watcher.file \in DOMAIN blobs

-----------------------------------------------------------------------------
(***************************************************************************)
(* What PaidIsNotPending and UnpaidIsCounted rest on when nobody asks for  *)
(* an invoice by ID (ServerProofs)                                         *)
(***************************************************************************)

\* The handler of f makes the invoice of f, when its upload is over.
CallsAgree ==
  \A f \in FileIDs :
    invoicing[f] /= Payments!Idle => invoicing[f].file = f /\ upload[f] = Files!Over

\* A file that is still being uploaded has no invoice yet.
UploadingIsFree ==
  \A f \in FileIDs : upload[f] /= Files!Over =>
    \A h \in DOMAIN wallet : wallet[h].file /= f

\* Until the handler answers, nobody can have paid, so that the callback cannot
\* come before the file is tracked.
UnansweredIsUnpaid ==
  \A f \in FileIDs : invoicing[f] /= Payments!Idle =>
    /\ Row(f) => ~files[f].paid
    /\ \A h \in DOMAIN wallet : wallet[h].file = f => h \notin shown /\ ~wallet[h].settled

\* What the limiter and the invoices of a handler are to each other: a file is
\* tracked between its registration and the answer, and has no invoice before.
TrackedIsInvoiced ==
  /\ \A f \in tracked : invoicing[f].pc = "respond"
  /\ \A f \in FileIDs : invoicing[f].pc = "wallet" => \A h \in DOMAIN wallet : wallet[h].file /= f

\* In the first life of the process, an invoice the watcher has taken stays out of
\* the index.
TakenIsForgotten ==
  crashes = 0 => up /\ (watcher.pc /= "receive" => watcher.file \notin DOMAIN byFileID)

\* The limiter's clock reading is no earlier than the row's.
RowsExpireSoon ==
  \A f \in DOMAIN files : ~files[f].paid => files[f].expiresAt <= now + PendingTimeout

\* What UnpaidIsCounted says, whoever has seen the payment request, and that the
\* entry is no older than the row.
CountedInTime ==
  \A f \in DOMAIN files \cap DOMAIN byFileID :
    (crashes = 0 /\ ~files[f].paid /\ now <= files[f].expiresAt
       /\ (f \in tracked \/ invoicing[f] = Payments!Idle))
      => /\ f \in DOMAIN Limiter!FilesOf(ClientOf[f])
         /\ Limiter!FilesOf(ClientOf[f])[f] + PendingTimeout >= files[f].expiresAt

\* A file has one invoice at most, since one handler completes it once ...
InvoicesAreUnique == \A h, k \in DOMAIN wallet : wallet[h].file = wallet[k].file => h = k

\* ... so that whatever is pending can be shown.
PendingIsIndexed == \A h \in DOMAIN pending : pending[h] \in DOMAIN byFileID

=============================================================================
