----------------------------- MODULE FileService -----------------------------
(***************************************************************************)
(* internal/files: the upload handlers (init, PUT, complete), the download *)
(* check and the cleanup goroutine, over a blob storage and the metadata   *)
(* rows of Store.  The two are separate systems: nothing but the order of  *)
(* the calls keeps a row and its blob together.  A step is one storage     *)
(* call or one SQL statement; handlers and the sweep interleave freely.    *)
(*                                                                         *)
(* A file ID is drawn at random by init, but after that a PUT and complete *)
(* are taken from anybody who has the ID, at any time and any number of    *)
(* times.  The web client (web/js/upload.js) sends each request once, when *)
(* the one before it has been answered; other clients send one again when  *)
(* it failed, or leave the order altogether.                               *)
(***************************************************************************)
EXTENDS Store

CONSTANTS
  AtomicPut,      \* TRUE: B2's PutObject; FALSE: the filesystem's create + copy
  WebUploads,     \* the files for which only web/js/upload.js sends requests
  LatePayments,   \* may a payment be processed after the unpaid row expired?
  MaxCrashes      \* bound on crashes

ASSUME FileAssumption ==
  /\ AtomicPut \in BOOLEAN
  /\ WebUploads \subseteq FileIDs
  /\ LatePayments \in BOOLEAN
  /\ MaxCrashes \in Nat
  /\ 0 \notin Sizes

VARIABLES
  blobs,    \* the storage: id -> bytes stored
  upload,   \* the upload of each file ID
  sweep,    \* the run of CleanupExpired in progress
  crashes   \* crashes so far

tables == <<now, files, invoices, faults>>
vars == <<tables, blobs, upload, sweep, crashes>>

Unused   == [pc |-> "unused"]
Over     == [pc |-> "over"]
Sleeping == [pc |-> "sleeping"]

Loose    == [pc |-> "loose"]

\* An upload in order, or one whose requests come in any order by now
UploadState ==
  {Unused, Over, Loose} \cup [pc: {"issued", "putting", "stored", "save", "loosesave"}, size: Nat]

\* No request for f was sent while another was running, or after it was completed
InOrder(f) == upload[f].pc \notin {"loose", "loosesave"}

SweepState == {Sleeping} \cup [pc: {"blob"}, todo: SUBSET FileIDs]
                         \cup [pc: {"row"}, todo: SUBSET FileIDs, file: FileIDs]

\* Rows, blobs and the states of uploads and of the sweep are what their types
\* say; a partial blob may have any number of bytes.
TypeOK ==
  /\ StoreTypeOK
  /\ IsMap(blobs, FileIDs, Nat)
  /\ upload \in [FileIDs -> UploadState]
  /\ sweep \in SweepState
  /\ crashes \in 0..MaxCrashes

Init ==
  /\ ClockInit
  /\ StoreInit
  /\ blobs = EmptyMap
  /\ upload = [f \in FileIDs |-> Unused]
  /\ sweep = Sleeping
  /\ crashes = 0

-----------------------------------------------------------------------------
(***************************************************************************)
(* Uploading                                                               *)
(***************************************************************************)

Goes(f, state) == upload' = [upload EXCEPT ![f] = state]

\* A request has failed: the web client gives up, others may send it again
Fallback(f, state) == Goes(f, IF f \in WebUploads THEN Over ELSE state)

\* POST /api/upload/init: the client announces the size of its encrypted blob
InitUpload(f, size) ==
  /\ upload[f] = Unused
  /\ Goes(f, [pc |-> "issued", size |-> size])
  /\ UNCHANGED <<tables, blobs, sweep, crashes>>

\* PUT /api/upload/{id}, of the announced size or not: os.Create leaves an empty
\* file, of what there was before too, before a byte has come
BeginPut(f) ==
  /\ upload[f].pc = "issued" \/ (f \notin WebUploads /\ upload[f].pc = "stored")
  /\ blobs' = IF AtomicPut THEN blobs ELSE MapPut(blobs, f, 0)
  /\ \E size \in Sizes :
       /\ f \in WebUploads => size = upload[f].size
       /\ Goes(f, [pc |-> "putting", size |-> size])
  /\ UNCHANGED <<tables, sweep, crashes>>

FinishPut(f) ==
  /\ upload[f].pc = "putting"
  /\ blobs' = MapPut(blobs, f, upload[f].size)
  /\ Goes(f, [upload[f] EXCEPT !.pc = "stored"])
  /\ UNCHANGED <<tables, sweep, crashes>>

\* What a PUT that stops halfway leaves of the blob: nobody removes it
Torn(f, b) == \/ AtomicPut /\ b = blobs
              \/ ~AtomicPut /\ \E n \in 0..(upload[f].size - 1) : b = MapPut(blobs, f, n)

\* The connection breaks or the storage fails
AbortPut(f) ==
  /\ upload[f].pc = "putting"
  /\ Torn(f, blobs')
  /\ Fallback(f, [upload[f] EXCEPT !.pc = "issued"])
  /\ UNCHANGED <<tables, sweep, crashes>>

\* The client goes away between two requests
Abandon(f) ==
  /\ upload[f].pc \in {"issued", "stored"}
  /\ Goes(f, Over)
  /\ UNCHANGED <<tables, blobs, sweep, crashes>>

\* Fault: the client's word is taken for the blob's existence and size
TrustUpload(f) ==
  /\ upload[f].pc = "stored" \/ (f \notin WebUploads /\ upload[f].pc = "issued")
  /\ \E declared \in Sizes : Goes(f, [pc |-> "save", size |-> declared])
  /\ UNCHANGED <<tables, blobs, sweep, crashes>>

\* POST /api/upload/complete, first part: Stat.  The size the client declares is
\* compared with the one found, but a difference is only logged
StatUpload(f) ==
  /\ upload[f].pc = "stored" \/ (f \notin WebUploads /\ upload[f].pc = "issued")
  /\ \/ /\ f \in DOMAIN blobs
        /\ Goes(f, [pc |-> "save", size |-> blobs[f]])
        /\ UNCHANGED faults
     \/ f \notin DOMAIN blobs /\ Fallback(f, upload[f]) /\ UNCHANGED faults
     \/ StoreFails /\ Fallback(f, upload[f])
  /\ UNCHANGED <<now, files, invoices, blobs, sweep, crashes>>

\* Second part: the row is inserted with the size found
SaveUpload(f) ==
  /\ upload[f].pc = "save"
  /\ SaveFileMetadata(f, PendingMeta(upload[f].size))
  /\ Goes(f, Over)
  /\ UNCHANGED <<now, invoices, faults, blobs, sweep, crashes>>

\* The INSERT fails: the client gets an error, the blob stays
SaveUploadFails(f) ==
  /\ upload[f].pc = "save"
  /\ StoreFails
  /\ Fallback(f, [upload[f] EXCEPT !.pc = "stored"])
  /\ UNCHANGED <<now, files, invoices, blobs, sweep, crashes>>

-----------------------------------------------------------------------------
(***************************************************************************)
(* Requests out of order: nothing in the handlers or the service refuses   *)
(* a PUT while complete is running or after it, a complete while a PUT is  *)
(* running, or a second complete.                                          *)
(***************************************************************************)

\* From here on the requests for f come in any order; complete, if it is running,
\* and what a running PUT has still to write, go on
LeaveOrder(f) ==
  /\ f \notin WebUploads
  /\ \/ upload[f].pc \in {"putting", "over"} /\ Goes(f, Loose)
     \/ upload[f].pc = "save" /\ Goes(f, [upload[f] EXCEPT !.pc = "loosesave"])
  /\ UNCHANGED <<tables, blobs, sweep, crashes>>

\* What PUTs write, whether there is a row or none: any of them may be at any byte, or cut off there
PutAgain(f) ==
  /\ ~InOrder(f)
  /\ \E size \in Sizes : \E n \in IF AtomicPut THEN {size} ELSE 0..size :
       blobs' = MapPut(blobs, f, n)
  /\ UNCHANGED <<tables, upload, sweep, crashes>>

\* complete finds whatever is there; when it finds nothing it changes nothing
StatAgain(f) ==
  /\ upload[f].pc = "loose"
  /\ f \in DOMAIN blobs
  /\ Goes(f, [pc |-> "loosesave", size |-> blobs[f]])
  /\ UNCHANGED <<tables, blobs, sweep, crashes>>

\* The INSERT, which the primary key refuses while there is a row
SaveAgain(f) ==
  /\ upload[f].pc = "loosesave"
  /\ \/ SaveFileMetadata(f, PendingMeta(upload[f].size)) /\ UNCHANGED faults
     \/ f \in DOMAIN files /\ UNCHANGED <<files, faults>>
     \/ StoreFails /\ UNCHANGED files
  /\ Goes(f, Loose)
  /\ UNCHANGED <<now, invoices, blobs, sweep, crashes>>

-----------------------------------------------------------------------------
(***************************************************************************)
(* CleanupExpired, run by the cleanup goroutine on every tick              *)
(***************************************************************************)

\* The list is a snapshot: what happens to a row afterwards is not looked at.
\* An error ends the run with nothing done
ListForSweep ==
  /\ sweep = Sleeping
  /\ \/ sweep' = [pc |-> "blob", todo |-> ListExpiredFiles] /\ UNCHANGED faults
     \/ StoreFails /\ sweep' = [pc |-> "blob", todo |-> {}]
  /\ UNCHANGED <<now, files, invoices, blobs, upload, crashes>>

\* Fault: the row of a blob that could not be deleted is deleted all the same
SweepAnyway(f) ==
  /\ sweep.pc = "blob" /\ f \in sweep.todo
  /\ \/ blobs' = MapDelete(blobs, f) /\ UNCHANGED faults
     \/ StoreFails /\ UNCHANGED blobs
  /\ sweep' = [pc |-> "row", todo |-> sweep.todo \ {f}, file |-> f]
  /\ UNCHANGED <<now, files, invoices, upload, crashes>>

\* The blob of the next file; when it is gone already, that is as good.  On any
\* other error the row is kept for the next run
SweepBlob(f) ==
  /\ sweep.pc = "blob" /\ f \in sweep.todo
  /\ \/ /\ blobs' = MapDelete(blobs, f)
        /\ sweep' = [pc |-> "row", todo |-> sweep.todo \ {f}, file |-> f]
        /\ UNCHANGED faults
     \/ /\ StoreFails
        /\ sweep' = [sweep EXCEPT !.todo = @ \ {f}]
        /\ UNCHANGED blobs
  /\ UNCHANGED <<now, files, invoices, upload, crashes>>

\* Then the row: deleted by ID, whether it is paid by now or not
SweepRow ==
  /\ sweep.pc = "row"
  /\ \/ DeleteFileMetadata(sweep.file) /\ UNCHANGED faults
     \/ StoreFails /\ UNCHANGED files
  /\ sweep' = [pc |-> "blob", todo |-> sweep.todo]
  /\ UNCHANGED <<now, invoices, blobs, upload, crashes>>

EndSweep ==
  /\ sweep = [pc |-> "blob", todo |-> {}]
  /\ sweep' = Sleeping
  /\ UNCHANGED <<tables, blobs, upload, crashes>>

-----------------------------------------------------------------------------
(***************************************************************************)
(* The process, the clock, and the payment service as seen from here       *)
(***************************************************************************)

\* What a crash leaves of a request that it cuts off
CutOff(f, state) ==
  CASE state.pc = "loosesave" -> Loose
    [] state.pc = "putting" /\ f \notin WebUploads -> [state EXCEPT !.pc = "issued"]
    [] state.pc = "save" /\ f \notin WebUploads -> [state EXCEPT !.pc = "stored"]
    [] state.pc \in {"putting", "save"} /\ f \in WebUploads -> Over
    [] OTHER -> state

\* The process stops and starts again: handlers and the sweep are cut off,
\* a PUT leaves what it has written
Crash ==
  /\ crashes < MaxCrashes
  /\ crashes' = crashes + 1
  /\ sweep' = Sleeping
  /\ upload' = [f \in FileIDs |-> CutOff(f, upload[f])]
  /\ UNCHANGED <<tables, blobs>>

\* The watcher credits a payment: at any time when LatePayments, and otherwise
\* while the unpaid row has not expired
PaymentArrives(f) ==
  /\ f \in DOMAIN files /\ ~files[f].paid
  /\ LatePayments \/ now <= files[f].expiresAt
  /\ UpdatePaymentStatus(f)
  /\ UNCHANGED <<now, invoices, faults, blobs, upload, sweep, crashes>>

TimePasses == Tick /\ UNCHANGED <<files, invoices, faults, blobs, upload, sweep, crashes>>

LooseStep(f) == LeaveOrder(f) \/ PutAgain(f) \/ StatAgain(f) \/ SaveAgain(f)

UploadStep(f) ==
  \/ \E size \in Sizes : InitUpload(f, size)
  \/ BeginPut(f) \/ FinishPut(f) \/ AbortPut(f) \/ Abandon(f)
  \/ StatUpload(f) \/ SaveUpload(f) \/ SaveUploadFails(f)
  \/ LooseStep(f)

SweepStep ==
  \/ ListForSweep
  \/ \E f \in FileIDs : SweepBlob(f)
  \/ SweepRow
  \/ EndSweep

Next ==
  \/ \E f \in FileIDs : UploadStep(f) \/ PaymentArrives(f)
  \/ SweepStep
  \/ Crash
  \/ TimePasses

Spec == Init /\ [][Next]_vars

\* The ticker starts a sweep again and again, and a sweep that runs goes on
FairSpec == Spec /\ WF_vars(SweepStep)

-----------------------------------------------------------------------------
(***************************************************************************)
(* Properties                                                              *)
(***************************************************************************)

\* Every row that the next sweep would not list has its whole blob behind it,
\* through crashes, failing calls, torn PUTs and requests sent again after they
\* failed, and sweeps cut off between the two deletions: the blob is written before
\* the row, and deleted before it.  Requests out of order break it, but only for the
\* file they are about.
RowHasBlob ==
  \A f \in DOMAIN files \ ListExpiredFiles :
    InOrder(f) => f \in DOMAIN blobs /\ blobs[f] = files[f].size

\* A row that was paid for is removed by the sweep only after its hosting period,
\* whatever requests are sent.
PaidUntilExpiry ==
  [][\A f \in DOMAIN files \ DOMAIN files' : files[f].paid => now > files[f].expiresAt]_vars

\* What the sweep would list is gone in the end, unless a payment extends it: a
\* failing call or a crash only puts it off to a later sweep.  With the row the blob
\* is gone too, unless somebody goes on writing it.
ExpiredIsRemoved ==
  \A f \in FileIDs :
    /\ f \in ListExpiredFiles ~> f \notin ListExpiredFiles
    /\ f \in ListExpiredFiles ~> \/ f \notin DOMAIN files \cup DOMAIN blobs
                                \/ f \in DOMAIN files \ ListExpiredFiles
                                \/ ~InOrder(f)

-----------------------------------------------------------------------------
(***************************************************************************)
(* What RowHasBlob rests on; the conjunction is inductive, and proved so   *)
(* in FileServiceProofs.                                                   *)
(***************************************************************************)

\* An upload in order that is not over has no row yet, so that no PUT of its own
\* ever writes to a blob with a row, and what it has stored is still there.
UploadsAgree ==
  \A f \in FileIDs :
    /\ InOrder(f) /\ upload[f] /= Over => f \notin DOMAIN files
    /\ upload[f].pc \in {"stored", "save"} => f \in DOMAIN blobs /\ blobs[f] = upload[f].size

\* The web client keeps the order, and leaves nothing but whole blobs to complete.
StrictAgrees ==
  \A f \in WebUploads :
    /\ InOrder(f)
    /\ upload[f].pc \in {"issued", "putting", "stored", "save"} => upload[f].size \in Sizes

\* The files the sweep holds in its hands
Swept == (IF sweep.pc = "sleeping" THEN {} ELSE sweep.todo)
           \cup (IF sweep.pc = "row" THEN {sweep.file} ELSE {})

\* What the sweep has listed keeps its row until the sweep deletes it, once ...
SweptHasRow ==
  /\ Swept \subseteq DOMAIN files
  /\ sweep.pc = "row" => sweep.file \notin sweep.todo

\* ... and has expired for good, if payments come in time.
SweptIsExpired == Swept \subseteq ListExpiredFiles

=============================================================================
