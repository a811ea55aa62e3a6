------------------------------- MODULE Download -------------------------------
(***************************************************************************)
(* GET and HEAD /api/file/{id} (handleDownload, DownloadSeekable) beside   *)
(* the uploads and the sweep of FileService: the row is checked, then the  *)
(* blob is opened, then its bytes are sent, and nothing locks the file     *)
(* between these steps.                                                    *)
(***************************************************************************)
EXTENDS FileService

VARIABLE download    \* the download request in progress, or the last one

downloadVars == <<vars, download>>

Nothing == [pc |-> "nothing"]

DownloadState ==
  {Nothing} \cup [pc: {"load"}, file: FileIDs, size: Nat, until: Nat]
            \cup [pc: {"serve"}, file: FileIDs, size: Nat, until: Nat, bytes: Nat]
            \cup [pc: {"served"}, file: FileIDs, size: Nat, bytes: Nat]
            \cup [pc: {"failed"}, file: FileIDs, until: Nat]

\* The file service's types, and a request in one of the handler's states.
DownloadTypeOK == TypeOK /\ download \in DownloadState

DownloadInit == Init /\ download = Nothing

-----------------------------------------------------------------------------
FilesIdle == UNCHANGED vars
StorageFails == StoreFails /\ UNCHANGED <<now, files, invoices, blobs, upload, sweep, crashes>>

Becomes(state) == download' = state
Fails == Becomes([pc |-> "failed", file |-> download.file, until |-> download.until])

\* GetFileMetadata and the two checks.  A missing, unpaid or expired row and a
\* failing SELECT are answered with an error, which is all there is to it
Check(f) ==
  /\ download.pc \notin {"load", "serve"}
  /\ f \in DOMAIN files
  /\ files[f].paid
  /\ now <= files[f].expiresAt
  /\ Becomes([pc |-> "load", file |-> f, size |-> files[f].size, until |-> files[f].expiresAt])
  /\ FilesIdle

\* Fault: a blob that is not there is as good as an empty one
LoadOrEmpty ==
  /\ download.pc = "load"
  /\ LET f == download.file IN
       Becomes([pc |-> "serve", file |-> f, size |-> download.size, until |-> download.until,
                bytes |-> IF f \in DOMAIN blobs THEN blobs[f] ELSE 0])
  /\ FilesIdle

\* storage.Load, os.Open or GetObject and Stat
Load ==
  /\ download.pc = "load"
  /\ LET f == download.file IN
       \/ /\ f \in DOMAIN blobs
          /\ Becomes([pc |-> "serve", file |-> f, size |-> download.size,
                      until |-> download.until, bytes |-> blobs[f]])
          /\ FilesIdle
       \/ f \notin DOMAIN blobs /\ Fails /\ FilesIdle
       \/ StorageFails /\ Fails

\* http.ServeContent.  An open file outlives its removal, an object of B2 does
\* not: it is fetched while it is read.  A blob that is written again meanwhile is
\* read as it was or as it is
Serve ==
  /\ download.pc = "serve"
  /\ LET f == download.file
         readable == {download.bytes} \cup {blobs[g] : g \in {f} \cap DOMAIN blobs} IN
       \/ /\ IF AtomicPut /\ f \notin DOMAIN blobs
             THEN Fails
             ELSE \E n \in readable :
                    Becomes([pc |-> "served", file |-> f, size |-> download.size, bytes |-> n])
          /\ FilesIdle
       \/ StorageFails /\ Fails

DownloadStep == (\E f \in FileIDs : Check(f)) \/ Load \/ Serve

DownloadNext ==
  \/ DownloadStep
  \/ Crash /\ download' = Nothing
  \/ /\ (\E f \in FileIDs : UploadStep(f) \/ PaymentArrives(f)) \/ SweepStep \/ TimePasses
     /\ UNCHANGED download

DownloadSpec == DownloadInit /\ [][DownloadNext]_downloadVars

\* As FileService's: nothing is assumed of the requests
FairDownloadSpec == DownloadSpec /\ WF_downloadVars(SweepStep /\ UNCHANGED download)

-----------------------------------------------------------------------------
(***************************************************************************)
(* Properties                                                              *)
(***************************************************************************)

\* A download that ends without an error has as many bytes as the row says, that
\* was checked two steps earlier, whatever the sweep did in between, unless requests
\* came out of order for this very file.
ServedIsWhole ==
  download.pc = "served" /\ InOrder(download.file) => download.bytes = download.size

\* A request that passed the check fails only because the file's time was over
\* before it was served, as long as no storage call fails and the file's upload was
\* in order.
FailsOnlyExpired ==
  download.pc = "failed" /\ InOrder(download.file) /\ faults = 0 => now > download.until

\* Rows, blobs, uploads and sweep together keep the contract: from the moment
\* its payment is processed, a file is paid, unexpired and whole on the storage
\* until the hosting period is over, or a request comes for it out of order.
Contract == INSTANCE HostingContract WITH
  hosted <- [f \in {f \in DOMAIN files : InOrder(f) /\ files[f].paid /\ now <= files[f].expiresAt
                                          /\ f \in DOMAIN blobs /\ blobs[f] = files[f].size}
               |-> files[f].expiresAt],
  disturbed <- {f \in FileIDs : ~InOrder(f)}

KeepsHosting == Contract!Init /\ [][Contract!Next]_(Contract!hostingVars)

-----------------------------------------------------------------------------
\* What the properties rest on (FileServiceProofs): the blob behind a request is
\* the one its row was checked for, or gone, and the row stays for its time.
RequestAgrees ==
  download.pc \in {"load", "serve"} /\ InOrder(download.file) =>
    LET f == download.file IN
      /\ upload[f] = Over
      /\ f \in DOMAIN blobs => blobs[f] = download.size
      /\ now <= download.until =>
           f \in DOMAIN files /\ files[f].paid /\ files[f].expiresAt = download.until
      /\ download.pc = "serve" => download.bytes = download.size

=============================================================================
