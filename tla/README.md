# SatoshiSend in TLA+

SatoshiSend is a file-sharing server: a browser encrypts a file, uploads it, is
shown a Lightning invoice, and once the invoice is settled the file is hosted for
seven days under a link that carries the key. This directory models the server's
logic and the parts of its web client that talk to it or cut up a file, checks it
with TLC on small instances, and proves the central facts about payments, hosting and
limits with TLAPS for instances of every size.

## 1. The system

### Components, their state and their operations

| Component (source) | State | Operations | Modelled by |
|---|---|---|---|
| Payment service (`internal/payments/service.go`) | maps `pending` (hash -> file) and `byFileID` (file -> invoice) under one mutex; table `pending_invoices` | `CreateInvoiceForFile`, `GetInvoiceForFile`, the watcher goroutine with `handlePayment`, `LoadPendingInvoices` | `PaymentService` |
| Alby client (`alby_http.go`) | `updates`, a channel of 1000 | `CreateInvoice`, `HandleWebhook` | `PaymentService` (client), environment (wallet) |
| Metadata store (`internal/store`) | SQLite tables `files`, `pending_invoices` | one SQL statement each | `Store` |
| File service (`internal/files/service.go`) | none of its own: rows and blobs | `InitUpload`, `UploadWithID`, `CompleteUpload`, `CleanupExpired`; `DownloadSeekable` | `FileService`; `Download` |
| Blob storages (`storage_fs.go`, `storage_b2.go`) | blobs by file ID | save, stat, load, delete | `FileService`, `Download` (`AtomicPut` tells them apart) |
| Pending-file limiter (`internal/api/pending_limiter.go`) | `pendingByIP`, `fileToIP` under one lock | `CanUpload`, `TrackPendingFile`, `OnPaymentReceived`, `CleanupExpired` | `PendingLimiter` |
| HTTP handlers (`handler.go`), process (`cmd/server/main.go`) | goroutines; nothing of their own | the requests; start, restart recovery, cleanup ticker, stop | `Server` |
| Rate-limit middleware (`middleware.go`) | a `sync.Map` of token buckets, each with its `lastSeen` | `getLimiter`, `Middleware`, `cleanup`, `Stop` | `RateLimiter` |
| Client cryptography (`web/js/crypto`) | the streaming decryptor's buffers and offsets | `encryptFile`, `decryptFile`, `decryptWithRangeRequests` | `EncryptedFile`, `StreamDecrypt` |
| Web client (`web/js/app.js`, `upload.js`) | a page's flow, timers | upload; pending page and its polling | the uploads of `FileService`; `PendingPage` |

**Not modelled**, and why: CORS and logging (headers and lines, no state); the report
of `-stats` (it reads only); static pages and display; the third-party StreamSaver
worker; the mock Lightning client (development only: the modelled wallet can do all
it does); the HMAC check of webhooks (a webhook in the model is one that passed it) and
the validation of requests (one that fails changes nothing); AES-GCM and the encoding
of keys (WebCrypto's); the choice between the two ways to download; the address a client is
known by (`extractIP` reads a header); the `uploadLimiter`, whose code is the
`generalLimiter`'s and whose route does not exist.

### How they interact

`POST /upload/init` asks the limiter and draws an ID. `PUT /upload/{id}` streams
the blob into the storage. `POST /upload/complete` stats the blob, inserts an
unpaid row (timeout 15 minutes), asks the wallet for an invoice, persists and
registers it, tracks the file in the limiter, and answers with the payment
request. The payer pays; Alby posts a webhook; its handler sends the hash to the
channel without blocking and answers 200. The one watcher goroutine takes a hash,
removes the invoice from the maps, then from its table, marks the row paid (which
moves its expiry to now + 7 days), and calls the limiter back. The cleanup
goroutine lists the expired rows every 15 minutes, deletes each blob and then
each row, and sweeps the limiter.

Whoever has the link asks for the status, gets the blob in one response (up to
500 MB) or by Range requests of about 10 MB, and decrypts it in the browser.

### What is hard about it

* **Two goroutines, three copies of an invoice.** An invoice is in the wallet, in
  a table and in two maps, written by handlers and by the watcher in steps between
  which anything else may run.
* **At-least-once webhooks, at-most-once memory.** A webhook may come twice; a hash
  in the channel or in the watcher's hands disappears when the process stops.
* **Row and blob in two systems** without a transaction; each call may fail; the
  process may stop in between.
* **A sweep that works from a snapshot** while payments go on.
* **Two clocks in one column**: expiry times compared as text, in two time zones.
* **A limit checked at init and counted at complete**, and a callback that may come
  before what it refers to.
* **A download without a lock**: the row is checked, then the blob opened, then sent, while
  the sweep works.
* **Buckets in a map without a lock**: a request may hold a bucket the cleanup has just
  dropped, and write its `lastSeen` afterwards.
* **A page that asks two questions in a row** and gives up by its own clock.
* **A file cut twice, at different places**: into sealed chunks of 1 MiB and into Range
  requests, with a blob that may be shorter than its header says.

`PROJECT.json` lists each of these, at its line, under "hazards", with the
properties that are about it.

## 2. The modules

```
GoMaps  Clock
   \     /  \
    Store    +-------------- RateLimiter -- TokenBucket (contract)
      |        \
      |         PendingLimiter
      |               |
      +-- PaymentService -- PaymentContract
      |               |
      +-- FileService -- Download -- HostingContract
      |               |
      +-- Server (INSTANCE of PaymentService, FileService, PendingLimiter) -- PendingPage

EncryptedFile -- StreamDecrypt

StoreProofs -- PaymentServiceProofs -- PaymentRecoveryProofs      PendingLimiterProofs
          \--- FileServiceProofs                                  RateLimiterProofs
ServerProofs (of Server and PendingPage; INSTANCE of three of them)   StreamDecryptProofs
```

`MCPayment`, `MCFiles`, `MCLimiter`, `MCRate`, `MCServer`, `MCPage`, `MCStream` add only symmetry sets and small
constants for TLC. Definitions whose comment begins with "Fault:" are faulty
variants of the definition that follows; no specification uses them, and each
is kept to show that a property notices the bug it describes.

**GoMaps, Clock, Store.** A Go map, or a table, is a function whose domain is the
set of keys present. One operator of `Store` is one SQL statement. Every statement
may fail (`StoreFails`) and then changes nothing; a behaviour has at most
`MaxFaults` failures, which calls of the blob storage share. `ListExpiredFiles` models what the comparison of text does:
a paid row's expiry is written by SQLite's `datetime('now', ...)` in UTC, an unpaid
row's and the clock are bound by Go in the server's zone (`ZoneOffset`).

**PaymentService.** A step is one critical section, one SQL statement, one channel
operation or one call of the wallet:

| Code | Actions |
|---|---|
| `handleUploadComplete`, the insert of the row | `CompleteUpload` |
| `CreateInvoiceForFile` | `WalletCreates` / `WalletRefuses`, `PersistInvoice`, `RegisterInvoice` |
| the handler's response; `GetInvoiceForFile` | `Respond`; `GetInvoiceForFile` |
| `HandleWebhook` | `HandleWebhook` (with `Send`, the non-blocking send) |
| `handlePayment` | `TakeUpdate` (receive + critical section), `Unpersist`, `MarkPaid`, `Notify` |
| the process stops; `main` | `Crash`; `Restart` (with `LoadPendingInvoices`) |
| `CleanupExpired` deletes a row | `FileSwept` (at any time: here nothing is said about when) |
| a statement elsewhere, or a storage call, fails | `OtherCallFails` |

External: `Settle` (a payer pays what he has seen, the wallet queues a webhook),
`Settled`, the webhooks. `credited` is a history variable: the hashes that marked a
row paid. A graceful shutdown is a `Crash` too: `ListenAndServe` returns as soon as
`Shutdown` is called, and `main` returns without waiting for anything.

**PaymentContract** is what the payment service promises, without any of that: five
one-line operations. A credit spends a settled invoice of that file, and an invoice
is spent once. `PaymentService` implements it (`KeepsContract`) under the refinement
mapping of `Contract`.

**FileService.** `upload[f]` is the client's and the handlers' progress with file f:
`InitUpload`, `BeginPut`, `FinishPut`/`AbortPut`, `StatUpload`, `SaveUpload`/
`SaveUploadFails`; `sweep` is the progress of `CleanupExpired`: `ListForSweep`, then
`SweepBlob` and `SweepRow` for each file, `EndSweep`. `AtomicPut = FALSE` is the
filesystem (create, then copy), `TRUE` is B2. A declared size other than the one found is
only logged by the code, so the model has no declared size. `PaymentArrives` stands for the
payment service; `LatePayments` says whether it may come after the unpaid row's expiry.

Nothing in `handleUploadStream`, `handleUploadComplete` or `os.Create` asks what an ID has
been through: a PUT or a complete is taken at any time, from whoever has the ID (and the
share link has it). So there are two kinds of file. For those in `WebUploads` only `upload.js`
sends requests: each once, when the one before has been answered. For any other file,
requests come as they like: complete without a PUT, a second PUT, a request sent again after it
failed or was cut off (`Fallback`, `CutOff`); and, from `LeaveOrder` on, a PUT or a
complete that overlaps another request or comes after the row is there, paid or not
(`PutAgain`, `StatAgain`, `SaveAgain`), by any number of senders. `InOrder(f)` says that the last has
not happened to f. The properties that such requests break speak of the files in order: so they say
that out-of-order requests harm the file they name and no other.

**Download** adds one request for a file to `FileService`: `Check` (the row exists, is paid,
unexpired), `Load` (open the blob), `Serve`. On the filesystem an open file outlives its
removal; on B2 it does not; a blob written meanwhile is read as it was or as it is.
**HostingContract** is what uploads, payments, sweep and
storage together promise: a file is hosted from the moment its payment is processed,
until the clock ends its period, or it is disturbed by a request out of order (`KeepsHosting`;
hosted means paid, unexpired and whole on the storage).

**PendingLimiter.** One action per method, each a critical section; any IP may
track any file.

**Server** composes the three over one store, one clock and one process: its steps
are steps of the components, joined where the code joins them (the row's insert and
the call of `CreateInvoiceForFile`; `Notify` and `OnPaymentReceived`; the end of a
sweep and the limiter's cleanup; a crash of everything). The handler that completes
file f is request f of the payment service. `PaymentService` alone leaves much open: a
row may go at any time, any handler may complete any file. `RunsPayments` says that what
the server does is within that: the whole server, seen through the payment service's
variables, is a run of `PaymentService`, so that what is shown there holds here. `RunsFiles`
says the same of `FileService`, until a statement fails: its `PaymentArrives` credits
unpaid rows only, while the watcher's UPDATE would take any row.

**PendingPage** puts the payment page of the web client before the whole server, one step per
fetch or timer: `OpenPage` (also a reload), `FetchStatus`, `FetchInvoice`, `Poll` (the timer
and the page's own clock), `Answer`, `ShowSharePage`.

**RateLimiter.** A step is one operation on the `sync.Map`, one access to `lastSeen` or one call of
a bucket: `Load` (with the reading of the clock just before it), `Touch` (a plain store of that time), `LoadOrStore`, `Allow`/`Refuse`;
`BeginCleanup`, `Visit` (read `lastSeen`), `Delete`, `EndCleanup`; `Stop`. `heap` has every
bucket ever made, since a request may hold one the map has lost. `ample` and `scant` are
history: two ideal buckets the properties compare with. **TokenBucket** is the contract: of each
client, what one bucket of `Capacity` lets through. `Capacity` is two bursts and what flows in
during `MaxDelay`, the bound on the time a request spends in the middleware, because the cleanup
can drop a full bucket in use once.

**EncryptedFile** is the format: what `encryptFile` makes of a file and what
`decryptFile` makes of a blob, as operators. A byte is what it stands for (offset in
the file; place in the header; place in sealed chunk i), so nothing that was put
together wrongly looks right. AES-GCM is `Opens`: a chunk opens if it is the one sealed
under that index, and for chunk 0 with that header; `deriveChunkIV` gives different
indices different IVs.

**StreamDecrypt** is `decryptWithRangeRequests`, one step per stretch between awaits:
`FileInfo`, `FetchRange` and `EndOfFile` (`ensureBytes`), `ReadPrefix`, `ReadHeader`,
`DecryptChunk`; `Breaks` is a failed request or write, at any time. The blob is any
prefix of what the encryptor made: `upload/complete` accepts a size other than the
announced one, and a PUT may have been cut off.

## 3. The runs

Passing runs:

| Run | What it shows | Bounds |
|---|---|---|
| `payment` | types, `IndexAgrees`, `PaidWasSettled`, `ReferencesAgree`, whatever fails; until a statement fails `PayableIsKnown`, `PendingIsPersisted`, `CreditedIsGone`, `ExtensionIsEarned` and that `PaymentContract` is implemented | 2 files, 2 hashes, 2 handlers, channel of 1, 1 crash, 1 failing statement, redelivered webhooks, clock 0..1 |
| `payment_live` | `SettledIsCredited` | no crash, no failure, channel that holds every hash |
| `files` | `RowHasBlob`, `PaidUntilExpiry`, `ExpiredIsRemoved`; `ServedIsWhole`, `FailsOnlyExpired`; `HostingContract` is implemented | 2 files, one uploaded by the web client and one by any requests, 1 download, unpaid timeout 1, period 2, clock 0..3, 1 failure, 1 crash, filesystem |
| `limiter` | `IndexSound`, `EntriesExpire` | 2 files, 2 IPs, clock 0..3 |
| `rate` | `RefusedIsOverdrawn`, `TokenBucket` is implemented, `IdleIsForgotten` | 1 client, 2 requests, burst 1, rate 1, TTL 4, delay 1, clock 0..6 |
| `server` | `PaidIsNotPending`, `UnpaidIsCounted`, `RunsPayments` | 2 files of one client, limit 1, channel of 1, 1 crash, 1 failure, clock 0..2 |
| `page` | `NoInvoiceMeansPaid`, `PollOutlivesRow`, `PaidIsShared`; `RunsFiles` | 1 file and its page, 1 crash, 1 failure, webhooks delivered again, clock 0..4 |
| `stream` | `BufferIsWindow`, `BufferIsBounded`, `SameAsInMemory`, `WholeFileOpens`, `Terminates` | sizes 0..6 with chunks of 2 and a tag of 1, requests of 4, headers of 5..8, every truncation |

Two files and two hashes are enough for every pair of goroutines that can meet (two
handlers and the watcher), for one file with two invoices (its row is swept and
made again) and for two files whose invoices could be mixed up. One crash separates a
first life of the process from a second, in which all that survived is used. One failing
statement is enough for every property that speaks of the time before the first one, and
shows what each of the others makes of a failure anywhere. In `files` the clock
outlasts an unpaid timeout, a hosting period and the sweep after each; the second file may do
all that, in order or not, while the first one is uploaded, paid, downloaded and swept. In `rate` two requests
are enough for every race (two first requests, a request and the cleanup; clients share
nothing), and the clock lets the cleanup drop a bucket, and a new one be made and drained.
In `page` the server may stop and start, and the sweep remove the file, between any two fetches.
In `stream` a request is longer than a sealed chunk and no multiple of it, so chunks
and header lie across requests in every way, last chunks are short, full or missing,
and one header is longer than the first request covers.

Runs in which TLC finds a violation: each is a disagreement between the code and
what a comment or the README says ("findings" in `PROJECT.json`):

| Run | Property | What happens |
|---|---|---|
| `payment_lost` | `SettledIsCredited` | the process stops after the webhook's 200, or after `DeletePendingInvoice` and before the update: the payment is gone |
| `files_zone` | `PaidUntilExpiry` | east of UTC a paid row is swept early by the offset |
| `server_limit` | `AtMostMaxPending` | uploads begun under the limit are all counted later |
| `server_gone` | `CreditFindsFile` | the payment is credited while the sweep is at the file, or after it: the blob, or the row too, is gone |

What the passing runs assume, and why: `PayableIsKnown`, `PendingIsPersisted`,
`CreditedIsGone`, `ExtensionIsEarned`, `KeepsContract` (of `payment`), `NoInvoiceMeansPaid` and
`RunsFiles` speak of the time until a statement fails (`faults = 0`), because failures of `DeletePendingInvoice` and
`SavePendingInvoice` are only logged, and then a crash does lose an open invoice or credit one
twice (the hazards list says so).
`payment_live` has a channel that holds every hash: an update that meets a full one
is dropped although its webhook is acknowledged (the log line says "may be delayed").
`files` has a server in UTC and payments that come before the row expires;
`files_zone` and `server_gone` show what happens otherwise. `RowHasBlob`, `ServedIsWhole`,
`FailsOnlyExpired`, `KeepsHosting` and the blob's half of `ExpiredIsRemoved` are about files in order (see
`FileService`): a PUT or a complete out of order does break them for its file. `server` and `page` have nobody ask
for an invoice by ID before `complete` answers, as the web client does not; with
`InvoiceByID = TRUE` an invoice may be paid before the handler tracks its file, and
the limiter then counts a paid file until its entry expires. `UnpaidIsCounted` is
about a process that has not restarted: the limiter is memory only.

Other disagreements met while modelling, for which there is no run: a blob whose upload is
never completed has no row and is never removed; the README says unpaid files are
deleted after an hour, the code's timeout is 15 minutes; `CompleteUpload`'s comment
says a wrong size is an error, the code logs it; the `pending_invoices` row of a file
swept unpaid is never removed; `MAX_BUFFER_SIZE` in `stream-decrypt.js` is used nowhere
(the buffer is bounded all the same, see `BufferIsBounded`); the encryptor limits a
name's characters, the decryptors its bytes. `handleUploadStream`'s comment
(`handler.go:211`) has the client call init first and then PUT, but the handler takes a PUT for
any well-formed ID: one for a file that has a row, paid or not, rewrites its blob, and the row
keeps its size. No run shows that; the model has these steps (`PutAgain`), and the condition
`InOrder` stands wherever a property would fail because of them.

### Fairness

`PaymentService!Fairness`: handlers and the watcher are goroutines, which the
runtime schedules; an operator restarts the server; Alby delivers a webhook until it
is answered. Nothing makes a payer pay or an uploader continue.
`FileService!FairSpec`: the ticker starts sweeps, and a sweep goes on.
`Download!FairDownloadSpec`: the same; nothing is assumed of requests.
`PendingLimiter!FairSpec`: the ticker, and time itself.
`RateLimiter!FairSpec`: the ticker, a request goes on once it is in the middleware, and time
passes (strongly fair, since a request that has spent its `MaxDelay` stops the model's
clock until it goes on, and requests never end).
`PendingPage!FairPageSpec`: the page's script goes on while it is open, and an operator restarts
the server; nothing makes a payer pay, or the server credit in time.
`StreamDecrypt!FairSpec`: an await returns.

`CHECK_DEADLOCK FALSE` everywhere: the bounded clock ends, all uploads may be over,
all invoices settled, and a download ends; a server without requests may be quiet.

## 4. The proofs

All hold for any sets of files, hashes, handlers, clients and sizes, any timeouts and channel
capacity, and any number of crashes and failing statements. The assumptions are those of the
modules (the bounds are naturals; an empty blob is no upload of the web client; in `RateLimiter`,
a client that keeps off a bucket is as good as new when the cleanup may drop it; in
`StreamDecrypt`, the first request covers the header of any name that is allowed, 2048 bytes for
1050) and the conditions named below.

**Payments** (`PaymentServiceProofs`).

* `TypeCorrect`, `ReferencesCorrect` (`ReferencesAgree`): nothing that holds a reference to an
  invoice (maps, table, channel, webhooks, handlers, watcher) ever confuses the file it
  is for, and whatever is on its way as a settlement is settled in the wallet. Inductive
  together with `TypeOK`.
* `IndexCorrect` (`IndexAgrees`). The step that needs an argument is `TakeUpdate`, which deletes
  `byFileID[pending[h]]` whatever invoice that names: any other file's entry names
  another hash, because `IndexAgrees` makes `pending[byFileID[f]] = f`.
* `NobodyIsHostedForFree` (`PaidWasSettled`) rests on `ReferencesAgree`: `MarkPaid` marks the file
  the watcher holds, for which the watcher's hash is a settled invoice; and no later step
  un-settles an invoice or changes its file (`WalletGrows`).

**Recovery** (`PaymentRecoveryProofs`): what holds until a statement fails. `PendingIsPersisted` and
`CreditedIsGone` are not inductive; the strengthening is `Base` (with `DownIsIdle`: a process that
is down has empty maps and no calls; and `UnregisteredIsPrivate`: an invoice before its
registration belongs to one handler, is shown to nobody and unpaid) and `OfferedIsPersisted`
(what a payer may have seen is in the table until it is settled). From it `OpenInvoicesSurvive`,
`UsedInvoicesAreGone`, `PayableInvoicesAreKnown`, `PaymentsExtendOnce` (an action property:
`ExtensionIsEarned`) and `ServiceKeepsContract`: the refinement of `PaymentContract`, one step of the
contract for `WalletCreates`, `Settle`, `CompleteUpload`, `FileSwept` and `MarkPaid` each, and
a stutter for the rest.

**Files** (`FileServiceProofs`, with `StoreProofs` on the SQL statements). `DownloadTypeCorrect` has no
condition. `RowsHaveBlobs` assumes payments in time (`~LatePayments`); `PaidRowsStay`,
`DownloadsAreWhole`, `DownloadsFailOnlyExpired` and `ServiceKeepsHosting` also a server in UTC or
west of it (`ZoneOffset <= 0`): `files_zone` and `server_gone` show that both are needed. The
strengthening: while its requests are in order, a file has no row before its upload is over
(`UploadsAgree`); the web client's are always in order (`StrictAgrees`); what the sweep holds
has a row until the sweep deletes it (`SweptHasRow`), which has expired
(`SweptIsExpired`); the blob behind a request is the one its row was checked for, or gone
(`RequestAgrees`). The theorems allow any requests for any file (`WebUploads` may be empty), with
retries, overlaps and PUTs to paid files; what they conclude is about each file whose own requests
came in order, whatever is sent for the others.

**Limits.** `PendingLimiterProofs`: `LimiterTypeCorrect`, `IndexIsSound`, inductive together.
`RateLimiterProofs`: `TypeCorrect`; `NobodyIsShortChanged` (`RefusedIsOverdrawn`) by
`BucketsSuffice`: every bucket the map or a request refers to has at least what an ideal one of
`Burst` would have. An `Allow` takes from one bucket and from the ideal one, so each bucket must
have one owner (`BucketsAreOwned`).

`LimiterKeepsContract` (`KeepsContract`, a refinement): all the buckets a client ever uses let through
no more than one of `Capacity` would. At first sight that adds up the tokens of any number of
buckets. But a client never uses more than two, the one in the map and at most one the cleanup dropped
while a request still held it (`OneDropped`): the next drop comes a `TTL` after that,
when every such request has long gone on. So the invariant `Covered` bounds
the ideal bucket by numbers: it has what the bucket in the map has (`FreshIsCovered`), what both
have if a dropped one is still held (`DroppedIsCovered`), and, before a drop, a whole `Burst`
more than the bucket, if that has been idle for long enough (`IdleRefills`, `DropIsCovered`). "Idle"
needs `Timing`: a request is at most `MaxDelay` behind the clock, and `lastSeen` at most
that much behind the last use. The assumption on the constants was found here: a late `Touch` sets
`lastSeen` back, so that a bucket may be in use until `2 * MaxDelay` after it; a `TTL` that allows for
one `MaxDelay` only lets a client have a token too many, on a trace that TLC confirms.

**The whole server** (`ServerProofs`). `Base` is what the three components say of their own
variables. Every step of the server is a step of `PaymentService` or leaves it alone
(`PaymentsStep`), is a step of the file service or touches only the contents of rows (`FilesStep`), and
is one of the limiter or leaves it alone (`LimiterStep`); so the components' own lemmas keep `Base`,
and none of their proofs is repeated. From it `TypeCorrect`; `ServerRunsPayments`
(`RunsPayments`, a refinement); and the payment service's own promises, with uploads, sweeps,
limits and crashes around it: `ServerHostsNobodyForFree`, and, since the
server keeps what a restart can recover (`RecoverableAlways`), `ServerForgetsNoInvoice`,
`ServerExtendsOnce` and `ServerKeepsContract`, the refinement of `PaymentContract` by the whole server.
When nobody asks for an invoice by ID before `complete` has answered (`~InvoiceByID`), also:

* `PaidStopsCounting` (`PaidIsNotPending`), by `CallsAgree`, `UploadingIsFree` and `UnansweredIsUnpaid`:
  until the handler answers, nobody has seen the invoice, so that the callback cannot come
  before the file is tracked. `Moves(f)` says what one step can do to one file, and each
  group of actions is shown to do no more.
* `UnpaidKeepsCounting` (`UnpaidIsCounted`), by `TrackedIsInvoiced`, `TakenIsForgotten` (the watcher is
  never busy with a file the index still names), `RowsExpireSoon` and `CountedInTime` (an
  entry is no older than its row, so that the cleanup drops it after the row's expiry and not
  before), in the same way with `Counts(f)`.
* `ServerRunsFiles` (`RunsFiles`, a refinement), by `CreditsUnpaid`: one handler makes one
  invoice for a file (`InvoicesAreUnique`), and a credited one is not taken again, after any
  number of crashes and redeliveries, so that a row is credited while it is unpaid. This is
  what `FileService` assumes in `PaymentArrives`. `Whole` collects the invariants it rests on.

**The page** (also in `ServerProofs`, under `~InvoiceByID`): a step of the page is one of the
server's or a SELECT that fails (`PageStep`), so that `Whole` holds behind it, with
`PendingIsIndexed` (what is pending can be shown). From it `PageTypeCorrect`; `NoInvoiceIsPaid`
(`NoInvoiceMeansPaid`: an open page has an invoice that was shown (`OpenIsPayable`), which by
`OfferedIsPersisted` is pending, and so indexed, until it is settled); and, with
`PendingTimeout <= MaxPoll`, `PageOutlivesRow` (`PollOutlivesRow`, by `PollsInTime`: a page begins to poll
when its row is already there, and no row is made anew for a file that can be paid).

**The streaming decryptor** (`StreamDecryptProofs`), for files, chunks and requests of any size:
`MemoryIsBounded` (`BufferIsBounded`), by the counters alone: a request is made only while fewer bytes
are there than one chunk or header needs, and no sealed chunk is longer than `CHUNK_SIZE` and its tag
because `ChunkCount` rounds up (`ChunksCover`, `ChunkFits`); and `DoneIsWhole`: a download that completes
has written the whole file, each chunk where the last one ended (`WrittenInOrder`, `SlicesJoin`).

The other theorems are about what the buffers hold: `StreamTypeCorrect` (`TypeOK`), `BufferIsExact`
(`BufferIsWindow`), `StreamsAsInMemory` (`SameAsInMemory`), `WholeFilesDownload` (`WholeFileOpens`) and
`DecryptsWhatWasEncrypted`, the round trip of `encryptFile` and `decryptFile`.

* `FlattenSeq` and `FoldLeft` are recursive functions. `SetInduction` is induction over a set of
  naturals (from the well-foundedness of `<`), which needs no operator as a parameter: with it the
  function each of them chooses is shown to exist (`FlatteningExists`, `FoldingExists`), hence to
  obey its equations (`FlattenAppend`, `ConsumeBytesIs`). `ConsumeSplits` then says what
  `consumeBytes` does to any list of buffers: what it takes and what it leaves, put
  together, are what was there.
* The inductive invariant is `Progress`, checked with TLC before it was proved: the buffers hold the
  bytes from `Used` to `fetchOffset` (`Window`); the header consumed is the one `decryptFile` would
  slice off (`HasHeader`), and the chunks consumed opened (`Opened`); and a download that has failed
  by itself is one `decryptFile` refuses, too. For the last, `ShortIsRefused` and
  `ShortHeaderIsRefused` show that a blob that ends early cannot be opened in memory.
* `SealedIsFound` says where in the encryptor's output each sealed chunk lies, and
  `PiecesAreSealed` that the decryptors look for it there, also when the chunks come out even or there are none.

Each proof has the same shape: `NextCases` splits the step into the actions once,
one lemma per invariant takes each action in turn, and the theorem adds the initial
state and `PTL`.

**Only model-checked**: all liveness (`SettledIsCredited`, `ExpiredIsRemoved`, `EntriesExpire`,
`IdleIsForgotten`, `PaidIsShared`, `Terminates`), which is out of this prover's reach, as is
`ENABLED`. Every invariant and every action property of a passing run is also a theorem.

## 5. Plan

Done: all components that carry state, their contracts, their composition, the page in
front of it, and the proofs above. What is left is `ShutdownSequence`: signal handler,
`Shutdown`, cancelled contexts and the handlers still running, as a refinement of `Crash`;
and `Server` with other uploads than the web client's, so that `RunsFiles` holds of any requests.
