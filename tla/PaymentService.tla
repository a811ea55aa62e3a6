---------------------------- MODULE PaymentService ----------------------------
(***************************************************************************)
(* internal/payments: invoices are created by upload handlers, each in its *)
(* own goroutine, and credited by one watcher goroutine that reads the     *)
(* wallet's updates from a bounded channel.  The two share maps guarded by *)
(* a mutex, and the pending_invoices table that outlives the process.  A   *)
(* step is one critical section, one SQL statement or one channel          *)
(* operation, so that every interleaving of the goroutines between those   *)
(* is a behaviour.                                                         *)
(*                                                                         *)
(* The wallet (Alby), its webhook deliveries and the payer are the         *)
(* environment: external definitions, modelled from how the code uses them.*)
(***************************************************************************)
EXTENDS Store, Sequences

CONSTANTS
  Requests,         \* handler goroutines that may create an invoice
  ChannelCap,       \* capacity of the updates channel (1000 in the code)
  MaxCrashes,       \* bound on crashes and shutdowns
  AcksMayBeLost     \* may the wallet deliver an acknowledged webhook again?

ASSUME PaymentAssumption ==
  /\ ChannelCap \in Nat
  /\ MaxCrashes \in Nat
  /\ AcksMayBeLost \in BOOLEAN

VARIABLES
  up,         \* is the server process running?
  crashes,    \* how often it has stopped
  pending,    \* Service.pending: payment hash -> file
  byFileID,   \* Service.byFileID: file -> payment hash of its invoice
  updates,    \* the channel of settled hashes
  watcher,    \* the goroutine of StartPaymentWatcher
  invoicing,  \* the CreateInvoiceForFile call of each handler
  wallet,     \* external: the invoices at Alby
  webhooks,   \* external: hashes whose webhook Alby still has to deliver
  shown,      \* external: hashes whose payment request a payer has seen
  credited    \* history: hashes that marked a row paid

memory == <<pending, byFileID, updates, watcher, invoicing>>
tables == <<now, files, invoices, faults>>
world  == <<wallet, webhooks, shown>>
vars   == <<tables, memory, world, up, crashes, credited>>

Idle      == [pc |-> "idle"]
Receiving == [pc |-> "receive"]

WalletInvoice == [file: FileIDs, settled: BOOLEAN]

InvoicingState == {Idle} \cup [pc: {"wallet"}, file: FileIDs]
                         \cup [pc: {"persist", "register", "respond"}, file: FileIDs, hash: Hashes]

WatcherState == {Receiving} \cup [pc: {"unpersist", "mark", "notify"}, file: FileIDs, hash: Hashes]

\* Every variable holds a value of the type its declaration in the code gives
\* it, the updates channel never holds more than its capacity, and a process
\* that is down has no memory.
TypeOK ==
  /\ StoreTypeOK
  /\ up \in BOOLEAN
  /\ crashes \in 0..MaxCrashes
  /\ IsMap(pending, Hashes, FileIDs)
  /\ IsMap(byFileID, FileIDs, Hashes)
  /\ updates \in Seq(Hashes) /\ Len(updates) <= ChannelCap
  /\ watcher \in WatcherState
  /\ invoicing \in [Requests -> InvoicingState]
  /\ IsMap(wallet, Hashes, WalletInvoice)
  /\ webhooks \subseteq Hashes
  /\ shown \subseteq Hashes
  /\ credited \subseteq Hashes

NoCalls == [q \in Requests |-> Idle]

Init ==
  /\ ClockInit
  /\ StoreInit
  /\ pending = EmptyMap
  /\ byFileID = EmptyMap
  /\ updates = <<>>
  /\ watcher = Receiving
  /\ invoicing = NoCalls
  /\ up = TRUE
  /\ crashes = 0
  /\ wallet = EmptyMap
  /\ webhooks = {}
  /\ shown = {}
  /\ credited = {}

-----------------------------------------------------------------------------
(***************************************************************************)
(* CreateInvoiceForFile, run by the handler q of upload/complete           *)
(***************************************************************************)

\* The handler calls it once the row of f is saved
CallCreateInvoice(q, f) ==
  /\ up
  /\ invoicing[q] = Idle
  /\ invoicing' = [invoicing EXCEPT ![q] = [pc |-> "wallet", file |-> f]]

\* The call of q, having an invoice, goes on to the given step
Goes(q, step) ==
  invoicing' = [invoicing EXCEPT ![q] = [pc |-> step, file |-> @.file, hash |-> @.hash]]

\* lnd.CreateInvoice returns a fresh invoice
WalletCreates(q, h) ==
  /\ invoicing[q].pc = "wallet"
  /\ h \notin DOMAIN wallet
  /\ wallet' = MapPut(wallet, h, [file |-> invoicing[q].file, settled |-> FALSE])
  /\ invoicing' = [invoicing EXCEPT ![q] =
                     [pc |-> "persist", file |-> invoicing[q].file, hash |-> h]]
  /\ UNCHANGED <<tables, pending, byFileID, updates, watcher, webhooks, shown, up, crashes, credited>>

\* lnd.CreateInvoice returns an error, or the memo's fileID[:8] panics on a
\* shorter ID (net/http recovers): the handler stops and the row stays
WalletRefuses(q) ==
  /\ invoicing[q].pc = "wallet"
  /\ invoicing' = [invoicing EXCEPT ![q] = Idle]
  /\ UNCHANGED <<tables, pending, byFileID, updates, watcher, world, up, crashes, credited>>

\* SavePendingInvoice: its error is logged and the call goes on
PersistInvoice(q) ==
  /\ invoicing[q].pc = "persist"
  /\ \/ SavePendingInvoice(invoicing[q].hash, invoicing[q].file) /\ UNCHANGED faults
     \/ StoreFails /\ UNCHANGED invoices
  /\ Goes(q, "register")
  /\ UNCHANGED <<now, files, pending, byFileID, updates, watcher, world, up, crashes, credited>>

\* Fault: one invoice per file, the first
RegisterFirstInvoice(q) ==
  /\ invoicing[q].pc = "register"
  /\ \/ /\ invoicing[q].file \notin DOMAIN byFileID
        /\ pending' = MapPut(pending, invoicing[q].hash, invoicing[q].file)
        /\ byFileID' = MapPut(byFileID, invoicing[q].file, invoicing[q].hash)
     \/ invoicing[q].file \in DOMAIN byFileID /\ UNCHANGED <<pending, byFileID>>
  /\ Goes(q, "respond")
  /\ UNCHANGED <<tables, updates, watcher, world, up, crashes, credited>>

\* The critical section: only now can a settlement of h be recognised
RegisterInvoice(q) ==
  /\ invoicing[q].pc = "register"
  /\ pending' = MapPut(pending, invoicing[q].hash, invoicing[q].file)
  /\ byFileID' = MapPut(byFileID, invoicing[q].file, invoicing[q].hash)
  /\ Goes(q, "respond")
  /\ UNCHANGED <<tables, updates, watcher, world, up, crashes, credited>>

\* The handler's JSON response shows the payment request to the uploader
Respond(q) ==
  /\ invoicing[q].pc = "respond"
  /\ shown' = shown \cup {invoicing[q].hash}
  /\ invoicing' = [invoicing EXCEPT ![q] = Idle]
  /\ UNCHANGED <<tables, pending, byFileID, updates, watcher, wallet, webhooks, up, crashes, credited>>

\* GET /api/file/{id}/invoice: anyone with the link may see the payment request
GetInvoiceForFile(f) ==
  /\ up
  /\ f \in DOMAIN byFileID
  /\ shown' = shown \cup {byFileID[f]}
  /\ UNCHANGED <<tables, memory, wallet, webhooks, up, crashes, credited>>

-----------------------------------------------------------------------------
(***************************************************************************)
(* Settlement: payer, wallet, webhook                                      *)
(***************************************************************************)

Settled(h) == h \in DOMAIN wallet /\ wallet[h].settled

\* A payer who has seen the payment request pays it; Alby queues the webhook
Settle(h) ==
  /\ h \in shown
  /\ h \in DOMAIN wallet /\ ~wallet[h].settled
  /\ wallet' = [wallet EXCEPT ![h] = [file |-> @.file, settled |-> TRUE]]
  /\ webhooks' = webhooks \cup {h}
  /\ UNCHANGED <<tables, memory, shown, up, crashes, credited>>

\* Fault: a channel without a bound
SendUnbounded(h) == updates' = Append(updates, h)

\* The non-blocking send: a full channel drops the update with a log line
Send(h) == updates' = IF Len(updates) < ChannelCap THEN Append(updates, h) ELSE updates

\* Fault: the payload's "settled" flag is not looked at
HandleAnyWebhook(h) ==
  /\ up
  /\ h \in DOMAIN wallet
  /\ Send(h)
  /\ webhooks' = webhooks \ {h}
  /\ UNCHANGED <<tables, pending, byFileID, watcher, invoicing, wallet, shown, up, crashes, credited>>

\* POST /api/webhook/alby: 200 in both cases, and Alby delivers again only a
\* webhook it has no answer to
HandleWebhook(h) ==
  /\ up
  /\ h \in webhooks
  /\ Send(h)
  /\ \/ webhooks' = webhooks \ {h}
     \/ AcksMayBeLost /\ UNCHANGED webhooks
  /\ UNCHANGED <<tables, pending, byFileID, watcher, invoicing, wallet, shown, up, crashes, credited>>

-----------------------------------------------------------------------------
(***************************************************************************)
(* The watcher goroutine                                                   *)
(***************************************************************************)

\* Fault: the invoice leaves one of the two maps only
TakeUpdateKeepsIndex ==
  /\ watcher = Receiving /\ updates /= <<>>
  /\ updates' = Tail(updates)
  /\ LET h == Head(updates) IN
       \/ /\ h \in DOMAIN pending
          /\ pending' = MapDelete(pending, h)
          /\ watcher' = [pc |-> "unpersist", file |-> pending[h], hash |-> h]
       \/ h \notin DOMAIN pending /\ UNCHANGED <<pending, watcher>>
  /\ UNCHANGED <<tables, byFileID, invoicing, world, up, crashes, credited>>

\* Fault: the invoice stays in both, and a redelivered webhook finds it again
TakeUpdateKeepsInvoice ==
  /\ watcher = Receiving /\ updates /= <<>>
  /\ updates' = Tail(updates)
  /\ LET h == Head(updates) IN
       \/ /\ h \in DOMAIN pending
          /\ watcher' = [pc |-> "unpersist", file |-> pending[h], hash |-> h]
       \/ h \notin DOMAIN pending /\ UNCHANGED watcher
  /\ UNCHANGED <<tables, pending, byFileID, invoicing, world, up, crashes, credited>>

\* Receive an update and run the critical section of handlePayment: a hash
\* that is not pending is ignored
TakeUpdate ==
  /\ watcher = Receiving
  /\ updates /= <<>>
  /\ updates' = Tail(updates)
  /\ LET h == Head(updates) IN
       \/ /\ h \in DOMAIN pending
          /\ pending' = MapDelete(pending, h)
          /\ byFileID' = MapDelete(byFileID, pending[h])
          /\ watcher' = [pc |-> "unpersist", file |-> pending[h], hash |-> h]
       \/ /\ h \notin DOMAIN pending
          /\ UNCHANGED <<pending, byFileID, watcher>>
  /\ UNCHANGED <<tables, invoicing, world, up, crashes, credited>>

\* Fault: the row of the table stays, and a restart brings the invoice back
UnpersistNothing ==
  /\ watcher.pc = "unpersist"
  /\ watcher' = [pc |-> "mark", file |-> watcher.file, hash |-> watcher.hash]
  /\ UNCHANGED <<tables, pending, byFileID, updates, invoicing, world, up, crashes, credited>>

\* DeletePendingInvoice: its error is logged and the payment goes on
Unpersist ==
  /\ watcher.pc = "unpersist"
  /\ \/ DeletePendingInvoice(watcher.hash) /\ UNCHANGED faults
     \/ StoreFails /\ UNCHANGED invoices
  /\ watcher' = [pc |-> "mark", file |-> watcher.file, hash |-> watcher.hash]
  /\ UNCHANGED <<now, files, pending, byFileID, updates, invoicing, world, up, crashes, credited>>

\* UpdatePaymentStatus: a missing row, or an error, is logged as CRITICAL and
\* the payment is over
MarkPaid ==
  /\ watcher.pc = "mark"
  /\ \/ /\ UpdatePaymentStatus(watcher.file)
        /\ credited' = credited \cup {watcher.hash}
        /\ UNCHANGED faults
     \/ /\ watcher.file \notin DOMAIN files
        /\ UNCHANGED <<files, faults, credited>>
     \/ StoreFails /\ UNCHANGED <<files, credited>>
  /\ watcher' = [pc |-> "notify", file |-> watcher.file, hash |-> watcher.hash]
  /\ UNCHANGED <<now, invoices, pending, byFileID, updates, invoicing, world, up, crashes>>

\* The payment callback (the pending-file limiter); a panic in it is recovered
Notify ==
  /\ watcher.pc = "notify"
  /\ watcher' = Receiving
  /\ UNCHANGED <<tables, pending, byFileID, updates, invoicing, world, up, crashes, credited>>

-----------------------------------------------------------------------------
(***************************************************************************)
(* Stopping and starting the process                                       *)
(***************************************************************************)

\* A crash; also a graceful shutdown, since ListenAndServe returns at once and
\* main exits without waiting for the handlers or the watcher
Crash ==
  /\ up
  /\ crashes < MaxCrashes
  /\ crashes' = crashes + 1
  /\ up' = FALSE
  /\ pending' = EmptyMap
  /\ byFileID' = EmptyMap
  /\ updates' = <<>>
  /\ watcher' = Receiving
  /\ invoicing' = NoCalls
  /\ UNCHANGED <<tables, world, credited>>

\* Fault: the maps keep pointers to the loop's variable, the last row read
LoadLastInvoice ==
  \E last \in DOMAIN invoices :
    /\ pending' = [h \in DOMAIN invoices |-> invoices[last]]
    /\ byFileID' = [f \in {invoices[h] : h \in DOMAIN invoices} |-> last]

\* Of several invoices for a file, the last row of the result set is indexed;
\* the SELECT has no ORDER BY
LoadPendingInvoices ==
  /\ pending' = invoices
  /\ \E index \in [{invoices[h] : h \in DOMAIN invoices} -> DOMAIN invoices] :
       /\ \A f \in DOMAIN index : invoices[index[f]] = f
       /\ byFileID' = index

\* Fault: main starts to serve without loading the open invoices
RestartEmpty ==
  /\ ~up
  /\ up' = TRUE
  /\ UNCHANGED <<tables, memory, world, crashes, credited>>

\* main: a failure to load is a warning, and the server starts without them
Restart ==
  /\ ~up
  /\ up' = TRUE
  /\ \/ LoadPendingInvoices /\ UNCHANGED faults
     \/ StoreFails /\ UNCHANGED <<pending, byFileID>>
  /\ UNCHANGED <<now, files, invoices, updates, watcher, invoicing, world, crashes, credited>>

-----------------------------------------------------------------------------
(***************************************************************************)
(* The rest of the server, as far as this component can see it             *)
(***************************************************************************)

\* handleUploadComplete saves the row of f, then asks for its invoice
CompleteUpload(q, f) ==
  /\ CallCreateInvoice(q, f)
  /\ \E size \in Sizes : SaveFileMetadata(f, PendingMeta(size))
  /\ UNCHANGED <<now, invoices, faults, pending, byFileID, updates, watcher, world, up, crashes, credited>>

\* The cleanup goroutine removes the row of an expired file; this component
\* does not know when, so at any time
FileSwept(f) ==
  /\ up
  /\ DeleteFileMetadata(f)
  /\ UNCHANGED <<now, invoices, faults, memory, world, up, crashes, credited>>

\* A statement of another handler or of the sweep, or a storage call, fails
OtherCallFails ==
  /\ up
  /\ StoreFails
  /\ UNCHANGED <<now, files, invoices, memory, world, up, crashes, credited>>

TimePasses ==
  /\ Tick
  /\ UNCHANGED <<files, invoices, faults, memory, world, up, crashes, credited>>

HandlerStep(q) ==
  \/ \E h \in Hashes : WalletCreates(q, h)
  \/ WalletRefuses(q)
  \/ PersistInvoice(q)
  \/ RegisterInvoice(q)
  \/ Respond(q)

WatcherStep == TakeUpdate \/ Unpersist \/ MarkPaid \/ Notify

Next ==
  \/ \E q \in Requests, f \in FileIDs : CompleteUpload(q, f)
  \/ \E q \in Requests : HandlerStep(q)
  \/ \E f \in FileIDs : GetInvoiceForFile(f) \/ FileSwept(f)
  \/ \E h \in Hashes : Settle(h) \/ HandleWebhook(h)
  \/ WatcherStep
  \/ Crash \/ Restart
  \/ OtherCallFails
  \/ TimePasses

Spec == Init /\ [][Next]_vars

(***************************************************************************)
(* Goroutines that can run do run, the operator restarts the server, and   *)
(* Alby delivers a webhook until it is acknowledged.  Nothing makes a      *)
(* payer pay or an uploader upload.                                        *)
(***************************************************************************)
Fairness ==
  /\ \A q \in Requests : WF_vars(HandlerStep(q))
  /\ WF_vars(WatcherStep)
  /\ WF_vars(Restart)
  /\ \A h \in Hashes : WF_vars(HandleWebhook(h))

FairSpec == Spec /\ Fairness

-----------------------------------------------------------------------------
(***************************************************************************)
(* Properties                                                              *)
(***************************************************************************)

\* The two maps are updated in one critical section each time: whatever
\* invoice the index offers for a file is still pending, and for that file.
\* GET /invoice never shows an invoice whose settlement would be ignored,
\* though a file may have had several invoices and paid any of them.
IndexAgrees ==
  \A f \in DOMAIN byFileID : LET h == byFileID[f] IN h \in DOMAIN pending /\ pending[h] = f

\* Nobody is hosted for free: a row is marked paid only after the wallet
\* settled an invoice made for that very file, across restarts, failing
\* statements, redelivered webhooks and rows that were swept and made again.
PaidWasSettled ==
  \A f \in DOMAIN files :
    files[f].paid => \E h \in credited : Settled(h) /\ wallet[h].file = f

\* While no statement has failed, whatever a payer may pay at this moment is
\* known to the watcher: a payment request is seen only after its invoice is
\* persisted and registered, and a restart brings it back before the server
\* accepts webhooks.  (If SavePendingInvoice fails, a restart forgets it.)
PayableIsKnown ==
  faults = 0 => \A h \in shown :
    up /\ ~Settled(h) => h \in DOMAIN pending /\ pending[h] = wallet[h].file

\* While no statement has failed, memory never holds an invoice the table has
\* lost, so that a crash at any step of a handler or of the watcher forgets no
\* open invoice.
PendingIsPersisted ==
  faults = 0 => \A h \in DOMAIN pending : h \in DOMAIN invoices /\ invoices[h] = pending[h]

\* While no statement has failed, a row's expiry moves only when a settlement of
\* the file that was never used before is used up: one payment buys one hosting
\* period, however often its webhook is delivered and wherever the server
\* crashes.  (If DeletePendingInvoice fails, then after a crash the invoice is
\* credited again.)
ExtensionIsEarned ==
  [][faults' = 0 => \A f \in DOMAIN files \cap DOMAIN files' :
       files'[f] /= files[f] =>
         \E h \in credited' \ credited : Settled(h) /\ wallet[h].file = f]_vars

\* A settlement the wallet announces is credited in the end, unless the row of
\* its file was removed first.  It needs a process that does not stop, a channel
\* that does not fill up, and statements that do not fail.
SettledIsCredited ==
  \A h \in Hashes :
    h \in webhooks ~>
      (h \in credited \/ (h \in DOMAIN wallet /\ wallet[h].file \notin DOMAIN files))

\* The goroutines, maps, table and channel together keep the contract: rows and
\* invoices change only as PaymentContract lets them, as long as no statement
\* has failed (see ExtensionIsEarned).
Contract == INSTANCE PaymentContract WITH
  paidRows   <- [f \in DOMAIN files |-> files[f].paid],
  invoiceFor <- [h \in DOMAIN wallet |-> wallet[h].file],
  settled    <- {h \in DOMAIN wallet : wallet[h].settled},
  spent      <- credited

KeepsContract ==
  Contract!Init /\ [][faults' = 0 => [Contract!Next]_(Contract!contractVars)]_vars

-----------------------------------------------------------------------------
(***************************************************************************)
(* What the invariants above rest on; their conjunction with these is      *)
(* inductive (PaymentServiceProofs).                                       *)
(***************************************************************************)

InvoiceIsFor(h, f) == h \in DOMAIN wallet /\ wallet[h].file = f

HasInvoice(q) == invoicing[q].pc \in {"persist", "register", "respond"}

\* Every reference to an invoice that memory, table, channel or a webhook holds
\* is to an invoice of the wallet, for the same file, and settled where a
\* settlement is on its way: no step loses track of which file was paid for.
ReferencesAgree ==
  /\ \A h \in DOMAIN pending : InvoiceIsFor(h, pending[h])
  /\ \A h \in DOMAIN invoices : InvoiceIsFor(h, invoices[h])
  /\ \A q \in Requests : HasInvoice(q) => InvoiceIsFor(invoicing[q].hash, invoicing[q].file)
  /\ \A h \in webhooks \cup credited : Settled(h)
  /\ \A i \in 1..Len(updates) : Settled(updates[i])
  /\ watcher.pc /= "receive" => Settled(watcher.hash) /\ InvoiceIsFor(watcher.hash, watcher.file)

\* A process that is down runs nothing and remembers nothing
DownIsIdle ==
  ~up => /\ watcher = Receiving /\ invoicing = NoCalls
         /\ pending = EmptyMap /\ byFileID = EmptyMap /\ updates = <<>>

\* An invoice that is not registered yet belongs to one handler, and nobody else
\* knows it: it cannot be paid before the watcher can recognise it.
UnregisteredIsPrivate ==
  /\ shown \subseteq DOMAIN wallet
  /\ \A q \in Requests : HasInvoice(q) =>
       /\ \A r \in Requests \ {q} : HasInvoice(r) => invoicing[r].hash /= invoicing[q].hash
       /\ invoicing[q].pc \in {"persist", "register"} =>
            /\ invoicing[q].hash \notin shown \cup DOMAIN pending
            /\ ~Settled(invoicing[q].hash)

\* Whoever shows an invoice has persisted it, and while the process runs it is
\* pending until it is settled, as long as no statement has failed.
Offered(h) == h \in shown \/ \E q \in Requests : invoicing[q].pc = "respond" /\ invoicing[q].hash = h

OfferedIsPersisted ==
  faults = 0 =>
    /\ \A h \in Hashes : Offered(h) /\ ~Settled(h) =>
         h \in DOMAIN invoices /\ (up => h \in DOMAIN pending)
    /\ \A q \in Requests : invoicing[q].pc = "register" => invoicing[q].hash \in DOMAIN invoices

\* An invoice being credited, or credited, is out of the map, and once it is
\* about to be marked, out of the table: no redelivery and no restart can bring
\* it back, as long as no statement has failed.
CreditedIsGone ==
  faults = 0 =>
    /\ credited \cap (DOMAIN pending \cup DOMAIN invoices) = {}
    /\ watcher.pc /= "receive" => watcher.hash \notin DOMAIN pending
    /\ watcher.pc \in {"mark", "notify"} => watcher.hash \notin DOMAIN invoices
    /\ watcher.pc \in {"unpersist", "mark"} => watcher.hash \notin credited

=============================================================================
