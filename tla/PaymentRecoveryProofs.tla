------------------------ MODULE PaymentRecoveryProofs ------------------------
(***************************************************************************)
(* Theorems about PaymentService while no statement has failed: crashes    *)
(* and redelivered webhooks neither lose an open invoice nor credit one    *)
(* twice, and the service implements PaymentContract.                      *)
(***************************************************************************)
EXTENDS PaymentServiceProofs

\* What is invariant whatever fails ...
Base == TypeOK /\ ReferencesAgree /\ IndexAgrees /\ DownIsIdle /\ UnregisteredIsPrivate

\* ... and with it, what holds until a statement fails.
Recoverable == OfferedIsPersisted /\ PendingIsPersisted /\ CreditedIsGone

\* Failures are counted, and the count never goes down.
LEMMA NoFaults ==
  ASSUME TypeOK, [Next]_vars, faults' = 0
  PROVE  faults = 0 /\ ~StoreFails
<1>1. faults \in Nat
  BY DEF TypeOK, StoreTypeOK
<1>2. ~StoreFails
  BY <1>1 DEF StoreFails
<1>3. UNCHANGED faults \/ StoreFails
  BY NextCases
     DEF CompleteUpload, WalletCreates, WalletRefuses, PersistInvoice, RegisterInvoice, Respond,
         GetInvoiceForFile, FileSwept, Settle, HandleWebhook, TakeUpdate, Unpersist, MarkPaid, Notify,
         Crash, Restart, TimePasses, OtherCallFails, vars, tables
<1> QED BY <1>2, <1>3

-----------------------------------------------------------------------------
(***************************************************************************)
(* A stopped process                                                       *)
(***************************************************************************)

\* Only Restart and Crash change whether the process runs, and nothing runs, or
\* is sent to it, while it does not.
LEMMA DownStep == TypeOK /\ DownIsIdle /\ [Next]_vars => DownIsIdle'
<1> SUFFICES ASSUME TypeOK, DownIsIdle, [Next]_vars, ~up' PROVE DownIsIdle'
  BY DEF DownIsIdle
<1>1. CASE Crash
  BY <1>1 DEF Crash, DownIsIdle
<1>2. CASE ~Crash
  <2>1. ~up /\ ~Restart
    <3>1. ~Restart
      BY Zenon DEF Restart
    <3>2. up' = up
      BY <1>2, <3>1, Frame
    <3> QED BY <3>1, <3>2, Zenon
  <2>2. /\ watcher = Receiving /\ invoicing = NoCalls
        /\ pending = EmptyMap /\ byFileID = EmptyMap /\ updates = <<>>
    BY <2>1 DEF DownIsIdle
  <2>3. \A q \in Requests : invoicing[q] = Idle
    BY <2>2 DEF NoCalls
  <2>4. UNCHANGED <<watcher, pending, byFileID, updates, invoicing>>
    <3>1. ~TakeUpdate /\ ~Unpersist /\ ~MarkPaid /\ ~Notify
      BY <2>2 DEF TakeUpdate, Unpersist, MarkPaid, Notify, Receiving
    <3>2. \A h \in Hashes : ~HandleWebhook(h)
      BY <2>1 DEF HandleWebhook
    <3>3. \A q \in Requests : \A f \in FileIDs : ~CompleteUpload(q, f)
      BY <2>1 DEF CompleteUpload, CallCreateInvoice
    <3>4. \A q \in Requests : /\ \A h \in Hashes : ~WalletCreates(q, h)
                              /\ ~WalletRefuses(q) /\ ~PersistInvoice(q)
                              /\ ~RegisterInvoice(q) /\ ~Respond(q)
      BY <2>3 DEF WalletCreates, WalletRefuses, PersistInvoice, RegisterInvoice, Respond, Idle
    <3> QED BY <1>2, <2>1, <3>1, <3>2, <3>3, <3>4, Frame
  <2> QED BY <2>2, <2>4 DEF DownIsIdle
<1> QED BY <1>1, <1>2

-----------------------------------------------------------------------------
(***************************************************************************)
(* An invoice between its making and its registration                      *)
(***************************************************************************)

Unregistered(q) == invoicing[q].pc \in {"persist", "register"}

\* A handler keeps its invoice through the steps of the call, in their order, and
\* gets it from the wallet.
LEMMA HandlerKeeps ==
  ASSUME TypeOK, [Next]_vars, NEW r \in Requests, HasInvoice(r)'
  PROVE  \/ /\ HasInvoice(r) /\ invoicing'[r].hash = invoicing[r].hash
            /\ Unregistered(r)' => Unregistered(r)
            /\ invoicing'[r].pc = "register" => invoicing[r].pc = "register" \/ PersistInvoice(r)
            /\ invoicing'[r].pc = "respond" => invoicing[r].pc = "respond" \/ RegisterInvoice(r)
         \/ /\ invoicing'[r].pc = "persist"
            /\ \E h \in Hashes : WalletCreates(r, h) /\ invoicing'[r].hash = h
<1> USE DEF HasInvoice, Unregistered
<1>1. CASE invoicing'[r] = invoicing[r]
  BY <1>1
<1>2. ASSUME NEW q \in Requests, NEW f \in FileIDs, CompleteUpload(q, f)
      PROVE  invoicing'[r] = invoicing[r]
  BY <1>2 DEF CompleteUpload, CallCreateInvoice, TypeOK
<1>3. ASSUME NEW q \in Requests, NEW h \in Hashes, WalletCreates(q, h), r /= q
      PROVE  invoicing'[r] = invoicing[r]
  BY <1>3 DEF WalletCreates, TypeOK
<1>4. ASSUME NEW h \in Hashes, WalletCreates(r, h)
      PROVE  invoicing'[r].pc = "persist" /\ invoicing'[r].hash = h
  BY <1>4 DEF WalletCreates, TypeOK
<1>5. ASSUME NEW q \in Requests, WalletRefuses(q) \/ Respond(q)
      PROVE  invoicing'[r] = invoicing[r]
  BY <1>5 DEF WalletRefuses, Respond, TypeOK, Idle
<1>6. ASSUME NEW q \in Requests, PersistInvoice(q) \/ RegisterInvoice(q), r /= q
      PROVE  invoicing'[r] = invoicing[r]
  BY <1>6 DEF PersistInvoice, RegisterInvoice, Goes, TypeOK
<1>7. ASSUME PersistInvoice(r)
      PROVE  /\ invoicing[r].pc = "persist" /\ invoicing'[r].pc = "register"
             /\ invoicing'[r].hash = invoicing[r].hash
  BY <1>7 DEF PersistInvoice, Goes, TypeOK
<1>8. ASSUME RegisterInvoice(r)
      PROVE  /\ invoicing[r].pc = "register" /\ invoicing'[r].pc = "respond"
             /\ invoicing'[r].hash = invoicing[r].hash
  BY <1>8 DEF RegisterInvoice, Goes, TypeOK
<1>9. ~Crash
  BY DEF Crash, NoCalls, Idle
<1> QED BY <1>1, <1>2, <1>3, <1>4, <1>5, <1>6, <1>7, <1>8, <1>9, Frame

\* Nobody learns of an invoice before its handler registers it: the wallet makes
\* it fresh, and whatever is shown was registered by the handler that shows it,
\* or is in the index.
LEMMA PrivateStep == Base /\ [Next]_vars => UnregisteredIsPrivate'
<1> SUFFICES ASSUME Base, [Next]_vars PROVE UnregisteredIsPrivate'
  OBVIOUS
<1> USE DEF Base
<1>1. DOMAIN wallet \subseteq DOMAIN wallet'
  <2>1. \A h \in DOMAIN wallet : InvoiceIsFor(h, wallet[h].file)
    BY DEF InvoiceIsFor
  <2> QED BY <2>1, WalletGrows DEF InvoiceIsFor
<1>2. shown' \subseteq DOMAIN wallet'
  <2>1. ASSUME NEW q \in Requests, Respond(q) PROVE shown' \subseteq DOMAIN wallet
    BY <2>1 DEF Respond, HasInvoice, ReferencesAgree, InvoiceIsFor, UnregisteredIsPrivate
  <2>2. ASSUME NEW f \in FileIDs, GetInvoiceForFile(f) PROVE shown' \subseteq DOMAIN wallet
    BY <2>2 DEF GetInvoiceForFile, IndexAgrees, ReferencesAgree, InvoiceIsFor, UnregisteredIsPrivate
  <2>3. CASE UNCHANGED shown
    BY <1>1, <2>3 DEF UnregisteredIsPrivate
  <2> QED BY <1>1, <2>1, <2>2, <2>3, Frame
<1>3. ASSUME NEW q \in Requests, HasInvoice(q)', NEW r \in Requests \ {q}, HasInvoice(r)'
      PROVE  invoicing'[r].hash /= invoicing'[q].hash
  <2>1. \A x \in Requests : HasInvoice(x) => invoicing[x].hash \in DOMAIN wallet
    BY DEF ReferencesAgree, InvoiceIsFor
  <2>2. \A x \in Requests, h \in Hashes : WalletCreates(x, h) =>
          h \notin DOMAIN wallet /\ \A y \in Requests \ {x} : ~(\E g \in Hashes : WalletCreates(y, g))
    <3> SUFFICES ASSUME NEW x \in Requests, NEW h \in Hashes, WalletCreates(x, h),
                        NEW y \in Requests \ {x}, NEW g \in Hashes, WalletCreates(y, g)
                 PROVE  FALSE
      BY DEF WalletCreates
    <3>1. invoicing[x].pc = "wallet" /\ invoicing'[x].pc = "persist"
      BY DEF WalletCreates, TypeOK
    <3>2. invoicing'[x] = invoicing[x]
      BY DEF WalletCreates, TypeOK
    <3> QED BY <3>1, <3>2
  <2> QED BY <1>3, <2>1, <2>2, HandlerKeeps DEF UnregisteredIsPrivate
<1>4. ASSUME NEW q \in Requests, Unregistered(q)'
      PROVE  invoicing'[q].hash \notin shown' \cup DOMAIN pending' /\ ~Settled(invoicing[q].hash)'
  <2>0. PICK h : h = invoicing'[q].hash
    OBVIOUS
  <2>1. \/ Unregistered(q) /\ invoicing[q].hash = h
        \/ WalletCreates(q, h)
    BY <1>4, <2>0, HandlerKeeps DEF HasInvoice, Unregistered
  <2>2. h \notin shown \cup DOMAIN pending /\ ~Settled(h)
    <3>1. CASE Unregistered(q) /\ invoicing[q].hash = h
      BY <3>1 DEF Unregistered, HasInvoice, UnregisteredIsPrivate
    <3>2. CASE WalletCreates(q, h)
      BY <3>2 DEF WalletCreates, ReferencesAgree, InvoiceIsFor, Settled, UnregisteredIsPrivate
    <3> QED BY <2>1, <3>1, <3>2
  <2>3. \A r \in Requests \ {q} : HasInvoice(r)' => invoicing'[r].hash /= h
    BY <1>3, <1>4, <2>0 DEF HasInvoice, Unregistered
  <2>4. h \notin shown'
    <3>1. ASSUME NEW r \in Requests, Respond(r) PROVE h \notin shown'
      <4>1. HasInvoice(r) /\ shown' = shown \cup {invoicing[r].hash}
        BY <3>1 DEF Respond, HasInvoice
      <4>2. r /= q
        BY <1>4, <3>1 DEF Respond, TypeOK, Unregistered, Idle
      <4>3. Unregistered(q) /\ invoicing[q].hash = h
        BY <2>1, <3>1, <4>2 DEF WalletCreates, Respond, TypeOK
      <4> QED BY <2>2, <4>1, <4>2, <4>3 DEF UnregisteredIsPrivate, HasInvoice, Unregistered
    <3>2. ASSUME NEW f \in FileIDs, GetInvoiceForFile(f) PROVE h \notin shown'
      BY <2>2, <3>2 DEF GetInvoiceForFile, IndexAgrees
    <3> QED BY <2>2, <3>1, <3>2, Frame
  <2>5. h \notin DOMAIN pending'
    <3>1. ASSUME NEW r \in Requests, RegisterInvoice(r) PROVE h \notin DOMAIN pending'
      <4>1. HasInvoice(r) /\ DOMAIN pending' = DOMAIN pending \cup {invoicing[r].hash}
        BY <3>1 DEF RegisterInvoice, HasInvoice, MapPut
      <4>2. r /= q
        BY <1>4, <3>1 DEF RegisterInvoice, Goes, TypeOK, Unregistered
      <4>3. Unregistered(q) /\ invoicing[q].hash = h
        BY <2>1, <3>1, <4>2 DEF WalletCreates, RegisterInvoice, Goes, TypeOK
      <4> QED BY <2>2, <4>1, <4>2, <4>3 DEF UnregisteredIsPrivate, HasInvoice, Unregistered
    <3>2. CASE TakeUpdate
      BY <2>2, <3>2 DEF TakeUpdate, MapDelete
    <3>3. ~Restart
      BY <1>4 DEF Restart, DownIsIdle, NoCalls, Idle, Unregistered
    <3>4. ~Crash
      BY <1>4 DEF Crash, NoCalls, Idle, Unregistered
    <3> QED BY <2>2, <3>1, <3>2, <3>3, <3>4, Frame
  <2>6. ~Settled(h)'
    <3>1. ASSUME NEW x \in Requests, NEW g \in Hashes, WalletCreates(x, g) PROVE ~Settled(h)'
      BY <2>2, <3>1 DEF WalletCreates, MapPut, Settled
    <3>2. ASSUME NEW g \in Hashes, Settle(g) PROVE ~Settled(h)'
      <4>1. g /= h
        BY <2>2, <3>2 DEF Settle
      <4> QED BY <2>2, <3>2, <4>1 DEF Settle, Settled
    <3>3. CASE UNCHANGED wallet
      BY <2>2, <3>3 DEF Settled
    <3> QED BY <3>1, <3>2, <3>3, Frame
  <2> QED BY <2>0, <2>4, <2>5, <2>6
<1> QED BY <1>2, <1>3, <1>4 DEF UnregisteredIsPrivate, Unregistered

-----------------------------------------------------------------------------
(***************************************************************************)
(* Maps and table, while no statement has failed                           *)
(***************************************************************************)

\* An unregistered invoice is none of those the watcher handles or has credited.
LEMMA UnregisteredIsNew ==
  ASSUME Base, NEW q \in Requests, Unregistered(q)
  PROVE  /\ invoicing[q].hash \notin credited
         /\ watcher.pc /= "receive" => invoicing[q].hash /= watcher.hash
BY DEF Base, Unregistered, HasInvoice, UnregisteredIsPrivate, ReferencesAgree

\* Whatever is put into the map is in the table, and nothing leaves the table
\* before it has left the map.
LEMMA PersistedStep ==
  ASSUME Base, Recoverable, [Next]_vars, faults' = 0
  PROVE  \A h \in DOMAIN pending' : h \in DOMAIN invoices' /\ invoices'[h] = pending'[h]
<1> USE DEF Base, Recoverable
<1>0. faults = 0 /\ ~StoreFails
  BY NoFaults
<1>1. \A h \in DOMAIN pending : h \in DOMAIN invoices /\ invoices[h] = pending[h]
  BY <1>0 DEF PendingIsPersisted
<1>2. ASSUME NEW q \in Requests, RegisterInvoice(q)
      PROVE  \A h \in DOMAIN pending' : h \in DOMAIN invoices' /\ invoices'[h] = pending'[h]
  <2> DEFINE g == invoicing[q].hash
  <2>1. g \in DOMAIN invoices
    BY <1>0, <1>2 DEF RegisterInvoice, OfferedIsPersisted
  <2>2. invoices[g] = invoicing[q].file
    BY <1>2, <2>1 DEF RegisterInvoice, HasInvoice, ReferencesAgree, InvoiceIsFor
  <2> QED BY <1>1, <1>2, <2>1, <2>2 DEF RegisterInvoice, MapPut, tables
<1>3. CASE TakeUpdate
  BY <1>1, <1>3 DEF TakeUpdate, MapDelete, tables
<1>4. CASE Crash
  BY <1>4 DEF Crash, EmptyMap
<1>5. CASE Restart
  BY <1>0, <1>5 DEF Restart, LoadPendingInvoices
<1>6. ASSUME NEW q \in Requests, PersistInvoice(q)
      PROVE  \A h \in DOMAIN pending' : h \in DOMAIN invoices' /\ invoices'[h] = pending'[h]
  <2>1. invoicing[q].hash \notin DOMAIN pending
    BY <1>6 DEF PersistInvoice, HasInvoice, UnregisteredIsPrivate
  <2> QED BY <1>0, <1>1, <1>6, <2>1 DEF PersistInvoice, SavePendingInvoice, MapPut
<1>7. CASE Unpersist
  <2>1. watcher.hash \notin DOMAIN pending
    BY <1>0, <1>7 DEF Unpersist, CreditedIsGone
  <2> QED BY <1>0, <1>1, <1>7, <2>1 DEF Unpersist, DeletePendingInvoice, MapDelete
<1>8. CASE UNCHANGED <<pending, invoices>>
  BY <1>1, <1>8
<1> QED BY <1>2, <1>3, <1>4, <1>5, <1>6, <1>7, <1>8, Frame

\* An invoice that can be paid, or is about to be shown, stays in table and map:
\* what the watcher takes out of them is settled.
LEMMA OfferedStep ==
  ASSUME Base, Recoverable, [Next]_vars, faults' = 0
  PROVE  /\ \A h \in Hashes : Offered(h)' /\ ~Settled(h)' =>
              h \in DOMAIN invoices' /\ (up' => h \in DOMAIN pending')
         /\ \A q \in Requests : invoicing'[q].pc = "register" => invoicing'[q].hash \in DOMAIN invoices'
<1> USE DEF Base, Recoverable
<1>0. faults = 0 /\ ~StoreFails
  BY NoFaults
<1>1. ASSUME NEW h \in DOMAIN invoices, ~(\E q \in Requests : PersistInvoice(q)), h \notin DOMAIN invoices'
      PROVE  Unpersist /\ h = watcher.hash
  BY <1>1, Frame DEF Unpersist, DeletePendingInvoice, MapDelete
<1>2. ASSUME NEW q \in Requests, PersistInvoice(q)
      PROVE  DOMAIN invoices' = DOMAIN invoices \cup {invoicing[q].hash}
  BY <1>0, <1>2 DEF PersistInvoice, SavePendingInvoice, MapPut
<1>3. ASSUME NEW q \in Requests, invoicing'[q].pc = "register"
      PROVE  invoicing'[q].hash \in DOMAIN invoices'
  <2>1. /\ HasInvoice(q) /\ invoicing'[q].hash = invoicing[q].hash
        /\ invoicing[q].pc = "register" \/ PersistInvoice(q)
    BY <1>3, HandlerKeeps DEF HasInvoice
  <2>2. CASE PersistInvoice(q)
    BY <1>2, <2>1, <2>2
  <2>3. CASE invoicing[q].pc = "register"
    <3>1. invoicing[q].hash \in DOMAIN invoices
      BY <1>0, <2>3 DEF OfferedIsPersisted
    <3>2. watcher.pc /= "receive" => invoicing[q].hash /= watcher.hash
      BY <2>3, UnregisteredIsNew DEF Unregistered
    <3> QED BY <1>1, <1>2, <2>1, <3>1, <3>2 DEF Unpersist
  <2> QED BY <2>1, <2>2, <2>3
<1>4. ASSUME NEW h \in Hashes, Offered(h), ~Settled(h)
      PROVE  h \in DOMAIN invoices' /\ (up' => h \in DOMAIN pending')
  <2>1. h \in DOMAIN invoices /\ (up => h \in DOMAIN pending)
    BY <1>0, <1>4 DEF OfferedIsPersisted
  <2>2. h \in DOMAIN invoices'
    <3>1. watcher.pc /= "receive" => h /= watcher.hash
      BY <1>4 DEF ReferencesAgree
    <3> QED BY <1>1, <1>2, <2>1, <3>1 DEF Unpersist
  <2>3. ASSUME up' PROVE h \in DOMAIN pending'
    <3>1. CASE Restart
      BY <1>0, <2>1, <3>1 DEF Restart, LoadPendingInvoices
    <3>2. ~Crash
      BY <2>3, Zenon DEF Crash
    <3>3. CASE ~Restart
      <4>1. h \in DOMAIN pending
        <5>1. up' = up
          BY <3>2, <3>3, Frame
        <5>2. up
          BY <2>3, <5>1, Zenon
        <5> QED BY <2>1, <5>2
      <4>2. CASE TakeUpdate
        <5>1. Settled(Head(updates))
          BY <4>2 DEF TakeUpdate, ReferencesAgree, TypeOK
        <5> QED BY <1>4, <4>1, <4>2, <5>1 DEF TakeUpdate, MapDelete
      <4>3. ASSUME NEW q \in Requests, RegisterInvoice(q) PROVE h \in DOMAIN pending'
        BY <4>1, <4>3 DEF RegisterInvoice, MapPut
      <4> QED BY <3>2, <3>3, <4>1, <4>2, <4>3, Frame
    <3> QED BY <3>1, <3>3
  <2> QED BY <2>2, <2>3
<1>5. ASSUME NEW h \in Hashes, Offered(h)', ~Settled(h)', ~Offered(h)
      PROVE  h \in DOMAIN invoices' /\ h \in DOMAIN pending'
  <2>1. CASE \E q \in Requests : RegisterInvoice(q) /\ invoicing[q].hash = h
    <3>1. PICK q \in Requests : RegisterInvoice(q) /\ invoicing[q].hash = h
      BY <2>1
    <3>2. h \in DOMAIN invoices
      BY <1>0, <3>1 DEF RegisterInvoice, OfferedIsPersisted
    <3> QED BY <3>1, <3>2 DEF RegisterInvoice, MapPut, tables
  <2>2. CASE \E f \in FileIDs : GetInvoiceForFile(f) /\ byFileID[f] = h
    <3>1. h \in DOMAIN pending /\ UNCHANGED <<pending, invoices>>
      BY <2>2 DEF GetInvoiceForFile, IndexAgrees, tables, memory
    <3> QED BY <1>0, <3>1 DEF PendingIsPersisted
  <2>3. CASE h \in shown'
    <3>1. h \notin shown /\ \A q \in Requests : invoicing[q].pc = "respond" => invoicing[q].hash /= h
      BY <1>5 DEF Offered
    <3>2. \A q \in Requests : Respond(q) => h \notin shown'
      BY <3>1 DEF Respond
    <3>3. \A f \in FileIDs : GetInvoiceForFile(f) => byFileID[f] = h
      BY <2>3, <3>1 DEF GetInvoiceForFile
    <3> QED BY <2>2, <2>3, <3>1, <3>2, <3>3, Frame
  <2>4. CASE \E q \in Requests : invoicing'[q].pc = "respond" /\ invoicing'[q].hash = h
    <3>1. PICK q \in Requests : invoicing'[q].pc = "respond" /\ invoicing'[q].hash = h
      BY <2>4
    <3>2. HasInvoice(q) /\ invoicing[q].hash = h /\ (invoicing[q].pc = "respond" \/ RegisterInvoice(q))
      BY <3>1, HandlerKeeps DEF HasInvoice
    <3> QED BY <1>5, <2>1, <3>2 DEF Offered
  <2> QED BY <1>5, <2>3, <2>4 DEF Offered
<1>6. \A h : ~Settled(h)' => ~Settled(h)
  BY WalletGrows
<1> QED BY <1>3, <1>4, <1>5, <1>6

\* The watcher takes an invoice out of the map, then out of the table, then
\* credits it, and nobody puts it back.
LEMMA CreditedStep ==
  ASSUME Base, Recoverable, [Next]_vars, faults' = 0
  PROVE  CreditedIsGone'
<1> USE DEF Base, Recoverable
<1>0. faults = 0 /\ ~StoreFails
  BY NoFaults
<1>1. /\ credited \cap (DOMAIN pending \cup DOMAIN invoices) = {}
      /\ watcher.pc /= "receive" => watcher.hash \notin DOMAIN pending
      /\ watcher.pc \in {"mark", "notify"} => watcher.hash \notin DOMAIN invoices
      /\ watcher.pc \in {"unpersist", "mark"} => watcher.hash \notin credited
  BY <1>0 DEF CreditedIsGone
<1>2. ASSUME NEW q \in Requests, RegisterInvoice(q) PROVE CreditedIsGone'
  <2>1. /\ invoicing[q].hash \notin credited
        /\ watcher.pc /= "receive" => invoicing[q].hash /= watcher.hash
    BY <1>2, UnregisteredIsNew DEF RegisterInvoice, Unregistered
  <2> QED BY <1>1, <1>2, <2>1 DEF RegisterInvoice, MapPut, CreditedIsGone, tables
<1>3. ASSUME NEW q \in Requests, PersistInvoice(q) PROVE CreditedIsGone'
  <2>1. /\ invoicing[q].hash \notin credited
        /\ watcher.pc /= "receive" => invoicing[q].hash /= watcher.hash
    BY <1>3, UnregisteredIsNew DEF PersistInvoice, Unregistered
  <2> QED BY <1>0, <1>1, <1>3, <2>1 DEF PersistInvoice, SavePendingInvoice, MapPut, CreditedIsGone
<1>4. CASE TakeUpdate
  <2>1. CASE Head(updates) \in DOMAIN pending
    BY <1>1, <1>4, <2>1 DEF TakeUpdate, MapDelete, CreditedIsGone, tables
  <2>2. CASE Head(updates) \notin DOMAIN pending
    BY <1>1, <1>4, <2>2 DEF TakeUpdate, CreditedIsGone, tables
  <2> QED BY <2>1, <2>2
<1>5. CASE Unpersist
  BY <1>0, <1>1, <1>5 DEF Unpersist, DeletePendingInvoice, MapDelete, CreditedIsGone
<1>6. CASE MarkPaid
  <2>1. credited' \subseteq credited \cup {watcher.hash}
    BY <1>6 DEF MarkPaid
  <2>2. /\ watcher.pc = "mark" /\ watcher'.pc = "notify" /\ watcher'.hash = watcher.hash
        /\ UNCHANGED <<pending, invoices>>
    BY <1>6 DEF MarkPaid
  <2> QED BY <1>1, <2>1, <2>2 DEF CreditedIsGone
<1>7. CASE Notify
  BY <1>1, <1>7 DEF Notify, Receiving, CreditedIsGone, tables
<1>8. CASE Crash
  BY <1>1, <1>8 DEF Crash, EmptyMap, Receiving, CreditedIsGone, tables
<1>9. CASE Restart
  <2>1. /\ pending' = invoices
        /\ UNCHANGED <<invoices, watcher, credited>>
    BY <1>0, <1>9 DEF Restart, LoadPendingInvoices
  <2>2. watcher.pc = "receive"
    BY <1>9 DEF Restart, DownIsIdle, Receiving
  <2> QED BY <1>1, <2>1, <2>2 DEF CreditedIsGone
<1>10. CASE UNCHANGED <<pending, invoices, watcher, credited>>
  BY <1>1, <1>10 DEF CreditedIsGone
<1> QED BY <1>2, <1>3, <1>4, <1>5, <1>6, <1>7, <1>8, <1>9, <1>10, Frame

\* The base holds at the start ...
LEMMA BaseInit == Init => Base
<1> SUFFICES ASSUME Init PROVE Base
  OBVIOUS
<1>1. DownIsIdle
  BY Zenon DEF Init, DownIsIdle
<1>2. UnregisteredIsPrivate
  BY DEF Init, UnregisteredIsPrivate, NoCalls, Idle, HasInvoice
<1> QED BY <1>1, <1>2, TypeInit, ReferencesInit, IndexInit DEF Base

\* ... and every step keeps it.
LEMMA BaseStep == Base /\ [Next]_vars => Base'
BY TypeStep, ReferencesStep, IndexStep, DownStep, PrivateStep DEF Base

\* At the start there is nothing to recover ...
LEMMA RecoverableInit == Init => Recoverable
BY DEF Init, StoreInit, EmptyMap, NoCalls, Idle, Receiving,
       Recoverable, OfferedIsPersisted, PendingIsPersisted, CreditedIsGone, Offered

\* ... and every step keeps what a restart can recover.
LEMMA RecoverableStep == Base /\ Recoverable /\ [Next]_vars => Recoverable'
<1> SUFFICES ASSUME Base, Recoverable, [Next]_vars PROVE Recoverable'
  OBVIOUS
<1>1. OfferedIsPersisted'
  BY OfferedStep DEF OfferedIsPersisted
<1>2. PendingIsPersisted'
  BY PersistedStep DEF PendingIsPersisted
<1>3. CreditedIsGone'
  BY CreditedStep DEF CreditedIsGone
<1> QED BY <1>1, <1>2, <1>3 DEF Recoverable

\* Until a statement fails, memory holds no invoice the table has lost: a crash at
\* any step forgets no open invoice.
THEOREM OpenInvoicesSurvive == Spec => []PendingIsPersisted
<1>1. Recoverable => PendingIsPersisted
  BY DEF Recoverable
<1> QED BY <1>1, BaseInit, BaseStep, RecoverableInit, RecoverableStep, PTL DEF Spec

\* Until a statement fails, a credited invoice is in neither map nor table: no
\* redelivered webhook and no restart brings it back.
THEOREM UsedInvoicesAreGone == Spec => []CreditedIsGone
<1>1. Recoverable => CreditedIsGone
  BY DEF Recoverable
<1> QED BY <1>1, BaseInit, BaseStep, RecoverableInit, RecoverableStep, PTL DEF Spec

\* Until a statement fails, the watcher knows whatever a payer can pay while the
\* process runs.
THEOREM PayableInvoicesAreKnown == Spec => []PayableIsKnown
<1>1. Base /\ Recoverable => PayableIsKnown
  <2> SUFFICES ASSUME Base, Recoverable, faults = 0, NEW h \in shown, up, ~Settled(h)
               PROVE  h \in DOMAIN pending /\ pending[h] = wallet[h].file
    BY DEF PayableIsKnown
  <2>1. h \in Hashes
    BY DEF Base, TypeOK
  <2>2. h \in DOMAIN pending
    BY <2>1 DEF Recoverable, OfferedIsPersisted, Offered
  <2> QED BY <2>2 DEF Base, ReferencesAgree, InvoiceIsFor
<1> QED BY <1>1, BaseInit, BaseStep, RecoverableInit, RecoverableStep, PTL DEF Spec

-----------------------------------------------------------------------------
(***************************************************************************)
(* The contract                                                            *)
(***************************************************************************)

\* Which actions change the rows.
LEMMA RowsFrame ==
  ASSUME [Next]_vars
  PROVE  \/ UNCHANGED files
         \/ \E q \in Requests, f \in FileIDs : CompleteUpload(q, f)
         \/ \E f \in FileIDs : FileSwept(f)
         \/ MarkPaid
BY NextCases
   DEF WalletCreates, WalletRefuses, PersistInvoice, RegisterInvoice, Respond, GetInvoiceForFile,
       Settle, HandleWebhook, TakeUpdate, Unpersist, Notify, Crash, Restart, TimePasses, OtherCallFails, vars, tables

\* What a MarkPaid that finds its row does: it credits, for the first time, a
\* settled invoice of that row.
LEMMA CreditOnce ==
  ASSUME Base, Recoverable, faults = 0, MarkPaid, ~StoreFails
  PROVE  \/ UNCHANGED <<files, credited>>
         \/ /\ watcher.file \in DOMAIN files
            /\ files' = [files EXCEPT ![watcher.file] =
                           [size |-> @.size, expiresAt |-> now + HostDuration, paid |-> TRUE]]
            /\ credited' = credited \cup {watcher.hash} /\ watcher.hash \notin credited
            /\ Settled(watcher.hash) /\ wallet[watcher.hash].file = watcher.file
<1>1. /\ watcher.hash \notin credited
      /\ Settled(watcher.hash) /\ wallet[watcher.hash].file = watcher.file
  BY DEF MarkPaid, Recoverable, CreditedIsGone, Base, ReferencesAgree, InvoiceIsFor
<1> QED BY <1>1 DEF MarkPaid, UpdatePaymentStatus

\* A row that changes uses up a settlement of its file.
LEMMA ExtensionStep ==
  ASSUME Base, Recoverable, [Next]_vars, faults' = 0,
         NEW f \in DOMAIN files \cap DOMAIN files', files'[f] /= files[f]
  PROVE  \E h \in credited' \ credited : Settled(h) /\ wallet[h].file = f
<1>1. ASSUME NEW q \in Requests, NEW g \in FileIDs, CompleteUpload(q, g) PROVE FALSE
  BY <1>1 DEF CompleteUpload, SaveFileMetadata, MapPut
<1>2. ASSUME NEW g \in FileIDs, FileSwept(g) PROVE FALSE
  BY <1>2 DEF FileSwept, DeleteFileMetadata, MapDelete
<1>3. MarkPaid
  BY <1>1, <1>2, RowsFrame
<1>4. faults = 0 /\ ~StoreFails
  BY NoFaults DEF Base
<1>5. f = watcher.file
  BY <1>3, <1>4, CreditOnce
<1> QED BY <1>3, <1>4, <1>5, CreditOnce

\* Until a statement fails, an existing row changes only when an unused settlement
\* of that very file is used up.
THEOREM PaymentsExtendOnce == Spec => ExtensionIsEarned
<1>1. Base /\ Recoverable /\ [Next]_vars =>
        [faults' = 0 => \A f \in DOMAIN files \cap DOMAIN files' :
           files'[f] /= files[f] =>
             \E h \in credited' \ credited : Settled(h) /\ wallet[h].file = f]_vars
  BY ExtensionStep
<1> QED BY <1>1, BaseInit, BaseStep, RecoverableInit, RecoverableStep, PTL DEF Spec, ExtensionIsEarned

\* The contract's variables as this component's state gives them: named, so that
\* the provers need not look into them.
paidRowsNow == [f \in DOMAIN files |-> files[f].paid]
invoiceForNow == [h \in DOMAIN wallet |-> wallet[h].file]
settledNow == {h \in DOMAIN wallet : wallet[h].settled}

\* The steps that make, pay or remove something are the contract's, and those in
\* between are none of it.
LEMMA ContractStep ==
  ASSUME Base, Recoverable, [Next]_vars, faults' = 0
  PROVE  [Contract!Next]_(Contract!contractVars)
<1> USE DEF Contract!Next, Contract!contractVars
<1>0. faults = 0 /\ ~StoreFails
  BY NoFaults DEF Base
<1>1. ASSUME NEW q \in Requests, NEW f \in FileIDs, CompleteUpload(q, f) PROVE Contract!Upload(f)
  <2>1. PICK size \in Sizes : SaveFileMetadata(f, PendingMeta(size))
    BY <1>1 DEF CompleteUpload
  <2>2. UNCHANGED <<wallet, credited>>
    BY <1>1 DEF CompleteUpload, world
  <2>3. paidRowsNow' = MapPut(paidRowsNow, f, FALSE)
    BY <2>1 DEF SaveFileMetadata, PendingMeta, MapPut, paidRowsNow
  <2> QED BY <2>1, <2>2, <2>3 DEF Contract!Upload, SaveFileMetadata, paidRowsNow, Contract!MapPut, MapPut
<1>2. ASSUME NEW f \in FileIDs, FileSwept(f) PROVE Contract!Remove(f)
  <2>1. f \in DOMAIN files /\ paidRowsNow' = MapDelete(paidRowsNow, f)
    BY <1>2 DEF FileSwept, DeleteFileMetadata, MapDelete, paidRowsNow
  <2> QED BY <1>2, <2>1
          DEF FileSwept, world, Contract!Remove, paidRowsNow, Contract!MapDelete, MapDelete
<1>3. ASSUME NEW q \in Requests, NEW h \in Hashes, WalletCreates(q, h)
      PROVE  \E f \in FileIDs : Contract!Issue(h, f)
  <2>1. PICK f \in FileIDs : f = invoicing[q].file
    BY <1>3, StateFields DEF WalletCreates, Base
  <2>2. /\ h \notin DOMAIN wallet
        /\ invoiceForNow' = MapPut(invoiceForNow, h, f)
        /\ settledNow' = settledNow
    BY <1>3, <2>1 DEF WalletCreates, MapPut, invoiceForNow, settledNow
  <2>3. UNCHANGED <<files, credited>>
    BY <1>3 DEF WalletCreates, tables
  <2>4. Contract!Issue(h, f)
    BY <2>2, <2>3 DEF Contract!Issue, invoiceForNow, settledNow, Contract!MapPut, MapPut
  <2> QED BY <2>4
<1>4. ASSUME NEW h \in Hashes, Settle(h) PROVE Contract!Pay(h)
  <2>1. /\ h \in DOMAIN wallet \ settledNow
        /\ settledNow' = settledNow \cup {h}
        /\ invoiceForNow' = invoiceForNow
    BY <1>4 DEF Settle, invoiceForNow, settledNow
  <2>2. UNCHANGED <<files, credited>>
    BY <1>4 DEF Settle, tables
  <2> QED BY <2>1, <2>2 DEF Contract!Pay, invoiceForNow, settledNow
<1>5. CASE MarkPaid
  <2>0. PICK h \in Hashes : h = watcher.hash
    BY <1>5, StateFields DEF MarkPaid, Base
  <2>1. CASE UNCHANGED <<files, credited>>
    BY <1>5, <2>1 DEF MarkPaid, world
  <2>2. CASE /\ watcher.file \in DOMAIN files
             /\ files' = [files EXCEPT ![watcher.file] =
                            [size |-> @.size, expiresAt |-> now + HostDuration, paid |-> TRUE]]
             /\ credited' = credited \cup {h} /\ h \notin credited
             /\ Settled(h) /\ wallet[h].file = watcher.file
    <3>1. h \in settledNow \ credited /\ invoiceForNow[h] = watcher.file
      BY <2>2 DEF Settled, settledNow, invoiceForNow
    <3>2. paidRowsNow' = [paidRowsNow EXCEPT ![watcher.file] = TRUE]
      BY <2>2 DEF paidRowsNow
    <3>3. UNCHANGED wallet
      BY <1>5 DEF MarkPaid, world
    <3>4. Contract!Credit(h)
      BY <2>2, <3>1, <3>2, <3>3 DEF Contract!Credit, paidRowsNow, invoiceForNow, settledNow
    <3> QED BY <3>4
  <2> QED BY <1>0, <1>5, <2>0, <2>1, <2>2, CreditOnce
<1>6. CASE UNCHANGED <<files, wallet, credited>>
  BY <1>6
<1> QED BY <1>1, <1>2, <1>3, <1>4, <1>5, <1>6, RowsFrame, Frame DEF Base

\* Until a statement fails, the payment service implements PaymentContract: the
\* goroutines, maps, table and channel only ever do what its five operations do.
THEOREM ServiceKeepsContract == Spec => KeepsContract
<1>1. Init => Contract!Init
  BY DEF Init, StoreInit, EmptyMap, Contract!Init, Contract!EmptyMap
<1>2. Base /\ Recoverable /\ [Next]_vars =>
        [faults' = 0 => [Contract!Next]_(Contract!contractVars)]_vars
  BY ContractStep
<1> QED BY <1>1, <1>2, BaseInit, BaseStep, RecoverableInit, RecoverableStep, PTL DEF Spec, KeepsContract

=============================================================================
