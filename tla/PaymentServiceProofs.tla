------------------------- MODULE PaymentServiceProofs -------------------------
(***************************************************************************)
(* Theorems about PaymentService, for every choice of its constants.       *)
(***************************************************************************)
EXTENDS PaymentService, StoreProofs

\* The cases of a step: one per action of the specification.
LEMMA NextCases ==
  ASSUME [Next]_vars
  PROVE  \/ \E q \in Requests, f \in FileIDs : CompleteUpload(q, f)
         \/ \E q \in Requests, h \in Hashes : WalletCreates(q, h)
         \/ \E q \in Requests : \/ WalletRefuses(q) \/ PersistInvoice(q)
                                \/ RegisterInvoice(q) \/ Respond(q)
         \/ \E f \in FileIDs : GetInvoiceForFile(f) \/ FileSwept(f)
         \/ \E h \in Hashes : Settle(h) \/ HandleWebhook(h)
         \/ TakeUpdate \/ Unpersist \/ MarkPaid \/ Notify
         \/ Crash \/ Restart \/ OtherCallFails \/ TimePasses
         \/ UNCHANGED vars
BY DEF Next, HandlerStep, WatcherStep

-----------------------------------------------------------------------------
(***************************************************************************)
(* Types                                                                   *)
(***************************************************************************)

\* What the fields of a handler's and the watcher's state are, by their pc.
LEMMA StateFields ==
  ASSUME TypeOK
  PROVE  /\ \A q \in Requests :
              /\ invoicing[q].pc \in {"idle", "wallet", "persist", "register", "respond"}
              /\ invoicing[q].pc = "idle" => invoicing[q] = Idle
              /\ invoicing[q].pc /= "idle" => invoicing[q].file \in FileIDs
              /\ HasInvoice(q) => invoicing[q].hash \in Hashes
         /\ watcher.pc \in {"receive", "unpersist", "mark", "notify"}
         /\ watcher.pc = "receive" => watcher = Receiving
         /\ watcher.pc /= "receive" => watcher.file \in FileIDs /\ watcher.hash \in Hashes
<1>1. ASSUME NEW q \in Requests
      PROVE  /\ invoicing[q].pc \in {"idle", "wallet", "persist", "register", "respond"}
             /\ invoicing[q].pc = "idle" => invoicing[q] = Idle
             /\ invoicing[q].pc /= "idle" => invoicing[q].file \in FileIDs
             /\ HasInvoice(q) => invoicing[q].hash \in Hashes
  <2>1. invoicing[q] \in InvoicingState  BY DEF TypeOK
  <2> QED BY <2>1 DEF InvoicingState, Idle, HasInvoice
<1>2. /\ watcher.pc \in {"receive", "unpersist", "mark", "notify"}
      /\ watcher.pc = "receive" => watcher = Receiving
      /\ watcher.pc /= "receive" => watcher.file \in FileIDs /\ watcher.hash \in Hashes
  BY DEF TypeOK, WatcherState, Receiving
<1> QED BY <1>1, <1>2

\* No step writes a value of the wrong type, and no send overfills the channel.
LEMMA TypeStep == TypeOK /\ [Next]_vars => TypeOK'
<1> SUFFICES ASSUME TypeOK, [Next]_vars PROVE TypeOK'
  OBVIOUS
<1> USE StoreAssumption, PaymentAssumption, ClockAssumption
<1>1. ASSUME NEW q \in Requests, NEW f \in FileIDs, CompleteUpload(q, f) PROVE TypeOK'
  <2>1. IsMap(files', FileIDs, FileMeta)
    BY <1>1, StoreTypes DEF CompleteUpload, TypeOK
  <2>2. invoicing' \in [Requests -> InvoicingState]
    BY <1>1 DEF CompleteUpload, CallCreateInvoice, TypeOK, InvoicingState
  <2> QED BY <1>1, <2>1, <2>2 DEF CompleteUpload, TypeOK, StoreTypeOK, world
<1>2. ASSUME NEW q \in Requests, NEW h \in Hashes, WalletCreates(q, h) PROVE TypeOK'
  <2>1. invoicing[q].file \in FileIDs
    BY <1>2, StateFields DEF WalletCreates
  <2>2. IsMap(wallet', Hashes, WalletInvoice)
    BY <1>2, <2>1 DEF WalletCreates, TypeOK, IsMap, MapPut, WalletInvoice
  <2>3. invoicing' \in [Requests -> InvoicingState]
    BY <1>2, <2>1 DEF WalletCreates, TypeOK, InvoicingState
  <2> QED BY <1>2, <2>2, <2>3 DEF WalletCreates, TypeOK, StoreTypeOK, tables
<1>3. ASSUME NEW q \in Requests, WalletRefuses(q) PROVE TypeOK'
  <2>1. invoicing' \in [Requests -> InvoicingState]
    BY <1>3 DEF WalletRefuses, TypeOK, InvoicingState
  <2> QED BY <1>3, <2>1 DEF WalletRefuses, TypeOK, StoreTypeOK, tables, world
<1>4. ASSUME NEW q \in Requests, PersistInvoice(q) PROVE TypeOK'
  <2>1. HasInvoice(q)
    BY <1>4 DEF PersistInvoice, HasInvoice
  <2>2. invoicing[q].file \in FileIDs /\ invoicing[q].hash \in Hashes
    BY <1>4, <2>1, StateFields DEF PersistInvoice
  <2>3. IsMap(invoices', Hashes, FileIDs) /\ faults' \in 0..MaxFaults
    BY <1>4, <2>2, StoreTypes DEF PersistInvoice, TypeOK, StoreTypeOK
  <2>4. invoicing' \in [Requests -> InvoicingState]
    BY <1>4, <2>2 DEF PersistInvoice, Goes, TypeOK, InvoicingState, Idle
  <2> QED BY <1>4, <2>3, <2>4 DEF PersistInvoice, TypeOK, StoreTypeOK, world
<1>5. ASSUME NEW q \in Requests, RegisterInvoice(q) PROVE TypeOK'
  <2>1. HasInvoice(q)
    BY <1>5 DEF RegisterInvoice, HasInvoice
  <2>2. invoicing[q].file \in FileIDs /\ invoicing[q].hash \in Hashes
    BY <1>5, <2>1, StateFields DEF RegisterInvoice
  <2>3. IsMap(pending', Hashes, FileIDs) /\ IsMap(byFileID', FileIDs, Hashes)
    BY <1>5, <2>2 DEF RegisterInvoice, TypeOK, IsMap, MapPut
  <2>4. invoicing' \in [Requests -> InvoicingState]
    BY <1>5, <2>2 DEF RegisterInvoice, Goes, TypeOK, InvoicingState, Idle
  <2> QED BY <1>5, <2>3, <2>4 DEF RegisterInvoice, TypeOK, StoreTypeOK, tables, world
<1>6. ASSUME NEW q \in Requests, Respond(q) PROVE TypeOK'
  <2>1. HasInvoice(q)
    BY <1>6 DEF Respond, HasInvoice
  <2>2. invoicing[q].hash \in Hashes
    BY <2>1, StateFields
  <2>3. invoicing' \in [Requests -> InvoicingState]
    BY <1>6 DEF Respond, TypeOK, InvoicingState
  <2> QED BY <1>6, <2>2, <2>3 DEF Respond, TypeOK, StoreTypeOK, tables
<1>7. ASSUME NEW f \in FileIDs, GetInvoiceForFile(f) PROVE TypeOK'
  <2>1. byFileID[f] \in Hashes
    BY <1>7 DEF GetInvoiceForFile, TypeOK, IsMap
  <2> QED BY <1>7, <2>1 DEF GetInvoiceForFile, TypeOK, StoreTypeOK, tables, memory
<1>8. ASSUME NEW f \in FileIDs, FileSwept(f) PROVE TypeOK'
  <2>1. IsMap(files', FileIDs, FileMeta)
    BY <1>8, StoreTypes DEF FileSwept, TypeOK
  <2> QED BY <1>8, <2>1 DEF FileSwept, TypeOK, StoreTypeOK, memory, world
<1>9. ASSUME NEW h \in Hashes, Settle(h) PROVE TypeOK'
  <2>1. IsMap(wallet', Hashes, WalletInvoice)
    BY <1>9 DEF Settle, TypeOK, IsMap, WalletInvoice
  <2> QED BY <1>9, <2>1 DEF Settle, TypeOK, StoreTypeOK, tables, memory
<1>10. ASSUME NEW h \in Hashes, HandleWebhook(h) PROVE TypeOK'
  <2>1. updates' \in Seq(Hashes) /\ Len(updates') <= ChannelCap
    BY <1>10 DEF HandleWebhook, Send, TypeOK
  <2>2. webhooks' \subseteq Hashes
    BY <1>10 DEF HandleWebhook, TypeOK
  <2> QED BY <1>10, <2>1, <2>2 DEF HandleWebhook, TypeOK, StoreTypeOK, tables
<1>11. CASE TakeUpdate
  <2> DEFINE h == Head(updates)
  <2>1. h \in Hashes /\ updates' \in Seq(Hashes) /\ Len(updates') <= ChannelCap
    BY <1>11 DEF TakeUpdate, TypeOK
  <2>2. CASE h \in DOMAIN pending
    <3>1. pending[h] \in FileIDs
      BY <2>2 DEF TypeOK, IsMap
    <3>2. IsMap(pending', Hashes, FileIDs) /\ IsMap(byFileID', FileIDs, Hashes)
      BY <1>11, <2>2 DEF TakeUpdate, TypeOK, IsMap, MapDelete
    <3>3. watcher' \in WatcherState
      BY <1>11, <2>1, <2>2, <3>1 DEF TakeUpdate, WatcherState
    <3> QED BY <1>11, <2>1, <3>2, <3>3 DEF TakeUpdate, TypeOK, StoreTypeOK, tables, world
  <2>3. CASE h \notin DOMAIN pending
    BY <1>11, <2>1, <2>3 DEF TakeUpdate, TypeOK, StoreTypeOK, tables, world
  <2> QED BY <2>2, <2>3
<1>12. CASE Unpersist
  <2>1. IsMap(invoices', Hashes, FileIDs) /\ faults' \in 0..MaxFaults
    BY <1>12, StoreTypes DEF Unpersist, TypeOK, StoreTypeOK
  <2>2. watcher' \in WatcherState
    BY <1>12 DEF Unpersist, TypeOK, WatcherState, Receiving
  <2> QED BY <1>12, <2>1, <2>2 DEF Unpersist, TypeOK, StoreTypeOK, world
<1>13. CASE MarkPaid
  <2>1. IsMap(files', FileIDs, FileMeta) /\ faults' \in 0..MaxFaults
    BY <1>13, StoreTypes DEF MarkPaid, TypeOK, StoreTypeOK
  <2>2. watcher' \in WatcherState
    BY <1>13 DEF MarkPaid, TypeOK, WatcherState, Receiving
  <2>3. credited' \subseteq Hashes
    BY <1>13, StateFields DEF MarkPaid, TypeOK
  <2> QED BY <1>13, <2>1, <2>2, <2>3 DEF MarkPaid, TypeOK, StoreTypeOK, world
<1>14. CASE Notify
  BY <1>14 DEF Notify, TypeOK, StoreTypeOK, WatcherState, tables, world
<1>15. CASE Crash
  <2>1. IsMap(pending', Hashes, FileIDs) /\ IsMap(byFileID', FileIDs, Hashes)
    BY <1>15, EmptyMapIsMap DEF Crash
  <2>2. invoicing' \in [Requests -> InvoicingState] /\ watcher' \in WatcherState
    BY <1>15 DEF Crash, NoCalls, InvoicingState, WatcherState
  <2>3. updates' \in Seq(Hashes) /\ Len(updates') <= ChannelCap
    BY <1>15 DEF Crash
  <2>4. crashes' \in 0..MaxCrashes
    BY <1>15 DEF Crash, TypeOK
  <2>5. up' \in BOOLEAN
    BY <1>15, Zenon DEF Crash
  <2> QED BY <1>15, <2>1, <2>2, <2>3, <2>4, <2>5 DEF Crash, TypeOK, StoreTypeOK, tables, world
<1>16. CASE Restart
  <2>1. faults' \in 0..MaxFaults
    BY <1>16, StoreTypes DEF Restart, TypeOK, StoreTypeOK
  <2>2. IsMap(pending', Hashes, FileIDs) /\ IsMap(byFileID', FileIDs, Hashes)
    <3>1. CASE LoadPendingInvoices
      <4>1. \A h \in DOMAIN invoices : h \in Hashes /\ invoices[h] \in FileIDs
        BY DEF TypeOK, StoreTypeOK, IsMap
      <4>2. byFileID' \in [{invoices[h] : h \in DOMAIN invoices} -> DOMAIN invoices]
        BY <3>1 DEF LoadPendingInvoices
      <4>3. IsMap(byFileID', FileIDs, Hashes)
        BY <4>1, <4>2 DEF IsMap
      <4> QED BY <3>1, <4>3 DEF LoadPendingInvoices, TypeOK, StoreTypeOK
    <3>2. CASE UNCHANGED <<pending, byFileID>>
      BY <3>2 DEF TypeOK, IsMap
    <3> QED BY <1>16, <3>1, <3>2 DEF Restart
  <2>3. up' \in BOOLEAN
    BY <1>16, Zenon DEF Restart
  <2>4. UNCHANGED <<now, files, invoices, updates, watcher, invoicing, world, crashes, credited>>
    BY <1>16 DEF Restart
  <2> QED BY <2>1, <2>2, <2>3, <2>4 DEF TypeOK, StoreTypeOK, world
<1>17. CASE TimePasses
  BY <1>17 DEF TimePasses, Tick, TypeOK, StoreTypeOK, memory, world
<1>18. CASE UNCHANGED vars
  BY <1>18 DEF vars, TypeOK, StoreTypeOK, tables, memory, world
<1>19. CASE OtherCallFails
  BY <1>19, StoreTypes DEF OtherCallFails, TypeOK, StoreTypeOK, memory, world
<1> QED
  BY <1>1, <1>2, <1>3, <1>4, <1>5, <1>6, <1>7, <1>8, <1>9, <1>10, <1>11, <1>12,
     <1>13, <1>14, <1>15, <1>16, <1>17, <1>18, <1>19, NextCases

\* The initial state is well-typed.
LEMMA TypeInit == Init => TypeOK
<1> SUFFICES ASSUME Init PROVE TypeOK
  OBVIOUS
<1> USE StoreAssumption, PaymentAssumption
<1>1. StoreTypeOK
  BY EmptyMapIsMap DEF Init, ClockInit, StoreInit, StoreTypeOK
<1>2. /\ IsMap(pending, Hashes, FileIDs) /\ IsMap(byFileID, FileIDs, Hashes)
      /\ IsMap(wallet, Hashes, WalletInvoice)
  BY EmptyMapIsMap DEF Init
<1>3. invoicing \in [Requests -> InvoicingState] /\ watcher \in WatcherState
  BY DEF Init, NoCalls, InvoicingState, WatcherState
<1> QED BY <1>1, <1>2, <1>3 DEF Init, TypeOK

\* Type correctness of every reachable state, for any numbers of files, hashes,
\* handlers, crashes, failures and any channel capacity; in particular the
\* channel of settlements never exceeds its capacity.
THEOREM TypeCorrect == Spec => []TypeOK
BY TypeInit, TypeStep, PTL DEF Spec

-----------------------------------------------------------------------------
(***************************************************************************)
(* The index and the references                                            *)
(***************************************************************************)

\* Which actions change which variable.
LEMMA Frame ==
  ASSUME [Next]_vars
  PROVE  /\ \/ UNCHANGED wallet
            \/ \E q \in Requests, h \in Hashes : WalletCreates(q, h)
            \/ \E h \in Hashes : Settle(h)
         /\ \/ UNCHANGED <<pending, byFileID>>
            \/ \E q \in Requests : RegisterInvoice(q)
            \/ TakeUpdate \/ Crash \/ Restart
         /\ UNCHANGED invoices \/ (\E q \in Requests : PersistInvoice(q)) \/ Unpersist
         /\ \/ UNCHANGED invoicing
            \/ \E q \in Requests, f \in FileIDs : CompleteUpload(q, f)
            \/ \E q \in Requests, h \in Hashes : WalletCreates(q, h)
            \/ \E q \in Requests : \/ WalletRefuses(q) \/ PersistInvoice(q)
                                   \/ RegisterInvoice(q) \/ Respond(q)
            \/ Crash
         /\ UNCHANGED webhooks \/ \E h \in Hashes : Settle(h) \/ HandleWebhook(h)
         /\ UNCHANGED credited \/ MarkPaid
         /\ UNCHANGED updates \/ (\E h \in Hashes : HandleWebhook(h)) \/ TakeUpdate \/ Crash
         /\ UNCHANGED watcher \/ TakeUpdate \/ Unpersist \/ MarkPaid \/ Notify \/ Crash
         /\ \/ UNCHANGED shown
            \/ \E q \in Requests : Respond(q)
            \/ \E f \in FileIDs : GetInvoiceForFile(f)
         /\ UNCHANGED up \/ Crash \/ Restart
<1>1. \/ UNCHANGED wallet
      \/ \E q \in Requests, h \in Hashes : WalletCreates(q, h)
      \/ \E h \in Hashes : Settle(h)
  BY NextCases DEF CompleteUpload, WalletRefuses, PersistInvoice, RegisterInvoice, Respond,
    GetInvoiceForFile, FileSwept, HandleWebhook, TakeUpdate, Unpersist, MarkPaid, Notify,
    Crash, Restart, TimePasses, OtherCallFails, vars, memory, world
<1>2. \/ UNCHANGED <<pending, byFileID>>
      \/ \E q \in Requests : RegisterInvoice(q)
      \/ TakeUpdate \/ Crash \/ Restart
  BY NextCases DEF CompleteUpload, WalletCreates, WalletRefuses, PersistInvoice, Respond,
    GetInvoiceForFile, FileSwept, Settle, HandleWebhook, Unpersist, MarkPaid, Notify,
    TimePasses, OtherCallFails, vars, memory, world
<1>3. UNCHANGED invoices \/ (\E q \in Requests : PersistInvoice(q)) \/ Unpersist
  BY NextCases DEF CompleteUpload, WalletCreates, WalletRefuses, RegisterInvoice, Respond,
    GetInvoiceForFile, FileSwept, Settle, HandleWebhook, TakeUpdate, MarkPaid, Notify, Crash,
    Restart, TimePasses, OtherCallFails, vars, tables
<1>4. \/ UNCHANGED invoicing
      \/ \E q \in Requests, f \in FileIDs : CompleteUpload(q, f)
      \/ \E q \in Requests, h \in Hashes : WalletCreates(q, h)
      \/ \E q \in Requests : \/ WalletRefuses(q) \/ PersistInvoice(q)
                             \/ RegisterInvoice(q) \/ Respond(q)
      \/ Crash
  BY NextCases DEF GetInvoiceForFile, FileSwept, Settle, HandleWebhook, TakeUpdate, Unpersist,
    MarkPaid, Notify, Restart, TimePasses, OtherCallFails, vars, memory, world
<1>5. UNCHANGED webhooks \/ \E h \in Hashes : Settle(h) \/ HandleWebhook(h)
  BY NextCases DEF CompleteUpload, WalletCreates, WalletRefuses, PersistInvoice,
    RegisterInvoice, Respond, GetInvoiceForFile, FileSwept, TakeUpdate, Unpersist, MarkPaid,
    Notify, Crash, Restart, TimePasses, OtherCallFails, vars, memory, world
<1>6. UNCHANGED credited \/ MarkPaid
  BY NextCases DEF CompleteUpload, WalletCreates, WalletRefuses, PersistInvoice,
    RegisterInvoice, Respond, GetInvoiceForFile, FileSwept, Settle, HandleWebhook, TakeUpdate,
    Unpersist, Notify, Crash, Restart, TimePasses, OtherCallFails, vars, memory, world
<1>7. UNCHANGED updates \/ (\E h \in Hashes : HandleWebhook(h)) \/ TakeUpdate \/ Crash
  BY NextCases DEF CompleteUpload, WalletCreates, WalletRefuses, PersistInvoice,
    RegisterInvoice, Respond, GetInvoiceForFile, FileSwept, Settle, Unpersist, MarkPaid,
    Notify, Restart, TimePasses, OtherCallFails, vars, memory, world
<1>8. UNCHANGED watcher \/ TakeUpdate \/ Unpersist \/ MarkPaid \/ Notify \/ Crash
  BY NextCases DEF CompleteUpload, WalletCreates, WalletRefuses, PersistInvoice,
    RegisterInvoice, Respond, GetInvoiceForFile, FileSwept, Settle, HandleWebhook, Restart,
    TimePasses, OtherCallFails, vars, memory, world
<1>9. \/ UNCHANGED shown
      \/ \E q \in Requests : Respond(q)
      \/ \E f \in FileIDs : GetInvoiceForFile(f)
  BY NextCases DEF CompleteUpload, WalletCreates, WalletRefuses, PersistInvoice,
    RegisterInvoice, FileSwept, Settle, HandleWebhook, TakeUpdate, Unpersist, MarkPaid, Notify,
    Crash, Restart, TimePasses, OtherCallFails, vars, memory, world
<1>10. UNCHANGED up \/ Crash \/ Restart
  BY NextCases DEF CompleteUpload, WalletCreates, WalletRefuses, PersistInvoice,
    RegisterInvoice, Respond, GetInvoiceForFile, FileSwept, Settle, HandleWebhook, TakeUpdate,
    Unpersist, MarkPaid, Notify, TimePasses, OtherCallFails, vars, memory, world
<1> QED BY <1>1, <1>2, <1>3, <1>4, <1>5, <1>6, <1>7, <1>8, <1>9, <1>10

\* Invoices at the wallet are never forgotten, moved to another file or unpaid.
LEMMA WalletGrows ==
  ASSUME TypeOK, [Next]_vars
  PROVE  /\ \A h : Settled(h) => Settled(h)'
         /\ \A h, f : InvoiceIsFor(h, f) => InvoiceIsFor(h, f)'
<1>1. ASSUME NEW q \in Requests, NEW h \in Hashes, WalletCreates(q, h)
      PROVE  /\ \A g : Settled(g) => Settled(g)'
             /\ \A g, f : InvoiceIsFor(g, f) => InvoiceIsFor(g, f)'
  <2>1. /\ h \notin DOMAIN wallet
        /\ DOMAIN wallet' = DOMAIN wallet \cup {h}
        /\ \A g \in DOMAIN wallet : wallet'[g] = wallet[g]
    BY <1>1 DEF WalletCreates, MapPut
  <2> QED BY <2>1 DEF Settled, InvoiceIsFor
<1>2. ASSUME NEW h \in Hashes, Settle(h)
      PROVE  /\ \A g : Settled(g) => Settled(g)'
             /\ \A g, f : InvoiceIsFor(g, f) => InvoiceIsFor(g, f)'
  <2>1. /\ h \in DOMAIN wallet /\ DOMAIN wallet' = DOMAIN wallet
        /\ wallet'[h] = [file |-> wallet[h].file, settled |-> TRUE]
        /\ \A g \in DOMAIN wallet : g /= h => wallet'[g] = wallet[g]
    BY <1>2 DEF Settle, TypeOK, IsMap
  <2> QED BY <2>1 DEF Settled, InvoiceIsFor
<1>3. CASE UNCHANGED wallet
  BY <1>3 DEF Settled, InvoiceIsFor
<1> QED BY <1>1, <1>2, <1>3, Frame

\* Every step hands an invoice on for the file it was made for, and sends on its
\* way only what the wallet has settled.
LEMMA ReferencesStep == TypeOK /\ ReferencesAgree /\ [Next]_vars => ReferencesAgree'
<1> SUFFICES ASSUME TypeOK, ReferencesAgree, [Next]_vars PROVE ReferencesAgree'
  OBVIOUS
<1>1. \A h \in DOMAIN pending' : InvoiceIsFor(h, pending[h])'
  <2>1. CASE UNCHANGED pending
    BY <2>1, WalletGrows DEF ReferencesAgree
  <2>2. ASSUME NEW q \in Requests, RegisterInvoice(q)
        PROVE  \A h \in DOMAIN pending' : InvoiceIsFor(h, pending[h])'
    <3>1. InvoiceIsFor(invoicing[q].hash, invoicing[q].file)
      BY <2>2 DEF RegisterInvoice, HasInvoice, ReferencesAgree
    <3>2. \A h \in DOMAIN pending' : InvoiceIsFor(h, pending'[h])
      BY <2>2, <3>1 DEF RegisterInvoice, MapPut, ReferencesAgree
    <3> QED BY <3>2, WalletGrows
  <2>3. CASE TakeUpdate
    <3>1. \A h \in DOMAIN pending' : h \in DOMAIN pending /\ pending'[h] = pending[h]
      BY <2>3 DEF TakeUpdate, MapDelete
    <3> QED BY <3>1, WalletGrows DEF ReferencesAgree
  <2>4. CASE Crash
    BY <2>4 DEF Crash, EmptyMap
  <2>5. CASE Restart
    <3>1. pending' = invoices \/ UNCHANGED pending
      BY <2>5 DEF Restart, LoadPendingInvoices
    <3> QED BY <3>1, WalletGrows DEF ReferencesAgree
  <2> QED BY <2>1, <2>2, <2>3, <2>4, <2>5, Frame
<1>2. \A h \in DOMAIN invoices' : InvoiceIsFor(h, invoices[h])'
  <2>1. CASE UNCHANGED invoices
    BY <2>1, WalletGrows DEF ReferencesAgree
  <2>2. ASSUME NEW q \in Requests, PersistInvoice(q)
        PROVE  \A h \in DOMAIN invoices' : InvoiceIsFor(h, invoices[h])'
    <3>1. InvoiceIsFor(invoicing[q].hash, invoicing[q].file)
      BY <2>2 DEF PersistInvoice, HasInvoice, ReferencesAgree
    <3>2. \A h \in DOMAIN invoices' : InvoiceIsFor(h, invoices'[h])
      BY <2>2, <3>1 DEF PersistInvoice, SavePendingInvoice, MapPut, ReferencesAgree
    <3> QED BY <3>2, WalletGrows
  <2>3. CASE Unpersist
    <3>1. \A h \in DOMAIN invoices' : h \in DOMAIN invoices /\ invoices'[h] = invoices[h]
      BY <2>3 DEF Unpersist, DeletePendingInvoice, MapDelete
    <3> QED BY <3>1, WalletGrows DEF ReferencesAgree
  <2> QED BY <2>1, <2>2, <2>3, Frame
<1>3. \A q \in Requests : HasInvoice(q)' => InvoiceIsFor(invoicing[q].hash, invoicing[q].file)'
  <2> SUFFICES ASSUME NEW r \in Requests, HasInvoice(r)'
               PROVE  InvoiceIsFor(invoicing[r].hash, invoicing[r].file)'
    OBVIOUS
  <2>1. CASE invoicing'[r] = invoicing[r]
    <3>1. InvoiceIsFor(invoicing[r].hash, invoicing[r].file)
      BY <2>1 DEF HasInvoice, ReferencesAgree
    <3> QED BY <2>1, <3>1, WalletGrows
  <2>2. ASSUME NEW q \in Requests, NEW f \in FileIDs, CompleteUpload(q, f)
        PROVE  invoicing'[r] = invoicing[r]
    BY <2>2 DEF CompleteUpload, CallCreateInvoice, TypeOK, HasInvoice
  <2>3. ASSUME NEW q \in Requests, NEW h \in Hashes, WalletCreates(q, h), r = q
        PROVE  InvoiceIsFor(invoicing[r].hash, invoicing[r].file)'
    <3>1. /\ invoicing'[r].hash = h /\ invoicing'[r].file = invoicing[r].file
          /\ h \in DOMAIN wallet' /\ wallet'[h].file = invoicing[r].file
      BY <2>3 DEF WalletCreates, TypeOK, MapPut
    <3> QED BY <3>1 DEF InvoiceIsFor
  <2>4. ASSUME NEW q \in Requests, NEW h \in Hashes, WalletCreates(q, h), r /= q
        PROVE  invoicing'[r] = invoicing[r]
    BY <2>4 DEF WalletCreates, TypeOK
  <2>5. ASSUME NEW q \in Requests, WalletRefuses(q) \/ Respond(q)
        PROVE  invoicing'[r] = invoicing[r]
    BY <2>5 DEF WalletRefuses, Respond, TypeOK, HasInvoice, Idle
  <2>6. ASSUME NEW q \in Requests, PersistInvoice(q) \/ RegisterInvoice(q), r = q
        PROVE  InvoiceIsFor(invoicing[r].hash, invoicing[r].file)'
    <3>1. HasInvoice(r) /\ invoicing'[r].hash = invoicing[r].hash /\ invoicing'[r].file = invoicing[r].file
      BY <2>6 DEF PersistInvoice, RegisterInvoice, Goes, TypeOK, HasInvoice
    <3>2. InvoiceIsFor(invoicing[r].hash, invoicing[r].file)
      BY <3>1 DEF ReferencesAgree
    <3> QED BY <3>1, <3>2, WalletGrows
  <2>7. ASSUME NEW q \in Requests, PersistInvoice(q) \/ RegisterInvoice(q), r /= q
        PROVE  invoicing'[r] = invoicing[r]
    BY <2>7 DEF PersistInvoice, RegisterInvoice, Goes, TypeOK
  <2>8. ~Crash
    BY DEF Crash, HasInvoice, NoCalls, Idle
  <2> QED BY <2>1, <2>2, <2>3, <2>4, <2>5, <2>6, <2>7, <2>8, Frame
<1>4. \A h \in webhooks' \cup credited' : Settled(h)'
  <2>1. \A h \in webhooks' : Settled(h)'
    <3>1. ASSUME NEW h \in Hashes, Settle(h) PROVE \A g \in webhooks' : Settled(g)'
      <4>1. webhooks' = webhooks \cup {h} /\ Settled(h)'
        BY <3>1 DEF Settle, Settled, TypeOK, IsMap
      <4> QED BY <4>1, WalletGrows DEF ReferencesAgree
    <3>2. ASSUME NEW h \in Hashes, HandleWebhook(h) PROVE webhooks' \subseteq webhooks
      BY <3>2 DEF HandleWebhook
    <3>3. CASE webhooks' \subseteq webhooks
      BY <3>3, WalletGrows DEF ReferencesAgree
    <3> QED BY <3>1, <3>2, <3>3, Frame
  <2>2. \A h \in credited' : Settled(h)'
    <3>1. CASE UNCHANGED credited
      BY <3>1, WalletGrows DEF ReferencesAgree
    <3>2. CASE MarkPaid
      <4>1. credited' \subseteq credited \cup {watcher.hash} /\ Settled(watcher.hash)
        BY <3>2 DEF MarkPaid, ReferencesAgree
      <4> QED BY <4>1, WalletGrows DEF ReferencesAgree
    <3> QED BY <3>1, <3>2, Frame
  <2> QED BY <2>1, <2>2
<1>5. \A i \in 1..Len(updates') : Settled(updates[i])'
  <2> SUFFICES ASSUME NEW i \in 1..Len(updates') PROVE Settled(updates[i])'
    OBVIOUS
  <2>1. CASE UNCHANGED updates
    BY <2>1, WalletGrows DEF ReferencesAgree
  <2>2. ASSUME NEW h \in Hashes, HandleWebhook(h) PROVE Settled(updates[i])'
    <3>1. \/ i \in 1..Len(updates) /\ updates'[i] = updates[i]
          \/ updates'[i] = h
      BY <2>2 DEF HandleWebhook, Send, TypeOK
    <3>2. Settled(h)
      BY <2>2 DEF HandleWebhook, ReferencesAgree
    <3> QED BY <3>1, <3>2, WalletGrows DEF ReferencesAgree
  <2>3. CASE TakeUpdate
    <3>1. i + 1 \in 1..Len(updates) /\ updates'[i] = updates[i + 1]
      BY <2>3 DEF TakeUpdate, TypeOK
    <3> QED BY <3>1, WalletGrows DEF ReferencesAgree
  <2>4. ~Crash
    BY DEF Crash
  <2> QED BY <2>1, <2>2, <2>3, <2>4, Frame
<1>6. watcher'.pc /= "receive" =>
        Settled(watcher.hash)' /\ InvoiceIsFor(watcher.hash, watcher.file)'
  <2> SUFFICES ASSUME watcher'.pc /= "receive"
               PROVE  Settled(watcher.hash)' /\ InvoiceIsFor(watcher.hash, watcher.file)'
    OBVIOUS
  <2>1. CASE watcher.pc /= "receive" /\ watcher'.hash = watcher.hash /\ watcher'.file = watcher.file
    BY <2>1, WalletGrows DEF ReferencesAgree
  <2>2. CASE UNCHANGED watcher
    BY <2>1, <2>2
  <2>3. CASE TakeUpdate
    <3> DEFINE h == Head(updates)
    <3>1. h = updates[1] /\ 1 \in 1..Len(updates)
      BY <2>3 DEF TakeUpdate, TypeOK
    <3>2. Settled(h)
      BY <3>1 DEF ReferencesAgree
    <3>3. CASE h \in DOMAIN pending
      <4>1. InvoiceIsFor(h, pending[h])
        BY <3>3 DEF ReferencesAgree
      <4>2. watcher'.hash = h /\ watcher'.file = pending[h]
        BY <2>3, <3>3 DEF TakeUpdate
      <4> QED BY <3>2, <4>1, <4>2, WalletGrows
    <3>4. CASE h \notin DOMAIN pending
      BY <2>2, <2>3, <3>4 DEF TakeUpdate
    <3> QED BY <3>3, <3>4
  <2>4. CASE Unpersist
    BY <2>1, <2>4 DEF Unpersist
  <2>5. CASE MarkPaid
    BY <2>1, <2>5 DEF MarkPaid
  <2>6. ~Notify /\ ~Crash
    BY DEF Notify, Crash, Receiving
  <2> QED BY <2>2, <2>3, <2>4, <2>5, <2>6, Frame
<1> QED BY <1>1, <1>2, <1>3, <1>4, <1>5, <1>6 DEF ReferencesAgree

\* At the start nothing refers to an invoice.
LEMMA ReferencesInit == Init => ReferencesAgree
BY DEF Init, ReferencesAgree, EmptyMap, NoCalls, Idle, Receiving, HasInvoice, StoreInit

\* The index changes only together with the map, and a handler's invoice is never
\* pending for another file.
LEMMA IndexStep == TypeOK /\ ReferencesAgree /\ IndexAgrees /\ [Next]_vars => IndexAgrees'
<1> SUFFICES ASSUME TypeOK, ReferencesAgree, IndexAgrees, [Next]_vars PROVE IndexAgrees'
  OBVIOUS
<1>1. ASSUME NEW q \in Requests, RegisterInvoice(q) PROVE IndexAgrees'
  <2> DEFINE h == invoicing[q].hash
             f == invoicing[q].file
  <2>1. h \in DOMAIN pending => pending[h] = f
    BY <1>1 DEF RegisterInvoice, HasInvoice, ReferencesAgree, InvoiceIsFor
  <2>2. /\ pending' = MapPut(pending, h, f)
        /\ byFileID' = MapPut(byFileID, f, h)
    BY <1>1 DEF RegisterInvoice
  <2> QED BY <2>1, <2>2 DEF IndexAgrees, MapPut
<1>2. CASE TakeUpdate
  BY <1>2 DEF TakeUpdate, IndexAgrees, MapDelete
<1>3. CASE Crash
  BY <1>3 DEF Crash, IndexAgrees, EmptyMap
<1>4. CASE Restart
  <2>1. CASE LoadPendingInvoices
    BY <2>1 DEF LoadPendingInvoices, IndexAgrees
  <2>2. CASE UNCHANGED <<pending, byFileID>>
    BY <2>2 DEF IndexAgrees
  <2> QED BY <1>4, <2>1, <2>2 DEF Restart
<1>5. CASE UNCHANGED <<pending, byFileID>>
  BY <1>5 DEF IndexAgrees
<1> QED BY <1>1, <1>2, <1>3, <1>4, <1>5, Frame

\* At the start the index is empty.
LEMMA IndexInit == Init => IndexAgrees
BY DEF Init, IndexAgrees, EmptyMap

\* Whatever memory, table, channel and webhooks hold refers to the wallet's
\* invoice for the same file, in every reachable state and whatever fails.
THEOREM ReferencesCorrect == Spec => []ReferencesAgree
BY TypeInit, TypeStep, ReferencesInit, ReferencesStep, PTL DEF Spec

\* GET /invoice never offers an invoice whose settlement would be ignored: the
\* index agrees with the map in every reachable state, whatever fails.
THEOREM IndexCorrect == Spec => []IndexAgrees
BY TypeInit, TypeStep, ReferencesInit, ReferencesStep, IndexInit, IndexStep, PTL DEF Spec

-----------------------------------------------------------------------------
(***************************************************************************)
(* Nobody is hosted for free                                               *)
(***************************************************************************)

\* The rows a step leaves paid were paid before, or are the one MarkPaid marks.
LEMMA RowsPaid ==
  ASSUME TypeOK, [Next]_vars, NEW f \in DOMAIN files', files'[f].paid
  PROVE  \/ f \in DOMAIN files /\ files[f].paid
         \/ MarkPaid /\ f = watcher.file /\ credited' = credited \cup {watcher.hash}
<1>1. ASSUME NEW q \in Requests, NEW g \in FileIDs, CompleteUpload(q, g)
      PROVE  f \in DOMAIN files /\ files[f].paid
  <2>1. PICK size \in Sizes : SaveFileMetadata(g, PendingMeta(size))
    BY <1>1 DEF CompleteUpload
  <2>2. f = g => files'[f] = PendingMeta(size)
    BY <2>1 DEF SaveFileMetadata, MapPut
  <2>3. f /= g => f \in DOMAIN files /\ files'[f] = files[f]
    BY <2>1 DEF SaveFileMetadata, MapPut
  <2>4. PendingMeta(size).paid = FALSE
    BY DEF PendingMeta
  <2> QED BY <2>2, <2>3, <2>4
<1>2. ASSUME NEW g \in FileIDs, FileSwept(g)
      PROVE  f \in DOMAIN files /\ files[f].paid
  BY <1>2 DEF FileSwept, DeleteFileMetadata, MapDelete
<1>3. CASE MarkPaid
  <2>1. CASE UpdatePaymentStatus(watcher.file) /\ credited' = credited \cup {watcher.hash}
    <3>1. DOMAIN files' = DOMAIN files /\ \A g \in DOMAIN files : g /= watcher.file => files'[g] = files[g]
      BY <2>1 DEF UpdatePaymentStatus
    <3> QED BY <1>3, <2>1, <3>1
  <2>2. CASE UNCHANGED files
    BY <2>2
  <2> QED BY <1>3, <2>1, <2>2 DEF MarkPaid
<1>4. CASE UNCHANGED files
  BY <1>4
<1>5. \/ UNCHANGED files
      \/ \E q \in Requests, g \in FileIDs : CompleteUpload(q, g)
      \/ \E g \in FileIDs : FileSwept(g)
      \/ MarkPaid
  BY NextCases
     DEF WalletCreates, WalletRefuses, PersistInvoice, RegisterInvoice, Respond, GetInvoiceForFile,
         Settle, HandleWebhook, TakeUpdate, Unpersist, Notify, Crash, Restart, TimePasses, OtherCallFails, vars, tables
<1> QED BY <1>1, <1>2, <1>3, <1>4, <1>5

\* Only MarkPaid makes a row paid, and its settlement stays settled.
LEMMA PaidStep ==
  TypeOK /\ ReferencesAgree /\ PaidWasSettled /\ [Next]_vars => PaidWasSettled'
<1> SUFFICES ASSUME TypeOK, ReferencesAgree, PaidWasSettled, [Next]_vars,
                    NEW f \in DOMAIN files', files'[f].paid
             PROVE  \E h \in credited' : Settled(h)' /\ wallet'[h].file = f
  BY DEF PaidWasSettled
<1>1. CASE f \in DOMAIN files /\ files[f].paid
  <2>1. PICK h \in credited : Settled(h) /\ wallet[h].file = f
    BY <1>1 DEF PaidWasSettled
  <2>2. h \in credited'
    BY Frame DEF MarkPaid
  <2>3. InvoiceIsFor(h, f)
    BY <2>1 DEF Settled, InvoiceIsFor
  <2> QED BY <2>1, <2>2, <2>3, WalletGrows DEF InvoiceIsFor
<1>2. CASE MarkPaid /\ f = watcher.file /\ credited' = credited \cup {watcher.hash}
  <2>1. Settled(watcher.hash) /\ InvoiceIsFor(watcher.hash, f)
    BY <1>2 DEF MarkPaid, ReferencesAgree
  <2> QED BY <1>2, <2>1, WalletGrows DEF InvoiceIsFor
<1> QED BY <1>1, <1>2, RowsPaid

\* At the start no row is paid.
LEMMA PaidInit == Init => PaidWasSettled
BY DEF Init, StoreInit, EmptyMap, PaidWasSettled

\* A row is marked paid only after the wallet settled an invoice made for that
\* file: for any number of handlers, crashes, failing statements, redelivered
\* webhooks, and rows swept and made again.
THEOREM NobodyIsHostedForFree == Spec => []PaidWasSettled
BY TypeInit, TypeStep, ReferencesInit, ReferencesStep, PaidInit, PaidStep, PTL DEF Spec

=============================================================================
