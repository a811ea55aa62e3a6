---------------------------- MODULE PaymentContract ----------------------------
(***************************************************************************)
(* What the payment service promises, without its goroutines, maps, table  *)
(* and channel: a file becomes paid by spending a settled invoice that was *)
(* made for it, and an invoice is spent at most once.  It promises nothing *)
(* about how soon, and lets a row disappear at any time (the file service  *)
(* promises when that may happen).                                         *)
(***************************************************************************)
EXTENDS GoMaps

CONSTANTS FileIDs, Hashes

VARIABLES
  paidRows,    \* the files that have a row -> is it paid?
  invoiceFor,  \* the invoices made -> the file each is for
  settled,     \* the invoices the payer has paid
  spent        \* the invoices that have bought their hosting period

contractVars == <<paidRows, invoiceFor, settled, spent>>

Init ==
  /\ paidRows = EmptyMap
  /\ invoiceFor = EmptyMap
  /\ settled = {}
  /\ spent = {}

Upload(f) ==
  /\ f \notin DOMAIN paidRows
  /\ paidRows' = MapPut(paidRows, f, FALSE)
  /\ UNCHANGED <<invoiceFor, settled, spent>>

Remove(f) ==
  /\ f \in DOMAIN paidRows
  /\ paidRows' = MapDelete(paidRows, f)
  /\ UNCHANGED <<invoiceFor, settled, spent>>

Issue(h, f) ==
  /\ h \notin DOMAIN invoiceFor
  /\ invoiceFor' = MapPut(invoiceFor, h, f)
  /\ UNCHANGED <<paidRows, settled, spent>>

Pay(h) ==
  /\ h \in DOMAIN invoiceFor \ settled
  /\ settled' = settled \cup {h}
  /\ UNCHANGED <<paidRows, invoiceFor, spent>>

Credit(h) ==
  /\ h \in settled \ spent
  /\ invoiceFor[h] \in DOMAIN paidRows
  /\ paidRows' = [paidRows EXCEPT ![invoiceFor[h]] = TRUE]
  /\ spent' = spent \cup {h}
  /\ UNCHANGED <<invoiceFor, settled>>

Next ==
  \/ \E f \in FileIDs : Upload(f) \/ Remove(f)
  \/ \E h \in Hashes, f \in FileIDs : Issue(h, f)
  \/ \E h \in Hashes : Pay(h) \/ Credit(h)

Spec == Init /\ [][Next]_contractVars

=============================================================================
