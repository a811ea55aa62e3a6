------------------------------ MODULE PendingPage ------------------------------
(***************************************************************************)
(* The payment page of the web client (web/js/app.js, initPending, and     *)
(* web/js/upload.js, pollPaymentStatus) in front of the whole server: it   *)
(* asks for the file's status, then for its invoice, then for the status   *)
(* again every two seconds, until the payment is seen or the page gives    *)
(* up.  Each fetch is a step of its own, so that payments, sweeps, crashes *)
(* and restarts of the server fall between any two of them.                *)
(***************************************************************************)
EXTENDS Server

CONSTANT MaxPoll    \* MAX_POLL_DURATION_MS

ASSUME PageAssumption == MaxPoll \in Nat

VARIABLE page       \* the page opened at /pending/{id}, for each file

pageVars == <<vars, page>>

Page == [pc: {"closed", "status", "invoice", "paid", "share", "gaveUp"}]
          \cup [pc: {"poll", "asking"}, start: 0..MaxTime]
          \cup [pc: {"error"}, reason: {"noInvoice", "noServer"}]

\* The server's types, and a page in one of the states its script has.
PageTypeOK == TypeOK /\ page \in [FileIDs -> Page]

PageInit == Init /\ page = [f \in FileIDs |-> [pc |-> "closed"]]

-----------------------------------------------------------------------------
(***************************************************************************)
(* The script of the page, for file f                                      *)
(***************************************************************************)

ServerIdle == UNCHANGED vars
Enters(f, state) == page' = [page EXCEPT ![f] = state]

\* The uploader is redirected here once complete has answered; the link works
\* from then on, and a reload starts the script again
OpenPage(f) ==
  /\ up
  /\ \E h \in shown : wallet[h].file = f
  /\ Enters(f, [pc |-> "status"])
  /\ ServerIdle

\* The answer of handleStatus: 404 without a row, 500 if the SELECT fails
StatusPaid(f) == up /\ Row(f) /\ files[f].paid
StatusUnpaid(f) == up /\ ~(Row(f) /\ files[f].paid) /\ ServerIdle
StatusFails == up /\ StoreFails /\ UNCHANGED <<now, files, invoices, processVars, paymentVars,
                                               fileVars, limiterVars>>

\* The promise of fetch itself is rejected
FetchFails == ~up /\ ServerIdle

\* An error status is no reason to stop, a failed fetch is
FetchStatus(f) ==
  /\ page[f].pc = "status"
  /\ \/ StatusPaid(f) /\ ServerIdle /\ Enters(f, [pc |-> "share"])
     \/ (StatusUnpaid(f) \/ StatusFails) /\ Enters(f, [pc |-> "invoice"])
     \/ FetchFails /\ Enters(f, [pc |-> "error", reason |-> "noServer"])

\* With the invoice on display, polling begins at once
FetchInvoice(f) ==
  /\ page[f].pc = "invoice"
  /\ \/ HandleGetInvoice(f) /\ Enters(f, [pc |-> "poll", start |-> now])
     \/ /\ up /\ f \notin DOMAIN byFileID
        /\ ServerIdle
        /\ Enters(f, [pc |-> "error", reason |-> "noInvoice"])
     \/ FetchFails /\ Enters(f, [pc |-> "error", reason |-> "noServer"])

\* Fault: the page gives up as soon as the duration is reached
PollUntilReached(f) ==
  /\ page[f].pc = "poll"
  /\ \/ now - page[f].start >= MaxPoll /\ Enters(f, [pc |-> "gaveUp"])
     \/ now - page[f].start < MaxPoll /\ Enters(f, [page[f] EXCEPT !.pc = "asking"])
  /\ ServerIdle

\* The timer fires: past the maximum nothing is polled any more, and initPending
\* passes no onTimeout, so that the page stays as it is
Poll(f) ==
  /\ page[f].pc = "poll"
  /\ \/ now - page[f].start > MaxPoll /\ Enters(f, [pc |-> "gaveUp"])
     \/ now - page[f].start <= MaxPoll /\ Enters(f, [page[f] EXCEPT !.pc = "asking"])
  /\ ServerIdle

\* Fault: a fetch that fails ends the loop, and nothing watches any more
AnswerOrStop(f) ==
  /\ page[f].pc = "asking"
  /\ \/ StatusPaid(f) /\ ServerIdle /\ Enters(f, [pc |-> "paid"])
     \/ StatusUnpaid(f) /\ Enters(f, [page[f] EXCEPT !.pc = "poll"])
     \/ (StatusFails \/ FetchFails) /\ Enters(f, [pc |-> "closed"])

\* Only a paid status ends the polling; any error sets the next timer
Answer(f) ==
  /\ page[f].pc = "asking"
  /\ \/ StatusPaid(f) /\ ServerIdle /\ Enters(f, [pc |-> "paid"])
     \/ /\ StatusUnpaid(f) \/ StatusFails \/ FetchFails
        /\ Enters(f, [page[f] EXCEPT !.pc = "poll"])

\* A second later the share link is shown
ShowSharePage(f) ==
  /\ page[f].pc = "paid"
  /\ Enters(f, [pc |-> "share"])
  /\ ServerIdle

Script(f) == FetchStatus(f) \/ FetchInvoice(f) \/ Poll(f) \/ Answer(f) \/ ShowSharePage(f)

PageNext ==
  \/ \E f \in FileIDs : OpenPage(f) \/ Script(f)
  \/ Next /\ UNCHANGED page

PageSpec == PageInit /\ [][PageNext]_pageVars

(***************************************************************************)
(* A script that can go on does, and the operator restarts the server.     *)
(* Nothing makes a client open a page or keep it from reloading it.        *)
(***************************************************************************)
PageFairness ==
  /\ \A f \in FileIDs : WF_pageVars(Script(f))
  /\ WF_pageVars(Restart /\ UNCHANGED page)

FairPageSpec == PageSpec /\ PageFairness

-----------------------------------------------------------------------------
(***************************************************************************)
(* Properties                                                              *)
(***************************************************************************)

\* "Could not fetch invoice. File may have expired." has one reason while no
\* statement fails, and it is another one: the invoice was paid between the
\* page's two fetches, or is being credited.  A page that can still be paid
\* shows its invoice, after any restart and after the row was swept too.
NoInvoiceMeansPaid ==
  \A f \in FileIDs :
    page[f] = [pc |-> "error", reason |-> "noInvoice"] /\ faults = 0 =>
      \E h \in DOMAIN wallet : wallet[h].file = f /\ wallet[h].settled

\* The page, which stops without a word, watches for at least as long as the row
\* waits for its payment: MAX_POLL_DURATION_MS, that starts later, is no shorter
\* than the server's pending timeout.
PollOutlivesRow ==
  \A f \in FileIDs :
    page[f].pc = "gaveUp" /\ Row(f) /\ ~files[f].paid => now > files[f].expiresAt

\* A page that polls while its file is paid shows the share link in the end,
\* through restarts of the server and failing statements.  Or the row is
\* removed, the time is over, or a reload finds the server down.
PaidIsShared ==
  \A f \in FileIDs :
    Row(f) /\ files[f].paid /\ page[f].pc \in {"poll", "asking"}
      ~> page[f].pc \in {"share", "gaveUp", "error"} \/ ~Row(f)

-----------------------------------------------------------------------------
\* What these rest on (ServerProofs): a page is open for a file whose payment
\* request was shown, and began to poll no earlier than its row was made.
OpenIsPayable ==
  \A f \in FileIDs : page[f].pc /= "closed" => \E h \in shown : wallet[h].file = f

PollsInTime ==
  \A f \in FileIDs :
    page[f].pc \in {"poll", "asking"} /\ Row(f) /\ ~files[f].paid =>
      files[f].expiresAt <= page[f].start + PendingTimeout

=============================================================================
