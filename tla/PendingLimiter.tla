---------------------------- MODULE PendingLimiter ----------------------------
(***************************************************************************)
(* internal/api/pending_limiter.go: which unpaid files each client IP has, *)
(* to refuse a client that has too many.  Two maps under one lock: per IP, *)
(* the files and when each was tracked, and the reverse index a payment    *)
(* callback needs, which knows only the file.                              *)
(***************************************************************************)
EXTENDS Clock, GoMaps, FiniteSets

CONSTANTS
  FileIDs, IPs,
  MaxPending,       \* files an IP may have pending (3 in main.go)
  PendingTimeout    \* age at which the cleanup drops an entry (files.PendingTimeout)

ASSUME LimiterAssumption ==
  /\ MaxPending \in Nat \ {0}
  /\ PendingTimeout \in Nat

VARIABLES
  pendingByIP,  \* ip -> (file -> time it was tracked)
  fileToIP      \* file -> ip

limiterVars == <<pendingByIP, fileToIP>>
vars == <<now, limiterVars>>

\* The maps hold IPs, files and past times, and no IP keeps an empty bucket:
\* an entry in pendingByIP would otherwise stay for every client ever seen.
TypeOK ==
  /\ now \in Nat
  /\ DOMAIN pendingByIP \subseteq IPs
  /\ \A ip \in DOMAIN pendingByIP :
       IsMap(pendingByIP[ip], FileIDs, 0..now) /\ DOMAIN pendingByIP[ip] /= {}
  /\ IsMap(fileToIP, FileIDs, IPs)

LimiterInit ==
  /\ pendingByIP = EmptyMap
  /\ fileToIP = EmptyMap

\* pendingByIP[ip], nil for an IP without entries
FilesOf(ip) == IF ip \in DOMAIN pendingByIP THEN pendingByIP[ip] ELSE EmptyMap

CanUpload(ip) == Cardinality(DOMAIN FilesOf(ip)) < MaxPending

\* A file tracked before, from this or another IP, keeps its old entries: only
\* the reverse index moves
TrackPendingFile(ip, f) ==
  /\ pendingByIP' = MapPut(pendingByIP, ip, MapPut(FilesOf(ip), f, now))
  /\ fileToIP' = MapPut(fileToIP, f, ip)

\* Fault: an empty bucket stays
WithEmpty(buckets) == buckets

\* buckets, with those that have become empty deleted
WithoutEmpty(buckets) == [ip \in {i \in DOMAIN buckets : DOMAIN buckets[i] /= {}} |-> buckets[ip]]

OnPaymentReceived(f) ==
  \/ f \notin DOMAIN fileToIP /\ UNCHANGED limiterVars
  \/ /\ f \in DOMAIN fileToIP
     /\ fileToIP' = MapDelete(fileToIP, f)
     /\ pendingByIP' = WithoutEmpty(
          [ip \in DOMAIN pendingByIP |->
             IF ip = fileToIP[f] THEN MapDelete(pendingByIP[ip], f) ELSE pendingByIP[ip]])

\* Fault: After for Before
Fresh(ip) == {f \in DOMAIN pendingByIP[ip] : pendingByIP[ip][f] > now - PendingTimeout}

\* Fault: an entry is dropped at its timeout, not after it
StaleEarly(ip) == {f \in DOMAIN pendingByIP[ip] : pendingByIP[ip][f] <= now - PendingTimeout}

\* The files of ip tracked before the cutoff, time.Now() - maxAge
Stale(ip) == {f \in DOMAIN pendingByIP[ip] : pendingByIP[ip][f] < now - PendingTimeout}

\* Fault: the index keeps the files that leave the buckets
CleanupKeepsIndex ==
  /\ pendingByIP' = WithoutEmpty(
       [ip \in DOMAIN pendingByIP |->
          [f \in DOMAIN pendingByIP[ip] \ Stale(ip) |-> pendingByIP[ip][f]]])
  /\ UNCHANGED fileToIP

\* A stale entry takes the file's index entry with it, whichever IP that names
CleanupExpired ==
  /\ pendingByIP' = WithoutEmpty(
       [ip \in DOMAIN pendingByIP |->
          [f \in DOMAIN pendingByIP[ip] \ Stale(ip) |-> pendingByIP[ip][f]]])
  /\ fileToIP' = [f \in DOMAIN fileToIP \ UNION {Stale(ip) : ip \in DOMAIN pendingByIP} |-> fileToIP[f]]

\* The limiter is memory only: a new process starts with a new one
NewPendingFileLimiter ==
  /\ pendingByIP' = EmptyMap
  /\ fileToIP' = EmptyMap

-----------------------------------------------------------------------------
Init == ClockInit /\ LimiterInit

\* The callers, as far as the limiter can tell: any upload may complete, any
\* payment arrive and the cleanup run at any time
Uploaded(ip, f) == TrackPendingFile(ip, f) /\ UNCHANGED now

Paid(f) == OnPaymentReceived(f) /\ UNCHANGED now

Swept == CleanupExpired /\ UNCHANGED now

Restarted == NewPendingFileLimiter /\ UNCHANGED now

TimePasses == Tick /\ UNCHANGED limiterVars

Next ==
  \/ \E ip \in IPs, f \in FileIDs : Uploaded(ip, f)
  \/ \E f \in FileIDs : Paid(f)
  \/ Swept
  \/ Restarted
  \/ TimePasses

Spec == Init /\ [][Next]_vars

\* The cleanup goroutine's ticker
FairSpec == Spec /\ WF_vars(Swept) /\ WF_vars(TimePasses)

-----------------------------------------------------------------------------
\* The two maps agree as far as the callback needs: whatever IP the index names
\* does have the file in its bucket, whoever else tracked the same file.
IndexSound == \A f \in DOMAIN fileToIP : LET ip == fileToIP[f] IN
  ip \in DOMAIN pendingByIP /\ f \in DOMAIN pendingByIP[ip]

\* No entry counts against a client for ever: whatever was tracked at a time t
\* is dropped or tracked again, though no payment and no upload ever comes.
EntriesExpire ==
  \A ip \in IPs, f \in FileIDs, t \in 0..(MaxTime - PendingTimeout - 1) :
    (f \in DOMAIN FilesOf(ip) /\ FilesOf(ip)[f] = t)
      ~> ~(f \in DOMAIN FilesOf(ip) /\ FilesOf(ip)[f] = t)

=============================================================================
