----------------------------- MODULE RateLimiter -----------------------------
(***************************************************************************)
(* internal/api/middleware.go: a token bucket per client IP, in a sync.Map *)
(* that request goroutines and a cleanup goroutine use without a lock.  A  *)
(* step is one operation on the map, one access to lastSeen or one call of *)
(* a bucket; the clock is read with the Load that follows.  This is the    *)
(* generalLimiter: every registered route goes to it, since the            *)
(* uploadLimiter is for POST /api/upload, which is none.                   *)
(*                                                                         *)
(* Time is in Unix seconds, as lastSeen is.  A request goes through the    *)
(* middleware within MaxDelay of them; the cleanup takes as long as it     *)
(* likes.  golang.org/x/time/rate is external.                             *)
(***************************************************************************)
EXTENDS Clock, GoMaps, Sequences

CONSTANTS
  IPs, Requests,
  Rate, Burst,   \* of a bucket: tokens per second, tokens at most
  TTL,           \* how long an idle bucket is kept
  MaxDelay       \* bound on the time a request spends in the middleware

\* A client that keeps off an idle bucket is as good as new when the bucket can be
\* dropped.  A bucket may be in use for twice MaxDelay after its lastSeen, which a
\* late request sets back.  (In the code a bucket of 20 gets 10 tokens a second and
\* is kept for 600 seconds.)
ASSUME RateAssumption ==
  /\ Rate \in Nat /\ Burst \in Nat \ {0} /\ TTL \in Nat /\ MaxDelay \in Nat
  /\ 2 * Burst + Rate * MaxDelay <= Rate * (TTL + 1 - 2 * MaxDelay)

VARIABLES
  limiters,   \* the sync.Map: ip -> its bucket, an index into heap
  heap,       \* the trackedLimiters made so far
  request,    \* the middleware call of each request goroutine
  cleaner,    \* the cleanup goroutine
  stopped,    \* has Stop been called?
  ample,      \* history: the tokens of an ideal bucket of Capacity, per IP
  scant       \* history: the same, of an ideal bucket of Burst

limiterVars == <<limiters, heap>>
history == <<ample, scant>>
vars == <<now, limiterVars, request, cleaner, stopped, history>>

\* The largest burst the race of cleanup and request lets through: a full bucket
\* already in use when it is dropped, what it gains while in use, and a new one
Capacity == 2 * Burst + Rate * MaxDelay

Lesser(a, b) == IF a < b THEN a ELSE b

Bucket == [tokens: 0..Burst, last: Nat, lastSeen: Nat]

Idle  == [pc |-> "idle"]
Asleep == [pc |-> "asleep"]

RequestState == {Idle} \cup [pc: {"store"}, ip: IPs, at: Nat]
                       \cup [pc: {"touch", "allow"}, ip: IPs, at: Nat, limiter: Nat]

CleanerState == {Asleep} \cup [pc: {"range"}, todo: SUBSET IPs, cutoff: Int]
                         \cup [pc: {"delete"}, todo: SUBSET IPs, cutoff: Int, ip: IPs]

\* Map and goroutines refer to buckets that exist, and no bucket holds more than
\* its burst.
TypeOK ==
  /\ now \in Nat
  /\ IsMap(limiters, IPs, 1..Len(heap))
  /\ heap \in Seq(Bucket)
  /\ request \in [Requests -> RequestState]
  /\ \A q \in Requests : request[q].pc \in {"touch", "allow"} => request[q].limiter \in 1..Len(heap)
  /\ cleaner \in CleanerState
  /\ stopped \in BOOLEAN
  /\ scant \in [IPs -> 0..Burst]
  /\ ample \in [IPs -> Int] /\ \A ip \in IPs : ample[ip] <= Capacity

Init ==
  /\ ClockInit
  /\ limiters = EmptyMap
  /\ heap = <<>>
  /\ request = [q \in Requests |-> Idle]
  /\ cleaner = Asleep
  /\ stopped = FALSE
  /\ ample = [ip \in IPs |-> Capacity]
  /\ scant = [ip \in IPs |-> Burst]

-----------------------------------------------------------------------------
(***************************************************************************)
(* A request                                                               *)
(***************************************************************************)

\* getLimiter reads the clock and looks the IP up
Load(q, ip) ==
  /\ request[q] = Idle
  /\ request' = [request EXCEPT ![q] =
       IF ip \in DOMAIN limiters
       THEN [pc |-> "touch", ip |-> ip, at |-> now, limiter |-> limiters[ip]]
       ELSE [pc |-> "store", ip |-> ip, at |-> now]]
  /\ UNCHANGED <<now, limiterVars, cleaner, stopped, history>>

\* tracked.lastSeen = now: a plain store, by now perhaps to a bucket the map has
\* lost, or over a later time
Touch(q) ==
  /\ request[q].pc = "touch"
  /\ heap' = [heap EXCEPT ![request[q].limiter].lastSeen = request[q].at]
  /\ request' = [request EXCEPT ![q].pc = "allow"]
  /\ UNCHANGED <<now, limiters, cleaner, stopped, history>>

\* Fault: an empty bucket, as if rate.NewLimiter(rl.rate, 0)
NewEmptyLimiter(q) == [tokens |-> 0, last |-> now, lastSeen |-> request[q].at]

\* rate.NewLimiter, with the clock getLimiter read before
NewLimiter(q) == [tokens |-> Burst, last |-> now, lastSeen |-> request[q].at]

GoesTo(q, limiter) ==
  request' = [request EXCEPT ![q] =
    [pc |-> "allow", ip |-> @.ip, at |-> @.at, limiter |-> limiter]]

\* Fault: the new bucket is used, and not stored
UseUnstored(q) ==
  /\ request[q].pc = "store"
  /\ heap' = Append(heap, NewLimiter(q))
  /\ GoesTo(q, Len(heap'))
  /\ UNCHANGED <<now, limiters, cleaner, stopped, history>>

\* LoadOrStore: of several requests that missed, the first one's bucket stays
LoadOrStore(q) ==
  /\ request[q].pc = "store"
  /\ \/ /\ request[q].ip \in DOMAIN limiters
        /\ GoesTo(q, limiters[request[q].ip])
        /\ UNCHANGED limiterVars
     \/ /\ request[q].ip \notin DOMAIN limiters
        /\ heap' = Append(heap, NewLimiter(q))
        /\ limiters' = MapPut(limiters, request[q].ip, Len(heap'))
        /\ GoesTo(q, Len(heap'))
  /\ UNCHANGED <<now, cleaner, stopped, history>>

\* Fault: a bucket without a brim
TokensUncapped(bucket) == bucket.tokens + Rate * (now - bucket.last)

\* The tokens a bucket has by now
Tokens(bucket) == Lesser(Burst, bucket.tokens + Rate * (now - bucket.last))

Grants(q) == request[q].pc = "allow" /\ Tokens(heap[request[q].limiter]) >= 1

\* limiter.Allow() takes a token: the request goes on to the handlers
Allow(q) ==
  /\ Grants(q)
  /\ LET id == request[q].limiter
         ip == request[q].ip IN
       /\ heap' = [heap EXCEPT ![id].tokens = Tokens(heap[id]) - 1, ![id].last = now]
       /\ ample' = [ample EXCEPT ![ip] = @ - 1]
       /\ scant' = [scant EXCEPT ![ip] = IF @ > 0 THEN @ - 1 ELSE 0]
  /\ request' = [request EXCEPT ![q] = Idle]
  /\ UNCHANGED <<now, limiters, cleaner, stopped>>

\* It finds none: 429
Refuse(q) ==
  /\ request[q].pc = "allow" /\ ~Grants(q)
  /\ request' = [request EXCEPT ![q] = Idle]
  /\ UNCHANGED <<now, limiterVars, cleaner, stopped, history>>

-----------------------------------------------------------------------------
(***************************************************************************)
(* The cleanup goroutine                                                   *)
(***************************************************************************)

\* Fault: the TTL is taken off twice
BeginLateCleanup ==
  /\ cleaner = Asleep /\ ~stopped
  /\ cleaner' = [pc |-> "range", todo |-> DOMAIN limiters, cutoff |-> now - 2 * TTL]
  /\ UNCHANGED <<now, limiterVars, request, stopped, history>>

\* The ticker fires and cleanup computes its cutoff.  An entry stored while Range
\* runs may be visited or not: it is too young to matter
BeginCleanup ==
  /\ cleaner = Asleep /\ ~stopped
  /\ cleaner' = [pc |-> "range", todo |-> DOMAIN limiters, cutoff |-> now - TTL]
  /\ UNCHANGED <<now, limiterVars, request, stopped, history>>

\* Range comes to an entry, in an order of its own, and reads its lastSeen
Visit(ip) ==
  /\ cleaner.pc = "range" /\ ip \in cleaner.todo
  /\ \/ /\ heap[limiters[ip]].lastSeen < cleaner.cutoff
        /\ cleaner' = [pc |-> "delete", todo |-> cleaner.todo \ {ip}, cutoff |-> cleaner.cutoff, ip |-> ip]
     \/ /\ heap[limiters[ip]].lastSeen >= cleaner.cutoff
        /\ cleaner' = [cleaner EXCEPT !.todo = @ \ {ip}]
  /\ UNCHANGED <<now, limiterVars, request, stopped, history>>

\* Only then is the entry deleted, whoever has used it since
Delete ==
  /\ cleaner.pc = "delete"
  /\ limiters' = MapDelete(limiters, cleaner.ip)
  /\ cleaner' = [pc |-> "range", todo |-> cleaner.todo, cutoff |-> cleaner.cutoff]
  /\ UNCHANGED <<now, heap, request, stopped, history>>

EndCleanup ==
  /\ cleaner.pc = "range" /\ cleaner.todo = {}
  /\ cleaner' = Asleep
  /\ UNCHANGED <<now, limiterVars, request, stopped, history>>

\* Called on shutdown: no further cleanup begins
Stop ==
  /\ ~stopped
  /\ stopped' = TRUE
  /\ UNCHANGED <<now, limiterVars, request, cleaner, history>>

-----------------------------------------------------------------------------
Refilled(level, capacity) == [ip \in IPs |-> Lesser(capacity, level[ip] + Rate)]

TimePasses ==
  /\ \A q \in Requests : request[q] /= Idle => now < request[q].at + MaxDelay
  /\ Tick
  /\ ample' = Refilled(ample, Capacity)
  /\ scant' = Refilled(scant, Burst)
  /\ UNCHANGED <<limiterVars, request, cleaner, stopped>>

RequestStep(q) == Touch(q) \/ LoadOrStore(q) \/ Allow(q) \/ Refuse(q)

CleanupStep ==
  \/ BeginCleanup
  \/ \E ip \in IPs : Visit(ip)
  \/ Delete
  \/ EndCleanup

Next ==
  \/ \E q \in Requests, ip \in IPs : Load(q, ip)
  \/ \E q \in Requests : RequestStep(q)
  \/ CleanupStep
  \/ Stop
  \/ TimePasses

Spec == Init /\ [][Next]_vars

\* The ticker of the cleanup goroutine, requests that go on, and time, which no
\* number of requests holds up
FairSpec ==
  /\ Spec
  /\ WF_vars(CleanupStep)
  /\ \A q \in Requests : WF_vars(RequestStep(q))
  /\ SF_vars(TimePasses)

-----------------------------------------------------------------------------
(***************************************************************************)
(* Properties                                                              *)
(***************************************************************************)

\* What all the buckets of a client together let through is what one bucket of
\* Capacity would: a request that still holds a dropped bucket, requests that make
\* a new one at once, and lastSeen written late give a client one burst more at
\* most, and not one for every cleanup.
Contract == INSTANCE TokenBucket WITH level <- ample

KeepsContract == Contract!Spec

\* A client is refused only when it has used up its burst: forgetting an idle
\* bucket, or using a dropped one, never costs a client tokens.
RefusedIsOverdrawn ==
  \A q \in Requests :
    request[q].pc = "allow" /\ ~Grants(q) => scant[request[q].ip] = 0

\* Who may use which bucket: what the map and the requests refer to.
References ==
  {<<limiters[ip], ip>> : ip \in DOMAIN limiters}
    \cup {<<request[q].limiter, request[q].ip>> :
            q \in {r \in Requests : request[r].pc \in {"touch", "allow"}}}

\* Every bucket in use, in the map or dropped, still has the tokens an ideal bucket
\* of Burst would have: a client's other buckets can only have spared it some.
BucketsSuffice ==
  \A ref \in References :
    LET bucket == heap[ref[1]] IN bucket.last <= now /\ Tokens(bucket) >= scant[ref[2]]

\* No bucket is used by two clients.
BucketsAreOwned == \A ref, other \in References : ref[1] = other[1] => ref[2] = other[2]

\* A client that went away is forgotten: an entry is dropped, or used again, unless
\* the server is shutting down.
IdleIsForgotten ==
  \A ip \in IPs, t \in 0..(MaxTime - TTL - 1) :
    (ip \in DOMAIN limiters /\ heap[limiters[ip]].lastSeen = t)
      ~> (stopped \/ ~(ip \in DOMAIN limiters /\ heap[limiters[ip]].lastSeen = t))

=============================================================================
