--------------------------- MODULE RateLimiterProofs ---------------------------
(***************************************************************************)
(* Theorems about RateLimiter, for any number of clients and requests, any *)
(* rate, burst and timeout.                                                *)
(***************************************************************************)
EXTENDS RateLimiter, TLAPS

\* A bucket has a whole number of tokens, its burst at most.
LEMMA TokensAreCapped ==
  ASSUME NEW bucket \in Bucket, now \in Nat
  PROVE  /\ Tokens(bucket) \in Int /\ Tokens(bucket) <= Burst
         /\ bucket.last <= now => Tokens(bucket) \in 0..Burst
<1> DEFINE gained == Rate * (now - bucket.last)
<1>1. gained \in Int /\ (bucket.last <= now => gained \in Nat)
  BY RateAssumption DEF Bucket
<1> HIDE DEF gained
<1>2. Tokens(bucket) = Lesser(Burst, bucket.tokens + gained)
  BY DEF Tokens, gained
<1> QED BY <1>1, <1>2, RateAssumption DEF Bucket, Lesser

\* The tokens of a bucket at a given time, of which Tokens speaks of now.
TokensAt(bucket, time) == Lesser(Burst, bucket.tokens + Rate * (time - bucket.last))

\* A second later a bucket has Rate tokens more, or is full.
LEMMA TokensRefill ==
  ASSUME NEW bucket \in Bucket, now \in Nat, bucket.last <= now
  PROVE  TokensAt(bucket, now + 1) = Lesser(Burst, Tokens(bucket) + Rate)
<1> DEFINE gained == Rate * (now - bucket.last)
<1>1. gained \in Nat /\ Rate * (now + 1 - bucket.last) = gained + Rate
  BY RateAssumption DEF Bucket
<1> HIDE DEF gained
<1>2. Tokens(bucket) = Lesser(Burst, bucket.tokens + gained)
  BY DEF Tokens, gained
<1> QED BY <1>1, <1>2, RateAssumption DEF TokensAt, Bucket, Lesser

-----------------------------------------------------------------------------
(***************************************************************************)
(* Types                                                                   *)
(***************************************************************************)

\* What TypeOK says of a request at each place.
LEMMA RequestTypes ==
  ASSUME TypeOK, NEW q \in Requests
  PROVE  /\ request[q] \in RequestState
         /\ request[q].pc = "store" => request[q].ip \in IPs /\ request[q].at \in Nat
         /\ request[q].pc \in {"touch", "allow"} =>
              /\ request[q].ip \in IPs /\ request[q].at \in Nat
              /\ request[q].limiter \in 1..Len(heap)
              /\ heap[request[q].limiter] \in Bucket
BY DEF TypeOK, RequestState, Idle

\* A bucket may be rewritten in place.
LEMMA HeapUpdate ==
  ASSUME NEW old \in Seq(Bucket), NEW id \in 1..Len(old), NEW bucket \in Bucket
  PROVE  /\ [old EXCEPT ![id] = bucket] \in Seq(Bucket)
         /\ Len([old EXCEPT ![id] = bucket]) = Len(old)
OBVIOUS

\* The initial state is well-typed.
LEMMA InitTypes == Init => TypeOK
<1> SUFFICES ASSUME Init PROVE TypeOK
  OBVIOUS
<1>1. IsMap(limiters, IPs, 1..Len(heap)) /\ heap \in Seq(Bucket)
  BY DEF Init, EmptyMap, IsMap
<1>2. now \in Nat /\ stopped \in BOOLEAN /\ request \in [Requests -> RequestState]
      /\ cleaner \in CleanerState
  BY DEF Init, ClockInit, RequestState, CleanerState
<1>3. \A q \in Requests : request[q].pc \notin {"touch", "allow"}
  BY DEF Init, Idle
<1>4. Capacity \in Nat
  <2>1. Rate * MaxDelay \in Nat
    BY RateAssumption
  <2> QED BY <2>1, RateAssumption DEF Capacity
<1>5. scant \in [IPs -> 0..Burst] /\ ample \in [IPs -> Int]
      /\ \A ip \in IPs : ample[ip] <= Capacity
  BY <1>4, RateAssumption DEF Init
<1> QED BY <1>1, <1>2, <1>3, <1>5 DEF TypeOK

\* A request finds the bucket of its IP, or none.
LEMMA LoadTypes ==
  ASSUME TypeOK, NEW q \in Requests, NEW ip \in IPs, Load(q, ip)
  PROVE  TypeOK'
<1>1. UNCHANGED <<now, limiterVars, cleaner, stopped, history>>
  BY DEF Load
<1>2. CASE ip \in DOMAIN limiters
  <2>1. limiters[ip] \in 1..Len(heap)
    BY <1>2 DEF TypeOK, IsMap
  <2> QED BY <1>1, <1>2, <2>1 DEF Load, TypeOK, RequestState, limiterVars, history
<1>3. CASE ip \notin DOMAIN limiters
  BY <1>1, <1>3 DEF Load, TypeOK, RequestState, limiterVars, history
<1> QED BY <1>2, <1>3

\* The other three steps of a request.
LEMMA RequestStepTypes ==
  ASSUME TypeOK, NEW q \in Requests, RequestStep(q)
  PROVE  TypeOK'
<1>1. CASE Touch(q)
  <2> DEFINE id == request[q].limiter
             touched == [heap[id] EXCEPT !.lastSeen = request[q].at]
  <2>0. id \in 1..Len(heap) /\ heap[id] \in Bucket /\ request[q].at \in Nat
    BY <1>1, RequestTypes DEF Touch
  <2>1. heap' \in Seq(Bucket) /\ Len(heap') = Len(heap)
    <3>1. touched \in Bucket
      BY <2>0 DEF Bucket
    <3>2. heap' = [heap EXCEPT ![id] = touched]
      BY <1>1 DEF Touch
    <3> QED BY <2>0, <3>1, <3>2, HeapUpdate DEF TypeOK
  <2>2. request' \in [Requests -> RequestState]
        /\ \A r \in Requests : request'[r].pc \in {"touch", "allow"} =>
             request[r].pc \in {"touch", "allow"} /\ request'[r].limiter = request[r].limiter
    <3>1. request' = [request EXCEPT ![q] = [request[q] EXCEPT !.pc = "allow"]]
      BY <1>1 DEF Touch
    <3>2. request[q].pc = "touch" /\ request[q] \in RequestState
      BY <1>1 DEF Touch, TypeOK
    <3>3. [request[q] EXCEPT !.pc = "allow"] \in RequestState
      BY <3>2 DEF RequestState, Idle
    <3> QED BY <3>1, <3>2, <3>3 DEF TypeOK
  <2> QED BY <1>1, <2>1, <2>2 DEF Touch, TypeOK, history
<1>2. CASE LoadOrStore(q)
  <2>1. request[q].ip \in IPs /\ request[q].at \in Nat
    BY <1>2, RequestTypes DEF LoadOrStore
  <2>2. CASE request[q].ip \in DOMAIN limiters /\ UNCHANGED limiterVars
    <3>1. GoesTo(q, limiters[request[q].ip]) /\ limiters[request[q].ip] \in 1..Len(heap)
      BY <1>2, <2>2 DEF LoadOrStore, TypeOK, IsMap
    <3> QED BY <1>2, <2>1, <2>2, <3>1
         DEF LoadOrStore, GoesTo, TypeOK, RequestState, limiterVars, history
  <2>3. CASE request[q].ip \notin DOMAIN limiters
    <3>1. NewLimiter(q) \in Bucket
      BY <2>1, RateAssumption DEF NewLimiter, TypeOK, Bucket
    <3>0. /\ heap' = Append(heap, NewLimiter(q)) /\ heap \in Seq(Bucket)
          /\ limiters' = MapPut(limiters, request[q].ip, Len(heap'))
          /\ GoesTo(q, Len(heap'))
      BY <1>2, <2>3 DEF LoadOrStore, TypeOK, limiterVars
    <3>2. heap' \in Seq(Bucket) /\ Len(heap') = Len(heap) + 1
      BY <3>0, <3>1
    <3>3. IsMap(limiters', IPs, 1..Len(heap'))
      BY <2>1, <3>0, <3>2 DEF TypeOK, IsMap, MapPut
    <3>4. /\ request' \in [Requests -> RequestState]
          /\ \A r \in Requests : request'[r].pc \in {"touch", "allow"} =>
               request'[r].limiter \in 1..Len(heap')
      <4> DEFINE went == [pc |-> "allow", ip |-> request[q].ip, at |-> request[q].at,
                          limiter |-> Len(heap')]
      <4>1. request' = [request EXCEPT ![q] = went] /\ Len(heap') \in Nat
        BY <3>0, <3>2 DEF GoesTo
      <4>2. went \in RequestState /\ went.limiter \in 1..Len(heap')
        BY <2>1, <3>0, <3>2, <4>1 DEF RequestState
      <4>3. Len(heap) <= Len(heap')
        BY <3>0, <3>2
      <4> QED BY <3>0, <4>1, <4>2, <4>3 DEF TypeOK
    <3> QED BY <1>2, <3>2, <3>3, <3>4 DEF LoadOrStore, TypeOK, history
  <2> QED BY <1>2, <2>2, <2>3 DEF LoadOrStore
<1>3. CASE Allow(q)
  <2> DEFINE id == request[q].limiter
             ip == request[q].ip
             spent == [heap[id] EXCEPT !.tokens = Tokens(heap[id]) - 1, !.last = now]
  <2>0. /\ heap' = [heap EXCEPT ![id] = spent]
        /\ ample' = [ample EXCEPT ![ip] = @ - 1]
        /\ scant' = [scant EXCEPT ![ip] = IF @ > 0 THEN @ - 1 ELSE 0]
        /\ request' = [request EXCEPT ![q] = Idle]
        /\ UNCHANGED <<now, limiters, cleaner, stopped>>
    BY <1>3 DEF Allow
  <2>1. id \in 1..Len(heap) /\ ip \in IPs /\ heap[id] \in Bucket /\ now \in Nat
    BY <1>3, RequestTypes DEF Allow, Grants, TypeOK
  <2>2. Tokens(heap[id]) - 1 \in 0..Burst
    <3>1. Tokens(heap[id]) >= 1
      BY <1>3 DEF Allow, Grants
    <3>2. Tokens(heap[id]) \in Int /\ Tokens(heap[id]) <= Burst
      BY <2>1, TokensAreCapped
    <3> QED BY <3>1, <3>2, RateAssumption
  <2>3. heap' \in Seq(Bucket) /\ Len(heap') = Len(heap)
    <3>1. spent \in Bucket
      BY <2>1, <2>2 DEF Bucket
    <3> QED BY <2>0, <2>1, <3>1, HeapUpdate DEF TypeOK
  <2>4. request' \in [Requests -> RequestState]
        /\ \A r \in Requests : request'[r].pc \in {"touch", "allow"} => request'[r] = request[r]
    BY <2>0 DEF TypeOK, RequestState, Idle
  <2> HIDE DEF ip
  <2>5. scant' \in [IPs -> 0..Burst]
    <3>1. scant \in [IPs -> 0..Burst] /\ Burst \in Nat
      BY RateAssumption DEF TypeOK
    <3>2. (IF scant[ip] > 0 THEN scant[ip] - 1 ELSE 0) \in 0..Burst
      BY <2>1, <3>1
    <3> QED BY <2>0, <3>1, <3>2
  <2>6. ample' \in [IPs -> Int] /\ \A j \in IPs : ample'[j] <= Capacity
    <3>1. Capacity \in Int
      <4>1. Rate * MaxDelay \in Nat
        BY RateAssumption
      <4> QED BY <4>1, RateAssumption DEF Capacity
    <3> QED BY <2>0, <2>1, <3>1 DEF TypeOK
  <2> QED BY <2>0, <2>3, <2>4, <2>5, <2>6 DEF TypeOK
<1>4. CASE Refuse(q)
  BY <1>4 DEF Refuse, TypeOK, RequestState, Idle, limiterVars, history
<1> QED BY <1>1, <1>2, <1>3, <1>4 DEF RequestStep

\* The cleanup and Stop leave the buckets and the requests alone.
LEMMA CleanupStepTypes ==
  ASSUME TypeOK, CleanupStep
  PROVE  TypeOK' /\ UNCHANGED <<now, heap, request, stopped, history>>
<1>1. CASE BeginCleanup
  <2>1. cleaner' \in CleanerState
    BY <1>1, RateAssumption DEF BeginCleanup, TypeOK, IsMap, CleanerState
  <2> QED BY <1>1, <2>1 DEF BeginCleanup, TypeOK, limiterVars, history
<1>2. CASE \E ip \in IPs : Visit(ip)
  <2> PICK ip \in IPs : Visit(ip)
    BY <1>2
  <2>1. cleaner.pc = "range" /\ cleaner \in CleanerState
    BY DEF Visit, TypeOK
  <2>2. cleaner.todo \subseteq IPs /\ cleaner.cutoff \in Int
    BY <2>1 DEF CleanerState, Asleep
  <2>3. cleaner' \in CleanerState
    BY <2>1, <2>2 DEF Visit, CleanerState, Asleep
  <2> QED BY <2>3 DEF Visit, TypeOK, limiterVars, history
<1>3. CASE Delete
  <2>1. cleaner' \in CleanerState
    BY <1>3 DEF Delete, TypeOK, CleanerState, Asleep
  <2>2. IsMap(limiters', IPs, 1..Len(heap))
    BY <1>3 DEF Delete, TypeOK, IsMap, MapDelete
  <2> QED BY <1>3, <2>1, <2>2 DEF Delete, TypeOK, history
<1>4. CASE EndCleanup
  BY <1>4 DEF EndCleanup, TypeOK, CleanerState, limiterVars, history
<1> QED BY <1>1, <1>2, <1>3, <1>4 DEF CleanupStep

\* Time keeps the types.
LEMMA TimePassesTypes ==
  ASSUME TypeOK, TimePasses
  PROVE  TypeOK'
<1>1. Capacity \in Nat
  <2>1. Rate * MaxDelay \in Nat
    BY RateAssumption
  <2> QED BY <2>1, RateAssumption DEF Capacity
<1>2. now' \in Nat
  BY DEF TimePasses, Tick, TypeOK
<1>3. scant' \in [IPs -> 0..Burst]
  BY RateAssumption DEF TimePasses, TypeOK, Refilled, Lesser
<1>4. ample' \in [IPs -> Int] /\ \A ip \in IPs : ample'[ip] <= Capacity
  BY <1>1, RateAssumption DEF TimePasses, TypeOK, Refilled, Lesser
<1> QED BY <1>2, <1>3, <1>4 DEF TimePasses, TypeOK, limiterVars

\* Every step keeps the types.
LEMMA TypeStep == TypeOK /\ [Next]_vars => TypeOK'
<1> SUFFICES ASSUME TypeOK, [Next]_vars PROVE TypeOK'
  OBVIOUS
<1>1. CASE Stop
  BY <1>1 DEF Stop, TypeOK, limiterVars, history
<1>2. CASE UNCHANGED vars
  BY <1>2 DEF vars, TypeOK, limiterVars, history
<1> QED BY <1>1, <1>2, LoadTypes, RequestStepTypes, CleanupStepTypes, TimePassesTypes DEF Next

\* Map, requests and cleanup refer to buckets that exist, and no bucket is fuller
\* than its burst.
THEOREM TypeCorrect == Spec => []TypeOK
BY InitTypes, TypeStep, PTL DEF Spec

-----------------------------------------------------------------------------
(***************************************************************************)
(* Every bucket in use has what its client is due                          *)
(***************************************************************************)

Suffices == TypeOK /\ BucketsSuffice /\ BucketsAreOwned

\* A reference is to an existing bucket, by a client.
LEMMA ReferenceTypes ==
  ASSUME TypeOK, NEW ref \in References
  PROVE  ref[1] \in 1..Len(heap) /\ ref[2] \in IPs /\ heap[ref[1]] \in Bucket
<1>1. CASE \E ip \in DOMAIN limiters : ref = <<limiters[ip], ip>>
  BY <1>1 DEF TypeOK, IsMap
<1>2. CASE \E q \in Requests : request[q].pc \in {"touch", "allow"}
                               /\ ref = <<request[q].limiter, request[q].ip>>
  BY <1>2, RequestTypes
<1> QED BY <1>1, <1>2 DEF References

\* A step that makes no new reference, and leaves the buckets as they are but for
\* the time they were last seen, keeps the invariant.
LEMMA SufficesKept ==
  ASSUME Suffices, TypeOK', References' \subseteq References,
         UNCHANGED <<now, scant>>,
         \A id \in 1..Len(heap) : heap'[id].tokens = heap[id].tokens /\ heap'[id].last = heap[id].last
  PROVE  Suffices'
<1>1. BucketsAreOwned'
  BY DEF Suffices, BucketsAreOwned
<1>2. ASSUME NEW ref \in References'
      PROVE  heap'[ref[1]].last <= now' /\ Tokens(heap[ref[1]])' >= scant'[ref[2]]
  <2>1. ref \in References /\ ref[1] \in 1..Len(heap)
    BY <1>2, ReferenceTypes DEF Suffices
  <2>2. Tokens(heap[ref[1]])' = Tokens(heap[ref[1]])
    BY <2>1 DEF Tokens
  <2> QED BY <2>1, <2>2 DEF Suffices, BucketsSuffice
<1> QED BY <1>1, <1>2 DEF Suffices, BucketsSuffice

\* At the start there is no bucket to suffice.
LEMMA SufficesInit == Init => Suffices
<1> SUFFICES ASSUME Init PROVE Suffices
  OBVIOUS
<1>1. References = {}
  BY DEF Init, References, EmptyMap, Idle
<1> QED BY <1>1, InitTypes DEF Suffices, BucketsSuffice, BucketsAreOwned

\* A request that goes to a bucket its client had in use makes no new reference.
LEMMA ReferencesMove ==
  ASSUME NEW q \in Requests, NEW new, request \in [Requests -> RequestState],
         request' = [request EXCEPT ![q] = new], UNCHANGED limiters,
         new.pc \in {"touch", "allow"} => <<new.limiter, new.ip>> \in References
  PROVE  References' \subseteq References
BY DEF References

\* The steps of a request that take no token.
LEMMA LoadSuffices ==
  ASSUME Suffices, NEW q \in Requests, NEW ip \in IPs, Load(q, ip)
  PROVE  Suffices'
<1>1. TypeOK /\ TypeOK'
  BY LoadTypes DEF Suffices
<1>2. References' \subseteq References
  <2>1. CASE ip \in DOMAIN limiters
    <3>1. <<limiters[ip], ip>> \in References
      BY <2>1 DEF References
    <3> DEFINE new == [pc |-> "touch", ip |-> ip, at |-> now, limiter |-> limiters[ip]]
    <3>2. request' = [request EXCEPT ![q] = new] /\ UNCHANGED limiters
      BY <2>1 DEF Load, limiterVars
    <3>3. <<new.limiter, new.ip>> \in References /\ request \in [Requests -> RequestState]
      BY <1>1, <3>1 DEF TypeOK
    <3> QED BY <3>2, <3>3, ReferencesMove
  <2>2. CASE ip \notin DOMAIN limiters
    <3> DEFINE new == [pc |-> "store", ip |-> ip, at |-> now]
    <3>1. request' = [request EXCEPT ![q] = new] /\ UNCHANGED limiters
      BY <2>2 DEF Load, limiterVars
    <3>2. new.pc \notin {"touch", "allow"} /\ request \in [Requests -> RequestState]
      BY <1>1 DEF TypeOK
    <3> QED BY <3>1, <3>2, ReferencesMove
  <2> QED BY <2>1, <2>2
<1> QED BY <1>1, <1>2, SufficesKept DEF Load, limiterVars, history

\* Marking a bucket as just seen keeps what the buckets hold.
LEMMA TouchSuffices ==
  ASSUME Suffices, NEW q \in Requests, Touch(q)
  PROVE  Suffices'
<1>1. TypeOK /\ TypeOK'
  BY RequestStepTypes DEF Suffices, RequestStep
<1>2. References' \subseteq References
  <2> DEFINE new == [request[q] EXCEPT !.pc = "allow"]
  <2>1. /\ request[q].pc = "touch" /\ request \in [Requests -> RequestState]
        /\ request' = [request EXCEPT ![q] = new] /\ UNCHANGED limiters
    BY <1>1 DEF Touch, TypeOK
  <2>2. new.limiter = request[q].limiter /\ new.ip = request[q].ip
    BY <2>1 DEF RequestState, Idle
  <2>3. <<request[q].limiter, request[q].ip>> \in References
    BY <2>1 DEF References
  <2> HIDE DEF new
  <2> QED BY <2>1, <2>2, <2>3, ReferencesMove
<1>3. request[q].limiter \in 1..Len(heap) /\ heap \in Seq(Bucket)
  BY <1>1, RequestTypes DEF Touch, TypeOK
<1>4. \A id \in 1..Len(heap) : heap'[id].tokens = heap[id].tokens /\ heap'[id].last = heap[id].last
  <2> SUFFICES ASSUME NEW id \in 1..Len(heap)
               PROVE  heap'[id].tokens = heap[id].tokens /\ heap'[id].last = heap[id].last
    OBVIOUS
  <2>1. heap' = [heap EXCEPT ![request[q].limiter] = [@ EXCEPT !.lastSeen = request[q].at]]
    BY DEF Touch
  <2>2. heap[id] \in Bucket /\ id \in DOMAIN heap
    BY <1>3
  <2> QED BY <2>1, <2>2 DEF Bucket
<1> QED BY <1>1, <1>2, <1>4, SufficesKept DEF Touch, history

\* A new bucket is full, and nobody else's.
LEMMA LoadOrStoreSuffices ==
  ASSUME Suffices, NEW q \in Requests, LoadOrStore(q)
  PROVE  Suffices'
<1> DEFINE ip == request[q].ip
           went(limiter) == [pc |-> "allow", ip |-> ip, at |-> request[q].at, limiter |-> limiter]
<1>1. TypeOK /\ TypeOK'
  BY RequestStepTypes DEF Suffices, RequestStep
<1>2. ip \in IPs /\ request[q].at \in Nat /\ request \in [Requests -> RequestState]
  BY <1>1, RequestTypes DEF LoadOrStore, TypeOK
<1>3. CASE ip \in DOMAIN limiters
  <2>1. request' = [request EXCEPT ![q] = went(limiters[ip])] /\ UNCHANGED <<limiters, heap>>
    BY <1>3 DEF LoadOrStore, GoesTo, limiterVars
  <2>2. <<limiters[ip], ip>> \in References
    BY <1>3 DEF References
  <2>3. References' \subseteq References
    <3> DEFINE new == went(limiters[ip])
    <3>1. <<new.limiter, new.ip>> \in References /\ request' = [request EXCEPT ![q] = new]
      BY <2>1, <2>2
    <3> HIDE DEF new
    <3> QED BY <1>2, <2>1, <3>1, ReferencesMove
  <2> QED BY <1>1, <2>1, <2>3, SufficesKept DEF LoadOrStore, history
<1>4. CASE ip \notin DOMAIN limiters
  <2> DEFINE id == Len(heap) + 1
  <2>1. /\ heap' = Append(heap, NewLimiter(q)) /\ heap \in Seq(Bucket) /\ Len(heap') = id
        /\ limiters' = MapPut(limiters, ip, id)
        /\ request' = [request EXCEPT ![q] = went(id)]
        /\ UNCHANGED <<now, scant>>
    BY <1>1, <1>4 DEF LoadOrStore, GoesTo, TypeOK, limiterVars, history
  <2>2. References' \subseteq References \cup {<<id, ip>>}
    <3> HIDE DEF id, ip
    <3>1. \A j \in DOMAIN limiters' : <<limiters'[j], j>> \in References \cup {<<id, ip>>}
      BY <2>1 DEF MapPut, References
    <3>2. \A r \in Requests : request'[r].pc \in {"touch", "allow"} =>
            <<request'[r].limiter, request'[r].ip>> \in References \cup {<<id, ip>>}
      BY <1>2, <2>1 DEF References
    <3> QED BY <3>1, <3>2 DEF References
  <2>3. \A ref \in References : ref[1] \in 1..Len(heap) /\ heap'[ref[1]] = heap[ref[1]]
    BY <1>1, <2>1, ReferenceTypes
  <2>4. heap'[id] = NewLimiter(q)
    BY <2>1
  <2>5. Tokens(NewLimiter(q)) = Burst
    <3>1. Rate * (now - now) = 0
      BY <1>1, RateAssumption DEF TypeOK
    <3> QED BY <3>1, RateAssumption DEF Tokens, NewLimiter, Lesser
  <2>6. scant[ip] <= Burst /\ now \in Nat
    BY <1>1, <1>2, RateAssumption DEF TypeOK
  <2>7. BucketsAreOwned'
    BY <2>1, <2>2, <2>3 DEF Suffices, BucketsAreOwned
  <2>8. ASSUME NEW ref \in References'
        PROVE  heap'[ref[1]].last <= now' /\ Tokens(heap[ref[1]])' >= scant'[ref[2]]
    <3>1. CASE ref \in References
      <4>1. Tokens(heap[ref[1]])' = Tokens(heap[ref[1]])
        BY <2>1, <2>3, <3>1 DEF Tokens
      <4> QED BY <2>1, <2>3, <3>1, <4>1 DEF Suffices, BucketsSuffice
    <3>2. CASE ref = <<id, ip>>
      <4>1. Tokens(heap[ref[1]])' = Tokens(NewLimiter(q))
        BY <2>1, <2>4, <3>2 DEF Tokens
      <4>2. heap'[ref[1]].last = now
        BY <2>4, <3>2 DEF NewLimiter
      <4> QED BY <2>1, <2>5, <2>6, <3>2, <4>1, <4>2
    <3> QED BY <2>2, <3>1, <3>2
  <2> QED BY <1>1, <2>7, <2>8 DEF Suffices, BucketsSuffice
<1> QED BY <1>3, <1>4

\* A request that leaves the middleware drops its reference.
LEMMA ReferencesLeave ==
  ASSUME TypeOK, NEW q \in Requests, request' = [request EXCEPT ![q] = Idle], UNCHANGED limiters
  PROVE  References' \subseteq References
BY DEF References, TypeOK, Idle

\* A token goes from the bucket used, and from the ideal one unless that is empty.
LEMMA AllowSuffices ==
  ASSUME Suffices, NEW q \in Requests, Allow(q)
  PROVE  Suffices'
<1>1. TypeOK /\ TypeOK'
  BY RequestStepTypes DEF Suffices, RequestStep
<1> PICK used \in 1..Len(heap), ip \in IPs : used = request[q].limiter /\ ip = request[q].ip
  BY <1>1, RequestTypes DEF Allow, Grants
<1> DEFINE spent == [heap[used] EXCEPT !.tokens = Tokens(heap[used]) - 1, !.last = now]
<1>2. /\ heap' = [heap EXCEPT ![used] = spent]
      /\ scant' = [scant EXCEPT ![ip] = IF @ > 0 THEN @ - 1 ELSE 0]
      /\ request' = [request EXCEPT ![q] = Idle]
      /\ UNCHANGED <<now, limiters>>
      /\ Tokens(heap[used]) >= 1
  BY DEF Allow, Grants
<1>3. /\ used \in 1..Len(heap) /\ ip \in IPs /\ heap[used] \in Bucket
      /\ now \in Nat /\ scant \in [IPs -> 0..Burst] /\ heap \in Seq(Bucket)
  BY <1>1, RequestTypes DEF Allow, Grants, TypeOK
<1>4. <<used, ip>> \in References
  BY DEF References, Allow, Grants
<1>5. References' \subseteq References
  BY <1>1, <1>2, ReferencesLeave
<1>6. Tokens(heap[used]) \in Int /\ Tokens(heap[used]) <= Burst
  BY <1>3, TokensAreCapped
<1>7. heap'[used].last = now /\ Tokens(heap[used])' = Tokens(heap[used]) - 1
  <2>1. /\ heap'[used].tokens = Tokens(heap[used]) - 1
        /\ heap'[used].last = now
    BY <1>2, <1>3 DEF Bucket
  <2>2. Rate * (now - now) = 0
    BY <1>3, RateAssumption
  <2>3. Tokens(heap[used])' = Lesser(Burst, heap'[used].tokens + Rate * (now' - heap'[used].last))
    BY DEF Tokens
  <2> QED BY <1>2, <1>6, <2>1, <2>2, <2>3, RateAssumption DEF Lesser
<1>8. BucketsAreOwned'
  BY <1>5 DEF Suffices, BucketsAreOwned
<1>9. ASSUME NEW ref \in References'
      PROVE  heap'[ref[1]].last <= now' /\ Tokens(heap[ref[1]])' >= scant'[ref[2]]
  <2>1. ref \in References /\ ref[1] \in 1..Len(heap) /\ ref[2] \in IPs
    BY <1>1, <1>5, ReferenceTypes
  <2>2. heap[ref[1]].last <= now /\ Tokens(heap[ref[1]]) >= scant[ref[2]]
    BY <2>1 DEF Suffices, BucketsSuffice
  <2>3. CASE ref[1] = used
    <3>1. ref[2] = ip
      BY <1>4, <2>1, <2>3 DEF Suffices, BucketsAreOwned
    <3>2. scant'[ip] = IF scant[ip] > 0 THEN scant[ip] - 1 ELSE 0
      BY <1>2, <1>3
    <3>3. Tokens(heap[ref[1]])' = Tokens(heap[used]) - 1 /\ heap'[ref[1]].last = now
      BY <1>7, <2>3
    <3>4. scant[ip] \in Int /\ Tokens(heap[used]) >= scant[ip]
      BY <1>3, <2>2, <2>3, <3>1
    <3> QED BY <1>2, <1>3, <1>6, <3>1, <3>2, <3>3, <3>4
  <2>4. CASE ref[1] /= used
    <3>1. heap'[ref[1]] = heap[ref[1]]
      BY <1>2, <1>3, <2>1, <2>4
    <3>2. Tokens(heap[ref[1]])' = Tokens(heap[ref[1]])
      BY <1>2, <3>1 DEF Tokens
    <3>3. scant'[ref[2]] <= scant[ref[2]] /\ scant[ref[2]] \in Int /\ scant'[ref[2]] \in Int
      BY <1>2, <1>3, <2>1
    <3>4. Tokens(heap[ref[1]]) \in Int
      BY <1>3, <2>1, TokensAreCapped, ReferenceTypes, <1>1
    <3>5. heap'[ref[1]].last <= now'
      BY <1>2, <2>2, <3>1
    <3> DEFINE tokens == Tokens(heap[ref[1]])
    <3>6. tokens' = tokens /\ tokens >= scant[ref[2]] /\ tokens \in Int
      BY <2>2, <3>2, <3>4
    <3> HIDE DEF tokens
    <3>7. tokens' >= scant'[ref[2]]
      BY <3>3, <3>6
    <3> QED BY <3>5, <3>7 DEF tokens
  <2> QED BY <2>3, <2>4
<1> QED BY <1>1, <1>8, <1>9 DEF Suffices, BucketsSuffice

\* Every step of a request keeps it.
LEMMA RequestStepSuffices ==
  ASSUME Suffices, NEW q \in Requests, RequestStep(q)
  PROVE  Suffices'
<1>1. CASE Refuse(q)
  <2>1. TypeOK /\ TypeOK'
    BY RequestStepTypes DEF Suffices
  <2>2. References' \subseteq References
    BY <1>1, <2>1, ReferencesLeave DEF Refuse, limiterVars
  <2> QED BY <1>1, <2>1, <2>2, SufficesKept DEF Refuse, limiterVars, history
<1> QED BY <1>1, TouchSuffices, LoadOrStoreSuffices, AllowSuffices DEF RequestStep

\* The cleanup takes references away: a dropped bucket stays with the requests that
\* hold it.
LEMMA CleanupStepSuffices ==
  ASSUME Suffices, CleanupStep
  PROVE  Suffices'
<1>1. TypeOK /\ TypeOK' /\ UNCHANGED <<now, heap, request, stopped, history>>
  BY CleanupStepTypes DEF Suffices
<1>2. \A ip \in DOMAIN limiters' : ip \in DOMAIN limiters /\ limiters'[ip] = limiters[ip]
  BY DEF CleanupStep, BeginCleanup, Visit, Delete, EndCleanup, limiterVars, MapDelete
<1>3. References' \subseteq References
  BY <1>1, <1>2 DEF References
<1> QED BY <1>1, <1>3, SufficesKept DEF history

\* A second fills the bucket used as fast as the ideal one.
LEMMA TimePassesSuffices ==
  ASSUME Suffices, TimePasses
  PROVE  Suffices'
<1>1. TypeOK /\ TypeOK' /\ now \in Nat /\ now' = now + 1 /\ UNCHANGED <<limiterVars, request>>
  BY TimePassesTypes DEF Suffices, TypeOK, TimePasses, Tick
<1>2. References' = References
  BY <1>1 DEF References, limiterVars
<1>3. BucketsAreOwned'
  BY <1>2 DEF Suffices, BucketsAreOwned
<1>4. ASSUME NEW ref \in References'
      PROVE  heap'[ref[1]].last <= now' /\ Tokens(heap[ref[1]])' >= scant'[ref[2]]
  <2> DEFINE bucket == heap[ref[1]]
  <2>1. ref \in References /\ ref[2] \in IPs /\ bucket \in Bucket
    BY <1>1, <1>2, <1>4, ReferenceTypes
  <2>2. bucket.last <= now /\ Tokens(bucket) >= scant[ref[2]]
    BY <2>1 DEF Suffices, BucketsSuffice
  <2>3. Tokens(heap[ref[1]])' = Lesser(Burst, Tokens(bucket) + Rate)
    <3>1. Tokens(heap[ref[1]])' = TokensAt(heap'[ref[1]], now')
      BY DEF Tokens, TokensAt
    <3>2. heap'[ref[1]] = bucket /\ now' = now + 1 /\ now \in Nat
      BY <1>1 DEF limiterVars
    <3>3. Tokens(heap[ref[1]])' = TokensAt(bucket, now + 1)
      BY <3>1, <3>2
    <3> QED BY <2>1, <2>2, <3>2, <3>3, TokensRefill
  <2>4. scant'[ref[2]] = Lesser(Burst, scant[ref[2]] + Rate)
    BY <2>1 DEF TimePasses, Refilled
  <2>5. Tokens(bucket) \in Int /\ scant[ref[2]] \in Int /\ bucket.last \in Int
    <3>1. Tokens(bucket) \in Int
      BY <1>1, <2>1, TokensAreCapped
    <3>2. scant[ref[2]] \in Int
      BY <1>1, <2>1, RateAssumption DEF TypeOK
    <3>3. bucket.last \in Int
      BY <2>1 DEF Bucket
    <3> QED BY <3>1, <3>2, <3>3
  <2>6. heap'[ref[1]].last = bucket.last
    BY <1>1 DEF limiterVars
  <2> HIDE DEF bucket
  <2> QED BY <1>1, <2>2, <2>3, <2>4, <2>5, <2>6, RateAssumption DEF Lesser
<1> QED BY <1>1, <1>3, <1>4 DEF Suffices, BucketsSuffice

\* Every step keeps it.
LEMMA SufficesStep == Suffices /\ [Next]_vars => Suffices'
<1> SUFFICES ASSUME Suffices, [Next]_vars PROVE Suffices'
  OBVIOUS
<1>1. TypeOK /\ TypeOK'
  BY TypeStep DEF Suffices
<1>2. CASE Stop \/ UNCHANGED vars
  <2>1. UNCHANGED <<now, limiterVars, request, history>>
    BY <1>2 DEF Stop, vars
  <2>2. References' \subseteq References
    BY <2>1 DEF References, limiterVars
  <2> QED BY <1>1, <2>1, <2>2, SufficesKept DEF limiterVars, history
<1> QED BY <1>2, LoadSuffices, RequestStepSuffices, CleanupStepSuffices, TimePassesSuffices DEF Next

\* A client is refused only when it has used up its burst, whatever the cleanup has
\* dropped and however the requests interleave.
THEOREM NobodyIsShortChanged == Spec => []RefusedIsOverdrawn
<1>1. Suffices => RefusedIsOverdrawn
  <2> SUFFICES ASSUME Suffices, NEW q \in Requests, request[q].pc = "allow", ~Grants(q)
               PROVE  scant[request[q].ip] = 0
    BY DEF RefusedIsOverdrawn
  <2>1. <<request[q].limiter, request[q].ip>> \in References
    BY DEF References
  <2>2. Tokens(heap[request[q].limiter]) >= scant[request[q].ip]
    BY <2>1 DEF Suffices, BucketsSuffice
  <2>3. Tokens(heap[request[q].limiter]) \in Int /\ ~(Tokens(heap[request[q].limiter]) >= 1)
    BY RequestTypes, TokensAreCapped DEF Suffices, TypeOK, Grants
  <2>4. scant[request[q].ip] \in Nat
    BY RequestTypes, RateAssumption DEF Suffices, TypeOK
  <2> QED BY <2>2, <2>3, <2>4
<1> QED BY SufficesInit, SufficesStep, <1>1, PTL DEF Spec

-----------------------------------------------------------------------------
(***************************************************************************)
(* When a bucket is used, and when it was last seen                        *)
(***************************************************************************)

\* The tokens gained in a time.
Gained(time) == Rate * time

\* They add up.
LEMMA GainedIsMonotone ==
  ASSUME NEW t \in Int
  PROVE  /\ Gained(t) \in Int /\ Gained(t + 1) = Gained(t) + Rate
         /\ t >= 0 => Gained(t) >= 0
         /\ t <= 0 => Gained(t) <= 0
         /\ \A u \in Int : t <= u => Gained(t) <= Gained(u)
<1>1. Gained(t) \in Int /\ Gained(t + 1) = Gained(t) + Rate
  BY RateAssumption DEF Gained
<1>2. (t >= 0 => Gained(t) >= 0) /\ (t <= 0 => Gained(t) <= 0)
  BY RateAssumption DEF Gained
<1>3. ASSUME NEW u \in Int, t <= u PROVE Gained(t) <= Gained(u)
  <2>1. Rate * (u - t) >= 0
    BY <1>3, RateAssumption
  <2>2. Rate * (u - t) = Rate * u - Rate * t
    BY RateAssumption
  <2> QED BY <2>1, <2>2, RateAssumption DEF Gained
<1> QED BY <1>1, <1>2, <1>3

\* Request q has only just found its bucket in the map, and not marked it yet.
JustLoaded(q) ==
  /\ request[q].pc = "touch"
  /\ request[q].ip \in DOMAIN limiters
  /\ request[q].limiter = limiters[request[q].ip]

\* A request is in the middleware for MaxDelay at most.
InTime ==
  \A q \in Requests :
    request[q].pc /= "idle" => request[q].at <= now /\ now <= request[q].at + MaxDelay

\* However late lastSeen is written, and by whomever, no request of the client began
\* later than MaxDelay after it, but those that are about to write it.
SeenInTime ==
  \A q \in Requests :
    request[q].pc /= "idle" /\ request[q].ip \in DOMAIN limiters /\ ~JustLoaded(q) =>
      request[q].at <= heap[limiters[request[q].ip]].lastSeen + MaxDelay

Timing == TypeOK /\ InTime /\ SeenInTime

\* What TypeOK says of the request and its bucket, and of the bucket in the map.
LEMMA MapTypes ==
  ASSUME TypeOK
  PROVE  /\ \A ip \in DOMAIN limiters :
              ip \in IPs /\ limiters[ip] \in 1..Len(heap) /\ heap[limiters[ip]] \in Bucket
         /\ \A q \in Requests : request[q].pc /= "idle" => request[q].ip \in IPs /\ request[q].at \in Nat
<1>1. ASSUME NEW ip \in DOMAIN limiters
      PROVE  ip \in IPs /\ limiters[ip] \in 1..Len(heap) /\ heap[limiters[ip]] \in Bucket
  BY <1>1 DEF TypeOK, IsMap
<1>2. ASSUME NEW q \in Requests, request[q].pc /= "idle"
      PROVE  request[q].ip \in IPs /\ request[q].at \in Nat
  BY <1>2 DEF TypeOK, RequestState, Idle
<1> QED BY <1>1, <1>2

\* A step that begins no request and marks no bucket keeps it.
LEMMA SeenInTimeKept ==
  ASSUME SeenInTime,
         \A q \in Requests : request'[q].pc = "idle" \/ request'[q] = request[q],
         \A ip \in DOMAIN limiters' :
           /\ ip \in DOMAIN limiters /\ limiters'[ip] = limiters[ip]
           /\ heap'[limiters[ip]].lastSeen = heap[limiters[ip]].lastSeen
  PROVE  SeenInTime'
BY DEF SeenInTime, JustLoaded

\* A request that begins has just loaded its bucket, or found none.
LEMMA LoadTiming ==
  ASSUME Timing, NEW q \in Requests, NEW ip \in IPs, Load(q, ip)
  PROVE  Timing'
<1>1. TypeOK' /\ TypeOK /\ MaxDelay \in Nat /\ now \in Nat
  BY LoadTypes, RateAssumption DEF Timing, TypeOK
<1> DEFINE new == IF ip \in DOMAIN limiters
                  THEN [pc |-> "touch", ip |-> ip, at |-> now, limiter |-> limiters[ip]]
                  ELSE [pc |-> "store", ip |-> ip, at |-> now]
<1>2. /\ request' = [request EXCEPT ![q] = new] /\ UNCHANGED <<now, limiters, heap>>
      /\ DOMAIN request = Requests
  BY <1>1 DEF Load, limiterVars, TypeOK
<1>3. new.at = now /\ new.ip = ip /\ (ip \in DOMAIN limiters => new.pc = "touch" /\ new.limiter = limiters[ip])
  OBVIOUS
<1> HIDE DEF new
<1>4. InTime'
  BY <1>1, <1>2, <1>3 DEF Timing, InTime
<1>5. SeenInTime'
  BY <1>2, <1>3 DEF Timing, SeenInTime, JustLoaded
<1> QED BY <1>1, <1>4, <1>5 DEF Timing

\* Whoever marks a bucket began at most MaxDelay ago, and all the others by now.
LEMMA TouchTiming ==
  ASSUME Timing, NEW q \in Requests, Touch(q)
  PROVE  Timing'
<1>1. TypeOK' /\ TypeOK /\ MaxDelay \in Nat /\ now \in Nat
  BY RequestStepTypes, RateAssumption DEF Timing, TypeOK, RequestStep
<1> DEFINE id == request[q].limiter
           new == [request[q] EXCEPT !.pc = "allow"]
<1>2. /\ request' = [request EXCEPT ![q] = new] /\ UNCHANGED <<now, limiters>>
      /\ DOMAIN request = Requests /\ request[q].pc = "touch"
      /\ heap' = [heap EXCEPT ![id] = [@ EXCEPT !.lastSeen = request[q].at]]
  BY <1>1 DEF Touch, TypeOK
<1>3. new.pc = "allow" /\ new.ip = request[q].ip /\ new.at = request[q].at /\ new.limiter = id
  BY <1>1, <1>2 DEF TypeOK, RequestState, Idle
<1>4. id \in 1..Len(heap) /\ heap[id] \in Bucket /\ DOMAIN heap = 1..Len(heap) /\ request[q].at \in Nat
  BY <1>1, <1>2, RequestTypes DEF TypeOK
<1>5. /\ heap'[id].lastSeen = request[q].at
      /\ \A k \in 1..Len(heap) : k /= id => heap'[k] = heap[k]
  BY <1>2, <1>4 DEF Bucket
<1> HIDE DEF new
<1>6. InTime'
  BY <1>1, <1>2, <1>3 DEF Timing, InTime
<1>7. ASSUME NEW r \in Requests, request'[r].pc /= "idle", request'[r].ip \in DOMAIN limiters, ~JustLoaded(r)'
      PROVE  request'[r].at <= heap'[limiters[request'[r].ip]].lastSeen + MaxDelay
  <2>1. request[r].pc /= "idle" /\ request'[r].ip = request[r].ip /\ request'[r].at = request[r].at
    BY <1>2, <1>3, <1>7
  <2> DEFINE map == limiters[request[r].ip]
  <2>2. map \in 1..Len(heap) /\ request[r].at \in Nat
    BY <1>1, <1>7, <2>1, MapTypes
  <2>3. CASE map = id
    <3>1. request[r].at <= now /\ now <= request[q].at + MaxDelay
      BY <1>2, <2>1 DEF Timing, InTime
    <3> QED BY <1>1, <1>4, <1>5, <2>1, <2>2, <2>3, <3>1
  <2>4. CASE map /= id
    <3>1. ~JustLoaded(r)
      BY <1>2, <1>3, <1>7, <2>4 DEF JustLoaded
    <3>2. request[r].at <= heap[map].lastSeen + MaxDelay
      BY <1>7, <2>1, <3>1 DEF Timing, SeenInTime
    <3> QED BY <1>5, <2>1, <2>2, <2>4, <3>2
  <2> QED BY <2>3, <2>4
<1>8. SeenInTime'
  BY <1>2, <1>7 DEF SeenInTime
<1> QED BY <1>1, <1>6, <1>8 DEF Timing

\* A new bucket carries the time at which its maker began.
LEMMA LoadOrStoreTiming ==
  ASSUME Timing, NEW q \in Requests, LoadOrStore(q)
  PROVE  Timing'
<1>1. TypeOK' /\ TypeOK /\ MaxDelay \in Nat /\ now \in Nat
  BY RequestStepTypes, RateAssumption DEF Timing, TypeOK, RequestStep
<1> DEFINE ip == request[q].ip
           went(limiter) == [pc |-> "allow", ip |-> ip, at |-> request[q].at, limiter |-> limiter]
<1>2. request[q].pc = "store" /\ ip \in IPs /\ request[q].at \in Nat /\ DOMAIN request = Requests
  BY <1>1, RequestTypes DEF LoadOrStore, TypeOK
<1>3. PICK id : request' = [request EXCEPT ![q] = went(id)]
  BY DEF LoadOrStore, GoesTo
<1>4. InTime'
  BY <1>1, <1>2, <1>3 DEF Timing, InTime, LoadOrStore
<1>5. CASE ip \in DOMAIN limiters /\ UNCHANGED limiterVars
  BY <1>1, <1>2, <1>3, <1>4, <1>5 DEF Timing, SeenInTime, JustLoaded, limiterVars
<1>6. CASE ip \notin DOMAIN limiters
  <2> DEFINE new == Len(heap) + 1
  <2>1. /\ heap' = Append(heap, NewLimiter(q)) /\ heap \in Seq(Bucket) /\ Len(heap') = new
        /\ limiters' = MapPut(limiters, ip, new)
    BY <1>1, <1>6 DEF LoadOrStore, TypeOK, limiterVars
  <2>2. /\ DOMAIN limiters' = DOMAIN limiters \cup {ip} /\ limiters'[ip] = new
        /\ \A j \in DOMAIN limiters : limiters'[j] = limiters[j]
    BY <1>6, <2>1 DEF MapPut
  <2>3. heap'[new].lastSeen = request[q].at
    BY <2>1 DEF NewLimiter
  <2>4. \A j \in DOMAIN limiters : heap'[limiters[j]] = heap[limiters[j]]
    BY <1>1, <2>1, MapTypes
  <2> HIDE DEF new
  <2>5. ASSUME NEW r \in Requests, request'[r].pc /= "idle", request'[r].ip \in DOMAIN limiters', ~JustLoaded(r)'
        PROVE  request'[r].at <= heap'[limiters'[request'[r].ip]].lastSeen + MaxDelay
    <3>1. request[r].pc /= "idle" /\ request'[r].ip = request[r].ip /\ request'[r].at = request[r].at
      BY <1>2, <1>3, <2>5
    <3>2. CASE request[r].ip = ip
      <4>1. request[r].at <= now /\ now <= request[q].at + MaxDelay /\ request[r].at \in Nat
        BY <1>1, <1>2, <3>1, MapTypes DEF Timing, InTime
      <4> QED BY <1>1, <1>2, <2>2, <2>3, <3>1, <3>2, <4>1
    <3>3. CASE request[r].ip /= ip
      <4>1. request'[r] = request[r] /\ request[r].ip \in DOMAIN limiters
        BY <1>2, <1>3, <2>2, <2>5, <3>1, <3>3
      <4>2. ~JustLoaded(r)
        BY <2>2, <2>5, <4>1 DEF JustLoaded
      <4> QED BY <2>2, <2>4, <3>1, <4>1, <4>2 DEF Timing, SeenInTime
    <3> QED BY <3>2, <3>3
  <2> QED BY <1>1, <1>4, <2>5 DEF Timing, SeenInTime
<1> QED BY <1>1, <1>4, <1>5, <1>6 DEF LoadOrStore, Timing

\* Every step keeps the times.
LEMMA TimingStep == Timing /\ [Next]_vars => Timing'
<1> SUFFICES ASSUME Timing, [Next]_vars PROVE Timing'
  OBVIOUS
<1>1. TypeOK' /\ TypeOK /\ DOMAIN request = Requests
  BY TypeStep DEF Timing, TypeOK
<1>2. CASE \E q \in Requests : Allow(q) \/ Refuse(q)
  <2> PICK q \in Requests : Allow(q) \/ Refuse(q)
    BY <1>2
  <2>1. request' = [request EXCEPT ![q] = Idle] /\ UNCHANGED <<now, limiters>>
    BY DEF Allow, Refuse, limiterVars
  <2>2. \A r \in Requests : request'[r].pc = "idle" \/ request'[r] = request[r]
    BY <1>1, <2>1 DEF Idle
  <2>3. \A k \in 1..Len(heap) : heap'[k].lastSeen = heap[k].lastSeen
    <3>1. CASE Refuse(q)
      BY <3>1 DEF Refuse, limiterVars
    <3>2. CASE Allow(q)
      <4> DEFINE id == request[q].limiter
      <4>1. id \in 1..Len(heap) /\ heap \in Seq(Bucket) /\ heap[id] \in Bucket
        BY <1>1, <3>2, RequestTypes DEF Allow, Grants, TypeOK
      <4>2. heap' = [heap EXCEPT ![id] = [heap[id] EXCEPT !.tokens = Tokens(heap[id]) - 1, !.last = now]]
        BY <3>2 DEF Allow
      <4> QED BY <4>1, <4>2 DEF Bucket
    <3> QED BY <3>1, <3>2
  <2>4. SeenInTime'
    BY <1>1, <2>1, <2>2, <2>3, MapTypes, SeenInTimeKept DEF Timing
  <2>5. InTime'
    BY <2>1, <2>2 DEF Timing, InTime
  <2> QED BY <1>1, <2>4, <2>5 DEF Timing
<1>3. CASE CleanupStep \/ Stop \/ UNCHANGED vars
  <2>1. UNCHANGED <<now, heap, request>>
    BY <1>1, <1>3, CleanupStepTypes DEF Stop, vars, limiterVars
  <2>2. \A ip \in DOMAIN limiters' : ip \in DOMAIN limiters /\ limiters'[ip] = limiters[ip]
    BY <1>3 DEF CleanupStep, BeginCleanup, Visit, Delete, EndCleanup, Stop, vars, limiterVars, MapDelete
  <2>3. SeenInTime'
    BY <2>1, <2>2, SeenInTimeKept DEF Timing
  <2> QED BY <1>1, <2>1, <2>3 DEF Timing, InTime
<1>4. CASE TimePasses
  <2>1. UNCHANGED <<limiters, heap, request>> /\ now' = now + 1 /\ now \in Nat
    BY <1>1, <1>4 DEF TimePasses, Tick, limiterVars, TypeOK
  <2>2. SeenInTime'
    BY <2>1, SeenInTimeKept DEF Timing
  <2>3. ASSUME NEW q \in Requests, request[q].pc /= "idle"
        PROVE  request[q].at <= now + 1 /\ now + 1 <= request[q].at + MaxDelay
    <3>1. now < request[q].at + MaxDelay
      BY <1>4, <2>3 DEF TimePasses, Idle
    <3>2. request[q].at <= now /\ request[q].at \in Nat /\ MaxDelay \in Nat
      BY <1>1, <2>3, MapTypes, RateAssumption DEF Timing, InTime
    <3> QED BY <2>1, <3>1, <3>2
  <2> QED BY <1>1, <2>1, <2>2, <2>3 DEF Timing, InTime
<1> QED BY <1>2, <1>3, <1>4, LoadTiming, TouchTiming, LoadOrStoreTiming DEF Next, RequestStep

-----------------------------------------------------------------------------
(***************************************************************************)
(* What all the buckets of a client together let through                   *)
(***************************************************************************)

\* What the client's next request finds: its bucket in the map, or else a new one.
Fresh(ip) == IF ip \in DOMAIN limiters THEN Tokens(heap[limiters[ip]]) ELSE Burst

\* Request q holds a bucket that the map has lost.
HoldsDropped(q) ==
  /\ request[q].pc \in {"touch", "allow"}
  /\ request[q].ip \in DOMAIN limiters => request[q].limiter /= limiters[request[q].ip]

\* A client has one dropped bucket in use at most: the last one that was dropped.
OneDropped ==
  \A q, r \in Requests :
    HoldsDropped(q) /\ HoldsDropped(r) /\ request[q].ip = request[r].ip =>
      request[q].limiter = request[r].limiter

\* The ideal bucket of Capacity has what the next requests will find.
FreshIsCovered == \A ip \in IPs : ample[ip] >= Fresh(ip)

\* It also has what is in the dropped bucket, and what that gains as long as a request
\* may hold it.
DroppedIsCovered ==
  \A q \in Requests :
    HoldsDropped(q) =>
      ample[request[q].ip] >= Tokens(heap[request[q].limiter]) + Fresh(request[q].ip)
                              + Gained(request[q].at + MaxDelay - now)

\* It has filled up since the bucket in the map can last have been used.
IdleRefills ==
  \A ip \in DOMAIN limiters :
    ample[ip] >= Lesser(Capacity, Gained(now - heap[limiters[ip]].lastSeen - 2 * MaxDelay))

\* The bucket about to be dropped may be full and in use, and a new one be made: the
\* ideal bucket has enough for both, and no older bucket is in use.
DropIsCovered ==
  /\ cleaner.pc \in {"range", "delete"} =>
       cleaner.todo \subseteq DOMAIN limiters /\ cleaner.cutoff <= now - TTL
  /\ cleaner.pc = "delete" =>
       /\ cleaner.ip \in DOMAIN limiters /\ cleaner.ip \notin cleaner.todo
       /\ \A q \in Requests : HoldsDropped(q) => request[q].ip /= cleaner.ip
       /\ ample[cleaner.ip] >= Tokens(heap[limiters[cleaner.ip]]) + Burst + Gained(MaxDelay)

Covered == OneDropped /\ FreshIsCovered /\ DroppedIsCovered /\ IdleRefills /\ DropIsCovered

\* What the steps are shown to keep it under.
Known == Suffices /\ Timing

\* The numbers involved.
LEMMA Numbers ==
  ASSUME Known
  PROVE  /\ Rate \in Nat /\ Burst \in Nat /\ Burst > 0 /\ TTL \in Nat /\ MaxDelay \in Nat /\ now \in Nat
         /\ Gained(MaxDelay) \in Nat /\ Capacity \in Nat /\ Capacity = 2 * Burst + Gained(MaxDelay)
         /\ Capacity <= Gained(TTL + 1 - 2 * MaxDelay)
         /\ TTL + 1 - 2 * MaxDelay > 0
         /\ \A ip \in IPs : ample[ip] \in Int /\ ample[ip] <= Capacity
<1>1. /\ Rate \in Nat /\ Burst \in Nat /\ Burst > 0 /\ TTL \in Nat /\ MaxDelay \in Nat /\ now \in Nat
      /\ Gained(MaxDelay) \in Nat /\ Capacity = 2 * Burst + Gained(MaxDelay)
      /\ Capacity <= Gained(TTL + 1 - 2 * MaxDelay)
  <2>1. Gained(MaxDelay) \in Int /\ Gained(MaxDelay) >= 0
    BY RateAssumption, GainedIsMonotone
  <2> QED BY <2>1, RateAssumption DEF Known, Suffices, TypeOK, Gained, Capacity
<1>2. TTL + 1 - 2 * MaxDelay > 0
  <2>1. TTL + 1 - 2 * MaxDelay \in Int /\ Gained(TTL + 1 - 2 * MaxDelay) > 0
    BY <1>1, GainedIsMonotone
  <2> QED BY <2>1, GainedIsMonotone
<1> QED BY <1>1, <1>2 DEF Known, Suffices, TypeOK

\* The buckets referred to hold some tokens, and so does the next one.
LEMMA HeldTokens ==
  ASSUME Known
  PROVE  /\ \A q \in Requests : request[q].pc \in {"touch", "allow"} =>
              /\ request[q].limiter \in 1..Len(heap)
              /\ heap[request[q].limiter] \in Bucket /\ heap[request[q].limiter].last <= now
              /\ Tokens(heap[request[q].limiter]) \in 0..Burst
         /\ \A ip \in DOMAIN limiters :
              /\ ip \in IPs /\ limiters[ip] \in 1..Len(heap)
              /\ heap[limiters[ip]] \in Bucket /\ heap[limiters[ip]].last <= now
              /\ Tokens(heap[limiters[ip]]) \in 0..Burst
         /\ \A ip \in IPs : Fresh(ip) \in 0..Burst
<1>1. TypeOK /\ BucketsSuffice /\ now \in Nat
  BY Numbers DEF Known, Suffices
<1>2. ASSUME NEW ref \in References
      PROVE  /\ ref[1] \in 1..Len(heap) /\ heap[ref[1]] \in Bucket /\ heap[ref[1]].last <= now
             /\ Tokens(heap[ref[1]]) \in 0..Burst
  BY <1>1, <1>2, ReferenceTypes, TokensAreCapped DEF BucketsSuffice
<1>3. ASSUME NEW q \in Requests, request[q].pc \in {"touch", "allow"}
      PROVE  /\ request[q].limiter \in 1..Len(heap)
             /\ heap[request[q].limiter] \in Bucket /\ heap[request[q].limiter].last <= now
             /\ Tokens(heap[request[q].limiter]) \in 0..Burst
  <2>1. <<request[q].limiter, request[q].ip>> \in References
    BY <1>3 DEF References
  <2> QED BY <1>2, <2>1
<1>4. ASSUME NEW ip \in DOMAIN limiters
      PROVE  /\ ip \in IPs /\ limiters[ip] \in 1..Len(heap)
             /\ heap[limiters[ip]] \in Bucket /\ heap[limiters[ip]].last <= now
             /\ Tokens(heap[limiters[ip]]) \in 0..Burst
  <2>1. <<limiters[ip], ip>> \in References
    BY <1>4 DEF References
  <2> QED BY <1>1, <1>2, <2>1, MapTypes
<1>5. ASSUME NEW ip \in IPs
      PROVE  Fresh(ip) \in 0..Burst
  <2>1. CASE ip \in DOMAIN limiters
    <3>1. Fresh(ip) = Tokens(heap[limiters[ip]])
      BY <2>1 DEF Fresh
    <3> QED BY <1>4, <2>1, <3>1
  <2>2. CASE ip \notin DOMAIN limiters
    BY <2>2, Numbers DEF Fresh
  <2> QED BY <2>1, <2>2
<1> QED BY <1>3, <1>4, <1>5

\* No bucket is used by two clients.
LEMMA OwnBuckets ==
  ASSUME Known, NEW q \in Requests, request[q].pc \in {"touch", "allow"}
  PROVE  /\ \A r \in Requests : request[r].pc \in {"touch", "allow"} =>
              (request[r].limiter = request[q].limiter => request[r].ip = request[q].ip)
         /\ \A ip \in DOMAIN limiters : limiters[ip] = request[q].limiter => ip = request[q].ip
<1>1. <<request[q].limiter, request[q].ip>> \in References
  BY DEF References
<1>2. ASSUME NEW r \in Requests, request[r].pc \in {"touch", "allow"}, request[r].limiter = request[q].limiter
      PROVE  request[r].ip = request[q].ip
  <2>1. <<request[r].limiter, request[r].ip>> \in References
    BY <1>2 DEF References
  <2> QED BY <1>1, <1>2, <2>1 DEF Known, Suffices, BucketsAreOwned
<1>3. ASSUME NEW ip \in DOMAIN limiters, limiters[ip] = request[q].limiter
      PROVE  ip = request[q].ip
  <2>1. <<limiters[ip], ip>> \in References
    BY <1>3 DEF References
  <2> QED BY <1>1, <1>3, <2>1 DEF Known, Suffices, BucketsAreOwned
<1> QED BY <1>2, <1>3

\* A step that takes no token, makes no bucket the map has lost and changes nothing a
\* client finds keeps what is covered.
LEMMA CoveredKept ==
  ASSUME Known, OneDropped, FreshIsCovered, DroppedIsCovered,
         UNCHANGED <<now, ample>>,
         \A id \in 1..Len(heap) : heap'[id].tokens = heap[id].tokens /\ heap'[id].last = heap[id].last,
         \A ip \in IPs : Fresh(ip)' = Fresh(ip),
         \A q \in Requests : HoldsDropped(q)' =>
           /\ HoldsDropped(q)
           /\ request'[q].ip = request[q].ip /\ request'[q].at = request[q].at
           /\ request'[q].limiter = request[q].limiter
  PROVE  OneDropped' /\ FreshIsCovered' /\ DroppedIsCovered'
<1>1. OneDropped'
  BY DEF OneDropped
<1>2. FreshIsCovered'
  BY DEF FreshIsCovered
<1>3. ASSUME NEW q \in Requests, HoldsDropped(q)'
      PROVE  ample'[request'[q].ip] >= Tokens(heap[request[q].limiter])' + Fresh(request[q].ip)'
                                       + Gained(request'[q].at + MaxDelay - now')
  <2>1. HoldsDropped(q) /\ request[q].pc \in {"touch", "allow"}
    BY <1>3 DEF HoldsDropped
  <2>2. request[q].ip \in IPs /\ request[q].limiter \in 1..Len(heap)
    BY <2>1, RequestTypes DEF Known, Suffices
  <2>3. Tokens(heap[request[q].limiter])' = Tokens(heap[request[q].limiter])
    BY <1>3, <2>2 DEF Tokens
  <2>4. Fresh(request[q].ip)' = Fresh(request[q].ip)
    BY <1>3, <2>2 DEF Fresh
  <2> QED BY <1>3, <2>1, <2>3, <2>4 DEF DroppedIsCovered
<1>4. DroppedIsCovered'
  BY <1>3 DEF DroppedIsCovered
<1> QED BY <1>1, <1>2, <1>4

\* The ideal bucket is never overdrawn.
LEMMA AmpleIsNatural ==
  ASSUME Known, FreshIsCovered, NEW ip \in IPs
  PROVE  ample[ip] \in Int /\ ample[ip] >= 0
<1>1. Fresh(ip) \in 0..Burst
  BY HeldTokens
<1>2. ample[ip] >= Fresh(ip) /\ ample[ip] \in Int
  BY Numbers DEF FreshIsCovered
<1> QED BY <1>1, <1>2

\* Nothing has been refilled since lastSeen as long as a request may use the bucket.
LEMMA UsedIsNotIdle ==
  ASSUME Known, NEW level \in Int, level >= 0, NEW seen \in Nat, NEW at \in Nat,
         now <= at + MaxDelay, at <= seen + MaxDelay
  PROVE  level >= Lesser(Capacity, Gained(now - seen - 2 * MaxDelay))
<1> DEFINE t == now - seen - 2 * MaxDelay
<1>1. t \in Int /\ t <= 0
  BY Numbers
<1> HIDE DEF t
<1>2. Gained(t) <= 0 /\ Gained(t) \in Int
  BY <1>1, GainedIsMonotone
<1>3. level >= Lesser(Capacity, Gained(t))
  BY <1>2, Numbers DEF Lesser
<1> QED BY <1>3 DEF t

\* A new request holds no dropped bucket.
LEMMA LoadCovered ==
  ASSUME Known, Covered, NEW q \in Requests, NEW ip \in IPs, Load(q, ip)
  PROVE  Covered'
<1> DEFINE new == IF ip \in DOMAIN limiters
                  THEN [pc |-> "touch", ip |-> ip, at |-> now, limiter |-> limiters[ip]]
                  ELSE [pc |-> "store", ip |-> ip, at |-> now]
<1>1. /\ request' = [request EXCEPT ![q] = new] /\ UNCHANGED <<now, limiters, heap, ample, cleaner>>
      /\ DOMAIN request = Requests
  BY DEF Load, limiterVars, history, Known, Suffices, TypeOK
<1>2. /\ new.ip = ip
      /\ ip \in DOMAIN limiters => new.limiter = limiters[ip]
      /\ ip \notin DOMAIN limiters => new.pc = "store"
  OBVIOUS
<1> HIDE DEF new
<1>3. \A r \in Requests : HoldsDropped(r)' => HoldsDropped(r) /\ request'[r] = request[r]
  BY <1>1, <1>2 DEF HoldsDropped
<1>4. \A j \in IPs : Fresh(j)' = Fresh(j)
  BY <1>1 DEF Fresh, Tokens
<1>5. OneDropped' /\ FreshIsCovered' /\ DroppedIsCovered'
  BY <1>1, <1>3, <1>4, CoveredKept DEF Covered
<1>6. IdleRefills'
  BY <1>1 DEF Covered, IdleRefills
<1>7. DropIsCovered'
  BY <1>1, <1>3 DEF Covered, DropIsCovered, Tokens
<1> QED BY <1>5, <1>6, <1>7 DEF Covered

\* Marking a bucket takes no token, and puts its idle time back.
LEMMA TouchCovered ==
  ASSUME Known, Covered, NEW q \in Requests, Touch(q)
  PROVE  Covered'
<1> DEFINE id == request[q].limiter
           new == [request[q] EXCEPT !.pc = "allow"]
<1>0. TypeOK /\ now \in Nat /\ MaxDelay \in Nat
  BY Numbers DEF Known, Suffices
<1>1. /\ request' = [request EXCEPT ![q] = new] /\ UNCHANGED <<now, limiters, ample, cleaner>>
      /\ DOMAIN request = Requests /\ request[q].pc = "touch"
      /\ heap' = [heap EXCEPT ![id] = [@ EXCEPT !.lastSeen = request[q].at]]
  BY <1>0 DEF Touch, TypeOK, history
<1>2. new.ip = request[q].ip /\ new.at = request[q].at /\ new.limiter = id
  BY <1>0, <1>1 DEF TypeOK, RequestState, Idle
<1>3. id \in 1..Len(heap) /\ heap[id] \in Bucket /\ DOMAIN heap = 1..Len(heap) /\ request[q].at \in Nat
  BY <1>0, <1>1, RequestTypes DEF TypeOK
<1>4. /\ heap'[id].lastSeen = request[q].at
      /\ \A k \in 1..Len(heap) : k /= id => heap'[k] = heap[k]
      /\ \A k \in 1..Len(heap) : heap'[k].tokens = heap[k].tokens /\ heap'[k].last = heap[k].last
  BY <1>1, <1>3 DEF Bucket
<1> HIDE DEF new
<1>5. \A r \in Requests : HoldsDropped(r)' =>
        /\ HoldsDropped(r)
        /\ request'[r].ip = request[r].ip /\ request'[r].at = request[r].at
        /\ request'[r].limiter = request[r].limiter
  BY <1>1, <1>2 DEF HoldsDropped
<1>6. \A k \in 1..Len(heap) : Tokens(heap[k])' = Tokens(heap[k])
  BY <1>1, <1>4 DEF Tokens
<1>7. \A j \in DOMAIN limiters : j \in IPs /\ limiters[j] \in 1..Len(heap)
  BY HeldTokens
<1>8. \A j \in IPs : Fresh(j)' = Fresh(j)
  BY <1>1, <1>6, <1>7 DEF Fresh
<1>9. OneDropped' /\ FreshIsCovered' /\ DroppedIsCovered'
  BY <1>1, <1>4, <1>5, <1>8, CoveredKept DEF Covered
<1>10. ASSUME NEW ip \in DOMAIN limiters
       PROVE  ample[ip] >= Lesser(Capacity, Gained(now - heap'[limiters[ip]].lastSeen - 2 * MaxDelay))
  <2>1. CASE limiters[ip] = id
    <3>1. now <= request[q].at + MaxDelay
      BY <1>1 DEF Known, Timing, InTime
    <3>2. ample[ip] \in Int /\ ample[ip] >= 0
      BY <1>7, <1>10, AmpleIsNatural DEF Covered
    <3>3. request[q].at <= request[q].at + MaxDelay
      BY <1>0, <1>3
    <3>4. ample[ip] >= Lesser(Capacity, Gained(now - request[q].at - 2 * MaxDelay))
      BY <1>3, <3>1, <3>2, <3>3, UsedIsNotIdle
    <3> QED BY <1>4, <2>1, <3>4
  <2>2. CASE limiters[ip] /= id
    BY <1>4, <1>7, <1>10, <2>2 DEF Covered, IdleRefills
  <2> QED BY <2>1, <2>2
<1>11. IdleRefills'
  BY <1>1, <1>10 DEF IdleRefills
<1>12. DropIsCovered'
  BY <1>1, <1>5, <1>6, <1>7 DEF Covered, DropIsCovered
<1> QED BY <1>9, <1>11, <1>12 DEF Covered

\* A new bucket is what the client was to find, and nobody holds it yet.
LEMMA LoadOrStoreCovered ==
  ASSUME Known, Covered, NEW q \in Requests, LoadOrStore(q)
  PROVE  Covered'
<1> DEFINE ip == request[q].ip
           went(limiter) == [pc |-> "allow", ip |-> ip, at |-> request[q].at, limiter |-> limiter]
<1>0. TypeOK /\ now \in Nat /\ MaxDelay \in Nat
  BY Numbers DEF Known, Suffices
<1>1. request[q].pc = "store" /\ ip \in IPs /\ request[q].at \in Nat /\ DOMAIN request = Requests
  BY <1>0, RequestTypes DEF LoadOrStore, TypeOK
<1>2. UNCHANGED <<now, ample, cleaner>>
  BY DEF LoadOrStore, history
<1>3. CASE ip \in DOMAIN limiters
  <2>1. request' = [request EXCEPT ![q] = went(limiters[ip])] /\ UNCHANGED <<limiters, heap>>
    BY <1>3 DEF LoadOrStore, GoesTo, limiterVars
  <2>2. \A r \in Requests : HoldsDropped(r)' => HoldsDropped(r) /\ request'[r] = request[r]
    <3>1. ~HoldsDropped(q)'
      BY <1>1, <1>3, <2>1 DEF HoldsDropped
    <3>2. \A r \in Requests : r /= q => request'[r] = request[r]
      BY <1>1, <2>1
    <3> QED BY <2>1, <3>1, <3>2 DEF HoldsDropped
  <2>3. \A j \in IPs : Fresh(j)' = Fresh(j)
    BY <1>2, <2>1 DEF Fresh, Tokens
  <2>4. OneDropped' /\ FreshIsCovered' /\ DroppedIsCovered'
    BY <1>2, <2>1, <2>2, <2>3, CoveredKept DEF Covered
  <2>5. IdleRefills'
    BY <1>2, <2>1 DEF Covered, IdleRefills
  <2>6. DropIsCovered'
    BY <1>2, <2>1, <2>2 DEF Covered, DropIsCovered, Tokens
  <2> QED BY <2>4, <2>5, <2>6 DEF Covered
<1>4. CASE ip \notin DOMAIN limiters
  <2> PICK id \in Nat : id = Len(heap) + 1
    BY <1>0 DEF TypeOK
  <2>1. /\ heap' = Append(heap, NewLimiter(q)) /\ heap \in Seq(Bucket) /\ Len(heap') = id
        /\ limiters' = MapPut(limiters, ip, id)
        /\ request' = [request EXCEPT ![q] = went(id)]
    BY <1>0, <1>4 DEF LoadOrStore, GoesTo, TypeOK, limiterVars
  <2>2. /\ DOMAIN limiters' = DOMAIN limiters \cup {ip} /\ limiters'[ip] = id
        /\ \A j \in DOMAIN limiters : limiters'[j] = limiters[j]
    BY <1>4, <2>1 DEF MapPut
  <2>3. heap'[id] = NewLimiter(q) /\ \A k \in 1..Len(heap) : heap'[k] = heap[k]
    BY <2>1
  <2>4. Tokens(heap[id])' = Burst
    <3>1. Rate * (now - now) = 0
      BY <1>0, RateAssumption
    <3>2. Tokens(heap[id])' = Lesser(Burst, heap'[id].tokens + Rate * (now' - heap'[id].last))
      BY <2>1 DEF Tokens
    <3> QED BY <1>2, <2>3, <3>1, <3>2, RateAssumption DEF NewLimiter, Lesser
  <2>5. \A k \in 1..Len(heap) : Tokens(heap[k])' = Tokens(heap[k])
    BY <1>2, <2>3 DEF Tokens
  <2>6. \A j \in DOMAIN limiters : j \in IPs /\ limiters[j] \in 1..Len(heap)
    BY HeldTokens
  <2>7. ASSUME NEW j \in IPs PROVE Fresh(j)' = Fresh(j)
    <3>1. CASE j = ip
      <4>1. Fresh(j)' = Tokens(heap[id])'
        BY <2>1, <2>2, <3>1 DEF Fresh
      <4> QED BY <1>4, <2>4, <3>1, <4>1 DEF Fresh
    <3>2. CASE j /= ip
      BY <2>2, <2>5, <2>6, <3>2 DEF Fresh
    <3> QED BY <3>1, <3>2
  <2>8. \A r \in Requests : HoldsDropped(r)' => HoldsDropped(r) /\ request'[r] = request[r]
    <3>1. ~HoldsDropped(q)'
      BY <1>1, <2>1, <2>2 DEF HoldsDropped
    <3>2. \A r \in Requests : r /= q => request'[r] = request[r]
      BY <1>1, <2>1
    <3> QED BY <2>2, <3>1, <3>2 DEF HoldsDropped
  <2>9. OneDropped' /\ FreshIsCovered' /\ DroppedIsCovered'
    BY <1>2, <2>3, <2>7, <2>8, CoveredKept DEF Covered
  <2>10. ASSUME NEW j \in DOMAIN limiters'
         PROVE  ample[j] >= Lesser(Capacity, Gained(now - heap'[limiters'[j]].lastSeen - 2 * MaxDelay))
    <3>1. CASE j = ip
      <4>1. heap'[limiters'[j]].lastSeen = request[q].at
        BY <2>2, <2>3, <3>1 DEF NewLimiter
      <4>2. now <= request[q].at + MaxDelay /\ request[q].at <= request[q].at + MaxDelay
        BY <1>0, <1>1 DEF Known, Timing, InTime
      <4>3. ample[j] \in Int /\ ample[j] >= 0
        BY <1>1, <3>1, AmpleIsNatural DEF Covered
      <4> QED BY <1>1, <4>1, <4>2, <4>3, UsedIsNotIdle
    <3>2. CASE j \in DOMAIN limiters
      <4>1. limiters'[j] = limiters[j] /\ heap'[limiters[j]] = heap[limiters[j]]
        BY <2>2, <2>3, <2>6, <3>2
      <4> QED BY <3>2, <4>1 DEF Covered, IdleRefills
    <3> QED BY <2>2, <3>1, <3>2
  <2>11. IdleRefills'
    BY <1>2, <2>10 DEF IdleRefills
  <2>12. DropIsCovered'
    <3>1. cleaner.pc = "delete" => heap'[limiters'[cleaner'.ip]] = heap[limiters[cleaner.ip]]
      BY <1>2, <2>2, <2>3, <2>6 DEF Covered, DropIsCovered
    <3>2. cleaner.pc = "delete" =>
            Tokens(heap[limiters[cleaner.ip]])' = Tokens(heap[limiters[cleaner.ip]])
      BY <1>2, <3>1 DEF Tokens
    <3> QED BY <1>2, <2>2, <2>8, <3>2 DEF Covered, DropIsCovered
  <2> QED BY <2>9, <2>11, <2>12 DEF Covered
<1> QED BY <1>3, <1>4

\* A request that is refused is gone.
LEMMA RefuseCovered ==
  ASSUME Known, Covered, NEW q \in Requests, Refuse(q)
  PROVE  Covered'
<1>1. /\ request' = [request EXCEPT ![q] = Idle] /\ UNCHANGED <<now, limiters, heap, ample, cleaner>>
      /\ DOMAIN request = Requests
  BY DEF Refuse, limiterVars, history, Known, Suffices, TypeOK
<1>2. \A r \in Requests : HoldsDropped(r)' => HoldsDropped(r) /\ request'[r] = request[r]
  BY <1>1 DEF HoldsDropped, Idle
<1>3. \A j \in IPs : Fresh(j)' = Fresh(j)
  BY <1>1 DEF Fresh, Tokens
<1>4. OneDropped' /\ FreshIsCovered' /\ DroppedIsCovered'
  BY <1>1, <1>2, <1>3, CoveredKept DEF Covered
<1>5. IdleRefills'
  BY <1>1 DEF Covered, IdleRefills
<1>6. DropIsCovered'
  BY <1>1, <1>2 DEF Covered, DropIsCovered, Tokens
<1> QED BY <1>4, <1>5, <1>6 DEF Covered

\* The token taken is covered, and what covers the other buckets is not touched: with a
\* dropped bucket, the ideal one has a token more than all others need.
LEMMA AllowCovered ==
  ASSUME Known, Covered, NEW q \in Requests, Allow(q)
  PROVE  Covered'
<1>0. TypeOK /\ now \in Nat /\ MaxDelay \in Nat
  BY Numbers DEF Known, Suffices
<1> PICK id \in 1..Len(heap), ip \in IPs : id = request[q].limiter /\ ip = request[q].ip
  BY <1>0, RequestTypes DEF Allow, Grants
<1> DEFINE spent == [heap[id] EXCEPT !.tokens = Tokens(heap[id]) - 1, !.last = now]
<1>1. /\ heap' = [heap EXCEPT ![id] = spent]
      /\ ample' = [ample EXCEPT ![ip] = @ - 1]
      /\ request' = [request EXCEPT ![q] = Idle] /\ DOMAIN request = Requests
      /\ UNCHANGED <<now, limiters, cleaner>>
      /\ request[q].pc = "allow" /\ Tokens(heap[id]) >= 1
  BY <1>0 DEF Allow, Grants, TypeOK
<1>2. heap[id] \in Bucket /\ Tokens(heap[id]) \in 0..Burst /\ heap \in Seq(Bucket) /\ request[q].at \in Nat
  BY <1>0, <1>1, HeldTokens, RequestTypes DEF TypeOK
<1>3. Tokens(heap[id])' = Tokens(heap[id]) - 1
  <2>1. heap'[id].tokens = Tokens(heap[id]) - 1 /\ heap'[id].last = now
    BY <1>1, <1>2 DEF Bucket
  <2>2. Rate * (now - now) = 0
    BY <1>0, RateAssumption
  <2>3. Tokens(heap[id])' = Lesser(Burst, heap'[id].tokens + Rate * (now' - heap'[id].last))
    BY DEF Tokens
  <2>4. Tokens(heap[id]) \in Int /\ Tokens(heap[id]) <= Burst /\ now' = now
    BY <1>1, <1>2, RateAssumption
  <2> QED BY <2>1, <2>2, <2>3, <2>4, RateAssumption DEF Lesser
<1>4. \A k \in 1..Len(heap) : k /= id => Tokens(heap[k])' = Tokens(heap[k])
  BY <1>1, <1>2 DEF Tokens
<1>5. \A k \in 1..Len(heap) : heap'[k].lastSeen = heap[k].lastSeen
  BY <1>1, <1>2 DEF Bucket
<1>6. /\ ample'[ip] = ample[ip] - 1
      /\ \A j \in IPs : j /= ip => ample'[j] = ample[j]
      /\ \A j \in IPs : ample[j] \in Int
  BY <1>0, <1>1 DEF TypeOK
<1>7. \A r \in Requests : HoldsDropped(r)' => HoldsDropped(r) /\ request'[r] = request[r] /\ r /= q
  BY <1>1 DEF HoldsDropped, Idle
<1>8. \A j \in DOMAIN limiters : limiters[j] \in 1..Len(heap) /\ (limiters[j] = id => j = ip)
  BY <1>1, HeldTokens, OwnBuckets
<1>9. \A j \in IPs : j /= ip => Fresh(j)' = Fresh(j)
  BY <1>1, <1>4, <1>8 DEF Fresh
<1>10. \A r \in Requests : HoldsDropped(r) =>
         /\ request[r].ip \in IPs /\ request[r].limiter \in 1..Len(heap) /\ request[r].at \in Nat
         /\ Tokens(heap[request[r].limiter]) \in Nat
         /\ Gained(request[r].at + MaxDelay - now) \in Int
         /\ Gained(request[r].at + MaxDelay - now) >= 0
         /\ request[r].limiter = id => request[r].ip = ip
  <2> SUFFICES ASSUME NEW r \in Requests, HoldsDropped(r)
               PROVE  /\ request[r].ip \in IPs /\ request[r].limiter \in 1..Len(heap) /\ request[r].at \in Nat
                      /\ Tokens(heap[request[r].limiter]) \in Nat
                      /\ Gained(request[r].at + MaxDelay - now) \in Int
                      /\ Gained(request[r].at + MaxDelay - now) >= 0
                      /\ request[r].limiter = id => request[r].ip = ip
    OBVIOUS
  <2>1. request[r].pc \in {"touch", "allow"}
    BY DEF HoldsDropped
  <2>2. /\ request[r].ip \in IPs /\ request[r].limiter \in 1..Len(heap) /\ request[r].at \in Nat
        /\ Tokens(heap[request[r].limiter]) \in Nat
        /\ request[r].limiter = id => request[r].ip = ip
    BY <1>0, <1>1, <2>1, HeldTokens, RequestTypes, OwnBuckets
  <2>3. now <= request[r].at + MaxDelay
    BY <2>1 DEF Known, Timing, InTime
  <2>4. request[r].at + MaxDelay - now \in Int /\ request[r].at + MaxDelay - now >= 0
    <3> PICK at \in Nat : at = request[r].at
      BY <2>2
    <3>1. now <= at + MaxDelay
      BY <2>3
    <3>2. at + MaxDelay - now \in Int /\ at + MaxDelay - now >= 0
      BY <1>0, <3>1
    <3> QED BY <3>2
  <2> QED BY <2>2, <2>4, GainedIsMonotone
<1>11. OneDropped'
  BY <1>7 DEF Covered, OneDropped
  \* What the client finds, and how much the ideal bucket had beyond it.
<1>12. /\ Fresh(ip)' \in Int /\ Fresh(ip)' <= Fresh(ip) /\ ample[ip] - 1 >= Fresh(ip)'
       /\ HoldsDropped(q) => Fresh(ip)' = Fresh(ip)
       /\ ~HoldsDropped(q) => Fresh(ip)' = Fresh(ip) - 1
       /\ Fresh(ip) \in Int
  <2>1. Fresh(ip) \in 0..Burst /\ ample[ip] >= Fresh(ip) /\ ample[ip] \in Int
    BY <1>6, HeldTokens DEF Covered, FreshIsCovered
  <2>2. CASE HoldsDropped(q)
    <3>1. Fresh(ip)' = Fresh(ip)
      BY <1>1, <1>4, <1>8, <2>2 DEF Fresh, HoldsDropped
    <3>2. ample[ip] >= Tokens(heap[id]) + Fresh(ip) + Gained(request[q].at + MaxDelay - now)
      BY <2>2 DEF Covered, DroppedIsCovered
    <3> PICK left \in Int : left = Gained(request[q].at + MaxDelay - now) /\ left >= 0
      BY <1>10, <2>2
    <3>3. ample[ip] >= Tokens(heap[id]) + Fresh(ip) + left
      BY <3>2
    <3>4. ample[ip] - 1 >= Fresh(ip)
      <4>1. Tokens(heap[id]) \in Int /\ Tokens(heap[id]) >= 1 /\ Fresh(ip) \in Int
        BY <1>1, <1>2, <2>1
      <4> QED BY <2>1, <3>3, <4>1
    <3> QED BY <2>1, <2>2, <3>1, <3>4
  <2>3. CASE ~HoldsDropped(q)
    <3>1. ip \in DOMAIN limiters /\ limiters[ip] = id
      BY <1>1, <2>3 DEF HoldsDropped
    <3>2. Fresh(ip) = Tokens(heap[id]) /\ Fresh(ip)' = Tokens(heap[id])'
      BY <1>1, <3>1 DEF Fresh
    <3> QED BY <1>2, <1>3, <2>1, <2>3, <3>2
  <2> QED BY <2>2, <2>3
<1>13. Fresh(ip)' >= 0
  <2>1. Fresh(ip) \in 0..Burst
    BY HeldTokens
  <2>2. CASE HoldsDropped(q)
    BY <1>12, <2>1, <2>2
  <2>3. CASE ~HoldsDropped(q)
    <3>1. ip \in DOMAIN limiters /\ limiters[ip] = id
      BY <1>1, <2>3 DEF HoldsDropped
    <3>2. Fresh(ip) = Tokens(heap[id])
      BY <3>1 DEF Fresh
    <3>3. Fresh(ip) >= 1 /\ Fresh(ip)' = Fresh(ip) - 1
      BY <1>1, <1>12, <2>3, <3>2
    <3> QED BY <2>1, <3>3
  <2> QED BY <2>2, <2>3
<1>14. FreshIsCovered'
  BY <1>6, <1>9, <1>12 DEF Covered, FreshIsCovered
<1>15. ASSUME NEW r \in Requests, HoldsDropped(r)'
       PROVE  ample'[request[r].ip] >= Tokens(heap[request[r].limiter])' + Fresh(request[r].ip)'
                                       + Gained(request[r].at + MaxDelay - now)
  <2> DEFINE left == Gained(request[r].at + MaxDelay - now)
  <2>1. HoldsDropped(r) /\ request'[r] = request[r] /\ r /= q
    BY <1>7, <1>15
  <2> PICK k \in 1..Len(heap), j \in IPs : k = request[r].limiter /\ j = request[r].ip
    BY <1>10, <2>1
  <2>2. ample[j] >= Tokens(heap[k]) + Fresh(j) + left
    BY <2>1 DEF Covered, DroppedIsCovered
  <2>3. left \in Int /\ Tokens(heap[k]) \in Int /\ Fresh(j) \in Int /\ ample[j] \in Int
    BY <1>6, <1>10, <2>1, HeldTokens
  <2>4. Fresh(request[r].ip)' = Fresh(j)' /\ Tokens(heap[request[r].limiter])' = Tokens(heap[k])'
    BY <2>1 DEF Fresh, Tokens
  <2> HIDE DEF left
  <2>5. CASE j /= ip
    <3>1. k /= id
      BY <1>10, <2>1, <2>5
    <3> QED BY <1>4, <1>6, <1>9, <2>2, <2>4, <2>5, <3>1 DEF left
  <2>6. CASE j = ip /\ HoldsDropped(q)
    <3>1. k = id
      BY <2>1, <2>6 DEF Covered, OneDropped
    <3>2. ample'[j] >= Tokens(heap[k])' + Fresh(j)' + left
      <4>1. Tokens(heap[k])' = Tokens(heap[k]) - 1
        BY <1>3, <3>1
      <4>2. ample'[j] = ample[j] - 1 /\ Fresh(j)' = Fresh(j)
        BY <1>6, <1>12, <2>6
      <4> QED BY <2>2, <2>3, <4>1, <4>2
    <3> QED BY <2>4, <3>2 DEF left
  <2>7. CASE j = ip /\ ~HoldsDropped(q)
    <3>1. k /= id
      BY <1>1, <2>1, <2>7 DEF HoldsDropped
    <3>2. ample'[j] >= Tokens(heap[k])' + Fresh(j)' + left
      <4>1. Tokens(heap[k])' = Tokens(heap[k])
        BY <1>4, <3>1
      <4>2. ample'[j] = ample[j] - 1 /\ Fresh(j)' = Fresh(j) - 1
        BY <1>6, <1>12, <2>7
      <4> QED BY <2>2, <2>3, <4>1, <4>2
    <3> QED BY <2>4, <3>2 DEF left
  <2> QED BY <2>5, <2>6, <2>7
<1>16. DroppedIsCovered'
  BY <1>1, <1>7, <1>15 DEF DroppedIsCovered
<1>17. ASSUME NEW j \in DOMAIN limiters
       PROVE  ample'[j] >= Lesser(Capacity, Gained(now - heap'[limiters[j]].lastSeen - 2 * MaxDelay))
  <2>1. heap'[limiters[j]].lastSeen = heap[limiters[j]].lastSeen /\ heap[limiters[j]] \in Bucket /\ j \in IPs
    BY <1>5, <1>8, HeldTokens
  <2>2. CASE j /= ip
    BY <1>6, <2>1, <2>2 DEF Covered, IdleRefills
  <2>3. CASE j = ip
    <3>1. request[q].at <= heap[limiters[j]].lastSeen + MaxDelay
      BY <1>1, <2>3 DEF Known, Timing, SeenInTime, JustLoaded
    <3>2. now <= request[q].at + MaxDelay
      BY <1>1 DEF Known, Timing, InTime
    <3>3. ample'[j] \in Int /\ ample'[j] >= 0
      <4>1. ample'[ip] \in Int /\ ample'[ip] >= Fresh(ip)'
        BY <1>6, <1>12
      <4>2. Fresh(ip)' \in Int /\ Fresh(ip)' >= 0
        BY <1>12, <1>13
      <4> QED BY <2>3, <4>1, <4>2
    <3>4. heap[limiters[j]].lastSeen \in Nat
      BY <2>1 DEF Bucket
    <3> QED BY <1>2, <2>1, <3>1, <3>2, <3>3, <3>4, UsedIsNotIdle
  <2> QED BY <2>2, <2>3
<1>18. IdleRefills'
  BY <1>1, <1>17 DEF IdleRefills
<1>19. DropIsCovered'
  <2>1. ASSUME cleaner.pc = "delete"
        PROVE  ample'[cleaner.ip] >= Tokens(heap[limiters[cleaner.ip]])' + Burst + Gained(MaxDelay)
    <3> PICK j \in DOMAIN limiters : j = cleaner.ip
      BY <2>1 DEF Covered, DropIsCovered
    <3> PICK k \in 1..Len(heap) : k = limiters[j]
      BY <1>8
    <3>1. j \in IPs /\ Tokens(heap[k]) \in Int /\ ample[j] \in Int
      BY <1>6, HeldTokens
    <3>2. ample[j] >= Tokens(heap[k]) + Burst + Gained(MaxDelay) /\ (HoldsDropped(q) => j /= ip)
      BY <2>1 DEF Covered, DropIsCovered
    <3>3. Tokens(heap[limiters[cleaner.ip]])' = Tokens(heap[k])'
      BY <1>1 DEF Tokens
    <3>4. CASE j /= ip
      <4>1. k /= id
        BY <1>8, <3>4
      <4> QED BY <1>4, <1>6, <3>1, <3>2, <3>3, <3>4, <4>1
    <3>5. CASE j = ip
      <4>1. k = id
        BY <1>1, <3>2, <3>5 DEF HoldsDropped
      <4>2. Burst \in Int /\ Gained(MaxDelay) \in Int
        BY Numbers
      <4>3. ample'[j] >= Tokens(heap[k])' + Burst + Gained(MaxDelay)
        <5>1. Tokens(heap[k])' = Tokens(heap[k]) - 1 /\ ample'[j] = ample[j] - 1
          BY <1>3, <1>6, <3>5, <4>1
        <5> QED BY <3>1, <3>2, <4>2, <5>1
      <4> QED BY <3>3, <4>3
    <3> QED BY <3>4, <3>5
  <2> QED BY <1>1, <1>7, <2>1 DEF Covered, DropIsCovered
<1> QED BY <1>11, <1>14, <1>16, <1>18, <1>19 DEF Covered

\* The cleanup drops no bucket of a client that has not had time to become as good as
\* new; from then on the bucket's last users and a new bucket share what it has.
LEMMA CleanupStepCovered ==
  ASSUME Known, Covered, CleanupStep
  PROVE  Covered'
<1>0. TypeOK /\ UNCHANGED <<now, heap, request, ample>>
  BY CleanupStepTypes DEF Known, Suffices, history
<1>1. CASE UNCHANGED limiters
  <2>1. /\ \A r \in Requests : HoldsDropped(r)' = HoldsDropped(r)
        /\ \A j \in IPs : Fresh(j)' = Fresh(j)
    BY <1>0, <1>1 DEF HoldsDropped, Fresh, Tokens
  <2>2. OneDropped' /\ FreshIsCovered' /\ DroppedIsCovered'
    BY <1>0, <2>1, CoveredKept DEF Covered, HoldsDropped
  <2>3. IdleRefills'
    BY <1>0, <1>1 DEF Covered, IdleRefills
  <2>4. ASSUME cleaner'.pc = "delete", NEW ip \in IPs, Visit(ip)
        PROVE  /\ cleaner'.ip = ip /\ ip \in DOMAIN limiters /\ ip \notin cleaner'.todo
               /\ \A q \in Requests : HoldsDropped(q) => request[q].ip /= ip
               /\ ample[ip] >= Tokens(heap[limiters[ip]]) + Burst + Gained(MaxDelay)
    <3>1. /\ cleaner.pc = "range" /\ ip \in cleaner.todo
          /\ cleaner' = [pc |-> "delete", todo |-> cleaner.todo \ {ip}, cutoff |-> cleaner.cutoff, ip |-> ip]
          /\ heap[limiters[ip]].lastSeen < cleaner.cutoff
      <4>1. cleaner.pc = "range" /\ [cleaner EXCEPT !.todo = @ \ {ip}].pc = "range"
        BY <1>0, <2>4 DEF Visit, TypeOK, CleanerState, Asleep
      <4> QED BY <2>4, <4>1 DEF Visit
    <3>2. ip \in DOMAIN limiters /\ cleaner.cutoff <= now - TTL
      BY <3>1 DEF Covered, DropIsCovered
    <3>3. cleaner.cutoff \in Int
      BY <1>0, <3>1 DEF TypeOK, CleanerState, Asleep
    <3> PICK seen \in Nat : seen = heap[limiters[ip]].lastSeen
      BY <3>2, HeldTokens DEF Bucket
    <3>4. seen < now - TTL
      BY <3>1, <3>2, <3>3, Numbers
    <3>5. ASSUME NEW q \in Requests, HoldsDropped(q), request[q].ip = ip
          PROVE  FALSE
      <4> PICK at \in Nat : at = request[q].at
        BY <1>0, <3>5, RequestTypes DEF HoldsDropped
      <4>1. at <= seen + MaxDelay /\ now <= at + MaxDelay
        BY <3>2, <3>5 DEF Known, Timing, InTime, SeenInTime, HoldsDropped, JustLoaded
      <4> QED BY <3>4, <4>1, Numbers
    <3>6. ample[ip] >= Capacity
      <4> DEFINE t == now - seen - 2 * MaxDelay
      <4>1. t \in Int /\ TTL + 1 - 2 * MaxDelay \in Int /\ TTL + 1 - 2 * MaxDelay <= t
        BY <3>4, Numbers
      <4>2. ample[ip] >= Lesser(Capacity, Gained(t))
        BY <3>2 DEF Covered, IdleRefills
      <4> HIDE DEF t
      <4>3. Gained(t) \in Int /\ Gained(TTL + 1 - 2 * MaxDelay) <= Gained(t)
        BY <4>1, GainedIsMonotone
      <4>4. Capacity <= Gained(t)
        <5>1. Gained(TTL + 1 - 2 * MaxDelay) \in Int
          BY <4>1, GainedIsMonotone
        <5> QED BY <4>3, <5>1, Numbers
      <4> QED BY <4>2, <4>3, <4>4, Numbers DEF Lesser
    <3>7. ample[ip] >= Tokens(heap[limiters[ip]]) + Burst + Gained(MaxDelay)
      <4>1. ip \in IPs /\ Tokens(heap[limiters[ip]]) \in 0..Burst
        BY <3>2, HeldTokens
      <4> QED BY <3>6, <4>1, Numbers
    <3> QED BY <3>1, <3>2, <3>5, <3>7
  <2>5. ASSUME \E ip \in IPs : Visit(ip) PROVE DropIsCovered'
    <3> PICK ip \in IPs : Visit(ip)
      BY <2>5
    <3>1. /\ cleaner.pc = "range" /\ cleaner'.pc \in {"range", "delete"}
          /\ cleaner'.todo \subseteq cleaner.todo /\ cleaner'.cutoff = cleaner.cutoff
      BY <1>0 DEF Visit, TypeOK, CleanerState, Asleep
    <3>2. cleaner'.todo \subseteq DOMAIN limiters' /\ cleaner'.cutoff <= now' - TTL
      BY <1>0, <1>1, <3>1 DEF Covered, DropIsCovered
    <3>3. ASSUME cleaner'.pc = "delete"
          PROVE  ample'[cleaner'.ip] >= Tokens(heap[limiters[cleaner.ip]])' + Burst + Gained(MaxDelay)
      <4>1. cleaner'.ip = ip /\ ample[ip] >= Tokens(heap[limiters[ip]]) + Burst + Gained(MaxDelay)
        BY <2>4, <3>3
      <4>2. Tokens(heap[limiters[cleaner.ip]])' = Tokens(heap[limiters[ip]])
        BY <1>0, <1>1, <4>1 DEF Tokens
      <4> QED BY <1>0, <4>1, <4>2
    <3>4. cleaner'.pc = "delete" =>
            /\ cleaner'.ip \in DOMAIN limiters' /\ cleaner'.ip \notin cleaner'.todo
            /\ \A q \in Requests : HoldsDropped(q)' => request'[q].ip /= cleaner'.ip
      BY <1>0, <1>1, <2>1, <2>4
    <3> QED BY <3>2, <3>3, <3>4 DEF DropIsCovered
  <2>6. ASSUME BeginCleanup PROVE DropIsCovered'
    <3>1. cleaner'.pc = "range" /\ cleaner'.todo = DOMAIN limiters' /\ cleaner'.cutoff = now' - TTL
      BY <1>0, <1>1, <2>6 DEF BeginCleanup
    <3>2. now' - TTL <= now' - TTL
      BY <1>0, Numbers
    <3> QED BY <3>1, <3>2 DEF DropIsCovered
  <2>7. ASSUME EndCleanup PROVE DropIsCovered'
    <3>1. cleaner'.pc = "asleep"
      BY <2>7 DEF EndCleanup, Asleep
    <3> QED BY <3>1 DEF DropIsCovered
  <2>8. DropIsCovered'
    <3>1. ~Delete
      <4> SUFFICES ASSUME Delete PROVE FALSE
        OBVIOUS
      <4>1. cleaner.ip \in DOMAIN limiters
        BY DEF Delete, Covered, DropIsCovered
      <4>2. DOMAIN limiters' = DOMAIN limiters \ {cleaner.ip}
        BY DEF Delete, MapDelete
      <4> QED BY <1>1, <4>1, <4>2
    <3> QED BY <2>5, <2>6, <2>7, <3>1 DEF CleanupStep
  <2> QED BY <2>2, <2>3, <2>8 DEF Covered
<1>2. CASE Delete
  <2> PICK ip \in DOMAIN limiters : ip = cleaner.ip
    BY <1>2 DEF Delete, Covered, DropIsCovered
  <2>1. /\ ip \in IPs /\ ip \notin cleaner.todo
        /\ \A q \in Requests : HoldsDropped(q) => request[q].ip /= ip
        /\ ample[ip] >= Tokens(heap[limiters[ip]]) + Burst + Gained(MaxDelay)
        /\ cleaner.pc = "delete" /\ cleaner.todo \subseteq DOMAIN limiters /\ cleaner.cutoff <= now - TTL
    BY <1>2, HeldTokens DEF Delete, Covered, DropIsCovered
  <2>2. /\ DOMAIN limiters' = DOMAIN limiters \ {ip}
        /\ \A j \in DOMAIN limiters : j /= ip => limiters'[j] = limiters[j]
        /\ cleaner' = [pc |-> "range", todo |-> cleaner.todo, cutoff |-> cleaner.cutoff]
    BY <1>2 DEF Delete, MapDelete
  <2>3. Fresh(ip)' = Burst /\ \A j \in IPs : j /= ip => Fresh(j)' = Fresh(j)
    BY <1>0, <2>2 DEF Fresh, Tokens
  \* The bucket's users are now users of a dropped bucket.
  <2>4. ASSUME NEW q \in Requests, HoldsDropped(q)'
        PROVE  \/ HoldsDropped(q) /\ request[q].ip /= ip
               \/ ~HoldsDropped(q) /\ request[q].ip = ip /\ request[q].limiter = limiters[ip]
    BY <1>0, <2>1, <2>2, <2>4 DEF HoldsDropped
  <2>5. OneDropped'
    BY <1>0, <2>4 DEF Covered, OneDropped
  <2>6. Tokens(heap[limiters[ip]]) \in 0..Burst /\ ample[ip] \in Int
    BY <2>1, HeldTokens, Numbers
  <2>7. FreshIsCovered'
    <3>1. ample[ip] >= Burst
      BY <2>1, <2>6, Numbers
    <3> QED BY <1>0, <2>3, <3>1 DEF Covered, FreshIsCovered
  <2>8. ASSUME NEW q \in Requests, HoldsDropped(q)'
        PROVE  ample[request[q].ip] >= Tokens(heap[request[q].limiter]) + Fresh(request[q].ip)'
                                       + Gained(request[q].at + MaxDelay - now)
    <3>1. request[q].pc \in {"touch", "allow"} /\ request[q].ip \in IPs /\ request[q].at \in Nat
      BY <1>0, <2>8, RequestTypes DEF HoldsDropped
    <3>2. Fresh(request[q].ip)' = (IF request[q].ip = ip THEN Burst ELSE Fresh(request[q].ip))
      BY <1>0, <2>2, <3>1 DEF Fresh, Tokens
    <3>3. CASE HoldsDropped(q) /\ request[q].ip /= ip
      BY <3>2, <3>3 DEF Covered, DroppedIsCovered
    <3>4. CASE request[q].ip = ip /\ request[q].limiter = limiters[ip]
      <4> PICK at \in Nat : at = request[q].at
        BY <3>1
      <4>1. at <= now
        BY <3>1 DEF Known, Timing, InTime
      <4>2. at + MaxDelay - now \in Int /\ MaxDelay \in Int /\ at + MaxDelay - now <= MaxDelay
        BY <4>1, Numbers
      <4>3. /\ Gained(at + MaxDelay - now) <= Gained(MaxDelay)
            /\ Gained(at + MaxDelay - now) \in Int /\ Gained(MaxDelay) \in Int
        BY <4>2, GainedIsMonotone
      <4>4. ample[ip] >= Tokens(heap[limiters[ip]]) + Burst + Gained(at + MaxDelay - now)
        BY <2>1, <2>6, <4>3, Numbers
      <4> QED BY <3>2, <3>4, <4>4
    <3> QED BY <2>4, <2>8, <3>3, <3>4
  <2>9. DroppedIsCovered'
    <3> SUFFICES ASSUME NEW q \in Requests, HoldsDropped(q)'
                 PROVE  ample'[request'[q].ip] >= Tokens(heap[request[q].limiter])' + Fresh(request[q].ip)'
                                                  + Gained(request'[q].at + MaxDelay - now')
      BY DEF DroppedIsCovered
    <3>1. Tokens(heap[request[q].limiter])' = Tokens(heap[request[q].limiter])
      BY <1>0 DEF Tokens
    <3> QED BY <1>0, <2>8, <3>1
  <2>10. IdleRefills'
    BY <1>0, <2>2 DEF Covered, IdleRefills
  <2>11. DropIsCovered'
    BY <1>0, <2>1, <2>2 DEF DropIsCovered
  <2> QED BY <2>5, <2>7, <2>9, <2>10, <2>11 DEF Covered
<1> QED BY <1>1, <1>2 DEF CleanupStep, BeginCleanup, Visit, EndCleanup, limiterVars

\* What a full second adds to both sides, and the ideal bucket's brim, keep it covered.
LEMMA RefillCovers ==
  ASSUME NEW capacity \in Int, NEW level \in Int, NEW need \in Int, NEW next \in Int,
         level >= need, next <= need + Rate, next <= capacity
  PROVE  Lesser(capacity, level + Rate) >= next
BY RateAssumption DEF Lesser

\* What the brim leaves of a bucket a second later.
LEMMA RefillBounds ==
  ASSUME NEW capacity \in Nat, NEW level \in Int
  PROVE  /\ Lesser(capacity, level + Rate) \in Int
         /\ Lesser(capacity, level + Rate) <= level + Rate
         /\ Lesser(capacity, level + Rate) <= capacity
BY RateAssumption DEF Lesser

\* What two buckets, each refilled to its brim, come to.
LEMMA TwoRefills ==
  ASSUME NEW one \in Int, NEW oneNext \in Int, NEW other \in Int, NEW otherNext \in Int,
         NEW gained \in Int, NEW most \in Int,
         oneNext <= one + Rate, oneNext <= Burst,
         otherNext <= other + Rate, otherNext <= Burst, gained <= most
  PROVE  /\ one + other + (gained + Rate) \in Int /\ oneNext + otherNext + gained \in Int
         /\ oneNext + otherNext + gained <= (one + other + (gained + Rate)) + Rate
         /\ oneNext + otherNext + gained <= 2 * Burst + most
BY RateAssumption

\* And one, beside a new one.
LEMMA OneRefill ==
  ASSUME NEW one \in Int, NEW oneNext \in Int, NEW most \in Int,
         oneNext <= one + Rate, oneNext <= Burst
  PROVE  /\ one + Burst + most \in Int /\ oneNext + Burst + most \in Int
         /\ oneNext + Burst + most <= (one + Burst + most) + Rate
         /\ oneNext + Burst + most <= 2 * Burst + most
BY RateAssumption

\* A second gives every bucket Rate tokens at most, and the ideal one as many, unless it
\* is full: then it has enough for two full buckets and what one more gains.
LEMMA TimePassesCovered ==
  ASSUME Known, Covered, TimePasses
  PROVE  Covered'
<1>0. TypeOK /\ UNCHANGED <<limiters, heap, request, cleaner>> /\ now' = now + 1
  BY DEF Known, Suffices, TimePasses, Tick, limiterVars
<1> USE Numbers
<1>1. \A ip \in IPs : /\ ample'[ip] = Lesser(Capacity, ample[ip] + Rate)
                      /\ ample[ip] \in Int
  BY DEF TimePasses, Refilled
<1>2. ASSUME NEW k \in 1..Len(heap), heap[k] \in Bucket, heap[k].last <= now, Tokens(heap[k]) \in 0..Burst
      PROVE  /\ Tokens(heap[k]) \in Int /\ Tokens(heap[k])' \in Int
             /\ Tokens(heap[k])' <= Tokens(heap[k]) + Rate /\ Tokens(heap[k])' <= Burst
  <2>1. TokensAt(heap[k], now + 1) = Lesser(Burst, Tokens(heap[k]) + Rate)
    BY <1>2, TokensRefill
  <2>2. Tokens(heap[k])' = Lesser(Burst, Tokens(heap[k]) + Rate)
    BY <1>0, <2>1 DEF Tokens, TokensAt
  <2>3. Tokens(heap[k]) \in Int
    BY <1>2
  <2> QED BY <2>2, <2>3, RefillBounds
<1>3. ASSUME NEW ip \in IPs
      PROVE  /\ Fresh(ip) \in Int /\ Fresh(ip)' \in Int
             /\ Fresh(ip)' <= Fresh(ip) + Rate /\ Fresh(ip)' <= Burst
  <2>1. CASE ip \in DOMAIN limiters
    <3>1. PICK k \in 1..Len(heap) :
            k = limiters[ip] /\ heap[k] \in Bucket /\ heap[k].last <= now /\ Tokens(heap[k]) \in 0..Burst
      BY <2>1, HeldTokens
    <3>2. Fresh(ip) = Tokens(heap[k]) /\ Fresh(ip)' = Tokens(heap[k])'
      BY <1>0, <2>1, <3>1 DEF Fresh, Tokens
    <3> QED BY <1>2, <3>1, <3>2
  <2>2. CASE ip \notin DOMAIN limiters
    <3>1. Fresh(ip) = Burst /\ Fresh(ip)' = Burst
      BY <1>0, <2>2 DEF Fresh
    <3> QED BY <3>1
  <2> QED BY <2>1, <2>2
<1>4. \A q \in Requests : HoldsDropped(q)' <=> HoldsDropped(q)
  BY <1>0 DEF HoldsDropped
<1>5. OneDropped'
  BY <1>0, <1>4 DEF Covered, OneDropped
<1>6. FreshIsCovered'
  <2> SUFFICES ASSUME NEW ip \in IPs PROVE ample'[ip] >= Fresh(ip)'
    BY DEF FreshIsCovered
  <2>1. ample[ip] >= Fresh(ip)
    BY DEF Covered, FreshIsCovered
  <2>2. Fresh(ip)' <= Capacity /\ Capacity \in Int
    BY <1>3
  <2> QED BY <1>1, <1>3, <2>1, <2>2, RefillCovers
<1>7. DroppedIsCovered'
  <2> SUFFICES ASSUME NEW q \in Requests, HoldsDropped(q)
               PROVE  ample'[request'[q].ip] >= Tokens(heap[request[q].limiter])' + Fresh(request[q].ip)'
                                                + Gained(request'[q].at + MaxDelay - now')
    BY <1>4 DEF DroppedIsCovered
  <2>0. request[q].pc \in {"touch", "allow"}
    BY DEF HoldsDropped
  <2>1. PICK at \in Nat, ip \in IPs : at = request[q].at /\ ip = request[q].ip
    BY <1>0, <2>0, RequestTypes
  <2>2. PICK k \in 1..Len(heap) :
          k = request[q].limiter /\ heap[k] \in Bucket /\ heap[k].last <= now /\ Tokens(heap[k]) \in 0..Burst
    BY <2>0, HeldTokens
  <2>3. ample[ip] >= Tokens(heap[k]) + Fresh(ip) + Gained(at + MaxDelay - now)
    BY <2>1, <2>2 DEF Covered, DroppedIsCovered
  <2>4. at <= now
    BY <2>0, <2>1 DEF Known, Timing, InTime
  <2>5. PICK left \in Int :
          left = at + MaxDelay - (now + 1) /\ left <= MaxDelay /\ left + 1 = at + MaxDelay - now
    <3>1. PICK sec \in Nat : sec = now
      OBVIOUS
    <3>2. /\ at + MaxDelay - (sec + 1) \in Int /\ at + MaxDelay - (sec + 1) <= MaxDelay
          /\ at + MaxDelay - (sec + 1) + 1 = at + MaxDelay - sec
      BY <2>4, <3>1, RateAssumption
    <3> QED BY <3>1, <3>2
  <2>6. Gained(left) \in Int /\ Gained(left + 1) = Gained(left) + Rate /\ Gained(left) <= Gained(MaxDelay)
    BY <2>5, GainedIsMonotone, RateAssumption
  <2> DEFINE need == Tokens(heap[k]) + Fresh(ip) + Gained(left + 1)
             next == Tokens(heap[k])' + Fresh(ip)' + Gained(left)
  <2>7. need \in Int /\ next \in Int /\ next <= need + Rate /\ next <= Capacity
    <3>1. /\ Tokens(heap[k]) \in Int /\ Tokens(heap[k])' \in Int
          /\ Tokens(heap[k])' <= Tokens(heap[k]) + Rate /\ Tokens(heap[k])' <= Burst
      BY <1>2, <2>2
    <3>2. Fresh(ip) \in Int /\ Fresh(ip)' \in Int /\ Fresh(ip)' <= Fresh(ip) + Rate /\ Fresh(ip)' <= Burst
      BY <1>3
    <3>3. Gained(MaxDelay) \in Int /\ Capacity = 2 * Burst + Gained(MaxDelay)
      OBVIOUS
    <3>4. /\ Tokens(heap[k])' + Fresh(ip)' + Gained(left)
               <= (Tokens(heap[k]) + Fresh(ip) + (Gained(left) + Rate)) + Rate
          /\ Tokens(heap[k])' + Fresh(ip)' + Gained(left) <= 2 * Burst + Gained(MaxDelay)
          /\ Tokens(heap[k]) + Fresh(ip) + (Gained(left) + Rate) \in Int
          /\ Tokens(heap[k])' + Fresh(ip)' + Gained(left) \in Int
      BY <2>6, <3>1, <3>2, <3>3, TwoRefills
    <3> QED BY <2>6, <3>3, <3>4
  <2>8. ample[ip] >= need
    BY <2>3, <2>5
  <2>9. ample'[request'[q].ip] = ample'[ip] /\ Tokens(heap[request[q].limiter])' + Fresh(request[q].ip)'
                                                + Gained(request'[q].at + MaxDelay - now') = next
    <3>1. /\ ample'[request'[q].ip] = ample'[ip] /\ Fresh(request[q].ip)' = Fresh(ip)'
          /\ Tokens(heap[request[q].limiter])' = Tokens(heap[k])'
      BY <1>0, <2>1, <2>2 DEF Tokens, Fresh
    <3>2. request'[q].at + MaxDelay - now' = left
      BY <1>0, <2>1, <2>5
    <3> QED BY <3>1, <3>2
  <2> HIDE DEF need, next
  <2>10. ample'[ip] >= next
    <3>1. ample'[ip] = Lesser(Capacity, ample[ip] + Rate) /\ ample[ip] \in Int /\ Capacity \in Int
      BY <1>1
    <3>2. Lesser(Capacity, ample[ip] + Rate) >= next
      BY <2>7, <2>8, <3>1, RefillCovers
    <3> QED BY <3>1, <3>2
  <2> QED BY <2>9, <2>10
<1>8. IdleRefills'
  <2> SUFFICES ASSUME NEW ip \in DOMAIN limiters
               PROVE  ample'[ip] >= Lesser(Capacity, Gained(now' - heap'[limiters'[ip]].lastSeen - 2 * MaxDelay))
    BY <1>0 DEF IdleRefills
  <2>1. PICK seen \in Nat : seen = heap[limiters[ip]].lastSeen
    BY HeldTokens DEF Bucket
  <2> DEFINE t == now - seen - 2 * MaxDelay
  <2>2. t \in Int /\ now + 1 - seen - 2 * MaxDelay = t + 1
    OBVIOUS
  <2>3. ample[ip] >= Lesser(Capacity, Gained(t))
    BY <2>1 DEF Covered, IdleRefills
  <2>4. Gained(now' - heap'[limiters'[ip]].lastSeen - 2 * MaxDelay) = Gained(t + 1)
    BY <1>0, <2>1, <2>2
  <2> HIDE DEF t
  <2>5. Gained(t) \in Int /\ Gained(t + 1) = Gained(t) + Rate
    BY <2>2, GainedIsMonotone
  <2>6. ample[ip] \in Int /\ ample'[ip] = Lesser(Capacity, ample[ip] + Rate)
    BY <1>1, HeldTokens
  <2>7. Lesser(Capacity, ample[ip] + Rate) >= Lesser(Capacity, Gained(t) + Rate)
    <3> DEFINE need == Lesser(Capacity, Gained(t))
               next == Lesser(Capacity, Gained(t) + Rate)
    <3>1. need \in Int /\ next \in Int /\ next <= need + Rate /\ next <= Capacity /\ Capacity \in Int
      BY <2>5 DEF Lesser
    <3> HIDE DEF need, next
    <3>2. ample[ip] >= need
      BY <2>3 DEF need
    <3>3. Lesser(Capacity, ample[ip] + Rate) >= next
      BY <2>6, <3>1, <3>2, RefillCovers
    <3> QED BY <3>3 DEF next
  <2> QED BY <2>4, <2>5, <2>6, <2>7
<1>9. DropIsCovered'
  <2>1. ASSUME cleaner.pc \in {"range", "delete"}
        PROVE  cleaner.todo \subseteq DOMAIN limiters /\ cleaner.cutoff <= now + 1 - TTL
    <3>1. cleaner.todo \subseteq DOMAIN limiters /\ cleaner.cutoff <= now - TTL
      BY <2>1 DEF Covered, DropIsCovered
    <3>2. PICK cutoff \in Int : cutoff = cleaner.cutoff
      BY <1>0, <2>1 DEF TypeOK, CleanerState, Asleep
    <3>3. cutoff <= now - TTL
      BY <3>1, <3>2
    <3>4. cutoff <= now + 1 - TTL
      BY <3>3
    <3> QED BY <3>1, <3>2, <3>4
  <2>2. ASSUME cleaner.pc = "delete"
        PROVE  ample'[cleaner.ip] >= Tokens(heap[limiters[cleaner.ip]])' + Burst + Gained(MaxDelay)
    <3>1. PICK ip \in DOMAIN limiters : ip = cleaner.ip
      BY <2>2 DEF Covered, DropIsCovered
    <3>2. PICK k \in 1..Len(heap) :
            k = limiters[ip] /\ heap[k] \in Bucket /\ heap[k].last <= now /\ Tokens(heap[k]) \in 0..Burst
      BY HeldTokens
    <3> DEFINE need == Tokens(heap[k]) + Burst + Gained(MaxDelay)
               next == Tokens(heap[k])' + Burst + Gained(MaxDelay)
    <3>3. ample[ip] >= need
      BY <2>2, <3>1, <3>2 DEF Covered, DropIsCovered
    <3>4. need \in Int /\ next \in Int /\ next <= need + Rate /\ next <= Capacity /\ Capacity \in Int
      <4>1. /\ Tokens(heap[k]) \in Int /\ Tokens(heap[k])' \in Int
            /\ Tokens(heap[k])' <= Tokens(heap[k]) + Rate /\ Tokens(heap[k])' <= Burst
        BY <1>2, <3>2
      <4>2. Gained(MaxDelay) \in Int /\ Capacity = 2 * Burst + Gained(MaxDelay) /\ Capacity \in Int
        OBVIOUS
      <4> QED BY <4>1, <4>2, OneRefill
    <3>5. Tokens(heap[limiters[cleaner.ip]])' + Burst + Gained(MaxDelay) = next
      BY <1>0, <3>1, <3>2 DEF Tokens
    <3> HIDE DEF need, next
    <3>6. ample[ip] \in Int /\ ample'[ip] = Lesser(Capacity, ample[ip] + Rate)
      BY <1>1, HeldTokens
    <3>7. ample'[ip] >= next
      BY <3>3, <3>4, <3>6, RefillCovers
    <3> QED BY <3>1, <3>5, <3>7
  <2> QED BY <1>0, <1>4, <2>1, <2>2 DEF Covered, DropIsCovered
<1> QED BY <1>5, <1>6, <1>7, <1>8, <1>9 DEF Covered

\* Stop, and a step that does nothing.
LEMMA StutterCovered ==
  ASSUME Known, Covered, UNCHANGED <<now, limiters, heap, request, cleaner, ample>>
  PROVE  Covered'
<1>1. \A ip \in IPs : Fresh(ip)' = Fresh(ip)
  BY DEF Fresh, Tokens
<1>2. \A q \in Requests : HoldsDropped(q)' => HoldsDropped(q) /\ request'[q] = request[q]
  BY DEF HoldsDropped
<1>3. OneDropped' /\ FreshIsCovered' /\ DroppedIsCovered'
  BY <1>1, <1>2, CoveredKept DEF Covered
<1>4. IdleRefills'
  BY DEF Covered, IdleRefills
<1>5. DropIsCovered'
  BY <1>2 DEF Covered, DropIsCovered, Tokens
<1> QED BY <1>3, <1>4, <1>5 DEF Covered

\* Every step keeps the ideal bucket ahead.
LEMMA CoveredStep == Known /\ Covered /\ [Next]_vars => Covered'
<1> SUFFICES ASSUME Known, Covered, [Next]_vars PROVE Covered'
  OBVIOUS
<1>1. CASE \E q \in Requests, ip \in IPs : Load(q, ip)
  BY <1>1, LoadCovered
<1>2. CASE \E q \in Requests : RequestStep(q)
  BY <1>2, TouchCovered, LoadOrStoreCovered, AllowCovered, RefuseCovered DEF RequestStep
<1>3. CASE CleanupStep
  BY <1>3, CleanupStepCovered
<1>4. CASE Stop \/ UNCHANGED vars
  <2>1. UNCHANGED <<now, limiters, heap, request, cleaner, ample>>
    BY <1>4 DEF Stop, vars, limiterVars, history
  <2> QED BY <2>1, StutterCovered
<1>5. CASE TimePasses
  BY <1>5, TimePassesCovered
<1> QED BY <1>1, <1>2, <1>3, <1>4, <1>5 DEF Next

\* Before the first request the ideal buckets are full.
LEMMA CoveredInit == Init => Known /\ Covered
<1> SUFFICES ASSUME Init PROVE Known /\ Covered
  OBVIOUS
<1>1. Known
  <2>1. \A q \in Requests : request[q].pc = "idle"
    BY DEF Init, Idle
  <2> QED BY <2>1, InitTypes, SufficesInit DEF Known, Timing, InTime, SeenInTime
<1>2. \A q \in Requests : ~HoldsDropped(q)
  BY DEF Init, Idle, HoldsDropped
<1>3. DOMAIN limiters = {} /\ cleaner.pc = "asleep"
  BY DEF Init, EmptyMap, Asleep
<1>4. FreshIsCovered
  <2>1. Capacity >= Burst
    BY <1>1, Numbers
  <2> QED BY <1>3, <2>1 DEF Init, FreshIsCovered, Fresh
<1> QED BY <1>1, <1>2, <1>3, <1>4
        DEF Covered, OneDropped, DroppedIsCovered, IdleRefills, DropIsCovered

\* A request that is let through takes a token the ideal bucket has.
LEMMA AllowIsGranted ==
  ASSUME Known, Covered, NEW q \in Requests, Allow(q)
  PROVE  \E ip \in IPs : Contract!Grant(ip)
<1>1. /\ request[q].ip \in IPs /\ Tokens(heap[request[q].limiter]) \in 0..Burst
      /\ Tokens(heap[request[q].limiter]) >= 1
  BY HeldTokens, RequestTypes DEF Allow, Grants, Known, Suffices
<1> PICK ip \in IPs : ip = request[q].ip
  BY <1>1
<1>2. ample[ip] \in Int /\ Fresh(ip) \in 0..Burst /\ ample[ip] >= Fresh(ip)
  BY HeldTokens, Numbers DEF Covered, FreshIsCovered
<1>3. ample[ip] > 0
  <2>1. CASE HoldsDropped(q)
    <3>1. InTime /\ request[q].at \in Nat
      BY RequestTypes DEF Known, Timing, Suffices, Allow, Grants
    <3>2. request[q].at + MaxDelay - now \in Int /\ request[q].at + MaxDelay - now >= 0
      BY <3>1, Numbers DEF InTime, Allow, Grants
    <3>3. Gained(request[q].at + MaxDelay - now) \in Int /\ Gained(request[q].at + MaxDelay - now) >= 0
      BY <3>2, GainedIsMonotone
    <3>4. ample[ip] >= Tokens(heap[request[q].limiter]) + Fresh(ip) + Gained(request[q].at + MaxDelay - now)
      BY <2>1 DEF Covered, DroppedIsCovered
    <3> QED BY <1>1, <1>2, <3>3, <3>4
  <2>2. CASE ~HoldsDropped(q)
    <3>1. Fresh(ip) = Tokens(heap[request[q].limiter])
      BY <2>2 DEF HoldsDropped, Fresh, Allow, Grants
    <3> QED BY <1>1, <1>2, <3>1
  <2> QED BY <2>1, <2>2
<1>4. ample' = [ample EXCEPT ![ip] = @ - 1]
  BY DEF Allow
<1> QED BY <1>3, <1>4 DEF Contract!Grant

\* The contract writes the lesser of two numbers the other way round.
LEMMA LesserCommutes ==
  ASSUME NEW a \in Int, NEW b \in Int
  PROVE  Lesser(a, b) = IF b < a THEN b ELSE a
BY DEF Lesser

\* A step of the limiter is a step of the ideal bucket, or none of its business.
LEMMA StepIsContract == Known /\ Covered /\ [Next]_vars => [Contract!Next]_ample
<1> SUFFICES ASSUME Known, Covered, [Next]_vars PROVE [Contract!Next]_ample
  OBVIOUS
<1>1. CASE \E q \in Requests : Allow(q)
  BY <1>1, AllowIsGranted DEF Contract!Next
<1>2. CASE TimePasses
  <2>1. ASSUME NEW ip \in IPs
        PROVE  Lesser(Capacity, ample[ip] + Rate)
                 = IF ample[ip] + Rate < Capacity THEN ample[ip] + Rate ELSE Capacity
    <3>1. ample[ip] + Rate \in Int /\ Capacity \in Int
      BY Numbers
    <3> QED BY <3>1, LesserCommutes
  <2>2. Contract!Refill
    BY <1>2, <2>1 DEF TimePasses, Refilled, Contract!Refill
  <2> QED BY <2>2 DEF Contract!Next
<1>3. CASE ~TimePasses /\ ~(\E q \in Requests : Allow(q))
  BY <1>3 DEF Next, Load, RequestStep, Touch, LoadOrStore, Refuse, CleanupStep, BeginCleanup, Visit,
              Delete, EndCleanup, Stop, vars, history
<1> QED BY <1>1, <1>2, <1>3

\* However the requests and the cleanup interleave and however late lastSeen is written,
\* a client's buckets together let through what one bucket of Capacity would: a second
\* full bucket and what it gains while in use is all that dropping buckets can give away.
THEOREM LimiterKeepsContract == Spec => KeepsContract
<1>1. Init => Contract!Init
  BY DEF Init, Contract!Init
<1>2. Known /\ [Next]_vars => Known'
  BY SufficesStep, TimingStep DEF Known
<1> QED BY <1>1, <1>2, CoveredInit, CoveredStep, StepIsContract, PTL DEF Spec, KeepsContract, Contract!Spec

=============================================================================
