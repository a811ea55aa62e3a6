------------------------- MODULE PendingLimiterProofs -------------------------
(* Theorems about PendingLimiter, for every choice of its constants. *)
EXTENDS PendingLimiter, TLAPS

\* The buckets' part of TypeOK, which the three operations rewrite.
BucketsOK(buckets, time) ==
  /\ DOMAIN buckets \subseteq IPs
  /\ \A ip \in DOMAIN buckets :
       IsMap(buckets[ip], FileIDs, 0..time) /\ DOMAIN buckets[ip] /= {}

\* Dropping the buckets that have become empty leaves the others as they are.
LEMMA WithoutEmptyKeeps ==
  ASSUME NEW buckets, NEW time, DOMAIN buckets \subseteq IPs,
         \A ip \in DOMAIN buckets : IsMap(buckets[ip], FileIDs, 0..time)
  PROVE  /\ BucketsOK(WithoutEmpty(buckets), time)
         /\ \A ip \in DOMAIN buckets : \A f \in DOMAIN buckets[ip] :
              ip \in DOMAIN WithoutEmpty(buckets) /\ f \in DOMAIN WithoutEmpty(buckets)[ip]
BY DEF BucketsOK, WithoutEmpty

\* Each operation keeps the types of the maps, and what the index relies on.
Sound == TypeOK /\ IndexSound

\* The empty maps are sound ...
LEMMA SoundInit == Init => Sound
<1> SUFFICES ASSUME Init PROVE Sound
  OBVIOUS
<1>1. DOMAIN pendingByIP = {} /\ DOMAIN fileToIP = {} /\ IsMap(fileToIP, FileIDs, IPs) /\ now = 0
  BY DEF Init, ClockInit, LimiterInit, EmptyMap, IsMap
<1> QED BY <1>1 DEF Sound, TypeOK, IndexSound

\* TrackPendingFile puts the file into the bucket the index names from now on.
LEMMA TrackStep ==
  ASSUME Sound, NEW ip \in IPs, NEW f \in FileIDs, Uploaded(ip, f)
  PROVE  Sound'
<1> DEFINE bucket == MapPut(FilesOf(ip), f, now)
<1>0. TypeOK /\ IndexSound /\ now \in Nat /\ now' = now
      /\ pendingByIP' = MapPut(pendingByIP, ip, bucket) /\ fileToIP' = MapPut(fileToIP, f, ip)
  BY DEF Sound, TypeOK, Uploaded, TrackPendingFile
<1>1. IsMap(FilesOf(ip), FileIDs, 0..now)
  BY <1>0 DEF FilesOf, TypeOK, EmptyMap, IsMap
<1>2. IsMap(bucket, FileIDs, 0..now) /\ DOMAIN bucket = DOMAIN FilesOf(ip) \cup {f}
  BY <1>0, <1>1 DEF IsMap, MapPut
<1> HIDE DEF bucket
<1>3. /\ DOMAIN pendingByIP' = DOMAIN pendingByIP \cup {ip}
      /\ pendingByIP'[ip] = bucket
      /\ \A i \in DOMAIN pendingByIP : i /= ip => pendingByIP'[i] = pendingByIP[i]
  BY <1>0 DEF MapPut
<1>4. /\ IsMap(fileToIP', FileIDs, IPs)
      /\ DOMAIN fileToIP' = DOMAIN fileToIP \cup {f}
      /\ fileToIP'[f] = ip
      /\ \A g \in DOMAIN fileToIP : g /= f => fileToIP'[g] = fileToIP[g]
  <2>1. IsMap(fileToIP, FileIDs, IPs)
    BY <1>0 DEF TypeOK
  <2> QED BY <1>0, <2>1 DEF MapPut, IsMap
<1>5. TypeOK'
  BY <1>0, <1>2, <1>3, <1>4 DEF TypeOK
<1>6. IndexSound'
  <2> SUFFICES ASSUME NEW g \in DOMAIN fileToIP'
               PROVE  /\ fileToIP'[g] \in DOMAIN pendingByIP'
                      /\ g \in DOMAIN pendingByIP'[fileToIP'[g]]
    BY DEF IndexSound
  <2>1. CASE g = f
    BY <1>2, <1>3, <1>4, <2>1
  <2>2. CASE g /= f
    <3>1. g \in DOMAIN fileToIP /\ fileToIP'[g] = fileToIP[g]
      BY <1>4, <2>2
    <3>2. fileToIP[g] \in DOMAIN pendingByIP /\ g \in DOMAIN pendingByIP[fileToIP[g]]
      BY <1>0, <3>1 DEF IndexSound
    <3>3. CASE fileToIP[g] = ip
      BY <1>2, <1>3, <3>1, <3>2, <3>3 DEF FilesOf
    <3>4. CASE fileToIP[g] /= ip
      BY <1>3, <3>1, <3>2, <3>4
    <3> QED BY <3>3, <3>4
  <2> QED BY <2>1, <2>2
<1> QED BY <1>5, <1>6 DEF Sound

\* OnPaymentReceived takes one file out of the bucket its index entry names.
LEMMA PaidStep ==
  ASSUME Sound, NEW f \in FileIDs, Paid(f)
  PROVE  Sound'
<1>0. TypeOK /\ IndexSound /\ now' = now
  BY DEF Sound, Paid
<1>1. CASE UNCHANGED limiterVars
  BY <1>0, <1>1 DEF limiterVars, TypeOK, IndexSound, Sound
<1>2. CASE f \in DOMAIN fileToIP /\ ~UNCHANGED limiterVars
  <2> DEFINE buckets == [ip \in DOMAIN pendingByIP |->
               IF ip = fileToIP[f] THEN MapDelete(pendingByIP[ip], f) ELSE pendingByIP[ip]]
  <2>1. fileToIP' = MapDelete(fileToIP, f) /\ pendingByIP' = WithoutEmpty(buckets)
    BY <1>2 DEF Paid, OnPaymentReceived
  <2>2. /\ DOMAIN buckets = DOMAIN pendingByIP
        /\ \A ip \in DOMAIN buckets :
             /\ IsMap(buckets[ip], FileIDs, 0..now)
             /\ \A g \in DOMAIN pendingByIP[ip] : g /= f => g \in DOMAIN buckets[ip]
    BY <1>0 DEF TypeOK, MapDelete, IsMap
  <2>3. /\ IsMap(fileToIP', FileIDs, IPs)
        /\ DOMAIN fileToIP' = DOMAIN fileToIP \ {f}
        /\ \A g \in DOMAIN fileToIP' : fileToIP'[g] = fileToIP[g]
    BY <1>0, <2>1 DEF TypeOK, IsMap, MapDelete
  <2> HIDE DEF buckets
  <2>4. DOMAIN buckets \subseteq IPs
    BY <1>0, <2>2 DEF TypeOK
  <2>5. /\ BucketsOK(pendingByIP', now)
        /\ \A ip \in DOMAIN buckets : \A g \in DOMAIN buckets[ip] :
             ip \in DOMAIN pendingByIP' /\ g \in DOMAIN pendingByIP'[ip]
    BY <2>1, <2>2, <2>4, WithoutEmptyKeeps
  <2>6. TypeOK'
    BY <1>0, <2>3, <2>5 DEF TypeOK, BucketsOK
  <2>7. IndexSound'
    BY <1>0, <2>2, <2>3, <2>5 DEF IndexSound
  <2> QED BY <2>6, <2>7 DEF Sound
<1> QED BY <1>1, <1>2 DEF Paid, OnPaymentReceived

\* CleanupExpired takes a file out of the index whenever it is stale in any bucket.
LEMMA SweptStep ==
  ASSUME Sound, Swept
  PROVE  Sound'
<1> DEFINE buckets == [ip \in DOMAIN pendingByIP |->
             [f \in DOMAIN pendingByIP[ip] \ Stale(ip) |-> pendingByIP[ip][f]]]
           stale == UNION {Stale(ip) : ip \in DOMAIN pendingByIP}
<1>0. TypeOK /\ IndexSound /\ now' = now
      /\ pendingByIP' = WithoutEmpty(buckets)
      /\ fileToIP' = [f \in DOMAIN fileToIP \ stale |-> fileToIP[f]]
  BY DEF Sound, Swept, CleanupExpired
<1>1. /\ DOMAIN buckets = DOMAIN pendingByIP
      /\ \A ip \in DOMAIN buckets :
           /\ IsMap(buckets[ip], FileIDs, 0..now)
           /\ \A g \in DOMAIN pendingByIP[ip] : g \notin stale => g \in DOMAIN buckets[ip]
  BY <1>0 DEF TypeOK, IsMap
<1>2. /\ IsMap(fileToIP', FileIDs, IPs)
      /\ \A g \in DOMAIN fileToIP' :
           g \in DOMAIN fileToIP /\ g \notin stale /\ fileToIP'[g] = fileToIP[g]
  BY <1>0 DEF TypeOK, IsMap
<1> HIDE DEF buckets, stale
<1>3. DOMAIN buckets \subseteq IPs
  BY <1>0, <1>1 DEF TypeOK
<1>4. /\ BucketsOK(pendingByIP', now)
      /\ \A ip \in DOMAIN buckets : \A g \in DOMAIN buckets[ip] :
           ip \in DOMAIN pendingByIP' /\ g \in DOMAIN pendingByIP'[ip]
  BY <1>0, <1>1, <1>3, WithoutEmptyKeeps
<1>5. TypeOK'
  BY <1>0, <1>2, <1>4 DEF TypeOK, BucketsOK
<1>6. IndexSound'
  BY <1>0, <1>1, <1>2, <1>4 DEF IndexSound
<1> QED BY <1>5, <1>6 DEF Sound

\* ... and every step keeps them so.
LEMMA SoundStep == Sound /\ [Next]_vars => Sound'
<1> SUFFICES ASSUME Sound, [Next]_vars PROVE Sound'
  OBVIOUS
<1>1. CASE Restarted
  <2>1. DOMAIN pendingByIP' = {} /\ DOMAIN fileToIP' = {} /\ IsMap(fileToIP', FileIDs, IPs) /\ now' = now
    BY <1>1 DEF Restarted, NewPendingFileLimiter, EmptyMap, IsMap
  <2> QED BY <2>1 DEF Sound, TypeOK, IndexSound
<1>2. CASE TimePasses
  <2>1. now \in Nat /\ now' = now + 1 /\ UNCHANGED <<pendingByIP, fileToIP>>
    BY <1>2 DEF TimePasses, Tick, limiterVars, Sound, TypeOK
  <2>2. \A ip \in DOMAIN pendingByIP : IsMap(pendingByIP[ip], FileIDs, 0..now')
    BY <2>1 DEF Sound, TypeOK, IsMap
  <2> QED BY <2>1, <2>2 DEF Sound, TypeOK, IndexSound
<1>3. CASE UNCHANGED vars
  BY <1>3 DEF vars, limiterVars, Sound, TypeOK, IndexSound
<1> QED BY <1>1, <1>2, <1>3, TrackStep, PaidStep, SweptStep DEF Next

\* The maps are well-typed and no bucket stays empty, whoever tracks, pays for and
\* sweeps which files from which IPs.
THEOREM LimiterTypeCorrect == Spec => []TypeOK
<1>1. Sound => TypeOK
  BY DEF Sound
<1> QED BY SoundInit, SoundStep, <1>1, PTL DEF Spec

\* The callback of a payment always finds the file in the bucket the index names.
THEOREM IndexIsSound == Spec => []IndexSound
<1>1. Sound => IndexSound
  BY DEF Sound
<1> QED BY SoundInit, SoundStep, <1>1, PTL DEF Spec

=============================================================================
