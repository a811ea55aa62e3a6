-------------------------- MODULE StreamDecryptProofs --------------------------
(***************************************************************************)
(* Theorems about the streaming decryptor, for files, chunks and requests  *)
(* of any size.  The first two need the lengths of the buffers and the     *)
(* chunks written; the others need what the buffers hold, and so what the  *)
(* recursive functions FlattenSeq and FoldLeft return.                     *)
(***************************************************************************)
EXTENDS StreamDecrypt, SequenceTheorems, WellFoundedInduction, TLAPS

\* What rounding up makes of the number of chunks: they reach the end of the file,
\* and each one begins before it.
LEMMA ChunksCover ==
  ASSUME NEW size \in Nat
  PROVE  /\ ChunkCount(size) \in Nat
         /\ ChunkCount(size) * CHUNK_SIZE >= size
         /\ (ChunkCount(size) - 1) * CHUNK_SIZE < size
         /\ size = 0 <=> ChunkCount(size) = 0
<1> DEFINE count == ChunkCount(size)
<1>0. count = (size + CHUNK_SIZE - 1) \div CHUNK_SIZE /\ CHUNK_SIZE \in Nat \ {0}
  BY FormatAssumption DEF ChunkCount
<1> HIDE DEF count
<1>1. count \in Nat
  BY <1>0
<1>2. count * CHUNK_SIZE >= size
  BY <1>0
<1>3. (count - 1) * CHUNK_SIZE < size
  BY <1>0
<1>4. size = 0 <=> count = 0
  BY <1>0, <1>1, <1>2, <1>3
<1> QED BY <1>1, <1>2, <1>3, <1>4 DEF count

\* A chunk of the file is where the file is, and sealed it is no longer than a whole
\* chunk and its tag.
LEMMA ChunkFits ==
  ASSUME NEW size \in Nat, NEW k \in Nat, k < ChunkCount(size)
  PROVE  /\ k * CHUNK_SIZE \in Nat /\ k * CHUNK_SIZE < size
         /\ SealedLength(size, k) \in Nat /\ SealedLength(size, k) <= CHUNK_SIZE + AUTH_TAG_LENGTH
<1> DEFINE count == ChunkCount(size)
<1>0. /\ CHUNK_SIZE \in Nat \ {0} /\ AUTH_TAG_LENGTH \in Nat
      /\ count \in Nat /\ count * CHUNK_SIZE >= size /\ (count - 1) * CHUNK_SIZE < size
  BY FormatAssumption, ChunksCover
<1> HIDE DEF count
<1>1. k * CHUNK_SIZE \in Nat /\ k * CHUNK_SIZE <= (count - 1) * CHUNK_SIZE
  <2>1. k <= count - 1 /\ count - 1 \in Nat
    BY <1>0 DEF count
  <2> QED BY <1>0, <2>1
<1>2. k * CHUNK_SIZE < size
  BY <1>0, <1>1
<1>3. k = count - 1 => size - k * CHUNK_SIZE <= CHUNK_SIZE
  BY <1>0
<1> QED BY <1>0, <1>1, <1>2, <1>3 DEF SealedLength, count

\* Two slices that meet make one.
LEMMA SlicesJoin ==
  ASSUME NEW s \in Seq(Nat), NEW a \in Nat, NEW b \in Nat, a <= b, a <= Len(s)
  PROVE  Slice(s, 0, a) \o Slice(s, a, b) = Slice(s, 0, b)
<1> DEFINE last == IF b < Len(s) THEN b ELSE Len(s)
<1>1. last \in a..Len(s) /\ 1 \in 1..Len(s)+1 /\ a \in 1-1..Len(s)
  OBVIOUS
<1>2. SubSeq(s, 1, a) \o SubSeq(s, a + 1, last) = SubSeq(s, 1, last)
  BY <1>1, ConcatAdjacentSubSeq
<1>3. /\ 0 + 1 = 1
      /\ (IF a < Len(s) THEN a ELSE Len(s)) = a
  OBVIOUS
<1>4. Slice(s, 0, a) = SubSeq(s, 1, a) /\ Slice(s, a, b) = SubSeq(s, a + 1, last) /\ Slice(s, 0, b) = SubSeq(s, 1, last)
  BY <1>3 DEF Slice
<1> HIDE DEF last
<1> QED BY <1>2, <1>4

-----------------------------------------------------------------------------
\* The counters: the buffer is bounded, a chunk that is awaited is one of the file's,
\* and nothing is consumed before the header.
Counters ==
  /\ file \in Files
  /\ pc \in {"info", "done", "failed"} \cup Reading
  /\ i \in Nat
  /\ pc \in {"info", "prefix", "header"} => i = 0
  /\ pc = "chunk" => i < ChunkCount(file.size)
  /\ pc = "done" => i = ChunkCount(file.size)
  /\ totalSize \in Nat /\ fetchOffset \in Nat /\ fetchOffset <= totalSize
  /\ totalBuffered \in Nat
  /\ BufferIsBounded

\* What ensureBytes waits for is a number of bytes, of a header or of a chunk.
LEMMA NeededFits ==
  ASSUME Counters, pc \in Reading
  PROVE  /\ Needed \in Nat
         /\ Needed <= HeaderLength(file) \/ Needed <= CHUNK_SIZE + AUTH_TAG_LENGTH
         /\ HeaderLength(file) \in Nat
<1>1. file.size \in Nat /\ file.nameBytes \in Nat
  BY StreamAssumption DEF Counters, FileShape
<1>2. HeaderLength(file) \in Nat /\ HeaderLength(file) >= 2
  BY <1>1, FormatAssumption DEF HeaderLength
<1>3. CASE pc = "prefix"
  BY <1>2, <1>3 DEF Needed
<1>4. CASE pc = "header"
  BY <1>2, <1>4 DEF Needed
<1>5. CASE pc = "chunk"
  BY <1>1, <1>2, <1>5, ChunkFits DEF Needed, Counters
<1> QED BY <1>3, <1>4, <1>5 DEF Reading

\* Every step keeps them.
LEMMA CountersStep == Counters /\ [Next]_vars => Counters'
<1> SUFFICES ASSUME Counters, [Next]_vars PROVE Counters'
  OBVIOUS
<1>0. /\ file.size \in Nat /\ HeaderLength(file) \in Nat
      /\ FETCH_CHUNK_SIZE \in Nat \ {0} /\ CHUNK_SIZE \in Nat /\ AUTH_TAG_LENGTH \in Nat
  BY StreamAssumption, FormatAssumption DEF Counters, FileShape, HeaderLength
<1>1. CASE FileInfo \/ ReadPrefix \/ EndOfFile \/ Breaks \/ UNCHANGED vars
  BY <1>1 DEF FileInfo, ReadPrefix, EndOfFile, Breaks, vars, Fails, Counters, Reading, totalSize, BufferIsBounded
<1>2. CASE FetchRange
  <2>1. /\ totalBuffered < Needed
        /\ \E count \in 1..FETCH_CHUNK_SIZE :
             /\ totalBuffered' = totalBuffered + count
             /\ fetchOffset' = fetchOffset + count /\ fetchOffset' <= totalSize
    <3>1. totalBuffered < Needed
      BY <1>2, NeededFits DEF FetchRange, Ready, Counters
    <3> DEFINE end == IF fetchOffset + FETCH_CHUNK_SIZE < totalSize THEN fetchOffset + FETCH_CHUNK_SIZE ELSE totalSize
    <3>2. /\ totalBuffered' = totalBuffered + (end - fetchOffset) /\ fetchOffset' = end
          /\ fetchOffset < totalSize
      BY <1>2 DEF FetchRange
    <3>3. end - fetchOffset \in 1..FETCH_CHUNK_SIZE /\ end <= totalSize
      BY <1>0, <3>2 DEF Counters
    <3> QED BY <1>0, <3>1, <3>2, <3>3 DEF Counters
  <2>2. UNCHANGED <<file, blob, pc, i>> /\ pc \in Reading
    BY <1>2 DEF FetchRange
  <2>3. BufferIsBounded'
    BY <1>0, <2>1, <2>2, NeededFits DEF Counters, BufferIsBounded
  <2> QED BY <1>0, <2>1, <2>2, <2>3 DEF Counters, totalSize
<1>3. CASE ReadHeader \/ DecryptChunk
  <2>1. /\ totalBuffered' = totalBuffered - Needed /\ totalBuffered >= Needed /\ pc \in Reading
        /\ UNCHANGED <<file, blob, fetchOffset>>
    BY <1>3 DEF ReadHeader, DecryptChunk, Ready, Consume
  <2>2. totalBuffered' \in Nat /\ totalBuffered' <= totalBuffered
    BY <2>1, NeededFits DEF Counters
  <2>3. BufferIsBounded'
    BY <1>0, <2>1, <2>2 DEF Counters, BufferIsBounded
  <2>4. /\ pc' \in {"done", "failed", "chunk"} /\ i' \in Nat
        /\ pc' = "chunk" => i' < ChunkCount(file.size)
        /\ pc' = "done" => i' = ChunkCount(file.size)
    <3>1. ChunkCount(file.size) \in Nat /\ (file.size = 0 <=> ChunkCount(file.size) = 0)
      BY <1>0, ChunksCover
    <3>2. CASE ReadHeader
      BY <3>1, <3>2 DEF ReadHeader, Counters
    <3>3. CASE DecryptChunk
      BY <3>1, <3>3 DEF DecryptChunk, Fails, Counters
    <3> QED BY <1>3, <3>2, <3>3
  <2> QED BY <2>1, <2>2, <2>3, <2>4 DEF Counters, totalSize, Reading
<1> QED BY <1>1, <1>2, <1>3 DEF Next, Step

\* At the start, nothing is fetched.
LEMMA CountersInit == Init => Counters
<1> SUFFICES ASSUME Init PROVE Counters
  OBVIOUS
<1>1. Len(blob) \in Nat
  BY DEF Init, Prefixes
<1>2. HeaderLength(file) \in Nat /\ FETCH_CHUNK_SIZE \in Nat \ {0} /\ CHUNK_SIZE \in Nat /\ AUTH_TAG_LENGTH \in Nat
  BY StreamAssumption, FormatAssumption DEF Init, FileShape, HeaderLength
<1> QED BY <1>1, <1>2 DEF Init, Counters, totalSize, Reading, BufferIsBounded

\* The memory a download takes does not grow with the file.
THEOREM MemoryIsBounded == Spec => []BufferIsBounded
<1>1. Counters => BufferIsBounded
  BY DEF Counters
<1> QED BY <1>1, CountersInit, CountersStep, PTL DEF Spec

-----------------------------------------------------------------------------
\* What is written at any time is the beginning of the file, up to the chunk the
\* loop is at.
WrittenInOrder == written = Slice(Plain(file), 0, i * CHUNK_SIZE)

\* Each chunk is written where the last one ended.
LEMMA WrittenStep == Counters /\ WrittenInOrder /\ [Next]_vars => WrittenInOrder'
<1> SUFFICES ASSUME Counters, WrittenInOrder, [Next]_vars PROVE WrittenInOrder'
  OBVIOUS
<1>1. CASE UNCHANGED <<file, i, written>>
  BY <1>1 DEF WrittenInOrder, Plain
<1>2. CASE DecryptChunk /\ ~UNCHANGED <<file, i, written>>
  <2>0. file.size \in Nat /\ CHUNK_SIZE \in Nat /\ i \in Nat
    BY StreamAssumption, FormatAssumption DEF Counters, FileShape
  <2>1. /\ written' = written \o PlainChunk(file, i) /\ i' = i + 1 /\ file' = file
        /\ i < ChunkCount(file.size)
    BY <1>2 DEF DecryptChunk, Counters
  <2>2. i * CHUNK_SIZE \in Nat /\ i * CHUNK_SIZE < file.size
    BY <2>0, <2>1, ChunkFits
  <2>3. (i + 1) * CHUNK_SIZE \in Nat /\ i * CHUNK_SIZE <= (i + 1) * CHUNK_SIZE
    BY <2>0
  <2>4. Plain(file) \in Seq(Nat) /\ Len(Plain(file)) = file.size
    BY <2>0 DEF Plain
  <2>5. Slice(Plain(file), 0, i * CHUNK_SIZE) \o PlainChunk(file, i) = Slice(Plain(file), 0, (i + 1) * CHUNK_SIZE)
    <3> DEFINE a == i * CHUNK_SIZE
               b == (i + 1) * CHUNK_SIZE
    <3>1. a \in Nat /\ b \in Nat /\ a <= b /\ a <= Len(Plain(file))
      BY <2>2, <2>3, <2>4
    <3>2. PlainChunk(file, i) = Slice(Plain(file), a, b)
      BY DEF PlainChunk
    <3> HIDE DEF a, b
    <3>3. Slice(Plain(file), 0, a) \o Slice(Plain(file), a, b) = Slice(Plain(file), 0, b)
      BY <2>4, <3>1, SlicesJoin
    <3> QED BY <3>2, <3>3 DEF a, b
  <2> QED BY <2>1, <2>5 DEF WrittenInOrder, Plain
<1> QED
  BY <1>1, <1>2 DEF Next, Step, FileInfo, FetchRange, EndOfFile, ReadPrefix, ReadHeader, Breaks, vars

\* Nothing is written at the start.
LEMMA WrittenInit == Init => WrittenInOrder
<1> SUFFICES ASSUME Init PROVE WrittenInOrder
  OBVIOUS
<1>1. file.size \in Nat /\ CHUNK_SIZE \in Nat
  BY StreamAssumption, FormatAssumption DEF Init, FileShape
<1> QED BY <1>1 DEF Init, WrittenInOrder, Slice, Plain

\* The last chunk ends where the file does.
LEMMA WrittenWhole == Counters /\ WrittenInOrder => (pc = "done" => written = Plain(file))
<1> SUFFICES ASSUME Counters, WrittenInOrder, pc = "done" PROVE written = Plain(file)
  OBVIOUS
<1>1. file.size \in Nat /\ i = ChunkCount(file.size)
  BY StreamAssumption DEF Counters, FileShape
<1>2. i * CHUNK_SIZE >= file.size
  BY <1>1, ChunksCover
<1>3. Plain(file) \in Seq(Nat) /\ Len(Plain(file)) = file.size
  BY <1>1 DEF Plain
<1>4. i * CHUNK_SIZE \in Nat
  BY <1>1, FormatAssumption DEF Counters
<1> QED BY <1>1, <1>2, <1>3, <1>4 DEF WrittenInOrder, Slice

\* A download that completes has written the whole file, in order and once.
THEOREM DoneIsWhole == Spec => [](pc = "done" => written = Plain(file))
BY WrittenInit, WrittenWhole, CountersInit, CountersStep, WrittenStep, PTL DEF Spec

-----------------------------------------------------------------------------
(**************************************************************************)
(* Recursive functions by induction                                        *)
(**************************************************************************)

\* A set of natural numbers has a least element.
LEMMA LeastElement ==
  ASSUME NEW T \in SUBSET Nat, T /= {}
  PROVE  \E n \in T : \A m \in T : n <= m
<1> DEFINE R == {ss \in Nat \X Nat : ss[1] < ss[2]}
<1>1. IsWellFoundedOn(R, Nat)
  BY NatLessThanWellFounded DEF OpToRel
<1>2. PICK n \in T : \A m \in T : <<m, n>> \notin R
  <2> HIDE DEF R
  <2> QED BY <1>1, WFMin
<1>3. \A m \in T : <<m, n>> \notin R => n <= m
  OBVIOUS
<1> QED BY <1>2, <1>3

\* Induction over the natural numbers, of a set rather than of a formula.
LEMMA SetInduction ==
  ASSUME NEW T, 0 \in T, \A n \in Nat : n \in T => n + 1 \in T
  PROVE  Nat \subseteq T
<1> SUFFICES ASSUME Nat \ T /= {} PROVE FALSE
  OBVIOUS
<1>1. PICK n \in Nat \ T : \A m \in Nat \ T : n <= m
  BY LeastElement
<1>2. n - 1 \in Nat /\ n - 1 \in T
  BY <1>1
<1> QED BY <1>1, <1>2

\* f is the recursive function that FlattenSeq defines, on the first n of the sequences.
Flattening(f, s, n) == f = [k \in 1..n |-> IF k = 1 THEN s[k] ELSE f[k - 1] \o s[k]]

\* What it is at a place.
LEMMA FlatteningAt ==
  ASSUME NEW s, NEW n, NEW f, Flattening(f, s, n), NEW k \in 1..n
  PROVE  f[k] = IF k = 1 THEN s[k] ELSE f[k - 1] \o s[k]
<1> DEFINE g == [j \in 1..n |-> IF j = 1 THEN s[j] ELSE f[j - 1] \o s[j]]
<1>1. f = g
  BY DEF Flattening
<1>2. g[k] = IF k = 1 THEN s[k] ELSE f[k - 1] \o s[k]
  OBVIOUS
<1> HIDE DEF g
<1>3. f[k] = g[k]
  BY <1>1
<1> QED BY <1>2, <1>3

\* There is one.
LEMMA FlatteningExists ==
  ASSUME NEW s, NEW n \in Nat
  PROVE  \E f : Flattening(f, s, n)
<1> DEFINE T == {m \in Nat : \E f : Flattening(f, s, m)}
<1>1. 0 \in T
  <2>1. Flattening([k \in 1..0 |-> 0], s, 0)
    BY DEF Flattening
  <2> QED BY <2>1
<1>2. ASSUME NEW m \in Nat, m \in T PROVE m + 1 \in T
  <2>1. PICK f : Flattening(f, s, m)
    BY <1>2
  <2> DEFINE g == [k \in 1..(m + 1) |->
                     IF k <= m THEN f[k] ELSE IF k = 1 THEN s[k] ELSE f[m] \o s[k]]
  <2>2. ASSUME NEW k \in 1..(m + 1)
        PROVE  g[k] = IF k = 1 THEN s[k] ELSE g[k - 1] \o s[k]
    <3>1. CASE k <= m
      <4>1. f[k] = IF k = 1 THEN s[k] ELSE f[k - 1] \o s[k]
        BY <2>1, <3>1, FlatteningAt
      <4>2. k /= 1 => k - 1 \in 1..(m + 1) /\ k - 1 <= m
        BY <3>1
      <4>3. g[k] = f[k] /\ (k /= 1 => g[k - 1] = f[k - 1])
        BY <3>1, <4>2
      <4> HIDE DEF g
      <4> QED BY <4>1, <4>3
    <3>2. CASE k = m + 1
      <4>1. m /= 0 => m \in 1..(m + 1) /\ g[m] = f[m]
        OBVIOUS
      <4>2. g[k] = (IF k = 1 THEN s[k] ELSE f[m] \o s[k]) /\ k - 1 = m
        BY <3>2
      <4> HIDE DEF g
      <4> QED BY <3>2, <4>1, <4>2
    <3> QED BY <3>1, <3>2
  <2>3. Flattening(g, s, m + 1)
    BY <2>2 DEF Flattening
  <2> QED BY <2>3
<1> HIDE DEF T
<1>3. Nat \subseteq T
  BY <1>1, <1>2, SetInduction
<1> QED BY <1>3 DEF T

\* FlattenSeq is its last value.
LEMMA FlattenSeqIs ==
  ASSUME NEW S, NEW s \in Seq(S), s /= <<>>
  PROVE  \E f : Flattening(f, s, Len(s)) /\ FlattenSeq(s) = f[Len(s)]
<1> DEFINE f == CHOOSE g : Flattening(g, s, Len(s))
<1>1. Flattening(f, s, Len(s))
  <2>1. Len(s) \in Nat
    OBVIOUS
  <2> QED BY <2>1, FlatteningExists
<1>2. FlattenSeq(s) = f[Len(s)]
  BY DEF FlattenSeq, Flattening
<1> QED BY <1>1, <1>2

\* Two sequences have the same beginning.
Agree(s, t, n) == \A k \in 1..n : s[k] = t[k]

\* Two of them agree as far as the sequences do.
LEMMA FlatteningsAgree ==
  ASSUME NEW s, NEW t, NEW n \in Nat, NEW m \in Nat, n <= m,
         Agree(s, t, n), NEW f, Flattening(f, s, n), NEW g, Flattening(g, t, m)
  PROVE  Agree(f, g, n)
<1> DEFINE T == {k \in Nat : k \in 1..n => f[k] = g[k]}
<1>1. 0 \in T
  OBVIOUS
<1>2. ASSUME NEW k \in Nat, k \in T PROVE k + 1 \in T
  <2> SUFFICES ASSUME k + 1 \in 1..n PROVE f[k + 1] = g[k + 1]
    OBVIOUS
  <2>1. f[k + 1] = IF k + 1 = 1 THEN s[k + 1] ELSE f[k + 1 - 1] \o s[k + 1]
    BY FlatteningAt
  <2>2. k + 1 \in 1..m
    OBVIOUS
  <2>3. g[k + 1] = IF k + 1 = 1 THEN t[k + 1] ELSE g[k + 1 - 1] \o t[k + 1]
    BY <2>2, FlatteningAt
  <2>4. k + 1 /= 1 => f[k + 1 - 1] = g[k + 1 - 1]
    BY <1>2
  <2>5. s[k + 1] = t[k + 1]
    BY DEF Agree
  <2> QED BY <2>1, <2>3, <2>4, <2>5
<1> HIDE DEF T
<1>3. Nat \subseteq T
  BY <1>1, <1>2, SetInduction
<1> QED BY <1>3 DEF T, Agree

\* FlattenSeq of the community modules, one sequence at a time.
LEMMA FlattenAppend ==
  ASSUME NEW S, NEW s \in Seq(Seq(S)), NEW x \in Seq(S)
  PROVE  /\ FlattenSeq(<<>>) = <<>>
         /\ FlattenSeq(Append(s, x)) = FlattenSeq(s) \o x
<1> DEFINE t == Append(s, x)
<1>0. PICK n \in Nat : n = Len(s)
  OBVIOUS
<1>1. /\ t \in Seq(Seq(S)) /\ t /= <<>> /\ Len(t) = n + 1
      /\ \A k \in 1..n : t[k] = s[k]
      /\ t[n + 1] = x
  BY <1>0, AppendProperties
<1>2. FlattenSeq(<<>>) = <<>>
  BY DEF FlattenSeq
<1> HIDE DEF t
<1>3. PICK g : Flattening(g, t, n + 1) /\ FlattenSeq(t) = g[n + 1]
  BY <1>0, <1>1, FlattenSeqIs
<1>4. n + 1 \in 1..(n + 1) /\ n + 1 - 1 = n
  BY <1>1
<1>5. g[n + 1] = IF n + 1 = 1 THEN x ELSE g[n] \o x
  <2>1. g[n + 1] = IF n + 1 = 1 THEN t[n + 1] ELSE g[n + 1 - 1] \o t[n + 1]
    BY <1>3, <1>4, FlatteningAt
  <2> QED BY <1>1, <1>4, <2>1
<1>6. CASE s = <<>>
  <2>1. n = 0 /\ FlattenSeq(s) = <<>>
    BY <1>0, <1>2, <1>6
  <2> QED BY <1>2, <1>3, <1>5, <2>1 DEF t
<1>7. CASE s /= <<>>
  <2>1. PICK f : Flattening(f, s, n) /\ FlattenSeq(s) = f[n]
    BY <1>0, <1>7, FlattenSeqIs
  <2>2. n \in 1..n /\ n + 1 \in Nat /\ n <= n + 1
    BY <1>0, <1>1, <1>7
  <2>3. f[n] = g[n]
    <3>1. Agree(s, t, n)
      BY <1>1 DEF Agree
    <3>2. Agree(f, g, n)
      BY <1>3, <2>1, <2>2, <3>1, FlatteningsAgree
    <3> QED BY <2>2, <3>2 DEF Agree
  <2> QED BY <1>2, <1>3, <1>5, <2>1, <2>2, <2>3 DEF t
<1> QED BY <1>6, <1>7

\* It holds what they hold.
LEMMA FlattenType ==
  ASSUME NEW S, NEW s \in Seq(Seq(S))
  PROVE  FlattenSeq(s) \in Seq(S)
<1> DEFINE T == {n \in Nat : \A u \in Seq(Seq(S)) : Len(u) = n => FlattenSeq(u) \in Seq(S)}
<1>1. 0 \in T
  <2> SUFFICES ASSUME NEW u \in Seq(Seq(S)), Len(u) = 0 PROVE FlattenSeq(u) \in Seq(S)
    OBVIOUS
  <2>1. u = <<>>
    OBVIOUS
  <2>2. <<>> \in Seq(S)
    OBVIOUS
  <2> QED BY <2>1, <2>2, FlattenAppend
<1>2. ASSUME NEW n \in Nat, n \in T PROVE n + 1 \in T
  <2> SUFFICES ASSUME NEW u \in Seq(Seq(S)), Len(u) = n + 1 PROVE FlattenSeq(u) \in Seq(S)
    OBVIOUS
  <2>1. PICK v \in Seq(Seq(S)), x \in Seq(S) : u = Append(v, x)
    <3>1. u /= <<>>
      OBVIOUS
    <3> QED BY <3>1, SequenceEmptyOrAppend
  <2>2. Len(v) = n
    BY <2>1
  <2>3. FlattenSeq(v) \in Seq(S) /\ FlattenSeq(u) = FlattenSeq(v) \o x
    BY <1>2, <2>1, <2>2, FlattenAppend
  <2> QED BY <2>3
<1> HIDE DEF T
<1>3. Nat \subseteq T
  BY <1>1, <1>2, SetInduction
<1>4. Len(s) \in Nat
  OBVIOUS
<1> QED BY <1>3, <1>4 DEF T
-----------------------------------------------------------------------------
(**************************************************************************)
(* consumeBytes                                                            *)
(**************************************************************************)

\* Nothing taken, and nothing left.
Nothing == [taken |-> <<>>, rest |-> <<>>]

\* What ConsumeBytes makes of one more buffer.
Using(acc, buffer, count) ==
  LET needed == count - Len(acc.taken) IN
  IF Len(buffer) <= needed
  THEN [taken |-> acc.taken \o buffer, rest |-> acc.rest]
  ELSE [taken |-> acc.taken \o SubSeq(buffer, 1, needed),
        rest  |-> Append(acc.rest, SubSeq(buffer, needed + 1, Len(buffer)))]

\* f is the recursive function by which FoldLeft is defined, over the places 1..n.
Folding(f, list, count, n) ==
  f = [s \in SUBSET (1..n) |-> IF s = {} THEN Nothing
                               ELSE LET x == Max(s) IN Using(f[s \ {x}], list[x], count)]

\* What it is for a set of places.
FoldsAt(f, s, list, count) ==
  f[s] = IF s = {} THEN Nothing ELSE Using(f[s \ {Max(s)}], list[Max(s)], count)

\* It is that for every set of them.
LEMMA FoldingAt ==
  ASSUME NEW list, NEW count, NEW n, NEW f, Folding(f, list, count, n), NEW s \in SUBSET (1..n)
  PROVE  FoldsAt(f, s, list, count)
<1> DEFINE g == [t \in SUBSET (1..n) |-> IF t = {} THEN Nothing
                               ELSE LET x == Max(t) IN Using(f[t \ {x}], list[x], count)]
<1>1. f = g
  BY DEF Folding
<1>2. g[s] = IF s = {} THEN Nothing ELSE Using(f[s \ {Max(s)}], list[Max(s)], count)
  OBVIOUS
<1> HIDE DEF g
<1>3. f[s] = g[s]
  BY <1>1
<1> QED BY <1>2, <1>3 DEF FoldsAt

\* The last of the places.
LEMMA MaxOfInterval ==
  ASSUME NEW n \in Nat, NEW s \in SUBSET (1..n), n \in s
  PROVE  Max(s) = n
<1>1. \A y \in s : y \in Int /\ n >= y
  OBVIOUS
<1>2. \A x \in s : (\A y \in s : x >= y) => x = n
  <2> SUFFICES ASSUME NEW x \in s, \A y \in s : x >= y PROVE x = n
    OBVIOUS
  <2>1. x >= n /\ n >= x /\ x \in Int
    BY <1>1
  <2> QED BY <2>1
<1>3. Max(s) \in s /\ \A y \in s : Max(s) >= y
  BY <1>1 DEF Max
<1> QED BY <1>2, <1>3

\* There is one: a further place adds the sets it is in.
LEMMA FoldingExists ==
  ASSUME NEW list, NEW count, NEW n \in Nat
  PROVE  \E f : Folding(f, list, count, n)
<1> DEFINE T == {m \in Nat : \E f : Folding(f, list, count, m)}
<1>1. 0 \in T
  <2> DEFINE f == [s \in SUBSET (1..0) |-> Nothing]
  <2>1. \A s \in SUBSET (1..0) : s = {}
    OBVIOUS
  <2>2. Folding(f, list, count, 0)
    BY <2>1 DEF Folding
  <2> QED BY <2>2
<1>2. ASSUME NEW m \in Nat, m \in T PROVE m + 1 \in T
  <2>1. PICK f : Folding(f, list, count, m)
    BY <1>2
  <2> DEFINE g == [s \in SUBSET (1..(m + 1)) |->
                     IF m + 1 \in s THEN Using(f[s \ {m + 1}], list[m + 1], count) ELSE f[s]]
  <2>2. ASSUME NEW s \in SUBSET (1..(m + 1))
        PROVE  g[s] = IF s = {} THEN Nothing
                      ELSE Using(g[s \ {Max(s)}], list[Max(s)], count)
    <3>1. CASE m + 1 \in s
      <4>1. Max(s) = m + 1 /\ s /= {}
        BY <3>1, MaxOfInterval
      <4>2. s \ {m + 1} \in SUBSET (1..(m + 1)) /\ m + 1 \notin s \ {m + 1}
        OBVIOUS
      <4>3. g[s \ {m + 1}] = f[s \ {m + 1}] /\ g[s] = Using(f[s \ {m + 1}], list[m + 1], count)
        BY <3>1, <4>2
      <4> HIDE DEF g
      <4> QED BY <4>1, <4>3
    <3>2. CASE m + 1 \notin s
      <4>1. s \in SUBSET (1..m)
        BY <3>2
      <4>2. f[s] = IF s = {} THEN Nothing ELSE Using(f[s \ {Max(s)}], list[Max(s)], count)
        <5> HIDE DEF g
        <5>1. FoldsAt(f, s, list, count)
          BY <2>1, <4>1, FoldingAt
        <5> QED BY <5>1 DEF FoldsAt
      <4>3. s \ {Max(s)} \in SUBSET (1..(m + 1)) /\ m + 1 \notin s \ {Max(s)}
        BY <3>2
      <4>4. g[s] = f[s] /\ g[s \ {Max(s)}] = f[s \ {Max(s)}]
        BY <3>2, <4>3
      <4> HIDE DEF g
      <4> QED BY <4>2, <4>4
    <3> QED BY <3>1, <3>2
  <2>3. Folding(g, list, count, m + 1)
    BY <2>2 DEF Folding
  <2> QED BY <2>3
<1> HIDE DEF T
<1>3. Nat \subseteq T
  BY <1>1, <1>2, SetInduction
<1> QED BY <1>3 DEF T

\* ConsumeBytes is its value for all places.
LEMMA ConsumeBytesIs ==
  ASSUME NEW S, NEW list \in Seq(S), NEW count
  PROVE  \E f : Folding(f, list, count, Len(list)) /\ ConsumeBytes(list, count) = f[1..Len(list)]
<1> DEFINE f == CHOOSE g : Folding(g, list, count, Len(list))
<1>1. Folding(f, list, count, Len(list))
  <2>1. Len(list) \in Nat
    OBVIOUS
  <2> QED BY <2>1, FoldingExists
<1>2. ConsumeBytes(list, count) = f[1..Len(list)]
  <2>1. DOMAIN list = 1..Len(list)
    OBVIOUS
  <2> QED BY <2>1 DEF ConsumeBytes, FoldLeft, MapThenFoldSet, Folding, Using, Nothing
<1> QED BY <1>1, <1>2

\* The bytes are split in two, the first count of them on the one side.
Splits(acc, flat, count, S) ==
  /\ acc.taken \in Seq(S) /\ acc.rest \in Seq(Seq(S))
  /\ flat = acc.taken \o FlattenSeq(acc.rest)
  /\ Len(acc.taken) <= count
  /\ Len(acc.taken) < count => acc.rest = <<>>

\* Concatenation is associative.
Regroups(s, t, u) == (s \o t) \o u = s \o (t \o u)

LEMMA Regrouping ==
  ASSUME NEW S, NEW s \in Seq(S), NEW t \in Seq(S), NEW u \in Seq(S)
  PROVE  Regroups(s, t, u)
BY ConcatAssociative DEF Regroups

\* One more buffer is split where the count is reached.
LEMMA UsingSplits ==
  ASSUME NEW S, NEW count \in Nat, NEW acc, NEW flat \in Seq(S), NEW x \in Seq(S),
         Splits(acc, flat, count, S)
  PROVE  Splits(Using(acc, x, count), flat \o x, count, S)
<1>1. PICK taken \in Seq(S), rest \in Seq(Seq(S)) : taken = acc.taken /\ rest = acc.rest
  BY DEF Splits
<1>2. PICK flatRest \in Seq(S) : flatRest = FlattenSeq(rest)
  BY FlattenType
<1>3. /\ flat = taken \o flatRest /\ Len(taken) <= count
      /\ Len(taken) < count => rest = <<>>
  BY <1>1, <1>2 DEF Splits
<1>4. PICK needed \in Nat : needed = count - Len(taken)
  <2>1. PICK length \in Nat : length = Len(taken)
    OBVIOUS
  <2>2. length <= count
    BY <1>3, <2>1
  <2>3. count - length \in Nat
    BY <2>2
  <2> QED BY <2>1, <2>3
<1>5. rest = <<>> => flatRest = <<>>
  BY <1>2, FlattenAppend
<1>6. CASE Len(x) <= needed
  <2>1. Using(acc, x, count) = [taken |-> taken \o x, rest |-> rest]
    BY <1>1, <1>4, <1>6 DEF Using
  <2>2. Len(taken \o x) = Len(taken) + Len(x) /\ taken \o x \in Seq(S)
    OBVIOUS
  <2>3. CASE rest = <<>>
    <3>1. flat \o x = (taken \o x) \o flatRest
      <4>1. flatRest = <<>>
        BY <1>5, <2>3
      <4>2. taken \o flatRest = taken /\ (taken \o x) \o flatRest = taken \o x
        BY <2>2, <4>1, ConcatEmptySeq
      <4> QED BY <1>3, <4>2
    <3> QED BY <1>2, <1>4, <1>6, <2>1, <2>2, <2>3, <3>1 DEF Splits
  <2>4. CASE rest /= <<>>
    <3>1. Len(taken) = count /\ Len(x) = 0
      BY <1>3, <1>4, <1>6, <2>4
    <3>2. x = <<>>
      BY <3>1
    <3>3. taken \o x = taken /\ flat \o x = flat
      BY <3>2, ConcatEmptySeq
    <3> QED BY <1>2, <1>3, <2>1, <3>1, <3>3 DEF Splits
  <2> QED BY <2>3, <2>4
<1>7. CASE ~(Len(x) <= needed)
  <2>1. PICK front \in Seq(S), back \in Seq(S) :
          front = SubSeq(x, 1, needed) /\ back = SubSeq(x, needed + 1, Len(x))
    <3>1. SubSeq(x, 1, needed) \in Seq(S) /\ SubSeq(x, needed + 1, Len(x)) \in Seq(S)
      BY <1>7
    <3> QED BY <3>1
  <2>2. Using(acc, x, count) = [taken |-> taken \o front, rest |-> Append(rest, back)]
    BY <1>1, <1>4, <1>7, <2>1 DEF Using
  <2>3. Len(front) = needed
    BY <1>7, <2>1
  <2>4. front \o back = x
    <3>1. 1 \in 1..(Len(x) + 1) /\ needed \in (1 - 1)..Len(x) /\ Len(x) \in needed..Len(x)
      BY <1>7
    <3>2. SubSeq(x, 1, needed) \o SubSeq(x, needed + 1, Len(x)) = SubSeq(x, 1, Len(x))
      BY <3>1, ConcatAdjacentSubSeq
    <3> QED BY <2>1, <3>2, SubSeqFull
  <2>5. FlattenSeq(Append(rest, back)) = flatRest \o back
    BY <1>2, FlattenAppend
  <2>6. Len(taken \o front) = count /\ taken \o front \in Seq(S) /\ Append(rest, back) \in Seq(Seq(S))
    BY <1>4, <2>3
  <2>7. flat \o x = (taken \o front) \o (flatRest \o back)
    <3>1. CASE rest = <<>>
      <4>1. flatRest = <<>>
        BY <1>5, <3>1
      <4>2. flat = taken /\ flatRest \o back = back
        BY <1>3, <4>1, ConcatEmptySeq
      <4>3. (taken \o front) \o back = taken \o (front \o back)
        <5>1. Regroups(taken, front, back)
          BY Regrouping
        <5> QED BY <5>1 DEF Regroups
      <4> QED BY <2>4, <4>2, <4>3
    <3>2. CASE rest /= <<>>
      <4>1. needed = 0
        BY <1>3, <1>4, <3>2
      <4>2. front = <<>>
        BY <2>3, <4>1
      <4>3. taken \o front = taken /\ back = x
        BY <2>4, <4>2, ConcatEmptySeq
      <4>4. (taken \o flatRest) \o x = taken \o (flatRest \o x)
        <5>1. Regroups(taken, flatRest, x)
          BY Regrouping
        <5> QED BY <5>1 DEF Regroups
      <4> QED BY <1>3, <4>3, <4>4
    <3> QED BY <3>1, <3>2
  <2>8. ~(Len(taken \o front) < count) /\ Len(taken \o front) <= count
    BY <2>6
  <2>9. PICK all \in Seq(S), left \in Seq(Seq(S)) : all = taken \o front /\ left = Append(rest, back)
    BY <2>6
  <2>10. Using(acc, x, count).taken = all /\ Using(acc, x, count).rest = left
    BY <2>2, <2>9
  <2>11. flat \o x = all \o FlattenSeq(left) /\ Len(all) <= count /\ ~(Len(all) < count)
    BY <2>5, <2>7, <2>8, <2>9
  <2> QED BY <2>10, <2>11 DEF Splits
<1> QED BY <1>6, <1>7

\* ConsumeBytes splits the buffers' bytes.
LEMMA ConsumeSplits ==
  ASSUME NEW S, NEW list \in Seq(Seq(S)), NEW count \in Nat
  PROVE  Splits(ConsumeBytes(list, count), FlattenSeq(list), count, S)
<1> DEFINE part(k) == SubSeq(list, 1, k)
<1>1. PICK n \in Nat : n = Len(list)
  OBVIOUS
<1>2. PICK f : Folding(f, list, count, n) /\ ConsumeBytes(list, count) = f[1..n]
  BY <1>1, ConsumeBytesIs
<1> DEFINE T == {k \in Nat : k <= n => Splits(f[1..k], FlattenSeq(part(k)), count, S)}
<1>3. 0 \in T
  <2>1. 1..0 = {} /\ 1..0 \in SUBSET (1..n)
    OBVIOUS
  <2>2. FoldsAt(f, 1..0, list, count)
    BY <1>2, <2>1, FoldingAt
  <2>3. f[1..0] = Nothing
    BY <2>1, <2>2 DEF FoldsAt
  <2>4. part(0) = <<>> /\ FlattenSeq(<<>>) = <<>>
    BY FlattenAppend
  <2>5. <<>> \in Seq(S) /\ <<>> \in Seq(Seq(S)) /\ <<>> \o <<>> = <<>> /\ Len(<<>>) = 0
    BY ConcatEmptySeq
  <2>6. Splits(Nothing, <<>>, count, S)
    BY <2>4, <2>5 DEF Splits, Nothing
  <2> QED BY <2>3, <2>4, <2>6
<1>4. ASSUME NEW k \in Nat, k \in T PROVE k + 1 \in T
  <2> SUFFICES ASSUME k + 1 <= n PROVE Splits(f[1..(k + 1)], FlattenSeq(part(k + 1)), count, S)
    OBVIOUS
  <2>1. k + 1 \in 1..n /\ list[k + 1] \in Seq(S)
    BY <1>1
  <2>2. 1..(k + 1) \in SUBSET (1..n) /\ (1..(k + 1)) \ {k + 1} = 1..k /\ 1..(k + 1) /= {}
    <3>1. k + 1 \in 1..(k + 1) /\ \A j \in 1..(k + 1) : j \in 1..n /\ (j /= k + 1 => j \in 1..k)
      BY <2>1
    <3>2. \A j \in 1..k : j \in 1..(k + 1) /\ j /= k + 1
      OBVIOUS
    <3> QED BY <3>1, <3>2
  <2>3. Max(1..(k + 1)) = k + 1
    BY MaxOfInterval
  <2>4. FoldsAt(f, 1..(k + 1), list, count)
    BY <1>2, <2>2, FoldingAt
  <2>5. f[1..(k + 1)] = Using(f[1..k], list[k + 1], count)
    BY <2>2, <2>3, <2>4 DEF FoldsAt
  <2>6. part(k) \in Seq(Seq(S)) /\ part(k + 1) = Append(part(k), list[k + 1])
    BY <1>1, <2>1
  <2>7. FlattenSeq(part(k)) \in Seq(S) /\ FlattenSeq(part(k + 1)) = FlattenSeq(part(k)) \o list[k + 1]
    BY <2>1, <2>6, FlattenType, FlattenAppend
  <2>8. Splits(f[1..k], FlattenSeq(part(k)), count, S)
    BY <1>4
  <2> QED BY <2>1, <2>5, <2>7, <2>8, UsingSplits
<1>5. n \in T
  <2> HIDE DEF T
  <2>1. Nat \subseteq T
    BY <1>3, <1>4, SetInduction
  <2> QED BY <2>1
<1>6. part(n) = list
  BY <1>1, SubSeqFull
<1>7. Splits(f[1..n], FlattenSeq(part(n)), count, S)
  BY <1>5
<1> QED BY <1>2, <1>6, <1>7

\* If there are enough, the first count of them are taken, and the others stay.
LEMMA ConsumeTakes ==
  ASSUME NEW S, NEW list \in Seq(Seq(S)), NEW count \in Nat, count <= Len(FlattenSeq(list))
  PROVE  /\ ConsumeBytes(list, count).taken = SubSeq(FlattenSeq(list), 1, count)
         /\ ConsumeBytes(list, count).rest \in Seq(Seq(S))
         /\ FlattenSeq(ConsumeBytes(list, count).rest)
              = SubSeq(FlattenSeq(list), count + 1, Len(FlattenSeq(list)))
<1> DEFINE acc == ConsumeBytes(list, count)
<1>1. PICK flat \in Seq(S) : flat = FlattenSeq(list)
  BY FlattenType
<1>2. Splits(acc, flat, count, S)
  BY <1>1, ConsumeSplits
<1> HIDE DEF acc
<1>3. PICK taken \in Seq(S), rest \in Seq(Seq(S)) : taken = acc.taken /\ rest = acc.rest
  BY <1>2 DEF Splits
<1>4. PICK flatRest \in Seq(S) : flatRest = FlattenSeq(rest)
  BY FlattenType
<1>5. flat = taken \o flatRest /\ Len(taken) <= count /\ (Len(taken) < count => rest = <<>>)
  BY <1>2, <1>3, <1>4 DEF Splits
<1>6. Len(taken) = count
  <2> SUFFICES ASSUME Len(taken) < count PROVE FALSE
    BY <1>5
  <2>1. flatRest = <<>>
    BY <1>4, <1>5, FlattenAppend
  <2>2. flat = taken
    BY <1>5, <2>1, ConcatEmptySeq
  <2> QED BY <1>1, <2>2
<1>7. SubSeq(flat, 1, count) = taken /\ SubSeq(flat, count + 1, Len(flat)) = flatRest
  BY <1>5, <1>6
<1> QED BY <1>1, <1>3, <1>4, <1>7 DEF acc
-----------------------------------------------------------------------------
(**************************************************************************)
(* decryptFile, and the blobs it refuses                                   *)
(**************************************************************************)

\* What decryptFile cuts out of a blob.
HeaderIn(f, bytes) == Slice(bytes, 0, HeaderLength(f))

PieceAt(f, k) == HeaderLength(f) + k * (CHUNK_SIZE + AUTH_TAG_LENGTH)

Piece(f, bytes, k) == Slice(bytes, PieceAt(f, k), PieceAt(f, k) + SealedLength(f.size, k))

\* What decryptFile asks of them.
LEMMA OpensInMemory ==
  ASSUME NEW f, NEW bytes
  PROVE  /\ DecryptFile(f, bytes).ok <=>
              /\ f.nameBytes <= MAX_FILENAME_LENGTH
              /\ Parses(f, HeaderIn(f, bytes))
              /\ \A k \in 0..(ChunkCount(f.size) - 1) : Opens(f, k, HeaderIn(f, bytes), Piece(f, bytes, k))
         /\ DecryptFile(f, bytes).ok => DecryptFile(f, bytes).data = Plain(f)
BY DEF DecryptFile, HeaderIn, PieceAt, Piece

\* The numbers involved.
LEMMA FileNumbers ==
  ASSUME NEW f \in FileShape
  PROVE  /\ f.size \in Nat /\ f.nameBytes \in Nat /\ HeaderLength(f) \in Nat /\ HeaderLength(f) >= 2
         /\ CHUNK_SIZE \in Nat /\ CHUNK_SIZE > 0 /\ AUTH_TAG_LENGTH \in Nat
         /\ MAX_FILENAME_LENGTH \in Nat /\ FieldsLength \in Nat /\ IV_LENGTH \in Nat
         /\ ChunkCount(f.size) \in Nat /\ (f.size = 0 <=> ChunkCount(f.size) = 0)
<1>1. f.size \in Nat /\ f.nameBytes \in Nat
  BY DEF FileShape
<1>2. /\ CHUNK_SIZE \in Nat /\ CHUNK_SIZE > 0 /\ AUTH_TAG_LENGTH \in Nat
      /\ MAX_FILENAME_LENGTH \in Nat /\ FieldsLength \in Nat /\ IV_LENGTH \in Nat
  BY FormatAssumption
<1>3. HeaderLength(f) \in Nat /\ HeaderLength(f) >= 2
  BY <1>1, <1>2 DEF HeaderLength
<1>4. ChunkCount(f.size) \in Nat
  BY <1>1, ChunksCover
<1>5. f.size = 0 <=> ChunkCount(f.size) = 0
  <2>1. PICK size \in Nat : size = f.size
    BY <1>1
  <2>2. size = 0 <=> ChunkCount(size) = 0
    BY ChunksCover
  <2> QED BY <2>1, <2>2
<1> QED BY <1>1, <1>2, <1>3, <1>4, <1>5

\* The last chunk is the one that reaches the end of the file.
LEMMA LastChunk ==
  ASSUME NEW size \in Nat, NEW k \in Nat, k < ChunkCount(size)
  PROVE  /\ k = ChunkCount(size) - 1 => (k + 1) * CHUNK_SIZE >= size
         /\ k /= ChunkCount(size) - 1 => (k + 1) * CHUNK_SIZE < size
         /\ (k + 1) * CHUNK_SIZE = k * CHUNK_SIZE + CHUNK_SIZE
         /\ (k + 1) * CHUNK_SIZE \in Nat
<1>0. CHUNK_SIZE \in Nat \ {0}
  BY FormatAssumption
<1>1. PICK count \in Nat : count = ChunkCount(size)
  BY ChunksCover
<1>2. count * CHUNK_SIZE >= size /\ (count - 1) * CHUNK_SIZE < size
  BY <1>1, ChunksCover
<1>3. k = count - 1 => (k + 1) * CHUNK_SIZE >= size
  <2>1. k = count - 1 => k + 1 = count
    BY <1>1
  <2> QED BY <1>2, <2>1
<1>4. k /= count - 1 => (k + 1) * CHUNK_SIZE < size
  <2> SUFFICES ASSUME k /= count - 1 PROVE (k + 1) * CHUNK_SIZE < size
    OBVIOUS
  <2>1. PICK next \in Nat, last \in Nat : next = k + 1 /\ last = count - 1 /\ next <= last
    BY <1>1
  <2>2. next * CHUNK_SIZE <= last * CHUNK_SIZE
    BY <1>0, <2>1
  <2>3. next * CHUNK_SIZE \in Int /\ last * CHUNK_SIZE \in Int
    BY <1>0
  <2>4. last * CHUNK_SIZE < size
    BY <1>2, <2>1
  <2> QED BY <2>1, <2>2, <2>3, <2>4
<1>5. (k + 1) * CHUNK_SIZE = k * CHUNK_SIZE + CHUNK_SIZE /\ (k + 1) * CHUNK_SIZE \in Nat
  BY <1>0
<1> QED BY <1>1, <1>3, <1>4, <1>5

\* The decryptors reckon a sealed chunk as long as the encryptor makes it.
LEMMA SealLength ==
  ASSUME NEW f \in FileShape, NEW k \in Nat, k < ChunkCount(f.size)
  PROVE  /\ Len(Seal(f, k)) = SealedLength(f.size, k)
         /\ SealedLength(f.size, k) > 0
         /\ k /= ChunkCount(f.size) - 1 => SealedLength(f.size, k) = CHUNK_SIZE + AUTH_TAG_LENGTH
<1>0. /\ f.size \in Nat /\ CHUNK_SIZE \in Nat /\ CHUNK_SIZE > 0 /\ AUTH_TAG_LENGTH \in Nat
  BY FileNumbers
<1>1. PICK start \in Nat, end \in Nat : start = k * CHUNK_SIZE /\ end = (k + 1) * CHUNK_SIZE
  BY <1>0, LastChunk, ChunkFits
<1>2. /\ start < f.size /\ end = start + CHUNK_SIZE
      /\ k = ChunkCount(f.size) - 1 => end >= f.size
      /\ k /= ChunkCount(f.size) - 1 => end < f.size
  BY <1>0, <1>1, LastChunk, ChunkFits
<1>3. Plain(f) \in Seq(Nat) /\ Len(Plain(f)) = f.size
  BY <1>0 DEF Plain
<1>4. PlainChunk(f, k) = SubSeq(Plain(f), start + 1, IF end < f.size THEN end ELSE f.size)
  BY <1>1, <1>3 DEF PlainChunk, Slice
<1>5. Len(PlainChunk(f, k)) = (IF end < f.size THEN end ELSE f.size) - start
  BY <1>0, <1>2, <1>3, <1>4
<1>6. Len(Seal(f, k)) = Len(PlainChunk(f, k)) + AUTH_TAG_LENGTH
  BY <1>0, <1>2, <1>5 DEF Seal
<1>7. SealedLength(f.size, k) = AUTH_TAG_LENGTH + (IF k = ChunkCount(f.size) - 1 THEN f.size - start ELSE CHUNK_SIZE)
  BY <1>1 DEF SealedLength
<1>8. CASE k = ChunkCount(f.size) - 1
  <2>1. Len(PlainChunk(f, k)) = f.size - start
    BY <1>0, <1>2, <1>5, <1>8
  <2>2. PICK rest \in Nat : rest = f.size - start /\ rest > 0
    BY <1>0, <1>2
  <2>3. Len(Seal(f, k)) = rest + AUTH_TAG_LENGTH /\ SealedLength(f.size, k) = AUTH_TAG_LENGTH + rest
    BY <1>6, <1>7, <1>8, <2>1, <2>2
  <2> QED BY <1>0, <1>8, <2>2, <2>3
<1>9. CASE k /= ChunkCount(f.size) - 1
  <2>1. Len(PlainChunk(f, k)) = CHUNK_SIZE
    BY <1>0, <1>2, <1>5, <1>9
  <2>2. Len(Seal(f, k)) = CHUNK_SIZE + AUTH_TAG_LENGTH
        /\ SealedLength(f.size, k) = AUTH_TAG_LENGTH + CHUNK_SIZE
    BY <1>6, <1>7, <1>9, <2>1
  <2> QED BY <1>0, <2>2
<1> QED BY <1>8, <1>9

\* A blob that ends before a chunk does cannot be opened, in memory either.
LEMMA ShortIsRefused ==
  ASSUME NEW f \in FileShape, NEW S, NEW bytes \in Seq(S), NEW k \in Nat, k < ChunkCount(f.size),
         Len(bytes) < PieceAt(f, k) + SealedLength(f.size, k)
  PROVE  ~DecryptFile(f, bytes).ok
<1>1. PICK at \in Nat, length \in Nat : at = PieceAt(f, k) /\ length = SealedLength(f.size, k)
  <2>1. k * (CHUNK_SIZE + AUTH_TAG_LENGTH) \in Nat
    BY FileNumbers
  <2>2. PieceAt(f, k) \in Nat
    BY <2>1, FileNumbers DEF PieceAt
  <2> QED BY <2>2, FileNumbers, ChunkFits
<1>2. Piece(f, bytes, k) = SubSeq(bytes, at + 1, Len(bytes))
  <2>1. ~(at + length < Len(bytes))
    BY <1>1
  <2>2. Slice(bytes, at, at + length) = SubSeq(bytes, at + 1, Len(bytes))
    BY <2>1 DEF Slice
  <2> QED BY <1>1, <2>2 DEF Piece
<1>3. Len(SubSeq(bytes, at + 1, Len(bytes))) < length
  <2>1. length > 0 /\ Len(bytes) < at + length /\ Len(bytes) \in Nat
    BY <1>1, SealLength
  <2> QED BY <1>1, <2>1
<1>4. Piece(f, bytes, k) /= Seal(f, k)
  BY <1>1, <1>2, <1>3, SealLength
<1>5. k \in 0..(ChunkCount(f.size) - 1)
  BY FileNumbers
<1> QED BY <1>4, <1>5, OpensInMemory DEF Opens

\* What the decryptors say of the blob of a file that cannot be opened.
Refused(f, bytes) == ~DecryptFile(f, bytes).ok \/ (f.size = 0 /\ bytes /= EncryptFile(f))

\* An empty file is its header.
LEMMA EmptyFile ==
  ASSUME NEW f \in FileShape, f.size = 0
  PROVE  EncryptFile(f) = HeaderBytes(f) /\ Len(EncryptFile(f)) = HeaderLength(f)
<1>1. ChunkCount(f.size) = 0
  BY FileNumbers
<1>2. [k \in 1..ChunkCount(f.size) |-> Seal(f, k - 1)] = <<>>
  BY <1>1
<1>3. HeaderBytes(f) \in Seq(Int \X Int) /\ Len(HeaderBytes(f)) = HeaderLength(f)
  <2>1. \A n \in 1..HeaderLength(f) : <<-1, n>> \in Int \X Int
    BY FileNumbers
  <2> QED BY <2>1, FileNumbers DEF HeaderBytes
<1>4. FlattenSeq(<<>>) = <<>>
  BY DEF FlattenSeq
<1> QED BY <1>2, <1>3, <1>4, ConcatEmptySeq DEF EncryptFile

\* A blob that ends within the header.
LEMMA ShortHeaderIsRefused ==
  ASSUME NEW f \in FileShape, NEW S, NEW bytes \in Seq(S), Len(bytes) < HeaderLength(f)
  PROVE  Refused(f, bytes)
<1>1. CASE f.size = 0
  BY <1>1, EmptyFile DEF Refused
<1>2. CASE f.size /= 0
  <2>1. 0 < ChunkCount(f.size)
    BY <1>2, FileNumbers
  <2>2. PICK length \in Nat : length = SealedLength(f.size, 0)
    BY <2>1, FileNumbers, ChunkFits
  <2>3. PieceAt(f, 0) = HeaderLength(f)
    BY FileNumbers DEF PieceAt
  <2>4. Len(bytes) < PieceAt(f, 0) + SealedLength(f.size, 0)
    BY <2>2, <2>3, FileNumbers
  <2> QED BY <2>1, <2>4, ShortIsRefused DEF Refused
<1> QED BY <1>1, <1>2

\* The buffers hold the bytes between two places of a blob.
Holds(list, bytes, from, to, S) ==
  list \in Seq(Seq(S)) /\ FlattenSeq(list) = SubSeq(bytes, from + 1, to)

\* Taking bytes off the buffers moves the window along the blob.
LEMMA WindowMoves ==
  ASSUME NEW S, NEW bytes \in Seq(S), NEW list, NEW used \in Nat, NEW offset \in Nat, NEW count \in Nat,
         used + count <= offset, offset <= Len(bytes), Holds(list, bytes, used, offset, S)
  PROVE  /\ ConsumeBytes(list, count).taken = SubSeq(bytes, used + 1, used + count)
         /\ Holds(ConsumeBytes(list, count).rest, bytes, used + count, offset, S)
<1>0. list \in Seq(Seq(S)) /\ FlattenSeq(list) = SubSeq(bytes, used + 1, offset)
  BY DEF Holds
<1>1. PICK flat \in Seq(S) : flat = FlattenSeq(list) /\ flat = SubSeq(bytes, used + 1, offset)
  BY <1>0, FlattenType
<1>2. Len(flat) = offset - used
  BY <1>1
<1>3. count <= Len(FlattenSeq(list))
  BY <1>1, <1>2
<1>4. SubSeq(flat, 1, count) = SubSeq(bytes, used + 1, used + count)
  BY <1>1, <1>2
<1>5. SubSeq(flat, count + 1, Len(flat)) = SubSeq(bytes, used + count + 1, offset)
  BY <1>1, <1>2
<1>6. /\ ConsumeBytes(list, count).taken = SubSeq(FlattenSeq(list), 1, count)
      /\ ConsumeBytes(list, count).rest \in Seq(Seq(S))
      /\ FlattenSeq(ConsumeBytes(list, count).rest)
           = SubSeq(FlattenSeq(list), count + 1, Len(FlattenSeq(list)))
  BY <1>0, <1>3, ConsumeTakes
<1> QED BY <1>1, <1>4, <1>5, <1>6 DEF Holds

\* A range fetched widens it.
LEMMA WindowGrows ==
  ASSUME NEW S, NEW bytes \in Seq(S), NEW list, NEW used \in Nat, NEW offset \in Nat, NEW end \in Nat,
         used <= offset, offset <= end, end <= Len(bytes), Holds(list, bytes, used, offset, S)
  PROVE  Holds(Append(list, Slice(bytes, offset, end)), bytes, used, end, S)
<1>0. list \in Seq(Seq(S)) /\ FlattenSeq(list) = SubSeq(bytes, used + 1, offset)
  BY DEF Holds
<1>1. PICK range \in Seq(S) : range = SubSeq(bytes, offset + 1, end)
  <2>1. SubSeq(bytes, offset + 1, end) \in Seq(S)
    OBVIOUS
  <2> QED BY <2>1
<1>2. Slice(bytes, offset, end) = range
  <2>1. (IF end < Len(bytes) THEN end ELSE Len(bytes)) = end
    OBVIOUS
  <2> QED BY <1>1, <2>1 DEF Slice
<1>3. SubSeq(bytes, used + 1, offset) \o SubSeq(bytes, offset + 1, end) = SubSeq(bytes, used + 1, end)
  <2>1. used + 1 \in 1..(Len(bytes) + 1) /\ offset \in (used + 1 - 1)..Len(bytes) /\ end \in offset..Len(bytes)
    OBVIOUS
  <2> QED BY <2>1, ConcatAdjacentSubSeq
<1>4. FlattenSeq(Append(list, range)) = FlattenSeq(list) \o range
  BY <1>0, FlattenAppend
<1>5. Append(list, range) \in Seq(Seq(S))
  BY <1>0
<1> QED BY <1>0, <1>1, <1>2, <1>3, <1>4, <1>5 DEF Holds
-----------------------------------------------------------------------------
(**************************************************************************)
(* What the streaming decryptor has done so far                            *)
(**************************************************************************)

\* The bytes that are stored.
Stored == {blob[p] : p \in DOMAIN blob}

\* How many of them have been consumed, while the loop goes on.
Used == Len(headerBytes) + i * (CHUNK_SIZE + AUTH_TAG_LENGTH)

\* The buffers hold the blob from where it was used to where the next request begins.
Window ==
  /\ Used \in Nat /\ Used <= fetchOffset
  /\ Holds(chunks, blob, Used, fetchOffset, Stored)
  /\ totalBuffered = fetchOffset - Used

\* The header has been consumed.
HasHeader == headerBytes = HeaderIn(file, blob) /\ Len(blob) >= HeaderLength(file)

\* The chunks before chunk n have been opened.
Opened(n) == \A k \in 0..(n - 1) : Opens(file, k, headerBytes, Piece(file, blob, k))

\* What has been consumed so far is what decryptFile would have looked at, and a download
\* that failed of itself could not be opened in memory either.
Progress ==
  /\ blob \in Seq(Stored) /\ chunks \in Seq(Seq(Stored))
  /\ i <= ChunkCount(file.size)
  /\ totalBuffered <= fetchOffset
  /\ headerBytes = <<>> \/ HasHeader
  /\ broken \in BOOLEAN
  /\ pc \in {"info"} \cup Reading => Window
  /\ pc \in Reading => Len(blob) >= HeaderLength(file)
  /\ pc \in {"info", "prefix", "header"} => headerBytes = <<>>
  /\ pc \in {"header", "chunk", "done"} => file.nameBytes <= MAX_FILENAME_LENGTH
  /\ pc \in {"chunk", "done"} => HasHeader /\ Opened(i)
  /\ pc = "failed" /\ ~broken => Refused(file, blob)

\* At the start, nothing has been fetched.
LEMMA ProgressInit == Init => Progress
<1> SUFFICES ASSUME Init PROVE Progress
  OBVIOUS
<1>1. file \in FileShape
  BY StreamAssumption DEF Init
<1>2. blob \in Seq(Stored)
  <2>1. PICK l \in 0..Len(EncryptFile(file)) : blob = SubSeq(EncryptFile(file), 1, l)
    BY DEF Init, Prefixes
  <2>2. l \in Nat
    OBVIOUS
  <2>3. blob = [p \in 1..l |-> blob[p]]
    BY <2>1, <2>2
  <2>4. \A p \in 1..l : blob[p] \in Stored
    BY <2>3 DEF Stored
  <2> QED BY <2>2, <2>3, <2>4
<1>3. chunks = <<>> /\ chunks \in Seq(Seq(Stored)) /\ fetchOffset = 0 /\ totalBuffered = 0 /\ i = 0
      /\ pc = "info" /\ headerBytes = <<>> /\ broken = FALSE
  BY DEF Init
<1>4. Window
  <2>1. Used = 0
    BY <1>1, <1>3, FileNumbers DEF Used
  <2>2. SubSeq(blob, 0 + 1, 0) = <<>>
    BY <1>2
  <2>3. FlattenSeq(chunks) = <<>>
    BY <1>3 DEF FlattenSeq
  <2>4. SubSeq(blob, Used + 1, fetchOffset) = <<>>
    BY <1>3, <2>1, <2>2
  <2>5. totalBuffered = fetchOffset - Used /\ Used <= fetchOffset /\ Used \in Nat
    BY <1>3, <2>1
  <2> QED BY <1>3, <2>3, <2>4, <2>5 DEF Window, Holds
<1>5. 0 <= ChunkCount(file.size)
  BY <1>1, FileNumbers
<1>6. broken \in BOOLEAN
  BY <1>3
<1> QED BY <1>2, <1>3, <1>4, <1>5, <1>6 DEF Progress, Reading

\* What is known at each step.
LEMMA StreamNumbers ==
  ASSUME Counters, Progress
  PROVE  /\ file \in FileShape /\ fetchOffset \in Nat /\ totalBuffered \in Nat /\ i \in Nat
         /\ Len(blob) \in Nat /\ fetchOffset <= Len(blob)
         /\ blob \in Seq(Stored) /\ chunks \in Seq(Seq(Stored))
BY StreamAssumption DEF Counters, Progress, totalSize

\* Where a chunk is, once the header has been consumed.
LEMMA UsedIsAt ==
  ASSUME Counters, Progress, HasHeader
  PROVE  /\ Len(headerBytes) = HeaderLength(file)
         /\ Used = PieceAt(file, i)
<1>1. Len(headerBytes) = HeaderLength(file)
  <2>1. HeaderLength(file) \in Nat /\ HeaderLength(file) <= Len(blob)
    BY StreamNumbers, FileNumbers DEF HasHeader
  <2>2. (IF HeaderLength(file) < Len(blob) THEN HeaderLength(file) ELSE Len(blob)) = HeaderLength(file)
    BY <2>1, StreamNumbers
  <2>3. headerBytes = SubSeq(blob, 0 + 1, HeaderLength(file))
    BY <2>2 DEF HasHeader, HeaderIn, Slice
  <2> QED BY <2>1, <2>3, StreamNumbers
<1> QED BY <1>1 DEF Used, PieceAt

\* The first request gets the whole header, if the blob has one.
LEMMA FileInfoProgress == ASSUME Counters, Progress, FileInfo PROVE Progress'
<1>0. UNCHANGED <<file, blob, i, chunks, totalBuffered, fetchOffset, headerBytes, broken>> /\ pc = "info"
  BY DEF FileInfo
<1>1. Window' /\ Stored' = Stored
  BY <1>0 DEF Progress, Window, Used, Stored
<1>2. PICK length \in Nat, header \in Nat : length = Len(blob) /\ header = HeaderLength(file)
  BY StreamNumbers, FileNumbers
<1>3. InfoLength \in Nat
  BY StreamAssumption
<1>4. Len(Slice(blob, 0, InfoLength)) = IF InfoLength < length THEN InfoLength ELSE length
  BY <1>2, <1>3, StreamNumbers DEF Slice
<1>5. CASE pc' = "prefix" /\ Len(Slice(blob, 0, InfoLength)) >= HeaderLength(file)
  <2>1. Len(blob) >= HeaderLength(file)
    BY <1>2, <1>3, <1>4, <1>5
  <2> QED BY <1>0, <1>1, <1>5, <2>1 DEF Progress, Reading, HasHeader
<1>6. CASE Fails /\ Len(Slice(blob, 0, InfoLength)) < HeaderLength(file)
  <2>1. Refused(file, blob)
    <3>1. CASE file.nameBytes > MAX_FILENAME_LENGTH
      <4>1. ~(file.nameBytes <= MAX_FILENAME_LENGTH)
        BY <3>1, StreamNumbers, FileNumbers
      <4> QED BY <4>1, OpensInMemory DEF Refused
    <3>2. CASE ~(file.nameBytes > MAX_FILENAME_LENGTH)
      <4>1. HeaderLength(file) <= InfoLength
        <5>1. PICK name \in Nat : name = file.nameBytes
          BY StreamNumbers, FileNumbers
        <5>2. name <= MAX_FILENAME_LENGTH /\ HeaderLength(file) = 2 + name + FieldsLength + IV_LENGTH
          BY <3>2, <5>1, StreamNumbers, FileNumbers DEF HeaderLength
        <5>3. FieldsLength \in Nat /\ IV_LENGTH \in Nat /\ MAX_FILENAME_LENGTH \in Nat
          BY StreamNumbers, FileNumbers
        <5>4. InfoLength \in Nat /\ InfoLength >= 2 + MAX_FILENAME_LENGTH + FieldsLength + IV_LENGTH
          BY StreamAssumption
        <5> QED BY <5>2, <5>3, <5>4
      <4>2. Len(blob) < HeaderLength(file)
        BY <1>2, <1>3, <1>4, <1>6, <4>1
      <4> QED BY <4>2, StreamNumbers, ShortHeaderIsRefused
    <3> QED BY <3>1, <3>2
  <2> QED BY <1>0, <1>1, <1>6, <2>1 DEF Progress, Fails, Reading, HasHeader, Refused
<1> QED BY <1>5, <1>6 DEF FileInfo

\* A range follows the ones before it.
LEMMA FetchRangeProgress == ASSUME Counters, Progress, FetchRange PROVE Progress'
<1>0. UNCHANGED <<file, blob, pc, i, headerBytes, broken>> /\ pc \in Reading
  BY DEF FetchRange
<1>1. Window /\ Stored' = Stored /\ Used' = Used
  BY <1>0 DEF Progress, Used, Stored
<1> DEFINE end == IF fetchOffset + FETCH_CHUNK_SIZE < totalSize THEN fetchOffset + FETCH_CHUNK_SIZE ELSE totalSize
<1>2. /\ chunks' = Append(chunks, Slice(blob, fetchOffset, end))
      /\ totalBuffered' = totalBuffered + (end - fetchOffset) /\ fetchOffset' = end
      /\ fetchOffset < totalSize
  BY DEF FetchRange
<1>3. end \in Nat /\ fetchOffset <= end /\ end <= Len(blob)
  BY <1>2, StreamNumbers, StreamAssumption DEF totalSize
<1> HIDE DEF end
<1>4. /\ Used \in Nat /\ Used <= fetchOffset /\ Holds(chunks, blob, Used, fetchOffset, Stored)
      /\ totalBuffered = fetchOffset - Used
  BY <1>1 DEF Window
<1>5. Holds(chunks', blob, Used, end, Stored)
  BY <1>2, <1>3, <1>4, StreamNumbers, WindowGrows
<1>6. Used <= end /\ totalBuffered' = end - Used /\ totalBuffered' <= end
  BY <1>2, <1>3, <1>4, StreamNumbers
<1>7. Window'
  BY <1>0, <1>1, <1>2, <1>4, <1>5, <1>6 DEF Window
<1>8. chunks' \in Seq(Seq(Stored))
  BY <1>5 DEF Holds
<1> QED BY <1>0, <1>1, <1>2, <1>6, <1>7, <1>8 DEF Progress, HasHeader, Opened, Reading, Refused

\* At the end of the blob, what is missing is missing.
LEMMA EndOfFileProgress == ASSUME Counters, Progress, EndOfFile PROVE Progress'
<1>0. /\ UNCHANGED <<file, blob, i, chunks, totalBuffered, fetchOffset, headerBytes, broken>>
      /\ pc \in Reading /\ pc' = "failed"
  BY DEF EndOfFile, Fails
<1>1. Window /\ Stored' = Stored /\ Len(blob) >= HeaderLength(file)
  BY <1>0 DEF Progress, Stored
<1>2. totalBuffered < Needed /\ fetchOffset = Len(blob)
  BY NeededFits, StreamNumbers DEF EndOfFile, Ready, totalSize
<1>3. Refused(file, blob)
  <2>1. CASE pc \in {"prefix", "header"}
    <3>1. headerBytes = <<>> /\ i = 0
      BY <2>1 DEF Progress, Counters
    <3>2. Used = 0
      BY <3>1, StreamNumbers, FileNumbers DEF Used
    <3>3. Needed <= HeaderLength(file) /\ Needed \in Nat
      BY <2>1, StreamNumbers, FileNumbers DEF Needed
    <3> QED BY <1>1, <1>2, <3>2, <3>3, StreamNumbers, FileNumbers DEF Window
  <2>2. CASE pc = "chunk"
    <3>1. HasHeader /\ i < ChunkCount(file.size) /\ Needed = SealedLength(file.size, i)
      BY <2>2 DEF Progress, Counters, Needed
    <3>2. Used = PieceAt(file, i)
      BY <3>1, UsedIsAt
    <3>3. SealedLength(file.size, i) \in Nat
      BY <3>1, StreamNumbers, FileNumbers, ChunkFits
    <3>4. Len(blob) < PieceAt(file, i) + SealedLength(file.size, i)
      BY <1>1, <1>2, <3>1, <3>2, <3>3, StreamNumbers DEF Window
    <3> QED BY <3>1, <3>4, StreamNumbers, ShortIsRefused DEF Refused
  <2> QED BY <1>0, <2>1, <2>2 DEF Reading
<1> QED BY <1>0, <1>1, <1>3 DEF Progress, HasHeader, Reading, Refused

\* A name too long is refused in memory, too.
LEMMA ReadPrefixProgress == ASSUME Counters, Progress, ReadPrefix PROVE Progress'
<1>0. /\ UNCHANGED <<file, blob, i, chunks, totalBuffered, fetchOffset, headerBytes, broken>>
      /\ pc = "prefix"
  BY DEF ReadPrefix
<1>1. Window' /\ Stored' = Stored
  BY <1>0 DEF Progress, Window, Used, Stored, Reading
<1>2. CASE pc' = "header" /\ file.nameBytes <= MAX_FILENAME_LENGTH
  BY <1>0, <1>1, <1>2 DEF Progress, Reading, HasHeader
<1>3. CASE Fails /\ file.nameBytes > MAX_FILENAME_LENGTH
  <2>1. ~(file.nameBytes <= MAX_FILENAME_LENGTH)
    BY <1>3, StreamNumbers, FileNumbers
  <2>2. Refused(file, blob)
    BY <2>1, OpensInMemory DEF Refused
  <2> QED BY <1>0, <1>1, <1>3, <2>2 DEF Progress, Fails, Reading, HasHeader, Refused
<1> QED BY <1>2, <1>3 DEF ReadPrefix

\* What is taken off the buffers, when there is enough, is the next piece of the blob.
LEMMA TakenIsNext ==
  ASSUME Counters, Progress, pc \in Reading, NEW count \in Nat, count <= totalBuffered
  PROVE  /\ Used \in Nat /\ Used + count <= fetchOffset
         /\ ConsumeBytes(chunks, count).taken = Slice(blob, Used, Used + count)
         /\ Holds(ConsumeBytes(chunks, count).rest, blob, Used + count, fetchOffset, Stored)
         /\ totalBuffered - count = fetchOffset - (Used + count) /\ totalBuffered - count \in Nat
<1>1. /\ Used \in Nat /\ Used <= fetchOffset /\ Holds(chunks, blob, Used, fetchOffset, Stored)
      /\ totalBuffered = fetchOffset - Used
  BY DEF Progress, Window
<1>2. /\ Used + count <= fetchOffset /\ Used + count \in Nat
      /\ totalBuffered - count = fetchOffset - (Used + count) /\ totalBuffered - count \in Nat
  BY <1>1, StreamNumbers
<1>3. /\ ConsumeBytes(chunks, count).taken = SubSeq(blob, Used + 1, Used + count)
      /\ Holds(ConsumeBytes(chunks, count).rest, blob, Used + count, fetchOffset, Stored)
  BY <1>1, <1>2, StreamNumbers, WindowMoves
<1>4. Slice(blob, Used, Used + count) = SubSeq(blob, Used + 1, Used + count)
  <2>1. (IF Used + count < Len(blob) THEN Used + count ELSE Len(blob)) = Used + count
    BY <1>2, StreamNumbers
  <2> QED BY <2>1 DEF Slice
<1> QED BY <1>1, <1>2, <1>3, <1>4

\* The header consumed is the header decryptFile slices off.
LEMMA ReadHeaderProgress == ASSUME Counters, Progress, ReadHeader PROVE Progress'
<1>0. /\ UNCHANGED <<file, blob, i, fetchOffset, written, broken>> /\ pc = "header"
      /\ pc' = (IF file.size = 0 THEN "done" ELSE "chunk")
      /\ totalBuffered >= Needed
  BY DEF ReadHeader, Ready
<1>1. Needed = HeaderLength(file) /\ pc \in Reading
  BY <1>0 DEF Needed, Reading
<1>2. /\ i = 0 /\ headerBytes = <<>> /\ Len(blob) >= HeaderLength(file)
      /\ file.nameBytes <= MAX_FILENAME_LENGTH
  BY <1>0, <1>1 DEF Progress, Counters
<1>3. PICK length \in Nat : length = HeaderLength(file) /\ length <= totalBuffered
  BY <1>0, <1>1, StreamNumbers, FileNumbers
<1>4. Used = 0
  BY <1>2, FileNumbers, StreamNumbers DEF Used
<1>5. /\ 0 + length <= fetchOffset
      /\ ConsumeBytes(chunks, length).taken = Slice(blob, 0, 0 + length)
      /\ Holds(ConsumeBytes(chunks, length).rest, blob, 0 + length, fetchOffset, Stored)
      /\ totalBuffered - length = fetchOffset - (0 + length) /\ totalBuffered - length \in Nat
  BY <1>1, <1>3, <1>4, TakenIsNext
<1>6. 0 + length = length
  OBVIOUS
<1>7. headerBytes' = HeaderIn(file, blob)
  BY <1>1, <1>3, <1>5, <1>6 DEF ReadHeader, HeaderIn
<1>8. /\ Holds(chunks', blob, length, fetchOffset, Stored)
      /\ totalBuffered' = fetchOffset - length /\ totalBuffered' <= fetchOffset
  BY <1>1, <1>3, <1>5, <1>6, StreamNumbers DEF ReadHeader, Consume
<1>9. Stored' = Stored /\ HasHeader'
  BY <1>0, <1>2, <1>7 DEF Stored, HasHeader, HeaderIn
<1>10. Window'
  <2>1. Len(headerBytes') = length
    <3>1. (IF length < Len(blob) THEN length ELSE Len(blob)) = length
      BY <1>2, <1>3, StreamNumbers
    <3>2. headerBytes' = SubSeq(blob, 0 + 1, length)
      BY <1>3, <1>7, <3>1 DEF HeaderIn, Slice
    <3> QED BY <1>2, <1>3, <3>2, StreamNumbers
  <2>2. Used' = length
    BY <1>0, <1>2, <2>1, FileNumbers, StreamNumbers DEF Used
  <2>3. length <= fetchOffset
    BY <1>5, <1>6
  <2> QED BY <1>0, <1>3, <1>8, <1>9, <2>2, <2>3 DEF Window
<1>11. Opened(i)'
  BY <1>0, <1>2 DEF Opened
<1>12. chunks' \in Seq(Seq(Stored))
  BY <1>8 DEF Holds
<1> QED BY <1>0, <1>2, <1>8, <1>9, <1>10, <1>11, <1>12 DEF Progress, Reading

\* The chunk consumed is the slice decryptFile opens.
LEMMA DecryptChunkProgress == ASSUME Counters, Progress, DecryptChunk PROVE Progress'
<1>0. /\ UNCHANGED <<file, blob, fetchOffset, headerBytes, broken>> /\ pc = "chunk"
      /\ totalBuffered >= Needed
  BY DEF DecryptChunk, Ready
<1>1. /\ pc \in Reading /\ HasHeader /\ Opened(i) /\ i < ChunkCount(file.size)
      /\ file.nameBytes <= MAX_FILENAME_LENGTH /\ Len(blob) >= HeaderLength(file)
  BY <1>0 DEF Progress, Reading, Counters, HasHeader
<1>2. PICK length \in Nat : length = Needed /\ length = SealedLength(file.size, i)
  BY <1>0, <1>1, StreamNumbers, FileNumbers, ChunkFits DEF Needed
<1>3. PICK at \in Nat : at = Used /\ at = PieceAt(file, i)
  BY <1>1, UsedIsAt DEF Progress, Window
<1>4. /\ at + length <= fetchOffset
      /\ ConsumeBytes(chunks, length).taken = Slice(blob, at, at + length)
      /\ Holds(ConsumeBytes(chunks, length).rest, blob, at + length, fetchOffset, Stored)
      /\ totalBuffered - length = fetchOffset - (at + length) /\ totalBuffered - length \in Nat
  BY <1>0, <1>1, <1>2, <1>3, TakenIsNext
<1>5. ConsumeBytes(chunks, Needed).taken = Piece(file, blob, i)
  BY <1>2, <1>3, <1>4 DEF Piece
<1>6. /\ Holds(chunks', blob, at + length, fetchOffset, Stored)
      /\ totalBuffered' = fetchOffset - (at + length) /\ totalBuffered' <= fetchOffset
  BY <1>2, <1>4, StreamNumbers DEF DecryptChunk, Consume
<1>7. chunks' \in Seq(Seq(Stored)) /\ Stored' = Stored /\ HasHeader'
  BY <1>0, <1>1, <1>6 DEF Holds, Stored, HasHeader
<1>8. CASE /\ Opens(file, i, headerBytes, Piece(file, blob, i)) /\ i' = i + 1
           /\ pc' = IF i + 1 = ChunkCount(file.size) THEN "done" ELSE "chunk"
  <2>1. Opened(i + 1)
    BY <1>1, <1>8, StreamNumbers DEF Opened
  <2>2. Opened(i)'
    BY <1>0, <1>8, <2>1 DEF Opened
  <2>3. i' <= ChunkCount(file.size)
    BY <1>1, <1>8, StreamNumbers, FileNumbers
  <2>4. ASSUME pc' = "chunk" PROVE Window'
    <3>1. i /= ChunkCount(file.size) - 1
      BY <1>8, <2>4, StreamNumbers, FileNumbers
    <3>2. length = CHUNK_SIZE + AUTH_TAG_LENGTH
      BY <1>1, <1>2, <3>1, StreamNumbers, SealLength
    <3>3. PieceAt(file, i + 1) = PieceAt(file, i) + (CHUNK_SIZE + AUTH_TAG_LENGTH)
      BY StreamNumbers, FileNumbers DEF PieceAt
    <3>4. Len(headerBytes) = HeaderLength(file)
      BY <1>1, UsedIsAt
    <3>5. Used' = PieceAt(file, i + 1)
      BY <1>0, <1>8, <3>4 DEF Used, PieceAt
    <3>6. Used' = at + length
      BY <1>3, <3>2, <3>3, <3>5
    <3> QED BY <1>0, <1>4, <1>6, <1>7, <3>6 DEF Window
  <2> QED BY <1>0, <1>1, <1>6, <1>7, <1>8, <2>2, <2>3, <2>4 DEF Progress, Reading
<1>9. CASE ~Opens(file, i, headerBytes, Piece(file, blob, i)) /\ Fails /\ UNCHANGED <<i, written>>
  <2>1. i \in 0..(ChunkCount(file.size) - 1)
    BY <1>1, StreamNumbers, FileNumbers
  <2>2. Refused(file, blob)
    BY <1>1, <1>9, <2>1, OpensInMemory DEF HasHeader, Refused
  <2> QED BY <1>0, <1>1, <1>6, <1>7, <1>9, <2>2 DEF Progress, Reading, Fails, Refused
<1> QED BY <1>5, <1>8, <1>9 DEF DecryptChunk

\* A download that breaks says nothing of the blob.
LEMMA BreaksProgress ==
  ASSUME Counters, Progress, Breaks \/ UNCHANGED vars
  PROVE  Progress'
<1>0. UNCHANGED <<file, blob, i, chunks, totalBuffered, fetchOffset, headerBytes>>
  BY DEF Breaks, vars
<1>1. Stored' = Stored /\ Used' = Used
  BY <1>0 DEF Stored, Used
<1>2. CASE Breaks
  BY <1>0, <1>1, <1>2 DEF Breaks, Fails, Progress, Reading, HasHeader
<1>3. CASE UNCHANGED vars
  <2>1. pc' = pc /\ broken' = broken
    BY <1>3 DEF vars
  <2>2. Window => Window'
    BY <1>0, <1>1 DEF Window
  <2> QED BY <1>0, <1>1, <2>1, <2>2 DEF Progress, HasHeader, Opened, Refused, Reading
<1> QED BY <1>2, <1>3

\* Every step keeps it.
LEMMA ProgressStep == Counters /\ Progress /\ [Next]_vars => Progress'
BY FileInfoProgress, FetchRangeProgress, EndOfFileProgress, ReadPrefixProgress, ReadHeaderProgress,
   DecryptChunkProgress, BreaksProgress DEF Next, Step
-----------------------------------------------------------------------------
(**************************************************************************)
(* What the encryptor puts out can be found                                *)
(**************************************************************************)

\* Bytes of an encrypted file.
Bytes == Int \X Int

\* What the encryptor has put out after the header and n chunks.
Sealed(f, n) == FlattenSeq([k \in 1..n |-> Seal(f, k - 1)])

\* Where it begins to put chunk k.
SealedAt(k) == k * (CHUNK_SIZE + AUTH_TAG_LENGTH)

\* A sealed chunk is bytes.
LEMMA SealType ==
  ASSUME NEW f \in FileShape, NEW k \in Nat, k < ChunkCount(f.size)
  PROVE  Seal(f, k) \in Seq(Bytes)
<1>1. Len(PlainChunk(f, k)) + AUTH_TAG_LENGTH \in Nat
  <2>1. Plain(f) \in Seq(Nat)
    BY FileNumbers DEF Plain
  <2>2. PlainChunk(f, k) \in Seq(Nat)
    <3>1. PICK start \in Nat, end \in Nat : start = k * CHUNK_SIZE /\ end = (k + 1) * CHUNK_SIZE
      BY FileNumbers, LastChunk, ChunkFits
    <3>2. (IF end < Len(Plain(f)) THEN end ELSE Len(Plain(f))) \in 0..Len(Plain(f))
      BY <2>1
    <3> QED BY <2>1, <3>1, <3>2 DEF PlainChunk, Slice
  <2> QED BY <2>2, FileNumbers
<1>2. \A n \in 1..(Len(PlainChunk(f, k)) + AUTH_TAG_LENGTH) : <<k, n>> \in Bytes
  BY <1>1 DEF Bytes
<1> QED BY <1>1, <1>2 DEF Seal

\* Chunk n is put after the ones before it.
LEMMA SealedGrows ==
  ASSUME NEW f \in FileShape, NEW n \in Nat, n < ChunkCount(f.size)
  PROVE  /\ Sealed(f, n) \in Seq(Bytes)
         /\ Sealed(f, n + 1) = Sealed(f, n) \o Seal(f, n)
<1> DEFINE seals(m) == [k \in 1..m |-> Seal(f, k - 1)]
<1>1. ASSUME NEW k \in Nat, k < ChunkCount(f.size) PROVE Seal(f, k) \in Seq(Bytes)
  BY <1>1, SealType
<1>2. ASSUME NEW k \in 1..(n + 1) PROVE Seal(f, k - 1) \in Seq(Bytes)
  <2>1. k - 1 \in Nat /\ k - 1 < ChunkCount(f.size)
    BY FileNumbers
  <2> QED BY <1>1, <2>1
<1>3. seals(n) \in Seq(Seq(Bytes)) /\ Len(seals(n)) = n
  BY <1>2
<1>4. seals(n + 1) \in Seq(Seq(Bytes)) /\ Len(seals(n + 1)) = n + 1
  BY <1>2
<1>5. seals(n + 1) = Append(seals(n), Seal(f, n))
  <2> DEFINE s == seals(n)
             t == seals(n + 1)
  <2>1. \A k \in 1..n : t[k] = s[k]
    OBVIOUS
  <2>2. t[n + 1] = Seal(f, n)
    <3>1. n + 1 - 1 = n /\ n + 1 \in 1..(n + 1)
      OBVIOUS
    <3> QED BY <3>1
  <2>3. s \in Seq(Seq(Bytes)) /\ Len(s) = n /\ t \in Seq(Seq(Bytes)) /\ Len(t) = n + 1
    BY <1>3, <1>4
  <2> HIDE DEF seals, s, t
  <2>4. t = Append(s, t[n + 1])
    BY <2>1, <2>3
  <2> QED BY <2>2, <2>4 DEF s, t
<1>6. Seal(f, n) \in Seq(Bytes)
  BY <1>1
<1> HIDE DEF seals
<1>7. FlattenSeq(seals(n)) \in Seq(Bytes)
  BY <1>3, FlattenType
<1>8. FlattenSeq(seals(n + 1)) = FlattenSeq(seals(n)) \o Seal(f, n)
  BY <1>3, <1>5, <1>6, FlattenAppend
<1> QED BY <1>7, <1>8 DEF Sealed, seals

\* Where a decryptor looks for chunk k there is chunk k.
Found(f, bytes, k) ==
  /\ SealedAt(k) + SealedLength(f.size, k) <= Len(bytes)
  /\ SubSeq(bytes, SealedAt(k) + 1, SealedAt(k) + SealedLength(f.size, k)) = Seal(f, k)

\* It stays there when more follows.
LEMMA FoundStays ==
  ASSUME NEW f \in FileShape, NEW bytes \in Seq(Bytes), NEW more \in Seq(Bytes),
         NEW k \in Nat, k < ChunkCount(f.size), Found(f, bytes, k)
  PROVE  Found(f, bytes \o more, k)
<1>1. PICK at \in Nat, length \in Nat : at = SealedAt(k) /\ length = SealedLength(f.size, k) /\ length > 0
  <2>1. SealedAt(k) \in Nat
    BY FileNumbers DEF SealedAt
  <2> QED BY <2>1, FileNumbers, ChunkFits, SealLength
<1>2. at + length <= Len(bytes) /\ SubSeq(bytes, at + 1, at + length) = Seal(f, k)
  BY <1>1 DEF Found
<1>3. Len(bytes \o more) = Len(bytes) + Len(more)
  OBVIOUS
<1>4. at + length <= Len(bytes \o more)
  BY <1>2, <1>3
<1>5. SubSeq(bytes \o more, at + 1, at + length) = SubSeq(bytes, at + 1, at + length)
  <2>1. at + 1 \in 1..Len(bytes) /\ at + length \in 1..Len(bytes)
    <3>1. PICK total \in Nat : total = Len(bytes)
      OBVIOUS
    <3>2. at + length <= total
      BY <1>2, <3>1
    <3> QED BY <1>1, <3>1, <3>2
  <2> QED BY <2>1, SubSeqOfConcat1
<1> QED BY <1>1, <1>2, <1>4, <1>5 DEF Found

\* All the chunks put out can be found.
LEMMA SealedIsFound ==
  ASSUME NEW f \in FileShape
  PROVE  \A n \in 0..ChunkCount(f.size) :
           /\ Sealed(f, n) \in Seq(Bytes)
           /\ n < ChunkCount(f.size) => Len(Sealed(f, n)) = SealedAt(n)
           /\ \A k \in 0..(n - 1) : Found(f, Sealed(f, n), k)
<1> DEFINE Good(n) == /\ Sealed(f, n) \in Seq(Bytes)
                      /\ n < ChunkCount(f.size) => Len(Sealed(f, n)) = SealedAt(n)
                      /\ \A k \in 0..(n - 1) : Found(f, Sealed(f, n), k)
           T == {n \in Nat : n <= ChunkCount(f.size) => Good(n)}
<1>1. 0 \in T
  <2>1. Sealed(f, 0) = <<>>
    <3>1. [k \in 1..0 |-> Seal(f, k - 1)] = <<>>
      OBVIOUS
    <3>2. FlattenSeq(<<>>) = <<>>
      BY DEF FlattenSeq
    <3> QED BY <3>1, <3>2 DEF Sealed
  <2>2. SealedAt(0) = 0
    BY FileNumbers DEF SealedAt
  <2>3. <<>> \in Seq(Bytes) /\ Len(<<>>) = 0 /\ 0..(0 - 1) = {}
    OBVIOUS
  <2>4. Good(0)
    BY <2>1, <2>2, <2>3
  <2> HIDE DEF Good
  <2> QED BY <2>4
<1>2. ASSUME NEW n \in Nat, n \in T PROVE n + 1 \in T
  <2> SUFFICES ASSUME n + 1 <= ChunkCount(f.size) PROVE Good(n + 1)
    OBVIOUS
  <2>0. n < ChunkCount(f.size) /\ n <= ChunkCount(f.size)
    BY FileNumbers
  <2>1. Good(n)
    BY <1>2, <2>0
  <2>2. PICK old \in Seq(Bytes), new \in Seq(Bytes) : old = Sealed(f, n) /\ new = Seal(f, n)
    BY <2>0, SealedGrows, SealType
  <2>3. Sealed(f, n + 1) = old \o new
    BY <2>0, <2>2, SealedGrows
  <2>4. PICK at \in Nat, length \in Nat : at = SealedAt(n) /\ length = SealedLength(f.size, n)
    <3>1. SealedAt(n) \in Nat
      BY FileNumbers DEF SealedAt
    <3> QED BY <2>0, <3>1, FileNumbers, ChunkFits
  <2>5. Len(old) = at /\ Len(new) = length /\ length > 0
    BY <2>0, <2>1, <2>2, <2>4, SealLength
  <2>6. Len(old \o new) = at + length /\ old \o new \in Seq(Bytes)
    BY <2>5
  <2>7. n + 1 < ChunkCount(f.size) => Len(Sealed(f, n + 1)) = SealedAt(n + 1)
    <3> SUFFICES ASSUME n + 1 < ChunkCount(f.size) PROVE at + length = SealedAt(n + 1)
      BY <2>3, <2>6
    <3>1. n /= ChunkCount(f.size) - 1
      BY FileNumbers
    <3>2. length = CHUNK_SIZE + AUTH_TAG_LENGTH
      BY <2>0, <2>4, <3>1, SealLength
    <3>3. SealedAt(n + 1) = SealedAt(n) + (CHUNK_SIZE + AUTH_TAG_LENGTH)
      <4>1. PICK whole \in Nat : whole = CHUNK_SIZE + AUTH_TAG_LENGTH
        BY FileNumbers
      <4>2. (n + 1) * whole = n * whole + whole
        OBVIOUS
      <4> QED BY <4>1, <4>2 DEF SealedAt
    <3> QED BY <2>4, <3>2, <3>3
  <2>8. Found(f, old \o new, n)
    <3>1. SubSeq(old \o new, at + 1, at + length) = new
      BY <2>5, <2>6
    <3>2. at + length <= Len(old \o new)
      BY <2>6
    <3> QED BY <2>2, <2>4, <3>1, <3>2 DEF Found
  <2>9. ASSUME NEW k \in 0..(n - 1) PROVE Found(f, old \o new, k)
    <3>1. k \in Nat /\ k < ChunkCount(f.size)
      BY <2>0, FileNumbers
    <3>2. Found(f, old, k)
      BY <2>1, <2>2
    <3> QED BY <3>1, <3>2, FoundStays
  <2>10. \A k \in 0..(n + 1 - 1) : Found(f, old \o new, k)
    <3>1. \A k \in 0..(n + 1 - 1) : k = n \/ k \in 0..(n - 1)
      OBVIOUS
    <3> QED BY <2>8, <2>9, <3>1
  <2>11. Sealed(f, n + 1) \in Seq(Bytes)
    BY <2>3, <2>6
  <2>12. \A k \in 0..(n + 1 - 1) : Found(f, Sealed(f, n + 1), k)
    BY <2>3, <2>10
  <2> QED BY <2>7, <2>11, <2>12
<1> HIDE DEF T
<1>3. Nat \subseteq T
  BY <1>1, <1>2, SetInduction
<1> SUFFICES ASSUME NEW n \in 0..ChunkCount(f.size) PROVE Good(n)
  OBVIOUS
<1>4. n \in Nat /\ n <= ChunkCount(f.size)
  BY FileNumbers
<1> HIDE DEF Good
<1> QED BY <1>3, <1>4 DEF T

\* An encrypted file is its header and its chunks.
LEMMA EncryptedIs ==
  ASSUME NEW f \in FileShape
  PROVE  /\ EncryptFile(f) = HeaderBytes(f) \o Sealed(f, ChunkCount(f.size))
         /\ HeaderBytes(f) \in Seq(Bytes) /\ Len(HeaderBytes(f)) = HeaderLength(f)
         /\ Sealed(f, ChunkCount(f.size)) \in Seq(Bytes)
<1>1. HeaderBytes(f) \in Seq(Bytes) /\ Len(HeaderBytes(f)) = HeaderLength(f)
  <2>1. PICK length \in Nat : length = HeaderLength(f)
    BY FileNumbers
  <2>2. \A n \in 1..length : <<-1, n>> \in Bytes
    BY DEF Bytes
  <2>3. [n \in 1..length |-> <<-1, n>>] \in Seq(Bytes)
    BY <2>2
  <2>4. Len([n \in 1..length |-> <<-1, n>>]) = length
    OBVIOUS
  <2> QED BY <2>1, <2>3, <2>4 DEF HeaderBytes
<1>2. ChunkCount(f.size) \in 0..ChunkCount(f.size)
  BY FileNumbers
<1>3. Sealed(f, ChunkCount(f.size)) \in Seq(Bytes)
  BY <1>2, SealedIsFound
<1> QED BY <1>1, <1>3 DEF EncryptFile, Sealed

\* Where a chunk is put, and how long it is.
LEMMA ChunkPlace ==
  ASSUME NEW f \in FileShape, NEW k \in 0..(ChunkCount(f.size) - 1)
  PROVE  /\ k \in Nat /\ k < ChunkCount(f.size) /\ ChunkCount(f.size) \in 0..ChunkCount(f.size)
         /\ SealedAt(k) \in Nat
         /\ SealedLength(f.size, k) \in Nat /\ SealedLength(f.size, k) > 0
<1>1. PICK count \in Nat : count = ChunkCount(f.size)
  BY FileNumbers
<1>2. k \in Nat /\ k < count /\ count \in 0..count
  BY <1>1
<1>3. PICK step \in Nat : step = CHUNK_SIZE + AUTH_TAG_LENGTH
  BY FileNumbers
<1>4. k * step \in Nat
  BY <1>2, <1>3
<1>5. SealedAt(k) \in Nat
  BY <1>3, <1>4 DEF SealedAt
<1>6. SealedLength(f.size, k) \in Nat /\ SealedLength(f.size, k) > 0
  BY <1>1, <1>2, FileNumbers, ChunkFits, SealLength
<1> QED BY <1>1, <1>2, <1>5, <1>6

\* What lies behind the header is what lay there before the header was put in front.
Behind(header, body, at, size) ==
  Slice(header \o body, Len(header) + at, Len(header) + at + size) = SubSeq(body, at + 1, at + size)

LEMMA BehindHeader ==
  ASSUME NEW header \in Seq(Bytes), NEW body \in Seq(Bytes), NEW at \in Nat, NEW size \in Nat,
         size > 0, at + size <= Len(body)
  PROVE  Behind(header, body, at, size)
<1>1. PICK length \in Nat, more \in Nat : length = Len(header) /\ more = Len(body)
  OBVIOUS
<1>2. Len(header \o body) = length + more
  BY <1>1
<1>3. at + size <= more
  BY <1>1
<1>4. /\ length + at + 1 \in length+1..length+more
      /\ length + at + size \in length+1..length+more
      /\ length + at + 1 - length = at + 1 /\ length + at + size - length = at + size
      /\ (IF length + at + size < length + more THEN length + at + size ELSE length + more)
           = length + at + size
  BY <1>3
<1>5. SubSeq(header \o body, length + at + 1, length + at + size) = SubSeq(body, at + 1, at + size)
  BY <1>1, <1>4, SubSeqOfConcat2
<1> QED BY <1>1, <1>2, <1>4, <1>5 DEF Behind, Slice

\* decryptFile finds the header and every chunk in what encryptFile made.
LEMMA PiecesAreSealed ==
  ASSUME NEW f \in FileShape
  PROVE  /\ HeaderIn(f, EncryptFile(f)) = HeaderBytes(f)
         /\ \A k \in 0..(ChunkCount(f.size) - 1) : Piece(f, EncryptFile(f), k) = Seal(f, k)
<1>1. PICK header \in Seq(Bytes), body \in Seq(Bytes), length \in Nat :
        /\ header = HeaderBytes(f) /\ body = Sealed(f, ChunkCount(f.size)) /\ length = HeaderLength(f)
        /\ length >= 2
  BY EncryptedIs, FileNumbers
<1>2. EncryptFile(f) = header \o body /\ Len(header) = length
  BY <1>1, EncryptedIs
<1>3. PICK more \in Nat : more = Len(body)
  OBVIOUS
<1>4. PICK total \in Nat : total = Len(header \o body) /\ total = length + more
  <2>1. Len(header \o body) = Len(header) + Len(body)
    OBVIOUS
  <2> QED BY <1>2, <1>3, <2>1
<1>5. HeaderIn(f, header \o body) = header
  <2>1. (IF length < Len(header \o body) THEN length ELSE Len(header \o body)) = length
    BY <1>3, <1>4
  <2>2. SubSeq(header \o body, 1, length) = SubSeq(header, 1, length)
    <3>1. 1 \in 1..Len(header) /\ length \in 1..Len(header)
      BY <1>1, <1>2
    <3> QED BY <3>1, SubSeqOfConcat1
  <2>3. SubSeq(header, 1, length) = header
    BY <1>2, SubSeqFull
  <2>4. Slice(header \o body, 0, length) = SubSeq(header \o body, 1, length)
    <3>1. 0 + 1 = 1
      OBVIOUS
    <3> QED BY <2>1, <3>1 DEF Slice
  <2> QED BY <1>1, <2>2, <2>3, <2>4 DEF HeaderIn
<1>6. ASSUME NEW k \in 0..(ChunkCount(f.size) - 1)
      PROVE  Piece(f, header \o body, k) = Seal(f, k)
  <2>1. PICK at \in Nat, size \in Nat : at = SealedAt(k) /\ size = SealedLength(f.size, k) /\ size > 0
    BY ChunkPlace
  <2>2. Found(f, body, k)
    BY <1>1, ChunkPlace, SealedIsFound
  <2>3. at + size <= Len(body) /\ SubSeq(body, at + 1, at + size) = Seal(f, k)
    BY <2>1, <2>2 DEF Found
  <2>4. Slice(header \o body, Len(header) + at, Len(header) + at + size) = SubSeq(body, at + 1, at + size)
    <3>1. Behind(header, body, at, size)
      BY <2>1, <2>3, BehindHeader
    <3> QED BY <3>1 DEF Behind
  <2>5. PieceAt(f, k) = length + at
    BY <1>1, <2>1 DEF PieceAt, SealedAt
  <2> QED BY <1>2, <2>1, <2>3, <2>4, <2>5 DEF Piece
<1> QED BY <1>1, <1>2, <1>5, <1>6

\* decryptFile undoes encryptFile, whatever the size of the file: also when the chunks come
\* out even, and when there is none.  Only a name that is too long in bytes prevents it.
THEOREM DecryptsWhatWasEncrypted ==
  ASSUME NEW f \in FileShape, f.nameBytes <= MAX_FILENAME_LENGTH
  PROVE  DecryptFile(f, EncryptFile(f)) = [ok |-> TRUE, data |-> Plain(f)]
<1>1. /\ HeaderIn(f, EncryptFile(f)) = HeaderBytes(f)
      /\ \A k \in 0..(ChunkCount(f.size) - 1) : Piece(f, EncryptFile(f), k) = Seal(f, k)
  BY PiecesAreSealed
<1>2. Parses(f, HeaderBytes(f))
  BY EncryptedIs, FileNumbers DEF Parses, HeaderLength
<1>3. DecryptFile(f, EncryptFile(f)).ok
  BY <1>1, <1>2, OpensInMemory DEF Opens
<1> QED BY <1>3 DEF DecryptFile
-----------------------------------------------------------------------------
(**************************************************************************)
(* The theorems                                                            *)
(**************************************************************************)

\* What holds of every step.
Streaming == Counters /\ WrittenInOrder /\ Progress

\* It always does.
LEMMA StreamingAlways == Spec => []Streaming
<1>1. Init => Streaming
  BY WrittenInit, CountersInit, ProgressInit DEF Streaming
<1>2. Streaming /\ [Next]_vars => Streaming'
  BY CountersStep, WrittenStep, ProgressStep DEF Streaming
<1> QED BY <1>1, <1>2, PTL DEF Spec

\* The buffers hold bytes of the blob, the counters stay inside it, and no more is written
\* than the file has.
THEOREM StreamTypeCorrect == Spec => []TypeOK
<1>1. Streaming => TypeOK
  <2> SUFFICES ASSUME Streaming PROVE TypeOK
    BY DEF Streaming
  <2>0. Counters /\ WrittenInOrder /\ Progress
    BY DEF Streaming
  <2>1. i \in 0..ChunkCount(file.size)
    BY <2>0, StreamNumbers, FileNumbers DEF Progress
  <2>2. \A k \in DOMAIN chunks : \A n \in DOMAIN chunks[k] : chunks[k][n] \in Stored
    BY <2>0 DEF Progress
  <2>3. totalBuffered \in 0..totalSize /\ fetchOffset \in 0..totalSize
    BY <2>0, StreamNumbers DEF Progress, totalSize
  <2>4. Len(headerBytes) \in {0, HeaderLength(file)}
    BY <2>0, UsedIsAt DEF Progress
  <2>5. Len(written) <= file.size
    <3>0. PICK size \in Nat : size = file.size
      BY <2>0, StreamNumbers, FileNumbers
    <3>1. Plain(file) \in Seq(Nat) /\ Len(Plain(file)) = file.size /\ file.size \in Nat
      <4>1. [n \in 1..size |-> n - 1] \in Seq(Nat) /\ Len([n \in 1..size |-> n - 1]) = size
        OBVIOUS
      <4> QED BY <3>0, <4>1 DEF Plain
    <3>2. PICK end \in Nat : end = i * CHUNK_SIZE
      <4>1. i \in Nat /\ CHUNK_SIZE \in Nat
        BY <2>0, StreamNumbers, FileNumbers
      <4> QED BY <4>1
    <3>3. written = SubSeq(Plain(file), 0 + 1, IF end < file.size THEN end ELSE file.size)
      BY <2>0, <3>1, <3>2 DEF WrittenInOrder, Slice
    <3> QED BY <3>1, <3>2, <3>3
  <2> QED BY <2>0, <2>1, <2>2, <2>3, <2>4, <2>5 DEF TypeOK, Counters, Progress, Stored
<1> QED BY <1>1, StreamingAlways, PTL

\* Whatever the sizes of ranges and chunks, the buffers hold exactly the bytes of the blob
\* that were fetched and not used.
THEOREM BufferIsExact == Spec => []BufferIsWindow
<1>1. Streaming => BufferIsWindow
  <2> SUFFICES ASSUME Streaming, pc \in Reading
               PROVE  /\ FlattenSeq(chunks) = SubSeq(blob, Used + 1, fetchOffset)
                      /\ totalBuffered = Len(FlattenSeq(chunks))
    BY DEF BufferIsWindow, Used
  <2>1. Used \in Nat /\ Used <= fetchOffset /\ totalBuffered = fetchOffset - Used
        /\ FlattenSeq(chunks) = SubSeq(blob, Used + 1, fetchOffset)
    BY DEF Streaming, Progress, Window, Holds
  <2>2. Len(SubSeq(blob, Used + 1, fetchOffset)) = fetchOffset - Used
    BY <2>1, StreamNumbers DEF Streaming
  <2> QED BY <2>1, <2>2
<1> QED BY <1>1, StreamingAlways, PTL

\* Of any blob, cut short anywhere, the streaming decryptor and decryptFile make the same,
\* unless a request fails; but for an empty file cut within the IV.
THEOREM StreamsAsInMemory == Spec => []SameAsInMemory
<1>1. Streaming => SameAsInMemory
  <2> SUFFICES ASSUME Streaming PROVE SameAsInMemory
    OBVIOUS
  <2>0. Counters /\ WrittenInOrder /\ Progress
    BY DEF Streaming
  <2>1. ASSUME pc = "done"
        PROVE  DecryptFile(file, blob).ok /\ written = DecryptFile(file, blob).data
    <3>1. /\ HasHeader /\ Opened(i) /\ file.nameBytes <= MAX_FILENAME_LENGTH
          /\ i = ChunkCount(file.size)
      BY <2>0, <2>1 DEF Progress, Counters
    <3>2. Parses(file, headerBytes)
      <4>1. PICK name \in Nat, fields \in Nat, iv \in Nat :
              name = file.nameBytes /\ fields = FieldsLength /\ iv = IV_LENGTH
        BY <2>0, StreamNumbers, FileNumbers
      <4>2. Len(headerBytes) = 2 + name + fields + iv
        BY <2>0, <3>1, <4>1, UsedIsAt DEF HeaderLength
      <4>3. Len(headerBytes) >= 2 + name + fields
        BY <4>2
      <4> QED BY <4>1, <4>3 DEF Parses
    <3>3. DecryptFile(file, blob).ok
      BY <3>1, <3>2, OpensInMemory DEF HasHeader, Opened
    <3>4. written = Plain(file)
      BY <2>0, <2>1, WrittenWhole
    <3> QED BY <3>3, <3>4, OpensInMemory
  <2>2. pc = "failed" /\ ~broken => Refused(file, blob)
    BY <2>0 DEF Progress
  <2> QED BY <2>1, <2>2 DEF SameAsInMemory, Refused
<1> QED BY <1>1, StreamingAlways, PTL

\* A file that was uploaded whole can be downloaded, if its name is short enough in bytes
\* and no request fails.
THEOREM WholeFilesDownload == Spec => []WholeFileOpens
<1>1. Streaming => WholeFileOpens
  <2> SUFFICES ASSUME Streaming, pc = "failed", blob = EncryptFile(file),
                      file.nameBytes <= MAX_FILENAME_LENGTH, ~broken
               PROVE  FALSE
    BY DEF WholeFileOpens
  <2>1. file \in FileShape /\ Refused(file, blob)
    BY StreamNumbers DEF Streaming, Progress
  <2>2. DecryptFile(file, blob).ok
    BY <2>1, DecryptsWhatWasEncrypted
  <2> QED BY <2>1, <2>2 DEF Refused
<1> QED BY <1>1, StreamingAlways, PTL

=============================================================================
