----------------------------- MODULE StreamDecrypt -----------------------------
(***************************************************************************)
(* decryptWithRangeRequests (web/js/crypto/stream-decrypt.js): a large     *)
(* file is fetched piece by piece by HTTP Range requests, put together in  *)
(* a list of buffers, cut into sealed chunks, opened and written to the    *)
(* user's disk as it comes.  A step is what happens between two awaits.    *)
(*                                                                         *)
(* The blob is what the server stores.  It may be cut short: the upload's  *)
(* completion only logs a size that differs from the announced one.        *)
(***************************************************************************)
EXTENDS EncryptedFile

CONSTANTS
  FETCH_CHUNK_SIZE,   \* bytes of one Range request (10 chunks and tags)
  InfoLength,         \* bytes getFileInfoFromRange asks for (2048)
  Files               \* the files, as FileShape records

\* The first request is long enough for the header of any name that is allowed: in the
\* code 2048 bytes, for 1050.
ASSUME StreamAssumption ==
  /\ FETCH_CHUNK_SIZE \in Nat \ {0}
  /\ InfoLength \in Nat
  /\ InfoLength >= 2 + MAX_FILENAME_LENGTH + FieldsLength + IV_LENGTH
  /\ Files \subseteq FileShape

VARIABLES
  file,           \* the file encrypted
  blob,           \* the bytes stored, which a HEAD request has told the length of
  pc,             \* what the decryptor is about to do
  i,              \* the loop's chunk index
  chunks,         \* fetched and not consumed: a list of buffers
  totalBuffered,  \* bytes in chunks, counted along
  fetchOffset,    \* where the next Range request begins
  headerBytes,    \* the header, once consumed
  written,        \* what the output stream has received
  broken          \* has a request or a write failed?

vars == <<file, blob, pc, i, chunks, totalBuffered, fetchOffset, headerBytes, written, broken>>

totalSize == Len(blob)

Reading == {"prefix", "header", "chunk"}

\* The buffers hold bytes of the blob, the counters stay inside it, and only plaintext
\* is written.
TypeOK ==
  /\ file \in Files
  /\ pc \in {"info", "done", "failed"} \cup Reading
  /\ i \in 0..ChunkCount(file.size)
  /\ \A k \in DOMAIN chunks : \A n \in DOMAIN chunks[k] : chunks[k][n] \in {blob[p] : p \in DOMAIN blob}
  /\ totalBuffered \in 0..totalSize
  /\ fetchOffset \in 0..totalSize
  /\ Len(headerBytes) \in {0, HeaderLength(file)}
  /\ Len(written) <= file.size
  /\ broken \in BOOLEAN

Init ==
  /\ file \in {f \in Files : Encryptable(f)}
  /\ blob \in Prefixes(EncryptFile(file))
  /\ pc = "info"
  /\ i = 0
  /\ chunks = <<>>
  /\ totalBuffered = 0
  /\ fetchOffset = 0
  /\ headerBytes = <<>>
  /\ written = <<>>
  /\ broken = FALSE

-----------------------------------------------------------------------------
(***************************************************************************)
(* The list of buffers                                                     *)
(***************************************************************************)

\* Fault: the buffer used in part stays whole
ConsumeWhole(list, count) ==
  LET use(acc, buffer) ==
        LET needed == count - Len(acc.taken) IN
        IF Len(buffer) <= needed
        THEN [taken |-> acc.taken \o buffer, rest |-> acc.rest]
        ELSE [taken |-> acc.taken \o SubSeq(buffer, 1, needed), rest |-> Append(acc.rest, buffer)]
  IN FoldLeft(use, [taken |-> <<>>, rest |-> <<>>], list)

\* consumeBytes: buffers are used up from the front, the last one in part.  The
\* result has a byte for every byte asked for that is there
ConsumeBytes(list, count) ==
  LET use(acc, buffer) ==
        LET needed == count - Len(acc.taken) IN
        IF Len(buffer) <= needed
        THEN [taken |-> acc.taken \o buffer, rest |-> acc.rest]
        ELSE [taken |-> acc.taken \o SubSeq(buffer, 1, needed),
              rest  |-> Append(acc.rest, SubSeq(buffer, needed + 1, Len(buffer)))]
  IN FoldLeft(use, [taken |-> <<>>, rest |-> <<>>], list)

\* What ensureBytes is called for at each place
Needed ==
  CASE pc = "prefix" -> 2
    [] pc = "header" -> HeaderLength(file)
    [] pc = "chunk"  -> SealedLength(file.size, i)

Ready == pc \in Reading /\ totalBuffered >= Needed

Consume(count) ==
  /\ chunks' = ConsumeBytes(chunks, count).rest
  /\ totalBuffered' = totalBuffered - count

-----------------------------------------------------------------------------
(***************************************************************************)
(* The steps                                                               *)
(***************************************************************************)

Fails == pc' = "failed"

\* downloadWithStreamSaver asks for the file's name first; a server that stores
\* nothing answers 416
FileInfo ==
  /\ pc = "info"
  /\ \/ pc' = "prefix" /\ Len(Slice(blob, 0, InfoLength)) >= HeaderLength(file)
     \/ Fails /\ Len(Slice(blob, 0, InfoLength)) < HeaderLength(file)
  /\ UNCHANGED <<file, blob, i, chunks, totalBuffered, fetchOffset, headerBytes, written, broken>>

\* Fault: the range is not cut at the end of the file
FetchPastEnd ==
  /\ pc \in Reading /\ ~Ready
  /\ fetchOffset < totalSize
  /\ LET end == fetchOffset + FETCH_CHUNK_SIZE
     IN /\ chunks' = Append(chunks, Slice(blob, fetchOffset, end))
        /\ totalBuffered' = totalBuffered + (end - fetchOffset)
        /\ fetchOffset' = end
  /\ UNCHANGED <<file, blob, pc, i, headerBytes, written, broken>>

\* Fault: ranges are fetched while there is still enough in the buffers
FetchAhead ==
  /\ pc \in Reading
  /\ fetchOffset < totalSize
  /\ LET end == IF fetchOffset + FETCH_CHUNK_SIZE < totalSize
                THEN fetchOffset + FETCH_CHUNK_SIZE ELSE totalSize
     IN /\ chunks' = Append(chunks, Slice(blob, fetchOffset, end))
        /\ totalBuffered' = totalBuffered + (end - fetchOffset)
        /\ fetchOffset' = end
  /\ UNCHANGED <<file, blob, pc, i, headerBytes, written, broken>>

\* One turn of ensureBytes' loop: the range is as long as FETCH_CHUNK_SIZE and the
\* rest of the file allow
FetchRange ==
  /\ pc \in Reading /\ ~Ready
  /\ fetchOffset < totalSize
  /\ LET end == IF fetchOffset + FETCH_CHUNK_SIZE < totalSize
                THEN fetchOffset + FETCH_CHUNK_SIZE ELSE totalSize
     IN /\ chunks' = Append(chunks, Slice(blob, fetchOffset, end))
        /\ totalBuffered' = totalBuffered + (end - fetchOffset)
        /\ fetchOffset' = end
  /\ UNCHANGED <<file, blob, pc, i, headerBytes, written, broken>>

\* Fault: the end of the blob is taken for the end of the file
StopQuietly ==
  /\ pc \in Reading /\ ~Ready
  /\ fetchOffset >= totalSize
  /\ pc' = "done"
  /\ UNCHANGED <<file, blob, i, chunks, totalBuffered, fetchOffset, headerBytes, written, broken>>

\* Fault: at the end of the blob the loop goes on waiting for bytes
WaitForMore ==
  /\ pc \in Reading /\ ~Ready
  /\ fetchOffset >= totalSize
  /\ UNCHANGED vars

\* "Unexpected end of file"
EndOfFile ==
  /\ pc \in Reading /\ ~Ready
  /\ fetchOffset >= totalSize
  /\ Fails
  /\ UNCHANGED <<file, blob, i, chunks, totalBuffered, fetchOffset, headerBytes, written, broken>>

\* peekBytes: the two bytes are looked at and stay in the buffer.  What the buffer
\* begins with is the blob's first bytes (BufferIsWindow), so they give the name's
\* length, and the whole header the file's size
ReadPrefix ==
  /\ pc = "prefix" /\ Ready
  /\ \/ pc' = "header" /\ file.nameBytes <= MAX_FILENAME_LENGTH
     \/ Fails /\ file.nameBytes > MAX_FILENAME_LENGTH
  /\ UNCHANGED <<file, blob, i, chunks, totalBuffered, fetchOffset, headerBytes, written, broken>>

ReadHeader ==
  /\ pc = "header" /\ Ready
  /\ headerBytes' = ConsumeBytes(chunks, Needed).taken
  /\ Consume(Needed)
  /\ pc' = IF file.size = 0 THEN "done" ELSE "chunk"
  /\ UNCHANGED <<file, blob, i, fetchOffset, written, broken>>

\* Open chunk i, write it, and go on to the next
DecryptChunk ==
  /\ pc = "chunk" /\ Ready
  /\ Consume(Needed)
  /\ \/ /\ Opens(file, i, headerBytes, ConsumeBytes(chunks, Needed).taken)
        /\ written' = written \o PlainChunk(file, i)
        /\ i' = i + 1
        /\ pc' = IF i + 1 = ChunkCount(file.size) THEN "done" ELSE "chunk"
     \/ /\ ~Opens(file, i, headerBytes, ConsumeBytes(chunks, Needed).taken)
        /\ Fails
        /\ UNCHANGED <<i, written>>
  /\ UNCHANGED <<file, blob, fetchOffset, headerBytes, broken>>

\* A request fails, also because the file expires or is swept during the download,
\* or the output stream does: the stream is aborted
Breaks ==
  /\ pc \in {"info"} \cup Reading
  /\ broken' = TRUE
  /\ Fails
  /\ UNCHANGED <<file, blob, i, chunks, totalBuffered, fetchOffset, headerBytes, written>>

Step == FileInfo \/ FetchRange \/ EndOfFile \/ ReadPrefix \/ ReadHeader \/ DecryptChunk

Next == Step \/ Breaks

Spec == Init /\ [][Next]_vars

\* An await returns in the end
FairSpec == Spec /\ WF_vars(Step)

-----------------------------------------------------------------------------
\* What has been fetched and not used is exactly the part of the blob between what
\* was used and where the next request begins, however requests and chunks overlap:
\* no byte is skipped, fetched twice or used twice.
BufferIsWindow ==
  LET used == Len(headerBytes) + i * (CHUNK_SIZE + AUTH_TAG_LENGTH) IN
  pc \in Reading =>
    /\ FlattenSeq(chunks) = SubSeq(blob, used + 1, fetchOffset)
    /\ totalBuffered = Len(FlattenSeq(chunks))

\* The download of a file of any size holds one Range request and less than one
\* sealed chunk, or header, in memory.
BufferIsBounded ==
  \/ totalBuffered < FETCH_CHUNK_SIZE + CHUNK_SIZE + AUTH_TAG_LENGTH
  \/ totalBuffered < FETCH_CHUNK_SIZE + HeaderLength(file)

\* Streaming gives what decryptFile gives on the same blob: if it completes, the
\* whole plaintext, and if no request failed it completes whenever decryptFile does,
\* but for an empty file cut within the IV, which only streaming refuses.
SameAsInMemory ==
  LET whole == DecryptFile(file, blob) IN
  /\ pc = "done" => whole.ok /\ written = whole.data
  /\ pc = "failed" /\ ~broken => ~whole.ok \/ (file.size = 0 /\ blob /= EncryptFile(file))

\* A file that was uploaded whole can be downloaded: whatever its size, the decryptor
\* cuts the blob where the encryptor put it together, and finds the header, its name
\* if that is short enough in bytes, and every chunk.
WholeFileOpens ==
  pc = "failed" /\ blob = EncryptFile(file) /\ file.nameBytes <= MAX_FILENAME_LENGTH => broken

\* The download comes to an end: the loop never asks for bytes it will not get.
Terminates == <>(pc \in {"done", "failed"})

=============================================================================
