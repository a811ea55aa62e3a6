---------------------------- MODULE EncryptedFile ----------------------------
(***************************************************************************)
(* The format of an encrypted file (web/js/crypto): a header, then the     *)
(* chunks of the file, each sealed by AES-GCM under an IV of its own.      *)
(* encryptFile and the in-memory decryptFile are functions here; the       *)
(* streaming decryptor is StreamDecrypt.                                   *)
(*                                                                         *)
(* A byte is what it stands for.  A plaintext byte is its offset in the    *)
(* file; a byte of the header, or of chunk i, is a pair that nothing else  *)
(* has, so that bytes put together wrongly never look right.               *)
(***************************************************************************)
EXTENDS Integers, SequencesExt

CONSTANTS
  CHUNK_SIZE,           \* 1 MiB
  AUTH_TAG_LENGTH,      \* 16
  FieldsLength,         \* chunk size and file size: 12
  IV_LENGTH,            \* 12
  MAX_FILENAME_LENGTH   \* 1024

ASSUME FormatAssumption ==
  /\ CHUNK_SIZE \in Nat \ {0}
  /\ {AUTH_TAG_LENGTH, FieldsLength, IV_LENGTH, MAX_FILENAME_LENGTH} \subseteq Nat

\* A file as the format sees it: its size and its name's length, which the
\* encryptor checks in characters and the decryptors in bytes of UTF-8
FileShape == [size: Nat, nameChars: Nat, nameBytes: Nat]

HeaderLength(file) == 2 + file.nameBytes + FieldsLength + IV_LENGTH

HeaderBytes(file) == [n \in 1..HeaderLength(file) |-> <<-1, n>>]

\* Math.ceil(fileSize / chunkSize)
ChunkCount(size) == (size + CHUNK_SIZE - 1) \div CHUNK_SIZE

\* file.slice(start, end): Blob.slice cuts off at the end
Slice(bytes, start, end) == SubSeq(bytes, start + 1, IF end < Len(bytes) THEN end ELSE Len(bytes))

Plain(file) == [n \in 1..file.size |-> n - 1]

PlainChunk(file, i) ==
  Slice(Plain(file), i * CHUNK_SIZE, (i + 1) * CHUNK_SIZE)

\* crypto.subtle.encrypt under deriveChunkIV(baseIV, i), and for chunk 0 with the
\* header as additional data: external, known only to Opens
Seal(file, i) == [n \in 1..(Len(PlainChunk(file, i)) + AUTH_TAG_LENGTH) |-> <<i, n>>]

\* crypto.subtle.decrypt succeeds on what was sealed under the same IV and with the
\* same additional data, and on nothing else
Opens(file, i, header, sealed) ==
  /\ sealed = Seal(file, i)
  /\ i = 0 => header = HeaderBytes(file)

\* The name is checked by the length of the JavaScript string
Encryptable(file) == file.nameChars <= MAX_FILENAME_LENGTH

EncryptFile(file) ==
  HeaderBytes(file) \o FlattenSeq([k \in 1..ChunkCount(file.size) |-> Seal(file, k - 1)])

\* Fault: the last chunk is the remainder, which is nothing when the chunks come out even
SealedRemainder(size, i) ==
  AUTH_TAG_LENGTH + (IF i = ChunkCount(size) - 1 THEN size % CHUNK_SIZE ELSE CHUNK_SIZE)

\* The size of the sealed chunk i, as both decryptors compute it from the header
SealedLength(size, i) ==
  AUTH_TAG_LENGTH + (IF i = ChunkCount(size) - 1 THEN size - i * CHUNK_SIZE ELSE CHUNK_SIZE)

-----------------------------------------------------------------------------
(***************************************************************************)
(* decryptFile: the blob is whole in memory and is cut into slices         *)
(***************************************************************************)

\* FileHeader.parse throws if the blob ends before the file size; a slice with too
\* short an IV goes unnoticed
Parses(file, header) == Len(header) >= 2 + file.nameBytes + FieldsLength

DecryptFile(file, blob) ==
  LET header == Slice(blob, 0, HeaderLength(file))
      offset(i) == HeaderLength(file) + i * (CHUNK_SIZE + AUTH_TAG_LENGTH)
      chunk(i) == Slice(blob, offset(i), offset(i) + SealedLength(file.size, i))
      ok == /\ file.nameBytes <= MAX_FILENAME_LENGTH
            /\ Parses(file, header)
            /\ \A i \in 0..(ChunkCount(file.size) - 1) : Opens(file, i, header, chunk(i))
  IN [ok |-> ok, data |-> IF ok THEN Plain(file) ELSE <<>>]

=============================================================================
