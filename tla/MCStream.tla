------------------------------- MODULE MCStream -------------------------------
(* StreamDecrypt on small sizes, for TLC. *)
EXTENDS StreamDecrypt

\* Empty, shorter than a chunk, of whole chunks and not; names up to one byte
\* over the limit, and one more that the first request does not cover
SmallFiles == [size: 0..6, nameChars: {1}, nameBytes: {1, 2, 3, 4}]

=============================================================================
