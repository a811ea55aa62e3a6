------------------------------- MODULE MCFiles -------------------------------
(* FileService and its downloads on small sets, for TLC. *)
EXTENDS Download, TLC

Symmetry == Permutations(FileIDs)

=============================================================================
