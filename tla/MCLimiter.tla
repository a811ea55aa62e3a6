------------------------------ MODULE MCLimiter ------------------------------
(* PendingLimiter on small sets, for TLC. *)
EXTENDS PendingLimiter, TLC

Symmetry == Permutations(FileIDs) \cup Permutations(IPs)

=============================================================================
