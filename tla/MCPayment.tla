------------------------------ MODULE MCPayment ------------------------------
(* PaymentService on small sets, for TLC. *)
EXTENDS PaymentService, TLC

\* Files, hashes and handlers are only ever compared for equality
Symmetry ==
  Permutations(FileIDs) \cup Permutations(Hashes) \cup Permutations(Requests)

=============================================================================
