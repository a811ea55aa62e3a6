------------------------------- MODULE MCServer -------------------------------
(* Server on small sets, for TLC: every file is uploaded by the same client. *)
EXTENDS Server, TLC

CONSTANT Client

OneIP == {Client}
AllFromClient == [f \in FileIDs |-> Client]

Symmetry == Permutations(FileIDs) \cup Permutations(Hashes)

=============================================================================
