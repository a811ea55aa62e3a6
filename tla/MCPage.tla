-------------------------------- MODULE MCPage --------------------------------
(* PendingPage on small sets, for TLC: one client. *)
EXTENDS PendingPage

CONSTANT Client

OneIP == {Client}
AllFromClient == [f \in FileIDs |-> Client]

=============================================================================
