-------------------------------- MODULE MCRate --------------------------------
(* RateLimiter on small sets, for TLC. *)
EXTENDS RateLimiter

=============================================================================
