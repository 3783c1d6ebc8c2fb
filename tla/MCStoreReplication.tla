------------------------- MODULE MCStoreReplication -------------------------
(* Instances of StoreReplication for TLC. *)
EXTENDS StoreReplication, TLC

CONSTANTS a, b, k1, k2

=============================================================================
