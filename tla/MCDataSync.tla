----------------------------- MODULE MCDataSync -----------------------------
(* Instances of DataSync for TLC.                                          *)
EXTENDS DataSync, TLC

CONSTANTS k1, k2

KeySymmetry == Permutations(Keys)

(* Model bound: the packets and acks on their way at a time, and how far a *)
(* task is followed once it is misled.                                     *)
Quiet ==
    /\ Cardinality(requests) <= 2 /\ Cardinality(acks) <= 2
    /\ Cardinality(requests) + Cardinality(acks) <= 3
    /\ Misled => packetId <= 2
=============================================================================
