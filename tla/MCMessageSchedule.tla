-------------------------- MODULE MCMessageSchedule --------------------------
(* Instances of MessageSchedule for TLC.                                   *)
EXTENDS MessageSchedule, TLC

CONSTANTS t1, t2, none

Data(session, seq, packet) ==
    [session |-> session, seq |-> seq, packet |-> packet]

(* Session 1: a window of two packets, the first of which is sent again    *)
(* with a fresh packet id; then session 2.                                 *)
MCMessages == {Data(1, 1, 1), Data(1, 2, 2), Data(1, 1, 3), Data(2, 1, 5)}

ThreadSymmetry == Permutations({t1, t2})
==============================================================================
