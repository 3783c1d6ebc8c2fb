-------------------------- MODULE MCSingleVerStore --------------------------
(* Instances of SingleVerStore for TLC. *)
EXTENDS SingleVerStore, TLC

CONSTANTS k1, k2, c1, c2, b1

Case(keys, kinds, writes, packets, removes) ==
    [keys |-> keys, kinds |-> kinds, writes |-> writes, packets |-> packets, removes |-> removes,
     policy |-> "lastWin", permit |-> TRUE, faults |-> {}]

Changes == {"put", "delete"}

\* Two connections and a peer write one key.
Shared  == Case({k1}, Changes, 2, 1, 0)
\* Transactions over two keys; a save or a commit fails.
Several == [Case({k1, k2}, Changes, 3, 0, 0) EXCEPT !.faults = {"save", "commit"}]
\* A peer's data comes twice, or is removed, while the key is written here.
Resent  == Case({k1}, {"put"}, 1, 2, 1)
\* Records go between the local table and the public one.
Publish == Case({k1}, {"put", "putLocal", "deleteLocal", "publish", "unpublish"}, 3, 0, 0)
Received == Case({k1}, {"putLocal", "publish", "unpublish"}, 2, 1, 0)
\* This device's data is protected, and peers' data is never written by force.
Deny    == [Case({k1}, {"put"}, 1, 2, 1) EXCEPT !.policy = "deny", !.permit = FALSE]
\* A save fails, of an entry or of a packet; or a commit, which leaves the flag that refuses a publication.
Faulty  == [Case({k1}, {"put"}, 1, 1, 0) EXCEPT !.faults = {"save", "commit"}]
Unsaved == [Case({k1}, {"putLocal", "publish", "unpublish"}, 2, 0, 0) EXCEPT !.faults = {"save", "commit"}]
\* A key gets back what it had before the transaction.
Again   == Case({k1}, Changes, 4, 0, 0)

AllCases == {Shared, Several, Resent, Publish, Received, Deny, Faulty, Unsaved, Again}
Symmetry == Permutations(Conns)
=============================================================================
