--------------------------- MODULE LastWriterWins ---------------------------
(* What single-version stores that sync with each other promise: each device has a
   view of every key, a write makes a new version, and whatever a device hears
   replaces its view only if it is a later version.  Data of a device may be
   forgotten.  Nothing is said of messages, water marks or timestamps of rows. *)
EXTENDS Integers

CONSTANTS Devices, Keys, Values, Versions, Nobody

VARIABLES
    view,       \* view[d][k]: the version of key k that device d shows
    written     \* all versions ever written, with their keys

NoVersion == [ver |-> 0, by |-> Nobody, value |-> 0]
Record(k, version) == [key |-> k, version |-> version]

Init == view = [d \in Devices |-> [k \in Keys |-> NoVersion]] /\ written = {}

Write(d, k) == \E ver \in Versions, value \in Values :
    LET new == [ver |-> ver, by |-> d, value |-> value] IN
    /\ \A r \in written : r.version.ver < ver
    /\ view' = [view EXCEPT ![d] = [view[d] EXCEPT ![k] = new]]
    /\ written' = written \union {Record(k, new)}

Later(old, new) == IF new.ver > old.ver THEN new ELSE old

\* Versions of other devices come, for any of the keys.
Merge(d) == \E heard \in [Keys -> {NoVersion} \union {r.version : r \in written}] :
    /\ \A k \in Keys : heard[k] = NoVersion \/ (Record(k, heard[k]) \in written /\ heard[k].by # d)
    /\ view' = [view EXCEPT ![d] = [k \in Keys |-> Later(view[d][k], heard[k])]]
    /\ UNCHANGED written

Forget(d, b) ==
    /\ view' = [view EXCEPT ![d] = [k \in Keys |-> IF view[d][k].by = b THEN NoVersion ELSE view[d][k]]]
    /\ UNCHANGED written

Next == \E d \in Devices : (\E k \in Keys : Write(d, k)) \/ Merge(d) \/ (\E b \in Devices \ {d} : Forget(d, b))

Spec == Init /\ [][Next]_<<view, written>>
=============================================================================
