------------------------------ MODULE MCSyncer ------------------------------
(* Instances of Syncer for TLC. *)
EXTENDS Syncer

CONSTANTS o1, o2, d1, d2

Case(k1, ds1, k2, ds2, evs) ==
    [kind    |-> [o \in Ops |-> IF o = o1 THEN k1 ELSE k2],
     devices |-> [o \in Ops |-> IF o = o1 THEN ds1 ELSE ds2],
     events  |-> evs]

\* one call
Alone(k, ds, evs) == Case(k, ds, "none", ds, evs)

\* the syncer is closed, or the user changes, around a call
Closing == {Alone("block", {d1, d2}, {"close"}), Alone("block", {d1, d2}, {"user"}),
            Alone("manual", {d1}, {"stop", "user"})}
\* StopSync and DisableManualSync against two calls
Stopping == {Case("block", {d1}, "manual", {d1}, {"stop"}),
             Case("manual", {d1}, "manual", {d1}, {"disable"}),
             Alone("manual", {d1}, {"stop", "disable", "schedule"})}
\* devices that go offline
Offline == {Alone("block", {d1, d2}, {"offline"}),
            Case("block", {d1}, "auto", {d1}, {"offline"}),
            Case("auto", {d1}, "auto", {d1}, {"offline"})}

AllCases == Closing \union Stopping \union Offline

CloseCases == {Alone("block", {d1}, {"close"})}
=============================================================================
