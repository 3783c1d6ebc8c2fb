---------------------------- MODULE MCSyncTask ----------------------------
(* Instances of SyncTask for TLC. *)
EXTENDS SyncTask, TLC

CONSTANTS o1, o2, o3, p1

Case(md, fs, bound) ==
    [mode |-> md, auto |-> {}, pulls |-> {}, retry |-> FALSE,
     faults |-> fs, messages |-> bound]

PushPush == (o1 :> "PUSH" @@ o2 :> "PUSH")
Both     == (o1 :> "PUSH_AND_PULL")

\* two requests in turn
BothThenPush == Case(Both @@ (o2 :> "PUSH"), {"error", "comm"}, 2)
\* two pushes, of which the user stops one while the peer goes away
Stopped == Case(PushPush, {"stop", "offline"}, 1)
\* two pushes that fail on the way
Failing == Case(PushPush, {"send", "permission", "write", "timer"}, 1)
\* a request while the peer pulls
Revocable == {"ekey", "send", "permission"}
Response == [Case(Both, Revocable, 3) EXCEPT !.pulls = {p1}]
PullBoth == [Case(o1 :> "PULL", Revocable, 3) EXCEPT !.pulls = {p1}]
Control  == Case(o1 :> "SUBSCRIBE_QUERY", {"error", "permission", "comm", "send", "timer"}, 3)
\* two automatic pushes, retried
Auto     == [Case(PushPush, {"comm"}, 1) EXCEPT !.auto = {o1, o2}]

\* two pushes and nothing else
Meeting  == Case(PushPush, {}, 1)

AllCases == {BothThenPush, Stopped, Failing, Response, PullBoth, Control, Auto, Meeting}

\* a push that succeeds, one that is lost, one that is skipped
SkipCases == {Case(PushPush @@ (o3 :> "PUSH"), {"write"}, 2)}
============================================================================
