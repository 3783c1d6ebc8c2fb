----------------------------- MODULE MCSendTask -----------------------------
(* Instances of SendTask for TLC. *)
EXTENDS SendTask

CONSTANTS f1, f2, f3, f4, a, b

Send(t, p, n, w) == [target |-> t, prio |-> p, size |-> 1, packets |-> n, wait |-> w]
Unused == Send(a, "LOW", 1, "none")

Case(frames, evs, n) ==
    [frame |-> [f \in Frames |-> IF f = f1 THEN frames[1] ELSE IF f = f2 THEN frames[2]
                                 ELSE IF f = f3 THEN frames[3] ELSE frames[4]],
     events |-> evs, busies |-> n]

\* The queue is full for LOW frames: two more callers wait, one of them for ever.
Full == Case(<<Send(a, "LOW", 1, "nonBlock"), Send(a, "LOW", 1, "timeout"), Send(a, "LOW", 1, "forever"),
               Unused>>, {}, 0)

\* A caller that may overdraw waits beside one that may not.
Overdraft == Case(<<Send(a, "HIGH", 1, "nonBlock"), Send(a, "NORMAL", 1, "nonBlock"),
                    Send(a, "NORMAL", 1, "forever"), Unused>>, {}, 0)

\* Two targets, two priorities, an adapter that is busy at times
Busy == Case(<<Send(a, "HIGH", 2, "nonBlock"), Send(a, "NORMAL", 1, "nonBlock"), Send(b, "NORMAL", 1, "nonBlock"),
               Unused>>, {}, 1)

\* Sends that fail, before and after the adapter was busy
Fails == Case(<<Send(a, "HIGH", 2, "nonBlock"), Send(b, "HIGH", 1, "nonBlock"), Unused, Unused>>, {"fail"}, 2)

\* Finalize while a caller waits
Closing == Case(<<Send(a, "LOW", 1, "nonBlock"), Send(a, "LOW", 1, "timeout"), Unused, Unused>>, {"finalize"}, 1)

\* The queue is filled to its last limit.
Limit == Case(<<Send(a, "HIGH", 1, "nonBlock"), Send(a, "HIGH", 1, "nonBlock"), Send(a, "HIGH", 1, "nonBlock"),
                Send(a, "HIGH", 1, "nonBlock")>>, {}, 0)

\* The local identity is unknown at times.
NoIdentity == Case(<<Send(a, "LOW", 1, "nonBlock"), Send(b, "NORMAL", 1, "timeout"), Unused, Unused>>,
                   {"identity", "pool"}, 0)

AllCases == {Full, Overdraft, Busy, Fails, Closing, Limit, NoIdentity}
=============================================================================
