------------------------------ MODULE SendTask ------------------------------
(* The sending half of the communicator: threads that hand frames to
   CommunicatorAggregator::CreateSendTask, SendTaskScheduler with its queues per
   priority and target, the one thread that runs SendDataRoutine, the adapter's
   OnSendable callback, and Finalize.

   A frame stands for one call of CreateSendTask and for the buffer it passes.  A
   step is a stretch of code under one mutex, or one access of the atomic
   shutdown_.  The adapter (IAdapter) is known by its contract only: SendBytes may
   answer -E_WAIT_RETRY, and then OnSendable is called once for the target.
   Definitions ending in "Mutant" are deliberately wrong variants of the
   definition they precede. *)
EXTENDS Integers, FiniteSets, Sequences

CONSTANTS
    Frames,
    Targets,
    None,
    MaxCapacity,    \* MAX_CAPACITY, in units of the largest frame
    ExtraNormal,    \* EXTRA_CAPACITY_FOR_NORMAL_PRIORITY
    ExtraHigh,      \* EXTRA_CAPACITY_FOR_HIGH_PRIORITY
    Scenarios       \* the frames and events of a run: see SendTaskAssumption

Prios == {"HIGH", "NORMAL", "LOW"}
\* The order of priorityOrder_
Above(p) == CASE p = "HIGH" -> {} [] p = "NORMAL" -> {"HIGH"} [] p = "LOW" -> {"HIGH", "NORMAL"}

ASSUME SendTaskAssumption ==
    /\ None \notin Targets /\ None \notin Frames
    /\ IsFiniteSet(Frames) /\ Frames # {} /\ IsFiniteSet(Targets)
    /\ MaxCapacity \in Nat \ {0} /\ ExtraNormal \in Nat /\ ExtraHigh \in Nat /\ ExtraNormal <= ExtraHigh
    /\ \A s \in Scenarios :
          /\ s.frame \in [Frames -> [target : Targets, prio : Prios, size : Nat \ {0}, packets : Nat \ {0},
                                     wait : {"nonBlock", "timeout", "forever", "none"}]]
          /\ s.events \subseteq {"identity", "pool", "fail", "finalize"}
          /\ s.busies \in Nat     \* bound: how often the adapter becomes unsendable

VARIABLES
    scenario,
    pc,             \* pc[f]: where the thread that calls CreateSendTask for f is
    result,         \* result[f]: what the call returned
    buffer,         \* buffer[f]: who has to free the buffer: "caller", "queue", "nobody" when freed
    ended,          \* ended[f]: how often OnSendEnd was called
    pooled,         \* calls of OnSendEnd that wait in the task pool
    policy, group, order,                         \* policyMap_, taskGroupByPrio_, taskOrderByPrio_
    totalByte, totalTask, delayTask,              \* curTotalSizeByByte_, curTotalSizeByTask_, delayTaskCount_
    count, delayCount,                            \* taskCountByPrio_, taskDelayCountByPrio_
    scheduled, lastTarget, lastPrio,              \* scheduledFlag_, lastSchedule...
    wakingSignal, shutdown,
    sender, task, packet, error,                  \* SendDataRoutine: place, task, packets sent, error
    onSendable,     \* onSendable[t]: where the adapter's callback for t is
    busy, busies,   \* busy[t]: the adapter refuses bytes for t for the time being
    finalizer,      \* where Finalize, then the destructor, is
    missed          \* history: calls that a notification of retryCv_ found not yet waiting

queueVars  == <<policy, group, order, totalByte, totalTask, delayTask, count, delayCount>>
lastVars   == <<scheduled, lastTarget, lastPrio>>
callVars   == <<pc, result>>
frameVars  == <<buffer, ended, pooled>>
senderVars == <<sender, task, packet, error>>
adapterVars == <<onSendable, busy, busies>>
vars == <<scenario, callVars, frameVars, queueVars, lastVars, wakingSignal, shutdown, senderVars,
          adapterVars, finalizer, missed>>

Frame  == scenario.frame
Events == scenario.events
TargetOf(f) == Frame[f].target
PrioOf(f)   == Frame[f].prio

Init ==
    /\ scenario \in Scenarios
    /\ pc = [f \in Frames |-> "idle"]        /\ result = [f \in Frames |-> "none"]
    /\ buffer = [f \in Frames |-> "caller"]  /\ ended = [f \in Frames |-> 0]  /\ pooled = {}
    /\ policy = [t \in Targets |-> "none"]
    /\ group = [p \in Prios |-> [t \in Targets |-> <<>>]]
    /\ order = [p \in Prios |-> <<>>]
    /\ totalByte = 0  /\ totalTask = 0  /\ delayTask = 0
    /\ count = [p \in Prios |-> 0]  /\ delayCount = [p \in Prios |-> 0]
    /\ scheduled = FALSE  /\ lastTarget = None  /\ lastPrio = "LOW"
    /\ wakingSignal = FALSE  /\ shutdown = FALSE
    /\ sender = "loop"  /\ task = None  /\ packet = 0  /\ error = FALSE
    /\ onSendable = [t \in Targets |-> "idle"]
    /\ busy = [t \in Targets |-> FALSE]  /\ busies = 0
    /\ finalizer = "idle"  /\ missed = {}

Goto(f, from, to) == pc[f] = from /\ pc' = [pc EXCEPT ![f] = to]
SendGoto(from, to) == sender = from /\ sender' = to

-----------------------------------------------------------------------------
(* SendTaskScheduler: each operation runs under overallMutex_. *)
ExtraCapacity(p) == CASE p = "HIGH" -> ExtraHigh [] p = "NORMAL" -> ExtraNormal [] p = "LOW" -> 0

HasRoomMutant(f) == totalByte <= MaxCapacity + ExtraCapacity(PrioOf(f))
HasRoom(f) == totalByte < MaxCapacity + ExtraCapacity(PrioOf(f))

AddedDelay(t) == IF policy[t] = "delay" THEN 1 ELSE 0

\* emplace_back on the queue of the target
PushedMutant(seq, f) == <<f>> \o seq
Pushed(seq, f) == Append(seq, f)

\* AddSendTaskIntoSchedule, when there is room
Enqueue(f) ==
    LET t == TargetOf(f)  p == PrioOf(f) IN
    /\ HasRoom(f)
    /\ totalByte' = totalByte + Frame[f].size
    /\ totalTask' = totalTask + 1
    /\ policy' = [policy EXCEPT ![t] = IF @ = "none" THEN "noDelay" ELSE @]
    /\ delayTask' = delayTask + AddedDelay(t)
    /\ delayCount' = [delayCount EXCEPT ![p] = @ + AddedDelay(t)]
    /\ count' = [count EXCEPT ![p] = @ + 1]
    /\ order' = [order EXCEPT ![p] = Append(@, t)]
    /\ group' = [group EXCEPT ![p][t] = Pushed(@, f)]
    /\ buffer' = [buffer EXCEPT ![f] = "queue"]

GetNoDelayTaskCount == totalTask - delayTask

\* The priority that ScheduleDelayTask or ScheduleNoDelayTask settles on
Schedulable(p) == IF delayTask = totalTask THEN count[p] # 0
                  ELSE count[p] # 0 /\ count[p] # delayCount[p]
PrioToSend == CHOOSE p \in Prios : Schedulable(p) /\ \A q \in Above(p) : ~Schedulable(q)

\* The place of the first target of ts in an order list
First(seq, ts) == CHOOSE i \in DOMAIN seq : seq[i] \in ts /\ \A j \in DOMAIN seq : j < i => seq[j] \notin ts

\* The target at the front of the order list, of those not delayed unless all are
FirstTarget(p) ==
    order[p][IF delayTask = totalTask THEN 1 ELSE First(order[p], {t \in Targets : policy[t] = "noDelay"})]

\* ScheduleOutSendTask, when there is a task: the task is shown, not removed.
ScheduleOut ==
    LET p == PrioToSend  t == FirstTarget(PrioToSend) IN
    /\ totalTask # 0
    /\ scheduled' = TRUE  /\ lastPrio' = p  /\ lastTarget' = t

Scheduled(p, t) == group[p][t][1]

RemovedDelayMutant == 0
RemovedDelay == IF policy[lastTarget] = "delay" THEN 1 ELSE 0

\* taskOrderByPrio_ without the first entry of the target
OrderWithout(seq, t) ==
    IF \A i \in DOMAIN seq : seq[i] # t THEN seq
    ELSE [j \in 1 .. Len(seq) - 1 |-> seq[IF j < First(seq, {t}) THEN j ELSE j + 1]]

\* FinalizeLastScheduleTask, after ScheduleOutSendTask
FinalizeLast ==
    LET f == Scheduled(lastPrio, lastTarget) IN
    /\ scheduled
    /\ totalByte' = totalByte - Frame[f].size
    /\ totalTask' = totalTask - 1
    /\ count' = [count EXCEPT ![lastPrio] = @ - 1]
    /\ delayTask' = delayTask - RemovedDelay
    /\ delayCount' = [delayCount EXCEPT ![lastPrio] = @ - RemovedDelay]
    /\ order' = [order EXCEPT ![lastPrio] = OrderWithout(@, lastTarget)]
    /\ group' = [group EXCEPT ![lastPrio][lastTarget] = Tail(@)]
    /\ buffer' = [buffer EXCEPT ![f] = "nobody"]
    /\ scheduled' = FALSE
    /\ UNCHANGED <<policy, lastTarget, lastPrio>>

\* The container goes from full to not full in this call of FinalizeLast.
FullToNotFullMutant == totalByte > MaxCapacity /\ totalByte' < MaxCapacity
FullToNotFull == totalByte >= MaxCapacity /\ totalByte' < MaxCapacity

QueuedFor(t) == [p \in Prios |-> Len(group[p][t])]
Total(n) == n["HIGH"] + n["NORMAL"] + n["LOW"]

DelayTaskByTarget(t) ==
    IF policy[t] = "noDelay"
    THEN /\ policy' = [policy EXCEPT ![t] = "delay"]
         /\ delayCount' = [p \in Prios |-> delayCount[p] + QueuedFor(t)[p]]
         /\ delayTask' = delayTask + Total(QueuedFor(t))
    ELSE UNCHANGED <<policy, delayCount, delayTask>>

NoDelayTaskByTarget(t) ==
    IF policy[t] = "delay"
    THEN /\ policy' = [policy EXCEPT ![t] = "noDelay"]
         /\ delayCount' = [p \in Prios |-> delayCount[p] - QueuedFor(t)[p]]
         /\ delayTask' = delayTask - Total(QueuedFor(t))
    ELSE UNCHANGED <<policy, delayCount, delayTask>>

-----------------------------------------------------------------------------
(* CreateSendTask on the calling thread. *)
CreateSendTask(f) ==
    /\ Frame[f].wait # "none" /\ ~shutdown
    /\ Goto(f, "idle", "add")
    /\ UNCHANGED <<scenario, result, frameVars, queueVars, lastVars, wakingSignal, shutdown, senderVars,
                   adapterVars, finalizer, missed>>

\* No local source id: the frame is taken and dropped, OnSendEnd is left to the pool, which may refuse.
DiscardFrame(f) ==
    /\ "identity" \in Events
    /\ Goto(f, "add", "returned")
    /\ result' = [result EXCEPT ![f] = "ok"]
    /\ buffer' = [buffer EXCEPT ![f] = "nobody"]
    /\ \/ pooled' = pooled \union {f}
       \/ "pool" \in Events /\ UNCHANGED pooled
    /\ UNCHANGED <<scenario, ended, queueVars, lastVars, wakingSignal, shutdown, senderVars, adapterVars,
                   finalizer, missed>>

OnSendEndTask(f) ==
    /\ f \in pooled
    /\ pooled' = pooled \ {f}
    /\ ended' = [ended EXCEPT ![f] = @ + 1]
    /\ UNCHANGED <<scenario, callVars, buffer, queueVars, lastVars, wakingSignal, shutdown, senderVars,
                   adapterVars, finalizer, missed>>

\* The first AddSendTaskIntoSchedule, of a call that may wait or not
AddSendTask(f) ==
    /\ pc[f] = "add"
    /\ \/ Enqueue(f) /\ Goto(f, "add", "wake") /\ UNCHANGED result
       \/ /\ ~HasRoom(f)
          /\ IF Frame[f].wait = "nonBlock"
             THEN Goto(f, "add", "returned") /\ result' = [result EXCEPT ![f] = "full"]
             ELSE Goto(f, "add", "retry") /\ UNCHANGED result
          /\ UNCHANGED <<queueVars, buffer>>
    /\ UNCHANGED <<scenario, ended, pooled, lastVars, wakingSignal, shutdown, senderVars, adapterVars,
                   finalizer, missed>>

\* Where a call goes on whose frame the predicate put into the queue
AfterRetryMutant(otherwise) == otherwise
AfterRetry(otherwise) == "wake"

\* retryFunc: the predicate of the wait on retryCv_, at first and after each wakeup
RetryFunc(f, from, otherwise) ==
    /\ pc[f] = from
    /\ \/ /\ shutdown
          /\ Goto(f, from, "wake")
          /\ buffer' = [buffer EXCEPT ![f] = "nobody"]
          /\ UNCHANGED queueVars
       \/ /\ ~shutdown
          /\ Enqueue(f) /\ Goto(f, from, AfterRetry(otherwise))
       \/ /\ ~shutdown /\ ~HasRoom(f)
          /\ Goto(f, from, otherwise)
          /\ UNCHANGED <<queueVars, buffer>>
    /\ UNCHANGED <<scenario, result, ended, pooled, lastVars, wakingSignal, shutdown, senderVars,
                   adapterVars, finalizer, missed>>

Retry(f) == RetryFunc(f, "retry", "blocking")

\* retryCv_ is notified without retryMutex_, so a notification between the predicate and this step is lost.
Block(f) ==
    /\ Goto(f, "blocking", "waiting")
    /\ UNCHANGED <<scenario, result, frameVars, queueVars, lastVars, wakingSignal, shutdown, senderVars,
                   adapterVars, finalizer, missed>>

\* wait_for runs out of time and asks the predicate once more.
WaitTimesOut(f) ==
    /\ Frame[f].wait = "timeout"
    /\ Goto(f, "waiting", "lastRetry")
    /\ UNCHANGED <<scenario, result, frameVars, queueVars, lastVars, wakingSignal, shutdown, senderVars,
                   adapterVars, finalizer, missed>>

LastRetry(f) == RetryFunc(f, "lastRetry", "expired")

\* RetryUntilTimeout after a wait that failed
Expired(f) ==
    /\ IF shutdown
       THEN Goto(f, "expired", "wake") /\ UNCHANGED result
       ELSE Goto(f, "expired", "returned") /\ result' = [result EXCEPT ![f] = "timeout"]
    /\ UNCHANGED <<scenario, frameVars, queueVars, lastVars, wakingSignal, shutdown, senderVars,
                   adapterVars, finalizer, missed>>

SignalledMutant == wakingSignal
Signalled == TRUE

\* The end of CreateSendTask
WakeSender(f) ==
    /\ Goto(f, "wake", "returned")
    /\ result' = [result EXCEPT ![f] = "ok"]
    /\ wakingSignal' = Signalled
    /\ UNCHANGED <<scenario, frameVars, queueVars, lastVars, shutdown, senderVars, adapterVars, finalizer, missed>>

-----------------------------------------------------------------------------
(* SendDataRoutine. *)
Routine ==
    /\ IF shutdown THEN SendGoto("loop", "exited")
       ELSE IF GetNoDelayTaskCount = 0 THEN SendGoto("loop", "sleep") ELSE SendGoto("loop", "out")
    /\ UNCHANGED <<scenario, callVars, frameVars, queueVars, lastVars, wakingSignal, shutdown, task, packet,
                   error, adapterVars, finalizer, missed>>

Sleep ==
    /\ wakingSignal
    /\ SendGoto("sleep", "loop")
    /\ wakingSignal' = FALSE
    /\ UNCHANGED <<scenario, callVars, frameVars, queueVars, lastVars, shutdown, task, packet, error,
                   adapterVars, finalizer, missed>>

ScheduleOutSendTask ==
    /\ SendGoto("out", "send")
    /\ ScheduleOut
    /\ task' = Scheduled(lastPrio', lastTarget')
    /\ packet' = 0  /\ error' = FALSE
    /\ UNCHANGED <<scenario, callVars, frameVars, queueVars, wakingSignal, shutdown, adapterVars, finalizer, missed>>

\* SendBytes of the next packet of the frame
SendBytesOk ==
    /\ sender = "send" /\ packet < Frame[task].packets /\ ~busy[lastTarget]
    /\ packet' = packet + 1
    /\ sender' = IF packet' = Frame[task].packets THEN "end" ELSE "send"
    /\ UNCHANGED <<scenario, callVars, frameVars, queueVars, lastVars, wakingSignal, shutdown, task, error,
                   adapterVars, finalizer, missed>>

\* The frame cannot be split, or SendBytes fails for good.
SendFails ==
    /\ "fail" \in Events
    /\ SendGoto("send", "end")
    /\ error' = TRUE
    /\ UNCHANGED <<scenario, callVars, frameVars, queueVars, lastVars, wakingSignal, shutdown, task, packet,
                   adapterVars, finalizer, missed>>

\* SendBytes answers -E_WAIT_RETRY.
SendWaitRetry ==
    /\ SendGoto("send", "delay")
    /\ IF busy[lastTarget]
       THEN UNCHANGED <<busy, busies>>
       ELSE /\ busies < scenario.busies
            /\ busy' = [busy EXCEPT ![lastTarget] = TRUE]
            /\ busies' = busies + 1
    /\ UNCHANGED <<scenario, callVars, frameVars, queueVars, lastVars, wakingSignal, shutdown, task, packet,
                   error, onSendable, finalizer, missed>>

AfterDelay == "loop"

DelayTask ==
    /\ SendGoto("delay", AfterDelay)
    /\ DelayTaskByTarget(lastTarget)
    /\ UNCHANGED <<scenario, callVars, frameVars, group, order, totalByte, totalTask, count, lastVars,
                   wakingSignal, shutdown, task, packet, error, adapterVars, finalizer, missed>>

\* TaskFinalizer: OnSendEnd
OnSendEnd ==
    /\ SendGoto("end", "finalize")
    /\ ended' = [ended EXCEPT ![task] = @ + 1]
    /\ UNCHANGED <<scenario, callVars, buffer, pooled, queueVars, lastVars, wakingSignal, shutdown, task,
                   packet, error, adapterVars, finalizer, missed>>

FinalizeLastScheduleTask ==
    /\ sender = "finalize"
    /\ FinalizeLast
    /\ sender' = IF FullToNotFull THEN "notify" ELSE "loop"
    /\ UNCHANGED <<scenario, callVars, ended, pooled, wakingSignal, shutdown, task, packet, error,
                   adapterVars, finalizer, missed>>

\* retryCv_.notify_all()
NotifyAll ==
    /\ pc' = [f \in Frames |-> IF pc[f] = "waiting" THEN "retry" ELSE pc[f]]
    /\ missed' = missed \union {f \in Frames : pc[f] = "blocking"}

NotifyRetry ==
    /\ SendGoto("notify", "loop")
    /\ NotifyAll
    /\ UNCHANGED <<scenario, result, frameVars, queueVars, lastVars, wakingSignal, shutdown, task, packet,
                   error, adapterVars, finalizer>>

-----------------------------------------------------------------------------
(* The adapter can send to t again and calls OnSendable. *)
BecomeSendable(t) ==
    /\ busy[t] /\ onSendable[t] = "idle"
    /\ busy' = [busy EXCEPT ![t] = FALSE]
    /\ onSendable' = [onSendable EXCEPT ![t] = "noDelay"]
    /\ UNCHANGED <<scenario, callVars, frameVars, queueVars, lastVars, wakingSignal, shutdown, senderVars,
                   busies, finalizer, missed>>

NoDelayTask(t) ==
    /\ onSendable[t] = "noDelay"
    /\ onSendable' = [onSendable EXCEPT ![t] = "wake"]
    /\ NoDelayTaskByTarget(t)
    /\ UNCHANGED <<scenario, callVars, frameVars, group, order, totalByte, totalTask, count, lastVars,
                   wakingSignal, shutdown, senderVars, busy, busies, finalizer, missed>>

SendableWake(t) ==
    /\ onSendable[t] = "wake"
    /\ onSendable' = [onSendable EXCEPT ![t] = "idle"]
    /\ wakingSignal' = TRUE
    /\ UNCHANGED <<scenario, callVars, frameVars, queueVars, lastVars, shutdown, senderVars, busy, busies,
                   finalizer, missed>>

-----------------------------------------------------------------------------
(* Finalize, and the destructor once no call is left. *)
Finalize ==
    /\ "finalize" \in Events
    /\ finalizer = "idle" /\ finalizer' = "notify"
    /\ shutdown' = TRUE
    /\ UNCHANGED <<scenario, callVars, frameVars, queueVars, lastVars, wakingSignal, senderVars, adapterVars, missed>>

FinalizeNotify ==
    /\ finalizer = "notify" /\ finalizer' = "wake"
    /\ NotifyAll
    /\ UNCHANGED <<scenario, result, frameVars, queueVars, lastVars, wakingSignal, shutdown, senderVars,
                   adapterVars>>

FinalizeWake ==
    /\ finalizer = "wake" /\ finalizer' = "join"
    /\ wakingSignal' = TRUE
    /\ UNCHANGED <<scenario, callVars, frameVars, queueVars, lastVars, shutdown, senderVars, adapterVars, missed>>

\* The thread is joined; or, in the destructor, the last call has returned.
Join ==
    /\ \/ finalizer = "join" /\ sender = "exited" /\ finalizer' = "drain"
       \/ finalizer = "stopped" /\ finalizer' = "destroy"
          /\ \A f \in Frames : pc[f] \in {"idle", "returned"}
    /\ UNCHANGED <<scenario, callVars, frameVars, queueVars, lastVars, wakingSignal, shutdown, senderVars,
                   adapterVars, missed>>

DrainOut ==
    /\ finalizer \in {"drain", "destroy"}
    /\ finalizer' = IF finalizer = "drain" THEN "drop" ELSE "destroyDrop"
    /\ ScheduleOut
    /\ UNCHANGED <<scenario, callVars, frameVars, queueVars, wakingSignal, shutdown, senderVars, adapterVars,
                   missed>>

DrainFinalize ==
    /\ finalizer \in {"drop", "destroyDrop"}
    /\ finalizer' = IF finalizer = "drop" THEN "drain" ELSE "destroy"
    /\ FinalizeLast
    /\ UNCHANGED <<scenario, callVars, ended, pooled, wakingSignal, shutdown, senderVars, adapterVars,
                   missed>>

Drained ==
    /\ totalTask = 0
    /\ \/ finalizer = "drain" /\ finalizer' = "stopped"
       \/ finalizer = "destroy" /\ finalizer' = "gone"
    /\ UNCHANGED <<scenario, callVars, frameVars, queueVars, lastVars, wakingSignal, shutdown, senderVars,
                   adapterVars, missed>>

-----------------------------------------------------------------------------
Calling == Finalize \/ \E f \in Frames : CreateSendTask(f)

Waiting(f) == \/ DiscardFrame(f) \/ AddSendTask(f) \/ Retry(f) \/ Block(f) \/ WaitTimesOut(f)
              \/ LastRetry(f) \/ Expired(f) \/ WakeSender(f)

Sending == \/ Routine \/ Sleep \/ ScheduleOutSendTask \/ SendBytesOk \/ SendFails \/ SendWaitRetry
           \/ DelayTask \/ OnSendEnd \/ FinalizeLastScheduleTask \/ NotifyRetry

Adapter(t) == BecomeSendable(t) \/ NoDelayTask(t) \/ SendableWake(t)

Finalizing == \/ FinalizeNotify \/ FinalizeWake \/ Join \/ DrainOut \/ DrainFinalize \/ Drained

Threads == \/ \E f \in Frames : Waiting(f) \/ OnSendEndTask(f)
           \/ Sending
           \/ \E t \in Targets : Adapter(t)
           \/ Finalizing

Next == Calling \/ Threads

(* Some thread runs as long as one can; waits run out and the adapter becomes
   sendable again.  No thread can run for ever on its own, so this is enough. *)
Fairness == WF_vars(Threads)

Spec == Init /\ [][Next]_vars /\ Fairness

-----------------------------------------------------------------------------
(* Properties. *)

(* Every variable has its type; OnSendEnd is called at most once for a frame,
   whether SendDataRoutine or the task pool calls it. *)
TypeOK ==
    /\ scenario \in Scenarios
    /\ pc \in [Frames -> {"idle", "add", "retry", "blocking", "waiting", "lastRetry", "expired", "wake",
                          "returned"}]
    /\ result \in [Frames -> {"none", "ok", "full", "timeout"}]
    /\ buffer \in [Frames -> {"caller", "queue", "nobody"}]
    /\ ended \in [Frames -> 0..1]  /\ pooled \subseteq Frames
    /\ policy \in [Targets -> {"none", "noDelay", "delay"}]
    /\ group \in [Prios -> [Targets -> Seq(Frames)]]
    /\ order \in [Prios -> Seq(Targets)]
    /\ totalByte \in Nat  /\ totalTask \in Nat  /\ delayTask \in Nat
    /\ count \in [Prios -> Nat]  /\ delayCount \in [Prios -> Nat]
    /\ scheduled \in BOOLEAN  /\ lastTarget \in Targets \union {None}  /\ lastPrio \in Prios
    /\ wakingSignal \in BOOLEAN  /\ shutdown \in BOOLEAN
    /\ sender \in {"loop", "sleep", "out", "send", "delay", "end", "finalize", "notify", "exited"}
    /\ task \in Frames \union {None}  /\ packet \in Nat  /\ error \in BOOLEAN
    /\ onSendable \in [Targets -> {"idle", "noDelay", "wake"}]
    /\ busy \in [Targets -> BOOLEAN]  /\ busies \in Nat
    /\ finalizer \in {"idle", "notify", "wake", "join", "drain", "drop", "stopped", "destroy", "destroyDrop",
                      "gone"}
    /\ missed \subseteq Frames

QueuedAt(p, t) == Len(group[p][t])

\* How often an order list names a target of ts
Times(seq, ts) == Cardinality({i \in DOMAIN seq : seq[i] \in ts})

\* The sizes of the frames of S added up: one unit for each byte
TotalSize(frame, S) == Cardinality(UNION {{f} \X (1 .. frame[f].size) : f \in S})

(* The books of the scheduler agree.  The order list of a priority names a target
   as often as the target has frames queued at that priority, so the front of a
   list the code takes without asking is there, and FinalizeLastScheduleTask
   removes an entry of the right target.  The counters that SendDataRoutine and the
   schedule functions decide by count what is in the queues: all tasks, those of
   delayed targets, and the bytes, however frames are added while targets are
   delayed and released. *)
CountersExact ==
    /\ TypeOK
    /\ \A p \in Prios, t \in Targets : Times(order[p], {t}) = QueuedAt(p, t)
    /\ \A p \in Prios :
          /\ count[p] = Len(order[p])
          /\ delayCount[p] = Times(order[p], {t \in Targets : policy[t] = "delay"})
    /\ totalTask = Total(count)  /\ delayTask = Total(delayCount)
    /\ totalByte = TotalSize(Frame, {f \in Frames : buffer[f] = "queue"})

(* The frame whose packets are on their way to the adapter is the one that
   FinalizeLastScheduleTask will free: it stays at the front of its queue while
   other threads add frames and the adapter delays and releases targets.  It is
   ended without an error only when the adapter took every packet of it. *)
InFlightIsFront ==
    /\ sender \in {"send", "delay", "end", "finalize"} =>
          /\ scheduled /\ buffer[task] = "queue"
          /\ group[lastPrio][lastTarget] # <<>>
          /\ task = Scheduled(lastPrio, lastTarget)
    /\ sender \in {"end", "finalize"} /\ ~error => packet = Frame[task].packets

(* The memory the scheduler holds is bounded by the two capacities and one frame,
   the 160 MB that the comment on MAX_CAPACITY speaks of. *)
QueueBounded == \E f \in Frames : totalByte < MaxCapacity + ExtraHigh + Frame[f].size

(* Who has to free a buffer is never in doubt.  A call that is refused leaves the
   buffer to its caller, who deletes it, so it is not queued; a call that succeeds
   has taken it, except that a wait that runs out while Finalize starts says E_OK
   and frees nothing; the destructor leaves nothing in the queues. *)
BufferHasOneOwner ==
    /\ \A f \in Frames :
          /\ result[f] \in {"full", "timeout"} => buffer[f] = "caller"
          /\ result[f] = "ok" => buffer[f] # "caller" \/ shutdown
    /\ finalizer = "gone" => \A f \in Frames : buffer[f] # "queue"

\* OnSendable came between SendBytes and DelayTaskByTarget: nothing will release the target.
Overtaken(t) == policy[t] = "delay" /\ ~busy[t] /\ onSendable[t] = "idle"

(* A frame in the queue is sent or fails, and its sender is told, unless the
   aggregator is shut down or OnSendable overtook the delay of its target. *)
FrameEnds ==
    \A f \in Frames : buffer[f] = "queue" ~> ended[f] = 1 \/ shutdown \/ Overtaken(TargetOf(f))

(* A call that waits for room comes back: the one notification when the queue
   falls below MAX_CAPACITY is enough for callers of every priority, unless it is
   lost because the caller is not yet waiting, or a target stays delayed. *)
CallReturns ==
    \A f \in Frames :
        pc[f] = "add" ~> pc[f] = "returned" \/ f \in missed \/ \E t \in Targets : Overtaken(t)
=============================================================================
