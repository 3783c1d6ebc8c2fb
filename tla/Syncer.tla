------------------------------- MODULE Syncer -------------------------------
(* The life of a SyncOperation in GenericSyncer: the thread that calls Sync,
   the device tasks that finish its targets, StopSync, a device that goes
   offline, DisableManualSync, and Close.  Every one of them may finish, remove,
   kill or release the same operation.

   The task machinery of a device (module SyncTask) is reduced here to what it
   does to operations: take a target, set its final status, let it go.  A step is
   a stretch of code under one lock.  Definitions ending in "Mutant" are
   deliberately wrong variants of the definition they precede. *)
EXTENDS Integers, FiniteSets, Sequences

CONSTANTS
    Ops,            \* the Sync calls made in a run
    Devices,
    None,
    QueuedLimit,    \* queuedManualSyncLimit_
    Scenarios       \* [kind, devices, events] of a run: see TypeOK

ASSUME SyncerAssumption ==
    /\ None \notin Ops /\ IsFiniteSet(Ops) /\ IsFiniteSet(Devices)
    /\ QueuedLimit \in Nat
    /\ \A s \in Scenarios :
          /\ s.kind \in [Ops -> {"none", "manual", "block", "auto"}]
          /\ s.devices \in [Ops -> (SUBSET Devices) \ {{}}]
          /\ s.events \subseteq {"stop", "close", "user", "offline", "disable", "schedule"}

VARIABLES
    scenario,
    pc,             \* pc[o]: where the thread that calls Sync for o is
    todo,           \* devices of o that PrepareSync has still to reach
    op,             \* op[o]: the fields of the SyncOperation
    fin,            \* fin[o]: the thread inside Finished() past its gate, and where
    rem,            \* rem[o]: where the thread inside RemoveSyncOperation(o) is
    syncOperationMap, syncIdList,
    queuedManualSyncSize, manualSyncEnable,
    initialized, closing, closeStage, collected, triggering,
    stopping,       \* what StopSync has still to remove
    stopCalled,
    queue,          \* queue[d]: requestTargetQueue_ of the context of d
    current,        \* current[d]: syncOperation_ of that context
    popped,         \* popped[d]: the targets ClearAllSyncTask took out
    busy,           \* busy[t]: the operation thread t has set a status of
    killedContext   \* contexts that the engine's Close has killed

stopVars    == <<stopping, stopCalled>>
syncerVars  == <<initialized, closing, closeStage, collected, triggering>>
sizeVars    == <<queuedManualSyncSize, manualSyncEnable>>
contextVars == <<queue, current, popped, busy, killedContext>>
vars == <<scenario, pc, todo, op, fin, rem, syncOperationMap, syncIdList, stopVars,
          sizeVars, syncerVars, contextVars>>

Kind      == scenario.kind
Events    == scenario.events
DevicesOf == scenario.devices

\* The threads that set the status of a device: its task, and the one that clears
\* its tasks when it goes offline.
Threads == {"task", "offline"} \X Devices
\* The thread that calls Sync for an operation, and the one that calls Close
Caller == <<"caller", None>>
Closer == <<"close", None>>
Nobody == <<"none", None>>

Finals == {"OK", "FAILED", "USER_CHANGED"}

IsBlockSync(o)  == Kind[o] = "block"
IsAutoSync(o)   == Kind[o] = "auto"
\* counted in queuedManualSyncSize_
IsQueued(o) == Kind[o] = "manual"

NoOperation == [refs |-> 0, killed |-> FALSE, finished |-> FALSE,
                status |-> [d \in Devices |-> "WAITING"],
                semaphore |-> 0, pending |-> 0, calls |-> 0]

Init ==
    /\ scenario \in Scenarios
    /\ pc = [o \in Ops |-> "idle"]
    /\ todo = [o \in Ops |-> {}]
    /\ op = [o \in Ops |-> NoOperation]
    /\ fin = [o \in Ops |-> [by |-> Nobody, at |-> "no"]]
    /\ rem = [o \in Ops |-> "no"]
    /\ syncOperationMap = {} /\ syncIdList = {}
    /\ queuedManualSyncSize = 0 /\ manualSyncEnable = TRUE
    /\ initialized = TRUE /\ closing = FALSE /\ closeStage = "open"
    /\ collected = {} /\ triggering = None
    /\ stopping = {} /\ stopCalled = FALSE
    /\ queue = [d \in Devices |-> <<>>]
    /\ current = [d \in Devices |-> None]
    /\ popped = [d \in Devices |-> {}]
    /\ busy = [t \in Threads |-> None]
    /\ killedContext = {}

-----------------------------------------------------------------------------
(* SyncOperation *)

\* A freed operation: what a thread that still uses it does next is undefined, and
\* no step of it is modelled.
Alive(o) == op[o].refs > 0

CheckIsAllFinished(o) == \A d \in DevicesOf[o] : op[o].status[d] # "WAITING"

\* SetStatus: nothing after the operation is killed or finished, and a final
\* status stays
WithStatus(r, ds, s) ==
    IF r.killed \/ r.finished THEN r
    ELSE [r EXCEPT !.status = [d \in Devices |->
             IF d \in ds /\ r.status[d] = "WAITING" THEN s ELSE r.status[d]]]

\* The gate of Finished: thread t gets past it once.
MayFinish(o) == ~op[o].killed /\ ~op[o].finished

EnterFinished(o, t) ==
    /\ op' = [op EXCEPT ![o].finished = TRUE]
    /\ fin' = [fin EXCEPT ![o] = [by |-> t, at |-> "call"]]

\* The operations a queue has a target of
Targets(s) == {s[i] : i \in DOMAIN s}

\* KillObj, whose onKill_ takes the target of the operation out of every queue,
\* and the release of the reference of the caller
RemoveTarget(s, o) ==
    IF o \notin Targets(s) THEN s
    ELSE LET i == CHOOSE i \in DOMAIN s : s[i] = o
         IN [j \in 1 .. Len(s) - 1 |-> s[IF j < i THEN j ELSE j + 1]]

PurgedMutant(o) == queue

Purged(o) == [d \in Devices |-> RemoveTarget(queue[d], o)]

KillAndDec(o) == [op EXCEPT ![o].killed = TRUE, ![o].refs = @ - 1]

DecRef(o) == [op EXCEPT ![o].refs = @ - 1]

\* userCallback_: called at once for a blocking Sync, else a task that holds a
\* reference, if it can be scheduled.  An automatic sync has none.
UserCallback(o) ==
    /\ fin[o].at = "call" /\ Alive(o)
    /\ fin' = [fin EXCEPT ![o].at = "remove"]
    /\ \/ IsBlockSync(o) /\ op' = [op EXCEPT ![o].calls = @ + 1]
       \/ IsQueued(o) /\ op' = [op EXCEPT ![o].pending = @ + 1, ![o].refs = @ + 1]
       \/ IsQueued(o) /\ "schedule" \in Events /\ UNCHANGED op
       \/ IsAutoSync(o) /\ UNCHANGED op
    /\ UNCHANGED <<scenario, pc, todo, rem, syncOperationMap, syncIdList, stopVars,
                   sizeVars, syncerVars, contextVars>>

QueuedCallback(o) ==
    /\ op[o].pending > 0
    /\ op' = [op EXCEPT ![o].pending = @ - 1, ![o].calls = @ + 1, ![o].refs = @ - 1]
    /\ UNCHANGED <<scenario, pc, todo, fin, rem, syncOperationMap, syncIdList, stopVars,
                   sizeVars, syncerVars, contextVars>>

\* The thread that was in Finished for o goes on.
Leave(o) ==
    /\ fin' = [fin EXCEPT ![o] = [by |-> Nobody, at |-> "no"]]
    /\ busy' = [t \in Threads |-> IF t = fin[o].by THEN None ELSE busy[t]]

\* operationMapLock_ is held by Close while it kills what is left in the map.
MapLockFree == closeStage # "clear"

\* OnSyncFinished, as far as the lookup in RemoveSyncOperation
OnSyncFinished(o) ==
    /\ fin[o].at = "remove" /\ Alive(o) /\ MapLockFree
    /\ syncIdList' = syncIdList \ {o}
    /\ IF o \in syncOperationMap
       THEN /\ syncOperationMap' = syncOperationMap \ {o}
            /\ rem' = [rem EXCEPT ![o] = "release"]
            /\ fin' = [fin EXCEPT ![o].at = "removing"]
            /\ UNCHANGED busy
       ELSE Leave(o) /\ UNCHANGED <<syncOperationMap, rem>>
    /\ UNCHANGED <<scenario, pc, todo, op, stopVars, sizeVars, syncerVars,
                   queue, current, popped, killedContext>>

-----------------------------------------------------------------------------
(* RemoveSyncOperation, after the operation is out of the map *)

SubQueuedSyncSize(o) ==
    IF IsQueued(o) /\ queuedManualSyncSize > 0
    THEN queuedManualSyncSize - 1 ELSE queuedManualSyncSize

NotifiedMutant(o) == op

Notified(o) == IF IsBlockSync(o) THEN [op EXCEPT ![o].semaphore = @ + 1] ELSE op

ReleaseRemoved(o) ==
    /\ rem[o] = "release"
    /\ queuedManualSyncSize' = SubQueuedSyncSize(o)
    /\ op' = Notified(o)
    /\ rem' = [rem EXCEPT ![o] = "kill"]
    /\ UNCHANGED <<scenario, pc, todo, fin, syncOperationMap, syncIdList, stopVars,
                   manualSyncEnable, syncerVars, contextVars>>

KillRemoved(o) ==
    /\ rem[o] = "kill"
    /\ op' = KillAndDec(o)
    /\ queue' = Purged(o)
    /\ syncIdList' = syncIdList \ {o}
    /\ rem' = [rem EXCEPT ![o] = "no"]
    /\ IF fin[o].at = "removing" THEN Leave(o) ELSE UNCHANGED <<fin, busy>>
    /\ UNCHANGED <<scenario, pc, todo, syncOperationMap, stopVars, sizeVars, syncerVars,
                   current, popped, killedContext>>

\* StopSync: a copy of the list, then one RemoveSyncOperation after the other
StopSync ==
    /\ "stop" \in Events /\ ~stopCalled
    /\ stopping' = syncIdList /\ stopCalled' = TRUE
    /\ UNCHANGED <<scenario, pc, todo, op, fin, rem, syncOperationMap, syncIdList,
                   sizeVars, syncerVars, contextVars>>

StopSyncRemove(o) ==
    /\ o \in stopping /\ MapLockFree
    /\ \A q \in Ops : rem[q] # "no" => fin[q].at = "removing"
    /\ stopping' = stopping \ {o} /\ UNCHANGED stopCalled
    /\ IF o \in syncOperationMap
       THEN /\ syncOperationMap' = syncOperationMap \ {o}
            /\ rem' = [rem EXCEPT ![o] = "release"]
       ELSE UNCHANGED <<syncOperationMap, rem>>
    /\ UNCHANGED <<scenario, pc, todo, op, fin, syncIdList, sizeVars, syncerVars, contextVars>>

-----------------------------------------------------------------------------
(* The thread that calls Sync *)

\* syncerLock_ is held by a thread inside the locked part of PrepareSync.
SyncerLockFree == \A o \in Ops : pc[o] \notin {"adding", "inserting"}

IsQueuedManualSyncFull(o) ==
    \/ Kind[o] \in {"manual", "block"} /\ ~manualSyncEnable
    \/ IsQueued(o) /\ queuedManualSyncSize >= QueuedLimit

SyncParamCheck(o) ==
    /\ pc[o] = "idle" /\ Kind[o] # "none" /\ SyncerLockFree
    /\ pc' = [pc EXCEPT ![o] =
          IF initialized /\ ~closing /\ ~IsQueuedManualSyncFull(o)
          THEN "checked" ELSE "refused"]
    /\ UNCHANGED <<scenario, todo, op, fin, rem, syncOperationMap, syncIdList, stopVars,
                   sizeVars, syncerVars, contextVars>>

\* The queue may have been disabled since the check.
MayQueueMutant(o) == TRUE

MayQueue(o) == IsQueued(o) => manualSyncEnable

AddQueuedManualSyncSize(o) ==
    /\ pc[o] = "checked"
    /\ IF MayQueue(o)
       THEN /\ pc' = [pc EXCEPT ![o] = "counted"]
            /\ queuedManualSyncSize' = queuedManualSyncSize + (IF IsQueued(o) THEN 1 ELSE 0)
       ELSE /\ pc' = [pc EXCEPT ![o] = "refused"]
            /\ UNCHANGED queuedManualSyncSize
    /\ UNCHANGED <<scenario, todo, op, fin, rem, syncOperationMap, syncIdList, stopVars,
                   manualSyncEnable, syncerVars, contextVars>>

\* A new operation, with the reference of its creator
PrepareSync(o) ==
    /\ pc[o] = "counted" /\ SyncerLockFree
    /\ pc' = [pc EXCEPT ![o] = "adding"]
    /\ todo' = [todo EXCEPT ![o] = DevicesOf[o]]
    /\ op' = [op EXCEPT ![o] = [NoOperation EXCEPT !.refs = 1]]
    /\ UNCHANGED <<scenario, fin, rem, syncOperationMap, syncIdList, stopVars,
                   sizeVars, syncerVars, contextVars>>

\* SyncEngine::AddSyncOperation for one device: a killed context refuses, an
\* automatic sync joins one that is queued already, else a target is queued
AddSyncOperForContext(o, d) ==
    /\ pc[o] = "adding" /\ d \in todo[o]
    /\ todo' = [todo EXCEPT ![o] = @ \ {d}]
    /\ IF d \in killedContext
       THEN op' = [op EXCEPT ![o] = WithStatus(@, {d}, "FAILED")] /\ UNCHANGED queue
       ELSE IF IsAutoSync(o) /\ \E q \in Targets(queue[d]) : IsAutoSync(q)
       THEN op' = [op EXCEPT ![o] = WithStatus(@, {d}, "OK")] /\ UNCHANGED queue
       ELSE queue' = [queue EXCEPT ![d] = Append(@, o)] /\ UNCHANGED op
    /\ UNCHANGED <<scenario, pc, fin, rem, syncOperationMap, syncIdList, stopVars, sizeVars,
                   syncerVars, current, popped, busy, killedContext>>

\* An operation that is finished by now does not go into the map.
AllAdded(o) ==
    /\ pc[o] = "adding" /\ todo[o] = {}
    /\ pc' = [pc EXCEPT ![o] = IF CheckIsAllFinished(o) THEN "added" ELSE "inserting"]
    /\ UNCHANGED <<scenario, todo, op, fin, rem, syncOperationMap, syncIdList, stopVars,
                   sizeVars, syncerVars, contextVars>>

InsertedMutant(o) == op

Inserted(o) == [op EXCEPT ![o].refs = @ + 1]

AddSyncOperation(o) ==
    /\ pc[o] = "inserting" /\ MapLockFree
    /\ syncOperationMap' = syncOperationMap \union {o}
    /\ op' = Inserted(o)
    /\ pc' = [pc EXCEPT ![o] = "added"]
    /\ UNCHANGED <<scenario, todo, fin, rem, syncIdList, stopVars, sizeVars, syncerVars,
                   contextVars>>

PushSyncId(o) ==
    /\ pc[o] = "added"
    /\ syncIdList' = IF IsBlockSync(o) THEN syncIdList ELSE syncIdList \union {o}
    /\ pc' = [pc EXCEPT ![o] = "listed"]
    /\ UNCHANGED <<scenario, todo, op, fin, rem, syncOperationMap, stopVars, sizeVars,
                   syncerVars, contextVars>>

\* The last check of PrepareSync: finish here, or wait for the others
FinishOrWait(o) ==
    /\ pc[o] = "listed"
    /\ IF CheckIsAllFinished(o)
       THEN /\ pc' = [pc EXCEPT ![o] = "finishing"]
            /\ IF MayFinish(o) THEN EnterFinished(o, Caller) ELSE UNCHANGED <<op, fin>>
       ELSE /\ pc' = [pc EXCEPT ![o] = "waiting"]
            /\ UNCHANGED <<op, fin>>
    /\ UNCHANGED <<scenario, todo, rem, syncOperationMap, syncIdList, stopVars, sizeVars,
                   syncerVars, contextVars>>

ReturnFinished(o) ==
    /\ pc[o] = "finishing" /\ fin[o].by # Caller
    /\ op' = KillAndDec(o)
    /\ queue' = Purged(o)
    /\ pc' = [pc EXCEPT ![o] = "returned"]
    /\ UNCHANGED <<scenario, todo, fin, rem, syncOperationMap, syncIdList, stopVars, sizeVars,
                   syncerVars, current, popped, busy, killedContext>>

\* WaitIfNeed: a blocking Sync waits for the semaphore
WaitIfNeed(o) ==
    /\ pc[o] = "waiting"
    /\ IsBlockSync(o) => op[o].semaphore > 0
    /\ op' = [DecRef(o) EXCEPT ![o].semaphore = IF IsBlockSync(o) THEN @ - 1 ELSE @]
    /\ pc' = [pc EXCEPT ![o] = "returned"]
    /\ UNCHANGED <<scenario, todo, fin, rem, syncOperationMap, syncIdList, stopVars, sizeVars,
                   syncerVars, contextVars>>

\* Refused while a manual sync is queued
MayDisable == queuedManualSyncSize = 0

DisableManualSync ==
    /\ "disable" \in Events /\ manualSyncEnable /\ MayDisable
    /\ manualSyncEnable' = FALSE
    /\ UNCHANGED <<scenario, pc, todo, op, fin, rem, syncOperationMap, syncIdList, stopVars,
                   queuedManualSyncSize, syncerVars, contextVars>>

EnableManualSync ==
    /\ "disable" \in Events /\ ~manualSyncEnable
    /\ manualSyncEnable' = TRUE
    /\ UNCHANGED <<scenario, pc, todo, op, fin, rem, syncOperationMap, syncIdList, stopVars,
                   queuedManualSyncSize, syncerVars, contextVars>>

-----------------------------------------------------------------------------
(* The contexts of the devices *)

\* The next target becomes the current one, with a reference, unless its
\* operation is killed.
TakenMutant(o) == op

Taken(o) == [op EXCEPT ![o].refs = @ + 1]

MoveToNextTarget(d) ==
    /\ d \notin killedContext
    /\ current[d] = None /\ queue[d] # <<>>
    /\ LET o == Head(queue[d])
       IN IF op[o].killed THEN UNCHANGED <<current, op>>
          ELSE current' = [current EXCEPT ![d] = o] /\ op' = Taken(o)
    /\ queue' = [queue EXCEPT ![d] = Tail(@)]
    /\ UNCHANGED <<scenario, pc, todo, fin, rem, syncOperationMap, syncIdList, stopVars,
                   sizeVars, syncerVars, popped, busy, killedContext>>

\* SetOperationStatus with a final status; its thread keeps operationLock_ to the
\* end of Finished
SetOperationStatus(d, s) ==
    LET o == current[d] IN
    /\ o # None /\ busy[<<"task", d>>] = None
    /\ op[o].status[d] = "WAITING" /\ MayFinish(o)
    /\ op' = [op EXCEPT ![o] = WithStatus(@, {d}, s)]
    /\ busy' = [busy EXCEPT ![<<"task", d>>] = o]
    /\ UNCHANGED <<scenario, pc, todo, fin, rem, syncOperationMap, syncIdList, stopVars,
                   sizeVars, syncerVars, queue, current, popped, killedContext>>

\* ... CheckIsAllFinished and the gate of Finished
FinishIfAll(t) ==
    LET o == busy[t] IN
    /\ o # None /\ Alive(o) /\ fin[o].by # t
    /\ IF CheckIsAllFinished(o) /\ MayFinish(o)
       THEN EnterFinished(o, t) /\ UNCHANGED busy
       ELSE busy' = [busy EXCEPT ![t] = None] /\ UNCHANGED <<op, fin>>
    /\ UNCHANGED <<scenario, pc, todo, rem, syncOperationMap, syncIdList, stopVars, sizeVars,
                   syncerVars, queue, current, popped, killedContext>>

\* The task has a final status, or its context is killed (AbortInner clears the
\* context without a status).
TaskOver(o, d) ==
    op[o].status[d] # "WAITING" \/ ~MayFinish(o) \/ d \in killedContext

ClearSyncOperation(d) ==
    LET o == current[d] IN
    /\ o # None /\ busy[<<"task", d>>] = None
    /\ TaskOver(o, d)
    /\ op' = DecRef(o)
    /\ current' = [current EXCEPT ![d] = None]
    /\ UNCHANGED <<scenario, pc, todo, fin, rem, syncOperationMap, syncIdList, stopVars,
                   sizeVars, syncerVars, queue, popped, busy, killedContext>>

\* ClearAllSyncTask of a device that is offline: takes the whole queue, then
\* finishes one operation after the other, through pointers it has no reference for
ClearAllSyncTask(d) ==
    /\ "offline" \in Events /\ popped[d] = {} /\ queue[d] # <<>>
    /\ d \notin killedContext
    /\ popped' = [popped EXCEPT ![d] = Targets(queue[d])]
    /\ queue' = [queue EXCEPT ![d] = <<>>]
    /\ UNCHANGED <<scenario, pc, todo, op, fin, rem, syncOperationMap, syncIdList, stopVars,
                   sizeVars, syncerVars, current, busy, killedContext>>

ClearPopped(d, o) ==
    /\ o \in popped[d] /\ Alive(o) /\ busy[<<"offline", d>>] = None
    /\ op' = [op EXCEPT ![o] = WithStatus(@, {d}, IF IsAutoSync(o) THEN "OK" ELSE "FAILED")]
    /\ busy' = [busy EXCEPT ![<<"offline", d>>] = o]
    /\ popped' = [popped EXCEPT ![d] = @ \ {o}]
    /\ UNCHANGED <<scenario, pc, todo, fin, rem, syncOperationMap, syncIdList, stopVars,
                   sizeVars, syncerVars, queue, current, killedContext>>

-----------------------------------------------------------------------------
(* Close *)

Close ==
    /\ Events \intersect {"close", "user"} # {}
    /\ closeStage = "open" /\ initialized /\ SyncerLockFree
    /\ initialized' = FALSE /\ closing' = TRUE
    /\ closeStage' = "collect"
    /\ UNCHANGED <<scenario, pc, todo, op, fin, rem, syncOperationMap, syncIdList, stopVars,
                   sizeVars, collected, triggering, contextVars>>

\* The first part of ClearSyncOperations: the blocking calls (all, if the user
\* changed) are given their status and a reference
Collected == {o \in syncOperationMap : IsBlockSync(o) \/ "user" \in Events}

CollectOperations ==
    /\ closeStage = "collect"
    /\ collected' = Collected
    /\ op' = [o \in Ops |-> IF o \notin Collected THEN op[o]
                 ELSE [WithStatus(op[o], DevicesOf[o],
                          IF "user" \in Events THEN "USER_CHANGED" ELSE "FAILED")
                       EXCEPT !.refs = @ + 1]]
    /\ closeStage' = "trigger"
    /\ UNCHANGED <<scenario, pc, todo, fin, rem, syncOperationMap, syncIdList, stopVars, sizeVars,
                   initialized, closing, triggering, contextVars>>

TriggerSyncFinished(o) ==
    /\ closeStage = "trigger" /\ triggering = None /\ o \in collected
    /\ triggering' = o
    /\ IF CheckIsAllFinished(o) /\ MayFinish(o)
       THEN EnterFinished(o, Closer) ELSE UNCHANGED <<op, fin>>
    /\ UNCHANGED <<scenario, pc, todo, rem, syncOperationMap, syncIdList, stopVars, sizeVars,
                   initialized, closing, closeStage, collected, contextVars>>

ReleaseTriggered ==
    /\ triggering # None /\ fin[triggering].by # Closer
    /\ op' = DecRef(triggering)
    /\ collected' = collected \ {triggering}
    /\ triggering' = None
    /\ UNCHANGED <<scenario, pc, todo, fin, rem, syncOperationMap, syncIdList, stopVars, sizeVars,
                   initialized, closing, closeStage, contextVars>>

\* The second part, under operationMapLock_: one after the other, whatever is left
\* in the map is killed
ClearSyncOperations(o) ==
    /\ closeStage \in {"trigger", "clear"} /\ collected = {}
    /\ o \in syncOperationMap
    /\ op' = KillAndDec(o)
    /\ queue' = Purged(o)
    /\ syncOperationMap' = syncOperationMap \ {o}
    /\ closeStage' = "clear"
    /\ UNCHANGED <<scenario, pc, todo, fin, rem, syncIdList, stopVars, sizeVars, initialized,
                   closing, collected, triggering, current, popped, busy, killedContext>>

AllCleared ==
    /\ closeStage \in {"trigger", "clear"} /\ collected = {}
    /\ syncOperationMap = {}
    /\ closeStage' = "engine"
    /\ UNCHANGED <<scenario, pc, todo, op, fin, rem, syncOperationMap, syncIdList, stopVars,
                   sizeVars, initialized, closing, collected, triggering, contextVars>>

\* SyncEngine::Close kills the contexts; the last reference of one takes its targets
KillContext(d) ==
    /\ closeStage = "engine" /\ d \notin killedContext
    /\ killedContext' = killedContext \union {d}
    /\ UNCHANGED <<scenario, pc, todo, op, fin, rem, syncOperationMap, syncIdList, stopVars,
                   sizeVars, syncerVars, queue, current, popped, busy>>

ClearSyncTarget(d) ==
    /\ d \in killedContext /\ current[d] = None /\ queue[d] # <<>>
    /\ queue' = [queue EXCEPT ![d] = <<>>]
    /\ UNCHANGED <<scenario, pc, todo, op, fin, rem, syncOperationMap, syncIdList, stopVars,
                   sizeVars, syncerVars, current, popped, busy, killedContext>>

Closed ==
    /\ closeStage = "engine" /\ killedContext = Devices /\ SyncerLockFree
    /\ closing' = FALSE
    /\ closeStage' = "closed"
    /\ UNCHANGED <<scenario, pc, todo, op, fin, rem, syncOperationMap, syncIdList, stopVars,
                   sizeVars, initialized, collected, triggering, contextVars>>

-----------------------------------------------------------------------------

\* What a thread goes on to do by itself once it runs
CallerStep(o) ==
    \/ AddQueuedManualSyncSize(o) \/ PrepareSync(o) \/ AllAdded(o)
    \/ \E d \in Devices : AddSyncOperForContext(o, d)
    \/ AddSyncOperation(o) \/ PushSyncId(o) \/ FinishOrWait(o)
    \/ ReturnFinished(o) \/ WaitIfNeed(o)

FinishStep(o) == UserCallback(o) \/ OnSyncFinished(o) \/ ReleaseRemoved(o) \/ KillRemoved(o)

ContextStep(d) ==
    \/ MoveToNextTarget(d) \/ ClearSyncOperation(d)
    \/ \E s \in {"OK", "FAILED"} : SetOperationStatus(d, s)
    \/ \E o \in Ops : ClearPopped(d, o)
    \/ ClearSyncTarget(d)

CloseStep ==
    \/ CollectOperations \/ ReleaseTriggered \/ AllCleared \/ Closed
    \/ \E o \in Ops : TriggerSyncFinished(o) \/ ClearSyncOperations(o)
    \/ \E d \in Devices : KillContext(d)

\* Threads that run go on running: a device task comes to its final status (the
\* watchdog of SyncTask), a scheduled task is run.  A call is never forced.
Running ==
    \/ \E o \in Ops : CallerStep(o) \/ FinishStep(o) \/ QueuedCallback(o) \/ StopSyncRemove(o)
    \/ \E d \in Devices : ContextStep(d)
    \/ \E t \in Threads : FinishIfAll(t)
    \/ CloseStep

Calling ==
    \/ \E o \in Ops : SyncParamCheck(o)
    \/ \E d \in Devices : ClearAllSyncTask(d)
    \/ StopSync \/ DisableManualSync \/ EnableManualSync \/ Close

Next == Running \/ Calling

Spec == Init /\ [][Next]_vars /\ WF_vars(Running)
-----------------------------------------------------------------------------
(* Properties *)

\* Type correctness of the syncer, its operations and the contexts.
TypeOK ==
    /\ pc \in [Ops -> {"idle", "checked", "refused", "counted", "adding", "inserting",
                       "added", "listed", "finishing", "waiting", "returned"}]
    /\ todo \in [Ops -> SUBSET Devices]
    /\ op \in [Ops -> [refs : Nat, killed : BOOLEAN, finished : BOOLEAN,
                       status : [Devices -> Finals \union {"WAITING"}],
                       semaphore : {0, 1}, pending : {0, 1}, calls : {0, 1}]]
    /\ fin \in [Ops -> [by : Threads \union {Caller, Closer, Nobody},
                        at : {"no", "call", "remove", "removing"}]]
    /\ rem \in [Ops -> {"no", "release", "kill"}]
    /\ syncOperationMap \subseteq Ops /\ syncIdList \subseteq Ops /\ stopping \subseteq Ops
    /\ queuedManualSyncSize \in 0 .. Cardinality(Ops) /\ manualSyncEnable \in BOOLEAN
    /\ initialized \in BOOLEAN /\ closing \in BOOLEAN /\ stopCalled \in BOOLEAN
    /\ closeStage \in {"open", "collect", "trigger", "clear", "engine", "closed"}
    /\ collected \subseteq Ops /\ triggering \in collected \union {None}
    /\ queue \in [Devices -> Seq(Ops)]
    /\ current \in [Devices -> Ops \union {None}]
    /\ popped \in [Devices -> SUBSET Ops]
    /\ busy \in [Threads -> Ops \union {None}]
    /\ killedContext \subseteq Devices

Created(o) == pc[o] \notin {"idle", "checked", "refused", "counted"}

Count(holds) == IF holds THEN 1 ELSE 0

\* The reference count of an operation is the number of its holders: its creator
\* until PrepareSync returns, the map or the thread that took it out of the map,
\* every context it is current in, Close, and the queued callback.  So no path
\* leaks a reference or drops one twice.
RefsExact == \A o \in Ops :
    op[o].refs = Count(Created(o) /\ pc[o] # "returned")
               + Count(o \in syncOperationMap \/ rem[o] # "no")
               + Cardinality({d \in Devices : current[d] = o})
               + Count(o \in collected) + op[o].pending

\* A queued target holds no reference, yet the operation it points to is never
\* freed: whoever drops the last reference has killed it, which empties the queues.
\* The same for the operation a device task is inside of.  And no target is lost: a
\* device an operation waits for has it queued or current, or in the hands of
\* ClearAllSyncTask, until its context is killed.
QueuedIsAlive ==
    /\ TypeOK
    /\ \A d \in Devices : \A o \in Targets(queue[d]) \union {busy[<<"task", d>>]} :
          o # None => Alive(o)
    /\ \A o \in Ops : \A d \in DevicesOf[o] :
          Created(o) /\ ~op[o].killed /\ op[o].status[d] = "WAITING" =>
              \/ d \in todo[o] \/ o \in Targets(queue[d]) \/ current[d] = o
              \/ o \in popped[d] \/ d \in killedContext

\* ClearAllSyncTask is at work on an operation that was freed under its hands.
UseAfterFree == \E o \in Ops :
    /\ Created(o) /\ ~Alive(o)
    /\ \E d \in Devices : o \in popped[d] \/ busy[<<"offline", d>>] = o

\* An operation is reported exactly once by the time it is freed, unless it was
\* stopped or closed before it was finished, its callback could not be scheduled, or
\* behaviour is undefined by now.
ReportedOnce == \A o \in Ops :
    Created(o) /\ ~Alive(o) /\ ~UseAfterFree /\ ~IsAutoSync(o) /\ "schedule" \notin Events =>
        op[o].calls = 1 \/ (~op[o].finished /\ (stopCalled \/ ~initialized))

\* While manual sync is disabled no manual sync that DisableManualSync would have
\* to wait for is on its way: neither one that passed the check before, nor one
\* that is still in the map.
DisabledIsQuiet == ~manualSyncEnable => \A o \in Ops :
    ~ /\ IsQueued(o)
      /\ \/ pc[o] \in {"counted", "adding", "inserting"}
         \/ o \in syncOperationMap

\* A blocking Sync comes back, unless the syncer is closed meanwhile.
WaiterReleased == \A o \in Ops :
    pc[o] = "waiting" ~> (pc[o] = "returned" \/ ~initialized \/ UseAfterFree)

\* After ClearSyncOperations of Close, a blocking Sync that is out of the map has
\* been notified or is being so: "caller won't blocked for block sync".
ClosedCallersReleased == closeStage \in {"engine", "closed"} => \A o \in Ops :
    IsBlockSync(o) /\ pc[o] = "waiting" /\ op[o].killed =>
        op[o].semaphore > 0 \/ rem[o] = "release"
=============================================================================
