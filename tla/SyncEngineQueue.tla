-------------------------- MODULE SyncEngineQueue --------------------------
(***************************************************************************)
(* The message side of SyncEngine (sync_engine.cpp): a communicator thread *)
(* hands a message in, it runs in a pool thread or waits in msgQueue_ when *)
(* MAX_EXEC_NUM tasks are counted, and a task that ends takes the next one *)
(* from the queue.  Close stops the communicators, kills the contexts and  *)
(* clears the queue while pool threads are still at work.                  *)
(*                                                                         *)
(* A step is one critical section of queueLock_ or contextMapLock_.  The   *)
(* progress of a message stands for the thread that carries it.  A task    *)
(* for LOCAL_DATA_CHANGED runs inside the thread that took it.             *)
(*                                                                         *)
(* A definition named ...Mutant is a deliberately wrong variant of the     *)
(* definition below it and takes no part in the specification.             *)
(***************************************************************************)
EXTENDS Integers, Sequences, FiniteSets, Functions

CONSTANTS
    Messages,        \* what the remotes send
    Device,          \* device of a message
    LocalDataChanged, \* messages with id LOCAL_DATA_CHANGED
    Feedback,        \* messages that report an error back
    Size,            \* GetMsgSize
    Communicators,   \* communicator_ and the equal communicators
    MaxExecNum,      \* MAX_EXEC_NUM
    MaxQueueCacheSize, \* maxQueueCacheSize_
    ScheduleMayFail, \* ScheduleTask can return an error
    MaxReceive,      \* bound: how many of the messages arrive
    MaxClose         \* bound: how often the engine is closed

Nobody == "nobody"

ASSUME ConstantsAssumption ==
    /\ Device \in [Messages -> STRING] /\ Size \in [Messages -> Nat]
    /\ LocalDataChanged \subseteq Messages /\ Feedback \subseteq Messages
    /\ \A m \in Messages : m \in Feedback <=> Size[m] = 0
    /\ MaxExecNum \in Nat \ {0} /\ MaxQueueCacheSize \in Nat
    /\ MaxReceive \in Nat /\ MaxClose \in Nat /\ ScheduleMayFail \in BOOLEAN
    /\ Messages \cap Communicators = {} /\ Nobody \notin Messages \cup Communicators
    /\ IsFiniteSet(Communicators) /\ IsFiniteSet(Messages)

Devices == {Device[m] : m \in Messages}

VARIABLES
    stage,          \* how far each message is
    by,             \* the communicator or the task whose thread took it
    msgQueue, queueCacheSize, execTaskCount,
    registered,     \* communicators whose callback is registered
    isActive, closing, closes,
    contexts,       \* syncTaskContextMap_
    orphans,        \* devices of live contexts that are not in the map
    contextRefs     \* references taken for messages

queueVars == <<msgQueue, queueCacheSize>>
closeVars == <<registered, isActive, closing, closes>>
contextVars == <<contexts, orphans, contextRefs>>
vars == <<stage, by, queueVars, execTaskCount, closeVars, contextVars>>

Stages == {"net", "accepted", "queued", "taken", "context", "counted", "failed", "pool",
           "running", "done", "leaving", "gone"}

Init ==
    /\ stage = [m \in Messages |-> "net"]
    /\ by = [m \in Messages |-> Nobody]
    /\ msgQueue = <<>> /\ queueCacheSize = 0 /\ execTaskCount = 0
    /\ registered = Communicators
    /\ isActive = TRUE /\ closing = "open" /\ closes = 0
    /\ contexts = [d \in Devices |-> "none"] /\ orphans = {}
    /\ contextRefs = 0

Move(m, to) == stage' = [stage EXCEPT ![m] = to]

(* The calls of thread p that have not returned yet: a task scheduled to   *)
(* the pool runs on, one for LOCAL_DATA_CHANGED ends within the call.      *)
InCall(m) ==
    \/ stage[m] \in {"accepted", "taken", "context", "counted", "failed"}
    \/ m \in LocalDataChanged /\ stage[m] \in {"running", "done", "leaving"}

Returned(p) == \A m \in Messages : by[m] = p => ~InCall(m)

-----------------------------------------------------------------------------
(* MessageReciveCallback, in the thread of communicator c: a message that  *)
(* comes when the engine is closing is deleted, ...                        *)
MessageReciveCallback(c, m) ==
    /\ c \in registered /\ Returned(c)
    /\ stage[m] = "net"
    /\ Cardinality({x \in Messages : stage[x] # "net"}) < MaxReceive
    /\ Move(m, IF isActive THEN "accepted" ELSE "gone")
    /\ by' = [by EXCEPT ![m] = c]
    /\ UNCHANGED <<queueVars, execTaskCount, closeVars, contextVars>>

(* GetMsgSize of a feedback message is 0, since it carries no packet; when *)
(* the message is received its size is not even asked (IsSkipCalculateLen).*)
GetMsgSizeMutant(m) == IF m \in Feedback THEN 1 ELSE Size[m]
GetMsgSize(m) == Size[m]
ReceivedSize(m) == IF m \in Feedback THEN 0 ELSE GetMsgSize(m)

(* ... one that the queue has no room for too, even if it need not wait.   *)
Fits(m) == queueCacheSize + ReceivedSize(m) <= MaxQueueCacheSize

Discard(m) ==
    /\ stage[m] = "accepted"
    /\ ~Fits(m)
    /\ Move(m, "gone")
    /\ UNCHANGED <<by, queueVars, execTaskCount, closeVars, contextVars>>

MayRunMutant == execTaskCount <= MaxExecNum
MayRun == execTaskCount < MaxExecNum

(* PutMsgIntoQueue: a change of the same device that already waits makes   *)
(* a second one needless.                                                  *)
IsRepeated(m) ==
    /\ m \in LocalDataChanged
    /\ \E x \in Range(msgQueue) \cap LocalDataChanged : Device[x] = Device[m]

PutMsgIntoQueue(m) ==
    /\ stage[m] = "accepted"
    /\ Fits(m) /\ ~MayRun
    /\ IF IsRepeated(m)
       THEN Move(m, "gone") /\ UNCHANGED queueVars
       ELSE /\ Move(m, "queued")
            /\ msgQueue' = Append(msgQueue, m)
            /\ queueCacheSize' = queueCacheSize + ReceivedSize(m)
    /\ UNCHANGED <<by, execTaskCount, closeVars, contextVars>>

MessageReciveCallbackInner(m) ==
    /\ stage[m] = "accepted"
    /\ Fits(m) /\ MayRun
    /\ Move(m, "taken")
    /\ UNCHANGED <<by, queueVars, execTaskCount, closeVars, contextVars>>

-----------------------------------------------------------------------------
(* GetConextForMsg: a context that is being killed refuses the message; a  *)
(* device without one gets a new context, which is not in the map when the *)
(* map still has an entry for the device.                                  *)
Uninitialized == closing = "closed"

GetConextForMsg(m) ==
    LET d == Device[m]
    IN /\ stage[m] = "taken"
       /\ IF contexts[d] = "killed" \/ (contexts[d] # "live" /\ Uninitialized)
          THEN Move(m, "gone") /\ UNCHANGED contextVars
          ELSE /\ Move(m, "context")
               /\ contextRefs' = contextRefs + 1
               /\ contexts' = IF contexts[d] = "none"
                              THEN [contexts EXCEPT ![d] = "live"] ELSE contexts
               /\ orphans' = IF contexts[d] = "null" THEN orphans \cup {d}
                                                     ELSE orphans
       /\ UNCHANGED <<by, queueVars, execTaskCount, closeVars>>

(* ScheduleDealMsg: the task is counted, then given to the pool or, for    *)
(* LOCAL_DATA_CHANGED, run.                                                *)
Incremented(m) == execTaskCount + 1

IncExecTaskCount(m) ==
    /\ stage[m] = "context"
    /\ execTaskCount' = Incremented(m)
    /\ Move(m, "counted")
    /\ UNCHANGED <<by, queueVars, closeVars, contextVars>>

ScheduleTask(m) ==
    /\ stage[m] = "counted"
    /\ Move(m, IF m \in LocalDataChanged THEN "running" ELSE "pool")
    /\ UNCHANGED <<by, queueVars, execTaskCount, closeVars, contextVars>>

ScheduleTaskFails(m) ==
    /\ ScheduleMayFail
    /\ stage[m] = "counted" /\ m \notin LocalDataChanged
    /\ Move(m, "failed")
    /\ UNCHANGED <<by, queueVars, execTaskCount, closeVars, contextVars>>

(* The count is taken back.  DealMsgUtilQueueEmpty also gives its context  *)
(* back; MessageReciveCallbackInner returns the error and does not.        *)
DecAfterFailure == execTaskCount - 1

RefsAfterFailureMutant(m) == contextRefs - (IF by[m] \in Communicators THEN 1 ELSE 2)
RefsAfterFailure(m) == contextRefs - (IF by[m] \in Communicators THEN 0 ELSE 1)

ScheduleDealMsgFails(m) ==
    /\ stage[m] = "failed"
    /\ Move(m, "gone")
    /\ execTaskCount' = DecAfterFailure
    /\ contextRefs' = RefsAfterFailure(m)
    /\ UNCHANGED <<by, queueVars, closeVars, contexts, orphans>>

(* A pool thread takes the task; ReceiveMessageCallback, or the callback   *)
(* for a remote change, runs to its end.                                   *)
RunTask(m) ==
    /\ stage[m] = "pool"
    /\ Move(m, "running")
    /\ UNCHANGED <<by, queueVars, execTaskCount, closeVars, contextVars>>

AfterCallbackMutant(m) == IF m \in LocalDataChanged THEN "leaving" ELSE "done"
AfterCallback(m) == "done"

MessageReciveCallbackTask(m) ==
    /\ stage[m] = "running"
    /\ Move(m, AfterCallback(m))
    /\ UNCHANGED <<by, queueVars, execTaskCount, closeVars, contextVars>>

-----------------------------------------------------------------------------
(* ScheduleTaskOut: DealMsgUtilQueueEmpty takes the first message of the   *)
(* queue, if there is one, ...                                             *)
DealMsgUtilQueueEmpty(m) ==
    /\ stage[m] = "done"
    /\ IF msgQueue = <<>>
       THEN Move(m, "leaving") /\ UNCHANGED <<by, queueVars>>
       ELSE LET x == Head(msgQueue)
            IN /\ stage' = [stage EXCEPT ![m] = "leaving", ![x] = "taken"]
               /\ by' = [by EXCEPT ![x] = m]
               /\ msgQueue' = Tail(msgQueue)
               /\ queueCacheSize' = queueCacheSize - GetMsgSize(x)
    /\ UNCHANGED <<execTaskCount, closeVars, contextVars>>

(* ... and the task is no longer counted once that call returned.          *)
ScheduleTaskOut(m) ==
    /\ stage[m] = "leaving"
    /\ Returned(m)
    /\ Move(m, "gone")
    /\ execTaskCount' = execTaskCount - 1
    /\ contextRefs' = contextRefs - 1
    /\ UNCHANGED <<by, queueVars, closeVars, contexts, orphans>>

-----------------------------------------------------------------------------
(* Close: no message is accepted, the callbacks are unregistered one after *)
(* the other (each waits for the call that runs), the contexts are killed, *)
(* with the map unlocked, and the queue is cleared.                        *)
Close ==
    /\ closing = "open" /\ closes < MaxClose
    /\ isActive' = FALSE
    /\ closing' = "unregister"
    /\ closes' = closes + 1
    /\ UNCHANGED <<stage, by, queueVars, execTaskCount, registered, contextVars>>

UnRegistersMutant(c) == c \in registered
UnRegisters(c) == c \in registered /\ Returned(c)

UnRegCommunicatorsCallback(c) ==
    /\ closing = "unregister"
    /\ UnRegisters(c)
    /\ registered' = registered \ {c}
    /\ closing' = IF registered' = {} THEN "contexts" ELSE closing
    /\ UNCHANGED <<stage, by, queueVars, execTaskCount, isActive, closes,
                   contextVars>>

KillContext(d) ==
    /\ closing = "contexts"
    /\ contexts[d] = "live"
    /\ contexts' = [contexts EXCEPT ![d] = "killed"]
    /\ UNCHANGED <<stage, by, queueVars, execTaskCount, closeVars, orphans,
                   contextRefs>>

ForgetContext(d) ==
    /\ closing = "contexts"
    /\ contexts[d] = "killed"
    /\ contexts' = [contexts EXCEPT ![d] = "null"]
    /\ UNCHANGED <<stage, by, queueVars, execTaskCount, closeVars, orphans,
                   contextRefs>>

ClearContexts ==
    /\ closing = "contexts"
    /\ \A d \in Devices : contexts[d] \in {"none", "null"}
    /\ contexts' = [d \in Devices |-> "none"]
    /\ closing' = "queue"
    /\ UNCHANGED <<stage, by, queueVars, execTaskCount, registered, isActive,
                   closes, orphans, contextRefs>>

(* The sizes of the messages of S added up: one unit for each byte.        *)
TotalSize(size, S) == Cardinality(UNION {{m} \X (1 .. size[m]) : m \in S})

ClearQueue ==
    /\ closing = "queue"
    /\ stage' = [m \in Messages |-> IF m \in Range(msgQueue) THEN "gone"
                                                             ELSE stage[m]]
    /\ msgQueue' = <<>>
    /\ queueCacheSize' =
           queueCacheSize - TotalSize([m \in Messages |-> GetMsgSize(m)],
                                      Range(msgQueue))
    /\ closing' = "closed"
    /\ UNCHANGED <<by, execTaskCount, registered, isActive, closes, contextVars>>

(* The same engine is initialized again.                                   *)
Initialize ==
    /\ closing = "closed"
    /\ registered' = Communicators
    /\ isActive' = TRUE
    /\ closing' = "open"
    /\ UNCHANGED <<stage, by, queueVars, execTaskCount, closes, contextVars>>

-----------------------------------------------------------------------------
Receive == \E c \in Communicators, m \in Messages : MessageReciveCallback(c, m)

Task(m) ==
    \/ Discard(m) \/ PutMsgIntoQueue(m) \/ MessageReciveCallbackInner(m)
    \/ GetConextForMsg(m) \/ IncExecTaskCount(m) \/ ScheduleTask(m)
    \/ ScheduleTaskFails(m) \/ ScheduleDealMsgFails(m) \/ RunTask(m)
    \/ MessageReciveCallbackTask(m) \/ DealMsgUtilQueueEmpty(m)
    \/ ScheduleTaskOut(m)

Closing ==
    \/ ClearContexts \/ ClearQueue
    \/ \E c \in Communicators : UnRegCommunicatorsCallback(c)
    \/ \E d \in Devices : KillContext(d) \/ ForgetContext(d)

Next == Receive \/ (\E m \in Messages : Task(m)) \/ Close \/ Closing \/ Initialize

(* A call in a thread goes on, Close included once it has begun, and the   *)
(* pool runs what it was given.                                            *)
Spec == Init /\ [][Next]_vars /\ (\A m \in Messages : WF_vars(Task(m)))
             /\ WF_vars(Closing)

-----------------------------------------------------------------------------
TypeOK ==
    /\ stage \in [Messages -> Stages]
    /\ by \in [Messages -> Messages \cup Communicators \cup {Nobody}]
    /\ msgQueue \in Seq(Messages)
    /\ queueCacheSize \in Nat /\ execTaskCount \in Nat /\ contextRefs \in Nat
    /\ registered \subseteq Communicators
    /\ isActive \in BOOLEAN /\ closes \in 0..MaxClose
    /\ closing \in {"open", "unregister", "contexts", "queue", "closed"}
    /\ contexts \in [Devices -> {"none", "live", "killed", "null"}]
    /\ orphans \subseteq Devices

Counted == {m \in Messages : stage[m] \in {"counted", "failed", "pool",
                                           "running", "done", "leaving"}}

(* execTaskCount_ is the number of tasks between ScheduleDealMsg and the   *)
(* end of ScheduleTaskOut, so it does not drift on an error path, and the  *)
(* engine neither stops accepting nor runs without limit.                  *)
ExecCountExact == execTaskCount = Cardinality(Counted)

(* queueCacheSize_ is the size of what waits in the queue, through refused *)
(* repetitions, feedback messages and Close; it is shared by all engines,  *)
(* so a drift would never heal.                                            *)
CacheSizeExact ==
    /\ queueCacheSize = TotalSize(Size, Range(msgQueue))
    /\ \A m \in Messages : stage[m] = "queued" <=> m \in Range(msgQueue)

(* What the engine decides by is what is there: whether a message is       *)
(* queued, refused or given a task depends on both counters.               *)
CountersExact == TypeOK /\ ExecCountExact /\ CacheSizeExact

(* Tasks that have work before them: taken, counted and not yet looking at *)
(* the queue.  Every communicator may pass the check of MAX_EXEC_NUM       *)
(* before the others count; a task that takes over from another adds none. *)
Working == {m \in Messages : stage[m] \in {"taken", "context", "counted",
                                           "failed", "pool", "running", "done"}}
ThreadsBounded ==
    Cardinality(Working) <= MaxExecNum - 1 + Cardinality(Communicators)

(* Once Close has cleared the queue nothing enters it until the engine is  *)
(* initialized again (UnRegCommunicatorsCallback waits for the callbacks), *)
(* and before that at most one LOCAL_DATA_CHANGED of a device waits        *)
(* (PutMsgIntoQueue).                                                      *)
NothingQueuedAfterClose ==
    /\ closing = "closed" => msgQueue = <<>>
    /\ \A x, y \in Range(msgQueue) \cap LocalDataChanged :
          Device[x] = Device[y] => x = y

(* Every thread that works for a message holds a reference to its context  *)
(* ("IncRef for context to make sure context is valid, when task run       *)
(* another thread", GetConextForMsg), so that no error path frees a        *)
(* context in use.  (There may be more: MessageReciveCallbackInner keeps   *)
(* the one of a message it could not schedule.)                            *)
ContextStaysValid ==
    contextRefs >= Cardinality({m \in Messages : stage[m] = "context"} \cup Counted)

(* As long as one task has yet to look at the queue, every waiting message *)
(* gets its turn (ScheduleTaskOut, DealMsgUtilQueueEmpty).  A task that    *)
(* could not be scheduled does not look at the queue any more.             *)
QueueMoves ==
    [](\A m \in Messages : stage[m] # "failed") =>
        \A m \in Messages :
            stage[m] = "queued" /\ Working # {} ~> stage[m] # "queued"
=============================================================================
