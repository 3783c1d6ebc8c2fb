------------------------------ MODULE SyncTask ------------------------------
(***************************************************************************)
(* The sync tasks of one device: SyncTaskContext with its two queues of    *)
(* targets (sync_task_context.cpp, single_ver_sync_task_context.cpp), the  *)
(* state machine that runs one target at a time (sync_state_machine.cpp,   *)
(* single_ver_sync_state_machine.cpp), and SyncEngine::ExecSyncTask that   *)
(* starts it.  User threads add operations, pool threads run ExecSyncTask  *)
(* and SyncStep, the timer thread runs TimeoutCallback, communicator       *)
(* threads bring the peer's messages and its pull requests.                *)
(*                                                                         *)
(* stateMachineLock_ is "free" or says what its holder does next: "step"   *)
(* is the handler of currentState_, "empty" an ExecNextTask that has seen  *)
(* both queues empty, "moved" one that has the next target (both hold the  *)
(* lock of the context too), "added" and "reading" AddPullResponseTarget   *)
(* once its target is queued.  execStage says the same of an ExecSyncTask: *)
(* "empty" and "check" hold the lock of the context, "start" does not.     *)
(*                                                                         *)
(* An operation names its session: a target is moved once, and             *)
(* requestSessionId_ is taken to be new each time.  Whether time sync and  *)
(* ability sync are needed, and what data sync answers, is left open.      *)
(* The peer's version is above SOFTWARE_VERSION_RELEASE_2_0.               *)
(*                                                                         *)
(* A definition named ...Mutant is a deliberately wrong variant of the     *)
(* definition below it and takes no part in the specification.             *)
(***************************************************************************)
EXTENDS Integers, Sequences, FiniteSets, Functions

CONSTANTS
    Ops,             \* sync operations of the local user
    Pulls,           \* sessions of the peer's pull requests
    None,            \* no session, no operation
    AutoRetryTimes,  \* AUTO_RETRY_TIMES
    ManualRetryTimes, \* MANUAL_RETRY_TIMES
    Scenarios        \* the cases of this instance, see below

\* mode: what the user asks for; auto: the operations with IsAutoSync(); pulls: what
\* the peer pulls; retry: isSyncRetry_; faults: what goes wrong; messages: a bound on
\* what the peer sends
ASSUME ConstantsAssumption ==
    /\ IsFiniteSet(Ops) /\ IsFiniteSet(Pulls)
    /\ None \notin Ops \cup Pulls /\ Ops \cap Pulls = {}
    /\ AutoRetryTimes \in Nat /\ ManualRetryTimes \in Nat
    /\ \A c \in Scenarios :
          /\ DOMAIN c.mode \subseteq Ops
          /\ \A o \in DOMAIN c.mode :
                c.mode[o] \in {"PUSH", "PULL", "PUSH_AND_PULL", "SUBSCRIBE_QUERY"}
          /\ c.auto \subseteq Ops /\ c.pulls \subseteq Pulls
          /\ c.retry \in BOOLEAN /\ c.messages \in Nat
          /\ c.faults \subseteq {"timer", "permission", "send", "ekey", "error",
                                 "comm", "offline", "stop", "write"}

Sessions == Ops \cup Pulls \cup {None}
\* OP_FAILED stands for every failure that no other status here names
FinalStatuses == {"FINISHED_ALL", "TIMEOUT", "PERMISSION_CHECK_FAILED",
                  "COMM_ABNORMAL", "EKEYREVOKED_FAILURE", "FAILED"}
Statuses == {"WAITING", "SEND_FINISHED", "RECV_FINISHED"} \cup FinalStatuses
Modes == {"PUSH", "PULL", "PUSH_AND_PULL", "SUBSCRIBE_QUERY", "RESPONSE_PULL",
          "INVALID_MODE"}
PushModes == {"PUSH", "PUSH_AND_PULL", "RESPONSE_PULL"}

VARIABLES
    scenario,     \* the case, one of Scenarios, never changed
    requestQueue, responseQueue, \* requestTargetQueue_, responseTargetQueue_
    called,       \* operations handed to AddSyncOperation
    adding, reading, \* operations in AddSyncTarget: target queued, retry cancelled
    taskExecStatus,
    execTasks,    \* ExecSyncTask calls handed to the pool
    execStage,    \* the ExecSyncTask that set RUNNING, see below
    currentState, machineLock,
    steps,        \* SyncStep calls handed to the pool
    op, mode, isAutoSync, requestSession, responseSession, \* current target
    syncTaskRetryStatus, taskErrCode, commNormal,
    timer, watchDog, retryTime, \* timerId_ > 0, watchDogStarted_, retryTime_
    fired,        \* the timer thread: which timer it runs for, and how far
    status,       \* SyncOperation::statuses_ of this device
    killed,       \* operations that are killed
    removing,     \* killed operations whose target is not yet removed
    dataSession, dataMode, \* sessionId_ and mode_ of SingleVerDataSync
    reSendMap,    \* reSendMap_: "empty", "waiting" (not sent yet) or "sent"
    lastFullSyncTaskStatus,
    unsent,       \* data above the local water mark: "none", "new", or "mapped"
                  \* when all of it is in reSendMap_ after a send that timed out
    undelivered,  \* data below the mark was sent and not acknowledged
    sent,         \* requests the peer may answer, also late or twice
    late,         \* ability and control acks that passed the session check
    aborting,     \* threads about to call CommErrAbort
    messages,     \* how many messages the peer may still send
    earned        \* which half of its work a session was confirmed

queueVars   == <<requestQueue, responseQueue, called, adding, reading>>
execVars    == <<taskExecStatus, execTasks, execStage>>
machineVars == <<currentState, machineLock, steps>>
targetVars  == <<op, mode, isAutoSync, requestSession, responseSession,
                 syncTaskRetryStatus, taskErrCode, commNormal>>
timerVars   == <<timer, watchDog, retryTime, fired>>
statusVars  == <<status, lastFullSyncTaskStatus>>
killVars    == <<killed, removing>>
dataVars    == <<dataSession, dataMode, reSendMap, unsent, undelivered, sent>>
netVars     == <<late, messages>>
vars == <<queueVars, execVars, machineVars, targetVars, timerVars, statusVars,
          killVars, dataVars, netVars, aborting, earned>>

Mode == scenario.mode
AutoSync == scenario.auto
IsSyncRetry == scenario.retry
Faults == scenario.faults

Init ==
    /\ scenario \in Scenarios
    /\ requestQueue = <<>> /\ responseQueue = <<>> /\ called = {}
    /\ adding = {} /\ reading = {}
    /\ taskExecStatus = "INIT" /\ execTasks = 0 /\ execStage = "no"
    /\ currentState = "IDLE" /\ machineLock = "free" /\ steps = 0
    /\ op = None /\ mode = "INVALID_MODE" /\ isAutoSync = FALSE
    /\ requestSession = None /\ responseSession = None
    /\ syncTaskRetryStatus = FALSE /\ taskErrCode = "E_OK" /\ commNormal = TRUE
    /\ timer = FALSE /\ watchDog = FALSE /\ retryTime = 0 /\ fired = "no"
    /\ status = [o \in Ops |-> "WAITING"] /\ lastFullSyncTaskStatus = "WAITING"
    /\ killed = {} /\ removing = {}
    /\ dataSession = None /\ dataMode = "INVALID_MODE"
    /\ reSendMap = "empty" /\ unsent = "new" /\ undelivered = FALSE /\ sent = {}
    /\ late = {} /\ messages = scenario.messages /\ aborting = 0 /\ earned = {}

----------------------------------------------------------------------------
(* Helpers *)

Final(s) == s \in FinalStatuses
QueuesEmpty == requestQueue = <<>> /\ responseQueue = <<>>
\* ExecNextTask looks at the queues without the lock of the context
ContextFreeMutant == execStage \notin {"empty", "check"} /\ machineLock # "moved"
\* the lock of the context object, and stateMachineLock_
ContextFree == execStage \notin {"empty", "check"} /\ machineLock \notin {"empty", "moved"}
MachineFree == machineLock = "free"

SwitchTable ==
    [IDLE |-> [START_SYNC |-> "TIME_SYNC"],
     TIME_SYNC |-> [TIME_SYNC_FINISHED |-> "ABILITY_SYNC",
        TIME_OUT |-> "SYNC_TIME_OUT", INNER_ERR |-> "INNER_ERR"],
     ABILITY_SYNC |-> [ABILITY_SYNC_FINISHED |-> "START_INITIACTIVE_DATA_SYNC",
        TIME_OUT |-> "SYNC_TIME_OUT", INNER_ERR |-> "INNER_ERR",
        CONTROL_CMD |-> "SYNC_CONTROL_CMD", VERSION_NOT_SUPPOR |-> "INNER_ERR"],
     START_INITIACTIVE_DATA_SYNC |-> [NEED_ABILITY_SYNC |-> "ABILITY_SYNC",
        TIME_OUT |-> "SYNC_TIME_OUT", INNER_ERR |-> "INNER_ERR",
        SEND_FINISHED |-> "START_PASSIVE_DATA_SYNC",
        RE_SEND_DATA |-> "START_INITIACTIVE_DATA_SYNC"],
     START_PASSIVE_DATA_SYNC |-> [SEND_FINISHED |-> "START_PASSIVE_DATA_SYNC",
        RESPONSE_TASK_FINISHED |-> "WAIT_FOR_RECEIVE_DATA_FINISH",
        TIME_OUT |-> "SYNC_TIME_OUT", INNER_ERR |-> "INNER_ERR",
        NEED_ABILITY_SYNC |-> "ABILITY_SYNC",
        RE_SEND_DATA |-> "START_PASSIVE_DATA_SYNC"],
     WAIT_FOR_RECEIVE_DATA_FINISH |-> [RECV_FINISHED |-> "SYNC_TASK_FINISHED",
        START_PULL_RESPONSE |-> "START_PASSIVE_DATA_SYNC",
        TIME_OUT |-> "SYNC_TIME_OUT", INNER_ERR |-> "INNER_ERR",
        NEED_ABILITY_SYNC |-> "ABILITY_SYNC"],
     SYNC_CONTROL_CMD |-> [SEND_FINISHED |-> "SYNC_TASK_FINISHED",
        TIME_OUT |-> "SYNC_TIME_OUT", INNER_ERR |-> "INNER_ERR",
        NEED_ABILITY_SYNC |-> "ABILITY_SYNC"],
     SYNC_TASK_FINISHED |-> [ALL_TASK_FINISHED |-> "IDLE", START_SYNC |-> "TIME_SYNC"],
     SYNC_TIME_OUT |-> [ANY |-> "SYNC_TASK_FINISHED"],
     INNER_ERR |-> [ANY |-> "SYNC_TASK_FINISHED"]]
States == DOMAIN SwitchTable

Accepts(s, e) == e \in DOMAIN SwitchTable[s]

\* SwitchMachineState, then the handler of the new state while the lock is held;
\* an event that the state does not accept is dropped
SwitchStateAndStep(e) ==
    IF Accepts(currentState, e)
    THEN /\ currentState' = SwitchTable[currentState][e]
         /\ machineLock' = IF currentState' = "IDLE" THEN "free" ELSE "step"
    ELSE machineLock' = "free" /\ UNCHANGED currentState

\* the loop of SyncStepInner after a handler returned e
Wait == machineLock' = "free" /\ UNCHANGED currentState

GetSyncRetryTimes ==
    IF isAutoSync \/ mode = "SUBSCRIBE_QUERY" THEN AutoRetryTimes ELSE ManualRetryTimes
MayRetry == syncTaskRetryStatus /\ retryTime < GetSyncRetryTimes

\* TransformErrCodeToEvent(-E_TIMEOUT): WAIT_TIME_OUT is in no row of the table
TransforTimeOutErrCodeToEvent == IF MayRetry THEN "WAIT_TIME_OUT" ELSE "TIME_OUT"

\* a callback of the removed timer may be under way; the new timer has another id
AfterStopTimer ==
    CASE fired = "current" -> "stale"
      [] fired = "expired" -> "expiredStale"
      [] OTHER -> fired
StopTimer == timer' = FALSE /\ fired' = IF timer THEN AfterStopTimer ELSE fired
StopWatchDog == StopTimer /\ watchDog' = FALSE

\* the new timer, and what becomes of the callback of the old one
SetTimer == timer' \in {TRUE} \cup (IF "timer" \in Faults THEN {FALSE} ELSE {})
\* the old timer is removed and no new one is set
ResetWatchDogMutant ==
    IF ~watchDog THEN UNCHANGED timerVars
    ELSE StopTimer /\ retryTime' = 0 /\ UNCHANGED watchDog
ResetWatchDog ==
    IF ~watchDog THEN UNCHANGED timerVars
    ELSE /\ fired' = IF timer THEN AfterStopTimer ELSE fired
         /\ retryTime' = 0 /\ SetTimer /\ UNCHANGED watchDog

SetStatus(o, s) ==
    IF o \in killed \/ Final(status[o]) THEN status ELSE [status EXCEPT ![o] = s]

\* one half that finished ends the operation, whatever became of the other
MergedStatusMutant(s, err) ==
    IF s \in {"SEND_FINISHED", "RECV_FINISHED"} THEN "FINISHED_ALL" ELSE s
MergedStatus(s, err) ==
    IF \/ s = "SEND_FINISHED" /\ status[op] = "RECV_FINISHED"
       \/ s = "RECV_FINISHED" /\ status[op] = "SEND_FINISHED"
    THEN IF err = "E_EKEYREVOKED" THEN "EKEYREVOKED_FAILURE" ELSE "FINISHED_ALL"
    ELSE s

SaveLastPushTaskExecStatus(s) ==
    lastFullSyncTaskStatus' = IF QueuesEmpty THEN "WAITING"
                              ELSE IF mode \in PushModes THEN s
                              ELSE lastFullSyncTaskStatus

SetOperationStatus(s, err) ==
    IF op = None THEN UNCHANGED statusVars
    ELSE /\ status' = SetStatus(op, MergedStatus(s, err))
         /\ IF Final(MergedStatus(s, err))
            THEN SaveLastPushTaskExecStatus(MergedStatus(s, err))
            ELSE UNCHANGED lastFullSyncTaskStatus

GetOperationStatus == IF op = None THEN "FINISHED_ALL" ELSE status[op]

\* SingleVerSyncTaskContext::Clear without its StopTimer
ClearTarget ==
    /\ op' = None /\ mode' = "INVALID_MODE" /\ isAutoSync' = FALSE
    /\ requestSession' = None /\ responseSession' = None /\ taskErrCode' = "E_OK"
    /\ UNCHANGED <<syncTaskRetryStatus, commNormal>>

CopyTargetData(o) ==
    /\ op' = o /\ mode' = Mode[o] /\ isAutoSync' = (o \in AutoSync)
    /\ requestSession' = o /\ taskErrCode' = "E_OK" /\ commNormal' = TRUE
    /\ syncTaskRetryStatus' = (IsSyncRetry \/ o \in AutoSync \/ Mode[o] = "SUBSCRIBE_QUERY")
    /\ UNCHANGED responseSession

CopyResponseTarget(p) ==
    /\ op' = None /\ mode' = "RESPONSE_PULL" /\ isAutoSync' = FALSE
    /\ responseSession' = p /\ taskErrCode' = "E_OK" /\ commNormal' = TRUE
    /\ syncTaskRetryStatus' = IsSyncRetry /\ UNCHANGED requestSession

\* requests first; the target of a killed operation is skipped
MoveToNextTarget ==
    \/ \E i \in DOMAIN requestQueue :
          /\ requestQueue[i] \notin killed /\ \A j \in 1..(i - 1) : requestQueue[j] \in killed
          /\ requestQueue' = SubSeq(requestQueue, i + 1, Len(requestQueue))
          /\ CopyTargetData(requestQueue[i]) /\ UNCHANGED responseQueue
    \/ /\ Range(requestQueue) \subseteq killed /\ requestQueue' = <<>>
       /\ IF responseQueue # <<>>
          THEN CopyResponseTarget(Head(responseQueue)) /\ responseQueue' = Tail(responseQueue)
          ELSE /\ op' = None /\ UNCHANGED responseQueue
               /\ UNCHANGED <<mode, isAutoSync, requestSession, responseSession,
                              syncTaskRetryStatus, taskErrCode, commNormal>>

\* PrepareNextSyncTask: the watch dog, which must not be running yet
StartWatchDog ==
    /\ ~timer /\ timer' = TRUE /\ watchDog' = TRUE /\ UNCHANGED <<retryTime, fired>>
StartWatchDogFails ==
    (timer \/ "timer" \in Faults) /\ UNCHANGED timerVars

----------------------------------------------------------------------------
(* Adding and removing operations *)

\* an auto sync joins one that still waits
AddSyncOperation(o) ==
    /\ o \in DOMAIN Mode \ called /\ called' = called \cup {o}
    /\ IF o \in AutoSync /\ \E i \in DOMAIN requestQueue : requestQueue[i] \in AutoSync
       THEN status' = SetStatus(o, "FINISHED_ALL") /\ UNCHANGED <<requestQueue, adding>>
       ELSE /\ requestQueue' = Append(requestQueue, o) /\ adding' = adding \cup {o}
            /\ UNCHANGED status
    /\ UNCHANGED <<responseQueue, reading, execVars, machineVars, targetVars, timerVars,
                   lastFullSyncTaskStatus, killVars, dataVars, netVars, aborting, earned>>

CancelCurrentSyncRetryIfNeed(m) ==
    IF isAutoSync /\ m \in {mode, "PUSH_AND_PULL"}
    THEN retryTime' = AutoRetryTimes ELSE UNCHANGED retryTime

\* the end of AddSyncTarget: a running context is expected to find the target
ScheduleIfNotRunning ==
    execTasks' = IF taskExecStatus = "RUNNING" THEN execTasks ELSE execTasks + 1

\* CancelCurrentSyncRetryIfNeed takes the lock of the context and, the AutoLock
\* having no name, gives it back at once: it waits for who holds the lock, no more
AddSyncTarget(o) ==
    /\ o \in adding /\ ContextFree
    /\ adding' = adding \ {o} /\ reading' = reading \cup {o}
    /\ CancelCurrentSyncRetryIfNeed(Mode[o])
    /\ UNCHANGED <<requestQueue, responseQueue, called, execVars, machineVars, targetVars,
                   timer, watchDog, fired, statusVars, killVars, dataVars, netVars,
                   aborting, earned>>

TargetAdded(o) ==
    /\ o \in reading /\ reading' = reading \ {o} /\ ScheduleIfNotRunning
    /\ UNCHANGED <<requestQueue, responseQueue, called, adding, taskExecStatus, execStage,
                   machineVars, targetVars, timerVars, statusVars, killVars, dataVars,
                   netVars, aborting, earned>>

StopSync(o) ==
    /\ "stop" \in Faults /\ o \in called \ killed /\ ~Final(status[o])
    /\ killed' = killed \cup {o} /\ removing' = removing \cup {o}
    /\ UNCHANGED <<queueVars, execVars, machineVars, targetVars, timerVars, statusVars,
                   dataVars, netVars, aborting, earned>>

RemoveSyncOperation(o) ==
    /\ o \in removing /\ removing' = removing \ {o}
    /\ \/ o \notin Range(requestQueue) /\ UNCHANGED requestQueue
       \/ \E i \in DOMAIN requestQueue :
             /\ requestQueue[i] = o
             /\ requestQueue' = SubSeq(requestQueue, 1, i - 1)
                                  \o SubSeq(requestQueue, i + 1, Len(requestQueue))
    /\ UNCHANGED <<responseQueue, called, adding, reading, execVars, machineVars, targetVars,
                   timerVars, statusVars, killed, dataVars, netVars, aborting, earned>>

\* the device went offline
ClearAllSyncTask ==
    LET dropped == Range(requestQueue) IN
    /\ "offline" \in Faults /\ messages > 0 /\ messages' = messages - 1
    /\ status' = [o \in Ops |-> IF o \notin dropped THEN status[o]
                                ELSE SetStatus(o, IF o \in AutoSync THEN "FINISHED_ALL"
                                                  ELSE "COMM_ABNORMAL")[o]]
    /\ requestQueue' = <<>> /\ responseQueue' = <<>>
    /\ IF taskExecStatus = "RUNNING"
       THEN commNormal' = FALSE /\ aborting' = aborting + 1
       ELSE UNCHANGED <<commNormal, aborting>>
    /\ lastFullSyncTaskStatus' = "WAITING"
    /\ UNCHANGED <<called, adding, reading, execVars, machineVars, op, mode, isAutoSync,
                   requestSession, responseSession, syncTaskRetryStatus, taskErrCode,
                   timerVars, killVars, dataVars, late, earned>>

----------------------------------------------------------------------------
(* SyncEngine::ExecSyncTask *)

ExecSyncTask ==
    /\ execTasks > 0 /\ ContextFree /\ execTasks' = execTasks - 1
    /\ IF taskExecStatus = "RUNNING"
       THEN UNCHANGED <<taskExecStatus, execStage, queueVars, targetVars>>
       ELSE /\ taskExecStatus' = "RUNNING"
            /\ IF QueuesEmpty
               THEN execStage' = "empty" /\ UNCHANGED <<queueVars, targetVars>>
               ELSE execStage' = "check" /\ MoveToNextTarget /\ UNCHANGED <<called, adding, reading>>
    /\ UNCHANGED <<machineVars, timerVars, statusVars, killVars, dataVars, netVars,
                   aborting, earned>>

ExecSyncTaskFinished ==
    /\ execStage = "empty" /\ execStage' = "no" /\ taskExecStatus' = "FINISHED"
    /\ UNCHANGED <<queueVars, execTasks, machineVars, targetVars, timerVars, statusVars,
                   killVars, dataVars, netVars, aborting, earned>>

RunPermissionCheck ==
    /\ execStage = "check"
    /\ \/ execStage' = "start" /\ UNCHANGED <<taskExecStatus, statusVars>>
       \/ /\ "permission" \in Faults /\ execStage' = "no"
          /\ SetOperationStatus("PERMISSION_CHECK_FAILED", taskErrCode)
          /\ taskExecStatus' = "FINISHED"
    /\ UNCHANGED <<queueVars, execTasks, machineVars, targetVars, timerVars, killVars,
                   dataVars, netVars, aborting, earned>>

StartSync ==
    /\ execStage = "start" /\ MachineFree /\ ContextFree /\ execStage' = "no"
    /\ \/ /\ StartWatchDog /\ machineLock' = "step" /\ currentState' = "TIME_SYNC"
          /\ UNCHANGED statusVars
       \/ /\ StartWatchDogFails /\ SetOperationStatus("FAILED", taskErrCode)
          /\ UNCHANGED <<currentState, machineLock>>
    /\ UNCHANGED <<queueVars, taskExecStatus, execTasks, steps, targetVars, killVars,
                   dataVars, netVars, aborting, earned>>

----------------------------------------------------------------------------
(* The handlers of the states, under stateMachineLock_ *)

Handles(s) == machineLock = "step" /\ currentState = s

\* the event of a send that failed
SendFailure(e) == \/ "send" \in Faults /\ e = TransforTimeOutErrCodeToEvent
                  \/ "error" \in Faults /\ e = "INNER_ERR"
Events == {"INNER_ERR", "TIME_OUT", "WAIT_TIME_OUT"}
SendFails == \E e \in Events : SendFailure(e) /\ SwitchStateAndStep(e)

Request(k) == Wait /\ sent' = sent \cup {<<k, requestSession>>}

DoTimeSync ==
    /\ Handles("TIME_SYNC")
    /\ \/ SwitchStateAndStep("TIME_SYNC_FINISHED") /\ UNCHANGED <<taskErrCode, sent>>
       \/ Request("time") /\ UNCHANGED taskErrCode
       \/ SendFails /\ taskErrCode' = "E_OTHER" /\ UNCHANGED sent
    /\ UNCHANGED <<queueVars, execVars, steps, op, mode, isAutoSync, requestSession,
                   responseSession, syncTaskRetryStatus, commNormal, timerVars, statusVars,
                   killVars, dataSession, dataMode, reSendMap, unsent, undelivered,
                   netVars, aborting, earned>>

\* GetEventAfterTimeSync, JumpStatusAfterAbilitySync
EventAfterAbilitySync ==
    IF mode = "SUBSCRIBE_QUERY" THEN "CONTROL_CMD" ELSE "ABILITY_SYNC_FINISHED"

DoAbilitySync ==
    /\ Handles("ABILITY_SYNC")
    /\ \/ SwitchStateAndStep(EventAfterAbilitySync) /\ UNCHANGED sent
       \/ Request("ability")
       \/ SendFails /\ UNCHANGED sent
    /\ UNCHANGED <<queueVars, execVars, steps, targetVars, timerVars, statusVars, killVars,
                   dataSession, dataMode, reSendMap, unsent, undelivered, netVars,
                   aborting, earned>>

\* SingleVerDataSync::SyncStart with its outcome r: "revoked" is a database that
\* cannot be read.  A packet that was sent moves the local water mark at once, one
\* that timed out is only put in reSendMap_.
FreshStart(m, session, r) ==
    LET pushes == m \in PushModes
        goesOn == r = "revoked" /\ m = "PUSH_AND_PULL" IN \* asks for the peer's data
    /\ dataSession' = session /\ dataMode' = m
    /\ reSendMap' = IF r = "sent" \/ goesOn THEN "sent"
                    ELSE IF r = "timeout" \/ (r = "error" /\ m = "PULL") THEN "waiting"
                    ELSE "empty"
    /\ sent' = IF r = "sent" \/ goesOn THEN sent \cup {<<"data", session>>} ELSE sent
    /\ unsent' = IF ~pushes \/ unsent = "none" \/ r \notin {"sent", "timeout"} THEN unsent
                 ELSE IF r = "sent" THEN "none" ELSE "mapped"
    /\ undelivered' = (undelivered \/ (pushes /\ r = "sent" /\ unsent # "none"))
    /\ CASE r = "revoked" -> taskErrCode' = "E_EKEYREVOKED"
         [] r = "error" -> taskErrCode' \in {taskErrCode, "E_OTHER"}
         [] OTHER -> UNCHANGED taskErrCode

ReSendData(m, r) ==
    LET moves == r = "sent" /\ m # "PULL" /\ unsent = "mapped" IN
    /\ sent' = IF r = "sent" THEN sent \cup {<<"data", dataSession>>} ELSE sent
    /\ unsent' = IF moves THEN "none" ELSE unsent
    /\ undelivered' = (undelivered \/ moves)
    /\ reSendMap' = IF r = "sent" THEN "sent" ELSE reSendMap
    /\ UNCHANGED <<dataSession, dataMode, taskErrCode>>

Outcome(m, r) ==
    \/ r = "sent" /\ (dataSession = None \/ reSendMap # "empty")
    \/ r = "timeout" /\ "send" \in Faults /\ (dataSession = None \/ reSendMap # "empty")
    \/ r = "revoked" /\ "ekey" \in Faults /\ dataSession = None /\ m \in PushModes
    \/ r = "error" /\ ("error" \in Faults \/ (dataSession # None /\ reSendMap = "empty"))

SyncStart(m, response, r) ==
    /\ Outcome(m, r)
    /\ IF dataSession # None THEN ReSendData(m, r)
       ELSE FreshStart(m, IF m = "RESPONSE_PULL" THEN response ELSE requestSession, r)
Outcomes == {"sent", "timeout", "revoked", "error"}

\* "when response task step dataSync again while request task is running"
IgnoreInnerErr == responseSession # None /\ requestSession # None

DoInitiactiveDataSyncWithSlidingWindow ==
    /\ Handles("START_INITIACTIVE_DATA_SYNC")
    /\ CASE mode = "PUSH" -> SetOperationStatus("RECV_FINISHED", taskErrCode)
         [] mode = "PULL" -> SetOperationStatus("SEND_FINISHED", taskErrCode)
         [] OTHER -> UNCHANGED statusVars
    /\ \E r \in Outcomes :
          /\ IF mode \in PushModes \cup {"PULL"} THEN SyncStart(mode, responseSession, r)
             ELSE r = "error" /\ UNCHANGED <<dataVars, taskErrCode>>
          /\ CASE r = "sent" \/ (r = "revoked" /\ mode = "PUSH_AND_PULL") -> Wait
               [] r = "timeout" -> SwitchStateAndStep(TransforTimeOutErrCodeToEvent)
               [] OTHER -> SwitchStateAndStep(IF IgnoreInnerErr THEN "SEND_FINISHED"
                                              ELSE "INNER_ERR")
    /\ UNCHANGED <<queueVars, execVars, steps, op, mode, isAutoSync, requestSession,
                   responseSession, syncTaskRetryStatus, commNormal, timerVars, killVars,
                   netVars, aborting, earned>>

\* PreStartPullResponse replaces the mode of the target that is running
DoPassiveDataSyncWithSlidingWindow ==
    /\ Handles("START_PASSIVE_DATA_SYNC") /\ ContextFree
    /\ IF responseQueue = <<>>
       THEN /\ SwitchStateAndStep("RESPONSE_TASK_FINISHED")
            /\ UNCHANGED <<responseQueue, mode, responseSession, taskErrCode, dataVars>>
       ELSE /\ responseQueue' = Tail(responseQueue) /\ mode' = "RESPONSE_PULL"
            /\ responseSession' = Head(responseQueue)
            /\ \E r \in Outcomes :
                  /\ SyncStart("RESPONSE_PULL", Head(responseQueue), r)
                  /\ IF r = "sent" \/ (r = "timeout" /\ dataSession = None /\ MayRetry)
                     THEN Wait ELSE SwitchStateAndStep("RESPONSE_TASK_FINISHED")
    /\ UNCHANGED <<requestQueue, called, adding, reading, execVars, steps, op, isAutoSync,
                   requestSession, syncTaskRetryStatus, commNormal, timerVars, statusVars,
                   killVars, netVars, aborting, earned>>

DoInitiactiveControlSync ==
    /\ Handles("SYNC_CONTROL_CMD") /\ SetOperationStatus("RECV_FINISHED", taskErrCode)
    /\ \/ Request("control") /\ UNCHANGED taskErrCode
       \/ SendFails /\ taskErrCode' = "E_OTHER" /\ UNCHANGED sent
    /\ UNCHANGED <<queueVars, execVars, steps, op, mode, isAutoSync, requestSession,
                   responseSession, syncTaskRetryStatus, commNormal, timerVars, killVars,
                   dataSession, dataMode, reSendMap, unsent, undelivered, netVars,
                   aborting, earned>>

DoWaitForDataRecv ==
    /\ Handles("WAIT_FOR_RECEIVE_DATA_FINISH")
    /\ IF responseQueue # <<>> THEN SwitchStateAndStep("START_PULL_RESPONSE")
       ELSE IF \/ GetOperationStatus = "FINISHED_ALL"
               \/ mode = "PUSH_AND_PULL" /\ GetOperationStatus = "EKEYREVOKED_FAILURE"
       THEN SwitchStateAndStep("RECV_FINISHED")
       ELSE Wait
    /\ UNCHANGED <<queueVars, execVars, steps, targetVars, timerVars, statusVars, killVars,
                   dataVars, netVars, aborting, earned>>

\* InnerClearSyncStatus
ClearSyncStatus == dataSession' = None /\ reSendMap' = "empty"

\* DoSyncTaskFinished, with ExecNextTask up to the next target
DoSyncTaskFinished ==
    /\ Handles("SYNC_TASK_FINISHED") /\ ContextFree
    /\ StopWatchDog /\ ClearSyncStatus
    /\ IF QueuesEmpty
       THEN machineLock' = "empty" /\ UNCHANGED <<queueVars, targetVars>>
       ELSE machineLock' = "moved" /\ MoveToNextTarget /\ UNCHANGED <<called, adding, reading>>
    /\ UNCHANGED <<execVars, currentState, steps, retryTime, statusVars, killVars, dataMode,
                   unsent, undelivered, sent, netVars, aborting, earned>>

\* ExecNextTask with no task left
NoTaskLeft ==
    /\ machineLock = "empty" /\ taskExecStatus' = "FINISHED"
    /\ ClearTarget /\ StopTimer /\ retryTime' = 0
    /\ SwitchStateAndStep("ALL_TASK_FINISHED")
    /\ UNCHANGED <<queueVars, execTasks, execStage, steps, watchDog, statusVars, killVars,
                   dataVars, netVars, aborting, earned>>

\* the last push was a success and the local water mark is past the database
IsCurrentSyncTaskCanBeSkipped ==
    mode = "PUSH" /\ lastFullSyncTaskStatus = "FINISHED_ALL" /\ unsent = "none"

\* the loop of ExecNextTask goes on with the queues as they are now
SkipTask ==
    /\ machineLock = "moved" /\ IsCurrentSyncTaskCanBeSkipped
    /\ SetOperationStatus("FINISHED_ALL", taskErrCode)
    /\ earned' = earned \cup {<<"skip", op>>} /\ machineLock' = "step"
    /\ UNCHANGED <<queueVars, execVars, currentState, steps, targetVars, timerVars, killVars,
                   dataVars, netVars, aborting>>

\* SYNC_TASK_FINISHED drops the INNER_ERR event of a watch dog that did not start
PrepareNextSyncTask ==
    /\ machineLock = "moved" /\ ~IsCurrentSyncTaskCanBeSkipped
    /\ \/ StartWatchDog /\ SwitchStateAndStep("START_SYNC") /\ UNCHANGED statusVars
       \/ /\ StartWatchDogFails /\ SetOperationStatus("FAILED", taskErrCode)
          /\ SwitchStateAndStep("INNER_ERR")
    /\ UNCHANGED <<queueVars, execVars, steps, targetVars, killVars, dataVars, netVars,
                   aborting, earned>>

\* the operation is let go without a status
AbortTaskMutant(s) ==
    /\ ClearTarget /\ StopTimer /\ retryTime' = 0 /\ ClearSyncStatus
    /\ SwitchStateAndStep("ANY")
    /\ UNCHANGED <<queueVars, execVars, steps, watchDog, statusVars, killVars, dataMode,
                   unsent, undelivered, sent, netVars, aborting, earned>>
\* SingleVerSyncTaskContext::Abort, Clear and AbortInner
AbortTask(s) ==
    /\ status' = IF op = None THEN status ELSE SetStatus(op, s)
    /\ ClearTarget /\ StopTimer /\ retryTime' = 0 /\ ClearSyncStatus
    /\ SwitchStateAndStep("ANY")
    /\ UNCHANGED <<queueVars, execVars, steps, watchDog, lastFullSyncTaskStatus, killVars,
                   dataMode, unsent, undelivered, sent, netVars, aborting, earned>>

DoTimeout == Handles("SYNC_TIME_OUT") /\ ContextFree /\ AbortTask("TIMEOUT")

DoInnerErr ==
    /\ Handles("INNER_ERR") /\ ContextFree
    /\ AbortTask(IF ~commNormal THEN "COMM_ABNORMAL"
                 ELSE IF taskErrCode = "E_EKEYREVOKED" THEN "EKEYREVOKED_FAILURE"
                 ELSE "FAILED")

\* a SyncStep of the pool; IDLE has no handler
SyncStepInnerLocked ==
    /\ steps > 0 /\ MachineFree /\ steps' = steps - 1
    /\ machineLock' = IF currentState = "IDLE" THEN "free" ELSE "step"
    /\ UNCHANGED <<queueVars, execVars, currentState, targetVars, timerVars, statusVars,
                   killVars, dataVars, netVars, aborting, earned>>

----------------------------------------------------------------------------
(* The timer thread and the errors of the communicator *)

Fire ==
    /\ timer /\ fired = "no" /\ fired' = "current"
    /\ UNCHANGED <<queueVars, execVars, machineVars, targetVars, timer, watchDog, retryTime,
                   statusVars, killVars, dataVars, netVars, aborting, earned>>

TimeoutCallback ==
    /\ fired \in {"current", "stale"} /\ ContextFree
    /\ IF fired = "stale" THEN fired' = "no" /\ UNCHANGED <<retryTime, steps>>
       ELSE IF MayRetry
       THEN fired' = "no" /\ retryTime' = retryTime + 1 /\ steps' = steps + 1
       ELSE fired' = "expired" /\ UNCHANGED <<retryTime, steps>>
    /\ UNCHANGED <<queueVars, execVars, currentState, machineLock, targetVars, timer,
                   watchDog, statusVars, killVars, dataVars, netVars, aborting, earned>>

StepToTimeout ==
    /\ fired \in {"expired", "expiredStale"} /\ MachineFree /\ fired' = "no"
    /\ IF fired = "expired" THEN SwitchStateAndStep("TIME_OUT")
       ELSE UNCHANGED <<currentState, machineLock>>
    /\ UNCHANGED <<queueVars, execVars, steps, targetVars, timer, watchDog, retryTime,
                   statusVars, killVars, dataVars, netVars, aborting, earned>>

\* CommErrHandlerFuncInner; the time sync of an auto sync has no handler, and
\* neither has a pull response
CommErrHandlerFunc(s) ==
    /\ "comm" \in Faults /\ messages > 0 /\ ContextFree /\ s = requestSession
    /\ \E k \in {"time", "ability", "control", "data"} :
          <<k, s>> \in sent /\ (k = "time" => s \notin AutoSync)
    /\ messages' = messages - 1 /\ commNormal' = FALSE /\ aborting' = aborting + 1
    /\ UNCHANGED <<queueVars, execVars, machineVars, op, mode, isAutoSync, requestSession,
                   responseSession, syncTaskRetryStatus, taskErrCode, timerVars, statusVars,
                   killVars, dataVars, late, earned>>

CommErrAbort ==
    /\ aborting > 0 /\ MachineFree /\ aborting' = aborting - 1
    /\ IF Accepts(currentState, "INNER_ERR")
       THEN currentState' = "INNER_ERR" /\ steps' = steps + 1
       ELSE UNCHANGED <<currentState, steps>>
    /\ UNCHANGED <<queueVars, execVars, machineLock, targetVars, timerVars, statusVars,
                   killVars, dataVars, netVars, earned>>

----------------------------------------------------------------------------
(* The peer's messages *)

Message == messages > 0 /\ messages' = messages - 1

\* Acks of time, ability and control sync: MessageCallbackPre compares the session
\* under the lock of the context, the ack is handled later under stateMachineLock_.
\* A time ack has no session check, and has reset the watch dog by then.
TimeMarkSyncRecv(s) ==
    /\ Message /\ <<"time", s>> \in sent /\ ContextFree /\ MachineFree /\ ResetWatchDog
    /\ \/ late' = late \cup {<<"time", s>>} /\ UNCHANGED <<taskErrCode, aborting>>
       \/ /\ "error" \in Faults /\ UNCHANGED late
          /\ IF s = requestSession
             THEN taskErrCode' = "E_OTHER" /\ aborting' = aborting + 1
             ELSE UNCHANGED <<taskErrCode, aborting>>
    /\ UNCHANGED <<queueVars, execVars, machineVars, op, mode, isAutoSync, requestSession,
                   responseSession, syncTaskRetryStatus, commNormal, statusVars, killVars,
                   dataVars, earned>>

MessageCallbackPre(k, s) ==
    /\ Message /\ k \in {"ability", "control"} /\ <<k, s>> \in sent
    /\ ContextFree /\ s = requestSession /\ late' = late \cup {<<k, s>>}
    /\ UNCHANGED <<queueVars, execVars, machineVars, targetVars, timerVars, statusVars,
                   killVars, dataVars, aborting, earned>>

Handled(k, s) == <<k, s>> \in late /\ MachineFree /\ late' = late \ {<<k, s>>}

TimeSyncFinished(s) ==
    /\ Handled("time", s) /\ SwitchStateAndStep("TIME_SYNC_FINISHED")
    /\ UNCHANGED <<queueVars, execVars, steps, targetVars, timerVars, statusVars, killVars,
                   dataVars, messages, aborting, earned>>

AbilitySyncRecv(s) ==
    /\ Handled("ability", s) /\ ResetWatchDog
    /\ \/ SwitchStateAndStep(EventAfterAbilitySync)
       \/ "error" \in Faults /\ SwitchStateAndStep("INNER_ERR")
    /\ UNCHANGED <<queueVars, execVars, steps, targetVars, statusVars, killVars, dataVars,
                   messages, aborting, earned>>

\* HandleControlAckRecv and ControlAckRecvErrCodeHandle
HandleControlAckRecv(s) ==
    /\ Handled("control", s)
    /\ IF s = requestSession THEN ResetWatchDog ELSE UNCHANGED timerVars
    /\ \/ /\ SetOperationStatus("SEND_FINISHED", taskErrCode)
          /\ earned' = earned \cup {<<"send", s>>} /\ SwitchStateAndStep("SEND_FINISHED")
          /\ UNCHANGED <<taskErrCode, dataSession, reSendMap>>
       \/ /\ ClearSyncStatus /\ SwitchStateAndStep("NEED_ABILITY_SYNC")
          /\ UNCHANGED <<statusVars, taskErrCode, earned>>
       \/ /\ "permission" \in Faults /\ SwitchStateAndStep("INNER_ERR")
          /\ SetOperationStatus("PERMISSION_CHECK_FAILED", taskErrCode)
          /\ UNCHANGED <<taskErrCode, dataSession, reSendMap, earned>>
       \/ /\ "error" \in Faults /\ taskErrCode' = "E_OTHER" /\ SwitchStateAndStep("INNER_ERR")
          /\ UNCHANGED <<statusVars, dataSession, reSendMap, earned>>
    /\ UNCHANGED <<queueVars, execVars, steps, op, mode, isAutoSync, requestSession,
                   responseSession, syncTaskRetryStatus, commNormal, killVars, dataMode,
                   unsent, undelivered, sent, messages, aborting>>

\* the error of an ack, and what becomes of it in a pull response
IgnoreAckErr(s) == s = responseSession /\ requestSession # None
ResponsePullError(s) ==
    SwitchStateAndStep(IF IgnoreAckErr(s) THEN "RESPONSE_TASK_FINISHED" ELSE "INNER_ERR")

\* TryContinueSync: the last ack of the session that is sending
SendFinished(s) ==
    /\ s = dataSession /\ reSendMap = "sent"
    /\ SetOperationStatus("SEND_FINISHED", taskErrCode) /\ ClearSyncStatus
    /\ undelivered' = (undelivered /\ dataMode \notin PushModes)
    /\ earned' = earned \cup {<<"send", s>>} /\ SwitchStateAndStep("SEND_FINISHED")
    /\ UNCHANGED <<taskErrCode, unsent>>

\* more packets are awaited, the ack is of another session, or only a notify
AckChangesNothing ==
    UNCHANGED <<currentState, machineLock, statusVars, dataSession, reSendMap, unsent,
                undelivered, taskErrCode, earned>>

NeedAbilitySyncHandle ==
    /\ ClearSyncStatus /\ SwitchStateAndStep("NEED_ABILITY_SYNC")
    /\ UNCHANGED <<statusVars, unsent, undelivered, taskErrCode, earned>>

\* LOCAL_WATER_MARK_NOT_INIT: the local water mark goes back to what the peer has
ReSendFromPeerMark ==
    /\ ClearSyncStatus /\ unsent' = "new" /\ SwitchStateAndStep("RE_SEND_DATA")
    /\ taskErrCode' = IF mode = "PUSH_AND_PULL" /\ taskErrCode = "E_EKEYREVOKED"
                      THEN "E_OK" ELSE taskErrCode
    /\ UNCHANGED <<statusVars, undelivered, earned>>

AckNotPermit(s) ==
    /\ "permission" \in Faults /\ ResponsePullError(s)
    /\ IF IgnoreAckErr(s) THEN UNCHANGED statusVars
       ELSE SetOperationStatus("PERMISSION_CHECK_FAILED", taskErrCode)
    /\ UNCHANGED <<dataSession, reSendMap, unsent, undelivered, taskErrCode, earned>>

AckError(s) ==
    /\ "error" \in Faults /\ ResponsePullError(s)
    /\ taskErrCode' = IF IgnoreAckErr(s) THEN taskErrCode ELSE "E_OTHER"
    /\ UNCHANGED <<statusVars, dataSession, reSendMap, unsent, undelivered, earned>>

\* TryContinueSync could not send the next packet in time
ContinueTimesOut(s) ==
    /\ "send" \in Faults /\ s = dataSession /\ ~MayRetry /\ SwitchStateAndStep("TIME_OUT")
    /\ UNCHANGED <<statusVars, dataSession, reSendMap, unsent, undelivered, taskErrCode,
                   earned>>

HandleDataAckRecv(s) ==
    /\ Message /\ <<"data", s>> \in sent /\ MachineFree
    /\ s \in {requestSession, responseSession} /\ ResetWatchDog
    /\ \/ SendFinished(s) \/ AckChangesNothing \/ NeedAbilitySyncHandle
       \/ ReSendFromPeerMark \/ AckNotPermit(s) \/ AckError(s) \/ ContinueTimesOut(s)
    /\ UNCHANGED <<queueVars, execVars, steps, op, mode, isAutoSync, requestSession,
                   responseSession, syncTaskRetryStatus, commNormal, killVars, dataMode,
                   sent, late, aborting>>

\* the peer's answer to the own pull: DataRecvErrCodeHandle, whose session check is
\* made under the lock
DataRecvErrCodeHandle(s) ==
    /\ Message /\ <<"data", s>> \in sent /\ s \in Ops /\ Mode[s] \in {"PULL", "PUSH_AND_PULL"}
    /\ MachineFree /\ s = requestSession /\ ResetWatchDog
    /\ \/ /\ SetOperationStatus("RECV_FINISHED", taskErrCode)
          /\ SwitchStateAndStep("RECV_FINISHED")
          /\ earned' = earned \cup {<<"recv", s>>} /\ UNCHANGED taskErrCode
       \/ /\ "ekey" \in Faults /\ taskErrCode' = "E_EKEYREVOKED" /\ UNCHANGED earned
          /\ IF mode = "PUSH_AND_PULL"
             THEN /\ SetOperationStatus("RECV_FINISHED", "E_EKEYREVOKED")
                  /\ SwitchStateAndStep("RECV_FINISHED")
             ELSE SwitchStateAndStep("INNER_ERR") /\ UNCHANGED statusVars
       \/ /\ "error" \in Faults /\ taskErrCode' \in {taskErrCode, "E_OTHER"}
          /\ SwitchStateAndStep("INNER_ERR") /\ UNCHANGED <<statusVars, earned>>
    /\ UNCHANGED <<queueVars, execVars, steps, op, mode, isAutoSync, requestSession,
                   responseSession, syncTaskRetryStatus, commNormal, killVars, dataVars,
                   late, aborting>>

\* a pull request of the peer; the target is in the queue before the status is read
AddPullResponseTarget(p) ==
    /\ Message /\ p \in scenario.pulls /\ MachineFree /\ p # responseSession /\ p \notin Range(responseQueue)
    /\ responseQueue' = Append(responseQueue, p) /\ machineLock' = "added"
    /\ UNCHANGED <<requestQueue, called, adding, reading, execVars, currentState, steps, targetVars,
                   timerVars, statusVars, killVars, dataVars, late, aborting, earned>>

CancelForPullResponse ==
    /\ machineLock = "added" /\ ContextFree /\ machineLock' = "reading"
    /\ CancelCurrentSyncRetryIfNeed("RESPONSE_PULL")
    /\ UNCHANGED <<queueVars, execVars, currentState, steps, targetVars, timer, watchDog,
                   fired, statusVars, killVars, dataVars, netVars, aborting, earned>>

PullResponseAdded ==
    /\ machineLock = "reading" /\ ScheduleIfNotRunning
    /\ IF currentState = "WAIT_FOR_RECEIVE_DATA_FINISH"
       THEN SwitchStateAndStep("START_PULL_RESPONSE")
       ELSE machineLock' = "free" /\ UNCHANGED currentState
    /\ UNCHANGED <<queueVars, taskExecStatus, execStage, steps, targetVars, timerVars,
                   statusVars, killVars, dataVars, netVars, aborting, earned>>

\* the local user writes to the database
LocalWrite ==
    /\ "write" \in Faults /\ unsent # "new" /\ unsent' = "new"
    /\ UNCHANGED <<queueVars, execVars, machineVars, targetVars, timerVars, statusVars,
                   killVars, dataSession, dataMode, reSendMap, undelivered, sent, netVars,
                   aborting, earned>>

----------------------------------------------------------------------------
(* The specification *)

\* the steps of a thread that has started, whatever the user and the peer do
Handler ==
    \/ DoTimeSync \/ DoAbilitySync \/ DoInitiactiveDataSyncWithSlidingWindow
    \/ DoPassiveDataSyncWithSlidingWindow \/ DoInitiactiveControlSync
    \/ DoWaitForDataRecv \/ DoSyncTaskFinished \/ NoTaskLeft \/ SkipTask
    \/ PrepareNextSyncTask \/ DoTimeout \/ DoInnerErr \/ CancelForPullResponse \/ PullResponseAdded
Exec == ExecSyncTask \/ ExecSyncTaskFinished \/ RunPermissionCheck \/ StartSync
Timer == Fire \/ TimeoutCallback \/ StepToTimeout
LateAck(s) == TimeSyncFinished(s) \/ AbilitySyncRecv(s) \/ HandleControlAckRecv(s)

Peer ==
    \/ \E s \in Ops \cup Pulls :
          \/ TimeMarkSyncRecv(s) \/ CommErrHandlerFunc(s) \/ HandleDataAckRecv(s)
          \/ DataRecvErrCodeHandle(s) \/ \E k \in {"ability", "control"} : MessageCallbackPre(k, s)
    \/ \E p \in Pulls : AddPullResponseTarget(p)
    \/ ClearAllSyncTask

User == LocalWrite \/ \E o \in Ops : AddSyncOperation(o) \/ StopSync(o)

Next ==
    \/ Handler \/ Exec \/ Timer \/ SyncStepInnerLocked \/ CommErrAbort
    \/ \E s \in Ops \cup Pulls : LateAck(s)
    \/ \E o \in Ops : AddSyncTarget(o) \/ TargetAdded(o) \/ RemoveSyncOperation(o)
    \/ Peer \/ User

Spec == Init /\ [][Next /\ UNCHANGED scenario]_<<vars, scenario>>

----------------------------------------------------------------------------
(* Properties *)

\* The type of every variable.
TypeOK ==
    /\ requestQueue \in Seq(Ops) /\ responseQueue \in Seq(Pulls)
    /\ called \subseteq Ops /\ adding \subseteq called /\ reading \subseteq called
    /\ taskExecStatus \in {"INIT", "RUNNING", "FINISHED"} /\ execTasks \in Nat
    /\ execStage \in {"no", "empty", "check", "start"}
    /\ currentState \in States /\ steps \in Nat /\ aborting \in Nat
    /\ machineLock \in {"free", "step", "empty", "moved", "added", "reading"}
    /\ op \in Ops \cup {None} /\ mode \in Modes /\ isAutoSync \in BOOLEAN
    /\ requestSession \in Ops \cup {None} /\ responseSession \in Pulls \cup {None}
    /\ taskErrCode \in {"E_OK", "E_OTHER", "E_EKEYREVOKED"}
    /\ syncTaskRetryStatus \in BOOLEAN /\ commNormal \in BOOLEAN
    /\ timer \in BOOLEAN /\ watchDog \in BOOLEAN /\ retryTime \in Nat
    /\ fired \in {"no", "current", "stale", "expired", "expiredStale"}
    /\ status \in [Ops -> Statuses] /\ lastFullSyncTaskStatus \in Statuses
    /\ killed \subseteq called /\ removing \subseteq killed
    /\ dataSession \in Sessions /\ dataMode \in Modes
    /\ reSendMap \in {"empty", "waiting", "sent"} /\ unsent \in {"none", "new", "mapped"}
    /\ undelivered \in BOOLEAN /\ messages \in 0..scenario.messages
    /\ sent \subseteq {"time", "ability", "control", "data"} \X Sessions
    /\ late \subseteq {"time", "ability", "control"} \X Sessions
    /\ earned \subseteq {"send", "recv", "skip"} \X Sessions

\* A context that says RUNNING takes no new ExecSyncTask, so some thread or the
\* timer must still be there to bring the state machine on.  (When the watch dog
\* could not be started ExecSyncTask returns with the status RUNNING.)  And a new
\* ExecSyncTask finds the machine at rest: PrepareNextSyncTask only warns that the
\* task before it "may get an err" and restarts the machine.
RunningHasWakeup ==
    /\ taskExecStatus = "RUNNING" /\ "timer" \notin Faults =>
          \/ execStage # "no" \/ machineLock # "free" \/ steps > 0 \/ aborting > 0
          \/ timer \/ fired \in {"current", "expired"}
    /\ execStage = "start" /\ machineLock = "free" => currentState = "IDLE"

\* A target that waits while no task runs will be started: AddSyncTarget decides by a
\* status that the state machine may be about to change.  (Not so when the permission
\* of the task before it was refused: that ExecSyncTask returns without a look at the
\* queue.)
WaitingHasStarter ==
    requestQueue # <<>> /\ taskExecStatus # "RUNNING" /\ "permission" \notin Faults =>
        \/ adding # {} \/ reading # {} \/ execTasks > 0 \/ execStage # "no"

\* The error of a request may be taken for one of a pull response that is over:
\* IgnoreInnerErr compares with a responseSessionId_ that nobody has cleared.
Misreads == scenario.pulls # {} /\ "error" \in Faults

\* An operation the user handed over is finished, stopped, queued or the current one.
\* (Not so when its error was ignored as one of a pull response.)
NoOperationDropped ==
    /\ TypeOK
    /\ ~Misreads =>
          \A o \in called : \/ Final(status[o]) \/ o \in killed \/ op = o
                            \/ o \in Range(requestQueue)

\* OP_FINISHED_ALL is told to the user only when the peer confirmed every half of
\* the operation, or a push was skipped as one with nothing to send.  (Not so for a
\* push-and-pull restarted after a revoked key, which keeps the status of the pull
\* that failed, nor when the late ack of a subscription is taken for the operation
\* after it: HandleControlAckRecv compares no session.  Nor when the error of a push
\* was ignored as one of a pull response: the ack of a response then ends the push.)
SuccessIsEarned ==
    ~Misreads => \A o \in called \ AutoSync :
        /\ status[o] = "FINISHED_ALL"
        /\ ~(Mode[o] = "PUSH_AND_PULL" /\ "ekey" \in Faults)
        /\ \A u \in called \ {o} : Mode[u] # "SUBSCRIBE_QUERY"
        => \/ <<"skip", o>> \in earned
           \/ /\ Mode[o] # "PULL" => <<"send", o>> \in earned
              /\ Mode[o] \in {"PULL", "PUSH_AND_PULL"} => <<"recv", o>> \in earned

\* A push is skipped as done only when the peer holds all the data below the mark.
\* (The code does not keep this: IsCurrentSyncTaskCanBeSkipped reads a status of the
\* last push that Abort leaves as it was.)
SkipOnlyDelivered ==
    [][(\E o \in Ops : <<"skip", o>> \in earned' \ earned) => ~undelivered]_vars

============================================================================
