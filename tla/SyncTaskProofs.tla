--------------------------- MODULE SyncTaskProofs ---------------------------
(***************************************************************************)
(* Proofs about SyncTask, for any operations, pulls of the peer and        *)
(* scenarios: an inductive invariant, part by part the proof that every    *)
(* step keeps it, and the four invariants that follow from it.             *)
(***************************************************************************)
EXTENDS SyncTask, TLAPS

(***************************************************************************)
(* The inductive invariant                                                 *)
(***************************************************************************)

UserModes == {"PUSH", "PULL", "PUSH_AND_PULL", "SUBSCRIBE_QUERY"}
\* the states in which a task is under way
Working == {"TIME_SYNC", "ABILITY_SYNC", "START_INITIACTIVE_DATA_SYNC",
            "START_PASSIVE_DATA_SYNC", "WAIT_FOR_RECEIVE_DATA_FINISH",
            "SYNC_CONTROL_CMD"}
Exchange == {"START_INITIACTIVE_DATA_SYNC", "START_PASSIVE_DATA_SYNC",
             "WAIT_FOR_RECEIVE_DATA_FINISH"}

\* Types, and what is queued was handed over.
Typed ==
    /\ TypeOK /\ scenario \in Scenarios
    /\ called \subseteq DOMAIN Mode /\ Range(requestQueue) \subseteq called

\* Who may start the machine, and when the watch dog runs.
Machine ==
    /\ execStage # "no" => taskExecStatus = "RUNNING" /\ currentState = "IDLE"
    /\ currentState # "IDLE" => taskExecStatus = "RUNNING"
    /\ machineLock = "step" => currentState # "IDLE"
    /\ machineLock \in {"empty", "moved"} =>
          currentState = "SYNC_TASK_FINISHED" /\ ~timer /\ ~watchDog
    /\ currentState = "IDLE" => ~timer /\ ~watchDog
    /\ "timer" \notin Faults =>
          /\ taskExecStatus = "RUNNING" /\ execStage = "no" => currentState # "IDLE"
          /\ currentState = "SYNC_TASK_FINISHED" => machineLock \in {"step", "empty", "moved"}
          /\ currentState \notin {"IDLE", "SYNC_TASK_FINISHED"} => timer

\* Who finds a queued target.
Queued ==
    /\ (execStage = "empty" \/ machineLock = "empty") /\ requestQueue # <<>> => adding # {}
    /\ taskExecStatus # "RUNNING" /\ requestQueue # <<>> /\ "permission" \notin Faults =>
          adding # {} \/ reading # {} \/ execTasks > 0

\* The current target: op is its operation, requestSession and mode may outlive it.
Current ==
    /\ op \in called \cup {None} /\ requestSession \in called \cup {None}
    /\ op # None => requestSession = op /\ mode \in {Mode[op], "RESPONSE_PULL"}
    /\ mode \in UserModes => requestSession # None /\ mode = Mode[requestSession]
\* A subscription goes to SYNC_CONTROL_CMD, other targets exchange data.
Routed ==
    /\ currentState = "SYNC_CONTROL_CMD" => mode = "SUBSCRIBE_QUERY"
    /\ currentState \in Exchange => mode # "SUBSCRIBE_QUERY"
    /\ (currentState \in {"IDLE", "TIME_SYNC"} \/ machineLock = "moved") /\ op # None =>
          mode = Mode[op]
\* Nothing is known of what nobody asked for: operations, pulls and subscriptions.
Uncalled == \A o \in Ops \ called : status[o] = "WAITING"
Unpulled == scenario.pulls = {} => responseSession = None /\ responseQueue = <<>>
Subscribed ==
    \A s \in Sessions : <<"control", s>> \in sent \cup late =>
        s \in called /\ Mode[s] = "SUBSCRIBE_QUERY"

\* The session of SingleVerDataSync: set by a start, cleared before the next target.
Data ==
    /\ \/ currentState \in {"IDLE", "TIME_SYNC", "ABILITY_SYNC", "SYNC_CONTROL_CMD"}
       \/ machineLock \in {"empty", "moved"}
       => dataSession = None
    /\ dataSession \in {None, requestSession} \cup Pulls
    /\ currentState = "START_INITIACTIVE_DATA_SYNC" /\ dataSession # None =>
          reSendMap # "empty"

\* the operation of the current target needs nothing more
LetGo == op = None \/ Final(status[op]) \/ op \in killed
\* the own half of the current target is over once a pull response may be served
Sent ==
    \/ op = None \/ op \in killed \/ Final(status[op]) \/ status[op] = "SEND_FINISHED"
    \/ /\ "error" \notin Faults /\ taskErrCode = "E_EKEYREVOKED"
       /\ Mode[op] = "PUSH" /\ status[op] = "RECV_FINISHED"
Responding ==
    \/ currentState \in {"START_PASSIVE_DATA_SYNC", "WAIT_FOR_RECEIVE_DATA_FINISH"}
    \/ mode = "RESPONSE_PULL" \/ dataSession \in Pulls

\* When a target is replaced its operation has its status: every operation is finished,
\* killed, current or queued, and the current one is let go before the next is taken.
Tracked ==
    \A o \in called : Final(status[o]) \/ o \in killed \/ op = o \/ o \in Range(requestQueue)
AtEnd == currentState = "SYNC_TASK_FINISHED" /\ machineLock # "moved" => LetGo
AtRest == taskExecStatus # "RUNNING" \/ execStage = "empty" => LetGo
InControl ==
    currentState = "SYNC_CONTROL_CMD" /\ machineLock # "step" =>
        LetGo \/ status[op] = "RECV_FINISHED"
InResponse == Responding => Sent
Kept == ~Misreads => Tracked /\ AtEnd /\ AtRest /\ InControl /\ InResponse

\* o is none of the cases that SuccessIsEarned excepts
Told(o) ==
    /\ ~(Mode[o] = "PUSH_AND_PULL" /\ "ekey" \in Faults)
    /\ \A u \in called \ {o} : Mode[u] # "SUBSCRIBE_QUERY"
\* what a status s of o says was confirmed is in e
Shows(o, s, e) ==
    /\ s = "SEND_FINISHED" => Mode[o] = "PULL" \/ <<"send", o>> \in e
    /\ s = "RECV_FINISHED" => Mode[o] \in {"PUSH", "SUBSCRIBE_QUERY"} \/ <<"recv", o>> \in e
    /\ s = "FINISHED_ALL" =>
          \/ <<"skip", o>> \in e
          \/ /\ Mode[o] # "PULL" => <<"send", o>> \in e
             /\ Mode[o] \in {"PULL", "PUSH_AND_PULL"} => <<"recv", o>> \in e
Earned == ~Misreads => \A o \in called \ AutoSync : Told(o) => Shows(o, status[o], earned)

Inv ==
    /\ Typed /\ Machine /\ Queued
    /\ Current /\ Routed /\ Uncalled /\ Unpulled /\ Subscribed
    /\ Data /\ Kept /\ Earned

(***************************************************************************)
(* The state machine's table, event by event                               *)
(***************************************************************************)

\* from the states S the event leads to t, in others it is dropped
Moves(S, t) ==
    \/ currentState \in S /\ currentState' = t /\ machineLock' = "step"
    \/ currentState \notin S /\ currentState' = currentState /\ machineLock' = "free"

\* What SwitchStateAndStep does for each event that the code raises.
\* TIME_SYNC_FINISHED goes on to ability sync.
LEMMA OnTimeSyncFinished ==
    ASSUME currentState \in States, SwitchStateAndStep("TIME_SYNC_FINISHED")
    PROVE  Moves({"TIME_SYNC"}, "ABILITY_SYNC")
BY DEF States, SwitchTable, Accepts, SwitchStateAndStep, Moves

\* ABILITY_SYNC_FINISHED lets DoInitiactiveDataSyncWithSlidingWindow run.
LEMMA OnAbilitySyncFinished ==
    ASSUME currentState \in States, SwitchStateAndStep("ABILITY_SYNC_FINISHED")
    PROVE  Moves({"ABILITY_SYNC"}, "START_INITIACTIVE_DATA_SYNC")
BY DEF States, SwitchTable, Accepts, SwitchStateAndStep, Moves

\* CONTROL_CMD lets DoInitiactiveControlSync run.
LEMMA OnControlCmd ==
    ASSUME currentState \in States, SwitchStateAndStep("CONTROL_CMD")
    PROVE  Moves({"ABILITY_SYNC"}, "SYNC_CONTROL_CMD")
BY DEF States, SwitchTable, Accepts, SwitchStateAndStep, Moves

\* TIME_OUT ends every task that is under way.
LEMMA OnTimeOut ==
    ASSUME currentState \in States, SwitchStateAndStep("TIME_OUT")
    PROVE  Moves(Working, "SYNC_TIME_OUT")
BY DEF States, SwitchTable, Accepts, SwitchStateAndStep, Moves, Working

\* So does INNER_ERR.
LEMMA OnInnerErr ==
    ASSUME currentState \in States, SwitchStateAndStep("INNER_ERR")
    PROVE  Moves(Working, "INNER_ERR")
BY DEF States, SwitchTable, Accepts, SwitchStateAndStep, Moves, Working

\* WAIT_TIME_OUT is in no row: the machine waits for the timer.
LEMMA OnWaitTimeOut ==
    ASSUME currentState \in States, SwitchStateAndStep("WAIT_TIME_OUT")
    PROVE  Wait
BY DEF States, SwitchTable, Accepts, SwitchStateAndStep, Moves, Wait

\* RECV_FINISHED ends the wait for the peer's data.
LEMMA OnRecvFinished ==
    ASSUME currentState \in States, SwitchStateAndStep("RECV_FINISHED")
    PROVE  Moves({"WAIT_FOR_RECEIVE_DATA_FINISH"}, "SYNC_TASK_FINISHED")
BY DEF States, SwitchTable, Accepts, SwitchStateAndStep, Moves

\* START_PULL_RESPONSE sends the next pull response.
LEMMA OnStartPullResponse ==
    ASSUME currentState \in States, SwitchStateAndStep("START_PULL_RESPONSE")
    PROVE  Moves({"WAIT_FOR_RECEIVE_DATA_FINISH"}, "START_PASSIVE_DATA_SYNC")
BY DEF States, SwitchTable, Accepts, SwitchStateAndStep, Moves

\* RESPONSE_TASK_FINISHED goes back to the wait for data.
LEMMA OnResponseTaskFinished ==
    ASSUME currentState \in States, SwitchStateAndStep("RESPONSE_TASK_FINISHED")
    PROVE  Moves({"START_PASSIVE_DATA_SYNC"}, "WAIT_FOR_RECEIVE_DATA_FINISH")
BY DEF States, SwitchTable, Accepts, SwitchStateAndStep, Moves

\* NEED_ABILITY_SYNC goes back to ability sync, from each state behind it.
LEMMA OnNeedAbilitySync ==
    ASSUME currentState \in States, SwitchStateAndStep("NEED_ABILITY_SYNC")
    PROVE  Moves(Working \ {"TIME_SYNC", "ABILITY_SYNC"}, "ABILITY_SYNC")
BY DEF States, SwitchTable, Accepts, SwitchStateAndStep, Moves, Working

\* START_SYNC starts a task, the first or the next one.
LEMMA OnStartSync ==
    ASSUME currentState \in States, SwitchStateAndStep("START_SYNC")
    PROVE  Moves({"IDLE", "SYNC_TASK_FINISHED"}, "TIME_SYNC")
BY DEF States, SwitchTable, Accepts, SwitchStateAndStep, Moves

\* ANY follows DoTimeout and DoInnerErr.
LEMMA OnAny ==
    ASSUME currentState \in States, SwitchStateAndStep("ANY")
    PROVE  Moves({"SYNC_TIME_OUT", "INNER_ERR"}, "SYNC_TASK_FINISHED")
BY DEF States, SwitchTable, Accepts, SwitchStateAndStep, Moves

\* RE_SEND_DATA runs the handler of a sending state again.
LEMMA OnReSendData ==
    ASSUME currentState \in States, SwitchStateAndStep("RE_SEND_DATA")
    PROVE  \/ Wait
           \/ /\ currentState \in {"START_INITIACTIVE_DATA_SYNC", "START_PASSIVE_DATA_SYNC"}
              /\ UNCHANGED currentState /\ machineLock' = "step"
BY DEF States, SwitchTable, Accepts, SwitchStateAndStep, Moves, Wait

\* SEND_FINISHED ends a control command, and data sync goes on with the responses.
LEMMA OnSendFinished ==
    ASSUME currentState \in States, SwitchStateAndStep("SEND_FINISHED")
    PROVE  IF currentState = "SYNC_CONTROL_CMD"
           THEN Moves({"SYNC_CONTROL_CMD"}, "SYNC_TASK_FINISHED")
           ELSE Moves({"START_INITIACTIVE_DATA_SYNC", "START_PASSIVE_DATA_SYNC"},
                      "START_PASSIVE_DATA_SYNC")
BY DEF States, SwitchTable, Accepts, SwitchStateAndStep, Moves

\* ALL_TASK_FINISHED brings the machine to rest, without a further step.
LEMMA OnAllTaskFinished ==
    ASSUME currentState \in States, SwitchStateAndStep("ALL_TASK_FINISHED")
    PROVE  /\ machineLock' = "free"
           /\ currentState' = IF currentState = "SYNC_TASK_FINISHED" THEN "IDLE"
                              ELSE currentState
BY DEF States, SwitchTable, Accepts, SwitchStateAndStep, Moves

\* The event of a send that failed is dropped or ends the task.
LEMMA OnTimedOut ==
    ASSUME currentState \in States, SwitchStateAndStep(TransforTimeOutErrCodeToEvent)
    PROVE  Wait \/ Moves(Working, "SYNC_TIME_OUT")
BY OnTimeOut, OnWaitTimeOut, Zenon DEF TransforTimeOutErrCodeToEvent

\* So is the event of a message that could not be sent.
LEMMA OnSendFails ==
    ASSUME currentState \in States, SendFails
    PROVE  Wait \/ Moves(Working, "SYNC_TIME_OUT") \/ Moves(Working, "INNER_ERR")
BY OnTimedOut, OnInnerErr, Zenon DEF SendFails, SendFailure

\* The event after ability sync.
LEMMA OnAbilitySynced ==
    ASSUME currentState \in States, SwitchStateAndStep(EventAfterAbilitySync)
    PROVE  \/ mode = "SUBSCRIBE_QUERY" /\ Moves({"ABILITY_SYNC"}, "SYNC_CONTROL_CMD")
           \/ /\ mode # "SUBSCRIBE_QUERY"
              /\ Moves({"ABILITY_SYNC"}, "START_INITIACTIVE_DATA_SYNC")
BY OnControlCmd, OnAbilitySyncFinished, Zenon DEF EventAfterAbilitySync

\* A task that is under way can be aborted.
LEMMA AcceptsError ==
    ASSUME currentState \in States
    PROVE  Accepts(currentState, "INNER_ERR") <=> currentState \in Working
BY DEF States, SwitchTable, Accepts, Working

\* Every state is one of ten.
LEMMA TenStates ==
    States = Working \cup {"IDLE", "SYNC_TASK_FINISHED", "SYNC_TIME_OUT", "INNER_ERR"}
BY Zenon DEF States, SwitchTable, Working

\* A watch dog that is reset has a timer again, and one that is off stays off.
LEMMA Resets ==
    ASSUME ResetWatchDog
    PROVE  /\ ~watchDog => ~watchDog' /\ (~timer => ~timer')
           /\ "timer" \notin Faults => (timer => timer')
BY Zenon DEF ResetWatchDog, SetTimer, timerVars

\* An event of the peer, of a handler or of a timer: a task under way goes on or ends.
TaskEvents == {"TIME_SYNC_FINISHED", "TIME_OUT", "INNER_ERR", "WAIT_TIME_OUT",
               "RECV_FINISHED", "START_PULL_RESPONSE", "RESPONSE_TASK_FINISHED", "NEED_ABILITY_SYNC",
               "RE_SEND_DATA", "SEND_FINISHED"}
Ends == {"SYNC_TASK_FINISHED", "SYNC_TIME_OUT", "INNER_ERR"}
GoesOn ==
    \/ currentState' = currentState /\ machineLock' = "free"
    \/ /\ currentState \in Working /\ machineLock' = "step"
       /\ \/ currentState' \in {currentState, "ABILITY_SYNC"} \cup Ends
          \/ /\ currentState = "ABILITY_SYNC"
             /\ currentState' = IF mode = "SUBSCRIBE_QUERY" THEN "SYNC_CONTROL_CMD"
                                ELSE "START_INITIACTIVE_DATA_SYNC"
          \/ /\ currentState \in Exchange
             /\ currentState' \in {"START_PASSIVE_DATA_SYNC", "WAIT_FOR_RECEIVE_DATA_FINISH"}

\* SwitchStateAndStep takes each of these events that way.
LEMMA TaskGoesOn ==
    ASSUME currentState \in States, NEW e \in TaskEvents, SwitchStateAndStep(e)
    PROVE  GoesOn
<1>1. CASE Wait
  BY <1>1, Zenon DEF Wait, GoesOn
<1>2. ASSUME NEW S \in SUBSET Working, NEW t \in {"ABILITY_SYNC"} \cup Ends, Moves(S, t)
      PROVE  GoesOn
  BY <1>2, Zenon DEF Moves, GoesOn
<1>3. ASSUME NEW S \in SUBSET Exchange,
             NEW t \in {"START_PASSIVE_DATA_SYNC", "WAIT_FOR_RECEIVE_DATA_FINISH"}, Moves(S, t)
      PROVE  GoesOn
  BY <1>3, Zenon DEF Moves, GoesOn, Exchange, Working
<1>4. CASE e \in {"TIME_SYNC_FINISHED", "TIME_OUT", "INNER_ERR", "WAIT_TIME_OUT",
                  "RECV_FINISHED", "NEED_ABILITY_SYNC"}
  BY <1>1, <1>2, <1>4, OnTimeSyncFinished, OnTimeOut, OnInnerErr, OnWaitTimeOut,
     OnRecvFinished, OnNeedAbilitySync, Zenon DEF Working, Ends
<1>5. CASE e \in {"START_PULL_RESPONSE", "RESPONSE_TASK_FINISHED"}
  BY <1>3, <1>5, OnStartPullResponse, OnResponseTaskFinished, Zenon DEF Exchange
<1>6. CASE e = "RE_SEND_DATA"
  BY <1>1, <1>6, OnReSendData, Zenon DEF GoesOn, Working
<1>7. CASE e = "SEND_FINISHED"
  BY <1>2, <1>3, <1>7, OnSendFinished, Zenon DEF Exchange, Working, Ends
<1>8. QED
  BY <1>4, <1>5, <1>6, <1>7, Zenon DEF TaskEvents

\* So it does the event after ability sync.
LEMMA AbilityGoesOn ==
    ASSUME currentState \in States, SwitchStateAndStep(EventAfterAbilitySync)
    PROVE  GoesOn
  BY OnAbilitySynced, Zenon DEF Moves, GoesOn, Working

(***************************************************************************)
(* Queues                                                                  *)
(***************************************************************************)

\* AddSyncTarget appends to the queue.
LEMMA Appended ==
    ASSUME NEW T, NEW q \in Seq(T), NEW x \in T
    PROVE  Append(q, x) \in Seq(T) /\ Range(Append(q, x)) = Range(q) \cup {x}
<1>1. Append(q, x) \in Seq(T) /\ Len(q) \in Nat /\ DOMAIN q = 1..Len(q)
  BY SMT
<1>2. DOMAIN Append(q, x) = 1..(Len(q) + 1)
  BY SMT
<1>3. ASSUME NEW y
      PROVE  y \in Range(Append(q, x)) <=> y \in Range(q) \cup {x}
  <2>1. \A i \in 1..Len(q) : Append(q, x)[i] = q[i]
    BY SMT
  <2>2. Append(q, x)[Len(q) + 1] = x
    BY SMT
  <2>3. 1..(Len(q) + 1) = 1..Len(q) \cup {Len(q) + 1}
    BY <1>1, SMT
  <2>4. QED
    BY <1>1, <1>2, <2>1, <2>2, <2>3, Zenon DEF Range
<1>4. QED
  BY <1>1, <1>3, Zenon

\* Head and Tail of a queue.
LEMMA Shortened ==
    ASSUME NEW T, NEW q \in Seq(T), q # <<>>
    PROVE  Tail(q) \in Seq(T) /\ Head(q) \in T
BY SMT

\* MoveToNextTarget drops a prefix of the queue.
LEMMA Cut ==
    ASSUME NEW T, NEW q \in Seq(T), NEW i \in DOMAIN q
    PROVE  LET r == SubSeq(q, i + 1, Len(q))
           IN  /\ r \in Seq(T) /\ Range(r) \subseteq Range(q)
               /\ \A x \in Range(q) :
                     x = q[i] \/ (\E j \in 1..(i - 1) : q[j] = x) \/ x \in Range(r)
<1> DEFINE r == SubSeq(q, i + 1, Len(q))
<1>1. Len(q) \in Nat /\ DOMAIN q = 1..Len(q) /\ i \in 1..Len(q)
  BY SMT
<1>2. r \in Seq(T) /\ Len(r) = Len(q) - i /\ DOMAIN r = 1..(Len(q) - i)
  BY <1>1, SMT
<1>3. \A j \in 1..(Len(q) - i) : r[j] = q[i + j]
  BY <1>1, SMT
<1>4. Range(r) \subseteq Range(q)
  <2>1. \A j \in 1..(Len(q) - i) : i + j \in 1..Len(q)
    BY <1>1, SMT
  <2>2. QED
    BY <1>1, <1>2, <1>3, <2>1, Zenon DEF Range
<1>5. ASSUME NEW x \in Range(q)
      PROVE  x = q[i] \/ (\E j \in 1..(i - 1) : q[j] = x) \/ x \in Range(r)
  <2>1. PICK k \in 1..Len(q) : x = q[k]
    BY <1>1, Zenon DEF Range
  <2>2. CASE k = i
    BY Zenon, <2>1, <2>2
  <2>3. CASE k < i
    <3>1. k \in 1..(i - 1)
      BY <1>1, <2>3, SMT
    <3>2. QED
      BY Zenon, <2>1, <3>1
  <2>4. CASE k > i
    <3>1. k - i \in 1..(Len(q) - i) /\ i + (k - i) = k
      BY <1>1, <2>4, SMT
    <3>2. r[k - i] = x
      BY Zenon, <1>3, <2>1, <3>1
    <3>3. QED
      BY <1>2, <3>1, <3>2, Zenon DEF Range
  <2>5. QED
    BY <1>1, <2>2, <2>3, <2>4, SMT
<1>6. QED
  BY Zenon, <1>2, <1>4, <1>5

\* RemoveSyncOperation drops one element of the queue.
LEMMA Removed ==
    ASSUME NEW T, NEW q \in Seq(T), NEW i \in DOMAIN q
    PROVE  LET r == SubSeq(q, 1, i - 1) \o SubSeq(q, i + 1, Len(q))
           IN  /\ r \in Seq(T) /\ Range(r) \subseteq Range(q)
               /\ \A x \in Range(q) : x = q[i] \/ x \in Range(r)
<1> DEFINE a == SubSeq(q, 1, i - 1)
           b == SubSeq(q, i + 1, Len(q))
           r == a \o b
<1>1. Len(q) \in Nat /\ DOMAIN q = 1..Len(q) /\ i \in 1..Len(q)
  BY SMT
<1>2. a \in Seq(T) /\ Len(a) = i - 1 /\ \A j \in 1..(i - 1) : a[j] = q[j]
  BY <1>1, SMT
<1>3. b \in Seq(T) /\ Len(b) = Len(q) - i /\ \A j \in 1..(Len(q) - i) : b[j] = q[i + j]
  BY <1>1, SMT
<1>4. /\ r \in Seq(T) /\ DOMAIN r = 1..(Len(q) - 1)
      /\ \A j \in 1..(i - 1) : r[j] = q[j]
      /\ \A j \in i..(Len(q) - 1) : r[j] = q[j + 1]
  <2> HIDE DEF a, b
  <2>1. r \in Seq(T) /\ Len(r) = Len(a) + Len(b)
    <3>1. a \in Seq(T) /\ b \in Seq(T)
      BY Zenon, <1>2, <1>3
    <3>2. r \in Seq(T)
      BY <3>1, SMT
    <3>3. Len(r) = Len(a) + Len(b)
      BY <3>1, SMT
    <3>4. QED
      BY Zenon, <3>2, <3>3
  <2>2. \A j \in 1..(i - 1) : r[j] = a[j]
    BY <1>1, <1>2, <1>3, SMT
  <2>3. \A j \in i..(Len(q) - 1) : r[j] = b[j - (i - 1)]
    BY <1>1, <1>2, <1>3, SMT
  <2>4. \A j \in i..(Len(q) - 1) : j - (i - 1) \in 1..(Len(q) - i) /\ i + (j - (i - 1)) = j + 1
    BY <1>1, SMT
  <2> HIDE DEF r
  <2>5. Len(r) = Len(q) - 1
    BY <1>1, <1>2, <1>3, <2>1, SMT
  <2>6. DOMAIN r = 1..(Len(q) - 1)
    BY <2>1, <2>5, SMT
  <2>7. \A j \in i..(Len(q) - 1) : r[j] = q[j + 1]
    BY <1>3, <2>3, <2>4, Zenon
  <2>8. QED
    BY <1>2, <2>1, <2>2, <2>6, <2>7, Zenon
<1> HIDE DEF r
<1>5. Range(r) \subseteq Range(q)
  <2>1. \A j \in 1..(Len(q) - 1) : r[j] \in Range(q)
    <3>1. ASSUME NEW j \in 1..(Len(q) - 1)
          PROVE  r[j] \in Range(q)
      <4>1. /\ j \in 1..(i - 1) \/ j \in i..(Len(q) - 1)
            /\ j \in 1..Len(q) /\ j + 1 \in 1..Len(q)
        BY <1>1, SMT
      <4>2. QED
        BY <1>1, <1>4, <4>1, Zenon DEF Range
    <3>2. QED
      BY Zenon, <3>1
  <2>2. QED
    BY <1>4, <2>1, Zenon DEF Range
<1>6. ASSUME NEW x \in Range(q)
      PROVE  x = q[i] \/ x \in Range(r)
  <2>1. PICK k \in 1..Len(q) : x = q[k]
    BY <1>1, Zenon DEF Range
  <2>2. CASE k = i
    BY Zenon, <2>1, <2>2
  <2>3. CASE k < i
    <3>1. k \in 1..(i - 1) /\ k \in 1..(Len(q) - 1)
      BY <1>1, <2>3, SMT
    <3>2. QED
      BY <1>4, <2>1, <3>1, Zenon DEF Range
  <2>4. CASE k > i
    <3>1. k - 1 \in i..(Len(q) - 1) /\ k - 1 \in 1..(Len(q) - 1) /\ (k - 1) + 1 = k
      BY <1>1, <2>4, SMT
    <3>2. r[k - 1] = x
      BY Zenon, <1>4, <2>1, <3>1
    <3>3. QED
      BY <1>4, <3>1, <3>2, Zenon DEF Range
  <2>5. QED
    BY <1>1, <2>2, <2>3, <2>4, SMT
<1>7. QED
  BY <1>4, <1>5, <1>6, Zenon DEF r

(***************************************************************************)
(* Types                                                                   *)
(***************************************************************************)

\* The conjuncts of Typed, by the variables that steps change together.
QueueType ==
    /\ requestQueue \in Seq(Ops) /\ responseQueue \in Seq(Pulls)
    /\ called \subseteq Ops /\ adding \subseteq called /\ reading \subseteq called
    /\ called \subseteq DOMAIN Mode /\ Range(requestQueue) \subseteq called
ExecType ==
    /\ taskExecStatus \in {"INIT", "RUNNING", "FINISHED"} /\ execTasks \in Nat
    /\ execStage \in {"no", "empty", "check", "start"}
MachineType ==
    /\ currentState \in States
    /\ machineLock \in {"free", "step", "empty", "moved", "added", "reading"}
CountType == steps \in Nat /\ aborting \in Nat
TargetType ==
    /\ op \in Ops \cup {None} /\ mode \in Modes /\ isAutoSync \in BOOLEAN
    /\ requestSession \in Ops \cup {None} /\ responseSession \in Pulls \cup {None}
    /\ taskErrCode \in {"E_OK", "E_OTHER", "E_EKEYREVOKED"}
    /\ syncTaskRetryStatus \in BOOLEAN /\ commNormal \in BOOLEAN
TimerType ==
    /\ timer \in BOOLEAN /\ watchDog \in BOOLEAN /\ retryTime \in Nat
    /\ fired \in {"no", "current", "stale", "expired", "expiredStale"}
StatusType == status \in [Ops -> Statuses] /\ lastFullSyncTaskStatus \in Statuses
KillType == killed \subseteq called /\ removing \subseteq killed
DataType ==
    /\ dataSession \in Sessions /\ dataMode \in Modes
    /\ reSendMap \in {"empty", "waiting", "sent"} /\ unsent \in {"none", "new", "mapped"}
    /\ undelivered \in BOOLEAN
    /\ sent \subseteq {"time", "ability", "control", "data"} \X Sessions
NetType ==
    /\ messages \in 0..scenario.messages
    /\ late \subseteq {"time", "ability", "control"} \X Sessions
    /\ earned \subseteq {"send", "recv", "skip"} \X Sessions

\* The groups make up Typed.
LEMMA TypeGroups ==
    Typed <=> /\ scenario \in Scenarios
              /\ QueueType /\ ExecType /\ MachineType /\ CountType /\ TargetType
              /\ TimerType /\ StatusType /\ KillType /\ DataType /\ NetType
BY Zenon DEF Typed, TypeOK, QueueType, ExecType, MachineType, CountType, TargetType,
   TimerType, StatusType, KillType, DataType, NetType

\* The mode of an operation is one that a user may ask for.
LEMMA ModeTyped ==
    ASSUME Typed
    PROVE  \A o \in called : o \in Ops /\ Mode[o] \in UserModes /\ Mode[o] \in Modes
<1>1. \A o \in DOMAIN Mode : Mode[o] \in UserModes
  BY ConstantsAssumption, Zenon DEF Typed, Mode, UserModes
<1>2. QED
  BY <1>1, Zenon DEF Typed, TypeOK, UserModes, Modes

\* What MoveToNextTarget leaves: the next target is a request that is not killed, a
\* pull response, or none; no other request is lost.
Moved ==
    /\ requestQueue' \in Seq(Ops) /\ Range(requestQueue') \subseteq Range(requestQueue)
    /\ responseQueue' \in Seq(Pulls)
    /\ responseQueue = <<>> => responseQueue' = <<>> /\ responseSession' = responseSession
    /\ \A o \in Range(requestQueue) : o \in killed \/ o = op' \/ o \in Range(requestQueue')
    /\ IF op' = None
       THEN requestSession' = requestSession /\ (mode' = mode \/ mode' = "RESPONSE_PULL")
       ELSE op' \in Range(requestQueue) /\ requestSession' = op' /\ mode' = Mode[op']

\* MoveToNextTarget does so, whatever it skips.
LEMMA Moving ==
    ASSUME Typed, MoveToNextTarget
    PROVE  Moved /\ TargetType'
<1>1. /\ requestQueue \in Seq(Ops) /\ responseQueue \in Seq(Pulls) /\ TargetType
      /\ Range(requestQueue) \subseteq called /\ None \notin Ops /\ IsSyncRetry \in BOOLEAN
  BY ConstantsAssumption, Zenon DEF Typed, TypeOK, TargetType, IsSyncRetry
<1>2. ASSUME NEW i \in DOMAIN requestQueue,
             \A j \in 1..(i - 1) : requestQueue[j] \in killed,
             requestQueue' = SubSeq(requestQueue, i + 1, Len(requestQueue)),
             CopyTargetData(requestQueue[i]), UNCHANGED responseQueue
      PROVE  Moved /\ TargetType'
  <2>1. requestQueue[i] \in Range(requestQueue) /\ requestQueue[i] \in called
    BY <1>1, Zenon DEF Range
  <2>2. /\ requestQueue' \in Seq(Ops) /\ Range(requestQueue') \subseteq Range(requestQueue)
        /\ \A x \in Range(requestQueue) :
              \/ x = requestQueue[i] \/ (\E j \in 1..(i - 1) : requestQueue[j] = x)
              \/ x \in Range(requestQueue')
    BY Zenon, <1>1, <1>2, Cut
  <2>3. requestQueue[i] \in Ops /\ requestQueue[i] # None /\ Mode[requestQueue[i]] \in Modes
    BY Zenon, <1>1, <2>1, ModeTyped
  <2>4. Moved
    BY <1>1, <1>2, <2>1, <2>2, <2>3, Zenon DEF Moved, CopyTargetData
  <2>5. isAutoSync' \in BOOLEAN /\ syncTaskRetryStatus' \in BOOLEAN
    <3>1. \A x, S : (x \in S) \in BOOLEAN
      OBVIOUS
    <3>2. \A b, c, d : (b \/ c \/ d) \in BOOLEAN
      OBVIOUS
    <3>3. QED
      BY <1>2, <3>1, <3>2, Zenon DEF CopyTargetData
  <2>6. commNormal' \in BOOLEAN
    BY <1>2, Zenon DEF CopyTargetData
  <2>7. TargetType'
    BY <1>1, <1>2, <2>3, <2>5, <2>6, Zenon DEF TargetType, CopyTargetData
  <2>8. QED
    BY Zenon, <2>4, <2>7
<1>3. ASSUME Range(requestQueue) \subseteq killed, requestQueue' = <<>>,
             responseQueue # <<>>, CopyResponseTarget(Head(responseQueue)),
             responseQueue' = Tail(responseQueue)
      PROVE  Moved /\ TargetType'
  <2>1. Tail(responseQueue) \in Seq(Pulls) /\ Head(responseQueue) \in Pulls
    BY Zenon, <1>1, <1>3, Shortened
  <2>2. requestQueue' \in Seq(Ops) /\ Range(requestQueue') \subseteq Range(requestQueue)
    BY <1>3, SMT DEF Range
  <2>3. Moved
    BY <1>3, <2>1, <2>2, Zenon DEF Moved, CopyResponseTarget
  <2>4. isAutoSync' \in BOOLEAN /\ syncTaskRetryStatus' \in BOOLEAN /\ commNormal' \in BOOLEAN
    BY <1>1, <1>3, Zenon DEF CopyResponseTarget
  <2>5. TargetType'
    BY <1>1, <1>3, <2>1, <2>4, Zenon DEF TargetType, CopyResponseTarget, Modes
  <2>6. QED
    BY Zenon, <2>3, <2>5
<1>4. ASSUME Range(requestQueue) \subseteq killed, requestQueue' = <<>>, op' = None,
             UNCHANGED <<responseQueue, mode, isAutoSync, requestSession, responseSession,
                         syncTaskRetryStatus, taskErrCode, commNormal>>
      PROVE  Moved /\ TargetType'
  <2>1. requestQueue' \in Seq(Ops) /\ Range(requestQueue') \subseteq Range(requestQueue)
    BY <1>4, SMT DEF Range
  <2>2. Moved
    BY <1>1, <1>4, <2>1, Zenon DEF Moved
  <2>3. TargetType'
    BY <1>1, <1>4, Zenon DEF TargetType
  <2>4. QED
    BY Zenon, <2>2, <2>3
<1>5. QED
  BY <1>2, <1>3, <1>4, Zenon DEF MoveToNextTarget

\* What SyncStart leaves, with its outcome r: the session it works for, when its map of
\* packets is empty, and where a new error code comes from.
Started(m, p, r) ==
    /\ dataSession' = IF dataSession # None THEN dataSession
                      ELSE IF m = "RESPONSE_PULL" THEN p ELSE requestSession
    /\ r \in {"sent", "timeout"} \/ (r = "revoked" /\ m = "PUSH_AND_PULL") =>
          reSendMap' # "empty"
    /\ r = "revoked" => m \in PushModes
    /\ r = "error" => "error" \in Faults \/ (dataSession # None /\ reSendMap = "empty")
    /\ \/ taskErrCode' = taskErrCode
       \/ r = "revoked" /\ taskErrCode' = "E_EKEYREVOKED"
       \/ "error" \in Faults /\ taskErrCode' = "E_OTHER"
    /\ r = "revoked" => taskErrCode' = "E_EKEYREVOKED"
    /\ \A s : <<"control", s>> \in sent' => <<"control", s>> \in sent

\* SyncStart does so, and keeps the types of the data sync.
LEMMA Starting ==
    ASSUME Typed, NEW m \in Modes, NEW p \in Sessions, NEW r \in Outcomes,
           SyncStart(m, p, r)
    PROVE  Started(m, p, r) /\ DataType'
<1>1. DataType /\ requestSession \in Sessions
  BY Zenon DEF Typed, TypeOK, DataType, Sessions
<1>2. Outcome(m, r)
  BY Zenon DEF SyncStart
<1>3. CASE dataSession # None
  <2>1. ReSendData(m, r)
    BY <1>3, Zenon DEF SyncStart
  <2>2. Started(m, p, r)
    BY <1>1, <1>2, <1>3, <2>1, Zenon DEF Started, Outcome, ReSendData, DataType
  <2>3. undelivered' \in BOOLEAN
    BY <1>1, <2>1, Zenon DEF ReSendData, DataType
  <2>4. sent' \subseteq {"time", "ability", "control", "data"} \X Sessions
    BY <1>1, <2>1, SMT DEF ReSendData, DataType
  <2>5. /\ dataSession' = dataSession /\ dataMode' = dataMode
        /\ reSendMap' \in {"empty", "waiting", "sent"} /\ unsent' \in {"none", "new", "mapped"}
    BY <1>1, <2>1, Zenon DEF ReSendData, DataType
  <2>6. QED
    BY <1>1, <2>2, <2>3, <2>4, <2>5, Zenon DEF DataType
<1>4. CASE dataSession = None
  <2> DEFINE session == IF m = "RESPONSE_PULL" THEN p ELSE requestSession
  <2>1. FreshStart(m, session, r) /\ session \in Sessions
    BY <1>1, <1>4, Zenon DEF SyncStart
  <2> HIDE DEF session
  <2>2. /\ dataSession' = session /\ dataMode' = m
        /\ reSendMap' \in {"empty", "waiting", "sent"} /\ unsent' \in {"none", "new", "mapped"}
        /\ r \in {"sent", "timeout"} \/ (r = "revoked" /\ m = "PUSH_AND_PULL") =>
              reSendMap' # "empty"
    BY <1>1, <2>1, Zenon DEF FreshStart, DataType
  <2>3. undelivered' \in BOOLEAN
    BY <1>1, <2>1, Zenon DEF FreshStart, DataType
  <2>4. /\ sent' \subseteq {"time", "ability", "control", "data"} \X Sessions
        /\ \A s : <<"control", s>> \in sent' => <<"control", s>> \in sent
    BY <1>1, <2>1, SMT DEF FreshStart, DataType
  <2>5. /\ r = "revoked" => m \in PushModes
        /\ r = "error" => "error" \in Faults
    BY <1>2, <1>4, Zenon DEF Outcome
  <2>6. /\ \/ taskErrCode' = taskErrCode
           \/ r = "revoked" /\ taskErrCode' = "E_EKEYREVOKED"
           \/ r = "error" /\ taskErrCode' = "E_OTHER"
        /\ r = "revoked" => taskErrCode' = "E_EKEYREVOKED"
    BY <2>1, Zenon DEF FreshStart
  <2>7. Started(m, p, r)
    BY <1>4, <2>2, <2>4, <2>5, <2>6, Zenon DEF Started, session
  <2>8. QED
    BY <2>1, <2>2, <2>3, <2>4, <2>7, Zenon DEF DataType
<1>5. QED
  BY Zenon, <1>3, <1>4

\* A step that raises an event of a task under way.
TaskStep ==
    \/ DoTimeSync \/ DoAbilitySync \/ DoInitiactiveDataSyncWithSlidingWindow
    \/ DoPassiveDataSyncWithSlidingWindow \/ DoInitiactiveControlSync
    \/ DoWaitForDataRecv \/ PullResponseAdded \/ StepToTimeout
    \/ \E s \in Ops \cup Pulls :
          \/ TimeSyncFinished(s) \/ AbilitySyncRecv(s) \/ HandleControlAckRecv(s)
          \/ HandleDataAckRecv(s) \/ DataRecvErrCodeHandle(s)
\* It keeps the requests, the target but for its mode, and the status of the context,
\* and the watch dog runs on.
TaskFrame ==
    /\ GoesOn
    /\ UNCHANGED <<requestQueue, called, adding, reading, taskExecStatus, execStage, op,
                   requestSession, killed>>
    /\ mode' = mode \/ (mode' = "RESPONSE_PULL" /\ currentState = "START_PASSIVE_DATA_SYNC")
    /\ execTasks' = execTasks \/ ScheduleIfNotRunning
    /\ ResetWatchDog \/ UNCHANGED <<timer, watchDog>>
    /\ currentState \in Working \/ machineLock \in {"free", "reading"}

\* Each of these handlers keeps within that frame.
LEMMA TaskSteps ==
    ASSUME currentState \in States, TaskStep
    PROVE  TaskFrame
<1>1. CASE DoTimeSync
  <2>1. GoesOn
    BY <1>1, TaskGoesOn, Zenon DEF DoTimeSync, TaskEvents, SendFails, SendFailure,
       TransforTimeOutErrCodeToEvent, Request, Wait, GoesOn
  <2>2. QED
    BY <1>1, <2>1, Zenon DEF DoTimeSync, TaskFrame, queueVars, targetVars, killVars,
       execVars, timerVars, Handles, Working
<1>2. CASE DoAbilitySync
  <2>1. GoesOn
    BY <1>2, TaskGoesOn, AbilityGoesOn, Zenon DEF DoAbilitySync, TaskEvents, SendFails,
       SendFailure, TransforTimeOutErrCodeToEvent, Request, Wait, GoesOn
  <2>2. QED
    BY <1>2, <2>1, Zenon DEF DoAbilitySync, TaskFrame, queueVars, targetVars, killVars,
       execVars, timerVars, Handles, Working
<1>3. CASE DoInitiactiveDataSyncWithSlidingWindow
  <2>1. GoesOn
    BY <1>3, TaskGoesOn, Zenon DEF DoInitiactiveDataSyncWithSlidingWindow, TaskEvents,
       TransforTimeOutErrCodeToEvent, Wait, GoesOn
  <2>2. QED
    BY <1>3, <2>1, Zenon DEF DoInitiactiveDataSyncWithSlidingWindow, TaskFrame,
       queueVars, targetVars, killVars, execVars, timerVars, Handles, Working
<1>4. CASE DoPassiveDataSyncWithSlidingWindow
  <2>1. GoesOn
    BY <1>4, TaskGoesOn, Zenon DEF DoPassiveDataSyncWithSlidingWindow, TaskEvents, Wait,
       GoesOn
  <2>2. QED
    BY <1>4, <2>1, Zenon DEF DoPassiveDataSyncWithSlidingWindow, TaskFrame, queueVars,
       targetVars, killVars, execVars, timerVars, Handles, Working
<1>5. CASE DoInitiactiveControlSync
  <2>1. GoesOn
    BY <1>5, TaskGoesOn, Zenon DEF DoInitiactiveControlSync, TaskEvents, SendFails,
       SendFailure, TransforTimeOutErrCodeToEvent, Request, Wait, GoesOn
  <2>2. QED
    BY <1>5, <2>1, Zenon DEF DoInitiactiveControlSync, TaskFrame, queueVars, targetVars,
       killVars, execVars, timerVars, Handles, Working
<1>6. CASE DoWaitForDataRecv
  <2>1. GoesOn
    BY <1>6, TaskGoesOn, Zenon DEF DoWaitForDataRecv, TaskEvents, Wait, GoesOn
  <2>2. QED
    BY <1>6, <2>1, Zenon DEF DoWaitForDataRecv, TaskFrame, queueVars, targetVars,
       killVars, execVars, timerVars, Handles, Working
<1>7. CASE PullResponseAdded
  <2>1. GoesOn
    BY <1>7, TaskGoesOn, Zenon DEF PullResponseAdded, TaskEvents, GoesOn
  <2>2. QED
    BY <1>7, <2>1, Zenon DEF PullResponseAdded, TaskFrame, queueVars, targetVars,
       killVars, timerVars
<1>8. CASE StepToTimeout
  <2>1. GoesOn
    BY <1>8, TaskGoesOn, Zenon DEF StepToTimeout, TaskEvents, GoesOn, MachineFree
  <2>2. QED
    BY <1>8, <2>1, Zenon DEF StepToTimeout, TaskFrame, queueVars, targetVars, killVars,
       execVars, MachineFree
<1>9. ASSUME NEW s \in Ops \cup Pulls, TimeSyncFinished(s)
      PROVE  TaskFrame
  <2>1. GoesOn
    BY <1>9, TaskGoesOn, Zenon DEF TimeSyncFinished, TaskEvents
  <2>2. QED
    BY <1>9, <2>1, Zenon DEF TimeSyncFinished, TaskFrame, queueVars, targetVars,
       killVars, execVars, timerVars, Handled, MachineFree
<1>10. ASSUME NEW s \in Ops \cup Pulls, AbilitySyncRecv(s)
      PROVE  TaskFrame
  <2>1. GoesOn
    BY <1>10, TaskGoesOn, AbilityGoesOn, Zenon DEF AbilitySyncRecv, TaskEvents
  <2>2. QED
    BY <1>10, <2>1, Zenon DEF AbilitySyncRecv, TaskFrame, queueVars, targetVars,
       killVars, execVars, timerVars, Handled, MachineFree
<1>11. ASSUME NEW s \in Ops \cup Pulls, HandleControlAckRecv(s)
      PROVE  TaskFrame
  <2>1. GoesOn
    BY <1>11, TaskGoesOn, Zenon DEF HandleControlAckRecv, TaskEvents
  <2>2. QED
    BY <1>11, <2>1, Zenon DEF HandleControlAckRecv, TaskFrame, queueVars, targetVars,
       killVars, execVars, timerVars, Handled, MachineFree
<1>12. ASSUME NEW s \in Ops \cup Pulls, HandleDataAckRecv(s)
      PROVE  TaskFrame
  <2>1. GoesOn
    BY <1>12, TaskGoesOn, Zenon DEF HandleDataAckRecv, TaskEvents, SendFinished,
       NeedAbilitySyncHandle, ReSendFromPeerMark, AckNotPermit, AckError,
       ContinueTimesOut, ResponsePullError, AckChangesNothing, MachineFree, GoesOn
  <2>2. QED
    BY <1>12, <2>1, Zenon DEF HandleDataAckRecv, TaskFrame, queueVars, targetVars,
       killVars, execVars, timerVars, Handled, MachineFree
<1>13. ASSUME NEW s \in Ops \cup Pulls, DataRecvErrCodeHandle(s)
      PROVE  TaskFrame
  <2>1. GoesOn
    BY <1>13, TaskGoesOn, Zenon DEF DataRecvErrCodeHandle, TaskEvents
  <2>2. QED
    BY <1>13, <2>1, Zenon DEF DataRecvErrCodeHandle, TaskFrame, queueVars, targetVars,
       killVars, execVars, timerVars, Handled, MachineFree
<1>14. QED
  BY <1>1, <1>2, <1>3, <1>4, <1>5, <1>6, <1>7, <1>8, <1>9, <1>10, <1>11, <1>12, <1>13,
     Zenon DEF TaskStep

(***************************************************************************)
(* Initial states and steps that change nothing                            *)
(***************************************************************************)

\* A context that SyncTaskContext has just made satisfies the invariant.
LEMMA InvInit ==
    ASSUME Init
    PROVE  Inv
<1>1. /\ scenario \in Scenarios /\ scenario.messages \in Nat
      /\ None \notin Ops \cup Pulls
  BY ConstantsAssumption, Zenon DEF Init
<1>2. Range(requestQueue) = {} /\ called = {}
  BY SMT DEF Init, Range
<1>3. TypeOK
  <2>1. messages \in 0..scenario.messages
    BY <1>1, SMT DEF Init
  <2>2. status \in [Ops -> Statuses] /\ lastFullSyncTaskStatus \in Statuses
    BY Zenon DEF Init, Statuses
  <2>3. /\ mode \in Modes /\ dataMode \in Modes
        /\ taskExecStatus \in {"INIT", "RUNNING", "FINISHED"}
        /\ execStage \in {"no", "empty", "check", "start"}
        /\ machineLock \in {"free", "step", "empty", "moved", "added", "reading"}
        /\ taskErrCode \in {"E_OK", "E_OTHER", "E_EKEYREVOKED"}
        /\ fired \in {"no", "current", "stale", "expired", "expiredStale"}
        /\ reSendMap \in {"empty", "waiting", "sent"} /\ unsent \in {"none", "new", "mapped"}
        /\ execTasks \in Nat /\ steps \in Nat /\ aborting \in Nat /\ retryTime \in Nat
    BY Zenon DEF Init, Modes
  <2>4. currentState \in States
    BY Zenon DEF Init, States, SwitchTable
  <2>5. requestQueue \in Seq(Ops) /\ responseQueue \in Seq(Pulls)
    BY SMT DEF Init
  <2>6. QED
    BY <1>2, <2>1, <2>2, <2>3, <2>4, <2>5, Zenon DEF Init, TypeOK, Sessions
<1>4. Typed
  BY <1>1, <1>2, <1>3, Zenon DEF Typed
<1>5. Machine /\ Queued
  BY Zenon DEF Init, Machine, Queued
<1>6. Current /\ Routed /\ Data
  BY <1>1, Zenon DEF Init, Current, Routed, Data, UserModes, Exchange
<1>7. Uncalled /\ Unpulled /\ Subscribed
  BY Zenon DEF Init, Uncalled, Unpulled, Subscribed
<1>8. Kept /\ Earned
  <2>1. op = None /\ called = {} /\ currentState = "IDLE"
    BY Zenon DEF Init
  <2>2. QED
    BY <2>1, Zenon DEF Kept, Tracked, AtEnd, AtRest, InControl, InResponse, LetGo, Sent,
       Earned
<1>9. QED
  BY <1>4, <1>5, <1>6, <1>7, <1>8, Zenon DEF Inv

\* The invariant speaks of the variables only.
LEMMA InvStutter ==
    ASSUME Inv, UNCHANGED <<vars, scenario>>
    PROVE  Inv'
<1> USE DEF vars, queueVars, execVars, machineVars, targetVars, timerVars, statusVars,
            killVars, dataVars, netVars, Mode, AutoSync, Faults
<1>1. Typed'
  <2>1. TypeOK /\ scenario \in Scenarios /\ called \subseteq DOMAIN Mode
        /\ Range(requestQueue) \subseteq called
    BY Zenon DEF Inv, Typed
  <2>2. TypeOK'
    BY <2>1, SMT DEF TypeOK
  <2>3. QED
    BY <2>1, <2>2, Zenon DEF Typed
<1>2. Machine' /\ Queued'
  BY Zenon DEF Inv, Machine, Queued
<1>3. Current' /\ Routed'
  BY Zenon DEF Inv, Current, Routed
<1>4. Uncalled' /\ Unpulled' /\ Subscribed'
  BY Zenon DEF Inv, Uncalled, Unpulled, Subscribed
<1>5. Data'
  BY Zenon DEF Inv, Data
<1>6. Kept'
  <2>1. Tracked => Tracked'
    BY Zenon DEF Tracked
  <2>2. (AtEnd => AtEnd') /\ (AtRest => AtRest') /\ (InControl => InControl')
    BY Zenon DEF AtEnd, AtRest, InControl, LetGo
  <2>3. InResponse => InResponse'
    BY Zenon DEF InResponse, Responding, Sent
  <2>4. QED
    BY <2>1, <2>2, <2>3, Zenon DEF Inv, Kept, Misreads
<1>7. Earned'
  BY Zenon DEF Inv, Earned, Told, Shows, Misreads
<1>8. QED
  BY <1>1, <1>2, <1>3, <1>4, <1>5, <1>6, <1>7, Zenon DEF Inv

(***************************************************************************)
(* The machine, the queue and the current target                           *)
(***************************************************************************)

\* Every step keeps the rules by which the machine is started and timed.
LEMMA MachineKept ==
    ASSUME Inv, Next, UNCHANGED scenario
    PROVE  Machine'
<1>1. Machine /\ currentState \in States /\ scenario' = scenario
  BY Zenon DEF Inv, Typed, TypeOK
<1>2. UNCHANGED <<taskExecStatus, execStage, currentState, machineLock, timer, watchDog>>
      => Machine'
  BY <1>1, SMT DEF Machine, Faults
<1>3. TaskFrame => Machine'
  BY <1>1, Resets, SMT DEF TaskFrame, Machine, GoesOn, Faults, Working, Ends, Exchange
<1>4. CASE DoSyncTaskFinished
  <2>1. /\ currentState = "SYNC_TASK_FINISHED" /\ timer' = FALSE /\ watchDog' = FALSE
        /\ machineLock' = "empty" \/ machineLock' = "moved"
        /\ UNCHANGED <<taskExecStatus, execStage, currentState>>
    BY <1>4, Zenon DEF DoSyncTaskFinished, execVars, Handles, StopWatchDog, StopTimer
  <2>2. QED
    BY <2>1, <1>1, Zenon DEF Machine, Faults
<1>5. CASE NoTaskLeft
  BY <1>5, <1>1, OnAllTaskFinished, Zenon DEF NoTaskLeft, Machine, Faults, execVars,
     machineVars, timerVars, StopTimer
<1>6. CASE SkipTask
  BY <1>6, <1>1, Zenon DEF SkipTask, Machine, Faults, execVars, machineVars, timerVars
<1>7. CASE PrepareNextSyncTask
  BY <1>7, <1>1, OnStartSync, OnInnerErr, Zenon DEF PrepareNextSyncTask, Machine, Faults,
     execVars, machineVars, timerVars, StartWatchDog, StartWatchDogFails, Moves, Working
<1>8. CASE DoTimeout
  BY <1>8, <1>1, OnAny, Zenon DEF DoTimeout, Machine, Faults, execVars, machineVars,
     timerVars, Handles, AbortTask, StopTimer, Moves
<1>9. CASE DoInnerErr
  BY <1>9, <1>1, OnAny, Zenon DEF DoInnerErr, Machine, Faults, execVars, machineVars,
     timerVars, Handles, AbortTask, StopTimer, Moves
<1>10. CASE CancelForPullResponse
  BY <1>10, <1>1, Zenon DEF CancelForPullResponse, Machine, Faults, execVars, machineVars,
     timerVars
<1>11. CASE ExecSyncTask
  BY <1>11, <1>1, Zenon DEF ExecSyncTask, Machine, Faults, execVars, machineVars, timerVars
<1>12. CASE ExecSyncTaskFinished
  BY <1>12, <1>1, Zenon DEF ExecSyncTaskFinished, Machine, Faults, execVars, machineVars,
     timerVars
<1>13. CASE RunPermissionCheck
  BY <1>13, <1>1, Zenon DEF RunPermissionCheck, Machine, Faults, execVars, machineVars,
     timerVars
<1>14. CASE StartSync
  <2>1. /\ execStage = "start" /\ execStage' = "no" /\ machineLock = "free"
        /\ taskExecStatus' = taskExecStatus
        /\ \/ /\ timer' = TRUE /\ machineLock' = "step" /\ currentState' = "TIME_SYNC"
           \/ /\ timer \/ "timer" \in Faults
              /\ UNCHANGED <<timer, watchDog, currentState, machineLock>>
    BY <1>14, Zenon DEF StartSync, MachineFree, StartWatchDog, StartWatchDogFails, timerVars
  <2>2. CASE timer' = TRUE /\ machineLock' = "step" /\ currentState' = "TIME_SYNC"
    BY <2>1, <2>2, <1>1, Zenon DEF Machine, Faults
  <2>3. CASE /\ timer \/ "timer" \in Faults
             /\ UNCHANGED <<timer, watchDog, currentState, machineLock>>
    BY <2>1, <2>3, <1>1, Zenon DEF Machine, Faults
  <2>4. QED
    BY <2>1, <2>2, <2>3, Zenon
<1>15. CASE SyncStepInnerLocked
  BY <1>15, <1>1, Zenon DEF SyncStepInnerLocked, Machine, Faults, execVars, machineVars,
     timerVars, MachineFree
<1>16. CASE CommErrAbort
  BY <1>16, <1>1, AcceptsError, Zenon DEF CommErrAbort, Machine, Faults, execVars,
     machineVars, timerVars, MachineFree, Working
<1>17. ASSUME NEW s \in Ops \cup Pulls, TimeMarkSyncRecv(s)
      PROVE  Machine'
  BY <1>17, <1>3, Zenon DEF TimeMarkSyncRecv, TaskFrame, GoesOn, MachineFree, queueVars,
     execVars, machineVars, killVars
<1>18. ASSUME NEW p \in Pulls, AddPullResponseTarget(p)
      PROVE  Machine'
  <2>1. /\ machineLock = "free" /\ machineLock' = "added"
        /\ UNCHANGED <<taskExecStatus, execStage, currentState, timer, watchDog>>
    BY <1>18, Zenon DEF AddPullResponseTarget, MachineFree, execVars, timerVars
  <2>2. QED
    BY <1>1, <2>1, Zenon DEF Machine, Faults
<1>19. CASE TaskStep
  BY Zenon, <1>19, <1>1, <1>3, TaskSteps
<1>20. CASE \/ Fire \/ TimeoutCallback \/ ClearAllSyncTask \/ LocalWrite
  BY <1>20, <1>2, Zenon DEF Fire, TimeoutCallback, ClearAllSyncTask, LocalWrite, execVars,
     machineVars, timerVars
<1>21. ASSUME NEW s \in Ops \cup Pulls,
             \/ CommErrHandlerFunc(s)
             \/ \E k \in {"ability", "control"} : MessageCallbackPre(k, s)
      PROVE  Machine'
  BY <1>21, <1>2, Zenon DEF CommErrHandlerFunc, MessageCallbackPre, execVars, machineVars,
     timerVars
<1>22. ASSUME NEW o \in Ops,
             \/ AddSyncTarget(o) \/ TargetAdded(o) \/ RemoveSyncOperation(o)
             \/ AddSyncOperation(o) \/ StopSync(o)
      PROVE  Machine'
  BY <1>22, <1>2, Zenon DEF AddSyncTarget, TargetAdded, RemoveSyncOperation,
     AddSyncOperation, StopSync, execVars, machineVars, timerVars
<1>23. QED
  BY <1>4, <1>5, <1>6, <1>7, <1>8, <1>9, <1>10, <1>11, <1>12, <1>13, <1>14, <1>15, <1>16,
     <1>17, <1>18, <1>19, <1>20, <1>21, <1>22, Zenon DEF TaskStep, Next, Handler, Exec,
     Timer, LateAck, Peer, User

\* Every step leaves someone who finds the queued targets.
LEMMA QueuedKept ==
    ASSUME Inv, Next, UNCHANGED scenario
    PROVE  Queued'
<1>1. Queued /\ currentState \in States /\ scenario' = scenario
  BY Zenon DEF Inv, Typed, TypeOK
<1>2. /\ UNCHANGED <<requestQueue, adding, reading, taskExecStatus, execTasks, execStage>>
      /\ machineLock' = "empty" => machineLock = "empty"
      => Queued'
  BY <1>1, Zenon DEF Queued, Faults
<1>3. \A e : SwitchStateAndStep(e) => machineLock' # "empty"
  BY Zenon DEF SwitchStateAndStep
<1>4. /\ requestQueue \in Seq(Ops) /\ Range(requestQueue) \subseteq Ops
      /\ execTasks > 0 /\ ScheduleIfNotRunning => execTasks' > 0
      /\ taskExecStatus # "RUNNING" /\ ScheduleIfNotRunning => execTasks' > 0
  BY SMT DEF Inv, Typed, TypeOK, ScheduleIfNotRunning
<1>5. CASE DoSyncTaskFinished
  <2>1. execStage' # "empty" /\ (machineLock' = "empty" => requestQueue' = <<>>)
    BY <1>5, Zenon DEF DoSyncTaskFinished, queueVars, execVars, QueuesEmpty, ContextFree
  <2>2. taskExecStatus' = "RUNNING"
    BY <1>5, Zenon DEF DoSyncTaskFinished, execVars, Handles, Inv, Machine
  <2>3. QED
    BY <1>1, <2>1, <2>2, Zenon DEF Queued
<1>6. CASE NoTaskLeft
  BY <1>6, <1>1, <1>3, Zenon DEF NoTaskLeft, Queued, Faults, queueVars
<1>7. CASE SkipTask
  BY <1>7, <1>2, <1>3, Zenon DEF SkipTask, queueVars, execVars
<1>8. CASE PrepareNextSyncTask
  BY <1>8, <1>2, <1>3, Zenon DEF PrepareNextSyncTask, queueVars, execVars
<1>9. CASE DoTimeout
  BY <1>9, <1>2, <1>3, Zenon DEF DoTimeout, AbortTask, queueVars, execVars
<1>10. CASE DoInnerErr
  BY <1>10, <1>2, <1>3, Zenon DEF DoInnerErr, AbortTask, queueVars, execVars
<1>11. CASE CancelForPullResponse
  BY <1>11, <1>2, <1>3, Zenon DEF CancelForPullResponse, queueVars, execVars
<1>12. CASE ExecSyncTask
  <2>1. CASE taskExecStatus = "RUNNING"
    BY <1>12, <1>1, <2>1, Zenon DEF ExecSyncTask, Queued, Faults, queueVars, machineVars
  <2>2. CASE taskExecStatus # "RUNNING"
    BY <1>12, <1>1, <2>2, Zenon DEF ExecSyncTask, Queued, Faults, queueVars, machineVars,
       QueuesEmpty, ContextFree
  <2>3. QED
    BY Zenon, <2>1, <2>2
<1>13. CASE ExecSyncTaskFinished
  BY <1>13, <1>1, Zenon DEF ExecSyncTaskFinished, Queued, Faults, queueVars, machineVars
<1>14. CASE RunPermissionCheck
  BY <1>14, <1>1, Zenon DEF RunPermissionCheck, Queued, Faults, queueVars, machineVars
<1>15. CASE StartSync
  BY <1>15, <1>1, Zenon DEF StartSync, Queued, Faults, queueVars
<1>16. CASE SyncStepInnerLocked
  BY <1>16, <1>2, <1>3, Zenon DEF SyncStepInnerLocked, queueVars, execVars
<1>17. ASSUME NEW o \in Ops, AddSyncTarget(o)
      PROVE  Queued'
  BY <1>17, <1>1, Zenon DEF AddSyncTarget, Queued, Faults, execVars, machineVars,
     ContextFree
<1>18. ASSUME NEW o \in Ops, TargetAdded(o)
      PROVE  Queued'
  BY <1>18, <1>1, <1>4, Zenon DEF TargetAdded, Queued, Faults, machineVars
<1>19. ASSUME NEW o \in Ops, RemoveSyncOperation(o)
      PROVE  Queued'
  <2>1. requestQueue' # <<>> => requestQueue # <<>>
    BY <1>19, <1>4, SMT DEF RemoveSyncOperation
  <2>2. QED
    BY <1>19, <1>1, <2>1, Zenon DEF RemoveSyncOperation, Queued, Faults, execVars,
       machineVars
<1>20. ASSUME NEW p \in Pulls, AddPullResponseTarget(p)
      PROVE  Queued'
  BY <1>20, <1>2, <1>3, Zenon DEF AddPullResponseTarget, queueVars, execVars
<1>21. CASE ClearAllSyncTask
  BY <1>21, <1>1, Zenon DEF ClearAllSyncTask, Queued, Faults
<1>22. ASSUME NEW o \in Ops, AddSyncOperation(o)
      PROVE  Queued'
  BY <1>22, <1>1, <1>2, Zenon DEF AddSyncOperation, Queued, Faults, execVars, machineVars
<1>23. CASE TaskStep
  BY <1>23, <1>1, <1>4, TaskSteps, Zenon DEF TaskFrame, GoesOn, Queued, Faults
<1>24. CASE \/ Fire \/ TimeoutCallback \/ CommErrAbort \/ LocalWrite
  BY <1>24, <1>2, Zenon DEF Fire, TimeoutCallback, CommErrAbort, LocalWrite, queueVars,
     execVars, machineVars
<1>25. ASSUME NEW s \in Ops \cup Pulls,
             \/ TimeMarkSyncRecv(s) \/ CommErrHandlerFunc(s)
             \/ \E k \in {"ability", "control"} : MessageCallbackPre(k, s)
      PROVE  Queued'
  BY <1>25, <1>2, Zenon DEF TimeMarkSyncRecv, CommErrHandlerFunc, MessageCallbackPre,
     queueVars, execVars, machineVars
<1>26. ASSUME NEW o \in Ops,
             StopSync(o)
      PROVE  Queued'
  BY <1>26, <1>2, Zenon DEF StopSync, queueVars, execVars, machineVars
<1>27. QED
  BY Zenon, <1>5, <1>6, <1>7, <1>8, <1>9, <1>10, <1>11, <1>12, <1>13, <1>14, <1>15, <1>16,
     <1>17, <1>18, <1>19, <1>20, <1>21, <1>22, <1>23, <1>24, <1>25, <1>26, Zenon DEF
     TaskStep, Next, Handler, Exec, Timer, LateAck, Peer, User

\* Every step keeps what is said of the current target.
LEMMA CurrentKept ==
    ASSUME Inv, Next, UNCHANGED scenario
    PROVE  Current'
<1>1. Current /\ scenario' = scenario
  BY Zenon DEF Inv
<1>2. UNCHANGED <<op, mode, requestSession, called>> => Current'
  BY <1>1, Zenon DEF Current, Mode
<1>3. MoveToNextTarget /\ UNCHANGED called => Current'
  <2>1. SUFFICES ASSUME MoveToNextTarget, UNCHANGED called
                 PROVE  Current'
    OBVIOUS
  <2>2. Moved
    BY <2>1, Moving, Zenon DEF Inv
  <2>3. Range(requestQueue) \subseteq called /\ None \notin Range(requestQueue)
    BY ConstantsAssumption, Zenon DEF Inv, Typed, TypeOK
  <2>4. CASE op' = None
    BY <1>1, <2>1, <2>2, <2>4, SMT DEF Moved, Current, Mode, UserModes
  <2>5. CASE op' # None
    BY <1>1, <2>1, <2>2, <2>3, <2>5, Zenon DEF Moved, Current, Mode, UserModes
  <2>6. QED
    BY Zenon, <2>4, <2>5
<1>4. ClearTarget /\ UNCHANGED called => Current'
  BY <1>1, Zenon DEF ClearTarget, Current, UserModes
<1>5. CASE DoPassiveDataSyncWithSlidingWindow
  BY <1>5, <1>1, Zenon DEF DoPassiveDataSyncWithSlidingWindow, Current, Mode, UserModes
<1>6. CASE DoSyncTaskFinished
  BY <1>6, <1>2, <1>3, Zenon DEF DoSyncTaskFinished, queueVars, targetVars
<1>7. CASE NoTaskLeft
  BY <1>7, <1>4, Zenon DEF NoTaskLeft, queueVars
<1>8. CASE DoTimeout
  BY <1>8, <1>4, Zenon DEF DoTimeout, AbortTask, queueVars
<1>9. CASE DoInnerErr
  BY <1>9, <1>4, Zenon DEF DoInnerErr, AbortTask, queueVars
<1>10. CASE ExecSyncTask
  BY <1>10, <1>2, <1>3, Zenon DEF ExecSyncTask, queueVars, targetVars
<1>11. ASSUME NEW o \in Ops, AddSyncOperation(o)
      PROVE  Current'
  BY <1>11, <1>1, Zenon DEF AddSyncOperation, Current, Mode, targetVars
<1>12. CASE \/ DoTimeSync \/ DoAbilitySync \/ DoInitiactiveDataSyncWithSlidingWindow
            \/ DoInitiactiveControlSync \/ DoWaitForDataRecv \/ SkipTask
            \/ PrepareNextSyncTask \/ CancelForPullResponse \/ PullResponseAdded
            \/ ExecSyncTaskFinished \/ RunPermissionCheck \/ StartSync \/ Fire
            \/ TimeoutCallback \/ StepToTimeout \/ SyncStepInnerLocked \/ CommErrAbort
            \/ ClearAllSyncTask \/ LocalWrite
  BY <1>12, <1>2, Zenon DEF DoTimeSync, DoAbilitySync,
     DoInitiactiveDataSyncWithSlidingWindow, DoInitiactiveControlSync,
     DoWaitForDataRecv, SkipTask, PrepareNextSyncTask, CancelForPullResponse,
     PullResponseAdded, ExecSyncTaskFinished, RunPermissionCheck, StartSync, Fire,
     TimeoutCallback, StepToTimeout, SyncStepInnerLocked, CommErrAbort,
     ClearAllSyncTask, LocalWrite, queueVars, targetVars
<1>13. ASSUME NEW s \in Ops \cup Pulls,
             \/ TimeSyncFinished(s) \/ AbilitySyncRecv(s) \/ HandleControlAckRecv(s)
             \/ TimeMarkSyncRecv(s) \/ CommErrHandlerFunc(s) \/ HandleDataAckRecv(s)
             \/ DataRecvErrCodeHandle(s)
             \/ \E k \in {"ability", "control"} : MessageCallbackPre(k, s)
      PROVE  Current'
  BY <1>13, <1>2, Zenon DEF TimeSyncFinished, AbilitySyncRecv, HandleControlAckRecv,
     TimeMarkSyncRecv, CommErrHandlerFunc, HandleDataAckRecv, DataRecvErrCodeHandle,
     MessageCallbackPre, queueVars, targetVars
<1>14. ASSUME NEW o \in Ops,
             \/ AddSyncTarget(o) \/ TargetAdded(o) \/ RemoveSyncOperation(o)
             \/ StopSync(o)
      PROVE  Current'
  BY <1>14, <1>2, Zenon DEF AddSyncTarget, TargetAdded, RemoveSyncOperation, StopSync,
     queueVars, targetVars
<1>15. ASSUME NEW p \in Pulls,
             AddPullResponseTarget(p)
      PROVE  Current'
  BY <1>15, <1>2, Zenon DEF AddPullResponseTarget, queueVars, targetVars
<1>16. QED
  BY <1>5, <1>6, <1>7, <1>8, <1>9, <1>10, <1>11, <1>12, <1>13, <1>14, <1>15, Zenon DEF
     Next, Handler, Exec, Timer, LateAck, Peer, User

(***************************************************************************)
(* Types, group by group                                                   *)
(***************************************************************************)

\* The types of the statuses.
LEMMA StatusTyped ==
    ASSUME Inv, Next, UNCHANGED scenario
    PROVE  StatusType'
<1>1. StatusType /\ scenario' = scenario
  BY Zenon DEF Inv, Typed, TypeOK, StatusType
<1>2. UNCHANGED <<status, lastFullSyncTaskStatus>> => StatusType'
  BY <1>1, Zenon DEF StatusType
<1>3. \A err : \A s \in Statuses : SetOperationStatus(s, err) => StatusType'
  BY <1>1, <1>2, SMT DEF StatusType, SetOperationStatus, SetStatus, MergedStatus,
     SaveLastPushTaskExecStatus, Statuses, FinalStatuses, statusVars, Inv, Typed, TypeOK
<1>4. \A o \in Ops, s \in Statuses : SetStatus(o, s) \in [Ops -> Statuses]
  BY <1>1, Zenon DEF SetStatus, StatusType
<1>5. op # None => op \in Ops
  BY Zenon DEF Inv, Typed, TypeOK
<1>6. CASE DoInitiactiveDataSyncWithSlidingWindow
  BY <1>6, <1>2, <1>3, Zenon DEF DoInitiactiveDataSyncWithSlidingWindow, statusVars,
     Statuses, FinalStatuses
<1>7. CASE DoInitiactiveControlSync
  BY <1>7, <1>2, <1>3, Zenon DEF DoInitiactiveControlSync, statusVars, Statuses,
     FinalStatuses
<1>8. CASE SkipTask
  BY <1>8, <1>2, <1>3, Zenon DEF SkipTask, statusVars, Statuses, FinalStatuses
<1>9. CASE PrepareNextSyncTask
  BY <1>9, <1>2, <1>3, Zenon DEF PrepareNextSyncTask, statusVars, Statuses, FinalStatuses
<1>10. CASE DoTimeout
  BY <1>10, <1>1, <1>4, <1>5, Zenon DEF DoTimeout, StatusType, AbortTask, Statuses,
     FinalStatuses
<1>11. CASE DoInnerErr
  BY <1>11, <1>1, <1>4, <1>5, Zenon DEF DoInnerErr, StatusType, AbortTask, Statuses,
     FinalStatuses
<1>12. CASE RunPermissionCheck
  BY <1>12, <1>2, <1>3, Zenon DEF RunPermissionCheck, statusVars, Statuses, FinalStatuses
<1>13. CASE StartSync
  BY <1>13, <1>2, <1>3, Zenon DEF StartSync, statusVars, Statuses, FinalStatuses
<1>14. ASSUME NEW s \in Ops \cup Pulls, HandleControlAckRecv(s)
      PROVE  StatusType'
  BY <1>14, <1>2, <1>3, Zenon DEF HandleControlAckRecv, statusVars, Statuses, FinalStatuses
<1>15. ASSUME NEW s \in Ops \cup Pulls, HandleDataAckRecv(s)
      PROVE  StatusType'
  BY <1>15, <1>2, <1>3, Zenon DEF HandleDataAckRecv, statusVars, Statuses, FinalStatuses,
     SendFinished, AckChangesNothing, NeedAbilitySyncHandle, ReSendFromPeerMark,
     AckNotPermit, AckError, ContinueTimesOut
<1>16. ASSUME NEW s \in Ops \cup Pulls, DataRecvErrCodeHandle(s)
      PROVE  StatusType'
  BY <1>16, <1>2, <1>3, Zenon DEF DataRecvErrCodeHandle, statusVars, Statuses, FinalStatuses
<1>17. CASE ClearAllSyncTask
  <2>1. \A o \in Ops : status'[o] \in Statuses
    BY <1>17, <1>1, <1>4, SMT DEF ClearAllSyncTask, StatusType, Statuses, FinalStatuses
  <2>2. QED
    BY <1>17, <2>1, Zenon DEF ClearAllSyncTask, StatusType, Statuses
<1>18. ASSUME NEW o \in Ops, AddSyncOperation(o)
      PROVE  StatusType'
  BY <1>18, <1>1, <1>4, ZenonT(60) DEF AddSyncOperation, StatusType, Statuses, FinalStatuses
<1>19. CASE \/ DoTimeSync \/ DoAbilitySync \/ DoPassiveDataSyncWithSlidingWindow
            \/ DoWaitForDataRecv \/ DoSyncTaskFinished \/ NoTaskLeft
            \/ CancelForPullResponse \/ PullResponseAdded \/ ExecSyncTask
            \/ ExecSyncTaskFinished \/ Fire \/ TimeoutCallback \/ StepToTimeout
            \/ SyncStepInnerLocked \/ CommErrAbort \/ LocalWrite
  BY <1>19, <1>2, Zenon DEF DoTimeSync, DoAbilitySync, DoPassiveDataSyncWithSlidingWindow,
     DoWaitForDataRecv, DoSyncTaskFinished, NoTaskLeft, CancelForPullResponse,
     PullResponseAdded, ExecSyncTask, ExecSyncTaskFinished, Fire, TimeoutCallback,
     StepToTimeout, SyncStepInnerLocked, CommErrAbort, LocalWrite, statusVars
<1>20. ASSUME NEW s \in Ops \cup Pulls,
             \/ TimeSyncFinished(s) \/ AbilitySyncRecv(s) \/ TimeMarkSyncRecv(s)
             \/ CommErrHandlerFunc(s)
             \/ \E k \in {"ability", "control"} : MessageCallbackPre(k, s)
      PROVE  StatusType'
  BY <1>20, <1>2, Zenon DEF TimeSyncFinished, AbilitySyncRecv, TimeMarkSyncRecv,
     CommErrHandlerFunc, MessageCallbackPre, statusVars
<1>21. ASSUME NEW o \in Ops,
             \/ AddSyncTarget(o) \/ TargetAdded(o) \/ RemoveSyncOperation(o)
             \/ StopSync(o)
      PROVE  StatusType'
  BY <1>21, <1>2, Zenon DEF AddSyncTarget, TargetAdded, RemoveSyncOperation, StopSync,
     statusVars
<1>22. ASSUME NEW p \in Pulls,
             AddPullResponseTarget(p)
      PROVE  StatusType'
  BY <1>22, <1>2, Zenon DEF AddPullResponseTarget, statusVars
<1>23. QED
  BY Zenon, <1>6, <1>7, <1>8, <1>9, <1>10, <1>11, <1>12, <1>13, <1>14, <1>15, <1>16, <1>17,
     <1>18, <1>19, <1>20, <1>21, <1>22, Zenon DEF Next, Handler, Exec, Timer, LateAck,
     Peer, User

\* The types of ExecSyncTask's variables.
LEMMA ExecTyped ==
    ASSUME Inv, Next, UNCHANGED scenario
    PROVE  ExecType'
<1>1. ExecType /\ scenario' = scenario
  BY Zenon DEF Inv, Typed, TypeOK, ExecType
<1>2. UNCHANGED <<taskExecStatus, execTasks, execStage>> => ExecType'
  BY <1>1, Zenon DEF ExecType
<1>3. CASE NoTaskLeft
  BY <1>3, <1>1, Zenon DEF NoTaskLeft, ExecType, execVars
<1>4. CASE PullResponseAdded
  BY <1>4, <1>1, SMT DEF PullResponseAdded, ExecType, execVars, ScheduleIfNotRunning
<1>5. CASE ExecSyncTask
  BY <1>5, <1>1, SMT DEF ExecSyncTask, ExecType, execVars
<1>6. CASE ExecSyncTaskFinished
  BY <1>6, <1>1, Zenon DEF ExecSyncTaskFinished, ExecType, execVars
<1>7. CASE RunPermissionCheck
  BY <1>7, <1>1, Zenon DEF RunPermissionCheck, ExecType, execVars
<1>8. CASE StartSync
  BY <1>8, <1>1, Zenon DEF StartSync, ExecType, execVars
<1>9. ASSUME NEW o \in Ops, TargetAdded(o)
      PROVE  ExecType'
  BY <1>9, <1>1, SMT DEF TargetAdded, ExecType, execVars, ScheduleIfNotRunning
<1>10. CASE \/ DoTimeSync \/ DoAbilitySync \/ DoInitiactiveDataSyncWithSlidingWindow
            \/ DoPassiveDataSyncWithSlidingWindow \/ DoInitiactiveControlSync
            \/ DoWaitForDataRecv \/ DoSyncTaskFinished \/ SkipTask
            \/ PrepareNextSyncTask \/ DoTimeout \/ DoInnerErr \/ CancelForPullResponse
            \/ Fire \/ TimeoutCallback \/ StepToTimeout \/ SyncStepInnerLocked
            \/ CommErrAbort \/ ClearAllSyncTask \/ LocalWrite
  BY <1>10, <1>2, Zenon DEF DoTimeSync, DoAbilitySync,
     DoInitiactiveDataSyncWithSlidingWindow, DoPassiveDataSyncWithSlidingWindow,
     DoInitiactiveControlSync, DoWaitForDataRecv, DoSyncTaskFinished, SkipTask,
     PrepareNextSyncTask, DoTimeout, DoInnerErr, CancelForPullResponse, Fire,
     TimeoutCallback, StepToTimeout, SyncStepInnerLocked, CommErrAbort,
     ClearAllSyncTask, LocalWrite, AbortTask, execVars
<1>11. ASSUME NEW s \in Ops \cup Pulls,
             \/ TimeSyncFinished(s) \/ AbilitySyncRecv(s) \/ HandleControlAckRecv(s)
             \/ TimeMarkSyncRecv(s) \/ CommErrHandlerFunc(s) \/ HandleDataAckRecv(s)
             \/ DataRecvErrCodeHandle(s)
             \/ \E k \in {"ability", "control"} : MessageCallbackPre(k, s)
      PROVE  ExecType'
  BY <1>11, <1>2, Zenon DEF TimeSyncFinished, AbilitySyncRecv, HandleControlAckRecv,
     TimeMarkSyncRecv, CommErrHandlerFunc, HandleDataAckRecv, DataRecvErrCodeHandle,
     MessageCallbackPre, AbortTask, execVars
<1>12. ASSUME NEW o \in Ops,
             \/ AddSyncTarget(o) \/ RemoveSyncOperation(o) \/ AddSyncOperation(o)
             \/ StopSync(o)
      PROVE  ExecType'
  BY <1>12, <1>2, Zenon DEF AddSyncTarget, RemoveSyncOperation, AddSyncOperation, StopSync,
     AbortTask, execVars
<1>13. ASSUME NEW p \in Pulls,
             AddPullResponseTarget(p)
      PROVE  ExecType'
  BY <1>13, <1>2, Zenon DEF AddPullResponseTarget, AbortTask, execVars
<1>14. QED
  BY <1>3, <1>4, <1>5, <1>6, <1>7, <1>8, <1>9, <1>10, <1>11, <1>12, <1>13, Zenon DEF
     Next, Handler, Exec, Timer, LateAck, Peer, User

\* The types of the machine's state and lock.
LEMMA MachineTyped ==
    ASSUME Inv, Next, UNCHANGED scenario
    PROVE  MachineType'
<1>1. MachineType /\ currentState \in States /\ scenario' = scenario
  BY Zenon DEF Inv, Typed, TypeOK, MachineType
<1>2. UNCHANGED <<currentState, machineLock>> => MachineType'
  BY <1>1, Zenon DEF MachineType
<1>3. CASE DoSyncTaskFinished
  BY <1>3, <1>1, Zenon DEF DoSyncTaskFinished, MachineType, machineVars
<1>4. CASE NoTaskLeft
  BY <1>4, <1>1, TenStates, OnAllTaskFinished, Zenon DEF NoTaskLeft, MachineType, machineVars
<1>5. CASE SkipTask
  BY <1>5, <1>1, Zenon DEF SkipTask, MachineType, machineVars
<1>6. CASE PrepareNextSyncTask
  BY <1>6, <1>1, OnStartSync, OnInnerErr, TenStates, Zenon DEF PrepareNextSyncTask,
     MachineType, machineVars, Moves, Working
<1>7. CASE DoTimeout
  BY <1>7, <1>1, OnAny, TenStates, Zenon DEF DoTimeout, MachineType, machineVars, AbortTask,
     Moves
<1>8. CASE DoInnerErr
  BY <1>8, <1>1, OnAny, TenStates, Zenon DEF DoInnerErr, MachineType, machineVars, AbortTask,
     Moves
<1>9. CASE CancelForPullResponse
  BY <1>9, <1>1, Zenon DEF CancelForPullResponse, MachineType, machineVars
<1>10. CASE StartSync
  BY <1>10, <1>1, TenStates, Zenon DEF StartSync, MachineType, machineVars, Working
<1>11. CASE SyncStepInnerLocked
  BY <1>11, <1>1, Zenon DEF SyncStepInnerLocked, MachineType, machineVars
<1>12. CASE CommErrAbort
  BY <1>12, <1>1, TenStates, Zenon DEF CommErrAbort, MachineType, machineVars
<1>13. ASSUME NEW p \in Pulls, AddPullResponseTarget(p)
      PROVE  MachineType'
  BY <1>13, <1>1, Zenon DEF AddPullResponseTarget, MachineType, machineVars
<1>14. CASE TaskStep
  <2>1. GoesOn
    BY <1>14, <1>1, TaskSteps, Zenon DEF TaskFrame
  <2>2. QED
    BY <1>1, <2>1, TenStates, Zenon DEF MachineType, GoesOn, Working, Ends
<1>15. CASE \/ ExecSyncTask \/ ExecSyncTaskFinished \/ RunPermissionCheck \/ Fire
            \/ TimeoutCallback \/ ClearAllSyncTask \/ LocalWrite
  BY <1>15, <1>2, Zenon DEF ExecSyncTask, ExecSyncTaskFinished, RunPermissionCheck, Fire,
     TimeoutCallback, ClearAllSyncTask, LocalWrite, machineVars
<1>16. ASSUME NEW s \in Ops \cup Pulls,
             \/ TimeMarkSyncRecv(s) \/ CommErrHandlerFunc(s)
             \/ \E k \in {"ability", "control"} : MessageCallbackPre(k, s)
      PROVE  MachineType'
  BY <1>16, <1>2, Zenon DEF TimeMarkSyncRecv, CommErrHandlerFunc, MessageCallbackPre,
     machineVars
<1>17. ASSUME NEW o \in Ops,
             \/ AddSyncTarget(o) \/ TargetAdded(o) \/ RemoveSyncOperation(o)
             \/ AddSyncOperation(o) \/ StopSync(o)
      PROVE  MachineType'
  BY <1>17, <1>2, Zenon DEF AddSyncTarget, TargetAdded, RemoveSyncOperation,
     AddSyncOperation, StopSync, machineVars
<1>18. QED
  BY Zenon, <1>3, <1>4, <1>5, <1>6, <1>7, <1>8, <1>9, <1>10, <1>11, <1>12, <1>13, <1>14, <1>15,
     <1>16, <1>17, Zenon DEF TaskStep, Next, Handler, Exec, Timer, LateAck, Peer, User

\* The types of the counters of pending calls.
LEMMA CountsTyped ==
    ASSUME Inv, Next, UNCHANGED scenario
    PROVE  CountType'
<1>1. CountType /\ scenario' = scenario
  BY Zenon DEF Inv, Typed, TypeOK, CountType
<1>2. UNCHANGED <<steps, aborting>> => CountType'
  BY <1>1, Zenon DEF CountType
<1>3. CASE TimeoutCallback
  BY <1>3, <1>1, SMT DEF TimeoutCallback, CountType, machineVars
<1>4. CASE SyncStepInnerLocked
  BY <1>4, <1>1, SMT DEF SyncStepInnerLocked, CountType, machineVars
<1>5. CASE CommErrAbort
  BY <1>5, <1>1, SMT DEF CommErrAbort, CountType, machineVars
<1>6. ASSUME NEW s \in Ops \cup Pulls, TimeMarkSyncRecv(s)
      PROVE  CountType'
  BY <1>6, <1>1, SMT DEF TimeMarkSyncRecv, CountType, machineVars
<1>7. ASSUME NEW s \in Ops \cup Pulls, CommErrHandlerFunc(s)
      PROVE  CountType'
  BY <1>7, <1>1, SMT DEF CommErrHandlerFunc, CountType, machineVars
<1>8. CASE ClearAllSyncTask
  BY <1>8, <1>1, SMT DEF ClearAllSyncTask, CountType, machineVars
<1>9. CASE \/ DoTimeSync \/ DoAbilitySync \/ DoInitiactiveDataSyncWithSlidingWindow
           \/ DoPassiveDataSyncWithSlidingWindow \/ DoInitiactiveControlSync
           \/ DoWaitForDataRecv \/ DoSyncTaskFinished \/ NoTaskLeft \/ SkipTask
           \/ PrepareNextSyncTask \/ DoTimeout \/ DoInnerErr \/ CancelForPullResponse
           \/ PullResponseAdded \/ ExecSyncTask \/ ExecSyncTaskFinished
           \/ RunPermissionCheck \/ StartSync \/ Fire \/ StepToTimeout \/ LocalWrite
  BY <1>9, <1>2, Zenon DEF DoTimeSync, DoAbilitySync,
     DoInitiactiveDataSyncWithSlidingWindow, DoPassiveDataSyncWithSlidingWindow,
     DoInitiactiveControlSync, DoWaitForDataRecv, DoSyncTaskFinished, NoTaskLeft,
     SkipTask, PrepareNextSyncTask, DoTimeout, DoInnerErr, CancelForPullResponse,
     PullResponseAdded, ExecSyncTask, ExecSyncTaskFinished, RunPermissionCheck,
     StartSync, Fire, StepToTimeout, LocalWrite, AbortTask, machineVars
<1>10. ASSUME NEW s \in Ops \cup Pulls,
             \/ TimeSyncFinished(s) \/ AbilitySyncRecv(s) \/ HandleControlAckRecv(s)
             \/ HandleDataAckRecv(s) \/ DataRecvErrCodeHandle(s)
             \/ \E k \in {"ability", "control"} : MessageCallbackPre(k, s)
      PROVE  CountType'
  BY <1>10, <1>2, Zenon DEF TimeSyncFinished, AbilitySyncRecv, HandleControlAckRecv,
     HandleDataAckRecv, DataRecvErrCodeHandle, MessageCallbackPre, AbortTask,
     machineVars
<1>11. ASSUME NEW o \in Ops,
             \/ AddSyncTarget(o) \/ TargetAdded(o) \/ RemoveSyncOperation(o)
             \/ AddSyncOperation(o) \/ StopSync(o)
      PROVE  CountType'
  BY <1>11, <1>2, Zenon DEF AddSyncTarget, TargetAdded, RemoveSyncOperation,
     AddSyncOperation, StopSync, AbortTask, machineVars
<1>12. ASSUME NEW p \in Pulls,
             AddPullResponseTarget(p)
      PROVE  CountType'
  BY <1>12, <1>2, Zenon DEF AddPullResponseTarget, AbortTask, machineVars
<1>13. QED
  BY <1>3, <1>4, <1>5, <1>6, <1>7, <1>8, <1>9, <1>10, <1>11, <1>12, Zenon DEF Next,
     Handler, Exec, Timer, LateAck, Peer, User

\* The types of the timer's variables.
LEMMA TimersTyped ==
    ASSUME Inv, Next, UNCHANGED scenario
    PROVE  TimerType'
<1>1. TimerType /\ scenario' = scenario
  BY Zenon DEF Inv, Typed, TypeOK, TimerType
<1>2. UNCHANGED <<timer, watchDog, retryTime, fired>> => TimerType'
  BY <1>1, Zenon DEF TimerType
<1>3. ResetWatchDog => TimerType'
  <2>1. SUFFICES ASSUME watchDog, ResetWatchDog PROVE TimerType'
    BY <1>2, Zenon DEF ResetWatchDog, timerVars
  <2>2. timer' \in BOOLEAN /\ watchDog' = watchDog
    BY <2>1, Zenon DEF ResetWatchDog, SetTimer
  <2>3. retryTime' = 0 /\ (fired' = AfterStopTimer \/ fired' = fired)
    BY <2>1, Zenon DEF ResetWatchDog
  <2>4. QED
    BY <1>1, <2>2, <2>3, Zenon DEF TimerType, AfterStopTimer
<1>4. AfterStopTimer \in {"no", "current", "stale", "expired", "expiredStale"}
  BY <1>1, Zenon DEF TimerType, AfterStopTimer
<1>5. 0 \in Nat
  BY Zenon
<1>6. CASE DoSyncTaskFinished
  BY <1>6, <1>1, <1>4, Zenon DEF DoSyncTaskFinished, TimerType, StopWatchDog, StopTimer
<1>7. CASE NoTaskLeft
  BY <1>7, <1>1, <1>4, <1>5, Zenon DEF NoTaskLeft, TimerType, StopTimer
<1>8. CASE PrepareNextSyncTask
  BY <1>8, <1>1, <1>2, Zenon DEF PrepareNextSyncTask, TimerType, timerVars, StartWatchDog,
     StartWatchDogFails
<1>9. CASE DoTimeout
  BY <1>9, <1>1, <1>4, <1>5, Zenon DEF DoTimeout, AbortTask, TimerType, StopTimer
<1>10. CASE DoInnerErr
  BY <1>10, <1>1, <1>4, <1>5, Zenon DEF DoInnerErr, AbortTask, TimerType, StopTimer
<1>11. CASE CancelForPullResponse
  BY <1>11, <1>1, ConstantsAssumption, Zenon DEF CancelForPullResponse, TimerType, timerVars,
     CancelCurrentSyncRetryIfNeed
<1>12. CASE StartSync
  BY <1>12, <1>1, <1>2, Zenon DEF StartSync, TimerType, timerVars, StartWatchDog,
     StartWatchDogFails
<1>13. CASE Fire
  BY <1>13, <1>1, Zenon DEF Fire, TimerType, timerVars
<1>14. CASE TimeoutCallback
  BY <1>14, <1>1, SMT DEF TimeoutCallback, TimerType, timerVars
<1>15. CASE StepToTimeout
  BY <1>15, <1>1, Zenon DEF StepToTimeout, TimerType, timerVars
<1>16. ASSUME NEW s \in Ops \cup Pulls, AbilitySyncRecv(s)
      PROVE  TimerType'
  BY <1>16, <1>2, <1>3, Zenon DEF AbilitySyncRecv, timerVars
<1>17. ASSUME NEW s \in Ops \cup Pulls, HandleControlAckRecv(s)
      PROVE  TimerType'
  BY <1>17, <1>2, <1>3, Zenon DEF HandleControlAckRecv, timerVars
<1>18. ASSUME NEW o \in Ops, AddSyncTarget(o)
      PROVE  TimerType'
  BY <1>18, <1>1, ConstantsAssumption, Zenon DEF AddSyncTarget, TimerType, timerVars,
     CancelCurrentSyncRetryIfNeed
<1>19. ASSUME NEW s \in Ops \cup Pulls, TimeMarkSyncRecv(s)
      PROVE  TimerType'
  BY <1>19, <1>2, <1>3, Zenon DEF TimeMarkSyncRecv, timerVars
<1>20. ASSUME NEW s \in Ops \cup Pulls, HandleDataAckRecv(s)
      PROVE  TimerType'
  BY <1>20, <1>2, <1>3, Zenon DEF HandleDataAckRecv, timerVars
<1>21. ASSUME NEW s \in Ops \cup Pulls, DataRecvErrCodeHandle(s)
      PROVE  TimerType'
  BY <1>21, <1>2, <1>3, Zenon DEF DataRecvErrCodeHandle, timerVars
<1>22. CASE \/ DoTimeSync \/ DoAbilitySync \/ DoInitiactiveDataSyncWithSlidingWindow
            \/ DoPassiveDataSyncWithSlidingWindow \/ DoInitiactiveControlSync
            \/ DoWaitForDataRecv \/ SkipTask \/ PullResponseAdded \/ ExecSyncTask
            \/ ExecSyncTaskFinished \/ RunPermissionCheck \/ SyncStepInnerLocked
            \/ CommErrAbort \/ ClearAllSyncTask \/ LocalWrite
  BY <1>22, <1>2, Zenon DEF DoTimeSync, DoAbilitySync,
     DoInitiactiveDataSyncWithSlidingWindow, DoPassiveDataSyncWithSlidingWindow,
     DoInitiactiveControlSync, DoWaitForDataRecv, SkipTask, PullResponseAdded,
     ExecSyncTask, ExecSyncTaskFinished, RunPermissionCheck, SyncStepInnerLocked,
     CommErrAbort, ClearAllSyncTask, LocalWrite, timerVars
<1>23. ASSUME NEW s \in Ops \cup Pulls,
             \/ TimeSyncFinished(s) \/ CommErrHandlerFunc(s)
             \/ \E k \in {"ability", "control"} : MessageCallbackPre(k, s)
      PROVE  TimerType'
  BY <1>23, <1>2, Zenon DEF TimeSyncFinished, CommErrHandlerFunc, MessageCallbackPre,
     timerVars
<1>24. ASSUME NEW o \in Ops,
             \/ TargetAdded(o) \/ RemoveSyncOperation(o) \/ AddSyncOperation(o)
             \/ StopSync(o)
      PROVE  TimerType'
  BY <1>24, <1>2, Zenon DEF TargetAdded, RemoveSyncOperation, AddSyncOperation, StopSync,
     timerVars
<1>25. ASSUME NEW p \in Pulls,
             AddPullResponseTarget(p)
      PROVE  TimerType'
  BY <1>25, <1>2, Zenon DEF AddPullResponseTarget, timerVars
<1>26. QED
  BY Zenon, <1>6, <1>7, <1>8, <1>9, <1>10, <1>11, <1>12, <1>13, <1>14, <1>15, <1>16, <1>17,
     <1>18, <1>19, <1>20, <1>21, <1>22, <1>23, <1>24, <1>25, Zenon DEF Next, Handler,
     Exec, Timer, LateAck, Peer, User

\* Only operations that were handed over are killed.
LEMMA KillsTyped ==
    ASSUME Inv, Next, UNCHANGED scenario
    PROVE  KillType'
<1>1. KillType /\ scenario' = scenario
  BY Zenon DEF Inv, Typed, TypeOK, KillType
<1>2. UNCHANGED <<called, killed, removing>> => KillType'
  BY <1>1, Zenon DEF KillType
<1>3. ASSUME NEW o \in Ops, RemoveSyncOperation(o)
      PROVE  KillType'
  BY <1>3, <1>1, Zenon DEF RemoveSyncOperation, KillType
<1>4. ASSUME NEW o \in Ops, AddSyncOperation(o)
      PROVE  KillType'
  BY <1>4, <1>1, Zenon DEF AddSyncOperation, KillType, killVars
<1>5. ASSUME NEW o \in Ops, StopSync(o)
      PROVE  KillType'
  BY <1>5, <1>1, Zenon DEF StopSync, KillType, queueVars
<1>6. CASE \/ DoTimeSync \/ DoAbilitySync \/ DoInitiactiveDataSyncWithSlidingWindow
           \/ DoPassiveDataSyncWithSlidingWindow \/ DoInitiactiveControlSync
           \/ DoWaitForDataRecv \/ DoSyncTaskFinished \/ NoTaskLeft \/ SkipTask
           \/ PrepareNextSyncTask \/ DoTimeout \/ DoInnerErr \/ CancelForPullResponse
           \/ PullResponseAdded \/ ExecSyncTask \/ ExecSyncTaskFinished
           \/ RunPermissionCheck \/ StartSync \/ Fire \/ TimeoutCallback
           \/ StepToTimeout \/ SyncStepInnerLocked \/ CommErrAbort \/ ClearAllSyncTask
           \/ LocalWrite
  BY <1>6, <1>2, Zenon DEF DoTimeSync, DoAbilitySync,
     DoInitiactiveDataSyncWithSlidingWindow, DoPassiveDataSyncWithSlidingWindow,
     DoInitiactiveControlSync, DoWaitForDataRecv, DoSyncTaskFinished, NoTaskLeft,
     SkipTask, PrepareNextSyncTask, DoTimeout, DoInnerErr, CancelForPullResponse,
     PullResponseAdded, ExecSyncTask, ExecSyncTaskFinished, RunPermissionCheck,
     StartSync, Fire, TimeoutCallback, StepToTimeout, SyncStepInnerLocked, CommErrAbort,
     ClearAllSyncTask, LocalWrite, AbortTask, killVars, queueVars
<1>7. ASSUME NEW s \in Ops \cup Pulls,
             \/ TimeSyncFinished(s) \/ AbilitySyncRecv(s) \/ HandleControlAckRecv(s)
             \/ TimeMarkSyncRecv(s) \/ CommErrHandlerFunc(s) \/ HandleDataAckRecv(s)
             \/ DataRecvErrCodeHandle(s)
             \/ \E k \in {"ability", "control"} : MessageCallbackPre(k, s)
      PROVE  KillType'
  BY <1>7, <1>2, Zenon DEF TimeSyncFinished, AbilitySyncRecv, HandleControlAckRecv,
     TimeMarkSyncRecv, CommErrHandlerFunc, HandleDataAckRecv, DataRecvErrCodeHandle,
     MessageCallbackPre, AbortTask, killVars, queueVars
<1>8. ASSUME NEW o \in Ops,
             \/ AddSyncTarget(o) \/ TargetAdded(o)
      PROVE  KillType'
  BY <1>8, <1>2, Zenon DEF AddSyncTarget, TargetAdded, AbortTask, killVars, queueVars
<1>9. ASSUME NEW p \in Pulls,
             AddPullResponseTarget(p)
      PROVE  KillType'
  BY <1>9, <1>2, Zenon DEF AddPullResponseTarget, AbortTask, killVars, queueVars
<1>10. QED
  BY <1>3, <1>4, <1>5, <1>6, <1>7, <1>8, <1>9, Zenon DEF Next, Handler, Exec, Timer,
     LateAck, Peer, User

\* The types of what is known of the peer.
LEMMA NetTyped ==
    ASSUME Inv, Next, UNCHANGED scenario
    PROVE  NetType'
<1>1. NetType /\ scenario' = scenario
  BY Zenon DEF Inv, Typed, TypeOK, NetType
<1>2. UNCHANGED <<messages, late, earned>> => NetType'
  BY <1>1, Zenon DEF NetType
<1>3. messages > 0 /\ messages' = messages - 1 => messages' \in 0..scenario'.messages
  BY <1>1, ConstantsAssumption, SMT DEF NetType, Inv, Typed
<1>4. \A k \in {"time", "ability", "control"}, s \in Sessions :
         late' = late \cup {<<k, s>>} =>
            late' \subseteq {"time", "ability", "control"} \X Sessions
  BY <1>1, SMT DEF NetType
<1>5. \A k \in {"send", "recv", "skip"}, s \in Sessions :
         earned' = earned \cup {<<k, s>>} =>
            earned' \subseteq {"send", "recv", "skip"} \X Sessions
  BY <1>1, SMT DEF NetType
<1>6. \A k, s : late' = late \ {<<k, s>>} =>
         late' \subseteq {"time", "ability", "control"} \X Sessions
  BY <1>1, Zenon DEF NetType
<1>7. op \in Sessions /\ \A s \in Ops \cup Pulls : s \in Sessions
  BY Zenon DEF Inv, Typed, TypeOK, Sessions
<1>8. CASE SkipTask
  BY <1>8, <1>1, <1>5, <1>7, Zenon DEF SkipTask, NetType, netVars
<1>9. ASSUME NEW s \in Ops \cup Pulls, TimeSyncFinished(s)
      PROVE  NetType'
  BY <1>9, <1>1, <1>6, Zenon DEF TimeSyncFinished, NetType, Handled
<1>10. ASSUME NEW s \in Ops \cup Pulls, AbilitySyncRecv(s)
      PROVE  NetType'
  BY <1>10, <1>1, <1>6, Zenon DEF AbilitySyncRecv, NetType, Handled
<1>11. ASSUME NEW s \in Ops \cup Pulls, HandleControlAckRecv(s)
      PROVE  NetType'
  BY <1>11, <1>1, <1>5, <1>6, <1>7, Zenon DEF HandleControlAckRecv, NetType, Handled
<1>12. ASSUME NEW s \in Ops \cup Pulls, TimeMarkSyncRecv(s)
      PROVE  NetType'
  BY <1>12, <1>1, <1>3, <1>4, <1>7, Zenon DEF TimeMarkSyncRecv, NetType, Message
<1>13. ASSUME NEW s \in Ops \cup Pulls, CommErrHandlerFunc(s)
      PROVE  NetType'
  BY <1>13, <1>1, <1>3, Zenon DEF CommErrHandlerFunc, NetType
<1>14. ASSUME NEW s \in Ops \cup Pulls, HandleDataAckRecv(s)
      PROVE  NetType'
  BY <1>14, <1>1, <1>3, <1>5, <1>7, Zenon DEF HandleDataAckRecv, NetType, Message,
     SendFinished, AckChangesNothing, NeedAbilitySyncHandle, ReSendFromPeerMark,
     AckNotPermit, AckError, ContinueTimesOut
<1>15. ASSUME NEW s \in Ops \cup Pulls, DataRecvErrCodeHandle(s)
      PROVE  NetType'
  BY <1>15, <1>1, <1>3, <1>5, <1>7, Zenon DEF DataRecvErrCodeHandle, NetType, Message
<1>16. ASSUME NEW k \in {"ability", "control"}, NEW s \in Ops \cup Pulls,
             MessageCallbackPre(k, s)
      PROVE  NetType'
  BY <1>16, <1>1, <1>3, <1>4, <1>7, Zenon DEF MessageCallbackPre, NetType, Message
<1>17. ASSUME NEW p \in Pulls, AddPullResponseTarget(p)
      PROVE  NetType'
  BY <1>17, <1>1, <1>3, Zenon DEF AddPullResponseTarget, NetType, Message
<1>18. CASE ClearAllSyncTask
  BY <1>18, <1>1, <1>3, Zenon DEF ClearAllSyncTask, NetType
<1>19. CASE \/ DoTimeSync \/ DoAbilitySync \/ DoInitiactiveDataSyncWithSlidingWindow
            \/ DoPassiveDataSyncWithSlidingWindow \/ DoInitiactiveControlSync
            \/ DoWaitForDataRecv \/ DoSyncTaskFinished \/ NoTaskLeft
            \/ PrepareNextSyncTask \/ DoTimeout \/ DoInnerErr \/ CancelForPullResponse
            \/ PullResponseAdded \/ ExecSyncTask \/ ExecSyncTaskFinished
            \/ RunPermissionCheck \/ StartSync \/ Fire \/ TimeoutCallback
            \/ StepToTimeout \/ SyncStepInnerLocked \/ CommErrAbort \/ LocalWrite
  BY <1>19, <1>2, Zenon DEF DoTimeSync, DoAbilitySync,
     DoInitiactiveDataSyncWithSlidingWindow, DoPassiveDataSyncWithSlidingWindow,
     DoInitiactiveControlSync, DoWaitForDataRecv, DoSyncTaskFinished, NoTaskLeft,
     PrepareNextSyncTask, DoTimeout, DoInnerErr, CancelForPullResponse,
     PullResponseAdded, ExecSyncTask, ExecSyncTaskFinished, RunPermissionCheck,
     StartSync, Fire, TimeoutCallback, StepToTimeout, SyncStepInnerLocked, CommErrAbort,
     LocalWrite, AbortTask, netVars
<1>20. ASSUME NEW o \in Ops,
             \/ AddSyncTarget(o) \/ TargetAdded(o) \/ RemoveSyncOperation(o)
             \/ AddSyncOperation(o) \/ StopSync(o)
      PROVE  NetType'
  BY <1>20, <1>2, Zenon DEF AddSyncTarget, TargetAdded, RemoveSyncOperation,
     AddSyncOperation, StopSync, AbortTask, netVars
<1>21. QED
  BY Zenon, <1>8, <1>9, <1>10, <1>11, <1>12, <1>13, <1>14, <1>15, <1>16, <1>17, <1>18, <1>19,
     <1>20, Zenon DEF Next, Handler, Exec, Timer, LateAck, Peer, User

\* The types of the queues.
LEMMA QueuesTyped ==
    ASSUME Inv, Next, UNCHANGED scenario
    PROVE  QueueType'
<1>1. QueueType /\ scenario' = scenario
  BY Zenon DEF Inv, Typed, TypeOK, QueueType
<1>2. UNCHANGED <<requestQueue, responseQueue, called, adding, reading>> => QueueType'
  BY <1>1, Zenon DEF QueueType, Mode
<1>3. MoveToNextTarget /\ UNCHANGED <<called, adding, reading>> => QueueType'
  <2>1. SUFFICES ASSUME MoveToNextTarget, UNCHANGED <<called, adding, reading>>
                 PROVE  QueueType'
    OBVIOUS
  <2>2. Moved
    BY <2>1, Moving, Zenon DEF Inv
  <2>3. QED
    BY <1>1, <2>1, <2>2, Zenon DEF Moved, QueueType, Mode
<1>4. CASE DoPassiveDataSyncWithSlidingWindow
  BY <1>4, <1>1, <1>2, Shortened, Zenon DEF DoPassiveDataSyncWithSlidingWindow, QueueType,
     Mode
<1>5. CASE DoSyncTaskFinished
  BY <1>5, <1>1, <1>2, <1>3, Zenon DEF DoSyncTaskFinished, QueueType, queueVars
<1>6. CASE ExecSyncTask
  BY <1>6, <1>1, <1>2, <1>3, Zenon DEF ExecSyncTask, QueueType, queueVars
<1>7. ASSUME NEW o \in Ops, AddSyncTarget(o)
      PROVE  QueueType'
  BY <1>7, <1>1, Zenon DEF AddSyncTarget, QueueType, Mode
<1>8. ASSUME NEW o \in Ops, TargetAdded(o)
      PROVE  QueueType'
  BY <1>8, <1>1, Zenon DEF TargetAdded, QueueType, Mode
<1>9. ASSUME NEW o \in Ops, RemoveSyncOperation(o)
      PROVE  QueueType'
  BY <1>9, <1>1, <1>2, Removed, Zenon DEF RemoveSyncOperation, QueueType, Mode
<1>10. ASSUME NEW p \in Pulls, AddPullResponseTarget(p)
      PROVE  QueueType'
  BY <1>10, <1>1, Appended, Zenon DEF AddPullResponseTarget, QueueType, Mode
<1>11. CASE ClearAllSyncTask
  <2>1. requestQueue' \in Seq(Ops) /\ responseQueue' \in Seq(Pulls) /\ Range(requestQueue') = {}
    BY <1>11, SMT DEF ClearAllSyncTask, Range
  <2>2. QED
    BY <1>11, <1>1, <2>1, Zenon DEF ClearAllSyncTask, QueueType, Mode
<1>12. ASSUME NEW o \in Ops, AddSyncOperation(o)
      PROVE  QueueType'
  <2>1. CASE UNCHANGED <<requestQueue, adding>>
    BY <1>12, <1>1, <2>1, Zenon DEF AddSyncOperation, QueueType, Mode
  <2>2. CASE requestQueue' = Append(requestQueue, o) /\ adding' = adding \cup {o}
    <3>1. requestQueue' \in Seq(Ops) /\ Range(requestQueue') = Range(requestQueue) \cup {o}
      BY <1>1, <2>2, Appended DEF QueueType
    <3>2. QED
      BY <1>12, <1>1, <2>2, <3>1, Zenon DEF AddSyncOperation, QueueType, Mode
  <2>3. QED
    BY <1>12, <2>1, <2>2, Zenon DEF AddSyncOperation
<1>13. CASE \/ DoTimeSync \/ DoAbilitySync \/ DoInitiactiveDataSyncWithSlidingWindow
            \/ DoInitiactiveControlSync \/ DoWaitForDataRecv \/ NoTaskLeft \/ SkipTask
            \/ PrepareNextSyncTask \/ DoTimeout \/ DoInnerErr \/ CancelForPullResponse
            \/ PullResponseAdded \/ ExecSyncTaskFinished \/ RunPermissionCheck
            \/ StartSync \/ Fire \/ TimeoutCallback \/ StepToTimeout
            \/ SyncStepInnerLocked \/ CommErrAbort \/ LocalWrite
  BY <1>13, <1>2, Zenon DEF DoTimeSync, DoAbilitySync,
     DoInitiactiveDataSyncWithSlidingWindow, DoInitiactiveControlSync,
     DoWaitForDataRecv, NoTaskLeft, SkipTask, PrepareNextSyncTask, DoTimeout,
     DoInnerErr, CancelForPullResponse, PullResponseAdded, ExecSyncTaskFinished,
     RunPermissionCheck, StartSync, Fire, TimeoutCallback, StepToTimeout,
     SyncStepInnerLocked, CommErrAbort, LocalWrite, AbortTask, queueVars
<1>14. ASSUME NEW s \in Ops \cup Pulls,
             \/ TimeSyncFinished(s) \/ AbilitySyncRecv(s) \/ HandleControlAckRecv(s)
             \/ TimeMarkSyncRecv(s) \/ CommErrHandlerFunc(s) \/ HandleDataAckRecv(s)
             \/ DataRecvErrCodeHandle(s)
             \/ \E k \in {"ability", "control"} : MessageCallbackPre(k, s)
      PROVE  QueueType'
  BY <1>14, <1>2, Zenon DEF TimeSyncFinished, AbilitySyncRecv, HandleControlAckRecv,
     TimeMarkSyncRecv, CommErrHandlerFunc, HandleDataAckRecv, DataRecvErrCodeHandle,
     MessageCallbackPre, AbortTask, queueVars
<1>15. ASSUME NEW o \in Ops,
             StopSync(o)
      PROVE  QueueType'
  BY <1>15, <1>2, Zenon DEF StopSync, AbortTask, queueVars
<1>16. QED
  BY <1>4, <1>5, <1>6, <1>7, <1>8, <1>9, <1>10, <1>11, <1>12, <1>13, <1>14, <1>15, Zenon
     DEF Next, Handler, Exec, Timer, LateAck, Peer, User

\* The types of the current target.
LEMMA TargetTyped ==
    ASSUME Inv, Next, UNCHANGED scenario
    PROVE  TargetType'
<1>1. TargetType /\ scenario' = scenario
  BY Zenon DEF Inv, Typed, TypeOK, TargetType
<1>2. UNCHANGED <<op, mode, isAutoSync, requestSession, responseSession, syncTaskRetryStatus,
                  taskErrCode, commNormal>> => TargetType'
  BY <1>1, Zenon DEF TargetType
<1>3. MoveToNextTarget => TargetType'
  BY Moving, Zenon DEF Inv
<1>4. \A m \in Modes, p \in Sessions, r \in Outcomes :
         SyncStart(m, p, r) => taskErrCode' \in {"E_OK", "E_OTHER", "E_EKEYREVOKED"}
  BY <1>1, Starting, Zenon DEF Inv, Started, TargetType
<1>5. ClearTarget => TargetType'
  BY <1>1, Zenon DEF ClearTarget, TargetType, Modes
<1>6. CASE DoTimeSync
  BY <1>6, <1>1, <1>2, Zenon DEF DoTimeSync, TargetType, targetVars
<1>7. CASE DoInitiactiveDataSyncWithSlidingWindow
  <2>1. taskErrCode' \in {"E_OK", "E_OTHER", "E_EKEYREVOKED"}
    BY <1>7, <1>1, <1>4, Zenon DEF DoInitiactiveDataSyncWithSlidingWindow, TargetType,
       Sessions
  <2>2. QED
    BY <1>7, <1>1, <2>1, Zenon DEF DoInitiactiveDataSyncWithSlidingWindow, TargetType
<1>8. CASE DoPassiveDataSyncWithSlidingWindow
  <2>1. CASE responseQueue = <<>>
    BY <1>8, <1>1, <2>1, Zenon DEF DoPassiveDataSyncWithSlidingWindow, TargetType
  <2>2. CASE responseQueue # <<>>
    <3>1. Head(responseQueue) \in Pulls
      BY <2>2, Shortened, Zenon DEF Inv, Typed, TypeOK
    <3>2. "RESPONSE_PULL" \in Modes
      BY Zenon DEF Modes
    <3>3. taskErrCode' \in {"E_OK", "E_OTHER", "E_EKEYREVOKED"}
      BY <1>8, <1>4, <2>2, <3>1, <3>2, Zenon DEF DoPassiveDataSyncWithSlidingWindow,
         Sessions
    <3>4. QED
      BY <1>8, <1>1, <2>2, <3>1, <3>2, <3>3, Zenon DEF DoPassiveDataSyncWithSlidingWindow,
         TargetType
  <2>3. QED
    BY Zenon, <2>1, <2>2
<1>9. CASE DoInitiactiveControlSync
  BY <1>9, <1>1, <1>2, Zenon DEF DoInitiactiveControlSync, TargetType, targetVars
<1>10. CASE DoSyncTaskFinished
  BY <1>10, <1>2, <1>3, Zenon DEF DoSyncTaskFinished, targetVars
<1>11. CASE NoTaskLeft
  BY <1>11, <1>5, Zenon DEF NoTaskLeft, TargetType
<1>12. CASE DoTimeout
  BY <1>12, <1>5, Zenon DEF DoTimeout, AbortTask
<1>13. CASE DoInnerErr
  BY <1>13, <1>5, Zenon DEF DoInnerErr, AbortTask
<1>14. CASE ExecSyncTask
  BY <1>14, <1>2, <1>3, Zenon DEF ExecSyncTask, targetVars
<1>15. ASSUME NEW s \in Ops \cup Pulls, HandleControlAckRecv(s)
      PROVE  TargetType'
  BY <1>15, <1>1, <1>2, Zenon DEF HandleControlAckRecv, TargetType, targetVars
<1>16. ASSUME NEW s \in Ops \cup Pulls, TimeMarkSyncRecv(s)
      PROVE  TargetType'
  BY <1>16, <1>1, <1>2, Zenon DEF TimeMarkSyncRecv, TargetType, targetVars
<1>17. ASSUME NEW s \in Ops \cup Pulls, CommErrHandlerFunc(s)
      PROVE  TargetType'
  BY <1>17, <1>1, <1>2, Zenon DEF CommErrHandlerFunc, TargetType, targetVars
<1>18. ASSUME NEW s \in Ops \cup Pulls, HandleDataAckRecv(s)
      PROVE  TargetType'
  BY <1>18, <1>1, <1>2, Zenon DEF HandleDataAckRecv, TargetType, targetVars, SendFinished,
     AckChangesNothing, NeedAbilitySyncHandle, ReSendFromPeerMark, AckNotPermit,
     AckError, ContinueTimesOut
<1>19. ASSUME NEW s \in Ops \cup Pulls, DataRecvErrCodeHandle(s)
      PROVE  TargetType'
  BY <1>19, <1>1, <1>2, Zenon DEF DataRecvErrCodeHandle, TargetType, targetVars
<1>20. CASE ClearAllSyncTask
  BY <1>20, <1>1, <1>2, Zenon DEF ClearAllSyncTask, TargetType, targetVars
<1>21. CASE \/ DoAbilitySync \/ DoWaitForDataRecv \/ SkipTask \/ PrepareNextSyncTask
            \/ CancelForPullResponse \/ PullResponseAdded \/ ExecSyncTaskFinished
            \/ RunPermissionCheck \/ StartSync \/ Fire \/ TimeoutCallback
            \/ StepToTimeout \/ SyncStepInnerLocked \/ CommErrAbort \/ LocalWrite
  BY <1>21, <1>2, Zenon DEF DoAbilitySync, DoWaitForDataRecv, SkipTask, PrepareNextSyncTask,
     CancelForPullResponse, PullResponseAdded, ExecSyncTaskFinished, RunPermissionCheck,
     StartSync, Fire, TimeoutCallback, StepToTimeout, SyncStepInnerLocked, CommErrAbort,
     LocalWrite, targetVars
<1>22. ASSUME NEW s \in Ops \cup Pulls,
             \/ TimeSyncFinished(s) \/ AbilitySyncRecv(s)
             \/ \E k \in {"ability", "control"} : MessageCallbackPre(k, s)
      PROVE  TargetType'
  BY <1>22, <1>2, Zenon DEF TimeSyncFinished, AbilitySyncRecv, MessageCallbackPre,
     targetVars
<1>23. ASSUME NEW o \in Ops,
             \/ AddSyncTarget(o) \/ TargetAdded(o) \/ RemoveSyncOperation(o)
             \/ AddSyncOperation(o) \/ StopSync(o)
      PROVE  TargetType'
  BY <1>23, <1>2, Zenon DEF AddSyncTarget, TargetAdded, RemoveSyncOperation,
     AddSyncOperation, StopSync, targetVars
<1>24. ASSUME NEW p \in Pulls,
             AddPullResponseTarget(p)
      PROVE  TargetType'
  BY <1>24, <1>2, Zenon DEF AddPullResponseTarget, targetVars
<1>25. QED
  BY Zenon, <1>6, <1>7, <1>8, <1>9, <1>10, <1>11, <1>12, <1>13, <1>14, <1>15, <1>16, <1>17,
     <1>18, <1>19, <1>20, <1>21, <1>22, <1>23, <1>24, Zenon DEF Next, Handler, Exec,
     Timer, LateAck, Peer, User

\* The types of data sync's variables.
LEMMA DataTyped ==
    ASSUME Inv, Next, UNCHANGED scenario
    PROVE  DataType'
<1>1. DataType /\ scenario' = scenario
  BY Zenon DEF Inv, Typed, TypeOK, DataType
<1>2. UNCHANGED <<dataSession, dataMode, reSendMap, unsent, undelivered, sent>> => DataType'
  BY <1>1, Zenon DEF DataType
<1>3. \A m \in Modes, p \in Sessions, r \in Outcomes : SyncStart(m, p, r) => DataType'
  BY Starting, Zenon DEF Inv
<1>4. requestSession \in Sessions /\ responseSession \in Sessions /\ mode \in Modes
  BY Zenon DEF Inv, Typed, TypeOK, Sessions
<1>5. \A k \in {"time", "ability", "control"} :
         sent \cup {<<k, requestSession>>} \subseteq
            {"time", "ability", "control", "data"} \X Sessions
  BY <1>1, <1>4, SMT DEF DataType
<1>6. ClearSyncStatus => dataSession' \in Sessions /\ reSendMap' \in {"empty", "waiting", "sent"}
  BY Zenon DEF ClearSyncStatus, Sessions
<1>7. CASE DoTimeSync
  BY <1>7, <1>1, <1>5, Zenon DEF DoTimeSync, DataType, dataVars, Request
<1>8. CASE DoAbilitySync
  BY <1>8, <1>1, <1>5, Zenon DEF DoAbilitySync, DataType, dataVars, Request
<1>9. CASE DoInitiactiveDataSyncWithSlidingWindow
  BY <1>9, <1>2, <1>3, <1>4, Zenon DEF DoInitiactiveDataSyncWithSlidingWindow, dataVars
<1>10. CASE DoPassiveDataSyncWithSlidingWindow
  <2>1. responseQueue # <<>> => Head(responseQueue) \in Sessions
    BY Shortened, Zenon DEF Inv, Typed, TypeOK, Sessions
  <2>2. "RESPONSE_PULL" \in Modes
    BY Zenon DEF Modes
  <2>3. QED
    BY <1>10, <1>2, <1>3, <2>1, <2>2, Zenon DEF DoPassiveDataSyncWithSlidingWindow, dataVars
<1>11. CASE DoInitiactiveControlSync
  BY <1>11, <1>1, <1>5, Zenon DEF DoInitiactiveControlSync, DataType, dataVars, Request
<1>12. CASE DoSyncTaskFinished
  BY <1>12, <1>1, <1>6, Zenon DEF DoSyncTaskFinished, DataType
<1>13. CASE DoTimeout
  BY <1>13, <1>1, <1>6, Zenon DEF DoTimeout, AbortTask, DataType
<1>14. CASE DoInnerErr
  BY <1>14, <1>1, <1>6, Zenon DEF DoInnerErr, AbortTask, DataType
<1>15. ASSUME NEW s \in Ops \cup Pulls, HandleControlAckRecv(s)
      PROVE  DataType'
  BY <1>15, <1>1, <1>6, Zenon DEF HandleControlAckRecv, DataType
<1>16. ASSUME NEW s \in Ops \cup Pulls, HandleDataAckRecv(s)
      PROVE  DataType'
  <2>1. undelivered' \in BOOLEAN
    BY <1>16, <1>1, Zenon DEF HandleDataAckRecv, DataType, SendFinished, AckChangesNothing,
       NeedAbilitySyncHandle, ReSendFromPeerMark, AckNotPermit, AckError,
       ContinueTimesOut
  <2>2. QED
    BY <1>16, <1>1, <1>6, <2>1, Zenon DEF HandleDataAckRecv, DataType, SendFinished,
       AckChangesNothing, NeedAbilitySyncHandle, ReSendFromPeerMark, AckNotPermit,
       AckError, ContinueTimesOut
<1>17. CASE LocalWrite
  BY <1>17, <1>1, Zenon DEF LocalWrite, DataType
<1>18. CASE \/ DoWaitForDataRecv \/ NoTaskLeft \/ SkipTask \/ PrepareNextSyncTask
            \/ CancelForPullResponse \/ PullResponseAdded \/ ExecSyncTask
            \/ ExecSyncTaskFinished \/ RunPermissionCheck \/ StartSync \/ Fire
            \/ TimeoutCallback \/ StepToTimeout \/ SyncStepInnerLocked \/ CommErrAbort
            \/ ClearAllSyncTask
  BY <1>18, <1>2, Zenon DEF DoWaitForDataRecv, NoTaskLeft, SkipTask, PrepareNextSyncTask,
     CancelForPullResponse, PullResponseAdded, ExecSyncTask, ExecSyncTaskFinished,
     RunPermissionCheck, StartSync, Fire, TimeoutCallback, StepToTimeout,
     SyncStepInnerLocked, CommErrAbort, ClearAllSyncTask, dataVars
<1>19. ASSUME NEW s \in Ops \cup Pulls,
             \/ TimeSyncFinished(s) \/ AbilitySyncRecv(s) \/ TimeMarkSyncRecv(s)
             \/ CommErrHandlerFunc(s) \/ DataRecvErrCodeHandle(s)
             \/ \E k \in {"ability", "control"} : MessageCallbackPre(k, s)
      PROVE  DataType'
  BY <1>19, <1>2, Zenon DEF TimeSyncFinished, AbilitySyncRecv, TimeMarkSyncRecv,
     CommErrHandlerFunc, DataRecvErrCodeHandle, MessageCallbackPre, dataVars
<1>20. ASSUME NEW o \in Ops,
             \/ AddSyncTarget(o) \/ TargetAdded(o) \/ RemoveSyncOperation(o)
             \/ AddSyncOperation(o) \/ StopSync(o)
      PROVE  DataType'
  BY <1>20, <1>2, Zenon DEF AddSyncTarget, TargetAdded, RemoveSyncOperation,
     AddSyncOperation, StopSync, dataVars
<1>21. ASSUME NEW p \in Pulls,
             AddPullResponseTarget(p)
      PROVE  DataType'
  BY <1>21, <1>2, Zenon DEF AddPullResponseTarget, dataVars
<1>22. QED
  BY Zenon, <1>7, <1>8, <1>9, <1>10, <1>11, <1>12, <1>13, <1>14, <1>15, <1>16, <1>17, <1>18,
     <1>19, <1>20, <1>21, Zenon DEF Next, Handler, Exec, Timer, LateAck, Peer, User

\* Every step keeps the types.
LEMMA TypedKept ==
    ASSUME Inv, Next, UNCHANGED scenario
    PROVE  Typed'
<1>1. (scenario \in Scenarios)'
  BY Zenon DEF Inv, Typed
<1>2. QED
  BY <1>1, TypeGroups, QueuesTyped, ExecTyped, MachineTyped, CountsTyped, TargetTyped,
     TimersTyped, StatusTyped, KillsTyped, DataTyped, NetTyped, PTL

(***************************************************************************)
(* The route of a target                                                   *)
(***************************************************************************)

\* Every step keeps the route of a target through the states.
LEMMA RoutedKept ==
    ASSUME Inv, Next, UNCHANGED scenario
    PROVE  Routed'
<1>1. Routed /\ currentState \in States /\ scenario' = scenario
  BY Zenon DEF Inv, Typed, TypeOK
<1>2. UNCHANGED <<op, mode, currentState, machineLock>> => Routed'
  BY <1>1, Zenon DEF Routed, Mode
<1>3. machineLock \in {"empty", "moved"} => currentState = "SYNC_TASK_FINISHED"
  BY Zenon DEF Inv, Machine
<1>4. MoveToNextTarget => (op' # None => mode' = Mode[op'])
  BY Moving, Zenon DEF Inv, Moved
<1>5. CASE DoSyncTaskFinished
  <2>1. currentState' = "SYNC_TASK_FINISHED"
    BY <1>5, Zenon DEF DoSyncTaskFinished, Handles
  <2>2. machineLock' = "moved" => MoveToNextTarget
    BY <1>5, Zenon DEF DoSyncTaskFinished
  <2>3. QED
    BY <1>1, <1>4, <2>1, <2>2, Zenon DEF Routed, Exchange, Mode
<1>6. CASE NoTaskLeft
  <2>1. op' = None /\ currentState' = "IDLE"
    BY <1>6, <1>1, <1>3, OnAllTaskFinished, Zenon DEF NoTaskLeft, ClearTarget
  <2>2. QED
    BY <2>1, Zenon DEF Routed, Exchange
<1>7. CASE SkipTask
  <2>1. currentState' = "SYNC_TASK_FINISHED" /\ machineLock' # "moved"
    BY <1>7, <1>3, Zenon DEF SkipTask
  <2>2. QED
    BY <1>1, <2>1, Zenon DEF Routed, Exchange
<1>8. CASE PrepareNextSyncTask
  <2>1. UNCHANGED <<op, mode>> /\ machineLock = "moved" /\ machineLock' # "moved"
    BY <1>8, Zenon DEF PrepareNextSyncTask, targetVars, SwitchStateAndStep
  <2>2. currentState' \in {"TIME_SYNC", "SYNC_TASK_FINISHED"}
    BY <1>8, <1>1, <1>3, <2>1, OnStartSync, OnInnerErr, Zenon DEF PrepareNextSyncTask, Moves,
       Working
  <2>3. QED
    BY <1>1, <2>1, <2>2, Zenon DEF Routed, Mode, Exchange
<1>9. CASE DoTimeout
  <2>1. currentState' = "SYNC_TASK_FINISHED" /\ machineLock' # "moved"
    BY <1>9, <1>1, OnAny, Zenon DEF DoTimeout, AbortTask, Handles, Moves
  <2>2. QED
    BY <2>1, Zenon DEF Routed, Exchange
<1>10. CASE DoInnerErr
  <2>1. currentState' = "SYNC_TASK_FINISHED" /\ machineLock' # "moved"
    BY <1>10, <1>1, OnAny, Zenon DEF DoInnerErr, AbortTask, Handles, Moves
  <2>2. QED
    BY <2>1, Zenon DEF Routed, Exchange
<1>11. CASE CancelForPullResponse
  <2>1. UNCHANGED <<op, mode, currentState>> /\ machineLock' # "moved"
    BY <1>11, Zenon DEF CancelForPullResponse, targetVars
  <2>2. QED
    BY <1>1, <2>1, Zenon DEF Routed, Mode
<1>12. CASE ExecSyncTask
  <2>1. CASE taskExecStatus # "RUNNING" /\ MoveToNextTarget
    <3>1. currentState' = "IDLE"
      BY <1>12, <2>1, Zenon DEF ExecSyncTask, Inv, Machine, machineVars
    <3>2. QED
      BY <1>1, <1>4, <2>1, <3>1, Zenon DEF Routed, Exchange, Mode
  <2>2. CASE UNCHANGED targetVars
    BY <1>12, <1>2, <2>2, Zenon DEF ExecSyncTask, targetVars, machineVars
  <2>3. QED
    BY <1>12, <2>1, <2>2, Zenon DEF ExecSyncTask
<1>13. CASE StartSync
  <2>1. UNCHANGED <<op, mode>> /\ currentState = "IDLE" /\ machineLock' # "moved"
    BY <1>13, Zenon DEF StartSync, targetVars, Inv, Machine, MachineFree
  <2>2. currentState' \in {"IDLE", "TIME_SYNC"}
    BY <1>13, <2>1, Zenon DEF StartSync
  <2>3. QED
    BY <1>1, <2>1, <2>2, Zenon DEF Routed, Mode, Exchange
<1>14. CASE SyncStepInnerLocked
  <2>1. UNCHANGED <<op, mode, currentState>> /\ machineLock' # "moved"
    BY <1>14, Zenon DEF SyncStepInnerLocked, targetVars
  <2>2. QED
    BY <1>1, <2>1, Zenon DEF Routed, Mode
<1>15. CASE CommErrAbort
  <2>1. UNCHANGED <<op, mode, machineLock>> /\ currentState' \in {currentState, "INNER_ERR"}
    BY <1>15, Zenon DEF CommErrAbort, targetVars
  <2>2. QED
    BY <1>1, <2>1, Zenon DEF Routed, Mode, Exchange
<1>16. ASSUME NEW p \in Pulls, AddPullResponseTarget(p)
      PROVE  Routed'
  <2>1. UNCHANGED <<op, mode, currentState>> /\ machineLock' # "moved"
    BY <1>16, Zenon DEF AddPullResponseTarget, targetVars
  <2>2. QED
    BY <1>1, <2>1, Zenon DEF Routed, Mode
<1>17. CASE TaskStep
  <2>1. GoesOn /\ op' = op
    BY <1>17, <1>1, TaskSteps, Zenon DEF TaskFrame
  <2>2. mode' = mode \/ (mode' = "RESPONSE_PULL" /\ currentState = "START_PASSIVE_DATA_SYNC")
    BY <1>17, <1>1, TaskSteps, Zenon DEF TaskFrame
  <2>3. QED
    BY <1>1, <2>1, <2>2, Zenon DEF GoesOn, Ends, Routed, Mode, Exchange
<1>18. CASE \/ ExecSyncTaskFinished \/ RunPermissionCheck \/ Fire \/ TimeoutCallback
            \/ ClearAllSyncTask \/ LocalWrite
  BY <1>18, <1>2, Zenon DEF ExecSyncTaskFinished, RunPermissionCheck, Fire, TimeoutCallback,
     ClearAllSyncTask, LocalWrite, targetVars, machineVars
<1>19. ASSUME NEW s \in Ops \cup Pulls,
             \/ TimeMarkSyncRecv(s) \/ CommErrHandlerFunc(s)
             \/ \E k \in {"ability", "control"} : MessageCallbackPre(k, s)
      PROVE  Routed'
  BY <1>19, <1>2, Zenon DEF TimeMarkSyncRecv, CommErrHandlerFunc, MessageCallbackPre,
     targetVars, machineVars
<1>20. ASSUME NEW o \in Ops,
             \/ AddSyncTarget(o) \/ TargetAdded(o) \/ RemoveSyncOperation(o)
             \/ AddSyncOperation(o) \/ StopSync(o)
      PROVE  Routed'
  BY <1>20, <1>2, Zenon DEF AddSyncTarget, TargetAdded, RemoveSyncOperation,
     AddSyncOperation, StopSync, targetVars, machineVars
<1>21. QED
  BY Zenon, <1>5, <1>6, <1>7, <1>8, <1>9, <1>10, <1>11, <1>12, <1>13, <1>14, <1>15, <1>16, <1>17,
     <1>18, <1>19, <1>20, Zenon DEF TaskStep, Next, Handler, Exec, Timer, LateAck, Peer,
     User

\* Without pulls of the peer there is no response to serve.
LEMMA UnpulledKept ==
    ASSUME Inv, Next, UNCHANGED scenario
    PROVE  Unpulled'
<1>1. Unpulled /\ scenario' = scenario
  BY Zenon DEF Inv
<1>2. UNCHANGED <<responseSession, responseQueue>> => Unpulled'
  BY <1>1, Zenon DEF Unpulled
<1>3. MoveToNextTarget /\ responseQueue = <<>> =>
         responseQueue' = <<>> /\ responseSession' = responseSession
  BY Moving, Zenon DEF Inv, Moved
<1>4. CASE DoPassiveDataSyncWithSlidingWindow
  BY <1>4, <1>1, Zenon DEF DoPassiveDataSyncWithSlidingWindow, Unpulled
<1>5. CASE DoSyncTaskFinished
  BY <1>5, <1>1, <1>2, <1>3, Zenon DEF DoSyncTaskFinished, Unpulled, queueVars, targetVars
<1>6. CASE NoTaskLeft
  BY <1>6, <1>1, Zenon DEF NoTaskLeft, Unpulled, ClearTarget, queueVars
<1>7. CASE DoTimeout
  BY <1>7, <1>1, Zenon DEF DoTimeout, Unpulled, AbortTask, ClearTarget, queueVars
<1>8. CASE DoInnerErr
  BY <1>8, <1>1, Zenon DEF DoInnerErr, Unpulled, AbortTask, ClearTarget, queueVars
<1>9. CASE ExecSyncTask
  BY <1>9, <1>1, <1>2, <1>3, Zenon DEF ExecSyncTask, Unpulled, queueVars, targetVars
<1>10. ASSUME NEW p \in Pulls, AddPullResponseTarget(p)
      PROVE  Unpulled'
  BY <1>10, <1>1, Zenon DEF AddPullResponseTarget, Unpulled
<1>11. CASE ClearAllSyncTask
  BY <1>11, <1>1, Zenon DEF ClearAllSyncTask, Unpulled
<1>12. CASE \/ DoTimeSync \/ DoAbilitySync \/ DoInitiactiveDataSyncWithSlidingWindow
            \/ DoInitiactiveControlSync \/ DoWaitForDataRecv \/ SkipTask
            \/ PrepareNextSyncTask \/ CancelForPullResponse \/ PullResponseAdded
            \/ ExecSyncTaskFinished \/ RunPermissionCheck \/ StartSync \/ Fire
            \/ TimeoutCallback \/ StepToTimeout \/ SyncStepInnerLocked \/ CommErrAbort
            \/ LocalWrite
  BY <1>12, <1>2, Zenon DEF DoTimeSync, DoAbilitySync,
     DoInitiactiveDataSyncWithSlidingWindow, DoInitiactiveControlSync,
     DoWaitForDataRecv, SkipTask, PrepareNextSyncTask, CancelForPullResponse,
     PullResponseAdded, ExecSyncTaskFinished, RunPermissionCheck, StartSync, Fire,
     TimeoutCallback, StepToTimeout, SyncStepInnerLocked, CommErrAbort, LocalWrite,
     queueVars, targetVars
<1>13. ASSUME NEW s \in Ops \cup Pulls,
             \/ TimeSyncFinished(s) \/ AbilitySyncRecv(s) \/ HandleControlAckRecv(s)
             \/ TimeMarkSyncRecv(s) \/ CommErrHandlerFunc(s) \/ HandleDataAckRecv(s)
             \/ DataRecvErrCodeHandle(s)
             \/ \E k \in {"ability", "control"} : MessageCallbackPre(k, s)
      PROVE  Unpulled'
  BY <1>13, <1>2, Zenon DEF TimeSyncFinished, AbilitySyncRecv, HandleControlAckRecv,
     TimeMarkSyncRecv, CommErrHandlerFunc, HandleDataAckRecv, DataRecvErrCodeHandle,
     MessageCallbackPre, queueVars, targetVars
<1>14. ASSUME NEW o \in Ops,
             \/ AddSyncTarget(o) \/ TargetAdded(o) \/ RemoveSyncOperation(o)
             \/ AddSyncOperation(o) \/ StopSync(o)
      PROVE  Unpulled'
  BY <1>14, <1>2, Zenon DEF AddSyncTarget, TargetAdded, RemoveSyncOperation,
     AddSyncOperation, StopSync, queueVars, targetVars
<1>15. QED
  BY <1>4, <1>5, <1>6, <1>7, <1>8, <1>9, <1>10, <1>11, <1>12, <1>13, <1>14, Zenon DEF
     Next, Handler, Exec, Timer, LateAck, Peer, User

\* Only subscriptions send control requests.
LEMMA SubscribedKept ==
    ASSUME Inv, Next, UNCHANGED scenario
    PROVE  Subscribed'
<1>1. Subscribed /\ scenario' = scenario
  BY Zenon DEF Inv
<1>2. UNCHANGED <<sent, late, called>> => Subscribed'
  BY <1>1, Zenon DEF Subscribed, Mode
<1>3. \A k, l, s, t : <<k, s>> = <<l, t>> => k = l /\ s = t
  BY Zenon
<1>4. currentState = "SYNC_CONTROL_CMD" =>
         requestSession \in called /\ Mode[requestSession] = "SUBSCRIBE_QUERY"
  BY Zenon DEF Inv, Routed, Current, UserModes
<1>5. /\ mode \in Modes /\ responseSession \in Sessions
      /\ \A m \in Modes, p \in Sessions, r \in Outcomes : SyncStart(m, p, r) =>
            \A s : <<"control", s>> \in sent' => <<"control", s>> \in sent
  BY Starting, Zenon DEF Inv, Started, Typed, TypeOK, Sessions
<1>6. CASE DoTimeSync
  <2>1. UNCHANGED <<called, late>> /\ sent' \subseteq sent \cup {<<"time", requestSession>>}
    BY <1>6, Zenon DEF DoTimeSync, Request, queueVars, netVars
  <2>2. QED
    BY <1>1, <1>3, <2>1, Zenon DEF Subscribed, Mode
<1>7. CASE DoAbilitySync
  <2>1. UNCHANGED <<called, late>> /\ sent' \subseteq sent \cup {<<"ability", requestSession>>}
    BY <1>7, Zenon DEF DoAbilitySync, Request, queueVars, netVars
  <2>2. QED
    BY <1>1, <1>3, <2>1, Zenon DEF Subscribed, Mode
<1>8. CASE DoInitiactiveDataSyncWithSlidingWindow
  BY <1>8, <1>1, <1>5, Zenon DEF DoInitiactiveDataSyncWithSlidingWindow, Subscribed, Mode,
     queueVars, netVars, dataVars
<1>9. CASE DoPassiveDataSyncWithSlidingWindow
  <2>1. "RESPONSE_PULL" \in Modes /\ (responseQueue # <<>> => Head(responseQueue) \in
     Sessions)
    BY Shortened, Zenon DEF Inv, Typed, TypeOK, Modes, Sessions
  <2>2. QED
    BY <1>9, <1>1, <1>5, <2>1, Zenon DEF DoPassiveDataSyncWithSlidingWindow, Subscribed,
       Mode, netVars, dataVars
<1>10. CASE DoInitiactiveControlSync
  <2>1. UNCHANGED <<called, late>> /\ sent' \subseteq sent \cup {<<"control", requestSession>>}
    BY <1>10, Zenon DEF DoInitiactiveControlSync, Request, queueVars, netVars
  <2>2. currentState = "SYNC_CONTROL_CMD"
    BY <1>10, Zenon DEF DoInitiactiveControlSync, Handles
  <2>3. QED
    BY <1>1, <1>3, <1>4, <2>1, <2>2, Zenon DEF Subscribed, Mode
<1>11. ASSUME NEW s \in Ops \cup Pulls, TimeSyncFinished(s)
      PROVE  Subscribed'
  BY <1>11, <1>1, Zenon DEF TimeSyncFinished, Subscribed, Mode, queueVars, dataVars, Handled
<1>12. ASSUME NEW s \in Ops \cup Pulls, AbilitySyncRecv(s)
      PROVE  Subscribed'
  BY <1>12, <1>1, Zenon DEF AbilitySyncRecv, Subscribed, Mode, queueVars, dataVars, Handled
<1>13. ASSUME NEW s \in Ops \cup Pulls, HandleControlAckRecv(s)
      PROVE  Subscribed'
  BY <1>13, <1>1, Zenon DEF HandleControlAckRecv, Subscribed, Mode, queueVars, Handled
<1>14. ASSUME NEW s \in Ops \cup Pulls, TimeMarkSyncRecv(s)
      PROVE  Subscribed'
  BY <1>14, <1>1, <1>3, Zenon DEF TimeMarkSyncRecv, Subscribed, Mode, queueVars, dataVars
<1>15. ASSUME NEW k \in {"ability", "control"}, NEW s \in Ops \cup Pulls,
             MessageCallbackPre(k, s)
      PROVE  Subscribed'
  BY <1>15, <1>1, <1>3, Zenon DEF MessageCallbackPre, Subscribed, Mode, queueVars, dataVars
<1>16. ASSUME NEW o \in Ops, AddSyncOperation(o)
      PROVE  Subscribed'
  BY <1>16, <1>1, Zenon DEF AddSyncOperation, Subscribed, Mode, dataVars, netVars
<1>17. CASE \/ DoWaitForDataRecv \/ DoSyncTaskFinished \/ NoTaskLeft \/ SkipTask
            \/ PrepareNextSyncTask \/ DoTimeout \/ DoInnerErr \/ CancelForPullResponse
            \/ PullResponseAdded \/ ExecSyncTask \/ ExecSyncTaskFinished
            \/ RunPermissionCheck \/ StartSync \/ Fire \/ TimeoutCallback
            \/ StepToTimeout \/ SyncStepInnerLocked \/ CommErrAbort \/ ClearAllSyncTask
            \/ LocalWrite
  BY <1>17, <1>2, Zenon DEF DoWaitForDataRecv, DoSyncTaskFinished, NoTaskLeft, SkipTask,
     PrepareNextSyncTask, DoTimeout, DoInnerErr, CancelForPullResponse,
     PullResponseAdded, ExecSyncTask, ExecSyncTaskFinished, RunPermissionCheck,
     StartSync, Fire, TimeoutCallback, StepToTimeout, SyncStepInnerLocked, CommErrAbort,
     ClearAllSyncTask, LocalWrite, AbortTask, queueVars, dataVars, netVars
<1>18. ASSUME NEW s \in Ops \cup Pulls,
             \/ CommErrHandlerFunc(s) \/ HandleDataAckRecv(s)
             \/ DataRecvErrCodeHandle(s)
      PROVE  Subscribed'
  BY <1>18, <1>2, Zenon DEF CommErrHandlerFunc, HandleDataAckRecv, DataRecvErrCodeHandle,
     AbortTask, queueVars, dataVars, netVars
<1>19. ASSUME NEW o \in Ops,
             \/ AddSyncTarget(o) \/ TargetAdded(o) \/ RemoveSyncOperation(o)
             \/ StopSync(o)
      PROVE  Subscribed'
  BY <1>19, <1>2, Zenon DEF AddSyncTarget, TargetAdded, RemoveSyncOperation, StopSync,
     AbortTask, queueVars, dataVars, netVars
<1>20. ASSUME NEW p \in Pulls,
             AddPullResponseTarget(p)
      PROVE  Subscribed'
  BY <1>20, <1>2, Zenon DEF AddPullResponseTarget, AbortTask, queueVars, dataVars, netVars
<1>21. QED
  BY Zenon, <1>6, <1>7, <1>8, <1>9, <1>10, <1>11, <1>12, <1>13, <1>14, <1>15, <1>16, <1>17,
     <1>18, <1>19, <1>20, Zenon DEF Next, Handler, Exec, Timer, LateAck, Peer, User

(***************************************************************************)
(* Statuses                                                                *)
(***************************************************************************)

\* What SetOperationStatus does to the statuses: only that of the current operation
\* changes, and only when it is neither killed nor finished.
Sets(t) ==
    /\ \A o \in Ops \ {op} : status'[o] = status[o]
    /\ op # None =>
          status'[op] = IF op \in killed \/ Final(status[op]) THEN status[op] ELSE t

\* SetOperationStatus sets the merged status, Abort the one it is given.
LEMMA SetsStatus ==
    ASSUME Typed
    PROVE  /\ \A s, err : SetOperationStatus(s, err) => Sets(MergedStatus(s, err))
           /\ \A s : AbortTask(s) => Sets(s)
           /\ UNCHANGED statusVars => Sets(status[op])
<1>1. status \in [Ops -> Statuses] /\ op \in Ops \cup {None} /\ None \notin Ops
  BY ConstantsAssumption, Zenon DEF Typed, TypeOK
<1>2. \A t : status' = SetStatus(op, t) /\ op # None => Sets(t)
  BY <1>1, Zenon DEF SetStatus, Sets
<1>3. status' = status => \A t : op = None \/ t = status[op] => Sets(t)
  BY <1>1, Zenon DEF Sets
<1>4. \A s, err : SetOperationStatus(s, err) => Sets(MergedStatus(s, err))
  BY <1>2, <1>3, Zenon DEF SetOperationStatus, statusVars
<1>5. \A s : AbortTask(s) => Sets(s)
  BY <1>2, <1>3, Zenon DEF AbortTask
<1>6. UNCHANGED statusVars => Sets(status[op])
  BY <1>3, Zenon DEF statusVars
<1>7. QED
  BY Zenon, <1>4, <1>5, <1>6

\* so no other status changes, and none that is final
StatusFrame ==
    \A o \in Ops : status'[o] = status[o] \/ (o = op /\ o \notin killed /\ ~Final(status[o]))
\* the operation of the target needs nothing more after the step
Gone == op = None \/ op \in killed \/ Final(status'[op])

\* What becomes of the current operation when a half of it or all of it is over.
LEMMA SetsOutcome ==
    ASSUME Typed
    PROVE  /\ \A t : Sets(t) => StatusFrame
           /\ \A t \in FinalStatuses : Sets(t) => Gone
           /\ \A err : \A s \in FinalStatuses : SetOperationStatus(s, err) => Gone
           /\ \A err : SetOperationStatus("SEND_FINISHED", err) =>
                 IF op # None /\ status[op] = "RECV_FINISHED" THEN Gone
                 ELSE Gone \/ status'[op] = "SEND_FINISHED"
           /\ \A err : SetOperationStatus("RECV_FINISHED", err) =>
                 IF op # None /\ status[op] = "SEND_FINISHED" THEN Gone
                 ELSE Gone \/ status'[op] = "RECV_FINISHED"
<1>1. status \in [Ops -> Statuses] /\ op \in Ops \cup {None} /\ None \notin Ops
  BY ConstantsAssumption, Zenon DEF Typed, TypeOK
<1>2. \A t : Sets(t) => StatusFrame
  BY <1>1, Zenon DEF Sets, StatusFrame
<1>3. \A t \in FinalStatuses : Sets(t) => Gone
  BY <1>1, Zenon DEF Sets, Gone, Final
<1>4. \A err : \A s \in FinalStatuses : MergedStatus(s, err) \in FinalStatuses
  BY Zenon DEF MergedStatus, FinalStatuses
<1>5. \A err : MergedStatus("SEND_FINISHED", err) \in
                  IF status[op] = "RECV_FINISHED" THEN FinalStatuses ELSE {"SEND_FINISHED"}
  BY Zenon DEF MergedStatus, FinalStatuses
<1>6. \A err : MergedStatus("RECV_FINISHED", err) \in
                  IF status[op] = "SEND_FINISHED" THEN FinalStatuses ELSE {"RECV_FINISHED"}
  BY Zenon DEF MergedStatus, FinalStatuses
<1>7. \A t : Sets(t) => Gone \/ status'[op] = t
  BY Zenon DEF Sets, Gone
<1>8. \A err : \A s \in FinalStatuses : SetOperationStatus(s, err) => Gone
  BY <1>3, <1>4, SetsStatus, Zenon
<1>9. ASSUME NEW err, SetOperationStatus("SEND_FINISHED", err)
      PROVE  IF op # None /\ status[op] = "RECV_FINISHED" THEN Gone
             ELSE Gone \/ status'[op] = "SEND_FINISHED"
  <2>1. Sets(MergedStatus("SEND_FINISHED", err))
    BY <1>9, SetsStatus, Zenon
  <2>2. CASE status[op] = "RECV_FINISHED"
    BY <1>3, <1>5, <2>1, <2>2, Zenon DEF Gone
  <2>3. CASE status[op] # "RECV_FINISHED"
    BY <1>5, <1>7, <2>1, <2>3, Zenon
  <2>4. QED
    BY Zenon, <2>2, <2>3
<1>10. ASSUME NEW err, SetOperationStatus("RECV_FINISHED", err)
       PROVE  IF op # None /\ status[op] = "SEND_FINISHED" THEN Gone
              ELSE Gone \/ status'[op] = "RECV_FINISHED"
  <2>1. Sets(MergedStatus("RECV_FINISHED", err))
    BY <1>10, SetsStatus, Zenon
  <2>2. CASE status[op] = "SEND_FINISHED"
    BY <1>3, <1>6, <2>1, <2>2, Zenon DEF Gone
  <2>3. CASE status[op] # "SEND_FINISHED"
    BY <1>6, <1>7, <2>1, <2>3, Zenon
  <2>4. QED
    BY Zenon, <2>2, <2>3
<1>11. QED
  BY <1>2, <1>3, <1>8, <1>9, <1>10, Zenon

\* Only NEED_ABILITY_SYNC takes a later state back to ABILITY_SYNC.
LEMMA NoReturn ==
    ASSUME currentState \in States, NEW e \in TaskEvents \ {"NEED_ABILITY_SYNC"},
           SwitchStateAndStep(e)
    PROVE  currentState' = "ABILITY_SYNC" => currentState \in {"TIME_SYNC", "ABILITY_SYNC"}
  BY OnTimeSyncFinished, OnTimeOut, OnInnerErr, OnWaitTimeOut, OnRecvFinished,
     OnStartPullResponse, OnResponseTaskFinished, OnReSendData, OnSendFinished, Zenon DEF
     TaskEvents, Moves, Wait

\* The only way from elsewhere to a pull response is the end of a send.
LEMMA NoDetour ==
    ASSUME currentState \in States, NEW e \in TaskEvents \ {"SEND_FINISHED"},
           SwitchStateAndStep(e)
    PROVE  currentState' \in {"START_PASSIVE_DATA_SYNC", "WAIT_FOR_RECEIVE_DATA_FINISH"} =>
           currentState \in {"START_PASSIVE_DATA_SYNC", "WAIT_FOR_RECEIVE_DATA_FINISH"}
  BY OnTimeSyncFinished, OnTimeOut, OnInnerErr, OnWaitTimeOut, OnRecvFinished,
     OnStartPullResponse, OnResponseTaskFinished, OnNeedAbilitySync, OnReSendData, Zenon DEF
     TaskEvents, Moves, Wait

\* Only a wait for the peer's data and a control request end in SYNC_TASK_FINISHED.
LEMMA NoOtherEnd ==
    ASSUME currentState \in States, NEW e \in TaskEvents \ {"SEND_FINISHED", "RECV_FINISHED"},
           SwitchStateAndStep(e)
    PROVE  currentState' = "SYNC_TASK_FINISHED" => currentState = "SYNC_TASK_FINISHED"
  BY OnTimeSyncFinished, OnTimeOut, OnInnerErr, OnWaitTimeOut, OnStartPullResponse,
     OnResponseTaskFinished, OnNeedAbilitySync, OnReSendData, Zenon DEF TaskEvents, Moves,
     Wait

\* A step of a task changes no status but that of the current operation.
LEMMA TaskStatus ==
    ASSUME Typed, TaskStep
    PROVE  StatusFrame
<1>1. UNCHANGED statusVars => StatusFrame
  BY Zenon DEF statusVars, StatusFrame
<1>2. \A s, err : SetOperationStatus(s, err) => StatusFrame
  BY SetsStatus, SetsOutcome, Zenon
<1>3. CASE DoInitiactiveDataSyncWithSlidingWindow
  BY <1>3, <1>1, <1>2, Zenon DEF DoInitiactiveDataSyncWithSlidingWindow
<1>4. CASE DoInitiactiveControlSync
  BY <1>4, <1>1, <1>2, Zenon DEF DoInitiactiveControlSync
<1>5. ASSUME NEW s \in Ops \cup Pulls, HandleControlAckRecv(s)
      PROVE  StatusFrame
  BY <1>5, <1>1, <1>2, Zenon DEF HandleControlAckRecv
<1>6. ASSUME NEW s \in Ops \cup Pulls, HandleDataAckRecv(s)
      PROVE  StatusFrame
  BY <1>6, <1>1, <1>2, Zenon DEF HandleDataAckRecv, statusVars, SendFinished,
     AckChangesNothing, NeedAbilitySyncHandle, ReSendFromPeerMark, AckNotPermit,
     AckError, ContinueTimesOut
<1>7. ASSUME NEW s \in Ops \cup Pulls, DataRecvErrCodeHandle(s)
      PROVE  StatusFrame
  BY <1>7, <1>1, <1>2, Zenon DEF DataRecvErrCodeHandle
<1>8. CASE \/ DoTimeSync \/ DoAbilitySync \/ DoPassiveDataSyncWithSlidingWindow
           \/ DoWaitForDataRecv \/ PullResponseAdded \/ StepToTimeout
  BY <1>8, <1>1, Zenon DEF DoTimeSync, DoAbilitySync, DoPassiveDataSyncWithSlidingWindow,
     DoWaitForDataRecv, PullResponseAdded, StepToTimeout
<1>9. ASSUME NEW s \in Ops \cup Pulls, TimeSyncFinished(s) \/ AbilitySyncRecv(s)
      PROVE  StatusFrame
  BY <1>9, <1>1, Zenon DEF TimeSyncFinished, AbilitySyncRecv
<1>10. QED
  BY <1>3, <1>4, <1>5, <1>6, <1>7, <1>8, <1>9, Zenon DEF TaskStep

\* Every step leaves alone the status of an operation nobody handed over.
LEMMA UncalledKept ==
    ASSUME Inv, Next, UNCHANGED scenario
    PROVE  Uncalled'
<1>1. Uncalled /\ scenario' = scenario
  BY Zenon DEF Inv
<1>2. UNCHANGED <<status, called>> => Uncalled'
  BY <1>1, Zenon DEF Uncalled
<1>3. \A t : Sets(t) /\ called' = called => Uncalled'
  BY <1>1, ConstantsAssumption, ZenonT(60) DEF Inv, Current, Sets, Uncalled
<1>4. status \in [Ops -> Statuses] /\ Range(requestQueue) \subseteq called
  BY Zenon DEF Inv, Typed, TypeOK
<1>5. CASE DoInitiactiveDataSyncWithSlidingWindow
  BY <1>5, <1>3, SetsStatus, Zenon DEF DoInitiactiveDataSyncWithSlidingWindow, Inv,
     queueVars
<1>6. CASE DoInitiactiveControlSync
  BY <1>6, <1>3, SetsStatus, Zenon DEF DoInitiactiveControlSync, Inv, queueVars
<1>7. CASE SkipTask
  BY <1>7, <1>3, SetsStatus, Zenon DEF SkipTask, Inv, queueVars
<1>8. CASE PrepareNextSyncTask
  BY <1>8, <1>3, SetsStatus, Zenon DEF PrepareNextSyncTask, Inv, queueVars
<1>9. CASE DoTimeout
  BY <1>9, <1>3, SetsStatus, Zenon DEF DoTimeout, AbortTask, Inv, queueVars
<1>10. CASE DoInnerErr
  BY <1>10, <1>3, SetsStatus, Zenon DEF DoInnerErr, AbortTask, Inv, queueVars
<1>11. CASE RunPermissionCheck
  BY <1>11, <1>3, SetsStatus, Zenon DEF RunPermissionCheck, Inv, queueVars
<1>12. CASE StartSync
  BY <1>12, <1>3, SetsStatus, Zenon DEF StartSync, Inv, queueVars
<1>13. ASSUME NEW s \in Ops \cup Pulls, HandleControlAckRecv(s)
      PROVE  Uncalled'
  BY <1>13, <1>3, SetsStatus, Zenon DEF HandleControlAckRecv, Inv, queueVars
<1>14. ASSUME NEW s \in Ops \cup Pulls, HandleDataAckRecv(s)
      PROVE  Uncalled'
  BY <1>14, <1>3, SetsStatus, Zenon DEF HandleDataAckRecv, Inv, queueVars, SendFinished,
     AckChangesNothing, NeedAbilitySyncHandle, ReSendFromPeerMark, AckNotPermit,
     AckError, ContinueTimesOut, statusVars
<1>15. ASSUME NEW s \in Ops \cup Pulls, DataRecvErrCodeHandle(s)
      PROVE  Uncalled'
  BY <1>15, <1>3, SetsStatus, Zenon DEF DataRecvErrCodeHandle, Inv, queueVars
<1>16. CASE ClearAllSyncTask
  <2>1. \A o \in Ops \ called : status'[o] = status[o]
    BY <1>16, <1>4, Zenon DEF ClearAllSyncTask
  <2>2. QED
    BY <1>16, <1>1, <2>1, Zenon DEF ClearAllSyncTask, Uncalled
<1>17. ASSUME NEW o \in Ops, AddSyncOperation(o)
      PROVE  Uncalled'
  <2>1. \A x \in Ops \ {o} : status'[x] = status[x]
    BY <1>17, <1>4, Zenon DEF AddSyncOperation, SetStatus
  <2>2. QED
    BY <1>17, <1>1, <2>1, Zenon DEF AddSyncOperation, Uncalled
<1>18. CASE \/ DoTimeSync \/ DoAbilitySync \/ DoPassiveDataSyncWithSlidingWindow
            \/ DoWaitForDataRecv \/ DoSyncTaskFinished \/ NoTaskLeft
            \/ CancelForPullResponse \/ PullResponseAdded \/ ExecSyncTask
            \/ ExecSyncTaskFinished \/ Fire \/ TimeoutCallback \/ StepToTimeout
            \/ SyncStepInnerLocked \/ CommErrAbort \/ LocalWrite
  BY <1>18, <1>2, Zenon DEF DoTimeSync, DoAbilitySync, DoPassiveDataSyncWithSlidingWindow,
     DoWaitForDataRecv, DoSyncTaskFinished, NoTaskLeft, CancelForPullResponse,
     PullResponseAdded, ExecSyncTask, ExecSyncTaskFinished, Fire, TimeoutCallback,
     StepToTimeout, SyncStepInnerLocked, CommErrAbort, LocalWrite, queueVars, statusVars
<1>19. ASSUME NEW s \in Ops \cup Pulls,
             \/ TimeSyncFinished(s) \/ AbilitySyncRecv(s) \/ TimeMarkSyncRecv(s)
             \/ CommErrHandlerFunc(s)
             \/ \E k \in {"ability", "control"} : MessageCallbackPre(k, s)
      PROVE  Uncalled'
  BY <1>19, <1>2, Zenon DEF TimeSyncFinished, AbilitySyncRecv, TimeMarkSyncRecv,
     CommErrHandlerFunc, MessageCallbackPre, queueVars, statusVars
<1>20. ASSUME NEW o \in Ops,
             \/ AddSyncTarget(o) \/ TargetAdded(o) \/ RemoveSyncOperation(o)
             \/ StopSync(o)
      PROVE  Uncalled'
  BY <1>20, <1>2, Zenon DEF AddSyncTarget, TargetAdded, RemoveSyncOperation, StopSync,
     queueVars, statusVars
<1>21. ASSUME NEW p \in Pulls,
             AddPullResponseTarget(p)
      PROVE  Uncalled'
  BY <1>21, <1>2, Zenon DEF AddPullResponseTarget, queueVars, statusVars
<1>22. QED
  BY Zenon, <1>5, <1>6, <1>7, <1>8, <1>9, <1>10, <1>11, <1>12, <1>13, <1>14, <1>15, <1>16,
     <1>17, <1>18, <1>19, <1>20, <1>21, Zenon DEF Next, Handler, Exec, Timer, LateAck,
     Peer, User

\* Every step keeps what is said of the session of data sync.
LEMMA DataKept ==
    ASSUME Inv, Next, UNCHANGED scenario
    PROVE  Data'
<1>1. Data /\ currentState \in States /\ scenario' = scenario
  BY Zenon DEF Inv, Typed, TypeOK
<1>2. UNCHANGED <<dataSession, reSendMap, requestSession, currentState, machineLock>> => Data'
  BY <1>1, Zenon DEF Data
<1> DEFINE Goes ==
             /\ UNCHANGED <<dataSession, reSendMap>>
             /\ currentState' = "ABILITY_SYNC" => currentState \in {"TIME_SYNC", "ABILITY_SYNC"}
<1>3. dataSession' = None => Data'
  BY Zenon DEF Data
<1>4. /\ currentState \in {"IDLE", "TIME_SYNC", "ABILITY_SYNC", "SYNC_CONTROL_CMD"}
      /\ UNCHANGED dataSession
      => dataSession' = None
  BY <1>1, Zenon DEF Data
<1>5. TaskStep /\ Goes => Data'
  <2>1. SUFFICES ASSUME TaskStep, Goes PROVE Data'
    OBVIOUS
  <2>2. GoesOn /\ requestSession' = requestSession
    BY <1>1, <2>1, TaskSteps, Zenon DEF TaskFrame
  <2>3. QED
    BY <1>1, <2>1, <2>2, Zenon DEF Data, GoesOn, Ends
<1>6. /\ mode \in Modes /\ responseSession \in Sessions
      /\ \A m \in Modes, p \in Sessions, r \in Outcomes : SyncStart(m, p, r) =>
            /\ dataSession' \in {dataSession, requestSession, p}
            /\ r \in {"sent", "timeout"} \/ (r = "revoked" /\ m = "PUSH_AND_PULL") =>
                  reSendMap' # "empty"
  BY Starting, Zenon DEF Inv, Started, Typed, TypeOK, Sessions
<1>7. responseSession \in Pulls \cup {None}
  BY Zenon DEF Inv, Typed, TypeOK
<1> HIDE DEF Goes
<1>8. CASE DoTimeSync
  BY <1>8, <1>3, <1>4, Zenon DEF DoTimeSync, Handles
<1>9. CASE DoAbilitySync
  BY <1>9, <1>3, <1>4, Zenon DEF DoAbilitySync, Handles
<1>10. CASE DoInitiactiveDataSyncWithSlidingWindow
  <2>1. currentState = "START_INITIACTIVE_DATA_SYNC" /\ GoesOn /\ requestSession' = requestSession
    BY <1>10, <1>1, TaskSteps, Zenon DEF TaskStep, TaskFrame,
       DoInitiactiveDataSyncWithSlidingWindow, Handles
  <2>2. dataSession' \in {dataSession, requestSession, responseSession}
    BY <1>10, <1>6, Zenon DEF DoInitiactiveDataSyncWithSlidingWindow, dataVars
  <2>3. PICK r \in Outcomes :
          /\ mode \in PushModes \cup {"PULL"} => SyncStart(mode, responseSession, r)
          /\ mode \notin PushModes \cup {"PULL"} => r = "error" /\ UNCHANGED dataVars
          /\ CASE r = "sent" \/ (r = "revoked" /\ mode = "PUSH_AND_PULL") -> Wait
               [] r = "timeout" -> SwitchStateAndStep(TransforTimeOutErrCodeToEvent)
               [] OTHER -> SwitchStateAndStep(
                              IF IgnoreInnerErr THEN "SEND_FINISHED" ELSE "INNER_ERR")
    BY <1>10, Zenon DEF DoInitiactiveDataSyncWithSlidingWindow
  <2>4. CASE r \in {"sent", "timeout"} \/ (r = "revoked" /\ mode = "PUSH_AND_PULL")
    <3>1. reSendMap' # "empty"
      BY <1>6, <2>3, <2>4, Zenon
    <3>2. currentState' \in {currentState, "SYNC_TIME_OUT"}
      BY <1>1, <2>3, <2>4, OnTimedOut, Zenon DEF Wait, Moves
    <3>3. QED
      BY <1>1, <1>7, <2>1, <2>2, <3>1, <3>2, Zenon DEF Data, GoesOn
  <2>5. CASE r = "error" \/ (r = "revoked" /\ mode # "PUSH_AND_PULL")
    <3>1. currentState' \in {"START_PASSIVE_DATA_SYNC", "INNER_ERR"}
      BY <1>1, <2>1, <2>3, <2>5, OnSendFinished, OnInnerErr, Zenon DEF Moves, Working
    <3>2. QED
      BY <1>1, <1>7, <2>1, <2>2, <3>1, Zenon DEF Data, GoesOn
  <2>6. QED
    BY <2>4, <2>5, Zenon DEF Outcomes
<1>11. CASE DoPassiveDataSyncWithSlidingWindow
  <2>1. requestSession' = requestSession /\ GoesOn
    BY <1>11, <1>1, TaskSteps, Zenon DEF TaskStep, TaskFrame
  <2>2. currentState = "START_PASSIVE_DATA_SYNC"
    BY <1>11, Zenon DEF DoPassiveDataSyncWithSlidingWindow, Handles
  <2>3. currentState' \in {currentState, "WAIT_FOR_RECEIVE_DATA_FINISH"}
    BY <1>11, <1>1, OnResponseTaskFinished, Zenon DEF DoPassiveDataSyncWithSlidingWindow,
       Wait, Moves
  <2>4. "RESPONSE_PULL" \in Modes /\ (responseQueue # <<>> => Head(responseQueue) \in Pulls)
    BY Shortened, Zenon DEF Inv, Typed, TypeOK, Modes
  <2>5. dataSession' \in {dataSession, requestSession} \cup Pulls
    BY <1>11, <1>6, <2>4, Zenon DEF DoPassiveDataSyncWithSlidingWindow, dataVars, Sessions
  <2>6. QED
    BY <1>1, <2>1, <2>2, <2>3, <2>5, Zenon DEF Data, GoesOn
<1>12. CASE DoInitiactiveControlSync
  BY <1>12, <1>3, <1>4, Zenon DEF DoInitiactiveControlSync, Handles
<1>13. CASE DoWaitForDataRecv
  <2>1. TaskStep
    BY <1>13, Zenon DEF TaskStep
  <2>2. Goes
    BY <1>13, <1>1, NoReturn, Zenon DEF DoWaitForDataRecv, Goes, TaskEvents, dataVars, Wait
  <2>3. QED
    BY Zenon, <1>5, <2>1, <2>2
<1>14. CASE DoSyncTaskFinished
  BY <1>14, <1>3, Zenon DEF DoSyncTaskFinished, ClearSyncStatus
<1>15. CASE NoTaskLeft
  BY <1>15, <1>1, <1>3, Zenon DEF NoTaskLeft, dataVars, Data
<1>16. CASE SkipTask
  BY <1>16, <1>1, <1>3, Zenon DEF SkipTask, dataVars, Data
<1>17. CASE PrepareNextSyncTask
  BY <1>17, <1>1, <1>3, Zenon DEF PrepareNextSyncTask, dataVars, Data
<1>18. CASE DoTimeout
  BY <1>18, <1>3, Zenon DEF DoTimeout, AbortTask, ClearSyncStatus
<1>19. CASE DoInnerErr
  BY <1>19, <1>3, Zenon DEF DoInnerErr, AbortTask, ClearSyncStatus
<1>20. CASE CancelForPullResponse
  <2>1. /\ UNCHANGED <<dataSession, reSendMap, requestSession, currentState>>
        /\ machineLock' \notin {"empty", "moved"}
    BY <1>20, Zenon DEF CancelForPullResponse, dataVars, targetVars
  <2>2. QED
    BY <1>1, <2>1, Zenon DEF Data
<1>21. CASE PullResponseAdded
  <2>1. TaskStep
    BY <1>21, Zenon DEF TaskStep
  <2>2. Goes
    BY <1>21, <1>1, NoReturn, Zenon DEF PullResponseAdded, Goes, TaskEvents, dataVars
  <2>3. QED
    BY Zenon, <1>5, <2>1, <2>2
<1>22. CASE ExecSyncTask
  <2>1. CASE taskExecStatus # "RUNNING"
    <3>1. currentState = "IDLE"
      BY <2>1, Zenon DEF Inv, Machine
    <3>2. QED
      BY <1>22, <1>3, <1>4, <3>1, Zenon DEF ExecSyncTask, dataVars
  <2>2. CASE UNCHANGED targetVars
    BY <1>22, <1>2, <2>2, Zenon DEF ExecSyncTask, targetVars, machineVars, dataVars
  <2>3. QED
    BY <1>22, <2>1, <2>2, Zenon DEF ExecSyncTask
<1>23. CASE StartSync
  <2>1. currentState = "IDLE"
    BY <1>23, Zenon DEF StartSync, Inv, Machine
  <2>2. QED
    BY <1>23, <1>3, <1>4, <2>1, Zenon DEF StartSync, dataVars
<1>24. CASE StepToTimeout
  <2>1. TaskStep
    BY <1>24, Zenon DEF TaskStep
  <2>2. Goes
    BY <1>24, <1>1, NoReturn, Zenon DEF StepToTimeout, Goes, TaskEvents, dataVars
  <2>3. QED
    BY Zenon, <1>5, <2>1, <2>2
<1>25. CASE SyncStepInnerLocked
  <2>1. /\ UNCHANGED <<dataSession, reSendMap, requestSession, currentState>>
        /\ machineLock' \notin {"empty", "moved"}
    BY <1>25, Zenon DEF SyncStepInnerLocked, dataVars, targetVars
  <2>2. QED
    BY <1>1, <2>1, Zenon DEF Data
<1>26. CASE CommErrAbort
  <2>1. /\ UNCHANGED <<dataSession, reSendMap, requestSession, machineLock>>
        /\ currentState' \in {currentState, "INNER_ERR"}
    BY <1>26, Zenon DEF CommErrAbort, dataVars, targetVars
  <2>2. QED
    BY <1>1, <2>1, Zenon DEF Data
<1>27. ASSUME NEW s \in Ops \cup Pulls, TimeSyncFinished(s)
      PROVE  Data'
  <2>1. TaskStep
    BY <1>27, Zenon DEF TaskStep
  <2>2. Goes
    BY <1>27, <1>1, NoReturn, Zenon DEF TimeSyncFinished, Goes, TaskEvents, dataVars
  <2>3. QED
    BY Zenon, <1>5, <2>1, <2>2
<1>28. ASSUME NEW s \in Ops \cup Pulls, AbilitySyncRecv(s)
      PROVE  Data'
  <2>1. TaskStep
    BY <1>28, Zenon DEF TaskStep
  <2>2. Goes
    BY <1>28, <1>1, NoReturn, OnAbilitySynced, Zenon DEF AbilitySyncRecv, Goes, TaskEvents,
       Moves, dataVars
  <2>3. QED
    BY Zenon, <1>5, <2>1, <2>2
<1>29. ASSUME NEW s \in Ops \cup Pulls, HandleControlAckRecv(s)
      PROVE  Data'
  <2>1. TaskStep
    BY <1>29, Zenon DEF TaskStep
  <2>2. dataSession' = None \/ Goes
    BY <1>29, <1>1, NoReturn, Zenon DEF HandleControlAckRecv, ClearSyncStatus, Goes,
       TaskEvents
  <2>3. QED
    BY Zenon, <1>3, <1>5, <2>1, <2>2
<1>30. ASSUME NEW s \in Ops \cup Pulls, HandleDataAckRecv(s)
      PROVE  Data'
  <2>1. TaskStep
    BY <1>30, Zenon DEF TaskStep
  <2>2. dataSession' = None \/ Goes
    BY <1>30, <1>1, NoReturn, Zenon DEF HandleDataAckRecv, ClearSyncStatus, Goes,
       TaskEvents, ResponsePullError, SendFinished, AckChangesNothing,
       NeedAbilitySyncHandle, ReSendFromPeerMark, AckNotPermit, AckError,
       ContinueTimesOut
  <2>3. QED
    BY Zenon, <1>3, <1>5, <2>1, <2>2
<1>31. ASSUME NEW s \in Ops \cup Pulls, DataRecvErrCodeHandle(s)
      PROVE  Data'
  <2>1. TaskStep
    BY <1>31, Zenon DEF TaskStep
  <2>2. Goes
    BY <1>31, <1>1, NoReturn, Zenon DEF DataRecvErrCodeHandle, Goes, TaskEvents, dataVars
  <2>3. QED
    BY Zenon, <1>5, <2>1, <2>2
<1>32. ASSUME NEW p \in Pulls, AddPullResponseTarget(p)
      PROVE  Data'
  <2>1. /\ UNCHANGED <<dataSession, reSendMap, requestSession, currentState>>
        /\ machineLock' \notin {"empty", "moved"}
    BY <1>32, Zenon DEF AddPullResponseTarget, dataVars, targetVars
  <2>2. QED
    BY <1>1, <2>1, Zenon DEF Data
<1>33. CASE \/ ExecSyncTaskFinished \/ RunPermissionCheck \/ Fire \/ TimeoutCallback
            \/ ClearAllSyncTask \/ LocalWrite
  BY <1>33, <1>2, Zenon DEF ExecSyncTaskFinished, RunPermissionCheck, Fire, TimeoutCallback,
     ClearAllSyncTask, LocalWrite, dataVars, targetVars, machineVars
<1>34. ASSUME NEW s \in Ops \cup Pulls,
             \/ TimeMarkSyncRecv(s) \/ CommErrHandlerFunc(s)
             \/ \E k \in {"ability", "control"} : MessageCallbackPre(k, s)
      PROVE  Data'
  BY <1>34, <1>2, Zenon DEF TimeMarkSyncRecv, CommErrHandlerFunc, MessageCallbackPre,
     dataVars, targetVars, machineVars
<1>35. ASSUME NEW o \in Ops,
             \/ AddSyncTarget(o) \/ TargetAdded(o) \/ RemoveSyncOperation(o)
             \/ AddSyncOperation(o) \/ StopSync(o)
      PROVE  Data'
  BY <1>35, <1>2, Zenon DEF AddSyncTarget, TargetAdded, RemoveSyncOperation,
     AddSyncOperation, StopSync, dataVars, targetVars, machineVars
<1>36. QED
  BY Zenon, <1>8, <1>9, <1>10, <1>11, <1>12, <1>13, <1>14, <1>15, <1>16, <1>17, <1>18, <1>19,
     <1>20, <1>21, <1>22, <1>23, <1>24, <1>25, <1>26, <1>27, <1>28, <1>29, <1>30, <1>31,
     <1>32, <1>33, <1>34, <1>35, Zenon DEF Next, Handler, Exec, Timer, LateAck, Peer,
     User

\* An operation that needs nothing more before a status is set needs nothing after it.
LEMMA Gones ==
    ASSUME Typed, LetGo
    PROVE  /\ StatusFrame => Gone
           /\ \A s, err : SetOperationStatus(s, err) => Gone
<1>1. op \in Ops \cup {None}
  BY Zenon DEF Typed, TypeOK
<1>2. StatusFrame => Gone
  BY <1>1, Zenon DEF LetGo, StatusFrame, Gone
<1>3. QED
  BY <1>2, SetsStatus, SetsOutcome, Zenon

\* Every step keeps track of every operation.
LEMMA TrackedKept ==
    ASSUME Inv, Next, UNCHANGED scenario, ~Misreads
    PROVE  Tracked'
<1>1. Tracked /\ scenario' = scenario
  BY Zenon DEF Inv, Kept
<1>2. UNCHANGED <<status, called, killed, op, requestQueue>> => Tracked'
  BY <1>1, Zenon DEF Tracked
<1>3. /\ status \in [Ops -> Statuses] /\ requestQueue \in Seq(Ops) /\ called \subseteq Ops
      /\ Range(requestQueue) \subseteq called /\ killed \subseteq called /\ removing \subseteq killed
      /\ currentState \in States /\ op \in called \cup {None} /\ None \notin called
  BY ConstantsAssumption, Zenon DEF Inv, Typed, TypeOK, Current
<1>4. StatusFrame /\ UNCHANGED <<called, killed, op, requestQueue>> => Tracked'
  BY <1>1, <1>3, Zenon DEF Tracked, StatusFrame
<1>5. \A s, err : SetOperationStatus(s, err) => StatusFrame
  BY SetsStatus, SetsOutcome, Zenon DEF Inv
<1>6. LetGo /\ MoveToNextTarget /\ UNCHANGED <<status, killed, called>> => Tracked'
  <2>1. SUFFICES ASSUME LetGo, MoveToNextTarget, UNCHANGED <<status, killed, called>>
                 PROVE  Tracked'
    OBVIOUS
  <2>2. \A o \in Range(requestQueue) : o \in killed \/ o = op' \/ o \in Range(requestQueue')
    BY <2>1, Moving, Zenon DEF Inv, Moved
  <2>3. QED
    BY <1>1, <1>3, <2>1, <2>2, Zenon DEF Tracked, LetGo
<1>7. CASE DoSyncTaskFinished
  <2>1. LetGo /\ UNCHANGED <<status, killed, called>>
    BY <1>7, Zenon DEF DoSyncTaskFinished, Handles, Inv, Kept, AtEnd, statusVars, killVars,
       queueVars
  <2>2. CASE MoveToNextTarget
    BY Zenon, <1>6, <2>1, <2>2
  <2>3. CASE UNCHANGED <<queueVars, targetVars>>
    BY <1>2, <2>1, <2>3, Zenon DEF queueVars, targetVars
  <2>4. QED
    BY <1>7, <2>2, <2>3, Zenon DEF DoSyncTaskFinished
<1>8. CASE NoTaskLeft
  <2>1. LetGo
    BY <1>8, Zenon DEF NoTaskLeft, Inv, Machine, Kept, AtEnd
  <2>2. QED
    BY <1>8, <1>1, <1>3, <2>1, Zenon DEF NoTaskLeft, statusVars, queueVars, killVars,
       Tracked, LetGo
<1>9. CASE SkipTask
  BY <1>9, <1>2, <1>4, <1>5, Zenon DEF SkipTask, queueVars, targetVars, killVars,
     statusVars
<1>10. CASE PrepareNextSyncTask
  BY <1>10, <1>2, <1>4, <1>5, Zenon DEF PrepareNextSyncTask, queueVars, targetVars,
     killVars, statusVars
<1>11. CASE DoTimeout
  <2>1. Gone /\ StatusFrame
    BY <1>11, SetsStatus, SetsOutcome, Zenon DEF DoTimeout, Inv, FinalStatuses
  <2>2. QED
    BY <1>11, <1>1, <1>3, <2>1, Zenon DEF DoTimeout, AbortTask, queueVars, killVars,
       Tracked, StatusFrame, Gone
<1>12. CASE DoInnerErr
  <2>1. Gone /\ StatusFrame
    BY <1>12, SetsStatus, SetsOutcome, Zenon DEF DoInnerErr, Inv, FinalStatuses
  <2>2. QED
    BY <1>12, <1>1, <1>3, <2>1, Zenon DEF DoInnerErr, AbortTask, queueVars, killVars,
       Tracked, StatusFrame, Gone
<1>13. CASE ExecSyncTask
  <2>1. UNCHANGED <<status, killed, called>> /\ (taskExecStatus # "RUNNING" => LetGo)
    BY <1>13, Zenon DEF ExecSyncTask, Inv, Kept, AtRest, statusVars, killVars, queueVars
  <2>2. CASE taskExecStatus # "RUNNING" /\ MoveToNextTarget
    BY Zenon, <1>6, <2>1, <2>2
  <2>3. CASE UNCHANGED <<queueVars, targetVars>>
    BY <1>2, <2>1, <2>3, Zenon DEF queueVars, targetVars
  <2>4. QED
    BY <1>13, <2>2, <2>3, Zenon DEF ExecSyncTask
<1>14. CASE RunPermissionCheck
  BY <1>14, <1>2, <1>4, <1>5, Zenon DEF RunPermissionCheck, queueVars, targetVars, killVars,
     statusVars
<1>15. CASE StartSync
  BY <1>15, <1>2, <1>4, <1>5, Zenon DEF StartSync, queueVars, targetVars, killVars,
     statusVars
<1>16. ASSUME NEW o \in Ops, RemoveSyncOperation(o)
      PROVE  Tracked'
  <2>1. UNCHANGED <<status, killed, op, called>> /\ o \in killed
    BY <1>16, <1>3, Zenon DEF RemoveSyncOperation, statusVars, targetVars
  <2>2. \A x \in Range(requestQueue) : x = o \/ x \in Range(requestQueue')
    BY <1>16, <1>3, Removed, Zenon DEF RemoveSyncOperation
  <2>3. QED
    BY <1>1, <2>1, <2>2, Zenon DEF Tracked
<1>17. CASE ClearAllSyncTask
  <2>1. \A o \in Ops : Final(status[o]) => Final(status'[o])
    BY <1>17, <1>3, Zenon DEF ClearAllSyncTask, SetStatus
  <2>2. \A o \in Range(requestQueue) : o \in killed \/ Final(status'[o])
    BY <1>17, <1>3, Zenon DEF ClearAllSyncTask, SetStatus, Final, FinalStatuses
  <2>3. UNCHANGED <<killed, op, called>>
    BY <1>17, Zenon DEF ClearAllSyncTask, killVars
  <2>4. QED
    BY <1>1, <1>3, <2>1, <2>2, <2>3, Zenon DEF Tracked
<1>18. ASSUME NEW o \in Ops, AddSyncOperation(o)
      PROVE  Tracked'
  <2>1. \A x \in Ops \ {o} : status'[x] = status[x]
    BY <1>18, <1>3, Zenon DEF AddSyncOperation, SetStatus
  <2>2. Final(status'[o]) \/ requestQueue' = Append(requestQueue, o)
    <3>1. o \in Ops \ called /\ status[o] = "WAITING" /\ o \notin killed
      BY <1>18, <1>3, Zenon DEF AddSyncOperation, Inv, Uncalled
    <3>2. QED
      BY <1>18, <1>3, <3>1, Zenon DEF AddSyncOperation, SetStatus, Final, FinalStatuses
  <2>3. Range(Append(requestQueue, o)) = Range(requestQueue) \cup {o}
    BY <1>3, Appended
  <2>4. /\ Range(requestQueue) \subseteq Range(requestQueue')
        /\ Final(status'[o]) \/ o \in Range(requestQueue')
    BY <1>18, <2>2, <2>3, Zenon DEF AddSyncOperation
  <2>5. UNCHANGED <<killed, op>> /\ called' = called \cup {o}
    BY <1>18, Zenon DEF AddSyncOperation, killVars, targetVars
  <2>6. QED
    BY <1>1, <1>3, <2>1, <2>4, <2>5, Zenon DEF Tracked
<1>19. ASSUME NEW o \in Ops, StopSync(o)
      PROVE  Tracked'
  BY <1>19, <1>1, Zenon DEF StopSync, Tracked, queueVars, statusVars, targetVars
<1>20. CASE TaskStep
  BY <1>20, <1>4, <1>3, TaskSteps, TaskStatus, Zenon DEF TaskFrame, Inv
<1>21. CASE \/ CancelForPullResponse \/ ExecSyncTaskFinished \/ Fire \/ TimeoutCallback
            \/ SyncStepInnerLocked \/ CommErrAbort \/ LocalWrite
  BY <1>21, <1>2, Zenon DEF CancelForPullResponse, ExecSyncTaskFinished, Fire,
     TimeoutCallback, SyncStepInnerLocked, CommErrAbort, LocalWrite, queueVars,
     targetVars, statusVars, killVars
<1>22. ASSUME NEW s \in Ops \cup Pulls,
             \/ TimeMarkSyncRecv(s) \/ CommErrHandlerFunc(s)
             \/ \E k \in {"ability", "control"} : MessageCallbackPre(k, s)
      PROVE  Tracked'
  BY <1>22, <1>2, Zenon DEF TimeMarkSyncRecv, CommErrHandlerFunc, MessageCallbackPre,
     queueVars, targetVars, statusVars, killVars
<1>23. ASSUME NEW o \in Ops,
             \/ AddSyncTarget(o) \/ TargetAdded(o)
      PROVE  Tracked'
  BY <1>23, <1>2, Zenon DEF AddSyncTarget, TargetAdded, queueVars, targetVars, statusVars,
     killVars
<1>24. ASSUME NEW p \in Pulls,
             AddPullResponseTarget(p)
      PROVE  Tracked'
  BY <1>24, <1>2, Zenon DEF AddPullResponseTarget, queueVars, targetVars, statusVars,
     killVars
<1>25. QED
  BY Zenon, <1>7, <1>8, <1>9, <1>10, <1>11, <1>12, <1>13, <1>14, <1>15, <1>16, <1>17, <1>18, <1>19,
     <1>20, <1>21, <1>22, <1>23, <1>24, Zenon DEF TaskStep, Next, Handler, Exec, Timer,
     LateAck, Peer, User

\* An operation that is let go stays so while it is the current one.
LEMMA LetGoKept ==
    ASSUME Inv, Next
    PROVE  LetGo /\ op' = op => LetGo'
<1>1. /\ status \in [Ops -> Statuses] /\ called \subseteq Ops /\ currentState \in States
      /\ op \in called \cup {None} /\ None \notin called
  BY ConstantsAssumption, Zenon DEF Inv, Typed, TypeOK, Current
<1>2. UNCHANGED <<status, killed>> => (LetGo /\ op' = op => LetGo')
  BY Zenon DEF LetGo
<1>3. StatusFrame /\ UNCHANGED killed => (LetGo /\ op' = op => LetGo')
  BY <1>1, Zenon DEF LetGo, StatusFrame
<1>4. \A s, err : SetOperationStatus(s, err) => StatusFrame
  BY SetsStatus, SetsOutcome, Zenon DEF Inv
<1>5. CASE SkipTask
  BY <1>5, <1>2, <1>3, <1>4, Zenon DEF SkipTask, killVars, statusVars
<1>6. CASE PrepareNextSyncTask
  BY <1>6, <1>2, <1>3, <1>4, Zenon DEF PrepareNextSyncTask, killVars, statusVars
<1>7. CASE DoTimeout
  BY <1>7, <1>3, SetsStatus, SetsOutcome, Zenon DEF DoTimeout, AbortTask, Inv, killVars
<1>8. CASE DoInnerErr
  BY <1>8, <1>3, SetsStatus, SetsOutcome, Zenon DEF DoInnerErr, AbortTask, Inv, killVars
<1>9. CASE RunPermissionCheck
  BY <1>9, <1>2, <1>3, <1>4, Zenon DEF RunPermissionCheck, killVars, statusVars
<1>10. CASE StartSync
  BY <1>10, <1>2, <1>3, <1>4, Zenon DEF StartSync, killVars, statusVars
<1>11. CASE ClearAllSyncTask
  <2>1. \A o \in Ops : Final(status[o]) => Final(status'[o])
    BY <1>11, <1>1, Zenon DEF ClearAllSyncTask, SetStatus
  <2>2. QED
    BY <1>11, <1>1, <2>1, Zenon DEF ClearAllSyncTask, killVars, LetGo
<1>12. ASSUME NEW o \in Ops, AddSyncOperation(o)
      PROVE  LetGo /\ op' = op => LetGo'
  <2>1. \A x \in Ops \ {o} : status'[x] = status[x]
    BY <1>12, <1>1, Zenon DEF AddSyncOperation, SetStatus
  <2>2. QED
    BY <1>12, <1>1, <2>1, Zenon DEF AddSyncOperation, killVars, LetGo
<1>13. ASSUME NEW o \in Ops, StopSync(o)
      PROVE  LetGo /\ op' = op => LetGo'
  BY <1>13, <1>1, Zenon DEF StopSync, statusVars, LetGo
<1>14. CASE TaskStep
  BY <1>14, <1>1, <1>3, TaskSteps, TaskStatus, Zenon DEF TaskFrame, Inv
<1>15. CASE \/ DoSyncTaskFinished \/ NoTaskLeft \/ CancelForPullResponse \/ ExecSyncTask
            \/ ExecSyncTaskFinished \/ Fire \/ TimeoutCallback \/ SyncStepInnerLocked
            \/ CommErrAbort \/ LocalWrite
  BY <1>15, <1>2, Zenon DEF DoSyncTaskFinished, NoTaskLeft, CancelForPullResponse,
     ExecSyncTask, ExecSyncTaskFinished, Fire, TimeoutCallback, SyncStepInnerLocked,
     CommErrAbort, LocalWrite, statusVars, killVars
<1>16. ASSUME NEW s \in Ops \cup Pulls,
             \/ TimeMarkSyncRecv(s) \/ CommErrHandlerFunc(s)
             \/ \E k \in {"ability", "control"} : MessageCallbackPre(k, s)
      PROVE  LetGo /\ op' = op => LetGo'
  BY <1>16, <1>2, Zenon DEF TimeMarkSyncRecv, CommErrHandlerFunc, MessageCallbackPre,
     statusVars, killVars
<1>17. ASSUME NEW o \in Ops,
             \/ AddSyncTarget(o) \/ TargetAdded(o) \/ RemoveSyncOperation(o)
      PROVE  LetGo /\ op' = op => LetGo'
  BY <1>17, <1>2, Zenon DEF AddSyncTarget, TargetAdded, RemoveSyncOperation, statusVars,
     killVars
<1>18. ASSUME NEW p \in Pulls,
             AddPullResponseTarget(p)
      PROVE  LetGo /\ op' = op => LetGo'
  BY <1>18, <1>2, Zenon DEF AddPullResponseTarget, statusVars, killVars
<1>19. QED
  BY Zenon, <1>5, <1>6, <1>7, <1>8, <1>9, <1>10, <1>11, <1>12, <1>13, <1>14, <1>15, <1>16,
     <1>17, <1>18, Zenon DEF TaskStep, Next, Handler, Exec, Timer, LateAck, Peer, User

\* A task that gets to SYNC_TASK_FINISHED has told the user how its operation ended.
LEMMA TaskEnds ==
    ASSUME Inv, ~Misreads, TaskStep,
           currentState # "SYNC_TASK_FINISHED", currentState' = "SYNC_TASK_FINISHED"
    PROVE  Gone
<1>1. /\ currentState \in States /\ Typed /\ Current /\ Routed /\ Data /\ InControl /\ InResponse
      /\ None \notin Ops \cup Pulls
  BY ConstantsAssumption, Zenon DEF Inv, Typed, TypeOK, Kept
<1>2. CASE DoTimeSync \/ DoPassiveDataSyncWithSlidingWindow \/ DoInitiactiveControlSync
           \/ PullResponseAdded \/ StepToTimeout
  BY <1>1, <1>2, NoOtherEnd, Zenon DEF DoTimeSync, DoPassiveDataSyncWithSlidingWindow,
     DoInitiactiveControlSync, PullResponseAdded, StepToTimeout, SendFails, SendFailure,
     TransforTimeOutErrCodeToEvent, Request, Wait, TaskEvents
<1>3. \A e : e = EventAfterAbilitySync => ~SwitchStateAndStep(e)
  BY <1>1, OnAbilitySynced, Zenon DEF Moves
<1>4. CASE DoAbilitySync
  BY <1>1, <1>3, <1>4, NoOtherEnd, Zenon DEF DoAbilitySync, SendFails, SendFailure,
     TransforTimeOutErrCodeToEvent, Request, Wait, TaskEvents
<1>5. ASSUME NEW s \in Ops \cup Pulls, TimeSyncFinished(s) \/ AbilitySyncRecv(s)
      PROVE  Gone
  BY <1>1, <1>3, <1>5, NoOtherEnd, Zenon DEF TimeSyncFinished, AbilitySyncRecv, TaskEvents
<1>6. CASE DoInitiactiveDataSyncWithSlidingWindow
  <2>1. ~SwitchStateAndStep("SEND_FINISHED")
    BY <1>1, <1>6, OnSendFinished, Zenon DEF DoInitiactiveDataSyncWithSlidingWindow, Handles,
       Moves
  <2>2. QED
    BY <1>1, <1>6, <2>1, NoOtherEnd, Zenon DEF DoInitiactiveDataSyncWithSlidingWindow,
       TransforTimeOutErrCodeToEvent, Wait, TaskEvents
<1>7. CASE DoWaitForDataRecv
  <2>1. GetOperationStatus \in {"FINISHED_ALL", "EKEYREVOKED_FAILURE"}
    BY <1>1, <1>7, NoOtherEnd, Zenon DEF DoWaitForDataRecv, Wait, TaskEvents
  <2>2. QED
    BY <1>7, <2>1, Zenon DEF DoWaitForDataRecv, GetOperationStatus, Gone, statusVars, Final,
       FinalStatuses
<1>8. ASSUME NEW s \in Ops \cup Pulls, HandleControlAckRecv(s)
      PROVE  Gone
  <2>1. SetOperationStatus("SEND_FINISHED", taskErrCode) /\ SwitchStateAndStep("SEND_FINISHED")
    BY <1>1, <1>8, NoOtherEnd, Zenon DEF HandleControlAckRecv, TaskEvents
  <2>2. currentState = "SYNC_CONTROL_CMD" /\ machineLock # "step"
    BY <1>1, <1>8, <2>1, OnSendFinished, Zenon DEF HandleControlAckRecv, Handled, MachineFree,
       Moves
  <2>3. LetGo \/ status[op] = "RECV_FINISHED"
    BY <1>1, <2>2, Zenon DEF InControl
  <2>4. CASE LetGo
    BY <2>1, <2>4, Gones, Zenon DEF Inv
  <2>5. CASE op # None /\ status[op] = "RECV_FINISHED"
    BY <1>1, <2>1, <2>5, SetsOutcome, Zenon
  <2>6. QED
    BY <2>3, <2>4, <2>5, Zenon DEF LetGo
<1>9. ASSUME NEW s \in Ops \cup Pulls, HandleDataAckRecv(s)
      PROVE  Gone
  <2>1. SwitchStateAndStep("SEND_FINISHED") /\ s = dataSession
    BY <1>1, <1>9, NoOtherEnd, Zenon DEF HandleDataAckRecv, SendFinished, AckChangesNothing,
       NeedAbilitySyncHandle, ReSendFromPeerMark, AckNotPermit, AckError, ContinueTimesOut,
       ResponsePullError, TaskEvents
  <2>2. currentState = "SYNC_CONTROL_CMD"
    BY <1>1, <2>1, OnSendFinished, Zenon DEF Moves
  <2>3. QED
    BY <1>1, <2>1, <2>2, Zenon DEF Data
<1>10. ASSUME NEW s \in Ops \cup Pulls, DataRecvErrCodeHandle(s)
       PROVE  Gone
  <2>1. /\ SwitchStateAndStep("RECV_FINISHED") /\ Mode[s] \in {"PULL", "PUSH_AND_PULL"}
        /\ s = requestSession /\ \E err : SetOperationStatus("RECV_FINISHED", err)
    BY <1>1, <1>10, NoOtherEnd, Zenon DEF DataRecvErrCodeHandle, TaskEvents
  <2>2. currentState = "WAIT_FOR_RECEIVE_DATA_FINISH"
    BY <1>1, <2>1, OnRecvFinished, Zenon DEF Moves
  <2>3. Sent
    BY <1>1, <2>2, Zenon DEF InResponse, Responding
  <2>4. op # None => Mode[op] # "PUSH"
    BY <1>1, <2>1, Zenon DEF Current
  <2>5. LetGo \/ (op # None /\ status[op] = "SEND_FINISHED")
    BY <2>3, <2>4, Zenon DEF Sent, LetGo
  <2>6. QED
    BY <1>1, <2>1, <2>5, Gones, SetsOutcome, Zenon
<1>11. QED
  BY <1>2, <1>4, <1>5, <1>6, <1>7, <1>8, <1>9, <1>10, Zenon DEF TaskStep

\* A task that is over has told the user how its operation ended.
LEMMA AtEndKept ==
    ASSUME Inv, Next, UNCHANGED scenario, ~Misreads
    PROVE  AtEnd'
<1>1. AtEnd /\ currentState \in States /\ scenario' = scenario
  BY Zenon DEF Inv, Typed, TypeOK, Kept
<1>2. UNCHANGED <<currentState, machineLock, op>> => AtEnd'
  BY <1>1, LetGoKept, Zenon DEF AtEnd
<1>3. LetGo /\ op' = op => LetGo'
  BY Zenon, LetGoKept
<1>4. machineLock \in {"empty", "moved"} => currentState = "SYNC_TASK_FINISHED"
  BY Zenon DEF Inv, Machine
<1>5. CASE DoSyncTaskFinished
  BY <1>5, <1>1, <1>3, Zenon DEF DoSyncTaskFinished, Handles, AtEnd, targetVars
<1>6. CASE NoTaskLeft
  BY <1>6, Zenon DEF NoTaskLeft, ClearTarget, AtEnd, LetGo
<1>7. CASE SkipTask
  <2>1. Gone /\ UNCHANGED <<op, killed>>
    BY <1>7, SetsOutcome, Zenon DEF SkipTask, Inv, FinalStatuses, targetVars, killVars
  <2>2. QED
    BY <2>1, Zenon DEF AtEnd, LetGo, Gone
<1>8. CASE PrepareNextSyncTask
  <2>1. CASE SwitchStateAndStep("START_SYNC")
    BY <1>1, <1>4, <2>1, <1>8, OnStartSync, Zenon DEF PrepareNextSyncTask, Moves, AtEnd
  <2>2. CASE SetOperationStatus("FAILED", taskErrCode)
    <3>1. Gone /\ UNCHANGED <<op, killed>>
      BY <1>8, <2>2, SetsOutcome, Zenon DEF PrepareNextSyncTask, Inv, FinalStatuses,
         targetVars, killVars
    <3>2. QED
      BY <3>1, Zenon DEF AtEnd, LetGo, Gone
  <2>3. QED
    BY <1>8, <2>1, <2>2, Zenon DEF PrepareNextSyncTask
<1>9. CASE DoTimeout
  BY <1>9, Zenon DEF DoTimeout, AbortTask, ClearTarget, AtEnd, LetGo
<1>10. CASE DoInnerErr
  BY <1>10, Zenon DEF DoInnerErr, AbortTask, ClearTarget, AtEnd, LetGo
<1>11. CASE CancelForPullResponse
  BY <1>11, <1>1, <1>3, Zenon DEF CancelForPullResponse, AtEnd, MachineFree, targetVars
<1>12. CASE ExecSyncTask
  <2>1. CASE taskExecStatus # "RUNNING"
    <3>1. currentState' = "IDLE"
      BY <1>12, <2>1, Zenon DEF ExecSyncTask, Inv, Machine, machineVars
    <3>2. QED
      BY <3>1, Zenon DEF AtEnd
  <2>2. CASE taskExecStatus = "RUNNING"
    BY <1>12, <1>2, <2>2, Zenon DEF ExecSyncTask, targetVars, machineVars
  <2>3. QED
    BY Zenon, <2>1, <2>2
<1>13. CASE StartSync
  <2>1. currentState' \in {"IDLE", "TIME_SYNC"}
    BY <1>13, Zenon DEF StartSync, Inv, Machine
  <2>2. QED
    BY <2>1, Zenon DEF AtEnd
<1>14. CASE SyncStepInnerLocked
  BY <1>14, <1>1, <1>3, Zenon DEF SyncStepInnerLocked, AtEnd, MachineFree, targetVars
<1>15. CASE CommErrAbort
  BY <1>15, <1>1, <1>3, Zenon DEF CommErrAbort, AtEnd, targetVars
<1>16. ASSUME NEW p \in Pulls, AddPullResponseTarget(p)
      PROVE  AtEnd'
  BY <1>16, <1>1, <1>3, Zenon DEF AddPullResponseTarget, AtEnd, MachineFree, targetVars
<1>17. CASE TaskStep
  <2>1. TaskFrame
    BY Zenon, <1>17, <1>1, TaskSteps
  <2>2. CASE currentState = "SYNC_TASK_FINISHED"
    BY <1>1, <1>3, <2>1, <2>2, Zenon DEF TaskFrame, AtEnd, Working
  <2>3. CASE currentState # "SYNC_TASK_FINISHED" /\ currentState' = "SYNC_TASK_FINISHED"
    BY <1>17, <2>1, <2>3, TaskEnds, Zenon DEF TaskFrame, AtEnd, LetGo, Gone
  <2>4. QED
    BY <2>2, <2>3, Zenon DEF AtEnd
<1>18. CASE \/ ExecSyncTaskFinished \/ RunPermissionCheck \/ Fire \/ TimeoutCallback
            \/ ClearAllSyncTask \/ LocalWrite
  BY <1>18, <1>2, Zenon DEF ExecSyncTaskFinished, RunPermissionCheck, Fire, TimeoutCallback,
     ClearAllSyncTask, LocalWrite, targetVars, machineVars
<1>19. ASSUME NEW s \in Ops \cup Pulls,
             \/ TimeMarkSyncRecv(s) \/ CommErrHandlerFunc(s)
             \/ \E k \in {"ability", "control"} : MessageCallbackPre(k, s)
      PROVE  AtEnd'
  BY <1>19, <1>2, Zenon DEF TimeMarkSyncRecv, CommErrHandlerFunc, MessageCallbackPre,
     targetVars, machineVars
<1>20. ASSUME NEW o \in Ops,
             \/ AddSyncTarget(o) \/ TargetAdded(o) \/ RemoveSyncOperation(o)
             \/ AddSyncOperation(o) \/ StopSync(o)
      PROVE  AtEnd'
  BY <1>20, <1>2, Zenon DEF AddSyncTarget, TargetAdded, RemoveSyncOperation,
     AddSyncOperation, StopSync, targetVars, machineVars
<1>21. QED
  BY Zenon, <1>5, <1>6, <1>7, <1>8, <1>9, <1>10, <1>11, <1>12, <1>13, <1>14, <1>15, <1>16, <1>17,
     <1>18, <1>19, <1>20, Zenon DEF TaskStep, Next, Handler, Exec, Timer, LateAck, Peer,
     User

\* A context at rest has told the user how its last operation ended.
LEMMA AtRestKept ==
    ASSUME Inv, Next, UNCHANGED scenario, ~Misreads
    PROVE  AtRest'
<1>1. AtRest /\ currentState \in States /\ scenario' = scenario
  BY Zenon DEF Inv, Typed, TypeOK, Kept
<1>2. UNCHANGED <<taskExecStatus, execStage, op>> => AtRest'
  BY <1>1, LetGoKept, Zenon DEF AtRest
<1>3. LetGo /\ op' = op => LetGo'
  BY Zenon, LetGoKept
<1>4. CASE DoSyncTaskFinished
  <2>1. taskExecStatus' = "RUNNING" /\ execStage' # "empty"
    BY <1>4, Zenon DEF DoSyncTaskFinished, Handles, ContextFree, execVars, Inv, Machine
  <2>2. QED
    BY <2>1, Zenon DEF AtRest
<1>5. CASE NoTaskLeft
  BY <1>5, Zenon DEF NoTaskLeft, ClearTarget, AtRest, LetGo
<1>6. CASE DoTimeout
  BY <1>6, Zenon DEF DoTimeout, AbortTask, ClearTarget, AtRest, LetGo
<1>7. CASE DoInnerErr
  BY <1>7, Zenon DEF DoInnerErr, AbortTask, ClearTarget, AtRest, LetGo
<1>8. CASE ExecSyncTask
  BY <1>8, <1>1, <1>3, Zenon DEF ExecSyncTask, AtRest, targetVars
<1>9. CASE ExecSyncTaskFinished
  BY <1>9, <1>1, <1>3, Zenon DEF ExecSyncTaskFinished, AtRest, targetVars
<1>10. CASE RunPermissionCheck
  <2>1. CASE execStage' = "start" /\ UNCHANGED taskExecStatus
    BY <1>10, <1>1, <1>3, <2>1, Zenon DEF RunPermissionCheck, AtRest, targetVars
  <2>2. CASE SetOperationStatus("PERMISSION_CHECK_FAILED", taskErrCode)
    <3>1. Gone /\ UNCHANGED <<op, killed>>
      BY <1>10, <2>2, SetsOutcome, Zenon DEF RunPermissionCheck, Inv, FinalStatuses,
         targetVars, killVars
    <3>2. QED
      BY <3>1, Zenon DEF AtRest, LetGo, Gone
  <2>3. QED
    BY <1>10, <2>1, <2>2, Zenon DEF RunPermissionCheck
<1>11. CASE StartSync
  <2>1. taskExecStatus' = "RUNNING" /\ execStage' # "empty"
    BY <1>11, Zenon DEF StartSync, Inv, Machine
  <2>2. QED
    BY <2>1, Zenon DEF AtRest
<1>12. CASE TaskStep
  BY <1>12, <1>1, <1>2, TaskSteps, Zenon DEF TaskFrame
<1>13. CASE \/ SkipTask \/ PrepareNextSyncTask \/ CancelForPullResponse \/ Fire
            \/ TimeoutCallback \/ SyncStepInnerLocked \/ CommErrAbort
            \/ ClearAllSyncTask \/ LocalWrite
  BY <1>13, <1>2, Zenon DEF SkipTask, PrepareNextSyncTask, CancelForPullResponse, Fire,
     TimeoutCallback, SyncStepInnerLocked, CommErrAbort, ClearAllSyncTask, LocalWrite,
     targetVars, execVars
<1>14. ASSUME NEW s \in Ops \cup Pulls,
             \/ TimeMarkSyncRecv(s) \/ CommErrHandlerFunc(s)
             \/ \E k \in {"ability", "control"} : MessageCallbackPre(k, s)
      PROVE  AtRest'
  BY <1>14, <1>2, Zenon DEF TimeMarkSyncRecv, CommErrHandlerFunc, MessageCallbackPre,
     targetVars, execVars
<1>15. ASSUME NEW o \in Ops,
             \/ AddSyncTarget(o) \/ TargetAdded(o) \/ RemoveSyncOperation(o)
             \/ AddSyncOperation(o) \/ StopSync(o)
      PROVE  AtRest'
  BY <1>15, <1>2, Zenon DEF AddSyncTarget, TargetAdded, RemoveSyncOperation,
     AddSyncOperation, StopSync, targetVars, execVars
<1>16. ASSUME NEW p \in Pulls,
             AddPullResponseTarget(p)
      PROVE  AtRest'
  BY <1>16, <1>2, Zenon DEF AddPullResponseTarget, targetVars, execVars
<1>17. QED
  BY Zenon, <1>4, <1>5, <1>6, <1>7, <1>8, <1>9, <1>10, <1>11, <1>12, <1>13, <1>14, <1>15,
     <1>16, Zenon DEF TaskStep, Next, Handler, Exec, Timer, LateAck, Peer, User

\* While a control request waits for its ack, nothing takes RECV_FINISHED away.
LEMMA TaskControl ==
    ASSUME Inv, ~Misreads, TaskStep, currentState = "SYNC_CONTROL_CMD", machineLock' = "free"
    PROVE  Gone \/ status'[op] = "RECV_FINISHED"
<1>1. Typed /\ (machineLock # "step" => LetGo \/ status[op] = "RECV_FINISHED")
  BY Zenon DEF Inv, Kept, InControl
<1>2. machineLock # "step" /\ UNCHANGED statusVars => Gone \/ status'[op] = "RECV_FINISHED"
  BY <1>1, Zenon DEF statusVars, Gone, LetGo
<1>3. \A err : machineLock # "step" /\ SetOperationStatus("SEND_FINISHED", err) => Gone
  BY <1>1, Gones, SetsOutcome, Zenon DEF LetGo
<1>4. \A err : SetOperationStatus("RECV_FINISHED", err) => Gone \/ status'[op] = "RECV_FINISHED"
  BY <1>1, SetsOutcome, Zenon
<1>5. \A err : SetOperationStatus("PERMISSION_CHECK_FAILED", err) => Gone
  BY <1>1, SetsOutcome, Zenon DEF FinalStatuses
<1>6. CASE DoTimeSync \/ DoAbilitySync \/ DoInitiactiveDataSyncWithSlidingWindow
           \/ DoPassiveDataSyncWithSlidingWindow \/ DoWaitForDataRecv
  BY <1>6, Zenon DEF DoTimeSync, DoAbilitySync, DoInitiactiveDataSyncWithSlidingWindow,
     DoPassiveDataSyncWithSlidingWindow, DoWaitForDataRecv, Handles
<1>7. CASE DoInitiactiveControlSync
  BY <1>4, <1>7, Zenon DEF DoInitiactiveControlSync
<1>8. CASE PullResponseAdded \/ StepToTimeout
  BY <1>2, <1>8, Zenon DEF PullResponseAdded, StepToTimeout, MachineFree
<1>9. ASSUME NEW s \in Ops \cup Pulls,
             TimeSyncFinished(s) \/ AbilitySyncRecv(s) \/ HandleControlAckRecv(s)
      PROVE  Gone \/ status'[op] = "RECV_FINISHED"
  BY <1>2, <1>3, <1>5, <1>9, Zenon DEF TimeSyncFinished, AbilitySyncRecv,
     HandleControlAckRecv, Handled, MachineFree
<1>10. ASSUME NEW s \in Ops \cup Pulls, HandleDataAckRecv(s) \/ DataRecvErrCodeHandle(s)
       PROVE  Gone \/ status'[op] = "RECV_FINISHED"
  BY <1>2, <1>3, <1>4, <1>5, <1>10, Zenon DEF HandleDataAckRecv, DataRecvErrCodeHandle,
     MachineFree, SendFinished, AckChangesNothing, NeedAbilitySyncHandle,
     ReSendFromPeerMark, AckNotPermit, AckError, ContinueTimesOut, statusVars
<1>11. QED
  BY <1>6, <1>7, <1>8, <1>9, <1>10, Zenon DEF TaskStep

\* A control request that waits for its ack has its own half done.
LEMMA InControlKept ==
    ASSUME Inv, Next, UNCHANGED scenario, ~Misreads
    PROVE  InControl'
<1>1. InControl /\ currentState \in States /\ scenario' = scenario
  BY Zenon DEF Inv, Typed, TypeOK, Kept
<1>2. UNCHANGED <<currentState, machineLock, op, status>> => InControl'
  BY <1>1, LetGoKept, Zenon DEF InControl
<1>3. LetGo /\ op' = op => LetGo'
  BY Zenon, LetGoKept
<1>4. machineLock \in {"empty", "moved"} => currentState = "SYNC_TASK_FINISHED"
  BY Zenon DEF Inv, Machine
<1>5. status \in [Ops -> Statuses] /\ called \subseteq Ops /\ op \in called \cup {None}
  BY Zenon DEF Inv, Typed, TypeOK, Current
<1>6. CASE DoSyncTaskFinished
  <2>1. currentState' # "SYNC_CONTROL_CMD"
    BY <1>6, <1>4, Zenon DEF DoSyncTaskFinished, Handles
  <2>2. QED
    BY <2>1, Zenon DEF InControl
<1>7. CASE NoTaskLeft
  BY <1>7, Zenon DEF NoTaskLeft, ClearTarget, InControl, LetGo
<1>8. CASE SkipTask
  <2>1. currentState' # "SYNC_CONTROL_CMD"
    BY <1>8, <1>4, Zenon DEF SkipTask
  <2>2. QED
    BY <2>1, Zenon DEF InControl
<1>9. CASE PrepareNextSyncTask
  <2>1. currentState' # "SYNC_CONTROL_CMD"
    BY <1>9, <1>1, <1>4, OnStartSync, OnInnerErr, Zenon DEF PrepareNextSyncTask, Moves,
       Working
  <2>2. QED
    BY <2>1, Zenon DEF InControl
<1>10. CASE DoTimeout
  BY <1>10, Zenon DEF DoTimeout, AbortTask, ClearTarget, InControl, LetGo
<1>11. CASE DoInnerErr
  BY <1>11, Zenon DEF DoInnerErr, AbortTask, ClearTarget, InControl, LetGo
<1>12. CASE CancelForPullResponse
  BY <1>12, <1>1, <1>3, Zenon DEF CancelForPullResponse, InControl, MachineFree, targetVars,
     statusVars
<1>13. CASE ExecSyncTask
  <2>1. CASE taskExecStatus # "RUNNING"
    <3>1. currentState' = "IDLE"
      BY <1>13, <2>1, Zenon DEF ExecSyncTask, Inv, Machine, machineVars
    <3>2. QED
      BY <3>1, Zenon DEF InControl
  <2>2. CASE taskExecStatus = "RUNNING"
    BY <1>13, <1>2, <2>2, Zenon DEF ExecSyncTask, targetVars, machineVars, statusVars
  <2>3. QED
    BY Zenon, <2>1, <2>2
<1>14. CASE RunPermissionCheck
  <2>1. currentState' # "SYNC_CONTROL_CMD"
    BY <1>14, <1>4, Zenon DEF RunPermissionCheck, machineVars, Inv, Machine
  <2>2. QED
    BY <2>1, Zenon DEF InControl
<1>15. CASE StartSync
  <2>1. currentState' # "SYNC_CONTROL_CMD"
    BY <1>15, <1>4, Zenon DEF StartSync, Inv, Machine
  <2>2. QED
    BY <2>1, Zenon DEF InControl
<1>16. CASE SyncStepInnerLocked
  BY <1>16, <1>1, <1>3, Zenon DEF SyncStepInnerLocked, InControl, MachineFree, targetVars,
     statusVars
<1>17. CASE CommErrAbort
  BY <1>17, <1>1, <1>3, Zenon DEF CommErrAbort, InControl, MachineFree, targetVars,
     statusVars
<1>18. ASSUME NEW p \in Pulls, AddPullResponseTarget(p)
      PROVE  InControl'
  BY <1>18, <1>1, <1>3, Zenon DEF AddPullResponseTarget, InControl, MachineFree, targetVars,
     statusVars
<1>19. CASE ClearAllSyncTask
  <2>1. op = None \/ op \in killed \/ Final(status'[op]) \/ status'[op] = status[op]
    BY <1>19, <1>5, Zenon DEF ClearAllSyncTask, SetStatus, Final, FinalStatuses
  <2>2. QED
    BY <1>19, <1>1, <1>3, <2>1, Zenon DEF ClearAllSyncTask, InControl, LetGo, machineVars,
       killVars
<1>20. ASSUME NEW o \in Ops, AddSyncOperation(o)
      PROVE  InControl'
  <2>1. \A x \in Ops \ {o} : status'[x] = status[x]
    BY <1>20, <1>5, Zenon DEF AddSyncOperation, SetStatus
  <2>2. op = None \/ status'[op] = status[op]
    BY <1>20, <1>5, <2>1, Zenon DEF AddSyncOperation
  <2>3. QED
    BY <1>20, <1>1, <1>3, <2>2, Zenon DEF AddSyncOperation, InControl, LetGo, machineVars,
       targetVars
<1>21. CASE TaskStep
  <2>1. TaskFrame
    BY Zenon, <1>21, <1>1, TaskSteps
  <2>2. CASE currentState' = "SYNC_CONTROL_CMD" /\ machineLock' # "step"
    <3>1. currentState = "SYNC_CONTROL_CMD" /\ machineLock' = "free" /\ UNCHANGED <<op, killed>>
      BY <2>1, <2>2, Zenon DEF TaskFrame, GoesOn
    <3>2. QED
      BY <1>21, <3>1, TaskControl, Zenon DEF InControl, LetGo, Gone
  <2>3. QED
    BY <2>2, Zenon DEF InControl
<1>22. CASE \/ ExecSyncTaskFinished \/ Fire \/ TimeoutCallback \/ LocalWrite
  BY <1>22, <1>2, Zenon DEF ExecSyncTaskFinished, Fire, TimeoutCallback, LocalWrite,
     targetVars, machineVars, statusVars
<1>23. ASSUME NEW s \in Ops \cup Pulls,
             \/ TimeMarkSyncRecv(s) \/ CommErrHandlerFunc(s)
             \/ \E k \in {"ability", "control"} : MessageCallbackPre(k, s)
      PROVE  InControl'
  BY <1>23, <1>2, Zenon DEF TimeMarkSyncRecv, CommErrHandlerFunc, MessageCallbackPre,
     targetVars, machineVars, statusVars
<1>24. ASSUME NEW o \in Ops,
             \/ AddSyncTarget(o) \/ TargetAdded(o) \/ RemoveSyncOperation(o)
             \/ StopSync(o)
      PROVE  InControl'
  BY <1>24, <1>2, Zenon DEF AddSyncTarget, TargetAdded, RemoveSyncOperation, StopSync,
     targetVars, machineVars, statusVars
<1>25. QED
  BY Zenon, <1>6, <1>7, <1>8, <1>9, <1>10, <1>11, <1>12, <1>13, <1>14, <1>15, <1>16, <1>17, <1>18,
     <1>19, <1>20, <1>21, <1>22, <1>23, <1>24, Zenon DEF TaskStep, Next, Handler, Exec,
     Timer, LateAck, Peer, User

\* the states of a pull response
Serving == {"START_PASSIVE_DATA_SYNC", "WAIT_FOR_RECEIVE_DATA_FINISH"}

\* A step of a task serves a pull response only when the own half of the task is over.
LEMMA TaskResponse ==
    ASSUME Inv, ~Misreads, TaskStep, UNCHANGED scenario
    PROVE  InResponse'
<1>1. /\ Typed /\ currentState \in States /\ Current /\ Routed /\ Unpulled /\ Data /\ InResponse
      /\ None \notin Ops \cup Pulls /\ op \in Ops \cup {None} /\ mode \in Modes
      /\ requestSession \in Ops \cup {None} /\ responseSession \in Sessions
      /\ Ops \cap Pulls = {} /\ UNCHANGED <<Mode, Faults>>
  BY ConstantsAssumption, Zenon DEF Inv, Typed, TypeOK, Kept, Sessions, Mode, Faults
<1>2. UNCHANGED <<op, killed, requestSession>> /\ GoesOn
  BY <1>1, TaskSteps, Zenon DEF TaskFrame
<1>3. Gone \/ status'[op] = "SEND_FINISHED" => InResponse'
  BY <1>2, Zenon DEF Gone, Sent, InResponse
<1>4. /\ Sent /\ UNCHANGED status
      /\ taskErrCode' = taskErrCode \/ "error" \in Faults \/ mode = "PUSH_AND_PULL"
      => Sent'
  <2>1. mode = "PUSH_AND_PULL" /\ op # None => Mode[op] # "PUSH"
    BY <1>1, Zenon DEF Current, UserModes
  <2>2. QED
    BY <1>1, <1>2, <2>1, Zenon DEF Sent
<1> DEFINE Back == /\ mode' = mode /\ dataSession' \in {dataSession, None}
                   /\ currentState' \in Serving => currentState \in Serving
<1>5. Back => (Responding' => Responding)
  BY <1>1, Zenon DEF Responding, Serving
<1>6. /\ Back /\ UNCHANGED status
      /\ taskErrCode' = taskErrCode \/ "error" \in Faults \/ mode = "PUSH_AND_PULL"
      => InResponse'
  BY <1>1, <1>4, <1>5, Zenon DEF InResponse
<1> HIDE DEF Back
<1>7. \A e \in TaskEvents \ {"SEND_FINISHED"} : SwitchStateAndStep(e) =>
         (currentState' \in Serving => currentState \in Serving)
  BY <1>1, NoDetour, Zenon DEF Serving
<1>8. Wait => (currentState' \in Serving => currentState \in Serving)
  BY Zenon DEF Wait
<1>9. SwitchStateAndStep(EventAfterAbilitySync) =>
         (currentState' \in Serving => currentState \in Serving)
  BY <1>1, OnAbilitySynced, Zenon DEF Serving, Moves
<1>10. CASE DoTimeSync
  <2>1. CASE UNCHANGED taskErrCode
    BY <1>6, <1>7, <1>8, <1>10, <2>1, Zenon DEF DoTimeSync, Back, Request, targetVars,
       statusVars, SendFails, SendFailure, TransforTimeOutErrCodeToEvent, TaskEvents
  <2>2. CASE taskErrCode' = "E_OTHER" /\ SendFails
    <3>1. currentState = "TIME_SYNC" /\ UNCHANGED <<mode, dataSession, status>>
      BY <1>10, Zenon DEF DoTimeSync, Handles, statusVars
    <3>2. currentState' \notin Serving
      BY <1>7, <2>2, <3>1, Zenon DEF SendFails, SendFailure, TransforTimeOutErrCodeToEvent,
         TaskEvents, Serving
    <3>3. Responding' => mode = "RESPONSE_PULL"
      BY <1>1, <3>1, <3>2, Zenon DEF Responding, Serving, Data
    <3>4. mode = "RESPONSE_PULL" => op = None
      BY <1>1, <3>1, ModeTyped, Zenon DEF Routed, UserModes, Current
    <3>5. QED
      BY <1>2, <3>3, <3>4, Zenon DEF InResponse, Sent
  <2>3. QED
    BY <1>10, <2>1, <2>2, Zenon DEF DoTimeSync
<1>11. CASE DoAbilitySync
  BY <1>6, <1>7, <1>8, <1>9, <1>11, Zenon DEF DoAbilitySync, Back, Request, targetVars,
     statusVars, SendFails, SendFailure, TransforTimeOutErrCodeToEvent, TaskEvents
<1>12. CASE DoInitiactiveControlSync
  <2>1. currentState = "SYNC_CONTROL_CMD" /\ UNCHANGED <<mode, dataSession>>
    BY <1>12, Zenon DEF DoInitiactiveControlSync, Handles
  <2>2. currentState' \notin Serving
    BY <1>2, <2>1, Zenon DEF GoesOn, Ends, Exchange, Serving
  <2>3. ~Responding'
    BY <1>1, <2>1, <2>2, Zenon DEF Responding, Serving, Data, Routed
  <2>4. QED
    BY <2>3, Zenon DEF InResponse
<1>13. CASE DoWaitForDataRecv \/ PullResponseAdded \/ StepToTimeout
  BY <1>6, <1>7, <1>8, <1>13, Zenon DEF DoWaitForDataRecv, PullResponseAdded, StepToTimeout,
     Back, Wait, targetVars, statusVars, dataVars, TaskEvents
<1>14. ASSUME NEW s \in Ops \cup Pulls, TimeSyncFinished(s) \/ AbilitySyncRecv(s)
       PROVE  InResponse'
  BY <1>6, <1>7, <1>9, <1>14, Zenon DEF TimeSyncFinished, AbilitySyncRecv, Back, targetVars,
     statusVars, dataVars, TaskEvents
<1>15. ASSUME NEW s \in Ops \cup Pulls, HandleControlAckRecv(s)
       PROVE  InResponse'
  <2>1. \A err : \A t \in {"SEND_FINISHED", "PERMISSION_CHECK_FAILED"} :
           SetOperationStatus(t, err) => InResponse'
    BY <1>1, <1>3, SetsOutcome, Zenon DEF FinalStatuses
  <2>2. QED
    BY <1>6, <1>7, <1>15, <2>1, Zenon DEF HandleControlAckRecv, Back, ClearSyncStatus,
       statusVars, TaskEvents
<1>16. ASSUME NEW s \in Ops \cup Pulls, HandleDataAckRecv(s)
       PROVE  InResponse'
  <2>1. \A err : \A t \in {"SEND_FINISHED", "PERMISSION_CHECK_FAILED"} :
           SetOperationStatus(t, err) => InResponse'
    BY <1>1, <1>3, SetsOutcome, Zenon DEF FinalStatuses
  <2>2. mode' = mode
    BY <1>16, Zenon DEF HandleDataAckRecv
  <2>3. CASE SendFinished(s) \/ AckNotPermit(s)
    BY <1>6, <1>7, <2>1, <2>2, <2>3, Zenon DEF SendFinished, AckNotPermit,
       ResponsePullError, Back, statusVars, TaskEvents
  <2>4. CASE AckChangesNothing \/ NeedAbilitySyncHandle \/ AckError(s) \/ ContinueTimesOut(s)
    BY <1>6, <1>7, <2>2, <2>4, Zenon DEF AckChangesNothing, NeedAbilitySyncHandle, AckError,
       ContinueTimesOut, ResponsePullError, Back, ClearSyncStatus, statusVars, TaskEvents
  <2>5. CASE ReSendFromPeerMark
    BY <1>6, <1>7, <2>2, <2>5, Zenon DEF ReSendFromPeerMark, Back, ClearSyncStatus,
       statusVars, TaskEvents
  <2>6. QED
    BY <1>16, <2>3, <2>4, <2>5, Zenon DEF HandleDataAckRecv
<1>17. ASSUME NEW s \in Ops \cup Pulls, DataRecvErrCodeHandle(s)
       PROVE  InResponse'
  <2>1. Back /\ s = requestSession /\ Mode[s] \in {"PULL", "PUSH_AND_PULL"}
    BY <1>7, <1>17, Zenon DEF DataRecvErrCodeHandle, Back, dataVars, TaskEvents
  <2>2. op # None => Mode[op] # "PUSH"
    BY <1>1, <2>1, Zenon DEF Current
  <2>3. SUFFICES ASSUME Sent PROVE InResponse'
    BY <1>1, <1>5, <2>1, Zenon DEF InResponse
  <2>4. LetGo \/ (op # None /\ status[op] = "SEND_FINISHED")
    BY <2>2, <2>3, Zenon DEF Sent, LetGo
  <2>5. \A err : SetOperationStatus("RECV_FINISHED", err) => Gone
    BY <1>1, <2>4, Gones, SetsOutcome, Zenon
  <2>6. UNCHANGED statusVars => Gone \/ status'[op] = "SEND_FINISHED"
    BY <2>4, Zenon DEF statusVars, LetGo, Gone
  <2>7. QED
    BY <1>3, <1>17, <2>5, <2>6, Zenon DEF DataRecvErrCodeHandle
<1>18. CASE DoPassiveDataSyncWithSlidingWindow
  <2>1. Sent
    BY <1>1, <1>18, Zenon DEF DoPassiveDataSyncWithSlidingWindow, Handles, InResponse,
       Responding
  <2>2. "RESPONSE_PULL" \in Modes /\ (responseQueue # <<>> => Head(responseQueue) \in Sessions)
    BY Shortened, Zenon DEF Inv, Typed, TypeOK, Modes, Sessions
  <2>3. taskErrCode' \in {taskErrCode, "E_EKEYREVOKED"} \/ "error" \in Faults
    BY <1>1, <1>18, <2>2, Starting, Zenon DEF DoPassiveDataSyncWithSlidingWindow, Started
  <2>4. QED
    BY <1>1, <1>2, <1>18, <2>1, <2>3, Zenon DEF DoPassiveDataSyncWithSlidingWindow, Sent,
       InResponse, statusVars
<1>19. CASE DoInitiactiveDataSyncWithSlidingWindow
  <2>1. currentState = "START_INITIACTIVE_DATA_SYNC" /\ UNCHANGED mode
    BY <1>19, Zenon DEF DoInitiactiveDataSyncWithSlidingWindow, Handles
  <2>2. PICK r \in Outcomes :
          /\ mode \in PushModes \cup {"PULL"} => SyncStart(mode, responseSession, r)
          /\ mode \notin PushModes \cup {"PULL"} =>
                r = "error" /\ UNCHANGED <<dataVars, taskErrCode>>
          /\ CASE r = "sent" \/ (r = "revoked" /\ mode = "PUSH_AND_PULL") -> Wait
               [] r = "timeout" -> SwitchStateAndStep(TransforTimeOutErrCodeToEvent)
               [] OTHER -> SwitchStateAndStep(
                              IF IgnoreInnerErr THEN "SEND_FINISHED" ELSE "INNER_ERR")
    BY <1>19, Zenon DEF DoInitiactiveDataSyncWithSlidingWindow
  <2>3. CASE op = None
    BY <1>2, <2>3, Zenon DEF InResponse, Sent
  <2>4. CASE op # None
    <3>1. mode \in {"PUSH", "PULL", "PUSH_AND_PULL", "RESPONSE_PULL"}
      BY <1>1, <2>1, <2>4, ModeTyped, Zenon DEF Current, Routed, UserModes, Exchange
    <3>2. Started(mode, responseSession, r)
      BY <1>1, <2>2, <3>1, Starting, Zenon DEF PushModes
    <3>3. mode # "RESPONSE_PULL" => Mode[op] = mode
      BY <1>1, <2>4, <3>1, Zenon DEF Current, UserModes
    \* an error is taken for one of a pull response only when there are pulls, and then
    \* it is that of a revoked key
    <3>4. currentState' \in Serving =>
             r = "revoked" /\ mode # "PUSH_AND_PULL" /\ "error" \notin Faults
      <4>1. SUFFICES ASSUME currentState' \in Serving
                     PROVE  r = "revoked" /\ mode # "PUSH_AND_PULL" /\ "error" \notin Faults
        OBVIOUS
      <4>2. /\ ~Wait /\ ~SwitchStateAndStep("INNER_ERR")
            /\ ~SwitchStateAndStep(TransforTimeOutErrCodeToEvent)
        BY <1>7, <1>8, <2>1, <4>1, Zenon DEF Serving, TaskEvents,
           TransforTimeOutErrCodeToEvent
      <4>3. /\ IgnoreInnerErr /\ r \notin {"sent", "timeout"}
            /\ ~(r = "revoked" /\ mode = "PUSH_AND_PULL")
        BY <2>2, <4>2, Zenon DEF Outcomes
      <4>4. "error" \notin Faults
        BY <1>1, <4>3, Zenon DEF IgnoreInnerErr, Unpulled, Misreads
      <4>5. r # "error"
        BY <1>1, <2>1, <3>2, <4>4, Zenon DEF Started, Data
      <4>6. QED
        BY <4>3, <4>4, <4>5, Zenon DEF Outcomes
    <3>5. Responding' => Responding \/ currentState' \in Serving
      <4>1. dataSession' \in Pulls => dataSession \in Pulls \/ mode = "RESPONSE_PULL"
        BY <1>1, <3>2, Zenon DEF Started
      <4>2. QED
        BY <2>1, <4>1, Zenon DEF Responding, Serving
    <3>6. taskErrCode' \in {taskErrCode, "E_EKEYREVOKED"} \/ "error" \in Faults
      BY <3>2, Zenon DEF Started
    <3>7. CASE mode = "PULL"
      <4>1. SetOperationStatus("SEND_FINISHED", taskErrCode)
        BY <1>19, <3>7, Zenon DEF DoInitiactiveDataSyncWithSlidingWindow
      <4>2. QED
        BY <1>1, <1>3, <4>1, SetsOutcome, Zenon
    <3>8. CASE mode = "PUSH"
      <4>1. SetOperationStatus("RECV_FINISHED", taskErrCode)
        BY <1>19, <3>8, Zenon DEF DoInitiactiveDataSyncWithSlidingWindow
      <4>2. Gone \/ status'[op] = "RECV_FINISHED"
        BY <1>1, <4>1, SetsOutcome, Zenon
      <4>3. CASE currentState' \in Serving
        <5>1. taskErrCode' = "E_EKEYREVOKED" /\ "error" \notin Faults /\ Mode[op] = "PUSH"
          BY <3>2, <3>3, <3>4, <3>8, <4>3, Zenon DEF Started
        <5>2. QED
          BY <1>1, <1>2, <1>3, <4>2, <5>1, Zenon DEF InResponse, Sent
      <4>4. CASE Responding
        <5>1. Sent
          BY <1>1, <4>4, Zenon DEF InResponse
        <5>2. LetGo \/ status[op] = "SEND_FINISHED" => Gone
          BY <1>1, <2>4, <4>1, Gones, SetsOutcome, Zenon
        <5>3. Gone \/ (taskErrCode = "E_EKEYREVOKED" /\ "error" \notin Faults /\ Mode[op] = "PUSH")
          BY <5>1, <5>2, Zenon DEF Sent, LetGo
        <5>4. QED
          BY <1>1, <1>2, <1>3, <3>6, <4>2, <5>3, Zenon DEF InResponse, Sent
      <4>5. QED
        BY <3>5, <4>3, <4>4, Zenon DEF InResponse
    <3>9. CASE mode \in {"PUSH_AND_PULL", "RESPONSE_PULL"}
      <4>1. UNCHANGED status
        BY <1>19, <3>9, Zenon DEF DoInitiactiveDataSyncWithSlidingWindow, statusVars
      <4>2. mode = "PUSH_AND_PULL" => currentState' \notin Serving
        BY <3>4, Zenon
      <4>3. Responding' => Sent
        BY <1>1, <3>5, <3>9, <4>2, Zenon DEF InResponse, Responding
      <4>4. QED
        BY <1>1, <1>2, <3>6, <4>1, <4>3, Zenon DEF InResponse, Sent
    <3>10. QED
      BY Zenon, <3>1, <3>7, <3>8, <3>9
  <2>5. QED
    BY Zenon, <2>3, <2>4
<1>20. QED
  BY <1>10, <1>11, <1>12, <1>13, <1>14, <1>15, <1>16, <1>17, <1>18, <1>19, Zenon DEF
     TaskStep

\* Pull responses are served only when the own half of the task is over.
LEMMA InResponseKept ==
    ASSUME Inv, Next, UNCHANGED scenario, ~Misreads
    PROVE  InResponse'
<1>1. InResponse /\ scenario' = scenario
  BY Zenon DEF Inv, Kept
<1>2. UNCHANGED <<currentState, mode, dataSession, op, killed, status, taskErrCode>> => InResponse'
  BY <1>1, Zenon DEF InResponse, Responding, Sent, Mode, Faults
<1>3. /\ status \in [Ops -> Statuses] /\ called \subseteq Ops /\ op \in called \cup {None}
      /\ currentState \in States /\ None \notin Pulls
  BY ConstantsAssumption, Zenon DEF Inv, Typed, TypeOK, Current
<1>4. machineLock \in {"empty", "moved"} => currentState = "SYNC_TASK_FINISHED"
  BY Zenon DEF Inv, Machine
<1>5. /\ MoveToNextTarget /\ dataSession' = None
      /\ currentState' \in {"IDLE", "SYNC_TASK_FINISHED"}
      => InResponse'
  <2>1. SUFFICES ASSUME MoveToNextTarget, dataSession' = None,
                        currentState' \in {"IDLE", "SYNC_TASK_FINISHED"}
                 PROVE  InResponse'
    OBVIOUS
  <2>2. op' = None \/ (op' \in called /\ mode' = Mode[op'])
    BY <2>1, Moving, Zenon DEF Inv, Moved, Typed
  <2>3. op' = None \/ mode' # "RESPONSE_PULL"
    BY <2>2, ModeTyped, Zenon DEF Inv, UserModes
  <2>4. QED
    BY <1>3, <2>1, <2>3, Zenon DEF InResponse, Responding, Sent
<1>6. CASE DoSyncTaskFinished
  <2>1. currentState' = "SYNC_TASK_FINISHED" /\ dataSession' = None
    BY <1>6, Zenon DEF DoSyncTaskFinished, Handles, ClearSyncStatus
  <2>2. CASE MoveToNextTarget
    BY <1>5, <2>1, <2>2, Zenon
  <2>3. CASE UNCHANGED targetVars
    BY <1>6, <1>1, <1>3, <2>1, <2>3, Zenon DEF DoSyncTaskFinished, targetVars, killVars,
       statusVars, InResponse, Responding, Sent, Mode, Faults
  <2>4. QED
    BY <1>6, <2>2, <2>3, Zenon DEF DoSyncTaskFinished
<1>7. CASE NoTaskLeft
  BY <1>7, Zenon DEF NoTaskLeft, ClearTarget, InResponse, Sent
<1>8. CASE SkipTask
  <2>1. Gone /\ UNCHANGED <<op, killed>>
    BY <1>8, SetsOutcome, Zenon DEF SkipTask, Inv, FinalStatuses, targetVars, killVars
  <2>2. QED
    BY <2>1, Zenon DEF InResponse, Sent, Gone
<1>9. CASE PrepareNextSyncTask
  <2>1. UNCHANGED <<op, killed, mode, dataSession, taskErrCode>>
    BY <1>9, Zenon DEF PrepareNextSyncTask, targetVars, killVars, dataVars
  <2>2. CASE SetOperationStatus("FAILED", taskErrCode)
    <3>1. Gone
      BY <2>2, SetsOutcome, Zenon DEF Inv, FinalStatuses
    <3>2. QED
      BY <2>1, <3>1, Zenon DEF InResponse, Sent, Gone
  <2>3. CASE currentState' = "TIME_SYNC" /\ UNCHANGED status
    BY <1>1, <2>1, <2>3, Zenon DEF InResponse, Sent, Responding, Mode, Faults
  <2>4. SwitchStateAndStep("START_SYNC") => currentState' = "TIME_SYNC"
    BY <1>9, <1>3, <1>4, OnStartSync, Zenon DEF PrepareNextSyncTask, Moves
  <2>5. QED
    BY <1>9, <2>2, <2>3, <2>4, Zenon DEF PrepareNextSyncTask, statusVars
<1>10. CASE DoTimeout
  BY <1>10, Zenon DEF DoTimeout, AbortTask, ClearTarget, InResponse, Sent
<1>11. CASE DoInnerErr
  BY <1>11, Zenon DEF DoInnerErr, AbortTask, ClearTarget, InResponse, Sent
<1>12. CASE ExecSyncTask
  <2>1. CASE taskExecStatus # "RUNNING" /\ MoveToNextTarget
    <3>1. currentState = "IDLE" /\ UNCHANGED <<currentState, dataSession>>
      BY <1>12, <2>1, Zenon DEF ExecSyncTask, Inv, Machine, machineVars, dataVars
    <3>2. dataSession' = None
      BY <3>1, Zenon DEF Inv, Data
    <3>3. QED
      BY <1>5, <2>1, <3>1, <3>2, Zenon
  <2>2. CASE UNCHANGED targetVars
    BY <1>12, <1>2, <2>2, Zenon DEF ExecSyncTask, targetVars, machineVars, dataVars,
       killVars, statusVars
  <2>3. QED
    BY <1>12, <2>1, <2>2, Zenon DEF ExecSyncTask
<1>13. CASE RunPermissionCheck
  <2>1. UNCHANGED <<op, killed, mode, dataSession, taskErrCode>>
    BY <1>13, Zenon DEF RunPermissionCheck, targetVars, killVars, dataVars
  <2>2. CASE SetOperationStatus("PERMISSION_CHECK_FAILED", taskErrCode)
    <3>1. Gone
      BY <2>2, SetsOutcome, Zenon DEF Inv, FinalStatuses
    <3>2. QED
      BY <2>1, <3>1, Zenon DEF InResponse, Sent, Gone
  <2>3. CASE currentState' = currentState /\ UNCHANGED status
    BY <1>1, <2>1, <2>3, Zenon DEF InResponse, Sent, Responding, Mode, Faults
  <2>4. QED
    BY <1>13, <1>3, <2>2, <2>3, Zenon DEF RunPermissionCheck, statusVars, machineVars
<1>14. CASE StartSync
  <2>1. UNCHANGED <<op, killed, mode, dataSession, taskErrCode>>
    BY <1>14, Zenon DEF StartSync, targetVars, killVars, dataVars
  <2>2. CASE SetOperationStatus("FAILED", taskErrCode)
    <3>1. Gone
      BY <2>2, SetsOutcome, Zenon DEF Inv, FinalStatuses
    <3>2. QED
      BY <2>1, <3>1, Zenon DEF InResponse, Sent, Gone
  <2>3. CASE currentState' = "TIME_SYNC" /\ UNCHANGED status
    BY <1>1, <2>1, <2>3, Zenon DEF InResponse, Sent, Responding, Mode, Faults
  <2>4. QED
    BY <1>14, <1>3, <2>2, <2>3, Zenon DEF StartSync, statusVars
<1>15. CASE CommErrAbort
  BY <1>15, <1>1, Zenon DEF CommErrAbort, InResponse, Responding, Sent, Mode, Faults,
     targetVars, dataVars, killVars, statusVars
<1>16. ASSUME NEW s \in Ops \cup Pulls, TimeMarkSyncRecv(s)
      PROVE  InResponse'
  BY <1>16, <1>1, Zenon DEF TimeMarkSyncRecv, InResponse, Responding, Sent, Mode, Faults,
     machineVars, dataVars, killVars, statusVars
<1>17. CASE ClearAllSyncTask
  <2>1. op = None \/ op \in killed \/ Final(status'[op]) \/ status'[op] = status[op]
    BY <1>17, <1>3, Zenon DEF ClearAllSyncTask, SetStatus, Final, FinalStatuses
  <2>2. QED
    BY <1>17, <1>1, <2>1, Zenon DEF ClearAllSyncTask, InResponse, Responding, Sent, Mode,
       Faults, machineVars, dataVars, killVars
<1>18. ASSUME NEW o \in Ops, AddSyncOperation(o)
      PROVE  InResponse'
  <2>1. \A x \in Ops \ {o} : status'[x] = status[x]
    BY <1>18, <1>3, Zenon DEF AddSyncOperation, SetStatus
  <2>2. op = None \/ status'[op] = status[op]
    BY <1>18, <1>3, <2>1, Zenon DEF AddSyncOperation
  <2>3. QED
    BY <1>18, <1>1, <2>2, Zenon DEF AddSyncOperation, InResponse, Responding, Sent, Mode,
       Faults, machineVars, dataVars, killVars, targetVars
<1>19. ASSUME NEW o \in Ops, StopSync(o)
      PROVE  InResponse'
  BY <1>19, <1>1, Zenon DEF StopSync, InResponse, Responding, Sent, Mode, Faults,
     machineVars, dataVars, targetVars, statusVars
<1>20. CASE TaskStep
  BY Zenon, <1>20, TaskResponse
<1>21. CASE \/ CancelForPullResponse \/ ExecSyncTaskFinished \/ Fire \/ TimeoutCallback
            \/ SyncStepInnerLocked \/ LocalWrite
  BY <1>21, <1>2, Zenon DEF CancelForPullResponse, ExecSyncTaskFinished, Fire,
     TimeoutCallback, SyncStepInnerLocked, LocalWrite, targetVars, machineVars,
     dataVars, killVars, statusVars
<1>22. ASSUME NEW s \in Ops \cup Pulls,
             \/ CommErrHandlerFunc(s)
             \/ \E k \in {"ability", "control"} : MessageCallbackPre(k, s)
      PROVE  InResponse'
  BY <1>22, <1>2, Zenon DEF CommErrHandlerFunc, MessageCallbackPre, targetVars, machineVars,
     dataVars, killVars, statusVars
<1>23. ASSUME NEW o \in Ops,
             \/ AddSyncTarget(o) \/ TargetAdded(o) \/ RemoveSyncOperation(o)
      PROVE  InResponse'
  BY <1>23, <1>2, Zenon DEF AddSyncTarget, TargetAdded, RemoveSyncOperation, targetVars,
     machineVars, dataVars, killVars, statusVars
<1>24. ASSUME NEW p \in Pulls,
             AddPullResponseTarget(p)
      PROVE  InResponse'
  BY <1>24, <1>2, Zenon DEF AddPullResponseTarget, targetVars, machineVars, dataVars,
     killVars, statusVars
<1>25. QED
  BY Zenon, <1>6, <1>7, <1>8, <1>9, <1>10, <1>11, <1>12, <1>13, <1>14, <1>15, <1>16, <1>17, <1>18,
     <1>19, <1>20, <1>21, <1>22, <1>23, <1>24, Zenon DEF TaskStep, Next, Handler, Exec,
     Timer, LateAck, Peer, User

\* Every step keeps the account of the operations.
LEMMA OperationsKept ==
    ASSUME Inv, Next, UNCHANGED scenario
    PROVE  Kept'
<1>1. Misreads => Misreads'
  BY Zenon DEF Misreads, Faults
<1>2. QED
  BY <1>1, TrackedKept, AtEndKept, AtRestKept, InControlKept, InResponseKept, Zenon DEF Kept

\* the statuses of a failure
Failures == FinalStatuses \ {"FINISHED_ALL"}

\* Every step that tells the user of a success has what the success needs.
LEMMA EarnedKept ==
    ASSUME Inv, Next, UNCHANGED scenario
    PROVE  Earned'
<1>1. SUFFICES ASSUME ~Misreads PROVE Earned'
  BY Zenon DEF Earned, Misreads, Faults
<1>2. UNCHANGED <<status, called, earned>> => Earned'
  BY Zenon DEF Inv, Earned, Told, Shows, Mode, AutoSync, Faults, Misreads
<1>3. /\ Typed /\ Current /\ Routed /\ Subscribed /\ Data /\ Uncalled /\ InResponse
      /\ status \in [Ops -> Statuses] /\ called \subseteq Ops
      /\ op \in called \cup {None} /\ None \notin Ops \cup Pulls
      /\ UNCHANGED <<Mode, AutoSync, Faults>>
  BY <1>1, ConstantsAssumption, Zenon DEF Inv, Typed, TypeOK, Current, Kept, Mode, AutoSync,
     Faults
<1>4. ASSUME NEW t, Sets(t), UNCHANGED called, earned \subseteq earned',
             \/ op = None \/ op \in AutoSync \/ ~Told(op) \/ op \in killed \/ Final(status[op])
             \/ Shows(op, t, earned')
      PROVE  Earned'
  <2>1. ASSUME NEW o \in called \ AutoSync, Told(o)
        PROVE  Shows(o, status'[o], earned')
    <3>1. Shows(o, status[o], earned')
      BY <1>1, <1>4, <2>1, Zenon DEF Inv, Earned, Shows
    <3>2. \/ status'[o] = status[o]
          \/ o = op /\ status'[o] = t /\ op \notin killed /\ ~Final(status[op])
      BY <1>3, <1>4, <2>1, Zenon DEF Sets
    <3>3. QED
      BY <1>3, <1>4, <2>1, <3>1, <3>2, Zenon
  <2>2. QED
    BY <1>3, <1>4, <2>1, Zenon DEF Earned, Shows, Told, Mode, AutoSync, Faults
<1>5. \A o \in called \ AutoSync : Told(o) => Shows(o, status[o], earned)
  BY <1>1, Zenon DEF Inv, Earned
<1>6. \A t \in Failures : Sets(t) /\ UNCHANGED <<called, earned>> => Earned'
  <2>1. \A t \in Failures : Shows(op, t, earned)
    BY Zenon DEF Failures, FinalStatuses, Shows
  <2>2. QED
    BY <1>4, <2>1, Zenon
<1>7. \A err : \A s \in Failures :
         SetOperationStatus(s, err) /\ UNCHANGED <<called, earned>> => Earned'
  <2>1. \A err : \A s \in Failures : MergedStatus(s, err) \in Failures
    BY Zenon DEF MergedStatus, Failures, FinalStatuses
  <2>2. QED
    BY <1>3, <1>6, <2>1, SetsStatus, Zenon
<1>8. \A err : MergedStatus("FINISHED_ALL", err) = "FINISHED_ALL"
  BY Zenon DEF MergedStatus
<1>9. \A err : /\ MergedStatus("SEND_FINISHED", err) \in
                    IF status[op] = "RECV_FINISHED" THEN {"EKEYREVOKED_FAILURE", "FINISHED_ALL"}
                    ELSE {"SEND_FINISHED"}
               /\ MergedStatus("RECV_FINISHED", err) \in
                    IF status[op] = "SEND_FINISHED" THEN {"EKEYREVOKED_FAILURE", "FINISHED_ALL"}
                    ELSE {"RECV_FINISHED"}
  BY Zenon DEF MergedStatus
<1>10. /\ "TIMEOUT" \in Failures /\ "PERMISSION_CHECK_FAILED" \in Failures
       /\ "COMM_ABNORMAL" \in Failures /\ "EKEYREVOKED_FAILURE" \in Failures
       /\ "FAILED" \in Failures
  BY Zenon DEF Failures, FinalStatuses
<1>11. ASSUME Sets(MergedStatus("SEND_FINISHED", taskErrCode)), UNCHANGED called,
              earned \subseteq earned',
              \/ op = None \/ ~Told(op) \/ op \in killed \/ Final(status[op])
              \/ <<"send", op>> \in earned' \/ Mode[op] = "PULL"
       PROVE  Earned'
  <2>1. SUFFICES ASSUME op # None, op \notin AutoSync, Told(op), op \notin killed,
                        ~Final(status[op])
                 PROVE  Shows(op, MergedStatus("SEND_FINISHED", taskErrCode), earned')
    BY <1>4, <1>11, Zenon
  <2>2. Shows(op, status[op], earned)
    BY <1>3, <1>5, <2>1, Zenon
  <2>3. QED
    BY <1>9, <1>11, <2>1, <2>2, Zenon DEF Shows
<1>12. ASSUME Sets(MergedStatus("RECV_FINISHED", taskErrCode)), UNCHANGED called,
              earned \subseteq earned',
              \/ op = None \/ ~Told(op)
              \/ <<"recv", op>> \in earned' \/ Mode[op] \in {"PUSH", "SUBSCRIBE_QUERY"}
       PROVE  Earned'
  <2>1. SUFFICES ASSUME op # None, op \notin AutoSync, Told(op)
                 PROVE  Shows(op, MergedStatus("RECV_FINISHED", taskErrCode), earned')
    BY <1>4, <1>12, Zenon
  <2>2. Shows(op, status[op], earned)
    BY <1>3, <1>5, <2>1, Zenon
  <2>3. QED
    BY <1>9, <1>12, <2>1, <2>2, Zenon DEF Shows
<1>13. CASE DoInitiactiveDataSyncWithSlidingWindow
  <2>1. UNCHANGED <<called, earned>>
    BY <1>13, Zenon DEF DoInitiactiveDataSyncWithSlidingWindow, queueVars
  <2>2. CASE mode = "PUSH"
    <3>1. Sets(MergedStatus("RECV_FINISHED", taskErrCode))
      BY <1>13, <1>3, <2>2, SetsStatus, Zenon DEF DoInitiactiveDataSyncWithSlidingWindow
    <3>2. op # None => Mode[op] \in {"PUSH", "SUBSCRIBE_QUERY"}
      BY <1>3, <2>2, Zenon DEF Current, UserModes
    <3>3. QED
      BY <1>12, <2>1, <3>1, <3>2, Zenon
  <2>3. CASE mode = "PULL"
    <3>1. Sets(MergedStatus("SEND_FINISHED", taskErrCode))
      BY <1>13, <1>3, <2>3, SetsStatus, Zenon DEF DoInitiactiveDataSyncWithSlidingWindow
    <3>2. op # None => Mode[op] = "PULL"
      BY <1>3, <2>3, Zenon DEF Current, UserModes
    <3>3. QED
      BY <1>11, <2>1, <3>1, <3>2, Zenon
  <2>4. CASE mode \notin {"PUSH", "PULL"}
    <3>1. UNCHANGED status
      BY <1>13, <2>4, Zenon DEF DoInitiactiveDataSyncWithSlidingWindow, statusVars
    <3>2. QED
      BY <1>2, <2>1, <3>1, Zenon
  <2>5. QED
    BY Zenon, <2>2, <2>3, <2>4
<1>14. CASE DoInitiactiveControlSync
  <2>1. UNCHANGED <<called, earned>> /\ Sets(MergedStatus("RECV_FINISHED", taskErrCode))
    BY <1>14, <1>3, SetsStatus, Zenon DEF DoInitiactiveControlSync, queueVars
  <2>2. op # None => Mode[op] \in {"PUSH", "SUBSCRIBE_QUERY"}
    BY <1>14, <1>3, Zenon DEF DoInitiactiveControlSync, Handles, Routed, Current, UserModes
  <2>3. QED
    BY <1>12, <2>1, <2>2, Zenon
<1>15. CASE SkipTask
  <2>1. Sets("FINISHED_ALL") /\ called' = called /\ earned' = earned \cup {<<"skip", op>>}
    BY <1>15, <1>3, <1>8, SetsStatus, Zenon DEF SkipTask, queueVars, FinalStatuses
  <2>2. QED
    BY <1>4, <2>1, Zenon DEF Shows
<1>16. CASE PrepareNextSyncTask
  BY <1>16, <1>2, <1>7, <1>10, Zenon DEF PrepareNextSyncTask, queueVars, statusVars
<1>17. CASE DoTimeout
  <2>1. \E t \in Failures : Sets(t)
    BY <1>17, <1>3, <1>10, SetsStatus, Zenon DEF DoTimeout
  <2>2. QED
    BY <1>17, <1>6, <2>1, Zenon DEF DoTimeout, AbortTask, queueVars
<1>18. CASE DoInnerErr
  <2>1. \E t \in Failures : Sets(t)
    BY <1>18, <1>3, <1>10, SetsStatus, Zenon DEF DoInnerErr
  <2>2. QED
    BY <1>18, <1>6, <2>1, Zenon DEF DoInnerErr, AbortTask, queueVars
<1>19. CASE RunPermissionCheck
  BY <1>19, <1>2, <1>7, <1>10, Zenon DEF RunPermissionCheck, queueVars, statusVars
<1>20. CASE StartSync
  BY <1>20, <1>2, <1>7, <1>10, Zenon DEF StartSync, queueVars, statusVars
<1>21. ASSUME NEW s \in Ops \cup Pulls, HandleControlAckRecv(s)
      PROVE  Earned'
  <2>1. UNCHANGED called
    BY <1>21, Zenon DEF HandleControlAckRecv, queueVars
  <2>2. CASE /\ SetOperationStatus("SEND_FINISHED", taskErrCode)
             /\ earned' = earned \cup {<<"send", s>>}
    <3>1. Sets(MergedStatus("SEND_FINISHED", taskErrCode))
      BY <1>3, <2>2, SetsStatus, Zenon
    <3>2. s \in called /\ Mode[s] = "SUBSCRIBE_QUERY"
      BY <1>21, <1>3, Zenon DEF HandleControlAckRecv, Handled, Subscribed, Sessions
    <3>3. Told(op) => s = op
      BY <3>2, Zenon DEF Told
    <3>4. QED
      BY <1>11, <2>1, <2>2, <3>1, <3>3, Zenon
  <2>3. QED
    BY <1>21, <1>2, <1>7, <1>10, <2>1, <2>2, Zenon DEF HandleControlAckRecv, statusVars
<1>22. ASSUME NEW s \in Ops \cup Pulls, HandleDataAckRecv(s)
      PROVE  Earned'
  <2>1. UNCHANGED called
    BY <1>22, Zenon DEF HandleDataAckRecv, queueVars
  <2>2. CASE SendFinished(s)
    <3>1. /\ Sets(MergedStatus("SEND_FINISHED", taskErrCode)) /\ s = dataSession
          /\ earned' = earned \cup {<<"send", s>>}
      BY <1>3, <2>2, SetsStatus, Zenon DEF SendFinished
    <3>2. CASE op = None \/ op = s
      BY <1>11, <2>1, <3>1, <3>2, Zenon
    <3>3. CASE op # None /\ op # s
      <4>1. dataSession \in Pulls
        BY <1>3, <3>1, <3>3, Zenon DEF Data, Current
      <4>2. Sent
        BY <1>3, <4>1, Zenon DEF InResponse, Responding
      <4>3. CASE op \in killed \/ Final(status[op])
        BY <1>11, <2>1, <3>1, <4>3, Zenon
      <4>4. CASE status[op] = "SEND_FINISHED"
        <5>1. MergedStatus("SEND_FINISHED", taskErrCode) = status[op]
          BY <4>4, Zenon DEF MergedStatus
        <5>2. ~(op \in AutoSync) /\ Told(op) => Shows(op, status[op], earned')
          BY <1>3, <1>5, <3>1, <3>3, Zenon DEF Shows
        <5>3. QED
          BY <1>4, <2>1, <3>1, <5>1, <5>2, Zenon
      <4>5. CASE taskErrCode = "E_EKEYREVOKED" /\ status[op] = "RECV_FINISHED"
        <5>1. MergedStatus("SEND_FINISHED", taskErrCode) = "EKEYREVOKED_FAILURE"
          BY <4>5, Zenon DEF MergedStatus
        <5>2. QED
          BY <1>4, <2>1, <3>1, <5>1, Zenon DEF Shows
      <4>6. QED
        BY <3>3, <4>2, <4>3, <4>4, <4>5, Zenon DEF Sent
    <3>4. QED
      BY Zenon, <3>2, <3>3
  <2>3. CASE AckNotPermit(s)
    BY <1>2, <1>7, <1>10, <2>1, <2>3, Zenon DEF AckNotPermit, statusVars
  <2>4. CASE UNCHANGED <<status, earned>>
    BY <1>2, <2>1, <2>4, Zenon
  <2>5. QED
    BY <1>22, <2>2, <2>3, <2>4, Zenon DEF HandleDataAckRecv, AckChangesNothing,
       NeedAbilitySyncHandle, ReSendFromPeerMark, AckError, ContinueTimesOut, statusVars
<1>23. ASSUME NEW s \in Ops \cup Pulls, DataRecvErrCodeHandle(s)
      PROVE  Earned'
  <2>1. UNCHANGED called /\ s = requestSession /\ s # None
    BY <1>23, <1>3, Zenon DEF DataRecvErrCodeHandle, queueVars
  <2>2. op # None => op = s
    BY <1>3, <2>1, Zenon DEF Current
  <2>3. CASE /\ SetOperationStatus("RECV_FINISHED", taskErrCode)
             /\ earned' = earned \cup {<<"recv", s>>}
    <3>1. Sets(MergedStatus("RECV_FINISHED", taskErrCode))
      BY <1>3, <2>3, SetsStatus, Zenon
    <3>2. QED
      BY <1>12, <2>1, <2>2, <2>3, <3>1, Zenon
  <2>4. CASE /\ "ekey" \in Faults /\ mode = "PUSH_AND_PULL" /\ UNCHANGED earned
             /\ SetOperationStatus("RECV_FINISHED", "E_EKEYREVOKED")
    <3>1. Sets(MergedStatus("RECV_FINISHED", "E_EKEYREVOKED"))
      BY <1>3, <2>4, SetsStatus, Zenon
    <3>2. op # None => ~Told(op)
      BY <1>3, <2>4, Zenon DEF Told, Current, UserModes
    <3>3. QED
      BY <1>4, <2>1, <2>4, <3>1, <3>2, Zenon
  <2>5. CASE UNCHANGED <<status, earned>>
    BY <1>2, <2>1, <2>5, Zenon
  <2>6. QED
    BY <1>23, <2>3, <2>4, <2>5, Zenon DEF DataRecvErrCodeHandle, statusVars
<1>24. CASE ClearAllSyncTask
  <2>1. \A x \in Ops \ AutoSync : status'[x] \in {status[x], "COMM_ABNORMAL"}
    BY <1>24, <1>3, Zenon DEF ClearAllSyncTask, SetStatus
  <2>2. UNCHANGED <<called, earned>>
    BY <1>24, Zenon DEF ClearAllSyncTask
  <2>3. ASSUME NEW x \in called \ AutoSync, Told(x)
        PROVE  Shows(x, status'[x], earned)
    <3>1. Shows(x, status[x], earned) /\ Shows(x, "COMM_ABNORMAL", earned)
      BY <1>5, <2>3, Zenon DEF Shows
    <3>2. QED
      BY <1>3, <2>1, <2>3, <3>1, Zenon
  <2>4. QED
    BY <1>3, <2>2, <2>3, Zenon DEF Earned, Shows, Told, Mode, AutoSync, Faults
<1>25. ASSUME NEW o \in Ops, AddSyncOperation(o)
      PROVE  Earned'
  <2>1. \A x \in Ops \ {o} : status'[x] = status[x]
    BY <1>25, <1>3, Zenon DEF AddSyncOperation, SetStatus
  <2>2. o \notin called /\ called' = called \cup {o} /\ earned' = earned
    BY <1>25, Zenon DEF AddSyncOperation
  <2>3. o \notin AutoSync => status'[o] = "WAITING"
    BY <1>25, <1>3, <2>2, Zenon DEF AddSyncOperation, Uncalled
  <2>4. ASSUME NEW x \in called' \ AutoSync, Told(x)'
        PROVE  Shows(x, status'[x], earned')
    <3>1. CASE x = o
      BY <2>3, <2>4, <3>1, Zenon DEF Shows
    <3>2. CASE x # o
      <4>1. Told(x)
        BY <1>3, <2>2, <2>4, Zenon DEF Told, Mode, Faults
      <4>2. status'[x] = status[x] /\ x \in called \ AutoSync
        BY <1>3, <2>1, <2>2, <2>4, <3>2, Zenon
      <4>3. QED
        BY <1>5, <2>2, <4>1, <4>2, Zenon
    <3>3. QED
      BY Zenon, <3>1, <3>2
  <2>5. QED
    BY <1>3, <2>4, Zenon DEF Earned, Shows, Mode, AutoSync
<1>26. CASE \/ DoTimeSync \/ DoAbilitySync \/ DoPassiveDataSyncWithSlidingWindow
            \/ DoWaitForDataRecv \/ DoSyncTaskFinished \/ NoTaskLeft
            \/ CancelForPullResponse \/ PullResponseAdded \/ ExecSyncTask
            \/ ExecSyncTaskFinished \/ Fire \/ TimeoutCallback \/ StepToTimeout
            \/ SyncStepInnerLocked \/ CommErrAbort \/ LocalWrite
  BY <1>26, <1>2, Zenon DEF DoTimeSync, DoAbilitySync, DoPassiveDataSyncWithSlidingWindow,
     DoWaitForDataRecv, DoSyncTaskFinished, NoTaskLeft, CancelForPullResponse,
     PullResponseAdded, ExecSyncTask, ExecSyncTaskFinished, Fire, TimeoutCallback,
     StepToTimeout, SyncStepInnerLocked, CommErrAbort, LocalWrite, statusVars, queueVars
<1>27. ASSUME NEW s \in Ops \cup Pulls,
             \/ TimeSyncFinished(s) \/ AbilitySyncRecv(s) \/ TimeMarkSyncRecv(s)
             \/ CommErrHandlerFunc(s)
             \/ \E k \in {"ability", "control"} : MessageCallbackPre(k, s)
      PROVE  Earned'
  BY <1>27, <1>2, Zenon DEF TimeSyncFinished, AbilitySyncRecv, TimeMarkSyncRecv,
     CommErrHandlerFunc, MessageCallbackPre, statusVars, queueVars
<1>28. ASSUME NEW o \in Ops,
             \/ AddSyncTarget(o) \/ TargetAdded(o) \/ RemoveSyncOperation(o)
             \/ StopSync(o)
      PROVE  Earned'
  BY <1>28, <1>2, Zenon DEF AddSyncTarget, TargetAdded, RemoveSyncOperation, StopSync,
     statusVars, queueVars
<1>29. ASSUME NEW p \in Pulls,
             AddPullResponseTarget(p)
      PROVE  Earned'
  BY <1>29, <1>2, Zenon DEF AddPullResponseTarget, statusVars, queueVars
<1>30. QED
  BY Zenon, <1>13, <1>14, <1>15, <1>16, <1>17, <1>18, <1>19, <1>20, <1>21, <1>22, <1>23, <1>24,
     <1>25, <1>26, <1>27, <1>28, <1>29, Zenon DEF Next, Handler, Exec, Timer, LateAck,
     Peer, User

(***************************************************************************)
(* The theorems                                                            *)
(***************************************************************************)

\* Every state that the threads of one context can reach, whatever operations the
\* user adds, whatever the peer sends and whatever fails, satisfies the invariant.
THEOREM Invariance == Spec => []Inv
<1>1. Init => Inv
  BY Zenon, InvInit
<1>2. Inv /\ [Next /\ UNCHANGED scenario]_<<vars, scenario>> => Inv'
  <2>1. CASE Next /\ UNCHANGED scenario
    <3>1. ASSUME Inv PROVE Inv'
      BY <2>1, <3>1, TypedKept, MachineKept, QueuedKept, CurrentKept, RoutedKept,
         UncalledKept, UnpulledKept, SubscribedKept, DataKept, OperationsKept, EarnedKept,
         Zenon DEF Inv
    <3>2. QED
      BY Zenon, <3>1
  <2>2. CASE UNCHANGED <<vars, scenario>>
    BY Zenon, <2>2, InvStutter
  <2>3. QED
    BY Zenon, <2>1, <2>2
<1>3. QED
  BY <1>1, <1>2, PTL DEF Spec

\* A context that says RUNNING, and so takes no new ExecSyncTask, has a thread or a
\* timer that brings its state machine on, for any number of operations and pulls;
\* and the ExecSyncTask that starts the machine finds it in IDLE.
THEOREM TaskHasWakeup == Spec => []RunningHasWakeup
<1>1. Inv => RunningHasWakeup
  BY Zenon DEF Inv, Machine, RunningHasWakeup
<1>2. QED
  BY <1>1, Invariance, PTL

\* AddSyncTarget never leaves a target in a queue at which nobody will look: either
\* the task of the context runs, or a thread is about to start it.
THEOREM TargetHasStarter == Spec => []WaitingHasStarter
<1>1. Inv => WaitingHasStarter
  BY Zenon DEF Inv, Queued, WaitingHasStarter
<1>2. QED
  BY <1>1, Invariance, PTL

\* No operation handed to AddSyncOperation is lost between the queue, the current
\* target of the context and its final status: MoveToNextTarget, Abort and Clear let
\* an operation go only once it is finished or killed.
THEOREM OperationsTracked == Spec => []NoOperationDropped
<1>1. Inv => NoOperationDropped
  BY Zenon DEF Inv, Typed, Kept, Tracked, NoOperationDropped
<1>2. QED
  BY <1>1, Invariance, PTL

\* SetOperationStatus, which merges two half-finished statuses to OP_FINISHED_ALL,
\* tells the user of a success only when the peer confirmed each half that the mode
\* of the operation has, or the push was skipped.
THEOREM SuccessEarned == Spec => []SuccessIsEarned
<1>1. Inv => SuccessIsEarned
  BY Zenon DEF Inv, Earned, Told, Shows, SuccessIsEarned
<1>2. QED
  BY <1>1, Invariance, PTL

============================================================================
