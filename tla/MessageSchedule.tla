--------------------------- MODULE MessageSchedule ---------------------------
(***************************************************************************)
(* SingleVerDataMessageSchedule: the queue, the reorder map and the one    *)
(* worker through which a device receives the data packets of one peer,    *)
(* together with the loop SingleVerSyncStateMachine::ScheduleMsgAndHandle  *)
(* that the receiving threads run over it.                                 *)
(*                                                                         *)
(* A step of a thread is one critical section of queueLock_, workingLock_  *)
(* or lock_, or the unlocked work between two of them.  lock_ is held over *)
(* the loops at "fill" and "get", which take one step per message.         *)
(*                                                                         *)
(* A definition named ...Mutant is a deliberately wrong variant of the     *)
(* definition below it and takes no part in the specification.             *)
(***************************************************************************)
EXTENDS Naturals, Sequences, FiniteSets

CONSTANTS
    Threads,            \* pool threads that deliver data packets of the peer
    Messages,           \* the data packets the peer may send
    NoMsg,              \* nullptr
    PacketIdSpace,      \* number of values of a packet id: 2^64 in the code
    StartVersions,      \* is the remote version known to be >= 3.0 at first?
    MaxPut,             \* bound: packets delivered
    MaxVersionSwitch    \* bound: changes of the known remote version

(* Session ids, sequence ids and packet ids start at 1.                    *)
ASSUME MessagesAssumption ==
    /\ Messages \subseteq [session : Nat \ {0}, seq : Nat \ {0},
                           packet : 1 .. PacketIdSpace - 1]
    /\ NoMsg \notin Messages

(* SingleVerDataSync gives every packet it sends a new packet id, so a     *)
(* packet's id is never smaller than its position in the sequence.         *)
ASSUME NumberingAssumption == \A m \in Messages : m.packet >= m.seq

ASSUME BoundsAssumption ==
    /\ PacketIdSpace \in Nat \ {0}
    /\ StartVersions \subseteq BOOLEAN
    /\ MaxPut \in Nat
    /\ MaxVersionSwitch \in Nat

VARIABLES
    msgQueue, isNeedReload,                 \* under queueLock_
    isWorking,                              \* under workingLock_
    messageMap, prevSessionId, currentSessionId,
    finishedPacketId, expectedSequenceId,   \* under lock_
    timerArmed,          \* timerId_ # 0
    timeoutPc,           \* where the TimeOut callback of the timer is
    timeoutCurrent,      \* its timer id is still timerId_
    highVersion,         \* context: remote software version >= 3.0
    waterMarkErr,        \* context: isReceiveWaterMarkErr_
    pc, msg, isNeedHandle, isNeedClearMap, tmpQueue,   \* per thread
    puts, versionSwitches, cleared,         \* what bounds the environment
    handled              \* history: packets counted as handled since the last restart

queueVars  == <<msgQueue, isNeedReload>>
mapVars    == <<messageMap, prevSessionId, currentSessionId,
                finishedPacketId, expectedSequenceId>>
timerVars  == <<timerArmed, timeoutPc, timeoutCurrent>>
ctxVars    == <<highVersion, waterMarkErr>>
localVars  == <<msg, isNeedHandle, isNeedClearMap, tmpQueue>>
boundVars  == <<puts, versionSwitches, cleared>>
vars == <<queueVars, isWorking, mapVars, timerVars, ctxVars, pc, localVars,
          boundVars, handled>>

EmptyMap == [s \in {} |-> NoMsg]

(* messageMap_ with the entry of s set, or erased.                         *)
PutEntry(map, s, m) == [k \in DOMAIN map \cup {s} |->
                            IF k = s THEN m ELSE map[k]]
EraseEntry(map, s)  == [k \in DOMAIN map \ {s} |-> map[k]]

Init ==
    /\ msgQueue = <<>>           /\ isNeedReload = FALSE
    /\ isWorking = FALSE         /\ messageMap = EmptyMap
    /\ prevSessionId = 0         /\ currentSessionId = 0
    /\ finishedPacketId = 0      /\ expectedSequenceId = 0
    /\ timerArmed = FALSE        /\ timeoutPc = "off"
    /\ timeoutCurrent = FALSE
    /\ highVersion \in StartVersions
    /\ waterMarkErr = FALSE
    /\ pc = [t \in Threads |-> "idle"]
    /\ msg = [t \in Threads |-> NoMsg]
    /\ isNeedHandle = [t \in Threads |-> TRUE]
    /\ isNeedClearMap = [t \in Threads |-> FALSE]
    /\ tmpQueue = [t \in Threads |-> <<>>]
    /\ puts = 0  /\ versionSwitches = 0  /\ cleared = FALSE
    /\ handled = {}

LockFree == \A t \in Threads : pc[t] \notin {"fill", "get"}

Goto(t, from, to) == pc[t] = from /\ pc' = [pc EXCEPT ![t] = to]

-----------------------------------------------------------------------------
(* A packet arrives on a pool thread: PutDataMsg, then the loop starts.    *)
PutMsg(t, m) ==
    /\ puts < MaxPut
    /\ Goto(t, "idle", "move")
    /\ msgQueue' = Append(msgQueue, m)
    /\ isNeedReload' = TRUE
    /\ puts' = puts + 1
    /\ UNCHANGED <<isWorking, mapVars, timerVars, ctxVars, localVars,
                   versionSwitches, cleared, handled>>

(* MoveNextMsg with a remote below 3.0: the newest packet only, and        *)
(* isWorking_ is neither read nor set.                                     *)
GetLastMsgFromQueue(t) ==
    /\ ~highVersion
    /\ isNeedReload' = FALSE
    /\ IF msgQueue = <<>>
       THEN /\ Goto(t, "move", "reload")
            /\ UNCHANGED <<msgQueue, msg>>
       ELSE /\ Goto(t, "move", "handle")
            /\ msg' = [msg EXCEPT ![t] = msgQueue[Len(msgQueue)]]
            /\ msgQueue' = <<>>
    /\ UNCHANGED <<isWorking, mapVars, timerVars, ctxVars, isNeedHandle,
                   isNeedClearMap, tmpQueue, boundVars, handled>>

MayWorkMutant == TRUE
MayWork == ~isWorking

(* MoveNextMsg: another thread is working, this one leaves the loop.       *)
MoveNextBusy(t) ==
    /\ highVersion
    /\ ~MayWork
    /\ Goto(t, "move", "idle")
    /\ UNCHANGED <<queueVars, isWorking, mapVars, timerVars, ctxVars,
                   localVars, boundVars, handled>>

MoveNextWork(t) ==
    /\ highVersion
    /\ MayWork
    /\ Goto(t, "move", "load")
    /\ isWorking' = TRUE
    /\ UNCHANGED <<queueVars, mapVars, timerVars, ctxVars, localVars,
                   boundVars, handled>>

(* ResetTimer, which may fail to arm a new timer, and the part of          *)
(* UpdateMsgMap under queueLock_.                                          *)
UpdateMsgMap(t) ==
    /\ LockFree
    /\ Goto(t, "load", "fill")
    /\ timerArmed' \in BOOLEAN
    /\ timeoutCurrent' = FALSE
    /\ tmpQueue' = [tmpQueue EXCEPT ![t] = msgQueue]
    /\ msgQueue' = <<>>
    /\ isNeedReload' = FALSE
    /\ UNCHANGED <<isWorking, mapVars, timeoutPc, ctxVars, msg, isNeedHandle,
                   isNeedClearMap, boundVars, handled>>

MapKey(m) == m.seq

ExpectedOfNewSession == 1

(* UpdateMsgMapIfNeed: late packets of the previous session are dropped, a *)
(* packet of a new session starts the map afresh, and of two packets with  *)
(* one sequence id the one with the larger packet id stays.                *)
UpdateMsgMapIfNeed(m) ==
    LET newSession == m.session # currentSessionId
        map        == IF newSession THEN EmptyMap ELSE messageMap
        stale      == /\ MapKey(m) \in DOMAIN map
                      /\ m.packet < map[MapKey(m)].packet
    IN IF prevSessionId # 0 /\ m.session = prevSessionId
       THEN UNCHANGED <<mapVars, handled>>
       ELSE /\ messageMap' = IF stale THEN map
                             ELSE PutEntry(map, MapKey(m), m)
            /\ IF newSession
               THEN /\ prevSessionId' = currentSessionId
                    /\ currentSessionId' = m.session
                    /\ finishedPacketId' = 0
                    /\ expectedSequenceId' = ExpectedOfNewSession
                    /\ handled' = {}
               ELSE UNCHANGED <<prevSessionId, currentSessionId,
                                finishedPacketId, expectedSequenceId, handled>>

(* One iteration of UpdateMsgMapInner, or its end.                         *)
UpdateMsgMapInner(t) ==
    /\ IF tmpQueue[t] = <<>>
       THEN /\ Goto(t, "fill", "filled")
            /\ UNCHANGED <<tmpQueue, mapVars, handled>>
       ELSE /\ Goto(t, "fill", "fill")
            /\ tmpQueue' = [tmpQueue EXCEPT ![t] = Tail(@)]
            /\ UpdateMsgMapIfNeed(Head(tmpQueue[t]))
    /\ UNCHANGED <<queueVars, isWorking, timerVars, ctxVars, msg,
                   isNeedHandle, isNeedClearMap, boundVars>>

(* The smallest packet id a repeated packet s may carry and still be a     *)
(* resend of the handled one (uint64_t arithmetic).                        *)
RevisePacketIdMutant(s) ==
    (finishedPacketId + PacketIdSpace + 1 - (expectedSequenceId - 1 - s))
        % PacketIdSpace
RevisePacketId(s) ==
    (finishedPacketId + PacketIdSpace - (expectedSequenceId - 1 - s))
        % PacketIdSpace

(* GetMsgFromMap, one iteration: s is the smallest cached sequence id.     *)
FirstInMap(s) == s \in DOMAIN messageMap
                 /\ \A k \in DOMAIN messageMap : s <= k

Expired(s) ==
    \/ s < expectedSequenceId /\ messageMap[s].packet < RevisePacketId(s)
    \/ s = expectedSequenceId /\ messageMap[s].packet < finishedPacketId

DueMutant(s) == s <= expectedSequenceId + 1
Due(s) == s <= expectedSequenceId

NeedHandleMutant(s) == TRUE
NeedHandle(s) == s = expectedSequenceId

InGet(t) == pc[t] = "get" \/ (pc[t] = "filled" /\ LockFree)

GetMsgDrop(t, s) ==
    /\ InGet(t) /\ FirstInMap(s) /\ Expired(s)
    /\ messageMap' = EraseEntry(messageMap, s)
    /\ pc' = [pc EXCEPT ![t] = "get"]
    /\ UNCHANGED <<queueVars, isWorking, prevSessionId, currentSessionId,
                   finishedPacketId, expectedSequenceId, timerVars, ctxVars,
                   localVars, boundVars, handled>>

GetMsgTake(t, s) ==
    /\ InGet(t) /\ FirstInMap(s) /\ ~Expired(s) /\ Due(s)
    /\ messageMap' = EraseEntry(messageMap, s)
    /\ msg' = [msg EXCEPT ![t] = messageMap[s]]
    /\ isNeedHandle' = [isNeedHandle EXCEPT ![t] = NeedHandle(s)]
    /\ pc' = [pc EXCEPT ![t] = "handle"]
    /\ UNCHANGED <<queueVars, isWorking, prevSessionId, currentSessionId,
                   finishedPacketId, expectedSequenceId, timerVars, ctxVars,
                   isNeedClearMap, tmpQueue, boundVars, handled>>

NothingDueMutant == \A k \in DOMAIN messageMap : k >= expectedSequenceId
NothingDue == \A k \in DOMAIN messageMap : k > expectedSequenceId

(* Nothing to handle: StopTimer follows at once.                           *)
GetMsgNone(t) ==
    /\ InGet(t)
    /\ NothingDue
    /\ pc' = [pc EXCEPT ![t] = "free"]
    /\ timerArmed' = FALSE
    /\ timeoutCurrent' = FALSE
    /\ UNCHANGED <<queueVars, isWorking, mapVars, timeoutPc, ctxVars,
                   localVars, boundVars, handled>>

(* The end of MoveNextMsg without a packet.                                *)
SetWorkingFree(t) ==
    /\ Goto(t, "free", "reload")
    /\ isWorking' = FALSE
    /\ UNCHANGED <<queueVars, mapVars, timerVars, ctxVars, localVars,
                   boundVars, handled>>

NeedReload == isNeedReload

(* IsNeedReloadQueue: go round again when a packet came in meanwhile.      *)
IsNeedReloadQueue(t) ==
    /\ Goto(t, "reload", IF NeedReload THEN "move" ELSE "idle")
    /\ UNCHANGED <<queueVars, isWorking, mapVars, timerVars, ctxVars,
                   localVars, boundVars, handled>>

(* HandleDataRequestRecv.  "saved": DataRequestRecvPre passed, which       *)
(* resets the water mark flag, and the packet was dealt with;              *)
(* "waterMarkErr" sets the flag; "refused" leaves it as an earlier packet  *)
(* set it; "needAbility" is -E_NEED_ABILITY_SYNC; "timeOut" is the time    *)
(* offset that could not be had.                                           *)
Outcomes == {"saved", "waterMarkErr", "refused", "needAbility", "timeOut"}

HandleDataRequestRecv(t, out) ==
    /\ isNeedHandle[t]
    /\ Goto(t, "handle", "sched")
    /\ waterMarkErr' = CASE out = "saved" -> FALSE
                         [] out = "waterMarkErr" -> TRUE
                         [] OTHER -> waterMarkErr
    /\ isNeedClearMap' = [isNeedClearMap EXCEPT ![t] =
                              waterMarkErr' \/ out = "needAbility"]
    /\ isNeedHandle' = [isNeedHandle EXCEPT ![t] = out # "timeOut"]
    /\ UNCHANGED <<queueVars, isWorking, mapVars, timerVars, highVersion, msg,
                   tmpQueue, boundVars, handled>>

(* SendFinishedDataAck: the packet repeats one that was handled.           *)
SendFinishedDataAck(t) ==
    /\ ~isNeedHandle[t]
    /\ Goto(t, "handle", "sched")
    /\ UNCHANGED <<queueVars, isWorking, mapVars, timerVars, ctxVars,
                   localVars, boundVars, handled>>

(* The version check of the loop and the part of ScheduleInfoHandle under  *)
(* lock_.                                                                  *)
ScheduleInfoHandle(t) ==
    /\ LockFree
    /\ Goto(t, "sched", "release")
    /\ IF isNeedHandle[t] /\ highVersion
       THEN /\ finishedPacketId' = msg[t].packet
            /\ messageMap' = IF isNeedClearMap[t] THEN EmptyMap ELSE messageMap
            /\ expectedSequenceId' = IF isNeedClearMap[t] THEN 1
                                     ELSE expectedSequenceId + 1
            /\ handled' = IF isNeedClearMap[t] THEN {} ELSE handled \cup {msg[t]}
       ELSE UNCHANGED <<finishedPacketId, messageMap, expectedSequenceId,
                        handled>>
    /\ UNCHANGED <<queueVars, isWorking, prevSessionId, currentSessionId,
                   timerVars, ctxVars, localVars, boundVars>>

(* ScheduleInfoHandle under workingLock_; the packet is deleted and the    *)
(* locals of the loop body end.                                            *)
ScheduleInfoRelease(t) ==
    /\ Goto(t, "release", "move")
    /\ isWorking' = FALSE
    /\ msg' = [msg EXCEPT ![t] = NoMsg]
    /\ isNeedHandle' = [isNeedHandle EXCEPT ![t] = TRUE]
    /\ isNeedClearMap' = [isNeedClearMap EXCEPT ![t] = FALSE]
    /\ UNCHANGED <<queueVars, mapVars, timerVars, ctxVars, tmpQueue,
                   boundVars, handled>>

-----------------------------------------------------------------------------
(* TimeOut runs on the event loop: three critical sections, after each of  *)
(* which the threads may move.                                             *)
TimerFire ==
    /\ timerArmed /\ timeoutPc = "off"
    /\ timeoutPc' = "reload"
    /\ timeoutCurrent' = TRUE
    /\ UNCHANGED <<queueVars, isWorking, mapVars, timerArmed, ctxVars, pc,
                   localVars, boundVars, handled>>

TimeOutCheckReload ==
    /\ timeoutPc = "reload"
    /\ timeoutPc' = IF isNeedReload THEN "off" ELSE "working"
    /\ UNCHANGED <<queueVars, isWorking, mapVars, timerArmed, timeoutCurrent,
                   ctxVars, pc, localVars, boundVars, handled>>

TimeOutCheckWorking ==
    /\ timeoutPc = "working"
    /\ timeoutPc' = IF isWorking THEN "off" ELSE "clear"
    /\ UNCHANGED <<queueVars, isWorking, mapVars, timerArmed, timeoutCurrent,
                   ctxVars, pc, localVars, boundVars, handled>>

TimeOutClear ==
    /\ timeoutPc = "clear" /\ LockFree
    /\ timeoutPc' = "off"
    /\ IF timeoutCurrent
       THEN messageMap' = EmptyMap /\ timerArmed' = FALSE
       ELSE UNCHANGED <<messageMap, timerArmed>>
    /\ UNCHANGED <<queueVars, isWorking, prevSessionId, currentSessionId,
                   finishedPacketId, expectedSequenceId, timeoutCurrent,
                   ctxVars, pc, localVars, boundVars, handled>>

(* ClearMsg, when the context of the peer is killed: StopTimer,            *)
(* ClearMsgQueue, ClearMsgMap.                                             *)
ClearMsg ==
    /\ ~cleared /\ LockFree
    /\ cleared' = TRUE
    /\ timerArmed' = FALSE /\ timeoutCurrent' = FALSE
    /\ msgQueue' = <<>>
    /\ messageMap' = EmptyMap
    /\ UNCHANGED <<isNeedReload, isWorking, prevSessionId, currentSessionId,
                   finishedPacketId, expectedSequenceId, timeoutPc, ctxVars,
                   pc, localVars, puts, versionSwitches, handled>>

(* Ability sync with the peer sets the remote software version, a failed   *)
(* one sets it back to 0.                                                  *)
SetRemoteSoftwareVersion ==
    /\ versionSwitches < MaxVersionSwitch
    /\ versionSwitches' = versionSwitches + 1
    /\ highVersion' = ~highVersion
    /\ UNCHANGED <<queueVars, isWorking, mapVars, timerVars, waterMarkErr, pc,
                   localVars, puts, cleared, handled>>

-----------------------------------------------------------------------------
MoveNextMsg(t) ==
    \/ GetLastMsgFromQueue(t) \/ MoveNextBusy(t) \/ MoveNextWork(t)
    \/ UpdateMsgMap(t) \/ UpdateMsgMapInner(t)
    \/ \E s \in DOMAIN messageMap : GetMsgDrop(t, s) \/ GetMsgTake(t, s)
    \/ GetMsgNone(t) \/ SetWorkingFree(t)

ScheduleMsgAndHandle(t) ==
    \/ MoveNextMsg(t)
    \/ IsNeedReloadQueue(t)
    \/ \E out \in Outcomes : HandleDataRequestRecv(t, out)
    \/ SendFinishedDataAck(t)
    \/ ScheduleInfoHandle(t) \/ ScheduleInfoRelease(t)

TimeOut == TimerFire \/ TimeOutCheckReload \/ TimeOutCheckWorking
           \/ TimeOutClear

Next ==
    \/ \E t \in Threads, m \in Messages : PutMsg(t, m)
    \/ \E t \in Threads : ScheduleMsgAndHandle(t)
    \/ TimeOut
    \/ ClearMsg
    \/ SetRemoteSoftwareVersion

Spec == Init /\ [][Next]_vars

-----------------------------------------------------------------------------
Pcs == {"idle", "move", "load", "fill", "filled", "get", "free", "reload",
        "handle", "sched", "release"}

QueueTypeOK == msgQueue \in Seq(Messages) /\ isNeedReload \in BOOLEAN

MapTypeOK ==
    /\ DOMAIN messageMap \subseteq Nat \ {0}
    /\ \A s \in DOMAIN messageMap :
           messageMap[s] \in Messages /\ messageMap[s].seq = s
    /\ prevSessionId \in Nat /\ currentSessionId \in Nat
    /\ finishedPacketId \in 0 .. PacketIdSpace - 1
    /\ expectedSequenceId \in Nat
    /\ handled \subseteq Messages

FlagTypeOK ==
    /\ isWorking \in BOOLEAN
    /\ timerArmed \in BOOLEAN /\ timeoutCurrent \in BOOLEAN
    /\ timeoutPc \in {"off", "reload", "working", "clear"}
    /\ highVersion \in BOOLEAN /\ waterMarkErr \in BOOLEAN
    /\ puts \in Nat /\ versionSwitches \in Nat /\ cleared \in BOOLEAN

ThreadTypeOK ==
    /\ pc \in [Threads -> Pcs]
    /\ msg \in [Threads -> Messages \cup {NoMsg}]
    /\ isNeedHandle \in [Threads -> BOOLEAN]
    /\ isNeedClearMap \in [Threads -> BOOLEAN]
    /\ tmpQueue \in [Threads -> Seq(Messages)]

(* Every field has its type; the map files a packet under its sequence id. *)
TypeOK == QueueTypeOK /\ MapTypeOK /\ FlagTypeOK /\ ThreadTypeOK

Handling(t) == pc[t] \in {"handle", "sched", "release"}
Working(t)  == pc[t] \in {"load", "fill", "filled", "get", "free"}
               \/ Handling(t)

(* The remote version was known to be 3.0 or above at first and is still   *)
(* the same.                                                               *)
AlwaysHigh == highVersion /\ versionSwitches = 0

AtMostOneWorks == \A t, u \in Threads : Working(t) /\ Working(u) => t = u

(* "only one thread is deal msg": no two threads are between the moment    *)
(* MoveNextMsg claims the work and the moment ScheduleInfoHandle gives it  *)
(* back, so isWorking_ really excludes.  It does so as long as the remote  *)
(* version does not change under the threads.                              *)
OnlyOneThreadDealsMsg == AlwaysHigh => AtMostOneWorks

(* What ScheduleInfoHandle is about to count as handled is the packet the  *)
(* schedule expects, of the session it is in: nothing moved the session or *)
(* the expected sequence id while the packet was being handled outside the *)
(* locks.                                                                  *)
CountsTheExpected ==
    AlwaysHigh => \A t \in Threads :
        pc[t] = "sched" /\ isNeedHandle[t] =>
            /\ msg[t].seq = expectedSequenceId
            /\ msg[t].session = currentSessionId

(* The subtraction behind the resend check never goes below zero, so a     *)
(* resent packet is not mistaken for an expired one.                       *)
ReviseNeverWraps ==
    AlwaysHigh => \A s \in DOMAIN messageMap :
        s < expectedSequenceId => expectedSequenceId - 1 - s <= finishedPacketId

(* No packet is left in the queue: a thread that leaves the loop, because   *)
(* another one is working or because there was nothing to load, leaves a   *)
(* packet that came in meanwhile to a thread still in the loop.  Nor in    *)
(* the map: what is cached when every thread has left the loop still waits *)
(* for a packet with a smaller sequence id.                                *)
NothingStranded ==
    (\A t \in Threads : pc[t] = "idle") =>
        /\ msgQueue = <<>>
        /\ AlwaysHigh => \A s \in DOMAIN messageMap : s > expectedSequenceId

(* A packet that gets an E_OK ack without being handled repeats a sequence *)
(* id of this session that was handled: the sender is never told that a    *)
(* packet arrived which the schedule skipped.                              *)
FinishedAckOnlyForHandled ==
    AlwaysHigh => \A t \in Threads :
        pc[t] = "handle" /\ ~isNeedHandle[t] =>
            \E m \in handled : m.session = msg[t].session /\ m.seq = msg[t].seq

(* A packet of the newest transmission of the window is answered, not      *)
(* dropped, so a sender that lost the acks can go on.  The packets of one  *)
(* transmission have consecutive packet ids, so packet - seq tells the     *)
(* transmissions apart: what GetMsgFromMap drops was sent before a packet  *)
(* that is already handled.                                                *)
ResendIsAcked ==
    AlwaysHigh /\ handled # {} => \A s \in DOMAIN messageMap :
        (\A h \in handled : h.packet + s <= messageMap[s].packet + h.seq)
            => ~Expired(s)
==============================================================================
