------------------------------ MODULE DataSync ------------------------------
(***************************************************************************)
(* One push task of a single-version store and the device that receives    *)
(* it: SingleVerDataSync (single_ver_data_sync.cpp) on both ends, the ack  *)
(* handlers of SingleVerSyncStateMachine, and the water marks kept by      *)
(* Metadata.                                                               *)
(*                                                                         *)
(* The sender numbers records by timestamp, sends them in blocks through a *)
(* window of unacknowledged packets, and moves its local water mark as     *)
(* soon as a block is handed to the communicator.  The receiver takes the  *)
(* packets of a session in order (module MessageSchedule), refuses a       *)
(* packet that starts above its peer water mark, saves the others and      *)
(* moves the peer water mark past them.  Packets and acks are lost and     *)
(* reordered; a packet waiting in the receiver's message map is one that   *)
(* is still on its way.                                                    *)
(*                                                                         *)
(* A definition named ...Mutant is a deliberately wrong variant of the     *)
(* definition below it and takes no part in the specification.             *)
(***************************************************************************)
EXTENDS Integers, FiniteSets

CONSTANTS
    Keys,           \* keys of the sender's store
    HighVersionWindowSize, \* HIGH_VERSION_WINDOW_SIZE
    Faults,         \* which of AllFaults may happen
    MaxClock, MaxSession, MaxPacket, MaxLoss \* bounds

AllFaults == {"sendTimeout", "markNotSaved", "saveFail", "truncate", "ackLost",
              "peerMarkNotSaved", "crash", "remove", "removeRace"}

ASSUME ConstantsAssumption ==
    /\ Faults \subseteq AllFaults
    /\ HighVersionWindowSize \in Nat \ {0}
    /\ MaxClock \in Nat /\ MaxSession \in Nat
    /\ MaxPacket \in Nat /\ MaxLoss \in Nat

VARIABLES
    store, clock,                     \* sender: timestamp of each key, 0 if absent
    localMark,                        \* sender: Metadata's local water mark
    requestSession, status,           \* sender: task context
    sessionId, reSendMap, windowSize, maxSequenceIdHasSent, isAllDataHasSent,
    packetId, continueToken, needRetry, sending,
    requests, acks, losses,           \* network
    saved, peerMark,                  \* receiver: data and Metadata's peer mark
    currentSession, prevSession, expected, finishedPacket, \* receiver: schedule
    handling,                         \* receiver: packet saved, mark not moved
    met                               \* history: what befell the running task

storeVars == <<store, clock>>
windowVars == <<sessionId, reSendMap, windowSize, maxSequenceIdHasSent,
                isAllDataHasSent>>
dataVars == <<packetId, continueToken, needRetry, sending>>
taskVars == <<requestSession, status>>
senderVars == <<localMark, taskVars, windowVars, dataVars>>
netVars == <<requests, acks, losses>>
schedVars == <<currentSession, prevSession, expected, finishedPacket>>
receiverVars == <<saved, peerMark, schedVars, handling>>
vars == <<storeVars, senderVars, netVars, receiverVars, met>>

NoPacket == [session |-> 0]

Marks == 0..(MaxClock + 1)

Records == {<<k, store[k]>> : k \in {x \in Keys : store[x] # 0}}

(* The records the storage returns for the time range from..to.            *)
GetSyncData(from, to) == {r \in Records : from <= r[2] /\ r[2] <= to}

Init ==
    /\ store = [k \in Keys |-> 0] /\ clock = 0
    /\ localMark = 0
    /\ requestSession = 0 /\ status = "idle"
    /\ sessionId = 0 /\ reSendMap = {} /\ windowSize = 0
    /\ maxSequenceIdHasSent = 0 /\ isAllDataHasSent = FALSE
    /\ packetId = 0 /\ continueToken = 0 /\ needRetry = FALSE
    /\ sending = FALSE
    /\ requests = {} /\ acks = {} /\ losses = 0
    /\ saved = [k \in Keys |-> 0] /\ peerMark = 0
    /\ currentSession = 0 /\ prevSession = 0 /\ expected = 0
    /\ finishedPacket = 0
    /\ handling = NoPacket
    /\ met = {}

-----------------------------------------------------------------------------
(* The user writes a record; TimeHelper gives it a new timestamp.          *)
Put(k) ==
    /\ clock < MaxClock
    /\ clock' = clock + 1
    /\ store' = [store EXCEPT ![k] = clock + 1]
    /\ UNCHANGED <<senderVars, netVars, receiverVars, met>>

(* CopyTargetData: the next sync target becomes the running task.          *)
CopyTargetData ==
    /\ status \in {"idle", "finished", "failed"}
    /\ requestSession < MaxSession
    /\ requestSession' = requestSession + 1
    /\ status' = "start"
    /\ packetId' = 0
    /\ needRetry' = FALSE
    /\ met' = {}
    /\ UNCHANGED <<storeVars, localMark, windowVars, continueToken, sending,
                   netVars, receiverVars>>

(* SyncStart of a session that has no unacknowledged packet:               *)
(* ResetSyncStatus, then the packets follow.                               *)
SyncStart ==
    /\ status = "start"
    /\ status' = "syncing"
    /\ sessionId' = requestSession
    /\ maxSequenceIdHasSent' = 0
    /\ isAllDataHasSent' = FALSE
    /\ reSendMap' = {}
    /\ windowSize' = HighVersionWindowSize
    /\ sending' = TRUE
    /\ UNCHANGED <<storeVars, met, localMark, requestSession, packetId,
                   continueToken, needRetry, netVars, receiverVars>>

InnerClearSyncStatusMutant ==
    /\ reSendMap' = {}
    /\ windowSize' = 0
    /\ maxSequenceIdHasSent' = 0
    /\ isAllDataHasSent' = FALSE
    /\ UNCHANGED sessionId
InnerClearSyncStatus ==
    /\ sessionId' = 0
    /\ reSendMap' = {}
    /\ windowSize' = 0
    /\ maxSequenceIdHasSent' = 0
    /\ isAllDataHasSent' = FALSE

(* AbortInner, after a fatal error or the last timeout of the task.        *)
AbortInner ==
    /\ InnerClearSyncStatus
    /\ continueToken' = 0
    /\ packetId' = 0
    /\ needRetry' = FALSE
    /\ sending' = FALSE
    /\ status' = "failed"

(* GetData: a fresh read from the local water mark, or the next block of   *)
(* the running one.                                                        *)
GetDataFrom == IF needRetry \/ continueToken = 0 THEN localMark
                                                 ELSE continueToken

(* A block from..end of the data to send: the storage cuts it by its size, *)
(* so it may end with any record.                                          *)
BlockEnd(from, end) ==
    \/ GetSyncData(from, clock) = {} /\ end = localMark
    \/ \E r \in GetSyncData(from, clock) : end = r[2]

(* SaveLocalWaterMark of what ReviseLocalMark makes of the block's end.    *)
MarkAfter(data, end) == IF data = {} THEN end ELSE end + 1

Request(seq, id, mark, data) ==
    [session |-> requestSession, seq |-> seq, packet |-> id, mark |-> mark,
     data |-> data]

UpdateSendInfo(start, end) ==
    /\ maxSequenceIdHasSent' = maxSequenceIdHasSent + 1
    /\ reSendMap' = reSendMap \cup
           {[seq |-> maxSequenceIdHasSent + 1, start |-> start, end |-> end,
             packet |-> packetId + 1]}
    /\ windowSize' = windowSize - 1
    /\ isAllDataHasSent' = (continueToken' = 0)
    /\ UNCHANGED sessionId

MayHappen(fault) == fault \in Faults

SendResults == {"ok"} \cup (Faults \cap {"sendTimeout", "markNotSaved"})

MoreToSend(window, allSent) == window > 0 /\ ~allSent

(* RequestStart, one turn of InnerSyncStart's loop.  A send that times out *)
(* leaves the packet to be resent and the water mark where it was, and     *)
(* ends the loop; a water mark that cannot be saved is only logged.        *)
RequestStart(end, result) ==
    LET from == GetDataFrom
        data == GetSyncData(from, end)
        mark == localMark
    IN /\ sending
       /\ packetId < MaxPacket
       /\ BlockEnd(from, end)
       /\ continueToken' = IF GetSyncData(end + 1, clock) = {} THEN 0
                                                              ELSE end + 1
       /\ needRetry' = FALSE
       /\ packetId' = packetId + 1
       /\ UpdateSendInfo(mark, end)
       /\ requests' = IF result = "sendTimeout" THEN requests
                      ELSE requests \cup
                           {Request(maxSequenceIdHasSent + 1, packetId + 1,
                                    mark, data)}
       /\ localMark' = IF result = "ok" THEN MarkAfter(data, end)
                                        ELSE localMark
       /\ sending' = (/\ result # "sendTimeout"
                      /\ MoreToSend(windowSize', isAllDataHasSent'))
       /\ UNCHANGED <<storeVars, met, taskVars, acks, losses, receiverVars>>

(* SendDataPacket fails for another reason: the task ends with an error.   *)
SendFails ==
    /\ sending
    /\ AbortInner
    /\ UNCHANGED <<storeVars, met, localMark, requestSession, netVars, receiverVars>>

OldestMutant(info) == \A i \in reSendMap : info.seq >= i.seq
Oldest(info) == \A i \in reSendMap : info.seq <= i.seq

(* The watchdog fires and the task may retry: ReSendData sends the oldest  *)
(* unacknowledged block again, read anew from the storage.  A resend that  *)
(* times out changes nothing; one that fails ends the task (TaskTimeout).  *)
ReSendData(info, end) ==
    LET data == GetSyncData(info.start, end)
    IN /\ status = "syncing" /\ ~sending
       /\ info \in reSendMap
       /\ Oldest(info)
       /\ \/ end = info.end
          \/ /\ MayHappen("truncate")
             /\ \E r \in GetSyncData(info.start, info.end) : end = r[2]
       /\ met' = met \cup IF end = info.end THEN {} ELSE {"cut"}
       /\ requests' = requests \cup
              {Request(info.seq, info.packet, info.start, data)}
       /\ LET next == IF info.end > info.start THEN info.end + 1 ELSE info.end
          IN localMark' = IF localMark >= next THEN localMark ELSE next
       /\ UNCHANGED <<storeVars, taskVars, windowVars, dataVars, acks, losses,
                      receiverVars>>

(* The watchdog fires and no retry is left, a resend fails, the peer goes  *)
(* offline, the user stops the task, or the sender restarts.               *)
TaskTimeout ==
    /\ status \in {"start", "syncing"} /\ ~sending
    /\ AbortInner
    /\ UNCHANGED <<storeVars, met, localMark, requestSession, netVars, receiverVars>>

-----------------------------------------------------------------------------
(* Receiver.  MessageSchedule hands over the packet that is due.           *)

(* UpdateMsgMapIfNeed: a packet of an unknown session starts a new one.    *)
NewSession(m) ==
    /\ handling = NoPacket
    /\ m \in requests
    /\ m.session # currentSession
    /\ m.session # prevSession
    /\ prevSession' = currentSession
    /\ currentSession' = m.session
    /\ expected' = 1
    /\ finishedPacket' = 0
    /\ UNCHANGED <<storeVars, met, senderVars, netVars, saved, peerMark, handling>>

IsDue(m) ==
    /\ handling = NoPacket
    /\ m \in requests
    /\ m.session = currentSession
    /\ m.seq = expected
    /\ m.packet >= finishedPacket

(* SetAckPacket: the ack of m with its code and the peer water mark.       *)
DataAck(m, code) ==
    [session |-> m.session, seq |-> m.seq, packet |-> m.packet,
     code |-> code, mark |-> peerMark]

RefusedMutant(m) == FALSE
Refused(m) == m.mark > peerMark

(* WaterMarkErrHandle: the packet starts above what was saved so far.  The *)
(* schedule then expects the session from its first packet again.          *)
WaterMarkErrHandle(m) ==
    /\ IsDue(m)
    /\ Refused(m)
    /\ requests' = requests \ {m}
    /\ acks' = acks \cup {DataAck(m, "waterMarkErr")}
    /\ expected' = 1
    /\ finishedPacket' = m.packet
    /\ UNCHANGED <<storeVars, met, senderVars, losses, saved, peerMark,
                   currentSession, prevSession, handling>>

(* DataRequestRecv when a check, made before the water marks are compared, *)
(* or the storage refuses the packet: the error is acknowledged and the    *)
(* packet counts as dealt with.                                            *)
SaveDataFails(m) ==
    /\ MayHappen("saveFail")
    /\ IsDue(m)
    /\ met' = met \cup {"refused"}
    /\ requests' = requests \ {m}
    /\ acks' = acks \cup {DataAck(m, "error")}
    /\ expected' = expected + 1
    /\ finishedPacket' = m.packet
    /\ UNCHANGED <<storeVars, senderVars, losses, saved, peerMark,
                   currentSession, prevSession, handling>>

(* PutSyncData keeps the newer of two records of a key.                    *)
Merge(data) ==
    [k \in Keys |-> IF \E r \in data : r[1] = k /\ r[2] > saved[k]
                    THEN CHOOSE t \in 1..MaxClock : <<k, t>> \in data
                    ELSE saved[k]]

(* DataRequestRecv: the data is saved and acknowledged ...                 *)
DataRequestRecv(m) ==
    /\ IsDue(m)
    /\ ~Refused(m)
    /\ requests' = requests \ {m}
    /\ saved' = Merge(m.data)
    /\ acks' = acks \cup {DataAck(m, "ok")}
    /\ handling' = m
    /\ UNCHANGED <<storeVars, met, senderVars, losses, peerMark, schedVars>>

(* GetRecvDataTimeRange: the end of the received block.                    *)
IsDataEnd(data, end) ==
    /\ \E r \in data : r[2] = end
    /\ \A r \in data : r[2] <= end

(* ... and then the peer water mark moves past it.                         *)
UpdatePeerWaterMark(mark) ==
    /\ handling # NoPacket
    /\ IF handling.data = {} THEN mark = peerMark
                             ELSE IsDataEnd(handling.data, mark - 1)
    /\ peerMark' = mark
    /\ expected' = expected + 1
    /\ finishedPacket' = handling.packet
    /\ handling' = NoPacket
    /\ UNCHANGED <<storeVars, met, senderVars, netVars, saved, currentSession,
                   prevSession>>

(* A peer water mark that cannot be saved is only logged.                  *)
SavePeerWaterMarkFails ==
    /\ MayHappen("peerMarkNotSaved")
    /\ losses < MaxLoss
    /\ losses' = losses + 1
    /\ handling # NoPacket
    /\ expected' = expected + 1
    /\ finishedPacket' = handling.packet
    /\ handling' = NoPacket
    /\ UNCHANGED <<storeVars, met, senderVars, requests, acks, saved, peerMark,
                   currentSession, prevSession>>

(* SendFinishedDataAck: a resent packet that was dealt with before.        *)
SendFinishedDataAck(m) ==
    /\ handling = NoPacket
    /\ m \in requests
    /\ m.session = currentSession
    /\ m.seq < expected
    /\ m.packet >= finishedPacket - (expected - 1 - m.seq)
    /\ requests' = requests \ {m}
    /\ acks' = acks \cup {DataAck(m, "ok")}
    /\ UNCHANGED <<storeVars, met, senderVars, losses, receiverVars>>

(* The receiving process restarts: what it saved stays.                    *)
ReceiverRestart ==
    /\ MayHappen("crash")
    /\ losses < MaxLoss
    /\ losses' = losses + 1
    /\ currentSession' = 0 /\ prevSession' = 0
    /\ expected' = 0 /\ finishedPacket' = 0
    /\ handling' = NoPacket
    /\ met' = met \cup {"restart"}
    /\ UNCHANGED <<storeVars, senderVars, requests, acks, saved, peerMark>>

(* RemoveDeviceData on the receiver: EraseDeviceWaterMark, then the rows,  *)
(* which stay when the storage fails.                                      *)
RemoveDeviceData(rowsToo) ==
    /\ MayHappen("removeRace") \/ (MayHappen("remove") /\ handling = NoPacket)
    /\ losses < MaxLoss
    /\ losses' = losses + 1
    /\ peerMark' = 0
    /\ met' = met \cup {"removed"}
    /\ saved' = IF rowsToo THEN [k \in Keys |-> 0] ELSE saved
    /\ UNCHANGED <<storeVars, senderVars, requests, acks, schedVars, handling>>

-----------------------------------------------------------------------------
(* The channel breaks while a packet, or an ack, is on its way.            *)
LoseRequest(m) ==
    /\ losses < MaxLoss
    /\ losses' = losses + 1
    /\ requests' = requests \ {m}
    /\ UNCHANGED <<storeVars, met, senderVars, acks, receiverVars>>

LoseAck(a) ==
    /\ MayHappen("ackLost")
    /\ losses < MaxLoss
    /\ losses' = losses + 1
    /\ acks' = acks \ {a}
    /\ UNCHANGED <<storeVars, met, senderVars, requests, receiverVars>>

-----------------------------------------------------------------------------
(* Sender, acks.  HandleDataAckRecv runs under the state machine's lock,   *)
(* so never in the middle of the sending loop.                             *)
IsPacketValid(a) ==
    /\ a \in acks
    /\ ~sending
    /\ status \in {"start", "syncing"}
    /\ a.session = requestSession

AckPacketIdCheck(a) ==
    \A i \in reSendMap : i.seq = a.seq => i.packet = a.packet

(* The ack is dropped: its session, or its attempt, is over.               *)
AckDropped(a) ==
    /\ a \in acks
    /\ ~sending
    /\ ~(IsPacketValid(a) /\ AckPacketIdCheck(a))
    /\ acks' = acks \ {a}
    /\ UNCHANGED <<storeVars, met, senderVars, requests, losses, receiverVars>>

AckOf(a, code) ==
    /\ IsPacketValid(a)
    /\ AckPacketIdCheck(a)
    /\ a.code = code
    /\ acks' = acks \ {a}

(* The remote reports an error: the task ends with it.                     *)
AckRecvError(a) ==
    /\ AckOf(a, "error")
    /\ AbortInner
    /\ UNCHANGED <<storeVars, met, localMark, requestSession, requests, losses,
                   receiverVars>>

(* An ack that no unacknowledged packet waits for: it passes               *)
(* AckPacketIdCheck, which compares packet ids only for one that does.     *)
Stale(a) == ~\E i \in reSendMap : i.seq = a.seq

(* DealWaterMarkException: go back to what the remote has, and start the   *)
(* session again.                                                          *)
DealWaterMarkException(a) ==
    /\ AckOf(a, "waterMarkErr")
    /\ localMark' = a.mark
    /\ needRetry' = TRUE
    /\ met' = met \cup {"exception"} \cup IF Stale(a) THEN {"stale"} ELSE {}
    /\ InnerClearSyncStatus
    /\ status' = "start"
    /\ UNCHANGED <<storeVars, requestSession, packetId, continueToken, sending,
                   requests, losses, receiverVars>>

(* TryContinueSync: the window moves on, or the last ack ends the task.    *)
TryContinueSync(a) ==
    LET rest == {i \in reSendMap : i.seq # a.seq}
    IN /\ AckOf(a, "ok")
       /\ IF a.session # sessionId \/ rest = reSendMap
          THEN UNCHANGED <<taskVars, windowVars, dataVars>>
          ELSE IF isAllDataHasSent /\ rest = {}
          THEN /\ InnerClearSyncStatus
               /\ status' = "finished"
               /\ UNCHANGED <<requestSession, dataVars>>
          ELSE /\ reSendMap' = rest
               /\ windowSize' = windowSize + 1
               /\ sending' = ~isAllDataHasSent
               /\ UNCHANGED <<taskVars, sessionId, maxSequenceIdHasSent,
                              isAllDataHasSent, packetId, continueToken,
                              needRetry>>
       /\ UNCHANGED <<storeVars, met, localMark, requests, losses, receiverVars>>

-----------------------------------------------------------------------------
Sender ==
    \/ CopyTargetData \/ SyncStart \/ SendFails \/ TaskTimeout
    \/ \E end \in Marks, result \in SendResults :
           RequestStart(end, result)
    \/ \E info \in reSendMap, end \in Marks : ReSendData(info, end)
    \/ \E a \in acks : \/ AckDropped(a) \/ AckRecvError(a)
                       \/ DealWaterMarkException(a) \/ TryContinueSync(a)

Receiver ==
    \/ \E m \in requests : \/ NewSession(m) \/ WaterMarkErrHandle(m)
                           \/ SaveDataFails(m) \/ DataRequestRecv(m)
                           \/ SendFinishedDataAck(m)
    \/ \E mark \in Marks : UpdatePeerWaterMark(mark)
    \/ SavePeerWaterMarkFails \/ ReceiverRestart
    \/ \E rowsToo \in BOOLEAN : RemoveDeviceData(rowsToo)

Next ==
    \/ Sender \/ Receiver
    \/ \E m \in requests : LoseRequest(m)
    \/ \E a \in acks : LoseAck(a)
    \/ \E k \in Keys : Put(k)

Spec == Init /\ [][Next]_vars

(* The state machine steps at once, the pool threads handle what arrives,  *)
(* and the watchdog resends while the task may retry.  Nothing makes a     *)
(* task fail.                                                              *)
Fairness ==
    /\ WF_vars(SyncStart)
    /\ WF_vars(\E end \in Marks : RequestStart(end, "ok"))
    /\ WF_vars(\E info \in reSendMap, end \in Marks : ReSendData(info, end))
    /\ WF_vars(\E a \in acks : AckDropped(a))
    /\ WF_vars(\E a \in acks : DealWaterMarkException(a))
    /\ WF_vars(\E a \in acks : TryContinueSync(a))
    /\ WF_vars(\E m \in requests : NewSession(m))
    /\ WF_vars(\E m \in requests : WaterMarkErrHandle(m))
    /\ WF_vars(\E m \in requests : DataRequestRecv(m))
    /\ WF_vars(\E m \in requests : SendFinishedDataAck(m))
    /\ WF_vars(\E mark \in Marks : UpdatePeerWaterMark(mark))

FairSpec == Spec /\ Fairness

-----------------------------------------------------------------------------
Stamps == 0..MaxClock
DataSets == SUBSET (Keys \X Stamps)

RequestType ==
    [session : 1..MaxSession, seq : Nat \ {0}, packet : Nat \ {0},
     mark : Marks, data : DataSets]

AckType ==
    [session : 1..MaxSession, seq : Nat \ {0}, packet : Nat \ {0},
     code : {"ok", "waterMarkErr", "error"}, mark : Marks]

ReSendInfoType ==
    [seq : Nat \ {0}, start : Marks, end : Marks, packet : Nat \ {0}]

FlagTypeOK ==
    /\ isAllDataHasSent \in BOOLEAN /\ needRetry \in BOOLEAN
    /\ sending \in BOOLEAN

SenderTypeOK ==
    /\ store \in [Keys -> Stamps] /\ clock \in Stamps
    /\ localMark \in Marks /\ continueToken \in Marks
    /\ requestSession \in 0..MaxSession
    /\ status \in {"idle", "start", "syncing", "finished", "failed"}
    /\ sessionId \in {0, requestSession}
    /\ reSendMap \subseteq ReSendInfoType
    /\ windowSize \in 0..HighVersionWindowSize
    /\ maxSequenceIdHasSent \in Nat /\ packetId \in 0..MaxPacket

NetTypeOK ==
    /\ requests \subseteq RequestType /\ acks \subseteq AckType
    /\ losses \in 0..MaxLoss

HistoryTypeOK ==
    met \subseteq {"exception", "stale", "refused", "cut", "restart", "removed"}

ReceiverTypeOK ==
    /\ saved \in [Keys -> Stamps] /\ peerMark \in Marks
    /\ currentSession \in 0..MaxSession /\ prevSession \in 0..MaxSession
    /\ expected \in Nat /\ finishedPacket \in Nat
    /\ handling \in RequestType \cup {NoPacket}

(* Type correctness of both ends, the network and the history.             *)
TypeOK ==
    /\ FlagTypeOK /\ SenderTypeOK /\ NetTypeOK /\ ReceiverTypeOK
    /\ HistoryTypeOK

(* A record of the sender that the peer water mark has passed is saved on  *)
(* the receiver in the sender's newest version.  The next sync starts at   *)
(* the peer water mark at the latest, so a record below it that was not    *)
(* saved would never be sent again ("save data first",                     *)
(* single_ver_data_sync.cpp, DataRequestRecv).                             *)
PeerMarkCoversData ==
    \A k \in Keys : store[k] # 0 /\ store[k] < peerMark => saved[k] = store[k]

(* The plain claim: a push task that ended with OP_SEND_FINISHED has       *)
(* delivered every record the sender's water mark passed                   *)
(* (TryContinueSync).  The code does not keep it: see Misled.              *)
FinishedMeansDelivered ==
    status = "finished" =>
        \A k \in Keys : store[k] # 0 /\ store[k] < localMark
                          => saved[k] = store[k]

(* What befell the running task and lets it end well without delivering:   *)
(* the receiver refused a packet by its content, or the storage failed,    *)
(* and a repetition was acknowledged as dealt with; a resend held less     *)
(* than the packet it repeats; the user removed the data again; a stale    *)
(* water-mark error started the session anew; or the receiver forgot, in a *)
(* restart, up to which packet id such a session was dealt with, and takes *)
(* a packet of the earlier attempt for one of the new.                     *)
Misled ==
    \/ met \cap {"refused", "cut", "removed", "stale"} # {}
    \/ {"exception", "restart"} \subseteq met


(* Whatever packet is lost or late, a push task that is not stopped from   *)
(* outside comes to its end: the window, the sequence ids and the packet   *)
(* ids of the two sides never wait for each other (ReSendData,             *)
(* TryContinueSync, WaterMarkErrHandle).                                   *)
TaskFinishes == status = "start" ~> status \in {"finished", "failed"}
=============================================================================
